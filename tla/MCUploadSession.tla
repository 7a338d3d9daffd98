-------------------------- MODULE MCUploadSession --------------------------
(* Small uploads for UploadSession. *)
EXTENDS UploadSession

Plain(type, compared, refs) ==
    [type |-> type, name |-> 1, kind |-> 0,
     content |-> [compared |-> compared, profiles |-> {}], ignored |-> {}, refs |-> refs]

Application(kind, compared, profiles, ignored, refs) ==
    [type |-> "Application", name |-> 1, kind |-> kind,
     content |-> [compared |-> compared, profiles |-> profiles], ignored |-> ignored,
     refs |-> {<<"Registry", 1>>} \cup refs]

Package == Plain("DeploymentPackage", 1, {<<"Application", 1>>, <<"Artifact", 1>>})

\* Files that need each other, the application in a second form of another kind,
\* with an ignored resource and a profile more, which requires the package, and
\* an archive of two files with a third form.
MCUploads ==
    {[archive |-> FALSE, files |-> [f \in {"package"} |->
                                       <<Package, Plain("Registry", 1, {})>>]],
     [archive |-> FALSE, files |-> [f \in {"application"} |->
                                       <<Application(1, 1, {1}, {}, {}), Plain("Artifact", 1, {})>>]],
     [archive |-> FALSE, files |-> [f \in {"application"} |->
                                       <<Application(2, 1, {1, 2}, {1}, {<<"DeploymentPackage", 1>>}),
                                         Plain("Artifact", 2, {})>>]],
     [archive |-> TRUE, files |-> [f \in {"one", "two"} |->
                                      IF f = "one" THEN <<Application(2, 2, {3}, {2}, {})>>
                                      ELSE <<Plain("Registry", 2, {})>>]]}

\* Projects, sessions and requests are interchangeable.
SessionSymmetry == Permutations(Projects) \cup Permutations(SessionIds)
                   \cup Permutations(Requests)
=============================================================================
