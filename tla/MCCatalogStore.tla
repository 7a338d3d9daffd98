--------------------------- MODULE MCCatalogStore ---------------------------
(* Instances of CatalogStore for TLC. *)
EXTENDS CatalogStore, TLC

\* Row ids, handlers, projects and versions are only compared for equality, and
\* are interchangeable.
RowSymmetry == Permutations(RegistryIds) \cup Permutations(ArtifactIds)
               \cup Permutations(ApplicationIds) \cup Permutations(PackageIds)
               \cup Permutations(Handlers) \cup Permutations(Projects)
               \cup Permutations(Versions)

Profiles(names) == [name : names, content : {"c1"}]

\* Requests that differ from the first in the content, or in a profile more.
PackageContents == {[content |-> "c1", profiles |-> Profiles({"n1"})],
                    [content |-> "c2", profiles |-> Profiles({"n1"})],
                    [content |-> "c1", profiles |-> Profiles({"n1", "n2"})]}

ApplicationContents ==
    {[content |-> b.content, profiles |-> b.profiles, ignored |-> {}] :
        b \in PackageContents}

\* Requests that differ in the ignored resources, or not at all.
PackagesAlike == {[content |-> "c1", profiles |-> {}]}

ApplicationsAlike == {[content |-> "c1", profiles |-> {}, ignored |-> {}]}

IgnoringApplications ==
    ApplicationsAlike \cup {[content |-> "c1", profiles |-> {}, ignored |-> {"i1"}]}
=============================================================================
