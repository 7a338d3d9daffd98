-------------------------- MODULE MCEventListeners --------------------------
(* Small sets of changes and requests for EventListeners.                  *)
EXTENDS EventListeners, TLC

CONSTANTS p1, p2, w1, w2

change(entity, type, project, kind) ==
    [entity |-> entity, type |-> type, project |-> project, kind |-> kind]

request(entity, projectId, kinds, noReplay) ==
    [entity |-> entity, projectId |-> projectId, kinds |-> kinds,
     noReplay |-> noReplay]

\* Registries: no kinds.
RegistryChanges == {change("registry", "created", p1, "unspecified")}

\* Changes of two projects and two kinds, and a deletion.
MixedChanges == {change("application", "updated", p1, "addon"),
                 change("application", "created", p2, "normal"),
                 change("application", "deleted", p1, "normal")}

\* One stream replays, the other does not.
RegistryRequests == w1 :> request("registry", p1, {}, FALSE)
                    @@ w2 :> request("registry", AnyProject, {}, TRUE)

\* One stream watches a project, the other a kind.
MixedRequests == w1 :> request("application", p1, {}, FALSE)
                 @@ w2 :> request("application", AnyProject, {"normal"}, TRUE)

HandlerSymmetry == Permutations(Senders)
=============================================================================
