---------------------------- MODULE AtomicUpload ----------------------------
(***************************************************************************)
(* What UploadCatalogEntities promises, without requests, locks and        *)
(* transactions: what the files of a session say of entities takes effect  *)
(* in a single step, for all of these entities or none, and for no other.  *)
(* An entity has a kind, a content and ignored resources.                  *)
(***************************************************************************)
CONSTANTS
    Projects,
    Entities,       \* what a catalog can hold
    Sessions,
    ProjectOf(_),   \* the project of an entity
    HasKind(_),     \* whether an update may be of its kind alone
    Changed(_, _)   \* whether one content, over another, counts as a change

VARIABLES
    catalog,    \* entity -> kind, content and ignored resources
    owner,      \* session -> its project, for the sessions there are
    described   \* session -> what its files say of entities, in pairs

vars == <<catalog, owner, described>>

Init == /\ DOMAIN catalog = {}
        /\ DOMAIN owner = {}
        /\ described = [s \in Sessions |-> {}]

\* The entities that a session describes.
About(s) == {d[1] : d \in described[s]}

Open(s) == /\ s \notin DOMAIN owner
           /\ DOMAIN owner' = DOMAIN owner \union {s}
           /\ owner'[s] \in Projects
           /\ \A t \in DOMAIN owner : owner'[t] = owner[t]
           /\ UNCHANGED <<catalog, described>>

\* A file is added, or takes the place of one of its name.
Collect(s) == /\ s \in DOMAIN owner
              /\ \A t \in Sessions \ {s} : described'[t] = described[t]
              /\ \A d \in described'[s] : d[1] \in Entities /\ ProjectOf(d[1]) = owner[s]
              /\ UNCHANGED <<catalog, owner>>

\* What it says of an entity.
Says(s, e) == {d[2] : d \in {x \in described[s] : x[1] = e}}

\* Nothing the session says of an entity counts as a change, and its content
\* stays.
Stays(s, e) == /\ HasKind(e)
               /\ e \in DOMAIN catalog
               /\ catalog'[e].content = catalog[e].content
               /\ \A d \in Says(s, e) : ~Changed(catalog[e].content, d.content)

\* An entity of the session gets kind, content and ignored resources from there,
\* but for a content that stays, and ignored resources that stay with it or of
\* which the session says nothing.
TakesEffect(s, e) ==
    /\ \E d \in Says(s, e) : catalog'[e].kind = d.kind
    /\ \/ \E d \in Says(s, e) : catalog'[e].content = d.content
       \/ Stays(s, e)
    /\ \/ \E d \in Says(s, e) : catalog'[e].ignored = d.ignored
       \/ /\ e \in DOMAIN catalog
          /\ catalog'[e].ignored = catalog[e].ignored
          /\ Stays(s, e) \/ \E d \in Says(s, e) : d.ignored = {}

\* All that the session describes, and only that, changes.
Apply(s) == /\ DOMAIN catalog' = DOMAIN catalog \union About(s)
            /\ \A e \in DOMAIN catalog' :
                  IF e \in About(s) THEN TakesEffect(s, e)
                                    ELSE catalog'[e] = catalog[e]
            /\ UNCHANGED <<owner, described>>

\* Other requests delete an entity.
Remove(e) == /\ catalog' = [f \in DOMAIN catalog \ {e} |-> catalog[f]]
             /\ UNCHANGED <<owner, described>>

Next == \/ \E s \in Sessions : Open(s) \/ Collect(s) \/ Apply(s)
        \/ \E e \in DOMAIN catalog : Remove(e)

Spec == Init /\ [][Next]_vars
=============================================================================
