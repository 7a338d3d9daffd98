------------------------------- MODULE Paging -------------------------------
(***************************************************************************)
(* The page arithmetic of the List requests and a client that sweeps       *)
(* through a listing page by page, as the project wiper does.  The code's  *)
(* limits are parameters, so that TLC can run through every request.       *)
(***************************************************************************)
EXTENDS Integers, FiniteSets

CONSTANTS
    MaxPageSize,        \* 500 in the code
    DefaultPageSize,    \* 20 in the code
    IntLimit,           \* 2^31: int32 is -IntLimit .. IntLimit - 1
    MaxRows             \* bound: rows that match a listing

ASSUME PageSizes == /\ MaxPageSize \in Nat
                    /\ DefaultPageSize \in 1 .. MaxPageSize

ASSUME SizesFitTheWidth == /\ IntLimit \in Nat
                           /\ 2 * MaxPageSize < IntLimit

\* The number of rows is answered as an int32 too.
ASSUME RowsFitTheWidth == MaxRows \in Nat /\ MaxRows < IntLimit

Int32 == -IntLimit .. IntLimit - 1

\* The sum x of two int32 numbers wraps around once at most.
Wrap(x) == CASE x >= IntLimit -> x - 2 * IntLimit
             [] x < -IntLimit -> x + 2 * IntLimit
             [] OTHER -> x

VARIABLES
    total,      \* rows that match the listing
    pageSize,   \* of the requests
    offset,     \* of the next request
    first,      \* offset of the first request
    seen,       \* indices of the rows the client got
    pc          \* "reading", "done" or "failed"

vars == <<total, pageSize, offset, first, seen, pc>>

-----------------------------------------------------------------------------
\* The request is refused.
Invalid(size, from) == from < 0 \/ size < 0 \/ size > MaxPageSize

\* Mutant: the page's end alone is compared, in int32.
PageEndOnly(size, from, count) ==
    LET n == IF size = 0 THEN DefaultPageSize ELSE size IN
    IF count = 0 THEN [start |-> 0, end |-> 0]
    ELSE [start |-> from,
          end |-> IF Wrap(from + n) > count THEN count - 1 ELSE from + n - 1]

\* startIndex + offset is twice the offset; int is wide enough for it, while
\* offset + pageSize is added as int32.
computePageRange(size, from, count) ==
    LET n == IF size = 0 THEN DefaultPageSize ELSE size IN
    IF count = 0 THEN [start |-> 0, end |-> 0]
    ELSE [start |-> from,
          end |-> IF 2 * from > count \/ Wrap(from + n) > count
                  THEN count - 1 ELSE from + n - 1]

\* The rows the loop from startIndex to endIndex takes from the result; an
\* empty result is answered before the loop.
Page(size, from, count) ==
    IF count = 0 THEN {}
    ELSE computePageRange(size, from, count).start
             .. computePageRange(size, from, count).end

-----------------------------------------------------------------------------
\* Mutant: the offset is advanced before it is asked whether there is more.
ReadPageAdvancesFirst ==
    /\ pc = "reading"
    /\ ~Invalid(pageSize, offset)
    /\ LET page == Page(pageSize, offset, total) IN
       /\ seen' = seen \cup page
       /\ offset' = Wrap(offset + Cardinality(page))
       /\ pc' = IF total > offset + 2 * Cardinality(page) THEN "reading" ELSE "done"
    /\ UNCHANGED <<total, pageSize, first>>

\* Mutant: one more page is asked for when all rows were seen.
ReadPageAgain ==
    /\ pc = "reading"
    /\ ~Invalid(pageSize, offset)
    /\ LET page == Page(pageSize, offset, total) IN
       /\ seen' = seen \cup page
       /\ offset' = Wrap(offset + Cardinality(page))
       /\ pc' = IF total >= offset + Cardinality(page) THEN "reading" ELSE "done"
    /\ UNCHANGED <<total, pageSize, first>>

\* One round of the loop in preparePackagesForDeletion.
ReadPage ==
    /\ pc = "reading"
    /\ ~Invalid(pageSize, offset)
    /\ LET page == Page(pageSize, offset, total) IN
       /\ seen' = seen \cup page
       /\ offset' = Wrap(offset + Cardinality(page))
       /\ pc' = IF total > Wrap(offset + Cardinality(page)) THEN "reading" ELSE "done"
    /\ UNCHANGED <<total, pageSize, first>>

\* An invalid request ends the sweep.
Refused == /\ pc = "reading"
           /\ Invalid(pageSize, offset)
           /\ pc' = "failed"
           /\ UNCHANGED <<total, pageSize, offset, first, seen>>

Init == /\ total \in 0 .. MaxRows
        /\ pageSize \in Int32
        /\ offset \in Int32
        /\ first = offset
        /\ seen = {}
        /\ pc = "reading"

Next == ReadPage \/ Refused

Spec == Init /\ [][Next]_vars

\* A client that sweeps asks for the next page.
FairSpec == Spec /\ WF_vars(Next)

-----------------------------------------------------------------------------
\* The type of the state; in particular the offset never wraps.
TypeOK == /\ total \in 0 .. MaxRows
          /\ pageSize \in Int32
          /\ offset \in Int32
          /\ first \in Int32
          /\ seen \subseteq 0 .. MaxRows - 1
          /\ pc \in {"reading", "done", "failed"}

\* The loops of getRegistries, getArtifacts, getApplications and
\* getDeploymentPackages index the result only where it has rows, for every
\* offset and page size that is accepted, those that overflow int32 included.
PageInBounds ==
    ~Invalid(pageSize, offset) => Page(pageSize, offset, total) \subseteq 0 .. total - 1

\* A sweep from the first row ends having seen every row, whatever the page
\* size and although pages may be larger than asked for (hasMorePages).
SweepSeesAll == pc = "done" /\ first = 0 => seen = 0 .. total - 1

\* A sweep ends.
SweepEnds == <>(pc # "reading")

=============================================================================
