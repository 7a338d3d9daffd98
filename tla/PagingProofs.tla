---------------------------- MODULE PagingProofs ----------------------------
(***************************************************************************)
(* The page arithmetic for every page size, offset and number of rows of   *)
(* any width of integers.                                                  *)
(***************************************************************************)
EXTENDS Paging, FiniteSetTheorems, TLAPS

\* An accepted request for a listing of count rows gets a range inside it;
\* offset + pageSize can only overflow where twice the offset is too large.
LEMMA RangeInBounds ==
    ASSUME NEW count \in 1 .. MaxRows, NEW size \in Int32, NEW from \in Int32,
           ~Invalid(size, from)
    PROVE  /\ computePageRange(size, from, count).start = from
           /\ computePageRange(size, from, count).end \in Int
           /\ computePageRange(size, from, count).end < count
           /\ from < count => computePageRange(size, from, count).end >= from
           /\ from \in Nat
<1> DEFINE n == IF size = 0 THEN DefaultPageSize ELSE size
           end == IF 2 * from > count \/ Wrap(from + n) > count
                  THEN count - 1 ELSE from + n - 1
<1>1. n \in 1 .. MaxPageSize /\ from \in 0 .. IntLimit - 1
  BY PageSizes, SizesFitTheWidth DEF Invalid, Int32
<1>2. count < IntLimit /\ 2 * MaxPageSize < IntLimit /\ count \in Nat
      /\ MaxPageSize \in Nat /\ IntLimit \in Nat
  BY PageSizes, SizesFitTheWidth, RowsFitTheWidth
<1>3. computePageRange(size, from, count) = [start |-> from, end |-> end]
  BY <1>2 DEF computePageRange
<1>4. CASE from + n >= IntLimit
  <2>1. 2 * from > count
    BY <1>1, <1>2, <1>4
  <2> QED
    BY <1>1, <1>2, <1>3, <2>1
<1>5. CASE from + n < IntLimit
  <2>1. Wrap(from + n) = from + n
    BY <1>1, <1>2, <1>5 DEF Wrap
  <2> HIDE DEF n
  <2> QED
    BY <1>1, <1>2, <1>3, <2>1
<1> QED
  BY <1>1, <1>2, <1>4, <1>5

\* The rows of a page are rows of the listing.
LEMMA PageIsSubset ==
    ASSUME NEW count \in 0 .. MaxRows, NEW size \in Int32, NEW from \in Int32,
           ~Invalid(size, from)
    PROVE  Page(size, from, count) \subseteq 0 .. count - 1
<1>1. CASE count = 0
  BY <1>1 DEF Page
<1>2. CASE count # 0
  <2>1. count \in 1 .. MaxRows
    BY <1>2, RowsFitTheWidth
  <2> QED
    BY <2>1, RangeInBounds, RowsFitTheWidth DEF Page
<1> QED
  BY <1>1, <1>2

\* How far the sweep has come.
Progress ==
    first = 0 /\ pc # "failed" => /\ offset \in 0 .. total
                                  /\ seen = 0 .. offset - 1
                                  /\ pc = "done" => offset = total

IInv == TypeOK /\ Progress

\* A sweep starts with nothing seen.
LEMMA InitIInv == Init => IInv
BY RowsFitTheWidth, SizesFitTheWidth DEF Init, IInv, TypeOK, Progress

\* A page moves the offset behind its last row.
LEMMA ReadPageKeeps ==
    ASSUME IInv, ReadPage
    PROVE  IInv'
<1> TypeOK /\ Progress
  BY DEF IInv
<1> /\ total \in Nat /\ total < IntLimit /\ IntLimit \in Nat /\ MaxRows \in Nat
    /\ total <= MaxRows
  BY RowsFitTheWidth, SizesFitTheWidth DEF TypeOK
<1> DEFINE page == Page(pageSize, offset, total)
<1>1. page \subseteq 0 .. total - 1
  BY PageIsSubset DEF ReadPage, TypeOK
<1>2. offset \in Nat /\ offset < IntLimit
  BY DEF ReadPage, Invalid, TypeOK, Int32
<1>3. PICK last \in Int : page = offset .. last /\ last < total
                          /\ (offset < total => last >= offset)
  <2>1. CASE total = 0
    <3>1. page = offset .. -1
      BY <1>2, <2>1 DEF Page
    <3> QED
      BY <1>2, <2>1, <3>1
  <2>2. CASE total # 0
    <3>1. total \in 1 .. MaxRows
      BY <2>2
    <3>2. page = offset .. computePageRange(pageSize, offset, total).end
      BY <2>2, <3>1, RangeInBounds DEF Page, ReadPage, TypeOK
    <3> QED
      BY <3>1, <3>2, RangeInBounds DEF ReadPage, TypeOK
  <2> QED
    BY <2>1, <2>2
<1>4. Cardinality(page) = IF offset > last THEN 0 ELSE last - offset + 1
  BY <1>2, <1>3, FS_Interval
<1>5. offset + Cardinality(page) = IF offset > last THEN offset ELSE last + 1
  BY <1>2, <1>3, <1>4
<1>6. Wrap(offset + Cardinality(page)) = offset + Cardinality(page)
  BY <1>2, <1>3, <1>5 DEF Wrap
<1> HIDE DEF page
<1>7. /\ seen' = seen \cup page
      /\ offset' = IF offset > last THEN offset ELSE last + 1
      /\ pc' = IF total > offset' THEN "reading" ELSE "done"
      /\ UNCHANGED <<total, pageSize, first>>
      /\ pc = "reading"
  BY <1>5, <1>6 DEF ReadPage, page
<1>8. TypeOK'
  <2>1. offset' \in Int32
    BY <1>2, <1>3, <1>7 DEF Int32
  <2>2. seen' \subseteq 0 .. MaxRows - 1
    BY <1>1, <1>7 DEF TypeOK
  <2> QED
    BY <1>7, <2>1, <2>2 DEF TypeOK
<1>9. Progress'
  <2> SUFFICES ASSUME first = 0
               PROVE  /\ offset' \in 0 .. total
                      /\ seen' = 0 .. offset' - 1
                      /\ pc' = "done" => offset' = total
    BY <1>7 DEF Progress
  <2>1. offset \in 0 .. total /\ seen = 0 .. offset - 1
    BY <1>7 DEF Progress
  <2>2. offset' \in 0 .. total
    BY <1>3, <1>7, <2>1
  <2>3. seen' = 0 .. offset' - 1
    BY <1>2, <1>3, <1>7, <2>1
  <2> QED
    BY <1>7, <2>2, <2>3
<1> QED
  BY <1>8, <1>9 DEF IInv

\* Every round of a sweep keeps the inductive invariant.
LEMMA NextIInv == IInv /\ [Next]_vars => IInv'
<1> SUFFICES ASSUME IInv, [Next]_vars PROVE IInv'
  OBVIOUS
<1>1. CASE ReadPage
  BY <1>1, ReadPageKeeps
<1>2. CASE Refused
  BY <1>2 DEF Refused, IInv, TypeOK, Progress
<1>3. CASE UNCHANGED vars
  BY <1>3 DEF vars, IInv, TypeOK, Progress
<1> QED
  BY <1>1, <1>2, <1>3 DEF Next

\* The List handlers never index outside of their result, for every accepted
\* request, whatever its offset and page size.
THEOREM PagesInBounds == Spec => []PageInBounds
<1>1. IInv => PageInBounds
  BY PageIsSubset DEF IInv, TypeOK, PageInBounds
<1> QED
  BY <1>1, InitIInv, NextIInv, PTL DEF Spec

\* The wiper's sweep sees every row of an unchanging listing.
THEOREM SweepIsComplete == Spec => []SweepSeesAll
<1>1. IInv => SweepSeesAll
  BY DEF IInv, Progress, SweepSeesAll
<1> QED
  BY <1>1, InitIInv, NextIInv, PTL DEF Spec
=============================================================================
