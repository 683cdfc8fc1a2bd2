----------------------------- MODULE PageWalkProofs -----------------------------
(***************************************************************************)
(* Proofs about PageWalk: a walk through a listing that changes meanwhile  *)
(* misses no more of the rows that stayed than rows have left.             *)
(***************************************************************************)
EXTENDS PageWalk, Positions, SequenceTheorems, TLAPS

\* A sequence with a new element at position i.
LEMMA InsertAtElements ==
  ASSUME NEW S, NEW s \in Seq(S), NEW e \in S, NEW i \in 1..(Len(s) + 1)
  PROVE  /\ InsertAt(s, i, e) \in Seq(S)
         /\ Len(InsertAt(s, i, e)) = Len(s) + 1
         /\ \A k \in 1..(Len(s) + 1) :
              InsertAt(s, i, e)[k] = IF k < i THEN s[k] ELSE IF k = i THEN e ELSE s[k - 1]
<1> DEFINE a == SubSeq(s, 1, i - 1)
           b == SubSeq(s, i, Len(s))
           n == Len(s)
<1>1. n \in Nat /\ i \in Nat /\ 1 <= i /\ i <= n + 1
  BY LenProperties
<1>2. /\ a \in Seq(S) /\ Len(a) = i - 1
      /\ \A k \in 1..(i - 1) : a[k] = s[k]
  <2>1. \A k \in 1..(i - 1) : s[k] \in S
    BY <1>1, ElementOfSeq
  <2>2. QED
    BY <1>1, <2>1, SubSeqProperties
<1>3. /\ b \in Seq(S) /\ Len(b) = n + 1 - i
      /\ \A k \in 1..(n + 1 - i) : b[k] = s[i + k - 1]
  <2>1. \A k \in i..n : s[k] \in S
    BY <1>1, ElementOfSeq
  <2>2. QED
    BY <1>1, <2>1, SubSeqProperties
<1>4. InsertAt(s, i, e) = (a \o <<e>>) \o b
  BY DEF InsertAt
<1> HIDE DEF a, b
<1> DEFINE c == a \o <<e>>
<1>5. <<e>> \in Seq(S) /\ Len(<<e>>) = 1 /\ <<e>>[1] = e
  OBVIOUS
<1>6. /\ c \in Seq(S) /\ Len(c) = i
      /\ \A k \in 1..i : c[k] = IF k < i THEN s[k] ELSE e
  <2>1. /\ c \in Seq(S) /\ Len(c) = Len(a) + Len(<<e>>)
        /\ \A k \in 1..(Len(a) + Len(<<e>>)) :
             c[k] = IF k <= Len(a) THEN a[k] ELSE <<e>>[k - Len(a)]
    BY <1>2, <1>5, ConcatProperties
  <2> HIDE DEF c
  <2>2. QED
    BY <1>1, <1>2, <1>5, <2>1
<1> HIDE DEF c
<1> DEFINE d == c \o b
<1>7. /\ d \in Seq(S) /\ Len(d) = Len(c) + Len(b)
      /\ \A k \in 1..(Len(c) + Len(b)) :
           d[k] = IF k <= Len(c) THEN c[k] ELSE b[k - Len(c)]
  BY <1>3, <1>6, ConcatProperties
<1> HIDE DEF d, n
<1>8. ASSUME NEW k \in 1..(n + 1)
      PROVE  d[k] = IF k < i THEN s[k] ELSE IF k = i THEN e ELSE s[k - 1]
  <2>1. CASE k <= i
    BY <1>1, <1>3, <1>6, <1>7, <2>1
  <2>2. CASE k > i
    <3>1. k - i \in 1..(n + 1 - i) /\ i + (k - i) - 1 = k - 1
      BY <1>1, <2>2
    <3>2. d[k] = b[k - i]
      BY <1>1, <1>3, <1>6, <1>7, <2>2
    <3>3. b[k - i] = s[i + (k - i) - 1]
      BY <1>3, <3>1
    <3>4. QED
      BY <1>1, <2>2, <3>1, <3>2, <3>3
  <2>3. QED
    BY <1>1, <2>1, <2>2
<1>9. Len(d) = n + 1
  BY <1>1, <1>3, <1>6, <1>7
<1>10. QED
  BY <1>4, <1>7, <1>8, <1>9 DEF d, c, n

\* A sequence without the element at position i.
LEMMA RemoveAtElements ==
  ASSUME NEW S, NEW s \in Seq(S), NEW i \in 1..Len(s)
  PROVE  /\ RemoveAt(s, i) \in Seq(S)
         /\ Len(RemoveAt(s, i)) = Len(s) - 1
         /\ \A k \in 1..(Len(s) - 1) :
              RemoveAt(s, i)[k] = IF k < i THEN s[k] ELSE s[k + 1]
<1> DEFINE a == SubSeq(s, 1, i - 1)
           b == SubSeq(s, i + 1, Len(s))
           n == Len(s)
<1>1. n \in Nat /\ i \in Nat /\ 1 <= i /\ i <= n
  BY LenProperties
<1>2. /\ a \in Seq(S) /\ Len(a) = i - 1
      /\ \A k \in 1..(i - 1) : a[k] = s[k]
  <2>1. \A k \in 1..(i - 1) : s[k] \in S
    BY <1>1, ElementOfSeq
  <2>2. QED
    BY <1>1, <2>1, SubSeqProperties
<1>3. /\ b \in Seq(S) /\ Len(b) = n - i
      /\ \A k \in 1..(n - i) : b[k] = s[i + k]
  <2>1. \A k \in (i + 1)..n : s[k] \in S
    BY <1>1, ElementOfSeq
  <2>2. QED
    BY <1>1, <2>1, SubSeqProperties
<1>4. RemoveAt(s, i) = a \o b
  BY DEF RemoveAt
<1> HIDE DEF a, b
<1> DEFINE d == a \o b
<1>5. /\ d \in Seq(S) /\ Len(d) = Len(a) + Len(b)
      /\ \A k \in 1..(Len(a) + Len(b)) :
           d[k] = IF k <= Len(a) THEN a[k] ELSE b[k - Len(a)]
  BY <1>2, <1>3, ConcatProperties
<1> HIDE DEF d, n
<1>6. ASSUME NEW k \in 1..(n - 1)
      PROVE  d[k] = IF k < i THEN s[k] ELSE s[k + 1]
  <2>1. CASE k < i
    BY <1>1, <1>2, <1>3, <1>5, <2>1
  <2>2. CASE k >= i
    <3>1. k - (i - 1) \in 1..(n - i) /\ i + (k - (i - 1)) = k + 1
      BY <1>1, <2>2
    <3>2. d[k] = b[k - (i - 1)]
      BY <1>1, <1>2, <1>3, <1>5, <2>2
    <3>3. b[k - (i - 1)] = s[i + (k - (i - 1))]
      BY <1>3, <3>1
    <3>4. QED
      BY <1>1, <2>2, <3>1, <3>2, <3>3
  <2>3. QED
    BY <1>1, <2>1, <2>2
<1>7. Len(d) = n - 1
  BY <1>1, <1>2, <1>3, <1>5
<1>8. QED
  BY <1>4, <1>5, <1>6, <1>7 DEF d, n

\* The last page named by a total is far enough.
LEMMA LastPageReaches ==
  ASSUME NEW n \in Nat, NEW size \in Nat \ {0}, NEW page \in Nat,
         page >= (n + size - 1) \div size
  PROVE  page * size >= n
<1> DEFINE q == (n + size - 1) \div size
<1>1. q \in Int /\ q * size <= n + size - 1 /\ n + size - 1 < q * size + size
  OBVIOUS
<1> HIDE DEF q
<1>2. page >= q
  BY DEF q
<1>3. page * size >= q * size
  BY <1>1, <1>2
<1>4. QED
  BY <1>1, <1>3

\* The lesser of two numbers.
LEMMA LesserIsMin ==
  ASSUME NEW a \in Int, NEW b \in Int
  PROVE  Min({a, b}) = IF a <= b THEN a ELSE b
<1>1. \E x \in {a, b} : \A y \in {a, b} : x <= y
  OBVIOUS
<1>2. Min({a, b}) \in {a, b} /\ \A y \in {a, b} : Min({a, b}) <= y
  BY <1>1 DEF Min
<1> DEFINE m == Min({a, b})
<1> HIDE DEF m
<1>3. m \in {a, b} /\ m <= a /\ m <= b
  BY <1>2 DEF m
<1>4. m = IF a <= b THEN a ELSE b
  BY <1>3
<1>5. QED
  BY <1>4 DEF m

\* A page holds at least one row, whatever size is asked for.
LEMMA PageSizeType ==
  ASSUME NEW asked \in Int
  PROVE  PageSize(asked) \in Nat \ {0}
BY PageSizesAssumption, LesserIsMin DEF PageSize

\* A sequence has finitely many elements.
LEMMA ElementsFinite ==
  ASSUME NEW S, NEW s \in Seq(S)
  PROVE  IsFiniteSet(ToSet(s))
<1>1. Len(s) \in Nat /\ DOMAIN s = 1..Len(s) /\ s = [i \in 1..Len(s) |-> s[i]]
  BY LenProperties
<1>2. s \in Surjection(1..Len(s), ToSet(s))
  BY <1>1 DEF ToSet, Surjection
<1> DEFINE n == Len(s)
<1>3. IsFiniteSet(1..n)
  <2>1. 1 \in Int /\ n \in Int
    BY <1>1
  <2> HIDE DEF n
  <2>2. QED
    BY <2>1, FS_Interval, Zenon
<1>4. QED
  BY <1>2, <1>3, FS_Surjection

\* The page holds the rows of its positions, and an empty page lies behind the
\* last row.
LEMMA PageElements ==
  ASSUME NEW page \in Nat \ {0}, NEW size \in Nat \ {0}, listed \in Seq(Rows)
  PROVE  /\ ToSet(Page(page, size)) \subseteq Rows
         /\ \A i \in 1..Len(listed) :
              (page - 1) * size < i /\ i <= page * size => listed[i] \in ToSet(Page(page, size))
         /\ Page(page, size) = <<>> => Len(listed) <= (page - 1) * size
<1> DEFINE n == Len(listed)
           off == (page - 1) * size
           end == page * size
           last == Min({end, n})
           p == SubSeq(listed, off + 1, last)
<1>1. n \in Nat /\ off \in Nat /\ end \in Nat /\ end = off + size
  <2>1. n \in Nat
    BY LenProperties
  <2>2. page - 1 \in Nat /\ page = (page - 1) + 1
    OBVIOUS
  <2>3. off \in Nat /\ end = off + size
    BY <2>2
  <2>4. QED
    BY <2>1, <2>3
<1>2. last = IF end <= n THEN end ELSE n
  BY <1>1, LesserIsMin
<1>3. Page(page, size) = p
  BY DEF Page
<1> HIDE DEF last, off, end
<1>4. \A i \in (off + 1)..last : listed[i] \in Rows
  BY <1>1, <1>2, ElementOfSeq
<1>5. /\ p \in Seq(Rows)
      /\ Len(p) = IF off + 1 <= last THEN last - (off + 1) + 1 ELSE 0
      /\ \A i \in 1..(last - (off + 1) + 1) : p[i] = listed[(off + 1) + i - 1]
  BY <1>1, <1>2, <1>4, SubSeqProperties
<1> HIDE DEF p, n
<1>6. DOMAIN p = 1..Len(p) /\ \A i \in 1..Len(p) : p[i] \in Rows
  BY <1>5, ElementOfSeq
<1>7. ToSet(p) \subseteq Rows
  BY <1>6 DEF ToSet
<1>8. ASSUME NEW i \in 1..n, off < i, i <= end
      PROVE  listed[i] \in ToSet(p)
  <2>1. i - off \in 1..(last - (off + 1) + 1) /\ (off + 1) + (i - off) - 1 = i
    BY <1>1, <1>2, <1>8
  <2>2. p[i - off] = listed[(off + 1) + (i - off) - 1]
    BY <1>5, <2>1
  <2>3. i - off \in DOMAIN p /\ p[i - off] = listed[i]
    BY <1>1, <1>2, <1>5, <1>6, <2>1, <2>2
  <2>4. QED
    BY <2>3 DEF ToSet
<1>9. p = <<>> => n <= off
  <2>1. p = <<>> => Len(p) = 0
    OBVIOUS
  <2>2. QED
    BY <1>1, <1>2, <1>5, <2>1
<1>10. QED
  BY <1>3, <1>7, <1>8, <1>9 DEF n, off, end
-----------------------------------------------------------------------------
(* The inductive invariant.                                                *)

\* The positions of the pages the client has asked for.
Passed == (walk.page - 1) * walk.size

\* The rows it has passed without seeing them: they stayed, and stand before
\* the page it asks for next.
Missed ==
    {x \in walk.stayed \ walk.seen : \E i \in 1..Len(listed) : i <= Passed /\ listed[i] = x}

WalkTypeOK ==
    /\ listed \in Seq(Rows)
    /\ walk \in [page : Nat, size : Nat \ {0}, done : BOOLEAN, seen : SUBSET Rows,
                 stayed : SUBSET Rows, left : Nat, moves : Nat]

\* While the walk goes on, the rows that stayed are still listed, and a row is
\* missed only when another one left before it.
WalkInv ==
    /\ WalkTypeOK
    /\ Walking => /\ walk.stayed \subseteq ToSet(listed)
                  /\ Cardinality(Missed) <= walk.left
    /\ walk.done => /\ IsFiniteSet(walk.stayed)
                    /\ Cardinality(walk.stayed \ walk.seen) <= walk.left
-----------------------------------------------------------------------------
(* The steps.                                                              *)

\* No walk has begun.
LEMMA WalkInvAtStart == WalkInit => WalkInv
BY EmptySeq DEF WalkInit, WalkInv, WalkTypeOK, NoWalk, Walking

\* What a walk has missed is finite, for the rows that stayed are listed.
LEMMA MissedIsFinite ==
  ASSUME WalkInv, Walking
  PROVE  IsFiniteSet(walk.stayed) /\ IsFiniteSet(Missed)
<1>1. IsFiniteSet(ToSet(listed)) /\ walk.stayed \in SUBSET ToSet(listed)
  BY ElementsFinite DEF WalkInv, WalkTypeOK
<1>2. IsFiniteSet(walk.stayed)
  BY <1>1, FS_Subset
<1>3. Missed \in SUBSET walk.stayed
  BY DEF Missed
<1>4. QED
  BY <1>2, <1>3, FS_Subset

\* A walk begins with nothing missed.
LEMMA BeginKeepsWalkInv ==
  ASSUME WalkInv, NEW asked \in Int, BeginWalk(asked)
  PROVE  WalkInv'
<1>1. PageSize(asked) \in Nat \ {0}
  BY PageSizeType
<1>2. ToSet(listed) \subseteq Rows
  <2>1. listed \in Seq(Rows) /\ DOMAIN listed = 1..Len(listed)
    BY LenProperties DEF WalkInv, WalkTypeOK
  <2>2. \A i \in 1..Len(listed) : listed[i] \in Rows
    BY <2>1, ElementOfSeq
  <2>3. QED
    BY <2>1, <2>2 DEF ToSet
<1>3. /\ walk' = [page |-> 1, size |-> PageSize(asked), done |-> FALSE, seen |-> {},
                  stayed |-> ToSet(listed), left |-> 0, moves |-> 0]
      /\ listed' = listed
  BY DEF BeginWalk, NoWalk
<1>4. WalkTypeOK'
  BY <1>1, <1>2, <1>3 DEF WalkTypeOK, WalkInv
<1>5. Missed' = {}
  <2>1. Passed' = 0
    BY <1>1, <1>3 DEF Passed
  <2>2. QED
    BY <2>1 DEF Missed
<1>6. Cardinality(Missed') = 0
  BY <1>5, FS_EmptySet
<1>7. QED
  BY <1>3, <1>4, <1>6 DEF WalkInv

\* A page shows every row that stayed and stands on it, so that nothing is
\* missed by going to the next; the last page leaves no row behind it.
LEMMA NextPageKeepsWalkInv ==
  ASSUME WalkInv, NextPage
  PROVE  WalkInv'
<1> DEFINE page == walk.page
           size == walk.size
           rows == Page(page, size)
<1>1. /\ page \in Nat \ {0} /\ size \in Nat \ {0} /\ listed \in Seq(Rows)
      /\ walk.stayed \subseteq ToSet(listed) /\ Cardinality(Missed) <= walk.left
  BY DEF NextPage, Walking, WalkInv, WalkTypeOK
<1>2. /\ ToSet(rows) \subseteq Rows
      /\ \A i \in 1..Len(listed) :
           (page - 1) * size < i /\ i <= page * size => listed[i] \in ToSet(rows)
      /\ rows = <<>> => Len(listed) <= (page - 1) * size
  BY <1>1, PageElements
<1>3. /\ walk'.page = page + 1 /\ walk'.size = size /\ walk'.stayed = walk.stayed
      /\ walk'.left = walk.left /\ walk'.seen = walk.seen \cup ToSet(rows)
      /\ walk'.done = (page >= TotalPages(page, size)) /\ listed' = listed
  BY DEF NextPage, WalkInv, WalkTypeOK
<1>4. WalkTypeOK'
  <2> DEFINE all == TotalPages(page, size)
             shown == ToSet(rows)
             full == page >= all
  <2>1. full \in BOOLEAN
    OBVIOUS
  <2>2. walk' = [walk EXCEPT !.seen = @ \cup shown, !.done = full, !.page = @ + 1]
    BY DEF NextPage
  <2> HIDE DEF all, shown, full
  <2>3. shown \in SUBSET Rows
    BY <1>2 DEF shown
  <2>4. walk' \in [page : Nat, size : Nat \ {0}, done : BOOLEAN, seen : SUBSET Rows,
                   stayed : SUBSET Rows, left : Nat, moves : Nat]
    <3>1. /\ walk \in [page : Nat, size : Nat \ {0}, done : BOOLEAN, seen : SUBSET Rows,
                       stayed : SUBSET Rows, left : Nat, moves : Nat]
          /\ walk.page + 1 \in Nat
      BY DEF WalkInv, WalkTypeOK
    <3>2. walk.seen \cup shown \in SUBSET Rows
      BY <2>3, <3>1
    <3>3. QED
      BY <2>1, <2>2, <3>1, <3>2, Zenon
  <2>5. QED
    BY <1>3, <2>4, <1>1 DEF WalkTypeOK
<1>5. /\ IsFiniteSet(walk.stayed) /\ IsFiniteSet(Missed)
  BY MissedIsFinite DEF NextPage
<1>6. Len(listed) \in Nat /\ DOMAIN listed = 1..Len(listed)
  BY <1>1, LenProperties
<1> HIDE DEF rows
<1>7. ASSUME NEW i \in 1..Len(listed), i <= page * size,
             listed[i] \in walk.stayed \ walk'.seen
      PROVE  listed[i] \in Missed
  <2>1. i <= (page - 1) * size
    <3>1. (page - 1) * size \in Int
      BY <1>1
    <3>2. listed[i] \notin ToSet(rows)
      BY <1>3, <1>7
    <3>3. ~ ((page - 1) * size < i)
      BY <1>2, <1>7, <3>2
    <3> DEFINE off == (page - 1) * size
    <3>4. off \in Int /\ ~ (off < i)
      BY <3>1, <3>3
    <3> HIDE DEF off
    <3>5. i <= off
      BY <3>4
    <3>6. QED
      BY <3>5 DEF off
  <2>2. QED
    BY <1>3, <1>7, <2>1 DEF Missed, Passed
<1>8. CASE ~ walk'.done
  <2>1. Passed' = page * size
    BY <1>1, <1>3 DEF Passed
  <2>2. Missed' \in SUBSET Missed
    BY <1>3, <1>7, <2>1 DEF Missed
  <2>3. Cardinality(Missed') <= Cardinality(Missed)
    BY <1>5, <2>2, FS_Subset
  <2>4. Cardinality(Missed') <= walk.left
    <3>1. Cardinality(Missed) \in Nat /\ Cardinality(Missed') \in Nat /\ walk.left \in Nat
      BY <1>5, <2>2, FS_Subset, FS_CardinalityType DEF WalkInv, WalkTypeOK
    <3>2. QED
      BY <1>1, <2>3, <3>1
  <2>5. QED
    BY <1>1, <1>3, <1>4, <1>8, <2>4 DEF WalkInv
<1>9. CASE walk'.done
  <2>1. page * size >= Len(listed)
    <3>1. CASE rows = <<>>
      <4>1. Len(listed) <= (page - 1) * size
        BY <1>2, <3>1
      <4>2. (page - 1) * size <= page * size
        BY <1>1
      <4> DEFINE a == (page - 1) * size
                 b == page * size
      <4>3. a \in Int /\ b \in Int
        BY <1>1
      <4> HIDE DEF a, b
      <4>4. QED
        <5>1. Len(listed) <= a /\ a <= b
          BY <4>1, <4>2 DEF a, b
        <5>2. b >= Len(listed)
          BY <1>6, <4>3, <5>1
        <5>3. QED
          BY <5>2 DEF b
    <3>2. CASE rows # <<>>
      <4>1. TotalPages(page, size) = (Len(listed) + size - 1) \div size
        BY <3>2 DEF TotalPages, Total, rows
      <4>2. page >= (Len(listed) + size - 1) \div size
        BY <1>3, <1>9, <4>1
      <4>3. QED
        BY <1>1, <1>6, <4>2, LastPageReaches
    <3>3. QED
      BY <3>1, <3>2
  <2>2. ASSUME NEW x \in walk.stayed \ walk'.seen
        PROVE  x \in Missed
    <3>1. PICK i \in 1..Len(listed) : listed[i] = x
      BY <1>1, <1>6 DEF ToSet
    <3>2. i <= page * size
      <4> DEFINE b == page * size
      <4>1. b \in Int /\ b >= Len(listed)
        BY <1>1, <2>1
      <4> HIDE DEF b
      <4>2. i <= b
        BY <1>6, <4>1
      <4>3. QED
        BY <4>2 DEF b
    <3>3. QED
      BY <1>7, <3>1, <3>2
  <2>3. walk.stayed \ walk'.seen \in SUBSET Missed
    BY <2>2
  <2>4. /\ IsFiniteSet(walk.stayed \ walk'.seen)
        /\ Cardinality(walk.stayed \ walk'.seen) <= Cardinality(Missed)
    BY <1>5, <2>3, FS_Subset
  <2>5. Cardinality(walk.stayed \ walk'.seen) <= walk.left
    <3>1. /\ Cardinality(Missed) \in Nat /\ Cardinality(walk.stayed \ walk'.seen) \in Nat
          /\ walk.left \in Nat
      BY <1>5, <2>4, FS_CardinalityType DEF WalkInv, WalkTypeOK
    <3>2. QED
      BY <1>1, <2>4, <3>1
  <2>6. QED
    BY <1>3, <1>4, <1>5, <1>9, <2>5 DEF WalkInv, Walking
<1>10. QED
  BY <1>8, <1>9

\* A change in which the rows that kept their place stay listed, and bring none
\* of them before the page but, when a row left, one.
LEMMA ChangeKeepsWalkInv ==
  ASSUME WalkInv, NEW x, NEW n \in Nat, NEW stayed,
         Change(stayed, n), listed' \in Seq(Rows),
         Walking => walk.stayed \ stayed \subseteq ToSet(listed'),
         Walking => Missed' \in SUBSET (IF n = 0 THEN Missed ELSE Missed \cup {x})
  PROVE  WalkInv'
<1>1. CASE ~ Walking
  <2>1. walk' = [page |-> 0, size |-> 1, done |-> FALSE, seen |-> {}, stayed |-> {},
                 left |-> 0, moves |-> 0]
    BY <1>1 DEF Change, NoWalk
  <2>2. QED
    BY <2>1 DEF WalkInv, WalkTypeOK, Walking
<1>2. CASE Walking
  <2>1. walk' = [walk EXCEPT !.stayed = @ \ stayed, !.left = @ + n, !.moves = @ + 1]
    BY <1>2 DEF Change
  <2>2. WalkTypeOK'
    <3>1. walk \in [page : Nat, size : Nat \ {0}, done : BOOLEAN, seen : SUBSET Rows,
                    stayed : SUBSET Rows, left : Nat, moves : Nat]
      BY DEF WalkInv, WalkTypeOK
    <3>2. walk.left + n \in Nat /\ walk.moves + 1 \in Nat
      BY <3>1
    <3> DEFINE keep == walk.stayed \ stayed
    <3>3. keep \in SUBSET Rows
      BY <3>1
    <3>4. walk' = [walk EXCEPT !.stayed = keep, !.left = @ + n, !.moves = @ + 1]
      BY <2>1
    <3> HIDE DEF keep
    <3>5. QED
      BY <3>1, <3>2, <3>3, <3>4 DEF WalkTypeOK
  <2>3. /\ walk'.stayed = walk.stayed \ stayed /\ walk'.left = walk.left + n
        /\ walk'.done = walk.done /\ walk.left \in Nat
    BY <2>1 DEF WalkInv, WalkTypeOK
  <2>4. IsFiniteSet(Missed) /\ Cardinality(Missed) <= walk.left
    BY <1>2, MissedIsFinite DEF WalkInv
  <2>5. /\ IsFiniteSet(Missed \cup {x})
        /\ Cardinality(Missed \cup {x}) = IF x \in Missed THEN Cardinality(Missed)
                                          ELSE Cardinality(Missed) + 1
    BY <2>4, FS_AddElement
  <2>6. Cardinality(Missed) \in Nat
    BY <2>4, FS_CardinalityType
  <2>7. Cardinality(Missed') <= walk.left + n
    <3>1. CASE n = 0
      <4>1. Missed' \in SUBSET Missed
        BY <1>2, <3>1
      <4>2. IsFiniteSet(Missed') /\ Cardinality(Missed') <= Cardinality(Missed)
        BY <2>4, <4>1, FS_Subset
      <4>3. Cardinality(Missed') \in Nat
        BY <4>2, FS_CardinalityType
      <4>4. QED
        BY <2>3, <2>4, <2>6, <3>1, <4>2, <4>3
    <3>2. CASE n # 0
      <4> DEFINE more == Missed \cup {x}
      <4>1. Missed' \in SUBSET more
        BY <1>2, <3>2
      <4>2. IsFiniteSet(more) /\ Cardinality(more) <= Cardinality(Missed) + 1
        BY <2>5, <2>6
      <4> HIDE DEF more
      <4>3. IsFiniteSet(Missed') /\ Cardinality(Missed') <= Cardinality(more)
        BY <4>1, <4>2, FS_Subset
      <4>4. Cardinality(Missed') \in Nat /\ Cardinality(more) \in Nat
        BY <4>2, <4>3, FS_CardinalityType
      <4>5. QED
        BY <2>3, <2>4, <2>6, <3>2, <4>2, <4>3, <4>4
    <3>3. QED
      BY <3>1, <3>2
  <2>8. ~ walk'.done
    BY <1>2, <2>3 DEF Walking
  <2>9. QED
    BY <1>2, <2>2, <2>3, <2>7, <2>8 DEF WalkInv
<1>3. QED
  BY <1>1, <1>2

\* A row that enters moves others away from the pages of the past.
LEMMA EnterKeepsWalkInv ==
  ASSUME WalkInv, NEW x \in Rows, Enter(x)
  PROVE  WalkInv'
<1>1. listed \in Seq(Rows) /\ Len(listed) \in Nat /\ DOMAIN listed = 1..Len(listed)
  BY LenProperties DEF WalkInv, WalkTypeOK
<1>2. PICK i \in 1..(Len(listed) + 1) : listed' = InsertAt(listed, i, x)
  BY DEF Enter
<1>3. /\ listed' \in Seq(Rows) /\ Len(listed') = Len(listed) + 1
      /\ \A k \in 1..(Len(listed) + 1) :
           listed'[k] = IF k < i THEN listed[k] ELSE IF k = i THEN x ELSE listed[k - 1]
  <2> DEFINE more == InsertAt(listed, i, x)
  <2>1. /\ more \in Seq(Rows) /\ Len(more) = Len(listed) + 1
        /\ \A k \in 1..(Len(listed) + 1) :
             more[k] = IF k < i THEN listed[k] ELSE IF k = i THEN x ELSE listed[k - 1]
    BY <1>1, InsertAtElements
  <2>2. listed' = more
    BY <1>2
  <2> HIDE DEF more
  <2>3. QED
    BY <2>1, <2>2
<1>4. DOMAIN listed' = 1..Len(listed')
  BY <1>3, LenProperties
<1>5. Change({}, 0) /\ x \notin ToSet(listed)
  BY DEF Enter
<1>6. ASSUME Walking
      PROVE  walk.stayed \ {} \subseteq ToSet(listed')
  <2>1. SUFFICES ASSUME NEW y \in ToSet(listed) PROVE y \in ToSet(listed')
    BY <1>6 DEF WalkInv
  <2>2. PICK k \in 1..Len(listed) : listed[k] = y
    BY <1>1 DEF ToSet
  <2>3. CASE k < i
    BY <1>1, <1>3, <1>4, <2>2, <2>3 DEF ToSet
  <2>4. CASE k >= i
    <3>1. k + 1 \in 1..(Len(listed) + 1) /\ ~ (k + 1 < i) /\ k + 1 # i /\ (k + 1) - 1 = k
      BY <1>1, <2>4
    <3>2. listed'[k + 1] = y
      BY <1>3, <2>2, <3>1
    <3>3. QED
      BY <1>3, <1>4, <3>1, <3>2 DEF ToSet
  <2>5. QED
    BY <1>1, <2>3, <2>4
<1>7. ASSUME Walking
      PROVE  Missed' \in SUBSET Missed
  <2>1. SUFFICES ASSUME NEW y \in Missed' PROVE y \in Missed
    OBVIOUS
  <2>2. walk' = [walk EXCEPT !.stayed = @ \ {}, !.left = @ + 0, !.moves = @ + 1]
    BY <1>5, <1>7 DEF Change
  <2>3. /\ walk'.stayed = walk.stayed /\ walk'.seen = walk.seen /\ Passed' = Passed
        /\ Passed \in Int
    BY <2>2 DEF WalkInv, WalkTypeOK, Passed
  <2>4. y \in walk.stayed \ walk.seen
    BY <2>1, <2>3 DEF Missed
  <2>5. PICK k \in 1..Len(listed') : k <= Passed /\ listed'[k] = y
    BY <2>1, <2>3 DEF Missed
  <2>6. y # x
    BY <1>5, <1>7, <2>4 DEF WalkInv
  <2> HIDE DEF Passed
  <2>7. \E m \in 1..Len(listed) : m <= Passed /\ listed[m] = y
    <3>1. CASE k < i
      BY <1>1, <1>3, <2>5, <3>1
    <3>2. CASE k >= i
      <4>1. k # i
        BY <1>3, <2>5, <2>6
      <4>2. k - 1 \in 1..Len(listed) /\ k - 1 <= Passed
        BY <1>1, <1>3, <2>3, <2>5, <3>2, <4>1
      <4>3. listed[k - 1] = y
        BY <1>1, <1>3, <2>5, <3>2, <4>1
      <4>4. QED
        BY <4>2, <4>3
    <3>3. QED
      BY <1>1, <1>3, <2>5, <3>1, <3>2
  <2>8. QED
    BY <2>4, <2>7 DEF Missed
<1>8. QED
  BY <1>3, <1>5, <1>6, <1>7, ChangeKeepsWalkInv

\* An order that moves up takes rows with it only towards later pages.
LEMMA MoveUpKeepsWalkInv ==
  ASSUME WalkInv, MoveUp
  PROVE  WalkInv'
<1>1. listed \in Seq(Rows) /\ Len(listed) \in Nat /\ DOMAIN listed = 1..Len(listed)
  BY LenProperties DEF WalkInv, WalkTypeOK
<1>2. PICK i \in 2..Len(listed) : \E j \in 1..(i - 1) :
        /\ listed' = InsertAt(RemoveAt(listed, i), j, listed[i])
        /\ Change({listed[i]}, 0)
  BY DEF MoveUp
<1>3. PICK j \in 1..(i - 1) :
        /\ listed' = InsertAt(RemoveAt(listed, i), j, listed[i])
        /\ Change({listed[i]}, 0)
  BY <1>2
<1> DEFINE rest == RemoveAt(listed, i)
           x == listed[i]
<1>4. i \in 1..Len(listed) /\ j \in Nat /\ 1 <= j /\ j < i /\ x \in Rows
  BY <1>1, ElementOfSeq
<1>5. /\ rest \in Seq(Rows) /\ Len(rest) = Len(listed) - 1
      /\ \A k \in 1..(Len(listed) - 1) :
           rest[k] = IF k < i THEN listed[k] ELSE listed[k + 1]
  BY <1>1, <1>4, RemoveAtElements
<1> HIDE DEF rest, x
<1>6. listed' = InsertAt(rest, j, x) /\ Change({x}, 0)
  BY <1>3 DEF rest, x
<1>7. j \in 1..(Len(rest) + 1) /\ Len(rest) \in Nat
  BY <1>1, <1>4, <1>5
<1>8. /\ listed' \in Seq(Rows) /\ Len(listed') = Len(rest) + 1
      /\ \A k \in 1..(Len(rest) + 1) :
           listed'[k] = IF k < j THEN rest[k] ELSE IF k = j THEN x ELSE rest[k - 1]
  <2> DEFINE moved == InsertAt(rest, j, x)
  <2>1. rest \in Seq(Rows) /\ x \in Rows
    BY <1>4, <1>5
  <2>2. /\ moved \in Seq(Rows) /\ Len(moved) = Len(rest) + 1
        /\ \A k \in 1..(Len(rest) + 1) :
             moved[k] = IF k < j THEN rest[k] ELSE IF k = j THEN x ELSE rest[k - 1]
    BY <1>7, <2>1, InsertAtElements
  <2>3. listed' = moved
    BY <1>6
  <2> HIDE DEF moved
  <2>4. QED
    BY <2>2, <2>3
<1>9. Len(listed') = Len(listed) /\ DOMAIN listed' = 1..Len(listed)
  BY <1>1, <1>5, <1>8, LenProperties
<1>10. ASSUME NEW k \in 1..Len(listed)
      PROVE  listed'[k] = IF k < j \/ k > i THEN listed[k]
                          ELSE IF k = j THEN x ELSE listed[k - 1]
  <2>1. listed'[k] = IF k < j THEN rest[k] ELSE IF k = j THEN x ELSE rest[k - 1]
    BY <1>1, <1>5, <1>8
  <2>2. CASE k < j
    BY <1>1, <1>4, <1>5, <2>1, <2>2
  <2>3. CASE k = j
    BY <1>4, <2>1, <2>3
  <2>4. CASE k > j
    <3>1. k - 1 \in 1..(Len(listed) - 1) /\ (k - 1) + 1 = k
      BY <1>1, <1>4, <2>4
    <3>2. rest[k - 1] = IF k - 1 < i THEN listed[k - 1] ELSE listed[(k - 1) + 1]
      BY <1>5, <3>1
    <3>3. listed'[k] = rest[k - 1]
      BY <1>4, <2>1, <2>4
    <3>4. QED
      BY <1>4, <2>4, <3>1, <3>2, <3>3
  <2>5. QED
    BY <1>4, <2>2, <2>3, <2>4
<1>11. ASSUME Walking
       PROVE  walk.stayed \ {x} \subseteq ToSet(listed')
  <2>1. SUFFICES ASSUME NEW y \in ToSet(listed), y # x PROVE y \in ToSet(listed')
    BY <1>11 DEF WalkInv
  <2>2. PICK k \in 1..Len(listed) : listed[k] = y
    BY <1>1 DEF ToSet
  <2>3. k # i
    BY <2>1, <2>2 DEF x
  <2>4. CASE k < j \/ k > i
    BY <1>9, <1>10, <2>2, <2>4 DEF ToSet
  <2>5. CASE k >= j /\ k < i
    <3>1. k + 1 \in 1..Len(listed) /\ ~ (k + 1 < j) /\ ~ (k + 1 > i) /\ k + 1 # j
          /\ (k + 1) - 1 = k
      BY <1>1, <1>4, <2>5
    <3>2. listed'[k + 1] = y
      BY <1>10, <2>2, <3>1
    <3>3. QED
      BY <1>9, <3>1, <3>2 DEF ToSet
  <2>6. QED
    BY <1>4, <2>3, <2>4, <2>5
<1>12. ASSUME Walking
       PROVE  Missed' \in SUBSET Missed
  <2>1. SUFFICES ASSUME NEW y \in Missed' PROVE y \in Missed
    OBVIOUS
  <2>2. walk' = [walk EXCEPT !.stayed = @ \ {x}, !.left = @ + 0, !.moves = @ + 1]
    BY <1>6, <1>12 DEF Change
  <2>3. /\ walk'.stayed = walk.stayed \ {x} /\ walk'.seen = walk.seen /\ Passed' = Passed
        /\ Passed \in Int
    BY <2>2 DEF WalkInv, WalkTypeOK, Passed
  <2>4. y \in walk.stayed \ walk.seen /\ y # x
    BY <2>1, <2>3 DEF Missed
  <2>5. PICK k \in 1..Len(listed) : k <= Passed /\ listed'[k] = y
    BY <1>9, <2>1, <2>3 DEF Missed
  <2> HIDE DEF Passed
  <2>6. \E m \in 1..Len(listed) : m <= Passed /\ listed[m] = y
    <3>1. CASE k < j \/ k > i
      BY <1>10, <2>5, <3>1
    <3>2. CASE k >= j /\ k <= i
      <4>1. k # j
        BY <1>4, <1>10, <2>4, <2>5
      <4>2. k - 1 \in 1..Len(listed) /\ k - 1 <= Passed
        BY <1>1, <1>4, <2>3, <2>5, <3>2, <4>1
      <4>3. listed'[k] = listed[k - 1]
        BY <1>4, <1>10, <3>2, <4>1
      <4>4. QED
        BY <2>5, <4>2, <4>3
    <3>3. QED
      BY <1>1, <1>4, <3>1, <3>2
  <2>7. QED
    BY <2>4, <2>6 DEF Missed
<1>13. QED
  BY <1>6, <1>8, <1>11, <1>12, ChangeKeepsWalkInv

\* A row that leaves brings at most one other to a page of the past: the first
\* of the page to come.
LEMMA LeaveKeepsWalkInv ==
  ASSUME WalkInv, Leave
  PROVE  WalkInv'
<1>1. listed \in Seq(Rows) /\ Len(listed) \in Nat /\ DOMAIN listed = 1..Len(listed)
  BY LenProperties DEF WalkInv, WalkTypeOK
<1>2. PICK i \in 1..Len(listed) : listed' = RemoveAt(listed, i) /\ Change({listed[i]}, 1)
  BY DEF Leave
<1>3. /\ listed' \in Seq(Rows) /\ Len(listed') = Len(listed) - 1
      /\ \A k \in 1..(Len(listed) - 1) :
           listed'[k] = IF k < i THEN listed[k] ELSE listed[k + 1]
  <2> DEFINE fewer == RemoveAt(listed, i)
  <2>1. /\ fewer \in Seq(Rows) /\ Len(fewer) = Len(listed) - 1
        /\ \A k \in 1..(Len(listed) - 1) :
             fewer[k] = IF k < i THEN listed[k] ELSE listed[k + 1]
    BY <1>1, RemoveAtElements
  <2>2. listed' = fewer
    BY <1>2
  <2> HIDE DEF fewer
  <2>3. QED
    BY <2>1, <2>2
<1>4. DOMAIN listed' = 1..(Len(listed) - 1)
  BY <1>3, LenProperties
<1> DEFINE first == listed[Passed + 1]
<1>5. ASSUME Walking
      PROVE  walk.stayed \ {listed[i]} \subseteq ToSet(listed')
  <2>1. SUFFICES ASSUME NEW y \in ToSet(listed), y # listed[i] PROVE y \in ToSet(listed')
    BY <1>5 DEF WalkInv
  <2>2. PICK k \in 1..Len(listed) : listed[k] = y
    BY <1>1 DEF ToSet
  <2>3. CASE k < i
    BY <1>1, <1>3, <1>4, <2>2, <2>3 DEF ToSet
  <2>4. CASE k > i
    <3>1. k - 1 \in 1..(Len(listed) - 1) /\ ~ (k - 1 < i) /\ (k - 1) + 1 = k
      BY <1>1, <2>4
    <3>2. listed'[k - 1] = y
      BY <1>3, <2>2, <3>1
    <3>3. QED
      BY <1>4, <3>1, <3>2 DEF ToSet
  <2>5. QED
    BY <2>1, <2>2, <2>3, <2>4
<1>6. ASSUME Walking
      PROVE  Missed' \in SUBSET (Missed \cup {first})
  <2>1. SUFFICES ASSUME NEW y \in Missed', y # first PROVE y \in Missed
    OBVIOUS
  <2>2. walk' = [walk EXCEPT !.stayed = @ \ {listed[i]}, !.left = @ + 1, !.moves = @ + 1]
    BY <1>2, <1>6 DEF Change
  <2>3. /\ walk'.stayed = walk.stayed \ {listed[i]} /\ walk'.seen = walk.seen
        /\ Passed' = Passed /\ Passed \in Int
    BY <2>2 DEF WalkInv, WalkTypeOK, Passed
  <2>4. y \in walk.stayed \ walk.seen
    BY <2>1, <2>3 DEF Missed
  <2>5. PICK k \in 1..(Len(listed) - 1) : k <= Passed /\ listed'[k] = y
    BY <1>3, <2>1, <2>3 DEF Missed
  <2> HIDE DEF Passed
  <2>6. \E m \in 1..Len(listed) : m <= Passed /\ listed[m] = y
    <3>1. CASE k < i
      BY <1>1, <1>3, <2>5, <3>1
    <3>2. CASE k >= i
      <4>1. listed[k + 1] = y
        BY <1>1, <1>3, <2>5, <3>2
      <4>2. k # Passed
        BY <2>1, <4>1
      <4>3. k + 1 \in 1..Len(listed) /\ k + 1 <= Passed
        BY <1>1, <2>3, <2>5, <4>2
      <4>4. QED
        BY <4>1, <4>3
    <3>3. QED
      BY <1>1, <3>1, <3>2
  <2>7. QED
    BY <2>4, <2>6 DEF Missed
<1>7. 1 \in Nat /\ 1 # 0
  OBVIOUS
<1> HIDE DEF first
<1>8. Walking => Missed' \in SUBSET (IF 1 = 0 THEN Missed ELSE Missed \cup {first})
  BY <1>6, <1>7
<1>9. QED
  BY <1>2, <1>3, <1>5, <1>7, <1>8, ChangeKeepsWalkInv

\* Every step keeps the invariant.
LEMMA WalkInvKept ==
  ASSUME WalkInv, [WalkNext]_walkVars
  PROVE  WalkInv'
<1>1. CASE UNCHANGED walkVars
  BY <1>1 DEF walkVars, WalkInv, WalkTypeOK, Walking, Missed, Passed
<1>2. CASE WalkNext
  BY <1>2, BeginKeepsWalkInv, NextPageKeepsWalkInv, EnterKeepsWalkInv,
     MoveUpKeepsWalkInv, LeaveKeepsWalkInv, SizesAskedAssumption DEF WalkNext
<1>3. QED
  BY <1>1, <1>2

\* The invariant holds in every state of every walk.
THEOREM WalkInvariant == WalkSpec => []WalkInv
<1>1. WalkInit => WalkInv
  BY WalkInvAtStart
<1>2. WalkInv /\ [WalkNext]_walkVars => WalkInv'
  BY WalkInvKept
<1>3. QED
  BY <1>1, <1>2, PTL DEF WalkSpec

\* WalkMissesAtMostLeavers: for any rows, page size and number of changes, a
\* walk to the last page misses no more of the rows that kept their place than
\* rows have left meanwhile.
THEOREM WalkAlwaysMissesAtMostLeavers == WalkSpec => []WalkMissesAtMostLeavers
<1>1. WalkInv => WalkMissesAtMostLeavers
  BY DEF WalkInv, WalkMissesAtMostLeavers
<1>2. QED
  BY <1>1, WalkInvariant, PTL
=============================================================================
