--------------------------- MODULE StockLedgerProofs ---------------------------
(***************************************************************************)
(* Proofs about StockLedger for any number of requests and products and    *)
(* any usages and adjustments: its balances and movements first, then that *)
(* its statements amount to the calls of AtomicStock.                      *)
(***************************************************************************)
EXTENDS StockLedger, Positions, SequenceTheorems, TLAPS

-----------------------------------------------------------------------------
\* What request r sees of p after its first n uncommitted movements.
Uncommitted(r, p, n) ==
    LET mine == {i \in 1..n : job[r].work[i].product = p}
    IN  IF mine = {} THEN stock[p] ELSE job[r].work[Max(mine)].new

BookingSteps == {"deduct", "adjust", "credit"}

\* The movements a transaction has not committed yet stand on rows it holds,
\* each starting where the one before it, or else the row, stands.
SlotOK(r) ==
    /\ at[r] \notin BookingSteps \cup {"commit"} => job[r].work = <<>>
    /\ at[r] \in BookingSteps \cup {"begin"} => job[r].todo # <<>>
    /\ \A i \in 1..Len(job[r].work) :
        LET m == job[r].work[i] IN
        /\ locks[m.product] = r
        /\ m.previous = Uncommitted(r, m.product, i - 1)
        /\ m.new = m.previous + Delta(m)

LedgerInv ==
    /\ TypeOK
    /\ \A r \in Requests : SlotOK(r)
    /\ LedgerExplainsStock

-----------------------------------------------------------------------------
\* A balance seen by a request is a balance of the column.
LEMMA UncommittedType ==
  ASSUME TypeOK, NEW r \in Requests, NEW p \in Products, NEW n \in 0..Len(job[r].work)
  PROVE  Uncommitted(r, p, n) \in 0..MaxStock
<1> DEFINE mine == {i \in 1..n : job[r].work[i].product = p}
<1>1. job[r].work \in Seq(Movements) /\ n \in Nat /\ stock[p] \in 0..MaxStock
  BY DEF TypeOK, Jobs
<1>2. CASE mine = {}
  BY <1>1, <1>2 DEF Uncommitted
<1>3. CASE mine # {}
  <2>1. PICK k \in 1..n : k = Max(mine)
    <3>1. mine \in SUBSET (1..n)
      OBVIOUS
    <3> HIDE DEF mine
    <3>2. Max(mine) \in mine
      BY <1>1, <1>3, <3>1, LastPosition
    <3>3. QED
      BY <3>1, <3>2
  <2>2. k \in 1..Len(job[r].work)
    OBVIOUS
  <2>3. job[r].work[k] \in Movements
    BY <1>1, <2>2, ElementOfSeq
  <2>4. QED
    BY <1>3, <2>1, <2>3 DEF Uncommitted, Movements
<1>4. QED
  BY <1>2, <1>3

\* The balance a statement sees.
LEMMA BalanceIsUncommitted ==
  ASSUME TypeOK, NEW r \in Requests, NEW p \in Products
  PROVE  Balance(r, p) = Uncommitted(r, p, Len(job[r].work))
<1>1. DOMAIN job[r].work = 1..Len(job[r].work)
  BY DEF TypeOK, Jobs
<1>2. QED
  BY <1>1 DEF Balance, Uncommitted

\* A slot whose request does not move keeps what it has booked, as long as
\* nobody takes or changes the rows it holds.
LEMMA SlotStays ==
  ASSUME TypeOK, NEW q \in Requests, SlotOK(q), at'[q] = at[q], job'[q] = job[q],
         \A p \in Products : locks[p] = q => locks'[p] = q /\ stock'[p] = stock[p]
  PROVE  SlotOK(q)'
<1>1. job[q].work \in Seq(Movements)
  BY DEF TypeOK, Jobs
<1>2. ASSUME NEW i \in 1..Len(job[q].work)
      PROVE  LET m == job[q].work[i] IN
             /\ locks'[m.product] = q
             /\ m.previous = Uncommitted(q, m.product, i - 1)'
             /\ m.new = m.previous + Delta(m)
  <2> DEFINE m == job[q].work[i]
  <2>1. m \in Movements
    BY <1>1, ElementOfSeq
  <2>2. /\ locks[m.product] = q
        /\ m.previous = Uncommitted(q, m.product, i - 1)
        /\ m.new = m.previous + Delta(m)
    BY DEF SlotOK
  <2>3. locks'[m.product] = q /\ stock'[m.product] = stock[m.product]
    BY <2>1, <2>2 DEF Movements
  <2>4. Uncommitted(q, m.product, i - 1)' = Uncommitted(q, m.product, i - 1)
    BY <2>3 DEF Uncommitted
  <2>5. QED
    BY <2>2, <2>3, <2>4
<1>3. QED
  BY <1>2 DEF SlotOK

-----------------------------------------------------------------------------
\* A transaction that ends without a commit leaves a consistent ledger: its
\* lines and locks are gone, and everybody else's stand.
LEMMA EndKeepsLedger ==
  ASSUME LedgerInv, NEW r \in Requests, End(r),
         UNCHANGED <<status, stock, movements>>, active' \in [Products -> BOOLEAN]
  PROVE  LedgerInv'
<1> USE DEF LedgerInv
<1>1. job' \in [Requests -> Jobs] /\ job'[r] = NoJob
  BY EmptySeq DEF TypeOK, End, Jobs, NoJob
<1>2. TypeOK'
  <2>1. at' \in [Requests -> Steps] /\ locks' \in [Products -> Requests \cup {NoRequest}]
    BY DEF TypeOK, End, Goto, Steps
  <2>2. \A q \in Requests : job'[q].reverses \in 0..Len(movements)
    BY <1>1 DEF TypeOK, End, NoJob
  <2>3. QED
    BY <1>1, <2>1, <2>2 DEF TypeOK
<1>3. ASSUME NEW q \in Requests PROVE SlotOK(q)'
  <2>1. CASE q = r
    <3>1. at'[q] = "idle"
      BY <2>1 DEF End, Goto, TypeOK
    <3>2. QED
      BY <1>1, <2>1, <3>1 DEF SlotOK, BookingSteps, NoJob
  <2>2. CASE q # r
    <3>1. at'[q] = at[q] /\ job'[q] = job[q]
      BY <2>2 DEF End, Goto, TypeOK
    <3>2. \A p \in Products : locks[p] = q => locks'[p] = q /\ stock'[p] = stock[p]
      BY <2>2 DEF End
    <3>3. QED
      BY <3>1, <3>2, SlotStays
  <2>3. QED
    BY <2>1, <2>2
<1>4. LedgerExplainsStock'
  BY DEF LedgerExplainsStock, BalanceAfter
<1>5. QED
  BY <1>2, <1>3, <1>4

\* A call that has only read keeps the ledger as it is.
LEMMA ReadKeepsLedger ==
  ASSUME LedgerInv, NEW r \in Requests, NEW step \in Steps, NEW j \in Jobs,
         Goto(r, step), job' = [job EXCEPT ![r] = j],
         UNCHANGED <<status, stock, active, movements, locks>>,
         j.work = <<>>, step # "commit", j.reverses \in 0..Len(movements),
         step \in BookingSteps \cup {"begin"} => j.todo # <<>>
  PROVE  LedgerInv'
<1> USE DEF LedgerInv
<1>1. TypeOK'
  BY DEF TypeOK, Goto
<1>2. ASSUME NEW q \in Requests PROVE SlotOK(q)'
  <2>1. CASE q = r
    <3>1. at'[q] = step /\ job'[q] = j
      BY <2>1 DEF Goto, TypeOK
    <3>2. QED
      BY <3>1 DEF SlotOK
  <2>2. CASE q # r
    <3>1. at'[q] = at[q] /\ job'[q] = job[q]
      BY <2>2 DEF Goto, TypeOK
    <3>2. QED
      BY <3>1, SlotStays
  <2>3. QED
    BY <2>1, <2>2
<1>3. LedgerExplainsStock'
  BY DEF LedgerExplainsStock, BalanceAfter
<1>4. QED
  BY <1>1, <1>2, <1>3

-----------------------------------------------------------------------------
\* The reads that admit a usage, a reversal, an adjustment or an edit.
LEMMA StartKeepsLedger ==
  ASSUME LedgerInv, NEW r \in Requests,
         \/ \E o \in Orders, lines \in Demands : AdmitUsage(r, o, lines)
         \/ \E m \in DOMAIN movements : FindMovement(r, m)
         \/ \E line \in Adjustments : ApplyStockAdjustment(r, line)
         \/ \E p \in Products, deactivate \in BOOLEAN : FindProduct(r, p, deactivate)
  PROVE  LedgerInv'
<1>1. /\ job[r] \in Jobs /\ at[r] = "idle" /\ job[r].work = <<>>
      /\ job[r].reverses \in 0..Len(movements)
  <2>1. at[r] = "idle"
    BY DEF AdmitUsage, FindMovement, ApplyStockAdjustment, FindProduct
  <2>2. QED
    BY <2>1 DEF LedgerInv, TypeOK, SlotOK, BookingSteps
<1>2. CASE \E o \in Orders, lines \in Demands : AdmitUsage(r, o, lines)
  <2>1. PICK o \in Orders, lines \in Demands : AdmitUsage(r, o, lines)
    BY <1>2
  <2>2. lines \in Seq(Lines) /\ lines # <<>>
    BY DemandsAssumption
  <2> DEFINE j == [job[r] EXCEPT !.order = o, !.todo = lines]
  <2>3. /\ j \in Jobs /\ j.work = <<>> /\ j.todo # <<>>
        /\ j.reverses \in 0..Len(movements)
    BY <1>1, <2>2 DEF Jobs
  <2>4. job' = [job EXCEPT ![r] = j] /\ Goto(r, "begin")
        /\ UNCHANGED <<status, stock, active, movements, locks>>
    BY <2>1 DEF AdmitUsage
  <2> HIDE DEF j
  <2>5. QED
    BY <2>3, <2>4, ReadKeepsLedger DEF Steps
<1>3. CASE \E m \in DOMAIN movements : FindMovement(r, m)
  <2>1. PICK m \in DOMAIN movements : FindMovement(r, m)
    BY <1>3
  <2>2. movements \in Seq(Movements) /\ m \in 1..Len(movements) /\ m \in Nat
    BY DEF LedgerInv, TypeOK
  <2>3. movements[m] \in Movements
    BY <2>2, ElementOfSeq
  <2> DEFINE line == [type |-> "ENTRY", product |-> movements[m].product,
                      quantity |-> movements[m].quantity]
             t == <<line>>
             o == movements[m].order
             j == [NoJob EXCEPT !.order = o, !.reverses = m, !.todo = t]
  <2>4. line \in Lines
    BY <2>3 DEF Movements, Lines
  <2> HIDE DEF line
  <2>5. t \in Seq(Lines) /\ t # <<>> /\ o \in Orders \cup {NoOrder}
    BY <2>3, <2>4 DEF Movements
  <2>6. NoJob \in Jobs /\ NoJob.work = <<>>
    BY EmptySeq DEF Jobs, NoJob
  <2>7. job' = [job EXCEPT ![r] = j] /\ Goto(r, "credit")
        /\ UNCHANGED <<status, stock, active, movements, locks>>
    BY <2>1 DEF FindMovement, line
  <2> HIDE DEF t, o
  <2>8. /\ j \in Jobs /\ j.work = <<>> /\ j.todo # <<>>
        /\ j.reverses \in 0..Len(movements)
    <3> DEFINE a == [NoJob EXCEPT !.order = o]
               b == [a EXCEPT !.reverses = m]
    <3>1. a \in Jobs /\ a.work = <<>>
      BY <2>5, <2>6 DEF Jobs
    <3> HIDE DEF a
    <3>2. b \in Jobs /\ b.work = <<>> /\ b.reverses = m
      BY <2>2, <3>1 DEF Jobs
    <3> HIDE DEF b
    <3>3. [b EXCEPT !.todo = t] \in Jobs
      BY <2>5, <3>2 DEF Jobs
    <3>4. /\ [b EXCEPT !.todo = t].work = <<>>
          /\ [b EXCEPT !.todo = t].todo = t
          /\ [b EXCEPT !.todo = t].reverses = m
      BY <3>2 DEF Jobs
    <3>5. QED
      BY <2>2, <2>5, <3>3, <3>4 DEF a, b
  <2> HIDE DEF j
  <2>9. QED
    BY <2>7, <2>8, ReadKeepsLedger DEF Steps
<1>4. CASE \E line \in Adjustments : ApplyStockAdjustment(r, line)
  <2>1. PICK line \in Adjustments : ApplyStockAdjustment(r, line)
    BY <1>4
  <2>2. line \in Lines
    BY AdjustmentsAssumption
  <2> DEFINE t == <<line>>
             j == [job[r] EXCEPT !.todo = t]
  <2>3. t \in Seq(Lines) /\ t # <<>>
    BY <2>2
  <2> HIDE DEF t
  <2>4. /\ j \in Jobs /\ j.work = <<>> /\ j.todo # <<>>
        /\ j.reverses \in 0..Len(movements)
    BY <1>1, <2>3 DEF Jobs
  <2>5. job' = [job EXCEPT ![r] = j] /\ Goto(r, "adjust")
        /\ UNCHANGED <<status, stock, active, movements, locks>>
    BY <2>1 DEF ApplyStockAdjustment, t
  <2> HIDE DEF j
  <2>6. QED
    BY <2>4, <2>5, ReadKeepsLedger DEF Steps
<1>5. CASE \E p \in Products, deactivate \in BOOLEAN : FindProduct(r, p, deactivate)
  <2>1. PICK p \in Products, deactivate \in BOOLEAN : FindProduct(r, p, deactivate)
    BY <1>5
  <2> DEFINE j == [job[r] EXCEPT !.product = p, !.writes = active[p] /\ ~ deactivate]
  <2>2. (active[p] /\ ~ deactivate) \in BOOLEAN
    OBVIOUS
  <2>3. /\ j \in Jobs /\ j.work = <<>>
        /\ j.reverses \in 0..Len(movements)
    BY <1>1, <2>2 DEF Jobs
  <2>4. job' = [job EXCEPT ![r] = j] /\ Goto(r, "save")
        /\ UNCHANGED <<status, stock, active, movements, locks>>
    BY <2>1 DEF FindProduct
  <2> HIDE DEF j
  <2>5. "save" \notin BookingSteps \cup {"begin"}
    BY DEF BookingSteps
  <2>6. QED
    BY <2>3, <2>4, <2>5, ReadKeepsLedger DEF Steps
<1>6. QED
  BY <1>2, <1>3, <1>4, <1>5

\* The second read of the order's status changes nothing else.
LEMMA ConfirmKeepsLedger ==
  ASSUME LedgerInv, NEW r \in Requests, ConfirmOrder(r)
  PROVE  LedgerInv'
<1>1. /\ at[r] = "begin" /\ at' = [at EXCEPT ![r] = "deduct"]
      /\ UNCHANGED <<status, stock, active, movements, locks, job>>
  BY DEF ConfirmOrder, Goto
<1>2. TypeOK'
  BY <1>1 DEF LedgerInv, TypeOK, Steps
<1>3. ASSUME NEW q \in Requests PROVE SlotOK(q)'
  <2>1. CASE q = r
    <3>1. job[r].todo # <<>> /\ at'[r] = "deduct"
      BY <1>1 DEF LedgerInv, TypeOK, SlotOK
    <3>2. QED
      BY <1>1, <2>1, <3>1 DEF LedgerInv, SlotOK, BookingSteps, Uncommitted
  <2>2. CASE q # r
    BY <1>1, <2>2, SlotStays DEF LedgerInv, TypeOK
  <2>3. QED
    BY <2>1, <2>2
<1>4. QED
  BY <1>1, <1>2, <1>3 DEF LedgerInv, LedgerExplainsStock, BalanceAfter

\* The end of an order does not touch the ledger.
LEMMA FinalizeKeepsLedger ==
  ASSUME LedgerInv, NEW o \in Orders, FinalizeOrder(o)
  PROVE  LedgerInv'
<1>1. TypeOK'
  BY DEF LedgerInv, TypeOK, FinalizeOrder
<1>2. ASSUME NEW q \in Requests PROVE SlotOK(q)'
  BY SlotStays DEF LedgerInv, FinalizeOrder
<1>3. QED
  BY <1>1, <1>2 DEF LedgerInv, LedgerExplainsStock, BalanceAfter, FinalizeOrder

-----------------------------------------------------------------------------
\* Booking a line: the new movement starts where the request's view of the
\* row stands, and the row is the request's from now on.
LEMMA BookKeepsLedger ==
  ASSUME LedgerInv, NEW r \in Requests, NEW step \in BookingSteps, BookLine(r, step)
  PROVE  LedgerInv'
<1> DEFINE line == Head(job[r].todo)
           b == Balance(r, line.product)
           m == [type |-> line.type, product |-> line.product,
                 quantity |-> line.quantity, order |-> job[r].order,
                 previous |-> b, new |-> b + Delta(line), reverses |-> job[r].reverses]
           old == job[r].work
           next == IF Len(job[r].todo) = 1 THEN "commit" ELSE step
<1>1. /\ at[r] = step /\ Free(r, line.product) /\ Fits(r, line)
      /\ locks' = [locks EXCEPT ![line.product] = r]
      /\ job' = [job EXCEPT ![r].todo = Tail(job[r].todo), ![r].work = Append(old, m)]
      /\ at' = [at EXCEPT ![r] = next]
      /\ UNCHANGED <<status, stock, active, movements>>
  BY DEF BookLine, Fitting, Goto
<1>2. /\ job[r] \in Jobs /\ job[r].todo \in Seq(Lines) /\ old \in Seq(Movements)
      /\ job[r].todo # <<>> /\ job[r].order \in Orders \cup {NoOrder}
      /\ job[r].reverses \in Nat /\ job[r].reverses \in 0..Len(movements)
  BY <1>1 DEF LedgerInv, TypeOK, Jobs, SlotOK
<1>3. line \in Lines
  BY <1>2, HeadTailProperties
<1>4. b \in 0..MaxStock /\ b + Delta(line) \in 0..MaxStock
      /\ b = Uncommitted(r, line.product, Len(old))
  <2>1. line.product \in Products /\ Len(old) \in 0..Len(job[r].work)
    BY <1>2, <1>3, LenProperties DEF Lines
  <2>2. b = Uncommitted(r, line.product, Len(old))
    BY <2>1, BalanceIsUncommitted DEF LedgerInv
  <2>3. QED
    BY <1>1, <2>1, <2>2, UncommittedType DEF LedgerInv, Fits
<1>5. m \in Movements /\ m.product = line.product /\ m.previous = b
      /\ m.new = b + Delta(m)
  <2>1. m.product = line.product /\ m.previous = b /\ m.new = b + Delta(line)
        /\ m.type = line.type /\ m.quantity = line.quantity
    OBVIOUS
  <2>2. Delta(m) = Delta(line)
    BY <2>1 DEF Delta
  <2> DEFINE n == b + Delta(line)
  <2>3. n \in 0..MaxStock /\ b \in 0..MaxStock
    BY <1>4
  <2> HIDE DEF b, n
  <2>4. [type |-> line.type, product |-> line.product,
         quantity |-> line.quantity, order |-> job[r].order,
         previous |-> b, new |-> n, reverses |-> job[r].reverses] \in Movements
    BY <1>2, <1>3, <2>3 DEF Movements, Lines
  <2>5. QED
    BY <2>1, <2>2, <2>4 DEF n
<1> HIDE DEF m, b
<1>6. /\ job'[r] = [job[r] EXCEPT !.todo = Tail(job[r].todo), !.work = Append(old, m)]
      /\ Tail(job[r].todo) \in Seq(Lines) /\ Append(old, m) \in Seq(Movements)
  BY <1>1, <1>2, <1>5, HeadTailProperties, AppendProperties DEF LedgerInv, TypeOK
<1>7. /\ job'[r] \in Jobs /\ job'[r].work = Append(old, m)
      /\ job'[r].todo = Tail(job[r].todo) /\ job'[r].reverses = job[r].reverses
  BY <1>2, <1>6 DEF Jobs
<1>8. TypeOK'
  <2>1. job' \in [Requests -> Jobs]
    BY <1>1, <1>7 DEF LedgerInv, TypeOK
  <2>2. at' \in [Requests -> Steps]
    BY <1>1 DEF LedgerInv, TypeOK, BookingSteps, Steps
  <2>3. locks' \in [Products -> Requests \cup {NoRequest}]
    BY <1>1 DEF LedgerInv, TypeOK
  <2>4. \A q \in Requests : job'[q].reverses \in 0..Len(movements')
    BY <1>1, <1>2, <1>7 DEF LedgerInv, TypeOK
  <2>5. QED
    BY <1>1, <2>1, <2>2, <2>3, <2>4 DEF LedgerInv, TypeOK
<1>9. ASSUME NEW q \in Requests PROVE SlotOK(q)'
  <2>1. CASE q # r
    <3>1. at'[q] = at[q] /\ job'[q] = job[q]
      BY <1>1, <2>1 DEF LedgerInv, TypeOK
    <3>2. \A p \in Products : locks[p] = q => locks'[p] = q /\ stock'[p] = stock[p]
      BY <1>1, <2>1, NothingAssumption DEF Free, LedgerInv, TypeOK
    <3>3. QED
      BY <3>1, <3>2, SlotStays DEF LedgerInv
  <2>2. CASE q = r
    <3>1. at'[r] = next /\ (next \notin BookingSteps \cup {"commit"} => FALSE)
      BY <1>1 DEF LedgerInv, TypeOK, BookingSteps
    <3>2. at'[r] \in BookingSteps \cup {"begin"} => job'[r].todo # <<>>
      <4>1. CASE Len(job[r].todo) = 1
        BY <1>1, <3>1, <4>1 DEF BookingSteps
      <4>2. CASE Len(job[r].todo) # 1
        <5>1. Len(job[r].todo) \in Nat \ {0, 1}
          BY <1>2, <4>2, LenProperties, EmptySeq
        <5>2. Len(job'[r].todo) = Len(job[r].todo) - 1
          BY <1>2, <1>7, HeadTailProperties
        <5>3. job'[r].todo \in Seq(Lines) /\ Len(job'[r].todo) # 0
          BY <1>6, <1>7, <5>1, <5>2
        <5>4. QED
          BY <5>3, EmptySeq
      <4>3. QED
        BY <4>1, <4>2
    <3>3. ASSUME NEW i \in 1..Len(job'[r].work)
          PROVE  (LET x == job[r].work[i] IN
                  /\ locks[x.product] = r
                  /\ x.previous = Uncommitted(r, x.product, i - 1)
                  /\ x.new = x.previous + Delta(x))'
      <4>1. Len(Append(old, m)) = Len(old) + 1 /\ Len(old) \in Nat
            /\ \A k \in 1..Len(old) : Append(old, m)[k] = old[k]
            /\ Append(old, m)[Len(old) + 1] = m
        BY <1>2, <1>5, AppendProperties, LenProperties
      <4>2. ASSUME NEW p \in Products PROVE Uncommitted(r, p, i - 1)' = Uncommitted(r, p, i - 1)
        <5>1. i - 1 \in Nat /\ i - 1 <= Len(old)
          BY <1>7, <4>1
        <5>2. \A k \in 1..(i - 1) : job'[r].work[k] = old[k]
          BY <1>7, <4>1, <5>1
        <5> DEFINE mine == {k \in 1..(i - 1) : old[k].product = p}
                   mine2 == {k \in 1..(i - 1) : job'[r].work[k].product = p}
        <5>3. mine2 = mine
          BY <5>2
        <5>4. mine # {} => Max(mine) \in 1..(i - 1)
          <6>1. mine \in SUBSET (1..(i - 1))
            OBVIOUS
          <6> HIDE DEF mine
          <6>2. QED
            BY <5>1, <6>1, LastPosition
        <5>5. /\ Uncommitted(r, p, i - 1) = IF mine = {} THEN stock[p] ELSE old[Max(mine)].new
              /\ Uncommitted(r, p, i - 1)'
                 = IF mine2 = {} THEN stock[p] ELSE job'[r].work[Max(mine2)].new
          BY <1>1 DEF Uncommitted
        <5> HIDE DEF mine, mine2
        <5>6. QED
          BY <5>2, <5>3, <5>4, <5>5
      <4>3. CASE i \in 1..Len(old)
        <5>1. job'[r].work[i] = old[i] /\ old[i] \in Movements
          BY <1>2, <1>7, <4>1, <4>3, ElementOfSeq
        <5>2. /\ locks[old[i].product] = r
              /\ old[i].previous = Uncommitted(r, old[i].product, i - 1)
              /\ old[i].new = old[i].previous + Delta(old[i])
          BY <4>3 DEF LedgerInv, SlotOK
        <5>3. PICK p \in Products : p = old[i].product
          BY <5>1 DEF Movements
        <5>4. locks'[p] = r
          BY <1>1, <5>2, <5>3 DEF LedgerInv, TypeOK
        <5>5. old[i].previous = Uncommitted(r, p, i - 1)'
          BY <4>2, <5>2, <5>3
        <5>6. job'[r].work[i].product = p
          BY <5>1, <5>3
        <5>7. Uncommitted(r, job[r].work[i].product, i - 1)' = Uncommitted(r, p, i - 1)'
          BY <5>6 DEF Uncommitted
        <5>8. QED
          BY <5>1, <5>2, <5>4, <5>5, <5>6, <5>7 DEF Delta
      <4>4. CASE i = Len(old) + 1
        <5>1. PICK p \in Products : p = m.product
          BY <1>5 DEF Movements
        <5>2. PICK x \in Movements : x = m
          BY <1>5
        <5>3. job'[r].work[i] = x /\ x.product = p
          BY <1>7, <4>1, <4>4, <5>1, <5>2
        <5>4. locks'[p] = r
          BY <1>1, <1>5, <5>1 DEF LedgerInv, TypeOK
        <5>5. x.previous = Uncommitted(r, p, i - 1)' /\ x.new = x.previous + Delta(x)
          BY <1>4, <1>5, <4>1, <4>2, <4>4, <5>1, <5>2
        <5>6. Uncommitted(r, job[r].work[i].product, i - 1)' = Uncommitted(r, p, i - 1)'
          BY <5>3 DEF Uncommitted
        <5>7. QED
          BY <5>3, <5>4, <5>5, <5>6 DEF Delta
      <4>5. QED
        BY <1>7, <4>1, <4>3, <4>4
    <3>4. QED
      BY <2>2, <3>1, <3>2, <3>3 DEF SlotOK
  <2>3. QED
    BY <2>1, <2>2
<1>10. QED
  BY <1>1, <1>8, <1>9 DEF LedgerInv, LedgerExplainsStock, BalanceAfter

-----------------------------------------------------------------------------
\* A commit appends the request's movements to the ledger: what was its view
\* of the rows is what the movements leave behind, step by step.
LEMMA CommitKeepsLedger ==
  ASSUME LedgerInv, NEW r \in Requests, Commit(r)
  PROVE  LedgerInv'
<1> DEFINE new == job[r].work
<1>0. PICK n \in Nat : n = Len(movements)
  BY LenProperties DEF LedgerInv, TypeOK
<1>1. /\ at[r] = "commit" /\ stock' = [p \in Products |-> Balance(r, p)]
      /\ movements' = movements \o new /\ End(r) /\ UNCHANGED <<status, active>>
  BY DEF Commit
<1>2. /\ movements \in Seq(Movements) /\ new \in Seq(Movements)
      /\ n = Len(movements) /\ Len(new) \in Nat /\ stock \in [Products -> 0..MaxStock]
  BY <1>0, LenProperties DEF LedgerInv, TypeOK, Jobs
<1>3. /\ movements' \in Seq(Movements) /\ Len(movements') = n + Len(new)
      /\ \A i \in 1..n : movements'[i] = movements[i]
      /\ \A i \in 1..Len(new) : movements'[n + i] = new[i]
  BY <1>1, <1>2, ConcatProperties
<1>4. DOMAIN movements = 1..n /\ DOMAIN movements' = 1..(n + Len(new))
  BY <1>2, <1>3, LenProperties
<1>5. \A p \in Products : stock'[p] = Uncommitted(r, p, Len(new)) /\ stock'[p] \in 0..MaxStock
  <2>1. ASSUME NEW p \in Products
        PROVE  stock'[p] = Uncommitted(r, p, Len(new)) /\ stock'[p] \in 0..MaxStock
    <3>1. Len(new) \in 0..Len(job[r].work)
      BY <1>2
    <3>2. QED
      BY <1>1, <3>1, BalanceIsUncommitted, UncommittedType DEF LedgerInv
  <2>2. QED
    BY <2>1
<1>6. TypeOK'
  <2>1. job' \in [Requests -> Jobs] /\ \A q \in Requests : job'[q].reverses \in 0..Len(movements')
    <3>1. NoJob \in Jobs /\ NoJob.reverses = 0
      BY EmptySeq DEF Jobs, NoJob
    <3>2. job' = [job EXCEPT ![r] = NoJob]
      BY <1>1 DEF End
    <3>3. job' \in [Requests -> Jobs]
      BY <3>1, <3>2 DEF LedgerInv, TypeOK
    <3>4. ASSUME NEW q \in Requests PROVE job'[q].reverses \in 0..Len(movements')
      <4>1. job[q].reverses \in 0..n
        BY <1>2 DEF LedgerInv, TypeOK
      <4>2. job'[q].reverses \in {job[q].reverses, 0}
        BY <3>1, <3>2 DEF LedgerInv, TypeOK
      <4>3. QED
        BY <1>2, <1>3, <4>1, <4>2
    <3>5. QED
      BY <3>3, <3>4
  <2>2. at' \in [Requests -> Steps] /\ locks' \in [Products -> Requests \cup {NoRequest}]
    BY <1>1 DEF LedgerInv, TypeOK, End, Goto, Steps
  <2>3. stock' \in [Products -> 0..MaxStock]
    BY <1>1, <1>5
  <2>4. QED
    BY <1>1, <1>3, <2>1, <2>2, <2>3 DEF LedgerInv, TypeOK
<1>7. ASSUME NEW q \in Requests PROVE SlotOK(q)'
  <2>1. CASE q = r
    <3>1. at'[q] = "idle" /\ job'[q] = NoJob
      BY <1>1, <2>1 DEF End, Goto, LedgerInv, TypeOK
    <3>2. QED
      BY <2>1, <3>1 DEF SlotOK, BookingSteps, NoJob
  <2>2. CASE q # r
    <3>1. at'[q] = at[q] /\ job'[q] = job[q]
      BY <1>1, <2>2 DEF End, Goto, LedgerInv, TypeOK
    <3>2. ASSUME NEW p \in Products, locks[p] = q
          PROVE  locks'[p] = q /\ stock'[p] = stock[p]
      <4>1. \A i \in 1..Len(new) : new[i].product # p
        BY <2>2, <3>2 DEF LedgerInv, SlotOK
      <4>2. Uncommitted(r, p, Len(new)) = stock[p]
        BY <4>1 DEF Uncommitted
      <4>3. QED
        BY <1>1, <1>5, <2>2, <3>2, <4>2 DEF End
    <3>3. QED
      BY <3>1, <3>2, SlotStays DEF LedgerInv
  <2>3. QED
    BY <2>1, <2>2
<1>8. ASSUME NEW p \in Products, NEW k \in 0..n
      PROVE  BalanceAfter(p, k)' = BalanceAfter(p, k)
  <2> DEFINE S == {i \in 1..k : movements[i].product = p}
             T == {i \in 1..k : movements'[i].product = p}
  <2>1. S = T /\ S \in SUBSET (1..k) /\ k \in Nat /\ \A i \in 1..k : i \in 1..n
    BY <1>2, <1>3
  <2>2. /\ BalanceAfter(p, k) = IF S = {} THEN InitialStock[p] ELSE movements[Max(S)].new
        /\ BalanceAfter(p, k)' = IF T = {} THEN InitialStock[p] ELSE movements'[Max(T)].new
    BY DEF BalanceAfter
  <2> HIDE DEF S, T
  <2>3. S # {} => Max(S) \in 1..n
    BY <2>1, LastPosition
  <2>4. QED
    BY <1>3, <2>1, <2>2, <2>3
<1>9. ASSUME NEW p \in Products, NEW k \in 0..Len(new)
      PROVE  BalanceAfter(p, n + k)' = Uncommitted(r, p, k)
  <2> DEFINE mine == {i \in 1..k : new[i].product = p}
             S == {i \in 1..n : movements[i].product = p}
             T == {i \in 1..(n + k) : movements'[i].product = p}
  <2>1. /\ Uncommitted(r, p, k) = IF mine = {} THEN stock[p] ELSE new[Max(mine)].new
        /\ BalanceAfter(p, n) = IF S = {} THEN InitialStock[p] ELSE movements[Max(S)].new
        /\ BalanceAfter(p, n + k)' = IF T = {} THEN InitialStock[p] ELSE movements'[Max(T)].new
    BY DEF Uncommitted, BalanceAfter
  <2>2. k \in Nat /\ k <= Len(new) /\ \A i \in 1..k : i \in 1..Len(new)
    BY <1>2
  <2>3. stock[p] = BalanceAfter(p, n)
    BY <1>2 DEF LedgerInv, LedgerExplainsStock
  <2>4. \A i \in T : i \in S \/ (i - n \in mine)
    <3>1. ASSUME NEW i \in T, i > n PROVE i - n \in mine
      <4>1. i - n \in 1..k /\ n + (i - n) = i
        BY <1>2, <2>2, <3>1
      <4>2. movements'[i] = new[i - n]
        BY <1>3, <2>2, <4>1
      <4>3. QED
        BY <4>1, <4>2
    <3>2. ASSUME NEW i \in T, i <= n PROVE i \in S
      BY <1>2, <1>3, <3>2
    <3>3. \A i \in T : i \in Nat
      BY <1>2, <2>2
    <3> HIDE DEF T, S, mine
    <3>4. QED
      BY <1>2, <3>1, <3>2, <3>3
  <2>5. \A i \in S : i \in T
    BY <1>2, <1>3, <2>2
  <2>6. \A i \in mine : n + i \in T
    BY <1>2, <1>3, <2>2
  <2>7. S \in SUBSET (1..n) /\ mine \in SUBSET (1..k) /\ T \in SUBSET (1..(n + k))
    OBVIOUS
  <2> HIDE DEF mine, S, T
  <2>8. CASE mine = {}
    <3>1. T = S
      BY <2>4, <2>5, <2>8
    <3>2. S # {} => Max(S) \in 1..n
      BY <1>2, <2>7, LastPosition
    <3>3. QED
      BY <1>3, <2>1, <2>3, <2>8, <3>1, <3>2
  <2>9. CASE mine # {}
    <3>1. PICK j \in mine : j = Max(mine) /\ \A y \in mine : j >= y
      BY <2>2, <2>7, <2>9, LastPosition
    <3>2. n + j \in T /\ j \in 1..k
      BY <2>6, <2>7, <3>1
    <3>3. \A y \in T : n + j >= y
      BY <1>2, <2>2, <2>4, <2>7, <3>1, <3>2
    <3>4. Max(T) = n + j
      BY <1>2, <2>2, <2>7, <3>2, <3>3, GreatestIsMax
    <3>5. movements'[n + j] = new[j]
      BY <1>3, <2>2, <3>2
    <3>6. QED
      BY <2>1, <2>9, <3>1, <3>2, <3>4, <3>5
  <2>10. QED
    BY <2>8, <2>9
<1>10. ASSUME NEW i \in 1..(n + Len(new))
       PROVE  (/\ movements[i].previous = BalanceAfter(movements[i].product, i - 1)
               /\ movements[i].new = movements[i].previous + Delta(movements[i]))'
  <2>1. PICK x \in Movements : x = movements'[i]
    BY <1>3, ElementOfSeq
  <2>2. PICK p \in Products : p = x.product
    BY DEF Movements
  <2>3. BalanceAfter(movements[i].product, i - 1)' = BalanceAfter(p, i - 1)'
    BY <2>1, <2>2 DEF BalanceAfter
  <2>4. x.previous = BalanceAfter(p, i - 1)' /\ x.new = x.previous + Delta(x)
    <3>1. CASE i <= n
      <4>1. i \in DOMAIN movements /\ x = movements[i] /\ i - 1 \in 0..n
        BY <1>2, <1>3, <1>4, <2>1, <3>1
      <4>2. x.previous = BalanceAfter(p, i - 1) /\ x.new = x.previous + Delta(x)
        BY <2>2, <4>1 DEF LedgerInv, LedgerExplainsStock
      <4>3. QED
        BY <1>8, <4>1, <4>2
    <3>2. CASE i > n
      <4>1. PICK k \in 1..Len(new) : i = n + k
        <5>1. i - n \in 1..Len(new) /\ i = n + (i - n)
          BY <1>2, <3>2
        <5>2. QED
          BY <5>1
      <4>2. x = new[k] /\ k - 1 \in 0..Len(new) /\ i - 1 = n + (k - 1)
        BY <1>2, <1>3, <2>1, <4>1
      <4>3. x.previous = Uncommitted(r, p, k - 1) /\ x.new = x.previous + Delta(x)
        BY <2>2, <4>2 DEF LedgerInv, SlotOK
      <4>4. BalanceAfter(p, n + (k - 1))' = Uncommitted(r, p, k - 1)
        BY <1>9, <4>2
      <4>5. QED
        BY <4>2, <4>3, <4>4
    <3>3. QED
      BY <1>2, <3>1, <3>2
  <2>5. QED
    BY <2>1, <2>3, <2>4 DEF Delta
<1>11. \A p \in Products : stock'[p] = BalanceAfter(p, Len(movements))'
  <2>1. ASSUME NEW p \in Products PROVE stock'[p] = BalanceAfter(p, Len(movements))'
    <3>1. PICK k \in 0..Len(new) : k = Len(new)
      BY <1>2
    <3>2. BalanceAfter(p, n + k)' = Uncommitted(r, p, k)
      BY <1>9
    <3>3. BalanceAfter(p, Len(movements))' = BalanceAfter(p, n + k)'
      BY <1>3, <3>1 DEF BalanceAfter
    <3>4. QED
      BY <1>5, <3>1, <3>2, <3>3
  <2>2. QED
    BY <2>1
<1>12. LedgerExplainsStock'
  BY <1>4, <1>10, <1>11 DEF LedgerExplainsStock
<1>13. QED
  BY <1>6, <1>7, <1>12 DEF LedgerInv

-----------------------------------------------------------------------------
\* A step that only ends a transaction without a commit.
LEMMA AbortKeepsLedger ==
  ASSUME LedgerInv, NEW r \in Requests,
         RefuseOrder(r) \/ RefuseLine(r) \/ SaveProduct(r)
         \/ AbortDeadlocked(r) \/ Drop(r)
  PROVE  LedgerInv'
<1>1. End(r) /\ UNCHANGED <<status, stock, movements>>
  BY DEF RefuseOrder, RefuseLine, SaveProduct, AbortDeadlocked, Drop
<1>2. active' \in [Products -> BOOLEAN]
  <2>1. active \in [Products -> BOOLEAN] /\ job[r].writes \in BOOLEAN
    BY DEF LedgerInv, TypeOK, Jobs
  <2>2. QED
    BY <2>1 DEF RefuseOrder, RefuseLine, SaveProduct, AbortDeadlocked, Drop
<1>3. QED
  BY <1>1, <1>2, EndKeepsLedger

LEMMA LedgerInvAtStart == Init => LedgerInv
<1> SUFFICES ASSUME Init PROVE LedgerInv
  OBVIOUS
<1>1. movements = <<>> /\ stock = InitialStock
  BY DEF Init
<1>2. TypeOK
  BY <1>1, EmptySeq, StockAssumption DEF Init, TypeOK, Steps, Jobs, NoJob
<1>3. \A r \in Requests : SlotOK(r)
  BY DEF Init, SlotOK, NoJob, BookingSteps
<1>4. LedgerExplainsStock
  BY <1>1 DEF LedgerExplainsStock, BalanceAfter
<1>5. QED
  BY <1>2, <1>3, <1>4 DEF LedgerInv

LEMMA LedgerInvKept == LedgerInv /\ [Next]_vars => LedgerInv'
<1> SUFFICES ASSUME LedgerInv, [Next]_vars PROVE LedgerInv'
  OBVIOUS
<1>1. CASE \E r \in Requests :
             \/ \E o \in Orders, lines \in Demands : AdmitUsage(r, o, lines)
             \/ \E m \in DOMAIN movements : FindMovement(r, m)
             \/ \E line \in Adjustments : ApplyStockAdjustment(r, line)
             \/ \E p \in Products, deactivate \in BOOLEAN : FindProduct(r, p, deactivate)
  BY <1>1, StartKeepsLedger
<1>2. CASE \E r \in Requests : ConfirmOrder(r)
  BY <1>2, ConfirmKeepsLedger
<1>3. CASE \E r \in Requests : Deduct(r) \/ Adjust(r) \/ Credit(r)
  BY <1>3, BookKeepsLedger DEF Deduct, Adjust, Credit, BookingSteps
<1>4. CASE \E r \in Requests : Commit(r)
  BY <1>4, CommitKeepsLedger
<1>5. CASE \E r \in Requests : RefuseOrder(r) \/ RefuseLine(r) \/ SaveProduct(r)
                               \/ AbortDeadlocked(r) \/ Drop(r)
  BY <1>5, AbortKeepsLedger
<1>6. CASE \E o \in Orders : FinalizeOrder(o)
  BY <1>6, FinalizeKeepsLedger
<1>7. CASE UNCHANGED vars
  <2>1. TypeOK'
    BY <1>7 DEF vars, LedgerInv, TypeOK
  <2>2. \A q \in Requests : SlotOK(q)'
    BY <1>7, SlotStays DEF vars, LedgerInv
  <2>3. QED
    BY <1>7, <2>1, <2>2 DEF vars, LedgerInv, LedgerExplainsStock, BalanceAfter
<1>8. QED
  BY <1>1, <1>2, <1>3, <1>4, <1>5, <1>6, <1>7 DEF Next, Serve

\* The ledger invariant holds throughout.
THEOREM LedgerInvariant == Spec => []LedgerInv
  BY LedgerInvAtStart, LedgerInvKept, PTL DEF Spec

\* No balance, committed or not, falls below zero or leaves its column, and
\* every reversal names a movement that exists: lines are booked one by one on
\* rows that other calls read, wait for and roll back.
THEOREM StockTypeCorrect == Spec => []TypeOK
<1>1. LedgerInv => TypeOK
  BY DEF LedgerInv
<1>2. QED
  BY <1>1, LedgerInvariant, PTL

\* The movements of usages, reversals and manual adjustments account for every
\* balance, one starting where the one before it ended: the row locks, and
\* nothing else, keep two writers from losing an update of each other.
THEOREM LedgerAlwaysExplainsStock == Spec => []LedgerExplainsStock
<1>1. LedgerInv => LedgerExplainsStock
  BY DEF LedgerInv
<1>2. QED
  BY <1>1, LedgerInvariant, PTL

-----------------------------------------------------------------------------
(* The calls happen at once.                                               *)

\* The line a movement books.
AsLine(m) == [type |-> m.type, product |-> m.product, quantity |-> m.quantity]

AsLines(work) == [i \in 1..Len(work) |-> AsLine(work[i])]

\* The lines of the call that r serves: those booked and those to come.
Called(r) == AsLines(job[r].work) \o job[r].todo

\* What is booked stands on rows that nobody else can deactivate.
StaysActive(r) == \A i \in 1..Len(job[r].work) : active[job[r].work[i].product]

Uses(r) ==
    /\ job[r].order \in Orders /\ job[r].reverses = 0
    /\ Called(r) \in Demands
    /\ StaysActive(r)

Adjusts(r) ==
    /\ job[r].order = NoOrder /\ job[r].reverses = 0
    /\ \E line \in Adjustments : Called(r) = <<line>>
    /\ StaysActive(r)

Reverses(r) ==
    LET m == job[r].reverses IN
    /\ m \in DOMAIN movements
    /\ movements[m].type = "EXIT" /\ movements[m].order # NoOrder
    /\ job[r].order = movements[m].order
    /\ Called(r) = <<[type |-> "ENTRY", product |-> movements[m].product,
                      quantity |-> movements[m].quantity]>>

\* Every slot serves one call from its first read to its commit.
CallOK(r) ==
    /\ at[r] = "idle" => job[r] = NoJob
    /\ at[r] \in {"begin", "deduct"} => Uses(r)
    /\ at[r] = "adjust" => Adjusts(r)
    /\ at[r] = "credit" => Reverses(r)
    /\ at[r] = "commit" => job[r].todo = <<>> /\ (Uses(r) \/ Adjusts(r) \/ Reverses(r))
    /\ at[r] = "save" => job[r].product \in Products
    /\ \A i \in 1..Len(job[r].work) :
        job[r].work[i].order = job[r].order /\ job[r].work[i].reverses = job[r].reverses

CallInv == LedgerInv /\ \A r \in Requests : CallOK(r)

-----------------------------------------------------------------------------
\* The lines called for, one by one.
LEMMA CalledLines ==
  ASSUME NEW work \in Seq(Movements), NEW todo \in Seq(Lines)
  PROVE  /\ AsLines(work) \in Seq(Lines) /\ Len(AsLines(work)) = Len(work)
         /\ AsLines(work) \o todo \in Seq(Lines)
         /\ Len(AsLines(work) \o todo) = Len(work) + Len(todo)
         /\ \A i \in 1..Len(work) : (AsLines(work) \o todo)[i] = AsLine(work[i])
         /\ \A i \in 1..Len(todo) : (AsLines(work) \o todo)[Len(work) + i] = todo[i]
<1>1. Len(work) \in Nat /\ Len(todo) \in Nat
  BY LenProperties
<1>2. ASSUME NEW i \in 1..Len(work) PROVE AsLine(work[i]) \in Lines
  <2>1. work[i] \in Movements
    BY ElementOfSeq
  <2>2. QED
    BY <2>1 DEF AsLine, Movements, Lines
<1>3. /\ AsLines(work) \in Seq(Lines) /\ Len(AsLines(work)) = Len(work)
      /\ \A i \in 1..Len(work) : AsLines(work)[i] = AsLine(work[i])
  BY <1>1, <1>2 DEF AsLines
<1> DEFINE a == AsLines(work)
           s == a \o todo
<1> HIDE DEF a
<1>4. a \in Seq(Lines) /\ Len(a) = Len(work) /\ \A i \in 1..Len(work) : a[i] = AsLine(work[i])
  BY <1>3 DEF a
<1>5. /\ s \in Seq(Lines) /\ Len(s) = Len(a) + Len(todo)
      /\ \A i \in 1..Len(a) + Len(todo) :
           s[i] = IF i <= Len(a) THEN a[i] ELSE todo[i - Len(a)]
  BY <1>4, ConcatProperties
<1> HIDE DEF s
<1>6. ASSUME NEW i \in 1..Len(work) PROVE s[i] = AsLine(work[i])
  <2>1. i \in 1..Len(a) + Len(todo) /\ i <= Len(a)
    BY <1>1, <1>4
  <2>2. QED
    BY <1>4, <1>5, <2>1
<1>7. ASSUME NEW i \in 1..Len(todo) PROVE s[Len(work) + i] = todo[i]
  <2>1. /\ Len(a) + i \in 1..Len(a) + Len(todo) /\ ~ Len(a) + i <= Len(a)
        /\ (Len(a) + i) - Len(a) = i
    BY <1>1, <1>4
  <2>2. s[Len(a) + i] = todo[i]
    BY <1>5, <2>1
  <2>3. QED
    BY <1>4, <2>2
<1>8. QED
  BY <1>4, <1>5, <1>6, <1>7 DEF a, s

\* Booking the next line moves it from those to come to those booked.
LEMMA BookingKeepsCall ==
  ASSUME NEW work \in Seq(Movements), NEW todo \in Seq(Lines), todo # <<>>,
         NEW m \in Movements, AsLine(m) = Head(todo)
  PROVE  AsLines(Append(work, m)) \o Tail(todo) = AsLines(work) \o todo
<1> DEFINE w == Append(work, m)
           t == Tail(todo)
           before == AsLines(work) \o todo
           after  == AsLines(w) \o t
           n == Len(work)
           k == Len(todo)
<1>1. /\ n \in Nat /\ k \in Nat \ {0}
      /\ w \in Seq(Movements) /\ Len(w) = n + 1
      /\ (\A i \in 1..n : w[i] = work[i]) /\ w[n + 1] = m
  BY AppendProperties, LenProperties, EmptySeq
<1>2. /\ t \in Seq(Lines) /\ Len(t) = k - 1 /\ Head(todo) = todo[1]
      /\ \A i \in 1..(k - 1) : t[i] = todo[i + 1]
  BY HeadTailProperties
<1>3. /\ before \in Seq(Lines) /\ Len(before) = n + k
      /\ \A i \in 1..n : before[i] = AsLine(work[i])
      /\ \A i \in 1..k : before[n + i] = todo[i]
  BY CalledLines
<1> HIDE DEF w, t
<1>9. /\ after \in Seq(Lines) /\ Len(after) = Len(w) + Len(t)
      /\ \A i \in 1..Len(w) : after[i] = AsLine(w[i])
      /\ \A i \in 1..Len(t) : after[Len(w) + i] = t[i]
  BY <1>1, <1>2, CalledLines
<1> HIDE DEF before, after, n, k
<1>4. /\ after \in Seq(Lines) /\ Len(after) = (n + 1) + (k - 1)
      /\ \A i \in 1..(n + 1) : after[i] = AsLine(w[i])
      /\ \A i \in 1..(k - 1) : after[(n + 1) + i] = t[i]
  BY <1>1, <1>2, <1>9
<1>5. ASSUME NEW i \in 1..(n + k) PROVE after[i] = before[i]
  <2>1. CASE i \in 1..n
    BY <1>1, <1>3, <1>4, <2>1
  <2>2. CASE i = n + 1
    <3>1. after[n + 1] = AsLine(m)
      BY <1>1, <1>4
    <3>2. before[n + 1] = todo[1]
      BY <1>1, <1>3
    <3>3. QED
      BY <1>2, <2>2, <3>1, <3>2
  <2>3. CASE i > n + 1
    <3>1. PICK j \in 1..(k - 1) : i = (n + 1) + j
      <4>1. i - (n + 1) \in 1..(k - 1) /\ i = (n + 1) + (i - (n + 1))
        BY <1>1, <2>3
      <4>2. QED
        BY <4>1
    <3>2. after[i] = todo[j + 1]
      BY <1>2, <1>4, <3>1
    <3>3. i = n + (j + 1) /\ j + 1 \in 1..k
      BY <1>1, <3>1
    <3>4. before[i] = todo[j + 1]
      BY <1>3, <3>3
    <3>5. QED
      BY <3>2, <3>4
  <2>4. QED
    BY <1>1, <2>1, <2>2, <2>3
<1>6. Len(after) = n + k /\ Len(before) = n + k
  BY <1>1, <1>3, <1>4
<1>7. after = before
  BY <1>3, <1>4, <1>5, <1>6, SeqEqual
<1>8. QED
  BY <1>7 DEF after, before, w, t

\* A slot whose request does not move serves the same call, whatever is
\* appended to the ledger and whichever row is deactivated that it does not hold.
LEMMA CallStays ==
  ASSUME LedgerInv, NEW q \in Requests, CallOK(q), at'[q] = at[q], job'[q] = job[q],
         \A p \in Products : locks[p] = q => active'[p] = active[p],
         \A m \in DOMAIN movements : m \in DOMAIN movements' /\ movements'[m] = movements[m]
  PROVE  CallOK(q)'
<1>1. Called(q)' = Called(q)
  BY DEF Called
<1>2. StaysActive(q) => StaysActive(q)'
  <2> SUFFICES ASSUME StaysActive(q), NEW i \in 1..Len(job[q].work)
               PROVE  active'[job[q].work[i].product]
    BY DEF StaysActive
  <2>1. job[q].work[i] \in Movements
    BY ElementOfSeq DEF LedgerInv, TypeOK, Jobs
  <2>2. locks[job[q].work[i].product] = q /\ active[job[q].work[i].product]
    BY DEF LedgerInv, SlotOK, StaysActive
  <2>3. QED
    BY <2>1, <2>2 DEF Movements
<1>3. /\ Uses(q) => Uses(q)'
      /\ Adjusts(q) => Adjusts(q)'
  BY <1>1, <1>2 DEF Uses, Adjusts
<1>4. Reverses(q) => Reverses(q)'
  BY <1>1 DEF Reverses
<1>5. QED
  BY <1>3, <1>4 DEF CallOK

\* With nothing booked yet the lines called for are those to come.
LEMMA CalledAtStart ==
  ASSUME NEW todo \in Seq(Lines)
  PROVE  AsLines(<<>>) \o todo = todo
<1>1. AsLines(<<>>) = <<>>
  BY EmptySeq DEF AsLines
<1>2. QED
  BY <1>1, ConcatEmptySeq

\* A transaction that ends, committed or not, leaves the other calls alone.
LEMMA EndKeepsCalls ==
  ASSUME CallInv, NEW r \in Requests, End(r),
         \A p \in Products : locks[p] \in Requests \ {r} => active'[p] = active[p],
         \A m \in DOMAIN movements : m \in DOMAIN movements' /\ movements'[m] = movements[m],
         NEW q \in Requests
  PROVE  CallOK(q)'
<1> USE DEF CallInv
<1>1. CASE q = r
  <2>1. at'[q] = "idle" /\ job'[q] = NoJob
    BY <1>1 DEF End, Goto, LedgerInv, TypeOK
  <2>2. QED
    BY <2>1 DEF CallOK, NoJob
<1>2. CASE q # r
  <2>1. at'[q] = at[q] /\ job'[q] = job[q]
    BY <1>2 DEF End, Goto, LedgerInv, TypeOK
  <2>2. \A p \in Products : locks[p] = q => active'[p] = active[p]
    BY <1>2
  <2>3. QED
    BY <2>1, <2>2, CallStays
<1>3. QED
  BY <1>1, <1>2

\* A slot that starts a call, and the others.
LEMMA StartKeepsCalls ==
  ASSUME CallInv, NEW r \in Requests, NEW step, NEW j,
         Goto(r, step), job' = [job EXCEPT ![r] = j],
         UNCHANGED <<active, movements>>,
         at'[r] = step /\ job'[r] = j => CallOK(r)',
         NEW q \in Requests
  PROVE  CallOK(q)'
<1> USE DEF CallInv
<1>1. CASE q = r
  <2>1. at'[r] = step /\ job'[r] = j
    BY DEF Goto, LedgerInv, TypeOK
  <2>2. QED
    BY <1>1, <2>1
<1>2. CASE q # r
  <2>1. at'[q] = at[q] /\ job'[q] = job[q]
    BY <1>2 DEF Goto, LedgerInv, TypeOK
  <2>2. QED
    BY <2>1, CallStays
<1>3. QED
  BY <1>1, <1>2

LEMMA AdmitKeepsCalls ==
  ASSUME CallInv, NEW r \in Requests, NEW o \in Orders, NEW lines \in Demands,
         AdmitUsage(r, o, lines), NEW q \in Requests
  PROVE  CallOK(q)'
<1> DEFINE j == [job[r] EXCEPT !.order = o, !.todo = lines]
<1>1. job[r] = NoJob /\ lines \in Seq(Lines)
  BY DemandsAssumption DEF AdmitUsage, CallInv, CallOK
<1>2. j.order = o /\ j.reverses = 0 /\ j.work = <<>> /\ j.todo = lines
  BY <1>1 DEF NoJob
<1>3. job' = [job EXCEPT ![r] = j] /\ Goto(r, "begin") /\ UNCHANGED <<active, movements>>
  BY DEF AdmitUsage
<1> HIDE DEF j
<1>4. ASSUME at'[r] = "begin", job'[r] = j PROVE CallOK(r)'
  <2>1. Called(r)' = lines
    BY <1>1, <1>2, <1>4, CalledAtStart DEF Called
  <2>2. Len(job'[r].work) = 0
    BY <1>2, <1>4, EmptySeq
  <2>3. Uses(r)'
    BY <1>2, <1>4, <2>1, <2>2 DEF Uses, StaysActive
  <2>4. QED
    BY <1>4, <2>2, <2>3 DEF CallOK
<1>5. QED
  BY <1>3, <1>4, StartKeepsCalls

LEMMA FindMovementKeepsCalls ==
  ASSUME CallInv, NEW r \in Requests, NEW m \in DOMAIN movements, FindMovement(r, m),
         NEW q \in Requests
  PROVE  CallOK(q)'
<1> DEFINE t == <<[type |-> "ENTRY", product |-> movements[m].product,
                   quantity |-> movements[m].quantity]>>
           j == [NoJob EXCEPT !.order = movements[m].order, !.reverses = m, !.todo = t]
<1>1. t \in Seq(Lines)
  <2>1. movements[m] \in Movements
    BY ElementOfSeq DEF CallInv, LedgerInv, TypeOK
  <2>2. QED
    BY <2>1 DEF Movements, Lines
<1>2. /\ movements[m].order # NoOrder /\ movements[m].type = "EXIT"
      /\ job' = [job EXCEPT ![r] = j] /\ Goto(r, "credit") /\ UNCHANGED <<active, movements>>
  BY DEF FindMovement
<1>3. j.order = movements[m].order /\ j.reverses = m /\ j.work = <<>> /\ j.todo = t
  <2> HIDE DEF t
  <2> QED BY DEF NoJob
<1> HIDE DEF j
<1>4. ASSUME at'[r] = "credit", job'[r] = j PROVE CallOK(r)'
  <2>1. Called(r)' = t
    <3> HIDE DEF t
    <3> QED BY <1>1, <1>3, <1>4, CalledAtStart DEF Called
  <2>2. Len(job'[r].work) = 0
    BY <1>3, <1>4, EmptySeq
  <2>3. Reverses(r)'
    BY <1>2, <1>3, <1>4, <2>1 DEF Reverses
  <2>4. QED
    BY <1>4, <2>2, <2>3 DEF CallOK
<1> HIDE DEF t
<1>5. QED
  BY <1>2, <1>4, StartKeepsCalls

LEMMA ApplyKeepsCalls ==
  ASSUME CallInv, NEW r \in Requests, NEW line \in Adjustments,
         ApplyStockAdjustment(r, line), NEW q \in Requests
  PROVE  CallOK(q)'
<1> DEFINE t == <<line>>
           j == [job[r] EXCEPT !.todo = t]
<1>1. job[r] = NoJob /\ t \in Seq(Lines)
  BY AdjustmentsAssumption DEF ApplyStockAdjustment, CallInv, CallOK
<1>2. job' = [job EXCEPT ![r] = j] /\ Goto(r, "adjust") /\ UNCHANGED <<active, movements>>
  BY DEF ApplyStockAdjustment
<1> HIDE DEF t
<1>3. j.order = NoOrder /\ j.reverses = 0 /\ j.work = <<>> /\ j.todo = t
  BY <1>1 DEF NoJob
<1> HIDE DEF j
<1>4. ASSUME at'[r] = "adjust", job'[r] = j PROVE CallOK(r)'
  <2>1. Called(r)' = t
    BY <1>1, <1>3, <1>4, CalledAtStart DEF Called
  <2>2. Len(job'[r].work) = 0
    BY <1>3, <1>4, EmptySeq
  <2>3. Adjusts(r)'
    BY <1>3, <1>4, <2>1, <2>2 DEF Adjusts, StaysActive, t
  <2>4. QED
    BY <1>4, <2>2, <2>3 DEF CallOK
<1>5. QED
  BY <1>2, <1>4, StartKeepsCalls

LEMMA FindProductKeepsCalls ==
  ASSUME CallInv, NEW r \in Requests, NEW p \in Products, NEW deactivate \in BOOLEAN,
         FindProduct(r, p, deactivate), NEW q \in Requests
  PROVE  CallOK(q)'
<1> DEFINE j == [job[r] EXCEPT !.product = p, !.writes = active[p] /\ ~ deactivate]
<1>1. job[r] = NoJob
  BY DEF FindProduct, CallInv, CallOK
<1>2. job' = [job EXCEPT ![r] = j] /\ Goto(r, "save") /\ UNCHANGED <<active, movements>>
  BY DEF FindProduct
<1>3. j.product = p /\ j.work = <<>>
  BY <1>1 DEF NoJob
<1> HIDE DEF j
<1>4. ASSUME at'[r] = "save", job'[r] = j PROVE CallOK(r)'
  BY <1>3, <1>4, EmptySeq DEF CallOK
<1>5. QED
  BY <1>2, <1>4, StartKeepsCalls

\* A line booked leaves the call as it was: what it took is active, and it
\* holds the row.
LEMMA BookKeepsCalls ==
  ASSUME CallInv, LedgerInv', NEW r \in Requests, NEW step \in BookingSteps,
         BookLine(r, step), NEW q \in Requests
  PROVE  CallOK(q)'
<1> USE DEF CallInv
<1> DEFINE line == Head(job[r].todo)
           b == Balance(r, line.product)
           m == [type |-> line.type, product |-> line.product,
                 quantity |-> line.quantity, order |-> job[r].order,
                 previous |-> b, new |-> b + Delta(line), reverses |-> job[r].reverses]
           old == job[r].work
           next == IF Len(job[r].todo) = 1 THEN "commit" ELSE step
<1>1. /\ at[r] = step /\ Free(r, line.product) /\ Fitting(r)
      /\ locks' = [locks EXCEPT ![line.product] = r]
      /\ job' = [job EXCEPT ![r].todo = Tail(job[r].todo), ![r].work = Append(old, m)]
      /\ at' = [at EXCEPT ![r] = next]
      /\ UNCHANGED <<status, stock, active, movements>>
  BY DEF BookLine, Goto
<1>2. CASE q # r
  <2>1. at'[q] = at[q] /\ job'[q] = job[q]
    BY <1>1, <1>2 DEF LedgerInv, TypeOK
  <2>2. QED
    BY <1>1, <2>1, CallStays
<1>3. CASE q = r
  <2>1. /\ job[r] \in Jobs /\ job[r].todo \in Seq(Lines) /\ old \in Seq(Movements)
        /\ job[r].todo # <<>>
    BY <1>1 DEF LedgerInv, TypeOK, Jobs, SlotOK
  <2>2. m.type = line.type /\ m.product = line.product /\ m.quantity = line.quantity
        /\ m.order = job[r].order /\ m.reverses = job[r].reverses
    OBVIOUS
  <2>3. AsLine(m) = line
    <3>1. line \in Lines
      BY <2>1, HeadTailProperties
    <3> HIDE DEF m, line
    <3>2. QED
      BY <2>2, <3>1 DEF AsLine, Lines
  <2> HIDE DEF m
  <2>4. /\ job'[r].work = Append(old, m) /\ job'[r].todo = Tail(job[r].todo)
        /\ job'[r].order = job[r].order /\ job'[r].reverses = job[r].reverses
    BY <1>1, <2>1 DEF LedgerInv, TypeOK, Jobs
  <2>5. m \in Movements
    <3>1. job'[r].work \in Seq(Movements) /\ job'[r].work = Append(old, m)
      BY <2>4 DEF LedgerInv, TypeOK, Jobs
    <3>2. Len(old) + 1 \in 1..Len(job'[r].work) /\ job'[r].work[Len(old) + 1] = m
      BY <2>1, <2>4, LenProperties
    <3>3. QED
      BY <3>1, <3>2, ElementOfSeq
  <2>6. Called(r)' = Called(r)
    BY <2>1, <2>3, <2>4, <2>5, BookingKeepsCall DEF Called
  <2>7. /\ Len(Append(old, m)) = Len(old) + 1 /\ Len(old) \in Nat
        /\ \A k \in 1..Len(old) : Append(old, m)[k] = old[k]
        /\ Append(old, m)[Len(old) + 1] = m
    BY <2>1, <2>5, AppendProperties, LenProperties
  <2>8. ASSUME StaysActive(r), step # "credit" PROVE StaysActive(r)'
    <3>1. active[line.product]
      BY <1>1, <2>8 DEF Fitting
    <3>2. ASSUME NEW i \in 1..(Len(old) + 1) PROVE active[Append(old, m)[i].product]
      <4>1. CASE i = Len(old) + 1
        BY <2>2, <2>7, <3>1, <4>1
      <4>2. CASE i \in 1..Len(old)
        BY <2>7, <2>8, <4>2 DEF StaysActive
      <4>3. QED
        BY <2>7, <4>1, <4>2
    <3>3. QED
      BY <1>1, <2>4, <2>7, <3>2 DEF StaysActive
  <2>9. \A i \in 1..Len(job'[r].work) :
          job'[r].work[i].order = job'[r].order /\ job'[r].work[i].reverses = job'[r].reverses
    <3>1. ASSUME NEW i \in 1..(Len(old) + 1)
          PROVE  /\ Append(old, m)[i].order = job[r].order
                 /\ Append(old, m)[i].reverses = job[r].reverses
      <4>1. CASE i = Len(old) + 1
        BY <2>2, <2>7, <4>1
      <4>2. CASE i \in 1..Len(old)
        BY <2>7, <4>2 DEF CallOK
      <4>3. QED
        BY <2>7, <4>1, <4>2
    <3>2. QED
      BY <2>4, <2>7, <3>1
  <2>10. /\ step = "deduct" => Uses(r)'
         /\ step = "adjust" => Adjusts(r)'
         /\ step = "credit" => Reverses(r)'
    <3>1. /\ step = "deduct" => Uses(r)
          /\ step = "adjust" => Adjusts(r)
          /\ step = "credit" => Reverses(r)
      BY <1>1 DEF CallOK
    <3>2. QED
      BY <1>1, <2>4, <2>6, <2>8, <3>1 DEF Uses, Adjusts, Reverses
  <2>11. next = "commit" => Tail(job[r].todo) = <<>>
    <3>1. ASSUME Len(job[r].todo) = 1 PROVE Tail(job[r].todo) = <<>>
      <4>1. Tail(job[r].todo) \in Seq(Lines) /\ Len(Tail(job[r].todo)) = Len(job[r].todo) - 1
        BY <2>1, HeadTailProperties
      <4>2. Len(Tail(job[r].todo)) = 0
        BY <3>1, <4>1
      <4>3. QED
        BY <4>1, <4>2, EmptySeq
    <3>2. QED
      BY <3>1 DEF BookingSteps
  <2>12. at'[r] = next /\ (next = step \/ next = "commit")
    BY <1>1 DEF LedgerInv, TypeOK
  <2>13. QED
    BY <1>3, <2>4, <2>9, <2>10, <2>11, <2>12 DEF CallOK, BookingSteps
<1>4. QED
  BY <1>2, <1>3

\* Every slot serves one call at a time, in the order of the handler's steps.
THEOREM CallInvariant == Spec => []CallInv
<1>1. Init => CallInv
  <2>1. Init => LedgerInv
    BY LedgerInvAtStart
  <2>2. Init => \A r \in Requests : CallOK(r)
    BY EmptySeq DEF Init, CallOK, NoJob
  <2>3. QED
    BY <2>1, <2>2 DEF CallInv
<1>2. CallInv /\ [Next]_vars => CallInv'
  <2> SUFFICES ASSUME CallInv, [Next]_vars PROVE CallInv'
    OBVIOUS
  <2>1. LedgerInv'
    BY LedgerInvKept DEF CallInv
  <2>2. ASSUME NEW q \in Requests PROVE CallOK(q)'
    <3>1. CASE \E r \in Requests, o \in Orders, lines \in Demands : AdmitUsage(r, o, lines)
      BY <3>1, AdmitKeepsCalls
    <3>2. CASE \E r \in Requests : \E m \in DOMAIN movements : FindMovement(r, m)
      BY <3>2, FindMovementKeepsCalls
    <3>3. CASE \E r \in Requests, line \in Adjustments : ApplyStockAdjustment(r, line)
      BY <3>3, ApplyKeepsCalls
    <3>4. CASE \E r \in Requests, p \in Products, deactivate \in BOOLEAN :
                 FindProduct(r, p, deactivate)
      BY <3>4, FindProductKeepsCalls
    <3>5. ASSUME NEW r \in Requests, ConfirmOrder(r) PROVE CallOK(q)'
      <4>1. /\ at[r] = "begin" /\ at' = [at EXCEPT ![r] = "deduct"]
            /\ UNCHANGED <<active, movements, locks, job>>
        BY <3>5 DEF ConfirmOrder, Goto
      <4>2. CASE q # r
        BY <4>1, <4>2, CallStays DEF CallInv, LedgerInv, TypeOK
      <4>3. CASE q = r
        <5>1. Uses(r)'
          BY <4>1 DEF CallInv, CallOK, Uses, Called, StaysActive
        <5>2. at'[r] = "deduct"
          BY <4>1 DEF CallInv, LedgerInv, TypeOK
        <5>3. QED
          BY <4>1, <4>3, <5>1, <5>2 DEF CallInv, CallOK
      <4>4. QED
        BY <4>2, <4>3
    <3>6. CASE \E r \in Requests : Deduct(r) \/ Adjust(r) \/ Credit(r)
      BY <2>1, <3>6, BookKeepsCalls DEF Deduct, Adjust, Credit, BookingSteps
    <3>7. ASSUME NEW r \in Requests, RefuseOrder(r) \/ RefuseLine(r) \/ AbortDeadlocked(r) \/ Drop(r)
          PROVE  CallOK(q)'
      <4>1. End(r) /\ UNCHANGED <<active, movements>>
        BY <3>7 DEF RefuseOrder, RefuseLine, AbortDeadlocked, Drop
      <4>2. QED
        BY <4>1, EndKeepsCalls
    <3>8. ASSUME NEW r \in Requests, SaveProduct(r) PROVE CallOK(q)'
      <4>1. /\ End(r) /\ UNCHANGED movements /\ locks[job[r].product] \in {NoRequest, r}
            /\ active' = [active EXCEPT ![job[r].product] = job[r].writes]
        BY <3>8 DEF SaveProduct, Free
      <4>2. \A p \in Products : locks[p] \in Requests \ {r} => active'[p] = active[p]
        BY <4>1, NothingAssumption DEF CallInv, LedgerInv, TypeOK
      <4>3. QED
        BY <4>1, <4>2, EndKeepsCalls
    <3>9. ASSUME NEW r \in Requests, Commit(r) PROVE CallOK(q)'
      <4>1. End(r) /\ UNCHANGED active /\ movements' = movements \o job[r].work
        BY <3>9 DEF Commit
      <4>2. movements \in Seq(Movements) /\ job[r].work \in Seq(Movements)
        BY DEF CallInv, LedgerInv, TypeOK, Jobs
      <4>3. \A m \in DOMAIN movements : m \in DOMAIN movements' /\ movements'[m] = movements[m]
        BY <4>1, <4>2, ConcatProperties, LenProperties
      <4>4. QED
        BY <4>1, <4>3, EndKeepsCalls
    <3>10. CASE \E o \in Orders : FinalizeOrder(o)
      BY <3>10, CallStays DEF CallInv, FinalizeOrder
    <3>11. CASE UNCHANGED vars
      BY <3>11, CallStays DEF CallInv, vars
    <3>12. QED
      BY <3>1, <3>2, <3>3, <3>4, <3>5, <3>6, <3>7, <3>8, <3>9, <3>10, <3>11 DEF Next, Serve
  <2>3. QED
    BY <2>1, <2>2 DEF CallInv
<1>3. QED
  BY <1>1, <1>2, PTL DEF Spec

-----------------------------------------------------------------------------
\* The sum of the abstract ledger is the community module's.
LEMMA AtomicSum ==
  \A f, S : AtomicLedger!SumFunctionOnSet(f, S) = SumFunctionOnSet(f, S)
  BY DEF AtomicLedger!SumFunctionOnSet, AtomicLedger!FoldFunctionOnSet,
         AtomicLedger!MapThenFoldSet, SumFunctionOnSet, FoldFunctionOnSet, MapThenFoldSet

\* What a sum over the lines gains with the next line.
LEMMA BeforeNextLine ==
  ASSUME NEW lines \in Seq(Lines), NEW n \in 1..Len(lines), NEW p \in Products
  PROVE  /\ AtomicLedger!Before(lines, n, p) \in Int
         /\ AtomicLedger!Before(lines, n + 1, p) =
              IF lines[n].product = p
              THEN AtomicLedger!Before(lines, n, p) + Delta(lines[n])
              ELSE AtomicLedger!Before(lines, n, p)
<1> DEFINE d == [i \in DOMAIN lines |-> AtomicLedger!Delta(lines[i])]
           S(k) == {i \in 1..(k - 1) : lines[i].product = p}
<1>1. /\ AtomicLedger!Before(lines, n, p) = SumFunctionOnSet(d, S(n))
      /\ AtomicLedger!Before(lines, n + 1, p) = SumFunctionOnSet(d, S(n + 1))
  BY AtomicSum DEF AtomicLedger!Before
<1>2. \A i \in 1..Len(lines) : d[i] = Delta(lines[i]) /\ d[i] \in Int
  <2> TAKE i \in 1..Len(lines)
  <2>1. lines[i] \in Lines /\ DOMAIN lines = 1..Len(lines)
    BY ElementOfSeq, LenProperties
  <2>2. QED
    BY <2>1 DEF AtomicLedger!Delta, Delta, Lines
<1>3. n \in Nat /\ Len(lines) \in Nat /\ n <= Len(lines)
  BY LenProperties
<1>4. /\ S(n) \subseteq 1..Len(lines) /\ n \notin S(n)
      /\ S(n + 1) = IF lines[n].product = p THEN S(n) \cup {n} ELSE S(n)
  BY <1>3
<1>5. IsFiniteSet(S(n))
  <2>1. IsFiniteSet(1..Len(lines))
    BY <1>3, FS_Interval
  <2>2. S(n) \in SUBSET (1..Len(lines))
    BY <1>4
  <2> HIDE DEF S
  <2>3. QED
    BY <2>1, <2>2, FS_Subset
<1> HIDE DEF S, d
<1>6. SumFunctionOnSet(d, S(n)) \in Int
  BY <1>2, <1>4, <1>5, SumType
<1>7. CASE lines[n].product = p
  <2>1. SumFunctionOnSet(d, S(n) \cup {n}) = SumFunctionOnSet(d, S(n)) + d[n]
    BY <1>2, <1>4, <1>5, SumAdd
  <2>2. S(n + 1) = S(n) \cup {n}
    BY <1>4, <1>7
  <2>3. AtomicLedger!Before(lines, n + 1, p) = SumFunctionOnSet(d, S(n)) + d[n]
    BY <1>1, <2>1, <2>2, Zenon
  <2>4. QED
    BY <1>1, <1>2, <1>6, <1>7, <2>3
<1>8. CASE lines[n].product # p
  <2>1. S(n + 1) = S(n)
    BY <1>4, <1>8
  <2>2. AtomicLedger!Before(lines, n + 1, p) = AtomicLedger!Before(lines, n, p)
    BY <1>1, <2>1, Zenon
  <2>3. QED
    BY <1>1, <1>6, <1>8, <2>2
<1>9. QED
  BY <1>7, <1>8

LEMMA BeforeFirstLine ==
  ASSUME NEW lines \in Seq(Lines), NEW p \in Products
  PROVE  AtomicLedger!Before(lines, 1, p) = 0
<1>1. {i \in 1..(1 - 1) : lines[i].product = p} = {}
  OBVIOUS
<1>2. AtomicLedger!Before(lines, 1, p)
        = SumFunctionOnSet([i \in DOMAIN lines |-> AtomicLedger!Delta(lines[i])], {})
  BY <1>1, AtomicSum, Zenon DEF AtomicLedger!Before
<1>3. QED
  BY <1>2, SumEmpty

\* What a request sees of a row is the committed balance and what its own
\* lines have changed since.
LEMMA UncommittedIsSum ==
  ASSUME LedgerInv, NEW r \in Requests, NEW lines \in Seq(Lines),
         Len(lines) = Len(job[r].work),
         \A i \in 1..Len(lines) : lines[i] = AsLine(job[r].work[i]),
         NEW p \in Products, NEW n \in 0..Len(lines)
  PROVE  Uncommitted(r, p, n) = stock[p] + AtomicLedger!Before(lines, n + 1, p)
<1> DEFINE work == job[r].work
           Bad == {k \in 0..Len(lines) :
                     Uncommitted(r, p, k) # stock[p] + AtomicLedger!Before(lines, k + 1, p)}
<1>1. SUFFICES ASSUME Bad # {} PROVE FALSE
  OBVIOUS
<1>2. work \in Seq(Movements) /\ Len(lines) \in Nat /\ stock[p] \in 0..MaxStock /\ MaxStock \in Nat
  BY LenProperties, StockAssumption DEF LedgerInv, TypeOK, Jobs
<1>3. PICK k \in Bad : \A j \in Bad : j >= k
  <2>1. Bad \in SUBSET Nat
    BY <1>2
  <2> HIDE DEF Bad
  <2>2. QED
    BY <1>1, <2>1, LeastNumber
<1>4. k # 0
  <2>1. Uncommitted(r, p, 0) = stock[p]
    BY DEF Uncommitted
  <2>2. AtomicLedger!Before(lines, 0 + 1, p) = 0
    BY BeforeFirstLine
  <2>3. QED
    BY <1>2, <2>1, <2>2
<1>5. k \in 1..Len(lines) /\ k - 1 \in 0..Len(lines) /\ (k - 1) + 1 = k
  BY <1>2, <1>4
<1>6. Uncommitted(r, p, k - 1) = stock[p] + AtomicLedger!Before(lines, k, p)
  <2>1. k - 1 \notin Bad
    BY <1>3, <1>5
  <2>2. QED
    BY <1>5, <2>1
<1>7. PICK m \in Movements : m = work[k]
  BY <1>2, <1>5, ElementOfSeq
<1>8. /\ m.previous = Uncommitted(r, m.product, k - 1) /\ m.new = m.previous + Delta(m)
      /\ lines[k].product = m.product /\ Delta(lines[k]) = Delta(m)
  <2>1. lines[k] = AsLine(m)
    BY <1>5, <1>7
  <2>2. QED
    BY <1>5, <1>7, <2>1 DEF LedgerInv, SlotOK, AsLine, Delta
<1>9. Uncommitted(r, p, k) = IF m.product = p THEN m.new ELSE Uncommitted(r, p, k - 1)
  <2> DEFINE now == {i \in 1..k : work[i].product = p}
             earlier == {i \in 1..(k - 1) : work[i].product = p}
  <2>1. /\ Uncommitted(r, p, k) = IF now = {} THEN stock[p] ELSE work[Max(now)].new
        /\ Uncommitted(r, p, k - 1) = IF earlier = {} THEN stock[p] ELSE work[Max(earlier)].new
    BY DEF Uncommitted
  <2>2. CASE m.product = p
    <3>1. k \in now /\ now \in SUBSET Int /\ \A y \in now : k >= y
      BY <1>5, <1>7, <2>2
    <3> HIDE DEF now
    <3>2. Max(now) = k
      BY <3>1, GreatestIsMax
    <3>3. QED
      BY <1>7, <2>1, <2>2, <3>1, <3>2
  <2>3. CASE m.product # p
    <3>1. now = earlier
      BY <1>5, <1>7, <2>3
    <3> HIDE DEF now, earlier
    <3>2. QED
      BY <2>1, <2>3, <3>1, Zenon
  <2>4. QED
    BY <2>2, <2>3
<1>10. /\ AtomicLedger!Before(lines, k, p) \in Int
       /\ AtomicLedger!Before(lines, k + 1, p) =
              IF m.product = p
              THEN AtomicLedger!Before(lines, k, p) + Delta(m)
              ELSE AtomicLedger!Before(lines, k, p)
  BY <1>5, <1>8, BeforeNextLine
<1>11. Delta(m) \in Int
  BY DEF Delta, Movements
<1>12. Uncommitted(r, p, k) = stock[p] + AtomicLedger!Before(lines, k + 1, p)
  BY <1>2, <1>6, <1>8, <1>9, <1>10, <1>11
<1>13. QED
  BY <1>12

\* A commit finds every line called for among those booked.
LEMMA CalledAtCommit ==
  ASSUME CallInv, NEW r \in Requests, Commit(r)
  PROVE  /\ Called(r) \in Seq(Lines) /\ Len(Called(r)) = Len(job[r].work)
         /\ \A i \in 1..Len(job[r].work) : Called(r)[i] = AsLine(job[r].work[i])
<1> DEFINE w == job[r].work
<1>1. job[r].todo = <<>>
  BY DEF Commit, CallInv, CallOK
<1>2. w \in Seq(Movements) /\ Len(w) \in Nat
  BY LenProperties DEF CallInv, LedgerInv, TypeOK, Jobs
<1>3. PICK t \in Seq(Lines) : t = <<>> /\ Len(t) = 0
  BY EmptySeq
<1>4. Called(r) = AsLines(w) \o t
  BY <1>1, <1>3 DEF Called
<1> HIDE DEF w
<1>5. /\ AsLines(w) \o t \in Seq(Lines) /\ Len(AsLines(w) \o t) = Len(w) + Len(t)
      /\ \A i \in 1..Len(w) : (AsLines(w) \o t)[i] = AsLine(w[i])
  BY <1>2, CalledLines
<1>6. Len(w) + Len(t) = Len(w)
  BY <1>2, <1>3
<1>7. QED
  BY <1>4, <1>5, <1>6, Zenon DEF w

\* What a commit adds to the ledger is what booking its lines at once adds.
LEMMA CommitBooks ==
  ASSUME CallInv, NEW r \in Requests, Commit(r)
  PROVE  AtomicLedger!Book(Called(r), job[r].order, job[r].reverses)
<1> DEFINE w == job[r].work
           lines == Called(r)
           o == job[r].order
           v == job[r].reverses
<1>1. /\ w \in Seq(Movements) /\ Len(w) \in Nat /\ stock \in [Products -> 0..MaxStock]
      /\ MaxStock \in Nat
  BY LenProperties, StockAssumption DEF CallInv, LedgerInv, TypeOK, Jobs
<1>2. /\ at[r] = "commit" /\ job[r].todo = <<>> /\ UNCHANGED active
      /\ stock' = [p \in Products |-> Balance(r, p)] /\ movements' = movements \o w
      /\ \A i \in 1..Len(w) : w[i].order = o /\ w[i].reverses = v
  BY DEF Commit, CallInv, CallOK
<1>3. /\ lines \in Seq(Lines) /\ Len(lines) = Len(w)
      /\ \A i \in 1..Len(w) : lines[i] = AsLine(w[i])
  BY CalledAtCommit
<1> HIDE DEF lines
<1>4. \A p \in Products, n \in 0..Len(w) :
        Uncommitted(r, p, n) = stock[p] + AtomicLedger!Before(lines, n + 1, p)
  BY <1>3, UncommittedIsSum DEF CallInv
<1>5. ASSUME NEW n \in 1..Len(lines)
      PROVE  AtomicLedger!Booked(lines, o, v)[n] = w[n]
  <2>1. PICK m \in Movements : m = w[n]
    BY <1>1, <1>3, ElementOfSeq
  <2>2. /\ m.previous = Uncommitted(r, m.product, n - 1) /\ m.new = m.previous + Delta(m)
        /\ m.order = o /\ m.reverses = v
    BY <1>2, <1>3, <2>1 DEF CallInv, LedgerInv, SlotOK
  <2>3. /\ lines[n].type = m.type /\ lines[n].product = m.product
        /\ lines[n].quantity = m.quantity /\ m.product \in Products
    <3>1. lines[n] = AsLine(m)
      BY <1>3, <2>1
    <3>2. QED
      BY <3>1 DEF AsLine, Movements
  <2>4. AtomicLedger!Delta(lines[n]) = Delta(m)
    BY <2>3 DEF AtomicLedger!Delta, Delta
  <2>5. m.previous = stock[m.product] + AtomicLedger!Before(lines, n, m.product)
    <3>1. n - 1 \in 0..Len(w) /\ (n - 1) + 1 = n
      BY <1>1, <1>3
    <3>2. QED
      BY <1>4, <2>2, <2>3, <3>1
  <2> DEFINE l == lines[n]
             b == stock[l.product] + AtomicLedger!Before(lines, n, l.product)
  <2>6. AtomicLedger!Booked(lines, o, v)[n] =
          [type |-> l.type, product |-> l.product, quantity |-> l.quantity,
           order |-> o, previous |-> b, new |-> b + AtomicLedger!Delta(l), reverses |-> v]
    BY DEF AtomicLedger!Booked
  <2>7. b = m.previous
    BY <2>3, <2>5
  <2> HIDE DEF b
  <2>8. AtomicLedger!Booked(lines, o, v)[n] =
          [type |-> m.type, product |-> m.product, quantity |-> m.quantity,
           order |-> m.order, previous |-> m.previous, new |-> m.new, reverses |-> m.reverses]
    BY <2>2, <2>3, <2>4, <2>6, <2>7
  <2>9. m = [type |-> m.type, product |-> m.product, quantity |-> m.quantity,
             order |-> m.order, previous |-> m.previous, new |-> m.new, reverses |-> m.reverses]
    BY DEF Movements
  <2>10. QED
    BY <2>1, <2>8, <2>9
<1>6. AtomicLedger!Booked(lines, o, v) = w
  <2> DEFINE k == AtomicLedger!Booked(lines, o, v)
  <2>1. k = [n \in 1..Len(lines) |-> k[n]]
    BY DEF AtomicLedger!Booked
  <2>2. w = [n \in 1..Len(lines) |-> w[n]]
    BY <1>1, <1>3
  <2> HIDE DEF k
  <2>3. k = w
    BY <1>5, <2>1, <2>2 DEF k
  <2>4. QED
    BY <2>3 DEF k
<1>7. \A n \in DOMAIN w : w[n].new \in 0..MaxStock
  <2>1. ASSUME NEW n \in DOMAIN w PROVE w[n] \in Movements
    BY <1>1, ElementOfSeq, LenProperties
  <2>2. QED
    BY <2>1 DEF Movements
<1>8. stock' = [p \in Products |->
                  stock[p] + AtomicLedger!Before(lines, Len(lines) + 1, p)]
  <2>1. ASSUME NEW p \in Products
        PROVE  Balance(r, p) = stock[p] + AtomicLedger!Before(lines, Len(lines) + 1, p)
    <3>1. Balance(r, p) = Uncommitted(r, p, Len(w))
      BY BalanceIsUncommitted DEF CallInv, LedgerInv
    <3>2. QED
      BY <1>1, <1>3, <1>4, <3>1
  <2>2. QED
    BY <1>2, <2>1
<1>9. QED
  BY <1>2, <1>6, <1>7, <1>8 DEF AtomicLedger!Book, lines

\* A commit is one of the calls of the abstract ledger.
LEMMA CommitIsACall ==
  ASSUME CallInv, NEW r \in Requests, Commit(r)
  PROVE  AtomicLedger!Next
<1>1. AtomicLedger!Book(Called(r), job[r].order, job[r].reverses)
  BY CommitBooks
<1>2. at[r] = "commit" /\ job[r].todo = <<>> /\ (Uses(r) \/ Adjusts(r) \/ Reverses(r))
  BY DEF Commit, CallInv, CallOK
<1>3. ASSUME StaysActive(r), NEW n \in DOMAIN Called(r) PROVE active[Called(r)[n].product]
  <2>1. /\ Called(r) \in Seq(Lines) /\ Len(Called(r)) = Len(job[r].work)
        /\ \A i \in 1..Len(job[r].work) : Called(r)[i] = AsLine(job[r].work[i])
    BY CalledAtCommit
  <2>2. n \in 1..Len(job[r].work)
    BY <2>1, LenProperties
  <2>3. Called(r)[n] = AsLine(job[r].work[n])
    BY <2>1, <2>2
  <2>4. Called(r)[n].product = job[r].work[n].product
    BY <2>3 DEF AsLine
  <2>5. QED
    BY <1>3, <2>2, <2>4 DEF StaysActive
<1>4. CASE Uses(r)
  <2>1. AtomicLedger!RegisterStockUsage(job[r].order, Called(r))
    BY <1>1, <1>3, <1>4 DEF Uses, AtomicLedger!RegisterStockUsage
  <2>2. QED
    BY <1>4, <2>1 DEF Uses, AtomicLedger!Next
<1>5. CASE Adjusts(r)
  <2>1. PICK line \in Adjustments : Called(r) = <<line>>
    BY <1>5 DEF Adjusts
  <2>2. active[line.product]
    BY <1>3, <1>5, <2>1 DEF Adjusts
  <2>3. AtomicLedger!AdjustStock(line)
    BY <1>1, <1>5, <2>1, <2>2 DEF Adjusts, AtomicLedger!AdjustStock
  <2>4. QED
    BY <2>3 DEF AtomicLedger!Next
<1>6. CASE Reverses(r)
  <2>1. AtomicLedger!ReverseStockMovement(job[r].reverses)
    BY <1>1, <1>6 DEF Reverses, AtomicLedger!ReverseStockMovement
  <2>2. QED
    BY <1>6, <2>1 DEF Reverses, AtomicLedger!Next
<1>7. QED
  BY <1>2, <1>4, <1>5, <1>6

\* Statement by statement, under row locks that others wait for, with
\* transactions that fail, deadlock or are cut off at any point: what becomes
\* visible is what calls that happen at once would leave, all lines of a usage
\* or none.
THEOREM LedgerImplementsAtomicStock == Spec => ImplementsAtomicStock
<1>1. Init => AtomicLedger!Init
  BY DEF Init, AtomicLedger!Init
<1>2. CallInv /\ [Next]_vars => [AtomicLedger!Next]_(AtomicLedger!vars)
  <2> SUFFICES ASSUME CallInv, [Next]_vars
               PROVE  AtomicLedger!Next \/ UNCHANGED AtomicLedger!vars
    OBVIOUS
  <2>1. ASSUME NEW r \in Requests, Commit(r) PROVE AtomicLedger!Next
    BY <2>1, CommitIsACall
  <2>2. ASSUME NEW r \in Requests, SaveProduct(r) PROVE AtomicLedger!Next
    <3>1. job[r].product \in Products /\ job[r].writes \in BOOLEAN
      BY <2>2 DEF SaveProduct, CallInv, CallOK, LedgerInv, TypeOK, Jobs
    <3>2. AtomicLedger!SaveProduct(job[r].product, job[r].writes)
      BY <2>2 DEF SaveProduct, AtomicLedger!SaveProduct
    <3>3. QED
      BY <3>1, <3>2 DEF AtomicLedger!Next
  <2>3. CASE /\ Next
             /\ ~ \E r \in Requests : Commit(r) \/ SaveProduct(r)
    <3>1. UNCHANGED <<stock, active, movements>>
      BY <2>3 DEF Next, Serve, AdmitUsage, FindMovement, ApplyStockAdjustment, FindProduct,
                  ConfirmOrder, RefuseOrder, Deduct, Adjust, Credit, BookLine, RefuseLine,
                  AbortDeadlocked, Drop, FinalizeOrder
    <3>2. QED
      BY <3>1 DEF AtomicLedger!vars
  <2>4. CASE UNCHANGED vars
    BY <2>4 DEF vars, AtomicLedger!vars
  <2>5. QED
    BY <2>1, <2>2, <2>3, <2>4
<1>3. QED
  BY <1>1, <1>2, CallInvariant, PTL DEF Spec, ImplementsAtomicStock, AtomicLedger!Spec

-----------------------------------------------------------------------------
(* A finalized order and the usages that have read it before.              *)

\* Only a usage that reads the order as IN_PROGRESS comes to deduct for it.
LEMMA UsersOnlyLeave ==
  ASSUME CallInv, [Next]_vars, NEW o \in Orders, status[o] # "IN_PROGRESS"
  PROVE  Using(o)' \subseteq Using(o)
<1> SUFFICES ASSUME NEW q \in Requests, q \in Using(o)' PROVE q \in Using(o)
  BY DEF Using
<1>1. at'[q] \in {"deduct", "commit"} /\ job'[q].order = o /\ job'[q].reverses = 0
  BY DEF Using
<1>2. CASE at'[q] = at[q] /\ job'[q] = job[q]
  BY <1>1, <1>2 DEF Using
<1>3. ASSUME NEW r \in Requests,
             \/ \E x \in Orders, lines \in Demands : AdmitUsage(r, x, lines)
             \/ \E m \in DOMAIN movements : FindMovement(r, m)
             \/ \E line \in Adjustments : ApplyStockAdjustment(r, line)
             \/ \E p \in Products, deactivate \in BOOLEAN : FindProduct(r, p, deactivate)
      PROVE  q \in Using(o)
  <2>1. PICK step \in {"begin", "credit", "adjust", "save"} :
          at' = [at EXCEPT ![r] = step] /\ \E j : job' = [job EXCEPT ![r] = j]
    BY <1>3 DEF AdmitUsage, FindMovement, ApplyStockAdjustment, FindProduct, Goto
  <2>2. q # r
    BY <1>1, <2>1 DEF CallInv, LedgerInv, TypeOK
  <2>3. QED
    BY <1>2, <2>1, <2>2 DEF CallInv, LedgerInv, TypeOK
<1>4. ASSUME NEW r \in Requests, ConfirmOrder(r) PROVE q \in Using(o)
  <2>1. /\ status[job[r].order] = "IN_PROGRESS" /\ job' = job
        /\ at' = [at EXCEPT ![r] = "deduct"]
    BY <1>4 DEF ConfirmOrder, Goto
  <2>2. q # r
    BY <1>1, <2>1
  <2>3. QED
    BY <1>2, <2>1, <2>2 DEF CallInv, LedgerInv, TypeOK
<1>5. ASSUME NEW r \in Requests, NEW step \in BookingSteps, BookLine(r, step)
      PROVE  q \in Using(o)
  <2>1. /\ at[r] = step /\ job[r] \in Jobs
        /\ \E next : at' = [at EXCEPT ![r] = next]
        /\ \E t, w : job' = [job EXCEPT ![r].todo = t, ![r].work = w]
    BY <1>5 DEF BookLine, Goto, CallInv, LedgerInv, TypeOK
  <2>2. CASE q # r
    BY <1>2, <2>1, <2>2 DEF CallInv, LedgerInv, TypeOK
  <2>3. CASE q = r
    <3>1. job[r].order = o /\ job[r].reverses = 0
      BY <1>1, <2>1, <2>3 DEF CallInv, LedgerInv, TypeOK, Jobs
    <3>2. step # "adjust"
      BY <2>1, <3>1, NothingAssumption DEF CallInv, CallOK, Adjusts
    <3>3. step # "credit"
      <4>1. DOMAIN movements = 1..Len(movements)
        BY LenProperties DEF CallInv, LedgerInv, TypeOK
      <4>2. 0 \notin DOMAIN movements
        BY <4>1
      <4>3. QED
        BY <2>1, <3>1, <4>2 DEF CallInv, CallOK, Reverses
    <3>4. QED
      BY <2>1, <2>3, <3>1, <3>2, <3>3 DEF Using, BookingSteps
  <2>4. QED
    BY <2>2, <2>3
<1>6. ASSUME NEW r \in Requests, End(r) PROVE q \in Using(o)
  <2>1. q # r
    BY <1>1, <1>6 DEF End, Goto, CallInv, LedgerInv, TypeOK
  <2>2. QED
    BY <1>2, <1>6, <2>1 DEF End, Goto, CallInv, LedgerInv, TypeOK
<1>7. CASE (\E x \in Orders : FinalizeOrder(x)) \/ UNCHANGED vars
  BY <1>2, <1>7 DEF FinalizeOrder, vars
<1>8. CASE \E r \in Requests : Deduct(r) \/ Adjust(r) \/ Credit(r)
  BY <1>5, <1>8 DEF Deduct, Adjust, Credit, BookingSteps
<1>9. CASE \E r \in Requests : \/ RefuseOrder(r) \/ RefuseLine(r) \/ Commit(r) \/ SaveProduct(r)
                             \/ AbortDeadlocked(r) \/ Drop(r)
  BY <1>6, <1>9 DEF RefuseOrder, RefuseLine, Commit, SaveProduct, AbortDeadlocked, Drop
<1>10. QED
  BY <1>3, <1>4, <1>7, <1>8, <1>9 DEF Next, Serve

\* What a usage takes, it takes when it commits and is done.
LEMMA TakingEndsAUsage ==
  ASSUME CallInv, [Next]_vars, NEW o \in Orders, PartsOf(o)' # PartsOf(o)
  PROVE  Using(o)' # Using(o)
<1>1. movements' # movements
  BY DEF PartsOf
<1>2. PICK r \in Requests : Commit(r)
  BY <1>1 DEF Next, Serve, AdmitUsage, FindMovement, ApplyStockAdjustment, FindProduct,
              ConfirmOrder, RefuseOrder, Deduct, Adjust, Credit, BookLine, RefuseLine,
              SaveProduct, AbortDeadlocked, Drop, FinalizeOrder, vars
<1>3. /\ at[r] = "commit" /\ at'[r] = "idle" /\ movements' = movements \o job[r].work
      /\ job[r].work \in Seq(Movements) /\ movements \in Seq(Movements)
  BY <1>2 DEF Commit, End, Goto, CallInv, LedgerInv, TypeOK, Jobs
<1> DEFINE w == job[r].work
           n == Len(movements)
<1>4. /\ n \in Nat /\ Len(w) \in Nat
      /\ DOMAIN movements = 1..n /\ DOMAIN movements' = 1..(n + Len(w))
      /\ \A i \in 1..n : movements'[i] = movements[i]
      /\ \A i \in 1..(n + Len(w)) : i > n => movements'[i] = w[i - n] /\ i - n \in 1..Len(w)
  <2>1. /\ movements \o w \in Seq(Movements) /\ Len(movements \o w) = n + Len(w)
        /\ \A i \in 1..(n + Len(w)) :
             (movements \o w)[i] = IF i <= n THEN movements[i] ELSE w[i - n]
    BY <1>3, ConcatProperties
  <2>2. n \in Nat /\ Len(w) \in Nat
    BY <1>3, LenProperties
  <2>3. DOMAIN movements = 1..n /\ DOMAIN (movements \o w) = 1..(n + Len(w))
    BY <1>3, <2>1, LenProperties
  <2> HIDE DEF n, w
  <2>4. QED
    BY <1>3, <2>1, <2>2, <2>3 DEF w
<1>5. PICK i \in 1..Len(w) : w[i].order = o /\ w[i].type = "EXIT"
  <2> HIDE DEF n, w
  <2>1. ASSUME \A i \in 1..Len(w) : ~ (w[i].order = o /\ w[i].type = "EXIT")
        PROVE  PartsOf(o)' = PartsOf(o)
    <3>1. ASSUME NEW k \in 1..n
          PROVE  k \in PartsOf(o)' <=> k \in PartsOf(o)
      <4>1. k \in DOMAIN movements /\ k \in DOMAIN movements' /\ movements'[k] = movements[k]
        BY <1>4
      <4>2. QED
        BY <4>1 DEF PartsOf
    <3>2. ASSUME NEW k \in DOMAIN movements', k \notin 1..n
          PROVE  k \notin PartsOf(o)'
      <4>1. movements'[k] = w[k - n] /\ k - n \in 1..Len(w)
        BY <1>4, <3>2
      <4>2. QED
        BY <2>1, <4>1 DEF PartsOf
    <3>3. PartsOf(o) \subseteq 1..n /\ PartsOf(o)' \subseteq DOMAIN movements'
      BY <1>4 DEF PartsOf
    <3>4. QED
      BY <3>1, <3>2, <3>3
  <2>2. QED
    BY <2>1
<1>6. job[r].order = o /\ (Uses(r) \/ Adjusts(r) \/ Reverses(r))
  BY <1>3, <1>5 DEF CallInv, CallOK
<1>7. ~ Adjusts(r)
  BY <1>6, NothingAssumption DEF Adjusts
<1>8. ~ Reverses(r)
  <2>1. ASSUME Reverses(r) PROVE w[i].type = "ENTRY"
    <3>1. /\ Len(Called(r)) = Len(w)
          /\ Called(r)[i] = AsLine(w[i])
      BY <1>2, <1>5, CalledAtCommit
    <3>2. PICK m : Called(r) = <<[type |-> "ENTRY", product |-> movements[m].product,
                                  quantity |-> movements[m].quantity]>>
      BY <2>1 DEF Reverses
    <3>3. i = 1
      BY <1>5, <3>1, <3>2
    <3>4. Called(r)[i].type = "ENTRY"
      BY <3>2, <3>3
    <3>5. QED
      BY <3>1, <3>4 DEF AsLine
  <2>2. QED
    BY <1>5, <2>1
<1>9. r \in Using(o) /\ r \notin Using(o)'
  BY <1>3, <1>6, <1>7, <1>8 DEF Using, Uses
<1>10. QED
  BY <1>9

\* An order that is finalized under a usage takes that usage's parts at most:
\* nobody who reads it afterwards deducts for it.
THEOREM LateUsagesAlwaysRunOut == Spec => LateUsagesRunOut
<1>1. CallInv /\ [Next]_vars =>
        [\A o \in Orders : status[o] # "IN_PROGRESS" =>
           /\ Using(o)' \subseteq Using(o)
           /\ PartsOf(o)' # PartsOf(o) => Using(o)' # Using(o)]_vars
  BY UsersOnlyLeave, TakingEndsAUsage
<1>2. QED
  BY <1>1, CallInvariant, PTL DEF Spec, LateUsagesRunOut
=============================================================================
