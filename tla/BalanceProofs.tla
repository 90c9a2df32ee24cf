---------------------------- MODULE BalanceProofs ----------------------------
(***************************************************************************)
(* Proofs about the balances of the ledger and what is decided by them:    *)
(* BalanceCache, for any requests, accounts and postings, whose fresh      *)
(* balance is wrong only in the windows that StaleOnlyByOverlap names; and *)
(* CreditLimit, for any parties, orders, purchases, edits, totals and      *)
(* limits; and SupplierPayments, for any purchases, payments and number of *)
(* allocations.  The three share no state.  Balances of the cache are      *)
(* unbounded here: that the bounds of TypeOK hold is a fact about an       *)
(* instance, which its run checks.                                         *)
(***************************************************************************)
EXTENDS BalanceCache, CreditLimit, SupplierPayments, Sums

(* Payments to suppliers *)

Purchase == [cost : Costs, status : Statuses]

\* Functions from some of the first n purchases to S.
SomeOfFirst(n, S) == UNION {[d -> S] : d \in SUBSET (1..n)}

\* What an allocation is doing, with n purchases recorded.
Paying(n) == [todo : Seq([item : 1..n, amount : Nat]), debits : SomeOfFirst(n, Nat),
              marked : BOOLEAN, open : BOOLEAN, seen : Seq(Purchase)]

\* What r has debited to purchase k, the debits r adds to those committed, and
\* what purchases cost in all.
Debited(r, k) == IF k \in DOMAIN r.debits THEN r.debits[k] ELSE 0
WithDebits(amounts, r, n) == [k \in 1..n |-> amounts[k] + Debited(r, k)]
CostsOf(rows) == [k \in DOMAIN rows |-> rows[k].cost]

\* r takes the supplier no further than rows cost.
Keeps(r, rows, amounts) ==
    SumOver(WithDebits(amounts, r, Len(rows)), 1..Len(rows)) <= SumOver(CostsOf(rows), 1..Len(rows))

\* r found unpaid what it pays, each purchase once; what it has not come to is as
\* it was then, and what it has tells of it.
Follows(r, rows) ==
    /\ \A k \in DOMAIN r.debits : r.seen[k].status # "paid" /\ rows[k].status # "pending"
    /\ \A j \in DOMAIN r.todo :
         /\ r.seen[r.todo[j].item].status # "paid" /\ r.todo[j].amount > 0
         /\ j > 1 \/ ~r.marked => rows[r.todo[j].item] = r.seen[r.todo[j].item]
         /\ \A i \in DOMAIN r.todo : i # j => r.todo[i].item # r.todo[j].item
    /\ r.marked => rows[r.todo[1].item].status # "pending"

SupplierTyped ==
    /\ purchases \in Seq(Purchase) /\ paid \in Seq(Nat) /\ Len(paid) = Len(purchases)
    /\ run \in [Payers -> Paying(Len(purchases))] /\ together \in BOOLEAN
    /\ \A t \in Payers : run[t].marked => run[t].todo # <<>>
    /\ \A t \in Payers : ~run[t].open => run[t] = Idle

\* Alone, an allocation keeps to what it read and asserted.
LoneKeeps ==
    together \/ /\ SumOver(paid, 1..Len(paid)) <= SumOver(CostsOf(purchases), 1..Len(paid))
                /\ \A t, u \in Payers : run[t].open /\ run[u].open => t = u
                /\ \A t \in Payers : Keeps(run[t], purchases, paid) /\ Follows(run[t], purchases)

SupplierInv == SupplierTyped /\ LoneKeeps

LEMMA SupplierData ==
    (\A c \in Costs : c \in Nat) /\ Payments \subseteq Nat /\ Recorded \subseteq Statuses
  BY SupplierAssumption DEF SupplierAssumption

\* The ways sums along the purchases are taken.
LEMMA CostIs ==
    ASSUME NEW rows \in Seq(Purchase)
    PROVE  /\ FoldLeft(LAMBDA s, p : s + p.cost, 0, rows)
                = SumOver(CostsOf(rows), 1..Len(rows))
           /\ SumOver(CostsOf(rows), 1..Len(rows)) \in Int
<1> DEFINE f == CostsOf(rows)
           n == Len(rows)
           End(h) == h = [s \in SUBSET DOMAIN rows |->
                            IF s = {} THEN 0 ELSE h[s \ {Max(s)}] + rows[Max(s)].cost]
           end == CHOOSE h : End(h)
<1>1. n \in Nat /\ DOMAIN rows = 1..n /\ \A k \in 1..n : f[k] = rows[k].cost /\ f[k] \in Int
  <2>1. n \in Nat /\ DOMAIN rows = 1..n
    BY LenProperties
  <2>2. ASSUME NEW k \in 1..n PROVE rows[k].cost \in Nat
    <3>1. rows[k] \in Purchase
      BY <2>1, ElementOfSeq
    <3> QED BY <3>1, SupplierData DEF Purchase
  <2> QED BY <2>1, <2>2 DEF CostsOf
<1>2. FoldLeft(LAMBDA s, p : s + p.cost, 0, rows) = end[DOMAIN rows]
  BY DEF FoldLeft, MapThenFoldSet
<1> HIDE DEF f, n
<1>3. n \in Nat /\ IsFiniteSet(1..n) /\ 0 \in Int /\ \A k \in 1..n : f[k] \in Int
  BY <1>1, FS_Interval
<1>4. \A h : End(h) <=> InTurn(h, 0, f, n)
  <2>1. ASSUME NEW h, NEW s \in SUBSET (1..n)
        PROVE  (IF s = {} THEN 0 ELSE h[s \ {Max(s)}] + rows[Max(s)].cost)
                 = (IF s = {} THEN 0 ELSE h[s \ {Max(s)}] + f[Max(s)])
    <3>1. CASE s = {}
      BY <3>1
    <3>2. CASE s # {}
      <4>1. rows[Max(s)].cost = f[Max(s)]
        BY <1>1, <3>2, LastPosition
      <4> QED BY <4>1
    <3> QED BY <3>1, <3>2
  <2> QED BY <1>1, <2>1 DEF InTurn
<1>5. end = (CHOOSE h : InTurn(h, 0, f, n))
  BY <1>4
<1> HIDE DEF end
<1>6. end[1..n] = 0 + SumOver(f, 1..n)
  BY <1>1, <1>3, <1>5, InTurnIs
<1>7. SumOver(f, 1..n) \in Int
  BY <1>3, SumType
<1>8. end[DOMAIN rows] = SumOver(f, 1..n)
  BY <1>1, <1>6, <1>7
<1> QED BY <1>2, <1>7, <1>8 DEF f, n

LEMMA PaidIs ==
    ASSUME NEW amounts \in Seq(Nat)
    PROVE  /\ FoldLeft(LAMBDA s, m : s + m, 0, amounts) = SumOver(amounts, 1..Len(amounts))
           /\ SumOver(amounts, 1..Len(amounts)) \in Int
<1> DEFINE n == Len(amounts)
           End(h) == h = [s \in SUBSET DOMAIN amounts |->
                            IF s = {} THEN 0 ELSE h[s \ {Max(s)}] + amounts[Max(s)]]
           end == CHOOSE h : End(h)
<1>1. n \in Nat /\ DOMAIN amounts = 1..n /\ IsFiniteSet(1..n) /\ 0 \in Int
  BY LenProperties, FS_Interval
<1>2. \A k \in 1..n : amounts[k] \in Int
  BY <1>1, ElementOfSeq
<1>3. FoldLeft(LAMBDA s, m : s + m, 0, amounts) = end[DOMAIN amounts]
  BY DEF FoldLeft, MapThenFoldSet
<1>4. end = (CHOOSE h : InTurn(h, 0, amounts, n))
  BY <1>1 DEF InTurn
<1> HIDE DEF end, n
<1>5. end[1..n] = 0 + SumOver(amounts, 1..n)
  BY <1>1, <1>2, <1>4, InTurnIs
<1>6. SumOver(amounts, 1..n) \in Int
  BY <1>1, <1>2, SumType
<1>7. end[DOMAIN amounts] = SumOver(amounts, 1..n)
  BY <1>1, <1>5, <1>6
<1> QED BY <1>3, <1>6, <1>7 DEF n

\* What t debited, summand by summand.
LEMMA WithDebitsIs ==
    ASSUME NEW amounts \in Seq(Nat), NEW r \in Paying(Len(amounts))
    PROVE  LET n == Len(amounts)
               f == WithDebits(amounts, r, n)
           IN  /\ n \in Nat /\ IsFiniteSet(1..n) /\ SumOver(f, 1..n) \in Int
               /\ \A k \in 1..n : /\ f[k] = amounts[k] + Debited(r, k)
                                 /\ amounts[k] \in Nat /\ Debited(r, k) \in Nat /\ f[k] \in Int
<1> DEFINE n == Len(amounts)
           f == WithDebits(amounts, r, n)
<1>1. n \in Nat /\ IsFiniteSet(1..n)
  BY LenProperties, FS_Interval
<1>2. r.debits \in SomeOfFirst(n, Nat)
  BY DEF Paying
<1>3. \A k \in DOMAIN r.debits : r.debits[k] \in Nat
  BY <1>2 DEF SomeOfFirst
<1>4. \A k \in 1..n : amounts[k] \in Nat
  BY ElementOfSeq
<1>5. \A k \in 1..n : Debited(r, k) \in Nat
  BY <1>3 DEF Debited
<1>6. \A k \in 1..n : f[k] = amounts[k] + Debited(r, k) /\ f[k] \in Int
  BY <1>4, <1>5 DEF WithDebits
<1> HIDE DEF f, n
<1>7. SumOver(f, 1..n) \in Int
  BY <1>1, <1>6, SumType
<1> QED BY <1>1, <1>4, <1>5, <1>6, <1>7 DEF f, n

LEMMA PayableIs ==
    ASSUME SupplierTyped, NEW t \in Payers, NEW amount \in Nat
    PROVE  Payable(t, amount) =
             (amount + SumOver(WithDebits(paid, run[t], Len(purchases)), 1..Len(purchases))
                <= SumOver(CostsOf(purchases), 1..Len(purchases)))
<1> DEFINE n == Len(purchases)
           f == WithDebits(paid, run[t], n)
           line == [k \in DOMAIN purchases |-> k]
           Due(s) == paid[line[Max(s)]] + Debit(t, line[Max(s)])
           End(h) == h = [s \in SUBSET DOMAIN line |->
                            IF s = {} THEN amount ELSE h[s \ {Max(s)}] + Due(s)]
           end == CHOOSE h : End(h)
<1>1. /\ n \in Nat /\ IsFiniteSet(1..n) /\ DOMAIN purchases = 1..n /\ SumOver(f, 1..n) \in Int
      /\ \A k \in 1..n : /\ f[k] = paid[k] + Debit(t, k) /\ paid[k] \in Nat
                        /\ Debit(t, k) \in Nat /\ f[k] \in Int
  <2>1. run[t] \in Paying(n) /\ DOMAIN purchases = 1..n
    BY LenProperties DEF SupplierTyped
  <2>2. \A k : Debit(t, k) = Debited(run[t], k)
    BY DEF Debit, Debited
  <2>3. n = Len(paid) /\ paid \in Seq(Nat)
    BY DEF SupplierTyped
  <2> HIDE DEF n
  <2> QED BY <2>1, <2>2, <2>3, WithDebitsIs
<1>2. FoldLeft(LAMBDA s, k : s + (paid[k] + Debit(t, k)), amount, line) = end[DOMAIN line]
  BY DEF FoldLeft, MapThenFoldSet
<1>3. DOMAIN line = 1..n /\ \A k \in 1..n : line[k] = k
  BY <1>1
<1> HIDE DEF line, f, n
<1>4. \A h : End(h) <=> InTurn(h, amount, f, n)
  <2>1. ASSUME NEW h, NEW s \in SUBSET (1..n)
        PROVE  (IF s = {} THEN amount ELSE h[s \ {Max(s)}] + Due(s))
                 = (IF s = {} THEN amount ELSE h[s \ {Max(s)}] + f[Max(s)])
    <3>1. CASE s = {}
      BY <3>1
    <3>2. CASE s # {}
      <4>1. Max(s) \in 1..n
        BY <1>1, <3>2, LastPosition
      <4>2. f[Max(s)] = paid[line[Max(s)]] + Debit(t, line[Max(s)])
        BY <1>1, <1>3, <4>1
      <4> QED BY <4>2
    <3> QED BY <3>1, <3>2
  <2>2. SUBSET DOMAIN line = SUBSET (1..n)
    BY <1>3
  <2> QED BY <2>1, <2>2 DEF InTurn
<1>5. end = (CHOOSE h : InTurn(h, amount, f, n))
  BY <1>4
<1> HIDE DEF end
<1>6. end[1..n] = amount + SumOver(f, 1..n)
  <2>1. (\A k \in 1..n : f[k] \in Int) /\ amount \in Int
    BY <1>1
  <2> QED BY <1>1, <1>5, <2>1, InTurnIs
<1>7. FoldLeft(LAMBDA s, p : s + p.cost, 0, purchases) = SumOver(CostsOf(purchases), 1..n)
  BY CostIs DEF SupplierTyped, n
<1> QED BY <1>2, <1>3, <1>6, <1>7 DEF Payable, line, f, n

\* One that has not begun debits nothing.
LEMMA IdleKeeps ==
    ASSUME NEW rows \in Seq(Purchase), NEW amounts \in Seq(Nat), Len(amounts) = Len(rows)
    PROVE  /\ Idle \in Paying(Len(rows)) /\ Follows(Idle, rows) /\ ~Idle.open /\ ~Idle.marked
           /\ Keeps(Idle, rows, amounts) <=>
                SumOver(amounts, 1..Len(amounts)) <= SumOver(CostsOf(rows), 1..Len(rows))
<1> DEFINE n == Len(rows)
           f == WithDebits(amounts, Idle, n)
<1>1. n \in Nat /\ IsFiniteSet(1..n)
  BY LenProperties, FS_Interval
<1>2. Idle \in Paying(n)
  <2>1. <<>> \in Seq([item : 1..n, amount : Nat]) /\ <<>> \in Seq(Purchase)
    OBVIOUS
  <2>2. <<>> \in SomeOfFirst(n, Nat)
    <3>1. {} \in SUBSET (1..n) /\ \A S : <<>> \in [{} -> S]
      OBVIOUS
    <3> QED BY <3>1 DEF SomeOfFirst
  <2> HIDE DEF n
  <2> QED BY <2>1, <2>2 DEF Idle, Paying
<1>3. \A k \in 1..n : amounts[k] \in Int /\ f[k] = amounts[k]
  <2>1. \A k \in 1..n : amounts[k] \in Nat
    BY ElementOfSeq
  <2>2. \A k : Debited(Idle, k) = 0
    BY DEF Debited, Idle
  <2> QED BY <2>1, <2>2 DEF WithDebits
<1> HIDE DEF f
<1>4. SumOver(f, 1..n) = SumOver(amounts, 1..n)
  BY <1>1, <1>3, SumSame
<1>5. Follows(Idle, rows) /\ ~Idle.open /\ ~Idle.marked
  <2>1. DOMAIN Idle.debits = {} /\ DOMAIN Idle.todo = {} /\ ~Idle.marked /\ ~Idle.open
    BY DEF Idle
  <2> QED BY <2>1 DEF Follows
<1> QED BY <1>2, <1>4, <1>5 DEF Keeps, f, n

\* An allocation that ends leaves its purchases as they are.
LEMMA RollBackKeeps ==
    ASSUME SupplierInv, NEW t \in Payers, RollBack(t) PROVE SupplierInv'
<1>1. /\ run' = [run EXCEPT ![t] = Idle] /\ run'[t] = Idle
      /\ \A u \in Payers : u # t => run'[u] = run[u]
      /\ purchases' = purchases /\ paid' = paid /\ together' = together
  BY DEF RollBack, Changes, SupplierInv, SupplierTyped
<1>2. /\ Idle \in Paying(Len(purchases)) /\ Follows(Idle, purchases) /\ ~Idle.open /\ ~Idle.marked
      /\ Keeps(Idle, purchases, paid) <=>
           SumOver(paid, 1..Len(paid)) <= SumOver(CostsOf(purchases), 1..Len(purchases))
  BY IdleKeeps DEF SupplierInv, SupplierTyped
<1>3. SupplierTyped'
  BY <1>1, <1>2 DEF SupplierInv, SupplierTyped
<1>4. LoneKeeps'
  <2>1. CASE together
    BY <1>1, <2>1 DEF LoneKeeps
  <2>2. CASE ~together
    <3>1. /\ Keeps(Idle, purchases, paid)
          /\ \A u \in Payers : Keeps(run[u], purchases, paid) /\ Follows(run[u], purchases)
      BY <1>2, <2>2 DEF SupplierInv, SupplierTyped, LoneKeeps
    <3>2. \A u \in Payers : Keeps(run'[u], purchases', paid') /\ Follows(run'[u], purchases')
      BY <1>1, <1>2, <3>1
    <3> QED BY <1>1, <1>2, <2>2, <3>2 DEF SupplierInv, LoneKeeps
  <2> QED BY <2>1, <2>2
<1> QED BY <1>3, <1>4 DEF SupplierInv

LEMMA RecordKeeps ==
    ASSUME SupplierInv, NEW cost \in Costs, NEW status \in Recorded, RecordPurchase(cost, status)
    PROVE  SupplierInv'
<1> DEFINE n == Len(purchases)
<1>1. PICK row \in Purchase : row = [cost |-> cost, status |-> status]
  BY SupplierData DEF Purchase
<1>2. PICK rows \in Seq(Purchase) : rows = purchases
  BY DEF SupplierInv, SupplierTyped
<1>3. PICK amounts \in Seq(Nat) : amounts = paid
  BY DEF SupplierInv, SupplierTyped
<1>4. n \in Nat /\ IsFiniteSet(1..n) /\ n = Len(rows) /\ n = Len(amounts) /\ DOMAIN rows = 1..n
      /\ IsFiniteSet(1..(n + 1))
  <2>1. n \in Nat /\ n = Len(rows) /\ n = Len(amounts) /\ DOMAIN rows = 1..n
    BY <1>2, <1>3, LenProperties DEF SupplierInv, SupplierTyped
  <2> QED BY <2>1, FS_Interval
<1> HIDE DEF n
<1>5. PICK rows2 :
         /\ rows2 \in Seq(Purchase) /\ rows2 = Append(rows, row)
         /\ Len(rows2) = n + 1 /\ DOMAIN rows2 = 1..(n + 1)
         /\ rows2[n + 1] = row /\ \A k \in 1..n : rows2[k] = rows[k]
  <2>1. PICK rows2 : rows2 = Append(rows, row)
    OBVIOUS
  <2>2. /\ rows2 \in Seq(Purchase) /\ Len(rows2) = Len(rows) + 1
        /\ \A k \in 1..Len(rows) : rows2[k] = rows[k]
        /\ rows2[Len(rows) + 1] = row
    BY <2>1, AppendProperties
  <2>3. DOMAIN rows2 = 1..Len(rows2)
    BY <2>2, LenProperties
  <2> QED BY <1>4, <2>1, <2>2, <2>3
<1>6. PICK amounts2 :
         /\ amounts2 \in Seq(Nat) /\ amounts2 = Append(amounts, 0) /\ Len(amounts2) = n + 1
         /\ amounts2[n + 1] = 0 /\ \A k \in 1..n : amounts2[k] = amounts[k]
  <2>1. PICK amounts2 : amounts2 = Append(amounts, 0)
    OBVIOUS
  <2>2. /\ amounts2 \in Seq(Nat) /\ Len(amounts2) = Len(amounts) + 1
        /\ \A k \in 1..Len(amounts) : amounts2[k] = amounts[k]
        /\ amounts2[Len(amounts) + 1] = 0
    BY <2>1, AppendProperties
  <2> QED BY <1>4, <2>1, <2>2
<1>7. purchases' = rows2 /\ paid' = amounts2 /\ run' = run /\ together' = together
  BY <1>1, <1>2, <1>3, <1>5, <1>6 DEF RecordPurchase
<1>8. ASSUME NEW r \in Paying(n) PROVE r \in Paying(n + 1)
  <2>1. [item : 1..n, amount : Nat] \subseteq [item : 1..(n + 1), amount : Nat]
    BY <1>4
  <2>2. Seq([item : 1..n, amount : Nat]) \subseteq Seq([item : 1..(n + 1), amount : Nat])
    BY <2>1, SeqMonotonic
  <2>3. \A S : SomeOfFirst(n, S) \subseteq SomeOfFirst(n + 1, S)
    <3>1. SUBSET (1..n) \subseteq SUBSET (1..(n + 1))
      BY <1>4
    <3> QED BY <3>1 DEF SomeOfFirst
  <2> QED BY <2>2, <2>3 DEF Paying
<1>9. SupplierTyped'
  <2>1. run \in [Payers -> Paying(n)] /\ \A t \in Payers : run[t] \in Paying(n)
    BY DEF SupplierInv, SupplierTyped, n
  <2>2. run \in [Payers -> Paying(n + 1)]
    BY <1>8, <2>1
  <2> QED BY <1>5, <1>6, <1>7, <2>2 DEF SupplierInv, SupplierTyped
<1>10. /\ SumOver(CostsOf(rows2), 1..(n + 1)) = SumOver(CostsOf(rows), 1..n) + cost
       /\ SumOver(CostsOf(rows), 1..n) \in Int /\ cost \in Nat
  <2>1. \A k \in 1..n : CostsOf(rows)[k] = rows[k].cost /\ CostsOf(rows2)[k] = rows[k].cost
    BY <1>5, <1>4 DEF CostsOf
  <2>2. \A k \in 1..n : rows[k].cost \in Int
    <3> TAKE k \in 1..n
    <3>1. k \in 1..Len(rows)
      BY <1>4
    <3>2. rows[k] \in Purchase
      BY <3>1, ElementOfSeq
    <3>3. rows[k].cost \in Costs
      BY <3>2 DEF Purchase
    <3>4. PICK c \in Costs : c = rows[k].cost
      BY <3>3
    <3>5. c \in Int
      BY SupplierData
    <3> QED BY <3>4, <3>5
  <2>3. CostsOf(rows2)[n + 1] = cost /\ cost \in Nat
    <3>1. n + 1 \in 1..(n + 1)
      BY <1>4
    <3>2. CostsOf(rows2)[n + 1] = rows2[n + 1].cost
      BY <1>5, <3>1 DEF CostsOf
    <3>3. cost \in Nat
      BY SupplierData
    <3> QED BY <1>1, <1>5, <3>2, <3>3
  <2>4. PICK f : f = CostsOf(rows)
    OBVIOUS
  <2>5. PICK g : g = CostsOf(rows2)
    OBVIOUS
  <2>6. SumOver(g, 1..(n + 1)) = SumOver(f, 1..n) + g[n + 1]
    <3>1. g[n + 1] \in Int /\ \A k \in 1..n : f[k] \in Int /\ g[k] = f[k]
      BY <2>1, <2>2, <2>3, <2>4, <2>5
    <3> QED BY <1>4, <3>1, SumGrows
  <2>7. SumOver(f, 1..n) \in Int
    BY <1>4, <2>1, <2>2, <2>4, SumType
  <2> QED BY <2>3, <2>4, <2>5, <2>6, <2>7
<1>11. SumOver(amounts2, 1..(n + 1)) = SumOver(amounts, 1..n) /\ SumOver(amounts, 1..n) \in Int
  <2>1. \A k \in 1..n : amounts[k] \in Int
    <3>1. \A k \in 1..Len(amounts) : amounts[k] \in Nat
      BY ElementOfSeq
    <3> QED BY <1>4, <3>1
  <2>2. SumOver(amounts2, 1..(n + 1)) = SumOver(amounts, 1..n) + amounts2[n + 1]
    <3>1. \A k \in 1..n : amounts[k] \in Int /\ amounts2[k] = amounts[k]
      BY <1>6, <2>1
    <3>2. amounts2[n + 1] \in Int
      BY <1>6
    <3> QED BY <1>4, <3>1, <3>2, SumGrows
  <2>3. SumOver(amounts, 1..n) \in Int
    BY <1>4, <2>1, SumType
  <2> QED BY <1>6, <2>2, <2>3
<1>12. ASSUME NEW r \in Paying(n), Keeps(r, rows, amounts) PROVE Keeps(r, rows2, amounts2)
  <2>1. PICK f : f = WithDebits(amounts, r, n)
    OBVIOUS
  <2>2. PICK g : g = WithDebits(amounts2, r, n + 1)
    OBVIOUS
  <2>3. /\ SumOver(f, 1..n) \in Int
        /\ \A k \in 1..n : f[k] = amounts[k] + Debited(r, k) /\ f[k] \in Int
    BY <1>4, <2>1, WithDebitsIs
  <2>4. r.debits \in SomeOfFirst(n, Nat)
    BY DEF Paying
  <2>5. g[n + 1] = 0 /\ \A k \in 1..n : g[k] = f[k]
    <3>1. Debited(r, n + 1) = 0
      BY <1>4, <2>4 DEF Debited, SomeOfFirst
    <3> QED BY <1>6, <1>4, <2>2, <2>3, <3>1 DEF WithDebits
  <2>6. SumOver(g, 1..(n + 1)) = SumOver(f, 1..n)
    <3>1. SumOver(g, 1..(n + 1)) = SumOver(f, 1..n) + g[n + 1]
      <4>1. g[n + 1] \in Int /\ \A k \in 1..n : f[k] \in Int /\ g[k] = f[k]
        BY <2>3, <2>5
      <4> QED BY <1>4, <4>1, SumGrows
    <3> QED BY <2>3, <2>5, <3>1
  <2>7. SumOver(f, 1..n) <= SumOver(CostsOf(rows), 1..n)
    BY <1>4, <1>12, <2>1 DEF Keeps
  <2>8. SumOver(g, 1..(n + 1)) <= SumOver(CostsOf(rows2), 1..(n + 1))
    BY <1>10, <2>3, <2>6, <2>7
  <2> QED BY <1>5, <2>2, <2>8 DEF Keeps
<1>13. ASSUME NEW r \in Paying(n), r.marked => r.todo # <<>>, Follows(r, rows)
       PROVE  Follows(r, rows2)
  <2>1. \A k \in DOMAIN r.debits : k \in 1..n
    BY DEF Paying, SomeOfFirst
  <2>2. r.todo \in Seq([item : 1..n, amount : Nat])
    BY DEF Paying
  <2>3. ASSUME NEW j \in DOMAIN r.todo PROVE r.todo[j].item \in 1..n
    <3>1. j \in 1..Len(r.todo)
      BY <2>2, <2>3, LenProperties
    <3>2. r.todo[j] \in [item : 1..n, amount : Nat]
      BY <2>2, <3>1, ElementOfSeq
    <3> QED BY <3>2
  <2>4. r.marked => 1 \in DOMAIN r.todo
    <3>1. r.todo # <<>> => 1 \in 1..Len(r.todo)
      BY <2>2, LenProperties, EmptySeq
    <3> QED BY <1>13, <2>2, <3>1, LenProperties
  <2> QED BY <1>5, <1>13, <2>1, <2>3, <2>4 DEF Follows
<1>14. LoneKeeps'
  <2>1. CASE together
    BY <1>7, <2>1 DEF LoneKeeps
  <2>2. CASE ~together
    <3>1. \A t \in Payers : run[t] \in Paying(n)
      BY DEF SupplierInv, SupplierTyped, n
    <3>2. /\ SumOver(amounts, 1..n) <= SumOver(CostsOf(rows), 1..n)
          /\ \A t, u \in Payers : run[t].open /\ run[u].open => t = u
          /\ \A t \in Payers : Keeps(run[t], rows, amounts) /\ Follows(run[t], rows)
          /\ \A t \in Payers : run[t].marked => run[t].todo # <<>>
      BY <1>2, <1>3, <1>4, <2>2 DEF SupplierInv, SupplierTyped, LoneKeeps
    <3>3. SumOver(amounts2, 1..(n + 1)) <= SumOver(CostsOf(rows2), 1..(n + 1))
      BY <1>10, <1>11, <3>2
    <3>4. \A t \in Payers : Keeps(run[t], rows2, amounts2) /\ Follows(run[t], rows2)
      BY <1>12, <1>13, <3>1, <3>2
    <3> QED BY <1>6, <1>7, <3>2, <3>3, <3>4 DEF LoneKeeps
  <2> QED BY <2>1, <2>2
<1> QED BY <1>9, <1>14 DEF SupplierInv

\* A step of one allocation that leaves the books alone, when r is what it does next.
LEMMA StepOfOne ==
    ASSUME SupplierInv, NEW t \in Payers, NEW r \in Paying(Len(purchases)),
           run' = [run EXCEPT ![t] = r], purchases' = purchases, paid' = paid,
           together' \in BOOLEAN, together => together', r.open, r.marked => r.todo # <<>>,
           ~together' => \A u \in Payers : run[u].open => u = t,
           ~together => Keeps(r, purchases, paid) /\ Follows(r, purchases)
    PROVE  SupplierInv'
<1>1. run'[t] = r /\ \A u \in Payers : u # t => run'[u] = run[u]
  BY DEF SupplierInv, SupplierTyped
<1>2. SupplierTyped'
  BY <1>1 DEF SupplierInv, SupplierTyped
<1>3. LoneKeeps'
  <2>1. CASE together'
    BY <2>1 DEF LoneKeeps
  <2>2. CASE ~together'
    <3>1. ~together
      BY <2>2
    <3>2. /\ SumOver(paid, 1..Len(paid)) <= SumOver(CostsOf(purchases), 1..Len(paid))
          /\ \A u \in Payers : Keeps(run[u], purchases, paid) /\ Follows(run[u], purchases)
      BY <3>1 DEF SupplierInv, LoneKeeps
    <3>3. \A u \in Payers : Keeps(run'[u], purchases', paid') /\ Follows(run'[u], purchases')
      BY <1>1, <3>1, <3>2
    <3>4. \A u, v \in Payers : run'[u].open /\ run'[v].open => u = v
      BY <1>1, <2>2
    <3> QED BY <3>2, <3>3, <3>4 DEF LoneKeeps
  <2> QED BY <2>1, <2>2
<1> QED BY <1>2, <1>3 DEF SupplierInv

LEMMA BeginKeeps ==
    ASSUME SupplierInv, NEW t \in Payers, NEW amount \in Payments,
           NEW selected \in SUBSET DOMAIN purchases, Begin(t, amount, selected)
    PROVE  SupplierInv'
<1> DEFINE n == Len(purchases)
           items == [k \in DOMAIN purchases |->
                        [total |-> purchases[k].cost, paid |-> Estimate(purchases[k])]]
           parts == Allocate(items, selected, amount).parts
           r == [Idle EXCEPT !.open = TRUE, !.seen = purchases, !.todo = parts]
<1>1. purchases \in Seq(Purchase) /\ n \in Nat /\ DOMAIN purchases = 1..n
      /\ paid \in Seq(Nat) /\ Len(paid) = n
  BY LenProperties DEF SupplierInv, SupplierTyped
<1>2. ASSUME NEW k \in 1..n
      PROVE  /\ items[k].total \in Int /\ items[k].paid \in Int
             /\ purchases[k].status = "paid" => Owed(items[k]) = 0
  <2>1. purchases[k] \in Purchase
    BY <1>1, ElementOfSeq
  <2>2. PICK cost \in Costs, status \in Statuses : purchases[k] = [cost |-> cost, status |-> status]
    BY <2>1 DEF Purchase
  <2>3. cost \in Nat /\ cost \div 2 \in Int
    BY SupplierData
  <2>4. Estimate(purchases[k]) \in Int /\ (status = "paid" => Estimate(purchases[k]) = cost)
    BY <2>2, <2>3 DEF Estimate, Statuses
  <2>5. items[k] = [total |-> cost, paid |-> Estimate(purchases[k])]
    BY <1>1, <2>2
  <2> QED BY <2>2, <2>3, <2>4, <2>5 DEF Owed
<1>3. DOMAIN items = 1..n /\ amount \in Int
  BY <1>1, SupplierData
<1>4. PartsOf(parts, items, selected, n)
  <2> HIDE DEF items, n
  <2> QED BY <1>1, <1>2, <1>3, AllocateParts
<1>5. parts \in Seq([item : 1..n, amount : Nat])
      /\ \A j \in DOMAIN parts :
           /\ purchases[parts[j].item].status # "paid" /\ parts[j].amount > 0
           /\ \A i \in DOMAIN parts : i # j => parts[i].item # parts[j].item
  <2> HIDE DEF items, parts, n
  <2>1. parts \in Seq([item : 1..n, amount : Int]) /\ Len(parts) \in Nat
        /\ DOMAIN parts = 1..Len(parts)
    BY <1>4, LenProperties DEF PartsOf
  <2>2. ASSUME NEW j \in 1..Len(parts)
        PROVE  parts[j] \in [item : 1..n, amount : Nat]
               /\ purchases[parts[j].item].status # "paid" /\ parts[j].amount > 0
    <3>1. PICK k \in 1..n, a \in Int : parts[j] = [item |-> k, amount |-> a]
      <4>1. parts[j] \in [item : 1..n, amount : Int]
        BY <2>1, ElementOfSeq
      <4> QED BY <4>1
    <3>2. a > 0 /\ a <= Owed(items[k])
      <4>1. \A i \in DOMAIN parts :
                parts[i].amount > 0 /\ parts[i].amount <= Owed(items[parts[i].item])
        BY <1>4 DEF PartsOf
      <4>2. parts[j].amount > 0 /\ parts[j].amount <= Owed(items[parts[j].item])
        BY <2>1, <4>1
      <4>3. parts[j].amount = a /\ parts[j].item = k
        BY <3>1
      <4> QED BY <4>2, <4>3
    <3>3. Owed(items[k]) # 0
      BY <3>2
    <3> QED BY <1>2, <3>1, <3>2, <3>3
  <2>3. parts \in Seq([item : 1..n, amount : Nat])
    <3>1. parts = [j \in 1..Len(parts) |-> parts[j]]
      BY <2>1
    <3>2. [j \in 1..Len(parts) |-> parts[j]] \in [1..Len(parts) -> [item : 1..n, amount : Nat]]
      BY <2>2
    <3>3. PICK S : S = [item : 1..n, amount : Nat]
      OBVIOUS
    <3>4. parts \in [1..Len(parts) -> S]
      BY <3>1, <3>2, <3>3
    <3>5. parts \in Seq(S)
      BY <2>1, <3>4, SeqDef
    <3> QED BY <3>3, <3>5
  <2>4. ASSUME NEW i \in 1..Len(parts), NEW j \in 1..Len(parts), i < j
        PROVE  parts[i].item # parts[j].item
    <3>1. parts[i].item < parts[j].item
      <4>1. i \in 1..(j - 1) /\ j \in DOMAIN parts
        BY <2>1, <2>4
      <4> QED BY <1>4, <4>1 DEF PartsOf
    <3>2. parts[i] \in [item : 1..n, amount : Nat] /\ parts[j] \in [item : 1..n, amount : Nat]
      BY <2>2
    <3>3. PICK x \in 1..n, y \in 1..n : x = parts[i].item /\ y = parts[j].item
      BY <3>2
    <3>4. x < y => x # y
      BY <1>1
    <3> QED BY <3>1, <3>3, <3>4
  <2>5. \A i, j \in 1..Len(parts) : i # j => i < j \/ j < i
    BY <2>1
  <2>6. \A i, j \in 1..Len(parts) : i # j => parts[i].item # parts[j].item
    BY <2>4, <2>5
  <2> QED BY <2>1, <2>2, <2>3, <2>6
<1>6. /\ run' = [run EXCEPT ![t] = r] /\ purchases' = purchases /\ paid' = paid
      /\ together' = (together \/ \E u \in Payers \ {t} : run[u].open)
  BY DEF Begin
<1> HIDE DEF items, parts
<1>7. Idle \in Paying(n)
  BY <1>1, IdleKeeps DEF n
<1>8. /\ r.todo = parts /\ r.open = TRUE /\ r.seen = purchases /\ ~r.marked
      /\ r.debits = Idle.debits /\ DOMAIN r.debits = {} /\ r \in Paying(n)
  <2>1. ~Idle.marked /\ Idle.debits = <<>> /\ DOMAIN <<>> = {}
    BY DEF Idle
  <2>2. PICK s \in Paying(n) : s = Idle
    BY <1>7
  <2>3. r = [s EXCEPT !.open = TRUE, !.seen = purchases, !.todo = parts]
    BY <2>2
  <2> HIDE DEF r
  <2>4. /\ r.todo = parts /\ r.open = TRUE /\ r.seen = purchases /\ r.marked = s.marked
        /\ r.debits = s.debits /\ r \in Paying(n)
    BY <1>1, <1>5, <2>3 DEF Paying
  <2> QED BY <2>1, <2>2, <2>4
<1> HIDE DEF r
<1>9. ~together => Keeps(r, purchases, paid) /\ Follows(r, purchases)
  <2> HAVE ~together
  <2>1. Keeps(Idle, purchases, paid)
    BY <1>1, IdleKeeps DEF SupplierInv, LoneKeeps, n
  <2>2. WithDebits(paid, r, n) = WithDebits(paid, Idle, n)
    BY <1>8 DEF WithDebits, Debited
  <2>3. Follows(r, purchases)
    BY <1>5, <1>8 DEF Follows
  <2> QED BY <2>1, <2>2, <2>3 DEF Keeps, n
<1> QED BY <1>6, <1>8, <1>9, StepOfOne DEF n, SupplierInv, SupplierTyped

\* The part that is being paid, and what is left of the list after it.
LEMMA HeadIs ==
    ASSUME SupplierTyped, NEW t \in Payers, run[t].todo # <<>>
    PROVE  LET todo == run[t].todo
               Part == [item : 1..Len(purchases), amount : Nat]
           IN  /\ Head(todo) = todo[1] /\ 1 \in DOMAIN todo /\ Head(todo) \in Part
               /\ Tail(todo) \in Seq(Part) /\ DOMAIN todo \subseteq Nat \ {0}
               /\ \A j \in DOMAIN Tail(todo) :
                     j + 1 \in DOMAIN todo /\ Tail(todo)[j] = todo[j + 1] /\ j \in Nat \ {0}
               /\ run[t].open
<1> DEFINE todo == run[t].todo
           Part == [item : 1..Len(purchases), amount : Nat]
<1>1. todo \in Seq(Part) /\ todo # <<>> /\ run[t].open
  <2>1. run[t] \in Paying(Len(purchases))
    BY DEF SupplierTyped
  <2>2. todo \in Seq(Part) /\ run[t].open \in BOOLEAN
    BY <2>1 DEF Paying
  <2>3. run[t] # Idle
    BY DEF Idle
  <2> QED BY <2>2, <2>3 DEF SupplierTyped
<1> HIDE DEF Part, todo
<1>2. Head(todo) \in Part /\ Tail(todo) \in Seq(Part) /\ Len(Tail(todo)) = Len(todo) - 1
      /\ \A j \in 1..Len(Tail(todo)) : Tail(todo)[j] = todo[j + 1]
  BY <1>1, HeadTailProperties
<1>3. DOMAIN todo = 1..Len(todo) /\ Len(todo) \in Nat /\ Len(todo) # 0
      /\ DOMAIN Tail(todo) = 1..Len(Tail(todo))
  BY <1>1, <1>2, LenProperties, EmptySeq
<1>4. Head(todo) = todo[1]
  BY <1>1
<1>5. 1 \in DOMAIN todo /\ DOMAIN todo \subseteq Nat \ {0}
  BY <1>3
<1>6. \A j \in DOMAIN Tail(todo) : j + 1 \in DOMAIN todo /\ j \in Nat \ {0}
  BY <1>2, <1>3
<1> QED BY <1>1, <1>2, <1>3, <1>4, <1>5, <1>6 DEF Part, todo

\* A purchase for which something is paid is not pending any more.
LEMMA StatusIs ==
    /\ \A p, amount : StatusFor(p, amount) \in Statuses
    /\ \A p \in Purchase, amount \in Nat : amount > 0 => StatusFor(p, amount) # "pending"
<1>1. \A p, amount : StatusFor(p, amount) \in Statuses
  BY DEF StatusFor, Statuses
<1>2. ASSUME NEW p \in Purchase, NEW amount \in Nat, amount > 0
      PROVE  StatusFor(p, amount) # "pending"
  <2>1. PICK cost \in Costs, status \in Statuses : p = [cost |-> cost, status |-> status]
    BY DEF Purchase
  <2>2. cost \in Nat /\ cost \div 2 \in Nat
    BY SupplierData
  <2>3. Estimate(p) \in Nat
    BY <2>1, <2>2 DEF Estimate
  <2> QED BY <1>2, <2>3 DEF StatusFor
<1> QED BY <1>1, <1>2

\* The status of the next purchase is written.
LEMMA MarkKeeps == ASSUME SupplierInv, NEW t \in Payers, Mark(t) PROVE SupplierInv'
<1> DEFINE n == Len(purchases)
<1>1. PICK r \in Paying(n) : r = run[t]
  BY DEF SupplierInv, SupplierTyped
<1>2. /\ r.todo # <<>> /\ 1 \in DOMAIN r.todo /\ r.open /\ DOMAIN r.todo \subseteq Nat \ {0}
      /\ Head(r.todo) = r.todo[1] /\ r.todo[1] \in [item : 1..n, amount : Nat]
  BY <1>1, HeadIs DEF Mark, SupplierInv
<1>3. PICK k \in 1..n, amount \in Nat : r.todo[1] = [item |-> k, amount |-> amount]
  BY <1>2
<1>4. PICK status \in Statuses : status = StatusFor(r.seen[k], amount)
  BY StatusIs
<1>5. PICK q : q = [r EXCEPT !.marked = TRUE]
  OBVIOUS
<1> HIDE DEF n
<1>6. /\ q \in Paying(n) /\ q.todo = r.todo /\ q.debits = r.debits /\ q.seen = r.seen
      /\ q.marked /\ q.open
  BY <1>1, <1>2, <1>5 DEF Paying
<1>7. /\ n \in Nat /\ IsFiniteSet(1..n) /\ purchases \in Seq(Purchase) /\ paid \in Seq(Nat)
      /\ Len(paid) = n /\ DOMAIN purchases = 1..n
  BY LenProperties, FS_Interval DEF SupplierInv, SupplierTyped, n
<1>8. /\ purchases' = [purchases EXCEPT ![k].status = status]
      /\ run' = [run EXCEPT ![t] = q] /\ paid' = paid /\ together' = together
  <2>1. /\ Head(run[t].todo).item = k /\ Head(run[t].todo).amount = amount
        /\ run[t].seen = r.seen
    BY <1>1, <1>2, <1>3
  <2>2. /\ purchases' = [purchases EXCEPT ![Head(run[t].todo).item].status =
              StatusFor(run[t].seen[Head(run[t].todo).item], Head(run[t].todo).amount)]
        /\ run' = [run EXCEPT ![t] = [run[t] EXCEPT !.marked = TRUE]]
        /\ paid' = paid /\ together' = together
    BY DEF Mark, Changes
  <2> QED BY <1>1, <1>4, <1>5, <2>1, <2>2
<1>9. PICK rows2 : rows2 = purchases'
  OBVIOUS
<1>10. purchases[k] \in Purchase
  BY <1>7, ElementOfSeq
<1>11. /\ rows2 \in Seq(Purchase) /\ Len(rows2) = n /\ rows2[k].status = status
       /\ rows2[k].cost = purchases[k].cost /\ DOMAIN rows2 = 1..n
       /\ \A j \in 1..n : j # k => rows2[j] = purchases[j]
  <2>1. PICK row \in Purchase : /\ row = [purchases[k] EXCEPT !.status = status]
                               /\ row.status = status /\ row.cost = purchases[k].cost
    <3>1. PICK cost \in Costs, before \in Statuses :
            purchases[k] = [cost |-> cost, status |-> before]
      BY <1>10 DEF Purchase
    <3>2. [purchases[k] EXCEPT !.status = status] = [cost |-> cost, status |-> status]
      BY <3>1
    <3> QED BY <3>1, <3>2 DEF Purchase
  <2>2. rows2 = [purchases EXCEPT ![k] = row]
    BY <1>8, <1>9, <2>1
  <2> QED BY <1>7, <2>1, <2>2, ExceptSeq
<1>12. /\ run'[t] = q /\ \A u \in Payers : u # t => run'[u] = run[u]
       /\ run \in [Payers -> Paying(n)]
  BY <1>8 DEF SupplierInv, SupplierTyped, n
<1>13. SupplierTyped'
  <2>1. run' \in [Payers -> Paying(n)]
    BY <1>6, <1>8, <1>12
  <2>2. \A u \in Payers : run'[u].marked => run'[u].todo # <<>>
    BY <1>2, <1>6, <1>12 DEF SupplierInv, SupplierTyped
  <2>3. \A u \in Payers : ~run'[u].open => run'[u] = Idle
    BY <1>6, <1>12 DEF SupplierInv, SupplierTyped
  <2> QED BY <1>7, <1>8, <1>9, <1>11, <2>1, <2>2, <2>3 DEF SupplierInv, SupplierTyped
<1>14. LoneKeeps'
  <2>1. CASE together
    BY <1>8, <2>1 DEF LoneKeeps
  <2>2. CASE ~together
    <3>1. /\ SumOver(paid, 1..n) <= SumOver(CostsOf(purchases), 1..n)
          /\ \A u, v \in Payers : run[u].open /\ run[v].open => u = v
          /\ Keeps(r, purchases, paid) /\ Follows(r, purchases)
      BY <1>1, <1>7, <2>2 DEF SupplierInv, LoneKeeps
    <3>2. CostsOf(rows2) = CostsOf(purchases)
      <4>1. \A j \in 1..n : rows2[j].cost = purchases[j].cost
        BY <1>11
      <4> QED BY <1>7, <1>11, <4>1 DEF CostsOf
    <3>3. Keeps(q, rows2, paid)
      <4>1. WithDebits(paid, q, n) = WithDebits(paid, r, n)
        BY <1>6 DEF WithDebits, Debited
      <4> QED BY <1>11, <3>1, <3>2, <4>1 DEF Keeps, n
    <3>4. r.seen[k] = purchases[k] /\ amount > 0
      <4>1. ~r.marked
        BY <1>1 DEF Mark
      <4>2. r.todo[1].item = k /\ r.todo[1].amount = amount
        BY <1>3
      <4> QED BY <1>2, <3>1, <4>1, <4>2 DEF Follows
    <3>5. status # "pending"
      BY <1>4, <1>10, <3>4, StatusIs
    <3>6. Follows(q, rows2)
      <4>1. ASSUME NEW j \in DOMAIN q.debits
            PROVE  q.seen[j].status # "paid" /\ rows2[j].status # "pending"
        <5>1. j \in 1..n
          BY <1>6 DEF Paying, SomeOfFirst
        <5> QED BY <1>6, <1>11, <3>1, <3>5, <5>1 DEF Follows
      <4>2. ASSUME NEW j \in DOMAIN q.todo, j > 1
            PROVE  rows2[q.todo[j].item] = q.seen[q.todo[j].item]
        <5>1. r.todo[j].item # k
          <6>1. j # 1 /\ r.todo[1].item = k
            BY <1>3, <4>2
          <6> QED BY <1>2, <1>6, <3>1, <6>1 DEF Follows
        <5>2. r.todo[j].item \in 1..n
          <6>1. r.todo \in Seq([item : 1..n, amount : Nat])
            BY DEF Paying
          <6>2. j \in 1..Len(r.todo)
            BY <1>6, <6>1, LenProperties
          <6>3. r.todo[j] \in [item : 1..n, amount : Nat]
            BY <6>1, <6>2, ElementOfSeq
          <6> QED BY <6>3
        <5> QED BY <1>6, <1>11, <3>1, <4>2, <5>1, <5>2 DEF Follows
      <4>3. rows2[q.todo[1].item].status # "pending"
        BY <1>3, <1>6, <1>11, <3>5
      <4> QED BY <1>6, <3>1, <4>1, <4>2, <4>3 DEF Follows
    <3>7. Keeps(Idle, rows2, paid) /\ Follows(Idle, rows2)
      BY <1>7, <1>11, <3>1, <3>2, IdleKeeps
    <3>8. \A u \in Payers : u # t => run'[u] = Idle
      BY <1>1, <1>2, <1>12, <3>1 DEF SupplierInv, SupplierTyped
    <3>9. \A u \in Payers : Keeps(run'[u], rows2, paid) /\ Follows(run'[u], rows2)
      BY <1>12, <3>3, <3>6, <3>7, <3>8
    <3>10. \A u, v \in Payers : run'[u].open /\ run'[v].open => u = v
      <4>1. ~Idle.open
        BY DEF Idle
      <4> QED BY <3>8, <4>1
    <3> QED BY <1>7, <1>8, <1>9, <3>1, <3>2, <3>9, <3>10 DEF LoneKeeps
  <2> QED BY <2>1, <2>2
<1> QED BY <1>13, <1>14 DEF SupplierInv

LEMMA PayKeeps == ASSUME SupplierInv, NEW t \in Payers, Pay(t) PROVE SupplierInv'
<1> DEFINE n == Len(purchases)
<1>1. CASE RollBack(t)
  BY <1>1, RollBackKeeps
<1>2. CASE ~RollBack(t)
  <2>1. PICK r \in Paying(n) : r = run[t]
    BY DEF SupplierInv, SupplierTyped
  <2>2. r.marked /\ r.todo # <<>>
    BY <2>1 DEF Pay, SupplierInv, SupplierTyped
  <2>3. /\ Head(r.todo) \in [item : 1..n, amount : Nat] /\ Head(r.todo) = r.todo[1]
        /\ 1 \in DOMAIN r.todo /\ Tail(r.todo) \in Seq([item : 1..n, amount : Nat])
        /\ \A j \in DOMAIN Tail(r.todo) : /\ j + 1 \in DOMAIN r.todo /\ j \in Nat \ {0}
                                         /\ Tail(r.todo)[j] = r.todo[j + 1]
        /\ r.open
    BY <2>1, <2>2, HeadIs DEF SupplierInv
  <2>4. PICK k \in 1..n, amount \in Nat : Head(r.todo) = [item |-> k, amount |-> amount]
    BY <2>3
  <2>5. /\ n \in Nat /\ IsFiniteSet(1..n) /\ purchases \in Seq(Purchase) /\ paid \in Seq(Nat)
        /\ Len(paid) = n
    BY LenProperties, FS_Interval DEF SupplierInv, SupplierTyped
  <2>6. PICK debits \in SomeOfFirst(n, Nat) :
          /\ debits = [j \in DOMAIN r.debits \cup {k} |-> IF j = k THEN amount ELSE r.debits[j]]
          /\ DOMAIN debits = DOMAIN r.debits \cup {k}
    <3> HIDE DEF n
    <3>1. PICK d \in SUBSET (1..n) : r.debits \in [d -> Nat]
      BY <2>1 DEF Paying, SomeOfFirst
    <3>2. d \cup {k} \in SUBSET (1..n)
      OBVIOUS
    <3>3. [j \in d \cup {k} |-> IF j = k THEN amount ELSE r.debits[j]] \in [d \cup {k} -> Nat]
      BY <3>1
    <3> QED BY <3>1, <3>2, <3>3 DEF SomeOfFirst
  <2>7. PICK q :
          q = [r EXCEPT !.todo = Tail(r.todo), !.marked = FALSE, !.debits = debits]
    OBVIOUS
  <2>8. /\ q \in Paying(n) /\ q.todo = Tail(r.todo) /\ q.debits = debits
        /\ ~q.marked /\ q.open = r.open /\ q.seen = r.seen
    <3> HIDE DEF n
    <3> QED BY <2>1, <2>3, <2>6, <2>7 DEF Paying
  <2>9. /\ run' = [run EXCEPT ![t] = q] /\ purchases' = purchases /\ paid' = paid
        /\ together' = together /\ Payable(t, amount)
    <3>1. PICK part : part = [item |-> k, amount |-> amount]
      OBVIOUS
    <3>2. /\ run' = [run EXCEPT ![t] = [run[t] EXCEPT
                  !.todo = Tail(@), !.marked = FALSE,
                  !.debits = [j \in DOMAIN @ \cup {Head(run[t].todo).item} |->
                                 IF j = Head(run[t].todo).item THEN Head(run[t].todo).amount
                                 ELSE @[j]]]]
          /\ UNCHANGED <<purchases, paid, together>>
          /\ Payable(t, Head(run[t].todo).amount)
      BY <1>2 DEF Pay, Changes
    <3>3. q = [r EXCEPT !.todo = Tail(@), !.marked = FALSE,
                   !.debits = [j \in DOMAIN @ \cup {part.item} |->
                                  IF j = part.item THEN part.amount ELSE @[j]]]
      BY <2>6, <2>7, <3>1
    <3>4. Head(run[t].todo) = part /\ run[t] = r /\ part.amount = amount
      BY <2>1, <2>4, <3>1
    <3> QED BY <3>2, <3>3, <3>4
  <2>10. ~together => Keeps(q, purchases, paid) /\ Follows(q, purchases)
    <3> HAVE ~together
    <3>1. PICK f : f = WithDebits(paid, r, n)
      OBVIOUS
    <3>2. PICK g : g = WithDebits(paid, q, n)
      OBVIOUS
    <3> HIDE DEF n
    <3>3. /\ SumOver(f, 1..n) \in Int /\ SumOver(g, 1..n) \in Int
          /\ \A j \in 1..n : /\ f[j] = paid[j] + Debited(r, j) /\ g[j] = paid[j] + Debited(q, j)
                            /\ paid[j] \in Nat /\ Debited(r, j) \in Nat
                            /\ f[j] \in Int /\ g[j] \in Int
      BY <2>1, <2>5, <2>8, <3>1, <3>2, WithDebitsIs
    <3>4. Debited(q, k) = amount /\ \A j \in 1..n : j # k => Debited(q, j) = Debited(r, j)
      BY <2>6, <2>8 DEF Debited
    <3>5. SumOver(g, 1..n) = SumOver(f, 1..n) + g[k] - f[k]
      <4>1. /\ \A j \in 1..n : f[j] \in Int
            /\ g[k] \in Int /\ \A j \in (1..n) \ {k} : g[j] = f[j]
        BY <3>3, <3>4
      <4>2. (\A j \in 1..n : f[j] \in Int) /\ g[k] \in Int /\ n \in Nat /\ k \in 1..n
        BY <2>5, <4>1
      <4>3. \A j \in (1..n) \ {k} : g[j] = f[j]
        BY <4>1
      <4> QED BY <4>2, <4>3, SumMoves
    <3>6. Keeps(r, purchases, paid) /\ Follows(r, purchases)
      BY <2>1 DEF SupplierInv, LoneKeeps
    <3>7. PICK all : all = SumOver(CostsOf(purchases), 1..n) /\ all \in Int
      BY <2>5, CostIs DEF n
    <3>8. amount + SumOver(f, 1..n) <= all
      BY <2>1, <2>9, <3>1, <3>7, PayableIs DEF SupplierInv, n
    <3>9. SumOver(g, 1..n) <= all
      <4>1. g[k] = paid[k] + amount /\ f[k] = paid[k] + Debited(r, k) /\ paid[k] \in Nat
            /\ Debited(r, k) \in Nat
        BY <3>3, <3>4
      <4>2. PICK x \in Int, y \in Int, c \in Nat, d \in Nat :
              /\ x = SumOver(f, 1..n) /\ y = SumOver(g, 1..n)
              /\ c = paid[k] /\ d = Debited(r, k)
        BY <3>3, <4>1
      <4>3. y = x + (c + amount) - (c + d)
        BY <3>5, <4>1, <4>2
      <4>4. amount + x <= all
        BY <3>8, <4>2
      <4>5. y = x + amount - d /\ all \in Int
        BY <3>7, <4>3
      <4>6. y <= all
        BY <4>4, <4>5
      <4> QED BY <4>2, <4>6
    <3>10. Follows(q, purchases)
      <4>1. r.seen[k].status # "paid" /\ purchases[k].status # "pending"
        <5>1. r.todo[1].item = k
          BY <2>3, <2>4
        <5> QED BY <2>2, <2>3, <3>6, <5>1 DEF Follows
      <4>2. \A j \in DOMAIN q.debits : q.seen[j].status # "paid" /\ purchases[j].status # "pending"
        <5>1. \A j \in DOMAIN q.debits : j = k \/ j \in DOMAIN r.debits
          BY <2>6, <2>8
        <5> QED BY <2>8, <3>6, <4>1, <5>1 DEF Follows
      <4>3. ASSUME NEW j \in DOMAIN q.todo
            PROVE  /\ q.seen[q.todo[j].item].status # "paid" /\ q.todo[j].amount > 0
                   /\ purchases[q.todo[j].item] = q.seen[q.todo[j].item]
                   /\ \A i \in DOMAIN q.todo : i # j => q.todo[i].item # q.todo[j].item
        <5>1. j + 1 \in DOMAIN r.todo /\ j + 1 > 1 /\ q.todo[j] = r.todo[j + 1]
          BY <2>3, <2>8
        <5>2. \A i \in DOMAIN q.todo : i # j =>
                 i + 1 \in DOMAIN r.todo /\ i + 1 # j + 1 /\ q.todo[i] = r.todo[i + 1]
          <6> TAKE i \in DOMAIN q.todo
          <6>1. q.todo = Tail(r.todo)
            BY <2>8
          <6>2. i + 1 \in DOMAIN r.todo /\ i \in Nat /\ j \in Nat /\ Tail(r.todo)[i] = r.todo[i + 1]
            BY <2>3, <4>3, <6>1
          <6>3. i # j => i + 1 # j + 1
            BY <6>2
          <6> QED BY <6>1, <6>2, <6>3
        <5> QED BY <2>8, <3>6, <5>1, <5>2 DEF Follows
      <4> QED BY <2>8, <4>2, <4>3 DEF Follows
    <3> QED BY <3>2, <3>7, <3>9, <3>10 DEF Keeps, n
  <2>11. ~together' => \A u \in Payers : run[u].open => u = t
    BY <2>1, <2>3, <2>9 DEF SupplierInv, LoneKeeps
  <2> QED BY <2>3, <2>8, <2>9, <2>10, <2>11, StepOfOne DEF SupplierInv, SupplierTyped
<1> QED BY <1>1, <1>2

LEMMA CommitPaymentKeeps ==
    ASSUME SupplierInv, NEW t \in Payers, CommitPayment(t) PROVE SupplierInv'
<1> DEFINE n == Len(purchases)
           r == run[t]
<1>1. /\ n \in Nat /\ IsFiniteSet(1..n) /\ purchases \in Seq(Purchase) /\ paid \in Seq(Nat)
      /\ Len(paid) = n /\ DOMAIN purchases = 1..n /\ DOMAIN paid = 1..n /\ r \in Paying(n)
  <2>1. /\ purchases \in Seq(Purchase) /\ paid \in Seq(Nat) /\ Len(paid) = n /\ r \in Paying(n)
    BY DEF SupplierInv, SupplierTyped
  <2>2. n \in Nat /\ DOMAIN purchases = 1..n /\ DOMAIN paid = 1..n
    BY <2>1, LenProperties
  <2> HIDE DEF n
  <2>3. IsFiniteSet(1..n)
    BY <2>2, FS_Interval
  <2> QED BY <2>1, <2>2, <2>3
<1>2. PICK amounts2 : amounts2 = paid'
  OBVIOUS
<1> HIDE DEF n, r
<1>3. /\ amounts2 \in Seq(Nat) /\ Len(amounts2) = n
      /\ \A k \in 1..n : amounts2[k] = paid[k] + Debited(r, k) /\ amounts2[k] \in Int
      /\ amounts2 = WithDebits(paid, r, n)
  <2>1. \A k : Debit(t, k) = Debited(r, k)
    BY DEF Debit, Debited, r
  <2>2. amounts2 = [k \in 1..n |-> paid[k] + Debited(r, k)]
    BY <1>1, <1>2, <2>1 DEF CommitPayment
  <2>3. \A k \in 1..n : paid[k] \in Nat /\ Debited(r, k) \in Nat
    BY <1>1, WithDebitsIs
  <2>4. amounts2 \in [1..n -> Nat] /\ \A k \in 1..n : amounts2[k] = paid[k] + Debited(r, k)
    BY <2>2, <2>3
  <2>5. amounts2 \in Seq(Nat)
    BY <1>1, <2>4, SeqDef
  <2> QED BY <1>1, <2>2, <2>4, <2>5, LenProperties DEF WithDebits
<1>4. /\ run' = [run EXCEPT ![t] = Idle] /\ run'[t] = Idle /\ Idle.open = FALSE
      /\ \A u \in Payers : u # t => run'[u] = run[u]
      /\ together' = together /\ purchases' = purchases /\ r.open /\ ~Idle.marked
  BY DEF CommitPayment, Changes, SupplierInv, SupplierTyped, Idle, r
<1>5. Idle \in Paying(n)
  BY <1>1, IdleKeeps DEF n
<1>6. SupplierTyped'
  <2>1. run \in [Payers -> Paying(n)]
    BY DEF SupplierInv, SupplierTyped, n
  <2>2. run' \in [Payers -> Paying(n)]
    BY <1>4, <1>5, <2>1
  <2> QED BY <1>1, <1>2, <1>3, <1>4, <2>2 DEF SupplierInv, SupplierTyped, n
<1>7. LoneKeeps'
  <2>1. CASE together
    BY <1>4, <2>1 DEF LoneKeeps
  <2>2. CASE ~together
    <3>1. Keeps(r, purchases, paid)
      BY <2>2 DEF SupplierInv, LoneKeeps, r
    <3>2. SumOver(amounts2, 1..n) <= SumOver(CostsOf(purchases), 1..n)
      BY <1>3, <3>1 DEF Keeps, n
    <3>3. Keeps(Idle, purchases, amounts2) /\ Follows(Idle, purchases)
      BY <1>1, <1>3, <3>2, IdleKeeps DEF n
    <3>4. \A u \in Payers : run'[u] = Idle
      BY <1>4, <2>2 DEF SupplierInv, SupplierTyped, LoneKeeps, r
    <3> QED BY <1>2, <1>3, <1>4, <3>2, <3>3, <3>4 DEF LoneKeeps
  <2> QED BY <2>1, <2>2
<1> QED BY <1>6, <1>7 DEF SupplierInv

\* The invariant holds in every reachable state.
THEOREM SupplierInvariant == SupplierSpec => []SupplierInv
<1>1. SupplierInit => SupplierInv
  <2> SUFFICES ASSUME SupplierInit PROVE SupplierInv
    OBVIOUS
  <2> DEFINE none == <<>>
  <2>1. none \in Seq(Purchase) /\ none \in Seq(Nat) /\ Len(none) = 0
    OBVIOUS
  <2>2. purchases = none /\ paid = none
    BY DEF SupplierInit
  <2> HIDE DEF none
  <2>3. PICK rows \in Seq(Purchase) : rows = purchases /\ Len(rows) = 0
    BY <2>1, <2>2
  <2>4. PICK amounts \in Seq(Nat) : amounts = paid /\ Len(amounts) = 0
    BY <2>1, <2>2
  <2>5. Idle \in Paying(0) /\ Follows(Idle, rows) /\ (Keeps(Idle, rows, amounts) <=>
          SumOver(amounts, 1..0) <= SumOver(CostsOf(rows), 1..0))
    BY <2>3, <2>4, IdleKeeps
  <2>6. SumOver(amounts, 1..0) = 0 /\ SumOver(CostsOf(rows), 1..0) = 0
    <3>1. 1..0 = {}
      OBVIOUS
    <3> QED BY <3>1, SumNone
  <2>7. ~Idle.open /\ ~Idle.marked
    BY DEF Idle
  <2>8. Keeps(Idle, rows, amounts)
    BY <2>5, <2>6
  <2>9. run \in [Payers -> Paying(0)] /\ (\A t \in Payers : run[t] = Idle) /\ together = FALSE
    BY <2>5 DEF SupplierInit
  <2>10. SupplierTyped
    BY <2>3, <2>4, <2>7, <2>9 DEF SupplierTyped
  <2>11. LoneKeeps
    BY <2>3, <2>4, <2>5, <2>6, <2>7, <2>8, <2>9 DEF LoneKeeps
  <2> QED BY <2>10, <2>11 DEF SupplierInv
<1>2. SupplierInv /\ [SupplierNext]_supplierVars => SupplierInv'
  <2> SUFFICES ASSUME SupplierInv, [SupplierNext]_supplierVars PROVE SupplierInv'
    OBVIOUS
  <2>1. ASSUME NEW t \in Payers, AbortPayment(t) PROVE SupplierInv'
    BY <2>1, RollBackKeeps DEF AbortPayment
  <2>2. CASE UNCHANGED supplierVars
    BY <2>2 DEF supplierVars, SupplierInv, SupplierTyped, LoneKeeps
  <2> QED
    BY <2>1, <2>2, RecordKeeps, BeginKeeps, MarkKeeps, PayKeeps, CommitPaymentKeeps
    DEF SupplierNext
<1> QED BY <1>1, <1>2, PTL DEF SupplierSpec

\* Unless two allocations overlapped, the supplier is never paid more than all its
\* purchases cost: each posting is asserted against accounts payable
\* (assertAccountsPayableInvariant in allocatePaymentToPurchases).
THEOREM SupplierIsNotOverpaid == SupplierSpec => []SupplierNotOverpaid
<1>1. SupplierInv => SupplierNotOverpaid
  <2> SUFFICES ASSUME SupplierInv, ~together PROVE SupplierNotOverpaid
    BY DEF SupplierNotOverpaid
  <2>1. purchases \in Seq(Purchase) /\ paid \in Seq(Nat) /\ Len(paid) = Len(purchases)
        /\ SumOver(paid, 1..Len(paid)) <= SumOver(CostsOf(purchases), 1..Len(paid))
    BY DEF SupplierInv, SupplierTyped, LoneKeeps
  <2>2. FoldLeft(LAMBDA s, n : s + n, 0, paid) = SumOver(paid, 1..Len(paid))
    BY <2>1, PaidIs
  <2>3. FoldLeft(LAMBDA s, p : s + p.cost, 0, purchases)
          = SumOver(CostsOf(purchases), 1..Len(paid))
    BY <2>1, CostIs
  <2> QED BY <2>1, <2>2, <2>3 DEF SupplierNotOverpaid
<1> QED BY <1>1, SupplierInvariant, PTL

\* Unless two allocations overlapped, a settled purchase stays settled, and money
\* arrives only where the status tells of it, from an allocation that found the
\* purchase unpaid (getUnpaidPurchasesForSupplier; allocatePaymentToPurchases
\* writes the status before it posts, and outside the transaction).
THEOREM SettledStaysSettled == SupplierSpec => SettledIsFinal
<1> DEFINE Arrives(k) == purchases[k].status # "pending" /\
                           \E t \in Payers : run[t].open /\ run[t].seen[k].status # "paid"
           Step == \A k \in DOMAIN purchases : ~together =>
                      /\ purchases[k].status = "paid" => purchases'[k] = purchases[k]
                      /\ paid'[k] # paid[k] =>
                           /\ purchases[k].status # "pending"
                           /\ \E t \in Payers : run[t].open /\ run[t].seen[k].status # "paid"
<1>1. SupplierInv /\ [SupplierNext]_supplierVars => [Step]_supplierVars
  <2> SUFFICES ASSUME SupplierInv, SupplierNext, NEW k \in DOMAIN purchases, ~together
               PROVE  /\ purchases[k].status = "paid" => purchases'[k] = purchases[k]
                      /\ paid'[k] # paid[k] => Arrives(k)
    OBVIOUS
  <2> HIDE DEF Arrives
  <2>1. k \in 1..Len(purchases) /\ purchases \in Seq(Purchase) /\ paid \in Seq(Nat)
        /\ Len(paid) = Len(purchases) /\ k \in DOMAIN paid /\ paid[k] \in Nat
    BY LenProperties, ElementOfSeq DEF SupplierInv, SupplierTyped
  <2>2. ASSUME NEW cost \in Costs, NEW status \in Recorded, RecordPurchase(cost, status)
        PROVE  purchases'[k] = purchases[k] /\ paid'[k] = paid[k]
    <3>1. PICK row \in Purchase : purchases' = Append(purchases, row)
      BY <2>2, SupplierData DEF RecordPurchase, Purchase
    <3>2. paid' = Append(paid, 0)
      BY <2>2 DEF RecordPurchase
    <3>3. purchases'[k] = purchases[k]
      BY <2>1, <3>1, AppendProperties
    <3>4. paid'[k] = paid[k]
      BY <2>1, <3>2, AppendProperties
    <3> QED BY <3>3, <3>4
  <2>3. ASSUME NEW t \in Payers, CommitPayment(t)
        PROVE  purchases'[k] = purchases[k] /\ (paid'[k] # paid[k] => Arrives(k))
    <3>1. purchases' = purchases /\ paid'[k] = paid[k] + Debit(t, k) /\ run[t].open
      BY <2>1, <2>3 DEF CommitPayment
    <3>2. k \notin DOMAIN run[t].debits => Debit(t, k) = 0
      BY DEF Debit
    <3>3. k \in DOMAIN run[t].debits => Arrives(k)
      BY <3>1 DEF SupplierInv, LoneKeeps, Follows, Arrives
    <3> QED BY <2>1, <3>1, <3>2, <3>3
  <2>4. ASSUME NEW t \in Payers, Mark(t)
        PROVE  (purchases[k].status = "paid" => purchases'[k] = purchases[k]) /\ paid'[k] = paid[k]
    <3>1. /\ purchases' = [purchases EXCEPT ![Head(run[t].todo).item].status =
                              StatusFor(run[t].seen[Head(run[t].todo).item], Head(run[t].todo).amount)]
          /\ paid' = paid /\ ~run[t].marked /\ run[t].todo # <<>>
      BY <2>4 DEF Mark
    <3>2. Head(run[t].todo) = run[t].todo[1] /\ 1 \in DOMAIN run[t].todo
      BY <3>1, HeadIs DEF SupplierInv
    <3>3. purchases[Head(run[t].todo).item].status # "paid"
      <4>1. Follows(run[t], purchases)
        BY DEF SupplierInv, LoneKeeps
      <4>2. /\ run[t].seen[run[t].todo[1].item].status # "paid"
            /\ purchases[run[t].todo[1].item] = run[t].seen[run[t].todo[1].item]
        BY <3>1, <3>2, <4>1 DEF Follows
      <4> QED BY <3>2, <4>2
    <3> QED BY <3>1, <3>3
  <2>5. ASSUME NEW t \in Payers,
               \/ \E a \in Payments, s \in SUBSET DOMAIN purchases : Begin(t, a, s)
               \/ Pay(t) \/ AbortPayment(t)
        PROVE  purchases' = purchases /\ paid' = paid
    BY <2>5 DEF Begin, Pay, AbortPayment, RollBack
  <2> QED BY <2>2, <2>3, <2>4, <2>5 DEF SupplierNext
<1> QED BY <1>1, SupplierInvariant, PTL DEF SupplierSpec, SettledIsFinal
-----------------------------------------------------------------------------
(* The cache *)

USE CacheAssumption DEF CacheAssumption, Accounts

Jobs == [at : Instances, want : Accounts, left : SUBSET Leaves, sum : Int]

Typed ==
    /\ books \in [Leaves -> Int]
    /\ wpc \in [Writers -> {"idle", "posted", "invalidated", "committed"}]
    /\ posting \in [Writers -> Postings \cup {NoPosting}]
    /\ \A w \in Writers : wpc[w] # "idle" => posting[w] \in Postings
    /\ cache \in [Instances -> [Accounts -> [bal : Int, age : 0..TTL]]]
    /\ rpc \in [Readers -> {"idle", "reading", "answered"}]
    /\ job \in [Readers -> Jobs \cup {NoJob}]
    /\ \A r \in Readers : rpc[r] = "reading" => job[r].want \in Accounts /\ job[r].at \in Instances
    /\ overlapped \subseteq Readers
    /\ exposed \in [Instances -> SUBSET Accounts]

Open(w, a) == wpc[w] # "idle" /\ Touches(posting[w], a)

\* A fill and an open posting to its account know of each other.
OverlapNoted == \A r \in Readers, w \in Writers :
    rpc[r] = "reading" /\ Open(w, job[r].want) => r \in overlapped

\* A fill no posting overlaps reads its leaf as it still is.
FillReads == \A r \in Readers \ overlapped : rpc[r] = "reading" /\ job[r].want \in Leaves =>
    \/ job[r].left = {job[r].want} /\ job[r].sum = 0
    \/ job[r].left = {} /\ job[r].sum = books[job[r].want]

\* An entry FinancialService's instance stores between an invalidation and its
\* commit is exposed.
InvalidatedBeforeCommit == \A w \in Writers, a \in Leaves :
    wpc[w] = "invalidated" /\ Touches(posting[w], a) /\ Fresh("credit", a)
        => a \in exposed["credit"]

\* StaleOnlyByOverlap, with the balance of a leaf account written out.
LeafAccurate(i, a) == Fresh(i, a) => cache[i][a].bal = books[a]

LeafStaleOnlyByOverlap == \A i \in Instances, a \in Leaves :
    \/ LeafAccurate(i, a)
    \/ a \in exposed[i]
    \/ i = "credit" /\ \E w \in Writers : wpc[w] = "committed" /\ Touches(posting[w], a)

CacheInv == Typed /\ OverlapNoted /\ FillReads /\ InvalidatedBeforeCommit /\ LeafStaleOnlyByOverlap
-----------------------------------------------------------------------------
\* The balance of a leaf account, summed over one account, is what it has.
LEMMA BalanceOfLeaf ==
    ASSUME NEW a \in Leaves, books[a] \in Int PROVE Balance(a) = books[a]
<1> DEFINE pick(s) == CHOOSE l \in s : TRUE
           Sum(h) == [s \in SUBSET {a} |-> IF s = {} THEN 0
                                           ELSE books[pick(s)] + h[s \ {pick(s)}]]
           g == [s \in SUBSET {a} |-> IF s = {} THEN 0 ELSE books[a]]
           total == CHOOSE h : h = Sum(h)
<1>1. Balance(a) = total[{a}]
  BY DEF Balance, MapThenSumSet, MapThenFoldSet, LeavesOf
<1>2. \A s \in SUBSET {a} : s = {} \/ (s = {a} /\ pick(s) = a)
  OBVIOUS
<1> HIDE DEF pick
<1>3. g = Sum(g)
  <2>1. \A s \in SUBSET {a} : g[s] = Sum(g)[s]
    BY <1>2
  <2> QED BY <2>1
<1>4. total = Sum(total)
  BY <1>3
<1> HIDE DEF total
<1>5. total[{}] = 0
  BY <1>4
<1>6. total[{a}] = books[a] + total[{}]
  <2>1. pick({a}) = a /\ {a} \ {a} = {} /\ {a} \in SUBSET {a} /\ {a} # {}
    BY <1>2
  <2>2. total[{a}] = Sum(total)[{a}]
    BY <1>4
  <2>3. Sum(total)[{a}] = books[pick({a})] + total[{a} \ {pick({a})}]
    BY <2>1
  <2> QED BY <2>1, <2>2, <2>3
<1> QED BY <1>1, <1>5, <1>6

\* On leaf accounts the property is about the books themselves.
LEMMA LeafIsAccurate ==
    ASSUME Typed, NEW i \in Instances, NEW a \in Leaves PROVE Accurate(i, a) <=> LeafAccurate(i, a)
  BY BalanceOfLeaf DEF Typed, Accurate, LeafAccurate
-----------------------------------------------------------------------------
\* A posting names leaf accounts, and touches a leaf when it moves it.
LEMMA TouchesLeaf ==
    ASSUME NEW p \in Postings, NEW a \in Leaves
    PROVE  /\ p.dr \in Leaves /\ p.cr \in Leaves
           /\ Touches(p, a) <=> a \in {p.dr, p.cr}
  BY DEF Touches, LeavesOf

\* Every step keeps the types.
LEMMA Typing == ASSUME Typed, [Next]_vars PROVE Typed'
<1> USE DEF Typed, Jobs, Instances
<1>1. ASSUME NEW w \in Writers, NEW p \in Postings, Post(w, p) PROVE Typed'
  BY <1>1 DEF Post, readerVars
<1>2. ASSUME NEW w \in Writers, Invalidate(w) PROVE Typed'
  <2>1. cache' \in [Instances -> [Accounts -> [bal : Int, age : 0..TTL]]]
    <3>1. None \in [bal : Int, age : 0..TTL]
      BY DEF None
    <3> QED BY <1>2, <3>1 DEF Invalidate
  <2>2. CASE wpc[w] = "posted"
    BY <1>2, <2>1, <2>2 DEF Invalidate, readerVars
  <2>3. CASE wpc[w] # "posted"
    BY <1>2, <2>1, <2>3, ZenonT(30) DEF Invalidate, Return, readerVars
  <2> QED BY <2>2, <2>3
<1>3. ASSUME NEW w \in Writers, Commit(w) PROVE Typed'
  <2>1. posting[w].dr \in Leaves /\ posting[w].cr \in Leaves
    BY <1>3 DEF Commit
  <2>2. books' \in [Leaves -> Int]
    BY <1>3, <2>1 DEF Commit, After
  <2>3. exposed' \in [Instances -> SUBSET Accounts]
    BY <1>3, <2>1 DEF Commit
  <2>4. /\ wpc' \in [Writers -> {"idle", "posted", "invalidated", "committed"}]
        /\ posting' \in [Writers -> Postings \cup {NoPosting}]
        /\ \A v \in Writers : wpc'[v] # "idle" => posting'[v] \in Postings
    BY <1>3 DEF Commit, Return
  <2> QED BY <1>3, <2>2, <2>3, <2>4 DEF Commit, readerVars
<1>4. ASSUME NEW w \in Writers, Abort(w) PROVE Typed'
  BY <1>4 DEF Abort, Return, readerVars
<1>5. ASSUME NEW r \in Readers, NEW i \in Instances, NEW a \in Accounts,
             Hit(r, i, a) \/ Miss(r, i, a)
      PROVE  Typed'
  <2>1. CASE Hit(r, i, a)
    BY <2>1 DEF Hit
  <2>2. CASE Miss(r, i, a)
    <3>1. [at |-> i, want |-> a, left |-> LeavesOf(a), sum |-> 0] \in Jobs
      BY DEF LeavesOf
    <3>2. job' \in [Readers -> Jobs \cup {NoJob}]
      BY <2>2, <3>1 DEF Miss
    <3>3. /\ rpc' \in [Readers -> {"idle", "reading", "answered"}]
          /\ \A q \in Readers : rpc'[q] = "reading" => job'[q].want \in Accounts /\ job'[q].at \in Instances
      BY <2>2 DEF Miss
    <3> QED BY <2>2, <3>2, <3>3 DEF Miss
  <2> QED BY <1>5, <2>1, <2>2
<1>6. ASSUME NEW r \in Readers, NEW l \in Leaves, ReadLeaf(r, l) PROVE Typed'
  BY <1>6 DEF ReadLeaf, NoJob
<1>7. ASSUME NEW r \in Readers, Fill(r) PROVE Typed'
  BY <1>7 DEF Fill, NoJob
<1>8. CASE Tick
  BY <1>8, SMTT(20) DEF Tick, readerVars, None
<1>9. CASE UNCHANGED vars
  BY <1>9 DEF vars
<1> HIDE DEF Typed, Jobs, Instances
<1> QED
  BY <1>1, <1>2, <1>3, <1>4, <1>5, <1>6, <1>7, <1>8, <1>9 DEF Next, Write, Query

\* Postings and fills note each other as they begin.
LEMMA OverlapKept == ASSUME Typed, OverlapNoted, [Next]_vars PROVE OverlapNoted'
<1> USE DEF Typed, OverlapNoted, Open
<1>1. ASSUME NEW w \in Writers, NEW p \in Postings, Post(w, p) PROVE OverlapNoted'
  <2> SUFFICES ASSUME NEW r \in Readers, NEW v \in Writers, rpc[r] = "reading",
                      wpc'[v] # "idle", Touches(posting'[v], job[r].want)
               PROVE  r \in overlapped'
    BY <1>1 DEF Post, readerVars, Touches, LeavesOf
  <2>1. CASE v = w
    BY <1>1, <2>1 DEF Post
  <2>2. CASE v # w
    BY <1>1, <2>2 DEF Post
  <2> QED BY <2>1, <2>2
<1>2. ASSUME NEW w \in Writers, Invalidate(w) \/ Commit(w) \/ Abort(w) PROVE OverlapNoted'
  <2>1. /\ rpc' = rpc /\ job' = job /\ overlapped' = overlapped
        /\ \A v \in Writers : wpc'[v] # "idle" => wpc[v] # "idle" /\ posting'[v] = posting[v]
    BY <1>2 DEF Invalidate, Commit, Abort, Return, readerVars
  <2> QED BY <2>1 DEF Touches, LeavesOf
<1>3. ASSUME NEW r \in Readers, NEW i \in Instances, NEW a \in Accounts, Hit(r, i, a)
      PROVE  OverlapNoted'
  BY <1>3 DEF Hit, Touches, LeavesOf
<1>4. ASSUME NEW r \in Readers, NEW i \in Instances, NEW a \in Accounts, Miss(r, i, a)
      PROVE  OverlapNoted'
  <2> SUFFICES ASSUME NEW q \in Readers, NEW w \in Writers, rpc'[q] = "reading",
                      wpc[w] # "idle", Touches(posting[w], job'[q].want)
               PROVE  q \in overlapped'
    BY <1>4 DEF Miss, Touches, LeavesOf
  <2>1. CASE q = r
    BY <1>4, <2>1 DEF Miss
  <2>2. CASE q # r
    BY <1>4, <2>2 DEF Miss
  <2> QED BY <2>1, <2>2
<1>5. ASSUME NEW r \in Readers, NEW l \in Leaves, ReadLeaf(r, l) PROVE OverlapNoted'
  <2>1. \A q \in Readers : rpc'[q] = rpc[q] /\ (rpc[q] = "reading" => job'[q].want = job[q].want)
    BY <1>5 DEF ReadLeaf, NoJob
  <2> QED BY <1>5, <2>1 DEF ReadLeaf, Touches, LeavesOf
<1>6. ASSUME NEW r \in Readers, Fill(r) PROVE OverlapNoted'
  <2>1. \A q \in Readers : rpc'[q] = "reading" => q # r /\ rpc[q] = "reading" /\ job'[q] = job[q]
    BY <1>6 DEF Fill
  <2> QED BY <1>6, <2>1 DEF Fill, Touches, LeavesOf
<1>7. CASE Tick \/ UNCHANGED vars
  BY <1>7 DEF Tick, vars, readerVars, Touches, LeavesOf
<1> QED
  BY <1>1, <1>2, <1>3, <1>4, <1>5, <1>6, <1>7 DEF Next, Write, Query

\* A fill that overlaps no posting sums the balance of its leaf.
LEMMA FillKept == ASSUME Typed, OverlapNoted, FillReads, [Next]_vars PROVE FillReads'
<1> USE DEF Typed, FillReads
<1>1. ASSUME NEW w \in Writers, NEW p \in Postings, Post(w, p) PROVE FillReads'
  BY <1>1 DEF Post, readerVars
<1>2. ASSUME NEW w \in Writers, Commit(w) PROVE FillReads'
  <2> SUFFICES ASSUME NEW r \in Readers, r \notin overlapped, rpc[r] = "reading",
                      job[r].want \in Leaves
               PROVE  books'[job[r].want] = books[job[r].want]
    BY <1>2 DEF Commit, readerVars
  <2>1. wpc[w] # "idle" /\ posting[w] \in Postings
    BY <1>2 DEF Commit
  <2>2. job[r].want \notin {posting[w].dr, posting[w].cr}
    BY <2>1, TouchesLeaf DEF OverlapNoted, Open
  <2> QED BY <1>2, <2>1, <2>2, TouchesLeaf DEF Commit, After
<1>3. ASSUME NEW w \in Writers, Invalidate(w) \/ Abort(w) PROVE FillReads'
  BY <1>3 DEF Invalidate, Abort, readerVars
<1>4. ASSUME NEW r \in Readers, NEW i \in Instances, NEW a \in Accounts, Hit(r, i, a)
      PROVE  FillReads'
  BY <1>4 DEF Hit
<1>5. ASSUME NEW r \in Readers, NEW i \in Instances, NEW a \in Accounts, Miss(r, i, a)
      PROVE  FillReads'
  <2>1. a \in Leaves => LeavesOf(a) = {a}
    BY DEF LeavesOf
  <2>2. overlapped \subseteq overlapped'
    BY <1>5 DEF Miss
  <2>3. job'[r] = [at |-> i, want |-> a, left |-> LeavesOf(a), sum |-> 0]
        /\ \A q \in Readers \ {r} : job'[q] = job[q] /\ rpc'[q] = rpc[q]
    BY <1>5 DEF Miss
  <2> QED BY <1>5, <2>1, <2>2, <2>3 DEF Miss
<1>6. ASSUME NEW r \in Readers, NEW l \in Leaves, ReadLeaf(r, l) PROVE FillReads'
  <2>1. job'[r] = [job[r] EXCEPT !.sum = @ + books[l], !.left = @ \ {l}]
        /\ \A q \in Readers \ {r} : job'[q] = job[q]
    BY <1>6 DEF ReadLeaf
  <2>2. job[r] \in Jobs
    BY <1>6 DEF ReadLeaf, NoJob
  <2>3. /\ job'[r].want = job[r].want /\ job'[r].left = job[r].left \ {l}
        /\ job'[r].sum = job[r].sum + books[l]
    BY <2>1, <2>2 DEF Jobs
  <2>4. r \notin overlapped /\ job[r].want \in Leaves
            => job'[r].left = {} /\ job'[r].sum = books[job[r].want]
    BY <1>6, <2>3 DEF ReadLeaf
  <2> QED BY <1>6, <2>1, <2>3, <2>4 DEF ReadLeaf
<1>7. ASSUME NEW r \in Readers, Fill(r) PROVE FillReads'
  BY <1>7 DEF Fill
<1>8. CASE Tick \/ UNCHANGED vars
  BY <1>8 DEF Tick, vars, readerVars
<1> QED
  BY <1>1, <1>2, <1>3, <1>4, <1>5, <1>6, <1>7, <1>8 DEF Next, Write, Query
-----------------------------------------------------------------------------
\* Steps that leave the books and the entries alone, and the writers' places.
LEMMA CacheSame ==
    ASSUME Typed, InvalidatedBeforeCommit, LeafStaleOnlyByOverlap,
           UNCHANGED <<books, cache, exposed>>,
           \A w \in Writers : wpc[w] = "committed" \/ wpc'[w] = "invalidated"
                                 => wpc'[w] = wpc[w] /\ posting'[w] = posting[w]
    PROVE  (InvalidatedBeforeCommit /\ LeafStaleOnlyByOverlap)'
<1>1. InvalidatedBeforeCommit'
  BY DEF InvalidatedBeforeCommit, Fresh, Touches, LeavesOf
<1>2. LeafStaleOnlyByOverlap'
  <2> SUFFICES ASSUME NEW i \in Instances, NEW a \in Leaves, Fresh(i, a),
                      cache[i][a].bal # books[a], a \notin exposed[i]
               PROVE  i = "credit" /\ \E w \in Writers : wpc'[w] = "committed"
                                                         /\ Touches(posting'[w], a)
    BY DEF LeafStaleOnlyByOverlap, LeafAccurate, Fresh, Touches, LeavesOf
  <2>1. i = "credit" /\ \E w \in Writers : wpc[w] = "committed" /\ Touches(posting[w], a)
    BY DEF LeafStaleOnlyByOverlap, LeafAccurate
  <2> QED BY <2>1
<1> QED BY <1>1, <1>2

\* The heart of it: an entry that a posting makes wrong is dropped, exposed, or
\* about to be dropped.
LEMMA CacheKept ==
    ASSUME CacheInv, Typed', [Next]_vars
    PROVE  (InvalidatedBeforeCommit /\ LeafStaleOnlyByOverlap)'
<1> DEFINE Goal == (InvalidatedBeforeCommit /\ LeafStaleOnlyByOverlap)'
<1> USE DEF Typed
<1>1. "credit" \in Instances /\ \A i \in Instances : i # "credit" => i = "ledger"
  BY DEF Instances
<1>2. ASSUME NEW w \in Writers, NEW p \in Postings, Post(w, p) PROVE Goal
  BY <1>2, CacheSame DEF CacheInv, Post
<1>3. ASSUME NEW w \in Writers, Invalidate(w) PROVE Goal
  <2> DEFINE p == posting[w]
  <2>1. p \in Postings
    BY <1>3 DEF CacheInv, Invalidate
  <2>2. /\ \A a \in Leaves : IF a \in {p.dr, p.cr} THEN ~Fresh("credit", a)'
                             ELSE /\ cache'["credit"][a] = cache["credit"][a]
                                  /\ a \in exposed["credit"] <=> a \in exposed'["credit"]
        /\ \A i \in Instances : i # "credit" => cache'[i] = cache[i] /\ exposed'[i] = exposed[i]
        /\ books' = books
    BY <1>1, <1>3 DEF CacheInv, Invalidate, None, Fresh
  <2>3. /\ \A v \in Writers \ {w} : wpc'[v] = wpc[v] /\ posting'[v] = posting[v]
        /\ wpc'[w] # "committed"
        /\ wpc'[w] = "invalidated" => posting'[w] = p
    BY <1>3 DEF CacheInv, Invalidate, Return
  <2>4. InvalidatedBeforeCommit'
    <3> SUFFICES ASSUME NEW v \in Writers, NEW a \in Leaves, wpc'[v] = "invalidated",
                        Touches(posting'[v], a), Fresh("credit", a)'
                 PROVE  a \in exposed'["credit"]
      BY DEF InvalidatedBeforeCommit, Touches, LeavesOf
    <3>1. a \notin {p.dr, p.cr} /\ v # w
      BY <2>1, <2>2, <2>3, TouchesLeaf
    <3> QED BY <2>2, <2>3, <3>1 DEF CacheInv, InvalidatedBeforeCommit, Fresh
  <2>5. LeafStaleOnlyByOverlap'
    <3> SUFFICES ASSUME NEW i \in Instances, NEW a \in Leaves, Fresh(i, a)',
                        cache'[i][a].bal # books'[a], a \notin exposed'[i]
                 PROVE  i = "credit" /\ \E v \in Writers : wpc'[v] = "committed"
                                                           /\ Touches(posting'[v], a)
      BY DEF LeafStaleOnlyByOverlap, LeafAccurate, Touches, LeavesOf
    <3>1. i = "credit" => a \notin {p.dr, p.cr}
      BY <2>2
    <3>2. Fresh(i, a) /\ cache[i][a].bal # books[a] /\ a \notin exposed[i]
      BY <2>2, <3>1 DEF Fresh
    <3>3. i = "credit" /\ \E v \in Writers : wpc[v] = "committed" /\ Touches(posting[v], a)
      BY <3>2 DEF CacheInv, LeafStaleOnlyByOverlap, LeafAccurate
    <3>4. PICK v \in Writers : wpc[v] = "committed" /\ Touches(posting[v], a)
      BY <3>3
    <3>5. v # w
      BY <2>1, <3>1, <3>3, <3>4, TouchesLeaf
    <3> QED BY <2>3, <3>3, <3>4, <3>5
  <2> QED BY <2>4, <2>5
<1>4. ASSUME NEW w \in Writers, Commit(w) PROVE Goal
  <2> DEFINE p == posting[w]
  <2>1. p \in Postings
    BY <1>4 DEF CacheInv, Commit
  <2>2. /\ \A a \in Leaves : a \notin {p.dr, p.cr} => books'[a] = books[a]
        /\ \A v \in Writers \ {w} : wpc'[v] = wpc[v] /\ posting'[v] = posting[v]
        /\ wpc[w] # "committed" /\ wpc'[w] # "invalidated"
    BY <1>4, <2>1, TouchesLeaf DEF CacheInv, Commit, After, Return
  <2>3. cache' = cache /\ \A i \in Instances : exposed[i] \subseteq exposed'[i]
    BY <1>4 DEF Commit
  <2>4. InvalidatedBeforeCommit'
    <3> SUFFICES ASSUME NEW v \in Writers, NEW a \in Leaves, wpc'[v] = "invalidated",
                        Touches(posting'[v], a), Fresh("credit", a)'
                 PROVE  a \in exposed'["credit"]
      BY DEF InvalidatedBeforeCommit, Touches, LeavesOf
    <3>1. v # w /\ wpc[v] = "invalidated" /\ Touches(posting[v], a) /\ Fresh("credit", a)
      BY <2>2, <2>3 DEF Fresh
    <3> QED BY <1>1, <2>3, <3>1 DEF CacheInv, InvalidatedBeforeCommit
  <2>5. ASSUME NEW i \in Instances, NEW a \in {p.dr, p.cr}
        PROVE  \/ ~Fresh(i, a) \/ a \in exposed'[i]
               \/ i = "credit" /\ wpc'[w] = "committed" /\ posting'[w] = p
    <3>1. a \in Leaves /\ Touches(p, a)
      BY <2>1, TouchesLeaf
    <3>2. CASE i # "credit"
      <4>1. i \in Untold(p.by)
        BY <1>1, <3>2 DEF Untold
      <4> QED BY <1>4, <4>1 DEF Commit
    <3>3. CASE i = "credit" /\ wpc[w] = "invalidated"
      BY <2>3, <3>1, <3>3 DEF CacheInv, InvalidatedBeforeCommit
    <3>4. CASE i = "credit" /\ wpc[w] = "posted" /\ p.by = "standalone"
      BY <1>4, <3>4 DEF CacheInv, Commit
    <3>5. CASE i = "credit" /\ wpc[w] = "posted" /\ p.by = "inventory"
      <4>1. i \in Untold(p.by)
        BY <3>5 DEF Untold
      <4> QED BY <1>4, <4>1 DEF Commit
    <3>6. p.by \in {"nested", "standalone", "inventory"}
      BY <2>1 DEF Callers
    <3> QED BY <1>4, <3>2, <3>3, <3>4, <3>5, <3>6 DEF Commit
  <2>6. LeafStaleOnlyByOverlap'
    <3> SUFFICES ASSUME NEW i \in Instances, NEW a \in Leaves, Fresh(i, a),
                        cache[i][a].bal # books'[a], a \notin exposed'[i]
                 PROVE  i = "credit" /\ \E v \in Writers : wpc'[v] = "committed"
                                                           /\ Touches(posting'[v], a)
      BY <2>3 DEF LeafStaleOnlyByOverlap, LeafAccurate, Fresh, Touches, LeavesOf
    <3>1. CASE a \in {p.dr, p.cr}
      BY <2>1, <2>5, <3>1, TouchesLeaf
    <3>2. CASE a \notin {p.dr, p.cr}
      <4>1. a \notin exposed[i] /\ cache[i][a].bal # books[a]
        BY <2>2, <2>3, <3>2
      <4>2. i = "credit" /\ \E v \in Writers : wpc[v] = "committed" /\ Touches(posting[v], a)
        BY <4>1 DEF CacheInv, LeafStaleOnlyByOverlap, LeafAccurate
      <4> QED BY <2>2, <4>2
    <3> QED BY <3>1, <3>2
  <2> QED BY <2>4, <2>6
<1>5. ASSUME NEW w \in Writers, Abort(w) PROVE Goal
  BY <1>5, CacheSame DEF CacheInv, Abort, Return
<1>6. ASSUME NEW r \in Readers, NEW i \in Instances, NEW a \in Accounts,
             Hit(r, i, a) \/ Miss(r, i, a)
      PROVE  Goal
  BY <1>6, CacheSame DEF CacheInv, Hit, Miss
<1>7. ASSUME NEW r \in Readers, NEW l \in Leaves, ReadLeaf(r, l) PROVE Goal
  BY <1>7, CacheSame DEF CacheInv, ReadLeaf
<1>8. ASSUME NEW r \in Readers, Fill(r) PROVE Goal
  <2> DEFINE i == job[r].at
             a == job[r].want
  <2>1. rpc[r] = "reading" /\ job[r].left = {} /\ {a} # {} /\ i \in Instances /\ a \in Accounts
    BY <1>8 DEF CacheInv, Fill
  <2>2. /\ books' = books /\ wpc' = wpc /\ posting' = posting
        /\ \A j \in Instances, b \in Accounts : j # i \/ b # a
               => cache'[j][b] = cache[j][b] /\ (b \in exposed'[j] <=> b \in exposed[j])
        /\ cache'[i][a].bal = job[r].sum
        /\ r \in overlapped => a \in exposed'[i]
    BY <1>8, <2>1 DEF CacheInv, Fill
  <2>3. a \in Leaves /\ r \notin overlapped => job[r].sum = books[a]
    BY <2>1 DEF CacheInv, FillReads
  <2>4. r \notin overlapped => \A w \in Writers : wpc[w] # "idle" => ~Touches(posting[w], a)
    BY <2>1 DEF CacheInv, OverlapNoted, Open
  <2> HIDE DEF a, i
  <2>5. InvalidatedBeforeCommit'
    <3> SUFFICES ASSUME NEW w \in Writers, NEW b \in Leaves, wpc[w] = "invalidated",
                        Touches(posting[w], b), Fresh("credit", b)'
                 PROVE  b \in exposed'["credit"]
      BY <2>2 DEF InvalidatedBeforeCommit, Touches, LeavesOf
    <3>1. CASE b = a /\ i = "credit"
      BY <2>2, <2>4, <3>1
    <3>2. CASE b # a \/ i # "credit"
      BY <1>1, <2>2, <3>2 DEF CacheInv, InvalidatedBeforeCommit, Fresh
    <3> QED BY <3>1, <3>2
  <2>6. LeafStaleOnlyByOverlap'
    <3> SUFFICES ASSUME NEW j \in Instances, NEW b \in Leaves, Fresh(j, b)',
                        cache'[j][b].bal # books[b], b \notin exposed'[j]
                 PROVE  j = "credit" /\ \E w \in Writers : wpc[w] = "committed"
                                                           /\ Touches(posting[w], b)
      BY <2>2 DEF LeafStaleOnlyByOverlap, LeafAccurate, Touches, LeavesOf
    <3>1. b # a \/ j # i
      BY <2>2, <2>3
    <3>2. Fresh(j, b) /\ cache[j][b].bal # books[b] /\ b \notin exposed[j]
      BY <2>2, <3>1 DEF Fresh
    <3> QED BY <3>2 DEF CacheInv, LeafStaleOnlyByOverlap, LeafAccurate
  <2> QED BY <2>5, <2>6
<1>9. CASE Tick
  <2>1. /\ \A i \in Instances, a \in Accounts :
               Fresh(i, a)' => Fresh(i, a) /\ cache'[i][a].bal = cache[i][a].bal
        /\ UNCHANGED <<books, wpc, posting, exposed>>
    BY <1>9 DEF CacheInv, Tick, Fresh, None
  <2>2. InvalidatedBeforeCommit'
    BY <1>1, <2>1 DEF CacheInv, InvalidatedBeforeCommit, Touches, LeavesOf
  <2>3. LeafStaleOnlyByOverlap'
    <3> SUFFICES ASSUME NEW i \in Instances, NEW a \in Leaves, Fresh(i, a)',
                        cache'[i][a].bal # books[a], a \notin exposed[i]
                 PROVE  i = "credit" /\ \E w \in Writers : wpc[w] = "committed"
                                                           /\ Touches(posting[w], a)
      BY <2>1 DEF LeafStaleOnlyByOverlap, LeafAccurate, Touches, LeavesOf
    <3> QED BY <2>1 DEF CacheInv, LeafStaleOnlyByOverlap, LeafAccurate
  <2> QED BY <2>2, <2>3
<1>10. CASE UNCHANGED vars
  BY <1>10, CacheSame DEF CacheInv, vars
<1> QED
  BY <1>2, <1>3, <1>4, <1>5, <1>6, <1>7, <1>8, <1>9, <1>10 DEF Next, Write, Query
-----------------------------------------------------------------------------
\* Every reachable state satisfies the invariant.
THEOREM CacheInvariant == Spec => []CacheInv
<1>1. Init => CacheInv
  BY DEF Init, CacheInv, Typed, OverlapNoted, Open, FillReads, InvalidatedBeforeCommit, Fresh,
         LeafStaleOnlyByOverlap, LeafAccurate, NoPosting, NoJob, None
<1>2. CacheInv /\ [Next]_vars => CacheInv'
  BY Typing, OverlapKept, FillKept, CacheKept DEF CacheInv
<1> QED BY <1>1, <1>2, PTL DEF Spec

\* In either instance of LedgerQueryService a fresh balance of a leaf account is
\* wrong only if its fill overlapped a posting to it or a posting was committed
\* that the instance is not told of; in FinancialService's instance also while
\* the invalidation of a committed posting is still to run.
THEOREM StaleOnlyInWindow == Spec => []StaleOnlyByOverlap
<1>1. CacheInv => StaleOnlyByOverlap
  BY LeafIsAccurate DEF CacheInv, LeafStaleOnlyByOverlap, StaleOnlyByOverlap
<1> QED BY <1>1, CacheInvariant, PTL
-----------------------------------------------------------------------------
(* Credit limits *)

USE CreditAssumption DEF CreditAssumption

\* The locals of each order and each edit, field by field.
Checked == [at : {"limit", "post"}, party : Parties, total : Totals, limit : Limits \cup {0}]

Locals ==
    /\ tx \in [Tx -> {NoTx} \cup Checked]
    /\ edit \in [Editors -> {NoEdit} \cup [op : {"approve", "limit", "other"}, party : Parties,
                                           copy : Fields]]

\* What an order's check found still holds at the commit: between the two the
\* balance of its party only falls, unless another order to it commits.
CheckStands ==
    \A t \in Tx \ stale : tx[t].at = "post" =>
        debt[tx[t].party] + tx[t].total <= tx[t].limit

\* An edit's copy is what its party has, unless the party was saved since.
CopyStands ==
    \A e \in Editors \ stale : edit[e] # NoEdit => edit[e].copy = fields[edit[e].party]

CreditInv == CreditTypeOK /\ Locals /\ CheckStands /\ CopyStands

\* An approved check leaves the total within the limit on top of the balance.
LEMMA OutstandingIsDebt ==
    ASSUME CreditTypeOK, NEW p \in Parties PROVE Outstanding(p) = debt[p]
  BY DEF CreditTypeOK, Outstanding, Abs

\* The locals of an order under way.
LEMMA UnderWay ==
    ASSUME Locals, NEW t \in Tx, tx[t] # NoTx
    PROVE  /\ tx[t] \in Checked
           /\ tx[t].party \in Parties /\ tx[t].total \in Totals /\ tx[t].total \in Nat
           /\ tx[t].limit \in Limits \cup {0} /\ tx[t].limit \in Nat
<1>1. tx[t] \in Checked
  BY DEF Locals
<1>2. tx[t].party \in Parties /\ tx[t].total \in Totals /\ tx[t].limit \in Limits \cup {0}
  BY <1>1 DEF Checked
<1>3. tx[t].total \in Nat
  BY <1>2
<1>4. tx[t].limit \in Nat
  <2>1. CASE tx[t].limit = 0
    BY <2>1
  <2>2. CASE tx[t].limit \in Limits
    BY <2>2
  <2> QED BY <1>2, <2>1, <2>2
<1> QED BY <1>1, <1>2, <1>3, <1>4

\* A failed check or an abort posts nothing.
LEMMA QuitKeeps ==
    ASSUME CreditInv, NEW t \in Tx, Quit(t) PROVE CreditInv'
<1>1. CreditTypeOK' /\ Locals'
  BY DEF CreditInv, Quit, CreditTypeOK, Locals
<1>2. CheckStands'
  BY DEF CreditInv, Quit, Locals, CheckStands, NoTx
<1>3. CopyStands'
  BY DEF CreditInv, Quit, CopyStands
<1> QED BY <1>1, <1>2, <1>3 DEF CreditInv

\* A save makes every other copy of the party stale.
LEMMA SaveKeeps ==
    ASSUME CreditInv, NEW e \in Editors, NEW new \in Fields, edit[e] # NoEdit, Save(e, new)
    PROVE  CreditInv'
<1>1. edit[e].party \in Parties
  BY DEF CreditInv, Locals
<1>2. CreditTypeOK' /\ Locals'
  BY <1>1 DEF CreditInv, Save, CreditTypeOK, Locals
<1>3. CheckStands'
  BY DEF CreditInv, Save, CheckStands
<1>4. CopyStands'
  <2> SUFFICES ASSUME NEW f \in Editors, f \notin stale', edit'[f] # NoEdit
               PROVE  edit'[f].copy = fields'[edit'[f].party]
    BY DEF CopyStands
  <2>1. f # e /\ edit'[f] = edit[f]
    BY DEF CreditInv, Locals, Save
  <2>2. f \notin stale /\ edit[f].party # edit[e].party
    BY <2>1 DEF Save
  <2>3. edit[f].party \in Parties /\ edit[f].copy = fields[edit[f].party]
    BY <2>1, <2>2 DEF CreditInv, Locals, CopyStands
  <2> QED BY <1>1, <2>1, <2>2, <2>3 DEF CreditInv, CreditTypeOK, Save
<1> QED BY <1>2, <1>3, <1>4 DEF CreditInv
-----------------------------------------------------------------------------
\* Every step keeps the invariant.
LEMMA StepKeeps == ASSUME CreditInv, [CreditNext]_creditVars PROVE CreditInv'
<1> USE DEF CreditInv
<1>1. ASSUME NEW t \in Tx, NEW p \in Parties, NEW n \in Totals, CheckApproval(t, p, n)
      PROVE  CreditInv'
  <2>1. [at |-> "limit", party |-> p, total |-> n, limit |-> 0] \in Checked
    BY DEF Checked
  <2>2. CreditTypeOK' /\ Locals'
    BY <1>1, <2>1 DEF CheckApproval, CreditTypeOK, Locals
  <2>3. CheckStands' /\ CopyStands'
    BY <1>1 DEF CheckApproval, Locals, CheckStands, CopyStands
  <2> QED BY <2>2, <2>3
<1>2. ASSUME NEW t \in Tx, CheckLimit(t) PROVE CreditInv'
  <2>1. CASE Quit(t)
    BY <2>1, QuitKeeps
  <2>2. CASE ~Quit(t)
    <3> DEFINE p == tx[t].party
    <3>1. tx[t] # NoTx
      BY <1>2 DEF CheckLimit, NoTx
    <3>2. /\ p \in Parties /\ tx[t].total \in Totals
          /\ tx' = [tx EXCEPT ![t].at = "post", ![t].limit = fields[p].limit]
          /\ UNCHANGED <<fields, debt, edit, stale>>
          /\ ~(tx[t].total > fields[p].limit - Outstanding(p))
      BY <1>2, <2>2, <3>1, UnderWay DEF CheckLimit
    <3>3. fields[p].limit \in Limits \cup {0} /\ debt[p] \in Nat /\ Outstanding(p) = debt[p]
      BY <3>2, OutstandingIsDebt DEF CreditTypeOK, Fields
    <3>4. [tx[t] EXCEPT !.at = "post", !.limit = fields[p].limit] \in Checked
      BY <3>1, <3>3, UnderWay, ZenonT(30) DEF Checked
    <3>5. CreditTypeOK' /\ Locals'
      BY <3>2, <3>4 DEF CreditTypeOK, Locals
    <3>6. debt[p] + tx[t].total <= fields[p].limit
      BY <3>2, <3>3
    <3>7. CheckStands'
      BY <3>2, <3>6 DEF Locals, CheckStands
    <3>8. CopyStands'
      BY <3>2 DEF CopyStands
    <3> QED BY <3>5, <3>7, <3>8
  <2> QED BY <2>1, <2>2
<1>3. ASSUME NEW t \in Tx, CommitOnCredit(t) PROVE CreditInv'
  <2>1. tx[t] # NoTx
    BY <1>3 DEF CommitOnCredit, NoTx
  <2>2. /\ tx[t].party \in Parties /\ tx[t].total \in Nat
        /\ \A u \in Tx \ {t} : tx'[u] = tx[u]
        /\ tx'[t] = NoTx
    BY <1>3, <2>1, UnderWay DEF CommitOnCredit, Locals
  <2>3. CreditTypeOK' /\ Locals'
    BY <1>3, <2>2 DEF CommitOnCredit, CreditTypeOK, Locals
  <2>4. CheckStands'
    BY <1>3, <2>2 DEF CommitOnCredit, CreditTypeOK, Locals, CheckStands, NoTx
  <2>5. CopyStands'
    BY <1>3 DEF CommitOnCredit, CopyStands
  <2> QED BY <2>3, <2>4, <2>5
<1>4. ASSUME NEW t \in Tx, Abandon(t) PROVE CreditInv'
  BY <1>4, QuitKeeps DEF Abandon
<1>5. ASSUME NEW p \in Parties, NEW n \in Totals, Repay(p, n) PROVE CreditInv'
  <2>1. CreditTypeOK' /\ Locals'
    BY <1>5 DEF Repay, CreditTypeOK, Locals
  <2>2. \A q \in Parties : debt[q] \in Nat /\ debt'[q] \in Nat /\ debt'[q] <= debt[q]
    BY <1>5, <2>1 DEF Repay, CreditTypeOK
  <2>3. CheckStands'
    <3> SUFFICES ASSUME NEW t \in Tx \ stale', tx'[t].at = "post"
                 PROVE  debt'[tx'[t].party] + tx'[t].total <= tx'[t].limit
      BY DEF CheckStands
    <3>1. tx[t].party \in Parties /\ tx[t].total \in Nat /\ tx[t].limit \in Nat
      <4>1. tx[t].at = "post"
        BY <1>5 DEF Repay
      <4> QED BY <4>1, UnderWay DEF NoTx
    <3>2. debt[tx[t].party] + tx[t].total <= tx[t].limit
      BY <1>5 DEF Repay, CheckStands
    <3> QED BY <1>5, <2>2, <3>1, <3>2 DEF Repay
  <2>4. CopyStands'
    BY <1>5 DEF Repay, CopyStands
  <2> QED BY <2>1, <2>3, <2>4
<1>6. ASSUME NEW e \in Editors, NEW p \in Parties, NEW op \in {"approve", "limit", "other"},
             Load(e, p, op)
      PROVE  CreditInv'
  <2>1. CreditTypeOK' /\ Locals'
    BY <1>6 DEF Load, CreditTypeOK, Locals
  <2>2. CheckStands' /\ CopyStands'
    BY <1>6 DEF Load, Locals, CheckStands, CopyStands
  <2> QED BY <2>1, <2>2
<1>7. ASSUME NEW e \in Editors, NEW b \in BOOLEAN, SaveApproval(e, b) PROVE CreditInv'
  <2>1. edit[e] # NoEdit /\ edit[e].copy \in Fields
    BY <1>7 DEF SaveApproval, Locals, NoEdit
  <2>2. PICK limit \in Limits \cup {edit[e].copy.limit} :
            Save(e, [edit[e].copy EXCEPT !.approved = b, !.limit = limit])
    BY <1>7 DEF SaveApproval
  <2>3. [edit[e].copy EXCEPT !.approved = b, !.limit = limit] \in Fields
    BY <2>1 DEF Fields
  <2> QED BY <2>1, <2>2, <2>3, SaveKeeps
<1>8. ASSUME NEW e \in Editors, NEW l \in Limits, SaveLimit(e, l) PROVE CreditInv'
  <2>1. edit[e] # NoEdit /\ edit[e].copy \in Fields
    BY <1>8 DEF SaveLimit, Locals, NoEdit
  <2>2. [edit[e].copy EXCEPT !.limit = l] \in Fields
    BY <2>1 DEF Fields
  <2> QED BY <1>8, <2>1, <2>2, SaveKeeps DEF SaveLimit
<1>9. ASSUME NEW e \in Editors, SaveOther(e) PROVE CreditInv'
  <2>1. edit[e] # NoEdit /\ edit[e].copy \in Fields
    BY <1>9 DEF SaveOther, Locals, NoEdit
  <2> QED BY <1>9, <2>1, SaveKeeps DEF SaveOther
<1>10. CASE UNCHANGED creditVars
  BY <1>10 DEF creditVars, CreditTypeOK, Locals, CheckStands, CopyStands
<1> QED
  BY <1>1, <1>2, <1>3, <1>4, <1>5, <1>6, <1>7, <1>8, <1>9, <1>10 DEF CreditNext, Edit

\* The invariant holds of every reachable state; its first part is TypeOK.
THEOREM CreditInvariant == CreditSpec => []CreditInv
<1>1. CreditInit => CreditInv
  BY DEF CreditInit, CreditInv, CreditTypeOK, Locals, CheckStands, CopyStands, Fields, NoTx, NoEdit
<1>2. CreditInv /\ [CreditNext]_creditVars => CreditInv'
  BY StepKeeps
<1> QED BY <1>1, <1>2, PTL DEF CreditSpec
-----------------------------------------------------------------------------
\* A committed sale or purchase leaves its party within the limit its check
\* read, unless another commit to the party came between (createOrder and
\* recordPurchase check the limit before they post).
THEOREM CommitsWithinLimit == CreditSpec => WithinLimit
<1> DEFINE Step == \A t \in Tx \ stale : debt' # debt /\ tx[t] # NoTx /\ tx'[t] = NoTx =>
                       debt'[tx[t].party] <= tx[t].limit
<1>1. CreditInv /\ [CreditNext]_creditVars => [Step]_creditVars
  <2> SUFFICES ASSUME CreditInv, CreditNext, NEW t \in Tx, t \notin stale,
                      debt' # debt, tx[t] # NoTx, tx'[t] = NoTx
               PROVE  debt'[tx[t].party] <= tx[t].limit
    OBVIOUS
  <2>1. ASSUME NEW u \in Tx, CommitOnCredit(u) PROVE debt'[tx[t].party] <= tx[t].limit
    <3>1. u = t
      BY <2>1 DEF CommitOnCredit, CreditInv, Locals
    <3>2. debt[tx[t].party] + tx[t].total <= tx[t].limit
      BY <2>1, <3>1 DEF CommitOnCredit, CreditInv, CheckStands
    <3> QED BY <2>1, <3>1, <3>2 DEF CommitOnCredit, CreditInv, CreditTypeOK, Locals, NoTx
  <2>2. ASSUME NEW p \in Parties, NEW n \in Totals, Repay(p, n) PROVE FALSE
    BY <2>2 DEF Repay
  <2>3. ASSUME NEW u \in Tx, ~CommitOnCredit(u),
               \/ \E p \in Parties, n \in Totals : CheckApproval(u, p, n)
               \/ CheckLimit(u) \/ Abandon(u)
        PROVE  FALSE
    BY <2>3 DEF CheckApproval, CheckLimit, Abandon, Quit
  <2>4. ASSUME NEW e \in Editors, Edit(e) PROVE FALSE
    BY <2>4 DEF Edit, Load, SaveApproval, SaveLimit, SaveOther, Save
  <2> QED BY <2>1, <2>2, <2>3, <2>4 DEF CreditNext
<1> QED BY <1>1, CreditInvariant, PTL DEF CreditSpec, WithinLimit

\* Once revoked, a party's credit comes back by an approval alone, or by an
\* edit whose party was saved between its read and its save
\* (approveCustomerCredit against the other edits of the same fields).
THEOREM RevokedStaysRevoked == CreditSpec => RevocationHolds
<1> DEFINE Back(p, e) == /\ edit'[e] # edit[e] /\ edit[e].party = p
                         /\ edit[e].op = "approve" \/ e \in stale
           Step == \A p \in Parties : ~fields[p].approved /\ fields'[p].approved =>
                       \E e \in Editors : Back(p, e)
<1>1. CreditInv /\ [CreditNext]_creditVars => [Step]_creditVars
  <2> SUFFICES ASSUME CreditInv, CreditNext, NEW p \in Parties,
                      ~fields[p].approved, fields'[p].approved
               PROVE  \E e \in Editors : Back(p, e)
    OBVIOUS
  <2>1. ASSUME NEW e \in Editors, NEW new, Save(e, new), edit[e] # NoEdit,
               edit[e].op = "approve" \/ new.approved = edit[e].copy.approved
        PROVE  Back(p, e)
    <3>1. edit[e].party = p /\ fields'[p] = new
      BY <2>1 DEF Save, CreditInv, CreditTypeOK
    <3>2. edit'[e] # edit[e]
      BY <2>1 DEF Save, CreditInv, Locals
    <3>3. e \notin stale => edit[e].copy = fields[p]
      BY <2>1, <3>1 DEF CreditInv, CopyStands
    <3> QED BY <2>1, <3>1, <3>2, <3>3
  <2>2. ASSUME NEW e \in Editors, Edit(e) PROVE \E f \in Editors : Back(p, f)
    <3>1. CASE edit[e] = NoEdit
      BY <2>2, <3>1 DEF Edit, Load, SaveApproval, SaveLimit, SaveOther, NoEdit
    <3>2. CASE edit[e] # NoEdit
      <4>1. edit[e].copy \in Fields
        BY <3>2 DEF CreditInv, Locals
      <4>2. PICK new : Save(e, new) /\ (edit[e].op = "approve" \/
                                           new.approved = edit[e].copy.approved)
        <5>1. CASE \E b \in BOOLEAN : SaveApproval(e, b)
          BY <5>1 DEF SaveApproval
        <5>2. CASE \E l \in Limits : SaveLimit(e, l)
          <6>1. PICK l \in Limits : Save(e, [edit[e].copy EXCEPT !.limit = l])
            BY <5>2 DEF SaveLimit
          <6>2. [edit[e].copy EXCEPT !.limit = l].approved = edit[e].copy.approved
            BY <4>1 DEF Fields
          <6> QED BY <6>1, <6>2
        <5>3. CASE SaveOther(e)
          BY <5>3 DEF SaveOther
        <5> QED BY <2>2, <3>2, <5>1, <5>2, <5>3 DEF Edit, Load
      <4> QED BY <2>1, <3>2, <4>2
    <3> QED BY <3>1, <3>2
  <2>3. ASSUME NEW u \in Tx,
               \/ \E q \in Parties, n \in Totals : CheckApproval(u, q, n)
               \/ CheckLimit(u) \/ CommitOnCredit(u) \/ Abandon(u)
        PROVE  FALSE
    BY <2>3 DEF CheckApproval, CheckLimit, CommitOnCredit, Abandon, Quit
  <2>4. ASSUME NEW q \in Parties, NEW n \in Totals, Repay(q, n) PROVE FALSE
    BY <2>4 DEF Repay
  <2> QED BY <2>2, <2>3, <2>4 DEF CreditNext
<1> QED BY <1>1, CreditInvariant, PTL DEF CreditSpec, RevocationHolds
=============================================================================
