----------------------------- MODULE StockProofs -----------------------------
(***************************************************************************)
(* Proofs about Stock with Drafts, for any variants, stock levels, drafts  *)
(* and documents.                                                          *)
(***************************************************************************)
EXTENDS Stock, Sums, SequenceTheorems

\* An adjustment line that was not added twice sends the difference of what was
\* counted and what the page showed.
Honest(kind, lines) ==
    \A i \in DOMAIN lines :
        /\ lines[i].times >= 1
        /\ kind = "adjustment" /\ lines[i].times = 1 => lines[i].count = lines[i].seen + lines[i].qty

\* The draft of the page.
DraftOk ==
    /\ draft \in [kind : DocKinds \cup {"none"}, lines : Seq(DraftLine), n : Nat]
    /\ Honest(draft.kind, draft.lines)
    /\ draft = NoDraft \/ (draft.kind \in DocKinds /\ draft.n \in 1..drafts)
    /\ drafts \in Nat /\ loading \in Nat /\ timer \in BOOLEAN /\ hasty \subseteq 1..drafts

\* What a document may be at each point of its transaction.
DocOk(k) ==
    /\ k \in Doc /\ k.lines # <<>> /\ Len(k.moves) <= Len(k.lines)
    /\ k.at \in {"variant", "level"} => Len(k.moves) < Len(k.lines)
    /\ k.at \in {"commit", "recorded"} => Len(k.moves) = Len(k.lines)
    /\ k.at = "level" => k.lines[Len(k.moves) + 1].v \in k.held
    /\ \A i \in DOMAIN k.moves :
          /\ k.moves[i].new = k.moves[i].previous + k.lines[i].qty
          /\ k.at \in {"variant", "level", "commit"} => k.lines[i].v \in k.held
    /\ k.draft # 0 => Honest(k.kind, k.lines)

\* The documents, and the locks they hold.
DocsOk ==
    /\ docs \in Seq(Doc) /\ \A d \in DOMAIN docs : DocOk(docs[d])
    /\ \A d, e \in DOMAIN docs : d # e => docs[d].held \cap docs[e].held = {}

\* What a document has done to a variant so far.
SoFar(k, v) == SumAt([i \in DOMAIN k.lines |-> k.lines[i].qty],
                     {i \in DOMAIN k.moves : k.lines[i].v = v})

\* The level of a variant as a document sees it, when n is the committed one.
SeenBy(k, v, n) ==
    LET of == {i \in DOMAIN k.moves : k.lines[i].v = v}
    IN  IF of = {} THEN n ELSE k.moves[Max(of)].new

\* The levels, and what the documents on the way make of them.
LevelOk ==
    /\ level \in [Variant -> Nat \cup {NoRow}] /\ sold \in [Variant -> Nat]
    /\ sale # NoSale => sale.v \in Variant /\ sale.read \in Nat \ {0}
    /\ \A d \in DOMAIN docs : Running(d) =>
          \A v \in Variant : Units(SeenBy(docs[d], v, level[v]))
                               = Units(level[v]) + SoFar(docs[d], v)

\* Which document a draft has become.  The draft that an answer or the timer
\* will clear is the one that was submitted, or hasty.
DraftsOnce ==
    /\ loading # 0 => /\ loading \in DOMAIN docs /\ draft.n # 0
                      /\ docs[loading].draft = draft.n \/ draft.n \in hasty
    /\ timer /\ draft.n # 0 => draft.n \in hasty
    /\ \A d \in DOMAIN docs : docs[d].draft # 0 =>
          /\ docs[d].draft <= drafts
          /\ docs[d].draft = draft.n => \/ d = loading \/ d \in gaveUp
                                        \/ docs[d].at = "failed"
    /\ \A d, e \in DOMAIN docs : d < e /\ docs[d].draft = docs[e].draft /\ docs[d].draft # 0 =>
          d \in gaveUp \/ docs[d].at = "failed"
    /\ \A n \in (1..drafts) \ ({draft.n} \cup hasty) :
          \E d \in Recorded : docs[d].draft = n

IInv == DraftOk /\ DocsOk /\ LevelOk /\ DraftsOnce /\ LevelExplained
-----------------------------------------------------------------------------
(* Sums and positions *)

\* A sum as the model takes it is the sum over the set.
LEMMA SumAtIs ==
    ASSUME NEW S, IsFiniteSet(S), NEW f, \A x \in S : f[x] \in Int
    PROVE  SumAt(f, S) = SumOver(f, S) /\ SumAt(f, S) \in Int
<1>1. MapThenSumSet(LAMBDA x : f[x], S) = SumOver(f, S) /\ SumOver(f, S) \in Int
  BY MapSum
<1> QED BY <1>1 DEF SumAt

\* The moves a document has made of a variant.
At(k, v) == {i \in DOMAIN k.moves : k.lines[i].v = v}
Qty(lines) == [i \in DOMAIN lines |-> lines[i].qty]

\* What it has done so far is a sum over them.
LEMMA SoFarIs ==
    ASSUME NEW k \in Doc, Len(k.moves) <= Len(k.lines), NEW v
    PROVE  /\ At(k, v) \subseteq DOMAIN k.lines /\ IsFiniteSet(At(k, v))
           /\ \A i \in DOMAIN k.lines : Qty(k.lines)[i] = k.lines[i].qty /\ Qty(k.lines)[i] \in Int
           /\ SoFar(k, v) = SumOver(Qty(k.lines), At(k, v)) /\ SoFar(k, v) \in Int
           /\ At(k, v) = {} => SoFar(k, v) = 0
           /\ Len(k.moves) = Len(k.lines) => SoFar(k, v) = Change(k.lines, v)
<1>1. k.lines \in Seq(DraftLine) /\ k.moves \in Seq([previous : Nat, new : Nat])
  BY DEF Doc
<1>2. /\ DOMAIN k.lines = 1..Len(k.lines) /\ DOMAIN k.moves = 1..Len(k.moves)
      /\ Len(k.lines) \in Nat /\ Len(k.moves) \in Nat /\ IsFiniteSet(DOMAIN k.moves)
      /\ \A i \in DOMAIN k.lines : k.lines[i] \in DraftLine
  BY <1>1, SeqFacts
<1>3. DOMAIN k.moves \subseteq DOMAIN k.lines
  BY <1>2
<1>4. At(k, v) \subseteq DOMAIN k.lines /\ IsFiniteSet(At(k, v))
  BY <1>2, <1>3, FS_Subset DEF At
<1>5. \A i \in DOMAIN k.lines : Qty(k.lines)[i] = k.lines[i].qty /\ Qty(k.lines)[i] \in Int
  BY <1>2 DEF Qty, DraftLine
<1>6. SoFar(k, v) = SumAt(Qty(k.lines), At(k, v))
  BY DEF SoFar, Qty, At
<1>7. SoFar(k, v) = SumOver(Qty(k.lines), At(k, v)) /\ SoFar(k, v) \in Int
  BY <1>4, <1>5, <1>6, SumAtIs
<1>8. At(k, v) = {} => SoFar(k, v) = 0
  BY <1>7, SumNone
<1>9. Len(k.moves) = Len(k.lines) => SoFar(k, v) = Change(k.lines, v)
  BY <1>2 DEF SoFar, Change
<1> QED BY <1>4, <1>5, <1>7, <1>8, <1>9

\* The moves of a variant have a last one.
LEMMA LastMove ==
    ASSUME NEW k \in Doc, NEW v, At(k, v) # {}
    PROVE  Max(At(k, v)) \in At(k, v)
<1>1. k.moves \in Seq([previous : Nat, new : Nat])
  BY DEF Doc
<1> DEFINE n == Len(k.moves)
           D == {n - i : i \in At(k, v)}
<1>2. \A i \in At(k, v) : i \in Nat /\ n - i \in Nat /\ n \in Nat
  <2>1. n \in Nat /\ DOMAIN k.moves = 1..n
    BY <1>1, SeqFacts
  <2> HIDE DEF n
  <2> QED BY <2>1 DEF At
<1> HIDE DEF n
<1>3. D \in SUBSET Nat /\ D # {}
  BY <1>2
<1>4. PICK j \in D : \A l \in D : j <= l
  <2> HIDE DEF D
  <2> QED BY <1>3, LeastNumber
<1>5. PICK x \in At(k, v) : j = n - x
  OBVIOUS
<1>6. ASSUME NEW y \in At(k, v) PROVE x >= y
  <2>1. n - x <= n - y
    BY <1>4, <1>5
  <2> QED BY <1>2, <2>1
<1> QED BY <1>6 DEF Max

\* What one more move adds, and where the variant is then seen.
LEMMA OneMore ==
    ASSUME NEW k \in Doc, NEW m \in Doc, Len(k.moves) < Len(k.lines), m.lines = k.lines,
           NEW move \in [previous : Nat, new : Nat], m.moves = Append(k.moves, move),
           NEW line, line = k.lines[Len(k.moves) + 1], NEW v, NEW n
    PROVE  /\ line.v = v => SoFar(m, v) = SoFar(k, v) + line.qty /\ SeenBy(m, v, n) = move.new
           /\ line.v # v => SoFar(m, v) = SoFar(k, v) /\ SeenBy(m, v, n) = SeenBy(k, v, n)
<1> DEFINE p == Len(k.moves) + 1
<1>1. k.lines \in Seq(DraftLine) /\ k.moves \in Seq([previous : Nat, new : Nat])
  BY DEF Doc
<1>2. /\ DOMAIN m.moves = DOMAIN k.moves \cup {p} /\ m.moves[p] = move
      /\ \A i \in DOMAIN k.moves : m.moves[i] = k.moves[i]
      /\ Len(m.moves) = p /\ DOMAIN k.moves = 1..(p - 1) /\ p \in Nat
      /\ DOMAIN k.lines = 1..Len(k.lines) /\ Len(k.lines) \in Nat
      /\ p - 1 = Len(k.moves)
  BY <1>1, SeqFacts
<1>3. p \in DOMAIN k.lines /\ Len(m.moves) <= Len(m.lines) /\ Len(k.moves) <= Len(k.lines)
  BY <1>2
<1>4. /\ SoFar(k, v) = SumOver(Qty(k.lines), At(k, v)) /\ IsFiniteSet(At(k, v))
      /\ SoFar(m, v) = SumOver(Qty(k.lines), At(m, v)) /\ At(k, v) \subseteq DOMAIN k.lines
      /\ \A i \in DOMAIN k.lines : Qty(k.lines)[i] = k.lines[i].qty /\ Qty(k.lines)[i] \in Int
  BY <1>3, SoFarIs
<1> HIDE DEF p
<1>5. ASSUME k.lines[p].v = v
      PROVE  SoFar(m, v) = SoFar(k, v) + k.lines[p].qty /\ SeenBy(m, v, n) = move.new
  <2>1. At(m, v) = At(k, v) \cup {p} /\ p \notin At(k, v)
    BY <1>2, <1>5 DEF At
  <2>2. SumOver(Qty(k.lines), At(k, v) \cup {p}) = SumOver(Qty(k.lines), At(k, v)) + Qty(k.lines)[p]
    <3>1. p \notin At(k, v) /\ \A y \in At(k, v) \cup {p} : Qty(k.lines)[y] \in Int
      BY <1>2, <1>3, <1>4 DEF At
    <3>2. PICK S, f : S = At(k, v) /\ f = Qty(k.lines)
      OBVIOUS
    <3>3. IsFiniteSet(S) /\ p \notin S /\ \A y \in S \cup {p} : f[y] \in Int
      BY <1>4, <3>1, <3>2
    <3>4. SumOver(f, S \cup {p}) = SumOver(f, S) + f[p]
      BY <3>3, SumWith
    <3> QED BY <3>2, <3>4
  <2>3. Max(At(m, v)) = p
    <3>1. \A i \in At(m, v) : i \in Nat /\ i <= p
      BY <1>2 DEF At
    <3> QED BY <1>2, <2>1, <3>1 DEF Max
  <2>4. SeenBy(m, v, n) = m.moves[Max(At(m, v))].new
    BY <2>1 DEF SeenBy, At
  <2> QED BY <1>2, <1>3, <1>4, <2>1, <2>2, <2>3, <2>4
<1>6. ASSUME k.lines[p].v # v
      PROVE  SoFar(m, v) = SoFar(k, v) /\ SeenBy(m, v, n) = SeenBy(k, v, n)
  <2>1. At(m, v) = At(k, v)
    BY <1>2, <1>6 DEF At
  <2>2. At(k, v) # {} => Max(At(k, v)) \in At(k, v)
    BY LastMove
  <2>3. At(k, v) # {} => m.moves[Max(At(k, v))] = k.moves[Max(At(k, v))]
    BY <1>2, <2>2 DEF At
  <2>4. /\ SeenBy(m, v, n) = IF At(m, v) = {} THEN n ELSE m.moves[Max(At(m, v))].new
        /\ SeenBy(k, v, n) = IF At(k, v) = {} THEN n ELSE k.moves[Max(At(k, v))].new
    BY DEF SeenBy, At
  <2>5. SeenBy(m, v, n) = SeenBy(k, v, n)
    <3>1. CASE At(k, v) = {}
      BY <2>1, <2>4, <3>1
    <3>2. CASE At(k, v) # {}
      BY <2>1, <2>3, <2>4, <3>2
    <3> QED BY <3>1, <3>2
  <2> QED BY <1>4, <2>1, <2>5
<1> QED BY <1>5, <1>6 DEF p
-----------------------------------------------------------------------------
(* The steps of a document *)

Same(k, m) == m.draft = k.draft /\ m.kind = k.kind /\ m.lines = k.lines

\* Document d becomes m.
Turn(d, m) == m \in Doc /\ docs' = [docs EXCEPT ![d] = m] /\ Same(docs[d], m)

Locks(d, m) ==
    /\ docs[d].at = "variant" /\ m.at = "level" /\ NextLine(d).v \notin HeldByOthers(d)
    /\ m.held = docs[d].held \cup {NextLine(d).v}
    /\ m.moves = docs[d].moves

Moves(d, m, move) ==
    /\ docs[d].at = "level" /\ LevelLocks(d) \cap HeldByOthers(d) = {}
    /\ move = [previous |-> Units(MovedTo(d, NextLine(d).v)),
               new |-> Units(MovedTo(d, NextLine(d).v)) + NextLine(d).qty]
    /\ move \in [previous : Nat, new : Nat]
    /\ m.moves = Append(docs[d].moves, move) /\ m.at = AfterLine(d)
    /\ m.held = docs[d].held \cup LevelLocks(d)

Fails(d, m) ==
    /\ Running(d) /\ m.at = "failed" /\ m.held = {} /\ m.moves = docs[d].moves

Ends(d, m) ==
    /\ docs[d].at = "commit" /\ m.at = "recorded" /\ m.held = {} /\ m.moves = docs[d].moves

\* What such a step does to the sequence of documents.
LEMMA Turned ==
    ASSUME docs \in Seq(Doc), NEW d \in DOMAIN docs, NEW m, Turn(d, m)
    PROVE  /\ docs' \in Seq(Doc) /\ DOMAIN docs' = DOMAIN docs /\ docs'[d] = m
           /\ Len(docs') = Len(docs) /\ \A e \in DOMAIN docs \ {d} : docs'[e] = docs[e]
<1>1. d \in 1..Len(docs) /\ DOMAIN docs = 1..Len(docs) /\ m \in Doc /\ docs' = [docs EXCEPT ![d] = m]
  BY SeqFacts DEF Turn
<1>2. /\ docs' \in Seq(Doc) /\ Len(docs') = Len(docs)
      /\ \A j \in 1..Len(docs) : docs'[j] = IF j = d THEN m ELSE docs[j]
  BY <1>1, ExceptSeq
<1>3. DOMAIN docs' = 1..Len(docs')
  BY <1>2, SeqFacts
<1> QED BY <1>1, <1>2, <1>3

\* The next line of a document that has not been through all of them.
LEMMA NextLineOk ==
    ASSUME NEW d \in DOMAIN docs, DocOk(docs[d]), docs[d].at \in {"variant", "level"}
    PROVE  /\ Pos(d) = Len(docs[d].moves) + 1 /\ Pos(d) \in DOMAIN docs[d].lines
           /\ NextLine(d) = docs[d].lines[Len(docs[d].moves) + 1]
           /\ NextLine(d) \in DraftLine /\ NextLine(d).v \in Variant /\ NextLine(d).qty \in Int
<1>1. docs[d].lines \in Seq(DraftLine) /\ docs[d].moves \in Seq([previous : Nat, new : Nat])
  BY DEF DocOk, Doc
<1>2. Len(docs[d].moves) < Len(docs[d].lines)
  BY DEF DocOk
<1>3. Pos(d) \in DOMAIN docs[d].lines
  BY <1>1, <1>2, SeqFacts DEF Pos
<1>4. docs[d].lines[Pos(d)] \in DraftLine
  BY <1>1, <1>3, SeqFacts
<1> QED BY <1>3, <1>4 DEF Pos, NextLine, DraftLine

\* The level a document sees is a level.
LEMMA SeesLevel ==
    ASSUME NEW d \in DOMAIN docs, DocOk(docs[d]), level \in [Variant -> Nat \cup {NoRow}],
           NEW v \in Variant
    PROVE  /\ MovedTo(d, v) = SeenBy(docs[d], v, level[v])
           /\ MovedTo(d, v) \in Nat \cup {NoRow} /\ Units(MovedTo(d, v)) \in Nat
<1>1. MovedTo(d, v) = SeenBy(docs[d], v, level[v])
  BY DEF MovedTo, SeenBy
<1>2. SeenBy(docs[d], v, level[v]) \in Nat \cup {NoRow}
  <2>1. docs[d].moves \in Seq([previous : Nat, new : Nat]) /\ docs[d] \in Doc
    BY DEF DocOk, Doc
  <2>2. CASE At(docs[d], v) = {}
    BY <2>2 DEF SeenBy, At
  <2>3. CASE At(docs[d], v) # {}
    <3>1. Max(At(docs[d], v)) \in At(docs[d], v)
      BY <2>1, <2>3, LastMove
    <3>2. Max(At(docs[d], v)) \in DOMAIN docs[d].moves
      BY <3>1 DEF At
    <3>3. docs[d].moves[Max(At(docs[d], v))] \in [previous : Nat, new : Nat]
      BY <2>1, <3>2, SeqFacts
    <3>4. SeenBy(docs[d], v, level[v]) = docs[d].moves[Max(At(docs[d], v))].new
      BY <2>3 DEF SeenBy, At
    <3> QED BY <3>3, <3>4
  <2> QED BY <2>2, <2>3
<1> QED BY <1>1, <1>2 DEF Units, NoRow

\* Every step of a document is one of them; all but a commit leave the rest alone.
Works(d, m) ==
    /\ Turn(d, m)
    /\ \/ /\ UnchangedButDocs
          /\ \/ Locks(d, m)
             \/ \E move : Moves(d, m, move)
             \/ Fails(d, m)
       \/ Ends(d, m) /\ Commit(d)

LEMMA RollBackIs ==
    ASSUME NEW d \in DOMAIN docs, docs \in Seq(Doc), Running(d), RollBack(d), UnchangedButDocs
    PROVE  \E m : Works(d, m)
<1> DEFINE m == [docs[d] EXCEPT !.at = "failed", !.held = {}]
<1>1. docs[d] \in Doc
  BY SeqFacts
<1>2. m \in Doc /\ Same(docs[d], m)
  BY <1>1 DEF Doc, Same
<1>3. docs' = [docs EXCEPT ![d] = m]
  BY DEF RollBack
<1>4. Fails(d, m)
  BY <1>1 DEF Fails, Doc
<1> QED BY <1>2, <1>3, <1>4 DEF Works, Turn

LEMMA WorkIs ==
    ASSUME docs \in Seq(Doc), NEW d \in DOMAIN docs, DocOk(docs[d]), Work(d),
           level \in [Variant -> Nat \cup {NoRow}]
    PROVE  \E m : Works(d, m)
<1>1. docs[d] \in Doc /\ docs[d].lines \in Seq(DraftLine)
      /\ docs[d].moves \in Seq([previous : Nat, new : Nat])
  BY DEF DocOk, Doc
<1>2. CASE LockVariant(d)
  <2> DEFINE m == [docs[d] EXCEPT !.held = @ \cup {NextLine(d).v}, !.at = "level"]
  <2>1. NextLine(d).v \in Variant
    BY <1>2, NextLineOk DEF LockVariant
  <2>2. m \in Doc /\ Same(docs[d], m)
    BY <1>1, <2>1 DEF Doc, Same
  <2>3. docs' = [docs EXCEPT ![d] = m]
    BY <1>2 DEF LockVariant
  <2>4. Locks(d, m)
    BY <1>1, <1>2 DEF Locks, LockVariant, Doc
  <2>5. UnchangedButDocs
    BY <1>2 DEF LockVariant
  <2> QED BY <2>2, <2>3, <2>4, <2>5 DEF Works, Turn
<1>3. CASE MoveStock(d)
  <2>1. docs[d].at = "level" /\ UnchangedButDocs
    BY <1>3 DEF MoveStock
  <2>2. PICK previous, new : /\ previous = Units(MovedTo(d, NextLine(d).v))
                             /\ new = previous + NextLine(d).qty
    OBVIOUS
  <2>3. previous \in Nat /\ new \in Int /\ NextLine(d).v \in Variant
    BY <2>1, <2>2, NextLineOk, SeesLevel
  <2>4. CASE new < 0
    <3>1. RollBack(d) /\ Running(d)
      BY <1>3, <2>1, <2>2, <2>4 DEF MoveStock, Running
    <3> QED BY <2>1, <3>1, RollBackIs
  <2>5. CASE ~(new < 0)
    <3> DEFINE move == [previous |-> previous, new |-> new]
               m == [docs[d] EXCEPT !.held = @ \cup LevelLocks(d), !.at = AfterLine(d),
                                    !.moves = Append(@, move)]
    <3>1. move \in [previous : Nat, new : Nat]
      BY <2>3, <2>5
    <3>2. AfterLine(d) \in {"variant", "commit"} /\ LevelLocks(d) \subseteq Variant \cup {Location}
      BY <2>3 DEF AfterLine, LevelLocks
    <3>3. Append(docs[d].moves, move) \in Seq([previous : Nat, new : Nat])
      BY <1>1, <3>1, SeqFacts
    <3> HIDE DEF move
    <3>4. m \in Doc /\ Same(docs[d], m)
      BY <1>1, <3>2, <3>3 DEF Doc, Same
    <3>5. /\ docs' = [docs EXCEPT ![d].held = @ \cup LevelLocks(d), ![d].at = AfterLine(d),
                                 ![d].moves = Append(@, [previous |-> previous, new |-> new])]
          /\ LevelLocks(d) \cap HeldByOthers(d) = {}
      BY <1>3, <2>2, <2>5 DEF MoveStock
    <3>6. docs' = [docs EXCEPT ![d] = m]
      BY <3>5 DEF move
    <3>7. Moves(d, m, move)
      <4>1. /\ m.moves = Append(docs[d].moves, move) /\ m.at = AfterLine(d)
            /\ m.held = docs[d].held \cup LevelLocks(d)
        BY <1>1 DEF Doc
      <4> HIDE DEF m
      <4> QED BY <2>1, <2>2, <3>1, <3>5, <4>1 DEF Moves, move
    <3> QED BY <2>1, <3>4, <3>6, <3>7 DEF Works, Turn
  <2> QED BY <2>4, <2>5
<1>4. CASE BreakDeadlock(d)
  <2>1. Waiting(d) # {}
    BY <1>4 DEF BreakDeadlock
  <2>2. Running(d)
    BY <2>1 DEF Waiting, Running
  <2> QED BY <1>4, <2>2, RollBackIs DEF BreakDeadlock
<1>5. CASE FailDocument(d)
  BY <1>5, RollBackIs DEF FailDocument
<1>6. CASE Commit(d)
  <2> DEFINE m == [docs[d] EXCEPT !.held = {}, !.at = "recorded"]
  <2>1. m \in Doc /\ Same(docs[d], m)
    BY <1>1 DEF Doc, Same
  <2>2. docs' = [docs EXCEPT ![d] = m]
    BY <1>6 DEF Commit
  <2>3. Ends(d, m)
    BY <1>1, <1>6 DEF Ends, Commit, Doc
  <2> QED BY <1>6, <2>1, <2>2, <2>3 DEF Works, Turn
<1> QED BY <1>2, <1>3, <1>4, <1>5, <1>6 DEF Work

\* A document keeps to what it may be, and locks exclude each other.
LEMMA DocsStep ==
    ASSUME DocsOk, NEW d \in DOMAIN docs, NEW m, Works(d, m)
    PROVE  DocsOk'
<1> DEFINE k == docs[d]
<1>1. /\ k \in Doc /\ DocOk(k) /\ m \in Doc /\ Same(k, m) /\ docs \in Seq(Doc)
  BY SeqFacts DEF DocsOk, Works, Turn
<1>2. /\ k.lines \in Seq(DraftLine) /\ k.moves \in Seq([previous : Nat, new : Nat])
      /\ k.held \subseteq Variant \cup {Location}
  BY <1>1 DEF Doc
<1>3. /\ DOMAIN k.lines = 1..Len(k.lines) /\ Len(k.lines) \in Nat
      /\ DOMAIN k.moves = 1..Len(k.moves) /\ Len(k.moves) \in Nat
  BY <1>2, SeqFacts
<1>4. /\ docs' \in Seq(Doc) /\ DOMAIN docs' = DOMAIN docs /\ docs'[d] = m
      /\ \A e \in DOMAIN docs \ {d} : docs'[e] = docs[e]
  BY <1>1, Turned DEF Works
<1>5. DocOk(m) /\ \A h \in m.held : h \in k.held \/ h \notin HeldByOthers(d)
  <2>1. CASE Locks(d, m)
    <3>1. m.lines[Len(m.moves) + 1].v \in m.held
      BY <1>1, <2>1, NextLineOk DEF Locks, Same
    <3>2. \A h \in m.held : h \in k.held \/ h \notin HeldByOthers(d)
      BY <2>1 DEF Locks
    <3> QED BY <1>1, <1>2, <1>3, <2>1, <3>1, <3>2 DEF Locks, DocOk, Same
  <2>2. ASSUME NEW move, Moves(d, m, move) PROVE DocOk(m) /\ \A h \in m.held : h \in k.held \/ h \notin HeldByOthers(d)
    <3>1. /\ Len(m.moves) = Len(k.moves) + 1 /\ DOMAIN m.moves = DOMAIN k.moves \cup {Len(k.moves) + 1}
          /\ m.moves[Len(k.moves) + 1] = move
          /\ \A i \in DOMAIN k.moves : m.moves[i] = k.moves[i]
      BY <1>2, <2>2, SeqFacts DEF Moves
    <3>2. /\ k.at = "level" /\ Len(k.moves) < Len(k.lines)
          /\ k.lines[Len(k.moves) + 1].v \in k.held
      BY <1>1, <2>2 DEF Moves, DocOk
    <3>3. /\ NextLine(d) = k.lines[Len(k.moves) + 1] /\ Pos(d) = Len(k.moves) + 1
      BY <1>1, <3>2, NextLineOk
    <3>4. move.new = move.previous + k.lines[Len(k.moves) + 1].qty
      BY <2>2, <3>3 DEF Moves
    <3>5. /\ m.held = k.held \cup LevelLocks(d) /\ \A h \in LevelLocks(d) : h \notin HeldByOthers(d)
          /\ m.at = AfterLine(d)
      BY <2>2 DEF Moves
    <3>6. /\ m.at \in {"variant", "commit"}
          /\ m.at = "variant" <=> Len(m.moves) < Len(m.lines)
      BY <1>1, <3>1, <3>3, <3>5 DEF AfterLine, Same
    <3>7. \A i \in DOMAIN m.moves : /\ m.moves[i].new = m.moves[i].previous + m.lines[i].qty
                                    /\ m.lines[i].v \in m.held
      <4> SUFFICES ASSUME NEW i \in DOMAIN m.moves
                   PROVE  m.moves[i].new = m.moves[i].previous + m.lines[i].qty /\ m.lines[i].v \in m.held
        OBVIOUS
      <4>1. CASE i \in DOMAIN k.moves
        BY <1>1, <3>1, <3>2, <3>5, <4>1 DEF DocOk, Same
      <4>2. CASE i = Len(k.moves) + 1
        BY <1>1, <3>1, <3>2, <3>4, <3>5, <4>2 DEF Same
      <4> QED BY <3>1, <4>1, <4>2
    <3>8. Len(m.moves) <= Len(m.lines)
      BY <1>1, <1>3, <3>1, <3>2 DEF Same
    <3>9. Len(m.moves) < Len(m.lines) \/ Len(m.moves) = Len(m.lines)
      BY <1>1, <1>3, <3>1, <3>8 DEF Same
    <3>10. m.lines # <<>> /\ (m.draft # 0 => Honest(m.kind, m.lines))
      BY <1>1 DEF DocOk, Same
    <3>11. DocOk(m)
      BY <1>1, <3>6, <3>7, <3>8, <3>9, <3>10 DEF DocOk
    <3> QED BY <3>5, <3>11
  <2>3. CASE Fails(d, m)
    BY <1>1, <2>3 DEF Fails, DocOk, Same
  <2>4. CASE Ends(d, m)
    BY <1>1, <2>4 DEF Ends, DocOk, Same
  <2> QED BY <2>1, <2>2, <2>3, <2>4 DEF Works
<1>6. ASSUME NEW e \in DOMAIN docs, e # d PROVE m.held \cap docs[e].held = {}
  <2>1. k.held \cap docs[e].held = {}
    BY <1>6 DEF DocsOk
  <2>2. docs[e].held \subseteq HeldByOthers(d)
    BY <1>6 DEF HeldByOthers
  <2> QED BY <1>5, <2>1, <2>2
<1>7. \A e, f \in DOMAIN docs' : e # f => docs'[e].held \cap docs'[f].held = {}
  BY <1>4, <1>6 DEF DocsOk
<1>8. \A e \in DOMAIN docs' : DocOk(docs'[e])
  BY <1>4, <1>5 DEF DocsOk
<1> QED BY <1>4, <1>7, <1>8 DEF DocsOk

\* A document that is submitted has nothing done.
LEMMA DocsGrow ==
    ASSUME DocsOk, NEW from \in Nat, NEW kind \in DocKinds,
           NEW lines \in Seq(DraftLine), lines # <<>>, from # 0 => Honest(kind, lines),
           NewDoc(from, kind, lines)
    PROVE  /\ DocsOk' /\ Len(docs') = Len(docs) + 1
           /\ DOMAIN docs' = DOMAIN docs \cup {Len(docs) + 1} /\ Len(docs) + 1 \notin DOMAIN docs
           /\ \A d \in DOMAIN docs : docs'[d] = docs[d]
           /\ docs'[Len(docs) + 1]
                = [draft |-> from, kind |-> kind, lines |-> lines,
                   at |-> "variant", moves |-> <<>>, held |-> {}]
<1>1. PICK k : k = [draft |-> from, kind |-> kind, lines |-> lines,
                    at |-> "variant", moves |-> <<>>, held |-> {}]
  OBVIOUS
<1>2. <<>> \in Seq([previous : Nat, new : Nat]) /\ Len(lines) \in Nat /\ Len(lines) # 0
  OBVIOUS
<1>3. k \in Doc
  BY <1>1, <1>2 DEF Doc
<1>4. DocOk(k)
  <2>1. /\ k.moves = <<>> /\ k.lines = lines /\ k.at = "variant" /\ k.draft = from /\ k.kind = kind
    BY <1>1
  <2>2. DOMAIN k.moves = {} /\ Len(k.moves) = 0
    BY <2>1
  <2> QED BY <1>2, <1>3, <2>1, <2>2 DEF DocOk
<1>5. /\ docs' = Append(docs, k) /\ docs \in Seq(Doc)
  BY <1>1 DEF NewDoc, DocsOk
<1>6. /\ docs' \in Seq(Doc) /\ Len(docs') = Len(docs) + 1
      /\ DOMAIN docs' = DOMAIN docs \cup {Len(docs) + 1} /\ docs'[Len(docs) + 1] = k
      /\ \A d \in DOMAIN docs : docs'[d] = docs[d]
      /\ Len(docs) + 1 \notin DOMAIN docs
  BY <1>3, <1>5, SeqFacts
<1>7. k.held = {}
  BY <1>1
<1>8. \A d \in DOMAIN docs' : DocOk(docs'[d])
  BY <1>4, <1>6 DEF DocsOk
<1>9. \A d, e \in DOMAIN docs' : d # e => docs'[d].held \cap docs'[e].held = {}
  BY <1>6, <1>7 DEF DocsOk
<1>10. DocsOk'
  BY <1>6, <1>8, <1>9 DEF DocsOk
<1> QED BY <1>1, <1>6, <1>10
-----------------------------------------------------------------------------
(* The draft of the page *)

\* An edit starts a draft, or makes other lines of it.
Starts == draft = NoDraft /\ \E kind \in DocKinds : Create(kind, timer)

Edits == \E lines \in Seq(DraftLine) :
    draft.kind \in DocKinds /\ Honest(draft.kind, lines) /\ SetLines(lines)

LEMMA AddedLine ==
    ASSUME DraftOk, draft.kind \in DocKinds, NEW v \in Variant, NEW qty \in Int, NEW count \in Int,
           NEW seen \in Int, draft.kind = "adjustment" => count = seen + qty,
           AddLine(v, qty, count, seen)
    PROVE  Edits
<1>1. draft.lines \in Seq(DraftLine) /\ Honest(draft.kind, draft.lines)
  BY DEF DraftOk
<1>2. /\ DOMAIN draft.lines = 1..Len(draft.lines) /\ Len(draft.lines) \in Nat
      /\ \A i \in DOMAIN draft.lines : draft.lines[i] \in DraftLine
  BY <1>1, SeqFacts
<1>3. CASE LineOf(v) = {}
  <2> DEFINE line == [v |-> v, qty |-> qty, count |-> count, seen |-> seen, times |-> 1]
             lines == Append(draft.lines, line)
  <2>1. line \in DraftLine
    BY DEF DraftLine
  <2>2. /\ lines \in Seq(DraftLine) /\ DOMAIN lines = DOMAIN draft.lines \cup {Len(draft.lines) + 1}
        /\ lines[Len(draft.lines) + 1] = line
        /\ \A i \in DOMAIN draft.lines : lines[i] = draft.lines[i]
    BY <1>1, <2>1, SeqFacts
  <2>3. SetLines(lines)
    BY <1>3 DEF AddLine
  <2> HIDE DEF lines
  <2>4. Honest(draft.kind, lines)
    BY <1>1, <2>2 DEF Honest
  <2> QED BY <2>2, <2>3, <2>4 DEF Edits
<1>4. CASE LineOf(v) # {}
  <2> DEFINE more(i) == [draft.lines[i] EXCEPT !.qty = @ + qty, !.times = @ + 1]
             lines == [i \in DOMAIN draft.lines |-> IF draft.lines[i].v = v THEN more(i)
                                                    ELSE draft.lines[i]]
  <2>1. \A i \in DOMAIN draft.lines : more(i) \in DraftLine /\ more(i).times = draft.lines[i].times + 1
    <3> SUFFICES ASSUME NEW i \in DOMAIN draft.lines
                 PROVE  more(i) \in DraftLine /\ more(i).times = draft.lines[i].times + 1
      OBVIOUS
    <3>1. PICK l \in DraftLine : l = draft.lines[i]
      BY <1>2
    <3>2. l.qty + qty \in Int /\ l.times + 1 \in Nat
      BY DEF DraftLine
    <3>3. PICK q \in Int, n \in Nat : q = l.qty + qty /\ n = l.times + 1
      BY <3>2
    <3>4. more(i) = [l EXCEPT !.qty = q, !.times = n]
      BY <3>1, <3>3
    <3>5. [l EXCEPT !.qty = q, !.times = n] \in DraftLine
          /\ [l EXCEPT !.qty = q, !.times = n].times = n
      BY DEF DraftLine
    <3> QED BY <3>1, <3>3, <3>4, <3>5
  <2>2. \A i \in DOMAIN draft.lines : draft.lines[i].times \in Nat /\ draft.lines[i].times >= 1
    BY <1>1, <1>2 DEF Honest, DraftLine
  <2>3. SetLines(lines)
    BY <1>4 DEF AddLine
  <2> HIDE DEF more
  <2>4. lines \in Seq(DraftLine) /\ DOMAIN lines = DOMAIN draft.lines
    BY <1>2, <2>1
  <2>5. \A i \in DOMAIN lines : \/ lines[i] = draft.lines[i]
                                \/ lines[i].times = draft.lines[i].times + 1
    BY <2>1
  <2> HIDE DEF lines
  <2>6. Honest(draft.kind, lines)
    BY <1>1, <2>2, <2>4, <2>5 DEF Honest
  <2> QED BY <2>3, <2>4, <2>6 DEF Edits
<1> QED BY <1>3, <1>4

LEMMA EditIs ==
    ASSUME DraftOk, level \in [Variant -> Nat \cup {NoRow}], Edit
    PROVE  (Starts \/ Edits) /\ UNCHANGED <<loading, timer, gaveUp>>
<1>1. draft.lines \in Seq(DraftLine) /\ Honest(draft.kind, draft.lines)
      /\ (draft.lines # <<>> => draft.kind \in DocKinds)
  BY DEF DraftOk, NoDraft
<1>2. /\ DOMAIN draft.lines = 1..Len(draft.lines) /\ Len(draft.lines) \in Nat
      /\ \A i \in DOMAIN draft.lines : draft.lines[i] \in DraftLine
  BY <1>1, SeqFacts
<1>3. UNCHANGED <<loading, timer, gaveUp>>
  BY DEF Edit, NewDraft, AddPurchased, AddCounted, RemoveLine, SetQuantity, SetChange, AddLine, SetLines
<1>4. ASSUME NEW kind \in DocKinds, NewDraft(kind) PROVE Starts
  BY <1>4 DEF NewDraft, Starts
<1>5. ASSUME NEW v \in Variant, NEW q \in 1..MaxQty, AddPurchased(v, q) PROVE Edits
  <2>1. draft.kind = "purchase" /\ AddLine(v, q, 0, 0)
    BY <1>5 DEF AddPurchased
  <2>2. q \in Int /\ draft.kind \in DocKinds /\ draft.kind # "adjustment"
    BY <2>1 DEF DocKinds
  <2> QED BY <2>1, <2>2, AddedLine
<1>6. ASSUME NEW v \in Counted, NEW c \in 0..MaxQty, AddCounted(v, c, Units(level[v])) PROVE Edits
  <2>1. v \in Variant
    BY StockAssumption
  <2>2. Units(level[v]) \in Int /\ c \in Int
    BY <2>1 DEF Units, NoRow
  <2>3. PICK stock \in Int : stock = Units(level[v])
    BY <2>2
  <2>4. draft.kind = "adjustment" /\ AddLine(v, c - stock, c, stock)
    BY <1>6, <2>3 DEF AddCounted
  <2>5. c - stock \in Int /\ c = stock + (c - stock) /\ draft.kind \in DocKinds
    BY <2>2, <2>4 DEF DocKinds
  <2> QED BY <2>1, <2>2, <2>4, <2>5, AddedLine
<1>7. ASSUME NEW i \in DOMAIN draft.lines, RemoveLine(i) PROVE Edits
  <2> DEFINE s == SubSeq(draft.lines, 1, i - 1)
             t == SubSeq(draft.lines, i + 1, Len(draft.lines))
             lines == s \o t
  <2>1. i \in 1..Len(draft.lines) /\ i \in Int /\ draft.kind \in DocKinds
    BY <1>1, <1>2
  <2>2. /\ s \in Seq(DraftLine) /\ Len(s) = i - 1
        /\ \A j \in 1..(i - 1) : s[j] = draft.lines[j]
    <3>1. /\ s \in Seq(DraftLine) /\ Len(s) = IF 1 <= i - 1 THEN i - 1 - 1 + 1 ELSE 0
          /\ \A j \in 1..(i - 1 - 1 + 1) : s[j] = draft.lines[1 + j - 1]
      <4>1. 1 \in Int /\ i - 1 \in Int /\ \A j \in 1..(i - 1) : draft.lines[j] \in DraftLine
        BY <1>2, <2>1
      <4> QED BY <4>1, SubSeqProperties
    <3> HIDE DEF s
    <3> QED BY <2>1, <3>1
  <2>3. /\ t \in Seq(DraftLine) /\ Len(t) = Len(draft.lines) - i
        /\ \A j \in 1..(Len(draft.lines) - i) : t[j] = draft.lines[i + j]
    <3>1. /\ t \in Seq(DraftLine)
          /\ Len(t) = IF i + 1 <= Len(draft.lines) THEN Len(draft.lines) - (i + 1) + 1 ELSE 0
          /\ \A j \in 1..(Len(draft.lines) - (i + 1) + 1) : t[j] = draft.lines[i + 1 + j - 1]
      BY <1>2, <2>1, SubSeqProperties
    <3> HIDE DEF t
    <3> QED BY <1>2, <2>1, <3>1
  <2> HIDE DEF s, t
  <2>4. /\ lines \in Seq(DraftLine) /\ Len(lines) = Len(draft.lines) - 1
        /\ \A j \in 1..(Len(draft.lines) - 1) : lines[j] = IF j <= i - 1 THEN s[j] ELSE t[j - (i - 1)]
    <3>1. /\ lines \in Seq(DraftLine) /\ Len(lines) = Len(s) + Len(t)
          /\ \A j \in 1..(Len(s) + Len(t)) : lines[j] = IF j <= Len(s) THEN s[j] ELSE t[j - Len(s)]
      BY <2>2, <2>3, ConcatProperties
    <3>2. Len(s) + Len(t) = Len(draft.lines) - 1
      BY <1>2, <2>1, <2>2, <2>3
    <3> HIDE DEF lines
    <3> QED BY <2>2, <3>1, <3>2
  <2>5. SetLines(lines)
    BY <1>7 DEF RemoveLine, s, t
  <2> HIDE DEF lines
  <2>6. \A j \in DOMAIN lines : \E l \in DOMAIN draft.lines : lines[j] = draft.lines[l]
    <3> SUFFICES ASSUME NEW j \in 1..(Len(draft.lines) - 1)
                 PROVE  \E l \in DOMAIN draft.lines : lines[j] = draft.lines[l]
      BY <2>4, SeqFacts
    <3>1. CASE j <= i - 1
      <4>1. j \in 1..(i - 1) /\ j \in DOMAIN draft.lines
        BY <1>2, <2>1, <3>1
      <4> QED BY <2>2, <2>4, <3>1, <4>1
    <3>2. CASE ~(j <= i - 1)
      <4>1. /\ j - (i - 1) \in 1..(Len(draft.lines) - i) /\ i + (j - (i - 1)) = j + 1
            /\ j + 1 \in DOMAIN draft.lines
        BY <1>2, <2>1, <3>2
      <4> QED BY <2>3, <2>4, <3>2, <4>1
    <3> QED BY <3>1, <3>2
  <2>7. Honest(draft.kind, lines)
    BY <1>1, <2>6 DEF Honest
  <2> QED BY <2>1, <2>4, <2>5, <2>7 DEF Edits
<1>8. ASSUME NEW i \in DOMAIN draft.lines, NEW q \in 1..MaxQty, SetQuantity(i, q) PROVE Edits
  <2> DEFINE line == [draft.lines[i] EXCEPT !.qty = q]
             lines == [draft.lines EXCEPT ![i] = line]
  <2>1. line \in DraftLine /\ line.times = draft.lines[i].times
    <3>1. PICK l \in DraftLine : l = draft.lines[i]
      BY <1>2
    <3> QED BY <3>1 DEF DraftLine
  <2>2. SetLines(lines) /\ draft.kind = "purchase"
    BY <1>8 DEF SetQuantity
  <2> HIDE DEF line
  <2>3. lines \in Seq(DraftLine) /\ DOMAIN lines = DOMAIN draft.lines
    BY <1>1, <2>1, SeqFacts
  <2>4. \A j \in DOMAIN lines : lines[j].times = draft.lines[j].times
    BY <1>1, <2>1, <2>3
  <2> HIDE DEF lines
  <2>5. Honest(draft.kind, lines)
    BY <1>1, <2>2, <2>3, <2>4 DEF Honest
  <2> QED BY <2>2, <2>3, <2>5 DEF Edits, DocKinds
<1>9. ASSUME NEW i \in DOMAIN draft.lines, SetChange(i, -1) PROVE Edits
  <2> DEFINE line == [draft.lines[i] EXCEPT !.qty = -1, !.count = draft.lines[i].seen + (-1),
                                            !.times = 1]
             lines == [draft.lines EXCEPT ![i] = line]
  <2>1. /\ line \in DraftLine /\ line.times = 1 /\ line.count = line.seen + line.qty
    <3>1. PICK l \in DraftLine : l = draft.lines[i]
      BY <1>2
    <3>2. l.seen + (-1) \in Int /\ l.seen \in Int
      BY DEF DraftLine
    <3>3. PICK c \in Int, q \in Int : c = l.seen + (-1) /\ q = -1
      BY <3>2
    <3>4. line = [l EXCEPT !.qty = q, !.count = c, !.times = 1]
      BY <3>1, <3>3
    <3>5. /\ [l EXCEPT !.qty = q, !.count = c, !.times = 1] \in DraftLine
          /\ [l EXCEPT !.qty = q, !.count = c, !.times = 1].times = 1
          /\ [l EXCEPT !.qty = q, !.count = c, !.times = 1].qty = q
          /\ [l EXCEPT !.qty = q, !.count = c, !.times = 1].count = c
          /\ [l EXCEPT !.qty = q, !.count = c, !.times = 1].seen = l.seen
      BY DEF DraftLine
    <3> HIDE DEF line
    <3> QED BY <3>2, <3>3, <3>4, <3>5
  <2>2. SetLines(lines) /\ draft.kind = "adjustment"
    BY <1>9 DEF SetChange
  <2> HIDE DEF line
  <2>3. lines \in Seq(DraftLine) /\ DOMAIN lines = DOMAIN draft.lines
    BY <1>1, <2>1, SeqFacts
  <2>4. \A j \in DOMAIN lines : lines[j] = line \/ lines[j] = draft.lines[j]
    BY <1>1, <2>1, <2>3
  <2> HIDE DEF lines
  <2>5. Honest(draft.kind, lines)
    BY <1>1, <2>1, <2>3, <2>4 DEF Honest
  <2> QED BY <2>2, <2>3, <2>5 DEF Edits, DocKinds
<1> QED BY <1>3, <1>4, <1>5, <1>6, <1>7, <1>8, <1>9 DEF Edit

\* A draft that is begun is well formed.
LEMMA Created ==
    ASSUME DraftOk, NEW kind \in DocKinds, NEW h, Create(kind, h),
           loading' \in Nat, timer' \in BOOLEAN
    PROVE  DraftOk'
<1>1. PICK n \in Nat : n = drafts + 1 /\ n \in 1..n
  BY DEF DraftOk
<1>2. draft' = [kind |-> kind, lines |-> <<>>, n |-> n] /\ drafts' = n
  BY <1>1 DEF Create
<1>3. /\ draft' \in [kind : DocKinds \cup {"none"}, lines : Seq(DraftLine), n : Nat]
      /\ draft'.kind = kind /\ draft'.lines = <<>> /\ draft'.n = n
  <2>1. <<>> \in Seq(DraftLine)
    OBVIOUS
  <2> QED BY <1>2, <2>1
<1>4. Honest(draft'.kind, draft'.lines)
  BY <1>3 DEF Honest
<1>5. hasty' \subseteq 1..drafts'
  BY <1>1, <1>2 DEF Create, DraftOk
<1> QED BY <1>1, <1>2, <1>3, <1>4, <1>5 DEF DraftOk

\* The draft stays well formed.
LEMMA DraftStep ==
    ASSUME DraftOk, DocsOk, LevelOk, Next
    PROVE  DraftOk'
<1>1. CASE MayEdit /\ Edit /\ UNCHANGED stockVars
  <2>1. (Starts \/ Edits) /\ UNCHANGED <<loading, timer>>
    BY <1>1, EditIs DEF LevelOk
  <2>2. loading' \in Nat /\ timer' \in BOOLEAN
    BY <2>1 DEF DraftOk
  <2>3. CASE Starts
    BY <2>2, <2>3, Created DEF Starts
  <2>4. CASE Edits
    <3>1. PICK lines \in Seq(DraftLine) :
              draft.kind \in DocKinds /\ Honest(draft.kind, lines) /\ SetLines(lines)
      BY <2>4 DEF Edits
    <3>2. draft.n \in 1..drafts
      BY <3>1 DEF DraftOk, NoDraft, DocKinds
    <3>3. /\ draft' \in [kind : DocKinds \cup {"none"}, lines : Seq(DraftLine), n : Nat]
          /\ draft'.kind = draft.kind /\ draft'.lines = lines /\ draft'.n = draft.n
          /\ drafts' = drafts /\ hasty' \subseteq hasty \cup {draft.n}
      BY <3>1 DEF SetLines, DraftOk
    <3> QED BY <2>2, <3>1, <3>2, <3>3 DEF DraftOk
  <2> QED BY <2>1, <2>3, <2>4
<1>2. CASE (LoseAnswer \/ Reload) /\ UNCHANGED stockVars
  <2>1. loading' = 0 /\ timer' \in {timer, FALSE} /\ UNCHANGED <<draft, drafts, hasty>>
    BY <1>2 DEF LoseAnswer, Reload
  <2> QED BY <2>1 DEF DraftOk
<1>3. CASE TimerFires
  <2>1. loading' \in Nat /\ timer' \in BOOLEAN
    BY <1>3 DEF TimerFires, DraftOk
  <2>2. CASE UNCHANGED <<draft, drafts, hasty>>
    BY <2>1, <2>2 DEF DraftOk
  <2>3. CASE Create("adjustment", loading # 0)
    BY <2>1, <2>3, Created DEF DocKinds
  <2> QED BY <1>3, <2>2, <2>3 DEF TimerFires
<1>4. CASE SubmitDraft
  <2>1. Len(docs) \in Nat
    BY DEF DocsOk
  <2> QED BY <1>4, <2>1 DEF SubmitDraft, Submit, DraftOk
<1>5. CASE Hear
  <2>1. CASE HearFailed
    BY <2>1 DEF HearFailed, DraftOk
  <2>2. CASE HearRecorded(docs[loading].kind)
    <3>1. /\ draft' = NoDraft /\ loading' = 0 /\ drafts' = drafts /\ hasty' = hasty
          /\ timer' \in BOOLEAN
      BY <2>2 DEF HearRecorded, DraftOk
    <3>2. /\ NoDraft \in [kind : DocKinds \cup {"none"}, lines : Seq(DraftLine), n : Nat]
          /\ NoDraft.lines = <<>> /\ DOMAIN <<>> = {}
      BY DEF NoDraft
    <3>3. Honest(NoDraft.kind, NoDraft.lines)
      BY <3>2 DEF Honest
    <3> QED BY <3>1, <3>2, <3>3 DEF DraftOk
  <2> QED BY <1>5, <2>1, <2>2 DEF Hear
<1>6. CASE UNCHANGED draftVars
  BY <1>6 DEF draftVars, DraftOk
<1> QED
  BY <1>1, <1>2, <1>3, <1>4, <1>5, <1>6
  DEF Next, SubmitElsewhere, SaleReads, SaleWrites, Work, LockVariant, MoveStock, BreakDeadlock,
      FailDocument, Commit, UnchangedButDocs

\* What is asked of a document the page submits.
LEMMA DraftSubmitted ==
    ASSUME DraftOk, SubmitDraft
    PROVE  /\ draft.n \in 1..drafts /\ draft.kind \in DocKinds
           /\ draft.lines \in Seq(DraftLine) /\ draft.lines # <<>> /\ Honest(draft.kind, draft.lines)
  BY DEF SubmitDraft, Submit, Submittable, ValidLines, DraftOk, NoDraft

\* How a step changes the documents: not, by one more, or by a step of one.
Submits == \/ SubmitDraft
           \/ \E kind \in DocKinds, lines \in Elsewhere : SubmitElsewhere(kind, lines)

\* The documents after one more was submitted.
Grown(from) ==
    /\ Len(docs') = Len(docs) + 1
    /\ DOMAIN docs' = DOMAIN docs \cup {Len(docs) + 1} /\ Len(docs) + 1 \notin DOMAIN docs
    /\ \A d \in DOMAIN docs : docs'[d] = docs[d]
    /\ LET k == docs'[Len(docs) + 1]
       IN  k.at = "variant" /\ k.moves = <<>> /\ k.draft = from
    /\ UNCHANGED <<level, sale, sold, lost>>

LEMMA Submitted ==
    ASSUME DraftOk, DocsOk, Submits
    PROVE  /\ DocsOk'
           /\ \/ SubmitDraft /\ Grown(draft.n)
              \/ UNCHANGED draftVars /\ Grown(0)
<1>0. ASSUME NEW from \in Nat, NEW kind \in DocKinds,
             NEW lines \in Seq(DraftLine), lines # <<>>, from # 0 => Honest(kind, lines),
             NewDoc(from, kind, lines),
             UNCHANGED <<level, sale, sold, lost>>
      PROVE  DocsOk' /\ Grown(from)
  <2>1. /\ DocsOk' /\ Len(docs') = Len(docs) + 1
        /\ DOMAIN docs' = DOMAIN docs \cup {Len(docs) + 1} /\ Len(docs) + 1 \notin DOMAIN docs
        /\ \A d \in DOMAIN docs : docs'[d] = docs[d]
        /\ docs'[Len(docs) + 1]
             = [draft |-> from, kind |-> kind, lines |-> lines,
                at |-> "variant", moves |-> <<>>, held |-> {}]
    BY <1>0, DocsGrow
  <2>2. /\ docs'[Len(docs) + 1].at = "variant" /\ docs'[Len(docs) + 1].moves = <<>>
        /\ docs'[Len(docs) + 1].draft = from
    BY <2>1
  <2> QED BY <1>0, <2>1, <2>2 DEF Grown
<1>1. CASE SubmitDraft
  <2>1. /\ draft.n \in Nat /\ draft.kind \in DocKinds
        /\ draft.lines \in Seq(DraftLine) /\ draft.lines # <<>> /\ Honest(draft.kind, draft.lines)
    BY <1>1, DraftSubmitted
  <2>2. NewDoc(draft.n, draft.kind, draft.lines)
        /\ UNCHANGED <<level, sale, sold, lost>>
    BY <1>1 DEF SubmitDraft
  <2> QED BY <1>0, <1>1, <2>1, <2>2
<1>2. CASE ~SubmitDraft
  <2>1. PICK kind \in DocKinds, lines \in Elsewhere : SubmitElsewhere(kind, lines)
    BY <1>2 DEF Submits
  <2>2. lines \in Seq(DraftLine) /\ lines # <<>>
    BY <2>1, StockAssumption DEF SubmitElsewhere, ValidLines
  <2>3. NewDoc(0, kind, lines) /\ UNCHANGED draftVars
        /\ UNCHANGED <<level, sale, sold, lost>>
    BY <2>1 DEF SubmitElsewhere
  <2> QED BY <1>0, <2>2, <2>3
<1> QED BY <1>1, <1>2

\* The documents stay well formed.
LEMMA DocsNext ==
    ASSUME DraftOk, DocsOk, LevelOk, Next
    PROVE  DocsOk'
<1>1. CASE Submits
  BY <1>1, Submitted
<1>2. ASSUME NEW d \in DOMAIN docs, Work(d) PROVE DocsOk'
  <2>1. PICK m : Works(d, m)
    BY <1>2, WorkIs DEF DocsOk, LevelOk
  <2> QED BY <2>1, DocsStep
<1>3. CASE UNCHANGED docs
  BY <1>3 DEF DocsOk
<1> QED
  BY <1>1, <1>2, <1>3 DEF Next, Submits, Hear, SaleReads, SaleWrites, stockVars
-----------------------------------------------------------------------------
(* What recorded documents did to a variant *)

\* The recorded ones of a sequence of documents, and their sum.
Done(D) == {d \in DOMAIN D : D[d].at = "recorded"}
MovedBy(D, v) == SumAt([d \in DOMAIN D |-> Change(D[d].lines, v)], Done(D))

\* What lines ask of a variant is a number.
LEMMA ChangeInt ==
    ASSUME NEW lines \in Seq(DraftLine), NEW v
    PROVE  Change(lines, v) \in Int
<1> DEFINE f == [i \in DOMAIN lines |-> lines[i].qty]
           S == {i \in DOMAIN lines : lines[i].v = v}
<1>1. IsFiniteSet(S)
  BY SeqFacts, FS_Subset
<1>2. \A i \in S : f[i] \in Int
  <2>1. \A i \in DOMAIN lines : lines[i] \in DraftLine
    BY SeqFacts
  <2> QED BY <2>1 DEF DraftLine
<1> HIDE DEF f, S
<1>3. SumAt(f, S) \in Int
  BY <1>1, <1>2, SumAtIs
<1> QED BY <1>3 DEF Change, f, S

\* The sum over documents, as a sum over a set.
LEMMA MovedByIs ==
    ASSUME NEW D \in Seq(Doc), NEW v
    PROVE  /\ IsFiniteSet(Done(D)) /\ Done(D) \subseteq DOMAIN D
           /\ MovedBy(D, v) = SumOver([d \in DOMAIN D |-> Change(D[d].lines, v)], Done(D))
           /\ MovedBy(D, v) \in Int
           /\ \A d \in DOMAIN D : Change(D[d].lines, v) \in Int
<1>1. IsFiniteSet(Done(D)) /\ Done(D) \subseteq DOMAIN D
  BY SeqFacts, FS_Subset DEF Done
<1>2. ASSUME NEW d \in DOMAIN D PROVE Change(D[d].lines, v) \in Int
  <2>1. D[d] \in Doc
    BY SeqFacts
  <2>2. D[d].lines \in Seq(DraftLine)
    BY <2>1 DEF Doc
  <2> QED BY <2>2, ChangeInt
<1> DEFINE f == [d \in DOMAIN D |-> Change(D[d].lines, v)]
<1>3. \A d \in Done(D) : f[d] \in Int
  BY <1>1, <1>2
<1> HIDE DEF f
<1>4. SumAt(f, Done(D)) = SumOver(f, Done(D)) /\ SumAt(f, Done(D)) \in Int
  BY <1>1, <1>3, SumAtIs
<1> QED BY <1>1, <1>2, <1>4 DEF MovedBy, f

\* It depends on the lines of the recorded documents alone.
LEMMA MovedSame ==
    ASSUME NEW D \in Seq(Doc), NEW E \in Seq(Doc), NEW v, Done(D) = Done(E),
           \A d \in Done(D) : E[d].lines = D[d].lines
    PROVE  MovedBy(E, v) = MovedBy(D, v)
<1> DEFINE f == [d \in DOMAIN D |-> Change(D[d].lines, v)]
           g == [d \in DOMAIN E |-> Change(E[d].lines, v)]
<1>1. /\ IsFiniteSet(Done(D)) /\ Done(D) \subseteq DOMAIN D /\ Done(E) \subseteq DOMAIN E
      /\ MovedBy(D, v) = SumOver(f, Done(D)) /\ MovedBy(E, v) = SumOver(g, Done(E))
      /\ \A d \in DOMAIN D : Change(D[d].lines, v) \in Int
  BY MovedByIs
<1>2. \A d \in Done(D) : f[d] \in Int /\ g[d] = f[d]
  BY <1>1
<1> HIDE DEF f, g
<1>3. SumOver(g, Done(D)) = SumOver(f, Done(D))
  BY <1>1, <1>2, SumSame
<1> QED BY <1>1, <1>3

\* One more recorded document adds what its lines ask.
LEMMA MovedMore ==
    ASSUME NEW D \in Seq(Doc), NEW E \in Seq(Doc), NEW v, NEW d, d \notin Done(D),
           Done(E) = Done(D) \cup {d}, \A e \in Done(D) : E[e].lines = D[e].lines
    PROVE  MovedBy(E, v) = MovedBy(D, v) + Change(E[d].lines, v)
<1> DEFINE f == [e \in DOMAIN D |-> Change(D[e].lines, v)]
           g == [e \in DOMAIN E |-> Change(E[e].lines, v)]
<1>1. /\ IsFiniteSet(Done(D)) /\ Done(D) \subseteq DOMAIN D /\ Done(E) \subseteq DOMAIN E
      /\ MovedBy(D, v) = SumOver(f, Done(D)) /\ MovedBy(E, v) = SumOver(g, Done(E))
      /\ \A e \in DOMAIN D : Change(D[e].lines, v) \in Int
      /\ \A e \in DOMAIN E : Change(E[e].lines, v) \in Int
  BY MovedByIs
<1>2. /\ \A e \in Done(D) : f[e] \in Int /\ g[e] = f[e]
      /\ \A e \in Done(D) \cup {d} : g[e] \in Int
      /\ g[d] = Change(E[d].lines, v)
  BY <1>1
<1> HIDE DEF f, g
<1>3. SumOver(g, Done(D)) = SumOver(f, Done(D))
  BY <1>1, <1>2, SumSame
<1>4. SumOver(g, Done(D) \cup {d}) = SumOver(g, Done(D)) + g[d]
  <2>1. PICK S : S = Done(D)
    OBVIOUS
  <2>2. IsFiniteSet(S) /\ d \notin S /\ \A e \in S \cup {d} : g[e] \in Int
    BY <1>1, <1>2, <2>1
  <2>3. SumOver(g, S \cup {d}) = SumOver(g, S) + g[d]
    BY <2>2, SumWith
  <2> QED BY <2>1, <2>3
<1> QED BY <1>1, <1>2, <1>3, <1>4
-----------------------------------------------------------------------------
(* The stock levels *)

OnTheWay(k) == k.at \in {"variant", "level", "commit"}

\* A document sees the committed level and its own changes.
Sees(k, L) ==
    OnTheWay(k) => \A v \in Variant : Units(SeenBy(k, v, L[v])) = Units(L[v]) + SoFar(k, v)

\* Levels L are what the recorded documents of D and the sales S explain.
Explained(L, D, S, X) ==
    \A v \in Variant \ X : Units(L[v]) = Units(FirstLevel[v]) + MovedBy(D, v) - S[v]

\* Both invariants, with the state as arguments.
LEMMA LevelsAre ==
    /\ LevelOk <=> /\ level \in [Variant -> Nat \cup {NoRow}] /\ sold \in [Variant -> Nat]
                   /\ sale # NoSale => sale.v \in Variant /\ sale.read \in Nat \ {0}
                   /\ \A d \in DOMAIN docs : Sees(docs[d], level)
    /\ LevelOk' <=> /\ level' \in [Variant -> Nat \cup {NoRow}] /\ sold' \in [Variant -> Nat]
                    /\ sale' # NoSale => sale'.v \in Variant /\ sale'.read \in Nat \ {0}
                    /\ \A d \in DOMAIN docs' : Sees(docs'[d], level')
    /\ LevelExplained <=> Explained(level, docs, sold, lost)
    /\ LevelExplained' <=> Explained(level', docs', sold', lost')
<1>1. LevelOk <=> /\ level \in [Variant -> Nat \cup {NoRow}] /\ sold \in [Variant -> Nat]
                  /\ sale # NoSale => sale.v \in Variant /\ sale.read \in Nat \ {0}
                  /\ \A d \in DOMAIN docs : Sees(docs[d], level)
  BY DEF LevelOk, Sees, OnTheWay, Running
<1>2. LevelOk' <=> /\ level' \in [Variant -> Nat \cup {NoRow}] /\ sold' \in [Variant -> Nat]
                   /\ sale' # NoSale => sale'.v \in Variant /\ sale'.read \in Nat \ {0}
                   /\ \A d \in DOMAIN docs' : Sees(docs'[d], level')
  BY DEF LevelOk, Sees, OnTheWay, Running
<1>3. LevelExplained <=> Explained(level, docs, sold, lost)
  BY DEF LevelExplained, Explained, Moved, MovedBy, Done, Recorded
<1>4. LevelExplained' <=> Explained(level', docs', sold', lost')
  BY DEF LevelExplained, Explained, Moved, MovedBy, Done, Recorded
<1> QED BY <1>1, <1>2, <1>3, <1>4

\* A document that has not moved a variant sees the committed level of it.
LEMMA NotMoved ==
    ASSUME NEW k \in Doc, Len(k.moves) <= Len(k.lines), NEW v, At(k, v) = {}
    PROVE  SoFar(k, v) = 0 /\ \A n : SeenBy(k, v, n) = n
  BY SoFarIs DEF SeenBy, At

\* What a document sees depends on its lines and moves, and on the levels it sees.
LEMMA SeesSame ==
    ASSUME NEW k \in Doc, NEW m \in Doc, m.lines = k.lines, m.moves = k.moves,
           OnTheWay(m) => OnTheWay(k), NEW L, Sees(k, L)
    PROVE  Sees(m, L)
  BY DEF Sees, SoFar, SeenBy

\* One more move keeps what a document sees in step with what it has done.
LEMMA SeesMore ==
    ASSUME NEW k \in Doc, NEW m \in Doc, Len(k.moves) < Len(k.lines), m.lines = k.lines,
           NEW move \in [previous : Nat, new : Nat], m.moves = Append(k.moves, move),
           NEW line \in DraftLine, line = k.lines[Len(k.moves) + 1],
           NEW v, NEW n \in Nat \cup {NoRow}, Units(SeenBy(k, v, n)) = Units(n) + SoFar(k, v),
           line.v = v => move.new = Units(SeenBy(k, v, n)) + line.qty
    PROVE  Units(SeenBy(m, v, n)) = Units(n) + SoFar(m, v)
<1>0. \A i, j, l \in Int : (i + j) + l = i + (j + l)
  OBVIOUS
<1>1. Len(k.moves) <= Len(k.lines)
  <2>1. k.lines \in Seq(DraftLine) /\ k.moves \in Seq([previous : Nat, new : Nat])
    BY DEF Doc
  <2> QED BY <2>1, SeqFacts
<1>2. SoFar(k, v) \in Int
  BY <1>1, SoFarIs
<1>3. PICK u \in Int, a \in Int : u = Units(n) /\ a = SoFar(k, v)
  BY <1>2 DEF Units, NoRow
<1>4. /\ line.v = v => SoFar(m, v) = SoFar(k, v) + line.qty /\ SeenBy(m, v, n) = move.new
      /\ line.v # v => SoFar(m, v) = SoFar(k, v) /\ SeenBy(m, v, n) = SeenBy(k, v, n)
  BY OneMore
<1>5. CASE line.v = v
  <2>1. PICK q \in Int, x \in Nat : q = line.qty /\ x = move.new
    BY DEF DraftLine
  <2>2. SoFar(m, v) = a + q /\ SeenBy(m, v, n) = x
    BY <1>3, <1>4, <1>5, <2>1
  <2>3. x = (u + a) + q
    BY <1>3, <1>5, <2>1
  <2>4. Units(x) = x
    BY <2>1 DEF Units, NoRow
  <2>5. Units(SeenBy(m, v, n)) = x
    BY <2>2, <2>4
  <2>6. x = u + (a + q)
    <3>1. u \in Int /\ a \in Int /\ q \in Int
      BY <1>3, <2>1
    <3>2. (u + a) + q = u + (a + q)
      BY <1>0, <3>1, Zenon
    <3> QED BY <2>3, <3>2
  <2> QED BY <1>3, <2>2, <2>5, <2>6
<1>6. CASE line.v # v
  BY <1>4, <1>6
<1> QED BY <1>5, <1>6

\* A step of a document that does not commit.
LEMMA LevelTurn ==
    ASSUME DocsOk, LevelOk, NEW d \in DOMAIN docs, NEW m, Works(d, m), UnchangedButDocs
    PROVE  /\ \A e \in DOMAIN docs' : Sees(docs'[e], level)
           /\ m.at # "recorded" => Done(docs') = Done(docs)
<1> DEFINE k == docs[d]
<1>1. /\ k \in Doc /\ DocOk(k) /\ m \in Doc /\ Same(k, m) /\ Sees(k, level)
      /\ level \in [Variant -> Nat \cup {NoRow}]
  BY SeqFacts, LevelsAre DEF DocsOk, Works, Turn
<1>2. /\ docs' \in Seq(Doc) /\ DOMAIN docs' = DOMAIN docs /\ docs'[d] = m
      /\ \A e \in DOMAIN docs \ {d} : docs'[e] = docs[e]
  BY Turned DEF Works, DocsOk
<1>3. Sees(m, level)
  <2>1. CASE Locks(d, m) \/ Fails(d, m) \/ Ends(d, m)
    <3>1. m.moves = k.moves /\ (OnTheWay(m) => OnTheWay(k))
      BY <2>1 DEF Locks, Fails, Ends, OnTheWay, Running
    <3> QED BY <1>1, <3>1, SeesSame DEF Same
  <2>2. ASSUME NEW move, Moves(d, m, move) PROVE Sees(m, level)
    <3>1. /\ k.at = "level" /\ OnTheWay(k) /\ Len(k.moves) < Len(k.lines)
          /\ move \in [previous : Nat, new : Nat] /\ m.moves = Append(k.moves, move)
      BY <1>1, <2>2 DEF Moves, OnTheWay, DocOk
    <3>2. PICK line \in DraftLine : line = NextLine(d) /\ line = k.lines[Len(k.moves) + 1]
      BY <1>1, <3>1, NextLineOk
    <3>3. line.v \in Variant /\ line.qty \in Int
      BY DEF DraftLine
    <3>4. move.new = Units(SeenBy(k, line.v, level[line.v])) + line.qty /\ move.new \in Nat
      BY <1>1, <2>2, <3>1, <3>2, <3>3, SeesLevel DEF Moves
    <3>5. ASSUME NEW v \in Variant
          PROVE  Units(SeenBy(m, v, level[v])) = Units(level[v]) + SoFar(m, v)
      <4>1. /\ Units(SeenBy(k, v, level[v])) = Units(level[v]) + SoFar(k, v)
            /\ level[v] \in Nat \cup {NoRow}
        BY <1>1, <3>1 DEF Sees
      <4>2. line.v = v => move.new = Units(SeenBy(k, v, level[v])) + line.qty
        BY <3>4
      <4>3. m.lines = k.lines
        BY <1>1 DEF Same
      <4>4. PICK n \in Nat \cup {NoRow} : n = level[v]
        BY <4>1
      <4>5. Units(SeenBy(m, v, n)) = Units(n) + SoFar(m, v)
        <5>1. PICK x \in Doc : x = k
          BY <1>1
        <5>2. Len(x.moves) < Len(x.lines) /\ m.lines = x.lines
          BY <3>1, <4>3, <5>1
        <5>3. m.moves = Append(x.moves, move) /\ line = x.lines[Len(x.moves) + 1]
          BY <3>1, <3>2, <5>1
        <5>4. /\ Units(SeenBy(x, v, n)) = Units(n) + SoFar(x, v)
              /\ line.v = v => move.new = Units(SeenBy(x, v, n)) + line.qty
          BY <4>1, <4>2, <4>4, <5>1
        <5>5. move \in [previous : Nat, new : Nat] /\ m \in Doc
          BY <1>1, <3>1
        <5> QED BY <5>2, <5>3, <5>4, <5>5, SeesMore
      <4> QED BY <4>4, <4>5
    <3> QED BY <3>5 DEF Sees
  <2> QED BY <2>1, <2>2 DEF Works
<1>4. \A e \in DOMAIN docs' : Sees(docs'[e], level)
  BY <1>2, <1>3, LevelsAre
<1>5. ASSUME m.at # "recorded" PROVE Done(docs') = Done(docs)
  <2>1. k.at # "recorded"
    BY DEF Works, Locks, Moves, Fails, Ends, Running
  <2> QED BY <1>2, <1>5, <2>1 DEF Done
<1> QED BY <1>4, <1>5

\* A step that leaves documents, levels and history alone.
LEMMA LevelQuiet ==
    ASSUME LevelOk, LevelExplained, UNCHANGED <<docs, level, sold, lost>>,
           sale' # NoSale => sale'.v \in Variant /\ sale'.read \in Nat \ {0}
    PROVE  LevelOk' /\ LevelExplained'
  BY LevelsAre

\* A document that is submitted.
LEMMA LevelGrown ==
    ASSUME DocsOk, DocsOk', LevelOk, LevelExplained, NEW from, Grown(from)
    PROVE  LevelOk' /\ LevelExplained'
<1>1. /\ DOMAIN docs' = DOMAIN docs \cup {Len(docs) + 1} /\ Len(docs) + 1 \notin DOMAIN docs
      /\ \A d \in DOMAIN docs : docs'[d] = docs[d]
      /\ docs'[Len(docs) + 1].at = "variant" /\ docs'[Len(docs) + 1].moves = <<>>
      /\ level' = level /\ sale' = sale /\ sold' = sold /\ lost' = lost
  BY DEF Grown
<1>2. PICK k : k = docs'[Len(docs) + 1]
  OBVIOUS
<1>3. k \in Doc /\ Len(k.moves) <= Len(k.lines) /\ k.moves = <<>> /\ DOMAIN k.moves = {}
  BY <1>1, <1>2 DEF DocsOk, DocOk
<1>4. /\ level \in [Variant -> Nat \cup {NoRow}] /\ sold \in [Variant -> Nat]
      /\ sale # NoSale => sale.v \in Variant /\ sale.read \in Nat \ {0}
      /\ \A d \in DOMAIN docs : Sees(docs[d], level)
      /\ Explained(level, docs, sold, lost)
  BY LevelsAre
<1>5. Sees(k, level)
  <2> SUFFICES ASSUME NEW v \in Variant
               PROVE  Units(SeenBy(k, v, level[v])) = Units(level[v]) + SoFar(k, v)
    BY DEF Sees
  <2>1. At(k, v) = {}
    BY <1>3 DEF At
  <2>2. SoFar(k, v) = 0 /\ SeenBy(k, v, level[v]) = level[v]
    BY <1>3, <2>1, NotMoved
  <2>3. Units(level[v]) \in Int
    BY <1>4 DEF Units, NoRow
  <2> QED BY <2>2, <2>3
<1>6. \A d \in DOMAIN docs' : Sees(docs'[d], level')
  BY <1>1, <1>2, <1>4, <1>5
<1>7. /\ docs \in Seq(Doc) /\ docs' \in Seq(Doc) /\ Done(docs') = Done(docs)
      /\ \A d \in Done(docs) : docs'[d].lines = docs[d].lines
  BY <1>1 DEF DocsOk, Done
<1>8. \A v : MovedBy(docs', v) = MovedBy(docs, v)
  BY <1>7, MovedSame
<1>9. Explained(level', docs', sold', lost')
  BY <1>1, <1>4, <1>8 DEF Explained
<1> QED BY <1>1, <1>4, <1>6, <1>9, LevelsAre

\* A commit makes the levels the document sees the committed ones.
LEMMA LevelCommit ==
    ASSUME DocsOk, DocsOk', LevelOk, LevelExplained, NEW d \in DOMAIN docs, NEW m,
           Works(d, m), Ends(d, m), Commit(d)
    PROVE  LevelOk' /\ LevelExplained'
<1>1. PICK k : k = docs[d]
  OBVIOUS
<1>2. /\ level \in [Variant -> Nat \cup {NoRow}] /\ sold \in [Variant -> Nat]
      /\ sale # NoSale => sale.v \in Variant /\ sale.read \in Nat \ {0}
      /\ \A e \in DOMAIN docs : Sees(docs[e], level)
      /\ Explained(level, docs, sold, lost)
  BY LevelsAre
<1>3. /\ k \in Doc /\ DocOk(k) /\ m \in Doc /\ m.lines = k.lines /\ k.at = "commit" /\ m.at = "recorded"
      /\ Len(k.moves) = Len(k.lines) /\ Sees(k, level) /\ OnTheWay(k)
  BY <1>1, <1>2 DEF DocsOk, DocOk, Works, Turn, Same, Ends, OnTheWay
<1>4. /\ docs' \in Seq(Doc) /\ docs \in Seq(Doc) /\ DOMAIN docs' = DOMAIN docs /\ docs'[d] = m
      /\ \A e \in DOMAIN docs \ {d} : docs'[e] = docs[e]
  BY Turned DEF Works, DocsOk
<1>5. /\ level' = [v \in Variant |-> MovedTo(d, v)]
      /\ sold' = sold /\ lost' = lost /\ sale' = sale
  BY DEF Commit
<1>6. ASSUME NEW v \in Variant
      PROVE  /\ level'[v] = SeenBy(k, v, level[v]) /\ level'[v] \in Nat \cup {NoRow}
             /\ Units(level'[v]) = Units(level[v]) + Change(k.lines, v)
             /\ Units(level'[v]) \in Int /\ Units(level[v]) \in Int /\ Change(k.lines, v) \in Int
  <2>1. MovedTo(d, v) = SeenBy(k, v, level[v]) /\ MovedTo(d, v) \in Nat \cup {NoRow}
    BY <1>1, <1>2, <1>3, SeesLevel
  <2>2. Units(SeenBy(k, v, level[v])) = Units(level[v]) + SoFar(k, v)
    BY <1>3 DEF Sees
  <2>3. SoFar(k, v) = Change(k.lines, v) /\ SoFar(k, v) \in Int
    BY <1>3, SoFarIs DEF DocOk
  <2>4. level[v] \in Nat \cup {NoRow}
    BY <1>2
  <2> QED BY <1>5, <2>1, <2>2, <2>3, <2>4 DEF Units, NoRow
<1>7. ASSUME NEW e \in DOMAIN docs, e # d PROVE Sees(docs[e], level')
  <2>1. PICK x : x = docs[e]
    OBVIOUS
  <2>2. x \in Doc /\ DocOk(x) /\ Sees(x, level) /\ x.held \cap k.held = {}
    <3>1. docs[e].held \cap docs[d].held = {} /\ DocOk(docs[e])
      BY <1>7 DEF DocsOk
    <3> QED BY <1>1, <1>2, <2>1, <3>1 DEF DocOk
  <2>3. ASSUME OnTheWay(x), NEW v \in Variant
        PROVE  Units(SeenBy(x, v, level'[v])) = Units(level'[v]) + SoFar(x, v)
    <3>1. CASE At(x, v) = {}
      <4>1. SoFar(x, v) = 0 /\ SeenBy(x, v, level'[v]) = level'[v]
        BY <2>2, <3>1, NotMoved DEF DocOk
      <4> QED BY <1>6, <4>1
    <3>2. CASE At(x, v) # {}
      <4>1. v \in x.held
        BY <2>2, <2>3, <3>2 DEF At, DocOk, OnTheWay
      <4>2. At(k, v) = {}
        BY <1>3, <2>2, <4>1 DEF At, DocOk
      <4>3. SeenBy(k, v, level[v]) = level[v]
        <5>1. Len(k.moves) <= Len(k.lines)
          BY <1>3 DEF DocOk
        <5>2. PICK n : n = level[v]
          OBVIOUS
        <5>3. SeenBy(k, v, n) = n
          BY <1>3, <4>2, <5>1, NotMoved
        <5> QED BY <5>2, <5>3
      <4>4. level'[v] = level[v]
        BY <1>6, <4>3
      <4> QED BY <2>2, <2>3, <4>4 DEF Sees
    <3> QED BY <3>1, <3>2
  <2> QED BY <2>1, <2>3 DEF Sees
<1>8. Sees(m, level')
  BY <1>3 DEF Sees, OnTheWay
<1>9. \A e \in DOMAIN docs' : Sees(docs'[e], level')
  BY <1>4, <1>7, <1>8
<1>10. /\ Done(docs') = Done(docs) \cup {d} /\ d \notin Done(docs)
       /\ \A e \in Done(docs) : docs'[e].lines = docs[e].lines
  BY <1>1, <1>3, <1>4 DEF Done
<1>11. ASSUME NEW v \in Variant \ lost
       PROVE  Units(level'[v]) = Units(FirstLevel[v]) + MovedBy(docs', v) - sold[v]
  <2>1. PICK D, E : D = docs /\ E = docs'
    OBVIOUS
  <2>2. MovedBy(E, v) = MovedBy(D, v) + Change(E[d].lines, v)
    BY <1>4, <1>10, <2>1, MovedMore
  <2>3. MovedBy(docs', v) = MovedBy(docs, v) + Change(k.lines, v)
    BY <1>3, <1>4, <2>1, <2>2
  <2>4. Units(level[v]) = Units(FirstLevel[v]) + MovedBy(docs, v) - sold[v]
    BY <1>2 DEF Explained
  <2>5. MovedBy(docs, v) \in Int
    BY <1>4, MovedByIs
  <2>6. Units(FirstLevel[v]) \in Int /\ sold[v] \in Int
    BY <1>2, StockAssumption DEF Units, NoRow
  <2>7. PICK a \in Int, b \in Int, c \in Int, s \in Int :
            /\ a = Units(FirstLevel[v]) /\ b = MovedBy(docs, v) /\ c = Change(k.lines, v)
            /\ s = sold[v]
    BY <1>6, <2>5, <2>6
  <2>8. Units(level'[v]) = (a + b - s) + c
    BY <1>6, <2>4, <2>7
  <2>9. MovedBy(docs', v) = b + c
    BY <2>3, <2>7
  <2> QED BY <2>7, <2>8, <2>9
<1>12. Explained(level', docs', sold', lost')
  BY <1>5, <1>11 DEF Explained
<1>13. level' \in [Variant -> Nat \cup {NoRow}]
  BY <1>5, <1>6
<1> QED BY <1>2, <1>5, <1>9, <1>12, <1>13, LevelsAre

\* Any other step of a document.
LEMMA LevelWork ==
    ASSUME DocsOk, DocsOk', LevelOk, LevelExplained, NEW d \in DOMAIN docs, NEW m, Works(d, m)
    PROVE  LevelOk' /\ LevelExplained'
<1>1. CASE Ends(d, m) /\ Commit(d)
  BY <1>1, LevelCommit
<1>2. CASE ~(Ends(d, m) /\ Commit(d))
  <2>1. UnchangedButDocs
    BY <1>2 DEF Works
  <2>2. /\ docs' \in Seq(Doc) /\ docs \in Seq(Doc) /\ DOMAIN docs' = DOMAIN docs /\ docs'[d] = m
        /\ \A e \in DOMAIN docs \ {d} : docs'[e] = docs[e]
        /\ m.lines = docs[d].lines
    BY Turned DEF Works, DocsOk, Turn, Same
  <2>3. Done(docs') = Done(docs)
    <3>1. m.at # "recorded"
      BY <1>2 DEF Works, Locks, Moves, Fails, AfterLine
    <3> QED BY <2>1, <3>1, LevelTurn
  <2>4. \A v : MovedBy(docs', v) = MovedBy(docs, v)
    <3>1. \A e \in Done(docs) : docs'[e].lines = docs[e].lines
      BY <2>2 DEF Done
    <3> QED BY <2>2, <2>3, <3>1, MovedSame
  <2>5. \A e \in DOMAIN docs' : Sees(docs'[e], level)
    BY <2>1, LevelTurn
  <2>6. UNCHANGED <<level, sale, sold, lost>>
    BY <2>1 DEF UnchangedButDocs
  <2>7. Explained(level', docs', sold', lost')
    BY <2>4, <2>6, LevelsAre DEF Explained
  <2> QED BY <2>5, <2>6, <2>7, LevelsAre
<1> QED BY <1>1, <1>2

\* A sale of Vendure that read what is still there takes one unit.
LEMMA LevelSale ==
    ASSUME DocsOk, LevelOk, LevelExplained, SaleWrites
    PROVE  LevelOk' /\ LevelExplained'
<1>1. PICK v : v = sale.v
  OBVIOUS
<1>2. /\ level \in [Variant -> Nat \cup {NoRow}] /\ sold \in [Variant -> Nat]
      /\ v \in Variant /\ sale.read \in Nat \ {0}
      /\ \A d \in DOMAIN docs : Sees(docs[d], level)
      /\ Explained(level, docs, sold, lost)
  BY <1>1, LevelsAre DEF SaleWrites
<1>3. /\ level' = [level EXCEPT ![v] = sale.read - 1] /\ sold' = [sold EXCEPT ![v] = @ + 1]
      /\ lost' = IF level[v] # sale.read THEN lost \cup {v} ELSE lost
      /\ sale' = NoSale /\ docs' = docs
      /\ \A d \in DOMAIN docs : \A i \in DOMAIN docs[d].moves :
            Running(d) => docs[d].lines[i].v # v
  BY <1>1 DEF SaleWrites
<1>4. level' \in [Variant -> Nat \cup {NoRow}] /\ sold' \in [Variant -> Nat]
  BY <1>2, <1>3
<1>5. ASSUME NEW d \in DOMAIN docs PROVE Sees(docs[d], level')
  <2>1. PICK k : k = docs[d]
    OBVIOUS
  <2>2. k \in Doc /\ DocOk(k) /\ Sees(k, level)
    BY <1>2, <2>1 DEF DocsOk, DocOk
  <2>3. ASSUME OnTheWay(k), NEW w \in Variant
        PROVE  Units(SeenBy(k, w, level'[w])) = Units(level'[w]) + SoFar(k, w)
    <3>1. CASE w = v
      <4>1. At(k, v) = {}
        BY <1>3, <2>1, <2>3 DEF At, OnTheWay, Running
      <4>2. SoFar(k, v) = 0 /\ SeenBy(k, v, level'[v]) = level'[v]
        BY <2>2, <4>1, NotMoved DEF DocOk
      <4>3. Units(level'[v]) \in Int
        BY <1>2, <1>4 DEF Units, NoRow
      <4> QED BY <3>1, <4>2, <4>3
    <3>2. CASE w # v
      <4>1. level'[w] = level[w]
        BY <1>2, <1>3, <3>2
      <4> QED BY <2>2, <2>3, <4>1 DEF Sees
    <3> QED BY <3>1, <3>2
  <2> QED BY <2>1, <2>3 DEF Sees
<1>6. ASSUME NEW w \in Variant \ lost'
      PROVE  Units(level'[w]) = Units(FirstLevel[w]) + MovedBy(docs, w) - sold'[w]
  <2>1. Units(level[w]) = Units(FirstLevel[w]) + MovedBy(docs, w) - sold[w]
    BY <1>2, <1>3, <1>6 DEF Explained
  <2>2. MovedBy(docs, w) \in Int
    BY MovedByIs DEF DocsOk
  <2>3. Units(FirstLevel[w]) \in Int /\ sold[w] \in Int
    BY <1>2, StockAssumption DEF Units, NoRow
  <2>4. PICK a \in Int, b \in Int, s \in Int :
            a = Units(FirstLevel[w]) /\ b = MovedBy(docs, w) /\ s = sold[w]
    BY <2>2, <2>3
  <2>5. CASE w = v
    <3>1. level[v] = sale.read /\ level'[v] = sale.read - 1 /\ sold'[v] = s + 1
      BY <1>2, <1>3, <1>6, <2>4, <2>5
    <3>2. Units(level[v]) = sale.read /\ Units(level'[v]) = sale.read - 1
      BY <1>2, <3>1 DEF Units, NoRow
    <3> QED BY <1>2, <2>1, <2>4, <2>5, <3>1, <3>2
  <2>6. CASE w # v
    <3>1. level'[w] = level[w] /\ sold'[w] = sold[w]
      BY <1>2, <1>3, <2>6
    <3> QED BY <2>1, <3>1
  <2> QED BY <2>5, <2>6
<1>7. Explained(level', docs', sold', lost')
  BY <1>3, <1>6 DEF Explained
<1>8. \A d \in DOMAIN docs' : Sees(docs'[d], level')
  BY <1>3, <1>5
<1> QED BY <1>3, <1>4, <1>7, <1>8, LevelsAre

\* The levels stay explained.
LEMMA LevelNext ==
    ASSUME DraftOk, DocsOk, LevelOk, LevelExplained, Next
    PROVE  LevelOk' /\ LevelExplained'
<1>1. DocsOk'
  BY DocsNext
<1>2. CASE Submits
  BY <1>1, <1>2, Submitted, LevelGrown
<1>3. ASSUME NEW d \in DOMAIN docs, Work(d) PROVE LevelOk' /\ LevelExplained'
  <2>1. PICK m : Works(d, m)
    BY <1>3, WorkIs DEF DocsOk, LevelOk
  <2> QED BY <1>1, <2>1, LevelWork
<1>4. CASE SaleWrites
  BY <1>4, LevelSale
<1>5. ASSUME NEW v \in Variant, SaleReads(v) PROVE LevelOk' /\ LevelExplained'
  <2>1. /\ UNCHANGED <<docs, level, sold, lost>> /\ sale' = [v |-> v, read |-> level[v]]
        /\ level[v] > 0 /\ level \in [Variant -> Nat \cup {NoRow}]
    BY <1>5 DEF SaleReads, LevelOk
  <2>2. level[v] \in Nat \ {0}
    BY <2>1 DEF NoRow
  <2>3. sale'.v \in Variant /\ sale'.read \in Nat \ {0}
    BY <2>1, <2>2
  <2> QED BY <2>1, <2>3, LevelQuiet
<1>6. CASE UNCHANGED <<docs, level, sold, lost, sale>>
  BY <1>6, LevelQuiet DEF LevelOk
<1> QED BY <1>2, <1>3, <1>4, <1>5, <1>6 DEF Next, Submits, Hear, stockVars
-----------------------------------------------------------------------------
(* The drafts *)

\* The parts of DraftsOnce, with the state as arguments: documents D, the draft
\* n of N, of which H are hasty, the document l that is awaited, whether the timer
\* t runs, and the documents, G, that are no longer awaited.
Awaited(D, n, H, l) == l # 0 => l \in DOMAIN D /\ n # 0 /\ (D[l].draft = n \/ n \in H)
Timed(n, H, t) == t /\ n # 0 => n \in H
Heard(D, n, N, l, G) == \A d \in DOMAIN D : D[d].draft # 0 =>
    D[d].draft <= N /\ (D[d].draft = n => d = l \/ d \in G \/ D[d].at = "failed")
Twice(D, G) == \A d, e \in DOMAIN D : d < e /\ D[d].draft = D[e].draft /\ D[d].draft # 0 =>
    d \in G \/ D[d].at = "failed"
Gone(D, n, N, H) == \A i \in (1..N) \ ({n} \cup H) :
    \E d \in DOMAIN D : D[d].draft = i /\ D[d].at = "recorded"

LEMMA DraftsAre ==
    /\ DraftsOnce <=> /\ Awaited(docs, draft.n, hasty, loading) /\ Timed(draft.n, hasty, timer)
                      /\ Heard(docs, draft.n, drafts, loading, gaveUp)
                      /\ Twice(docs, gaveUp) /\ Gone(docs, draft.n, drafts, hasty)
    /\ DraftsOnce' <=> /\ Awaited(docs', draft'.n, hasty', loading')
                       /\ Timed(draft'.n, hasty', timer')
                       /\ Heard(docs', draft'.n, drafts', loading', gaveUp')
                       /\ Twice(docs', gaveUp') /\ Gone(docs', draft'.n, drafts', hasty')
<1>1. DraftsOnce <=> /\ Awaited(docs, draft.n, hasty, loading) /\ Timed(draft.n, hasty, timer)
                     /\ Heard(docs, draft.n, drafts, loading, gaveUp)
                     /\ Twice(docs, gaveUp) /\ Gone(docs, draft.n, drafts, hasty)
  BY DEF DraftsOnce, Awaited, Timed, Heard, Twice, Gone, Recorded
<1>2. DraftsOnce' <=> /\ Awaited(docs', draft'.n, hasty', loading')
                      /\ Timed(draft'.n, hasty', timer')
                      /\ Heard(docs', draft'.n, drafts', loading', gaveUp')
                      /\ Twice(docs', gaveUp') /\ Gone(docs', draft'.n, drafts', hasty')
  BY DEF DraftsOnce, Awaited, Timed, Heard, Twice, Gone, Recorded
<1> QED BY <1>1, <1>2

\* A new draft takes the place of none, or of a hasty one; it is hasty itself if
\* an answer is awaited or the timer runs.
LEMMA DraftsCreated ==
    ASSUME DocsOk, DraftOk, DraftsOnce, NEW kind, NEW h, Create(kind, h),
           UNCHANGED <<docs, loading, gaveUp>>, draft.n = 0 \/ draft.n \in hasty,
           loading # 0 => h, timer' => h
    PROVE  DraftsOnce'
<1>1. /\ Awaited(docs, draft.n, hasty, loading) /\ Heard(docs, draft.n, drafts, loading, gaveUp)
      /\ Twice(docs, gaveUp) /\ Gone(docs, draft.n, drafts, hasty)
  BY DraftsAre
<1>2. /\ draft'.n = drafts + 1 /\ drafts' = drafts + 1 /\ drafts \in Nat
      /\ hasty' = IF h THEN hasty \cup {drafts + 1} ELSE hasty
  BY DEF Create, DraftOk
<1>3. \A d \in DOMAIN docs : docs[d].draft \in Nat
  BY SeqFacts DEF DocsOk, DocOk, Doc
<1>4. Awaited(docs, drafts + 1, hasty', loading) /\ Timed(drafts + 1, hasty', timer')
  BY <1>1, <1>2 DEF Awaited, Timed
<1>5. Heard(docs, drafts + 1, drafts + 1, loading, gaveUp)
  BY <1>1, <1>2, <1>3 DEF Heard
<1>6. Gone(docs, drafts + 1, drafts + 1, hasty')
  <2> SUFFICES ASSUME NEW i \in (1..(drafts + 1)) \ ({drafts + 1} \cup hasty')
               PROVE  \E d \in DOMAIN docs : docs[d].draft = i /\ docs[d].at = "recorded"
    BY DEF Gone
  <2>1. i \in 1..drafts /\ i # draft.n /\ i \notin hasty
    BY <1>2
  <2> QED BY <1>1, <2>1 DEF Gone
<1> QED BY <1>1, <1>2, <1>4, <1>5, <1>6, DraftsAre

\* One more document, of the page's draft or of another client.
LEMMA DraftsGrown ==
    ASSUME DocsOk, DraftOk, DraftsOnce, NEW from, Grown(from),
           UNCHANGED <<draft, drafts, timer, gaveUp, hasty>>,
           \/ from = draft.n /\ from # 0 /\ loading = 0 /\ loading' = Len(docs) + 1
           \/ from = 0 /\ loading' = loading
    PROVE  DraftsOnce'
<1>1. PICK p : p = Len(docs) + 1
  OBVIOUS
<1>2. /\ DOMAIN docs' = DOMAIN docs \cup {p} /\ p \notin DOMAIN docs
      /\ \A d \in DOMAIN docs : docs'[d] = docs[d]
      /\ docs'[p].at = "variant" /\ docs'[p].draft = from
  BY <1>1 DEF Grown
<1>3. /\ p \in Nat \ {0} /\ \A d \in DOMAIN docs : d \in Nat /\ d < p
  BY <1>1, SeqFacts DEF DocsOk
<1>4. /\ Awaited(docs, draft.n, hasty, loading) /\ Timed(draft.n, hasty, timer)
      /\ Heard(docs, draft.n, drafts, loading, gaveUp)
      /\ Twice(docs, gaveUp) /\ Gone(docs, draft.n, drafts, hasty)
  BY DraftsAre
<1>5. draft.n # 0 => draft.n <= drafts
  BY DEF DraftOk, NoDraft
<1>6. Awaited(docs', draft.n, hasty, loading')
  BY <1>1, <1>2, <1>4 DEF Awaited
<1>7. Heard(docs', draft.n, drafts, loading', gaveUp)
  <2> SUFFICES ASSUME NEW d \in DOMAIN docs', docs'[d].draft # 0
               PROVE  /\ docs'[d].draft <= drafts
                      /\ docs'[d].draft = draft.n
                           => d = loading' \/ d \in gaveUp \/ docs'[d].at = "failed"
    BY DEF Heard
  <2>1. CASE d = p
    BY <1>1, <1>2, <1>5, <2>1
  <2>2. CASE d # p
    <3>1. 0 \notin DOMAIN docs
      BY SeqFacts DEF DocsOk
    <3> QED BY <1>2, <1>4, <2>2, <3>1 DEF Heard
  <2> QED BY <2>1, <2>2
<1>8. Twice(docs', gaveUp)
  <2> SUFFICES ASSUME NEW d \in DOMAIN docs', NEW e \in DOMAIN docs', d < e,
                      docs'[d].draft = docs'[e].draft, docs'[d].draft # 0
               PROVE  d \in gaveUp \/ docs'[d].at = "failed"
    BY DEF Twice
  <2>1. d \in DOMAIN docs
    BY <1>2, <1>3
  <2>2. CASE e = p
    <3>1. from = draft.n /\ loading = 0 /\ docs[d].draft = draft.n /\ docs[d].draft # 0
      BY <1>2, <2>1, <2>2
    <3>2. d # 0
      BY <2>1, SeqFacts DEF DocsOk
    <3> QED BY <1>2, <1>4, <2>1, <3>1, <3>2 DEF Heard
  <2>3. CASE e # p
    BY <1>2, <1>4, <2>1, <2>3 DEF Twice
  <2> QED BY <2>2, <2>3
<1>9. Gone(docs', draft.n, drafts, hasty)
  BY <1>2, <1>4 DEF Gone
<1> QED BY <1>4, <1>6, <1>7, <1>8, <1>9, DraftsAre

\* A step of a document.
LEMMA DraftsWork ==
    ASSUME DocsOk, DraftsOnce, NEW d \in DOMAIN docs, NEW m, Works(d, m), UNCHANGED draftVars
    PROVE  DraftsOnce'
<1>1. PICK k : k = docs[d]
  OBVIOUS
<1>2. /\ DOMAIN docs' = DOMAIN docs /\ docs'[d] = m
      /\ \A e \in DOMAIN docs \ {d} : docs'[e] = docs[e]
      /\ m.draft = k.draft /\ m.lines = k.lines
  BY <1>1, Turned DEF Works, DocsOk, Turn, Same
<1>3. k.at \notin {"failed", "recorded"}
  BY <1>1 DEF Works, Locks, Moves, Fails, Ends, Running
<1>4. /\ Awaited(docs, draft.n, hasty, loading) /\ Timed(draft.n, hasty, timer)
      /\ Heard(docs, draft.n, drafts, loading, gaveUp)
      /\ Twice(docs, gaveUp) /\ Gone(docs, draft.n, drafts, hasty)
  BY DraftsAre
<1>5. \A e \in DOMAIN docs : /\ docs'[e].draft = docs[e].draft
                             /\ docs[e].at \in {"failed", "recorded"} => docs'[e] = docs[e]
  BY <1>1, <1>2, <1>3
<1>6. Awaited(docs', draft.n, hasty, loading)
  BY <1>2, <1>4, <1>5 DEF Awaited
<1>7. Heard(docs', draft.n, drafts, loading, gaveUp)
  BY <1>2, <1>4, <1>5 DEF Heard
<1>8. Twice(docs', gaveUp)
  BY <1>2, <1>4, <1>5 DEF Twice
<1>9. Gone(docs', draft.n, drafts, hasty)
  BY <1>2, <1>4, <1>5 DEF Gone
<1> QED BY <1>4, <1>6, <1>7, <1>8, <1>9, DraftsAre DEF draftVars

\* The page hears what became of the document it awaits.
LEMMA DraftsHeard ==
    ASSUME DocsOk, DraftOk, DraftsOnce, Hear
    PROVE  DraftsOnce'
<1>1. /\ Awaited(docs, draft.n, hasty, loading) /\ Timed(draft.n, hasty, timer)
      /\ Heard(docs, draft.n, drafts, loading, gaveUp)
      /\ Twice(docs, gaveUp) /\ Gone(docs, draft.n, drafts, hasty)
  BY DraftsAre
<1>2. /\ loading \in DOMAIN docs /\ draft.n # 0
      /\ docs[loading].draft = draft.n \/ draft.n \in hasty
      /\ loading' = 0 /\ UNCHANGED <<drafts, gaveUp, hasty, docs>>
  BY <1>1 DEF Hear, HearFailed, HearRecorded, stockVars, Awaited
<1>3. Awaited(docs', draft'.n, hasty', loading') /\ Twice(docs', gaveUp')
  BY <1>1, <1>2 DEF Awaited
<1>4. CASE docs[loading].at = "failed"
  <2>1. draft' = draft /\ timer' = timer
    BY <1>4 DEF Hear, HearFailed
  <2>2. Heard(docs, draft.n, drafts, 0, gaveUp)
    BY <1>1, <1>4 DEF Heard
  <2> QED BY <1>1, <1>2, <1>3, <2>1, <2>2, DraftsAre
<1>5. CASE docs[loading].at # "failed"
  <2>1. draft' = NoDraft /\ draft'.n = 0
    BY <1>5 DEF Hear, HearRecorded, NoDraft
  <2>2. docs[loading].at = "recorded"
    <3>1. docs[loading] \in Doc
      BY <1>2 DEF DocsOk, DocOk
    <3> QED BY <1>5, <3>1 DEF Hear, Answered, Running, Doc
  <2>3. Heard(docs, 0, drafts, 0, gaveUp) /\ Timed(0, hasty, timer')
    BY <1>1 DEF Heard, Timed
  <2>4. Gone(docs, 0, drafts, hasty)
    BY <1>1, <1>2, <2>2 DEF Gone
  <2> QED BY <1>2, <1>3, <2>1, <2>3, <2>4, DraftsAre
<1> QED BY <1>4, <1>5

\* Drafts are followed through every step.
LEMMA DraftsNext ==
    ASSUME DraftOk, DocsOk, LevelOk, DraftsOnce, Next
    PROVE  DraftsOnce'
<1>1. /\ Awaited(docs, draft.n, hasty, loading) /\ Timed(draft.n, hasty, timer)
      /\ Heard(docs, draft.n, drafts, loading, gaveUp)
      /\ Twice(docs, gaveUp) /\ Gone(docs, draft.n, drafts, hasty)
  BY DraftsAre
<1>2. CASE MayEdit /\ Edit /\ UNCHANGED stockVars
  <2>1. (Starts \/ Edits) /\ UNCHANGED <<loading, timer, gaveUp, docs>>
    BY <1>2, EditIs DEF LevelOk, stockVars
  <2>2. CASE Starts
    <3>1. PICK kind \in DocKinds : draft = NoDraft /\ Create(kind, timer)
      BY <2>2 DEF Starts
    <3>2. draft.n = 0
      BY <3>1 DEF NoDraft
    <3>3. loading = 0
      BY <1>1, <3>2 DEF Awaited
    <3> QED BY <2>1, <3>1, <3>2, <3>3, DraftsCreated
  <2>3. CASE Edits
    <3>1. /\ draft'.n = draft.n /\ drafts' = drafts
          /\ hasty \subseteq hasty' /\ hasty' \subseteq hasty \cup {draft.n}
      BY <2>3 DEF Edits, SetLines, DraftOk
    <3>2. Awaited(docs, draft.n, hasty', loading) /\ Timed(draft.n, hasty', timer)
      BY <1>1, <3>1 DEF Awaited, Timed
    <3>3. Gone(docs, draft.n, drafts, hasty')
      BY <1>1, <3>1 DEF Gone
    <3> QED BY <1>1, <2>1, <3>1, <3>2, <3>3, DraftsAre
  <2> QED BY <2>1, <2>2, <2>3
<1>3. CASE (LoseAnswer \/ Reload) /\ UNCHANGED stockVars
  <2>1. /\ loading' = 0 /\ gaveUp' = gaveUp \cup ({loading} \ {0})
        /\ UNCHANGED <<draft, drafts, hasty, docs>> /\ (timer' => timer)
    BY <1>3 DEF LoseAnswer, Reload, stockVars
  <2>2. 0 \notin DOMAIN docs
    BY SeqFacts DEF DocsOk
  <2>3. Heard(docs, draft.n, drafts, 0, gaveUp')
    BY <1>1, <2>1, <2>2 DEF Heard
  <2>4. Twice(docs, gaveUp') /\ Awaited(docs, draft.n, hasty, 0) /\ Timed(draft.n, hasty, timer')
    BY <1>1, <2>1 DEF Twice, Awaited, Timed
  <2> QED BY <1>1, <2>1, <2>3, <2>4, DraftsAre
<1>4. CASE TimerFires /\ UNCHANGED stockVars
  <2>1. timer /\ timer' = FALSE /\ UNCHANGED <<loading, gaveUp, docs>>
    BY <1>4 DEF TimerFires, stockVars
  <2>2. CASE UNCHANGED <<draft, drafts, hasty>>
    <3>1. Timed(draft.n, hasty, FALSE)
      BY DEF Timed
    <3> QED BY <1>1, <2>1, <2>2, <3>1, DraftsAre
  <2>3. CASE Create("adjustment", loading # 0)
    <3>1. draft.n = 0 \/ draft.n \in hasty
      BY <1>1, <2>1 DEF Timed
    <3> QED BY <2>1, <2>3, <3>1, DraftsCreated
  <2> QED BY <1>4, <2>2, <2>3 DEF TimerFires
<1>5. CASE Submits
  <2>1. CASE SubmitDraft /\ Grown(draft.n)
    <3>1. /\ draft.n # 0 /\ loading = 0 /\ loading' = Len(docs) + 1
          /\ UNCHANGED <<draft, drafts, timer, gaveUp, hasty>>
      <4>1. draft.n \in 1..drafts
        BY <2>1, DraftSubmitted
      <4> QED BY <2>1, <4>1 DEF SubmitDraft, Submit, Submittable, DraftOk
    <3> QED BY <2>1, <3>1, DraftsGrown
  <2>2. CASE UNCHANGED draftVars /\ Grown(0)
    BY <2>2, DraftsGrown DEF draftVars
  <2> QED BY <1>5, <2>1, <2>2, Submitted
<1>6. ASSUME NEW d \in DOMAIN docs, Work(d) PROVE DraftsOnce'
  <2>1. PICK m : Works(d, m)
    BY <1>6, WorkIs DEF DocsOk, LevelOk
  <2>2. UNCHANGED draftVars
    BY <2>1 DEF Works, UnchangedButDocs, Commit
  <2> QED BY <2>1, <2>2, DraftsWork
<1>7. CASE Hear
  BY <1>7, DraftsHeard
<1>8. CASE UNCHANGED <<draftVars, docs>>
  BY <1>1, <1>8, DraftsAre DEF draftVars
<1> QED
  BY <1>2, <1>3, <1>4, <1>5, <1>6, <1>7, <1>8
  DEF Next, Submits, SaleReads, SaleWrites
-----------------------------------------------------------------------------
(* The invariant, and what follows from it *)

LEMMA InitOk == Init => IInv
<1> SUFFICES ASSUME Init PROVE IInv
  OBVIOUS
<1>1. /\ draft = NoDraft /\ drafts = 0 /\ loading = 0 /\ timer = FALSE /\ gaveUp = {} /\ hasty = {}
      /\ docs = <<>>
      /\ DOMAIN docs = {} /\ docs \in Seq(Doc)
      /\ level = FirstLevel /\ sale = NoSale
      /\ sold = [v \in Variant |-> 0]
  BY DEF Init, DraftInit
<1>2. DraftOk
  <2>1. /\ NoDraft \in [kind : DocKinds \cup {"none"}, lines : Seq(DraftLine), n : Nat]
        /\ NoDraft.lines = <<>> /\ DOMAIN <<>> = {}
    BY DEF NoDraft
  <2> QED BY <1>1, <2>1 DEF DraftOk, Honest
<1>3. DocsOk
  BY <1>1 DEF DocsOk
<1>4. LevelOk
  BY <1>1, StockAssumption DEF LevelOk
<1>5. DraftsOnce
  BY <1>1 DEF DraftsOnce
<1>6. LevelExplained
  <2> SUFFICES ASSUME NEW v \in Variant
               PROVE  Units(level[v]) = Units(FirstLevel[v]) + MovedBy(docs, v) - sold[v]
    BY LevelsAre DEF Explained
  <2>1. Done(docs) = {}
    BY <1>1 DEF Done
  <2>2. MovedBy(docs, v) = 0
    BY <1>1, <2>1, MovedByIs, SumNone
  <2>3. Units(FirstLevel[v]) \in Int /\ sold[v] = 0
    BY <1>1, StockAssumption DEF Units, NoRow
  <2> QED BY <1>1, <2>2, <2>3
<1> QED BY <1>2, <1>3, <1>4, <1>5, <1>6 DEF IInv

LEMMA NextOk == IInv /\ [Next]_vars => IInv'
<1> SUFFICES ASSUME IInv, [Next]_vars PROVE IInv'
  OBVIOUS
<1>1. CASE Next
  BY <1>1, DraftStep, DocsNext, LevelNext, DraftsNext DEF IInv
<1>2. CASE UNCHANGED vars
  <2>1. /\ UNCHANGED <<draft, drafts, loading, timer, gaveUp, hasty>>
        /\ UNCHANGED <<docs, level, sale, sold, lost>>
    BY <1>2 DEF vars, draftVars, stockVars
  <2>2. DraftOk' /\ DocsOk'
    BY <2>1 DEF IInv, DraftOk, DocsOk
  <2>3. LevelOk' /\ LevelExplained'
    BY <2>1, LevelQuiet DEF IInv, LevelOk
  <2>4. DraftsOnce'
    BY <2>1, DraftsAre DEF IInv
  <2> QED BY <2>2, <2>3, <2>4 DEF IInv
<1> QED BY <1>1, <1>2

\* The invariant holds: the documents hold their locks and see their own
\* changes, and the draft that an answer or the timer will clear is the one that
\* was submitted or a hasty one (StockManagementService.recordPurchase and
\* recordStockAdjustment, DraftBaseService).
THEOREM Invariance == Spec => []IInv
<1>1. Init => IInv
  BY InitOk
<1>2. IInv /\ [Next]_vars => IInv'
  BY NextOk
<1> QED BY <1>1, <1>2, PTL DEF Spec

\* A stock level is explained by the documents and sales that were committed,
\* for any number of documents, lines and variants: the row locks taken by
\* adjustStockLevel lose no change.
THEOREM Levels == Spec => []LevelExplained
<1>1. IInv => LevelExplained
  BY DEF IInv
<1> QED BY <1>1, Invariance, PTL

\* A counted variant ends at what was counted (handleAddLineItem of the stock
\* adjustment page sends count less stock, adjustStockLevel adds it).
THEOREM Counts == Spec => []CountReached
<1>1. IInv => CountReached
  <2> SUFFICES ASSUME IInv, NEW d \in Recorded, docs[d].kind = "adjustment", docs[d].draft # 0,
                      NEW i \in DOMAIN docs[d].lines, docs[d].lines[i].times = 1,
                      docs[d].lines[i].seen = docs[d].moves[i].previous
               PROVE  docs[d].moves[i].new = docs[d].lines[i].count
    BY DEF CountReached
  <2>1. PICK k : k = docs[d]
    OBVIOUS
  <2>2. k \in Doc /\ DocOk(k) /\ k.at = "recorded"
    BY <2>1 DEF Recorded, IInv, DocsOk, DocOk
  <2>3. Len(k.moves) = Len(k.lines) /\ Honest(k.kind, k.lines)
    BY <2>1, <2>2 DEF DocOk
  <2>4. k.lines \in Seq(DraftLine) /\ k.moves \in Seq([previous : Nat, new : Nat])
    BY <2>2 DEF Doc
  <2>5. i \in DOMAIN k.moves /\ i \in DOMAIN k.lines
    BY <2>1, <2>3, <2>4, SeqFacts
  <2>6. k.moves[i].new = k.moves[i].previous + k.lines[i].qty
    BY <2>2, <2>5 DEF DocOk
  <2>7. k.lines[i].count = k.lines[i].seen + k.lines[i].qty
    BY <2>1, <2>3, <2>5 DEF Honest
  <2> QED BY <2>1, <2>6, <2>7
<1> QED BY <1>1, Invariance, PTL

\* A draft is recorded once, unless the page stopped waiting for an answer, and
\* is not cleared before it was recorded, unless it is hasty: edited while an
\* answer was awaited, or begun before the timer ran out (the loading flag of the
\* pages, clearDraft when the answer says recorded, and the timer that calls
\* createNewDraft).
THEOREM DraftsRecordedOnce == Spec => []RecordedOnce
<1>1. IInv => RecordedOnce
  BY DEF IInv, DraftsOnce, RecordedOnce, Recorded
<1> QED BY <1>1, Invariance, PTL

\* What else TypeOK says, and the other invariants do not.
Bounds == drafts \in 0..MaxDrafts /\ lost \subseteq Variant

\* Every variable has its type, and the page awaits a document that exists.
THEOREM Typing == Spec => []TypeOK
<1>1. Init => Bounds
  BY DraftsAssumption DEF Init, DraftInit, Bounds
<1>2. ASSUME IInv, Bounds, [Next]_vars PROVE Bounds'
  <2>1. drafts' \in 0..MaxDrafts
    <3>1. CASE MayEdit /\ Edit /\ UNCHANGED stockVars
      <4>1. CASE \E kind \in DocKinds : NewDraft(kind)
        <5>1. drafts < MaxDrafts /\ drafts' = drafts + 1
          BY <4>1 DEF NewDraft, Create
        <5> QED BY <1>2, <5>1, DraftsAssumption DEF Bounds
      <4>2. CASE drafts' = drafts
        BY <1>2, <4>2 DEF Bounds
      <4> QED
        BY <3>1, <4>1, <4>2
        DEF Edit, AddPurchased, AddCounted, RemoveLine, SetQuantity, SetChange, AddLine, SetLines
    <3>2. CASE LoseAnswer \/ Reload \/ SubmitDraft \/ Hear \/ UNCHANGED draftVars
      BY <1>2, <3>2
      DEF Bounds, LoseAnswer, Reload, SubmitDraft, Submit, Hear, HearFailed, HearRecorded, draftVars
    <3>3. CASE TimerFires
      BY <1>2, <3>3, DraftsAssumption DEF Bounds, TimerFires, Create
    <3> QED
      BY <1>2, <3>1, <3>2, <3>3
      DEF Next, SubmitElsewhere, SaleReads, SaleWrites, Work, LockVariant, MoveStock, BreakDeadlock,
          FailDocument, Commit, UnchangedButDocs, vars
  <2>2. lost' \subseteq Variant
    <3>1. CASE SaleWrites
      <4>1. sale.v \in Variant
        BY <1>2, <3>1 DEF IInv, LevelOk, SaleWrites
      <4> QED BY <1>2, <3>1, <4>1 DEF SaleWrites, Bounds
    <3>2. CASE lost' = lost
      BY <1>2, <3>2 DEF Bounds
    <3> QED
      BY <1>2, <3>1, <3>2
      DEF Next, SubmitDraft, SubmitElsewhere, Hear, SaleReads, Work, LockVariant,
          MoveStock, BreakDeadlock, FailDocument, Commit,
          UnchangedButDocs, stockVars, vars
  <2> QED BY <1>2, <2>1, <2>2 DEF Bounds
<1>3. ASSUME IInv, Bounds PROVE TypeOK
  <2>1. /\ draft.lines \in Seq(DraftLine) /\ draft.kind \in DocKinds \cup {"none"}
        /\ draft = NoDraft \/ draft.n \in 1..drafts
    BY <1>3 DEF IInv, DraftOk
  <2>2. \A i \in DOMAIN draft.lines : draft.lines[i] \in DraftLine
    BY <2>1, SeqFacts
  <2>3. draft.n \in 0..MaxDrafts
    BY <1>3, <2>1, DraftsAssumption DEF Bounds, NoDraft
  <2>4. DraftTypeOK
    BY <1>3, <2>1, <2>2, <2>3 DEF DraftTypeOK, Bounds, IInv, DraftOk
  <2>5. loading <= Len(docs)
    <3>1. docs \in Seq(Doc) /\ loading \in Nat /\ (loading # 0 => loading \in DOMAIN docs)
      BY <1>3 DEF IInv, DocsOk, DraftOk, DraftsOnce
    <3> QED BY <3>1, SeqFacts
  <2> QED BY <1>3, <2>4, <2>5 DEF TypeOK, IInv, DocsOk, DocOk, LevelOk, Bounds
<1>4. IInv /\ Bounds /\ [Next]_vars => Bounds'
  BY <1>2
<1>5. IInv /\ Bounds => TypeOK
  BY <1>3
<1> QED BY <1>1, <1>4, <1>5, Invariance, PTL DEF Spec
=============================================================================
