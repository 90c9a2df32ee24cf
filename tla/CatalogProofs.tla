---------------------------- MODULE CatalogProofs ----------------------------
(***************************************************************************)
(* Proofs about Catalog, for any dashboards, SKUs and forms, and about     *)
(* Inventory, for any batches, sales, write-offs and purchases.            *)
(***************************************************************************)
EXTENDS Catalog, Inventory, Sums

Making  == {"group", "attach", "variants"}
Filling == {"checking", "product"} \cup Making
Sending == {"upload", "assign"}
Listing == {"read", "list"}
Naming  == Making \cup {"made"} \cup Sending \cup Listing   \* a product is named

PageRec == [step : {"idle"} \cup Filling \cup Naming, form : Seq(Sku), asked : SUBSET Nat,
            since : Seq(Nat), taken : BOOLEAN, at : Nat, editing : BOOLEAN,
            added : SUBSET Nat, removed : SUBSET Nat, list : SUBSET Nat]

ProductRec == [form : Seq(Sku), live : BOOLEAN, options : BOOLEAN, photos : SUBSET Nat,
               told : BOOLEAN, off : SUBSET Nat, crossed : BOOLEAN]

VariantRec == [product : Nat, sku : Sku, since : Nat]

\* In what follows P are the products, V their variants and J is the number of
\* photo jobs; Q, W and K are these a step later.

Shop(P, V, J) ==
    /\ P \in Seq(ProductRec) /\ V \in Seq(VariantRec) /\ J \in Nat
    /\ \A v \in DOMAIN V : V[v].product \in DOMAIN P
    /\ \A i \in DOMAIN P : P[i].photos \subseteq 1..J /\ P[i].off \subseteq 1..J

Owned(V, i) == {v \in DOMAIN V : V[v].product = i}
OneEach(form) == \A k, l \in DOMAIN form : form[k] = form[l] => k = l

\* The variants of a product are the first lines of its form, one each.
Lines(form, V, i) ==
    /\ OneEach(form)
    /\ \A v, w \in Owned(V, i) : V[v].sku = V[w].sku => v = w
    /\ {V[v].sku : v \in Owned(V, i)}
         = {form[k] : k \in {l \in DOMAIN form : l <= Cardinality(Owned(V, i))}}

Whole(P, V) ==
    \A i \in DOMAIN P :
        /\ P[i].live => Lines(P[i].form, V, i)
        /\ P[i].told => /\ P[i].live /\ Cardinality(Owned(V, i)) = Len(P[i].form)
                        /\ Len(P[i].form) > 1 => P[i].options

Distinct(P, V) ==
    \A v, w \in DOMAIN V :
        /\ v < w /\ V[v].sku = V[w].sku
        /\ P[V[v].product].live /\ P[V[w].product].live
        => V[v].product # V[w].product /\ v > V[w].since

StayOff(P) == \A i \in DOMAIN P : ~P[i].crossed => P[i].photos \cap P[i].off = {}

\* Of the first n variants none that is on sale has this SKU.
Free(P, V, sku, n) ==
    \A v \in DOMAIN V : v <= n /\ V[v].sku = sku => ~P[V[v].product].live

\* The form of a page that checks one or makes a product of it.
FormOk(x, V) ==
    x.step \in Filling =>
        /\ OneEach(x.form) /\ Len(x.form) >= 1 /\ Len(x.since) = Len(x.form)
        /\ \A k \in DOMAIN x.since : x.since[k] <= Len(V)

\* What its lookups found.
Looked(x, P, V) ==
    x.step \in Filling /\ (x.step = "checking" => ~x.taken) =>
        \A k \in DOMAIN x.form : Free(P, V, x.form[k], x.since[k])

\* The product it is making.
MakerOk(x, P, V) ==
    x.step \in Making =>
        /\ ~P[x.at].told
        /\ P[x.at].live => /\ P[x.at].form = x.form
                           /\ Cardinality(Owned(V, x.at)) < Len(x.form)

\* The photos it deals with.
PhotosOk(x, P, J) ==
    /\ x.added \subseteq 1..J /\ x.removed \subseteq 1..J /\ x.list \subseteq 1..J
    /\ x.step \in Sending \cup Listing => x.added \cap x.removed = {}
    /\ x.step \in Sending =>
         \A i \in DOMAIN P : x.added \cap P[i].photos = {} /\ x.added \cap P[i].off = {}
    /\ x.step \in Listing /\ ~P[x.at].crossed => x.added \cap P[x.at].off = {}
    /\ x.step = "list" => /\ x.list \cap x.removed = {}
                          /\ ~P[x.at].crossed => x.list \cap P[x.at].off = {}

PageOk(x, P, V, J) ==
    /\ x \in PageRec /\ (x.step \in Naming => x.at \in DOMAIN P)
    /\ FormOk(x, V) /\ Looked(x, P, V) /\ MakerOk(x, P, V) /\ PhotosOk(x, P, J)

\* What x has that another page has not: its product, and photos nobody has seen.
Apart(x, y) ==
    /\ x.step \in Making /\ y.step \in Making => x.at # y.at
    /\ x.step \in Sending => x.added \cap (y.added \cup y.removed \cup y.list) = {}

IInv ==
    /\ Shop(product, variant, jobs) /\ Whole(product, variant)
    /\ Distinct(product, variant) /\ StayOff(product)
    /\ page \in [Person -> PageRec]
    /\ \A p \in Person : PageOk(page[p], product, variant, jobs)
    /\ \A p, q \in Person : p # q => Apart(page[p], page[q])
-----------------------------------------------------------------------------
(* Sequences of products and of variants, a step later *)

\* Nothing comes back on sale, and no variant changes.
Later(P, V, J, Q, W, K) ==
    /\ DOMAIN P \subseteq DOMAIN Q /\ J <= K
    /\ \A i \in DOMAIN P : Q[i].live => P[i].live /\ Q[i].form = P[i].form
    /\ DOMAIN V \subseteq DOMAIN W /\ \A v \in DOMAIN V : W[v] = V[v]

\* What a step must leave a page that it is not about.
Spares(x, P, V, Q, W) ==
    /\ x.step \in Making => (Q[x.at].told => P[x.at].told) /\ Owned(W, x.at) = Owned(V, x.at)
    /\ x.step \in Sending =>
         \A i \in DOMAIN Q : x.added \cap Q[i].photos = {} /\ x.added \cap Q[i].off = {}
    /\ x.step \in Listing /\ ~Q[x.at].crossed =>
         Q[x.at].off = {} \/ (~P[x.at].crossed /\ Q[x.at].off = P[x.at].off)

\* Such a page is then as it should be.
LEMMA PageSpared ==
    ASSUME NEW P, NEW V, NEW J, Shop(P, V, J), NEW Q, NEW W, NEW K, Shop(Q, W, K),
           Later(P, V, J, Q, W, K), NEW x, PageOk(x, P, V, J), Spares(x, P, V, Q, W)
    PROVE  PageOk(x, Q, W, K)
<1>1. /\ Len(V) \in Nat /\ DOMAIN V = 1..Len(V) /\ Len(W) \in Nat /\ DOMAIN W = 1..Len(W)
      /\ J \in Nat /\ K \in Nat
  BY SeqFacts DEF Shop
<1>2. Len(V) <= Len(W)
  <2> SUFFICES ASSUME Len(W) < Len(V) PROVE FALSE
    BY <1>1
  <2>1. Len(V) \in DOMAIN V /\ Len(V) \notin DOMAIN W
    BY <1>1
  <2> QED BY <2>1 DEF Later
<1>3. x \in PageRec /\ (x.step \in Naming => x.at \in DOMAIN Q)
  BY DEF PageOk, Later
<1>4. FormOk(x, W)
  <2>1. x.since \in Seq(Nat) /\ \A k \in DOMAIN x.since : x.since[k] \in Nat
    BY SeqFacts DEF PageOk, PageRec
  <2>2. FormOk(x, V)
    BY DEF PageOk
  <2> QED BY <1>1, <1>2, <2>1, <2>2 DEF FormOk
<1>5. Looked(x, Q, W)
  <2> SUFFICES ASSUME x.step \in Filling, x.step = "checking" => ~x.taken,
                      NEW k \in DOMAIN x.form, NEW v \in DOMAIN W,
                      v <= x.since[k], W[v].sku = x.form[k], Q[W[v].product].live
               PROVE  FALSE
    BY DEF Looked, Free
  <2>1. Free(P, V, x.form[k], x.since[k]) /\ FormOk(x, V)
    BY DEF PageOk, Looked
  <2>2. x.since \in Seq(Nat) /\ x.form \in Seq(Sku)
    BY DEF PageOk, PageRec
  <2>3. k \in DOMAIN x.since /\ x.since[k] \in Nat
    BY <2>1, <2>2, SeqFacts DEF FormOk
  <2>4. x.since[k] <= Len(V)
    BY <2>1, <2>3 DEF FormOk
  <2>5. v \in DOMAIN V
    BY <1>1, <2>3, <2>4
  <2>6. W[v] = V[v] /\ V[v].product \in DOMAIN P
    BY <2>5 DEF Later, Shop
  <2>7. P[V[v].product].live
    BY <2>6 DEF Later
  <2> QED BY <2>1, <2>5, <2>6, <2>7 DEF Free
<1>6. MakerOk(x, Q, W)
  <2> SUFFICES ASSUME x.step \in Making
               PROVE  /\ ~Q[x.at].told
                      /\ Q[x.at].live => /\ Q[x.at].form = x.form
                                         /\ Cardinality(Owned(W, x.at)) < Len(x.form)
    BY DEF MakerOk
  <2>1. x.at \in DOMAIN P
    BY DEF PageOk, Naming
  <2>2. /\ ~P[x.at].told
        /\ P[x.at].live => P[x.at].form = x.form /\ Cardinality(Owned(V, x.at)) < Len(x.form)
    BY DEF PageOk, MakerOk
  <2>3. (Q[x.at].told => P[x.at].told) /\ Owned(W, x.at) = Owned(V, x.at)
    BY DEF Spares
  <2>4. Q[x.at].live => P[x.at].live /\ Q[x.at].form = P[x.at].form
    BY <2>1 DEF Later
  <2> QED BY <2>2, <2>3, <2>4
<1>7. PhotosOk(x, Q, K)
  <2>1. 1..J \subseteq 1..K
    BY <1>1 DEF Later
  <2>2. PhotosOk(x, P, J)
    BY DEF PageOk
  <2>3. /\ x.added \subseteq 1..K /\ x.removed \subseteq 1..K /\ x.list \subseteq 1..K
        /\ x.step \in Sending \cup Listing => x.added \cap x.removed = {}
    BY <2>1, <2>2 DEF PhotosOk
  <2>4. x.step \in Sending =>
         \A i \in DOMAIN Q : x.added \cap Q[i].photos = {} /\ x.added \cap Q[i].off = {}
    BY DEF Spares
  <2>5. x.step \in Listing /\ ~Q[x.at].crossed =>
          /\ x.added \cap Q[x.at].off = {}
          /\ x.step = "list" => x.list \cap Q[x.at].off = {}
    <3> HAVE x.step \in Listing /\ ~Q[x.at].crossed
    <3>1. Q[x.at].off = {} \/ (~P[x.at].crossed /\ Q[x.at].off = P[x.at].off)
      BY DEF Spares
    <3> QED BY <2>2, <3>1 DEF PhotosOk
  <2>6. x.step = "list" => x.list \cap x.removed = {} /\ x.step \in Listing
    BY <2>2 DEF PhotosOk, Listing
  <2> QED BY <2>3, <2>4, <2>5, <2>6 DEF PhotosOk
<1> QED BY <1>3, <1>4, <1>5, <1>6, <1>7 DEF PageOk

\* A step that makes no variant leaves the products whole and the SKUs distinct.
LEMMA NoNewVariant ==
    ASSUME NEW P, NEW V, NEW J, Shop(P, V, J), Whole(P, V), Distinct(P, V),
           NEW Q \in Seq(ProductRec), NEW K, Later(P, V, J, Q, V, K),
           \A i \in DOMAIN P : Q[i].told => Q[i].live /\ P[i].told,
           \A i \in DOMAIN P : P[i].options /\ Q[i].live => Q[i].options,
           \A i \in DOMAIN Q \ DOMAIN P : ~Q[i].told /\ OneEach(Q[i].form)
    PROVE  Whole(Q, V) /\ Distinct(Q, V)
<1>1. ASSUME NEW i \in DOMAIN Q
      PROVE  /\ Q[i].live => Lines(Q[i].form, V, i)
             /\ Q[i].told => /\ Q[i].live /\ Cardinality(Owned(V, i)) = Len(Q[i].form)
                             /\ Len(Q[i].form) > 1 => Q[i].options
  <2>1. CASE i \in DOMAIN P
    <3>1. Q[i].live => P[i].live /\ Q[i].form = P[i].form
      BY <2>1 DEF Later
    <3>2. P[i].live => Lines(P[i].form, V, i)
      BY <2>1 DEF Whole
    <3>3. P[i].told => /\ P[i].live /\ Cardinality(Owned(V, i)) = Len(P[i].form)
                       /\ Len(P[i].form) > 1 => P[i].options
      BY <2>1 DEF Whole
    <3>4. Q[i].told => Q[i].live /\ P[i].told
      BY <2>1
    <3>5. P[i].options /\ Q[i].live => Q[i].options
      BY <2>1
    <3> QED BY <3>1, <3>2, <3>3, <3>4, <3>5
  <2>2. CASE i \notin DOMAIN P
    <3>1. Owned(V, i) = {}
      BY <2>2 DEF Owned, Shop
    <3>2. Cardinality({}) = 0
      BY FS_EmptySet
    <3>3. {l \in DOMAIN Q[i].form : l <= 0} = {}
      <4>1. Q[i] \in ProductRec
        BY SeqFacts
      <4>2. Q[i].form \in Seq(Sku)
        BY <4>1 DEF ProductRec
      <4>3. \A l \in DOMAIN Q[i].form : ~(l <= 0)
        BY <4>2, SeqFacts
      <4> QED BY <4>3
    <3> QED BY <2>2, <3>1, <3>2, <3>3 DEF Lines
  <2> QED BY <2>1, <2>2
<1>2. Distinct(Q, V)
  <2> SUFFICES ASSUME NEW v \in DOMAIN V, NEW w \in DOMAIN V, v < w, V[v].sku = V[w].sku,
                      Q[V[v].product].live, Q[V[w].product].live
               PROVE  V[v].product # V[w].product /\ v > V[w].since
    BY DEF Distinct
  <2>1. P[V[v].product].live /\ P[V[w].product].live
    BY DEF Later, Shop
  <2> QED BY <2>1 DEF Distinct
<1> QED BY <1>1, <1>2 DEF Whole

\* The n-th line of the form of page x becomes a variant of its product; told if
\* the page then reports the product created.
MakesVariant(P, V, x, n, told, Q, W) ==
    /\ x.step = "variants" /\ n = Cardinality(Owned(V, x.at)) + 1
    /\ P[x.at].live /\ (n > 1 => P[x.at].options) /\ (told => n = Len(x.form))
    /\ W = Append(V, [product |-> x.at, sku |-> x.form[n], since |-> x.since[n]])
    /\ Q = [P EXCEPT ![x.at].told = @ \/ told]

\* What it leaves as it was.
Added(P, V, x, n, told, Q, W) ==
    /\ \A i \in DOMAIN Q : i # x.at => Q[i] = P[i] /\ Owned(W, i) = Owned(V, i)
    /\ Cardinality(Owned(W, x.at)) = n
    /\ \A i \in DOMAIN Q : /\ Q[i].photos = P[i].photos /\ Q[i].off = P[i].off
                           /\ Q[i].crossed = P[i].crossed
    /\ Q[x.at].told = told /\ Q[x.at].form = P[x.at].form

\* The catalogue is then as it should be.
LEMMA NewVariant ==
    ASSUME NEW P, NEW V, NEW J, Shop(P, V, J), Whole(P, V), Distinct(P, V),
           NEW x, PageOk(x, P, V, J), NEW n, NEW told \in BOOLEAN, NEW Q, NEW W,
           MakesVariant(P, V, x, n, told, Q, W)
    PROVE  /\ Shop(Q, W, J) /\ Later(P, V, J, Q, W, J) /\ Whole(Q, W) /\ Distinct(Q, W)
           /\ Added(P, V, x, n, told, Q, W)
<1>1. PICK new : new = [product |-> x.at, sku |-> x.form[n], since |-> x.since[n]]
  OBVIOUS
<1>2. /\ x.step = "variants" /\ n = Cardinality(Owned(V, x.at)) + 1
      /\ P[x.at].live /\ (n > 1 => P[x.at].options) /\ (told => n = Len(x.form))
      /\ W = Append(V, new) /\ Q = [P EXCEPT ![x.at].told = @ \/ told]
  BY <1>1 DEF MakesVariant
<1> DEFINE i == x.at
           v0 == Len(V) + 1
<1>3. i \in DOMAIN P /\ x \in PageRec /\ x.step \in Making /\ x.step \in Filling
  BY <1>2 DEF PageOk, Naming, Making, Filling
<1>4. P \in Seq(ProductRec) /\ V \in Seq(VariantRec) /\ J \in Nat
  BY DEF Shop
<1>5. P[i] \in ProductRec /\ ~P[i].told /\ P[i].form = x.form /\ Cardinality(Owned(V, i)) < Len(x.form)
  <2>1. P[i] \in ProductRec
    BY <1>3, <1>4, SeqFacts
  <2>2. MakerOk(x, P, V)
    BY DEF PageOk
  <2> QED BY <1>1, <1>2, <1>3, <2>1, <2>2 DEF MakerOk
<1>6. /\ x.form \in Seq(Sku) /\ x.since \in Seq(Nat) /\ Len(x.since) = Len(x.form)
      /\ \A k \in DOMAIN x.form : Free(P, V, x.form[k], x.since[k])
  BY <1>1, <1>2, <1>3 DEF PageOk, PageRec, FormOk, Looked
<1>7. IsFiniteSet(Owned(V, i)) /\ Cardinality(Owned(V, i)) \in Nat
  BY <1>4, SeqFacts, FS_Subset, FS_CardinalityType DEF Owned
<1>8. /\ n \in DOMAIN x.form /\ n \in Nat /\ n - 1 = Cardinality(Owned(V, i))
      /\ n \in DOMAIN x.since /\ x.form[n] \in Sku /\ x.since[n] \in Nat
  <2>1. /\ n \in 1..Len(x.form) /\ DOMAIN x.form = 1..Len(x.form) /\ DOMAIN x.since = 1..Len(x.since)
        /\ n \in Nat /\ n - 1 = Cardinality(Owned(V, i))
    BY <1>1, <1>2, <1>5, <1>6, <1>7, SeqFacts
  <2> QED BY <1>6, <2>1, SeqFacts
<1>9. i \in Nat
  BY <1>3, <1>4, SeqFacts
<1>10. new \in VariantRec
  BY <1>1, <1>2, <1>8, <1>9 DEF VariantRec
<1>11. /\ W \in Seq(VariantRec) /\ DOMAIN W = DOMAIN V \cup {v0} /\ W[v0] = new
       /\ \A v \in DOMAIN V : W[v] = V[v]
       /\ v0 \notin DOMAIN V /\ v0 \in Nat /\ \A v \in DOMAIN V : v < v0 /\ v \in Nat
  BY <1>1, <1>2, <1>4, <1>10, SeqFacts
<1>12. /\ Q \in Seq(ProductRec) /\ DOMAIN Q = DOMAIN P /\ Q[i] = [P[i] EXCEPT !.told = told]
       /\ \A j \in DOMAIN P : j # i => Q[j] = P[j]
  <2> DEFINE r == [P[i] EXCEPT !.told = P[i].told \/ told]
  <2>1. r \in ProductRec /\ r = [P[i] EXCEPT !.told = told]
    BY <1>5 DEF ProductRec
  <2>2. Q = [P EXCEPT ![i] = r]
    BY <1>1, <1>2, <1>3
  <2> HIDE DEF r, i
  <2>3. Q \in Seq(ProductRec) /\ DOMAIN Q = DOMAIN P
    <3>1. PICK S, e : S = ProductRec /\ e = r
      OBVIOUS
    <3>2. P \in Seq(S) /\ i \in DOMAIN P /\ e \in S
      BY <1>3, <1>4, <2>1, <3>1
    <3>3. [P EXCEPT ![i] = e] \in Seq(S) /\ DOMAIN [P EXCEPT ![i] = e] = DOMAIN P
      BY <3>2, SeqFacts
    <3> QED BY <2>2, <3>1, <3>3
  <2>4. Q[i] = r /\ \A j \in DOMAIN P : j # i => Q[j] = P[j]
    BY <1>3, <2>2
  <2> QED BY <2>1, <2>3, <2>4
<1>13. /\ Q[i].live /\ Q[i].form = P[i].form /\ Q[i].told = told /\ Q[i].options = P[i].options
       /\ Q[i].photos = P[i].photos /\ Q[i].off = P[i].off /\ Q[i].crossed = P[i].crossed
  BY <1>1, <1>2, <1>5, <1>12 DEF ProductRec
<1> HIDE DEF i, v0
<1>14. Owned(W, i) = Owned(V, i) \cup {v0} /\ \A j : j # i => Owned(W, j) = Owned(V, j)
  <2>1. new.product = i
    BY <1>1, <1>2 DEF i
  <2> QED BY <1>11, <2>1 DEF Owned
<1>15. Cardinality(Owned(W, i)) = n
  <2>1. v0 \notin Owned(V, i)
    BY <1>11 DEF Owned
  <2>2. Cardinality(Owned(V, i) \cup {v0}) = Cardinality(Owned(V, i)) + 1
    BY <1>7, <2>1, FS_AddElement
  <2>3. PICK c : c = Cardinality(Owned(V, i))
    OBVIOUS
  <2>4. c + 1 = n
    BY <1>7, <1>8, <2>3
  <2> QED BY <1>14, <2>2, <2>3, <2>4
<1>16. Shop(Q, W, J)
  <2>1. \A v \in DOMAIN W : W[v].product \in DOMAIN Q
    <3>1. new.product \in DOMAIN P
      BY <1>1, <1>2, <1>3 DEF i
    <3> QED BY <1>11, <1>12, <3>1 DEF Shop
  <2>2. \A j \in DOMAIN Q : Q[j].photos = P[j].photos /\ Q[j].off = P[j].off
    BY <1>12, <1>13
  <2> QED BY <1>4, <1>11, <1>12, <2>1, <2>2 DEF Shop
<1>17. Later(P, V, J, Q, W, J)
  <2>1. \A j \in DOMAIN P : Q[j].live => P[j].live /\ Q[j].form = P[j].form
    BY <1>1, <1>2, <1>12, <1>13 DEF i
  <2> QED BY <1>4, <1>11, <1>12, <2>1 DEF Later
<1>18. Lines(P[i].form, V, i)
  BY <1>1, <1>2, <1>3 DEF Whole, i
<1>19. Lines(x.form, W, i)
  <2>1. /\ \A v \in Owned(V, i) : v \in DOMAIN V /\ W[v] = V[v]
        /\ W[v0].sku = x.form[n]
    <3>1. new.sku = x.form[n]
      BY <1>1
    <3>2. \A v \in Owned(V, i) : v \in DOMAIN V
      BY DEF Owned
    <3> QED BY <1>11, <3>1, <3>2
  <2>2. x.form[n] \notin {V[v].sku : v \in Owned(V, i)}
    <3> SUFFICES ASSUME NEW k \in DOMAIN x.form, k <= Cardinality(Owned(V, i)), x.form[k] = x.form[n]
                 PROVE  FALSE
      BY <1>5, <1>18 DEF Lines, i
    <3>1. k = n
      BY <1>5, <1>8, <1>18 DEF Lines, OneEach, i
    <3> QED BY <1>8, <3>1
  <2>3. {W[v].sku : v \in Owned(W, i)} = {V[v].sku : v \in Owned(V, i)} \cup {x.form[n]}
    <3>1. \A v \in Owned(V, i) : W[v].sku = V[v].sku
      BY <2>1
    <3>2. {W[v].sku : v \in Owned(V, i)} = {V[v].sku : v \in Owned(V, i)}
      BY <3>1
    <3>3. {W[v].sku : v \in Owned(V, i) \cup {v0}} = {W[v].sku : v \in Owned(V, i)} \cup {W[v0].sku}
      OBVIOUS
    <3> QED BY <1>14, <2>1, <3>2, <3>3
  <2>4. {l \in DOMAIN x.form : l <= n} = {l \in DOMAIN x.form : l <= Cardinality(Owned(V, i))} \cup {n}
    <3>1. \A l \in DOMAIN x.form : l \in Nat
      BY <1>6, SeqFacts
    <3>2. \A l \in DOMAIN x.form : l <= n <=> l <= n - 1 \/ l = n
      BY <1>8, <3>1
    <3> QED BY <1>8, <3>2
  <2>5. {W[v].sku : v \in Owned(W, i)} = {x.form[k] : k \in {l \in DOMAIN x.form : l <= n}}
    <3>1. {V[v].sku : v \in Owned(V, i)}
            = {x.form[k] : k \in {l \in DOMAIN x.form : l <= Cardinality(Owned(V, i))}}
      BY <1>5, <1>18 DEF Lines, i
    <3> QED BY <2>3, <2>4, <3>1
  <2>6. \A v, w \in Owned(W, i) : W[v].sku = W[w].sku => v = w
    <3> TAKE v, w \in Owned(W, i)
    <3> HAVE W[v].sku = W[w].sku
    <3>1. \A u \in Owned(V, i) : W[u].sku # x.form[n]
      BY <2>1, <2>2
    <3>2. \A a, b \in Owned(V, i) : V[a].sku = V[b].sku => a = b
      BY <1>18 DEF Lines
    <3>3. v \in Owned(V, i) \/ v = v0
      BY <1>14
    <3>4. w \in Owned(V, i) \/ w = v0
      BY <1>14
    <3>5. CASE v = v0
      BY <2>1, <3>1, <3>4, <3>5
    <3>6. CASE v \in Owned(V, i)
      <4>1. w # v0
        BY <2>1, <3>1, <3>6
      <4>2. V[v].sku = V[w].sku
        BY <2>1, <3>4, <3>6, <4>1
      <4> QED BY <3>2, <3>4, <3>6, <4>1, <4>2
    <3> QED BY <3>3, <3>5, <3>6
  <2>7. OneEach(x.form)
    BY <1>5, <1>18 DEF Lines, i
  <2>8. {l \in DOMAIN x.form : l <= n} = {l \in DOMAIN x.form : l <= Cardinality(Owned(W, i))}
    BY <1>15
  <2> QED BY <2>5, <2>6, <2>7, <2>8 DEF Lines
<1>20. Whole(Q, W)
  <2> SUFFICES ASSUME NEW j \in DOMAIN Q
               PROVE  /\ Q[j].live => Lines(Q[j].form, W, j)
                      /\ Q[j].told => /\ Q[j].live /\ Cardinality(Owned(W, j)) = Len(Q[j].form)
                                      /\ Len(Q[j].form) > 1 => Q[j].options
    BY DEF Whole
  <2>1. CASE j = i
    <3>1. Q[i].form = x.form
      BY <1>5, <1>13 DEF i
    <3>2. Q[i].told => n = Len(x.form) /\ (n > 1 => Q[i].options)
      BY <1>1, <1>2, <1>13 DEF i
    <3> QED BY <1>13, <1>15, <1>19, <2>1, <3>1, <3>2
  <2>2. CASE j # i
    <3>1. Q[j] = P[j] /\ j \in DOMAIN P /\ Owned(W, j) = Owned(V, j)
      BY <1>12, <1>14, <2>2
    <3>2. \A v \in Owned(V, j) : W[v] = V[v]
      BY <1>11 DEF Owned
    <3>3. {W[v].sku : v \in Owned(V, j)} = {V[v].sku : v \in Owned(V, j)}
      BY <3>2
    <3>4. Lines(P[j].form, V, j) => Lines(P[j].form, W, j)
      <4> HAVE Lines(P[j].form, V, j)
      <4>1. \A v, w \in Owned(V, j) : W[v].sku = W[w].sku => v = w
        <5>1. \A v, w \in Owned(V, j) : V[v].sku = V[w].sku => v = w
          BY DEF Lines
        <5>2. ASSUME NEW v \in Owned(V, j), NEW w \in Owned(V, j), W[v].sku = W[w].sku PROVE v = w
          <6>1. V[v].sku = V[w].sku
            BY <3>2, <5>2
          <6> QED BY <5>1, <6>1
        <5> QED BY <5>2
      <4>2. Owned(W, j) = Owned(V, j)
        BY <3>1
      <4>3. {W[v].sku : v \in Owned(V, j)}
              = {P[j].form[k] : k \in {l \in DOMAIN P[j].form : l <= Cardinality(Owned(V, j))}}
        BY <3>3 DEF Lines
      <4>4. OneEach(P[j].form)
        BY DEF Lines
      <4>5. ASSUME NEW v \in Owned(W, j), NEW w \in Owned(W, j), W[v].sku = W[w].sku PROVE v = w
        <5>1. v \in Owned(V, j) /\ w \in Owned(V, j)
          BY <4>2
        <5> QED BY <4>1, <4>5, <5>1
      <4>6. {W[v].sku : v \in Owned(W, j)}
              = {P[j].form[k] : k \in {l \in DOMAIN P[j].form : l <= Cardinality(Owned(W, j))}}
        BY <4>2, <4>3, Zenon
      <4> QED BY <4>4, <4>5, <4>6 DEF Lines
    <3>5. /\ P[j].live => Lines(P[j].form, V, j)
          /\ P[j].told => /\ P[j].live /\ Cardinality(Owned(V, j)) = Len(P[j].form)
                          /\ Len(P[j].form) > 1 => P[j].options
      BY <3>1 DEF Whole
    <3> QED BY <3>1, <3>4, <3>5
  <2> QED BY <2>1, <2>2
<1>21. Distinct(Q, W)
  <2> SUFFICES ASSUME NEW v \in DOMAIN W, NEW w \in DOMAIN W, v < w, W[v].sku = W[w].sku,
                      Q[W[v].product].live, Q[W[w].product].live
               PROVE  W[v].product # W[w].product /\ v > W[w].since
    BY DEF Distinct
  <2>1. \A j \in DOMAIN P : Q[j].live => P[j].live
    BY <1>17 DEF Later
  <2>2. v \in DOMAIN V /\ W[v] = V[v] /\ V[v].product \in DOMAIN P /\ P[V[v].product].live
    <3>1. v \in DOMAIN V
      BY <1>11
    <3>2. W[v] = V[v] /\ V[v].product \in DOMAIN P
      BY <1>11, <3>1 DEF Shop
    <3> QED BY <2>1, <3>1, <3>2
  <2>3. CASE w \in DOMAIN V
    <3>1. W[w] = V[w] /\ V[w].product \in DOMAIN P
      BY <1>11, <2>3 DEF Shop
    <3>2. P[V[w].product].live
      BY <2>1, <3>1
    <3> QED BY <2>2, <2>3, <3>1, <3>2 DEF Distinct
  <2>4. CASE w = v0
    <3>1. W[w] = new /\ new.product = i /\ new.sku = x.form[n] /\ new.since = x.since[n]
      BY <1>1, <1>2, <1>11, <2>4 DEF i
    <3>2. v > x.since[n]
      <4>1. Free(P, V, x.form[n], x.since[n])
        BY <1>6, <1>8
      <4>2. ~(v <= x.since[n])
        BY <2>2, <3>1, <4>1 DEF Free
      <4> QED BY <1>8, <1>11, <2>2, <4>2
    <3>3. V[v].product # i
      <4> SUFFICES ASSUME V[v].product = i PROVE FALSE
        OBVIOUS
      <4>1. v \in Owned(W, i) /\ w \in Owned(W, i)
        BY <2>2, <3>1 DEF Owned
      <4>2. v = w
        BY <1>19, <4>1 DEF Lines
      <4> QED BY <1>11, <2>2, <2>4, <4>2
    <3> QED BY <2>2, <3>1, <3>2, <3>3
  <2> QED BY <1>11, <2>3, <2>4
<1>22. \A j \in DOMAIN Q : /\ Q[j].photos = P[j].photos /\ Q[j].off = P[j].off
                           /\ Q[j].crossed = P[j].crossed
  BY <1>12, <1>13
<1> QED BY <1>12, <1>13, <1>14, <1>15, <1>16, <1>17, <1>20, <1>21, <1>22 DEF i, Added
-----------------------------------------------------------------------------
(* Pages, a step later *)

\* An idle page is always as it should be.
LEMMA IdleOk ==
    ASSUME NEW P, NEW V, NEW J PROVE PageOk(Idle, P, V, J) /\ Idle.step = "idle"
<1>1. /\ Idle = [step |-> "idle", form |-> <<>>, asked |-> {}, since |-> <<>>,
                 taken |-> FALSE, at |-> 0, editing |-> FALSE, added |-> {},
                 removed |-> {}, list |-> {}]
      /\ Idle \in PageRec
  <2>1. <<>> \in Seq(Sku) /\ <<>> \in Seq(Nat)
    OBVIOUS
  <2> QED BY <2>1 DEF Idle, Page, PageRec
<1> QED BY <1>1 DEF PageOk, FormOk, Looked, MakerOk, PhotosOk, Naming, Filling, Making,
                    Sending, Listing

\* What page y has that others have not, x had before it.
Less(y, x) ==
    /\ y.step \in Making => x.step \in Making /\ y.at = x.at
    /\ y.step \in Sending => x.step \in Sending /\ y.added = x.added
    /\ y.added \cup y.removed \cup y.list \subseteq x.added \cup x.removed \cup x.list

\* Pages stay apart when one of them has less.
LEMMA ApartLess ==
    ASSUME NEW x, NEW y, NEW z, Apart(x, z), Apart(z, x), Less(y, x)
    PROVE  Apart(y, z) /\ Apart(z, y)
  BY DEF Apart, Less

\* An idle page has nothing.
LEMMA IdleLess == ASSUME NEW x PROVE Less(Idle, x)
<1>1. Idle.step = "idle" /\ Idle.added = {} /\ Idle.removed = {} /\ Idle.list = {}
  BY DEF Idle, Page
<1> QED BY <1>1 DEF Less, Making, Sending

\* Person p now sees page x.
Sees(p, x) == page' = [page EXCEPT ![p] = x]

Lasting == Later(product, variant, jobs, product', variant', jobs')

\* What is to be shown of a step in which p's page becomes x.
LEMMA PageTurned ==
    ASSUME IInv, NEW p \in Person, NEW x, Sees(p, x), Lasting,
           Shop(product', variant', jobs'), Whole(product', variant'),
           Distinct(product', variant'), StayOff(product'),
           PageOk(x, product', variant', jobs'),
           \A q \in Person \ {p} : /\ Spares(page[q], product, variant, product', variant')
                                   /\ Apart(x, page[q]) /\ Apart(page[q], x)
    PROVE  IInv'
<1>1. page \in [Person -> PageRec] /\ x \in PageRec
  BY DEF IInv, PageOk
<1>2. page' \in [Person -> PageRec] /\ page'[p] = x /\ \A q \in Person \ {p} : page'[q] = page[q]
  BY <1>1 DEF Sees
<1>3. \A q \in Person : PageOk(page'[q], product', variant', jobs')
  <2> TAKE q \in Person
  <2>1. CASE q = p
    BY <1>2, <2>1
  <2>2. CASE q # p
    <3>1. PageOk(page[q], product, variant, jobs) /\ Shop(product, variant, jobs)
      BY DEF IInv
    <3>2. Spares(page[q], product, variant, product', variant')
      BY <2>2
    <3>3. PageOk(page[q], product', variant', jobs')
      BY <3>1, <3>2, PageSpared DEF Lasting
    <3> QED BY <1>2, <2>2, <3>3
  <2> QED BY <2>1, <2>2
<1>4. \A q, r \in Person : q # r => Apart(page'[q], page'[r])
  <2> TAKE q, r \in Person
  <2> HAVE q # r
  <2>1. Apart(page[q], page[r])
    BY DEF IInv
  <2> QED BY <1>2, <2>1
<1> QED BY <1>2, <1>3, <1>4 DEF IInv

\* The catalogue stands as it was; at most a photo job was begun.
Stands == product' = product /\ variant' = variant /\ jobs' \in Nat /\ jobs <= jobs'

\* Then it is as it should be, and so is every page of the others.
LEMMA AsItWas ==
    ASSUME IInv, Stands
    PROVE  /\ Lasting /\ Shop(product', variant', jobs') /\ Whole(product', variant')
           /\ Distinct(product', variant') /\ StayOff(product')
           /\ \A q \in Person : Spares(page[q], product, variant, product', variant')
<1>1. Shop(product, variant, jobs) /\ Whole(product, variant) /\ Distinct(product, variant)
      /\ StayOff(product) /\ jobs \in Nat
  BY DEF IInv, Shop
<1>2. product' = product /\ variant' = variant /\ jobs' \in Nat /\ jobs <= jobs'
  BY DEF Stands
<1>3. Shop(product', variant', jobs')
  <2>1. 1..jobs \subseteq 1..jobs'
    BY <1>1, <1>2
  <2> QED BY <1>1, <1>2, <2>1 DEF Shop
<1>4. Lasting
  BY <1>1, <1>2 DEF Lasting, Later
<1>5. ASSUME NEW q \in Person PROVE Spares(page[q], product, variant, product', variant')
  <2>1. PageOk(page[q], product, variant, jobs)
    BY DEF IInv
  <2> QED BY <1>2, <2>1 DEF Spares, PageOk, PhotosOk
<1> QED BY <1>1, <1>2, <1>3, <1>4, <1>5

\* A page that goes on or ends while the catalogue stands, with no more than it had.
LEMMA PageOn ==
    ASSUME IInv, Stands, NEW p \in Person, NEW x, Sees(p, x), Less(x, page[p]),
           PageOk(x, product, variant, jobs')
    PROVE  IInv'
<1>1. \A q \in Person \ {p} : /\ Spares(page[q], product, variant, product', variant')
                              /\ Apart(x, page[q]) /\ Apart(page[q], x)
  <2> TAKE q \in Person \ {p}
  <2>1. Apart(page[p], page[q]) /\ Apart(page[q], page[p])
    BY DEF IInv
  <2> QED BY <2>1, AsItWas, ApartLess
<1>2. PageOk(x, product', variant', jobs')
  BY DEF Stands
<1> QED BY <1>1, <1>2, AsItWas, PageTurned

\* A page that ends while the catalogue stands.
LEMMA PageEnds ==
    ASSUME IInv, Stands, NEW p \in Person, Sees(p, Idle)
    PROVE  IInv'
  BY PageOn, IdleOk, IdleLess
-----------------------------------------------------------------------------
(* The steps of a page that leave the catalogue as it was *)

LEMMA SubmitKeeps ==
    ASSUME IInv, NEW p \in Person, NEW form \in Forms, Submit(p, form)
    PROVE  IInv'
<1>1. PICK n \in 1..MaxVariants : form \in [1..n -> Sku]
  BY DEF Forms
<1>2. n \in Nat /\ n >= 1
  BY CatalogAssumption
<1>3. form \in Seq(Sku) /\ Len(form) = n /\ DOMAIN form = 1..n
  BY <1>1, <1>2
<1> DEFINE since == [i \in DOMAIN form |-> 0]
<1>4. since \in Seq(Nat) /\ Len(since) = n /\ DOMAIN since = 1..n /\ \A k \in 1..n : since[k] = 0
  BY <1>2, <1>3
<1>5. PICK s : s = since
  OBVIOUS
<1>6. Stands
  BY DEF Submit, Stands, IInv, Shop
<1>7. CASE Sees(p, Idle)
  BY <1>6, <1>7, PageEnds
<1>8. CASE OneEach(form) /\ Sees(p, [Page("checking") EXCEPT !.form = form, !.since = s])
  <2>1. PICK b : b = Page("checking")
    OBVIOUS
  <2>2. /\ b.step = "checking" /\ b.form = <<>> /\ b.since = <<>> /\ ~b.taken /\ b.at = 0
        /\ b.added = {} /\ b.removed = {} /\ b.list = {} /\ b \in PageRec
    <3>1. <<>> \in Seq(Sku) /\ <<>> \in Seq(Nat)
      OBVIOUS
    <3> QED BY <2>1, <3>1 DEF Page, PageRec, Filling
  <2>3. PICK x : x = [b EXCEPT !.form = form, !.since = s]
    OBVIOUS
  <2>4. /\ x.step = "checking" /\ x.form = form /\ x.since = s /\ ~x.taken
        /\ x.added = {} /\ x.removed = {} /\ x.list = {} /\ x \in PageRec
    BY <1>3, <1>4, <1>5, <2>2, <2>3 DEF PageRec
  <2>5. Len(variant) \in Nat /\ DOMAIN variant = 1..Len(variant)
    BY SeqFacts DEF IInv, Shop
  <2>6. FormOk(x, variant)
    BY <1>2, <1>3, <1>4, <1>5, <1>8, <2>4, <2>5 DEF FormOk
  <2>7. Looked(x, product, variant)
    BY <1>3, <1>4, <1>5, <2>4, <2>5 DEF Looked, Free
  <2>8. PageOk(x, product, variant, jobs')
    BY <2>4, <2>6, <2>7 DEF PageOk, MakerOk, PhotosOk, Naming, Making, Sending, Listing
  <2>9. Less(x, page[p])
    BY <2>4 DEF Less, Making, Sending
  <2> QED BY <1>6, <1>8, <2>1, <2>3, <2>8, <2>9, PageOn
<1>9. Sees(p, IF OneEach(form) THEN [Page("checking") EXCEPT !.form = form, !.since = s] ELSE Idle)
  BY <1>5 DEF Submit, OneEach, Sees
<1> QED BY <1>7, <1>8, <1>9

\* A SKU that is not taken is free of the variants there are.
LEMMA FreeNow ==
    ASSUME IInv, NEW sku, ~Taken(sku) PROVE Free(product, variant, sku, Len(variant))
  BY DEF Taken, Free

LEMMA CheckSkuKeeps ==
    ASSUME IInv, NEW p \in Person, NEW i \in 1..MaxVariants, CheckSku(p, i)
    PROVE  IInv'
<1>1. PICK answered \in BOOLEAN :
        page' = [page EXCEPT ![p].asked = @ \cup {i},
                    ![p].taken = @ \/ (answered /\ Taken(page[p].form[i])),
                    ![p].since[i] = IF answered THEN Len(variant) ELSE 0]
  BY DEF CheckSku
<1>2. PICK y : y = page[p]
  OBVIOUS
<1>3. /\ page \in [Person -> PageRec] /\ y \in PageRec /\ y.step = "checking" /\ i \in DOMAIN y.form
      /\ PageOk(y, product, variant, jobs)
  BY <1>2 DEF IInv, CheckSku, At
<1>4. PICK n : n = IF answered THEN Len(variant) ELSE 0
  OBVIOUS
<1>5. PICK t : t = (answered /\ Taken(y.form[i]))
  OBVIOUS
<1>6. PICK s : s = [y.since EXCEPT ![i] = n]
  OBVIOUS
<1> DEFINE x == [y EXCEPT !.asked = y.asked \cup {i}, !.taken = y.taken \/ t, !.since = s]
<1>7. Sees(p, x)
  <2>1. page' = [page EXCEPT ![p].asked = @ \cup {i}, ![p].taken = @ \/ t, ![p].since[i] = n]
    BY <1>1, <1>2, <1>4, <1>5
  <2>2. x = [page[p] EXCEPT !.asked = @ \cup {i}, !.taken = @ \/ t, !.since[i] = n]
    BY <1>2, <1>3, <1>6 DEF PageRec
  <2>3. page' = [page EXCEPT ![p] = [page[p] EXCEPT !.asked = @ \cup {i}, !.taken = @ \/ t, !.since[i] = n]]
    BY <1>3, <2>1
  <2> QED BY <2>2, <2>3 DEF Sees
<1>8. Len(variant) \in Nat /\ DOMAIN variant = 1..Len(variant)
  BY SeqFacts DEF IInv, Shop
<1>9. n \in Nat /\ n <= Len(variant)
  BY <1>4, <1>8
<1>10. /\ y.form \in Seq(Sku) /\ y.since \in Seq(Nat) /\ Len(y.since) = Len(y.form)
       /\ OneEach(y.form) /\ Len(y.form) >= 1 /\ y.asked \in SUBSET Nat /\ y.taken \in BOOLEAN
       /\ \A k \in DOMAIN y.since : y.since[k] <= Len(variant)
  BY <1>3 DEF PageRec, PageOk, FormOk, Filling
<1>11. /\ DOMAIN y.since = DOMAIN y.form /\ i \in DOMAIN y.since /\ i \in Nat
  BY <1>3, <1>10, SeqFacts
<1>12. /\ s \in Seq(Nat) /\ Len(s) = Len(y.form) /\ s[i] = n
       /\ \A k \in DOMAIN y.form : k # i => s[k] = y.since[k]
       /\ DOMAIN s = DOMAIN y.form
  <2>1. s \in Seq(Nat) /\ DOMAIN s = DOMAIN y.since
    BY <1>6, <1>9, <1>10, <1>11, SeqFacts
  <2>2. s[i] = n /\ \A k \in DOMAIN y.since : k # i => s[k] = y.since[k]
    BY <1>6, <1>11
  <2>3. DOMAIN s = 1..Len(s) /\ DOMAIN y.since = 1..Len(y.since) /\ Len(s) \in Nat /\ Len(y.since) \in Nat
    BY <1>10, <2>1, SeqFacts
  <2> QED BY <1>10, <1>11, <2>1, <2>2, <2>3
<1>13. /\ x.step = "checking" /\ x.form = y.form /\ x.since = s /\ x.taken = (y.taken \/ t)
       /\ x.at = y.at /\ x.added = y.added /\ x.removed = y.removed /\ x.list = y.list
  BY <1>3 DEF PageRec
<1>14. x \in PageRec
  <2>1. t \in BOOLEAN
    BY <1>5 DEF Taken
  <2> QED BY <1>3, <1>10, <1>11, <1>12, <2>1 DEF PageRec
<1> HIDE DEF x
<1>15. FormOk(x, variant)
  BY <1>9, <1>10, <1>11, <1>12, <1>13 DEF FormOk
<1>16. Looked(x, product, variant)
  <2> SUFFICES ASSUME ~x.taken, NEW k \in DOMAIN x.form
               PROVE  Free(product, variant, x.form[k], x.since[k])
    BY <1>13 DEF Looked
  <2>1. CASE k # i
    <3>1. Free(product, variant, y.form[k], y.since[k])
      BY <1>3, <1>13 DEF PageOk, Looked, Filling
    <3> QED BY <1>12, <1>13, <2>1, <3>1
  <2>2. CASE k = i /\ answered
    <3>1. ~Taken(y.form[i])
      BY <1>5, <1>13, <2>2
    <3>2. Free(product, variant, y.form[i], Len(variant))
      BY <3>1, FreeNow
    <3> QED BY <1>4, <1>12, <1>13, <2>2, <3>2
  <2>3. CASE k = i /\ ~answered
    <3>1. n = 0
      BY <1>4, <2>3
    <3>2. Free(product, variant, y.form[i], 0)
      BY <1>8 DEF Free
    <3> QED BY <1>12, <1>13, <2>3, <3>1, <3>2
  <2> QED BY <2>1, <2>2, <2>3
<1>17. PageOk(x, product, variant, jobs')
  <2>1. jobs' = jobs
    BY DEF CheckSku
  <2>2. PhotosOk(x, product, jobs)
    BY <1>3, <1>13 DEF PageOk, PhotosOk, Sending, Listing
  <2> QED BY <1>13, <1>14, <1>15, <1>16, <2>1, <2>2 DEF PageOk, MakerOk, Naming, Making, Sending, Listing
<1>18. Less(x, page[p])
  BY <1>2, <1>13 DEF Less, Making, Sending
<1>19. Stands
  BY DEF CheckSku, Stands, IInv, Shop
<1> QED BY <1>7, <1>17, <1>18, <1>19, PageOn

\* A page that keeps its form and its photos and goes to another step.
LEMMA StepTo ==
    ASSUME IInv, Stands, jobs' = jobs, NEW p \in Person, NEW x, Sees(p, x), x \in PageRec,
           x.form = page[p].form, x.since = page[p].since, x.at = page[p].at, x.added = page[p].added,
           x.removed = page[p].removed, x.list = page[p].list,
           \/ page[p].step = "checking" /\ ~page[p].taken /\ x.step = "product"
           \/ page[p].step = "group" /\ x.step = "attach"
           \/ page[p].step = "upload" /\ x.step = "assign"
    PROVE  IInv'
<1>1. PICK y : y = page[p]
  OBVIOUS
<1>2. PageOk(y, product, variant, jobs)
  BY <1>1 DEF IInv
<1>3. /\ FormOk(x, variant) /\ Looked(x, product, variant) /\ MakerOk(x, product, variant)
      /\ PhotosOk(x, product, jobs) /\ (x.step \in Naming => x.at \in DOMAIN product)
  BY <1>1, <1>2 DEF PageOk, FormOk, Looked, MakerOk, PhotosOk, Filling, Making, Naming, Sending, Listing
<1>4. Less(x, page[p])
  BY DEF Less, Making, Sending
<1> QED BY <1>3, <1>4, PageOn DEF PageOk

LEMMA EndCheckKeeps == ASSUME IInv, NEW p \in Person, EndCheck(p) PROVE IInv'
<1>1. PICK y : y = page[p]
  OBVIOUS
<1>2. Stands /\ y \in PageRec /\ y.step = "checking"
  BY <1>1 DEF IInv, Shop, EndCheck, Stands, At
<1>3. PICK x : x = [y EXCEPT !.step = "product", !.asked = {}]
  OBVIOUS
<1>4. Sees(p, IF y.taken THEN Idle ELSE x) /\ jobs' = jobs
  BY <1>1, <1>3 DEF EndCheck, Sees, IInv
<1>5. CASE y.taken
  BY <1>2, <1>4, <1>5, PageEnds
<1>6. CASE ~y.taken
  <2>1. /\ x \in PageRec /\ x.step = "product" /\ x.form = y.form /\ x.since = y.since
        /\ x.at = y.at /\ x.added = y.added /\ x.removed = y.removed /\ x.list = y.list
    BY <1>2, <1>3 DEF PageRec, Filling
  <2> QED BY <1>1, <1>2, <1>4, <1>6, <2>1, StepTo
<1> QED BY <1>5, <1>6

LEMMA CreateGroupKeeps == ASSUME IInv, NEW p \in Person, CreateGroup(p) PROVE IInv'
<1>1. PICK y : y = page[p]
  OBVIOUS
<1>2. Stands /\ y \in PageRec /\ y.step = "group" /\ jobs' = jobs
  BY <1>1 DEF IInv, Shop, CreateGroup, Stands, At
<1>3. PICK x : x = [y EXCEPT !.step = "attach"]
  OBVIOUS
<1>4. Sees(p, x) \/ Sees(p, Idle)
  BY <1>1, <1>3 DEF CreateGroup, Goes, Sees
<1>5. CASE Sees(p, x)
  <2>1. /\ x \in PageRec /\ x.step = "attach" /\ x.form = y.form /\ x.since = y.since
        /\ x.at = y.at /\ x.added = y.added /\ x.removed = y.removed /\ x.list = y.list
    BY <1>2, <1>3 DEF PageRec, Making, Naming
  <2> QED BY <1>1, <1>2, <1>5, <2>1, StepTo
<1> QED BY <1>2, <1>4, <1>5, PageEnds

LEMMA UploadKeeps == ASSUME IInv, NEW p \in Person, Upload(p) PROVE IInv'
<1>1. PICK y : y = page[p]
  OBVIOUS
<1>2. Stands /\ y \in PageRec /\ y.step = "upload" /\ jobs' = jobs
  BY <1>1 DEF IInv, Shop, Upload, Stands, At
<1>3. PICK x : x = [y EXCEPT !.step = "assign"]
  OBVIOUS
<1>4. Sees(p, x) \/ Sees(p, Idle)
  BY <1>1, <1>3 DEF Upload, Goes, Sees
<1>5. CASE Sees(p, x)
  <2>1. /\ x \in PageRec /\ x.step = "assign" /\ x.form = y.form /\ x.since = y.since
        /\ x.at = y.at /\ x.added = y.added /\ x.removed = y.removed /\ x.list = y.list
    BY <1>2, <1>3 DEF PageRec, Sending, Naming
  <2> QED BY <1>1, <1>2, <1>5, <2>1, StepTo
<1> QED BY <1>2, <1>4, <1>5, PageEnds
-----------------------------------------------------------------------------
(* Making a product *)

\* One product is changed, but not the answer to whether it was made well.
Edits(i, r) ==
    /\ i \in DOMAIN product /\ r \in ProductRec /\ product' = [product EXCEPT ![i] = r]
    /\ variant' = variant /\ jobs' = jobs
    /\ r.photos \subseteq 1..jobs /\ r.off \subseteq 1..jobs
    /\ r.live => product[i].live /\ r.form = product[i].form
    /\ r.told => r.live /\ product[i].told
    /\ product[i].options /\ r.live => r.options
    /\ ~r.crossed => r.photos \cap r.off = {}

\* Then the catalogue is as it should be.
LEMMA Edited ==
    ASSUME IInv, NEW i, NEW r, Edits(i, r)
    PROVE  /\ Lasting /\ Shop(product', variant', jobs') /\ Whole(product', variant')
           /\ Distinct(product', variant') /\ StayOff(product')
           /\ product'[i] = r /\ DOMAIN product' = DOMAIN product
           /\ \A j \in DOMAIN product : j # i => product'[j] = product[j]
<1>1. /\ Shop(product, variant, jobs) /\ Whole(product, variant) /\ Distinct(product, variant)
      /\ StayOff(product) /\ product \in Seq(ProductRec) /\ jobs \in Nat
  BY DEF IInv, Shop
<1>2. /\ i \in DOMAIN product /\ r \in ProductRec /\ product' = [product EXCEPT ![i] = r]
      /\ variant' = variant /\ jobs' = jobs
  BY DEF Edits
<1>3. /\ product' \in Seq(ProductRec) /\ DOMAIN product' = DOMAIN product /\ product'[i] = r
      /\ \A j \in DOMAIN product : j # i => product'[j] = product[j]
  BY <1>1, <1>2, SeqFacts
<1>4. Lasting
  BY <1>1, <1>2, <1>3 DEF Lasting, Later, Edits
<1>5. Shop(product', variant', jobs')
  BY <1>1, <1>2, <1>3 DEF Shop, Edits
<1>6. Whole(product', variant') /\ Distinct(product', variant')
  <2>1. PICK Q, K : Q = product' /\ K = jobs'
    OBVIOUS
  <2>2. Q \in Seq(ProductRec) /\ Later(product, variant, jobs, Q, variant, K)
    BY <1>2, <1>3, <1>4, <2>1 DEF Lasting
  <2>3. \A j \in DOMAIN product : Q[j].told => Q[j].live /\ product[j].told
    BY <1>1, <1>3, <2>1 DEF Edits, Whole
  <2>4. \A j \in DOMAIN product : product[j].options /\ Q[j].live => Q[j].options
    BY <1>3, <2>1 DEF Edits
  <2>5. DOMAIN Q \ DOMAIN product = {}
    BY <1>3, <2>1
  <2>6. Whole(Q, variant) /\ Distinct(Q, variant)
    BY <1>1, <2>2, <2>3, <2>4, <2>5, NoNewVariant
  <2> QED BY <1>2, <2>1, <2>6
<1>7. StayOff(product')
  BY <1>1, <1>3 DEF StayOff, Edits
<1> QED BY <1>3, <1>4, <1>5, <1>6, <1>7

LEMMA CreateProductKeeps == ASSUME IInv, NEW p \in Person, CreateProduct(p) PROVE IInv'
<1>1. PICK y : y = page[p]
  OBVIOUS
<1>2. /\ PageOk(y, product, variant, jobs) /\ y \in PageRec /\ y.step = "product"
      /\ Shop(product, variant, jobs) /\ Whole(product, variant) /\ Distinct(product, variant)
      /\ StayOff(product) /\ product \in Seq(ProductRec) /\ jobs \in Nat
  BY <1>1 DEF IInv, CreateProduct, At, Shop, PageOk
<1>3. PICK n : n = Len(product) + 1
  OBVIOUS
<1>4. PICK r : r = NewProduct(y.form)
  OBVIOUS
<1>5. PICK x : x = [y EXCEPT !.at = n, !.step = IF Len(y.form) > 1 THEN "group" ELSE "variants"]
  OBVIOUS
<1>6. variant' = variant /\ jobs' = jobs
  BY DEF CreateProduct
<1>7. \/ product' = product /\ Sees(p, Idle)
      \/ product' = Append(product, r) /\ (Sees(p, Idle) \/ Sees(p, x))
  BY <1>1, <1>3, <1>4, <1>5 DEF CreateProduct, Goes, Outcomes, Sees
<1>8. CASE product' = product /\ Sees(p, Idle)
  <2>1. Stands
    BY <1>2, <1>6, <1>8 DEF Stands
  <2> QED BY <1>8, <2>1, PageEnds
<1>9. CASE product' = Append(product, r) /\ (Sees(p, Idle) \/ Sees(p, x))
  <2>1. /\ y.form \in Seq(Sku) /\ OneEach(y.form) /\ Len(y.form) >= 1
    BY <1>2 DEF PageRec, PageOk, FormOk, Filling
  <2>2. /\ r \in ProductRec /\ r.form = y.form /\ r.live /\ ~r.told /\ r.photos = {} /\ r.off = {}
        /\ ~r.crossed
    BY <1>4, <2>1 DEF NewProduct, ProductRec
  <2>3. /\ product' \in Seq(ProductRec) /\ DOMAIN product' = DOMAIN product \cup {n}
        /\ product'[n] = r /\ \A i \in DOMAIN product : product'[i] = product[i]
        /\ n \notin DOMAIN product /\ n \in Nat
    BY <1>2, <1>3, <1>9, <2>2, SeqFacts
  <2>4. Lasting
    BY <1>2, <1>6, <2>3 DEF Lasting, Later
  <2>5. Shop(product', variant', jobs')
    BY <1>2, <1>6, <2>2, <2>3 DEF Shop
  <2>6. Whole(product', variant') /\ Distinct(product', variant')
    <3>1. PICK Q, K : Q = product' /\ K = jobs'
      OBVIOUS
    <3>2. Q \in Seq(ProductRec) /\ Later(product, variant, jobs, Q, variant, K)
      BY <1>6, <2>3, <2>4, <3>1 DEF Lasting
    <3>3. \A j \in DOMAIN product : Q[j].told => Q[j].live /\ product[j].told
      BY <1>2, <2>3, <3>1 DEF Whole
    <3>4. \A j \in DOMAIN product : product[j].options /\ Q[j].live => Q[j].options
      BY <2>3, <3>1
    <3>5. \A j \in DOMAIN Q \ DOMAIN product : ~Q[j].told /\ OneEach(Q[j].form)
      BY <2>1, <2>2, <2>3, <3>1
    <3>6. Whole(Q, variant) /\ Distinct(Q, variant)
      BY <1>2, <3>2, <3>3, <3>4, <3>5, NoNewVariant
    <3> QED BY <1>6, <3>1, <3>6
  <2>7. StayOff(product')
    BY <1>2, <2>2, <2>3 DEF StayOff
  <2>8. \A q \in Person : Spares(page[q], product, variant, product', variant')
    <3> TAKE q \in Person
    <3>1. PICK z : z = page[q]
      OBVIOUS
    <3>2. PageOk(z, product, variant, jobs)
      BY <3>1 DEF IInv
    <3>3. z.step \in Making \cup Listing => product'[z.at] = product[z.at]
      BY <2>3, <3>2 DEF PageOk, Naming
    <3>4. z.step \in Sending =>
            \A i \in DOMAIN product' : z.added \cap product'[i].photos = {} /\ z.added \cap product'[i].off = {}
      BY <2>2, <2>3, <3>2 DEF PageOk, PhotosOk
    <3> QED BY <1>6, <3>1, <3>3, <3>4 DEF Spares
  <2>9. CASE Sees(p, Idle)
    <3>1. \A q \in Person \ {p} : Apart(Idle, page[q]) /\ Apart(page[q], Idle)
      BY IdleLess, ApartLess DEF IInv
    <3> QED BY <2>4, <2>5, <2>6, <2>7, <2>8, <2>9, <3>1, IdleOk, PageTurned
  <2>10. CASE Sees(p, x)
    <3>1. /\ x \in PageRec /\ x.step \in {"group", "variants"} /\ x.at = n /\ x.form = y.form
          /\ x.since = y.since /\ x.added = y.added /\ x.removed = y.removed /\ x.list = y.list
      BY <1>2, <1>5, <2>3 DEF PageRec, Making, Naming, Filling
    <3>2. x.step \in Making /\ x.step \in Filling /\ x.step \notin Sending \cup Listing /\ x.step # "checking"
      BY <3>1 DEF Making, Filling, Sending, Listing
    <3>3. FormOk(x, variant)
      BY <1>2, <3>1 DEF FormOk, PageOk, Filling
    <3>4. Looked(x, product', variant)
      <4>1. ASSUME NEW k \in DOMAIN x.form PROVE Free(product', variant, x.form[k], x.since[k])
        <5>1. Free(product, variant, y.form[k], y.since[k])
          BY <1>2, <3>1 DEF PageOk, Looked, Filling
        <5> QED BY <1>2, <2>3, <3>1, <5>1 DEF Free, Shop
      <4> QED BY <4>1 DEF Looked
    <3>5. Owned(variant, n) = {}
      BY <1>2, <2>3 DEF Owned, Shop
    <3>6. MakerOk(x, product', variant)
      <4>1. Cardinality(Owned(variant, n)) = 0
        BY <3>5, FS_EmptySet
      <4>2. Len(x.form) > 0
        BY <2>1, <3>1
      <4> QED BY <2>2, <2>3, <3>1, <4>1, <4>2 DEF MakerOk
    <3>7. PhotosOk(x, product', jobs)
      BY <1>2, <3>1, <3>2 DEF PageOk, PhotosOk, Listing
    <3>8. PageOk(x, product', variant', jobs')
      BY <1>6, <2>3, <3>1, <3>3, <3>4, <3>6, <3>7 DEF PageOk
    <3>9. \A q \in Person \ {p} : Apart(x, page[q]) /\ Apart(page[q], x)
      <4> TAKE q \in Person \ {p}
      <4>1. PICK z : z = page[q]
        OBVIOUS
      <4>2. PageOk(z, product, variant, jobs) /\ Apart(y, z) /\ Apart(z, y)
        BY <1>1, <4>1 DEF IInv
      <4>3. z.step \in Making => z.at # n
        BY <2>3, <4>2 DEF PageOk, Naming
      <4>4. Apart(x, z) /\ Apart(z, x)
        BY <3>1, <3>2, <4>2, <4>3 DEF Apart
      <4> QED BY <4>1, <4>4
    <3> QED BY <2>4, <2>5, <2>6, <2>7, <2>8, <2>10, <3>8, <3>9, PageTurned
  <2> QED BY <1>9, <2>9, <2>10
<1> QED BY <1>7, <1>8, <1>9

LEMMA AttachGroupKeeps == ASSUME IInv, NEW p \in Person, AttachGroup(p) PROVE IInv'
<1>1. PICK y, i : y = page[p] /\ i = y.at
  OBVIOUS
<1>2. /\ PageOk(y, product, variant, jobs) /\ y \in PageRec /\ y.step = "attach"
      /\ i \in DOMAIN product /\ product \in Seq(ProductRec)
  BY <1>1 DEF IInv, AttachGroup, At, Shop, PageOk, Naming, Making
<1>3. PICK o \in Outcomes(product[i].live) :
        /\ product' = [product EXCEPT ![i].options = @ \/ o.done]
        /\ Goes(p, product[i].live, o, [page[p] EXCEPT !.step = "variants"])
  BY <1>1 DEF AttachGroup
<1>4. PICK r : r = [product[i] EXCEPT !.options = product[i].options \/ o.done]
  OBVIOUS
<1>5. PICK x : x = [y EXCEPT !.step = "variants"]
  OBVIOUS
<1>6. product[i] \in ProductRec /\ Shop(product, variant, jobs) /\ Whole(product, variant)
      /\ StayOff(product)
  BY <1>2, SeqFacts DEF IInv
<1>7. /\ r \in ProductRec /\ r.live = product[i].live /\ r.form = product[i].form
      /\ r.told = product[i].told /\ r.photos = product[i].photos /\ r.off = product[i].off
      /\ r.crossed = product[i].crossed /\ (product[i].options => r.options)
  <2>1. o.done \in BOOLEAN
    BY <1>3 DEF Outcomes
  <2> QED BY <1>4, <1>6, <2>1 DEF ProductRec
<1>8. product' = [product EXCEPT ![i] = r] /\ variant' = variant /\ jobs' = jobs
  BY <1>2, <1>3, <1>4 DEF AttachGroup
<1>9. Edits(i, r)
  BY <1>2, <1>6, <1>7, <1>8 DEF Edits, Shop, Whole, StayOff
<1>10. /\ Lasting /\ Shop(product', variant', jobs') /\ Whole(product', variant')
       /\ Distinct(product', variant') /\ StayOff(product')
       /\ product'[i] = r /\ DOMAIN product' = DOMAIN product
       /\ \A j \in DOMAIN product : j # i => product'[j] = product[j]
  BY <1>9, Edited
<1>11. \A j \in DOMAIN product :
          /\ product'[j].live = product[j].live /\ product'[j].form = product[j].form
          /\ product'[j].told = product[j].told /\ product'[j].photos = product[j].photos
          /\ product'[j].off = product[j].off /\ product'[j].crossed = product[j].crossed
  BY <1>7, <1>10
<1>12. \A q \in Person : Spares(page[q], product, variant, product', variant')
  <2> TAKE q \in Person
  <2>1. PICK z : z = page[q]
    OBVIOUS
  <2>2. PageOk(z, product, variant, jobs)
    BY <2>1 DEF IInv
  <2> QED BY <1>8, <1>10, <1>11, <2>1, <2>2 DEF Spares, PageOk, Naming, PhotosOk
<1>13. Sees(p, x) \/ Sees(p, Idle)
  BY <1>1, <1>3, <1>5 DEF Goes, Sees
<1>14. CASE Sees(p, Idle)
  <2>1. \A q \in Person \ {p} : Apart(Idle, page[q]) /\ Apart(page[q], Idle)
    BY IdleLess, ApartLess DEF IInv
  <2> QED BY <1>10, <1>12, <1>14, <2>1, IdleOk, PageTurned
<1>15. CASE Sees(p, x)
  <2>1. /\ x \in PageRec /\ x.step = "variants" /\ x.form = y.form /\ x.since = y.since
        /\ x.at = y.at /\ x.added = y.added /\ x.removed = y.removed /\ x.list = y.list
    BY <1>2, <1>5 DEF PageRec, Making, Naming
  <2>2. Less(x, y)
    BY <1>2, <2>1 DEF Less, Making, Sending
  <2>3. PageOk(x, product, variant, jobs)
    BY <1>2, <2>1 DEF PageOk, FormOk, Looked, MakerOk, PhotosOk, Filling, Making, Naming, Sending, Listing
  <2>4. Spares(x, product, variant, product', variant')
    BY <1>1, <1>2, <1>8, <1>10, <1>11, <2>1 DEF Spares, Sending, Listing
  <2>5. PageOk(x, product', variant', jobs')
    BY <1>6, <1>10, <2>3, <2>4, PageSpared DEF Lasting
  <2>6. \A q \in Person \ {p} : Apart(x, page[q]) /\ Apart(page[q], x)
    BY <1>1, <2>2, ApartLess DEF IInv
  <2> QED BY <1>10, <1>12, <1>15, <2>5, <2>6, PageTurned
<1> QED BY <1>13, <1>14, <1>15

LEMMA CreateVariantKeeps == ASSUME IInv, NEW p \in Person, CreateVariant(p) PROVE IInv'
<1>1. PICK y, i : y = page[p] /\ i = y.at
  OBVIOUS
<1>2. /\ PageOk(y, product, variant, jobs) /\ y \in PageRec /\ y.step = "variants"
      /\ i \in DOMAIN product /\ product \in Seq(ProductRec)
      /\ Shop(product, variant, jobs) /\ Whole(product, variant) /\ Distinct(product, variant)
      /\ StayOff(product)
  BY <1>1 DEF IInv, CreateVariant, At, Shop, PageOk, Naming, Making
<1>3. PICK n : n = Cardinality(Owned(variant, i)) + 1
  OBVIOUS
<1>4. Of(i) = Owned(variant, i)
  BY DEF Of, Owned
<1>5. PICK can : can = (product[i].live /\ (n > 1 => product[i].options))
  OBVIOUS
<1>6. PICK new : new = [product |-> i, sku |-> y.form[n], since |-> y.since[n]]
  OBVIOUS
<1>7. PICK last : last = (n = Len(y.form))
  OBVIOUS
<1>8. PICK x : x = IF last THEN [Page("made") EXCEPT !.at = i] ELSE y
  OBVIOUS
<1>9. PICK o \in Outcomes(can) :
        /\ variant' = IF o.done THEN Append(variant, new) ELSE variant
        /\ Goes(p, can, o, x)
        /\ product' = [product EXCEPT ![i].told = @ \/ (o.heard /\ last)]
  BY <1>1, <1>3, <1>4, <1>5, <1>6, <1>7, <1>8 DEF CreateVariant
<1>10. jobs' = jobs
  BY DEF CreateVariant
<1>11. PICK told \in BOOLEAN : told = (o.heard /\ last)
  BY <1>7, <1>9 DEF Outcomes
<1>12. CASE ~o.done
  <2>1. ~o.heard /\ ~told
    BY <1>9, <1>11, <1>12 DEF Outcomes
  <2>2. product[i] \in ProductRec
    BY <1>2, SeqFacts
  <2>3. [product[i] EXCEPT !.told = product[i].told \/ (o.heard /\ last)] = product[i]
    BY <1>7, <2>1, <2>2 DEF ProductRec
  <2>4. product' = product
    <3>1. product' = [product EXCEPT ![i] = product[i]]
      BY <1>9, <2>3
    <3>2. product = [j \in DOMAIN product |-> product[j]]
      BY <1>2
    <3> QED BY <1>2, <3>1, <3>2
  <2>5. Stands /\ Sees(p, Idle)
    BY <1>2, <1>9, <1>10, <1>12, <2>1, <2>4 DEF Stands, Goes, Sees, Shop
  <2> QED BY <2>5, PageEnds
<1>13. CASE o.done
  <2>1. can
    BY <1>9, <1>13 DEF Outcomes
  <2>2. product[y.at].live /\ (n > 1 => product[y.at].options) /\ (told => n = Len(y.form))
    BY <1>1, <1>5, <1>7, <1>11, <2>1
  <2>3. variant' = Append(variant, new) /\ product' = [product EXCEPT ![y.at].told = @ \/ told]
    BY <1>1, <1>9, <1>11, <1>13
  <2>4. PICK W, Q : W = variant' /\ Q = product'
    OBVIOUS
  <2>5. /\ Shop(Q, W, jobs) /\ Later(product, variant, jobs, Q, W, jobs) /\ Whole(Q, W) /\ Distinct(Q, W)
        /\ Added(product, variant, y, n, told, Q, W)
    <3>1. MakesVariant(product, variant, y, n, told, Q, W)
      BY <1>1, <1>2, <1>3, <1>6, <2>2, <2>3, <2>4 DEF MakesVariant
    <3> QED BY <1>2, <3>1, NewVariant
  <2>6. DOMAIN Q = DOMAIN product
    BY <2>3, <2>4
  <2>7. Lasting /\ Shop(product', variant', jobs') /\ Whole(product', variant') /\ Distinct(product', variant')
    BY <1>10, <2>4, <2>5 DEF Lasting
  <2>8. StayOff(product')
    BY <1>2, <2>4, <2>5, <2>6 DEF StayOff, Added
  <2>9. \A q \in Person \ {p} : Spares(page[q], product, variant, product', variant')
    <3> TAKE q \in Person \ {p}
    <3>1. PICK z : z = page[q]
      OBVIOUS
    <3>2. PageOk(z, product, variant, jobs) /\ Apart(y, z)
      BY <1>1, <3>1 DEF IInv
    <3>3. z.step \in Making => z.at \in DOMAIN Q /\ z.at # y.at
      BY <1>2, <2>6, <3>2 DEF PageOk, Naming, Apart, Making
    <3>4. z.step \in Listing => z.at \in DOMAIN Q
      BY <2>6, <3>2 DEF PageOk, Naming
    <3> QED BY <2>4, <2>5, <2>6, <3>1, <3>2, <3>3, <3>4 DEF Spares, PageOk, PhotosOk, Added
  <2>10. Sees(p, Idle) \/ (o.heard /\ Sees(p, x))
    BY <1>9 DEF Goes, Sees
  <2>11. CASE Sees(p, Idle)
    <3>1. \A q \in Person \ {p} : Apart(Idle, page[q]) /\ Apart(page[q], Idle)
      BY IdleLess, ApartLess DEF IInv
    <3> QED BY <2>7, <2>8, <2>9, <2>11, <3>1, IdleOk, PageTurned
  <2>12. CASE o.heard /\ last /\ Sees(p, x)
    <3>1. x = [Page("made") EXCEPT !.at = i] /\ i \in Nat
      BY <1>2, <1>8, <2>12, SeqFacts
    <3>2. PICK b : b = Page("made")
      OBVIOUS
    <3>3. /\ b.step = "made" /\ b.added = {} /\ b.removed = {} /\ b.list = {} /\ b \in PageRec
      <4>1. <<>> \in Seq(Sku) /\ <<>> \in Seq(Nat)
        OBVIOUS
      <4> QED BY <3>2, <4>1 DEF Page, PageRec, Naming
    <3>4. /\ x.step = "made" /\ x.added = {} /\ x.removed = {} /\ x.list = {} /\ x \in PageRec /\ x.at = i
      BY <3>1, <3>2, <3>3 DEF PageRec
    <3>5. PageOk(x, product', variant', jobs')
      BY <1>2, <2>4, <2>6, <3>4
         DEF PageOk, FormOk, Looked, MakerOk, PhotosOk, Filling, Making, Sending, Listing
    <3>6. Less(x, y)
      BY <3>4 DEF Less, Making, Sending
    <3>7. \A q \in Person \ {p} : Apart(x, page[q]) /\ Apart(page[q], x)
      BY <1>1, <3>6, ApartLess DEF IInv
    <3> QED BY <2>7, <2>8, <2>9, <2>12, <3>5, <3>7, PageTurned
  <2>13. CASE ~last /\ Sees(p, x)
    <3>1. x = y /\ ~told
      BY <1>8, <1>11, <2>13
    <3>2. PageOk(y, Q, W, jobs)
      <4>1. y.step \in Making /\ y.step \in Filling /\ y.step \notin Sending \cup Listing /\ y.step # "checking"
            /\ y.step # "list"
        BY <1>2 DEF Making, Filling, Sending, Listing
      <4>2. PICK s : s = [y EXCEPT !.step = "product"]
        OBVIOUS
      <4>3. /\ s.step = "product" /\ s \in PageRec /\ s.form = y.form /\ s.since = y.since /\ s.at = y.at
            /\ s.added = y.added /\ s.removed = y.removed /\ s.list = y.list
        BY <1>2, <4>2 DEF PageRec, Filling
      <4>4. PageOk(s, product, variant, jobs)
        BY <1>2, <4>1, <4>3 DEF PageOk, FormOk, Looked, MakerOk, PhotosOk, Filling, Making, Naming, Sending, Listing
      <4>5. Spares(s, product, variant, Q, W)
        BY <4>3 DEF Spares, Making, Sending, Listing
      <4>6. PageOk(s, Q, W, jobs)
        BY <1>2, <2>5, <4>4, <4>5, PageSpared
      <4>7. FormOk(y, W) /\ Looked(y, Q, W) /\ PhotosOk(y, Q, jobs) /\ y.at \in DOMAIN Q
        BY <1>1, <1>2, <2>6, <4>1, <4>3, <4>6 DEF PageOk, FormOk, Looked, PhotosOk, Filling
      <4>8. MakerOk(y, Q, W)
        <5>1. product[y.at].form = y.form /\ Cardinality(Owned(variant, y.at)) < Len(y.form)
          BY <1>2, <2>2, <4>1 DEF PageOk, MakerOk
        <5>2. Cardinality(Owned(variant, i)) \in Nat /\ Len(y.form) \in Nat
          <6>1. IsFiniteSet(Owned(variant, i))
            BY <1>2, SeqFacts, FS_Subset DEF Owned, Shop
          <6>2. Cardinality(Owned(variant, i)) \in Nat
            BY <6>1, FS_CardinalityType
          <6> QED BY <1>2, <1>3, <6>2 DEF PageRec
        <5>3. n < Len(y.form)
          <6>1. n <= Len(y.form) /\ n \in Nat
            BY <1>1, <1>3, <5>1, <5>2
          <6>2. n # Len(y.form)
            BY <1>7, <2>13
          <6> QED BY <5>2, <6>1, <6>2
        <5> QED BY <2>5, <3>1, <5>1, <5>3 DEF MakerOk, Added
      <4> QED BY <1>2, <4>7, <4>8 DEF PageOk
    <3>3. \A q \in Person \ {p} : Apart(x, page[q]) /\ Apart(page[q], x)
      BY <1>1, <3>1 DEF IInv
    <3>4. PageOk(x, product', variant', jobs')
      BY <1>10, <2>4, <3>1, <3>2
    <3> QED BY <2>7, <2>8, <2>9, <2>13, <3>3, <3>4, PageTurned
  <2> QED BY <2>10, <2>11, <2>12, <2>13
<1> QED BY <1>9, <1>12, <1>13
-----------------------------------------------------------------------------
(* Photos *)

\* A page that begins a photo job: its photo is new, and what it takes off is there.
LEMMA JobBegun ==
    ASSUME IInv, Stands, jobs' = jobs + 1, NEW p \in Person, NEW x, Sees(p, x), x \in PageRec,
           x.at \in DOMAIN product, x.list \subseteq page[p].list,
           x.removed \subseteq page[p].removed \cup product[x.at].photos,
           \/ x.step = "upload" /\ x.added = {jobs + 1}
           \/ x.step = "read" /\ x.added = {}
    PROVE  IInv'
<1>1. PICK y : y = page[p]
  OBVIOUS
<1>2. PageOk(y, product, variant, jobs) /\ Shop(product, variant, jobs) /\ jobs \in Nat
  BY <1>1 DEF IInv, Shop
<1>3. jobs + 1 \notin 1..jobs /\ 1..jobs \subseteq 1..jobs' /\ jobs + 1 \in 1..jobs'
  BY <1>2
<1>4. x.removed \subseteq 1..jobs /\ x.list \subseteq 1..jobs
  BY <1>1, <1>2 DEF PageOk, PhotosOk, Shop
<1>5. PhotosOk(x, product, jobs')
  BY <1>2, <1>3, <1>4 DEF PhotosOk, Shop, Sending, Listing
<1>6. PageOk(x, product', variant', jobs')
  BY <1>5 DEF PageOk, FormOk, Looked, MakerOk, Filling, Making, Stands
<1>7. \A q \in Person \ {p} : Apart(x, page[q]) /\ Apart(page[q], x)
  <2> TAKE q \in Person \ {p}
  <2>1. PICK z : z = page[q]
    OBVIOUS
  <2>2. PageOk(z, product, variant, jobs) /\ Apart(z, y)
    BY <1>1, <2>1 DEF IInv
  <2>3. Apart(x, z)
    BY <1>3, <2>2 DEF Apart, PageOk, PhotosOk, Making
  <2>4. Apart(z, x)
    <3>1. x.step \notin Making
      BY DEF Making
    <3>2. ASSUME z.step \in Sending PROVE z.added \cap (x.added \cup x.removed \cup x.list) = {}
      <4>1. z.added \cap product[x.at].photos = {} /\ z.added \subseteq 1..jobs
        BY <2>2, <3>2 DEF PageOk, PhotosOk
      <4>2. z.added \cap (y.added \cup y.removed \cup y.list) = {}
        BY <2>2, <3>2 DEF Apart
      <4> QED BY <1>1, <1>3, <4>1, <4>2
    <3> QED BY <3>1, <3>2 DEF Apart
  <2> QED BY <2>1, <2>3, <2>4
<1> QED BY <1>6, <1>7, AsItWas, PageTurned

LEMMA AfterMadeKeeps == ASSUME IInv, NEW p \in Person, AfterMade(p) PROVE IInv'
<1>1. PICK y : y = page[p]
  OBVIOUS
<1>2. PageOk(y, product, variant, jobs) /\ y \in PageRec /\ y.step = "made" /\ jobs \in Nat
  BY <1>1 DEF IInv, AfterMade, At, Shop, PageOk
<1>3. PICK x : x = [y EXCEPT !.step = "upload", !.added = {jobs + 1}]
  OBVIOUS
<1>4. /\ Stands
      /\ Sees(p, Idle) \/ (Sees(p, x) /\ jobs' = jobs + 1)
  <2>1. page \in [Person -> PageRec]
    BY DEF IInv
  <2>2. Stands
    BY <1>2 DEF AfterMade, BeginsJob, Stands
  <2>3. PICK a : a = {jobs + 1}
    OBVIOUS
  <2>4. \/ Sees(p, Idle)
        \/ page' = [page EXCEPT ![p].step = "upload", ![p].added = a] /\ jobs' = jobs + 1
    BY <2>3 DEF AfterMade, BeginsJob, Sees
  <2>5. x = [page[p] EXCEPT !.step = "upload", !.added = a]
    BY <1>1, <1>3, <2>3
  <2> QED BY <2>1, <2>2, <2>4, <2>5 DEF Sees
<1>5. CASE Sees(p, x) /\ jobs' = jobs + 1
  <2>1. /\ x.step = "upload" /\ x.added = {jobs + 1} /\ x.at = y.at /\ x.removed = y.removed
        /\ x.list = y.list /\ x \in PageRec
    <3>1. {jobs + 1} \in SUBSET Nat
      BY <1>2
    <3>2. PICK a \in SUBSET Nat : a = {jobs + 1}
      BY <3>1
    <3>3. x = [y EXCEPT !.step = "upload", !.added = a]
      BY <1>3, <3>2
    <3> QED BY <1>2, <3>2, <3>3 DEF PageRec, Naming, Sending
  <2>2. x.at \in DOMAIN product
    BY <1>2, <2>1 DEF PageOk, Naming
  <2> QED BY <1>1, <1>4, <1>5, <2>1, <2>2, JobBegun
<1> QED BY <1>4, <1>5, PageEnds

LEMMA EditPhotosKeeps ==
    ASSUME IInv, NEW p \in Person, NEW i \in DOMAIN product, NEW more \in BOOLEAN,
           NEW removed \in SUBSET product[i].photos, EditPhotos(p, i, removed, more)
    PROVE  IInv'
<1>1. /\ Stands /\ jobs' = jobs + 1 /\ jobs \in Nat /\ product \in Seq(ProductRec)
      /\ Shop(product, variant, jobs)
  BY DEF EditPhotos, BeginsJob, Stands, IInv, Shop
<1>2. PICK s, a : s = (IF more THEN "upload" ELSE "read") /\ a = (IF more THEN {jobs + 1} ELSE {})
  OBVIOUS
<1>3. PICK b : b = Page(s)
  OBVIOUS
<1>4. PICK x : x = [b EXCEPT !.at = i, !.editing = TRUE, !.removed = removed, !.added = a]
  OBVIOUS
<1>5. Sees(p, x)
  BY <1>2, <1>3, <1>4 DEF EditPhotos, Sees
<1>6. /\ removed \subseteq 1..jobs /\ i \in Nat
  BY <1>1, SeqFacts DEF Shop
<1>7. b.step = s /\ b.list = {} /\ b \in PageRec
  <2>1. <<>> \in Seq(Sku) /\ <<>> \in Seq(Nat)
    OBVIOUS
  <2>2. s \in Naming
    BY <1>2 DEF Naming, Sending, Listing
  <2> QED BY <1>3, <2>1, <2>2 DEF Page, PageRec
<1>8. /\ x.step = s /\ x.at = i /\ x.removed = removed /\ x.added = a /\ x.list = {} /\ x \in PageRec
  <2>1. removed \in SUBSET Nat /\ a \in SUBSET Nat
    BY <1>1, <1>2, <1>6
  <2> QED BY <1>4, <1>6, <1>7, <2>1 DEF PageRec
<1> QED BY <1>1, <1>2, <1>5, <1>8, JobBegun

\* The list read is what stays: the photos there are and the page's own.
LEMMA ReadPhotosKeeps == ASSUME IInv, NEW p \in Person, ReadPhotos(p) PROVE IInv'
<1>1. PICK y, i : y = page[p] /\ i = y.at
  OBVIOUS
<1>2. /\ PageOk(y, product, variant, jobs) /\ y \in PageRec /\ y.step = "read" /\ i \in DOMAIN product
      /\ Shop(product, variant, jobs) /\ StayOff(product) /\ jobs' = jobs /\ jobs \in Nat /\ Stands
  BY <1>1 DEF IInv, ReadPhotos, At, PageOk, Shop, Naming, Listing, Stands
<1>3. PICK l : l = (product[i].photos \ y.removed) \cup y.added
  OBVIOUS
<1>4. PICK x : x = [y EXCEPT !.step = "list", !.list = l]
  OBVIOUS
<1>5. Sees(p, x) \/ Sees(p, Idle)
  BY <1>1, <1>3, <1>4 DEF ReadPhotos, Remaining, Sees, IInv
<1>6. CASE Sees(p, x)
  <2>1. l \subseteq 1..jobs
    BY <1>2, <1>3 DEF Shop, PageOk, PhotosOk
  <2>2. l \in SUBSET Nat
    BY <2>1
  <2>3. /\ x.step = "list" /\ x.list = l /\ x.at = i /\ x.removed = y.removed /\ x.added = y.added
        /\ x \in PageRec
    BY <1>1, <1>2, <1>4, <2>2 DEF PageRec, Naming, Listing
  <2>4. PhotosOk(y, product, jobs)
    BY <1>2 DEF PageOk
  <2>5. y.added \cap y.removed = {} /\ (~product[i].crossed => y.added \cap product[i].off = {})
    BY <1>1, <1>2, <2>4 DEF PhotosOk, Listing
  <2>6. l \cap y.removed = {} /\ (~product[i].crossed => l \cap product[i].off = {})
    BY <1>2, <1>3, <2>5 DEF StayOff
  <2>7. PhotosOk(x, product, jobs)
    BY <2>1, <2>3, <2>4, <2>5, <2>6 DEF PhotosOk, Sending, Listing
  <2>8. PageOk(x, product', variant', jobs')
    BY <1>2, <2>3, <2>7 DEF PageOk, FormOk, Looked, MakerOk, Filling, Making, Stands
  <2>9. \A q \in Person \ {p} : Apart(x, page[q]) /\ Apart(page[q], x)
    <3> TAKE q \in Person \ {p}
    <3>1. PICK z : z = page[q]
      OBVIOUS
    <3>2. PageOk(z, product, variant, jobs) /\ Apart(z, y)
      BY <1>1, <3>1 DEF IInv
    <3>3. Apart(x, z)
      BY <2>3 DEF Apart, Making, Sending
    <3>4. Apart(z, x)
      <4>1. x.step \notin Making
        BY <2>3 DEF Making
      <4>2. ASSUME z.step \in Sending PROVE z.added \cap (x.added \cup x.removed \cup x.list) = {}
        <5>1. z.added \cap product[i].photos = {}
          BY <1>2, <3>2, <4>2 DEF PageOk, PhotosOk
        <5>2. z.added \cap (y.added \cup y.removed \cup y.list) = {}
          BY <3>2, <4>2 DEF Apart
        <5> QED BY <1>3, <2>3, <5>1, <5>2
      <4> QED BY <4>1, <4>2 DEF Apart
    <3> QED BY <3>1, <3>3, <3>4
  <2> QED BY <1>2, <1>6, <2>8, <2>9, AsItWas, PageTurned
<1> QED BY <1>2, <1>5, <1>6, PageEnds

\* The photos of a product become s, which holds none that was taken off; if others
\* are between reading and writing its list, it is noted.
Shows(p, i, r, s) ==
    /\ r.photos = s /\ r.live = product[i].live /\ r.form = product[i].form
    /\ r.told = product[i].told /\ r.options = product[i].options
    /\ r.crossed = (product[i].crossed \/ Crossing(p))

\* Then the other pages are as they should be.
LEMMA PhotosShown ==
    ASSUME IInv, NEW p \in Person, NEW y, y = page[p], NEW i, i = y.at, NEW r, NEW s,
           Edits(i, r), Shows(p, i, r, s), s \subseteq product[i].photos \cup y.added \cup y.list,
           y.step = "assign" \/ y.step = "list",
           r.off \subseteq product[i].off \cup y.removed
    PROVE  \A q \in Person \ {p} : Spares(page[q], product, variant, product', variant')
<1> TAKE q \in Person \ {p}
<1>1. PICK z : z = page[q]
  OBVIOUS
<1>2. PageOk(z, product, variant, jobs) /\ Apart(z, y)
  BY <1>1 DEF IInv
<1>3. /\ product'[i] = r /\ DOMAIN product' = DOMAIN product /\ variant' = variant
      /\ \A j \in DOMAIN product : j # i => product'[j] = product[j]
      /\ i \in DOMAIN product
  BY Edited DEF Edits
<1>4. z.step \in Making => product'[z.at].told = product[z.at].told
  BY <1>2, <1>3 DEF PageOk, Naming, Shows
<1>5. ASSUME z.step \in Sending, NEW j \in DOMAIN product'
      PROVE  z.added \cap product'[j].photos = {} /\ z.added \cap product'[j].off = {}
  <2>1. z.added \cap product[j].photos = {} /\ z.added \cap product[j].off = {}
    BY <1>2, <1>3, <1>5 DEF PageOk, PhotosOk
  <2>2. z.added \cap (y.added \cup y.removed \cup y.list) = {}
    BY <1>2, <1>5 DEF Apart
  <2>3. CASE j = i
    BY <1>3, <2>1, <2>2, <2>3 DEF Shows
  <2>4. CASE j # i
    BY <1>3, <2>1, <2>4
  <2> QED BY <2>3, <2>4
<1>6. ASSUME z.step \in Listing, ~product'[z.at].crossed
      PROVE  ~product[z.at].crossed /\ product'[z.at].off = product[z.at].off
  <2>1. z.at \in DOMAIN product
    BY <1>2, <1>6 DEF PageOk, Naming
  <2>2. z.at # i
    <3> SUFFICES ASSUME z.at = i PROVE FALSE
      OBVIOUS
    <3>1. Crossing(p)
      BY <1>1, <1>6 DEF Crossing, Listing
    <3> QED BY <1>3, <1>6, <3>1 DEF Shows
  <2> QED BY <1>3, <1>6, <2>1, <2>2
<1> QED BY <1>1, <1>3, <1>4, <1>5, <1>6 DEF Spares

LEMMA AssignKeeps == ASSUME IInv, NEW p \in Person, Assign(p) PROVE IInv'
<1>1. PICK y, i : y = page[p] /\ i = y.at
  OBVIOUS
<1>2. /\ PageOk(y, product, variant, jobs) /\ y \in PageRec /\ y.step = "assign" /\ i \in DOMAIN product
      /\ Shop(product, variant, jobs) /\ Whole(product, variant) /\ product \in Seq(ProductRec)
      /\ jobs' = jobs /\ jobs \in Nat /\ variant' = variant
  BY <1>1 DEF IInv, Assign, At, PageOk, Shop, Naming, Sending
<1>3. PICK r : r = [product[i] EXCEPT !.photos = y.added, !.crossed = product[i].crossed \/ Crossing(p)]
  OBVIOUS
<1>4. PICK x : x = [y EXCEPT !.step = "read"]
  OBVIOUS
<1>5. PICK o \in Outcomes(product[i].live) :
        /\ product' = IF ~o.done THEN product
                      ELSE [product EXCEPT ![i].photos = y.added, ![i].crossed = @ \/ Crossing(p)]
        /\ Goes(p, product[i].live, o, IF y.editing THEN x ELSE Idle)
  BY <1>1, <1>4 DEF Assign
<1>6. CASE ~o.done
  <2>1. Stands /\ Sees(p, Idle)
    <3>1. ~o.heard
      BY <1>5, <1>6 DEF Outcomes
    <3>2. Sees(p, Idle)
      BY <1>5, <3>1 DEF Goes, Sees
    <3>3. product' = product /\ jobs <= jobs' /\ jobs' \in Nat
      BY <1>2, <1>5, <1>6
    <3> QED BY <1>2, <3>2, <3>3 DEF Stands
  <2> QED BY <2>1, PageEnds
<1>7. CASE o.done
  <2>1. product[i] \in ProductRec
    BY <1>2, SeqFacts
  <2>2. product' = [product EXCEPT ![i] = r]
    BY <1>2, <1>3, <1>5, <1>7
  <2>3. Crossing(p) \in BOOLEAN /\ y.added \in SUBSET Nat
    BY <1>2 DEF Crossing, PageRec
  <2>4. r \in ProductRec /\ Shows(p, i, r, y.added) /\ r.off = product[i].off
    BY <1>3, <2>1, <2>3 DEF ProductRec, Shows
  <2>5. /\ y.added \subseteq 1..jobs /\ y.added \cap y.removed = {}
        /\ y.added \cap product[i].photos = {} /\ y.added \cap product[i].off = {}
    BY <1>2 DEF PageOk, PhotosOk, Sending
  <2>6. Edits(i, r)
    BY <1>2, <2>2, <2>4, <2>5 DEF Edits, Shop, Whole, Shows
  <2>7. /\ Lasting /\ Shop(product', variant', jobs') /\ Whole(product', variant')
        /\ Distinct(product', variant') /\ StayOff(product')
        /\ product'[i] = r /\ DOMAIN product' = DOMAIN product
    BY <2>6, Edited
  <2>8. \A q \in Person \ {p} : Spares(page[q], product, variant, product', variant')
    BY <1>1, <1>2, <2>4, <2>6, PhotosShown
  <2>9. Sees(p, Idle) \/ Sees(p, x)
    BY <1>5 DEF Goes, Sees
  <2>10. CASE Sees(p, Idle)
    <3>1. \A q \in Person \ {p} : Apart(Idle, page[q]) /\ Apart(page[q], Idle)
      BY IdleLess, ApartLess DEF IInv
    <3> QED BY <2>7, <2>8, <2>10, <3>1, IdleOk, PageTurned
  <2>11. CASE Sees(p, x)
    <3>1. /\ x.step = "read" /\ x.at = i /\ x.added = y.added /\ x.removed = y.removed /\ x.list = y.list
          /\ x \in PageRec
      BY <1>1, <1>2, <1>4 DEF PageRec, Naming, Listing
    <3>2. PhotosOk(x, product', jobs')
      BY <1>2, <2>4, <2>5, <2>7, <3>1 DEF PageOk, PhotosOk, Sending, Listing
    <3>3. PageOk(x, product', variant', jobs')
      BY <1>2, <2>7, <3>1, <3>2 DEF PageOk, FormOk, Looked, MakerOk, Filling, Making
    <3>4. Less(x, y)
      BY <3>1 DEF Less, Making, Sending
    <3>5. \A q \in Person \ {p} : Apart(x, page[q]) /\ Apart(page[q], x)
      BY <1>1, <3>4, ApartLess DEF IInv
    <3> QED BY <2>7, <2>8, <2>11, <3>3, <3>5, PageTurned
  <2> QED BY <2>9, <2>10, <2>11
<1> QED BY <1>6, <1>7

LEMMA WritePhotosKeeps == ASSUME IInv, NEW p \in Person, WritePhotos(p) PROVE IInv'
<1>1. PICK y, i : y = page[p] /\ i = y.at
  OBVIOUS
<1>2. /\ PageOk(y, product, variant, jobs) /\ y \in PageRec /\ y.step = "list" /\ i \in DOMAIN product
      /\ Shop(product, variant, jobs) /\ Whole(product, variant) /\ product \in Seq(ProductRec)
      /\ jobs' = jobs /\ jobs \in Nat /\ variant' = variant
  BY <1>1 DEF IInv, WritePhotos, At, PageOk, Shop, Naming, Listing
<1>3. PICK o \in Outcomes(product[i].live) :
        /\ product' = IF ~o.done THEN product
                      ELSE [product EXCEPT ![i].photos = y.list,
                                           ![i].off = IF o.heard THEN @ \cup y.removed ELSE @,
                                           ![i].crossed = @ \/ Crossing(p)]
        /\ Goes(p, product[i].live, o, Idle)
  BY <1>1 DEF WritePhotos
<1>4. PICK off : off = IF o.heard THEN product[i].off \cup y.removed ELSE product[i].off
  OBVIOUS
<1>5. PICK r : r = [product[i] EXCEPT !.photos = y.list, !.off = off,
                                      !.crossed = product[i].crossed \/ Crossing(p)]
  OBVIOUS
<1>6. Sees(p, Idle)
  BY <1>3 DEF Goes, Sees
<1>7. CASE ~o.done
  <2>1. Stands
    BY <1>2, <1>3, <1>7 DEF Stands
  <2> QED BY <1>6, <2>1, PageEnds
<1>8. CASE o.done
  <2>1. product[i] \in ProductRec
    BY <1>2, SeqFacts
  <2>2. product' = [product EXCEPT ![i] = r]
    BY <1>2, <1>3, <1>4, <1>5, <1>8
  <2>3. /\ y.list \subseteq 1..jobs /\ y.removed \subseteq 1..jobs /\ y.list \cap y.removed = {}
        /\ ~product[i].crossed => y.list \cap product[i].off = {}
    BY <1>1, <1>2 DEF PageOk, PhotosOk, Listing
  <2>4. Crossing(p) \in BOOLEAN /\ y.list \in SUBSET Nat /\ off \in SUBSET Nat /\ off \subseteq 1..jobs
    BY <1>2, <1>4, <2>3 DEF Crossing, Shop
  <2>5. r \in ProductRec /\ Shows(p, i, r, y.list) /\ r.off = off
    BY <1>5, <2>1, <2>4 DEF ProductRec, Shows
  <2>6. Edits(i, r)
    BY <1>2, <1>4, <2>2, <2>3, <2>4, <2>5 DEF Edits, Whole, Shows
  <2>7. \A q \in Person \ {p} : Spares(page[q], product, variant, product', variant')
    BY <1>1, <1>2, <1>4, <2>5, <2>6, PhotosShown
  <2>8. \A q \in Person \ {p} : Apart(Idle, page[q]) /\ Apart(page[q], Idle)
    BY IdleLess, ApartLess DEF IInv
  <2> QED BY <1>6, <2>6, <2>7, <2>8, Edited, IdleOk, PageTurned
<1> QED BY <1>7, <1>8
-----------------------------------------------------------------------------

\* A product that goes takes nothing from a page but the product.
LEMMA DeleteKeeps == ASSUME IInv, NEW i \in DOMAIN product, DeleteProduct(i) PROVE IInv'
<1>1. PICK r : r = [NewProduct(<<>>) EXCEPT !.live = FALSE]
  OBVIOUS
<1>2. r \in ProductRec /\ ~r.live /\ ~r.told /\ r.photos = {} /\ r.off = {} /\ ~r.crossed
  <2>1. <<>> \in Seq(Sku)
    OBVIOUS
  <2> QED BY <1>1, <2>1 DEF NewProduct, ProductRec
<1>3. product' = [product EXCEPT ![i] = r] /\ variant' = variant /\ jobs' = jobs /\ page' = page
  BY <1>1 DEF DeleteProduct
<1>4. Edits(i, r)
  BY <1>2, <1>3 DEF Edits
<1>5. /\ Lasting /\ Shop(product', variant', jobs') /\ Whole(product', variant')
      /\ Distinct(product', variant') /\ StayOff(product')
      /\ product'[i] = r /\ DOMAIN product' = DOMAIN product
      /\ \A j \in DOMAIN product : j # i => product'[j] = product[j]
  BY <1>4, Edited
<1>6. \A q \in Person : PageOk(page[q], product', variant', jobs')
  <2> TAKE q \in Person
  <2>1. PICK z : z = page[q]
    OBVIOUS
  <2>2. PageOk(z, product, variant, jobs) /\ Shop(product, variant, jobs)
    BY <2>1 DEF IInv
  <2>3. Spares(z, product, variant, product', variant')
    BY <1>2, <1>3, <1>5, <2>2 DEF Spares, PageOk, PhotosOk, Naming
  <2>4. PageOk(z, product', variant', jobs')
    BY <1>5, <2>2, <2>3, PageSpared DEF Lasting
  <2> QED BY <2>1, <2>4
<1>7. page' \in [Person -> PageRec] /\ \A p, q \in Person : p # q => Apart(page'[p], page'[q])
  BY <1>3 DEF IInv
<1> QED BY <1>3, <1>5, <1>6, <1>7 DEF IInv

LEMMA InitOk == Init => IInv
<1> SUFFICES ASSUME Init PROVE IInv
  OBVIOUS
<1>1. /\ product = <<>> /\ variant = <<>> /\ jobs = 0 /\ page = [p \in Person |-> Idle]
  BY DEF Init
<1>2. Shop(product, variant, jobs) /\ DOMAIN product = {} /\ DOMAIN variant = {}
  <2>1. <<>> \in Seq(ProductRec) /\ <<>> \in Seq(VariantRec) /\ DOMAIN <<>> = {}
    OBVIOUS
  <2> QED BY <1>1, <2>1 DEF Shop
<1>3. Whole(product, variant) /\ Distinct(product, variant) /\ StayOff(product)
  BY <1>2 DEF Whole, Distinct, StayOff
<1>4. Idle \in PageRec /\ \A p \in Person : page[p] = Idle /\ PageOk(page[p], product, variant, jobs)
  BY <1>1, IdleOk DEF PageOk
<1>5. Apart(Idle, Idle)
  BY IdleOk DEF Apart, Making, Sending
<1> QED BY <1>1, <1>2, <1>3, <1>4, <1>5 DEF IInv

LEMMA NextOk == IInv /\ [Next]_vars => IInv'
<1> SUFFICES ASSUME IInv, [Next]_vars PROVE IInv'
  OBVIOUS
<1>1. ASSUME NEW p \in Person, NEW form \in Forms, Submit(p, form) PROVE IInv'
  BY <1>1, SubmitKeeps
<1>2. ASSUME NEW p \in Person, NEW i \in 1..MaxVariants, CheckSku(p, i) PROVE IInv'
  BY <1>2, CheckSkuKeeps
<1>3. ASSUME NEW p \in Person, EndCheck(p) \/ CreateProduct(p) \/ CreateGroup(p) \/ AttachGroup(p)
                               \/ CreateVariant(p) \/ AfterMade(p)
      PROVE  IInv'
  BY <1>3, EndCheckKeeps, CreateProductKeeps, CreateGroupKeeps, AttachGroupKeeps, CreateVariantKeeps,
     AfterMadeKeeps
<1>4. ASSUME NEW p \in Person, NEW i \in DOMAIN product, NEW more \in BOOLEAN,
             NEW removed \in SUBSET product[i].photos, EditPhotos(p, i, removed, more)
      PROVE  IInv'
  BY <1>4, EditPhotosKeeps
<1>5. ASSUME NEW p \in Person, Upload(p) \/ Assign(p) \/ ReadPhotos(p) \/ WritePhotos(p) PROVE IInv'
  BY <1>5, UploadKeeps, AssignKeeps, ReadPhotosKeeps, WritePhotosKeeps
<1>6. ASSUME NEW i \in DOMAIN product, DeleteProduct(i) PROVE IInv'
  BY <1>6, DeleteKeeps
<1>7. ASSUME UNCHANGED vars PROVE IInv'
  BY <1>7 DEF vars, IInv
<1> QED BY <1>1, <1>2, <1>3, <1>4, <1>5, <1>6, <1>7 DEF Next

\* The catalogue, its pages and what they know of each other are as they should be
\* in every reachable state.
THEOREM Invariance == Spec => []IInv
  BY InitOk, NextOk, PTL DEF Spec

\* Two products on sale share a SKU only if the first appeared after the second had
\* looked the SKU up, or its lookup was not answered (validateProductInput).
THEOREM SkusStayDistinct == Spec => []SkusDistinct
<1>1. IInv => SkusDistinct
  BY DEF IInv, Distinct, SkusDistinct
<1> QED BY <1>1, Invariance, PTL

\* A product reported created is whole, whatever request failed on the way
\* (createProductWithVariants).
THEOREM CreatedProductsAreWhole == Spec => []CreatedIsWhole
<1>1. IInv => CreatedIsWhole
  <2> SUFFICES ASSUME IInv, NEW i \in DOMAIN product, product[i].told
               PROVE  /\ Cardinality(Of(i)) = Len(product[i].form)
                      /\ \A n \in DOMAIN product[i].form : \E v \in Of(i) : variant[v].sku = product[i].form[n]
                      /\ Len(product[i].form) > 1 => product[i].options
    BY DEF CreatedIsWhole
  <2>1. PICK form, S : form = product[i].form /\ S = Of(i)
    OBVIOUS
  <2>2. Owned(variant, i) = S
    BY <2>1 DEF Of, Owned
  <2>3. /\ product[i].live /\ Cardinality(S) = Len(form) /\ (Len(form) > 1 => product[i].options)
        /\ Lines(form, variant, i)
    BY <2>1, <2>2 DEF IInv, Whole
  <2>4. form \in Seq(Sku)
    <3>1. product \in Seq(ProductRec)
      BY DEF IInv, Shop
    <3>2. product[i] \in ProductRec
      BY <3>1, SeqFacts
    <3> QED BY <2>1, <3>2 DEF ProductRec
  <2>5. ASSUME NEW n \in DOMAIN form PROVE \E v \in S : variant[v].sku = form[n]
    <3>1. n <= Cardinality(S)
      BY <2>3, <2>4, SeqFacts
    <3>2. form[n] \in {variant[v].sku : v \in S}
      BY <2>2, <2>3, <3>1 DEF Lines
    <3> QED BY <3>2
  <2> QED BY <2>1, <2>3, <2>5
<1> QED BY <1>1, Invariance, PTL

\* A photo taken off a product stays off it, unless two editors of the product
\* overlapped (updateProductAssets).
THEOREM PhotosTakenOffStayOff == Spec => []RemovedPhotosStayOff
<1>1. IInv => RemovedPhotosStayOff
  BY DEF IInv, StayOff, RemovedPhotosStayOff
<1> QED BY <1>1, Invariance, PTL
-----------------------------------------------------------------------------
(* Inventory costing *)

Sources  == {"Purchase", "Adjustment", "Order", "WriteOff"} \X Id
Movement == [src : Sources, variant : Variants, qty : Int]
Batch    == [variant : Variants, qty : Nat, cost : Nat, expiry : Nat, src : Sources]

\* What a sale or write-off is doing, with n batches there.
Running(n) == [stage : {"verify", "allocate", "commit"}, doc : Issues, line : Nat,
               locks : SUBSET (1..n), own : UNION {[d -> Nat] : d \in SUBSET (1..n)},
               moves : SUBSET Movement, cost : Int]

\* A batch's quantity as r sees it, and the value r takes of each of the batches.
QtyIn(rows, r, i) == IF i \in DOMAIN r.own THEN r.own[i] ELSE rows[i].qty
TakenBy(rows, r) == [i \in DOMAIN rows |-> (rows[i].qty - QtyIn(rows, r, i)) * rows[i].cost]

\* r is at a line of its document, writes locked batches only, moves stock in the
\* name of the document, and charges what it takes.
RunOk(rows, r) ==
    /\ r \in Running(Len(rows)) /\ r.line \in DOMAIN r.doc.lines
    /\ DOMAIN r.own \subseteq r.locks
    /\ \A m \in r.moves : m.src = <<r.doc.kind, r.doc.id>>
    /\ r.cost = SumOver(TakenBy(rows, r), DOMAIN rows)

RunsOk(rows) == \A t \in Tx : run[t] = AtRest \/ RunOk(rows, run[t])

LocksApart == \A t, u \in Tx : t # u => run[t].locks \cap run[u].locks = {}

\* The movements of a purchase and its ledger entry come together.
PurchasesBooked(ms, book) ==
    \A p \in Purchases : (\E m \in ms : m.src = <<"Purchase", p.id>>)
                           <=> (\E e \in book : Source(e) = <<"InventoryPurchase", p.id>>)

SingleLine == \A p \in Purchases : Len(p.lines) = 1

Booked(book) == IsFiniteSet(book) /\ \A e \in book : e.amount \in Int

InventoryInv ==
    /\ batches \in Seq(Batch) /\ moves \in SUBSET Movement /\ Booked(journal)
    /\ DOMAIN run = Tx /\ RunsOk(batches) /\ LocksApart
    /\ PurchasesBooked(moves, journal)
    /\ SingleLine => ValuationMatchesLedger
-----------------------------------------------------------------------------
LEMMA SummedIs ==
    ASSUME NEW S, IsFiniteSet(S), NEW f, \A x \in S : f[x] \in Int
    PROVE  Summed(f, S) = SumOver(f, S) /\ Summed(f, S) \in Int
<1>1. MapThenSumSet(LAMBDA x : f[x], S) = SumOver(f, S) /\ SumOver(f, S) \in Int
  BY MapSum
<1> QED BY <1>1 DEF Summed

\* What a book says of the INVENTORY account.
InventoryOf(book) == Total({e \in book : e.dr = "INVENTORY"})
                       - Total({e \in book : e.cr = "INVENTORY"})

LEMMA TotalIs ==
    ASSUME NEW S, IsFiniteSet(S), \A e \in S : e.amount \in Int
    PROVE  Total(S) \in Int
<1>1. MapThenSumSet(LAMBDA x : x.amount, S) = SumOver(Amounts(S), S)
  BY AmountsSum
<1>2. \A x \in S : Amounts(S)[x] \in Int
  BY DEF Amounts
<1>3. SumOver(Amounts(S), S) \in Int
  BY <1>2, SumType
<1> QED BY <1>1, <1>3 DEF Total

LEMMA TotalGrows ==
    ASSUME NEW S, IsFiniteSet(S), NEW x, x \notin S, \A e \in S \cup {x} : e.amount \in Int
    PROVE  Total(S \cup {x}) = Total(S) + x.amount
<1> DEFINE T == S \cup {x}
<1>1. IsFiniteSet(T)
  BY FS_AddElement
<1>2. PICK f, g : f = Amounts(S) /\ g = Amounts(T)
  OBVIOUS
<1>3. /\ \A y \in S : f[y] \in Int /\ g[y] = f[y]
      /\ (\A y \in T : g[y] \in Int) /\ g[x] = x.amount
  BY <1>2 DEF Amounts
<1>4. SumOver(g, T) = SumOver(g, S) + g[x] /\ SumOver(g, S) = SumOver(f, S)
  BY <1>3, SumWith, SumSame
<1>5. MapThenSumSet(LAMBDA e : e.amount, S) = SumOver(f, S)
  BY <1>2, AmountsSum
<1>6. MapThenSumSet(LAMBDA e : e.amount, T) = SumOver(g, T)
  <2>1. \A y \in T : y.amount \in Int
    OBVIOUS
  <2> HIDE DEF T
  <2> QED BY <1>1, <1>2, <2>1, AmountsSum
<1>7. Total(T) = SumOver(g, T)
  BY <1>6 DEF Total
<1>8. Total(S) = SumOver(f, S)
  <2>1. S = {} => SumOver(f, S) = 0
    BY SumNone
  <2> QED BY <1>5, <2>1 DEF Total
<1> QED BY <1>3, <1>4, <1>7, <1>8

\* What PostTo does: an entry that is there already stands, and a new one counts
\* for the account it names.
LEMMA PostIs ==
    ASSUME NEW book, Booked(book), NEW kind, NEW id, NEW amount \in Int, NEW method,
           NEW end, end = PostTo(book, kind, id, amount, method)
    PROVE  /\ Booked(end)
           /\ \A s : (\E e \in end : Source(e) = s)
                       <=> (\E e \in book : Source(e) = s) \/ s = <<kind, id>>
           /\ (\E e \in book : Source(e) = <<kind, id>>) => end = book
           /\ ~(\E e \in book : Source(e) = <<kind, id>>) /\ kind = "InventoryPurchase" =>
                 InventoryOf(end) = InventoryOf(book) + amount
           /\ ~(\E e \in book : Source(e) = <<kind, id>>)
                 /\ kind \in {"InventorySaleCogs", "InventoryWriteOff"} /\ method = "other" =>
                 InventoryOf(end) = InventoryOf(book) - amount
           /\ InventoryOf(book) \in Int
<1> DEFINE r == [kind |-> kind, id |-> id, party |-> id, amount |-> amount, method |-> method]
           x == EntryOf(r, today)
           Old == \E e \in book : Source(e) = <<kind, id>>
<1>1. Source(r) = <<kind, id>> /\ Source(x) = <<kind, id>> /\ x.amount = amount
      /\ x.dr = DebitAccount(r) /\ x.cr = CreditAccount(r)
  BY DEF EntryOf, Source
<1>2. end = IF Old THEN book ELSE book \cup {x}
  BY <1>1 DEF PostTo
<1>3. /\ kind = "InventoryPurchase" => x.dr = "INVENTORY" /\ x.cr # "INVENTORY"
      /\ kind \in {"InventorySaleCogs", "InventoryWriteOff"} /\ method = "other" =>
            x.dr # "INVENTORY" /\ x.cr = "INVENTORY"
  BY <1>1 DEF DebitAccount, CreditAccount
<1> HIDE DEF r, x
<1>4. Booked(end)
  BY <1>1, <1>2, FS_AddElement DEF Booked
<1>5. \A s : (\E e \in end : Source(e) = s) <=> (\E e \in book : Source(e) = s) \/ s = <<kind, id>>
  BY <1>1, <1>2
<1>6. PICK D, C : D = {e \in book : e.dr = "INVENTORY"} /\ C = {e \in book : e.cr = "INVENTORY"}
  OBVIOUS
<1>7. /\ IsFiniteSet(D) /\ IsFiniteSet(C) /\ \A e \in D \cup C : e.amount \in Int
  BY <1>6, FS_Subset DEF Booked
<1>8. Total(D) \in Int /\ Total(C) \in Int /\ InventoryOf(book) = Total(D) - Total(C)
  BY <1>6, <1>7, TotalIs DEF InventoryOf
<1>9. ASSUME ~Old, x.dr = "INVENTORY", x.cr # "INVENTORY"
      PROVE  InventoryOf(end) = InventoryOf(book) + amount
  <2>1. {e \in end : e.dr = "INVENTORY"} = D \cup {x} /\ {e \in end : e.cr = "INVENTORY"} = C
    BY <1>2, <1>6, <1>9
  <2>2. x \notin D
    BY <1>1, <1>6, <1>9
  <2>3. Total(D \cup {x}) = Total(D) + amount
    BY <1>1, <1>7, <2>2, TotalGrows
  <2>4. InventoryOf(end) = Total(D \cup {x}) - Total(C)
    BY <2>1 DEF InventoryOf
  <2> QED BY <1>8, <2>3, <2>4
<1>10. ASSUME ~Old, x.dr # "INVENTORY", x.cr = "INVENTORY"
       PROVE  InventoryOf(end) = InventoryOf(book) - amount
  <2>1. {e \in end : e.dr = "INVENTORY"} = D /\ {e \in end : e.cr = "INVENTORY"} = C \cup {x}
    BY <1>2, <1>6, <1>10
  <2>2. x \notin C
    BY <1>1, <1>6, <1>10
  <2>3. Total(C \cup {x}) = Total(C) + amount
    BY <1>1, <1>7, <2>2, TotalGrows
  <2>4. InventoryOf(end) = Total(D) - Total(C \cup {x})
    BY <2>1 DEF InventoryOf
  <2> QED BY <1>8, <2>3, <2>4
<1> QED BY <1>2, <1>3, <1>4, <1>5, <1>8, <1>9, <1>10

LEMMA InventoryData ==
    /\ \A p \in Purchases : p.lines \in Seq(PurchaseLine) /\ p.lines # <<>> /\ p.id \in Id
    /\ \A d \in Issues : /\ d.lines \in Seq(IssueLine) /\ d.lines # <<>> /\ d.id \in Id
                         /\ d.kind \in {"Order", "WriteOff"}
    /\ \A a \in Adjustments : /\ a.lines \in Seq([variant : Variants, qty : Int])
                              /\ a.id \in Id
  BY InventoryAssumption DEF InventoryAssumption

\* The batches, summand by summand.
LEMMA RowFacts ==
    ASSUME NEW rows \in Seq(Batch)
    PROVE  /\ Len(rows) \in Nat /\ DOMAIN rows = 1..Len(rows) /\ IsFiniteSet(DOMAIN rows)
           /\ \A i \in DOMAIN rows :
                 /\ rows[i] \in Batch /\ rows[i].variant \in Variants /\ rows[i].qty \in Nat
                 /\ rows[i].cost \in Nat /\ rows[i].expiry \in Nat
           /\ \A r \in Running(Len(rows)) :
                 /\ DOMAIN r.own \subseteq DOMAIN rows /\ r.locks \subseteq DOMAIN rows
                 /\ \A i \in DOMAIN r.own : r.own[i] \in Nat
                 /\ \A i \in DOMAIN rows : QtyIn(rows, r, i) \in Nat
                 /\ \A i \in DOMAIN rows : TakenBy(rows, r)[i] \in Int
                 /\ SumOver(TakenBy(rows, r), DOMAIN rows) \in Int
<1>1. /\ Len(rows) \in Nat /\ DOMAIN rows = 1..Len(rows) /\ IsFiniteSet(DOMAIN rows)
      /\ \A i \in DOMAIN rows : rows[i] \in Batch
  BY SeqFacts
<1>2. \A i \in DOMAIN rows : rows[i].variant \in Variants /\ rows[i].qty \in Nat
                              /\ rows[i].cost \in Nat /\ rows[i].expiry \in Nat
  BY <1>1 DEF Batch
<1>3. ASSUME NEW r \in Running(Len(rows))
      PROVE  /\ DOMAIN r.own \subseteq DOMAIN rows /\ r.locks \subseteq DOMAIN rows
             /\ \A i \in DOMAIN r.own : r.own[i] \in Nat
             /\ \A i \in DOMAIN rows : QtyIn(rows, r, i) \in Nat
             /\ \A i \in DOMAIN rows : TakenBy(rows, r)[i] \in Int
             /\ SumOver(TakenBy(rows, r), DOMAIN rows) \in Int
  <2>1. PICK d \in SUBSET (1..Len(rows)) : r.own \in [d -> Nat]
    BY DEF Running
  <2>2. \A i \in DOMAIN rows : QtyIn(rows, r, i) \in Nat
    BY <1>2, <2>1 DEF QtyIn
  <2>3. \A i \in DOMAIN rows : TakenBy(rows, r)[i] \in Int
    BY <1>2, <2>2 DEF TakenBy
  <2>4. SumOver(TakenBy(rows, r), DOMAIN rows) \in Int
    BY <1>1, <2>3, SumType
  <2>5. r.locks \subseteq DOMAIN rows
    BY <1>1 DEF Running
  <2> QED BY <1>1, <2>1, <2>2, <2>3, <2>4, <2>5
<1> QED BY <1>1, <1>2, <1>3

\* A step of one transaction that the books do not see.
LEMMA RunStep ==
    ASSUME InventoryInv, NEW t \in Tx, NEW r,
           r = AtRest \/ RunOk(batches, r),
           \A u \in Tx \ {t} : r.locks \cap run[u].locks = {},
           run' = [run EXCEPT ![t] = r],
           UNCHANGED <<batches, moves, journal, rerun>>
    PROVE  InventoryInv'
<1>1. DOMAIN run' = Tx /\ run'[t] = r /\ \A u \in Tx \ {t} : run'[u] = run[u]
  BY DEF InventoryInv
<1>2. \A u \in Tx : run'[u] = AtRest \/ RunOk(batches, run'[u])
  <2> TAKE u \in Tx
  <2>1. CASE u = t
    BY <1>1, <2>1
  <2>2. CASE u # t
    <3>1. run'[u] = run[u]
      BY <1>1, <2>2
    <3> QED BY <3>1 DEF InventoryInv, RunsOk
  <2> QED BY <2>1, <2>2
<1>3. LocksApart'
  <2> SUFFICES ASSUME NEW u \in Tx, NEW v \in Tx, u # v
               PROVE  run'[u].locks \cap run'[v].locks = {}
    BY DEF LocksApart
  <2>1. CASE u = t
    BY <1>1, <2>1
  <2>2. CASE v = t
    BY <1>1, <2>2
  <2>3. CASE u # t /\ v # t
    BY <1>1, <2>3 DEF InventoryInv, LocksApart
  <2> QED BY <2>1, <2>2, <2>3
<1>4. RunsOk(batches)'
  BY <1>2 DEF RunsOk
<1>5. ValuationMatchesLedger' <=> ValuationMatchesLedger
  BY DEF ValuationMatchesLedger, Valuation, LedgerInventory
<1> QED BY <1>1, <1>3, <1>4, <1>5 DEF InventoryInv

LEMMA AtRestOk ==
    ASSUME InventoryInv, NEW t \in Tx
    PROVE  /\ RollBack(t) => InventoryInv'
           /\ run[t] # AtRest => RunOk(batches, run[t])
           /\ run[t].stage # "idle" => run[t] # AtRest
<1>1. AtRest.locks = {} /\ AtRest.stage = "idle"
  BY DEF AtRest
<1>2. ASSUME RollBack(t) PROVE InventoryInv'
  BY <1>1, <1>2, RunStep DEF RollBack
<1> QED BY <1>1, <1>2 DEF InventoryInv, RunsOk

LEMMA StartOk ==
    ASSUME InventoryInv, NEW d \in Issues
    PROVE  RunOk(batches, Started(d)) /\ Started(d).locks = {}
<1>1. /\ d.lines \in Seq(IssueLine) /\ d.lines # <<>> /\ d.kind \in {"Order", "WriteOff"}
      /\ FirstStage(d) \in {"verify", "allocate"}
  BY InventoryData DEF FirstStage
<1>2. 1 \in DOMAIN d.lines
  <2>1. Len(d.lines) \in Nat /\ DOMAIN d.lines = 1..Len(d.lines) /\ Len(d.lines) # 0
    BY <1>1, SeqFacts, EmptySeq
  <2> QED BY <2>1
<1>3. batches \in Seq(Batch)
  BY DEF InventoryInv
<1> DEFINE r == Started(d)
           n == Len(batches)
<1>4. r = [stage |-> FirstStage(d), doc |-> d, line |-> 1, locks |-> {}, own |-> <<>>,
           moves |-> {}, cost |-> 0]
  BY DEF Started
<1>5. <<>> \in [{} -> Nat] /\ {} \in SUBSET (1..n) /\ DOMAIN <<>> = {}
  OBVIOUS
<1>6. r \in Running(n)
  <2>1. <<>> \in UNION {[k -> Nat] : k \in SUBSET (1..n)}
    BY <1>5
  <2>2. {} \in SUBSET Movement /\ 0 \in Int /\ 1 \in Nat
    OBVIOUS
  <2>3. PICK stage \in {"verify", "allocate", "commit"} : stage = FirstStage(d)
    BY <1>1
  <2>4. r = [stage |-> stage, doc |-> d, line |-> 1, locks |-> {}, own |-> <<>>,
             moves |-> {}, cost |-> 0]
    BY <1>4, <2>3
  <2> HIDE DEF r
  <2> QED BY <1>5, <2>1, <2>2, <2>4 DEF Running
<1>7. \A i \in DOMAIN batches : TakenBy(batches, r)[i] = 0
  <2> TAKE i \in DOMAIN batches
  <2>1. QtyIn(batches, r, i) = batches[i].qty
    BY <1>4, <1>5 DEF QtyIn
  <2>2. PICK q \in Nat, c \in Nat : batches[i].qty = q /\ batches[i].cost = c
    BY <1>3, RowFacts
  <2>3. TakenBy(batches, r)[i] = (q - q) * c
    BY <2>1, <2>2 DEF TakenBy
  <2>4. (q - q) * c = 0
    OBVIOUS
  <2> QED BY <2>3, <2>4
<1>8. SumOver(TakenBy(batches, r), DOMAIN batches) = 0
  <2>1. PICK f, S : f = TakenBy(batches, r) /\ S = DOMAIN batches
    OBVIOUS
  <2>2. IsFiniteSet(S) /\ (\A y \in S : f[y] = 0)
    BY <1>3, <1>7, <2>1, RowFacts
  <2>3. SumOver(f, S) = SumOver(f, {})
    BY <2>2, SumSupport
  <2> QED BY <2>1, <2>3, SumNone
<1>9. r.cost = 0 /\ r.line = 1 /\ r.doc = d /\ r.moves = {} /\ r.locks = {} /\ DOMAIN r.own = {}
  BY <1>4, <1>5
<1> QED BY <1>2, <1>6, <1>8, <1>9 DEF RunOk

LEMMA BeginKeeps ==
    ASSUME InventoryInv, NEW t \in Tx, NEW d \in Issues, Begin(t, d)
    PROVE  InventoryInv'
  BY StartOk, RunStep DEF Begin

LEMMA VerifyKeeps == ASSUME InventoryInv, NEW t \in Tx, Verify(t) PROVE InventoryInv'
<1>1. CASE RollBack(t)
  BY <1>1, AtRestOk
<1>2. CASE ~RollBack(t)
  <2> DEFINE q == [run[t] EXCEPT !.stage = "allocate"]
  <2>1. /\ run' = [run EXCEPT ![t] = q] /\ UNCHANGED <<batches, moves, journal, rerun>>
        /\ run[t].stage = "verify"
    BY <1>2 DEF Verify
  <2>2. RunOk(batches, run[t])
    BY <2>1, AtRestOk
  <2>3. PICK r \in Running(Len(batches)) : r = run[t]
    BY <2>2 DEF RunOk
  <2>4. /\ q \in Running(Len(batches)) /\ q.line = r.line /\ q.doc = r.doc /\ q.own = r.own
        /\ q.locks = r.locks /\ q.moves = r.moves /\ q.cost = r.cost
    BY <2>3 DEF Running
  <2> HIDE DEF q
  <2>5. TakenBy(batches, q) = TakenBy(batches, r)
    BY <2>4 DEF TakenBy, QtyIn
  <2>6. RunOk(batches, q)
    BY <2>2, <2>3, <2>4, <2>5 DEF RunOk
  <2>7. \A u \in Tx \ {t} : q.locks \cap run[u].locks = {}
    BY <2>3, <2>4 DEF InventoryInv, LocksApart
  <2> QED BY <2>1, <2>6, <2>7, RunStep
<1> QED BY <1>1, <1>2

\* The batch that getOpenBatchesForConsumption puts first.
LEMMA FirstIs ==
    ASSUME NEW open \in SUBSET DOMAIN batches, open # {}, batches \in Seq(Batch)
    PROVE  FirstOf(open) \in open
<1>1. \A i \in open : i \in Nat /\ batches[i].expiry \in Nat
  BY RowFacts
<1> DEFINE Days == {batches[i].expiry : i \in open}
<1>2. Days \in SUBSET Nat /\ Days # {}
  BY <1>1
<1>3. PICK day \in Days : \A e \in Days : day <= e
  BY <1>2, LeastNumber
<1> DEFINE First == {i \in open : batches[i].expiry = day}
<1>4. First \in SUBSET Nat /\ First # {}
  BY <1>1, <1>3
<1>5. PICK i \in First : \A j \in First : i <= j
  BY <1>4, LeastNumber
<1>6. \A j \in open \ {i} : Before(i, j)
  <2> TAKE j \in open \ {i}
  <2>1. /\ i \in Nat /\ j \in Nat /\ i # j /\ batches[i].expiry = day
        /\ batches[j].expiry \in Nat /\ day \in Nat /\ day <= batches[j].expiry
    BY <1>1, <1>2, <1>3
  <2>2. CASE batches[j].expiry = day
    <3>1. i <= j
      BY <1>5, <2>2
    <3> QED BY <2>1, <2>2, <3>1 DEF Before
  <2>3. CASE batches[j].expiry # day
    BY <2>1, <2>3 DEF Before
  <2> QED BY <2>2, <2>3
<1>7. \E k \in open : \A j \in open \ {k} : Before(k, j)
  BY <1>6
<1> QED BY <1>7 DEF FirstOf

\* What is taken of a batch is no more than there is.
LEMMA TakenIs ==
    ASSUME InventoryInv, NEW t \in Tx, run[t] # AtRest
    PROVE  /\ Line(t).variant \in Variants /\ Line(t).qty \in Nat
           /\ Open(t) \in SUBSET DOMAIN batches /\ IsFiniteSet(Open(t))
           /\ \A i \in Open(t) : /\ TakenFrom(t, i) \in Nat
                                  /\ TakenFrom(t, i) <= QtyIn(batches, run[t], i)
<1>1. batches \in Seq(Batch) /\ RunOk(batches, run[t])
  BY AtRestOk DEF InventoryInv
<1>2. PICK r \in Running(Len(batches)) : r = run[t]
  BY <1>1 DEF RunOk
<1>3. r.doc \in Issues /\ r.line \in DOMAIN r.doc.lines
  BY <1>1, <1>2 DEF RunOk, Running
<1>4. Line(t) \in IssueLine
  <2>1. r.doc.lines \in Seq(IssueLine)
    BY <1>3, InventoryData
  <2>2. r.doc.lines[r.line] \in IssueLine
    BY <1>3, <2>1, SeqFacts
  <2> QED BY <1>2, <2>2 DEF Line
<1>5. Line(t).variant \in Variants /\ Line(t).qty \in Nat
  BY <1>4 DEF IssueLine
<1>6. Open(t) \in SUBSET DOMAIN batches /\ IsFiniteSet(Open(t))
  <2>1. IsFiniteSet(DOMAIN batches)
    BY <1>1, RowFacts
  <2> QED BY <2>1, FS_Subset DEF Open
<1>7. \A i \in DOMAIN batches : Qty(t, i) = QtyIn(batches, r, i) /\ QtyIn(batches, r, i) \in Nat
  BY <1>1, <1>2, RowFacts DEF Qty, QtyIn
<1>8. ASSUME NEW i \in Open(t)
      PROVE  TakenFrom(t, i) \in Nat /\ TakenFrom(t, i) <= QtyIn(batches, run[t], i)
  <2>1. PICK S : S = {j \in Open(t) : Before(j, i)}
    OBVIOUS
  <2>2. PICK f : f = [j \in S |-> Qty(t, j)]
    OBVIOUS
  <2>3. IsFiniteSet(S) /\ \A j \in S : f[j] \in Int
    BY <1>6, <1>7, <2>1, <2>2, FS_Subset
  <2>4. SumQty(t, S) \in Int
    BY <2>2, <2>3, SummedIs DEF SumQty
  <2>5. PICK need \in Int : need = Line(t).qty - SumQty(t, S)
    BY <1>5, <2>4
  <2>6. PICK q \in Nat : q = Qty(t, i) /\ q = QtyIn(batches, run[t], i)
    BY <1>2, <1>6, <1>7
  <2>7. TakenFrom(t, i) = IF need <= 0 THEN 0 ELSE IF need < q THEN need ELSE q
    BY <2>1, <2>5, <2>6 DEF TakenFrom
  <2> QED BY <2>6, <2>7
<1> QED BY <1>5, <1>6, <1>8

LEMMA ConsumeKeeps == ASSUME InventoryInv, NEW t \in Tx, Consume(t) PROVE InventoryInv'
<1>1. CASE RollBack(t)
  BY <1>1, AtRestOk
<1>2. CASE ~RollBack(t)
  <2> DEFINE open == Open(t)
             used == {i \in open : TakenFrom(t, i) > 0}
             n == Len(batches)
             q == WithLine(t)
             value == [i \in used |-> TakenFrom(t, i) * batches[i].cost]
  <2>1. /\ run' = [run EXCEPT ![t] = q] /\ UNCHANGED <<batches, moves, journal, rerun>>
        /\ run[t].stage = "allocate" /\ Blockers(t) = {} /\ open # {}
    BY <1>2 DEF Consume
  <2>2. run[t] # AtRest /\ RunOk(batches, run[t]) /\ batches \in Seq(Batch)
    BY <2>1, AtRestOk DEF InventoryInv
  <2>3. PICK r \in Running(n) : r = run[t]
    BY <2>2 DEF RunOk
  <2>4. /\ Line(t).variant \in Variants /\ open \in SUBSET DOMAIN batches
        /\ IsFiniteSet(open)
        /\ \A i \in open : TakenFrom(t, i) \in Nat /\ TakenFrom(t, i) <= QtyIn(batches, r, i)
    BY <2>2, <2>3, TakenIs
  <2>5. /\ n \in Nat /\ DOMAIN batches = 1..n /\ IsFiniteSet(1..n)
        /\ \A i \in 1..n : batches[i].qty \in Nat /\ batches[i].cost \in Nat
        /\ DOMAIN r.own \subseteq 1..n /\ r.locks \subseteq 1..n
        /\ \A i \in 1..n : QtyIn(batches, r, i) \in Nat /\ TakenBy(batches, r)[i] \in Int
        /\ SumOver(TakenBy(batches, r), 1..n) \in Int
    BY <2>2, RowFacts
  <2>6. /\ r.doc \in Issues /\ r.line \in DOMAIN r.doc.lines /\ r.doc.lines \in Seq(IssueLine)
        /\ r.doc.kind \in {"Order", "WriteOff"} /\ r.doc.id \in Id
        /\ r.moves \in SUBSET Movement /\ \A m \in r.moves : m.src = <<r.doc.kind, r.doc.id>>
        /\ r.cost = SumOver(TakenBy(batches, r), 1..n) /\ DOMAIN r.own \subseteq r.locks
    BY <2>2, <2>3, <2>5, InventoryData DEF RunOk, Running
  <2>7. \A i \in 1..n : Qty(t, i) = QtyIn(batches, r, i)
    BY <2>3 DEF Qty, QtyIn
  <2> HIDE DEF open, n
  <2>8. PICK stage \in {"verify", "allocate", "commit"}, line \in DOMAIN r.doc.lines :
           /\ stage = (IF r.line = Len(r.doc.lines) THEN "commit" ELSE FirstStage(r.doc))
           /\ line = (IF r.line = Len(r.doc.lines) THEN r.line ELSE r.line + 1)
    <3>1. DOMAIN r.doc.lines = 1..Len(r.doc.lines) /\ Len(r.doc.lines) \in Nat
      BY <2>6, SeqFacts
    <3>2. FirstStage(r.doc) \in {"verify", "allocate", "commit"}
      BY DEF FirstStage
    <3>3. (IF r.line = Len(r.doc.lines) THEN r.line ELSE r.line + 1) \in DOMAIN r.doc.lines
      BY <2>6, <3>1
    <3> QED BY <3>2, <3>3
  <2>9. PICK own : /\ own = [i \in DOMAIN r.own \cup used |->
                               Qty(t, i) - IF i \in used THEN TakenFrom(t, i) ELSE 0]
                   /\ own \in UNION {[d -> Nat] : d \in SUBSET (1..n)}
                   /\ DOMAIN own = DOMAIN r.own \cup used
    <3> DEFINE own == [i \in DOMAIN r.own \cup used |->
                               Qty(t, i) - IF i \in used THEN TakenFrom(t, i) ELSE 0]
               d == DOMAIN r.own \cup used
    <3>1. d \in SUBSET (1..n)
      BY <2>4, <2>5
    <3>2. \A i \in d : own[i] \in Nat
      <4> TAKE i \in d
      <4>1. PICK k \in Nat : k = Qty(t, i) /\ k = QtyIn(batches, r, i)
        BY <2>5, <2>7, <3>1
      <4>2. CASE i \in used
        <5>1. PICK x \in Nat : x = TakenFrom(t, i) /\ x <= k
          BY <2>4, <4>1, <4>2
        <5>2. own[i] = k - x
          <6> HIDE DEF used
          <6> QED BY <4>1, <4>2, <5>1
        <5> HIDE DEF own
        <5> QED BY <5>1, <5>2
      <4>3. CASE i \notin used
        <5>1. own[i] = k - 0
          <6> HIDE DEF used
          <6> QED BY <4>1, <4>3
        <5> HIDE DEF own
        <5> QED BY <5>1
      <4> HIDE DEF own, used
      <4> QED BY <4>2, <4>3
    <3>3. own \in [d -> Nat]
      BY <3>2
    <3> QED BY <3>1, <3>3
  <2>10. PICK ms \in SUBSET Movement :
            /\ ms = IF used = {} THEN r.moves
                    ELSE CreateMovement(moves \cup r.moves, SourceOf(t), Line(t).variant,
                                        -TakenFrom(t, FirstOf(open))) \ moves
            /\ \A m \in ms : m.src = <<r.doc.kind, r.doc.id>>
    <3>1. SourceOf(t) = <<r.doc.kind, r.doc.id>>
      BY <2>3 DEF SourceOf
    <3>2. SourceOf(t) \in Sources
      BY <2>6, <3>1 DEF Sources
    <3>3. PICK k \in Int : k = -TakenFrom(t, FirstOf(open))
      <4>1. FirstOf(open) \in open
        BY <2>1, <2>2, <2>4, FirstIs
      <4> QED BY <2>4, <4>1
    <3> DEFINE m0 == [src |-> SourceOf(t), variant |-> Line(t).variant, qty |-> k]
    <3>4. m0 \in Movement /\ m0.src = <<r.doc.kind, r.doc.id>>
      BY <2>4, <3>1, <3>2 DEF Movement
    <3>5. CreateMovement(moves \cup r.moves, SourceOf(t), Line(t).variant, k) \ moves
             \subseteq r.moves \cup {m0}
      BY DEF CreateMovement
    <3> HIDE DEF m0
    <3> QED BY <2>6, <3>3, <3>4, <3>5
  <2>11. PICK cost \in Int : cost = r.cost + Summed(value, used) /\ cost = r.cost + SumOver(value, used)
    <3>1. IsFiniteSet(used) /\ \A i \in used : value[i] \in Int
      <4>1. IsFiniteSet(used)
        BY <2>4, FS_Subset
      <4>2. ASSUME NEW i \in used PROVE value[i] \in Int
        <5>1. TakenFrom(t, i) \in Nat /\ batches[i].cost \in Nat
          BY <2>4, <2>5
        <5> QED BY <5>1
      <4> QED BY <4>1, <4>2
    <3>2. PICK f : f = value
      OBVIOUS
    <3>3. Summed(f, used) = SumOver(f, used) /\ Summed(f, used) \in Int
      BY <3>1, <3>2, SummedIs
    <3> HIDE DEF value, used
    <3> QED BY <2>5, <2>6, <3>2, <3>3
  <2>12. q = [r EXCEPT !.stage = stage, !.line = line, !.locks = @ \cup open, !.own = own,
                       !.moves = ms, !.cost = cost]
    BY <2>3, <2>8, <2>9, <2>10, <2>11 DEF WithLine, open
  <2> HIDE DEF q, used, value
  <2>13. /\ q \in Running(n) /\ q.line = line /\ q.doc = r.doc /\ q.locks = r.locks \cup open
         /\ q.own = own /\ q.moves = ms /\ q.cost = cost
    <3>1. PICK locks \in SUBSET (1..n) : locks = r.locks \cup open
      BY <2>4, <2>5
    <3>2. line \in Nat
      <4>1. DOMAIN r.doc.lines = 1..Len(r.doc.lines)
        BY <2>6, SeqFacts
      <4> QED BY <4>1
    <3>3. q = [r EXCEPT !.stage = stage, !.line = line, !.locks = locks, !.own = own,
                        !.moves = ms, !.cost = cost]
      BY <2>12, <3>1
    <3> QED BY <2>9, <3>1, <3>2, <3>3 DEF Running
  <2>14. cost = SumOver(TakenBy(batches, q), 1..n)
    <3> DEFINE f == TakenBy(batches, r)
               e == TakenBy(batches, q)
               g == [i \in 1..n |-> IF i \in used THEN value[i] ELSE 0]
    <3>1. ASSUME NEW i \in 1..n
          PROVE  f[i] \in Int /\ g[i] \in Int /\ e[i] = f[i] + g[i]
                 /\ (i \in used => value[i] \in Int)
      <4>1. PICK b \in Nat, c \in Nat, k \in Nat :
               b = batches[i].qty /\ c = batches[i].cost /\ k = QtyIn(batches, r, i)
        BY <2>5
      <4>2. f[i] = (b - k) * c
        BY <2>5, <4>1 DEF TakenBy
      <4>3. e[i] = (b - QtyIn(batches, q, i)) * c
        BY <2>5, <4>1 DEF TakenBy
      <4>4. CASE i \in used
        <5>1. PICK x \in Nat : x = TakenFrom(t, i)
          BY <2>4, <4>4 DEF used
        <5>2. QtyIn(batches, q, i) = k - x
          BY <2>7, <2>9, <2>13, <4>1, <4>4, <5>1 DEF QtyIn
        <5>3. g[i] = x * c /\ value[i] = x * c
          BY <4>1, <4>4, <5>1 DEF value
        <5>4. (b - (k - x)) * c = (b - k) * c + x * c
          OBVIOUS
        <5> HIDE DEF e, f, g
        <5> QED BY <4>2, <4>3, <5>2, <5>3, <5>4
      <4>5. CASE i \notin used
        <5>1. QtyIn(batches, q, i) = k
          <6>1. i \in DOMAIN r.own => own[i] = k
            BY <2>7, <2>9, <4>1, <4>5
          <6> QED BY <2>9, <2>13, <4>1, <4>5, <6>1 DEF QtyIn
        <5>2. g[i] = 0
          BY <4>5
        <5> HIDE DEF e, f, g
        <5> QED BY <4>2, <4>3, <4>5, <5>1, <5>2
      <4> QED BY <4>4, <4>5
    <3>2. SumOver(e, 1..n) = SumOver(f, 1..n) + SumOver(g, 1..n)
      <4> HIDE DEF e, f, g
      <4>1. \A i \in 1..n : f[i] \in Int /\ g[i] \in Int /\ e[i] = f[i] + g[i]
        BY <3>1
      <4>2. IsFiniteSet(1..n)
        BY <2>5
      <4> QED BY <4>1, <4>2, SumPlus
    <3>3. SumOver(g, 1..n) = SumOver(value, used)
      <4>1. used \in SUBSET (1..n) /\ IsFiniteSet(used)
        BY <2>4, <2>5, FS_Subset DEF used
      <4>2. (\A i \in used : value[i] \in Int /\ g[i] = value[i])
            /\ (\A i \in (1..n) \ used : g[i] = 0) /\ (\A i \in 1..n : g[i] \in Int)
        BY <3>1, <4>1
      <4> HIDE DEF g
      <4>3. SumOver(g, 1..n) = SumOver(g, used)
        <5>1. \A i \in 1..n : g[i] \in Int
          BY <4>2
        <5>2. \A i \in (1..n) \ used : g[i] = 0
          BY <4>2
        <5>3. IsFiniteSet(1..n) /\ used \in SUBSET (1..n)
          BY <2>5, <4>1
        <5> HIDE DEF n
        <5> QED BY <5>1, <5>2, <5>3, SumSupport
      <4>4. SumOver(g, used) = SumOver(value, used)
        BY <4>1, <4>2, SumSame
      <4> QED BY <4>3, <4>4
    <3> HIDE DEF e, f, g
    <3>4. SumOver(e, 1..n) = r.cost + SumOver(value, used)
      BY <2>6, <3>2, <3>3 DEF f
    <3> QED BY <2>11, <3>4 DEF e
  <2>15. RunOk(batches, q)
    <3>1. DOMAIN q.own \subseteq q.locks
      BY <2>6, <2>9, <2>13 DEF used
    <3>2. q.line \in DOMAIN q.doc.lines
      BY <2>13
    <3>3. q.cost = SumOver(TakenBy(batches, q), DOMAIN batches)
      BY <2>5, <2>13, <2>14
    <3> QED BY <2>10, <2>13, <3>1, <3>2, <3>3 DEF RunOk, n
  <2>16. \A u \in Tx \ {t} : q.locks \cap run[u].locks = {}
    <3> TAKE u \in Tx \ {t}
    <3>1. r.locks \cap run[u].locks = {}
      BY <2>3 DEF InventoryInv, LocksApart
    <3>2. run[u].locks \cap open = {}
      BY <2>1 DEF Blockers, open
    <3> QED BY <2>13, <3>1, <3>2
  <2> QED BY <2>1, <2>15, <2>16, RunStep
<1> QED BY <1>1, <1>2

\* What the batches are worth.
Values(rows) == [i \in DOMAIN rows |-> rows[i].qty * rows[i].cost]

LEMMA WorthIs ==
    ASSUME NEW rows \in Seq(Batch)
    PROVE  /\ Summed(Values(rows), DOMAIN rows) = SumOver(Values(rows), DOMAIN rows)
           /\ SumOver(Values(rows), DOMAIN rows) \in Int
<1>1. PICK f, S : f = Values(rows) /\ S = DOMAIN rows
  OBVIOUS
<1>2. IsFiniteSet(S) /\ \A i \in S : f[i] \in Int
  BY <1>1, RowFacts DEF Values
<1>3. Summed(f, S) = SumOver(f, S) /\ Summed(f, S) \in Int
  BY <1>2, SummedIs
<1> QED BY <1>1, <1>3

\* A commit that writes what r sees leaves the others what they see, and lowers
\* the value of the batches by what r charges.
LEMMA CommitRows ==
    ASSUME NEW rows \in Seq(Batch), NEW r, RunOk(rows, r),
           NEW end, end = [i \in DOMAIN rows |-> [rows[i] EXCEPT !.qty = QtyIn(rows, r, i)]]
    PROVE  /\ end \in Seq(Batch)
           /\ \A ru : RunOk(rows, ru) /\ r.locks \cap ru.locks = {} => RunOk(end, ru)
           /\ SumOver(Values(rows), DOMAIN rows) = SumOver(Values(end), DOMAIN end) + r.cost
           /\ SumOver(Values(end), DOMAIN end) \in Int /\ r.cost \in Int
<1> DEFINE n == Len(rows)
<1>1. /\ n \in Nat /\ DOMAIN rows = 1..n /\ IsFiniteSet(1..n) /\ r \in Running(n)
      /\ \A i \in 1..n : rows[i] \in Batch /\ rows[i].qty \in Nat /\ rows[i].cost \in Nat
      /\ \A i \in 1..n : QtyIn(rows, r, i) \in Nat /\ TakenBy(rows, r)[i] \in Int
  BY RowFacts DEF RunOk
<1> HIDE DEF n
<1>2. ASSUME NEW i \in 1..n
      PROVE  end[i] \in Batch /\ end[i].qty = QtyIn(rows, r, i) /\ end[i].cost = rows[i].cost
  <2>1. PICK b \in Batch, k \in Nat : b = rows[i] /\ k = QtyIn(rows, r, i)
    BY <1>1
  <2>2. end[i] = [b EXCEPT !.qty = k]
    BY <1>1, <2>1
  <2>3. [b EXCEPT !.qty = k] \in Batch /\ [b EXCEPT !.qty = k].qty = k
        /\ [b EXCEPT !.qty = k].cost = b.cost
    BY DEF Batch
  <2> QED BY <2>1, <2>2, <2>3
<1>3. DOMAIN end = 1..n /\ end \in [1..n -> Batch]
  BY <1>1, <1>2
<1>4. end \in Seq(Batch) /\ Len(end) = n
  BY <1>1, <1>3
<1>5. ASSUME NEW ru, RunOk(rows, ru), r.locks \cap ru.locks = {}
      PROVE  RunOk(end, ru)
  <2>1. /\ ru \in Running(n) /\ ru.line \in DOMAIN ru.doc.lines /\ DOMAIN ru.own \subseteq ru.locks
        /\ \A m \in ru.moves : m.src = <<ru.doc.kind, ru.doc.id>>
        /\ ru.cost = SumOver(TakenBy(rows, ru), 1..n) /\ DOMAIN r.own \subseteq r.locks
    BY <1>1, <1>5 DEF RunOk, n
  <2>2. ASSUME NEW i \in 1..n
        PROVE  TakenBy(rows, ru)[i] \in Int /\ TakenBy(end, ru)[i] = TakenBy(rows, ru)[i]
    <3>1. TakenBy(rows, ru)[i] \in Int
      BY <1>1, <2>1, RowFacts DEF n
    <3>2. PICK b \in Nat, c \in Nat, k \in Nat :
             /\ b = rows[i].qty /\ c = rows[i].cost /\ k = QtyIn(rows, r, i)
             /\ end[i].qty = k /\ end[i].cost = c
      BY <1>1, <1>2
    <3>3. /\ TakenBy(rows, ru)[i] = (b - QtyIn(rows, ru, i)) * c
          /\ TakenBy(end, ru)[i] = (k - QtyIn(end, ru, i)) * c
      BY <1>1, <1>3, <3>2 DEF TakenBy
    <3>4. CASE i \in DOMAIN ru.own
      <4>1. k = b
        BY <2>1, <3>2, <3>4, <1>5 DEF QtyIn
      <4>2. QtyIn(rows, ru, i) = QtyIn(end, ru, i)
        BY <3>4 DEF QtyIn
      <4> QED BY <3>1, <3>3, <4>1, <4>2
    <3>5. CASE i \notin DOMAIN ru.own
      <4>1. QtyIn(rows, ru, i) = b /\ QtyIn(end, ru, i) = k
        BY <3>2, <3>5 DEF QtyIn
      <4>2. TakenBy(rows, ru)[i] = (b - b) * c /\ TakenBy(end, ru)[i] = (k - k) * c
        BY <3>3, <4>1
      <4>3. (b - b) * c = 0 /\ (k - k) * c = 0
        OBVIOUS
      <4> QED BY <3>1, <4>2, <4>3
    <3> QED BY <3>4, <3>5
  <2>3. SumOver(TakenBy(end, ru), 1..n) = SumOver(TakenBy(rows, ru), 1..n)
    <3>1. PICK f, e : f = TakenBy(rows, ru) /\ e = TakenBy(end, ru)
      OBVIOUS
    <3>2. \A i \in 1..n : f[i] \in Int /\ e[i] = f[i]
      BY <2>2, <3>1
    <3>3. SumOver(e, 1..n) = SumOver(f, 1..n)
      BY <1>1, <3>2, SumSame
    <3> QED BY <3>1, <3>3
  <2> QED BY <1>3, <1>4, <2>1, <2>3 DEF RunOk
<1>6. \A i \in 1..n : /\ Values(end)[i] \in Int /\ TakenBy(rows, r)[i] \in Int
                       /\ Values(rows)[i] = Values(end)[i] + TakenBy(rows, r)[i]
  <2> TAKE i \in 1..n
  <2>1. PICK b \in Nat, c \in Nat, k \in Nat :
           /\ b = rows[i].qty /\ c = rows[i].cost /\ k = QtyIn(rows, r, i)
           /\ end[i].qty = k /\ end[i].cost = c
    BY <1>1, <1>2
  <2>2. /\ Values(rows)[i] = b * c /\ Values(end)[i] = k * c
        /\ TakenBy(rows, r)[i] = (b - k) * c
    BY <1>1, <1>3, <2>1 DEF Values, TakenBy
  <2>3. b * c = k * c + (b - k) * c /\ k * c \in Int
    OBVIOUS
  <2> QED BY <1>1, <2>2, <2>3
<1>7. /\ SumOver(Values(rows), 1..n)
            = SumOver(Values(end), 1..n) + SumOver(TakenBy(rows, r), 1..n)
      /\ SumOver(Values(end), 1..n) \in Int /\ SumOver(TakenBy(rows, r), 1..n) \in Int
  <2>1. PICK f, g, e : f = Values(end) /\ g = TakenBy(rows, r) /\ e = Values(rows)
    OBVIOUS
  <2>2. \A i \in 1..n : f[i] \in Int /\ g[i] \in Int /\ e[i] = f[i] + g[i]
    BY <1>6, <2>1
  <2>3. /\ SumOver(e, 1..n) = SumOver(f, 1..n) + SumOver(g, 1..n)
        /\ SumOver(f, 1..n) \in Int /\ SumOver(g, 1..n) \in Int
    BY <1>1, <2>2, SumPlus, SumType
  <2> QED BY <2>1, <2>3
<1>8. r.cost = SumOver(TakenBy(rows, r), 1..n)
  BY <1>1 DEF RunOk
<1> QED BY <1>1, <1>3, <1>4, <1>5, <1>7, <1>8

LEMMA CommitKeeps == ASSUME InventoryInv, NEW t \in Tx, Commit(t) PROVE InventoryInv'
<1>1. run[t].stage = "commit" /\ RunOk(batches, run[t]) /\ batches \in Seq(Batch)
  BY AtRestOk DEF InventoryInv, Commit
<1>2. PICK r \in Running(Len(batches)) : r = run[t]
  BY <1>1 DEF RunOk
<1>3. /\ r.doc \in Issues /\ r.doc.kind \in {"Order", "WriteOff"}
      /\ r.moves \in SUBSET Movement /\ r.cost \in Int
      /\ \A m \in r.moves : m.src = <<r.doc.kind, r.doc.id>>
  BY <1>1, <1>2, InventoryData DEF RunOk, Running
<1>4. PICK kind \in {"InventorySaleCogs", "InventoryWriteOff"} :
         kind = (IF r.doc.kind = "Order" THEN "InventorySaleCogs" ELSE "InventoryWriteOff")
  OBVIOUS
<1>5. /\ batches' = [i \in DOMAIN batches |-> [batches[i] EXCEPT !.qty = QtyIn(batches, r, i)]]
      /\ moves' = moves \cup r.moves
      /\ journal' = PostTo(journal, kind, r.doc.id, r.cost, "other")
      /\ run' = [run EXCEPT ![t] = AtRest]
      /\ rerun' = (rerun \/ journal' = journal)
  BY <1>2, <1>4 DEF Commit, Qty, QtyIn
<1>6. /\ batches' \in Seq(Batch)
      /\ \A ru : RunOk(batches, ru) /\ r.locks \cap ru.locks = {} => RunOk(batches', ru)
      /\ SumOver(Values(batches), DOMAIN batches)
            = SumOver(Values(batches'), DOMAIN batches') + r.cost
      /\ SumOver(Values(batches'), DOMAIN batches') \in Int
  <2>1. PICK rows, end : rows = batches /\ end = batches'
    OBVIOUS
  <2>2. /\ rows \in Seq(Batch) /\ RunOk(rows, r)
        /\ end = [i \in DOMAIN rows |-> [rows[i] EXCEPT !.qty = QtyIn(rows, r, i)]]
    BY <1>1, <1>2, <1>5, <2>1
  <2>3. /\ end \in Seq(Batch)
        /\ \A ru : RunOk(rows, ru) /\ r.locks \cap ru.locks = {} => RunOk(end, ru)
        /\ SumOver(Values(rows), DOMAIN rows) = SumOver(Values(end), DOMAIN end) + r.cost
        /\ SumOver(Values(end), DOMAIN end) \in Int
    BY <2>2, CommitRows
  <2> QED BY <2>1, <2>3
<1>7. moves' \in SUBSET Movement
  BY <1>3, <1>5 DEF InventoryInv
<1>8. /\ Booked(journal')
      /\ \A s : (\E e \in journal' : Source(e) = s)
                   <=> (\E e \in journal : Source(e) = s) \/ s = <<kind, r.doc.id>>
      /\ journal' # journal => InventoryOf(journal') = InventoryOf(journal) - r.cost
      /\ InventoryOf(journal) \in Int
  <2>1. PICK book, end : book = journal /\ end = journal'
    OBVIOUS
  <2>2. Booked(book) /\ end = PostTo(book, kind, r.doc.id, r.cost, "other")
    BY <1>5, <2>1 DEF InventoryInv
  <2>3. /\ Booked(end)
        /\ \A s : (\E e \in end : Source(e) = s)
                     <=> (\E e \in book : Source(e) = s) \/ s = <<kind, r.doc.id>>
        /\ end # book => InventoryOf(end) = InventoryOf(book) - r.cost
        /\ InventoryOf(book) \in Int
    BY <1>3, <2>2, PostIs
  <2> QED BY <2>1, <2>3
<1>9. DOMAIN run' = Tx /\ run'[t] = AtRest /\ \A u \in Tx \ {t} : run'[u] = run[u]
  BY <1>5 DEF InventoryInv
<1>10. RunsOk(batches)'
  <2> SUFFICES ASSUME NEW u \in Tx, run'[u] # AtRest PROVE RunOk(batches', run'[u])
    BY DEF RunsOk
  <2>1. u # t /\ run'[u] = run[u]
    BY <1>9
  <2>2. RunOk(batches, run[u]) /\ r.locks \cap run[u].locks = {}
    BY <1>2, <2>1 DEF InventoryInv, RunsOk, LocksApart
  <2> QED BY <1>6, <2>1, <2>2
<1>11. LocksApart'
  <2> SUFFICES ASSUME NEW u \in Tx, NEW v \in Tx, u # v
               PROVE  run'[u].locks \cap run'[v].locks = {}
    BY DEF LocksApart
  <2>1. CASE u = t \/ v = t
    BY <1>9, <2>1 DEF AtRest
  <2>2. CASE u # t /\ v # t
    BY <1>9, <2>2 DEF InventoryInv, LocksApart
  <2> QED BY <2>1, <2>2
<1>12. PurchasesBooked(moves, journal)'
  <2>1. \A p \in Purchases : (\E m \in moves' : m.src = <<"Purchase", p.id>>)
                               <=> (\E m \in moves : m.src = <<"Purchase", p.id>>)
    <3> TAKE p \in Purchases
    <3>1. \A m \in r.moves : m.src # <<"Purchase", p.id>>
      BY <1>3
    <3> QED BY <1>5, <3>1
  <2>2. \A p \in Purchases : (\E e \in journal' : Source(e) = <<"InventoryPurchase", p.id>>)
                               <=> (\E e \in journal : Source(e) = <<"InventoryPurchase", p.id>>)
    <3> TAKE p \in Purchases
    <3>1. <<"InventoryPurchase", p.id>> # <<kind, r.doc.id>>
      OBVIOUS
    <3> QED BY <1>8, <3>1
  <2> QED BY <2>1, <2>2 DEF InventoryInv, PurchasesBooked
<1>13. SingleLine => ValuationMatchesLedger'
  <2> SUFFICES ASSUME SingleLine, ~rerun' PROVE Valuation' = LedgerInventory'
    BY DEF ValuationMatchesLedger
  <2>1. ~rerun /\ journal' # journal
    BY <1>5
  <2>2. Valuation = LedgerInventory
    BY <2>1 DEF InventoryInv, ValuationMatchesLedger
  <2>3. Valuation = SumOver(Values(batches), DOMAIN batches)
    BY <1>1, WorthIs DEF Valuation, Values
  <2>4. Valuation' = SumOver(Values(batches'), DOMAIN batches')
    BY <1>6, WorthIs DEF Valuation, Values
  <2>5. LedgerInventory = InventoryOf(journal) /\ LedgerInventory' = InventoryOf(journal')
    BY DEF LedgerInventory, InventoryOf
  <2>6. PICK v \in Int, w \in Int, c \in Int :
           v = Valuation' /\ w = InventoryOf(journal) /\ c = r.cost
    BY <1>3, <1>6, <1>8, <2>4
  <2>7. w = v + c /\ LedgerInventory' = w - c
    BY <1>6, <1>8, <2>1, <2>2, <2>3, <2>4, <2>5, <2>6
  <2> QED BY <2>6, <2>7
<1> QED BY <1>6, <1>7, <1>8, <1>9, <1>10, <1>11, <1>12, <1>13 DEF InventoryInv

\* The batch and the movement of one line of a purchase.
Booking(s, src, l) == [bs |-> CreateBatch(s.bs, s.ms, src, l),
                       ms |-> CreateMovement(s.ms, src, l.variant, l.qty)]

AllBooked(base, src, lines) == FoldLeft(LAMBDA s, l : Booking(s, src, l), base, lines)

\* What a purchase leaves is what one of its lines does: the others find the
\* movement of the purchase already there.
LEMMA PurchaseIs ==
    ASSUME NEW lines \in Seq(PurchaseLine), lines # <<>>, NEW base, NEW src
    PROVE  \E k \in DOMAIN lines :
              AllBooked(base, src, lines) = Booking(base, src, lines[k])
<1> DEFINE n == Len(lines)
           Turn(h, s) == IF s = {} THEN base ELSE Booking(h[s \ {Max(s)}], src, lines[Max(s)])
           Fold(h) == h = [s \in SUBSET DOMAIN lines |-> Turn(h, s)]
           end == CHOOSE h : Fold(h)
           B == {Booking(base, src, lines[k]) : k \in 1..n}
           A == B \cup {base}
           turn == [kv \in (1..n) \X A |-> Booking(kv[2], src, lines[kv[1]])]
<1>1. n \in Nat /\ DOMAIN lines = 1..n /\ n # 0
  BY SeqFacts, EmptySeq
<1>2. AllBooked(base, src, lines) = end[DOMAIN lines]
  BY DEF AllBooked, FoldLeft, MapThenFoldSet
<1>3. \A l, k : Booking(Booking(base, src, l), src, k) = Booking(base, src, l)
  <2> TAKE l, k
  <2>1. PICK bs, ms : bs = CreateBatch(base.bs, base.ms, src, l)
                      /\ ms = CreateMovement(base.ms, src, l.variant, l.qty)
    OBVIOUS
  <2>2. \E m \in ms : m.src = src
    <3>1. CASE \E m \in base.ms : m.src = src
      BY <2>1, <3>1 DEF CreateMovement
    <3>2. CASE ~ \E m \in base.ms : m.src = src
      <4>1. PICK m : m = [src |-> src, variant |-> l.variant, qty |-> l.qty]
        OBVIOUS
      <4>2. ms = base.ms \cup {m}
        BY <2>1, <3>2, <4>1 DEF CreateMovement
      <4> QED BY <4>1, <4>2
    <3> QED BY <3>1, <3>2
  <2>3. CreateBatch(bs, ms, src, k) = bs /\ CreateMovement(ms, src, k.variant, k.qty) = ms
    BY <2>2 DEF CreateBatch, CreateMovement
  <2>4. Booking(base, src, l) = [bs |-> bs, ms |-> ms]
    BY <2>1 DEF Booking
  <2> QED BY <2>3, <2>4 DEF Booking
<1>4. \A k \in 1..n, v \in A : Booking(v, src, lines[k]) \in B /\ turn[<<k, v>>] \in A
                               /\ turn[<<k, v>>] = Booking(v, src, lines[k])
  BY <1>3
<1> HIDE DEF n, turn
<1>5. \E h : Fold(h)
  <2>1. PICK h : FoldsAlong(h, base, turn, n) /\ \A s \in SUBSET (1..n) : h[s] \in A
    <3> HIDE DEF A
    <3>1. base \in A
      BY DEF A
    <3>2. \A k \in 1..n, v \in A : turn[<<k, v>>] \in A
      BY <1>4
    <3>3. n \in Nat
      BY <1>1
    <3> QED BY <3>1, <3>2, <3>3, FoldStays
  <2>2. \A s \in SUBSET (1..n) : h[s] = Turn(h, s)
    <3> TAKE s \in SUBSET (1..n)
    <3>1. CASE s = {}
      BY <2>1, <3>1 DEF FoldsAlong
    <3>2. CASE s # {}
      <4>1. Max(s) \in 1..n /\ s \ {Max(s)} \in SUBSET (1..n)
        BY <1>1, <3>2, LastPosition
      <4>2. PICK k \in 1..n, v \in A : k = Max(s) /\ v = h[s \ {Max(s)}]
        BY <2>1, <4>1
      <4>3. h[s] = turn[<<k, v>>]
        BY <2>1, <3>2, <4>2 DEF FoldsAlong
      <4> QED BY <1>4, <3>2, <4>2, <4>3
    <3> QED BY <3>1, <3>2
  <2>3. h = [s \in SUBSET (1..n) |-> h[s]]
    BY <2>1 DEF FoldsAlong
  <2> HIDE DEF Turn
  <2>4. Fold(h)
    BY <1>1, <2>2, <2>3
  <2> QED BY <2>4
<1>6. \A s \in SUBSET (1..n) : end[s] = Turn(end, s)
  <2>1. Fold(end)
    BY <1>5
  <2> HIDE DEF Turn, end
  <2> QED BY <1>1, <2>1
<1> HIDE DEF end
<1> DEFINE P == {s \in SUBSET (1..n) : s = {} \/ end[s] \in B}
<1>7. ASSUME NEW s \in SUBSET (1..n), s # {}, s \ {Max(s)} \in P PROVE s \in P
  <2>1. PICK k \in 1..n : k = Max(s)
    BY <1>1, <1>7, LastPosition
  <2>2. end[s] = Booking(end[s \ {Max(s)}], src, lines[k])
    BY <1>6, <1>7, <2>1
  <2>3. end[s \ {Max(s)}] \in A
    BY <1>6, <1>7
  <2>4. end[s] \in B
    <3> HIDE DEF A, B
    <3> QED BY <1>4, <2>2, <2>3
  <2> QED BY <2>4
<1>8. P = SUBSET (1..n)
  <2>1. P \in SUBSET (SUBSET (1..n)) /\ {} \in P
    OBVIOUS
  <2> HIDE DEF P
  <2> QED BY <1>1, <1>7, <2>1, AlongPositions
<1>9. end[1..n] \in B
  <2>1. 1..n \in P /\ 1 \in 1..n
    BY <1>1, <1>8
  <2> QED BY <2>1
<1> QED BY <1>1, <1>2, <1>9

AdjustmentLine == [variant : Variants, qty : Int]

AllMoved(ms, src, lines) ==
    FoldLeft(LAMBDA s, l : CreateMovement(s, src, l.variant, l.qty), ms, lines)

\* The movements ms may have become end by one of the source src.
MovesFrom(src, ms, end) ==
    /\ end \in SUBSET Movement
    /\ \A s : s # src => ((\E m \in end : m.src = s) <=> (\E m \in ms : m.src = s))

\* The movements that an adjustment leaves.
LEMMA AdjustmentIs ==
    ASSUME NEW lines \in Seq(AdjustmentLine), NEW src \in Sources, NEW ms \in SUBSET Movement
    PROVE  MovesFrom(src, ms, AllMoved(ms, src, lines))
<1> DEFINE n == Len(lines)
           Row(k) == [src |-> src, variant |-> lines[k].variant, qty |-> lines[k].qty]
           Move(s, k) == CreateMovement(s, src, lines[k].variant, lines[k].qty)
           Turn(h, s) == IF s = {} THEN ms ELSE Move(h[s \ {Max(s)}], Max(s))
           Fold(h) == h = [s \in SUBSET DOMAIN lines |-> Turn(h, s)]
           last == CHOOSE h : Fold(h)
           A == {s \in SUBSET Movement : ms \subseteq s /\ \A m \in s \ ms : m.src = src}
           turn == [kv \in (1..n) \X A |-> Move(kv[2], kv[1])]
<1>1. n \in Nat /\ DOMAIN lines = 1..n /\ \A k \in 1..n : Row(k) \in Movement
  <2>1. n \in Nat /\ DOMAIN lines = 1..n
    BY SeqFacts
  <2>2. \A k \in 1..n : lines[k] \in AdjustmentLine
    BY <2>1, SeqFacts
  <2> QED BY <2>1, <2>2 DEF Movement, AdjustmentLine
<1>2. AllMoved(ms, src, lines) = last[DOMAIN lines]
  BY DEF AllMoved, FoldLeft, MapThenFoldSet
<1>3. \A k \in 1..n, v \in A : Move(v, k) \in A
  <2> TAKE k \in 1..n, v \in A
  <2>1. Move(v, k) = v \/ Move(v, k) = v \cup {Row(k)}
    BY DEF CreateMovement
  <2>2. Row(k) \in Movement /\ Row(k).src = src
    BY <1>1
  <2> HIDE DEF Row, Move
  <2> QED BY <2>1, <2>2
<1>4. \A k \in 1..n, v \in A : turn[<<k, v>>] = Move(v, k) /\ turn[<<k, v>>] \in A
  BY <1>3
<1>5. ms \in A
  OBVIOUS
<1> HIDE DEF n, turn, A, Move
<1>6. PICK h : FoldsAlong(h, ms, turn, n) /\ \A s \in SUBSET (1..n) : h[s] \in A
  <2>1. \A k \in 1..n, v \in A : turn[<<k, v>>] \in A
    BY <1>4
  <2>2. n \in Nat
    BY <1>1
  <2> QED BY <1>5, <2>1, <2>2, FoldStays
<1>7. Fold(h)
  <2>1. \A s \in SUBSET (1..n) : h[s] = Turn(h, s)
    <3> TAKE s \in SUBSET (1..n)
    <3>1. CASE s = {}
      BY <1>6, <3>1 DEF FoldsAlong
    <3>2. CASE s # {}
      <4>1. PICK k \in 1..n, v \in A : k = Max(s) /\ v = h[s \ {Max(s)}]
        BY <1>1, <1>6, <3>2, LastPosition
      <4>2. h[s] = turn[<<k, v>>]
        BY <1>6, <3>2, <4>1 DEF FoldsAlong
      <4> QED BY <1>4, <3>2, <4>1, <4>2
    <3> QED BY <3>1, <3>2
  <2>2. h = [s \in SUBSET (1..n) |-> h[s]]
    BY <1>6 DEF FoldsAlong
  <2> HIDE DEF Turn
  <2> QED BY <1>1, <2>1, <2>2
<1>8. \A s \in SUBSET (1..n) : last[s] = Turn(last, s)
  <2>1. Fold(last)
    BY <1>7
  <2> HIDE DEF Turn, last
  <2> QED BY <1>1, <2>1
<1> HIDE DEF last
<1> DEFINE P == {s \in SUBSET (1..n) : last[s] \in A}
<1>9. ASSUME NEW s \in SUBSET (1..n), s # {}, s \ {Max(s)} \in P PROVE s \in P
  <2>1. PICK k \in 1..n, v \in A : k = Max(s) /\ v = last[s \ {Max(s)}]
    BY <1>1, <1>9, LastPosition
  <2>2. last[s] = Move(v, k)
    BY <1>8, <1>9, <2>1
  <2> QED BY <1>3, <2>1, <2>2
<1>10. P = SUBSET (1..n)
  <2>1. P \in SUBSET (SUBSET (1..n)) /\ {} \in P
    BY <1>5, <1>8
  <2> HIDE DEF P
  <2> QED BY <1>1, <1>9, <2>1, AlongPositions
<1>11. AllMoved(ms, src, lines) \in A
  <2>1. 1..n \in P
    BY <1>10
  <2> QED BY <1>1, <1>2, <2>1
<1> QED BY <1>11 DEF A, MovesFrom

\* The cost of each of the lines of a purchase.
LineCosts(lines) == [k \in 1..Len(lines) |-> lines[k].qty * lines[k].cost]

LEMMA CostIs ==
    ASSUME NEW lines \in Seq(PurchaseLine)
    PROVE  /\ Cost(lines) \in Int
           /\ Len(lines) = 1 => Cost(lines) = lines[1].qty * lines[1].cost
<1> DEFINE n == Len(lines)
           f == LineCosts(lines)
           Fold(h) == h = [s \in SUBSET DOMAIN lines |->
                             IF s = {} THEN 0
                             ELSE h[s \ {Max(s)}] + lines[Max(s)].qty * lines[Max(s)].cost]
           last == CHOOSE h : Fold(h)
<1>1. n \in Nat /\ DOMAIN lines = 1..n /\ \A k \in 1..n : f[k] = lines[k].qty * lines[k].cost
  BY SeqFacts DEF LineCosts
<1>2. \A k \in 1..n : f[k] \in Int
  <2> TAKE k \in 1..n
  <2>1. lines[k] \in PurchaseLine
    BY <1>1, SeqFacts
  <2>2. lines[k].qty \in Nat /\ lines[k].cost \in Nat
    BY <2>1 DEF PurchaseLine
  <2> QED BY <1>1, <2>2
<1>3. Cost(lines) = last[DOMAIN lines]
  BY DEF Cost, FoldLeft, MapThenFoldSet
<1> HIDE DEF f, n
<1>4. \A h : Fold(h) <=> InTurn(h, 0, f, n)
  <2>1. ASSUME NEW h, NEW s \in SUBSET (1..n)
        PROVE  (IF s = {} THEN 0
                ELSE h[s \ {Max(s)}] + lines[Max(s)].qty * lines[Max(s)].cost)
                 = (IF s = {} THEN 0 ELSE h[s \ {Max(s)}] + f[Max(s)])
    <3>1. CASE s = {}
      BY <3>1
    <3>2. CASE s # {}
      <4>1. lines[Max(s)].qty * lines[Max(s)].cost = f[Max(s)]
        BY <1>1, <3>2, LastPosition
      <4> QED BY <4>1
    <3> QED BY <3>1, <3>2
  <2> QED BY <1>1, <2>1 DEF InTurn
<1>5. last = (CHOOSE h : InTurn(h, 0, f, n))
  BY <1>4
<1> HIDE DEF last
<1>6. last[1..n] = 0 + SumOver(f, 1..n) /\ SumOver(f, 1..n) \in Int /\ IsFiniteSet(1..n)
  <2>1. n \in Nat /\ IsFiniteSet(1..n) /\ 0 \in Int
    BY <1>1, FS_Interval
  <2>2. SumOver(f, 1..n) \in Int
    BY <1>2, <2>1, SumType
  <2>3. last[1..n] = 0 + SumOver(f, 1..n)
    BY <1>2, <1>5, <2>1, InTurnIs
  <2> QED BY <2>1, <2>2, <2>3
<1>7. Cost(lines) = SumOver(f, 1..n)
  BY <1>1, <1>3, <1>6
<1>8. ASSUME n = 1 PROVE Cost(lines) = lines[1].qty * lines[1].cost
  <2>1. 1..n = {1} /\ 1 \in 1..n /\ {1} \ {1} = {}
    BY <1>8
  <2>2. SumOver(f, {1}) = f[1] + SumOver(f, {})
    BY <1>2, <1>6, <2>1, SumWithout
  <2>3. SumOver(f, {1}) = f[1]
    BY <1>2, <2>1, <2>2, SumNone
  <2> QED BY <1>1, <1>7, <2>1, <2>3
<1> QED BY <1>6, <1>7, <1>8 DEF n

\* A batch more leaves every sale and write-off what it takes, and adds its value.
LEMMA MoreRows ==
    ASSUME NEW rows \in Seq(Batch), NEW b \in Batch, NEW end, end = Append(rows, b)
    PROVE  /\ end \in Seq(Batch)
           /\ \A r : RunOk(rows, r) => RunOk(end, r)
           /\ SumOver(Values(end), DOMAIN end)
                 = SumOver(Values(rows), DOMAIN rows) + b.qty * b.cost
<1> DEFINE n == Len(rows)
           m == n + 1
<1>1. /\ n \in Nat /\ DOMAIN rows = 1..n /\ IsFiniteSet(1..n)
      /\ \A i \in 1..n : rows[i].qty \in Nat /\ rows[i].cost \in Nat
  BY RowFacts
<1>2. /\ end \in Seq(Batch) /\ Len(end) = m /\ DOMAIN end = 1..m /\ end[m] = b
      /\ \A i \in 1..n : end[i] = rows[i]
  BY <1>1
<1>3. 1..m = (1..n) \cup {m} /\ m \notin 1..n /\ 1..n \subseteq 1..m /\ m \in Nat
  BY <1>1
<1>4. b.qty \in Nat /\ b.cost \in Nat
  BY DEF Batch
<1> HIDE DEF n, m
<1>5. ASSUME NEW r, RunOk(rows, r) PROVE RunOk(end, r)
  <2>1. /\ r \in Running(n) /\ r.line \in DOMAIN r.doc.lines /\ DOMAIN r.own \subseteq r.locks
        /\ \A x \in r.moves : x.src = <<r.doc.kind, r.doc.id>>
        /\ r.cost = SumOver(TakenBy(rows, r), 1..n)
    BY <1>1, <1>5 DEF RunOk, n
  <2>2. r \in Running(m)
    <3>1. r.locks \in SUBSET (1..m) /\ r.own \in UNION {[d -> Nat] : d \in SUBSET (1..m)}
      <4>1. r.locks \in SUBSET (1..n) /\ r.own \in UNION {[d -> Nat] : d \in SUBSET (1..n)}
        BY <2>1 DEF Running
      <4>2. PICK d \in SUBSET (1..n) : r.own \in [d -> Nat]
        BY <4>1
      <4>3. d \in SUBSET (1..m)
        BY <1>3, <4>2
      <4> QED BY <1>3, <4>1, <4>2, <4>3
    <3> QED BY <2>1, <3>1 DEF Running
  <2>3. PICK f, g : f = TakenBy(rows, r) /\ g = TakenBy(end, r)
    OBVIOUS
  <2>4. \A i \in 1..n : f[i] \in Int /\ g[i] = f[i]
    <3> TAKE i \in 1..n
    <3>1. f[i] \in Int
      BY <1>1, <2>1, <2>3, RowFacts DEF n
    <3>2. QtyIn(rows, r, i) = QtyIn(end, r, i)
      BY <1>2 DEF QtyIn
    <3>3. f[i] = (rows[i].qty - QtyIn(rows, r, i)) * rows[i].cost
          /\ g[i] = (end[i].qty - QtyIn(end, r, i)) * end[i].cost
      BY <1>1, <1>2, <1>3, <2>3 DEF TakenBy
    <3> QED BY <1>2, <3>1, <3>2, <3>3
  <2>5. g[m] = 0
    <3>1. DOMAIN r.own \subseteq 1..n
      BY <1>1, <2>1, RowFacts DEF n
    <3>2. QtyIn(end, r, m) = b.qty
      BY <1>2, <1>3, <3>1 DEF QtyIn
    <3>3. PICK k \in Nat, c \in Nat : k = b.qty /\ c = b.cost
      BY <1>4
    <3>4. g[m] = (k - k) * c
      BY <1>2, <1>3, <2>3, <3>2, <3>3 DEF TakenBy
    <3>5. (k - k) * c = 0
      OBVIOUS
    <3> QED BY <3>4, <3>5
  <2>6. SumOver(g, 1..m) = SumOver(f, 1..n)
    <3>1. SumOver(g, 1..n) = SumOver(f, 1..n)
      BY <1>1, <2>4, SumSame
    <3>2. \A i \in (1..n) \cup {m} : g[i] \in Int
      BY <2>4, <2>5
    <3>3. SumOver(g, (1..n) \cup {m}) = SumOver(g, 1..n) + g[m] /\ SumOver(g, 1..n) \in Int
      BY <1>1, <1>3, <3>2, SumWith
    <3>4. PICK w \in Int : w = SumOver(g, 1..n)
      BY <3>3
    <3>5. SumOver(g, 1..m) = w + 0
      BY <1>3, <2>5, <3>3, <3>4
    <3> QED BY <3>1, <3>4, <3>5
  <2>7. r.cost = SumOver(TakenBy(end, r), DOMAIN end)
    BY <1>2, <2>1, <2>3, <2>6
  <2> QED BY <1>2, <2>1, <2>2, <2>7 DEF RunOk
<1>6. SumOver(Values(end), 1..m) = SumOver(Values(rows), 1..n) + b.qty * b.cost
  <2>1. PICK f, g : f = Values(rows) /\ g = Values(end)
    OBVIOUS
  <2>2. (\A i \in 1..n : f[i] \in Int /\ g[i] = f[i]) /\ g[m] = b.qty * b.cost /\ g[m] \in Int
    BY <1>1, <1>2, <1>3, <1>4, <2>1 DEF Values
  <2>3. SumOver(g, 1..n) = SumOver(f, 1..n)
    BY <1>1, <2>2, SumSame
  <2>4. SumOver(g, (1..n) \cup {m}) = SumOver(g, 1..n) + g[m]
    <3>1. \A i \in (1..n) \cup {m} : g[i] \in Int
      BY <2>2
    <3> QED BY <1>1, <1>3, <3>1, SumWith
  <2> QED BY <1>3, <2>1, <2>2, <2>3, <2>4
<1> QED BY <1>1, <1>2, <1>5, <1>6

LEMMA RecordPurchaseKeeps ==
    ASSUME InventoryInv, NEW p \in Purchases, RecordPurchase(p)
    PROVE  InventoryInv'
<1> DEFINE src == <<"Purchase", p.id>>
           Old == \E m \in moves : m.src = src
<1>1. p.lines \in Seq(PurchaseLine) /\ p.lines # <<>> /\ p.id \in Id /\ src \in Sources
  BY InventoryData DEF Sources
<1>2. PICK k \in DOMAIN p.lines :
         /\ batches' = CreateBatch(batches, moves, src, p.lines[k])
         /\ moves' = CreateMovement(moves, src, p.lines[k].variant, p.lines[k].qty)
  <2> DEFINE base == [bs |-> batches, ms |-> moves]
             end == AllBooked(base, src, p.lines)
  <2>1. batches' = end.bs /\ moves' = end.ms
    BY DEF RecordPurchase, AllBooked, Booking
  <2>2. PICK b0, s0, lines : b0 = base /\ s0 = src /\ lines = p.lines
    OBVIOUS
  <2>3. PICK k \in DOMAIN lines : AllBooked(b0, s0, lines) = Booking(b0, s0, lines[k])
    <3>1. lines \in Seq(PurchaseLine) /\ lines # <<>>
      BY <1>1, <2>2
    <3> QED BY <3>1, PurchaseIs
  <2>4. end = Booking(base, src, p.lines[k]) /\ k \in DOMAIN p.lines
    BY <2>2, <2>3
  <2> HIDE DEF end
  <2> QED BY <2>1, <2>4 DEF Booking
<1>3. PICK l \in PurchaseLine : l = p.lines[k]
  BY <1>1, SeqFacts
<1>4. l.variant \in Variants /\ l.qty \in Nat /\ l.cost \in Nat /\ l.expiry \in Nat
  BY DEF PurchaseLine
<1>5. PICK b, m0 :
         /\ b = [variant |-> l.variant, qty |-> l.qty, cost |-> l.cost, expiry |-> l.expiry,
                 src |-> src]
         /\ m0 = [src |-> src, variant |-> l.variant, qty |-> l.qty]
         /\ b \in Batch /\ b.qty = l.qty /\ b.cost = l.cost /\ m0 \in Movement /\ m0.src = src
  <2>1. PICK b : b = [variant |-> l.variant, qty |-> l.qty, cost |-> l.cost,
                      expiry |-> l.expiry, src |-> src]
    OBVIOUS
  <2>2. b \in Batch /\ b.qty = l.qty /\ b.cost = l.cost
    BY <1>1, <1>4, <2>1 DEF Batch
  <2>3. PICK m0 : m0 = [src |-> src, variant |-> l.variant, qty |-> l.qty]
    OBVIOUS
  <2>4. m0 \in Movement /\ m0.src = src
    BY <1>1, <1>4, <2>3 DEF Movement
  <2> QED BY <2>1, <2>2, <2>3, <2>4
<1>6. /\ batches' = IF Old THEN batches ELSE Append(batches, b)
      /\ moves' = IF Old THEN moves ELSE moves \cup {m0}
  BY <1>2, <1>3, <1>5 DEF CreateBatch, CreateMovement
<1>7. PICK amount \in Int, method \in {"credit", "cash"} :
         /\ amount = Cost(p.lines)
         /\ journal' = PostTo(journal, "InventoryPurchase", p.id, amount, method)
         /\ run' = run /\ rerun' = rerun
  <2>1. Cost(p.lines) \in Int
    BY <1>1, CostIs
  <2> QED BY <2>1 DEF RecordPurchase
<1> HIDE DEF src
<1>8. /\ Booked(journal')
      /\ \A s : (\E e \in journal' : Source(e) = s)
                   <=> (\E e \in journal : Source(e) = s) \/ s = <<"InventoryPurchase", p.id>>
      /\ Old => journal' = journal
      /\ ~Old => InventoryOf(journal') = InventoryOf(journal) + amount
      /\ InventoryOf(journal) \in Int
  <2>1. PICK book, end : book = journal /\ end = journal'
    OBVIOUS
  <2>2. Booked(book) /\ end = PostTo(book, "InventoryPurchase", p.id, amount, method)
    BY <1>7, <2>1 DEF InventoryInv
  <2>3. Old <=> \E e \in book : Source(e) = <<"InventoryPurchase", p.id>>
    BY <2>1 DEF InventoryInv, PurchasesBooked, src
  <2>4. /\ Booked(end)
        /\ \A s : (\E e \in end : Source(e) = s)
                     <=> (\E e \in book : Source(e) = s) \/ s = <<"InventoryPurchase", p.id>>
        /\ (\E e \in book : Source(e) = <<"InventoryPurchase", p.id>>) => end = book
        /\ ~(\E e \in book : Source(e) = <<"InventoryPurchase", p.id>>)
              => InventoryOf(end) = InventoryOf(book) + amount
        /\ InventoryOf(book) \in Int
    BY <2>2, PostIs
  <2> QED BY <2>1, <2>3, <2>4
<1>9. PurchasesBooked(moves, journal)'
  <2> SUFFICES ASSUME NEW u \in Purchases
               PROVE  (\E m \in moves' : m.src = <<"Purchase", u.id>>)
                        <=> (\E e \in journal' : Source(e) = <<"InventoryPurchase", u.id>>)
    BY DEF PurchasesBooked
  <2>1. (\E m \in moves : m.src = <<"Purchase", u.id>>)
          <=> (\E e \in journal : Source(e) = <<"InventoryPurchase", u.id>>)
    BY DEF InventoryInv, PurchasesBooked
  <2>2. (\E m \in moves' : m.src = <<"Purchase", u.id>>)
          <=> (\E m \in moves : m.src = <<"Purchase", u.id>>) \/ u.id = p.id
    <3>1. <<"Purchase", u.id>> = src <=> u.id = p.id
      BY DEF src
    <3> QED BY <1>5, <1>6, <3>1
  <2>3. <<"InventoryPurchase", u.id>> = <<"InventoryPurchase", p.id>> <=> u.id = p.id
    OBVIOUS
  <2>4. (\E e \in journal' : Source(e) = <<"InventoryPurchase", u.id>>)
          <=> (\E e \in journal : Source(e) = <<"InventoryPurchase", u.id>>) \/ u.id = p.id
    BY <1>8, <2>3
  <2> QED BY <2>1, <2>2, <2>4
<1>10. /\ batches \in Seq(Batch) /\ batches' \in Seq(Batch)
       /\ \A r : RunOk(batches, r) => RunOk(batches', r)
       /\ ~Old => SumOver(Values(batches'), DOMAIN batches')
                     = SumOver(Values(batches), DOMAIN batches) + l.qty * l.cost
  <2>1. batches \in Seq(Batch)
    BY DEF InventoryInv
  <2>2. CASE Old
    BY <1>6, <2>1, <2>2
  <2>3. CASE ~Old
    <3>1. PICK rows, end : rows = batches /\ end = batches'
      OBVIOUS
    <3>2. rows \in Seq(Batch) /\ end = Append(rows, b) /\ b \in Batch
      BY <1>5, <1>6, <2>1, <2>3, <3>1
    <3>3. /\ end \in Seq(Batch)
          /\ \A r : RunOk(rows, r) => RunOk(end, r)
          /\ SumOver(Values(end), DOMAIN end)
                = SumOver(Values(rows), DOMAIN rows) + b.qty * b.cost
      BY <3>2, MoreRows
    <3> QED BY <1>5, <2>1, <3>1, <3>3
  <2> QED BY <2>2, <2>3
<1>11. moves' \in SUBSET Movement
  BY <1>5, <1>6 DEF InventoryInv
<1>12. DOMAIN run' = Tx /\ RunsOk(batches)' /\ LocksApart'
  BY <1>7, <1>10 DEF InventoryInv, RunsOk, LocksApart
<1>13. SingleLine => ValuationMatchesLedger'
  <2> SUFFICES ASSUME SingleLine, ~rerun' PROVE Valuation' = LedgerInventory'
    BY DEF ValuationMatchesLedger
  <2>1. Valuation = LedgerInventory
    BY <1>7 DEF InventoryInv, ValuationMatchesLedger
  <2>2. /\ Valuation = SumOver(Values(batches), DOMAIN batches)
        /\ Valuation' = SumOver(Values(batches'), DOMAIN batches')
    BY <1>10, WorthIs DEF Valuation, Values
  <2>3. LedgerInventory = InventoryOf(journal) /\ LedgerInventory' = InventoryOf(journal')
    BY DEF LedgerInventory, InventoryOf
  <2>4. amount = l.qty * l.cost
    <3>1. Len(p.lines) = 1
      BY DEF SingleLine
    <3>2. k = 1
      BY <1>1, <3>1, SeqFacts
    <3> QED BY <1>1, <1>3, <1>7, <3>1, <3>2, CostIs
  <2>5. CASE Old
    BY <1>6, <1>8, <2>1, <2>2, <2>3, <2>5
  <2>6. CASE ~Old
    BY <1>8, <1>10, <2>1, <2>2, <2>3, <2>4, <2>6
  <2> QED BY <2>5, <2>6
<1> QED BY <1>8, <1>9, <1>10, <1>11, <1>12, <1>13 DEF InventoryInv

LEMMA RecordAdjustmentKeeps ==
    ASSUME InventoryInv, NEW a \in Adjustments, RecordAdjustment(a)
    PROVE  InventoryInv'
<1>1. a.lines \in Seq([variant : Variants, qty : Int]) /\ <<"Adjustment", a.id>> \in Sources
      /\ moves \in SUBSET Movement
  BY InventoryData DEF Sources, InventoryInv
<1>2. /\ moves' \in SUBSET Movement
      /\ \A s : s # <<"Adjustment", a.id>> =>
                   ((\E m \in moves' : m.src = s) <=> (\E m \in moves : m.src = s))
  <2>1. PICK src \in Sources, lines \in Seq(AdjustmentLine), ms \in SUBSET Movement :
           src = <<"Adjustment", a.id>> /\ lines = a.lines /\ ms = moves
    BY <1>1 DEF AdjustmentLine
  <2>2. moves' = AllMoved(moves, <<"Adjustment", a.id>>, a.lines)
    BY DEF RecordAdjustment, AllMoved
  <2>3. moves' = AllMoved(ms, src, lines)
    BY <2>1, <2>2
  <2>4. MovesFrom(src, ms, AllMoved(ms, src, lines))
    BY AdjustmentIs
  <2> QED BY <2>1, <2>3, <2>4 DEF MovesFrom
<1>3. UNCHANGED <<batches, journal, run, rerun>>
  BY DEF RecordAdjustment
<1>4. PurchasesBooked(moves, journal)'
  <2>1. \A p \in Purchases : <<"Purchase", p.id>> # <<"Adjustment", a.id>>
    OBVIOUS
  <2> QED BY <1>2, <1>3, <2>1 DEF InventoryInv, PurchasesBooked
<1>5. ValuationMatchesLedger' <=> ValuationMatchesLedger
  BY <1>3 DEF ValuationMatchesLedger, Valuation, LedgerInventory
<1> QED BY <1>2, <1>3, <1>4, <1>5 DEF InventoryInv, RunsOk, LocksApart

LEMMA InventoryStarts == InventoryInit => InventoryInv
<1> SUFFICES ASSUME InventoryInit PROVE InventoryInv
  OBVIOUS
<1>1. /\ batches = <<>> /\ moves = {} /\ journal = {} /\ run = [t \in Tx |-> AtRest]
      /\ rerun = FALSE
  BY DEF InventoryInit
<1>2. batches \in Seq(Batch) /\ DOMAIN batches = {}
  BY <1>1
<1>3. Booked(journal)
  BY <1>1, FS_EmptySet DEF Booked
<1>4. RunsOk(batches) /\ LocksApart /\ DOMAIN run = Tx
  BY <1>1 DEF RunsOk, LocksApart, AtRest
<1>5. Valuation = 0
  <2>1. Valuation = SumOver(Values(batches), DOMAIN batches)
    BY <1>2, WorthIs DEF Valuation, Values
  <2> QED BY <1>2, <2>1, SumNone
<1>6. LedgerInventory = 0
  <2>1. {e \in journal : e.dr = "INVENTORY"} = {} /\ {e \in journal : e.cr = "INVENTORY"} = {}
    BY <1>1
  <2>2. Total({}) \in Int
    BY TotalIs, FS_EmptySet
  <2>3. LedgerInventory = Total({}) - Total({})
    BY <2>1 DEF LedgerInventory
  <2> QED BY <2>2, <2>3
<1> QED BY <1>1, <1>2, <1>3, <1>4, <1>5, <1>6
        DEF InventoryInv, PurchasesBooked, ValuationMatchesLedger

\* Every step of InventoryService keeps it.
LEMMA InventorySteps == InventoryInv /\ [InventoryNext]_inventoryVars => InventoryInv'
<1> SUFFICES ASSUME InventoryInv, [InventoryNext]_inventoryVars PROVE InventoryInv'
  OBVIOUS
<1>1. CASE \E p \in Purchases : RecordPurchase(p)
  BY <1>1, RecordPurchaseKeeps
<1>2. CASE \E a \in Adjustments : RecordAdjustment(a)
  BY <1>2, RecordAdjustmentKeeps
<1>3. CASE \E t \in Tx, d \in Issues : Begin(t, d)
  BY <1>3, BeginKeeps
<1>4. CASE \E t \in Tx : Verify(t)
  BY <1>4, VerifyKeeps
<1>5. CASE \E t \in Tx : Consume(t)
  BY <1>5, ConsumeKeeps
<1>6. CASE \E t \in Tx : Commit(t)
  BY <1>6, CommitKeeps
<1>7. CASE \E t \in Tx : Abort(t)
  BY <1>7, AtRestOk DEF Abort
<1>8. CASE NextDay \/ UNCHANGED inventoryVars
  <2>1. UNCHANGED <<batches, moves, journal, run, rerun>>
    BY <1>8 DEF NextDay, inventoryVars
  <2>2. ValuationMatchesLedger' <=> ValuationMatchesLedger
    BY <2>1 DEF ValuationMatchesLedger, Valuation, LedgerInventory
  <2> QED BY <2>1, <2>2 DEF InventoryInv, RunsOk, LocksApart, PurchasesBooked
<1> QED BY <1>1, <1>2, <1>3, <1>4, <1>5, <1>6, <1>7, <1>8 DEF InventoryNext

\* The books and the batches of InventoryService, and what each sale and write-off
\* under way holds and charges, are always as InventoryInv says.
THEOREM InventoryInvariant == InventorySpec => []InventoryInv
  BY InventoryStarts, InventorySteps, PTL DEF InventorySpec

\* getOpenBatchesForConsumption locks the rows that updateBatchQuantity rewrites, so
\* two sales never both compute a new quantity from what only one of them will leave:
\* whatever the number of sales, lines and batches.
THEOREM NoUpdateIsLost == InventorySpec => []NoLostUpdate
<1>1. InventoryInv => NoLostUpdate
  <2> SUFFICES ASSUME InventoryInv, NEW t \in Tx, NEW u \in Tx, t # u,
                      run[t] # AtRest, run[u] # AtRest
               PROVE  DOMAIN run[t].own \cap DOMAIN run[u].own = {}
    BY DEF NoLostUpdate
  <2>1. DOMAIN run[t].own \subseteq run[t].locks /\ DOMAIN run[u].own \subseteq run[u].locks
    BY AtRestOk DEF RunOk
  <2>2. run[t].locks \cap run[u].locks = {}
    BY DEF InventoryInv, LocksApart
  <2> QED BY <2>1, <2>2
<1> QED BY <1>1, InventoryInvariant, PTL

\* The valuation that the reconciliation compares with the INVENTORY account is its
\* balance, as long as no document commits twice and every purchase has one line: the
\* unique index on the source of a movement keeps the batches of the other lines out.
THEOREM ValuationIsInTheBooks ==
    ASSUME SingleLine PROVE InventorySpec => []ValuationMatchesLedger
<1>1. InventoryInv => ValuationMatchesLedger
  BY DEF InventoryInv
<1> QED BY <1>1, InventoryInvariant, PTL
=============================================================================
