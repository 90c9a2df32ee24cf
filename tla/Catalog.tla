------------------------------ MODULE Catalog ------------------------------
(***************************************************************************)
(* The product catalogue as the dashboard writes it: a product is made by  *)
(* a run of separate mutations (product, option group, one per variant,    *)
(* photos) that no transaction joins, and its photos are later edited by   *)
(* upload, assign, read and write.  Several people work at once, and each  *)
(* request may fail before or after the server acted on it.                *)
(* Vendure (what a mutation does, that SKUs are not unique in it) is       *)
(* external.  Names, prices and stock counts travel with a variant and are *)
(* left out; a product's photos are a set, their order is left out.        *)
(***************************************************************************)
EXTENDS Naturals, Sequences, FiniteSets

CONSTANTS
    Person,        \* dashboards at work
    Sku,           \* SKU codes that can be typed
    MaxVariants,   \* bound: SKU lines of a form
    MaxProducts,   \* bound: products made
    MaxPhotoJobs,  \* bound: uploads for a new product and uses of the photo editor
    MaxMishaps     \* bound: requests that fail or whose answer is lost, and deletions

ASSUME CatalogAssumption == {MaxVariants, MaxProducts, MaxPhotoJobs, MaxMishaps} \subseteq Nat

VARIABLES
    product,   \* sequence of products; an index is its id
    variant,   \* sequence of variants; an index is its id
    jobs,      \* number of photo jobs begun; the photo a job uploads bears its number
    page,      \* per person: the page in front of them
    mishaps    \* number of failed requests, lost answers and deletions so far

vars == <<product, variant, jobs, page, mishaps>>

Forms == UNION {[1 .. n -> Sku] : n \in 1 .. MaxVariants}

\* A page at a step.  What a run that has ended shows is left out, except that
\* a success is kept with the product, in `told` and `off`.
Page(step) == [step |-> step, form |-> <<>>, asked |-> {}, since |-> <<>>,
               taken |-> FALSE, at |-> 0, editing |-> FALSE, added |-> {},
               removed |-> {}, list |-> {}]

Idle == Page("idle")

\* A product just made.  `told`, `off` and `crossed` are history: a page
\* reported it created, the photos saved editors took off, editors overlapped.
NewProduct(form) == [form |-> form, live |-> TRUE, options |-> FALSE, photos |-> {},
                     told |-> FALSE, off |-> {}, crossed |-> FALSE]

Init == /\ product = <<>>
        /\ variant = <<>>
        /\ jobs = 0
        /\ page = [p \in Person |-> Idle]
        /\ mishaps = 0

At(p, step) == page[p].step = step
Of(i) == {v \in DOMAIN variant : variant[v].product = i}

-----------------------------------------------------------------------------
(* What a request does and what its page hears of it. *)

\* A mutation is done or not (`can` says whether Vendure accepts it at all),
\* and a page goes on only with an answer that says it was done.  A refusal is
\* no mishap.
Outcomes(can) == {o \in [done : BOOLEAN, heard : BOOLEAN] :
                    (o.heard => o.done) /\ (o.done => can)}

Smoothly(smooth) == IF smooth THEN mishaps' = mishaps
                    ELSE mishaps < MaxMishaps /\ mishaps' = mishaps + 1

Goes(p, can, o, next) ==
    /\ page' = [page EXCEPT ![p] = IF o.heard THEN next ELSE Idle]
    /\ Smoothly(o.heard \/ ~can)

-----------------------------------------------------------------------------
(* Making a product. *)

\* onSubmit and the first step of the validation: no SKU twice in the form.
Submit(p, form) ==
    /\ At(p, "idle")
    /\ page' = [page EXCEPT ![p] =
           IF \A i, j \in DOMAIN form : form[i] = form[j] => i = j
           THEN [Page("checking") EXCEPT !.form = form, !.since = [i \in DOMAIN form |-> 0]]
           ELSE Idle]
    /\ UNCHANGED <<product, variant, jobs, mishaps>>

Taken(sku) == \E v \in DOMAIN variant :
                 variant[v].sku = sku /\ product[variant[v].product].live

\* Mutant of CheckSku: a later answer replaces the earlier ones.
CheckSkuLast(p, i) ==
    /\ At(p, "checking") /\ i \in DOMAIN page[p].form \ page[p].asked
    /\ \E answered \in BOOLEAN :
         /\ Smoothly(answered)
         /\ page' = [page EXCEPT ![p].asked = @ \cup {i},
                    ![p].taken = answered /\ Taken(page[p].form[i]),
                    ![p].since[i] = IF answered THEN Len(variant) ELSE 0]
    /\ UNCHANGED <<product, variant, jobs>>

\* One of the queries that run side by side; one that fails counts as "free".
\* History `since`: how many variants there were when it was answered.
CheckSku(p, i) ==
    /\ At(p, "checking") /\ i \in DOMAIN page[p].form \ page[p].asked
    /\ \E answered \in BOOLEAN :
         /\ Smoothly(answered)
         /\ page' = [page EXCEPT ![p].asked = @ \cup {i},
                    ![p].taken = @ \/ (answered /\ Taken(page[p].form[i])),
                    ![p].since[i] = IF answered THEN Len(variant) ELSE 0]
    /\ UNCHANGED <<product, variant, jobs>>

\* All answers are in: one taken SKU refuses the form.
EndCheck(p) ==
    /\ At(p, "checking") /\ page[p].asked = DOMAIN page[p].form
    /\ page' = [page EXCEPT ![p] = IF @.taken THEN Idle
                                   ELSE [@ EXCEPT !.step = "product", !.asked = {}]]
    /\ UNCHANGED <<product, variant, jobs, mishaps>>

CreateProduct(p) ==
    /\ At(p, "product") /\ Len(product) < MaxProducts
    /\ \E o \in Outcomes(TRUE) :
         /\ product' = IF o.done THEN Append(product, NewProduct(page[p].form)) ELSE product
         /\ Goes(p, TRUE, o, [page[p] EXCEPT !.at = Len(product) + 1,
                           !.step = IF Len(page[p].form) > 1 THEN "group" ELSE "variants"])
    /\ UNCHANGED <<variant, jobs>>

\* A form with several lines needs an option group: made, then attached.
CreateGroup(p) ==
    /\ At(p, "group")
    /\ \E o \in Outcomes(TRUE) :
         Goes(p, TRUE, o, [page[p] EXCEPT !.step = "attach"])
    /\ UNCHANGED <<product, variant, jobs>>

AttachGroup(p) ==
    LET i == page[p].at IN
    /\ At(p, "attach")
    /\ \E o \in Outcomes(product[i].live) :
         /\ product' = [product EXCEPT ![i].options = @ \/ o.done]
         /\ Goes(p, product[i].live, o, [page[p] EXCEPT !.step = "variants"])
    /\ UNCHANGED <<variant, jobs>>

\* Mutant of CreateVariant: a product with some of its variants counts as created.
CreateVariantSome(p) ==
    LET i == page[p].at
        n == Cardinality(Of(i)) + 1
        last == n = Len(page[p].form)
        can == product[i].live /\ (n > 1 => product[i].options)
    IN
    /\ At(p, "variants")
    /\ \E o \in Outcomes(can) :
         /\ variant' = IF o.done
                       THEN Append(variant, [product |-> i, sku |-> page[p].form[n],
                                             since |-> page[p].since[n]])
                       ELSE variant
         /\ Goes(p, can, o, IF last THEN [Page("made") EXCEPT !.at = i] ELSE page[p])
         /\ product' = [product EXCEPT ![i].told = @ \/ last]
    /\ UNCHANGED jobs

\* The next line of the form.  A failure ends the run: nothing made before it
\* is undone, the "rollback" of the code only logs.
CreateVariant(p) ==
    LET i == page[p].at
        n == Cardinality(Of(i)) + 1
        last == n = Len(page[p].form)
        can == product[i].live /\ (n > 1 => product[i].options)
    IN
    /\ At(p, "variants")
    /\ \E o \in Outcomes(can) :
         /\ variant' = IF o.done
                       THEN Append(variant, [product |-> i, sku |-> page[p].form[n],
                                             since |-> page[p].since[n]])
                       ELSE variant
         /\ Goes(p, can, o, IF last THEN [Page("made") EXCEPT !.at = i] ELSE page[p])
         /\ product' = [product EXCEPT ![i].told = @ \/ (o.heard /\ last)]
    /\ UNCHANGED jobs

BeginsJob == jobs < MaxPhotoJobs /\ jobs' = jobs + 1

\* The product stands; photos follow if there are any.
AfterMade(p) ==
    /\ At(p, "made")
    /\ \/ page' = [page EXCEPT ![p] = Idle] /\ UNCHANGED jobs
       \/ page' = [page EXCEPT ![p].step = "upload", ![p].added = {jobs + 1}] /\ BeginsJob
    /\ UNCHANGED <<product, variant, mishaps>>

-----------------------------------------------------------------------------
(* Photos of a product: those of a new one, and the photo editor. *)

\* The editor opens on the photos of a product, some marked for removal.
\* The mutation that deletes an asset is sent with the wrong argument and
\* always refused: a photo leaves only through the list written at the end.
EditPhotos(p, i, removed, more) ==
    /\ At(p, "idle") /\ product[i].live /\ (more \/ removed # {})
    /\ page' = [page EXCEPT ![p] = [Page(IF more THEN "upload" ELSE "read")
                                      EXCEPT !.at = i, !.editing = TRUE, !.removed = removed,
                                             !.added = IF more THEN {jobs + 1} ELSE {}]]
    /\ BeginsJob
    /\ UNCHANGED <<product, variant, mishaps>>

Upload(p) ==
    /\ At(p, "upload")
    /\ \E o \in Outcomes(TRUE) : Goes(p, TRUE, o, [page[p] EXCEPT !.step = "assign"])
    /\ UNCHANGED <<product, variant, jobs>>

\* Another page is between its upload or its reading and its list.
Crossing(p) == \E q \in Person \ {p} :
                  page[q].at = page[p].at /\ page[q].step \in {"read", "list"}

\* uploadProductPhotos ends by making the new photos the product's photos.
Assign(p) ==
    LET i == page[p].at IN
    /\ At(p, "assign")
    /\ \E o \in Outcomes(product[i].live) :
         /\ product' = IF ~o.done THEN product
                       ELSE [product EXCEPT ![i].photos = page[p].added,
                                            ![i].crossed = @ \/ Crossing(p)]
         /\ Goes(p, product[i].live, o, IF page[p].editing THEN [page[p] EXCEPT !.step = "read"] ELSE Idle)
    /\ UNCHANGED <<variant, jobs>>

\* Mutant of Remaining: the removed ones are not left out.
RemainingAll(i, removed) == product[i].photos

\* The list as it is now, without the removed ones.
Remaining(i, removed) == product[i].photos \ removed

ReadPhotos(p) ==
    LET i == page[p].at IN
    /\ At(p, "read")
    /\ \/ /\ product[i].live
          /\ page' = [page EXCEPT ![p].step = "list",
                                  ![p].list = Remaining(i, page[p].removed) \cup page[p].added]
          /\ Smoothly(TRUE)
       \/ page' = [page EXCEPT ![p] = Idle] /\ Smoothly(~product[i].live)
    /\ UNCHANGED <<product, variant, jobs>>

WritePhotos(p) ==
    LET i == page[p].at IN
    /\ At(p, "list")
    /\ \E o \in Outcomes(product[i].live) :
         /\ product' = IF ~o.done THEN product
                       ELSE [product EXCEPT ![i].photos = page[p].list,
                                            ![i].off = IF o.heard THEN @ \cup page[p].removed ELSE @,
                                            ![i].crossed = @ \/ Crossing(p)]
         /\ Goes(p, product[i].live, o, Idle)
    /\ UNCHANGED <<variant, jobs>>

-----------------------------------------------------------------------------

\* Removed from the products page: its variants leave with it, and a search by
\* SKU no longer finds them.  Nothing else of it is kept.
DeleteProduct(i) ==
    /\ product[i].live
    /\ product' = [product EXCEPT ![i] = [NewProduct(<<>>) EXCEPT !.live = FALSE]]
    /\ Smoothly(FALSE)
    /\ UNCHANGED <<variant, jobs, page>>

Next == \/ \E p \in Person :
             \/ \E form \in Forms : Submit(p, form)
             \/ \E i \in 1 .. MaxVariants : CheckSku(p, i)
             \/ EndCheck(p) \/ CreateProduct(p) \/ CreateGroup(p) \/ AttachGroup(p)
             \/ CreateVariant(p) \/ AfterMade(p)
             \/ \E i \in DOMAIN product, more \in BOOLEAN :
                  \E removed \in SUBSET product[i].photos : EditPhotos(p, i, removed, more)
             \/ Upload(p) \/ Assign(p) \/ ReadPhotos(p) \/ WritePhotos(p)
        \/ \E i \in DOMAIN product : DeleteProduct(i)

Spec == Init /\ [][Next]_vars

-----------------------------------------------------------------------------
(* Properties. *)

\* Two products on sale carry one SKU only if the later variant was made while
\* the earlier one appeared after its SKU had been looked up, or without an
\* answer to that query: a SKU that was found in the catalogue is never given
\* out again (validateProductInput).
SkusDistinct ==
    \A v, w \in DOMAIN variant :
        /\ v < w /\ variant[v].sku = variant[w].sku
        /\ product[variant[v].product].live /\ product[variant[w].product].live
        => variant[v].product # variant[w].product /\ v > variant[w].since

\* A product reported created has a variant for every line of its form, with
\* options when there are several, whatever was lost on the way
\* (createProductWithVariants, createVariants).
CreatedIsWhole ==
    \A i \in DOMAIN product : product[i].told =>
        /\ Cardinality(Of(i)) = Len(product[i].form)
        /\ \A n \in DOMAIN product[i].form :
              \E v \in Of(i) : variant[v].sku = product[i].form[n]
        /\ Len(product[i].form) > 1 => product[i].options

\* A photo a saved editor took off a product stays off it, unless two editors
\* of that product overlapped: each writes the whole list it has read
\* (updateProductAssets).
RemovedPhotosStayOff ==
    \A i \in DOMAIN product : ~product[i].crossed => product[i].photos \cap product[i].off = {}
=============================================================================
