-------------------------------- MODULE Sizes --------------------------------
(***************************************************************************)
(* The sizes (product_variants) of the catalogue's products, edited by       *)
(* several people while carts and checkouts point at them                    *)
(* (catalog/products.service.ts, from addVariant to removeVariant).          *)
(*                                                                         *)
(* An edit that reads before it writes is two steps.  What a unique index   *)
(* or a foreign key settles at the write is a condition of the write; the   *)
(* earlier read that only words the refusal is not a step of its own.       *)
(* Quantities on the shelf are in Checkout; dimensions carry no rule.       *)
(***************************************************************************)
EXTENDS Integers, Sequences, FiniteSets

CONSTANTS
  Articles,
  MaxSizes,    (* rows product_variants may ever get: a bound of the model  *)
  SentPlaces,  (* positions callers send                                    *)
  Labels, Carts,
  Editors,     (* edits in flight: bounds their overlap                     *)
  Nothing      (* null                                                      *)

ASSUME SizesAssumption ==
  /\ MaxSizes \in Nat
  /\ IsFiniteSet(Carts)
  /\ SentPlaces \subseteq Nat
  /\ Nothing \notin Articles \cup Labels \cup Editors \cup SentPlaces

VARIABLES
  variant,   (* product_variants, in order of creation                      *)
  lines,     (* cart_items: <<cart, variant>>                               *)
  sold,      (* variants an order item points at                            *)
  holder,    (* the removal that locked the sizes of a product              *)
  edit,      (* what each edit in flight has read                           *)
  crowded,   (* history: products whose list two people were changing at once *)
  chosen     (* history: sizes placed, themselves or a size they were born  *)
             (* with, where a caller said                                   *)

sizesVars == <<variant, lines, sold, holder, edit, crowded, chosen>>

-----------------------------------------------------------------------------
Variants == 1..MaxSizes
SizeRows == [product: Articles \cup {Nothing}, label: Labels \cup {Nothing},
         position: Nat, archived: BOOLEAN, deleted: BOOLEAN]

MaybePlaces == SentPlaces \cup {Nothing}

BlankRow == [product |-> Nothing, label |-> Nothing, position |-> 0,
          archived |-> FALSE, deleted |-> FALSE]

SizesOf(p) == {v \in Variants : variant[v].product = p /\ ~variant[v].deleted}

Kept == {v \in Variants : variant[v].product # Nothing /\ ~variant[v].deleted}

ActiveSizes(p) == {v \in SizesOf(p) : ~variant[v].archived}

LabelFree(p, l) == \A v \in SizesOf(p) : variant[v].label # l

InCarts(v) == {k \in Carts : <<k, v>> \in lines}

(* The ids of the next n rows.                                              *)
Next1 == Cardinality({v \in Variants : variant[v].product # Nothing}) + 1

(* Orderings of a set of sizes, as the bodies people send.                  *)
Orders(S) == {s \in [1..Cardinality(S) -> S] : \A v \in S : \E i \in DOMAIN s : s[i] = v}

Edits ==
  [at: {"idle", "add", "archive", "reorder", "queue", "count", "delete"},
   product: Articles \cup {Nothing}, variant: 0..MaxSizes,
   label: Labels \cup {Nothing}, position: Nat, sent: BOOLEAN,
   order: UNION {[1..n -> Variants] : n \in 0..MaxSizes},
   rows: SUBSET Variants, expected: -1..Cardinality(Carts)]

NoEdit ==
  [at |-> "idle", product |-> Nothing, variant |-> 0, label |-> Nothing,
   position |-> 0, sent |-> FALSE, order |-> <<>>, rows |-> {}, expected |-> -1]

SizesTypeOK ==
  /\ variant \in [Variants -> SizeRows]
  /\ lines \subseteq Carts \X Variants
  /\ sold \subseteq Variants
  /\ holder \in [Articles -> Editors \cup {Nothing}]
  /\ edit \in [Editors -> Edits]
  /\ crowded \subseteq Articles
  /\ chosen \subseteq Variants

SizesInit ==
  /\ variant = [v \in Variants |-> BlankRow]
  /\ lines = {} /\ sold = {} /\ crowded = {} /\ chosen = {}
  /\ holder = [p \in Articles |-> Nothing]
  /\ edit = [c \in Editors |-> NoEdit]

-----------------------------------------------------------------------------
StartEdit(c, e) == edit[c].at = "idle" /\ edit' = [edit EXCEPT ![c] = e]

EndEdit(c) == edit' = [edit EXCEPT ![c] = NoEdit]

(* A row under FOR UPDATE: no update, and no new cart line or order item,   *)
(* which take FOR KEY SHARE on the size they point at.                      *)
Free(p) == holder[p] = Nothing

KeepSales == UNCHANGED <<lines, sold>>

(* input.position ?? ...: the place a body asks for, or the one the shop has. *)
SentOr(sent, place) == IF sent = Nothing THEN place ELSE sent

(* variantRows: the sizes a product is born with, in the order sent or where *)
(* the body puts them; one called Unico when none is sent (Labels has it).  *)
CreateSizes(p, labels, sent) ==
  LET born == {v \in Variants : v \in Next1..(Next1 + Len(labels) - 1)}
  IN /\ SizesOf(p) = {} /\ \A v \in Variants : variant[v].product # p
     /\ \A i, j \in DOMAIN labels : labels[i] = labels[j] => i = j
     /\ Next1 + Len(labels) <= MaxSizes + 1
     /\ variant' = [v \in Variants |->
          IF v \in born
          THEN [BlankRow EXCEPT !.product = p, !.label = labels[v - Next1 + 1],
                  !.position = SentOr(sent[v - Next1 + 1], v - Next1)]
          ELSE variant[v]]
     /\ chosen' = IF \E i \in DOMAIN sent : sent[i] # Nothing
                  THEN chosen \cup born ELSE chosen
     /\ KeepSales
     /\ UNCHANGED <<holder, edit, crowded>>

(* Mutant: the number of sizes instead of the place past the last.          *)
PositionByCount(p) == Cardinality(SizesOf(p))

(* nextPosition: past the highest in use, which is not their number.        *)
NextPosition(p) ==
  CHOOSE n \in {0} \cup {variant[v].position + 1 : v \in SizesOf(p)} :
    \A v \in SizesOf(p) : variant[v].position < n

NoteCrowd(p) ==
  crowded' = IF \E d \in Editors : edit[d].at \in {"add", "reorder"} /\ edit[d].product = p
             THEN crowded \cup {p} ELSE crowded

(* addVariant: the place, unless the body says it, comes from the first read. *)
AddRead(c, p, l, sent) ==
  /\ SizesOf(p) # {} /\ LabelFree(p, l)
  /\ StartEdit(c, [NoEdit EXCEPT !.at = "add", !.product = p, !.label = l,
                             !.position = SentOr(sent, NextPosition(p)),
                             !.sent = sent # Nothing])
  /\ NoteCrowd(p)
  /\ KeepSales
  /\ UNCHANGED <<variant, holder, chosen>>

(* The unique index on (product, label) refuses the loser of a race; that   *)
(* the place is free, nothing checks.                                       *)
AddCommit(c) ==
  LET e == edit[c] IN
  /\ e.at = "add" /\ Next1 \in Variants
  /\ IF LabelFree(e.product, e.label)
     THEN /\ variant' = [variant EXCEPT ![Next1] =
                [BlankRow EXCEPT !.product = e.product, !.label = e.label,
                                 !.position = e.position]]
          /\ chosen' = IF e.sent THEN chosen \cup {Next1} ELSE chosen
     ELSE UNCHANGED <<variant, chosen>>
  /\ EndEdit(c)
  /\ KeepSales
  /\ UNCHANGED <<holder, crowded>>

(* renameVariant, one conditional write under the index.                    *)
Rename(v, l) ==
  /\ v \in Kept /\ Free(variant[v].product)
  /\ LabelFree(variant[v].product, l)
  /\ variant' = [variant EXCEPT ![v].label = l]
  /\ KeepSales
  /\ UNCHANGED <<holder, edit, crowded, chosen>>

(* updateVariant: the label it sends may be the one the size already has,   *)
(* and then only dimensions are written.                                    *)
UpdateSize(v, l) == l # variant[v].label /\ Rename(v, l)

(* archiveVariant: a count, and then a write that no longer looks.          *)
ArchiveCount(c, v) ==
  /\ v \in Kept
  /\ Cardinality(ActiveSizes(variant[v].product)) > 1
  /\ StartEdit(c, [NoEdit EXCEPT !.at = "archive", !.variant = v])
  /\ KeepSales
  /\ UNCHANGED <<variant, holder, crowded, chosen>>

ArchiveWrite(c) ==
  LET v == edit[c].variant IN
  /\ edit[c].at = "archive"
  /\ \/ v \notin Kept /\ UNCHANGED variant
     \/ /\ v \in Kept /\ Free(variant[v].product)
        /\ variant' = [variant EXCEPT ![v].archived = TRUE]
  /\ EndEdit(c)
  /\ KeepSales
  /\ UNCHANGED <<holder, crowded, chosen>>

Unarchive(v) ==
  /\ v \in Kept /\ Free(variant[v].product) /\ variant[v].archived
  /\ variant' = [variant EXCEPT ![v].archived = FALSE]
  /\ KeepSales
  /\ UNCHANGED <<holder, edit, crowded, chosen>>

(* reorderVariants: the body is exactly the sizes read; the writes go by    *)
(* id in one transaction, which fails whole when one of them is gone.       *)
ReorderRead(c, p) ==
  /\ SizesOf(p) # {}
  /\ \E s \in Orders(SizesOf(p)) :
       StartEdit(c, [NoEdit EXCEPT !.at = "reorder", !.product = p, !.order = s])
  /\ NoteCrowd(p)
  /\ KeepSales
  /\ UNCHANGED <<variant, holder, chosen>>

ReorderWrite(c) ==
  LET e == edit[c]
      place(v) == CHOOSE i \in DOMAIN e.order : e.order[i] = v
      named == {e.order[i] : i \in DOMAIN e.order}
  IN /\ e.at = "reorder" /\ Free(e.product)
     /\ IF named \subseteq Kept
        THEN /\ variant' = [v \in Variants |-> IF v \in named
                   THEN [variant[v] EXCEPT !.position = place(v) - 1]
                   ELSE variant[v]]
             /\ chosen' = chosen \ named
        ELSE UNCHANGED <<variant, chosen>>
     /\ EndEdit(c)
     /\ KeepSales
     /\ UNCHANGED <<holder, crowded>>

-----------------------------------------------------------------------------
(* removeVariant.  expected is -1 for a request that authorises no loss,    *)
(* and otherwise the number of cart lines its author reviewed; a request    *)
(* with half a confirmation is refused unread.                              *)
RemoveStart(c, v, n) ==
  /\ v \in Kept /\ v \notin sold
  /\ StartEdit(c, [NoEdit EXCEPT !.at = "queue", !.product = variant[v].product,
                             !.variant = v, !.expected = n,
                             !.rows = SizesOf(variant[v].product)])
  /\ KeepSales
  /\ UNCHANGED <<variant, holder, crowded, chosen>>

(* Mutant: the rows are counted as first read, not as locked.               *)
RemoveLockStale(c) ==
  LET e == edit[c]
  IN /\ e.at = "queue" /\ Free(e.product)
     /\ IF Cardinality(e.rows) > 1 /\ e.variant \in Kept
        THEN /\ edit' = [edit EXCEPT ![c].at = "count", ![c].rows = {}]
             /\ holder' = [holder EXCEPT ![e.product] = c]
        ELSE EndEdit(c) /\ UNCHANGED holder
     /\ KeepSales
     /\ UNCHANGED <<variant, crowded, chosen>>

(* SELECT ... FOR UPDATE returns what it saw less what was deleted while it *)
(* waited; fewer than two rows, or not this one, ends the transaction.      *)
RemoveLock(c) ==
  LET e == edit[c]
      locked == e.rows \cap Kept
  IN /\ e.at = "queue" /\ Free(e.product)
     /\ IF Cardinality(locked) > 1 /\ e.variant \in locked
        THEN /\ edit' = [edit EXCEPT ![c].at = "count", ![c].rows = {}]
             /\ holder' = [holder EXCEPT ![e.product] = c]
        ELSE EndEdit(c) /\ UNCHANGED holder
     /\ KeepSales
     /\ UNCHANGED <<variant, crowded, chosen>>

(* Mutant: any confirmation covers any number of cart lines.                *)
ReviewedAtAll(expected, found) == expected # -1 \/ found = 0

(* assertImpactWasReviewed, under the lock.                                 *)
Reviewed(expected, found) == IF expected = -1 THEN found = 0 ELSE found = expected

RemoveCount(c) ==
  LET e == edit[c] IN
  /\ e.at = "count"
  /\ IF Reviewed(e.expected, Cardinality(InCarts(e.variant)))
     THEN edit' = [edit EXCEPT ![c].at = "delete"] /\ UNCHANGED holder
     ELSE EndEdit(c) /\ holder' = [holder EXCEPT ![e.product] = Nothing]
  /\ KeepSales
  /\ UNCHANGED <<variant, crowded, chosen>>

(* order_items RESTRICTs the deletion of a size that was sold.              *)
RemoveDelete(c) ==
  LET e == edit[c] IN
  /\ e.at = "delete"
  /\ IF e.variant \in sold
     THEN UNCHANGED <<variant, lines>>
     ELSE /\ variant' = [variant EXCEPT ![e.variant] =
                 [BlankRow EXCEPT !.product = e.product, !.deleted = TRUE]]
          /\ lines' = {l \in lines : l[2] # e.variant}
  /\ EndEdit(c)
  /\ holder' = [holder EXCEPT ![e.product] = Nothing]
  /\ UNCHANGED <<sold, crowded, chosen>>

(* The process dies or a statement fails.                                   *)
EditAbort(c) ==
  /\ edit[c].at # "idle"
  /\ EndEdit(c)
  /\ holder' = [p \in Articles |-> IF holder[p] = c THEN Nothing ELSE holder[p]]
  /\ KeepSales
  /\ UNCHANGED <<variant, crowded, chosen>>

-----------------------------------------------------------------------------
(* What buyers do to the sizes, as Checkout has it: an archived size is     *)
(* still put into a cart, and refused at the checkout.                      *)
CartAdd(k, v) ==
  /\ v \in Kept /\ Free(variant[v].product)
  /\ lines' = lines \cup {<<k, v>>}
  /\ UNCHANGED <<variant, sold, holder, edit, crowded, chosen>>

CartDrop(k, v) ==
  /\ <<k, v>> \in lines
  /\ lines' = lines \ {<<k, v>>}
  /\ UNCHANGED <<variant, sold, holder, edit, crowded, chosen>>

CartSold(k, v) ==
  /\ <<k, v>> \in lines /\ Free(variant[v].product) /\ ~variant[v].archived
  /\ sold' = sold \cup {v}
  /\ lines' = lines \ {<<k, v>>}
  /\ UNCHANGED <<variant, holder, edit, crowded, chosen>>

SizesNext ==
  \/ \E p \in Articles, n \in 1..2 :
       \E labels \in [1..n -> Labels], sent \in [1..n -> MaybePlaces] :
         CreateSizes(p, labels, sent)
  \/ \E v \in Variants : Unarchive(v) \/ \E l \in Labels : Rename(v, l) \/ UpdateSize(v, l)
  \/ \E c \in Editors :
       \/ \E p \in Articles :
            \/ ReorderRead(c, p)
            \/ \E l \in Labels, sent \in MaybePlaces : AddRead(c, p, l, sent)
       \/ \E v \in Variants : ArchiveCount(c, v)
       \/ \E v \in Variants, n \in -1..Cardinality(Carts) : RemoveStart(c, v, n)
       \/ AddCommit(c) \/ ArchiveWrite(c) \/ ReorderWrite(c)
       \/ RemoveLock(c) \/ RemoveCount(c) \/ RemoveDelete(c) \/ EditAbort(c)
  \/ \E k \in Carts, v \in Variants : CartAdd(k, v) \/ CartDrop(k, v) \/ CartSold(k, v)

SizesSpec == SizesInit /\ [][SizesNext]_sizesVars

-----------------------------------------------------------------------------
(* "A product must keep at least one active variant" (archiveVariant).      *)
(* Archiving counts active sizes, removal counts all of them: archive one   *)
(* of two and remove the other, and only an archived one is left.           *)
KeepsActiveSize ==
  \A p \in Articles : (\E v \in Variants : variant[v].product = p) => ActiveSizes(p) # {}

(* Wall 1: a product that has sizes never loses its last row, whatever      *)
(* removals overlap (the FOR UPDATE over the sizes of the product).         *)
KeepsASize ==
  \A p \in Articles : (\E v \in Variants : variant[v].product = p) => SizesOf(p) # {}

(* Walls 2 and 3: when a size goes, nobody has bought it, and no more cart  *)
(* lines go with it than its editor reviewed, though carts and checkouts    *)
(* ran between the review and the deletion.  (A buyer may take a line out   *)
(* between the recount and the delete; then fewer are lost.)                *)
RemovalWasReviewed ==
  [][\A v \in Kept : variant'[v].deleted =>
       /\ v \notin sold
       /\ \E c \in Editors :
            /\ edit[c].variant = v
            /\ Cardinality(InCarts(v)) <=
                 (IF edit[c].expected = -1 THEN 0 ELSE edit[c].expected)]_sizesVars

(* A size added without a position goes last, past the gaps that removals   *)
(* and callers' own positions leave: it takes the place of no size that was *)
(* there, nor do two sizes after a reordering, unless two people were       *)
(* adding or reordering at once.  Only a caller who says where puts a size  *)
(* on another's place.                                                      *)
OneSizePerPlace ==
  \A p \in Articles \ crowded : \A v, w \in SizesOf(p) :
    v < w /\ w \notin chosen => variant[v].position # variant[w].position
=============================================================================
