----------------------------- MODULE SizesProofs -----------------------------
(***************************************************************************)
(* For any number of editors, buyers and sizes: a product never loses its   *)
(* last row, a removal takes away no more than its author reviewed, and a   *)
(* size added last takes no other's place while one person at a time        *)
(* arranges the product.                                                    *)
(***************************************************************************)
EXTENDS Sizes, FiniteSetTheorems, WellFoundedInduction, TLAPS

(* The rows in use are the first ones, so Next1 is a row nobody uses.       *)
UsedRows == {v \in Variants : variant[v].product # Nothing}

InOrder == \E n \in 0..MaxSizes : UsedRows = 1..n

Bound(e) == IF e.expected = -1 THEN 0 ELSE e.expected

(* What a removal knows: from the lock on, that it holds the sizes of its   *)
(* product and does not take the last; before the delete, that the lines    *)
(* are no more than were reviewed.                                          *)
RemovalKnows(c) ==
  LET e == edit[c] IN
  /\ e.at \in {"queue", "count", "delete"} =>
       /\ e.product \in Articles /\ e.variant \in Variants
       /\ variant[e.variant].product = e.product
  /\ e.at = "queue" => \A w \in e.rows : variant[w].product = e.product
  /\ e.at \in {"count", "delete"} =>
       /\ holder[e.product] = c
       /\ ~variant[e.variant].deleted
       /\ \E w \in SizesOf(e.product) : w # e.variant
  /\ e.at = "delete" => Cardinality(InCarts(e.variant)) <= Bound(e)

(* The sizes of a product are locked by a removal that is at work.          *)
HeldByRemoval(p) ==
  holder[p] # Nothing =>
    /\ edit[holder[p]].at \in {"count", "delete"}
    /\ edit[holder[p]].product = p

KeepsOne(p) == (\E v \in Variants : variant[v].product = p) => SizesOf(p) # {}

(* What an addition will write is a row.                                    *)
AddKnows(c) ==
  edit[c].at \in {"add", "reorder"} => edit[c].product \in Articles

SizesInv ==
  /\ SizesTypeOK
  /\ InOrder
  /\ \A c \in Editors : RemovalKnows(c) /\ AddKnows(c)
  /\ \A p \in Articles : HeldByRemoval(p) /\ KeepsOne(p)

-----------------------------------------------------------------------------
(* SETS *)

LEMMA Bounded == MaxSizes \in Nat /\ Variants = 1..MaxSizes
BY SizesAssumption DEF Variants

LEMMA VariantsFinite ==
  ASSUME NEW S \in SUBSET Variants
  PROVE  IsFiniteSet(S) /\ Cardinality(S) \in 0..MaxSizes
<1>1. IsFiniteSet(Variants) /\ Cardinality(Variants) = MaxSizes
  BY Bounded, FS_Interval
<1>2. IsFiniteSet(S) /\ Cardinality(S) <= MaxSizes /\ Cardinality(S) \in Nat
  BY <1>1, FS_Subset, FS_CardinalityType
<1> QED
  BY <1>2, Bounded

LEMMA NextUnused ==
  ASSUME NEW n \in 0..MaxSizes, UsedRows = 1..n PROVE Next1 = n + 1
<1>1. Cardinality(1..n) = n
  BY Bounded, FS_Interval
<1> QED
  BY <1>1 DEF Next1, UsedRows

(* Of two sizes, one is another one.                                        *)
LEMMA Another ==
  ASSUME NEW S \in SUBSET Variants, Cardinality(S) > 1, NEW v
  PROVE  \E w \in S : w # v
<1> SUFFICES ASSUME \A w \in S : w = v PROVE FALSE
  OBVIOUS
<1>1. IsFiniteSet({v}) /\ Cardinality({v}) = 1
  BY FS_Singleton
<1>2. Cardinality(S) <= Cardinality({v})
  BY <1>1, FS_Subset
<1>3. Cardinality(S) \in 0..MaxSizes
  BY VariantsFinite
<1> QED
  BY <1>1, <1>2, <1>3, Bounded

LEMMA FewerLines ==
  ASSUME NEW v, InCarts(v)' \subseteq InCarts(v)
  PROVE  /\ Cardinality(InCarts(v)') <= Cardinality(InCarts(v))
         /\ Cardinality(InCarts(v)') \in Nat /\ Cardinality(InCarts(v)) \in Nat
<1>1. IsFiniteSet(InCarts(v))
  BY SizesAssumption, FS_Subset DEF InCarts
<1> QED
  BY <1>1, FS_Subset, FS_CardinalityType

-----------------------------------------------------------------------------
(* RECORDS *)

LEMMA BlankTyped == BlankRow \in SizeRows /\ BlankRow.product = Nothing
BY Bounded DEF BlankRow, SizeRows

LEMMA NoEditTyped == NoEdit \in Edits /\ NoEdit.at = "idle"
<1>1. NoEdit.order \in [1..0 -> Variants]
  BY DEF NoEdit
<1>2. NoEdit.order \in UNION {[1..n -> Variants] : n \in 0..MaxSizes}
  BY <1>1, Bounded
<1>3. -1 \in -1..Cardinality(Carts)
  BY SizesAssumption, FS_CardinalityType
<1>4. NoEdit.rows \in SUBSET Variants
  BY DEF NoEdit
<1> QED
  BY <1>2, <1>3, <1>4, Bounded DEF NoEdit, Edits

(* What a new size is written as.                                           *)
LEMMA RowMade ==
  ASSUME NEW p \in Articles, NEW l \in Labels, NEW n \in Nat
  PROVE  LET r == [BlankRow EXCEPT !.product = p, !.label = l, !.position = n]
         IN /\ r \in SizeRows
            /\ r.product = p /\ ~r.deleted /\ r.position = n
BY Bounded DEF BlankRow, SizeRows

LEMMA RowGone ==
  ASSUME NEW p \in Articles
  PROVE  LET r == [BlankRow EXCEPT !.product = p, !.deleted = TRUE]
         IN r \in SizeRows /\ r.product = p /\ r.deleted = TRUE
<1>1. ASSUME NEW q \in SizeRows, NEW b \in BOOLEAN
      PROVE  [q EXCEPT !.product = p, !.deleted = b] \in SizeRows
  BY DEF SizeRows
<1>2. [BlankRow EXCEPT !.product = p, !.deleted = TRUE] \in SizeRows
  BY <1>1, BlankTyped
<1>3. [BlankRow EXCEPT !.product = p, !.deleted = TRUE].product = p
  BY DEF BlankRow
<1>4. [BlankRow EXCEPT !.product = p, !.deleted = TRUE].deleted = TRUE
  BY DEF BlankRow
<1> QED
  BY <1>2, <1>3, <1>4

LEMMA AddMade ==
  ASSUME NEW p \in Articles, NEW l \in Labels, NEW n \in Nat, NEW b \in BOOLEAN
  PROVE  [NoEdit EXCEPT !.at = "add", !.product = p, !.label = l, !.position = n,
                        !.sent = b] \in Edits
<1>1. ASSUME NEW r \in Edits
      PROVE  [r EXCEPT !.at = "add", !.product = p, !.label = l, !.position = n,
                       !.sent = b] \in Edits
  BY DEF Edits
<1> QED
  BY <1>1, NoEditTyped

LEMMA ArchiveMade ==
  ASSUME NEW v \in Variants
  PROVE  LET e == [NoEdit EXCEPT !.at = "archive", !.variant = v]
         IN e \in Edits /\ e.at = "archive"
<1>0. v \in 0..MaxSizes
  BY Bounded
<1>1. ASSUME NEW r \in Edits PROVE [r EXCEPT !.at = "archive", !.variant = v] \in Edits
  BY <1>0 DEF Edits
<1> QED
  BY <1>1, NoEditTyped DEF NoEdit

LEMMA ReorderMade ==
  ASSUME NEW p \in Articles, NEW s \in UNION {[1..m -> Variants] : m \in 0..MaxSizes}
  PROVE  LET e == [NoEdit EXCEPT !.at = "reorder", !.product = p, !.order = s]
         IN e \in Edits /\ e.at = "reorder" /\ e.product = p /\ e.order = s
<1>1. ASSUME NEW r \in Edits
      PROVE  [r EXCEPT !.at = "reorder", !.product = p, !.order = s] \in Edits
  BY DEF Edits
<1> QED
  BY <1>1, NoEditTyped DEF NoEdit

LEMMA RemovalMade ==
  ASSUME NEW p \in Articles, NEW v \in Variants, NEW S \in SUBSET Variants,
         NEW k \in -1..Cardinality(Carts)
  PROVE  LET e == [NoEdit EXCEPT !.at = "queue", !.product = p, !.variant = v,
                                 !.expected = k, !.rows = S]
         IN /\ e \in Edits
            /\ e.at = "queue" /\ e.product = p /\ e.variant = v /\ e.rows = S
<1>0. v \in 0..MaxSizes
  BY Bounded
<1>1. ASSUME NEW r \in Edits
      PROVE  [r EXCEPT !.at = "queue", !.product = p, !.variant = v,
                       !.expected = k, !.rows = S] \in Edits
  BY <1>0 DEF Edits
<1> QED
  BY <1>1, NoEditTyped DEF NoEdit

LEMMA EditMoves ==
  ASSUME NEW e \in Edits
  PROVE  /\ [e EXCEPT !.at = "delete"] \in Edits
         /\ [[e EXCEPT !.at = "count"] EXCEPT !.rows = {}] \in Edits
BY DEF Edits

-----------------------------------------------------------------------------
(* WHAT A STEP LEAVES ALONE *)

(* Rows in use keep their product and none of them goes; others are put to  *)
(* use as sizes that are there.                                             *)
RowsGrow ==
  /\ \A v \in UsedRows : /\ variant'[v].product = variant[v].product
                         /\ variant'[v].deleted = variant[v].deleted
  /\ \A v \in Variants \ UsedRows :
       variant'[v].product # Nothing => variant'[v].deleted = FALSE

LEMMA SetsGrow ==
  ASSUME RowsGrow
  PROVE  \A p \in Articles : SizesOf(p) \subseteq SizesOf(p)'
BY SizesAssumption DEF RowsGrow, UsedRows, SizesOf

(* Rows that are changed, but not in their product.                         *)
RowsStay ==
  \A v \in Variants : /\ variant'[v].product = variant[v].product
                      /\ variant'[v].deleted = variant[v].deleted

LEMMA StayIsGrow ==
  ASSUME RowsStay, InOrder PROVE RowsGrow /\ InOrder'
<1>1. UsedRows' = UsedRows
  BY DEF RowsStay, UsedRows
<1> QED
  BY <1>1 DEF RowsStay, RowsGrow, UsedRows, InOrder

(* A request that is not touched still knows what it knew.                  *)
LEMMA KnowledgeStays ==
  ASSUME SizesInv, RowsGrow, NEW c \in Editors, edit'[c] = edit[c],
         \A p \in Articles : holder[p] = c => holder'[p] = c,
         \A v \in Variants : holder[variant[v].product] = c => InCarts(v)' \subseteq InCarts(v)
  PROVE  RemovalKnows(c)' /\ AddKnows(c)'
<1>1. RemovalKnows(c) /\ AddKnows(c) /\ edit[c] \in Edits
  BY DEF SizesInv, SizesTypeOK
<1>2. ASSUME edit[c].at \in {"queue", "count", "delete"}
      PROVE  /\ edit[c].variant \in UsedRows
             /\ variant'[edit[c].variant].product = edit[c].product
             /\ SizesOf(edit[c].product) \subseteq SizesOf(edit[c].product)'
             /\ variant'[edit[c].variant].deleted = variant[edit[c].variant].deleted
  BY <1>1, <1>2, SetsGrow, SizesAssumption DEF RemovalKnows, RowsGrow, UsedRows
<1>3. edit[c].at = "queue" => \A w \in edit[c].rows : variant'[w].product = edit[c].product
  <2>1. edit[c].rows \subseteq Variants
    BY <1>1 DEF Edits
  <2> QED
    BY <1>1, <2>1, SizesAssumption DEF RemovalKnows, RowsGrow, UsedRows
<1>4. ASSUME edit[c].at = "delete"
      PROVE  Cardinality(InCarts(edit[c].variant))' <= Bound(edit[c])
  <2>1. InCarts(edit[c].variant)' \subseteq InCarts(edit[c].variant)
    BY <1>1, <1>4 DEF RemovalKnows
  <2>2. Bound(edit[c]) \in Int
    BY <1>1, SizesAssumption, FS_CardinalityType DEF Bound, Edits
  <2>3. Cardinality(InCarts(edit[c].variant)) <= Bound(edit[c])
    BY <1>1, <1>4 DEF RemovalKnows
  <2> HIDE DEF Bound
  <2> DEFINE v == edit[c].variant
  <2>4. /\ Cardinality(InCarts(v)') <= Cardinality(InCarts(v))
        /\ Cardinality(InCarts(v)') \in Nat /\ Cardinality(InCarts(v)) \in Nat
    <3>1. IsFiniteSet(InCarts(v))
      BY SizesAssumption, FS_Subset DEF InCarts
    <3> QED
      BY <2>1, <3>1, FS_Subset, FS_CardinalityType
  <2>5. Cardinality(InCarts(v)') <= Bound(edit[c])
    BY <2>2, <2>3, <2>4
  <2>6. Cardinality(InCarts(v))' = Cardinality(InCarts(v)')
    OBVIOUS
  <2> QED
    BY <2>5, <2>6
<1> QED
  BY <1>1, <1>2, <1>3, <1>4 DEF RemovalKnows, AddKnows, Bound

(* A step that no removal takes.                                            *)
LEMMA PlainStep ==
  ASSUME SizesInv, SizesTypeOK', RowsGrow, InOrder', UNCHANGED holder,
         \A d \in Editors :
           \/ edit'[d] = edit[d]
           \/ /\ edit[d].at \notin {"count", "delete"}
              /\ edit'[d].at \notin {"queue", "count", "delete"}
              /\ edit'[d].at \in {"add", "reorder"} => edit'[d].product \in Articles,
         \A v \in Variants :
           holder[variant[v].product] # Nothing => InCarts(v)' \subseteq InCarts(v)
  PROVE  SizesInv'
<1>1. ASSUME NEW d \in Editors PROVE RemovalKnows(d)' /\ AddKnows(d)'
  <2>1. CASE edit'[d] = edit[d]
    <3>1. d # Nothing
      BY SizesAssumption
    <3> QED
      BY <2>1, <3>1, KnowledgeStays
  <2>2. CASE edit'[d] # edit[d]
    BY <2>2 DEF RemovalKnows, AddKnows
  <2> QED
    BY <2>1, <2>2
<1>2. ASSUME NEW p \in Articles PROVE HeldByRemoval(p)'
  BY DEF SizesInv, SizesTypeOK, HeldByRemoval
<1>3. ASSUME NEW p \in Articles PROVE KeepsOne(p)'
  <2> SUFFICES ASSUME NEW v \in Variants, variant'[v].product = p
               PROVE  SizesOf(p)' # {}
    BY DEF KeepsOne
  <2>1. CASE v \in UsedRows
    BY <2>1, SetsGrow DEF SizesInv, KeepsOne, RowsGrow
  <2>2. CASE v \notin UsedRows
    BY <2>2, SizesAssumption DEF RowsGrow, SizesOf
  <2> QED
    BY <2>1, <2>2
<1> QED
  BY <1>1, <1>2, <1>3 DEF SizesInv

-----------------------------------------------------------------------------
(* THE LAST PLACE *)

LEMMA LeastOf ==
  ASSUME NEW T \in SUBSET Nat, T # {}
  PROVE  \E x \in T : \A y \in T : x <= y
<1>1. \E x \in T : \A y \in T : ~ (<<y, x>> \in OpToRel(<, Nat))
  BY NatLessThanWellFounded, WFMin, Zenon
<1>2. PICK x \in T : \A y \in T : ~ (<<y, x>> \in OpToRel(<, Nat))
  BY <1>1
<1>3. ASSUME NEW y \in T PROVE x <= y
  <2>1. x \in Nat /\ y \in Nat
    OBVIOUS
  <2>2. ~ (<<y, x>> \in OpToRel(<, Nat))
    BY <1>2
  <2>3. ~ (y < x)
    BY <2>1, <2>2 DEF OpToRel
  <2> QED
    BY <2>1, <2>3
<1> QED
  BY <1>3

(* The places of the sizes of a product are bounded.                        *)
LEMMA PlacesBounded ==
  ASSUME SizesInv, NEW p \in Articles
  PROVE  \E n \in Nat : \A v \in SizesOf(p) : variant[v].position < n
<1>1. ASSUME NEW v \in SizesOf(p) PROVE v \in 1..MaxSizes /\ variant[v].position \in Nat
  BY Bounded DEF SizesInv, SizesTypeOK, SizesOf, SizeRows
<1> DEFINE upTo(k, n) == \A v \in SizesOf(p) : v <= k => variant[v].position < n
           K == {k \in 0..MaxSizes : \A n \in Nat : ~upTo(k, n)}
<1>2. K = {}
  <2> SUFFICES ASSUME K # {} PROVE FALSE
    OBVIOUS
  <2>1. K \in SUBSET Nat
    BY Bounded
  <2>2. PICK k \in K : \A j \in K : k <= j
    BY <2>1, LeastOf, Zenon
  <2>3. upTo(0, 0)
    BY <1>1, Bounded
  <2>4. k \in 1..MaxSizes /\ k - 1 \in 0..MaxSizes /\ k - 1 \notin K
    BY <2>2, <2>3, Bounded
  <2>5. PICK n \in Nat : upTo(k - 1, n)
    BY <2>4
  <2>6. CASE k \in SizesOf(p)
    <3>1. PICK m \in Nat : m >= n /\ m > variant[k].position
      <4>1. variant[k].position + 1 + n \in Nat
        BY <1>1, <2>6
      <4> QED
        BY <1>1, <2>6, <4>1
    <3>2. ASSUME NEW v \in SizesOf(p), v <= k PROVE variant[v].position < m
      <4>1. v = k \/ v <= k - 1
        <5>1. k \in Int /\ v \in Int
          BY <1>1, <2>4
        <5> HIDE DEF K
        <5> QED
          BY <3>2, <5>1
      <4>2. ASSUME v <= k - 1 PROVE variant[v].position < m
        <5>1. variant[v].position < n /\ variant[v].position \in Nat
          BY <1>1, <2>5, <4>2
        <5> QED
          BY <3>1, <5>1
      <4>3. ASSUME v = k PROVE variant[v].position < m
        BY <3>1, <4>3
      <4> QED
        BY <4>1, <4>2, <4>3
    <3> QED
      BY <2>2, <3>2
  <2>7. CASE k \notin SizesOf(p)
    <3>1. ASSUME NEW v \in SizesOf(p), v <= k PROVE variant[v].position < n
      <4>1. v # k /\ k \in Int /\ v \in Int
        BY <1>1, <2>4, <2>7
      <4>2. v <= k - 1
        BY <3>1, <4>1
      <4> QED
        BY <2>5, <4>2
    <3> QED
      BY <2>2, <3>1
  <2> QED
    BY <2>6, <2>7
<1>3. PICK n \in Nat : upTo(MaxSizes, n)
  BY <1>2, Bounded
<1> QED
  BY <1>1, <1>3, Bounded

(* nextPosition is past every size of the product.                          *)
LEMMA NextIsPast ==
  ASSUME SizesInv, NEW p \in Articles
  PROVE  /\ NextPosition(p) \in Nat
         /\ \A v \in SizesOf(p) : variant[v].position < NextPosition(p)
<1>1. ASSUME NEW v \in SizesOf(p) PROVE variant[v].position \in Nat
  BY DEF SizesInv, SizesTypeOK, SizesOf, SizeRows
<1> DEFINE T == {n \in Nat : \A v \in SizesOf(p) : variant[v].position < n}
           U == {0} \cup {variant[v].position + 1 : v \in SizesOf(p)}
<1>2. T \in SUBSET Nat /\ T # {}
  BY PlacesBounded
<1>3. PICK n \in T : \A y \in T : n <= y
  BY <1>2, LeastOf, Zenon
<1>4. n \in Nat /\ \A v \in SizesOf(p) : variant[v].position < n
  BY <1>3
<1>5. n \in U
  <2> SUFFICES ASSUME n # 0 PROVE \E v \in SizesOf(p) : n = variant[v].position + 1
    OBVIOUS
  <2>1. n - 1 \in Nat /\ n - 1 \notin T
    BY <1>3, <1>4
  <2>2. PICK v \in SizesOf(p) : ~(variant[v].position < n - 1)
    BY <2>1
  <2> QED
    BY <1>1, <1>4, <2>1, <2>2
<1>6. U \subseteq Nat
  BY <1>1
<1>7. \E m \in U : \A v \in SizesOf(p) : variant[v].position < m
  BY <1>4, <1>5
<1> HIDE DEF U
<1>8. NextPosition(p) = CHOOSE m \in U : \A v \in SizesOf(p) : variant[v].position < m
  BY DEF NextPosition, U
<1> QED
  BY <1>6, <1>7, <1>8

(* The place an addition asks for, or is given, is a number.                *)
LEMMA PlaceTyped ==
  ASSUME SizesInv, NEW p \in Articles, NEW sent \in MaybePlaces
  PROVE  SentOr(sent, NextPosition(p)) \in Nat
BY NextIsPast, SizesAssumption DEF SentOr, MaybePlaces

-----------------------------------------------------------------------------
(* STEPS NO REMOVAL TAKES *)

(* An edit begins or ends; of the others, nothing changes.                  *)
LEMMA EditTyped ==
  ASSUME SizesInv, NEW c \in Editors, NEW e \in Edits, edit' = [edit EXCEPT ![c] = e]
  PROVE  /\ edit' \in [Editors -> Edits]
         /\ edit'[c] = e
         /\ \A d \in Editors \ {c} : edit'[d] = edit[d]
BY DEF SizesInv, SizesTypeOK

LEMMA OneRowStays ==
  ASSUME SizesInv, NEW v \in Variants, NEW r \in SizeRows,
         r.product = variant[v].product, r.deleted = variant[v].deleted,
         variant' = [variant EXCEPT ![v] = r]
  PROVE  variant' \in [Variants -> SizeRows] /\ RowsStay
BY DEF SizesInv, SizesTypeOK, RowsStay

LEMMA AddReadStep ==
  ASSUME SizesInv, NEW c \in Editors, NEW p \in Articles, NEW l \in Labels,
         NEW sent \in MaybePlaces, AddRead(c, p, l, sent)
  PROVE  SizesInv' /\ RowsGrow
<1>0. PICK n \in Nat : n = SentOr(sent, NextPosition(p))
  BY PlaceTyped
<1> DEFINE e == [NoEdit EXCEPT !.at = "add", !.product = p, !.label = l, !.position = n,
                               !.sent = sent # Nothing]
<1>1. /\ edit[c].at = "idle" /\ edit' = [edit EXCEPT ![c] = e]
      /\ UNCHANGED <<variant, holder, lines, sold, chosen>>
  BY <1>0 DEF AddRead, StartEdit, KeepSales
<1>3. e \in Edits /\ e.at = "add" /\ e.product = p
  <2>1. e \in Edits
    BY AddMade, Zenon
  <2>2. e.at = "add" /\ e.product = p
    BY DEF NoEdit
  <2> QED
    BY <2>1, <2>2
<1> HIDE DEF e
<1>5. /\ edit' \in [Editors -> Edits] /\ edit'[c] = e
      /\ \A d \in Editors \ {c} : edit'[d] = edit[d]
  BY <1>1, <1>3, EditTyped
<1>6. SizesTypeOK'
  BY <1>1, <1>5 DEF SizesInv, SizesTypeOK, AddRead, NoteCrowd
<1>7. RowsGrow /\ InOrder'
  BY <1>1, StayIsGrow DEF RowsStay, SizesInv
<1>8. \A v \in Variants : InCarts(v)' = InCarts(v)
  BY <1>1 DEF InCarts
<1> QED
  BY <1>1, <1>3, <1>5, <1>6, <1>7, <1>8, PlainStep

LEMMA RenameStep ==
  ASSUME SizesInv, NEW v \in Variants, NEW l \in Labels, Rename(v, l)
  PROVE  SizesInv' /\ RowsGrow
<1>1. /\ variant' = [variant EXCEPT ![v] = [variant[v] EXCEPT !.label = l]]
      /\ UNCHANGED <<lines, sold, holder, edit, crowded, chosen>>
  BY DEF Rename, KeepSales
<1>2. variant[v] \in SizeRows
  BY DEF SizesInv, SizesTypeOK
<1>3. variant' \in [Variants -> SizeRows] /\ RowsStay
  <2>1. /\ [variant[v] EXCEPT !.label = l] \in SizeRows
        /\ [variant[v] EXCEPT !.label = l].product = variant[v].product
        /\ [variant[v] EXCEPT !.label = l].deleted = variant[v].deleted
    BY <1>2 DEF SizeRows
  <2> QED
    BY <1>1, <2>1, OneRowStays
<1>4. SizesTypeOK'
  BY <1>1, <1>3 DEF SizesInv, SizesTypeOK
<1>5. RowsGrow /\ InOrder'
  BY <1>3, StayIsGrow DEF SizesInv
<1>6. \A w \in Variants : InCarts(w)' = InCarts(w)
  BY <1>1 DEF InCarts
<1> QED
  BY <1>1, <1>4, <1>5, <1>6, PlainStep

LEMMA ArchivedRow ==
  ASSUME SizesInv, NEW v \in Variants, NEW b \in BOOLEAN,
         variant' = [variant EXCEPT ![v].archived = b]
  PROVE  variant' \in [Variants -> SizeRows] /\ RowsStay
<1>1. variant' = [variant EXCEPT ![v] = [variant[v] EXCEPT !.archived = b]]
  OBVIOUS
<1>2. variant[v] \in SizeRows
  BY DEF SizesInv, SizesTypeOK
<1>3. /\ [variant[v] EXCEPT !.archived = b] \in SizeRows
      /\ [variant[v] EXCEPT !.archived = b].product = variant[v].product
      /\ [variant[v] EXCEPT !.archived = b].deleted = variant[v].deleted
  BY <1>2 DEF SizeRows
<1> QED
  BY <1>1, <1>3, OneRowStays

LEMMA UnarchiveStep ==
  ASSUME SizesInv, NEW v \in Variants, Unarchive(v) PROVE SizesInv' /\ RowsGrow
<1>1. /\ variant' = [variant EXCEPT ![v].archived = FALSE]
      /\ UNCHANGED <<lines, sold, holder, edit, crowded, chosen>>
  BY DEF Unarchive, KeepSales
<1>2. variant' \in [Variants -> SizeRows] /\ RowsStay
  BY <1>1, ArchivedRow
<1>3. SizesTypeOK'
  BY <1>1, <1>2 DEF SizesInv, SizesTypeOK
<1>4. RowsGrow /\ InOrder'
  BY <1>2, StayIsGrow DEF SizesInv
<1>5. \A w \in Variants : InCarts(w)' = InCarts(w)
  BY <1>1 DEF InCarts
<1> QED
  BY <1>1, <1>3, <1>4, <1>5, PlainStep

LEMMA ArchiveCountStep ==
  ASSUME SizesInv, NEW c \in Editors, NEW v \in Variants, ArchiveCount(c, v)
  PROVE  SizesInv' /\ RowsGrow
<1> DEFINE e == [NoEdit EXCEPT !.at = "archive", !.variant = v]
<1>1. /\ edit[c].at = "idle" /\ edit' = [edit EXCEPT ![c] = e]
      /\ UNCHANGED <<variant, holder, lines, sold, crowded, chosen>>
  BY DEF ArchiveCount, StartEdit, KeepSales
<1>2. e \in Edits /\ e.at = "archive"
  BY ArchiveMade
<1> HIDE DEF e
<1>3. /\ edit' \in [Editors -> Edits] /\ edit'[c] = e
      /\ \A d \in Editors \ {c} : edit'[d] = edit[d]
  BY <1>1, <1>2, EditTyped
<1>4. SizesTypeOK'
  BY <1>1, <1>3 DEF SizesInv, SizesTypeOK
<1>5. RowsGrow /\ InOrder'
  BY <1>1, StayIsGrow DEF RowsStay, SizesInv
<1>6. \A w \in Variants : InCarts(w)' = InCarts(w)
  BY <1>1 DEF InCarts
<1> QED
  BY <1>1, <1>2, <1>3, <1>4, <1>5, <1>6, PlainStep

LEMMA ArchiveWriteStep ==
  ASSUME SizesInv, NEW c \in Editors, ArchiveWrite(c) PROVE SizesInv' /\ RowsGrow
<1>1. /\ edit[c].at = "archive" /\ edit' = [edit EXCEPT ![c] = NoEdit]
      /\ UNCHANGED <<holder, lines, sold, crowded, chosen>>
  BY DEF ArchiveWrite, EndEdit, KeepSales
<1>2. /\ edit' \in [Editors -> Edits] /\ edit'[c] = NoEdit
      /\ \A d \in Editors \ {c} : edit'[d] = edit[d]
  BY <1>1, NoEditTyped, EditTyped
<1>3. variant' \in [Variants -> SizeRows] /\ RowsStay
  <2>1. CASE UNCHANGED variant
    BY <2>1 DEF SizesInv, SizesTypeOK, RowsStay
  <2>2. CASE /\ edit[c].variant \in Kept
             /\ variant' = [variant EXCEPT ![edit[c].variant].archived = TRUE]
    BY <2>2, ArchivedRow DEF Kept
  <2> QED
    BY <2>1, <2>2 DEF ArchiveWrite
<1>4. SizesTypeOK'
  BY <1>1, <1>2, <1>3 DEF SizesInv, SizesTypeOK
<1>5. RowsGrow /\ InOrder'
  BY <1>3, StayIsGrow DEF SizesInv
<1>6. \A w \in Variants : InCarts(w)' = InCarts(w)
  BY <1>1 DEF InCarts
<1> QED
  BY <1>1, <1>2, <1>4, <1>5, <1>6, NoEditTyped, PlainStep

LEMMA ReorderReadStep ==
  ASSUME SizesInv, NEW c \in Editors, NEW p \in Articles, ReorderRead(c, p)
  PROVE  SizesInv' /\ RowsGrow
<1>1. PICK s \in Orders(SizesOf(p)) :
        /\ edit[c].at = "idle"
        /\ edit' = [edit EXCEPT ![c] =
             [NoEdit EXCEPT !.at = "reorder", !.product = p, !.order = s]]
        /\ UNCHANGED <<variant, holder, lines, sold, chosen>>
  BY DEF ReorderRead, StartEdit, KeepSales
<1> DEFINE e == [NoEdit EXCEPT !.at = "reorder", !.product = p, !.order = s]
<1>2. s \in UNION {[1..m -> Variants] : m \in 0..MaxSizes}
  <2>1. SizesOf(p) \in SUBSET Variants
    BY DEF SizesOf
  <2>2. Cardinality(SizesOf(p)) \in 0..MaxSizes
    BY <2>1, VariantsFinite, Bounded
  <2>3. s \in [1..Cardinality(SizesOf(p)) -> Variants]
    BY <2>1 DEF Orders
  <2> QED
    BY <2>2, <2>3
<1>3. e \in Edits /\ e.at = "reorder" /\ e.product = p
  <2>1. e \in Edits
    BY <1>2, ReorderMade
  <2>2. e.at = "reorder" /\ e.product = p
    BY DEF NoEdit
  <2> QED
    BY <2>1, <2>2
<1> HIDE DEF e
<1>4. /\ edit' \in [Editors -> Edits] /\ edit'[c] = e
      /\ \A d \in Editors \ {c} : edit'[d] = edit[d]
  BY <1>1, <1>3, EditTyped DEF e
<1>5. SizesTypeOK'
  BY <1>1, <1>4 DEF SizesInv, SizesTypeOK, ReorderRead, NoteCrowd
<1>6. RowsGrow /\ InOrder'
  BY <1>1, StayIsGrow DEF RowsStay, SizesInv
<1>7. \A v \in Variants : InCarts(v)' = InCarts(v)
  BY <1>1 DEF InCarts
<1> QED
  BY <1>1, <1>3, <1>4, <1>5, <1>6, <1>7, PlainStep

LEMMA ReorderWriteStep ==
  ASSUME SizesInv, NEW c \in Editors, ReorderWrite(c) PROVE SizesInv' /\ RowsGrow
<1> DEFINE e == edit[c]
           place(v) == CHOOSE i \in DOMAIN e.order : e.order[i] = v
           named == {e.order[i] : i \in DOMAIN e.order}
<1>1. /\ edit[c].at = "reorder" /\ edit' = [edit EXCEPT ![c] = NoEdit]
      /\ variant' = IF named \subseteq Kept
                    THEN [v \in Variants |-> IF v \in named
                           THEN [variant[v] EXCEPT !.position = place(v) - 1]
                           ELSE variant[v]]
                    ELSE variant
      /\ chosen' \subseteq chosen
      /\ UNCHANGED <<holder, lines, sold, crowded>>
  BY DEF ReorderWrite, EndEdit, KeepSales
<1>2. ASSUME NEW v \in named PROVE place(v) - 1 \in Nat
  <2>1. e \in Edits
    BY DEF SizesInv, SizesTypeOK
  <2>2. PICK m \in 0..MaxSizes : e.order \in [1..m -> Variants]
    BY <2>1 DEF Edits
  <2>3. DOMAIN e.order = 1..m
    BY <2>2
  <2>4. place(v) \in 1..m
    BY <2>3
  <2> HIDE DEF place
  <2> QED
    BY <2>2, <2>4, Bounded
<1> HIDE DEF place, named, e
<1>3. variant' \in [Variants -> SizeRows] /\ RowsStay
  <2>1. ASSUME NEW v \in Variants, v \in named
        PROVE  /\ [variant[v] EXCEPT !.position = place(v) - 1] \in SizeRows
               /\ [variant[v] EXCEPT !.position = place(v) - 1].product = variant[v].product
               /\ [variant[v] EXCEPT !.position = place(v) - 1].deleted = variant[v].deleted
    <3>1. variant[v] \in SizeRows
      BY DEF SizesInv, SizesTypeOK
    <3> QED
      BY <1>2, <2>1, <3>1 DEF SizeRows
  <2> QED
    BY <1>1, <2>1 DEF SizesInv, SizesTypeOK, RowsStay
<1>4. /\ edit' \in [Editors -> Edits] /\ edit'[c] = NoEdit
      /\ \A d \in Editors \ {c} : edit'[d] = edit[d]
  BY <1>1, NoEditTyped, EditTyped
<1>5. SizesTypeOK'
  BY <1>1, <1>3, <1>4 DEF SizesInv, SizesTypeOK
<1>6. RowsGrow /\ InOrder'
  BY <1>3, StayIsGrow DEF SizesInv
<1>7. \A w \in Variants : InCarts(w)' = InCarts(w)
  BY <1>1 DEF InCarts
<1> QED
  BY <1>1, <1>4, <1>5, <1>6, <1>7, NoEditTyped, PlainStep

(* New rows: as many as come, after those in use.                           *)
LEMMA NewRows ==
  ASSUME SizesInv, NEW k \in Nat, Next1 + k <= MaxSizes + 1,
         variant' \in [Variants -> SizeRows],
         \A v \in Variants : v \in Next1..(Next1 + k - 1) =>
           variant'[v].product \in Articles /\ variant'[v].deleted = FALSE,
         \A v \in Variants : v \notin Next1..(Next1 + k - 1) => variant'[v] = variant[v]
  PROVE  RowsGrow /\ InOrder'
<1>1. PICK n \in 0..MaxSizes : UsedRows = 1..n
  BY DEF SizesInv, InOrder
<1>2. Next1 = n + 1 /\ n \in Nat /\ n + k \in 0..MaxSizes
  BY <1>1, NextUnused, Bounded
<1>3. UsedRows' = 1..(n + k)
  <2>1. ASSUME NEW v \in Variants PROVE v \in UsedRows' <=> v \in 1..(n + k)
    <3>1. v \in Nat \ {0}
      BY Bounded
    <3>2. v \in UsedRows' <=> variant'[v].product # Nothing
      BY DEF UsedRows
    <3>3. CASE v \in (n + 1)..(n + k)
      BY <1>2, <3>1, <3>2, <3>3, SizesAssumption
    <3>4. CASE v \notin (n + 1)..(n + k)
      BY <1>1, <1>2, <3>1, <3>2, <3>4 DEF UsedRows
    <3> QED
      BY <3>3, <3>4
  <2>2. UsedRows' \subseteq Variants /\ 1..(n + k) \subseteq Variants
    BY <1>2, Bounded DEF UsedRows
  <2> QED
    BY <2>1, <2>2
<1>4. InOrder'
  BY <1>2, <1>3 DEF InOrder
<1>5. RowsGrow
  BY <1>1, <1>2 DEF RowsGrow, UsedRows
<1> QED
  BY <1>4, <1>5

LEMMA NextTyped == ASSUME SizesInv PROVE Next1 \in Nat \ {0}
<1>1. PICK n \in 0..MaxSizes : UsedRows = 1..n
  BY DEF SizesInv, InOrder
<1> QED
  BY <1>1, NextUnused, Bounded

LEMMA AddCommitStep ==
  ASSUME SizesInv, NEW c \in Editors, AddCommit(c) PROVE SizesInv' /\ RowsGrow
<1>1. /\ edit[c].at = "add" /\ Next1 \in Variants
      /\ edit' = [edit EXCEPT ![c] = NoEdit]
      /\ chosen' \subseteq chosen \cup {Next1}
      /\ UNCHANGED <<holder, lines, sold, crowded>>
  BY DEF AddCommit, EndEdit, KeepSales
<1>2. /\ edit' \in [Editors -> Edits] /\ edit'[c] = NoEdit
      /\ \A d \in Editors \ {c} : edit'[d] = edit[d]
  BY <1>1, NoEditTyped, EditTyped
<1>3. variant' \in [Variants -> SizeRows] /\ RowsGrow /\ InOrder'
  <2>1. CASE UNCHANGED variant
    BY <2>1, StayIsGrow DEF RowsStay, SizesInv, SizesTypeOK
  <2>2. CASE variant' = [variant EXCEPT ![Next1] =
                  [BlankRow EXCEPT !.product = edit[c].product, !.label = edit[c].label,
                                   !.position = edit[c].position]]
    <3>1. edit[c].product \in Articles /\ edit[c] \in Edits
      BY <1>1 DEF SizesInv, SizesTypeOK, AddKnows
    <3> DEFINE r == [BlankRow EXCEPT !.product = edit[c].product, !.label = edit[c].label,
                                     !.position = edit[c].position]
    <3>2. r \in SizeRows /\ r.product = edit[c].product /\ r.deleted = FALSE
      <4>1. ASSUME NEW q \in SizeRows, NEW p \in Articles, NEW l \in Labels \cup {Nothing},
                   NEW n \in Nat
            PROVE  [q EXCEPT !.product = p, !.label = l, !.position = n] \in SizeRows
        BY DEF SizeRows
      <4>2. edit[c].label \in Labels \cup {Nothing} /\ edit[c].position \in Nat
        BY <3>1 DEF Edits
      <4>3. r \in SizeRows
        BY <3>1, <4>1, <4>2, BlankTyped
      <4>4. r.product = edit[c].product /\ r.deleted = FALSE
        BY DEF BlankRow
      <4> QED
        BY <4>3, <4>4
    <3> HIDE DEF r
    <3>3. variant' = [variant EXCEPT ![Next1] = r]
      BY <2>2 DEF r
    <3>4. variant' \in [Variants -> SizeRows]
      BY <3>2, <3>3 DEF SizesInv, SizesTypeOK
    <3>5. /\ Next1 \in Nat /\ Next1..(Next1 + 1 - 1) = {Next1} /\ Next1 + 1 <= MaxSizes + 1
      BY <1>1, Bounded
    <3>6. RowsGrow /\ InOrder'
      <4>1. \A v \in Variants : v \in Next1..(Next1 + 1 - 1) =>
              variant'[v].product \in Articles /\ variant'[v].deleted = FALSE
        BY <1>1, <3>1, <3>2, <3>3, <3>5 DEF SizesInv, SizesTypeOK
      <4>2. \A v \in Variants : v \notin Next1..(Next1 + 1 - 1) => variant'[v] = variant[v]
        BY <3>3, <3>5 DEF SizesInv, SizesTypeOK
      <4> QED
        BY <3>4, <3>5, <4>1, <4>2, NewRows
    <3> QED
      BY <3>4, <3>6
  <2> QED
    BY <2>1, <2>2 DEF AddCommit
<1>4. SizesTypeOK'
  BY <1>1, <1>2, <1>3 DEF SizesInv, SizesTypeOK
<1>5. \A w \in Variants : InCarts(w)' = InCarts(w)
  BY <1>1 DEF InCarts
<1> QED
  BY <1>1, <1>2, <1>3, <1>4, <1>5, NoEditTyped, PlainStep

LEMMA CreateSizesStep ==
  ASSUME SizesInv, NEW p \in Articles, NEW n \in 1..2, NEW labels \in [1..n -> Labels],
         NEW sent \in [1..n -> MaybePlaces], CreateSizes(p, labels, sent)
  PROVE  SizesInv' /\ RowsGrow
<1> DEFINE made(v) == [BlankRow EXCEPT !.product = p, !.label = labels[v - Next1 + 1],
                         !.position = SentOr(sent[v - Next1 + 1], v - Next1)]
<1>1. Len(labels) = n /\ n \in Nat
  OBVIOUS
<1>2. /\ Next1 + n <= MaxSizes + 1
      /\ variant' = [v \in Variants |->
           IF v \in Next1..(Next1 + n - 1) THEN made(v) ELSE variant[v]]
      /\ chosen' \subseteq chosen \cup Variants
      /\ UNCHANGED <<lines, sold, holder, edit, crowded>>
  BY <1>1 DEF CreateSizes, KeepSales
<1>3. ASSUME NEW v \in Variants, v \in Next1..(Next1 + n - 1)
      PROVE  /\ made(v) \in SizeRows
             /\ made(v).product = p /\ made(v).deleted = FALSE
  <2>1. v - Next1 + 1 \in 1..n /\ v - Next1 \in Nat
    <3>1. PICK k \in Nat \ {0} : k = Next1
      BY NextTyped
    <3>2. k + n <= MaxSizes + 1 /\ v \in k..(k + n - 1)
      BY <1>2, <1>3, <3>1
    <3>3. v - k + 1 \in 1..n /\ v - k \in Nat
      BY <3>2, Bounded
    <3> QED
      BY <3>1, <3>3
  <2>2. labels[v - Next1 + 1] \in Labels
    BY <2>1
  <2>3. ASSUME NEW q \in SizeRows, NEW l \in Labels, NEW k \in Nat
        PROVE  [q EXCEPT !.product = p, !.label = l, !.position = k] \in SizeRows
    BY DEF SizeRows
  <2>4. SentOr(sent[v - Next1 + 1], v - Next1) \in Nat
    <3>1. sent[v - Next1 + 1] \in MaybePlaces
      BY <2>1
    <3> QED
      BY <2>1, <3>1, SizesAssumption DEF SentOr, MaybePlaces
  <2>5. made(v) \in SizeRows
    BY <2>2, <2>3, <2>4, BlankTyped
  <2>6. made(v).product = p /\ made(v).deleted = FALSE
    BY DEF BlankRow
  <2> QED
    BY <2>5, <2>6
<1> HIDE DEF made
<1>4. variant' \in [Variants -> SizeRows]
  BY <1>2, <1>3 DEF SizesInv, SizesTypeOK
<1>5. RowsGrow /\ InOrder'
  <2>1. \A v \in Variants : v \in Next1..(Next1 + n - 1) =>
          variant'[v].product \in Articles /\ variant'[v].deleted = FALSE
    BY <1>2, <1>3
  <2>2. \A v \in Variants : v \notin Next1..(Next1 + n - 1) => variant'[v] = variant[v]
    BY <1>2
  <2> QED
    BY <1>1, <1>2, <1>4, <2>1, <2>2, NewRows
<1>6. SizesTypeOK'
  BY <1>2, <1>4 DEF SizesInv, SizesTypeOK
<1>7. \A w \in Variants : InCarts(w)' = InCarts(w)
  BY <1>2 DEF InCarts
<1> QED
  BY <1>2, <1>5, <1>6, <1>7, PlainStep

LEMMA CartStep ==
  ASSUME SizesInv, NEW k \in Carts, NEW v \in Variants,
         CartAdd(k, v) \/ CartDrop(k, v) \/ CartSold(k, v)
  PROVE  SizesInv' /\ RowsGrow
<1>1. UNCHANGED <<variant, holder, edit, crowded, chosen>>
  BY DEF CartAdd, CartDrop, CartSold
<1>2. SizesTypeOK'
  BY <1>1 DEF SizesInv, SizesTypeOK, CartAdd, CartDrop, CartSold
<1>3. RowsGrow /\ InOrder'
  BY <1>1, StayIsGrow DEF RowsStay, SizesInv
<1>4. ASSUME NEW w \in Variants, holder[variant[w].product] # Nothing
      PROVE  InCarts(w)' \subseteq InCarts(w)
  <2>1. CASE CartAdd(k, v)
    <3>1. v # w /\ lines' = lines \cup {<<k, v>>}
      BY <1>4, <2>1 DEF CartAdd, Free
    <3> QED
      BY <3>1 DEF InCarts
  <2>2. CASE CartDrop(k, v) \/ CartSold(k, v)
    BY <2>2 DEF CartDrop, CartSold, InCarts
  <2> QED
    BY <2>1, <2>2
<1> QED
  BY <1>1, <1>2, <1>3, <1>4, PlainStep

-----------------------------------------------------------------------------
(* REMOVALS *)

(* The other requests go on knowing what they knew, when a removal takes a  *)
(* step that changes no row.                                                *)
LEMMA RemovalStep ==
  ASSUME SizesInv, NEW c \in Editors, NEW e \in Edits,
         edit' = [edit EXCEPT ![c] = e], UNCHANGED <<variant, lines, sold, crowded, chosen>>,
         holder' \in [Articles -> Editors \cup {Nothing}],
         \A p \in Articles, d \in Editors \ {c} : holder[p] = d <=> holder'[p] = d,
         \A p \in Articles : holder'[p] = c =>
           e.at \in {"count", "delete"} /\ e.product = p,
         RemovalKnows(c)', e.at \in {"add", "reorder"} => e.product \in Articles
  PROVE  SizesInv'
<1>1. /\ edit' \in [Editors -> Edits] /\ edit'[c] = e
      /\ \A d \in Editors \ {c} : edit'[d] = edit[d]
  BY EditTyped
<1>2. SizesTypeOK'
  BY <1>1 DEF SizesInv, SizesTypeOK
<1>3. RowsGrow /\ InOrder'
  BY StayIsGrow DEF RowsStay, SizesInv
<1>4. \A w \in Variants : InCarts(w)' = InCarts(w)
  BY DEF InCarts
<1>5. ASSUME NEW d \in Editors PROVE RemovalKnows(d)' /\ AddKnows(d)'
  <2>1. CASE d = c
    BY <1>1, <2>1 DEF AddKnows
  <2>2. CASE d # c
    BY <1>1, <1>3, <1>4, <2>2, KnowledgeStays
  <2> QED
    BY <2>1, <2>2
<1>6. ASSUME NEW p \in Articles PROVE HeldByRemoval(p)'
  BY <1>1 DEF SizesInv, SizesTypeOK, HeldByRemoval
<1>7. ASSUME NEW p \in Articles PROVE KeepsOne(p)'
  BY DEF SizesInv, KeepsOne, SizesOf
<1> QED
  BY <1>2, <1>3, <1>5, <1>6, <1>7 DEF SizesInv

(* A request that holds nothing, or lets go of what it held, and is done.   *)
LEMMA RemovalEnds ==
  ASSUME SizesInv, NEW c \in Editors,
         edit' = [edit EXCEPT ![c] = NoEdit], UNCHANGED <<variant, lines, sold, crowded, chosen>>,
         holder' \in [Articles -> Editors \cup {Nothing}],
         \A p \in Articles, d \in Editors \ {c} : holder[p] = d <=> holder'[p] = d,
         \A p \in Articles : holder'[p] # c
  PROVE  SizesInv'
<1>1. NoEdit \in Edits /\ NoEdit.at = "idle" /\ edit'[c] = NoEdit
  BY NoEditTyped DEF SizesInv, SizesTypeOK
<1>2. RemovalKnows(c)'
  BY <1>1 DEF RemovalKnows
<1> QED
  BY <1>1, <1>2, RemovalStep

(* A row is held only by a removal past its lock.                           *)
LEMMA HoldsNothing ==
  ASSUME SizesInv, NEW c \in Editors, edit[c].at \notin {"count", "delete"}
  PROVE  \A p \in Articles : holder[p] # c
BY SizesAssumption DEF SizesInv, HeldByRemoval

LEMMA RemoveStartStep ==
  ASSUME SizesInv, NEW c \in Editors, NEW v \in Variants, NEW n \in -1..Cardinality(Carts),
         RemoveStart(c, v, n)
  PROVE  SizesInv'
<1>1. PICK p \in Articles : p = variant[v].product
  BY DEF RemoveStart, Kept, SizesInv, SizesTypeOK, SizeRows
<1>2. PICK S \in SUBSET Variants : S = SizesOf(p)
  BY DEF SizesOf
<1> DEFINE e == [NoEdit EXCEPT !.at = "queue", !.product = p, !.variant = v,
                               !.expected = n, !.rows = S]
<1>3. /\ edit[c].at = "idle" /\ edit' = [edit EXCEPT ![c] = e]
      /\ UNCHANGED <<variant, lines, sold, holder, crowded, chosen>>
  BY <1>1, <1>2 DEF RemoveStart, StartEdit, KeepSales
<1>4. e \in Edits
  BY RemovalMade
<1>5. e.at = "queue" /\ e.product = p /\ e.variant = v /\ e.rows = S
  BY DEF NoEdit
<1> HIDE DEF e
<1>6. edit'[c] = e
  BY <1>3, <1>4, EditTyped
<1>7. RemovalKnows(c)'
  BY <1>1, <1>2, <1>3, <1>5, <1>6 DEF RemovalKnows, SizesOf
<1>8. \A q \in Articles : holder[q] # c
  BY <1>3, HoldsNothing
<1>9. holder' \in [Articles -> Editors \cup {Nothing}]
  BY <1>3 DEF SizesInv, SizesTypeOK
<1> QED
  BY <1>3, <1>4, <1>5, <1>7, <1>8, <1>9, RemovalStep

LEMMA RemoveLockStep ==
  ASSUME SizesInv, NEW c \in Editors, RemoveLock(c) PROVE SizesInv'
<1> DEFINE locked == edit[c].rows \cap Kept
<1>1. /\ edit[c].at = "queue" /\ Free(edit[c].product)
      /\ UNCHANGED <<variant, lines, sold, crowded, chosen>>
  BY DEF RemoveLock, KeepSales
<1>2. PICK p \in Articles : p = edit[c].product
  BY <1>1 DEF SizesInv, RemovalKnows
<1>3. /\ edit[c] \in Edits /\ RemovalKnows(c) /\ holder[p] = Nothing
      /\ holder \in [Articles -> Editors \cup {Nothing}]
      /\ \A q \in Articles : holder[q] # c
  BY <1>1, <1>2, HoldsNothing DEF Free, SizesInv, SizesTypeOK
<1>4. CASE EndEdit(c) /\ UNCHANGED holder
  BY <1>1, <1>3, <1>4, RemovalEnds DEF EndEdit
<1>5. CASE /\ Cardinality(locked) > 1 /\ edit[c].variant \in locked
           /\ edit' = [edit EXCEPT ![c].at = "count", ![c].rows = {}]
           /\ holder' = [holder EXCEPT ![edit[c].product] = c]
  <2>1. PICK e \in Edits : e = [[edit[c] EXCEPT !.at = "count"] EXCEPT !.rows = {}]
    BY <1>3, EditMoves
  <2>2. edit' = [edit EXCEPT ![c] = e]
    BY <1>5, <2>1
  <2>3. e.at = "count" /\ e.product = p /\ e.variant = edit[c].variant
    BY <1>2, <1>3, <2>1 DEF Edits
  <2>4. edit'[c] = e
    BY <2>2, EditTyped
  <2>5. /\ holder' = [holder EXCEPT ![p] = c]
        /\ holder' \in [Articles -> Editors \cup {Nothing}]
        /\ holder'[p] = c /\ \A q \in Articles \ {p} : holder'[q] = holder[q]
    BY <1>2, <1>3, <1>5
  <2>6. locked \in SUBSET Variants /\ \A w \in locked : w \in SizesOf(p)
    BY <1>1, <1>2, <1>3 DEF Kept, SizesOf, RemovalKnows
  <2>7. \E w \in SizesOf(p) : w # e.variant
    <3> HIDE DEF locked
    <3>1. \E w \in locked : w # e.variant
      BY <1>5, <2>6, Another
    <3> QED
      BY <2>6, <3>1
  <2>8. /\ e.variant \in Variants /\ variant[e.variant].product = p
        /\ ~variant[e.variant].deleted
    BY <1>5, <2>3, <2>6 DEF SizesOf
  <2>9. SizesOf(p)' = SizesOf(p)
    BY <1>1 DEF SizesOf
  <2>10. RemovalKnows(c)'
    BY <1>1, <2>3, <2>4, <2>5, <2>7, <2>8, <2>9 DEF RemovalKnows
  <2>11. \A q \in Articles, d \in Editors \ {c} : holder[q] = d <=> holder'[q] = d
    BY <1>3, <2>5, SizesAssumption
  <2>12. \A q \in Articles : holder'[q] = c => e.at \in {"count", "delete"} /\ e.product = q
    BY <1>3, <2>3, <2>5
  <2> QED
    BY <1>1, <2>2, <2>3, <2>5, <2>10, <2>11, <2>12, RemovalStep
<1> QED
  BY <1>4, <1>5 DEF RemoveLock

LEMMA RemoveCountStep ==
  ASSUME SizesInv, NEW c \in Editors, RemoveCount(c) PROVE SizesInv'
<1>1. edit[c].at = "count" /\ UNCHANGED <<variant, lines, sold, crowded, chosen>>
  BY DEF RemoveCount, KeepSales
<1>2. PICK p \in Articles : p = edit[c].product
  BY <1>1 DEF SizesInv, RemovalKnows
<1>3. /\ edit[c] \in Edits /\ RemovalKnows(c)
      /\ holder \in [Articles -> Editors \cup {Nothing}] /\ holder[p] = c
      /\ \A q \in Articles \ {p} : holder[q] # c
  BY <1>1, <1>2, SizesAssumption DEF SizesInv, SizesTypeOK, RemovalKnows, HeldByRemoval
<1>4. CASE EndEdit(c) /\ holder' = [holder EXCEPT ![edit[c].product] = Nothing]
  <2>1. /\ holder' \in [Articles -> Editors \cup {Nothing}]
        /\ holder'[p] = Nothing /\ \A q \in Articles \ {p} : holder'[q] = holder[q]
    BY <1>2, <1>3, <1>4
  <2>2. \A q \in Articles : holder'[q] # c
    BY <1>3, <2>1, SizesAssumption
  <2>3. \A q \in Articles, d \in Editors \ {c} : holder[q] = d <=> holder'[q] = d
    BY <1>3, <2>1, SizesAssumption
  <2> QED
    BY <1>1, <1>4, <2>1, <2>2, <2>3, RemovalEnds DEF EndEdit
<1>5. CASE /\ Reviewed(edit[c].expected, Cardinality(InCarts(edit[c].variant)))
           /\ edit' = [edit EXCEPT ![c].at = "delete"] /\ UNCHANGED holder
  <2>1. PICK e \in Edits : e = [edit[c] EXCEPT !.at = "delete"]
    BY <1>3, EditMoves
  <2>2. edit' = [edit EXCEPT ![c] = e]
    BY <1>5, <2>1
  <2>3. /\ e.at = "delete" /\ e.product = p /\ e.variant = edit[c].variant
        /\ e.expected = edit[c].expected
    BY <1>2, <1>3, <2>1 DEF Edits
  <2>4. edit'[c] = e
    BY <2>2, EditTyped
  <2>5. Cardinality(InCarts(e.variant)) = Bound(e)
    BY <1>5, <2>3 DEF Reviewed, Bound
  <2>6. Cardinality(InCarts(e.variant)) \in Nat
    BY SizesAssumption, FS_Subset, FS_CardinalityType DEF InCarts
  <2>7. Cardinality(InCarts(e.variant)) <= Bound(e)
    BY <2>5, <2>6
  <2>8. SizesOf(p)' = SizesOf(p) /\ InCarts(e.variant)' = InCarts(e.variant)
    BY <1>1 DEF SizesOf, InCarts
  <2>9. RemovalKnows(c)'
    <3>1. /\ e.variant \in Variants /\ variant[e.variant].product = p
          /\ ~variant[e.variant].deleted /\ \E w \in SizesOf(p) : w # e.variant
      BY <1>1, <1>2, <1>3, <2>3 DEF RemovalKnows
    <3> QED
      BY <1>1, <1>3, <1>5, <2>3, <2>4, <2>7, <2>8, <3>1 DEF RemovalKnows, Bound
  <2>10. \A q \in Articles : holder'[q] = c => e.at \in {"count", "delete"} /\ e.product = q
    BY <1>3, <1>5, <2>3
  <2>11. holder' = holder /\ holder' \in [Articles -> Editors \cup {Nothing}]
    BY <1>3, <1>5
  <2>12. e.at \notin {"add", "reorder"}
    BY <2>3
  <2>13. \A q \in Articles, d \in Editors \ {c} : holder[q] = d <=> holder'[q] = d
    BY <2>11
  <2> QED
    BY <1>1, <2>2, <2>9, <2>10, <2>11, <2>12, <2>13, RemovalStep
<1> QED
  BY <1>4, <1>5 DEF RemoveCount

LEMMA EditAbortStep ==
  ASSUME SizesInv, NEW c \in Editors, EditAbort(c) PROVE SizesInv'
<1>1. /\ edit' = [edit EXCEPT ![c] = NoEdit] /\ UNCHANGED <<variant, lines, sold, crowded, chosen>>
      /\ holder' = [p \in Articles |-> IF holder[p] = c THEN Nothing ELSE holder[p]]
  BY DEF EditAbort, EndEdit, KeepSales
<1>2. holder' \in [Articles -> Editors \cup {Nothing}]
  BY <1>1 DEF SizesInv, SizesTypeOK
<1> QED
  BY <1>1, <1>2, SizesAssumption, RemovalEnds

(* The deletion: of the sizes it holds, one stays.                          *)
LEMMA RemoveDeleteStep ==
  ASSUME SizesInv, NEW c \in Editors, RemoveDelete(c) PROVE SizesInv'
<1>1. /\ edit[c].at = "delete" /\ UNCHANGED <<sold, crowded, chosen>>
      /\ edit' = [edit EXCEPT ![c] = NoEdit]
      /\ holder' = [holder EXCEPT ![edit[c].product] = Nothing]
  BY DEF RemoveDelete, EndEdit
<1>2. PICK p \in Articles, x \in Variants : p = edit[c].product /\ x = edit[c].variant
  BY <1>1 DEF SizesInv, RemovalKnows
<1>3. /\ edit[c] \in Edits /\ RemovalKnows(c)
      /\ holder \in [Articles -> Editors \cup {Nothing}] /\ holder[p] = c
      /\ variant[x].product = p
      /\ \A q \in Articles \ {p} : holder[q] # c
  BY <1>1, <1>2, SizesAssumption DEF SizesInv, SizesTypeOK, RemovalKnows, HeldByRemoval
<1>4. /\ edit' \in [Editors -> Edits] /\ edit'[c] = NoEdit
      /\ \A d \in Editors \ {c} : edit'[d] = edit[d]
  BY <1>1, NoEditTyped, EditTyped
<1>5. /\ holder' \in [Articles -> Editors \cup {Nothing}]
      /\ holder'[p] = Nothing /\ \A q \in Articles \ {p} : holder'[q] = holder[q]
  BY <1>1, <1>2, <1>3
<1>6. CASE UNCHANGED <<variant, lines>>
  <2>1. \A q \in Articles : holder'[q] # c
    BY <1>3, <1>5, SizesAssumption
  <2>2. \A q \in Articles, d \in Editors \ {c} : holder[q] = d <=> holder'[q] = d
    BY <1>3, <1>5, SizesAssumption
  <2> QED
    BY <1>1, <1>5, <1>6, <2>1, <2>2, RemovalEnds
<1>7. CASE /\ variant' = [variant EXCEPT ![edit[c].variant] =
                [BlankRow EXCEPT !.product = edit[c].product, !.deleted = TRUE]]
           /\ lines' = {l \in lines : l[2] # edit[c].variant}
  <2>1. PICK r \in SizeRows :
          r.product = p /\ r.deleted = TRUE /\ variant' = [variant EXCEPT ![x] = r]
    BY <1>2, <1>7, RowGone
  <2>2. /\ variant' \in [Variants -> SizeRows]
        /\ variant'[x].product = p /\ variant'[x].deleted = TRUE
        /\ \A v \in Variants \ {x} : variant'[v] = variant[v]
        /\ \A v \in Variants : variant'[v].product = variant[v].product
    BY <1>3, <2>1 DEF SizesInv, SizesTypeOK
  <2>3. lines' \subseteq lines
    BY <1>7
  <2>4. SizesTypeOK'
    BY <1>1, <1>4, <1>5, <2>2, <2>3 DEF SizesInv, SizesTypeOK
  <2>5. InOrder'
    BY <2>2 DEF SizesInv, InOrder, UsedRows
  <2>6. /\ SizesOf(p)' = SizesOf(p) \ {x}
        /\ \A q \in Articles \ {p} : SizesOf(q)' = SizesOf(q)
    BY <1>3, <2>2 DEF SizesOf
  <2>7. ASSUME NEW d \in Editors PROVE RemovalKnows(d)' /\ AddKnows(d)'
    <3>1. CASE d = c
      BY <1>4, <3>1, NoEditTyped DEF RemovalKnows, AddKnows
    <3>2. CASE d # c
      <4>1. edit'[d] = edit[d] /\ RemovalKnows(d) /\ AddKnows(d) /\ edit[d] \in Edits
        BY <1>4, <3>2 DEF SizesInv, SizesTypeOK
      <4>2. edit[d].at \in {"count", "delete"} => edit[d].product # p
        BY <1>3, <3>2, <4>1 DEF RemovalKnows
      <4>3. edit[d].at \in {"queue", "count", "delete"} =>
              variant'[edit[d].variant].product = edit[d].product
        BY <2>2, <4>1 DEF RemovalKnows
      <4>4. edit[d].at = "queue" =>
              \A w \in edit[d].rows : variant'[w].product = edit[d].product
        BY <2>2, <4>1 DEF RemovalKnows, Edits
      <4>5. edit[d].at \in {"count", "delete"} =>
              /\ holder'[edit[d].product] = d
              /\ variant'[edit[d].variant].deleted = variant[edit[d].variant].deleted
              /\ SizesOf(edit[d].product)' = SizesOf(edit[d].product)
        BY <1>3, <1>5, <2>2, <2>6, <4>1, <4>2 DEF RemovalKnows
      <4>6. ASSUME edit[d].at = "delete"
            PROVE  Cardinality(InCarts(edit[d].variant)') <= Bound(edit[d])
        <5>1. InCarts(edit[d].variant)' = InCarts(edit[d].variant)
          <6>1. edit[d].variant # x
            BY <1>3, <4>1, <4>2, <4>6 DEF RemovalKnows
          <6> QED
            BY <1>2, <1>7, <4>1, <6>1 DEF InCarts
        <5> QED
          BY <4>1, <4>6, <5>1 DEF RemovalKnows
      <4> QED
        BY <4>1, <4>3, <4>4, <4>5, <4>6 DEF RemovalKnows, AddKnows, Bound
    <3> QED
      BY <3>1, <3>2
  <2>8. ASSUME NEW q \in Articles PROVE HeldByRemoval(q)'
    <3>1. CASE q = p
      BY <1>5, <3>1 DEF HeldByRemoval
    <3>2. CASE q # p
      BY <1>3, <1>4, <1>5, <3>2 DEF SizesInv, HeldByRemoval
    <3> QED
      BY <3>1, <3>2
  <2>9. ASSUME NEW q \in Articles PROVE KeepsOne(q)'
    <3>1. CASE q = p
      <4>1. \E w \in SizesOf(p) : w # x
        BY <1>1, <1>2, <1>3 DEF RemovalKnows
      <4> QED
        BY <2>6, <3>1, <4>1 DEF KeepsOne
    <3>2. CASE q # p
      BY <2>2, <2>6, <3>2 DEF SizesInv, KeepsOne
    <3> QED
      BY <3>1, <3>2
  <2> QED
    BY <2>4, <2>5, <2>7, <2>8, <2>9 DEF SizesInv
<1> QED
  BY <1>6, <1>7 DEF RemoveDelete

-----------------------------------------------------------------------------
(* THE INVARIANT *)

LEMMA SizesInitial == SizesInit => SizesInv
<1> SUFFICES ASSUME SizesInit PROVE SizesInv
  OBVIOUS
<1> USE DEF SizesInit
<1>1. SizesTypeOK
  BY BlankTyped, NoEditTyped DEF SizesTypeOK
<1>2. InOrder
  <2>1. UsedRows = 1..0
    BY BlankTyped DEF UsedRows
  <2> QED
    BY <2>1, Bounded DEF InOrder
<1>3. \A c \in Editors : RemovalKnows(c) /\ AddKnows(c)
  BY NoEditTyped DEF RemovalKnows, AddKnows
<1>4. \A p \in Articles : HeldByRemoval(p) /\ KeepsOne(p)
  BY BlankTyped, SizesAssumption DEF HeldByRemoval, KeepsOne
<1> QED
  BY <1>1, <1>2, <1>3, <1>4 DEF SizesInv

LEMMA SizesUnchanged == ASSUME SizesInv, UNCHANGED sizesVars PROVE SizesInv'
<1> USE DEF sizesVars
<1>1. SizesTypeOK'
  BY DEF SizesInv, SizesTypeOK
<1>2. RowsGrow /\ InOrder'
  BY StayIsGrow DEF RowsStay, SizesInv
<1>3. \A w \in Variants : InCarts(w)' = InCarts(w)
  BY DEF InCarts
<1> QED
  BY <1>1, <1>2, <1>3, PlainStep

LEMMA SizesSteps == ASSUME SizesInv, [SizesNext]_sizesVars PROVE SizesInv'
<1>1. ASSUME NEW p \in Articles, NEW n \in 1..2, NEW labels \in [1..n -> Labels],
             NEW sent \in [1..n -> MaybePlaces], CreateSizes(p, labels, sent)
      PROVE  SizesInv'
  BY <1>1, CreateSizesStep
<1>2. ASSUME NEW v \in Variants,
             Unarchive(v) \/ \E l \in Labels : Rename(v, l) \/ UpdateSize(v, l)
      PROVE  SizesInv'
  BY <1>2, UnarchiveStep, RenameStep DEF UpdateSize
<1>3. ASSUME NEW c \in Editors,
             \/ \E p \in Articles :
                  \/ ReorderRead(c, p)
                  \/ \E l \in Labels, sent \in MaybePlaces : AddRead(c, p, l, sent)
             \/ \E v \in Variants : ArchiveCount(c, v)
             \/ \E v \in Variants, n \in -1..Cardinality(Carts) : RemoveStart(c, v, n)
             \/ AddCommit(c) \/ ArchiveWrite(c) \/ ReorderWrite(c)
             \/ RemoveLock(c) \/ RemoveCount(c) \/ RemoveDelete(c) \/ EditAbort(c)
      PROVE  SizesInv'
  BY <1>3, ReorderReadStep, AddReadStep, ArchiveCountStep, RemoveStartStep, AddCommitStep,
     ArchiveWriteStep, ReorderWriteStep, RemoveLockStep, RemoveCountStep, RemoveDeleteStep,
     EditAbortStep
<1>4. ASSUME NEW k \in Carts, NEW v \in Variants,
             CartAdd(k, v) \/ CartDrop(k, v) \/ CartSold(k, v)
      PROVE  SizesInv'
  BY <1>4, CartStep
<1> QED
  BY <1>1, <1>2, <1>3, <1>4, SizesUnchanged DEF SizesNext

(* A removal that has locked the sizes of a product knows all of them until *)
(* it is over: SELECT ... FOR UPDATE in removeVariant.                      *)
THEOREM RemovalsKnow == SizesSpec => []SizesInv
<1>1. SizesInit => SizesInv
  BY SizesInitial
<1>2. SizesInv /\ [SizesNext]_sizesVars => SizesInv'
  BY SizesSteps
<1> QED
  BY <1>1, <1>2, PTL DEF SizesSpec

(* Wall 1, for any number of sizes and editors: a product that has sizes    *)
(* never loses its last row, whatever removals overlap.                     *)
THEOREM ASizeIsKept == SizesSpec => []KeepsASize
<1>1. SizesInv => KeepsASize
  BY DEF SizesInv, KeepsOne, KeepsASize
<1> QED
  BY <1>1, RemovalsKnow, PTL

(* Only a removal that has recounted makes a size go.                       *)
LEMMA OnlyRemovalsDelete ==
  ASSUME SizesInv, [SizesNext]_sizesVars, NEW v \in Kept, variant'[v].deleted
  PROVE  \E c \in Editors : RemoveDelete(c) /\ edit[c].variant = v
<1>0. v \in UsedRows /\ v \in Variants /\ ~variant[v].deleted
  BY DEF Kept, UsedRows
<1>1. ~RowsGrow
  BY <1>0 DEF RowsGrow
<1>2. CASE UNCHANGED variant
  BY <1>0, <1>2
<1>3. ASSUME NEW p \in Articles, NEW n \in 1..2, NEW labels \in [1..n -> Labels],
             NEW sent \in [1..n -> MaybePlaces], CreateSizes(p, labels, sent)
      PROVE  FALSE
  BY <1>1, <1>3, CreateSizesStep
<1>4. ASSUME NEW w \in Variants,
             Unarchive(w) \/ \E l \in Labels : Rename(w, l) \/ UpdateSize(w, l)
      PROVE  FALSE
  BY <1>1, <1>4, UnarchiveStep, RenameStep DEF UpdateSize
<1>5. ASSUME NEW c \in Editors,
             \/ \E p \in Articles :
                  \/ ReorderRead(c, p)
                  \/ \E l \in Labels, sent \in MaybePlaces : AddRead(c, p, l, sent)
             \/ \E w \in Variants : ArchiveCount(c, w)
             \/ \E w \in Variants, n \in -1..Cardinality(Carts) : RemoveStart(c, w, n)
             \/ RemoveLock(c) \/ RemoveCount(c) \/ EditAbort(c)
      PROVE  UNCHANGED variant
  BY <1>5 DEF ReorderRead, AddRead, ArchiveCount, RemoveStart, RemoveLock, RemoveCount, EditAbort
<1>6. ASSUME NEW c \in Editors, AddCommit(c) \/ ArchiveWrite(c) \/ ReorderWrite(c)
      PROVE  FALSE
  BY <1>1, <1>6, AddCommitStep, ArchiveWriteStep, ReorderWriteStep
<1>7. ASSUME NEW c \in Editors, RemoveDelete(c)
      PROVE  RemoveDelete(c) /\ edit[c].variant = v
  <2>1. edit[c].variant # v => variant'[v] = variant[v]
    BY <1>0, <1>7 DEF RemoveDelete, SizesInv, SizesTypeOK
  <2> QED
    BY <1>0, <1>7, <2>1
<1>8. ASSUME NEW k \in Carts, NEW w \in Variants,
             CartAdd(k, w) \/ CartDrop(k, w) \/ CartSold(k, w)
      PROVE  UNCHANGED variant
  BY <1>8 DEF CartAdd, CartDrop, CartSold
<1> QED
  BY <1>2, <1>3, <1>4, <1>5, <1>6, <1>7, <1>8 DEF SizesNext, sizesVars

(* Walls 2 and 3: when a size goes nobody has bought it, and no more cart   *)
(* lines go with it than its editor reviewed.                               *)
THEOREM RemovalsAreReviewed == SizesSpec => RemovalWasReviewed
<1>1. ASSUME SizesInv, [SizesNext]_sizesVars, NEW v \in Kept, variant'[v].deleted
      PROVE  /\ v \notin sold
             /\ \E c \in Editors :
                  /\ edit[c].variant = v
                  /\ Cardinality(InCarts(v)) <=
                       (IF edit[c].expected = -1 THEN 0 ELSE edit[c].expected)
  <2>1. PICK c \in Editors : RemoveDelete(c) /\ edit[c].variant = v
    BY <1>1, OnlyRemovalsDelete
  <2>2. v \notin sold
    BY <1>1, <2>1 DEF RemoveDelete, Kept
  <2>3. RemovalKnows(c) /\ edit[c].at = "delete"
    BY <1>1, <2>1 DEF SizesInv, RemoveDelete
  <2> QED
    BY <2>1, <2>2, <2>3 DEF RemovalKnows, Bound
<1>2. SizesInv /\ [SizesNext]_sizesVars =>
        [\A v \in Kept : variant'[v].deleted =>
           /\ v \notin sold
           /\ \E c \in Editors :
                /\ edit[c].variant = v
                /\ Cardinality(InCarts(v)) <=
                     (IF edit[c].expected = -1 THEN 0 ELSE edit[c].expected)]_sizesVars
  BY <1>1
<1> QED
  BY <1>2, RemovalsKnow, PTL DEF SizesSpec, RemovalWasReviewed

-----------------------------------------------------------------------------
(* PLACES *)

Arranging(c, p) == edit[c].at \in {"add", "reorder"} /\ edit[c].product = p

HasRows(p) == \E v \in Variants : variant[v].product = p

(* Whatever went last, or was reordered, has a place of its own among those *)
(* that were there.                                                         *)
Distinct(p) ==
  \A v, w \in SizesOf(p) :
    v < w /\ w \notin chosen => variant[v].position # variant[w].position

Named(c) == {edit[c].order[i] : i \in DOMAIN edit[c].order}

(* While one person alone arranges the sizes of a product: an addition that *)
(* does not say where goes past all of them, and a reordering names them.   *)
AloneWith(c, p) ==
  /\ edit[c].at = "add" /\ ~edit[c].sent =>
       \A v \in SizesOf(p) : variant[v].position < edit[c].position
  /\ edit[c].at = "reorder" => SizesOf(p) \subseteq Named(c)
  /\ \A d \in Editors : Arranging(d, p) => d = c

ArrangingInv ==
  /\ \A c \in Editors, p \in Articles : Arranging(c, p) => HasRows(p)
  /\ \A c \in Editors : edit[c].at = "reorder" =>
       \A v \in Named(c) : v \in Variants /\ variant[v].product = edit[c].product
  /\ \A p \in Articles \ crowded :
       Distinct(p) /\ \A c \in Editors : Arranging(c, p) => AloneWith(c, p)

(* A step by which no size comes or moves, and nobody begins to arrange.    *)
Still ==
  /\ \A v \in Variants : /\ variant'[v].product = variant[v].product
                         /\ variant[v].deleted => variant'[v].deleted
                         /\ ~variant'[v].deleted => variant'[v].position = variant[v].position
  /\ \A d \in Editors : edit'[d] = edit[d] \/ edit'[d].at \notin {"add", "reorder"}
  /\ crowded' = crowded /\ chosen' = chosen

LEMMA StillArranged ==
  ASSUME SizesInv, ArrangingInv, Still PROVE ArrangingInv'
<1>1. ASSUME NEW p \in Articles
      PROVE  /\ SizesOf(p)' \subseteq SizesOf(p)
             /\ \A v \in SizesOf(p)' : variant'[v].position = variant[v].position
             /\ HasRows(p)' <=> HasRows(p)
             /\ \A d \in Editors : Arranging(d, p)' => Arranging(d, p) /\ edit'[d] = edit[d]
  BY DEF Still, SizesOf, HasRows, Arranging
<1>2. ASSUME NEW c \in Editors, NEW p \in Articles, Arranging(c, p)' PROVE HasRows(p)'
  BY <1>1, <1>2 DEF ArrangingInv
<1>3. ASSUME NEW c \in Editors, edit'[c].at = "reorder"
      PROVE  \A v \in Named(c)' : v \in Variants /\ variant'[v].product = edit'[c].product
  <2>1. edit'[c] = edit[c]
    BY <1>3 DEF Still
  <2>2. Named(c)' = Named(c)
    BY <2>1 DEF Named
  <2> QED
    BY <1>3, <2>1, <2>2 DEF ArrangingInv, Still
<1>4. ASSUME NEW p \in Articles \ crowded' PROVE Distinct(p)'
  <2>1. Distinct(p) /\ chosen' = chosen
    BY DEF ArrangingInv, Still
  <2> QED
    BY <1>1, <2>1 DEF Distinct
<1>5. ASSUME NEW p \in Articles \ crowded', NEW c \in Editors, Arranging(c, p)'
      PROVE  AloneWith(c, p)'
  <2>1. Arranging(c, p) /\ edit'[c] = edit[c] /\ AloneWith(c, p)
    BY <1>1, <1>5 DEF ArrangingInv, Still
  <2>2. Named(c)' = Named(c)
    BY <2>1 DEF Named
  <2> QED
    BY <1>1, <2>1, <2>2 DEF AloneWith
<1> QED
  BY <1>2, <1>3, <1>4, <1>5 DEF ArrangingInv

(* One row is archived, brought back or renamed: it stays where it is.      *)
LEMMA RowStill ==
  ASSUME SizesInv, NEW v \in Variants,
         \/ \E b \in BOOLEAN : variant' = [variant EXCEPT ![v].archived = b]
         \/ \E l \in Labels : variant' = [variant EXCEPT ![v].label = l]
  PROVE  \A w \in Variants : /\ variant'[w].product = variant[w].product
                             /\ variant'[w].deleted = variant[w].deleted
                             /\ variant'[w].position = variant[w].position
<1>1. variant[v] \in SizeRows /\ variant \in [Variants -> SizeRows]
  BY DEF SizesInv, SizesTypeOK
<1>2. ASSUME NEW b \in BOOLEAN, variant' = [variant EXCEPT ![v].archived = b]
      PROVE  \A w \in Variants : /\ variant'[w].product = variant[w].product
                                 /\ variant'[w].deleted = variant[w].deleted
                                 /\ variant'[w].position = variant[w].position
  BY <1>1, <1>2 DEF SizeRows
<1>3. ASSUME NEW l \in Labels, variant' = [variant EXCEPT ![v].label = l]
      PROVE  \A w \in Variants : /\ variant'[w].product = variant[w].product
                                 /\ variant'[w].deleted = variant[w].deleted
                                 /\ variant'[w].position = variant[w].position
  BY <1>1, <1>3 DEF SizeRows
<1> QED
  BY <1>2, <1>3

LEMMA StillSteps ==
  ASSUME SizesInv, ArrangingInv,
         \/ UNCHANGED sizesVars
         \/ \E v \in Variants : Unarchive(v) \/ \E l \in Labels : Rename(v, l)
         \/ \E c \in Editors :
              \/ \E v \in Variants : ArchiveCount(c, v)
              \/ \E v \in Variants, n \in -1..Cardinality(Carts) : RemoveStart(c, v, n)
              \/ ArchiveWrite(c) \/ RemoveLock(c) \/ RemoveCount(c) \/ RemoveDelete(c)
              \/ EditAbort(c)
         \/ \E k \in Carts, v \in Variants : CartAdd(k, v) \/ CartDrop(k, v) \/ CartSold(k, v)
  PROVE  ArrangingInv'
<1> USE StillArranged
<1>0. edit \in [Editors -> Edits] /\ variant \in [Variants -> SizeRows]
  BY DEF SizesInv, SizesTypeOK
<1>1. CASE UNCHANGED <<variant, edit, crowded, chosen>>
  BY <1>1 DEF Still
<1>2. ASSUME NEW v \in Variants, Unarchive(v) \/ \E l \in Labels : Rename(v, l)
      PROVE  Still
  <2>1. UNCHANGED <<edit, crowded, chosen>>
    BY <1>2 DEF Unarchive, Rename
  <2>2. \/ \E b \in BOOLEAN : variant' = [variant EXCEPT ![v].archived = b]
        \/ \E l \in Labels : variant' = [variant EXCEPT ![v].label = l]
    BY <1>2 DEF Unarchive, Rename
  <2> QED
    BY <2>1, <2>2, RowStill DEF Still
<1>3. ASSUME NEW c \in Editors, NEW v \in Variants,
             ArchiveCount(c, v) \/ \E n \in -1..Cardinality(Carts) : RemoveStart(c, v, n)
      PROVE  Still
  <2>1. UNCHANGED <<variant, crowded, chosen>>
    BY <1>3 DEF ArchiveCount, RemoveStart
  <2>2. \A d \in Editors : edit'[d] = edit[d] \/ edit'[d].at \notin {"add", "reorder"}
    BY <1>0, <1>3 DEF ArchiveCount, RemoveStart, StartEdit, NoEdit
  <2> QED
    BY <2>1, <2>2 DEF Still
<1>4. ASSUME NEW c \in Editors, edit' = [edit EXCEPT ![c] = NoEdit]
      PROVE  \A d \in Editors : edit'[d] = edit[d] \/ edit'[d].at \notin {"add", "reorder"}
  BY <1>0, <1>4, NoEditTyped
<1>5. ASSUME NEW c \in Editors, ArchiveWrite(c) PROVE Still
  <2>1. UNCHANGED <<crowded, chosen>> /\ edit' = [edit EXCEPT ![c] = NoEdit]
    BY <1>5 DEF ArchiveWrite, EndEdit
  <2>2. CASE UNCHANGED variant
    BY <1>4, <2>1, <2>2 DEF Still
  <2>3. CASE /\ edit[c].variant \in Variants
             /\ variant' = [variant EXCEPT ![edit[c].variant].archived = TRUE]
    BY <1>4, <2>1, <2>3, RowStill DEF Still
  <2> QED
    BY <1>5, <2>2, <2>3 DEF ArchiveWrite, Kept
<1>6. ASSUME NEW c \in Editors, RemoveLock(c) \/ RemoveCount(c) \/ EditAbort(c)
      PROVE  Still
  <2>1. UNCHANGED <<variant, crowded, chosen>>
    BY <1>6 DEF RemoveLock, RemoveCount, EditAbort
  <2>2. CASE EndEdit(c)
    BY <1>4, <2>1, <2>2 DEF EndEdit, Still
  <2>3. CASE edit' = [edit EXCEPT ![c].at = "count", ![c].rows = {}]
    <3>1. edit' = [edit EXCEPT ![c] = [[edit[c] EXCEPT !.at = "count"] EXCEPT !.rows = {}]]
      BY <2>3
    <3>2. [[edit[c] EXCEPT !.at = "count"] EXCEPT !.rows = {}].at = "count"
      <4>1. ASSUME NEW e \in Edits
            PROVE  [[e EXCEPT !.at = "count"] EXCEPT !.rows = {}].at = "count"
        BY DEF Edits
      <4> QED
        BY <1>0, <4>1
    <3>3. edit'[c].at = "count" /\ \A d \in Editors \ {c} : edit'[d] = edit[d]
      BY <1>0, <3>1, <3>2
    <3> QED
      BY <2>1, <3>3 DEF Still
  <2>4. CASE edit' = [edit EXCEPT ![c].at = "delete"]
    <3>1. edit' = [edit EXCEPT ![c] = [edit[c] EXCEPT !.at = "delete"]]
      BY <2>4
    <3>2. [edit[c] EXCEPT !.at = "delete"].at = "delete"
      BY <1>0 DEF Edits
    <3>3. edit'[c].at = "delete" /\ \A d \in Editors \ {c} : edit'[d] = edit[d]
      BY <1>0, <3>1, <3>2
    <3> QED
      BY <2>1, <3>3 DEF Still
  <2> QED
    BY <1>6, <2>2, <2>3, <2>4 DEF RemoveLock, RemoveCount, EditAbort
<1>7. ASSUME NEW c \in Editors, RemoveDelete(c) PROVE Still
  <2>1. UNCHANGED <<crowded, chosen>> /\ edit' = [edit EXCEPT ![c] = NoEdit]
    BY <1>7 DEF RemoveDelete, EndEdit
  <2>2. CASE UNCHANGED variant
    BY <1>4, <2>1, <2>2 DEF Still
  <2>3. CASE variant' = [variant EXCEPT ![edit[c].variant] =
                  [BlankRow EXCEPT !.product = edit[c].product, !.deleted = TRUE]]
    <3>0. edit[c].at = "delete" /\ RemovalKnows(c)
      BY <1>7 DEF RemoveDelete, SizesInv
    <3>1. PICK p \in Articles, x \in Variants :
            p = edit[c].product /\ x = edit[c].variant /\ variant[x].product = p
      BY <3>0 DEF RemovalKnows
    <3>2. PICK r \in SizeRows :
            r.product = p /\ r.deleted = TRUE /\ variant' = [variant EXCEPT ![x] = r]
      BY <2>3, <3>1, RowGone
    <3>3. /\ variant'[x].product = variant[x].product /\ variant'[x].deleted = TRUE
          /\ \A w \in Variants \ {x} : variant'[w] = variant[w]
      BY <1>0, <3>1, <3>2
    <3> QED
      BY <1>4, <2>1, <3>3 DEF Still
  <2> QED
    BY <1>7, <2>2, <2>3 DEF RemoveDelete
<1>8. ASSUME NEW k \in Carts, NEW v \in Variants,
             CartAdd(k, v) \/ CartDrop(k, v) \/ CartSold(k, v)
      PROVE  UNCHANGED <<variant, edit, crowded, chosen>>
  BY <1>8 DEF CartAdd, CartDrop, CartSold
<1> QED
  BY <1>1, <1>2, <1>3, <1>5, <1>6, <1>7, <1>8 DEF sizesVars

(* crowded holds a product two people arrange.                              *)
LEMMA CrowdNoted ==
  ASSUME SizesInv, NEW p \in Articles, NoteCrowd(p)
  PROVE  /\ crowded \subseteq crowded'
         /\ p \notin crowded' => \A d \in Editors : ~Arranging(d, p)
BY DEF NoteCrowd, Arranging

(* One person begins to arrange the sizes of a product; no row changes.     *)
LEMMA ArrangingBegins ==
  ASSUME SizesInv, ArrangingInv, NEW c \in Editors, NEW p \in Articles, NEW e \in Edits,
         edit[c].at = "idle", edit' = [edit EXCEPT ![c] = e],
         UNCHANGED <<variant, chosen>>,
         NoteCrowd(p), SizesOf(p) # {},
         e.at \in {"add", "reorder"}, e.product = p,
         e.at = "add" /\ ~e.sent => \A v \in SizesOf(p) : variant[v].position < e.position,
         e.at = "reorder" => {e.order[i] : i \in DOMAIN e.order} = SizesOf(p)
  PROVE  ArrangingInv'
<1>1. /\ edit'[c] = e /\ \A d \in Editors \ {c} : edit'[d] = edit[d]
  BY EditTyped
<1>2. \A q \in Articles : /\ SizesOf(q)' = SizesOf(q)
                          /\ HasRows(q)' <=> HasRows(q)
                          /\ Distinct(q)' <=> Distinct(q)
  BY DEF SizesOf, HasRows, Distinct
<1>3. \A d \in Editors \ {c}, q \in Articles : Arranging(d, q)' <=> Arranging(d, q)
  BY <1>1 DEF Arranging
<1>4. \A q \in Articles : ~Arranging(c, q) /\ (Arranging(c, q)' <=> q = p)
  BY <1>1 DEF Arranging
<1>5. ASSUME NEW d \in Editors, NEW q \in Articles, Arranging(d, q)' PROVE HasRows(q)'
  <2>1. HasRows(p)
    BY DEF HasRows, SizesOf
  <2> QED
    BY <1>2, <1>3, <1>4, <1>5, <2>1 DEF ArrangingInv
<1>6. ASSUME NEW d \in Editors, edit'[d].at = "reorder"
      PROVE  \A v \in Named(d)' : v \in Variants /\ variant'[v].product = edit'[d].product
  <2>1. CASE d = c
    BY <1>1, <1>6, <2>1 DEF Named, SizesOf
  <2>2. CASE d # c
    <3>1. edit'[d] = edit[d]
      BY <1>1, <2>2
    <3>2. Named(d)' = Named(d)
      BY <3>1 DEF Named
    <3> QED
      BY <1>6, <3>1, <3>2 DEF ArrangingInv
  <2> QED
    BY <2>1, <2>2
<1>7. ASSUME NEW q \in Articles \ crowded' PROVE q \notin crowded /\ Distinct(q)'
  BY <1>2, CrowdNoted DEF ArrangingInv
<1>8. ASSUME NEW q \in Articles \ crowded', NEW d \in Editors, Arranging(d, q)'
      PROVE  AloneWith(d, q)'
  <2>1. CASE q = p
    <3>1. \A x \in Editors : ~Arranging(x, p)
      BY <2>1, CrowdNoted
    <3>2. d = c /\ \A x \in Editors : Arranging(x, q)' => x = c
      BY <1>3, <1>8, <2>1, <3>1
    <3> QED
      BY <1>1, <1>2, <2>1, <3>2 DEF AloneWith, Named
  <2>2. CASE q # p
    <3>1. d # c /\ Arranging(d, q) /\ AloneWith(d, q)
      BY <1>3, <1>4, <1>7, <1>8, <2>2 DEF ArrangingInv
    <3>2. edit'[d] = edit[d]
      BY <1>1, <3>1
    <3>3. Named(d)' = Named(d)
      BY <3>2 DEF Named
    <3>4. \A x \in Editors : Arranging(x, q)' => x = d
      BY <1>3, <1>4, <2>2, <3>1 DEF AloneWith
    <3> QED
      BY <1>2, <3>1, <3>2, <3>3, <3>4 DEF AloneWith
  <2> QED
    BY <2>1, <2>2
<1> QED
  BY <1>5, <1>6, <1>7, <1>8 DEF ArrangingInv

LEMMA AddReadArranges ==
  ASSUME SizesInv, ArrangingInv, NEW c \in Editors, NEW p \in Articles, NEW l \in Labels,
         NEW sent \in MaybePlaces, AddRead(c, p, l, sent)
  PROVE  ArrangingInv'
<1>1. PICK n \in Nat : n = SentOr(sent, NextPosition(p))
  BY PlaceTyped
<1>2. PICK e : e = [NoEdit EXCEPT !.at = "add", !.product = p, !.label = l,
                                  !.position = n, !.sent = sent # Nothing]
  OBVIOUS
<1>3. e \in Edits
  BY <1>2, AddMade, Zenon
<1>4. e.at = "add" /\ e.product = p /\ e.position = n /\ e.sent = (sent # Nothing)
  BY <1>2 DEF NoEdit
<1>5. /\ edit[c].at = "idle" /\ edit' = [edit EXCEPT ![c] = e]
      /\ UNCHANGED <<variant, chosen>> /\ NoteCrowd(p) /\ SizesOf(p) # {}
  BY <1>1, <1>2 DEF AddRead, StartEdit
<1>6. ~e.sent => \A v \in SizesOf(p) : variant[v].position < e.position
  BY <1>1, <1>4, NextIsPast DEF SentOr
<1> QED
  BY <1>3, <1>4, <1>5, <1>6, ArrangingBegins

LEMMA ReorderReadArranges ==
  ASSUME SizesInv, ArrangingInv, NEW c \in Editors, NEW p \in Articles, ReorderRead(c, p)
  PROVE  ArrangingInv'
<1>1. PICK s \in Orders(SizesOf(p)) :
        edit[c].at = "idle" /\ edit' = [edit EXCEPT ![c] =
          [NoEdit EXCEPT !.at = "reorder", !.product = p, !.order = s]]
  BY DEF ReorderRead, StartEdit
<1>2. PICK e : e = [NoEdit EXCEPT !.at = "reorder", !.product = p, !.order = s]
  OBVIOUS
<1>3. s \in [1..Cardinality(SizesOf(p)) -> SizesOf(p)]
      /\ \A v \in SizesOf(p) : \E i \in DOMAIN s : s[i] = v
  BY DEF Orders
<1>4. s \in UNION {[1..m -> Variants] : m \in 0..MaxSizes}
  <2>1. SizesOf(p) \in SUBSET Variants
    BY DEF SizesOf
  <2>2. Cardinality(SizesOf(p)) \in 0..MaxSizes
    BY <2>1, VariantsFinite, Bounded
  <2> QED
    BY <1>3, <2>1, <2>2
<1>5. e \in Edits
  BY <1>2, <1>4, ReorderMade
<1>6. e.at = "reorder" /\ e.product = p /\ e.order = s
  BY <1>2 DEF NoEdit
<1>7. {e.order[i] : i \in DOMAIN e.order} = SizesOf(p)
  BY <1>3, <1>6
<1>8. /\ edit' = [edit EXCEPT ![c] = e]
      /\ UNCHANGED <<variant, chosen>> /\ NoteCrowd(p) /\ SizesOf(p) # {}
  BY <1>1, <1>2 DEF ReorderRead
<1> QED
  BY <1>1, <1>5, <1>6, <1>7, <1>8, ArrangingBegins

(* A step that places sizes of one product, which nobody arranges after it.  *)
LEMMA Placed ==
  ASSUME SizesInv, ArrangingInv, RowsGrow, NEW p \in Articles, UNCHANGED crowded,
         \A d \in Editors : edit'[d] = edit[d] \/ edit'[d].at \notin {"add", "reorder"},
         \A v \in Variants : variant[v].product # p /\ variant'[v].product # p =>
           variant'[v] = variant[v] /\ (v \in chosen' <=> v \in chosen),
         p \notin crowded => Distinct(p)' /\ \A d \in Editors : ~Arranging(d, p)'
  PROVE  ArrangingInv'
<1>1. ASSUME NEW v \in Variants, variant[v].product \in Articles
      PROVE  variant'[v].product = variant[v].product
  BY <1>1, SizesAssumption DEF RowsGrow, UsedRows
<1>2. \A q \in Articles : HasRows(q) => HasRows(q)'
  BY <1>1 DEF HasRows
<1>3. ASSUME NEW q \in Articles, q # p
      PROVE  /\ SizesOf(q)' = SizesOf(q)
             /\ \A v \in SizesOf(q) : /\ variant'[v] = variant[v]
                                      /\ v \in chosen' <=> v \in chosen
  <2>1. ASSUME NEW v \in Variants PROVE v \in SizesOf(q)' <=> v \in SizesOf(q)
    <3>1. CASE variant[v].product = q
      BY <1>1, <1>3, <3>1 DEF SizesOf
    <3>2. CASE variant[v].product = p
      BY <1>1, <1>3, <3>2 DEF SizesOf
    <3>3. CASE variant[v].product \notin {p, q}
      BY <1>3, <3>3 DEF SizesOf
    <3> QED
      BY <3>1, <3>2, <3>3
  <2>2. \A v \in SizesOf(q) : variant'[v] = variant[v] /\ (v \in chosen' <=> v \in chosen)
    BY <1>1, <1>3 DEF SizesOf
  <2>3. SizesOf(q)' \subseteq Variants /\ SizesOf(q) \subseteq Variants
    BY DEF SizesOf
  <2> QED
    BY <2>1, <2>2, <2>3
<1>4. \A d \in Editors, q \in Articles :
        Arranging(d, q)' => Arranging(d, q) /\ edit'[d] = edit[d]
  BY DEF Arranging
<1>5. ASSUME NEW d \in Editors, NEW q \in Articles, Arranging(d, q)' PROVE HasRows(q)'
  BY <1>2, <1>4, <1>5 DEF ArrangingInv
<1>6. ASSUME NEW d \in Editors, edit'[d].at = "reorder"
      PROVE  \A v \in Named(d)' : v \in Variants /\ variant'[v].product = edit'[d].product
  <2>1. edit'[d] = edit[d] /\ edit[d].at = "reorder"
    BY <1>6
  <2>2. Named(d)' = Named(d)
    BY <2>1 DEF Named
  <2>3. edit[d].product \in Articles
    BY <2>1 DEF SizesInv, AddKnows
  <2>4. \A v \in Named(d) : v \in Variants /\ variant[v].product = edit[d].product
    BY <2>1 DEF ArrangingInv
  <2> QED
    BY <1>1, <2>1, <2>2, <2>3, <2>4
<1>7. ASSUME NEW q \in Articles \ crowded' PROVE Distinct(q)'
  <2>1. CASE q = p
    BY <2>1
  <2>2. CASE q # p
    <3>1. Distinct(q)
      BY DEF ArrangingInv
    <3> QED
      BY <1>3, <2>2, <3>1 DEF Distinct
  <2> QED
    BY <2>1, <2>2
<1>8. ASSUME NEW q \in Articles \ crowded', NEW d \in Editors, Arranging(d, q)'
      PROVE  AloneWith(d, q)'
  <2>1. q # p
    BY <1>8
  <2>2. edit'[d] = edit[d] /\ AloneWith(d, q)
    BY <1>4, <1>8 DEF ArrangingInv
  <2>3. Named(d)' = Named(d)
    BY <2>2 DEF Named
  <2>4. \A x \in Editors : Arranging(x, q)' => x = d
    BY <1>4, <2>2 DEF AloneWith
  <2> QED
    BY <1>3, <2>1, <2>2, <2>3, <2>4 DEF AloneWith
<1> QED
  BY <1>5, <1>6, <1>7, <1>8 DEF ArrangingInv

(* The one who alone arranges a product is done with it.                    *)
LEMMA DoneArranging ==
  ASSUME SizesInv, ArrangingInv, NEW c \in Editors, NEW p \in Articles \ crowded,
         Arranging(c, p), edit' = [edit EXCEPT ![c] = NoEdit]
  PROVE  \A d \in Editors : ~Arranging(d, p)'
<1>1. edit'[c] = NoEdit /\ \A d \in Editors \ {c} : edit'[d] = edit[d]
  BY EditTyped, NoEditTyped
<1>2. \A d \in Editors : Arranging(d, p) => d = c
  BY DEF ArrangingInv, AloneWith
<1> QED
  BY <1>1, <1>2, NoEditTyped DEF Arranging

LEMMA AddCommitArranges ==
  ASSUME SizesInv, ArrangingInv, NEW c \in Editors, AddCommit(c) PROVE ArrangingInv'
<1>1. /\ edit[c].at = "add" /\ Next1 \in Variants
      /\ edit' = [edit EXCEPT ![c] = NoEdit] /\ UNCHANGED crowded
  BY DEF AddCommit, EndEdit
<1>2. \A d \in Editors : edit'[d] = edit[d] \/ edit'[d].at \notin {"add", "reorder"}
  BY <1>1, NoEditTyped, EditTyped
<1>3. CASE UNCHANGED <<variant, chosen>>
  BY <1>1, <1>2, <1>3, StillArranged DEF Still
<1>4. CASE /\ variant' = [variant EXCEPT ![Next1] =
                [BlankRow EXCEPT !.product = edit[c].product, !.label = edit[c].label,
                                 !.position = edit[c].position]]
           /\ chosen' = IF edit[c].sent THEN chosen \cup {Next1} ELSE chosen
  <2>1. PICK p \in Articles : p = edit[c].product
    BY <1>1 DEF SizesInv, AddKnows
  <2>2. PICK r : r = [BlankRow EXCEPT !.product = edit[c].product, !.label = edit[c].label,
                                      !.position = edit[c].position]
    OBVIOUS
  <2>3. r.product = p /\ r.position = edit[c].position
    BY <2>1, <2>2 DEF BlankRow
  <2>4. PICK x \in Variants : x = Next1
    BY <1>1
  <2>5. variant'[x] = r /\ \A v \in Variants \ {x} : variant'[v] = variant[v]
    BY <1>4, <2>2, <2>4 DEF SizesInv, SizesTypeOK
  <2>6. RowsGrow
    BY AddCommitStep
  <2>7. \A v \in Variants : variant[v].product # p /\ variant'[v].product # p =>
          variant'[v] = variant[v] /\ (v \in chosen' <=> v \in chosen)
    BY <1>4, <2>3, <2>4, <2>5
  <2>8. ASSUME p \notin crowded
        PROVE  Distinct(p)' /\ \A d \in Editors : ~Arranging(d, p)'
    <3>1. Arranging(c, p)
      BY <1>1, <2>1 DEF Arranging
    <3>2. /\ Distinct(p)
          /\ x \notin chosen' => \A v \in SizesOf(p) : variant[v].position < r.position
      BY <1>1, <1>4, <2>3, <2>4, <2>8, <3>1 DEF ArrangingInv, AloneWith
    <3>3. \A v \in SizesOf(p)' : v = x \/ (v \in SizesOf(p) /\ variant'[v] = variant[v])
      <4>1. ASSUME NEW v \in SizesOf(p)', v # x
            PROVE  v \in SizesOf(p) /\ variant'[v] = variant[v]
        <5>1. v \in Variants /\ variant'[v].product = p /\ ~variant'[v].deleted
          BY DEF SizesOf
        <5>2. variant'[v] = variant[v]
          BY <2>5, <4>1, <5>1
        <5> QED
          BY <5>1, <5>2 DEF SizesOf
      <4> QED
        BY <4>1
    <3>4. r.position \in Int /\ \A v \in SizesOf(p) : variant[v].position \in Int
      <4>1. edit[c] \in Edits /\ \A v \in Variants : variant[v] \in SizeRows
        BY DEF SizesInv, SizesTypeOK
      <4> QED
        BY <2>3, <4>1, Bounded DEF Edits, SizeRows, SizesOf
    <3>5. \A v \in SizesOf(p) : v < x
      <4>1. PICK n \in 0..MaxSizes : UsedRows = 1..n
        BY DEF SizesInv, InOrder
      <4>2. x = n + 1 /\ SizesOf(p) \subseteq UsedRows
        BY <2>4, <4>1, NextUnused, SizesAssumption DEF SizesOf, UsedRows
      <4> QED
        BY <4>1, <4>2
    <3>6. Distinct(p)'
      <4> SUFFICES ASSUME NEW v \in SizesOf(p)', NEW w \in SizesOf(p)', v < w,
                          w \notin chosen', variant'[v].position = variant'[w].position
                   PROVE  FALSE
        BY DEF Distinct
      <4>0. x \in Int /\ v \in Int /\ w \in Int
        BY Bounded DEF SizesOf
      <4>1. CASE v = x
        BY <3>3, <3>5, <4>0, <4>1
      <4>2. CASE w = x
        BY <2>5, <3>2, <3>3, <3>4, <4>0, <4>2
      <4>3. CASE v # x /\ w # x
        BY <1>4, <2>4, <3>2, <3>3, <4>3 DEF Distinct
      <4> QED
        BY <4>1, <4>2, <4>3
    <3> QED
      BY <1>1, <2>8, <3>1, <3>6, DoneArranging
  <2> QED
    BY <1>1, <1>2, <2>6, <2>7, <2>8, Placed
<1> QED
  BY <1>3, <1>4 DEF AddCommit

LEMMA CreateSizesArranges ==
  ASSUME SizesInv, ArrangingInv, NEW p \in Articles, NEW n \in 1..2,
         NEW labels \in [1..n -> Labels], NEW sent \in [1..n -> MaybePlaces],
         CreateSizes(p, labels, sent)
  PROVE  ArrangingInv'
<1>1. Len(labels) = n
  OBVIOUS
<1>2. PICK k \in Nat \ {0} : k = Next1
  BY NextTyped
<1> DEFINE asked == \E i \in 1..n : sent[i] # Nothing
<1>3. ASSUME NEW v \in Variants, v \in k..(k + n - 1)
      PROVE  /\ variant'[v].product = p
             /\ asked => v \in chosen'
             /\ ~asked => variant'[v].position = v - k
  <2>1. variant'[v] = [BlankRow EXCEPT !.product = p, !.label = labels[v - k + 1],
                         !.position = SentOr(sent[v - k + 1], v - k)]
    BY <1>1, <1>2, <1>3 DEF CreateSizes
  <2>2. /\ variant'[v].product = p
        /\ variant'[v].position = SentOr(sent[v - k + 1], v - k)
    BY <2>1 DEF BlankRow
  <2>3. asked => v \in chosen'
    BY <1>1, <1>2, <1>3 DEF CreateSizes
  <2>4. v - k + 1 \in 1..n
    BY <1>3, Bounded
  <2> QED
    BY <2>2, <2>3, <2>4 DEF SentOr
<1>4. ASSUME NEW v \in Variants, v \notin k..(k + n - 1)
      PROVE  /\ variant'[v] = variant[v] /\ variant[v].product # p
             /\ v \in chosen' <=> v \in chosen
  BY <1>1, <1>2, <1>4 DEF CreateSizes
<1>5. \A v \in Variants : variant[v].product # p
  BY DEF CreateSizes
<1>6. UNCHANGED <<edit, crowded>> /\ RowsGrow
  BY CreateSizesStep DEF CreateSizes
<1>7. Distinct(p)'
  <2>1. ASSUME NEW v \in SizesOf(p)'
        PROVE  v \in Nat /\ v \in Variants /\ v \in k..(k + n - 1)
    BY <1>4, Bounded DEF SizesOf
  <2>2. CASE asked
    BY <1>3, <2>1, <2>2 DEF Distinct
  <2>3. CASE ~asked
    <3>1. \A v \in SizesOf(p)' : v \in Nat /\ variant'[v].position = v - k
      BY <1>3, <2>1, <2>3
    <3> QED
      BY <3>1 DEF Distinct
  <2> QED
    BY <2>2, <2>3
<1>8. \A d \in Editors : ~Arranging(d, p)'
  BY <1>5, <1>6 DEF ArrangingInv, HasRows, Arranging
<1>9. \A v \in Variants : variant[v].product # p /\ variant'[v].product # p =>
        variant'[v] = variant[v] /\ (v \in chosen' <=> v \in chosen)
  BY <1>3, <1>4
<1> QED
  BY <1>6, <1>7, <1>8, <1>9, Placed

LEMMA ReorderWriteArranges ==
  ASSUME SizesInv, ArrangingInv, NEW c \in Editors, ReorderWrite(c) PROVE ArrangingInv'
<1>1. /\ edit[c].at = "reorder" /\ edit' = [edit EXCEPT ![c] = NoEdit]
      /\ UNCHANGED crowded
  BY DEF ReorderWrite, EndEdit
<1>2. \A d \in Editors : edit'[d] = edit[d] \/ edit'[d].at \notin {"add", "reorder"}
  BY <1>1, NoEditTyped, EditTyped
<1>3. PICK p \in Articles : p = edit[c].product
  BY <1>1 DEF SizesInv, AddKnows
<1>4. CASE UNCHANGED <<variant, chosen>>
  BY <1>1, <1>2, <1>4, StillArranged DEF Still
<1> DEFINE place(v) == CHOOSE i \in DOMAIN edit[c].order : edit[c].order[i] = v
<1>5. CASE /\ variant' = [v \in Variants |-> IF v \in Named(c)
                           THEN [variant[v] EXCEPT !.position = place(v) - 1]
                           ELSE variant[v]]
           /\ chosen' = chosen \ Named(c)
  <2>1. ASSUME NEW v \in Named(c)
        PROVE  /\ v \in Variants /\ variant[v].product = p
               /\ place(v) \in Nat /\ edit[c].order[place(v)] = v
    <3>0. edit[c] \in Edits
      BY DEF SizesInv, SizesTypeOK
    <3>1. PICK m \in 0..MaxSizes : edit[c].order \in [1..m -> Variants]
      BY <3>0 DEF Edits
    <3>2. DOMAIN edit[c].order = 1..m
      BY <3>1
    <3>3. \E i \in DOMAIN edit[c].order : edit[c].order[i] = v
      BY DEF Named
    <3>4. place(v) \in DOMAIN edit[c].order /\ edit[c].order[place(v)] = v
      BY <3>3
    <3>5. v \in Variants /\ variant[v].product = p
      BY <1>1, <1>3 DEF ArrangingInv
    <3> HIDE DEF place
    <3> QED
      BY <3>2, <3>4, <3>5
  <2> HIDE DEF place
  <2>2. ASSUME NEW v \in Named(c)
        PROVE  variant'[v].position = place(v) - 1 /\ variant'[v].product = p
    <3>1. variant[v] \in SizeRows /\ v \in Variants /\ variant[v].product = p
      BY <2>1 DEF SizesInv, SizesTypeOK
    <3>2. variant'[v] = [variant[v] EXCEPT !.position = place(v) - 1]
      BY <1>5, <3>1
    <3> QED
      BY <3>1, <3>2 DEF SizeRows
  <2>3. \A v \in Variants \ Named(c) : variant'[v] = variant[v]
    BY <1>5
  <2>4. ASSUME p \notin crowded
        PROVE  Distinct(p)' /\ \A d \in Editors : ~Arranging(d, p)'
    <3>1. Arranging(c, p)
      BY <1>1, <1>3 DEF Arranging
    <3>2. SizesOf(p) \subseteq Named(c)
      BY <1>1, <2>4, <3>1 DEF ArrangingInv, AloneWith
    <3>3. ASSUME NEW v \in SizesOf(p)' PROVE v \in Named(c)
      BY <2>3, <3>2 DEF SizesOf
    <3>4. Distinct(p)'
      <4>1. \A v, w \in Named(c) : v # w => variant'[v].position # variant'[w].position
        BY <2>1, <2>2
      <4>2. \A v \in SizesOf(p)' : v \in Named(c) /\ v \in Int
        BY <3>3, Bounded DEF SizesOf
      <4> QED
        BY <4>1, <4>2 DEF Distinct
    <3> QED
      BY <1>1, <2>4, <3>1, <3>4, DoneArranging
  <2>5. RowsGrow
    BY ReorderWriteStep
  <2>6. \A v \in Variants : variant[v].product # p /\ variant'[v].product # p =>
          variant'[v] = variant[v] /\ (v \in chosen' <=> v \in chosen)
    BY <1>5, <2>1, <2>2, <2>3
  <2> QED
    BY <1>1, <1>2, <2>4, <2>5, <2>6, Placed
<1> HIDE DEF place
<1>6. \/ UNCHANGED <<variant, chosen>>
      \/ /\ variant' = [v \in Variants |-> IF v \in Named(c)
                         THEN [variant[v] EXCEPT !.position = place(v) - 1]
                         ELSE variant[v]]
         /\ chosen' = chosen \ Named(c)
  BY DEF ReorderWrite, place, Named
<1> QED
  BY <1>4, <1>5, <1>6

LEMMA ArrangingSteps ==
  ASSUME SizesInv, ArrangingInv, [SizesNext]_sizesVars PROVE ArrangingInv'
<1>1. ASSUME NEW p \in Articles, NEW n \in 1..2, NEW labels \in [1..n -> Labels],
             NEW sent \in [1..n -> MaybePlaces], CreateSizes(p, labels, sent)
      PROVE  ArrangingInv'
  BY <1>1, CreateSizesArranges
<1>2. ASSUME NEW v \in Variants,
             Unarchive(v) \/ \E l \in Labels : Rename(v, l) \/ UpdateSize(v, l)
      PROVE  ArrangingInv'
  BY <1>2, StillSteps DEF UpdateSize
<1>3. ASSUME NEW c \in Editors, NEW p \in Articles,
             ReorderRead(c, p) \/ \E l \in Labels, sent \in MaybePlaces : AddRead(c, p, l, sent)
      PROVE  ArrangingInv'
  BY <1>3, ReorderReadArranges, AddReadArranges
<1>4. ASSUME NEW c \in Editors, AddCommit(c) \/ ReorderWrite(c) PROVE ArrangingInv'
  BY <1>4, AddCommitArranges, ReorderWriteArranges
<1>5. ASSUME NEW c \in Editors,
             \/ \E v \in Variants : ArchiveCount(c, v)
             \/ \E v \in Variants, n \in -1..Cardinality(Carts) : RemoveStart(c, v, n)
             \/ ArchiveWrite(c) \/ RemoveLock(c) \/ RemoveCount(c) \/ RemoveDelete(c)
             \/ EditAbort(c)
      PROVE  ArrangingInv'
  BY <1>5, StillSteps
<1>6. ASSUME NEW k \in Carts, NEW v \in Variants,
             CartAdd(k, v) \/ CartDrop(k, v) \/ CartSold(k, v)
      PROVE  ArrangingInv'
  BY <1>6, StillSteps
<1>7. CASE UNCHANGED sizesVars
  BY <1>7, StillSteps
<1> QED
  BY <1>1, <1>2, <1>3, <1>4, <1>5, <1>6, <1>7 DEF SizesNext

(* A size added without a position goes past gaps, past positions callers    *)
(* chose and past reorderings: while one person at a time arranges a        *)
(* product it takes the place of no size before it (nextPosition,           *)
(* reorderVariants).                                                        *)
THEOREM OnePlaceEach == SizesSpec => []OneSizePerPlace
<1>1. SizesInit => ArrangingInv
  BY SizesAssumption DEF SizesInit, ArrangingInv, Arranging, HasRows, Distinct, AloneWith,
     SizesOf, BlankRow, NoEdit
<1>2. SizesInv /\ ArrangingInv /\ [SizesNext]_sizesVars => ArrangingInv'
  BY ArrangingSteps
<1>3. SizesInv /\ ArrangingInv => OneSizePerPlace
  BY DEF ArrangingInv, Distinct, OneSizePerPlace
<1>4. SizesSpec => []SizesInv
  BY RemovalsKnow
<1> QED
  BY <1>1, <1>2, <1>3, <1>4, PTL DEF SizesSpec
=============================================================================
