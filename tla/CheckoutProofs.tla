--------------------------- MODULE CheckoutProofs ----------------------------
(***************************************************************************)
(* The checkout and return transactions implement Inventory's atomic sales  *)
(* and returns, however their statements interleave.                        *)
(***************************************************************************)
EXTENDS Checkout, TLAPS, FiniteSetTheorems

OnePerVariant(lines) == AtomicSales!OneLinePerVariant(lines)

(* What a request may have done by the time it is where it is.              *)
JobShape(j) ==
  /\ OnePerVariant(j.lines)
  /\ j.at \in {"price", "consume", "blocked", "take"} => j.user \in Users
  /\ j.at \notin {"take", "restock"} => j.held = {}
  /\ j.at = "take" => /\ j.held \cup j.left \subseteq j.lines
                      /\ j.failed \/ j.lines \subseteq j.held \cup j.left
  /\ j.at = "restock" => j.order # NoOrder /\ j.lines = j.held \cup j.left
  /\ j.at # "restock" => j.order = NoOrder

(* What the rows a transaction has locked still are.                        *)
RowsHeld(j) ==
  /\ j.at = "take" => \A l \in j.held : l.qty <= stock[l.variant]
  /\ j.at = "restock" => state[j.order] = "placed" /\ j.lines = items[j.order]

(* No order's row and no variant's row is locked by two transactions.       *)
Apart(i, j) ==
  /\ i.order = j.order => i.order = NoOrder
  /\ \A k \in i.held, l \in j.held : k.variant # l.variant

SaleInv ==
  /\ TypeOK
  /\ \A u \in Users : OnePerVariant(cart[u])
  /\ \A o \in Orders : OnePerVariant(items[o])
  /\ \A c \in Requests : JobShape(job[c]) /\ RowsHeld(job[c])
  /\ \A c, d \in Requests : c # d => Apart(job[c], job[d])

-----------------------------------------------------------------------------
LEMMA UnitsOfLine ==
  ASSUME NEW S \in SUBSET Lines, OnePerVariant(S), NEW l \in S
  PROVE  Units(S, l.variant) = l.qty
<1> DEFINE ofV == {m \in S : m.variant = l.variant}
<1>1. l \in ofV
  OBVIOUS
<1>2. (CHOOSE m \in ofV : TRUE) \in ofV
  BY <1>1
<1>3. (CHOOSE m \in ofV : TRUE) = l
  BY <1>2 DEF OnePerVariant, AtomicSales!OneLinePerVariant
<1> QED
  BY <1>1, <1>3 DEF Units

LEMMA UnitsOfNone ==
  ASSUME NEW S, NEW v, \A l \in S : l.variant # v
  PROVE  Units(S, v) = 0
BY DEF Units

LEMMA UnitsNatural ==
  ASSUME NEW S \in SUBSET Lines, OnePerVariant(S), NEW v \in Variants
  PROVE  Units(S, v) \in Nat
<1>1. CASE \A l \in S : l.variant # v
  BY <1>1, UnitsOfNone
<1>2. CASE \E l \in S : l.variant = v
  <2> PICK l \in S : l.variant = v
    BY <1>2
  <2>1. Units(S, v) = l.qty
    BY UnitsOfLine
  <2> QED
    BY <2>1, BoundAssumption DEF Lines
<1> QED
  BY <1>1, <1>2

LEMMA IdleJob == Idle \in Jobs /\ JobShape(Idle) /\ RowsHeld(Idle)
BY BoundAssumption
   DEF Idle, Jobs, JobShape, RowsHeld, OnePerVariant, AtomicSales!OneLinePerVariant

LEMMA InitSale == Init => SaleInv
<1> SUFFICES ASSUME Init PROVE SaleInv
  OBVIOUS
<1>1. TypeOK
  BY IdleJob, BoundAssumption DEF Init, TypeOK
<1>2. \A c \in Requests : JobShape(job[c]) /\ RowsHeld(job[c])
  BY IdleJob DEF Init
<1>3. \A c, d \in Requests : c # d => Apart(job[c], job[d])
  BY DEF Init, Apart, Idle
<1> QED
  BY <1>1, <1>2, <1>3
     DEF SaleInv, Init, OnePerVariant, AtomicSales!OneLinePerVariant

(* A statement that writes no committed row but only what its request       *)
(* remembers keeps the invariant when the new record fits.                  *)
LEMMA JobStep ==
  ASSUME SaleInv, NEW c \in Requests, NEW j \in Jobs, JobShape(j), RowsHeld(j),
         \A d \in Requests \ {c} : Apart(j, job[d]),
         job' = [job EXCEPT ![c] = j],
         UNCHANGED <<stock, offer, cartVars, saleVars, marketVars>>
  PROVE  SaleInv'
<1> USE DEF SaleInv, TypeOK, cartVars, saleVars, marketVars
<1>1. TypeOK'
  OBVIOUS
<1>2. \A d \in Requests : job'[d] = IF d = c THEN j ELSE job[d]
  OBVIOUS
<1>3. (\A d \in Requests : JobShape(job[d]) /\ RowsHeld(job[d]))'
  <2> SUFFICES ASSUME NEW d \in Requests PROVE (JobShape(job[d]) /\ RowsHeld(job[d]))'
    OBVIOUS
  <2>1. CASE d = c
    BY <2>1, <1>2 DEF JobShape, RowsHeld, OnePerVariant, AtomicSales!OneLinePerVariant
  <2>2. CASE d # c
    BY <2>2, <1>2 DEF JobShape, RowsHeld, OnePerVariant, AtomicSales!OneLinePerVariant
  <2> QED
    BY <2>1, <2>2
<1>4. (\A d, e \in Requests : d # e => Apart(job[d], job[e]))'
  BY <1>2 DEF Apart
<1> QED
  BY <1>1, <1>3, <1>4 DEF OnePerVariant, AtomicSales!OneLinePerVariant

LEMMA FinishStep ==
  ASSUME SaleInv, NEW c \in Requests, Finish(c),
         UNCHANGED <<stock, offer, cartVars, saleVars, marketVars>>
  PROVE  SaleInv'
<1>1. \A d \in Requests \ {c} : Apart(Idle, job[d])
  BY DEF Apart, Idle
<1> QED
  BY <1>1, IdleJob, JobStep DEF Finish

-----------------------------------------------------------------------------
(* Statements that write no committed row.                                  *)
NoRowWritten == UNCHANGED <<stock, offer, cartVars, saleVars, marketVars>>

LEMMA ReadCartSale ==
  ASSUME SaleInv, NEW c \in Requests, NEW u \in Users, ReadCart(c, u)
  PROVE  SaleInv' /\ NoRowWritten
<1> DEFINE j == [Idle EXCEPT !.at = "price", !.user = u, !.lines = cart[u]]
<1>1. j \in Jobs /\ JobShape(j) /\ RowsHeld(j) /\ \A d \in Requests \ {c} : Apart(j, job[d])
  BY BoundAssumption DEF SaleInv, TypeOK, Jobs, Idle, JobShape, RowsHeld, Apart
<1>2. job' = [job EXCEPT ![c] = j] /\ NoRowWritten
  BY DEF ReadCart, NoRowWritten
<1> QED
  BY <1>1, <1>2, JobStep DEF NoRowWritten

LEMMA PriceSale ==
  ASSUME SaleInv, NEW c \in Requests, Price(c)
  PROVE  SaleInv' /\ NoRowWritten
<1>1. CASE Finish(c)
  BY <1>1, FinishStep DEF Price, NoRowWritten
<1>2. CASE ~Finish(c)
  <2> DEFINE j == [job[c] EXCEPT !.at = "consume",
                     !.seen = IF Marketplaces THEN stock ELSE StartStock]
  <2>1. job[c] \in Jobs /\ JobShape(job[c]) /\ job[c].at = "price"
        /\ (IF Marketplaces THEN stock ELSE StartStock) \in [Variants -> Nat]
    BY BoundAssumption DEF Price, SaleInv, TypeOK
  <2>2. j \in Jobs /\ JobShape(j) /\ RowsHeld(j)
    BY <2>1 DEF Jobs, JobShape, RowsHeld
  <2>3. \A d \in Requests \ {c} : Apart(j, job[d])
    BY <2>1 DEF Jobs, SaleInv, Apart
  <2>4. job' = [job EXCEPT ![c] = j] /\ NoRowWritten
    BY <1>2 DEF Price, NoRowWritten, SaleInv, TypeOK
  <2> QED
    BY <2>2, <2>3, <2>4, JobStep DEF NoRowWritten
<1> QED
  BY <1>1, <1>2

LEMMA BeginConsumeSale ==
  ASSUME SaleInv, NEW c \in Requests, BeginConsume(c)
  PROVE  SaleInv' /\ NoRowWritten
<1> DEFINE j == [job[c] EXCEPT !.at = "blocked", !.left = cart[job[c].user]]
<1>0. job[c] \in Jobs /\ JobShape(job[c]) /\ job[c].at = "consume"
      /\ cart[job[c].user] \subseteq Lines
  BY DEF BeginConsume, SaleInv, TypeOK, JobShape
<1>1. j \in Jobs /\ JobShape(j) /\ RowsHeld(j)
  BY <1>0 DEF Jobs, JobShape, RowsHeld
<1>2. \A d \in Requests \ {c} : Apart(j, job[d])
  BY <1>0 DEF Jobs, SaleInv, Apart
<1>3. job' = [job EXCEPT ![c] = j] /\ NoRowWritten
  BY DEF BeginConsume, NoRowWritten, SaleInv, TypeOK
<1> QED
  BY <1>1, <1>2, <1>3, JobStep DEF NoRowWritten

LEMMA ConsumeSale ==
  ASSUME SaleInv, NEW c \in Requests, Consume(c)
  PROVE  SaleInv' /\ NoRowWritten
<1>1. CASE Finish(c)
  BY <1>1, FinishStep DEF Consume, NoRowWritten
<1>2. CASE ~Finish(c)
  <2> DEFINE j == [job[c] EXCEPT !.at = "take", !.left = job[c].lines,
                                 !.eaten = Deletable(c)]
  <2>1. job[c] \in Jobs /\ job[c].user \in Users /\ Deletable(c) \subseteq Lines
    BY DEF Consume, SaleInv, TypeOK, JobShape, Deletable
  <2>2. j \in Jobs /\ JobShape(j) /\ RowsHeld(j) /\ \A d \in Requests \ {c} : Apart(j, job[d])
    BY <2>1 DEF Consume, SaleInv, Jobs, JobShape, RowsHeld, Apart
  <2>3. job' = [job EXCEPT ![c] = j] /\ NoRowWritten
    BY <1>2 DEF Consume, NoRowWritten, SaleInv, TypeOK
  <2> QED
    BY <2>2, <2>3, JobStep DEF NoRowWritten
<1> QED
  BY <1>1, <1>2

LEMMA TakeSale ==
  ASSUME SaleInv, NEW c \in Requests, NEW l \in Lines, Take(c, l)
  PROVE  SaleInv' /\ NoRowWritten
<1>0. job[c] \in Jobs /\ JobShape(job[c]) /\ RowsHeld(job[c]) /\ job[c].at = "take" /\ l \in job[c].left
  BY DEF Take, NextLine, SaleInv, TypeOK
<1>1. CASE Sellable(l) /\ ~LockedByOther(c, l.variant)
            /\ job' = [job EXCEPT ![c] = Wrote(c, l)]
  <2> DEFINE j == Wrote(c, l)
  <2>1. j \in Jobs /\ JobShape(j)
    BY <1>0 DEF Wrote, Missed, Jobs, JobShape
  <2>2. RowsHeld(j)
    BY <1>0, <1>1 DEF Wrote, Jobs, RowsHeld, Sellable
  <2>3. \A d \in Requests \ {c} : Apart(j, job[d])
    BY <1>0, <1>1 DEF Wrote, Jobs, SaleInv, Apart, LockedByOther, Locks
  <2>4. job' = [job EXCEPT ![c] = j] /\ NoRowWritten
    BY <1>1 DEF Take, NoRowWritten, SaleInv, TypeOK
  <2> QED
    BY <2>1, <2>2, <2>3, <2>4, JobStep DEF NoRowWritten
<1>2. CASE job' = [job EXCEPT ![c] = Missed(c, l)]
  <2> DEFINE j == Missed(c, l)
  <2>1. j \in Jobs /\ JobShape(j) /\ RowsHeld(j)
    BY <1>0 DEF Wrote, Missed, Jobs, JobShape, RowsHeld
  <2>2. \A d \in Requests \ {c} : Apart(j, job[d])
    BY <1>0 DEF Wrote, Missed, Jobs, SaleInv, Apart
  <2>3. job' = [job EXCEPT ![c] = j] /\ NoRowWritten
    BY <1>2 DEF Take, NoRowWritten, SaleInv, TypeOK
  <2> QED
    BY <2>1, <2>2, <2>3, JobStep DEF NoRowWritten
<1> QED
  BY <1>1, <1>2 DEF Take

LEMMA BeginReturnSale ==
  ASSUME SaleInv, NEW c \in Requests, NEW o \in Orders, BeginReturn(c, o)
  PROVE  SaleInv' /\ NoRowWritten
<1> DEFINE j == [Idle EXCEPT !.at = "restock", !.order = o, !.lines = items[o],
                             !.left = items[o]]
<1>1. j \in Jobs /\ JobShape(j) /\ RowsHeld(j)
  BY BoundAssumption DEF BeginReturn, SaleInv, TypeOK, Jobs, Idle, JobShape, RowsHeld
<1>2. \A d \in Requests \ {c} : Apart(j, job[d])
  BY DEF BeginReturn, Idle, Apart
<1>3. job' = [job EXCEPT ![c] = j] /\ NoRowWritten
  BY DEF BeginReturn, NoRowWritten
<1> QED
  BY <1>1, <1>2, <1>3, JobStep DEF NoRowWritten

LEMMA RestockSale ==
  ASSUME SaleInv, NEW c \in Requests, NEW l \in Lines, Restock(c, l)
  PROVE  SaleInv' /\ NoRowWritten
<1> DEFINE j == Wrote(c, l)
<1>0. job[c] \in Jobs /\ JobShape(job[c]) /\ RowsHeld(job[c])
      /\ job[c].at = "restock" /\ l \in job[c].left
  BY DEF Restock, SaleInv, TypeOK
<1>1. j \in Jobs /\ JobShape(j) /\ RowsHeld(j)
  <2>1. /\ j \in Jobs /\ j.at = job[c].at /\ j.lines = job[c].lines /\ j.order = job[c].order
        /\ j.held = job[c].held \cup {l} /\ j.left = job[c].left \ {l}
    BY <1>0 DEF Wrote, Jobs
  <2> HIDE DEF j
  <2> QED
    BY <1>0, <2>1 DEF JobShape, RowsHeld
<1>2. \A d \in Requests \ {c} : Apart(j, job[d])
  BY <1>0 DEF Wrote, Restock, Jobs, SaleInv, Apart, LockedByOther, Locks
<1>3. job' = [job EXCEPT ![c] = j] /\ NoRowWritten
  BY DEF Restock, NoRowWritten, SaleInv, TypeOK
<1> QED
  BY <1>1, <1>2, <1>3, JobStep DEF NoRowWritten

LEMMA RollbackSale ==
  ASSUME SaleInv, NEW c \in Requests, Rollback(c) \/ Refuse(c)
  PROVE  SaleInv' /\ NoRowWritten
BY FinishStep DEF Rollback, Refuse, NoRowWritten

-----------------------------------------------------------------------------
(* Commits.                                                                 *)

(* A request whose own rows are left alone keeps what it relies on.         *)
LEMMA OthersKeepRows ==
  ASSUME SaleInv, NEW c \in Requests, Finish(c),
         \A d \in Requests \ {c}, l \in Lines :
           l \in job[d].held => stock'[l.variant] >= stock[l.variant],
         \A d \in Requests \ {c} :
           job[d].at = "restock" =>
             /\ state'[job[d].order] = state[job[d].order]
             /\ items'[job[d].order] = items[job[d].order],
         stock' \in [Variants -> Nat]
  PROVE  /\ job' \in [Requests -> Jobs]
         /\ (\A d \in Requests : JobShape(job[d]) /\ RowsHeld(job[d]))'
         /\ (\A d, e \in Requests : d # e => Apart(job[d], job[e]))'
<1>1. job' \in [Requests -> Jobs] /\ \A d \in Requests : job'[d] = IF d = c THEN Idle ELSE job[d]
  BY IdleJob DEF Finish, SaleInv, TypeOK
<1>2. (\A d, e \in Requests : d # e => Apart(job[d], job[e]))'
  BY <1>1 DEF SaleInv, Apart, Idle
<1>3. (\A d \in Requests : JobShape(job[d]) /\ RowsHeld(job[d]))'
  <2> SUFFICES ASSUME NEW d \in Requests PROVE (JobShape(job[d]) /\ RowsHeld(job[d]))'
    OBVIOUS
  <2>1. CASE d = c
    BY <2>1, <1>1 DEF Idle, JobShape, RowsHeld, OnePerVariant, AtomicSales!OneLinePerVariant
  <2>2. CASE d # c
    <3>1. job'[d] = job[d] /\ job[d] \in Jobs /\ JobShape(job[d]) /\ RowsHeld(job[d])
      BY <2>2, <1>1 DEF SaleInv, TypeOK
    <3>2. JobShape(job[d])'
      BY <3>1 DEF JobShape, OnePerVariant, AtomicSales!OneLinePerVariant
    <3>3. ASSUME job[d].at = "take", NEW l \in job[d].held
          PROVE  l.qty <= stock'[l.variant]
      <4>1. l \in Lines /\ l.qty <= stock[l.variant] /\ stock[l.variant] \in Nat
        BY <3>1, <3>3 DEF Jobs, RowsHeld, SaleInv, TypeOK, Lines
      <4>2. stock'[l.variant] >= stock[l.variant] /\ stock'[l.variant] \in Nat
        BY <4>1, <2>2 DEF Lines
      <4> QED
        BY <4>1, <4>2, BoundAssumption DEF Lines
    <3> QED
      BY <2>2, <3>1, <3>2, <3>3 DEF RowsHeld
  <2> QED
    BY <2>1, <2>2
<1> QED
  BY <1>1, <1>2, <1>3

LEMMA CommitSaleSale ==
  ASSUME SaleInv, NEW c \in Requests, NEW o \in Orders, CommitSale(c, o)
  PROVE  SaleInv' /\ AtomicSales!Sell(o)
<1> DEFINE j == job[c]
<1>1. /\ j \in Jobs /\ j.held \in SUBSET Lines /\ j.held = j.lines
      /\ OnePerVariant(j.held)
      /\ \A l \in j.held : l.qty <= stock[l.variant]
      /\ j.user \in Users
  <2>1. j \in Jobs /\ JobShape(j) /\ RowsHeld(j) /\ j.at = "take" /\ j.left = {} /\ ~j.failed
    BY DEF CommitSale, SaleInv, TypeOK
  <2> QED
    BY <2>1 DEF Jobs, JobShape, RowsHeld, OnePerVariant
<1>2. ASSUME NEW v \in Variants
      PROVE  Units(j.held, v) \in Nat /\ stock[v] \in Nat /\ Units(j.held, v) <= stock[v]
  <2>1. Units(j.held, v) \in Nat /\ stock[v] \in Nat
    BY <1>1, UnitsNatural DEF SaleInv, TypeOK
  <2>2. CASE \A l \in j.held : l.variant # v
    BY <2>1, <2>2, UnitsOfNone
  <2>3. CASE \E l \in j.held : l.variant = v
    <3> PICK l \in j.held : l.variant = v
      BY <2>3
    <3>1. Units(j.held, v) = l.qty
      BY <1>1, UnitsOfLine
    <3> QED
      BY <1>1, <2>1, <3>1
  <2> QED
    BY <2>2, <2>3
<1>3. stock' \in [Variants -> Nat]
  BY <1>2 DEF CommitSale
<1>4. AtomicSales!Sell(o)
  <2>1. \A v \in Variants : AtomicSales!Units(j.held, v) = Units(j.held, v)
    BY DEF Units, AtomicSales!Units
  <2>2. j.held \in SUBSET AtomicSales!Lines /\ AtomicSales!OneLinePerVariant(j.held)
    BY <1>1 DEF Lines, AtomicSales!Lines, OnePerVariant
  <2> QED
    BY <1>1, <1>2, <2>1, <2>2 DEF CommitSale, AtomicSales!Sell
<1>5. ASSUME NEW d \in Requests \ {c}, NEW l \in Lines, l \in job[d].held
      PROVE  stock'[l.variant] >= stock[l.variant]
  <2>1. \A k \in j.held : k.variant # l.variant
    BY <1>5 DEF SaleInv, Apart
  <2>2. Units(j.held, l.variant) = 0 /\ l.variant \in Variants /\ stock[l.variant] \in Nat
    BY <2>1, UnitsOfNone DEF Lines, SaleInv, TypeOK
  <2> QED
    BY <2>2 DEF CommitSale
<1>6. ASSUME NEW d \in Requests \ {c}, job[d].at = "restock"
      PROVE  /\ state'[job[d].order] = state[job[d].order]
             /\ items'[job[d].order] = items[job[d].order]
  <2>1. job[d].order # o /\ job[d].order \in Orders
    BY <1>6 DEF CommitSale, SaleInv, TypeOK, Jobs, JobShape, RowsHeld
  <2> QED
    BY <2>1 DEF CommitSale, SaleInv, TypeOK
<1>7. Finish(c)
  BY DEF CommitSale
<1>8. /\ job' \in [Requests -> Jobs]
      /\ (\A d \in Requests : JobShape(job[d]) /\ RowsHeld(job[d]))'
      /\ (\A d, e \in Requests : d # e => Apart(job[d], job[e]))'
  BY <1>3, <1>5, <1>6, <1>7, OthersKeepRows
<1>9. PushesOf(c, o) \subseteq Pushes
  BY <1>1, BoundAssumption DEF PushesOf, Pushes, Jobs, Lines
<1>10. TypeOK'
  BY <1>1, <1>3, <1>8, <1>9 DEF CommitSale, SaleInv, TypeOK
<1>11. (\A u \in Users : OnePerVariant(cart[u]))'
  BY DEF CommitSale, SaleInv, TypeOK, OnePerVariant, AtomicSales!OneLinePerVariant
<1>12. (\A p \in Orders : OnePerVariant(items[p]))'
  BY <1>1 DEF CommitSale, SaleInv, TypeOK, OnePerVariant, AtomicSales!OneLinePerVariant
<1> QED
  BY <1>4, <1>8, <1>10, <1>11, <1>12 DEF SaleInv

LEMMA CommitReturnSale ==
  ASSUME SaleInv, NEW c \in Requests, CommitReturn(c)
  PROVE  SaleInv' /\ AtomicSales!Return(job[c].order)
<1> DEFINE j == job[c]
           o == job[c].order
<1>1. /\ j \in Jobs /\ j.held \in SUBSET Lines /\ j.held = items[o] /\ OnePerVariant(j.held)
      /\ o \in Orders /\ state[o] = "placed"
  <2>1. j \in Jobs /\ JobShape(j) /\ RowsHeld(j) /\ j.at = "restock" /\ j.left = {}
    BY DEF CommitReturn, SaleInv, TypeOK
  <2> QED
    BY <2>1 DEF Jobs, JobShape, RowsHeld, OnePerVariant
<1>2. \A v \in Variants : Units(j.held, v) \in Nat /\ stock[v] \in Nat
  BY <1>1, UnitsNatural DEF SaleInv, TypeOK
<1>3. stock' \in [Variants -> Nat] /\ \A v \in Variants : stock'[v] >= stock[v]
  BY <1>2 DEF CommitReturn
<1>4. AtomicSales!Return(o)
  <2>1. \A v \in Variants : AtomicSales!Units(j.held, v) = Units(j.held, v)
    BY DEF Units, AtomicSales!Units
  <2> QED
    BY <1>1, <2>1 DEF CommitReturn, AtomicSales!Return
<1>5. \A d \in Requests \ {c}, l \in Lines :
        l \in job[d].held => stock'[l.variant] >= stock[l.variant]
  BY <1>3 DEF Lines
<1>6. ASSUME NEW d \in Requests \ {c}, job[d].at = "restock"
      PROVE  /\ state'[job[d].order] = state[job[d].order]
             /\ items'[job[d].order] = items[job[d].order]
  <2>1. job[d].order # o
    BY <1>1, <1>6 DEF SaleInv, Apart, JobShape
  <2> QED
    BY <2>1, <1>1 DEF CommitReturn, SaleInv, TypeOK
<1>7. Finish(c)
  BY DEF CommitReturn
<1>8. /\ job' \in [Requests -> Jobs]
      /\ (\A d \in Requests : JobShape(job[d]) /\ RowsHeld(job[d]))'
      /\ (\A d, e \in Requests : d # e => Apart(job[d], job[e]))'
  BY <1>3, <1>5, <1>6, <1>7, OthersKeepRows
<1>9. TypeOK'
  BY <1>1, <1>3, <1>8 DEF CommitReturn, SaleInv, TypeOK, cartVars, marketVars
<1> QED
  BY <1>4, <1>8, <1>9
     DEF CommitReturn, SaleInv, cartVars, OnePerVariant, AtomicSales!OneLinePerVariant

-----------------------------------------------------------------------------
(* The cart, the back office, the catalogue and the marketplaces.           *)
LEMMA CartEditSale ==
  ASSUME SaleInv, NEW u \in Users, CartEdit(u)
  PROVE  SaleInv' /\ UNCHANGED <<stock, state, items>>
<1>1. UNCHANGED <<stock, offer, saleVars, marketVars, job>>
  BY DEF CartEdit, AddItem, SetQuantity, RemoveItems
<1> DEFINE NewCart ==
      \E lines \in SUBSET Lines : OnePerVariant(lines) /\ cart' = [cart EXCEPT ![u] = lines]
<1>2. NewCart /\ issued' \in SUBSET LineIds
  <2>1. ASSUME NEW v \in Variants, NEW id \in LineIds, NEW q \in 1..MaxQty, AddItem(u, v, id, q)
        PROVE  NewCart /\ issued' \in SUBSET LineIds
    <3>1. CASE CartLine(u, v) = {}
      <4> DEFINE lines == cart[u] \cup {[id |-> id, variant |-> v, qty |-> q]}
      <4>1. lines \in SUBSET Lines /\ OnePerVariant(lines)
        BY <3>1 DEF SaleInv, TypeOK, Lines, CartLine, OnePerVariant,
                    AtomicSales!OneLinePerVariant
      <4> QED
        BY <2>1, <3>1, <4>1 DEF AddItem, SaleInv, TypeOK
    <3>2. CASE CartLine(u, v) # {}
      <4> PICK l \in CartLine(u, v) :
             /\ l.qty + q <= MaxQty
             /\ cart' = [cart EXCEPT ![u] = (@ \ {l}) \cup {[l EXCEPT !.qty = @ + q]}]
             /\ UNCHANGED issued
        BY <2>1, <3>2 DEF AddItem
      <4> DEFINE lines == (cart[u] \ {l}) \cup {[l EXCEPT !.qty = @ + q]}
      <4>1. l \in cart[u] /\ l \in Lines
        BY DEF CartLine, SaleInv, TypeOK
      <4>2. [l EXCEPT !.qty = @ + q] \in Lines /\ [l EXCEPT !.qty = @ + q].variant = l.variant
        BY <4>1, BoundAssumption DEF Lines
      <4>3. lines \in SUBSET Lines /\ OnePerVariant(lines)
        BY <4>1, <4>2 DEF SaleInv, TypeOK, OnePerVariant, AtomicSales!OneLinePerVariant
      <4> QED
        BY <4>3 DEF SaleInv, TypeOK
    <3> QED
      BY <3>1, <3>2
  <2>2. ASSUME NEW l \in cart[u], NEW q \in 1..MaxQty, SetQuantity(u, l, q)
        PROVE  NewCart /\ issued' \in SUBSET LineIds
    <3> DEFINE lines == (cart[u] \ {l}) \cup {[l EXCEPT !.qty = q]}
    <3>1. l \in Lines
      BY DEF SaleInv, TypeOK
    <3>2. [l EXCEPT !.qty = q] \in Lines /\ [l EXCEPT !.qty = q].variant = l.variant
      BY <3>1 DEF Lines
    <3>3. lines \in SUBSET Lines /\ OnePerVariant(lines)
      BY <3>1, <3>2 DEF SaleInv, TypeOK, OnePerVariant, AtomicSales!OneLinePerVariant
    <3> QED
      BY <2>2, <3>3 DEF SetQuantity, SaleInv, TypeOK
  <2>3. ASSUME NEW gone \in SUBSET cart[u], RemoveItems(u, gone)
        PROVE  NewCart /\ issued' \in SUBSET LineIds
    <3> DEFINE lines == cart[u] \ gone
    <3>1. lines \in SUBSET Lines /\ OnePerVariant(lines)
      BY DEF SaleInv, TypeOK, OnePerVariant, AtomicSales!OneLinePerVariant
    <3> QED
      BY <2>3, <3>1 DEF RemoveItems, SaleInv, TypeOK
  <2> QED
    BY <2>1, <2>2, <2>3 DEF CartEdit
<1>3. TypeOK'
  BY <1>1, <1>2 DEF SaleInv, TypeOK, saleVars, marketVars
<1>4. (\A w \in Users : OnePerVariant(cart[w]))'
  BY <1>2 DEF SaleInv, TypeOK, OnePerVariant, AtomicSales!OneLinePerVariant
<1> QED
  BY <1>1, <1>3, <1>4
     DEF SaleInv, saleVars, JobShape, RowsHeld, Apart, OnePerVariant,
         AtomicSales!OneLinePerVariant

LEMMA RecountSale ==
  ASSUME SaleInv, NEW v \in Variants, NEW q \in Recounts, Recount(v, q)
  PROVE  SaleInv' /\ AtomicSales!Recount(v, q)
<1>1. TypeOK'
  BY BoundAssumption DEF Recount, SaleInv, TypeOK, cartVars, saleVars, marketVars
<1>2. ASSUME NEW c \in Requests PROVE (JobShape(job[c]) /\ RowsHeld(job[c]))'
  <2>1. \A l \in job[c].held : l.variant \in Variants /\ l.variant # v
    BY DEF Recount, Locks, SaleInv, TypeOK, Jobs, Lines
  <2>2. JobShape(job[c]) /\ RowsHeld(job[c])
    BY DEF SaleInv
  <2> QED
    BY <2>1, <2>2 DEF Recount, SaleInv, TypeOK, saleVars, JobShape, RowsHeld,
                      OnePerVariant, AtomicSales!OneLinePerVariant
<1> QED
  BY <1>1, <1>2
     DEF Recount, SaleInv, cartVars, saleVars, Apart, OnePerVariant,
         AtomicSales!OneLinePerVariant, AtomicSales!Recount

LEMMA OutsideSale ==
  ASSUME SaleInv,
         \/ \E v \in Variants, s \in Offers : Reoffer(v, s)
         \/ \E p \in pushes : PushArrives(p)
         \/ UNCHANGED vars
  PROVE  SaleInv' /\ UNCHANGED <<stock, state, items>>
<1>1. UNCHANGED <<stock, cartVars, saleVars, job>>
  BY DEF Reoffer, PushArrives, vars
<1>2. offer' \in [Variants -> Offers \cup {"active"}]
  BY DEF Reoffer, PushArrives, vars, SaleInv, TypeOK
<1>3. listing' \in [Variants -> Nat] /\ pushes' \in SUBSET Pushes
  BY DEF Reoffer, PushArrives, vars, marketVars, SaleInv, TypeOK, Pushes
<1> QED
  BY <1>1, <1>2, <1>3
     DEF SaleInv, TypeOK, cartVars, saleVars, JobShape, RowsHeld, Apart, OnePerVariant,
         AtomicSales!OneLinePerVariant

-----------------------------------------------------------------------------
InventoryStep == AtomicSales!Next \/ UNCHANGED AtomicSales!inventoryVars

LEMMA NextSale ==
  ASSUME SaleInv, [Next]_vars
  PROVE  SaleInv' /\ InventoryStep
<1> USE DEF InventoryStep, AtomicSales!inventoryVars
<1>1. ASSUME NEW u \in Users, CartEdit(u) PROVE SaleInv' /\ InventoryStep
  BY <1>1, CartEditSale
<1>2. ASSUME NEW c \in Requests, NEW u \in Users, ReadCart(c, u)
      PROVE  SaleInv' /\ InventoryStep
  BY <1>2, ReadCartSale DEF NoRowWritten, saleVars
<1>3. ASSUME NEW c \in Requests, NEW o \in Orders, BeginReturn(c, o)
      PROVE  SaleInv' /\ InventoryStep
  BY <1>3, BeginReturnSale DEF NoRowWritten, saleVars
<1>4. ASSUME NEW c \in Requests, Request(c) PROVE SaleInv' /\ InventoryStep
  <2>1. CASE Price(c) \/ BeginConsume(c) \/ Consume(c)
    BY <2>1, PriceSale, BeginConsumeSale, ConsumeSale DEF NoRowWritten, saleVars
  <2>2. CASE \E l \in Lines : Take(c, l) \/ Restock(c, l)
    BY <2>2, TakeSale, RestockSale DEF NoRowWritten, saleVars
  <2>3. CASE \E o \in Orders : CommitSale(c, o)
    BY <2>3, CommitSaleSale DEF AtomicSales!Next
  <2>4. CASE CommitReturn(c)
    <3>1. job[c].order \in Orders
      BY <2>4 DEF CommitReturn, SaleInv, TypeOK, Jobs, JobShape
    <3> QED
      BY <2>4, <3>1, CommitReturnSale DEF AtomicSales!Next
  <2>5. CASE Refuse(c) \/ Rollback(c)
    BY <2>5, RollbackSale DEF NoRowWritten, saleVars
  <2> QED
    BY <1>4, <2>1, <2>2, <2>3, <2>4, <2>5 DEF Request
<1>5. ASSUME NEW v \in Variants, NEW q \in Recounts, Recount(v, q)
      PROVE  SaleInv' /\ InventoryStep
  BY <1>5, RecountSale DEF AtomicSales!Next
<1>6. ASSUME \/ \E v \in Variants, s \in Offers : Reoffer(v, s)
             \/ \E p \in pushes : PushArrives(p)
             \/ UNCHANGED vars
      PROVE  SaleInv' /\ InventoryStep
  BY <1>6, OutsideSale
<1> QED
  BY <1>1, <1>2, <1>3, <1>4, <1>5, <1>6 DEF Next

LEMMA SaleInvariant == Spec => []SaleInv
<1>1. Init => SaleInv
  BY InitSale
<1>2. SaleInv /\ [Next]_vars => SaleInv'
  BY NextSale
<1> QED
  BY <1>1, <1>2, PTL DEF Spec

(* Stock never goes negative and every variable keeps its type, for any     *)
(* number of buyers, variants, requests and orders (StockService.decrement, *)
(* OrdersService.checkout).                                                 *)
THEOREM StockNeverNegative == Spec => []TypeOK
<1>1. SaleInv => TypeOK
  BY DEF SaleInv
<1> QED
  BY <1>1, SaleInvariant, PTL

(* Each checkout transaction is one atomic sale of what is on the shelf, and *)
(* each return gives the lines back once, whatever statements of others run  *)
(* in between (checkout, cancel and applyRefund of orders.service.ts).       *)
THEOREM ImplementsInventory == Spec => InventoryImplemented
<1>1. Init => AtomicSales!Init
  BY DEF Init, AtomicSales!Init
<1>2. SaleInv /\ [Next]_vars => [AtomicSales!Next]_AtomicSales!inventoryVars
  BY NextSale DEF InventoryStep
<1> QED
  BY <1>1, <1>2, SaleInvariant, PTL DEF Spec, InventoryImplemented, AtomicSales!Spec

-----------------------------------------------------------------------------
(* While nobody edits a cart that is being checked out, the row count is    *)
(* enough.                                                                  *)

Buying(c) == job[c].at \in {"price", "consume", "blocked", "take"}

(* Line ids are never reused: no line is in two places.                     *)
LinesApart ==
  /\ \A u \in Users : \A k, l \in cart[u] : k.id = l.id => k = l
  /\ \A u, w \in Users : u # w => \A k \in cart[u], l \in cart[w] : k.id # l.id
  /\ \A u \in Users, o \in Orders : \A k \in cart[u], l \in items[o] : k.id # l.id
  /\ \A u \in Users : \A k \in cart[u] : k.id \in issued
  /\ \A o \in Orders : \A k \in items[o] : k.id \in issued
  /\ OneOrderPerLine

(* The cart a request read is the cart, or was bought by another request.   *)
CartRead(c) ==
  Buying(c) =>
    /\ IsFiniteSet(job[c].lines) /\ job[c].lines # {}
    /\ cart[job[c].user] \in {job[c].lines, {}}
    /\ job[c].at = "blocked" => job[c].left = job[c].lines
    /\ job[c].at = "take" => cart[job[c].user] = job[c].lines /\ job[c].eaten = job[c].lines

OneBuyer ==
  \A c, d \in Requests :
    job[c].at = "take" /\ job[d].at = "take" /\ job[c].user = job[d].user => c = d

QuietInv ==
  /\ SaleInv
  /\ \A u \in Users : IsFiniteSet(cart[u])
  /\ LinesApart
  /\ \A c \in Requests : CartRead(c)
  /\ OneBuyer

LEMMA InitQuiet == Init => QuietInv
<1> SUFFICES ASSUME Init PROVE QuietInv
  OBVIOUS
<1>1. IsFiniteSet({})
  BY FS_EmptySet
<1> QED
  BY <1>1, InitSale
     DEF Init, QuietInv, LinesApart, OneOrderPerLine, CartRead, Buying, OneBuyer, Idle

(* A step that touches no cart and no order.                                *)
LEMMA QuietJobStep ==
  ASSUME QuietInv, SaleInv', NEW c \in Requests, NEW j,
         job' = [job EXCEPT ![c] = j],
         UNCHANGED <<cart, issued, items>>, CartRead(c)',
         j.at = "take" =>
           \A d \in Requests \ {c} : job[d].at = "take" => job[d].user # j.user
  PROVE  QuietInv'
<1>1. \A d \in Requests : job'[d] = IF d = c THEN j ELSE job[d]
  BY DEF QuietInv, SaleInv, TypeOK
<1>2. (\A d \in Requests : CartRead(d))'
  BY <1>1 DEF QuietInv, CartRead, Buying
<1>3. OneBuyer'
  BY <1>1 DEF QuietInv, OneBuyer
<1> QED
  BY <1>2, <1>3 DEF QuietInv, LinesApart, OneOrderPerLine

LEMMA FinishQuiet ==
  ASSUME QuietInv, SaleInv', NEW c \in Requests, Finish(c), UNCHANGED <<cart, issued, items>>
  PROVE  QuietInv'
<1>1. CartRead(c)'
  BY DEF Finish, QuietInv, SaleInv, TypeOK, CartRead, Buying, Idle
<1> QED
  BY <1>1, QuietJobStep DEF Finish, Idle

LEMMA ReadCartQuiet ==
  ASSUME QuietInv, SaleInv', NEW c \in Requests, NEW u \in Users, ReadCart(c, u)
  PROVE  QuietInv'
<1> DEFINE j == [Idle EXCEPT !.at = "price", !.user = u, !.lines = cart[u]]
<1>1. job' = [job EXCEPT ![c] = j] /\ UNCHANGED <<cart, issued, items>>
  BY DEF ReadCart, cartVars, saleVars
<1>2. CartRead(c)'
  BY <1>1 DEF ReadCart, QuietInv, SaleInv, TypeOK, CartRead, Buying, Idle
<1>3. j.at # "take"
  BY DEF Idle
<1> HIDE DEF j
<1> QED
  BY <1>1, <1>2, <1>3, QuietJobStep

LEMMA PriceQuiet ==
  ASSUME QuietInv, SaleInv', NEW c \in Requests, Price(c)
  PROVE  QuietInv'
<1>1. UNCHANGED <<cart, issued, items>>
  BY DEF Price, cartVars, saleVars
<1>2. CASE Finish(c)
  BY <1>1, <1>2, FinishQuiet
<1>3. CASE ~Finish(c)
  <2> DEFINE j == [job[c] EXCEPT !.at = "consume",
                     !.seen = IF Marketplaces THEN stock ELSE StartStock]
  <2>1. job' = [job EXCEPT ![c] = j]
    BY <1>3 DEF Price, QuietInv, SaleInv, TypeOK
  <2>2. job[c] \in Jobs /\ job[c].at = "price" /\ CartRead(c)
    BY DEF Price, QuietInv, SaleInv, TypeOK
  <2>3. /\ job'[c].at = "consume" /\ job'[c].lines = job[c].lines
        /\ job'[c].user = job[c].user /\ j.at = "consume"
    BY <2>1, <2>2 DEF QuietInv, SaleInv, TypeOK, Jobs
  <2>4. CartRead(c)'
    BY <1>1, <2>2, <2>3 DEF CartRead, Buying
  <2> HIDE DEF j
  <2> QED
    BY <1>1, <2>1, <2>3, <2>4, QuietJobStep
<1> QED
  BY <1>2, <1>3

LEMMA BeginConsumeQuiet ==
  ASSUME QuietInv, SaleInv', NEW c \in Requests, BeginConsume(c)
  PROVE  QuietInv'
<1> DEFINE j == [job[c] EXCEPT !.at = "blocked", !.left = cart[job[c].user]]
<1>1. job' = [job EXCEPT ![c] = j] /\ UNCHANGED <<cart, issued, items>>
  BY DEF BeginConsume, QuietInv, SaleInv, TypeOK, cartVars, saleVars
<1>2. job[c] \in Jobs /\ job[c].at = "consume" /\ CartRead(c)
  BY DEF BeginConsume, QuietInv, SaleInv, TypeOK
<1>3. cart[job[c].user] = job[c].lines
  BY <1>2 DEF BeginConsume, CartLocked, HoldsCart, Visible, CartRead, Buying
<1>4. /\ job'[c].at = "blocked" /\ job'[c].lines = job[c].lines /\ job'[c].user = job[c].user
      /\ job'[c].left = job[c].lines /\ j.at = "blocked"
  BY <1>1, <1>2, <1>3 DEF QuietInv, SaleInv, TypeOK, Jobs
<1>5. CartRead(c)'
  BY <1>1, <1>2, <1>4 DEF CartRead, Buying
<1> HIDE DEF j
<1> QED
  BY <1>1, <1>4, <1>5, QuietJobStep

LEMMA ConsumeQuiet ==
  ASSUME QuietInv, SaleInv', NEW c \in Requests, Consume(c)
  PROVE  QuietInv'
<1>1. UNCHANGED <<cart, issued, items>>
  BY DEF Consume, cartVars, saleVars
<1>2. CASE Finish(c)
  BY <1>1, <1>2, FinishQuiet
<1>3. CASE ~Finish(c)
  <2> DEFINE u == job[c].user
             j == [job[c] EXCEPT !.at = "take", !.left = job[c].lines, !.eaten = Deletable(c)]
  <2>1. job' = [job EXCEPT ![c] = j] /\ Cardinality(Deletable(c)) = Cardinality(job[c].lines)
    BY <1>3 DEF Consume, QuietInv, SaleInv, TypeOK
  <2>2. /\ job[c] \in Jobs /\ job[c].at \in {"consume", "blocked"} /\ CartRead(c)
        /\ Buying(c) /\ ~CartLocked(c)
    BY DEF Consume, QuietInv, SaleInv, TypeOK, Buying
  <2>3. cart[u] = job[c].lines
    <3>1. CASE cart[u] = {}
      <4>1. Deletable(c) = {}
        BY <3>1 DEF Deletable
      <4>2. Cardinality(job[c].lines) = 0
        BY <2>1, <4>1, FS_EmptySet
      <4>3. job[c].lines = {}
        BY <2>2, <4>2, FS_EmptySet DEF CartRead
      <4> QED
        BY <2>2, <4>3 DEF CartRead
    <3> QED
      BY <2>2, <3>1 DEF CartRead
  <2>4. Visible(c) = cart[u]
    BY <2>2, <2>3 DEF Visible, CartRead
  <2>5. Deletable(c) = job[c].lines
    BY <2>3, <2>4 DEF Deletable
  <2>6. ASSUME NEW d \in Requests \ {c}, job[d].at = "take" PROVE job[d].user # u
    <3>1. SUFFICES ASSUME job[d].user = u PROVE FALSE
      OBVIOUS
    <3>2. job[d].eaten = cart[u]
      BY <2>6, <3>1 DEF QuietInv, CartRead, Buying
    <3>3. cart[u] # {}
      BY <2>2, <2>3 DEF CartRead
    <3> QED
      BY <2>2, <2>4, <3>2, <3>3 DEF CartLocked, HoldsCart
  <2>7. /\ job'[c].at = "take" /\ job'[c].lines = job[c].lines /\ job'[c].user = job[c].user
        /\ job'[c].eaten = job[c].lines /\ j.user = u
    BY <2>1, <2>2, <2>5 DEF QuietInv, SaleInv, TypeOK, Jobs
  <2>8. CartRead(c)'
    BY <1>1, <2>2, <2>3, <2>7 DEF CartRead, Buying
  <2> HIDE DEF j
  <2> QED
    BY <1>1, <2>1, <2>6, <2>7, <2>8, QuietJobStep
<1> QED
  BY <1>2, <1>3

(* Decrements change nothing CartRead speaks of.                            *)
LEMMA TakeQuiet ==
  ASSUME QuietInv, SaleInv', NEW c \in Requests, NEW l \in Lines, Take(c, l)
  PROVE  QuietInv'
<1> PICK j \in {Wrote(c, l), Missed(c, l)} : job' = [job EXCEPT ![c] = j]
  BY DEF Take
<1>1. UNCHANGED <<cart, issued, items>>
  BY DEF Take, cartVars, saleVars
<1>2. job[c] \in Jobs /\ job[c].at = "take" /\ CartRead(c)
  BY DEF Take, QuietInv, SaleInv, TypeOK
<1>3. j.at = "take" /\ j.lines = job[c].lines /\ j.user = job[c].user /\ j.eaten = job[c].eaten
  BY <1>2 DEF Wrote, Missed, Jobs
<1>4. job'[c] = j
  BY DEF QuietInv, SaleInv, TypeOK
<1>5. CartRead(c)'
  BY <1>1, <1>2, <1>3, <1>4 DEF CartRead, Buying
<1>6. \A d \in Requests \ {c} : job[d].at = "take" => job[d].user # j.user
  BY <1>2, <1>3 DEF QuietInv, OneBuyer
<1> QED
  BY <1>1, <1>5, <1>6, QuietJobStep

LEMMA CommitSaleQuiet ==
  ASSUME QuietInv, SaleInv', NEW c \in Requests, NEW o \in Orders, CommitSale(c, o)
  PROVE  QuietInv'
<1> DEFINE u == job[c].user
<1>1. /\ job[c].at = "take" /\ u \in Users /\ cart[u] = job[c].lines
      /\ job[c].eaten = job[c].lines
  BY DEF CommitSale, QuietInv, SaleInv, JobShape, CartRead, Buying
<1>2. \A w \in Users : cart'[w] = IF w = u THEN {} ELSE cart[w]
  <2>1. cart' = [cart EXCEPT ![u] = cart[u] \ job[c].eaten]
    BY DEF CommitSale
  <2>2. cart[u] \ job[c].eaten = {} /\ cart \in [Users -> SUBSET Lines]
    BY <1>1 DEF QuietInv, SaleInv, TypeOK
  <2> HIDE DEF u
  <2> QED
    BY <2>1, <2>2
<1>3. \A p \in Orders : items'[p] = IF p = o THEN cart[u] ELSE items[p]
  BY <1>1 DEF CommitSale, QuietInv, SaleInv, TypeOK
<1>4. issued' = issued
  BY DEF CommitSale
<1>5. LinesApart'
  BY <1>1, <1>2, <1>3, <1>4 DEF QuietInv, LinesApart, OneOrderPerLine
<1>6. \A d \in Requests : job'[d] = IF d = c THEN Idle ELSE job[d]
  BY DEF CommitSale, Finish, QuietInv, SaleInv, TypeOK
<1>7. OneBuyer'
  BY <1>6 DEF QuietInv, OneBuyer, Idle
<1>8. ASSUME NEW d \in Requests PROVE CartRead(d)'
  <2>1. CASE d = c
    BY <2>1, <1>6 DEF CartRead, Buying, Idle
  <2>2. CASE d # c
    <3>1. job'[d] = job[d] /\ CartRead(d) /\ (Buying(d) => job[d].user \in Users)
      BY <2>2, <1>6 DEF QuietInv, SaleInv, JobShape, Buying
    <3>2. job[d].at = "take" => job[d].user # u
      BY <2>2, <1>1 DEF QuietInv, OneBuyer
    <3> QED
      BY <3>1, <3>2, <1>2 DEF CartRead, Buying
  <2> QED
    BY <2>1, <2>2
<1>9. (\A w \in Users : IsFiniteSet(cart[w]))'
  BY <1>2, FS_EmptySet DEF QuietInv
<1> QED
  BY <1>5, <1>7, <1>8, <1>9 DEF QuietInv

LEMMA BeginReturnQuiet ==
  ASSUME QuietInv, SaleInv', NEW c \in Requests, NEW o \in Orders, BeginReturn(c, o)
  PROVE  QuietInv'
<1> DEFINE j == [Idle EXCEPT !.at = "restock", !.order = o, !.lines = items[o],
                             !.left = items[o]]
<1>1. job' = [job EXCEPT ![c] = j] /\ UNCHANGED <<cart, issued, items>>
  BY DEF BeginReturn, cartVars, saleVars
<1>2. j.at = "restock"
  BY DEF Idle
<1>3. CartRead(c)'
  BY <1>1, <1>2 DEF QuietInv, SaleInv, TypeOK, CartRead, Buying
<1> HIDE DEF j
<1> QED
  BY <1>1, <1>2, <1>3, QuietJobStep

LEMMA RestockQuiet ==
  ASSUME QuietInv, SaleInv', NEW c \in Requests, NEW l \in Lines, Restock(c, l)
  PROVE  QuietInv'
<1>1. job' = [job EXCEPT ![c] = Wrote(c, l)] /\ UNCHANGED <<cart, issued, items>>
  BY DEF Restock, cartVars, saleVars
<1>2. Wrote(c, l).at = "restock"
  <2>1. job[c] \in Jobs /\ job[c].at = "restock"
    BY DEF Restock, QuietInv, SaleInv, TypeOK
  <2> QED
    BY <2>1 DEF Jobs, Wrote
<1>3. CartRead(c)'
  BY <1>1, <1>2 DEF QuietInv, SaleInv, TypeOK, CartRead, Buying
<1> QED
  BY <1>1, <1>2, <1>3, QuietJobStep

(* Nobody is buying from a cart that is edited.                             *)
LEMMA EditedCartQuiet ==
  ASSUME QuietInv, SaleInv', NEW u \in Users, ~EditsMidCheckout, MayEdit(u), UNCHANGED <<items, job>>,
         NEW lines \in SUBSET Lines, cart' = [cart EXCEPT ![u] = lines], IsFiniteSet(lines),
         \A k, l \in lines : k.id = l.id => k = l,
         \A k \in lines : (\E l \in cart[u] : k.id = l.id) \/ k.id \notin issued,
         \A k \in lines : k.id \in issued',
         issued \subseteq issued'
  PROVE  QuietInv'
<1>1. \A w \in Users : cart'[w] = IF w = u THEN lines ELSE cart[w]
  BY DEF QuietInv, SaleInv, TypeOK
<1>2. (\A w \in Users : IsFiniteSet(cart[w]))'
  BY <1>1 DEF QuietInv
<1>3. OneBuyer'
  BY DEF QuietInv, OneBuyer
<1>4. ASSUME NEW c \in Requests PROVE CartRead(c)'
  BY <1>1 DEF QuietInv, SaleInv, JobShape, CartRead, Buying, MayEdit
<1>5. LinesApart'
  <2>1. (\A w \in Users : \A k, l \in cart[w] : k.id = l.id => k = l)'
    BY <1>1 DEF QuietInv, LinesApart
  <2>2. (\A v, w \in Users : v # w => \A k \in cart[v], l \in cart[w] : k.id # l.id)'
    BY <1>1 DEF QuietInv, LinesApart
  <2>3. (\A w \in Users, o \in Orders : \A k \in cart[w], l \in items[o] : k.id # l.id)'
    BY <1>1 DEF QuietInv, LinesApart
  <2>4. (\A w \in Users : \A k \in cart[w] : k.id \in issued)'
    BY <1>1 DEF QuietInv, LinesApart
  <2>5. (\A o \in Orders : \A k \in items[o] : k.id \in issued)' /\ OneOrderPerLine'
    BY DEF QuietInv, LinesApart, OneOrderPerLine
  <2> QED
    BY <2>1, <2>2, <2>3, <2>4, <2>5 DEF LinesApart
<1> QED
  BY <1>2, <1>3, <1>4, <1>5 DEF QuietInv

LEMMA CartEditQuiet ==
  ASSUME QuietInv, SaleInv', ~EditsMidCheckout, NEW u \in Users, CartEdit(u)
  PROVE  QuietInv'
<1>1. MayEdit(u) /\ UNCHANGED <<items, job>>
  BY DEF CartEdit, AddItem, SetQuantity, RemoveItems, saleVars
<1>2. /\ cart[u] \in SUBSET Lines /\ IsFiniteSet(cart[u])
      /\ \A k, l \in cart[u] : k.id = l.id => k = l
      /\ \A k \in cart[u] : k.id \in issued
  BY DEF QuietInv, LinesApart, SaleInv, TypeOK
<1>3. ASSUME NEW l \in cart[u], NEW q \in 1..MaxQty, UNCHANGED issued,
             cart' = [cart EXCEPT ![u] = (@ \ {l}) \cup {[l EXCEPT !.qty = q]}]
      PROVE  QuietInv'
  <2> DEFINE m == [l EXCEPT !.qty = q]
             lines == (cart[u] \ {l}) \cup {m}
  <2>1. m \in Lines /\ m.id = l.id
    BY <1>2 DEF Lines
  <2>2. lines \in SUBSET Lines /\ cart' = [cart EXCEPT ![u] = lines]
    BY <1>2, <1>3, <2>1 DEF QuietInv, SaleInv, TypeOK
  <2> HIDE DEF m
  <2>3. IsFiniteSet(lines)
    BY <1>2, FS_RemoveElement, FS_AddElement
  <2>4. /\ \A k, n \in lines : k.id = n.id => k = n
        /\ \A k \in lines : \E n \in cart[u] : k.id = n.id
        /\ \A k \in lines : k.id \in issued
    BY <1>2, <2>1
  <2> HIDE DEF lines
  <2> QED
    BY <1>1, <1>3, <2>2, <2>3, <2>4, EditedCartQuiet
<1>4. ASSUME NEW v \in Variants, NEW id \in LineIds, NEW q \in 1..MaxQty, AddItem(u, v, id, q)
      PROVE  QuietInv'
  <2>1. CASE CartLine(u, v) = {}
    <3> DEFINE m == [id |-> id, variant |-> v, qty |-> q]
               lines == cart[u] \cup {m}
    <3>1. m \in Lines /\ m.id = id
      BY DEF Lines
    <3>2. id \notin issued /\ issued' = issued \cup {id} /\ cart' = [cart EXCEPT ![u] = lines]
      BY <1>4, <2>1 DEF AddItem, QuietInv, SaleInv, TypeOK
    <3> HIDE DEF m
    <3>3. lines \in SUBSET Lines /\ IsFiniteSet(lines)
      BY <1>2, <3>1, FS_AddElement
    <3>4. /\ \A k, n \in lines : k.id = n.id => k = n
          /\ \A k \in lines : (\E n \in cart[u] : k.id = n.id) \/ k.id \notin issued
          /\ \A k \in lines : k.id \in issued'
      BY <1>2, <3>1, <3>2
    <3> HIDE DEF lines
    <3> QED
      BY <1>1, <3>2, <3>3, <3>4, EditedCartQuiet
  <2>2. CASE CartLine(u, v) # {}
    <3> PICK l \in CartLine(u, v) :
          /\ l.qty + q <= MaxQty
          /\ cart' = [cart EXCEPT ![u] = (@ \ {l}) \cup {[l EXCEPT !.qty = @ + q]}]
          /\ UNCHANGED issued
      BY <1>4, <2>2 DEF AddItem
    <3>1. l \in cart[u] /\ l.qty + q \in 1..MaxQty
      BY <1>2, BoundAssumption DEF CartLine, Lines
    <3>2. cart' = [cart EXCEPT ![u] = (@ \ {l}) \cup {[l EXCEPT !.qty = l.qty + q]}]
      OBVIOUS
    <3> QED
      BY <1>3, <3>1, <3>2
  <2> QED
    BY <2>1, <2>2
<1>5. ASSUME NEW l \in cart[u], NEW q \in 1..MaxQty, SetQuantity(u, l, q) PROVE QuietInv'
  BY <1>3, <1>5 DEF SetQuantity
<1>6. ASSUME NEW gone \in SUBSET cart[u], RemoveItems(u, gone) PROVE QuietInv'
  <2> DEFINE lines == cart[u] \ gone
  <2>1. cart' = [cart EXCEPT ![u] = lines] /\ issued' = issued
    BY <1>6 DEF RemoveItems, QuietInv, SaleInv, TypeOK
  <2>2. lines \in SUBSET Lines /\ IsFiniteSet(lines)
    BY <1>2, FS_Subset
  <2>3. /\ \A k, n \in lines : k.id = n.id => k = n
        /\ \A k \in lines : \E n \in cart[u] : k.id = n.id
        /\ \A k \in lines : k.id \in issued
    BY <1>2
  <2> HIDE DEF lines
  <2> QED
    BY <1>1, <2>1, <2>2, <2>3, EditedCartQuiet
<1> QED
  BY <1>4, <1>5, <1>6 DEF CartEdit

LEMMA NextQuiet ==
  ASSUME QuietInv, ~EditsMidCheckout, [Next]_vars
  PROVE  QuietInv'
<1>1. SaleInv'
  BY NextSale DEF QuietInv
<1>2. ASSUME NEW u \in Users, CartEdit(u) PROVE QuietInv'
  BY <1>1, <1>2, CartEditQuiet
<1>3. ASSUME NEW c \in Requests, Request(c) PROVE QuietInv'
  <2>1. CASE Price(c) \/ BeginConsume(c) \/ Consume(c)
    BY <1>1, <2>1, PriceQuiet, BeginConsumeQuiet, ConsumeQuiet
  <2>2. CASE \E l \in Lines : Take(c, l) \/ Restock(c, l)
    BY <1>1, <2>2, TakeQuiet, RestockQuiet
  <2>3. CASE \E o \in Orders : CommitSale(c, o)
    BY <1>1, <2>3, CommitSaleQuiet
  <2>4. CASE Refuse(c) \/ CommitReturn(c) \/ Rollback(c)
    BY <1>1, <2>4, FinishQuiet DEF Refuse, CommitReturn, Rollback, cartVars, saleVars
  <2> QED
    BY <1>3, <2>1, <2>2, <2>3, <2>4 DEF Request
<1>4. ASSUME NEW c \in Requests, NEW u \in Users, ReadCart(c, u) PROVE QuietInv'
  BY <1>1, <1>4, ReadCartQuiet
<1>5. ASSUME NEW c \in Requests, NEW o \in Orders, BeginReturn(c, o) PROVE QuietInv'
  BY <1>1, <1>5, BeginReturnQuiet
<1>6. CASE UNCHANGED <<cart, issued, items, job>>
  BY <1>1, <1>6 DEF QuietInv, LinesApart, OneOrderPerLine, CartRead, Buying, OneBuyer
<1>7. CASE \/ \E v \in Variants : \/ \E q \in Recounts : Recount(v, q)
                                  \/ \E s \in Offers : Reoffer(v, s)
           \/ \E p \in pushes : PushArrives(p)
           \/ UNCHANGED vars
  BY <1>6, <1>7 DEF Recount, Reoffer, PushArrives, vars, cartVars, saleVars
<1> QED
  BY <1>2, <1>3, <1>4, <1>5, <1>7 DEF Next

(* As long as nobody edits a cart that is being checked out, submitting it   *)
(* any number of times buys each line once: the row count after deleteMany   *)
(* is enough then (OrdersService.checkout; the run double_submit shows the   *)
(* case excluded here).                                                      *)
THEOREM QuietCartsBoughtOnce == ~EditsMidCheckout => (Spec => []OneOrderPerLine)
<1> SUFFICES ASSUME ~EditsMidCheckout PROVE Spec => []OneOrderPerLine
  OBVIOUS
<1>1. Init => QuietInv
  BY InitQuiet
<1>2. QuietInv /\ [Next]_vars => QuietInv'
  BY NextQuiet
<1>3. QuietInv => OneOrderPerLine
  BY DEF QuietInv, LinesApart
<1> QED
  BY <1>1, <1>2, <1>3, PTL DEF Spec

=============================================================================
