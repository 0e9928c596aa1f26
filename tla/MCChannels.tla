----------------------------- MODULE MCChannels -----------------------------
(***************************************************************************)
(* The sizes as the back office edits them (Sizes), and as the channels     *)
(* sell them (Marketplaces).  The second has the archival and the deletion  *)
(* of a size as its environment; a behaviour works one of the two and       *)
(* leaves the other at rest.  Where a size stands in its list and whether   *)
(* it is in a cart do not meet in any rule, so that the sizes are worked    *)
(* with carts, in the order they come, or with no carts, in any order.      *)
(***************************************************************************)
EXTENDS Sizes, Marketplaces, TLC

VARIABLE part   (* the part this behaviour works *)

vars == <<part, sizesVars, marketVars>>

(* Publication and sale of both sizes on Mercado Livre and on Amazon, which *)
(* match a line differently (Shopee as Mercado Livre does: one size of it   *)
(* is published, and both sold that were put up by hand); on Mercado Livre  *)
(* a second sale of one size; the notices of a sale one after the other.    *)
(* Then each channel trading one size once, with the notices at once.       *)
SmallPlans ==
  {[trading |-> {ch}, sizes |-> Sizes, sales |-> 1,
    items |-> IF ch = "SHOPEE" THEN 0 ELSE 1, each |-> 1] : ch \in Channels}
    \cup {[trading |-> {"SHOPEE"}, sizes |-> {v}, sales |-> 1, items |-> 1,
           each |-> 1] : v \in Sizes}
    \cup {[trading |-> {"MERCADO_LIVRE"}, sizes |-> {v}, sales |-> 2, items |-> 0,
           each |-> 1] : v \in Sizes}
    \cup {[trading |-> {ch}, sizes |-> {v}, sales |-> 1, items |-> 0, each |-> 2] :
           ch \in Channels, v \in Sizes}

(* One size sold once on Mercado Livre, by hand.                            *)
OneSalePlan ==
  {[trading |-> {"MERCADO_LIVRE"}, sizes |-> Sizes, sales |-> 1, items |-> 0,
    each |-> 2]}

NoneMoved ==
  chosen = {} /\ \A c \in Editors : ~edit[c].sent /\ edit[c].at # "reorder"

Init ==
  /\ part \in {"carts", "places", "marketplaces"}
  /\ SizesInit /\ MarketplacesInit
  /\ part # "marketplaces" => plan.items = 1 /\ plan.trading = {"MERCADO_LIVRE"}

Next ==
  \/ /\ part # "marketplaces" /\ SizesNext
     /\ IF part = "carts" THEN NoneMoved' ELSE lines' = {}
     /\ UNCHANGED <<part, marketVars>>
  \/ part = "marketplaces" /\ MarketplacesNext /\ UNCHANGED <<part, sizesVars>>

Spec == Init /\ [][Next]_vars

(* Both parts keep to the values their modules declare.                     *)
TypeOK == SizesTypeOK /\ MarketplacesTypeOK

(* Editors and notices have the same names, labels and sizes too; any two   *)
(* of either are interchangeable.                                           *)
Symmetry == Permutations(Editors) \cup Permutations(Labels)

=============================================================================
