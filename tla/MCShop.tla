------------------------------- MODULE MCShop -------------------------------
(***************************************************************************)
(* The parts of the shop that wait for no other: the catalogue, what        *)
(* delivery costs, the reports and the connections to the marketplaces.  A  *)
(* behaviour works one part and leaves the others at rest.                  *)
(***************************************************************************)
EXTENDS Catalogue, Freight, Reports, Connections, TLC

VARIABLE part   (* the part this behaviour works *)

vars == <<part, catalogueVars, freightVars, reportVars, connectionVars>>

Rate(upTo, price) == [upTo |-> upTo, price |-> price]

Option(code, prefixes, days, rates) ==
  [code |-> code, prefixes |-> prefixes, days |-> days, rates |-> rates]

(* Two tables that parse, one of them full of ties, and two that do not.    *)
Tables ==
  { << Option(3, {"sul", "norte"}, 5, <<Rate(1, 10), Rate(3, 20)>>),
       Option(5, {"sul"}, 5, <<Rate(2, 10)>>),
       Option(4, {"sul"}, Unknown, <<Rate(4, 10)>>) >>,
    << Option(4, {"norte"}, 2, <<Rate(2, 20)>>),
       Option(3, {"norte"}, 2, <<Rate(2, 20)>>) >>,
    << Option(3, {"sul"}, 5, <<Rate(1, 10)>>),
       Option(3, {"sul"}, 2, <<Rate(3, 20)>>) >>,
    << Option(3, {"sul"}, 5, <<Rate(3, 10), Rate(1, 20)>>) >> }

Articles3 ==
  { [weight |-> Unknown, cubic |-> 0, price |-> 50],
    [weight |-> 1, cubic |-> 2, price |-> 30],
    [weight |-> 1, cubic |-> 0, price |-> 60] }

FreightAtRest ==
  /\ table = CHOOSE t \in RawTables : Parses(t)
  /\ line = CHOOSE l \in Lines : l.quantity = 0

Init ==
  /\ part \in {"catalogue", "freight", "reports", "connections"}
  /\ CatalogueInit /\ FreightInit /\ ReportsInit /\ ConnectionsInit
  /\ part # "freight" => FreightAtRest

Next ==
  \/ /\ part = "catalogue" /\ CatalogueNext
     /\ UNCHANGED <<part, freightVars, reportVars, connectionVars>>
  \/ /\ part = "freight" /\ FreightNext
     /\ UNCHANGED <<part, catalogueVars, reportVars, connectionVars>>
  \/ /\ part = "reports" /\ ReportsNext
     /\ UNCHANGED <<part, catalogueVars, freightVars, connectionVars>>
  \/ /\ part = "connections" /\ ConnectionsNext
     /\ UNCHANGED <<part, catalogueVars, freightVars, reportVars>>

Spec == Init /\ [][Next]_vars

(* Every part keeps to the values its module declares.                      *)
TypeOK ==
  /\ CatalogueTypeOK /\ FreightTypeOK
  /\ ReportsTypeOK /\ ConnectionsTypeOK

(* Clerks and calls have the same names; any two of them, and any two       *)
(* orders, are interchangeable.                                             *)
Symmetry == Permutations(Clerks) \cup Permutations(OrderIds)

=============================================================================
