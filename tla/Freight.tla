------------------------------- MODULE Freight -------------------------------
(***************************************************************************)
(* What delivery costs: the freight table and the rules it is read by, the   *)
(* carrier in front of it, the quote a buyer is shown and the freight an     *)
(* order is charged (shipping/*.ts, orders/shipping-quote.service.ts).       *)
(*                                                                         *)
(* The carrier and the table configured by the operator are the             *)
(* environment: one may go down or change its prices between a quote and    *)
(* the checkout, the other is whatever survives the check made at boot.     *)
(* How a checkout interleaves with other buyers is in Checkout.             *)
(***************************************************************************)
EXTENDS Integers, Sequences, FiniteSets, FiniteSetsExt

CONSTANTS
  RawTables,       (* tables somebody may write in SHIPPING_TABLE           *)
  Regions,         (* what a CEP's digits say; prefixes are sets of them    *)
  Goods,           (* [weight, cubic, price] an article in a cart may have  *)
  Services,        (* how many services the carrier has: a bound            *)
  Fares,           (* the prices the carrier asks, cents                    *)
  DefaultWeight,   (* SHIPPING_DEFAULT_WEIGHT_GRAMS                         *)
  FreeAbove,       (* SHIPPING_FREE_ABOVE_CENTS                             *)
  MaxQuantity,     (* units in the cart: a bound of the model               *)
  Unknown          (* null                                                  *)

ASSUME FreightAssumption ==
  /\ DefaultWeight \in Nat \ {0} /\ FreeAbove \in Nat \cup {Unknown}
  /\ MaxQuantity \in Nat /\ Services \in Nat /\ Fares \subseteq Nat
  /\ Unknown \notin Nat \cup Regions
  /\ Goods \subseteq [weight: Nat \cup {Unknown}, cubic: Nat, price: Nat]
  /\ \A raw \in RawTables :
       raw \in Seq([code: Nat, prefixes: SUBSET Regions, days: Nat \cup {Unknown},
                    rates: Seq([upTo: Int, price: Int])])

VARIABLES
  table,     (* the options of the table, in the order written              *)
  carrier,   (* the carrier's fares by service; Unknown while it is down    *)
  line,      (* the cart: an article and how many of it                     *)
  shown,     (* the options of the buyer's last quote                       *)
  charged    (* the order placed last: option, freight, subtotal            *)

freightVars == <<table, carrier, line, shown, charged>>

-----------------------------------------------------------------------------
(* parseRates and parseShippingTable: what keeps a table from the boot.     *)
RatesAscend(rates) ==
  /\ rates # <<>>
  /\ \A i \in DOMAIN rates :
       /\ rates[i].upTo > (IF i = 1 THEN 0 ELSE rates[i - 1].upTo)
       /\ rates[i].price >= 0

Parses(raw) ==
  /\ raw # <<>>
  /\ \A i \in DOMAIN raw : raw[i].prefixes # {} /\ RatesAscend(raw[i].rates)
  /\ \A i, j \in DOMAIN raw : raw[i].code = raw[j].code => i = j

(* What one article weighs: an unweighed one the default, a bulky one its   *)
(* volume.                                                                  *)
UnitGrams(good) ==
  LET grams == IF good.weight = Unknown THEN DefaultWeight ELSE good.weight
  IN IF good.cubic > grams THEN good.cubic ELSE grams

Grams(l) == l.quantity * UnitGrams(l.good)

Subtotal(l) == l.quantity * l.good.price

IsFree(l) == FreeAbove # Unknown /\ Subtotal(l) >= FreeAbove

(* The first bracket that covers the parcel, 0 when none does.              *)
Bracket(rates, grams) ==
  LET covering == {i \in DOMAIN rates : grams <= rates[i].upTo}
  IN IF covering = {} THEN 0 ELSE Min(covering)

Serves(option, region, grams) ==
  region \in option.prefixes /\ Bracket(option.rates, grams) # 0

(* Mutant: options that tie stay as the table lists them.                   *)
AheadUntied(a, b) ==
  LET late(o) == IF o.days = Unknown THEN 1000000 ELSE o.days
  IN a.price < b.price \/ (a.price = b.price /\ late(a) < late(b))

(* compareOptions: cheapest, then fastest, an estimate before none, then by *)
(* code (codes are numbered in their alphabetical order).                   *)
Ahead(a, b) ==
  LET late(o) == IF o.days = Unknown THEN 1000000 ELSE o.days
  IN \/ a.price < b.price
     \/ a.price = b.price /\ late(a) < late(b)
     \/ a.price = b.price /\ late(a) = late(b) /\ a.code < b.code

(* Array.sort keeps the order of those it cannot tell apart; offers are     *)
(* indexed by where each stands in the table.                               *)
SortOptions(offers) ==
  LET before(i, j) == \/ Ahead(offers[i], offers[j])
                      \/ ~Ahead(offers[j], offers[i]) /\ i < j
      place(j) == Cardinality({i \in DOMAIN offers : i # j /\ before(i, j)}) + 1
  IN [n \in 1..Cardinality(DOMAIN offers) |->
        offers[CHOOSE j \in DOMAIN offers : place(j) = n]]

(* TableShippingProvider.quote; an address that is not a CEP is Unknown.    *)
TableQuote(options, region, l) ==
  LET offer(o) == [code |-> o.code, days |-> o.days, by |-> "table",
                   price |-> IF IsFree(l) THEN 0
                             ELSE o.rates[Bracket(o.rates, Grams(l))].price]
      serving == {i \in DOMAIN options : Serves(options[i], region, Grams(l))}
  IN IF region = Unknown THEN <<>>
     ELSE SortOptions([i \in serving |-> offer(options[i])])

(* The members of a set of numbers, from the least up.                      *)
Ascending(S) ==
  [n \in 1..Cardinality(S) |->
     CHOOSE i \in S : Cardinality({j \in S : j < i}) + 1 = n]

(* MelhorEnvioShippingProvider.quote: the services that did not decline, in *)
(* the order they came; a malformed address is answered without a call.     *)
CarrierQuote(region) ==
  IF region = Unknown THEN <<>>
  ELSE LET taken == Ascending({s \in 1..Services : carrier[s] # Unknown})
       IN [i \in DOMAIN taken |->
            [code |-> taken[i], days |-> Unknown, by |-> "carrier",
             price |-> carrier[taken[i]]]]

(* HybridShippingProvider: an outage falls back, an empty answer does not.  *)
Quote(region, l) ==
  IF carrier = Unknown /\ region # Unknown THEN TableQuote(table, region, l)
  ELSE CarrierQuote(region)

-----------------------------------------------------------------------------
Lines == [good: Goods, quantity: 0..MaxQuantity]

Carriers == {Unknown} \cup [1..Services -> Fares \cup {Unknown}]

Options == [code: Nat, days: Nat \cup {Unknown}, by: {"table", "carrier"}, price: Nat]

NoOrder == [code |-> 0, by |-> "table", freight |-> 0, subtotal |-> 0]

FreightTypeOK ==
  /\ table \in RawTables /\ Parses(table)
  /\ carrier \in Carriers
  /\ line \in Lines
  /\ \A i \in DOMAIN shown : shown[i] \in Options
  /\ charged \in [code: Nat, by: {"table", "carrier"}, freight: Nat, subtotal: Nat]

FreightInit ==
  /\ table \in {raw \in RawTables : Parses(raw)}
  /\ carrier = Unknown
  /\ line \in {l \in Lines : l.quantity = 0}
  /\ shown = <<>>
  /\ charged = NoOrder

(* The carrier answers again, goes down, or changes a fare.                 *)
CarrierTurns ==
  /\ carrier' \in Carriers \ {carrier}
  /\ UNCHANGED <<table, line, shown, charged>>

(* The buyer edits the cart, or the store edits the article in it.          *)
EditLine ==
  /\ line' \in Lines \ {line}
  /\ UNCHANGED <<table, carrier, shown, charged>>

(* POST /shipping/quote; an empty cart is refused.                          *)
QuoteForCart(region) ==
  /\ line.quantity > 0
  /\ shown' = Quote(region, line)
  /\ UNCHANGED <<table, carrier, line, charged>>

(* select: the choice is looked up by code in a fresh quote, and the price  *)
(* the buyer asserts must be the fresh one.                                 *)
Selected(offers, code, asserted) ==
  LET named == {i \in DOMAIN offers : offers[i].code = code}
  IN {i \in named : i = Min(named) /\ offers[i].price = asserted}

(* POST /orders, of a buyer who asserts what the last quote showed.         *)
PlaceOrder(region, i) ==
  /\ line.quantity > 0 /\ i \in DOMAIN shown
  /\ LET fresh == Quote(region, line)
     IN \E n \in Selected(fresh, shown[i].code, shown[i].price) :
          charged' = [code |-> fresh[n].code, by |-> fresh[n].by,
                      freight |-> fresh[n].price, subtotal |-> Subtotal(line)]
  /\ line' = [line EXCEPT !.quantity = 0]
  /\ UNCHANGED <<table, carrier, shown>>

FreightNext ==
  \/ CarrierTurns
  \/ EditLine
  \/ \E region \in Regions \cup {Unknown} :
       QuoteForCart(region) \/ \E i \in 1..3 : PlaceOrder(region, i)

FreightSpec == FreightInit /\ [][FreightNext]_freightVars

-----------------------------------------------------------------------------
Shuffles(s) ==
  {[i \in DOMAIN s |-> s[f[i]]] :
     f \in {g \in [DOMAIN s -> DOMAIN s] : \A i, j \in DOMAIN s : g[i] = g[j] => i = j}}

(* A quote depends on what the table says and never on how it was typed:    *)
(* whichever way its options are listed the buyer sees the same options in  *)
(* the same places (the comment of compareOptions), each by its own code,   *)
(* and each for the tightest bracket that covers the parcel, so taking a    *)
(* unit out of a cart never costs the weight of a heavier one (parseRates:  *)
(* "brackets must ascend").                                                 *)
QuoteIgnoresTheTypist ==
  /\ \A region \in Regions :
       LET offers == TableQuote(table, region, line)
       IN /\ \A other \in Shuffles(table) : TableQuote(other, region, line) = offers
          /\ \A i, j \in DOMAIN offers : offers[i].code = offers[j].code => i = j
  /\ \A o \in {table[i] : i \in DOMAIN table} :
       LET b == Bracket(o.rates, Grams(line))
       IN b # 0 => \A i \in DOMAIN o.rates :
                     o.rates[i].upTo >= Grams(line) => o.rates[b].upTo <= o.rates[i].upTo
=============================================================================
