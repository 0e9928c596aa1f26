---------------------------- MODULE Marketplaces ----------------------------
(***************************************************************************)
(* Sales made on Mercado Livre, Shopee and Amazon: the catalogue published  *)
(* there, the notice of a sale, its import as an order of the store with    *)
(* the stock it takes, and the stock pushed on to the other channels        *)
(* (integrations/*-webhook.service.ts, *-sync.service.ts).                  *)
(*                                                                         *)
(* The three channels run three copies of one handler.  What differs - the  *)
(* statuses that count as paid, how a line names a size, what the cascade   *)
(* sends - is in the definitions named after each.  The shop has one        *)
(* product here; a push stands for the stock as it was after some number of *)
(* imports.  Calls to a channel are unreliable, notices are delivered at    *)
(* least once, and the process may die at any point.                        *)
(***************************************************************************)
EXTENDS Integers, Sequences, FiniteSetsExt

CONSTANTS
  Sizes,        (* the variants of the product                              *)
  Channels,     (* the channels connected                                   *)
  Notices,      (* deliveries being handled: bounds their overlap           *)
  MaxSales,     (* sales made on the channels: a bound of the model         *)
  MaxItems,     (* publications of the product: a bound of the model        *)
  MaxUnits,     (* units in one line: a bound of the model                  *)
  Plans,        (* bounds of one behaviour: the channels that trade, the    *)
                (* sizes there are, the sales made, the items published and *)
                (* the notices of one sale that are handled at once         *)
  OnHand,       (* the stock of each size at the start                      *)
  NoSize        (* null                                                     *)

ASSUME MarketplacesAssumption ==
  /\ IsFiniteSet(Sizes)
  /\ Channels \in SUBSET {"MERCADO_LIVRE", "SHOPEE", "AMAZON"}
  /\ MaxSales \in Nat /\ MaxItems \in Nat /\ MaxUnits \in Nat
  /\ Plans \in SUBSET [trading: SUBSET Channels, sizes: SUBSET Sizes,
                       sales: 0..MaxSales, items: 0..MaxItems, each: Nat]
  /\ OnHand \in Nat
  /\ NoSize \notin Sizes

VARIABLES
  shelf,      (* product_variants.stock_quantity                            *)
  offered,    (* "active", "archived" or "gone": a variant's row            *)
  mapping,    (* marketplace_item_mappings                                  *)
  plan,       (* the bounds of this behaviour, chosen once                  *)
  publishing, (* the sync of the product in progress on each channel        *)
  sales,      (* the sales made on the channels, in order                   *)
  orders,     (* the orders imported, in order                              *)
  notice,     (* what each delivery in flight is about to do                *)
  pushes,     (* calls of syncVariantStock in flight                        *)
  told,       (* how many imports the freshest stock a channel was told,    *)
              (* or would have been but for a lost call, had seen           *)
  doubled     (* history: sales that two notices looked up before either    *)
              (* imported them                                              *)

marketVars == <<shelf, offered, mapping, plan, publishing, sales, orders,
                notice, pushes, told, doubled>>

-----------------------------------------------------------------------------
Items == 0..MaxItems      (* 0: put up on the channel by hand               *)

Units == 1..MaxUnits

(* A line of a sale names the item, and the size unless the channel left    *)
(* the variation out.                                                       *)
SaleLines == [item: Items, size: Sizes \cup {NoSize}, units: Units]

SaleRows == [channel: Channels, lines: SUBSET SaleLines]

(* order_items: the units of a size, and whether the shelf had them.        *)
OrderLines == [size: Sizes, units: Units, short: BOOLEAN]

OrderRows == [sale: 1..MaxSales, status: {"PAID", "CREATED", "CANCELLED"},
              lines: SUBSET OrderLines]

Mappings == [channel: Channels, item: Items, size: Sizes \cup {NoSize},
             variant: Sizes]

NoticeSteps == {"idle", "fetched", "picked", "cascade"}

(* picked: <<size, units>> of each line, as a sequence: two lines may fall  *)
(* on one size.                                                             *)
NoticeStates ==
  [step: NoticeSteps, sale: 0..MaxSales, paid: BOOLEAN,
   picked: Seq(Sizes \X Units), toTell: SUBSET Sizes]

NoNotice == [step |-> "idle", sale |-> 0, paid |-> FALSE, picked |-> <<>>,
             toTell |-> {}]

Pushes == [to: Channels, size: Sizes, asOf: Nat]

NotPublishing == [item |-> 0, left |-> {}]

MarketplacesTypeOK ==
  /\ shelf \in [Sizes -> Nat]
  /\ offered \in [Sizes -> {"active", "archived", "gone"}]
  /\ mapping \in SUBSET Mappings
  /\ publishing \in [Channels -> [item: Items, left: SUBSET Sizes]]
  /\ sales \in Seq(SaleRows) /\ Len(sales) <= MaxSales
  /\ orders \in Seq(OrderRows)
  /\ notice \in [Notices -> NoticeStates]
  /\ pushes \in SUBSET Pushes
  /\ told \in [Channels -> [Sizes -> Nat]]
  /\ plan \in Plans
  /\ doubled \subseteq 1..MaxSales

MarketplacesInit ==
  /\ plan \in Plans
  /\ shelf = [v \in Sizes |-> OnHand]
  /\ offered = [v \in Sizes |-> IF v \in plan.sizes THEN "active" ELSE "gone"]
  /\ mapping = {}
  /\ publishing = [ch \in Channels |-> NotPublishing]
  /\ sales = <<>> /\ orders = <<>>
  /\ notice = [c \in Notices |-> NoNotice]
  /\ pushes = {} /\ doubled = {}
  /\ told = [ch \in Channels |-> [v \in Sizes |-> 0]]

-----------------------------------------------------------------------------
(* THE CATALOGUE ON A CHANNEL *)

KeepTrade ==
  UNCHANGED <<shelf, plan, sales, orders, notice, pushes, told, doubled>>

Active == {v \in Sizes : offered[v] = "active"}

(* syncProductCatalog reads the active sizes and publishes.  Mercado Livre  *)
(* and Shopee give every publication a new item; on Amazon the SKU is the   *)
(* size's own, so publishing again replaces.                                *)
PublishItem(ch, item) ==
  /\ ch \in plan.trading /\ item <= plan.items
  /\ publishing[ch] = NotPublishing
  /\ Active # {}
  /\ publishing' = [publishing EXCEPT ![ch] = [item |-> item, left |-> Active]]
  /\ KeepTrade
  /\ UNCHANGED <<offered, mapping>>

NextItem(ch) ==
  CHOOSE n \in 1..(MaxItems + 1) :
    /\ \A m \in mapping : m.channel = ch => m.item < n
    /\ n = 1 \/ \E m \in mapping : m.channel = ch /\ m.item = n - 1

(* publishItem and putListingItem: the item a publication becomes.          *)
MeliNewItem == NextItem("MERCADO_LIVRE")
ShopeeNewItem == NextItem("SHOPEE")
AmazonSku == 1

MeliPublish == PublishItem("MERCADO_LIVRE", MeliNewItem)
ShopeePublish == PublishItem("SHOPEE", ShopeeNewItem)
AmazonPublish == PublishItem("AMAZON", AmazonSku)

(* The row of a size: one upsert after the other.  A size deleted meanwhile *)
(* fails its foreign key, and the sizes after it stay unmapped.             *)
MapSize(ch, v) ==
  /\ v \in publishing[ch].left
  /\ IF offered[v] = "gone"
     THEN /\ publishing' = [publishing EXCEPT ![ch] = NotPublishing]
          /\ UNCHANGED mapping
     ELSE /\ mapping' = mapping \cup
               {[channel |-> ch, item |-> publishing[ch].item, size |-> v,
                 variant |-> v]}
          /\ publishing' = [publishing EXCEPT ![ch] =
               IF @.left = {v} THEN NotPublishing
               ELSE [@ EXCEPT !.left = publishing[ch].left \ {v}]]
  /\ KeepTrade
  /\ UNCHANGED offered

(* A channel refuses a call, or the process dies, half way.                 *)
StopPublishing(ch) ==
  /\ publishing[ch] # NotPublishing
  /\ publishing' = [publishing EXCEPT ![ch] = NotPublishing]
  /\ KeepTrade
  /\ UNCHANGED <<offered, mapping>>

(* The back office archives a size, or deletes one no order names: its      *)
(* mappings go with it.                                                     *)
ArchiveSize(v) ==
  /\ offered[v] = "active"
  /\ offered' = [offered EXCEPT ![v] = "archived"]
  /\ KeepTrade
  /\ UNCHANGED <<mapping, publishing>>

Ordered == UNION {{l.size : l \in orders[i].lines} : i \in DOMAIN orders}

DeleteSize(v) ==
  /\ offered[v] # "gone" /\ v \notin Ordered
  /\ \E w \in Sizes \ {v} : offered[w] # "gone"
  /\ offered' = [offered EXCEPT ![v] = "gone"]
  /\ mapping' = {m \in mapping : m.variant # v}
  /\ KeepTrade
  /\ UNCHANGED publishing

-----------------------------------------------------------------------------
(* A SALE AND ITS NOTICES *)

KeepOffers == UNCHANGED <<offered, mapping, plan, publishing>>

KeepShop == KeepOffers /\ UNCHANGED doubled

(* A buyer orders on the channel; nothing there waits for the store.        *)
SellOn(ch, lines) ==
  /\ \A l \in lines : l.item <= plan.items /\ l.size \in plan.sizes \cup {NoSize}
  /\ ch \in plan.trading
  /\ Len(sales) < plan.sales
  /\ sales' = Append(sales, [channel |-> ch, lines |-> lines])
  /\ KeepShop
  /\ UNCHANGED <<shelf, orders, notice, pushes, told>>

InHand(c, step) == notice[c].step = step

SaleOf(c) == sales[notice[c].sale]

InHandOf(s) == {d \in Notices : notice[d].sale = s}

(* The notice names the sale; the handler asks the channel for it.  What a  *)
(* channel calls paid decides the order's status once and for all: a sale   *)
(* that is seen unpaid, cancelled or, on Shopee, already SHIPPED comes in   *)
(* as CREATED.                                                              *)
Fetch(c, s, statuses, paid) ==
  /\ InHand(c, "idle")
  /\ Cardinality(InHandOf(s)) < plan.each
  /\ \E status \in statuses :
       notice' = [notice EXCEPT ![c] = [NoNotice EXCEPT !.step = "fetched",
                                          !.sale = s, !.paid = status \in paid]]
  /\ KeepShop
  /\ UNCHANGED <<shelf, sales, orders, pushes, told>>

(* getOrder of each connector: what the channel may say of a sale.  A call  *)
(* that fails ends the delivery, which leaves nothing behind.               *)
MeliOrder == {"confirmed", "paid", "cancelled"}

ShopeeOrder ==
  {"UNPAID", "READY_TO_SHIP", "PROCESSED", "SHIPPED", "COMPLETED", "CANCELLED"}

AmazonOrder == {"Pending", "Unshipped", "PartiallyShipped", "Shipped", "Canceled"}

MeliNotified(c, s) ==
  /\ sales[s].channel = "MERCADO_LIVRE"
  /\ Fetch(c, s, MeliOrder, {"paid"})

ShopeeNotified(c, s) ==
  /\ sales[s].channel = "SHOPEE"
  /\ Fetch(c, s, ShopeeOrder, {"READY_TO_SHIP", "PROCESSED", "COMPLETED"})

AmazonNotified(c, s) ==
  /\ sales[s].channel = "AMAZON"
  /\ Fetch(c, s, AmazonOrder, {"Unshipped", "PartiallyShipped", "Shipped"})

Imported(s) == {i \in DOMAIN orders : orders[i].sale = s}

(* The sizes a line may be charged to: any whose mapping it matches, and    *)
(* when there is none, any active size of the shop.                         *)
Charged(matching) == IF matching # {} THEN {m.variant : m \in matching} ELSE Active

(* A line without a variation matches every size of its item.               *)
ByVariation(ch, l) ==
  {m \in mapping : /\ m.channel = ch /\ m.item = l.item
                   /\ l.size # NoSize => m.size = l.size}

MeliMatches(l) == Charged(ByVariation("MERCADO_LIVRE", l))

ShopeeMatches(l) == Charged(ByVariation("SHOPEE", l))

(* A SKU names one size: a hand-made listing has a SKU of its own.          *)
AmazonMatches(l) ==
  Charged({m \in mapping : /\ m.channel = "AMAZON" /\ m.item = l.item
                           /\ m.size = l.size})

(* Every line of the sale, in some order, with a size it may be charged to; *)
(* a line no size can be found for is left out.                             *)
Picks(lines, Matches(_)) ==
  LET kept == {l \in lines : Matches(l) # {}}
      n == Cardinality(kept)
  IN {picked \in [1..n -> Sizes \X Units] :
        \E line \in [1..n -> kept] :
          /\ {line[k] : k \in 1..n} = kept
          /\ \A k \in 1..n : /\ picked[k][1] \in Matches(line[k])
                             /\ picked[k][2] = line[k].units}

(* Another notice of the sale has looked it up and not imported it.         *)
PickedBeside(c, s) == \E d \in InHandOf(s) \ {c} : InHand(d, "picked")

(* No order of this sale yet: settle the buyer and the sizes.  Without a    *)
(* single line that can be charged the notice is answered and dropped.      *)
SettleLines(c, Matches(_)) ==
  \E picked \in Picks(SaleOf(c).lines, Matches) :
    IF picked = <<>>
    THEN notice' = [notice EXCEPT ![c] = NoNotice] /\ UNCHANGED doubled
    ELSE /\ notice' = [notice EXCEPT ![c].step = "picked", ![c].picked = picked]
         /\ doubled' = IF PickedBeside(c, notice[c].sale)
                       THEN doubled \cup {notice[c].sale} ELSE doubled

PickLines(c, Matches(_)) ==
  /\ InHand(c, "fetched")
  /\ IF Imported(notice[c].sale) # {}
     THEN notice' = [notice EXCEPT ![c] = NoNotice] /\ UNCHANGED doubled
     ELSE SettleLines(c, Matches)
  /\ KeepOffers
  /\ UNCHANGED <<shelf, sales, orders, pushes, told>>

(* Mutant: without the lookup of the sale among the orders.                 *)
MeliPickAgain(c) ==
  /\ InHand(c, "fetched") /\ SaleOf(c).channel = "MERCADO_LIVRE"
  /\ SettleLines(c, MeliMatches)
  /\ KeepOffers
  /\ UNCHANGED <<shelf, sales, orders, pushes, told>>

MeliPick(c) == /\ InHand(c, "fetched") /\ SaleOf(c).channel = "MERCADO_LIVRE"
               /\ PickLines(c, MeliMatches)

ShopeePick(c) == /\ InHand(c, "fetched") /\ SaleOf(c).channel = "SHOPEE"
                 /\ PickLines(c, ShopeeMatches)

AmazonPick(c) == /\ InHand(c, "fetched") /\ SaleOf(c).channel = "AMAZON"
                 /\ PickLines(c, AmazonMatches)

-----------------------------------------------------------------------------
(* THE IMPORT *)

OneLinePerSize(picked) ==
  \A j, k \in DOMAIN picked : picked[j][1] = picked[k][1] => j = k

(* Mutant: the decrement's condition forgets the units on the shelf.        *)
TakenWhenActive(v, n) == offered[v] = "active"

(* StockService.decrement for an import: a size that is not for sale, or    *)
(* has too little, is left as it is - and the order is made all the same.   *)
Taken(v, n) == offered[v] = "active" /\ shelf[v] >= n

OrderLine(pick) ==
  [size |-> pick[1], units |-> pick[2], short |-> ~Taken(pick[1], pick[2])]

(* Mutant: the decrements outside the transaction, kept when it fails.      *)
ImportSaleUnwrapped(c) ==
  /\ InHand(c, "picked")
  /\ LET picked == notice[c].picked
         lines == {OrderLine(picked[k]) : k \in DOMAIN picked}
         good == OneLinePerSize(picked) /\ \A l \in lines : offered[l.size] # "gone"
     IN /\ shelf' = [v \in Sizes |->
             IF \E l \in lines : l.size = v /\ ~l.short
             THEN shelf[v] - (CHOOSE l \in lines : l.size = v).units
             ELSE shelf[v]]
        /\ IF good
           THEN /\ orders' = Append(orders,
                     [sale |-> notice[c].sale,
                      status |-> IF notice[c].paid THEN "PAID" ELSE "CREATED",
                      lines |-> lines])
                /\ notice' = [notice EXCEPT ![c].step = "cascade",
                                            ![c].picked = <<>>,
                                            ![c].toTell = {l.size : l \in lines}]
           ELSE /\ notice' = [notice EXCEPT ![c] = NoNotice]
                /\ UNCHANGED orders
  /\ KeepShop
  /\ UNCHANGED <<sales, pushes, told>>

(* The transaction: every decrement, then the order with its lines.  Two    *)
(* lines of one size break the unique key, and a size deleted meanwhile the *)
(* foreign key: all of it is rolled back and the notice fails.              *)
ImportSale(c) ==
  /\ InHand(c, "picked")
  /\ LET picked == notice[c].picked
         lines == {OrderLine(picked[k]) : k \in DOMAIN picked}
     IN IF OneLinePerSize(picked) /\ \A l \in lines : offered[l.size] # "gone"
        THEN /\ shelf' = [v \in Sizes |->
                  IF \E l \in lines : l.size = v /\ ~l.short
                  THEN shelf[v] - (CHOOSE l \in lines : l.size = v).units
                  ELSE shelf[v]]
             /\ orders' = Append(orders,
                  [sale |-> notice[c].sale,
                   status |-> IF notice[c].paid THEN "PAID" ELSE "CREATED",
                   lines |-> lines])
             /\ notice' = [notice EXCEPT ![c].step = "cascade",
                                         ![c].picked = <<>>,
                                         ![c].toTell = {l.size : l \in lines}]
        ELSE /\ notice' = [notice EXCEPT ![c] = NoNotice]
             /\ UNCHANGED <<shelf, orders>>
  /\ KeepShop
  /\ UNCHANGED <<sales, pushes, told>>

MeliImport(c) == /\ InHand(c, "picked") /\ SaleOf(c).channel = "MERCADO_LIVRE"
                 /\ ImportSale(c)

ShopeeImport(c) == /\ InHand(c, "picked") /\ SaleOf(c).channel = "SHOPEE"
                   /\ ImportSale(c)

AmazonImport(c) == /\ InHand(c, "picked") /\ SaleOf(c).channel = "AMAZON"
                   /\ ImportSale(c)

(* Mutant: the cascade sends the stock as it was before the import.         *)
CascadeStale(c, v, others) ==
  /\ InHand(c, "cascade") /\ v \in notice[c].toTell
  /\ pushes' = pushes \cup {[to |-> ch, size |-> v, asOf |-> Len(orders) - 1] :
                              ch \in others \cap Channels}
  /\ notice' = [notice EXCEPT ![c] =
       IF @.toTell = {v} THEN NoNotice
       ELSE [@ EXCEPT !.toTell = notice[c].toTell \ {v}]]
  /\ KeepShop
  /\ UNCHANGED <<shelf, sales, orders, told>>

(* One size after the other: read what the shelf has now and send it to the *)
(* other two channels without waiting for the answers.                      *)
Cascade(c, v, others) ==
  /\ InHand(c, "cascade") /\ v \in notice[c].toTell
  /\ pushes' = pushes \cup {[to |-> ch, size |-> v, asOf |-> Len(orders)] :
                              ch \in others \cap Channels}
  /\ notice' = [notice EXCEPT ![c] =
       IF @.toTell = {v} THEN NoNotice
       ELSE [@ EXCEPT !.toTell = notice[c].toTell \ {v}]]
  /\ KeepShop
  /\ UNCHANGED <<shelf, sales, orders, told>>

MeliCascade(c, v) ==
  /\ InHand(c, "cascade") /\ SaleOf(c).channel = "MERCADO_LIVRE"
  /\ Cascade(c, v, {"SHOPEE", "AMAZON"})

ShopeeCascade(c, v) ==
  /\ InHand(c, "cascade") /\ SaleOf(c).channel = "SHOPEE"
  /\ Cascade(c, v, {"MERCADO_LIVRE", "AMAZON"})

AmazonCascade(c, v) ==
  /\ InHand(c, "cascade") /\ SaleOf(c).channel = "AMAZON"
  /\ Cascade(c, v, {"MERCADO_LIVRE", "SHOPEE"})

(* syncVariantStock: the channel is told, when the size is listed there,    *)
(* and a call that fails is only logged.                                    *)
Tell(ch) ==
  \E p \in pushes :
    /\ p.to = ch
    /\ pushes' = pushes \ {p}
    /\ told' = [told EXCEPT ![ch][p.size] = Max({@, p.asOf})]
    /\ KeepShop
    /\ UNCHANGED <<shelf, sales, orders, notice>>

MeliStock == Tell("MERCADO_LIVRE")
ShopeeStock == Tell("SHOPEE")
AmazonStock == Tell("AMAZON")

(* cancel of an imported order nobody paid here: every line goes back on    *)
(* the shelf, the short ones too.                                           *)
CancelImport(i) ==
  /\ orders[i].status = "CREATED"
  /\ orders' = [orders EXCEPT ![i].status = "CANCELLED"]
  /\ shelf' = [v \in Sizes |->
       IF \E l \in orders[i].lines : l.size = v
       THEN shelf[v] + (CHOOSE l \in orders[i].lines : l.size = v).units
       ELSE shelf[v]]
  /\ KeepShop
  /\ UNCHANGED <<sales, notice, pushes, told>>

(* The process dies: deliveries and pushes in flight are gone.              *)
Restart ==
  /\ pushes # {} \/ \E c \in Notices : notice[c] # NoNotice
  /\ notice' = [c \in Notices |-> NoNotice]
  /\ pushes' = {}
  /\ told' = [ch \in Channels |-> [v \in Sizes |->
       IF \/ \E p \in pushes : p.to = ch /\ p.size = v
          \/ \E c \in Notices : v \in notice[c].toTell
       THEN Len(orders) ELSE told[ch][v]]]
  /\ KeepShop
  /\ UNCHANGED <<shelf, sales, orders>>

MarketplacesNext ==
  \/ MeliPublish \/ ShopeePublish \/ AmazonPublish
  \/ \E ch \in Channels : \/ \E v \in Sizes : MapSize(ch, v)
                          \/ StopPublishing(ch)
                          \/ \E n \in 1..2 : \E lines \in kSubset(n, SaleLines) :
                               SellOn(ch, lines)
  \/ \E v \in Sizes : ArchiveSize(v) \/ DeleteSize(v)
  \/ \E c \in Notices :
       \/ \E s \in DOMAIN sales :
            MeliNotified(c, s) \/ ShopeeNotified(c, s) \/ AmazonNotified(c, s)
       \/ MeliPick(c) \/ ShopeePick(c) \/ AmazonPick(c)
       \/ MeliImport(c) \/ ShopeeImport(c) \/ AmazonImport(c)
       \/ \E v \in Sizes :
            MeliCascade(c, v) \/ ShopeeCascade(c, v) \/ AmazonCascade(c, v)
  \/ MeliStock \/ ShopeeStock \/ AmazonStock
  \/ \E i \in DOMAIN orders : CancelImport(i)
  \/ Restart

MarketplacesSpec == MarketplacesInit /\ [][MarketplacesNext]_marketVars

-----------------------------------------------------------------------------
(* PROPERTIES *)

(* A sale becomes one order of the store, however often it is notified,     *)
(* over restarts and sales in between: the lookup of (channel, external id) *)
(* before the import.  The one exception is a sale that two notices looked  *)
(* up before either had imported it; no index stands behind the lookup.     *)
ImportedOnce ==
  \A s \in DOMAIN sales \ doubled : Cardinality(Imported(s)) <= 1

(* What the comment over Shopee's lookup says of it, "nao duplica pedidos   *)
(* ja importados", whatever the notices do.                                 *)
NeverImportedTwice == \A s \in DOMAIN sales : Cardinality(Imported(s)) <= 1

(* The units of v in lines of an order, which has one line of each size.    *)
UnitsOf(ls, v) ==
  IF \E l \in ls : l.size = v THEN (CHOOSE l \in ls : l.size = v).units ELSE 0

ShortLines(order) == {l \in order.lines : l.short}

TakenLines(order) == order.lines \ ShortLines(order)

Total(n, of) ==
  LET sum[k \in 0..n] == IF k = 0 THEN 0 ELSE sum[k - 1] + of[k]
  IN sum[n]

(* What each order still keeps from the shelf, and what its cancellation    *)
(* gave back beyond what it had taken.                                      *)
Took(v) == [i \in DOMAIN orders |->
  IF orders[i].status = "CANCELLED" THEN 0 ELSE UnitsOf(TakenLines(orders[i]), v)]

Minted(v) == [i \in DOMAIN orders |->
  IF orders[i].status = "CANCELLED" THEN UnitsOf(ShortLines(orders[i]), v) ELSE 0]

(* What is on the shelf is what was there, less what the orders that stand  *)
(* really took, plus what cancelled orders gave back without having taken   *)
(* it: an import that fails, at whichever line, takes nothing.              *)
ShelfIsAccounted ==
  \A v \in Sizes : shelf[v] = OnHand - Total(Len(orders), Took(v))
                                     + Total(Len(orders), Minted(v))

(* Once no cascade or push is under way, every other channel has been told  *)
(* the stock each import left, or a call that would have was lost: the      *)
(* cascade reads the shelf after the import has committed.                  *)
EveryImportIsTold ==
  (pushes = {} /\ \A c \in Notices : ~InHand(c, "cascade")) =>
    \A i \in DOMAIN orders, ch \in Channels :
      ch # sales[orders[i].sale].channel =>
        \A l \in orders[i].lines : told[ch][l.size] >= i

(* What stock.service.ts says of a restock, "the units physically exist":   *)
(* the shelf never holds more than there was.                               *)
NothingMinted == \A v \in Sizes : shelf[v] <= OnHand

=============================================================================
