------------------------- MODULE MarketplacesProofs -------------------------
(***************************************************************************)
(* For any catalogue, any connected channels and any number of sales,       *)
(* notices and publications: every variable keeps its type, a sale becomes  *)
(* one order, every import is told to the other channels, and the shelf is  *)
(* what the orders say it is.                                               *)
(***************************************************************************)
EXTENDS MCChannels, SizesProofs, SequenceTheorems

(* Whoever is handling a notice handles that of a sale there is.            *)
OfASale ==
  /\ \A c \in Notices :
       IF notice[c].step = "idle" THEN notice[c] = NoNotice
       ELSE notice[c].sale \in DOMAIN sales
  /\ \A i \in DOMAIN orders : orders[i].sale \in DOMAIN sales

(* An order has one line of a size.                                         *)
OneLineEach ==
  \A i \in DOMAIN orders : \A l, m \in orders[i].lines : l.size = m.size => l = m

MarketInv == MarketplacesTypeOK /\ OfASale /\ OneLineEach

(* Unless two notices looked a sale up before either imported it, whoever is *)
(* about to import it is alone in that, and nobody has imported it yet.     *)
OnceInv ==
  /\ \A i, j \in DOMAIN orders :
       orders[i].sale = orders[j].sale => i = j \/ orders[i].sale \in doubled
  /\ \A c \in Notices : InHand(c, "picked") /\ notice[c].sale \notin doubled =>
       /\ Imported(notice[c].sale) = {}
       /\ \A d \in Notices :
            InHand(d, "picked") /\ notice[d].sale = notice[c].sale => c = d

(* The stock that the import i left of v is, or will be, told to ch.        *)
TellsOf(ch, v, i) ==
  \/ told[ch][v] >= i
  \/ \E p \in pushes : p.to = ch /\ p.size = v /\ p.asOf >= i
  \/ \E c \in Notices : /\ InHand(c, "cascade") /\ v \in notice[c].toTell
                        /\ SaleOf(c).channel # ch

ToldInv ==
  \A i \in DOMAIN orders, ch \in Channels :
    ch # sales[orders[i].sale].channel =>
      \A l \in orders[i].lines : TellsOf(ch, l.size, i)

-----------------------------------------------------------------------------
(* ROWS *)

LEMMA SaleLinesFinite == IsFiniteSet(SaleLines)
<1>1. PICK S : S = Items \X (Sizes \cup {NoSize}) \X Units
  OBVIOUS
<1>2. IsFiniteSet(Items) /\ IsFiniteSet(Units) /\ IsFiniteSet(Sizes \cup {NoSize})
  BY FS_Interval, FS_AddElement, MarketplacesAssumption DEF Items, Units
<1>3. IsFiniteSet((Items \X (Sizes \cup {NoSize})) \X Units)
  BY <1>2, FS_Product
<1>4. PICK g : g = [l \in SaleLines |-> <<<<l.item, l.size>>, l.units>>]
  OBVIOUS
<1>5. g \in [SaleLines -> (Items \X (Sizes \cup {NoSize})) \X Units]
  BY <1>4 DEF SaleLines
<1>6. ASSUME NEW l \in SaleLines, NEW m \in SaleLines, g[l] = g[m] PROVE l = m
  <2>1. l.item = m.item /\ l.size = m.size /\ l.units = m.units
    BY <1>4, <1>6
  <2> QED
    BY <2>1 DEF SaleLines
<1>7. g \in Injection(SaleLines, (Items \X (Sizes \cup {NoSize})) \X Units)
  BY <1>5, <1>6 DEF Injection, IsInjective
<1> QED
  BY <1>3, <1>7, FS_Injection

(* What is picked for the lines of a sale is a size and a number of units   *)
(* each.                                                                    *)
LEMMA PickedTyped ==
  ASSUME NEW ls \in SUBSET SaleLines, NEW kept \in SUBSET ls,
         NEW picked \in [1..Cardinality(kept) -> Sizes \X Units]
  PROVE  picked \in Seq(Sizes \X Units)
<1>1. Cardinality(kept) \in Nat
  BY SaleLinesFinite, FS_Subset, FS_CardinalityType
<1> QED
  BY <1>1

LEMMA NoNoticeTyped ==
  NoNotice \in NoticeStates /\ NoNotice.step = "idle" /\ NoNotice.toTell = {}
<1>1. << >> \in Seq(Sizes \X Units)
  BY EmptySeq
<1>2. 0 \in 0..MaxSales
  BY MarketplacesAssumption
<1> QED
  BY <1>1, <1>2 DEF NoNotice, NoticeStates, NoticeSteps

LEMMA SaleOfNotice ==
  ASSUME MarketInv, NEW c \in Notices, notice[c].step # "idle"
  PROVE  /\ notice[c].sale \in DOMAIN sales /\ notice[c].sale \in 1..MaxSales
         /\ SaleOf(c) \in SaleRows
<1>1. notice[c].sale \in DOMAIN sales
  BY DEF MarketInv, OfASale
<1> QED
  BY <1>1, MarketplacesAssumption DEF MarketInv, MarketplacesTypeOK, SaleOf

(* A step that settles what one delivery is about to do.                    *)
LEMMA NoticeMoves ==
  ASSUME MarketInv, NEW c \in Notices, NEW n \in NoticeStates,
         n = NoNotice \/ (n.step # "idle" /\ n.sale \in DOMAIN sales),
         notice' = [notice EXCEPT ![c] = n],
         UNCHANGED <<sales, orders>>
  PROVE  /\ notice' \in [Notices -> NoticeStates]
         /\ OfASale' /\ OneLineEach'
         /\ notice'[c] = n /\ \A d \in Notices \ {c} : notice'[d] = notice[d]
<1>1. /\ notice' \in [Notices -> NoticeStates]
      /\ notice'[c] = n /\ \A d \in Notices \ {c} : notice'[d] = notice[d]
  BY DEF MarketInv, MarketplacesTypeOK
<1>2. OfASale'
  BY <1>1, NoNoticeTyped DEF MarketInv, OfASale
<1>3. OneLineEach'
  BY DEF MarketInv, OneLineEach
<1> QED
  BY <1>1, <1>2, <1>3

-----------------------------------------------------------------------------
(* NOTICES *)

LEMMA SaleIds == ASSUME MarketInv, NEW s \in DOMAIN sales PROVE s \in 1..MaxSales
BY MarketplacesAssumption DEF MarketInv, MarketplacesTypeOK

(* What a fetched notice knows of its sale.                                 *)
LEMMA Fetched ==
  ASSUME MarketInv, NEW c \in Notices, NEW s \in DOMAIN sales, NEW statuses, NEW paid,
         Fetch(c, s, statuses, paid)
  PROVE  /\ MarketInv' /\ notice[c].step = "idle"
         /\ notice'[c].step = "fetched" /\ notice'[c].sale = s
         /\ \A d \in Notices \ {c} : notice'[d] = notice[d]
         /\ KeepShop /\ UNCHANGED <<shelf, sales, orders, pushes, told>>
<1>1. \E b \in BOOLEAN : notice' = [notice EXCEPT ![c] =
                            [NoNotice EXCEPT !.step = "fetched", !.sale = s, !.paid = b]]
  <2>1. PICK status \in statuses :
          notice' = [notice EXCEPT ![c] = [NoNotice EXCEPT !.step = "fetched",
                                             !.sale = s, !.paid = status \in paid]]
    BY DEF Fetch
  <2> WITNESS (status \in paid) \in BOOLEAN
  <2> QED
    BY <2>1, Zenon
<1> PICK b \in BOOLEAN : notice' = [notice EXCEPT ![c] =
                            [NoNotice EXCEPT !.step = "fetched", !.sale = s, !.paid = b]]
  BY <1>1
<1>2. PICK n : /\ n = [NoNotice EXCEPT !.step = "fetched", !.sale = s, !.paid = b]
               /\ notice' = [notice EXCEPT ![c] = n]
  OBVIOUS
<1>3. n \in NoticeStates /\ n.step = "fetched" /\ n.sale = s
  <2>1. /\ n.step = "fetched" /\ n.sale = s /\ n.paid = b
        /\ n.picked = NoNotice.picked /\ n.toTell = NoNotice.toTell
        /\ n = [step |-> n.step, sale |-> n.sale, paid |-> n.paid,
                picked |-> n.picked, toTell |-> n.toTell]
    BY <1>2 DEF NoNotice
  <2>2. NoNotice.picked \in Seq(Sizes \X Units) /\ NoNotice.toTell \in SUBSET Sizes
    BY NoNoticeTyped DEF NoticeStates
  <2>3. s \in 0..MaxSales
    BY SaleIds, MarketplacesAssumption
  <2> QED
    BY <2>1, <2>2, <2>3 DEF NoticeStates, NoticeSteps
<1>4. notice' = [notice EXCEPT ![c] = n]
  BY <1>2
<1>5. KeepShop /\ UNCHANGED <<shelf, sales, orders, pushes, told>>
  BY DEF Fetch
<1>6. /\ notice' \in [Notices -> NoticeStates] /\ OfASale' /\ OneLineEach'
      /\ notice'[c] = n /\ \A d \in Notices \ {c} : notice'[d] = notice[d]
  BY <1>3, <1>4, <1>5, NoticeMoves
<1>7. MarketInv'
  BY <1>5, <1>6 DEF MarketInv, MarketplacesTypeOK, KeepShop, KeepOffers
<1> QED
  BY <1>3, <1>5, <1>6, <1>7 DEF Fetch, InHand

LEMMA NotifiedStep ==
  ASSUME MarketInv, NEW c \in Notices, NEW s \in DOMAIN sales,
         MeliNotified(c, s) \/ ShopeeNotified(c, s) \/ AmazonNotified(c, s)
  PROVE  /\ MarketInv' /\ notice[c].step = "idle"
         /\ notice'[c].step = "fetched" /\ notice'[c].sale = s
         /\ \A d \in Notices \ {c} : notice'[d] = notice[d]
         /\ KeepShop /\ UNCHANGED <<shelf, sales, orders, pushes, told>>
<1>1. CASE MeliNotified(c, s)
  BY <1>1, Fetched DEF MeliNotified
<1>2. CASE ShopeeNotified(c, s)
  BY <1>2, Fetched DEF ShopeeNotified
<1>3. CASE AmazonNotified(c, s)
  BY <1>3, Fetched DEF AmazonNotified
<1> QED
  BY <1>1, <1>2, <1>3

LEMMA MatchesOf ==
  ASSUME MarketInv, NEW c \in Notices, NEW ls \in SUBSET SaleLines
  PROVE  /\ Picks(ls, MeliMatches) \subseteq Seq(Sizes \X Units)
         /\ Picks(ls, ShopeeMatches) \subseteq Seq(Sizes \X Units)
         /\ Picks(ls, AmazonMatches) \subseteq Seq(Sizes \X Units)
<1>1. ASSUME NEW p \in Picks(ls, MeliMatches) PROVE p \in Seq(Sizes \X Units)
  <2>1. PICK kept : kept = {l \in ls : MeliMatches(l) # {}}
    OBVIOUS
  <2>2. p \in [1..Cardinality(kept) -> Sizes \X Units]
    BY <1>1, <2>1 DEF Picks
  <2> QED
    BY <2>1, <2>2, PickedTyped
<1>2. ASSUME NEW p \in Picks(ls, ShopeeMatches) PROVE p \in Seq(Sizes \X Units)
  <2>1. PICK kept : kept = {l \in ls : ShopeeMatches(l) # {}}
    OBVIOUS
  <2>2. p \in [1..Cardinality(kept) -> Sizes \X Units]
    BY <1>2, <2>1 DEF Picks
  <2> QED
    BY <2>1, <2>2, PickedTyped
<1>3. ASSUME NEW p \in Picks(ls, AmazonMatches) PROVE p \in Seq(Sizes \X Units)
  <2>1. PICK kept : kept = {l \in ls : AmazonMatches(l) # {}}
    OBVIOUS
  <2>2. p \in [1..Cardinality(kept) -> Sizes \X Units]
    BY <1>3, <2>1 DEF Picks
  <2> QED
    BY <2>1, <2>2, PickedTyped
<1> QED
  BY <1>1, <1>2, <1>3

(* The lookup, whatever its channel's lines match: the notice is dropped or *)
(* goes on, for a sale nobody imported yet, with what it is charged to.     *)
LEMMA PickCases ==
  ASSUME MarketInv, NEW c \in Notices,
         MeliPick(c) \/ ShopeePick(c) \/ AmazonPick(c)
  PROVE  /\ notice[c].step = "fetched"
         /\ KeepOffers /\ UNCHANGED <<shelf, sales, orders, pushes, told>>
         /\ \/ notice' = [notice EXCEPT ![c] = NoNotice] /\ UNCHANGED doubled
            \/ /\ Imported(notice[c].sale) = {}
               /\ \E picked \in Seq(Sizes \X Units) :
                    notice' = [notice EXCEPT ![c].step = "picked", ![c].picked = picked]
               /\ doubled' = IF PickedBeside(c, notice[c].sale)
                             THEN doubled \cup {notice[c].sale} ELSE doubled
<1>1. ASSUME notice[c].step = "fetched" PROVE SaleOf(c).lines \in SUBSET SaleLines
  BY <1>1, SaleOfNotice DEF SaleRows
<1>2. CASE MeliPick(c)
  BY <1>1, <1>2, MatchesOf DEF MeliPick, PickLines, SettleLines, InHand
<1>3. CASE ShopeePick(c)
  BY <1>1, <1>3, MatchesOf DEF ShopeePick, PickLines, SettleLines, InHand
<1>4. CASE AmazonPick(c)
  BY <1>1, <1>4, MatchesOf DEF AmazonPick, PickLines, SettleLines, InHand
<1> QED
  BY <1>2, <1>3, <1>4

LEMMA PickStep ==
  ASSUME MarketInv, NEW c \in Notices,
         MeliPick(c) \/ ShopeePick(c) \/ AmazonPick(c)
  PROVE  /\ MarketInv' /\ notice[c].step = "fetched"
         /\ \/ notice'[c] = NoNotice /\ UNCHANGED doubled
            \/ /\ Imported(notice[c].sale) = {}
               /\ notice'[c].step = "picked" /\ notice'[c].sale = notice[c].sale
               /\ doubled' = IF PickedBeside(c, notice[c].sale)
                             THEN doubled \cup {notice[c].sale} ELSE doubled
         /\ \A d \in Notices \ {c} : notice'[d] = notice[d]
         /\ KeepOffers /\ UNCHANGED <<shelf, sales, orders, pushes, told>>
<1>1. /\ notice[c].step = "fetched"
      /\ KeepOffers /\ UNCHANGED <<shelf, sales, orders, pushes, told>>
      /\ notice[c] \in NoticeStates
  BY PickCases DEF MarketInv, MarketplacesTypeOK
<1>2. doubled' \subseteq 1..MaxSales
  <2>1. notice[c].sale \in 1..MaxSales /\ doubled \subseteq 1..MaxSales
    BY <1>1, SaleOfNotice DEF MarketInv, MarketplacesTypeOK
  <2>2. doubled' \in {doubled, doubled \cup {notice[c].sale}}
    BY PickCases
  <2> QED
    BY <2>1, <2>2
<1>3. ASSUME NEW n \in NoticeStates, n = NoNotice \/ (n.step # "idle" /\ n.sale \in DOMAIN sales),
             notice' = [notice EXCEPT ![c] = n]
      PROVE  /\ MarketInv' /\ notice'[c] = n
             /\ \A d \in Notices \ {c} : notice'[d] = notice[d]
  <2>1. /\ notice' \in [Notices -> NoticeStates] /\ OfASale' /\ OneLineEach'
        /\ notice'[c] = n /\ \A d \in Notices \ {c} : notice'[d] = notice[d]
    BY <1>1, <1>3, NoticeMoves
  <2> QED
    BY <1>1, <1>2, <2>1 DEF MarketInv, MarketplacesTypeOK, KeepOffers
<1>4. CASE notice' = [notice EXCEPT ![c] = NoNotice] /\ UNCHANGED doubled
  BY <1>1, <1>3, <1>4, NoNoticeTyped
<1>5. ASSUME NEW picked \in Seq(Sizes \X Units),
             notice' = [notice EXCEPT ![c].step = "picked", ![c].picked = picked]
      PROVE  /\ MarketInv' /\ notice'[c].step = "picked" /\ notice'[c].sale = notice[c].sale
             /\ \A d \in Notices \ {c} : notice'[d] = notice[d]
  <2>1. PICK n : n = [notice[c] EXCEPT !.step = "picked", !.picked = picked]
    OBVIOUS
  <2>2. n \in NoticeStates /\ n.step = "picked" /\ n.sale = notice[c].sale
    BY <1>1, <2>1 DEF NoticeStates, NoticeSteps
  <2>3. n.sale \in DOMAIN sales
    BY <1>1, <2>2, SaleOfNotice
  <2>4. notice' = [notice EXCEPT ![c] = n]
    BY <1>5, <2>1
  <2> QED
    BY <1>3, <2>2, <2>3, <2>4
<1> QED
  BY <1>1, <1>4, <1>5, PickCases, NoNoticeTyped

-----------------------------------------------------------------------------
(* THE CATALOGUE, SALES, CASCADES AND PUSHES *)

(* Steps that leave sales, orders and notices alone.                        *)
LEMMA OtherRows ==
  ASSUME MarketInv, UNCHANGED <<sales, orders, notice>>
  PROVE  OfASale' /\ OneLineEach'
BY DEF MarketInv, OfASale, OneLineEach

(* The item of a publication is one more than the newest that is mapped.    *)
LEMMA NextItemIs ==
  ASSUME MarketInv, NEW ch \in Channels
  PROVE  NextItem(ch) \in 1..(MaxItems + 1)
<1>1. PICK T : T = {n \in 1..(MaxItems + 1) : \A m \in mapping : m.channel = ch => m.item < n}
  OBVIOUS
<1>2. \A m \in mapping : m.item \in 0..MaxItems
  BY DEF MarketInv, MarketplacesTypeOK, Mappings, Items
<1>3. T \in SUBSET Nat /\ MaxItems + 1 \in T
  BY <1>1, <1>2, MarketplacesAssumption
<1>4. PICK n \in T : \A k \in T : n <= k
  BY <1>3, LeastOf
<1>5. n = 1 \/ \E m \in mapping : m.channel = ch /\ m.item = n - 1
  <2> SUFFICES ASSUME n # 1 PROVE \E m \in mapping : m.channel = ch /\ m.item = n - 1
    OBVIOUS
  <2>1. n - 1 \in 1..(MaxItems + 1) /\ n - 1 \notin T /\ n \in 1..(MaxItems + 1)
    BY <1>1, <1>4, MarketplacesAssumption
  <2>2. PICK m \in mapping : m.channel = ch /\ ~(m.item < n - 1)
    BY <1>1, <2>1
  <2>3. m.item < n
    BY <1>1, <2>2
  <2>4. m.item = n - 1
    BY <1>2, <2>1, <2>2, <2>3
  <2> QED
    BY <2>2, <2>4
<1>6. \E k \in 1..(MaxItems + 1) :
        /\ \A m \in mapping : m.channel = ch => m.item < k
        /\ k = 1 \/ \E m \in mapping : m.channel = ch /\ m.item = k - 1
  BY <1>1, <1>4, <1>5
<1> QED
  BY <1>6 DEF NextItem

LEMMA PublishStep ==
  ASSUME MarketInv, NEW ch \in Channels, NEW item \in Int, item >= 0, PublishItem(ch, item)
  PROVE  MarketInv'
<1>1. item \in Items
  BY MarketplacesAssumption DEF PublishItem, MarketInv, MarketplacesTypeOK, Items
<1>2. publishing' \in [Channels -> [item: Items, left: SUBSET Sizes]]
  BY <1>1 DEF PublishItem, MarketInv, MarketplacesTypeOK, Active
<1>3. OfASale' /\ OneLineEach'
  BY OtherRows DEF PublishItem, KeepTrade
<1> QED
  BY <1>2, <1>3 DEF PublishItem, KeepTrade, MarketInv, MarketplacesTypeOK

LEMMA PublishSteps ==
  ASSUME MarketInv, MeliPublish \/ ShopeePublish \/ AmazonPublish
  PROVE  MarketInv' /\ KeepTrade
<1>1. ASSUME NEW ch, NEW item, PublishItem(ch, item) PROVE ch \in Channels /\ KeepTrade
  BY <1>1, MarketplacesAssumption DEF PublishItem, MarketInv, MarketplacesTypeOK
<1>2. CASE MeliPublish
  BY <1>1, <1>2, NextItemIs, PublishStep, MarketplacesAssumption DEF MeliPublish, MeliNewItem
<1>3. CASE ShopeePublish
  BY <1>1, <1>3, NextItemIs, PublishStep, MarketplacesAssumption
     DEF ShopeePublish, ShopeeNewItem
<1>4. CASE AmazonPublish
  BY <1>1, <1>4, PublishStep DEF AmazonPublish, AmazonSku
<1> QED
  BY <1>2, <1>3, <1>4

LEMMA MapStep ==
  ASSUME MarketInv, NEW ch \in Channels,
         (\E v \in Sizes : MapSize(ch, v)) \/ StopPublishing(ch)
  PROVE  MarketInv' /\ KeepTrade
<1>0. NotPublishing \in [item: Items, left: SUBSET Sizes]
  BY MarketplacesAssumption DEF NotPublishing, Items
<1>1. CASE StopPublishing(ch)
  <2>1. publishing' \in [Channels -> [item: Items, left: SUBSET Sizes]]
    BY <1>0, <1>1 DEF StopPublishing, MarketInv, MarketplacesTypeOK
  <2>2. OfASale' /\ OneLineEach'
    BY <1>1, OtherRows DEF StopPublishing, KeepTrade
  <2> QED
    BY <1>1, <2>1, <2>2 DEF StopPublishing, KeepTrade, MarketInv, MarketplacesTypeOK
<1>2. ASSUME NEW v \in Sizes, MapSize(ch, v) PROVE MarketInv' /\ KeepTrade
  <2>1. publishing[ch] \in [item: Items, left: SUBSET Sizes]
    BY DEF MarketInv, MarketplacesTypeOK
  <2>2. PICK p : p = [publishing[ch] EXCEPT !.left = publishing[ch].left \ {v}]
    OBVIOUS
  <2>3. p \in [item: Items, left: SUBSET Sizes]
    BY <2>1, <2>2
  <2>4. \/ publishing' = [publishing EXCEPT ![ch] = NotPublishing]
        \/ publishing' = [publishing EXCEPT ![ch] = p]
    <3>1. CASE offered[v] = "gone"
      BY <1>2, <3>1 DEF MapSize
    <3>2. CASE offered[v] # "gone" /\ publishing[ch].left = {v}
      BY <1>2, <3>2 DEF MapSize
    <3>3. CASE offered[v] # "gone" /\ publishing[ch].left # {v}
      BY <1>2, <2>2, <3>3 DEF MapSize
    <3> QED
      BY <3>1, <3>2, <3>3
  <2>5. publishing' \in [Channels -> [item: Items, left: SUBSET Sizes]]
    BY <1>0, <2>3, <2>4 DEF MarketInv, MarketplacesTypeOK
  <2>6. [channel |-> ch, item |-> publishing[ch].item, size |-> v, variant |-> v] \in Mappings
    BY <2>1 DEF Mappings
  <2>7. mapping' \in SUBSET Mappings
    BY <1>2, <2>6 DEF MapSize, MarketInv, MarketplacesTypeOK
  <2>8. OfASale' /\ OneLineEach'
    BY <1>2, OtherRows DEF MapSize, KeepTrade
  <2> QED
    BY <1>2, <2>5, <2>7, <2>8 DEF MapSize, KeepTrade, MarketInv, MarketplacesTypeOK
<1> QED
  BY <1>1, <1>2

LEMMA OfferStep ==
  ASSUME MarketInv, NEW v \in Sizes, ArchiveSize(v) \/ DeleteSize(v)
  PROVE  MarketInv' /\ KeepTrade
<1>1. KeepTrade
  BY DEF ArchiveSize, DeleteSize
<1>2. OfASale' /\ OneLineEach'
  BY <1>1, OtherRows DEF KeepTrade
<1>3. CASE ArchiveSize(v)
  BY <1>1, <1>2, <1>3 DEF ArchiveSize, KeepTrade, MarketInv, MarketplacesTypeOK
<1>4. CASE DeleteSize(v)
  BY <1>1, <1>2, <1>4 DEF DeleteSize, KeepTrade, MarketInv, MarketplacesTypeOK
<1> QED
  BY <1>3, <1>4

(* A sale is made: those that were keep their places.                       *)
LEMMA SoldStep ==
  ASSUME MarketInv, NEW ch \in Channels, NEW n \in 1..2,
         NEW ls \in kSubset(n, SaleLines), SellOn(ch, ls)
  PROVE  /\ MarketInv' /\ \A s \in DOMAIN sales : s \in DOMAIN sales' /\ sales'[s] = sales[s]
         /\ KeepShop /\ UNCHANGED <<shelf, orders, notice, pushes, told>>
<1>1. ls \in SUBSET SaleLines
  BY DEF kSubset
<1>2. [channel |-> ch, lines |-> ls] \in SaleRows
  BY <1>1 DEF SaleRows
<1>3. sales \in Seq(SaleRows) /\ Len(sales) \in Nat /\ DOMAIN sales = 1..Len(sales)
  BY DEF MarketInv, MarketplacesTypeOK
<1>4. sales' = Append(sales, [channel |-> ch, lines |-> ls])
  BY DEF SellOn
<1>5. /\ sales' \in Seq(SaleRows) /\ Len(sales') = Len(sales) + 1
      /\ DOMAIN sales' = 1..(Len(sales) + 1)
      /\ \A s \in 1..Len(sales) : sales'[s] = sales[s]
  BY <1>2, <1>3, <1>4
<1>6. Len(sales) < plan.sales /\ plan.sales <= MaxSales /\ plan.sales \in Nat
  BY MarketplacesAssumption DEF SellOn, MarketInv, MarketplacesTypeOK
<1>7. Len(sales') <= MaxSales
  BY <1>3, <1>5, <1>6, MarketplacesAssumption
<1>8. KeepShop /\ UNCHANGED <<shelf, orders, notice, pushes, told>>
  BY DEF SellOn
<1>9. OfASale' /\ OneLineEach'
  BY <1>3, <1>5, <1>8 DEF MarketInv, OfASale, OneLineEach
<1> QED
  BY <1>3, <1>5, <1>7, <1>8, <1>9 DEF MarketInv, MarketplacesTypeOK, KeepShop, KeepOffers

-----------------------------------------------------------------------------
(* THE IMPORT *)

(* The lines of the order a notice is charged to.                           *)
LinesOf(picked) == {OrderLine(picked[k]) : k \in DOMAIN picked}

LEMMA LinesTyped ==
  ASSUME NEW picked \in Seq(Sizes \X Units)
  PROVE  /\ LinesOf(picked) \in SUBSET OrderLines
         /\ \A l \in LinesOf(picked) : ~l.short => Taken(l.size, l.units)
         /\ OneLinePerSize(picked) =>
              \A l, m \in LinesOf(picked) : l.size = m.size => l = m
<1>1. ASSUME NEW k \in DOMAIN picked
      PROVE  /\ picked[k] \in Sizes \X Units
             /\ OrderLine(picked[k]) \in OrderLines
             /\ OrderLine(picked[k]).size = picked[k][1]
             /\ OrderLine(picked[k]).units = picked[k][2]
             /\ OrderLine(picked[k]).short = ~Taken(picked[k][1], picked[k][2])
  <2>1. picked[k] \in Sizes \X Units
    BY ElementOfSeq
  <2>2. (~Taken(picked[k][1], picked[k][2])) \in BOOLEAN
    OBVIOUS
  <2>3. PICK b \in BOOLEAN : b = ~Taken(picked[k][1], picked[k][2])
    BY <2>2
  <2>4. OrderLine(picked[k]) = [size |-> picked[k][1], units |-> picked[k][2], short |-> b]
    BY <2>3, Zenon DEF OrderLine
  <2>5. OrderLine(picked[k]) \in OrderLines
    BY <2>1, <2>4 DEF OrderLines
  <2>6. /\ OrderLine(picked[k]).size = picked[k][1]
        /\ OrderLine(picked[k]).units = picked[k][2]
        /\ OrderLine(picked[k]).short = b
    BY <2>4
  <2> QED
    BY <2>1, <2>3, <2>5, <2>6
<1>2. LinesOf(picked) \in SUBSET OrderLines
  BY <1>1 DEF LinesOf
<1>3. ASSUME NEW l \in LinesOf(picked), ~l.short PROVE Taken(l.size, l.units)
  BY <1>1, <1>3 DEF LinesOf
<1>4. ASSUME OneLinePerSize(picked), NEW l \in LinesOf(picked), NEW m \in LinesOf(picked),
             l.size = m.size
      PROVE  l = m
  <2>1. PICK j \in DOMAIN picked, k \in DOMAIN picked :
          l = OrderLine(picked[j]) /\ m = OrderLine(picked[k])
    BY DEF LinesOf
  <2>2. j = k
    BY <1>1, <1>4, <2>1 DEF OneLinePerSize
  <2> QED
    BY <2>1, <2>2
<1> QED
  BY <1>2, <1>3, <1>4

(* What the shelf keeps when the lines ls are taken from it.                *)
TakenFrom(ls) ==
  [v \in Sizes |-> IF \E l \in ls : l.size = v /\ ~l.short
                   THEN shelf[v] - (CHOOSE l \in ls : l.size = v).units
                   ELSE shelf[v]]

LEMMA ImportCases ==
  ASSUME MarketInv, NEW c \in Notices,
         MeliImport(c) \/ ShopeeImport(c) \/ AmazonImport(c)
  PROVE  /\ notice[c].step = "picked" /\ KeepShop /\ UNCHANGED <<sales, pushes, told>>
         /\ \/ /\ notice' = [notice EXCEPT ![c] = NoNotice]
               /\ UNCHANGED <<shelf, orders>>
            \/ /\ OneLinePerSize(notice[c].picked)
               /\ shelf' = TakenFrom(LinesOf(notice[c].picked))
               /\ orders' = Append(orders,
                    [sale |-> notice[c].sale,
                     status |-> IF notice[c].paid THEN "PAID" ELSE "CREATED",
                     lines |-> LinesOf(notice[c].picked)])
               /\ notice' = [notice EXCEPT ![c].step = "cascade",
                                           ![c].picked = <<>>,
                                           ![c].toTell = {l.size : l \in LinesOf(notice[c].picked)}]
<1>1. ImportSale(c)
  BY DEF MeliImport, ShopeeImport, AmazonImport
<1> QED
  BY <1>1 DEF ImportSale, InHand, LinesOf, TakenFrom

(* An import: every line on the order it makes, and what could be taken.    *)
ImportMade(c, ls, row) ==
  /\ ls \in SUBSET OrderLines /\ row \in OrderRows
  /\ row.sale = notice[c].sale /\ row.lines = ls /\ row.status # "CANCELLED"
  /\ orders' = Append(orders, row)
  /\ shelf' = TakenFrom(ls)
  /\ \A l, m \in ls : l.size = m.size => l = m
  /\ \A l \in ls : ~l.short => Taken(l.size, l.units)
  /\ notice'[c].step = "cascade" /\ notice'[c].sale = notice[c].sale
  /\ notice'[c].toTell = {l.size : l \in ls}
  /\ OfASale' /\ OneLineEach'

LEMMA OrdersGrow ==
  ASSUME MarketInv, NEW row \in OrderRows, orders' = Append(orders, row)
  PROVE  /\ orders \in Seq(OrderRows) /\ Len(orders) \in Nat /\ DOMAIN orders = 1..Len(orders)
         /\ orders' \in Seq(OrderRows) /\ DOMAIN orders' = 1..(Len(orders) + 1)
         /\ Len(orders') = Len(orders) + 1
         /\ orders'[Len(orders) + 1] = row
         /\ \A i \in DOMAIN orders : orders'[i] = orders[i] /\ i \in DOMAIN orders'
BY DEF MarketInv, MarketplacesTypeOK

LEMMA LeftOnShelf ==
  ASSUME MarketInv, NEW ls \in SUBSET OrderLines,
         \A l, m \in ls : l.size = m.size => l = m,
         \A l \in ls : ~l.short => Taken(l.size, l.units)
  PROVE  /\ TakenFrom(ls) \in [Sizes -> Nat]
         /\ \A l \in ls : TakenFrom(ls)[l.size] =
              IF l.short THEN shelf[l.size] ELSE shelf[l.size] - l.units
         /\ \A v \in Sizes : (\A l \in ls : l.size # v) => TakenFrom(ls)[v] = shelf[v]
<1>1. \A l \in ls : (CHOOSE m \in ls : m.size = l.size) = l
  <2> SUFFICES ASSUME NEW l \in ls PROVE (CHOOSE m \in ls : m.size = l.size) = l
    OBVIOUS
  <2>1. \E m \in ls : m.size = l.size
    OBVIOUS
  <2>2. (CHOOSE m \in ls : m.size = l.size) \in ls
        /\ (CHOOSE m \in ls : m.size = l.size).size = l.size
    BY <2>1
  <2> QED
    BY <2>2
<1>2. \A l \in ls : l.size \in Sizes /\ l.units \in Nat /\ l.units >= 1
  BY DEF OrderLines, Units
<1>3. \A l \in ls : TakenFrom(ls)[l.size] =
        IF l.short THEN shelf[l.size] ELSE shelf[l.size] - l.units
  <2> SUFFICES ASSUME NEW l \in ls
               PROVE  TakenFrom(ls)[l.size] =
                        IF l.short THEN shelf[l.size] ELSE shelf[l.size] - l.units
    OBVIOUS
  <2>1. CASE l.short
    <3>1. ~\E m \in ls : m.size = l.size /\ ~m.short
      BY <2>1
    <3> QED
      BY <1>2, <2>1, <3>1 DEF TakenFrom
  <2>2. CASE ~l.short
    <3>1. \E m \in ls : m.size = l.size /\ ~m.short
      BY <2>2
    <3> QED
      BY <1>1, <1>2, <2>2, <3>1 DEF TakenFrom
  <2> QED
    BY <2>1, <2>2
<1>4. \A v \in Sizes : (\A l \in ls : l.size # v) => TakenFrom(ls)[v] = shelf[v]
  BY DEF TakenFrom
<1>5. ASSUME NEW v \in Sizes PROVE TakenFrom(ls)[v] \in Nat
  <2>1. shelf[v] \in Nat
    BY DEF MarketInv, MarketplacesTypeOK
  <2>2. CASE \E l \in ls : l.size = v
    <3>1. PICK l \in ls : l.size = v
      BY <2>2
    <3>2. CASE l.short
      BY <1>3, <2>1, <3>1, <3>2
    <3>3. CASE ~l.short
      <4>1. shelf[v] >= l.units
        BY <3>1, <3>3 DEF Taken
      <4>2. TakenFrom(ls)[v] = shelf[v] - l.units
        BY <1>3, <3>1, <3>3
      <4> QED
        BY <1>2, <2>1, <3>1, <4>1, <4>2
    <3> QED
      BY <3>2, <3>3
  <2>3. CASE \A l \in ls : l.size # v
    BY <1>4, <2>1, <2>3
  <2> QED
    BY <2>2, <2>3
<1>6. TakenFrom(ls) = [v \in Sizes |-> TakenFrom(ls)[v]]
  BY DEF TakenFrom
<1> QED
  BY <1>3, <1>4, <1>5, <1>6

LEMMA ImportDone ==
  ASSUME MarketInv, NEW c \in Notices, notice[c].step = "picked", KeepShop,
         UNCHANGED <<sales, pushes, told>>,
         OneLinePerSize(notice[c].picked),
         NEW ls, ls = LinesOf(notice[c].picked),
         shelf' = TakenFrom(ls),
         orders' = Append(orders, [sale |-> notice[c].sale,
                                   status |-> IF notice[c].paid THEN "PAID" ELSE "CREATED",
                                   lines |-> ls]),
         notice' = [notice EXCEPT ![c].step = "cascade", ![c].picked = <<>>,
                                  ![c].toTell = {l.size : l \in ls}]
  PROVE  /\ MarketInv' /\ \E row \in OrderRows : ImportMade(c, ls, row)
         /\ \A d \in Notices \ {c} : notice'[d] = notice[d]
<1>1. /\ notice[c] \in NoticeStates /\ notice[c].picked \in Seq(Sizes \X Units)
      /\ notice[c].sale \in DOMAIN sales /\ notice[c].sale \in 1..MaxSales
  BY SaleOfNotice DEF MarketInv, MarketplacesTypeOK, NoticeStates
<1>2. /\ ls \in SUBSET OrderLines
      /\ \A l \in ls : ~l.short => Taken(l.size, l.units)
      /\ \A l, m \in ls : l.size = m.size => l = m
  BY <1>1, LinesTyped
<1>3. PICK row : row = [sale |-> notice[c].sale,
                        status |-> IF notice[c].paid THEN "PAID" ELSE "CREATED",
                        lines |-> ls]
  OBVIOUS
<1>4. /\ row \in OrderRows /\ row.sale = notice[c].sale /\ row.lines = ls
      /\ row.status # "CANCELLED"
  BY <1>1, <1>2, <1>3 DEF OrderRows
<1>5. orders' = Append(orders, row)
  BY <1>3
<1>6. PICK n : n = [notice[c] EXCEPT !.step = "cascade", !.picked = <<>>,
                                     !.toTell = {l.size : l \in ls}]
  OBVIOUS
<1>7. /\ n.step = "cascade" /\ n.sale = notice[c].sale /\ n.toTell = {l.size : l \in ls}
      /\ n.picked = <<>> /\ n.paid = notice[c].paid
      /\ n = [step |-> n.step, sale |-> n.sale, paid |-> n.paid, picked |-> n.picked,
              toTell |-> n.toTell]
  BY <1>1, <1>6 DEF NoticeStates
<1>8. n \in NoticeStates
  <2>1. {l.size : l \in ls} \in SUBSET Sizes
    BY <1>2 DEF OrderLines
  <2>2. << >> \in Seq(Sizes \X Units)
    BY EmptySeq
  <2>3. notice[c].paid \in BOOLEAN /\ notice[c].sale \in 0..MaxSales
    BY <1>1 DEF NoticeStates
  <2> QED
    BY <1>7, <2>1, <2>2, <2>3 DEF NoticeStates, NoticeSteps
<1>9. /\ notice' \in [Notices -> NoticeStates]
      /\ notice'[c] = n /\ \A d \in Notices \ {c} : notice'[d] = notice[d]
  <2>1. notice \in [Notices -> NoticeStates]
    BY DEF MarketInv, MarketplacesTypeOK
  <2>2. notice' = [notice EXCEPT ![c] = n]
    BY <1>6, <2>1
  <2>3. notice' \in [Notices -> NoticeStates]
    BY <1>8, <2>1, <2>2
  <2>4. notice'[c] = n /\ \A d \in Notices \ {c} : notice'[d] = notice[d]
    BY <2>1, <2>2
  <2> QED
    BY <2>3, <2>4
<1>10. /\ orders' \in Seq(OrderRows) /\ DOMAIN orders' = 1..(Len(orders) + 1)
       /\ DOMAIN orders = 1..Len(orders) /\ Len(orders) \in Nat
       /\ orders'[Len(orders) + 1] = row
       /\ \A i \in DOMAIN orders : orders'[i] = orders[i]
  BY <1>4, <1>5, OrdersGrow
<1>11. OfASale'
  <2>1. \A i \in DOMAIN orders' : orders'[i].sale \in DOMAIN sales
    <3> SUFFICES ASSUME NEW i \in DOMAIN orders' PROVE orders'[i].sale \in DOMAIN sales
      OBVIOUS
    <3>1. CASE i \in DOMAIN orders
      BY <1>10, <3>1 DEF MarketInv, OfASale
    <3>2. CASE i = Len(orders) + 1
      BY <1>1, <1>4, <1>10, <3>2
    <3> QED
      BY <1>10, <3>1, <3>2
  <2>2. \A d \in Notices : IF notice'[d].step = "idle" THEN notice'[d] = NoNotice
                           ELSE notice'[d].sale \in DOMAIN sales
    BY <1>1, <1>7, <1>9 DEF MarketInv, OfASale
  <2> QED
    BY <2>1, <2>2 DEF OfASale
<1>12. OneLineEach'
  <2> SUFFICES ASSUME NEW i \in DOMAIN orders'
               PROVE  \A l, m \in orders'[i].lines : l.size = m.size => l = m
    BY DEF OneLineEach
  <2>1. CASE i \in DOMAIN orders
    BY <1>10, <2>1 DEF MarketInv, OneLineEach
  <2>2. CASE i = Len(orders) + 1
    BY <1>2, <1>4, <1>10, <2>2
  <2> QED
    BY <1>10, <2>1, <2>2
<1>13. shelf' \in [Sizes -> Nat]
  BY <1>2, LeftOnShelf
<1>14. MarketInv'
  BY <1>9, <1>10, <1>11, <1>12, <1>13 DEF MarketInv, MarketplacesTypeOK, KeepShop, KeepOffers
<1>15. ImportMade(c, ls, row)
  BY <1>2, <1>4, <1>5, <1>7, <1>9, <1>11, <1>12 DEF ImportMade
<1> QED
  BY <1>4, <1>9, <1>14, <1>15

LEMMA ImportStep ==
  ASSUME MarketInv, NEW c \in Notices,
         MeliImport(c) \/ ShopeeImport(c) \/ AmazonImport(c)
  PROVE  /\ MarketInv' /\ notice[c].step = "picked"
         /\ KeepShop /\ UNCHANGED <<sales, pushes, told>>
         /\ \/ notice'[c] = NoNotice /\ UNCHANGED <<shelf, orders>>
            \/ \E ls \in SUBSET OrderLines, row \in OrderRows : ImportMade(c, ls, row)
         /\ \A d \in Notices \ {c} : notice'[d] = notice[d]
<1>1. /\ notice[c].step = "picked" /\ KeepShop /\ UNCHANGED <<sales, pushes, told>>
  BY ImportCases
<1>2. CASE notice' = [notice EXCEPT ![c] = NoNotice] /\ UNCHANGED <<shelf, orders>>
  <2>1. /\ notice' \in [Notices -> NoticeStates] /\ OfASale' /\ OneLineEach'
        /\ notice'[c] = NoNotice /\ \A d \in Notices \ {c} : notice'[d] = notice[d]
    BY <1>1, <1>2, NoticeMoves, NoNoticeTyped
  <2>2. MarketInv'
    BY <1>1, <1>2, <2>1 DEF MarketInv, MarketplacesTypeOK, KeepShop, KeepOffers
  <2> QED
    BY <1>1, <1>2, <2>1, <2>2
<1>3. CASE ~(notice' = [notice EXCEPT ![c] = NoNotice] /\ UNCHANGED <<shelf, orders>>)
  <2>1. PICK ls : ls = LinesOf(notice[c].picked)
    OBVIOUS
  <2>2. /\ MarketInv' /\ \E row \in OrderRows : ImportMade(c, ls, row)
        /\ \A d \in Notices \ {c} : notice'[d] = notice[d]
    BY <1>1, <1>3, <2>1, ImportCases, ImportDone
  <2> QED
    BY <1>1, <2>2 DEF ImportMade
<1> QED
  BY <1>2, <1>3

-----------------------------------------------------------------------------
(* CASCADES, PUSHES, CANCELLATIONS AND RESTARTS *)

(* The cascade of a size sends it to every channel but the sale's own.      *)
LEMMA CascadeCases ==
  ASSUME MarketInv, NEW c \in Notices, NEW v \in Sizes,
         MeliCascade(c, v) \/ ShopeeCascade(c, v) \/ AmazonCascade(c, v)
  PROVE  \E others \in SUBSET Channels :
           /\ others = Channels \ {SaleOf(c).channel}
           /\ notice[c].step = "cascade" /\ v \in notice[c].toTell
           /\ KeepShop /\ UNCHANGED <<shelf, sales, orders, told>>
           /\ pushes' = pushes \cup {[to |-> ch, size |-> v, asOf |-> Len(orders)] :
                                       ch \in others}
           /\ notice' = [notice EXCEPT ![c] =
                IF notice[c].toTell = {v} THEN NoNotice
                ELSE [notice[c] EXCEPT !.toTell = notice[c].toTell \ {v}]]
<1>1. ASSUME NEW S, Cascade(c, v, S), S \cap Channels = Channels \ {SaleOf(c).channel}
      PROVE  \E others \in SUBSET Channels :
               /\ others = Channels \ {SaleOf(c).channel}
               /\ notice[c].step = "cascade" /\ v \in notice[c].toTell
               /\ KeepShop /\ UNCHANGED <<shelf, sales, orders, told>>
               /\ pushes' = pushes \cup {[to |-> ch, size |-> v, asOf |-> Len(orders)] :
                                           ch \in others}
               /\ notice' = [notice EXCEPT ![c] =
                    IF notice[c].toTell = {v} THEN NoNotice
                    ELSE [notice[c] EXCEPT !.toTell = notice[c].toTell \ {v}]]
  <2> WITNESS S \cap Channels \in SUBSET Channels
  <2> QED
    BY <1>1 DEF Cascade, InHand
<1>2. CASE MeliCascade(c, v)
  <2>1. {"SHOPEE", "AMAZON"} \cap Channels = Channels \ {SaleOf(c).channel}
    BY <1>2, MarketplacesAssumption DEF MeliCascade
  <2> QED
    BY <1>1, <1>2, <2>1 DEF MeliCascade
<1>3. CASE ShopeeCascade(c, v)
  <2>1. {"MERCADO_LIVRE", "AMAZON"} \cap Channels = Channels \ {SaleOf(c).channel}
    BY <1>3, MarketplacesAssumption DEF ShopeeCascade
  <2> QED
    BY <1>1, <1>3, <2>1 DEF ShopeeCascade
<1>4. CASE AmazonCascade(c, v)
  <2>1. {"MERCADO_LIVRE", "SHOPEE"} \cap Channels = Channels \ {SaleOf(c).channel}
    BY <1>4, MarketplacesAssumption DEF AmazonCascade
  <2> QED
    BY <1>1, <1>4, <2>1 DEF AmazonCascade
<1> QED
  BY <1>2, <1>3, <1>4

LEMMA CascadeStep ==
  ASSUME MarketInv, NEW c \in Notices, NEW v \in Sizes,
         MeliCascade(c, v) \/ ShopeeCascade(c, v) \/ AmazonCascade(c, v)
  PROVE  /\ MarketInv'
         /\ notice[c].step = "cascade" /\ v \in notice[c].toTell
         /\ KeepShop /\ UNCHANGED <<shelf, sales, orders, told>>
         /\ pushes \subseteq pushes'
         /\ \A ch \in Channels : ch # SaleOf(c).channel =>
              \E p \in pushes' : p.to = ch /\ p.size = v /\ p.asOf = Len(orders)
         /\ \/ notice'[c] = NoNotice /\ notice[c].toTell = {v}
            \/ /\ notice'[c].step = "cascade" /\ notice'[c].sale = notice[c].sale
               /\ notice'[c].toTell = notice[c].toTell \ {v}
         /\ \A d \in Notices \ {c} : notice'[d] = notice[d]
<1>1. PICK others \in SUBSET Channels :
           /\ others = Channels \ {SaleOf(c).channel}
           /\ notice[c].step = "cascade" /\ v \in notice[c].toTell
           /\ KeepShop /\ UNCHANGED <<shelf, sales, orders, told>>
           /\ pushes' = pushes \cup {[to |-> ch, size |-> v, asOf |-> Len(orders)] :
                                       ch \in others}
           /\ notice' = [notice EXCEPT ![c] =
                IF notice[c].toTell = {v} THEN NoNotice
                ELSE [notice[c] EXCEPT !.toTell = notice[c].toTell \ {v}]]
  BY CascadeCases, Zenon
<1>2. notice[c] \in NoticeStates /\ notice[c].sale \in DOMAIN sales
  BY <1>1, SaleOfNotice DEF MarketInv, MarketplacesTypeOK
<1>3. PICK n : /\ notice' = [notice EXCEPT ![c] = n]
               /\ n = IF notice[c].toTell = {v} THEN NoNotice
                      ELSE [notice[c] EXCEPT !.toTell = notice[c].toTell \ {v}]
  BY <1>1
<1>4. /\ n \in NoticeStates /\ (n = NoNotice \/ (n.step # "idle" /\ n.sale \in DOMAIN sales))
      /\ \/ n = NoNotice /\ notice[c].toTell = {v}
         \/ /\ n.step = "cascade" /\ n.sale = notice[c].sale
            /\ n.toTell = notice[c].toTell \ {v}
  <2>1. CASE notice[c].toTell = {v}
    BY <1>3, <2>1, NoNoticeTyped
  <2>2. CASE notice[c].toTell # {v}
    <3>1. n = [notice[c] EXCEPT !.toTell = notice[c].toTell \ {v}]
      BY <1>3, <2>2
    <3>2. n \in NoticeStates
      BY <1>2, <3>1 DEF NoticeStates
    <3>3. n.step = "cascade" /\ n.sale = notice[c].sale /\ n.toTell = notice[c].toTell \ {v}
      BY <1>1, <1>2, <3>1 DEF NoticeStates
    <3> QED
      BY <1>2, <3>2, <3>3
  <2> QED
    BY <2>1, <2>2
<1>5. /\ notice' \in [Notices -> NoticeStates] /\ OfASale' /\ OneLineEach'
      /\ notice'[c] = n /\ \A d \in Notices \ {c} : notice'[d] = notice[d]
  BY <1>1, <1>3, <1>4, NoticeMoves
<1>6. Len(orders) \in Nat
  BY DEF MarketInv, MarketplacesTypeOK
<1>7. \A ch \in others : [to |-> ch, size |-> v, asOf |-> Len(orders)] \in Pushes
  BY <1>6 DEF Pushes
<1>8. pushes' \in SUBSET Pushes
  BY <1>1, <1>7 DEF MarketInv, MarketplacesTypeOK
<1>9. MarketInv'
  BY <1>1, <1>5, <1>8 DEF MarketInv, MarketplacesTypeOK, KeepShop, KeepOffers
<1>10. ASSUME NEW ch \in Channels, ch # SaleOf(c).channel
       PROVE  \E p \in pushes' : p.to = ch /\ p.size = v /\ p.asOf = Len(orders)
  <2>1. ch \in others
    BY <1>1, <1>10
  <2>2. PICK p : p = [to |-> ch, size |-> v, asOf |-> Len(orders)]
    OBVIOUS
  <2>3. p \in pushes'
    BY <1>1, <2>1, <2>2
  <2> QED
    BY <2>2, <2>3
<1> QED
  BY <1>1, <1>4, <1>5, <1>9, <1>10

LEMMA TellStep ==
  ASSUME MarketInv, MeliStock \/ ShopeeStock \/ AmazonStock
  PROVE  /\ MarketInv' /\ KeepShop /\ UNCHANGED <<shelf, sales, orders, notice>>
         /\ \A ch \in Channels, v \in Sizes : told[ch][v] <= told'[ch][v]
         /\ \A p \in pushes : p \in pushes' \/ told'[p.to][p.size] >= p.asOf
<1>1. PICK p \in pushes :
        /\ pushes' = pushes \ {p} /\ KeepShop /\ UNCHANGED <<shelf, sales, orders, notice>>
        /\ told' = [told EXCEPT ![p.to][p.size] = Max({told[p.to][p.size], p.asOf})]
  BY DEF MeliStock, ShopeeStock, AmazonStock, Tell
<1>2. /\ p.to \in Channels /\ p.size \in Sizes /\ p.asOf \in Nat
      /\ told \in [Channels -> [Sizes -> Nat]] /\ told[p.to][p.size] \in Nat
  BY DEF MarketInv, MarketplacesTypeOK, Pushes
<1>3. PICK m \in Nat : /\ m = Max({told[p.to][p.size], p.asOf})
                       /\ m >= told[p.to][p.size] /\ m >= p.asOf
  <2>1. \E x \in {told[p.to][p.size], p.asOf} :
          \A y \in {told[p.to][p.size], p.asOf} : x >= y
    BY <1>2
  <2> QED
    BY <1>2, <2>1 DEF Max
<1>4. told' = [told EXCEPT ![p.to][p.size] = m]
  BY <1>1, <1>3
<1>5. /\ told' \in [Channels -> [Sizes -> Nat]]
      /\ told'[p.to][p.size] = m
      /\ \A ch \in Channels, v \in Sizes : told'[ch][v] = m \/ told'[ch][v] = told[ch][v]
      /\ \A ch \in Channels, v \in Sizes :
           ch # p.to \/ v # p.size => told'[ch][v] = told[ch][v]
  BY <1>2, <1>4
<1>6. \A ch \in Channels, v \in Sizes : told[ch][v] <= told'[ch][v]
  BY <1>2, <1>3, <1>5
<1>7. OfASale' /\ OneLineEach'
  BY <1>1, OtherRows
<1>8. MarketInv'
  BY <1>1, <1>5, <1>7 DEF MarketInv, MarketplacesTypeOK, KeepShop, KeepOffers
<1>9. \A q \in pushes : q \in pushes' \/ told'[q.to][q.size] >= q.asOf
  BY <1>1, <1>3, <1>5
<1> QED
  BY <1>1, <1>6, <1>8, <1>9

(* What a cancellation changes of an order and of the shelf.                *)
LEMMA CancelStep ==
  ASSUME MarketInv, NEW i \in DOMAIN orders, CancelImport(i)
  PROVE  /\ MarketInv' /\ KeepShop /\ UNCHANGED <<sales, notice, pushes, told>>
         /\ DOMAIN orders' = DOMAIN orders /\ Len(orders') = Len(orders)
         /\ \A k \in DOMAIN orders : /\ orders'[k].sale = orders[k].sale
                                     /\ orders'[k].lines = orders[k].lines
         /\ orders[i].status = "CREATED" /\ orders'[i].status = "CANCELLED"
         /\ \A k \in DOMAIN orders \ {i} : orders'[k] = orders[k]
         /\ \A l \in orders[i].lines : shelf'[l.size] = shelf[l.size] + l.units
         /\ \A v \in Sizes : (\A l \in orders[i].lines : l.size # v) => shelf'[v] = shelf[v]
<1>1. /\ orders \in Seq(OrderRows) /\ Len(orders) \in Nat /\ DOMAIN orders = 1..Len(orders)
      /\ orders[i] \in OrderRows
  BY DEF MarketInv, MarketplacesTypeOK
<1>2. PICK q : q = [orders[i] EXCEPT !.status = "CANCELLED"]
  OBVIOUS
<1>3. /\ q \in OrderRows /\ q.sale = orders[i].sale /\ q.lines = orders[i].lines
      /\ q.status = "CANCELLED"
  BY <1>1, <1>2 DEF OrderRows
<1>4. orders' = [orders EXCEPT ![i] = q]
  BY <1>1, <1>2 DEF CancelImport
<1>5. /\ orders' \in Seq(OrderRows) /\ Len(orders') = Len(orders)
      /\ DOMAIN orders' = DOMAIN orders /\ orders'[i] = q
      /\ \A k \in DOMAIN orders \ {i} : orders'[k] = orders[k]
  BY <1>1, <1>3, <1>4, ExceptSeq
<1>6. PICK ls \in SUBSET OrderLines : ls = orders[i].lines
  BY <1>1 DEF OrderRows
<1>7. \A l \in ls : (CHOOSE m \in ls : m.size = l.size) = l
  <2> SUFFICES ASSUME NEW l \in ls PROVE (CHOOSE m \in ls : m.size = l.size) = l
    OBVIOUS
  <2>1. \E m \in ls : m.size = l.size
    OBVIOUS
  <2>2. (CHOOSE m \in ls : m.size = l.size) \in ls
        /\ (CHOOSE m \in ls : m.size = l.size).size = l.size
    BY <2>1
  <2> QED
    BY <1>6, <2>2 DEF MarketInv, OneLineEach
<1>8. \A l \in ls : l.size \in Sizes /\ l.units \in Nat
  BY DEF OrderLines, Units
<1>9. shelf' = [v \in Sizes |-> IF \E l \in ls : l.size = v
                                THEN shelf[v] + (CHOOSE l \in ls : l.size = v).units
                                ELSE shelf[v]]
  BY <1>6 DEF CancelImport
<1>10. \A l \in ls : shelf'[l.size] = shelf[l.size] + l.units
  BY <1>7, <1>8, <1>9
<1>11. \A v \in Sizes : (\A l \in ls : l.size # v) => shelf'[v] = shelf[v]
  BY <1>9
<1>12. shelf' \in [Sizes -> Nat]
  <2>1. ASSUME NEW v \in Sizes PROVE shelf'[v] \in Nat
    <3>1. shelf[v] \in Nat
      BY DEF MarketInv, MarketplacesTypeOK
    <3> QED
      BY <1>8, <1>10, <1>11, <3>1
  <2> QED
    BY <1>9, <2>1
<1>13. KeepShop /\ UNCHANGED <<sales, notice, pushes, told>> /\ orders[i].status = "CREATED"
  BY DEF CancelImport
<1>14. \A k \in DOMAIN orders : /\ orders'[k].sale = orders[k].sale
                                /\ orders'[k].lines = orders[k].lines
  BY <1>3, <1>5
<1>15. OfASale' /\ OneLineEach'
  BY <1>5, <1>13, <1>14 DEF MarketInv, OfASale, OneLineEach
<1>16. MarketInv'
  BY <1>5, <1>12, <1>13, <1>15 DEF MarketInv, MarketplacesTypeOK, KeepShop, KeepOffers
<1> QED
  BY <1>3, <1>5, <1>6, <1>10, <1>11, <1>13, <1>14, <1>16

LEMMA RestartStep ==
  ASSUME MarketInv, Restart
  PROVE  /\ MarketInv' /\ KeepShop /\ UNCHANGED <<shelf, sales, orders>>
         /\ \A c \in Notices : notice'[c] = NoNotice
         /\ \A ch \in Channels, v \in Sizes :
              told'[ch][v] = IF \/ \E p \in pushes : p.to = ch /\ p.size = v
                                \/ \E c \in Notices : v \in notice[c].toTell
                             THEN Len(orders) ELSE told[ch][v]
<1>1. /\ KeepShop /\ UNCHANGED <<shelf, sales, orders>>
      /\ notice' = [c \in Notices |-> NoNotice] /\ pushes' = {}
  BY DEF Restart
<1>2. \A ch \in Channels, v \in Sizes :
        told'[ch][v] = IF \/ \E p \in pushes : p.to = ch /\ p.size = v
                          \/ \E c \in Notices : v \in notice[c].toTell
                       THEN Len(orders) ELSE told[ch][v]
  BY DEF Restart
<1>3. told' \in [Channels -> [Sizes -> Nat]]
  <2>1. Len(orders) \in Nat /\ told \in [Channels -> [Sizes -> Nat]]
    BY DEF MarketInv, MarketplacesTypeOK
  <2> QED
    BY <2>1 DEF Restart
<1>4. OfASale' /\ OneLineEach'
  BY <1>1, NoNoticeTyped DEF MarketInv, OfASale, OneLineEach
<1>5. MarketInv'
  BY <1>1, <1>3, <1>4, NoNoticeTyped DEF MarketInv, MarketplacesTypeOK, KeepShop, KeepOffers
<1> QED
  BY <1>1, <1>2, <1>5

-----------------------------------------------------------------------------
(* EVERY STEP *)

LEMMA MarketInitial == MarketplacesInit => MarketInv
<1> SUFFICES ASSUME MarketplacesInit PROVE MarketInv
  OBVIOUS
<1>1. /\ sales \in Seq(SaleRows) /\ Len(sales) = 0 /\ DOMAIN sales = {}
      /\ orders \in Seq(OrderRows) /\ DOMAIN orders = {}
  <2>1. sales = << >> /\ orders = << >>
    BY DEF MarketplacesInit
  <2> QED
    BY <2>1, EmptySeq
<1>2. NotPublishing \in [item: Items, left: SUBSET Sizes]
  BY MarketplacesAssumption DEF NotPublishing, Items
<1>3. /\ shelf \in [Sizes -> Nat] /\ offered \in [Sizes -> {"active", "archived", "gone"}]
      /\ mapping \in SUBSET Mappings
      /\ publishing \in [Channels -> [item: Items, left: SUBSET Sizes]]
      /\ pushes \in SUBSET Pushes /\ told \in [Channels -> [Sizes -> Nat]] /\ plan \in Plans
      /\ doubled \subseteq 1..MaxSales
  BY <1>2, MarketplacesAssumption DEF MarketplacesInit
<1>4. notice \in [Notices -> NoticeStates] /\ \A c \in Notices : notice[c] = NoNotice
  BY NoNoticeTyped DEF MarketplacesInit
<1>5. Len(sales) <= MaxSales
  BY <1>1, MarketplacesAssumption
<1> QED
  BY <1>1, <1>3, <1>4, <1>5, NoNoticeTyped
     DEF MarketInv, MarketplacesTypeOK, OfASale, OneLineEach

LEMMA MarketStutter ==
  ASSUME MarketInv, UNCHANGED marketVars PROVE MarketInv'
BY DEF MarketInv, MarketplacesTypeOK, OfASale, OneLineEach, marketVars

LEMMA MarketStep ==
  ASSUME MarketInv, [MarketplacesNext]_marketVars PROVE MarketInv'
BY MarketStutter, PublishSteps, MapStep, SoldStep, OfferStep, NotifiedStep, PickStep,
   ImportStep, CascadeStep, TellStep, CancelStep, RestartStep, Zenon DEF MarketplacesNext

(* Every variable keeps its type, for any catalogue and any overlap of      *)
(* notices; whoever handles a notice handles that of a sale there is; and   *)
(* an order has one line of a size at most.                                 *)
THEOREM MarketsInvariant == MarketplacesSpec => []MarketInv
<1>1. MarketplacesInit => MarketInv
  BY MarketInitial
<1>2. MarketInv /\ [MarketplacesNext]_marketVars => MarketInv'
  BY MarketStep
<1> QED
  BY <1>1, <1>2, PTL DEF MarketplacesSpec

-----------------------------------------------------------------------------
(* A SALE IS IMPORTED ONCE *)

LEMMA OnceRows ==
  ASSUME OnceInv, UNCHANGED <<notice, doubled>>, DOMAIN orders' = DOMAIN orders,
         \A i \in DOMAIN orders : orders'[i].sale = orders[i].sale
  PROVE  OnceInv'
BY DEF OnceInv, InHand, Imported

(* A delivery begins, ends or goes on, and is not about to import.          *)
LEMMA OnceGoesOn ==
  ASSUME OnceInv, NEW c \in Notices, UNCHANGED <<orders, doubled>>,
         \A d \in Notices \ {c} : notice'[d] = notice[d],
         notice'[c].step # "picked"
  PROVE  OnceInv'
BY DEF OnceInv, InHand, Imported

(* A delivery found no order of its sale.                                   *)
LEMMA OncePicked ==
  ASSUME MarketInv, OnceInv, NEW c \in Notices,
         MeliPick(c) \/ ShopeePick(c) \/ AmazonPick(c)
  PROVE  OnceInv'
<1>1. UNCHANGED orders /\ \A d \in Notices \ {c} : notice'[d] = notice[d]
  BY PickStep
<1>2. CASE notice'[c] = NoNotice /\ UNCHANGED doubled
  BY <1>1, <1>2, OnceGoesOn, NoNoticeTyped
<1>3. ASSUME Imported(notice[c].sale) = {},
             notice'[c].step = "picked", notice'[c].sale = notice[c].sale,
             doubled' = IF PickedBeside(c, notice[c].sale)
                        THEN doubled \cup {notice[c].sale} ELSE doubled
      PROVE  OnceInv'
  <2>1. \A s : Imported(s)' = Imported(s)
    BY <1>1 DEF Imported
  <2>2. \A i, j \in DOMAIN orders' :
          orders'[i].sale = orders'[j].sale => i = j \/ orders'[i].sale \in doubled'
    BY <1>1, <1>3 DEF OnceInv
  <2>3. ASSUME NEW d \in Notices \ {c}, notice[d].step = "picked",
               notice[d].sale = notice[c].sale
        PROVE  notice[c].sale \in doubled'
    BY <1>3, <2>3 DEF PickedBeside, InHandOf, InHand
  <2>4. ASSUME NEW d \in Notices, notice'[d].step = "picked", notice'[d].sale \notin doubled'
        PROVE  /\ Imported(notice[d].sale)' = {}
               /\ \A e \in Notices :
                    notice'[e].step = "picked" /\ notice'[e].sale = notice'[d].sale => d = e
    <3>1. CASE d = c
      BY <1>1, <1>3, <2>1, <2>3, <2>4, <3>1
    <3>2. CASE d # c
      <4>1. notice'[d] = notice[d] /\ notice[d].sale \notin doubled
        BY <1>1, <1>3, <2>4, <3>2
      <4>2. notice[d].sale # notice[c].sale
        BY <2>3, <2>4, <3>2, <4>1
      <4> QED
        BY <1>1, <1>3, <2>1, <2>4, <4>1, <4>2 DEF OnceInv, InHand
    <3> QED
      BY <3>1, <3>2
  <2> QED
    BY <2>2, <2>4 DEF OnceInv, InHand
<1> QED
  BY <1>2, <1>3, PickStep

LEMMA OnceImported ==
  ASSUME MarketInv, OnceInv, NEW c \in Notices,
         MeliImport(c) \/ ShopeeImport(c) \/ AmazonImport(c)
  PROVE  OnceInv'
<1>1. /\ notice[c].step = "picked" /\ \A d \in Notices \ {c} : notice'[d] = notice[d]
      /\ UNCHANGED doubled
  BY ImportStep DEF KeepShop
<1>2. CASE notice'[c] = NoNotice /\ UNCHANGED orders
  BY <1>1, <1>2, OnceGoesOn, NoNoticeTyped
<1>3. ASSUME NEW ls \in SUBSET OrderLines, NEW row \in OrderRows, ImportMade(c, ls, row)
      PROVE  OnceInv'
  <2>1. /\ orders' = Append(orders, row) /\ row.sale = notice[c].sale
        /\ notice'[c].step = "cascade" /\ notice'[c].sale = notice[c].sale
    BY <1>3 DEF ImportMade
  <2>2. /\ DOMAIN orders = 1..Len(orders) /\ DOMAIN orders' = 1..(Len(orders) + 1)
        /\ Len(orders) \in Nat /\ orders'[Len(orders) + 1] = row
        /\ \A i \in DOMAIN orders : orders'[i] = orders[i] /\ i \in DOMAIN orders'
    BY <2>1, OrdersGrow
  <2>3. row.sale \in doubled \/ \A i \in DOMAIN orders : orders[i].sale # row.sale
    BY <1>1, <2>1 DEF OnceInv, InHand, Imported
  <2>4. \A i, j \in DOMAIN orders' :
          orders'[i].sale = orders'[j].sale => i = j \/ orders'[i].sale \in doubled'
    BY <1>1, <2>2, <2>3 DEF OnceInv
  <2>5. ASSUME NEW d \in Notices, notice'[d].step = "picked", notice'[d].sale \notin doubled'
        PROVE  /\ \A i \in DOMAIN orders' : orders'[i].sale # notice'[d].sale
               /\ \A e \in Notices :
                    notice'[e].step = "picked" /\ notice'[e].sale = notice'[d].sale => d = e
    <3>1. d # c /\ notice'[d] = notice[d]
      BY <1>1, <2>1, <2>5
    <3>2. notice[d].sale # notice[c].sale
      BY <1>1, <2>5, <3>1 DEF OnceInv, InHand
    <3>3. \A i \in DOMAIN orders : orders[i].sale # notice[d].sale
      BY <1>1, <2>5, <3>1 DEF OnceInv, InHand, Imported
    <3>4. \A i \in DOMAIN orders' : i \in DOMAIN orders \/ orders'[i] = row
      BY <2>2
    <3>5. \A e \in Notices :
            notice'[e].step = "picked" => e # c /\ notice'[e] = notice[e]
      BY <1>1, <2>1
    <3>6. \A e \in Notices :
            notice[e].step = "picked" /\ notice[e].sale = notice[d].sale => d = e
      BY <1>1, <2>5, <3>1 DEF OnceInv, InHand
    <3> QED
      BY <2>1, <2>2, <3>1, <3>2, <3>3, <3>4, <3>5, <3>6
  <2> QED
    BY <2>4, <2>5 DEF OnceInv, InHand, Imported
<1> QED
  BY <1>2, <1>3, ImportStep

LEMMA OnceOutside ==
  ASSUME MarketInv, OnceInv,
         \/ UNCHANGED marketVars
         \/ MeliPublish \/ ShopeePublish \/ AmazonPublish
         \/ \E ch \in Channels :
              \/ \E v \in Sizes : MapSize(ch, v)
              \/ StopPublishing(ch)
              \/ \E n \in 1..2 : \E ls \in kSubset(n, SaleLines) : SellOn(ch, ls)
         \/ \E v \in Sizes : ArchiveSize(v) \/ DeleteSize(v)
         \/ MeliStock \/ ShopeeStock \/ AmazonStock
         \/ \E i \in DOMAIN orders : CancelImport(i)
  PROVE  OnceInv'
<1>1. ASSUME UNCHANGED <<notice, orders, doubled>> PROVE OnceInv'
  BY <1>1, OnceRows
<1>2. ASSUME KeepTrade PROVE OnceInv'
  BY <1>1, <1>2 DEF KeepTrade
<1>3. ASSUME NEW i \in DOMAIN orders, CancelImport(i) PROVE OnceInv'
  BY <1>3, CancelStep, OnceRows DEF KeepShop
<1>4. CASE UNCHANGED marketVars
  BY <1>1, <1>4 DEF marketVars
<1>5. CASE MeliPublish \/ ShopeePublish \/ AmazonPublish
  BY <1>2, <1>5, PublishSteps
<1>6. ASSUME NEW ch \in Channels, (\E v \in Sizes : MapSize(ch, v)) \/ StopPublishing(ch)
      PROVE  OnceInv'
  BY <1>2, <1>6, MapStep
<1>7. ASSUME NEW ch \in Channels, NEW n \in 1..2, NEW ls \in kSubset(n, SaleLines),
             SellOn(ch, ls)
      PROVE  OnceInv'
  BY <1>1, <1>7, SoldStep DEF KeepShop
<1>8. ASSUME NEW v \in Sizes, ArchiveSize(v) \/ DeleteSize(v) PROVE OnceInv'
  BY <1>2, <1>8, OfferStep
<1>9. CASE MeliStock \/ ShopeeStock \/ AmazonStock
  BY <1>1, <1>9, TellStep DEF KeepShop
<1> QED
  BY <1>3, <1>4, <1>5, <1>6, <1>7, <1>8, <1>9

LEMMA OnceStep ==
  ASSUME MarketInv, OnceInv, [MarketplacesNext]_marketVars PROVE OnceInv'
<1>1. ASSUME NEW c \in Notices, NEW s \in DOMAIN sales,
             MeliNotified(c, s) \/ ShopeeNotified(c, s) \/ AmazonNotified(c, s)
      PROVE  OnceInv'
  BY <1>1, NotifiedStep, OnceGoesOn DEF KeepShop
<1>2. ASSUME NEW c \in Notices, NEW v \in Sizes,
             MeliCascade(c, v) \/ ShopeeCascade(c, v) \/ AmazonCascade(c, v)
      PROVE  OnceInv'
  BY <1>2, CascadeStep, OnceGoesOn, NoNoticeTyped DEF KeepShop
<1>3. ASSUME Restart PROVE OnceInv'
  <2>1. UNCHANGED <<orders, doubled>> /\ \A c \in Notices : notice'[c] = NoNotice
    BY <1>3, RestartStep DEF KeepShop
  <2> QED
    BY <2>1, NoNoticeTyped DEF OnceInv, InHand
<1> QED
  BY <1>1, <1>2, <1>3, OncePicked, OnceImported, OnceOutside, Zenon DEF MarketplacesNext

(* A sale becomes at most one order, however often it is notified, on       *)
(* however many channels, and wherever the process dies - unless two        *)
(* notices of it looked it up before either had imported it: the lookup by  *)
(* (channel, external id) of the three webhook handlers.                    *)
THEOREM SalesImportedOnce == MarketplacesSpec => []ImportedOnce
<1>1. MarketplacesInit => MarketInv /\ OnceInv
  <2>1. MarketplacesInit => OnceInv
    BY NoNoticeTyped DEF MarketplacesInit, OnceInv, InHand
  <2> QED
    BY <2>1, MarketInitial
<1>2. MarketInv /\ OnceInv /\ [MarketplacesNext]_marketVars => MarketInv' /\ OnceInv'
  BY MarketStep, OnceStep
<1>3. MarketInv /\ OnceInv => ImportedOnce
  <2> SUFFICES ASSUME OnceInv, NEW s \in DOMAIN sales \ doubled
               PROVE  Cardinality(Imported(s)) <= 1
    BY DEF ImportedOnce
  <2>1. \A i, j \in Imported(s) : i = j
    BY DEF OnceInv, Imported
  <2>2. CASE Imported(s) = {}
    <3>1. Cardinality({}) = 0
      BY FS_EmptySet
    <3> QED
      BY <2>2, <3>1
  <2>3. CASE Imported(s) # {}
    <3>1. PICK i : Imported(s) = {i}
      BY <2>1, <2>3
    <3>2. Cardinality({i}) = 1
      BY FS_Singleton
    <3> QED
      BY <3>1, <3>2
  <2> QED
    BY <2>2, <2>3
<1> QED
  BY <1>1, <1>2, <1>3, PTL DEF MarketplacesSpec

-----------------------------------------------------------------------------
(* EVERY IMPORT IS TOLD *)

(* Orders stay as they are but for their status, sales stay too, and what   *)
(* was or would be told is or would be told still.                          *)
LEMMA ToldStays ==
  ASSUME MarketInv, ToldInv, DOMAIN orders' = DOMAIN orders,
         \A i \in DOMAIN orders : /\ orders'[i].sale = orders[i].sale
                                  /\ orders'[i].lines = orders[i].lines,
         \A s \in DOMAIN sales : sales'[s] = sales[s],
         \A ch \in Channels, v \in Sizes, i \in DOMAIN orders :
           TellsOf(ch, v, i) => TellsOf(ch, v, i)'
  PROVE  ToldInv'
<1>1. \A i \in DOMAIN orders : /\ orders[i].sale \in DOMAIN sales
                               /\ \A l \in orders[i].lines : l.size \in Sizes
  <2>1. \A i \in DOMAIN orders : orders[i] \in OrderRows
    BY ElementOfSeq, LenProperties DEF MarketInv, MarketplacesTypeOK
  <2>2. \A row \in OrderRows : \A l \in row.lines : l.size \in Sizes
    BY DEF OrderRows, OrderLines
  <2> QED
    BY <2>1, <2>2 DEF MarketInv, OfASale
<1> QED
  BY <1>1 DEF ToldInv

(* The same, when a delivery that tells nothing ends or goes on.            *)
LEMMA ToldGoesOn ==
  ASSUME MarketInv, ToldInv, NEW c \in Notices, UNCHANGED <<orders, sales, told, pushes>>,
         notice[c].step # "cascade", \A d \in Notices \ {c} : notice'[d] = notice[d]
  PROVE  ToldInv'
<1>1. \A ch \in Channels, v \in Sizes, i \in DOMAIN orders :
        TellsOf(ch, v, i) => TellsOf(ch, v, i)'
  BY DEF TellsOf, InHand, SaleOf
<1> QED
  BY <1>1, ToldStays

LEMMA ToldOutside ==
  ASSUME MarketInv, ToldInv,
         \/ UNCHANGED marketVars
         \/ MeliPublish \/ ShopeePublish \/ AmazonPublish
         \/ \E ch \in Channels :
              \/ \E v \in Sizes : MapSize(ch, v)
              \/ StopPublishing(ch)
              \/ \E n \in 1..2 : \E ls \in kSubset(n, SaleLines) : SellOn(ch, ls)
         \/ \E v \in Sizes : ArchiveSize(v) \/ DeleteSize(v)
         \/ \E i \in DOMAIN orders : CancelImport(i)
  PROVE  ToldInv'
<1>1. ASSUME UNCHANGED <<notice, told, pushes>>, DOMAIN orders' = DOMAIN orders,
             \A i \in DOMAIN orders : /\ orders'[i].sale = orders[i].sale
                                      /\ orders'[i].lines = orders[i].lines,
             \A s \in DOMAIN sales : sales'[s] = sales[s]
      PROVE  ToldInv'
  <2>1. \A c \in Notices : InHand(c, "cascade") => SaleOf(c)' = SaleOf(c)
    BY <1>1, SaleOfNotice DEF InHand, SaleOf
  <2>2. \A ch \in Channels, v \in Sizes, i \in DOMAIN orders :
          TellsOf(ch, v, i) => TellsOf(ch, v, i)'
    BY <1>1, <2>1 DEF TellsOf, InHand
  <2> QED
    BY <1>1, <2>2, ToldStays
<1>2. ASSUME KeepTrade PROVE ToldInv'
  BY <1>1, <1>2 DEF KeepTrade
<1>3. ASSUME NEW i \in DOMAIN orders, CancelImport(i) PROVE ToldInv'
  BY <1>1, <1>3, CancelStep
<1>4. CASE UNCHANGED marketVars
  BY <1>1, <1>4 DEF marketVars
<1>5. CASE MeliPublish \/ ShopeePublish \/ AmazonPublish
  BY <1>2, <1>5, PublishSteps
<1>6. ASSUME NEW ch \in Channels, (\E v \in Sizes : MapSize(ch, v)) \/ StopPublishing(ch)
      PROVE  ToldInv'
  BY <1>2, <1>6, MapStep
<1>7. ASSUME NEW ch \in Channels, NEW n \in 1..2, NEW ls \in kSubset(n, SaleLines),
             SellOn(ch, ls)
      PROVE  ToldInv'
  BY <1>1, <1>7, SoldStep
<1>8. ASSUME NEW v \in Sizes, ArchiveSize(v) \/ DeleteSize(v) PROVE ToldInv'
  BY <1>2, <1>8, OfferStep
<1> QED
  BY <1>3, <1>4, <1>5, <1>6, <1>7, <1>8

LEMMA ToldTells ==
  ASSUME MarketInv, ToldInv, MeliStock \/ ShopeeStock \/ AmazonStock PROVE ToldInv'
<1>1. /\ UNCHANGED <<sales, orders, notice>>
      /\ \A ch \in Channels, v \in Sizes : told[ch][v] <= told'[ch][v]
      /\ \A p \in pushes : p \in pushes' \/ told'[p.to][p.size] >= p.asOf
      /\ MarketplacesTypeOK /\ MarketplacesTypeOK'
  BY TellStep DEF MarketInv
<1>2. ASSUME NEW ch \in Channels, NEW v \in Sizes, NEW i \in DOMAIN orders,
             TellsOf(ch, v, i)
      PROVE  TellsOf(ch, v, i)'
  <2>1. /\ i \in Int /\ told[ch][v] \in Nat /\ told'[ch][v] \in Nat
        /\ \A p \in pushes : p.asOf \in Nat
    BY <1>1 DEF MarketplacesTypeOK, Pushes
  <2>2. CASE told[ch][v] >= i
    <3>1. told'[ch][v] >= i
      BY <1>1, <2>1, <2>2
    <3> QED
      BY <3>1 DEF TellsOf
  <2>3. ASSUME NEW p \in pushes, p.to = ch, p.size = v, p.asOf >= i PROVE TellsOf(ch, v, i)'
    <3>1. p \in pushes' \/ told'[ch][v] >= i
      BY <1>1, <2>1, <2>3
    <3> QED
      BY <2>3, <3>1 DEF TellsOf
  <2>4. ASSUME NEW c \in Notices, InHand(c, "cascade"), v \in notice[c].toTell,
               SaleOf(c).channel # ch
        PROVE  TellsOf(ch, v, i)'
    BY <1>1, <2>4 DEF TellsOf, InHand, SaleOf
  <2> QED
    BY <1>2, <2>2, <2>3, <2>4 DEF TellsOf
<1> QED
  BY <1>1, <1>2, ToldStays

LEMMA ToldCascades ==
  ASSUME MarketInv, ToldInv, NEW c \in Notices, NEW w \in Sizes,
         MeliCascade(c, w) \/ ShopeeCascade(c, w) \/ AmazonCascade(c, w)
  PROVE  ToldInv'
<1>1. /\ UNCHANGED <<sales, orders, told>> /\ pushes \subseteq pushes'
      /\ \A ch \in Channels : ch # SaleOf(c).channel =>
           \E p \in pushes' : p.to = ch /\ p.size = w /\ p.asOf = Len(orders)
      /\ \/ notice'[c] = NoNotice /\ notice[c].toTell = {w}
         \/ /\ notice'[c].step = "cascade" /\ notice'[c].sale = notice[c].sale
            /\ notice'[c].toTell = notice[c].toTell \ {w}
      /\ \A d \in Notices \ {c} : notice'[d] = notice[d]
  BY CascadeStep
<1>2. ASSUME NEW ch \in Channels, NEW v \in Sizes, NEW i \in DOMAIN orders,
             TellsOf(ch, v, i)
      PROVE  TellsOf(ch, v, i)'
  <2>1. i \in 1..Len(orders) /\ Len(orders) \in Nat
    BY DEF MarketInv, MarketplacesTypeOK
  <2>2. CASE told[ch][v] >= i \/ \E p \in pushes : p.to = ch /\ p.size = v /\ p.asOf >= i
    BY <1>1, <2>2 DEF TellsOf
  <2>3. ASSUME NEW d \in Notices, InHand(d, "cascade"), v \in notice[d].toTell,
               SaleOf(d).channel # ch
        PROVE  TellsOf(ch, v, i)'
    <3>1. CASE d # c
      BY <1>1, <2>3, <3>1 DEF TellsOf, InHand, SaleOf
    <3>2. CASE d = c /\ v = w
      <4>1. PICK p \in pushes' : p.to = ch /\ p.size = v /\ p.asOf = Len(orders)
        BY <1>1, <2>3, <3>2
      <4>2. p.asOf >= i
        BY <2>1, <4>1
      <4> QED
        BY <4>1, <4>2 DEF TellsOf
    <3>3. CASE d = c /\ v # w
      BY <1>1, <2>3, <3>3 DEF TellsOf, InHand, SaleOf
    <3> QED
      BY <3>1, <3>2, <3>3
  <2> QED
    BY <1>2, <2>2, <2>3 DEF TellsOf
<1> QED
  BY <1>1, <1>2, ToldStays

LEMMA ToldImports ==
  ASSUME MarketInv, ToldInv, NEW c \in Notices,
         MeliImport(c) \/ ShopeeImport(c) \/ AmazonImport(c)
  PROVE  ToldInv'
<1>1. /\ notice[c].step = "picked" /\ UNCHANGED <<sales, pushes, told>>
      /\ \A d \in Notices \ {c} : notice'[d] = notice[d]
  BY ImportStep
<1>2. CASE UNCHANGED orders
  BY <1>1, <1>2, ToldGoesOn
<1>3. ASSUME NEW ls \in SUBSET OrderLines, NEW row \in OrderRows, ImportMade(c, ls, row)
      PROVE  ToldInv'
  <2>1. /\ orders' = Append(orders, row) /\ row.sale = notice[c].sale /\ row.lines = ls
        /\ notice'[c].step = "cascade" /\ notice'[c].sale = notice[c].sale
        /\ notice'[c].toTell = {l.size : l \in ls}
    BY <1>3 DEF ImportMade
  <2>2. /\ DOMAIN orders = 1..Len(orders) /\ DOMAIN orders' = 1..(Len(orders) + 1)
        /\ Len(orders) \in Nat /\ orders'[Len(orders) + 1] = row
        /\ \A i \in DOMAIN orders : orders'[i] = orders[i] /\ i \in DOMAIN orders'
    BY <2>1, OrdersGrow
  <2> SUFFICES ASSUME NEW i \in DOMAIN orders', NEW ch \in Channels,
                      ch # sales[orders'[i].sale].channel, NEW l \in orders'[i].lines
               PROVE  TellsOf(ch, l.size, i)'
    BY <1>1 DEF ToldInv
  <2>3. CASE i \in DOMAIN orders
    <3>1. TellsOf(ch, l.size, i)
      BY <2>2, <2>3 DEF ToldInv
    <3>2. \A d \in Notices : InHand(d, "cascade") => d # c
      BY <1>1 DEF InHand
    <3>3. ASSUME NEW d \in Notices, InHand(d, "cascade"), l.size \in notice[d].toTell,
                 SaleOf(d).channel # ch
          PROVE  TellsOf(ch, l.size, i)'
      BY <1>1, <3>2, <3>3 DEF TellsOf, InHand, SaleOf
    <3> QED
      BY <1>1, <3>1, <3>3 DEF TellsOf
  <2>4. CASE i = Len(orders) + 1
    <3>1. l \in ls /\ sales[notice[c].sale].channel # ch
      BY <2>1, <2>2, <2>4
    <3> QED
      BY <1>1, <2>1, <3>1 DEF TellsOf, InHand, SaleOf
  <2> QED
    BY <2>2, <2>3, <2>4
<1> QED
  BY <1>2, <1>3, ImportStep

LEMMA ToldRestarts == ASSUME MarketInv, ToldInv, Restart PROVE ToldInv'
<1>1. /\ UNCHANGED <<sales, orders>>
      /\ \A ch \in Channels, v \in Sizes :
           told'[ch][v] = IF \/ \E p \in pushes : p.to = ch /\ p.size = v
                             \/ \E c \in Notices : v \in notice[c].toTell
                          THEN Len(orders) ELSE told[ch][v]
  BY RestartStep
<1>2. ASSUME NEW ch \in Channels, NEW v \in Sizes, NEW i \in DOMAIN orders,
             TellsOf(ch, v, i)
      PROVE  TellsOf(ch, v, i)'
  <2>1. Len(orders) >= i
    BY DEF MarketInv, MarketplacesTypeOK
  <2>2. told'[ch][v] >= i
    BY <1>1, <1>2, <2>1 DEF TellsOf
  <2> QED
    BY <2>2 DEF TellsOf
<1>3. /\ DOMAIN orders' = DOMAIN orders /\ \A s \in DOMAIN sales : sales'[s] = sales[s]
      /\ \A i \in DOMAIN orders : /\ orders'[i].sale = orders[i].sale
                                  /\ orders'[i].lines = orders[i].lines
  BY <1>1
<1>4. \A ch \in Channels, v \in Sizes, i \in DOMAIN orders :
        TellsOf(ch, v, i) => TellsOf(ch, v, i)'
  BY <1>2
<1> QED
  BY <1>3, <1>4, ToldStays

LEMMA ToldStep ==
  ASSUME MarketInv, ToldInv, [MarketplacesNext]_marketVars PROVE ToldInv'
<1>1. ASSUME NEW c \in Notices, NEW s \in DOMAIN sales,
             MeliNotified(c, s) \/ ShopeeNotified(c, s) \/ AmazonNotified(c, s)
      PROVE  ToldInv'
  BY <1>1, NotifiedStep, ToldGoesOn
<1>2. ASSUME NEW c \in Notices, MeliPick(c) \/ ShopeePick(c) \/ AmazonPick(c) PROVE ToldInv'
  BY <1>2, PickStep, ToldGoesOn
<1> QED
  BY <1>1, <1>2, ToldOutside, ToldTells, ToldCascades, ToldImports, ToldRestarts, Zenon
     DEF MarketplacesNext

(* Once no cascade or push is under way every other channel was told the    *)
(* stock each import left, or something newer, unless the call was lost:    *)
(* in whatever order cascades, pushes and other imports came, and with any  *)
(* overlap of the notices.                                                  *)
THEOREM ImportsAreTold == MarketplacesSpec => []EveryImportIsTold
<1>1. MarketplacesInit => MarketInv /\ ToldInv
  <2>1. MarketplacesInit => ToldInv
    BY DEF MarketplacesInit, ToldInv
  <2> QED
    BY <2>1, MarketInitial
<1>2. MarketInv /\ ToldInv /\ [MarketplacesNext]_marketVars => MarketInv' /\ ToldInv'
  BY MarketStep, ToldStep
<1>3. MarketInv /\ ToldInv => EveryImportIsTold
  BY DEF ToldInv, TellsOf, EveryImportIsTold
<1> QED
  BY <1>1, <1>2, <1>3, PTL DEF MarketplacesSpec

-----------------------------------------------------------------------------
(* SUMS *)

(* The partial sums of f up to n.                                           *)
PartialSums(s, n, f) ==
  /\ s \in [0..n -> Int] /\ s[0] = 0
  /\ \A k \in 1..n : s[k] = s[k - 1] + f[k]

LEMMA SumsExist ==
  ASSUME NEW n \in Nat, NEW f, \A k \in 1..n : f[k] \in Int
  PROVE  \E s : PartialSums(s, n, f)
<1>1. PICK T : T = {m \in 0..n : ~\E s : PartialSums(s, m, f)}
  OBVIOUS
<1> SUFFICES ASSUME T # {} PROVE FALSE
  BY <1>1
<1>2. T \in SUBSET Nat
  BY <1>1
<1>3. PICK m \in T : \A k \in T : m <= k
  BY <1>2, LeastOf
<1>4. m \in 0..n /\ ~\E s : PartialSums(s, m, f)
  BY <1>1, <1>3
<1>5. m # 0
  <2> SUFFICES ASSUME m = 0 PROVE FALSE
    OBVIOUS
  <2>1. PICK s : s = [k \in 0..0 |-> 0]
    OBVIOUS
  <2>2. PartialSums(s, 0, f)
    BY <2>1 DEF PartialSums
  <2> QED
    BY <1>4, <2>2
<1>6. m - 1 \in 0..n /\ m - 1 \notin T /\ m \in 1..n
  BY <1>3, <1>4, <1>5
<1>7. PICK s : PartialSums(s, m - 1, f)
  BY <1>1, <1>6
<1>8. PICK r : r = [k \in 0..m |-> IF k = m THEN s[m - 1] + f[m] ELSE s[k]]
  OBVIOUS
<1>9. s[m - 1] \in Int /\ f[m] \in Int /\ \A k \in 0..(m - 1) : s[k] \in Int
  BY <1>6, <1>7 DEF PartialSums
<1>10. r \in [0..m -> Int]
  BY <1>6, <1>8, <1>9
<1>11. r[0] = 0 /\ r[m] = s[m - 1] + f[m] /\ \A k \in 0..(m - 1) : r[k] = s[k]
  BY <1>6, <1>7, <1>8 DEF PartialSums
<1>12. \A k \in 1..m : r[k] = r[k - 1] + f[k]
  <2> SUFFICES ASSUME NEW k \in 1..m PROVE r[k] = r[k - 1] + f[k]
    OBVIOUS
  <2>1. CASE k = m
    BY <1>6, <1>11, <2>1
  <2>2. CASE k # m
    <3>1. k \in 1..(m - 1) /\ k - 1 \in 0..(m - 1) /\ k \in 0..(m - 1)
      BY <1>6, <2>2
    <3> QED
      BY <1>7, <1>11, <3>1 DEF PartialSums
  <2> QED
    BY <2>1, <2>2
<1>13. PartialSums(r, m, f)
  BY <1>10, <1>11, <1>12 DEF PartialSums
<1> QED
  BY <1>4, <1>13

(* Total is the last partial sum.                                           *)
LEMMA TotalIs ==
  ASSUME NEW n \in Nat, NEW f, NEW s, PartialSums(s, n, f)
  PROVE  Total(n, f) = s[n]
<1>1. s = [k \in 0..n |-> IF k = 0 THEN 0 ELSE s[k - 1] + f[k]]
  BY DEF PartialSums
<1>2. PICK sum : /\ sum = [k \in 0..n |-> IF k = 0 THEN 0 ELSE sum[k - 1] + f[k]]
                 /\ Total(n, f) = sum[n]
  BY <1>1 DEF Total
<1>3. PICK T : T = {k \in 0..n : sum[k] # s[k]}
  OBVIOUS
<1>4. T = {}
  <2> SUFFICES ASSUME T # {} PROVE FALSE
    OBVIOUS
  <2>1. T \in SUBSET Nat
    BY <1>3
  <2>2. PICK k \in T : \A j \in T : k <= j
    BY <2>1, LeastOf
  <2>3. k \in 0..n /\ sum[k] # s[k]
    BY <1>3, <2>2
  <2>4. CASE k = 0
    BY <1>2, <2>3, <2>4 DEF PartialSums
  <2>5. CASE k # 0
    <3>1. k - 1 \in 0..n /\ k - 1 \notin T /\ k \in 1..n
      BY <2>2, <2>3, <2>5
    <3>2. sum[k - 1] = s[k - 1]
      BY <1>3, <3>1
    <3>3. sum[k] = sum[k - 1] + f[k]
      BY <1>2, <2>5, <3>1
    <3> QED
      BY <2>3, <3>1, <3>2, <3>3 DEF PartialSums
  <2> QED
    BY <2>4, <2>5
<1>5. n \in 0..n /\ n \notin T
  BY <1>4
<1>6. sum[n] = s[n]
  BY <1>3, <1>5
<1>7. Total(n, f) = sum[n]
  BY <1>2, Zenon
<1> QED
  BY <1>6, <1>7, Zenon

LEMMA TotalOfNone == ASSUME NEW f PROVE Total(0, f) = 0
<1>1. PICK s : PartialSums(s, 0, f)
  BY SumsExist
<1> QED
  BY <1>1, TotalIs DEF PartialSums

(* One more term, the others as they were.                                  *)
LEMMA TotalOfMore ==
  ASSUME NEW n \in Nat, NEW f, NEW g, \A k \in 1..n : f[k] \in Int /\ g[k] = f[k],
         g[n + 1] \in Int
  PROVE  Total(n + 1, g) = Total(n, f) + g[n + 1] /\ Total(n, f) \in Int
<1>1. PICK s : PartialSums(s, n, f)
  BY SumsExist
<1>2. PICK r : r = [k \in 0..(n + 1) |-> IF k = n + 1 THEN s[n] + g[n + 1] ELSE s[k]]
  OBVIOUS
<1>3. s[n] \in Int /\ \A k \in 0..n : s[k] \in Int
  BY <1>1 DEF PartialSums
<1>4. /\ r \in [0..(n + 1) -> Int] /\ r[0] = 0 /\ r[n + 1] = s[n] + g[n + 1]
      /\ \A k \in 0..n : r[k] = s[k]
  BY <1>1, <1>2, <1>3 DEF PartialSums
<1>5. \A k \in 1..(n + 1) : r[k] = r[k - 1] + g[k]
  <2> SUFFICES ASSUME NEW k \in 1..(n + 1) PROVE r[k] = r[k - 1] + g[k]
    OBVIOUS
  <2>1. CASE k = n + 1
    BY <1>4, <2>1
  <2>2. CASE k # n + 1
    <3>1. k \in 1..n /\ k \in 0..n /\ k - 1 \in 0..n
      BY <2>2
    <3> QED
      BY <1>1, <1>4, <3>1 DEF PartialSums
  <2> QED
    BY <2>1, <2>2
<1>6. PartialSums(r, n + 1, g)
  BY <1>4, <1>5 DEF PartialSums
<1> QED
  BY <1>1, <1>3, <1>4, <1>6, TotalIs

(* One term changes.                                                        *)
LEMMA TotalOfChanged ==
  ASSUME NEW n \in Nat, NEW f, NEW g, NEW i \in 1..n,
         \A k \in 1..n : f[k] \in Int /\ (k # i => g[k] = f[k]), g[i] \in Int
  PROVE  Total(n, g) = Total(n, f) + g[i] - f[i] /\ Total(n, f) \in Int
<1>1. PICK s : PartialSums(s, n, f)
  BY SumsExist
<1>2. PICK r : r = [k \in 0..n |-> IF k < i THEN s[k] ELSE s[k] + g[i] - f[i]]
  OBVIOUS
<1>3. f[i] \in Int /\ s[n] \in Int /\ \A k \in 0..n : s[k] \in Int
  BY <1>1 DEF PartialSums
<1>4. /\ r \in [0..n -> Int] /\ r[0] = 0 /\ r[n] = s[n] + g[i] - f[i]
      /\ \A k \in 0..n : k < i => r[k] = s[k]
      /\ \A k \in 0..n : ~(k < i) => r[k] = s[k] + g[i] - f[i]
  BY <1>1, <1>2, <1>3 DEF PartialSums
<1>5. \A k \in 1..n : r[k] = r[k - 1] + g[k]
  <2> SUFFICES ASSUME NEW k \in 1..n PROVE r[k] = r[k - 1] + g[k]
    OBVIOUS
  <2>1. /\ k \in 0..n /\ k - 1 \in 0..n /\ s[k] = s[k - 1] + f[k] /\ f[k] \in Int
        /\ s[k] \in Int /\ s[k - 1] \in Int
    BY <1>1, <1>3 DEF PartialSums
  <2>2. CASE k < i
    BY <1>4, <2>1, <2>2
  <2>3. CASE k = i
    BY <1>3, <1>4, <2>1, <2>3
  <2>4. CASE k > i
    <3>1. k # i /\ ~(k < i) /\ ~(k - 1 < i) /\ g[k] = f[k]
      BY <2>4
    <3>2. r[k] = s[k] + g[i] - f[i] /\ r[k - 1] = s[k - 1] + g[i] - f[i]
      BY <1>4, <2>1, <3>1
    <3> QED
      BY <1>3, <2>1, <3>1, <3>2
  <2> QED
    BY <2>2, <2>3, <2>4
<1>6. PartialSums(r, n, g)
  BY <1>4, <1>5 DEF PartialSums
<1> QED
  BY <1>1, <1>3, <1>4, <1>6, TotalIs

-----------------------------------------------------------------------------
(* THE SHELF IS WHAT THE ORDERS SAY *)

(* The units of a size in lines are those of the one line of that size.     *)
LEMMA UnitsAre ==
  ASSUME NEW ls \in SUBSET OrderLines, \A l, m \in ls : l.size = m.size => l = m,
         NEW v \in Sizes
  PROVE  /\ UnitsOf(ls, v) \in Nat
         /\ \A l \in ls : l.size = v => UnitsOf(ls, v) = l.units
         /\ (\A l \in ls : l.size # v) => UnitsOf(ls, v) = 0
<1>1. ASSUME NEW l \in ls, l.size = v PROVE UnitsOf(ls, v) = l.units
  <2>1. \E m \in ls : m.size = v
    BY <1>1
  <2>2. PICK m : m = CHOOSE k \in ls : k.size = v
    OBVIOUS
  <2>3. m \in ls /\ m.size = v
    BY <2>1, <2>2
  <2>4. m = l
    BY <1>1, <2>3
  <2> QED
    BY <2>1, <2>2, <2>4 DEF UnitsOf
<1>2. (\A l \in ls : l.size # v) => UnitsOf(ls, v) = 0
  BY DEF UnitsOf
<1>3. UnitsOf(ls, v) \in Nat
  <2>1. CASE \A l \in ls : l.size # v
    BY <1>2, <2>1
  <2>2. CASE \E l \in ls : l.size = v
    <3>1. PICK l \in ls : l.size = v
      BY <2>2
    <3>2. l.units \in Nat
      BY DEF OrderLines, Units
    <3> QED
      BY <1>1, <3>1, <3>2
  <2> QED
    BY <2>1, <2>2
<1> QED
  BY <1>1, <1>2, <1>3

(* The lines that took their units, and those that found none: an order has *)
(* a size in one of the two.                                                *)
LEMMA LinesSplit ==
  ASSUME NEW o \in OrderRows, \A l, m \in o.lines : l.size = m.size => l = m,
         NEW v \in Sizes
  PROVE  /\ UnitsOf(TakenLines(o), v) \in Nat
         /\ UnitsOf(ShortLines(o), v) \in Nat
         /\ \A l \in o.lines : l.size = v =>
              /\ UnitsOf(TakenLines(o), v) = IF l.short THEN 0 ELSE l.units
              /\ UnitsOf(ShortLines(o), v) = IF l.short THEN l.units ELSE 0
         /\ (\A l \in o.lines : l.size # v) =>
              UnitsOf(TakenLines(o), v) = 0 /\ UnitsOf(ShortLines(o), v) = 0
<1>1. o.lines \in SUBSET OrderLines
  BY DEF OrderRows
<1>2. PICK taken, missed : taken = TakenLines(o) /\ missed = ShortLines(o)
  OBVIOUS
<1>3. /\ taken \in SUBSET OrderLines /\ missed \in SUBSET OrderLines
      /\ \A l, m \in taken : l.size = m.size => l = m
      /\ \A l, m \in missed : l.size = m.size => l = m
  BY <1>1, <1>2 DEF TakenLines, ShortLines
<1>4. /\ UnitsOf(taken, v) \in Nat /\ UnitsOf(missed, v) \in Nat
      /\ \A l \in taken : l.size = v => UnitsOf(taken, v) = l.units
      /\ \A l \in missed : l.size = v => UnitsOf(missed, v) = l.units
      /\ (\A l \in taken : l.size # v) => UnitsOf(taken, v) = 0
      /\ (\A l \in missed : l.size # v) => UnitsOf(missed, v) = 0
  BY <1>3, UnitsAre
<1>5. ASSUME NEW l \in o.lines, l.size = v
      PROVE  /\ UnitsOf(taken, v) = IF l.short THEN 0 ELSE l.units
             /\ UnitsOf(missed, v) = IF l.short THEN l.units ELSE 0
  <2>1. \A m \in o.lines : m.size = v => m = l
    BY <1>5
  <2>2. CASE l.short
    <3>1. l \in missed /\ \A m \in taken : m.size # v
      BY <1>2, <2>1, <2>2 DEF TakenLines, ShortLines
    <3> QED
      BY <1>4, <1>5, <2>2, <3>1
  <2>3. CASE ~l.short
    <3>1. l \in taken /\ \A m \in missed : m.size # v
      BY <1>2, <2>1, <2>3 DEF TakenLines, ShortLines
    <3> QED
      BY <1>4, <1>5, <2>3, <3>1
  <2> QED
    BY <2>2, <2>3
<1>6. ASSUME \A l \in o.lines : l.size # v
      PROVE  UnitsOf(taken, v) = 0 /\ UnitsOf(missed, v) = 0
  <2>1. (\A l \in taken : l.size # v) /\ \A l \in missed : l.size # v
    BY <1>2, <1>6 DEF TakenLines, ShortLines
  <2> QED
    BY <1>4, <2>1
<1> QED
  BY <1>2, <1>4, <1>5, <1>6

LEMMA TermsTyped ==
  ASSUME MarketInv, NEW v \in Sizes, NEW i \in DOMAIN orders
  PROVE  Took(v)[i] \in Int /\ Minted(v)[i] \in Int
<1>1. orders[i] \in OrderRows
  BY ElementOfSeq, LenProperties DEF MarketInv, MarketplacesTypeOK
<1>2. \A l, m \in orders[i].lines : l.size = m.size => l = m
  BY DEF MarketInv, OneLineEach
<1>3. /\ UnitsOf(TakenLines(orders[i]), v) \in Nat
      /\ UnitsOf(ShortLines(orders[i]), v) \in Nat
  BY <1>1, <1>2, LinesSplit
<1> QED
  BY <1>3 DEF Took, Minted

LEMMA AccountedStays ==
  ASSUME ShelfIsAccounted, UNCHANGED <<shelf, orders>> PROVE ShelfIsAccounted'
BY DEF ShelfIsAccounted, Took, Minted

LEMMA AccountedImports ==
  ASSUME MarketInv, ShelfIsAccounted, NEW c \in Notices,
         NEW ls \in SUBSET OrderLines, NEW row \in OrderRows, ImportMade(c, ls, row)
  PROVE  ShelfIsAccounted'
<1>1. PICK n : n = Len(orders)
  OBVIOUS
<1>2. /\ orders' = Append(orders, row) /\ row.lines = ls /\ row.status # "CANCELLED"
      /\ shelf' = TakenFrom(ls)
      /\ \A l, m \in ls : l.size = m.size => l = m
      /\ \A l \in ls : ~l.short => Taken(l.size, l.units)
  BY DEF ImportMade
<1>3. /\ DOMAIN orders = 1..n /\ DOMAIN orders' = 1..(n + 1) /\ Len(orders') = n + 1
      /\ n \in Nat /\ orders'[n + 1] = row
      /\ \A i \in 1..n : orders'[i] = orders[i]
  BY <1>1, <1>2, OrdersGrow
<1> SUFFICES ASSUME NEW v \in Sizes
             PROVE  shelf'[v] = OnHand - Total(Len(orders'), Took(v)')
                                       + Total(Len(orders'), Minted(v)')
  BY DEF ShelfIsAccounted
<1>4. PICK u \in Nat :
        /\ u = UnitsOf(TakenLines(row), v)
        /\ \A l \in ls : l.size = v => u = IF l.short THEN 0 ELSE l.units
        /\ (\A l \in ls : l.size # v) => u = 0
  BY <1>2, LinesSplit
<1>5. PICK t, m, t1, m1 :
        t = Took(v) /\ m = Minted(v) /\ t1 = Took(v)' /\ m1 = Minted(v)'
  OBVIOUS
<1>6. \A i \in 1..n : t1[i] = t[i] /\ m1[i] = m[i]
  BY <1>3, <1>5 DEF Took, Minted
<1>7. \A i \in 1..n : t[i] \in Int /\ m[i] \in Int
  BY <1>3, <1>5, TermsTyped
<1>8. t1[n + 1] = u /\ m1[n + 1] = 0
  BY <1>2, <1>3, <1>4, <1>5 DEF Took, Minted
<1>9. Total(n + 1, t1) = Total(n, t) + u /\ Total(n, t) \in Int
  <2>1. \A k \in 1..n : t[k] \in Int /\ t1[k] = t[k]
    BY <1>6, <1>7
  <2>2. t1[n + 1] \in Int
    BY <1>4, <1>8
  <2>3. Total(n + 1, t1) = Total(n, t) + t1[n + 1] /\ Total(n, t) \in Int
    BY <1>3, <2>1, <2>2, TotalOfMore
  <2> QED
    BY <1>8, <2>3
<1>10. Total(n + 1, m1) = Total(n, m) + 0 /\ Total(n, m) \in Int
  <2>1. \A k \in 1..n : m[k] \in Int /\ m1[k] = m[k]
    BY <1>6, <1>7
  <2>2. m1[n + 1] \in Int
    BY <1>8
  <2>3. Total(n + 1, m1) = Total(n, m) + m1[n + 1] /\ Total(n, m) \in Int
    BY <1>3, <2>1, <2>2, TotalOfMore
  <2> QED
    BY <1>8, <2>3
<1>11. shelf[v] \in Nat
  BY DEF MarketInv, MarketplacesTypeOK
<1>12. shelf'[v] = shelf[v] - u
  <2>1. /\ \A l \in ls : shelf'[l.size] = IF l.short THEN shelf[l.size]
                                          ELSE shelf[l.size] - l.units
        /\ (\A l \in ls : l.size # v) => shelf'[v] = shelf[v]
    BY <1>2, LeftOnShelf
  <2>2. CASE \A l \in ls : l.size # v
    BY <1>4, <1>11, <2>1, <2>2
  <2>3. CASE \E l \in ls : l.size = v
    <3>1. PICK l \in ls : l.size = v
      BY <2>3
    <3>2. l.short \in BOOLEAN /\ l.units \in Nat
      BY DEF OrderLines, Units
    <3>3. CASE l.short
      BY <1>4, <1>11, <2>1, <3>1, <3>3
    <3>4. CASE ~l.short
      BY <1>4, <1>11, <2>1, <3>1, <3>4
    <3> QED
      BY <3>2, <3>3, <3>4
  <2> QED
    BY <2>2, <2>3
<1>13. shelf[v] = OnHand - Total(n, t) + Total(n, m)
  BY <1>1, <1>5 DEF ShelfIsAccounted
<1>14. shelf'[v] = OnHand - Total(n + 1, t1) + Total(n + 1, m1)
  BY <1>4, <1>9, <1>10, <1>11, <1>12, <1>13, MarketplacesAssumption
<1> QED
  BY <1>3, <1>5, <1>14

LEMMA AccountedCancels ==
  ASSUME MarketInv, ShelfIsAccounted, NEW i \in DOMAIN orders, CancelImport(i)
  PROVE  ShelfIsAccounted'
<1>1. PICK n : n = Len(orders)
  OBVIOUS
<1>2. /\ DOMAIN orders' = DOMAIN orders /\ Len(orders') = Len(orders)
      /\ orders[i].status = "CREATED" /\ orders'[i].status = "CANCELLED"
      /\ orders'[i].lines = orders[i].lines
      /\ \A k \in DOMAIN orders \ {i} : orders'[k] = orders[k]
      /\ \A l \in orders[i].lines : shelf'[l.size] = shelf[l.size] + l.units
      /\ \A v \in Sizes : (\A l \in orders[i].lines : l.size # v) => shelf'[v] = shelf[v]
  BY CancelStep
<1>3. DOMAIN orders = 1..n /\ n \in Nat /\ i \in 1..n /\ orders[i] \in OrderRows
  BY <1>1, ElementOfSeq, LenProperties DEF MarketInv, MarketplacesTypeOK
<1>4. \A l, m \in orders[i].lines : l.size = m.size => l = m
  BY DEF MarketInv, OneLineEach
<1> SUFFICES ASSUME NEW v \in Sizes
             PROVE  shelf'[v] = OnHand - Total(Len(orders'), Took(v)')
                                       + Total(Len(orders'), Minted(v)')
  BY DEF ShelfIsAccounted
<1>5. PICK t, m, t1, m1 :
        t = Took(v) /\ m = Minted(v) /\ t1 = Took(v)' /\ m1 = Minted(v)'
  OBVIOUS
<1>6. PICK had \in Nat, had0 \in Nat :
        /\ had = UnitsOf(TakenLines(orders[i]), v)
        /\ had0 = UnitsOf(ShortLines(orders[i]), v)
        /\ \A l \in orders[i].lines : l.size = v =>
             /\ had = IF l.short THEN 0 ELSE l.units
             /\ had0 = IF l.short THEN l.units ELSE 0
        /\ (\A l \in orders[i].lines : l.size # v) => had = 0 /\ had0 = 0
  BY <1>3, <1>4, LinesSplit
<1>7. \A k \in 1..n : k # i => t1[k] = t[k] /\ m1[k] = m[k]
  BY <1>2, <1>3, <1>5 DEF Took, Minted
<1>8. \A k \in 1..n : t[k] \in Int /\ m[k] \in Int
  BY <1>3, <1>5, TermsTyped
<1>9. t[i] = had /\ m[i] = 0
  BY <1>2, <1>5, <1>6 DEF Took, Minted
<1>10. t1[i] = 0 /\ m1[i] = UnitsOf(ShortLines(orders'[i]), v)
  BY <1>2, <1>5 DEF Took, Minted
<1>11. m1[i] = had0
  BY <1>2, <1>6, <1>10 DEF ShortLines
<1>12. Total(n, t1) = Total(n, t) + t1[i] - t[i] /\ Total(n, t) \in Int
  <2>1. \A k \in 1..n : t[k] \in Int /\ (k # i => t1[k] = t[k])
    BY <1>7, <1>8
  <2>2. t1[i] \in Int
    BY <1>10
  <2> QED
    BY <1>3, <2>1, <2>2, TotalOfChanged
<1>13. Total(n, m1) = Total(n, m) + m1[i] - m[i] /\ Total(n, m) \in Int
  <2>1. \A k \in 1..n : m[k] \in Int /\ (k # i => m1[k] = m[k])
    BY <1>7, <1>8
  <2>2. m1[i] \in Int
    BY <1>6, <1>11
  <2> QED
    BY <1>3, <2>1, <2>2, TotalOfChanged
<1>14. shelf[v] \in Nat
  BY DEF MarketInv, MarketplacesTypeOK
<1>15. shelf'[v] = shelf[v] + had + had0
  <2>1. CASE \A l \in orders[i].lines : l.size # v
    BY <1>2, <1>6, <1>14, <2>1
  <2>2. CASE \E l \in orders[i].lines : l.size = v
    <3>1. PICK l \in orders[i].lines : l.size = v
      BY <2>2
    <3>2. l.short \in BOOLEAN /\ l.units \in Nat
      BY <1>3 DEF OrderRows, OrderLines, Units
    <3>3. CASE l.short
      BY <1>2, <1>6, <1>14, <3>1, <3>2, <3>3
    <3>4. CASE ~l.short
      BY <1>2, <1>6, <1>14, <3>1, <3>2, <3>4
    <3> QED
      BY <3>2, <3>3, <3>4
  <2> QED
    BY <2>1, <2>2
<1>16. shelf[v] = OnHand - Total(n, t) + Total(n, m)
  BY <1>1, <1>5 DEF ShelfIsAccounted
<1>17. shelf'[v] = OnHand - Total(n, t1) + Total(n, m1)
  BY <1>6, <1>9, <1>10, <1>11, <1>12, <1>13, <1>14, <1>15, <1>16, MarketplacesAssumption
<1> QED
  BY <1>1, <1>2, <1>5, <1>17

LEMMA AccountedStep ==
  ASSUME MarketInv, ShelfIsAccounted, [MarketplacesNext]_marketVars
  PROVE  ShelfIsAccounted'
<1>1. ASSUME KeepTrade PROVE ShelfIsAccounted'
  BY <1>1, AccountedStays DEF KeepTrade
<1>2. CASE UNCHANGED marketVars
  BY <1>2, AccountedStays DEF marketVars
<1>3. CASE MeliPublish \/ ShopeePublish \/ AmazonPublish
  BY <1>1, <1>3, PublishSteps
<1>4. ASSUME NEW ch \in Channels, (\E v \in Sizes : MapSize(ch, v)) \/ StopPublishing(ch)
      PROVE  ShelfIsAccounted'
  BY <1>1, <1>4, MapStep
<1>5. ASSUME NEW ch \in Channels, NEW n \in 1..2, NEW ls \in kSubset(n, SaleLines),
             SellOn(ch, ls)
      PROVE  ShelfIsAccounted'
  BY <1>5, SoldStep, AccountedStays
<1>6. ASSUME NEW v \in Sizes, ArchiveSize(v) \/ DeleteSize(v) PROVE ShelfIsAccounted'
  BY <1>1, <1>6, OfferStep
<1>7. ASSUME NEW c \in Notices, NEW s \in DOMAIN sales,
             MeliNotified(c, s) \/ ShopeeNotified(c, s) \/ AmazonNotified(c, s)
      PROVE  ShelfIsAccounted'
  BY <1>7, NotifiedStep, AccountedStays
<1>8. ASSUME NEW c \in Notices, MeliPick(c) \/ ShopeePick(c) \/ AmazonPick(c)
      PROVE  ShelfIsAccounted'
  BY <1>8, PickStep, AccountedStays
<1>9. ASSUME NEW c \in Notices, MeliImport(c) \/ ShopeeImport(c) \/ AmazonImport(c)
      PROVE  ShelfIsAccounted'
  BY <1>9, ImportStep, AccountedImports, AccountedStays
<1>10. ASSUME NEW c \in Notices, NEW v \in Sizes,
              MeliCascade(c, v) \/ ShopeeCascade(c, v) \/ AmazonCascade(c, v)
       PROVE  ShelfIsAccounted'
  BY <1>10, CascadeStep, AccountedStays
<1>11. CASE MeliStock \/ ShopeeStock \/ AmazonStock
  BY <1>11, TellStep, AccountedStays
<1>12. CASE Restart
  BY <1>12, RestartStep, AccountedStays
<1> QED
  BY <1>2, <1>3, <1>4, <1>5, <1>6, <1>7, <1>8, <1>9, <1>10, <1>11, <1>12,
     AccountedCancels, Zenon DEF MarketplacesNext

(* The shelf is what there was at first, less what the standing orders took *)
(* from it, plus what cancellations gave back without its having been       *)
(* taken: no import takes a unit it does not record, or takes one twice.    *)
THEOREM ShelfAccounted == MarketplacesSpec => []ShelfIsAccounted
<1>1. MarketplacesInit => MarketInv /\ ShelfIsAccounted
  <2> SUFFICES ASSUME MarketplacesInit PROVE ShelfIsAccounted
    BY MarketInitial
  <2> SUFFICES ASSUME NEW v \in Sizes
               PROVE  shelf[v] = OnHand - Total(Len(orders), Took(v))
                                        + Total(Len(orders), Minted(v))
    BY DEF ShelfIsAccounted
  <2>1. orders = << >> /\ shelf[v] = OnHand
    BY DEF MarketplacesInit
  <2>2. Len(orders) = 0
    BY <2>1, EmptySeq
  <2>3. Total(0, Took(v)) = 0 /\ Total(0, Minted(v)) = 0
    BY TotalOfNone
  <2> QED
    BY <2>1, <2>2, <2>3, MarketplacesAssumption
<1>2. MarketInv /\ ShelfIsAccounted /\ [MarketplacesNext]_marketVars =>
        MarketInv' /\ ShelfIsAccounted'
  BY MarketStep, AccountedStep
<1> QED
  BY <1>1, <1>2, PTL DEF MarketplacesSpec

-----------------------------------------------------------------------------
(* THE TWO PARTS TOGETHER *)

(* Whatever part a behaviour works, both keep to the values their modules   *)
(* declare: editing sizes leaves the trade at rest, and the other way.      *)
THEOREM ChannelsTyped == Spec => []TypeOK
<1>1. Init => SizesInv /\ MarketInv
  BY SizesInitial, MarketInitial DEF Init
<1>2. SizesInv /\ MarketInv /\ [Next]_vars => SizesInv' /\ MarketInv'
  <2> SUFFICES ASSUME SizesInv, MarketInv, [Next]_vars PROVE SizesInv' /\ MarketInv'
    OBVIOUS
  <2>1. CASE SizesNext /\ UNCHANGED <<part, marketVars>>
    BY <2>1, SizesSteps, MarketStep
  <2>2. CASE part = "marketplaces" /\ MarketplacesNext /\ UNCHANGED <<part, sizesVars>>
    BY <2>2, SizesSteps, MarketStep
  <2>3. CASE UNCHANGED vars
    <3>1. UNCHANGED sizesVars /\ UNCHANGED marketVars
      BY <2>3 DEF vars
    <3> QED
      BY <3>1, SizesSteps, MarketStep
  <2> QED
    BY <2>1, <2>2, <2>3 DEF Next
<1>3. SizesInv /\ MarketInv => TypeOK
  BY DEF SizesInv, MarketInv, TypeOK
<1> QED
  BY <1>1, <1>2, <1>3, PTL DEF Spec

=============================================================================
