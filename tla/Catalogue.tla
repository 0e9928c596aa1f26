------------------------------ MODULE Catalogue ------------------------------
(***************************************************************************)
(* Products and categories: their slugs, their life cycle, and what the     *)
(* storefront shows of them (catalog/products.service.ts,                   *)
(* catalog/categories.service.ts, catalog/slug.ts).  The sizes of a product *)
(* are in Sizes.                                                            *)
(*                                                                         *)
(* A slug chosen from a name is read before it is written, so that edit is  *)
(* two steps.  Every other edit is settled by its write: a unique slug and  *)
(* the foreign keys hold there whatever an earlier read said.               *)
(***************************************************************************)
EXTENDS Integers, Sequences, FiniteSets

CONSTANTS
  Products,    (* ids, ordered as ORDER BY id orders them                   *)
  Categories,
  Names,       (* what slugify makes of the names people type               *)
  Prices,      (* integer cents                                             *)
  Clerks,      (* edits in flight: bounds their overlap                     *)
  MaxSuffix,   (* slugs go up to name-n: a bound of the model               *)
  SlugIds,     (* products whose ids requests take for slugs: a bound       *)
  PerPage      (* the page size a client asks for                           *)

ASSUME CatalogueAssumption ==
  /\ Products \subseteq Nat /\ IsFiniteSet(Products) /\ SlugIds \subseteq Products
  /\ Prices \subseteq Nat \ {0}
  /\ MaxSuffix \in Nat \ {0} /\ PerPage \in Nat \ {0}

VARIABLES
  product,   (* products                                                    *)
  category,  (* the slug of each category, NoSlug while there is none       *)
  draft      (* the slug each edit in flight has settled on                 *)

catalogueVars == <<product, category, draft>>

-----------------------------------------------------------------------------
(* <<name, 1>> is the bare slug, <<name, n>> the one suffixed -n.  An id is *)
(* a string too, and SLUG_PATTERN lets a request take it for a slug.        *)
NameSlugs == Names \X (1..MaxSuffix)
IdOf(p) == <<"id", p>>
Slugs == NameSlugs \cup {IdOf(p) : p \in SlugIds}
NoSlug == <<"none", 0>>

Statuses == {"DRAFT", "ACTIVE", "ARCHIVED"}

ProductRows == [status: Statuses \cup {"none"}, slug: Slugs \cup {NoSlug},
                price: Prices \cup {0}, created: 0..Cardinality(Products),
                cats: SUBSET Categories]

NoProduct == [status |-> "none", slug |-> NoSlug, price |-> 0, created |-> 0, cats |-> {}]

Drafts == [what: {"none", "product", "category"}, slug: NameSlugs \cup {NoSlug}]

NoDraft == [what |-> "none", slug |-> NoSlug]

CatalogueTypeOK ==
  /\ product \in [Products -> ProductRows]
  /\ category \in [Categories -> NameSlugs \cup {NoSlug}]
  /\ draft \in [Clerks -> Drafts]

CatalogueInit ==
  /\ product = [p \in Products |-> NoProduct]
  /\ category = [g \in Categories |-> NoSlug]
  /\ draft = [c \in Clerks |-> NoDraft]

-----------------------------------------------------------------------------
Stored == {p \in Products : product[p].status # "none"}
Filed == {g \in Categories : category[g] # NoSlug}

ProductSlugs == {product[p].slug : p \in Stored}
CategorySlugs == {category[g] : g \in Filed}

(* The name itself, or the first suffix from 2 nobody has.                  *)
NextAvailableSlug(name, taken) ==
  LET free == {n \in 1..MaxSuffix : <<name, n>> \notin taken}
  IN IF free = {} THEN NoSlug ELSE <<name, CHOOSE n \in free : \A k \in free : n <= k>>

(* assertSlugFree, and the unique index it speaks for.                      *)
ProductSlugFree(s, own) == \A p \in Stored \ own : product[p].slug # s
CategorySlugFree(s, own) == \A g \in Filed \ own : category[g] # s

Clock == Cardinality(Stored)

(* resolveSlug without a slug in the request: a read.                       *)
ChooseProductSlug(c, name) ==
  /\ draft[c].what = "none"
  /\ NextAvailableSlug(name, ProductSlugs) # NoSlug
  /\ draft' = [draft EXCEPT ![c] =
       [what |-> "product", slug |-> NextAvailableSlug(name, ProductSlugs)]]
  /\ UNCHANGED <<product, category>>

ChooseCategorySlug(c, name) ==
  /\ draft[c].what = "none"
  /\ NextAvailableSlug(name, CategorySlugs) # NoSlug
  /\ draft' = [draft EXCEPT ![c] =
       [what |-> "category", slug |-> NextAvailableSlug(name, CategorySlugs)]]
  /\ UNCHANGED <<product, category>>

(* assertCategoriesExist: what a product may be filed under.                *)
CategoryLists == SUBSET Filed

(* product.create: born DRAFT unless the request says otherwise.            *)
StoreProduct(p, s, price, status, cats) ==
  /\ p \notin Stored
  /\ product' = [product EXCEPT ![p] =
       [status |-> status, slug |-> s, price |-> price, created |-> Clock, cats |-> cats]]
  /\ UNCHANGED category

InsertProduct(c) ==
  /\ draft[c].what = "product"
  /\ draft' = [draft EXCEPT ![c] = NoDraft]
  /\ IF ProductSlugFree(draft[c].slug, {})
     THEN \E p \in Products, price \in Prices, cats \in CategoryLists :
            StoreProduct(p, draft[c].slug, price, "DRAFT", cats)
     ELSE UNCHANGED <<product, category>>

CreateProductAs(p, s) ==
  /\ ProductSlugFree(s, {})
  /\ \E price \in Prices : StoreProduct(p, s, price, "ACTIVE", {})
  /\ UNCHANGED draft

InsertCategory(c) ==
  /\ draft[c].what = "category"
  /\ draft' = [draft EXCEPT ![c] = NoDraft]
  /\ \/ /\ CategorySlugFree(draft[c].slug, {})
        /\ \E g \in Categories \ Filed : category' = [category EXCEPT ![g] = draft[c].slug]
     \/ ~CategorySlugFree(draft[c].slug, {}) /\ UNCHANGED category
  /\ UNCHANGED product

CreateCategoryAs(g, s) ==
  /\ g \notin Filed /\ CategorySlugFree(s, {})
  /\ category' = [category EXCEPT ![g] = s]
  /\ UNCHANGED <<product, draft>>

(* update: absent fields stay; a list of categories replaces the old one.   *)
UpdateProduct(p) ==
  /\ p \in Stored
  /\ \/ \E s \in Slugs : ProductSlugFree(s, {p}) /\ product' = [product EXCEPT ![p].slug = s]
     \/ \E status \in Statuses : product' = [product EXCEPT ![p].status = status]
     \/ \E price \in Prices : product' = [product EXCEPT ![p].price = price]
     \/ \E cats \in CategoryLists : product' = [product EXCEPT ![p].cats = cats]
  /\ UNCHANGED <<category, draft>>

(* DELETE /products/:id.                                                    *)
ArchiveProduct(p) ==
  /\ p \in Stored
  /\ product' = [product EXCEPT ![p].status = "ARCHIVED"]
  /\ UNCHANGED <<category, draft>>

UpdateCategory(g, s) ==
  /\ g \in Filed /\ CategorySlugFree(s, {g})
  /\ category' = [category EXCEPT ![g] = s]
  /\ UNCHANGED <<product, draft>>

(* A hard delete: the join rows cascade, the products stay.                 *)
RemoveCategory(g) ==
  /\ g \in Filed
  /\ category' = [category EXCEPT ![g] = NoSlug]
  /\ product' = [p \in Products |-> [product[p] EXCEPT !.cats = @ \ {g}]]
  /\ UNCHANGED draft

ProductRoute ==
  \/ \E c \in Clerks :
       InsertProduct(c) \/ \E name \in Names : ChooseProductSlug(c, name)
  \/ \E p \in Products :
       UpdateProduct(p) \/ ArchiveProduct(p) \/ \E s \in Slugs : CreateProductAs(p, s)

CategoryRoute ==
  \/ \E c \in Clerks :
       InsertCategory(c) \/ \E name \in Names : ChooseCategorySlug(c, name)
  \/ \E g \in Categories :
       RemoveCategory(g) \/ \E s \in NameSlugs : CreateCategoryAs(g, s) \/ UpdateCategory(g, s)

CatalogueNext == ProductRoute \/ CategoryRoute

CatalogueSpec == CatalogueInit /\ [][CatalogueNext]_catalogueVars

-----------------------------------------------------------------------------
(* What is read.  A viewer without products.read sees ACTIVE products only; *)
(* asking for a status without it is refused.                               *)
Visible(includeNonActive) ==
  {p \in Stored : product[p].status = "ACTIVE" \/ includeNonActive}

(* findMany's filter: a category by its slug, a range of prices.            *)
Matching(includeNonActive, slug, prices) ==
  {p \in Visible(includeNonActive) :
     /\ slug # NoSlug => \E g \in product[p].cats : category[g] = slug
     /\ product[p].price \in prices}

Sorts == {"newest", "price_asc", "price_desc"}

(* Mutant: ORDER BY without the id.                                         *)
BeforeUntied(sort, p, q) ==
  LET a == product[p]
      b == product[q]
  IN CASE sort = "newest"     -> a.created > b.created
       [] sort = "price_asc"  -> a.price < b.price
       [] sort = "price_desc" -> a.price > b.price

(* ORDER_BY: the first key, then the id.  name_asc has the same shape, and  *)
(* the names here have no order.                                            *)
Before(sort, p, q) ==
  LET a == product[p]
      b == product[q]
      ahead == CASE sort = "newest"     -> a.created > b.created
                 [] sort = "price_asc"  -> a.price < b.price
                 [] sort = "price_desc" -> a.price > b.price
      tied == IF sort = "newest" THEN a.created = b.created ELSE a.price = b.price
  IN ahead \/ (tied /\ p < q)

(* The rows may come back in any order the ORDER BY allows.                 *)
Answers(sort, S) ==
  {f \in [1..Cardinality(S) -> S] :
     \A i, j \in 1..Cardinality(S) : i < j => f[i] # f[j] /\ ~Before(sort, f[j], f[i])}

(* skip (page - 1) * perPage, take perPage.                                 *)
Page(f, page) ==
  {f[i] : i \in {j \in DOMAIN f : (page - 1) * PerPage < j /\ j <= page * PerPage}}

LastPage(S) == (Cardinality(S) + PerPage - 1) \div PerPage

(* findOne: the first row, in no given order, of those whose id or slug it  *)
(* is, and whether the viewer may see that one; {} is the 404.              *)
Named(s) == {p \in Stored : s = IdOf(p) \/ s = product[p].slug}

FoundBySlug(s, includeNonActive) ==
  IF Named(s) = {} THEN {{}} ELSE {{p} \cap Visible(includeNonActive) : p \in Named(s)}

(* The number beside a category: its ACTIVE products.                       *)
ProductCount(g) ==
  Cardinality({p \in Stored : g \in product[p].cats /\ product[p].status = "ACTIVE"})

-----------------------------------------------------------------------------
(* Page after page shows every product once: each page is a query of its    *)
(* own, so it must come out right whichever of its orders the database      *)
(* gives each of them (the comment of ORDER_BY).                            *)
PagesCover(sort, S) ==
  LET pages == 1..LastPage(S)
  IN \A answer \in [pages -> Answers(sort, S)] :
       /\ UNION {Page(answer[n], n) : n \in pages} = S
       /\ \A n, k \in pages : n # k => Page(answer[n], n) \cap Page(answer[k], k) = {}

(* The parts of the storefront are read by queries of their own and must    *)
(* tell one story, in whatever order two clerks edit products, categories   *)
(* and slugs: the number beside a category is the length of its list, the   *)
(* slug of every product in a list opens that product and no other, unless  *)
(* it is another product's id, its id does too, unless it is another's      *)
(* slug, and the pages of a list hold each of its products once.            *)
StorefrontAgrees ==
  /\ \A g \in Filed :
       ProductCount(g) = Cardinality(Matching(FALSE, category[g], Nat))
  /\ \A p \in Matching(FALSE, NoSlug, Nat) :
       /\ product[p].slug \notin {IdOf(q) : q \in Stored \ {p}}
            => FoundBySlug(product[p].slug, FALSE) = {{p}}
       /\ IdOf(p) \notin {product[q].slug : q \in Stored \ {p}}
            => FoundBySlug(IdOf(p), FALSE) = {{p}}
  /\ \A sort \in Sorts : PagesCover(sort, Matching(TRUE, NoSlug, Nat))
=============================================================================
