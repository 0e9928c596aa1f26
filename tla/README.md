# Formal model of commerce-core

TLA+ specifications of the store's back end (NestJS, Prisma, Postgres), the
TLC runs that check them on small instances and the TLAPS proofs of the
properties that matter most for instances of every size. Source paths below
are relative to the repository root.

## 1. Inventory

The API is a set of stateless processes around one Postgres database at its
default isolation level (READ COMMITTED; no transaction asks for another).
Nothing is kept in memory between requests, so all concurrency meets in table
rows and at the external services. Only five statements take row locks
explicitly (`FOR UPDATE`): the removal of a size, the administrators' invariant
and the three marketplace token refreshes. Everything else relies on unique
indexes and on conditional `UPDATE`s whose row count decides.

| Component | State | Operations | Talks to | What makes it correct |
|---|---|---|---|---|
| Orders, life cycle (`src/orders/orders.service.ts`) | `orders` (status, references of session, charge and refund), `order_items` | checkout, pay, cancel, refund, mark-paid, ship, label, deliver | stock (same transaction), payments (outside it), notifications | one-way life cycle, goods returned once, money and status agree |
| Payment webhook (`src/orders/payment-events.service.ts`) | `payment_events` (received / processed) | resolve, claim, dispatch, stamp | the orders service | redelivery is harmless, nothing is stamped undone |
| Notifications (`src/orders/order-notifications.service.ts`) | none | four e-mails | mail server | at most one e-mail per change, never fails its caller |
| Payments (`src/payments/`) | none; the sessions live at Stripe, Asaas, Mercado Pago | create, look up, expire, refund, translate a notice | gateways | the three-way look-up and the outcome of a notice are truthful |
| Cart (`src/orders/cart.service.ts`) | `carts`, `cart_items` | add, set, remove, clear | catalogue | one row per variant, positive quantities |
| Stock (`src/catalog/stock.service.ts`) | `product_variants.stock_quantity` | decrement, restock, absolute write | orders, marketplaces | never oversold, units conserved |
| Catalogue (`src/catalog/products.service.ts`, `categories.service.ts`, `slug.ts`) | `products`, `categories`, slugs | create, update, archive, delete; list, page, look up by slug, count | carts, orders (foreign keys) | lists, counters and look-ups tell one story |
| Sizes (`src/catalog/products.service.ts`) | `product_variants` | add, rename, archive, restore, reorder, remove | carts, orders (foreign keys) | an article keeps a size, one place each, a removal is the one reviewed |
| Refresh tokens (`src/auth/refresh-token.service.ts`) | `refresh_tokens` in families | issue, rotate, revoke | login, password reset | a line has one live end; a swept family none |
| Verification tokens (`src/auth/verification-token.service.ts`) | `verification_tokens` | issue, consume | registration, reset | only the newest works, once |
| Accounts (`src/auth/auth.service.ts`) | `users` | register, verify, resend, forgot, reset, login, Google, refresh, logout | both token services, mail | a session means a proved address |
| Staff (`src/auth/staff/staff.service.ts`, `admin-provisioning.ts`, `authz/`) | roles, direct grants | change role, grant, revoke, provision | permissions guard | the store keeps an administrator |
| Marketplace import (`src/integrations/*/…-webhook.service.ts`) | imported `orders` | import, cancel | stock, the other channels | one order per sale, stock accounted for |
| Marketplace sync (`…-sync.service.ts`) | `marketplace_item_mappings`, listings | publish, push an absolute stock | checkout, import | every listing hears of every sale |
| Marketplace connections (`…-auth.service.ts`, `…-connector.ts`) | `tenant_integrations` | authorise, exchange, renew under `FOR UPDATE`, disconnect | marketplaces | a connected channel holds one usable grant |
| Shipping (`src/shipping/`, `src/orders/shipping-quote.service.ts`) | the rates table | parse, quote, select | the carrier | the price shown is the price charged |
| Reports (`src/reports/`) | none | sales, revenue, unsold | orders, products | the screens agree with each other |
| ERP, labels, mail, observability, encryption | none of their own | outbound calls, logging | | formatting only |

Hard behaviours, in the order they were chosen for modelling: the order's life
cycle raced by routes, webhook and gateway; redelivery, loss and reordering of
notices; the process dying between two awaits; the checkout transaction; token
rotation; the administrators' lock; marketplace imports and credentials; edits
of one article by two people; boundaries in reports, pages and rates.
`PROJECT.json` lists every hazard at its line and the properties that cover it.

## 2. Modules

| Module | What it is |
|---|---|
| `PaymentGateway` | the three gateway adapters as operators: look-up, expiry, classification |
| `OrderContract` | what the store promises about one order, without requests, sessions or notices |
| `OrderLifecycle` | the orders service, the payment webhook, the notifications and the gateway, concurrently |
| `OrderLifecycleProofs` | type correctness, the safety invariants, and that `OrderLifecycle` implements `OrderContract` |
| `Inventory` | what the store promises about units: atomic sales, single returns, recounts |
| `Checkout` | carts, the statements of the checkout and return transactions under row locks, the stock pushed to marketplaces |
| `CheckoutProofs` | `Checkout` implements `Inventory`; quiet carts are bought once |
| `StaffAdmin` | roles, grants, and the demotions that lock the holders of `staff.manage` |
| `StaffProofs` | demotions never deadlock; the last administrator stays |
| `Sessions` | registration, links, sign-in, refresh tokens and their families |
| `SessionsProofs` | sessions are proven and of one line, swept ones stay dead, only the newest link works |
| `Catalogue` | products and categories, their slugs, the storefront's lists |
| `Sizes` | the sizes of an article under concurrent edits, carts and checkouts |
| `SizesProofs` | the last size is kept, removals are reviewed, sizes do not share a place |
| `Freight` | the rates table, the carrier in front of it, quotes and what an order is charged |
| `Reports` | the reports as operators over the orders and products other parts write |
| `ChannelGrant` | what a connected marketplace promises: one grant, given only by consent |
| `Connections` | OAuth consents, the integration rows, renewals under the row lock |
| `ConnectionsProofs` | `Connections` implements `ChannelGrant`; a connected channel stays usable |
| `Marketplaces` | publications, sales, notices, imports and pushes over three channels |
| `MarketplacesProofs` | a sale is one order, imports are told on, the shelf is what the orders say |
| `MCOrderLifecycle`, `MCCheckout` | model values, start stock and symmetry for TLC |
| `MCAccounts` | `StaffAdmin` and `Sessions` in one instance |
| `MCShop` | `Catalogue`, `Freight`, `Reports` and `Connections` in one instance |
| `ShopProofs` | the storefront, the quotes and the reports each tell one story; the types of `MCShop` |
| `MCChannels` | `Sizes` and `Marketplaces` in one instance |

`OrderLifecycle` and `Checkout` meet in the order: what is one step
`PlaceOrder` (or the transaction inside `CancelCommit` and `ApplyRefund`) in the
first is cut into statements in the second, and `ImplementsInventory` justifies
the single step as far as stock and order lines go. `Freight` prices the order
`Checkout` places; `Sizes` is where `Checkout`'s lines may lose the row they
point at; `Marketplaces` has the archival and the deletion of a size as its
environment and sells against the same decrement; `Reports` reads the columns
`OrderLifecycle`, `Checkout` and `Marketplaces` write, and has one action for
each of their transactions that writes them. The parts grouped in `MCAccounts`,
`MCShop` and `MCChannels` share no row that one writes and another decides by, so
the variable `part` lets a behaviour work one of them and leaves the others at
rest: their interleavings would add states and no behaviour.

### How OrderLifecycle corresponds to the code

*Granularity.* Every `await` on the database, a gateway or the mail server is
the end of a step. A `$transaction` is one step (its statements touch the
order's row first, which the others then wait for). What a handler read before
an `await` is kept in its record `job[h]`, so stale reads are explicit: `cancel`
closes the session in `job[h].ref`, read at its start, not the one the order
has by then.

*State.* `status`, `paymentRef`, `intentRef` are columns of `orders`;
`processed` the stamped rows of `payment_events`; `unitsOut` how often the
order's lines left the shelf less how often they came back; `mailed` counts
e-mails. `sess`, `sessOrder`, `refunded`, `inbox` are the gateway's side: the
state of each session, its order, the charges refunded and the notices not
acknowledged yet. An unstamped `payment_events` row decides nothing (`claim`
lets it through), so it is not state.

*Processes.* `PaySlots`, `DeskSlots` and `HookSlots` are requests in flight:
buyers' (checkout, `/pay`), everyone else's routes, and deliveries. A slot is
reused; the number of slots bounds how many requests overlap, not how many
ever run.

*Faults* (`Faults = TRUE`). `Abort` ends a request after its last completed
step: the process died, a statement failed, an answer was lost. A mail or a
quiet expiry may fail; an acknowledgement may be lost, and the notice comes
again. At the gateway, a notice stays in `inbox` until acknowledged, may be
received by several deliveries at once, and in any order.

*Gateways.* `Gateway` fixes the adapter. Stripe refuses to expire a session
that is not open, has stable event ids, sessions that complete before they are
paid, and notices of refunds that name the order only when the charge inherited
its metadata (`RefundNames`). Asaas reads a refused deletion as done and makes
up event ids. Mercado Pago cannot tell a paid preference from an open one and
classifies every payment notice as a success. One order's sessions over two
gateways are not modelled.

### How Checkout corresponds to the code

*Granularity.* A step is one SQL statement. `stock` and `cart` are committed
rows. A transaction's writes stay in its record `job[c]` (`held`: decremented or
restocked lines; `eaten`: deleted cart rows) until `CommitSale` or
`CommitReturn` publishes them together, and until then lock the rows: another
writer of the same row has no step, which is how waiting is modelled. Readers
never wait. The reads before the transaction (`ReadCart`, `Price`) are steps of
their own, so what they return can be stale.

*Statements.* `Consume` is the `deleteMany` with its row count. Begun while
another transaction holds some of the rows (`BeginConsume`), it deletes, when it
gets them, those of the rows it first saw that still exist. `Take` is the
conditional decrement: a committed row that does not match fails the line at
once; one that matches is waited for and evaluated again. `Restock` is
unconditional. The order of decrements is that of the random line ids
(`NextLine`), that of restocks is left open.

*Deadlock and failure.* `Deadlocked` is a cycle of requests that wait for each
other; Postgres rolls back one of them (`Rollback`, which `Faults` allows at any
statement: the process died or the database failed).

*Left out.* Prices, freight, addresses, variants per product. The status of the
product a blocked decrement joins is read when the row is obtained; Postgres
reads it from the statement's snapshot. No property depends on the difference,
because a product may be withdrawn right after the decrement too.

### How StaffAdmin corresponds to the code

`role` and `grants` are `users.role_id` and `user_permissions`; `task[c]` is a
request, `userLock` who holds `FOR UPDATE` on each users row. `lockHolders` is
one SQL statement, cut where Postgres may stop it: `ChangeRoleStart` and
`RevokeStart` pick the rows (`Picked`) from the statement's snapshot; `LockRow`
takes their locks one at a time in id order, waiting where another transaction
has the row. After a wait Postgres evaluates a row again only when it was
UPDATED meanwhile, its own columns fresh and the other tables still as of the
snapshot: so a role changed meanwhile drops its account, and a grant revoked
meanwhile does not. `Decide` is the assertion, `WriteRole` and `WriteRevoke`
the writes with the commit. A grant's foreign keys lock the two accounts' rows
(`GrantCommit`). `Admitted` is the guard that read the caller's permissions
before the handler ran; they may be gone when it writes.

The users' rows do not cover everything a demotion decides by. A revocation
deletes a row of `user_permissions` and touches no users row, so it may take a
grant from under a demotion that picked its holder (`Picking`); and an account
that held nothing was not locked, and may be given `staff.manage` under a
demotion aimed at it (`AimedAt`, staff.service.ts:434). The history `undercut`
names the demotions in flight to which one of the two has happened; nothing
reads it but the properties.

### How Sessions corresponds to the code

One row per address (`acct`), rows of `refresh_tokens` and `verification_tokens`
in order of creation. Each `await` is a step, and a transaction that reads and
then writes is two (`IssueRetire`, `IssueCommit`; `Rotate`, `RotateCommit`):
READ COMMITTED lets another commit between its statements. A link is usable by
whoever reads the mailbox, so `Present` needs it in `mailed`; `proven` remembers
whose mailbox was shown to be read, by a link or by Google. `Stop` ends a
request after any step. Two history variables name the races the code leaves
open and the properties except: `settled`, the families swept while none of
their tokens was between its read and its write, and `crossed`, the pairs of
person and purpose for which two issues overlapped.

### How Sizes and Catalogue correspond to the code

An edit that reads before it writes is two steps, and what a unique index or a
foreign key settles at the write is a condition of the write. `Sizes` cuts the
removal into the `FOR UPDATE` over the article's rows, the recount of cart lines
against the impact the editor reviewed, and the delete; `holder` is the lock, and
carts and order items that point at a locked row wait for it (`FOR KEY SHARE`).
An edit's position is either the caller's (`sent`: the DTOs of creation and
addition let the body say it, and nothing checks that it is free) or the next
one, computed from the first read. A cart takes any size of an active product,
archived ones included (cart.service.ts:160 looks at the product only); the
checkout refuses those. Two histories: `chosen`, the sizes put where a caller
chose, and `crowded`, the articles two people were adding to or reordering at
once.

`Catalogue` chooses a slug from a name in one step and inserts in another, where
the unique index may refuse it. An operator may also send a slug of its own, and
`SLUG_PATTERN` (create-product.dto.ts:23) admits one that spells a UUID:
`SlugIds` are the products whose ids may be so used. The look-up by id or slug
(`Named`) then finds two rows and takes either, against the comment at
products.service.ts:641. What is read (`Matching`, `Before`, `Page`,
`FoundBySlug`, `ProductCount`) are operators over the state: each page is a
query of its own and may come in any order its ORDER BY allows.

### How Freight and Reports correspond to the code

Both are mostly algorithms, stated as operators, checked in every reachable
state of a small environment and proved for every environment. A sort is stated
by places (how many come before it), a sum by the function it adds up
(`UnitsOf`, `ItemsSubtotal`), since the proofs count and regroup both. `Freight`
starts from any table the parser lets through (`Parses`), and the carrier, the
cart and the article change between a quote and the checkout that asserts its
price. `Reports` has the rows of `orders`, `order_items` and products; instants
stand for timestamps, `Behind` for the zone's offset, `Granule` for the week or
month `date_trunc` cuts. The writers of those rows are the code's own: a
checkout takes every unit or does not happen; an import is kept whatever its
lines took, with its freight and a `paidAt` of some time before; a recount
writes what was counted over whatever was there; a cancellation or a refund puts
every unit back, those that never left included. So the shelf and the orders
need not add up, and no property of the reports says they do.

### How Connections corresponds to the code

A refresh token is a number; the channel's set `accepted` says which are good.
`AskToken` reads the row without a lock; `LockIntegration` is the `SELECT …
FOR UPDATE` with the second look; the channel's answer and the write of the row
are separate steps of the same transaction. The process may die between them, or
the request be lost on its way (`LoseCall`). Prisma's five seconds for the
transaction may run out while the renewal's `fetch`, which nothing aborts, is on
its way (`TimeOut`): the row is let go and the request goes on without it, to be
answered late (`LateAnswer`), when the next call may have read the same token;
the answer cannot be written, the transaction being closed.
Mercado Livre and Shopee spend a refresh token at each use and withdraw
everything when an old one is shown; Amazon may leave it as it is (`SingleUse`,
taken from how the connectors treat the answer: an assumption about services
outside the repository). A disconnection and the upsert of a new consent are
statements that wait for the row's lock.

### How Marketplaces corresponds to the code

`Fetch` asks the channel for the sale, `PickLines` is the look-up of the order
and of the sizes its lines are charged to, `ImportSale` the transaction,
`Cascade` one size's read and the calls to the other channels, which nobody waits
for. A line's size is any that its mapping matches, and any active size of the
shop when none does (`Charged`), as `findFirst` without an order leaves open. A
line whose decrement fails is kept with the order and remembered as `short`. The
three channels differ in the statuses that count as paid (`MeliOrder`,
`ShopeeOrder`, `AmazonOrder`), in what a publication becomes (`MeliNewItem`,
`ShopeeNewItem`, `AmazonSku`) and in how a line names a size. `told` is a
history: the latest import whose balance a channel was sent, a lost call
counting as sent, since a call that fails is only logged. `doubled` is another:
the sales that two notices looked up before either had imported them. A `plan`
(of `Plans`) says which channels trade which sizes in a behaviour, how many sales
and publications there are, and how many notices of a sale may be in hand at
once (`each`).

## 3. Runs

| Run | Instance | Shows |
|---|---|---|
| `stripe` | 1 order, 2 sessions, 1 request of each kind, faults | types, goods, charges, stamped notices, contract |
| `redelivery` | Asaas, 2 concurrent deliveries, 1 session, faults | conditional updates alone make redelivery harmless |
| `serial` | Stripe, 3 sessions, no faults | one live session per order when requests do not overlap |
| `convergence` | fair, 1 session, faults, both kinds of refund notice | money taken is eventually recorded |
| `atomic_sale` | 2 buyers, 1 variant, quantities to 2, 2 orders, 2 overlapping requests, recounts, archiving, pushes, faults | stock never negative; `Inventory` implemented |
| `quiet_cart` | fair, 2 buyers, 2 variants, 4 lines, 2 orders, 2 overlapping requests | each line bought once; every request ends, lock cycles included |
| `accounts` | 2 accounts of staff, 2 requests; 1 address, 2 requests, 3 tokens, 2 links | the store keeps an administrator; demotions queue; sessions, links and passwords are what they claim |
| `shop` | 2 products, 1 category, 2 clerks, 1 id that may be a slug; 4 tables, 3 articles; 2 orders and recounts over 3 instants; 2 channels, 2 calls, 3 grants | lists, quotes and reports agree; connections implement `ChannelGrant` |
| `channels` | 1 article, 3 sizes, 2 editors, 1 cart or 1 place callers choose; 3 channels, 2 sizes, 1 or 2 sales, 2 notices | sizes survive their editors; imports take stock once, whole, and are told on |
| `second_charge` | a checkout and a `/pay` that overlap, no mark-paid counted | finding: refunding a second charge refunds the order paid with the first |
| `last_admin` | 2 operators with a grant, no role changes, 2 revocations | finding: each counts the other, nobody is left |
| `double_rotation` | 1 session, 2 rotations | finding: one token, two live successors |

Seven more configurations show what a property loses without its condition. They
are counterexamples to be reproduced by hand (`tlc -config MC…_<name>.cfg MC…`):

| Configuration | Property | What happens |
|---|---|---|
| `MCOrderLifecycle_failed_payment` | `FailedPaymentCanBeRetried` | Stripe keeps the session of a boleto that was never paid complete, and `/pay` answers 409 for good (comment at payment-events.service.ts:131) |
| `MCOrderLifecycle_shipped_refund` | `RoutedRefundConverges` | an order shipped between the gateway's refund and the `UPDATE` never becomes REFUNDED (comment at orders.service.ts:750) |
| `MCOrderLifecycle_rejected_card` | `ChargeIsReal` | Mercado Pago's adapter reads a rejected card as a success |
| `MCCheckout_double_submit` | `OneOrderPerLine` | rows added during a first submit make a second one's count match |
| `MCCheckout_stale_listing` | `ListingIsBacked` | two checkouts each push the stock less their own line |
| `MCChannels_imported_twice` | `NeverImportedTwice` | two notices of one sale both find no order (comment at shopee-webhook.service.ts:118) |
| `MCShop_spent_twice` | `NeverSpentTwice` | a renewal outlives its transaction, and the next call reads the token it carries (comment at mercadolivre-connector.ts:107) |

*Bounds.* No handler reads two orders, so one order shows every interaction;
two sessions are needed for a charge other than the order's own and three for a
replacement of a replacement; two deliveries of a notice race as any number do,
since each is a claim, one conditional update and a stamp. Session ids bound
how many sessions are ever created: a request that finds none left waits.
Everything else is finite by itself (e-mails and shelf moves are bounded by the
life cycle).

For `Checkout`, two overlapping requests are enough because every conflict is
between two transactions over one row; two variants (four lines) give lock
cycles and half-taken orders, one variant with quantities, recounts and faults
gives every way a single row is contended. `MaxQty`, `LineIds` and `Orders`
bound quantities, the cart lines ever added and the orders ever placed;
`OrderLeft` lets a checkout begin only if an order is left for it.

In `accounts`, two accounts of staff are the fewest among whom one is demoted
and one must remain, and every race is of two requests over one row. The proofs
of `StaffProofs` are for any number of either. `MaxTokens` = 3 is a session and
two successors (a replay and a theft), `MaxLinks` = 2 a link and the one that
supersedes it, `MaxSecrets` the two together. Passwords and requests are
interchangeable. `last_admin` starts from two operators holding the grant, which
administrators since demoted gave them, so that its trace is two revocations and
nothing else.

In `shop`, two products fill two pages of one, and one of them has an id the
other may have for a slug; two orders and three instants put a sale at either
edge of a window and of a bucket; one unit of each ware makes a second sale of it
short; `MaxGrants` = 3 is a consent and two renewals, or two consents and one.

In `channels`, three rows allow two sizes and one added, or one removed and one
added past the gap; `SentPlaces` = {1} is a place taken or free. Carts and
places meet in no rule, so that a behaviour of the sizes has carts and no
reordering or place of a caller's, or those and no carts (`part`). `SmallPlans`
gives each channel a sale of both sizes, Mercado Livre a second sale of one
size, so that imports follow imports, and each channel a sale two notices of
which overlap. Mercado Livre and Amazon publish both sizes of what they sell,
Shopee, which matches a line as Mercado Livre does, one; `MaxItems` = 1
publishes once, since a second publication makes a second item whose lines are
matched the same way. The grouped parts may use their bounds up, so `accounts`,
`shop`, `channels` and `quiet_cart` do not look for deadlock.

`atomic_sale` has one variant, where a sale has one line: that a later line may
fail after an earlier one was taken (orders.service.ts:361) is not in that run,
nor does `quiet_cart` state it, but `ImplementsInventory` proves it for any
number of lines.

*Fairness* (`RedeliveryFairness`). A delivery that has started goes on or dies
(weak fairness). A gateway redelivers until acknowledged (strong fairness of
receiving), and a delivery that is repeated for ever is not killed at the same
step for ever (strong fairness of claim and dispatch). Without the last one no
program could make progress. Buyers, operators and their requests owe nothing.
`convergence` and `quiet_cart` use no symmetry, which TLC does not support for
liveness. `FairRequests` is strong fairness of each request's next step: a
request in flight goes on, and Postgres queues the waiters of a row, so one that
is freed again and again is eventually obtained. The other modules state no
liveness: nothing in them is retried by the code, and a request that stops is
abandoned.

*What is deliberately not claimed.* `OneLiveSession` is checked without
overlapping requests, without faults and over Stripe: two concurrent `/pay`
break it (docs/specs/payments.md defers that), an order of two sessions arises
over Asaas when a refused deletion is taken for done, and over Mercado Pago
because a paid preference looks open. `ProcessedRefundTaken` is checked and
proved for refund notices that do not name their order: one that does and
overtakes the payment notice is stamped on a CREATED order (the edge case
payments.md lists). `cancel` may leave a session issued meanwhile payable
(best effort, by its own comment). `mark-paid` by hand leaves the open session
payable. `OneOrderPerLine` is checked and proved for carts nobody edits during a
checkout (`EditsMidCheckout = FALSE`).

The properties that follow assume nothing of how requests overlap; each names
the exception the code makes. `KeepsAdministrator` and `CountedHoldersStay`
except a demotion that was `undercut`: `last_admin` shows what that costs.
`DemotionsQueue` excepts a role given to somebody who holds nothing, whose row
is written outside the order of the locks and may close a cycle. `KeepsASize`
counts rows; `KeepsActiveSize`, "at least one active variant", fails, because
`archiveVariant` counts without a lock and the removal counts archived rows
(products.service.ts:435, :545). `OneSizePerPlace` excepts the sizes a caller
placed (`chosen`) and the articles of two simultaneous editors (`crowded`).
`ImportedOnce` excepts the sales two notices looked up before either imported
them (`doubled`), `ConnectedIsUsable` the channels of which a renewal's answer
was lost or came late (`broken`), `StorefrontAgrees` the look-up of a slug that
spells another product's id. `NothingMinted` fails: cancelling an imported order
puts a short line's units back too. A sale first seen before it is paid stays
CREATED. A product published to Mercado Livre or Shopee is sent without
variations and given variation ids of the store's own making
(mercadolivre-connector.ts:431, shopee-connector.ts:573), so a sold line matches
any size of the item: the shelf is accounted for, the size is not claimed. The
old sessions survive a process that dies between a password's reset and their
revocation (auth.service.ts:198).

## 4. Proofs

`tlapm` checks every leaf with Z3, Zenon and LS4. Assumptions: the three kinds
of slots are disjoint, the nulls are no members of the sets they are null for,
`Gateway` and `RefundNames` are in range (`SlotAssumption`, `NullAssumption`,
`GatewayAssumption`). Sets of orders, sessions and slots are arbitrary, infinite
ones included.

`TypeOK` is not inductive: a step that writes what a job record carries needs to
know the record is complete. `TypeInv` adds `JobsShaped`: which fields a request
has at each label (an order and a session at `expire`, an event at `dispatch`,
an e-mail to send at `mail`).

`ShelfFollowsStatus` is inductive relative to `TypeInv`.

The money properties rest on `MoneyInv`: a session with a state belongs to an
order (`SessionMoney`), the charge of an order was paid for it (`OrderMoney`), a
notice tells the truth and stays true (`NoticeTrue`), a stamped notice was taken
(`Taken`), and what each request in flight is about to do is still right
(`JobMoney`): a delivery about to stamp a payment has seen its order leave
CREATED, a refund about to be applied has moved money. Each conjunct is needed
for another: a stamp is right only because of `JobMoney`, which is stable only
because sessions and statuses never go back (`Lasting`). Every action has a
lemma of its own; `NextMoney` assembles them.

The refinement adds `MailInv`: for a request about to send an e-mail the order
has reached that state, nobody else owes the same e-mail, and it was not sent
yet. Therefore each sending is `Contract!Tell`, and every other step is a
`Contract!Move` or a stutter.

`Checkout`: `SaleInv` strengthens `TypeOK` with what the locks protect. A
transaction's record accounts for every line it read (`JobShape`: held or left,
unless some decrement failed); what it relies on in committed rows stays true
while it holds them (`RowsHeld`: the stock it took from still covers the line,
the order it returns is still placed); and no row is held twice (`Apart`).
Without `RowsHeld` a commit could make stock negative, and `RowsHeld` survives
other commits only because of `Apart`. From it, `CommitSale` is
`Inventory!Sell` with the lines read, `CommitReturn` is `Inventory!Return`,
and every other step but a recount is a stutter. `QuietInv` adds, for
`EditsMidCheckout = FALSE`, that line ids are in one place only (`LinesApart`),
that the cart a request read is either still the cart or already bought
(`CartRead`), and that one request at a time has eaten a cart (`OneBuyer`). The
assumptions are the ranges in `BoundAssumption`; all sets may be infinite.

`Connections`: `HeldInv` says what a call knows of the row it locked
(`HeldRow`): the integration is connected and the refresh token in the call's
hand is the one in the row; once the channel has answered, a single-use token is
spent on both sides, a reusable one is as good as before. `LockedRow` is the
converse, that a lock belongs to a renewal in progress; `Given` makes the next
token new; `Usable` is `ConnectedIsUsable` per channel. Storing the answer is
safe only because of `HeldRow`, which other calls leave alone only because of
the lock. A request that outlived its transaction has no lock, and may arrive
between another call's answer and its write: `LateApart` says that the token it
carries is not the one just given, so that it ends no grant but by the step
`LateAnswer`, which counts the channel as `broken`. Each action then maps to a
step of `ChannelGrant` or a stutter. Assumption: `ConnectionsAssumption`;
channels and calls are arbitrary sets.

`Sizes`: `SizesInv` says that the rows in use are a prefix of all rows
(`InOrder`, so that a new size takes a row nobody has), that a removal past its
lock holds its product, has seen another size of it and, before the delete,
that no more cart lines point at the size than were reviewed (`RemovalKnows`),
and that whoever holds a product is such a removal (`HeldByRemoval`).
`KeepsASize` needs all of them: two removals of one product are kept apart by
the lock only, and the second counts again. `ArrangingInv` is about places:
while one person alone adds or reorders, an addition in flight to which no place
was given is past every size, those a caller placed included, and a reordering
names every size (`AloneWith`); a removal or an archival in between disturbs
neither. That `nextPosition` exists rests on the
well-foundedness of the naturals (`LeastOf`). Assumption: `SizesAssumption`
(finitely many carts, a null that is no member of the other sets).

`StaffAdmin`: in `StaffInv` a lock belongs to a demotion in flight, all of whose
remaining rows have greater ids (`LocksInOrder`). In a circle of waiting
requests each waits for a row above all those it holds, so the one that holds
the greatest contested row waits for nobody: `DemotionsQueue`, for any constants
(and with the exception that property states: the write of a role for an account
that is no longer a holder). The other two hold of any overlap of requests. Of a
demotion that was not undercut, `CountStands` says that the grants its statement
saw are still those of the rows it picked, so that the recount of a row after a
wait, by the new role and the old grants, counts a holder only; `CountIsWhole`
says that its target, if it is a holder, was counted or will be, and that what
was decided still holds at the write. Hence whoever such a demotion counted is a
holder when it writes, and the store has one then who is not its target. Only
the write of a demotion undercut can lose the last administrator
(`OnlyUndercutEmpties`).

`Sessions`: `SessionsInv` says that rows are created in the order of their ids
(`LinkTable`, `TokenTable`), that each token descends from a consumed one of the
same family (`Lineage`), that a verified or Google account is somebody's who
proved to read the mailbox (`AcctTable`), and for each request in flight what
of its reads still holds (`JobFacts`): about to mint, its user is proven; about
to set a password, a reset link of that user was spent; about to rotate, the
family is not settled, that is, was not swept at a moment when none of its
tokens was about to be replaced. Hence `SessionMeansProven`, `SweptStaysDead`
and `PasswordChangesByReset`. `OneSuccessorLine` needs that in a family no token
of which was replaced twice the one still unused is the latest (`LatestOnly`);
that a token can be replaced twice at all is the finding `double_rotation`.
`NewestLinkOnly` needs that an issue which overlapped no other of its kind has
seen every link that still works (`SeenAll`). No hypothesis beyond
`SessionsAssumption`.

`Marketplaces`: `MarketInv` says that who handles a notice handles a sale there
is (`OfASale`) and that an order has a size in one line (`OneLineEach`; a lookup
of the size's lines depends on it). `OnceInv` says, of a sale that is not
`doubled`, that who is about to import it is alone in that and has found no order
of it, and that there is one order of it at most; a second notice may be
fetched, die or repeat at any time. `EveryImportIsTold` holds for any
overlap: `ToldInv` follows each import to each other channel, which was told as
much, or will be by a push or by a cascade that has the size before it. A
restart counts the calls it loses as told, as the property does.
`ShelfIsAccounted` is about sums over all orders: `Total` is shown to be the
last of the partial sums, and to grow by a new term and change by the
difference when one term changes, each by the least number for which it fails
(`SumsExist`, `TotalOfMore`, `TotalOfChanged`). Assumption:
`MarketplacesAssumption` (finitely many sizes; bounds in range).

The refund properties of the order, `RefundIsOfTheOrdersCharge` and
`ProcessedRefundTaken`, are proved for notices that do not name their order
(`RefundNames = {FALSE}`, as in the run `stripe`). When they may, the first fails,
and so does the weaker `DuplicateRefundSparesOrder`, which says nothing of orders
marked paid by hand: that is what `second_charge` refutes.

`OneLiveSession` is proved under the hypotheses of its run, over any number of
orders, sessions, operators and deliveries. `OneLiveInv` says that a session
still of use to an order that waits for payment is the one stored on it, or the
one a request is about to store (`LiveIsStored`), and that a request about to
open a session found no other, or has just closed it (`PayKnows`). Each
hypothesis is needed: two requests that overlap open one session each, one that
dies leaves the session it opened to nobody, and the other gateways close a
session without refusing one already paid. Cancellations, refunds and
deliveries may overlap the request at will (`LiveElsewhere`).

`Catalogue`: `CatalogueInv` is the types and `SlugsApart` (no two products and no
two categories have one slug, and only what exists is filed), which the unique
indexes keep while slugs are chosen before they are inserted. From it
`StorefrontAgrees` is mathematics: a slug that is no other product's id finds one
product, and so does an id that is no other's slug (`OneNamed`); filtering by a
category's slug is filtering by the category. For the pages, `Before` is a strict
total order because it breaks ties by id, so `Answers` has one member however
often it is asked (`OneListing`: in any sorted list a product stands at its rank,
the number of products before it), and the pages cut that list into consecutive
pieces (`OnAPage`, `OnOnePage`). Without the tie-break two answers may differ and
a product be on two pages or none, the bug the comment of `ORDER_BY` tells of.
Assumption: `CatalogueAssumption` (finitely many products; a page holds one at
least).

`Freight`: `FreightTypeOK` is inductive as it stands, and `QuoteIgnoresTheTypist`
holds of every table that `Parses`. Its options have codes of their own, so
`Ahead` is again a strict total order (`AheadIs`), and an offer's place is its
rank among the offers whatever lines they came from (`SortForgets`, by the
bijection between the two tables' lines). That brackets ascend (`InOrder`) gives
the tightest one. Assumption: `FreightAssumption` (weights, prices and codes are
numbers, `Unknown` is none).

`Reports`: `ReportsTypeOK` is all the reports need, whatever the shelf holds:
the types say that a sold order has a date up to the horizon.
`SoldOrStandingStill` follows a ware in stock: with a sale in the window it is
in the ranking with units, without one it is on the other list and its last sale
is outside (`LastSaleElsewhere`), and a sale in the union of two periods that
meet is in one of them (`SalesOfBoth`, `StillOverBoth`). The rest are facts on
sums over finite sets: `SumByKey` groups a sum by a key (the orders of a period
by their bar), `SumByColumns` adds a table by rows or by columns (the revenue by
order, the ranking by product), `SumOfBoth` adds disjoint sets (periods that
meet). The ranking's pages are cut from a list sorted with a tie-break, as
above. Hence `ScreensReconcile` and `SoldOrUnsold`, for any windows, granules,
offsets of the zone, prices and numbers of orders. Assumption:
`ReportsAssumption`.

The types of `MCShop` follow from the conjunction of these invariants and
`GrantInv`. That theorem, unlike the three parts' properties, is about the
instance TLC runs, where `part` chooses which of the four moves.

Every safety property a passing run checks, invariant, action property or
refinement, is thereby also a theorem. Only model-checked are `PaymentConverges`
and `RequestsEnd`, since liveness is beyond the prover, and the violations.

## 5. Plan

Done, in this order: the order's life cycle with its proofs; the checkout over
`Inventory` with its refinement proof; staff and sessions; sizes, catalogue,
freight, reports; connections and marketplaces. The proofs of `Connections`
(with its refinement) and of `Sizes` followed, then those of `StaffAdmin`,
`Sessions` and `Marketplaces`, `OneLiveSession`, and last those of `Catalogue`,
`Freight`, `Reports` and the shop as a whole.

## 6. Not modelled

Signature verification, request validation, payload parsing, logging, OpenAPI,
throttling, password hashing and encryption of credentials (no property is about
their content); the ERP export after mark-paid and imports (one call, failure
swallowed); the carrier's labels (three calls whose state is at the carrier) and
postal codes (a cache of an outside directory); images, descriptions and the text
search of the catalogue; time zones and number formats of the reports; the
channels' taxonomies, feeds and the anonymisation of Amazon orders, which no route
or schedule calls; partial refunds (ignored by the code), session-expiry notices
(recorded only). `PROJECT.json` gives each component's status.
