# POS Toko Bugati in TLA+

TLA+ models of the point-of-sale system in this repository, the TLC runs that
check them on small instances, and TLAPS proofs of what matters most for every
instance. Paths below are relative to `src/`; `services/`, `handlers/`,
`repository/`, `models/`, `websocket/` are under `backend/internal/`, and
`pages/`, `store/`, `hooks/` under `tailadmin/src/`.

    tlc -config OrderCore.cfg MCOrderTx.tla      one run
    tlapm OrderStockProofs.tla                   one module of proofs

## 1. The system

Three containers: a React UI behind nginx (`tailadmin`), a Go API (`backend`:
Gin handlers, services, GORM v2 repositories) and PostgreSQL 16. Every HTTP
request runs in a goroutine of its own. The processes share nothing but the
database and one in-memory object, the WebSocket hub. There are no tests in the
repository; `go/` is a copy of the Go distribution.

| Component | State | Operations that change it | Talks to |
|---|---|---|---|
| Order service (`services/order_service.go`) | `orders`, `order_items`, `products.stock`, `vouchers.used_count`, low-stock rows of `notifications` | CreateOrder, CancelOrder, UpdateOrder, DeleteOrder | database, hub |
| Product service | `products` | Create, Update (full-row save), UpdateStock, UpdateImage, Delete | database |
| Vouchers, auto-discounts | `vouchers`, `auto_discounts` | CRUD; Validate reads | till (validate), order service |
| Catalog: categories, variants, promos | their tables, `products.has_variants` | CRUD, syncProductHasVariants | database |
| Store settings | one row | Get (creates it), Update, UpdateLogo, UpdateFooterImage | order service (tax rate) |
| Accounts | `users`, JWTs at the clients | Create, Update, Delete, ToggleActive, Login | every `/api` route |
| Customers, notifications, dashboard, reports | their tables or none | CRUD, mark as read | database |
| WebSocket hub (`websocket/hub.go`) | client maps, broadcast buffers | Run, three handlers, three broadcasts | order service, till, mirror |
| Till (`pages/POSPage.tsx`, `store/cartStore.ts`) | cart, voucher code and discount, product grid | cart edits, validation, checkout, socket messages | API, `/ws/stock`, `/ws/cart` |
| Mirror display (`pages/MirrorDisplayPage.tsx`) | cart shown, payment banner | cart messages, timer | `/ws/cart` |
| Admin pages | open forms | REST calls | API |

What is hard here, and what would make each part correct:

- **Order service.** CreateOrder is a dozen statements over four tables, some
  of them outside its transaction (voucher, sequence), at READ COMMITTED and
  with no lock on what it reads (the `FOR UPDATE` of line 85 is an option of
  GORM v1). Correct: whatever interleaves, fails or dies, stock, voucher counts
  and notifications are those of the orders in the book; invoice numbers do not
  collide, skip or jam; every request ends.
- **Hub.** One goroutine reads and writes everything through unbuffered
  channels; a careless send would make it wait for itself. Correct: closed once,
  no gaps, no leaks, no deadlock.
- **Till and prices.** Two programs work out one total, in different orders and
  with different rounding, from terms that may change; answers arrive out of
  order. Correct: what the till shows is what the server takes.
- **Grid and mirror.** Two displays fed by sockets that lose messages, beside
  refetches nothing orders with them and timers nothing stops for good. Correct:
  what is shown is off by no more than those explain; the customer sees the cart
  sent last and is thanked for a total that was asked for. The cart outlives the
  till's page, whose socket and memory of the last total do not.
- **Settings, accounts, catalog.** Rows that are read, changed and saved whole by
  calls that overlap, a row that two readers may both create, a flag kept by
  counting other rows, tokens that nobody looks up again. Correct: what a page
  was told is saved is stored; rights run out; the flag is wrong only when a
  change overtook its count.

`PROJECT.json` lists the hazards line by line, with the properties on each.

## 2. Modules

| Module | What it is |
|---|---|
| `OrderLedger` | abstract: a sale or a cancellation happens in one step, with its stock, voucher use and low-stock alerts |
| `OrderTx` | the order service, the product handlers' writes and the voucher form, one action per database statement |
| `MCOrderTx` | instances of `OrderTx` |
| `OrderTxProofs`, `OrderStockProofs` | type correctness and theorems on invoice numbers; on the voucher's count and low-stock notifications |
| `OrderLedgerProofs` | the stock ledger, and that `OrderTx` implements `OrderLedger` |
| `SumProofs` | lemmas about sums over finite sets, by induction over subsets |
| `Hub`, `MCHub`, `HubProofs` | the WebSocket hub, its instance, its theorems |
| `Pricing` | operators: discounts, vouchers, tax and totals, as the server and as the till work them out |
| `Checkout`, `MCCheckout` | the till and the pricing part of CreateOrder, with calls and answers that travel |
| `CheckoutProofs` | theorems on the two totals, and on the till and the server |
| `Grid` | the stock a till shows for a product |
| `Mirror` | the customer display and the till's cart socket |
| `TerminalProofs` | theorems on `Grid` and `Mirror` |
| `TerminalConstants`, `MCTerminal` | their sizes and assumptions; the instance of both |
| `Settings` | the settings row and the pages that edit it |
| `Accounts` | user rows, logins and tokens |
| `Catalog` | variants of a product and its `has_variants` |
| `BackOfficeConstants`, `MCBackOffice` | sizes and assumptions of these three; the instance of all |
| `BackOfficeProofs` | theorems on `Settings`, `Accounts`, `Catalog` and the three composed |

`OrderTx` and `Checkout` are two views of CreateOrder. `OrderTx` keeps the
statements and reduces prices to whether a job pays; `Checkout` keeps the prices
and reduces the statements to one step and a refusal (`RefuseElsewhere`).
`Announce` in `OrderTx` is where `Hub`'s action of that name begins; `Broadcast`
in `Grid` and `Relay` in `Mirror` are what `Hub` does to a single feed, seen from
the browser: in order, lost for those who are not connected, and dropped, also
for those who are, when the buffer is full (`websocket/hub.go:166-171`). `Grid` and `Mirror` share no state, nor do `Settings`, `Accounts`
and `Catalog`. Their instances put them side by side: a behaviour is one of the
first or one of the second, chosen at the start, so that one run covers both
without multiplying their states.

### OrderTx

Requests are processes. A request takes a job from `Work[r]` when it starts;
`pc[r]` names the statement its handler comes to next.

| In the model | In the code |
|---|---|
| `stored`, `active`, `present`, `placed`, `status`, `notifications` | committed rows of products and vouchers, orders, notifications |
| `lock`, `draft` | row locks and uncommitted versions of open transactions |
| `ReadProduct`, `RefuseProduct` | lines 82-109 |
| `Price`, `RefusePrice` | lines 110-184: voucher test, payment test, date of the number |
| `CountInvoice` | `getOrderSequence`; the other value is the ignored error of its query |
| `StampOrder`, `InsertOrder`, `RefuseInvoice` | lines 186-223: GORM fills `created_at`, then the INSERT waits on or fails at the unique index of `models/order.go:7` |
| `TakeStock`, `CountVoucher`, `ReadBack`, `Commit` | lines 225-257; the commit's answer may be lost |
| `Announce` | lines 259-264 |
| `FindOrder` ... `CommitCancel` | CancelOrder: a read outside, updates inside a transaction |
| `SaveOrder`, `Refusal` | UpdateOrder (full-row save), DeleteOrder |
| `AdjustStock`, `OpenForm`, `SaveProduct` | product stock and the product form, which inserts a deleted row again |
| `FindProduct`, `DropProduct` | deleting a product under open orders: an UPDATE of it then matches no row (`UpdateProduct`), and `ReadBack` warns about a product without a name |
| `SaveVoucher` | the voucher form's full-row save, which sends no `used_count` |
| `StatementFails`, `DeadlockVictim`, `Crash` | a failing statement, PostgreSQL's deadlock detector, the process dying |
| `Midnight`, `LocalMidnight` | midnight for the database session and, `Lag` later, for the backend |

`books`, `restocked` and `gone` are book-keeping that no guard reads: the counts
that deliveries, edits and forms account for, how often an order was put back,
and which products were ever deleted. The ledger properties speak of the
products that never were: what a deletion does to the others' numbers is what
they are about. In `OrderLedger` such a product leaves the shelf for good.

PostgreSQL is modelled from how the code uses it (marked external in the map):
what a statement reads, whom an UPDATE or an INSERT waits for, how a cycle of
waits ends. Quantities are integers: `binding:"required"` on a list's elements is
not looked at without `dive`, line 93 tests `stock < quantity` only, and line 226
subtracts, so a quantity of 0 or less is booked like any other (`Minus` of
`MCOrderTx`). The till itself can send one: a line's quantity is cut to the stock
recorded in it, which is below 0 for an oversold product. `Refusal` refuses every
deletion: a paid order in DeleteOrder itself, any other by the foreign key of
its items.

### Hub

`Run` is one goroutine: `Selecting` is when it stands at its select, `writing`
the broadcast it is in otherwise. Connections are processes (`handler[c]`), and
`reapers[c]` counts the goroutines that failed writes left behind. A browser is
`up`, `stuck` (connected, not reading) or `dead`. A message is named by its
number among those the buffer of its feed accepted, which is what makes gaps
and overtaking visible. `Broadcast` drops on a full buffer, as `default:` does.
The three feeds are the same code three times over and one parameterised action
here.

### Pricing and Checkout

Amounts are whole rupiah, tax rates whole percents. Go's integer division and
its conversion of a non-negative float64 truncate, JavaScript's `Math.round`
rounds half up; below 2^53 and for whole rates the floating-point steps are
exact, so `\div` gives the same result. `Checkout` has the cart store
(`AddItem`, `UpdateQuantity`, `ClearCart`), the voucher field (`TypeCode`,
`Validate`, `Answer`), the payment (`Pay`, `Charge`, `Reply`, `ReplyLost`) and
an admin who switches vouchers and changes the tax rate. `Shown` and `Charged`
are the unit prices of the till and of CreateOrder, which differ when a
price is edited while the product is in a cart.

A click in the grid is refused for a product without stock, but `scanBarcode`
(`pages/POSPage.tsx:169`) calls `addItem` untested and `addItem` looks at the stock
of a line that is there already only, so `AddItem` may put any product in the cart
with quantity 1. `UpdateQuantity` then cuts to the recorded stock, also to 0 or
less: such a line stays. What `TypeOK` says of a quantity is therefore that it is
1 or within the stock recorded. `Stock[l]` is that record, the same each time the
product is added; that the stock on the server differs by then is `OrderTx`'s.
Left out: a voucher's terms changing, and a second checkout sent while one is on
its way, which leaving and reopening the page would allow.

### Grid and Mirror

`Grid` follows one product. `stock` is the row in the database, `unsent` the
pieces sold whose broadcast is still to come (`Announce` follows the commit),
`feed` those in messages under way, `copy` the stock shown on the screen and the
one in each answer under way. `Sell` and `Broadcast` are CreateOrder's;
`PutBack` and `TakeOff` are the changes nothing broadcasts: cancellations,
deliveries, corrections, product forms. `Ask`, `Read`, `Apply` and `Lose` are a
`fetchProducts`, of which several run at once and none cancels another;
`StockUpdate` subtracts. A `Broadcast` reaches the till's socket, or raises what
the screen may be too high by: because the socket is down, or because the hub drops
it. Sales of 0 or fewer pieces are left out here: the grid handles them as it does
any other. `low` and `high` are book-keeping: what a copy was
already ahead of the messages when it was read, and what it has missed since.

`Mirror` has the till's cart effect (`ChangeCart`, with the totals both sides
remember), its socket, the relay, and the display's handler (`CartUpdate`), timers
(`Tick`, `TimerFires`), reconnections and reload. The socket is opened once per
opening of the page. Leaving the page closes it, and `ReopenTill` opens another
with `lastGrandTotalRef` at 0 and the cart as it is (`cartStore.ts:34` is a
module-level store) or, after a reload, empty. The server reads each socket in a
goroutine of its own, so messages of an earlier opening may still be relayed after
those of a later one: `toServer` is a set, of which `Relay` takes the oldest of any
`opening`. A cart is whether it has items and what is due. `log`, `handled`,
`source` and `age` are book-keeping; `opening` tells sockets apart.

### Settings, Accounts, Catalog

`Settings` has a script per open page: `Open`, `Get`, and the get-or-create of
an empty table (`GetNothing`, `Insert`, `CommitInsert`: ids are taken in one
order and committed in another), then `Click` and the calls of `handleSave` one
after the other, each a read (`FindRow`) and a full-row save. All fields of the
form are one text. `captured` is the form the closure of `handleSave` saw.

`Accounts` has user rows, tokens with the time they are still good for, and
calls that read a row and later issue a token from it (`GenerateToken`) or save
it whole with a change (`SaveUser`). No request looks a user up again, so a token
is its role and its age. `since` is book-keeping. Clock steps are longer than a
login takes (`Tick` waits for `issue`). GORM's Save inserts a row that is gone, and
then the column's default of true stands in for a false (`Saved`; variants of
`Catalog` likewise).

`Catalog` has the variants of one product, the calls that change one and then
count the active ones (`List`) and store the answer (`UpdateHasVariants`), each
statement apart, and the product form and deletion. `fresh` and `settled` are
book-keeping.

## 3. Runs

| Run | Instance and bounds | States | Shows |
|---|---|---|---|
| `order_core` | 3 requests, 2 products, 17 jobs (one of a negative quantity), 1 day | 134,563 | `TypeOK`; `StockLedger` and `VoucherLedger` (nothing lost or applied twice); `LowStockNotified`; `ImplementsLedger` (refines `OrderLedger`); `EveryRequestEnds` |
| `order_days` | 3 sales or a cancellation, 2 days, backend clock behind | 115,977 | `NextInvoiceFree`, `InvoicesDense`, `OneSaleAtATime` |
| `hub` | 2 connections, 2 feeds, buffer of 2, up to 3 messages a feed | 50,672 | `TypeOK` (the buffer bound included), `ClosedOnce`, `Gapless`, `Delivered`, `NoLeak` |
| `checkout` | 2 lines (one of an oversold product), 2 vouchers, 2 auto-discounts, rates 0 and 12, one validation and one checkout on their way at a time, exact tenders | 3,926,160 | `TypeOK`, `NoSurpriseRefusal`, `ReceiptAsShown` |
| `terminal` | grid: 2 pieces, 2 fetches at once; mirror: the empty cart and 2 totals, 4 carts sent, any openings of the page, banners of 2 ticks | 2,022,725 | `GridTypeOK`, `MirrorTypeOK`; `DriftExplained` (how far the grid may be off); `ShowsCart`, `ThanksForAsked`, `BannerStays`, `BannerEnds` |
| `back_office` | 2 settings pages (symmetric), 2 rows; 1 user, 2 roles, tokens of 2 ticks; 2 variants; 2 calls at once | 1,009,573 | `TypeOK`; `SettledRow`, `SavedIsStored`; `RightsRunOut`; `FlagExplained` |
| `order_oversold` | 3 sales of the last piece | | violated: `NeverOversold` |
| `order_recancel` | a sale, two cancellations | | violated: `RestockedOnce` |
| `order_jammed` | as `order_days` | | violated: `NeverJammed` |
| `checkout_short` | as `checkout`, rate 11 | | violated: `TillRefusesShort` |
| `settings_saved` | one page, one row | | violated: `FooterSaved` |
| `accounts_deleted` | as `back_office` | | violated: `StaysDeleted` |

Every property of a passing run has a mutant in `PROJECT.json` that breaks it: a
stale read, an update on another connection, a forgotten rollback, an inline
send, a tax rounded up, a timer not cleared, a broadcast before the commit.

**Why the bounds suffice.** Two writers make every race on a row; the third
request supplies the cancellation, edit, delivery, deletion or form in between,
and a cycle of waits needs two. Two products are what a lock cycle and a partly
done order take; the cart that names one product twice is there for the booking
loop. Two days are what a number that crosses midnight takes. A buffer of 2
filled by 3 messages drops, queues and drains; two connections on one feed let
one die while the other is written to. The instance of `MCHub` publishes on a
second feed with no subscriber, which is enough for Run to be busy elsewhere. One
validation on its way is enough to arrive after the code, the cart or the sale
has changed: later answers only overwrite it. Two fetches overtake each other,
and two pieces let one be sold before and one after an answer was read. Four
carts sent make two payments in a row, with the first banner's timer still running,
or a payment, a total the display misses and a payment after the page was opened
again; two totals can be told apart. Carts that are due 0 or less are left to the
theorems. A product of stock -1 is one a scan puts over its stock and the buttons
below 0. Two pages both create the
row and both save it; two calls on one user are a login and a change, or two
changes; two variants let a count be overtaken by the change of the other. The
theorems of section 5 cover the same properties without bounds where they can.

**Bounds by name.** `LastDay` (calendar), `MaxPublished` (broadcasts per feed),
`MaxCalls` (validations on their way), `Overpaid` (cash above the total),
`Shelf`, `MaxShort`,
`MaxSilent` (pieces on the shelf, oversold, put back unannounced), `MaxLog` (carts
sent, and openings of the page after the last), `MaxRows` (settings rows ever inserted). `TTL` and `Display` are
parameters of the code, scaled to ticks.

**Fairness.** `OrderTx`: each handler is weakly fair, because the goroutine runs
and the database answers; so is the deadlock detector. Clients, clocks, failures
and crashes are not fair. `Hub`: Go's select chooses at random among ready
cases, so each case of Run is strongly fair; the write in hand and a handler
whose read has failed are weakly fair; browsers owe nothing. `Delivered` and
`NoLeak` therefore assume that from some time on no browser is stuck: no write
deadline is set, so one stuck browser does stop every feed. `Mirror`: the
browser's clock, its timers, and the handling of what was received are weakly
fair; cashiers, sockets and reloads are not. `BannerEnds` rests on the timer
alone, since the socket may be gone. `Checkout`, `Grid`, `Settings`, `Accounts`
and `Catalog` state safety only: nothing in them is promised to happen.

**Deadlock** is checked in every run; `Idle` marks the states in which the
system may rest.

## 4. What the runs found

1. *Oversold stock* (`order_oversold`). The stock check takes no lock and the
   UPDATE does not repeat it. That it seldom shows is due to the invoice index,
   which makes concurrent sales wait for one another (`OneSaleAtATime`): a sale
   that checked early waits, is refused for its number, or passes with a number
   of its own after the other's commit.
   The voucher's limit (`services/order_service.go:142`) is tested and counted the
   same way; `VoucherLedger` says that uses are counted right, not that there are
   few enough. Each save of the voucher form also sets the count back to 0, which
   `VoucherLedger` books as the form's doing.
2. *An order cancelled twice* (`order_recancel`), its stock returned twice.
3. *Numbering jams after midnight* (`order_jammed`). The number's date is the
   backend's (UTC in the container: `tzdata` is installed but no `TZ` set), the
   count's date is Jakarta's. The first order after local midnight takes a
   number of yesterday without being counted there, and the next is refused.
4. *A stale voucher discount* (`checkout_short`). The answer to a validation is
   applied whatever the code field holds by then.
5. *The footer image is taken away by the save that uploaded it*
   (`settings_saved`). `handleSave` sends the form as it was when the button was
   clicked, with the image address of before the upload; `Update` copies that
   over the new one. The logo survives, because `Update` leaves its column alone.
6. *A deleted account comes back* (`accounts_deleted`). Toggle, photo and edit read
   the row and later save all of it; when it was deleted in between, GORM's Save
   inserts it again. `handlers/user_handler.go:142` has said "Pengguna berhasil
   dihapus".

`ThanksForAsked` has an exception, and `terminal` reaches it: the till's page
forgets the last total when it is left, but the cart stays. If the display did not
get that total either, because its message was lost with the socket, the sale of
the kept cart goes out with 0, and the display shows "Pembayaran Berhasil!" over
the total it remembers, of an earlier cart.

## 5. Proofs

All are checked by `tlapm` with Z3, Zenon and LS4, from the assumptions on
constants that the modules name and TLC evaluates.

- **`TypeCorrect`**: `Spec => []TypeOK`, from the inductive `TypeInv`, which
  adds to the types what a label says of the handler's data: a handler at a
  label of CreateOrder has a create job and is not yet placed, its loop index
  lies in its cart, one that changes an order works on a placed one. `TypeOK` alone is not inductive: `Items(o)` of an
  order without a create job is not defined.
- **`NumberingNeverJams`, `NumbersDense`, `SalesSerialised`**, from `InvoiceInv`.
  A number names a day that is not in the future, is at most one more than the
  orders made on that day, and is stamped on that day or later (`NumberOK`); no
  two numbers that were inserted are equal (`Distinct`); on a clean day the
  numbers are 1 to their count (`Dense`). The delicate step is the commit: the
  order's number was counted long before, and is still right only because a
  commit of another order of that day would have taken the number.
- **`VoucherCounted`**, from `VoucherInv`: an order past its count, and nobody
  else, holds the voucher's row, with a draft one above what is stored. So the
  count moves only where an order is placed or the form is saved, and
  `VoucherLedger` is about a cardinality, not a sum. What another request does
  meanwhile is one lemma for all its steps (`Alone`, `AloneStep`): it neither
  takes a row from a request that holds it nor touches that request's versions.
- **`LowStockIsNotified`**, from `StockInv`: from its UPDATE to its commit an
  order holds the row of each product it took unless that product was deleted,
  and a product read back at or below its minimum is in `warned`. The stock
  committed is then the stock that was tested, for any cart and however many
  other orders wait.
- **`StockAccounted`**, from `LedgerInv`: a request that holds a product's row
  has a version of it that is the committed stock moved by exactly the lines its
  loop has passed, and holds no row of a product it has not come to (`DraftOK`);
  an order not yet committed has put nothing back. At the commit the draft is
  then the stock less the whole order, and the sum over the committed orders gains
  one term. `StockLedger` alone says nothing of drafts, so no commit preserves it.
- **`LedgerImplemented`**: `OrderTx` implements `OrderLedger`. Initial states map
  to initial states; every statement before a commit, and every failure, maps to
  a stutter; the commits of a sale, a cancellation, a status and a stock write map
  to `Sell`, `Return`, `Relabel` and `Recount`. It rests on the invariants above:
  `InvoiceInv` gives the number no order has, `LedgerInv` the stock, `VoucherInv`
  the use, `StockInv` with `WarnedInv` the alerts: those raised are for products
  an order names that are at or below the minimum, and for no others.
- **`SumProofs`** carries the sums. `SumFunctionOnSet` is a recursive function on
  the subsets of its set that takes an element by `CHOOSE`. That it is the sum in
  any order (`SumRemove`, `SumAdd`), an integer, and the same for equal terms is
  proved by induction over the subsets
  (`SubsetInduction`), which follows from the well-foundedness of strict inclusion
  on finite sets. The library states that about relations, so no operator has to
  be instantiated.
- **`ConnectionsClosedOnce`**, from `MemberInv`: a connection is in its map
  exactly while its handler reads or waits to unregister and it has not been
  closed. `ClosedOnce` alone does not say what the handler that ends last finds.
- **`FeedsGapless`**, from `GapInv`: the queue is the tail of the accepted
  messages, the message being written directly precedes it, and a subscriber's
  last message is that one or, if it is still to be written to, its predecessor.
- **`TypeCorrect` of `HubProofs`**: the hub's types, with the bound that no buffer
  holds more than its capacity.
- **`VoucherNeverDearer`, `PlainNeverDearer`**: for all amounts and terms the
  server's total is not above the till's, and without discounts within one
  rupiah. What is left after a voucher does not fall when the amount rises
  (`RestMonotone`), also with a cap and above 100 percent.
- **`CheckoutTypeCorrect`, `NoSurprise`, `ReceiptIsAsShown`**, from `CheckoutInv`:
  the request under way was accepted for the total of the cart, code and discount
  it carries (`PaidFor`), whatever has become of the till's cart and field since.
  What is fresh is charged for by the same subtotal (`SubtotalSame`), and the two
  theorems on prices bound the bill (`FreshBill`). A fixed voucher worth more than
  the cart, or a line of an oversold product, makes the till's total negative: then
  the bill is zero, and any tender will do. No assumption is made on the stock.
- **`GridTypeCorrect`, `DriftIsExplained`**: what holds of the screen must hold of
  every answer under way, since any of them may become the screen (`Drift`). A
  broadcast the hub drops raises the bound of the screen and of each answer.
- **`MirrorTypeCorrect`, `CartIsShown`, `ThanksForWhatWasAsked`,
  `BannerIsNotCut`**, from one invariant: each message under way is one of those
  sent, whatever overtook it, with its place in `log` and its opening (`Queues`);
  that of an empty cart carries the last positive total its opening had sent
  before, or there was none (`Good`, `KnownTotal`); the display's `last` is a total
  asked for at some time (`Known`); what is shown, and the banner, are those of the
  message handled (`Screened`); and no timer ends before its banner's time is over
  (`Counting`).
- **`AccountsTypeCorrect`, `RightsDoRunOut`**: a call about to issue a token has
  read its row less than a tick ago (`JustActive`).
- **`SettingsTypeCorrect`, `RowIsSettled`, `SavedStays`**: a script about to save
  has read a row that is there (`SeenIsThere`), and while nobody else writes it is
  the first row as it stands, with the logo the script has uploaded (`Alone`). No
  step removes a row, so the least id stays the least unless an insert with a
  lower one commits.
- **`CatalogTypeCorrect`, `FlagIsExplained`**: a count that is fresh is right until
  it is stored (`CountIsFresh`); without the product there is no variant and the
  flag is down (`NoOrphan`), so what the update then does not reach is right too.
- **`BackOfficeTypeCorrect`**: the three invariants hold together in the composed
  specification.

`LedgerInv`, `WarnedInv`, `CheckoutInv`, `SettingsInv` and `CatalogInv` also hold
in every state TLC reaches on the instance of the component's run.

Only model-checked: liveness (`EveryRequestEnds`, `Delivered`, `NoLeak`,
`BannerEnds`), which is beyond this prover. Every invariant and every action
property of a passing run is a theorem. The assumptions the proofs make on
constants: requests are finitely many, and names of different kinds differ; a cart
sent to CreateOrder has a line (line 59 tests it), of any quantity, and an
adjustment is not 0 (`binding:"required"`); stocks, minima, bounds and clocks are
integers or naturals; there are finitely many lines at the till, with prices above
0 on either side (`services/product_service.go:35` and `:48`) and any stock; vouchers and auto-discounts have terms their services accept
(`VoucherTerms`, `OfferTerms`), tax rates are not negative; there is a user, a role
and a variant; the empty cart is one of the carts, and is due nothing.

## 6. Not modelled

Per component, with the reason, under "components" in `PROJECT.json`. In short:

- *Product creation, images; categories, promos, customers; auto-discount forms;
  marking notifications as read.* One statement on one row that no other part's
  state depends on. The promo carousel of the display is a timer over a list
  fetched once.
- *A voucher's limit or code changed, or the voucher deleted, between a sale's
  check and its count.* Limit and code are constants of `OrderTx`; switching it
  off and on is in `Checkout`.
- *The variant picker of the till.* It lists `product.variants`, which no
  repository loads, so clicking a product sold by variant offers none, and a
  scanned one goes into the cart without a variant. A variant therefore never
  reaches an order through the till.
- *Sign-out of the clients.* Nothing polls the API, so a client notices an
  expired token with its next call, whenever that is: no liveness to state.
- *Permissions.* A list in the user row that only the pages read; the routes test
  the role, which is in the token.
- *Dashboard, reports, exports, uploads, layout.* Read-only or outside the
  database.
- *`go/`.* A copy of the Go distribution, by far most of the repository's lines:
  third-party code.

What could still be added: the conditions under which the properties found
violated would hold, as theorems, and a specification of the shop as a whole
over the components.
