# Lunchkraam in TLA+

Lunchkraam sells *knipjeskaarten* (cards with ten punches) for tosti's and
avondeten to the members of a sailing club. One Go server with a PostgreSQL
database serves a React frontend; members order online, staff at the kraam
deliver, punch cards and check payments, and beheerders keep the books with
statements of the club's bank account. These modules model what the program does
with that money-like data and check that it never loses, invents or forgets any,
and that the pages show what the server has.

## The system

| Component | State | Operations | What makes it correct |
|---|---|---|---|
| **Knipjes administration** (`internal/store`: cards, card_requests, tosti_orders, avondeten_meals, card_transactions) | five tables in PostgreSQL | request, sell, accord, reject and withdraw cards; order, cancel and deliver tosti's; register avondeten; manual knipje; set an estimate; undo | every balance is explained by the logboek; an order or meal is paid once; a card that is not accorded is untouched; a rejection loses no history |
| **Members and accounts** (`users*.go`, `local_staff.go`) | `users`, the placeholder *Verwijderde leden* | create, deactivate, delete, merge, move to Google, roles, jeugd flag | history survives a deletion; a merge leaves no row behind; one heir for the deleted, which nobody changes |
| **Sessions and access** (`internal/middleware`, `internal/auth`) | cookie session, roles read per request | login, logout, guards per route | a deactivated or changed account loses its rights at the next request |
| **Realtime hints** (`internal/realtime`, `ws.go`, `useTostiRealtime.ts` and the pages that use it) | channels with bounds, a buffer per client | broadcast, drop, connect, disconnect, refetch | a connected page fetches what was announced to it; a page that reconnects catches up |
| **Frontend pages** (`frontend/src/pages`, `AlertDialogProvider`, `AuthProvider`, `queryClient`) | one dialog, busy flags per page, the query cache, the profile | some forty asynchronous handlers that ask, send, patch, invalidate and tell; navigation; refetches | a question is answered for the handler that asked it; no button stays disabled; what was changed is on display when all has settled |
| **Bank credits** (`bank_credit_*.go`) | `bank_credit_imports` with a link to a sale, candidates on a screen | import, link, unlink, waive | a sale is paid by one bank line at most, and by one that fits |
| **Revolut import** (`revolutimport`, `pending_import_reviews.go`) | the import under way, the queue of possible duplicates | classify, book or queue line by line; merge, keep apart | no line gets lost or counts twice, however imports overlap, stop and start again |
| **Shop expenses and receipts** (`shop_expenses*.go`, `shop_expense_receipts.go`) | bookings, photo rows, files on disk | add, remove, upload a photo, remove it | every photo shown has its file and its booking; a merge takes the photos along |
| Settings and prices, reports, HTTP server and configuration, scripts | one row; none; none; none | | |

How they interact: a page calls the API; an HTTP handler reads the session and the
member (middleware), calls an exported function of `internal/store`, which is one
database transaction, and afterwards sends a *hint* through the hub; clients
that receive a hint fetch the data again over HTTP. Components of the server share
state only through the database, and the receipts directory beside it.

What is hard: two people at the kraam and the member herself act on the same
card, request or order at the same moment; a rejection cascades over four
tables; an undo comes any time later, after the card was used, set by hand or
the same day registered anew; rows are re-parented when members are merged or
deleted; hints are dropped when buffers are full; files and rows are written
one after the other; an import runs beside manual edits and other imports and may
stop halfway; on a page, handlers, questions, hints and refetches cross each other
and people leave. `PROJECT.json` lists such hazards at the line where each bites.

## Modules

| Module | What it is |
|---|---|
| `CardStore` | the knipjes administration: tables as variables, one action per exported function of `internal/store` that writes them |
| `CardStoreProps` | its type invariant, safety invariants and action properties |
| `MCCardStore` | its instances for TLC |
| `CardStoreProofs` | theorems about it, checked by TLAPS: types and the balance of the logboek |
| `LogProofs` | theorems about the links in the logboek, the meals it pays for and the balance it adds up to |
| `SalesProofs` | theorems about requests, cards and orders, and that an order is paid for once |
| `MemberLife` | abstract: what the life of an account may be (created, linked, deactivated, merged, deleted) |
| `Members` | composes `CardStoreProps` with `MemberLife`: what merging and deleting members do to the tables of `CardStore` |
| `MCMembers` | its instances for TLC |
| `MembersProofs` | theorems about `Members` |
| `Accounts` | the rows of `users`, sessions and API calls in flight, statement by statement; implements `MemberLife` |
| `AccountsProofs` | theorems about it |
| `MCAccounts` | its instances for TLC |
| `AccountsPage` | the dialog *Naar Google* of the accounts page in front of `Accounts` |
| `Realtime` | hints from a handler's commit through the hub to a page that fetches again |
| `RealtimeProps` | its type invariant, safety, action and liveness properties |
| `MCRealtime` | its instances for TLC |
| `RealtimeProofs` | theorems about it |
| `Handlers` | the record that describes an asynchronous handler of a page |
| `KraamOps`, `MemberOps`, `AdminOps` | the handlers of the kraam, of the members' pages and of the beheer pages, one record each; each extends the one before |
| `Pages` | the engine: one browser that runs handlers, with its dialog, busy flags, query cache and hints |
| `PagesProps` | its type invariant and safety invariants, and what the proofs assume of handlers |
| `PagesProofs` | theorems about it |
| `MCPages` | the program's handlers in the engine, and the scenes TLC looks at |
| `ShopExpenses` | bookings, the queue of reviews, merges, photos and files |
| `BankCredits` | credits on the bank account, sales, and the screens that link them |
| `RevolutImport` | composes the two with the imports of statements and stops of the server |
| `RevolutImportProps` | its type invariant, safety invariants and action properties |
| `MCRevolutImport` | its instance for TLC |
| `RevolutImportProofs` | theorems about it |

A definition `Op_Variant` is `Op` with a plausible mistake in it; no action uses it. It
stands in for `Op` to show that a property notices the mistake.

### CardStore

A table is a function from ids to rows; ids come from sequences and are never
used again. `card_requests`, whose rows are never deleted here, is a sequence.
The logboek `card_transactions` is kept per card, in the order of its ids.

| Variable | Table | Left out |
|---|---|---|
| `matroos` | `users.is_matroos_jeugd` | the other columns of `users` |
| `cards`, `lastCard` | `cards` | note, created_at |
| `log` | `card_transactions` | actor, note, created_at; `backfill` lines, which only the migration writes |
| `requests` | `card_requests` | price, payment method, created_at (the status and method of a sale are in `BankCredits`) |
| `orders`, `lastOrder` | `tosti_orders` | bread, filling, remarks, times |
| `meals` | `avondeten_meals` | id (a meal is its card and day), who registered it |

Each action is the whole transaction of one exported function: the functions lock the
rows they decide on (`FOR UPDATE`), so their guards are the early returns before the
commit, and a call that returns an error rolls back and is a stuttering step.

### Members, Accounts and AccountsPage

`MemberLife` is the abstract specification of an account. `Members` composes it with
`CardStore`: every operation of the knipjes administration is done by people who
exist and are not deactivated as the middleware saw it, and `AdminDeleteUser` and
`AdminMergeLocalUserIntoGoogle` are compositions of operators on the tables as one
record, in the order of their statements. `Accounts` has the columns of `users` that
decide who logs in as whom, and calls in flight: a call is admitted by the middleware
in one step and runs in later ones, one per statement where the code uses several
outside a lock (`UpsertUser`, `AdminUpdateLocalUser`, the change of a password, the
look for an address). `Implements` states that it refines `MemberLife`. Nothing keeps an
admin from giving a new account the username of the placeholder, so both have the life
`reserved` for it: such an account can log in and order, most calls of admins refuse it, and it
is the heir of the members deleted from then on (`IsHeir`).
`AccountsPage` puts the dialog *Naar Google* in front of it: a handler sees the state
of the render that made it.

### Realtime

A list is abstracted to whether a page shows it as it is in the database: `stale`
is the truth, `owed` the lists a hint was to announce to a page that was connected at
the time. `todo` holds the hints a handler still sends after its commit, `chan` the
hub's channels, `buf` the clients' buffers, `up`, `opened` and `registered` the stages
of a connection, `dirty` the queries being fetched, `recent` the shell's throttle.

### Pages

A page is a set of asynchronous handlers. What they do has one form: look at what is
filled in, ask for a confirmation, set a busy flag, patch the cached list, send one
or two requests, invalidate lists, refresh the profile, tell the outcome and clear
the flag in `finally`. So a handler is a *record* (`Handlers` explains the fields), its
translation is the values of these fields, read off its body and off the button that
calls it, and `Pages` has one action for each thing that can happen to a handler:
`Press`, `FinishConfirm`, `ServerActs`, `ServerRefuses`, `Attach`, `AnswerLost`, `TellFirst`,
`Resume`, `ProfileAsked` and what follows, `Tell`, `CloseAlert`, `End`. The lists a
handler *changes* are those whose query reads what the server's function writes, and
`hints` are those its HTTP handler sends.

| Variable | In the code |
|---|---|
| `page`, `busy` | the route, the `useState` flags of its page (new whenever the page is opened) |
| `dialog` | `panel`, `alertResolveRef` and `confirmResolveRef` of `AlertDialogProvider` |
| `run` | an invocation of a handler: where it is in its body, whether its page is still there |
| `cache` | the query of one list as TanStack Query keeps it, with the values `shown` in the rows of the column that handlers write, and those `read` for the answer under way; for the list `Me`, the profile of `AuthProvider` |
| `server` | that column in the database |
| `hints` | announcements on their way (`Realtime` has the delays and the losses) |
| `scene`, `cause` | what this behaviour looks at; history of the first thing that can leave the list behind |

TanStack Query is modelled from how the pages use it: an invalidated list on display is
fetched again and a request under way is given up for the new one, one that is not on
display is marked; data count as new for thirty seconds (`queryClient.ts`); a failed
request is repeated once; `setQueryData` leaves a request under way alone.

Four handlers patch what is on display by hand: `toggleRole` and `toggleMatroosJeugd` write
their guess before the request and, when it is refused, what the render had (`AdminLocalUsersPage.tsx:166`,
`:191`); `onPurposeChange` guesses too, puts in the whole row of the answer and, when it fails, the old purpose
(`AdminShopExpensesPage.tsx:167`, `:174`); `onSubmitSettings` replaces the one record by the answer. A run therefore
takes along what its row displayed when it was started (`held`) and what it writes (`next`), and `Patched` writes
one or the other over whatever is there by then; an answer that brings a whole row also brings back what
others changed in that row since the answer was made (`older`). `column` and `puts` of `Handlers` also name the
handlers that write that column without patching it: `saveEdit` sends the roles on display along with a
password, and a merge takes the jeugd flag to the other account.

### ShopExpenses, BankCredits and RevolutImport

| Variable | In the code |
|---|---|
| `booked`, `entered` | `shop_expenses`: bookings by hand have ids of their own, imported ones are named by their external id |
| `reviews` | `pending_import_reviews`: for a bank line, the booking it resembles |
| `receipts`, `files` | `shop_expense_receipts` and `RECEIPTS_DIR`, with the stage of each upload and removal |
| `merge` | the transaction of `MergePendingImportReview` between its two decisive statements: photos move to the new booking, then the old one goes with all that refers to it |
| `credits`, `sales`, `panel` | `bank_credit_imports`, the columns of `card_requests` that links look at, the candidates a screen fetched |
| `job` | an import: the lines to do, the line in hand, and what it decided about it |

A merge holds the rows of the review and of both bookings, so others wait for its end
(`Free`, `Untouched`); it sees no photo stored after its `UPDATE`. Only one merge is under
way at a time: two of different rows lock different reviews and conflict only where they
concern one booking, where PostgreSQL aborts one of the two or lets it wait and then find its review gone. Where a merge and a
removal wait for each other PostgreSQL aborts one, which is `MergeFails` or a removal that
does not happen. An import has no transaction: it looks a line up in one step and writes in
the next. `Crash` stops the server: what was under way is lost, rows and files stay.

## Runs

| Run | Instance | Question |
|---|---|---|
| `card_ledger` | one member, one card of 3 knipjes, two days, five lines | do balance, logboek and meals stay consistent through deliveries, meals, manual knipjes, estimates, undos and registrations anew? |
| `card_orders` | two members, two cards of 2 knipjes, two orders, three lines | is each delivered order paid for exactly once, in every order of deliveries, cancellations, rejections and undos? |
| `card_reservation` | one member, one card, one order | are the knipjes of an open order reserved, as the README says? **No.** |
| `members` | three accounts, two cards of 1 knipje, one order, two lines per card | do requests, cards, orders and history keep an owner who can act on them while members are linked, deactivated, merged and deleted, also when an account has the placeholder's name? |
| `accounts` | two Google identities, one of them bootstrap admin, two usernames, one of them `verwijderd-lid`, one browser, two calls in flight, three rows | does any interleaving of logins, links, password changes and admin calls mix up identities, touch the placeholder, or do to an account what `MemberLife` does not allow? |
| `accounts_reserved` | the same, one call at a time | is the account that inherits from deleted members closed, as the code's comment and the README say? **No.** |
| `accounts_unlink` | one admin at the dialog, one local account, one call at a time | does *Koppeling verwijderen* remove the prepared link? **No.** |
| `realtime_refetch` | order page of one of two members, one handler, orders, requests and profile changes, connections break, capacities 1 | does dropping hints lose an announcement; does the page fetch what was announced, and everything after a reconnect? |
| `realtime_mixed` | kraam page and shell, bookings, requests and profile changes, buffers of 2 | what can lose an announcement when hints of different effects mix? |
| `realtime_withdrawn` | kraam page, withdrawals, capacities of the code | does the kraam see the current orders when all is at rest? **No.** |
| `pages` | every handler with every list it concerns, nine journeys to another page and back, eight pairs of handlers, two of which write one column, five pairs with a journey; two rows, two values | do questions and flags stay with their handler, does a row display what the server has, and is a change on display when all has settled? |
| `revolut_import` | two bookings by hand, two bank lines that resemble one of them, a photo, two credits of one amount, a sale of either kind, two beheerders, two imports | are photos shown, lines kept, merges neutral and payments linked once, however imports, merges, edits, links and stops interleave? |

`card_reservation` ends in a violation: a member orders on an active online
card, staff takes a manual knipje from it, and the order claims more than the
card holds. `UseKnipje` looks at `knipjes_remaining` only. Delivery then fails
with `ErrNoKnipjes`; nothing is lost, but the knipjes were not reserved.

`accounts_unlink` ends in one: the button's handler empties the field and then calls
`saveGoogleEmail` of the same render, which still sees the address. It is sent, the
link stays prepared, and the page says *Koppeling klaargezet*. Emptying the field by hand
does not help, as the other button then is disabled; emptying it and pressing the
same button does.

`accounts_reserved` ends in one: an admin logs in, creates an account with the username
`verwijderd-lid`, which `localUsernamePattern` accepts, and later deactivates and deletes
another account. `ensureDeletedMemberPlaceholder` looks for that username and finds the
account, so the history of the deleted member goes to an active account with a password. Its
member can log in, order, and change that password; admins can deactivate it, but then
neither activate, rename nor delete it. For the row that a deletion makes itself the claims hold
(`PlaceholderUntouchable`).

`realtime_withdrawn` ends in one too: rejecting or withdrawing a request deletes the
card and with it its tosti orders, but announces only the payment queue, so the
other pages at the kraam keep showing the orders until the next order hint.

### What the passing runs tell besides

*Hints.* The realtime runs tell what can leave a page behind, and that nothing more
can: a hint dropped at a full channel, or at a buffer full of hints of another
kind, and a profile hint inside the shell's throttle (`Drops` in
`LostOnlyWhenFull`). A change between the fetch at `onopen` and the registration
with the hub is announced to nobody, which is why `owed` starts when a page is both
opened and registered. The next hint of the right kind repairs each; none comes by
itself. Of a page whose hints all have the same effect (`OneEffect`, said per page) `OwedOnTheWay`
holds, whatever else the hub carries to others: the hints that fill a channel or its buffer do the work of the
one dropped. An order page is such a page while its member's account does not change, a kraam page while
nobody buys a card. Otherwise a kraam page gets `tosti_queue` and `payment_requests` hints in one buffer of 8, and
eight of one kind lose one of the other; `LostOnlyWhenFull` says that its own full buffer is the only
place where it loses one.

*Pages.* Some properties of the pages are stated with the exceptions the code has:

- `StuckOnlyByReplacement`: an alert that a handler awaits can be replaced (by the alert of
  a query that failed, or of a handler started with the keyboard under the panel). Its
  promise then never settles: the handler does not go on, and its button stays disabled until
  the page is left. Nothing else does this to an alert that is awaited. The handler of a
  *question* that was replaced waits for good too, but it has set no flag and sent nothing, so no
  button stays disabled.
- `OneAtATime`: holds for a flag that its buttons do not compare with their row and that
  all its handlers set under the same circumstances (`Exclusive`). Where a button asks first
  and another with the same flag does not, the question can be confirmed while the other
  handler is under way; where rows compare the flag with their own number, a second row
  overwrites it.
- `GuessesEnd`: what a row displays is what the server has, unless the handler that changes it is under
  way. A row is excepted when something has gone wrong that `cause` names, and two of these causes are the
  code's own way of taking back a guess. `shared`: two handlers had the row in hand at once. They can, since
  the flag is compared with the row and a second row's press overwrites it; of two refused toggles the
  second then writes back the first one's guess, so that a refused change stays on display until the next
  fetch, and a refused toggle of one role takes an accepted one of the other with it. `stale`: what the
  handler took along was not what the server had when its button was pressed, so what it writes
  back, or sends once more, is out of date.
- `ShownCurrent`: what was changed is on display when all has settled, unless `cause` names
  what went wrong: a request failed (`failed`), the answer to the change was lost (`lost`), the
  profile was read before a change and arrived after it (`crossed`), an older answer removed a
  mark or a patch (`overtaken`), the data still counted as new when the page was opened
  (`cached`), the alert before the refetch was replaced (`displaced`), a patch made a list count as new
  that another handler had marked while it was not on display (`unmarked`), the page that would have heard
  the hint was left for one that does not (`unheard`), or a row was `shared` or `stale` as above. Without any of these
  it fails only for the pairs in `KnownGaps`, where the code changes a list and does not
  fetch it: the bite marks in the header after somebody at the kraam works on a card of her own
  (`myCards`); the suggestions of other bank lines after one was linked; the list of years
  after the first booking of a year; the queue of reviews after the booking they resemble was
  removed; and the cards of a member after a merge.

*Books.* `LinesAreKept`, `PhotosSurviveMerge` and `LinkedFits` name what the code does not
prevent: of two lines that resemble one booking, merging the first drops the other from the
queue, though the page offers a choice for each (an import of the same statement brings it
back, as a booking); a photo stored between the two statements of a merge goes with the old
booking; an import can give a linked line another purpose. A file can be left without a row,
and two uploads at once can exceed the twenty photos of a booking.

**Bounds.** `MaxCards`, `MaxOrders` and `MaxLog` cap the ids and the length of a
logboek so that TLC ends; they are conjuncts of the actions that create rows.
Five lines are an issue, a deduction, its undo, and the same again: the shortest
history in which a day is registered anew or an undo meets an undone line. The
invariants speak of one card or order, or of a pair, and operations touch one
card each (a meal registration touches a set, all in the same way), so two cards
and two orders of two members show the interference there is. In `members` a card id is used once, so
two cards are two requests or sales in a row or side by side, of one or two accounts; the third
account is the one that gets linked, or the placeholder; `FewFlags` (a state constraint) lets at most one
account at a time have the jeugd flag and one be deactivated, since the tables do not
depend on how many do. `Knipjes` is 10 in
the code; 3, 2 and 1 are the smallest that let a delivery take several, exactly
all, or all there is. Members are symmetric and are declared so where there are two.
In `accounts`, `MaxUsers` counts rows ever created: an admin, a local account and a second
Google account or the placeholder; a row lives through login, preparation, link, deactivation and
deletion within that. Races are between two calls, so there are two. `Logins` are the usernames admins
give, the placeholder's among them. The state constraint `PlainReserved` leaves out what follows when an account
with that name has rights or a password it must change, since it then does what any local account
does; the theorems need no such bound. A failed `INSERT` consumes no id in the model, in PostgreSQL it
does; ids are only compared.
`Realtime` has no counters to cap: `todo`, the channels and the buffers are bounded
by the code. A capacity of 1 makes every drop happen within a few steps, and a
buffer of 2 lets hints of two kinds mix in it; `realtime_withdrawn` uses the code's
8, 64 and 256. Each run has one handler at a time that commits and sends; hints of its earlier
operations wait in the channels, which the hub serves in any order. The theorems are for any number of handlers.
`Pages` has nothing that grows. Handlers meet only in the dialog, in a flag and in a list, so
a behaviour looks at one list and at one handler or two (`Scenes`), two values being enough for a column to be
right or wrong; a handler run twice
and a change by an earlier one are in a scene of one handler, as the changes of a run that is
over stay (`Earlier`). Handlers that differ in nothing the engine can tell of the list looked at
(`Likeness`) are represented by one of them. Five scenes have two handlers and a journey at any
moment (`Partings`), two have two handlers that write one column of two rows (`Columns`); the state constraint
`Undisturbed` ends a behaviour there once a cause is named, since `GuessesEnd` and `ShownCurrent` say no more then
and the other scenes do all the rest. Rows are symmetric, and so
are runs: a scene of one run is the same whichever run it is. The theorems need no such bound.
In `revolut_import` the bookings entered by hand have an id each, used once; two bank lines that
resemble one booking are the least at which one merge concerns another line, and two
credits, sales and beheerders the least at which links compete. `MaxReceipts` is 1 for 20. The
bank's side and the shop's side share only the import, so the state constraint `Apart` explores each
in full while the other is at rest; the theorems need no such bound.

**Deadlock.** TLC's check for deadlock is on in all runs but `pages`: some operation is always
possible, be it setting the jeugd flag, a login, a handler's commit or another import. A page can
really stop: when its only handler waits for an alert that was replaced and its button is disabled,
nothing happens until somebody leaves the page, which not every scene includes.

**Fairness.** `CardStore`, `Members`, `Accounts`, `Pages` and `RevolutImport` assume none: people
decide when the operations happen and the network when answers come, so nothing must happen, and
no property there says that something does. `Realtime` assumes weak
fairness of what runs by itself: a handler makes its calls (they never block), the
hub's loop serves every channel that has something in it (`select` chooses at
random among the ready cases, so none is passed over for ever; channels do not
become empty but by the loop), a page reconnects (`onclose` sets a timer),
registers and handles its events, and a query is answered. `Commit` and `Break`
have no fairness: changes and failures may stop or go on for ever.
`CatchesUp` therefore allows for a connection that breaks again.

## What is proved

`CardStoreProofs` proves for every number of members, days, knipjes per card
(at least one) and every bound:

- `TypeCorrect`: `Spec => []TypeOK`. No balance leaves `0..Knipjes`, every log
  line, request and order is well formed and every table that hangs from `cards`
  has rows for the cards that exist. `TypeOK` is inductive: there is one lemma per
  action, each from lemmas on the shape of what the action writes
  (`BookShape`, `MealShape`, `UndoShape`, `UndoneLogShape`).
- `LedgerCorrect`: `Spec => []LedgerChain`. The inductive invariant is
  `TypeOK /\ LedgerChain`. The argument is one lemma, `ChainExtended`: a log stays a
  chain when a line that starts from the last balance is appended and the older
  lines keep balance and delta. Deliveries, knipjes and estimates append one
  line (`BookChain`); an undo also changes links of older lines, which is where
  the type invariant is needed, and may not touch the first line, which holds
  because an issue cannot be undone.

`LogProofs` proves what the lines of a logboek say about each other:

- `LinksPair`: `Spec => []UndoLinks`.
- `MealsPaidOnce`: `Spec => []MealsMatchLog`.
- `LogsGrow`: `Spec => LogAppendOnly`.
- `BalanceIsWhatStands`: `Spec => []OnlineBalance`.

The invariant `LogsOK` speaks of one card at a time: its log is `Linked` and `MealsPaid` for the days
registered on it (`MealDays`). Both are proved once for a log that got a line
(`LinkedAppend`, `PaidAppend`, `PaidMeal`) and once for an undone one (`LinkedUndone`, `PaidUndone`), from one lemma that
says which columns an undo leaves (`UndoneColumns`). `Linked` also bounds what a
link may point at: a log never has a link to a line that is yet to be written, which is what makes the
new line of an undo pair with the undone line alone. Every step gives `LogGood`: `LogsOK` afterwards, and each log `Older` than
what it becomes.

`OnlineBalance` adds up the lines of a log that nobody undid, and TLA+ sums over a set by choosing an
order. `SumIsTotal` says that the order makes no difference, so that such a sum has one value
(`Total`) which a new line adds to and an undone one leaves. The induction is over finite subsets of the
log: were there a set whose sums differ there would be a smallest one
(`SmallestSet`, from the library's well-founded order on finite sets), and the sums of that set come from
smaller ones. The invariant `OnlineOK` says of an online card that its log is `Balanced`: the first
line is its issue and stands, every other line that stands takes something, and the knipjes are the total.
That is why an undo never makes the balance of an online card more than a full card.

`SalesProofs` proves that requests, cards and orders keep corresponding:

- `SalesAndCards`, `FirstAccordThenUse`, `OrdersOnOwnCards`: `Spec => []P` for `CardsMatchRequests`,
  `InactiveUntouched` and `PendingOrdersOnOwnCard`.
- `OrdersCloseOnce`: `Spec => ClosedOrdersFinal`.

The invariant `SalesOK` is the conjunction of the three with `OnePendingPerKind` and `OrdersHaveCards`.
(That a creation leaves one open request of a kind is the unique index, which is its guard: the code's look
for one and its `INSERT` are one step here, in the database two calls can both pass the look.) They need each other: a
withdrawal deletes the card of a pending request, and that no other request loses its card is
`CardsMatchRequests`, that no line and no delivered order goes with it is `InactiveUntouched`. The other way round, nothing is
booked on an awaiting card because each action asks for it (`UseKnipje`, a meal, a delivery from an online card), because
the card is physical and so never awaits, or because the log has only its issue, which cannot be undone.
Six actions thus satisfy `KeepsSales`, and `KeptSales` is proved for all of them at once.

`SalesProofs` ends with `OrdersPaidOnce`: `Spec => []OrdersMatchLog`. Its invariant `PaymentsOK` says
pointwise what the property counts: a line that names an order pays for it and is the only
one on its card to do so, and a delivered order with a card has such a line. Two lines for one order cannot be
on two cards, since the order names the card it was delivered from. Only a delivery from a card books a
line that names an order, and the order was pending, so no line named it before; all other actions satisfy
`NoPayment`, and `SalesOK` and `OrdersCloseOnce` give that no order loses its card or its state.

These three modules rest on the three assumptions on constants in `CardStore`, which TLC evaluates
in every run, and on the library's facts about sequences and finite sets.

`MembersProofs` proves for the composition with the life of accounts, under the same
assumptions:

- `NothingOrphaned`: `MembersSpec => []OwnersExist`.
- `LedgerSurvives`: `MembersSpec => [](TypeOK /\ LedgerChain)`;
- `SalesSurvive` and `BooksSurvive`: `CardsMatchRequests`, `OnePendingPerKind`, `InactiveUntouched`,
  `PendingOrdersOnOwnCard`, `UndoLinks`, `MealsMatchLog`, `OnlineBalance` and `OrdersMatchLog` in every
  reachable state of `MembersSpec`;
- `HistoryStays`: `MembersSpec => HistoryKept`.

The first two follow from the invariant `MembersInv == LifeTyped /\ TypeOK /\ LedgerChain /\ OwnersExist`.
It has to hold the four parts together: a merge reads the types of both members' rows,
and `OwnersExist` needs to know which life each account has. A deletion or a merge is a
composition of operators on the tables as one record, as in `users_lifecycle.go`, so
there is one lemma per operator (`CancelledKeeps`, `WithoutCardsKeeps`,
`ReassignedKeeps`, `WithoutUserKeeps`), each saying what it keeps of `TypedTables`, `ChainedTables` and
`OwnedTables`, and `DeleteStep` and `MergeStep` chain them. An operation of the knipjes
administration is a step of `CardStore` (`CardStepIsNext`), so `TypeStep` and `LedgerStep` of
`CardStoreProofs` carry over; that it leaves `OwnersExist` is `RowStepOwners` and
`MemberStepOwners`: either no row gets another owner, or the new row belongs to the member
who acts, who has an account.

The others add `BooksInv == SalesOK /\ LogsOK /\ OnlineOK /\ PaymentsOK`, the invariants of `LogProofs` and
`SalesProofs`, whose step lemmas carry over as well. What is new is a deletion or a merge, and both come to
the same (`PassedOn`): some open requests are withdrawn with their cards, the rows of one account pass to
another (`Heir`), and otherwise at most open orders are cancelled. `CancelledPasses`, `ReassignedPasses` and
`WithoutUserPasses` say so of each statement, the last because nothing is left for its cascade, and
`PassedTwice` composes them. A card that goes with a request belongs to no other request (`GoneAwaits`), which
is `CardsMatchRequests` before the step; that two open requests of one kind do not come to one member is
`OpenFree`: after a deletion none of the member's are open, and a merge has the unique index (`MergeConflict`)
against it. `HistoryStays` follows from the same facts (`PassedHistory`), and for the
operations of the administration from `AccordedStay`, which `SalesStep` gives, and `ClosedStay`.

`RealtimeProofs` proves for every set of members, pages, handlers and operations and
for all capacities (at least 1):

- `TypeCorrect`: `Spec => []TypeOK`; in particular no channel and no buffer ever
  holds more than its capacity.
- `NothingLost`: `Spec => []OwedOnTheWay`, for each page whose hints have one effect, whatever the
  operations and whatever other pages hear; of other pages it says nothing, and there it would be
  false (a buffer full of order hints drops the payment hint). `OwedOnTheWay` is not inductive: a
  member's own notification can be dropped at a channel that is full of other
  members' notifications. The invariant `OwedInv` says instead that what is owed
  comes by a *broadcast* (`OrderHint`): it is being fetched, or the page's buffer is not
  empty, or that broadcast's channel is not empty, or a handler still has to send
  it. A full channel and a full buffer are not empty (`OfferType`), every hint in
  the page's buffer has the same effect (`Alike`), so each drop leaves
  something that does the work of what was dropped.
- `LostWithADrop`: `Spec => LostOnlyWhenFull`, with hints of every effect mixed. There is one lemma
  per action that takes a hint from where it is (`KeptSendHint`, `KeptRun`, `KeptOnMessage`): it arrives at the
  next place, or that place is full and the step drops it, or the page fetches what it announces.

They rest on the assumptions of `Realtime`. That the page then fetches (`Refetched`,
`CatchesUp`) is liveness and stays with TLC.

`RevolutImportProofs` proves for any number of bookings, bank lines, photos, credits, sales,
beheerders and imports, and any maximum of photos, without the state constraint of the run:

- `TypeCorrect`, `PhotosShown`, `PaidOnce`: `TypeOK`, `PhotosCanBeShown` and `LinkedFits` in every
  reachable state;
- `PhotosFollow`, `LinesKept`, `MergesNeutral`: every step is as `PhotosSurviveMerge`,
  `LinesAreKept` and `MergeIsNeutral` demand.

The invariant `IInv` is `ShopInv /\ BankInv /\ JobInv`. None of the properties is inductive.
A photo can be shown because its file is written before its row and removed after it: `PhotoOK`
adds that a photo whose upload has reached the disk has its file, and `MergeOK` that the photos a
merge moves stay where they are, which its locks see to. `LinkedFits` needs that what a screen
offers was accorded and paid by Tikkie, which is for good (`OffersPaid`): the link looks at everything
else again. A merge is neutral because the rows of the queue have the worth of the booking they
resemble (`Resembling`), and `PlanFits` says the same of an import between its look and its write. An
action touches one of the three parts, except those of an import, so the proof that `IInv` is kept
has one lemma per action on its own part; `PhotoStep`, `QueueStep`, `CreditStep` and `JobStep` say what
a change of one row asks for. The three action properties follow from what a removal and a merge do
(`DeletionEffect`, `MergeEffect`) and from `HarmlessStep`: all other steps only add.

`AccountsProofs` proves for any number of identities, usernames, browsers, calls in flight and
rows, from the assumptions of `Accounts`: bootstrap admins are identities, the bound is a number, and no
username or address is the value that stands for none. The username of the placeholder may be among `Logins`.

- `TypeCorrect`, `IdentitiesKept`: `TypeOK` and `Identities` in every reachable state; of the latter, that every
  row is of one kind in all its columns is what the code keeps, that an identity or username has one row
  rests on the unique indexes at the `INSERT` and the link;
- `PlaceholderKept`: every step is as `PlaceholderUntouchable` demands;
- `LivesImplemented`: `Spec => Implements`, the refinement of `MemberLife`.

Calls in flight are why the invariant `IInv == RowsInv /\ CallsInv` is needed. Of the rows it adds
that a placeholder is as `AdminDeleteUser` made it (`Untouched`): without a usable password, so that nobody
logs in as it, and deactivated. An account that an admin gave the name (`Reserved`) is told from it by its
password, and the username's unique index lets only one of the two exist. Of the calls it adds what they have in hand (`CallOK`): a row whose
address is about to be written is locked and still a local account, and a row chosen for a new password
is not the placeholder: it was there before it, or is an account with its name. Every statement does one of five things to
the rows, and a lemma for each says what it keeps and which step of `MemberLife` it is: nothing
(`SameRows`), another value in a row (`UpdatedRow`, `ActivatedRow`), a link (`LinkedRow`), a new row
(`NewRow`), a row less (`MergedRow`, `DeletedRow`, and `FirstDeletion`, which also makes the placeholder).
The guards of the code are the premises of these lemmas: that a link asks for an account that is not
deactivated and an identity without one, that an `UPDATE` for a local account finds nothing once it was
linked. One lemma per action (`...Fine`) then only shows which of them applies.

`PagesProofs` proves for every program of handlers that fits the engine, with any number of runs at a
time, rows, flags, lists and pages, from the assumptions of `Pages` and `PagesProps`:

- `PagesTyped`, `PanelAnswersItsHandler`, `StuckByReplacement`, `FlagsAreHeld`, `ExclusiveFlags`,
  `GuessesAreTakenBack`: `Spec => []P` for `TypeOK`, `DialogMatches`, `StuckOnlyByReplacement`, `FlagsHeld`,
  `OneAtATime` and `GuessesEnd`.

`HandlersAssumption` in `PagesProps` says what the pages see to with their flags: a button is disabled by the
flag it sets, and the buttons of one page that share a flag all compare it with their row or all do not.
TLC evaluates it in the run `pages` for the handlers of the program. The invariant is `PagesOK`. The
properties of the dialog need only that a run asks and tells as its stage says (`HandlersOK`).
`OneAtATime` is not inductive: a flag that keeps a second handler out has to be set in the first place
(`FlagsSet`: nothing but the end of its handler clears an exclusive flag) and a question that is open when
the flag is set must not be answered after (`QuestionAlone`: handlers with an exclusive flag all ask, so one
starts by closing a question, and there is one). `GuessesEnd` is not inductive either, as what a handler writes back
is right only if nothing came between: as long as there is no cause, `GuessOK` says that a row that is patched
is in one hand (`RowsApart`), that what the handler took along is what the server has until it acts,
and what it writes is what the server has from then on (`HoldsTrue`), that an answer under way has what the
server has in every row but those whose handler has an answer to come (`ReadTrue`), and so has the display, but for
rows whose handler is under way (`ShownTrue`). `Shared`, `Stale` and `PatchRisks` are what an action
must not meet to keep this, and there they name the cause. An action does
one of a few things to stages and panel (`Quiet`, `Told`, `Ended`, `Closed`, `Asks`, `Sends`, `Confirmed`, `Goes`,
`Folds`); one lemma per action says which, and each part of the invariant is proved once for each of these
shapes.

- `ShownInTheEnd`: `Spec => []ShownCurrent`.

Its invariant, `ListOK`, follows each change that the data lack (`missing`) or that a fetch under way has
missed (`late`) to what will bring it. `Settling` says of the first: the answer under way will have it
(`Comes`), or it is promised, or its own handler will patch it in (`Patching`). Promised means that a
handler which changed the list has yet to have it fetched (`Owing`), that a hint the page hears is on its
way (`Heard`), or that the list is not on display and marked (`Marked`). Of the second it says the same
without an answer, since the fetch under way brings nothing newer; the profile is the exception, as nothing
gives up an older request for it (`crossed`). That holds until `cause` names something (`Covered`), and
needs that a refetch promised by a handler is one it really gets to: an alert is not awaited in vain unless
it was displaced (`Going`). `CacheOK` ties the marks of the cache together, `WorkOK` says that handlers
belong to the scene and ask for no profile before they have an answer. The steps fall into those that only
pass work on (`Tame` and `Loyal`: no handler drops what it owes; `CarryList` does all of these at once) and
those that change, fetch, invalidate or patch (`AnswerList`, `FetchList`, `ResumeList`, `NavigateList` and
`ProfileList` with the lemmas before them). At rest nobody owes, nothing is under way and the list is on
display, so nothing is missing, and no handler that patches has a row in hand, so by `ShownTrue` every row
displays what the server has.

`RefetchAssumption` in `PagesProps` is what the pages see to: a handler fetches, patches or hears of each list on its
page that it changes, but for `KnownGaps`. TLC evaluates it for the handlers of the program. The proof could not be
had from the model as it first was, and TLC confirmed on scenes the runs did not cover that `ShownCurrent` failed
there, each time as the code does: a second request of a handler (a photo) that is answered on a page on which its list
still counts as new; a patch that clears the mark another handler left on a list out of sight; a hint that arrives
after its page was left. The first is now recorded as `cached` too, the others as `unmarked` and `unheard`, with
their scenes in the run.

Every invariant and action property of a passing run is thus proved, and so is the refinement. Liveness
(`Refetched`, `CatchesUp`) is model-checked only: it is out of the provers' reach. Four properties are false
(the runs that expect a violation).

## What is not modelled

- Of the knipjes administration: `CancelAllPendingCardRequestsForUser` (its query locks the nullable
  side of a `LEFT JOIN`, which PostgreSQL rejects, so it never changes a row); the statements inside a
  transaction with their row locks, so neither `created_at`, which is the start of a transaction and need
  not follow the order of the logboek's lines, nor the choice of a physical card that was emptied
  while the call waited for its lock, nor the deadlocks PostgreSQL breaks; the price that is
  recorded with a sale, which is read before the transaction. As a transaction is one step, the properties do not
  tell whether one that fails halfway leaves nothing behind, which is PostgreSQL's promise and holds
  as long as every statement is in it; nor which of two creations of a request wins, which the unique index decides.
- Of accounts: the OAuth state of a login, rate limits and the list of public paths (which lacks
  `/account/password`, so that a reload of that page is a 404), the operator flag (set wherever
  `is_admin` is, it gates none of these operations), and the tables that only store who did something.
- Of the books: the CSV parser and the fingerprint of lines without an id (identical lines become
  one), the preview (read only), the balance snapshot (one row, the last import wins, also one of an
  older statement), a booking's purpose (one column, overwritten by the next import), the control figures and
  the manual corrections (rows nothing refers to), the command-line import (the same functions), and
  faults of the connection to the database: an `INSERT` that commits while its answer is lost
  makes the upload remove the file of a stored photo.
- Of the realtime hints: the half of a broken connection that the server keeps
  until its read deadline passes (only its own buffer fills), pings, the check of
  the message's shape, the connections of people who may not have one, and what the shell
  misses while its connection is away (it ignores the reconnect).
- Of the pages: what is filled in, selected or filtered (a refetch overwrites a half-filled settings form
  and empties the selection of avondeten; a booking whose photo was refused is entered again when
  the form is sent again), columns of a list that no handler patches, rows that come and go (a deleted row stays in
  the column as a cell of which nothing is displayed any more; a photo that an answer adds is added a second
  time when a fetch already had it), queries that are thrown away after five minutes without a page, two
  browsers that write one row, paging, rendering, and the schemas of answers.
- Settings, reports, the HTTP server and its configuration, backups and deployment: they keep no state
  that another part depends on in an order.
- Text: names, remarks, notes, bread and filling, messages.

## Order of the work, and what is left

1. `CardStore`, its properties and proofs; `Members`, `Accounts` and the accounts page; `Realtime`.
2. `Pages` with the handlers of every page.
3. `ShopExpenses`, `BankCredits` and `RevolutImport` with their proofs.
4. `AccountsProofs`, `LogProofs` (its sums last), `SalesProofs` and `PagesProofs`.

Left, of what is not modelled: the locks inside a transaction of the knipjes administration.
