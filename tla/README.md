# Verification of legero-backend

TLA+ models of the backend of a restaurant's order board, checked by TLC on
small instances and, where marked, proved by TLAPS for every instance.
Everything is translated from the Go source in `src/`; PostgreSQL, the Go
runtime and the network are modelled from how the code uses them.

## 1. The system

    client --HTTP--> handler/v1,v2 --> service/v1 --> repo --> PostgreSQL
       ^                                   |
       |                                   | Publish, after the commit
       +--WebSocket-- handler/v1/realtime <-- infra/realtime broker

The process is a single Go binary.  Every HTTP request runs in a goroutine of
its own; all shared state is in PostgreSQL, except the broker's subscribers
and the one-time WebSocket tickets, which live in memory and are lost in a
restart.

| Part | State | Operations | Talks to |
|---|---|---|---|
| order progress (`domain/order_status.go`) | form, two step statuses, served mark of one order | `ToggleStep`, `ToggleServed`, `CanServe`, `InitialStepStatuses` | pure; called by the order service |
| order service (`service/v1/order.go`) | none of its own | `CreateBatch`, `UpdateForm`, `ToggleStep`, `ToggleServed`, `Remove`, `ClearWorkspace`, `List`, `ListActive` | repos in one transaction per call, then the broker |
| storage (`repo/order.go`, `repo/counter.go`, migrations) | tables `orders`, `workspace_daily_counters` | the SQL statements | PostgreSQL at READ COMMITTED, the default of `RunInTx(ctx, nil, ...)` |
| broker (`infra/realtime/broker.go`) | mutex, subscribers with a bounded channel each | `Publish`, `Subscribe`, `cancel` | called by services and by connections |
| realtime connection (`handler/v1/realtime.go`) | per connection: socket, three goroutines, `errCh` | `ServeWS`, `readLoop`, `writeLoop`, `CreateSession` | broker, sessions |
| sessions (`infra/realtime/session.go`) | tickets with expiry | `Issue`, `Consume` | connection handler |
| authentication (`service/v1/auth.go`) | table `refresh_tokens` | `Login`, `Refresh`, `Bootstrap`, `RequireAccessToken` | repos, `ListActive` |
| users (`service/v1/user.go`) | `users`, `workspaces`, members | `CreateUser` | repos |
| form and price (`domain/order_normalization.go`, `order_pricing.go`) | - | `Normalize`, `CalculateTotalPriceCents` | pure |
| statistics (`service/v1/stats.go`, `domain/report.go`, `repo/stats.go`) | - | `Daily`, `Report` | one query each |
| lifecycle (`app/app.go`, `infra/shutdown`) | listener, signal | `Run`, `Shutdown` | HTTP server |
| request timing (`infra/performance`) | a trace per request | `RecordQuery`, `Finish` | bun hook, middleware |

What is hard here, and what makes each part correct:

* **Orders.** A mutation reads the order without a lock, checks its token
  (`expectedVersion`, or the older `expectedUpdatedAt`, or none), computes a
  whole new row from what it read, and writes that row; only `version` is
  computed by the database.  Correct means: no interleaving commits an
  inconsistent order; a versioned write never undoes another; a version
  identifies contents; ids that are gone stay gone.
* **Numbers.** Batches of a business day share a counter whose row lock orders
  them; clears delete orders and counters in two statements.  Correct means:
  numbers of a committed batch are exactly the counter's advance, and the
  counter never falls behind the orders.  The second half does not hold when
  a clear races with a create (section 5).
* **Commit, then publish.** Events are sent after the commit, by different
  goroutines, and a crash can come in between.  Correct means: what an event
  says is durable when it is sent.  Events of two commits may be published in
  either order, and a commit may have no event.
* **Broker and connections.** `Publish` runs inside service calls and holds
  one mutex for all workspaces, so it must never wait for a client; a slow
  client is dropped while its write loop is still reading the channel that is
  emptied and closed.  Correct means: no hole in any client's stream, no
  double close, no goroutine left behind, no publisher held up.
* **Sessions.** `Issue` and `Consume` read the clock before they take the
  mutex, and each prunes what has expired at its own instant.  Correct means:
  a ticket opens one connection at most, and no call removes a ticket that is
  still good.
* **Users and refresh tokens.** `create-user` looks a phone up outside its
  transaction and relies on the unique index.  `Refresh` reads its token `FOR
  UPDATE`, stores a replacement and marks the old one.  Correct means: a
  user is created whole or not at all; each login has exactly one good refresh
  token at any time, and a used one never works again.
* **Forms and frames.** Normalization is a sequence of rules that decide on
  each other's fields; a batch is published in frames with a limit of orders
  and of bytes.  Correct means: what is stored is clean and stays as it is
  when it is submitted again; each order is in exactly one frame.
* **Listing.** A client fetches pages one by one with a cursor that holds the
  sort key of the last order it was given, while orders are made, served and
  removed.  Correct means: an order that keeps its place is listed exactly
  once.
* **The board of a client.** A client connects, reads a snapshot, and applies
  events that are published in another order than they were committed in.
  Correct means: when everything has arrived it shows the active orders.
* **Reports.** Windows are calendar days of a time zone, which may last 23 or
  25 hours; the same order is counted by two endpoints and in several
  overlapping groups.  Correct means: the endpoints agree and the numbers of a
  report add up.
* **Lifecycle and timing.** `Run` waits for a signal, drains requests with a
  deadline, and only then is the database closed.  A request's query count is
  frozen when its header is sent, while its queries may go on.  Correct means:
  the process ends, no handler that ends in time loses the database, and a
  header counts its own request's queries.

## 2. Plan

Built, in this order: `OrderStatus`, `Orders` (with `OrderLedger`), `Broker`,
`Realtime`; the proofs about `Orders` (`OrdersProofs`, `OrdersLockProofs`,
`OrdersLedgerProofs`); `Sessions`; `Users`, `Auth` (with `TokenLines`);
`OrderForm`, `OrderIntake`; the readers of the order table, `OrderTable`,
`OrderPages`, `Board`, `Reports`; `Server`, one process around the tickets;
`RealtimeProofs`, `ServerProofs`; `AuthProofs`, `IntakeProofs`,
`ReadersProofs`.

Left: `Sessions` composed with `Realtime`, in which a dropped client needs a new
ticket.

## 3. Modules

| Module | Models | State and actions |
|---|---|---|
| `OrderStatus` | `domain/order_status.go` | operators only. The form is cut down to the staple and the meats, on which alone progress depends; `completed_at` is the Boolean `served` |
| `Orders` | order service, repos, tables | `orders`, `counters`: committed rows. Per request `pc`, `call`, `cur` (row read), `rows`, `ctrs` (uncommitted writes, at the same time the locks held). One action per SQL statement; `Commit` and `Publish` are steps of their own |
| `OrderLedger` | abstract | the committed board: add a batch, revise one order, erase |
| `Broker` | `infra/realtime/broker.go` | `mu`, `subs`, `queue`, `closed`, `overflow`. One action per channel operation, because receivers do not take the mutex |
| `Realtime` | `ServeWS` and its loops | `handler`, `reader`, `writer` stand for the three goroutines of a connection, `errs` for `errCh`, `out` for the frames of a split batch |
| `Sessions` | `infra/realtime/session.go`, `CreateSession`, the head of `ServeWS` | `sessions`, `expires`: the map. A call is two steps, the clock and the critical section (`IssueCall`, `Issue`; `ConsumeCall`, `Consume`), then `Admit`. `opened`, `used`, `lost`, `refused` are history |
| `Users` | `service/v1/user.go`, its repositories and tables | `users`, `workspaces`, `members`: committed; per command `step`, `input`, `written`. One action per SQL statement |
| `Auth` | `service/v1/auth.go`, `repo/refresh_token.go` | extends `Users`; `tokens`: committed rows, `claims`: what a token's text says; per request `pc`, `call`, `cur` (the row it locked), `made`, `rows`. `known`, `shown`: what clients were given and sent back |
| `TokenLines` | abstract | each login's line of refresh tokens, one good at a time |
| `OrderForm` | `order_normalization.go`, `order_pricing.go` | operators only: `Normalize`, `TotalPrice` |
| `OrderTable` | what readers see of `orders`; `time.In`, `time.Date` | `table`: per id the columns readers sort and group by; `erased`. A commit is one step (`Add`, `Revise`, `Erase`: those of `OrderLedger`). `Midnight` looks the zone's offset up twice, as `time.Date` does |
| `OrderPages` | `List` of `repo/order.go`, limits of `service/v1/order.go` and the handler | extends `OrderTable`; `walk`, `cursor`, `seen`; `steady` is history. One action per page (`Page`), and commits in between (`Meanwhile`) |
| `Board` | events and `ListActive` as a client meets them | extends `OrderTable`; `pending`: events committed and not yet published; `view`, `deleted`, `barrier`: the client's. `Publish(e)` takes any pending event: operations publish in any order |
| `Reports` | `service/v1/stats.go`, `repo/stats.go`, `domain/report.go` | extends `OrderTable`, `OrderForm`; `asked`: the request. `Daily` and `Report` are functions of the table |
| `Server` | `app/app.go`, `infra/shutdown`, `cmd/serve.go`, `infra/performance`, its middleware | extends `Sessions`; `run`, `listener`, `late`, `dbOpen`: where the process is; per request `stage`, `trace`, `header`. Every end of a process is followed by a new one (`NewProcess`) |
| `OrderIntake` | `normalizeOrderForm`, `publishUpserts` | extends `OrderForm`; `form` as stored last, then `quantity`, `start`, `frames` of a batch. One action per frame |
| `MCOrders`, `MCRealtime`, `MCServer`, `MCAuth`, `MCIntake` | - | values of the constants |
| `MCReaders` | - | composes `OrderPages`, `Board` and `Reports` over one table, with a time zone |
| `OrdersProofs` | - | types and consistency of `Orders` |
| `OrdersLockProofs` | - | row locks, versions and events; extends `OrdersProofs` |
| `OrdersLedgerProofs` | - | numbers, and `Orders` implements `OrderLedger`; extends `OrdersLockProofs` |
| `RealtimeProofs` | - | broker and connections |
| `ReadersProofs` | - | pages, the board of a client, statistics |
| `ServerProofs` | - | tickets, the process, and that it uses tickets as `Sessions` says |
| `AuthProofs` | - | user creation, refresh tokens, and that `Auth` implements `TokenLines` |
| `IntakeProofs` | - | normalization, prices and frames |

How PostgreSQL appears in `Orders`:

* A plain `SELECT` sees committed rows only and takes no lock (`ReadOrder`).
* `UPDATE` and `DELETE` wait for the row lock and then see the row as it is
  (`WriteHits`); if it no longer matches, no row is affected.
* A `DELETE` over many rows picks them from the snapshot at its start
  (`ScanOrders`) and then waits for each (`SweepOrders`); rows that appear
  meanwhile are missed.  The counters are a second statement.
* The unique index on `(workspace_id, display_no)` makes an insert wait for a
  transaction that writes the same number and fail if the number stays taken.
* Locks last until the transaction ends; a deadlock of two is broken by
  aborting one.
* A transaction can fail at any statement, its commit answer can be lost
  (`CommitUnacknowledged`), and the process can stop (`Crash`), which loses
  every request in flight.

Definitions whose comment begins with "Mutant" are variations of the next
definition; no specification uses them.  They record the mistakes that the
properties detect.

## 4. Runs

Passing runs (2 workers):

| Run | Question | Bounds |
|---|---|---|
| `orders_edit` | can stale reads produce an inconsistent order, do versions do their work, is what is published committed? | 2 requests, one order with no or both steps, versions up to 3, 2 clock values, every token a client may have seen |
| `orders_ledger` | do the tables follow `OrderLedger`? | all operations, 2 requests, 2 orders with one step, batch of 2 |
| `orders_covers` | numbers, counters and the clear barrier when clears run alone | 2 requests, 3 orders, 2 days |
| `orders_live` | do calls in lock cycles end? | 2 requests, the state after a raced clear |
| `realtime_stream` | prefix of the stream, no panic, registration | 1 legacy connection, 2 workspaces, 2 publishers, queue of 2, 3 messages of up to 2 orders |
| `tickets` | one connection per ticket; is a good ticket ever refused; does the database outlive the handlers, does each timing header count its own request, does the process end? | 2 requests, 2 tickets, lifetime 2, clock up to 2, 1 query per request, signals, hanging handlers and crashes at any time |
| `tokens` | do tokens follow `TokenLines`; are users created whole, and found whole by logins? | 2 commands for one phone, 2 requests, 1 login, 3 tokens, lifetimes of one instant, clock up to 1 |
| `forms` | are stored forms clean, stable and priced by their fields; do frames cover a batch within the budget? | every field with valid and invalid values, all edits of one field (and of size with price); batches of up to 4, 3 per frame, budgets that 2 orders fit or do not |
| `readers` | do pages list every order once; does a client end up with the board; do the two statistics endpoints agree and add up? | 3 orders, each changed up to twice; batches of one to three; days of 4, 3 and 5 instants; page limits 1, 3 (cut to 2) and none; events in flight and orders together up to 5 |
| `realtime_live` | publishers return, goroutines end, events arrive | 1 connection that may or may not go on reading, queue of 1, 3 messages |

`orders_live` starts from a state that a raced clear leaves behind
(`InitAfterRace`), the shortest way to the lock cycle between a create that
waits on the unique index and a clear that waits for its counter.  From the
empty board the cycle needs more calls than fit the bound.

Why the bounds are enough to be interesting.  Every hazard of `Orders` is a
race of two transactions over one row, one counter or one number; two requests
and one or two orders reach each of them, and two days make cross-midnight
cases possible.  The broker handles each subscriber independently of the
others except for the mutex; a queue of one or two overflows within three
messages, which leaves one message each for before, at and after the overflow.
Requests, and publishers, are interchangeable, and declared symmetric in runs
without liveness.

In `tokens`, three tokens are a login and two refreshes: two that race for the
first token, or one after the other.  A token expires between them when the
clock ticks.  In `forms`, sizes in bytes are scaled down; `IntakeAssumption`
keeps what the code relies on, that one order with the longest note, escaped at
its worst, fits a frame (64 KiB against a note of 1024 bytes).  A batch has one
form, so its orders have one size.

In `readers`, one reader, chosen at the start, runs beside the commits: readers
change nothing, so two of them never meet.  `ZoneOffset` puts the clock forward
within one day and back within the next; `ZoneAssumption` states that an instant
is on a date or a later one exactly if it is not before that date's midnight,
and that the zone leaves no date out (`ZoneHolds`), which is false of the few
zones that change clocks at or across midnight.  Limits of the code (50 and 200 orders on a page, 366
days, 5 peaks, half an hour) are scaled down, so that each is reached and
exceeded.  `MaxPending` also bounds the orders ever made in the `Board` part:
`5` allows two events of an order to overtake each other while a third commit,
a clear and a snapshot come in between.

The client of `Board` is another program.  Its rules are the ones the events
are made for: newest version wins, deletions are remembered while connected,
`clear_date_key` hides what is older, a clear of everything starts anew.
`QuietClientShowsBoard` leaves out what the code does not promise such a client,
and says so with three parts of the state:

* `missed`: a change committed without an event (crash, or a commit whose
  answer was lost), until a snapshot or a later event makes up for it;
* orders behind the barrier of a clear they survived (`orders_clear_key`);
* `unsure`: an order whose deletion was published before the client connected
  or started anew, and whose upsert is published after; it stays on the screen
  until the next snapshot.

In `Reports`, sizes and staples stand for the breakdowns by one field, lean
meat and "no intestine" for those that overlap.  A form with lean meat only has
no intestine, so today their union is the second of them; the module computes
both, as the code does.

`CHECK_DEADLOCK FALSE` is set for the realtime runs, `tokens` and `readers`: a
connection that is closed, messages that are used up, commands that ended,
tokens and ids that are used up are a proper end.

Fairness.  In `Orders`, each request's next statement is strongly fair
(PostgreSQL serves lock waiters in turn) and deadlocks between two
transactions are broken; failures, crashes, the clock and clients are not
assumed to happen.  Without the deadlock detector `CallsFinish` fails.  In
`Realtime`, publishers and handlers are strongly fair because they compete for
`sync.Mutex`, which hands over to a waiter after a millisecond; the loops are
weakly fair, every write having a deadline; the `select` of the write loop,
which chooses at random among ready cases, is strongly fair for messages.
Nothing is assumed of a connection in `stuck`, which is chosen at the start:
`PublishAlwaysReturns` has to hold for it too.  In `Server`, the drain's end or
its timer, the cleanup and the exit are weakly fair: they are steps of the main
goroutine and of a timer of the Go runtime.  Nothing is assumed of handlers,
which may hang, nor that a signal ever comes.

## 5. Findings

* `orders_clear_race` - `clearWorkspaceInTx` deletes orders and counters with
  two statements under READ COMMITTED.  A batch that commits in between keeps
  its orders and loses its counter; the next creates of the day are numbered
  from 1 again and rejected by the unique index.
* `orders_clear_key` - `ClearedEvent.ClearDateKey` is documented as a barrier
  behind which the server keeps nothing.  A batch dated before midnight that
  commits after a `before_today` clear of the next day is kept behind it.

`orders_covers` shows that both properties hold when clears run alone.

## 6. Proofs

Everything below is proved for any number of requests, orders, forms, days
and bounds that satisfy `OrdersAssumption` (and `StapleAssumption` of
`OrderStatus`).  The PostgreSQL behaviour written into `Orders` (section 3) is
the other premise.  Each invariant is inductive relative to the ones before it;
each was checked by TLC before it was proved.  Steps of one request are
reduced to that request by one lemma per module (`ShapeKept`, `LocalStep`,
`LocalNumbers`); commits, the only steps that change what others see, have a
lemma of their own (`CommitLocks`, `CommitNumbers`, `PastKept`).

| Theorem | Property | Inductive invariant, and why it is needed |
|---|---|---|
| `TypesHold` | `TypeOK` | `TypeInv` = `TypeOK` and `Shape`: that a written row is a row depends on what the request knows at its statement, e.g. that at its `UPDATE` it has read a row and, to serve it, found it ready |
| `OrdersStayConsistent` | `OrdersConsistent` | `RowsConsistent`: consistency of every row read and every row about to be committed as well. No use of versions or locks: a write replaces the whole row by one computed from a consistent row |
| `VersionedWritesLoseNothing` | `VersionedWriteLosesNothing` | `LockInv`: no two transactions hold a row; ids of a running batch are used by nobody else, so an insert needs no lock; an edit about to commit holds its row one version ahead; a row that was read is the present row or has a lower version (`ReadIsPast`) |
| `VersionsAdvance` | `VersionAdvances` | `LockInv`, through `CommitEffect`: what a commit does to each row |
| `PublishedOrdersCommitted` | `PublishedIsCommitted` | `EventInv`: what a request is about to publish, and what was published, is the past of its order (`PastOf`), and gone ids are never fresh again |
| `PublishedVersionsCurrent` | `PublishedVersionIsCurrent` | the same |
| `NumbersFollow` | `NumbersFollowCounter` | follows from the refinement |
| `LedgerImplemented` | `ImplementsLedger` | `NumberInv`: no two transactions hold a counter; from its `UPDATE` to its commit a create holds the counter moved exactly over its own numbers; edits keep number and creation time. `CreateRefines`, `EditRefines` and `DeleteRefines` map the commit of each operation to a step of `OrderLedger`, every other step stutters |
| `CountersCover` | `CounterCoversOrders` | `CoverInv`, of `ClearsAloneSpec`: with `ClearReaches` (from its first statement on a clear deletes every order it covers, and counters of covered days only), a counter goes together with all its orders, and otherwise counters only grow |
| `ClearsAreBarriers` | `ClearDateKeyIsBarrier` | `CoverInv`, with `CallsFollowBarrier`: whoever creates an order after a clear was published began on its day or later |

`ServerProofs`, about `Sessions` alone, from `SessionsAssumption`, for any number
of requests and tickets and any lifetime:

| Theorem | Property | Inductive invariant, and why it is needed |
|---|---|---|
| `TicketTypesHold` | `TypeOK` | `SessionsInv`, with `Presented`: a request presents a ticket it was given |
| `TicketsOpenOnce` | `OpenedOnce` | `Presented`: whoever may upgrade with a ticket, or did, took it out of the map, so it is not in the map again |
| `TicketsRefusedForCause` | `RefusedForCause` | `MissingForCause`: an issued ticket that is not in the map was used, lost or has expired; pruning preserves it because no call's instant is later than the clock (`PruneRemoves`) |

`RealtimeProofs`, from `BrokerAssumption` and `RealtimeAssumption`, for any
number of connections and publishers and any queue:

| Theorem | Property | Inductive invariant, and why it is needed |
|---|---|---|
| `RealtimeTypesHold` | `TypeOK` | `RealtimeInv`: that a publisher in the mutex offers a message it took on before (`MutexOK`), and that `errCh` holds two errors at most because each loop reports once (`LoopsOK`) |
| `ChannelsCloseOnce` | `NoPanic` | `MutexOK` and `SubsOK`: while a publisher drops a subscriber nobody else closes its channel, and whoever closes one takes it out of `subs` under the same lock |
| `RegisteredStaysOpen` | `RegisteredIsOpen` | the same |
| `StreamsHaveNoGap` | `NoGap` | `StreamInv`: until a connection is dropped, what was written and is in the write loop's hands are the frames of its first `k` messages, and the queue holds the rest (`Caught`); once it is dropped the queue is being emptied, and what is still written is a frame that passed its check before (`Sure`). `UptoGrows` and `UptoPrefix` say what `FlattenSeq` makes of one message more |

`ReadersProofs`, from `TableAssumption` and the assumptions of `OrderPages`,
`Board` and `Reports`, for any finite set of orders, any commits and any set of
instants.  `QuietClientsShowBoard`, `EndpointsAgree` and `ReportsAddUp` have `ZoneHolds` as a
hypothesis, for the dates they look at; `MCReaders` has an instance of it that
changes its clocks twice:

| Theorem | Property | Inductive invariant, and why it is needed |
|---|---|---|
| `PagesAreComplete` | `PagesComplete` | `PagesInv`, with `SteadySeen` (an order that kept its key was given if and only if it is not ahead of the cursor) and `SeenIsPast` (whatever was given of a list whose keys never change is not ahead). `PageEndsAtCursor` says that a page is what lies between two cursors; it rests on the key being a total order, by its last column, the id (`LessIsTotal`) |
| `QuietClientsShowBoard` | `QuietClientShowsBoard` | `BoardInv`: of each order, what is in the view, the snapshot under way and the events in flight are rows it had (`RowsOK`); while the client is synchronized and does not show the present row, an event or a snapshot that does is on its way (`Announced`), and while it shows an order that is gone, an event that removes it (`Retracted`). Every order that a `before_today` clear erases is behind the barrier its event moves (`ClearedIsHidden`, by `ZoneHolds`) |
| `EndpointsAgree` | `ReportsAgree` | `ReportsInv`, the types of table and request. `DayLasts`: a date's instants are those from its midnight to the next date's, however long that is; so the rows of a range (`DailyRowsAre`) and the report of a date (`ReportIs`) take the same orders |
| `ReportsAddUp` | `ReportAddsUp` | `ReportsInv`, and that stored forms are normalized (`ReportsAssumption`, proved of what intake stores by `StoredFormsAreClean`). A smallest part of a set at which a sum would go wrong cannot exist (`SumBetween`, `SumOfParts`): this takes the place of induction over sets. Half hours are totally ordered by `Busier`, so their ranks are a bijection onto the places of the list (`RanksOrder`, `NthBusy`) |

`ServerProofs`, about `Server`, from `ServerAssumption` and `SessionsAssumption`:

| Theorem | Property | Inductive invariant, and why it is needed |
|---|---|---|
| `ServerUsesTicketsAsSpecified` | - | every step of `Server` is one of `Sessions` or leaves tickets alone, so that the theorems on tickets hold of a process that drains, ends and crashes |
| `ServerTicketsOpenOnce` | `OpenedOnce` | follows |
| `DatabaseClosedLast` | `DatabaseOutlivesHandlers` | `StopsInOrder`: no listener is open once the drain began, so that `InHandler` stays empty after `Run` returned in time |
| `TimingIsOwn` | `TimingMatchesRequest` | `TraceInStep`: until the header is sent, the trace has counted what the request completed, and is closed afterwards |

`AuthProofs`, from `AuthAssumption` and `UsersAssumption`, for any number of
commands, requests, phones, tokens and logins and any lifetime:

| Theorem | Property | Inductive invariant, and why it is needed |
|---|---|---|
| `AuthTypesHold` | `TypeOK` | `AuthInv` |
| `UsersAreWhole` | `CreationIsWhole` | `CreationSteps`: at each statement of a command, its unwritten rows are those of the statements before; `PhonesApart`: the unique index, with the writes of other transactions |
| `UsersHaveAccess` | `UserHasAccess` | `CallOK`: the user of a call that goes on was created, and then `CreationIsWhole` |
| `HeldTokensAreGood` | `HeldTokenIsGood` | `LockOK`, `MadeOK`, `RowsOK`: what a refresh writes are its own unknown token and the row it locked, whose token was sent back |
| `TokensRotateAsSpecified` | `ImplementsTokenLines` | `LockOK`: the row that a rotation read with `FOR UPDATE` is the committed one until it commits. Every commit is a `BeginLine` or a `Rotate` of `TokenLines` (`CommitRefines`), every other step stutters |

`IntakeProofs`, from `IntakeAssumption` and `FormAssumption`, for any forms a
client may enter and any bounds, sizes and budgets:

| Theorem | Property | Inductive invariant, and why it is needed |
|---|---|---|
| `IntakeTypesHold` | `TypeOK` | `IntakeInv` |
| `StoredFormsAreClean` | `StoredFormIsClean` | `CleanForm`: what `Normalize` accepts (`NormalizedIsClean`), whatever is submitted; `MeatsOf`, one step per code of the menu, says what becomes of the meats |
| `ResubmittingChangesNothing` | `ResubmitChangesNothing` | `CleanForm` is a fixed point of `Normalize` (`CleanIsStable`), as meats in menu order normalize to themselves (`MeatsAgain`) |
| `StoredFormsArePriced` | `PriceOfStoredForm` | `CleanForm`, by staple and size |
| `EditsKeepMeats` | `MeatsKept` | `NormalizedIsClean`: the meats of an accepted form are those the final size offers |
| `BatchesAreCovered` | `FramesCoverBatch` | `FramesFollow`: frames are in order and end right before the next order |
| `FramesAreWithinBudget` | `FramesFitBudget` | `FramesFit`: one order fits (`OneOrderFits`, from the longest note), and the inner loop stops only where the next does not (`TakenFits`) |

`CounterCoversOrders` and `ClearDateKeyIsBarrier` do not hold of `Spec`
(section 5): the runs that violate them are the findings, and what is checked
and proved is that they hold while clears run alone.  All other safety
properties of the runs are proved.  Model-checked only, and for good, are the
liveness properties `CallsFinish`, `PublishAlwaysReturns`,
`FailedConnectionsEnd`, `EveryEventArrives` and `RunReturns`: fairness and
`ENABLED` are out of the prover's reach.

## 7. Not modelled

* HTTP parsing and rendering and DTOs, beyond what decides on a service call
  (limits, statuses, dates, periods): they translate values and keep no state.
  So do the texts of cursors, tokens and dates.
* Configuration, logging, wiring: construction at the start.
* SQL of the migrations beyond the tables and indexes used above.
* Password hashing and token cryptography: library calls.
* Durations in the timing header, which are measured with a clock.
* Report breakdowns that count one more field (packaging, greens, tofu, ...),
  and weeks and months, which the code refuses.
* Time zones whose clocks change at or across midnight (a hazard listed without property).
* The width of prices: the database refuses a sum that does not fit its column.
