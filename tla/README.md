# Verification of quotamiser

quotamiser is a local proxy that spends free model quota and never a paid
token. Everything it promises rests on accounting that must survive crashes,
races and restored disks. This directory models that accounting in TLA+:
TLC checks small instances, and TLAPS proves the main invariants for every
value of the constants.

Source paths below are relative to `src/crates/`.

## 1. Inventory

| component | state | operations | hard behaviour |
|---|---|---|---|
| Reservation ledger (`ledger/src/ledger.rs`, `transitions.rs`, `rollover.rs`, `state.rs`) | SQLite: reservation groups, a row per epoch; `consumed`/`reserved` per pool and epoch; safety inputs with budgets; latches; generation and cumulative liability | `reserve`, `begin_dispatch`, `attach_response_id`, `mark_id_unknown`, `settle`, `write_off`, `release_unsent`, `release_rejected`, `rollover`, `adopt_recovered_consumption`, latches, safety inputs, `open`, `close` | two durable writes per dispatch, rows carried over days, restart normalisation |
| External high-water mark and trust (`hwm.rs`, `trust.rs`) | generation, cumulative liability, last reservation, on another volume | `read`, `write`, `assess` | lost, torn or rolled-back volumes |
| Dispatcher and supervisor (`proxy/src/dispatch.rs`, `status_policy.rs`, `ledger_handle.rs`) | one task per request; its locals | `dispatch`, `supervise`, `relay` | disconnects, transport errors, ambiguous answers, ledger failures half-way |
| Retrieval worker (`retrieval.rs`) | backoff per dispatch; the pass under way | `sweep`, `retrieve`, `write_off` | reads states once per pass, races live supervisors |
| Second route, counted in requests (`ledger/src/requests.rs`, `openrouter_dispatch.rs`) | `request_counter`, `request_dispatch`, gate | `take_request_slot`, `send` | stale clock readings, handlers dropped between slot and sending, day boundary, restarts |
| Request allowlist and canonical bodies (`protocol/src/request.rs`) | none; pure | `CreateRequest::parse` and the bodies made from what it keeps | fields dropped or rewritten while they are checked; tools nested in namespaces and items |
| Handlers and admission (`server.rs`, `admission.rs`, `admission/src/liability.rs`) | none of their own | `create_response`, `try_openrouter`, `admit`, `estimate` | dropped at any await when the client goes; a second route after a first refusal |
| Epochs and trusted time (`admission/src/epoch.rs`, `clock.rs`) | last reading | `window`, `refresh` | decisions used after awaits, boundary uncertainty |
| Runtime (`runtime.rs`, `usage_api.rs`) | tasks, catalog | `start`, `recover`, loops, `shutdown` | start near a boundary, recovery from lagging reports |
| Gate and breaker (`rate_limit.rs`, `failure_breaker.rs`) | closed until, failures, cooldown | `closed_for`, `record_*` | check then act; answers that overlap |
| LAN listener (`lan.rs`) | connection and request permits, the stop | `serve`, `guard`, `LeasedBody` | permits held by bodies, a stop that races a connection |
| Stream observation (`protocol/src/sse.rs`, `responses.rs`) | event buffer, id, terminal | `push`, `observe` | events split across chunks |
| Configuration (`config.rs`), HTTP clients (`upstream.rs`, `openrouter.rs`), pool locks (`ledger/src/lock.rs`) | none that changes | read at start; requests; one lock per pool | not modelled, section 7 |

How they interact: handlers call admission, which reserves in the ledger under
a mutex (`ledger_handle.rs`); the permit goes to the dispatcher, which spawns a
supervisor. Supervisors, the retrieval worker, the clock loop and the data
sharing loop share nothing but the ledger, so every interleaving is one of
whole ledger operations, except for the two that write the external record
first. `PROJECT.json` lists the hazards at their lines.

## 2. Plan

Done, in this order: `Ledger` and `LedgerRollback`; `Promise` and `Dispatcher`;
`RequestSlots`; `EpochWindow`; `CreateRequest` and `AdmitRequest`; `EventStream`;
`Holdback`; `LanListener`; and the proofs about each. The modules meet as follows: `Dispatcher` implements
`Promise`, whose moves are the ledger's transitions of one row; `AdmitRequest`
decides what `Ledger` reserves and what `Dispatcher` sends; `Holdback` is the
gate and the breaker that are a free choice in `Dispatcher`; `EventStream` is
what a supervisor of `Dispatcher` observes; `EpochWindow` says when `Ledger`'s
rollover may happen.

Left, for whoever continues: `Ledger` as an implementation of `Promise` too, and the
configuration (section 7). Every safety property the runs check is proved; the
liveness properties are only model-checked (section 6).

## 3. Modules

- `Tokens`: `Total(S, amount)`, the `SUM` of the SQL queries, defined as the
  number of tokens, so that its laws can be proved without recursion.
- `Ledger`: the SQLite file, the external record and the verdict of the
  process. An operation under the mutex is one action; `begin_dispatch` and
  adoption are two, with `pending` between them, because the external write and
  the commit are separately durable: `FailDispatch`/`AdoptFail` and `Crash` are
  possible between. Refused operations do not change the state and have no
  action. Variables `sent`, `lifted`, `exposed` and `evidence` are history,
  read by properties only. A reservation group is one record with the set of
  epochs it has a row in, since its rows share state and liability
  (`check_integrity` refuses a split group). Freshness of safety inputs (time)
  is left out: expired is refused, like missing.
- `LedgerRollback`: the same ledger with the storage faults the external
  record exists for: one volume restored from an older copy, or the record
  lost or unreadable, while the process is down.
- `Promise`: what reserving promises, in five moves: hold, begin, end, then
  settle, write off or free.
- `Dispatcher`: handler, supervisor, retrieval worker, client, provider,
  restarts. `task[r].pc` follows `supervise` and `relay`:

  | `pc` | code |
  |---|---|
  | `admitted` | `reserve` has committed, the handler has the permit to come |
  | `start` | the spawned supervisor consults gate and breaker, `dispatch.rs:207-226` |
  | `abort` | `begin_dispatch` failed, `:226-233` |
  | `post` | DISPATCHING is durable, the request is not yet polled, `:235` |
  | `wait` | awaiting the response headers, `:236` |
  | `relay` | the top of `relay`'s loop and its `select!`, `:331-400` |
  | `chunk` | between two observations of one chunk, `:359-384` |

  Ledger counters are abstracted to the reservation's state: `Applies` is a
  transition the table of `state.rs` allows, `Errs` one it refuses or a storage
  error. The provider (`prov`) is the environment: a request is in flight until
  it is accepted or refused, possibly long after the supervisor gave up.
  Age advances for open dispatches only, all that a sweep reads it of.
  `cancel` has no action of its own: its answer is ignored by the code and the
  provider may end at any time. Backoff is "may skip this dispatch".
- `RequestSlots`: readings of the clock, the gate, the slot transaction with
  its pruning, and the sending after it, each an action of its own, since the code
  awaits between any two (`server.rs:75-106`, `openrouter_dispatch.rs:87-107`).
  A handler may be dropped at each; its transaction, once handed to the blocking
  pool, runs all the same (`orphaned`, `ledger_handle.rs:40`) and spends a slot for
  nothing. `left` is history: the time a request really left.
- `EpochWindow`: the provider's day (`time`), readings of its clock that are up
  to `MaxLag` old and a monotonic clock that drifts by up to a second per
  `DriftPeriod`; `window` with its uncertainty, delay and maximal age. Startup,
  the clock loop and handlers are separate tasks, each step of theirs between
  two awaits an action: `current_window` reads the ledger's epoch, then the
  clock. `ClockPolicy`'s claim that its uncertainty covers resolution, round trip and
  drift is the assumption `WindowAssumption`. The two reads of the clock's mutex and
  of the monotonic clock in `current_window` are one step: a reading that
  arrives between them makes the elapsed time zero or negative, and negative
  closes the window. Quota is left to `Ledger`: a reservation is the set of
  epochs it weighs on. `Crash` is any stop, also an orderly one.
- `CreateRequest`: strict parsing, the allowlist's tables as data
  (which member is kept, dropped or checked, and how), the normal form and
  the bodies made from it: dispatched, counted, and sent on the second route.
  An object is a function of its keys, and `Below(S)` are the values at each
  depth below those of `S`, to `MaxNesting`, serde_json's limit. The tables nest five
  deep (`CheckLeaf`, then `CheckInMember`, `CheckInTool`, `CheckInItem` and
  `CheckInRequest`, each over the one before), as the functions of `request.rs`
  call each other, so that no operator is recursive.
  A body is a JSON value; a text is a name, whose bytes, characters and tokens
  are constants. Codes of refusals are kept, their paths and wording are not.
- `AdmitRequest`: one request from its body to its answer, an action between
  two awaits: parse, bound (`liability.rs`, with its overflows at `Widest`),
  count upstream, reserve, send, and the second route when the first had no
  capacity. The answers of the ledger, the counter and both providers are
  chosen freely, since their states are the other modules' matter. What
  `liability.rs` takes for granted of the provider's counts stands as assumptions
  on `TokensOf`, which TLC evaluates over the documents of a run.
- `EventStream`: `EventSplitter` and `StreamObserver`, fed packets that end
  anywhere. A stream is a sequence of CR, LF and pieces of lines. Each loop of
  the code (`find_event_end`, `parse_event`, the `while let` of `push`, the observer's
  `for`) is a recursive function of its number of turns over one operator that is
  a turn of it (`ScanOn`, `ParseByte`, `DrainOn`, `ObserveOne`). The reference,
  `Read`, shares only `Draft` with them: it takes one byte at a time and knows
  of no packet, buffer or event end.
- `Holdback`: both deadlines as the time left. A task is a request at a time:
  it reads the gate, then the breaker, is posted, and may be answered long after
  either has closed. `asked`, `doubts` and `last_hold` are history.
- `LanListener`: the accept loop with its permits, a task per connection, the
  guard with its request permit, the body that holds one, the client that
  stalls, stops reading (`blocked`) or goes, the stop and `Runtime::shutdown` after it.
- `MC*`: constants for TLC.
- `LedgerInvariants`: the inductive invariants of `Ledger`, in a module of their
  own so that the proofs about `LedgerRollback` can instantiate them with the
  fields of a copied file.
- `*Proofs`: theorems, a module per component; `LedgerProofs` is about
  `LedgerRollback` too.

## 4. Runs

| run | question | bounds |
|---|---|---|
| `Ledger` | do the books balance and the grant hold in every order of operations, crashes and restarts; is the external record ahead; is nothing sent forgotten; is every live row carried; do latches and budgets keep admissions out | 2 requests with liabilities 1 and 2 against a grant of 3, so that the second may or may not fit; 3 epochs, so that a row is carried twice; 3 generations above the first, so that two dispatches and an adoption fit. About a million states |
| `LedgerRollback` | is a believed ledger still complete after one volume was rolled back | 2 requests, one copy taken and restored at any time, 4 generations, one reported usage (the `Ledger` run varies it) |
| `Dispatcher` | do supervisors and worker keep `Promise`, tell the truth and hand over what they say | 2 requests, so that a pass holds one while another changes; 1 ledger failure at any operation. About a million states |
| `DispatcherRestart` | are open dispatches resolved; is `Promise` kept through a restart | 1 request, 1 failure, 1 restart |
| `DispatcherAbandoned` | does every reservation complete (no) | 1 request |
| `RequestSlots` | does what is read and sent in one window stay within the short limit; does the day's count never run under | 4 requests, so that two fill a window that a third has pruned before a late fourth; 2 per window of 2 clock values (`WindowSeconds` 1, ends included), 3 per day of 3 s, 4 s over the end of a day. No bound on any delay. More than a million states |
| `EpochWindow` | is a pool ever opened early, a request let in on a day that is over, or a request in flight missing from the pool given out from | 2 requests, so that one is reserved and one sent at a rollover; a day of 8 s with uncertainty 2, delay 2 and age 2; 10 s around one reset; 1 restart anywhere |
| `AdmitRequest` | is what leaves what was bounded; is nothing billed that the allowlist does not know; does a second parse of the normal form agree; may the second route only take what had not left | some ten thousand documents: each text with each cap and tool choice, histories of two items out of 20, lists of two tools out of 11, each name of a member with good and bad values. Numbers to 50, so that the overflow checks of the bound are reached |
| `AdmitRequestNothingSent` | is a client told that nothing was sent only when nothing was (no) | the flat documents |
| `EventStream` | do events and observations depend on where packets are cut | every mix of CR, LF, data and comments up to 6 pieces (8 without comments), and of up to 3 frames; packets of up to 9 pieces; events limited to 4, so that the limit is met |
| `Holdback` | are waits kept by the gate, holds doubled, requests kept out of a hold, and are both open again | 3 requests at a time, so that one fails late while another probes; waits 0, 1, 4 with a minimum of 2 and a maximum of 3, so that both are applied; holds 1, 2, 3, 3 |
| `LanListener` | does a permit get lost; does a stop end, and only after the last handler | 4 sockets for 3 connections and 2 requests, so that each limit is reached with someone waiting |

`CHECK_DEADLOCK FALSE` is stated where every request may be finished, where
modelled time ends, or where the listener has stopped.

In `EpochWindow` the seconds are scaled down, with their order kept: the
uncertainty covers the lag and the drift over the maximal age exactly, so a
second less would fail, and uncertainty plus delay fit in a day. One reset is
enough: the window looks at one boundary at a time, and `Ledger.cfg` carries rows over
two. `OpenedAfterDelay` is of a running process only: a start opens the
reading's day at once (`runtime.rs:112-114`), for which `NeverOpenedEarly`
still holds, since a `Date` header is never ahead of the provider's clock.

`LedgerRollback` leaves out the fault the design excludes: both volumes restored at
once. Copies are therefore of one volume.

`RequestSlots` bounds no delay, so `WindowHeld` is what the code guarantees
however old a reading is when its slot is taken, and a slot when its request
leaves: requests read and sent within one window stay within the short limit. It
does not follow that departures do. A handler may read the clock, wait longer than a
window for input counts and the first route, and take a slot of the window it
read; with `now[r] >= t - WindowSeconds` in `ReadAndLeft` replaced by `left[r] >=
t - WindowSeconds`, TLC finds three that leave in one window for two. That
`config.rs:228` has the short window "enforced here before sending" is therefore true only
of requests that do not wait that long; the rest is bounded by the day's count
(`DayHeld`) and met by the gate, the second line.

### Fairness

Nothing is assumed of admission, failures or restarts anywhere.

- `Dispatcher`. Supervisors: their awaits end, because the HTTP client has
  connect and read timeouts, the wait for a response id has a deadline and tokio
  schedules spawned tasks. The worker: `runtime.rs` runs it in an endless loop
  with sleeps. Strong fairness of a retrieval and of its successful answer says
  that backoff (60 s at most) ends and that the provider, asked again and again,
  answers; without it no retrieval could promise anything. The provider ends
  what it started, and time passes.
- `Holdback`: time passes, and nothing else.
- `LanListener`: the accept loop and the connection tasks are scheduled; the
  head of a request and its body have deadlines (`lan.rs`); handlers answer, since
  what they await has deadlines, and a response that can be written is. Nothing is
  assumed of clients. There is no write timeout, so a client that keeps
  its connection and never reads keeps its permits and delays the stop:
  `PermitsComeBack` and `StopCompletes` except just the connections of such
  clients (`blocked`).

## 5. Findings

- A client that leaves during `reserve` leaks a RESERVED row until the next
  restart (`DispatcherAbandoned`).
- When the first route has no capacity and the second sends the request and
  then fails, the client is told of the first refusal, and so that nothing was
  sent (`AdmitRequestNothingSent`).

Seen while modelling, by reading or in earlier runs, and not among the runs:

- A restored copy with no dispatch since is trusted (`trust.rs:100`): what was
  sent is complete, but a settlement since then and the latch it set are lost.
- The worker retrieves, and may end, reservations whose stream is live
  (`ledger.rs:198`). `KeepsPromise` holds nevertheless: quota is safe, the
  client's stream is what breaks.
- The second route counts a request on the day of a reading made before
  midnight, also when it leaves after (`server.rs:106`).
- A response sent before the provider's reset that settles after it and before
  the rollover, at least 300 s later, is counted on the old day only;
  `docs/design/design.md:354` counts it on both. What the new day's pool lacks
  is bounded by what was in flight at the reset.
- `TryNextProvider` and `CloseUntilRemediated` of `status_policy.rs` are set and
  never read: `server.rs:134` relays every refusal alike.
- `rate_limit.rs:126` makes a `Duration` of a header's seconds, which panics for
  a number no `Duration` holds, in the middle of a supervisor.

## 6. Proofs

Every theorem is for all values of the constants that satisfy the named
assumption of the module: types, and for `EpochWindow` what `ClockPolicy`
claims. Each rests on an inductive invariant (`Init => IInv`,
`IInv /\ [Next]_vars => IInv'`), with one step per action.

The ledger assumes `LedgerAssumption` and `ScopeAssumption`, and nothing on sizes.
`LedgerProofs` first proves that the tokens of a finite set are finite and how
`Total` changes when one amount changes, when a set grows, and when it is split.

- `TypeCorrect`: `TypeInv` adds to `TypeOK` that pending operations name a
  known request and that rows are of opened epochs, without which counters
  could be moved in an epoch that was never opened.
- `ExternalLeads`: between the two writes the record is ahead of the file by
  exactly the pending operation; otherwise it is not behind.
- `SentHeld`: a sent request is in an accounted state or pending promotion;
  what a restart releases was RESERVED, and a RESERVED row is never in `sent`
  (`Held`), because `Send` needs DISPATCHING.
- `LiveIsCarried`: rollover only moves forward and carries every active group,
  so the rows of an active group are all epochs opened since its first.
- `ExposureBounded`, `EvidenceRespected`: budget left plus exposure is at most
  the budget; evidence is always latched.
- `BooksAlwaysBalance`, `GrantAlwaysHeld`: `MoneyInv` is the balance, that the
  reserved sum fits, and the grant. Each action moves one cell per epoch
  (`MoneyCell`), and `Total` lemmas turn the change of a row into the change
  of the sum.

About `LedgerRollback`, the theorems of the same module are of any number of
restores and losses, at any time the process is down, of one volume at a time. They
have three parts:

- *Books* (`BooksInv`). A file that is put back is one that was current when it was
  copied, so it needs nothing but its own invariants: `Saved` is `LedgerInvariants`
  of the fields of the copy, and `CopyInv` says they hold there. Each step
  of `Ledger` keeps the books as proved for `Ledger`; a restore replaces them by the
  copy's. `BooksBalanceRolledBack`, `GrantHeldRolledBack` and
  `LiveIsCarriedRolledBack` follow.
- *What was sent* (`SentInv`). `sent` is history that no restore takes back, so the
  question is which files are believed. `assess` believes a file only when the
  external record is the file's own (`Same`) or that of the dispatch that was to
  follow (`Ahead`). `Vouched` says that such a file accounts for all that was sent,
  except, in the second case, the one request the record names. It holds of
  the open file and of the copy alike, and it is kept because a dispatch writes
  the record first: once anything was sent past the copy, the generation has moved
  and no record vouches for the copy again. That in turn needs that the file
  descends from its copy (`Descends`: generations only grow, rows stay, and what
  was released as unsent stays so), that what is in
  dispatch now was in dispatch when the copy was made unless the generation moved
  (`DispatchMoves`), and that nothing was sent meanwhile at the copy's generation
  (`NothingSentSince`). Without a copy of the file, `Held` is enough.
- *Which steps matter.* `Quietly` and `Loud` split `Next` into the actions that leave
  alone what `SentInv` speaks of and the eight that do not (`QuietlyOrLoud`), so that
  the invariant is proved once for all of the former. `SentHeldRolledBack` is the theorem.

`LedgerRollback.cfg` bounds copies and generations; its two invariants are
theorems without the bounds.

`EventStreamProofs` is of every stream, every cut into packets and every limit on
the size of an event. Its definitions are recursive functions over a sequence, so each
proof about them is an induction on a length. The library's induction theorems
take an operator, which the provers cannot instantiate; `NatInduct` states induction for a
*set* of numbers that holds 0 and is closed under successor, and is proved from
`LeastNumber`, the least element of a set of naturals, which the library's
well-foundedness of `<` gives. `ReadTurns`, `ParseTurns`, `ScanTurns`, `DrainTurns` and
`ObserveTurns` then say that each function satisfies its recursion; they rest on
`*Defined`, which builds the function turn by turn.

- *One event.* `Clean(v)`: no event has ended in the bytes `v`, and the reference
  has the draft that `Parse` has. `Whole(v, c)`: `v` is one event with its
  end, and the reference has found what `ParseEvent` finds there and wants to skip an
  LF exactly when `v` ended with CR. `Scanning` is the loop invariant of
  `find_event_end`: what it has passed is `Clean`, and its flag tells whether a
  line has begun. A CR that ends the bytes is the case that needs care.
  `EndSays` concludes that the function returns 0 or the first event.
- *One packet.* `Alike(r, q, e)`: a reader `r` of more bytes and `q` of fewer
  differ by the events `e` alone, and at an event's end also by an LF still
  to be skipped. It is kept by every byte (`AlikeByte`), so a buffer whose events are
  drained stays as good as the whole stream (`Taken`, `DrainSays`). `PacketAlike`
  is where `swallow_leading_lf` is right: dropping the LF or keeping it gives
  readers that are alike.
- *All packets.* `InStep` relates the buffer to a reader of all the bytes that
  arrived, and after a failure says how far the events returned are a prefix of
  the ones sent (`EventsHold`).
- *The observer.* `AgreesTo(L, m, s)`: the fields `s` are what the first `m` events
  of `L` say together, the properties' sets restricted to `1 .. m`. An event that
  is refused, ignored, an error, or of the lifecycle extends the agreement by one
  (`ObserveAgrees`); what is announced is counted by `OfAppend`. `ObservedHolds`
  is the agreement at `Len(events)`. That the id is announced before the summary is part of it.

`AdmitRequestProofs` is of any documents whose parts are JSON values, any depth of
nesting, any catalogue, limits, routes and texts. `DocumentsAssumption`,
`CatalogAssumption`, `RoutesAssumption`, `LimitsAssumption`, `TextsAssumption` and
`NestingAssumption` say just that. Three more are what `liability.rs` takes for granted
of the provider, and only `LiabilityCovers` needs them: counts are numbers
(`TokensAssumption`), a byte-level encoding makes no more tokens than bytes
(`BytesAssumption`, `liability.rs:7-8`) and the allowance of each text covers the framing
(`FramingAssumption`, `liability.rs:9-10`). The code cannot know whether the last is true: it
calls its default a placeholder until measured (`liability.rs:44`).

- *Depth.* `BelowIs` is the recursion of `Below` and `Descend` takes it from the
  top: what is n + 1 below a value is n below one of its parts. `Follows(v, w)` says
  that `w` has at no depth a value that is not like one of `v` there, so that a `w`
  made from a strictly parsed `v` parses strictly (`FollowsStrictly`).
- *The checks.* What a check accepts it turns into something it accepts again,
  unchanged, and that follows the original (`LeafKeeps` to `RequestKeeps`). The
  argument climbs the five layers, in each over objects, objects told apart by
  their type, single values and arrays. It is the same argument at each; it is stated
  once per layer because the provers take no operator as a parameter. It rests on
  two facts of the tables: each shape that is told apart by `type` keeps it
  (`TypedNamed`), and what is required is kept.
- *Parsing.* `ParseGives` says what an accepted body is turned into and
  `ParseAgain` that it is its own normal form, for `NormalFormHolds`.
- *Count bodies.* `CountBodiesValid`: a body counts as many tools as it can name,
  because the one with all the choices keeps all the declarations and the others
  have no choice by name. `CountsAreValid` follows.
- *A request.* `IInv` says that `fields` is what parsing made of the document, that
  what left was made from it and left for one of the two only, and that what is
  still to be counted is among the count bodies. `ForegroundHolds` follows from it
  with the cap a positive number (`CapIsNumber`).
- *What a normal form consists of.* `Upper(v)` is everything in `v`, a set that
  holds the parts of each of its members (`Closed`). In it the equation "accepted
  unchanged" holds of every member, so each layer can be read backwards: a tool is
  one of the three kinds and not deferred (`IsTool`), an item has no id and
  no status, and its images are inline (`IsItem`).
- *Tools in tools.* Declarations are the levels of tools in tools, and what
  `absorb_tools` reaches are levels as well; they agree because only a namespace
  has tools (`DeclarationsAreTools`). The usage therefore has each kind that is
  declared anywhere, and a model that takes the usage runs them all
  (`RouteTakes`): `SecondRouteHolds`.
- *What is made from it.* The bodies that leave have fields of the normal form and
  a few values without parts (`Made`), so nothing appears in them that the allowlist
  would not accept: `NothingElsewhereHolds`.
- *The reservation.* `LiabilityInv` says that what was counted is the sum over the
  count bodies asked about so far, and that what is reserved is the byte bound, or the
  sum over all of them, with the output bound and without overflow. The sum
  holds what generation renders because each further count body has the tools of its
  item among its fields (`CountsCover`); the byte bound does by the assumptions
  (`BytesCover`): `LiabilityCoversAlways`.

`DispatcherProofs` is of any number of requests, failures and restarts:

- `Inv` is `TypeOK` with, per request, which rows fit the supervisor's place
  (`RowFits`), what the provider can be doing given the row (`ProvFits`) and
  what was told and handed over (`ToldFits`), and for the worker that a row
  it has read as open is still in the state it read, or has been settled or
  written off since (`WorkerFits`). None is inductive alone: that a rejected row's request
  was refused needs the supervisor's place, and that a settled one's has ended
  needs the worker's.
- `TypesHold`, `NotSentHolds` and `HandedOver` follow from `Inv`.
- `PromiseKept`: `account` is the group of states a row is in and `work` the
  provider's progress; every action is one of `Hold`, `Begin`, `End`, `Settle`,
  `WriteOff`, `Free`, or a stutter, and a restart is one `Free` of the RESERVED
  rows. `Inv` gives each its guard.

`EpochWindowProofs` is of any length of the day, any number of requests and
restarts, and any policy whose uncertainty covers lag and drift
(`WindowAssumption`):

- The invariant says that a reading is true when made (`ReadingTrue`), that
  whoever is about to open an epoch, the loop or a handler, decided so when its
  day had begun an opening delay before (`Begun`), and that what is reserved or
  sent weighs on the current epoch (`Weighs`). A decision stays right while it
  is carried over an await, because time only passes.
- `EstimateWithin`: an estimate is off by no more than the uncertainty, either
  way. `DueBegun` and `OpenInTime` follow for the two outcomes of `window`, and
  from them `NeverEarly`, `DelayKept` and `LetInInTime`; `InFlightWeighs` is
  `Weighs`.

`RequestSlotsProofs`:

- The invariant relates the table to those that left or may still, `Leavers`: an
  entry is the reading its slot was taken with, and a leaver without one is older
  than a window (`Table`). Nobody who left gets another slot (`Departures`).
- `CountNeverUnder`: a slot is counted in the step that makes its request a
  leaver, and no other step makes one (`Shrinks`); a dropped handler only removes
  one.
- `RateHeld` is not inductive: a request with a slot has not left yet. The
  invariant counts it in every window that is not over (`ReadAndMayLeave`).
  It rests on `SeenByNext`: whoever may leave in such a window was read within the
  window of the next transaction, and nothing can have pruned it, since no
  reading is ahead of the clock. No delay is bounded.

`HoldbackProofs`: the invariant says that the next cooldown is a function of the
last hold, that a breaker that has opened keeps its failures at the threshold
until a completion, and that a task which left a request in doubt is past the
checks again only when the hold is over. `EveryWaitHonoured`, `HoldsDouble` and
`OneDoubtPerHold` follow, for any number of requests, headers and policies.

`LanListenerProofs`: both semaphores are their limit less the number of those
that hold a permit (`PermitsAlwaysFit`), and a listener that has returned has no
connection (`RuntimeOutlives`).

Model-checked only:

- the liveness of `Dispatcher` (`OpenIsResolved`), `Holdback` (`NotHeldForever`)
  and `LanListener` (`PermitsComeBack`, `StopCompletes`), which rest on fairness
  and `ENABLED`.

## 7. Not modelled

- Configuration: read and validated once at start, sequentially.
- HTTP clients: requests and answers are the environment of `Dispatcher`,
  `RequestSlots` and `AdmitRequest`; the choice of a model of the second route is
  in `CreateRequest`.
- Pool locks: one lock of a file per pool, taken at start; `Ledger` assumes the
  single process it grants.
- Recovery at start from usage reporting (`runtime.rs:418`): the figures and how
  far they lag are the provider's; `Ledger` adopts any figure at any time.
- A host that is suspended while its monotonic clock stands still: beyond the
  drift that `ClockPolicy` allows for.
- A panic in a supervisor: it would leave its row as a restart finds it, without
  the restart.
- The LAN listener's address rules, token comparison and access file: one free
  refusal in `LanListener`.
- Wording, paths and formats of answers and logs.
