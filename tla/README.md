# portfolio-hub in TLA+

portfolio-hub is a self-hosted dashboard: it connects to the operator's brokers
(IBKR by a streaming session, Futu, Longbridge and Tiger by polling), keeps the
positions in memory, pushes them to open pages over SSE, and records fills,
equity snapshots, names and FX rates in SQLite.  It is one Python process on one
asyncio event loop.  What is hard about it is neither arithmetic nor parallelism
but *interleaving at awaits*: a session drops, a task is cancelled, an operator
presses "retry" while some coroutine is suspended half-way through `connect()`.

The modules here model that: a step is what one coroutine does between two
awaits, or one callback of a library.  TLC checks small instances, TLAPS proves
the safety properties that matter most for every instance.

## 1. The system

| Component | State it keeps | Operations | Talks to | What is hard |
|---|---|---|---|---|
| **IBKR adapter, lifecycle** `adapters/ibkr.py` 154-309, 933-1103 | `_connection_state`, `_ib`, `_reconnect_task`, `_reconnect_wakeup`, `_current_backoff_delay`, `_disconnecting` | `start`, `connect`, `disconnect`, `retry_now`, `_handle_disconnect`, `_reconnect_loop` | ib_async (dial, events), CompositeBroker, lifespan | a drop, a retry or another `connect()` at any await of `connect()`; the task reference and the Event are re-created lazily |
| **IBKR adapter, live rows** 318-922, 1031-1350 | `_streaming`, previous closes | `get_positions`, `_start_streaming`, ticks, portfolio updates, staleness, daily re-seed | LivePositions, FX service, Yahoo | ticks and updates during seeding; rows marked stale by a drop and written again by seeds, ticks and the re-seed; values read before an await |
| **Tiger, Longbridge, Futu adapters** | `_connection_state`, `_reconnect_task`, `_poll_task`, client objects | `start`, `connect`, `disconnect`, poll loop, reconnect loop | broker SDKs in threads, LivePositions | tasks cancel and await each other inside `connect()`; overlapping `start()` calls |
| **CompositeBroker** `core/composite_broker.py` | its adapters | fan-out of `start`, `retry_now`, `get_positions`, summaries; state aggregation | adapters, jobs, HTTP routes | partial failure; methods of one adapter that others do not have |
| **LivePositions and the SSE stream** `core/live_positions.py` | rows by (broker, account, symbol), one `asyncio.Event` | `set_position`, `replace_all`, `replace_broker`, `wait_for_change`, `stream_events` | every adapter, every open page | changes that come while a page renders, sends, is throttled or times out |
| **Connection monitor** `jobs/connection_monitor.py`, `core/notifications.py` | last state, `down_since`, `attention_sent`, queue of undelivered messages | one poll, sends | IBKR adapter's state, Telegram | failed or unacknowledged sends while the connection flaps |
| **FX service** `core/fx.py` | IB and API rate per currency, subscriptions, API task | `start`, `stop`, `attach_ib`, `ensure_subscribed`, ticks, `refresh_from_api`, `get_rate_sync` | IBKR sessions, public API, SQLite | a new session during a contract lookup; old responses applied after newer ticks; which source counts |
| **Fills** `core/fills.py`, `jobs/fills_reconcile.py`, `_on_exec_details` | `_pending_writes`, table `fills` | live insert task, daily and requested reconcile, shutdown drain | IBKR, SQLite | one connection and one transaction for all writers; shutdown and crash between INSERT and commit |
| **Equity snapshots** `jobs/snapshot.py`, `core/equity.py` | the loop's target and backoff, table `equity_snapshots` | choose the soonest close, sleep, capture | CompositeBroker, MarketHours, SQLite | closes that pass during a capture, sleeps that end early, failing brokers |
| **Market hours** `core/markets.py` | cached calendars | status, next close, closures | exchange_calendars | sessions across midnight, breaks, half days |
| **Store** `db/store.py` | one aiosqlite connection | upserts and idempotent inserts | all of the above | autocommit is off: a commit is everybody's |
| **Recovery endpoints** `core/ibkr_recovery.py`, `core/gateway_control.py`, `main.py` | a lock | retry, Gateway restart | adapters, a subprocess | a retry that races the loop |
| **Application** `main.py` | `app.state` | lifespan, routes | everything | order of start and shutdown |
| **Rendering, names, symbols, Yahoo** | caches | formatting, lookups | HTTP | wording and layout, mostly |

The parts interact through four kinds of shared state: the adapter's
`_connection_state` (written by several coroutines, read by the monitor, the
composite and the routes), the rows of `LivePositions` with their one Event, the
FX service's dictionaries, and the one SQLite connection.

What makes each part correct, in one line:

* an adapter that says RECONNECTING has somebody at work, one that says CONNECTED
  would notice the loss of its connection, and no task runs that nobody owns;
* the rows of what a new session reports are fresh, and no writer of a row undoes what
  another knows better;
* no change of a row is lost on its way to a page;
* the operator hears of an outage, and is not told that it was reported if it was not;
* a subscription that is counted is on the session in use; a rate is not replaced
  by an older one;
* a captured fill survives a shutdown, a missed one is found later;
* a capture is attempted for every close of every exchange held, and for none twice.

## 2. Modules

| Module | Models | Proofs in |
|---|---|---|
| `BrokerConnection` | what an adapter's connection state promises (abstract) | `IbkrConnectionProofs`, `PollingAdaptersProofs` (that the adapters implement it) |
| `IbkrConnection` | connection lifecycle of the IBKR adapter; implements `BrokerConnection` | `IbkrConnectionProofs` |
| `IbkrLive` (`MCIbkrLive` gives it holdings and valuations) | the rows of the IBKR adapter and their writers | `IbkrLiveProofs` |
| `PollingAdapter` | lifecycle of the Tiger adapter, and what the other polling adapters share with it | `PollingAdaptersProofs` |
| `LongbridgeAdapter`, `FutuAdapter` | what is different in theirs; extend `PollingAdapter` | `PollingAdaptersProofs` |
| `PollingAdapters` | one of the three, as configured, Futu's with or without its SDK; implements `BrokerConnection` | `PollingAdaptersProofs` |
| `HoldingsStream` | LivePositions and the SSE generators | `HoldingsStreamProofs` |
| `ConnectionMonitor` | the monitor's poll, queue and sends | `ConnectionMonitorProofs` |
| `FxSubscriptions` | `attach_ib`, `ensure_subscribed` | `FxProofs` |
| `FxRates` | ticks, API refreshes, choice of the rate, persistence, reload | `FxProofs` |
| `FillsCapture` | live fill tasks, reconcile job, shutdown, crash | `FillsCaptureProofs` |
| `MarketHours` | next close, market status and closures as functions of a calendar | `SnapshotSchedulerProofs` |
| `SnapshotScheduler` (`MCSnapshot` gives it a calendar) | the snapshot loop over `MarketHours` | `SnapshotSchedulerProofs` |

How they correspond to the code:

**IbkrConnection.**  `pc` says at which await each coroutine is suspended: the
reconnect loops (`new`, `sleeping`, then the phases of `connect()`), and the callers
of `start()`.  `Sessions` are IB objects; `up` those whose socket is open, `hooked`
those whose `disconnectedEvent` still calls the adapter, `own` the local `ib` of each
`connect()`, which may differ from `_ib`.  `wakeup` and `attached` model the lazily
created Event: a sleeper in `attached` waits on the Event the attribute refers to now.
`HandleDisconnect`, `EnterDelay`, `ConnectRaises`, `LeaveLoop` are the code's blocks of
the same kind, used by several actions.  Each failure (`DialFails`, `StreamingFails`,
`SubscribeRaises`, `SkipPosition`) is an action.

**BrokerConnection.**  Two variables: what `get_connection_state` returns, and whether
anybody is at work on the connection.  Only somebody at work reports it made or given
up, the last to stop does not leave RECONNECTING behind, and every window of
RECONNECTING ends.  The monitor, the composite's `retry_now` and the badge rely on no
more than that.  `IbkrConnection` and `PollingAdapters` map `busy` to "some `start()`,
loop or `disconnect()` is alive" (`Busy`) and have `Connection!Spec`, its liveness
included, as a property.

**IbkrLive.**  A row is abstracted to the price it shows, where that came from (tick,
broker's mark, previous close), whether it is dimmed as stale, the day of its previous
close, and `of`, the holding it is a valuation of.  `rows` and `streaming` are two
copies of a position with different keys, (account, contract) and contract, as in the
code.  `snap` and `call` are what `get_positions` has read before it awaits and uses
after; `todo` and `current` are the seeding loop at its contract lookup, which writes
each row before the lookup and its streaming entry after.  `Ticked`, `Marked`,
`Reseed`, `MarkStale` are the four other writers.  `mark` is IB's portfolio, which holds
an item for what is held at present: holdings are bought and sold at any time, while
`listed` is what `reqPositions` reported when the session was seeded.  The adapter adds
a row only when it seeds and removes none, so a row may outlive its position.  `polled`
stands for the rows of the other brokers in the same `LivePositions`, which
`_mark_live_positions_stale` dims as well and the next poll of their broker replaces.
Portfolio events come when a valuation changes and are not repeated.  `cache` holds the label of a close
(the day read before the fetch) and the day it really is of.  One `connect()` at a
time runs here: overlaps are `IbkrConnection`'s subject.

**PollingAdapter, LongbridgeAdapter, FutuAdapter.**  `waits` is the task a coroutine
awaits, `cancelled` the tasks with a pending cancellation.  The sequence stop loop,
stop poller, close clients, build, load accounts, fetch is spelt out because a
cancelled task runs its `finally` before its canceller goes on.  Phases in `Immediate`
have no await: `MayRun` lets nobody else run there.  The bare `except` around the
awaited poll task, which also swallows the awaiting task's own cancellation, is part
of `TaskAwaited`.  A fetch awaits its queries one after the other (positions,
quotes and cash; in Futu positions and cash) and goes on with empty answers when its
clients are gone, hence rows that are `"torn"`.  What a broker's own failure leaves
out (a batch of quotes, the cash of an account) does not make them so.  Futu builds its
contexts in threads, is CONNECTED before its first refresh, and when that fails a loop
is spawned before `connect()`'s `except` says DISCONNECTED.  In `PollingAdapters` the
variable `kind` is chosen in the initial state, so that one run covers them all.  A Futu
adapter whose SDK is not installed is a kind of its own: `_get_sdk` keeps the module it
has imported, so it fails in every `connect()` or in none.

**HoldingsStream.**  `changed` is the Event's flag, `woken` the waiters whose future
it has resolved.  `Heartbeat` may hit a client in the very iteration it was woken.
A position is two values: the fields `hash_position` covers and those it does not.

**ConnectionMonitor.**  `position` is the message being sent, so that the broker and
Telegram change between two sends.  Time is counted in polls up to the threshold.  A
send that fails may have arrived.  `heard` is a history variable: the messages that
arrived in the poll under way.

**FxSubscriptions.**  `awaited[k]` is the lookup caller `k` waits for, `asked[k]` the
session it asked; when the answer comes, `reqMktData` goes to what `_ib` is by then.

**FxRates.**  Time is in seconds of a week and takes the values in `Instants`, so that
`is_fx_market_open` and the 60 s are the code's.  `writes` is the connection's queue;
the refresh awaits its own write, the ticks' writes are awaited by none.

**FillsCapture.**  `table` is what the connection sees, `durable` what is committed;
a crash falls back to `durable`.  `captured` is a history variable: the fills whose
task was started before a shutdown, less those whose write reported an error.

**MarketHours.**  `exchange_calendars` is the constant `Schedule`: sessions by local
date, with their times in UTC.  `next_close_at`, `status` and the strip of closures
are operators over it; their differing notions of a date (local, UTC) are the code's.

**SnapshotScheduler.**  `wakeAt` bounds the current await; a sleep may end `Skew`
before the wall-clock time it was meant for.  `due` remembers the closes, by exchange
and time, that the last fetch saw coming, `attempted` those a capture was begun for: a
capture may find that the account summaries fail, and then writes no row.

## 3. What the runs show

| Run | Question | Result |
|---|---|---|
| `ibkr_connection` | with two loops, a boot and a retry request, four sessions, two backoff steps: is there ever a second loop, a RECONNECTING adapter without one, a sleeper that cannot be woken, an unwatched session, a retry nobody takes, a step the abstract connection does not allow, an endless window? | no |
| `ibkr_connected_wedge` | does CONNECTED mean an open session? | no: a drop during the last contract lookup is overwritten by line 242 |
| `ibkr_live` | with each instrument in one account, bought and sold at any time, beside a polling broker: does a live row ever differ from its streaming entry, does a row of what a new session reports stay dimmed, is yesterday's close labelled as today's when midnight falls into a fetch? | no |
| `ibkr_live_shared` | with one instrument in two accounts: does a row show its own account's valuation? | no: items are looked up, and rows found, by conId alone |
| `holdings_stream` | with one page, does every change of a hashed field arrive? | yes |
| `holdings_two_pages` | and with two? | no: the first to wake clears the shared Event |
| `connection_monitor` | is the queue bounded, does the monitor's record advance only past what was delivered, is an outage escalated and closed? | yes |
| `polling_adapter` | for Tiger, Longbridge and Futu, with one retry at a time: CONNECTED without a poller, RECONNECTING without a loop, rows replaced by what a closed client returns, tasks after the shutdown, a step the abstract connection does not allow, an endless window? | none |
| `fx_subscriptions` | does the bookkeeping follow the session, and is every held currency subscribed in the end? | yes |
| `fx_rates` | does the served rate go back in time, is a stored rate served after a restart? | never within market hours; yes |
| `fills` | with IBKR alone: does a shutdown lose a captured fill, is a missed one recorded? | no; yes, while the broker still reports it, and reports none in an unsupported currency |
| `snapshot` | with closes far apart: is one overlooked or attempted twice, do the market rail and the strip of closures ever contradict the sessions? | no |

The runs whose answer contradicts what the code, its documents or its tests say of it
(`ibkr_connected_wedge`, `ibkr_live_shared`, `holdings_two_pages`) are the findings of
`PROJECT.json`.

Further disagreements have no run of their own.  TLC finds each of them when a constant
or a property of a configuration is changed as said here:

* **A sold position stays dimmed.**  `IbkrLive.cfg` with `NothingDimmed`: a drop marks every
  row that is not CASH (ibkr.py:1049-1054), the adapter removes no row, and a new session
  writes only the rows of what it reports.  docs/HITL-GOLIVE.md:247 says of a reconnect
  "Opacity returns to 100%, ⚠️ disappears."
* **An older mark over a newer one.**  `MarksShown`, with one gated holding and items of
  two prices: `get_positions` reads IB's portfolio (ibkr.py:329) and then awaits; the row
  it writes undoes a portfolio update that came meanwhile, until IB values the holding
  anew.
* **Two overlapping retries.**  `PollingAdapters.cfg` with `Requests = {boot, r1, r2}`
  violates `ReconnectingHasLoop`, `RowsKept` and `ShutdownStopsTasks`; POST
  `/healthz/retry` (main.py:597) takes no lock.  The second `start()` cancels the loop that
  the first one left, fails before the `try` of `connect()`, and `_enter_reconnecting`
  returns at once since RECONNECTING is already said (tiger.py:558): nobody is at work,
  and `retry_now` starts DISCONNECTED brokers only.  Or it closes the clients of the
  first, which goes on to CONNECTED and to a poll task that nobody refers to, that
  replaces good rows by none and that outlives `disconnect()`.
* **A slow close.**  The same three with `SlowClose = TRUE`: if closing Futu's contexts
  outlasts the first delay, the loop that the failed refresh spawned connects while
  `connect()`'s `except` still closes.
* **Closes at one instant.**  `Snapshot.cfg` with a second exchange of the hours of NYSE
  violates `NoCloseOverlooked`: of exchanges that close together (NYSE and NASDAQ) the
  comparison in snapshot.py:82 keeps one, and the other's close is in the past when the
  loop looks again.  snapshot.py:3-7 promises a capture for each exchange held.
* **Fills with several brokers.**  `FillsCapture.cfg` with `Composite = TRUE` violates
  `EveryFillRecorded`: the CompositeBroker has no `_req_executions`, and the
  AttributeError is taken for a broker error (fills_reconcile.py:39), every day.
* **Fills beside an unsupported currency.**  `FillsCapture.cfg` with `MissedFillsRecorded`:
  `build_fill_row` is outside the `try` (fills_reconcile.py:47) and raises; as long as the
  broker reports that execution the job may end there, before others.
* **The order of messages.**  In `ConnectionMonitor` the last transition the operator reads
  need not be the one that is recorded: a message that is queued already is not queued
  again (line 87), and after failed sends an old recovery is delivered after a newer loss.

**Bounds.**  Two loops and two requests are enough for every pairwise overlap of
`connect()`; the number of tasks is a pool, not a count over time: a finished task is
used again.  Four sessions allow one in use, one leaked by failed streaming and one
for each dialling coroutine.  Two backoff steps have a first, a last and an
exhausted schedule.  Two positions make the seeding loop suspend between
subscriptions.  `IbkrLive` has one streamed and one permission-gated instrument (the
two kinds of row writers), two prices, a valuation with a price and one without, and
one polling broker beside it.  Its two midnights may fall into any fetch, but pass only
where the gated instrument has never been held (`StreamedAlone` in `MCIbkrLive`; with
both, time stands still): a re-seed needs one midnight, a label that is out of date when
the next one looks a second.  In `HoldingsStream`, two brokers with one
symbol and two values distinguish rows that stay from rows that are replaced.
`FxRates` has three open instants more than 60 s apart and one after the Friday close;
two currencies make the refresh loop await between them, and one pending IB write may
be overtaken by it.  `FillsCapture` has two storable fills (a commit of one that
carries the other), one that is dropped and one that raises.  In `Snapshot.cfg` two
exchanges close at different hours, further apart than a capture, the 1 s pause and a
fetch, without which the code does miss closes.  The calendar runs from a Friday to the Tuesday after, so that the strip of
closures passes the turn of the week in UTC; it has after-hours past midnight UTC, a
session that opens before it, a lunch break, a weekend and a holiday, and time runs over
it instant by instant.  `FxSubscriptions` has
two sessions: a lookup may be answered by the old one after the new one is attached.

`CHECK_DEADLOCK FALSE` stands where the modelled system stops: after the shutdown
(`IbkrConnection`, `IbkrLive`, `PollingAdapters`) and at the horizon
(`SnapshotScheduler`).

**Fairness.**  Coroutines are weakly fair, one by one: the event loop runs whatever is
runnable, timers fire, and requests to a gateway or an API are answered or fail (the
SDKs have timeouts or notice a closed socket).  The environment is never fair: drops,
retries, page loads, trades, a restart of the Gateway may or may not happen.  Three
things that are not coroutines are fair because something runs them for ever: the
daily timer of the reconcile job, the restart of the container
(`restart: unless-stopped`) and the calls of `get_positions` by the snapshot loop.
`IbkrLive` and `SnapshotScheduler` assume no fairness: their properties are safety.
Liveness properties that need the world's help say so on their left-hand side
(`<>[](telegram = "up") => ...`).

## 4. What is proved

Every safety property of the passing runs is a theorem: it holds for all values of
the constants under the named assumptions of the modules, which only say that
constants are of their kind (disjoint identifiers, positive bounds), and for snapshots
that the pause after a capture is at least twice what a sleep may be early by
(`PauseAssumption`; the pause is 1 s, clock adjustments are milliseconds).  Four
results need more, and have it as a hypothesis in their statement:

| Hypothesis | Used by | Why it is there |
|---|---|---|
| `Modest`: one retry at a time, and closing a client takes no longer than a delay | all of `PollingAdaptersProofs` but the types | with two retries, or a slower close, TLC finds two `connect()` side by side and violates `ReconnectingHasLoop`, `ShutdownStopsTasks` and `RowsKept` (section 3).  The number of loops and poll tasks, the attempts and the backoff schedule stay arbitrary |
| `OneHolder`: no contract is held by two accounts | `StreamedRowsFollow` | `_streaming` has one entry per contract: of a streamed contract in two accounts only the last row seeded follows the ticks, and `RowsFollowStream` is violated with `Holdings = {<<u1, nas>>, <<u2, nas>>}` |
| `ClosesApart`: any two closes, of whichever exchanges, are further apart than two latencies and the pause | `SeenClosesAreAttempted` | the loop sleeps towards one close at a time; a close at the same instant, or one that falls into a capture, is gone when the loop looks again (section 3).  NYSE and NASDAQ held together do not satisfy it |
| `RegularCalendar`: a session, with its extended hours if it has some, lies within its local date, and its break within the session | `RailIsHonest` | `status` looks only at the session of the local date.  The calendars of the exchanges that the code knows have it |

`ClosesApart` and `RegularCalendar` are evaluated by TLC for the calendar of
`MCSnapshot` (`MCClosesApart`, `MCRegular`), the others hold by the values in
`PollingAdapters.cfg` and `IbkrLive.cfg`.

* **IbkrConnection**: `AtMostOneLoop`, `ReconnectingHasLoop`, `SleeperHearsRetry`,
  `LiveSessionWatched`.  None is inductive by itself.  The strengthening `LoopInv`
  says that any loop that is not done *is* `_reconnect_task` until `disconnect()` takes
  the reference, that a sleeper is attached to the present Event, and that a backoff is
  shown only while a loop counts it down; the argument is that every block that writes RECONNECTING also
  calls `SpawnLoop`, which does nothing only if the referenced task is alive.
  From the same invariant, and from the fact that no caller of `start()` is left when
  `disconnect()` begins (`RequestsDrained`), `RefinesBroker` proves the safety part of
  the refinement, `Spec => Connection!Safety`: a step either leaves somebody at work,
  or ends in a state other than RECONNECTING.
* **IbkrLive**: `FreshWhenConnected` says that a dimmed row of a CONNECTED adapter is of
  a position its session did not report (such rows do stay dimmed, section 3).
  It needs to know what the seeding has still to do (`FreshInv`, part of `LiveInv`): a
  dimmed row of what is listed has a position in `todo`, because only holdings whose
  name is cached ever have a row (`NamesInv`), and of those none is left out of what
  `get_positions` returns; entries of `_streaming` are never stale,
  since a drop empties it.  `RowsFollowStream` needs, besides, that a contract in
  `todo` has no entry yet and the one being looked up has the row its entry will be made
  of, or one of another source (`SeedInv`).  `CloseLabelHonest` is inductive with the
  types: the label is read before the fetch, and days only advance.
* **PollingAdapters**: `ReconnectingHasLoop`, `ConnectedIsPolled`,
  `ShutdownStopsTasks`, `RowsKept` and the safety part of the refinement, for the three
  brokers at once.  The invariant `PollInv` says, for each coroutine, where the others may
  be: a cancelled task has its canceller waiting for it; a loop is `_reconnect_task` or
  cancelled, and shares the adapter only with a `start()` that waits for it or, in Futu,
  is failing; a poll task excludes all loops and everybody who has got beyond stopping
  it; whoever asks a client has one.  The steps of the three adapters fall into some
  dozen classes by what they do to tasks and state (`StepOf`, `StepsClassified`), and
  one lemma for each class shows that it keeps the invariant.
* **HoldingsStream**: `NoLostWakeup` for at most one page.  The strengthening is that
  a page that is not up to date and not suspended finds the flag set or has yet to
  compare hashes.  With two pages it is false, see `holdings_two_pages`.
* **ConnectionMonitor**: `PendingBounded` and the action property `AdvancesWhenTold`.
  `SendsCoverPoll`: while a poll sends, the transition it will record and the attention
  message are in the queue, whichever poll put them there, and as long as no send has
  failed everything before the current position was heard.
* **FxSubscriptions**: `SubscriptionsCurrent`, inductive with the types, because
  between the test of `_ib` and the two assignments there is no await.
* **FxRates**: `KnownRateServed`, and the action property `QuoteNeverOlder`.
  `RatesInv` relates memory, queue and table: whatever is queued or stored has a rate of
  its source in memory; no row is from an excluded source; no quote is from the future;
  and no rate of the API is newer than the `quoted_at` of the refresh under way, which
  is why a late write of it displaces nothing newer.
* **FillsCapture**: `CapturedFillsKept`, and that nothing captured is missing once a
  shutdown has ended.  The strengthening `CaptureInv`: a task at its commit has its row
  in the table (no writer takes rows away; a failed commit leaves them in the open
  transaction), and during a shutdown the gathered tasks include those of all captured
  fills.
* **SnapshotScheduler, MarketHours**: `NoCloseTwice`: `CapturedArePast` bounds how far
  in the future a captured close may lie at each await, down to none at the next look at
  the calendar.  `NoCloseOverlooked`: `DueCovered` says that the other closes the last
  fetch saw are beyond the time at which the loop looks again.
  `RailHonest` is no matter of the loop but of the operators: `StatusCases` and
  `StateAt` say what `status` returns by where the moment lies in the session of its
  local date, `NextOpen` that the next session by date is the next open by time, since
  local dates are monotone (`LocalDates`), and `AnnouncedEnd` that the state lasts until
  the end announced.
* Type correctness of all nine state machines.

Only model-checked: the liveness properties (`RetryHeeded`, `ChangesDelivered`, `QueueDrains`, `OutageIsEscalated`, `OutageIsClosed`,
`EveryFillRecorded`, `HeldIsSubscribed`) and the liveness part of the two
`ImplementsBroker`: fairness and ENABLED are outside what the prover is used for here.

## 5. What is not modelled

* Amounts: quantities, cost, profit, the conversion to USD, account summaries, totals
  and filters of `render.py`.  They are arithmetic without state; the models keep
  which source a price comes from and whose it is.
* The mapping of the brokers' rows to positions (`tiger_mapping.py`, the `_position_from_*`
  functions), names and symbols, Yahoo's and Telegram's HTTP.
* Contexts of Futu that leak when a `connect()` is cancelled while it builds them in
  threads (futu.py:122-127): the model counts the contexts in use, not those at OpenD.
* What the Gateway answers to a second dial with the clientId of a session that a failed
  seeding left open (ibkr.py:227): the dial succeeds or fails.
* The commission of a fill, and with it whether its report comes after the execution.
* The aggregated state of CompositeBroker, a function of its adapters' states.
* Early closes as cards of the strip (they are sessions with an earlier close).
* Displayed fields that `hash_position` leaves out are in `HoldingsStream`
  (`unhashed`), but no property asks for their delivery: the code does not deliver
  them.
* A session that is left open by a `disconnect()` after a concurrent `start()` has
  failed (ibkr.py:228, 270): the interleaving is in `IbkrConnection`, and
  `BrokerConnection` allows the RECONNECTING that follows.
* HTTP routing, templates, formatting, authentication headers, the front end, the
  docker subprocess of `gateway_control.py`, the SDKs' threads, operator scripts.

## 6. Plan

The system's stateful parts are modelled and the safety properties proved.  What is
left:

1. `HoldingsStream` with several pages: what does hold of each (a page that is behind is
   woken by the next change or its heartbeat), as an invariant beside `NoLostWakeup`.
2. The safety facts the liveness arguments rest on, as theorems: that a seeding always
   ends with the positions it began with, that a queued message is not dropped before
   it is sent.
3. `PollingAdapters` beyond `Modest`: whether any of its properties remains
   true with several retries at once.
