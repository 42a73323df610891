--------------------------- MODULE PollingAdapter ---------------------------
(***************************************************************************)
(* The connection lifecycle of TigerAdapter (app/adapters/tiger.py): a     *)
(* client is rebuilt by connect(), a poll task refreshes the broker's      *)
(* rows, its failure starts a reconnect loop.  LongbridgeAdapter and       *)
(* FutuAdapter extend it with what is different in theirs.                 *)
(*                                                                         *)
(* connect() is run by the callers of start() (Requests: the lifespan's    *)
(* boot call and the retries a CompositeBroker passes on) and by the loop; *)
(* disconnect() begins with the same three steps, as coroutine Shutdown.   *)
(* A coroutine in one of the phases Immediate does not await there: it     *)
(* runs on before anybody else does.  The awaits are                       *)
(*                                                                         *)
(*   awaitLoop   the cancelled reconnect task, in _stop_reconnecting       *)
(*   awaitPoll   the cancelled poll task, in _stop_polling                 *)
(*   closing     the closing of the old clients, in connect()              *)
(*   building    the contexts of Futu's OpenD                              *)
(*   accounts    _load_accounts                                            *)
(*   fetching, quoting, balances   the queries of _fetch_positions: the    *)
(*               positions, their quotes, the cash                         *)
(*   aborting    the closing of the clients in connect()'s except          *)
(*   leaving     the closing of the clients in start()'s except            *)
(***************************************************************************)
EXTENDS Naturals

CONSTANTS
    Loops,     \* tasks that may run _reconnect_loop
    Pollers,   \* tasks that may run _poll_loop
    Requests,  \* coroutines that may call start()
    Boot,      \* the one of the application's lifespan
    Shutdown,  \* the lifespan's call of disconnect()
    Delays,    \* length of the backoff schedule, _reconnect_delays
    None       \* Python's None

Tasks == Loops \cup Pollers
Coroutines == Tasks \cup Requests \cup {Shutdown}

ASSUME BootAssumption == Boot \in Requests
ASSUME DelaysAssumption == Delays \in Nat \ {0}
ASSUME DistinctAssumption ==
    /\ Loops \cap Pollers = {}
    /\ Tasks \cap Requests = {}
    /\ Shutdown \notin Tasks \cup Requests
    /\ None \notin Coroutines

VARIABLES
    state,      \* _connection_state
    task,       \* _reconnect_task
    poll,       \* _poll_task
    client,     \* whether _trade_client is set
    backoff,    \* _current_backoff_delay, as an index of the schedule; 0: None
    rows,       \* the broker's rows in LivePositions; torn: for lack of a
                \* client the quotes or the cash were not asked for
    attempt,    \* the loop variable of each _reconnect_loop
    pc,         \* where each coroutine is
    error,      \* the exception each connect() raised
    waits,      \* the task each coroutine awaits
    cancelled   \* tasks whose cancel() was called

vars == <<state, task, poll, client, backoff, rows, attempt, pc, error, waits,
          cancelled>>
taskVars == <<task, poll, waits, cancelled>>

States == {"CONNECTED", "RECONNECTING", "DISCONNECTED"}

Immediate == {"stop", "stopPoll", "close", "build", "abort", "raised", "leave", "left"}
Awaiting  == {"awaitLoop", "awaitPoll", "closing", "building", "accounts", "fetching",
              "quoting", "balances", "aborting", "leaving"}

TypeOK ==
    /\ state \in States
    /\ task \in Loops \cup {None}
    /\ poll \in Pollers \cup {None}
    /\ client \in BOOLEAN
    /\ backoff \in 0..Delays
    /\ rows \in {"unknown", "empty", "torn", "positions"}
    /\ attempt \in [Loops -> 0..Delays]
    /\ pc \in [Coroutines -> {"done", "new", "sleeping", "scheduled"}
                               \cup Immediate \cup Awaiting]
    /\ error \in [Coroutines -> {"none", "config", "other"}]
    /\ waits \in [Coroutines -> Tasks \cup {None}]
    /\ cancelled \subseteq Tasks

Alive(c) == pc[c] # "done"

Serving == ~Alive(Boot) /\ pc[Shutdown] = "scheduled"

Init ==
    /\ state = "DISCONNECTED"
    /\ task = None
    /\ poll = None
    /\ client = FALSE
    /\ backoff = 0
    /\ rows = "unknown"
    /\ attempt = [l \in Loops |-> 0]
    /\ pc = [c \in Coroutines |-> IF c \in {Boot, Shutdown} THEN "scheduled" ELSE "done"]
    /\ error = [c \in Coroutines |-> "none"]
    /\ waits = [c \in Coroutines |-> None]
    /\ cancelled = {}

Goto(c, phase) == pc' = [pc EXCEPT ![c] = phase]

-----------------------------------------------------------------------------
(* _stop_reconnecting, _stop_polling and _close_clients.                    *)

(* Mutation of StopReconnecting: the task is forgotten, not cancelled.      *)
StopReconnectingForgets(c) ==
    /\ pc[c] = "stop"
    /\ task' = None
    /\ backoff' = 0
    /\ Goto(c, "stopPoll")
    /\ UNCHANGED <<state, poll, client, rows, attempt, error, waits, cancelled>>

(* connect() skips it when it runs in the reconnect task itself.            *)
StopReconnecting(c) ==
    /\ pc[c] = "stop"
    /\ IF task = c
       THEN /\ Goto(c, "stopPoll")
            /\ UNCHANGED <<task, backoff, waits, cancelled>>
       ELSE /\ task' = None
            /\ backoff' = 0
            /\ IF task # None /\ Alive(task)
               THEN /\ cancelled' = cancelled \cup {task}
                    /\ waits' = [waits EXCEPT ![c] = task]
                    /\ Goto(c, "awaitLoop")
               ELSE Goto(c, "stopPoll") /\ UNCHANGED <<waits, cancelled>>
    /\ UNCHANGED <<state, poll, client, rows, attempt, error>>

(* Mutation of StopPolling: the task is forgotten, not cancelled.           *)
StopPollingForgets(c) ==
    /\ pc[c] = "stopPoll"
    /\ poll' = None
    /\ Goto(c, "close")
    /\ UNCHANGED <<state, task, client, backoff, rows, attempt, error, waits,
                   cancelled>>

StopPolling(c) ==
    /\ pc[c] = "stopPoll"
    /\ poll' = None
    /\ IF poll # None /\ Alive(poll)
       THEN /\ cancelled' = cancelled \cup {poll}
            /\ waits' = [waits EXCEPT ![c] = poll]
            /\ Goto(c, "awaitPoll")
       ELSE Goto(c, "close") /\ UNCHANGED <<waits, cancelled>>
    /\ UNCHANGED <<state, task, client, backoff, rows, attempt, error>>

(* The awaited task has ended.  The except that swallows its CancelledError *)
(* swallows that of the awaiting coroutine too, if it was cancelled itself. *)
TaskAwaited(c) ==
    /\ pc[c] \in {"awaitLoop", "awaitPoll"}
    /\ ~Alive(waits[c])
    /\ waits' = [waits EXCEPT ![c] = None]
    /\ cancelled' = cancelled \ {c}
    /\ Goto(c, IF pc[c] = "awaitLoop" THEN "stopPoll" ELSE "close")
    /\ UNCHANGED <<state, task, poll, client, backoff, rows, attempt, error>>

(* _close_clients, called in phase "from": with no client to close it does  *)
(* not await.                                                               *)
CloseClients(c, from, closing, then) ==
    /\ pc[c] = from
    /\ client' = FALSE
    /\ Goto(c, IF client THEN closing ELSE then)
    /\ UNCHANGED <<state, taskVars, backoff, rows, attempt, error>>

ClientsClosed(c, closing, then) ==
    /\ pc[c] = closing
    /\ Goto(c, then)
    /\ UNCHANGED <<state, taskVars, client, backoff, rows, attempt, error>>

-----------------------------------------------------------------------------
(* The rest of connect().                                                   *)

Raise(c, e, phase) ==
    /\ error' = [error EXCEPT ![c] = e]
    /\ Goto(c, phase)

(* The new configuration and clients; the constructors may raise, outside   *)
(* the try of connect().                                                    *)
Build(c, then) ==
    /\ pc[c] = "build"
    /\ c # Shutdown
    /\ \/ /\ client' = TRUE
          /\ Goto(c, then)
          /\ UNCHANGED error
       \/ /\ \E e \in {"config", "other"} : Raise(c, e, "raised")
          /\ client' \in {client, TRUE}
    /\ UNCHANGED <<state, taskVars, backoff, rows, attempt>>

AccountsRaise(c) ==
    /\ pc[c] = "accounts"
    /\ \E e \in {"config", "other"} : Raise(c, e, "abort")
    /\ UNCHANGED <<state, taskVars, client, backoff, rows, attempt>>

(* connect() returns, and with it start() or the loop: the rows are         *)
(* replaced and the poll task starts.                                       *)
ConnectReturns(c, fetched) ==
    \E p \in Pollers :
        /\ ~Alive(p)
        /\ poll' = p
        /\ pc' = [pc EXCEPT ![c] = "done", ![p] = "sleeping"]
        /\ state' = "CONNECTED"
        /\ backoff' = 0
        /\ rows' = fetched
        /\ attempt' = [l \in Loops |-> IF l = c THEN 0 ELSE attempt[l]]
        /\ UNCHANGED <<task, client, error, waits, cancelled>>

(* _fetch_positions returns [] at once when there is no client any more.    *)
AccountsLoaded(c) ==
    /\ pc[c] = "accounts"
    /\ IF client
       THEN Goto(c, "fetching") /\ UNCHANGED <<state, taskVars, client, backoff, rows,
                                               attempt, error>>
       ELSE ConnectReturns(c, "empty")

(* connect()'s except is over: the exception goes on to the caller.         *)
Aborted(c) ==
    /\ pc[c] = "aborting"
    /\ state' = "DISCONNECTED"
    /\ Goto(c, "raised")
    /\ UNCHANGED <<taskVars, client, backoff, rows, attempt, error>>

AbortsAtOnce(c) ==
    /\ pc[c] = "abort"
    /\ ~client
    /\ state' = "DISCONNECTED"
    /\ Goto(c, "raised")
    /\ UNCHANGED <<taskVars, client, backoff, rows, attempt, error>>

AbortCloses(c) ==
    /\ client
    /\ CloseClients(c, "abort", "aborting", "raised")

-----------------------------------------------------------------------------
(* start().                                                                 *)

(* CompositeBroker.retry_now reads the state; the child's start() runs as a *)
(* task of its own some loop iterations later.                              *)
ScheduleStart(r) ==
    /\ Serving
    /\ r # Boot
    /\ pc[r] = "done"
    /\ state = "DISCONNECTED"
    /\ Goto(r, "scheduled")
    /\ UNCHANGED <<state, taskVars, client, backoff, rows, attempt, error>>

Start(r) ==
    /\ pc[r] = "scheduled"
    /\ r \in Requests
    /\ Goto(r, "stop")
    /\ UNCHANGED <<state, taskVars, client, backoff, rows, attempt, error>>

StartCatches(r) ==
    /\ pc[r] = "raised"
    /\ r \in Requests
    /\ Goto(r, "leave")
    /\ UNCHANGED <<state, taskVars, client, backoff, rows, attempt, error>>

(* _enter_reconnecting; "pcs" is pc after what the step itself does to it.  *)
EnterReconnecting(pcs) ==
    IF state = "RECONNECTING"
    THEN pc' = pcs /\ UNCHANGED <<state, task>>
    ELSE /\ state' = "RECONNECTING"
         /\ IF task # None /\ pcs[task] # "done"
            THEN pc' = pcs /\ UNCHANGED task
            ELSE \E l \in Loops :
                    /\ ~Alive(l)
                    /\ task' = l
                    /\ pc' = [pcs EXCEPT ![l] = "new"]

StartFails(r) ==
    /\ pc[r] = "left"
    /\ error' = [error EXCEPT ![r] = "none"]
    /\ \/ /\ error[r] = "config"
          /\ state' = "DISCONNECTED"
          /\ backoff' = 0
          /\ Goto(r, "done")
          /\ UNCHANGED task
       \/ /\ error[r] = "other"
          /\ EnterReconnecting([pc EXCEPT ![r] = "done"])
          /\ UNCHANGED backoff
    /\ UNCHANGED <<poll, client, rows, attempt, waits, cancelled>>

-----------------------------------------------------------------------------
(* _reconnect_loop.                                                         *)

EnterDelay(l, n) ==
    /\ attempt' = [attempt EXCEPT ![l] = n]
    /\ backoff' = n
    /\ Goto(l, "sleeping")

LoopStarts(l) ==
    /\ pc[l] = "new"
    /\ EnterDelay(l, 1)
    /\ UNCHANGED <<state, taskVars, client, rows, error>>

LeaveLoop(l) ==
    /\ attempt' = [attempt EXCEPT ![l] = 0]
    /\ Goto(l, "done")

WakesConnected(l) ==
    /\ pc[l] = "sleeping"
    /\ state = "CONNECTED"
    /\ LeaveLoop(l)
    /\ UNCHANGED <<state, taskVars, client, backoff, rows, error>>

WakesToConnect(l) ==
    /\ pc[l] = "sleeping"
    /\ state # "CONNECTED"
    /\ Goto(l, "stop")
    /\ UNCHANGED <<state, taskVars, client, backoff, rows, attempt, error>>

(* Mutation of LoopCatches: the same delay again, for ever.                 *)
LoopCatchesForever(l) ==
    /\ pc[l] = "raised"
    /\ error' = [error EXCEPT ![l] = "none"]
    /\ state' = "RECONNECTING"
    /\ EnterDelay(l, attempt[l])
    /\ UNCHANGED <<taskVars, client, rows>>

(* Mutation of LoopCatches: one attempt more than there are delays.         *)
LoopCatchesOffByOne(l) ==
    /\ pc[l] = "raised"
    /\ error' = [error EXCEPT ![l] = "none"]
    /\ state' = "RECONNECTING"
    /\ EnterDelay(l, attempt[l] + 1)
    /\ UNCHANGED <<taskVars, client, rows>>

(* Mutation of LoopCatches: giving up leaves the state RECONNECTING.        *)
LoopCatchesSilently(l) ==
    /\ pc[l] = "raised"
    /\ error' = [error EXCEPT ![l] = "none"]
    /\ state' = "RECONNECTING"
    /\ IF error[l] = "other" /\ attempt[l] < Delays
       THEN EnterDelay(l, attempt[l] + 1)
       ELSE LeaveLoop(l) /\ backoff' = 0
    /\ UNCHANGED <<taskVars, client, rows>>

(* connect() raised: a configuration error ends the loop, any other the     *)
(* attempt.                                                                 *)
LoopCatches(l) ==
    /\ pc[l] = "raised"
    /\ error' = [error EXCEPT ![l] = "none"]
    /\ IF error[l] = "other" /\ attempt[l] < Delays
       THEN /\ state' = "RECONNECTING"
            /\ EnterDelay(l, attempt[l] + 1)
       ELSE /\ state' = "DISCONNECTED"
            /\ LeaveLoop(l)
            /\ backoff' = 0
    /\ UNCHANGED <<taskVars, client, rows>>

-----------------------------------------------------------------------------
(* _poll_loop.                                                              *)

PollWakes(p) ==
    /\ pc[p] = "sleeping"
    /\ IF client
       THEN Goto(p, "fetching") /\ UNCHANGED rows
       ELSE rows' = "empty" /\ UNCHANGED pc
    /\ UNCHANGED <<state, taskVars, client, backoff, attempt, error>>

-----------------------------------------------------------------------------
(* _fetch_positions, in connect() or in the poll task.  Each query asks     *)
(* whether its client is still there, and is left out if somebody has       *)
(* closed it meanwhile.                                                     *)

Delivered(c, fetched) ==
    IF c \in Pollers
    THEN /\ rows' = fetched
         /\ Goto(c, "sleeping")
         /\ UNCHANGED <<state, taskVars, client, backoff, attempt, error>>
    ELSE ConnectReturns(c, fetched)

Queried(c, then) ==
    IF client
    THEN Goto(c, then) /\ UNCHANGED <<state, taskVars, client, backoff, rows,
                                      attempt, error>>
    ELSE Delivered(c, "torn")

(* Quotes are asked for unless there is no position.                        *)
PositionsArrive(c) ==
    /\ pc[c] = "fetching"
    /\ \E then \in {"quoting", "balances"} : Queried(c, then)

(* The quotes, batch by batch; a batch that fails is left out.              *)
QuotesArrive(c) ==
    /\ pc[c] = "quoting"
    /\ Queried(c, "balances")

BalancesArrive(c) ==
    /\ pc[c] = "balances"
    /\ Delivered(c, "positions")

(* Mutation of FetchRaises: the poll task ends without a reconnect.         *)
FetchRaisesQuietly(c, e) ==
    /\ IF c \in Pollers
       THEN Goto(c, "done") /\ UNCHANGED error
       ELSE Raise(c, e, "abort")
    /\ UNCHANGED <<state, taskVars, client, backoff, rows, attempt>>

(* A query raised: the poll task starts a reconnect loop and ends.          *)
FetchRaises(c, e) ==
    /\ IF c \in Pollers
       THEN /\ EnterReconnecting([pc EXCEPT ![c] = "done"])
            /\ UNCHANGED error
       ELSE /\ Raise(c, e, "abort")
            /\ UNCHANGED <<state, task>>
    /\ UNCHANGED <<poll, client, backoff, rows, attempt, waits, cancelled>>

FetchStep(c) ==
    \/ PositionsArrive(c)
    \/ QuotesArrive(c)
    \/ BalancesArrive(c)
    \/ pc[c] \in {"fetching", "balances"} /\ FetchRaises(c, "other")

-----------------------------------------------------------------------------
(* Cancellation, and disconnect().                                          *)

(* CancelledError ends the task at its await.                               *)
TaskCancelled(t) ==
    /\ cancelled' = cancelled \ {t}
    /\ Goto(t, "done")
    /\ IF t \in Loops
       THEN attempt' = [attempt EXCEPT ![t] = 0] /\ backoff' = 0
       ELSE UNCHANGED <<attempt, backoff>>
    /\ UNCHANGED <<state, task, poll, client, rows, error, waits>>

(* The requests are drained before the lifespan disconnects the broker.     *)
DisconnectBegins ==
    /\ pc[Shutdown] = "scheduled"
    /\ \A r \in Requests : ~Alive(r)
    /\ Goto(Shutdown, "stop")
    /\ UNCHANGED <<state, taskVars, client, backoff, rows, attempt, error>>

DisconnectEnds(c) ==
    /\ c = Shutdown
    /\ pc[c] = "build"
    /\ state' = "DISCONNECTED"
    /\ Goto(c, "done")
    /\ UNCHANGED <<taskVars, client, backoff, rows, attempt, error>>

-----------------------------------------------------------------------------
(* The beginning of connect(), which disconnect() shares.                   *)
StopStep(c) ==
    \/ StopReconnecting(c)
    \/ StopPolling(c)
    \/ TaskAwaited(c)
    \/ CloseClients(c, "close", "closing", "build")
    \/ ClientsClosed(c, "closing", "build")
    \/ DisconnectEnds(c)

AbortStep(c) ==
    \/ AbortsAtOnce(c)
    \/ AbortCloses(c)
    \/ Aborted(c)

ConnectStep(c) ==
    \/ StopStep(c)
    \/ Build(c, "accounts")
    \/ AccountsRaise(c)
    \/ AccountsLoaded(c)
    \/ FetchStep(c)
    \/ AbortStep(c)

StartStep(r) ==
    \/ Start(r)
    \/ StartCatches(r)
    \/ CloseClients(r, "leave", "leaving", "left")
    \/ ClientsClosed(r, "leaving", "left")
    \/ StartFails(r)

LoopStep(l) ==
    \/ LoopStarts(l)
    \/ WakesConnected(l)
    \/ WakesToConnect(l)
    \/ LoopCatches(l)

(* Nobody is between two awaits but, perhaps, c.                            *)
MayRun(c) == \A d \in Coroutines \ {c} : pc[d] \notin Immediate

CoroutineStep(c) ==
    /\ MayRun(c)
    /\ IF c \in cancelled /\ pc[c] \notin {"awaitLoop", "awaitPoll"}
       THEN TaskCancelled(c)
       ELSE \/ c \notin Pollers /\ ConnectStep(c)
            \/ c \in Requests /\ StartStep(c)
            \/ c \in Loops /\ LoopStep(c)
            \/ c \in Pollers /\ (PollWakes(c) \/ FetchStep(c))

Next ==
    \/ \E c \in Coroutines : CoroutineStep(c)
    \/ \E r \in Requests : MayRun(r) /\ ScheduleStart(r)
    \/ MayRun(Shutdown) /\ DisconnectBegins

(* Timers fire, and the broker's API answers or fails.                      *)
Spec == Init /\ [][Next]_vars /\ \A c \in Coroutines : WF_vars(CoroutineStep(c))

-----------------------------------------------------------------------------
(* Properties.                                                              *)

Running == pc[Shutdown] = "scheduled"

(* The comment on ConnectionState: "RECONNECTING: lost the gateway,         *)
(* auto-retrying with exponential backoff".  Somebody is at work: a loop    *)
(* that has not been cancelled, or a start() that is under way.             *)
ReconnectingHasLoop ==
    state = "RECONNECTING" /\ Running =>
        \E c \in (Loops \ cancelled) \cup Requests : Alive(c)

(* A connected adapter has its poll task, or a connect() under way that     *)
(* will start one: the loss of the connection is noticed by nothing else.   *)
ConnectedIsPolled ==
    state = "CONNECTED" /\ Running =>
        \E c \in Coroutines \ cancelled :
            \/ c \in Pollers /\ Alive(c)
            \/ c \in Loops \cup Requests /\ pc[c] \in Immediate \cup Awaiting

(* After the shutdown nothing is left running that would go on polling or   *)
(* dialling.                                                                *)
ShutdownStopsTasks ==
    pc[Shutdown] = "done" => \A t \in Tasks : ~Alive(t)

(* Rows that were fetched are never replaced by the empty list that         *)
(* _fetch_positions returns for lack of a client, nor by rows without the   *)
(* prices or the cash that it had no client to ask for any more.            *)
RowsKept == [][rows = "positions" => rows' = "positions"]_vars

=============================================================================
