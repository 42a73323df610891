--------------------------- MODULE IbkrConnection ---------------------------
(***************************************************************************)
(* The connection lifecycle of IbkrAdapter (app/adapters/ibkr.py): start,  *)
(* connect, disconnect, retry_now, _handle_disconnect and _reconnect_loop, *)
(* as the asyncio event loop interleaves them.  A step is what one         *)
(* coroutine does between two awaits, or one callback of ib_async.         *)
(*                                                                         *)
(* connect() is run by two kinds of coroutines: the reconnect loop         *)
(* (Loops) and the callers of start() (Requests): the lifespan's boot      *)
(* call and, when the broker is a CompositeBroker, the requests to         *)
(* /healthz/retry that found the adapter DISCONNECTED.  While it awaits,   *)
(* connect() is in one of the phases                                       *)
(*                                                                         *)
(*   dialing    awaiting connectAsync on the coroutine's own IB object     *)
(*   positions  awaiting reqPositionsAsync, first await of get_positions   *)
(*   tickers    awaiting reqTickersAsync, or a later await of              *)
(*              get_positions that can raise                               *)
(*   contracts  awaiting the rest of get_positions, whose errors are       *)
(*              swallowed, or _contract_for_position for the first of the  *)
(*              "left" positions to go                                     *)
(*                                                                         *)
(* Rows, prices and staleness are left out.                                *)
(***************************************************************************)
EXTENDS Naturals, FiniteSets

CONSTANTS
    Sessions,      \* IB objects; one that nobody refers to is used again
    Loops,         \* tasks that may run _reconnect_loop
    Requests,      \* coroutines that may call start()
    Boot,          \* the one of the application's lifespan
    Delays,        \* length of the backoff schedule, _reconnect_delays
    MaxPositions,  \* bound on the positions that need a contract lookup
    Composite,     \* the adapter is a child of a CompositeBroker
    None           \* Python's None

ASSUME BootAssumption == Boot \in Requests
ASSUME CoroutineAssumption == Loops \cap Requests = {}
ASSUME DelaysAssumption == Delays \in Nat \ {0}
ASSUME MaxPositionsAssumption == MaxPositions \in Nat
ASSUME CompositeAssumption == Composite \in BOOLEAN
ASSUME NoneAssumption == None \notin Sessions \cup Loops \cup Requests

VARIABLES
    state,     \* _connection_state
    ib,        \* _ib
    up,        \* sessions whose TCP connection is open
    hooked,    \* sessions whose disconnectedEvent calls _handle_disconnect
    task,      \* _reconnect_task
    wakeup,    \* _reconnect_wakeup: "none", or the Event's flag
    attached,  \* loops that wait on the Event _reconnect_wakeup refers to
    backoff,   \* _current_backoff_delay, as an index of the schedule; 0: None
    attempt,   \* the loop variable of _reconnect_loop
    pc,        \* where each coroutine awaits
    own,       \* the local "ib" of each coroutine's connect()
    left,      \* positions left in the for loop of _start_streaming
    shutdown   \* progress of disconnect()

vars == <<state, ib, up, hooked, task, wakeup, attached, backoff, attempt,
          pc, own, left, shutdown>>

Coroutines == Loops \cup Requests

(* What an awaiting connect() depends on, and what disconnect() alone moves. *)
connectVars == <<own, left>>
retryVars   == <<wakeup, attached, backoff, attempt>>

States == {"CONNECTED", "RECONNECTING", "DISCONNECTED"}

Streaming  == {"positions", "tickers", "contracts"}
Connecting == {"dialing"} \cup Streaming
LoopPCs    == {"done", "new", "sleeping"} \cup Connecting
RequestPCs == {"done", "scheduled"} \cup Connecting

TypeOK ==
    /\ state \in States
    /\ ib \in Sessions \cup {None}
    /\ up \subseteq Sessions
    /\ hooked \subseteq Sessions
    /\ task \in Loops \cup {None}
    /\ wakeup \in {"none", "clear", "set"}
    /\ attached \subseteq Loops
    /\ backoff \in 0..Delays
    /\ attempt \in [Loops -> 0..Delays]
    /\ pc \in [Coroutines -> LoopPCs \cup RequestPCs]
    /\ \A l \in Loops : pc[l] \in LoopPCs
    /\ \A r \in Requests : pc[r] \in RequestPCs
    /\ own \in [Coroutines -> Sessions \cup {None}]
    /\ left \in [Coroutines -> 0..MaxPositions]
    /\ shutdown \in {"running", "cancelling", "draining", "off"}

Alive(c) == pc[c] # "done"

Disconnecting == shutdown \in {"cancelling", "draining"}

(* The lifespan awaits broker.start() before the application serves.        *)
Serving == ~Alive(Boot) /\ shutdown = "running"

Init ==
    /\ state = "DISCONNECTED"
    /\ ib = None
    /\ up = {}
    /\ hooked = {}
    /\ task = None
    /\ wakeup = "none"
    /\ attached = {}
    /\ backoff = 0
    /\ attempt = [l \in Loops |-> 0]
    /\ pc = [c \in Coroutines |-> IF c = Boot THEN "scheduled" ELSE "done"]
    /\ own = [c \in Coroutines |-> None]
    /\ left = [c \in Coroutines |-> 0]
    /\ shutdown = "running"

-----------------------------------------------------------------------------
(* Helpers.  "pcs" is pc after what the step itself does to it.             *)

(* The factory's new IB object: which of the unused ones is immaterial.     *)
Unused == {s \in Sessions \ (up \cup {ib}) : \A c \in Coroutines : own[c] # s}

IbFactory(c) ==
    /\ Unused # {}
    /\ own' = [own EXCEPT ![c] = CHOOSE s \in Unused : TRUE]

(* Mutation of SpawnLoop: the running loop is not looked for.               *)
SpawnLoopAlways(pcs) ==
    \E l \in Loops :
        /\ pcs[l] = "done"
        /\ pc' = [pcs EXCEPT ![l] = "new"]
        /\ task' = l

(* Mutation of SpawnLoop: a finished task counts as a running one.          *)
SpawnLoopOnce(pcs) ==
    IF task # None
    THEN pc' = pcs /\ UNCHANGED task
    ELSE \E l \in Loops :
            /\ pcs[l] = "done"
            /\ pc' = [pcs EXCEPT ![l] = "new"]
            /\ task' = l

(* create_task(_reconnect_loop()), unless the last one is still running.    *)
SpawnLoop(pcs) ==
    IF task # None /\ pcs[task] # "done"
    THEN pc' = pcs /\ UNCHANGED task
    ELSE \E l \in Loops :
            /\ pcs[l] = "done"
            /\ pc' = [pcs EXCEPT ![l] = "new"]
            /\ task' = l

HandleDisconnect(pcs) ==
    IF Disconnecting \/ state = "RECONNECTING"
    THEN pc' = pcs /\ UNCHANGED <<state, task>>
    ELSE state' = "RECONNECTING" /\ SpawnLoop(pcs)

(* The next iteration of the loop, up to the wait on the wakeup event.      *)
EnterDelay(l, n) ==
    /\ attempt' = [attempt EXCEPT ![l] = n]
    /\ backoff' = n
    /\ wakeup' = IF wakeup = "none" THEN "clear" ELSE wakeup
    /\ attached' = attached \cup {l}
    /\ pc' = [pc EXCEPT ![l] = "sleeping"]

(* The loop's finally: whoever waits on the discarded event is orphaned.    *)
LeaveLoop(l) ==
    /\ attempt' = [attempt EXCEPT ![l] = 0]
    /\ backoff' = 0
    /\ wakeup' = "none"
    /\ attached' = {}
    /\ pc' = [pc EXCEPT ![l] = "done"]

(* The locals of c's connect() end with it.                                 *)
EndConnect(c) ==
    /\ own' = [own EXCEPT ![c] = None]
    /\ left' = [left EXCEPT ![c] = 0]

-----------------------------------------------------------------------------
(* connect(), run by coroutine c.                                           *)

(* Mutation of ConnectRaises: one attempt more than there are delays.       *)
ConnectRaisesOffByOne(c) ==
    \/ /\ c \in Requests
       /\ HandleDisconnect([pc EXCEPT ![c] = "done"])
       /\ UNCHANGED retryVars
    \/ /\ c \in Loops
       /\ attempt[c] =< Delays
       /\ EnterDelay(c, attempt[c] + 1)
       /\ UNCHANGED <<state, task>>

(* Mutation of ConnectRaises: giving up leaves the state RECONNECTING.      *)
ConnectRaisesSilently(c) ==
    \/ /\ c \in Requests
       /\ HandleDisconnect([pc EXCEPT ![c] = "done"])
       /\ UNCHANGED retryVars
    \/ /\ c \in Loops
       /\ attempt[c] < Delays
       /\ EnterDelay(c, attempt[c] + 1)
       /\ UNCHANGED <<state, task>>
    \/ /\ c \in Loops
       /\ attempt[c] = Delays
       /\ LeaveLoop(c)
       /\ UNCHANGED <<state, task>>

(* The caller's reaction to an exception: the loop goes on with the next    *)
(* delay or gives up, start() treats it as a disconnect.                    *)
ConnectRaises(c) ==
    \/ /\ c \in Requests
       /\ HandleDisconnect([pc EXCEPT ![c] = "done"])
       /\ UNCHANGED retryVars
    \/ /\ c \in Loops
       /\ attempt[c] < Delays
       /\ EnterDelay(c, attempt[c] + 1)
       /\ UNCHANGED <<state, task>>
    \/ /\ c \in Loops
       /\ attempt[c] = Delays
       /\ state' = "DISCONNECTED"
       /\ LeaveLoop(c)
       /\ UNCHANGED task

DialFails(c) ==
    /\ pc[c] = "dialing"
    /\ ConnectRaises(c)
    /\ EndConnect(c)
    /\ UNCHANGED <<ib, up, hooked, shutdown>>

(* Mutation of DialSucceeds: the disconnect handler is not registered.      *)
DialSucceedsUnhooked(c) ==
    /\ pc[c] = "dialing"
    /\ up = {}
    /\ up' = {own[c]}
    /\ ib' = own[c]
    /\ pc' = [pc EXCEPT ![c] = "positions"]
    /\ UNCHANGED <<state, hooked, task, retryVars, connectVars, shutdown>>

(* The gateway holds one session per clientId: while one is open, another   *)
(* dial with the same clientId is refused.                                  *)
DialSucceeds(c) ==
    /\ pc[c] = "dialing"
    /\ up = {}
    /\ up' = {own[c]}
    /\ ib' = own[c]
    /\ hooked' = hooked \cup {own[c]}
    /\ pc' = [pc EXCEPT ![c] = "positions"]
    /\ UNCHANGED <<state, task, retryVars, connectVars, shutdown>>

(* An exception out of _start_streaming.  The IB object is forgotten, its   *)
(* TCP connection is not closed.                                            *)
StreamingFails(c) ==
    /\ ib' = None
    /\ hooked' = hooked \ {own[c]}
    /\ ConnectRaises(c)
    /\ EndConnect(c)
    /\ UNCHANGED <<up, shutdown>>

PositionsArrive(c) ==
    /\ pc[c] = "positions"
    /\ own[c] \in up
    /\ pc' = [pc EXCEPT ![c] = "tickers"]
    /\ UNCHANGED <<state, ib, up, hooked, task, retryVars, connectVars,
                   shutdown>>

(* No price is asked for: the account holds no stock, or only stock whose   *)
(* exchange is permission gated.                                            *)
NoQuotesWanted(c) ==
    /\ pc[c] = "positions"
    /\ own[c] \in up
    /\ pc' = [pc EXCEPT ![c] = "contracts"]
    /\ \E n \in 0..MaxPositions : left' = [left EXCEPT ![c] = n]
    /\ UNCHANGED <<state, ib, up, hooked, task, retryVars, own, shutdown>>

(* The rest of get_positions uses whatever _ib is by now.  Its other awaits *)
(* swallow their errors.                                                    *)
TickersArrive(c) ==
    /\ pc[c] = "tickers"
    /\ ib \in up
    /\ pc' = [pc EXCEPT ![c] = "contracts"]
    /\ \E n \in 0..MaxPositions : left' = [left EXCEPT ![c] = n]
    /\ UNCHANGED <<state, ib, up, hooked, task, retryVars, own, shutdown>>

(* An error of the gateway, a dead session, or an _ib that became None.     *)
GetPositionsRaises(c) ==
    /\ pc[c] \in {"positions", "tickers"}
    /\ StreamingFails(c)

(* _contract_for_position swallowed an error or found nothing, or the       *)
(* exchange is permission gated: the position is not subscribed.            *)
SkipPosition(c) ==
    /\ pc[c] = "contracts"
    /\ left[c] > 1
    /\ left' = [left EXCEPT ![c] = @ - 1]
    /\ UNCHANGED <<state, ib, up, hooked, task, pc, retryVars, own, shutdown>>

(* reqMktData on the current _ib.                                           *)
SubscribePosition(c) ==
    /\ pc[c] = "contracts"
    /\ left[c] > 1
    /\ ib \in up
    /\ left' = [left EXCEPT ![c] = @ - 1]
    /\ UNCHANGED <<state, ib, up, hooked, task, pc, retryVars, own, shutdown>>

SubscribeRaises(c) ==
    /\ pc[c] = "contracts"
    /\ left[c] > 0
    /\ ib \notin up
    /\ StreamingFails(c)

(* The last lookup, or with none to make the last await of get_positions,   *)
(* is over: connect() returns at once; a reconnect loop fires its hooks and *)
(* ends.                                                                    *)
ConnectReturns(c) ==
    /\ pc[c] = "contracts"
    /\ left[c] =< 1
    /\ state' = "CONNECTED"
    /\ IF c \in Loops
       THEN LeaveLoop(c)
       ELSE pc' = [pc EXCEPT ![c] = "done"] /\ UNCHANGED retryVars
    /\ EndConnect(c)
    /\ UNCHANGED <<ib, up, hooked, task, shutdown>>

-----------------------------------------------------------------------------
(* start().                                                                 *)

(* CompositeBroker.retry_now reads the state; the child's start() runs as a *)
(* task of its own some loop iterations later.                              *)
ScheduleStart(r) ==
    /\ Composite
    /\ Serving
    /\ r # Boot
    /\ pc[r] = "done"
    /\ state = "DISCONNECTED"
    /\ pc' = [pc EXCEPT ![r] = "scheduled"]
    /\ UNCHANGED <<state, ib, up, hooked, task, retryVars, connectVars,
                   shutdown>>

Start(r) ==
    /\ pc[r] = "scheduled"
    /\ pc' = [pc EXCEPT ![r] = "dialing"]
    /\ IbFactory(r)
    /\ UNCHANGED <<state, ib, up, hooked, task, retryVars, left, shutdown>>

-----------------------------------------------------------------------------
(* The reconnect loop.                                                      *)

LoopStarts(l) ==
    /\ pc[l] = "new"
    /\ EnterDelay(l, 1)
    /\ UNCHANGED <<state, ib, up, hooked, task, connectVars, shutdown>>

(* The delay ends, by its timeout or by the event; the event that was       *)
(* waited on is cleared.                                                    *)
WakesConnected(l) ==
    /\ pc[l] = "sleeping"
    /\ state = "CONNECTED"
    /\ LeaveLoop(l)
    /\ UNCHANGED <<state, ib, up, hooked, task, connectVars, shutdown>>

WakesToDial(l) ==
    /\ pc[l] = "sleeping"
    /\ state # "CONNECTED"
    /\ wakeup' = IF l \in attached THEN "clear" ELSE wakeup
    /\ attached' = attached \ {l}
    /\ ib' = None
    /\ pc' = [pc EXCEPT ![l] = "dialing"]
    /\ IbFactory(l)
    /\ UNCHANGED <<state, up, hooked, task, backoff, attempt, left, shutdown>>

-----------------------------------------------------------------------------
(* The operator: POST /healthz/retry, or the retry after a gateway restart. *)

(* Mutation of RetryNow: every retry makes an Event of its own.             *)
RetryNowFreshEvent ==
    /\ Serving
    /\ state # "CONNECTED"
    /\ wakeup' = "set"
    /\ attached' = {}
    /\ state' = "RECONNECTING"
    /\ SpawnLoop(pc)
    /\ UNCHANGED <<ib, up, hooked, backoff, attempt, connectVars, shutdown>>

(* Mutation of RetryNow: after exhaustion no loop is started.               *)
RetryNowNoRestart ==
    /\ Serving
    /\ state # "CONNECTED"
    /\ wakeup' = "set"
    /\ UNCHANGED <<state, ib, up, hooked, task, attached, backoff, attempt, pc,
                   connectVars, shutdown>>

RetryNow ==
    /\ Serving
    /\ state # "CONNECTED"
    /\ wakeup' = "set"
    /\ state' = "RECONNECTING"
    /\ SpawnLoop(pc)
    /\ UNCHANGED <<ib, up, hooked, attached, backoff, attempt, connectVars,
                   shutdown>>

-----------------------------------------------------------------------------
(* The gateway: the TCP connection of a session is lost (daily restart,     *)
(* network) and ib_async calls the session's disconnectedEvent.  A closed   *)
(* session emits nothing more: whether it is hooked no longer matters.      *)

Drop(s) ==
    /\ s \in up
    /\ up' = up \ {s}
    /\ IF s \in hooked
       THEN HandleDisconnect(pc)
       ELSE UNCHANGED <<state, task, pc>>
    /\ hooked' = hooked \ {s}
    /\ UNCHANGED <<ib, retryVars, connectVars, shutdown>>

-----------------------------------------------------------------------------
(* disconnect(), called once by the lifespan when the requests are drained. *)

(* task.cancel() and the await of the cancelled task, when there is one.    *)
DisconnectBegins ==
    /\ shutdown = "running"
    /\ \A r \in Requests : ~Alive(r)
    /\ shutdown' = IF \E l \in Loops : l = task /\ Alive(l)
                   THEN "cancelling" ELSE "draining"
    /\ task' = None
    /\ wakeup' = "none"
    /\ attached' = {}
    /\ UNCHANGED <<state, ib, up, hooked, backoff, attempt, pc, connectVars>>

(* CancelledError passes the "except Exception" of connect(): _ib and the   *)
(* handlers stay as they are.                                               *)
LoopCancelled(l) ==
    /\ shutdown = "cancelling"
    /\ Alive(l)
    /\ LeaveLoop(l)
    /\ EndConnect(l)
    /\ shutdown' = "draining"
    /\ UNCHANGED <<state, ib, up, hooked, task>>

(* The pending fill writes are drained; _ib is closed if there is one.      *)
DisconnectEnds ==
    /\ shutdown = "draining"
    /\ up' = up \ {ib}
    /\ hooked' = hooked \ {ib}
    /\ ib' = None
    /\ state' = "DISCONNECTED"
    /\ wakeup' = "none"
    /\ attached' = {}
    /\ shutdown' = "off"
    /\ UNCHANGED <<task, backoff, attempt, pc, connectVars>>

-----------------------------------------------------------------------------
ConnectStep(c) ==
    \/ DialFails(c)
    \/ DialSucceeds(c)
    \/ PositionsArrive(c)
    \/ NoQuotesWanted(c)
    \/ TickersArrive(c)
    \/ GetPositionsRaises(c)
    \/ SkipPosition(c)
    \/ SubscribePosition(c)
    \/ SubscribeRaises(c)
    \/ ConnectReturns(c)

LoopStep(l) ==
    \/ LoopStarts(l)
    \/ WakesConnected(l)
    \/ WakesToDial(l)

DisconnectStep ==
    \/ \E l \in Loops : LoopCancelled(l)
    \/ DisconnectEnds

(* A cancelled loop takes no other step.                                    *)
CoroutineStep(c) ==
    /\ ~(c \in Loops /\ shutdown = "cancelling")
    /\ \/ ConnectStep(c)
       \/ c \in Loops /\ LoopStep(c)
       \/ c \in Requests /\ Start(c)

Next ==
    \/ \E c \in Coroutines : CoroutineStep(c)
    \/ \E r \in Requests : ScheduleStart(r)
    \/ RetryNow
    \/ \E s \in Sessions : Drop(s)
    \/ DisconnectBegins
    \/ DisconnectStep

(* Timers fire, and every request to the gateway is answered or fails.  The *)
(* operator, the gateway's drops and the shutdown are not fair.             *)
Fairness ==
    /\ \A c \in Coroutines : WF_vars(CoroutineStep(c))
    /\ WF_vars(DisconnectStep)

Spec == Init /\ [][Next]_vars /\ Fairness

-----------------------------------------------------------------------------
(* Properties.                                                              *)

(* Two reconnect loops never run at once: _handle_disconnect, retry_now and *)
(* disconnect leave at most one _reconnect_loop task that is not done.  Two *)
(* would dial the gateway twice and clear each other's _streaming.          *)
AtMostOneLoop ==
    \A l, m \in Loops : Alive(l) /\ Alive(m) => l = m

(* While the badge says RECONNECTING a loop is at work: the state is never  *)
(* left behind without the task that alone can change it.                   *)
ReconnectingHasLoop ==
    state = "RECONNECTING" /\ shutdown = "running" =>
        task # None /\ Alive(task)

(* A sleeping loop waits on the very Event that retry_now would set: the    *)
(* discards of _reconnect_wakeup never orphan a sleeper.                    *)
SleeperHearsRetry ==
    \A l \in Loops :
        pc[l] = "sleeping" /\ ~Disconnecting =>
            l \in attached /\ wakeup # "none"

(* The session the dashboard relies on is watched: whenever _ib is open its *)
(* drop reaches _handle_disconnect, whichever coroutine's connect() set it. *)
LiveSessionWatched ==
    ib \in up => ib \in hooked

(* The comment on ConnectionState: "CONNECTED: gateway responsive, market   *)
(* data flowing".  While CONNECTED the adapter holds a session that is open. *)
ConnectedIsLive ==
    state = "CONNECTED" /\ shutdown = "running" => ib \in up

(* The adapter keeps the promises of a broker connection: RECONNECTING is   *)
(* never left behind, only a coroutine at work reports the connection made  *)
(* or given up, and every reconnect window ends.                            *)
Busy == Disconnecting \/ \E c \in Coroutines : Alive(c)

Connection == INSTANCE BrokerConnection WITH busy <- Busy

ImplementsBroker == Connection!Spec

(* An operator's retry is never left hanging: it is consumed by a loop that *)
(* dials, or the adapter leaves RECONNECTING.                               *)
RetryHeeded ==
    wakeup = "set" ~> wakeup # "set"

=============================================================================
