---------------------------- MODULE FutuAdapter ----------------------------
(***************************************************************************)
(* FutuAdapter (app/adapters/futu.py): the lifecycle of PollingAdapter     *)
(* with a connect() of its own.  The contexts of OpenD are built in        *)
(* threads (phase building) and become _contexts, the variable client,     *)
(* when all of them are there; CONNECTED is assigned before the first      *)
(* refresh, whose failure starts a reconnect loop before connect()'s       *)
(* except says DISCONNECTED; the poll task asks nothing of a broker that   *)
(* is not CONNECTED.  The rest is the same code as Tiger's.                *)
(***************************************************************************)
EXTENDS PollingAdapter

CONSTANT SlowClose  \* closing the contexts may take longer than a delay

ASSUME SlowCloseAssumption == SlowClose \in BOOLEAN

(* _get_sdk finds moomoo or futu, and keeps it.  A configuration that is    *)
(* not valid raises outside the try of connect(); then comes the first      *)
(* thread.                                                                  *)
Validate(c) ==
    /\ pc[c] = "build"
    /\ c # Shutdown
    /\ \/ Goto(c, "building") /\ UNCHANGED error
       \/ Raise(c, "config", "raised")
    /\ UNCHANGED <<state, taskVars, client, backoff, rows, attempt>>

(* _get_sdk finds neither: a RuntimeError, which the callers of connect()   *)
(* take for a lost connection.                                              *)
SdkMissing(c) ==
    /\ pc[c] = "build"
    /\ c # Shutdown
    /\ Raise(c, "other", "raised")
    /\ UNCHANGED <<state, taskVars, client, backoff, rows, attempt>>

ContextsBuilt(c) ==
    /\ pc[c] = "building"
    /\ client' = TRUE
    /\ Goto(c, "accounts")
    /\ UNCHANGED <<state, taskVars, backoff, rows, attempt, error>>

(* connect()'s except: the contexts built so far become _contexts, to be    *)
(* closed, and the state is DISCONNECTED before that is awaited.            *)
ContextsFail(c) ==
    /\ pc[c] \in {"building", "accounts"}
    /\ \E e \in {"config", "other"} : Raise(c, e, "abort")
    /\ client' \in IF pc[c] = "building" THEN BOOLEAN ELSE {TRUE}
    /\ state' = "DISCONNECTED"
    /\ UNCHANGED <<taskVars, backoff, rows, attempt>>

(* The first refresh has ended, and connect() returns.                      *)
Refreshed(c, fetched) ==
    \E p \in Pollers :
        /\ ~Alive(p)
        /\ poll' = p
        /\ pc' = [pc EXCEPT ![c] = "done", ![p] = "sleeping"]
        /\ rows' = fetched
        /\ attempt' = [l \in Loops |-> IF l = c THEN 0 ELSE attempt[l]]
        /\ UNCHANGED <<task, client, error, waits, cancelled>>

(* CONNECTED, before the first refresh.  Without accounts there is nothing  *)
(* to ask, and [] replaces the rows.                                        *)
AccountsKnown(c) ==
    /\ pc[c] = "accounts"
    /\ state' = "CONNECTED"
    /\ backoff' = 0
    /\ IF client
       THEN Goto(c, "fetching") /\ UNCHANGED <<taskVars, client, rows, attempt, error>>
       ELSE Refreshed(c, "empty")

(* get_positions has asked for the positions, or for the cash as well: the  *)
(* accounts are those that are known by then.                               *)
PositionsKnown(c) ==
    /\ pc[c] = "fetching"
    /\ client
    /\ Goto(c, "balances")
    /\ UNCHANGED <<state, taskVars, client, backoff, rows, attempt, error>>

Answers(c, fetched) ==
    \/ pc[c] = "fetching" /\ ~client /\ fetched = "torn"
    \/ pc[c] = "balances" /\ fetched = "positions"

FirstRefreshReturns(c) ==
    /\ \E fetched \in {"torn", "positions"} : Answers(c, fetched) /\ Refreshed(c, fetched)
    /\ backoff' = IF c \in Loops THEN 0 ELSE backoff
    /\ UNCHANGED state

RefreshReturns(p) ==
    \E fetched \in {"torn", "positions"} : Answers(p, fetched) /\ Delivered(p, fetched)

(* A query failed: _enter_reconnecting, and then connect()'s except.        *)
FirstRefreshRaises(c) ==
    /\ pc[c] \in {"fetching", "balances"}
    /\ \E e \in {"config", "other"} : error' = [error EXCEPT ![c] = e]
    /\ IF state = "RECONNECTING" \/ (task # None /\ Alive(task))
       THEN Goto(c, "abort") /\ UNCHANGED task
       ELSE \E l \in Loops :
                /\ ~Alive(l)
                /\ task' = l
                /\ pc' = [pc EXCEPT ![c] = "abort", ![l] = "new"]
    /\ state' = "DISCONNECTED"
    /\ client' = TRUE
    /\ UNCHANGED <<poll, backoff, rows, attempt, waits, cancelled>>

FutuConnectStep(c) ==
    \/ StopStep(c)
    \/ Validate(c)
    \/ ContextsBuilt(c)
    \/ ContextsFail(c)
    \/ AccountsKnown(c)
    \/ PositionsKnown(c)
    \/ FirstRefreshReturns(c)
    \/ FirstRefreshRaises(c)
    \/ CloseClients(c, "abort", "aborting", "raised")
    \/ ClientsClosed(c, "aborting", "raised")

(* _refresh_live_positions returns at once unless the state is CONNECTED.   *)
FutuPollWakes(p) ==
    /\ pc[p] = "sleeping"
    /\ state = "CONNECTED"
    /\ PollWakes(p)

FutuPollStep(p) ==
    \/ FutuPollWakes(p)
    \/ PositionsKnown(p)
    \/ RefreshReturns(p)
    \/ pc[p] \in {"fetching", "balances"} /\ FetchRaises(p, "other")

(* A delay, of five seconds or more, outlasts the closing of contexts.      *)
DelayOver ==
    SlowClose \/ \A c \in Coroutines : pc[c] \notin {"closing", "aborting", "leaving"}

FutuStep(c) ==
    /\ MayRun(c)
    /\ IF c \in cancelled /\ pc[c] \notin {"awaitLoop", "awaitPoll"}
       THEN TaskCancelled(c)
       ELSE \/ c \notin Pollers /\ FutuConnectStep(c)
            \/ c \in Requests /\ StartStep(c)
            \/ c \in Loops /\ (pc[c] = "sleeping" => DelayOver) /\ LoopStep(c)
            \/ c \in Pollers /\ FutuPollStep(c)

FutuNext ==
    \/ \E c \in Coroutines : FutuStep(c)
    \/ \E r \in Requests : MayRun(r) /\ ScheduleStart(r)
    \/ MayRun(Shutdown) /\ DisconnectBegins

(* Where no SDK is installed, no connect() gets any further, and there is   *)
(* never a context nor a poll task.                                         *)
NoSdkStep(c) ==
    /\ MayRun(c)
    /\ IF c \in cancelled /\ pc[c] \notin {"awaitLoop", "awaitPoll"}
       THEN TaskCancelled(c)
       ELSE \/ c \notin Pollers /\ (StopStep(c) \/ SdkMissing(c))
            \/ c \in Requests /\ StartStep(c)
            \/ c \in Loops /\ LoopStep(c)

NoSdkNext ==
    \/ \E c \in Coroutines : NoSdkStep(c)
    \/ \E r \in Requests : MayRun(r) /\ ScheduleStart(r)
    \/ MayRun(Shutdown) /\ DisconnectBegins

=============================================================================
