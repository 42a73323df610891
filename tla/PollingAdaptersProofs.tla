----------------------- MODULE PollingAdaptersProofs -----------------------
(***************************************************************************)
(* Proofs about PollingAdapters, the Tiger, Longbridge and Futu adapters,  *)
(* for any number of tasks and any backoff schedule.  Types hold without   *)
(* further ado.  The other results are for one retry of the operator at a  *)
(* time and for clients that are closed within a delay: with two retries   *)
(* at once, or slower closing, two connect() may run side by side.         *)
(***************************************************************************)
EXTENDS PollingAdapters, TLAPS

(* Of the callers of start() only the lifespan's and one other.             *)
OneRetry == \A r, s \in Requests \ {Boot} : r = s

Modest == OneRetry /\ ~SlowClose

Drivers == Requests \cup {Shutdown}

(* connect() after it has stopped the tasks, and after it has failed.       *)
Querying == {"fetching", "quoting", "balances"}
Working  == {"close", "closing", "build", "building", "accounts"} \cup Querying
Failing  == {"abort", "aborting", "raised", "leave", "leaving", "left"}

-----------------------------------------------------------------------------
(* The invariant.                                                           *)

(* Where each kind of coroutine may be.  No loop ever awaits a task: there  *)
(* is no poll task while one is at work.                                    *)
PhasesInv ==
    /\ \A l \in Loops : pc[l] \in {"done", "new", "sleeping", "stop", "stopPoll"}
                                    \cup Working \cup {"abort", "aborting", "raised"}
    /\ \A p \in Pollers : pc[p] \in {"done", "sleeping"} \cup Querying
    /\ \A r \in Requests : pc[r] \in
          {"done", "scheduled", "stop", "awaitLoop", "stopPoll", "awaitPoll"}
            \cup Working \cup Failing
    /\ pc[Shutdown] \in {"scheduled", "stop", "awaitLoop", "stopPoll",
                         "awaitPoll", "close", "closing", "build", "done"}

(* Requests come one after the other, and the shutdown after them all.      *)
DriversInv ==
    /\ \A r, s \in Requests : Alive(r) /\ Alive(s) => r = s
    /\ pc[Shutdown] # "scheduled" => \A r \in Requests : ~Alive(r)

(* A cancelled task has the one who cancelled it waiting for its end.       *)
CancelInv ==
    /\ \A t \in cancelled :
          /\ Alive(t)
          /\ \E d \in Drivers :
                waits[d] = t /\ pc[d] = IF t \in Loops THEN "awaitLoop"
                                                       ELSE "awaitPoll"
    /\ \A d \in Drivers :
          /\ pc[d] = "awaitLoop" =>
                /\ waits[d] \in Loops /\ task = None
                /\ Alive(waits[d]) => waits[d] \in cancelled
          /\ pc[d] = "awaitPoll" =>
                /\ waits[d] \in Pollers /\ poll = None
                /\ Alive(waits[d]) => waits[d] \in cancelled

(* A loop is _reconnect_task or cancelled, runs alone but for a start()     *)
(* that waits for its end or is failing, and has no poll task beside it.    *)
LoopOK(l) ==
    /\ task = l \/ l \in cancelled
    /\ task = l => l \notin cancelled
    /\ \A d \in Drivers :
          \/ pc[d] \in {"done", "scheduled", "stop", "awaitLoop"}
          \/ kind = "futu" /\ pc[d] \in Failing /\ pc[l] \in {"new", "sleeping"}
    /\ pc[Shutdown] # "done"
    /\ \A p \in Pollers : ~Alive(p)
    /\ kind # "futu" /\ pc[l] # "raised" => state = "RECONNECTING"

LoopsInv == \A l \in Loops : Alive(l) => LoopOK(l)

(* A poll task is _poll_task or cancelled, of a connected adapter with its  *)
(* client; nobody has got beyond stopping it.                               *)
PollerOK(p) ==
    /\ poll = p \/ p \in cancelled
    /\ poll = p => p \notin cancelled
    /\ state = "CONNECTED" /\ client
    /\ \A d \in Drivers :
          pc[d] \in {"done", "scheduled", "stop", "stopPoll", "awaitPoll"}
    /\ pc[Shutdown] # "done"

PollersInv == \A p \in Pollers : Alive(p) => PollerOK(p)

(* connect() asks its own client, and Futu's says CONNECTED meanwhile.      *)
ClientInv ==
    \A c \in Loops \cup Requests :
        /\ pc[c] \in {"accounts"} \cup Querying => client
        /\ kind = "futu" /\ pc[c] \in Querying => state = "CONNECTED"

(* What the state says of the coroutines.                                   *)
NotLeftBehind ==
    state = "RECONNECTING" =>
        \/ \E c \in Loops \cup Requests : Alive(c)
        \/ pc[Shutdown] \notin {"scheduled", "done"}

Watched ==
    state = "CONNECTED" /\ Running =>
        \/ \E p \in Pollers : Alive(p)
        \/ \E c \in Loops \cup Requests : pc[c] \in Immediate \cup Awaiting

(* A start() that will call _enter_reconnecting finds another state; those  *)
(* of Tiger and Longbridge find DISCONNECTED all along.                     *)
StartsOK ==
    \A r \in Requests :
        /\ pc[r] \in Failing /\ error[r] = "other" => state # "RECONNECTING"
        /\ kind # "futu" /\ Alive(r) => /\ state = "DISCONNECTED"
                                        /\ \A l \in Loops : ~Alive(l)

StateInv ==
    /\ NotLeftBehind /\ Watched /\ StartsOK
    /\ pc[Shutdown] = "done" => state = "DISCONNECTED"

KindOK == kind \in {"tiger", "longbridge", "futu", "futuNoSdk"}

PollInv ==
    /\ TypeOK /\ KindOK /\ PhasesInv /\ DriversInv /\ CancelInv
    /\ LoopsInv /\ PollersInv /\ ClientInv /\ StateInv


-----------------------------------------------------------------------------
(* Types.                                                                   *)

Phases == {"done", "new", "sleeping", "scheduled"} \cup Immediate \cup Awaiting

(* The steps that connect(), start() and disconnect() have in common.       *)
LEMMA StopTypes ==
    ASSUME TypeOK, NEW c \in Coroutines, StopStep(c)
    PROVE  TypeOK'
<1> USE DEF TypeOK, Goto, taskVars, Immediate, Awaiting
<1>1. CASE StopReconnecting(c)
  BY <1>1, DelaysAssumption DEF StopReconnecting, Tasks
<1>2. CASE StopPolling(c)
  BY <1>2 DEF StopPolling, Tasks
<1>3. CASE TaskAwaited(c)
  BY <1>3 DEF TaskAwaited
<1>4. CASE CloseClients(c, "close", "closing", "build")
  BY <1>4 DEF CloseClients
<1>5. CASE ClientsClosed(c, "closing", "build")
  BY <1>5 DEF ClientsClosed
<1>6. CASE DisconnectEnds(c)
  BY <1>6 DEF DisconnectEnds, States
<1> QED BY <1>1, <1>2, <1>3, <1>4, <1>5, <1>6 DEF StopStep

LEMMA AbortTypes ==
    ASSUME TypeOK, NEW c \in Coroutines, AbortStep(c)
    PROVE  TypeOK'
<1> USE DEF TypeOK, Goto, taskVars, Immediate, Awaiting
<1>1. CASE AbortsAtOnce(c)
  BY <1>1 DEF AbortsAtOnce, States
<1>2. CASE AbortCloses(c)
  BY <1>2 DEF AbortCloses, CloseClients
<1>3. CASE Aborted(c)
  BY <1>3 DEF Aborted, States
<1> QED BY <1>1, <1>2, <1>3 DEF AbortStep

(* connect() returns, in all three.                                         *)
LEMMA ReturnTypes ==
    ASSUME TypeOK, NEW c \in Coroutines,
           NEW fetched \in {"empty", "torn", "positions"},
           ConnectReturns(c, fetched) \/
              (Refreshed(c, fetched) /\ backoff' \in {0, backoff}
                                     /\ state' \in {state, "CONNECTED"})
    PROVE  TypeOK'
<1> PICK p \in Pollers :
        /\ poll' = p
        /\ pc' = [pc EXCEPT ![c] = "done", ![p] = "sleeping"]
        /\ state' \in {state, "CONNECTED"}
        /\ backoff' \in {0, backoff}
        /\ rows' = fetched
        /\ attempt' = [l \in Loops |-> IF l = c THEN 0 ELSE attempt[l]]
        /\ UNCHANGED <<task, client, error, waits, cancelled>>
  BY DEF ConnectReturns, Refreshed
<1>1. 0 \in 0..Delays
  BY DelaysAssumption
<1>2. attempt' \in [Loops -> 0..Delays]
  BY <1>1 DEF TypeOK
<1>3. pc' \in [Coroutines -> Phases]
  BY DEF TypeOK, Coroutines, Tasks, Phases
<1>4. backoff' \in 0..Delays
  BY <1>1 DEF TypeOK
<1> QED BY <1>2, <1>3, <1>4 DEF TypeOK, States, Phases

(* _enter_reconnecting.                                                     *)
LEMMA EnterTypes ==
    ASSUME TypeOK, NEW pcs \in [Coroutines -> Phases], EnterReconnecting(pcs)
    PROVE  /\ state' \in States
           /\ task' \in Loops \cup {None}
           /\ pc' \in [Coroutines -> Phases]
BY DEF TypeOK, EnterReconnecting, Phases, States, Coroutines, Tasks

LEMMA FetchRaisesTypes ==
    ASSUME TypeOK, NEW c \in Coroutines, NEW e \in {"config", "other"},
           FetchRaises(c, e)
    PROVE  TypeOK'
<1> DEFINE pcs == [pc EXCEPT ![c] = "done"]
<1>1. pcs \in [Coroutines -> Phases]
  BY DEF TypeOK, Phases
<1>2. CASE c \in Pollers
  <2>1. EnterReconnecting(pcs)
    BY <1>2 DEF FetchRaises
  <2> HIDE DEF pcs
  <2>2. /\ state' \in States
        /\ task' \in Loops \cup {None}
        /\ pc' \in [Coroutines -> Phases]
    BY <1>1, <2>1, EnterTypes
  <2> QED BY <1>2, <2>2 DEF FetchRaises, TypeOK, Phases
<1>3. CASE c \notin Pollers
  BY <1>3 DEF FetchRaises, Raise, Goto, TypeOK, Immediate, Awaiting
<1> QED BY <1>2, <1>3

(* _fetch_positions.                                                        *)
LEMMA FetchTypes ==
    ASSUME TypeOK, NEW c \in Coroutines,
           \/ PositionsArrive(c) \/ QuotesArrive(c) \/ BalancesArrive(c)
           \/ FetchStep(c) \/ LongbridgeFetchStep(c)
    PROVE  TypeOK'
<1>1. ASSUME NEW fetched \in {"empty", "torn", "positions"}, Delivered(c, fetched)
      PROVE  TypeOK'
  <2>1. CASE c \in Pollers
    BY <1>1, <2>1 DEF Delivered, TypeOK, Goto, taskVars, Immediate, Awaiting
  <2>2. CASE c \notin Pollers
    BY <1>1, <2>2, ReturnTypes DEF Delivered
  <2> QED BY <2>1, <2>2
<1>2. ASSUME NEW then \in {"quoting", "balances"}, Queried(c, then)
      PROVE  TypeOK'
  <2>1. CASE client
    BY <1>2, <2>1 DEF Queried, TypeOK, Goto, taskVars, Immediate, Awaiting
  <2>2. CASE ~client
    BY <1>1, <1>2, <2>2 DEF Queried
  <2> QED BY <2>1, <2>2
<1>3. PositionsArrive(c) \/ QuotesArrive(c) \/ BalancesArrive(c) => TypeOK'
  BY <1>1, <1>2 DEF PositionsArrive, QuotesArrive, BalancesArrive
<1> QED BY <1>3, FetchRaisesTypes DEF FetchStep, LongbridgeFetchStep, QueryRaises

(* The steps of connect() that are each adapter's own.                      *)
LEMMA ConnectTypes ==
    ASSUME TypeOK, NEW c \in Coroutines,
           ConnectStep(c) \/ LongbridgeConnectStep(c)
    PROVE  TypeOK'
<1>1. ASSUME NEW then \in {"accounts", "fetching"}, Build(c, then)
      PROVE  TypeOK'
  <2>1. client' \in BOOLEAN
    BY <1>1, Zenon DEF Build, TypeOK
  <2>2. /\ pc' \in [Coroutines -> Phases]
        /\ error' \in [Coroutines -> {"none", "config", "other"}]
    BY <1>1 DEF Build, Raise, Goto, TypeOK, Phases, Immediate, Awaiting
  <2> QED BY <1>1, <2>1, <2>2 DEF Build, TypeOK, taskVars, Phases
<1>2. CASE AccountsRaise(c)
  BY <1>2 DEF AccountsRaise, Raise, Goto, TypeOK, taskVars, Immediate, Awaiting
<1>3. CASE AccountsLoaded(c)
  <2>1. CASE client
    BY <1>3, <2>1 DEF AccountsLoaded, Goto, TypeOK, taskVars, Immediate, Awaiting
  <2>2. CASE ~client
    BY <1>3, <2>2, ReturnTypes DEF AccountsLoaded
  <2> QED BY <2>1, <2>2
<1> QED BY <1>1, <1>2, <1>3, StopTypes, AbortTypes, FetchTypes
        DEF ConnectStep, LongbridgeConnectStep

LEMMA FutuTypes ==
    ASSUME TypeOK, NEW c \in Coroutines, FutuConnectStep(c) \/ SdkMissing(c)
    PROVE  TypeOK'
<1>1. CASE Validate(c) \/ SdkMissing(c)
  BY <1>1 DEF Validate, SdkMissing, Raise, Goto, TypeOK, taskVars, Immediate, Awaiting
<1>2. CASE ContextsBuilt(c)
  BY <1>2 DEF ContextsBuilt, Goto, TypeOK, taskVars, Immediate, Awaiting
<1>3. CASE ContextsFail(c)
  <2>1. client' \in BOOLEAN
    BY <1>3, Zenon DEF ContextsFail
  <2> QED BY <1>3, <2>1
          DEF ContextsFail, Raise, Goto, TypeOK, States, taskVars, Immediate, Awaiting
<1>4. CASE AccountsKnown(c)
  <2>1. CASE client
    BY <1>4, <2>1, DelaysAssumption
       DEF AccountsKnown, Goto, TypeOK, States, taskVars, Immediate, Awaiting
  <2>2. CASE ~client
    BY <1>4, <2>2, ReturnTypes DEF AccountsKnown
  <2> QED BY <2>1, <2>2
<1>5. CASE PositionsKnown(c)
  BY <1>5 DEF PositionsKnown, Goto, TypeOK, taskVars, Immediate, Awaiting
<1>6. CASE FirstRefreshReturns(c)
  BY <1>6, ReturnTypes DEF FirstRefreshReturns
<1>7. CASE FirstRefreshRaises(c)
  <2>1. /\ task' \in Loops \cup {None}
        /\ pc' \in [Coroutines -> Phases]
    BY <1>7 DEF FirstRefreshRaises, Goto, TypeOK, Phases, Immediate, Coroutines, Tasks
  <2>2. error' \in [Coroutines -> {"none", "config", "other"}]
    BY <1>7 DEF FirstRefreshRaises, TypeOK
  <2> QED BY <1>7, <2>1, <2>2 DEF FirstRefreshRaises, TypeOK, States, Phases
<1>8. CASE CloseClients(c, "abort", "aborting", "raised")
  BY <1>8 DEF CloseClients, Goto, TypeOK, taskVars, Immediate, Awaiting
<1>9. CASE ClientsClosed(c, "aborting", "raised")
  BY <1>9 DEF ClientsClosed, Goto, TypeOK, taskVars, Immediate, Awaiting
<1> QED BY <1>1, <1>2, <1>3, <1>4, <1>5, <1>6, <1>7, <1>8, <1>9, StopTypes
        DEF FutuConnectStep

LEMMA StartTypes ==
    ASSUME TypeOK, NEW r \in Requests, StartStep(r)
    PROVE  TypeOK'
<1>0. r \in Coroutines
  BY DEF Coroutines
<1> USE <1>0
<1>1. CASE Start(r) \/ StartCatches(r)
  BY <1>1 DEF Start, StartCatches, Goto, TypeOK, taskVars, Immediate, Awaiting
<1>2. CASE CloseClients(r, "leave", "leaving", "left") \/ ClientsClosed(r, "leaving", "left")
  BY <1>2 DEF CloseClients, ClientsClosed, Goto, TypeOK, taskVars, Immediate, Awaiting
<1>3. CASE StartFails(r)
  <2>1. CASE error[r] = "config"
    BY <1>3, <2>1, DelaysAssumption DEF StartFails, Goto, TypeOK, States
  <2>2. CASE error[r] = "other"
    <3> DEFINE pcs == [pc EXCEPT ![r] = "done"]
    <3>1. pcs \in [Coroutines -> Phases]
      BY DEF TypeOK, Phases
    <3>2. EnterReconnecting(pcs) /\ UNCHANGED backoff
      BY <1>3, <2>2 DEF StartFails
    <3> HIDE DEF pcs
    <3>3. /\ state' \in States
          /\ task' \in Loops \cup {None}
          /\ pc' \in [Coroutines -> Phases]
      BY <3>1, <3>2, EnterTypes
    <3> QED BY <1>3, <3>2, <3>3 DEF StartFails, TypeOK, Phases
  <2> QED BY <1>3, <2>1, <2>2 DEF StartFails
<1> QED BY <1>1, <1>2, <1>3 DEF StartStep

LEMMA LoopTypes ==
    ASSUME TypeOK, NEW l \in Loops, LoopStep(l)
    PROVE  TypeOK'
<1>0. l \in Coroutines
  BY DEF Coroutines, Tasks
<1> USE <1>0
<1>1. CASE LoopStarts(l)
  BY <1>1, DelaysAssumption DEF LoopStarts, EnterDelay, Goto, TypeOK, taskVars
<1>2. CASE WakesConnected(l)
  BY <1>2, DelaysAssumption DEF WakesConnected, LeaveLoop, Goto, TypeOK, taskVars
<1>3. CASE WakesToConnect(l)
  BY <1>3 DEF WakesToConnect, Goto, TypeOK, taskVars, Immediate
<1>4. CASE LoopCatches(l)
  <2>1. CASE error[l] = "other" /\ attempt[l] < Delays
    BY <1>4, <2>1, DelaysAssumption
       DEF LoopCatches, EnterDelay, Goto, TypeOK, States, taskVars
  <2>2. CASE ~(error[l] = "other" /\ attempt[l] < Delays)
    BY <1>4, <2>2, DelaysAssumption
       DEF LoopCatches, LeaveLoop, Goto, TypeOK, States, taskVars
  <2> QED BY <2>1, <2>2
<1> QED BY <1>1, <1>2, <1>3, <1>4 DEF LoopStep

LEMMA PollTypes ==
    ASSUME TypeOK, NEW p \in Pollers, PollWakes(p) \/ FutuPollStep(p)
    PROVE  TypeOK'
<1>0. p \in Coroutines
  BY DEF Coroutines, Tasks
<1> USE <1>0
<1>1. CASE PollWakes(p)
  BY <1>1 DEF PollWakes, Goto, TypeOK, taskVars, Awaiting
<1>2. CASE PositionsKnown(p)
  BY <1>2 DEF PositionsKnown, Goto, TypeOK, taskVars, Awaiting
<1>3. CASE RefreshReturns(p)
  BY <1>3 DEF RefreshReturns, Delivered, Goto, TypeOK, taskVars
<1>4. CASE FetchRaises(p, "other")
  BY <1>4, FetchRaisesTypes
<1> QED BY <1>1, <1>2, <1>3, <1>4 DEF FutuPollStep, FutuPollWakes

LEMMA TypesKept ==
    ASSUME TypeOK, [AdapterNext]_adapterVars
    PROVE  TypeOK'
<1>1. ASSUME NEW c \in Coroutines, TaskCancelled(c) PROVE TypeOK'
  BY <1>1, DelaysAssumption DEF TaskCancelled, Goto, TypeOK
<1>2. ASSUME NEW r \in Requests, ScheduleStart(r) PROVE TypeOK'
  BY <1>2 DEF ScheduleStart, Goto, TypeOK, taskVars, Coroutines
<1>3. CASE DisconnectBegins
  BY <1>3 DEF DisconnectBegins, Goto, TypeOK, taskVars, Coroutines, Immediate
<1>4. ASSUME NEW c \in Coroutines, CoroutineStep(c) PROVE TypeOK'
  BY <1>1, <1>4, ConnectTypes, StartTypes, LoopTypes, PollTypes, FetchTypes
     DEF CoroutineStep
<1>5. ASSUME NEW c \in Coroutines, LongbridgeStep(c) PROVE TypeOK'
  BY <1>1, <1>5, ConnectTypes, StartTypes, LoopTypes, PollTypes, FetchTypes
     DEF LongbridgeStep
<1>6. ASSUME NEW c \in Coroutines, FutuStep(c) PROVE TypeOK'
  BY <1>1, <1>6, FutuTypes, StartTypes, LoopTypes, PollTypes DEF FutuStep
<1>7. ASSUME NEW c \in Coroutines, NoSdkStep(c) PROVE TypeOK'
  BY <1>1, <1>7, FutuTypes, StopTypes, StartTypes, LoopTypes DEF NoSdkStep
<1>8. CASE UNCHANGED adapterVars
  BY <1>8 DEF adapterVars, vars, TypeOK
<1> QED BY <1>2, <1>3, <1>4, <1>5, <1>6, <1>7, <1>8
        DEF AdapterNext, Next, LongbridgeNext, FutuNext, NoSdkNext

LEMMA TypesInitially == AdapterInit => TypeOK
<1> SUFFICES ASSUME Init PROVE TypeOK
  BY DEF AdapterInit
<1>1. /\ attempt \in [Loops -> 0..Delays]
      /\ backoff \in 0..Delays
  BY DelaysAssumption DEF Init
<1>2. pc \in [Coroutines -> Phases]
  BY DEF Init, Phases
<1> QED BY <1>1, <1>2 DEF Init, TypeOK, States, Phases

(* Every variable of an adapter keeps its type: an attempt never exceeds    *)
(* the schedule, _reconnect_task is a loop and _poll_task a poll task.      *)
THEOREM TypeCorrect == AdapterSpec => []TypeOK
<1>1. TypeOK /\ [AdapterNext]_adapterVars => TypeOK'
  BY TypesKept
<1> QED BY <1>1, TypesInitially, PTL DEF AdapterSpec

-----------------------------------------------------------------------------
(* Who may be at work together.                                             *)

LEMMA WhoIsWho ==
    /\ Coroutines = Loops \cup Pollers \cup Drivers
    /\ Drivers = Requests \cup {Shutdown}
    /\ Loops \cap Pollers = {} /\ Loops \cap Drivers = {} /\ Pollers \cap Drivers = {}
    /\ Shutdown \notin Requests /\ Boot \in Requests
    /\ None \notin Coroutines
BY DistinctAssumption, BootAssumption DEF Coroutines, Tasks, Drivers

(* One start() or disconnect() at a time.                                   *)
LEMMA OneDriver ==
    ASSUME PhasesInv, DriversInv, NEW d \in Drivers, NEW e \in Drivers,
           pc[d] \notin {"done", "scheduled"}, pc[e] \notin {"done", "scheduled"}
    PROVE  d = e
BY WhoIsWho DEF DriversInv, Alive

(* A loop that was not cancelled is the only one, and nobody waits for it.  *)
LEMMA OneLoop ==
    ASSUME CancelInv, LoopsInv, NEW l \in Loops, l \notin cancelled, Alive(l)
    PROVE  /\ task = l
           /\ \A m \in Loops : Alive(m) => m = l
           /\ \A d \in Drivers : pc[d] # "awaitLoop"
<1>1. task = l
  BY DEF LoopsInv, LoopOK
<1>2. \A d \in Drivers : pc[d] # "awaitLoop"
  BY <1>1, WhoIsWho DEF CancelInv
<1>3. \A m \in Loops : m \notin cancelled
  BY <1>2 DEF CancelInv
<1> QED BY <1>1, <1>2, <1>3 DEF LoopsInv, LoopOK

(* Likewise a poll task.                                                    *)
LEMMA OnePoller ==
    ASSUME CancelInv, PollersInv, NEW p \in Pollers, p \notin cancelled, Alive(p)
    PROVE  /\ poll = p
           /\ \A q \in Pollers : Alive(q) => q = p
           /\ \A d \in Drivers : pc[d] # "awaitPoll"
<1>1. poll = p
  BY DEF PollersInv, PollerOK
<1>2. \A d \in Drivers : pc[d] # "awaitPoll"
  BY <1>1, WhoIsWho DEF CancelInv
<1>3. \A q \in Pollers : q \notin cancelled
  BY <1>2, WhoIsWho DEF CancelInv
<1> QED BY <1>1, <1>2, <1>3 DEF PollersInv, PollerOK

(* Whoever is in connect() after the tasks were stopped, or is failing, is  *)
(* the only one, and nobody polls.                                          *)
LEMMA Alone ==
    ASSUME PollInv, NEW c \in Loops \cup Drivers, c \notin cancelled,
           pc[c] \in Working \cup Failing
    PROVE  /\ \A p \in Pollers : ~Alive(p)
           /\ \A d \in Loops \cup Drivers : pc[d] \in Working \cup Failing => d = c
           /\ \A l \in Loops : l \notin cancelled
<1> USE DEF PollInv, Alive, Working, Failing, Querying
<1>1. \A p \in Pollers : ~Alive(p)
  BY DEF LoopsInv, LoopOK, PollersInv, PollerOK
<1>2. CASE c \in Loops
  <2>1. /\ \A m \in Loops : Alive(m) => m = c
        /\ \A d \in Drivers : pc[d] # "awaitLoop"
    BY <1>2, OneLoop
  <2>2. \A d \in Drivers : pc[d] \notin Working \cup Failing
    BY <1>2 DEF LoopsInv, LoopOK
  <2>3. \A m \in Loops : m \notin cancelled
    BY <2>1 DEF CancelInv
  <2> QED BY <1>1, <2>1, <2>2, <2>3
<1>3. CASE c \in Drivers
  <2>1. \A d \in Drivers : pc[d] \notin {"done", "scheduled"} => d = c
    BY <1>3, OneDriver
  <2>2. \A m \in Loops : m \notin cancelled
    BY <2>1 DEF CancelInv
  <2>3. \A m \in Loops : pc[m] \notin Working \cup Failing
    BY <1>3 DEF LoopsInv, LoopOK
  <2> QED BY <1>1, <2>1, <2>2, <2>3
<1> QED BY <1>2, <1>3

-----------------------------------------------------------------------------
(* What the steps of the three adapters come to, one lemma for each.        *)

(* c goes on in connect() or start(), where it touches no task.             *)
Works(c) ==
    /\ c \in (Loops \cup Drivers) \ cancelled
    /\ pc[c] \in Working \cup Failing
    /\ \E phase \in Working \cup Failing :
          /\ pc' = [pc EXCEPT ![c] = phase]
          /\ pc[c] \in Failing => phase \in Failing
          /\ c \in Loops => pc[c] # "raised" /\ phase \notin {"leave", "leaving", "left"}
          /\ c = Shutdown => phase \in {"close", "closing", "build"}
          /\ phase \in {"accounts"} \cup Querying => client'
          /\ kind = "futu" /\ phase \in Querying => state' = "CONNECTED"
          /\ \/ state' = state
             \/ state' = "DISCONNECTED" /\ (kind = "futu" \/ phase = "raised")
             \/ state' = "CONNECTED" /\ kind = "futu"
          /\ c \in Requests /\ phase \in Failing /\ error'[c] = "other"
                => state' # "RECONNECTING"
    /\ \A d \in Coroutines : d # c => error'[d] = error[d]
    /\ UNCHANGED <<task, poll, waits, cancelled, rows, kind>>

LEMMA WorksKeeps ==
    ASSUME PollInv, TypeOK', NEW c \in Coroutines, Works(c)
    PROVE  PollInv'
<1> PICK phase \in Working \cup Failing :
          /\ pc' = [pc EXCEPT ![c] = phase]
          /\ pc[c] \in Failing => phase \in Failing
          /\ c \in Loops => pc[c] # "raised" /\ phase \notin {"leave", "leaving", "left"}
          /\ c = Shutdown => phase \in {"close", "closing", "build"}
          /\ phase \in {"accounts"} \cup Querying => client'
          /\ kind = "futu" /\ phase \in Querying => state' = "CONNECTED"
          /\ \/ state' = state
             \/ state' = "DISCONNECTED" /\ (kind = "futu" \/ phase = "raised")
             \/ state' = "CONNECTED" /\ kind = "futu"
          /\ c \in Requests /\ phase \in Failing /\ error'[c] = "other"
                => state' # "RECONNECTING"
  BY DEF Works
<1>1. /\ c \in Loops \cup Drivers /\ c \notin cancelled
      /\ pc[c] \in Working \cup Failing
      /\ \A d \in Coroutines : d # c => error'[d] = error[d]
      /\ UNCHANGED <<task, poll, waits, cancelled, rows, kind>>
  BY DEF Works
<1>2. pc'[c] = phase /\ \A d \in Coroutines : d # c => pc'[d] = pc[d]
  BY DEF PollInv, TypeOK
<1>3. /\ \A p \in Pollers : ~Alive(p)
      /\ \A d \in Loops \cup Drivers : pc[d] \in Working \cup Failing => d = c
      /\ \A l \in Loops : l \notin cancelled
  BY <1>1, Alone
<1>4. PhasesInv'
  BY <1>1, <1>2, WhoIsWho DEF PollInv, PhasesInv, Working, Failing, Querying
<1>5. DriversInv'
  BY <1>1, <1>2, WhoIsWho DEF PollInv, DriversInv, Alive, Working, Failing, Querying
<1>6. CancelInv'
  BY <1>1, <1>2, WhoIsWho DEF PollInv, CancelInv, Alive, Working, Failing, Querying
<1>7. LoopsInv'
  <2> SUFFICES ASSUME NEW l \in Loops, Alive(l)'
               PROVE  LoopOK(l)'
    BY DEF LoopsInv
  <2>1. Alive(l) /\ l \in Coroutines /\ LoopOK(l)
    BY <1>1, <1>2, WhoIsWho DEF PollInv, LoopsInv, Alive, Working, Failing, Querying
  <2>2. CASE c = l
    BY <1>1, <1>2, <2>1, <2>2, WhoIsWho
       DEF LoopOK, Alive, Working, Failing, Querying
  <2>3. CASE c # l
    <3>1. c \in Drivers
      BY <1>1, <2>1, <2>3, OneLoop DEF PollInv, Alive, Working, Failing, Querying
    <3>2. kind = "futu" /\ pc[c] \in Failing /\ pc[l] \in {"new", "sleeping"}
      BY <1>1, <2>1, <3>1 DEF LoopOK, Working, Failing, Querying
    <3> QED BY <1>1, <1>2, <2>1, <2>3, <3>1, <3>2, WhoIsWho
            DEF LoopOK, Alive, Failing
  <2> QED BY <2>2, <2>3
<1>8. PollersInv'
  BY <1>1, <1>2, <1>3, WhoIsWho DEF PollersInv, Alive
<1>9. ClientInv'
  BY <1>1, <1>2, <1>3, WhoIsWho DEF PollInv, ClientInv, Working, Failing, Querying
<1>10. StateInv'
  <2>1. NotLeftBehind' /\ Watched'
    BY <1>1, <1>2, WhoIsWho
       DEF NotLeftBehind, Watched, Alive, Running, Working, Failing, Querying,
           Immediate, Awaiting
  <2>2. StartsOK'
    BY <1>1, <1>2, <1>3, WhoIsWho
       DEF PollInv, StateInv, StartsOK, Alive, Working, Failing, Querying
  <2>3. pc'[Shutdown] # "done"
    BY <1>1, <1>2, <1>3, WhoIsWho
       DEF PollInv, DriversInv, LoopsInv, LoopOK, Alive, Working, Failing, Querying
  <2> QED BY <2>1, <2>2, <2>3 DEF StateInv
<1> QED BY <1>1, <1>4, <1>5, <1>6, <1>7, <1>8, <1>9, <1>10 DEF PollInv, KindOK

(* start() is scheduled or begins, or disconnect() does.                    *)
Begins(d) ==
    \/ d \in Requests /\ MayRun(d) /\ ScheduleStart(d) /\ UNCHANGED kind
    \/ d \in Requests /\ Start(d) /\ UNCHANGED kind
    \/ d = Shutdown /\ DisconnectBegins /\ UNCHANGED kind

LEMMA BeginsKeeps ==
    ASSUME Modest, PollInv, TypeOK', NEW d \in Drivers, Begins(d)
    PROVE  PollInv'
<1> DEFINE phase == IF pc[d] = "done" THEN "scheduled" ELSE "stop"
<1>1. /\ d \in Coroutines
      /\ pc' = [pc EXCEPT ![d] = phase]
      /\ pc[d] \in {"done", "scheduled"}
      /\ d = Shutdown => pc[d] = "scheduled" /\ \A r \in Requests : ~Alive(r)
      /\ UNCHANGED <<state, task, poll, waits, cancelled, client, rows, error, kind>>
  BY WhoIsWho DEF Begins, ScheduleStart, Start, DisconnectBegins, Goto, taskVars
<1>3. pc[d] = "done" =>
        /\ d \in Requests \ {Boot} /\ ~Alive(Boot)
        /\ pc[Shutdown] = "scheduled"
        /\ state = "DISCONNECTED" /\ MayRun(d)
  BY DEF Begins, ScheduleStart, Start, DisconnectBegins, Serving
<1>4. phase \in {"scheduled", "stop"} /\ (d = Shutdown => phase = "stop")
  BY <1>1
<1>5. pc[d] = "done" <=> phase = "scheduled"
  OBVIOUS
<1> HIDE DEF phase
<1>6. pc'[d] = phase /\ \A e \in Coroutines : e # d => pc'[e] = pc[e]
  BY <1>1 DEF PollInv, TypeOK
<1>7. PhasesInv'
  BY <1>4, <1>6, WhoIsWho DEF PollInv, PhasesInv
<1>8. DriversInv'
  <2>1. ASSUME NEW r \in Requests, NEW s \in Requests, Alive(r)', Alive(s)'
        PROVE  r = s
    <3>1. CASE pc[d] = "done"
      BY <1>3, <1>6, <2>1, <3>1, WhoIsWho DEF Modest, OneRetry, Alive
    <3>2. CASE pc[d] # "done"
      BY <1>1, <1>6, <2>1, <3>2, WhoIsWho DEF PollInv, DriversInv, Alive
    <3> QED BY <3>1, <3>2
  <2>2. ASSUME pc'[Shutdown] # "scheduled", NEW r \in Requests
        PROVE  ~Alive(r)'
    BY <1>1, <1>3, <1>4, <1>6, <2>2, WhoIsWho DEF PollInv, DriversInv, Alive
  <2> QED BY <2>1, <2>2 DEF DriversInv
<1>9. CancelInv'
  BY <1>1, <1>4, <1>6, WhoIsWho DEF PollInv, CancelInv, Alive, TypeOK, Tasks
<1>10. LoopsInv'
  BY <1>1, <1>4, <1>6, WhoIsWho DEF PollInv, LoopsInv, LoopOK, Alive
<1>11. PollersInv'
  BY <1>1, <1>4, <1>6, WhoIsWho DEF PollInv, PollersInv, PollerOK, Alive
<1>12. ClientInv'
  BY <1>1, <1>4, <1>6, WhoIsWho DEF PollInv, ClientInv, Querying
<1>13. NotLeftBehind'
  BY <1>1, <1>4, <1>6, WhoIsWho DEF PollInv, StateInv, NotLeftBehind, Alive
<1>14. Watched'
  BY <1>1, <1>4, <1>6, WhoIsWho
     DEF PollInv, StateInv, Watched, Alive, Running, Immediate, Awaiting
<1>15. StartsOK'
  <2>1. ASSUME pc[d] = "done", kind # "futu", NEW l \in Loops
        PROVE  ~Alive(l)
    BY <1>3, <2>1, WhoIsWho DEF PollInv, LoopsInv, LoopOK, MayRun, Immediate
  <2> QED BY <1>1, <1>3, <1>4, <1>6, <2>1, WhoIsWho
          DEF PollInv, StateInv, StartsOK, Alive, Failing
<1> QED BY <1>1, <1>4, <1>6, <1>7, <1>8, <1>9, <1>10, <1>11, <1>12, <1>13, <1>14, <1>15,
           WhoIsWho
        DEF PollInv, StateInv, KindOK

(* _stop_reconnecting: a loop skips it, others cancel the loop there is.    *)
LEMMA StopReconnectingKeeps ==
    ASSUME PollInv, TypeOK', NEW c \in Loops \cup Drivers, c \notin cancelled,
           StopReconnecting(c), UNCHANGED kind
    PROVE  PollInv'
<1> DEFINE waiting == c # task /\ task # None /\ Alive(task)
           phase == IF waiting THEN "awaitLoop" ELSE "stopPoll"
<1>1. /\ c \in Coroutines /\ pc[c] = "stop"
      /\ pc' = [pc EXCEPT ![c] = phase]
      /\ task' = IF task = c THEN task ELSE None
      /\ cancelled' = IF waiting THEN cancelled \cup {task} ELSE cancelled
      /\ waits' = IF waiting THEN [waits EXCEPT ![c] = task] ELSE waits
      /\ UNCHANGED <<state, poll, client, rows, error, kind>>
  BY WhoIsWho DEF StopReconnecting, Goto
<1>2. c \in Loops => task = c
  BY <1>1 DEF PollInv, LoopsInv, LoopOK, Alive
<1>3. pc'[c] = phase /\ \A e \in Coroutines : e # c => pc'[e] = pc[e]
  BY <1>1 DEF PollInv, TypeOK
<1>4. waiting => task \in Loops /\ c \in Drivers
  BY <1>2, WhoIsWho DEF PollInv, TypeOK
<1>5. c \in Drivers => task # c
  BY WhoIsWho DEF PollInv, TypeOK
<1>6. \A d \in Drivers : c \in Drivers /\ pc[d] \notin {"done", "scheduled"} => d = c
  BY <1>1, OneDriver DEF PollInv
<1>7. ~waiting /\ c \in Drivers => \A l \in Loops : ~Alive(l)
  <2> SUFFICES ASSUME ~waiting, c \in Drivers, NEW l \in Loops, Alive(l) PROVE FALSE
    OBVIOUS
  <2>1. task # l
    BY <1>5, WhoIsWho
  <2>2. l \in cancelled
    BY <2>1 DEF PollInv, LoopsInv, LoopOK
  <2> QED BY <1>1, <1>6, <2>2 DEF PollInv, CancelInv
<1>8. waiting => Alive(task) /\ \A p \in Pollers : ~Alive(p)
  BY <1>4 DEF PollInv, LoopsInv, LoopOK
<1> HIDE DEF waiting
<1>9. phase \in {"awaitLoop", "stopPoll"} /\ (phase = "awaitLoop" <=> waiting)
  OBVIOUS
<1> HIDE DEF phase
<1>10. PhasesInv'
  BY <1>1, <1>3, <1>4, <1>9, WhoIsWho DEF PollInv, PhasesInv
<1>11. DriversInv'
  BY <1>1, <1>3, <1>9, WhoIsWho DEF PollInv, DriversInv, Alive
<1>12. CancelInv'
  <2>1. \A d \in Drivers : d # c => waits'[d] = waits[d]
    BY <1>1, WhoIsWho DEF PollInv, TypeOK
  <2>2. waiting => waits'[c] = task
    BY <1>1 DEF PollInv, TypeOK
  <2>3. ASSUME NEW t \in cancelled'
        PROVE  Alive(t)' /\ \E d \in Drivers : waits'[d] = t /\ pc'[d] =
                                 IF t \in Loops THEN "awaitLoop" ELSE "awaitPoll"
    <3>1. CASE t \in cancelled
      <4>1. PICK d \in Drivers :
               waits[d] = t /\ pc[d] = IF t \in Loops THEN "awaitLoop" ELSE "awaitPoll"
        BY <3>1 DEF PollInv, CancelInv
      <4>2. d # c /\ Alive(t) /\ t \in Coroutines
        BY <1>1, <3>1, <4>1 DEF PollInv, CancelInv, TypeOK, Coroutines
      <4> QED BY <1>1, <1>3, <1>9, <2>1, <4>1, <4>2, WhoIsWho DEF Alive
    <3>2. CASE t \notin cancelled
      BY <1>1, <1>3, <1>4, <1>8, <1>9, <2>2, <2>3, <3>2, WhoIsWho DEF Alive
    <3> QED BY <3>1, <3>2
  <2>4. ASSUME NEW d \in Drivers, pc'[d] \in {"awaitLoop", "awaitPoll"}
        PROVE  /\ pc'[d] = "awaitLoop" => waits'[d] \in Loops /\ task' = None
               /\ pc'[d] = "awaitPoll" => waits'[d] \in Pollers /\ poll' = None
               /\ Alive(waits[d])' => waits'[d] \in cancelled'
    <3>1. CASE d = c
      BY <1>1, <1>3, <1>4, <1>5, <1>9, <2>2, <2>4, <3>1
    <3>2. CASE d # c
      BY <1>1, <1>2, <1>3, <1>9, <2>1, <2>4, <3>2, WhoIsWho DEF PollInv, CancelInv, Alive
    <3> QED BY <3>1, <3>2
  <2> QED BY <2>3, <2>4 DEF CancelInv
<1>13. LoopsInv'
  <2> SUFFICES ASSUME NEW l \in Loops, Alive(l)' PROVE LoopOK(l)'
    BY DEF LoopsInv
  <2>1. Alive(l) /\ LoopOK(l)
    BY <1>1, <1>3, WhoIsWho DEF PollInv, LoopsInv, Alive
  <2>2. CASE c \in Loops
    BY <1>1, <1>2, <1>3, <1>4, <1>9, <2>1, <2>2, WhoIsWho DEF LoopOK, Alive
  <2>3. CASE c \in Drivers
    BY <1>1, <1>3, <1>5, <1>7, <1>9, <2>1, <2>3, WhoIsWho DEF LoopOK, Alive
  <2> QED BY <2>2, <2>3
<1>14. PollersInv'
  <2> SUFFICES ASSUME NEW p \in Pollers, Alive(p)' PROVE PollerOK(p)'
    BY DEF PollersInv
  <2>1. Alive(p) /\ PollerOK(p)
    BY <1>1, <1>3, WhoIsWho DEF PollInv, PollersInv, Alive
  <2> QED BY <1>1, <1>3, <1>4, <1>8, <1>9, <2>1, WhoIsWho DEF PollerOK, Alive
<1>15. ClientInv'
  BY <1>1, <1>3, <1>9, WhoIsWho DEF PollInv, ClientInv, Querying
<1>16. NotLeftBehind'
  BY <1>1, <1>3, <1>9, WhoIsWho DEF NotLeftBehind, Alive
<1>17. Watched'
  BY <1>1, <1>3, <1>9, WhoIsWho DEF Watched, Running, Immediate, Awaiting
<1>18. StartsOK'
  BY <1>1, <1>3, <1>9, WhoIsWho
     DEF PollInv, StateInv, StartsOK, Alive, Failing
<1> QED BY <1>1, <1>3, <1>9, <1>10, <1>11, <1>12, <1>13, <1>14, <1>15, <1>16, <1>17, <1>18,
           WhoIsWho
        DEF PollInv, StateInv, KindOK

(* _stop_polling: beside a loop there is no poll task to cancel.            *)
LEMMA StopPollingKeeps ==
    ASSUME PollInv, TypeOK', NEW c \in Loops \cup Drivers, c \notin cancelled,
           StopPolling(c), UNCHANGED kind
    PROVE  PollInv'
<1> DEFINE waiting == poll # None /\ Alive(poll)
           phase == IF waiting THEN "awaitPoll" ELSE "close"
<1>1. /\ c \in Coroutines /\ pc[c] = "stopPoll"
      /\ pc' = [pc EXCEPT ![c] = phase]
      /\ poll' = None
      /\ cancelled' = IF waiting THEN cancelled \cup {poll} ELSE cancelled
      /\ waits' = IF waiting THEN [waits EXCEPT ![c] = poll] ELSE waits
      /\ UNCHANGED <<state, task, client, rows, error, kind>>
  BY WhoIsWho DEF StopPolling, Goto
<1>2. pc'[c] = phase /\ \A e \in Coroutines : e # c => pc'[e] = pc[e]
  BY <1>1 DEF PollInv, TypeOK
<1>3. waiting => poll \in Pollers /\ Alive(poll)
  BY DEF PollInv, TypeOK
<1>4. waiting => c \in Drivers
  BY <1>1, <1>3 DEF PollInv, LoopsInv, LoopOK, Alive
<1>5. \A l \in Loops : Alive(l) => l = c
  <2> SUFFICES ASSUME NEW l \in Loops, Alive(l) PROVE l = c
    OBVIOUS
  <2>1. CASE c \in Loops
    BY <1>1, <2>1, OneLoop DEF PollInv, Alive
  <2>2. CASE c \in Drivers
    BY <1>1, <2>2 DEF PollInv, LoopsInv, LoopOK, Failing
  <2> QED BY <2>1, <2>2
<1>6. \A d \in Drivers : c \in Drivers /\ pc[d] \notin {"done", "scheduled"} => d = c
  BY <1>1, OneDriver DEF PollInv
<1>7. ~waiting => \A p \in Pollers : ~Alive(p)
  <2> SUFFICES ASSUME ~waiting, NEW p \in Pollers, Alive(p) PROVE FALSE
    OBVIOUS
  <2>1. poll # p
    BY WhoIsWho
  <2>2. p \in cancelled /\ p \notin Loops
    BY <2>1, WhoIsWho DEF PollInv, PollersInv, PollerOK
  <2>3. PICK d \in Drivers : pc[d] = "awaitPoll"
    BY <2>2 DEF PollInv, CancelInv
  <2> QED BY <1>1, <1>6, <2>3 DEF PollInv, LoopsInv, LoopOK, Alive, Failing
<1> HIDE DEF waiting
<1>8. phase \in {"awaitPoll", "close"} /\ (phase = "awaitPoll" <=> waiting)
  OBVIOUS
<1> HIDE DEF phase
<1>10. PhasesInv'
  BY <1>1, <1>2, <1>4, <1>8, WhoIsWho DEF PollInv, PhasesInv, Working
<1>11. DriversInv'
  BY <1>1, <1>2, <1>8, WhoIsWho DEF PollInv, DriversInv, Alive
<1>12. CancelInv'
  <2>1. \A d \in Drivers : d # c => waits'[d] = waits[d]
    BY <1>1, WhoIsWho DEF PollInv, TypeOK
  <2>2. waiting => waits'[c] = poll
    BY <1>1 DEF PollInv, TypeOK
  <2>3. ASSUME NEW t \in cancelled'
        PROVE  Alive(t)' /\ \E d \in Drivers : waits'[d] = t /\ pc'[d] =
                                 IF t \in Loops THEN "awaitLoop" ELSE "awaitPoll"
    <3>1. CASE t \in cancelled
      <4>1. PICK d \in Drivers :
               waits[d] = t /\ pc[d] = IF t \in Loops THEN "awaitLoop" ELSE "awaitPoll"
        BY <3>1 DEF PollInv, CancelInv
      <4>2. d # c /\ Alive(t) /\ t \in Coroutines
        BY <1>1, <3>1, <4>1 DEF PollInv, CancelInv, TypeOK, Coroutines
      <4> QED BY <1>1, <1>2, <1>8, <2>1, <4>1, <4>2, WhoIsWho DEF Alive
    <3>2. CASE t \notin cancelled
      BY <1>1, <1>2, <1>3, <1>4, <1>8, <2>2, <2>3, <3>2, WhoIsWho DEF Alive
    <3> QED BY <3>1, <3>2
  <2>4. ASSUME NEW d \in Drivers, pc'[d] \in {"awaitLoop", "awaitPoll"}
        PROVE  /\ pc'[d] = "awaitLoop" => waits'[d] \in Loops /\ task' = None
               /\ pc'[d] = "awaitPoll" => waits'[d] \in Pollers /\ poll' = None
               /\ Alive(waits[d])' => waits'[d] \in cancelled'
    <3>1. CASE d = c
      BY <1>1, <1>2, <1>3, <1>8, <2>2, <2>4, <3>1
    <3>2. CASE d # c
      BY <1>1, <1>2, <1>8, <2>1, <2>4, <3>2, WhoIsWho DEF PollInv, CancelInv, Alive
    <3> QED BY <3>1, <3>2
  <2> QED BY <2>3, <2>4 DEF CancelInv
<1>13. LoopsInv'
  <2> SUFFICES ASSUME NEW l \in Loops, Alive(l)' PROVE LoopOK(l)'
    BY DEF LoopsInv
  <2>1. Alive(l) /\ LoopOK(l) /\ l = c
    BY <1>1, <1>2, <1>5, WhoIsWho DEF PollInv, LoopsInv, Alive
  <2> QED BY <1>1, <1>2, <1>4, <1>8, <2>1, WhoIsWho DEF LoopOK, Alive
<1>14. PollersInv'
  <2> SUFFICES ASSUME NEW p \in Pollers, Alive(p)' PROVE PollerOK(p)'
    BY DEF PollersInv
  <2>1. Alive(p) /\ PollerOK(p)
    BY <1>1, <1>2, WhoIsWho DEF PollInv, PollersInv, Alive
  <2> QED BY <1>1, <1>2, <1>7, <1>8, <2>1, WhoIsWho DEF PollerOK
<1>15. ClientInv'
  BY <1>1, <1>2, <1>8, WhoIsWho DEF PollInv, ClientInv, Querying
<1>16. NotLeftBehind'
  BY <1>1, <1>2, <1>8, WhoIsWho DEF NotLeftBehind, Alive
<1>17. Watched'
  BY <1>1, <1>2, <1>8, WhoIsWho DEF Watched, Running, Immediate, Awaiting
<1>18. StartsOK'
  BY <1>1, <1>2, <1>8, WhoIsWho
     DEF PollInv, StateInv, StartsOK, Alive, Failing
<1> QED BY <1>1, <1>2, <1>8, <1>10, <1>11, <1>12, <1>13, <1>14, <1>15, <1>16, <1>17, <1>18,
           WhoIsWho
        DEF PollInv, StateInv, KindOK

(* The awaited task has ended; only drivers await one.                      *)
LEMMA TaskAwaitedKeeps ==
    ASSUME PollInv, TypeOK', NEW c \in Loops \cup Drivers, TaskAwaited(c),
           UNCHANGED kind
    PROVE  PollInv'
<1> DEFINE phase == IF pc[c] = "awaitLoop" THEN "stopPoll" ELSE "close"
<1>1. /\ c \in Drivers /\ c \in Coroutines
      /\ pc[c] \in {"awaitLoop", "awaitPoll"} /\ ~Alive(waits[c])
  BY WhoIsWho DEF TaskAwaited, PollInv, PhasesInv, Working, Querying
<1>2. /\ pc' = [pc EXCEPT ![c] = phase]
      /\ waits' = [waits EXCEPT ![c] = None]
      /\ UNCHANGED <<state, task, poll, client, rows, error, kind>>
  BY DEF TaskAwaited, Goto
<1>3. cancelled' = cancelled
  <2>1. c \notin cancelled
    BY <1>1, WhoIsWho DEF PollInv, TypeOK, Tasks
  <2> QED BY <2>1 DEF TaskAwaited
<1>4. pc'[c] = phase /\ \A e \in Coroutines : e # c => pc'[e] = pc[e]
  BY <1>1, <1>2 DEF PollInv, TypeOK
<1>5. \A d \in Drivers : pc[d] \notin {"done", "scheduled"} => d = c
  BY <1>1, OneDriver DEF PollInv
<1>6. cancelled = {}
  <2> SUFFICES ASSUME NEW t \in cancelled PROVE FALSE
    OBVIOUS
  <2>1. PICK d \in Drivers :
           waits[d] = t /\ pc[d] = IF t \in Loops THEN "awaitLoop" ELSE "awaitPoll"
    BY DEF PollInv, CancelInv
  <2>2. d = c /\ Alive(t)
    BY <1>5, <2>1 DEF PollInv, CancelInv
  <2> QED BY <1>1, <2>1, <2>2
<1>7. \A l \in Loops : ~Alive(l)
  <2> SUFFICES ASSUME NEW l \in Loops, Alive(l) PROVE FALSE
    OBVIOUS
  <2>1. task = l /\ pc[c] = "awaitLoop"
    BY <1>1, <1>6 DEF PollInv, LoopsInv, LoopOK, Failing
  <2> QED BY <1>1, <2>1, WhoIsWho DEF PollInv, CancelInv
<1>8. pc[c] = "awaitPoll" => \A p \in Pollers : ~Alive(p)
  <2> SUFFICES ASSUME pc[c] = "awaitPoll", NEW p \in Pollers, Alive(p) PROVE FALSE
    OBVIOUS
  <2>1. poll = p
    BY <1>6 DEF PollInv, PollersInv, PollerOK
  <2> QED BY <1>1, <2>1, WhoIsWho DEF PollInv, CancelInv
<1>9. phase \in {"stopPoll", "close"} /\ (phase = "close" => pc[c] = "awaitPoll")
  BY <1>1
<1> HIDE DEF phase
<1>10. PhasesInv'
  BY <1>1, <1>4, <1>9, WhoIsWho DEF PollInv, PhasesInv, Working
<1>11. DriversInv'
  BY <1>1, <1>4, <1>9, WhoIsWho DEF PollInv, DriversInv, Alive
<1>12. CancelInv'
  BY <1>1, <1>3, <1>4, <1>5, <1>6, <1>9, WhoIsWho DEF CancelInv
<1>13. LoopsInv'
  BY <1>1, <1>4, <1>7, WhoIsWho DEF LoopsInv, Alive
<1>14. PollersInv'
  <2> SUFFICES ASSUME NEW p \in Pollers, Alive(p)' PROVE PollerOK(p)'
    BY DEF PollersInv
  <2>1. Alive(p) /\ PollerOK(p)
    BY <1>1, <1>4, WhoIsWho DEF PollInv, PollersInv, Alive
  <2> QED BY <1>1, <1>2, <1>3, <1>4, <1>8, <1>9, <2>1, WhoIsWho DEF PollerOK
<1>15. ClientInv'
  BY <1>1, <1>2, <1>4, <1>9, WhoIsWho DEF PollInv, ClientInv, Querying
<1>16. NotLeftBehind'
  BY <1>1, <1>2, <1>4, <1>9, WhoIsWho DEF NotLeftBehind, Alive
<1>17. Watched'
  BY <1>1, <1>2, <1>4, <1>9, WhoIsWho DEF Watched, Running, Immediate, Awaiting
<1>18. StartsOK'
  BY <1>1, <1>2, <1>4, <1>7, <1>9, WhoIsWho
     DEF PollInv, StateInv, StartsOK, Alive, Failing
<1> QED BY <1>1, <1>2, <1>4, <1>9, <1>10, <1>11, <1>12, <1>13, <1>14, <1>15, <1>16, <1>17,
           <1>18, WhoIsWho
        DEF PollInv, StateInv, KindOK

(* A cancelled task ends, and the one that waits for it is at work.         *)
LEMMA TaskCancelledKeeps ==
    ASSUME PollInv, TypeOK', NEW t \in cancelled, TaskCancelled(t), UNCHANGED kind
    PROVE  PollInv'
<1>1. /\ pc' = [pc EXCEPT ![t] = "done"]
      /\ cancelled' = cancelled \ {t}
      /\ UNCHANGED <<state, task, poll, client, rows, error, waits, kind>>
  BY DEF TaskCancelled, Goto
<1>2. t \in Loops \cup Pollers /\ t \in Coroutines /\ t \notin Drivers
  BY WhoIsWho DEF PollInv, TypeOK, Tasks
<1>3. pc'[t] = "done" /\ \A e \in Coroutines : e # t => pc'[e] = pc[e]
  BY <1>1, <1>2 DEF PollInv, TypeOK
<1>4. PICK w \in Drivers : pc[w] \in {"awaitLoop", "awaitPoll"}
  BY DEF PollInv, CancelInv
<1>5. pc'[w] = pc[w] /\ w \in Coroutines
  BY <1>2, <1>3, WhoIsWho
<1>6. PhasesInv'
  BY <1>2, <1>3, WhoIsWho DEF PollInv, PhasesInv
<1>7. DriversInv'
  BY <1>2, <1>3, WhoIsWho DEF PollInv, DriversInv, Alive
<1>8. CancelInv'
  <2>1. ASSUME NEW u \in cancelled'
        PROVE  Alive(u)' /\ \E d \in Drivers : waits'[d] = u /\ pc'[d] =
                                 IF u \in Loops THEN "awaitLoop" ELSE "awaitPoll"
    <3>1. u \in cancelled /\ u # t /\ u \in Coroutines
      BY <1>1, <2>1 DEF PollInv, TypeOK, Coroutines
    <3>2. PICK d \in Drivers :
             waits[d] = u /\ pc[d] = IF u \in Loops THEN "awaitLoop" ELSE "awaitPoll"
      BY <3>1 DEF PollInv, CancelInv
    <3>3. Alive(u)
      BY <3>1 DEF PollInv, CancelInv
    <3> QED BY <1>1, <1>2, <1>3, <3>1, <3>2, <3>3, WhoIsWho DEF Alive
  <2>2. ASSUME NEW d \in Drivers, pc'[d] \in {"awaitLoop", "awaitPoll"}
        PROVE  /\ pc'[d] = "awaitLoop" => waits'[d] \in Loops /\ task' = None
               /\ pc'[d] = "awaitPoll" => waits'[d] \in Pollers /\ poll' = None
               /\ Alive(waits[d])' => waits'[d] \in cancelled'
    BY <1>1, <1>2, <1>3, <2>2, WhoIsWho DEF PollInv, CancelInv, Alive
  <2> QED BY <2>1, <2>2 DEF CancelInv
<1>9. LoopsInv'
  BY <1>1, <1>2, <1>3, WhoIsWho DEF PollInv, LoopsInv, LoopOK, Alive
<1>10. PollersInv'
  BY <1>1, <1>2, <1>3, WhoIsWho DEF PollInv, PollersInv, PollerOK, Alive
<1>11. ClientInv'
  BY <1>1, <1>2, <1>3, WhoIsWho DEF PollInv, ClientInv, Querying
<1>12. NotLeftBehind' /\ Watched'
  BY <1>1, <1>4, <1>5, WhoIsWho DEF NotLeftBehind, Watched, Alive, Running, Awaiting
<1>13. StartsOK'
  BY <1>1, <1>2, <1>3, WhoIsWho DEF PollInv, StateInv, StartsOK, Alive, Failing
<1> QED BY <1>1, <1>2, <1>3, <1>6, <1>7, <1>8, <1>9, <1>10, <1>11, <1>12, <1>13, WhoIsWho
        DEF PollInv, StateInv, KindOK

(* disconnect() ends: it has found nothing at work.                         *)
LEMMA DisconnectEndsKeeps ==
    ASSUME PollInv, TypeOK', DisconnectEnds(Shutdown), UNCHANGED kind
    PROVE  PollInv' /\ \A t \in Tasks : ~Alive(t)'
<1>1. /\ pc[Shutdown] = "build"
      /\ pc' = [pc EXCEPT ![Shutdown] = "done"]
      /\ state' = "DISCONNECTED"
      /\ UNCHANGED <<task, poll, client, rows, error, waits, cancelled, kind>>
  BY DEF DisconnectEnds, Goto, taskVars
<1>2. Shutdown \in Coroutines /\ Shutdown \in Drivers /\ Shutdown \notin cancelled
  BY WhoIsWho DEF PollInv, TypeOK, Tasks
<1>3. pc'[Shutdown] = "done" /\ \A e \in Coroutines : e # Shutdown => pc'[e] = pc[e]
  BY <1>1, <1>2 DEF PollInv, TypeOK
<1>4. \A t \in Tasks : ~Alive(t)
  BY <1>1, <1>2, WhoIsWho
     DEF PollInv, LoopsInv, LoopOK, PollersInv, PollerOK, Failing, Tasks
<1>5. \A r \in Requests : ~Alive(r)
  BY <1>1 DEF PollInv, DriversInv
<1>6. cancelled = {}
  BY <1>4 DEF PollInv, TypeOK, CancelInv
<1>7. \A e \in Coroutines : ~Alive(e)'
  BY <1>3, <1>4, <1>5, WhoIsWho DEF Alive, Tasks
<1>8. PhasesInv' /\ DriversInv'
  BY <1>7, WhoIsWho DEF PhasesInv, DriversInv, Alive
<1>9. CancelInv'
  BY <1>1, <1>6, <1>7, WhoIsWho DEF CancelInv, Alive
<1>10. LoopsInv' /\ PollersInv'
  BY <1>7, WhoIsWho DEF LoopsInv, PollersInv
<1>11. ClientInv' /\ StateInv'
  BY <1>1, <1>7, WhoIsWho
     DEF ClientInv, StateInv, NotLeftBehind, Watched, StartsOK, Alive, Querying, Failing
<1> QED BY <1>1, <1>7, <1>8, <1>9, <1>10, <1>11, WhoIsWho DEF PollInv, KindOK, Tasks

(* connect() returns to c with the rows it has fetched.                     *)
Returns(c) ==
    /\ c \in (Loops \cup Requests) \ cancelled
    /\ MayRun(c)
    /\ pc[c] \in Working
    /\ client
    /\ \E p \in Pollers :
          /\ ~Alive(p)
          /\ poll' = p
          /\ pc' = [pc EXCEPT ![c] = "done", ![p] = "sleeping"]
    /\ state' = "CONNECTED"
    /\ rows' = "positions"
    /\ UNCHANGED <<task, client, error, waits, cancelled, kind>>

LEMMA ReturnsKeeps ==
    ASSUME PollInv, TypeOK', NEW c \in Coroutines, Returns(c)
    PROVE  PollInv'
<1>1. /\ c \in Loops \cup Requests /\ c \notin cancelled
      /\ pc[c] \in Working /\ client
      /\ state' = "CONNECTED"
      /\ UNCHANGED <<task, client, error, waits, cancelled, kind>>
  BY DEF Returns
<1> PICK p \in Pollers :
          /\ ~Alive(p)
          /\ poll' = p
          /\ pc' = [pc EXCEPT ![c] = "done", ![p] = "sleeping"]
  BY DEF Returns
<1>2. p # c /\ p \in Coroutines
  BY <1>1, WhoIsWho
<1>3. /\ pc'[c] = "done" /\ pc'[p] = "sleeping"
      /\ \A e \in Coroutines : e \notin {c, p} => pc'[e] = pc[e]
  BY <1>2 DEF PollInv, TypeOK
<1>4. /\ \A q \in Pollers : ~Alive(q)
      /\ \A d \in Loops \cup Drivers : pc[d] \in Working \cup Failing => d = c
      /\ \A l \in Loops : l \notin cancelled
  BY <1>1, Alone, WhoIsWho
<1>5. cancelled = {}
  BY <1>4 DEF PollInv, CancelInv, TypeOK, Tasks
<1>6. \A l \in Loops : ~Alive(l)'
  <2>1. \A l \in Loops : Alive(l) => l = c
    <3>1. CASE c \in Loops
      BY <1>1, <3>1, OneLoop DEF PollInv, Alive, Working, Querying
    <3>2. CASE c \in Requests
      BY <1>1, <3>2, WhoIsWho DEF PollInv, LoopsInv, LoopOK, Working, Failing, Querying
    <3> QED BY <1>1, <3>1, <3>2
  <2> QED BY <1>3, <2>1, WhoIsWho DEF Alive
<1>7. \A d \in Drivers : pc'[d] \in {"done", "scheduled"}
  <2> SUFFICES ASSUME NEW d \in Drivers, d # c, pc[d] \notin {"done", "scheduled"}
               PROVE  FALSE
    BY <1>3, WhoIsWho
  <2>1. CASE c \in Loops
    <3>1. pc[d] = "stop"
      BY <1>1, <2>1, OneLoop
         DEF PollInv, LoopsInv, LoopOK, Alive, Working, Querying, Failing
    <3> QED BY <3>1, WhoIsWho DEF Returns, MayRun, Immediate
  <2>2. CASE c \in Requests
    BY <1>1, <2>2, OneDriver, WhoIsWho DEF PollInv, Working, Querying
  <2> QED BY <1>1, <2>1, <2>2
<1>8. \A q \in Pollers : Alive(q)' => q = p
  BY <1>3, <1>4, WhoIsWho DEF Alive
<1>9. pc'[Shutdown] = pc[Shutdown] /\ pc[Shutdown] # "done"
  BY <1>1, <1>3, WhoIsWho
     DEF PollInv, DriversInv, LoopsInv, LoopOK, Alive, Working, Querying
<1>10. PhasesInv'
  BY <1>3, <1>6, <1>7, <1>8, <1>9, WhoIsWho DEF PollInv, PhasesInv, Alive
<1>11. DriversInv'
  BY <1>1, <1>3, <1>9, WhoIsWho DEF PollInv, DriversInv, Alive
<1>12. CancelInv'
  BY <1>1, <1>5, <1>7 DEF CancelInv
<1>13. LoopsInv'
  BY <1>6 DEF LoopsInv
<1>14. PollersInv'
  BY <1>1, <1>5, <1>7, <1>8, <1>9 DEF PollersInv, PollerOK
<1>15. ClientInv'
  BY <1>1 DEF ClientInv
<1>16. NotLeftBehind' /\ Watched'
  BY <1>1, <1>3 DEF NotLeftBehind, Watched, Alive
<1>17. StartsOK'
  <2>1. ASSUME NEW r \in Requests, kind # "futu", Alive(r)' PROVE FALSE
    <3>1. r # c /\ Alive(r)
      BY <1>2, <1>3, <2>1, WhoIsWho DEF Alive
    <3>2. c \in Requests /\ Alive(c)
      BY <1>1, <2>1, <3>1 DEF PollInv, StateInv, StartsOK, Alive, Working, Querying
    <3> QED BY <3>1, <3>2 DEF PollInv, DriversInv
  <2>2. ASSUME NEW r \in Requests PROVE pc'[r] \notin Failing
    BY <1>7, WhoIsWho DEF Failing
  <2> QED BY <1>1, <2>1, <2>2 DEF StartsOK
<1> QED BY <1>1, <1>9, <1>10, <1>11, <1>12, <1>13, <1>14, <1>15, <1>16, <1>17
        DEF PollInv, StateInv, KindOK

(* start() gives up on a configuration error.                               *)
LEMMA GivesUpKeeps ==
    ASSUME PollInv, TypeOK', NEW r \in Requests, StartFails(r), error[r] = "config",
           UNCHANGED kind
    PROVE  PollInv'
<1>1. /\ r \in Coroutines /\ r \in Drivers /\ r \notin cancelled
      /\ pc[r] = "left"
      /\ pc' = [pc EXCEPT ![r] = "done"]
      /\ state' = "DISCONNECTED"
      /\ error' = [error EXCEPT ![r] = "none"]
      /\ UNCHANGED <<task, poll, client, rows, waits, cancelled, kind>>
  BY WhoIsWho DEF StartFails, Goto, PollInv, TypeOK, Tasks
<1>2. pc'[r] = "done" /\ \A e \in Coroutines : e # r => pc'[e] = pc[e]
  BY <1>1 DEF PollInv, TypeOK
<1>3. /\ \A q \in Pollers : ~Alive(q)
      /\ \A d \in Loops \cup Drivers : pc[d] \in Working \cup Failing => d = r
      /\ \A l \in Loops : l \notin cancelled
  BY <1>1, Alone DEF Failing
<1>4. \A l \in Loops : Alive(l) => kind = "futu"
  BY <1>1 DEF PollInv, LoopsInv, LoopOK
<1>5. \A s \in Requests : ~Alive(s)'
  BY <1>1, <1>2, WhoIsWho DEF PollInv, DriversInv, Alive
<1>6. pc'[Shutdown] = "scheduled"
  BY <1>1, <1>2, WhoIsWho DEF PollInv, DriversInv, Alive
<1>7. PhasesInv'
  BY <1>1, <1>2, WhoIsWho DEF PollInv, PhasesInv
<1>8. DriversInv'
  BY <1>5, <1>6 DEF DriversInv
<1>9. CancelInv'
  BY <1>1, <1>2, WhoIsWho DEF PollInv, CancelInv, Alive
<1>10. LoopsInv'
  BY <1>1, <1>2, <1>4, WhoIsWho DEF PollInv, LoopsInv, LoopOK, Alive
<1>11. PollersInv'
  BY <1>2, <1>3, <1>1, WhoIsWho DEF PollersInv, Alive
<1>12. ClientInv'
  BY <1>1, <1>2, <1>3, WhoIsWho DEF PollInv, ClientInv, Working, Querying
<1>13. StateInv'
  BY <1>1, <1>5, <1>6
     DEF StateInv, NotLeftBehind, Watched, StartsOK, Alive, Failing
<1> QED BY <1>1, <1>7, <1>8, <1>9, <1>10, <1>11, <1>12, <1>13 DEF PollInv, KindOK

(* The connection is lost or could not be made: c ends, and a loop starts   *)
(* unless Futu's first refresh has started one.                             *)
Loses(c) ==
    /\ MayRun(c)
    /\ \/ c \in Requests /\ pc[c] = "left" /\ error[c] = "other"
       \/ c \in Pollers \ cancelled /\ Alive(c)
    /\ EnterReconnecting([pc EXCEPT ![c] = "done"])
    /\ \A d \in Coroutines : d # c => error'[d] = error[d]
    /\ UNCHANGED <<poll, client, rows, waits, cancelled, kind>>

(* Who else is there when c calls _enter_reconnecting.                      *)
LEMMA LosesAlone ==
    ASSUME PollInv, NEW c \in Coroutines, Loses(c)
    PROVE  /\ state # "RECONNECTING" /\ cancelled = {}
           /\ \A p \in Pollers : Alive(p) => p = c
           /\ \A d \in Drivers : d # c => pc[d] \in {"done", "scheduled"}
           /\ pc[Shutdown] # "done" /\ c # Shutdown /\ c \notin Loops
           /\ \A l \in Loops : Alive(l) => /\ task = l /\ kind = "futu"
                                          /\ c \in Requests
           /\ \A r \in Requests : Alive(r) => r = c \/ kind = "futu"
<1>1. CASE c \in Requests
  <2>1. /\ pc[c] = "left" /\ error[c] = "other" /\ c \in Drivers /\ c \notin Loops
    BY <1>1, WhoIsWho DEF Loses
  <2>2. c \notin cancelled
    BY <2>1, WhoIsWho DEF PollInv, TypeOK, Tasks
  <2>3. /\ \A p \in Pollers : ~Alive(p)
        /\ \A l \in Loops : l \notin cancelled
    BY <2>1, <2>2, Alone DEF Failing
  <2>4. cancelled = {}
    BY <2>3 DEF PollInv, CancelInv, TypeOK, Tasks
  <2>5. \A d \in Drivers : d # c => pc[d] \in {"done", "scheduled"}
    BY <2>1, OneDriver DEF PollInv
  <2>6. pc[Shutdown] = "scheduled"
    BY <1>1, <2>1 DEF PollInv, DriversInv, Alive
  <2>7. \A l \in Loops : Alive(l) => task = l /\ kind = "futu"
    BY <2>1, <2>4 DEF PollInv, LoopsInv, LoopOK
  <2>8. state # "RECONNECTING"
    BY <1>1, <2>1 DEF PollInv, StateInv, StartsOK, Failing
  <2>9. \A r \in Requests : Alive(r) => r = c
    BY <1>1, <2>1 DEF PollInv, DriversInv, Alive
  <2> QED BY <1>1, <2>1, <2>3, <2>4, <2>5, <2>6, <2>7, <2>8, <2>9, WhoIsWho
<1>2. CASE c \in Pollers
  <2>1. c \notin cancelled /\ Alive(c) /\ c \notin Loops \cup Drivers
    BY <1>2, WhoIsWho DEF Loses
  <2>2. /\ poll = c
        /\ \A q \in Pollers : Alive(q) => q = c
        /\ \A d \in Drivers : pc[d] # "awaitPoll"
    BY <1>2, <2>1, OnePoller DEF PollInv
  <2>3. /\ state = "CONNECTED"
        /\ \A d \in Drivers :
              pc[d] \in {"done", "scheduled", "stop", "stopPoll", "awaitPoll"}
        /\ pc[Shutdown] # "done"
    BY <1>2, <2>1 DEF PollInv, PollersInv, PollerOK
  <2>4. \A d \in Drivers : pc[d] \in {"done", "scheduled"}
    BY <2>1, <2>2, <2>3, WhoIsWho DEF Loses, MayRun, Immediate
  <2>5. \A l \in Loops : ~Alive(l)
    BY <1>2, <2>1 DEF PollInv, LoopsInv, LoopOK
  <2>6. cancelled = {}
    BY <2>4 DEF PollInv, CancelInv
  <2>7. \A r \in Requests : Alive(r) => kind = "futu"
    BY <2>3 DEF PollInv, StateInv, StartsOK
  <2> QED BY <2>1, <2>2, <2>3, <2>4, <2>5, <2>6, <2>7, WhoIsWho
<1> QED BY <1>1, <1>2 DEF Loses

LEMMA LosesKeeps ==
    ASSUME PollInv, TypeOK', NEW c \in Coroutines, Loses(c)
    PROVE  PollInv' /\ state' = "RECONNECTING" /\ \E l \in Loops \ cancelled' : Alive(l)'
<1>1. /\ state # "RECONNECTING" /\ cancelled = {}
      /\ \A p \in Pollers : Alive(p) => p = c
      /\ \A d \in Drivers : d # c => pc[d] \in {"done", "scheduled"}
      /\ pc[Shutdown] # "done" /\ c # Shutdown /\ c \notin Loops
      /\ \A l \in Loops : Alive(l) => task = l /\ kind = "futu" /\ c \in Requests
      /\ \A r \in Requests : Alive(r) => r = c \/ kind = "futu"
  BY LosesAlone
<1>2. /\ EnterReconnecting([pc EXCEPT ![c] = "done"])
      /\ UNCHANGED <<poll, client, rows, waits, cancelled, kind>>
  BY DEF Loses
<1>3. state' = "RECONNECTING"
  BY <1>1, <1>2 DEF EnterReconnecting
<1>4. PICK l \in Loops :
        /\ task' = l
        /\ pc' \in {[pc EXCEPT ![c] = "done"], [pc EXCEPT ![c] = "done", ![l] = "new"]}
        /\ pc'[l] = "new" \/ (Alive(l) /\ pc'[l] = pc[l] /\ task = l)
        /\ \A m \in Loops : Alive(m) => m = l
  <2>1. c # None /\ task \in Loops \cup {None}
    BY WhoIsWho DEF PollInv, TypeOK
  <2>2. CASE task # None /\ [pc EXCEPT ![c] = "done"][task] # "done"
    <3>1. task \in Loops /\ task # c /\ pc' = [pc EXCEPT ![c] = "done"] /\ task' = task
      BY <1>1, <1>2, <2>1, <2>2 DEF EnterReconnecting
    <3>2. pc'[task] = pc[task] /\ Alive(task)
      BY <2>2, <3>1, WhoIsWho DEF PollInv, TypeOK, Alive
    <3> QED BY <1>1, <3>1, <3>2
  <2>3. CASE ~(task # None /\ [pc EXCEPT ![c] = "done"][task] # "done")
    <3>1. PICK l \in Loops :
            /\ ~Alive(l) /\ task' = l
            /\ pc' = [[pc EXCEPT ![c] = "done"] EXCEPT ![l] = "new"]
      BY <1>1, <1>2, <2>3 DEF EnterReconnecting
    <3>2. pc'[l] = "new"
      BY <3>1, WhoIsWho DEF PollInv, TypeOK
    <3>3. \A m \in Loops : ~Alive(m)
      <4> SUFFICES ASSUME NEW m \in Loops, Alive(m) PROVE FALSE
        OBVIOUS
      <4>1. task = m /\ m # c /\ m \in Coroutines /\ m # None
        BY <1>1, WhoIsWho
      <4> QED BY <2>3, <4>1 DEF Alive, PollInv, TypeOK
    <3> QED BY <3>1, <3>2, <3>3
  <2> QED BY <2>2, <2>3
<1>5. /\ l \in Coroutines /\ l # c
      /\ pc'[c] = "done"
      /\ \A e \in Coroutines : e \notin {c, l} => pc'[e] = pc[e]
  BY <1>1, <1>4, WhoIsWho DEF PollInv, TypeOK
<1>6. /\ Alive(l)' /\ \A m \in Loops : Alive(m)' => m = l
  BY <1>4, <1>5, WhoIsWho DEF Alive
<1>7. /\ \A d \in Drivers : pc'[d] \in {"done", "scheduled"}
      /\ \A p \in Pollers : ~Alive(p)'
      /\ pc'[Shutdown] = pc[Shutdown]
      /\ \A r \in Requests : Alive(r)' => Alive(r) /\ kind = "futu"
  BY <1>1, <1>5, WhoIsWho DEF Alive
<1>8. PhasesInv'
  BY <1>4, <1>5, <1>6, <1>7, WhoIsWho DEF PollInv, PhasesInv, Alive
<1>9. DriversInv'
  BY <1>1, <1>7 DEF PollInv, DriversInv
<1>10. CancelInv'
  BY <1>1, <1>2, <1>7 DEF CancelInv
<1>11. LoopsInv'
  BY <1>1, <1>2, <1>3, <1>4, <1>6, <1>7 DEF LoopsInv, LoopOK
<1>12. PollersInv'
  BY <1>7 DEF PollersInv
<1>13. ClientInv'
  <2>1. ASSUME NEW e \in Loops \cup Requests PROVE pc'[e] \notin {"accounts"} \cup Querying
    <3>1. CASE e \in Requests
      BY <1>7, <3>1, WhoIsWho DEF Querying
    <3>2. CASE e \in Loops
      <4>1. pc'[l] \in {"new", "sleeping"}
        <5>1. CASE Alive(l) /\ pc'[l] = pc[l]
          <6>1. c \in Drivers /\ pc[c] = "left"
            BY <1>1, <5>1, WhoIsWho DEF Loses
          <6> QED BY <5>1, <6>1 DEF PollInv, LoopsInv, LoopOK
        <5> QED BY <1>4, <5>1
      <4> QED BY <1>6, <3>2, <4>1 DEF Alive, Querying
    <3> QED BY <3>1, <3>2
  <2> QED BY <2>1 DEF ClientInv
<1>14. NotLeftBehind' /\ Watched'
  BY <1>3, <1>6 DEF NotLeftBehind, Watched
<1>15. StartsOK'
  BY <1>2, <1>7, WhoIsWho DEF StartsOK, Failing
<1>16. l \notin cancelled'
  BY <1>1, <1>2
<1> QED BY <1>1, <1>2, <1>3, <1>6, <1>7, <1>8, <1>9, <1>10, <1>11, <1>12, <1>13, <1>14,
           <1>15, <1>16
        DEF PollInv, StateInv, KindOK

(* Futu's first refresh fails: in a start() a loop begins beside it, to     *)
(* wait until the failing is over.                                          *)
LEMMA FirstRefreshRaisesKeeps ==
    ASSUME PollInv, TypeOK', NEW c \in Loops \cup Drivers, c \notin cancelled,
           kind = "futu", FirstRefreshRaises(c), UNCHANGED kind
    PROVE  PollInv'
<1>1. /\ pc[c] \in {"fetching", "balances"}
      /\ state' = "DISCONNECTED" /\ client' = TRUE
      /\ UNCHANGED <<poll, waits, cancelled, kind>>
  BY DEF FirstRefreshRaises
<1>2. c \in Coroutines /\ c # Shutdown /\ pc[c] \in Working
  BY <1>1, WhoIsWho DEF PollInv, PhasesInv, Working, Querying
<1>3. /\ \A p \in Pollers : ~Alive(p)
      /\ \A d \in Loops \cup Drivers : pc[d] \in Working \cup Failing => d = c
      /\ \A l \in Loops : l \notin cancelled
  BY <1>2, Alone
<1>4. cancelled = {}
  BY <1>3 DEF PollInv, CancelInv, TypeOK, Tasks
<1>5. \A l \in Loops : Alive(l) => l = c
  <2>1. CASE c \in Loops
    BY <1>1, <2>1, OneLoop DEF PollInv, Alive
  <2>2. CASE c \in Drivers
    BY <1>1, <2>2 DEF PollInv, LoopsInv, LoopOK, Failing
  <2> QED BY <2>1, <2>2
<1>6. c \in Loops => /\ task = c
                     /\ \A d \in Drivers : pc[d] \in {"done", "scheduled", "stop"}
  <2> SUFFICES ASSUME c \in Loops
               PROVE  /\ task = c
                      /\ \A d \in Drivers : pc[d] \in {"done", "scheduled", "stop"}
    OBVIOUS
  <2>1. Alive(c)
    BY <1>1 DEF Alive
  <2>2. task = c /\ \A d \in Drivers : pc[d] # "awaitLoop"
    BY <2>1, OneLoop DEF PollInv
  <2> QED BY <1>1, <2>1, <2>2 DEF PollInv, LoopsInv, LoopOK
<1>7. c \in Requests =>
        \A d \in Drivers : d # c => pc[d] \in {"done", "scheduled"}
  BY <1>1, OneDriver, WhoIsWho DEF PollInv
<1>8. pc[Shutdown] # "done"
  BY <1>1, <1>2, WhoIsWho DEF PollInv, DriversInv, LoopsInv, LoopOK, Alive
<1>9. CASE c \in Loops
  <2>1. task # None /\ Alive(task)
    BY <1>1, <1>6, <1>9, WhoIsWho DEF Alive
  <2>2. pc' = [pc EXCEPT ![c] = "abort"] /\ task' = c
    BY <1>6, <1>9, <2>1 DEF FirstRefreshRaises, Goto
  <2>3. pc'[c] = "abort" /\ \A e \in Coroutines : e # c => pc'[e] = pc[e]
    BY <1>2, <2>2 DEF PollInv, TypeOK
  <2>4. \A d \in Drivers : pc'[d] = pc[d] /\ pc[d] \in {"done", "scheduled", "stop"}
    BY <1>6, <1>9, <2>3, WhoIsWho
  <2>5. /\ \A p \in Pollers : ~Alive(p)'
        /\ \A l \in Loops : Alive(l)' => l = c
    BY <1>3, <1>5, <1>9, <2>3, WhoIsWho DEF Alive
  <2>6. PhasesInv'
    BY <1>9, <2>3, WhoIsWho DEF PollInv, PhasesInv, Alive
  <2>7. DriversInv'
    BY <2>4, WhoIsWho DEF PollInv, DriversInv, Alive
  <2>8. CancelInv'
    BY <1>1, <1>4, <2>4 DEF CancelInv
  <2>9. LoopsInv'
    BY <1>1, <1>4, <1>8, <2>2, <2>4, <2>5, WhoIsWho DEF LoopsInv, LoopOK
  <2>10. PollersInv'
    BY <2>5 DEF PollersInv
  <2>11. ClientInv'
    BY <1>1, <2>3, <2>4, <2>5, WhoIsWho DEF ClientInv, Alive, Querying
  <2>12. StateInv'
    BY <1>1, <2>4, <1>8, WhoIsWho DEF StateInv, NotLeftBehind, Watched, StartsOK, Failing
  <2> QED BY <1>1, <2>6, <2>7, <2>8, <2>9, <2>10, <2>11, <2>12 DEF PollInv, KindOK
<1>10. CASE c \in Requests
  <2>1. \A l \in Loops : ~Alive(l)
    BY <1>5, <1>10, WhoIsWho
  <2>2. state = "CONNECTED"
    BY <1>1, <1>10 DEF PollInv, ClientInv, Querying
  <2>3. ~(state = "RECONNECTING" \/ (task # None /\ Alive(task)))
    BY <2>1, <2>2 DEF PollInv, TypeOK
  <2>4. PICK l \in Loops : task' = l /\ pc' = [pc EXCEPT ![c] = "abort", ![l] = "new"]
    BY <2>3 DEF FirstRefreshRaises
  <2>5. l # c /\ l \in Coroutines
    BY <1>10, WhoIsWho
  <2>6. /\ pc'[c] = "abort" /\ pc'[l] = "new"
        /\ \A e \in Coroutines : e \notin {c, l} => pc'[e] = pc[e]
    BY <1>2, <2>4, <2>5 DEF PollInv, TypeOK
  <2>7. /\ \A d \in Drivers : d # c => pc'[d] = pc[d] /\ pc[d] \in {"done", "scheduled"}
        /\ \A p \in Pollers : ~Alive(p)'
        /\ \A m \in Loops : Alive(m)' => m = l
    BY <1>3, <1>7, <1>10, <2>1, <2>6, WhoIsWho DEF Alive
  <2>8. PhasesInv'
    BY <1>10, <2>6, WhoIsWho DEF PollInv, PhasesInv, Failing
  <2>9. DriversInv'
    BY <1>1, <1>10, <2>6, <2>7, WhoIsWho DEF PollInv, DriversInv, Alive
  <2>10. CancelInv'
    BY <1>1, <1>4, <2>6, <2>7 DEF CancelInv
  <2>11. LoopsInv'
    BY <1>1, <1>2, <1>4, <1>8, <2>4, <2>6, <2>7, WhoIsWho
       DEF LoopsInv, LoopOK, Failing
  <2>12. PollersInv'
    BY <2>7 DEF PollersInv
  <2>13. ClientInv'
    BY <1>1, <2>6, <2>7, WhoIsWho DEF ClientInv, Alive, Querying
  <2>14. StateInv'
    BY <1>1, <1>2, <1>8, <2>7, WhoIsWho
       DEF StateInv, NotLeftBehind, Watched, StartsOK, Failing
  <2> QED BY <1>1, <2>8, <2>9, <2>10, <2>11, <2>12, <2>13, <2>14 DEF PollInv, KindOK
<1> QED BY <1>2, <1>9, <1>10, WhoIsWho

(* The loop's own steps.                                                    *)
LEMMA LoopKeeps ==
    ASSUME Modest, PollInv, TypeOK', NEW l \in Loops, l \notin cancelled, MayRun(l),
           LoopStep(l), kind = "futu" => (pc[l] = "sleeping" => DelayOver),
           UNCHANGED kind
    PROVE  PollInv'
<1>0. Alive(l) /\ l \in Coroutines /\ l \notin Drivers \cup Pollers
  BY WhoIsWho DEF Alive, LoopStep, LoopStarts, WakesConnected, WakesToConnect, LoopCatches
<1>1. /\ task = l
      /\ \A m \in Loops : Alive(m) => m = l
      /\ \A d \in Drivers : pc[d] # "awaitLoop"
      /\ LoopOK(l)
  BY <1>0, OneLoop DEF PollInv, LoopsInv
<1>2. cancelled = {}
  BY <1>1, WhoIsWho DEF PollInv, CancelInv, LoopOK, TypeOK, Tasks
<1>3. PICK phase \in {"done", "sleeping", "stop"} :
        /\ pc' = [pc EXCEPT ![l] = phase]
        /\ UNCHANGED <<task, poll, waits, cancelled, client, rows, kind>>
        /\ \A d \in Coroutines : d # l => error'[d] = error[d]
        /\ phase # "sleeping" => pc[l] # "new"
        /\ phase = "stop" => pc[l] = "sleeping"
        /\ pc[l] = "raised" =>
              /\ phase = "sleeping" => state' = "RECONNECTING"
              /\ phase # "sleeping" => state' = "DISCONNECTED"
        /\ pc[l] # "raised" => state' = state
        /\ phase = "done" => state' \in {"CONNECTED", "DISCONNECTED"}
        /\ pc[l] \in {"new", "sleeping", "raised"}
        /\ phase = "done" /\ state' = "CONNECTED" => pc[l] = "sleeping"
  <2>1. CASE LoopStarts(l)
    BY <2>1 DEF LoopStarts, EnterDelay, Goto, taskVars
  <2>2. CASE WakesConnected(l)
    BY <2>2 DEF WakesConnected, LeaveLoop, Goto, taskVars
  <2>3. CASE WakesToConnect(l)
    BY <2>3 DEF WakesToConnect, Goto, taskVars
  <2>4. CASE LoopCatches(l)
    BY <2>4 DEF LoopCatches, EnterDelay, LeaveLoop, Goto, taskVars, PollInv, TypeOK
  <2> QED BY <2>1, <2>2, <2>3, <2>4 DEF LoopStep
<1>4. pc'[l] = phase /\ \A e \in Coroutines : e # l => pc'[e] = pc[e]
  BY <1>0, <1>3 DEF PollInv, TypeOK
<1>5. \A d \in Drivers : /\ pc'[d] = pc[d]
                         /\ pc[d] \in {"done", "scheduled", "aborting", "leaving"}
                         /\ pc[d] \in {"aborting", "leaving"} =>
                               kind = "futu" /\ pc[l] \in {"new", "sleeping"}
  BY <1>0, <1>1, <1>4, WhoIsWho DEF LoopOK, MayRun, Immediate, Failing
<1>6. phase = "stop" => \A d \in Drivers : pc[d] \in {"done", "scheduled"}
  BY <1>3, <1>5, WhoIsWho DEF DelayOver, Modest
<1>7. \A p \in Pollers : ~Alive(p)'
  BY <1>0, <1>1, <1>4, WhoIsWho DEF LoopOK, Alive
<1>8. \A m \in Loops : Alive(m)' => m = l
  BY <1>1, <1>4, WhoIsWho DEF Alive
<1>9. PhasesInv'
  BY <1>0, <1>4, WhoIsWho DEF PollInv, PhasesInv
<1>10. DriversInv'
  BY <1>5, WhoIsWho DEF PollInv, DriversInv, Alive
<1>11. CancelInv'
  BY <1>2, <1>3, <1>5 DEF CancelInv
<1>12. LoopsInv'
  <2> SUFFICES ASSUME Alive(l)' PROVE LoopOK(l)'
    BY <1>8 DEF LoopsInv
  <2>1. \A d \in Drivers :
          \/ pc'[d] \in {"done", "scheduled", "stop", "awaitLoop"}
          \/ kind = "futu" /\ pc'[d] \in Failing /\ pc'[l] \in {"new", "sleeping"}
    BY <1>3, <1>4, <1>5, <1>6 DEF Failing, Alive
  <2>2. kind # "futu" => state' = "RECONNECTING"
    BY <1>1, <1>3, <1>4 DEF LoopOK, Alive
  <2> QED BY <1>1, <1>2, <1>3, <1>5, <1>7, <2>1, <2>2, WhoIsWho DEF LoopOK
<1>13. PollersInv'
  BY <1>7 DEF PollersInv
<1>14. ClientInv'
  BY <1>4, <1>5, <1>8, WhoIsWho DEF ClientInv, Alive, Querying
<1>15. NotLeftBehind'
  BY <1>3, <1>4 DEF NotLeftBehind, Alive
<1>16. Watched'
  <2> SUFFICES ASSUME state' = "CONNECTED", Running'
               PROVE  \E e \in Loops \cup Requests : pc'[e] \in Immediate \cup Awaiting
    BY DEF Watched
  <2>1. state = "CONNECTED" /\ Running /\ pc[l] # "raised"
    BY <1>3, <1>5, WhoIsWho DEF Running
  <2>2. PICK e \in Loops \cup Requests : pc[e] \in Immediate \cup Awaiting
    BY <1>0, <1>1, <2>1 DEF PollInv, StateInv, Watched, LoopOK
  <2>3. e # l
    BY <1>3, <2>1, <2>2 DEF Immediate, Awaiting
  <2> QED BY <1>4, <2>2, <2>3, WhoIsWho
<1>17. StartsOK'
  <2>1. ASSUME NEW r \in Requests, pc'[r] \in Failing PROVE state' = state
    BY <1>3, <1>5, <2>1, WhoIsWho DEF Failing
  <2>2. ASSUME NEW r \in Requests, kind # "futu" PROVE ~Alive(r)'
    BY <1>0, <1>5, <2>2, WhoIsWho DEF PollInv, StateInv, StartsOK, Alive
  <2> QED BY <1>3, <1>5, <2>1, <2>2, WhoIsWho DEF PollInv, StateInv, StartsOK
<1>18. pc'[Shutdown] # "done"
  BY <1>1, <1>5, WhoIsWho DEF LoopOK
<1> QED BY <1>3, <1>9, <1>10, <1>11, <1>12, <1>13, <1>14, <1>15, <1>16, <1>17, <1>18
        DEF PollInv, StateInv, KindOK

(* The poll task asks, and hands over what it was told.                     *)
Polls(p) ==
    /\ p \in Pollers \ cancelled
    /\ Alive(p)
    /\ \E phase \in {"sleeping"} \cup Querying : pc' = [pc EXCEPT ![p] = phase]
    /\ rows' \in {rows, "positions"}
    /\ UNCHANGED <<state, task, poll, client, error, waits, cancelled, kind>>

LEMMA PollsKeeps ==
    ASSUME PollInv, TypeOK', NEW p \in Coroutines, Polls(p)
    PROVE  PollInv'
<1> PICK phase \in {"sleeping"} \cup Querying : pc' = [pc EXCEPT ![p] = phase]
  BY DEF Polls
<1>1. /\ p \in Pollers /\ Alive(p)
      /\ UNCHANGED <<state, task, poll, client, error, waits, cancelled, kind>>
  BY DEF Polls
<1>2. pc'[p] = phase /\ \A e \in Coroutines : e # p => pc'[e] = pc[e]
  BY DEF PollInv, TypeOK
<1>3. /\ \A e \in Loops \cup Drivers : pc'[e] = pc[e]
      /\ \A e \in Coroutines : Alive(e)' <=> Alive(e)
  BY <1>1, <1>2, WhoIsWho DEF Alive, Querying
<1>4. PhasesInv'
  BY <1>1, <1>2, WhoIsWho DEF PollInv, PhasesInv
<1>5. DriversInv' /\ ClientInv'
  BY <1>1, <1>3, WhoIsWho DEF PollInv, DriversInv, ClientInv, Alive
<1>6. CancelInv'
  <2>1. \A t \in cancelled : t \in Coroutines
    BY DEF PollInv, TypeOK, Coroutines
  <2>2. \A d \in Drivers : pc[d] \in {"awaitLoop", "awaitPoll"} => waits[d] \in Coroutines
    BY WhoIsWho DEF PollInv, CancelInv
  <2> QED BY <1>1, <1>3, <2>1, <2>2, WhoIsWho DEF PollInv, CancelInv, Alive
<1>7. LoopsInv'
  BY <1>1, <1>3, WhoIsWho DEF PollInv, LoopsInv, LoopOK
<1>8. PollersInv'
  BY <1>1, <1>3, WhoIsWho DEF PollInv, PollersInv, PollerOK
<1>9. StateInv'
  BY <1>1, <1>3, WhoIsWho
     DEF PollInv, StateInv, NotLeftBehind, Watched, StartsOK, Running
<1> QED BY <1>1, <1>4, <1>5, <1>6, <1>7, <1>8, <1>9 DEF PollInv, KindOK

-----------------------------------------------------------------------------
(* Every step of every adapter is one of these.                             *)

StepOf(c) ==
    \/ c \in cancelled /\ TaskCancelled(c) /\ UNCHANGED kind
    \/ /\ c \in (Loops \cup Drivers) \ cancelled
       /\ \/ StopReconnecting(c) \/ StopPolling(c) \/ TaskAwaited(c)
          \/ kind = "futu" /\ FirstRefreshRaises(c)
       /\ UNCHANGED kind
    \/ Works(c) \/ Returns(c) \/ Loses(c) \/ Polls(c)
    \/ c \in Drivers /\ Begins(c)
    \/ c = Shutdown /\ DisconnectEnds(c) /\ UNCHANGED kind
    \/ c \in Requests /\ StartFails(c) /\ error[c] = "config" /\ UNCHANGED kind
    \/ /\ c \in Loops \ cancelled
       /\ MayRun(c) /\ LoopStep(c) /\ UNCHANGED kind
       /\ kind = "futu" => (pc[c] = "sleeping" => DelayOver)

LEMMA StepKeeps ==
    ASSUME Modest, PollInv, TypeOK', NEW c \in Coroutines, StepOf(c)
    PROVE  PollInv'
<1>1. CASE c \in cancelled /\ TaskCancelled(c) /\ UNCHANGED kind
  BY <1>1, TaskCancelledKeeps
<1>2. CASE /\ c \in (Loops \cup Drivers) \ cancelled
           /\ \/ StopReconnecting(c) \/ StopPolling(c) \/ TaskAwaited(c)
              \/ kind = "futu" /\ FirstRefreshRaises(c)
           /\ UNCHANGED kind
  BY <1>2, StopReconnectingKeeps, StopPollingKeeps, TaskAwaitedKeeps,
     FirstRefreshRaisesKeeps
<1>3. CASE Works(c) \/ Returns(c) \/ Loses(c) \/ Polls(c)
  BY <1>3, WorksKeeps, ReturnsKeeps, LosesKeeps, PollsKeeps
<1>4. CASE c \in Drivers /\ Begins(c)
  BY <1>4, BeginsKeeps
<1>5. CASE c = Shutdown /\ DisconnectEnds(c) /\ UNCHANGED kind
  BY <1>5, DisconnectEndsKeeps
<1>6. CASE c \in Requests /\ StartFails(c) /\ error[c] = "config" /\ UNCHANGED kind
  BY <1>6, GivesUpKeeps
<1>7. CASE /\ c \in Loops \ cancelled
           /\ MayRun(c) /\ LoopStep(c) /\ UNCHANGED kind
           /\ kind = "futu" => (pc[c] = "sleeping" => DelayOver)
  BY <1>7, LoopKeeps
<1> QED BY <1>1, <1>2, <1>3, <1>4, <1>5, <1>6, <1>7 DEF StepOf

(* The steps that connect(), start() and disconnect() have in common.       *)
LEMMA StopSteps ==
    ASSUME PollInv, NEW c \in (Loops \cup Drivers) \ cancelled,
           StopStep(c) \/ (c \in Requests /\ StartStep(c) /\ MayRun(c)), UNCHANGED kind
    PROVE  StepOf(c)
<1>0. c \in Coroutines
  BY WhoIsWho
<1>1. c \in Requests =>
        /\ pc[c] \in Failing /\ error[c] = "other" => state # "RECONNECTING"
        /\ c \notin Loops /\ c # Shutdown
  BY WhoIsWho DEF PollInv, StateInv, StartsOK
<1> USE DEF Goto, taskVars
<1>2. CASE CloseClients(c, "close", "closing", "build") \/ ClientsClosed(c, "closing", "build")
  <2>1. Works(c)
    BY <1>0, <1>2 DEF CloseClients, ClientsClosed, Works, Working, Failing, Querying
  <2> QED BY <2>1 DEF StepOf
<1>3. CASE c \in Requests /\ StartStep(c) /\ MayRun(c)
  <2>1. CASE Start(c)
    BY <1>3, <2>1, WhoIsWho DEF StepOf, Begins
  <2>2. CASE \/ StartCatches(c) \/ CloseClients(c, "leave", "leaving", "left")
             \/ ClientsClosed(c, "leaving", "left")
    <3>1. Works(c)
      BY <1>0, <1>1, <1>3, <2>2
         DEF StartCatches, CloseClients, ClientsClosed, Works, Working, Failing, Querying
    <3> QED BY <3>1 DEF StepOf
  <2>3. CASE StartFails(c)
    <3>1. CASE error[c] = "config"
      BY <1>3, <2>3, <3>1 DEF StepOf
    <3>2. CASE error[c] = "other"
      <4>1. Loses(c)
        BY <1>0, <1>3, <2>3, <3>2 DEF StartFails, Loses, PollInv, TypeOK
      <4> QED BY <4>1 DEF StepOf
    <3> QED BY <2>3, <3>1, <3>2 DEF StartFails
  <2> QED BY <1>3, <2>1, <2>2, <2>3 DEF StartStep
<1>4. CASE StopReconnecting(c) \/ StopPolling(c) \/ TaskAwaited(c)
  BY <1>4 DEF StepOf
<1>5. CASE DisconnectEnds(c)
  BY <1>5 DEF StepOf, DisconnectEnds
<1> QED BY <1>2, <1>3, <1>4, <1>5 DEF StopStep

(* The steps of connect() in Tiger's and in Longbridge's adapter, and in    *)
(* Futu's without an SDK.                                                   *)
LEMMA ConnectSteps ==
    ASSUME PollInv, NEW c \in (Loops \cup Drivers) \ cancelled, MayRun(c),
           kind # "futu", UNCHANGED kind,
           ConnectStep(c) \/ LongbridgeConnectStep(c) \/ SdkMissing(c)
    PROVE  StepOf(c)
<1>0. c \in Coroutines /\ c \notin Pollers
  BY WhoIsWho
<1>1. Alive(c) /\ c \in Requests => state = "DISCONNECTED" /\ c \notin Loops /\ c # Shutdown
  BY WhoIsWho DEF PollInv, StateInv, StartsOK
<1>2. /\ pc[c] \in {"accounts"} \cup Querying => client /\ c # Shutdown
      /\ c = Shutdown => pc[c] \notin {"abort", "aborting"}
  BY WhoIsWho DEF PollInv, ClientInv, PhasesInv, Querying
<1>3. ASSUME Works(c) PROVE StepOf(c)
  BY <1>3 DEF StepOf
<1> USE DEF Goto, taskVars, Raise, Working, Failing, Querying, Alive
<1>4. ASSUME NEW then \in {"accounts", "fetching"}, Build(c, then) PROVE Works(c)
  <2>1. CASE client' = TRUE /\ Goto(c, then) /\ UNCHANGED error
    BY <1>0, <1>1, <1>4, <2>1 DEF Build, Works
  <2>2. CASE \E e \in {"config", "other"} : Raise(c, e, "raised")
    BY <1>0, <1>1, <1>4, <2>2 DEF Build, Works, PollInv, TypeOK
  <2> QED BY <1>4, <2>1, <2>2 DEF Build
<1>5. CASE AccountsRaise(c)
  BY <1>0, <1>1, <1>2, <1>3, <1>5 DEF AccountsRaise, Works, PollInv, TypeOK
<1>6. CASE AccountsLoaded(c)
  BY <1>0, <1>1, <1>2, <1>3, <1>6 DEF AccountsLoaded, Works
<1>7. CASE PositionsArrive(c) \/ QuotesArrive(c)
  BY <1>0, <1>1, <1>2, <1>3, <1>7 DEF PositionsArrive, QuotesArrive, Queried, Works
<1>8. CASE BalancesArrive(c)
  <2>1. c \in Loops \cup Requests /\ client /\ pc[c] = "balances"
    BY <1>2, <1>8, WhoIsWho DEF BalancesArrive
  <2>2. ConnectReturns(c, "positions")
    BY <1>0, <1>8 DEF BalancesArrive, Delivered
  <2>3. Returns(c)
    BY <2>1, <2>2 DEF ConnectReturns, Returns
  <2> QED BY <2>3 DEF StepOf
<1>9. ASSUME NEW e \in {"config", "other"}, FetchRaises(c, e),
             pc[c] \in {"fetching", "quoting", "balances"}
      PROVE  Works(c)
  BY <1>0, <1>1, <1>2, <1>9 DEF FetchRaises, Works, PollInv, TypeOK
<1>10. CASE AbortStep(c)
  BY <1>0, <1>1, <1>2, <1>3, <1>10
     DEF AbortStep, AbortsAtOnce, AbortCloses, Aborted, CloseClients, Works
<1>11. CASE SdkMissing(c)
  BY <1>0, <1>1, <1>3, <1>11 DEF SdkMissing, Works, PollInv, TypeOK
<1> HIDE DEF Goto, taskVars, Raise, Working, Failing, Querying, Alive
<1>12. CASE StopStep(c)
  BY <1>12, StopSteps
<1>13. CASE FetchStep(c) \/ LongbridgeFetchStep(c)
  BY <1>3, <1>7, <1>8, <1>9, <1>13 DEF FetchStep, LongbridgeFetchStep, QueryRaises
<1> QED BY <1>3, <1>4, <1>5, <1>6, <1>10, <1>11, <1>12, <1>13
        DEF ConnectStep, LongbridgeConnectStep

(* The steps of connect() in Futu's.                                        *)
LEMMA FutuSteps ==
    ASSUME PollInv, NEW c \in (Loops \cup Drivers) \ cancelled, MayRun(c),
           kind = "futu", FutuConnectStep(c), UNCHANGED kind
    PROVE  StepOf(c)
<1>0. c \in Coroutines /\ c \notin Pollers
  BY WhoIsWho
<1>1. c \in Requests =>
        /\ pc[c] \in Failing /\ error[c] = "other" => state # "RECONNECTING"
        /\ c \notin Loops /\ c # Shutdown
  BY WhoIsWho DEF PollInv, StateInv, StartsOK
<1>2. /\ pc[c] \in {"accounts"} \cup Querying => client /\ c # Shutdown
      /\ pc[c] \in Querying => state = "CONNECTED"
      /\ c = Shutdown => pc[c] \notin {"building", "abort", "aborting"}
  BY WhoIsWho DEF PollInv, ClientInv, PhasesInv, Querying
<1>3. ASSUME Works(c) PROVE StepOf(c)
  BY <1>3 DEF StepOf
<1> USE DEF Goto, taskVars, Raise, Working, Failing, Querying
<1>4. CASE Validate(c)
  BY <1>0, <1>1, <1>3, <1>4 DEF Validate, Works, PollInv, TypeOK
<1>5. CASE ContextsBuilt(c)
  BY <1>0, <1>2, <1>3, <1>5 DEF ContextsBuilt, Works
<1>6. CASE ContextsFail(c)
  BY <1>0, <1>2, <1>3, <1>6 DEF ContextsFail, Works, PollInv, TypeOK
<1>7. CASE AccountsKnown(c) \/ PositionsKnown(c)
  BY <1>0, <1>2, <1>3, <1>7 DEF AccountsKnown, PositionsKnown, Works
<1>8. CASE FirstRefreshReturns(c)
  <2>1. pc[c] \in {"fetching", "balances"}
    BY <1>8 DEF FirstRefreshReturns, Answers
  <2>2. pc[c] = "balances" /\ Refreshed(c, "positions") /\ UNCHANGED state
    BY <1>2, <1>8, <2>1 DEF FirstRefreshReturns, Answers
  <2>3. c \in Loops \cup Requests /\ client /\ state = "CONNECTED"
    BY <1>2, <2>2, WhoIsWho
  <2>4. Returns(c)
    BY <2>2, <2>3 DEF Refreshed, Returns
  <2> QED BY <2>4 DEF StepOf
<1>9. CASE FirstRefreshRaises(c)
  BY <1>9 DEF StepOf
<1>10. CASE \/ CloseClients(c, "abort", "aborting", "raised")
            \/ ClientsClosed(c, "aborting", "raised")
  BY <1>0, <1>1, <1>2, <1>3, <1>10 DEF CloseClients, ClientsClosed, Works
<1> QED BY <1>4, <1>5, <1>6, <1>7, <1>8, <1>9, <1>10, StopSteps DEF FutuConnectStep

(* The steps of a poll task.                                                *)
LEMMA PollSteps ==
    ASSUME PollInv, NEW p \in Pollers \ cancelled, MayRun(p),
           \/ PollWakes(p) \/ FetchStep(p) \/ LongbridgeFetchStep(p) \/ FutuPollStep(p),
           UNCHANGED kind
    PROVE  StepOf(p)
<1>0. p \in Coroutines
  BY WhoIsWho
<1>1. Alive(p) => client
  BY DEF PollInv, PollersInv, PollerOK
<1>2. ASSUME Polls(p) \/ Loses(p) PROVE StepOf(p)
  BY <1>2 DEF StepOf
<1> USE DEF Goto, taskVars, Querying, Alive
<1>3. CASE PollWakes(p)
  BY <1>1, <1>2, <1>3 DEF PollWakes, Polls
<1>4. CASE PositionsArrive(p) \/ QuotesArrive(p) \/ PositionsKnown(p)
  BY <1>1, <1>2, <1>4 DEF PositionsArrive, QuotesArrive, PositionsKnown, Queried, Polls
<1>5. CASE BalancesArrive(p)
  BY <1>1, <1>2, <1>5 DEF BalancesArrive, Delivered, Polls
<1>6. CASE RefreshReturns(p)
  BY <1>1, <1>2, <1>6 DEF RefreshReturns, Answers, Delivered, Polls
<1>7. ASSUME NEW e \in {"config", "other"}, FetchRaises(p, e),
             pc[p] \in {"fetching", "quoting", "balances"}
      PROVE  StepOf(p)
  BY <1>0, <1>2, <1>7 DEF FetchRaises, Loses
<1> QED BY <1>3, <1>4, <1>5, <1>6, <1>7
        DEF FetchStep, LongbridgeFetchStep, QueryRaises, FutuPollStep, FutuPollWakes

LEMMA StepsClassified ==
    ASSUME PollInv, AdapterNext
    PROVE  \E c \in Coroutines : StepOf(c)
<1>0. UNCHANGED kind
  BY DEF AdapterNext
<1>1. ASSUME NEW c \in Coroutines, c \in cancelled PROVE pc[c] \notin {"awaitLoop", "awaitPoll"}
  BY <1>1, WhoIsWho
     DEF PollInv, TypeOK, PhasesInv, Tasks, Working, Querying
<1>2. ASSUME NEW c \in Coroutines, kind = "tiger", CoroutineStep(c) PROVE StepOf(c)
  <2>1. CASE c \in cancelled
    BY <1>0, <1>1, <1>2, <2>1 DEF CoroutineStep, StepOf
  <2>2. CASE c \notin cancelled
    BY <1>0, <1>2, <2>2, WhoIsWho, ConnectSteps, StopSteps, PollSteps
       DEF CoroutineStep, StepOf
  <2> QED BY <2>1, <2>2
<1>3. ASSUME NEW c \in Coroutines, kind = "longbridge", LongbridgeStep(c) PROVE StepOf(c)
  <2>1. CASE c \in cancelled
    BY <1>0, <1>1, <1>3, <2>1 DEF LongbridgeStep, StepOf
  <2>2. CASE c \notin cancelled
    BY <1>0, <1>3, <2>2, WhoIsWho, ConnectSteps, StopSteps, PollSteps
       DEF LongbridgeStep, StepOf
  <2> QED BY <2>1, <2>2
<1>4. ASSUME NEW c \in Coroutines, kind = "futu", FutuStep(c) PROVE StepOf(c)
  <2>1. CASE c \in cancelled
    BY <1>0, <1>1, <1>4, <2>1 DEF FutuStep, StepOf
  <2>2. CASE c \notin cancelled
    BY <1>0, <1>4, <2>2, WhoIsWho, FutuSteps, StopSteps, PollSteps
       DEF FutuStep, StepOf
  <2> QED BY <2>1, <2>2
<1>5. ASSUME NEW c \in Coroutines, kind = "futuNoSdk", NoSdkStep(c) PROVE StepOf(c)
  <2>1. CASE c \in cancelled
    BY <1>0, <1>1, <1>5, <2>1 DEF NoSdkStep, StepOf
  <2>2. CASE c \notin cancelled
    BY <1>0, <1>5, <2>2, WhoIsWho, ConnectSteps, StopSteps DEF NoSdkStep, StepOf
  <2> QED BY <2>1, <2>2
<1>6. ASSUME NEW r \in Requests, MayRun(r) /\ ScheduleStart(r) PROVE StepOf(r)
  BY <1>0, <1>6, WhoIsWho DEF StepOf, Begins
<1>7. CASE MayRun(Shutdown) /\ DisconnectBegins
  BY <1>0, <1>7, WhoIsWho DEF StepOf, Begins
<1> QED BY <1>2, <1>3, <1>4, <1>5, <1>6, <1>7, WhoIsWho
        DEF AdapterNext, Next, LongbridgeNext, FutuNext, NoSdkNext

-----------------------------------------------------------------------------
(* The results.                                                             *)

LEMMA PollInvInitially == AdapterInit => PollInv
<1> SUFFICES ASSUME AdapterInit PROVE PollInv
  OBVIOUS
<1>1. TypeOK /\ KindOK
  BY TypesInitially DEF AdapterInit, KindOK
<1>2. /\ \A c \in Coroutines : pc[c] = IF c \in {Boot, Shutdown} THEN "scheduled" ELSE "done"
      /\ state = "DISCONNECTED" /\ cancelled = {}
  BY DEF AdapterInit, Init
<1>3. PhasesInv /\ DriversInv
  BY <1>2, WhoIsWho DEF PhasesInv, DriversInv, Alive
<1>4. CancelInv /\ LoopsInv /\ PollersInv /\ ClientInv
  BY <1>2, WhoIsWho DEF CancelInv, LoopsInv, PollersInv, ClientInv, Alive, Querying
<1>5. StateInv
  BY <1>2, WhoIsWho
     DEF StateInv, NotLeftBehind, Watched, StartsOK, Alive, Failing
<1> QED BY <1>1, <1>3, <1>4, <1>5 DEF PollInv

LEMMA PollInvKept ==
    ASSUME Modest, PollInv, [AdapterNext]_adapterVars
    PROVE  PollInv'
<1>1. TypeOK'
  BY TypesKept DEF PollInv
<1>2. CASE AdapterNext
  BY <1>1, <1>2, StepsClassified, StepKeeps
<1>3. CASE UNCHANGED adapterVars
  BY <1>3 DEF adapterVars, vars, PollInv, TypeOK, KindOK, PhasesInv, DriversInv, CancelInv,
     LoopsInv, LoopOK, PollersInv, PollerOK, ClientInv, StateInv, NotLeftBehind, Watched,
     StartsOK, Alive, Running
<1> QED BY <1>2, <1>3

(* What start(), the reconnect loop, the poll task and disconnect() may     *)
(* meet of each other, in each of the three adapters.                       *)
THEOREM AdapterInvariant == Modest => (AdapterSpec => []PollInv)
<1> SUFFICES ASSUME Modest PROVE AdapterSpec => []PollInv
  OBVIOUS
<1>1. PollInv /\ [AdapterNext]_adapterVars => PollInv'
  BY PollInvKept
<1> QED BY <1>1, PollInvInitially, PTL DEF AdapterSpec

(* A cancelled task has somebody waiting for it who is at work himself.     *)
LEMMA ReconnectingIsBusy ==
    ASSUME PollInv, state = "RECONNECTING"
    PROVE  Busy /\ ReconnectingHasLoop
<1>1. \/ \E c \in Loops \cup Requests : Alive(c)
      \/ pc[Shutdown] \notin {"scheduled", "done"}
  BY DEF PollInv, StateInv, NotLeftBehind
<1>2. ASSUME NEW l \in Loops, l \in cancelled
      PROVE  \/ \E r \in Requests : Alive(r)
             \/ pc[Shutdown] \notin {"scheduled", "done"}
  <2>1. PICK d \in Drivers : pc[d] = "awaitLoop"
    BY <1>2 DEF PollInv, CancelInv
  <2> QED BY <2>1, WhoIsWho DEF Alive
<1>3. \/ \E c \in (Loops \ cancelled) \cup Requests : Alive(c)
      \/ pc[Shutdown] \notin {"scheduled", "done"}
  BY <1>1, <1>2
<1> QED BY <1>3 DEF Busy, ReconnectingHasLoop, Running

(* RECONNECTING is never shown with nobody at work: a loop that was not     *)
(* cancelled, or a start().                                                 *)
THEOREM ReconnectingIsHonest == Modest => (AdapterSpec => []ReconnectingHasLoop)
<1> SUFFICES ASSUME Modest PROVE AdapterSpec => []ReconnectingHasLoop
  OBVIOUS
<1>1. PollInv => ReconnectingHasLoop
  BY ReconnectingIsBusy DEF ReconnectingHasLoop
<1>2. AdapterSpec => []PollInv
  BY AdapterInvariant
<1> QED BY <1>1, <1>2, PTL

(* A connected adapter has a poll task that was not cancelled, or a         *)
(* connect() under way that will start one.                                 *)
THEOREM ConnectedIsWatched == Modest => (AdapterSpec => []ConnectedIsPolled)
<1> SUFFICES ASSUME Modest PROVE AdapterSpec => []ConnectedIsPolled
  OBVIOUS
<1>1. PollInv => ConnectedIsPolled
  <2> SUFFICES ASSUME PollInv, state = "CONNECTED", Running
               PROVE  \E c \in Coroutines \ cancelled :
                        \/ c \in Pollers /\ Alive(c)
                        \/ c \in Loops \cup Requests /\ pc[c] \in Immediate \cup Awaiting
    BY DEF ConnectedIsPolled
  <2>1. CASE cancelled = {}
    BY <2>1, WhoIsWho DEF PollInv, StateInv, Watched
  <2>2. ASSUME NEW t \in cancelled
        PROVE  \E r \in Requests \ cancelled : pc[r] \in Immediate \cup Awaiting
    <3>1. PICK d \in Drivers : pc[d] \in {"awaitLoop", "awaitPoll"}
      BY <2>2 DEF PollInv, CancelInv
    <3>2. d \in Requests /\ d \notin cancelled
      BY <3>1, WhoIsWho DEF Running, PollInv, TypeOK, Tasks
    <3> QED BY <3>1, <3>2 DEF Awaiting
  <2> QED BY <2>1, <2>2, WhoIsWho
<1>2. AdapterSpec => []PollInv
  BY AdapterInvariant
<1> QED BY <1>1, <1>2, PTL

(* When disconnect() has returned, no loop and no poll task is left.        *)
THEOREM ShutdownIsFinal == Modest => (AdapterSpec => []ShutdownStopsTasks)
<1> SUFFICES ASSUME Modest PROVE AdapterSpec => []ShutdownStopsTasks
  OBVIOUS
<1>1. PollInv => ShutdownStopsTasks
  BY DEF PollInv, LoopsInv, LoopOK, PollersInv, PollerOK, ShutdownStopsTasks, Tasks
<1>2. AdapterSpec => []PollInv
  BY AdapterInvariant
<1> QED BY <1>1, <1>2, PTL

LEMMA StepKeepsRows ==
    ASSUME PollInv, NEW c \in Coroutines, StepOf(c)
    PROVE  rows' \in {rows, "positions"}
<1>1. CASE c \in Drivers /\ Begins(c)
  BY <1>1 DEF Begins, ScheduleStart, Start, DisconnectBegins
<1>2. CASE Works(c) \/ Returns(c) \/ Loses(c) \/ Polls(c)
  BY <1>2 DEF Works, Returns, Loses, Polls
<1>3. CASE \/ TaskCancelled(c) \/ StopReconnecting(c) \/ StopPolling(c) \/ TaskAwaited(c)
           \/ FirstRefreshRaises(c) \/ DisconnectEnds(c) \/ StartFails(c)
  BY <1>3 DEF TaskCancelled, StopReconnecting, StopPolling, TaskAwaited,
     FirstRefreshRaises, DisconnectEnds, StartFails
<1>4. CASE LoopStep(c)
  BY <1>4 DEF LoopStep, LoopStarts, WakesConnected, WakesToConnect, LoopCatches
<1> QED BY <1>1, <1>2, <1>3, <1>4 DEF StepOf

(* Positions that were fetched are replaced by fetched ones only, never by  *)
(* what _fetch_positions returns for lack of a client.                      *)
THEOREM RowsOnlyRenewed == Modest => (AdapterSpec => RowsKept)
<1> SUFFICES ASSUME Modest PROVE AdapterSpec => RowsKept
  OBVIOUS
<1>1. PollInv /\ [AdapterNext]_adapterVars => [rows = "positions" => rows' = "positions"]_vars
  <2> SUFFICES ASSUME PollInv, AdapterNext PROVE rows' \in {rows, "positions"}
    BY DEF adapterVars, vars
  <2> QED BY StepsClassified, StepKeepsRows
<1>2. AdapterSpec => []PollInv
  BY AdapterInvariant
<1> QED BY <1>1, <1>2, PTL DEF AdapterSpec, RowsKept

(* Who reports the connection made or given up is at work on it.            *)
LEMMA ReporterIsBusy ==
    ASSUME PollInv, TypeOK', NEW c \in Coroutines, StepOf(c)
    PROVE  state' = state \/ state' = "RECONNECTING" \/ Busy
<1>1. ASSUME NEW d \in (Loops \cup Drivers) \ cancelled,
             pc[d] \notin {"done", "scheduled"}
      PROVE  Busy
  BY <1>1, WhoIsWho DEF Busy, Alive
<1>2. CASE Works(c) \/ Returns(c)
  BY <1>1, <1>2, WhoIsWho DEF Works, Returns, Working, Failing, Querying
<1>3. CASE Loses(c)
  BY <1>3, LosesKeeps
<1>4. CASE c \in Loops \ cancelled /\ LoopStep(c)
  BY <1>1, <1>4 DEF LoopStep, LoopStarts, WakesConnected, WakesToConnect, LoopCatches
<1>5. CASE c \in (Loops \cup Drivers) \ cancelled /\ FirstRefreshRaises(c)
  BY <1>1, <1>5 DEF FirstRefreshRaises
<1>6. CASE c = Shutdown /\ DisconnectEnds(c)
  BY <1>6 DEF DisconnectEnds, Busy
<1>7. CASE c \in Requests /\ StartFails(c)
  BY <1>7 DEF StartFails, Busy, Alive
<1>8. CASE \/ TaskCancelled(c) \/ StopReconnecting(c) \/ StopPolling(c) \/ TaskAwaited(c)
           \/ Polls(c)
           \/ c \in Drivers /\ Begins(c)
  BY <1>8 DEF TaskCancelled, StopReconnecting, StopPolling, TaskAwaited, Polls, Begins,
     ScheduleStart, Start, DisconnectBegins
<1> QED BY <1>2, <1>3, <1>4, <1>5, <1>6, <1>7, <1>8 DEF StepOf

(* Step by step, each adapter does to its state what an abstract connection *)
(* may do: it is reported made or given up by somebody at work, and nobody  *)
(* leaves RECONNECTING behind.                                              *)
THEOREM RefinesBroker == Modest => (AdapterSpec => Connection!Safety)
<1> SUFFICES ASSUME Modest PROVE AdapterSpec => Connection!Safety
  OBVIOUS
<1>1. AdapterInit => Connection!Init
  <2> SUFFICES ASSUME AdapterInit PROVE Connection!Init
    OBVIOUS
  <2>1. Boot \in Requests /\ Alive(Boot)
    BY WhoIsWho DEF AdapterInit, Init, Alive
  <2>2. Busy = TRUE
    BY <2>1 DEF Busy
  <2> QED BY <2>2 DEF AdapterInit, Init, Connection!Init
<1> DEFINE NeverLeft == state = "RECONNECTING" => Busy
<1>0. PollInv => NeverLeft
  BY ReconnectingIsBusy
<1>2. PollInv /\ NeverLeft' /\ [AdapterNext]_adapterVars
        => [Connection!Next]_<<state, Busy>>
  <2> SUFFICES ASSUME PollInv, NeverLeft', [AdapterNext]_adapterVars
               PROVE  [Connection!Next]_<<state, Busy>>
    OBVIOUS
  <2>0. Busy' \in BOOLEAN /\ Busy \in BOOLEAN
    BY DEF Busy
  <2>1. CASE UNCHANGED adapterVars
    BY <2>1 DEF adapterVars, vars, Busy, Alive
  <2>2. CASE AdapterNext
    <3>1. PollInv' /\ TypeOK'
      BY PollInvKept, TypesKept DEF PollInv
    <3>2. state' = "RECONNECTING" => Busy'
      OBVIOUS
    <3>3. state' = state \/ state' = "RECONNECTING" \/ Busy
      BY <2>2, <3>1, StepsClassified, ReporterIsBusy
    <3>4. CASE state' = "RECONNECTING"
      BY <3>2, <3>4 DEF Connection!Next, Connection!Loses
    <3>5. CASE state' = state /\ state' # "RECONNECTING"
      <4>1. CASE Busy'
        BY <3>5, <4>1 DEF Connection!Next, Connection!Begins
      <4>2. CASE ~Busy'
        BY <3>5, <4>2 DEF Connection!Next, Connection!Ends
      <4> QED BY <4>1, <4>2
    <3>6. CASE Busy /\ state' # "RECONNECTING"
      <4>1. state' \in {"CONNECTED", "DISCONNECTED"}
        BY <3>1, <3>6 DEF TypeOK, States
      <4> QED BY <2>0, <3>6, <4>1
              DEF Connection!Next, Connection!Connects, Connection!GivesUp
    <3> QED BY <3>3, <3>4, <3>5, <3>6
  <2> QED BY <2>1, <2>2
<1>3. AdapterSpec => []PollInv
  BY AdapterInvariant
<1> QED BY <1>0, <1>1, <1>2, <1>3, PTL DEF AdapterSpec, Connection!Safety

=============================================================================
