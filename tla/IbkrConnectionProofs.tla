------------------------ MODULE IbkrConnectionProofs ------------------------
(***************************************************************************)
(* Proofs about the connection lifecycle of module IbkrConnection, for     *)
(* every number of sessions, loop tasks, requests, delays and positions.   *)
(***************************************************************************)
EXTENDS IbkrConnection, TLAPS

PCs == LoopPCs \cup RequestPCs

(* A connect() in progress has an IB object of its own.                     *)
OwnOK == \A c \in Coroutines : pc[c] \in Connecting => own[c] \in Sessions

(* How pc and task are typed after a step that may create the loop task.    *)
LEMMA SpawnLoopType ==
    ASSUME TypeOK, NEW pcs \in [Coroutines -> PCs], SpawnLoop(pcs),
           \A l \in Loops : pcs[l] \in LoopPCs,
           \A r \in Requests : pcs[r] \in RequestPCs
    PROVE  /\ task' \in Loops \cup {None}
           /\ pc' \in [Coroutines -> PCs]
           /\ \A l \in Loops : pc'[l] \in LoopPCs
           /\ \A r \in Requests : pc'[r] \in RequestPCs
<1>1. CASE task # None /\ pcs[task] # "done"
  BY <1>1 DEF SpawnLoop, TypeOK
<1>2. CASE ~(task # None /\ pcs[task] # "done")
  <2>1. PICK l \in Loops : /\ pcs[l] = "done"
                           /\ pc' = [pcs EXCEPT ![l] = "new"]
                           /\ task' = l
    BY <1>2 DEF SpawnLoop
  <2>2. l \in Coroutines /\ l \notin Requests
    BY CoroutineAssumption DEF Coroutines
  <2>3. "new" \in LoopPCs
    BY DEF LoopPCs
  <2> QED BY <2>1, <2>2, <2>3 DEF PCs, Coroutines
<1> QED BY <1>1, <1>2

LEMMA HandleDisconnectType ==
    ASSUME TypeOK, NEW pcs \in [Coroutines -> PCs], HandleDisconnect(pcs),
           \A l \in Loops : pcs[l] \in LoopPCs,
           \A r \in Requests : pcs[r] \in RequestPCs
    PROVE  /\ state' \in States
           /\ task' \in Loops \cup {None}
           /\ pc' \in [Coroutines -> PCs]
           /\ \A l \in Loops : pc'[l] \in LoopPCs
           /\ \A r \in Requests : pc'[r] \in RequestPCs
<1>1. CASE Disconnecting \/ state = "RECONNECTING"
  BY <1>1 DEF HandleDisconnect, TypeOK
<1>2. CASE ~(Disconnecting \/ state = "RECONNECTING")
  <2>1. state' = "RECONNECTING" /\ SpawnLoop(pcs)
    BY <1>2 DEF HandleDisconnect
  <2> QED BY <2>1, SpawnLoopType DEF States
<1> QED BY <1>1, <1>2

(* Giving one coroutine a pc of its kind keeps pc well typed.               *)
LEMMA SetPCType ==
    ASSUME TypeOK, NEW c \in Coroutines, NEW p,
           c \in Loops => p \in LoopPCs,
           c \in Requests => p \in RequestPCs
    PROVE  /\ [pc EXCEPT ![c] = p] \in [Coroutines -> PCs]
           /\ \A l \in Loops : [pc EXCEPT ![c] = p][l] \in LoopPCs
           /\ \A r \in Requests : [pc EXCEPT ![c] = p][r] \in RequestPCs
  BY DEF TypeOK, PCs, Coroutines

LEMMA ConnectRaisesType ==
    ASSUME TypeOK, NEW c \in Coroutines, ConnectRaises(c)
    PROVE  /\ state' \in States
           /\ task' \in Loops \cup {None}
           /\ wakeup' \in {"none", "clear", "set"}
           /\ attached' \subseteq Loops
           /\ backoff' \in 0..Delays
           /\ attempt' \in [Loops -> 0..Delays]
           /\ pc' \in [Coroutines -> PCs]
           /\ \A l \in Loops : pc'[l] \in LoopPCs
           /\ \A r \in Requests : pc'[r] \in RequestPCs
<1>1. CASE /\ c \in Requests
           /\ HandleDisconnect([pc EXCEPT ![c] = "done"])
           /\ UNCHANGED retryVars
  <2>1. c \notin Loops
    BY <1>1, CoroutineAssumption
  <2>2. "done" \in RequestPCs
    BY DEF RequestPCs
  <2> QED BY <1>1, <2>1, <2>2, SetPCType, HandleDisconnectType
          DEF TypeOK, retryVars
<1>2. CASE /\ c \in Loops
           /\ attempt[c] < Delays
           /\ EnterDelay(c, attempt[c] + 1)
           /\ UNCHANGED <<state, task>>
  <2>1. c \notin Requests /\ "sleeping" \in LoopPCs
    BY <1>2, CoroutineAssumption DEF LoopPCs
  <2>2. attempt[c] + 1 \in 0..Delays
    BY <1>2, DelaysAssumption DEF TypeOK
  <2> QED BY <1>2, <2>1, <2>2, SetPCType DEF TypeOK, EnterDelay
<1>3. CASE /\ c \in Loops
           /\ attempt[c] = Delays
           /\ state' = "DISCONNECTED"
           /\ LeaveLoop(c)
           /\ UNCHANGED task
  <2>1. c \notin Requests /\ "done" \in LoopPCs
    BY <1>3, CoroutineAssumption DEF LoopPCs
  <2>2. 0 \in 0..Delays
    BY DelaysAssumption
  <2> QED BY <1>3, <2>1, <2>2, SetPCType DEF TypeOK, LeaveLoop, States
<1> QED BY <1>1, <1>2, <1>3 DEF ConnectRaises

(* A connect() step of any coroutine keeps the state well typed.            *)
LEMMA ConnectStepType ==
    ASSUME TypeOK, OwnOK, NEW c \in Coroutines, ConnectStep(c)
    PROVE  TypeOK'
<1> USE DEF TypeOK
<1>0. /\ "positions" \in LoopPCs \cap RequestPCs
      /\ "tickers" \in LoopPCs \cap RequestPCs
      /\ "contracts" \in LoopPCs \cap RequestPCs
      /\ "done" \in LoopPCs \cap RequestPCs
      /\ 0 \in 0..Delays /\ 0 \in 0..MaxPositions
  BY DelaysAssumption, MaxPositionsAssumption
     DEF LoopPCs, RequestPCs, Connecting, Streaming
<1>1. ASSUME EndConnect(c)
      PROVE  /\ own' \in [Coroutines -> Sessions \cup {None}]
             /\ left' \in [Coroutines -> 0..MaxPositions]
  BY <1>0, <1>1 DEF EndConnect
<1>2. ASSUME StreamingFails(c) PROVE TypeOK'
  BY <1>1, <1>2, ConnectRaisesType DEF StreamingFails, PCs
<1>3. CASE DialFails(c)
  BY <1>1, <1>3, ConnectRaisesType DEF DialFails, PCs
<1>4. CASE DialSucceeds(c)
  <2>1. own[c] \in Sessions
    BY <1>4 DEF DialSucceeds, OwnOK, Connecting
  <2> QED BY <1>0, <1>4, <2>1, SetPCType DEF DialSucceeds, retryVars, connectVars, PCs
<1>5. CASE PositionsArrive(c)
  BY <1>0, <1>5, SetPCType DEF PositionsArrive, retryVars, connectVars, PCs
<1>6. CASE NoQuotesWanted(c) \/ TickersArrive(c)
  <2>1. /\ UNCHANGED <<state, ib, up, hooked, task, retryVars, own, shutdown>>
        /\ pc' = [pc EXCEPT ![c] = "contracts"]
        /\ \E n \in 0..MaxPositions : left' = [left EXCEPT ![c] = n]
    BY <1>6 DEF NoQuotesWanted, TickersArrive
  <2> QED BY <1>0, <2>1, SetPCType DEF retryVars, PCs
<1>7. CASE GetPositionsRaises(c) \/ SubscribeRaises(c)
  BY <1>2, <1>7 DEF GetPositionsRaises, SubscribeRaises
<1>8. CASE SkipPosition(c) \/ SubscribePosition(c)
  <2>1. left[c] - 1 \in 0..MaxPositions
    BY <1>8, MaxPositionsAssumption DEF SkipPosition, SubscribePosition
  <2> QED BY <1>8, <2>1 DEF SkipPosition, SubscribePosition, retryVars
<1>9. CASE ConnectReturns(c)
  <2>1. /\ state' \in States
        /\ UNCHANGED <<ib, up, hooked, task, shutdown>>
        /\ EndConnect(c)
    BY <1>9 DEF ConnectReturns, States
  <2>2. /\ pc' = [pc EXCEPT ![c] = "done"]
        /\ attempt' \in [Loops -> 0..Delays]
        /\ backoff' \in 0..Delays
        /\ wakeup' \in {"none", "clear", "set"}
        /\ attached' \subseteq Loops
    BY <1>0, <1>9 DEF ConnectReturns, LeaveLoop, retryVars
  <2> QED BY <1>0, <1>1, <2>1, <2>2, SetPCType DEF PCs
<1> QED BY <1>3, <1>4, <1>5, <1>6, <1>7, <1>8, <1>9 DEF ConnectStep

LEMMA TypeInductive ==
    ASSUME TypeOK, OwnOK, [Next]_vars
    PROVE  TypeOK'
<1>0. /\ {"sleeping", "done", "dialing"} \subseteq LoopPCs
      /\ {"scheduled", "dialing"} \subseteq RequestPCs
      /\ 0 \in 0..Delays /\ 1 \in 0..Delays /\ 0 \in 0..MaxPositions
  BY DelaysAssumption, MaxPositionsAssumption
     DEF LoopPCs, RequestPCs, Connecting
<1>1. ASSUME NEW l \in Loops PROVE l \in Coroutines /\ l \notin Requests
  BY CoroutineAssumption DEF Coroutines
<1>2. ASSUME NEW r \in Requests PROVE r \in Coroutines /\ r \notin Loops
  BY CoroutineAssumption DEF Coroutines
<1>3. ASSUME NEW c \in Coroutines, IbFactory(c)
      PROVE  own' \in [Coroutines -> Sessions \cup {None}]
  <2>1. (CHOOSE s \in Unused : TRUE) \in Sessions
    BY <1>3 DEF IbFactory, Unused
  <2> QED BY <1>3, <2>1 DEF IbFactory, TypeOK
<1>4. ASSUME NEW c \in Coroutines, CoroutineStep(c) PROVE TypeOK'
  <2>1. CASE ConnectStep(c)
    BY <2>1, ConnectStepType
  <2>2. CASE c \in Loops /\ LoopStarts(c)
    BY <1>0, <1>1, <2>2, SetPCType
       DEF LoopStarts, EnterDelay, TypeOK, connectVars, PCs
  <2>3. CASE c \in Loops /\ WakesConnected(c)
    BY <1>0, <1>1, <2>3, SetPCType
       DEF WakesConnected, LeaveLoop, TypeOK, connectVars, PCs
  <2>4. CASE c \in Loops /\ WakesToDial(c)
    BY <1>0, <1>1, <1>3, <2>4, SetPCType DEF WakesToDial, TypeOK, PCs
  <2>5. CASE c \in Requests /\ Start(c)
    BY <1>0, <1>2, <1>3, <2>5, SetPCType DEF Start, TypeOK, retryVars, PCs
  <2> QED BY <1>4, <2>1, <2>2, <2>3, <2>4, <2>5 DEF CoroutineStep, LoopStep
<1>5. ASSUME NEW r \in Requests, ScheduleStart(r) PROVE TypeOK'
  BY <1>0, <1>2, <1>5, SetPCType
     DEF ScheduleStart, TypeOK, retryVars, connectVars, PCs
<1>6. CASE RetryNow
  <2>1. pc \in [Coroutines -> PCs] /\ SpawnLoop(pc)
    BY <1>6 DEF RetryNow, TypeOK, PCs
  <2> QED BY <1>6, <2>1, SpawnLoopType
          DEF RetryNow, TypeOK, States, connectVars, PCs
<1>7. ASSUME NEW s \in Sessions, Drop(s) PROVE TypeOK'
  <2>1. CASE s \in hooked
    <3>1. pc \in [Coroutines -> PCs] /\ HandleDisconnect(pc)
      BY <1>7, <2>1 DEF Drop, TypeOK, PCs
    <3> QED BY <1>7, <2>1, <3>1, HandleDisconnectType
            DEF Drop, TypeOK, retryVars, connectVars, PCs
  <2>2. CASE s \notin hooked
    BY <1>7, <2>2 DEF Drop, TypeOK, retryVars, connectVars
  <2> QED BY <2>1, <2>2
<1>8. CASE DisconnectBegins
  BY <1>8 DEF DisconnectBegins, TypeOK, connectVars
<1>9. ASSUME NEW l \in Loops, LoopCancelled(l) PROVE TypeOK'
  BY <1>0, <1>1, <1>9, SetPCType
     DEF LoopCancelled, LeaveLoop, EndConnect, TypeOK, PCs
<1>10. CASE DisconnectEnds
  BY <1>10 DEF DisconnectEnds, TypeOK, States, connectVars
<1>11. CASE UNCHANGED vars
  BY <1>11 DEF vars, TypeOK
<1> QED BY <1>4, <1>5, <1>6, <1>7, <1>8, <1>9, <1>10, <1>11
        DEF Next, DisconnectStep

(* What a spawn does to pc beside the step's own change: one loop that was  *)
(* done may become new.                                                     *)
LEMMA SpawnLoopEffect ==
    ASSUME TypeOK, NEW pcs \in [Coroutines -> PCs], SpawnLoop(pcs)
    PROVE  /\ task' \in Loops
           /\ pc'[task'] # "done"
           /\ \A c \in Coroutines :
                 pc'[c] = pcs[c] \/ (c = task' /\ pcs[c] = "done" /\ pc'[c] = "new")
           /\ task # None /\ pcs[task] # "done" => task' = task
<1>1. CASE task # None /\ pcs[task] # "done"
  BY <1>1 DEF SpawnLoop, TypeOK
<1>2. CASE ~(task # None /\ pcs[task] # "done")
  <2>1. PICK l \in Loops : /\ pcs[l] = "done"
                           /\ pc' = [pcs EXCEPT ![l] = "new"]
                           /\ task' = l
    BY <1>2 DEF SpawnLoop
  <2>2. l \in Coroutines
    BY DEF Coroutines
  <2> QED BY <1>2, <2>1, <2>2
<1> QED BY <1>1, <1>2

(* _handle_disconnect either changes nothing more or enters RECONNECTING    *)
(* with a loop at work.                                                     *)
LEMMA HandleDisconnectEffect ==
    ASSUME TypeOK, NEW pcs \in [Coroutines -> PCs], HandleDisconnect(pcs)
    PROVE  \/ /\ Disconnecting \/ state = "RECONNECTING"
              /\ pc' = pcs /\ UNCHANGED <<state, task>>
           \/ /\ ~Disconnecting
              /\ state' = "RECONNECTING" /\ SpawnLoop(pcs)
  BY DEF HandleDisconnect

LEMMA OwnInductive ==
    ASSUME TypeOK, OwnOK, [Next]_vars
    PROVE  OwnOK'
<1> USE DEF TypeOK, OwnOK, PCs
<1>0. {"done", "new", "sleeping", "scheduled"} \cap Connecting = {}
  BY DEF Connecting, Streaming
<1>1. ASSUME NEW pcs \in [Coroutines -> PCs], SpawnLoop(pcs) \/ pc' = pcs,
             NEW c \in Coroutines, pc'[c] \in Connecting
      PROVE  pcs[c] \in Connecting
  BY <1>0, <1>1, SpawnLoopEffect
<1>2. ASSUME NEW pcs \in [Coroutines -> PCs], HandleDisconnect(pcs),
             NEW c \in Coroutines, pc'[c] \in Connecting
      PROVE  pcs[c] \in Connecting
  BY <1>1, <1>2, HandleDisconnectEffect
<1>3. ASSUME NEW c \in Coroutines, ConnectRaises(c), EndConnect(c) PROVE OwnOK'
  <2>1. [pc EXCEPT ![c] = "done"] \in [Coroutines -> PCs]
    BY DEF LoopPCs
  <2>2. \A d \in Coroutines : pc'[d] \in Connecting => d # c /\ pc[d] \in Connecting
    BY <1>0, <1>2, <1>3, <2>1 DEF ConnectRaises, EnterDelay, LeaveLoop
  <2> QED BY <1>3, <2>2 DEF EndConnect
<1>4. ASSUME NEW c \in Coroutines, IbFactory(c),
             pc' = [pc EXCEPT ![c] = "dialing"]
      PROVE  OwnOK'
  <2>1. (CHOOSE s \in Unused : TRUE) \in Sessions
    BY <1>4 DEF IbFactory, Unused
  <2> QED BY <1>4, <2>1 DEF IbFactory
<1>5. ASSUME NEW c \in Coroutines, CoroutineStep(c) PROVE OwnOK'
  <2>1. CASE DialFails(c) \/ GetPositionsRaises(c) \/ SubscribeRaises(c)
    BY <1>3, <2>1
       DEF DialFails, GetPositionsRaises, SubscribeRaises, StreamingFails
  <2>2. CASE \/ DialSucceeds(c) \/ PositionsArrive(c)
             \/ NoQuotesWanted(c) \/ TickersArrive(c)
    BY <2>2 DEF DialSucceeds, PositionsArrive, NoQuotesWanted, TickersArrive, connectVars,
                Connecting, Streaming
  <2>3. CASE SkipPosition(c) \/ SubscribePosition(c)
    BY <2>3 DEF SkipPosition, SubscribePosition
  <2>4. CASE ConnectReturns(c)
    BY <1>0, <2>4 DEF ConnectReturns, LeaveLoop, EndConnect
  <2>5. CASE c \in Loops /\ (LoopStarts(c) \/ WakesConnected(c))
    BY <1>0, <2>5 DEF LoopStarts, WakesConnected, EnterDelay, LeaveLoop, connectVars
  <2>6. CASE (c \in Loops /\ WakesToDial(c)) \/ (c \in Requests /\ Start(c))
    BY <1>4, <2>6 DEF WakesToDial, Start
  <2> QED BY <1>5, <2>1, <2>2, <2>3, <2>4, <2>5, <2>6
          DEF CoroutineStep, ConnectStep, LoopStep
<1>6. ASSUME NEW r \in Requests, ScheduleStart(r) PROVE OwnOK'
  BY <1>0, <1>6 DEF ScheduleStart, connectVars
<1>7. CASE RetryNow
  BY <1>1, <1>7 DEF RetryNow, connectVars
<1>8. ASSUME NEW s \in Sessions, Drop(s) PROVE OwnOK'
  BY <1>2, <1>8 DEF Drop, connectVars
<1>9. ASSUME NEW l \in Loops, LoopCancelled(l) PROVE OwnOK'
  BY <1>0, <1>9 DEF LoopCancelled, LeaveLoop, EndConnect, Coroutines
<1>10. CASE DisconnectBegins \/ DisconnectEnds \/ UNCHANGED vars
  BY <1>10 DEF DisconnectBegins, DisconnectEnds, vars, connectVars
<1> QED BY <1>5, <1>6, <1>7, <1>8, <1>9, <1>10 DEF Next, DisconnectStep

(* The state of the adapter is always well typed: in particular the backoff *)
(* index never runs past the schedule.                                      *)
THEOREM TypeCorrect == Spec => []TypeOK
<1>1. Init => TypeOK /\ OwnOK
  <2> SUFFICES ASSUME Init PROVE TypeOK /\ OwnOK
    OBVIOUS
  <2>1. Boot \notin Loops /\ {"done", "scheduled"} \subseteq PCs
        /\ "done" \in LoopPCs /\ {"done", "scheduled"} \subseteq RequestPCs
        /\ {"done", "scheduled"} \cap Connecting = {}
    BY BootAssumption, CoroutineAssumption
       DEF PCs, LoopPCs, RequestPCs, Connecting, Streaming
  <2> QED BY <2>1, DelaysAssumption, MaxPositionsAssumption
          DEF Init, TypeOK, OwnOK, States, PCs, Coroutines
<1>2. TypeOK /\ OwnOK /\ [Next]_vars => TypeOK' /\ OwnOK'
  BY TypeInductive, OwnInductive
<1> QED BY <1>1, <1>2, PTL DEF Spec

-----------------------------------------------------------------------------
(* The reconnect loop.  AtMostOneLoop is not inductive by itself: a spawn   *)
(* looks at _reconnect_task only.  What makes it so is that the task that   *)
(* runs is always the one _reconnect_task refers to, until disconnect()     *)
(* takes the reference; from then on nothing spawns.                        *)

RunningLoopIsTask ==
    shutdown # "cancelling" => \A l \in Loops : Alive(l) => task = l

DisconnectTakesTask == Disconnecting => task = None

(* The badge's backoff is shown only while a loop counts it down.           *)
BackoffNeedsLoop == backoff # 0 => \E l \in Loops : Alive(l)

LoopInv ==
    /\ AtMostOneLoop
    /\ RunningLoopIsTask
    /\ DisconnectTakesTask
    /\ ReconnectingHasLoop
    /\ SleeperHearsRetry
    /\ BackoffNeedsLoop

(* A step that moves pc only through a spawn, or not at all, and leaves the *)
(* wakeup as useful as it was, keeps LoopInv.                               *)
LEMMA SpawnKeepsLoopInv ==
    ASSUME TypeOK, LoopInv, ~Disconnecting,
           NEW pcs \in [Coroutines -> PCs],
           \A l \in Loops : pcs[l] = pc[l],
           SpawnLoop(pcs), state' = "RECONNECTING",
           UNCHANGED <<shutdown, attached, backoff>>,
           wakeup' = wakeup \/ wakeup' = "set"
    PROVE  LoopInv'
<1> USE DEF TypeOK, LoopInv, Alive, Disconnecting, Coroutines
<1>1. /\ task' \in Loops
      /\ pc'[task'] # "done"
      /\ \A l \in Loops :
            pc'[l] = pc[l] \/ (l = task' /\ pc[l] = "done" /\ pc'[l] = "new")
      /\ task # None /\ pcs[task] # "done" => task' = task
  BY SpawnLoopEffect
<1>2. \A l \in Loops : pc'[l] # "done" => l = task'
  <2> SUFFICES ASSUME NEW l \in Loops, pc'[l] # "done", l # task'
               PROVE  FALSE
    OBVIOUS
  <2>1. pc[l] # "done"
    BY <1>1
  <2>2. task = l
    BY <2>1 DEF RunningLoopIsTask
  <2> QED BY <1>1, <2>1, <2>2, NoneAssumption
<1>3. AtMostOneLoop' /\ RunningLoopIsTask' /\ DisconnectTakesTask'
  BY <1>2 DEF AtMostOneLoop, RunningLoopIsTask, DisconnectTakesTask
<1>4. ReconnectingHasLoop'
  BY <1>1, NoneAssumption DEF ReconnectingHasLoop
<1>5. SleeperHearsRetry'
  BY <1>1 DEF SleeperHearsRetry
<1>6. BackoffNeedsLoop'
  BY <1>1 DEF BackoffNeedsLoop
<1> QED BY <1>3, <1>4, <1>5, <1>6

(* A step of a coroutine that leaves the loops' pc and the retry variables  *)
(* alone, whatever it does to the state other than entering RECONNECTING.   *)
LEMMA QuietKeepsLoopInv ==
    ASSUME TypeOK, LoopInv,
           \A l \in Loops : (pc'[l] = pc[l]) \/
               (pc[l] \notin {"done", "sleeping"} /\ pc'[l] \notin {"done", "sleeping"}),
           state' = state \/ state' # "RECONNECTING",
           UNCHANGED <<task, shutdown, wakeup, attached, backoff>>
    PROVE  LoopInv'
<1> USE DEF TypeOK, LoopInv, Alive, Disconnecting
<1>1. \A l \in Loops : (pc'[l] # "done") <=> (pc[l] # "done")
  OBVIOUS
<1>2. \A l \in Loops : (pc'[l] = "sleeping") <=> (pc[l] = "sleeping")
  OBVIOUS
<1>3. AtMostOneLoop' /\ RunningLoopIsTask' /\ DisconnectTakesTask'
  BY <1>1 DEF AtMostOneLoop, RunningLoopIsTask, DisconnectTakesTask
<1>4. ReconnectingHasLoop'
  BY <1>1, NoneAssumption DEF ReconnectingHasLoop
<1>5. SleeperHearsRetry' /\ BackoffNeedsLoop'
  BY <1>1, <1>2 DEF SleeperHearsRetry, BackoffNeedsLoop
<1> QED BY <1>3, <1>4, <1>5

(* The loop that runs ends: no other was alive, so no sleeper is orphaned.  *)
LEMMA LeaveKeepsLoopInv ==
    ASSUME TypeOK, LoopInv, NEW l \in Loops, Alive(l), LeaveLoop(l),
           UNCHANGED task,
           \/ UNCHANGED shutdown /\ state' # "RECONNECTING" /\ ~Disconnecting
           \/ shutdown = "cancelling" /\ shutdown' = "draining"
    PROVE  LoopInv'
<1> USE DEF TypeOK, LoopInv, Alive, Disconnecting, Coroutines
<1>1. \A m \in Loops : pc'[m] = "done"
  BY DEF LeaveLoop, AtMostOneLoop
<1>2. backoff' = 0
  BY DEF LeaveLoop
<1> QED BY <1>1, <1>2 DEF AtMostOneLoop, RunningLoopIsTask, DisconnectTakesTask,
           ReconnectingHasLoop, SleeperHearsRetry, BackoffNeedsLoop

(* The loop that runs goes to sleep on the current wakeup event.            *)
LEMMA DelayKeepsLoopInv ==
    ASSUME TypeOK, LoopInv, NEW l \in Loops, NEW n, Alive(l), EnterDelay(l, n),
           UNCHANGED <<state, task, shutdown>>
    PROVE  LoopInv'
<1> USE DEF TypeOK, LoopInv, Alive, Disconnecting, Coroutines
<1>1. \A m \in Loops : pc'[m] = IF m = l THEN "sleeping" ELSE pc[m]
  BY DEF EnterDelay
<1>2. AtMostOneLoop' /\ RunningLoopIsTask' /\ DisconnectTakesTask'
  BY <1>1 DEF AtMostOneLoop, RunningLoopIsTask, DisconnectTakesTask
<1>3. ReconnectingHasLoop' /\ BackoffNeedsLoop'
  BY <1>1, NoneAssumption DEF ReconnectingHasLoop, BackoffNeedsLoop
<1>4. SleeperHearsRetry'
  BY <1>1 DEF SleeperHearsRetry, EnterDelay
<1> QED BY <1>2, <1>3, <1>4

(* _handle_disconnect keeps LoopInv, whether it is ignored or spawns.       *)
LEMMA HandleDisconnectKeepsLoopInv ==
    ASSUME TypeOK, LoopInv, NEW pcs \in [Coroutines -> PCs],
           \A l \in Loops : pcs[l] = pc[l],
           HandleDisconnect(pcs), UNCHANGED <<shutdown, retryVars>>
    PROVE  LoopInv'
<1>1. CASE pc' = pcs /\ UNCHANGED <<state, task>>
  BY <1>1, QuietKeepsLoopInv DEF retryVars
<1>2. CASE ~Disconnecting /\ state' = "RECONNECTING" /\ SpawnLoop(pcs)
  BY <1>2, SpawnKeepsLoopInv DEF retryVars
<1> QED BY <1>1, <1>2, HandleDisconnectEffect

LEMMA LoopInductive ==
    ASSUME TypeOK, LoopInv, [Next]_vars
    PROVE  LoopInv'
<1>0. \A l \in Loops : l \in Coroutines /\ l \notin Requests
  BY CoroutineAssumption DEF Coroutines
<1>1. ASSUME NEW c \in Requests
      PROVE  /\ [pc EXCEPT ![c] = "done"] \in [Coroutines -> PCs]
             /\ \A l \in Loops : [pc EXCEPT ![c] = "done"][l] = pc[l]
  BY <1>0 DEF TypeOK, PCs, LoopPCs
<1>2. ASSUME NEW c \in Loops, shutdown # "cancelling", Alive(c)
      PROVE  ~Disconnecting
  BY <1>2, NoneAssumption
     DEF LoopInv, RunningLoopIsTask, DisconnectTakesTask, Disconnecting
<1>3. ASSUME NEW c \in Coroutines, pc[c] \in Connecting,
             c \in Loops => shutdown # "cancelling",
             ConnectRaises(c), UNCHANGED shutdown
      PROVE  LoopInv'
  <2>1. Alive(c)
    BY <1>3 DEF Alive, Connecting, Streaming
  <2>2. CASE c \in Requests /\ HandleDisconnect([pc EXCEPT ![c] = "done"])
             /\ UNCHANGED retryVars
    BY <1>1, <1>3, <2>2, HandleDisconnectKeepsLoopInv
  <2>3. CASE c \in Loops /\ EnterDelay(c, attempt[c] + 1) /\ UNCHANGED <<state, task>>
    BY <1>3, <2>1, <2>3, DelayKeepsLoopInv
  <2>4. CASE c \in Loops /\ state' = "DISCONNECTED" /\ LeaveLoop(c) /\ UNCHANGED task
    BY <1>2, <1>3, <2>1, <2>4, LeaveKeepsLoopInv
  <2> QED BY <1>3, <2>2, <2>3, <2>4 DEF ConnectRaises
<1>4. ASSUME NEW c \in Coroutines, CoroutineStep(c) PROVE LoopInv'
  <2>0. c \in Loops => shutdown # "cancelling"
    BY <1>4 DEF CoroutineStep
  <2>1. CASE DialFails(c) \/ GetPositionsRaises(c) \/ SubscribeRaises(c)
    BY <1>3, <2>0, <2>1
       DEF DialFails, GetPositionsRaises, SubscribeRaises, StreamingFails,
           Connecting, Streaming
  <2>2. CASE \/ DialSucceeds(c) \/ PositionsArrive(c)
             \/ NoQuotesWanted(c) \/ TickersArrive(c)
    <3>1. \A l \in Loops : (pc'[l] = pc[l]) \/
            (pc[l] \notin {"done", "sleeping"} /\ pc'[l] \notin {"done", "sleeping"})
      BY <1>0, <2>2 DEF DialSucceeds, PositionsArrive, NoQuotesWanted, TickersArrive, TypeOK
    <3>2. UNCHANGED <<state, task, shutdown, wakeup, attached, backoff>>
      BY <2>2 DEF DialSucceeds, PositionsArrive, NoQuotesWanted, TickersArrive, retryVars
    <3> QED BY <3>1, <3>2, QuietKeepsLoopInv
  <2>3. CASE SkipPosition(c) \/ SubscribePosition(c)
    BY <2>3, QuietKeepsLoopInv DEF SkipPosition, SubscribePosition, retryVars
  <2>4. CASE ConnectReturns(c)
    <3>1. CASE c \in Loops
      <4>1. Alive(c) /\ LeaveLoop(c) /\ state' # "RECONNECTING"
            /\ UNCHANGED <<task, shutdown>>
        BY <2>4, <3>1 DEF ConnectReturns, Alive
      <4> QED BY <1>2, <2>0, <3>1, <4>1, LeaveKeepsLoopInv
    <3>2. CASE c \notin Loops
      <4>1. \A l \in Loops : pc'[l] = pc[l]
        BY <1>0, <2>4, <3>2 DEF ConnectReturns, TypeOK
      <4>2. UNCHANGED <<task, shutdown, wakeup, attached, backoff>>
            /\ state' # "RECONNECTING"
        BY <2>4, <3>2 DEF ConnectReturns, retryVars
      <4> QED BY <4>1, <4>2, QuietKeepsLoopInv
    <3> QED BY <3>1, <3>2
  <2>5. CASE c \in Loops /\ LoopStarts(c)
    BY <2>5, DelayKeepsLoopInv DEF LoopStarts, Alive
  <2>6. CASE c \in Loops /\ WakesConnected(c)
    <3>1. Alive(c) /\ LeaveLoop(c) /\ state' # "RECONNECTING"
          /\ UNCHANGED <<task, shutdown>>
      BY <2>6 DEF WakesConnected, Alive
    <3> QED BY <1>2, <2>0, <2>6, <3>1, LeaveKeepsLoopInv
  <2>7. CASE c \in Loops /\ WakesToDial(c)
    <3> USE DEF TypeOK, LoopInv, Alive, Disconnecting
    <3>1. \A m \in Loops : pc'[m] = IF m = c THEN "dialing" ELSE pc[m]
      BY <1>0, <2>7 DEF WakesToDial
    <3>2. \A m \in Loops : m # c => pc[m] = "done"
      BY <2>7 DEF WakesToDial, AtMostOneLoop
    <3>3. pc[c] # "done" /\ UNCHANGED <<state, task, shutdown, backoff>>
      BY <2>7 DEF WakesToDial
    <3>4. AtMostOneLoop' /\ RunningLoopIsTask' /\ DisconnectTakesTask'
      BY <3>1, <3>2, <3>3 DEF AtMostOneLoop, RunningLoopIsTask, DisconnectTakesTask
    <3>5. ReconnectingHasLoop' /\ SleeperHearsRetry' /\ BackoffNeedsLoop'
      BY <2>7, <3>1, <3>2, <3>3, NoneAssumption
         DEF ReconnectingHasLoop, SleeperHearsRetry, BackoffNeedsLoop
    <3> QED BY <3>4, <3>5
  <2>8. CASE c \in Requests /\ Start(c)
    BY <1>0, <2>8, QuietKeepsLoopInv DEF Start, retryVars, TypeOK
  <2> QED BY <1>4, <2>1, <2>2, <2>3, <2>4, <2>5, <2>6, <2>7, <2>8
          DEF CoroutineStep, ConnectStep, LoopStep
<1>5. ASSUME NEW r \in Requests, ScheduleStart(r) PROVE LoopInv'
  BY <1>0, <1>5, QuietKeepsLoopInv DEF ScheduleStart, retryVars, TypeOK
<1>6. CASE RetryNow
  <2>1. pc \in [Coroutines -> PCs] /\ ~Disconnecting
    BY <1>6 DEF RetryNow, Serving, Disconnecting, TypeOK, PCs
  <2> QED BY <1>6, <2>1, SpawnKeepsLoopInv DEF RetryNow
<1>7. ASSUME NEW s \in Sessions, Drop(s) PROVE LoopInv'
  <2>1. CASE s \in hooked
    <3>1. pc \in [Coroutines -> PCs]
      BY DEF TypeOK, PCs
    <3> QED BY <1>7, <2>1, <3>1, HandleDisconnectKeepsLoopInv DEF Drop
  <2>2. CASE s \notin hooked
    BY <1>7, <2>2, QuietKeepsLoopInv DEF Drop, retryVars
  <2> QED BY <2>1, <2>2
<1>8. CASE DisconnectBegins
  <2> USE DEF TypeOK, LoopInv, Alive, Disconnecting
  <2>1. task' = None /\ UNCHANGED <<pc, backoff>>
        /\ shutdown' \in {"cancelling", "draining"} /\ shutdown = "running"
    BY <1>8 DEF DisconnectBegins
  <2>2. shutdown' = "draining" => \A l \in Loops : pc[l] = "done"
    BY <1>8 DEF DisconnectBegins, RunningLoopIsTask
  <2> QED BY <2>1, <2>2 DEF AtMostOneLoop, RunningLoopIsTask, DisconnectTakesTask,
             ReconnectingHasLoop, SleeperHearsRetry, BackoffNeedsLoop
<1>9. ASSUME NEW l \in Loops, LoopCancelled(l) PROVE LoopInv'
  BY <1>9, LeaveKeepsLoopInv DEF LoopCancelled
<1>10. CASE DisconnectEnds
  <2> USE DEF TypeOK, LoopInv, Alive, Disconnecting
  <2>1. UNCHANGED <<pc, task, backoff>> /\ shutdown = "draining" /\ shutdown' = "off"
        /\ state' = "DISCONNECTED"
    BY <1>10 DEF DisconnectEnds
  <2>2. \A l \in Loops : pc[l] = "done"
    BY <2>1, NoneAssumption DEF RunningLoopIsTask, DisconnectTakesTask
  <2> QED BY <2>1, <2>2 DEF AtMostOneLoop, RunningLoopIsTask, DisconnectTakesTask,
             ReconnectingHasLoop, SleeperHearsRetry, BackoffNeedsLoop
<1>11. CASE UNCHANGED vars
  BY <1>11, QuietKeepsLoopInv DEF vars
<1> QED BY <1>4, <1>5, <1>6, <1>7, <1>8, <1>9, <1>10, <1>11
        DEF Next, DisconnectStep

(* The inductive invariant of the reconnect loop holds in every behaviour.  *)
THEOREM LoopInvariant == Spec => []LoopInv
<1>1. Init => LoopInv
  <2> SUFFICES ASSUME Init PROVE LoopInv
    OBVIOUS
  <2>1. \A l \in Loops : pc[l] = "done"
    BY BootAssumption, CoroutineAssumption DEF Init, Coroutines
  <2> QED BY <2>1
          DEF Init, LoopInv, AtMostOneLoop, RunningLoopIsTask, Alive,
              DisconnectTakesTask, Disconnecting, ReconnectingHasLoop,
              SleeperHearsRetry, BackoffNeedsLoop
<1>2. TypeOK /\ LoopInv /\ [Next]_vars => LoopInv'
  BY LoopInductive
<1> QED BY <1>1, <1>2, TypeCorrect, PTL DEF Spec

(* However drops, operator retries, failed dials and a shutdown interleave, *)
(* _handle_disconnect and retry_now never leave two reconnect loops alive.  *)
THEOREM SingleReconnectLoop == Spec => []AtMostOneLoop
  BY LoopInvariant, PTL DEF LoopInv

(* RECONNECTING is never left behind without a live reconnect loop.         *)
THEOREM ReconnectingIsDriven == Spec => []ReconnectingHasLoop
  BY LoopInvariant, PTL DEF LoopInv

(* No discard of _reconnect_wakeup orphans a sleeping loop: retry_now always *)
(* sets the Event the loop waits on.                                        *)
THEOREM RetryReachesSleeper == Spec => []SleeperHearsRetry
  BY LoopInvariant, PTL DEF LoopInv

-----------------------------------------------------------------------------
(* Whichever connect() assigned _ib registered _handle_disconnect on it, and *)
(* a failing connect() that unregisters it gives up _ib in the same step.    *)
THEOREM OpenSessionIsWatched == Spec => []LiveSessionWatched
<1>1. Init => LiveSessionWatched
  BY DEF Init, LiveSessionWatched
<1>2. ASSUME TypeOK, LiveSessionWatched, [Next]_vars
      PROVE  LiveSessionWatched'
  <2> USE DEF LiveSessionWatched
  <2>0. None \notin up
    BY <1>2, NoneAssumption DEF TypeOK
  <2>1. ASSUME NEW c \in Coroutines, CoroutineStep(c) PROVE LiveSessionWatched'
    <3>1. CASE DialSucceeds(c)
      BY <3>1 DEF DialSucceeds
    <3>2. CASE GetPositionsRaises(c) \/ SubscribeRaises(c)
      BY <1>2, <2>0, <3>2 DEF GetPositionsRaises, SubscribeRaises, StreamingFails
    <3>3. CASE \/ DialFails(c) \/ PositionsArrive(c)
               \/ NoQuotesWanted(c) \/ TickersArrive(c)
               \/ SkipPosition(c) \/ SubscribePosition(c) \/ ConnectReturns(c)
      BY <1>2, <3>3 DEF DialFails, PositionsArrive, NoQuotesWanted,
                  TickersArrive, SkipPosition,
                  SubscribePosition, ConnectReturns
    <3>4. CASE LoopStarts(c) \/ WakesConnected(c) \/ WakesToDial(c) \/ Start(c)
      BY <1>2, <2>0, <3>4 DEF LoopStarts, WakesConnected, WakesToDial, Start
    <3> QED BY <2>1, <3>1, <3>2, <3>3, <3>4 DEF CoroutineStep, ConnectStep, LoopStep
  <2>2. ASSUME NEW s \in Sessions, Drop(s) PROVE LiveSessionWatched'
    BY <1>2, <2>2 DEF Drop
  <2>3. CASE DisconnectEnds
    BY <1>2, <2>0, <2>3 DEF DisconnectEnds
  <2>4. ASSUME \/ \E r \in Requests : ScheduleStart(r)
               \/ RetryNow \/ DisconnectBegins
               \/ \E l \in Loops : LoopCancelled(l)
               \/ UNCHANGED vars
        PROVE  LiveSessionWatched'
    BY <1>2, <2>4 DEF ScheduleStart, RetryNow, DisconnectBegins, LoopCancelled, vars
  <2> QED BY <1>2, <2>1, <2>2, <2>3, <2>4 DEF Next, DisconnectStep
<1> QED BY <1>1, <1>2, TypeCorrect, PTL DEF Spec

-----------------------------------------------------------------------------
(* The refinement of BrokerConnection.                                      *)

(* disconnect() begins when the callers of start() are gone, and there are  *)
(* no new ones.                                                             *)
RequestsDrained == shutdown # "running" => \A r \in Requests : ~Alive(r)

(* Nothing but a new request wakes a caller of start() that has returned.   *)
LEMMA ReturnedStay ==
    ASSUME TypeOK, NEW r \in Requests, ~Alive(r), Next, ~ScheduleStart(r)
    PROVE  ~Alive(r)'
<1> USE DEF TypeOK, Alive, PCs
<1>0. r \in Coroutines /\ r \notin Loops /\ Loops \subseteq Coroutines
  BY CoroutineAssumption DEF Coroutines
<1>1. ASSUME NEW pcs \in [Coroutines -> PCs], pcs[r] = "done",
             HandleDisconnect(pcs) \/ SpawnLoop(pcs)
      PROVE  pc'[r] = "done"
  BY <1>0, <1>1 DEF HandleDisconnect, SpawnLoop
<1>2. ASSUME NEW c \in Coroutines, CoroutineStep(c) PROVE pc'[r] = "done"
  <2>1. CASE DialFails(c) \/ GetPositionsRaises(c) \/ SubscribeRaises(c)
    <3>1. ConnectRaises(c)
      BY <2>1 DEF DialFails, GetPositionsRaises, SubscribeRaises, StreamingFails
    <3>2. [pc EXCEPT ![c] = "done"] \in [Coroutines -> PCs]
          /\ [pc EXCEPT ![c] = "done"][r] = "done"
      BY <1>0 DEF LoopPCs
    <3>3. CASE c \in Requests /\ HandleDisconnect([pc EXCEPT ![c] = "done"])
      BY <1>1, <3>2, <3>3
    <3>4. CASE c \in Loops /\ (EnterDelay(c, attempt[c] + 1) \/ LeaveLoop(c))
      BY <1>0, <3>4 DEF EnterDelay, LeaveLoop
    <3> QED BY <3>1, <3>3, <3>4 DEF ConnectRaises
  <2>2. CASE \/ DialSucceeds(c) \/ PositionsArrive(c) \/ NoQuotesWanted(c)
             \/ TickersArrive(c) \/ SkipPosition(c) \/ SubscribePosition(c)
             \/ ConnectReturns(c)
    BY <1>0, <2>2 DEF DialSucceeds, PositionsArrive, NoQuotesWanted, TickersArrive,
                      SkipPosition, SubscribePosition, ConnectReturns, LeaveLoop
  <2>3. CASE c \in Loops /\ LoopStep(c)
    BY <1>0, <2>3 DEF LoopStep, LoopStarts, WakesConnected, WakesToDial, EnterDelay,
                      LeaveLoop
  <2>4. CASE Start(c)
    BY <1>0, <2>4 DEF Start
  <2> QED BY <1>2, <2>1, <2>2, <2>3, <2>4 DEF CoroutineStep, ConnectStep
<1>3. ASSUME NEW q \in Requests, ScheduleStart(q) PROVE pc'[r] = "done"
  <2>1. q # r
    BY <1>3
  <2> QED BY <1>3, <2>1 DEF ScheduleStart, Coroutines
<1>4. CASE RetryNow \/ \E s \in Sessions : Drop(s)
  BY <1>0, <1>1, <1>4 DEF RetryNow, Drop
<1>5. CASE DisconnectBegins \/ DisconnectStep
  BY <1>0, <1>5 DEF DisconnectBegins, DisconnectStep, LoopCancelled, DisconnectEnds,
                    LeaveLoop
<1> QED BY <1>2, <1>3, <1>4, <1>5 DEF Next

LEMMA RequestsDrainedInductive ==
    ASSUME TypeOK, RequestsDrained, [Next]_vars
    PROVE  RequestsDrained'
<1>1. CASE UNCHANGED vars
  BY <1>1 DEF RequestsDrained, Alive, vars
<1>2. CASE Next /\ shutdown # "running"
  <2>1. \A r \in Requests : ~Alive(r) /\ ~ScheduleStart(r)
    BY <1>2 DEF RequestsDrained, ScheduleStart, Serving
  <2> QED BY <1>2, <2>1, ReturnedStay DEF RequestsDrained, Alive
<1>3. CASE Next /\ shutdown = "running" /\ shutdown' # "running"
  <2>1. DisconnectBegins
    <3>1. ASSUME NEW c \in Coroutines, CoroutineStep(c) PROVE UNCHANGED shutdown
      BY <3>1 DEF CoroutineStep, ConnectStep, LoopStep, DialFails, DialSucceeds,
           PositionsArrive, NoQuotesWanted, TickersArrive, GetPositionsRaises,
           SkipPosition, SubscribePosition, SubscribeRaises, StreamingFails,
           ConnectReturns, LoopStarts, WakesConnected, WakesToDial, Start
    <3> QED BY <1>3, <3>1 DEF Next, DisconnectStep, ScheduleStart, RetryNow, Drop,
                              LoopCancelled, DisconnectEnds
  <2> QED BY <2>1 DEF DisconnectBegins, RequestsDrained, Alive
<1> QED BY <1>1, <1>2, <1>3 DEF RequestsDrained

(* Five ways in which a step looks like one of the abstract connection.     *)
LEMMA StepForms ==
    ASSUME \/ UNCHANGED state /\ Busy'
           \/ UNCHANGED state /\ state # "RECONNECTING"
           \/ state' = "RECONNECTING" /\ Busy'
           \/ Busy /\ state' \in {"CONNECTED", "DISCONNECTED"}
           \/ UNCHANGED <<state, pc, shutdown>>
    PROVE  [Connection!Next]_<<state, Busy>>
<1>1. CASE UNCHANGED state /\ Busy'
  BY <1>1 DEF Connection!Next, Connection!Begins
<1>2. CASE UNCHANGED state /\ state # "RECONNECTING"
  <2>1. CASE Busy'
    BY <1>2, <2>1 DEF Connection!Next, Connection!Begins
  <2>2. CASE ~Busy'
    BY <1>2, <2>2 DEF Connection!Next, Connection!Ends
  <2> QED BY <2>1, <2>2
<1>3. CASE state' = "RECONNECTING" /\ Busy'
  BY <1>3 DEF Connection!Next, Connection!Loses
<1>4. CASE Busy /\ state' \in {"CONNECTED", "DISCONNECTED"}
  <2>1. Busy' \in BOOLEAN
    BY DEF Busy, Disconnecting
  <2> QED BY <1>4, <2>1 DEF Connection!Next, Connection!Connects, Connection!GivesUp
<1>5. CASE UNCHANGED <<state, pc, shutdown>>
  BY <1>5 DEF Busy, Disconnecting, Alive
<1> QED BY <1>1, <1>2, <1>3, <1>4, <1>5

(* _handle_disconnect, called by somebody who may return in this very step: *)
(* it leaves a loop at work or a state that needs none.                     *)
LEMMA HandleDisconnectRefines ==
    ASSUME TypeOK, LoopInv, NEW pcs \in [Coroutines -> PCs],
           \A l \in Loops : pcs[l] = pc[l],
           HandleDisconnect(pcs), UNCHANGED shutdown,
           shutdown = "off" => pcs = pc
    PROVE  [Connection!Next]_<<state, Busy>>
<1>0. Loops \subseteq Coroutines
  BY DEF Coroutines
<1>1. CASE Disconnecting /\ UNCHANGED state
  <2>1. Busy'
    BY <1>1 DEF Busy, Disconnecting
  <2> QED BY <1>1, <2>1, StepForms
<1>2. CASE ~Disconnecting /\ state = "RECONNECTING" /\ pc' = pcs /\ UNCHANGED state
  <2>1. CASE shutdown = "off"
    BY <1>2, <2>1, StepForms
  <2>2. CASE shutdown = "running"
    <3>1. task \in Loops /\ pc'[task] # "done"
      BY <1>2, <2>2 DEF LoopInv, ReconnectingHasLoop, Alive, TypeOK
    <3>2. Busy'
      BY <1>0, <3>1 DEF Busy, Alive
    <3> QED BY <1>2, <3>2, StepForms
  <2> QED BY <1>2, <2>1, <2>2 DEF TypeOK, Disconnecting
<1>3. CASE state' = "RECONNECTING" /\ SpawnLoop(pcs)
  <2>1. task' \in Loops /\ pc'[task'] # "done"
    BY <1>3, SpawnLoopEffect
  <2>2. Busy'
    BY <1>0, <2>1 DEF Busy, Alive
  <2> QED BY <1>3, <2>2, StepForms
<1> QED BY <1>1, <1>2, <1>3, HandleDisconnectEffect

(* Every step of the adapter is one of the abstract connection.             *)
LEMMA StepRefines ==
    ASSUME TypeOK, LoopInv, RequestsDrained, [Next]_vars
    PROVE  [Connection!Next]_<<state, Busy>>
<1> USE DEF TypeOK
<1>0. Loops \subseteq Coroutines /\ Requests \subseteq Coroutines
      /\ \A l \in Loops : l \notin Requests
  BY CoroutineAssumption DEF Coroutines
<1>1. ASSUME NEW c \in Coroutines, CoroutineStep(c)
      PROVE  [Connection!Next]_<<state, Busy>>
  <2>0. Alive(c) /\ Busy
    <3>1. Alive(c)
      BY <1>1 DEF CoroutineStep, ConnectStep, LoopStep, DialFails, DialSucceeds,
         PositionsArrive, NoQuotesWanted, TickersArrive, GetPositionsRaises,
         SkipPosition, SubscribePosition, SubscribeRaises, ConnectReturns,
         LoopStarts, WakesConnected, WakesToDial, Start, Alive
    <3> QED BY <3>1 DEF Busy
  <2>1. CASE DialFails(c) \/ GetPositionsRaises(c) \/ SubscribeRaises(c)
    <3>1. ConnectRaises(c) /\ UNCHANGED shutdown
      BY <2>1 DEF DialFails, GetPositionsRaises, SubscribeRaises, StreamingFails
    <3>2. CASE c \in Requests /\ HandleDisconnect([pc EXCEPT ![c] = "done"])
      <4>1. shutdown = "running"
        BY <2>0, <3>2 DEF RequestsDrained
      <4>2. [pc EXCEPT ![c] = "done"] \in [Coroutines -> PCs]
            /\ \A l \in Loops : [pc EXCEPT ![c] = "done"][l] = pc[l]
        BY <1>0, <3>2 DEF PCs, LoopPCs
      <4> QED BY <3>1, <3>2, <4>1, <4>2, HandleDisconnectRefines
    <3>3. CASE c \in Loops /\ EnterDelay(c, attempt[c] + 1) /\ UNCHANGED state
      <4>1. pc'[c] # "done"
        BY <3>3 DEF EnterDelay
      <4>2. Busy'
        BY <4>1 DEF Busy, Alive
      <4> QED BY <3>3, <4>2, StepForms
    <3>4. CASE state' = "DISCONNECTED"
      BY <2>0, <3>4, StepForms
    <3> QED BY <3>1, <3>2, <3>3, <3>4 DEF ConnectRaises
  <2>2. CASE \/ DialSucceeds(c) \/ PositionsArrive(c) \/ NoQuotesWanted(c)
             \/ TickersArrive(c) \/ SkipPosition(c) \/ SubscribePosition(c)
             \/ c \in Loops /\ (LoopStarts(c) \/ WakesToDial(c))
             \/ c \in Requests /\ Start(c)
    <3>1. pc'[c] # "done" /\ UNCHANGED state
      BY <2>2 DEF DialSucceeds, PositionsArrive, NoQuotesWanted, TickersArrive,
                  SkipPosition, SubscribePosition, LoopStarts, WakesToDial, Start,
                  EnterDelay
    <3>2. Busy'
      BY <3>1 DEF Busy, Alive
    <3> QED BY <3>1, <3>2, StepForms
  <2>3. CASE ConnectReturns(c)
    BY <2>0, <2>3, StepForms DEF ConnectReturns
  <2>4. CASE WakesConnected(c)
    BY <2>4, StepForms DEF WakesConnected
  <2> QED BY <1>1, <2>1, <2>2, <2>3, <2>4 DEF CoroutineStep, ConnectStep, LoopStep
<1>2. ASSUME NEW r \in Requests, ScheduleStart(r)
      PROVE  [Connection!Next]_<<state, Busy>>
  BY <1>2, StepForms DEF ScheduleStart
<1>3. CASE RetryNow
  <2>1. task' \in Loops /\ pc'[task'] # "done" /\ state' = "RECONNECTING"
    BY <1>3, SpawnLoopEffect DEF RetryNow, PCs
  <2>2. Busy'
    BY <1>0, <2>1 DEF Busy, Alive
  <2> QED BY <2>1, <2>2, StepForms
<1>4. ASSUME NEW s \in Sessions, Drop(s)
      PROVE  [Connection!Next]_<<state, Busy>>
  <2>1. CASE s \in hooked
    <3>1. pc \in [Coroutines -> PCs]
      BY DEF PCs
    <3> QED BY <1>4, <2>1, <3>1, HandleDisconnectRefines DEF Drop
  <2>2. CASE s \notin hooked
    BY <1>4, <2>2, StepForms DEF Drop
  <2> QED BY <2>1, <2>2
<1>5. CASE DisconnectBegins \/ \E l \in Loops : LoopCancelled(l)
  <2>1. UNCHANGED state /\ shutdown' \in {"cancelling", "draining"}
    BY <1>5 DEF DisconnectBegins, LoopCancelled
  <2>2. Busy'
    BY <2>1 DEF Busy, Disconnecting
  <2> QED BY <2>1, <2>2, StepForms
<1>6. CASE DisconnectEnds
  <2>1. Busy /\ state' = "DISCONNECTED"
    BY <1>6 DEF DisconnectEnds, Busy, Disconnecting
  <2> QED BY <2>1, StepForms
<1>7. CASE UNCHANGED vars
  BY <1>7, StepForms DEF vars
<1> QED BY <1>1, <1>2, <1>3, <1>4, <1>5, <1>6, <1>7 DEF Next, DisconnectStep

(* What connect(), the reconnect loop, retry_now, drops and disconnect() do *)
(* to _connection_state is, step by step, what an abstract connection may   *)
(* do: it is reported made or given up by somebody at work, and nobody      *)
(* leaves RECONNECTING behind.                                              *)
THEOREM RefinesBroker == Spec => Connection!Safety
<1>1. Init => Connection!Init /\ RequestsDrained
  <2> SUFFICES ASSUME Init PROVE Connection!Init /\ RequestsDrained
    OBVIOUS
  <2>1. Boot \in Coroutines /\ pc[Boot] # "done"
    BY BootAssumption DEF Init, Coroutines
  <2>2. Busy
    BY <2>1 DEF Busy, Alive
  <2>3. Busy = TRUE
    BY <2>2 DEF Busy, Disconnecting
  <2> QED BY <2>3 DEF Init, Connection!Init, RequestsDrained
<1>2. TypeOK /\ RequestsDrained /\ [Next]_vars => RequestsDrained'
  BY RequestsDrainedInductive
<1>3. TypeOK /\ LoopInv /\ RequestsDrained /\ [Next]_vars
        => [Connection!Next]_<<state, Busy>>
  BY StepRefines
<1> QED BY <1>1, <1>2, <1>3, TypeCorrect, LoopInvariant, PTL
        DEF Spec, Connection!Safety
=============================================================================
