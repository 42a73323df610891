---------------------- MODULE SnapshotSchedulerProofs ----------------------
(***************************************************************************)
(* Proofs about SnapshotScheduler, for any exchanges, calendar, latency    *)
(* and horizon: no close is captured twice as long as the pause after a    *)
(* capture is at least twice what a sleep may be early by, and none that   *)
(* was seen coming is passed over if any two closes are further apart than *)
(* the loop is busy after a capture.  And about MarketHours: what its      *)
(* operators say of an exchange agrees with all its sessions.              *)
(***************************************************************************)
EXTENDS SnapshotScheduler, WellFoundedInduction, TLAPS

(* What pending closes are: strictly after now, on an exchange seen.        *)
LEMMA PendingType ==
    ASSUME NEW seen \in SUBSET Exchanges, NEW c \in Pending(seen)
    PROVE  c \in Exchanges \X Nat /\ c[2] > now
  <1>1. PICK e \in seen : c \in {e} \X NextCloseAt(e, now)
    BY DEF Pending
  <1>2. \A d \in DOMAIN Schedule[e] : Schedule[e][d].close \in Nat
    BY ScheduleAssumption DEF Session
  <1>3. NextCloseAt(e, now) \subseteq {t \in Nat : t > now}
    BY <1>2 DEF NextCloseAt, ClosesAhead
  <1> QED
    BY <1>1, <1>3

LEMMA SoonestType ==
    ASSUME NEW seen \in SUBSET Exchanges, NEW c \in Soonest(seen)
    PROVE  c \in Exchanges \X Nat /\ c[2] > now
  BY PendingType DEF Soonest

(* Every step keeps every variable of its type.                             *)
LEMMA TypeStep == ASSUME TypeOK, [Next]_vars PROVE TypeOK'
  <1> USE TimeAssumption
  <1>1. CASE PositionsFetched
    <2>1. PICK seen \in SUBSET held : Decide(seen)
      BY <1>1 DEF PositionsFetched
    <2>2. seen \in SUBSET Exchanges
      BY DEF TypeOK
    <2>3. due' \subseteq Exchanges \X Nat
      BY <2>1, <2>2, PendingType DEF Decide
    <2>4. CASE Soonest(seen) = {} /\ pc' = "empty" /\ wakeAt' = now + emptyDelay
                 /\ UNCHANGED target
      BY <2>1, <2>3, <2>4 DEF TypeOK, Decide, Times
    <2>5. ASSUME NEW c \in Soonest(seen), target' = c, wakeAt' = c[2],
                 pc' = "sleeping"
          PROVE  TypeOK'
      <3>1. c \in Exchanges \X Nat
        BY <2>2, SoonestType
      <3>2. wakeAt' \in Nat /\ target' \in Exchanges \X Nat
        BY <2>5, <3>1
      <3> QED
        BY <2>1, <2>3, <2>5, <3>2 DEF TypeOK, Decide
    <2> QED
      BY <2>1, <2>4, <2>5 DEF Decide
  <1>2. CASE RecheckEmpty
    BY <1>2 DEF TypeOK, RecheckEmpty, Times
  <1>3. CASE CloseReached
    BY <1>3 DEF TypeOK, CloseReached, Times
  <1>4. CASE InsertSnapshot
    BY <1>4 DEF TypeOK, InsertSnapshot
  <1>5. CASE CaptureReturns
    BY <1>5 DEF TypeOK, CaptureReturns, Times
  <1>6. CASE PauseEnds
    BY <1>6 DEF TypeOK, PauseEnds, Times
  <1>7. CASE Tick
    BY <1>7 DEF TypeOK, Tick, Times, loopVars
  <1>8. CASE Trade
    BY <1>8 DEF TypeOK, Trade, loopVars
  <1>9. CASE UNCHANGED vars
    BY <1>9 DEF TypeOK, vars, loopVars
  <1> QED
    BY <1>1, <1>2, <1>3, <1>4, <1>5, <1>6, <1>7, <1>8, <1>9
    DEF Next, LoopStep

(* Every variable of the scheduler keeps its type.                          *)
THEOREM TypeCorrect == Spec => []TypeOK
  <1>1. Init => TypeOK
    BY TimeAssumption DEF Init, TypeOK, Times
  <1> QED
    BY <1>1, TypeStep, PTL DEF Spec

-----------------------------------------------------------------------------
(* Where the closes attempted so far lie.  A capture may begin Skew before  *)
(* its close; by the end of the pause the close has passed, so that the     *)
(* next close is another one.                                               *)
CapturedArePast ==
    /\ \A c \in attempted : c[2] <= now + Skew
    /\ pc = "pausing" => \A c \in attempted : c[2] + Pause <= wakeAt + Skew
    /\ pc \in {"fetching", "empty", "sleeping"} =>
          \A c \in attempted : c[2] <= now
    /\ pc = "sleeping" => /\ wakeAt = target[2]
                          /\ \A c \in attempted : c[2] < target[2]

CaptureInv == TypeOK /\ CapturedArePast

LEMMA CaptureStep == ASSUME CaptureInv, [Next]_vars PROVE CaptureInv'
  <1> USE TimeAssumption, PauseAssumption
  <1>0. TypeOK /\ TypeOK' /\ CapturedArePast
    BY TypeStep DEF CaptureInv
  <1>a. now \in Nat /\ wakeAt \in Nat /\ \A c \in attempted : c[2] \in Nat
    BY <1>0 DEF TypeOK, Times
  <1> SUFFICES CapturedArePast'
    BY <1>0 DEF CaptureInv
  <1>1. CASE PositionsFetched
    <2>1. PICK seen \in SUBSET held : Decide(seen)
      BY <1>1 DEF PositionsFetched
    <2>2. seen \in SUBSET Exchanges /\ pc = "fetching"
      BY <1>0, <1>1 DEF TypeOK, PositionsFetched
    <2>3. ASSUME NEW c \in Soonest(seen), target' = c, wakeAt' = c[2],
                 pc' = "sleeping"
          PROVE  CapturedArePast'
      <3>1. c[2] \in Nat /\ c[2] > now
        BY <2>2, SoonestType
      <3> QED
        BY <1>0, <1>a, <2>1, <2>2, <2>3, <3>1 DEF CapturedArePast, Decide
    <2>4. CASE pc' = "empty"
      BY <1>0, <1>a, <2>1, <2>2, <2>4 DEF CapturedArePast, Decide
    <2> QED
      BY <2>1, <2>3, <2>4 DEF Decide
  <1>2. CASE RecheckEmpty
    BY <1>0, <1>a, <1>2 DEF CapturedArePast, RecheckEmpty
  <1>3. CASE CloseReached
    <2>1. target[2] = wakeAt /\ wakeAt <= now + Skew
      BY <1>0, <1>a, <1>3 DEF CapturedArePast, CloseReached
    <2> QED
      BY <1>0, <1>a, <1>3, <2>1 DEF CapturedArePast, CloseReached
  <1>4. CASE InsertSnapshot
    BY <1>0, <1>a, <1>4 DEF CapturedArePast, InsertSnapshot
  <1>5. CASE CaptureReturns
    <2>1. \A c \in attempted : c[2] + Pause <= wakeAt' + Skew
      BY <1>0, <1>a, <1>5 DEF CapturedArePast, CaptureReturns
    <2> QED
      BY <1>0, <1>5, <2>1 DEF CapturedArePast, CaptureReturns
  <1>6. CASE PauseEnds
    <2>1. ASSUME NEW c \in attempted PROVE c[2] <= now
      <3>1. c[2] + Pause <= wakeAt + Skew /\ wakeAt <= now + Skew
        BY <1>0, <1>a, <1>6 DEF CapturedArePast, PauseEnds
      <3> QED
        BY <1>a, <3>1
    <2> QED
      BY <1>0, <1>6, <2>1 DEF CapturedArePast, PauseEnds
  <1>7. CASE Tick
    <2>1. now' = now + 1
      BY <1>7 DEF Tick
    <2> QED
      BY <1>0, <1>a, <1>7, <2>1 DEF CapturedArePast, Tick, loopVars
  <1>8. CASE Trade \/ UNCHANGED vars
    BY <1>0, <1>8 DEF CapturedArePast, Trade, loopVars, vars
  <1> QED
    BY <1>1, <1>2, <1>3, <1>4, <1>5, <1>6, <1>7, <1>8 DEF Next, LoopStep

(* The loop never captures a close it has captured before, although it may  *)
(* wake before that close by the wall clock.                                *)
THEOREM CapturedOnce == Spec => NoCloseTwice
  <1>1. Init => CaptureInv
    BY TimeAssumption DEF Init, CaptureInv, CapturedArePast, TypeOK, Times
  <1>2. CaptureInv =>
          (pc = "sleeping" /\ pc' = "capturing" => target \notin attempted)
    <2> SUFFICES ASSUME CaptureInv, pc = "sleeping", target \in attempted
                 PROVE  FALSE
      OBVIOUS
    <2>1. target[2] \in Nat /\ target[2] < target[2]
      BY DEF CaptureInv, CapturedArePast, TypeOK
    <2> QED
      BY <2>1
  <1> QED
    BY <1>1, <1>2, CaptureStep, PTL DEF Spec, NoCloseTwice

-----------------------------------------------------------------------------
(* No close that was seen coming is overlooked.                             *)

(* A set of natural numbers has a least element.                            *)
LEMMA LeastNatural ==
    ASSUME NEW T \in SUBSET Nat, T # {}
    PROVE  \E x \in T : \A y \in T : x =< y
  <1> DEFINE R == OpToRel(<, Nat)
  <1>1. IsWellFoundedOn(R, Nat)
    BY NatLessThanWellFounded
  <1>2. \A x, y \in Nat : y < x => <<y, x>> \in R
    BY DEF OpToRel
  <1> HIDE DEF R
  <1>3. PICK x \in T : \A y \in T : ~ (<<y, x>> \in R)
    BY <1>1, WFMin
  <1>4. ASSUME NEW y \in T PROVE x =< y
    <2>1. x \in Nat /\ y \in Nat /\ ~ (<<y, x>> \in R)
      BY <1>3
    <2>2. ~ (y < x)
      BY <1>2, <2>1
    <2> QED
      BY <2>1, <2>2
  <1> QED
    BY <1>4

(* The loop finds a close to wait for whenever an exchange it saw has one.  *)
LEMMA SoonestExists ==
    ASSUME NEW seen \in SUBSET Exchanges, Pending(seen) # {}
    PROVE  Soonest(seen) # {}
  <1> DEFINE times == {c[2] : c \in Pending(seen)}
  <1>1. times \in SUBSET Nat /\ times # {}
    BY PendingType
  <1>2. PICK t \in times : \A u \in times : t =< u
    BY <1>1, LeastNatural
  <1>3. PICK c \in Pending(seen) : c[2] = t
    BY <1>2
  <1>4. \A d \in Pending(seen) : c[2] =< d[2]
    BY <1>2, <1>3
  <1> QED
    BY <1>3, <1>4 DEF Soonest

(* A pending close is the close of a session.                               *)
LEMMA PendingOfSchedule ==
    ASSUME NEW seen \in SUBSET Exchanges, NEW c \in Pending(seen)
    PROVE  /\ c = <<c[1], c[2]>> /\ c[1] \in Exchanges
           /\ \E d \in DOMAIN Schedule[c[1]] : c[2] = Schedule[c[1]][d].close
  <1>1. PICK e \in seen : c \in {e} \X NextCloseAt(e, now)
    BY DEF Pending
  <1>2. c[1] = e /\ c[2] \in NextCloseAt(e, now) /\ c = <<c[1], c[2]>>
    BY <1>1
  <1> QED
    BY <1>2 DEF NextCloseAt, ClosesAhead

LEMMA PendingApart ==
    ASSUME ClosesApart, NEW seen \in SUBSET Exchanges,
           NEW c \in Pending(seen), NEW d \in Pending(seen), c[2] =< d[2]
    PROVE  d = c \/ c[2] + 2 * Latency + Pause < d[2]
  <1>1. PICK x \in DOMAIN Schedule[c[1]] : c[2] = Schedule[c[1]][x].close
    BY PendingOfSchedule
  <1>2. PICK y \in DOMAIN Schedule[d[1]] : d[2] = Schedule[d[1]][y].close
    BY PendingOfSchedule
  <1>3. /\ c[1] \in Exchanges /\ d[1] \in Exchanges
        /\ c = <<c[1], c[2]>> /\ d = <<d[1], d[2]>>
    BY PendingOfSchedule
  <1>4. CASE c[1] = d[1] /\ x = y
    BY <1>1, <1>2, <1>3, <1>4
  <1>5. CASE ~(c[1] = d[1] /\ x = y)
    BY <1>1, <1>2, <1>3, <1>5 DEF ClosesApart
  <1> QED
    BY <1>4, <1>5

(* The other closes the last fetch has seen are out of the reach of what    *)
(* the loop does next, which ends when it says.                             *)
OthersLater ==
    \A c \in due : c = target \/ target[2] + 2 * Latency + Pause < c[2]

DueCovered ==
    /\ now =< wakeAt
    /\ pc = "empty" => due = {}
    /\ pc = "sleeping" => wakeAt = target[2] /\ OthersLater
    /\ pc = "capturing" => /\ target \in attempted /\ OthersLater
                           /\ wakeAt =< target[2] + Latency
    /\ pc = "pausing" => /\ target \in attempted /\ OthersLater
                         /\ wakeAt =< target[2] + Latency + Pause
    /\ pc = "fetching" => \/ due = {}
                          \/ /\ target \in attempted /\ OthersLater
                             /\ wakeAt =< target[2] + 2 * Latency + Pause

LEMMA DueStep ==
    ASSUME ClosesApart, TypeOK, DueCovered, [Next]_vars PROVE DueCovered'
  <1> USE TimeAssumption
  <1>a. /\ now \in Nat /\ wakeAt \in Nat /\ emptyDelay \in Nat
        /\ \A c \in attempted \cup due : c[2] \in Nat
    BY DEF TypeOK, Times
  <1>b. pc \in {"sleeping", "capturing"} => target[2] \in Nat
    BY DEF TypeOK
  <1>1. CASE PositionsFetched
    <2>1. PICK seen \in SUBSET held : Decide(seen)
      BY <1>1 DEF PositionsFetched
    <2>2. seen \in SUBSET Exchanges
      BY DEF TypeOK
    <2>3. CASE Soonest(seen) = {} /\ pc' = "empty" /\ wakeAt' = now + emptyDelay
      <3>1. due' = {}
        BY <2>1, <2>2, <2>3, SoonestExists DEF Decide
      <3> QED
        BY <1>a, <2>1, <2>3, <3>1 DEF DueCovered, Decide
    <2>4. ASSUME NEW c \in Soonest(seen), target' = c, wakeAt' = c[2],
                 pc' = "sleeping"
          PROVE  DueCovered'
      <3>1. c \in Pending(seen) /\ \A d \in Pending(seen) : c[2] =< d[2]
        BY DEF Soonest
      <3>2. c[2] \in Nat /\ c[2] > now
        BY <2>2, <3>1, PendingType
      <3>3. OthersLater'
        BY <2>1, <2>2, <2>4, <3>1, PendingApart DEF OthersLater, Decide
      <3> QED
        BY <1>a, <2>1, <2>4, <3>2, <3>3 DEF DueCovered, Decide
    <2> QED
      BY <2>1, <2>3, <2>4 DEF Decide
  <1>2. CASE RecheckEmpty
    BY <1>a, <1>2 DEF DueCovered, RecheckEmpty
  <1>3. CASE CloseReached
    <2>1. target \in attempted' /\ wakeAt' = now + Latency /\ now =< target[2]
      BY <1>a, <1>3 DEF DueCovered, CloseReached
    <2> QED
      BY <1>a, <1>b, <1>3, <2>1 DEF DueCovered, OthersLater, CloseReached
  <1>4. CASE InsertSnapshot
    BY <1>4 DEF DueCovered, OthersLater, InsertSnapshot
  <1>5. CASE CaptureReturns
    BY <1>a, <1>b, <1>5 DEF DueCovered, OthersLater, CaptureReturns
  <1>6. CASE PauseEnds
    <2>1. target[2] \in Nat
      BY <1>a, <1>6 DEF DueCovered, PauseEnds
    <2> QED
      BY <1>a, <1>6, <2>1 DEF DueCovered, OthersLater, PauseEnds
  <1>7. CASE Tick
    BY <1>a, <1>7 DEF DueCovered, OthersLater, Tick, loopVars
  <1>8. CASE Trade \/ UNCHANGED vars
    BY <1>8 DEF DueCovered, OthersLater, Trade, loopVars, vars
  <1> QED
    BY <1>1, <1>2, <1>3, <1>4, <1>5, <1>6, <1>7, <1>8 DEF Next, LoopStep

(* When the loop starts over, a capture was attempted for the close of      *)
(* every exchange that its last fetch had seen coming and that has passed,  *)
(* for any calendar whose closes are far enough apart, any latency and any  *)
(* trades.                                                                  *)
THEOREM SeenClosesAreAttempted == ClosesApart => (Spec => []NoCloseOverlooked)
  <1> SUFFICES ASSUME ClosesApart PROVE Spec => []NoCloseOverlooked
    OBVIOUS
  <1>1. Init => DueCovered
    BY TimeAssumption DEF Init, DueCovered
  <1>2. TypeOK /\ DueCovered /\ [Next]_vars => DueCovered'
    BY DueStep
  <1>3. TypeOK /\ DueCovered => NoCloseOverlooked
    <2> SUFFICES ASSUME TypeOK, DueCovered, pc = "fetching",
                        NEW c \in due, c[2] =< now
                 PROVE  c \in attempted
      BY DEF NoCloseOverlooked
    <2>1. target \in attempted /\ OthersLater
            /\ wakeAt =< target[2] + 2 * Latency + Pause
      BY DEF DueCovered
    <2>2. /\ now \in Nat /\ wakeAt \in Nat /\ c[2] \in Nat /\ target[2] \in Nat
          /\ now =< wakeAt
      BY <2>1 DEF TypeOK, Times, DueCovered
    <2>3. c = target
      BY <2>1, <2>2, TimeAssumption DEF OthersLater
    <2> QED
      BY <2>1, <2>3
  <1> QED
    BY <1>1, <1>2, <1>3, TypeCorrect, PTL DEF Spec

-----------------------------------------------------------------------------
(* The market rail, for any calendar whose sessions lie within their local  *)
(* dates.                                                                   *)

LEMMA DivMonotone ==
    ASSUME NEW m \in Nat \ {0}, NEW a \in Int, NEW b \in Int, a =< b
    PROVE  a \div m \in Int /\ a \div m =< b \div m
  OBVIOUS

LEMMA DivShifted ==
    ASSUME NEW m \in Nat \ {0}, NEW a \in Int, NEW k \in Int, -m =< k
    PROVE  (a \div m) - 1 =< (a + k) \div m /\ a \div m \in Int
  OBVIOUS

(* Later times have later local dates.                                      *)
LEMMA LocalDates ==
    ASSUME RegularCalendar, NEW e \in Exchanges
    PROVE  /\ \A t \in Int : LocalDate(e, t) \in Int
           /\ \A t, u \in Int : t =< u => LocalDate(e, t) =< LocalDate(e, u)
  <1>1. Offset[e] \in Int /\ DayLength \in Nat \ {0}
    BY DEF RegularCalendar
  <1>2. ASSUME NEW t \in Int, NEW u \in Int, t =< u
        PROVE  LocalDate(e, t) \in Int /\ LocalDate(e, t) =< LocalDate(e, u)
    <2>1. t + Offset[e] \in Int /\ u + Offset[e] \in Int
            /\ t + Offset[e] =< u + Offset[e]
      BY <1>1, <1>2
    <2> QED
      BY <1>1, <2>1, DivMonotone DEF LocalDate
  <1> QED
    BY <1>2

LEMMA SessionFacts ==
    ASSUME RegularCalendar, NEW e \in Exchanges, NEW d \in DOMAIN Schedule[e],
           NEW s, s = Schedule[e][d]
    PROVE  /\ d \in Int /\ s.open \in Int /\ s.close \in Int
           /\ s.breakStart \in Int /\ s.breakEnd \in Int
           /\ s.open < s.close
           /\ s.breakStart < s.breakEnd =>
                 s.open =< s.breakStart /\ s.breakEnd =< s.close
           /\ LocalDate(e, s.open) = d /\ LocalDate(e, s.close) = d
           /\ e \in Extended => /\ LocalDate(e, s.open - PreMarket) = d
                                /\ LocalDate(e, s.close + AfterHours) = d
           /\ PreMarket \in Nat /\ AfterHours \in Nat
  <1>1. s \in Session
    BY ScheduleAssumption
  <1> QED
    BY <1>1 DEF RegularCalendar, Session

(* The earliest of a set of moments that lie after t, if there is one.      *)
EarliestAfter(T, t) == {x \in T : x > t /\ \A u \in T : u > t => x =< u}

(* The opens after a moment whose date has no session, or whose session is  *)
(* over, are those of later dates.                                          *)
LEMMA NextOpen ==
    ASSUME RegularCalendar, NEW e \in Exchanges, NEW t \in Int,
           NEW opens, opens = {Schedule[e][d].open : d \in DOMAIN Schedule[e]},
           LocalDate(e, t) \in DOMAIN Schedule[e] =>
              Schedule[e][LocalDate(e, t)].open =< t
    PROVE  NextSessionOpen(e, LocalDate(e, t)) = EarliestAfter(opens, t)
  <1> DEFINE date == LocalDate(e, t)
             open(d) == Schedule[e][d].open
  <1>1. ASSUME NEW d \in DOMAIN Schedule[e]
        PROVE  d \in Int /\ open(d) \in Int /\ LocalDate(e, open(d)) = d
    BY SessionFacts
  <1>2. date \in Int
    BY LocalDates
  <1>3. ASSUME NEW d \in DOMAIN Schedule[e] PROVE open(d) > t <=> d > date
    <2>1. d \in Int /\ open(d) \in Int /\ LocalDate(e, open(d)) = d
      BY <1>1
    <2>2. open(d) > t => d >= date
      BY <2>1, LocalDates
    <2>3. d > date => open(d) > t
      BY <1>2, <2>1, LocalDates
    <2>4. open(d) > t => d # date
      BY <2>1
    <2> QED
      BY <1>2, <2>1, <2>2, <2>3, <2>4
  <1>4. ASSUME NEW c \in DOMAIN Schedule[e], NEW d \in DOMAIN Schedule[e]
        PROVE  open(c) =< open(d) <=> c =< d
    <2>1. /\ c \in Int /\ open(c) \in Int /\ LocalDate(e, open(c)) = c
          /\ d \in Int /\ open(d) \in Int /\ LocalDate(e, open(d)) = d
      BY <1>1
    <2>2. open(c) =< open(d) => c =< d
      BY <2>1, LocalDates
    <2>3. open(d) =< open(c) => d =< c
      BY <2>1, LocalDates
    <2>4. c = d => open(c) = open(d)
      OBVIOUS
    <2> QED
      BY <2>1, <2>2, <2>3, <2>4
  <1>5. opens = {open(d) : d \in DOMAIN Schedule[e]}
    OBVIOUS
  <1>6. NextSessionOpen(e, date) =
          {open(d) : d \in {c \in DOMAIN Schedule[e] :
              c > date /\ \A b \in DOMAIN Schedule[e] : b > date => c =< b}}
    BY DEF NextSessionOpen
  <1> HIDE DEF date, open
  <1>7. ASSUME NEW x
        PROVE  x \in NextSessionOpen(e, date) <=>
                 x \in opens /\ x > t /\ \A u \in opens : u > t => x =< u
    <2>1. ASSUME x \in NextSessionOpen(e, date)
          PROVE  x \in opens /\ x > t /\ \A u \in opens : u > t => x =< u
      <3>1. PICK c \in DOMAIN Schedule[e] :
              x = open(c) /\ c > date /\ \A b \in DOMAIN Schedule[e] : b > date => c =< b
        BY <1>6, <2>1
      <3>2. ASSUME NEW u \in opens, u > t PROVE x =< u
        <4>1. PICK b \in DOMAIN Schedule[e] : u = open(b)
          BY <1>5
        <4> QED
          BY <1>3, <1>4, <3>1, <3>2, <4>1
      <3> QED
        BY <1>3, <1>5, <3>1, <3>2
    <2>2. ASSUME x \in opens, x > t, \A u \in opens : u > t => x =< u
          PROVE  x \in NextSessionOpen(e, date)
      <3>1. PICK c \in DOMAIN Schedule[e] : x = open(c)
        BY <1>5, <2>2
      <3>2. ASSUME NEW b \in DOMAIN Schedule[e], b > date PROVE c =< b
        BY <1>3, <1>4, <1>5, <2>2, <3>1, <3>2
      <3> QED
        BY <1>3, <1>6, <2>2, <3>1, <3>2
    <2> QED
      BY <2>1, <2>2
  <1>8. NextSessionOpen(e, date) =
          {x \in opens : x > t /\ \A u \in opens : u > t => x =< u}
    BY <1>7
  <1> QED
    BY <1>8 DEF date, EarliestAfter

(* The after-hours are those of the session of the date, if at all.         *)
LEMMA AfterCloseIsToday ==
    ASSUME RegularCalendar, NEW e \in Extended, NEW t \in Int,
           NEW d \in DOMAIN Schedule[e], LocalDate(e, t) = d,
           NEW s, s = Schedule[e][d]
    PROVE  AfterClose(e, t) = {c \in {s.close} : c =< t /\ t < c + AfterHours}
  <1>0. e \in Exchanges
    BY ExtendedAssumption
  <1>1. ASSUME NEW c \in PreviousSessionClose(e, d) PROVE ~(c =< t /\ t < c + AfterHours)
    <2>1. PICK b \in DOMAIN Schedule[e] : b < d /\ c = Schedule[e][b].close
      BY <1>1 DEF PreviousSessionClose
    <2>2. /\ c \in Int /\ b \in Int /\ AfterHours \in Nat
          /\ LocalDate(e, c + AfterHours) = b
      BY <1>0, <2>1, SessionFacts
    <2>3. d \in Int
      BY <1>0, SessionFacts
    <2>4. t =< c + AfterHours => d =< b
      BY <1>0, <2>2, LocalDates
    <2> QED
      BY <2>1, <2>2, <2>3, <2>4
  <1> QED
    BY <1>1 DEF AfterClose

(* What status() returns in each part of a day.                             *)
LEMMA StatusCases ==
    ASSUME RegularCalendar, NEW e \in Exchanges, NEW t \in Int,
           NEW d, d = LocalDate(e, t), NEW s, s = Schedule[e][d]
    PROVE  /\ d \notin DOMAIN Schedule[e] =>
                 Status(e, t) = StatusOf("HOLIDAY", NextSessionOpen(e, d))
           /\ d \in DOMAIN Schedule[e] =>
                /\ s.open =< t /\ t < s.close =>
                    /\ s.breakStart =< t /\ t < s.breakEnd =>
                          Status(e, t) = StatusOf("LUNCH", {s.breakEnd})
                    /\ s.breakStart < s.breakEnd /\ t < s.breakStart =>
                          Status(e, t) = StatusOf("OPEN", {s.breakStart})
                    /\ ~(s.breakStart < s.breakEnd /\ t < s.breakEnd) =>
                          Status(e, t) = StatusOf("OPEN", {s.close})
                /\ e \in Extended /\ s.open - PreMarket =< t /\ t < s.open =>
                          Status(e, t) = StatusOf("EXTENDED", {s.open})
                /\ e \in Extended /\ s.close =< t /\ t < s.close + AfterHours =>
                          Status(e, t) = StatusOf("EXTENDED", {s.close + AfterHours})
                /\ t < s.open /\ ~(e \in Extended /\ s.open - PreMarket =< t) =>
                          Status(e, t) = StatusOf("CLOSED", {s.open})
                /\ s.close =< t /\ ~(e \in Extended /\ t < s.close + AfterHours) =>
                          Status(e, t) = StatusOf("CLOSED", NextSessionOpen(e, d))
  <1>1. CASE d \notin DOMAIN Schedule[e]
    BY <1>1 DEF Status, IsSession
  <1>2. CASE d \in DOMAIN Schedule[e]
    <2>1. /\ s.open \in Int /\ s.close \in Int /\ s.open < s.close
          /\ s.breakStart \in Int /\ s.breakEnd \in Int
          /\ PreMarket \in Nat /\ AfterHours \in Nat
      BY <1>2, SessionFacts
    <2>2. CASE s.open =< t /\ t < s.close
      <3>1. Status(e, t) = RegularHours(e, t)
        BY <1>2, <2>1, <2>2 DEF Status, IsSession
      <3> QED
        BY <1>2, <2>1, <2>2, <3>1 DEF RegularHours
    <2>3. CASE ~(s.open =< t /\ t < s.close)
      <3>1. Status(e, t) = OffHours(e, t)
        BY <1>2, <2>1, <2>3 DEF Status, IsSession
      <3>2. e \in Extended =>
              AfterClose(e, t) = {c \in {s.close} : c =< t /\ t < c + AfterHours}
        BY <1>2, AfterCloseIsToday
      <3>3. CASE t < s.open
        <4>1. e \in Extended => AfterClose(e, t) = {}
          BY <2>1, <3>2, <3>3
        <4> QED
          BY <1>2, <2>1, <3>1, <3>3, <4>1 DEF OffHours
      <3>4. CASE s.close =< t
        <4>1. e \in Extended =>
                AfterClose(e, t) = IF t < s.close + AfterHours THEN {s.close} ELSE {}
          BY <2>1, <3>2, <3>4
        <4>2. CASE e \in Extended /\ t < s.close + AfterHours
          <5>1. AfterClose(e, t) = {s.close} /\ AfterClose(e, t) # {}
            BY <4>1, <4>2
          <5>2. {c + AfterHours : c \in AfterClose(e, t)} = {s.close + AfterHours}
            BY <5>1
          <5>3. ~(s.open - PreMarket =< t /\ t < s.open)
            BY <2>1, <3>4
          <5>4. OffHours(e, t) = StatusOf("EXTENDED", {s.close + AfterHours})
            BY <4>2, <5>1, <5>2, <5>3, Zenon DEF OffHours
          <5> QED
            BY <1>2, <2>1, <3>1, <3>4, <4>2, <5>4
        <4>3. CASE ~(e \in Extended /\ t < s.close + AfterHours)
          <5>1. e \in Extended => AfterClose(e, t) = {}
            BY <4>1, <4>3
          <5>2. OffHours(e, t) = StatusOf("CLOSED", NextSessionOpen(e, d))
            BY <2>1, <3>4, <4>3, <5>1 DEF OffHours
          <5> QED
            BY <1>2, <2>1, <3>1, <3>4, <4>3, <5>2
        <4> QED
          BY <4>2, <4>3
      <3> QED
        BY <2>1, <2>3, <3>3, <3>4
    <2> QED
      BY <2>2, <2>3
  <1> QED
    BY <1>1, <1>2

(* The parts of a day with a session, by the state that status() tells.     *)
LEMMA StateAt ==
    ASSUME RegularCalendar, NEW e \in Exchanges, NEW t \in Int,
           NEW d \in DOMAIN Schedule[e], LocalDate(e, t) = d, NEW s, s = Schedule[e][d]
    PROVE  /\ Status(e, t).state = "LUNCH" <=> s.breakStart =< t /\ t < s.breakEnd
           /\ Status(e, t).state = "OPEN" <=>
                 /\ s.open =< t /\ t < s.close
                 /\ ~(s.breakStart =< t /\ t < s.breakEnd)
           /\ Status(e, t).state = "EXTENDED" <=>
                 /\ e \in Extended
                 /\ \/ s.open - PreMarket =< t /\ t < s.open
                    \/ s.close =< t /\ t < s.close + AfterHours
           /\ Status(e, t).state # "HOLIDAY"
  <1>1. /\ s.open \in Int /\ s.close \in Int /\ s.open < s.close
        /\ s.breakStart \in Int /\ s.breakEnd \in Int
        /\ s.breakStart < s.breakEnd => s.open =< s.breakStart /\ s.breakEnd =< s.close
        /\ PreMarket \in Nat /\ AfterHours \in Nat
    BY SessionFacts
  <1>2. CASE s.open =< t /\ t < s.close
    BY <1>1, <1>2, StatusCases DEF StatusOf
  <1>3. CASE t < s.open
    BY <1>1, <1>3, StatusCases DEF StatusOf
  <1>4. CASE s.close =< t
    BY <1>1, <1>4, StatusCases DEF StatusOf
  <1> QED
    BY <1>1, <1>2, <1>3, <1>4

LEMMA SameDate ==
    ASSUME RegularCalendar, NEW e \in Exchanges, NEW a \in Int, NEW b \in Int,
           LocalDate(e, a) = LocalDate(e, b)
    PROVE  \A t \in Int : a =< t /\ t =< b => LocalDate(e, t) = LocalDate(e, a)
  <1>1. SUFFICES ASSUME NEW t \in Int, a =< t, t =< b
                 PROVE  LocalDate(e, t) = LocalDate(e, a)
    OBVIOUS
  <1>2. /\ LocalDate(e, a) =< LocalDate(e, t) /\ LocalDate(e, t) =< LocalDate(e, b)
        /\ LocalDate(e, a) \in Int /\ LocalDate(e, t) \in Int
    BY <1>1, LocalDates
  <1> QED
    BY <1>2

(* The end that is announced for a state is when the state ends.            *)
LEMMA AnnouncedEnd ==
    ASSUME RegularCalendar, NEW e \in Exchanges, NEW t \in Int,
           Status(e, t).state \in {"OPEN", "LUNCH", "EXTENDED"},
           NEW n \in Status(e, t).next
    PROVE  /\ n \in Int /\ n > t /\ Status(e, n).state # Status(e, t).state
           /\ \A u \in t..n - 1 : Status(e, u).state = Status(e, t).state
  <1> DEFINE d == LocalDate(e, t)
             s == Schedule[e][d]
  <1>1. d \in DOMAIN Schedule[e]
    BY StatusCases DEF StatusOf
  <1>2. /\ s.open \in Int /\ s.close \in Int /\ s.open < s.close
        /\ s.breakStart \in Int /\ s.breakEnd \in Int
        /\ s.breakStart < s.breakEnd => s.open =< s.breakStart /\ s.breakEnd =< s.close
        /\ PreMarket \in Nat /\ AfterHours \in Nat
        /\ LocalDate(e, s.open) = d /\ LocalDate(e, s.close) = d
        /\ e \in Extended => /\ LocalDate(e, s.open - PreMarket) = d
                             /\ LocalDate(e, s.close + AfterHours) = d
    BY <1>1, SessionFacts
  <1>3. \A u \in Int : s.open =< u /\ u =< s.close => LocalDate(e, u) = d
    BY <1>2, SameDate
  <1>4. e \in Extended => \A u \in Int :
          s.open - PreMarket =< u /\ u =< s.close + AfterHours => LocalDate(e, u) = d
    <2>1. s.open - PreMarket \in Int /\ s.close + AfterHours \in Int
      BY <1>2
    <2> QED
      BY <1>2, <2>1, SameDate
  <1>5. \A u \in Int : LocalDate(e, u) = d =>
           /\ Status(e, u).state = "LUNCH" <=> s.breakStart =< u /\ u < s.breakEnd
           /\ Status(e, u).state = "OPEN" <=>
                 /\ s.open =< u /\ u < s.close
                 /\ ~(s.breakStart =< u /\ u < s.breakEnd)
           /\ Status(e, u).state = "EXTENDED" <=>
                 /\ e \in Extended
                 /\ \/ s.open - PreMarket =< u /\ u < s.open
                    \/ s.close =< u /\ u < s.close + AfterHours
    BY <1>1, StateAt
  <1>6. d = LocalDate(e, t) /\ s = Schedule[e][d]
    OBVIOUS
  <1>7. /\ s.open =< t /\ t < s.close /\ s.breakStart =< t /\ t < s.breakEnd =>
             Status(e, t).next = {s.breakEnd}
        /\ s.open =< t /\ t < s.close /\ s.breakStart < s.breakEnd /\ t < s.breakStart =>
             Status(e, t).next = {s.breakStart}
        /\ s.open =< t /\ t < s.close /\ ~(s.breakStart < s.breakEnd /\ t < s.breakEnd) =>
             Status(e, t).next = {s.close}
        /\ e \in Extended /\ s.open - PreMarket =< t /\ t < s.open =>
             Status(e, t).next = {s.open}
        /\ e \in Extended /\ s.close =< t /\ t < s.close + AfterHours =>
             Status(e, t).next = {s.close + AfterHours}
    <2>1. ASSUME s.open =< t, t < s.close, s.breakStart =< t, t < s.breakEnd
          PROVE  Status(e, t).next = {s.breakEnd}
      BY <1>1, <2>1, StatusCases DEF StatusOf
    <2>2. ASSUME s.open =< t, t < s.close, s.breakStart < s.breakEnd, t < s.breakStart
          PROVE  Status(e, t).next = {s.breakStart}
      BY <1>1, <2>2, StatusCases DEF StatusOf
    <2>3. ASSUME s.open =< t, t < s.close, ~(s.breakStart < s.breakEnd /\ t < s.breakEnd)
          PROVE  Status(e, t).next = {s.close}
      BY <1>1, <2>3, StatusCases DEF StatusOf
    <2>4. ASSUME e \in Extended, s.open - PreMarket =< t, t < s.open
          PROVE  Status(e, t).next = {s.open}
      BY <1>1, <2>4, StatusCases DEF StatusOf
    <2>5. ASSUME e \in Extended, s.close =< t, t < s.close + AfterHours
          PROVE  Status(e, t).next = {s.close + AfterHours}
      BY <1>1, <2>5, StatusCases DEF StatusOf
    <2> QED
      BY <2>1, <2>2, <2>3, <2>4, <2>5
  <1> HIDE DEF d, s
  <1>8. CASE Status(e, t).state = "LUNCH"
    <2>1. n = s.breakEnd /\ s.breakStart =< t /\ t < s.breakEnd
      BY <1>2, <1>5, <1>6, <1>7, <1>8
    <2> QED
      BY <1>2, <1>3, <1>5, <1>8, <2>1
  <1>9. CASE Status(e, t).state = "OPEN"
    <2>1. s.open =< t /\ t < s.close /\ ~(s.breakStart =< t /\ t < s.breakEnd)
      BY <1>5, <1>6, <1>9
    <2>2. CASE s.breakStart < s.breakEnd /\ t < s.breakStart
      <3>1. n = s.breakStart
        BY <1>7, <2>1, <2>2
      <3> QED
        BY <1>2, <1>3, <1>5, <1>9, <2>1, <2>2, <3>1
    <2>3. CASE ~(s.breakStart < s.breakEnd /\ t < s.breakStart)
      <3>1. n = s.close
        BY <1>2, <1>7, <2>1, <2>3
      <3> QED
        BY <1>2, <1>3, <1>5, <1>9, <2>1, <2>3, <3>1
    <2> QED
      BY <2>2, <2>3
  <1>10. CASE Status(e, t).state = "EXTENDED"
    <2>1. e \in Extended
      BY <1>5, <1>6, <1>10
    <2>2. CASE s.open - PreMarket =< t /\ t < s.open
      <3>1. n = s.open
        BY <1>7, <2>1, <2>2
      <3> QED
        BY <1>2, <1>4, <1>5, <1>10, <2>1, <2>2, <3>1
    <2>3. CASE s.close =< t /\ t < s.close + AfterHours
      <3>1. n = s.close + AfterHours
        BY <1>7, <2>1, <2>3
      <3> QED
        BY <1>2, <1>4, <1>5, <1>10, <2>1, <2>3, <3>1
    <2> QED
      BY <1>5, <1>6, <1>10, <2>2, <2>3
  <1> QED
    BY <1>8, <1>9, <1>10

(* What the rail says of an exchange agrees with all its sessions.          *)
LEMMA StatusIsHonest ==
    ASSUME RegularCalendar, NEW e \in Exchanges, now \in Int
    PROVE  StatusHonest(e)
  <1> DEFINE d == LocalDate(e, now)
             s == Schedule[e][d]
             sessions == {Schedule[e][c] : c \in DOMAIN Schedule[e]}
             opens == {x.open : x \in sessions}
  <1>1. opens = {Schedule[e][c].open : c \in DOMAIN Schedule[e]}
    OBVIOUS
  <1>2. ASSUME NEW c \in DOMAIN Schedule[e],
               \/ Schedule[e][c].open =< now /\ now < Schedule[e][c].close
               \/ Schedule[e][c].breakStart =< now /\ now < Schedule[e][c].breakEnd
        PROVE  c = d
    <2> DEFINE x == Schedule[e][c]
    <2>1. /\ x.open \in Int /\ x.close \in Int
          /\ x.breakStart \in Int /\ x.breakEnd \in Int
          /\ x.breakStart < x.breakEnd => x.open =< x.breakStart /\ x.breakEnd =< x.close
          /\ LocalDate(e, x.open) = c /\ LocalDate(e, x.close) = c
      BY SessionFacts
    <2>2. x.open =< now /\ now =< x.close
      BY <1>2, <2>1
    <2> QED
      BY <2>1, <2>2, SameDate
  <1>3. Status(e, now).state \in {"OPEN", "LUNCH"} <=>
          \E x \in sessions : x.open =< now /\ now < x.close
    <2>1. CASE d \in DOMAIN Schedule[e]
      <3>1. /\ s.open \in Int /\ s.close \in Int
            /\ s.breakStart \in Int /\ s.breakEnd \in Int
            /\ s.breakStart < s.breakEnd => s.open =< s.breakStart /\ s.breakEnd =< s.close
        BY <2>1, SessionFacts
      <3>2. Status(e, now).state \in {"OPEN", "LUNCH"} <=> s.open =< now /\ now < s.close
        BY <2>1, <3>1, StateAt
      <3> QED
        BY <1>2, <2>1, <3>2
    <2>2. CASE d \notin DOMAIN Schedule[e]
      BY <1>2, <2>2, StatusCases DEF StatusOf
    <2> QED
      BY <2>1, <2>2
  <1>4. Status(e, now).state = "LUNCH" <=>
          \E x \in sessions : x.breakStart =< now /\ now < x.breakEnd
    <2>1. CASE d \in DOMAIN Schedule[e]
      <3>1. Status(e, now).state = "LUNCH" <=> s.breakStart =< now /\ now < s.breakEnd
        BY <2>1, StateAt
      <3> QED
        BY <1>2, <2>1, <3>1
    <2>2. CASE d \notin DOMAIN Schedule[e]
      BY <1>2, <2>2, StatusCases DEF StatusOf
    <2> QED
      BY <2>1, <2>2
  <1>5. Status(e, now).state \in {"OPEN", "LUNCH", "EXTENDED"} =>
          \A n \in Status(e, now).next :
            /\ n > now /\ Status(e, n).state # Status(e, now).state
            /\ \A t \in now..n - 1 : Status(e, t).state = Status(e, now).state
    BY AnnouncedEnd
  <1>6. Status(e, now).state \in {"CLOSED", "HOLIDAY"} =>
          Status(e, now).next = EarliestAfter(opens, now)
    <2> SUFFICES ASSUME Status(e, now).state \in {"CLOSED", "HOLIDAY"}
                 PROVE  Status(e, now).next = EarliestAfter(opens, now)
      OBVIOUS
    <2>1. CASE d \notin DOMAIN Schedule[e]
      <3>1. Status(e, now).next = NextSessionOpen(e, d)
        BY <2>1, StatusCases DEF StatusOf
      <3> QED
        BY <1>1, <2>1, <3>1, NextOpen
    <2>2. CASE d \in DOMAIN Schedule[e]
      <3>1. s.open \in Int /\ s.close \in Int /\ s.open < s.close /\ LocalDate(e, s.open) = d
        BY <2>2, SessionFacts
      <3>2. CASE now < s.open
        <4>1. Status(e, now).next = {s.open}
          BY <2>2, <3>1, <3>2, StatusCases DEF StatusOf
        <4>2. s.open \in opens
          BY <1>1, <2>2
        <4>3. ASSUME NEW u \in opens, u > now PROVE u \in Int /\ s.open =< u
          <5>1. PICK c \in DOMAIN Schedule[e] : u = Schedule[e][c].open
            BY <1>1
          <5>2. u \in Int /\ LocalDate(e, u) = c
            BY <5>1, SessionFacts
          <5>3. CASE u < s.open
            <6>1. LocalDate(e, u) = d
              BY <3>1, <4>3, <5>2, <5>3, SameDate
            <6> QED
              BY <5>1, <5>2, <5>3, <6>1, <3>1
          <5> QED
            BY <3>1, <5>2, <5>3
        <4> HIDE DEF opens, s
        <4>4. s.open \in EarliestAfter(opens, now)
          BY <3>1, <3>2, <4>2, <4>3 DEF EarliestAfter
        <4>5. ASSUME NEW t \in EarliestAfter(opens, now) PROVE t = s.open
          BY <3>1, <3>2, <4>2, <4>3 DEF EarliestAfter
        <4> QED
          BY <4>1, <4>4, <4>5
      <3>3. CASE s.close =< now
        <4>1. Status(e, now).next = NextSessionOpen(e, d)
          BY <2>2, <3>1, <3>3, StatusCases DEF StatusOf
        <4>2. Schedule[e][LocalDate(e, now)].open =< now
          BY <3>1, <3>3
        <4>3. NextSessionOpen(e, LocalDate(e, now)) = EarliestAfter(opens, now)
          <5> HIDE DEF opens
          <5> QED
            BY <1>1, <4>2, NextOpen
        <4> QED
          BY <4>1, <4>3
      <3>4. ~(s.open =< now /\ now < s.close)
        BY <1>3, <2>2
      <3> QED
        BY <3>1, <3>2, <3>3, <3>4
    <2> QED
      BY <2>1, <2>2
  <1> QED
    BY <1>3, <1>4, <1>5, <1>6 DEF StatusHonest, EarliestAfter

(* A holiday that today's card hides from the strip is over when the card   *)
(* says the market opens.                                                   *)
LEMMA HolidayIsTold ==
    ASSUME RegularCalendar, NEW e \in Exchanges, now \in Int
    PROVE  HolidayTold(e)
  <1> DEFINE today == now \div DayLength
             monday == today - Weekday(today)
             date == LocalDate(e, now)
  <1>1. today \in Int /\ date \in Int /\ today - 1 =< date
    <2>1. DayLength \in Nat \ {0} /\ Offset[e] \in Int /\ -DayLength =< Offset[e]
      BY DEF RegularCalendar
    <2> QED
      BY <2>1, DivShifted, LocalDates DEF LocalDate
  <1> SUFFICES ASSUME NEW d \in Closures(e, monday, monday + 4),
                      d \notin ClosuresThisWeek(e, now)
               PROVE  /\ Status(e, now).state = "HOLIDAY"
                      /\ \A n \in Status(e, now).next : LocalDate(e, n) > d
    BY DEF HolidayTold
  <1>2. d = today /\ Status(e, now).state = "HOLIDAY" /\ today \notin DOMAIN Schedule[e]
    BY DEF ClosuresThisWeek, Closures, IsSession
  <1> HIDE DEF today, monday
  <1>3. date \notin DOMAIN Schedule[e]
    BY <1>2, StateAt
  <1>4. Status(e, now).next = NextSessionOpen(e, date)
    BY <1>3, StatusCases DEF StatusOf
  <1>5. ASSUME NEW n \in NextSessionOpen(e, date) PROVE LocalDate(e, n) > today
    <2>1. PICK c \in DOMAIN Schedule[e] : c > date /\ n = Schedule[e][c].open
      BY <1>5 DEF NextSessionOpen
    <2>2. c \in Int /\ LocalDate(e, n) = c
      BY <2>1, SessionFacts
    <2>3. c # today
      BY <1>2
    <2> QED
      BY <1>1, <2>1, <2>2, <2>3
  <1> QED
    BY <1>2, <1>4, <1>5

(* For any calendar whose sessions lie within their local dates, what the   *)
(* market rail and the strip of closures tell at any moment is what the     *)
(* sessions say.                                                            *)
THEOREM RailIsHonest == RegularCalendar => (Spec => []RailHonest)
  <1> SUFFICES ASSUME RegularCalendar PROVE Spec => []RailHonest
    OBVIOUS
  <1>1. TypeOK => RailHonest
    <2> SUFFICES ASSUME TypeOK, NEW e \in held PROVE StatusHonest(e) /\ HolidayTold(e)
      BY DEF RailHonest
    <2>1. now \in Int /\ e \in Exchanges
      BY TimeAssumption DEF TypeOK, Times
    <2> QED
      BY <2>1, StatusIsHonest, HolidayIsTold
  <1> QED
    BY <1>1, TypeCorrect, PTL

=============================================================================
