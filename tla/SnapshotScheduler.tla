-------------------------- MODULE SnapshotScheduler --------------------------
(***************************************************************************)
(* The equity-snapshot job (app/jobs/snapshot.py): the loop fetches the    *)
(* positions, sleeps until the soonest next close of the exchanges it saw, *)
(* captures one row per account, pauses and starts over.  Positions are    *)
(* bought and sold, brokers fail and time passes meanwhile.  The calendar  *)
(* is MarketHours, which the page's market rail asks at the same time.     *)
(*                                                                         *)
(* Time is counted in units of which sleep(1.0) takes Pause.  The loop     *)
(* sleeps by the monotonic clock and computes with the wall clock, so a    *)
(* sleep may end up to Skew before the wall-clock time it was meant for.   *)
(***************************************************************************)
EXTENDS MarketHours

CONSTANTS
    Accounts,   \* linked (broker, account_id) pairs
    Horizon,    \* bound on time
    Pause,      \* length of sleep(1.0)
    Skew,       \* how early a sleep may end
    Latency,    \* longest time a fetch or a capture takes
    BaseDelay,  \* _DEFAULT_EMPTY_RECHECK
    DelayCap    \* _EMPTY_RECHECK_CAP

ASSUME TimeAssumption ==
    /\ Horizon \in Nat /\ Pause \in Nat /\ Skew \in Nat /\ Latency \in Nat
    /\ BaseDelay \in Nat \ {0} /\ DelayCap \in Nat /\ BaseDelay =< DelayCap
ASSUME PauseAssumption == 2 * Skew =< Pause

VARIABLES
    now,
    held,       \* the exchanges of the stock positions held
    pc,         \* what the loop awaits
    wakeAt,     \* when that ends at the latest
    target,     \* (ib_ex, close_at)
    emptyDelay, \* empty_delay
    todo,       \* accounts left in the for loop of _capture_snapshot
    rows,       \* the table equity_snapshots
    attempted,  \* closes _capture_snapshot has been called for
    due         \* the next close of every exchange the last fetch has seen

loopVars == <<pc, wakeAt, target, emptyDelay, todo, rows, attempted, due>>
vars == <<now, held, loopVars>>

Times == 0..Horizon

TypeOK ==
    /\ now \in Times
    /\ held \subseteq Exchanges
    /\ pc \in {"fetching", "empty", "sleeping", "capturing", "pausing"}
    /\ wakeAt \in Nat
    /\ target \in Exchanges \X Nat \cup {<<>>}
    /\ pc \in {"sleeping", "capturing"} => target \in Exchanges \X Nat
    /\ emptyDelay \in BaseDelay..DelayCap
    /\ todo \subseteq Accounts
    /\ rows \subseteq (Exchanges \X Nat) \X Accounts
    /\ attempted \subseteq Exchanges \X Nat
    /\ due \subseteq Exchanges \X Nat

Init ==
    /\ now = 0
    /\ held \in SUBSET Exchanges
    /\ pc = "fetching"
    /\ wakeAt = Latency
    /\ target = <<>>
    /\ emptyDelay = BaseDelay
    /\ todo = {}
    /\ rows = {}
    /\ attempted = {}
    /\ due = {}

-----------------------------------------------------------------------------
(* Choosing the next close.                                                 *)

(* The next close of every exchange, of those that have one.                *)
Pending(seen) == UNION {{e} \X NextCloseAt(e, now) : e \in seen}

(* Mutation of Soonest: the last close instead of the first.                *)
SoonestLast(seen) == {c \in Pending(seen) : \A d \in Pending(seen) : d[2] =< c[2]}

(* _next_close_across_held_exchanges.  Ties are broken by the iteration     *)
(* order of a Python set of strings, which is arbitrary.                    *)
Soonest(seen) == {c \in Pending(seen) : \A d \in Pending(seen) : c[2] =< d[2]}

-----------------------------------------------------------------------------
(* scheduled_snapshot_loop.                                                 *)

(* get_positions returned the positions on the exchanges "seen": those of   *)
(* an adapter that is down or raises are missing.                           *)
Decide(seen) ==
    /\ due' = Pending(seen)
    /\ \/ /\ Soonest(seen) = {}
          /\ pc' = "empty"
          /\ wakeAt' = now + emptyDelay
          /\ UNCHANGED target
       \/ /\ \E c \in Soonest(seen) : target' = c /\ wakeAt' = c[2]
          /\ pc' = "sleeping"
    /\ UNCHANGED <<now, held, emptyDelay, todo, rows, attempted>>

PositionsFetched ==
    /\ pc = "fetching"
    /\ \E seen \in SUBSET held : Decide(seen)

(* Mutation of RecheckEmpty: the backoff is not capped.                     *)
RecheckEmptyUncapped ==
    /\ pc = "empty"
    /\ now + Skew >= wakeAt
    /\ emptyDelay' = 2 * emptyDelay
    /\ pc' = "fetching"
    /\ wakeAt' = now + Latency
    /\ UNCHANGED <<now, held, target, todo, rows, attempted, due>>

RecheckEmpty ==
    /\ pc = "empty"
    /\ now + Skew >= wakeAt
    /\ emptyDelay' = IF 2 * emptyDelay =< DelayCap THEN 2 * emptyDelay ELSE DelayCap
    /\ pc' = "fetching"
    /\ wakeAt' = now + Latency
    /\ UNCHANGED <<now, held, target, todo, rows, attempted, due>>

(* The close has come.  get_account_summary leaves out the accounts of the  *)
(* adapters that are down or raise; if it raises itself there are no rows.  *)
CloseReached ==
    /\ pc = "sleeping"
    /\ now + Skew >= wakeAt
    /\ attempted' = attempted \cup {target}
    /\ todo' \in SUBSET Accounts
    /\ pc' = "capturing"
    /\ wakeAt' = now + Latency
    /\ UNCHANGED <<now, held, target, emptyDelay, rows, due>>

(* INSERT OR IGNORE of one account's row, whose failure is logged.          *)
InsertSnapshot ==
    /\ pc = "capturing"
    /\ \E a \in todo :
        /\ todo' = todo \ {a}
        /\ rows' \in {rows, rows \cup {<<target, a>>}}
    /\ UNCHANGED <<now, held, pc, wakeAt, target, emptyDelay, attempted, due>>

CaptureReturns ==
    /\ pc = "capturing"
    /\ todo = {}
    /\ emptyDelay' = BaseDelay
    /\ pc' = "pausing"
    /\ wakeAt' = now + Pause
    /\ UNCHANGED <<now, held, target, todo, rows, attempted, due>>

PauseEnds ==
    /\ pc = "pausing"
    /\ now + Skew >= wakeAt
    /\ pc' = "fetching"
    /\ wakeAt' = now + Latency
    /\ UNCHANGED <<now, held, target, emptyDelay, todo, rows, attempted, due>>

-----------------------------------------------------------------------------
(* The environment.                                                         *)

Tick ==
    /\ now < Horizon
    /\ now < wakeAt
    /\ now' = now + 1
    /\ UNCHANGED <<held, loopVars>>

(* The first position on an exchange is bought, or the last one sold.       *)
Trade ==
    /\ \E e \in Exchanges :
        held' = IF e \in held THEN held \ {e} ELSE held \cup {e}
    /\ UNCHANGED <<now, loopVars>>

LoopStep ==
    \/ PositionsFetched
    \/ RecheckEmpty
    \/ CloseReached
    \/ InsertSnapshot
    \/ CaptureReturns
    \/ PauseEnds

Next == LoopStep \/ Tick \/ Trade

Spec == Init /\ [][Next]_vars

-----------------------------------------------------------------------------
(* Properties.                                                              *)

(* The capture of no close is attempted twice, although the loop may wake   *)
(* before the close by the wall clock: next_close_at is strictly after now, *)
(* and the pause "ticks past the close moment".                             *)
NoCloseTwice ==
    [][pc = "sleeping" /\ pc' = "capturing" => target \notin attempted]_vars

(* The module's docstring: "For each STK-exchange held in the current       *)
(* portfolio, the loop sleeps until that exchange's next regular-session    *)
(* close (...), then captures one equity_snapshots row per linked account   *)
(* tagged" with that exchange.  When the loop starts over, a capture tagged *)
(* with the exchange was attempted for every close that has passed and that *)
(* its last fetch had seen coming.                                          *)
NoCloseOverlooked ==
    pc = "fetching" => \A c \in due : c[2] =< now => c \in attempted

(* What NoCloseOverlooked needs of the calendar: the closes of two sessions *)
(* are further apart than a capture, the pause and the next fetch may take. *)
(* Two exchanges that close at the same instant do not satisfy it.          *)
ClosesApart ==
    \A e, f \in Exchanges : \A c \in DOMAIN Schedule[e], d \in DOMAIN Schedule[f] :
        <<e, c>> # <<f, d>> /\ Schedule[e][c].close =< Schedule[f][d].close =>
            Schedule[e][c].close + 2 * Latency + Pause < Schedule[f][d].close

(* What the market rail says of an exchange agrees with all its sessions,   *)
(* not only the one of the local date: OPEN and LUNCH are told exactly      *)
(* while a session lasts, the end announced for OPEN, LUNCH and EXTENDED is *)
(* when that state ends, and a closed market's "Opens" is its next open.    *)
StatusHonest(e) ==
    LET st == Status(e, now)
        sessions == {Schedule[e][d] : d \in DOMAIN Schedule[e]}
        opens == {s.open : s \in sessions}
    IN  /\ st.state \in {"OPEN", "LUNCH"} <=>
              \E s \in sessions : s.open =< now /\ now < s.close
        /\ st.state = "LUNCH" <=>
              \E s \in sessions : s.breakStart =< now /\ now < s.breakEnd
        /\ st.state \in {"OPEN", "LUNCH", "EXTENDED"} =>
              \A n \in st.next :
                /\ n > now /\ Status(e, n).state # st.state
                /\ \A t \in now..n - 1 : Status(e, t).state = st.state
        /\ st.state \in {"CLOSED", "HOLIDAY"} =>
              st.next = {t \in opens : t > now /\ \A u \in opens : u > now => t =< u}

(* No holiday of the week falls between the strip of closures, which counts *)
(* days in UTC, and the live card, which counts them in local time: it is   *)
(* on the strip, or the card says closed until a day after it.              *)
HolidayTold(e) ==
    LET today == now \div DayLength
        monday == today - Weekday(today)
    IN  \A d \in Closures(e, monday, monday + 4) :
            \/ d \in ClosuresThisWeek(e, now)
            \/ /\ Status(e, now).state = "HOLIDAY"
               /\ \A n \in Status(e, now).next : LocalDate(e, n) > d

(* What RailHonest needs of the calendar: a session, with the extended      *)
(* hours of those that have some, lies within the local date it is labelled *)
(* by, and its break within the session.                                    *)
RegularCalendar ==
    /\ DayLength \in Nat \ {0} /\ PreMarket \in Nat /\ AfterHours \in Nat
    /\ \A e \in Exchanges :
        /\ Offset[e] \in Int /\ -DayLength =< Offset[e]
        /\ \A d \in DOMAIN Schedule[e] :
            LET s == Schedule[e][d]
            IN  /\ d \in Int
                /\ s.open < s.close
                /\ s.breakStart < s.breakEnd =>
                      s.open =< s.breakStart /\ s.breakEnd =< s.close
                /\ LocalDate(e, s.open) = d /\ LocalDate(e, s.close) = d
                /\ e \in Extended => /\ LocalDate(e, s.open - PreMarket) = d
                                     /\ LocalDate(e, s.close + AfterHours) = d

(* The rail and the strip of every exchange held tell the truth at every    *)
(* moment, although they, the calendar and the page count days differently. *)
RailHonest == \A e \in held : StatusHonest(e) /\ HolidayTold(e)

=============================================================================
