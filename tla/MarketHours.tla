---------------------------- MODULE MarketHours ----------------------------
(***************************************************************************)
(* Trading hours (app/core/markets.py, MarketHours) as functions of the    *)
(* UTC time t, and the page's strip of closures this week (app/main.py).   *)
(* exchange_calendars is the constant Schedule: the sessions of an         *)
(* exchange, labelled by their local date, with UTC times.                 *)
(*                                                                         *)
(* Times and dates are integers; local dates and UTC dates are counted     *)
(* alike, and an exchange is Offset ahead of UTC.                          *)
(***************************************************************************)
EXTENDS Integers

CONSTANTS
    Exchanges,
    Schedule,      \* the sessions of each exchange, by local date
    Offset,        \* exchange-local time minus UTC
    DayLength,     \* length of a day
    FirstWeekday,  \* the weekday of date 0; Monday is 0
    Extended,      \* _US_EXTENDED_EXCHANGES
    PreMarket,     \* length of the pre-market, before the open
    AfterHours,    \* length of the after-hours, after the close
    SearchDays     \* how many days ahead next_close_at looks

(* A session without a lunch break has an empty one.                        *)
Session == [open : Int, breakStart : Int, breakEnd : Int, close : Nat]

ASSUME ScheduleAssumption ==
    \A e \in Exchanges : \A d \in DOMAIN Schedule[e] : Schedule[e][d] \in Session
ASSUME ExtendedAssumption == Extended \subseteq Exchanges

(* Sessions are labelled by the exchange's local date.                      *)
LocalDate(e, t) == (t + Offset[e]) \div DayLength

IsSession(e, d) == d \in DOMAIN Schedule[e]

-----------------------------------------------------------------------------
(* The closes of the sessions that next_close_at looks at.                  *)
ClosesAhead(e, t) ==
    {Schedule[e][d].close : d \in {c \in DOMAIN Schedule[e] :
        c >= LocalDate(e, t) /\ c =< LocalDate(e, t) + SearchDays}}

(* Mutation of NextCloseAt: a close at this very instant counts as next.    *)
NextCloseAtOrNow(e, t) ==
    {c \in ClosesAhead(e, t) :
        c >= t /\ \A u \in ClosesAhead(e, t) : u >= t => c =< u}

(* next_close_at, as the set of at most one close strictly after t.         *)
NextCloseAt(e, t) ==
    {c \in ClosesAhead(e, t) :
        c > t /\ \A u \in ClosesAhead(e, t) : u > t => c =< u}

-----------------------------------------------------------------------------
(* status(): the state and the moment announced with it, if there is one.   *)

(* Mutation of NextSessionOpen: the search begins at the date itself.       *)
SessionOpenFrom(e, date) ==
    {Schedule[e][d].open : d \in {c \in DOMAIN Schedule[e] :
        c >= date /\ \A b \in DOMAIN Schedule[e] : b >= date => c =< b}}

(* _next_session_open: the open of the first session after a date.          *)
NextSessionOpen(e, date) ==
    {Schedule[e][d].open : d \in {c \in DOMAIN Schedule[e] :
        c > date /\ \A b \in DOMAIN Schedule[e] : b > date => c =< b}}

(* _previous_session_close.                                                 *)
PreviousSessionClose(e, date) ==
    {Schedule[e][d].close : d \in {c \in DOMAIN Schedule[e] :
        c < date /\ \A b \in DOMAIN Schedule[e] : b < date => b =< c}}

(* Where the after-hours that t lies in began: today's or the last close.   *)
AfterClose(e, t) ==
    LET date == LocalDate(e, t)
        last == IF t < Schedule[e][date].open
                THEN PreviousSessionClose(e, date) ELSE {}
    IN  {c \in {Schedule[e][date].close} \cup last :
            c =< t /\ t < c + AfterHours}

StatusOf(state, next) == [state |-> state, next |-> next]

(* Before the open or after the close of today's session.                   *)
OffHours(e, t) ==
    LET date == LocalDate(e, t)
        s == Schedule[e][date]
    IN  CASE e \in Extended /\ s.open - PreMarket =< t /\ t < s.open ->
                StatusOf("EXTENDED", {s.open})
          [] /\ e \in Extended /\ AfterClose(e, t) # {}
             /\ ~(s.open - PreMarket =< t /\ t < s.open) ->
                StatusOf("EXTENDED", {c + AfterHours : c \in AfterClose(e, t)})
          [] OTHER ->
                StatusOf("CLOSED", IF t < s.open THEN {s.open}
                                   ELSE NextSessionOpen(e, date))

(* Between them.                                                            *)
RegularHours(e, t) ==
    LET s == Schedule[e][LocalDate(e, t)]
    IN  CASE s.breakStart =< t /\ t < s.breakEnd ->
                StatusOf("LUNCH", {s.breakEnd})
          [] s.breakStart < s.breakEnd /\ t < s.breakStart ->
                StatusOf("OPEN", {s.breakStart})
          [] OTHER -> StatusOf("OPEN", {s.close})

Status(e, t) ==
    LET date == LocalDate(e, t)
    IN  IF ~IsSession(e, date)
        THEN StatusOf("HOLIDAY", NextSessionOpen(e, date))
        ELSE IF t < Schedule[e][date].open \/ t >= Schedule[e][date].close
             THEN OffHours(e, t)
             ELSE RegularHours(e, t)

-----------------------------------------------------------------------------
(* closures_in_range and _closures_this_week, for full holidays.            *)

Weekday(d) == (d + FirstWeekday) % 7

Closures(e, first, last) ==
    {d \in first..last : Weekday(d) < 5 /\ ~IsSession(e, d)}

(* The strip covers Monday to Friday of the UTC week, without today's       *)
(* holiday if the live card says HOLIDAY already.                           *)
ClosuresThisWeek(e, t) ==
    LET today == t \div DayLength
        monday == today - Weekday(today)
    IN  {d \in Closures(e, monday, monday + 4) :
            ~(d = today /\ Status(e, t).state = "HOLIDAY")}

=============================================================================
