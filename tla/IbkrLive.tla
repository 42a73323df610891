------------------------------ MODULE IbkrLive ------------------------------
(***************************************************************************)
(* What IbkrAdapter (app/adapters/ibkr.py) shows: the rows it writes to    *)
(* LivePositions and the entries of _streaming they are recomputed from.   *)
(* Rows have several writers, all callbacks or coroutines of one event     *)
(* loop: the seeding of a new session (get_positions, _start_streaming),   *)
(* ticks, portfolio updates, the daily re-seed of previous closes and the  *)
(* disconnect handler.                                                     *)
(*                                                                         *)
(* A holding is a pair of account and contract, and so is the key of its   *)
(* row; _streaming, the caches of closes and the portfolio items are keyed *)
(* by the contract (conId) alone.  Amounts are abstracted to the displayed *)
(* price, the source it comes from and the holding it is a valuation of.   *)
(*                                                                         *)
(* Time is a count of UTC days.  One connect() runs at a time, the one of  *)
(* the reconnect loop: overlapping ones are IbkrConnection's subject.      *)
(***************************************************************************)
EXTENDS Integers, FiniteSets

CONSTANTS
    Accounts,    \* the linked accounts of the login
    Contracts,   \* STK contracts, by conId
    Holdings,    \* pairs of account and contract that may be held
    Reported,    \* accounts whose CASH reqPositions reports
    Summarised,  \* accounts with cash in the account summary
    Others,      \* polling brokers whose rows are in the same LivePositions
    Gated,       \* contracts listed where quotes need a permission
    Prices,      \* positive prices
    Items,       \* valuations IB's portfolio may hold for a position
    CloseOf,     \* the previous close published on each day
    MaxDay,      \* bound on the days
    Cash,        \* stands for the currency code in the key of a CASH row
    None         \* Python's None

ASSUME HoldingsAssumption == Holdings \subseteq Accounts \X Contracts
ASSUME CashAccountsAssumption == Reported \cup Summarised \subseteq Accounts
ASSUME GatedAssumption == Gated \subseteq Contracts
ASSUME PricesAssumption == Prices \subseteq Nat \ {0}
ASSUME MaxDayAssumption == MaxDay \in Nat
ASSUME CashAssumption == Cash \notin Contracts
ASSUME ItemsAssumption ==
    Items \subseteq [price : Prices \cup {0}, worth : Prices \cup {0, None}]
ASSUME CloseOfAssumption == CloseOf \in [0..MaxDay -> Prices]

VARIABLES
    state,      \* _connection_state
    session,    \* _ib: "none", or whether its connection is "up" or "down"
    phase,      \* where connect() awaits; "idle": the loop sleeps or is gone
    snap,       \* get_positions' portfolio_items
    listed,     \* what reqPositions reported last: get_positions' list
    call,       \* the pending _fetch_previous_closes_cached of get_positions
    todo,       \* STK positions left in the for loop of _start_streaming
    current,    \* the one whose contract is looked up
    cashRows,   \* CASH positions at the end of the same list
    named,      \* contracts in the name cache
    rows,       \* LivePositions' rows of this broker
    polled,     \* its rows of each other broker, which are written together
    streaming,  \* _streaming: the position an entry holds
    cache,      \* _previous_close_cache: day of the label, day of the close
    missed,     \* _previous_close_miss_cache
    refresh,    \* _refresh_previous_closes_daily's task
    mark,       \* IB's portfolio: the valuation of what is held, or None
    day         \* today, UTC

vars == <<state, session, phase, snap, listed, call, todo, current, cashRows,
          named, rows, polled, streaming, cache, missed, refresh, mark, day>>

seedVars  == <<snap, listed, call, todo, current, cashRows>>
closeVars == <<cache, missed>>

Days == 0..MaxDay
Keys == Holdings \cup (Accounts \X {Cash})
States == {"CONNECTED", "RECONNECTING", "DISCONNECTED"}
Sources == {"live", "mark", "close", "none"}

(* A row: "of" is the holding whose valuation it shows, "prev" the day of   *)
(* its previous_close.                                                      *)
Positions ==
    [key : Holdings, src : Sources, price : Prices \cup {0},
     stale : BOOLEAN, prev : Days \cup {None}, of : Holdings]
CashPosition(a) ==
    [key |-> <<a, Cash>>, src |-> "none", price |-> 1, stale |-> FALSE,
     prev |-> None, of |-> <<a, Cash>>]
CashPositions == {CashPosition(a) : a \in Accounts}

ASSUME NoneAssumption ==
    None \notin Int \cup Positions \cup CashPositions \cup Items

(* A pending _fetch_previous_closes_cached: the day under which it looked,  *)
(* what it found in the cache, and what it has to fetch.                    *)
Calls == [today : Days, found : [Contracts -> Days \cup {None}],
          misses : SUBSET Contracts]

TypeOK ==
    /\ state \in States
    /\ session \in {"none", "up", "down"}
    /\ phase \in {"idle", "dialled", "closes", "seeding", "off"}
    /\ snap \in [Contracts -> {None} \cup (Holdings \X Items)]
    /\ listed \subseteq Holdings
    /\ call \in {None} \cup Calls
    /\ todo \subseteq Positions
    /\ current \in {None} \cup Positions
    /\ cashRows \subseteq CashPositions
    /\ named \subseteq Contracts
    /\ rows \in [Keys -> {None} \cup Positions \cup CashPositions]
    /\ \A k \in Keys : rows[k] # None => rows[k].key = k
    /\ polled \in [Others -> {"none", "fresh", "stale"}]
    /\ streaming \in [Contracts -> {None} \cup Positions]
    /\ cache \in [Contracts -> {None} \cup [label : Days, of : Days]]
    /\ missed \in [Contracts -> {None} \cup Days]
    /\ refresh \in [at : {"none", "sleeping"}, due : 0..MaxDay + 1]
                     \cup [at : {"fetching"}, call : Calls]
    /\ mark \in [Holdings -> {None} \cup Items]
    /\ day \in Days

(* The first start() has failed, and its loop is about to try again.        *)
Init ==
    /\ state = "RECONNECTING"
    /\ session = "none"
    /\ phase = "idle"
    /\ snap = [c \in Contracts |-> None]
    /\ listed = {}
    /\ call = None
    /\ todo = {}
    /\ current = None
    /\ cashRows = {}
    /\ named = {}
    /\ rows = [k \in Keys |-> None]
    /\ polled = [o \in Others |-> "none"]
    /\ streaming = [c \in Contracts |-> None]
    /\ cache = [c \in Contracts |-> None]
    /\ missed = [c \in Contracts |-> None]
    /\ refresh = [at |-> "none", due |-> 0]
    /\ mark \in [Holdings -> {None} \cup Items]
    /\ day = 0

-----------------------------------------------------------------------------
(* Previous closes.                                                         *)

(* The call for contracts cs: those the cache has neither a close nor a     *)
(* miss for under today are fetched.                                        *)
Lookup(cs) ==
    LET hit(c) == cache[c] # None /\ cache[c].label = day
    IN  [today |-> day,
         found |-> [c \in Contracts |->
                      IF c \in cs /\ hit(c) THEN cache[c].of ELSE None],
         misses |-> {c \in cs : ~hit(c) /\ missed[c] # day}]

(* What the fetchers return for the misses of a call, Yahoo's or else IB's  *)
(* last close: nothing, or the close of a day between the call and now.     *)
Fetched(k) == [k.misses -> {None} \cup k.today..day]

(* Mutation of Cached: the label is the day on which the answer came.       *)
CachedWhenDone(k, fresh) ==
    /\ cache' = [c \in Contracts |->
                    IF c \in k.misses /\ fresh[c] # None
                    THEN [label |-> day, of |-> fresh[c]] ELSE cache[c]]
    /\ missed' = [c \in Contracts |->
                    IF c \in k.misses
                    THEN IF fresh[c] = None THEN day ELSE None
                    ELSE missed[c]]

(* Answers are cached under the day that was read before the fetch.         *)
Cached(k, fresh) ==
    /\ cache' = [c \in Contracts |->
                    IF c \in k.misses /\ fresh[c] # None
                    THEN [label |-> k.today, of |-> fresh[c]] ELSE cache[c]]
    /\ missed' = [c \in Contracts |->
                    IF c \in k.misses
                    THEN IF fresh[c] = None THEN k.today ELSE None
                    ELSE missed[c]]

(* The day of the close the call returns for a contract, or None.           *)
CloseDay(k, fresh, c) == IF c \in k.misses THEN fresh[c] ELSE k.found[c]

-----------------------------------------------------------------------------
(* Building a position.                                                     *)

(* The price per unit of a portfolio item: its market price or, without     *)
(* one, its market value divided by the quantity, which may well be 0.      *)
DisplayPrice(item) == IF item.price > 0 THEN item.price ELSE item.worth

(* The position of a holding: the ticker's price, else the mark of the      *)
(* portfolio item of the same contract, else the previous close.            *)
Position(k, quote, item, prev) ==
    LET p(src, price, of) ==
            [key |-> k, src |-> src, price |-> price, stale |-> FALSE,
             prev |-> prev, of |-> of]
        priced == item # None /\ DisplayPrice(item[2]) # None
    IN  CASE quote > 0 -> p("live", quote, k)
          [] quote = 0 /\ priced -> p("mark", DisplayPrice(item[2]), item[1])
          [] quote = 0 /\ ~priced /\ prev # None ->
                p("close", CloseOf[prev], k)
          [] OTHER -> p("none", 0, k)

(* reqTickers is asked for contracts that need no permission; 0: no price.  *)
Quotes == {q \in [Contracts -> Prices \cup {0}] : \A c \in Gated : q[c] = 0}

Held == {k \in Holdings : mark[k] # None}

(* IB's portfolio as a map by conId: of the items of several accounts for   *)
(* one contract the last one stays.                                         *)
PortfolioItems ==
    {s \in [Contracts -> {None} \cup (Holdings \X Items)] :
        \A c \in Contracts :
            IF \E k \in Held : k[2] = c
            THEN \E k \in Held : k[2] = c /\ s[c] = <<k, mark[k]>>
            ELSE s[c] = None}

-----------------------------------------------------------------------------
(* Seeding a session: connect(), get_positions(), _start_streaming().       *)

(* Mutation of Attempt: CONNECTED is assigned before the session is seeded. *)
AttemptConnectsEarly ==
    /\ phase = "idle" /\ state = "RECONNECTING"
    /\ streaming' = [c \in Contracts |-> None]
    /\ session' = "up"
    /\ phase' = "dialled"
    /\ state' = "CONNECTED"
    /\ UNCHANGED <<seedVars, named, rows, polled, closeVars, refresh, mark,
                   day>>

(* An attempt of the loop whose dial succeeds.                              *)
Attempt ==
    /\ phase = "idle" /\ state = "RECONNECTING"
    /\ streaming' = [c \in Contracts |-> None]
    /\ session' = "up"
    /\ phase' = "dialled"
    /\ UNCHANGED <<state, seedVars, named, rows, polled, closeVars, refresh,
                   mark, day>>

(* One whose dial fails; after the last delay the loop gives up.            *)
DialFails ==
    /\ phase = "idle" /\ state = "RECONNECTING"
    /\ streaming' = [c \in Contracts |-> None]
    /\ session' = "none"
    /\ state' \in {"RECONNECTING", "DISCONNECTED"}
    /\ UNCHANGED <<phase, seedVars, named, rows, polled, closeVars, refresh,
                   mark, day>>

(* reqPositions has answered with what is held: the portfolio is read,      *)
(* tickers are asked for, and the closes are requested under the day it is  *)
(* now.                                                                     *)
FetchPositions ==
    /\ phase = "dialled" /\ session = "up"
    /\ snap' \in PortfolioItems
    /\ listed' = Held
    /\ call' = Lookup({k[2] : k \in Held})
    /\ phase' = "closes"
    /\ UNCHANGED <<state, session, todo, current, cashRows, named, rows,
                   polled, streaming, closeVars, refresh, mark, day>>

(* Before its first row is written, connect() may raise: it forgets the IB  *)
(* object, unhooks the handlers, and the loop sleeps or gives up.           *)
SeedingFails ==
    /\ phase \in {"dialled", "closes"}
    /\ phase' = "idle"
    /\ session' = "none"
    /\ state' \in {"RECONNECTING", "DISCONNECTED"}
    /\ snap' = [c \in Contracts |-> None]
    /\ call' = None
    /\ UNCHANGED <<listed, todo, current, cashRows, named, rows, polled,
                   streaming, closeVars, refresh, mark, day>>

(* The for loop of _start_streaming up to its next await, with the STK      *)
(* positions "rest" to go: the next one's row is written and its contract   *)
(* looked up.  CASH rows come last and need no lookup; then the refresh     *)
(* task is replaced and connect() returns.                                  *)
SeedNext(rest, cash) ==
    \/ \E p \in rest :
        /\ rows' = [rows EXCEPT ![p.key] = p]
        /\ current' = p
        /\ todo' = rest \ {p}
        /\ cashRows' = cash
        /\ phase' = "seeding"
        /\ UNCHANGED <<state, refresh>>
    \/ /\ rest = {}
       /\ rows' = [k \in Keys |->
                      IF \E p \in cash : p.key = k
                      THEN CHOOSE p \in cash : p.key = k ELSE rows[k]]
       /\ current' = None
       /\ todo' = {}
       /\ cashRows' = {}
       /\ phase' = "idle"
       /\ state' = "CONNECTED"
       /\ refresh' = [at |-> "sleeping", due |-> day + 1]

(* The contracts _resolve_name has succeeded for: those in the name cache   *)
(* and, if the session is there to ask, others of what is listed, with a    *)
(* known listing exchange.  Asking without it raises.                       *)
Resolved(cs) ==
    LET asked == {k[2] : k \in listed}
    IN  /\ named \subseteq cs /\ cs \subseteq named \cup asked
        /\ session = "down" => asked \subseteq named

(* Accounts with a CASH row: those reqPositions reports it for and, if the  *)
(* account summary answers, those it has cash for.                          *)
CashAccounts == {Reported, Reported \cup Summarised}

(* The closes have come, names are resolved and positions built; what       *)
(* is listed under a name that cannot be resolved is left out.              *)
BuildPositions ==
    /\ phase = "closes"
    /\ \E fresh \in Fetched(call), quote \in Quotes, cs \in SUBSET Contracts,
          cash \in CashAccounts :
        /\ Resolved(cs)
        /\ Cached(call, fresh)
        /\ named' = cs
        /\ SeedNext({Position(k, quote[k[2]], snap[k[2]],
                              CloseDay(call, fresh, k[2])) :
                        k \in {h \in listed : h[2] \in cs}},
                    {CashPosition(a) : a \in cash})
    /\ snap' = [c \in Contracts |-> None]
    /\ call' = None
    /\ UNCHANGED <<session, listed, polled, streaming, mark, day>>

(* _contract_for_position returns: errors count as no contract.  A contract *)
(* that may be streamed is subscribed, and its entry is the position as it  *)
(* was built, whatever became of the row during the lookup.                 *)
LookedUp ==
    /\ phase = "seeding"
    /\ \/ UNCHANGED streaming
       \/ /\ session = "up"
          /\ current.key[2] \notin Gated
          /\ streaming' = [streaming EXCEPT ![current.key[2]] = current]
    /\ SeedNext(todo, cashRows)
    /\ UNCHANGED <<session, snap, listed, call, named, polled, closeVars, mark,
                   day>>

-----------------------------------------------------------------------------
(* Updates of a session.                                                    *)

(* Mutation of Ticked: the entry keeps the price it was seeded with.        *)
TickedRowOnly(c, price) ==
    LET old == streaming[c]
        new == [old EXCEPT !.src = "live", !.price = price, !.stale = FALSE,
                           !.of = old.key]
    IN  /\ price # old.price
        /\ rows' = [rows EXCEPT ![new.key] = new]
        /\ UNCHANGED streaming

(* _on_ticker_update: a price that repeats the last one is ignored, another *)
(* one is written to the entry and to the entry's row.                      *)
Ticked(c, price) ==
    LET old == streaming[c]
        new == [old EXCEPT !.src = "live", !.price = price, !.stale = FALSE,
                           !.of = old.key]
    IN  /\ price # old.price
        /\ streaming' = [streaming EXCEPT ![c] = new]
        /\ rows' = [rows EXCEPT ![new.key] = new]

(* The handler of a ticker is there as long as the session is.              *)
Tick(c) ==
    /\ session = "up" /\ streaming[c] # None
    /\ \E price \in Prices : Ticked(c, price)
    /\ UNCHANGED <<state, session, phase, seedVars, named, polled, closeVars,
                   refresh, mark, day>>

(* A streamed contract's row that shows a price of its own takes no marks.  *)
Ignored(row) ==
    /\ streaming[row.key[2]] # None
    /\ row.src # "mark"
    /\ row.price > 0

(* The row of an item's contract: the first one found, of any account.      *)
RowsOf(c) == {rows[j] : j \in {h \in Holdings : h[2] = c /\ rows[h] # None}}

(* The row after an item was applied.  If the displayed price is the same,  *)
(* only a change of the unrealized P&L or of the average cost makes it one. *)
Marked(row, k, item) ==
    LET price == DisplayPrice(item)
        new == [row EXCEPT !.src = "mark", !.stale = FALSE, !.of = k,
                           !.price = IF price = None THEN @ ELSE price]
    IN  IF new.price = row.price THEN {row, new} ELSE {new}

(* _on_portfolio_update for the item of holding k.                          *)
PortfolioUpdate(k, item) ==
    IF RowsOf(k[2]) = {}
    THEN UNCHANGED <<rows, streaming>>
    ELSE \E row \in RowsOf(k[2]) :
            IF Ignored(row)
            THEN UNCHANGED <<rows, streaming>>
            ELSE \E new \in Marked(row, k, item) :
                    /\ rows' = [rows EXCEPT ![row.key] = new]
                    /\ streaming' =
                         IF new # row /\ streaming[k[2]] # None
                         THEN [streaming EXCEPT ![k[2]] = new]
                         ELSE streaming

(* The event of a portfolio item comes while the session is up.             *)
PortfolioEvent(k, item) ==
    /\ IF session = "up"
       THEN PortfolioUpdate(k, item)
       ELSE UNCHANGED <<rows, streaming>>
    /\ UNCHANGED <<state, session, phase, seedVars, named, polled, closeVars,
                   refresh, day>>

(* IB values a holding anew.                                                *)
Revalue(k) ==
    /\ mark[k] # None
    /\ \E i \in Items \ {mark[k]} :
        /\ mark' = [mark EXCEPT ![k] = i]
        /\ PortfolioEvent(k, i)

(* The owner buys what was not held, or sells all of it, which IB reports   *)
(* as an item of quantity 0.  The adapter adds and removes no row for it.   *)
Buy(k) ==
    /\ mark[k] = None
    /\ \E i \in Items :
        /\ mark' = [mark EXCEPT ![k] = i]
        /\ PortfolioEvent(k, i)

Sell(k) ==
    /\ mark[k] # None
    /\ mark' = [mark EXCEPT ![k] = None]
    /\ \E i \in Items : PortfolioEvent(k, i)

(* A poll of another broker replaces that broker's rows; a position that is *)
(* polled is never stale.                                                   *)
Poll(o) ==
    /\ \E r \in {"none", "fresh"} : polled' = [polled EXCEPT ![o] = r]
    /\ UNCHANGED <<state, session, phase, seedVars, named, rows, streaming,
                   closeVars, refresh, mark, day>>

-----------------------------------------------------------------------------
(* The daily re-seed of previous closes.                                    *)

Streamed == {c \in Contracts : streaming[c] # None}

(* It is five past midnight, and the task wakes up.  Without an IB object   *)
(* or an entry it does nothing that day; it does not ask whether the        *)
(* session is up.                                                           *)
RefreshDue ==
    /\ refresh.at = "sleeping" /\ refresh.due <= day
    /\ refresh' = IF session = "none" \/ Streamed = {}
                  THEN [at |-> "sleeping", due |-> day + 1]
                  ELSE [at |-> "fetching", call |-> Lookup(Streamed)]
    /\ UNCHANGED <<state, session, phase, seedVars, named, rows, polled,
                   streaming, closeVars, mark, day>>

(* The closes have come: the entries there are now, and their rows, are     *)
(* replaced where the close differs.                                        *)
Reseed ==
    /\ refresh.at = "fetching"
    /\ \E fresh \in Fetched(refresh.call) :
        LET d(c) == CloseDay(refresh.call, fresh, c)
            renewed == {c \in Streamed :
                          /\ d(c) # None
                          /\ streaming[c].prev # None =>
                                CloseOf[streaming[c].prev] # CloseOf[d(c)]}
            new(c) == [streaming[c] EXCEPT !.prev = d(c)]
        IN  /\ Cached(refresh.call, fresh)
            /\ streaming' = [c \in Contracts |->
                               IF c \in renewed THEN new(c) ELSE streaming[c]]
            /\ rows' = [k \in Keys |->
                          IF \E c \in renewed : streaming[c].key = k
                          THEN new(k[2]) ELSE rows[k]]
    /\ refresh' = [at |-> "sleeping", due |-> day + 1]
    /\ UNCHANGED <<state, session, phase, seedVars, named, polled, mark, day>>

-----------------------------------------------------------------------------
(* Drops, the operator and the calendar.                                    *)

(* Mutation of MarkStale: the rows of cash too.                             *)
MarkAllStale ==
    /\ rows' = [k \in Keys |-> IF rows[k] # None
                               THEN [rows[k] EXCEPT !.stale = TRUE]
                               ELSE rows[k]]
    /\ polled' = [o \in Others |->
                     IF polled[o] = "fresh" THEN "stale" ELSE polled[o]]

(* _mark_live_positions_stale: every row but those of cash, whichever       *)
(* broker it is of.                                                         *)
MarkStale ==
    /\ rows' = [k \in Keys |-> IF k \in Holdings /\ rows[k] # None
                               THEN [rows[k] EXCEPT !.stale = TRUE]
                               ELSE rows[k]]
    /\ polled' = [o \in Others |->
                     IF polled[o] = "fresh" THEN "stale" ELSE polled[o]]

(* The session is lost.  While a loop is at work the handler returns early; *)
(* else tick handlers go, rows are marked and a loop is spawned.            *)
Drop ==
    /\ session = "up"
    /\ session' = "down"
    /\ IF state = "RECONNECTING"
       THEN UNCHANGED <<state, rows, polled>>
       ELSE state' = "RECONNECTING" /\ MarkStale
    /\ UNCHANGED <<phase, seedVars, named, streaming, closeVars, refresh,
                   mark, day>>

(* retry_now after the loop gave up runs the disconnect handler.            *)
RetryNow ==
    /\ state = "DISCONNECTED" /\ phase = "idle"
    /\ state' = "RECONNECTING"
    /\ MarkStale
    /\ UNCHANGED <<session, phase, seedVars, named, streaming, closeVars,
                   refresh, mark, day>>

(* disconnect(): the loop is cancelled wherever it awaits; without an IB    *)
(* object it returns before _stop_streaming.                                *)
Disconnect ==
    /\ phase # "off"
    /\ phase' = "off"
    /\ state' = "DISCONNECTED"
    /\ session' = "none"
    /\ snap' = [c \in Contracts |-> None]
    /\ call' = None
    /\ todo' = {}
    /\ current' = None
    /\ cashRows' = {}
    /\ IF session = "none"
       THEN UNCHANGED <<streaming, refresh>>
       ELSE /\ streaming' = [c \in Contracts |-> None]
            /\ refresh' = [at |-> "none", due |-> 0]
    /\ UNCHANGED <<listed, named, rows, polled, closeVars, mark, day>>

(* Midnight, UTC.  The re-seed of a day ends on that day: it starts five    *)
(* minutes after midnight and its requests have timeouts.                   *)
Midnight ==
    /\ day < MaxDay
    /\ refresh.at = "sleeping" => refresh.due > day
    /\ refresh.at # "fetching"
    /\ day' = day + 1
    /\ UNCHANGED <<state, session, phase, seedVars, named, rows, polled,
                   streaming, closeVars, refresh, mark>>

Next ==
    \/ Attempt \/ DialFails \/ FetchPositions \/ SeedingFails
    \/ BuildPositions \/ LookedUp
    \/ \E c \in Contracts : Tick(c)
    \/ \E k \in Holdings : Revalue(k) \/ Buy(k) \/ Sell(k)
    \/ \E o \in Others : Poll(o)
    \/ RefreshDue \/ Reseed
    \/ Drop \/ RetryNow \/ Disconnect \/ Midnight

Spec == Init /\ [][Next]_vars

-----------------------------------------------------------------------------
(* The row of a streamed holding that shows a live price is the very        *)
(* position its _streaming entry holds, from which the next tick and the    *)
(* next re-seed start: no writer of rows gets between the two.              *)
RowsFollowStream ==
    \A c \in Streamed :
        LET row == rows[streaming[c].key]
        IN  row # None /\ (row.src = "live" /\ ~row.stale => row = streaming[c])

(* When the adapter says CONNECTED and its session is up, a row of its own  *)
(* that is still dimmed by a drop is of a position that this session was    *)
(* told of no more: whatever it reported has been seeded again, and cash is *)
(* never dimmed.                                                            *)
FreshWhenConnected ==
    state = "CONNECTED" /\ session = "up" =>
        \A k \in Keys : rows[k] # None /\ rows[k].stale => k \in Holdings \ listed

(* A close that the cache gives out as today's was fetched today or later,  *)
(* even if midnight passed while its fetch was under way.                   *)
CloseLabelHonest ==
    \A c \in Contracts : cache[c] # None => cache[c].of >= cache[c].label

(* After a reconnect nothing of this broker is dimmed: "Opacity returns to  *)
(* 100%, (the warning sign) disappears" (docs/HITL-GOLIVE.md).              *)
(* It does not hold: a drop dims the row of a position that was sold, and   *)
(* nobody writes that row again.                                            *)
NothingDimmed ==
    state = "CONNECTED" /\ session = "up" =>
        \A k \in Keys : rows[k] # None => ~rows[k].stale

(* While connected, the row of a holding in a market without quotes that    *)
(* shows a broker mark shows the one IB values the holding at: updates      *)
(* "Refresh live rows from IB's account-level portfolio valuation feed"     *)
(* (_on_portfolio_update).  It does not hold: get_positions reads an item   *)
(* before it awaits, and its row is written over an update that came since. *)
MarksShown ==
    state = "CONNECTED" /\ session = "up" =>
        \A k \in Held :
            /\ k[2] \in Gated
            /\ rows[k] # None /\ rows[k].src = "mark"
            /\ DisplayPrice(mark[k]) # None
            => rows[k].price = DisplayPrice(mark[k])

(* A row shows its own account's valuation: "Identical positions in         *)
(* different accounts are separate rows" (PLAN.md).                         *)
OwnValuation == \A k \in Keys : rows[k] # None => rows[k].of = k

=============================================================================
