------------------------------ MODULE FxRates ------------------------------
(***************************************************************************)
(* The rates of the FX service (app/core/fx.py): for each currency one     *)
(* streamed by IB and one polled from a public API, chosen between at      *)
(* every read, both written to one row of the table fx_cache.  Tick        *)
(* handlers write in memory at once and leave the row to a task; the API   *)
(* loop goes through the currencies with one quoted_at and awaits each     *)
(* write.  How subscriptions come about is modelled in FxSubscriptions.    *)
(*                                                                         *)
(* Time is in seconds since a Monday, 00:00 UTC.                           *)
(***************************************************************************)
EXTENDS Naturals, Sequences, FiniteSets

CONSTANTS
    FxCurrencies,   \* SUPPORTED_FX
    ApiExcluded,    \* never taken from the API: CNH
    Prices,         \* rates IB streams
    Instants,       \* points in time at which something happens
    MaxWrites,      \* writes of IB rates that may be pending
    NoValue

ASSUME ExcludedAssumption == ApiExcluded \subseteq FxCurrencies
ASSUME InstantAssumption == Instants \subseteq Nat /\ Instants # {}
ASSUME BoundAssumption == MaxWrites \in Nat

VARIABLES
    now,
    phase,      \* of start(): "off", "starting" until its refresh is over
    ibRates,    \* _ib_rates
    apiRates,   \* _api_rates: the instant each was quoted at
    refresh,    \* refresh_from_api: its await, currencies left, quoted_at
    writes,     \* writes queued on the connection to the database
    disk        \* fx_cache

rateVars == <<now, phase, ibRates, apiRates, refresh, writes, disk>>

IbRow  == [source: {"IB"}, rate: Prices, at: Instants]
ApiRow == [source: {"API_FALLBACK"}, at: Instants]

ASSUME NoValueAssumption == NoValue \notin Instants \cup IbRow \cup ApiRow

(* A queued write; the refresh awaits its own.                              *)
Write == [currency: FxCurrencies, row: IbRow \cup ApiRow, awaited: BOOLEAN]

Resting == [pc |-> "resting", left |-> {}, at |-> NoValue]

RatesTypeOK ==
    /\ now \in Instants
    /\ phase \in {"off", "starting", "serving"}
    /\ ibRates \in [FxCurrencies -> IbRow \cup {NoValue}]
    /\ apiRates \in [FxCurrencies -> Instants \cup {NoValue}]
    /\ \A c \in ApiExcluded : apiRates[c] = NoValue
    /\ refresh \in {Resting} \cup
                   [pc: {"fetching"}, left: {{}}, at: {NoValue}] \cup
                   [pc: {"storing"}, left: SUBSET (FxCurrencies \ ApiExcluded),
                    at: Instants]
    /\ writes \in Seq(Write)
    /\ \A i \in DOMAIN writes : writes[i].awaited => refresh.pc = "storing"
    /\ disk \in [FxCurrencies -> IbRow \cup ApiRow \cup {NoValue}]

RatesInit ==
    /\ now \in Instants /\ \A t \in Instants : now <= t
    /\ phase = "off"
    /\ ibRates = [c \in FxCurrencies |-> NoValue]
    /\ apiRates = [c \in FxCurrencies |-> NoValue]
    /\ refresh = Resting
    /\ writes = <<>>
    /\ disk = [c \in FxCurrencies |-> NoValue]

-----------------------------------------------------------------------------
(* Reading a rate.                                                          *)

Day  == 86400
Hour == 3600

(* Mon = 0 .. Sun = 6; open from Sunday 22:00 to Friday 22:00.              *)
is_fx_market_open(t) ==
    LET weekday == (t \div Day) % 7
        hour    == (t % Day) \div Hour
    IN  /\ weekday # 5
        /\ weekday = 6 => hour >= 22
        /\ weekday = 4 => hour < 22

IB_STALENESS_SECONDS == 60

compute_staleness(row, t) ==
    /\ row.source = "IB"
    /\ is_fx_market_open(t)
    /\ t > row.at + IB_STALENESS_SECONDS

ApiRate(at) == [source |-> "API_FALLBACK", at |-> at]

(* Mutation of pick_rate: a stale IB rate gives way to any API rate.        *)
PickRateAnyApi(ibRate, apiAt, t) ==
    IF ibRate = NoValue THEN IF apiAt = NoValue THEN NoValue ELSE ApiRate(apiAt)
    ELSE IF apiAt # NoValue /\ compute_staleness(ibRate, t)
         THEN ApiRate(apiAt) ELSE ibRate

pick_rate(ibRate, apiAt, t) ==
    IF ibRate = NoValue THEN IF apiAt = NoValue THEN NoValue ELSE ApiRate(apiAt)
    ELSE IF apiAt # NoValue /\ compute_staleness(ibRate, t) /\ apiAt > ibRate.at
         THEN ApiRate(apiAt) ELSE ibRate

(* get_rate_sync, for a currency that validate_currency accepts.            *)
ServedRate(c) == pick_rate(ibRates[c], apiRates[c], now)

(* The ticker's handler: a price that repeats the last one is ignored.      *)
Tick(c, price) ==
    /\ phase = "serving"
    /\ Cardinality({i \in DOMAIN writes : ~writes[i].awaited}) < MaxWrites
    /\ ibRates[c] # NoValue => ibRates[c].rate # price
    /\ LET row == [source |-> "IB", rate |-> price, at |-> now]
       IN  /\ ibRates' = [ibRates EXCEPT ![c] = row]
           /\ writes' = Append(writes, [currency |-> c, row |-> row,
                                       awaited |-> FALSE])
    /\ UNCHANGED <<now, phase, apiRates, refresh, disk>>

-----------------------------------------------------------------------------
(* The API: refresh_from_api, awaited by start() and by _api_poll_loop.     *)

(* set_rate for the next currency, up to the write it awaits behind those   *)
(* in "queued".                                                             *)
SetApiRate(c, left, at, queued) ==
    /\ apiRates' = [apiRates EXCEPT ![c] = at]
    /\ writes' = Append(queued, [currency |-> c, row |-> ApiRate(at),
                                 awaited |-> TRUE])
    /\ refresh' = [pc |-> "storing", left |-> left \ {c}, at |-> at]

(* The coroutine returns; start() goes on to spawn the poll loop.           *)
RefreshReturns ==
    /\ refresh' = Resting
    /\ phase' = "serving"

RefreshStarts ==
    /\ phase = "serving"
    /\ refresh = Resting
    /\ refresh' = [pc |-> "fetching", left |-> {}, at |-> NoValue]
    /\ UNCHANGED <<now, phase, ibRates, apiRates, writes, disk>>

(* The response has a usable rate for the currencies in "usable".           *)
Fetched(usable) ==
    /\ refresh.pc = "fetching"
    /\ \E c \in usable : SetApiRate(c, usable, now, writes)
    /\ UNCHANGED <<now, phase, ibRates, disk>>

(* The request fails, or the response has no usable rate.                   *)
FetchFails ==
    /\ refresh.pc = "fetching"
    /\ RefreshReturns
    /\ UNCHANGED <<now, ibRates, apiRates, writes, disk>>

(* Mutation of FirstRefreshTimesOut: the refresh is abandoned, its write    *)
(* still resumes it.                                                        *)
FirstRefreshAbandoned ==
    /\ phase = "starting"
    /\ RefreshReturns
    /\ UNCHANGED <<now, ibRates, apiRates, writes, disk>>

(* wait_for(..., timeout=3.0) cancels the refresh of start().               *)
FirstRefreshTimesOut ==
    /\ phase = "starting"
    /\ RefreshReturns
    /\ writes' = [i \in DOMAIN writes |-> [writes[i] EXCEPT !.awaited = FALSE]]
    /\ UNCHANGED <<now, ibRates, apiRates, disk>>

(* put_fx_rate: the oldest write is carried out, or fails and is logged.    *)
(* The refresh that awaits it goes on with its next currency.               *)
Written(ok) ==
    LET w == Head(writes) IN
    /\ writes # <<>>
    /\ disk' = IF ok THEN [disk EXCEPT ![w.currency] = w.row] ELSE disk
    /\ \/ /\ w.awaited /\ refresh.left # {}
          /\ \E c \in refresh.left :
                SetApiRate(c, refresh.left, refresh.at, Tail(writes))
          /\ UNCHANGED phase
       \/ /\ w.awaited /\ refresh.left = {}
          /\ RefreshReturns
          /\ writes' = Tail(writes)
          /\ UNCHANGED apiRates
       \/ /\ ~w.awaited
          /\ writes' = Tail(writes)
          /\ UNCHANGED <<apiRates, refresh, phase>>
    /\ UNCHANGED <<now, ibRates>>

-----------------------------------------------------------------------------
(* The process.                                                             *)

(* get_fx_rate: the currencies whose row has this source.                   *)
LoadedFrom(source) ==
    {c \in FxCurrencies : disk[c] # NoValue /\ disk[c].source = source}

(* Mutation of Start: only the rows of IB's rates are loaded.               *)
StartLoadsIb ==
    /\ phase = "off"
    /\ phase' = "starting"
    /\ ibRates' = [c \in FxCurrencies |->
          IF c \in LoadedFrom("IB") THEN disk[c] ELSE NoValue]
    /\ refresh' = [pc |-> "fetching", left |-> {}, at |-> NoValue]
    /\ UNCHANGED <<now, apiRates, writes, disk>>

(* start() loads fx_cache, each row into the bucket of its source, and      *)
(* awaits one refresh.                                                      *)
Start ==
    /\ phase = "off"
    /\ phase' = "starting"
    /\ ibRates' = [c \in FxCurrencies |->
          IF c \in LoadedFrom("IB") THEN disk[c] ELSE NoValue]
    /\ apiRates' = [c \in FxCurrencies |->
          IF c \in LoadedFrom("API_FALLBACK") THEN disk[c].at ELSE NoValue]
    /\ refresh' = [pc |-> "fetching", left |-> {}, at |-> NoValue]
    /\ UNCHANGED <<now, writes, disk>>

(* stop() or a crash: the tasks that write IB's rates are awaited by none.  *)
Stop ==
    /\ phase # "off"
    /\ phase' = "off"
    /\ ibRates' = [c \in FxCurrencies |-> NoValue]
    /\ apiRates' = [c \in FxCurrencies |-> NoValue]
    /\ refresh' = Resting
    /\ writes' = <<>>
    /\ UNCHANGED <<now, disk>>

TimePasses ==
    /\ \E t \in Instants :
         /\ t > now
         /\ \A u \in Instants : u > now => t <= u
         /\ now' = t
    /\ UNCHANGED <<phase, ibRates, apiRates, refresh, writes, disk>>

-----------------------------------------------------------------------------
RatesNext ==
    \/ \E c \in FxCurrencies, p \in Prices : Tick(c, p)
    \/ RefreshStarts
    \/ \E usable \in SUBSET (FxCurrencies \ ApiExcluded) : Fetched(usable)
    \/ FetchFails \/ FirstRefreshTimesOut
    \/ \E ok \in BOOLEAN : Written(ok)
    \/ Start \/ Stop
    \/ TimePasses

RatesSpec == RatesInit /\ [][RatesNext]_rateVars

-----------------------------------------------------------------------------
(* Properties.                                                              *)

(* "Prefer IB unless it's stale AND the API has a fresher value": while the *)
(* market is open, the rate served is never replaced by an older quote,     *)
(* also when a refresh stores an old response after newer ticks.            *)
QuoteNeverOlder ==
    [][\A c \in FxCurrencies :
         (/\ phase = "serving" /\ phase' = "serving"
          /\ is_fx_market_open(now) /\ is_fx_market_open(now')
          /\ ServedRate(c) # NoValue)
         => /\ ServedRate(c)' # NoValue
            /\ ServedRate(c)'.at >= ServedRate(c).at]_rateVars

(* start(): "Load last-known rates from disk so USD columns are populated   *)
(* before the first fresh IB tick or API poll arrives."  A currency with a  *)
(* row in fx_cache, whichever source and process wrote it, is served from   *)
(* the start of every later process on.                                     *)
KnownRateServed ==
    phase # "off" =>
        \A c \in FxCurrencies : disk[c] # NoValue => ServedRate(c) # NoValue

=============================================================================
