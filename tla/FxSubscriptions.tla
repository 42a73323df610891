-------------------------- MODULE FxSubscriptions --------------------------
(***************************************************************************)
(* How the FX service (app/core/fx.py) keeps IB subscriptions for the      *)
(* currencies of the portfolio.  ensure_subscribed is called by            *)
(* IbkrAdapter.get_positions, from connect(), from the snapshot loop and   *)
(* from the page; for each currency it awaits a contract lookup and then   *)
(* subscribes on whatever session attach_ib handed over last.  The rates   *)
(* themselves are modelled in FxRates.                                     *)
(***************************************************************************)
EXTENDS Naturals

CONSTANTS
    Supported,      \* SUPPORTED_FX
    Unsupported,    \* other currencies a position may have
    IbExcluded,     \* _IB_FX_UNSUPPORTED_CURRENCIES
    Callers,        \* coroutines that call ensure_subscribed
    MaxSessions,    \* sessions dialled in a behaviour
    None

Currencies == Supported \cup Unsupported

ASSUME CurrencyAssumption ==
    /\ Supported \cap Unsupported = {}
    /\ IbExcluded \subseteq Supported
    /\ None \notin Currencies
ASSUME SessionAssumption == MaxSessions \in Nat

VARIABLES
    held,       \* currencies of the positions held
    answers,    \* whether the gateway qualifies contracts at present
    dialled,    \* sessions so far, numbered from 1
    open,       \* those whose socket is open
    ib,         \* _ib, 0 for None
    tickers,    \* _tickers: the session each currency is subscribed on, or 0
    feeds,      \* <<session, currency>>: IB sends quotes, a handler is on
    left,       \* currencies left in the for loop of each caller
    awaited,    \* the currency whose lookup each caller awaits, or None
    asked       \* the session it asked

vars == <<held, answers, dialled, open, ib, tickers, feeds, left, awaited,
          asked>>
environment == <<held, answers, dialled, open>>
calls       == <<left, awaited, asked>>

TypeOK ==
    /\ held \subseteq Currencies
    /\ answers \in BOOLEAN
    /\ dialled \in 0..MaxSessions
    /\ open \subseteq 1..dialled
    /\ ib \in 0..dialled
    /\ tickers \in [Supported -> 0..dialled]
    /\ feeds \subseteq open \X Supported
    /\ left \in [Callers -> SUBSET Currencies]
    /\ awaited \in [Callers -> (Supported \ IbExcluded) \cup {None}]
    /\ asked \in [Callers -> 0..ib]
    /\ \A k \in Callers : awaited[k] # None => asked[k] # 0

Init ==
    /\ held \in SUBSET Currencies
    /\ answers = TRUE
    /\ dialled = 0
    /\ open = {}
    /\ ib = 0
    /\ tickers = [c \in Supported |-> 0]
    /\ feeds = {}
    /\ left = [k \in Callers |-> {}]
    /\ awaited = [k \in Callers |-> None]
    /\ asked = [k \in Callers |-> 0]

-----------------------------------------------------------------------------
(* Sessions.                                                                *)

(* Mutation of attach_ib: the bookkeeping of the old session is kept.       *)
AttachIbKeepsTickers(s) ==
    /\ ib' = s
    /\ UNCHANGED tickers

attach_ib(s) ==
    /\ ib' = s
    /\ tickers' = [c \in Supported |-> 0]

(* connect() has dialled and hands the session over.  The last one is       *)
(* closed, or open without an owner because its streaming failed.           *)
Connect ==
    /\ dialled < MaxSessions
    /\ dialled' = dialled + 1
    /\ open' = open \cup {dialled'}
    /\ attach_ib(dialled')
    /\ UNCHANGED <<held, answers, feeds, calls>>

(* A socket closes, and with it the market data requested on it.            *)
Drop(s) ==
    /\ open' = open \ {s}
    /\ feeds' = {f \in feeds : f[1] # s}
    /\ UNCHANGED <<held, answers, dialled, ib, tickers, calls>>

-----------------------------------------------------------------------------
(* ensure_subscribed, called by k.                                          *)

Returns(k) ==
    /\ left' = [left EXCEPT ![k] = {}]
    /\ awaited' = [awaited EXCEPT ![k] = None]
    /\ asked' = [asked EXCEPT ![k] = 0]

Looks(k, c, rest) ==
    /\ left' = [left EXCEPT ![k] = rest]
    /\ awaited' = [awaited EXCEPT ![k] = c]
    /\ asked' = [asked EXCEPT ![k] = ib]

(* Mutation of Proceed: a currency that needs no lookup comes first and     *)
(* ends the loop.                                                           *)
ProceedReturns(k, rest, subscribed) ==
    LET skip == {c \in rest \cap Supported :
                   c \in IbExcluded \/ subscribed[c] # 0}
    IN  \/ /\ rest = {} \/ skip # {} \/ rest \cap Unsupported # {}
           /\ Returns(k)
        \/ /\ skip = {}
           /\ \E c \in rest \cap Supported : Looks(k, c, rest \ {c})

(* The for loop goes on with the currencies in "rest", in the arbitrary     *)
(* order of a set, up to its next lookup.  Those subscribed by now and      *)
(* those IB has no pair for are skipped; validate_currency raises for an    *)
(* unsupported one, which ends the call.                                    *)
Proceed(k, rest, subscribed) ==
    LET skip == {c \in rest \cap Supported :
                   c \in IbExcluded \/ subscribed[c] # 0}
    IN  \/ rest = skip /\ Returns(k)
        \/ rest \cap Unsupported # {} /\ Returns(k)
        \/ \E c \in (rest \cap Supported) \ skip, skipped \in SUBSET skip :
              Looks(k, c, rest \ ({c} \cup skipped))

(* Mutation of EnsureSubscribed: it goes on without a session.              *)
EnsureSubscribedAnyway(k) ==
    /\ awaited[k] = None
    /\ Proceed(k, held, tickers)
    /\ UNCHANGED <<environment, ib, tickers, feeds>>

(* get_positions calls it for the currencies held.                          *)
EnsureSubscribed(k) ==
    /\ ib # 0
    /\ awaited[k] = None
    /\ Proceed(k, held, tickers)
    /\ UNCHANGED <<environment, ib, tickers, feeds>>

(* Mutation of Qualified: the session is read before the lookup.            *)
QualifiedOnAsked(k) ==
    /\ awaited[k] # None
    /\ asked[k] \in open /\ answers
    /\ tickers' = [tickers EXCEPT ![awaited[k]] = asked[k]]
    /\ feeds' = feeds \cup {<<asked[k], awaited[k]>>}
    /\ Proceed(k, left[k], tickers')
    /\ UNCHANGED <<environment, ib>>

(* The contract is qualified: reqMktData on what is _ib by now, and the     *)
(* handler is added.  reqMktData raises, and the error is logged, if the    *)
(* socket is closed.                                                        *)
Qualified(k) ==
    /\ awaited[k] # None
    /\ asked[k] \in open /\ answers
    /\ IF ib \in open
       THEN /\ tickers' = [tickers EXCEPT ![awaited[k]] = ib]
            /\ feeds' = feeds \cup {<<ib, awaited[k]>>}
       ELSE UNCHANGED <<tickers, feeds>>
    /\ Proceed(k, left[k], tickers')
    /\ UNCHANGED <<environment, ib>>

(* The lookup fails and the currency is skipped.                            *)
NotQualified(k) ==
    /\ awaited[k] # None
    /\ asked[k] \notin open \/ ~answers
    /\ Proceed(k, left[k], tickers)
    /\ UNCHANGED <<environment, ib, tickers, feeds>>

-----------------------------------------------------------------------------
(* The portfolio and the gateway.                                           *)

PortfolioChanges ==
    /\ \E c \in Currencies : held' \in {held \cup {c}, held \ {c}} \ {held}
    /\ UNCHANGED <<answers, dialled, open, ib, tickers, feeds, calls>>

GatewayFalters ==
    /\ answers' = ~answers
    /\ UNCHANGED <<held, dialled, open, ib, tickers, feeds, calls>>

CallerStep(k) == Qualified(k) \/ NotQualified(k)

Next ==
    \/ Connect
    \/ \E s \in open : Drop(s)
    \/ \E k \in Callers : EnsureSubscribed(k) \/ CallerStep(k)
    \/ PortfolioChanges
    \/ GatewayFalters

(* A lookup is answered, or fails, in the end; and the snapshot loop asks   *)
(* for the positions for ever, so ensure_subscribed is called again.        *)
Fairness ==
    \A k \in Callers : WF_vars(EnsureSubscribed(k)) /\ WF_vars(CallerStep(k))

Spec == Init /\ [][Next]_vars /\ Fairness

-----------------------------------------------------------------------------
(* Properties.                                                              *)

(* A currency that counts as subscribed, and is therefore skipped, is       *)
(* subscribed on the session in use and IB sends its quotes: attach_ib's    *)
(* "the next ensure_subscribed() call will re-register them", whatever      *)
(* lookups were under way on older sessions.                                *)
SubscriptionsCurrent ==
    \A c \in Supported :
        tickers[c] # 0 =>
            /\ tickers[c] = ib
            /\ ib \in open => <<ib, c>> \in feeds

(* A currency that is held is in the end subscribed on the session in use,  *)
(* if from some point on that session stays open, the gateway answers and   *)
(* no unsupported currency is held.                                         *)
HeldIsSubscribed ==
    <>[](ib \in open /\ answers /\ held \cap Unsupported = {}) =>
        \A c \in Supported \ IbExcluded :
            c \in held ~> tickers[c] = ib \/ c \notin held

=============================================================================
