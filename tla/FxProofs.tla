------------------------------ MODULE FxProofs ------------------------------
(***************************************************************************)
(* Proofs about the two halves of the FX service.  FxSubscriptions, for    *)
(* any currencies, any number of callers of ensure_subscribed and of       *)
(* sessions: with the types, the bookkeeping of subscriptions is its own   *)
(* inductive invariant, since between the check of _ib and the two         *)
(* assignments there is no await.  FxRates, for any currencies, prices and *)
(* instants: the invariant says which rows of memory, queue and table may  *)
(* coexist.                                                                *)
(***************************************************************************)
EXTENDS FxSubscriptions, FxRates, TLAPS

SubscriptionInv == TypeOK /\ SubscriptionsCurrent

(* The calls' part of TypeOK, and what the rest of it is about.             *)
CallsOK ==
    /\ left \in [Callers -> SUBSET Currencies]
    /\ awaited \in [Callers -> (Supported \ IbExcluded) \cup {None}]
    /\ asked \in [Callers -> 0..ib]
    /\ \A k \in Callers : awaited[k] # None => asked[k] # 0

(* A for loop that goes on leaves the calls well-typed.                     *)
LEMMA ProceedType ==
    ASSUME TypeOK, ib # 0, UNCHANGED <<dialled, ib>>,
           NEW k \in Callers, NEW rest \in SUBSET Currencies,
           NEW subscribed, Proceed(k, rest, subscribed)
    PROVE  CallsOK'
  <1> DEFINE skip == {c \in rest \cap Supported :
                         c \in IbExcluded \/ subscribed[c] # 0}
  <1>1. CASE Returns(k)
    BY <1>1, SessionAssumption DEF TypeOK, CallsOK, Returns
  <1>2. ASSUME NEW c \in (rest \cap Supported) \ skip, NEW skipped \in SUBSET skip,
               Looks(k, c, rest \ ({c} \cup skipped))
        PROVE  CallsOK'
    <2>1. c \in Supported \ IbExcluded
      OBVIOUS
    <2> QED
      BY <1>2, <2>1 DEF TypeOK, CallsOK, Looks
  <1> QED
    BY <1>1, <1>2 DEF Proceed

(* Every step keeps every variable of its type.                             *)
LEMMA TypeStep == ASSUME TypeOK, [Next]_vars PROVE TypeOK'
  <1>1. CASE Connect
    <2>1. dialled' \in 0..MaxSessions /\ 0..dialled \subseteq 0..dialled'
      BY <1>1, SessionAssumption DEF TypeOK, Connect
    <2>2. open' \subseteq 1..dialled' /\ open \subseteq open' /\ ib' \in 0..dialled'
      BY <1>1, <2>1, SessionAssumption DEF TypeOK, Connect, attach_ib
    <2>3. tickers' \in [Supported -> 0..dialled']
      BY <1>1, <2>1 DEF Connect, attach_ib
    <2>4. asked' \in [Callers -> 0..ib']
      <3>1. 0..ib \subseteq 0..ib'
        BY <1>1, SessionAssumption DEF TypeOK, Connect, attach_ib
      <3> QED
        BY <1>1, <3>1 DEF TypeOK, Connect, calls
    <2> QED
      BY <1>1, <2>1, <2>2, <2>3, <2>4 DEF TypeOK, Connect, calls
  <1>2. ASSUME NEW s \in open, Drop(s) PROVE TypeOK'
    <2>1. feeds' \subseteq open' \X Supported
      BY <1>2 DEF TypeOK, Drop
    <2> QED
      BY <1>2, <2>1 DEF TypeOK, Drop, calls
  <1>3. ASSUME NEW k \in Callers, EnsureSubscribed(k) PROVE TypeOK'
    BY <1>3, ProceedType DEF TypeOK, CallsOK, EnsureSubscribed, environment
  <1>4. ASSUME NEW k \in Callers, Qualified(k) PROVE TypeOK'
    <2>1. awaited[k] \in Supported /\ left[k] \in SUBSET Currencies
      BY <1>4 DEF TypeOK, Qualified
    <2>2. ib # 0
      BY <1>4, SessionAssumption DEF TypeOK, Qualified
    <2>3. CallsOK'
      BY <1>4, <2>1, <2>2, ProceedType DEF Qualified, environment
    <2>4. tickers' \in [Supported -> 0..dialled]
      BY <1>4, <2>1 DEF TypeOK, Qualified
    <2>5. feeds' \subseteq open \X Supported
      BY <1>4, <2>1 DEF TypeOK, Qualified
    <2> QED
      BY <1>4, <2>3, <2>4, <2>5 DEF TypeOK, CallsOK, Qualified, environment
  <1>5. ASSUME NEW k \in Callers, NotQualified(k) PROVE TypeOK'
    <2>1. left[k] \in SUBSET Currencies /\ ib # 0
      BY <1>5, SessionAssumption DEF TypeOK, NotQualified
    <2> QED
      BY <1>5, <2>1, ProceedType
      DEF TypeOK, CallsOK, NotQualified, environment
  <1>6. CASE PortfolioChanges
    BY <1>6 DEF TypeOK, PortfolioChanges, calls
  <1>7. CASE GatewayFalters
    BY <1>7 DEF TypeOK, GatewayFalters, calls
  <1>8. CASE UNCHANGED vars
    BY <1>8 DEF TypeOK, vars
  <1> QED
    BY <1>1, <1>2, <1>3, <1>4, <1>5, <1>6, <1>7, <1>8 DEF Next, CallerStep

(* Every variable of the FX subscriptions keeps its type.                   *)
THEOREM TypeCorrect == Spec => []TypeOK
  <1>1. Init => TypeOK
    BY SessionAssumption DEF Init, TypeOK
  <1> QED
    BY <1>1, TypeStep, PTL DEF Spec

(* A currency that ensure_subscribed would skip as subscribed has its       *)
(* subscription on the session in use, for any overlap of callers, drops    *)
(* and reconnects.                                                          *)
THEOREM SubscriptionsFollowSession == Spec => []SubscriptionsCurrent
  <1>1. Init => SubscriptionInv
    BY SessionAssumption DEF Init, SubscriptionInv, TypeOK, SubscriptionsCurrent
  <1>2. SubscriptionInv /\ [Next]_vars => SubscriptionInv'
    <2> SUFFICES ASSUME SubscriptionInv, [Next]_vars
                 PROVE  SubscriptionsCurrent'
      BY TypeStep DEF SubscriptionInv
    <2>1. CASE Connect
      BY <2>1 DEF SubscriptionsCurrent, Connect, attach_ib
    <2>2. ASSUME NEW s \in open, Drop(s) PROVE SubscriptionsCurrent'
      BY <2>2 DEF SubscriptionInv, SubscriptionsCurrent, Drop
    <2>3. ASSUME NEW k \in Callers, Qualified(k) PROVE SubscriptionsCurrent'
      BY <2>3 DEF SubscriptionInv, SubscriptionsCurrent, TypeOK, Qualified,
         environment
    <2>4. ASSUME NEW k \in Callers, EnsureSubscribed(k) \/ NotQualified(k)
          PROVE  SubscriptionsCurrent'
      BY <2>4 DEF SubscriptionInv, SubscriptionsCurrent, EnsureSubscribed,
         NotQualified, environment
    <2>5. CASE PortfolioChanges \/ GatewayFalters \/ UNCHANGED vars
      BY <2>5 DEF SubscriptionInv, SubscriptionsCurrent, PortfolioChanges,
         GatewayFalters, vars
    <2> QED
      BY <2>1, <2>2, <2>3, <2>4, <2>5 DEF Next, CallerStep
  <1>3. SubscriptionInv => SubscriptionsCurrent
    BY DEF SubscriptionInv
  <1> QED
    BY <1>1, <1>2, <1>3, PTL DEF Spec

-----------------------------------------------------------------------------
(* The rates.                                                               *)

(* The refresh awaits at most one write, and a process that is off has left *)
(* nothing behind but the table.                                            *)
OneAwaited ==
    /\ \A i, j \in DOMAIN writes :
          writes[i].awaited /\ writes[j].awaited => i = j
    /\ phase = "off" => refresh = Resting /\ writes = <<>>

(* No row of the API for a currency excluded from it, queued or stored.     *)
Eligible(c, row) == row.source = "API_FALLBACK" => c \notin ApiExcluded

RowsEligible ==
    /\ \A i \in DOMAIN writes : Eligible(writes[i].currency, writes[i].row)
    /\ \A c \in FxCurrencies : disk[c] # NoValue => Eligible(c, disk[c])

(* What is queued or stored has a rate of its source in memory.             *)
InMemory(c, row) ==
    \/ row.source = "IB" /\ ibRates[c] # NoValue
    \/ row.source = "API_FALLBACK" /\ apiRates[c] # NoValue

RowsInMemory ==
    phase # "off" =>
       /\ \A i \in DOMAIN writes : InMemory(writes[i].currency, writes[i].row)
       /\ \A c \in FxCurrencies : disk[c] # NoValue => InMemory(c, disk[c])

(* No quote is from the future, and a refresh under way has a quoted_at no  *)
(* older than any rate of the API.                                          *)
TimesOrdered ==
    /\ \A i \in DOMAIN writes : writes[i].row.at <= now
    /\ \A c \in FxCurrencies :
          /\ disk[c] # NoValue => disk[c].at <= now
          /\ ibRates[c] # NoValue => ibRates[c].at <= now
          /\ apiRates[c] # NoValue => apiRates[c] <= now
    /\ refresh.pc = "storing" =>
          /\ refresh.at <= now
          /\ \A c \in FxCurrencies :
                apiRates[c] # NoValue => apiRates[c] <= refresh.at

RatesInv ==
    RatesTypeOK /\ OneAwaited /\ RowsEligible /\ RowsInMemory /\ TimesOrdered

(* A write joins the queue at its end.                                      *)
LEMMA QueueAppend ==
    ASSUME NEW q \in Seq(Write), NEW w \in Write
    PROVE  /\ Append(q, w) \in Seq(Write)
           /\ \A i \in DOMAIN Append(q, w) :
                \/ i \in DOMAIN q /\ Append(q, w)[i] = q[i]
                \/ i = Len(q) + 1 /\ Append(q, w)[i] = w
  OBVIOUS

(* The oldest write leaves the queue; the others move up.                   *)
LEMMA QueueTail ==
    ASSUME NEW q \in Seq(Write), q # <<>>
    PROVE  /\ Head(q) \in Write
           /\ 1 \in DOMAIN q /\ Head(q) = q[1]
           /\ Tail(q) \in Seq(Write)
           /\ \A i \in DOMAIN Tail(q) :
                 i \in Nat /\ i + 1 \in DOMAIN q /\ i + 1 # 1
                 /\ Tail(q)[i] = q[i + 1]
  OBVIOUS

(* The next set_rate of a refresh quoted at "at", behind a queue in which   *)
(* no write is awaited, keeps every part of the invariant that is not about *)
(* the table.                                                               *)
LEMMA SetApiRateStep ==
    ASSUME RatesInv, phase # "off", UNCHANGED <<now, phase, ibRates>>,
           NEW queued \in Seq(Write),
           \A i \in DOMAIN queued :
              \E j \in DOMAIN writes : queued[i] = writes[j],
           \A i \in DOMAIN queued : ~queued[i].awaited,
           NEW at \in Instants, at <= now,
           \A d \in FxCurrencies : apiRates[d] # NoValue => apiRates[d] <= at,
           NEW left_ \in SUBSET (FxCurrencies \ ApiExcluded), NEW c \in left_,
           SetApiRate(c, left_, at, queued)
    PROVE  /\ apiRates' \in [FxCurrencies -> Instants \cup {NoValue}]
           /\ \A d \in ApiExcluded : apiRates'[d] = NoValue
           /\ refresh' \in [pc: {"storing"},
                            left: SUBSET (FxCurrencies \ ApiExcluded),
                            at: Instants]
           /\ writes' \in Seq(Write)
           /\ OneAwaited'
           /\ \A i \in DOMAIN writes' :
                 /\ Eligible(writes'[i].currency, writes'[i].row)
                 /\ InMemory(writes[i].currency, writes[i].row)'
                 /\ writes'[i].row.at <= now
           /\ \A d \in FxCurrencies : apiRates[d] # NoValue =>
                 apiRates'[d] # NoValue /\ apiRates[d] <= apiRates'[d]
           /\ refresh'.at <= now
           /\ \A d \in FxCurrencies :
                 apiRates'[d] # NoValue => apiRates'[d] <= refresh'.at
  <1> DEFINE w == [currency |-> c, row |-> ApiRate(at), awaited |-> TRUE]
  <1>1. w \in Write /\ writes' = Append(queued, w)
    BY DEF Write, ApiRow, ApiRate, SetApiRate
  <1>2. /\ writes' \in Seq(Write)
        /\ \A i \in DOMAIN writes' :
              \/ i \in DOMAIN queued /\ writes'[i] = queued[i]
              \/ i = Len(queued) + 1 /\ writes'[i] = w
    BY <1>1, QueueAppend
  <1>3. /\ apiRates' = [apiRates EXCEPT ![c] = at]
        /\ refresh' = [pc |-> "storing", left |-> left_ \ {c}, at |-> at]
    BY DEF SetApiRate
  <1>4. /\ apiRates \in [FxCurrencies -> Instants \cup {NoValue}]
        /\ \A d \in ApiExcluded : apiRates[d] = NoValue
        /\ NoValue \notin Instants /\ Instants \subseteq Nat /\ now \in Instants
        /\ c \in FxCurrencies /\ c \notin ApiExcluded
    BY NoValueAssumption, InstantAssumption DEF RatesInv, RatesTypeOK
  <1>5. /\ apiRates' \in [FxCurrencies -> Instants \cup {NoValue}]
        /\ \A d \in ApiExcluded : apiRates'[d] = NoValue
        /\ \A d \in FxCurrencies : apiRates[d] # NoValue =>
              apiRates'[d] # NoValue /\ apiRates[d] <= apiRates'[d]
        /\ \A d \in FxCurrencies : apiRates'[d] # NoValue => apiRates'[d] <= at
    <2>1. ASSUME NEW d \in FxCurrencies
          PROVE  /\ apiRates'[d] = IF d = c THEN at ELSE apiRates[d]
                 /\ apiRates[d] # NoValue => apiRates[d] \in Nat
      BY <1>3, <1>4
    <2>2. at \in Nat /\ at # NoValue
      BY <1>4
    <2>3. /\ apiRates' \in [FxCurrencies -> Instants \cup {NoValue}]
          /\ \A d \in ApiExcluded : apiRates'[d] = NoValue
      BY <1>3, <1>4, ExcludedAssumption
    <2> QED
      BY <2>1, <2>2, <2>3
  <1>6. OneAwaited'
    BY <1>2 DEF OneAwaited
  <1>7. ASSUME NEW i \in DOMAIN writes'
        PROVE  /\ Eligible(writes'[i].currency, writes'[i].row)
               /\ InMemory(writes[i].currency, writes[i].row)'
               /\ writes'[i].row.at <= now
    <2>1. CASE writes'[i] = w
      <3>1. /\ writes'[i].currency = c /\ writes'[i].row.at = at
            /\ writes'[i].row.source = "API_FALLBACK" /\ apiRates'[c] # NoValue
        BY <2>1, <1>3, <1>4 DEF ApiRate
      <3> QED
        BY <1>4, <3>1 DEF Eligible, InMemory
    <2>2. CASE i \in DOMAIN queued /\ writes'[i] = queued[i]
      <3>1. PICK j \in DOMAIN writes : writes'[i] = writes[j]
        BY <2>2
      <3>2. writes[j] \in Write
        BY DEF RatesInv, RatesTypeOK
      <3>3. /\ Eligible(writes[j].currency, writes[j].row)
            /\ InMemory(writes[j].currency, writes[j].row)
            /\ writes[j].row.at <= now
        BY DEF RatesInv, RowsEligible, RowsInMemory, TimesOrdered
      <3> QED
        BY <1>5, <3>1, <3>2, <3>3 DEF InMemory, Write
    <2> QED
      BY <1>2, <2>1, <2>2
  <1> QED
    BY <1>2, <1>3, <1>4, <1>5, <1>6, <1>7

(* The facts about the constants and the types that the steps rest on.      *)
LEMMA RatesFacts ==
    ASSUME RatesInv
    PROVE  /\ NoValue \notin Instants /\ NoValue \notin IbRow \cup ApiRow
           /\ Instants \subseteq Nat /\ now \in Instants
           /\ \A row \in IbRow \cup ApiRow :
                 row.at \in Nat /\ row.source \in {"IB", "API_FALLBACK"}
           /\ \A i \in DOMAIN writes : writes[i] \in Write
  <1>1. NoValue \notin Instants /\ NoValue \notin IbRow \cup ApiRow
    BY NoValueAssumption
  <1>2. Instants \subseteq Nat /\ now \in Instants
    BY InstantAssumption DEF RatesInv, RatesTypeOK
  <1>3. \A row \in IbRow \cup ApiRow :
           row.at \in Nat /\ row.source \in {"IB", "API_FALLBACK"}
    BY <1>2 DEF IbRow, ApiRow
  <1>4. \A i \in DOMAIN writes : writes[i] \in Write
    BY DEF RatesInv, RatesTypeOK
  <1> QED
    BY <1>1, <1>2, <1>3, <1>4

(* A tick adds a row to the memory and the queue.                           *)
LEMMA TickStep ==
    ASSUME RatesInv, NEW c \in FxCurrencies, NEW p \in Prices, Tick(c, p)
    PROVE  RatesInv'
  <1> DEFINE row == [source |-> "IB", rate |-> p, at |-> now]
             w   == [currency |-> c, row |-> row, awaited |-> FALSE]
  <1>1. /\ ibRates' = [ibRates EXCEPT ![c] = row]
        /\ writes' = Append(writes, w)
        /\ phase = "serving"
        /\ UNCHANGED <<now, phase, apiRates, refresh, disk>>
    BY DEF Tick
  <1>2. row \in IbRow /\ w \in Write /\ row # NoValue /\ now <= now
    BY RatesFacts DEF IbRow, Write
  <1>3. /\ writes' \in Seq(Write)
        /\ \A i \in DOMAIN writes' :
              \/ i \in DOMAIN writes /\ writes'[i] = writes[i]
              \/ i = Len(writes) + 1 /\ writes'[i] = w
    BY <1>1, <1>2, QueueAppend DEF RatesInv, RatesTypeOK
  <1>4. \A d \in FxCurrencies : ibRates'[d] = IF d = c THEN row ELSE ibRates[d]
    BY <1>1 DEF RatesInv, RatesTypeOK
  <1>5. RatesTypeOK'
    <2>1. ibRates' \in [FxCurrencies -> IbRow \cup {NoValue}]
      BY <1>1, <1>2 DEF RatesInv, RatesTypeOK
    <2>2. \A i \in DOMAIN writes' : writes'[i].awaited => refresh'.pc = "storing"
      BY <1>1, <1>3 DEF RatesInv, RatesTypeOK
    <2> QED
      BY <1>1, <1>3, <2>1, <2>2 DEF RatesInv, RatesTypeOK
  <1>6. OneAwaited'
    BY <1>1, <1>3 DEF RatesInv, OneAwaited
  <1>7. RowsEligible'
    BY <1>1, <1>3 DEF RatesInv, RowsEligible, Eligible
  <1>8. RowsInMemory'
    <2>1. ASSUME NEW d \in FxCurrencies, NEW r, InMemory(d, r)
          PROVE  InMemory(d, r)'
      BY <1>1, <1>2, <1>4, <2>1 DEF InMemory
    <2>2. ASSUME NEW i \in DOMAIN writes'
          PROVE  InMemory(writes[i].currency, writes[i].row)'
      <3>1. CASE i \in DOMAIN writes /\ writes'[i] = writes[i]
        BY <1>1, <2>1, <3>1, RatesFacts DEF RatesInv, RowsInMemory, Write
      <3>2. CASE writes'[i] = w
        BY <1>2, <1>4, <3>2 DEF InMemory
      <3> QED
        BY <1>3, <3>1, <3>2
    <2>3. ASSUME NEW d \in FxCurrencies, disk'[d] # NoValue
          PROVE  InMemory(d, disk[d])'
      BY <1>1, <2>1, <2>3 DEF RatesInv, RowsInMemory
    <2> QED
      BY <2>2, <2>3 DEF RowsInMemory
  <1>9. TimesOrdered'
    <2>1. \A i \in DOMAIN writes' : writes'[i].row.at <= now
      BY <1>2, <1>3 DEF RatesInv, TimesOrdered
    <2>2. \A d \in FxCurrencies : ibRates'[d] # NoValue => ibRates'[d].at <= now
      BY <1>2, <1>4 DEF RatesInv, TimesOrdered
    <2> QED
      BY <1>1, <2>1, <2>2 DEF RatesInv, TimesOrdered
  <1> QED
    BY <1>5, <1>6, <1>7, <1>8, <1>9 DEF RatesInv

(* put_fx_rate: the row goes from the queue to the table, and the refresh   *)
(* that awaited it goes on.                                                 *)
LEMMA WrittenStep ==
    ASSUME RatesInv, NEW ok \in BOOLEAN, Written(ok)
    PROVE  RatesInv'
  <1> DEFINE w == Head(writes)
  <1>1. /\ writes \in Seq(Write) /\ writes # <<>> /\ w \in Write
        /\ 1 \in DOMAIN writes /\ w = writes[1]
        /\ Tail(writes) \in Seq(Write)
        /\ \A i \in DOMAIN Tail(writes) :
              i \in Nat /\ i + 1 \in DOMAIN writes /\ i + 1 # 1
              /\ Tail(writes)[i] = writes[i + 1]
    <2>1. writes \in Seq(Write) /\ writes # <<>>
      BY DEF RatesInv, RatesTypeOK, Written
    <2> QED
      BY <2>1, QueueTail
  <1>2. phase # "off" /\ UNCHANGED <<now, ibRates>> /\ phase' # "off"
    BY <1>1 DEF RatesInv, OneAwaited, Written, RefreshReturns
  <1>3. w.currency \in FxCurrencies /\ w.row \in IbRow \cup ApiRow
    BY <1>1 DEF Write
  <1>4. ASSUME NEW d \in FxCurrencies
        PROVE  disk'[d] = disk[d] \/ (d = w.currency /\ disk'[d] = w.row)
    BY <1>3 DEF Written, RatesInv, RatesTypeOK
  <1>5. disk' \in [FxCurrencies -> IbRow \cup ApiRow \cup {NoValue}]
    BY <1>3 DEF Written, RatesInv, RatesTypeOK
  <1>6. ASSUME NEW d \in FxCurrencies, disk'[d] # NoValue
        PROVE  /\ Eligible(d, disk'[d])
               /\ InMemory(d, disk'[d])
               /\ disk'[d].at <= now
    BY <1>1, <1>2, <1>4, <1>6 DEF RatesInv, RowsEligible, RowsInMemory, TimesOrdered
  <1>7. CASE w.awaited /\ refresh.left # {} /\ UNCHANGED phase
             /\ \E c \in refresh.left :
                   SetApiRate(c, refresh.left, refresh.at, Tail(writes))
    <2>1. PICK c \in refresh.left :
             SetApiRate(c, refresh.left, refresh.at, Tail(writes))
      BY <1>7
    <2>2. /\ refresh.pc = "storing" /\ refresh.at \in Instants
          /\ refresh.left \in SUBSET (FxCurrencies \ ApiExcluded)
      <3>1. refresh.pc = "storing"
        BY <1>1, <1>7 DEF RatesInv, RatesTypeOK
      <3> QED
        BY <3>1 DEF RatesInv, RatesTypeOK, Resting
    <2>3. \A i \in DOMAIN Tail(writes) : ~Tail(writes)[i].awaited
      BY <1>1, <1>7 DEF RatesInv, OneAwaited
    <2>4. \A i \in DOMAIN Tail(writes) :
             \E j \in DOMAIN writes : Tail(writes)[i] = writes[j]
      BY <1>1
    <2>5. /\ refresh.at <= now
          /\ \A d \in FxCurrencies :
                apiRates[d] # NoValue => apiRates[d] <= refresh.at
      BY <2>2 DEF RatesInv, TimesOrdered
    <2>6. /\ apiRates' \in [FxCurrencies -> Instants \cup {NoValue}]
          /\ \A d \in ApiExcluded : apiRates'[d] = NoValue
          /\ refresh' \in [pc: {"storing"},
                           left: SUBSET (FxCurrencies \ ApiExcluded),
                           at: Instants]
          /\ writes' \in Seq(Write)
          /\ OneAwaited'
          /\ \A i \in DOMAIN writes' :
                /\ Eligible(writes'[i].currency, writes'[i].row)
                /\ InMemory(writes[i].currency, writes[i].row)'
                /\ writes'[i].row.at <= now
          /\ \A d \in FxCurrencies : apiRates[d] # NoValue =>
                apiRates'[d] # NoValue /\ apiRates[d] <= apiRates'[d]
          /\ refresh'.at <= now
          /\ \A d \in FxCurrencies :
                apiRates'[d] # NoValue => apiRates'[d] <= refresh'.at
      BY <1>1, <1>2, <1>7, <2>1, <2>2, <2>3, <2>4, <2>5, SetApiRateStep
    <2>7. RatesTypeOK'
      BY <1>2, <1>5, <1>7, <2>6 DEF RatesInv, RatesTypeOK
    <2>8. RowsEligible'
      BY <1>6, <2>6 DEF RowsEligible, Eligible
    <2>9. RowsInMemory'
      <3>1. ASSUME NEW d \in FxCurrencies, disk'[d] # NoValue
            PROVE  InMemory(d, disk[d])'
        BY <1>2, <1>6, <2>6, <3>1 DEF InMemory
      <3> QED
        BY <2>6, <3>1 DEF RowsInMemory
    <2>10. TimesOrdered'
      <3>1. refresh'.at \in Nat /\ now \in Nat
        BY <2>6, RatesFacts
      <3>2. \A d \in FxCurrencies : apiRates'[d] # NoValue =>
               apiRates'[d] \in Nat /\ apiRates'[d] <= now
        BY <2>6, <3>1, RatesFacts
      <3> QED
        BY <1>2, <1>6, <2>6, <3>2 DEF RatesInv, TimesOrdered
    <2> QED
      BY <2>6, <2>7, <2>8, <2>9, <2>10 DEF RatesInv
  <1>8. CASE writes' = Tail(writes) /\ UNCHANGED apiRates
             /\ \/ w.awaited /\ RefreshReturns
                \/ ~w.awaited /\ UNCHANGED <<refresh, phase>>
    <2>1. RatesTypeOK'
      <3>1. \A i \in DOMAIN writes' : writes'[i].awaited => refresh'.pc = "storing"
        <4>1. CASE w.awaited
          BY <1>1, <1>8, <4>1 DEF RatesInv, OneAwaited
        <4>2. CASE ~w.awaited
          BY <1>1, <1>8, <4>2 DEF RatesInv, RatesTypeOK
        <4> QED
          BY <4>1, <4>2
      <3> QED
        BY <1>1, <1>2, <1>5, <1>8, <3>1 DEF RatesInv, RatesTypeOK, RefreshReturns
    <2>2. OneAwaited'
      BY <1>1, <1>2, <1>8 DEF RatesInv, OneAwaited
    <2>3. RowsEligible'
      BY <1>1, <1>6, <1>8 DEF RatesInv, RowsEligible, Eligible
    <2>4. RowsInMemory'
      <3>1. ASSUME NEW d, NEW r, InMemory(d, r) PROVE InMemory(d, r)'
        BY <1>2, <1>8, <3>1 DEF InMemory
      <3> QED
        BY <1>1, <1>2, <1>6, <1>8, <3>1 DEF RatesInv, RowsInMemory, InMemory
    <2>5. TimesOrdered'
      BY <1>1, <1>2, <1>6, <1>8 DEF RatesInv, TimesOrdered, RefreshReturns, Resting
    <2> QED
      BY <2>1, <2>2, <2>3, <2>4, <2>5 DEF RatesInv
  <1> QED
    BY <1>7, <1>8 DEF Written

(* The first usable rate of a response, with the moment it came as the      *)
(* quoted_at of them all.                                                   *)
LEMMA FetchedStep ==
    ASSUME RatesInv, NEW usable \in SUBSET (FxCurrencies \ ApiExcluded),
           Fetched(usable)
    PROVE  RatesInv'
  <1>1. /\ refresh.pc = "fetching" /\ UNCHANGED <<now, phase, ibRates, disk>>
        /\ \E c \in usable : SetApiRate(c, usable, now, writes)
    BY DEF Fetched
  <1>2. PICK c \in usable : SetApiRate(c, usable, now, writes)
    BY <1>1
  <1>3. phase # "off"
    BY <1>1 DEF RatesInv, OneAwaited, Resting
  <1>4. /\ writes \in Seq(Write)
        /\ \A i \in DOMAIN writes : ~writes[i].awaited
    BY <1>1 DEF RatesInv, RatesTypeOK
  <1>5. /\ now \in Instants /\ now <= now
        /\ \A d \in FxCurrencies : apiRates[d] # NoValue => apiRates[d] <= now
    BY RatesFacts DEF RatesInv, TimesOrdered
  <1>6. /\ apiRates' \in [FxCurrencies -> Instants \cup {NoValue}]
        /\ \A d \in ApiExcluded : apiRates'[d] = NoValue
        /\ refresh' \in [pc: {"storing"},
                         left: SUBSET (FxCurrencies \ ApiExcluded),
                         at: Instants]
        /\ writes' \in Seq(Write)
        /\ OneAwaited'
        /\ \A i \in DOMAIN writes' :
              /\ Eligible(writes'[i].currency, writes'[i].row)
              /\ InMemory(writes[i].currency, writes[i].row)'
              /\ writes'[i].row.at <= now
        /\ \A d \in FxCurrencies : apiRates[d] # NoValue =>
              apiRates'[d] # NoValue /\ apiRates[d] <= apiRates'[d]
        /\ refresh'.at <= now
        /\ \A d \in FxCurrencies :
              apiRates'[d] # NoValue => apiRates'[d] <= refresh'.at
    BY <1>1, <1>2, <1>3, <1>4, <1>5, SetApiRateStep
  <1>7. RatesTypeOK'
    BY <1>1, <1>6 DEF RatesInv, RatesTypeOK
  <1>8. RowsEligible'
    BY <1>1, <1>6 DEF RatesInv, RowsEligible, Eligible
  <1>9. RowsInMemory'
    <2>1. ASSUME NEW d \in FxCurrencies, disk'[d] # NoValue
          PROVE  InMemory(d, disk[d])'
      <3>1. InMemory(d, disk[d])
        BY <1>1, <1>3, <2>1 DEF RatesInv, RowsInMemory
      <3> QED
        BY <1>1, <1>6, <3>1 DEF InMemory
    <2> QED
      BY <1>6, <2>1 DEF RowsInMemory
  <1>10. TimesOrdered'
    <2>1. refresh'.at \in Nat /\ now \in Nat
      BY <1>6, RatesFacts
    <2>2. \A d \in FxCurrencies : apiRates'[d] # NoValue =>
             apiRates'[d] \in Nat /\ apiRates'[d] <= now
      BY <1>6, <2>1, RatesFacts
    <2> QED
      BY <1>1, <1>6, <2>2 DEF RatesInv, TimesOrdered
  <1> QED
    BY <1>6, <1>7, <1>8, <1>9, <1>10 DEF RatesInv

(* start() fills the memory from the table, each row by its source.         *)
LEMMA StartStep == ASSUME RatesInv, Start PROVE RatesInv'
  <1>1. /\ phase = "off" /\ phase' = "starting" /\ UNCHANGED <<now, writes, disk>>
        /\ refresh' = [pc |-> "fetching", left |-> {}, at |-> NoValue]
        /\ writes = <<>>
    BY DEF Start, RatesInv, OneAwaited
  <1>2. ASSUME NEW c \in FxCurrencies
        PROVE  /\ ibRates'[c] = IF disk[c] # NoValue /\ disk[c].source = "IB"
                                THEN disk[c] ELSE NoValue
               /\ apiRates'[c] = IF disk[c] # NoValue
                                    /\ disk[c].source = "API_FALLBACK"
                                 THEN disk[c].at ELSE NoValue
    BY DEF Start, LoadedFrom
  <1>3. ASSUME NEW c \in FxCurrencies, disk[c] # NoValue
        PROVE  /\ disk[c].at \in Instants
               /\ disk[c].source = "IB" => disk[c] \in IbRow
               /\ disk[c].source \in {"IB", "API_FALLBACK"}
    BY <1>3 DEF RatesInv, RatesTypeOK, IbRow, ApiRow
  <1>4. RatesTypeOK'
    <2>1. /\ ibRates' = [c \in FxCurrencies |-> ibRates'[c]]
          /\ apiRates' = [c \in FxCurrencies |-> apiRates'[c]]
      BY DEF Start
    <2>2. /\ \A c \in FxCurrencies : ibRates'[c] \in IbRow \cup {NoValue}
          /\ \A c \in FxCurrencies : apiRates'[c] \in Instants \cup {NoValue}
      BY <1>2, <1>3
    <2>3. \A c \in ApiExcluded : apiRates'[c] = NoValue
      BY <1>2, ExcludedAssumption DEF RatesInv, RowsEligible, Eligible
    <2>4. /\ ibRates' \in [FxCurrencies -> IbRow \cup {NoValue}]
          /\ apiRates' \in [FxCurrencies -> Instants \cup {NoValue}]
      BY <2>1, <2>2
    <2>5. \A i \in DOMAIN writes' : FALSE
      BY <1>1
    <2> QED
      BY <1>1, <2>3, <2>4, <2>5 DEF RatesInv, RatesTypeOK
  <1>5. OneAwaited' /\ RowsEligible'
    BY <1>1 DEF RatesInv, OneAwaited, RowsEligible, Eligible
  <1>6. RowsInMemory'
    <2>1. ASSUME NEW c \in FxCurrencies, disk'[c] # NoValue
          PROVE  InMemory(c, disk[c])'
      BY <1>1, <1>2, <1>3, <2>1, RatesFacts DEF InMemory
    <2> QED
      BY <1>1, <2>1 DEF RowsInMemory
  <1>7. TimesOrdered'
    BY <1>1, <1>2 DEF RatesInv, TimesOrdered
  <1> QED
    BY <1>4, <1>5, <1>6, <1>7 DEF RatesInv

(* The clock moves on, and with it only the bound on the times.             *)
LEMMA TimePassesStep == ASSUME RatesInv, TimePasses PROVE RatesInv'
  <1>1. /\ now' \in Instants /\ now' > now
        /\ UNCHANGED <<phase, ibRates, apiRates, refresh, writes, disk>>
    BY DEF TimePasses
  <1>2. RatesTypeOK' /\ OneAwaited'
    BY <1>1 DEF RatesInv, RatesTypeOK, OneAwaited
  <1>3. RowsEligible' /\ RowsInMemory'
    BY <1>1 DEF RatesInv, RowsEligible, Eligible, RowsInMemory, InMemory
  <1>4. TimesOrdered'
    <2>1. \A t \in Nat : t <= now => t <= now'
      BY <1>1, RatesFacts
    <2>2. /\ \A i \in DOMAIN writes : writes[i].row.at \in Nat
          /\ \A c \in FxCurrencies :
                /\ disk[c] # NoValue => disk[c].at \in Nat
                /\ ibRates[c] # NoValue => ibRates[c].at \in Nat
                /\ apiRates[c] # NoValue => apiRates[c] \in Nat
          /\ refresh.pc = "storing" => refresh.at \in Nat
      <3>1. \A i \in DOMAIN writes : writes[i].row.at \in Nat
        BY RatesFacts DEF Write
      <3>2. \A c \in FxCurrencies :
               /\ disk[c] # NoValue => disk[c].at \in Nat
               /\ ibRates[c] # NoValue => ibRates[c].at \in Nat
               /\ apiRates[c] # NoValue => apiRates[c] \in Nat
        BY RatesFacts DEF RatesInv, RatesTypeOK
      <3>3. refresh.pc = "storing" => refresh.at \in Nat
        BY RatesFacts DEF RatesInv, RatesTypeOK, Resting
      <3> QED
        BY <3>1, <3>2, <3>3
    <2> QED
      BY <1>1, <2>1, <2>2 DEF RatesInv, TimesOrdered
  <1> QED
    BY <1>2, <1>3, <1>4 DEF RatesInv

(* Every step of the rates keeps the invariant.                             *)
LEMMA RatesStep == ASSUME RatesInv, [RatesNext]_rateVars PROVE RatesInv'
  <1>1. ASSUME RefreshStarts PROVE RatesInv'
    <2>1. refresh = Resting /\ phase = "serving"
          /\ refresh' = [pc |-> "fetching", left |-> {}, at |-> NoValue]
          /\ UNCHANGED <<now, phase, ibRates, apiRates, writes, disk>>
      BY <1>1 DEF RefreshStarts
    <2> QED
      BY <2>1 DEF RatesInv, RatesTypeOK, OneAwaited, RowsEligible, Eligible,
         RowsInMemory, InMemory, TimesOrdered, Resting
  <1>2. ASSUME FetchFails PROVE RatesInv'
    <2>1. /\ refresh.pc = "fetching" /\ refresh' = Resting /\ phase' = "serving"
          /\ UNCHANGED <<now, ibRates, apiRates, writes, disk>>
      BY <1>2 DEF FetchFails, RefreshReturns
    <2>2. phase # "off"
      BY <2>1 DEF RatesInv, OneAwaited, Resting
    <2> QED
      BY <2>1, <2>2 DEF RatesInv, RatesTypeOK, OneAwaited, RowsEligible,
         Eligible, RowsInMemory, InMemory, TimesOrdered, Resting
  <1>3. ASSUME FirstRefreshTimesOut PROVE RatesInv'
    <2>1. /\ phase = "starting" /\ refresh' = Resting /\ phase' = "serving"
          /\ writes' = [i \in DOMAIN writes |->
                          [writes[i] EXCEPT !.awaited = FALSE]]
          /\ UNCHANGED <<now, ibRates, apiRates, disk>>
      BY <1>3 DEF FirstRefreshTimesOut, RefreshReturns
    <2>2. /\ writes' \in Seq(Write) /\ DOMAIN writes' = DOMAIN writes
          /\ \A i \in DOMAIN writes :
                /\ writes'[i].currency = writes[i].currency
                /\ writes'[i].row = writes[i].row /\ ~writes'[i].awaited
      <3>1. /\ \A i \in DOMAIN writes : writes[i] \in Write
            /\ Len(writes) \in Nat /\ DOMAIN writes = 1..Len(writes)
        BY RatesFacts DEF RatesInv, RatesTypeOK
      <3>2. \A i \in DOMAIN writes :
               /\ writes'[i] \in Write
               /\ writes'[i].currency = writes[i].currency
               /\ writes'[i].row = writes[i].row /\ ~writes'[i].awaited
        BY <2>1, <3>1 DEF Write
      <3>3. writes' \in [1..Len(writes) -> Write]
        BY <2>1, <3>1, <3>2
      <3> QED
        BY <2>1, <3>1, <3>2, <3>3
    <2>3. RatesTypeOK' /\ OneAwaited'
      BY <2>1, <2>2 DEF RatesInv, RatesTypeOK, OneAwaited
    <2>4. RowsEligible'
      BY <2>1, <2>2 DEF RatesInv, RowsEligible, Eligible
    <2>5. RowsInMemory'
      BY <2>1, <2>2 DEF RatesInv, RowsInMemory, InMemory
    <2>6. TimesOrdered'
      BY <2>1, <2>2 DEF RatesInv, TimesOrdered, Resting
    <2> QED
      BY <2>3, <2>4, <2>5, <2>6 DEF RatesInv
  <1>4. ASSUME Stop PROVE RatesInv'
    <2>1. /\ phase' = "off" /\ refresh' = Resting /\ writes' = <<>>
          /\ ibRates' = [c \in FxCurrencies |-> NoValue]
          /\ apiRates' = [c \in FxCurrencies |-> NoValue]
          /\ UNCHANGED <<now, disk>>
      BY <1>4 DEF Stop
    <2> QED
      BY <2>1, ExcludedAssumption DEF RatesInv, RatesTypeOK, OneAwaited,
         RowsEligible, Eligible, RowsInMemory, TimesOrdered, Resting
  <1>5. CASE UNCHANGED rateVars
    BY <1>5 DEF rateVars, RatesInv, RatesTypeOK, OneAwaited, RowsEligible,
       Eligible, RowsInMemory, InMemory, TimesOrdered
  <1> QED
    BY <1>1, <1>2, <1>3, <1>4, <1>5, TickStep, WrittenStep, FetchedStep,
       StartStep, TimePassesStep DEF RatesNext

(* Memory, queue and table of the FX service agree as RatesInv says.        *)
THEOREM RatesInvariant == RatesSpec => []RatesInv
  <1>1. RatesInit => RatesInv
    <2> SUFFICES ASSUME RatesInit PROVE RatesInv
      OBVIOUS
    <2>1. writes = <<>> /\ writes \in Seq(Write) /\ \A i \in DOMAIN writes : FALSE
      BY DEF RatesInit
    <2> QED
      BY <2>1, ExcludedAssumption DEF RatesInit, RatesInv, RatesTypeOK,
         OneAwaited, RowsEligible, RowsInMemory, TimesOrdered, Resting
  <1> QED
    BY <1>1, RatesStep, PTL DEF RatesSpec

(* Every variable of the rates keeps its type: in particular a write that   *)
(* the refresh awaits is never left in the queue without the refresh.       *)
THEOREM RatesTypeCorrect == RatesSpec => []RatesTypeOK
  <1>1. RatesInv => RatesTypeOK
    BY DEF RatesInv
  <1> QED
    BY <1>1, RatesInvariant, PTL

(* A currency with a row in fx_cache is served from the start of every      *)
(* process on, whichever of its writes failed or got lost.                  *)
THEOREM KnownRateIsServed == RatesSpec => []KnownRateServed
  <1>1. RatesInv => KnownRateServed
    <2> SUFFICES ASSUME RatesInv, phase # "off", NEW c \in FxCurrencies,
                        disk[c] # NoValue
                 PROVE  ServedRate(c) # NoValue
      BY DEF KnownRateServed
    <2>1. ibRates[c] # NoValue \/ apiRates[c] # NoValue
      BY DEF RatesInv, RowsInMemory, InMemory
    <2>2. apiRates[c] # NoValue => ApiRate(apiRates[c]) # NoValue
      <3>1. apiRates[c] # NoValue => ApiRate(apiRates[c]) \in ApiRow
        BY DEF RatesInv, RatesTypeOK, ApiRate, ApiRow
      <3> QED
        BY <3>1, RatesFacts
    <2> QED
      BY <2>1, <2>2 DEF ServedRate, pick_rate
  <1> QED
    BY <1>1, RatesInvariant, PTL

(* With the IB rate as it is, an API rate no older and a later moment at    *)
(* which the market is open, the choice does not fall on an older quote.    *)
LEMMA PickMonotone ==
    ASSUME NEW ibRate \in IbRow \cup {NoValue},
           NEW a \in Instants \cup {NoValue}, NEW b \in Instants \cup {NoValue},
           NEW t \in Instants, NEW u \in Instants, t <= u,
           is_fx_market_open(u),
           a # NoValue => b # NoValue /\ a <= b,
           pick_rate(ibRate, a, t) # NoValue
    PROVE  /\ pick_rate(ibRate, b, u) # NoValue
           /\ pick_rate(ibRate, b, u).at >= pick_rate(ibRate, a, t).at
  <1>1. /\ NoValue \notin Instants /\ NoValue \notin IbRow /\ NoValue \notin ApiRow
        /\ Instants \subseteq Nat
    BY NoValueAssumption, InstantAssumption
  <1>2. \A x \in Instants : ApiRate(x) # NoValue /\ ApiRate(x).at = x
    BY <1>1 DEF ApiRate, ApiRow
  <1>3. t \in Nat /\ u \in Nat
    BY <1>1
  <1>4. CASE ibRate = NoValue
    <2>1. a # NoValue /\ pick_rate(ibRate, a, t) = ApiRate(a)
      BY <1>4 DEF pick_rate
    <2>2. pick_rate(ibRate, b, u) = ApiRate(b)
      BY <1>4, <2>1 DEF pick_rate
    <2> QED
      BY <1>1, <1>2, <2>1, <2>2
  <1>5. CASE ibRate \in IbRow
    <2>1. ibRate.at \in Nat /\ ibRate # NoValue
      BY <1>1, <1>5 DEF IbRow
    <2>2. compute_staleness(ibRate, t) => compute_staleness(ibRate, u)
      BY <1>3, <2>1 DEF compute_staleness, IB_STALENESS_SECONDS
    <2>3. CASE a # NoValue /\ compute_staleness(ibRate, t) /\ a > ibRate.at
      <3>1. pick_rate(ibRate, a, t) = ApiRate(a)
        BY <2>1, <2>3 DEF pick_rate
      <3>2. a \in Nat /\ b \in Nat /\ b > ibRate.at /\ b # NoValue
        BY <1>1, <2>1, <2>3
      <3>3. pick_rate(ibRate, b, u) = ApiRate(b)
        BY <2>1, <2>2, <2>3, <3>2 DEF pick_rate
      <3> QED
        BY <1>1, <1>2, <2>3, <3>1, <3>2, <3>3
    <2>4. CASE ~(a # NoValue /\ compute_staleness(ibRate, t) /\ a > ibRate.at)
      <3>1. pick_rate(ibRate, a, t) = ibRate
        BY <2>1, <2>4 DEF pick_rate
      <3>2. CASE b # NoValue /\ compute_staleness(ibRate, u) /\ b > ibRate.at
        <4>1. pick_rate(ibRate, b, u) = ApiRate(b)
          BY <2>1, <3>2 DEF pick_rate
        <4> QED
          BY <1>1, <1>2, <2>1, <3>1, <3>2, <4>1
      <3>3. CASE ~(b # NoValue /\ compute_staleness(ibRate, u) /\ b > ibRate.at)
        <4>1. pick_rate(ibRate, b, u) = ibRate
          BY <2>1, <3>3 DEF pick_rate
        <4> QED
          BY <2>1, <3>1, <4>1
      <3> QED
        BY <3>2, <3>3
    <2> QED
      BY <2>3, <2>4
  <1> QED
    BY <1>4, <1>5

(* A process that goes on serving leaves the IB rate of c alone and has an  *)
(* API rate no older, or takes a tick for c.                                *)
LEMMA ServingStep ==
    ASSUME RatesInv, [RatesNext]_rateVars, phase = "serving", phase' = "serving",
           NEW c \in FxCurrencies
    PROVE  \/ /\ ibRates'[c] = ibRates[c] /\ now <= now'
              /\ apiRates[c] # NoValue =>
                    apiRates'[c] # NoValue /\ apiRates[c] <= apiRates'[c]
           \/ \E p \in Prices :
                 /\ ibRates'[c] = [source |-> "IB", rate |-> p, at |-> now]
                 /\ UNCHANGED <<now, apiRates>>
  <1> DEFINE Same == /\ ibRates'[c] = ibRates[c] /\ now <= now'
                     /\ apiRates[c] # NoValue =>
                           apiRates'[c] # NoValue /\ apiRates[c] <= apiRates'[c]
  <1>1. /\ now \in Nat /\ now <= now
        /\ apiRates[c] # NoValue => apiRates[c] \in Nat
        /\ NoValue \notin Instants
    BY RatesFacts DEF RatesInv, RatesTypeOK
  <1>2. CASE UNCHANGED <<now, ibRates, apiRates>>
    BY <1>1, <1>2
  <1>3. ASSUME NEW d \in FxCurrencies, NEW p \in Prices, Tick(d, p)
        PROVE  \/ Same
               \/ /\ ibRates'[c] = [source |-> "IB", rate |-> p, at |-> now]
                  /\ UNCHANGED <<now, apiRates>>
    BY <1>1, <1>3 DEF Tick, RatesInv, RatesTypeOK
  <1>4. ASSUME NEW d \in FxCurrencies, NEW left_, NEW at \in Instants, NEW queued,
               SetApiRate(d, left_, at, queued), UNCHANGED <<now, ibRates>>,
               apiRates[c] # NoValue => apiRates[c] <= at
        PROVE  Same
    <2>1. apiRates'[c] = IF c = d THEN at ELSE apiRates[c]
      BY <1>4 DEF SetApiRate, RatesInv, RatesTypeOK
    <2> QED
      BY <1>1, <1>4, <2>1
  <1>5. ASSUME NEW usable \in SUBSET (FxCurrencies \ ApiExcluded), Fetched(usable)
        PROVE  Same
    <2>1. apiRates[c] # NoValue => apiRates[c] <= now
      BY DEF RatesInv, TimesOrdered
    <2> QED
      BY <1>4, <1>5, <2>1, RatesFacts DEF Fetched
  <1>6. ASSUME NEW ok \in BOOLEAN, Written(ok) PROVE Same
    <2>1. CASE UNCHANGED apiRates
      <3>1. UNCHANGED <<now, ibRates>>
        BY <1>6, Zenon DEF Written
      <3> QED
        BY <1>1, <2>1, <3>1
    <2>2. CASE Head(writes).awaited
               /\ \E d \in refresh.left :
                     SetApiRate(d, refresh.left, refresh.at, Tail(writes))
      <3>1. refresh.pc = "storing"
        <4>1. writes \in Seq(Write) /\ writes # <<>>
          BY <1>6 DEF Written, RatesInv, RatesTypeOK
        <4>2. 1 \in DOMAIN writes /\ writes[1].awaited
          BY <2>2, <4>1, QueueTail
        <4> QED
          BY <4>2 DEF RatesInv, RatesTypeOK
      <3>2. refresh.at \in Instants /\ refresh.left \subseteq FxCurrencies
        BY <3>1 DEF RatesInv, RatesTypeOK, Resting
      <3>3. apiRates[c] # NoValue => apiRates[c] <= refresh.at
        BY <3>1 DEF RatesInv, TimesOrdered
      <3> QED
        BY <1>4, <1>6, <2>2, <3>2, <3>3 DEF Written
    <2>3. \/ UNCHANGED apiRates
          \/ Head(writes).awaited
             /\ \E d \in refresh.left :
                   SetApiRate(d, refresh.left, refresh.at, Tail(writes))
      BY <1>6, Zenon DEF Written
    <2> QED
      BY <2>1, <2>2, <2>3
  <1>7. ASSUME TimePasses PROVE Same
    <2>1. now' \in Nat /\ now' > now /\ UNCHANGED <<ibRates, apiRates>>
      BY <1>7, RatesFacts DEF TimePasses
    <2> QED
      BY <1>1, <2>1
  <1>8. ~Start /\ ~Stop
    BY DEF Start, Stop
  <1>9. ASSUME RefreshStarts \/ FetchFails \/ FirstRefreshTimesOut
               \/ UNCHANGED rateVars
        PROVE  UNCHANGED <<now, ibRates, apiRates>>
    BY <1>9 DEF RefreshStarts, FetchFails, FirstRefreshTimesOut, rateVars
  <1> QED
    BY <1>2, <1>3, <1>5, <1>6, <1>7, <1>8, <1>9 DEF RatesNext

(* While the market is open the rate served is never replaced by an older   *)
(* quote, whatever ticks, refreshes and writes overlap.                     *)
THEOREM QuotesOnlyAdvance == RatesSpec => QuoteNeverOlder
  <1>1. ASSUME RatesInv, RatesInv', [RatesNext]_rateVars,
               NEW c \in FxCurrencies, phase = "serving", phase' = "serving",
               is_fx_market_open(now'), ServedRate(c) # NoValue
        PROVE  /\ ServedRate(c)' # NoValue
               /\ ServedRate(c)'.at >= ServedRate(c).at
    <2>1. /\ now \in Instants /\ now' \in Instants
          /\ ibRates[c] \in IbRow \cup {NoValue}
          /\ apiRates[c] \in Instants \cup {NoValue}
          /\ apiRates'[c] \in Instants \cup {NoValue}
      BY <1>1 DEF RatesInv, RatesTypeOK
    <2>2. CASE /\ ibRates'[c] = ibRates[c] /\ now <= now'
               /\ apiRates[c] # NoValue =>
                     apiRates'[c] # NoValue /\ apiRates[c] <= apiRates'[c]
      BY <1>1, <2>1, <2>2, PickMonotone DEF ServedRate
    <2>3. ASSUME NEW p \in Prices, UNCHANGED <<now, apiRates>>,
                 ibRates'[c] = [source |-> "IB", rate |-> p, at |-> now]
          PROVE  /\ ServedRate(c)' # NoValue
                 /\ ServedRate(c)'.at >= ServedRate(c).at
      <3>1. now \in Nat /\ ibRates'[c].at = now /\ ibRates'[c] # NoValue
        <4>1. ibRates'[c] \in IbRow
          BY <2>1, <2>3 DEF IbRow
        <4> QED
          BY <1>1, <2>3, <4>1, RatesFacts
      <3>2. ~compute_staleness(ibRates'[c], now)
        BY <3>1 DEF compute_staleness, IB_STALENESS_SECONDS
      <3>3. ServedRate(c)' = ibRates'[c]
        BY <2>3, <3>1, <3>2 DEF ServedRate, pick_rate
      <3>4. ServedRate(c).at <= now
        <4>1. ServedRate(c) = ibRates[c] \/ ServedRate(c) = ApiRate(apiRates[c])
          BY <1>1 DEF ServedRate, pick_rate
        <4>2. ibRates[c] # NoValue => ibRates[c].at <= now
          BY <1>1 DEF RatesInv, TimesOrdered
        <4>3. CASE ServedRate(c) = ApiRate(apiRates[c]) /\ apiRates[c] # NoValue
          BY <1>1, <4>3 DEF RatesInv, TimesOrdered, ApiRate
        <4>4. ServedRate(c) = ibRates[c] \/ apiRates[c] # NoValue
          BY <1>1 DEF ServedRate, pick_rate
        <4> QED
          BY <1>1, <4>1, <4>2, <4>3, <4>4
      <3>5. ServedRate(c).at \in Nat
        <4>1. ServedRate(c) \in IbRow \cup ApiRow
          BY <1>1, <2>1 DEF ServedRate, pick_rate, ApiRate, ApiRow
        <4> QED
          BY <1>1, <4>1, RatesFacts
      <3> QED
        BY <3>1, <3>3, <3>4, <3>5
    <2> QED
      BY <1>1, <2>2, <2>3, ServingStep
  <1>2. RatesInv /\ RatesInv' /\ [RatesNext]_rateVars =>
          [\A c \in FxCurrencies :
             (/\ phase = "serving" /\ phase' = "serving"
              /\ is_fx_market_open(now) /\ is_fx_market_open(now')
              /\ ServedRate(c) # NoValue)
             => /\ ServedRate(c)' # NoValue
                /\ ServedRate(c)'.at >= ServedRate(c).at]_rateVars
    BY <1>1
  <1> QED
    BY <1>2, RatesInvariant, PTL DEF RatesSpec, QuoteNeverOlder

=============================================================================
