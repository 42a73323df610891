------------------------ MODULE HoldingsStreamProofs ------------------------
(***************************************************************************)
(* Proofs about the SSE stream of module HoldingsStream, for every set of  *)
(* brokers, symbols and position values.                                   *)
(***************************************************************************)
EXTENDS HoldingsStream, TLAPS

SinglePage == \A c, d \in Clients : c = d

(* Why a single page loses nothing: while it is busy sending, what it was   *)
(* last sent is current or the flag is set, and a waiter that has been woken *)
(* finds the flag still set, because nobody else clears it.                 *)
FlagCovers(c) ==
    /\ pc[c] = "sending" => UpToDate(c) \/ changed
    /\ pc[c] = "waiting" => IF c \in woken THEN changed ELSE UpToDate(c)

StreamInv == \A c \in Clients : FlagCovers(c)

(* A partial function over the keys stays one when it is updated.           *)
LEMMA RowsUpdate ==
    ASSUME NEW K, NEW D \in SUBSET K, NEW f \in [D -> Position]
    PROVE  f \in RowsOver(K)
  BY DEF RowsOver

LEMMA RowsAreFunctions ==
    ASSUME NEW K, NEW r \in RowsOver(K)
    PROVE  DOMAIN r \in SUBSET K /\ r \in [DOMAIN r -> Position]
  BY DEF RowsOver

LEMMA ProduceType ==
    ASSUME TypeOK, Produce
    PROVE  rows' \in RowsOver(Keys) /\ Notify /\ UNCHANGED <<pc, sent>>
<1>0. DOMAIN rows \in SUBSET Keys /\ rows \in [DOMAIN rows -> Position]
  BY RowsAreFunctions DEF TypeOK
<1>1. ASSUME NEW k \in Keys, NEW p \in Position, SetPosition(k, p)
      PROVE  rows' \in RowsOver(Keys)
  <2>1. rows' \in [DOMAIN rows \cup {k} -> Position]
    BY <1>0, <1>1 DEF SetPosition
  <2> QED BY <1>0, <2>1, RowsUpdate DEF TypeOK
<1>2. ASSUME NEW b \in Brokers, NEW new \in RowsOver({b} \X Symbols),
             ReplaceBroker(b, new)
      PROVE  rows' \in RowsOver(Keys)
  <2>1. DOMAIN new \in SUBSET ({b} \X Symbols) /\ new \in [DOMAIN new -> Position]
    BY RowsAreFunctions
  <2>2. {b} \X Symbols \subseteq Keys
    BY DEF Keys
  <2>3. rows' \in [{k \in DOMAIN rows : k[1] # b} \cup DOMAIN new -> Position]
    BY <1>0, <1>2, <2>1 DEF ReplaceBroker, Merged
  <2> QED BY <1>0, <2>1, <2>2, <2>3, RowsUpdate DEF TypeOK
<1> QED BY <1>1, <1>2 DEF Produce, SetPosition, ReplaceAll, ReplaceBroker

LEMMA TypeInductive ==
    ASSUME TypeOK, [Next]_vars
    PROVE  TypeOK'
<1> USE DEF TypeOK, Waiting
<1>0. NoRows \in RowsOver(Keys)
  <2>1. NoRows \in [{} -> Position]
    BY DEF NoRows
  <2> QED BY <2>1 DEF RowsOver
<1>1. CASE Produce
  BY <1>1, ProduceType DEF Notify
<1>2. ASSUME NEW c \in Clients, Open(c) PROVE TypeOK'
  BY <1>2 DEF Open
<1>3. ASSUME NEW c \in Clients, Close(c) PROVE TypeOK'
  BY <1>0, <1>3 DEF Close
<1>4. ASSUME NEW c \in Clients, ClientStep(c) PROVE TypeOK'
  <2>1. CASE Sent(c)
    BY <2>1 DEF Sent, AwaitChange
  <2>2. CASE Wake(c)
    BY <2>2 DEF Wake
  <2>3. CASE Heartbeat(c)
    BY <2>3 DEF Heartbeat
  <2>4. CASE Push(c)
    BY <2>4 DEF Push
  <2>5. CASE NothingNew(c)
    BY <2>5 DEF NothingNew, AwaitChange
  <2> QED BY <1>4, <2>1, <2>2, <2>3, <2>4, <2>5 DEF ClientStep
<1>5. CASE UNCHANGED vars
  BY <1>5 DEF vars
<1> QED BY <1>1, <1>2, <1>3, <1>4, <1>5 DEF Next

(* The rows, the Event and the generators stay well typed; only a waiting   *)
(* client has a resolved waiter.                                            *)
THEOREM TypeCorrect == Spec => []TypeOK
<1>1. Init => TypeOK
  <2>1. NoRows \in [{} -> Position]
    BY DEF NoRows
  <2>2. NoRows \in RowsOver(Keys)
    BY <2>1 DEF RowsOver
  <2> QED BY <2>2 DEF Init, TypeOK, Waiting
<1> QED BY <1>1, TypeInductive, PTL DEF Spec

LEMMA StreamInductive ==
    ASSUME TypeOK, SinglePage, StreamInv, [Next]_vars
    PROVE  StreamInv'
<1> USE DEF TypeOK, StreamInv, FlagCovers, UpToDate
<1>1. CASE Produce
  BY <1>1, ProduceType DEF Notify, Waiting
<1>2. ASSUME NEW c \in Clients, Open(c) PROVE StreamInv'
  BY <1>2 DEF Open, SinglePage
<1>3. ASSUME NEW c \in Clients, Close(c) PROVE StreamInv'
  BY <1>3 DEF Close, SinglePage
<1>4. ASSUME NEW c \in Clients, ClientStep(c) PROVE StreamInv'
  <2>0. StreamInv' <=> FlagCovers(c)'
    BY <1>4 DEF SinglePage
  <2>1. CASE Sent(c)
    BY <2>0, <2>1 DEF Sent, AwaitChange, Waiting
  <2>2. CASE Wake(c)
    BY <2>0, <2>2 DEF Wake
  <2>3. CASE Heartbeat(c)
    BY <2>0, <2>3 DEF Heartbeat
  <2>4. CASE Push(c)
    BY <2>0, <2>4 DEF Push
  <2>5. CASE NothingNew(c)
    BY <2>0, <2>5 DEF NothingNew, AwaitChange, Waiting
  <2> QED BY <1>4, <2>1, <2>2, <2>3, <2>4, <2>5 DEF ClientStep
<1>5. CASE UNCHANGED vars
  BY <1>5 DEF vars
<1> QED BY <1>1, <1>2, <1>3, <1>4, <1>5 DEF Next

(* With one page open, the shared Event loses no change, whatever the rows  *)
(* and however sends, heartbeats and changes interleave.                    *)
THEOREM SinglePageMissesNothing == SinglePage => (Spec => []NoLostWakeup)
<1> SUFFICES ASSUME SinglePage PROVE Spec => []NoLostWakeup
  OBVIOUS
<1>1. Init => StreamInv
  BY DEF Init, StreamInv, FlagCovers
<1>2. TypeOK /\ StreamInv /\ [Next]_vars => StreamInv'
  BY StreamInductive
<1>3. StreamInv => NoLostWakeup
  BY DEF StreamInv, FlagCovers, NoLostWakeup
<1> QED BY <1>1, <1>2, <1>3, TypeCorrect, PTL DEF Spec
=============================================================================
