----------------------- MODULE ConnectionMonitorProofs -----------------------
(***************************************************************************)
(* Proofs about ConnectionMonitor, for any attention threshold: the queue  *)
(* of messages is bounded, and what a poll records was delivered, however  *)
(* the adapter's state and Telegram change during the sends.               *)
(***************************************************************************)
EXTENDS ConnectionMonitor, TLAPS

(* _queue_message keeps a queue without repetitions, and what it queues is  *)
(* in the queue afterwards, behind what was there.                          *)
LEMMA QueuedProperties ==
    ASSUME NEW q \in Seq(Messages), IsInjective(q), NEW m \in Messages
    PROVE  /\ Queued(q, m) \in Seq(Messages)
           /\ IsInjective(Queued(q, m))
           /\ Queued(q, m) # <<>>
           /\ m \in ToSet(Queued(q, m))
           /\ ToSet(q) \subseteq ToSet(Queued(q, m))
  <1>1. CASE m \in ToSet(q)
    BY <1>1 DEF Queued, ToSet
  <1>2. CASE m \notin ToSet(q)
    <2> DEFINE r == Append(q, m)
    <2>1. r \in Seq(Messages) /\ Len(r) = Len(q) + 1 /\ r[Len(q) + 1] = m
      OBVIOUS
    <2>2. \A i \in 1..Len(q) : r[i] = q[i]
      OBVIOUS
    <2>3. DOMAIN q = 1..Len(q) /\ DOMAIN r = 1..(Len(q) + 1) /\ Len(q) \in Nat
      OBVIOUS
    <2>4. \A i \in 1..Len(q) : q[i] # m
      BY <1>2, <2>3 DEF ToSet
    <2> HIDE DEF r
    <2>5. IsInjective(r)
      BY <2>1, <2>2, <2>3, <2>4 DEF IsInjective
    <2>6. m \in ToSet(r) /\ r # <<>>
      BY <2>1, <2>3 DEF ToSet
    <2>7. ToSet(q) \subseteq ToSet(r)
      BY <2>2, <2>3 DEF ToSet
    <2> QED
      BY <1>2, <2>1, <2>5, <2>6, <2>7 DEF Queued, r
  <1> QED
    BY <1>1, <1>2

(* A queue of messages without repetitions has at most one of each.         *)
LEMMA InjectiveIsShort ==
    ASSUME NEW q \in Seq(Messages), IsInjective(q)
    PROVE  Len(q) <= 4
  <1> SUFFICES ASSUME Len(q) > 4 PROVE FALSE
    OBVIOUS
  <1>1. {1, 2, 3, 4, 5} \subseteq DOMAIN q
    OBVIOUS
  <1>2. \A i \in {1, 2, 3, 4, 5} :
          q[i] \in {"CONNECTED", "RECONNECTING", "DISCONNECTED", "attention"}
    BY <1>1 DEF Messages, States, DownStates
  <1>3. \A i, j \in {1, 2, 3, 4, 5} : q[i] = q[j] => i = j
    BY <1>1 DEF IsInjective
  <1> QED
    BY <1>2, <1>3

-----------------------------------------------------------------------------
(* What holds while a poll sends its queue.  The transition it is about to  *)
(* record, and the attention message, are in the queue, whichever poll put  *)
(* them there; and as long as no send has failed, what was sent was heard.  *)
Recorded(old, new) == old # new /\ <<old, new>> # <<"None", "CONNECTED">>

SendsCoverPoll ==
    /\ position = 0 => ~failed
    /\ position > 0 =>
          /\ current \in States
          /\ Recorded(last_state, current) => current \in ToSet(pending)
          /\ attention_due => "attention" \in ToSet(pending)
          /\ ~failed => \A i \in 1..(position - 1) : pending[i] \in heard

MonitorInv == TypeOK /\ IsInjective(pending) /\ SendsCoverPoll

(* The queue a poll of a down adapter sends.                                *)
LEMMA DownQueueProperties ==
    ASSUME MonitorInv, broker \in DownStates
    PROVE  /\ DownQueue \in Seq(Messages)
           /\ IsInjective(DownQueue)
           /\ last_state # broker => broker \in ToSet(DownQueue)
           /\ AttentionDue => "attention" \in ToSet(DownQueue)
           /\ last_state # broker => DownQueue # <<>>
  <1> DEFINE queue == IF last_state # broker THEN Queued(pending, broker) ELSE pending
  <1>1. broker \in Messages /\ "attention" \in Messages
    BY DEF Messages, States
  <1>2. /\ queue \in Seq(Messages) /\ IsInjective(queue)
        /\ last_state # broker => broker \in ToSet(queue) /\ queue # <<>>
    BY <1>1, QueuedProperties DEF MonitorInv, TypeOK
  <1>3. DownQueue = IF AttentionDue THEN Queued(queue, "attention") ELSE queue
    BY DEF DownQueue
  <1> HIDE DEF queue
  <1> QED
    BY <1>1, <1>2, <1>3, QueuedProperties

(* Every step of the monitor, of the adapter and of Telegram keeps the      *)
(* invariant.                                                               *)
LEMMA MonitorStepInv == ASSUME MonitorInv, [Next]_vars PROVE MonitorInv'
  <1> USE AttentionAfterAssumption
  <1>0. TypeOK /\ IsInjective(pending) /\ SendsCoverPoll
    BY DEF MonitorInv
  <1>1. CASE PollUp
    <2>1. "CONNECTED" \in Messages
      BY DEF Messages, States
    <2>2. pending' \in Seq(Messages) /\ IsInjective(pending')
      BY <1>0, <1>1, <2>1, QueuedProperties DEF PollUp, TypeOK
    <2>3. last_state \in DownStates => "CONNECTED" \in ToSet(pending')
      BY <1>0, <1>1, <2>1, QueuedProperties DEF PollUp, TypeOK
    <2>4. TypeOK'
      <3>1. downFor' \in -1..AttentionAfter
        BY <1>0, <1>1 DEF PollUp, TypeOK, Elapsed
      <3>2. position' \in 0..Len(pending')
        BY <1>1, <2>2 DEF PollUp
      <3> QED
        BY <1>0, <1>1, <2>2, <3>1, <3>2 DEF PollUp, TypeOK, States
    <2>5. SendsCoverPoll'
      <3>1. /\ position' = 1 /\ current' = "CONNECTED" /\ last_state' = last_state
            /\ attention_due' = FALSE
        BY <1>1 DEF PollUp
      <3>2. last_state \in DownStates \cup {"CONNECTED", "None"}
        BY <1>0 DEF TypeOK, States
      <3>3. Recorded(last_state', current') => current' \in ToSet(pending')
        BY <2>3, <3>1, <3>2 DEF Recorded
      <3>4. 1..(position' - 1) = {} /\ "CONNECTED" \in States
        BY <3>1 DEF States
      <3> QED
        BY <3>1, <3>3, <3>4 DEF SendsCoverPoll
    <2> QED
      BY <2>2, <2>4, <2>5 DEF MonitorInv
  <1>2. CASE PollIdle
    BY <1>0, <1>2 DEF MonitorInv, PollIdle, Committed, TypeOK, SendsCoverPoll,
       pollVars
  <1>3. CASE PollDown
    <2>1. broker \in DownStates
      BY <1>3 DEF PollDown
    <2>2. pending' \in Seq(Messages) /\ IsInjective(pending')
      BY <1>3, <2>1, DownQueueProperties DEF PollDown
    <2>3. downFor' \in -1..AttentionAfter
      BY <1>0, <1>3 DEF PollDown, TypeOK, DownTime, Elapsed
    <2>4. CASE DownQueue = <<>>
      BY <1>0, <1>3, <2>2, <2>3, <2>4
      DEF MonitorInv, PollDown, TypeOK, SendsCoverPoll, pollVars, States
    <2>5. CASE DownQueue # <<>>
      <3>1. /\ Recorded(last_state, broker) => broker \in ToSet(pending')
            /\ AttentionDue => "attention" \in ToSet(pending')
        BY <1>3, <2>1, DownQueueProperties DEF PollDown, Recorded
      <3>2. TypeOK'
        BY <1>0, <1>3, <2>2, <2>3, <2>5 DEF PollDown, TypeOK, AttentionDue
      <3>3. SendsCoverPoll'
        BY <1>0, <1>3, <2>5, <3>1 DEF PollDown, TypeOK, SendsCoverPoll
      <3> QED
        BY <2>2, <3>2, <3>3 DEF MonitorInv
    <2> QED
      BY <2>4, <2>5
  <1>4. CASE Send
    <2>1. position \in 1..Len(pending) /\ pending[position] \in Messages
      BY <1>0, <1>4 DEF Send, TypeOK
    <2>2. heard' \subseteq Messages /\ heard \subseteq heard'
      BY <1>0, <1>4, <2>1 DEF Send, Arrives, TypeOK
    <2>3. telegram = "up" => pending[position] \in heard'
      BY <1>4 DEF Send, Arrives
    <2>4. CASE position < Len(pending)
      <3>1. /\ position' = position + 1 /\ failed' = (failed \/ telegram # "up")
            /\ UNCHANGED <<broker, telegram, last_state, downFor, attention_sent,
                            pending, current, attention_due>>
        BY <1>4, <2>4 DEF Send
      <3>2. TypeOK'
        BY <1>0, <2>1, <2>2, <2>4, <3>1 DEF TypeOK
      <3>3. ASSUME ~failed' PROVE \A i \in 1..(position' - 1) : pending'[i] \in heard'
        <4>1. ~failed /\ telegram = "up"
          BY <3>1, <3>3
        <4>2. \A i \in 1..(position - 1) : pending[i] \in heard'
          BY <1>0, <2>1, <2>2, <4>1 DEF SendsCoverPoll
        <4>3. pending[position] \in heard'
          BY <2>3, <4>1
        <4>4. 1..(position' - 1) = 1..(position - 1) \cup {position}
          BY <2>1, <3>1
        <4> QED
          BY <3>1, <4>2, <4>3, <4>4
      <3>4. SendsCoverPoll'
        BY <1>0, <2>1, <3>1, <3>3 DEF SendsCoverPoll
      <3> QED
        BY <1>0, <3>1, <3>2, <3>4 DEF MonitorInv
    <2>5. CASE ~(position < Len(pending))
      <3>1. PICK ok \in BOOLEAN : FinishPoll(ok)
        BY <1>4, <2>5 DEF Send
      <3>2. pending' \in Seq(Messages) /\ IsInjective(pending')
        BY <1>0, <3>1 DEF FinishPoll, TypeOK, IsInjective
      <3>3. TypeOK'
        <4>1. /\ last_state' \in States \cup {"None"}
              /\ downFor' \in -1..AttentionAfter
          BY <1>0, <3>1 DEF TypeOK, FinishPoll, Committed
        <4>2. attention_sent' \in BOOLEAN
          BY <1>0, <3>1, Zenon DEF TypeOK, FinishPoll, Committed
        <4>3. position' \in 0..Len(pending')
          BY <3>1, <3>2 DEF FinishPoll
        <4>4. /\ failed' \in BOOLEAN /\ attention_due' \in BOOLEAN
              /\ current' \in States \cup {"None"}
          BY <3>1 DEF FinishPoll
        <4> QED
          BY <1>0, <1>4, <2>2, <3>2, <4>1, <4>2, <4>3, <4>4 DEF TypeOK, Send
      <3> QED
        BY <3>1, <3>2, <3>3 DEF MonitorInv, SendsCoverPoll, FinishPoll
    <2> QED
      BY <2>4, <2>5
  <1>5. CASE BrokerMoves \/ TelegramMoves \/ UNCHANGED vars
    BY <1>0, <1>5 DEF MonitorInv, TypeOK, SendsCoverPoll, BrokerMoves,
       TelegramMoves, vars, pollVars
  <1> QED
    BY <1>1, <1>2, <1>3, <1>4, <1>5 DEF Next, MonitorStep

LEMMA MonitorInvHolds == Spec => []MonitorInv
  <1>1. ASSUME Init PROVE MonitorInv
    <2>1. pending \in Seq(Messages) /\ IsInjective(pending) /\ Len(pending) = 0
      BY <1>1 DEF Init, IsInjective
    <2>2. -1 \in -1..AttentionAfter /\ position \in 0..Len(pending)
      BY <1>1, <2>1, AttentionAfterAssumption DEF Init
    <2>3. TypeOK
      BY <1>1, <2>1, <2>2 DEF Init, TypeOK
    <2> QED
      BY <1>1, <2>1, <2>3 DEF Init, MonitorInv, SendsCoverPoll
  <1> QED
    BY <1>1, MonitorStepInv, PTL DEF Spec

(* Every variable of the monitor keeps its type.                            *)
THEOREM TypeCorrect == Spec => []TypeOK
  <1>1. MonitorInv => TypeOK
    BY DEF MonitorInv
  <1> QED
    BY <1>1, MonitorInvHolds, PTL

(* However long Telegram fails and the connection flaps, the queue holds    *)
(* each of the four messages at most once.                                  *)
THEOREM QueueIsBounded == Spec => []PendingBounded
  <1>1. MonitorInv => PendingBounded
    BY InjectiveIsShort DEF MonitorInv, TypeOK, PendingBounded
  <1> QED
    BY <1>1, MonitorInvHolds, PTL

(* "Notification state advances only after delivery succeeds", for any      *)
(* threshold and any interleaving of sends with changes of the state.       *)
THEOREM DeliveredBeforeRecorded == Spec => AdvancesWhenTold
  <1> DEFINE Told ==
        /\ last_state' # last_state /\ <<last_state, last_state'>> # <<"None", "CONNECTED">>
              => last_state' \in heard'
        /\ attention_sent' /\ ~attention_sent => "attention" \in heard'
  <1>1. MonitorInv /\ [Next]_vars => [Told]_vars
    <2> SUFFICES ASSUME MonitorInv, Next PROVE Told
      OBVIOUS
    <2>0. TypeOK /\ SendsCoverPoll
      BY DEF MonitorInv
    <2>1. CASE PollUp \/ BrokerMoves \/ TelegramMoves
      BY <2>1 DEF PollUp, BrokerMoves, TelegramMoves
    <2>2. CASE PollIdle
      BY <2>0, <2>2 DEF PollIdle, Committed, TypeOK, States
    <2>3. CASE PollDown
      BY <2>3, DownQueueProperties DEF PollDown
    <2>4. CASE Send
      <3>1. position \in 1..Len(pending)
        BY <2>0, <2>4 DEF Send, TypeOK
      <3>2. CASE telegram = "up" /\ ~failed /\ ~(position < Len(pending))
        <4>1. Committed(TRUE, current, attention_due)
          BY <2>4, <3>2 DEF Send, FinishPoll
        <4>2. \A i \in 1..Len(pending) : pending[i] \in heard'
          <5>1. heard' = heard \cup {pending[position]}
            BY <2>4, <3>2 DEF Send, Arrives
          <5>2. position = Len(pending)
            BY <2>0, <3>1, <3>2 DEF TypeOK
          <5>3. \A i \in 1..(position - 1) : pending[i] \in heard
            BY <2>0, <3>1, <3>2 DEF SendsCoverPoll
          <5> QED
            BY <3>1, <5>1, <5>2, <5>3
        <4>3. ToSet(pending) \subseteq heard'
          BY <2>0, <4>2 DEF ToSet, TypeOK
        <4> QED
          <5>1. /\ last_state' = current
                /\ attention_sent' /\ ~attention_sent => attention_due
            BY <4>1 DEF Committed
          <5>2. /\ Recorded(last_state, current) => current \in ToSet(pending)
                /\ attention_due => "attention" \in ToSet(pending)
            BY <2>0, <3>1 DEF SendsCoverPoll
          <5> QED
            BY <4>3, <5>1, <5>2 DEF Recorded
      <3>3. CASE ~(telegram = "up" /\ ~failed /\ ~(position < Len(pending)))
        BY <2>4, <3>3 DEF Send, FinishPoll, Committed
      <3> QED
        BY <3>2, <3>3
    <2> QED
      BY <2>1, <2>2, <2>3, <2>4 DEF Next, MonitorStep
  <1> QED
    BY <1>1, MonitorInvHolds, PTL DEF Spec, AdvancesWhenTold

=============================================================================
