-------------------------- MODULE ConnectionMonitor --------------------------
(***************************************************************************)
(* The background job that watches the IBKR adapter's state and messages   *)
(* the operator (app/jobs/connection_monitor.py).  Every poll reads the    *)
(* state, queues at most two messages and then sends the queue, awaiting   *)
(* the notifier for each; the broker's state goes on changing meanwhile.   *)
(* A poll whose sends fail leaves the queue and the state as they were.    *)
(***************************************************************************)
EXTENDS Integers, Sequences, SequencesExt

CONSTANT AttentionAfter  \* attention_after_s, in polls

ASSUME AttentionAfterAssumption == AttentionAfter \in Nat \ {0}

VARIABLES
    broker,         \* the adapter's state
    telegram,       \* whether the notifier's sends succeed at present
    last_state,     \* ConnectionMonitorState.last_state, or "None"
    downFor,        \* polls since down_since, at most AttentionAfter; -1: None
    attention_sent,
    pending,        \* pending_messages
    current,        \* the poll's local variables: the state it read,
    attention_due,  \* whether it queued the attention message,
    position,       \* the message it is sending (0: no poll in progress),
    failed,         \* whether a send has failed (first_error)
    heard           \* the messages of this poll that reached the operator

pollVars == <<current, attention_due, position, failed>>
vars == <<broker, telegram, last_state, downFor, attention_sent, pending,
          pollVars, heard>>

DownStates == {"RECONNECTING", "DISCONNECTED"}
States == {"CONNECTED"} \cup DownStates

(* The transition message is named by the state it announces.               *)
Messages == States \cup {"attention"}

TypeOK ==
    /\ broker \in States
    /\ telegram \in {"up", "down"}
    /\ last_state \in States \cup {"None"}
    /\ downFor \in -1..AttentionAfter
    /\ attention_sent \in BOOLEAN
    /\ pending \in Seq(Messages)
    /\ current \in States \cup {"None"}
    /\ attention_due \in BOOLEAN
    /\ position \in 0..Len(pending)
    /\ failed \in BOOLEAN
    /\ heard \subseteq Messages

Init ==
    /\ broker \in States
    /\ telegram \in {"up", "down"}
    /\ last_state = "None"
    /\ downFor = -1
    /\ attention_sent = FALSE
    /\ pending = <<>>
    /\ current = "None"
    /\ attention_due = FALSE
    /\ position = 0
    /\ failed = FALSE
    /\ heard = {}

-----------------------------------------------------------------------------
(* poll_connection_once.                                                    *)

(* Mutation of Queued: no look at what is queued already.                   *)
QueuedAgain(queue, message) == Append(queue, message)

(* _queue_message.                                                          *)
Queued(queue, message) ==
    IF message \in ToSet(queue) THEN queue ELSE Append(queue, message)

(* Time since down_since when the next poll reads the clock.                *)
Elapsed ==
    IF downFor = -1 \/ downFor = AttentionAfter THEN downFor ELSE downFor + 1

(* Mutation of Committed: a failed poll advances the state too.             *)
CommittedAnyway(ok, cur, due) ==
    /\ last_state' = cur
    /\ downFor' = IF cur = "CONNECTED" THEN -1 ELSE downFor
    /\ attention_sent' = (cur # "CONNECTED" /\ (attention_sent \/ due))

(* Mutation of Committed: down_since survives the recovery.                 *)
CommittedKeepsTimer(ok, cur, due) ==
    IF ok
    THEN /\ last_state' = cur
         /\ attention_sent' = (cur # "CONNECTED" /\ (attention_sent \/ due))
         /\ UNCHANGED downFor
    ELSE UNCHANGED <<last_state, downFor, attention_sent>>

(* What the poll of state cur assigns after its sends, if they succeeded.   *)
Committed(ok, cur, due) ==
    IF ok
    THEN /\ last_state' = cur
         /\ downFor' = IF cur = "CONNECTED" THEN -1 ELSE downFor
         /\ attention_sent' = (cur # "CONNECTED" /\ (attention_sent \/ due))
    ELSE UNCHANGED <<last_state, downFor, attention_sent>>

(* A poll that finds the adapter CONNECTED and has something to send.       *)
PollUp ==
    /\ position = 0
    /\ broker = "CONNECTED"
    /\ downFor' = Elapsed
    /\ pending' = IF last_state \in DownStates \/ downFor # -1
                  THEN Queued(pending, "CONNECTED") ELSE pending
    /\ pending' # <<>>
    /\ position' = 1
    /\ current' = broker
    /\ attention_due' = FALSE
    /\ heard' = {}
    /\ UNCHANGED <<broker, telegram, last_state, attention_sent, failed>>

(* A CONNECTED poll with nothing to send.                                   *)
PollIdle ==
    /\ position = 0
    /\ broker = "CONNECTED"
    /\ last_state \notin DownStates /\ downFor = -1 /\ pending = <<>>
    /\ Committed(TRUE, broker, FALSE)
    /\ UNCHANGED <<broker, telegram, pending, pollVars, heard>>

(* Mutation of DownTime: down_since is not set when the outage begins.      *)
DownTimeUnset == Elapsed

(* The elapsed time a poll of a down adapter compares with the threshold,   *)
(* and the queue it goes on to send.                                        *)
DownTime == IF downFor = -1 THEN 0 ELSE Elapsed

AttentionDue == ~attention_sent /\ DownTime >= AttentionAfter

DownQueue ==
    LET transition == IF last_state # broker THEN Queued(pending, broker) ELSE pending
    IN  IF AttentionDue THEN Queued(transition, "attention") ELSE transition

PollDown ==
    /\ position = 0
    /\ broker \in DownStates
    /\ downFor' = DownTime
    /\ pending' = DownQueue
    /\ IF DownQueue = <<>>
       THEN /\ last_state' = broker
            /\ UNCHANGED pollVars
       ELSE /\ position' = 1
            /\ current' = broker
            /\ attention_due' = AttentionDue
            /\ UNCHANGED <<last_state, failed>>
    /\ heard' = {}
    /\ UNCHANGED <<broker, telegram, attention_sent>>

(* Mutation of FinishPoll: pending_messages.clear() is missing.             *)
FinishPollKeepsQueue(ok) ==
    /\ Committed(ok, current, attention_due)
    /\ position' = 0
    /\ failed' = FALSE
    /\ current' = "None"
    /\ attention_due' = FALSE
    /\ UNCHANGED pending

(* The end of _send_notifications: the queue is cleared only when no send   *)
(* failed, and only then does the poll assign the rest of its state.        *)
FinishPoll(ok) ==
    /\ Committed(ok, current, attention_due)
    /\ pending' = IF ok THEN <<>> ELSE pending
    /\ position' = 0
    /\ failed' = FALSE
    /\ current' = "None"
    /\ attention_due' = FALSE

(* A send that raises may have arrived all the same, when only Telegram's   *)
(* answer was lost.                                                         *)
Arrives(message, ok) ==
    \E arrived \in {TRUE, ok} :
        heard' = IF arrived THEN heard \cup {message} ELSE heard

(* Mutation of Send: a message leaves the list that is being iterated.      *)
SendRemoves ==
    /\ position > 0
    /\ LET ok == telegram = "up"
       IN  /\ IF position < Len(pending)
              THEN /\ position' = position + 1
                   /\ failed' = (failed \/ ~ok)
                   /\ pending' = Tail(pending)
                   /\ UNCHANGED <<last_state, downFor, attention_sent,
                                  current, attention_due>>
              ELSE FinishPoll(ok /\ ~failed)
           /\ Arrives(pending[position], ok)
    /\ UNCHANGED <<broker, telegram>>

(* One send of the queue returns or raises; the next one follows.           *)
Send ==
    /\ position > 0
    /\ LET ok == telegram = "up"
       IN  /\ IF position < Len(pending)
              THEN /\ position' = position + 1
                   /\ failed' = (failed \/ ~ok)
                   /\ UNCHANGED <<last_state, downFor, attention_sent, pending,
                                  current, attention_due>>
              ELSE FinishPoll(ok /\ ~failed)
           /\ Arrives(pending[position], ok)
    /\ UNCHANGED <<broker, telegram>>

-----------------------------------------------------------------------------
(* The adapter and Telegram.                                                *)

BrokerMoves ==
    /\ broker' \in States \ {broker}
    /\ UNCHANGED <<telegram, last_state, downFor, attention_sent, pending,
                   pollVars, heard>>

TelegramMoves ==
    /\ telegram' \in {"up", "down"} \ {telegram}
    /\ UNCHANGED <<broker, last_state, downFor, attention_sent, pending,
                   pollVars, heard>>

MonitorStep == PollUp \/ PollIdle \/ PollDown \/ Send

Next == MonitorStep \/ BrokerMoves \/ TelegramMoves

(* The job's loop keeps polling and every send ends, within httpx's timeout. *)
Spec == Init /\ [][Next]_vars /\ WF_vars(MonitorStep)

-----------------------------------------------------------------------------
(* Properties.                                                              *)

(* However long Telegram fails and the connection flaps, the queue holds    *)
(* each message at most once: it never grows beyond the four there are.     *)
PendingBounded == IsInjective(pending) /\ Len(pending) <= 4

(* The docstring of poll_connection_once: "Notification state advances only *)
(* after delivery succeeds".  A poll that records a transition, or that the *)
(* operator was alerted, has got the message of it through, although the    *)
(* message may have been queued by an earlier poll, behind others.          *)
AdvancesWhenTold ==
    [][/\ last_state' # last_state /\ <<last_state, last_state'>> # <<"None", "CONNECTED">>
            => last_state' \in heard'
       /\ attention_sent' /\ ~attention_sent => "attention" \in heard']_vars

(* Once Telegram stays up, whatever is queued gets delivered.               *)
QueueDrains ==
    <>[](telegram = "up") => (pending # <<>> ~> pending = <<>>)

(* If the connection stays down and Telegram works in the end, the operator *)
(* is asked for the manual login, although the adapter may alternate        *)
(* between RECONNECTING and DISCONNECTED and earlier sends may have failed. *)
OutageIsEscalated ==
    <>[](telegram = "up") /\ <>[](broker # "CONNECTED") => <>[]attention_sent

(* If the connection stays up and Telegram works in the end, the monitor    *)
(* closes the outage: no timer of an old one goes on running.               *)
OutageIsClosed ==
    <>[](telegram = "up") /\ <>[](broker = "CONNECTED") => <>[](downFor = -1)

=============================================================================
