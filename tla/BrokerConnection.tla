-------------------------- MODULE BrokerConnection --------------------------
(***************************************************************************)
(* What an adapter's get_connection_state promises to its readers, the     *)
(* composite broker, the monitor and the badge (ConnectionState and the    *)
(* Broker protocol, app/core/broker.py): only somebody who is at work on   *)
(* the connection reports it made or given up, RECONNECTING is never left  *)
(* behind by the last of them ("auto-retrying"), and every window of       *)
(* RECONNECTING ends.  IbkrConnection and PollingAdapters implement it.    *)
(***************************************************************************)

VARIABLES
    state,   \* what get_connection_state returns
    busy     \* a start(), a reconnect loop or a disconnect() is under way

(* The lifespan is about to call start().                                   *)
Init ==
    /\ state = "DISCONNECTED"
    /\ busy = TRUE

(* start() is called again, or disconnect().                                *)
Begins ==
    /\ busy' = TRUE
    /\ UNCHANGED state

(* The connection is lost or could not be made, or an operator asks for it. *)
Loses ==
    /\ state' = "RECONNECTING"
    /\ busy' = TRUE

Connects ==
    /\ busy
    /\ state' = "CONNECTED"
    /\ busy' \in BOOLEAN

(* The backoff schedule is exhausted, the configuration is no good, or      *)
(* disconnect() is over.                                                    *)
GivesUp ==
    /\ busy
    /\ state' = "DISCONNECTED"
    /\ busy' \in BOOLEAN

(* Whoever was at work has ended, and leaves the state as it is.            *)
Ends ==
    /\ state # "RECONNECTING"
    /\ busy' = FALSE
    /\ UNCHANGED state

Next == Begins \/ Loses \/ Connects \/ GivesUp \/ Ends

(* What is never reported.                                                  *)
Safety == Init /\ [][Next]_<<state, busy>>

(* Every reconnect window ends.                                             *)
WindowsEnd == state = "RECONNECTING" ~> state # "RECONNECTING"

Spec == Safety /\ WindowsEnd

=============================================================================
