-------------------------- MODULE PollingAdapters --------------------------
(***************************************************************************)
(* The polling adapters the application may be configured with: Tiger's,   *)
(* Longbridge's and Futu's, the latter with or without an SDK.  They share *)
(* the lifecycle of PollingAdapter, and each has a connect() and a refresh *)
(* of its own.                                                             *)
(***************************************************************************)
EXTENDS LongbridgeAdapter, FutuAdapter

VARIABLE kind  \* which of them this one is, for good

adapterVars == <<vars, kind>>

Step(c) ==
    \/ kind = "tiger" /\ CoroutineStep(c)
    \/ kind = "longbridge" /\ LongbridgeStep(c)
    \/ kind = "futu" /\ FutuStep(c)
    \/ kind = "futuNoSdk" /\ NoSdkStep(c)

AdapterInit ==
    /\ Init
    /\ kind \in {"tiger", "longbridge", "futu", "futuNoSdk"}

AdapterNext ==
    /\ \/ kind = "tiger" /\ Next
       \/ kind = "longbridge" /\ LongbridgeNext
       \/ kind = "futu" /\ FutuNext
       \/ kind = "futuNoSdk" /\ NoSdkNext
    /\ UNCHANGED kind

(* Timers fire, and the broker's API answers or fails.                      *)
AdapterSpec ==
    /\ AdapterInit
    /\ [][AdapterNext]_adapterVars
    /\ \A c \in Coroutines : WF_adapterVars(Step(c) /\ UNCHANGED kind)

-----------------------------------------------------------------------------
(* Somebody is at work on the connection: a start() or a reconnect loop,    *)
(* unless it was cancelled, or disconnect().                                *)
Busy ==
    \/ pc[Shutdown] \notin {"scheduled", "done"}
    \/ \E c \in (Loops \ cancelled) \cup Requests : Alive(c)

(* All three keep the promises of a broker connection: RECONNECTING is      *)
(* never left behind, only a coroutine at work reports the connection made  *)
(* or given up, and every reconnect window ends.                            *)
Connection == INSTANCE BrokerConnection WITH busy <- Busy

ImplementsBroker == Connection!Spec

=============================================================================
