-------------------------- MODULE LongbridgeAdapter -------------------------
(***************************************************************************)
(* LongbridgeAdapter (app/adapters/longbridge.py): the lifecycle and the   *)
(* three queries of PollingAdapter.  connect() loads no accounts, and the  *)
(* quotes may fail a fetch.                                                *)
(***************************************************************************)
EXTENDS PollingAdapter

(* The position channel may turn out to be misconfigured.  Quotes fail for  *)
(* some of the symbols, asked for one by one then, or for all of them.      *)
QueryRaises(c) ==
    /\ pc[c] \in {"fetching", "quoting", "balances"}
    /\ \E e \in {"config", "other"} :
          /\ e = "config" => pc[c] = "fetching"
          /\ FetchRaises(c, e)

LongbridgeFetchStep(c) ==
    \/ PositionsArrive(c)
    \/ QuotesArrive(c)
    \/ BalancesArrive(c)
    \/ QueryRaises(c)

LongbridgeConnectStep(c) ==
    \/ StopStep(c)
    \/ Build(c, "fetching")
    \/ LongbridgeFetchStep(c)
    \/ AbortStep(c)

LongbridgeStep(c) ==
    /\ MayRun(c)
    /\ IF c \in cancelled /\ pc[c] \notin {"awaitLoop", "awaitPoll"}
       THEN TaskCancelled(c)
       ELSE \/ c \notin Pollers /\ LongbridgeConnectStep(c)
            \/ c \in Requests /\ StartStep(c)
            \/ c \in Loops /\ LoopStep(c)
            \/ c \in Pollers /\ (PollWakes(c) \/ LongbridgeFetchStep(c))

LongbridgeNext ==
    \/ \E c \in Coroutines : LongbridgeStep(c)
    \/ \E r \in Requests : MayRun(r) /\ ScheduleStart(r)
    \/ MayRun(Shutdown) /\ DisconnectBegins

=============================================================================
