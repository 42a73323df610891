---------------------------- MODULE FillsCapture ----------------------------
(***************************************************************************)
(* How executions get into the table fills: live, from IBKR's execution    *)
(* events, through one INSERT task per event (IbkrAdapter._on_exec_details *)
(* and _persist_fill), and by the reconcile job, daily or on request,      *)
(* which asks the broker for its recent executions and inserts them one    *)
(* after the other (app/jobs/fills_reconcile.py).  Both write through one  *)
(* SQLite connection: a commit makes every statement executed so far       *)
(* durable, a crash loses the others.                                      *)
(***************************************************************************)
EXTENDS Naturals

CONSTANTS
    Fills,      \* executions, by execId
    Dropped,    \* those build_fill_row returns None for
    Poison,     \* those it raises for: their currency is not supported
    Daily,      \* the task of scheduled_reconcile_loop
    Admin,      \* requests to /admin/reconcile-fills
    Composite,  \* the broker handed to the job is a CompositeBroker
    None

Jobs == {Daily} \cup Admin

ASSUME KindAssumption == Dropped \subseteq Fills /\ Poison \subseteq Fills
ASSUME DisjointAssumption == Dropped \cap Poison = {}
ASSUME JobAssumption == Daily \notin Admin
ASSUME CompositeAssumption == Composite \in BOOLEAN
ASSUME NoneAssumption == None \notin Fills

VARIABLES
    phase,      \* of the process
    link,       \* whether IBKR's session is open and answers
    db,         \* whether SQLite accepts statements at present
    executed,   \* executions so far
    retained,   \* those the broker still reports
    writes,     \* _pending_writes: the await each fill's task is at
    draining,   \* the tasks disconnect() gathers
    pc,         \* the await each reconcile job is at
    queue,      \* fills left in the for loop of each job
    current,    \* the fill each job is inserting
    table,      \* rows of the table, as the connection sees them
    durable,    \* rows that are committed
    captured    \* history: fills a task was started for before any shutdown
                \* began, less those whose write reported an error

vars == <<phase, link, db, executed, retained, writes, draining, pc, queue,
          current, table, durable, captured>>
environment == <<link, db, executed, retained>>
jobVars     == <<pc, queue, current>>

Storable == Fills \ (Dropped \cup Poison)

TypeOK ==
    /\ phase \in {"running", "draining", "stopped", "crashed"}
    /\ link \in {"up", "down"}
    /\ db \in {"ok", "failing"}
    /\ executed \subseteq Fills
    /\ retained \subseteq executed
    /\ writes \in [Storable -> {"none", "execute", "commit"}]
    /\ draining \subseteq Storable
    /\ pc \in [Jobs -> {"idle", "requesting", "execute", "commit"}]
    /\ queue \in [Jobs -> SUBSET Fills]
    /\ current \in [Jobs -> Storable \cup {None}]
    /\ \A j \in Jobs : pc[j] \in {"execute", "commit"} <=> current[j] # None
    /\ durable \subseteq table
    /\ table \subseteq Storable
    /\ captured \subseteq Storable

Init ==
    /\ phase = "running"
    /\ link = "down"
    /\ db = "ok"
    /\ executed = {}
    /\ retained = {}
    /\ writes = [f \in Storable |-> "none"]
    /\ draining = {}
    /\ pc = [j \in Jobs |-> "idle"]
    /\ queue = [j \in Jobs |-> {}]
    /\ current = [j \in Jobs |-> None]
    /\ table = {}
    /\ durable = {}
    /\ captured = {}

Pending == {f \in Storable : writes[f] # "none"}

-----------------------------------------------------------------------------
(* insert_fill: INSERT OR IGNORE, keyed by broker and execId, and commit.   *)

Inserted(f) ==
    /\ db = "ok"
    /\ table' = table \cup {f}
    /\ UNCHANGED durable

Committed ==
    /\ db = "ok"
    /\ durable' = table
    /\ UNCHANGED table

-----------------------------------------------------------------------------
(* The live stream.                                                         *)

(* An order is executed.  With the session open _on_exec_details is called  *)
(* and starts a task, also while disconnect() is awaiting earlier ones.     *)
Execute(f) ==
    /\ f \notin executed
    /\ executed' = executed \cup {f}
    /\ retained' = retained \cup {f}
    /\ writes' = IF link = "up" /\ f \in Storable
                 THEN [writes EXCEPT ![f] = "execute"] ELSE writes
    /\ captured' = IF link = "up" /\ f \in Storable /\ phase = "running"
                   THEN captured \cup {f} ELSE captured
    /\ UNCHANGED <<phase, link, db, draining, jobVars, table, durable>>

LiveInsert(f) ==
    /\ writes[f] = "execute"
    /\ Inserted(f)
    /\ writes' = [writes EXCEPT ![f] = "commit"]
    /\ UNCHANGED <<phase, environment, draining, jobVars, captured>>

LiveCommit(f) ==
    /\ writes[f] = "commit"
    /\ Committed
    /\ writes' = [writes EXCEPT ![f] = "none"]
    /\ UNCHANGED <<phase, environment, draining, jobVars, captured>>

(* _persist_fill logs the error and drops the fill.                         *)
LiveWriteFails(f) ==
    /\ writes[f] # "none"
    /\ db = "failing"
    /\ writes' = [writes EXCEPT ![f] = "none"]
    /\ captured' = captured \ {f}
    /\ UNCHANGED <<phase, environment, draining, jobVars, table, durable>>

-----------------------------------------------------------------------------
(* reconcile_fills, run by job j.                                           *)

ReconcileStarts(j) ==
    /\ phase = "running"
    /\ pc[j] = "idle"
    /\ pc' = [pc EXCEPT ![j] = "requesting"]
    /\ UNCHANGED <<phase, environment, writes, draining, queue, current, table,
                   durable, captured>>

(* Mutation of Finish: the fill being inserted when the job ends is kept.   *)
FinishKeepsCurrent(j) ==
    /\ pc' = [pc EXCEPT ![j] = "idle"]
    /\ queue' = [queue EXCEPT ![j] = {}]
    /\ UNCHANGED current

Finish(j) ==
    /\ pc' = [pc EXCEPT ![j] = "idle"]
    /\ queue' = [queue EXCEPT ![j] = {}]
    /\ current' = [current EXCEPT ![j] = None]

(* Mutation of Advance: a fill that cannot be stored ends the job.          *)
AdvanceStops(j, left) ==
    \/ left = {} /\ Finish(j)
    \/ \E f \in left :
         \/ f \notin Storable /\ Finish(j)
         \/ /\ f \in Storable
            /\ pc' = [pc EXCEPT ![j] = "execute"]
            /\ queue' = [queue EXCEPT ![j] = left \ {f}]
            /\ current' = [current EXCEPT ![j] = f]

(* The for loop goes on with the fills "left", in the broker's order, up to *)
(* the next insert: dropped fills are skipped, an exception ends the job.   *)
Advance(j, left) ==
    \/ left \subseteq Dropped /\ Finish(j)
    \/ left \cap Poison # {} /\ Finish(j)
    \/ \E f \in left \cap Storable :
         /\ pc' = [pc EXCEPT ![j] = "execute"]
         /\ \E skipped \in SUBSET (left \cap Dropped) :
               queue' = [queue EXCEPT ![j] = left \ ({f} \cup skipped)]
         /\ current' = [current EXCEPT ![j] = f]

(* _req_executions is a method of IbkrAdapter alone.                        *)
ExecutionsArrive(j) ==
    /\ pc[j] = "requesting"
    /\ link = "up" /\ ~Composite
    /\ Advance(j, retained)
    /\ UNCHANGED <<phase, environment, writes, draining, table, durable,
                   captured>>

(* The session is down, or the broker has no such method: 0 is returned.    *)
ExecutionsFail(j) ==
    /\ pc[j] = "requesting"
    /\ link = "down" \/ Composite
    /\ Finish(j)
    /\ UNCHANGED <<phase, environment, writes, draining, table, durable,
                   captured>>

ReconcileInsert(j) ==
    /\ pc[j] = "execute"
    /\ Inserted(current[j])
    /\ pc' = [pc EXCEPT ![j] = "commit"]
    /\ UNCHANGED <<phase, environment, writes, draining, queue, current,
                   captured>>

ReconcileCommit(j) ==
    /\ pc[j] = "commit"
    /\ Committed
    /\ Advance(j, queue[j])
    /\ UNCHANGED <<phase, environment, writes, draining, captured>>

(* The error of one insert is logged and the next fill follows.             *)
ReconcileWriteFails(j) ==
    /\ pc[j] \in {"execute", "commit"}
    /\ db = "failing"
    /\ Advance(j, queue[j])
    /\ UNCHANGED <<phase, environment, writes, draining, table, durable,
                   captured>>

-----------------------------------------------------------------------------
(* Shutdown, crash and restart.                                             *)

(* The lifespan cancels the daily job, whose statement under way may still  *)
(* be carried out by the connection's thread, and calls disconnect(), which *)
(* gathers the tasks pending at that moment.  Requests have ended by then.  *)
ShutdownBegins ==
    /\ phase = "running"
    /\ \A a \in Admin : pc[a] = "idle"
    /\ phase' = "draining"
    /\ draining' = Pending
    /\ Finish(Daily)
    /\ \/ UNCHANGED <<table, durable>>
       \/ pc[Daily] = "execute" /\ Inserted(current[Daily])
       \/ pc[Daily] = "commit" /\ Committed
    /\ UNCHANGED <<environment, writes, captured>>

(* The process is gone, with the tasks and the uncommitted rows.            *)
ProcessEnds ==
    /\ link' = "down"
    /\ writes' = [f \in Storable |-> "none"]
    /\ draining' = {}
    /\ pc' = [j \in Jobs |-> "idle"]
    /\ queue' = [j \in Jobs |-> {}]
    /\ current' = [j \in Jobs |-> None]
    /\ table' = durable
    /\ UNCHANGED <<db, executed, retained, durable>>

(* Mutation of ShutdownEnds: the pending writes are not awaited.            *)
ShutdownEndsAtOnce ==
    /\ phase = "draining"
    /\ phase' = "stopped"
    /\ ProcessEnds
    /\ UNCHANGED captured

(* The gathered tasks are done: the session and the store are closed.       *)
ShutdownEnds ==
    /\ phase = "draining"
    /\ draining \cap Pending = {}
    /\ phase' = "stopped"
    /\ ProcessEnds
    /\ UNCHANGED captured

(* Only a crash may lose a fill that was captured.                          *)
Crash ==
    /\ phase \in {"running", "draining"}
    /\ phase' = "crashed"
    /\ captured' = captured \cap durable
    /\ ProcessEnds

Restart ==
    /\ phase \in {"stopped", "crashed"}
    /\ phase' = "running"
    /\ UNCHANGED <<environment, writes, draining, jobVars, table, durable,
                   captured>>

-----------------------------------------------------------------------------
(* The gateway, the broker and the disk.                                    *)

LinkMoves ==
    /\ phase \in {"running", "draining"}
    /\ link' \in {"up", "down"} \ {link}
    /\ UNCHANGED <<phase, db, executed, retained, writes, draining, jobVars,
                   table, durable, captured>>

DbMoves ==
    /\ db' \in {"ok", "failing"} \ {db}
    /\ UNCHANGED <<phase, link, executed, retained, writes, draining, jobVars,
                   table, durable, captured>>

(* The broker forgets an execution after a day or two.                      *)
Expire(f) ==
    /\ f \in retained
    /\ retained' = retained \ {f}
    /\ UNCHANGED <<phase, link, db, executed, writes, draining, jobVars, table,
                   durable, captured>>

-----------------------------------------------------------------------------
LiveStep(f) == LiveInsert(f) \/ LiveCommit(f) \/ LiveWriteFails(f)

JobStep(j) ==
    \/ ExecutionsArrive(j)
    \/ ExecutionsFail(j)
    \/ ReconcileInsert(j)
    \/ ReconcileCommit(j)
    \/ ReconcileWriteFails(j)

Next ==
    \/ \E f \in Fills : Execute(f) \/ Expire(f)
    \/ \E f \in Storable : LiveStep(f)
    \/ \E j \in Jobs : ReconcileStarts(j) \/ JobStep(j)
    \/ ShutdownBegins \/ ShutdownEnds
    \/ Crash \/ Restart
    \/ LinkMoves \/ DbMoves

(* The loop runs every task that can go on, the daily timer fires and the   *)
(* container is restarted.  The rest is not fair.                           *)
Fairness ==
    /\ \A f \in Storable : WF_vars(LiveStep(f))
    /\ \A j \in Jobs : WF_vars(JobStep(j))
    /\ WF_vars(ReconcileStarts(Daily))
    /\ WF_vars(ShutdownEnds)
    /\ WF_vars(Restart)

Spec == Init /\ [][Next]_vars /\ Fairness

-----------------------------------------------------------------------------
(* Properties.                                                              *)

(* disconnect(): "Drain any in-flight fill INSERTs before tearing down so   *)
(* we don't orphan the last few writes during a graceful shutdown."  A fill *)
(* whose task was started before the shutdown began is committed, or its    *)
(* task is still at work: whatever else shares the connection, and also     *)
(* once the process has stopped, when no task is left.                      *)
CapturedFillsKept ==
    \A f \in captured : f \in durable \/ writes[f] # "none"

(* The lifespan's comment: the reconcile loop "catches anything missed      *)
(* during disconnect windows".  If the session and the database are in      *)
(* order from some point on, every storable execution is durable in the     *)
(* end, unless the broker forgets it first.  It is not so while the broker  *)
(* reports an execution in a currency that is not supported.                *)
MissedFillsRecorded ==
    <>[](phase = "running" /\ link = "up" /\ db = "ok") =>
        \A f \in Storable :
            f \in retained ~> f \in durable \/ f \notin retained

(* And if the broker reports no such execution.  This takes IBKR alone:     *)
(* with a CompositeBroker nothing that was missed is ever recorded.         *)
EveryFillRecorded ==
    <>[](/\ phase = "running" /\ link = "up" /\ db = "ok"
         /\ retained \cap Poison = {}) =>
        \A f \in Storable :
            f \in retained ~> f \in durable \/ f \notin retained

=============================================================================
