------------------------ MODULE FillsCaptureProofs ------------------------
(***************************************************************************)
(* Proofs about FillsCapture, for any set of executions and of reconcile   *)
(* jobs.  CapturedFillsKept is not inductive: it needs that a task about   *)
(* to commit has its row in the table, and that a shutdown under way       *)
(* gathers every task whose fill is captured.                              *)
(***************************************************************************)
EXTENDS FillsCapture, TLAPS

(* A task at the commit has executed its INSERT, nobody removed the row.    *)
CommitHasRow == \A f \in Storable : writes[f] = "commit" => f \in table

(* During a shutdown, the tasks of captured fills are gathered: a fill that *)
(* executes later is not captured, and none executes twice.                 *)
CapturedIsGathered ==
    /\ captured \subseteq executed
    /\ phase = "draining" =>
          \A f \in captured : writes[f] # "none" => f \in draining

CaptureInv ==
    /\ TypeOK
    /\ CommitHasRow
    /\ CapturedIsGathered
    /\ CapturedFillsKept

-----------------------------------------------------------------------------
(* What the for loop of a job leaves when it goes on: still well-typed.     *)
LEMMA AdvanceType ==
    ASSUME TypeOK, NEW j \in Jobs, NEW left \in SUBSET Fills, Advance(j, left)
    PROVE  /\ pc' \in [Jobs -> {"idle", "requesting", "execute", "commit"}]
           /\ queue' \in [Jobs -> SUBSET Fills]
           /\ current' \in [Jobs -> Storable \cup {None}]
           /\ \A k \in Jobs : pc'[k] \in {"execute", "commit"} <=>
                                 current'[k] # None
  <1>1. None \notin Storable
    BY NoneAssumption DEF Storable
  <1>2. CASE Finish(j)
    BY <1>2 DEF TypeOK, Finish
  <1>3. ASSUME NEW f \in left \cap Storable,
               pc' = [pc EXCEPT ![j] = "execute"],
               NEW skipped \in SUBSET (left \cap Dropped),
               queue' = [queue EXCEPT ![j] = left \ ({f} \cup skipped)],
               current' = [current EXCEPT ![j] = f]
        PROVE  /\ pc' \in [Jobs -> {"idle", "requesting", "execute", "commit"}]
               /\ queue' \in [Jobs -> SUBSET Fills]
               /\ current' \in [Jobs -> Storable \cup {None}]
               /\ \A k \in Jobs : pc'[k] \in {"execute", "commit"} <=>
                                     current'[k] # None
    BY <1>1, <1>3 DEF TypeOK
  <1> QED
    BY <1>2, <1>3 DEF Advance

(* Every step keeps every variable of its type.                             *)
LEMMA TypeStep == ASSUME TypeOK, [Next]_vars PROVE TypeOK'
  <1>0. None \notin Storable /\ Storable \subseteq Fills /\ Daily \in Jobs
    BY NoneAssumption DEF Storable, Jobs
  <1>1. ASSUME NEW f \in Fills, Execute(f) PROVE TypeOK'
    BY <1>1 DEF TypeOK, Execute, jobVars
  <1>2. ASSUME NEW f \in Fills, Expire(f) PROVE TypeOK'
    BY <1>2 DEF TypeOK, Expire, jobVars
  <1>3. ASSUME NEW f \in Storable, LiveInsert(f) PROVE TypeOK'
    BY <1>3 DEF TypeOK, LiveInsert, Inserted, jobVars, environment
  <1>4. ASSUME NEW f \in Storable, LiveCommit(f) PROVE TypeOK'
    BY <1>4 DEF TypeOK, LiveCommit, Committed, jobVars, environment
  <1>5. ASSUME NEW f \in Storable, LiveWriteFails(f) PROVE TypeOK'
    BY <1>5 DEF TypeOK, LiveWriteFails, jobVars, environment
  <1>6. ASSUME NEW j \in Jobs, ReconcileStarts(j) PROVE TypeOK'
    BY <1>6 DEF TypeOK, ReconcileStarts, environment
  <1>7. ASSUME NEW j \in Jobs, ExecutionsArrive(j) PROVE TypeOK'
    <2>1. retained \in SUBSET Fills
      BY DEF TypeOK
    <2> QED
      BY <1>7, <2>1, AdvanceType DEF TypeOK, ExecutionsArrive, environment
  <1>8. ASSUME NEW j \in Jobs, ExecutionsFail(j) PROVE TypeOK'
    BY <1>8, <1>0 DEF TypeOK, ExecutionsFail, Finish, environment
  <1>9. ASSUME NEW j \in Jobs, ReconcileInsert(j) PROVE TypeOK'
    <2>1. current[j] \in Storable
      BY <1>9 DEF TypeOK, ReconcileInsert
    <2> QED
      BY <1>9, <2>1 DEF TypeOK, ReconcileInsert, Inserted, environment
  <1>10. ASSUME NEW j \in Jobs, ReconcileCommit(j) PROVE TypeOK'
    <2>1. queue[j] \in SUBSET Fills
      BY DEF TypeOK
    <2> QED
      BY <1>10, <2>1, AdvanceType
      DEF TypeOK, ReconcileCommit, Committed, environment
  <1>11. ASSUME NEW j \in Jobs, ReconcileWriteFails(j) PROVE TypeOK'
    <2>1. queue[j] \in SUBSET Fills
      BY DEF TypeOK
    <2> QED
      BY <1>11, <2>1, AdvanceType
      DEF TypeOK, ReconcileWriteFails, environment
  <1>12. CASE ShutdownBegins
    <2>1. durable' \subseteq table' /\ table' \subseteq Storable
      BY <1>12 DEF TypeOK, ShutdownBegins, Inserted, Committed, Jobs
    <2> QED
      BY <1>12, <2>1, <1>0
      DEF TypeOK, ShutdownBegins, Finish, Pending, environment
  <1>13. CASE ShutdownEnds
    BY <1>13, <1>0 DEF TypeOK, ShutdownEnds, ProcessEnds
  <1>14. CASE Crash
    BY <1>14, <1>0 DEF TypeOK, Crash, ProcessEnds
  <1>15. CASE Restart
    BY <1>15 DEF TypeOK, Restart, environment, jobVars
  <1>16. CASE LinkMoves
    BY <1>16 DEF TypeOK, LinkMoves, jobVars
  <1>17. CASE DbMoves
    BY <1>17 DEF TypeOK, DbMoves, jobVars
  <1>18. CASE UNCHANGED vars
    BY <1>18 DEF TypeOK, vars
  <1> QED
    BY <1>1, <1>2, <1>3, <1>4, <1>5, <1>6, <1>7, <1>8, <1>9, <1>10, <1>11,
       <1>12, <1>13, <1>14, <1>15, <1>16, <1>17, <1>18
    DEF Next, LiveStep, JobStep

(* Every variable of the fills' tasks and jobs keeps its type.              *)
THEOREM TypeCorrect == Spec => []TypeOK
  <1>1. Init => TypeOK
    BY DEF Init, TypeOK
  <1> QED
    BY <1>1, TypeStep, PTL DEF Spec

-----------------------------------------------------------------------------
(* A step that leaves the tasks and the process alone, and of the table     *)
(* takes nothing away, keeps the rest of the invariant.                     *)
LEMMA JobKeeps ==
    ASSUME CaptureInv,
           UNCHANGED <<phase, executed, writes, draining, captured>>,
           table \subseteq table', durable \subseteq durable'
    PROVE  CommitHasRow' /\ CapturedIsGathered' /\ CapturedFillsKept'
  BY DEF CaptureInv, CommitHasRow, CapturedIsGathered, CapturedFillsKept

(* Every step keeps the strengthened invariant on captured fills.           *)
LEMMA CaptureStep == ASSUME CaptureInv, [Next]_vars PROVE CaptureInv'
  <1>0. TypeOK /\ TypeOK'
    BY TypeStep DEF CaptureInv
  <1> DEFINE Rest == CommitHasRow /\ CapturedIsGathered /\ CapturedFillsKept
  <1> SUFFICES Rest'
    BY <1>0 DEF CaptureInv
  <1>1. ASSUME NEW f \in Fills, Execute(f) PROVE Rest'
    BY <1>0, <1>1 DEF CaptureInv, CommitHasRow, CapturedIsGathered,
       CapturedFillsKept, TypeOK, Execute
  <1>2. ASSUME NEW f \in Storable, LiveInsert(f) PROVE Rest'
    BY <1>0, <1>2 DEF CaptureInv, CommitHasRow, CapturedIsGathered,
       CapturedFillsKept, TypeOK, LiveInsert, Inserted, environment
  <1>3. ASSUME NEW f \in Storable, LiveCommit(f) PROVE Rest'
    BY <1>0, <1>3 DEF CaptureInv, CommitHasRow, CapturedIsGathered,
       CapturedFillsKept, TypeOK, LiveCommit, Committed, environment
  <1>4. ASSUME NEW f \in Storable, LiveWriteFails(f) PROVE Rest'
    BY <1>0, <1>4 DEF CaptureInv, CommitHasRow, CapturedIsGathered,
       CapturedFillsKept, TypeOK, LiveWriteFails, environment
  <1>5. ASSUME NEW j \in Jobs, ReconcileStarts(j) \/ JobStep(j) PROVE Rest'
    BY <1>0, <1>5, JobKeeps DEF TypeOK, ReconcileStarts, JobStep,
       ExecutionsArrive, ExecutionsFail, ReconcileInsert, ReconcileCommit,
       ReconcileWriteFails, Inserted, Committed, environment
  <1>6. CASE ShutdownBegins
    BY <1>0, <1>6 DEF CaptureInv, CommitHasRow, CapturedIsGathered,
       CapturedFillsKept, TypeOK, ShutdownBegins, Pending, Inserted,
       Committed, environment
  <1>7. CASE ShutdownEnds
    BY <1>0, <1>7 DEF CaptureInv, CommitHasRow, CapturedIsGathered,
       CapturedFillsKept, TypeOK, ShutdownEnds, ProcessEnds, Pending
  <1>8. CASE Crash
    BY <1>0, <1>8 DEF CaptureInv, CommitHasRow, CapturedIsGathered,
       CapturedFillsKept, TypeOK, Crash, ProcessEnds
  <1>9. CASE Restart
    BY <1>9 DEF CaptureInv, CommitHasRow, CapturedIsGathered,
       CapturedFillsKept, Restart, environment
  <1>10. CASE LinkMoves \/ DbMoves \/ \E f \in Fills : Expire(f)
    BY <1>10, JobKeeps DEF LinkMoves, DbMoves, Expire
  <1>11. CASE UNCHANGED vars
    BY <1>11, JobKeeps DEF vars
  <1> QED
    BY <1>1, <1>2, <1>3, <1>4, <1>5, <1>6, <1>7, <1>8, <1>9, <1>10, <1>11
    DEF Next, LiveStep

(* A fill whose task _on_exec_details started before a shutdown is durable  *)
(* or still being written, for any executions, jobs, failures of the        *)
(* database and drops: disconnect() drains what it must.                    *)
THEOREM CapturedFillsAreKept == Spec => []CapturedFillsKept
  <1>1. Init => CaptureInv
    BY DEF Init, CaptureInv, TypeOK, CommitHasRow, CapturedIsGathered,
       CapturedFillsKept
  <1>2. CaptureInv => CapturedFillsKept
    BY DEF CaptureInv
  <1> QED
    BY <1>1, <1>2, CaptureStep, PTL DEF Spec

(* After a graceful shutdown nothing captured is missing from the database. *)
THEOREM GracefulStopLosesNothing ==
    Spec => [](phase = "stopped" => captured \subseteq durable)
  <1> DEFINE Stopped == phase = "stopped" => captured \subseteq durable
             Ended == phase = "stopped" =>
                         /\ link = "down"
                         /\ \A f \in Storable : writes[f] = "none"
  <1>1. Init => Ended
    BY DEF Init
  <1>2. TypeOK /\ Ended /\ [Next]_vars => Ended'
    <2> SUFFICES ASSUME TypeOK, Ended, [Next]_vars PROVE Ended'
      OBVIOUS
    <2>1. ASSUME NEW f \in Fills, Execute(f) \/ Expire(f) PROVE Ended'
      BY <2>1 DEF TypeOK, Execute, Expire
    <2>2. ASSUME NEW f \in Storable, LiveStep(f) PROVE Ended'
      BY <2>2 DEF TypeOK, LiveStep, LiveInsert, LiveCommit, LiveWriteFails,
         environment
    <2>3. ASSUME NEW j \in Jobs, ReconcileStarts(j) \/ JobStep(j) PROVE Ended'
      BY <2>3 DEF ReconcileStarts, JobStep, ExecutionsArrive, ExecutionsFail,
         ReconcileInsert, ReconcileCommit, ReconcileWriteFails, environment
    <2>4. CASE ShutdownBegins \/ ShutdownEnds \/ Crash \/ Restart
      BY <2>4 DEF ShutdownBegins, ShutdownEnds, Crash, Restart, ProcessEnds
    <2>5. CASE LinkMoves \/ DbMoves \/ UNCHANGED vars
      BY <2>5 DEF LinkMoves, DbMoves, vars
    <2> QED
      BY <2>1, <2>2, <2>3, <2>4, <2>5 DEF Next
  <1>3. TypeOK /\ Ended /\ CapturedFillsKept => Stopped
    BY DEF TypeOK, CapturedFillsKept
  <1> QED
    BY <1>1, <1>2, <1>3, TypeCorrect, CapturedFillsAreKept, PTL DEF Spec

=============================================================================
