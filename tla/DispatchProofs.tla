--------------------------- MODULE DispatchProofs ---------------------------
(* Theorems about the control plane, for every number of requests in       *)
(* flight, every bound and every set of workloads.                         *)
EXTENDS Dispatch, TLAPS

(* A handler of /workload knows the batch it was numbered with.            *)
BatchKnown ==
  \A h \in Control : hpc[h] \in {"create", "accept", "spawn"} => own[h] \in Batches

(* A handler that waits in a send on Killc owes at least that kill.        *)
KillOwed == \A h \in Control : hpc[h] = "parked" => left[h] > 0

TypeInv == TypeOK /\ BatchKnown /\ KillOwed

(* The types of Dispatch and what makes them inductive.                    *)
LEMMA TypedStrongly == Spec => []TypeInv
<1> USE BoundsAssumption, NoFileAssumption
<1>1. Init => TypeInv
  BY DEF TypeInv, BatchKnown, KillOwed, Init, TypeOK, Batches, Workers
<1>2. TypeInv /\ [Next]_dispatchVars => TypeInv'
  <2> SUFFICES ASSUME TypeInv, [Next]_dispatchVars PROVE TypeInv'
    OBVIOUS
  <2> USE DEF TypeInv, BatchKnown, KillOwed, TypeOK, appVars, reqVars, pollVars,
              Goto, Reply, Arrive
  <2>1. ASSUME NEW h \in Control, NEW n \in 0..MaxWorkers, NEW wl \in Workloads,
               WorkloadArrives(h, n, wl)
        PROVE  TypeInv'
    BY <2>1 DEF WorkloadArrives, Batches
  <2>2. ASSUME NEW h \in Control, PauseArrives(h) \/ KillArrives(h)
        PROVE  TypeInv'
    <3>1. CASE PauseArrives(h)
      BY <3>1 DEF PauseArrives, KillsOwed
    <3>2. CASE KillArrives(h)
      BY <3>2 DEF KillArrives, KillsOwed
    <3> QED
      BY <2>2, <3>1, <3>2
  <2>3. ASSUME NEW p \in Pollers, PollArrives(p)
        PROVE  TypeInv'
    BY <2>3 DEF PollArrives, PollGoto
  <2>4. ASSUME NEW h \in Control, WorkloadStep(h)
        PROVE  TypeInv'
    <3>1. CASE CreateFile(h)
      <4>1. own[h] \in Batches
        BY <3>1 DEF CreateFile
      <4> QED
        BY <3>1, <4>1 DEF CreateFile
    <3>2. CASE RejectWorkload(h)
      BY <3>2 DEF RejectWorkload
    <3>5. CASE SpawnPanics(h)
      BY <3>5 DEF SpawnPanics
    <3>6. CASE WorkloadDone(h)
      BY <3>6 DEF WorkloadDone
    <3>3. CASE AcceptWorkload(h)
      BY <3>3 DEF AcceptWorkload
    <3>4. ASSUME NEW m \in windows[h], Spawn(h, m)
          PROVE  TypeInv'
      <4>1. left[h] - 1 \in 0..MaxWorkers
        BY <3>4 DEF Spawn
      <4> QED
        BY <3>4, <4>1 DEF Spawn
    <3> QED
      BY <2>4, <3>1, <3>2, <3>3, <3>4, <3>5, <3>6 DEF WorkloadStep
  <2>5. ASSUME NEW h \in Control, KillStep(h)
        PROVE  TypeInv'
    <3>1. CASE SendKill(h)
      BY <3>1 DEF SendKill
    <3>2. CASE KillDone(h)
      BY <3>2 DEF KillDone
    <3>3. CASE PauseKillsDone(h)
      BY <3>3 DEF PauseKillsDone
    <3>4. CASE PauseNoFile(h)
      BY <3>4 DEF PauseNoFile
    <3>5. CASE PauseFindsFile(h)
      BY <3>5 DEF PauseFindsFile
    <3>6. CASE CloseFile(h)
      BY <3>6 DEF CloseFile
    <3>7. CASE ClearFile(h)
      BY <3>7 DEF ClearFile
    <3> QED
      BY <2>5, <3>1, <3>2, <3>3, <3>4, <3>5, <3>6, <3>7 DEF KillStep
  <2>6. ASSUME NEW h \in Control, NEW w \in Workers, TakeKill(h, w)
        PROVE  TypeInv'
    <3>1. left[h] - 1 \in 0..MaxWorkers
      BY <2>6 DEF TakeKill
    <3> QED
      BY <2>6, <3>1 DEF TakeKill
  <2>7. ASSUME NEW w \in Workers, WorkerStep(w) \/ TakeStat(w)
        PROVE  TypeInv'
    BY <2>7 DEF WorkerStep, WorkerTick, WorkerPredict, PredictOk, PredictFails,
                WorkerFinish, WorkerGoto, TakeStat
  <2>8. CASE MonitorTick
    BY <2>8 DEF MonitorTick
  <2>9. ASSUME NEW p \in Pollers, TakeReport(p) \/ PollStep(p)
        PROVE  TypeInv'
    <3>1. CASE TakeReport(p)
      BY <3>1 DEF TakeReport
    <3>2. CASE PollTimeout(p) \/ PollNoFile(p) \/ PollFindsFile(p)
      BY <3>2 DEF PollTimeout, PollNoFile, PollFindsFile, PollGoto
    <3>3. CASE PollReadsFile(p) \/ PollWrite(p)
      BY <3>3 DEF PollReadsFile, PollWrite, PollGoto
    <3>4. CASE WriteFatal(p)
      BY <3>4 DEF WriteFatal
    <3> QED
      BY <2>9, <3>1, <3>2, <3>3, <3>4 DEF PollStep
  <2>10. CASE UNCHANGED dispatchVars
    BY <2>10 DEF dispatchVars
  <2> QED
    BY <2>1, <2>2, <2>3, <2>4, <2>5, <2>6, <2>7, <2>8, <2>9, <2>10
    DEF Next, Arrivals
<1> QED
  BY <1>1, <1>2, PTL DEF Spec

(* The handlers, goroutines and channels of Dispatch only ever hold values *)
(* of their types: the count of kills owed stays within the crew's size    *)
(* however reads of app.config.currentWorkers interleave with writes.      *)
THEOREM Typed == Spec => []TypeOK
<1>1. TypeInv => TypeOK
  BY DEF TypeInv
<1> QED
  BY <1>1, TypedStrongly, PTL

(* However many pauses, workloads and polls interleave, app.reportfile     *)
(* names a closed file only between the Close and the nil assignment of    *)
(* some handlePause (handlers.go 213-217).  The invariant is inductive: a  *)
(* handler leaves "clear" only by making app.reportfile nil.               *)
THEOREM FileUsable == Spec => []ReportFileUsable
<1> USE DEF appVars, reqVars, pollVars, Goto, Reply, Arrive
<1>1. Init => ReportFileUsable
  BY DEF Init, ReportFileUsable
<1>2. TypeOK /\ ReportFileUsable /\ [Next]_dispatchVars => ReportFileUsable'
  <2> SUFFICES ASSUME TypeOK, ReportFileUsable, [Next]_dispatchVars
               PROVE  ReportFileUsable'
    OBVIOUS
  <2>1. ASSUME UNCHANGED <<reportfile, openFiles>>,
               \A i \in Control : hpc[i] = "clear" => hpc'[i] = "clear"
        PROVE  ReportFileUsable'
    BY <2>1 DEF ReportFileUsable
  <2>2. ASSUME NEW h \in Control, NEW n \in 0..MaxWorkers, NEW wl \in Workloads,
               WorkloadArrives(h, n, wl)
        PROVE  ReportFileUsable'
    BY <2>1, <2>2 DEF WorkloadArrives, TypeOK
  <2>3. ASSUME NEW h \in Control, PauseArrives(h) \/ KillArrives(h)
        PROVE  ReportFileUsable'
    BY <2>1, <2>3 DEF PauseArrives, KillArrives, TypeOK
  <2>4. ASSUME NEW p \in Pollers, PollArrives(p) \/ TakeReport(p) \/ PollStep(p)
        PROVE  ReportFileUsable'
    BY <2>1, <2>4 DEF PollArrives, TakeReport, PollStep, PollTimeout, PollNoFile,
                      PollFindsFile, PollReadsFile, PollWrite, WriteFatal, PollGoto
  <2>5. ASSUME NEW h \in Control, WorkloadStep(h)
        PROVE  ReportFileUsable'
    <3>1. CASE CreateFile(h)
      BY <3>1 DEF CreateFile, ReportFileUsable, TypeOK
    <3>2. CASE RejectWorkload(h) \/ SpawnPanics(h) \/ WorkloadDone(h)
      BY <2>1, <3>2 DEF RejectWorkload, SpawnPanics, WorkloadDone, TypeOK
    <3>3. CASE AcceptWorkload(h)
      BY <2>1, <3>3 DEF AcceptWorkload, TypeOK
    <3>4. ASSUME NEW m \in windows[h], Spawn(h, m)
          PROVE  ReportFileUsable'
      BY <2>1, <3>4 DEF Spawn
    <3> QED
      BY <2>5, <3>1, <3>2, <3>3, <3>4 DEF WorkloadStep
  <2>6. ASSUME NEW h \in Control, KillStep(h)
        PROVE  ReportFileUsable'
    <3>1. CASE SendKill(h) \/ KillDone(h) \/ PauseKillsDone(h)
      BY <2>1, <3>1 DEF SendKill, KillDone, PauseKillsDone, TypeOK
    <3>2. CASE PauseNoFile(h) \/ PauseFindsFile(h)
      BY <2>1, <3>2 DEF PauseNoFile, PauseFindsFile, TypeOK
    <3>3. CASE CloseFile(h)
      BY <3>3 DEF CloseFile, ReportFileUsable, TypeOK
    <3>4. CASE ClearFile(h)
      BY <3>4 DEF ClearFile, ReportFileUsable
    <3> QED
      BY <2>6, <3>1, <3>2, <3>3, <3>4 DEF KillStep
  <2>7. ASSUME NEW h \in Control, NEW w \in Workers, TakeKill(h, w)
        PROVE  ReportFileUsable'
    BY <2>1, <2>7 DEF TakeKill, TypeOK
  <2>8. ASSUME NEW w \in Workers, WorkerStep(w) \/ TakeStat(w)
        PROVE  ReportFileUsable'
    BY <2>1, <2>8 DEF WorkerStep, WorkerTick, WorkerPredict, PredictOk, PredictFails,
                      WorkerFinish, WorkerGoto, TakeStat
  <2>9. CASE MonitorTick
    BY <2>1, <2>9 DEF MonitorTick
  <2>10. CASE UNCHANGED dispatchVars
    BY <2>1, <2>10 DEF dispatchVars
  <2> QED
    BY <2>2, <2>3, <2>4, <2>5, <2>6, <2>7, <2>8, <2>9, <2>10 DEF Next, Arrivals
<1> QED
  BY <1>1, <1>2, Typed, PTL DEF Spec
=============================================================================
