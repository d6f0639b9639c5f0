-------------------------- MODULE AccountingProofs --------------------------
(* Theorems about what is counted, for any number of workloads, workers,   *)
(* quotas and requests in flight.                                          *)
EXTENDS Accounting, DispatchProofs, FiniteSetTheorems

(* A worker that is started is new: the batches of handlers that still     *)
(* start workers differ, and what they owe was never started.              *)
Starting(h) == hpc[h] \in {"create", "accept", "spawn"}

NewCrew ==
  /\ \A h \in Control : Starting(h) =>
       /\ own[h] \in 1..batches
       /\ \A k \in 1..left[h] : wpc[<<own[h], k>>] = "none"
       /\ \A g \in Control : g # h /\ Starting(g) => own[g] # own[h]
  /\ \A w \in Workers : wpc[w] # "none" => w[1] <= batches

(* Every turn counts as a request when it begins, a prediction when it     *)
(* ends: a worker that predicts has one turn more.  What it completed was  *)
(* told to the monitor or is still in its own count.                       *)
Predicting(w) == IF wpc[w] = "predict" THEN 1 ELSE 0

Counted(w) ==
  /\ sent[w] <= quota[w]
  /\ count[w] + Predicting(w) <= sent[w]
  /\ made[w] + Predicting(w) <= sent[w]
  /\ made[w] = heard[w] + count[w]
  /\ wpc[w] = "none" => sent[w] = 0
  /\ wpc[w] # "none" => model[w] \in Ids

WorkerTypes ==
  /\ quota \in [Workers -> Quotas \cup {0}]
  /\ model \in [Workers -> Ids \cup {0}]
  /\ sent \in [Workers -> Nat] /\ count \in [Workers -> Nat]
  /\ made \in [Workers -> Nat] /\ heard \in [Workers -> Nat]

WorkerInv == WorkerTypes /\ \A w \in Workers : Counted(w)

(* The totals and the rows made of them.                                   *)
MonitorInv ==
  /\ isent \in Nat /\ idone \in Nat /\ idone <= isent
  /\ bid \in 0..MaxBatches
  /\ DOMAIN perSec \subseteq Ids /\ DOMAIN lagDone = DOMAIN perSec

RowInv ==
  /\ got \in [Pollers -> Rows] /\ last \in [Batches -> Rows]
  /\ \A p \in Pollers : got[p].done <= got[p].sent /\ got[p].done <= idone
  /\ \A b \in Batches : last[b].done <= last[b].sent /\ last[b].done <= idone

(* With one poll at a time a row that is held is not older than a row that *)
(* was written.                                                            *)
OnePoll == \A p, q \in Pollers : p = q
RowsInOrder ==
  \A p \in Pollers, b \in Batches : got[p] # NoRow => last[b].done <= got[p].done

CountInv == NewCrew /\ WorkerInv /\ MonitorInv /\ RowInv

(* What is counted changes nothing in the control plane.                   *)
LEMMA CountSteps == [CountNext]_vars => [Next]_dispatchVars
<1> SUFFICES ASSUME [CountNext]_vars PROVE [Next]_dispatchVars
  OBVIOUS
<1>1. CASE Uncounted
  BY <1>1 DEF Uncounted, Next, WorkloadStep, PollStep
<1>2. ASSUME NEW h \in Control, NEW m \in Ids, NEW n \in Quotas, SpawnCounted(h, m, n)
      PROVE  [Next]_dispatchVars
  <2>1. m \in windows[h]
    BY <1>2 DEF SpawnCounted, Spawn
  <2> QED
    BY <1>2, <2>1 DEF SpawnCounted, Next, WorkloadStep
<1>3. ASSUME NEW h \in Control, NEW w \in Workers, KillTurn(h, w)
      PROVE  [Next]_dispatchVars
  BY <1>3 DEF KillTurn, Next
<1>4. ASSUME NEW w \in Workers,
             \/ TickTurn(w) \/ PredictTurn(w) \/ LoopOver(w)
             \/ PredictionCounted(w) \/ PredictionLost(w) \/ StatCounted(w)
      PROVE  [Next]_dispatchVars
  BY <1>4 DEF TickTurn, PredictTurn, LoopOver, PredictionCounted, PredictionLost,
              StatCounted, Next, WorkerStep
<1>5. ASSUME NEW p \in Pollers, ReportCounted(p) \/ RowsWritten(p) \/ RowsDropped(p)
      PROVE  [Next]_dispatchVars
  BY <1>5 DEF ReportCounted, RowsWritten, RowsDropped, Next, PollStep
<1>6. CASE UNCHANGED vars
  BY <1>6 DEF vars
<1> QED
  BY <1>1, <1>2, <1>3, <1>4, <1>5, <1>6 DEF CountNext

LEMMA CountTypeInv == CountSpec => []TypeInv
<1>1. CountInit => Init
  BY DEF CountInit
<1> QED
  BY <1>1, CountSteps, TypedStrongly, PTL DEF CountSpec, Spec

LEMMA CountInitHolds == CountInit => CountInv /\ RowsInOrder
<1> SUFFICES ASSUME CountInit PROVE CountInv /\ RowsInOrder
  OBVIOUS
<1> USE BoundsAssumption
<1>1. NewCrew
  BY DEF CountInit, Init, NewCrew, Starting, Batches, Workers
<1>2. WorkerInv
  BY QuotasAssumption DEF CountInit, Init, WorkerInv, WorkerTypes, Counted, Predicting
<1>3. MonitorInv
  BY DEF CountInit, MonitorInv
<1>4. NoRow \in Rows /\ NoRow.done = 0 /\ NoRow.sent = 0
  BY DEF NoRow, Rows
<1>5. RowInv /\ RowsInOrder
  BY <1>4 DEF CountInit, RowInv, RowsInOrder
<1> QED
  BY <1>1, <1>2, <1>3, <1>5 DEF CountInv

(* The control plane starts only workers that are new.                     *)
LEMMA NewCrewHolds ==
  ASSUME TypeInv, NewCrew, [Next]_dispatchVars
  PROVE  NewCrew'
<1> USE BoundsAssumption
<1>1. \A h \in Control, k \in 1..MaxWorkers : Starting(h) =>
        /\ <<own[h], k>> \in Workers /\ own[h] \in Nat /\ left[h] \in 0..MaxWorkers
  BY DEF TypeInv, TypeOK, BatchKnown, Starting, Workers, Batches
<1>2. ASSUME UNCHANGED batches,
             \A w \in Workers : wpc'[w] # "none" => wpc[w] # "none",
             \A i \in Control : Starting(i)' =>
               Starting(i) /\ own'[i] = own[i] /\ left'[i] = left[i],
             wpc' \in [Workers -> {"none", "select", "report", "predict",
                                   "killed", "finished", "failed"}]
      PROVE  NewCrew'
  <2>1. ASSUME NEW h \in Control, Starting(h)', NEW k \in 1..left'[h]
        PROVE  wpc'[<<own'[h], k>>] = "none"
    <3>1. Starting(h) /\ k \in 1..MaxWorkers /\ <<own[h], k>> \in Workers
      BY <1>1, <1>2, <2>1 DEF TypeInv, TypeOK
    <3> QED
      BY <1>2, <2>1, <3>1 DEF NewCrew
  <2> QED
    BY <1>2, <2>1 DEF NewCrew
<1> USE DEF Goto, Reply, Arrive, appVars, reqVars
<1>3. ASSUME NEW h \in Control, NEW n \in 0..MaxWorkers, NEW wl \in Workloads,
             WorkloadArrives(h, n, wl)
      PROVE  NewCrew'
  <2>1. \A i \in Control \ {h} :
          /\ Starting(i)' <=> Starting(i)
          /\ own'[i] = own[i] /\ left'[i] = left[i]
    BY <1>3 DEF WorkloadArrives, Starting, TypeInv, TypeOK
  <2>2. own'[h] = batches + 1 /\ left'[h] = n /\ batches' = batches + 1 /\ wpc' = wpc
    BY <1>3 DEF WorkloadArrives, TypeInv, TypeOK
  <2>3. batches \in Nat /\ batches + 1 \in Batches
    BY <1>3 DEF WorkloadArrives, TypeInv, TypeOK, Batches
  <2>4. \A k \in 1..n : wpc[<<batches + 1, k>>] = "none"
    BY <2>3 DEF NewCrew, Workers
  <2>5. \A i \in Control : Starting(i) => own[i] \in 1..batches
    BY DEF NewCrew
  <2>6. \A w \in Workers : wpc'[w] # "none" => w[1] <= batches'
    BY <2>2, <2>3 DEF NewCrew, Workers, Batches
  <2>7. \A i \in Control : Starting(i)' => own'[i] \in 1..batches'
    BY <2>1, <2>2, <2>3, <2>5
  <2>8. \A i \in Control : Starting(i)' => \A k \in 1..left'[i] : wpc'[<<own'[i], k>>] = "none"
    BY <2>1, <2>2, <2>4 DEF NewCrew
  <2>9. \A i, g \in Control : Starting(i)' /\ g # i /\ Starting(g)' => own'[g] # own'[i]
    BY <2>1, <2>2, <2>3, <2>5 DEF NewCrew
  <2> QED
    BY <2>6, <2>7, <2>8, <2>9 DEF NewCrew
<1>4. ASSUME NEW h \in Control, PauseArrives(h) \/ KillArrives(h)
      PROVE  NewCrew'
  BY <1>2, <1>4 DEF PauseArrives, KillArrives, Starting, TypeInv, TypeOK
<1>5. ASSUME NEW h \in Control, WorkloadStep(h)
      PROVE  NewCrew'
  <2>1. CASE CreateFile(h) \/ AcceptWorkload(h)
    BY <1>2, <2>1 DEF CreateFile, AcceptWorkload, Starting, TypeInv, TypeOK
  <2>2. CASE RejectWorkload(h) \/ SpawnPanics(h) \/ WorkloadDone(h)
    BY <1>2, <2>2 DEF RejectWorkload, SpawnPanics, WorkloadDone, Starting, TypeInv, TypeOK
  <2>3. ASSUME NEW m \in windows[h], Spawn(h, m)
        PROVE  NewCrew'
    <3> DEFINE new == <<own[h], left[h]>>
    <3>1. /\ Starting(h) /\ left[h] \in 1..MaxWorkers /\ new \in Workers
          /\ left' = [left EXCEPT ![h] = left[h] - 1]
          /\ wpc' = [wpc EXCEPT ![new] = "select"]
          /\ UNCHANGED <<hpc, own, batches>>
      BY <1>1, <2>3 DEF Spawn, Starting, TypeInv, TypeOK
    <3>2. \A i \in Control : Starting(i)' <=> Starting(i)
      BY <3>1 DEF Starting
    <3>3. ASSUME NEW i \in Control, Starting(i), NEW k \in 1..left'[i]
          PROVE  wpc'[<<own'[i], k>>] = "none"
      <4>1. k \in 1..left[i] /\ k \in 1..MaxWorkers /\ (i = h => k # left[h])
        BY <3>1, <3>3 DEF TypeInv, TypeOK
      <4>2. <<own[i], k>> \in Workers /\ wpc[<<own[i], k>>] = "none"
        BY <1>1, <3>3, <4>1 DEF NewCrew
      <4>3. <<own[i], k>> # new
        BY <3>1, <3>3, <4>1 DEF NewCrew
      <4> QED
        BY <3>1, <4>2, <4>3 DEF TypeInv, TypeOK
    <3>4. \A w \in Workers : wpc'[w] # "none" => w[1] <= batches
      <4>1. own[h] <= batches
        BY <3>1 DEF NewCrew, TypeInv, TypeOK
      <4>2. wpc'[new] # "none" /\ new[1] <= batches
        BY <3>1, <4>1 DEF TypeInv, TypeOK
      <4>3. \A w \in Workers \ {new} : wpc'[w] = wpc[w]
        BY <3>1 DEF TypeInv, TypeOK
      <4> QED
        BY <4>2, <4>3 DEF NewCrew
    <3> HIDE DEF new
    <3> QED
      BY <3>1, <3>2, <3>3, <3>4 DEF NewCrew
  <2> QED
    BY <1>5, <2>1, <2>2, <2>3 DEF WorkloadStep
<1>6. ASSUME NEW h \in Control, KillStep(h)
      PROVE  NewCrew'
  BY <1>2, <1>6 DEF KillStep, SendKill, KillDone, PauseKillsDone, PauseNoFile, PauseFindsFile,
     CloseFile, ClearFile, Starting, TypeInv, TypeOK
<1>7. ASSUME NEW h \in Control, NEW w \in Workers, TakeKill(h, w)
      PROVE  NewCrew'
  BY <1>2, <1>7 DEF TakeKill, Starting, TypeInv, TypeOK
<1>8. ASSUME NEW w \in Workers, WorkerStep(w) \/ TakeStat(w)
      PROVE  NewCrew'
  BY <1>2, <1>8 DEF WorkerStep, WorkerTick, WorkerPredict, PredictOk, PredictFails,
     WorkerFinish, WorkerGoto, TakeStat, Starting, TypeInv, TypeOK
<1>9. CASE \/ MonitorTick \/ UNCHANGED dispatchVars
           \/ \E p \in Pollers : PollArrives(p) \/ TakeReport(p) \/ PollStep(p)
  BY <1>2, <1>9 DEF MonitorTick, PollArrives, TakeReport, PollStep, PollTimeout, PollNoFile,
     PollFindsFile, PollReadsFile, PollWrite, WriteFatal, PollGoto, pollVars, dispatchVars,
     Starting, TypeInv, TypeOK
<1> QED
  BY <1>3, <1>4, <1>5, <1>6, <1>7, <1>8, <1>9 DEF Next, Arrivals

LEMMA WorkerNumbers ==
  ASSUME WorkerTypes, NEW w \in Workers
  PROVE  /\ quota[w] \in Nat /\ sent[w] \in Nat /\ count[w] \in Nat
         /\ made[w] \in Nat /\ heard[w] \in Nat
<1>1. Quotas \cup {0} \subseteq Nat
  <2>1. Quotas \subseteq Nat
    BY QuotasAssumption, Zenon
  <2> QED
    BY <2>1
<1>2. /\ quota[w] \in Quotas \cup {0}
      /\ sent[w] \in Nat /\ count[w] \in Nat /\ made[w] \in Nat /\ heard[w] \in Nat
  BY DEF WorkerTypes
<1> QED
  BY <1>1, <1>2

(* A step that leaves the workers alone, but for a prediction that is over.*)
LEMMA WorkersRest ==
  ASSUME WorkerInv, UNCHANGED <<loopVars, pastVars>>,
         \A w \in Workers :
           /\ wpc'[w] = "none" <=> wpc[w] = "none"
           /\ wpc'[w] = "predict" => wpc[w] = "predict"
  PROVE  WorkerInv'
<1>1. WorkerTypes'
  BY DEF WorkerInv, WorkerTypes, loopVars, pastVars
<1>2. ASSUME NEW w \in Workers PROVE Counted(w)'
  <2>1. Counted(w) /\ sent[w] \in Nat /\ count[w] \in Nat /\ made[w] \in Nat
    BY <1>2, WorkerNumbers DEF WorkerInv
  <2>2. Predicting(w)' <= Predicting(w) /\ Predicting(w)' \in Nat /\ Predicting(w) \in Nat
    <3>1. CASE wpc[w] = "predict"
      BY <3>1 DEF Predicting
    <3>2. CASE wpc[w] # "predict"
      <4>1. wpc'[w] # "predict"
        BY <3>2
      <4> QED
        BY <3>2, <4>1 DEF Predicting
    <3> QED
      BY <3>1, <3>2
  <2>3. /\ sent'[w] = sent[w] /\ quota'[w] = quota[w] /\ model'[w] = model[w]
        /\ count'[w] = count[w] /\ made'[w] = made[w] /\ heard'[w] = heard[w]
    BY DEF loopVars, pastVars
  <2> QED
    BY <2>1, <2>2, <2>3 DEF Counted
<1> QED
  BY <1>1, <1>2 DEF WorkerInv

(* A worker that begins a turn counts a request more.                      *)
LEMMA TurnBegun ==
  ASSUME TypeOK, WorkerInv, NEW w \in Workers, BeginTurn(w), wpc[w] = "select",
         NEW s \in {"report", "predict", "killed"}, wpc' = [wpc EXCEPT ![w] = s]
  PROVE  WorkerInv'
<1>1. sent' = [sent EXCEPT ![w] = sent[w] + 1] /\ UNCHANGED <<quota, model, count, made, heard>>
  BY DEF BeginTurn, pastVars
<1>2. WorkerTypes'
  BY <1>1 DEF WorkerInv, WorkerTypes
<1>3. ASSUME NEW v \in Workers PROVE Counted(v)'
  <2>1. CASE v = w
    <3>1. /\ sent'[w] = sent[w] + 1 /\ wpc'[w] = s
          /\ sent[w] < quota[w] /\ Predicting(w) = 0
      BY <1>1 DEF BeginTurn, WorkerInv, WorkerTypes, Predicting, TypeOK
    <3>2. Predicting(w)' \in {0, 1}
      BY DEF Predicting
    <3> QED
      BY <1>1, <2>1, <3>1, <3>2, WorkerNumbers DEF WorkerInv, Counted
  <2>2. CASE v # w
    BY <1>1, <2>2, WorkerNumbers DEF WorkerInv, WorkerTypes, Counted, Predicting, TypeOK
  <2> QED
    BY <2>1, <2>2
<1> QED
  BY <1>2, <1>3 DEF WorkerInv

LEMMA WorkerHolds ==
  ASSUME TypeInv, NewCrew, WorkerInv, [CountNext]_vars
  PROVE  WorkerInv'
<1> USE DEF TypeInv
<1>1. CASE Uncounted \/ UNCHANGED vars
  <2>1. wpc' = wpc
    BY <1>1 DEF Uncounted, Arrivals, WorkloadArrives, PauseArrives, KillArrives, PollArrives,
       CreateFile, RejectWorkload, AcceptWorkload, SpawnPanics, WorkloadDone, KillStep, SendKill,
       KillDone, PauseKillsDone, PauseNoFile, PauseFindsFile, CloseFile, ClearFile, MonitorTick,
       PollTimeout, PollFindsFile, PollReadsFile, WriteFatal, PollGoto, vars, dispatchVars
  <2> QED
    BY <1>1, <2>1, WorkersRest DEF Uncounted, vars, countVars
<1>2. ASSUME NEW h \in Control, NEW m \in Ids, NEW n \in Quotas, SpawnCounted(h, m, n)
      PROVE  WorkerInv'
  <2>1. Starting(h) /\ left[h] \in 1..MaxWorkers /\ own[h] \in Batches
    BY <1>2, BoundsAssumption DEF SpawnCounted, Spawn, Starting, TypeOK, BatchKnown
  <2>2. PICK new \in Workers : new = <<own[h], left[h]>> /\ wpc[new] = "none"
    <3>1. <<own[h], left[h]>> \in Workers
      BY <2>1 DEF Workers
    <3>2. left[h] \in 1..left[h]
      BY <2>1, BoundsAssumption
    <3>3. wpc[<<own[h], left[h]>>] = "none"
      BY <2>1, <3>2 DEF NewCrew
    <3> QED
      BY <3>1, <3>3
  <2>3. /\ wpc' = [wpc EXCEPT ![new] = "select"]
        /\ quota' = [quota EXCEPT ![new] = n] /\ model' = [model EXCEPT ![new] = m]
        /\ UNCHANGED <<sent, count, made, heard>>
    BY <1>2, <2>2 DEF SpawnCounted, Spawn, pastVars
  <2>4. WorkerTypes'
    BY <2>3, <2>2 DEF WorkerInv, WorkerTypes
  <2>5. Counted(new)'
    <3>1. n \in Nat
      BY QuotasAssumption, Zenon
    <3>2. /\ sent'[new] = 0 /\ quota'[new] = n /\ model'[new] = m
          /\ wpc'[new] = "select" /\ Predicting(new)' = 0
      BY <2>3, <2>2 DEF WorkerInv, WorkerTypes, Counted, Predicting, TypeOK
    <3>3. Predicting(new) = 0
      BY <2>2 DEF Predicting
    <3> QED
      BY <2>3, <2>2, <3>1, <3>2, <3>3, WorkerNumbers DEF WorkerInv, Counted
  <2>6. ASSUME NEW v \in Workers, v # new PROVE Counted(v)'
    <3>1. /\ wpc'[v] = wpc[v] /\ quota'[v] = quota[v] /\ model'[v] = model[v]
          /\ Predicting(v)' = Predicting(v)
      BY <2>3, <2>6 DEF WorkerInv, WorkerTypes, Predicting, TypeOK
    <3> QED
      BY <2>3, <3>1 DEF WorkerInv, Counted
  <2> QED
    BY <2>4, <2>5, <2>6 DEF WorkerInv
<1>3. ASSUME NEW h \in Control, NEW w \in Workers, KillTurn(h, w)
      PROVE  WorkerInv'
  BY <1>3, TurnBegun DEF KillTurn, TakeKill
<1>4. ASSUME NEW w \in Workers, TickTurn(w) \/ PredictTurn(w)
      PROVE  WorkerInv'
  BY <1>4, TurnBegun DEF TickTurn, PredictTurn, WorkerTick, WorkerPredict, WorkerGoto
<1>5. ASSUME NEW w \in Workers, LoopOver(w) \/ PredictionLost(w)
      PROVE  WorkerInv'
  BY <1>5, WorkersRest DEF LoopOver, PredictionLost, WorkerFinish, PredictFails, WorkerGoto,
     countVars, TypeOK
<1>6. ASSUME NEW w \in Workers, PredictionCounted(w)
      PROVE  WorkerInv'
  <2>1. /\ wpc[w] = "predict" /\ wpc' = [wpc EXCEPT ![w] = "select"]
        /\ count' = [count EXCEPT ![w] = count[w] + 1]
        /\ made' = [made EXCEPT ![w] = made[w] + 1]
        /\ UNCHANGED <<quota, model, sent, heard>>
    BY <1>6 DEF PredictionCounted, PredictOk, WorkerGoto
  <2>2. WorkerTypes'
    BY <2>1 DEF WorkerInv, WorkerTypes
  <2>3. Counted(w)'
    BY <2>1 DEF WorkerInv, WorkerTypes, Counted, Predicting, TypeOK
  <2>4. ASSUME NEW v \in Workers, v # w PROVE Counted(v)'
    BY <2>1, <2>4 DEF WorkerInv, WorkerTypes, Counted, Predicting, TypeOK
  <2> QED
    BY <2>2, <2>3, <2>4 DEF WorkerInv
<1>7. ASSUME NEW w \in Workers, StatCounted(w)
      PROVE  WorkerInv'
  <2>1. /\ wpc[w] = "report" /\ wpc' = [wpc EXCEPT ![w] = "select"]
        /\ count' = [count EXCEPT ![w] = 0] /\ heard' = [heard EXCEPT ![w] = made[w]]
        /\ UNCHANGED <<quota, model, sent, made>>
    BY <1>7 DEF StatCounted, TakeStat, WorkerGoto, CountAfterTick
  <2>2. WorkerTypes'
    BY <2>1 DEF WorkerInv, WorkerTypes
  <2>3. Counted(w)'
    BY <2>1 DEF WorkerInv, WorkerTypes, Counted, Predicting, TypeOK
  <2>4. ASSUME NEW v \in Workers, v # w PROVE Counted(v)'
    BY <2>1, <2>4 DEF WorkerInv, WorkerTypes, Counted, Predicting, TypeOK
  <2> QED
    BY <2>2, <2>3, <2>4 DEF WorkerInv
<1>8. ASSUME NEW p \in Pollers, ReportCounted(p) \/ RowsWritten(p) \/ RowsDropped(p)
      PROVE  WorkerInv'
  BY <1>8, WorkersRest DEF ReportCounted, RowsWritten, RowsDropped, TakeReport, PollWrite,
     PollNoFile, PollGoto
<1> QED
  BY <1>1, <1>2, <1>3, <1>4, <1>5, <1>6, <1>7, <1>8 DEF CountNext

(* What the monitor and the polls hold is in order, whoever speaks last.   *)
LEMMA MonitorHolds ==
  ASSUME TypeInv, WorkerInv, MonitorInv, [CountNext]_vars
  PROVE  MonitorInv' /\ idone <= idone'
<1> USE DEF MonitorInv
<1>1. CASE UNCHANGED monitorVars
  BY <1>1 DEF monitorVars
<1>2. ASSUME NEW w \in Workers, StatCounted(w)
      PROVE  MonitorInv' /\ idone <= idone'
  <2>1. /\ count[w] \in Nat /\ sent[w] \in Nat /\ count[w] <= sent[w]
        /\ model[w] \in Ids /\ w[1] \in Batches
    BY <1>2 DEF StatCounted, TakeStat, WorkerGoto, WorkerInv, WorkerTypes, Counted,
       Predicting, Workers
  <2>2. isent' = isent + sent[w] /\ idone' = idone + count[w] /\ bid' = w[1]
    BY <1>2 DEF StatCounted, SentTotal, DoneTotal
  <2>3. /\ DOMAIN perSec' = DOMAIN perSec \cup {model[w]}
        /\ DOMAIN lagDone' = DOMAIN lagDone \cup {model[w]}
    BY <1>2 DEF StatCounted, Assign
  <2> QED
    BY <2>1, <2>2, <2>3, BoundsAssumption DEF Batches
<1> QED
  BY <1>1, <1>2 DEF CountNext, Uncounted, SpawnCounted, KillTurn, TickTurn, PredictTurn,
     BeginTurn, LoopOver, PredictionCounted, PredictionLost, ReportCounted, RowsWritten,
     RowsDropped, vars, countVars

LEMMA RowHolds ==
  ASSUME TypeInv, MonitorInv, RowInv, [CountNext]_vars, MonitorInv', idone <= idone'
  PROVE  /\ RowInv'
         /\ OnePoll /\ RowsInOrder =>
              RowsInOrder' /\ \A b \in Batches : last'[b].done >= last[b].done
<1>1. NoRow \in Rows /\ NoRow.done = 0 /\ NoRow.sent = 0
  BY BoundsAssumption DEF NoRow, Rows
<1>2. /\ \A p \in Pollers : got[p] \in Rows /\ got[p].done \in Nat
      /\ \A b \in Batches : last[b] \in Rows /\ last[b].done \in Nat
      /\ idone \in Nat /\ isent \in Nat /\ idone' \in Nat
  BY DEF RowInv, Rows, MonitorInv
<1>3. CASE UNCHANGED rowVars
  BY <1>2, <1>3 DEF rowVars, RowInv, RowsInOrder
<1>4. ASSUME NEW p \in Pollers, ReportCounted(p)
      PROVE  /\ RowInv'
             /\ OnePoll /\ RowsInOrder =>
                  RowsInOrder' /\ \A b \in Batches : last'[b].done >= last[b].done
  <2> DEFINE row == IF DOMAIN perSec = {} THEN NoRow
                    ELSE [batch |-> bid, sent |-> isent, done |-> idone]
  <2>1. got' = [got EXCEPT ![p] = row] /\ last' = last /\ idone' = idone
    BY <1>4 DEF ReportCounted, monitorVars
  <2>2. /\ row \in Rows /\ row.done <= row.sent /\ row.done <= idone
        /\ row # NoRow => row.done = idone
    BY <1>1, <1>2 DEF MonitorInv, Rows
  <2> HIDE DEF row
  <2>3. /\ got' \in [Pollers -> Rows] /\ got'[p] = row
        /\ \A q \in Pollers \ {p} : got'[q] = got[q]
    BY <2>1, <2>2 DEF RowInv
  <2>4. RowInv'
    BY <2>1, <2>2, <2>3 DEF RowInv
  <2>5. OnePoll => RowsInOrder'
    <3> SUFFICES ASSUME OnePoll, NEW q \in Pollers, NEW b \in Batches, got'[q] # NoRow
                 PROVE  last[b].done <= got'[q].done
      BY <2>1 DEF RowsInOrder
    <3>1. q = p
      BY DEF OnePoll
    <3> QED
      BY <2>2, <2>3, <3>1 DEF RowInv
  <2> QED
    BY <1>2, <2>1, <2>4, <2>5
<1>5. ASSUME NEW p \in Pollers, RowsWritten(p) \/ RowsDropped(p)
      PROVE  /\ RowInv'
             /\ OnePoll /\ RowsInOrder =>
                  RowsInOrder' /\ \A b \in Batches : last'[b].done >= last[b].done
  <2>1. /\ got' = [got EXCEPT ![p] = NoRow] /\ idone' = idone
        /\ \/ last' = last
           \/ /\ rowfile[p] \in Batches /\ got[p] # NoRow
              /\ last' = [last EXCEPT ![rowfile[p]] = got[p]]
    BY <1>5 DEF RowsWritten, RowsDropped, monitorVars, TypeInv, TypeOK
  <2>2. /\ got' \in [Pollers -> Rows] /\ got'[p] = NoRow
        /\ \A q \in Pollers \ {p} : got'[q] = got[q]
    BY <1>1, <2>1 DEF RowInv
  <2>3. /\ last' \in [Batches -> Rows]
        /\ \A b \in Batches : last'[b] = last[b] \/ (last'[b] = got[p] /\ got[p] # NoRow)
    BY <1>2, <2>1 DEF RowInv
  <2>4. RowInv'
    BY <1>1, <1>2, <2>1, <2>2, <2>3 DEF RowInv
  <2>5. OnePoll => RowsInOrder'
    BY <2>2 DEF OnePoll, RowsInOrder
  <2>6. RowsInOrder => \A b \in Batches : last'[b].done >= last[b].done
    BY <1>2, <2>3 DEF RowsInOrder
  <2> QED
    BY <2>4, <2>5, <2>6
<1> QED
  BY <1>3, <1>4, <1>5 DEF CountNext, Uncounted, SpawnCounted, KillTurn, TickTurn, PredictTurn,
     BeginTurn, LoopOver, PredictionCounted, PredictionLost, StatCounted, vars, countVars

LEMMA CountInvHolds == CountSpec => []CountInv
<1>1. CountInit => CountInv
  BY CountInitHolds
<1>2. TypeInv /\ CountInv /\ [CountNext]_vars => CountInv'
  BY CountSteps, NewCrewHolds, WorkerHolds, MonitorHolds, RowHolds DEF CountInv
<1> QED
  BY <1>1, <1>2, CountTypeInv, PTL DEF CountSpec

(* Every counter has its type, and no worker counts more than its quota,   *)
(* however ticks, kills and failed predictions use up its turns            *)
(* (worker.go 61-86).                                                      *)
THEOREM CountsTyped == CountSpec => []CountTypeOK
<1>1. TypeInv /\ CountInv => CountTypeOK
  <2> SUFFICES ASSUME TypeInv, CountInv PROVE CountTypeOK
    OBVIOUS
  <2>1. ASSUME NEW w \in Workers
        PROVE  /\ sent[w] <= quota[w] /\ count[w] <= quota[w]
               /\ made[w] <= quota[w] /\ heard[w] <= quota[w]
    <3>1. /\ quota[w] \in Nat /\ sent[w] \in Nat /\ count[w] \in Nat
          /\ made[w] \in Nat /\ heard[w] \in Nat
      BY WorkerNumbers DEF CountInv, WorkerInv
    <3> QED
      BY <3>1 DEF CountInv, WorkerInv, Counted, Predicting
  <2> QED
    BY <2>1 DEF TypeInv, CountInv, WorkerInv, WorkerTypes, MonitorInv, RowInv, CountTypeOK
<1> QED
  BY <1>1, CountTypeInv, CountInvHolds, PTL

(* However many workers report and polls write, no row claims more         *)
(* completions than requests (stats.go 111-112, handlers.go 247-260).      *)
THEOREM RowsAreBalanced == CountSpec => []RowsBalance
<1>1. CountInv => RowsBalance
  BY DEF CountInv, RowInv, RowsBalance
<1> QED
  BY <1>1, CountInvHolds, PTL

(* When one /stats request is handled at a time, the completed column of a *)
(* report file never falls, for any workloads that follow one another or   *)
(* run at once (handlers.go 224-283).                                      *)
THEOREM CompletedRises == OnePoll => (CountSpec => CompletedNeverFalls)
<1> SUFFICES ASSUME OnePoll PROVE CountSpec => CompletedNeverFalls
  OBVIOUS
<1>1. CountInit => RowsInOrder
  BY CountInitHolds
<1>2. TypeInv /\ CountInv /\ RowsInOrder /\ [CountNext]_vars
        => RowsInOrder' /\ [\A b \in Batches : last'[b].done >= last[b].done]_vars
  BY MonitorHolds, RowHolds DEF CountInv
<1> QED
  BY <1>1, <1>2, CountTypeInv, CountInvHolds, PTL DEF CountSpec, CompletedNeverFalls
-----------------------------------------------------------------------------
(* Sums over all workers, folded by the laws of FoldLaws.                  *)
Plus(a, b) == a + b
Any(S) == CHOOSE x \in S : TRUE
Adding == INSTANCE FoldLaws WITH op <- Plus, choose <- Any

LEMMA TotalIsFold ==
  ASSUME NEW f, NEW S
  PROVE  Total(f, S) = Adding!Fold(0, f, S)
  BY DEF Total, SumFunctionOnSet, FoldFunctionOnSet, MapThenFoldSet,
         Adding!Fold, Adding!MapThenFoldSet, Plus, Any

LEMMA AnyChooses == ASSUME NEW S PROVE Adding!Chooses(S)
  BY DEF Adding!Chooses, Any

LEMMA SameFinite == ASSUME NEW S PROVE Adding!IsFiniteSet(S) <=> IsFiniteSet(S)
  BY DEF IsFiniteSet, Adding!IsFiniteSet

LEMMA WorkersFinite == IsFiniteSet(Workers)
<1>1. IsFiniteSet(1..MaxBatches) /\ IsFiniteSet(1..MaxWorkers)
  BY BoundsAssumption, FS_Interval
<1> QED
  BY <1>1, FS_Product DEF Workers, Batches

LEMMA TotalOfZeros ==
  ASSUME NEW f, \A w \in Workers : f[w] = 0
  PROVE  Total(f, Workers) = 0
<1>1. Adding!IsFiniteSet(Workers) /\ Adding!Chooses(Workers)
  BY WorkersFinite, SameFinite, AnyChooses
<1>2. Adding!Closed({0}) /\ 0 \in {0} /\ \A s \in Workers : f[s] \in {0}
  BY DEF Plus, Adding!Closed
<1>3. Adding!Fold(0, f, Workers) \in {0}
  BY <1>1, <1>2, Adding!FoldType
<1> QED
  BY <1>3, TotalIsFold

(* A total is the count of one worker and the total of the others.         *)
LEMMA TotalOf ==
  ASSUME NEW f \in [Workers -> Nat], NEW w \in Workers
  PROVE  /\ Total(f, Workers \ {w}) \in Nat
         /\ Total(f, Workers) = f[w] + Total(f, Workers \ {w})
<1>1. /\ Adding!IsFiniteSet(Workers) /\ Adding!Chooses(Workers)
      /\ Adding!IsFiniteSet(Workers \ {w}) /\ Adding!Chooses(Workers \ {w})
  BY WorkersFinite, SameFinite, AnyChooses, FS_Subset
<1>2. Adding!Closed(Nat) /\ Adding!Commutes(Nat) /\ 0 \in Nat /\ \A s \in Workers : f[s] \in Nat
  BY DEF Plus, Adding!Closed, Adding!Commutes
<1>3. Adding!Fold(0, f, Workers \ {w}) \in Nat
  BY <1>1, <1>2, Adding!FoldType
<1>4. \A x \in Workers : Adding!Fold(0, f, Workers) = Plus(f[x], Adding!Fold(0, f, Workers \ {x}))
  <2>1. Adding!IsFiniteSet(Workers) /\ Adding!Chooses(Workers)
    BY ONLY <1>1
  <2> QED
    BY ONLY <1>2, <2>1, Adding!FoldPick, SMTT(60)
<1> QED
  BY <1>3, <1>4, TotalIsFold DEF Plus

LEMMA TotalBut ==
  ASSUME NEW f \in [Workers -> Nat], NEW w \in Workers, NEW n \in Nat
  PROVE  /\ Total(f, Workers) \in Nat
         /\ Total([f EXCEPT ![w] = n], Workers) = Total(f, Workers) - f[w] + n
<1> DEFINE g == [f EXCEPT ![w] = n]
<1>1. g \in [Workers -> Nat] /\ g[w] = n /\ \A v \in Workers \ {w} : f[v] = g[v]
  OBVIOUS
<1> HIDE DEF g
<1>2. Adding!IsFiniteSet(Workers \ {w}) /\ Adding!Chooses(Workers \ {w})
  BY WorkersFinite, SameFinite, AnyChooses, FS_Subset
<1>3. Total(f, Workers \ {w}) = Total(g, Workers \ {w})
  BY <1>1, <1>2, TotalIsFold, Adding!FoldSame
<1>4. /\ Total(f, Workers \ {w}) \in Nat
      /\ Total(f, Workers) = f[w] + Total(f, Workers \ {w})
      /\ Total(g, Workers) = g[w] + Total(g, Workers \ {w})
  BY <1>1, TotalOf
<1> QED
  BY <1>1, <1>3, <1>4 DEF g

(* The monitor's total moves only when it takes a worker's statistics.     *)
LEMMA HeardHolds ==
  ASSUME TypeInv, CountInv, idone = Total(heard, Workers), [CountNext]_vars
  PROVE  idone' = Total(heard', Workers)
<1>1. heard \in [Workers -> Nat] /\ idone \in Nat
  BY DEF CountInv, WorkerInv, WorkerTypes, MonitorInv
<1>2. CASE UNCHANGED <<heard, idone>>
  BY <1>2
<1>3. ASSUME NEW w \in Workers, StatCounted(w)
      PROVE  idone' = Total(heard', Workers)
  <2>1. heard' = [heard EXCEPT ![w] = made[w]] /\ idone' = idone + count[w]
    BY <1>3 DEF StatCounted, DoneTotal
  <2>2. /\ made[w] \in Nat /\ heard[w] \in Nat /\ count[w] \in Nat
        /\ made[w] = heard[w] + count[w]
    BY WorkerNumbers DEF CountInv, WorkerInv, Counted
  <2>3. Total([heard EXCEPT ![w] = made[w]], Workers) = Total(heard, Workers) - heard[w] + made[w]
    BY <1>1, <2>2, TotalBut
  <2> QED
    BY <1>1, <2>1, <2>2, <2>3
<1> QED
  BY <1>2, <1>3 DEF CountNext, Uncounted, SpawnCounted, KillTurn, TickTurn, PredictTurn,
     BeginTurn, LoopOver, PredictionCounted, PredictionLost, ReportCounted, RowsWritten,
     RowsDropped, vars, countVars, pastVars, monitorVars

(* For any number of workers, workloads, kills and failed predictions the  *)
(* monitor's total is what each worker had completed when its statistics   *)
(* were last taken, and a worker at work has the rest in its own count     *)
(* (worker.go 65-80, stats.go 99-117): so a ticker that fires in the       *)
(* middle of a run neither drops nor repeats a prediction.  That dead      *)
(* workers take the rest with them is no part of it: nothing tells it.     *)
THEOREM DoneHeard == CountSpec => []DoneIsHeard
<1>1. CountInit => idone = Total(heard, Workers)
  <2> SUFFICES ASSUME CountInit PROVE idone = Total(heard, Workers)
    OBVIOUS
  <2>1. heard \in [Workers -> Nat] /\ \A w \in Workers : heard[w] = 0
    BY DEF CountInit
  <2> QED
    BY <2>1, TotalOfZeros DEF CountInit
<1>2. TypeInv /\ CountInv /\ idone = Total(heard, Workers) /\ [CountNext]_vars
        => (idone = Total(heard, Workers))'
  BY HeardHolds
<1>3. CountInv /\ idone = Total(heard, Workers) => DoneIsHeard
  BY DEF CountInv, WorkerInv, Counted, DoneIsHeard, Live
<1> QED
  BY <1>1, <1>2, <1>3, CountTypeInv, CountInvHolds, PTL DEF CountSpec
=============================================================================
