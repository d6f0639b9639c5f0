------------------------------ MODULE Dispatch ------------------------------
(***************************************************************************)
(* The control plane of the Go load generator: the HTTP handlers of        *)
(* app/handlers.go, the worker goroutines of app/worker.go and the         *)
(* StatsMonitor goroutine of app/stats.go, with the three unbuffered       *)
(* channels (Killc, Statc, Reportc) that main.go makes to join them.       *)
(*                                                                         *)
(* A send and the receive that takes it are one step of both goroutines;   *)
(* a goroutine that waits in a send or a select is one whose program       *)
(* counter says so.  A handler is split wherever another goroutine can get *)
(* in between two of its accesses to App, because App has no lock.         *)
(*                                                                         *)
(* Left out here, and added by module Accounting on top of these actions:  *)
(* what the goroutines count, the reports and the rows of the report file. *)
(* Whether a worker's loop is used up is a choice here, MayFinish.         *)
(***************************************************************************)
EXTENDS Integers, FiniteSets

CONSTANTS
  Control,      (* slots for requests to /workload, /pause and /kill in flight *)
  Pollers,      (* slots for requests to /stats in flight                      *)
  MaxBatches,   (* bound: workloads posted in one life of the server           *)
  MaxWorkers,   (* bound: the worker count a workload asks for                 *)
  Workloads,    (* the sets of window ids that a posted workload may hold      *)
  MayFinish,    (* can a worker use up its nrequests?                          *)
  MayFail,      (* can a prediction return an error?                           *)
  MayOverflow,  (* can the rows of a report fill the 4096 bytes that the csv   *)
                (* writer holds back, before they are flushed?                 *)
  NoFile        (* the nil *os.File                                            *)

ASSUME BoundsAssumption == MaxBatches \in Nat /\ MaxWorkers \in Nat
ASSUME NoFileAssumption == NoFile \notin Nat
ASSUME WorkloadsAssumption ==
  \A wl \in Workloads : IsFiniteSet(wl) /\ wl \subseteq Nat

Batches == 1..MaxBatches

(* A worker goroutine is named by its batch and by how many spawns its     *)
(* handler still owed when it made it.                                     *)
Workers == Batches \X (1..MaxWorkers)

VARIABLES
  currentWorkers, (* app.config.currentWorkers                                *)
  reportfile,     (* app.reportfile, named by the batch it was made for       *)
  openFiles,      (* batches whose report file is created and not closed      *)
  batches,        (* how many workloads have been posted                      *)
  hpc,            (* program counter of each control request                  *)
  kind,           (* which handler serves the request                         *)
  left,           (* the handler's spawns or kills still to do                *)
  own,            (* the batch the handler creates or, for a kill, found last *)
  windows,        (* the window ids of the workload it was posted             *)
  wpc,            (* program counter of each worker goroutine                 *)
  mpc,            (* program counter of the StatsMonitor goroutine            *)
  ppc,            (* program counter of each /stats request                   *)
  rowfile         (* the file that each /stats request is about to write to   *)

appVars == <<currentWorkers, reportfile, openFiles>>
reqVars == <<batches, hpc, kind, left, own, windows>>
pollVars == <<ppc, rowfile>>
dispatchVars == <<appVars, reqVars, wpc, mpc, pollVars>>

Live == {w \in Workers : wpc[w] \in {"select", "report", "predict"}}
Up == mpc # "exited"
KillWaiting == \E h \in Control : hpc[h] = "parked"

TypeOK ==
  /\ currentWorkers \in 0..MaxWorkers
  /\ reportfile \in Batches \cup {NoFile}
  /\ openFiles \subseteq Batches
  /\ batches \in 0..MaxBatches
  /\ hpc \in [Control -> {"idle", "create", "accept", "spawn",
                          "kill", "parked", "check", "close", "clear"}]
  /\ kind \in [Control -> {"none", "workload", "pause", "kill"}]
  /\ left \in [Control -> 0..MaxWorkers]
  /\ own \in [Control -> 0..MaxBatches]
  /\ windows \in [Control -> Workloads \cup {{}}]
  /\ wpc \in [Workers -> {"none", "select", "report", "predict",
                          "killed", "finished", "failed"}]
  /\ mpc \in {"select", "report", "exited"}
  /\ ppc \in [Pollers -> {"idle", "waiting", "check", "read", "write"}]
  /\ rowfile \in [Pollers -> Batches \cup {NoFile}]
-----------------------------------------------------------------------------
(* main.go: the channels are empty, no worker runs, the monitor is up.     *)
Init ==
  /\ currentWorkers = 0
  /\ reportfile = NoFile
  /\ openFiles = {}
  /\ batches = 0
  /\ hpc = [h \in Control |-> "idle"]
  /\ kind = [h \in Control |-> "none"]
  /\ left = [h \in Control |-> 0]
  /\ own = [h \in Control |-> 0]
  /\ windows = [h \in Control |-> {}]
  /\ wpc = [w \in Workers |-> "none"]
  /\ mpc = "select"
  /\ ppc = [p \in Pollers |-> "idle"]
  /\ rowfile = [p \in Pollers |-> NoFile]

(* A server that has exited takes no step.                                 *)
Goto(h, at) == Up /\ hpc' = [hpc EXCEPT ![h] = at]

(* The answer is written and the handler's goroutine ends.                 *)
Reply(h) ==
  /\ Goto(h, "idle")
  /\ kind' = [kind EXCEPT ![h] = "none"]
  /\ left' = [left EXCEPT ![h] = 0]
  /\ own' = [own EXCEPT ![h] = 0]
  /\ windows' = [windows EXCEPT ![h] = {}]
  /\ UNCHANGED batches

Arrive(h, k, n, b, wl) ==
  /\ hpc[h] = "idle"
  /\ kind' = [kind EXCEPT ![h] = k]
  /\ left' = [left EXCEPT ![h] = n]
  /\ own' = [own EXCEPT ![h] = b]
  /\ windows' = [windows EXCEPT ![h] = wl]
-----------------------------------------------------------------------------
(* handleWorkload.  A workload that does not parse is answered before      *)
(* anything changes and is no step.  An unreadable worker count is refused *)
(* at the same place as the empty workload, which stands for both.         *)
WorkloadArrives(h, n, wl) ==
  /\ batches < MaxBatches
  /\ Arrive(h, "workload", n, batches + 1, wl)
  /\ batches' = batches + 1
  /\ Goto(h, "create")
  /\ UNCHANGED <<appVars, wpc, mpc, pollVars>>

(* The file app.reportfile named before is not closed.  A failed os.Create *)
(* is logged, leaves nil in app.reportfile and the handler goes on.        *)
CreateFile(h) ==
  /\ hpc[h] = "create"
  /\ \/ reportfile' = own[h] /\ openFiles' = openFiles \cup {own[h]}
     \/ reportfile' = NoFile /\ UNCHANGED openFiles
  /\ Goto(h, "accept")
  /\ UNCHANGED <<currentWorkers, batches, kind, left, own, windows, wpc, mpc, pollVars>>

RejectWorkload(h) ==
  /\ hpc[h] = "accept"
  /\ windows[h] = {}
  /\ Reply(h)
  /\ UNCHANGED <<appVars, wpc, mpc, pollVars>>

AcceptWorkloadShort(h) ==
  /\ hpc[h] = "accept"
  /\ windows[h] # {}
  /\ currentWorkers' = IF left[h] > 0 THEN left[h] - 1 ELSE 0
  /\ Goto(h, "spawn")
  /\ UNCHANGED <<reportfile, openFiles, batches, kind, left, own, windows, wpc, mpc, pollVars>>
AcceptWorkload(h) ==
  /\ hpc[h] = "accept"
  /\ windows[h] # {}
  /\ currentWorkers' = left[h]
  /\ Goto(h, "spawn")
  /\ UNCHANGED <<reportfile, openFiles, batches, kind, left, own, windows, wpc, mpc, pollVars>>

(* rand.Intn(n), where n is the number of windows, not the largest id.     *)
Drawn(h) == 0..(Cardinality(windows[h]) - 1)

SpawnOneMore(h, m) ==
  /\ Up /\ hpc[h] = "spawn"
  /\ left[h] >= 0
  /\ m \in Drawn(h) \cap windows[h]
  /\ wpc' = [wpc EXCEPT ![<<own[h], left[h]>>] = "select"]
  /\ left' = [left EXCEPT ![h] = @ - 1]
  /\ UNCHANGED <<appVars, batches, hpc, kind, own, windows, mpc, pollVars>>
Spawn(h, m) ==
  /\ Up /\ hpc[h] = "spawn"
  /\ left[h] > 0
  /\ m \in Drawn(h) \cap windows[h]
  /\ wpc' = [wpc EXCEPT ![<<own[h], left[h]>>] = "select"]
  /\ left' = [left EXCEPT ![h] = @ - 1]
  /\ UNCHANGED <<appVars, batches, hpc, kind, own, windows, mpc, pollVars>>

(* wrk[modelId] is nil: net/http recovers the panic and drops the request. *)
SpawnDrawsAgain(h) ==
  /\ hpc[h] = "spawn"
  /\ left[h] > 0
  /\ \E m \in Drawn(h) : m \notin windows[h]
  /\ UNCHANGED dispatchVars
SpawnPanics(h) ==
  /\ hpc[h] = "spawn"
  /\ left[h] > 0
  /\ \E m \in Drawn(h) : m \notin windows[h]
  /\ Reply(h)
  /\ UNCHANGED <<appVars, wpc, mpc, pollVars>>

WorkloadDone(h) ==
  /\ hpc[h] = "spawn"
  /\ left[h] = 0
  /\ Reply(h)
  /\ UNCHANGED <<appVars, wpc, mpc, pollVars>>
-----------------------------------------------------------------------------
(* handlePause and handleKill.  The count is read once, before the loop.   *)
KillsOwedShort == IF currentWorkers > 0 THEN currentWorkers - 1 ELSE 0
KillsOwedExtra == IF currentWorkers < MaxWorkers THEN currentWorkers + 1 ELSE currentWorkers
KillsOwed == currentWorkers

PauseArrives(h) ==
  /\ Arrive(h, "pause", KillsOwed, batches, {})
  /\ Goto(h, "kill")
  /\ UNCHANGED <<appVars, batches, wpc, mpc, pollVars>>

KillArrives(h) ==
  /\ Arrive(h, "kill", KillsOwed, batches, {})
  /\ Goto(h, "kill")
  /\ UNCHANGED <<appVars, batches, wpc, mpc, pollVars>>

(* No worker waits for a kill without a default case, so a send on Killc   *)
(* always waits first.                                                     *)
SendKill(h) ==
  /\ hpc[h] = "kill"
  /\ left[h] > 0
  /\ Goto(h, "parked")
  /\ UNCHANGED <<appVars, batches, kind, left, own, windows, wpc, mpc, pollVars>>

TakeKill(h, w) ==
  /\ hpc[h] = "parked"
  /\ wpc[w] = "select"
  /\ Goto(h, "kill")
  /\ left' = [left EXCEPT ![h] = @ - 1]
  /\ wpc' = [wpc EXCEPT ![w] = "killed"]
  /\ UNCHANGED <<appVars, batches, kind, own, windows, mpc, pollVars>>

KillDone(h) ==
  /\ hpc[h] = "kill"
  /\ left[h] = 0
  /\ kind[h] = "kill"
  /\ Reply(h)
  /\ UNCHANGED <<appVars, wpc, mpc, pollVars>>

PauseKillsDone(h) ==
  /\ hpc[h] = "kill"
  /\ left[h] = 0
  /\ kind[h] = "pause"
  /\ Goto(h, "check")
  /\ UNCHANGED <<appVars, batches, kind, left, own, windows, wpc, mpc, pollVars>>

(* app.reportfile is read for the nil check, again for Close, then set.    *)
PauseNoFile(h) ==
  /\ hpc[h] = "check"
  /\ reportfile = NoFile
  /\ Reply(h)
  /\ UNCHANGED <<appVars, wpc, mpc, pollVars>>

PauseFindsFile(h) ==
  /\ hpc[h] = "check"
  /\ reportfile # NoFile
  /\ Goto(h, "close")
  /\ UNCHANGED <<appVars, batches, kind, left, own, windows, wpc, mpc, pollVars>>

CloseFileSkipped(h) ==
  /\ hpc[h] = "close"
  /\ Goto(h, "clear")
  /\ UNCHANGED <<appVars, batches, kind, left, own, windows, wpc, mpc, pollVars>>
CloseFile(h) ==
  /\ hpc[h] = "close"
  /\ openFiles' = openFiles \ {reportfile}
  /\ Goto(h, "clear")
  /\ UNCHANGED <<currentWorkers, reportfile, batches, kind, left, own, windows, wpc, mpc, pollVars>>

ClearFileForgotten(h) ==
  /\ hpc[h] = "clear"
  /\ Reply(h)
  /\ UNCHANGED <<appVars, wpc, mpc, pollVars>>
ClearFile(h) ==
  /\ hpc[h] = "clear"
  /\ reportfile' = NoFile
  /\ Reply(h)
  /\ UNCHANGED <<currentWorkers, openFiles, wpc, mpc, pollVars>>
-----------------------------------------------------------------------------
(* The worker goroutine: one turn of its loop is a select over the ticker, *)
(* the kill channel and, when neither is ready, a prediction.              *)
WorkerGoto(w, from, to) ==
  /\ Up /\ wpc[w] = from
  /\ wpc' = [wpc EXCEPT ![w] = to]
  /\ UNCHANGED <<appVars, reqVars, pollVars>>

WorkerTick(w)    == WorkerGoto(w, "select", "report") /\ UNCHANGED mpc
WorkerPredict(w) == ~KillWaiting /\ WorkerGoto(w, "select", "predict") /\ UNCHANGED mpc
PredictOk(w)     == WorkerGoto(w, "predict", "select") /\ UNCHANGED mpc
PredictFails(w)  == MayFail /\ WorkerGoto(w, "predict", "failed") /\ UNCHANGED mpc
WorkerFinish(w)  == MayFinish /\ WorkerGoto(w, "select", "finished") /\ UNCHANGED mpc

(* stats <- s met by case s := <-stats.                                    *)
TakeStat(w) ==
  /\ mpc = "select"
  /\ WorkerGoto(w, "report", "select")
  /\ UNCHANGED mpc
-----------------------------------------------------------------------------
(* The StatsMonitor goroutine: a tick makes a report, and the monitor then *)
(* waits, deaf to its workers, until a /stats request takes it.            *)
MonitorTick ==
  /\ mpc = "select"
  /\ mpc' = "report"
  /\ UNCHANGED <<appVars, reqVars, wpc, pollVars>>

TakeReportStuck(p) ==
  /\ mpc = "report"
  /\ ppc[p] = "waiting"
  /\ ppc' = [ppc EXCEPT ![p] = "check"]
  /\ UNCHANGED <<appVars, reqVars, wpc, mpc, rowfile>>
TakeReport(p) ==
  /\ mpc = "report"
  /\ ppc[p] = "waiting"
  /\ mpc' = "select"
  /\ ppc' = [ppc EXCEPT ![p] = "check"]
  /\ UNCHANGED <<appVars, reqVars, wpc, rowfile>>
-----------------------------------------------------------------------------
(* handleStats.                                                            *)
PollGoto(p, from, to) ==
  /\ Up /\ ppc[p] = from
  /\ ppc' = [ppc EXCEPT ![p] = to]
  /\ UNCHANGED <<appVars, reqVars, wpc, mpc>>

PollArrives(p) == PollGoto(p, "idle", "waiting") /\ UNCHANGED rowfile

(* time.After(time.Second): a report that is ready is taken at once.       *)
PollTimeout(p) == mpc = "select" /\ PollGoto(p, "waiting", "idle") /\ UNCHANGED rowfile

(* app.reportfile is read for the nil check and again for the call of      *)
(* WriteCsv, which writes to that file whatever becomes of it meanwhile.   *)
PollNoFileRetries(p) ==
  reportfile = NoFile /\ PollGoto(p, "check", "waiting") /\ UNCHANGED rowfile
PollNoFile(p) ==
  reportfile = NoFile /\ PollGoto(p, "check", "idle") /\ UNCHANGED rowfile
PollFindsFile(p) ==
  reportfile # NoFile /\ PollGoto(p, "check", "read") /\ UNCHANGED rowfile
PollReadsFile(p) ==
  PollGoto(p, "read", "write") /\ rowfile' = [rowfile EXCEPT ![p] = reportfile]

(* The rows are in the file, or the error of Flush is logged.              *)
PollWrite(p) ==
  PollGoto(p, "write", "idle") /\ rowfile' = [rowfile EXCEPT ![p] = NoFile]

(* Rows that do not fit are written before Flush, and an error of theirs   *)
(* is log.Fatalln.                                                         *)
WriteFatal(p) ==
  /\ MayOverflow
  /\ Up /\ ppc[p] = "write"
  /\ rowfile[p] \notin openFiles
  /\ mpc' = "exited"
  /\ UNCHANGED <<appVars, reqVars, wpc, pollVars>>
-----------------------------------------------------------------------------
WorkloadStep(h) ==
  \/ CreateFile(h) \/ RejectWorkload(h) \/ AcceptWorkload(h)
  \/ \E m \in windows[h] : Spawn(h, m)
  \/ SpawnPanics(h) \/ WorkloadDone(h)

KillStep(h) ==
  \/ SendKill(h) \/ KillDone(h) \/ PauseKillsDone(h)
  \/ PauseNoFile(h) \/ PauseFindsFile(h) \/ CloseFile(h) \/ ClearFile(h)

WorkerStep(w) ==
  WorkerTick(w) \/ WorkerPredict(w) \/ PredictOk(w) \/ PredictFails(w) \/ WorkerFinish(w)

PollStep(p) ==
  \/ PollTimeout(p) \/ PollNoFile(p) \/ PollFindsFile(p)
  \/ PollReadsFile(p) \/ PollWrite(p) \/ WriteFatal(p)

Arrivals ==
  \/ \E h \in Control, n \in 0..MaxWorkers, wl \in Workloads : WorkloadArrives(h, n, wl)
  \/ \E h \in Control : PauseArrives(h) \/ KillArrives(h)
  \/ \E p \in Pollers : PollArrives(p)

Next ==
  \/ Arrivals
  \/ \E h \in Control : WorkloadStep(h) \/ KillStep(h)
  \/ \E h \in Control, w \in Workers : TakeKill(h, w)
  \/ \E w \in Workers : WorkerStep(w) \/ TakeStat(w)
  \/ MonitorTick
  \/ \E p \in Pollers : TakeReport(p) \/ PollStep(p)

Spec == Init /\ [][Next]_dispatchVars
-----------------------------------------------------------------------------
(* The Go runtime runs every runnable goroutine (weak fairness); waiting   *)
(* senders and receivers of a channel are served first come, first served, *)
(* and a select picks at random among its ready cases (strong fairness of  *)
(* the hand-overs).  A prediction returns: the remote server answers.      *)
RuntimeFairness ==
  /\ \A h \in Control : WF_dispatchVars(WorkloadStep(h) \/ KillStep(h))
  /\ \A h \in Control : SF_dispatchVars(\E w \in Workers : TakeKill(h, w))
  /\ \A w \in Workers : WF_dispatchVars(WorkerStep(w)) /\ SF_dispatchVars(TakeStat(w))
  /\ WF_dispatchVars(MonitorTick)
  /\ \A p \in Pollers : SF_dispatchVars(TakeReport(p))
  /\ \A p \in Pollers :
       WF_dispatchVars(PollNoFile(p) \/ PollFindsFile(p) \/ PollReadsFile(p) \/ PollWrite(p))
-----------------------------------------------------------------------------
(* app.reportfile names a closed file only while some handlePause is       *)
(* between its Close and its nil assignment (handlers.go 213-217),         *)
(* whatever else is in flight.  (A poll that has read the name before may  *)
(* still write to a file that was closed since, or to none.)               *)
ReportFileUsable ==
  (reportfile # NoFile /\ reportfile \notin openFiles)
     => \E h \in Control : hpc[h] = "clear"

(* Behind a page in play, which polls /stats, a worker that sends its      *)
(* statistics is taken and gets back to the select that listens for kills  *)
(* (worker.go 62-76), however often the monitor stops to make a report.    *)
StatsAreTaken == \A w \in Workers : wpc[w] = "report" ~> wpc[w] # "report"

(* Every /stats request is answered, be a worker at work or none, a file   *)
(* open or none (handlers.go 229-274, stats.go 70-119).                    *)
PollsAreAnswered == \A p \in Pollers : ppc[p] = "waiting" ~> ppc[p] = "idle"
=============================================================================
