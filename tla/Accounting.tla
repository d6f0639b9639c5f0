----------------------------- MODULE Accounting -----------------------------
(***************************************************************************)
(* What the load generator counts: the counters of each worker goroutine   *)
(* (app/worker.go), the totals and the per-window maps of StatsMonitor     *)
(* (app/stats.go) and the rows that handleStats appends to the report file *)
(* (app/handlers.go), superposed on the steps of module Dispatch.          *)
(*                                                                         *)
(* Here a worker's loop is counted: it turns quota times, and every turn,  *)
(* be it a prediction or a tick, counts as a request sent.                 *)
(***************************************************************************)
EXTENDS Dispatch, FiniteSetsExt

CONSTANT Quotas   (* the request counts a window's dial may ask for *)

ASSUME QuotasAssumption ==
  /\ IsFiniteSet(Quotas) /\ Quotas # {} /\ Quotas \subseteq Nat
  /\ MayFinish

Ids == UNION Workloads

VARIABLES
  quota,    (* nrequests of each worker                                      *)
  model,    (* modelId of each worker                                        *)
  sent,     (* predSent of each worker: the turns its loop has begun         *)
  count,    (* predCount of each worker: predictions since its last tick     *)
  isent,    (* the monitor's total of sent                                   *)
  idone,    (* the monitor's total of count                                  *)
  bid,      (* the batch of the last statistics the monitor took             *)
  perSec,   (* requestPerSec, on the windows that have an entry              *)
  lagDone,  (* requestLagDone, on the windows that have an entry             *)
  got,      (* the row that each /stats request holds                        *)
  last,     (* the last row of each report file                              *)
  made,     (* history: predictions that each worker completed               *)
  heard     (* history: those of them that its statistics have told          *)

loopVars == <<quota, model, sent, count>>
monitorVars == <<isent, idone, bid, perSec, lagDone>>
rowVars == <<got, last>>
pastVars == <<made, heard>>
countVars == <<loopVars, monitorVars, rowVars, pastVars>>
vars == <<dispatchVars, countVars>>

NoRow == [batch |-> 0, sent |-> 0, done |-> 0]
Rows == [batch : 0..MaxBatches, sent : Nat, done : Nat]

(* The sum of f over the workers in S.                                     *)
Total(f, S) == SumFunctionOnSet(f, S)

CountTypeOK ==
  /\ TypeOK
  /\ quota \in [Workers -> Quotas \cup {0}]
  /\ model \in [Workers -> Ids \cup {0}]
  /\ \A f \in {sent, count, made, heard} :
       f \in [Workers -> Nat] /\ \A w \in Workers : f[w] <= quota[w]
  /\ isent \in Nat /\ idone \in Nat
  /\ bid \in 0..MaxBatches
  /\ DOMAIN perSec \subseteq Ids /\ DOMAIN lagDone = DOMAIN perSec
  /\ got \in [Pollers -> Rows]
  /\ last \in [Batches -> Rows]
-----------------------------------------------------------------------------
CountInit ==
  /\ Init
  /\ quota = [w \in Workers |-> 0]
  /\ model = [w \in Workers |-> 0]
  /\ sent = [w \in Workers |-> 0]
  /\ count = [w \in Workers |-> 0]
  /\ isent = 0
  /\ idone = 0
  /\ bid = 0
  /\ perSec = <<>>
  /\ lagDone = <<>>
  /\ got = [p \in Pollers |-> NoRow]
  /\ last = [b \in Batches |-> NoRow]
  /\ made = [w \in Workers |-> 0]
  /\ heard = [w \in Workers |-> 0]

(* Each worker carries the request count of the window it was given, which *)
(* is one number in a workload.                                            *)
SpawnCounted(h, m, n) ==
  /\ Spawn(h, m)
  /\ \A w \in Workers :
       (w[1] = own[h] /\ wpc[w] # "none" /\ model[w] = m) => quota[w] = n
  /\ quota' = [quota EXCEPT ![<<own[h], left[h]>>] = n]
  /\ model' = [model EXCEPT ![<<own[h], left[h]>>] = m]
  /\ UNCHANGED <<sent, count, monitorVars, rowVars, pastVars>>

(* for i := 0; i < n; i++ { predSent += 1                                  *)
BeginTurnOnceMore(w) ==
  /\ sent[w] <= quota[w]
  /\ sent' = [sent EXCEPT ![w] = @ + 1]
  /\ UNCHANGED <<quota, model, count, monitorVars, rowVars, pastVars>>
BeginTurn(w) ==
  /\ sent[w] < quota[w]
  /\ sent' = [sent EXCEPT ![w] = @ + 1]
  /\ UNCHANGED <<quota, model, count, monitorVars, rowVars, pastVars>>

TickTurn(w)    == WorkerTick(w) /\ BeginTurn(w)
PredictTurn(w) == WorkerPredict(w) /\ BeginTurn(w)
KillTurn(h, w) == TakeKill(h, w) /\ BeginTurn(w)

LoopOver(w) == sent[w] = quota[w] /\ WorkerFinish(w) /\ UNCHANGED countVars

PredictionCounted(w) ==
  /\ PredictOk(w)
  /\ count' = [count EXCEPT ![w] = @ + 1]
  /\ made' = [made EXCEPT ![w] = @ + 1]
  /\ UNCHANGED <<quota, model, sent, monitorVars, rowVars, heard>>

PredictionLost(w) == PredictFails(w) /\ UNCHANGED countVars

(* reqPerS: requests since the last tick over dt, which is half a second.  *)
PerSecond(c) == 2 * c

(* m[i] = v on a Go map.                                                   *)
Assign(map, i, v) == [j \in DOMAIN map \cup {i} |-> IF j = i THEN v ELSE map[j]]

(* predCount = 0, once the monitor has the statistics.                     *)
CountAfterTickKept(w) == count[w]
CountAfterTick(w) == 0

(* The monitor's totals.                                                   *)
DoneTotalOverwritten(w) == count[w]
DoneTotal(w) == idone + count[w]
SentTotalForgotten(w) == isent
SentTotal(w) == isent + sent[w]

StatCounted(w) ==
  /\ TakeStat(w)
  /\ bid' = w[1]
  /\ isent' = SentTotal(w)
  /\ idone' = DoneTotal(w)
  /\ perSec' = Assign(perSec, model[w], PerSecond(count[w]))
  /\ lagDone' = Assign(lagDone, model[w], idone')
  /\ count' = [count EXCEPT ![w] = CountAfterTick(w)]
  /\ heard' = [heard EXCEPT ![w] = made[w]]
  /\ UNCHANGED <<quota, model, sent, rowVars, made>>

(* The monitor has not moved since it made the report that is taken here.  *)
(* The rows of one report differ in req/s alone; a report without a window *)
(* has no rows.                                                            *)
ReportCounted(p) ==
  /\ TakeReport(p)
  /\ got' = [got EXCEPT ![p] =
       IF DOMAIN perSec = {} THEN NoRow
       ELSE [batch |-> bid, sent |-> isent, done |-> idone]]
  /\ UNCHANGED <<loopVars, monitorVars, last, pastVars>>

(* A row written to a file that was closed, or to none, is lost.           *)
RowsWritten(p) ==
  /\ PollWrite(p)
  /\ last' = IF rowfile[p] \in openFiles /\ got[p] # NoRow
             THEN [last EXCEPT ![rowfile[p]] = got[p]] ELSE last
  /\ got' = [got EXCEPT ![p] = NoRow]
  /\ UNCHANGED <<loopVars, monitorVars, pastVars>>

RowsDropped(p) ==
  /\ PollNoFile(p)
  /\ got' = [got EXCEPT ![p] = NoRow]
  /\ UNCHANGED <<loopVars, monitorVars, last, pastVars>>

Uncounted ==
  /\ \/ Arrivals
     \/ \E h \in Control :
          \/ CreateFile(h) \/ RejectWorkload(h) \/ AcceptWorkload(h)
          \/ SpawnPanics(h) \/ WorkloadDone(h) \/ KillStep(h)
     \/ MonitorTick
     \/ \E p \in Pollers :
          PollTimeout(p) \/ PollFindsFile(p) \/ PollReadsFile(p) \/ WriteFatal(p)
  /\ UNCHANGED countVars

CountNext ==
  \/ Uncounted
  \/ \E h \in Control, m \in Ids, n \in Quotas : SpawnCounted(h, m, n)
  \/ \E h \in Control, w \in Workers : KillTurn(h, w)
  \/ \E w \in Workers :
       \/ TickTurn(w) \/ PredictTurn(w) \/ LoopOver(w)
       \/ PredictionCounted(w) \/ PredictionLost(w) \/ StatCounted(w)
  \/ \E p \in Pollers : ReportCounted(p) \/ RowsWritten(p) \/ RowsDropped(p)

CountSpec == CountInit /\ [][CountNext]_vars
-----------------------------------------------------------------------------
(* The monitor's total is what each worker had completed when it last took *)
(* that worker's statistics, no prediction twice; a worker still at work   *)
(* holds what it completed since (worker.go 65-80, stats.go 99-117).       *)
(* What a worker completed since and was then killed, failed or was        *)
(* through is in neither: there are no last statistics, and it is lost.    *)
DoneIsHeard ==
  /\ idone = Total(heard, Workers)
  /\ \A w \in Live : made[w] = heard[w] + count[w]

(* No row claims more completions than requests sent, although the two     *)
(* columns come from different counters (stats.go 111-112,                 *)
(* handlers.go 247-260).                                                   *)
RowsBalance == \A b \in Batches : last[b].done <= last[b].sent

(* With one request for /stats at a time, the completed column of a report *)
(* file never falls from one row to the next (handlers.go 224-283): totals *)
(* survive a pause and a new workload.                                     *)
CompletedNeverFalls ==
  [][\A b \in Batches : last'[b].done >= last[b].done]_vars
=============================================================================
