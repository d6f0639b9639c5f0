----------------------------- MODULE WorkerPool -----------------------------
(***************************************************************************)
(* The worker pool of the Python server (stress/worker.py) under the       *)
(* requests of stress/server.py: one process per worker and one that turns *)
(* counts into rates, each joined to the server by a pipe and paused by    *)
(* SIGINT.                                                                 *)
(*                                                                         *)
(* Flask's server takes one request at a time, so the server is one        *)
(* sequential process; stage says where it is in its handler.  A process   *)
(* handles a signal before any of its steps, or later.  The loops over     *)
(* living_workers ask each process whether it lives when they get to it.   *)
(***************************************************************************)
EXTENDS Integers, Sequences

CONSTANTS
  NWorkers,   (* Settings.workers                                            *)
  MaxSends    (* bound: workloads sent in one life of the server             *)

ASSUME SizeAssumption == NWorkers \in Nat \ {0} /\ MaxSends \in Nat

Procs == 0..NWorkers      (* WorkerPool.workers                              *)
StatProc == NWorkers      (* the last of them is stat_proc                   *)

VARIABLES
  made,     (* is g_workers a pool?                                          *)
  paused,   (* WorkerPool.paused                                             *)
  sends,    (* how many workloads were sent                                  *)
  stage,    (* where the server is in its handler                            *)
  at,       (* the process that a loop of the server has got to              *)
  after,    (* what the handler does after its check or its pause            *)
  success,  (* what WorkerPool.pause will return                             *)
  pc,       (* where each process is                                         *)
  sigint,   (* has the process a SIGINT that it has not handled?             *)
  inbox,    (* the workloads on the pipe to each process                     *)
  outbox,   (* how many True each process sent that were not received        *)
  job,      (* the workload that each process works on, 0 for none           *)
  rates,    (* is an entry of qps_array not zero?                            *)
  late      (* history: processes that were interrupted before they had
               read what was sent to them                                    *)

serverVars == <<made, paused, sends, stage, at, after, success>>
pipeVars == <<inbox, outbox>>
procVars == <<pc, sigint, job, rates>>
vars == <<serverVars, pipeVars, procVars, late>>

IsAlive(i) == pc[i] # "dead"
AllAlive == \A i \in Procs : IsAlive(i)

PoolTypeOK ==
  /\ made \in BOOLEAN /\ paused \in BOOLEAN /\ success \in BOOLEAN
  /\ sends \in 0..MaxSends
  /\ stage \in {"rest", "renew", "launch", "await", "check", "validate", "signal",
                "sync", "wait", "terminate", "send"}
  /\ at \in 0..(NWorkers + 1)
  /\ after \in {"launch", "send", "pause", "fail", "answer"}
  /\ pc \in [Procs -> {"dead", "start", "ready", "sent", "recv", "run", "caught"}]
  /\ sigint \in [Procs -> BOOLEAN]
  /\ inbox \in [Procs -> Seq(1..MaxSends)]
  /\ outbox \in [Procs -> 0..1]
  /\ job \in [Procs -> 0..MaxSends]
  /\ rates \in BOOLEAN
  /\ late \subseteq Procs
-----------------------------------------------------------------------------
PoolInit ==
  /\ made = FALSE /\ paused = FALSE /\ success = TRUE
  /\ sends = 0
  /\ stage = "rest" /\ at = 0 /\ after = "answer"
  /\ pc = [i \in Procs |-> "dead"]
  /\ sigint = [i \in Procs |-> FALSE]
  /\ inbox = [i \in Procs |-> <<>>]
  /\ outbox = [i \in Procs |-> 0]
  /\ job = [i \in Procs |-> 0]
  /\ rates = FALSE
  /\ late = {}

(* The server goes on at stage s, with its loop, if any, at process i.     *)
Goto(s, i) == stage' = s /\ at' = i

(* It goes on with process at + 1 of its loop, and at s after the last.    *)
Continue(loop, s) ==
  IF at < NWorkers THEN Goto(loop, at + 1) ELSE Goto(s, 0)

(* WorkerPool.pause starts; next says what its caller does with the pool.  *)
(* "launch" and "fail" are WorkerPool.clear: pause, then terminate.        *)
Pause(next) ==
  /\ Goto("signal", 0)
  /\ after' = next
  /\ paused' = TRUE
  /\ success' = TRUE
  /\ UNCHANGED <<made, sends, pipeVars, procVars, late>>

Clearing == after \in {"launch", "fail"}

Request(s, next) ==
  /\ stage = "rest"
  /\ Goto(s, 0)
  /\ after' = next
  /\ UNCHANGED <<made, paused, sends, success, pipeVars, procVars, late>>

Step == UNCHANGED <<made, paused, sends, after, success, pipeVars, procVars, late>>
-----------------------------------------------------------------------------
(* The requests.  A pool that was never made, and a pause of one that is   *)
(* paused, are answered at once; /stats looks at the workers every tenth   *)
(* time, /status always.                                                   *)
WorkloadArrives ==
  /\ sends < MaxSends
  /\ Request(IF made THEN "renew" ELSE "launch", "send")

PauseArrives == made /\ ~paused /\ Request("check", "pause")
StatsArrives == made /\ Request("check", "answer")
KillArrives  == stage = "rest" /\ made /\ Pause("fail")

(* The pool is made anew when a process of it died or the settings of the  *)
(* request are others than its own; the number of workers stays, here.     *)
RenewAtOnce ==
  /\ stage = "renew"
  /\ \/ AllAlive /\ Goto("check", 0)
     \/ Goto("launch", 0)
  /\ Step
Renew ==
  /\ stage = "renew"
  /\ \/ AllAlive /\ Goto("check", 0) /\ Step
     \/ Pause("launch")

(* WorkerPool.__init__: one process at a time, each waited for, whatever   *)
(* became of it.                                                           *)
Launch ==
  /\ stage = "launch"
  /\ Goto("await", at)
  /\ pc' = [pc EXCEPT ![at] = "start"]
  /\ sigint' = [sigint EXCEPT ![at] = FALSE]
  /\ inbox' = [inbox EXCEPT ![at] = <<>>]
  /\ outbox' = [outbox EXCEPT ![at] = 0]
  /\ job' = [job EXCEPT ![at] = 0]
  /\ rates' = FALSE
  /\ late' = late \ {at}
  /\ UNCHANGED <<made, paused, sends, after, success>>

Launched ==
  /\ stage = "await"
  /\ outbox[at] > 0 \/ ~IsAlive(at)
  /\ outbox' = [outbox EXCEPT ![at] = 0]
  /\ Continue("launch", "check")
  /\ made' = (made \/ at = NWorkers)
  /\ paused' = (paused \/ at = NWorkers)
  /\ after' = "send"
  /\ UNCHANGED <<sends, success, inbox, procVars, late>>

(* check_workers.                                                          *)
Check ==
  /\ stage = "check"
  /\ \/ ~AllAlive /\ Pause("fail")
     \/ AllAlive /\ after = "send" /\ Goto("validate", 0) /\ Step
     \/ AllAlive /\ after = "pause" /\ Pause("answer")
     \/ AllAlive /\ after = "answer" /\ Goto("rest", 0) /\ Step

(* validate_workload: no worker takes part in it.                          *)
ValidateThenSend ==
  /\ stage = "validate"
  /\ \E s \in {"rest", "send"} : Goto(s, 0)
  /\ Step
Validate ==
  /\ stage = "validate"
  /\ \/ Goto("rest", 0) /\ Step
     \/ Pause("send")
-----------------------------------------------------------------------------
(* The loops of WorkerPool.                                                *)
Signal ==
  /\ stage = "signal"
  /\ sigint' = [sigint EXCEPT ![at] = @ \/ IsAlive(at)]
  /\ Continue("signal", "sync")
  /\ UNCHANGED <<made, paused, sends, after, success, pipeVars, pc, job, rates, late>>

AfterPause ==
  CASE Clearing                    -> "terminate"
    [] after = "send" /\ success'  -> "send"
    [] OTHER                       -> "rest"

SyncNext == Continue("sync", AfterPause)

(* _sync of a process that lives when the loop gets to it.                 *)
SyncWhileGood ==
  /\ stage = "sync"
  /\ success' = success
  /\ \/ ~(success /\ IsAlive(at)) /\ SyncNext /\ UNCHANGED outbox
     \/ success /\ IsAlive(at) /\ Goto("wait", at) /\ UNCHANGED outbox
  /\ UNCHANGED <<made, paused, sends, after, inbox, procVars, late>>
Sync ==
  /\ stage = "sync"
  /\ \/ ~IsAlive(at) /\ success' = success /\ SyncNext /\ UNCHANGED outbox
     \/ IsAlive(at) /\ outbox[at] = 0 /\ Goto("wait", at) /\ UNCHANGED <<success, outbox>>
     \/ /\ IsAlive(at) /\ outbox[at] > 0
        /\ outbox' = [outbox EXCEPT ![at] = @ - 1]
        /\ success' = success
        /\ SyncNext
  /\ UNCHANGED <<made, paused, sends, after, inbox, procVars, late>>

(* It polls, then asks whether the process lives: one that answered and    *)
(* died in between has failed.                                             *)
WaitPeeks ==
  /\ stage = "wait"
  /\ \/ outbox[at] > 0 /\ success' = success
     \/ ~IsAlive(at) /\ success' = FALSE
  /\ SyncNext
  /\ UNCHANGED <<made, paused, sends, after, pipeVars, procVars, late>>
WaitForAnswer ==
  /\ stage = "wait"
  /\ success' = success
  /\ \/ outbox[at] > 0 /\ outbox' = [outbox EXCEPT ![at] = @ - 1] /\ SyncNext
     \/ outbox[at] = 0 /\ UNCHANGED <<outbox, stage, at>>
  /\ UNCHANGED <<made, paused, sends, after, inbox, procVars, late>>
WaitForOne ==
  /\ stage = "wait"
  /\ \/ /\ outbox[at] > 0
        /\ outbox' = [outbox EXCEPT ![at] = @ - 1]
        /\ success' = success
     \/ ~IsAlive(at) /\ success' = FALSE /\ UNCHANGED outbox
  /\ Goto(AfterPause, 0)
  /\ UNCHANGED <<made, paused, sends, after, inbox, procVars, late>>
Wait ==
  /\ stage = "wait"
  /\ \/ /\ outbox[at] > 0
        /\ outbox' = [outbox EXCEPT ![at] = @ - 1]
        /\ success' = success
     \/ ~IsAlive(at) /\ success' = FALSE /\ UNCHANGED outbox
  /\ SyncNext
  /\ UNCHANGED <<made, paused, sends, after, inbox, procVars, late>>

Terminate ==
  /\ stage = "terminate"
  /\ pc' = [pc EXCEPT ![at] = "dead"]
  /\ Continue("terminate", IF after = "launch" THEN "launch" ELSE "rest")
  /\ UNCHANGED <<made, paused, sends, after, success, pipeVars, sigint, job, rates, late>>

(* send_workload.                                                          *)
Send ==
  /\ stage = "send"
  /\ paused' = FALSE
  /\ LET w == IF at = 0 THEN sends + 1 ELSE sends IN
     /\ sends' = w
     /\ inbox' = IF IsAlive(at) THEN [inbox EXCEPT ![at] = Append(@, w)] ELSE inbox
  /\ Continue("send", "rest")
  /\ UNCHANGED <<made, after, success, outbox, procVars, late>>

Server ==
  \/ Renew \/ Launch \/ Launched \/ Check \/ Validate
  \/ Signal \/ Sync \/ Wait \/ Terminate \/ Send
-----------------------------------------------------------------------------
(* The processes: worker and stat_loop.  A message is received whole or    *)
(* not at all.                                                             *)
Move(i, from, to) == pc[i] = from /\ pc' = [pc EXCEPT ![i] = to]

Connect(i) ==
  /\ Move(i, "start", "ready")
  /\ UNCHANGED <<serverVars, pipeVars, sigint, job, rates, late>>

SendReady(i) ==
  /\ Move(i, "ready", "sent")
  /\ outbox' = [outbox EXCEPT ![i] = @ + 1]
  /\ UNCHANGED <<serverVars, inbox, sigint, job, rates, late>>

EnterTry(i) ==
  /\ Move(i, "sent", "recv")
  /\ UNCHANGED <<serverVars, pipeVars, sigint, job, rates, late>>

Receive(i) ==
  /\ inbox[i] # <<>>
  /\ Move(i, "recv", "run")
  /\ job' = [job EXCEPT ![i] = Head(inbox[i])]
  /\ inbox' = [inbox EXCEPT ![i] = Tail(@)]
  /\ UNCHANGED <<serverVars, outbox, sigint, rates, late>>

(* KeyboardInterrupt: caught in the inner try, the end anywhere else.      *)
Interrupted(i) ==
  /\ sigint[i] /\ IsAlive(i)
  /\ sigint' = [sigint EXCEPT ![i] = FALSE]
  /\ pc' = [pc EXCEPT ![i] = IF @ \in {"recv", "run"} THEN "caught" ELSE "dead"]
  /\ late' = IF inbox[i] = <<>> THEN late \ {i} ELSE late \cup {i}
  /\ UNCHANGED <<serverVars, pipeVars, job, rates>>

(* The handler ends: a worker has its connection again, the rates are 0.   *)
RecoverKeepsRates(i) ==
  /\ Move(i, "caught", "ready")
  /\ job' = [job EXCEPT ![i] = 0]
  /\ UNCHANGED <<serverVars, pipeVars, sigint, rates, late>>
Recover(i) ==
  /\ Move(i, "caught", "ready")
  /\ job' = [job EXCEPT ![i] = 0]
  /\ rates' = (rates /\ i # StatProc)
  /\ UNCHANGED <<serverVars, pipeVars, sigint, late>>

StatPolls ==
  /\ pc[StatProc] = "run"
  /\ rates' = TRUE
  /\ UNCHANGED <<serverVars, pipeVars, pc, sigint, job, late>>

(* The database refuses a connection, or a query of the workload.          *)
Die(i) ==
  /\ i # StatProc
  /\ pc[i] \in {"start", "run", "caught"}
  /\ pc' = [pc EXCEPT ![i] = "dead"]
  /\ UNCHANGED <<serverVars, pipeVars, sigint, job, rates, late>>

Process(i) ==
  \/ Connect(i) \/ SendReady(i) \/ EnterTry(i) \/ Receive(i)
  \/ Interrupted(i) \/ Recover(i)

PoolNext ==
  \/ WorkloadArrives \/ PauseArrives \/ StatsArrives \/ KillArrives
  \/ Server
  \/ StatPolls
  \/ \E i \in Procs : Process(i) \/ Die(i)

(* Nobody has to send requests and nothing has to fail; the server and the *)
(* processes go on.                                                        *)
PoolFairness == WF_vars(Server) /\ \A i \in Procs : WF_vars(Process(i))

PoolSpec == PoolInit /\ [][PoolNext]_vars /\ PoolFairness
-----------------------------------------------------------------------------
(* A pause pairs every signal with one answer of the process: none is left *)
(* over between requests, or the next pause would take it for its own.     *)
Settled == stage \in {"rest", "renew", "check", "validate"}

NoStaleReady ==
  Settled => \A i \in Procs : IsAlive(i) => outbox[i] = 0 /\ ~sigint[i]

(* After /pause was answered no process works and every rate is 0, but for *)
(* those that were interrupted before they had read their workload.        *)
PauseStops ==
  (stage = "rest" /\ paused) =>
     /\ \A i \in Procs : pc[i] = "run" => i \in late
     /\ rates => StatProc \in late

(* A process works on the last workload that was sent, not on one that a   *)
(* later request replaced, with the same exception.                        *)
RunsLatest ==
  \A i \in Procs : pc[i] = "run" /\ i \notin late => job[i] = sends

(* No process of a pool is still there when the next pool is made, whose   *)
(* server would have no pipe to it.                                        *)
NoOrphans ==
  stage = "launch" => \A i \in at..NWorkers : ~IsAlive(i)

(* What the server, the processes and their pipes show of a promised run:  *)
(* a workload is due at a process while it is on the pipe, or the loop of  *)
(* send_workload has not got there.                                        *)
Phase ==
  IF stage \in {"signal", "sync", "wait"} THEN "pausing"
  ELSE IF paused \/ ~made THEN "paused" ELSE "running"
Alive == {i \in Procs : IsAlive(i)}
Stray == Alive \cap late
Due == {i \in Alive \ late : inbox[i] # <<>> \/ (stage = "send" /\ at > 0 /\ i >= at)}
Work == [i \in Procs |-> IF pc[i] = "run" /\ i \notin late THEN job[i] ELSE 0]

Promise == INSTANCE PoolRun WITH
  MaxRuns <- MaxSends, Crew <- Procs, phase <- Phase, run <- sends,
  alive <- Alive, due <- Due, work <- Work, stray <- Stray

(* Whoever dies or is interrupted wherever, a workload is begun once by    *)
(* every process that lives, is worked on until a pause, and a pause that  *)
(* is over has stopped all of it.                                          *)
KeepsPoolPromise == Promise!RunSpec

(* Every request is answered, whoever dies while the server waits in _sync.*)
RequestsReturn == stage # "rest" ~> stage = "rest"
=============================================================================
