----------------------------- MODULE PlayButton -----------------------------
(***************************************************************************)
(* The browser page (app/public/js/stress.js, query_dial.js, common.js) in *)
(* front of the server of module Dispatch: the PLAY/PAUSE button, the loop *)
(* that polls /stats while a run is on, the query windows and the pause    *)
(* that every page load sends.                                             *)
(*                                                                         *)
(* The page is one thread: each of its actions is one callback run to its  *)
(* end.  A request is sent and arrives in one step (any delay is the       *)
(* server's, before it takes its first step); an answer is written in one  *)
(* step and its callback runs in a later one.  The user is as careful as   *)
(* Habits says: an empty Habits is a user who waits for each answer, sends *)
(* queries that are JSON and never edits or reloads the page.              *)
(***************************************************************************)
EXTENDS Dispatch

CONSTANTS
  MaxWindows,  (* bound: query windows made between two clears               *)
  Habits,      (* what the user may do, out of the set below                 *)
  MayTimeOut   (* can the monitor miss the one second a /stats request waits? *)

ASSUME HabitsAssumption ==
  /\ Habits \subseteq {"hasty",    (* acts without waiting for the answer    *)
                       "reloads",  (* loads the page again                   *)
                       "edits",    (* makes, closes, clears and loads windows*)
                       "untidy",   (* leaves gaps in the window ids, queries
                                      empty                                  *)
                       "garbles"}  (* posts queries that are not JSON        *)
  /\ MayTimeOut \in BOOLEAN
  /\ ~MayOverflow                  (* a report has MaxWindows rows: few      *)
  /\ MaxWindows \in Nat \ {0}
  /\ Workloads = SUBSET (0..(MaxWindows - 1))

Ids == 0..(MaxWindows - 1)

VARIABLES
  running,  (* playButton.running                                            *)
  asked,    (* what the page awaits from, or was answered by, each request   *)
  syncing,  (* is the page blocked in the pause of its load?                 *)
  loops,    (* the polling loop that owns each /stats slot                   *)
  carried,  (* the window ids in the report each /stats request took         *)
  widgets,  (* the keys of query_widget_map                                  *)
  nextId,   (* global_query_id                                               *)
  model,    (* the window each worker works for                              *)
  rates     (* the keys of requestPerSec in StatsMonitor                     *)

talkVars == <<running, asked, syncing>>
loopVars == <<loops, carried>>
editVars == <<widgets, nextId>>
pageVars == <<talkVars, loopVars, editVars>>
rateVars == <<model, rates>>
vars == <<dispatchVars, pageVars, rateVars>>

Awaiting == {h \in Control : asked[h] # "none"}
Contiguous(ids) == ids = 0..(Cardinality(ids) - 1)

PageTypeOK ==
  /\ TypeOK
  /\ running \in {0, 1}
  /\ asked \in [Control -> {"none", "play", "pause", "played", "refused", "paused"}]
  /\ syncing \in BOOLEAN
  /\ loops \in [Pollers -> {"off", "timer", "asked", "report", "timeout"}]
  /\ carried \in [Pollers -> SUBSET Ids]
  /\ widgets \subseteq Ids
  /\ nextId \in 0..MaxWindows
  /\ model \in [Workers -> Ids]
  /\ rates \subseteq Ids
-----------------------------------------------------------------------------
(* The page is loaded, with one window; its first pause found nothing.     *)
PageInit ==
  /\ Init
  /\ running = 0
  /\ asked = [h \in Control |-> "none"]
  /\ syncing = FALSE
  /\ loops = [p \in Pollers |-> "off"]
  /\ carried = [p \in Pollers |-> {}]
  /\ widgets = {0}
  /\ nextId = 1
  /\ model = [w \in Workers |-> 0]
  /\ rates = {}

(* May the user act now?                                                   *)
Free == ~syncing /\ ("hasty" \in Habits \/ Awaiting = {})

(* getWorkload leaves out the windows whose query is empty.                *)
ClickPlay(h, n, posted) ==
  /\ Free
  /\ running = 0
  /\ asked[h] = "none"
  /\ posted \subseteq widgets
  /\ "untidy" \in Habits \/ (posted = widgets /\ posted # {})
  /\ WorkloadArrives(h, n, posted)
  /\ asked' = [asked EXCEPT ![h] = "play"]
  /\ UNCHANGED <<running, syncing, loopVars, editVars, rateVars>>

ClickPause(h) ==
  /\ Free
  /\ running = 1
  /\ asked[h] = "none"
  /\ PauseArrives(h)
  /\ asked' = [asked EXCEPT ![h] = "pause"]
  /\ UNCHANGED <<running, syncing, loopVars, editVars, rateVars>>

(* success of /workload: the button changes and a polling loop starts.     *)
PlayReplied(h, p) ==
  /\ ~syncing
  /\ asked[h] = "played"
  /\ loops[p] = "off"
  /\ running' = 1
  /\ asked' = [asked EXCEPT ![h] = "none"]
  /\ loops' = [loops EXCEPT ![p] = "timer"]
  /\ UNCHANGED <<dispatchVars, syncing, carried, editVars, rateVars>>

(* error of /workload: only a message is shown.                            *)
PlayRefused(h) ==
  /\ ~syncing
  /\ asked[h] = "refused"
  /\ asked' = [asked EXCEPT ![h] = "none"]
  /\ UNCHANGED <<dispatchVars, running, syncing, loopVars, editVars, rateVars>>

(* success of /pause.                                                      *)
PauseReplied(h) ==
  /\ asked[h] = "paused"
  /\ running' = 0
  /\ syncing' = FALSE
  /\ asked' = [asked EXCEPT ![h] = "none"]
  /\ UNCHANGED <<dispatchVars, loopVars, editVars, rateVars>>

(* loadWorkload: n windows, under new ids.                                 *)
LoadWindows(n) == widgets' = 0..(n - 1) /\ nextId' = n

(* The new page knows nothing of what the old one asked.  It loads the     *)
(* windows that were cached, at the last click or second, and calls        *)
(* playButton.pause(false).                                                *)
LoadPage(h) ==
  /\ "reloads" \in Habits
  /\ "hasty" \in Habits \/ Awaiting = {}
  /\ PauseArrives(h)
  /\ asked' = [[i \in Control |-> "none"] EXCEPT ![h] = "pause"]
  /\ running' = 0
  /\ syncing' = TRUE
  /\ loops' = [p \in Pollers |-> "off"]
  /\ carried' = [p \in Pollers |-> {}]
  /\ \E n \in IF "edits" \in Habits THEN 0..MaxWindows ELSE {Cardinality(widgets)} :
       LoadWindows(n)
  /\ UNCHANGED rateVars
-----------------------------------------------------------------------------
(* updateWorkloadLoop and onWorkloadReceive.                               *)
LoopAsks(p) ==
  /\ ~syncing
  /\ loops[p] = "timer"
  /\ PollArrives(p)
  /\ loops' = [loops EXCEPT ![p] = "asked"]
  /\ UNCHANGED <<talkVars, carried, editVars, rateVars>>

LoopEnds(p) ==
  /\ ~syncing
  /\ loops[p] \in {"report", "timeout"}
  /\ running = 0
  /\ loops' = [loops EXCEPT ![p] = "off"]
  /\ carried' = [carried EXCEPT ![p] = {}]
  /\ UNCHANGED <<dispatchVars, talkVars, editVars, rateVars>>

LoopPauses(p, h) ==
  /\ ~syncing
  /\ loops[p] = "timeout"
  /\ running = 1
  /\ asked[h] = "none"
  /\ PauseArrives(h)
  /\ asked' = [asked EXCEPT ![h] = "pause"]
  /\ loops' = [loops EXCEPT ![p] = "off"]
  /\ UNCHANGED <<running, syncing, carried, editVars, rateVars>>

(* query_widget_map[i].setDialValue throws for a window that is gone, and  *)
(* the callback ends before it sets the next timer.                        *)
AfterReportQuits(p) == "off"
AfterReport(p) == IF carried[p] \subseteq widgets THEN "timer" ELSE "off"

LoopReceives(p) ==
  /\ ~syncing
  /\ loops[p] = "report"
  /\ running = 1
  /\ loops' = [loops EXCEPT ![p] = AfterReport(p)]
  /\ carried' = [carried EXCEPT ![p] = {}]
  /\ UNCHANGED <<dispatchVars, talkVars, editVars, rateVars>>
-----------------------------------------------------------------------------
(* The query windows.  Only making one looks at the button.                *)
Editing == "edits" \in Habits /\ ~syncing

NewWindow ==
  /\ Editing
  /\ running = 0
  /\ nextId < MaxWindows
  /\ "untidy" \in Habits \/ nextId = Cardinality(widgets)
  /\ widgets' = widgets \cup {nextId}
  /\ nextId' = nextId + 1
  /\ UNCHANGED <<dispatchVars, talkVars, loopVars, rateVars>>

CloseWindow(i) ==
  /\ Editing
  /\ i \in widgets
  /\ "untidy" \in Habits \/ Contiguous(widgets \ {i})
  /\ widgets' = widgets \ {i}
  /\ UNCHANGED <<dispatchVars, talkVars, loopVars, nextId, rateVars>>

ClearWorkload ==
  /\ Editing
  /\ widgets' = {}
  /\ nextId' = 0
  /\ UNCHANGED <<dispatchVars, talkVars, loopVars, rateVars>>

(* handleUpload: a workload file is opened, whatever the button says.      *)
OpenWorkload ==
  /\ Editing
  /\ \E n \in 0..MaxWindows : LoadWindows(n)
  /\ UNCHANGED <<dispatchVars, talkVars, loopVars, rateVars>>
-----------------------------------------------------------------------------
(* The server's steps as the page sees them.  An answer to a page that is  *)
(* gone is lost.                                                           *)
Answer(h, a) ==
  /\ asked' = [asked EXCEPT ![h] = IF @ = "none" THEN "none" ELSE a]
  /\ UNCHANGED <<running, syncing, loopVars, editVars>>

(* With a query that is not JSON the body holds two objects, which the     *)
(* page does not parse: it takes the answer for an error.                  *)
PlayAnswered(h) ==
  \/ WorkloadDone(h) /\ Answer(h, "played")
  \/ WorkloadDone(h) /\ "garbles" \in Habits /\ Answer(h, "refused")
  \/ RejectWorkload(h) /\ Answer(h, "refused")
  \/ SpawnPanics(h) /\ Answer(h, "refused")

PauseAnswered(h) == (PauseNoFile(h) \/ ClearFile(h)) /\ Answer(h, "paused")

PollAnswer(p, a) ==
  /\ loops' = [loops EXCEPT ![p] = IF @ = "asked" THEN a ELSE @]
  /\ UNCHANGED <<talkVars, carried, editVars>>

PollAnswered(p) ==
  \/ (PollNoFile(p) \/ PollWrite(p)) /\ PollAnswer(p, "report")
  \/ MayTimeOut /\ PollTimeout(p) /\ PollAnswer(p, "timeout")

ReportTaken(p) ==
  /\ TakeReport(p)
  /\ carried' = [carried EXCEPT ![p] = IF loops[p] = "asked" THEN rates ELSE @]
  /\ UNCHANGED <<talkVars, loops, editVars, rateVars>>

WorkerSpawned(h, m) ==
  /\ Spawn(h, m)
  /\ model' = [model EXCEPT ![<<own[h], left[h]>>] = m]
  /\ UNCHANGED <<pageVars, rates>>

StatTaken(w) ==
  /\ TakeStat(w)
  /\ rates' = rates \cup {model[w]}
  /\ UNCHANGED <<pageVars, model>>

HandlerStep(h) ==
  \/ CreateFile(h) \/ AcceptWorkload(h)
  \/ SendKill(h) \/ PauseKillsDone(h) \/ PauseFindsFile(h) \/ CloseFile(h)

Unseen ==
  /\ \/ \E h \in Control : HandlerStep(h)
     \/ \E h \in Control, w \in Workers : TakeKill(h, w)
     \/ \E w \in Workers : WorkerStep(w)
     \/ MonitorTick
     \/ \E p \in Pollers : PollFindsFile(p) \/ PollReadsFile(p)
  /\ UNCHANGED <<pageVars, rateVars>>

ServerStep ==
  \/ Unseen
  \/ \E h \in Control : (PlayAnswered(h) \/ PauseAnswered(h)) /\ UNCHANGED rateVars
  \/ \E h \in Control, m \in Ids : WorkerSpawned(h, m)
  \/ \E w \in Workers : StatTaken(w)
  \/ \E p \in Pollers : ReportTaken(p)
  \/ \E p \in Pollers : PollAnswered(p) /\ UNCHANGED rateVars

PageStep ==
  \/ \E h \in Control, p \in Pollers : PlayReplied(h, p) \/ LoopPauses(p, h)
  \/ \E h \in Control : PlayRefused(h) \/ PauseReplied(h)
  \/ \E p \in Pollers : LoopAsks(p) \/ LoopEnds(p) \/ LoopReceives(p)

UserStep ==
  \/ \E h \in Control, n \in 0..MaxWorkers, posted \in Workloads : ClickPlay(h, n, posted)
  \/ \E h \in Control : ClickPause(h) \/ LoadPage(h)
  \/ NewWindow \/ ClearWorkload \/ OpenWorkload
  \/ \E i \in widgets : CloseWindow(i)

PageNext == ServerStep \/ PageStep \/ UserStep

PageSpec == PageInit /\ [][PageNext]_vars

(* The browser runs every callback that is due.  The user owes nothing.    *)
PageFairness ==
  /\ \A h \in Control :
       /\ WF_vars(\E p \in Pollers : PlayReplied(h, p))
       /\ WF_vars(PlayRefused(h) \/ PauseReplied(h))
  /\ \A p \in Pollers : WF_vars(LoopAsks(p) \/ LoopEnds(p) \/ LoopReceives(p))

FairPageSpec == PageSpec /\ RuntimeFairness /\ PageFairness
-----------------------------------------------------------------------------
(* While the button says PLAY and nothing is under way, no worker is at    *)
(* work: the count that handlePause read (handlers.go 207) was enough for  *)
(* every worker that handleWorkload left (152-171).                        *)
StoppedWhenIdle == (running = 0 /\ Awaiting = {}) => Live = {}

(* The only report file still open is the one a pause would close          *)
(* (handlers.go 123-135 and 211-218).                                      *)
NoLeakedFile == openFiles \subseteq {reportfile}

(* A pause kills only workers of the workload that was running when it was *)
(* asked for (handlers.go 205-210): Killc names no worker.                 *)
KillsOwnRun == [][\A h \in Control, w \in Workers : TakeKill(h, w) => w[1] = own[h]]_vars

(* As long as the button says PAUSE somebody drains the monitor, be there  *)
(* pauses under way or not: a /stats request is with the server, or a      *)
(* callback of the page is due that sends the next (stress.js 13-51 and    *)
(* 139-152).  Without it the workers block and no later pause can end.     *)
(* (So for windows left alone and polls that never time out.  A poll that  *)
(* does ends its loop and asks for a pause, and nobody drains the monitor  *)
(* for that pause: it may wait for ever.)                                  *)
Polling(p) ==
  \/ loops[p] \in {"timer", "report"}
  \/ loops[p] = "asked" /\ ppc[p] # "idle"

KeptPolling == running = 1 => \E p \in Pollers : Polling(p)

(* A pause that was asked for is answered, so it has killed its workers    *)
(* (handlers.go 205-222).                                                  *)
PauseReturns == \A h \in Control : asked[h] = "pause" ~> asked[h] # "pause"

(* A workload that was posted is answered, whatever its windows are called *)
(* and however few are left (handlers.go 66-184): an answer of any kind, a *)
(* dropped request included, gives the button back.                        *)
PlayReturns == \A h \in Control : asked[h] = "play" ~> asked[h] # "play"

(* app/views/index.html 214, "you cannot run two simulations at once": the *)
(* workers at work belong to one workload.                                 *)
OneSimulation == \A v, w \in Live : v[1] = w[1]

(* The refinement: what the user sees of the button and of the workers.    *)
Phase ==
  LET awaited == {asked[h] : h \in Awaiting} IN
  CASE awaited = {} /\ running = 0 -> "stopped"
    [] awaited = {} /\ running = 1 -> "running"
    [] awaited # {} /\ awaited \subseteq {"play", "played", "refused"} -> "starting"
    [] OTHER -> "stopping"

Promise == INSTANCE LoadRun WITH
  MaxRuns <- MaxBatches, MaxCrew <- MaxWorkers,
  phase <- Phase, run <- batches, live <- Live,
  killed <- {w \in Workers : wpc[w] = "killed"}

(* With a careful user the page, the handlers and the workers together     *)
(* implement the run of module LoadRun.                                    *)
KeepsPromise == Promise!RunSpec
-----------------------------------------------------------------------------
(* Why the promise is kept when the user is careful: the page has one      *)
(* request at a time under way, and the workers still owed a spawn or a    *)
(* kill are exactly those that its handler has left to do.                 *)
Careful == Habits \subseteq {"reloads", "edits"} /\ ~MayTimeOut

OneAwaited == \A h, i \in Awaiting : h = i

Starting(h) ==
  asked[h] = "play" =>
    /\ running = 0
    /\ kind[h] = "workload"
    /\ own[h] = batches
    /\ hpc[h] \in {"create", "accept", "spawn"}
    /\ windows[h] # {} /\ Contiguous(windows[h])
    /\ \A i \in 1..left[h] : wpc[<<batches, i>>] = "none"
    /\ hpc[h] \in {"create", "accept"} => Live = {}
    /\ hpc[h] = "create" => openFiles = {}
    /\ hpc[h] = "spawn" =>
         /\ left[h] <= currentWorkers
         /\ \A w \in Live : left[h] < w[2] /\ w[2] <= currentWorkers

Stopping(h) ==
  asked[h] = "pause" =>
    /\ kind[h] = "pause"
    /\ own[h] = batches
    /\ hpc[h] \in {"kill", "parked", "check", "close", "clear"}
    /\ hpc[h] \in {"kill", "parked"} => Cardinality(Live) <= left[h]
    /\ hpc[h] \in {"check", "close", "clear"} => Live = {}
    /\ hpc[h] = "clear" => openFiles = {}

Answered(h) ==
  /\ asked[h] # "refused"
  /\ asked[h] \in {"none", "played", "paused"} => hpc[h] = "idle"
  /\ asked[h] = "played" => running = 0 /\ Cardinality(Live) <= currentWorkers
  /\ asked[h] = "paused" => Live = {} /\ openFiles = {}

Resting ==
  Awaiting = {} =>
    /\ Cardinality(Live) <= currentWorkers
    /\ running = 0 => Live = {} /\ openFiles = {}

OneCrew ==
  /\ \A w \in Live : w[1] = batches
  /\ \A w \in Workers : w[1] > batches => wpc[w] = "none"

(* The inductive invariant of a careful user.                              *)
CarefulInv ==
  /\ OneAwaited /\ Resting /\ OneCrew /\ NoLeakedFile
  /\ Contiguous(widgets)
  /\ \A h \in Control : Starting(h) /\ Stopping(h) /\ Answered(h)
=============================================================================
