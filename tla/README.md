# Verification of the workload simulator

This directory holds TLA+ models of the workload simulator, the TLC
configurations that check them on small instances, and theorems about them with
proofs for TLAPS. The definitions are translated from the code; `PROJECT.json`
names, for each of them, the source lines it stands for.

## 1. The system

The repository is a load generator with a web page. It holds two servers for
nearly the same page. The **Go server** (`main.go`, `app/`) drives prediction
servers (ScienceOps) and is the current one. The **Python server** (`stress/`)
drives a MemSQL database and is the ancestor from which the Go server was ported;
its worker pool, its session, its live mode and its query table are modelled.

### Inventory

| Component | State it keeps | Operations | Right when |
|---|---|---|---|
| HTTP handlers (`app/handlers.go`) | `App`: `config.currentWorkers`, `reportfile`, three unbuffered channels; no lock | `/workload` spawns workers, `/pause` and `/kill` send one kill per worker, `/stats` takes a report or times out after 1 s, the rest only answers | a pause leaves nobody at work, is answered, and kills nobody else's workers; the report file is usable and not leaked |
| Workers (`app/worker.go`) | `predSent`, `predCount`, position in the loop | loop of `select`: kill, tick (send statistics), predict | they get back to the `select` that listens for kills; nothing is counted twice |
| `StatsMonitor` (`app/stats.go`) | totals, last batch, per-window rates and totals | takes statistics; every 100 ms makes a report and waits to send it | it is always drained while a run is on; its totals are what it was told of each worker |
| Report file (`app/handlers.go`, `app/stats.go`) | open file, rows | created per workload, appended by `/stats`, closed by `/pause` | rows go to an open file, the completed column never falls |
| Play button and polling loop (`stress.js`) | `running`, requests under way, timers | PLAY, PAUSE, poll, page load | one run at a time; someone polls while PAUSE is shown |
| Query windows (`query_dial.js`, `common.js`) | `query_widget_map`, `global_query_id`, cache | make, close, clear, load, cache | ids that the server can draw from |
| Start-up, routing, configuration (`main.go`, `app/app.go`, `app/config.go`) | channels, routes | once | – |
| Settings, console, error boxes, graphs (`common.js`, `mysql.js`, `query_graphs.js`, `metrics_graphs.js`) | display | display | not modelled |
| Python worker pool (`stress/worker.py`) | one process and one pipe per worker, a statistics process, shared arrays | launch, send workload, pause by SIGINT, clear | pause and send stay in step with each pipe; a pause stops everybody; no process outlives its pool |
| Python server and session (`stress/server.py`, `stress/static/js/common.js`, `stress/static/js/stress.js`) | `g_workers`, `g_workload`, `g_settings`, `g_last_ping` | as above, plus a session: ping, unload, redirect to live mode | one page in control, and no other's workload with the pool; a server that nobody controls is taken over again |
| Query table (`stress/query_table.py`, the loop of `stress/worker.py`) | dials sorted, cumulated probabilities, tokens; draws left in a period | cut a text at its tokens, draw a query, send it, count it | a query is drawn as often as its dial says; every attempt is counted once, whichever way it ends; the rate is that of the dials; texts are cut at the longest tokens |
| Plan cache (`stress/plancache.py`) | executions of the last round, rates, a lock; one collector process | query the database, write the rates, copy them | a copy is one whole round; an idle plan comes down to 0 |
| Live mode page (`stress/static/js/live.js`) | widgets, their count, a pending resort | poll, show, resort | the count is that of the widgets; after a resort they are the busiest plans |
| Database wrapper, options, vendored code, example workloads | – | – | not modelled: thin wrappers, third-party code, data |

### How they interact

The page posts `/workload`; the handler creates the report file, sets
`currentWorkers` and starts that many goroutines. A worker that ticks sends its
statistics on `Statc` to the monitor. The monitor, every 100 ms, sends a report
on `Reportc`, and takes no statistics before it is taken. Only `/stats`, which
the page's polling loop asks for, receives reports. `/pause` reads
`currentWorkers` and sends that many kills on `Killc`; whichever worker stands
in its `select` receives one and ends.

What makes this hard: all three channels are unbuffered and the handlers run
concurrently without a lock, so a missing party blocks a chain of others
(page – `/stats` – monitor – worker – `/pause` – page); kills name no worker;
`currentWorkers` counts workers that were started, not those alive; the page
changes its mind in callbacks that may come late, twice or never; and the file
handle is read several times by several handlers.

## 2. The modules

```
Dispatch            handlers, workers, monitor: the control plane
 ├─ PlayButton      + the page and its user            ──implements──▶ LoadRun
 ├─ Accounting      + the counters, reports and rows
 └─ DispatchProofs ── PlayButtonProofs (also EXTENDS PlayButton)
WorkerPool          the Python server's pool    ──implements──▶ PoolRun
 └─ WorkerPoolProofs
Session ──── SessionProofs          who is in control of the Python server
LiveMode ─── LiveModeProofs         plan cache, collector and live page
QueryTable ─ QueryTableProofs       what a Python worker draws and sends
Accounting ─ AccountingProofs       (also EXTENDS DispatchProofs)
FoldLaws            what folds over finite sets compute: instantiated by
                    AccountingProofs, LiveModeProofs and QueryTableProofs
MCPlayButton, MCAccounting, MCWorkerPool, MCSession,
MCLiveMode, MCQueryTable             instances for the runs
```

The Go and the Python program share no module: they are different programs with
different channels. The four Python modules meet in the handlers of
`stress/server.py`: `Session` keeps of the pool only whose workload it runs,
which `WorkerPool` says it does; `QueryTable` begins where a worker of
`WorkerPool` has received its workload.

**Dispatch** (`app/handlers.go`, `app/worker.go`, `app/stats.go`, `main.go`).
Each goroutine has a program counter: `hpc` for a control request, `wpc` for a
worker, `mpc` for the monitor, `ppc` for a `/stats` request. `currentWorkers`
and `reportfile` are the fields of `App`; `openFiles` is what the operating
system has open. A hand-over on an unbuffered channel is one joint step
(`TakeKill`, `TakeStat`, `TakeReport`). A kill always waits (`SendKill`), as no
worker waits in a `select` that has a default case; while a kill waits, a
worker's default case is not ready (`KillWaiting`). Handlers are split wherever
another goroutine can come between two accesses to `App`: create, refuse or
accept, spawn, and in a pause the nil check, the close and the nil assignment.
`CreateFile` may fail, as `os.Create` may. `Spawn` draws an id below the number
of windows; a draw that is no window (`SpawnPanics`) drops the request, as
net/http recovers the panic. A worker is named by its batch and its place in the
spawn loop; that name is bookkeeping, no guard of the code's steps reads it.
`/stats` reads `app.reportfile` for its nil check (`PollFindsFile`), again for its
call of `WriteCsv` (`PollReadsFile`), and writes to that file (`PollWrite`) whatever
became of it in between (`rowfile`). When the rows overflow the writer's buffer, a write
to a closed file is `log.Fatalln`: `WriteFatal` ends the server, and nothing steps any more.
A negative worker count starts nobody and kills nobody, as 0 does.

**PlayButton** (`stress.js`, `query_dial.js`, `common.js`) adds the page. Its
actions are conjunctions of a page callback and, where it sends a request, the
arrival of that request at the server; the server's steps are those of
`Dispatch` with what the page sees of them. `asked` is what the page awaits or
was answered, `loops` the polling loops, `syncing` the synchronous pause of a
page load, during which the page runs nothing else. `LoopReceives` is
`onWorkloadReceive`: setting the dial of a window that is gone throws, and the
loop ends without its next timer (`AfterReport`). `Habits` says what the user
may do, so that each property is checked with as wild a user as it survives.

**Accounting** adds to `Dispatch` what is counted: the quota and the counters of
each worker, the monitor's totals and maps, the row each poll holds and the last
row of each file. `made` and `heard` are history variables: what each worker really
completed, and what of it the monitor was told. A worker that is killed, fails or is
through sends no last statistics, so that the two differ for good.
Request rates are `PerSecond(c) = 2c`, as the ticker's period is half a second.

**WorkerPool** (`stress/worker.py`, and what the handlers of `stress/server.py` do
with the pool). Flask's server takes one request at a time, so the server is one
sequential process: `stage` says where it is in its handler, `at` which process
its loop has got to, `after` what it does after its check or its pause. Every
worker and the statistics process is a process of its own (`pc`), with its pipe
(`inbox` of workloads, `outbox` of `True`s not yet received) and its pending
SIGINT, which is handled at any later step: in the inner `try` it is caught, at
any other place it ends the process, because `except Exception` does not catch
`KeyboardInterrupt`. `living_workers` is a generator, so each loop asks a
process whether it lives when it gets to it. `_sync` polls the pipe, then asks
whether the process lives, so that one that answered and died in between has
failed. `sends` numbers the workloads; `late` is a history variable (see
`PauseStops` below).

**Session** (`stress/server.py`, `stress/static/js/common.js`,
`stress/static/js/stress.js`). Flask's server takes one request at a time, in
the order of arrival. A click posts and waits for nothing, so posts of `/workload` and
`/pause` queue (`queue`) and PLAY may be clicked again before the first answer; what the page
does with each answer is part of the step that gives it (`Answer`), which may also
be lost, or be an error of HTTP. A `/workload` may launch processes and ask the database for
seconds: `busy` is the page that posted it, and while it is handled time goes by, pages come
and go and no other request is answered. It replaces `g_workload` first (`Submit`) and may
then be refused (`Refuse`), which leaves the pool as it was or, when the pool was found dead,
stopped, or it is sent (`Accept`). A pause stops every process but those that had not yet
received their workload: `late` is whose workload these will run, and WorkerPool
says when.

`since` is `(datetime.now() - g_last_ping).seconds`, which drops whole days: it turns over
with the day, and an `/unload`, which sets the time to a midnight in 1990, makes it the time
of day. So the server takes nobody in for the first ten seconds after each midnight, and for
ten seconds of every later day at the time of the last ping; `Freed` says that this ends.
`quiet` is how long a page in control was not heard, and `overslept` a history
variable: a page in control was not heard for longer than `PING_TIMEOUT`, and
some page was in control ever since. Without that condition the properties
fail, and should: a laptop that sleeps, or a `/workload` that takes longer than
ten seconds and keeps the pings waiting, lets a second page in, and if both ping
afterwards both stay.

`OwnRun` says whose workload the pool was sent and whose windows `/stats` reports on. It does
not say that nothing runs behind a page that says PLAY, as that is false: a second PLAY
that is refused after the first was accepted sets `running` to 0 over a pool at work
(`stress.js:92`), a lost answer leaves it there, and late processes go on. It does
not say either that `/stats` reports on the workload that runs: a refused one has
replaced `g_workload` (`server.py:237`).

**LiveMode** (`stress/plancache.py`, `stress/static/js/live.js`). The collector
is a process of its own: it queries, waits for the lock, writes its rows one at a
time, releases, sleeps. `get_stats` and `get_metrics` of a `/live/stats` request
take the lock one after the other, so the collector may write, or die, between them;
`copy` is what the first has copied. A round is the unit of time of a rate.
`Widgets` walks the plans from the busiest down and adds one while there is
room. `Drop` and `List` are the database's: a plan that is listed again counts
from 0 and may get a rate below 0, and one that is dropped keeps its last rate.

**QueryTable** (`stress/query_table.py`, and the loop of `stress/worker.py`).
A workload is a dial for each query and a text for each row; texts are all
sequences of the characters of the tokens, a blank and one that is in none. `Tokenize` is one
pass of `tokenize_query`, `Parse` the search for the first word, which fails when
there is none before the first token. `random()` is one of `total_qps`
equal parts, so a probability is an integer. `WorkerQps` is
`int(ceil(((total_qps + 1) / nworkers) * PERIOD))` with Python's integer division
and `PERIOD` of a tenth of a second, exact in integers. A query that was drawn is
`hand` until it is counted: it returns, well or with an error that is logged (`QueryReturns`), the
database server has gone (`ServerGone`) and a new connection is made (`Reconnect`), or the
exception ends the process (`Raise`). `Interrupt` is the pause, which comes at any step, between the
query and its count too. `attempts` is a history variable: what was drawn.

**LoadRun** is the abstract promise: a run goes stopped – starting – running –
stopping – stopped; workers are launched only while starting, killed only while
stopping, and none is left when stopped. `PlayButton!Promise` maps `phase` to
what the button and the requests under way show, `live` and `killed` to the
workers' program counters.

**PoolRun** is the abstract promise of the Python pool: a workload is *due* at
every process that lives when it is sent, each begins it once and works on it
until a pause interrupts it, a pause is over when nobody works and nothing is
due, and a process may fail at any moment but is launched anew in a pause only.
`WorkerPool!Promise` maps `phase` to the stage of the server, `due` to the
workloads on the pipes and those `send_workload` has still to write, and `work`
to the processes' jobs. Its one exception are the processes that go *astray*,
interrupted before they had read their workload (`late`, see section 3): the
promise drops what is due at them, and takes them back when a later signal
finds their pipe empty.

## 3. The runs

| Run | Question | Bounds |
|---|---|---|
| `play_careful` | Is the promise kept to a careful user who reloads and edits? `StoppedWhenIdle`, `NoLeakedFile`, `KillsOwnRun`, `KeepsPromise`, the inductive `CarefulInv`, `PageTypeOK` | 2 workloads of up to 2 workers, 1 window, 2 polling loops |
| `play_wild` | Is somebody always draining the monitor, and can any order of requests break the file protocol? `KeptPolling`, `ReportFileUsable`, `TypeOK` | 2 control requests, 2 polls, 2 workloads, 1 worker each, a hasty user, reloads, bad and empty queries |
| `play_live` | Does a pause return, do statistics and polls get through? `PauseReturns`, `StatsAreTaken`, `PollsAreAnswered` | 2 workloads of up to 2 workers |
| `play_gaps` | Is every workload answered? `PlayReturns` | 2 windows, 1 workload of up to 2 workers, every habit but haste, poll timeouts |
| `count` | Does the monitor count what it is told, once, across a pause, a second workload and failed predictions? `DoneIsHeard`, `RowsBalance`, `CompletedNeverFalls`, `CountTypeOK` | 2 workloads, 1 worker each (both may be at work at once), 2 turns each |
| `pool` | Do pauses and pipes stay in step under any requests, deaths and late signals? `PoolTypeOK`, `NoStaleReady`, `PauseStops`, `RunsLatest`, `NoOrphans`; is every request answered? `RequestsReturn`; does the pool implement its promise? `KeepsPoolPromise` | 2 workers and the statistics process, 2 workloads sent, any number of other requests, refusals and new pools |
| `session` | Is one page in control, and the pool's workload its own? `OneInControl`, `OwnRun`, `SessionTypeOK`; is a page that pings in time kept, and a server without one taken over? `KeepsControl`, `Freed` | 2 pages, a day of 4 ticks, a timeout of 1, 2 posts that wait |
| `live` | Is what the page gets one round, does its count of widgets hold, and do dials come down? `SnapshotIsARound`, `WidgetsCounted`, `TopAfterResort`, `DialsSettle`, `LiveTypeOK` | 2 plans, one of which the database may drop, 1 execution of a plan since it was listed, 1 widget |
| `table` | Are draws, counts and tokens what the dials, outcomes and texts ask for? `DrawsMatchDials`, `AttemptsCount`, `TokensAreLongest`, `TableTypeOK` | 3 queries with dials up to 4, 1 worker, texts of up to 3 characters, 2 periods |

The smallest instance in which something can go wrong is two of a thing:
two workers for a wrong count of kills, two workloads for a stale count, file or
row, two requests for a race on `App`, two windows for a gap in the ids. The
bounds give each run the two it asks about. Two turns of a worker's loop are a
prediction and a tick in either order, which is what the reset of a counter
needs. `PLAY` with zero workers and a page without windows are included. Two pages are
enough for one to come while the other is in control, and a day only has to be
longer than the timeout for an old time to look fresh again; two posts are a second click before the first answer, or the posts of two pages. Two plans and one
widget make a plan wait for its place; one execution tells an idle plan from a
busy one. Three queries give the sort ties, a first, a middle and a last, and a
text of three characters holds a token of two beside each of one. A dial of 4 for each of them
makes two draws in a period, one after the other.
`table` stops when its periods are used up, so deadlock is not checked there.

Three runs look for a violation, and each finds one. They state what a comment or
the page's text says and the code does not do:

| Run | Says | Does |
|---|---|---|
| `pause_finished` | `handlers.go:205` "handlePause kills the worker goroutines." | waits for ever when workers have ended by themselves, as `currentWorkers` is never lowered |
| `two_garbled` | `app/views/index.html:214` "you cannot run two simulations at once" | a query that is not JSON is answered `running: false` and the run is started all the same; PLAY starts a second |
| `rate` | `stress/templates/index.html:161` "Adjust the dial to set the number of queries per second sent to the server." | with the default of 50 workers nothing is sent for dials that add up to less than 49: each worker's share is rounded down to 0 before it is rounded up (`DialSetsRate` asks for the rate within a factor of two) |

The models show further disagreements that have no run of their own:
`handlers.go:155` says "Choose a model from the workload at random", but the draw
is a number below the count of windows, which need not be an id, and the nil
entry panics with part of the workers started (the step `SpawnPanics`, taken in
`play_gaps`); a reload during a run blocks the page in a synchronous pause while
nobody polls, so page, pause, worker and monitor wait in a circle (`"reloads"` in
`pause_finished` with `MayFinish = FALSE`); `stats.go:33` says "cumulative stats", but each
worker's running total of requests is added at every tick, so early requests
count again and again (`isent <= Total(sent, Workers)` fails in `count`); `query_table.py:51`
says "Uses old numbers", but a draw is never 0 and may be the number that comes next;
a user who
clicks PLAY twice before the answer starts two runs (add `"hasty"` to the habits
of `two_garbled`); a window closed during a run ends the polling loop and with
it any later pause (`"edits"` in `pause_finished`, workers that do not finish);
a workload refused for being empty leaves its file open (`"untidy"` and
`NoLeakedFile`); a poll that times out ends its loop and pauses, and nobody drains the monitor
for that pause, which may never be answered (`KeptPolling` with `MayTimeOut`); a worker that is
killed, fails or is through sends no last statistics, so the predictions it completed since its
last tick are never reported (`DoneIsHeard` says what is); `/stats` may write to a file
that a pause closed since its nil check, and `log.Fatalln` then ends the server if the rows
overflow the buffer; `/kill` after two workloads leaves workers at work; a tick uses
up one of a worker's requests; the first rows of a second workload's file are of
the first (`handlers.go:268` writes the batch of the last statistics taken); the rate of a window is that of the worker that
spoke last.

`PauseStops` and `RunsLatest` of `WorkerPool` make one exception, and it is needed:
a worker that is interrupted between the server's send and its own `recv` answers
the pause, reads the old workload afterwards and works on it while the pool is
paused, or instead of a newer one that waits behind it on the pipe. `late` is the
set of these processes. Without it TLC finds the behaviour within 23 states.

Deadlock is checked in `WorkerPool`, `Session` and `LiveMode`, where a request can always
arrive. It is not in `count`, where the server may exit, nor in the runs of `PlayButton`: a page
really can hang, which is what `pause_finished` is about, and with the bound on
workloads used up a user who does nothing more is no deadlock either.

### Fairness

In `WorkerPool` the server and each process are weakly fair: the operating system
runs every runnable process, a query or a connection attempt returns, and a
process blocked in `recv` owes nothing until something is on its pipe or a signal
arrives. Requests, deaths and the user owe nothing.

In `Session` time goes by, posts are handled and answered, and some
user tries to get in again and again (strong fairness of `Enter`: the
server is free again and again, as it answers the posts that wait, and only a page in control posts more). `Freed` is
about that user and needs no more; pages in control owe nothing, not even a ping.

In `LiveMode` the collector goes on, the page asks again 100 ms after
each answer, and its two copies get the lock: strong fairness, as the collector sleeps for a
second between two rounds and a waiting request is served then. `DialsSettle` is
about a plan that stays listed while neither collector nor page has given up; its executions
end because the counters are bounded, which is the case of a plan
that is not run any more. A failing query, a lost answer and a click owe nothing.

Of the Go server:

`RuntimeFairness` is weak fairness of each goroutine's own steps, which the Go
scheduler gives every runnable goroutine, and strong fairness of the hand-overs:
waiting senders and receivers of a channel are queued first come, first served,
and a `select` chooses at random among its ready cases, so a case that is ready
again and again is taken. A prediction is assumed to return, with or without an
error. A poll's timeout is never owed. `PageFairness` is weak fairness of the
callbacks that the browser has due. The user owes nothing: no property relies on
a click. `PauseReturns` needs it all: the page polls, the poll drains the
monitor, the monitor takes the statistics, the worker gets back to its `select`
and the waiting kill reaches it.

## 4. What is proved

For every number of workloads, workers, windows, requests, quotas, pages,
queries, plans and widgets, any dials, texts of any length, and any length of day
and timeout:

| Theorem | Says |
|---|---|
| `Typed` | `Spec => []TypeOK` |
| `FileUsable` | `Spec => []ReportFileUsable` |
| `PageUsesServer` | `PageSpec => Spec`: behind any page the server is that of `Dispatch`, so its theorems hold of the whole |
| `PageTyped` | `PageSpec => []PageTypeOK` |
| `CarefulKept` | for a careful user: `PageSpec => []CarefulInv` |
| `Stops`, `FilesClosed`, `KillsOwn` | for a careful user: `[]StoppedWhenIdle`, `[]NoLeakedFile`, `KillsOwnRun` |
| `PromiseKept` | for a careful user: `PageSpec => KeepsPromise` |
| `PollingIsKept` | for any user who leaves the windows alone, if no poll times out: `PageSpec => []KeptPolling` |
| `CountsTyped`, `RowsAreBalanced`, `DoneHeard` | `CountSpec => []CountTypeOK`, `[]RowsBalance`, `[]DoneIsHeard` |
| `CompletedRises` | with one poll at a time: `CountSpec => CompletedNeverFalls` |
| `PoolTyped`, `AnswersArePaired`, `PoolsAreCleared`, `PausesStop`, `LatestRuns` | `PoolSpec => []PoolTypeOK`, `[]NoStaleReady`, `[]NoOrphans`, `[]PauseStops`, `[]RunsLatest` |
| `PoolPromiseKept` | `PoolSpec => KeepsPoolPromise`: the pool implements `PoolRun` |
| `SessionTyped`, `OnePage`, `RunsItsOwn`, `ControlIsKept` | `SessionSpec => []SessionTypeOK`, `[]OneInControl`, `[]OwnRun`, `KeepsControl` |
| `LiveTyped`, `WidgetsAreCounted` | `LiveSpec => []LiveTypeOK`, `[]WidgetsCounted` |
| `WholeRounds`, `TopIsShown` | `LiveSpec => SnapshotIsARound`, `TopAfterResort` |
| `TableTyped`, `AttemptsCounted`, `DrawsMatch`, `TokensLongest` | `TableSpec => []TableTypeOK`, `[]AttemptsCount`, `[]DrawsMatchDials`, `[]TokensAreLongest` |
| `SharesRound` | how far the queries sent in a second are from the sum of the dials, for any sum and any number of workers: at most 9 a worker and 1 above it, at most the number of workers less 2 below it, and none at all exactly when the sum plus 1 is less than the number of workers |

The assumptions are those on the constants (`BoundsAssumption`,
`NoFileAssumption`, `WorkloadsAssumption`, `HabitsAssumption`,
`QuotasAssumption`, `SizeAssumption`, `NoPageAssumption`, `TimeAssumption`, `PostsAssumption`,
`LiveAssumption`, `TableAssumption`); TLC evaluates them in the runs. `Careful` is a condition on
the constants: the user waits for
answers, keeps ids contiguous and queries non-empty and JSON, and no poll times
out. The violation runs show that it is not idle: without `"garbles"` or
`"untidy"` excluded the properties fail.

### The argument

**Handlers and page.** `TypeOK` is not inductive: a kill that is taken needs `left > 0` at
the handler that waits, and a handler's file needs a batch that exists, so
`DispatchProofs` strengthens it (`TypeInv`). `ReportFileUsable` needs in addition
only that a file is closed by a handler that next clears it. For the page,
`StoppedWhenIdle` alone says nothing of the states between click and answer.
`CarefulInv` does: the page has at most one request under way (`OneAwaited`);
while it is a PLAY, everyone at work was spawned by its handler, between
`left` and `currentWorkers`, and the rest are not yet started (`Starting`);
while it is a PAUSE, no more workers are at work than kills are owed, none once
the kills are done (`Stopping`); once answered, the counts agree (`Answered`,
`Resting`); and everyone at work belongs to the last workload (`OneCrew`). Its
proof goes by who steps: user (`UserSteps`), page (`PageSteps`), handlers
(`HandlerSteps`), spawns, kills and answers; `LiveSize` and its neighbours
count the workers at work with the library's theorems on cardinality.
`PromiseKept` uses it to show each step a step of `LoadRun` or a stutter.

`KeptPolling` falls when a report names a window that is gone and when a poll times out, so
`PollingIsKept` is about users who do not edit and polls that are answered. The one window is then
all that a workload, a worker, a rate or a report can name (`OneWindow`), so that no report ends
its loop, and a poll that the server has answered is one whose callback is due (`Answering`).

**Counts.** In `Accounting` a row is balanced because the totals are, and the totals because
a worker that predicts has begun one turn more than it has counted (`Counted`).
That needs each worker to start with counters at 0, hence `NewCrew`: handlers that
still start workers hold different batches, and what they owe was never started.
`DoneHeard` is about a sum over all workers: when the monitor takes statistics, the total grows by
the worker's count, and what was heard of this worker by the same (`HeardHolds`, from
`Counted`); `TotalBut` says what becomes of the sum. That each live worker holds the rest is part of
`Counted`; of a worker that was killed or has failed it is in a variable that nobody will read.

**Sums and folds.** The library's induction theorems take an operator, so `FoldLaws` does its
induction over sets: `SetInduction` shows that every subset of a finite set is *Good*
when each set is whose smaller subsets are, from the library's well-founded order on
finite sets; `IndexInduction` is its form for the indices of a sequence. With it
the folds of the community modules are unrolled (`FoldStep`), and their
operand is taken from anywhere when the order does not matter (`FoldPick`). The
three modules that instantiate `FoldLaws` name the operator that they fold with: addition, or
the next widget.

**Query table.** `TableInv` says that the probabilities written so far are the sums of
the dials of as many queries in their order (`RowsInv`), that the order is that of the dials,
that attempts and draws left make up the periods (`DrawsInv`, by which the counts are bounded), and
what may be in hand at each step around a query (`HandInv`, from which `AttemptsCounted` follows).
A sum that rises picks
each query in the parts of `random()` between two of its values (`PartsOf`), and there are as many as
its dial says. `SharesRound` is arithmetic: what two divisions, one rounded down and one up, lose and gain.
For the tokens, `CutInv` says what the passes done so far have made of the text
(`CutUpTo`): a list that joins to the text, alternates pieces and
tokens, and whose pieces hold none of the tokens of those passes. A pass
replaces each piece by its own cuts (`PassCuts`). That no `@` was cut off a longer
token is a fact about neighbours, a token and the piece after it (`Apart`): the
passes for the longer tokens had left none in the piece that it was cut from.

**Live mode.** `RoundInv` says what the lock protects: outside of it the dictionary accounts for
every row, inside for every row but those still to be written. The widgets of
a round are a fold over the plans from the busiest down; a plan without a
widget comes after every plan that got one, and the page is full by then
(`FirstComeFirstServed`), which gives `TopIsShown`.

**Worker pool.** Its properties speak of the server at rest. `PoolInv` says what each process that
lives may have said and still has to do at every stage of the server's loops (`Place`):
before the loop has got to it, after, and while it waits for it. `Course` ties the
server's stages to `paused` and to its counters, and `RatesInv` the rates to the
statistics process. The refinement needs besides that a pool is launched in a pause only,
and that `paused` is cleared with the first process that is sent a workload (`PausedInv`).
Then a step of a process begins a workload, is interrupted, goes astray, comes
back, fails or stutters (`ProcessKeeps`); the last answer that `_sync` takes ends the pause,
and `Place` says that nobody works then (`SyncKeeps`).

**Session.** `SessionInv` adds to the session's properties that the server's time is that of
the page in control (`Heard`), that nobody else's workload waits to be handled, and none of a page
that is still loading (`Booked`). The last is why `OwnRun` survives a page that vanished with posts in
the queue: a page is let in when no post is before its request, and its pause comes before its own posts.

### Only model-checked

What is temporal under fairness: `PauseReturns`, `PlayReturns`, `StatsAreTaken`,
`PollsAreAnswered`, `RequestsReturn`, `Freed` and `DialsSettle`. Liveness and
`ENABLED` are out of the prover's reach. Every invariant and every action
property of the passing runs is a theorem, and so are both refinements.

## 5. Left out, and why

- Contents: queries, hosts, keys, host and model names, dials and graphs. No
  property is about them. A query is empty, JSON or not JSON.
- `/ping`, `/unload`, `/status`, `/live`, `/live/stats`, `/sql`, `/save`: the Go
  handlers answer and change nothing.
- A workload that does not parse, or a dial that is no number, returns before
  anything changes and is answered with an empty body: no step of the server.
- Time: ticks and timeouts may come at any moment. `MayTimeOut = FALSE` says that
  the monitor, which ticks ten times a second, never misses the second that a
  poll waits.
- Requests lost on the network: the server and the page run on one host by
  design; a dropped request appears as `SpawnPanics`.
- In `WorkerPool`: window ids of 500 and more (`worker.py:134` assumes that there
  are none), a Ctrl-C at the server's terminal, which reaches the whole process
  group, and a message that a signal cuts in two: it is read whole or not at all.
- In `Session`: `/sql` and `/save`, which change nothing on the server, a change of
  settings, and a `/kill`, which is not asked for by any page. (`kill` clears the
  pool and then fails with a `NameError` on `g_plancaches`, so the server survives it.)
- In `LiveMode`: other settings, each of which starts a collector that is kept for ever;
  the contents of the metrics; settings that do not parse, which end the page's loop
  as a lost answer does; and a collector that is killed from outside while it holds the
  lock, which would stop the server.
- In `QueryTable`: the random numbers, strings and times that replace the
  tokens; floating point, in which the last probability may be just below 1.
- What the statistics process does with counts that were left by the run before.
- In `PlayButton`: the exit of the server on a write to a closed file (`MayOverflow = FALSE`). It takes a report
  of more than 4096 bytes, a few dozen windows; the page then gets no answers. `Accounting` has it.
- Integer width: the counters are Go `int`s of 64 bits and count requests.

## 6. Plan

Done: the Go program with `Dispatch`, `PlayButton`, `LoadRun` and `Accounting`; the
Python program with `WorkerPool`, `PoolRun`, `Session`, `LiveMode` and `QueryTable`; their runs and
the theorems above. Open, in this order:

1. `Session` on top of `PoolRun`: its `Stop` and `Accept` as steps of the pool, with processes
   that fail in between.
2. Settings in `LiveMode`: several collectors, and a page that changes between them.
3. The amounts of the rates in the Python pool: what the statistics process reads
   while workers count.
