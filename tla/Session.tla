------------------------------ MODULE Session ------------------------------
(***************************************************************************)
(* Which page is in control of the Python server (stress/server.py), and   *)
(* whose workload its pool runs.  The pages are stress/static/js/common.js *)
(* and stress/static/js/stress.js; a page that finds another in control is *)
(* shown the live mode instead.                                            *)
(*                                                                         *)
(* The server takes one request at a time, in the order of arrival, which  *)
(* is that of the clicks.  The posts of /workload and /pause wait in       *)
(* queue, so that a page may click again before it is answered; every      *)
(* other request is one step, taken when no post is before it.  /workload  *)
(* may launch processes and ask the database for seconds: busy is its      *)
(* page, and everybody waits.  An answer and its callback are one step.    *)
(* Time goes by in ticks, the periods of autoSave.                         *)
(***************************************************************************)
EXTENDS Integers, Sequences

CONSTANTS
  Pages,
  NoPage,
  Day,        (* ticks in a day                                              *)
  Timeout,    (* PING_TIMEOUT                                                *)
  MaxPosts    (* bound: posts that wait for the server                       *)

ASSUME NoPageAssumption == NoPage \notin Pages
ASSUME TimeAssumption == Day \in Nat /\ Timeout \in Nat /\ Timeout + 1 < Day
ASSUME PostsAssumption == MaxPosts \in Nat

VARIABLES
  clock,      (* the time of day                                             *)
  since,      (* (datetime.now() - g_last_ping).seconds: without whole days  *)
  at,         (* what each page shows: away, load and play (in control),     *)
              (* live, and the refresh dialog when the server said Timeout   *)
              (* (refused) or gave no answer (lost)                          *)
  quiet,      (* ticks since a page in control was heard, Timeout + 1 at most *)
  running,    (* playButton.running; ending: it polls no more                *)
  queue,      (* the posts that wait for the server                          *)
  busy,       (* the page whose /workload is being handled                   *)
  gWorkload,  (* the page that posted g_workload                             *)
  pool,       (* the page whose workload the pool was sent, if not paused    *)
  late,       (* pages whose workload is run by processes that were paused   *)
              (* before they had received it                                 *)
  overslept   (* history: a page in control was not heard for too long, and  *)
              (* there was always a page in control since                    *)

timeVars == <<clock, since>>
serverVars == <<queue, busy, gWorkload, pool, late>>
vars == <<timeVars, at, quiet, running, serverVars, overslept>>

Posts == [page : Pages, kind : {"workload", "pause"}]
Idle == busy = NoPage /\ queue = <<>>
Controls == {p \in Pages : at[p] \in {"load", "play"}}

SessionTypeOK ==
  /\ clock \in 0..(Day - 1) /\ since \in 0..(Day - 1)
  /\ at \in [Pages -> {"away", "load", "play", "live", "refused", "lost"}]
  /\ quiet \in [Pages -> 0..(Timeout + 1)]
  /\ running \in [Pages -> {"no", "yes", "ending"}]
  /\ queue \in Seq(Posts) /\ Len(queue) <= MaxPosts
  /\ {busy, gWorkload, pool} \subseteq Pages \cup {NoPage}
  /\ late \subseteq Pages
  /\ overslept \in BOOLEAN

(* VERY_LONG_AGO is a midnight.                                            *)
SessionInit ==
  /\ clock \in 0..(Day - 1) /\ since = clock
  /\ at = [p \in Pages |-> "away"]
  /\ quiet = [p \in Pages |-> 0]
  /\ running = [p \in Pages |-> "no"]
  /\ queue = <<>> /\ busy = NoPage
  /\ gWorkload = NoPage /\ pool = NoPage /\ late = {}
  /\ overslept = FALSE
-----------------------------------------------------------------------------
FreshStrict == since < Timeout
Fresh == since <= Timeout

(* Page p shows s from now on.                                             *)
Show(p, s) ==
  /\ at' = [at EXCEPT ![p] = s]
  /\ quiet' = [quiet EXCEPT ![p] = 0]
  /\ overslept' = (overslept /\ \E q \in Pages : at'[q] \in {"load", "play"})

TurnOn(c) == c + 1
Turn(c) == IF c = Day - 1 THEN 0 ELSE c + 1

Tick ==
  /\ clock' = Turn(clock)
  /\ since' = Turn(since)
  /\ quiet' = [p \in Pages |->
                 IF p \in Controls /\ quiet[p] <= Timeout THEN quiet[p] + 1 ELSE quiet[p]]
  /\ overslept' = (overslept \/ \E p \in Controls : quiet'[p] > Timeout)
  /\ UNCHANGED <<at, running, serverVars>>

(* GET /: control, or the live mode when somebody was heard of just now.   *)
Enter(p) ==
  /\ Idle /\ p \notin Controls
  /\ ~Fresh
  /\ since' = 0
  /\ Show(p, "load")
  /\ running' = [running EXCEPT ![p] = "no"]
  /\ UNCHANGED <<clock, serverVars>>

RedirectRenews(p) ==
  /\ Idle /\ p \notin Controls
  /\ Fresh
  /\ since' = 0
  /\ Show(p, "live")
  /\ running' = [running EXCEPT ![p] = "no"]
  /\ UNCHANGED <<clock, serverVars>>
Redirect(p) ==
  /\ Idle /\ p \notin Controls
  /\ Fresh
  /\ Show(p, "live")
  /\ running' = [running EXCEPT ![p] = "no"]
  /\ UNCHANGED <<timeVars, serverVars>>

(* WorkerPool.pause, if the pool is not paused: a process that had not     *)
(* received its workload will, and runs it.                                *)
Stop ==
  /\ pool' = NoPage
  /\ late' \in IF pool = NoPage THEN {late} ELSE SUBSET (late \cup {pool})

(* document ready: pings from now on, and a pause of whatever runs.        *)
ReadyQuietly(p) ==
  /\ Idle /\ at[p] = "load"
  /\ at' = [at EXCEPT ![p] = "play"]
  /\ UNCHANGED <<timeVars, quiet, running, serverVars, overslept>>
Ready(p) ==
  /\ Idle /\ at[p] = "load"
  /\ at' = [at EXCEPT ![p] = "play"]
  /\ Stop
  /\ UNCHANGED <<timeVars, quiet, running, queue, busy, gWorkload, overslept>>

(* /ping: the time is renewed only while it is fresh.                      *)
PingUnheard(p) ==
  /\ Idle /\ at[p] = "play"
  /\ Show(p, IF Fresh THEN "play" ELSE "refused")
  /\ UNCHANGED <<timeVars, running, serverVars>>
Ping(p) ==
  /\ Idle /\ at[p] = "play"
  /\ \/ Fresh /\ since' = 0 /\ Show(p, "play")
     \/ ~Fresh /\ since' = since /\ Show(p, "refused")
  /\ UNCHANGED <<clock, running, serverVars>>

PingLost(p) ==
  /\ at[p] = "play"
  /\ Show(p, "lost")
  /\ UNCHANGED <<timeVars, running, serverVars>>

(* /unload, which the page waits for, and a page that goes without it:     *)
(* not loaded, not in control, or its browser is gone.                     *)
Leave(p) ==
  /\ Idle /\ at[p] = "play"
  /\ since' = clock
  /\ Show(p, "away")
  /\ running' = [running EXCEPT ![p] = "no"]
  /\ UNCHANGED <<clock, serverVars>>

Vanish(p) ==
  /\ Show(p, "away")
  /\ running' = [running EXCEPT ![p] = "no"]
  /\ UNCHANGED <<timeVars, serverVars>>
-----------------------------------------------------------------------------
(* A click posts and waits for nothing: another may follow it at once.     *)
Post(p, k) ==
  /\ Len(queue) < MaxPosts
  /\ queue' = Append(queue, [page |-> p, kind |-> k])

Play(p) ==
  /\ at[p] = "play" /\ running[p] = "no"
  /\ Post(p, "workload")
  /\ UNCHANGED <<timeVars, at, quiet, running, busy, gWorkload, pool, late, overslept>>

Pause(p) ==
  /\ at[p] = "play" /\ running[p] # "no"
  /\ Post(p, "pause")
  /\ UNCHANGED <<timeVars, at, quiet, running, busy, gWorkload, pool, late, overslept>>

(* The answer sets running, unless it is lost, is no answer but an error   *)
(* of HTTP, or its page is gone.                                           *)
Answer(p, r) ==
  running' \in IF at[p] = "away" THEN {running} ELSE {running, [running EXCEPT ![p] = r]}

NextPost(k) == busy = NoPage /\ queue # <<>> /\ Head(queue).kind = k

(* submit_workload, its error answers and its success.  A refused one has  *)
(* replaced g_workload, and has stopped the pool if that was found dead or *)
(* failed to pause.  Processes that miss a pause for a new workload run    *)
(* the old one before it.                                                  *)
Submit ==
  /\ NextPost("workload")
  /\ busy' = Head(queue).page /\ gWorkload' = busy'
  /\ queue' = Tail(queue)
  /\ UNCHANGED <<timeVars, at, quiet, running, pool, late, overslept>>

Refuse ==
  /\ busy # NoPage
  /\ busy' = NoPage
  /\ Answer(busy, "no")
  /\ Stop \/ UNCHANGED <<pool, late>>
  /\ UNCHANGED <<timeVars, at, quiet, queue, gWorkload, overslept>>

Accept ==
  /\ busy # NoPage
  /\ busy' = NoPage
  /\ Answer(busy, "yes")
  /\ pool' = busy /\ late' \in SUBSET (late \cup ({pool} \ {NoPage}))
  /\ UNCHANGED <<timeVars, at, quiet, queue, gWorkload, overslept>>

HandlePause ==
  /\ NextPost("pause")
  /\ queue' = Tail(queue)
  /\ Stop
  /\ Answer(Head(queue).page, "no")
  /\ UNCHANGED <<timeVars, at, quiet, busy, gWorkload, overslept>>

(* /stats of a page that plays, when a process of the pool has died: all   *)
(* are ended, and the page asks for a pause and polls no more.             *)
PollFails(p) ==
  /\ Idle /\ running[p] = "yes"
  /\ pool' = NoPage /\ late' = {}
  /\ running' = [running EXCEPT ![p] = "ending"]
  /\ Post(p, "pause")
  /\ UNCHANGED <<timeVars, at, quiet, busy, gWorkload, overslept>>

SessionNext ==
  \/ Tick \/ Submit \/ Refuse \/ Accept \/ HandlePause
  \/ \E p \in Pages :
       \/ Enter(p) \/ Redirect(p) \/ Ready(p) \/ Leave(p) \/ Vanish(p)
       \/ Ping(p) \/ PingLost(p)
       \/ Play(p) \/ PollFails(p) \/ Pause(p)

(* Time goes by, requests are answered, and some user tries to get in.     *)
SessionFairness ==
  /\ WF_vars(Tick)
  /\ WF_vars(Submit \/ Refuse \/ Accept \/ HandlePause)
  /\ SF_vars(\E p \in Pages : Enter(p))

SessionSpec == SessionInit /\ [][SessionNext]_vars /\ SessionFairness
-----------------------------------------------------------------------------
(* templates/index.html 223, "you cannot run two simulations at once": two *)
(* pages are never in control, if the pages in control are heard in time.  *)
OneInControl == ~overslept => \A p, q \in Controls : p = q

(* A page that pings in time is never told that it was too late, whoever   *)
(* tries to get in, leaves or vanishes in between.                         *)
KeepsControl ==
  [][\A p \in Pages : at[p] = "play" /\ at'[p] = "refused" => overslept]_vars

(* The workload that the pool was sent and was not paused since is that of *)
(* the page in control, once that page is loaded, not what another left    *)
(* behind that vanished, with posts of it still waiting, or was refused;   *)
(* and while the button says PAUSE, /stats reports on a workload that this *)
(* page posted (server.py 230-265, 284-297, stress.js 226).                *)
(* (Other things may go on: processes that missed a pause, late; and with  *)
(* the button at PLAY the page's own run, when its second PLAY was refused *)
(* after the first was accepted, or an answer was lost.)                   *)
OwnRun ==
  ~overslept =>
    \A p \in Pages : at[p] = "play" =>
      /\ pool \in {p, NoPage}
      /\ running[p] = "yes" => gWorkload = p

(* A server that nobody is in control of is taken over again, after any    *)
(* unload, vanished page or refused ping, although .seconds drops the days *)
(* and an old time looks fresh at the same time of every day.              *)
Freed == Controls = {} ~> Controls # {}
-----------------------------------------------------------------------------
(* What the proofs add to make these inductive: the server's time is that  *)
(* of the page in control, and nobody else's workload waits to be handled. *)
Heard ==
  ~overslept => \A p \in Controls : quiet[p] <= Timeout /\ since = quiet[p]

Queued(p, k) == \E i \in 1..Len(queue) : queue[i] = [page |-> p, kind |-> k]
WaitsToRun(p) == busy = p \/ Queued(p, "workload")

Booked ==
  /\ \A p \in Pages : at[p] = "load" => running[p] = "no" /\ ~WaitsToRun(p)
  /\ busy # NoPage => gWorkload = busy
  /\ ~overslept => \A p \in Pages : WaitsToRun(p) => Controls \subseteq {p}

SessionInv ==
  SessionTypeOK /\ Heard /\ OneInControl /\ Booked /\ OwnRun
=============================================================================
