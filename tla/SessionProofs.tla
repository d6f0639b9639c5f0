--------------------------- MODULE SessionProofs ---------------------------
(* Theorems about the session, for any pages, day and time-out.            *)
EXTENDS Session, TLAPS

LEMMA Shown ==
  ASSUME SessionTypeOK, NEW p \in Pages,
         NEW s \in {"away", "load", "play", "live", "refused", "lost"}, Show(p, s)
  PROVE  /\ at' \in [Pages -> {"away", "load", "play", "live", "refused", "lost"}]
         /\ quiet' \in [Pages -> 0..(Timeout + 1)]
         /\ overslept' \in BOOLEAN
         /\ at'[p] = s /\ quiet'[p] = 0
         /\ \A q \in Pages \ {p} : at'[q] = at[q] /\ quiet'[q] = quiet[q]
         /\ overslept' => overslept
         /\ ~overslept' => ~overslept \/ \A q \in Pages : at'[q] \notin {"load", "play"}
  BY TimeAssumption DEF Show, SessionTypeOK

LEMMA TurnTyped ==
  ASSUME NEW c \in 0..(Day - 1)
  PROVE  /\ Turn(c) \in 0..(Day - 1)
         /\ c <= Timeout => Turn(c) = c + 1
  BY TimeAssumption DEF Turn

(* What a click adds to the queue, and what the server takes from it.      *)
LEMMA Posted ==
  ASSUME SessionTypeOK, NEW p \in Pages, NEW k \in {"workload", "pause"}, Post(p, k)
  PROVE  /\ queue' \in Seq(Posts) /\ Len(queue') <= MaxPosts
         /\ \A q \in Pages, j \in {"workload", "pause"} :
              Queued(q, j)' => Queued(q, j) \/ (q = p /\ j = k)
<1> DEFINE r == [page |-> p, kind |-> k]
<1>1. r \in Posts
  BY DEF Posts
<1>2. queue \in Seq(Posts) /\ queue' = Append(queue, r)
  BY DEF SessionTypeOK, Post
<1>3. /\ queue' \in Seq(Posts) /\ Len(queue') = Len(queue) + 1
      /\ \A i \in 1..Len(queue) : queue'[i] = queue[i]
      /\ queue'[Len(queue) + 1] = r
  BY <1>1, <1>2
<1>4. Len(queue) \in Nat /\ Len(queue) < MaxPosts
  BY <1>2 DEF Post
<1>5. ASSUME NEW q \in Pages, NEW j \in {"workload", "pause"}, Queued(q, j)'
      PROVE  Queued(q, j) \/ (q = p /\ j = k)
  <2>1. PICK i \in 1..Len(queue') : queue'[i] = [page |-> q, kind |-> j]
    BY <1>5 DEF Queued
  <2>2. CASE i \in 1..Len(queue)
    BY <1>3, <2>1, <2>2 DEF Queued
  <2>3. CASE i = Len(queue) + 1
    BY <1>3, <2>1, <2>3
  <2> QED
    BY <1>3, <1>4, <2>1, <2>2, <2>3
<1> QED
  BY <1>3, <1>4, <1>5, PostsAssumption

LEMMA Taken ==
  ASSUME SessionTypeOK, NEW k \in {"workload", "pause"}, NextPost(k), queue' = Tail(queue)
  PROVE  /\ Head(queue).page \in Pages /\ Queued(Head(queue).page, k)
         /\ queue' \in Seq(Posts) /\ Len(queue') <= MaxPosts
         /\ \A q \in Pages, j \in {"workload", "pause"} : Queued(q, j)' => Queued(q, j)
<1>1. queue \in Seq(Posts) /\ queue # <<>> /\ Len(queue) \in Nat \ {0} /\ Head(queue) = queue[1]
  BY DEF SessionTypeOK, NextPost
<1>2. queue[1] \in Posts /\ queue[1] = [page |-> Head(queue).page, kind |-> k]
  <2>1. 1 \in 1..Len(queue)
    BY <1>1
  <2>2. queue[1] \in Posts
    BY <1>1, <2>1
  <2>3. queue[1].kind = k /\ Head(queue).page = queue[1].page
    BY <1>1 DEF NextPost
  <2>4. queue[1] = [page |-> queue[1].page, kind |-> queue[1].kind]
    BY <2>2 DEF Posts
  <2> QED
    BY <2>2, <2>3, <2>4
<1>3. /\ queue' \in Seq(Posts) /\ Len(queue') = Len(queue) - 1
      /\ \A i \in 1..Len(queue') : queue'[i] = queue[i + 1]
  BY <1>1
<1>4. ASSUME NEW q \in Pages, NEW j \in {"workload", "pause"}, Queued(q, j)'
      PROVE  Queued(q, j)
  <2>1. PICK i \in 1..Len(queue') : queue'[i] = [page |-> q, kind |-> j]
    BY <1>4 DEF Queued
  <2>2. i + 1 \in 1..Len(queue)
    BY <1>1, <1>3, <2>1
  <2> QED
    BY <1>3, <2>1, <2>2 DEF Queued
<1>5. Len(queue') <= MaxPosts
  BY <1>1, <1>3, PostsAssumption DEF SessionTypeOK
<1> QED
  BY <1>1, <1>2, <1>3, <1>4, <1>5 DEF Queued, Posts

LEMMA NobodyWaits ==
  ASSUME Idle, NEW p \in Pages
  PROVE  ~WaitsToRun(p)
  BY NoPageAssumption DEF Idle, WaitsToRun, Queued

LEMMA InitHolds == SessionInit => SessionInv
<1> SUFFICES ASSUME SessionInit PROVE SessionInv
  OBVIOUS
<1>1. SessionTypeOK
  <2>1. 0 \in 0..(Timeout + 1)
    BY TimeAssumption
  <2>2. <<>> \in Seq(Posts) /\ Len(<<>>) = 0
    OBVIOUS
  <2>3. queue \in Seq(Posts) /\ Len(queue) <= MaxPosts
    BY <2>2, PostsAssumption DEF SessionInit
  <2>4. quiet \in [Pages -> 0..(Timeout + 1)]
    BY <2>1 DEF SessionInit
  <2> QED
    BY <2>3, <2>4 DEF SessionInit, SessionTypeOK
<1>2. \A p \in Pages : at[p] = "away"
  BY DEF SessionInit
<1>3. Controls = {}
  BY <1>2 DEF Controls
<1> QED
  BY <1>1, <1>2, <1>3
  DEF SessionInit, SessionInv, Heard, OneInControl, Booked, OwnRun, WaitsToRun, Queued

LEMMA TickHolds == SessionInv /\ Tick => SessionInv'
<1> SUFFICES ASSUME SessionInv, Tick PROVE SessionInv'
  OBVIOUS
<1> USE DEF SessionInv
<1>1. SessionTypeOK'
  <2>1. quiet' \in [Pages -> 0..(Timeout + 1)]
    BY TimeAssumption DEF Tick, SessionTypeOK
  <2>2. overslept' \in BOOLEAN
    BY DEF Tick, SessionTypeOK
  <2> QED
    BY <2>1, <2>2, TurnTyped DEF Tick, SessionTypeOK, serverVars
<1>2. Controls' = Controls
  BY DEF Tick, Controls
<1>3. ~overslept' => ~overslept /\ \A p \in Controls : quiet'[p] <= Timeout
  <2>1. \A p \in Pages : quiet'[p] \in Int
    BY <1>1, TimeAssumption DEF SessionTypeOK
  <2>2. ~overslept' => ~overslept /\ \A p \in Controls : ~(quiet'[p] > Timeout)
    BY DEF Tick
  <2>3. \A p \in Pages : ~(quiet'[p] > Timeout) => quiet'[p] <= Timeout
    BY <2>1, TimeAssumption
  <2> QED
    BY <2>2, <2>3 DEF Controls
<1>4. Heard'
  <2> SUFFICES ASSUME ~overslept', NEW p \in Controls
               PROVE  quiet'[p] <= Timeout /\ since' = quiet'[p]
    BY <1>2 DEF Heard
  <2>1. p \in Pages /\ quiet[p] <= Timeout /\ since = quiet[p]
    BY <1>3 DEF Heard, Controls
  <2>2. quiet'[p] = quiet[p] + 1
    BY <2>1 DEF Tick
  <2>3. since' = since + 1
    BY <2>1, TurnTyped DEF Tick, SessionTypeOK
  <2> QED
    BY <1>3, <2>1, <2>2, <2>3
<1> QED
  BY <1>1, <1>2, <1>3, <1>4 DEF Tick, serverVars, OneInControl, Booked, OwnRun, WaitsToRun, Queued

(* The steps by which one page changes what it shows.                      *)
LEMMA ShowHolds ==
  ASSUME SessionInv, NEW p \in Pages, NEW s \in {"away", "live", "refused", "lost"},
         Show(p, s), clock' = clock, since' \in 0..(Day - 1),
         running' \in {running, [running EXCEPT ![p] = "no"]},
         UNCHANGED serverVars,
         since' = since \/ p \in Controls
  PROVE  SessionInv'
<1> USE DEF SessionInv
<1>1. SessionTypeOK'
  BY Shown DEF SessionTypeOK, serverVars
<1>2. /\ Controls' = Controls \ {p}
      /\ \A q \in Controls' : quiet'[q] = quiet[q] /\ at'[q] = at[q] /\ running'[q] = running[q]
      /\ Controls' # {} => (overslept' <=> overslept)
  BY Shown DEF Controls, SessionTypeOK
<1>3. Controls' # {} /\ ~overslept => since' = since
  BY <1>2 DEF OneInControl
<1>4. Heard' /\ OneInControl'
  BY <1>2, <1>3 DEF Heard, OneInControl
<1>5. Booked'
  <2>1. \A q \in Pages : WaitsToRun(q)' <=> WaitsToRun(q)
    BY DEF WaitsToRun, Queued, serverVars
  <2>2. \A q \in Pages : at'[q] = "load" => at[q] = "load" /\ running'[q] = running[q]
    BY Shown DEF SessionTypeOK
  <2>3. Controls' \subseteq Controls /\ (Controls' # {} => (overslept' <=> overslept))
    BY <1>2
  <2> QED
    BY <2>1, <2>2, <2>3 DEF Booked, serverVars
<1> QED
  BY <1>1, <1>2, <1>4, <1>5 DEF OwnRun, Controls, serverVars

LEMMA EnterHolds ==
  ASSUME SessionInv, NEW p \in Pages, Enter(p) PROVE SessionInv'
<1> USE DEF SessionInv
<1>1. Show(p, "load")
  BY DEF Enter
<1>2. SessionTypeOK'
  BY <1>1, Shown, TimeAssumption DEF Enter, SessionTypeOK, serverVars
<1>3. ~overslept => Controls = {}
  BY DEF Enter, Heard, Fresh
<1>4. ~overslept' => ~overslept
  BY <1>1, Shown
<1>5. ~overslept' => Controls' = {p} /\ at'[p] = "load" /\ quiet'[p] = 0 /\ since' = 0
  BY <1>1, <1>3, <1>4, Shown DEF Enter, Controls
<1>6. Heard' /\ OneInControl'
  BY <1>5, TimeAssumption DEF Heard, OneInControl
<1>7. Booked'
  <2>1. \A q \in Pages : ~WaitsToRun(q)'
    BY NobodyWaits DEF Enter, WaitsToRun, Queued, serverVars
  <2>2. \A q \in Pages : at'[q] = "load" => running'[q] = "no"
    BY <1>1, Shown DEF Enter, Booked, SessionTypeOK
  <2> QED
    BY <2>1, <2>2 DEF Enter, Booked, Idle, serverVars
<1> QED
  BY <1>2, <1>5, <1>6, <1>7 DEF OwnRun, Controls

LEMMA StopTyped ==
  ASSUME SessionTypeOK, Stop
  PROVE  pool' = NoPage /\ late' \subseteq Pages
  BY DEF Stop, SessionTypeOK

LEMMA ReadyHolds ==
  ASSUME SessionInv, NEW p \in Pages, Ready(p) PROVE SessionInv'
<1> USE DEF SessionInv
<1>1. SessionTypeOK'
  BY StopTyped DEF Ready, SessionTypeOK, timeVars
<1>2. Controls' = Controls /\ p \in Controls
  BY DEF Ready, Controls, SessionTypeOK
<1>3. Heard' /\ OneInControl'
  BY <1>2 DEF Ready, Heard, OneInControl, timeVars
<1>4. \A q \in Pages : q # p => at'[q] = at[q]
  BY DEF Ready, SessionTypeOK
<1>5. running[p] = "no" /\ pool' = NoPage
  BY StopTyped DEF Ready, Booked
<1>6. Booked'
  <2>1. \A q \in Pages : WaitsToRun(q)' <=> WaitsToRun(q)
    BY DEF Ready, WaitsToRun, Queued
  <2>2. \A q \in Pages : at'[q] = "load" => at[q] = "load"
    BY <1>4 DEF Ready
  <2> QED
    BY <1>2, <2>1, <2>2 DEF Ready, Booked
<1> QED
  BY <1>1, <1>3, <1>4, <1>5, <1>6 DEF Ready, OwnRun, timeVars

LEMMA PingHolds ==
  ASSUME SessionInv, NEW p \in Pages, Ping(p) PROVE SessionInv'
<1> USE DEF SessionInv
<1>1. CASE Fresh /\ since' = 0 /\ Show(p, "play")
  <2>1. SessionTypeOK'
    BY <1>1, Shown, TimeAssumption DEF Ping, SessionTypeOK, serverVars
  <2>2. Controls' = Controls /\ p \in Controls /\ at' = at /\ (overslept' <=> overslept)
    <3>1. at[p] = "play" /\ at' = [at EXCEPT ![p] = "play"]
      BY <1>1 DEF Ping, Show
    <3>2. at' = at
      BY <3>1 DEF SessionTypeOK
    <3>3. overslept' <=> overslept
      BY <1>1, <3>1, <3>2 DEF Show
    <3> QED
      BY <3>1, <3>2, <3>3 DEF Controls
  <2>3. Heard'
    BY <1>1, <2>2, Shown, TimeAssumption DEF Heard, OneInControl
  <2> QED
    BY <2>1, <2>2, <2>3
    DEF Ping, OneInControl, Booked, OwnRun, WaitsToRun, Queued, serverVars
<1>2. CASE since' = since /\ Show(p, "refused")
  BY <1>2, ShowHolds DEF Ping, SessionTypeOK
<1> QED
  BY <1>1, <1>2 DEF Ping

(* The steps that leave pages and time alone: the clicks, ...              *)
LEMMA ClickHolds ==
  ASSUME SessionInv, NEW p \in Pages, Play(p) \/ Pause(p) \/ PollFails(p)
  PROVE  SessionInv'
<1> USE DEF SessionInv
<1>1. UNCHANGED <<timeVars, at, quiet, busy, gWorkload, overslept>> /\ Controls' = Controls
  BY DEF Play, Pause, PollFails, Controls
<1>2. /\ pool' \in {pool, NoPage} /\ late' \subseteq late
      /\ \A q \in Pages : running'[q] = running[q] \/ (running[q] = "yes" /\ running'[q] = "ending")
      /\ running' \in [Pages -> {"no", "yes", "ending"}]
  BY DEF Play, Pause, PollFails, SessionTypeOK
<1>3. PICK k \in {"workload", "pause"} : Post(p, k) /\ (k = "workload" => at[p] = "play")
  BY DEF Play, Pause, PollFails
<1>4. /\ queue' \in Seq(Posts) /\ Len(queue') <= MaxPosts
      /\ \A q \in Pages : WaitsToRun(q)' => WaitsToRun(q) \/ (q = p /\ at[p] = "play")
  BY <1>1, <1>3, Posted DEF WaitsToRun
<1>5. SessionTypeOK'
  BY <1>1, <1>2, <1>4 DEF SessionTypeOK, timeVars
<1>6. Heard' /\ OneInControl'
  BY <1>1 DEF Heard, OneInControl, timeVars
<1>7. ~overslept /\ at[p] = "play" => Controls \subseteq {p}
  BY DEF OneInControl, Controls
<1>8. Booked'
  BY <1>1, <1>2, <1>4, <1>7 DEF Booked
<1>9. OwnRun'
  BY <1>1, <1>2 DEF OwnRun
<1> QED
  BY <1>5, <1>6, <1>8, <1>9

(* ... and the server's, on a post.                                        *)
LEMMA AnswerTyped ==
  ASSUME SessionTypeOK, NEW p \in Pages, NEW r \in {"no", "yes"}, Answer(p, r)
  PROVE  /\ running' \in [Pages -> {"no", "yes", "ending"}]
         /\ \A q \in Pages : running'[q] = running[q] \/ (q = p /\ running'[q] = r)
<1>1. CASE running' = running
  BY <1>1 DEF SessionTypeOK
<1>2. CASE running' = [running EXCEPT ![p] = r]
  BY <1>2 DEF SessionTypeOK
<1> QED
  BY <1>1, <1>2 DEF Answer

LEMMA ServeHolds ==
  ASSUME SessionInv, Submit \/ Refuse \/ Accept \/ HandlePause
  PROVE  SessionInv'
<1> USE DEF SessionInv
<1>1. UNCHANGED <<timeVars, at, quiet, overslept>> /\ Controls' = Controls
  BY DEF Submit, Refuse, Accept, HandlePause, Controls
<1>2. Heard' /\ OneInControl'
  BY <1>1 DEF Heard, OneInControl, timeVars
<1>3. CASE Submit
  <2> DEFINE p == Head(queue).page
  <2>1. /\ p \in Pages /\ WaitsToRun(p) /\ busy' = p /\ gWorkload' = p
        /\ queue' \in Seq(Posts) /\ Len(queue') <= MaxPosts
        /\ \A q \in Pages : Queued(q, "workload")' => Queued(q, "workload")
    BY <1>3, Taken DEF Submit, WaitsToRun
  <2>2. \A q \in Pages : WaitsToRun(q)' => WaitsToRun(q)
    BY <2>1 DEF WaitsToRun
  <2>3. UNCHANGED <<running, pool, late>>
    BY <1>3 DEF Submit
  <2>4. SessionTypeOK'
    BY <1>1, <2>1, <2>3 DEF SessionTypeOK, timeVars
  <2>5. Booked'
    BY <1>1, <2>1, <2>2, <2>3 DEF Booked
  <2>6. ~overslept => \A q \in Pages : at[q] = "play" => q = p
    BY <2>1 DEF Booked, Controls
  <2>7. OwnRun'
    BY <1>1, <2>1, <2>3, <2>6 DEF OwnRun
  <2> QED
    BY <1>2, <2>4, <2>5, <2>7
<1>4. CASE Refuse \/ Accept
  <2>1. /\ busy \in Pages /\ WaitsToRun(busy) /\ gWorkload = busy
        /\ busy' = NoPage /\ UNCHANGED <<queue, gWorkload>>
    BY <1>4 DEF Refuse, Accept, Booked, WaitsToRun, SessionTypeOK
  <2>2. \A q \in Pages : WaitsToRun(q)' => WaitsToRun(q)
    BY <2>1, NoPageAssumption DEF WaitsToRun, Queued
  <2>3. /\ running' \in [Pages -> {"no", "yes", "ending"}]
        /\ \A q \in Pages : running'[q] = running[q] \/ q = busy
    BY <1>4, <2>1, AnswerTyped DEF Refuse, Accept
  <2>4. pool' \in {pool, NoPage, busy} /\ late' \subseteq Pages
    BY <1>4, StopTyped DEF Refuse, Accept, SessionTypeOK
  <2>5. SessionTypeOK'
    BY <1>1, <2>1, <2>3, <2>4 DEF SessionTypeOK, timeVars
  <2>6. at[busy] # "load"
    BY <2>1 DEF Booked
  <2>7. Booked'
    BY <1>1, <2>1, <2>2, <2>3, <2>6 DEF Booked
  <2>8. ~overslept => \A q \in Pages : at[q] = "play" => q = busy
    BY <2>1 DEF Booked, Controls
  <2>9. OwnRun'
    BY <1>1, <2>1, <2>4, <2>8 DEF OwnRun
  <2> QED
    BY <1>2, <2>5, <2>7, <2>9
<1>5. CASE HandlePause
  <2> DEFINE p == Head(queue).page
  <2>1. /\ p \in Pages /\ UNCHANGED <<busy, gWorkload>>
        /\ queue' \in Seq(Posts) /\ Len(queue') <= MaxPosts
        /\ \A q \in Pages : Queued(q, "workload")' => Queued(q, "workload")
    BY <1>5, Taken DEF HandlePause
  <2>2. \A q \in Pages : WaitsToRun(q)' => WaitsToRun(q)
    BY <2>1 DEF WaitsToRun
  <2>3. /\ running' \in [Pages -> {"no", "yes", "ending"}]
        /\ \A q \in Pages : running'[q] = running[q] \/ running'[q] = "no"
    BY <1>5, <2>1, AnswerTyped DEF HandlePause
  <2>4. pool' = NoPage /\ late' \subseteq Pages
    BY <1>5, StopTyped DEF HandlePause
  <2>5. SessionTypeOK'
    BY <1>1, <2>1, <2>3, <2>4 DEF SessionTypeOK, timeVars
  <2>6. Booked'
    BY <1>1, <2>1, <2>2, <2>3 DEF Booked
  <2>7. OwnRun'
    BY <1>1, <2>1, <2>3, <2>4 DEF OwnRun
  <2> QED
    BY <1>2, <2>5, <2>6, <2>7
<1> QED
  BY <1>3, <1>4, <1>5

LEMMA SessionStep == SessionInv /\ [SessionNext]_vars => SessionInv'
<1> SUFFICES ASSUME SessionInv, [SessionNext]_vars PROVE SessionInv'
  OBVIOUS
<1>1. CASE UNCHANGED vars
  BY <1>1 DEF vars, timeVars, serverVars, SessionInv, SessionTypeOK, Heard, OneInControl,
     Booked, OwnRun, Controls, WaitsToRun, Queued
<1>2. CASE Tick
  BY <1>2, TickHolds
<1>3. CASE Submit \/ Refuse \/ Accept \/ HandlePause
           \/ \E p \in Pages : Play(p) \/ PollFails(p) \/ Pause(p)
  BY <1>3, ClickHolds, ServeHolds
<1>4. ASSUME NEW p \in Pages, Enter(p) \/ Ready(p) \/ Ping(p) PROVE SessionInv'
  BY <1>4, EnterHolds, ReadyHolds, PingHolds
<1>5. ASSUME NEW p \in Pages, Redirect(p) \/ Leave(p) \/ Vanish(p) \/ PingLost(p)
      PROVE  SessionInv'
  <2>1. PICK s \in {"away", "live", "refused", "lost"} : Show(p, s)
    BY <1>5 DEF Redirect, Leave, Vanish, PingLost
  <2>2. clock' = clock /\ UNCHANGED serverVars
    BY <1>5 DEF Redirect, Leave, Vanish, PingLost, timeVars
  <2>3. running' \in {running, [running EXCEPT ![p] = "no"]}
    BY <1>5 DEF Redirect, Leave, Vanish, PingLost
  <2>4. since' \in 0..(Day - 1) /\ (since' = since \/ p \in Controls)
    BY <1>5 DEF Redirect, Leave, Vanish, PingLost, timeVars, Controls, SessionInv, SessionTypeOK
  <2> QED
    BY <2>1, <2>2, <2>3, <2>4, ShowHolds
<1> QED
  BY <1>1, <1>2, <1>3, <1>4, <1>5 DEF SessionNext

LEMMA SessionInvariant == SessionSpec => []SessionInv
  BY InitHolds, SessionStep, PTL DEF SessionSpec

(* The session is well typed.                                              *)
THEOREM SessionTyped == SessionSpec => []SessionTypeOK
  BY SessionInvariant, PTL DEF SessionInv

(* Two pages are never in control while those in control are heard in      *)
(* time (templates/index.html 223).                                        *)
THEOREM OnePage == SessionSpec => []OneInControl
  BY SessionInvariant, PTL DEF SessionInv

(* The run that the pool was sent is that of the page in control, and      *)
(* /stats reports on what this page posted.                                *)
THEOREM RunsItsOwn == SessionSpec => []OwnRun
  BY SessionInvariant, PTL DEF SessionInv

LEMMA RefusalIsDeserved ==
  ASSUME SessionInv, [SessionNext]_vars, NEW p \in Pages,
         at[p] = "play", at'[p] = "refused"
  PROVE  overslept
<1>1. SessionTypeOK /\ p \in Controls
  BY DEF SessionInv, Controls
<1>2. ASSUME NEW q \in Pages, NEW s \in {"away", "load", "play", "live", "lost"}, Show(q, s)
      PROVE  FALSE
  BY <1>1, <1>2, Shown
<1>3. PICK q \in Pages : ~Fresh /\ Show(q, "refused")
  BY <1>1, <1>2 DEF SessionNext, vars, Tick, Enter, Redirect, Ready, Ping, PingLost, Leave,
     Vanish, Submit, Refuse, Accept, HandlePause, Play, PollFails, Pause, SessionTypeOK
<1>4. since > Timeout
  BY <1>1, <1>3, TimeAssumption DEF Fresh, SessionTypeOK
<1>5. ~overslept => since <= Timeout
  BY <1>1 DEF SessionInv, Heard
<1> QED
  BY <1>1, <1>4, <1>5, TimeAssumption DEF SessionTypeOK

(* A page that pings in time keeps the control.                            *)
THEOREM ControlIsKept == SessionSpec => KeepsControl
<1>1. SessionInv /\ [SessionNext]_vars
        => [\A p \in Pages : at[p] = "play" /\ at'[p] = "refused" => overslept]_vars
  BY RefusalIsDeserved
<1> QED
  BY <1>1, SessionInvariant, PTL DEF SessionSpec, KeepsControl
=============================================================================
