-------------------------- MODULE WorkerPoolProofs --------------------------
(* Theorems about the worker pool, for any number of workers: no matter    *)
(* how the loops of the server, the signals and the deaths interleave.     *)
EXTENDS WorkerPool, SequenceTheorems, TLAPS

(* What a process that lives has said: nothing that was not received; not  *)
(* yet, or not yet heard, the answer to the last signal; not yet the first *)
(* answer of its life.                                                     *)
Quiet(i) == pc[i] \in {"sent", "recv", "run"} /\ outbox[i] = 0 /\ ~sigint[i]

Signalled(i) ==
  \/ pc[i] \in {"sent", "recv", "run"} /\ outbox[i] = 0 /\ sigint[i]
  \/ pc[i] \in {"caught", "ready"} /\ outbox[i] = 0 /\ ~sigint[i]
  \/ pc[i] \in {"sent", "recv", "run"} /\ outbox[i] = 1 /\ ~sigint[i]

New(i) ==
  /\ ~sigint[i] /\ inbox[i] = <<>>
  /\ \/ pc[i] \in {"start", "ready"} /\ outbox[i] = 0
     \/ pc[i] \in {"sent", "recv"} /\ outbox[i] = 1

(* What it has to do, if it read what it was sent before it was signalled. *)
Idle(i) == i \in late \/ (inbox[i] = <<>> /\ pc[i] # "run")
Busy(i) ==
  \/ i \in late
  \/ inbox[i] = <<sends>> /\ pc[i] \in {"sent", "recv"}
  \/ inbox[i] = <<>> /\ pc[i] = "run" /\ job[i] = sends

Settling(i) == Quiet(i) /\ Idle(i)
Pausing(i) ==
  Signalled(i) /\ IF sigint[i] THEN Idle(i) \/ Busy(i) ELSE Idle(i)

Place(i) ==
  /\ Settled => Quiet(i) /\ IF paused THEN Idle(i) ELSE Busy(i)
  /\ stage = "signal" =>
       IF i < at THEN Pausing(i) ELSE Quiet(i) /\ (Idle(i) \/ Busy(i))
  /\ stage \in {"sync", "wait"} => IF i < at THEN Settling(i) ELSE Pausing(i)
  /\ stage = "terminate" => at <= i /\ Settling(i)
  /\ stage = "send" => Quiet(i) /\ IF i < at THEN Busy(i) ELSE Idle(i)
  /\ stage = "launch" => i < at /\ Settling(i)
  /\ stage = "await" => i <= at /\ IF i < at THEN Settling(i) ELSE New(i)

Places == \A i \in Procs : IsAlive(i) => Place(i)

(* The server's own course.                                                *)
Pauses == {"signal", "sync", "wait", "terminate"}
Course ==
  /\ at \in Procs
  /\ stage \in {"rest", "renew", "check", "validate"} => at = 0
  /\ stage \in Pauses => paused
  /\ ~made => /\ stage \in {"rest", "launch", "await"}
              /\ stage = "rest" => \A i \in Procs : ~IsAlive(i)
  /\ stage = "renew" => after = "send"
  /\ stage = "send" /\ at > 0 => sends > 0
  /\ \/ stage \in {"renew", "launch", "await", "validate"}
     \/ stage = "send" /\ at = 0
     \/ stage \in {"check"} \cup Pauses /\ after \in {"send", "launch"}
     => sends < MaxSends

RatesInv ==
  rates => \/ pc[StatProc] \in {"run", "caught"}
           \/ pc[StatProc] = "dead" /\ StatProc \in late

PoolInv == PoolTypeOK /\ Places /\ Course /\ RatesInv

LEMMA PoolInitHolds == PoolInit => PoolInv
<1> SUFFICES ASSUME PoolInit PROVE PoolInv
  OBVIOUS
<1>1. PoolTypeOK
  BY SizeAssumption, SMTT(30) DEF PoolInit, PoolTypeOK, Procs
<1>2. \A i \in Procs : ~IsAlive(i)
  BY DEF PoolInit, IsAlive
<1> QED
  BY <1>1, <1>2, SizeAssumption
  DEF PoolInit, PoolInv, Places, Course, RatesInv, Procs, Pauses

(* A process that a step leaves alone.                                     *)
LEMMA Untouched ==
  ASSUME Places, NEW j \in Procs,
         UNCHANGED <<paused, stage, at, sends>>,
         UNCHANGED <<pc[j], sigint[j], inbox[j], outbox[j], job[j]>>,
         j \in late <=> j \in late'
  PROVE  IsAlive(j)' => Place(j)'
<1>1. IsAlive(j)' => Place(j)
  BY DEF Places, IsAlive
<1> QED
  BY <1>1 DEF Place, Settled, Quiet, Idle, Busy, Settling, Pausing, Signalled, New

(* The steps of a process.                                                 *)
LEMMA ProcessHolds ==
  ASSUME PoolInv, NEW i \in Procs, Process(i) \/ Die(i)
  PROVE  PoolInv'
<1> USE DEF PoolInv
<1>1. UNCHANGED serverVars /\ IsAlive(i) /\ Place(i)
  BY DEF Process, Connect, SendReady, EnterTry, Receive, Interrupted, Recover, Die, Move,
     Places, IsAlive
<1>2. PoolTypeOK'
  <2>1. CASE \E s \in {"dead", "ready", "recv"} : pc' = [pc EXCEPT ![i] = s]
             /\ UNCHANGED <<serverVars, pipeVars, sigint, job, rates, late>>
    BY <2>1 DEF PoolTypeOK, serverVars, pipeVars
  <2>6. CASE Connect(i) \/ EnterTry(i) \/ Die(i)
    BY <2>1, <2>6 DEF Connect, EnterTry, Die, Move
  <2>2. CASE SendReady(i)
    <3>1. outbox[i] = 0
      BY <1>1, <2>2 DEF SendReady, Move, Place, Settled, Quiet, Settling, Pausing,
         Signalled, New, PoolTypeOK
    <3> QED
      BY <2>2, <3>1 DEF SendReady, Move, PoolTypeOK, serverVars
  <2>3. CASE Receive(i)
    <3>1. inbox[i] \in Seq(1..MaxSends) /\ inbox[i] # <<>>
      BY <2>3 DEF Receive, PoolTypeOK
    <3>2. Head(inbox[i]) \in 1..MaxSends /\ Tail(inbox[i]) \in Seq(1..MaxSends)
      BY <3>1, HeadTailProperties
    <3> QED
      BY <2>3, <3>2, SizeAssumption DEF Receive, Move, PoolTypeOK, serverVars
  <2>4. CASE Interrupted(i)
    BY <2>4 DEF Interrupted, PoolTypeOK, serverVars, pipeVars
  <2>5. CASE Recover(i)
    BY <2>5, SizeAssumption DEF Recover, Move, PoolTypeOK, serverVars, pipeVars
  <2> QED
    BY <2>2, <2>3, <2>4, <2>5, <2>6 DEF Process
<1>3. /\ \A j \in Procs \ {i} :
           /\ UNCHANGED <<pc[j], sigint[j], inbox[j], outbox[j], job[j]>>
           /\ j \in late <=> j \in late'
  BY DEF Process, Connect, SendReady, EnterTry, Receive, Interrupted, Recover, Die, Move,
     PoolTypeOK, pipeVars
<1>4. IsAlive(i)' => Place(i)'
  <2> USE DEF Place, Settled, Settling, Pausing, Signalled, Quiet, Idle, Busy, New
  <2>1. CASE Connect(i)
    BY <1>1, <2>1 DEF Connect, Move, PoolTypeOK, serverVars, pipeVars
  <2>2. CASE SendReady(i)
    BY <1>1, <2>2 DEF SendReady, Move, PoolTypeOK, serverVars
  <2>3. CASE EnterTry(i)
    BY <1>1, <2>3 DEF EnterTry, Move, PoolTypeOK, serverVars, pipeVars
  <2>4. CASE Receive(i)
    BY <1>1, <2>4 DEF Receive, Move, PoolTypeOK, serverVars
  <2>5. CASE Interrupted(i)
    BY <1>1, <2>5 DEF Interrupted, PoolTypeOK, serverVars, pipeVars, IsAlive
  <2>6. CASE Recover(i)
    BY <1>1, <2>6 DEF Recover, Move, PoolTypeOK, serverVars, pipeVars
  <2>7. CASE Die(i)
    BY <2>7 DEF Die, PoolTypeOK, IsAlive
  <2> QED
    BY <2>1, <2>2, <2>3, <2>4, <2>5, <2>6, <2>7 DEF Process
<1>5. Places'
  BY <1>1, <1>3, <1>4, Untouched DEF Places, Procs, serverVars
<1>6. Course'
  BY <1>1, <1>3 DEF Course, serverVars, IsAlive, Procs
<1>7. RatesInv'
  <2>1. CASE i # StatProc
    <3>1. StatProc \in Procs \ {i}
      BY <2>1, SizeAssumption DEF Procs, StatProc
    <3>2. rates' => rates
      BY DEF Process, Connect, SendReady, EnterTry, Receive, Interrupted, Recover, Die
    <3> QED
      BY <1>3, <3>1, <3>2 DEF RatesInv
  <2>2. CASE i = StatProc /\ ~rates'
    BY <2>2 DEF RatesInv
  <2>3. CASE i = StatProc /\ rates'
    <3>1. rates /\ ~Recover(i) /\ ~Die(i)
      BY <2>3 DEF Process, Connect, SendReady, EnterTry, Receive, Interrupted, Recover, Die
    <3>2. pc[i] \in {"run", "caught"}
      BY <1>1, <2>3, <3>1 DEF RatesInv, IsAlive
    <3>3. Interrupted(i)
      BY <3>1, <3>2 DEF Process, Connect, SendReady, EnterTry, Receive, Move
    <3>4. pc[i] = "run"
      BY <1>1, <3>2, <3>3 DEF Interrupted, Place, Settled, Settling, Pausing, Signalled, Quiet,
         New, PoolTypeOK
    <3>5. pc'[i] = "caught"
      BY <3>3, <3>4 DEF Interrupted, PoolTypeOK
    <3> QED
      BY <2>3, <3>5 DEF RatesInv
  <2> QED
    BY <2>1, <2>2, <2>3
<1> QED
  BY <1>2, <1>5, <1>6, <1>7

LEMMA StatPollsHolds ==
  ASSUME PoolInv, StatPolls PROVE PoolInv'
<1> USE DEF PoolInv, StatPolls
<1>1. PoolTypeOK' /\ Course' /\ RatesInv'
  BY DEF PoolTypeOK, Course, RatesInv, serverVars, pipeVars, IsAlive
<1>2. Places'
  BY Untouched DEF Places, serverVars, pipeVars
<1> QED
  BY <1>1, <1>2

(* The steps of the server that leave the processes alone.                 *)
LEMMA RequestHolds ==
  ASSUME PoolInv, WorkloadArrives \/ PauseArrives \/ StatsArrives \/ KillArrives
  PROVE  PoolInv'
<1> USE DEF PoolInv
<1>1. stage = "rest" /\ at = 0 /\ UNCHANGED <<made, sends, pipeVars, procVars, late>>
  BY DEF WorkloadArrives, PauseArrives, StatsArrives, KillArrives, Request, Pause, Course
<1>2. /\ at' = 0 /\ paused' \in BOOLEAN /\ success' \in BOOLEAN
      /\ \/ ~made /\ stage' = "launch" /\ after' = "send" /\ sends < MaxSends
         \/ made /\ stage' = "renew" /\ after' = "send" /\ sends < MaxSends /\ paused' = paused
         \/ made /\ stage' = "check" /\ after' \in {"pause", "answer"} /\ paused' = paused
         \/ made /\ stage' = "signal" /\ after' = "fail" /\ paused'
  BY DEF WorkloadArrives, PauseArrives, StatsArrives, KillArrives, Request, Pause, Goto,
     PoolTypeOK
<1>3. PoolTypeOK'
  BY <1>1, <1>2 DEF PoolTypeOK, pipeVars, procVars, Procs
<1>4. Course' /\ RatesInv'
  BY <1>1, <1>2, SizeAssumption DEF Course, RatesInv, procVars, IsAlive, Pauses, Procs
<1>5. ASSUME NEW i \in Procs, IsAlive(i)' PROVE Place(i)'
  <2>1. IsAlive(i) /\ Place(i) /\ made
    BY <1>1, <1>5 DEF Places, IsAlive, Course, procVars
  <2> QED
    BY <1>1, <1>2, <2>1 DEF Place, Settled, Quiet, Idle, Busy, Procs, pipeVars, procVars
<1> QED
  BY <1>3, <1>4, <1>5 DEF Places

LEMMA CalmHolds ==
  ASSUME PoolInv, stage \in {"renew", "check", "validate"}, Step,
         \/ Goto("rest", 0)
         \/ Goto("check", 0) /\ stage = "renew"
         \/ Goto("validate", 0) /\ stage = "check" /\ after = "send"
  PROVE  PoolInv'
<1> USE DEF PoolInv, Step, Goto
<1>1. PoolTypeOK' /\ RatesInv'
  BY SizeAssumption DEF PoolTypeOK, RatesInv, pipeVars, procVars
<1>2. Course'
  BY DEF Course, Pauses, IsAlive, procVars
<1>3. ASSUME NEW i \in Procs, IsAlive(i)' PROVE Place(i)'
  <2>1. Place(i)
    BY <1>3 DEF Places, IsAlive, procVars
  <2> QED
    BY <2>1 DEF Place, Settled, Quiet, Idle, Busy, pipeVars, procVars
<1> QED
  BY <1>1, <1>2, <1>3 DEF Places

LEMMA PauseHolds ==
  ASSUME PoolInv, stage \in {"renew", "check", "validate"},
         NEW next \in {"launch", "send", "fail", "answer"}, Pause(next),
         next \in {"launch", "send"} => sends < MaxSends
  PROVE  PoolInv'
<1> USE DEF PoolInv, Pause, Goto
<1>1. PoolTypeOK' /\ RatesInv'
  BY SizeAssumption DEF PoolTypeOK, RatesInv, pipeVars, procVars
<1>2. Course'
  BY DEF Course, Pauses, IsAlive, procVars
<1>3. ASSUME NEW i \in Procs, IsAlive(i)' PROVE Place(i)'
  <2>1. Place(i)
    BY <1>3 DEF Places, IsAlive, procVars
  <2> QED
    BY <2>1 DEF Place, Settled, Quiet, Idle, Busy, Procs, pipeVars, procVars
<1> QED
  BY <1>1, <1>2, <1>3 DEF Places

LEMMA DecisionHolds ==
  ASSUME PoolInv, Renew \/ Check \/ Validate PROVE PoolInv'
<1>1. Course
  BY DEF PoolInv
<1>2. CASE Renew
  BY <1>1, <1>2, CalmHolds, PauseHolds DEF Renew, Course
<1>3. CASE Check
  BY <1>3, CalmHolds, PauseHolds DEF Check
<1>4. CASE Validate
  BY <1>1, <1>4, CalmHolds, PauseHolds DEF Validate, Course
<1> QED
  BY <1>2, <1>3, <1>4

(* Continue, in the loops of the server.                                   *)
LEMMA Continued ==
  ASSUME at \in Procs, NEW loop, NEW s, Continue(loop, s)
  PROVE  /\ at' \in Procs
         /\ \/ stage' = loop /\ at' = at + 1
            \/ stage' = s /\ at' = 0 /\ at = NWorkers
         /\ \A i \in Procs : i <= NWorkers
  BY SizeAssumption DEF Continue, Goto, Procs

LEMMA SignalHolds == ASSUME PoolInv, Signal PROVE PoolInv'
<1> USE DEF PoolInv
<1>1. at \in Procs /\ stage = "signal" /\ paused
  BY DEF Signal, Course, Pauses
<1>2. /\ at' \in Procs
      /\ \/ stage' = "signal" /\ at' = at + 1
         \/ stage' = "sync" /\ at' = 0 /\ at = NWorkers
      /\ \A i \in Procs : i <= NWorkers
  BY <1>1, Continued DEF Signal
<1>3. PoolTypeOK' /\ RatesInv'
  <2>1. sigint' \in [Procs -> BOOLEAN]
    BY DEF Signal, PoolTypeOK, IsAlive
  <2>2. at' \in 0..(NWorkers + 1)
    BY <1>2, SizeAssumption DEF Procs
  <2> QED
    BY <1>2, <2>1, <2>2 DEF Signal, PoolTypeOK, RatesInv, pipeVars
<1>4. Course'
  BY <1>1, <1>2 DEF Signal, Course, Pauses, IsAlive
<1>5. ASSUME NEW i \in Procs, IsAlive(i)' PROVE Place(i)'
  <2>1. IsAlive(i) /\ Place(i)
    BY <1>5 DEF Places, IsAlive, Signal
  <2>2. CASE i = at
    <3>1. sigint'[i]
      BY <2>1, <2>2 DEF Signal, PoolTypeOK
    <3>2. ~(i < at)
      BY <1>1, <2>2 DEF Procs
    <3>3. Quiet(i) /\ (Idle(i) \/ Busy(i))
      BY <1>1, <2>1, <3>2 DEF Place
    <3>4. Pausing(i)'
      BY <3>1, <3>3 DEF Signal, Quiet, Idle, Busy, Pausing, Signalled, pipeVars
    <3> QED
      BY <1>1, <1>2, <2>2, <3>4 DEF Place, Settled, Procs
  <2>3. CASE i # at
    <3>1. sigint'[i] = sigint[i]
      BY <2>3 DEF Signal, PoolTypeOK
    <3> QED
      BY <1>1, <1>2, <2>1, <2>3, <3>1 DEF Signal, Place, Settled, Quiet, Idle, Busy, Pausing,
         Signalled, Procs, pipeVars
  <2> QED
    BY <2>2, <2>3
<1> QED
  BY <1>3, <1>4, <1>5 DEF Places

(* _sync has heard the process that its loop has got to, or that is dead.  *)
LEMMA SyncedHolds ==
  ASSUME PoolInv, stage \in {"sync", "wait"}, SyncNext,
         success' \in BOOLEAN,
         UNCHANGED <<made, paused, sends, after, inbox, procVars, late>>,
         \/ ~IsAlive(at) /\ UNCHANGED outbox
         \/ outbox[at] > 0 /\ outbox' = [outbox EXCEPT ![at] = @ - 1]
  PROVE  PoolInv'
<1> USE DEF PoolInv, procVars
<1>1. at \in Procs /\ paused /\ after \in {"launch", "send", "pause", "fail", "answer"}
  BY DEF Course, Pauses, PoolTypeOK
<1>2. /\ at' \in Procs
      /\ \/ stage' = "sync" /\ at' = at + 1
         \/ stage' = AfterPause /\ at' = 0 /\ at = NWorkers
      /\ \A i \in Procs : i <= NWorkers
  BY <1>1, Continued DEF SyncNext
<1>3. \/ stage' = "sync" /\ at' = at + 1
      \/ /\ at' = 0 /\ at = NWorkers
         /\ \/ stage' = "terminate"
            \/ stage' = "send" /\ after = "send"
            \/ stage' = "rest"
  BY <1>1, <1>2 DEF AfterPause
<1>4. PoolTypeOK' /\ RatesInv'
  <2>1. outbox' \in [Procs -> 0..1]
    BY <1>1 DEF PoolTypeOK
  <2>2. at' \in 0..(NWorkers + 1)
    BY <1>2, SizeAssumption DEF Procs
  <2> QED
    BY <1>3, <2>1, <2>2 DEF PoolTypeOK, RatesInv
<1>5. Course'
  BY <1>1, <1>2, <1>3 DEF Course, Pauses, IsAlive
<1>6. ASSUME NEW i \in Procs, IsAlive(i)' PROVE Place(i)'
  <2>1. IsAlive(i) /\ Place(i)
    BY <1>6 DEF Places, IsAlive
  <2>2. CASE i = at
    <3>1. Pausing(i) /\ outbox[i] > 0 /\ outbox' = [outbox EXCEPT ![i] = @ - 1]
      BY <1>1, <2>1, <2>2 DEF Place, Procs
    <3>2. outbox'[i] = 0 /\ outbox[i] = 1 /\ ~sigint[i] /\ pc[i] \in {"sent", "recv", "run"}
      BY <3>1 DEF Pausing, Signalled, PoolTypeOK
    <3>3. Idle(i)' /\ Quiet(i)'
      BY <3>1, <3>2 DEF Pausing, Idle, Quiet
    <3> QED
      BY <1>1, <1>2, <1>3, <2>2, <3>3 DEF Place, Settled, Settling, Procs
  <2>3. CASE i # at
    <3>1. outbox'[i] = outbox[i]
      BY <2>3 DEF PoolTypeOK
    <3>2. /\ Settling(i) => Settling(i)'
          /\ Pausing(i) => Pausing(i)'
      BY <3>1 DEF Settling, Pausing, Signalled, Quiet, Idle, Busy
    <3>3. IF i < at THEN Settling(i) ELSE Pausing(i)
      BY <2>1 DEF Place
    <3> QED
      BY <1>1, <1>2, <1>3, <2>3, <3>2, <3>3 DEF Place, Settled, Settling, Procs
  <2> QED
    BY <2>2, <2>3
<1> QED
  BY <1>4, <1>5, <1>6 DEF Places

LEMMA SyncHolds == ASSUME PoolInv, Sync \/ Wait PROVE PoolInv'
<1>1. at \in Procs /\ success \in BOOLEAN
  BY DEF PoolInv, Course, PoolTypeOK
<1>2. CASE Sync /\ Goto("wait", at)
  <2> USE <1>1, <1>2 DEF PoolInv, Sync, Goto, procVars
  <2>1. stage = "sync" /\ UNCHANGED <<made, paused, sends, after, inbox, outbox, procVars, late>>
    BY DEF SyncNext, Continue, AfterPause
  <2>2. success' = success
    BY DEF SyncNext
  <2>3. PoolTypeOK' /\ RatesInv' /\ Course'
    BY <2>1, <2>2, SizeAssumption DEF PoolTypeOK, RatesInv, Course, Pauses, IsAlive, Procs
  <2>4. ASSUME NEW i \in Procs, IsAlive(i)' PROVE Place(i)'
    BY <2>1, <2>4 DEF Places, Place, IsAlive, Settled, Settling, Pausing, Signalled, Quiet, Idle, Busy
  <2> QED
    BY <2>3, <2>4 DEF Places
<1>3. CASE Sync /\ ~Goto("wait", at)
  BY <1>1, <1>3, SyncedHolds DEF Sync
<1>4. CASE Wait
  BY <1>1, <1>4, SyncedHolds DEF Wait
<1> QED
  BY <1>2, <1>3, <1>4

LEMMA TerminateHolds == ASSUME PoolInv, Terminate PROVE PoolInv'
<1> USE DEF PoolInv, Terminate
<1>1. at \in Procs /\ stage = "terminate" /\ paused
  BY DEF Course, Pauses
<1>2. /\ at' \in Procs
      /\ \/ stage' = "terminate" /\ at' = at + 1
         \/ /\ at' = 0 /\ at = NWorkers
            /\ \/ stage' = "launch" /\ after = "launch"
               \/ stage' = "rest"
      /\ \A i \in Procs : i <= NWorkers
  BY <1>1, Continued
<1>3. PoolTypeOK'
  <2>1. at' \in 0..(NWorkers + 1)
    BY <1>2, SizeAssumption DEF Procs
  <2>2. pc' \in [Procs -> {"dead", "start", "ready", "sent", "recv", "run", "caught"}]
    BY DEF PoolTypeOK
  <2> QED
    BY <1>2, <2>1, <2>2 DEF PoolTypeOK, pipeVars
<1>4. RatesInv'
  <2>1. CASE at = StatProc /\ rates
    <3>1. pc[at] \in {"sent", "recv"} \/ at \in late
      BY <1>1, <2>1 DEF RatesInv, Places, Place, Settling, Quiet, Idle, IsAlive
    <3> QED
      BY <1>1, <2>1, <3>1 DEF RatesInv, PoolTypeOK
  <2>2. CASE at # StatProc \/ ~rates
    BY <1>1, <2>2 DEF RatesInv, PoolTypeOK
  <2> QED
    BY <2>1, <2>2
<1>5. ASSUME NEW i \in Procs, IsAlive(i)' PROVE Place(i)' /\ at' = at + 1
  <2>1. i # at /\ IsAlive(i)
    BY <1>1, <1>5 DEF IsAlive, PoolTypeOK
  <2>2. at <= i /\ Settling(i)
    BY <1>1, <2>1 DEF Places, Place
  <2>3. at + 1 <= i /\ at # NWorkers
    BY <1>1, <1>2, <2>1, <2>2, SizeAssumption DEF Procs
  <2>4. Settling(i)'
    BY <2>1, <2>2 DEF Settling, Quiet, Idle, PoolTypeOK, pipeVars
  <2> QED
    BY <1>2, <2>3, <2>4 DEF Place, Settled
<1>6. Course'
  BY <1>1, <1>2, SizeAssumption DEF Course, Pauses, Procs
<1> QED
  BY <1>3, <1>4, <1>5, <1>6 DEF Places

LEMMA SendHolds == ASSUME PoolInv, Send PROVE PoolInv'
<1> USE DEF PoolInv, Send
<1>1. at \in Procs /\ stage = "send" /\ sends \in 0..MaxSends
  BY DEF Course, PoolTypeOK
<1>2. /\ at' \in Procs
      /\ \/ stage' = "send" /\ at' = at + 1
         \/ stage' = "rest" /\ at' = 0 /\ at = NWorkers
      /\ \A i \in Procs : i <= NWorkers
  BY <1>1, Continued
<1>3. sends' \in 1..MaxSends /\ (at > 0 => sends' = sends)
  BY <1>1, SizeAssumption DEF Course, Procs
<1>4. inbox' = IF IsAlive(at) THEN [inbox EXCEPT ![at] = Append(@, sends')] ELSE inbox
  OBVIOUS
<1>5. PoolTypeOK' /\ RatesInv'
  <2>1. inbox[at] \in Seq(1..MaxSends) => Append(inbox[at], sends') \in Seq(1..MaxSends)
    BY <1>3, AppendProperties
  <2>2. inbox' \in [Procs -> Seq(1..MaxSends)]
    BY <1>1, <1>4, <2>1 DEF PoolTypeOK
  <2>3. at' \in 0..(NWorkers + 1) /\ sends' \in 0..MaxSends
    BY <1>2, <1>3, SizeAssumption DEF Procs
  <2> QED
    BY <1>2, <2>2, <2>3 DEF PoolTypeOK, RatesInv, procVars
<1>6. Course'
  BY <1>1, <1>2, <1>3, SizeAssumption DEF Course, Pauses, Procs
<1>7. ASSUME NEW i \in Procs, IsAlive(i)' PROVE Place(i)'
  <2>1. IsAlive(i) /\ Place(i)
    BY <1>7 DEF Places, IsAlive, procVars
  <2>2. CASE i = at
    <3>1. Quiet(i) /\ Idle(i) /\ inbox'[i] = Append(inbox[i], sends')
      BY <1>1, <1>4, <2>1, <2>2 DEF Place, PoolTypeOK, Procs
    <3>2. Append(<<>>, sends') = <<sends'>>
      OBVIOUS
    <3>3. Quiet(i)'
      BY <3>1 DEF Quiet, procVars
    <3>4. Busy(i)'
      BY <3>1, <3>2 DEF Quiet, Idle, Busy, procVars
    <3> QED
      BY <1>1, <1>2, <2>2, <3>3, <3>4 DEF Place, Settled, Procs
  <2>3. CASE i # at
    <3>1. inbox'[i] = inbox[i]
      BY <1>4, <2>3 DEF PoolTypeOK
    <3>2. Quiet(i) /\ IF i < at THEN Busy(i) ELSE Idle(i)
      BY <1>1, <2>1 DEF Place
    <3>3. Quiet(i)'
      BY <3>2 DEF Quiet, procVars
    <3>4. CASE i < at
      <4>1. sends' = sends
        BY <1>1, <1>3, <3>4 DEF Procs
      <4>2. Busy(i)'
        BY <3>1, <3>2, <3>4, <4>1 DEF Busy, procVars
      <4> QED
        BY <1>1, <1>2, <3>3, <3>4, <4>2 DEF Place, Settled, Procs
    <3>5. CASE ~(i < at)
      <4>1. Idle(i)'
        BY <3>1, <3>2, <3>5 DEF Idle, procVars
      <4> QED
        BY <1>1, <1>2, <2>3, <3>3, <3>5, <4>1 DEF Place, Settled, Procs
    <3> QED
      BY <3>4, <3>5
  <2> QED
    BY <2>2, <2>3
<1> QED
  BY <1>5, <1>6, <1>7 DEF Places

LEMMA Emptied ==
  ASSUME NEW f \in [Procs -> 0..1], NEW i
  PROVE  [f EXCEPT ![i] = 0] \in [Procs -> 0..1]
<1> DEFINE g == [j \in Procs |-> IF j = i THEN 0 ELSE f[j]]
<1>1. 0 \in 0..1
  OBVIOUS
<1>2. [f EXCEPT ![i] = 0] = g
  OBVIOUS
<1>3. g \in [Procs -> 0..1]
  BY <1>1, Zenon
<1> QED
  BY <1>2, <1>3

LEMMA LaunchHolds == ASSUME PoolInv, Launch PROVE PoolInv'
<1> USE DEF PoolInv, Launch, Goto
<1>1. at \in Procs /\ stage = "launch" /\ stage' = "await" /\ at' = at
  BY DEF Course
<1>2. PoolTypeOK' /\ RatesInv'
  <2>1. <<>> \in Seq(1..MaxSends) /\ 0 \in 0..MaxSends
    BY SizeAssumption
  <2>2. inbox' \in [Procs -> Seq(1..MaxSends)]
    BY <2>1 DEF PoolTypeOK
  <2>3. job' \in [Procs -> 0..MaxSends]
    BY <2>1 DEF PoolTypeOK
  <2>4. outbox' \in [Procs -> 0..1]
    BY Emptied DEF PoolTypeOK
  <2>5. pc' \in [Procs -> {"dead", "start", "ready", "sent", "recv", "run", "caught"}]
        /\ sigint' \in [Procs -> BOOLEAN]
    BY DEF PoolTypeOK
  <2> QED
    BY <1>1, <2>2, <2>3, <2>5, <2>4 DEF PoolTypeOK, RatesInv
<1>3. Course'
  BY <1>1 DEF Course, Pauses
<1>4. ASSUME NEW i \in Procs, IsAlive(i)' PROVE Place(i)'
  <2>1. CASE i = at
    BY <1>1, <2>1 DEF Place, Settled, New, PoolTypeOK, Procs
  <2>2. CASE i # at
    <3>1. IsAlive(i) /\ i < at /\ Settling(i)
      BY <1>1, <1>4, <2>2 DEF Places, Place, IsAlive, PoolTypeOK
    <3>2. Settling(i)'
      BY <2>2, <3>1 DEF Settling, Quiet, Idle, PoolTypeOK
    <3> QED
      BY <1>1, <3>1, <3>2 DEF Place, Settled, Procs
  <2> QED
    BY <2>1, <2>2
<1> QED
  BY <1>2, <1>3, <1>4 DEF Places

LEMMA LaunchedHolds == ASSUME PoolInv, Launched PROVE PoolInv'
<1> USE DEF PoolInv, Launched
<1>1. at \in Procs /\ stage = "await"
  BY DEF Course
<1>2. /\ at' \in Procs
      /\ \/ stage' = "launch" /\ at' = at + 1
         \/ stage' = "check" /\ at' = 0 /\ at = NWorkers
      /\ \A i \in Procs : i <= NWorkers
  BY <1>1, Continued
<1>3. stage' = "check" => made' /\ paused'
  BY <1>2, SizeAssumption DEF Procs
<1>4. PoolTypeOK' /\ RatesInv'
  <2>1. at' \in 0..(NWorkers + 1)
    BY <1>2, SizeAssumption DEF Procs
  <2>2. (made' \in BOOLEAN) /\ (paused' \in BOOLEAN)
    BY DEF PoolTypeOK
  <2>3. outbox' \in [Procs -> 0..1]
    BY Emptied DEF PoolTypeOK
  <2>4. after' = "send" /\ UNCHANGED <<sends, success, inbox, procVars, late>>
    OBVIOUS
  <2> HIDE DEF Launched
  <2> QED
    BY <1>2, <2>1, <2>2, <2>3, <2>4 DEF PoolTypeOK, RatesInv, procVars
<1>5. Course'
  BY <1>1, <1>2, <1>3 DEF Course, Pauses, IsAlive, procVars
<1>6. ASSUME NEW i \in Procs, IsAlive(i)' PROVE Place(i)'
  <2>1. IsAlive(i) /\ i <= at /\ IF i < at THEN Settling(i) ELSE New(i)
    BY <1>1, <1>6 DEF Places, Place, IsAlive, procVars
  <2>2. CASE i = at
    <3>1. outbox[i] > 0 /\ New(i) /\ outbox'[i] = 0
      BY <1>1, <2>1, <2>2 DEF PoolTypeOK, Procs
    <3>2. Settling(i)'
      BY <3>1 DEF Settling, New, Quiet, Idle, procVars
    <3> QED
      BY <1>1, <1>2, <1>3, <2>2, <3>2 DEF Place, Settled, Settling, Procs
  <2>3. CASE i < at
    <3>1. outbox'[i] = outbox[i] /\ Settling(i)
      BY <1>1, <2>1, <2>3 DEF PoolTypeOK, Procs
    <3>2. Settling(i)'
      BY <3>1 DEF Settling, Quiet, Idle, procVars
    <3> QED
      BY <1>1, <1>2, <1>3, <2>3, <3>2 DEF Place, Settled, Settling, Procs
  <2> QED
    BY <1>1, <2>1, <2>2, <2>3 DEF Procs
<1> QED
  BY <1>4, <1>5, <1>6 DEF Places

LEMMA PoolStep == PoolInv /\ [PoolNext]_vars => PoolInv'
<1> SUFFICES ASSUME PoolInv, [PoolNext]_vars PROVE PoolInv'
  OBVIOUS
<1>1. CASE UNCHANGED vars
  <2>1. PoolTypeOK' /\ Course' /\ RatesInv'
    BY <1>1 DEF PoolInv, PoolTypeOK, Course, RatesInv, IsAlive, vars, serverVars, pipeVars, procVars
  <2>2. Places'
    BY <1>1, Untouched DEF PoolInv, Places, vars, serverVars, pipeVars, procVars
  <2> QED
    BY <2>1, <2>2 DEF PoolInv
<1>2. CASE WorkloadArrives \/ PauseArrives \/ StatsArrives \/ KillArrives
  BY <1>2, RequestHolds
<1>3. CASE Server
  BY <1>3, DecisionHolds, LaunchHolds, LaunchedHolds, SignalHolds, SyncHolds, TerminateHolds,
     SendHolds DEF Server
<1>4. CASE StatPolls
  BY <1>4, StatPollsHolds
<1>5. ASSUME NEW i \in Procs, Process(i) \/ Die(i) PROVE PoolInv'
  BY <1>5, ProcessHolds
<1> QED
  BY <1>1, <1>2, <1>3, <1>4, <1>5 DEF PoolNext

LEMMA PoolInvariant == PoolSpec => []PoolInv
  BY PoolInitHolds, PoolStep, PTL DEF PoolSpec

(* The pool is well typed: no process ever has two answers under way.      *)
THEOREM PoolTyped == PoolSpec => []PoolTypeOK
  BY PoolInvariant, PTL DEF PoolInv

(* Signals and answers are paired: between requests none is left over.     *)
THEOREM AnswersArePaired == PoolSpec => []NoStaleReady
<1>1. PoolInv => NoStaleReady
  BY DEF PoolInv, NoStaleReady, Places, Place, Quiet
<1> QED
  BY <1>1, PoolInvariant, PTL

(* No process outlives the pool that it belongs to.                        *)
THEOREM PoolsAreCleared == PoolSpec => []NoOrphans
<1>1. PoolInv => NoOrphans
  BY SizeAssumption DEF PoolInv, NoOrphans, Places, Place, Course, Procs
<1> QED
  BY <1>1, PoolInvariant, PTL

(* After a pause nothing runs, but what was interrupted too early.         *)
THEOREM PausesStop == PoolSpec => []PauseStops
<1>1. PoolInv => PauseStops
  <2> SUFFICES ASSUME PoolInv, stage = "rest", paused
               PROVE  /\ \A i \in Procs : pc[i] = "run" => i \in late
                      /\ rates => StatProc \in late
    BY DEF PauseStops
  <2>1. \A i \in Procs : IsAlive(i) => Quiet(i) /\ Idle(i)
    BY DEF PoolInv, Places, Place, Settled
  <2>2. StatProc \in Procs
    BY SizeAssumption DEF Procs, StatProc
  <2> QED
    BY <2>1, <2>2 DEF PoolInv, RatesInv, IsAlive, Quiet, Idle
<1> QED
  BY <1>1, PoolInvariant, PTL

(* What runs is the last workload, with the same exception.                *)
THEOREM LatestRuns == PoolSpec => []RunsLatest
<1>1. PoolInv => RunsLatest
  <2> SUFFICES ASSUME PoolInv, NEW i \in Procs, pc[i] = "run", i \notin late
               PROVE  job[i] = sends
    BY DEF RunsLatest
  <2>1. Place(i) /\ ~Idle(i)
    BY DEF PoolInv, Places, IsAlive, Idle
  <2>2. stage \in {"rest", "renew", "launch", "await", "check", "validate", "signal",
                   "sync", "wait", "terminate", "send"}
    BY DEF PoolInv, PoolTypeOK
  <2>3. Busy(i)
    BY <2>1, <2>2 DEF Place, Settled, Settling, Pausing, New
  <2> QED
    BY <2>3 DEF Busy
<1> QED
  BY <1>1, PoolInvariant, PTL
-----------------------------------------------------------------------------
(* The pool implements PoolRun.  While it is paused nothing is sent, and a *)
(* pool is launched anew in a pause only.                                  *)
PausedInv ==
  /\ stage \in {"launch", "await"} => paused \/ ~made
  /\ stage = "send" => (paused <=> at = 0)

LEMMA PausedStep == PoolInv /\ PausedInv /\ [PoolNext]_vars => PausedInv'
<1> SUFFICES ASSUME PoolInv, PausedInv, [PoolNext]_vars PROVE PausedInv'
  OBVIOUS
<1>0. /\ stage \in Pauses => paused
      /\ ~made => stage \in {"rest", "launch", "await"}
      /\ at \in Procs
  BY DEF PoolInv, Course
<1>1. CASE WorkloadArrives \/ PauseArrives \/ StatsArrives \/ KillArrives
  BY <1>0, <1>1 DEF WorkloadArrives, PauseArrives, StatsArrives, KillArrives, Request, Pause,
     Goto, PausedInv
<1>2. CASE Renew \/ Check \/ Validate
  BY <1>0, <1>2 DEF Renew, Check, Validate, Step, Pause, Goto, PausedInv
<1>3. CASE Launch \/ Launched
  BY <1>0, <1>3 DEF Launch, Launched, Continue, Goto, PausedInv, PoolInv, PoolTypeOK, Procs
<1>4. CASE Signal \/ Sync \/ Wait \/ Terminate
  BY <1>0, <1>4 DEF Signal, Sync, Wait, Terminate, SyncNext, AfterPause, Continue, Goto,
     PausedInv, Pauses
<1>5. CASE Send
  BY <1>0, <1>5, SizeAssumption DEF Send, Continue, Goto, PausedInv, Procs
<1>6. CASE StatPolls \/ (\E i \in Procs : Process(i) \/ Die(i)) \/ UNCHANGED vars
  <2>1. UNCHANGED serverVars
    BY <1>6 DEF StatPolls, Process, Connect, SendReady, EnterTry, Receive, Interrupted,
       Recover, Die, vars
  <2> QED
    BY <2>1 DEF PausedInv, serverVars
<1> QED
  BY <1>1, <1>2, <1>3, <1>4, <1>5, <1>6 DEF PoolNext, Server

LEMMA PausedInvariant == PoolSpec => [](PoolInv /\ PausedInv)
<1>1. PoolInit => PausedInv
  BY DEF PoolInit, PausedInv
<1> QED
  BY <1>1, PausedStep, PoolInvariant, PTL DEF PoolSpec

(* What a step leaves alone is seen by nobody.                             *)
LEMMA NothingShown ==
  ASSUME Phase' = Phase, UNCHANGED <<sends, pc, inbox, job, late>>,
         ~ (stage = "send" /\ at > 0), ~ (stage = "send" /\ at > 0)'
  PROVE  UNCHANGED Promise!runVars
  BY DEF Alive, Due, Work, Stray, IsAlive, Promise!runVars

(* The sets of processes, but for one that steps.                          *)
LEMMA OthersSame ==
  ASSUME PoolInv, NEW i \in Procs, UNCHANGED serverVars,
         NEW p, NEW b, NEW m, pc' = [pc EXCEPT ![i] = p],
         inbox' = [inbox EXCEPT ![i] = b], job' = [job EXCEPT ![i] = m],
         late' \in {late, late \cup {i}, late \ {i}}
  PROVE  /\ Phase' = Phase /\ sends' = sends
         /\ \A j \in Procs \ {i} :
              /\ j \in Alive' <=> j \in Alive
              /\ j \in Due' <=> j \in Due
              /\ j \in Stray' <=> j \in Stray
              /\ Work'[j] = Work[j]
         /\ i \in Alive' <=> p # "dead"
         /\ i \in Stray' <=> p # "dead" /\ i \in late'
         /\ i \in Due' <=> /\ p # "dead" /\ i \notin late'
                           /\ b # <<>> \/ (stage = "send" /\ at > 0 /\ i >= at)
         /\ Work'[i] = IF p = "run" /\ i \notin late' THEN m ELSE 0
<1>1. Phase' = Phase /\ sends' = sends /\ stage' = stage /\ at' = at
  BY DEF Phase, serverVars
<1>2. /\ pc'[i] = p /\ inbox'[i] = b /\ job'[i] = m
      /\ \A j \in Procs \ {i} : pc'[j] = pc[j] /\ inbox'[j] = inbox[j] /\ job'[j] = job[j]
                                /\ (j \in late' <=> j \in late)
  BY DEF PoolInv, PoolTypeOK
<1> QED
  BY <1>1, <1>2 DEF Alive, Due, Stray, Work, IsAlive

LEMMA ProcessKeeps ==
  ASSUME PoolInv, NEW i \in Procs, Process(i) \/ Die(i)
  PROVE  [Promise!RunNext]_(Promise!runVars)
<1>0. /\ UNCHANGED serverVars /\ i \in Alive /\ pc[i] # "dead" /\ Place(i)
      /\ pc \in [Procs -> {"dead", "start", "ready", "sent", "recv", "run", "caught"}]
      /\ inbox \in [Procs -> Seq(1..MaxSends)] /\ job \in [Procs -> 0..MaxSends]
  BY DEF PoolInv, PoolTypeOK, Places, Process, Connect, SendReady, EnterTry, Receive,
     Interrupted, Recover, Die, Move, IsAlive, Alive
<1>1. /\ Alive \subseteq Procs /\ Due \subseteq Alive \ late /\ Stray \subseteq Alive
      /\ Work \in [Procs -> 0..MaxSends] /\ DOMAIN Work' = Procs
      /\ Alive' \subseteq Procs /\ Due' \subseteq Procs /\ Stray' \subseteq Procs
  <2>1. Alive \subseteq Procs /\ Due \subseteq Alive \ late /\ Stray \subseteq Alive
    BY DEF Alive, Due, Stray
  <2>2. Work \in [Procs -> 0..MaxSends]
    <3>1. 0 \in 0..MaxSends
      BY SizeAssumption
    <3> QED
      BY <1>0, <3>1 DEF Work
  <2>3. DOMAIN Work' = Procs
    BY DEF Work
  <2>4. Alive' \subseteq Procs /\ Due' \subseteq Procs /\ Stray' \subseteq Procs
    BY DEF Alive, Due, Stray
  <2> QED
    BY ONLY <2>1, <2>2, <2>3, <2>4
(* What becomes of the process makes the abstract step.                    *)
<1>2. ASSUME NEW p, NEW b, NEW m,
             pc' = [pc EXCEPT ![i] = p], inbox' = [inbox EXCEPT ![i] = b],
             job' = [job EXCEPT ![i] = m], late' \in {late, late \cup {i}, late \ {i}}
      PROVE  /\ Phase' = Phase /\ sends' = sends
             /\ Alive' = IF p # "dead" THEN Alive ELSE Alive \ {i}
             /\ Stray' = IF p # "dead" /\ i \in late' THEN Stray \cup {i} ELSE Stray \ {i}
             /\ Due' = IF /\ p # "dead" /\ i \notin late'
                          /\ b # <<>> \/ (stage = "send" /\ at > 0 /\ i >= at)
                       THEN Due \cup {i} ELSE Due \ {i}
             /\ Work' = [Work EXCEPT ![i] = IF p = "run" /\ i \notin late' THEN m ELSE 0]
  <2>1. /\ Phase' = Phase /\ sends' = sends
        /\ \A j \in Procs \ {i} :
             /\ j \in Alive' <=> j \in Alive
             /\ j \in Due' <=> j \in Due
             /\ j \in Stray' <=> j \in Stray
             /\ Work'[j] = Work[j]
        /\ i \in Alive' <=> p # "dead"
        /\ i \in Stray' <=> p # "dead" /\ i \in late'
        /\ i \in Due' <=> /\ p # "dead" /\ i \notin late'
                          /\ b # <<>> \/ (stage = "send" /\ at > 0 /\ i >= at)
        /\ Work'[i] = IF p = "run" /\ i \notin late' THEN m ELSE 0
    BY ONLY PoolInv, i \in Procs, <1>0, <1>2, OthersSame
  <2>2. Work' = [Work EXCEPT ![i] = Work'[i]]
    <3>1. Work' = [j \in Procs |-> Work'[j]]
      BY DEF Work
    <3> QED
      BY ONLY <1>1, <2>1, <3>1
  <2>3. Alive' = IF p # "dead" THEN Alive ELSE Alive \ {i}
    <3>1. /\ \A j \in Procs \ {i} : j \in Alive' <=> j \in Alive
          /\ i \in Alive' <=> p # "dead"
          /\ i \in Alive /\ Alive \subseteq Procs /\ Alive' \subseteq Procs
      BY ONLY <1>0, <1>1, <2>1
    <3>2. CASE p = "dead"
      BY ONLY <3>1, <3>2
    <3>3. CASE p # "dead"
      BY ONLY <3>1, <3>3
    <3> QED
      BY <3>2, <3>3
  <2>4. Stray' = IF p # "dead" /\ i \in late' THEN Stray \cup {i} ELSE Stray \ {i}
    BY ONLY <1>1, <2>1, i \in Procs
  <2> DEFINE waits == b # <<>> \/ (stage = "send" /\ at > 0 /\ i >= at)
  <2>5. i \in Due' <=> p # "dead" /\ i \notin late' /\ waits
    BY ONLY <2>1
  <2> HIDE DEF waits
  <2>6. Due' = IF p # "dead" /\ i \notin late' /\ waits THEN Due \cup {i} ELSE Due \ {i}
    BY ONLY <1>1, <2>1, <2>5, i \in Procs
  <2>7. Work' = [Work EXCEPT ![i] = IF p = "run" /\ i \notin late' THEN m ELSE 0]
    BY ONLY <2>1, <2>2
  <2> QED
    BY ONLY <2>1, <2>3, <2>4, <2>6, <2>7, Zenon DEF waits
<1> USE DEF Promise!runVars
<1>3. CASE Connect(i) \/ SendReady(i) \/ EnterTry(i) \/ Recover(i)
  <2>1. PICK p \in {"ready", "sent", "recv"} :
          /\ pc[i] # "run" /\ pc' = [pc EXCEPT ![i] = p] /\ UNCHANGED <<inbox, late>>
          /\ \E m : job' = [job EXCEPT ![i] = m]
    <3>1. job = [job EXCEPT ![i] = job[i]]
      BY <1>0
    <3> QED
      BY <1>3, <3>1 DEF Connect, SendReady, EnterTry, Recover, Move, pipeVars
  <2>2. PICK m : job' = [job EXCEPT ![i] = m]
    BY <2>1
  <2>3. inbox' = [inbox EXCEPT ![i] = inbox[i]]
    BY <1>0, <2>1
  <2>4. /\ Phase' = Phase /\ sends' = sends /\ Alive' = Alive
        /\ Stray' = IF i \in late THEN Stray \cup {i} ELSE Stray \ {i}
        /\ Due' = IF i \notin late /\ (inbox[i] # <<>> \/ (stage = "send" /\ at > 0 /\ i >= at))
                  THEN Due \cup {i} ELSE Due \ {i}
        /\ Work' = [Work EXCEPT ![i] = 0]
    <3>1. p # "dead" /\ p # "run" /\ late' = late
      BY <2>1
    <3>2. pc' = [pc EXCEPT ![i] = p] /\ late' \in {late, late \cup {i}, late \ {i}}
      BY <2>1
    <3>3. /\ Phase' = Phase /\ sends' = sends
          /\ Alive' = IF p # "dead" THEN Alive ELSE Alive \ {i}
          /\ Stray' = IF p # "dead" /\ i \in late' THEN Stray \cup {i} ELSE Stray \ {i}
          /\ Due' = IF /\ p # "dead" /\ i \notin late'
                       /\ inbox[i] # <<>> \/ (stage = "send" /\ at > 0 /\ i >= at)
                    THEN Due \cup {i} ELSE Due \ {i}
          /\ Work' = [Work EXCEPT ![i] = IF p = "run" /\ i \notin late' THEN m ELSE 0]
      BY ONLY <1>2, <2>2, <2>3, <3>2, Zenon
    <3> QED
      BY ONLY <3>1, <3>3
  <2>5. /\ i \in Stray <=> i \in late
        /\ i \in Due <=> i \notin late /\ (inbox[i] # <<>> \/ (stage = "send" /\ at > 0 /\ i >= at))
        /\ Work[i] = 0
    BY <1>0, <2>1 DEF Stray, Due, Work
  <2> QED
    BY ONLY <1>1, <2>4, <2>5
<1>4. CASE Receive(i)
  <2>1. /\ pc' = [pc EXCEPT ![i] = "run"] /\ inbox' = [inbox EXCEPT ![i] = Tail(inbox[i])]
        /\ job' = [job EXCEPT ![i] = Head(inbox[i])] /\ late' = late
        /\ pc[i] = "recv" /\ inbox[i] # <<>>
    BY <1>4 DEF Receive, Move
  <2>2. /\ Phase' = Phase /\ sends' = sends /\ Alive' = Alive
        /\ Stray' = IF i \in late THEN Stray \cup {i} ELSE Stray \ {i}
        /\ Due' = IF /\ i \notin late
                     /\ Tail(inbox[i]) # <<>> \/ (stage = "send" /\ at > 0 /\ i >= at)
                  THEN Due \cup {i} ELSE Due \ {i}
        /\ Work' = [Work EXCEPT ![i] = IF i \notin late THEN Head(inbox[i]) ELSE 0]
    <3>1. late' \in {late, late \cup {i}, late \ {i}} /\ "run" # "dead"
      BY <2>1
    <3>2. /\ Phase' = Phase /\ sends' = sends
          /\ Alive' = IF "run" # "dead" THEN Alive ELSE Alive \ {i}
          /\ Stray' = IF "run" # "dead" /\ i \in late' THEN Stray \cup {i} ELSE Stray \ {i}
          /\ Due' = IF /\ "run" # "dead" /\ i \notin late'
                       /\ Tail(inbox[i]) # <<>> \/ (stage = "send" /\ at > 0 /\ i >= at)
                    THEN Due \cup {i} ELSE Due \ {i}
          /\ Work' = [Work EXCEPT ![i] = IF "run" = "run" /\ i \notin late' THEN Head(inbox[i]) ELSE 0]
      BY ONLY <1>2, <2>1, <3>1, Zenon
    <3> QED
      BY ONLY <2>1, <3>1, <3>2
  <2>3. i \in Stray <=> i \in late
    BY <1>0 DEF Stray
  <2>4. CASE i \in late
    <3>1. i \notin Due /\ Work[i] = 0
      BY <2>4 DEF Due, Work
    <3> QED
      BY ONLY <1>1, <2>2, <2>3, <2>4, <3>1
  <2>5. CASE i \notin late
    <3>1. inbox[i] = <<sends>> /\ ~ (stage = "send" /\ i >= at)
      <4>1. ~ Idle(i) /\ ~ New(i)
        BY <2>1, <2>5 DEF Idle, New
      <4>2. stage \in {"rest", "renew", "launch", "await", "check", "validate", "signal",
                      "sync", "wait", "terminate", "send"} /\ at \in Int /\ i \in Int
        BY SizeAssumption DEF PoolInv, Course, PoolTypeOK, Procs
      <4>3. Busy(i) /\ ~ (stage = "send" /\ i >= at)
        BY ONLY <1>0, <4>1, <4>2 DEF Place, Settled, Settling, Pausing
      <4> QED
        BY ONLY <2>1, <2>5, <4>3 DEF Busy
    <3>2. Head(inbox[i]) = sends /\ Tail(inbox[i]) = <<>>
      BY <3>1
    <3>3. Due' = Due \ {i} /\ Work' = [Work EXCEPT ![i] = sends] /\ Stray' = Stray
      BY ONLY <2>2, <2>3, <2>5, <3>1, <3>2
    <3>4. i \in Due
      BY <1>0, <2>1, <2>5 DEF Due
    <3>5. Promise!Begin(i)
      BY ONLY <2>2, <3>3, <3>4 DEF Promise!Begin
    <3> QED
      BY ONLY <3>5, i \in Procs DEF Promise!RunNext
  <2> QED
    BY <2>4, <2>5
<1>5. ASSUME pc' = [pc EXCEPT ![i] = "dead"], UNCHANGED <<inbox, job>>,
             late' \in {late, late \cup {i}, late \ {i}}
      PROVE  Promise!Fail(i)
  <2>1. inbox' = [inbox EXCEPT ![i] = inbox[i]] /\ job' = [job EXCEPT ![i] = job[i]]
    BY <1>0, <1>5
  <2>2. /\ Phase' = Phase /\ sends' = sends /\ Alive' = Alive \ {i}
        /\ Stray' = Stray \ {i} /\ Due' = Due \ {i} /\ Work' = [Work EXCEPT ![i] = 0]
    <3>1. /\ Phase' = Phase /\ sends' = sends
          /\ Alive' = IF "dead" # "dead" THEN Alive ELSE Alive \ {i}
          /\ Stray' = IF "dead" # "dead" /\ i \in late' THEN Stray \cup {i} ELSE Stray \ {i}
          /\ Due' = IF /\ "dead" # "dead" /\ i \notin late'
                       /\ inbox[i] # <<>> \/ (stage = "send" /\ at > 0 /\ i >= at)
                    THEN Due \cup {i} ELSE Due \ {i}
          /\ Work' = [Work EXCEPT ![i] = IF "dead" = "run" /\ i \notin late' THEN job[i] ELSE 0]
      BY ONLY <1>2, <1>5, <2>1, Zenon
    <3> QED
      BY ONLY <3>1
  <2> QED
    BY ONLY <1>0, <2>2 DEF Promise!Fail
<1>6. CASE Die(i)
  <2>1. Promise!Fail(i)
    BY <1>5, <1>6 DEF Die, pipeVars
  <2> QED
    BY ONLY <2>1, i \in Procs DEF Promise!RunNext
<1>7. CASE Interrupted(i)
  <2>1. /\ sigint[i] /\ UNCHANGED <<inbox, job>>
        /\ late' = IF inbox[i] = <<>> THEN late \ {i} ELSE late \cup {i}
        /\ pc' = [pc EXCEPT ![i] = IF pc[i] \in {"recv", "run"} THEN "caught" ELSE "dead"]
    BY <1>7 DEF Interrupted, pipeVars
  <2>2. stage \in {"signal", "sync", "wait"} /\ Phase = "pausing" /\ (Idle(i) \/ Busy(i))
    BY <1>0, <2>1 DEF Place, Settled, Settling, Pausing, Quiet, New, Signalled, PoolInv, PoolTypeOK,
       Phase
  <2>3. CASE pc[i] \notin {"recv", "run"}
    <3>1. Promise!Fail(i)
      BY <1>5, <2>1, <2>3
    <3> QED
      BY ONLY <3>1, i \in Procs DEF Promise!RunNext
  <2>4. CASE pc[i] \in {"recv", "run"}
    <3>1. inbox' = [inbox EXCEPT ![i] = inbox[i]] /\ job' = [job EXCEPT ![i] = job[i]]
          /\ pc' = [pc EXCEPT ![i] = "caught"]
      BY <1>0, <2>1, <2>4
    <3>2. /\ Phase' = Phase /\ sends' = sends /\ Alive' = Alive
          /\ Stray' = IF i \in late' THEN Stray \cup {i} ELSE Stray \ {i}
          /\ Due' = IF i \notin late' /\ inbox[i] # <<>> THEN Due \cup {i} ELSE Due \ {i}
          /\ Work' = [Work EXCEPT ![i] = 0]
      <4>1. late' \in {late, late \cup {i}, late \ {i}}
        BY <2>1
      <4>2. ~ (stage = "send" /\ at > 0 /\ i >= at)
        BY <2>2
      <4> QED
        <5>1. /\ Phase' = Phase /\ sends' = sends
              /\ Alive' = IF "caught" # "dead" THEN Alive ELSE Alive \ {i}
              /\ Stray' = IF "caught" # "dead" /\ i \in late' THEN Stray \cup {i} ELSE Stray \ {i}
              /\ Due' = IF /\ "caught" # "dead" /\ i \notin late'
                           /\ inbox[i] # <<>> \/ (stage = "send" /\ at > 0 /\ i >= at)
                        THEN Due \cup {i} ELSE Due \ {i}
              /\ Work' = [Work EXCEPT ![i] = IF "caught" = "run" /\ i \notin late' THEN job[i] ELSE 0]
          BY ONLY <1>2, <3>1, <4>1, Zenon
        <5> QED
          BY ONLY <4>2, <5>1
    <3>3. /\ i \in Stray <=> i \in late
          /\ i \in Due <=> i \notin late /\ inbox[i] # <<>>
          /\ i \in late => Work[i] = 0
      BY <1>0, <2>2 DEF Stray, Due, Work
    <3>4. CASE i \in late /\ inbox[i] # <<>>
      BY ONLY <1>1, <2>1, <3>2, <3>3, <3>4
    <3>5. CASE i \in late /\ inbox[i] = <<>>
      <4>1. i \notin late' /\ Stray' = Stray \ {i} /\ Due' = Due /\ Work' = Work
        BY ONLY <1>1, <2>1, <3>2, <3>3, <3>5
      <4>2. Promise!Return(i)
        BY ONLY <2>2, <3>2, <3>3, <3>5, <4>1 DEF Promise!Return
      <4> QED
        BY ONLY <4>2, i \in Procs DEF Promise!RunNext
    <3>6. CASE i \notin late /\ inbox[i] = <<>>
      <4>1. i \notin late' /\ Stray' = Stray /\ Due' = Due
        BY ONLY <1>1, <2>1, <3>2, <3>3, <3>6
      <4>2. Promise!Interrupt(i)
        BY ONLY <1>0, <2>2, <3>2, <4>1 DEF Promise!Interrupt
      <4> QED
        BY ONLY <4>2, i \in Procs DEF Promise!RunNext
    <3>7. CASE i \notin late /\ inbox[i] # <<>>
      <4>1. i \in late' /\ Stray' = Stray \cup {i} /\ Due' = Due \ {i}
        BY ONLY <2>1, <3>2, <3>7
      <4>2. Work[i] = 0
        BY <1>0, <2>2, <3>7 DEF Idle, Busy, Work
      <4>3. Work' = Work
        BY ONLY <1>1, <3>2, <4>2
      <4>4. Promise!GoAstray(i)
        BY ONLY <2>2, <3>2, <3>3, <3>7, <4>1, <4>3 DEF Promise!GoAstray
      <4> QED
        BY ONLY <4>4, i \in Procs DEF Promise!RunNext
    <3> QED
      BY <3>4, <3>5, <3>6, <3>7
  <2> QED
    BY <2>3, <2>4
<1> QED
  BY <1>3, <1>4, <1>6, <1>7 DEF Process

(* The server's own steps: those that touch no process and no inbox.       *)
LEMMA SameProcesses ==
  ASSUME UNCHANGED <<sends, pc, inbox, job, late>>,
         ~ (stage = "send" /\ at > 0), ~ (stage = "send" /\ at > 0)'
  PROVE  UNCHANGED <<sends, Alive, Due, Work, Stray>>
  BY DEF Alive, Due, Work, Stray, IsAlive

LEMMA PauseKeeps ==
  ASSUME PoolInv, stage \in {"rest", "renew", "check", "validate"},
         NEW next, Pause(next)
  PROVE  Promise!Pause
<1>1. UNCHANGED <<sends, pc, inbox, job, late>> /\ stage' = "signal"
  BY DEF Pause, Goto, pipeVars, procVars
<1>2. UNCHANGED <<sends, Alive, Due, Work, Stray>>
  BY <1>1, SameProcesses
<1>3. Phase \in {"paused", "running"} /\ Phase' = "pausing"
  BY <1>1 DEF Phase
<1> QED
  BY ONLY <1>2, <1>3 DEF Promise!Pause

LEMMA CalmKeeps ==
  ASSUME PoolInv, stage \in {"rest", "renew", "check", "validate"},
         UNCHANGED <<made, paused, sends, pc, inbox, job, late>>,
         stage' \in {"rest", "renew", "check", "validate", "launch"}
  PROVE  UNCHANGED Promise!runVars
<1>1. Phase' = Phase
  BY DEF Phase
<1> QED
  BY <1>1, NothingShown

LEMMA RequestKeeps ==
  ASSUME PoolInv, WorkloadArrives \/ PauseArrives \/ StatsArrives \/ KillArrives
  PROVE  Promise!Pause \/ UNCHANGED Promise!runVars
<1>1. CASE KillArrives
  BY <1>1, PauseKeeps DEF KillArrives
<1>2. CASE WorkloadArrives \/ PauseArrives \/ StatsArrives
  <2>1. /\ stage = "rest" /\ UNCHANGED <<made, paused, sends, pc, inbox, job, late>>
        /\ stage' \in {"renew", "launch", "check"}
    BY <1>2 DEF WorkloadArrives, PauseArrives, StatsArrives, Request, Goto, pipeVars, procVars
  <2> QED
    BY <2>1, CalmKeeps
<1> QED
  BY <1>1, <1>2

LEMMA DecisionKeeps ==
  ASSUME PoolInv, Renew \/ Check \/ Validate
  PROVE  Promise!Pause \/ UNCHANGED Promise!runVars
<1>1. stage \in {"rest", "renew", "check", "validate"}
  BY DEF Renew, Check, Validate
<1>2. CASE \E next \in {"launch", "fail", "answer", "send"} : Pause(next)
  BY <1>1, <1>2, PauseKeeps
<1>3. CASE Step /\ \E s \in {"check", "validate", "rest"} : Goto(s, 0)
  <2>1. /\ UNCHANGED <<made, paused, sends, pc, inbox, job, late>>
        /\ stage' \in {"rest", "renew", "check", "validate", "launch"}
    BY <1>3 DEF Step, Goto, pipeVars, procVars
  <2> QED
    BY <1>1, <2>1, CalmKeeps
<1> QED
  BY <1>2, <1>3 DEF Renew, Check, Validate

LEMMA SignalKeeps ==
  ASSUME PoolInv, Signal PROVE UNCHANGED Promise!runVars
<1>1. at \in Procs
  BY DEF PoolInv, Course
<1>2. stage = "signal" /\ stage' \in {"signal", "sync"}
  BY <1>1, Continued DEF Signal
<1>3. Phase' = Phase /\ UNCHANGED <<sends, pc, inbox, job, late>>
  BY <1>2 DEF Phase, Signal, pipeVars
<1> QED
  BY <1>2, <1>3, NothingShown

(* The pause is over when the last process has answered: nobody works.     *)
LEMMA SyncKeeps ==
  ASSUME PoolInv, PoolInv', Sync \/ Wait
  PROVE  Promise!Paused \/ UNCHANGED Promise!runVars
<1>1. /\ at \in Procs /\ stage \in {"sync", "wait"} /\ paused /\ paused'
      /\ UNCHANGED <<sends, pc, inbox, job, late>>
  BY DEF PoolInv, Course, Pauses, Sync, Wait, procVars
<1>2. \/ stage' \in {"sync", "wait"}
      \/ stage' \in {"terminate", "send", "rest"} /\ at' = 0
  <2>1. SyncNext => stage' = "sync" \/ (stage' = AfterPause /\ at' = 0)
    BY <1>1, Continued DEF SyncNext
  <2>2. AfterPause \in {"terminate", "send", "rest"}
    BY DEF AfterPause
  <2> QED
    BY <2>1, <2>2 DEF Sync, Wait, Goto
<1>3. CASE stage' \in {"sync", "wait"}
  BY <1>1, <1>3, NothingShown DEF Phase
<1>4. CASE stage' \in {"terminate", "send", "rest"} /\ at' = 0
  <2>1. UNCHANGED <<sends, Alive, Due, Work, Stray>>
    BY <1>1, <1>4, SameProcesses
  <2>2. Phase = "pausing" /\ Phase' = "paused"
    BY <1>1, <1>4 DEF Phase
  <2>3. ASSUME NEW j \in Procs, IsAlive(j)' PROVE Idle(j)'
    <3>1. Place(j)'
      BY <2>3 DEF PoolInv, Places
    <3>2. ~ (j < 0)
      BY SizeAssumption DEF Procs
    <3> QED
      BY <1>1, <1>4, <3>1, <3>2 DEF Place, Settled, Settling
  <2>4. Due' = {}
    BY <1>4, <2>3 DEF Due, Alive, Idle
  <2>5. Work' = [i \in Procs |-> 0]
    <3>1. ASSUME NEW j \in Procs, pc'[j] = "run" PROVE j \in late'
      BY <2>3, <3>1 DEF Idle, IsAlive
    <3> QED
      BY <3>1 DEF Work
  <2> QED
    BY ONLY <2>1, <2>2, <2>4, <2>5 DEF Promise!Paused
<1> QED
  BY <1>2, <1>3, <1>4

LEMMA TerminateKeeps ==
  ASSUME PoolInv, Terminate
  PROVE  (at \in Alive /\ Promise!Fail(at)) \/ UNCHANGED Promise!runVars
<1>1. /\ at \in Procs /\ paused /\ paused' /\ stage = "terminate"
      /\ UNCHANGED <<sends, inbox, job, late>> /\ pc' = [pc EXCEPT ![at] = "dead"]
      /\ pc \in [Procs -> {"dead", "start", "ready", "sent", "recv", "run", "caught"}]
  BY DEF PoolInv, PoolTypeOK, Course, Pauses, Terminate, pipeVars
<1>2. stage' \in {"terminate", "launch", "rest"}
  BY <1>1, Continued DEF Terminate
<1>3. Phase' = Phase
  BY <1>1, <1>2 DEF Phase
<1>4. CASE at \in Alive
  <2>1. Alive' = Alive \ {at}
    BY <1>1 DEF Alive, IsAlive
  <2>2. Stray' = Stray \ {at}
    BY <1>1, <2>1 DEF Stray
  <2>3. Due' = Due \ {at}
    BY <1>1, <1>2, <2>1 DEF Due
  <2>4. Work' = [Work EXCEPT ![at] = 0]
    BY <1>1 DEF Work
  <2> QED
    BY ONLY <1>1, <1>3, <1>4, <2>1, <2>2, <2>3, <2>4 DEF Promise!Fail
<1>5. CASE at \notin Alive
  <2>1. pc' = pc
    BY <1>1, <1>5 DEF Alive, IsAlive
  <2> QED
    BY <1>1, <1>2, <1>3, <2>1, NothingShown
<1> QED
  BY <1>4, <1>5

LEMMA LaunchKeeps ==
  ASSUME PoolInv, PausedInv, Launch
  PROVE  at \in Procs /\ Promise!Launch(at)
<1>1. /\ at \in Procs /\ stage = "launch" /\ stage' = "await"
      /\ UNCHANGED <<made, paused, sends>> /\ late' = late \ {at}
      /\ pc' = [pc EXCEPT ![at] = "start"] /\ inbox' = [inbox EXCEPT ![at] = <<>>]
      /\ job' = [job EXCEPT ![at] = 0]
  BY DEF PoolInv, Course, Launch, Goto
<1>2. at \notin Alive
  <2>1. ~ (at < at)
    BY <1>1 DEF Procs
  <2> QED
    BY <1>1, <2>1 DEF PoolInv, Places, Place, Alive
<1>3. Phase = "paused" /\ Phase' = "paused"
  BY <1>1 DEF Phase, PausedInv
<1>4. /\ pc'[at] = "start" /\ inbox'[at] = <<>> /\ pc[at] = "dead"
      /\ \A j \in Procs \ {at} :
           /\ pc'[j] = pc[j] /\ inbox'[j] = inbox[j] /\ job'[j] = job[j]
           /\ j \in late' <=> j \in late
  BY <1>1, <1>2 DEF PoolInv, PoolTypeOK, Alive, IsAlive
<1>5. Alive' = Alive \cup {at}
  BY <1>1, <1>4 DEF Alive, IsAlive
<1>6. Stray' = Stray
  BY <1>1, <1>2, <1>5 DEF Stray
<1>7. Due' = Due
  BY <1>1, <1>2, <1>4, <1>5 DEF Due
<1>8. Work' = Work
  BY <1>1, <1>4 DEF Work
<1> QED
  BY ONLY <1>1, <1>2, <1>3, <1>5, <1>6, <1>7, <1>8 DEF Promise!Launch

LEMMA LaunchedKeeps ==
  ASSUME PoolInv, PausedInv, Launched PROVE UNCHANGED Promise!runVars
<1>1. at \in Procs
  BY DEF PoolInv, Course
<1>2. /\ stage = "await"
      /\ \/ stage' = "launch" /\ at' = at + 1
         \/ stage' = "check" /\ at = NWorkers
      /\ UNCHANGED <<sends, pc, inbox, job, late>>
      /\ made' = (made \/ at = NWorkers) /\ paused' = (paused \/ at = NWorkers)
  BY <1>1, Continued DEF Launched, procVars
<1>3. Phase' = Phase
  <2>1. CASE at = NWorkers
    BY <1>2, <2>1 DEF Phase, PausedInv
  <2>2. CASE at # NWorkers
    BY <1>2, <2>2 DEF Phase, PausedInv
  <2> QED
    BY <2>1, <2>2
<1> QED
  BY <1>2, <1>3, NothingShown

(* send_workload promises the workload to all at its first process, and    *)
(* keeps the promise with each.                                            *)
LEMMA SendKeeps ==
  ASSUME PoolInv, PausedInv, Send
  PROVE  Promise!Start \/ UNCHANGED Promise!runVars
<1>1. /\ at \in Procs /\ stage = "send" /\ sends \in 0..MaxSends /\ made
      /\ (paused <=> at = 0) /\ (at = 0 => sends < MaxSends)
  BY DEF PoolInv, PoolTypeOK, Course, PausedInv, Send
<1>2. /\ at' \in Procs
      /\ \/ stage' = "send" /\ at' = at + 1
         \/ stage' = "rest" /\ at' = 0 /\ at = NWorkers
      /\ \A i \in Procs : i <= NWorkers
  BY <1>1, Continued DEF Send
<1>3. /\ paused' = FALSE /\ UNCHANGED <<made, pc, job, late>>
      /\ sends' = (IF at = 0 THEN sends + 1 ELSE sends)
  BY DEF Send, procVars
<1>4. Phase' = "running"
  BY <1>1, <1>2, <1>3 DEF Phase
<1>5. /\ \A j \in Procs \ {at} : inbox'[j] = inbox[j]
      /\ IsAlive(at) => inbox'[at] # <<>>
  <2>1. inbox' = IF IsAlive(at) THEN [inbox EXCEPT ![at] = Append(@, sends')] ELSE inbox
    BY <1>3 DEF Send
  <2>2. inbox \in [Procs -> Seq(1..MaxSends)]
    BY DEF PoolInv, PoolTypeOK
  <2>3. \A w : Append(inbox[at], w) # <<>>
    BY <1>1, <2>2
  <2> QED
    BY <1>1, <2>1, <2>2, <2>3
<1>6. UNCHANGED <<Alive, Work, Stray>>
  BY <1>3 DEF Alive, Work, Stray, IsAlive
<1>7. CASE at = 0
  <2>1. stage' = "send" /\ at' = 1
    BY <1>2, <1>7, SizeAssumption
  <2>2. \A j \in Procs : j >= 1 \/ j = at
    BY <1>7 DEF Procs
  <2>3. \A j \in Alive \ late : inbox'[j] # <<>> \/ j >= 1
    BY <1>5, <2>2 DEF Alive
  <2>4. Due' = Alive \ Stray
    BY <1>3, <1>6, <2>1, <2>3 DEF Due, Stray
  <2>5. Phase = "paused"
    BY <1>1, <1>7 DEF Phase
  <2> QED
    BY <1>1, <1>3, <1>4, <1>6, <1>7, <2>4, <2>5 DEF Promise!Start
<1>8. CASE at > 0
  <2>1. Phase = "running" /\ sends' = sends
    BY <1>1, <1>3, <1>8 DEF Phase
  <2>2. ASSUME NEW j \in Alive \ late
        PROVE  inbox'[j] # <<>> \/ (stage = "send" /\ at > 0 /\ j >= at)'
               <=> inbox[j] # <<>> \/ (stage = "send" /\ at > 0 /\ j >= at)
    <3>1. j \in Procs /\ j \in Int /\ at \in Int /\ IsAlive(j) /\ j <= NWorkers
      BY <1>1, <1>2, <2>2, SizeAssumption DEF Alive, Procs
    <3>2. CASE j = at
      BY <1>1, <1>5, <1>8, <3>1, <3>2
    <3>3. CASE j # at
      <4>1. inbox'[j] = inbox[j]
        BY <1>5, <3>1, <3>3
      <4>2. CASE stage' = "send" /\ at' = at + 1
        BY ONLY <1>1, <1>8, <3>1, <3>3, <4>1, <4>2
      <4>3. CASE stage' = "rest" /\ at = NWorkers
        <5>1. NWorkers \in Int
          BY SizeAssumption
        <5> QED
          BY ONLY <1>1, <1>8, <3>1, <3>3, <4>1, <4>3, <5>1
      <4> QED
        BY <1>2, <4>2, <4>3
    <3> QED
      BY <3>2, <3>3
  <2>3. Due' = Due
    BY <1>3, <1>6, <2>2 DEF Due
  <2> QED
    BY <1>4, <1>6, <2>1, <2>3 DEF Promise!runVars
<1> QED
  BY <1>1, <1>7, <1>8 DEF Procs

LEMMA PollKeeps ==
  ASSUME StatPolls \/ UNCHANGED vars PROVE UNCHANGED Promise!runVars
<1>1. UNCHANGED <<serverVars, pc, inbox, job, late>>
  BY DEF StatPolls, vars, pipeVars, procVars
<1> QED
  BY <1>1 DEF Phase, Alive, Due, Work, Stray, IsAlive, serverVars, Promise!runVars

(* Whatever the server, the signals and the deaths do, in whatever order,  *)
(* the pool implements PoolRun: every process that lives begins a workload *)
(* once, after it was sent, works on it until a pause, and a pause that is *)
(* over has stopped it (WorkerPool.send_workload and pause).               *)
THEOREM PoolPromiseKept == PoolSpec => KeepsPoolPromise
<1>1. PoolInit => Promise!RunInit
  <2> SUFFICES ASSUME PoolInit PROVE Promise!RunInit
    OBVIOUS
  <2>1. Alive = {} /\ Due = {} /\ Stray = {}
    BY DEF PoolInit, Alive, Due, Stray, IsAlive
  <2>2. Work = [i \in Procs |-> 0]
    BY DEF PoolInit, Work
  <2>3. Phase = "paused" /\ sends = 0
    BY DEF PoolInit, Phase
  <2> QED
    BY <2>1, <2>2, <2>3 DEF Promise!RunInit
<1>2. PoolInv /\ PausedInv /\ PoolInv' /\ [PoolNext]_vars => [Promise!RunNext]_(Promise!runVars)
  <2> SUFFICES ASSUME PoolInv, PausedInv, PoolInv', [PoolNext]_vars
               PROVE  Promise!RunNext \/ UNCHANGED Promise!runVars
    OBVIOUS
  <2>1. CASE WorkloadArrives \/ PauseArrives \/ StatsArrives \/ KillArrives
    BY <2>1, RequestKeeps DEF Promise!RunNext
  <2>2. CASE Renew \/ Check \/ Validate
    BY <2>2, DecisionKeeps DEF Promise!RunNext
  <2>3. CASE Launch
    BY <2>3, LaunchKeeps DEF Promise!RunNext
  <2>4. CASE Launched
    BY <2>4, LaunchedKeeps
  <2>5. CASE Signal
    BY <2>5, SignalKeeps
  <2>6. CASE Sync \/ Wait
    BY <2>6, SyncKeeps DEF Promise!RunNext
  <2>7. CASE Terminate
    <3>1. at \in Procs
      BY DEF PoolInv, Course
    <3> QED
      BY <2>7, <3>1, TerminateKeeps DEF Promise!RunNext
  <2>8. CASE Send
    BY <2>8, SendKeeps DEF Promise!RunNext
  <2>9. CASE StatPolls \/ UNCHANGED vars
    BY <2>9, PollKeeps
  <2>10. ASSUME NEW i \in Procs, Process(i) \/ Die(i)
         PROVE  Promise!RunNext \/ UNCHANGED Promise!runVars
    BY <2>10, ProcessKeeps
  <2> QED
    BY <2>1, <2>2, <2>3, <2>4, <2>5, <2>6, <2>7, <2>8, <2>9, <2>10 DEF PoolNext, Server
<1> QED
  BY <1>1, <1>2, PausedInvariant, PoolStep, PTL DEF PoolSpec, KeepsPoolPromise, Promise!RunSpec
=============================================================================
