------------------------------ MODULE PoolRun -------------------------------
(* What a worker pool promises the server: every process that lives begins *)
(* a workload once, after it was sent, and works on it until a pause; the  *)
(* pause is over when nobody works or may still begin.  A process may fail *)
(* at any moment, and is launched anew in a pause.                         *)
(*                                                                         *)
(* One exception: a process that a pause interrupts before it has begun    *)
(* goes astray.  Nothing is promised of it until a later pause gets it     *)
(* back.  WorkerPool implements this.                                      *)
(***************************************************************************)
EXTENDS Integers

CONSTANTS MaxRuns, Crew

VARIABLES
  phase,  (* "paused", "running" or "pausing"          *)
  run,    (* how many workloads were sent              *)
  alive,  (* the processes that live                   *)
  due,    (* those that have still to begin the last   *)
  work,   (* the workload each works on, 0 for none    *)
  stray   (* those that went astray                    *)

runVars == <<phase, run, alive, due, work, stray>>

RunInit ==
  /\ phase = "paused" /\ run = 0
  /\ alive = {} /\ due = {} /\ stray = {}
  /\ work = [i \in Crew |-> 0]

Launch(i) ==
  /\ phase = "paused" /\ i \notin alive
  /\ alive' = alive \cup {i}
  /\ UNCHANGED <<phase, run, due, work, stray>>

Start ==
  /\ phase = "paused" /\ run < MaxRuns
  /\ phase' = "running"
  /\ run' = run + 1
  /\ due' = alive \ stray
  /\ UNCHANGED <<alive, work, stray>>

Begin(i) ==
  /\ i \in due
  /\ due' = due \ {i}
  /\ work' = [work EXCEPT ![i] = run]
  /\ UNCHANGED <<phase, run, alive, stray>>

Pause ==
  /\ phase \in {"paused", "running"}
  /\ phase' = "pausing"
  /\ UNCHANGED <<run, alive, due, work, stray>>

Interrupt(i) ==
  /\ phase = "pausing" /\ i \in alive
  /\ work' = [work EXCEPT ![i] = 0]
  /\ UNCHANGED <<phase, run, alive, due, stray>>

GoAstray(i) ==
  /\ phase = "pausing" /\ i \in due
  /\ due' = due \ {i}
  /\ stray' = stray \cup {i}
  /\ UNCHANGED <<phase, run, alive, work>>

Return(i) ==
  /\ phase = "pausing" /\ i \in stray
  /\ stray' = stray \ {i}
  /\ UNCHANGED <<phase, run, alive, due, work>>

Paused ==
  /\ phase = "pausing"
  /\ due = {} /\ work = [i \in Crew |-> 0]
  /\ phase' = "paused"
  /\ UNCHANGED <<run, alive, due, work, stray>>

Fail(i) ==
  /\ i \in alive
  /\ alive' = alive \ {i} /\ due' = due \ {i} /\ stray' = stray \ {i}
  /\ work' = [work EXCEPT ![i] = 0]
  /\ UNCHANGED <<phase, run>>

RunNext ==
  \/ Start \/ Pause \/ Paused
  \/ \E i \in Crew : Launch(i) \/ Begin(i) \/ Interrupt(i) \/ GoAstray(i) \/ Return(i) \/ Fail(i)

RunSpec == RunInit /\ [][RunNext]_runVars
=============================================================================
