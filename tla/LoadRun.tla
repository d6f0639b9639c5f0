------------------------------ MODULE LoadRun -------------------------------
(***************************************************************************)
(* What the play button promises its user: at most one run at a time,      *)
(* whose workers are started between PLAY and its answer, are killed only  *)
(* between PAUSE and its answer, and are all gone when PAUSE is answered.  *)
(* A worker may end by itself at any moment.  PlayButton implements this.  *)
(***************************************************************************)
EXTENDS Integers

CONSTANTS MaxRuns, MaxCrew

Crew == (1..MaxRuns) \X (1..MaxCrew)

VARIABLES
  phase,  (* "stopped", "starting", "running" or "stopping" *)
  run,    (* how many runs were started                     *)
  live,   (* the workers at work                            *)
  killed  (* the workers that a pause ended                 *)

runVars == <<phase, run, live, killed>>

RunInit == phase = "stopped" /\ run = 0 /\ live = {} /\ killed = {}

Start ==
  /\ phase = "stopped"
  /\ run < MaxRuns
  /\ phase' = "starting"
  /\ run' = run + 1
  /\ UNCHANGED <<live, killed>>

Launch(w) ==
  /\ phase = "starting"
  /\ w[1] = run
  /\ w \notin live \cup killed
  /\ live' = live \cup {w}
  /\ UNCHANGED <<phase, run, killed>>

Settle ==
  /\ phase = "starting"
  /\ \/ phase' = "running"
     \/ phase' = "stopped" /\ live = {}
  /\ UNCHANGED <<run, live, killed>>

End(w) ==
  /\ w \in live
  /\ live' = live \ {w}
  /\ UNCHANGED <<phase, run, killed>>

(* A page load stops what may be running, without being asked.             *)
Stop ==
  /\ phase \in {"running", "stopped"}
  /\ phase' = "stopping"
  /\ UNCHANGED <<run, live, killed>>

Kill(w) ==
  /\ phase = "stopping"
  /\ w \in live
  /\ live' = live \ {w}
  /\ killed' = killed \cup {w}
  /\ UNCHANGED <<phase, run>>

Stopped ==
  /\ phase = "stopping"
  /\ live = {}
  /\ phase' = "stopped"
  /\ UNCHANGED <<run, live, killed>>

RunNext ==
  \/ Start \/ Settle \/ Stop \/ Stopped
  \/ \E w \in Crew : Launch(w) \/ End(w) \/ Kill(w)

RunSpec == RunInit /\ [][RunNext]_runVars
=============================================================================
