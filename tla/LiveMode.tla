------------------------------ MODULE LiveMode ------------------------------
(* The live mode: the collector process of stress/plancache.py asks the    *)
(* database for its plans and keeps their rates; /live/stats copies them,  *)
(* and stress/static/js/live.js shows the busiest ones, a widget each.     *)
(*                                                                         *)
(* The settings are valid and stay the same.  A plan is one of Queries and *)
(* its count of executions; the time of a round is the unit of a rate.     *)
(***************************************************************************)
EXTENDS Integers, FiniteSets, SequencesExt

CONSTANTS
  Queries,      (* query texts                                               *)
  Volatile,     (* bound: the plans that the database may drop               *)
  MaxExecs,     (* bound: executions of a plan since it was listed           *)
  MAX_QUERIES   (* widgets on the page                                       *)

ASSUME LiveAssumption ==
  /\ IsFiniteSet(Queries) /\ Volatile \subseteq Queries
  /\ {MaxExecs, MAX_QUERIES} \subseteq Nat

VARIABLES
  execs,        (* the database: Commits + Rollbacks of each plan it lists   *)
  stage,        (* the collector: none, sleep, lock (has its rows, waits for *)
                (* pc_lock), write (holds it), dead                          *)
  rows,         (* what show plancache returned last                         *)
  todo,         (* rows not written yet                                      *)
  prev, stats,  (* prev_pc; pc_dict                                          *)
  page,         (* updateWorkloadLoop: asking (again, in 100 ms), half (the  *)
                (* stats are copied, the metrics are not), waiting for other *)
                (* settings, stopped                                         *)
  copy,         (* the copy of pc_dict on its way to the page                *)
  resort,       (* the click on #resort-queries is pending                   *)
  dial,         (* signature_to_widget: what its widgets' dials show         *)
  count         (* CURRENT_QUERIES                                           *)

collectorVars == <<stage, rows, todo, prev, stats>>
pageVars == <<page, copy, resort, dial, count>>
vars == <<execs, collectorVars, pageVars>>

Partial(S) == UNION {[D -> S] : D \in SUBSET Queries}
Counts == Partial(0..MaxExecs)
Rates == Partial(-MaxExecs..MaxExecs)
Empty == [q \in {} |-> 0]
With(f, q, v) == [r \in DOMAIN f \cup {q} |-> IF r = q THEN v ELSE f[r]]

LiveTypeOK ==
  /\ execs \in Counts /\ rows \in Counts /\ prev \in Counts
  /\ stage \in {"none", "sleep", "lock", "write", "dead"}
  /\ todo \subseteq DOMAIN rows
  /\ stats \in Rates
  /\ page \in {"asking", "half", "waiting", "stopped"}
  /\ copy \in Rates /\ dial \in Rates
  /\ resort \in BOOLEAN
  /\ count \in 0..MAX_QUERIES

LiveInit ==
  /\ execs \in Counts
  /\ stage = "none" /\ rows = Empty /\ todo = {}
  /\ prev = Empty /\ stats = Empty
  /\ page = "asking" /\ copy = Empty
  /\ resort = FALSE /\ dial = Empty /\ count = 0
-----------------------------------------------------------------------------
(* The database lists a plan, runs it, and drops it when it likes.         *)
List(q) ==
  /\ q \notin DOMAIN execs
  /\ execs' = With(execs, q, 0)
  /\ UNCHANGED <<collectorVars, pageVars>>

Execute(q) ==
  /\ q \in DOMAIN execs /\ execs[q] < MaxExecs
  /\ execs' = [execs EXCEPT ![q] = @ + 1]
  /\ UNCHANGED <<collectorVars, pageVars>>

Drop(q) ==
  /\ q \in DOMAIN execs \cap Volatile
  /\ execs' = Restrict(execs, DOMAIN execs \ {q})
  /\ UNCHANGED <<collectorVars, pageVars>>
-----------------------------------------------------------------------------
(* A round of save_plancache_loop; a query that fails is the end of it.    *)
Query ==
  /\ stage = "sleep"
  /\ stage' = "lock" /\ rows' = execs
  /\ UNCHANGED <<execs, todo, prev, stats, pageVars>>

QueryFails ==
  /\ stage = "sleep"
  /\ stage' = "dead" /\ rows' = Empty /\ prev' = Empty
  /\ UNCHANGED <<execs, todo, stats, pageVars>>

Acquire ==
  /\ stage = "lock"
  /\ stage' = "write" /\ todo' = DOMAIN rows
  /\ UNCHANGED <<execs, rows, prev, stats, pageVars>>

(* An idle plan is not shown, but one that was busy goes down to 0.        *)
MovedStrict(q) == q \in DOMAIN prev /\ rows[q] # prev[q]
Moved(q) == q \in DOMAIN prev /\ (q \in DOMAIN stats \/ rows[q] # prev[q])

WriteRow ==
  /\ stage = "write"
  /\ \E q \in todo :
       /\ todo' = todo \ {q}
       /\ stats' = IF Moved(q) THEN With(stats, q, rows[q] - prev[q]) ELSE stats
       /\ prev' = With(prev, q, rows[q])
  /\ UNCHANGED <<execs, stage, rows, pageVars>>

Release ==
  /\ stage = "write" /\ todo = {}
  /\ stage' = "sleep"
  /\ UNCHANGED <<execs, rows, todo, prev, stats, pageVars>>
-----------------------------------------------------------------------------
(* /live/stats: plancacheFactory, get_stats and get_metrics.               *)
Launch ==
  /\ page = "asking" /\ stage = "none"
  /\ stage' = "sleep"
  /\ UNCHANGED <<execs, rows, todo, prev, stats, pageVars>>

CopyUnlocked ==
  /\ page = "asking" /\ stage \notin {"none", "dead"}
  /\ page' = "half" /\ copy' = stats
  /\ UNCHANGED <<execs, collectorVars, resort, dial, count>>
CopyStats ==
  /\ page = "asking" /\ stage \notin {"none", "dead", "write"}
  /\ page' = "half" /\ copy' = stats
  /\ UNCHANGED <<execs, collectorVars, resort, dial, count>>

(* PlancacheBroken: an error, and the page waits for other settings, which *)
(* the user may change back.                                               *)
Broken ==
  /\ page \in {"asking", "half"} /\ stage = "dead"
  /\ page' = "waiting" /\ copy' = Empty
  /\ UNCHANGED <<execs, collectorVars, resort, dial, count>>

SettingsUpdated ==
  /\ page = "waiting"
  /\ page' = "asking"
  /\ UNCHANGED <<execs, collectorVars, copy, resort, dial, count>>

(* No answer: genericError, and nobody asks again.                         *)
NoAnswer ==
  /\ page \in {"asking", "half"}
  /\ page' = "stopped" /\ copy' = Empty
  /\ UNCHANGED <<execs, collectorVars, resort, dial, count>>
-----------------------------------------------------------------------------
(* get_metrics, and onWorkloadReceive on the page.  The tuples are taken   *)
(* from the last, in any order that sorts them; signatureToQueryWidget     *)
(* adds widgets while it may.                                              *)
SortedUp(s) == \A i, j \in DOMAIN s : i < j => copy[s[i]] <= copy[s[j]]
Sorted(s) == \A i, j \in DOMAIN s : i < j => copy[s[i]] >= copy[s[j]]

WidgetsOneMore(tuples, shown, n) ==
  FoldLeft(LAMBDA w, q : IF q \in w.shown \/ w.n > MAX_QUERIES THEN w
                         ELSE [shown |-> w.shown \cup {q}, n |-> w.n + 1],
           [shown |-> shown, n |-> n], tuples)
Widgets(tuples, shown, n) ==
  FoldLeft(LAMBDA w, q : IF q \in w.shown \/ w.n >= MAX_QUERIES THEN w
                         ELSE [shown |-> w.shown \cup {q}, n |-> w.n + 1],
           [shown |-> shown, n |-> n], tuples)

ClearedCountKept == [shown |-> IF resort THEN {} ELSE DOMAIN dial, n |-> count]
Cleared == IF resort THEN [shown |-> {}, n |-> 0]
                     ELSE [shown |-> DOMAIN dial, n |-> count]

OnWorkloadReceive ==
  /\ page = "half" /\ stage \notin {"dead", "write"}
  /\ \E tuples \in SetToSeqs(DOMAIN copy) :
       /\ Sorted(tuples)
       /\ LET w == Widgets(tuples, Cleared.shown, Cleared.n)
          IN /\ dial' = [q \in w.shown |-> IF q \in DOMAIN copy THEN copy[q] ELSE dial[q]]
             /\ count' = w.n
  /\ resort' = FALSE
  /\ page' = "asking" /\ copy' = Empty
  /\ UNCHANGED <<execs, collectorVars>>

ClickResort ==
  /\ resort' = TRUE
  /\ UNCHANGED <<execs, collectorVars, page, copy, dial, count>>

Collect == Query \/ Acquire \/ WriteRow \/ Release

LiveNext ==
  \/ \E q \in Queries : List(q) \/ Execute(q) \/ Drop(q)
  \/ Collect \/ QueryFails
  \/ Launch \/ CopyStats \/ Broken \/ OnWorkloadReceive
  \/ SettingsUpdated \/ NoAnswer \/ ClickResort

(* The collector and the page's loop go on, and the page gets the lock.    *)
LiveFairness ==
  /\ WF_vars(Collect)
  /\ SF_vars(CopyStats) /\ SF_vars(OnWorkloadReceive)
  /\ WF_vars(Launch \/ Broken)

LiveSpec == LiveInit /\ [][LiveNext]_vars /\ LiveFairness
-----------------------------------------------------------------------------
(* What the page is sent is one round: it accounts for every row of the    *)
(* last round that wrote anything, although the rows are written one at a  *)
(* time by another process.                                                *)
SnapshotIsARound ==
  [][page = "asking" /\ page' = "half" =>
       stage = "lock" \/ \A q \in DOMAIN rows : q \in DOMAIN prev /\ prev[q] = rows[q]]_vars

(* CURRENT_QUERIES is the number of widgets, whatever the resorts: the     *)
(* page neither runs out of widgets nor shows more than MAX_QUERIES.       *)
WidgetsCounted == count = Cardinality(DOMAIN dial)

(* After a resort the widgets are those of the busiest plans.              *)
TopAfterResort ==
  [][page = "half" /\ page' = "asking" /\ resort =>
       /\ DOMAIN dial' \subseteq DOMAIN copy
       /\ \A q \in DOMAIN copy \ DOMAIN dial' :
            /\ count' = MAX_QUERIES
            /\ \A r \in DOMAIN dial' : copy[r] >= copy[q]]_vars

(* The dial of a plan that the database still lists, but does not run any  *)
(* more, goes down to 0 (plancache.py 42 writes a rate of 0 for a plan     *)
(* that had one).                                                          *)
Working == stage # "dead" /\ page \notin {"waiting", "stopped"}
DialsSettle ==
  \A q \in Queries :
    <>[](Working /\ q \in DOMAIN execs) => <>[](q \in DOMAIN dial => dial[q] = 0)
=============================================================================
