----------------------------- MODULE QueryTable -----------------------------
(* What a Python worker does with a workload: stress/query_table.py makes  *)
(* its table and stress/worker.py draws from it, period by period.  (How   *)
(* workloads and pauses reach a worker is WorkerPool's.)                   *)
(*                                                                         *)
(* A query text is a sequence of characters, upper and lower case alike;   *)
(* random() falls into one of total_qps equal parts, and probabilities are *)
(* counted in them, exactly.  A query that was drawn is in hand until it   *)
(* is counted, and a pause may come at any point of that.                  *)
(***************************************************************************)
EXTENDS Integers, FiniteSets, SequencesExt

CONSTANTS
  Queries,      (* query ids                                                 *)
  NoQuery,
  MaxDial,      (* bound: qps of a query                                     *)
  NWorkers,     (* nworkers                                                  *)
  MaxLen,       (* bound: characters of a text                               *)
  MaxPeriods    (* bound: periods of a run                                   *)

ASSUME TableAssumption ==
  /\ IsFiniteSet(Queries) /\ NoQuery \notin Queries
  /\ {MaxDial, MaxLen, MaxPeriods} \subseteq Nat
  /\ NWorkers \in Nat \ {0}

VARIABLES
  dials,         (* the workload                                             *)
  workload_l,    (* its ids, sorted                                          *)
  probabilities,
  query,         (* the text of the last row                                 *)
  string_list,   (* its pieces so far, and what splits them next             *)
  pass,
  phase,         (* table and text while the table is made; run, sent, gone  *)
                 (* (the database server has) and count around each query;   *)
                 (* paused, and failed (an exception ends the process)       *)
  periods,       (* periods begun                                            *)
  left,          (* draws left in the period                                 *)
  hand,          (* the query that was drawn last, until it is counted       *)
  stats,         (* the queries this worker has counted                      *)
  attempts       (* history: the queries that it has drawn                   *)

textVars == <<query, string_list, pass>>
tableVars == <<dials, workload_l, probabilities, textVars>>
runVars == <<periods, left, hand, stats, attempts>>
vars == <<tableVars, phase, runVars>>

Special == {"@", "^"}
Chars == Special \cup {"M", "T", " ", "x"}
Texts == BoundedSeq(Chars, MaxLen)

ALL_PARAM_TOKENS_SHORT_FIRST == << <<"@">>, <<"@", "M">>, <<"@", "T">>, <<"^">> >>
ALL_PARAM_TOKENS == << <<"@", "M">>, <<"@", "T">>, <<"@">>, <<"^">> >>
Passes == DOMAIN ALL_PARAM_TOKENS

Total(f) == FoldFunction(+, 0, f)
total_qps == Total(dials)

(* The share of one of n workers, in a period of 0.1 s.                    *)
WorkerQps(n) == ((total_qps + 1) \div n + 9) \div 10

TableTypeOK ==
  /\ dials \in [Queries -> 0..MaxDial]
  /\ workload_l \in SetToSeqs(Queries)
  /\ probabilities \in BoundedSeq(0..total_qps, Cardinality(Queries))
  /\ query \in Texts /\ pass \in Passes \cup {0}
  /\ phase \in {"table", "text", "run", "sent", "gone", "count", "paused", "failed"}
  /\ periods \in 0..MaxPeriods /\ left \in 0..WorkerQps(NWorkers)
  /\ hand \in Queries \cup {NoQuery}
  /\ {stats, attempts} \subseteq [Queries -> 0..(MaxPeriods * WorkerQps(NWorkers))]

AnyOrder(s) == \A i, j \in DOMAIN s : i # j => s[i] # s[j]
ByQps(s) == \A i, j \in DOMAIN s : i < j => dials[s[i]] <= dials[s[j]]

TableInit ==
  /\ dials \in [Queries -> 0..MaxDial]
  /\ workload_l \in {s \in SetToSeqs(Queries) : ByQps(s)}
  /\ probabilities = <<>>
  /\ query = <<>> /\ string_list = <<>> /\ pass = 0
  /\ phase = "table"
  /\ periods = 0 /\ left = 0 /\ hand = NoQuery
  /\ stats = [q \in Queries |-> 0] /\ attempts = stats
-----------------------------------------------------------------------------
(* One turn of the loop of QueryTable: its text is any text.               *)
RowDial == dials[workload_l[Len(probabilities) + 1]]
RowProbability == IF RowDial = 0 \/ probabilities = <<>> THEN RowDial
                  ELSE Last(probabilities) + RowDial

AddRow ==
  /\ phase = "table" /\ Len(probabilities) < Len(workload_l)
  /\ probabilities' = Append(probabilities, RowProbability)
  /\ query' \in Texts
  /\ string_list' = <<query'>> /\ pass' = 1
  /\ phase' = "text"
  /\ UNCHANGED <<dials, workload_l, runVars>>

(* s cut at every c, with the cs kept between the pieces.                  *)
Starts(s, c) == {i \in 1..(Len(s) - Len(c) + 1) : SubSeq(s, i, i + Len(c) - 1) = c}
InOrder(S) == CHOOSE s \in SetToSeqs(S) : \A i, j \in DOMAIN s : i < j => s[i] < s[j]

SplitAndFold(s, c) ==
  LET cuts == InOrder(Starts(s, c))
      From(k) == IF k = 1 THEN 1 ELSE cuts[k - 1] + Len(c)
      To(k) == IF k > Len(cuts) THEN Len(s) ELSE cuts[k] - 1
  IN [j \in 1..(2 * Len(cuts) + 1) |->
        IF j % 2 = 0 THEN c ELSE SubSeq(s, From((j + 1) \div 2), To((j + 1) \div 2))]

(* tokenize_query, a token at a time.                                      *)
Tokenize ==
  /\ phase = "text" /\ pass \in Passes
  /\ LET earlier == {ALL_PARAM_TOKENS[i] : i \in 1..(pass - 1)}
     IN string_list' =
          FlattenSeq([j \in DOMAIN string_list |->
            IF string_list[j] \in earlier THEN <<string_list[j]>>
            ELSE SplitAndFold(string_list[j], ALL_PARAM_TOKENS[pass])])
  /\ pass' = IF pass = Len(ALL_PARAM_TOKENS) THEN 0 ELSE pass + 1
  /\ UNCHANGED <<dials, workload_l, probabilities, query, phase, runVars>>

(* parse_query looks for the first word, before any token; without one the *)
(* index is out of range.                                                  *)
Parse ==
  /\ phase = "text" /\ pass = 0
  /\ phase' = IF ToSet(Head(string_list)) \subseteq {" "} THEN "failed" ELSE "table"
  /\ query' = <<>> /\ string_list' = <<>>
  /\ UNCHANGED <<dials, workload_l, probabilities, pass, runVars>>
-----------------------------------------------------------------------------
(* The workload is not empty: validate_workload has refused it otherwise.  *)
StartPeriodOneMore ==
  /\ \/ phase = "table" /\ Len(probabilities) = Len(workload_l) /\ total_qps > 0
     \/ phase = "run" /\ left = 0
  /\ periods < MaxPeriods
  /\ phase' = "run"
  /\ periods' = periods + 1 /\ left' = WorkerQps(NWorkers) + 1
  /\ UNCHANGED <<tableVars, hand, stats, attempts>>
StartPeriod ==
  /\ \/ phase = "table" /\ Len(probabilities) = Len(workload_l) /\ total_qps > 0
     \/ phase = "run" /\ left = 0
  /\ periods < MaxPeriods
  /\ phase' = "run"
  /\ periods' = periods + 1 /\ left' = WorkerQps(NWorkers)
  /\ UNCHANGED <<tableVars, hand, stats, attempts>>

(* get_random_query; find_gt is bisect_right.                              *)
FindGt(x) == Cardinality({i \in DOMAIN probabilities : probabilities[i] <= x})
RandomQuery(x) == workload_l[FindGt(x) + 1]

Draw(x) ==
  /\ phase = "run" /\ left > 0
  /\ phase' = "sent"
  /\ left' = left - 1
  /\ hand' = RandomQuery(x)
  /\ attempts' = [attempts EXCEPT ![hand'] = @ + 1]
  /\ UNCHANGED <<tableVars, periods, stats>>

Reach(from, to) ==
  /\ phase = from
  /\ phase' = to
  /\ UNCHANGED <<tableVars, runVars>>

(* The query succeeds, or fails in a way that is logged and no more.       *)
QueryReturns == Reach("sent", "count")

(* The server has gone, which a new connection may mend.  The query is not *)
(* sent again.                                                             *)
ServerGone == Reach("sent", "gone")
ReconnectNext ==
  /\ phase = "gone"
  /\ phase' = "run" /\ hand' = NoQuery
  /\ UNCHANGED <<tableVars, periods, left, stats, attempts>>
Reconnect == Reach("gone", "count")

(* One of the uncaught_errors, or the new connection fails.                *)
Raise == Reach("sent", "failed") \/ Reach("gone", "failed")

Count ==
  /\ phase = "count"
  /\ phase' = "run"
  /\ stats' = [stats EXCEPT ![hand] = @ + 1]
  /\ hand' = NoQuery
  /\ UNCHANGED <<tableVars, periods, left, attempts>>

(* KeyboardInterrupt, wherever the worker is.  What is in hand will not be *)
(* counted; a connection that is neither in order nor to be renewed is an  *)
(* error.  A pause is the end of the workload here.                        *)
Interrupt ==
  /\ phase \notin {"paused", "failed"}
  /\ phase' \in {"paused", "failed"}
  /\ UNCHANGED <<tableVars, runVars>>

TableNext ==
  \/ AddRow \/ Tokenize \/ Parse
  \/ StartPeriod
  \/ \E x \in 0..(total_qps - 1) : Draw(x)
  \/ QueryReturns \/ ServerGone \/ Reconnect \/ Raise \/ Count
  \/ Interrupt

TableSpec == TableInit /\ [][TableNext]_vars
-----------------------------------------------------------------------------
(* A query is drawn as often as its dial says: of the total_qps equal      *)
(* parts of random(), dials[q] draw q; one that is at 0 is never drawn and *)
(* the search never runs past the table.                                   *)
DrawsMatchDials ==
  phase = "run" =>
    \A q \in Queries :
      Cardinality({x \in 0..(total_qps - 1) : RandomQuery(x) = q}) = dials[q]

(* templates/index.html 161, "Adjust the dial to set the number of queries *)
(* per second sent": a second is ten periods, the workers are alike, and   *)
(* what they have sent when a period is over is within a factor of two of  *)
(* what the dials say.                                                     *)
DialSetsRate ==
  phase = "run" /\ left = 0 =>
    LET sent == 10 * NWorkers * Total(attempts)
        dialled == periods * total_qps
    IN dialled <= 2 * sent /\ sent <= 2 * dialled

(* Whichever way an attempt ends, well, with an error that is logged, or   *)
(* with a new connection, it is counted once, and before the next is drawn *)
(* (worker.py 61-81): the rates on the dials are of queries sent.  A pause *)
(* or an exception (88-97, 99) leaves out one at most, that was in hand.   *)
AttemptsCount ==
  /\ \A q \in Queries : attempts[q] = stats[q] + (IF q = hand THEN 1 ELSE 0)
  /\ phase = "run" => hand = NoQuery

(* query_table.py 18, "ordered very specifically": a text is cut at the    *)
(* longest tokens, nothing is lost, and no token is left inside a piece.   *)
TokensAreLongest ==
  phase = "text" /\ pass = 0 =>
    /\ FlattenSeq(string_list) = query
    /\ \A j \in DOMAIN string_list :
         /\ j % 2 = 1 => ToSet(string_list[j]) \cap Special = {}
         /\ j % 2 = 0 => string_list[j] \in ToSet(ALL_PARAM_TOKENS)
         /\ string_list[j] = <<"@">> /\ string_list[j + 1] # <<>> =>
              Head(string_list[j + 1]) \notin {"M", "T"}
=============================================================================
