-------------------------- MODULE PlayButtonProofs --------------------------
(* Theorems about the page and the server together, for every number of    *)
(* request slots, workloads, workers and windows.                          *)
EXTENDS PlayButton, DispatchProofs, FiniteSetTheorems

(* Any set of workers is finite, and a part of it is no larger.            *)
LEMMA CrewFinite ==
  ASSUME NEW S \in SUBSET Workers, NEW T \in SUBSET S
  PROVE  /\ IsFiniteSet(S) /\ IsFiniteSet(T)
         /\ Cardinality(S) \in Nat /\ Cardinality(T) \in Nat
         /\ Cardinality(T) <= Cardinality(S)
<1>1. IsFiniteSet(1..MaxBatches) /\ IsFiniteSet(1..MaxWorkers)
  BY BoundsAssumption, FS_Interval
<1>2. IsFiniteSet(Workers)
  BY <1>1, FS_Product DEF Workers, Batches
<1>3. IsFiniteSet(S)
  BY <1>2, FS_Subset
<1> QED
  BY <1>3, FS_Subset, FS_CardinalityType

(* A crew of one batch, numbered up to n, has at most n workers.           *)
LEMMA CrewSize ==
  ASSUME NEW S \in SUBSET Workers, NEW b, NEW n \in Nat,
         \A w \in S : w[1] = b /\ w[2] <= n
  PROVE  Cardinality(S) <= n
<1>1. IsFiniteSet(1..n) /\ Cardinality(1..n) = n
  BY FS_Interval
<1>2. IsFiniteSet({b}) /\ Cardinality({b}) = 1
  BY FS_Singleton
<1>3. IsFiniteSet({b} \X (1..n)) /\ Cardinality({b} \X (1..n)) = 1 * n
  BY <1>1, <1>2, FS_Product, ZenonT(40)
<1>4. S \subseteq {b} \X (1..n)
  BY BoundsAssumption DEF Workers
<1> QED
  BY <1>3, <1>4, FS_Subset

(* The window ids of a tidy page, and those of any page.                   *)
LEMMA Numbered ==
  ASSUME NEW n \in Nat
  PROVE  IsFiniteSet(0..(n - 1)) /\ Cardinality(0..(n - 1)) = n /\ Contiguous(0..(n - 1))
<1>1. IsFiniteSet(0..(n - 1)) /\ Cardinality(0..(n - 1)) = n
  BY FS_Interval
<1> QED
  BY <1>1 DEF Contiguous

LEMMA OneMore ==
  ASSUME NEW n \in Nat
  PROVE  0..(n - 1) \cup {n} = 0..((n + 1) - 1)
  OBVIOUS

LEMMA WindowsFinite ==
  ASSUME NEW S \in SUBSET Ids
  PROVE  IsFiniteSet(S) /\ Cardinality(S) \in 0..MaxWindows
<1>1. IsFiniteSet(Ids) /\ Cardinality(Ids) = MaxWindows
  BY HabitsAssumption, FS_Interval DEF Ids
<1>2. IsFiniteSet(S) /\ Cardinality(S) <= Cardinality(Ids)
  BY <1>1, FS_Subset
<1>3. Cardinality(S) \in Nat
  BY <1>2, FS_CardinalityType
<1> QED
  BY <1>1, <1>2, <1>3, HabitsAssumption

(* Every step of the page and its server is a step of the server alone or  *)
(* leaves the server as it is.                                             *)
LEMMA ServerSteps == [PageNext]_vars => [Next]_dispatchVars
<1> SUFFICES ASSUME [PageNext]_vars PROVE [Next]_dispatchVars
  OBVIOUS
<1>1. CASE Unseen
  BY <1>1 DEF Unseen, HandlerStep, Next, WorkloadStep, KillStep, PollStep
<1>2. ASSUME NEW h \in Control, PlayAnswered(h) \/ PauseAnswered(h)
      PROVE  [Next]_dispatchVars
  BY <1>2 DEF PlayAnswered, PauseAnswered, Next, WorkloadStep, KillStep
<1>3. ASSUME NEW h \in Control, NEW m \in Ids, WorkerSpawned(h, m)
      PROVE  [Next]_dispatchVars
  BY <1>3 DEF WorkerSpawned, Next, WorkloadStep, Spawn
<1>4. ASSUME NEW w \in Workers, StatTaken(w)
      PROVE  [Next]_dispatchVars
  BY <1>4 DEF StatTaken, Next
<1>5. ASSUME NEW p \in Pollers, ReportTaken(p) \/ PollAnswered(p)
      PROVE  [Next]_dispatchVars
  BY <1>5 DEF ReportTaken, PollAnswered, Next, PollStep
<1>6. ASSUME PageStep
      PROVE  [Next]_dispatchVars
  BY <1>6 DEF PageStep, PlayReplied, LoopPauses, PlayRefused, PauseReplied,
              LoopAsks, LoopEnds, LoopReceives, Next, Arrivals
<1>7. ASSUME UserStep
      PROVE  [Next]_dispatchVars
  BY <1>7 DEF UserStep, ClickPlay, ClickPause, LoadPage, NewWindow, CloseWindow,
              ClearWorkload, OpenWorkload, LoadWindows, Next, Arrivals
<1>8. CASE UNCHANGED vars
  BY <1>8 DEF vars
<1> QED
  BY <1>1, <1>2, <1>3, <1>4, <1>5, <1>6, <1>7, <1>8 DEF PageNext, ServerStep

(* The page asks nothing of the server that module Dispatch does not       *)
(* allow: whatever holds of Dispatch holds behind the page (stress.js      *)
(* 3-153 against handlers.go).                                             *)
THEOREM PageUsesServer == PageSpec => Spec
<1>1. PageInit => Init
  BY DEF PageInit
<1> QED
  BY <1>1, ServerSteps, PTL DEF PageSpec, Spec

(* The variables of the page hold values of their types: no window id is   *)
(* above the bound, however windows are made, closed, cleared and          *)
(* renumbered by a page load (query_dial.js, common.js).                   *)
THEOREM PageTyped == PageSpec => []PageTypeOK
<1> USE HabitsAssumption DEF Ids
<1>1. PageInit => PageTypeOK
  <2> SUFFICES ASSUME PageInit PROVE PageTypeOK
    OBVIOUS
  <2>1. TypeOK
    BY BoundsAssumption, NoFileAssumption DEF PageInit, Init, TypeOK, Batches, Workers
  <2>2. 0 \in Ids /\ 1 \in 0..MaxWindows
    OBVIOUS
  <2>3. model \in [Workers -> Ids]
    BY <2>2 DEF PageInit
  <2> QED
    BY <2>1, <2>2, <2>3 DEF PageInit, PageTypeOK
<1>2. PageTypeOK /\ TypeOK' /\ [PageNext]_vars => PageTypeOK'
  <2> SUFFICES ASSUME PageTypeOK, TypeOK', [PageNext]_vars PROVE PageTypeOK'
    OBVIOUS
  <2> USE DEF PageTypeOK, talkVars, loopVars, editVars, pageVars, rateVars
  <2>1. CASE Unseen
    BY <2>1 DEF Unseen
  <2>2. ASSUME NEW h \in Control, PlayAnswered(h) \/ PauseAnswered(h), UNCHANGED rateVars
        PROVE  PageTypeOK'
    BY <2>2 DEF PlayAnswered, PauseAnswered, Answer
  <2>3. ASSUME NEW h \in Control, NEW m \in Ids, WorkerSpawned(h, m)
        PROVE  PageTypeOK'
    BY <2>3 DEF WorkerSpawned
  <2>4. ASSUME NEW w \in Workers, StatTaken(w)
        PROVE  PageTypeOK'
    BY <2>4 DEF StatTaken
  <2>5. ASSUME NEW p \in Pollers, ReportTaken(p)
        PROVE  PageTypeOK'
    BY <2>5 DEF ReportTaken
  <2>6. ASSUME NEW p \in Pollers, PollAnswered(p), UNCHANGED rateVars
        PROVE  PageTypeOK'
    BY <2>6 DEF PollAnswered, PollAnswer
  <2>7. ASSUME NEW h \in Control, NEW p \in Pollers, PlayReplied(h, p) \/ LoopPauses(p, h)
        PROVE  PageTypeOK'
    BY <2>7 DEF PlayReplied, LoopPauses
  <2>8. ASSUME NEW h \in Control, PlayRefused(h) \/ PauseReplied(h)
        PROVE  PageTypeOK'
    BY <2>8 DEF PlayRefused, PauseReplied
  <2>9. ASSUME NEW p \in Pollers, LoopAsks(p) \/ LoopEnds(p) \/ LoopReceives(p)
        PROVE  PageTypeOK'
    BY <2>9 DEF LoopAsks, LoopEnds, LoopReceives, AfterReport
  <2>10. ASSUME NEW h \in Control, NEW n \in 0..MaxWorkers, NEW posted \in Workloads,
                ClickPlay(h, n, posted)
         PROVE  PageTypeOK'
    BY <2>10 DEF ClickPlay
  <2>11. ASSUME NEW h \in Control, ClickPause(h)
         PROVE  PageTypeOK'
    BY <2>11 DEF ClickPause
  <2>12. ASSUME NEW h \in Control, LoadPage(h)
         PROVE  PageTypeOK'
    <3>2. Cardinality(widgets) \in 0..MaxWindows
      BY WindowsFinite
    <3>3. PICK n \in 0..MaxWindows : widgets' = 0..(n - 1) /\ nextId' = n
      BY <2>12, <3>2 DEF LoadPage, LoadWindows
    <3>4. n \in 0..MaxWindows
      OBVIOUS
    <3>5. widgets' \subseteq Ids /\ nextId' \in 0..MaxWindows
      BY <3>3, <3>4
    <3>6. asked' \in [Control -> {"none", "play", "pause", "played", "refused", "paused"}]
      BY <2>12 DEF LoadPage
    <3>7. loops' \in [Pollers -> {"off"}] /\ carried' \in [Pollers -> {{}}]
      BY <2>12 DEF LoadPage
    <3>8. running' = 0 /\ syncing' = TRUE /\ UNCHANGED rateVars
      BY <2>12 DEF LoadPage
    <3> QED
      BY <3>5, <3>6, <3>7, <3>8
  <2>13. ASSUME NewWindow \/ ClearWorkload \/ OpenWorkload \/ \E i \in widgets : CloseWindow(i)
         PROVE  PageTypeOK'
    <3>1. CASE NewWindow
      BY <3>1 DEF NewWindow
    <3>2. CASE ClearWorkload
      BY <3>2 DEF ClearWorkload
    <3>3. ASSUME NEW i \in widgets, CloseWindow(i)
          PROVE  PageTypeOK'
      BY <3>3 DEF CloseWindow
    <3>4. CASE OpenWorkload
      BY <3>4 DEF OpenWorkload, LoadWindows
    <3> QED
      BY <2>13, <3>1, <3>2, <3>3, <3>4
  <2>14. CASE UNCHANGED vars
    BY <2>14 DEF vars
  <2> QED
    BY <2>1, <2>2, <2>3, <2>4, <2>5, <2>6, <2>7, <2>8, <2>9, <2>10, <2>11, <2>12,
       <2>13, <2>14 DEF PageNext, ServerStep, PageStep, UserStep
<1> QED
  BY <1>1, <1>2, PageUsesServer, Typed, PTL DEF PageSpec
-----------------------------------------------------------------------------
NoTimeouts == \A p \in Pollers : loops[p] # "timeout"

Inv == TypeInv /\ PageTypeOK /\ NoTimeouts /\ CarefulInv

LEMMA LiveSize ==
  ASSUME NEW n \in Nat, Cardinality(Live) <= n
  PROVE  Cardinality(Live) \in Nat /\ (n = 0 => Live = {})
<1>1. Live \in SUBSET Workers
  BY DEF Live
<1> QED
  BY <1>1, CrewFinite, FS_EmptySet

LEMMA NoneLive == Live = {} => Cardinality(Live) = 0
  BY FS_EmptySet

(* A step that moves no request and starts no worker.                      *)
LEMMA Fewer ==
  ASSUME Inv, UNCHANGED <<appVars, reqVars, talkVars>>, Contiguous(widgets)',
         \A w \in Workers : wpc'[w] = wpc[w] \/ (w \in Live /\ wpc'[w] # "none")
  PROVE  CarefulInv'
<1> USE DEF appVars, reqVars, talkVars
<1>1. Live \in SUBSET Workers /\ Live' \in SUBSET Live
  BY DEF Live
<1>2. Cardinality(Live') <= Cardinality(Live) /\ Cardinality(Live') \in Nat
      /\ Cardinality(Live) \in Nat
  BY <1>1, CrewFinite
<1>3. \A w \in Workers : wpc[w] = "none" => wpc'[w] = "none"
  BY DEF Live
<1>4. \A n \in Nat : Cardinality(Live) <= n => Cardinality(Live') <= n
  BY <1>2
<1>5. TypeOK
  BY DEF Inv, TypeInv
<1>6. \A h \in Control : left[h] \in Nat /\ currentWorkers \in Nat
  BY <1>5, BoundsAssumption DEF TypeOK
<1>7. OneAwaited'
  BY DEF Inv, CarefulInv, OneAwaited, Awaiting
<1>8. Resting'
  <2>1. Cardinality(Live) <= currentWorkers => Cardinality(Live') <= currentWorkers
    BY <1>2, <1>5, BoundsAssumption DEF TypeOK
  <2> QED
    BY <1>1, <2>1 DEF Inv, CarefulInv, Resting, Awaiting
<1>9. OneCrew' /\ NoLeakedFile'
  BY <1>1, <1>3 DEF Inv, CarefulInv, OneCrew, NoLeakedFile
<1>10. ASSUME NEW h \in Control PROVE Starting(h)'
  <2>1. Starting(h)
    BY DEF Inv, CarefulInv
  <2>2. \A i \in 1..left[h] : wpc[<<batches, i>>] = "none" /\ asked[h] = "play"
          => wpc'[<<batches, i>>] = "none"
    <3> SUFFICES ASSUME NEW i \in 1..left[h], wpc[<<batches, i>>] = "none",
                        asked[h] = "play", hpc[h] \in {"create", "accept", "spawn"}
                 PROVE  wpc'[<<batches, i>>] = "none"
      BY <2>1 DEF Starting
    <3>1. batches \in Batches
      BY <1>5, <2>1 DEF Starting, TypeOK, Batches, Inv, TypeInv, BatchKnown
    <3>2. i \in 1..MaxWorkers
      BY <1>5, BoundsAssumption DEF TypeOK
    <3>3. <<batches, i>> \in Workers
      BY <3>1, <3>2 DEF Workers
    <3> QED
      BY <1>3, <3>3
  <2> QED
    BY <1>1, <2>1, <2>2 DEF Starting
<1>11. ASSUME NEW h \in Control PROVE Stopping(h)' /\ Answered(h)'
  BY <1>1, <1>4, <1>6 DEF Inv, CarefulInv, Stopping, Answered
<1> QED
  BY <1>7, <1>8, <1>9, <1>10, <1>11 DEF CarefulInv

(* A step that concerns one request leaves the other slots empty.          *)
LEMMA Alone ==
  ASSUME Inv, NEW h \in Control, asked[h] # "none" \/ Awaiting = {},
         \A i \in Control \ {h} : asked'[i] = asked[i] /\ hpc'[i] = hpc[i]
  PROVE  /\ OneAwaited'
         /\ Awaiting' \subseteq {h}
         /\ \A i \in Control \ {h} : Starting(i)' /\ Stopping(i)' /\ Answered(i)'
<1>1. \A i \in Control \ {h} : asked[i] = "none" /\ hpc[i] = "idle"
  BY DEF Inv, CarefulInv, OneAwaited, Awaiting, Answered
<1>2. Awaiting' \subseteq {h}
  BY <1>1 DEF Awaiting
<1>3. OneAwaited'
  BY <1>2 DEF OneAwaited
<1> QED
  BY <1>1, <1>2, <1>3 DEF Starting, Stopping, Answered

(* The steps of a handler that the page does not see.                      *)
LEMMA HandlerSteps ==
  ASSUME Inv, NEW h \in Control, HandlerStep(h), UNCHANGED <<pageVars, rateVars>>
  PROVE  CarefulInv'
<1> USE DEF Goto, Reply, Arrive, appVars, pageVars, talkVars, editVars
<1>1. TypeOK /\ Starting(h) /\ Stopping(h) /\ Answered(h) /\ OneCrew /\ NoLeakedFile
      /\ Contiguous(widgets) /\ Resting
  BY DEF Inv, TypeInv, CarefulInv
<1>2. hpc[h] # "idle" /\ UNCHANGED <<wpc, batches, kind, own, windows, left>>
  BY DEF HandlerStep, CreateFile, AcceptWorkload, SendKill, PauseKillsDone,
         PauseFindsFile, CloseFile
<1>3. asked[h] \in {"play", "pause"}
  BY <1>1, <1>2 DEF Answered, Inv, PageTypeOK
<1>4. \A i \in Control \ {h} : asked'[i] = asked[i] /\ hpc'[i] = hpc[i]
  BY <1>1 DEF HandlerStep, CreateFile, AcceptWorkload, SendKill, PauseKillsDone,
         PauseFindsFile, CloseFile, TypeOK
<1>5. /\ OneAwaited'
      /\ Awaiting' \subseteq {h}
      /\ \A i \in Control \ {h} : Starting(i)' /\ Stopping(i)' /\ Answered(i)'
  BY <1>3, <1>4, Alone
<1>6. Awaiting' # {}
  BY <1>3 DEF Awaiting
<1>7. Resting' /\ OneCrew' /\ Contiguous(widgets)' /\ Live' = Live
  BY <1>1, <1>2, <1>6 DEF Resting, OneCrew, Live, Contiguous
<1>8. Answered(h)'
  BY <1>1, <1>3 DEF Answered
<1>9. NoLeakedFile' /\ Starting(h)' /\ Stopping(h)'
  <2>1. CASE CreateFile(h)
    BY <1>1, <1>2, <1>3, <1>7, <2>1 DEF CreateFile, NoLeakedFile, Starting, Stopping, TypeOK
  <2>2. CASE AcceptWorkload(h)
    BY <1>1, <1>2, <1>3, <1>7, <2>2 DEF AcceptWorkload, NoLeakedFile, Starting, Stopping, TypeOK
  <2>3. CASE SendKill(h)
    BY <1>1, <1>2, <1>3, <1>7, <2>3 DEF SendKill, NoLeakedFile, Starting, Stopping, TypeOK
  <2>4. CASE PauseKillsDone(h)
    <3>1. Live = {}
      <4>1. Cardinality(Live) <= 0
        BY <1>1, <1>3, <2>4 DEF PauseKillsDone, Stopping, Starting
      <4> QED
        BY <4>1, LiveSize
    <3> QED
      BY <1>1, <1>2, <1>3, <1>7, <2>4, <3>1
      DEF PauseKillsDone, NoLeakedFile, Starting, Stopping, TypeOK
  <2>5. CASE PauseFindsFile(h)
    BY <1>1, <1>2, <1>3, <1>7, <2>5 DEF PauseFindsFile, NoLeakedFile, Starting, Stopping, TypeOK
  <2>6. CASE CloseFile(h)
    BY <1>1, <1>2, <1>3, <1>7, <2>6 DEF CloseFile, NoLeakedFile, Starting, Stopping, TypeOK
  <2> QED
    BY <2>1, <2>2, <2>3, <2>4, <2>5, <2>6 DEF HandlerStep
<1> QED
  BY <1>5, <1>7, <1>8, <1>9 DEF CarefulInv

(* A worker takes a kill: the kills owed and the workers alive both lose   *)
(* one.                                                                    *)
LEMMA KillSteps ==
  ASSUME Inv, NEW h \in Control, NEW w \in Workers, TakeKill(h, w), UNCHANGED pageVars
  PROVE  CarefulInv'
<1> USE DEF Goto, appVars, pageVars, talkVars, editVars
<1>1. TypeOK /\ Starting(h) /\ Stopping(h) /\ Answered(h) /\ OneCrew /\ NoLeakedFile
      /\ Contiguous(widgets)
  BY DEF Inv, TypeInv, CarefulInv
<1>2. asked[h] = "pause" /\ hpc'[h] = "kill" /\ left'[h] = left[h] - 1 /\ left[h] \in Nat
      /\ Cardinality(Live) <= left[h]
  BY <1>1, BoundsAssumption DEF TakeKill, Answered, Starting, Stopping, Inv, PageTypeOK, TypeOK
<1>3. w \in Live /\ Live' = Live \ {w}
  BY <1>1 DEF TakeKill, Live, TypeOK
<1>4. IsFiniteSet(Live) /\ Cardinality(Live) \in Nat
  <2>1. Live \in SUBSET Workers
    BY DEF Live
  <2> QED
    BY <2>1, CrewFinite
<1>5. Cardinality(Live') <= left'[h]
  <2>1. Cardinality(Live \ {w}) = Cardinality(Live) - 1
    BY <1>3, <1>4, FS_RemoveElement
  <2>2. Cardinality(Live') = Cardinality(Live \ {w})
    BY <1>3
  <2> QED
    BY <1>2, <1>4, <2>1, <2>2
<1>6. \A i \in Control \ {h} : asked'[i] = asked[i] /\ hpc'[i] = hpc[i]
  BY <1>1 DEF TakeKill, TypeOK
<1>7. /\ OneAwaited'
      /\ \A i \in Control \ {h} : Starting(i)' /\ Stopping(i)' /\ Answered(i)'
  BY <1>2, <1>6, Alone
<1>8. Awaiting' # {}
  BY <1>2 DEF Awaiting
<1>9. Resting' /\ OneCrew' /\ NoLeakedFile' /\ Contiguous(widgets)'
  BY <1>1, <1>3, <1>8 DEF Resting, OneCrew, NoLeakedFile, Contiguous, TakeKill, TypeOK
<1>10. Starting(h)' /\ Stopping(h)' /\ Answered(h)'
  BY <1>1, <1>2, <1>5 DEF Starting, Stopping, Answered, TakeKill
<1> QED
  BY <1>7, <1>9, <1>10 DEF CarefulInv

(* A worker is started: it is the next of its batch, and the spawns owed   *)
(* lose one.                                                               *)
LEMMA SpawnSteps ==
  ASSUME Inv, NEW h \in Control, NEW m \in Ids, WorkerSpawned(h, m)
  PROVE  CarefulInv'
<1> USE DEF appVars, pageVars, talkVars, editVars
<1> DEFINE new == <<own[h], left[h]>>
<1>1. TypeOK /\ Starting(h) /\ Stopping(h) /\ Answered(h) /\ OneCrew /\ NoLeakedFile
      /\ Contiguous(widgets)
  BY DEF Inv, TypeInv, CarefulInv
<1>2. /\ asked[h] = "play" /\ hpc[h] = "spawn" /\ left[h] \in 1..MaxWorkers
      /\ left'[h] = left[h] - 1 /\ own[h] = batches
      /\ UNCHANGED <<appVars, batches, hpc, kind, own, windows, pageVars>>
  BY <1>1, BoundsAssumption
  DEF WorkerSpawned, Spawn, Answered, Starting, Stopping, Inv, PageTypeOK, TypeOK
<1>3. new \in Workers
  BY <1>2 DEF Inv, TypeInv, BatchKnown, Workers
<1>4. wpc' = [wpc EXCEPT ![new] = "select"]
  BY DEF WorkerSpawned, Spawn
<1>5. Live' = Live \cup {new}
  BY <1>1, <1>3, <1>4 DEF Live, TypeOK
<1>6. \A i \in Control \ {h} : asked'[i] = asked[i] /\ hpc'[i] = hpc[i]
  BY <1>2
<1>7. /\ OneAwaited'
      /\ \A i \in Control \ {h} : Starting(i)' /\ Stopping(i)' /\ Answered(i)'
  BY <1>2, <1>6, Alone
<1>8. Awaiting' # {}
  BY <1>2 DEF Awaiting
<1>9. OneCrew'
  <2>1. \A w \in Live' : w[1] = batches'
    BY <1>1, <1>2, <1>5 DEF OneCrew
  <2>2. ASSUME NEW w \in Workers, w[1] > batches PROVE wpc'[w] = "none"
    <3>1. w # new /\ wpc[w] = "none"
      BY <1>1, <1>2, <2>2 DEF OneCrew, TypeOK
    <3> QED
      BY <1>1, <1>4, <3>1 DEF TypeOK
  <2> QED
    BY <1>2, <2>1, <2>2 DEF OneCrew
<1>10. Resting' /\ NoLeakedFile' /\ Contiguous(widgets)'
  BY <1>1, <1>2, <1>8 DEF Resting, NoLeakedFile, Contiguous
<1>11. Starting(h)'
  <2>1. ASSUME NEW i \in 1..left'[h] PROVE wpc'[<<batches, i>>] = "none"
    <3>1. i \in 1..left[h] /\ i # left[h] /\ <<batches, i>> \in Workers
      <4>1. i \in 1..(left[h] - 1)
        BY <1>2
      <4>2. i \in 1..left[h] /\ i # left[h] /\ i \in 1..MaxWorkers
        BY <1>2, <4>1, BoundsAssumption
      <4>3. batches \in Batches
        BY <1>2, <1>3 DEF Workers
      <4> QED
        BY <4>2, <4>3 DEF Workers
    <3>2. wpc[<<batches, i>>] = "none" /\ <<batches, i>> # new
      BY <1>1, <1>2, <3>1 DEF Starting
    <3> QED
      BY <1>1, <1>4, <3>1, <3>2 DEF TypeOK
  <2>2. left'[h] <= currentWorkers
    BY <1>1, <1>2, BoundsAssumption DEF Starting, TypeOK
  <2>3. ASSUME NEW w \in Live' PROVE left'[h] < w[2] /\ w[2] <= currentWorkers
    <3>1. CASE w \in Live
      <4>1. w[2] \in Nat
        BY <3>1 DEF Live, Workers
      <4> QED
        BY <1>1, <1>2, <3>1, <4>1 DEF Starting
    <3>2. CASE w = new
      BY <1>1, <1>2, <3>2 DEF Starting
    <3> QED
      BY <1>5, <3>1, <3>2
  <2> QED
    BY <1>1, <1>2, <2>1, <2>2, <2>3 DEF Starting, Contiguous
<1>12. Stopping(h)' /\ Answered(h)'
  BY <1>2 DEF Stopping, Answered
<1> QED
  BY <1>7, <1>9, <1>10, <1>11, <1>12 DEF CarefulInv

(* The server answers: the loop of spawns is over, or the pause is.        *)
LEMMA AnswerSteps ==
  ASSUME Inv, Careful, NEW h \in Control, PlayAnswered(h) \/ PauseAnswered(h)
  PROVE  CarefulInv'
<1> USE DEF Goto, Reply, Answer, appVars, editVars
<1>1. TypeOK /\ Starting(h) /\ Stopping(h) /\ Answered(h) /\ OneCrew /\ NoLeakedFile
      /\ Contiguous(widgets)
  BY DEF Inv, TypeInv, CarefulInv
<1>2. /\ hpc[h] # "idle" /\ hpc'[h] = "idle"
      /\ UNCHANGED <<wpc, batches, widgets, running, currentWorkers>>
      /\ asked[h] \in {"play", "pause"}
  BY <1>1 DEF PlayAnswered, PauseAnswered, WorkloadDone, RejectWorkload, SpawnPanics,
     PauseNoFile, ClearFile, Answered, Inv, PageTypeOK, TypeOK
<1>3. \A i \in Control \ {h} : asked'[i] = asked[i] /\ hpc'[i] = hpc[i]
  BY <1>1 DEF PlayAnswered, PauseAnswered, WorkloadDone, RejectWorkload, SpawnPanics,
     PauseNoFile, ClearFile, Inv, PageTypeOK, TypeOK
<1>4. /\ OneAwaited'
      /\ \A i \in Control \ {h} : Starting(i)' /\ Stopping(i)' /\ Answered(i)'
  BY <1>2, <1>3, Alone
<1>5. Live' = Live
  BY <1>2 DEF Live
<1>6. \/ asked'[h] = "played" /\ WorkloadDone(h)
      \/ asked'[h] = "paused" /\ PauseAnswered(h)
  <2>1. ~RejectWorkload(h)
    BY <1>1, <1>2 DEF RejectWorkload, Starting, Stopping
  <2>2. ~SpawnPanics(h)
    BY <1>1, <1>2 DEF SpawnPanics, Drawn, Starting, Stopping, Contiguous
  <2>3. "garbles" \notin Habits
    BY DEF Careful
  <2>4. asked[h] # "none"
    BY <1>2
  <2>5. CASE PlayAnswered(h)
    <3>1. WorkloadDone(h) /\ Answer(h, "played")
      BY ONLY <2>1, <2>2, <2>3, <2>5, Zenon DEF PlayAnswered
    <3>2. asked'[h] = "played"
      BY <2>4, <3>1 DEF Inv, PageTypeOK
    <3> QED
      BY <3>1, <3>2
  <2>6. CASE PauseAnswered(h)
    <3>1. Answer(h, "paused")
      BY <2>6 DEF PauseAnswered
    <3>2. asked'[h] = "paused"
      BY <2>4, <3>1 DEF Inv, PageTypeOK
    <3> QED
      BY <2>6, <3>2
  <2> QED
    BY <2>5, <2>6
<1>7. Awaiting' # {}
  BY <1>6 DEF Awaiting
<1>8. Resting' /\ OneCrew' /\ Contiguous(widgets)'
  BY <1>1, <1>2, <1>5, <1>7 DEF Resting, OneCrew, Contiguous
<1>9. CASE asked'[h] = "played" /\ WorkloadDone(h)
  <2>1. Live \in SUBSET Workers
    BY DEF Live
  <2>2. currentWorkers \in Nat
    BY <1>1, BoundsAssumption DEF TypeOK
  <2>3. \A w \in Live : w[1] = batches /\ w[2] <= currentWorkers
    BY <1>1, <1>2, <1>9 DEF OneCrew, Starting, Stopping, WorkloadDone
  <2>4. Cardinality(Live) <= currentWorkers
    BY <2>1, <2>2, <2>3, CrewSize
  <2>5. NoLeakedFile' /\ running = 0
    BY <1>1, <1>2, <1>9 DEF NoLeakedFile, WorkloadDone, Starting, Stopping
  <2>6. Starting(h)' /\ Stopping(h)' /\ Answered(h)'
    BY <1>2, <1>5, <1>9, <2>4, <2>5 DEF Starting, Stopping, Answered
  <2> QED
    BY <1>4, <1>8, <2>5, <2>6 DEF CarefulInv
<1>10. CASE asked'[h] = "paused" /\ PauseAnswered(h)
  <2>1. Live = {} /\ hpc[h] \in {"check", "clear"}
    BY <1>1, <1>2, <1>10 DEF PauseAnswered, PauseNoFile, ClearFile, Starting, Stopping
  <2>2. openFiles' = {}
    <3>1. CASE PauseNoFile(h)
      <4>1. openFiles \subseteq Nat /\ openFiles \subseteq {NoFile}
        BY <1>1, <3>1 DEF PauseNoFile, NoLeakedFile, TypeOK, Batches
      <4> QED
        BY <3>1, <4>1, NoFileAssumption DEF PauseNoFile
    <3>2. CASE ClearFile(h)
      BY <1>1, <1>2, <3>2 DEF ClearFile, Starting, Stopping
    <3> QED
      BY <1>10, <3>1, <3>2 DEF PauseAnswered
  <2>3. Starting(h)' /\ Stopping(h)' /\ Answered(h)' /\ NoLeakedFile'
    BY <1>2, <1>5, <1>10, <2>1, <2>2 DEF Starting, Stopping, Answered, NoLeakedFile
  <2> QED
    BY <1>4, <1>8, <2>3 DEF CarefulInv
<1> QED
  BY <1>6, <1>9, <1>10

(* The steps of the page that no user asks for.                            *)
LEMMA PageSteps ==
  ASSUME Inv, PageStep
  PROVE  CarefulInv'
<1> USE DEF talkVars, editVars, appVars, reqVars
<1>1. TypeOK /\ OneCrew /\ NoLeakedFile /\ Contiguous(widgets)
      /\ \A i \in Control : Starting(i) /\ Stopping(i) /\ Answered(i)
  BY DEF Inv, TypeInv, CarefulInv
<1>2. ASSUME NEW h \in Control, asked[h] \in {"played", "paused"},
             asked' = [asked EXCEPT ![h] = "none"], UNCHANGED <<dispatchVars, widgets>>,
             asked[h] = "played" => running' = 1, asked[h] = "paused" => running' = 0
      PROVE  CarefulInv'
  <2>1. Live' = Live /\ UNCHANGED <<currentWorkers, openFiles, reportfile, hpc, wpc, batches>>
    BY <1>2 DEF Live, dispatchVars
  <2>2. \A i \in Control \ {h} : asked'[i] = asked[i] /\ hpc'[i] = hpc[i]
    BY <1>2, <2>1 DEF Inv, PageTypeOK
  <2>3. /\ OneAwaited'
        /\ \A i \in Control \ {h} : Starting(i)' /\ Stopping(i)' /\ Answered(i)'
    BY <1>2, <2>2, Alone
  <2>4. asked'[h] = "none" /\ hpc'[h] = "idle"
    BY <1>1, <1>2, <2>1 DEF Answered, Inv, PageTypeOK
  <2>5. Starting(h)' /\ Stopping(h)' /\ Answered(h)'
    BY <2>4 DEF Starting, Stopping, Answered
  <2>6. Cardinality(Live) <= currentWorkers
    <3>1. CASE asked[h] = "played"
      BY <1>1, <3>1 DEF Answered
    <3>2. CASE asked[h] = "paused"
      <4>1. Cardinality(Live) = 0
        BY <1>1, <3>2, NoneLive DEF Answered
      <4> QED
        BY <1>1, <4>1, BoundsAssumption DEF TypeOK
    <3> QED
      BY <1>2, <3>1, <3>2
  <2>7. Resting'
    BY <1>1, <1>2, <2>1, <2>6 DEF Resting, Answered
  <2>8. OneCrew' /\ NoLeakedFile' /\ Contiguous(widgets)'
    BY <1>1, <1>2, <2>1 DEF OneCrew, NoLeakedFile, Contiguous
  <2> QED
    BY <2>3, <2>5, <2>7, <2>8 DEF CarefulInv
<1>3. ASSUME NEW h \in Control, NEW p \in Pollers, PlayReplied(h, p)
      PROVE  CarefulInv'
  BY <1>2, <1>3 DEF PlayReplied
<1>4. ASSUME NEW h \in Control, NEW p \in Pollers, LoopPauses(p, h)
      PROVE  CarefulInv'
  BY <1>4 DEF LoopPauses, Inv, NoTimeouts
<1>5. ASSUME NEW h \in Control, PlayRefused(h)
      PROVE  CarefulInv'
  BY <1>1, <1>5 DEF PlayRefused, Answered
<1>6. ASSUME NEW h \in Control, PauseReplied(h)
      PROVE  CarefulInv'
  BY <1>2, <1>6 DEF PauseReplied
<1>7. ASSUME NEW p \in Pollers, LoopAsks(p) \/ LoopEnds(p) \/ LoopReceives(p)
      PROVE  CarefulInv'
  <2>1. UNCHANGED <<appVars, reqVars, talkVars, widgets, wpc>>
    BY <1>7 DEF LoopAsks, LoopEnds, LoopReceives, PollArrives, PollGoto, dispatchVars
  <2>2. Contiguous(widgets)'
    BY <1>1, <2>1 DEF Contiguous
  <2> QED
    BY <2>1, <2>2, Fewer
<1> QED
  BY <1>3, <1>4, <1>5, <1>6, <1>7 DEF PageStep

(* A pause is asked for while nothing is under way.                        *)
LEMMA PauseAsked ==
  ASSUME Inv, NEW h \in Control, Awaiting = {}, PauseArrives(h),
         asked' = [asked EXCEPT ![h] = "pause"], Contiguous(widgets)'
  PROVE  CarefulInv'
<1> USE DEF appVars
<1>1. TypeOK /\ OneCrew /\ NoLeakedFile /\ Resting
  BY DEF Inv, TypeInv, CarefulInv
<1>2. /\ Live' = Live
      /\ UNCHANGED <<currentWorkers, openFiles, reportfile, wpc, batches>>
      /\ asked'[h] = "pause" /\ hpc'[h] = "kill" /\ kind'[h] = "pause"
      /\ own'[h] = batches /\ left'[h] = currentWorkers
      /\ \A i \in Control \ {h} : asked'[i] = asked[i] /\ hpc'[i] = hpc[i]
  BY <1>1 DEF PauseArrives, Arrive, Goto, KillsOwed, Live, Inv, PageTypeOK, TypeOK
<1>3. /\ OneAwaited'
      /\ \A i \in Control \ {h} : Starting(i)' /\ Stopping(i)' /\ Answered(i)'
  BY <1>2, Alone
<1>4. Awaiting' # {}
  BY <1>2 DEF Awaiting
<1>5. Resting' /\ OneCrew' /\ NoLeakedFile'
  BY <1>1, <1>2, <1>4 DEF Resting, OneCrew, NoLeakedFile
<1>6. Starting(h)' /\ Stopping(h)' /\ Answered(h)'
  BY <1>1, <1>2 DEF Resting, Starting, Stopping, Answered
<1> QED
  BY <1>3, <1>5, <1>6 DEF CarefulInv

(* The steps of a careful user.                                            *)
LEMMA UserSteps ==
  ASSUME Inv, Careful, UserStep
  PROVE  CarefulInv'
<1> USE DEF talkVars, editVars, appVars, reqVars
<1>1. TypeOK /\ OneCrew /\ NoLeakedFile /\ Contiguous(widgets) /\ Resting
      /\ \A i \in Control : Starting(i) /\ Stopping(i) /\ Answered(i)
  BY DEF Inv, TypeInv, CarefulInv
<1>2. "hasty" \notin Habits /\ "untidy" \notin Habits
  BY DEF Careful
<1>3. IsFiniteSet(widgets) /\ Cardinality(widgets) \in Nat
  BY WindowsFinite, HabitsAssumption DEF Inv, PageTypeOK
<1>4. ASSUME NEW h \in Control, NEW n \in 0..MaxWorkers, NEW posted \in Workloads,
             ClickPlay(h, n, posted)
      PROVE  CarefulInv'
  <2>1. /\ Awaiting = {} /\ running = 0 /\ UNCHANGED <<running, widgets, wpc, appVars>>
        /\ posted = widgets /\ posted # {}
    BY <1>2, <1>4 DEF ClickPlay, Free, WorkloadArrives
  <2>2. /\ asked'[h] = "play" /\ hpc'[h] = "create" /\ kind'[h] = "workload"
        /\ left'[h] = n /\ own'[h] = batches + 1 /\ windows'[h] = posted
        /\ batches' = batches + 1 /\ batches \in Nat
        /\ \A i \in Control \ {h} : asked'[i] = asked[i] /\ hpc'[i] = hpc[i]
    BY <1>1, <1>4, BoundsAssumption
    DEF ClickPlay, WorkloadArrives, Arrive, Goto, Inv, PageTypeOK, TypeOK
  <2>3. Live = {} /\ openFiles = {} /\ Live' = {}
    BY <1>1, <2>1 DEF Resting, Live
  <2>4. /\ OneAwaited'
        /\ \A i \in Control \ {h} : Starting(i)' /\ Stopping(i)' /\ Answered(i)'
    BY <2>1, <2>2, Alone
  <2>5. Awaiting' # {}
    BY <2>2 DEF Awaiting
  <2>6. \A w \in Workers : w[1] > batches => wpc[w] = "none"
    BY <1>1 DEF OneCrew
  <2>7. Resting' /\ OneCrew' /\ NoLeakedFile' /\ Contiguous(widgets)'
    <3>1. \A w \in Workers : w[1] > batches' => wpc'[w] = "none"
      <4>1. \A w \in Workers : w[1] \in Nat
        BY BoundsAssumption DEF Workers, Batches
      <4> QED
        BY <2>1, <2>2, <2>6, <4>1
    <3> QED
      BY <1>1, <2>1, <2>3, <2>5, <3>1 DEF Resting, OneCrew, NoLeakedFile, Contiguous
  <2>8. Starting(h)'
    <3>1. ASSUME NEW i \in 1..left'[h] PROVE wpc'[<<batches', i>>] = "none"
      <4>1. batches + 1 \in Batches
        BY <1>1, <1>4, BoundsAssumption DEF ClickPlay, WorkloadArrives, TypeOK, Batches
      <4>2. i \in 1..MaxWorkers
        BY <2>2, BoundsAssumption
      <4>3. <<batches + 1, i>> \in Workers
        BY <4>1, <4>2 DEF Workers
      <4>4. wpc[<<batches + 1, i>>] = "none"
        BY <2>2, <2>6, <4>3
      <4> QED
        BY <2>1, <2>2, <4>4
    <3> QED
      BY <1>1, <2>1, <2>2, <2>3, <3>1 DEF Starting, Contiguous
  <2>9. Stopping(h)' /\ Answered(h)'
    BY <2>2 DEF Stopping, Answered
  <2> QED
    BY <2>4, <2>7, <2>8, <2>9 DEF CarefulInv
<1>5. ASSUME NEW h \in Control, ClickPause(h)
      PROVE  CarefulInv'
  <2>1. Awaiting = {} /\ Contiguous(widgets)'
    BY <1>1, <1>2, <1>5 DEF ClickPause, Free, Contiguous
  <2> QED
    BY <1>5, <2>1, PauseAsked DEF ClickPause
<1>6. ASSUME NEW h \in Control, LoadPage(h)
      PROVE  CarefulInv'
  <2>1. Awaiting = {} /\ PauseArrives(h)
    BY <1>2, <1>6 DEF LoadPage
  <2>2. asked' = [asked EXCEPT ![h] = "pause"]
    <3>1. asked = [i \in Control |-> "none"]
      BY <2>1 DEF Awaiting, Inv, PageTypeOK
    <3> QED
      BY <1>6, <3>1 DEF LoadPage
  <2>3. PICK n \in Nat : LoadWindows(n)
    BY <1>3, <1>6, HabitsAssumption DEF LoadPage
  <2>4. Contiguous(widgets)'
    BY <2>3, Numbered DEF Contiguous, LoadWindows
  <2> QED
    BY <2>1, <2>2, <2>4, PauseAsked
<1>7. ASSUME UNCHANGED <<dispatchVars, talkVars>>, Contiguous(widgets)'
      PROVE  CarefulInv'
  BY <1>7, Fewer DEF dispatchVars
<1>8. CASE NewWindow
  <2>1. nextId = Cardinality(widgets) /\ widgets' = widgets \cup {nextId}
    BY <1>2, <1>8 DEF NewWindow
  <2>2. widgets' = 0..((nextId + 1) - 1)
    <3>1. widgets = 0..(nextId - 1)
      BY <1>1, <2>1 DEF Contiguous
    <3>2. nextId \in Nat
      BY <1>3, <2>1
    <3> QED
      BY <2>1, <3>1, <3>2, OneMore
  <2>3. Contiguous(widgets)'
    <3>1. nextId + 1 \in Nat
      BY <1>3, <2>1
    <3>2. Cardinality(0..((nextId + 1) - 1)) = nextId + 1
      BY <3>1, Numbered
    <3> QED
      BY <2>2, <3>2 DEF Contiguous
  <2> QED
    BY <1>7, <1>8, <2>3 DEF NewWindow
<1>9. CASE ClearWorkload
  <2>1. Contiguous(widgets)'
    BY <1>9, FS_EmptySet DEF ClearWorkload, Contiguous
  <2> QED
    BY <1>7, <1>9, <2>1 DEF ClearWorkload
<1>10. ASSUME NEW i \in widgets, CloseWindow(i)
       PROVE  CarefulInv'
  <2>1. Contiguous(widgets)'
    BY <1>2, <1>10 DEF CloseWindow, Contiguous
  <2> QED
    BY <1>7, <1>10, <2>1 DEF CloseWindow
<1>11. CASE OpenWorkload
  <2>1. PICK n \in Nat : LoadWindows(n)
    BY <1>11, HabitsAssumption DEF OpenWorkload
  <2>2. Contiguous(widgets)'
    BY <2>1, Numbered DEF Contiguous, LoadWindows
  <2> QED
    BY <1>7, <1>11, <2>2 DEF OpenWorkload
<1> QED
  BY <1>4, <1>5, <1>6, <1>8, <1>9, <1>10, <1>11 DEF UserStep

(* A step of the server.                                                   *)
LEMMA ServerSide ==
  ASSUME Inv, Careful, ServerStep
  PROVE  CarefulInv'
<1> USE DEF appVars, reqVars, pageVars, rateVars, talkVars, loopVars, editVars
<1>1. Contiguous(widgets)
  BY DEF Inv, CarefulInv
<1>2. CASE Unseen
  <2>1. ASSUME NEW h \in Control, HandlerStep(h) PROVE CarefulInv'
    BY <1>2, <2>1, HandlerSteps DEF Unseen
  <2>2. ASSUME NEW h \in Control, NEW w \in Workers, TakeKill(h, w) PROVE CarefulInv'
    BY <1>2, <2>2, KillSteps DEF Unseen
  <2>3. ASSUME NEW w \in Workers, WorkerStep(w) PROVE CarefulInv'
    <3>1. UNCHANGED <<appVars, reqVars, talkVars, widgets>>
      BY <1>2, <2>3 DEF Unseen, WorkerStep, WorkerTick, WorkerPredict, PredictOk,
         PredictFails, WorkerFinish, WorkerGoto
    <3>2. \A v \in Workers : wpc'[v] = wpc[v] \/ (v \in Live /\ wpc'[v] # "none")
      BY <2>3 DEF WorkerStep, WorkerTick, WorkerPredict, PredictOk, PredictFails,
         WorkerFinish, WorkerGoto, Live, Inv, TypeInv, TypeOK
    <3> QED
      BY <1>1, <3>1, <3>2, Fewer DEF Contiguous
  <2>4. ASSUME MonitorTick \/ \E p \in Pollers : PollFindsFile(p) \/ PollReadsFile(p) PROVE CarefulInv'
    <3>1. UNCHANGED <<appVars, reqVars, talkVars, widgets, wpc>>
      BY <1>2, <2>4 DEF Unseen, MonitorTick, PollFindsFile, PollReadsFile, PollGoto
    <3> QED
      BY <1>1, <3>1, Fewer DEF Contiguous
  <2> QED
    BY <1>2, <2>1, <2>2, <2>3, <2>4 DEF Unseen
<1>3. ASSUME NEW h \in Control, PlayAnswered(h) \/ PauseAnswered(h) PROVE CarefulInv'
  BY <1>3, AnswerSteps
<1>4. ASSUME NEW h \in Control, NEW m \in Ids, WorkerSpawned(h, m) PROVE CarefulInv'
  BY <1>4, SpawnSteps
<1>5. ASSUME NEW w \in Workers, StatTaken(w) PROVE CarefulInv'
  <2>1. UNCHANGED <<appVars, reqVars, talkVars, widgets>>
    BY <1>5 DEF StatTaken, TakeStat, WorkerGoto
  <2>2. \A v \in Workers : wpc'[v] = wpc[v] \/ (v \in Live /\ wpc'[v] # "none")
    BY <1>5 DEF StatTaken, TakeStat, WorkerGoto, Live, Inv, TypeInv, TypeOK
  <2> QED
    BY <1>1, <2>1, <2>2, Fewer DEF Contiguous
<1>6. ASSUME NEW p \in Pollers, ReportTaken(p) \/ PollAnswered(p) PROVE CarefulInv'
  <2>1. UNCHANGED <<appVars, reqVars, talkVars, widgets, wpc>>
    BY <1>6 DEF ReportTaken, TakeReport, PollAnswered, PollNoFile, PollWrite,
       PollTimeout, PollGoto, PollAnswer
  <2> QED
    BY <1>1, <2>1, Fewer DEF Contiguous
<1> QED
  BY <1>2, <1>3, <1>4, <1>5, <1>6 DEF ServerStep

(* What a careful user's page relies on holds at every step.               *)
LEMMA CarefulStays == Careful => (PageSpec => []Inv)
<1> SUFFICES ASSUME Careful PROVE PageSpec => []Inv
  OBVIOUS
<1>1. PageInit => NoTimeouts /\ CarefulInv
  <2> SUFFICES ASSUME PageInit PROVE NoTimeouts /\ CarefulInv
    OBVIOUS
  <2>1. Live = {} /\ Awaiting = {} /\ openFiles = {} /\ currentWorkers = 0
    BY DEF PageInit, Init, Live, Awaiting
  <2>2. Cardinality(Live) = 0
    BY <2>1, NoneLive
  <2>3. Resting /\ OneAwaited /\ NoLeakedFile
    BY <2>1, <2>2 DEF Resting, OneAwaited, NoLeakedFile
  <2>4. OneCrew
    BY <2>1 DEF OneCrew, PageInit, Init
  <2>5. Contiguous(widgets)
    <3>1. widgets = 0..(1 - 1)
      BY DEF PageInit
    <3> QED
      BY <3>1, Numbered
  <2>6. \A h \in Control : Starting(h) /\ Stopping(h) /\ Answered(h)
    BY DEF PageInit, Init, Starting, Stopping, Answered
  <2> QED
    BY <2>3, <2>4, <2>5, <2>6 DEF PageInit, NoTimeouts, CarefulInv
<1>2. Inv /\ [PageNext]_vars => CarefulInv'
  <2> SUFFICES ASSUME Inv, [PageNext]_vars PROVE CarefulInv'
    OBVIOUS
  <2>1. CASE UNCHANGED vars
    <3>1. UNCHANGED <<appVars, reqVars, talkVars, widgets, wpc>>
      BY <2>1 DEF vars, dispatchVars, pageVars, editVars
    <3>2. Contiguous(widgets)'
      BY <3>1 DEF Contiguous, Inv, CarefulInv
    <3> QED
      BY <3>1, <3>2, Fewer
  <2> QED
    BY <2>1, ServerSide, PageSteps, UserSteps DEF PageNext
<1>3. PageTypeOK /\ NoTimeouts /\ [PageNext]_vars => NoTimeouts'
  <2> SUFFICES ASSUME PageTypeOK, NoTimeouts, [PageNext]_vars PROVE NoTimeouts'
    OBVIOUS
  <2> USE DEF NoTimeouts, PageTypeOK, talkVars, loopVars, pageVars
  <2>1. CASE ServerStep
    <3>1. ASSUME NEW p \in Pollers, PollAnswered(p) PROVE NoTimeouts'
      BY <3>1 DEF PollAnswered, PollAnswer, Careful
    <3>2. ASSUME NEW h \in Control, PlayAnswered(h) \/ PauseAnswered(h) PROVE NoTimeouts'
      BY <3>2 DEF PlayAnswered, PauseAnswered, Answer
    <3>3. CASE Unseen
      BY <3>3 DEF Unseen
    <3> QED
      BY <2>1, <3>1, <3>2, <3>3 DEF ServerStep, WorkerSpawned, StatTaken, ReportTaken
  <2>2. CASE PageStep
    BY <2>2 DEF PageStep, PlayReplied, LoopPauses, PlayRefused, PauseReplied,
       LoopAsks, LoopEnds, LoopReceives, AfterReport
  <2>3. CASE UserStep
    BY <2>3 DEF UserStep, ClickPlay, ClickPause, LoadPage, NewWindow, ClearWorkload,
       OpenWorkload, CloseWindow
  <2>4. CASE UNCHANGED vars
    BY <2>4 DEF vars
  <2> QED
    BY <2>1, <2>2, <2>3, <2>4 DEF PageNext
<1>4. PageSpec => []TypeInv
  BY PageUsesServer, TypedStrongly, PTL
<1> QED
  BY <1>1, <1>2, <1>3, <1>4, PageTyped, PTL DEF PageSpec, Inv
-----------------------------------------------------------------------------
(* What keeps requests apart, if the user waits for answers, posts JSON    *)
(* and keeps the windows numbered without gaps: one request that changes   *)
(* the server at a time, from a page that awaits it, and one run and one   *)
(* report file behind it (stress.js 53-153, handlers.go 66-222).           *)
THEOREM CarefulKept == Careful => (PageSpec => []CarefulInv)
<1>1. Inv => CarefulInv
  BY DEF Inv
<1> QED
  BY <1>1, CarefulStays, PTL

(* A page that says PLAY has no worker at work behind it, if its user      *)
(* waits for answers, posts JSON and keeps the windows numbered without    *)
(* gaps: the count that handlePause reads is enough (handlers.go 207).     *)
THEOREM Stops == Careful => (PageSpec => []StoppedWhenIdle)
<1>1. Inv => StoppedWhenIdle
  BY DEF Inv, CarefulInv, Resting, StoppedWhenIdle
<1> QED
  BY <1>1, CarefulStays, PTL

(* Nor has it an open report file that no pause will close (handlers.go    *)
(* 123-135 and 211-218).                                                   *)
THEOREM FilesClosed == Careful => (PageSpec => []NoLeakedFile)
<1>1. Inv => NoLeakedFile
  BY DEF Inv, CarefulInv
<1> QED
  BY <1>1, CarefulStays, PTL

(* Its pauses kill no worker of another workload (handlers.go 205-210).    *)
THEOREM KillsOwn == Careful => (PageSpec => KillsOwnRun)
<1>1. ASSUME Inv, NEW h \in Control, NEW w \in Workers, TakeKill(h, w)
      PROVE  w[1] = own[h]
  <2>1. w \in Live /\ hpc[h] = "parked"
    BY <1>1 DEF TakeKill, Live
  <2>2. asked[h] = "pause" /\ own[h] = batches
    BY <1>1, <2>1 DEF Inv, CarefulInv, Answered, Starting, Stopping, PageTypeOK
  <2> QED
    BY <1>1, <2>1, <2>2 DEF Inv, CarefulInv, OneCrew
<1>2. Inv => [\A h \in Control, w \in Workers : TakeKill(h, w) => w[1] = own[h]]_vars
  BY <1>1
<1> QED
  BY <1>2, CarefulStays, PTL DEF KillsOwnRun
-----------------------------------------------------------------------------
(* Behind a careful user's page, page, handlers and workers implement the  *)
(* run of module LoadRun.                                                  *)
Killed == {w \in Workers : wpc[w] = "killed"}

PhaseShown ==
  /\ Awaiting = {} /\ running = 0 => Phase = "stopped"
  /\ Awaiting = {} /\ running = 1 => Phase = "running"
  /\ \A h \in Control : asked[h] \in {"play", "played"} => Phase = "starting"
  /\ \A h \in Control : asked[h] \in {"pause", "paused"} => Phase = "stopping"

LEMMA PhaseOf == Inv => PhaseShown
<1> SUFFICES ASSUME Inv PROVE PhaseShown
  OBVIOUS
<1> DEFINE awaited == {asked[h] : h \in Awaiting}
<1>1. awaited = {} <=> Awaiting = {}
  OBVIOUS
<1>2. \A h \in Control : asked[h] # "none" => Awaiting = {h} /\ awaited = {asked[h]}
  BY DEF Awaiting, Inv, CarefulInv, OneAwaited
<1>3. CASE Awaiting = {}
  <2>1. \A h \in Control : asked[h] = "none"
    BY <1>3 DEF Awaiting
  <2> QED
    BY <1>1, <1>3, <2>1 DEF Phase, PhaseShown
<1>4. ASSUME NEW h \in Control, asked[h] \in {"play", "played"} PROVE Phase = "starting"
  BY <1>2, <1>4 DEF Phase
<1>5. ASSUME NEW h \in Control, asked[h] \in {"pause", "paused"} PROVE Phase = "stopping"
  BY <1>2, <1>5 DEF Phase
<1>6. running \in {0, 1}
  BY DEF Inv, PageTypeOK
<1> QED
  BY <1>3, <1>4, <1>5, <1>6 DEF PhaseShown

LEMMA StepRefines ==
  ASSUME Inv, Inv', Careful, [PageNext]_vars
  PROVE  [Promise!RunNext]_(Promise!runVars)
<1> USE DEF Killed, Promise!runVars, Promise!Crew, Promise!RunNext
<1>0. PhaseShown /\ PhaseShown'
  BY PhaseOf, PTL
<1>1. TypeOK /\ asked \in [Control -> {"none", "play", "pause", "played", "refused", "paused"}]
      /\ OneCrew /\ \A h \in Control : Starting(h) /\ Stopping(h) /\ Answered(h)
  BY DEF Inv, TypeInv, PageTypeOK, CarefulInv
<1>2. UNCHANGED <<asked, running>> => Phase' = Phase
  BY DEF Phase, Awaiting
<1>3. UNCHANGED wpc => Live' = Live /\ Killed' = Killed
  BY DEF Live
<1>4. ASSUME UNCHANGED <<asked, running, wpc, batches>>
      PROVE  [Promise!RunNext]_(Promise!runVars)
  BY <1>2, <1>3, <1>4
<1>5. CASE Unseen
  <2>0. UNCHANGED <<asked, running, batches>>
    BY <1>5 DEF Unseen, pageVars, talkVars, HandlerStep, CreateFile, AcceptWorkload,
       SendKill, PauseKillsDone, PauseFindsFile, CloseFile, TakeKill, WorkerStep,
       WorkerTick, WorkerPredict, PredictOk, PredictFails, WorkerFinish, WorkerGoto,
       MonitorTick, PollFindsFile, PollReadsFile, PollGoto, reqVars
  <2>1. ASSUME NEW h \in Control, HandlerStep(h)
        PROVE  [Promise!RunNext]_(Promise!runVars)
    <3>1. UNCHANGED wpc
      BY <2>1 DEF HandlerStep, CreateFile, AcceptWorkload, SendKill, PauseKillsDone,
         PauseFindsFile, CloseFile
    <3> QED
      BY <1>4, <2>0, <3>1
  <2>2. ASSUME NEW h \in Control, NEW w \in Workers, TakeKill(h, w)
        PROVE  [Promise!RunNext]_(Promise!runVars)
    <3>1. w \in Live /\ Live' = Live \ {w} /\ Killed' = Killed \cup {w}
      BY <1>1, <2>2 DEF TakeKill, Live, TypeOK
    <3>2. asked[h] = "pause"
      BY <1>1, <2>2 DEF TakeKill, Answered, Starting
    <3>3. Phase = "stopping" /\ Phase' = Phase
      BY <1>2, <2>0, <3>2, <1>0 DEF PhaseShown
    <3>4. Promise!Kill(w)
      BY <2>0, <3>1, <3>3 DEF Promise!Kill
    <3> QED
      BY <3>4 DEF Workers, Batches
  <2>3. ASSUME NEW w \in Workers, WorkerStep(w)
        PROVE  [Promise!RunNext]_(Promise!runVars)
    <3>1. CASE wpc'[w] \in {"select", "report", "predict"}
      <4>1. Live' = Live /\ Killed' = Killed
        BY <1>1, <2>3, <3>1 DEF WorkerStep, WorkerTick, WorkerPredict, PredictOk,
           PredictFails, WorkerFinish, WorkerGoto, Live, TypeOK
      <4> QED
        BY <1>2, <2>0, <4>1
    <3>2. CASE wpc'[w] \in {"finished", "failed"}
      <4>1. w \in Live /\ Live' = Live \ {w} /\ Killed' = Killed
        BY <1>1, <2>3, <3>2 DEF WorkerStep, WorkerTick, WorkerPredict, PredictOk,
           PredictFails, WorkerFinish, WorkerGoto, Live, TypeOK
      <4>2. Promise!End(w)
        BY <1>2, <2>0, <4>1 DEF Promise!End
      <4> QED
        BY <4>2 DEF Workers, Batches
    <3> QED
      BY <1>1, <2>3, <3>1, <3>2 DEF WorkerStep, WorkerTick, WorkerPredict, PredictOk,
         PredictFails, WorkerFinish, WorkerGoto, TypeOK
  <2>4. ASSUME MonitorTick \/ \E p \in Pollers : PollFindsFile(p) \/ PollReadsFile(p)
        PROVE  [Promise!RunNext]_(Promise!runVars)
    BY <1>4, <2>0, <2>4 DEF MonitorTick, PollFindsFile, PollReadsFile, PollGoto
  <2> QED
    BY <1>5, <2>1, <2>2, <2>3, <2>4 DEF Unseen
<1>6. ASSUME NEW h \in Control, PlayAnswered(h) \/ PauseAnswered(h)
      PROVE  [Promise!RunNext]_(Promise!runVars)
  <2>1. hpc[h] # "idle" /\ UNCHANGED <<wpc, batches, running>>
    BY <1>6 DEF PlayAnswered, PauseAnswered, WorkloadDone, RejectWorkload, SpawnPanics,
       PauseNoFile, ClearFile, Answer, Reply
  <2>2. asked[h] \in {"play", "pause"}
    BY <1>1, <2>1 DEF Answered
  <2>3. CASE asked[h] = "play"
    <3>1. asked'[h] \in {"played", "refused"}
      BY <1>1, <1>6, <2>3 DEF PlayAnswered, PauseAnswered, PauseNoFile, ClearFile,
         Starting, Answer
    <3>2. asked'[h] = "played"
      BY <3>1 DEF Inv, CarefulInv, Answered
    <3>3. Phase = "starting" /\ Phase' = "starting"
      BY <2>3, <3>2, <1>0 DEF PhaseShown
    <3> QED
      BY <1>3, <2>1, <3>3
  <2>4. CASE asked[h] = "pause"
    <3>1. asked'[h] = "paused"
      BY <1>1, <1>6, <2>4 DEF PlayAnswered, PauseAnswered, WorkloadDone, RejectWorkload,
         SpawnPanics, Stopping, Answer
    <3>2. Phase = "stopping" /\ Phase' = "stopping"
      BY <2>4, <3>1, <1>0 DEF PhaseShown
    <3> QED
      BY <1>3, <2>1, <3>2
  <2> QED
    BY <2>2, <2>3, <2>4
<1>7. ASSUME NEW h \in Control, NEW m \in Ids, WorkerSpawned(h, m)
      PROVE  [Promise!RunNext]_(Promise!runVars)
  <2> DEFINE new == <<own[h], left[h]>>
  <2>1. asked[h] = "play" /\ own[h] = batches /\ left[h] \in 1..MaxWorkers
    BY <1>1, <1>7, BoundsAssumption
    DEF WorkerSpawned, Spawn, Answered, Starting, Stopping, TypeOK
  <2>2. new \in Workers /\ wpc[new] = "none" /\ new[1] = batches
    <3>1. own[h] \in Batches
      BY <1>7 DEF Inv, TypeInv, BatchKnown, WorkerSpawned, Spawn
    <3> QED
      BY <1>1, <2>1, <3>1 DEF Starting, Workers
  <2>3. Live' = Live \cup {new} /\ Killed' = Killed /\ new \notin Live \cup Killed
    BY <1>1, <1>7, <2>2 DEF WorkerSpawned, Spawn, Live, TypeOK
  <2>4. Phase = "starting" /\ Phase' = Phase /\ batches' = batches
    BY <1>2, <1>7, <2>1, <1>0 DEF PhaseShown, WorkerSpawned, Spawn, pageVars, talkVars
  <2>5. Promise!Launch(new)
    BY <2>2, <2>3, <2>4 DEF Promise!Launch
  <2> QED
    BY <2>2, <2>5 DEF Workers, Batches
<1>8. ASSUME NEW w \in Workers, StatTaken(w)
      PROVE  [Promise!RunNext]_(Promise!runVars)
  <2>1. Live' = Live /\ Killed' = Killed /\ UNCHANGED <<asked, running, batches>>
    BY <1>1, <1>8 DEF StatTaken, TakeStat, WorkerGoto, Live, TypeOK, pageVars, talkVars,
       reqVars
  <2> QED
    BY <1>2, <2>1
<1>9. ASSUME NEW p \in Pollers, ReportTaken(p) \/ PollAnswered(p)
      PROVE  [Promise!RunNext]_(Promise!runVars)
  BY <1>4, <1>9 DEF ReportTaken, TakeReport, PollAnswered, PollNoFile, PollWrite,
     PollTimeout, PollGoto, PollAnswer, talkVars, reqVars
<1>10. ASSUME NEW h \in Control, NEW p \in Pollers, PlayReplied(h, p)
       PROVE  [Promise!RunNext]_(Promise!runVars)
  <2>1. asked[h] = "played" /\ asked' = [asked EXCEPT ![h] = "none"] /\ running' = 1
        /\ UNCHANGED <<wpc, batches>>
    BY <1>10 DEF PlayReplied, dispatchVars, reqVars
  <2>2. Awaiting' = {}
    BY <1>1, <2>1 DEF Awaiting, Inv, CarefulInv, OneAwaited
  <2>3. Phase = "starting" /\ Phase' = "running"
    BY <2>1, <2>2, <1>0 DEF PhaseShown, Phase
  <2>4. Promise!Settle
    BY <1>3, <2>1, <2>3 DEF Promise!Settle
  <2> QED
    BY <2>4
<1>11. ASSUME NEW h \in Control, PauseReplied(h)
       PROVE  [Promise!RunNext]_(Promise!runVars)
  <2>1. asked[h] = "paused" /\ asked' = [asked EXCEPT ![h] = "none"] /\ running' = 0
        /\ UNCHANGED <<wpc, batches>>
    BY <1>11 DEF PauseReplied, dispatchVars, reqVars
  <2>2. Awaiting' = {} /\ Live = {}
    BY <1>1, <2>1 DEF Awaiting, Inv, CarefulInv, OneAwaited, Answered
  <2>3. Phase = "stopping" /\ Phase' = "stopped"
    BY <2>1, <2>2, <1>0 DEF PhaseShown, Phase
  <2>4. Promise!Stopped
    BY <1>3, <2>1, <2>2, <2>3 DEF Promise!Stopped
  <2> QED
    BY <2>4
<1>12. CASE PageStep
  <2>1. ASSUME NEW h \in Control, NEW p \in Pollers, LoopPauses(p, h)
        PROVE  [Promise!RunNext]_(Promise!runVars)
    BY <2>1 DEF LoopPauses, Inv, NoTimeouts
  <2>2. ASSUME NEW h \in Control, PlayRefused(h)
        PROVE  [Promise!RunNext]_(Promise!runVars)
    BY <1>1, <2>2 DEF PlayRefused, Answered
  <2>3. ASSUME NEW p \in Pollers, LoopAsks(p) \/ LoopEnds(p) \/ LoopReceives(p)
        PROVE  [Promise!RunNext]_(Promise!runVars)
    BY <1>4, <2>3 DEF LoopAsks, LoopEnds, LoopReceives, PollArrives, PollGoto,
       dispatchVars, talkVars, reqVars
  <2> QED
    BY <1>10, <1>11, <1>12, <2>1, <2>2, <2>3 DEF PageStep
<1>13. ASSUME NEW h \in Control, NEW n \in 0..MaxWorkers, NEW posted \in Workloads,
              ClickPlay(h, n, posted)
       PROVE  [Promise!RunNext]_(Promise!runVars)
  <2>1. /\ Awaiting = {} /\ running = 0 /\ batches < MaxBatches /\ batches' = batches + 1
        /\ asked'[h] = "play" /\ UNCHANGED wpc
    BY <1>1, <1>13 DEF ClickPlay, Free, Careful, WorkloadArrives
  <2>2. Phase = "stopped" /\ Phase' = "starting"
    BY <2>1, <1>0 DEF PhaseShown
  <2>3. Promise!Start
    BY <1>3, <2>1, <2>2 DEF Promise!Start
  <2> QED
    BY <2>3
<1>14. ASSUME NEW h \in Control, ClickPause(h) \/ LoadPage(h)
       PROVE  [Promise!RunNext]_(Promise!runVars)
  <2>1. Awaiting = {} /\ asked'[h] = "pause" /\ UNCHANGED <<wpc, batches>>
    BY <1>1, <1>14 DEF ClickPause, LoadPage, Free, Careful, PauseArrives
  <2>2. Phase \in {"running", "stopped"} /\ Phase' = "stopping"
    BY <2>1, <1>0 DEF PhaseShown, Inv, PageTypeOK
  <2>3. Promise!Stop
    BY <1>3, <2>1, <2>2 DEF Promise!Stop
  <2> QED
    BY <2>3
<1>15. CASE UserStep
  <2>1. ASSUME NewWindow \/ ClearWorkload \/ OpenWorkload \/ \E i \in widgets : CloseWindow(i)
        PROVE  [Promise!RunNext]_(Promise!runVars)
    BY <1>4, <2>1 DEF NewWindow, ClearWorkload, OpenWorkload, CloseWindow, dispatchVars, talkVars, reqVars
  <2> QED
    BY <1>13, <1>14, <1>15, <2>1 DEF UserStep
<1>16. CASE UNCHANGED vars
  BY <1>4, <1>16 DEF vars, dispatchVars, pageVars, talkVars, reqVars
<1> QED
  BY <1>5, <1>6, <1>7, <1>8, <1>9, <1>12, <1>15, <1>16 DEF PageNext, ServerStep

(* The promise of LoadRun is kept to a careful user (stress.js 53-153,     *)
(* handlers.go 66-222, worker.go 50-88).                                   *)
THEOREM PromiseKept == Careful => (PageSpec => KeepsPromise)
<1> SUFFICES ASSUME Careful PROVE PageSpec => KeepsPromise
  OBVIOUS
<1>1. PageInit => Promise!RunInit
  <2> SUFFICES ASSUME PageInit PROVE Promise!RunInit
    OBVIOUS
  <2>1. Awaiting = {} /\ running = 0 /\ Live = {} /\ batches = 0
        /\ {w \in Workers : wpc[w] = "killed"} = {}
    BY DEF PageInit, Init, Awaiting, Live
  <2>2. Phase = "stopped"
    BY <2>1 DEF Phase
  <2> QED
    BY <2>1, <2>2 DEF Promise!RunInit
<1>2. Inv /\ Inv' /\ [PageNext]_vars => [Promise!RunNext]_(Promise!runVars)
  BY StepRefines
<1> QED
  BY <1>1, <1>2, CarefulStays, PTL DEF PageSpec, KeepsPromise, Promise!RunSpec
-----------------------------------------------------------------------------
(* Somebody polls while the button says PAUSE, for any user who leaves the *)
(* windows alone, however hasty, for any number of requests, while polls   *)
(* do not time out.                                                        *)

(* No report names a window that the page has not: it has one, number 0,   *)
(* which is all that any workload, worker, rate or report speaks of.       *)
OneWindow ==
  /\ widgets = {0}
  /\ \A h \in Control : windows[h] \subseteq {0}
  /\ \A w \in Workers : model[w] = 0
  /\ rates \subseteq {0}
  /\ \A p \in Pollers : carried[p] \subseteq {0}

(* What a loop has asked for is with the server until it is answered, and  *)
(* the answer is a report.                                                 *)
Answering ==
  \A p \in Pollers : loops[p] # "timeout" /\ (loops[p] = "asked" => ppc[p] # "idle")

PollingInv == OneWindow /\ Answering /\ KeptPolling

LEMMA PollingInit == PageInit => PollingInv
  BY DEF PageInit, Init, PollingInv, OneWindow, Answering, KeptPolling

(* A loop that goes on: nothing ends one but its own report.               *)
LEMMA LoopsGoOn ==
  ASSUME PollingInv, Answering', running' = running,
         \A p \in Pollers : loops[p] # "off" => loops'[p] \in {"timer", "report", "asked"}
  PROVE  KeptPolling'
<1>1. ASSUME running' = 1
      PROVE  \E p \in Pollers : Polling(p)'
  <2>1. PICK p \in Pollers : Polling(p)
    BY <1>1 DEF PollingInv, KeptPolling
  <2>2. loops'[p] \in {"timer", "report", "asked"}
    BY <2>1 DEF Polling
  <2>3. Polling(p)'
    BY <2>2 DEF Answering, Polling
  <2> QED
    BY <2>3
<1> QED
  BY <1>1 DEF KeptPolling

(* Steps of the server that neither answer nor take a report.              *)
LEMMA PollingUnseen ==
  ASSUME PageTypeOK, PollingInv, Unseen
  PROVE  PollingInv'
<1> USE DEF PollingInv
<1>1. /\ UNCHANGED <<pageVars, rateVars, windows>>
      /\ \A p \in Pollers : ppc[p] # "idle" => ppc'[p] # "idle"
  <2>1. UNCHANGED <<pageVars, rateVars>>
    BY DEF Unseen
  <2>2. ASSUME NEW p \in Pollers, PollFindsFile(p) \/ PollReadsFile(p)
        PROVE  UNCHANGED windows /\ \A q \in Pollers : ppc[q] # "idle" => ppc'[q] # "idle"
    BY <2>2 DEF PollFindsFile, PollReadsFile, PollGoto, reqVars, PageTypeOK, TypeOK
  <2>3. UNCHANGED windows /\ \A p \in Pollers : ppc[p] # "idle" => ppc'[p] # "idle"
    BY <2>2 DEF Unseen, HandlerStep, CreateFile, AcceptWorkload, SendKill, PauseKillsDone,
       PauseFindsFile, CloseFile, TakeKill, WorkerStep, WorkerTick, WorkerPredict, PredictOk,
       PredictFails, WorkerFinish, WorkerGoto, MonitorTick, reqVars, pollVars
  <2> QED
    BY <2>1, <2>3
<1>2. OneWindow' /\ Answering'
  BY <1>1 DEF OneWindow, Answering, pageVars, loopVars, editVars, rateVars
<1> QED
  BY <1>1, <1>2, LoopsGoOn DEF Answering, PageTypeOK, pageVars, talkVars, loopVars

LEMMA PollingServer ==
  ASSUME PageTypeOK, PollingInv, ServerStep, ~MayTimeOut
  PROVE  PollingInv'
<1> USE DEF PollingInv
<1>1. ASSUME NEW h \in Control, PlayAnswered(h) \/ PauseAnswered(h), UNCHANGED rateVars
      PROVE  PollingInv'
  <2>1. /\ windows' = [windows EXCEPT ![h] = {}]
        /\ UNCHANGED <<running, loops, ppc, carried, widgets, model, rates>>
    BY <1>1 DEF PlayAnswered, PauseAnswered, Answer, WorkloadDone, RejectWorkload, SpawnPanics,
       PauseNoFile, ClearFile, Reply, loopVars, editVars, rateVars, pollVars
  <2>2. OneWindow' /\ Answering'
    BY <2>1 DEF OneWindow, Answering, PageTypeOK, TypeOK
  <2> QED
    BY <2>1, <2>2, LoopsGoOn DEF Answering, PageTypeOK
<1>2. ASSUME NEW h \in Control, NEW m \in Ids, WorkerSpawned(h, m)
      PROVE  PollingInv'
  <2>1. m = 0
    BY <1>2 DEF WorkerSpawned, Spawn, OneWindow
  <2>2. model' = [model EXCEPT ![<<own[h], left[h]>>] = 0]
        /\ UNCHANGED <<pageVars, rates, windows, ppc>>
    BY <1>2, <2>1 DEF WorkerSpawned, Spawn, pollVars
  <2>3. OneWindow' /\ Answering'
    BY <2>2 DEF OneWindow, Answering, PageTypeOK, pageVars, loopVars, editVars
  <2> QED
    BY <2>2, <2>3, LoopsGoOn DEF Answering, PageTypeOK, pageVars, talkVars, loopVars
<1>3. ASSUME NEW w \in Workers, StatTaken(w)
      PROVE  PollingInv'
  <2>1. /\ rates' = rates \cup {0}
        /\ UNCHANGED <<pageVars, model, windows, ppc>>
    BY <1>3 DEF StatTaken, TakeStat, WorkerGoto, OneWindow, reqVars, pollVars
  <2>2. OneWindow' /\ Answering'
    BY <2>1 DEF OneWindow, Answering, pageVars, loopVars, editVars
  <2> QED
    BY <2>1, <2>2, LoopsGoOn DEF Answering, PageTypeOK, pageVars, talkVars, loopVars
<1>4. ASSUME NEW p \in Pollers, ReportTaken(p)
      PROVE  PollingInv'
  <2>1. /\ carried' = [carried EXCEPT ![p] = carried'[p]]
        /\ carried'[p] \in {rates, carried[p]}
        /\ ppc' = [ppc EXCEPT ![p] = "check"]
        /\ UNCHANGED <<talkVars, loops, editVars, rateVars, windows>>
    BY <1>4 DEF ReportTaken, TakeReport, PageTypeOK, reqVars
  <2>2. OneWindow'
    BY <2>1 DEF OneWindow, PageTypeOK, editVars, rateVars
  <2>3. Answering'
    BY <2>1 DEF Answering, PageTypeOK, TypeOK
  <2> QED
    BY <2>1, <2>2, <2>3, LoopsGoOn DEF Answering, PageTypeOK, talkVars
<1>5. ASSUME NEW p \in Pollers, PollAnswered(p), UNCHANGED rateVars
      PROVE  PollingInv'
  <2>1. /\ loops' = [loops EXCEPT ![p] = IF loops[p] = "asked" THEN "report" ELSE loops[p]]
        /\ ppc' = [ppc EXCEPT ![p] = "idle"]
        /\ UNCHANGED <<talkVars, carried, editVars, windows>>
    BY <1>5 DEF PollAnswered, PollAnswer, PollNoFile, PollWrite, PollGoto, reqVars
  <2>2. OneWindow' /\ Answering'
    BY <1>5, <2>1 DEF OneWindow, Answering, PageTypeOK, TypeOK, editVars, rateVars
  <2> QED
    BY <2>1, <2>2, LoopsGoOn DEF Answering, PageTypeOK, talkVars
<1> QED
  BY <1>1, <1>2, <1>3, <1>4, <1>5, PollingUnseen DEF ServerStep

LEMMA PollingPage ==
  ASSUME PageTypeOK, PollingInv, PageStep
  PROVE  PollingInv'
<1> USE DEF PollingInv
<1>1. ASSUME NEW h \in Control, NEW p \in Pollers, PlayReplied(h, p)
      PROVE  PollingInv'
  BY <1>1 DEF PlayReplied, OneWindow, Answering, KeptPolling, Polling, PageTypeOK,
     dispatchVars, reqVars, pollVars, editVars, rateVars
<1>2. ASSUME NEW h \in Control, NEW p \in Pollers, LoopPauses(p, h)
      PROVE  PollingInv'
  BY <1>2 DEF LoopPauses, Answering
<1>3. ASSUME NEW h \in Control, PlayRefused(h) \/ PauseReplied(h)
      PROVE  PollingInv'
  <2>1. /\ UNCHANGED <<dispatchVars, loopVars, editVars, rateVars>>
        /\ UNCHANGED running \/ running' = 0
    BY <1>3 DEF PlayRefused, PauseReplied
  <2>2. OneWindow' /\ Answering'
    BY <2>1 DEF OneWindow, Answering, dispatchVars, reqVars, pollVars, loopVars, editVars, rateVars
  <2> QED
    BY <2>1, <2>2, LoopsGoOn DEF Answering, KeptPolling, PageTypeOK, loopVars
<1>4. ASSUME NEW p \in Pollers, LoopAsks(p)
      PROVE  PollingInv'
  <2>1. /\ loops' = [loops EXCEPT ![p] = "asked"] /\ ppc' = [ppc EXCEPT ![p] = "waiting"]
        /\ UNCHANGED <<talkVars, carried, editVars, rateVars, windows>>
    BY <1>4 DEF LoopAsks, PollArrives, PollGoto, reqVars
  <2>2. OneWindow' /\ Answering'
    BY <2>1 DEF OneWindow, Answering, PageTypeOK, TypeOK, editVars, rateVars
  <2> QED
    BY <2>1, <2>2, LoopsGoOn DEF Answering, PageTypeOK, talkVars
<1>5. ASSUME NEW p \in Pollers, LoopEnds(p)
      PROVE  PollingInv'
  BY <1>5 DEF LoopEnds, OneWindow, Answering, KeptPolling, PageTypeOK,
     dispatchVars, reqVars, pollVars, talkVars, editVars, rateVars
<1>6. ASSUME NEW p \in Pollers, LoopReceives(p)
      PROVE  PollingInv'
  <2>1. AfterReport(p) = "timer"
    BY DEF AfterReport, OneWindow
  <2>2. /\ loops' = [loops EXCEPT ![p] = "timer"] /\ carried' = [carried EXCEPT ![p] = {}]
        /\ UNCHANGED <<dispatchVars, talkVars, editVars, rateVars>>
    BY <1>6, <2>1 DEF LoopReceives
  <2>3. OneWindow' /\ Answering'
    BY <2>2 DEF OneWindow, Answering, PageTypeOK, dispatchVars, reqVars, pollVars, editVars, rateVars
  <2> QED
    BY <2>2, <2>3, LoopsGoOn DEF Answering, PageTypeOK, talkVars
<1> QED
  BY <1>1, <1>2, <1>3, <1>4, <1>5, <1>6 DEF PageStep

LEMMA PollingUser ==
  ASSUME PageTypeOK, PollingInv, UserStep, "edits" \notin Habits
  PROVE  PollingInv'
<1> USE DEF PollingInv
<1>1. ASSUME NEW h \in Control, NEW n \in 0..MaxWorkers, NEW posted \in Workloads,
             ClickPlay(h, n, posted)
      PROVE  PollingInv'
  <2>1. /\ windows' = [windows EXCEPT ![h] = posted] /\ posted \subseteq widgets
        /\ UNCHANGED <<running, loopVars, editVars, rateVars, ppc>>
    BY <1>1 DEF ClickPlay, WorkloadArrives, Arrive, pollVars
  <2>2. OneWindow'
    BY <2>1, ZenonT(40) DEF OneWindow, PageTypeOK, TypeOK, loopVars, editVars, rateVars
  <2>3. Answering'
    BY <2>1 DEF Answering, loopVars
  <2> QED
    BY <2>1, <2>2, <2>3, LoopsGoOn DEF Answering, PageTypeOK, loopVars
<1>2. ASSUME NEW h \in Control, ClickPause(h)
      PROVE  PollingInv'
  <2>1. /\ windows' = [windows EXCEPT ![h] = {}]
        /\ UNCHANGED <<running, loopVars, editVars, rateVars, ppc>>
    BY <1>2 DEF ClickPause, PauseArrives, Arrive, pollVars
  <2>2. OneWindow' /\ Answering'
    BY <2>1 DEF OneWindow, Answering, PageTypeOK, TypeOK, loopVars, editVars, rateVars
  <2> QED
    BY <2>1, <2>2, LoopsGoOn DEF Answering, PageTypeOK, loopVars
<1>3. ASSUME NEW h \in Control, LoadPage(h)
      PROVE  PollingInv'
  <2>1. /\ windows' = [windows EXCEPT ![h] = {}]
        /\ carried' = [p \in Pollers |-> {}] /\ loops' = [p \in Pollers |-> "off"]
        /\ running' = 0 /\ UNCHANGED rateVars
    BY <1>3 DEF LoadPage, PauseArrives, Arrive
  <2>2. Cardinality(widgets) = 1
    BY FS_Singleton DEF OneWindow
  <2>3. widgets' = 0..(1 - 1)
    BY <1>3, <2>2 DEF LoadPage, LoadWindows
  <2>4. OneWindow'
    BY <2>1, <2>3 DEF OneWindow, PageTypeOK, TypeOK, rateVars
  <2> QED
    BY <2>1, <2>4 DEF Answering, KeptPolling
<1> QED
  BY <1>1, <1>2, <1>3 DEF UserStep, NewWindow, CloseWindow, ClearWorkload, OpenWorkload, Editing

(* As long as the monitor answers each poll within its second and no       *)
(* window is made, closed or loaded, the button never says PAUSE without a *)
(* /stats request with the server or a callback due that sends one: not    *)
(* when requests cross, the page is loaded again, a workload is refused or *)
(* a query is no JSON (stress.js 13-51, 139-152).                          *)
THEOREM PollingIsKept ==
  "edits" \notin Habits /\ ~MayTimeOut => (PageSpec => []KeptPolling)
<1> SUFFICES ASSUME "edits" \notin Habits, ~MayTimeOut PROVE PageSpec => []KeptPolling
  OBVIOUS
<1>1. PageInit => PollingInv
  BY PollingInit
<1>2. PageTypeOK /\ PollingInv /\ [PageNext]_vars => PollingInv'
  <2> SUFFICES ASSUME PageTypeOK, PollingInv, [PageNext]_vars PROVE PollingInv'
    OBVIOUS
  <2>1. CASE UNCHANGED vars
    BY <2>1 DEF PollingInv, OneWindow, Answering, KeptPolling, Polling, vars, dispatchVars,
       reqVars, pollVars, pageVars, talkVars, loopVars, editVars, rateVars
  <2> QED
    BY <2>1, PollingServer, PollingPage, PollingUser DEF PageNext
<1>3. PollingInv => KeptPolling
  BY DEF PollingInv
<1> QED
  BY <1>1, <1>2, <1>3, PageTyped, PTL DEF PageSpec
=============================================================================
