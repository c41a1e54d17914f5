------------------------- MODULE MediaFanout_proofs --------------------------
(***************************************************************************)
(* Proofs about MediaFanout, for every set of slots and of chords and all  *)
(* bounds and faults.  The claim protocol is an exclusion protocol: a row  *)
(* in the state "claimed" is the lock, and what a task may assume of the   *)
(* payments of a slot follows from holding it.  What the story plays and   *)
(* what the bars show is proved for the chord of one delivery of fan_out.  *)
(***************************************************************************)
EXTENDS MediaFanout, FiniteSetTheorems, TLAPS

Paying == Slot \ Score

Steps == {"none", "queued", "claiming", "loading", "calling", "recording", "storing", "done",
          "failed"}

\* A generating task holds the placeholder of its slot.
HoldsClaim == \A s \in Paying, k \in Chord : Generating(k, s) => asset[s] = "claimed"

\* Where no row is, and where the call is still to be made, every delivery so far is one
\* that the code did not keep.
NothingKept ==
  \A s \in Paying :
    asset[s] = "none" \/ (\E k \in Chord : job[k][s].at \in {"loading", "calling"})
      => paid[s] <= unheard[s]

Protocol == HoldsClaim /\ OneGenerator /\ NothingKept /\ PaidOnce

Inv == TypeOK /\ Protocol

-------------------------------------------------------------------------------
(* What the helpers do to the jobs and the bars.                             *)

\* Move changes the step of one job and nothing else of any job.
LEMMA MoveEffect ==
  ASSUME job \in [Chord -> [Slot -> Job]], NEW k \in Chord, NEW s \in Slot,
         NEW step \in Steps, Move(k, s, step)
  PROVE  /\ job' \in [Chord -> [Slot -> Job]]
         /\ \A j \in Chord, t \in Slot :
              job'[j][t].at = IF j = k /\ t = s THEN step ELSE job[j][t].at
<1>1. job[k] \in [Slot -> Job] /\ job[k][s] \in Job
  OBVIOUS
<1>2. [job[k][s] EXCEPT !.at = step] \in Job
  BY <1>1 DEF Job, Steps
<1>3. [job[k] EXCEPT ![s].at = step] \in [Slot -> Job]
  BY <1>1, <1>2
<1>4. job' = [job EXCEPT ![k] = [job[k] EXCEPT ![s] = [job[k][s] EXCEPT !.at = step]]]
  BY DEF Move
<1>5. job' \in [Chord -> [Slot -> Job]]
  BY <1>3, <1>4
<1>6. [job[k][s] EXCEPT !.at = step].at = step
  BY <1>1 DEF Job
<1>7. ASSUME NEW j \in Chord, NEW t \in Slot
      PROVE  job'[j][t].at = IF j = k /\ t = s THEN step ELSE job[j][t].at
  BY <1>4, <1>6
<1> QED
  BY <1>5, <1>7

\* A failed attempt is queued again or is over.
LEMMA AgainEffect ==
  ASSUME job \in [Chord -> [Slot -> Job]], NEW k \in Chord, NEW s \in Slot,
         NEW permanent \in BOOLEAN, Again(k, s, permanent)
  PROVE  /\ job' \in [Chord -> [Slot -> Job]]
         /\ job'[k][s].at \in {"queued", "failed"}
         /\ \A j \in Chord, t \in Slot : j # k \/ t # s => job'[j][t].at = job[j][t].at
<1> DEFINE next == IF permanent \/ job[k][s].retries = MaxRetries
                   THEN [job[k][s] EXCEPT !.at = "failed"]
                   ELSE [at |-> "queued", retries |-> job[k][s].retries + 1]
<1>1. job[k] \in [Slot -> Job] /\ job[k][s] \in Job
  OBVIOUS
<1>2. next \in Job /\ next.at \in {"queued", "failed"}
  <2>1. CASE permanent \/ job[k][s].retries = MaxRetries
    <3>1. next = [job[k][s] EXCEPT !.at = "failed"]
      BY <2>1
    <3> HIDE DEF next
    <3>2. next \in Job
      BY <1>1, <3>1 DEF Job
    <3>3. next.at = "failed"
      BY <1>1, <3>1 DEF Job
    <3> QED
      BY <3>2, <3>3
  <2>2. CASE ~(permanent \/ job[k][s].retries = MaxRetries)
    <3>0. job[k][s].retries \in 0..MaxRetries /\ job[k][s].retries # MaxRetries
      BY <1>1, <2>2 DEF Job
    <3>1. job[k][s].retries + 1 \in 0..MaxRetries
      <4> HIDE DEF next
      <4>1. MaxRetries \in Nat
        BY MediaAssumption
      <4> QED
        BY <3>0, <4>1
    <3>2. next = [at |-> "queued", retries |-> job[k][s].retries + 1]
      BY <2>2
    <3> QED
      BY <3>1, <3>2 DEF Job
  <2> QED
    BY <2>1, <2>2
<1>3. job' = [job EXCEPT ![k] = [job[k] EXCEPT ![s] = next]]
  BY DEF Again
<1> HIDE DEF next
<1>4. [job[k] EXCEPT ![s] = next] \in [Slot -> Job]
  BY <1>1, <1>2
<1> QED
  BY <1>2, <1>3, <1>4

FanoutType == [at: {"queued", "expanded", "launched", "acked", "failed"}, todo: SUBSET Slot]

CallbackSteps == {"unused", "open", "broken", "queued", "composing", "video", "filming",
                  "done", "failed", "dropped"}

\* A new step of a callback keeps the chords well typed.
LEMMA CallbackMoveType ==
  ASSUME chord \in [Chord -> Callback], NEW k \in Chord, NEW step \in CallbackSteps,
         chord' = [chord EXCEPT ![k].at = step]
  PROVE  chord' \in [Chord -> Callback]
<1>1. [chord[k] EXCEPT !.at = step] \in Callback
  <2>1. chord[k] \in Callback
    OBVIOUS
  <2> QED
    BY <2>1 DEF Callback, CallbackSteps
<1> QED
  BY <1>1

\* A report leaves the bars well typed.
LEMMA ReportType ==
  ASSUME bar \in [Stage -> [done: Nat, total: Nat]], NEW s, Report(s)
  PROVE  bar' \in [Stage -> [done: Nat, total: Nat]]
<1>1. ASSUME NEW g \in Stage
      PROVE  (IF s \in StageSlots(g) THEN [bar[g] EXCEPT !.done = @ + 1] ELSE bar[g])
               \in [done: Nat, total: Nat]
  <2>1. bar[g] \in [done: Nat, total: Nat]
    OBVIOUS
  <2> QED
    BY <2>1
<1> QED
  BY <1>1 DEF Report

-------------------------------------------------------------------------------
(* TypeOK is preserved, group of actions by group of actions.                *)

\* fan_out: the bars are counted over finite sets of lines and scenes.
LEMMA FanoutTypes == ASSUME TypeOK, FanoutStep PROVE TypeOK'
<1>1. CASE Expand
  <2>1. ASSUME NEW g \in Stage, NEW todo
        PROVE  /\ Cardinality(StageSlots(g) \ todo) \in Nat
               /\ Cardinality(StageSlots(g)) \in Nat
    <3>1. IsFiniteSet(StageSlots(g))
      BY MediaAssumption DEF StageSlots
    <3> QED
      BY <3>1, FS_CardinalityType, FS_Difference
  <2>2. bar' \in [Stage -> [done: Nat, total: Nat]]
    BY <1>1, <2>1 DEF Expand
  <2>3. fanout' \in FanoutType
    BY <1>1 DEF Expand, FanoutType
  <2> QED
    BY <1>1, <2>2, <2>3 DEF Expand, TypeOK, FanoutType, media, product
<1>2. CASE AckFanout \/ ExpandFails
  BY <1>2 DEF AckFanout, ExpandFails, TypeOK, media, product
<1>3. ASSUME NEW k \in Chord, Launch(k) PROVE TypeOK'
  <2>1. NewJob \in Job /\ NoJob \in Job
    BY MediaAssumption DEF NewJob, NoJob, Job
  <2>2. job' \in [Chord -> [Slot -> Job]]
    BY <1>3, <2>1 DEF Launch, TypeOK
  <2>3. chord' \in [Chord -> Callback]
    <3> DEFINE step == IF fanout.todo = {} THEN "queued" ELSE "open"
    <3>1. step \in CallbackSteps /\ chord' = [chord EXCEPT ![k].at = step]
      BY <1>3 DEF Launch, CallbackSteps
    <3> QED
      BY <3>1, CallbackMoveType DEF TypeOK
  <2>4. fanout' \in FanoutType
    BY <1>3 DEF Launch, TypeOK, FanoutType
  <2> QED
    BY <1>3, <2>2, <2>3, <2>4 DEF Launch, TypeOK, FanoutType, media, product
<1> QED
  BY <1>1, <1>2, <1>3 DEF FanoutStep

\* The steps of the media tasks.
LEMMA JobTypes ==
  ASSUME TypeOK, NEW k \in Chord, NEW s \in Slot, JobStep(k, s) PROVE TypeOK'
<1> USE DEF TypeOK, media, bill, product
<1>1. CASE Find(k, s)
  <2>1. job' \in [Chord -> [Slot -> Job]]
    BY <1>1, MoveEffect DEF Find, Settle, Steps
  <2>2. bar' \in [Stage -> [done: Nat, total: Nat]]
    BY <1>1, ReportType DEF Find, Settle
  <2> QED
    BY <1>1, <2>1, <2>2 DEF Find
<1>2. CASE Claim(k, s)
  <2>1. job' \in [Chord -> [Slot -> Job]]
    BY <1>2, MoveEffect DEF Claim, Settle, Steps
  <2>2. bar' \in [Stage -> [done: Nat, total: Nat]]
    BY <1>2, ReportType DEF Claim, Settle
  <2> QED
    BY <1>2, <2>1, <2>2 DEF Claim, SetAsset
<1>3. CASE Called(k, s)
  <2>1. job' \in [Chord -> [Slot -> Job]]
    BY <1>3, MoveEffect DEF Called, Steps
  <2> QED
    BY <1>3, <2>1 DEF Called
<1>4. CASE Blocked(k, s)
  <2>1. job' \in [Chord -> [Slot -> Job]]
    BY <1>4, MoveEffect DEF Blocked, Steps
  <2> QED
    BY <1>4, <2>1 DEF Blocked, SetAsset
<1>5. CASE CallFails(k, s)
  <2>1. job' \in [Chord -> [Slot -> Job]]
    BY <1>5, AgainEffect DEF CallFails
  <2> QED
    BY <1>5, <2>1 DEF CallFails, SetAsset
<1>6. CASE StoreFails(k, s)
  <2>1. job' \in [Chord -> [Slot -> Job]]
    BY <1>6, AgainEffect DEF StoreFails
  <2>2. asset' \in [Slot -> {"none", "claimed", "stored"}]
    BY <1>6 DEF StoreFails, SetAsset
  <2> QED
    BY <1>6, <2>1, <2>2 DEF StoreFails
<1>7. CASE Store(k, s)
  <2>1. job' \in [Chord -> [Slot -> Job]]
    BY <1>7, MoveEffect DEF Store, Settle, Steps
  <2>2. bar' \in [Stage -> [done: Nat, total: Nat]]
    BY <1>7, ReportType DEF Store, Settle
  <2> QED
    BY <1>7, <2>1, <2>2 DEF Store, SetAsset
<1>8. CASE FindScore(k, s)
  <2>1. job' \in [Chord -> [Slot -> Job]]
    BY <1>8, MoveEffect DEF FindScore, Steps
  <2> QED
    BY <1>8, <2>1 DEF FindScore, SetAsset
<1>9. CASE NoScore(k, s) \/ ScoreFails(k, s) \/ Load(k, s) \/ Recorded(k, s)
  <2>1. job' \in [Chord -> [Slot -> Job]]
    BY <1>9, MoveEffect DEF NoScore, ScoreFails, Load, Recorded, Steps
  <2> QED
    BY <1>9, <2>1 DEF NoScore, ScoreFails, Load, Recorded
<1>10. CASE Repeated(k, s)
  BY <1>10 DEF Repeated
<1>11. CASE RecordFails(k, s)
  <2>1. job' \in [Chord -> [Slot -> Job]]
    BY <1>11, AgainEffect DEF RecordFails
  <2> QED
    BY <1>11, <2>1 DEF RecordFails, SetAsset
<1> QED
  BY <1>1, <1>2, <1>3, <1>4, <1>5, <1>6, <1>7, <1>8, <1>9, <1>10, <1>11 DEF JobStep

\* A callback that is tried again or is over keeps its type.
LEMMA TryAgainType ==
  ASSUME chord \in [Chord -> Callback], NEW k \in Chord, NEW from \in {"queued", "video"},
         NEW over \in {"failed", "dropped"},
         chord' = [chord EXCEPT ![k] =
                     IF @.retries = MaxRetries THEN [@ EXCEPT !.at = over]
                     ELSE [at |-> from, retries |-> @.retries + 1, clips |-> @.clips]]
  PROVE  /\ chord' \in [Chord -> Callback]
         /\ chord'[k].at \in {from, over}
         /\ \A j \in Chord \ {k} : chord'[j] = chord[j]
<1> DEFINE next == IF chord[k].retries = MaxRetries THEN [chord[k] EXCEPT !.at = over]
                   ELSE [at |-> from, retries |-> chord[k].retries + 1, clips |-> chord[k].clips]
<1>1. chord[k] \in Callback
  OBVIOUS
<1>2. chord[k].retries \in 0..MaxRetries /\ MaxRetries \in Nat
  BY <1>1, MediaAssumption DEF Callback
<1>3. next \in Callback /\ next.at \in {from, over}
  <2>1. CASE chord[k].retries = MaxRetries
    <3>1. next = [chord[k] EXCEPT !.at = over]
      BY <2>1
    <3> HIDE DEF next
    <3> QED
      BY <1>1, <3>1 DEF Callback
  <2>2. CASE chord[k].retries # MaxRetries
    <3>1. next = [at |-> from, retries |-> chord[k].retries + 1, clips |-> chord[k].clips]
      BY <2>2
    <3> HIDE DEF next
    <3>2. chord[k].retries + 1 \in 0..MaxRetries
      BY <1>2, <2>2
    <3> QED
      BY <1>1, <3>1, <3>2 DEF Callback
  <2> QED
    BY <2>1, <2>2
<1>4. chord' = [chord EXCEPT ![k] = next]
  OBVIOUS
<1> HIDE DEF next
<1> QED
  BY <1>1, <1>3, <1>4

\* The chord and its callback.
LEMMA CallbackTypes ==
  ASSUME TypeOK, NEW k \in Chord, CallbackStep(k) PROVE TypeOK'
<1> USE DEF TypeOK, media, product
<1>1. CASE Join(k)
  <2>1. chord' \in [Chord -> Callback]
    <3> DEFINE step == IF \E s \in Header(k) : At(k, s, "failed") THEN "broken" ELSE "queued"
    <3>1. step \in CallbackSteps /\ chord' = [chord EXCEPT ![k].at = step]
      BY <1>1 DEF Join, CallbackSteps
    <3> QED
      BY <3>1, CallbackMoveType
  <2> QED
    BY <1>1, <2>1 DEF Join
<1>2. CASE AssembleStart(k)
  <2>1. Stored(Line) \subseteq Line
    BY DEF Stored
  <2>2. chord' \in [Chord -> Callback]
    BY <1>2, <2>1, ZenonT(30) DEF AssembleStart, Callback
  <2> QED
    BY <1>2, <2>2 DEF AssembleStart
<1>3. CASE AssembleDone(k)
  <2>1. chord' \in [Chord -> Callback]
    <3>1. CASE Video
      <4>1. [at |-> "video", retries |-> 0, clips |-> chord[k].clips] \in Callback
        BY MediaAssumption DEF Callback
      <4>2. chord' = [chord EXCEPT ![k] = [at |-> "video", retries |-> 0, clips |-> chord[k].clips]]
        BY <1>3, <3>1 DEF AssembleDone
      <4> QED
        BY <4>1, <4>2
    <3>2. CASE ~Video
      BY <1>3, <3>2, CallbackMoveType DEF AssembleDone, CallbackSteps
    <3> QED
      BY <3>1, <3>2
  <2>2. episode' \subseteq Line
    BY <1>3 DEF AssembleDone, Callback
  <2> QED
    BY <1>3, <2>1, <2>2 DEF AssembleDone
<1>4. CASE AssembleFails(k)
  <2>1. chord' \in [Chord -> Callback] /\ story' = "failed"
    BY <1>4, TryAgainType DEF AssembleFails, CallbackFails
  <2>2. episode' \subseteq Line
    BY <1>4 DEF AssembleFails, Callback
  <2> QED
    BY <1>4, <2>1, <2>2 DEF AssembleFails, CallbackFails
<1>5. CASE VideoStart(k)
  <2>1. chord' \in [Chord -> Callback]
    BY <1>5 DEF VideoStart, Callback
  <2> QED
    BY <1>5, <2>1 DEF VideoStart
<1>6. CASE VideoDone(k)
  <2>1. chord' \in [Chord -> Callback]
    BY <1>6, ZenonT(30) DEF VideoDone, Callback
  <2> QED
    BY <1>6, <2>1 DEF VideoDone
<1>7. CASE VideoFails(k)
  <2>1. chord' \in [Chord -> Callback] /\ story' = "failed"
    BY <1>7, TryAgainType DEF VideoFails, CallbackFails
  <2> QED
    BY <1>7, <2>1 DEF VideoFails, CallbackFails
<1>8. CASE CallbackUnmarked(k)
  <2>1. chord' \in [Chord -> Callback]
    BY <1>8, TryAgainType DEF CallbackUnmarked
  <2>2. chord[k].clips \subseteq Line
    BY DEF Callback
  <2>3. episode' \subseteq Line
    BY <1>8, <2>2 DEF CallbackUnmarked
  <2> QED
    BY <1>8, <2>1, <2>3 DEF CallbackUnmarked
<1> QED
  BY <1>1, <1>2, <1>3, <1>4, <1>5, <1>6, <1>7, <1>8 DEF CallbackStep

\* Lost workers: their number is bounded.
LEMMA LossTypes ==
  ASSUME TypeOK,
         \/ FanoutLost
         \/ \E k \in Chord : CallbackLost(k) \/ \E s \in Slot : JobLost(k, s)
  PROVE  TypeOK'
<1> USE DEF TypeOK, media, product
<1>1. ASSUME NEW fault, Crash(fault) PROVE crashes' \in 0..MaxCrashes
  BY <1>1, MediaAssumption DEF Crash
<1>2. CASE FanoutLost
  <2>1. fanout' \in FanoutType
    BY <1>2 DEF FanoutLost, FanoutType
  <2> QED
    BY <1>1, <1>2, <2>1 DEF FanoutLost, FanoutType
<1>3. ASSUME NEW k \in Chord, CallbackLost(k) PROVE TypeOK'
  <2>1. chord' \in [Chord -> Callback]
    BY <1>3, CallbackMoveType DEF CallbackLost, CallbackSteps
  <2> QED
    BY <1>1, <1>3, <2>1 DEF CallbackLost
<1>4. ASSUME NEW k \in Chord, NEW s \in Slot, JobLost(k, s) PROVE TypeOK'
  <2>1. job' \in [Chord -> [Slot -> Job]]
    BY <1>4, MoveEffect DEF JobLost, Steps
  <2>2. bar' \in [Stage -> [done: Nat, total: Nat]]
    BY <1>4, ReportType DEF JobLost
  <2>3. asset' \in [Slot -> {"none", "claimed", "stored"}]
    BY <1>4 DEF JobLost, SetAsset
  <2> QED
    BY <1>1, <1>4, <2>1, <2>2, <2>3 DEF JobLost, bill
<1> QED
  BY <1>2, <1>3, <1>4

\* Every step keeps the types.
LEMMA TypesKept == TypeOK /\ [Next]_vars => TypeOK'
<1> SUFFICES ASSUME TypeOK, [Next]_vars PROVE TypeOK'
  OBVIOUS
<1>1. CASE UNCHANGED vars
  BY <1>1 DEF vars, TypeOK
<1>2. CASE Next
  BY <1>2, FanoutTypes, JobTypes, CallbackTypes, LossTypes DEF Next
<1> QED
  BY <1>1, <1>2

\* The types hold at the start.
LEMMA TypesInitially == Init => TypeOK
<1> SUFFICES ASSUME Init PROVE TypeOK
  OBVIOUS
<1>1. NoJob \in Job /\ NoCallback \in Callback
  BY MediaAssumption DEF NoJob, Job, NoCallback, Callback
<1>2. 0 \in 0..MaxCrashes
  BY MediaAssumption
<1> QED
  BY <1>1, <1>2 DEF Init, TypeOK

\* Every variable keeps its type: retries never exceed max_retries, the bars count.
THEOREM TypeCorrect == Spec => []TypeOK
<1> QED
  BY TypesInitially, TypesKept, PTL DEF Spec

-------------------------------------------------------------------------------
(* The claim protocol is preserved.                                          *)

\* A step that moves one task of a slot keeps the protocol when it respects the claim:
\* the task generates only under a claim of its own, a row or a bill changes only where
\* nobody else generates, and the bill stays within what was not kept, plus one.
LEMMA SlotStep ==
  ASSUME TypeOK, Protocol, NEW k \in Chord, NEW s \in Paying,
         \A t \in Paying : t # s => /\ asset'[t] = asset[t] /\ paid'[t] = paid[t]
                                    /\ unheard'[t] = unheard[t],
         \A j \in Chord, t \in Paying : j # k \/ t # s => job'[j][t].at = job[j][t].at,
         \/ asset'[s] = asset[s] /\ paid'[s] = paid[s] /\ unheard'[s] = unheard[s]
         \/ \A j \in Chord : j # k => ~Generating(j, s),
         Generating(k, s)' =>
           asset'[s] = "claimed" /\ \A j \in Chord : j # k => ~Generating(j, s),
         asset'[s] = "none" \/ job'[k][s].at \in {"loading", "calling"} => paid'[s] <= unheard'[s],
         paid'[s] <= 1 + unheard'[s]
  PROVE  Protocol'
<1>1. HoldsClaim'
  BY DEF Protocol, HoldsClaim, Generating
<1>2. OneGenerator'
  BY DEF Protocol, OneGenerator, Generating, Paying
<1>3. NothingKept'
  <2> SUFFICES ASSUME NEW t \in Paying,
                      asset'[t] = "none" \/ \E j \in Chord : job'[j][t].at \in {"loading", "calling"}
               PROVE  paid'[t] <= unheard'[t]
    BY DEF NothingKept
  <2>1. CASE t # s
    BY <2>1 DEF Protocol, NothingKept
  <2>2. CASE t = s
    <3>1. CASE asset'[s] = "none" \/ job'[k][s].at \in {"loading", "calling"}
      BY <2>2, <3>1
    <3>2. CASE ~(asset'[s] = "none" \/ job'[k][s].at \in {"loading", "calling"})
      <4>1. PICK j \in Chord : j # k /\ job[j][s].at \in {"loading", "calling"}
        BY <2>2, <3>2
      <4>2. Generating(j, s)
        BY <4>1 DEF Generating
      <4>3. paid'[s] = paid[s] /\ unheard'[s] = unheard[s]
        BY <4>1, <4>2
      <4> QED
        BY <2>2, <4>1, <4>3 DEF Protocol, NothingKept
    <3> QED
      BY <3>1, <3>2
  <2> QED
    BY <2>1, <2>2
<1>4. PaidOnce'
  BY DEF Protocol, PaidOnce, Paying
<1> QED
  BY <1>1, <1>2, <1>3, <1>4 DEF Protocol

\* A step in which no task starts to generate and no row or bill changes keeps it.
LEMMA NobodyStarts ==
  ASSUME Protocol, UNCHANGED media,
         \A j \in Chord, t \in Paying :
           /\ Generating(j, t)' => Generating(j, t)
           /\ job'[j][t].at \in {"loading", "calling"} => job[j][t].at \in {"loading", "calling"}
  PROVE  Protocol'
<1>1. HoldsClaim'
  BY DEF Protocol, HoldsClaim, media
<1>2. OneGenerator'
  BY DEF Protocol, OneGenerator, Paying
<1>3. NothingKept'
  BY DEF Protocol, NothingKept, media
<1>4. PaidOnce'
  BY DEF Protocol, PaidOnce, media
<1> QED
  BY <1>1, <1>2, <1>3, <1>4 DEF Protocol

\* The score is outside the protocol: what its task does touches no other slot.
LEMMA ScoreApart ==
  ASSUME TypeOK, Protocol, NEW k \in Chord, NEW s \in Score,
         \A t \in Slot : t # s => /\ asset'[t] = asset[t] /\ paid'[t] = paid[t]
                                  /\ unheard'[t] = unheard[t],
         \A j \in Chord, t \in Slot : j # k \/ t # s => job'[j][t].at = job[j][t].at
  PROVE  Protocol'
<1>1. \A t \in Paying : /\ t \in Slot /\ t # s
                        /\ asset'[t] = asset[t] /\ paid'[t] = paid[t] /\ unheard'[t] = unheard[t]
                        /\ \A j \in Chord : job'[j][t].at = job[j][t].at
  BY DEF Paying
<1>2. HoldsClaim'
  BY <1>1 DEF Protocol, HoldsClaim, Generating
<1>3. OneGenerator'
  BY <1>1 DEF Protocol, OneGenerator, Generating, Paying
<1>4. NothingKept'
  BY <1>1 DEF Protocol, NothingKept
<1>5. PaidOnce'
  BY <1>1 DEF Protocol, PaidOnce, Paying
<1> QED
  BY <1>2, <1>3, <1>4, <1>5 DEF Protocol

\* A step of a task moves that task only, and changes the row and bill of its slot only.
LEMMA TaskEffect ==
  ASSUME TypeOK, NEW k \in Chord, NEW s \in Slot, JobStep(k, s) \/ JobLost(k, s)
  PROVE  /\ job[k][s].at \in {"queued", "claiming", "loading", "calling", "recording", "storing"}
         /\ job' \in [Chord -> [Slot -> Job]]
         /\ \A j \in Chord, t \in Slot : j # k \/ t # s => job'[j][t].at = job[j][t].at
         /\ \A t \in Slot : t # s => /\ asset'[t] = asset[t] /\ paid'[t] = paid[t]
                                     /\ unheard'[t] = unheard[t]
         /\ UNCHANGED <<chord, fanout, episode, story>>
<1>0. job \in [Chord -> [Slot -> Job]]
  BY DEF TypeOK
<1> USE DEF JobStep, JobLost, Find, Claim, Load, Called, Repeated, Recorded, Blocked, CallFails,
            RecordFails, StoreFails, Store, FindScore, NoScore, ScoreFails
<1>1. job[k][s].at \in {"queued", "claiming", "loading", "calling", "recording", "storing"}
  BY DEF At, Generating
<1>2. UNCHANGED <<chord, fanout, episode, story>>
  BY DEF product
<1>3. \/ \E step \in Steps : Move(k, s, step)
      \/ \E permanent \in BOOLEAN : Again(k, s, permanent)
      \/ UNCHANGED job
  BY DEF Settle, Steps
<1>4. /\ UNCHANGED asset \/ \E row : SetAsset(s, row)
      /\ UNCHANGED paid \/ paid' = [paid EXCEPT ![s] = @ + 1]
      /\ UNCHANGED unheard \/ unheard' = [unheard EXCEPT ![s] = @ + 1]
  BY ZenonT(60) DEF media, bill
<1>5. \A t \in Slot : t # s => /\ asset'[t] = asset[t] /\ paid'[t] = paid[t]
                              /\ unheard'[t] = unheard[t]
  <2> HIDE DEF JobStep, JobLost
  <2> QED
    BY <1>4 DEF TypeOK, SetAsset
<1>6. /\ job' \in [Chord -> [Slot -> Job]]
      /\ \A j \in Chord, t \in Slot : j # k \/ t # s => job'[j][t].at = job[j][t].at
  BY <1>0, <1>3, MoveEffect, AgainEffect
<1> QED
  BY <1>1, <1>2, <1>5, <1>6

\* A task that generates holds the claim alone, and pays at most once more.
LEMMA Holder ==
  ASSUME Inv, NEW k \in Chord, NEW s \in Paying, Generating(k, s)
  PROVE  /\ asset[s] = "claimed"
         /\ \A j \in Chord : j # k => ~Generating(j, s)
         /\ paid[s] <= 1 + unheard[s]
         /\ job[k][s].at \in {"loading", "calling"} => paid[s] <= unheard[s]
         /\ paid[s] \in Nat /\ unheard[s] \in Nat
<1>1. asset[s] = "claimed"
  BY DEF Inv, Protocol, HoldsClaim
<1>2. \A j \in Chord : j # k => ~Generating(j, s)
  BY DEF Inv, Protocol, OneGenerator, Paying
<1>3. paid[s] <= 1 + unheard[s]
  BY DEF Inv, Protocol, PaidOnce, Paying
<1>4. job[k][s].at \in {"loading", "calling"} => paid[s] <= unheard[s]
  BY DEF Inv, Protocol, NothingKept
<1>5. paid[s] \in Nat /\ unheard[s] \in Nat
  BY DEF Inv, TypeOK, Paying
<1> QED
  BY <1>1, <1>2, <1>3, <1>4, <1>5

\* Every step of a task for a paid slot keeps the claim protocol.
LEMMA PayingKeepsProtocol ==
  ASSUME Inv, NEW k \in Chord, NEW s \in Paying, JobStep(k, s) \/ JobLost(k, s) PROVE Protocol'
<1>0. /\ s \in Slot /\ s \notin Score /\ TypeOK /\ Protocol
      /\ job \in [Chord -> [Slot -> Job]] /\ asset \in [Slot -> {"none", "claimed", "stored"}]
      /\ paid \in [Slot -> Nat] /\ unheard \in [Slot -> Nat]
      /\ paid[s] <= 1 + unheard[s]
  BY DEF Inv, TypeOK, Protocol, PaidOnce, Paying
<1>1. /\ \A j \in Chord, t \in Paying : j # k \/ t # s => job'[j][t].at = job[j][t].at
      /\ \A t \in Paying : t # s => /\ asset'[t] = asset[t] /\ paid'[t] = paid[t]
                                    /\ unheard'[t] = unheard[t]
  BY <1>0, TaskEffect DEF Paying
<1>2. ASSUME NEW step \in Steps, Move(k, s, step) PROVE job'[k][s].at = step
  BY <1>0, <1>2, MoveEffect
<1>3. ASSUME NEW permanent \in BOOLEAN, Again(k, s, permanent)
      PROVE  job'[k][s].at \in {"queued", "failed"}
  BY <1>0, <1>3, AgainEffect
<1>4. ASSUME UNCHANGED <<asset, paid, unheard>>, job'[k][s].at \in {"queued", "claiming", "done", "failed"}
      PROVE  Protocol'
  <2>1. asset'[s] = "none" => paid'[s] <= unheard'[s]
    BY <1>0, <1>4 DEF Protocol, NothingKept
  <2> QED
    BY <1>0, <1>1, <1>4, <2>1, SlotStep DEF Generating
<1>5. CASE Find(k, s)
  <2>1. job'[k][s].at \in {"claiming", "done"}
    BY <1>2, <1>5 DEF Find, Settle, Steps
  <2> QED
    BY <1>4, <1>5, <2>1 DEF Find, media
<1>6. CASE Claim(k, s)
  <2>1. CASE asset[s] = "none"
    <3>1. \A j \in Chord : ~Generating(j, s)
      BY <2>1 DEF Inv, Protocol, HoldsClaim
    <3>2. asset'[s] = "claimed" /\ job'[k][s].at = "loading" /\ UNCHANGED <<paid, unheard>>
      BY <1>0, <1>2, <1>6, <2>1 DEF Claim, SetAsset, Steps, bill
    <3>3. paid[s] <= unheard[s]
      BY <2>1 DEF Inv, Protocol, NothingKept
    <3> QED
      BY <1>0, <1>1, <3>1, <3>2, <3>3, SlotStep
  <2>2. CASE asset[s] # "none"
    <3>1. job'[k][s].at = "done" /\ UNCHANGED <<asset, paid, unheard>>
      BY <1>2, <1>6, <2>2 DEF Claim, Settle, Steps, bill
    <3> QED
      BY <1>4, <3>1
  <2> QED
    BY <2>1, <2>2
<1>7. ASSUME Generating(k, s), asset'[s] \in {"claimed", "none", "stored"},
             paid'[s] <= 1 + unheard'[s],
             Generating(k, s)' => asset'[s] = "claimed",
             asset'[s] = "none" \/ job'[k][s].at \in {"loading", "calling"} => paid'[s] <= unheard'[s]
      PROVE  Protocol'
  <2>1. \A j \in Chord : j # k => ~Generating(j, s)
    BY <1>7, Holder
  <2> QED
    BY <1>0, <1>1, <1>7, <2>1, SlotStep
<1>8. CASE Load(k, s)
  <2>1. Generating(k, s) /\ job[k][s].at = "loading"
    BY <1>8 DEF Load, Generating, At
  <2>2. job'[k][s].at = "calling" /\ UNCHANGED <<asset, paid, unheard>>
    BY <1>2, <1>8 DEF Load, Steps, media
  <2> QED
    BY <1>7, <2>1, <2>2, Holder
<1>9. CASE Called(k, s)
  <2>1. Generating(k, s) /\ job[k][s].at = "calling"
    BY <1>9 DEF Called, Generating, At
  <2>2. /\ job'[k][s].at = "recording" /\ UNCHANGED <<asset, unheard>>
        /\ paid'[s] = paid[s] + 1
    BY <1>0, <1>2, <1>9 DEF Called, Steps
  <2> QED
    BY <1>7, <2>1, <2>2, Holder
<1>10. CASE Repeated(k, s)
  <2>1. Generating(k, s) /\ job[k][s].at = "calling"
    BY <1>10 DEF Repeated, Generating, At
  <2>2. /\ UNCHANGED <<asset, job>>
        /\ paid'[s] = paid[s] + 1 /\ unheard'[s] = unheard[s] + 1
    BY <1>0, <1>10 DEF Repeated
  <2> QED
    BY <1>7, <2>1, <2>2, Holder
<1>11. CASE Recorded(k, s)
  <2>1. Generating(k, s)
    BY <1>11 DEF Recorded, Generating, At
  <2>2. job'[k][s].at = "storing" /\ UNCHANGED <<asset, paid, unheard>>
    BY <1>2, <1>11 DEF Recorded, Steps, media
  <2> QED
    BY <1>7, <2>1, <2>2, Holder
<1>12. CASE Blocked(k, s)
  <2>1. Generating(k, s) /\ job[k][s].at = "calling"
    BY <1>12 DEF Blocked, Generating, At
  <2>2. job'[k][s].at = "done" /\ asset'[s] = "none" /\ UNCHANGED <<paid, unheard>>
    BY <1>0, <1>2, <1>12 DEF Blocked, SetAsset, Steps, bill
  <2>3. ~Generating(k, s)'
    BY <2>2 DEF Generating
  <2> QED
    BY <1>7, <2>1, <2>2, <2>3, Holder
<1>13. CASE CallFails(k, s)
  <2>1. Generating(k, s) /\ job[k][s].at = "calling"
    BY <1>13 DEF CallFails, Generating, At
  <2>2. job'[k][s].at \in {"queued", "failed"} /\ asset'[s] = "none" /\ UNCHANGED <<paid, unheard>>
    BY <1>0, <1>3, <1>13 DEF CallFails, SetAsset, bill
  <2>3. ~Generating(k, s)'
    BY <2>2 DEF Generating
  <2> QED
    BY <1>7, <2>1, <2>2, <2>3, Holder
<1>14. CASE RecordFails(k, s)
  <2>1. Generating(k, s)
    BY <1>14 DEF RecordFails, Generating, At
  <2>2. /\ job'[k][s].at \in {"queued", "failed"} /\ asset'[s] = "none"
        /\ UNCHANGED paid /\ unheard'[s] = unheard[s] + 1
    BY <1>0, <1>3, <1>14 DEF RecordFails, SetAsset
  <2>3. ~Generating(k, s)'
    BY <2>2 DEF Generating
  <2> QED
    BY <1>7, <2>1, <2>2, <2>3, Holder
<1>15. CASE StoreFails(k, s)
  <2>1. job'[k][s].at \in {"queued", "failed"} /\ UNCHANGED <<paid, unheard>>
    BY <1>3, <1>15 DEF StoreFails, bill
  <2>2. CASE UNCHANGED asset
    BY <1>4, <2>1, <2>2
  <2>3. CASE SetAsset(s, "stored")
    <3>1. asset'[s] = "stored" /\ Generating(k, s) /\ ~Generating(k, s)'
      BY <1>0, <1>15, <2>1, <2>3 DEF SetAsset, StoreFails, Generating
    <3> QED
      BY <1>7, <2>1, <3>1, Holder
  <2> QED
    BY <1>15, <2>2, <2>3 DEF StoreFails
<1>16. CASE Store(k, s)
  <2>1. Generating(k, s)
    BY <1>16 DEF Store, Generating, At
  <2>2. job'[k][s].at = "done" /\ asset'[s] = "stored" /\ UNCHANGED <<paid, unheard>>
    BY <1>0, <1>2, <1>16 DEF Store, Settle, SetAsset, Steps, bill
  <2>3. ~Generating(k, s)'
    BY <2>2 DEF Generating
  <2> QED
    BY <1>7, <2>1, <2>2, <2>3, Holder
<1>17. CASE JobLost(k, s)
  <2>1. job'[k][s].at = "queued" /\ UNCHANGED <<paid, unheard>>
    BY <1>2, <1>17 DEF JobLost, bill, Steps
  <2>2. CASE UNCHANGED asset
    BY <1>4, <2>1, <2>2
  <2>3. CASE At(k, s, "storing") /\ SetAsset(s, "stored")
    <3>1. asset'[s] = "stored" /\ Generating(k, s) /\ ~Generating(k, s)'
      BY <1>0, <2>1, <2>3 DEF SetAsset, At, Generating
    <3> QED
      BY <1>7, <2>1, <3>1, Holder
  <2> QED
    BY <1>17, <2>2, <2>3 DEF JobLost
<1>18. ~FindScore(k, s) /\ ~NoScore(k, s) /\ ~ScoreFails(k, s)
  BY <1>0 DEF FindScore, NoScore, ScoreFails
<1> QED
  BY <1>5, <1>6, <1>8, <1>9, <1>10, <1>11, <1>12, <1>13, <1>14, <1>15, <1>16, <1>17, <1>18
     DEF JobStep

\* The steps of the model, by what they touch.
LEMMA StepKinds ==
  ASSUME [Next]_vars
  PROVE  \/ Expand
         \/ \E k \in Chord : Launch(k)
         \/ AckFanout \/ ExpandFails \/ FanoutLost \/ UNCHANGED vars
         \/ \E k \in Chord : CallbackStep(k) \/ CallbackLost(k)
         \/ \E k \in Chord, s \in Slot : JobStep(k, s) \/ JobLost(k, s)
BY DEF Next, FanoutStep

Unused(k) == chord[k].at = "unused"

\* The launch of a chord gives it its tasks.
LEMMA LaunchEffect ==
  ASSUME TypeOK, NEW k \in Chord, Launch(k)
  PROVE  /\ fanout.at = "expanded" /\ fanout'.at = "launched" /\ Unused(k)
         /\ chord'[k].at = IF fanout.todo = {} THEN "queued" ELSE "open"
         /\ \A j \in Chord \ {k} : chord'[j] = chord[j]
         /\ \A j \in Chord, t \in Slot :
              job'[j][t].at = IF j = k THEN (IF t \in fanout.todo THEN "queued" ELSE "none")
                              ELSE job[j][t].at
         /\ UNCHANGED <<asset, paid, unheard, episode, story, bar>>
<1>1. chord[k] \in Callback
  BY DEF TypeOK
<1> QED
  BY <1>1 DEF Launch, TypeOK, Callback, Unused, NewJob, NoJob, media, product

\* Every step keeps it: the others start no generation and touch no row.
LEMMA ProtocolKept == Inv /\ [Next]_vars => Protocol'
<1> SUFFICES ASSUME Inv, [Next]_vars PROVE Protocol'
  OBVIOUS
<1>0. job \in [Chord -> [Slot -> Job]] /\ Protocol /\ TypeOK
  BY DEF Inv, TypeOK
<1>1. ASSUME UNCHANGED <<media, job>> PROVE Protocol'
  BY <1>0, <1>1, NobodyStarts DEF Generating
<1>2. CASE Expand \/ AckFanout \/ ExpandFails \/ FanoutLost \/ UNCHANGED vars
  BY <1>1, <1>2 DEF Expand, AckFanout, ExpandFails, FanoutLost, vars, media
<1>3. ASSUME NEW k \in Chord, CallbackStep(k) \/ CallbackLost(k) PROVE Protocol'
  BY <1>1, <1>3 DEF CallbackStep, Join, AssembleStart, AssembleDone, AssembleFails, CallbackUnmarked,
     VideoStart, VideoDone, VideoFails, CallbackFails, CallbackLost
<1>4. ASSUME NEW k \in Chord, Launch(k) PROVE Protocol'
  BY <1>0, <1>4, LaunchEffect, NobodyStarts DEF Generating, Paying, media
<1>5. ASSUME NEW k \in Chord, NEW s \in Score, s \in Slot, JobStep(k, s) \/ JobLost(k, s)
      PROVE  Protocol'
  BY <1>0, <1>5, TaskEffect, ScoreApart
<1> QED
  BY <1>2, <1>3, <1>4, <1>5, PayingKeepsProtocol, StepKinds DEF Paying

\* Nobody generates at the start.
LEMMA ProtocolInitially == Init => Protocol
<1> SUFFICES ASSUME Init PROVE Protocol
  OBVIOUS
<1>0. \A s \in Slot : paid[s] = 0 /\ unheard[s] = 0
  BY DEF Init
<1>1. \A k \in Chord, s \in Slot : job[k][s].at = "none"
  BY DEF Init, NoJob
<1>2. \A k \in Chord, s \in Paying : ~Generating(k, s)
  BY <1>1 DEF Generating, Paying
<1>3. HoldsClaim /\ OneGenerator
  BY <1>2 DEF HoldsClaim, OneGenerator, Paying
<1>4. PaidOnce
  BY <1>0 DEF PaidOnce
<1>5. NothingKept
  BY <1>0 DEF NothingKept, Paying
<1> QED
  BY <1>3, <1>4, <1>5 DEF Protocol

\* The types and the protocol together are an inductive invariant.
LEMMA Invariance == Spec => []Inv
<1>1. Init => Inv
  BY TypesInitially, ProtocolInitially DEF Inv
<1>2. Inv /\ [Next]_vars => Inv'
  BY TypesKept, ProtocolKept DEF Inv
<1> QED
  BY <1>1, <1>2, PTL DEF Spec

-------------------------------------------------------------------------------
\* claim_asset lets one task at a time pay for a slot, whatever else is going on.
THEOREM SingleGenerator == Spec => []OneGenerator
<1>1. Inv => OneGenerator
  BY DEF Inv, Protocol
<1> QED
  BY <1>1, Invariance, PTL

\* Once a delivery is kept no redelivery, retry or second chord makes a provider deliver
\* for the slot again, however many calls time out or are forgotten before.
THEOREM NeverPaidAgain == Spec => []PaidOnce
<1>1. Inv => PaidOnce
  BY DEF Inv, Protocol
<1> QED
  BY <1>1, Invariance, PTL

-------------------------------------------------------------------------------
(* One chord: the rows its callback meets and the bars it closes.              *)

LEMMA LineSlots == /\ Line \subseteq Slot /\ Scene \subseteq Slot
                   /\ \A s \in Line \cup Scene : s \notin Score
                   /\ \A s \in Line : s \notin Picture
BY MediaAssumption DEF Slot, Picture

\* A chord that is not built has no tasks; one that is joined has none left to run, and
\* its callback is sent only when no task failed.
Chords ==
  /\ \A k \in Chord, s \in Slot : Unused(k) => At(k, s, "none")
  /\ \A k \in Chord, s \in Slot :
       chord[k].at \notin {"unused", "open"} => job[k][s].at \in {"none", "done", "failed"}
  /\ \A k \in Chord, s \in Slot : Joined(k) => ~At(k, s, "failed")

\* A callback's step moves a chord that is built and no other, and no task.
LEMMA CallbackEffect ==
  ASSUME TypeOK, NEW k \in Chord, CallbackStep(k) \/ CallbackLost(k)
  PROVE  /\ chord[k].at # "unused" /\ chord'[k].at \notin {"unused", "open"}
         /\ chord[k].at = "open" => Join(k)
         /\ Join(k) => chord'[k].at = IF \E s \in Header(k) : At(k, s, "failed")
                                      THEN "broken" ELSE "queued"
         /\ ~Join(k) => Joined(k) /\ chord'[k].at # "broken"
         /\ \A j \in Chord \ {k} : chord'[j] = chord[j]
         /\ UNCHANGED <<asset, paid, unheard, job, fanout, bar>>
<1>0. chord \in [Chord -> Callback] /\ chord[k] \in Callback
  BY DEF TypeOK
<1>1. /\ chord[k].at # "unused"
      /\ chord[k].at = "open" => Join(k)
      /\ ~Join(k) => Joined(k)
      /\ UNCHANGED <<asset, paid, unheard, job, fanout, bar>>
  BY DEF CallbackStep, CallbackLost, Join, AssembleStart, AssembleDone, AssembleFails,
     CallbackUnmarked, VideoStart, VideoDone, VideoFails, CallbackFails, Joined, media
<1> DEFINE Later == CallbackSteps \ {"unused", "open", "broken"}
           Moved == chord'[k].at \in Later /\ \A j \in Chord \ {k} : chord'[j] = chord[j]
<1>2. ASSUME NEW c, c.at \in Later, chord' = [chord EXCEPT ![k] = c] PROVE Moved
  BY <1>0, <1>2
<1>3. ASSUME NEW step \in Later, chord' = [chord EXCEPT ![k].at = step]
      PROVE  Moved /\ chord'[k].at = step
  <2>1. [chord[k] EXCEPT !.at = step].at = step
    BY <1>0 DEF Callback
  <2> QED
    BY <1>0, <1>2, <1>3, <2>1
<1>4. ASSUME AssembleStart(k) PROVE Moved
  <2> DEFINE c == [chord[k] EXCEPT !.at = "composing", !.clips = Stored(Line)]
  <2>1. chord' = [chord EXCEPT ![k] = c]
    BY <1>4 DEF AssembleStart
  <2>2. c.at = "composing"
    BY <1>0 DEF Callback
  <2>3. c.at \in Later
    BY <2>2 DEF CallbackSteps
  <2> HIDE DEF c
  <2> QED
    BY <1>2, <2>1, <2>3
<1>5. ASSUME AssembleDone(k) PROVE Moved
  <2>1. CASE Video
    <3> DEFINE c == [at |-> "video", retries |-> 0, clips |-> chord[k].clips]
    <3>1. chord' = [chord EXCEPT ![k] = c] /\ c.at \in Later
      BY <1>5, <2>1 DEF AssembleDone, CallbackSteps
    <3> HIDE DEF c
    <3> QED
      BY <1>2, <3>1
  <2>2. CASE ~Video
    <3>1. chord' = [chord EXCEPT ![k].at = "done"] /\ "done" \in Later
      BY <1>5, <2>2 DEF AssembleDone, CallbackSteps
    <3> QED
      BY <1>3, <3>1
  <2> QED
    BY <2>1, <2>2
<1>6. ASSUME Join(k)
      PROVE  /\ chord'[k].at \notin {"unused", "open"}
             /\ chord'[k].at = IF \E s \in Header(k) : At(k, s, "failed") THEN "broken" ELSE "queued"
             /\ \A j \in Chord \ {k} : chord'[j] = chord[j]
  <2> DEFINE step == IF \E s \in Header(k) : At(k, s, "failed") THEN "broken" ELSE "queued"
  <2>1. chord' = [chord EXCEPT ![k].at = step] /\ step \in {"broken", "queued"}
    BY <1>6 DEF Join
  <2>2. [chord[k] EXCEPT !.at = step].at = step
    BY <1>0 DEF Callback
  <2>3. chord'[k].at = step /\ \A j \in Chord \ {k} : chord'[j] = chord[j]
    <3> HIDE DEF step
    <3> QED
      BY <1>0, <2>1, <2>2
  <2> QED
    BY <2>3
<1>7. ASSUME VideoStart(k) \/ VideoDone(k) \/ CallbackLost(k) PROVE Moved
  <2>1. PICK step \in {"queued", "filming", "done", "video"} : chord' = [chord EXCEPT ![k].at = step]
    BY <1>7 DEF VideoStart, VideoDone, CallbackLost
  <2>2. step \in Later
    BY DEF CallbackSteps
  <2> QED
    BY <1>3, <2>1, <2>2
<1>8. ASSUME AssembleFails(k) \/ VideoFails(k) \/ CallbackUnmarked(k) PROVE Moved
  <2>1. \A from \in {"queued", "video"}, over \in {"failed", "dropped"} :
          from \in Later /\ over \in Later
    BY DEF CallbackSteps
  <2> QED
    BY <1>0, <1>8, <2>1, TryAgainType DEF AssembleFails, VideoFails, CallbackUnmarked, CallbackFails
<1>9. /\ ~Join(k) => Moved
      /\ chord'[k].at \notin {"unused", "open"}
      /\ \A j \in Chord \ {k} : chord'[j] = chord[j]
  BY <1>4, <1>5, <1>6, <1>7, <1>8 DEF CallbackStep
<1> QED
  BY <1>1, <1>6, <1>9

\* What fan_out, but for its launch, does to chords, tasks and rows: nothing.
LEMMA FanoutEffect ==
  ASSUME Expand \/ AckFanout \/ ExpandFails \/ FanoutLost \/ UNCHANGED vars
  PROVE  UNCHANGED <<chord, job, asset, episode, story>>
BY DEF Expand, AckFanout, ExpandFails, FanoutLost, vars, media, product

LEMMA ChordsInitially == Init => Chords
BY DEF Init, Chords, Unused, Joined, At, NoCallback, NoJob

LEMMA ChordsKept == ASSUME TypeOK, Chords, [Next]_vars PROVE Chords'
<1>1. CASE UNCHANGED <<chord, job>>
  BY <1>1 DEF Chords, Unused, Joined, At
<1>2. ASSUME NEW k \in Chord, Launch(k) PROVE Chords'
  <2>1. ASSUME NEW j \in Chord, NEW s \in Slot, Unused(j)' PROVE At(j, s, "none")'
    BY <1>2, <2>1, LaunchEffect DEF Chords, Unused, At
  <2>2. ASSUME NEW j \in Chord, NEW s \in Slot, chord'[j].at \notin {"unused", "open"}
        PROVE  job'[j][s].at \in {"none", "done", "failed"} /\ (Joined(j)' => ~At(j, s, "failed")')
    BY <1>2, <2>2, LaunchEffect DEF Chords, Joined, At
  <2> QED
    BY <2>1, <2>2 DEF Chords, Joined
<1>3. ASSUME NEW k \in Chord, CallbackStep(k) \/ CallbackLost(k) PROVE Chords'
  <2>1. /\ chord'[k].at \notin {"unused", "open"}
        /\ \A j \in Chord \ {k} : chord'[j] = chord[j]
        /\ UNCHANGED job
    BY <1>3, CallbackEffect
  <2>2. CASE Join(k)
    <3>1. \A s \in Slot : job[k][s].at \in {"none", "done", "failed"}
      BY <2>2 DEF Join, Header, At
    <3>2. Joined(k)' => \A s \in Slot : ~At(k, s, "failed")
      <4>1. Joined(k)' => ~\E s \in Header(k) : At(k, s, "failed")
        BY <1>3, <2>2, CallbackEffect DEF Joined
      <4> QED
        BY <4>1 DEF Header, At
    <3> QED
      BY <2>1, <3>1, <3>2 DEF Chords, Unused, Joined, At
  <2>3. CASE ~Join(k)
    <3>1. Joined(k)
      BY <1>3, <2>3, CallbackEffect
    <3> QED
      BY <2>1, <3>1 DEF Chords, Unused, Joined, At
  <2> QED
    BY <2>2, <2>3
<1>4. ASSUME NEW k \in Chord, NEW s \in Slot, JobStep(k, s) \/ JobLost(k, s) PROVE Chords'
  <2>1. /\ job[k][s].at \notin {"none", "done", "failed"}
        /\ \A j \in Chord, t \in Slot : j # k \/ t # s => job'[j][t].at = job[j][t].at
        /\ UNCHANGED chord
    BY <1>4, TaskEffect
  <2>2. chord[k].at = "open"
    BY <2>1 DEF Chords, Unused, At
  <2> QED
    BY <2>1, <2>2 DEF Chords, Unused, Joined, At
<1> QED
  BY <1>1, <1>2, <1>3, <1>4, FanoutEffect, StepKinds

\* Where one chord is built, the tasks that run are its tasks.
LEMMA RunningIsOpen ==
  ASSUME Chords, NEW k \in Chord, NEW s \in Slot, job[k][s].at \notin {"none", "done", "failed"}
  PROVE  /\ chord[k].at = "open"
         /\ OneBuilt => \A j \in Chord \ {k}, t \in Slot : Unused(j) /\ job[j][t].at = "none"
<1>1. chord[k].at = "open"
  BY DEF Chords, Unused, At
<1> QED
  BY <1>1 DEF OneBuilt, Chords, Unused, At

\* Chords once built stay built.
LEMMA BuiltBefore ==
  ASSUME TypeOK, [Next]_vars, OneBuilt' PROVE OneBuilt
<1>1. \A j \in Chord : Unused(j)' => Unused(j)
  <2>1. ASSUME NEW k \in Chord, Launch(k) PROVE \A j \in Chord : Unused(j)' => Unused(j)
    BY <2>1, LaunchEffect DEF Unused
  <2>2. ASSUME NEW k \in Chord, CallbackStep(k) \/ CallbackLost(k)
        PROVE  \A j \in Chord : Unused(j)' => Unused(j)
    BY <2>2, CallbackEffect DEF Unused
  <2>3. ASSUME NEW k \in Chord, NEW s \in Slot, JobStep(k, s) \/ JobLost(k, s)
        PROVE  \A j \in Chord : Unused(j)' => Unused(j)
    BY <2>3, TaskEffect DEF Unused
  <2> QED
    BY <2>1, <2>2, <2>3, FanoutEffect, StepKinds DEF Unused
<1> QED
  BY <1>1 DEF OneBuilt, Unused

-------------------------------------------------------------------------------
(* What a task leaves of its slot.                                             *)

\* A task that ends well reports and leaves a row, unless its picture was refused; a lost
\* worker may have reported and its task is queued; any other step reports nothing, and
\* the task is still at work or has failed.
LEMMA TaskReports ==
  ASSUME Inv, NEW k \in Chord, NEW s \in Slot, JobStep(k, s) \/ JobLost(k, s)
  PROVE  \/ Report(s) /\ job'[k][s].at = "done" /\ asset'[s] # "none"
         \/ Report(s) /\ job'[k][s].at = "queued" /\ crashes' = crashes + 1
         \/ bar' = bar /\ job'[k][s].at \notin {"none", "done"}
         \/ bar' = bar /\ s \in Picture /\ asset'[s] = "none"
         \/ bar' = bar /\ s \in Score
<1>0. /\ job \in [Chord -> [Slot -> Job]] /\ asset \in [Slot -> {"none", "claimed", "stored"}]
  BY DEF Inv, TypeOK
<1>1. ASSUME NEW step \in Steps, Move(k, s, step) PROVE job'[k][s].at = step
  BY <1>0, <1>1, MoveEffect
<1>2. ASSUME NEW permanent \in BOOLEAN, Again(k, s, permanent)
      PROVE  job'[k][s].at \in {"queued", "failed"}
  BY <1>0, <1>2, AgainEffect
<1>3. CASE Find(k, s)
  BY <1>1, <1>3 DEF Find, Settle, Steps, media
<1>4. CASE Claim(k, s)
  BY <1>0, <1>1, <1>4 DEF Claim, Settle, Steps, SetAsset
<1>5. CASE Store(k, s)
  BY <1>0, <1>1, <1>5 DEF Store, Settle, Steps, SetAsset
<1>6. CASE Blocked(k, s)
  BY <1>0, <1>6 DEF Blocked, SetAsset
<1>7. CASE CallFails(k, s) \/ RecordFails(k, s) \/ StoreFails(k, s)
  <2>1. \E permanent \in BOOLEAN : Again(k, s, permanent)
    BY <1>7 DEF CallFails, RecordFails, StoreFails
  <2>2. bar' = bar
    BY <1>7 DEF CallFails, RecordFails, StoreFails
  <2> QED
    BY <1>2, <2>1, <2>2
<1>8. CASE Load(k, s) \/ Called(k, s) \/ Recorded(k, s)
  <2>1. \E step \in {"calling", "recording", "storing"} : Move(k, s, step)
    BY <1>8 DEF Load, Called, Recorded
  <2>2. bar' = bar
    BY <1>8 DEF Load, Called, Recorded
  <2> QED
    BY <1>1, <2>1, <2>2 DEF Steps
<1>9. CASE Repeated(k, s)
  BY <1>9 DEF Repeated, At
<1>10. CASE FindScore(k, s) \/ NoScore(k, s)
  BY <1>10 DEF FindScore, NoScore
<1>11. CASE ScoreFails(k, s)
  BY <1>11 DEF ScoreFails
<1>12. CASE JobLost(k, s)
  <2>1. job'[k][s].at = "queued" /\ crashes' = crashes + 1 /\ (bar' = bar \/ Report(s))
    BY <1>1, <1>12 DEF JobLost, Crash, Steps
  <2> QED
    BY <2>1
<1> QED
  BY <1>3, <1>4, <1>5, <1>6, <1>7, <1>8, <1>9, <1>10, <1>11, <1>12 DEF JobStep

\* A row that a task is not at work on stays on record until the chord is joined; before
\* the launch the work list names the slots without a row.
Rows ==
  OneBuilt =>
    /\ \A k \in Chord, s \in Line :
         ~Unused(k) /\ job[k][s].at \in {"none", "done"} => asset[s] # "none"
    /\ fanout.at = "expanded" /\ (\A k \in Chord : Unused(k)) =>
         \A s \in Line \cup Scene : s \in fanout.todo <=> asset[s] = "none"

LEMMA RowsInitially == Init => Rows
BY DEF Init, Rows, Unused, NoCallback

LEMMA RowsKept == ASSUME Inv, Chords, Rows, [Next]_vars PROVE Rows'
<1> SUFFICES ASSUME OneBuilt' PROVE Rows'
  BY DEF Rows
<1> USE LineSlots
<1>0. TypeOK /\ OneBuilt
  BY BuiltBefore DEF Inv
<1>1. CASE Expand \/ AckFanout \/ ExpandFails \/ FanoutLost \/ UNCHANGED vars
  <2>1. UNCHANGED <<chord, job, asset>>
    BY <1>1, FanoutEffect
  <2>2. ASSUME fanout'.at = "expanded", ~Expand PROVE fanout' = fanout
    BY <1>0, <1>1, <2>2 DEF AckFanout, ExpandFails, FanoutLost, vars, TypeOK
  <2>3. ASSUME Expand, NEW s \in Line \cup Scene PROVE s \in fanout'.todo <=> asset[s] = "none"
    BY <2>3 DEF Expand
  <2> QED
    BY <1>0, <2>1, <2>2, <2>3 DEF Rows, Unused
<1>2. ASSUME NEW k \in Chord, Launch(k) PROVE Rows'
  <2>1. \A j \in Chord : Unused(j)
    <3>1. ~Unused(k)' /\ Unused(k)
      BY <1>0, <1>2, LaunchEffect DEF Unused
    <3>2. \A j \in Chord : j # k => Unused(j)'
      BY <3>1 DEF OneBuilt, Unused
    <3> QED
      BY <1>0, <1>2, <3>1, <3>2, LaunchEffect DEF Unused
  <2>2. fanout.at = "expanded" /\ fanout'.at = "launched" /\ asset' = asset
    BY <1>0, <1>2, LaunchEffect
  <2>3. ASSUME NEW j \in Chord, NEW s \in Line, ~Unused(j)', job'[j][s].at \in {"none", "done"}
        PROVE  asset'[s] # "none"
    <3>1. j = k
      BY <1>0, <1>2, <2>1, <2>3, LaunchEffect DEF Unused
    <3>2. s \notin fanout.todo
      BY <1>0, <1>2, <2>3, <3>1, LaunchEffect
    <3> QED
      BY <1>0, <2>1, <2>2, <3>2 DEF Rows
  <2> QED
    BY <2>2, <2>3 DEF Rows
<1>3. ASSUME NEW k \in Chord, CallbackStep(k) \/ CallbackLost(k) PROVE Rows'
  <2>1. /\ UNCHANGED <<asset, job, fanout>> /\ \A j \in Chord : Unused(j)' <=> Unused(j)
    BY <1>0, <1>3, CallbackEffect DEF Unused
  <2> QED
    BY <1>0, <2>1 DEF Rows
<1>4. ASSUME NEW k \in Chord, NEW t \in Slot, JobStep(k, t) \/ JobLost(k, t) PROVE Rows'
  <2>1. /\ job[k][t].at \notin {"none", "done", "failed"}
        /\ \A j \in Chord, s \in Slot : j # k \/ s # t => job'[j][s].at = job[j][s].at
        /\ \A s \in Slot : s # t => asset'[s] = asset[s]
        /\ UNCHANGED <<chord, fanout>>
    BY <1>0, <1>4, TaskEffect
  <2>2. chord[k].at = "open" /\ \A j \in Chord \ {k} : Unused(j)
    BY <1>0, <2>1, RunningIsOpen
  <2>3. ASSUME NEW j \in Chord, NEW s \in Line, ~Unused(j)', job'[j][s].at \in {"none", "done"}
        PROVE  asset'[s] # "none"
    <3>1. j = k
      BY <2>1, <2>2, <2>3 DEF Unused
    <3>2. CASE s = t
      BY <1>4, <2>3, <3>1, <3>2, TaskReports
    <3>3. CASE s # t
      BY <1>0, <2>1, <2>2, <2>3, <3>1, <3>3 DEF Rows, Unused
    <3> QED
      BY <3>2, <3>3
  <2>4. ~\A j \in Chord : Unused(j)'
    BY <2>1, <2>2 DEF Unused
  <2> QED
    BY <2>3, <2>4 DEF Rows
<1> QED
  BY <1>1, <1>2, <1>3, <1>4, StepKinds

-------------------------------------------------------------------------------
(* The episode.                                                                *)

\* From the reading of the clips on, the clips and then the episode are what is stored.
Episode ==
  OneBuilt =>
    /\ \A k \in Chord : chord[k].at = "composing" => chord[k].clips = Stored(Line)
    /\ story = "ready" => episode = Stored(Line) /\ \E k \in Chord : Joined(k)
    /\ \A k \in Chord : chord[k].at \in {"video", "filming", "done"} => episode = Stored(Line)

\* A callback's step by what it does to the episode and the story.
LEMMA EpisodeEffect ==
  ASSUME TypeOK, NEW k \in Chord, CallbackStep(k) \/ CallbackLost(k)
  PROVE  /\ chord'[k].at = "composing" => chord'[k].clips = Stored(Line)
         /\ (episode' = episode \/ (chord[k].at = "composing" /\ episode' = chord[k].clips))
         /\ chord'[k].at \in {"video", "filming", "done"} =>
              \/ chord[k].at \in {"video", "filming"} /\ episode' = episode
              \/ chord[k].at = "composing" /\ episode' = chord[k].clips
         /\ story' = "ready" =>
              story = "ready" \/ chord'[k].at = "done"
<1>0. chord \in [Chord -> Callback] /\ chord[k] \in Callback
  BY DEF TypeOK
<1>1. ASSUME NEW step, chord' = [chord EXCEPT ![k].at = step] PROVE chord'[k].at = step
  BY <1>0, <1>1 DEF Callback
<1>2. CASE AssembleStart(k)
  <2>1. chord'[k].at = "composing" /\ chord'[k].clips = Stored(Line)
    BY <1>0, <1>2 DEF AssembleStart, Callback
  <2> QED
    BY <1>2, <2>1 DEF AssembleStart, product
<1>3. CASE AssembleDone(k)
  <2>1. chord[k].at = "composing" /\ episode' = chord[k].clips
    BY <1>3 DEF AssembleDone
  <2>2. CASE Video
    <3>1. chord'[k].at = "video" /\ story' = story
      BY <1>0, <1>3, <2>2 DEF AssembleDone
    <3> QED
      BY <2>1, <3>1
  <2>3. CASE ~Video
    <3>1. chord'[k].at = "done"
      BY <1>1, <1>3, <2>3 DEF AssembleDone
    <3> QED
      BY <2>1, <3>1
  <2> QED
    BY <2>2, <2>3
<1>4. CASE Join(k)
  <2>1. chord'[k].at \in {"broken", "queued"}
    BY <1>4, CallbackEffect
  <2> QED
    BY <1>4, <2>1 DEF Join, product
<1>5. CASE VideoStart(k) \/ VideoDone(k)
  <2>1. chord'[k].at \in {"filming", "done"} /\ chord[k].at \in {"video", "filming"}
    BY <1>1, <1>5 DEF VideoStart, VideoDone
  <2> QED
    BY <1>1, <1>5, <2>1 DEF VideoStart, VideoDone, product
<1>6. CASE CallbackLost(k)
  <2>1. chord'[k].at \in {"queued", "video"} /\ (chord'[k].at = "video" => chord[k].at = "filming")
    BY <1>1, <1>6 DEF CallbackLost
  <2> QED
    BY <1>6, <2>1 DEF CallbackLost, product
<1>7. CASE AssembleFails(k)
  <2>1. chord'[k].at \in {"queued", "failed"}
    BY <1>0, <1>7, TryAgainType DEF AssembleFails, CallbackFails
  <2> QED
    BY <1>7, <2>1 DEF AssembleFails, CallbackFails
<1>8. CASE VideoFails(k)
  <2>1. chord'[k].at \in {"video", "failed"} /\ chord[k].at = "filming"
    BY <1>0, <1>8, TryAgainType DEF VideoFails, CallbackFails
  <2> QED
    BY <1>8, <2>1 DEF VideoFails, CallbackFails
<1>9. CASE CallbackUnmarked(k)
  <2>1. PICK from \in {"queued", "video"} :
          /\ chord[k].at \in IF from = "queued" THEN {"queued", "composing"} ELSE {"video", "filming"}
          /\ chord' = [chord EXCEPT ![k] =
                         IF @.retries = MaxRetries THEN [@ EXCEPT !.at = "dropped"]
                         ELSE [at |-> from, retries |-> @.retries + 1, clips |-> @.clips]]
    BY <1>9 DEF CallbackUnmarked
  <2>2. chord'[k].at \in {from, "dropped"}
    BY <1>0, <2>1, TryAgainType
  <2>3. story' = story /\ (episode' = episode \/ (chord[k].at = "composing" /\ episode' = chord[k].clips))
    BY <1>9 DEF CallbackUnmarked
  <2>4. CASE from = "queued"
    <3>1. chord'[k].at \in {"queued", "dropped"}
      BY <2>2, <2>4
    <3> QED
      BY <2>3, <3>1
  <2>5. CASE from = "video"
    <3>1. chord'[k].at \in {"video", "dropped"} /\ chord[k].at \in {"video", "filming"}
      BY <2>1, <2>2, <2>5
    <3>2. episode' = episode
      BY <2>3, <3>1
    <3> QED
      BY <2>3, <3>1, <3>2
  <2> QED
    BY <2>4, <2>5
<1> QED
  BY <1>2, <1>3, <1>4, <1>5, <1>6, <1>7, <1>8, <1>9 DEF CallbackStep

LEMMA EpisodeInitially == Init => Episode
BY DEF Init, Episode, NoCallback

LEMMA EpisodeKept == ASSUME Inv, Chords, Episode, [Next]_vars PROVE Episode'
<1> SUFFICES ASSUME OneBuilt' PROVE Episode'
  BY DEF Episode
<1>0. TypeOK /\ OneBuilt
  BY BuiltBefore DEF Inv
<1>1. CASE UNCHANGED <<chord, asset, episode, story>>
  BY <1>0, <1>1 DEF Episode, Stored, Joined
<1>2. ASSUME NEW k \in Chord, Launch(k) PROVE Episode'
  <2>1. /\ UNCHANGED <<asset, episode, story>> /\ chord'[k].at \in {"queued", "open"} /\ Unused(k)
        /\ \A j \in Chord \ {k} : chord'[j] = chord[j]
    BY <1>0, <1>2, LaunchEffect
  <2>2. \A j \in Chord : Joined(j) => Joined(j)'
    BY <2>1 DEF Joined, Unused
  <2> QED
    BY <1>0, <2>1, <2>2 DEF Episode, Stored
<1>3. ASSUME NEW k \in Chord, CallbackStep(k) \/ CallbackLost(k) PROVE Episode'
  <2>1. /\ asset' = asset /\ chord[k].at # "unused" /\ chord'[k].at # "unused"
        /\ \A j \in Chord \ {k} : chord'[j] = chord[j]
    BY <1>0, <1>3, CallbackEffect
  <2>2. \A j \in Chord \ {k} : chord'[j].at = "unused" /\ chord[j].at = "unused"
    BY <1>0, <2>1 DEF OneBuilt
  <2>3. chord[k].at = "composing" => chord[k].clips = Stored(Line)
    BY <1>0 DEF Episode
  <2>4. chord'[k].at = "composing" => chord'[k].clips = Stored(Line)
    BY <1>0, <1>3, EpisodeEffect
  <2>5. chord'[k].at \in {"video", "filming", "done"} => episode' = Stored(Line)
    BY <1>0, <1>3, <2>3, EpisodeEffect DEF Episode
  <2>6. story' = "ready" => episode' = Stored(Line) /\ Joined(k)'
    <3>1. CASE story' = "ready" /\ story = "ready"
      <4>1. episode = Stored(Line) /\ \E j \in Chord : Joined(j)
        BY <1>0, <3>1 DEF Episode
      <4>2. Joined(k)
        BY <2>2, <4>1 DEF Joined
      <4>3. ~Join(k) /\ chord'[k].at \notin {"unused", "open"}
        BY <1>0, <1>3, <4>2, CallbackEffect DEF Joined, Join
      <4>4. chord'[k].at # "broken"
        BY <1>0, <1>3, <4>3, CallbackEffect
      <4>5. Joined(k)'
        BY <4>3, <4>4 DEF Joined
      <4> QED
        BY <1>0, <1>3, <2>3, <4>1, <4>5, EpisodeEffect
    <3>2. CASE story' = "ready" /\ story # "ready"
      <4>1. chord'[k].at = "done"
        BY <1>0, <1>3, <3>2, EpisodeEffect
      <4> QED
        BY <2>5, <4>1 DEF Joined
    <3> QED
      BY <3>1, <3>2
  <2> QED
    BY <2>1, <2>2, <2>4, <2>5, <2>6 DEF Episode, Stored
<1>4. ASSUME NEW k \in Chord, NEW t \in Slot, JobStep(k, t) \/ JobLost(k, t) PROVE Episode'
  <2>1. job[k][t].at \notin {"none", "done", "failed"} /\ UNCHANGED <<chord, episode, story>>
    BY <1>0, <1>4, TaskEffect
  <2>2. chord[k].at = "open" /\ \A j \in Chord \ {k} : chord[j].at = "unused"
    BY <1>0, <2>1, RunningIsOpen DEF Unused
  <2>3. \A j \in Chord : chord'[j].at \in {"open", "unused"} /\ ~Joined(j)
    BY <2>1, <2>2 DEF Joined
  <2>4. story' # "ready"
    BY <1>0, <2>1, <2>3 DEF Episode
  <2> QED
    BY <2>3, <2>4 DEF Episode
<1> QED
  BY <1>1, <1>2, <1>3, <1>4, FanoutEffect, StepKinds

\* The invariants of one chord, together.
ChordInv == Inv /\ Chords /\ Rows /\ Episode

LEMMA ChordInvariance == Spec => []ChordInv
<1>1. Init => ChordInv
  BY TypesInitially, ProtocolInitially, ChordsInitially, RowsInitially, EpisodeInitially
     DEF ChordInv, Inv
<1>2. ChordInv /\ [Next]_vars => ChordInv'
  <2> SUFFICES ASSUME ChordInv, [Next]_vars PROVE ChordInv'
    OBVIOUS
  <2>1. Inv /\ Chords /\ Rows /\ Episode /\ TypeOK
    BY DEF ChordInv, Inv
  <2>2. Inv'
    BY <2>1, TypesKept, ProtocolKept DEF Inv
  <2>3. Chords' /\ Rows' /\ Episode'
    BY <2>1, ChordsKept, RowsKept, EpisodeKept
  <2> QED
    BY <2>2, <2>3 DEF ChordInv
<1> QED
  BY <1>1, <1>2, PTL DEF Spec

\* A ready story misses a line only where a placeholder stands that nobody fills: for any
\* rows inherited from the parent, any faults, lost workers and retries, whatever chord
\* one delivery of fan_out built.
THEOREM ReadyButOrphans == Spec => []OnlyOrphansMissing
<1>1. ChordInv => OnlyOrphansMissing
  <2> USE LineSlots
  <2> SUFFICES ASSUME ChordInv, OneBuilt, story = "ready"
               PROVE  episode = Stored(Line) /\ \A s \in Line \ episode : Orphan(s)
    BY DEF OnlyOrphansMissing
  <2>1. PICK k \in Chord : Joined(k)
    BY DEF ChordInv, Episode
  <2>2. episode = Stored(Line)
    BY DEF ChordInv, Episode
  <2>3. \A j \in Chord, s \in Line : job[j][s].at \in {"none", "done"}
    <3>1. \A s \in Line : job[k][s].at \in {"none", "done"}
      BY <2>1 DEF ChordInv, Chords, Joined, At
    <3>2. \A j \in Chord \ {k}, s \in Line : At(j, s, "none")
      BY <2>1 DEF ChordInv, Chords, OneBuilt, Unused, Joined
    <3> QED
      BY <3>1, <3>2 DEF At
  <2>4. \A s \in Line : asset[s] \in {"claimed", "stored"}
    BY <2>1, <2>3 DEF ChordInv, Rows, Unused, Joined, Inv, TypeOK
  <2> QED
    BY <2>2, <2>3, <2>4 DEF Orphan, Stored, Generating
<1> QED
  BY <1>1, ChordInvariance, PTL

-------------------------------------------------------------------------------
(* The bars.                                                                   *)

\* The bars were opened for the work of the chord that is built.
Opened == \/ fanout.at \in {"launched", "acked"}
          \/ fanout.at = "expanded" /\ \A k \in Chord : Unused(k)

\* The slots of a stage that have a row and no task at work on it.
Counted(g) == {s \in StageSlots(g) :
                 asset[s] # "none" /\ \A k \in Chord : job[k][s].at \in {"none", "done"}}

Bars ==
  OneBuilt /\ Opened =>
    \A g \in Stage :
      /\ bar[g].total = Cardinality(StageSlots(g))
      /\ Cardinality(Counted(g)) <= bar[g].done
      /\ bar[g].done <= Cardinality(Counted(g)) + crashes

LEMMA StageSlotsFinite ==
  \A g \in Stage : /\ IsFiniteSet(StageSlots(g)) /\ StageSlots(g) \subseteq Line \cup Scene
                   /\ StageSlots(g) \subseteq Slot
BY LineSlots, MediaAssumption DEF StageSlots

LEMMA BarsInitially == Init => Bars
BY DEF Init, Bars, Opened

\* A step of a task that counts its slot reports it, and no other step of a task moves
\* a slot into or out of the count.
LEMMA CountedStep ==
  ASSUME Inv, Chords, OneBuilt, NEW k \in Chord, NEW t \in Slot, JobStep(k, t) \/ JobLost(k, t),
         NEW g \in Stage
  PROVE  \/ /\ t \in StageSlots(g) /\ t \notin Counted(g) /\ Counted(g)' = Counted(g) \cup {t}
            /\ bar'[g].done = bar[g].done + 1 /\ bar'[g].total = bar[g].total
         \/ /\ Counted(g)' = Counted(g) /\ bar'[g].done = bar[g].done + 1
            /\ bar'[g].total = bar[g].total /\ crashes' = crashes + 1
         \/ Counted(g)' = Counted(g) /\ bar'[g] = bar[g]
<1>0. /\ TypeOK /\ bar \in [Stage -> [done: Nat, total: Nat]]
      /\ StageSlots(g) \subseteq Slot /\ StageSlots(g)' = StageSlots(g)
  BY StageSlotsFinite DEF Inv, TypeOK, StageSlots
<1>1. /\ job[k][t].at \notin {"none", "done", "failed"}
      /\ \A j \in Chord, s \in Slot : j # k \/ s # t => job'[j][s].at = job[j][s].at
      /\ \A s \in Slot : s # t => asset'[s] = asset[s]
  BY <1>0, TaskEffect
<1>2. \A j \in Chord \ {k} : job[j][t].at = "none"
  BY <1>1, RunningIsOpen
<1>3. t \notin Counted(g)
  BY <1>1 DEF Counted
<1>4. \A s \in StageSlots(g) : s # t => (s \in Counted(g) <=> s \in Counted(g)')
  BY <1>0, <1>1 DEF Counted
<1>5. t \in Counted(g)' <=> t \in StageSlots(g) /\ asset'[t] # "none" /\ job'[k][t].at \in {"none", "done"}
  BY <1>0, <1>1, <1>2 DEF Counted
<1>6. Counted(g) \subseteq StageSlots(g) /\ Counted(g)' \subseteq StageSlots(g)
  BY <1>0 DEF Counted
<1>7. CASE Report(t) /\ job'[k][t].at = "done" /\ asset'[t] # "none"
  <2>1. CASE t \in StageSlots(g)
    <3>1. Counted(g)' = Counted(g) \cup {t}
      BY <1>4, <1>5, <1>6, <1>7, <2>1
    <3>2. bar'[g] = [bar[g] EXCEPT !.done = @ + 1]
      BY <1>7, <2>1 DEF Report
    <3> QED
      BY <1>0, <1>3, <2>1, <3>1, <3>2
  <2>2. CASE t \notin StageSlots(g)
    <3>1. Counted(g)' = Counted(g)
      BY <1>3, <1>4, <1>5, <1>6, <2>2
    <3>2. bar'[g] = bar[g]
      BY <1>7, <2>2 DEF Report
    <3> QED
      BY <3>1, <3>2
  <2> QED
    BY <2>1, <2>2
<1>8. CASE bar' = bar /\ (job'[k][t].at \notin {"none", "done"} \/ asset'[t] = "none" \/ t \in Score)
  <2>1. t \in StageSlots(g) => t \notin Score
    BY StageSlotsFinite, LineSlots
  <2>2. t \notin Counted(g)'
    BY <1>5, <1>8, <2>1
  <2> QED
    BY <1>3, <1>4, <1>6, <1>8, <2>2
<1>9. CASE Report(t) /\ job'[k][t].at = "queued" /\ crashes' = crashes + 1
  <2>0. t \notin Counted(g)'
    BY <1>5, <1>9
  <2>1. Counted(g)' = Counted(g)
    BY <1>3, <1>4, <1>6, <2>0
  <2>2. bar'[g] = IF t \in StageSlots(g) THEN [bar[g] EXCEPT !.done = @ + 1] ELSE bar[g]
    BY <1>9 DEF Report
  <2> QED
    BY <1>0, <1>9, <2>1, <2>2
<1> QED
  BY <1>7, <1>8, <1>9, TaskReports

\* Losses are only counted up.
LEMMA Crashes ==
  ASSUME TypeOK, [Next]_vars
  PROVE  crashes \in Nat /\ crashes' \in Nat /\ crashes <= crashes'
<1>1. crashes \in Nat
  BY MediaAssumption DEF TypeOK
<1>2. crashes' = crashes \/ crashes' = crashes + 1
  <2>1. CASE Expand \/ AckFanout \/ ExpandFails \/ FanoutLost \/ UNCHANGED vars
    BY <2>1 DEF Expand, AckFanout, ExpandFails, FanoutLost, Crash, vars
  <2>2. ASSUME NEW k \in Chord, Launch(k) PROVE crashes' = crashes
    BY <2>2 DEF Launch
  <2>3. ASSUME NEW k \in Chord, CallbackStep(k) \/ CallbackLost(k)
        PROVE  crashes' = crashes \/ crashes' = crashes + 1
    BY <2>3 DEF CallbackStep, Join, AssembleStart, AssembleDone, AssembleFails, CallbackUnmarked,
       VideoStart, VideoDone, VideoFails, CallbackFails, CallbackLost, Crash
  <2>4. ASSUME NEW k \in Chord, NEW s \in Slot, JobStep(k, s) \/ JobLost(k, s)
        PROVE  crashes' = crashes \/ crashes' = crashes + 1
    BY <2>4 DEF JobStep, Find, Claim, Load, Called, Repeated, Recorded, Blocked, CallFails,
       RecordFails, StoreFails, Store, FindScore, NoScore, ScoreFails, JobLost, Crash
  <2> QED
    BY <2>1, <2>2, <2>3, <2>4, StepKinds
<1> QED
  BY <1>1, <1>2

\* What is counted is finite, before and after a step.
LEMMA CountedFinite ==
  ASSUME NEW g \in Stage
  PROVE  /\ IsFiniteSet(Counted(g)) /\ Cardinality(Counted(g)) \in Nat
         /\ Cardinality(Counted(g)') \in Nat
<1>1. Counted(g) \subseteq StageSlots(g) /\ Counted(g)' \subseteq StageSlots(g)
  BY DEF Counted, StageSlots
<1> QED
  BY <1>1, StageSlotsFinite, FS_Subset, FS_CardinalityType

LEMMA BarsKept == ASSUME Inv, Chords, Rows, Bars, [Next]_vars PROVE Bars'
<1> SUFFICES ASSUME OneBuilt', Opened' PROVE Bars'
  BY DEF Bars
<1>0. /\ TypeOK /\ OneBuilt /\ bar \in [Stage -> [done: Nat, total: Nat]]
      /\ \A g \in Stage : StageSlots(g)' = StageSlots(g)
  BY BuiltBefore DEF Inv, TypeOK, StageSlots
<1>c. crashes \in Nat /\ crashes' \in Nat /\ crashes <= crashes'
  BY <1>0, Crashes
<1>1. ASSUME UNCHANGED <<asset, bar>>, \A j \in Chord, s \in Slot : job'[j][s].at = job[j][s].at, Opened
      PROVE  Bars'
  <2>1. \A g \in Stage : Counted(g)' = Counted(g)
    BY <1>0, <1>1, StageSlotsFinite DEF Counted
  <2>2. ASSUME NEW g \in Stage
        PROVE  /\ bar'[g].total = Cardinality(StageSlots(g))
               /\ Cardinality(Counted(g)') <= bar'[g].done
               /\ bar'[g].done <= Cardinality(Counted(g)') + crashes'
    <3>1. /\ bar[g].total = Cardinality(StageSlots(g)) /\ bar[g].done \in Nat
          /\ Cardinality(Counted(g)) <= bar[g].done
          /\ bar[g].done <= Cardinality(Counted(g)) + crashes
      BY <1>0, <1>1 DEF Bars
    <3> QED
      BY <1>1, <1>c, <2>1, <3>1, CountedFinite
  <2> QED
    BY <1>0, <2>2 DEF Bars
<1>2. CASE Expand
  <2>1. UNCHANGED <<chord, job, asset>>
    BY <1>2, FanoutEffect
  <2>2. \A k \in Chord, s \in Slot : job[k][s].at = "none"
    <3>1. fanout'.at = "expanded"
      BY <1>2 DEF Expand
    <3> QED
      BY <2>1, <3>1 DEF Opened, Chords, Unused, At
  <2>3. ASSUME NEW g \in Stage
        PROVE  /\ bar'[g].total = Cardinality(StageSlots(g))
               /\ bar'[g].done = Cardinality(StageSlots(g) \ fanout'.todo)
    BY <1>2 DEF Expand
  <2>4. ASSUME NEW g \in Stage PROVE StageSlots(g) \ fanout'.todo = Counted(g)'
    <3>1. \A s \in StageSlots(g) : s \in fanout'.todo <=> asset[s] = "none"
      BY <1>2, StageSlotsFinite, LineSlots DEF Expand
    <3> QED
      BY <1>0, <2>1, <2>2, <3>1, StageSlotsFinite DEF Counted
  <2>5. ASSUME NEW g \in Stage
        PROVE  /\ bar'[g].total = Cardinality(StageSlots(g))
               /\ Cardinality(Counted(g)') <= bar'[g].done
               /\ bar'[g].done <= Cardinality(Counted(g)') + crashes'
    <3>1. ASSUME NEW n \in Nat, NEW m \in Nat PROVE n <= n /\ n <= n + m
      BY <3>1
    <3>2. bar'[g].total = Cardinality(StageSlots(g)) /\ bar'[g].done = Cardinality(Counted(g)')
      BY <2>3, <2>4
    <3> QED
      BY <1>c, <3>1, <3>2, CountedFinite, Zenon
  <2> QED
    BY <1>0, <2>5 DEF Bars
<1>3. CASE AckFanout \/ ExpandFails \/ FanoutLost \/ UNCHANGED vars
  <2>1. UNCHANGED <<chord, job, asset, bar>>
    BY <1>3 DEF AckFanout, ExpandFails, FanoutLost, vars, media
  <2>2. Opened
    BY <1>0, <1>3 DEF AckFanout, ExpandFails, FanoutLost, vars, Opened, Unused, TypeOK
  <2> QED
    BY <1>1, <2>1, <2>2
<1>4. ASSUME NEW k \in Chord, Launch(k) PROVE Bars'
  <2>1. \A j \in Chord : Unused(j)
    <3>1. ~Unused(k)' /\ Unused(k)
      BY <1>0, <1>4, LaunchEffect DEF Unused
    <3>2. \A j \in Chord : j # k => Unused(j)'
      BY <3>1 DEF OneBuilt, Unused
    <3> QED
      BY <1>0, <1>4, <3>1, <3>2, LaunchEffect DEF Unused
  <2>2. fanout.at = "expanded" /\ UNCHANGED <<asset, bar>>
    BY <1>0, <1>4, LaunchEffect
  <2>3. ASSUME NEW g \in Stage PROVE Counted(g)' = Counted(g)
    <3>1. \A s \in StageSlots(g) : s \in fanout.todo <=> asset[s] = "none"
      BY <1>0, <2>1, <2>2, StageSlotsFinite DEF Rows
    <3>2. \A j \in Chord, s \in Slot : job[j][s].at = "none"
      BY <2>1 DEF Chords, At
    <3>3. \A s \in StageSlots(g) : asset[s] # "none" =>
            \A j \in Chord : job'[j][s].at \in {"none", "done"}
      BY <1>0, <1>4, <3>1, <3>2, LaunchEffect, StageSlotsFinite
    <3> QED
      BY <1>0, <2>2, <3>2, <3>3, StageSlotsFinite DEF Counted
  <2>4. Opened
    BY <2>1, <2>2 DEF Opened
  <2>5. crashes' = crashes
    BY <1>4 DEF Launch
  <2> QED
    BY <1>0, <2>2, <2>3, <2>4, <2>5 DEF Bars
<1>5. ASSUME NEW k \in Chord, CallbackStep(k) \/ CallbackLost(k) PROVE Bars'
  <2>1. UNCHANGED <<asset, bar, job, fanout>> /\ \A j \in Chord : Unused(j)' <=> Unused(j)
    BY <1>0, <1>5, CallbackEffect DEF Unused
  <2>2. Opened
    BY <2>1 DEF Opened
  <2> QED
    BY <1>1, <2>1, <2>2
<1>6. ASSUME NEW k \in Chord, NEW t \in Slot, JobStep(k, t) \/ JobLost(k, t) PROVE Bars'
  <2>1. UNCHANGED <<chord, fanout>>
    BY <1>0, <1>6, TaskEffect
  <2>2. Opened
    BY <2>1 DEF Opened, Unused
  <2>3. ASSUME NEW g \in Stage
        PROVE  /\ bar'[g].total = Cardinality(StageSlots(g)')
               /\ Cardinality(Counted(g)') <= bar'[g].done
               /\ bar'[g].done <= Cardinality(Counted(g)') + crashes'
    <3>1. /\ bar[g].total = Cardinality(StageSlots(g)) /\ bar[g].done \in Nat
          /\ Cardinality(Counted(g)) <= bar[g].done
          /\ bar[g].done <= Cardinality(Counted(g)) + crashes
      BY <1>0, <2>2 DEF Bars
    <3>2. CASE Counted(g)' = Counted(g) /\ bar'[g] = bar[g]
      BY <1>0, <1>c, <3>1, <3>2, CountedFinite
    <3>3. CASE /\ t \in StageSlots(g) /\ t \notin Counted(g) /\ Counted(g)' = Counted(g) \cup {t}
               /\ bar'[g].done = bar[g].done + 1 /\ bar'[g].total = bar[g].total
      <4>1. Cardinality(Counted(g)') = Cardinality(Counted(g)) + 1
        BY <3>3, CountedFinite, FS_AddElement
      <4> QED
        BY <1>0, <1>c, <3>1, <3>3, <4>1, CountedFinite
    <3>4. CASE /\ Counted(g)' = Counted(g) /\ bar'[g].done = bar[g].done + 1
               /\ bar'[g].total = bar[g].total /\ crashes' = crashes + 1
      BY <1>0, <1>c, <3>1, <3>4, CountedFinite
    <3> QED
      BY <1>0, <1>6, <3>2, <3>3, <3>4, CountedStep
  <2> QED
    BY <2>3 DEF Bars
<1> QED
  BY <1>2, <1>3, <1>4, <1>5, <1>6, StepKinds

\* When the callback is sent the line bar is full and the picture bar lacks the refused
\* pictures, for any number of lines and scenes and whatever fails or is retried; each
\* lost worker adds one report at most.
THEOREM BarsToldRight == Spec => []BarsTell
<1>1. ChordInv /\ Bars => BarsTell
  <2> DEFINE refused == {s \in Scene : asset[s] = "none"}
             Told(g, missing) ==
               bar[g].done + missing \in bar[g].total .. (bar[g].total + crashes)
  <2> USE LineSlots
  <2> SUFFICES ASSUME ChordInv, Bars, OneBuilt, fanout.at \in {"launched", "acked"},
                      NEW k \in Chord, Joined(k)
               PROVE  /\ bar["tts"].done \in bar["tts"].total .. (bar["tts"].total + crashes)
                      /\ Told("image", Cardinality(refused))
    BY DEF BarsTell
  <2>0. /\ crashes \in Nat
        /\ \A g \in Stage : bar[g].done \in Nat /\ bar[g].total \in Nat
    BY MediaAssumption DEF ChordInv, Inv, TypeOK
  <2>1. \A j \in Chord, s \in Slot : job[j][s].at \in {"none", "done"}
    <3>1. \A s \in Slot : job[k][s].at \in {"none", "done"}
      BY DEF ChordInv, Chords, Joined, At
    <3>2. \A j \in Chord \ {k}, s \in Slot : At(j, s, "none")
      BY DEF ChordInv, Chords, OneBuilt, Unused, Joined
    <3> QED
      BY <3>1, <3>2 DEF At
  <2>2. \A g \in Stage : Counted(g) = {s \in StageSlots(g) : asset[s] # "none"}
    BY <2>1, StageSlotsFinite DEF Counted
  <2>3. ASSUME NEW g \in Stage
        PROVE  /\ bar[g].total = Cardinality(StageSlots(g))
               /\ Cardinality(Counted(g)) <= bar[g].done
               /\ bar[g].done <= Cardinality(Counted(g)) + crashes
    BY DEF Bars, Opened
  <2>4. bar["tts"].done \in bar["tts"].total .. (bar["tts"].total + crashes)
    <3>1. \A s \in Line : asset[s] # "none"
      BY <2>1 DEF ChordInv, Rows, Unused, Joined
    <3>2. Counted("tts") = StageSlots("tts") /\ "tts" \in Stage
      BY <2>2, <3>1 DEF StageSlots, Stage
    <3>3. /\ bar["tts"].total <= bar["tts"].done
          /\ bar["tts"].done <= bar["tts"].total + crashes
      BY <2>3, <3>2
    <3> QED
      BY <2>0, <3>2, <3>3
  <2>5. Told("image", Cardinality(refused))
    <3>1. StageSlots("image") = Scene /\ "image" \in Stage
      BY DEF StageSlots, Stage
    <3>2. Counted("image") = Scene \ refused
      BY <2>2, <3>1
    <3>3. IsFiniteSet(Scene) /\ refused \subseteq Scene /\ Scene \cap refused = refused
      BY MediaAssumption
    <3>4. Cardinality(Scene) \in Nat /\ Cardinality(refused) \in Nat
      BY <3>3, FS_Subset, FS_CardinalityType
    <3> HIDE DEF refused
    <3>5. Cardinality(Scene \ refused) = Cardinality(Scene) - Cardinality(refused)
      BY <3>3, FS_Difference
    <3>6. /\ bar["image"].total = Cardinality(Scene)
          /\ Cardinality(Scene) - Cardinality(refused) <= bar["image"].done
          /\ bar["image"].done <= Cardinality(Scene) - Cardinality(refused) + crashes
      BY <2>3, <3>1, <3>2, <3>5
    <3> QED
      BY <2>0, <3>1, <3>4, <3>6
  <2> QED
    BY <2>4, <2>5
<1>2. Init => Bars
  BY BarsInitially
<1>3. ChordInv /\ Bars /\ [Next]_vars => Bars'
  BY BarsKept DEF ChordInv
<1> QED
  BY <1>1, <1>2, <1>3, ChordInvariance, PTL DEF Spec

==============================================================================
