----------------------------- MODULE MediaFanout -----------------------------
(***************************************************************************)
(* The media work of one story version: fan_out expands it into a Celery   *)
(* chord of tts_line, gen_image, gen_avatar and gen_music tasks, the chord *)
(* callback assembles the episode.  A slot of the version is a row of      *)
(* media_assets, unique by dedupe key: absent, claimed (a placeholder with *)
(* an empty object key) or stored.                                         *)
(*                                                                         *)
(* Messages are delivered at least once: the task of a lost worker goes    *)
(* back to its queue, that of fan_out too, which then builds a second      *)
(* chord.  A task that has finished is settled in its chord in one step.   *)
(***************************************************************************)
EXTENDS Naturals, FiniteSets

CONSTANTS
  Line,        (* dialogue lines: tts_line                               *)
  Scene,       (* scene or line pictures: gen_image                      *)
  Avatar,      (* character portraits: gen_avatar                        *)
  Score,       (* the music bed, a set of one slot or none: gen_music    *)
  Chord,       (* the chords that deliveries of fan_out may build        *)
  MaxRetries,  (* RETRY_KWARGS["max_retries"]                            *)
  MaxCrashes,  (* bound: worker processes lost in one behaviour          *)
  MaxRepeats,  (* bound: deliveries for a slot that were not heard of    *)
  Video,       (* output_format in ("video", "both")                     *)
  Faults       (* the faults this instance of the environment commits    *)

FaultKind == {"worker_lost",     \* a worker dies in a task or callback, its message requeued
              "fanout_lost",     \* a worker dies in fan_out, which is delivered again
              "transient",       \* a provider error worth a retry
              "permanent",       \* a refusal, an unknown line, a bad request
              "blocked",         \* an image refused by moderation
              "store_error",     \* the object store or the database fails
              "unheard",         \* a provider delivers and the code does not keep it
              "expand_error",    \* fan_out raises
              "assembly_error",  \* ffmpeg, the store or the database fails
              "no_score",        \* MusicServiceError
              "score_error"}     \* any other error of gen_music

Picture == Scene \cup Avatar
Slot == Line \cup Picture \cup Score

ASSUME MediaAssumption ==
  /\ Line # {} /\ IsFiniteSet(Line) /\ IsFiniteSet(Scene)
  /\ Line \cap Picture = {} /\ Score \cap (Line \cup Picture) = {} /\ Scene \cap Avatar = {}
  /\ MaxRetries \in Nat /\ MaxCrashes \in Nat /\ MaxRepeats \in Nat
  /\ Video \in BOOLEAN
  /\ Faults \subseteq FaultKind

VARIABLES
  asset,    (* media_assets: what the version holds for each slot          *)
  fanout,   (* the fan_out message: where its delivery is, what it found   *)
  job,      (* job[k][s]: the task for slot s in chord k                   *)
  chord,    (* each chord and its callback                                 *)
  episode,  (* the lines in the final episode on record                    *)
  story,    (* Story.status                                                *)
  bar,      (* fan-out counters in Redis: done and total per stage         *)
  paid,     (* history: how often a provider delivered for a slot          *)
  unheard,  (* history: how many of these deliveries the code did not keep *)
  crashes   (* worker losses so far, bounded by MaxCrashes                 *)

vars == <<asset, fanout, job, chord, episode, story, bar, paid, unheard, crashes>>
bill == <<paid, unheard>>
media == <<asset, paid, unheard>>
product == <<episode, story>>

Stage == {"tts", "image"}

Job == [at: {"none", "queued", "claiming", "loading", "calling", "recording", "storing",
             "done", "failed"},
        retries: 0..MaxRetries]

Callback == [at: {"unused", "open", "broken", "queued", "composing", "video", "filming",
                  "done", "failed", "dropped"},
             retries: 0..MaxRetries, clips: SUBSET Line]

TypeOK ==
  /\ asset \in [Slot -> {"none", "claimed", "stored"}]
  /\ fanout \in [at: {"queued", "expanded", "launched", "acked", "failed"}, todo: SUBSET Slot]
  /\ job \in [Chord -> [Slot -> Job]]
  /\ chord \in [Chord -> Callback]
  /\ episode \subseteq Line
  /\ story \in {"generating", "ready", "failed"}
  /\ bar \in [Stage -> [done: Nat, total: Nat]]
  /\ paid \in [Slot -> Nat]
  /\ unheard \in [Slot -> Nat]
  /\ crashes \in 0..MaxCrashes

NoJob == [at |-> "none", retries |-> 0]
NewJob == [at |-> "queued", retries |-> 0]
NoCallback == [at |-> "unused", retries |-> 0, clips |-> {}]

\* A new story has no rows; a fork has copies of its parent's, placeholders too.
Init ==
  /\ asset \in [Slot -> {"none", "claimed", "stored"}]
  /\ fanout = [at |-> "queued", todo |-> {}]
  /\ job = [k \in Chord |-> [s \in Slot |-> NoJob]]
  /\ chord = [k \in Chord |-> NoCallback]
  /\ episode = {}
  /\ story = "generating"
  /\ bar = [g \in Stage |-> [done |-> 0, total |-> 0]]
  /\ paid = [s \in Slot |-> 0]
  /\ unheard = [s \in Slot |-> 0]
  /\ crashes = 0

At(k, s, step) == job[k][s].at = step
Move(k, s, step) == job' = [job EXCEPT ![k][s].at = step]
SetAsset(s, v) == asset' = [asset EXCEPT ![s] = v]
Stored(S) == {s \in S : asset[s] = "stored"}
Header(k) == {s \in Slot : ~At(k, s, "none")}

-------------------------------------------------------------------------------
(* fan_out                                                                   *)

StageSlots(g) == IF g = "tts" THEN Line ELSE Scene

\* The rows present on the version are not enqueued again, the music bed is
\* unless it is complete; both bars restart.
Expand ==
  LET todo == {s \in Slot : IF s \in Score THEN asset[s] # "stored" ELSE asset[s] = "none"} IN
  /\ fanout.at = "queued"
  /\ fanout' = [at |-> "expanded", todo |-> todo]
  /\ bar' = [g \in Stage |-> [done |-> Cardinality(StageSlots(g) \ todo),
                              total |-> Cardinality(StageSlots(g))]]
  /\ UNCHANGED <<media, job, chord, product, crashes>>

\* Mutant: a fan-out with nothing to do sends nothing.
LaunchWork(k) ==
  /\ fanout.at = "expanded"
  /\ chord[k].at = "unused"
  /\ job' = [job EXCEPT ![k] = [s \in Slot |-> IF s \in fanout.todo THEN NewJob ELSE NoJob]]
  /\ chord' = [chord EXCEPT ![k].at = IF fanout.todo = {} THEN "unused" ELSE "open"]
  /\ fanout' = [fanout EXCEPT !.at = "launched"]
  /\ UNCHANGED <<media, product, bar, crashes>>

\* Nothing to do: assemble is sent by itself, as the callback of an empty chord.
Launch(k) ==
  /\ fanout.at = "expanded"
  /\ chord[k].at = "unused"
  /\ job' = [job EXCEPT ![k] = [s \in Slot |-> IF s \in fanout.todo THEN NewJob ELSE NoJob]]
  /\ chord' = [chord EXCEPT ![k].at = IF fanout.todo = {} THEN "queued" ELSE "open"]
  /\ fanout' = [fanout EXCEPT !.at = "launched"]
  /\ UNCHANGED <<media, product, bar, crashes>>

AckFanout ==
  /\ fanout.at = "launched"
  /\ fanout' = [fanout EXCEPT !.at = "acked"]
  /\ UNCHANGED <<media, job, chord, product, bar, crashes>>

\* Nothing marks the story: run_pipeline has returned, and the link_error signature
\* of a regeneration is immutable and lacks the arguments that its handler requires.
ExpandFails ==
  /\ "expand_error" \in Faults
  /\ fanout.at \in {"queued", "expanded"}
  /\ fanout' = [fanout EXCEPT !.at = "failed"]
  /\ UNCHANGED <<media, job, chord, product, bar, crashes>>

-------------------------------------------------------------------------------
(* tts_line, gen_image and gen_avatar                                        *)

\* _report_fanout: portraits and the score are on no bar.
Report(s) ==
  bar' = [g \in Stage |-> IF s \in StageSlots(g) THEN [bar[g] EXCEPT !.done = @ + 1] ELSE bar[g]]

Settle(k, s) == Move(k, s, "done") /\ Report(s)

\* Mutant: a skipped slot is not reported.
FindSilent(k, s) ==
  /\ s \notin Score
  /\ At(k, s, "queued")
  /\ Move(k, s, IF asset[s] = "none" THEN "claiming" ELSE "done")
  /\ UNCHANGED <<media, fanout, chord, product, bar, crashes>>

\* find_asset: any row counts, a placeholder too.
Find(k, s) ==
  /\ s \notin Score
  /\ At(k, s, "queued")
  /\ IF asset[s] = "none" THEN Move(k, s, "claiming") /\ UNCHANGED bar
                          ELSE Settle(k, s)
  /\ UNCHANGED <<media, fanout, chord, product, crashes>>

\* Mutant: the claim trusts the earlier read.
ClaimUnchecked(k, s) ==
  /\ At(k, s, "claiming")
  /\ SetAsset(s, "claimed")
  /\ Move(k, s, "loading")
  /\ UNCHANGED <<bill, fanout, chord, product, bar, crashes>>

\* claim_asset: the unique dedupe key lets one insert through.
Claim(k, s) ==
  /\ At(k, s, "claiming")
  /\ IF asset[s] = "none"
     THEN SetAsset(s, "claimed") /\ Move(k, s, "loading") /\ UNCHANGED bar
     ELSE Settle(k, s) /\ UNCHANGED asset
  /\ UNCHANGED <<bill, fanout, chord, product, crashes>>

\* load_state and the brief of the call, before the try block.
Load(k, s) ==
  /\ At(k, s, "loading")
  /\ Move(k, s, "calling")
  /\ UNCHANGED <<media, fanout, chord, product, bar, crashes>>

\* The provider delivers; what it delivered is not on the ledger yet.
Called(k, s) ==
  /\ At(k, s, "calling")
  /\ paid' = [paid EXCEPT ![s] = @ + 1]
  /\ Move(k, s, "recording")
  /\ UNCHANGED <<asset, unheard, fanout, chord, product, bar, crashes>>

\* A call timed out after its delivery, and the gateway's own retry calls again.
Repeated(k, s) ==
  /\ "unheard" \in Faults
  /\ s \notin Score
  /\ At(k, s, "calling")
  /\ unheard[s] < MaxRepeats
  /\ paid' = [paid EXCEPT ![s] = @ + 1]
  /\ unheard' = [unheard EXCEPT ![s] = @ + 1]
  /\ UNCHANGED <<asset, job, fanout, chord, product, bar, crashes>>

\* The rest of the try block: decoding, the ledger, the response cache.
Recorded(k, s) ==
  /\ At(k, s, "recording")
  /\ Move(k, s, "storing")
  /\ UNCHANGED <<media, fanout, chord, product, bar, crashes>>

\* A refused picture is left out, so that it does not fail the chord.
Blocked(k, s) ==
  /\ "blocked" \in Faults
  /\ s \in Picture
  /\ At(k, s, "calling")
  /\ SetAsset(s, "none")
  /\ Move(k, s, "done")
  /\ UNCHANGED <<bill, fanout, chord, product, bar, crashes>>

\* autoretry: the next attempt, or a failed member of the chord.
Again(k, s, permanent) ==
  job' = [job EXCEPT ![k][s] =
            IF permanent \/ @.retries = MaxRetries
            THEN [@ EXCEPT !.at = "failed"]
            ELSE [at |-> "queued", retries |-> @.retries + 1]]

\* The claim is released before the exception leaves the task.
CallFails(k, s) ==
  /\ s \notin Score
  /\ At(k, s, "calling")
  /\ SetAsset(s, "none")
  /\ \/ "transient" \in Faults /\ Again(k, s, FALSE)
     \/ "permanent" \in Faults /\ Again(k, s, TRUE)
  /\ UNCHANGED <<bill, fanout, chord, product, bar, crashes>>

\* The same after the delivery: it is paid for and forgotten.
RecordFails(k, s) ==
  /\ "unheard" \in Faults
  /\ s \notin Score
  /\ At(k, s, "recording")
  /\ SetAsset(s, "none")
  /\ unheard' = [unheard EXCEPT ![s] = @ + 1]
  /\ Again(k, s, FALSE)
  /\ UNCHANGED <<paid, fanout, chord, product, bar, crashes>>

Generating(k, s) == job[k][s].at \in {"loading", "calling", "recording", "storing"}

\* Mutant: every failing task releases its claim.
StoreFailsReleasing(k, s) ==
  /\ "store_error" \in Faults
  /\ s \notin Score
  /\ Generating(k, s)
  /\ SetAsset(s, "none")
  /\ Again(k, s, FALSE)
  /\ UNCHANGED <<bill, fanout, chord, product, bar, crashes>>

\* load_state before the try block, put and record_asset after it, or release_claim
\* itself: the placeholder stays.  The row may be complete when the task fails after it.
StoreFails(k, s) ==
  /\ "store_error" \in Faults
  /\ s \notin Score
  /\ Generating(k, s)
  /\ UNCHANGED asset \/ (At(k, s, "storing") /\ SetAsset(s, "stored"))
  /\ Again(k, s, FALSE)
  /\ UNCHANGED <<bill, fanout, chord, product, bar, crashes>>

Store(k, s) ==
  /\ At(k, s, "storing")
  /\ SetAsset(s, "stored")
  /\ Settle(k, s)
  /\ UNCHANGED <<bill, fanout, chord, product, crashes>>

-------------------------------------------------------------------------------
(* gen_music                                                                 *)

\* An empty placeholder is used again: the sidecar knows the job by its key.
FindScore(k, s) ==
  /\ s \in Score
  /\ At(k, s, "queued")
  /\ IF asset[s] = "stored"
     THEN Move(k, s, "done") /\ UNCHANGED asset
     ELSE SetAsset(s, "claimed") /\ Move(k, s, "calling")
  /\ UNCHANGED <<bill, fanout, chord, product, bar, crashes>>

\* The score is optional: the task ends well and keeps the slot.
NoScore(k, s) ==
  /\ "no_score" \in Faults
  /\ s \in Score
  /\ At(k, s, "calling")
  /\ Move(k, s, "done")
  /\ UNCHANGED <<media, fanout, chord, product, bar, crashes>>

\* Any other error fails the task at once: gen_music has no autoretry.
ScoreFails(k, s) ==
  /\ "score_error" \in Faults
  /\ s \in Score
  /\ Generating(k, s)
  /\ Move(k, s, "failed")
  /\ UNCHANGED <<media, fanout, chord, product, bar, crashes>>

-------------------------------------------------------------------------------
(* The chord and its callback: assemble, then compose_video.                 *)

\* Mutant: assemble is sent whether or not members failed.
JoinTolerant(k) ==
  /\ chord[k].at = "open"
  /\ \A s \in Header(k) : job[k][s].at \in {"done", "failed"}
  /\ chord' = [chord EXCEPT ![k].at = "queued"]
  /\ UNCHANGED <<media, fanout, job, product, bar, crashes>>

\* The result backend counts the members; a failed one turns the callback into
\* a ChordError, and assemble is never sent.
Join(k) ==
  /\ chord[k].at = "open"
  /\ \A s \in Header(k) : job[k][s].at \in {"done", "failed"}
  /\ chord' = [chord EXCEPT ![k].at =
                 IF \E s \in Header(k) : At(k, s, "failed") THEN "broken" ELSE "queued"]
  /\ UNCHANGED <<media, fanout, job, product, bar, crashes>>

\* assemble reads the clips that have audio.
AssembleStart(k) ==
  /\ chord[k].at = "queued"
  /\ chord' = [chord EXCEPT ![k] = [@ EXCEPT !.at = "composing", !.clips = Stored(Line)]]
  /\ UNCHANGED <<media, fanout, job, product, bar, crashes>>

AssembleDone(k) ==
  /\ chord[k].at = "composing"
  /\ chord[k].clips # {}
  /\ episode' = chord[k].clips
  /\ IF Video
     THEN /\ chord' = [chord EXCEPT ![k] = [at |-> "video", retries |-> 0, clips |-> @.clips]]
          /\ UNCHANGED story
     ELSE /\ chord' = [chord EXCEPT ![k].at = "done"]
          /\ story' = "ready"
  /\ UNCHANGED <<media, fanout, job, bar, crashes>>

\* The story is marked on every attempt, and the attempt may be retried.
CallbackFails(k, from) ==
  /\ story' = "failed"
  /\ chord' = [chord EXCEPT ![k] =
                 IF @.retries = MaxRetries THEN [@ EXCEPT !.at = "failed"]
                 ELSE [at |-> from, retries |-> @.retries + 1, clips |-> @.clips]]
  /\ UNCHANGED <<media, fanout, job, bar, crashes>>

\* What assemble and compose_video read before their try block fails, or the handler
\* cannot reach the database either: nobody marks the story.
CallbackUnmarked(k) ==
  /\ "store_error" \in Faults
  /\ \E from \in {"queued", "video"} :
       /\ chord[k].at \in IF from = "queued" THEN {"queued", "composing"} ELSE {"video", "filming"}
       /\ chord' = [chord EXCEPT ![k] =
                      IF @.retries = MaxRetries THEN [@ EXCEPT !.at = "dropped"]
                      ELSE [at |-> from, retries |-> @.retries + 1, clips |-> @.clips]]
  /\ episode' \in {episode} \cup {c \in {chord[k].clips} : chord[k].at = "composing"}
  /\ UNCHANGED <<media, fanout, job, story, bar, crashes>>

\* The error may come after the episode is on record.
AssembleFails(k) ==
  /\ chord[k].at = "composing"
  /\ \/ chord[k].clips = {} /\ UNCHANGED episode
     \/ "assembly_error" \in Faults /\ episode' \in {episode, chord[k].clips}
  /\ CallbackFails(k, "queued")

VideoStart(k) ==
  /\ chord[k].at = "video"
  /\ chord' = [chord EXCEPT ![k].at = "filming"]
  /\ UNCHANGED <<media, fanout, job, product, bar, crashes>>

\* A video needs a frame: a line that has a picture.
VideoDone(k) ==
  /\ chord[k].at = "filming"
  /\ Stored(Scene) # {}
  /\ story' = "ready"
  /\ chord' = [chord EXCEPT ![k].at = "done"]
  /\ UNCHANGED <<media, fanout, job, episode, bar, crashes>>

VideoFails(k) ==
  /\ chord[k].at = "filming"
  /\ Stored(Scene) = {} \/ "assembly_error" \in Faults
  /\ CallbackFails(k, "video")
  /\ UNCHANGED episode

-------------------------------------------------------------------------------
(* Lost workers: the message of the task goes back to its queue.             *)

Crash(fault) ==
  /\ fault \in Faults
  /\ crashes < MaxCrashes
  /\ crashes' = crashes + 1

\* After its report the slot reports again: the redelivered task finds the row.
JobLost(k, s) ==
  /\ Crash("worker_lost")
  /\ Move(k, s, "queued")
  /\ \/ (At(k, s, "claiming") \/ Generating(k, s)) /\ UNCHANGED <<asset, bar>>
     \/ At(k, s, "storing") /\ SetAsset(s, "stored") /\ Report(s)
     \/ /\ s \notin Score /\ asset[s] # "none" /\ job[k][s].at \in {"queued", "claiming"}
        /\ Report(s) /\ UNCHANGED asset
  /\ UNCHANGED <<bill, fanout, chord, product>>

FanoutLost ==
  /\ Crash("fanout_lost")
  /\ fanout.at \in {"expanded", "launched"}
  /\ fanout' = [fanout EXCEPT !.at = "queued"]
  /\ UNCHANGED <<media, job, chord, product, bar>>

CallbackLost(k) ==
  /\ Crash("worker_lost")
  /\ \/ chord[k].at = "composing" /\ chord' = [chord EXCEPT ![k].at = "queued"]
     \/ chord[k].at = "filming" /\ chord' = [chord EXCEPT ![k].at = "video"]
  /\ UNCHANGED <<media, fanout, job, product, bar>>

-------------------------------------------------------------------------------
JobStep(k, s) ==
  \/ Find(k, s) \/ Claim(k, s) \/ Load(k, s) \/ Called(k, s) \/ Repeated(k, s) \/ Recorded(k, s)
  \/ Blocked(k, s) \/ CallFails(k, s) \/ RecordFails(k, s) \/ StoreFails(k, s) \/ Store(k, s)
  \/ FindScore(k, s) \/ NoScore(k, s) \/ ScoreFails(k, s)

CallbackStep(k) ==
  \/ Join(k) \/ AssembleStart(k) \/ AssembleDone(k) \/ AssembleFails(k) \/ CallbackUnmarked(k)
  \/ VideoStart(k) \/ VideoDone(k) \/ VideoFails(k)

FanoutStep == Expand \/ AckFanout \/ ExpandFails \/ \E k \in Chord : Launch(k)

Next ==
  \/ FanoutStep \/ FanoutLost
  \/ \E k \in Chord : \/ CallbackStep(k) \/ CallbackLost(k)
                      \/ \E s \in Slot : JobStep(k, s) \/ JobLost(k, s)

Spec == Init /\ [][Next]_vars

\* Every queue has workers, and a started task runs to an end.
Fairness ==
  /\ WF_vars(FanoutStep)
  /\ \A k \in Chord : WF_vars(CallbackStep(k)) /\ \A s \in Slot : WF_vars(JobStep(k, s))

FairSpec == Spec /\ Fairness

-------------------------------------------------------------------------------
\* No two tasks pay for the same slot at the same time, whatever is redelivered
\* and however many chords there are.
OneGenerator ==
  \A s \in Slot \ Score : \A j, k \in Chord : Generating(j, s) /\ Generating(k, s) => j = k

\* A delivery that the code has kept is the last one for its slot: neither a redelivery,
\* nor a retry after a storage error, nor a second chord pays for the line again.  What
\* is paid beyond it are deliveries that the task or the gateway did not hear of.
PaidOnce == \A s \in Slot \ Score : paid[s] <= 1 + unheard[s]

\* A story is shown as ready with the whole of its episode.
EpisodeComplete == story = "ready" => episode = Line

\* A row that nobody fills any more and that every later task takes for the asset.
Orphan(s) == asset[s] = "claimed" /\ \A k \in Chord : ~Generating(k, s)

\* One delivery of fan_out at most has sent its work.
OneBuilt == \A j, k \in Chord : chord[j].at # "unused" /\ chord[k].at # "unused" => j = k

\* A ready story plays all the clips on record, and a line is missing from it only when
\* an orphaned placeholder stands for it, left by a lost worker, by a failed store or by
\* the parent of the fork: no failed, late or unfinished line is left out.
OnlyOrphansMissing ==
  OneBuilt /\ story = "ready" =>
    episode = Stored(Line) /\ \A s \in Line \ episode : Orphan(s)

\* The chord is over and its callback on the way.
Joined(k) == chord[k].at \notin {"unused", "open", "broken"}

\* When the callback is sent the line bar is full, and the picture bar is short by the
\* pictures that moderation refused, which report nothing: retries, failed stores and
\* carried-over rows make neither bar lie.  A lost worker may have reported once more than
\* it settled, which the published number hides.
BarsTell ==
  OneBuilt /\ fanout.at \in {"launched", "acked"} =>
    \A k \in Chord : Joined(k) =>
      /\ bar["tts"].done \in bar["tts"].total .. (bar["tts"].total + crashes)
      /\ bar["image"].done + Cardinality({s \in Scene : asset[s] = "none"})
           \in bar["image"].total .. (bar["image"].total + crashes)

\* The work ended where nobody marks the story: a ChordError, a fan_out that failed, a
\* callback that gave up outside its try block.
Abandoned == fanout.at = "failed" \/ \E k \in Chord : chord[k].at \in {"broken", "dropped"}

\* The story does not stay "generating": it becomes ready or it is reported failed.
Settles == story = "generating" ~> story # "generating"

\* The same, but for the ways out that nobody watches.
SettlesUnlessAbandoned == story = "generating" ~> story # "generating" \/ Abandoned
===============================================================================
