---------------------------- MODULE StoryLifecycle ----------------------------
(***************************************************************************)
(* One story: its status, the pointer to its current version, and everyone *)
(* who moves them.  The API forks versions (regenerate) and stores notes   *)
(* (feedback); an interpreter turns a note into a fork; the branch of each *)
(* version runs its stages, its media and its assembly and marks the story *)
(* when it ends, if it does not end unmarked; an administrator flags the   *)
(* story and later gives it back the status that the flag has hidden.      *)
(* Deleting a story is not here.                                           *)
(*                                                                         *)
(* The database is Postgres at READ COMMITTED: a transaction that holds    *)
(* the row with FOR UPDATE delays every other write of it, and an          *)
(* unlocked read followed by a write is two steps.  The tasks that fan_out *)
(* starts are in MediaFanout; here they end in one assembly, or break.     *)
(***************************************************************************)
EXTENDS Naturals

CONSTANTS
  Version,     (* ids of versions                                       *)
  First,       (* the version that create_story makes                   *)
  Note,        (* feedback requests                                     *)
  Regen,       (* regenerate requests                                   *)
  Review,      (* administrators who review the story                   *)
  Mixes,       (* bound: the requests and reviewers of one behaviour    *)
  MaxRetries,  (* RETRY_KWARGS["max_retries"]                           *)
  MaxFaults    (* bound: lost workers and lost dispatches               *)

ASSUME LifecycleAssumption ==
  /\ First \in Version
  /\ Note \cap Regen = {} /\ Review \cap (Note \cup Regen) = {}
  /\ MaxRetries \in Nat /\ MaxFaults \in Nat

Asker == Note \cup Regen \cup Review

VARIABLES
  status,   (* Story.status                                             *)
  current,  (* Story.current_version_id                                 *)
  number,   (* StoryVersion.version_number, 0 for an id not in use      *)
  origin,   (* created_from_feedback_id: a set of one note, or empty    *)
  lock,     (* who holds the story row FOR UPDATE                       *)
  latest,   (* the greatest version_number the holder has read, or 0    *)
  request,  (* where each API request is, and who has reviewed          *)
  note,     (* the Feedback rows                                        *)
  task,     (* the interpret_feedback task of each note                 *)
  branch,   (* the work of each version, in the queue or on a worker    *)
  episode,  (* the versions whose episode is on record                  *)
  hides,    (* Story.status_before_flag: one status of a flagged story, *)
            (* nothing of any other                                     *)
  decision, (* the UPDATE each review is about to commit                *)
  faults,   (* faults so far                                            *)
  races     (* history: the races that have been lost                   *)

vars == <<status, current, number, origin, lock, latest, request, note, task, branch,
          episode, hides, decision, faults, races>>
versions == <<number, origin>>
locking == <<lock, latest>>
review == <<hides, decision>>
history == <<faults, races>>

Race == {"stale_mark",     \* a fork between the read of the pointer and the write of a status
         "stale_flag",     \* a fork while a flag, or a review, remembers that the story was ready
         "stale_submit"}   \* a note committed after the story it read had changed

Status == {"generating", "ready", "failed", "flagged", "draft"}

Branch == [task: {"stages", "media"},
           at: {"none", "unsent", "lost", "running", "marking", "writing", "marked", "over",
                "unmarked"},
           mark: {"ready", "failed"},
           retries: 0..MaxRetries]

Task == [at: {"none", "lost", "queued", "locked", "forked", "sent", "failing", "recording",
              "recorded", "unrecorded", "acked"},
         version: Version, restore: BOOLEAN, retries: 0..MaxRetries]

\* The columns that a review writes: those it leaves different from what it has read.
Hidden == {{}} \cup {{s} : s \in Status}
Update == [status: Hidden, hides: {{}} \cup {{h} : h \in Hidden}]
NoUpdate == [status |-> {}, hides |-> {}]

TypeOK ==
  /\ status \in Status
  /\ current \in Version
  /\ number \in [Version -> Nat]
  /\ origin \in [Version -> {{}} \cup {{n} : n \in Note}]
  /\ lock \in {{}} \cup {{x} : x \in Note \cup Regen}
  /\ latest \in Nat
  /\ request \in [Asker -> {"none", "checked", "locked", "committed", "done"}]
  /\ note \in [Note -> [status: {"none", "pending", "applied", "failed"}, version: Version]]
  /\ task \in [Note -> Task]
  /\ branch \in [Version -> Branch]
  /\ episode \subseteq Version
  /\ hides \in Hidden
  /\ decision \in [Review -> Update]
  /\ faults \in 0..MaxFaults
  /\ races \subseteq Race

NewBranch == [task |-> "stages", at |-> "unsent", mark |-> "failed", retries |-> 0]
NewTask(v) == [at |-> "queued", version |-> v, restore |-> FALSE, retries |-> 0]

\* What is left of a message once it has been acknowledged, or before it is sent.
IdleBranch(step) == [NewBranch EXCEPT !.at = step]
IdleTask(step) == [NewTask(First) EXCEPT !.at = step]

\* create_story has committed the story and its first version.
Init ==
  /\ status = "generating"
  /\ current = First
  /\ number = [v \in Version |-> IF v = First THEN 1 ELSE 0]
  /\ origin = [v \in Version |-> {}]
  /\ lock = {} /\ latest = 0
  /\ request = [x \in Asker |-> "none"]
  /\ note = [n \in Note |-> [status |-> "none", version |-> First]]
  /\ task = [n \in Note |-> IdleTask("none")]
  /\ branch = [v \in Version |-> IF v = First THEN NewBranch ELSE IdleBranch("none")]
  /\ episode = {}
  /\ hides = {} /\ decision = [a \in Review |-> NoUpdate]
  /\ faults = 0 /\ races = {}

MayAsk(x) == \E mix \in Mixes : {x} \cup {y \in Asker : request[y] # "none"} \subseteq mix

Exists(v) == number[v] # 0
Lose(kinds) == races' = races \cup kinds
Fault == faults < MaxFaults /\ faults' = faults + 1

-------------------------------------------------------------------------------
(* Forking, under the lock of the story row                                  *)

Latest == CHOOSE m \in {number[v] : v \in Version} : \A v \in Version : number[v] <= m

Rollback(x) ==
  /\ lock' = lock \ {x}
  /\ latest' = IF x \in lock THEN 0 ELSE latest

\* Mutant: the label follows that of the base version.
AcquireBase(x) ==
  /\ lock = {}
  /\ lock' = {x}
  /\ \E v \in Version : Exists(v) /\ latest' = number[v]

Acquire(x) ==
  /\ lock = {}
  /\ lock' = {x}
  /\ latest' = Latest

NewId == CHOOSE v \in Version : ~Exists(v)

\* Someone has read the pointer and is about to write the status.
ReadPending == \/ \E v \in Version : branch[v].at = "writing"
               \/ \E n \in Note : task[n].at = "recording" /\ task[n].restore

\* A flag or a review will make the story ready again for having been ready.
ReadyHidden == \/ "ready" \in hides
               \/ \E a \in Review : "ready" \in decision[a].status
                                   \/ {"ready"} \in decision[a].hides

\* The child becomes the current version in the transaction that creates it.
Fork(x, notes) ==
  /\ lock = {x}
  /\ \E v \in Version : ~Exists(v)
  /\ number' = [number EXCEPT ![NewId] = latest + 1]
  /\ origin' = [origin EXCEPT ![NewId] = notes]
  /\ branch' = [branch EXCEPT ![NewId] = NewBranch]
  /\ current' = NewId
  /\ status' = "generating"
  /\ lock' = {} /\ latest' = 0
  /\ Lose((IF ReadPending THEN {"stale_mark"} ELSE {})
          \cup (IF ReadyHidden THEN {"stale_flag"} ELSE {}))
  /\ UNCHANGED <<review, faults>>

-------------------------------------------------------------------------------
(* The API                                                                   *)

\* Any version of the story may be the base; a request refused with 409 leaves no trace.
RegenerateLock(r) ==
  /\ request[r] = "none" /\ MayAsk(r)
  /\ status # "generating"
  /\ Acquire(r)
  /\ request' = [request EXCEPT ![r] = "locked"]
  /\ UNCHANGED <<status, current, versions, note, task, branch, episode, review, history>>

RegenerateCommit(r) ==
  /\ request[r] = "locked"
  /\ Fork(r, {})
  /\ request' = [request EXCEPT ![r] = "done"]
  /\ UNCHANGED <<note, task, episode, review>>

\* The base version or the target does not exist: 404 or 400, and a rollback.
RegenerateRefused(r) ==
  /\ request[r] = "locked"
  /\ Rollback(r)
  /\ request' = [request EXCEPT ![r] = "done"]
  /\ UNCHANGED <<status, current, versions, note, task, branch, episode, review, history>>

\* create_story and regenerate send the work of the version they have committed.
Dispatch(v) ==
  /\ branch[v].at = "unsent" /\ origin[v] = {}
  /\ branch' = [branch EXCEPT ![v].at = "running"]
  /\ UNCHANGED <<status, current, versions, locking, request, note, task, episode, review,
                 history>>

\* The API process or the broker fails between the commit and the dispatch.
DispatchLost(v) ==
  /\ branch[v].at = "unsent" /\ origin[v] = {}
  /\ Fault
  /\ branch' = [branch EXCEPT ![v].at = "lost"]
  /\ UNCHANGED <<status, current, versions, locking, request, note, task, episode, review,
                 races>>

\* The story is read without a lock; the note will name the version read here.
FeedbackCheck(n) ==
  /\ request[n] = "none" /\ MayAsk(n)
  /\ status = "ready"
  /\ request' = [request EXCEPT ![n] = "checked"]
  /\ note' = [note EXCEPT ![n].version = current]
  /\ UNCHANGED <<status, current, versions, locking, task, branch, episode, review, history>>

FeedbackCommit(n) ==
  /\ request[n] = "checked"
  /\ lock = {}
  /\ request' = [request EXCEPT ![n] = "committed"]
  /\ note' = [note EXCEPT ![n].status = "pending"]
  /\ status' = "generating"
  /\ Lose(IF status = "ready" /\ current = note[n].version THEN {} ELSE {"stale_submit"})
  /\ UNCHANGED <<current, versions, locking, task, branch, episode, review, faults>>

\* The commit expired the row: the message names the version that is current by now.
FeedbackDispatch(n) ==
  /\ request[n] = "committed"
  /\ request' = [request EXCEPT ![n] = "done"]
  /\ task' = [task EXCEPT ![n] = NewTask(current)]
  /\ UNCHANGED <<status, current, versions, locking, note, branch, episode, review, history>>

FeedbackDispatchLost(n) ==
  /\ request[n] = "committed"
  /\ Fault
  /\ request' = [request EXCEPT ![n] = "done"]
  /\ task' = [task EXCEPT ![n] = IdleTask("lost")]
  /\ UNCHANGED <<status, current, versions, locking, note, branch, episode, review, races>>

-------------------------------------------------------------------------------
(* The review of an administrator                                            *)

Changed(old, new) == IF new = old THEN {} ELSE {new}

Decide(a, s, h) ==
  /\ decision[a] = NoUpdate /\ MayAsk(a)
  /\ status # "generating"
  /\ request' = [request EXCEPT ![a] = "done"]
  /\ decision' = [decision EXCEPT ![a] = [status |-> Changed(status, s),
                                          hides |-> Changed(hides, h)]]
  /\ UNCHANGED <<status, current, versions, locking, note, task, branch, episode, hides, history>>

\* A second flag keeps the status that the first has hidden.
Flag(a) == Decide(a, "flagged", IF hides = {} THEN {status} ELSE hides)

\* Readiness is looked up only when the flag has hidden nothing but a flag.
Restored == IF hides = {"flagged"}
            THEN {"draft"} \cup {s \in {"ready"} : current \in episode} ELSE hides

\* The flag is cleared, or the story is approved or sent back while it is flagged.
Unflag(a) == hides # {} /\ \E s \in Restored : Decide(a, s, {})

\* The session writes the columns it has changed, whatever the row holds by now.
ReviewCommit(a) ==
  /\ decision[a] # NoUpdate
  /\ lock = {}
  /\ status' \in IF decision[a].status = {} THEN {status} ELSE decision[a].status
  /\ hides' \in IF decision[a].hides = {} THEN {hides} ELSE decision[a].hides
  /\ decision' = [decision EXCEPT ![a] = NoUpdate]
  /\ UNCHANGED <<current, versions, locking, request, note, task, branch, episode, history>>

-------------------------------------------------------------------------------
(* interpret_feedback                                                        *)

TaskAt(n, step) == task[n].at = step
TaskTo(n, step) == task' = [task EXCEPT ![n].at = step]
ForkOf(n) == {v \in Version : origin[v] = {n}}

\* Mutant: what is not tried again is not reported either.
InterpretDropped(n) ==
  /\ TaskAt(n, "queued")
  /\ task' = [task EXCEPT ![n] = IdleTask("acked")]
  /\ UNCHANGED <<status, current, versions, locking, request, note, branch, episode, review,
                 history>>

\* A refusal, an unknown target or an invalid directive is not tried again.
InterpretRefused(n) ==
  /\ TaskAt(n, "queued")
  /\ TaskTo(n, "failing")
  /\ UNCHANGED <<status, current, versions, locking, request, note, branch, episode, review,
                 history>>

Retry(n) ==
  task' = IF task[n].retries < MaxRetries
          THEN [task EXCEPT ![n].at = "queued", ![n].retries = @ + 1]
          ELSE [task EXCEPT ![n].at = "failing"]

\* A provider or the database fails; the transaction, if open, rolls back.
InterpretFails(n) ==
  /\ task[n].at \in {"queued", "locked"}
  /\ Retry(n)
  /\ Rollback(n)
  /\ UNCHANGED <<status, current, versions, request, note, branch, episode, review,
                 history>>

\* Mutant: the pointer is not compared.
InterpretLockBlind(n) ==
  /\ TaskAt(n, "queued")
  /\ Acquire(n)
  /\ TaskTo(n, "locked")
  /\ UNCHANGED <<status, current, versions, request, note, branch, episode, review,
                 history>>

\* The directive is there; the pointer is compared under the lock.
InterpretLock(n) ==
  /\ TaskAt(n, "queued")
  /\ Acquire(n)
  /\ current = task[n].version
  /\ TaskTo(n, "locked")
  /\ UNCHANGED <<status, current, versions, request, note, branch, episode, review,
                 history>>

InterpretSuperseded(n) ==
  /\ TaskAt(n, "queued")
  /\ lock = {}
  /\ current # task[n].version
  /\ TaskTo(n, "failing")
  /\ UNCHANGED <<status, current, versions, locking, request, note, branch, episode, review,
                 history>>

InterpretCommit(n) ==
  /\ TaskAt(n, "locked")
  /\ Fork(n, {n})
  /\ note' = [note EXCEPT ![n].status = "applied"]
  /\ TaskTo(n, "forked")
  /\ UNCHANGED <<request, episode, review>>

InterpretSend(n) ==
  /\ TaskAt(n, "forked")
  /\ TaskTo(n, "sent")
  /\ branch' = [v \in Version |-> IF v \in ForkOf(n) THEN [branch[v] EXCEPT !.at = "running"]
                                  ELSE branch[v]]
  /\ UNCHANGED <<status, current, versions, locking, request, note, episode, review, history>>

\* What a fork leaves behind when its interpreter does not send its work.
Abandon(n) ==
  branch' = [v \in Version |-> IF v \in ForkOf(n) /\ branch[v].at = "unsent"
                               THEN [branch[v] EXCEPT !.at = "lost"] ELSE branch[v]]

\* The broker refuses the message: the exception is retried like any other.
InterpretSendFails(n) ==
  /\ TaskAt(n, "forked")
  /\ Fault
  /\ Abandon(n)
  /\ Retry(n)
  /\ UNCHANGED <<status, current, versions, locking, request, note, episode, review, races>>

\* _fail_feedback reads both rows without a lock.
FailRead(n) ==
  /\ TaskAt(n, "failing")
  /\ task' = [task EXCEPT ![n].at = "recording",
                ![n].restore = (current = note[n].version /\ status = "generating")]
  /\ UNCHANGED <<status, current, versions, locking, request, note, branch, episode, review,
                 history>>

\* Mutant: the note fails and the story is not handed back.
FailWriteNote(n) ==
  /\ TaskAt(n, "recording")
  /\ note' = [note EXCEPT ![n].status = "failed"]
  /\ task' = [task EXCEPT ![n].at = "recorded", ![n].restore = FALSE]
  /\ UNCHANGED <<status, current, versions, locking, request, branch, episode, review,
                 history>>

FailWrite(n) ==
  /\ TaskAt(n, "recording")
  /\ task[n].restore => lock = {}
  /\ note' = [note EXCEPT ![n].status = "failed"]
  /\ status' = IF task[n].restore THEN "ready" ELSE status
  /\ task' = [task EXCEPT ![n].at = "recorded", ![n].restore = FALSE]
  /\ UNCHANGED <<current, versions, locking, request, branch, episode, review, history>>

\* The failure is written in a session of its own; when that fails too, a log line is all.
FailUnrecorded(n) ==
  /\ task[n].at \in {"failing", "recording"}
  /\ task' = [task EXCEPT ![n].at = "unrecorded", ![n].restore = FALSE]
  /\ UNCHANGED <<status, current, versions, locking, request, note, branch, episode, review,
                 history>>

InterpretAck(n) ==
  /\ task[n].at \in {"sent", "recorded"}
  /\ task' = [task EXCEPT ![n] = IdleTask("acked")]
  /\ UNCHANGED <<status, current, versions, locking, request, note, branch, episode, review,
                 history>>

\* The worker is lost before the acknowledgement; an open transaction rolls back.
InterpretLost(n) ==
  /\ task[n].at \in {"locked", "forked", "sent", "failing", "recording", "recorded",
                    "unrecorded"}
  /\ Fault
  /\ Abandon(n)
  /\ task' = [task EXCEPT ![n].at = "queued", ![n].restore = FALSE]
  /\ Rollback(n)
  /\ UNCHANGED <<status, current, versions, request, note, episode, review, races>>

-------------------------------------------------------------------------------
(* The work of a version: run_pipeline or the chain of regenerate, fan_out   *)
(* and its media, assemble and compose_video.  The chain is linked to an     *)
(* error callback, but as an immutable signature: it is called without the   *)
(* arguments it requires and never gets to mark the story.                   *)

Running(v, t) == branch[v].task = t /\ branch[v].at = "running"
MarkWith(v, s) == branch' = [branch EXCEPT ![v].at = "marking", ![v].mark = s]
Start(v, t) == branch' = [branch EXCEPT ![v] = [IdleBranch("running") EXCEPT !.task = t]]

StagesDone(v) ==
  /\ Running(v, "stages")
  /\ Start(v, "media")
  /\ UNCHANGED <<status, current, versions, locking, request, note, task, episode, review,
                 history>>

\* run_pipeline, or a stage of a chain that has exhausted its retries.
StagesFail(v) ==
  /\ Running(v, "stages")
  /\ MarkWith(v, "failed")
  /\ UNCHANGED <<status, current, versions, locking, request, note, task, episode, review,
                 history>>

\* The branch ends and nobody marks the story.
Unmarked(v) ==
  /\ branch' = [branch EXCEPT ![v] = IdleBranch("unmarked")]
  /\ UNCHANGED <<status, current, versions, locking, request, note, task, episode, review,
                 history>>

\* A stage that fails for good before its last retry, or outside its try, marks nothing;
\* nor does a handler that cannot reach the database.
StagesRefused(v) == Running(v, "stages") /\ Unmarked(v)

\* The broker refuses the first stage of a chain or the fan_out of run_pipeline.
WorkUnsent(v) ==
  /\ Running(v, "stages")
  /\ Fault
  /\ branch' = [branch EXCEPT ![v] = IdleBranch("lost")]
  /\ UNCHANGED <<status, current, versions, locking, request, note, task, episode, review,
                 races>>

\* A member that fails for good breaks the chord, and the assembly is never called; or
\* fan_out or assemble fails outside its try.
MediaBroken(v) == Running(v, "media") /\ Unmarked(v)

Assembled(v) ==
  /\ Running(v, "media")
  /\ MarkWith(v, "ready")
  /\ episode' = episode \cup {v}
  /\ UNCHANGED <<status, current, versions, locking, request, note, task, review, history>>

\* assemble or compose_video fails, the episode on record or not; or the mark itself fails.
AssemblyFails(v) ==
  /\ \/ Running(v, "media") /\ episode' \in {episode, episode \cup {v}}
     \/ /\ branch[v].at \in {"marking", "writing"} /\ branch[v].mark = "ready"
        /\ UNCHANGED episode
  /\ MarkWith(v, "failed")
  /\ UNCHANGED <<status, current, versions, locking, request, note, task, review, history>>

\* Mutant: the pointer is not compared.
MarkReadBlind(v) ==
  /\ branch[v].at = "marking"
  /\ branch' = [branch EXCEPT ![v].at = IF status # branch[v].mark THEN "writing" ELSE "marked"]
  /\ UNCHANGED <<status, current, versions, locking, request, note, task, episode, review,
                 history>>

\* _mark_story reads the story, then writes it if that changes the row.
MarkRead(v) ==
  /\ branch[v].at = "marking"
  /\ branch' = [branch EXCEPT ![v].at =
                  IF current = v /\ status # branch[v].mark THEN "writing" ELSE "marked"]
  /\ UNCHANGED <<status, current, versions, locking, request, note, task, episode, review,
                 history>>

MarkWrite(v) ==
  /\ branch[v].at = "writing"
  /\ lock = {}
  /\ status' = branch[v].mark
  /\ branch' = [branch EXCEPT ![v].at = "marked"]
  /\ UNCHANGED <<current, versions, locking, request, note, task, episode, review, history>>

\* Only the assembly is retried after its mark.
BranchRetry(v) ==
  /\ branch[v].at = "marked" /\ branch[v].task = "media" /\ branch[v].mark = "failed"
  /\ branch[v].retries < MaxRetries
  /\ branch' = [branch EXCEPT ![v].at = "running", ![v].mark = "failed",
                               ![v].retries = @ + 1]
  /\ UNCHANGED <<status, current, versions, locking, request, note, task, episode, review,
                 history>>

\* It has succeeded, exhausted its retries or failed in a way that is not tried again.
BranchOver(v) ==
  /\ branch[v].at = "marked"
  /\ branch' = [branch EXCEPT ![v] = IdleBranch("over")]
  /\ UNCHANGED <<status, current, versions, locking, request, note, task, episode, review,
                 history>>

\* The worker is lost before the acknowledgement: the task runs again.
BranchLost(v) ==
  /\ branch[v].at \in {"marking", "writing", "marked"}
  /\ Fault
  /\ branch' = [branch EXCEPT ![v].at = "running", ![v].mark = "failed"]
  /\ UNCHANGED <<status, current, versions, locking, request, note, task, episode, review,
                 races>>

-------------------------------------------------------------------------------
Api ==
  \/ \E r \in Regen : RegenerateLock(r) \/ RegenerateCommit(r) \/ RegenerateRefused(r)
  \/ \E n \in Note : FeedbackCheck(n) \/ FeedbackCommit(n) \/ FeedbackDispatch(n)
                     \/ FeedbackDispatchLost(n)
  \/ \E v \in Version : Dispatch(v) \/ DispatchLost(v)

Interpret(n) ==
  \/ InterpretRefused(n) \/ InterpretFails(n) \/ InterpretLock(n) \/ InterpretSuperseded(n)
  \/ InterpretCommit(n) \/ InterpretSend(n) \/ FailRead(n) \/ FailWrite(n)
  \/ FailUnrecorded(n) \/ InterpretAck(n)

Work(v) ==
  \/ StagesDone(v) \/ StagesFail(v) \/ StagesRefused(v) \/ Assembled(v) \/ AssemblyFails(v)
  \/ MediaBroken(v) \/ MarkRead(v) \/ MarkWrite(v) \/ BranchRetry(v) \/ BranchOver(v)

Next ==
  \/ Api
  \/ \E a \in Review : Flag(a) \/ Unflag(a) \/ ReviewCommit(a)
  \/ \E n \in Note : Interpret(n) \/ InterpretSendFails(n) \/ InterpretLost(n)
  \/ \E v \in Version : Work(v) \/ WorkUnsent(v) \/ BranchLost(v)

Spec == Init /\ [][Next]_vars

\* A request that has begun goes on, workers take their messages; nobody has to
\* make a request and nothing has to fail.
Fairness ==
  /\ \A r \in Regen : WF_vars(RegenerateCommit(r) \/ RegenerateRefused(r))
  /\ \A n \in Note : WF_vars(FeedbackCommit(n)) /\ WF_vars(FeedbackDispatch(n))
                     /\ WF_vars(Interpret(n))
  /\ \A v \in Version : WF_vars(Dispatch(v)) /\ WF_vars(Work(v))

FairSpec == Spec /\ Fairness

-------------------------------------------------------------------------------
(* Properties                                                                *)

\* Revision labels are unique and chronological for the whole story, and the
\* current version carries the greatest: a fork is never lost to a concurrent one
\* (next_version_number and the pointer, both under the lock of the story row).
CurrentIsNewest ==
  /\ \A v, w \in Version : Exists(v) /\ number[v] = number[w] => v = w
  /\ \A v \in Version : number[v] <= number[current]

\* A note makes at most one version, however often its interpreter is retried or
\* delivered again and whatever version its message names.
NoteForksOnce ==
  \A n \in Note, v, w \in Version : origin[v] = {n} /\ origin[w] = {n} => v = w

\* A ready story has an episode of the version it points to, not of an older branch,
\* unless it forked while somebody still held what he had read of the older version:
\* a mark or a restore about to be written, or a flag that hides that it was ready.
ReadyIsCurrent ==
  status = "ready" /\ races \cap {"stale_mark", "stale_flag"} = {} => current \in episode

\* The end of an older branch leaves the status of the story alone once a newer
\* version is current (what _mark_story promises).
StaleBranchHarmless == [][\A v \in Version : MarkWrite(v) => current = v]_vars

\* The story does not stay "generating": after the last request the branches and the
\* interpreters settle it, unless the work of the current version was never sent or ended
\* unmarked, the note about it was never sent or its failure never recorded, or a note was
\* committed onto a story that was no longer the one it had read.
EventuallySettles ==
  <>[](\/ status # "generating"
       \/ branch[current].at \in {"lost", "unmarked"}
       \/ \E n \in Note : task[n].at \in {"lost", "unrecorded"} /\ note[n].version = current
       \/ "stale_submit" \in races)

\* Every stored note gets an answer, unless it was never sent or its failure could not be
\* recorded.
NoteAnswered ==
  \A n \in Note : note[n].status = "pending"
                  ~> note[n].status # "pending" \/ task[n].at \in {"lost", "unrecorded"}

===============================================================================
