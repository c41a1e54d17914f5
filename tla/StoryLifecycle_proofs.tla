------------------------ MODULE StoryLifecycle_proofs -------------------------
(***************************************************************************)
(* Proofs about StoryLifecycle, for every set of versions, notes and       *)
(* requests and every bound: versions are numbered uniquely, the pointer   *)
(* is at the newest, a note forks once, and a ready story has its episode  *)
(* unless a fork overtook what was read.  The argument rests on the        *)
(* lock: while it is held the pointer stays where the holder has compared  *)
(* it and the greatest number stays the one it has read.                   *)
(***************************************************************************)
EXTENDS StoryLifecycle, TLAPS

\* The versions that are named exist.
Known == /\ Exists(First) /\ Exists(current)
         /\ \A n \in Note : Exists(task[n].version)

\* The holder of the lock has read the number of the current version.
Read == lock # {} => latest = number[current]

\* An interpreter past its comparison holds the lock, and the pointer is still its version.
Compared ==
  \A n \in Note : task[n].at = "locked" => lock = {n} /\ task[n].version = current

\* A task exists only for a note whose request has ended.
Sent == \A n \in Note : task[n].at # "none" => request[n] = "done"

\* A fork of a note is newer than the version its message names.
Superseded ==
  \A n \in Note, v \in Version :
    origin[v] = {n} => /\ Exists(v) /\ task[n].at # "none"
                       /\ task[n].at = "acked" \/ number[task[n].version] < number[v]

Protocol == CurrentIsNewest /\ NoteForksOnce /\ Known /\ Read /\ Compared /\ Sent /\ Superseded

Inv == TypeOK /\ Protocol

Phase == {"stages", "media"}
BranchStep == {"none", "unsent", "lost", "running", "marking", "writing", "marked", "over",
               "unmarked"}
TaskStep == {"none", "lost", "queued", "locked", "forked", "sent", "failing", "recording",
             "recorded", "unrecorded", "acked"}

-------------------------------------------------------------------------------
(* Records                                                                   *)

\* The records that the code makes from nothing are well typed.
LEMMA FreshTypes ==
  /\ NewBranch \in Branch
  /\ \A s \in BranchStep : IdleBranch(s) \in Branch
  /\ \A s \in BranchStep, t \in Phase : [IdleBranch(s) EXCEPT !.task = t] \in Branch
  /\ \A v \in Version : NewTask(v) \in Task /\ NewTask(v).at = "queued" /\ NewTask(v).version = v
  /\ \A s \in TaskStep : /\ IdleTask(s) \in Task
                         /\ IdleTask(s).at = s /\ IdleTask(s).version = First
<1>1. MaxRetries \in Nat /\ First \in Version
  BY LifecycleAssumption
<1>2. 0 \in 0..MaxRetries
  BY <1>1
<1>3. NewBranch \in Branch
  BY <1>2 DEF NewBranch, Branch
<1>4. ASSUME NEW s \in BranchStep PROVE IdleBranch(s) \in Branch
  BY <1>3 DEF IdleBranch, NewBranch, Branch, BranchStep
<1>5. ASSUME NEW s \in BranchStep, NEW t \in Phase
      PROVE  [IdleBranch(s) EXCEPT !.task = t] \in Branch
  BY <1>4 DEF Branch, Phase
<1>6. ASSUME NEW v \in Version
      PROVE  NewTask(v) \in Task /\ NewTask(v).at = "queued" /\ NewTask(v).version = v
  BY <1>2 DEF NewTask, Task
<1>7. ASSUME NEW s \in TaskStep
      PROVE  IdleTask(s) \in Task /\ IdleTask(s).at = s /\ IdleTask(s).version = First
  BY <1>1, <1>2 DEF IdleTask, NewTask, Task, TaskStep
<1> QED
  BY <1>3, <1>4, <1>5, <1>6, <1>7

\* Another step of a branch keeps it well typed.
LEMMA BranchEdits ==
  ASSUME NEW b \in Branch, NEW s \in BranchStep, NEW m \in {"ready", "failed"}
  PROVE  /\ [b EXCEPT !.at = s] \in Branch
         /\ [b EXCEPT !.at = s, !.mark = m] \in Branch
         /\ b.retries < MaxRetries =>
              [b EXCEPT !.at = s, !.mark = m, !.retries = @ + 1] \in Branch
<1>1. [b EXCEPT !.at = s] \in Branch
  BY DEF Branch, BranchStep
<1>2. [b EXCEPT !.at = s, !.mark = m] \in Branch
  BY DEF Branch, BranchStep
<1>3. ASSUME b.retries < MaxRetries
      PROVE  [b EXCEPT !.at = s, !.mark = m, !.retries = @ + 1] \in Branch
  <2>1. b.retries + 1 \in 0..MaxRetries
    BY <1>3, LifecycleAssumption DEF Branch
  <2> QED
    BY <2>1 DEF Branch, BranchStep
<1> QED
  BY <1>1, <1>2, <1>3

\* Another step of a task keeps it well typed, its version and nothing else of other tasks.
LEMMA TaskEdits ==
  ASSUME NEW k \in Task, NEW s \in TaskStep, NEW r \in BOOLEAN
  PROVE  /\ [k EXCEPT !.at = s] \in Task
         /\ [k EXCEPT !.at = s].at = s /\ [k EXCEPT !.at = s].version = k.version
         /\ [k EXCEPT !.at = s, !.restore = r] \in Task
         /\ [k EXCEPT !.at = s, !.restore = r].at = s
         /\ [k EXCEPT !.at = s, !.restore = r].version = k.version
<1>1. /\ [k EXCEPT !.at = s] \in Task
      /\ [k EXCEPT !.at = s].at = s /\ [k EXCEPT !.at = s].version = k.version
  BY DEF Task, TaskStep
<1>2. /\ [k EXCEPT !.at = s, !.restore = r] \in Task
      /\ [k EXCEPT !.at = s, !.restore = r].at = s
      /\ [k EXCEPT !.at = s, !.restore = r].version = k.version
  BY DEF Task, TaskStep
<1> QED
  BY <1>1, <1>2

-------------------------------------------------------------------------------
(* TypeOK is preserved, group of actions by group of actions.                *)

\* A set of races stays one.
LEMMA LoseType ==
  ASSUME races \subseteq Race, NEW kinds \in SUBSET Race, Lose(kinds)
  PROVE  races' \subseteq Race
BY DEF Lose

\* A counted fault stays within the bound.
LEMMA FaultType ==
  ASSUME faults \in 0..MaxFaults, Fault
  PROVE  faults' \in 0..MaxFaults
BY LifecycleAssumption DEF Fault

\* The work of a version changes its branch, the status, the episodes and nothing else.
LEMMA WorkTypes ==
  ASSUME TypeOK, NEW v \in Version, Work(v) \/ WorkUnsent(v) \/ BranchLost(v)
  PROVE  TypeOK' /\ UNCHANGED <<current, versions, locking, request, task>>
<1> USE DEF TypeOK, versions, locking, review, history
<1>0. /\ branch[v] \in Branch
      /\ \A b \in Branch : [branch EXCEPT ![v] = b] \in [Version -> Branch]
  OBVIOUS
<1>1. CASE StagesDone(v)
  <2>1. branch' \in [Version -> Branch]
    BY <1>0, <1>1, FreshTypes DEF StagesDone, Start, BranchStep, Phase
  <2> QED
    BY <1>1, <2>1 DEF StagesDone
<1>2. CASE StagesFail(v) \/ AssemblyFails(v) \/ Assembled(v)
  <2> DEFINE edit(m) == [branch[v] EXCEPT !.at = "marking", !.mark = m]
  <2>1. edit("failed") \in Branch /\ edit("ready") \in Branch
    BY <1>0, BranchEdits DEF BranchStep
  <2>2. branch' = [branch EXCEPT ![v] = edit("failed")]
          \/ branch' = [branch EXCEPT ![v] = edit("ready")]
    BY <1>2 DEF StagesFail, AssemblyFails, Assembled, MarkWith
  <2> HIDE DEF edit
  <2>3. branch' \in [Version -> Branch]
    BY <1>0, <2>1, <2>2
  <2> QED
    BY <1>2, <2>3 DEF StagesFail, AssemblyFails, Assembled
<1>3. CASE MarkRead(v) \/ MarkWrite(v)
  <2> DEFINE edit(s) == [branch[v] EXCEPT !.at = s]
  <2>1. edit("writing") \in Branch /\ edit("marked") \in Branch
    BY <1>0, BranchEdits DEF BranchStep
  <2>2. branch' = [branch EXCEPT ![v] = edit("writing")]
          \/ branch' = [branch EXCEPT ![v] = edit("marked")]
    BY <1>3 DEF MarkRead, MarkWrite
  <2> HIDE DEF edit
  <2>3. branch' \in [Version -> Branch]
    BY <1>0, <2>1, <2>2
  <2>4. branch[v].mark \in {"ready", "failed"}
    BY <1>0 DEF Branch
  <2> QED
    BY <1>3, <2>3, <2>4 DEF MarkRead, MarkWrite, Status
<1>4. CASE BranchRetry(v)
  <2> DEFINE edit == [branch[v] EXCEPT !.at = "running", !.mark = "failed", !.retries = @ + 1]
  <2>1. edit \in Branch
    BY <1>0, <1>4, BranchEdits DEF BranchRetry, BranchStep
  <2>2. branch' = [branch EXCEPT ![v] = edit]
    BY <1>4 DEF BranchRetry
  <2> HIDE DEF edit
  <2>3. branch' \in [Version -> Branch]
    BY <1>0, <2>1, <2>2
  <2> QED
    BY <1>4, <2>3 DEF BranchRetry
<1>5. CASE BranchOver(v) \/ StagesRefused(v) \/ MediaBroken(v) \/ WorkUnsent(v)
  <2>1. PICK s \in BranchStep : branch' = [branch EXCEPT ![v] = IdleBranch(s)]
    BY <1>5 DEF BranchOver, StagesRefused, MediaBroken, Unmarked, WorkUnsent, BranchStep
  <2>2. branch' \in [Version -> Branch]
    BY <1>0, <2>1, FreshTypes
  <2> QED
    BY <1>5, <2>2, FaultType DEF BranchOver, StagesRefused, MediaBroken, Unmarked, WorkUnsent
<1>6. CASE BranchLost(v)
  <2> DEFINE edit == [branch[v] EXCEPT !.at = "running", !.mark = "failed"]
  <2>1. edit \in Branch
    BY <1>0, BranchEdits DEF BranchStep
  <2>2. branch' = [branch EXCEPT ![v] = edit]
    BY <1>6 DEF BranchLost
  <2> HIDE DEF edit
  <2>3. branch' \in [Version -> Branch]
    BY <1>0, <2>1, <2>2
  <2> QED
    BY <1>6, <2>3, FaultType DEF BranchLost
<1> QED
  BY <1>1, <1>2, <1>3, <1>4, <1>5, <1>6 DEF Work

\* Under the numbering the greatest number is that of the current version.
LEMMA LatestIsCurrent ==
  ASSUME TypeOK, CurrentIsNewest
  PROVE  Latest = number[current]
<1>1. number[current] \in {number[v] : v \in Version}
  BY DEF TypeOK
<1>2. \A v \in Version : number[v] <= number[current]
  BY DEF CurrentIsNewest
<1>3. /\ Latest \in {number[v] : v \in Version}
      /\ \A v \in Version : number[v] <= Latest
  BY <1>1, <1>2 DEF Latest
<1>4. PICK w \in Version : Latest = number[w]
  BY <1>3
<1>5. Latest \in Nat /\ number[current] \in Nat
  BY <1>4 DEF TypeOK
<1>6. Latest <= number[current] /\ number[current] <= Latest
  BY <1>2, <1>3, <1>4 DEF TypeOK
<1> QED
  BY <1>5, <1>6

\* A fork takes an id that is not in use.
LEMMA FreshId ==
  ASSUME TypeOK, NEW x, NEW notes, Fork(x, notes)
  PROVE  NewId \in Version /\ ~Exists(NewId)
BY DEF Fork, NewId

\* What a fork changes is well typed.
LEMMA ForkTypes ==
  ASSUME TypeOK, NEW x, NEW notes \in {{}} \cup {{n} : n \in Note}, Fork(x, notes)
  PROVE  /\ status' \in Status
         /\ current' \in Version
         /\ number' \in [Version -> Nat]
         /\ origin' \in [Version -> {{}} \cup {{n} : n \in Note}]
         /\ lock' \in {{}} \cup {{y} : y \in Note \cup Regen}
         /\ latest' \in Nat
         /\ branch' \in [Version -> Branch]
         /\ UNCHANGED <<hides, decision>>
         /\ faults' \in 0..MaxFaults
         /\ races' \subseteq Race
<1>1. NewId \in Version
  BY FreshId
<1> DEFINE kinds == (IF ReadPending THEN {"stale_mark"} ELSE {})
                    \cup (IF ReadyHidden THEN {"stale_flag"} ELSE {})
<1>2. kinds \in SUBSET Race /\ Lose(kinds)
  BY DEF Race, Fork
<1> HIDE DEF kinds
<1>3. races' \subseteq Race
  BY <1>2, LoseType DEF TypeOK
<1> QED
  BY <1>1, <1>3, FreshTypes DEF Fork, TypeOK, Status, review

\* The API.
LEMMA ApiTypes == ASSUME TypeOK, CurrentIsNewest, Api PROVE TypeOK'
<1> USE DEF TypeOK, versions, locking, review, history, Asker
<1>1. ASSUME NEW r \in Regen, RegenerateLock(r) PROVE TypeOK'
  <2>1. latest' \in Nat
    BY <1>1, LatestIsCurrent DEF RegenerateLock, Acquire
  <2>2. lock' \in {{}} \cup {{x} : x \in Note \cup Regen}
    BY <1>1 DEF RegenerateLock, Acquire
  <2> QED
    BY <1>1, <2>1, <2>2 DEF RegenerateLock
<1>2. ASSUME NEW r \in Regen, RegenerateCommit(r) PROVE TypeOK'
  <2>1. Fork(r, {})
    BY <1>2 DEF RegenerateCommit
  <2>2. request' \in [Asker -> {"none", "checked", "locked", "committed", "done"}]
    BY <1>2 DEF RegenerateCommit
  <2>3. UNCHANGED <<note, task, episode>>
    BY <1>2 DEF RegenerateCommit
  <2> QED
    BY <2>1, <2>2, <2>3, ForkTypes
<1>3. ASSUME NEW r \in Regen, RegenerateRefused(r) PROVE TypeOK'
  BY <1>3 DEF RegenerateRefused, Rollback
<1>4. ASSUME NEW n \in Note, FeedbackCheck(n) PROVE TypeOK'
  BY <1>4 DEF FeedbackCheck
<1>5. ASSUME NEW n \in Note, FeedbackCommit(n) PROVE TypeOK'
  <2> DEFINE kinds == IF status = "ready" /\ current = note[n].version THEN {} ELSE {"stale_submit"}
  <2>1. kinds \in SUBSET Race /\ Lose(kinds)
    BY <1>5 DEF FeedbackCommit, Race
  <2> HIDE DEF kinds
  <2>2. races' \subseteq Race
    BY <2>1, LoseType
  <2> QED
    BY <1>5, <2>2 DEF FeedbackCommit, Status
<1>6. ASSUME NEW n \in Note, FeedbackDispatch(n) PROVE TypeOK'
  <2>1. NewTask(current) \in Task
    BY FreshTypes
  <2> QED
    BY <1>6, <2>1 DEF FeedbackDispatch
<1>7. ASSUME NEW n \in Note, FeedbackDispatchLost(n) PROVE TypeOK'
  <2>1. IdleTask("lost") \in Task
    BY FreshTypes DEF TaskStep
  <2> QED
    BY <1>7, <2>1, FaultType DEF FeedbackDispatchLost
<1>8. ASSUME NEW v \in Version, Dispatch(v) \/ DispatchLost(v) PROVE TypeOK'
  <2>1. branch[v] \in Branch
    OBVIOUS
  <2> DEFINE edit(s) == [branch[v] EXCEPT !.at = s]
  <2>2. edit("running") \in Branch /\ edit("lost") \in Branch
    BY <2>1, BranchEdits DEF BranchStep
  <2>3. branch' = [branch EXCEPT ![v] = edit("running")]
          \/ branch' = [branch EXCEPT ![v] = edit("lost")]
    BY <1>8 DEF Dispatch, DispatchLost
  <2> HIDE DEF edit
  <2>4. branch' \in [Version -> Branch]
    BY <2>2, <2>3
  <2>5. CASE Dispatch(v)
    BY <2>4, <2>5 DEF Dispatch
  <2>6. CASE DispatchLost(v)
    BY <2>4, <2>6, FaultType DEF DispatchLost
  <2> QED
    BY <1>8, <2>5, <2>6
<1> QED
  BY <1>1, <1>2, <1>3, <1>4, <1>5, <1>6, <1>7, <1>8 DEF Api

\* A review.
LEMMA ReviewTypes ==
  ASSUME TypeOK, NEW a \in Review, Flag(a) \/ Unflag(a) \/ ReviewCommit(a)
  PROVE  TypeOK' /\ UNCHANGED <<current, versions, locking, task>>
<1> USE DEF TypeOK, versions, locking, history
<1>1. ASSUME NEW s \in Status, NEW h \in Hidden, Decide(a, s, h)
      PROVE  TypeOK' /\ UNCHANGED <<current, versions, locking, task>>
  <2> DEFINE update == [status |-> Changed(status, s), hides |-> Changed(hides, h)]
  <2>1. update \in Update
    BY DEF Changed, Update, Hidden
  <2>2. decision' = [decision EXCEPT ![a] = update]
    BY <1>1 DEF Decide
  <2> HIDE DEF update
  <2>3. decision' \in [Review -> Update]
    BY <2>1, <2>2
  <2>4. request' \in [Asker -> {"none", "checked", "locked", "committed", "done"}]
    BY <1>1 DEF Decide, Asker
  <2> QED
    BY <1>1, <2>3, <2>4 DEF Decide
<1>2. CASE Flag(a)
  <2> DEFINE h == IF hides = {} THEN {status} ELSE hides
  <2>1. Decide(a, "flagged", h) /\ h \in Hidden /\ "flagged" \in Status
    BY <1>2 DEF Flag, Hidden, Status
  <2> HIDE DEF h
  <2> QED
    BY <1>1, <2>1
<1>3. CASE Unflag(a)
  <2>1. PICK s \in Restored : Decide(a, s, {})
    BY <1>3 DEF Unflag
  <2>2. s \in Status /\ {} \in Hidden
    BY DEF Restored, Hidden, Status
  <2> QED
    BY <1>1, <2>1, <2>2
<1>4. CASE ReviewCommit(a)
  <2>1. decision[a] \in Update /\ NoUpdate \in Update
    BY DEF NoUpdate, Update, Hidden
  <2>2. status' \in Status /\ hides' \in Hidden
    <3>1. decision[a].status \in Hidden /\ decision[a].hides \in {{}} \cup {{h} : h \in Hidden}
      BY <2>1 DEF Update
    <3>2. /\ status' = status \/ status' \in decision[a].status
          /\ hides' = hides \/ hides' \in decision[a].hides
      BY <1>4 DEF ReviewCommit
    <3>3. \A s \in decision[a].status : s \in Status
      BY <3>1 DEF Hidden
    <3>4. \A h \in decision[a].hides : h \in Hidden
      BY <3>1
    <3> QED
      BY <3>2, <3>3, <3>4
  <2> QED
    BY <1>4, <2>1, <2>2 DEF ReviewCommit
<1> QED
  BY <1>2, <1>3, <1>4

-------------------------------------------------------------------------------
(* The interpreters                                                          *)

\* A step of a task that is neither its dispatch, its comparison nor its fork.
Later(n) ==
  /\ task[n].at \notin {"none", "acked"}
  /\ task' \in [Note -> Task]
  /\ \A m \in Note : m # n => task'[m] = task[m]
  /\ task'[n].at \notin {"none", "locked"}
  /\ \/ task'[n].version = task[n].version
     \/ task'[n].at = "acked" /\ task'[n].version = First
  /\ \/ UNCHANGED locking /\ task[n].at # "locked"
     \/ Rollback(n)
  /\ UNCHANGED <<current, versions, request>>

\* A retry is such a step of the task.
LEMMA RetryEffect ==
  ASSUME task \in [Note -> Task], NEW n \in Note, Retry(n)
  PROVE  /\ task' \in [Note -> Task]
         /\ \A m \in Note : m # n => task'[m] = task[m]
         /\ task'[n].at \in {"queued", "failing"}
         /\ task'[n].version = task[n].version
<1> DEFINE again == [task[n] EXCEPT !.at = "queued", !.retries = @ + 1]
           stop == [task[n] EXCEPT !.at = "failing"]
<1>1. task[n] \in Task
  OBVIOUS
<1>2. CASE task[n].retries < MaxRetries
  <2>1. again \in Task /\ again.at = "queued" /\ again.version = task[n].version
    <3>1. task[n].retries + 1 \in 0..MaxRetries
      BY <1>1, <1>2, LifecycleAssumption DEF Task
    <3> QED
      BY <1>1, <3>1 DEF Task
  <2>2. task' = [task EXCEPT ![n] = again]
    BY <1>2 DEF Retry
  <2> HIDE DEF again
  <2> QED
    BY <2>1, <2>2
<1>3. CASE ~(task[n].retries < MaxRetries)
  <2>1. stop \in Task /\ stop.at = "failing" /\ stop.version = task[n].version
    BY <1>1, TaskEdits DEF TaskStep
  <2>2. task' = [task EXCEPT ![n] = stop]
    BY <1>3 DEF Retry
  <2> HIDE DEF stop
  <2> QED
    BY <2>1, <2>2
<1> QED
  BY <1>2, <1>3

\* A new step of a task, the rest of it as it was.
LEMMA TaskToEffect ==
  ASSUME task \in [Note -> Task], NEW n \in Note, NEW s \in TaskStep, TaskTo(n, s)
  PROVE  /\ task' \in [Note -> Task]
         /\ \A m \in Note : m # n => task'[m] = task[m]
         /\ task'[n].at = s /\ task'[n].version = task[n].version
<1> DEFINE edit == [task[n] EXCEPT !.at = s]
<1>1. edit \in Task /\ edit.at = s /\ edit.version = task[n].version
  BY TaskEdits
<1>2. task' = [task EXCEPT ![n] = edit]
  BY DEF TaskTo
<1> HIDE DEF edit
<1> QED
  BY <1>1, <1>2

\* What an interpreter leaves behind keeps the branches well typed.
LEMMA AbandonTypes ==
  ASSUME TypeOK, NEW n \in Note, Abandon(n)
  PROVE  branch' \in [Version -> Branch]
<1>1. \A v \in Version : [branch[v] EXCEPT !.at = "lost"] \in Branch
  BY BranchEdits DEF TypeOK, BranchStep
<1> QED
  BY <1>1 DEF Abandon, TypeOK

\* Every step of an interpreter but its comparison and its fork is such a step.
LEMMA InterpretLater ==
  ASSUME TypeOK, NEW n \in Note,
         \/ InterpretRefused(n) \/ InterpretFails(n) \/ InterpretSuperseded(n)
         \/ InterpretSend(n) \/ InterpretSendFails(n) \/ FailRead(n) \/ FailWrite(n)
         \/ FailUnrecorded(n) \/ InterpretAck(n) \/ InterpretLost(n)
  PROVE  TypeOK' /\ Later(n)
<1> USE DEF versions, locking, review, history
<1>0. task \in [Note -> Task] /\ task[n] \in Task
  BY DEF TypeOK
<1>1. CASE InterpretRefused(n)
  <2>1. TaskTo(n, "failing") /\ task[n].at = "queued"
    BY <1>1 DEF InterpretRefused, TaskAt
  <2> QED
    BY <1>0, <1>1, <2>1, TaskToEffect DEF InterpretRefused, TypeOK, Later, TaskStep
<1>2. CASE InterpretFails(n)
  <2>1. Retry(n) /\ task[n].at \in {"queued", "locked"} /\ Rollback(n)
    BY <1>2 DEF InterpretFails
  <2>2. lock' \in {{}} \cup {{x} : x \in Note \cup Regen} /\ latest' \in Nat
    BY <2>1 DEF Rollback, TypeOK
  <2>3. UNCHANGED <<status, current, versions, request, note, branch, episode, review, history>>
    BY <1>2 DEF InterpretFails
  <2>4. TypeOK'
    BY <1>0, <2>1, <2>2, <2>3, RetryEffect DEF TypeOK
  <2>5. Later(n)
    BY <1>0, <2>1, <2>3, RetryEffect DEF Later
  <2> QED
    BY <2>4, <2>5
<1>3. CASE InterpretSuperseded(n)
  <2>1. TaskTo(n, "failing") /\ task[n].at = "queued"
    BY <1>3 DEF InterpretSuperseded, TaskAt
  <2> QED
    BY <1>0, <1>3, <2>1, TaskToEffect DEF InterpretSuperseded, TypeOK, Later, TaskStep
<1>4. CASE InterpretSend(n)
  <2>1. TaskTo(n, "sent") /\ task[n].at = "forked"
    BY <1>4 DEF InterpretSend, TaskAt
  <2>2. \A v \in Version : [branch[v] EXCEPT !.at = "running"] \in Branch
    BY BranchEdits DEF TypeOK, BranchStep
  <2>3. branch' \in [Version -> Branch]
    BY <1>4, <2>2 DEF InterpretSend, TypeOK
  <2> QED
    BY <1>0, <1>4, <2>1, <2>3, TaskToEffect DEF InterpretSend, TypeOK, Later, TaskStep
<1>5. CASE InterpretSendFails(n)
  <2>1. Retry(n) /\ Abandon(n) /\ Fault /\ task[n].at = "forked"
    BY <1>5 DEF InterpretSendFails, TaskAt
  <2>2. faults' \in 0..MaxFaults
    BY <2>1, FaultType DEF TypeOK
  <2> QED
    BY <1>0, <1>5, <2>1, <2>2, RetryEffect, AbandonTypes DEF InterpretSendFails, TypeOK, Later
<1>6. CASE FailRead(n)
  <2> DEFINE restore == current = note[n].version /\ status = "generating"
             edit == [task[n] EXCEPT !.at = "recording", !.restore = restore]
  <2>1. edit \in Task /\ edit.at = "recording" /\ edit.version = task[n].version
    <3>1. restore \in BOOLEAN
      OBVIOUS
    <3> HIDE DEF restore
    <3> QED
      BY <1>0, <3>1 DEF Task
  <2>2. task' = [task EXCEPT ![n] = edit] /\ task[n].at = "failing"
    BY <1>6 DEF FailRead, TaskAt
  <2> HIDE DEF edit
  <2> QED
    BY <1>0, <1>6, <2>1, <2>2, ZenonT(30) DEF FailRead, TypeOK, Later
<1>7. CASE FailWrite(n)
  <2> DEFINE edit == [task[n] EXCEPT !.at = "recorded", !.restore = FALSE]
  <2>1. edit \in Task /\ edit.at = "recorded" /\ edit.version = task[n].version
    BY <1>0, TaskEdits DEF TaskStep
  <2>2. task' = [task EXCEPT ![n] = edit] /\ task[n].at = "recording"
    BY <1>7 DEF FailWrite, TaskAt
  <2> HIDE DEF edit
  <2>3. status' \in Status
    BY <1>7 DEF FailWrite, TypeOK, Status
  <2>4. note' \in [Note -> [status: {"none", "pending", "applied", "failed"}, version: Version]]
    BY <1>7 DEF FailWrite, TypeOK
  <2>5. UNCHANGED <<current, versions, locking, request, branch, episode, review, history>>
    BY <1>7 DEF FailWrite
  <2>6. TypeOK'
    BY <1>0, <2>1, <2>2, <2>3, <2>4, <2>5 DEF TypeOK
  <2>7. Later(n)
    BY <1>0, <2>1, <2>2, <2>5 DEF Later
  <2> QED
    BY <2>6, <2>7
<1>8. CASE InterpretAck(n)
  <2>1. /\ task' = [task EXCEPT ![n] = IdleTask("acked")] /\ task[n].at \in {"sent", "recorded"}
        /\ IdleTask("acked") \in Task
        /\ IdleTask("acked").at = "acked" /\ IdleTask("acked").version = First
    BY <1>8, FreshTypes DEF InterpretAck, TaskStep
  <2> QED
    BY <1>0, <1>8, <2>1 DEF InterpretAck, TypeOK, Later
<1>9. CASE InterpretLost(n)
  <2> DEFINE edit == [task[n] EXCEPT !.at = "queued", !.restore = FALSE]
  <2>1. edit \in Task /\ edit.at = "queued" /\ edit.version = task[n].version
    BY <1>0, TaskEdits, ZenonT(30) DEF TaskStep
  <2>2. /\ task' = [task EXCEPT ![n] = edit]
        /\ task[n].at \notin {"none", "acked"}
        /\ Abandon(n) /\ Fault /\ Rollback(n)
    BY <1>9 DEF InterpretLost
  <2> HIDE DEF edit
  <2>3. faults' \in 0..MaxFaults
    BY <2>2, FaultType DEF TypeOK
  <2>4. lock' \in {{}} \cup {{x} : x \in Note \cup Regen} /\ latest' \in Nat
    BY <2>2 DEF Rollback, TypeOK
  <2> QED
    BY <1>0, <1>9, <2>1, <2>2, <2>3, <2>4, AbandonTypes, ZenonT(30) DEF InterpretLost, TypeOK, Later
<1>10. CASE FailUnrecorded(n)
  <2> DEFINE edit == [task[n] EXCEPT !.at = "unrecorded", !.restore = FALSE]
  <2>1. edit \in Task /\ edit.at = "unrecorded" /\ edit.version = task[n].version
    BY <1>0, TaskEdits DEF TaskStep
  <2>2. task' = [task EXCEPT ![n] = edit] /\ task[n].at \in {"failing", "recording"}
    BY <1>10 DEF FailUnrecorded
  <2> HIDE DEF edit
  <2>3. UNCHANGED <<status, current, versions, locking, request, note, branch, episode, review,
                    history>>
    BY <1>10 DEF FailUnrecorded
  <2>4. TypeOK'
    BY <1>0, <2>1, <2>2, <2>3 DEF TypeOK
  <2>5. Later(n)
    BY <1>0, <2>1, <2>2, <2>3 DEF Later
  <2> QED
    BY <2>4, <2>5
<1> QED
  BY <1>1, <1>2, <1>3, <1>4, <1>5, <1>6, <1>7, <1>8, <1>9, <1>10

-------------------------------------------------------------------------------
(* The protocol is preserved                                                 *)

\* A step that touches neither pointer, numbers, lock nor tasks, and no request
\* that has ended.
LEMMA QuietKeeps ==
  ASSUME Inv, UNCHANGED <<current, versions, locking, task>>,
         \A n \in Note : request[n] = "done" => request'[n] = "done"
  PROVE  Protocol'
BY DEF Inv, Protocol, CurrentIsNewest, NoteForksOnce, Known, Read, Compared, Sent, Superseded,
       Exists, versions, locking

\* A rollback releases the lock of its own transaction and no other.
LEMMA RollbackKeeps ==
  ASSUME TypeOK, Read, NEW x, Rollback(x), UNCHANGED <<current, versions>>
  PROVE  /\ Read'
         /\ \A y : y # x /\ lock = {y} => lock' = {y}
<1>1. ASSUME lock' # {} PROVE latest' = latest /\ lock # {}
  BY <1>1 DEF Rollback, TypeOK
<1>2. Read'
  BY <1>1 DEF Read, versions
<1> QED
  BY <1>2 DEF Rollback

\* A later step of a task leaves forks and numbers alone and releases its own lock at most.
LEMMA LaterKeeps ==
  ASSUME Inv, NEW n \in Note, Later(n)
  PROVE  Protocol'
<1> USE DEF Inv, Protocol, versions, locking
<1>1. /\ UNCHANGED <<current, number, origin, request>>
      /\ \A m \in Note : m # n => task'[m] = task[m]
      /\ task[n].at \notin {"none", "acked"} /\ task'[n].at \notin {"none", "locked"}
  BY DEF Later
<1>2. CurrentIsNewest' /\ NoteForksOnce'
  BY <1>1 DEF CurrentIsNewest, NoteForksOnce, Exists
<1>3. Known'
  <2>1. task'[n].version = task[n].version \/ task'[n].version = First
    BY DEF Later
  <2> QED
    BY <1>1, <2>1 DEF Known, Exists
<1>4. Read' /\ \A m \in Note : m # n /\ lock = {m} => lock' = {m}
  <2>1. CASE UNCHANGED locking
    BY <1>1, <2>1 DEF Read
  <2>2. CASE Rollback(n)
    BY <1>1, <2>2, RollbackKeeps
  <2> QED
    BY <2>1, <2>2 DEF Later
<1>5. Compared'
  BY <1>1, <1>4 DEF Compared
<1>6. Sent'
  BY <1>1 DEF Sent
<1>7. Superseded'
  <2>1. ASSUME NEW m \in Note, NEW v \in Version, origin[v] = {m}
        PROVE  /\ Exists(v)' /\ task'[m].at # "none"
               /\ task'[m].at = "acked" \/ number[task'[m].version] < number[v]
    <3>1. /\ Exists(v) /\ task[m].at # "none"
          /\ task[m].at = "acked" \/ number[task[m].version] < number[v]
      BY <2>1 DEF Superseded
    <3>2. CASE m = n
      BY <1>1, <3>1, <3>2 DEF Later, Exists
    <3>3. CASE m # n
      BY <1>1, <3>1, <3>3 DEF Exists
    <3> QED
      BY <3>2, <3>3
  <2> QED
    BY <1>1, <2>1 DEF Superseded
<1> QED
  BY <1>2, <1>3, <1>4, <1>5, <1>6, <1>7

\* A fork gives a version that nobody knows the next number and the pointer.
LEMMA ForkNumbers ==
  ASSUME Inv, NEW x, NEW notes, Fork(x, notes)
  PROVE  /\ NewId \in Version /\ number[NewId] = 0 /\ current' = NewId
         /\ number'[NewId] = number[current] + 1
         /\ origin'[NewId] = notes
         /\ \A v \in Version : v # NewId => number'[v] = number[v] /\ origin'[v] = origin[v]
         /\ CurrentIsNewest' /\ Read'
<1> USE DEF Inv, Protocol, TypeOK
<1>1. NewId \in Version /\ number[NewId] = 0
  BY FreshId DEF Exists
<1>2. latest = number[current]
  BY DEF Fork, Read
<1>3. /\ current' = NewId /\ number'[NewId] = number[current] + 1 /\ origin'[NewId] = notes
      /\ \A v \in Version : v # NewId => number'[v] = number[v] /\ origin'[v] = origin[v]
  BY <1>1, <1>2 DEF Fork
<1>4. \A v \in Version : number[v] <= number[current] /\ number[v] \in Nat
  BY DEF CurrentIsNewest
<1>5. \A v \in Version : v # NewId => number'[v] < number'[NewId]
  BY <1>1, <1>3, <1>4
<1>6. \A v \in Version : number'[v] <= number'[current'] /\ number'[v] \in Nat
  BY <1>1, <1>3, <1>4
<1>7. ASSUME NEW v \in Version, NEW w \in Version, number'[v] # 0, number'[v] = number'[w]
      PROVE  v = w
  <2>1. CASE v = NewId \/ w = NewId
    BY <1>5, <1>6, <1>7, <2>1
  <2>2. CASE v # NewId /\ w # NewId
    BY <1>3, <1>7, <2>2 DEF CurrentIsNewest, Exists
  <2> QED
    BY <2>1, <2>2
<1>8. CurrentIsNewest'
  BY <1>6, <1>7 DEF CurrentIsNewest, Exists
<1>9. Read'
  BY DEF Fork, Read
<1> QED
  BY <1>1, <1>3, <1>8, <1>9

\* The fork of a regenerate request.
LEMMA RegenerateKeeps ==
  ASSUME Inv, NEW r \in Regen, RegenerateCommit(r)
  PROVE  Protocol'
<1> USE DEF Inv, Protocol
<1>1. /\ Fork(r, {}) /\ task' = task /\ lock = {r}
      /\ \A n \in Note : request'[n] = request[n]
  BY LifecycleAssumption DEF RegenerateCommit, Fork, TypeOK, Asker
<1>2. /\ NewId \in Version /\ number[NewId] = 0 /\ current' = NewId
      /\ number'[NewId] = number[current] + 1 /\ origin'[NewId] = {}
      /\ \A v \in Version : v # NewId => number'[v] = number[v] /\ origin'[v] = origin[v]
      /\ CurrentIsNewest' /\ Read'
  BY <1>1, ForkNumbers
<1>3. NoteForksOnce'
  BY <1>2 DEF NoteForksOnce
<1>4. Known'
  BY <1>1, <1>2, LifecycleAssumption DEF Known, Exists, TypeOK, Task
<1>5. Compared'
  <2>1. \A n \in Note : task[n].at # "locked"
    BY <1>1, LifecycleAssumption DEF Compared
  <2> QED
    BY <1>1, <2>1 DEF Compared
<1>6. Sent'
  BY <1>1 DEF Sent
<1>7. Superseded'
  BY <1>1, <1>2 DEF Superseded, Known, Exists, TypeOK, Task
<1> QED
  BY <1>2, <1>3, <1>4, <1>5, <1>6, <1>7

\* The fork of a note: the pointer is still the version it has compared, and an
\* earlier fork of the same note would be newer than that.
LEMMA InterpretKeeps ==
  ASSUME Inv, NEW n \in Note, InterpretCommit(n)
  PROVE  Protocol'
<1> USE DEF Inv, Protocol
<1>1. /\ Fork(n, {n}) /\ request' = request /\ task[n].at = "locked" /\ lock = {n}
      /\ TaskTo(n, "forked")
  BY DEF InterpretCommit, Fork, TaskAt
<1>2. /\ NewId \in Version /\ number[NewId] = 0 /\ current' = NewId
      /\ number'[NewId] = number[current] + 1 /\ origin'[NewId] = {n}
      /\ \A v \in Version : v # NewId => number'[v] = number[v] /\ origin'[v] = origin[v]
      /\ CurrentIsNewest' /\ Read'
  BY <1>1, ForkNumbers
<1>3. /\ \A m \in Note : m # n => task'[m] = task[m]
      /\ task'[n].at = "forked" /\ task'[n].version = task[n].version
  BY <1>1, TaskToEffect DEF TypeOK, TaskStep
<1>4. task[n].version = current /\ \A m \in Note : m # n => task[m].at # "locked"
  BY <1>1 DEF Compared
<1>5. \A v \in Version : origin[v] # {n}
  <2>1. SUFFICES ASSUME NEW v \in Version, origin[v] = {n} PROVE FALSE
    OBVIOUS
  <2>2. number[current] < number[v]
    BY <1>1, <1>4, <2>1 DEF Superseded
  <2>3. number[v] <= number[current] /\ number[v] \in Nat /\ number[current] \in Nat
    BY DEF CurrentIsNewest, TypeOK
  <2> QED
    BY <2>2, <2>3
<1>6. NoteForksOnce'
  <2>1. ASSUME NEW m \in Note, NEW v \in Version, NEW w \in Version,
               origin'[v] = {m}, origin'[w] = {m}
        PROVE  v = w
    <3>1. CASE m = n
      BY <1>2, <1>5, <2>1, <3>1
    <3>2. CASE m # n
      BY <1>2, <2>1, <3>2 DEF NoteForksOnce
    <3> QED
      BY <3>1, <3>2
  <2> QED
    BY <2>1 DEF NoteForksOnce
<1>7. Known'
  <2>1. \A v \in Version : number[v] # 0 => number'[v] # 0
    BY <1>2
  <2>2. number'[current'] # 0
    BY <1>2 DEF TypeOK
  <2>3. \A m \in Note : task[m].version \in Version /\ task'[m].version = task[m].version
    BY <1>3 DEF TypeOK, Task
  <2> QED
    BY <2>1, <2>2, <2>3, LifecycleAssumption DEF Known, Exists
<1>8. Compared' /\ Sent'
  BY <1>1, <1>3, <1>4 DEF Compared, Sent
<1>9. Superseded'
  <2>1. ASSUME NEW m \in Note, NEW v \in Version, origin'[v] = {m}
        PROVE  /\ number'[v] # 0 /\ task'[m].at # "none"
               /\ task'[m].at = "acked" \/ number'[task'[m].version] < number'[v]
    <3>1. CASE v = NewId
      <4>1. m = n
        BY <1>2, <2>1, <3>1
      <4>2. current # NewId /\ number[current] \in Nat
        BY <1>2 DEF Known, Exists, TypeOK
      <4> QED
        BY <1>2, <1>3, <1>4, <3>1, <4>1, <4>2 DEF TypeOK
    <3>2. CASE v # NewId
      <4>1. origin[v] = {m} /\ number'[v] = number[v] /\ m # n
        BY <1>2, <1>5, <2>1, <3>2
      <4>2. task'[m] = task[m] /\ task[m].version \in Version /\ task[m].version # NewId
        BY <1>2, <1>3, <4>1 DEF Known, Exists, TypeOK, Task
      <4> QED
        BY <1>2, <4>1, <4>2 DEF Superseded, Exists
    <3> QED
      BY <3>1, <3>2
  <2> QED
    BY <2>1 DEF Superseded, Exists
<1> QED
  BY <1>2, <1>6, <1>7, <1>8, <1>9

\* Taking the lock: the number read is that of the current version.
LEMMA AcquireKeeps ==
  ASSUME Inv, NEW x, Acquire(x), UNCHANGED <<current, versions>>
  PROVE  Read'
BY LatestIsCurrent DEF Inv, Protocol, Acquire, Read, versions

\* A task whose comparison succeeds holds the lock.
LEMMA LockKeeps ==
  ASSUME Inv, NEW n \in Note, InterpretLock(n)
  PROVE  Protocol'
<1> USE DEF Inv, Protocol
<1>1. /\ Acquire(n) /\ TaskTo(n, "locked") /\ task[n].at = "queued"
      /\ current = task[n].version
      /\ UNCHANGED <<current, number, origin, request>>
  BY DEF InterpretLock, TaskAt, versions
<1>2. /\ \A m \in Note : m # n => task'[m] = task[m]
      /\ task'[n].at = "locked" /\ task'[n].version = task[n].version
  BY <1>1, TaskToEffect DEF TypeOK, TaskStep
<1>3. Read'
  BY <1>1, AcquireKeeps DEF versions
<1>4. CurrentIsNewest' /\ NoteForksOnce' /\ Known'
  BY <1>1, <1>2 DEF CurrentIsNewest, NoteForksOnce, Known, Exists
<1>5. Compared'
  BY <1>1, <1>2 DEF Compared, Acquire
<1>6. Sent'
  BY <1>1, <1>2 DEF Sent
<1>7. Superseded'
  BY <1>1, <1>2 DEF Superseded, Exists
<1> QED
  BY <1>3, <1>4, <1>5, <1>6, <1>7

\* The message of a note is sent once or lost, before any fork of it.
LEMMA DispatchKeeps ==
  ASSUME Inv, NEW n \in Note, FeedbackDispatch(n) \/ FeedbackDispatchLost(n)
  PROVE  Protocol'
<1> USE DEF Inv, Protocol
<1>1. /\ request[n] = "committed"
      /\ \/ task' = [task EXCEPT ![n] = NewTask(current)]
         \/ task' = [task EXCEPT ![n] = IdleTask("lost")]
      /\ request' = [request EXCEPT ![n] = "done"]
      /\ UNCHANGED <<current, number, origin, lock, latest>>
  BY DEF FeedbackDispatch, FeedbackDispatchLost, versions, locking
<1>2. /\ \A m \in Note : m # n => task'[m] = task[m] /\ request'[m] = request[m]
      /\ request'[n] = "done"
      /\ task'[n].at \in {"queued", "lost"} /\ task'[n].version \in {current, First}
  BY <1>1, FreshTypes DEF TypeOK, TaskStep, Asker
<1>3. task[n].at = "none"
  BY <1>1 DEF Sent
<1>4. CurrentIsNewest' /\ NoteForksOnce' /\ Known' /\ Read'
  BY <1>1, <1>2 DEF CurrentIsNewest, NoteForksOnce, Known, Read, Exists
<1>5. Compared' /\ Sent'
  BY <1>1, <1>2 DEF Compared, Sent
<1>6. Superseded'
  BY <1>1, <1>2, <1>3 DEF Superseded, Exists
<1> QED
  BY <1>4, <1>5, <1>6

\* The other steps of the API.
LEMMA ApiKeeps == ASSUME Inv, Api PROVE Protocol'
<1>1. ASSUME NEW r \in Regen, RegenerateLock(r) PROVE Protocol'
  <2> USE DEF Inv, Protocol
  <2>1. /\ Acquire(r) /\ UNCHANGED <<current, number, origin, task>> /\ lock = {}
        /\ \A n \in Note : request'[n] = request[n]
    BY <1>1, LifecycleAssumption DEF RegenerateLock, Acquire, versions, TypeOK, Asker
  <2>2. Read'
    BY <2>1, AcquireKeeps DEF versions
  <2>3. CurrentIsNewest' /\ NoteForksOnce' /\ Known' /\ Compared' /\ Sent' /\ Superseded'
    BY <2>1 DEF CurrentIsNewest, NoteForksOnce, Known, Compared, Sent, Superseded, Exists
  <2> QED
    BY <2>2, <2>3
<1>2. ASSUME NEW r \in Regen, RegenerateCommit(r) PROVE Protocol'
  BY <1>2, RegenerateKeeps
<1>3. ASSUME NEW r \in Regen, RegenerateRefused(r) PROVE Protocol'
  <2> USE DEF Inv, Protocol
  <2>1. /\ Rollback(r) /\ UNCHANGED <<current, number, origin, task>>
        /\ \A n \in Note : n # r /\ request'[n] = request[n]
    BY <1>3, LifecycleAssumption DEF RegenerateRefused, versions, TypeOK, Asker
  <2>2. Read' /\ \A n \in Note : lock = {n} => lock' = {n}
    BY <2>1, RollbackKeeps DEF versions
  <2>3. CurrentIsNewest' /\ NoteForksOnce' /\ Known' /\ Compared' /\ Sent' /\ Superseded'
    BY <2>1, <2>2 DEF CurrentIsNewest, NoteForksOnce, Known, Compared, Sent, Superseded, Exists
  <2> QED
    BY <2>2, <2>3
<1>4. ASSUME NEW n \in Note, FeedbackDispatch(n) \/ FeedbackDispatchLost(n) PROVE Protocol'
  BY <1>4, DispatchKeeps
<1>5. ASSUME NEW n \in Note, FeedbackCheck(n) \/ FeedbackCommit(n) PROVE Protocol'
  <2>1. /\ UNCHANGED <<current, versions, locking, task>>
        /\ \A m \in Note : request[m] = "done" => request'[m] = "done"
    BY <1>5 DEF FeedbackCheck, FeedbackCommit, Inv, TypeOK, Asker
  <2> QED
    BY <2>1, QuietKeeps
<1>6. ASSUME NEW v \in Version, Dispatch(v) \/ DispatchLost(v) PROVE Protocol'
  <2>1. UNCHANGED <<current, versions, locking, task, request>>
    BY <1>6 DEF Dispatch, DispatchLost
  <2> QED
    BY <2>1, QuietKeeps
<1> QED
  BY <1>1, <1>2, <1>3, <1>4, <1>5, <1>6 DEF Api

-------------------------------------------------------------------------------
(* Theorems                                                                  *)

\* The lock and the fork of an interpreter are well typed.
LEMMA LockTypes ==
  ASSUME TypeOK, CurrentIsNewest, NEW n \in Note, InterpretLock(n) \/ InterpretCommit(n)
  PROVE  TypeOK'
<1>0. task \in [Note -> Task]
  BY DEF TypeOK
<1>1. CASE InterpretLock(n)
  <2>1. task' \in [Note -> Task]
    BY <1>0, <1>1, TaskToEffect DEF InterpretLock, TaskStep
  <2>2. latest' \in Nat /\ lock' \in {{}} \cup {{x} : x \in Note \cup Regen}
    BY <1>1, LatestIsCurrent DEF InterpretLock, Acquire, TypeOK
  <2> QED
    BY <1>1, <2>1, <2>2 DEF InterpretLock, TypeOK, versions, review, history
<1>2. CASE InterpretCommit(n)
  <2>1. task' \in [Note -> Task]
    BY <1>0, <1>2, TaskToEffect DEF InterpretCommit, TaskStep
  <2>2. Fork(n, {n}) /\ UNCHANGED <<request, episode>>
    BY <1>2 DEF InterpretCommit
  <2>3. note' \in [Note -> [status: {"none", "pending", "applied", "failed"}, version: Version]]
    BY <1>2 DEF InterpretCommit, TypeOK
  <2> QED
    BY <2>1, <2>2, <2>3, ForkTypes DEF TypeOK
<1> QED
  BY <1>1, <1>2

\* A created story satisfies the invariant.
LEMMA InitInv == Init => Inv
<1> SUFFICES ASSUME Init PROVE Inv
  OBVIOUS
<1>1. First \in Version /\ MaxFaults \in Nat
  BY LifecycleAssumption
<1>2. IdleTask("none") \in Task /\ IdleTask("none").at = "none" /\ IdleTask("none").version = First
  BY FreshTypes DEF TaskStep
<1>3. branch \in [Version -> Branch]
  BY FreshTypes DEF Init, BranchStep
<1>4. TypeOK
  <2>1. NoUpdate \in Update /\ hides \in Hidden
    BY DEF Init, NoUpdate, Update, Hidden
  <2> QED
    BY <1>1, <1>2, <1>3, <2>1 DEF Init, TypeOK, Status
<1>5. Protocol
  <2>1. /\ \A v \in Version : number[v] = (IF v = First THEN 1 ELSE 0) /\ origin[v] = {}
        /\ \A n \in Note : task[n].at = "none" /\ task[n].version = First
        /\ current = First /\ lock = {}
    BY <1>2 DEF Init
  <2>2. CurrentIsNewest
    BY <1>1, <2>1 DEF CurrentIsNewest, Exists
  <2>3. NoteForksOnce /\ Superseded
    <3>1. \A n \in Note, v \in Version : origin[v] # {n}
      BY <2>1
    <3> QED
      BY <3>1 DEF NoteForksOnce, Superseded
  <2>4. Known /\ Read /\ Compared /\ Sent
    BY <1>1, <2>1 DEF Known, Read, Compared, Sent, Exists
  <2> QED
    BY <2>2, <2>3, <2>4 DEF Protocol
<1> QED
  BY <1>4, <1>5 DEF Inv

\* Every step keeps it.
LEMMA NextInv == Inv /\ [Next]_vars => Inv'
<1> SUFFICES ASSUME Inv, [Next]_vars PROVE Inv'
  OBVIOUS
<1>0. TypeOK /\ CurrentIsNewest
  BY DEF Inv, Protocol
<1>1. CASE Api
  BY <1>0, <1>1, ApiTypes, ApiKeeps DEF Inv
<1>2. ASSUME NEW n \in Note, Interpret(n) \/ InterpretSendFails(n) \/ InterpretLost(n)
      PROVE  Inv'
  <2>1. CASE InterpretLock(n)
    BY <1>0, <2>1, LockTypes, LockKeeps DEF Inv
  <2>2. CASE InterpretCommit(n)
    BY <1>0, <2>2, LockTypes, InterpretKeeps DEF Inv
  <2>3. CASE \/ InterpretRefused(n) \/ InterpretFails(n) \/ InterpretSuperseded(n)
             \/ InterpretSend(n) \/ InterpretSendFails(n) \/ FailRead(n) \/ FailWrite(n)
             \/ FailUnrecorded(n) \/ InterpretAck(n) \/ InterpretLost(n)
    <3>1. TypeOK' /\ Later(n)
      BY <1>0, <2>3, InterpretLater
    <3> QED
      BY <3>1, LaterKeeps DEF Inv
  <2> QED
    BY <1>2, <2>1, <2>2, <2>3 DEF Interpret
<1>3. ASSUME NEW v \in Version, Work(v) \/ WorkUnsent(v) \/ BranchLost(v) PROVE Inv'
  <2>1. TypeOK' /\ UNCHANGED <<current, versions, locking, request, task>>
    BY <1>0, <1>3, WorkTypes
  <2> QED
    BY <2>1, QuietKeeps DEF Inv
<1>5. ASSUME NEW a \in Review, Flag(a) \/ Unflag(a) \/ ReviewCommit(a) PROVE Inv'
  <2>1. TypeOK' /\ UNCHANGED <<current, versions, locking, task>>
    BY <1>0, <1>5, ReviewTypes
  <2>2. request' = request \/ request' = [request EXCEPT ![a] = "done"]
    BY <1>5 DEF Flag, Unflag, Decide, ReviewCommit
  <2>3. \A n \in Note : request[n] = "done" => request'[n] = "done"
    BY <1>0, <2>2 DEF TypeOK, Asker
  <2> QED
    BY <2>1, <2>3, QuietKeeps DEF Inv
<1>4. CASE UNCHANGED vars
  <2>1. TypeOK'
    BY <1>0, <1>4 DEF TypeOK, vars
  <2>2. UNCHANGED <<current, versions, locking, request, task>>
    BY <1>4 DEF vars, versions, locking
  <2> QED
    BY <2>1, <2>2, QuietKeeps DEF Inv
<1> QED
  BY <1>1, <1>2, <1>3, <1>4, <1>5 DEF Next

\* Every variable keeps its type, for every set of versions, notes and requests.
THEOREM TypeCorrect == Spec => []TypeOK
<1>1. Inv => TypeOK
  BY DEF Inv
<1> QED
  BY <1>1, InitInv, NextInv, PTL DEF Spec

\* Labels are unique and the pointer is at the newest version, however requests,
\* interpreters and lost workers interleave.
THEOREM NoForkLost == Spec => []CurrentIsNewest
<1>1. Inv => CurrentIsNewest
  BY DEF Inv, Protocol
<1> QED
  BY <1>1, InitInv, NextInv, PTL DEF Spec

\* A note makes one version at most, however often it is retried or redelivered.
THEOREM OneFork == Spec => []NoteForksOnce
<1>1. Inv => NoteForksOnce
  BY DEF Inv, Protocol
<1> QED
  BY <1>1, InitInv, NextInv, PTL DEF Spec

-------------------------------------------------------------------------------
(* A ready story shows an episode of the version it points to                *)

\* A branch is about to mark the story ready only with its episode on record.
MarkedReady == \A v \in Version : branch[v].mark = "ready" => v \in episode

ReadyShown == status = "ready" => current \in episode

\* Who is about to write a status has read a pointer that still holds.
WritesCurrent == \A v \in Version : branch[v].at = "writing" => current = v

RestoresCurrent ==
  \A n \in Note : task[n].at = "recording" /\ task[n].restore => current = note[n].version

\* A note is written about a version that has been shown.
NotesOnEpisodes == \A n \in Note : request[n] # "none" => note[n].version \in episode

\* A flag hides, or a review is about to write, that the story is ready of a version shown.
HiddenShown == ReadyHidden => current \in episode

\* A fork has overtaken somebody who still holds what he had read of the older version.
Overtaken == races \cap {"stale_mark", "stale_flag"} # {}

ReadyInv ==
  /\ MarkedReady
  /\ \/ Overtaken
     \/ ReadyShown /\ WritesCurrent /\ RestoresCurrent /\ NotesOnEpisodes /\ HiddenShown

\* The race lost by a fork stays in the history.
LEMMA LoseKeeps == ASSUME NEW kinds, Lose(kinds) PROVE races \subseteq races'
BY DEF Lose

\* What the work of a version does to the status, the branches and the episodes.
LEMMA WorkEffect ==
  ASSUME TypeOK, NEW v \in Version, Work(v) \/ WorkUnsent(v) \/ BranchLost(v)
  PROVE  /\ UNCHANGED <<current, request, note, task, hides, decision, races>>
         /\ episode \subseteq episode'
         /\ \A w \in Version : w # v => branch'[w] = branch[w]
         /\ branch'[v].mark = "ready" => branch[v].mark = "ready" \/ v \in episode'
         /\ branch'[v].at = "writing" => current = v
         /\ \/ status' = status
            \/ branch[v].at = "writing" /\ status' = branch[v].mark
<1> USE DEF review, history
<1>0. branch \in [Version -> Branch] /\ branch[v] \in Branch
  BY DEF TypeOK
<1>1. ASSUME NEW b, branch' = [branch EXCEPT ![v] = b]
      PROVE  branch'[v] = b /\ \A w \in Version : w # v => branch'[w] = branch[w]
  BY <1>0, <1>1
<1>2. CASE \/ StagesDone(v) \/ StagesRefused(v) \/ MediaBroken(v) \/ WorkUnsent(v)
           \/ BranchOver(v)
  <2>1. PICK t \in Phase, s \in {"running", "over", "unmarked", "lost"} :
          \/ branch' = [branch EXCEPT ![v] = [IdleBranch(s) EXCEPT !.task = t]]
          \/ branch' = [branch EXCEPT ![v] = IdleBranch(s)]
    BY <1>2 DEF StagesDone, StagesRefused, MediaBroken, Unmarked, WorkUnsent, BranchOver, Start,
                Phase
  <2>2. \/ branch'[v] = [IdleBranch(s) EXCEPT !.task = t]
        \/ branch'[v] = IdleBranch(s)
    BY <1>1, <2>1
  <2>3. branch'[v].mark = "failed" /\ branch'[v].at # "writing"
    BY <2>2 DEF IdleBranch, NewBranch
  <2> QED
    BY <1>1, <1>2, <2>1, <2>3 DEF StagesDone, StagesRefused, MediaBroken, Unmarked, WorkUnsent,
                                  BranchOver
<1>3. CASE StagesFail(v) \/ AssemblyFails(v) \/ Assembled(v)
  <2>1. PICK m \in {"failed", "ready"} :
          /\ branch' = [branch EXCEPT ![v] = [branch[v] EXCEPT !.at = "marking", !.mark = m]]
          /\ m = "ready" => episode' = episode \cup {v}
    BY <1>3 DEF StagesFail, AssemblyFails, Assembled, MarkWith
  <2>2. branch'[v].mark = m /\ branch'[v].at = "marking"
    BY <1>0, <1>1, <2>1 DEF Branch
  <2> QED
    BY <1>1, <1>3, <2>1, <2>2 DEF StagesFail, AssemblyFails, Assembled
<1>4. CASE MarkRead(v)
  <2>1. branch'[v].mark = branch[v].mark /\ (branch'[v].at = "writing" => current = v)
    BY <1>0, <1>4 DEF MarkRead, Branch
  <2> QED
    BY <1>0, <1>4, <2>1 DEF MarkRead
<1>5. CASE MarkWrite(v)
  BY <1>0, <1>5 DEF MarkWrite, Branch
<1>6. CASE BranchRetry(v) \/ BranchLost(v)
  <2>1. branch'[v].mark = "failed" /\ branch'[v].at = "running"
    BY <1>0, <1>6 DEF BranchRetry, BranchLost, Branch
  <2> QED
    BY <1>0, <1>6, <2>1 DEF BranchRetry, BranchLost
<1> QED
  BY <1>1, <1>2, <1>3, <1>4, <1>5, <1>6 DEF Work

\* A branch marks the story while the pointer it has read still holds.
LEMMA WorkReady ==
  ASSUME TypeOK, ReadyInv, NEW v \in Version, Work(v) \/ WorkUnsent(v) \/ BranchLost(v)
  PROVE  ReadyInv'
<1>1. /\ UNCHANGED <<current, request, note, task, hides, decision, races>>
      /\ episode \subseteq episode'
      /\ \A w \in Version : w # v => branch'[w] = branch[w]
      /\ branch'[v].mark = "ready" => branch[v].mark = "ready" \/ v \in episode'
      /\ branch'[v].at = "writing" => current = v
      /\ \/ status' = status
         \/ branch[v].at = "writing" /\ status' = branch[v].mark
  BY WorkEffect
<1>2. MarkedReady'
  BY <1>1 DEF ReadyInv, MarkedReady
<1>3. ASSUME ~Overtaken
      PROVE  (ReadyShown /\ WritesCurrent /\ RestoresCurrent /\ NotesOnEpisodes /\ HiddenShown)'
  <2>1. /\ MarkedReady /\ ReadyShown /\ WritesCurrent /\ RestoresCurrent /\ NotesOnEpisodes
        /\ HiddenShown
    BY <1>3 DEF ReadyInv
  <2>2. ReadyShown'
    BY <1>1, <2>1 DEF ReadyShown, WritesCurrent, MarkedReady
  <2>3. WritesCurrent'
    BY <1>1, <2>1 DEF WritesCurrent
  <2>4. RestoresCurrent' /\ NotesOnEpisodes' /\ HiddenShown'
    BY <1>1, <2>1 DEF RestoresCurrent, NotesOnEpisodes, HiddenShown, ReadyHidden
  <2> QED
    BY <2>2, <2>3, <2>4
<1> QED
  BY <1>1, <1>2, <1>3 DEF ReadyInv, Overtaken

\* What an interpreter does short of its fork to the status, the branches and the rows.
LEMMA InterpretEffect ==
  ASSUME TypeOK, NEW n \in Note,
         \/ InterpretRefused(n) \/ InterpretFails(n) \/ InterpretSuperseded(n)
         \/ InterpretSend(n) \/ InterpretSendFails(n) \/ FailRead(n) \/ FailWrite(n)
         \/ FailUnrecorded(n) \/ InterpretAck(n) \/ InterpretLost(n) \/ InterpretLock(n)
  PROVE  /\ UNCHANGED <<current, request, episode, hides, decision, races>>
         /\ \A v \in Version : /\ branch'[v].mark = branch[v].mark
                               /\ branch'[v].at = "writing" => branch[v].at = "writing"
         /\ \A m \in Note : note'[m].version = note[m].version
         /\ \A m \in Note : m # n => task'[m] = task[m]
         /\ task'[n].at = "recording" /\ task'[n].restore => current = note[n].version
         /\ \/ status' = status
            \/ status' = "ready" /\ task[n].at = "recording" /\ task[n].restore
<1> USE DEF versions, locking, review, history
<1>0. /\ branch \in [Version -> Branch] /\ task \in [Note -> Task] /\ task[n] \in Task
      /\ note \in [Note -> [status: {"none", "pending", "applied", "failed"}, version: Version]]
  BY DEF TypeOK
<1>1. CASE InterpretRefused(n) \/ InterpretSuperseded(n) \/ InterpretLock(n)
  <2>1. TaskTo(n, "failing") \/ TaskTo(n, "locked")
    BY <1>1 DEF InterpretRefused, InterpretSuperseded, InterpretLock
  <2>2. task'[n].at # "recording" /\ \A m \in Note : m # n => task'[m] = task[m]
    BY <1>0, <2>1, TaskToEffect DEF TaskStep
  <2> QED
    BY <1>1, <2>2 DEF InterpretRefused, InterpretSuperseded, InterpretLock
<1>2. CASE InterpretFails(n)
  BY <1>0, <1>2, RetryEffect DEF InterpretFails
<1>3. CASE InterpretSend(n)
  <2>1. task'[n].at # "recording" /\ \A m \in Note : m # n => task'[m] = task[m]
    BY <1>0, <1>3, TaskToEffect DEF InterpretSend, TaskStep
  <2>2. \A v \in Version : /\ branch'[v].mark = branch[v].mark
                           /\ branch'[v].at = "writing" => branch[v].at = "writing"
    BY <1>0, <1>3 DEF InterpretSend, Branch
  <2> QED
    BY <1>3, <2>1, <2>2 DEF InterpretSend
<1>4. ASSUME Abandon(n)
      PROVE  \A v \in Version : /\ branch'[v].mark = branch[v].mark
                                /\ branch'[v].at = "writing" => branch[v].at = "writing"
  BY <1>0, <1>4 DEF Abandon, Branch
<1>5. CASE InterpretSendFails(n)
  BY <1>0, <1>4, <1>5, RetryEffect DEF InterpretSendFails
<1>6. CASE FailRead(n)
  <2>1. task'[n].restore => current = note[n].version
    BY <1>0, <1>6 DEF FailRead, Task
  <2> QED
    BY <1>0, <1>6, <2>1 DEF FailRead
<1>7. CASE FailWrite(n)
  <2>1. task'[n].at # "recording" /\ \A m \in Note : m # n => task'[m] = task[m]
    BY <1>0, <1>7 DEF FailWrite, Task
  <2>2. \A m \in Note : note'[m].version = note[m].version
    BY <1>0, <1>7 DEF FailWrite
  <2> QED
    BY <1>7, <2>1, <2>2 DEF FailWrite, TaskAt
<1>8. CASE InterpretAck(n)
  BY <1>0, <1>8, FreshTypes DEF InterpretAck, TaskStep
<1>9. CASE InterpretLost(n)
  <2>1. task'[n].at # "recording" /\ \A m \in Note : m # n => task'[m] = task[m]
    BY <1>0, <1>9 DEF InterpretLost, Task
  <2> QED
    BY <1>4, <1>9, <2>1 DEF InterpretLost
<1>10. CASE FailUnrecorded(n)
  <2>1. task'[n].at # "recording" /\ \A m \in Note : m # n => task'[m] = task[m]
    BY <1>0, <1>10 DEF FailUnrecorded, Task
  <2> QED
    BY <1>10, <2>1 DEF FailUnrecorded
<1> QED
  BY <1>1, <1>2, <1>3, <1>5, <1>6, <1>7, <1>8, <1>9, <1>10

\* A failed note makes the story ready again while the pointer is at the version it names,
\* which has been shown.
LEMMA InterpretReady ==
  ASSUME Inv, ReadyInv, NEW n \in Note,
         \/ InterpretRefused(n) \/ InterpretFails(n) \/ InterpretSuperseded(n)
         \/ InterpretSend(n) \/ InterpretSendFails(n) \/ FailRead(n) \/ FailWrite(n)
         \/ FailUnrecorded(n) \/ InterpretAck(n) \/ InterpretLost(n) \/ InterpretLock(n)
  PROVE  ReadyInv'
<1>0. TypeOK /\ Sent
  BY DEF Inv, Protocol
<1>1. /\ UNCHANGED <<current, request, episode, hides, decision, races>>
      /\ \A v \in Version : /\ branch'[v].mark = branch[v].mark
                            /\ branch'[v].at = "writing" => branch[v].at = "writing"
      /\ \A m \in Note : note'[m].version = note[m].version
      /\ \A m \in Note : m # n => task'[m] = task[m]
      /\ task'[n].at = "recording" /\ task'[n].restore => current = note[n].version
      /\ \/ status' = status
         \/ status' = "ready" /\ task[n].at = "recording" /\ task[n].restore
  BY <1>0, InterpretEffect
<1>2. MarkedReady'
  BY <1>1 DEF ReadyInv, MarkedReady
<1>3. ASSUME ~Overtaken
      PROVE  (ReadyShown /\ WritesCurrent /\ RestoresCurrent /\ NotesOnEpisodes /\ HiddenShown)'
  <2>1. ReadyShown /\ WritesCurrent /\ RestoresCurrent /\ NotesOnEpisodes /\ HiddenShown
    BY <1>3 DEF ReadyInv
  <2>2. ReadyShown'
    <3>1. CASE status' = status
      BY <1>1, <2>1, <3>1 DEF ReadyShown
    <3>2. CASE task[n].at = "recording" /\ task[n].restore
      <4>1. request[n] # "none" /\ current = note[n].version
        BY <1>0, <2>1, <3>2 DEF Sent, RestoresCurrent
      <4> QED
        BY <1>1, <2>1, <4>1 DEF ReadyShown, NotesOnEpisodes
    <3> QED
      BY <1>1, <3>1, <3>2
  <2>3. WritesCurrent'
    BY <1>1, <2>1 DEF WritesCurrent
  <2>4. RestoresCurrent'
    BY <1>1, <2>1 DEF RestoresCurrent
  <2>5. NotesOnEpisodes' /\ HiddenShown'
    BY <1>1, <2>1 DEF NotesOnEpisodes, HiddenShown, ReadyHidden
  <2> QED
    BY <2>2, <2>3, <2>4, <2>5
<1> QED
  BY <1>1, <1>2, <1>3 DEF ReadyInv, Overtaken

\* A fork moves the pointer under nobody who is about to write, or the race is lost.
LEMMA ForkReady ==
  ASSUME TypeOK, ReadyInv, NEW x, NEW notes, Fork(x, notes), UNCHANGED episode,
         \A n \in Note : /\ note'[n].version = note[n].version
                         /\ request'[n] # "none" => request[n] # "none"
                         /\ task'[n].at = "recording" => task'[n] = task[n]
  PROVE  ReadyInv'
<1>1. /\ NewId \in Version /\ current' = NewId /\ status' = "generating"
      /\ branch' = [branch EXCEPT ![NewId] = NewBranch]
      /\ Lose((IF ReadPending THEN {"stale_mark"} ELSE {})
              \cup (IF ReadyHidden THEN {"stale_flag"} ELSE {}))
      /\ UNCHANGED <<hides, decision>>
  BY FreshId DEF Fork, review
<1>2. races \subseteq races'
  BY <1>1, LoseKeeps
<1>3. /\ branch'[NewId].mark = "failed" /\ branch'[NewId].at = "unsent"
      /\ \A v \in Version : v # NewId => branch'[v] = branch[v]
  BY <1>1 DEF TypeOK, NewBranch
<1>4. MarkedReady'
  BY <1>3 DEF ReadyInv, MarkedReady
<1>5. CASE ReadPending \/ ReadyHidden
  <2>1. "stale_mark" \in races' \/ "stale_flag" \in races'
    BY <1>1, <1>5 DEF Lose
  <2> QED
    BY <1>4, <2>1 DEF ReadyInv, Overtaken
<1>6. ASSUME ~ReadPending, ~ReadyHidden, ~Overtaken
      PROVE  (ReadyShown /\ WritesCurrent /\ RestoresCurrent /\ NotesOnEpisodes /\ HiddenShown)'
  <2>1. ReadyShown' /\ WritesCurrent' /\ RestoresCurrent'
    BY <1>1, <1>3, <1>6 DEF ReadPending, ReadyShown, WritesCurrent, RestoresCurrent
  <2>2. NotesOnEpisodes'
    BY <1>6 DEF ReadyInv, NotesOnEpisodes
  <2>3. HiddenShown'
    BY <1>1, <1>6 DEF HiddenShown, ReadyHidden
  <2> QED
    BY <2>1, <2>2, <2>3
<1> QED
  BY <1>2, <1>4, <1>5, <1>6 DEF ReadyInv, Overtaken

\* A note is stored about the version that is ready when it is checked.
LEMMA ApiReady == ASSUME Inv, ReadyInv, Api PROVE ReadyInv'
<1> USE DEF versions, locking, review, history, Asker
<1>0. /\ TypeOK /\ Sent
      /\ branch \in [Version -> Branch] /\ Note \cap Regen = {}
      /\ request \in [Asker -> {"none", "checked", "locked", "committed", "done"}]
      /\ note \in [Note -> [status: {"none", "pending", "applied", "failed"}, version: Version]]
  BY LifecycleAssumption DEF Inv, Protocol, TypeOK
<1>1. ASSUME UNCHANGED <<current, episode, hides, decision>>, races \subseteq races',
             status' = status \/ status' = "generating",
             \A v \in Version : /\ branch'[v].mark = branch[v].mark
                                /\ branch'[v].at = "writing" => branch[v].at = "writing",
             \A n \in Note : /\ note'[n].version = note[n].version
                             /\ request'[n] # "none" => request[n] # "none"
                             /\ task'[n].at = "recording" => task'[n] = task[n]
      PROVE  ReadyInv'
  <2>1. MarkedReady'
    BY <1>1 DEF ReadyInv, MarkedReady
  <2>2. ASSUME ~Overtaken
        PROVE  (ReadyShown /\ WritesCurrent /\ RestoresCurrent /\ NotesOnEpisodes /\ HiddenShown)'
    BY <1>1, <2>2 DEF ReadyInv, ReadyShown, WritesCurrent, RestoresCurrent, NotesOnEpisodes,
                      HiddenShown, ReadyHidden
  <2> QED
    BY <1>1, <2>1, <2>2 DEF ReadyInv, Overtaken
<1>2. ASSUME NEW r \in Regen, RegenerateLock(r) \/ RegenerateRefused(r) PROVE ReadyInv'
  <2>1. \A n \in Note : request'[n] = request[n]
    BY <1>0, <1>2 DEF RegenerateLock, RegenerateRefused
  <2> QED
    BY <1>1, <1>2, <2>1 DEF RegenerateLock, RegenerateRefused
<1>3. ASSUME NEW r \in Regen, RegenerateCommit(r) PROVE ReadyInv'
  <2>1. \A n \in Note : request'[n] = request[n]
    BY <1>0, <1>3 DEF RegenerateCommit
  <2> QED
    BY <1>0, <1>3, <2>1, ForkReady DEF RegenerateCommit
<1>4. ASSUME NEW n \in Note, FeedbackCheck(n) PROVE ReadyInv'
  <2>1. /\ status = "ready" /\ request[n] = "none" /\ note'[n].version = current
        /\ \A m \in Note : m # n => note'[m] = note[m] /\ request'[m] = request[m]
        /\ UNCHANGED <<status, current, episode, branch, task, hides, decision, races>>
    BY <1>0, <1>4 DEF FeedbackCheck
  <2>2. task[n].at = "none"
    BY <1>0, <2>1 DEF Sent
  <2> QED
    BY <2>1, <2>2 DEF ReadyInv, Overtaken, MarkedReady, ReadyShown, WritesCurrent,
                      RestoresCurrent, NotesOnEpisodes, HiddenShown, ReadyHidden
<1>5. ASSUME NEW n \in Note, FeedbackCommit(n) PROVE ReadyInv'
  <2>1. /\ \A m \in Note : request'[m] # "none" => request[m] # "none"
        /\ \A m \in Note : note'[m].version = note[m].version
    BY <1>0, <1>5 DEF FeedbackCommit
  <2>2. races \subseteq races'
    BY <1>5, LoseKeeps DEF FeedbackCommit
  <2> QED
    BY <1>1, <1>5, <2>1, <2>2 DEF FeedbackCommit
<1>6. ASSUME NEW n \in Note, FeedbackDispatch(n) PROVE ReadyInv'
  <2>1. \A m \in Note : request'[m] # "none" => request[m] # "none"
    BY <1>0, <1>6 DEF FeedbackDispatch
  <2>2. \A m \in Note : task'[m].at = "recording" => task'[m] = task[m]
    BY <1>0, <1>6, FreshTypes DEF FeedbackDispatch, TypeOK
  <2> QED
    BY <1>1, <1>6, <2>1, <2>2 DEF FeedbackDispatch
<1>7. ASSUME NEW n \in Note, FeedbackDispatchLost(n) PROVE ReadyInv'
  <2>1. \A m \in Note : request'[m] # "none" => request[m] # "none"
    BY <1>0, <1>7 DEF FeedbackDispatchLost
  <2>2. \A m \in Note : task'[m].at = "recording" => task'[m] = task[m]
    BY <1>0, <1>7, FreshTypes DEF FeedbackDispatchLost, TypeOK, TaskStep
  <2> QED
    BY <1>1, <1>7, <2>1, <2>2 DEF FeedbackDispatchLost
<1>8. ASSUME NEW v \in Version, Dispatch(v) \/ DispatchLost(v) PROVE ReadyInv'
  <2>2. \A w \in Version : /\ branch'[w].mark = branch[w].mark
                           /\ branch'[w].at = "writing" => branch[w].at = "writing"
    BY <1>0, <1>8 DEF Dispatch, DispatchLost, Branch
  <2> QED
    BY <1>1, <1>8, <2>2 DEF Dispatch, DispatchLost
<1> QED
  BY <1>2, <1>3, <1>4, <1>5, <1>6, <1>7, <1>8 DEF Api

\* A flag hides the status it has replaced; a review that clears it writes that back, or
\* ready if the current version has its episode.
LEMMA ReviewReady ==
  ASSUME Inv, ReadyInv, NEW a \in Review, Flag(a) \/ Unflag(a) \/ ReviewCommit(a)
  PROVE  ReadyInv'
<1>0. /\ TypeOK /\ decision \in [Review -> Update] /\ hides \in Hidden
      /\ request \in [Asker -> {"none", "checked", "locked", "committed", "done"}]
      /\ \A n \in Note : n # a
  BY LifecycleAssumption DEF Inv, TypeOK
<1>1. /\ UNCHANGED <<current, note, task, branch, episode, races>>
      /\ \A n \in Note : request'[n] = request[n]
  <2>1. /\ UNCHANGED <<current, note, task, branch, episode, races>>
        /\ request' = request \/ request' = [request EXCEPT ![a] = "done"]
    BY DEF Flag, Unflag, Decide, ReviewCommit, history
  <2> QED
    BY <1>0, <2>1 DEF Asker
<1>2. MarkedReady'
  BY <1>1 DEF ReadyInv, MarkedReady
<1>3. ASSUME ~Overtaken
      PROVE  (ReadyShown /\ WritesCurrent /\ RestoresCurrent /\ NotesOnEpisodes /\ HiddenShown)'
  <2>1. ReadyShown /\ WritesCurrent /\ RestoresCurrent /\ NotesOnEpisodes /\ HiddenShown
    BY <1>3 DEF ReadyInv
  <2>2. WritesCurrent' /\ RestoresCurrent' /\ NotesOnEpisodes'
    BY <1>1, <2>1 DEF WritesCurrent, RestoresCurrent, NotesOnEpisodes
  <2>3. ASSUME NEW s, NEW h, Decide(a, s, h), "ready" \in h => current \in episode,
               s = "ready" => current \in episode
        PROVE  ReadyShown' /\ HiddenShown'
    <3> DEFINE update == [status |-> Changed(status, s), hides |-> Changed(hides, h)]
    <3>1. /\ UNCHANGED <<status, hides>>
          /\ decision' = [decision EXCEPT ![a] = update]
      BY <2>3 DEF Decide
    <3>2. "ready" \in update.status \/ {"ready"} \in update.hides => current \in episode
      BY <2>3 DEF Changed
    <3> HIDE DEF update
    <3>3. \A b \in Review : "ready" \in decision'[b].status \/ {"ready"} \in decision'[b].hides
                           => current \in episode
      BY <1>0, <2>1, <3>1, <3>2 DEF HiddenShown, ReadyHidden
    <3> QED
      BY <1>1, <2>1, <3>1, <3>3 DEF ReadyShown, HiddenShown, ReadyHidden
  <2>4. CASE Flag(a)
    <3> DEFINE h == IF hides = {} THEN {status} ELSE hides
    <3>1. Decide(a, "flagged", h)
      BY <2>4 DEF Flag
    <3>2. "ready" \in h => current \in episode
      BY <2>1 DEF ReadyShown, HiddenShown, ReadyHidden
    <3> HIDE DEF h
    <3>3. ReadyShown' /\ HiddenShown'
      BY <2>3, <3>1, <3>2
    <3> QED
      BY <2>2, <3>3
  <2>5. CASE Unflag(a)
    <3>1. PICK s \in Restored : Decide(a, s, {})
      BY <2>5 DEF Unflag
    <3>2. s = "ready" => current \in episode
      BY <2>1 DEF Restored, HiddenShown, ReadyHidden
    <3>3. ReadyShown' /\ HiddenShown'
      BY <2>3, <3>1, <3>2
    <3> QED
      BY <2>2, <3>3
  <2>6. CASE ReviewCommit(a)
    <3>1. /\ status' = status \/ status' \in decision[a].status
          /\ hides' = hides \/ hides' \in decision[a].hides
          /\ decision' = [decision EXCEPT ![a] = NoUpdate]
      BY <2>6 DEF ReviewCommit
    <3>2. /\ "ready" \in decision[a].status => current \in episode
          /\ {"ready"} \in decision[a].hides => current \in episode
      BY <2>1 DEF HiddenShown, ReadyHidden
    <3>3. "ready" \in hides' => current \in episode
      <4>1. CASE hides' = hides
        BY <2>1, <4>1 DEF HiddenShown, ReadyHidden
      <4>2. CASE hides' \in decision[a].hides
        <5>1. hides' \in Hidden
          BY <1>0, <4>2 DEF Update
        <5>2. "ready" \in hides' => hides' = {"ready"}
          BY <5>1 DEF Hidden
        <5> QED
          BY <3>2, <4>2, <5>2
      <4> QED
        BY <3>1, <4>1, <4>2
    <3>4. \A b \in Review : "ready" \in decision'[b].status \/ {"ready"} \in decision'[b].hides
                           => current \in episode
      BY <1>0, <2>1, <3>1 DEF HiddenShown, ReadyHidden, NoUpdate
    <3>5. ReadyShown'
      BY <1>1, <2>1, <3>1, <3>2 DEF ReadyShown
    <3>6. HiddenShown'
      BY <1>1, <3>3, <3>4 DEF HiddenShown, ReadyHidden
    <3> QED
      BY <2>2, <3>5, <3>6
  <2> QED
    BY <2>4, <2>5, <2>6
<1> QED
  BY <1>1, <1>2, <1>3 DEF ReadyInv, Overtaken

\* A created story is not ready and nobody is about to write its status.
LEMMA InitReady == Init => ReadyInv
<1> SUFFICES ASSUME Init PROVE ReadyInv
  OBVIOUS
<1>1. \A v \in Version : branch[v].mark = "failed" /\ branch[v].at # "writing"
  BY DEF Init, IdleBranch, NewBranch
<1>2. \A n \in Note : task[n].at = "none" /\ request[n] = "none"
  BY FreshTypes DEF Init, TaskStep, Asker
<1>3. ~ReadyHidden
  <2>1. NoUpdate.status = {} /\ NoUpdate.hides = {}
    BY DEF NoUpdate
  <2>2. hides = {} /\ \A a \in Review : decision[a] = NoUpdate
    BY DEF Init
  <2> QED
    BY <2>1, <2>2 DEF ReadyHidden
<1> QED
  BY <1>1, <1>2, <1>3 DEF Init, ReadyInv, MarkedReady, ReadyShown, WritesCurrent,
                          RestoresCurrent, NotesOnEpisodes, HiddenShown

LEMMA NextReady == Inv /\ ReadyInv /\ [Next]_vars => ReadyInv'
<1> SUFFICES ASSUME Inv, ReadyInv, [Next]_vars PROVE ReadyInv'
  OBVIOUS
<1>0. TypeOK
  BY DEF Inv
<1>1. CASE Api
  BY <1>1, ApiReady
<1>2. ASSUME NEW n \in Note, Interpret(n) \/ InterpretSendFails(n) \/ InterpretLost(n)
      PROVE  ReadyInv'
  <2>1. CASE InterpretCommit(n)
    <3>1. Fork(n, {n}) /\ UNCHANGED <<request, episode>> /\ TaskTo(n, "forked")
      BY <2>1 DEF InterpretCommit
    <3>2. \A m \in Note : task'[m].at = "recording" => task'[m] = task[m]
      BY <1>0, <3>1, TaskToEffect DEF TypeOK, TaskStep
    <3>3. \A m \in Note : note'[m].version = note[m].version
      BY <1>0, <2>1 DEF InterpretCommit, TypeOK
    <3> QED
      BY <1>0, <3>1, <3>2, <3>3, ForkReady
  <2>2. CASE ~InterpretCommit(n)
    BY <1>2, <2>2, InterpretReady DEF Interpret
  <2> QED
    BY <2>1, <2>2
<1>3. ASSUME NEW v \in Version, Work(v) \/ WorkUnsent(v) \/ BranchLost(v) PROVE ReadyInv'
  BY <1>0, <1>3, WorkReady
<1>4. ASSUME NEW a \in Review, Flag(a) \/ Unflag(a) \/ ReviewCommit(a) PROVE ReadyInv'
  BY <1>4, ReviewReady
<1>5. CASE UNCHANGED vars
  BY <1>5 DEF vars, ReadyInv, Overtaken, MarkedReady, ReadyShown, WritesCurrent,
              RestoresCurrent, NotesOnEpisodes, HiddenShown, ReadyHidden
<1> QED
  BY <1>1, <1>2, <1>3, <1>4, <1>5 DEF Next

\* A ready story has the episode of its current version, for any number of versions, notes,
\* retries, reviews and lost workers, unless the story forked while a mark, a restore, a flag
\* or a review still held what had been read of the older version.
THEOREM ReadyHasEpisode == Spec => []ReadyIsCurrent
<1>1. ReadyInv => ReadyIsCurrent
  BY DEF ReadyInv, Overtaken, ReadyShown, ReadyIsCurrent
<1>2. Init => Inv /\ ReadyInv
  BY InitInv, InitReady
<1>3. Inv /\ ReadyInv /\ [Next]_vars => Inv' /\ ReadyInv'
  BY NextInv, NextReady
<1> QED
  BY <1>1, <1>2, <1>3, PTL DEF Spec

===============================================================================
