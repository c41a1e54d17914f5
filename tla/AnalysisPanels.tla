---------------------------- MODULE AnalysisPanels ----------------------------
(***************************************************************************)
(* A panel of the studio that orders an analysis of the story and follows  *)
(* it: the writers room, the cliffhanger optimizer, the story genome, and  *)
(* the plot hole hunter.  Every click makes a row, a worker fills it in,   *)
(* and the panel reads the list of rows when it appears, after a click,    *)
(* and at an interval while a row it knows is unfinished.                  *)
(*                                                                         *)
(* Lists are answered when the server gets to them and applied when they   *)
(* arrive, in any order; another tab may order analyses of the same story. *)
(***************************************************************************)
EXTENDS Naturals, Sequences, FiniteSetsExt, TLC

CONSTANTS
  MaxJobs,     (* bound: analyses of the story                            *)
  MaxTries,    (* attempts of one task                                    *)
  MaxReads,    (* bound: lists in flight                                  *)
  MaxFaults    (* bound: failed attempts, reads and requests, lost and    *)
               (* repeated deliveries, visits to another page             *)

\* What tells the four apart.  `follows`: any unfinished row keeps the interval going, or the
\* latest one; `inserts`: the accepted row is shown before the list is read again, and the click
\* lasts until that read; `exclusive`: an unfinished row is returned instead of a second one;
\* `between`: the status of a row whose attempt has failed and will be retried.
WritersRoomPanel ==
  [follows |-> "any", inserts |-> FALSE, exclusive |-> FALSE, between |-> "failed"]
CliffhangerPanel ==
  [follows |-> "any", inserts |-> FALSE, exclusive |-> FALSE, between |-> "failed"]
StoryGenomePanel ==
  [follows |-> "any", inserts |-> FALSE, exclusive |-> FALSE, between |-> "failed"]
ConsistencyPanel ==
  [follows |-> "latest", inserts |-> TRUE, exclusive |-> TRUE, between |-> "pending"]

Panels == {WritersRoomPanel, CliffhangerPanel, StoryGenomePanel, ConsistencyPanel}

VARIABLES
  panel,    \* the panel that is open
  jobs,     \* the rows, oldest first, each with what the queue and the workers have of it
  known,    \* the rows as the panel last heard of them, by position
  reads,    \* the lists in flight, oldest first
  click,    \* the request in flight, `working` until it is "idle"
  started,  \* history: the rows this panel was told it had started
  faults,   \* faults so far
  races     \* history: the races that have been lost

vars == <<panel, jobs, known, reads, click, started, faults, races>>

Status == {"pending", "running", "succeeded", "failed"}
Unfinished == {"pending", "running"}
Final == {"succeeded", "failed"}
Id == 1..MaxJobs

Job == [status: Status, tries: 0..MaxTries, at: {"queue", "worker", "nowhere"}]
List == UNION {[S -> Status] : S \in SUBSET Id}
Read == [click: BOOLEAN, answer: {{}} \cup {{k} : k \in List}]

Race == {"stale",        \* the last list to arrive was older than the click
         "early",        \* a list showed the end of an attempt that was not the last
         "rerun",        \* a finished row was delivered again
         "read_failed"}  \* a list failed while no interval was running

TypeOK ==
  /\ panel \in Panels
  /\ jobs \in Seq(Job) /\ Len(jobs) <= MaxJobs
  /\ known \in List /\ DOMAIN known \subseteq DOMAIN jobs
  /\ reads \in Seq(Read) /\ Len(reads) <= MaxReads
  /\ click \in [at: {"idle", "sent", "reading", "refused"}, id: {0}, status: {"pending"}]
              \cup [at: {"accepted"}, id: Id, status: Unfinished]
  /\ started \subseteq DOMAIN jobs
  /\ faults \in 0..MaxFaults
  /\ races \subseteq Race

NoClick == [at |-> "idle", id |-> 0, status |-> "pending"]
NewRead(c) == [click |-> c, answer |-> {}]
Empty == [i \in {} |-> "pending"]

\* The panel is opened on a story with one old analysis or with none.
Init ==
  /\ panel \in Panels
  /\ jobs \in {<<>>, <<[status |-> "failed", tries |-> MaxTries, at |-> "nowhere"]>>}
  /\ known = Empty
  /\ reads = <<NewRead(FALSE)>>
  /\ click = NoClick /\ started = {}
  /\ faults = 0 /\ races = {}

Fault == faults < MaxFaults /\ faults' = faults + 1
Lose(kind) == races' = races \cup {kind}

-------------------------------------------------------------------------------
(* The server                                                                *)

Queued == [status |-> "pending", tries |-> 0, at |-> "queue"]
Busy == \E i \in DOMAIN jobs : jobs[i].status \in Unfinished

Allowed == ~(panel.exclusive /\ Busy)

\* The row is committed, its task sent, and the row returned.
Accept ==
  /\ click.at = "sent" /\ Allowed
  /\ jobs' = Append(jobs, Queued)
  /\ click' = [at |-> "accepted", id |-> Len(jobs) + 1, status |-> "pending"]
  /\ started' = started \cup {Len(jobs) + 1}
  /\ UNCHANGED <<panel, known, reads, faults, races>>

\* The broker fails after the commit: the plot hole hunter closes its row, the others leave it.
AcceptUnsent ==
  /\ click.at = "sent" /\ Allowed /\ Fault
  /\ jobs' = Append(jobs, [Queued EXCEPT !.at = "nowhere",
                             !.status = IF panel.exclusive THEN "failed" ELSE "pending"])
  /\ click' = [NoClick EXCEPT !.at = "refused"]
  /\ UNCHANGED <<panel, known, reads, started, races>>

\* The unfinished row converges all clicks, of this tab and of others (the plot hole hunter only).
AcceptExisting ==
  /\ click.at = "sent" /\ panel.exclusive
  /\ \E i \in DOMAIN jobs :
       /\ jobs[i].status \in Unfinished
       /\ click' = [at |-> "accepted", id |-> i, status |-> jobs[i].status]
       /\ started' = started \cup {i}
  /\ UNCHANGED <<panel, jobs, known, reads, faults, races>>

\* No version to analyse, a limit, or a failed request.
Refuse ==
  /\ click.at = "sent" /\ Fault
  /\ click' = [NoClick EXCEPT !.at = "refused"]
  /\ UNCHANGED <<panel, jobs, known, reads, started, races>>

OrderElsewhere ==
  /\ Allowed
  /\ Len(jobs) + (IF click.at = "sent" THEN 1 ELSE 0) < MaxJobs
  /\ jobs' = Append(jobs, Queued)
  /\ UNCHANGED <<panel, known, reads, click, started, faults, races>>

SetJob(i, job) ==
  /\ jobs' = [jobs EXCEPT ![i] = job]
  /\ UNCHANGED <<panel, known, reads, click, started>>

Begin(i) ==
  /\ jobs[i].at = "queue"
  /\ SetJob(i, [jobs[i] EXCEPT !.status = "running", !.at = "worker"])
  /\ UNCHANGED <<faults, races>>

Finish(i) ==
  /\ jobs[i].at = "worker"
  /\ SetJob(i, [jobs[i] EXCEPT !.status = "succeeded", !.at = "nowhere"])
  /\ UNCHANGED <<faults, races>>

\* The row is written on every failed attempt, and the task retried while tries are left.
Fail(i) ==
  /\ jobs[i].at = "worker" /\ Fault
  /\ SetJob(i, IF jobs[i].tries + 1 < MaxTries
             THEN [status |-> panel.between, tries |-> jobs[i].tries + 1, at |-> "queue"]
             ELSE [status |-> "failed", tries |-> MaxTries, at |-> "nowhere"])
  /\ UNCHANGED races

\* A worker dies: its message comes back, or (the hard time limit) it does not.
Die(i) ==
  /\ jobs[i].at = "worker" /\ Fault
  /\ \E at \in {"queue", "nowhere"} : SetJob(i, [jobs[i] EXCEPT !.at = at])
  /\ UNCHANGED races

\* The same, after the result is written: the three run it again.
Redeliver(i) ==
  /\ jobs[i].status = "succeeded" /\ jobs[i].at = "nowhere" /\ ~panel.exclusive /\ Fault
  /\ SetJob(i, [jobs[i] EXCEPT !.at = "queue"])
  /\ Lose("rerun")

-------------------------------------------------------------------------------
(* The panel                                                                 *)

Pending(k) == {i \in DOMAIN k : k[i] \in Unfinished}

\* Mutant: the interval and the button look at the latest row only.
PollingLatest(k) == DOMAIN k # {} /\ Max(DOMAIN k) \in Pending(k)

Polling(k) ==
  IF panel.follows = "any" THEN Pending(k) # {} ELSE DOMAIN k # {} /\ Max(DOMAIN k) \in Pending(k)

Blocked == click.at # "idle" \/ Polling(known)
Room == Len(reads) < MaxReads
Without(i) == SubSeq(reads, 1, i - 1) \o SubSeq(reads, i + 1, Len(reads))

Click ==
  /\ ~Blocked /\ Len(jobs) < MaxJobs
  /\ click' = [NoClick EXCEPT !.at = "sent"]
  /\ UNCHANGED <<panel, jobs, known, reads, started, faults, races>>

\* The list is read again, by three of them behind the listener's back.
Accepted ==
  /\ click.at = "accepted" /\ Room
  /\ known' = IF panel.inserts THEN (click.id :> click.status) @@ known ELSE known
  /\ reads' = Append(reads, NewRead(panel.inserts))
  /\ click' = IF panel.inserts THEN [NoClick EXCEPT !.at = "reading"] ELSE NoClick
  /\ UNCHANGED <<panel, jobs, started, faults, races>>

Refused ==
  /\ click.at = "refused"
  /\ click' = NoClick
  /\ UNCHANGED <<panel, jobs, known, reads, started, faults, races>>

Fire ==
  /\ Polling(known) /\ Room
  /\ reads' = Append(reads, NewRead(FALSE))
  /\ UNCHANGED <<panel, jobs, known, click, started, faults, races>>

Listing == [i \in DOMAIN jobs |-> jobs[i].status]

Answer(i) ==
  /\ reads[i].answer = {}
  /\ reads' = [reads EXCEPT ![i].answer = {Listing}]
  /\ UNCHANGED <<panel, jobs, known, click, started, faults, races>>

\* A read that belongs to a click ends it, however it ends.
Over(i) == click' = IF reads[i].click THEN NoClick ELSE click

\* The interval ends on this list although it misses a row that was started, and no later list
\* is on its way.
Stale(i, next) == /\ ~(started \ {click.id} \subseteq DOMAIN next)
                  /\ ~Polling(next) /\ i = Len(reads)

Lost(i, next) ==
  (IF Stale(i, next) THEN {"stale"} ELSE {})
  \cup (IF \E j \in DOMAIN next :
             next[j] \in Final /\ ~(jobs[j].at = "nowhere" /\ jobs[j].status = next[j])
        THEN {"early"} ELSE {})

Apply(i) ==
  \E next \in reads[i].answer :
    /\ known' = next
    /\ reads' = Without(i) /\ Over(i)
    /\ races' = races \cup Lost(i, next)
    /\ UNCHANGED <<panel, jobs, started, faults>>

ReadFails(i) ==
  /\ Fault
  /\ reads' = Without(i) /\ Over(i)
  /\ races' = IF Polling(known) THEN races ELSE races \cup {"read_failed"}
  /\ UNCHANGED <<panel, jobs, known, started>>

\* The page is left and comes back: what was in flight is dropped, and the panel starts over.
Revisit ==
  /\ Fault
  /\ known' = Empty /\ reads' = <<NewRead(FALSE)>> /\ click' = NoClick
  /\ UNCHANGED <<panel, jobs, started, races>>

-------------------------------------------------------------------------------
Server == Accept \/ AcceptExisting \/ AcceptUnsent \/ Refuse
Task(i) == Begin(i) \/ Finish(i) \/ Fail(i)

Next ==
  \/ Server \/ OrderElsewhere
  \/ \E i \in DOMAIN jobs : Task(i) \/ Die(i) \/ Redeliver(i)
  \/ Click \/ Accepted \/ Refused \/ Fire \/ Revisit
  \/ \E i \in DOMAIN reads : Answer(i) \/ Apply(i) \/ ReadFails(i)

\* Requests are answered, tasks that are queued are run, and the interval fires.  Nobody has to
\* click, and no fault has to happen.
Worked(i) == i \in DOMAIN jobs /\ Task(i)
FirstRead == reads # <<>> /\ (Answer(1) \/ Apply(1))

Fairness ==
  /\ WF_vars(Server) /\ WF_vars(Accepted \/ Refused)
  /\ WF_vars(Fire) /\ WF_vars(FirstRead)
  /\ \A i \in Id : WF_vars(Worked(i))

Spec == Init /\ [][Next]_vars
FairSpec == Spec /\ Fairness

-------------------------------------------------------------------------------
(* Properties                                                                *)

Shown(i) == i \in DOMAIN known /\ known[i] = jobs[i].status /\ jobs[i].status \in Final
Stranded(i) == jobs[i].at = "nowhere" /\ jobs[i].status \in Unfinished

\* A row that was started is shown as it ended, whatever happens to the reads in between, unless
\* a race was lost or its task was.
EventuallyShown ==
  \A i \in Id : i \in started ~> (i \in started /\ (Shown(i) \/ Stranded(i))) \/ races # {}

===============================================================================
