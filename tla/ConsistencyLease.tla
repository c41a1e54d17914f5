--------------------------- MODULE ConsistencyLease ---------------------------
(***************************************************************************)
(* The Plot Hole Hunter: consistency checks of one finished story version. *)
(*                                                                         *)
(* API requests insert a `consistency_checks` row and dispatch a Celery    *)
(* message; agent workers deliver messages at least once, claim the row    *)
(* with a conditional UPDATE (a lease), make the paid model call and       *)
(* finish the row with another conditional UPDATE.  All rows here belong   *)
(* to one version, so `active_key = version_id` is the Boolean active[c]   *)
(* and the unique constraint says that it is TRUE for one row at most.     *)
(*                                                                         *)
(* Timestamps are ages: age[c] is now - started_at, capped where larger    *)
(* values cannot be told apart.  A run token (a fresh uuid) is the worker  *)
(* that drew it: a process makes one attempt at a time, and compares the   *)
(* row's token only with one it has itself written during that attempt.    *)
(***************************************************************************)
EXTENDS Naturals

CONSTANTS
  Check,       (* row ids the history of the version may use             *)
  Worker,      (* processes of the agents pool                           *)
  Requester,   (* concurrent POST /consistency-checks handlers           *)
  NoWorker,    (* run_token IS NULL                                      *)
  Lease,       (* _CONSISTENCY_LEASE, in ticks                           *)
  HardLimit,   (* Celery task_time_limit, in ticks                       *)
  MaxRetries,  (* RETRY_KWARGS["max_retries"]                            *)
  MaxCrashes,  (* bound: worker processes lost in one behaviour          *)
  Faults       (* the faults this instance of the environment commits    *)

FaultKind == {"worker_lost",         \* a worker process dies, message requeued
              "hard_limit",          \* a task is killed at its time limit
              "setup_error",         \* an error before the row is claimed
              "late_error",          \* an error after the result is durable
              "unrecorded_failure",  \* the failure UPDATE itself fails
              "api_crash",           \* the API dies between commit and dispatch
              "ambiguous_dispatch"}  \* dispatch raises, yet the broker has it

ASSUME ConsistencyAssumption ==
  /\ Check # {}
  /\ NoWorker \notin Worker
  /\ Lease \in Nat \ {0}
  /\ HardLimit \in Nat \ {0}
  /\ MaxRetries \in Nat
  /\ MaxCrashes \in Nat
  /\ Faults \subseteq FaultKind

VARIABLES
  row,       (* consistency_checks: one record per row id                *)
  queue,     (* the broker: how many copies of each message it holds     *)
  task,      (* each worker's run of check_story_consistency             *)
  request,   (* each handler's run of create_consistency_check           *)
  crashes    (* worker losses so far, bounded by MaxCrashes              *)

vars == <<row, queue, task, request, crashes>>

Active   == {"pending", "running"}
Terminal == {"succeeded", "failed"}
MaxAge   == Lease + HardLimit
MaxEta   == Lease + 1          \* lease plus the wakeup buffer

\* "absent" is a row id not inserted yet; `author` says whose findings it holds.
Row == [status: Active \cup Terminal \cup {"absent"}, active: BOOLEAN,
        token: Worker \cup {NoWorker}, age: 0..MaxAge,
        author: Worker \cup {NoWorker}]

\* `eta` is the countdown left before the message may be delivered.
Message == [check: Check, retries: 0..MaxRetries, eta: 0..MaxEta]

\* `job` is unacknowledged, `since` the time since claimed_at was computed,
\* `holds` whether the local run_token is set, `retrying` what _will_retry said.
Task == [at: {"idle", "loading", "claiming", "calling", "reporting", "yielding",
              "failing", "raising", "acking"},
         job: Message, elapsed: 0..HardLimit, since: 0..HardLimit,
         holds: BOOLEAN, retrying: BOOLEAN]

Request == [at: {"idle", "checked", "inserted", "refused"}, check: Check]

TypeOK ==
  /\ row \in [Check -> Row]
  /\ queue \in [Message -> Nat]
  /\ task \in [Worker -> Task]
  /\ request \in [Requester -> Request]
  /\ crashes \in 0..MaxCrashes

AnyCheck == CHOOSE c \in Check : TRUE
FirstMessage(c) == [check |-> c, retries |-> 0, eta |-> 0]

NoRow == [status |-> "absent", active |-> FALSE, token |-> NoWorker, age |-> 0,
          author |-> NoWorker]
NewRow == [NoRow EXCEPT !.status = "pending", !.active = TRUE]
Started(m) == [at |-> "loading", job |-> m, elapsed |-> 0, since |-> 0,
               holds |-> FALSE, retrying |-> FALSE]
NoTask == [Started(FirstMessage(AnyCheck)) EXCEPT !.at = "idle"]
NoRequest == [at |-> "idle", check |-> AnyCheck]

Init ==
  /\ row = [c \in Check |-> NoRow]
  /\ queue = [m \in Message |-> 0]
  /\ task = [w \in Worker |-> NoTask]
  /\ request = [a \in Requester |-> NoRequest]
  /\ crashes = 0

Capped(n, cap) == IF n < cap THEN n ELSE cap
Busy(w) == task[w].at # "idle"
CheckOf(w) == task[w].job.check
Go(w, step) == task' = [task EXCEPT ![w].at = step]
Send(m) == queue' = [queue EXCEPT ![m] = @ + 1]
NoOtherActive(c) == \A d \in Check \ {c} : ~row[d].active

-------------------------------------------------------------------------------
(* POST /stories/{id}/consistency-checks                                     *)

\* The early read finds nothing in flight for the version.
Lookup(a) ==
  /\ request[a].at = "idle"
  /\ \A c \in Check : ~row[c].active
  /\ request' = [request EXCEPT ![a].at = "checked"]
  /\ UNCHANGED <<row, queue, task, crashes>>

\* Mutant of Insert: active_key without its unique constraint.
InsertUnchecked(a, c) ==
  /\ request[a].at = "checked"
  /\ row[c].status = "absent"
  /\ row' = [row EXCEPT ![c] = NewRow]
  /\ request' = [request EXCEPT ![a] = [at |-> "inserted", check |-> c]]
  /\ UNCHANGED <<queue, task, crashes>>

\* The insert commits: the unique active key admits one row.
Insert(a, c) ==
  /\ request[a].at = "checked"
  /\ row[c].status = "absent"
  /\ NoOtherActive(c)
  /\ row' = [row EXCEPT ![c] = NewRow]
  /\ request' = [request EXCEPT ![a] = [at |-> "inserted", check |-> c]]
  /\ UNCHANGED <<queue, task, crashes>>

\* IntegrityError: the request answers with the row that won the race.  A rate
\* limit or budget refusal leaves the same way.
Decline(a) ==
  /\ request[a].at = "checked"
  /\ request' = [request EXCEPT ![a] = NoRequest]
  /\ UNCHANGED <<row, queue, task, crashes>>

Dispatch(a) ==
  /\ request[a].at = "inserted"
  /\ Send(FirstMessage(request[a].check))
  /\ request' = [request EXCEPT ![a] = NoRequest]
  /\ UNCHANGED <<row, task, crashes>>

\* dispatch_consistency_check (or the commit of task_id after it) raises.
DispatchError(a) ==
  /\ request[a].at = "inserted"
  /\ \/ UNCHANGED queue
     \/ /\ "ambiguous_dispatch" \in Faults
        /\ Send(FirstMessage(request[a].check))
  /\ request' = [request EXCEPT ![a].at = "refused"]
  /\ UNCHANGED <<row, task, crashes>>

\* The except branch writes FAILED whatever the row holds by now.
RecordRefusal(a) ==
  /\ request[a].at = "refused"
  /\ row' = [row EXCEPT ![request[a].check] =
               [@ EXCEPT !.status = "failed", !.active = FALSE]]
  /\ request' = [request EXCEPT ![a] = NoRequest]
  /\ UNCHANGED <<queue, task, crashes>>

ApiCrash(a) ==
  /\ "api_crash" \in Faults
  /\ request[a].at = "inserted"
  /\ request' = [request EXCEPT ![a] = NoRequest]
  /\ UNCHANGED <<row, queue, task, crashes>>

-------------------------------------------------------------------------------
(* check_story_consistency, one delivery at a time per worker.               *)

\* The broker hands over a message; acks_late keeps it unacknowledged.
Deliver(w, m) ==
  /\ ~Busy(w)
  /\ m.eta = 0
  /\ queue[m] > 0
  /\ queue' = [queue EXCEPT ![m] = @ - 1]
  /\ task' = [task EXCEPT ![w] = Started(m)]
  /\ UNCHANGED <<row, request, crashes>>

\* Mutant of Load: a running row is never claimed, however old its lease.
LoadPendingOnly(w) ==
  /\ task[w].at = "loading"
  /\ IF row[CheckOf(w)].status = "pending"
     THEN task' = [task EXCEPT ![w] = [@ EXCEPT !.at = "claiming", !.since = 0]]
     ELSE Go(w, "yielding")
  /\ UNCHANGED <<row, queue, request, crashes>>

\* session.get, then the part of _claim_consistency_check that looks at the
\* loaded row: a terminal row or a fresh lease is not claimed.
Load(w) ==
  LET r == row[CheckOf(w)] IN
  /\ task[w].at = "loading"
  /\ \/ /\ r.status = "pending" \/ (r.status = "running" /\ r.age >= Lease)
        /\ task' = [task EXCEPT ![w] = [@ EXCEPT !.at = "claiming", !.since = 0]]
     \/ /\ r.status \in Terminal \/ (r.status = "running" /\ r.age < Lease)
        /\ Go(w, "yielding")
  /\ UNCHANGED <<row, queue, request, crashes>>

\* Mutant of Claimable: any row in flight may be claimed.
ClaimableInFlight(w) == row[CheckOf(w)].status \in Active

\* The WHERE clause of the claiming UPDATE: started_at <= claimed_at - lease.
Claimable(w) ==
  LET r == row[CheckOf(w)] IN
  r.status = "pending" \/ (r.status = "running" /\ r.age >= Lease + task[w].since)

\* Mutant of ClaimWins: started_at is set by the first claim only.
ClaimKeepsStart(w) ==
  /\ task[w].at = "claiming"
  /\ Claimable(w)
  /\ NoOtherActive(CheckOf(w))
  /\ row' = [row EXCEPT ![CheckOf(w)] =
               [@ EXCEPT !.status = "running", !.active = TRUE, !.token = w]]
  /\ task' = [task EXCEPT ![w] =
                [@ EXCEPT !.at = "calling", !.holds = TRUE, !.since = 0]]
  /\ UNCHANGED <<queue, request, crashes>>

ClaimWins(w) ==
  /\ task[w].at = "claiming"
  /\ Claimable(w)
  /\ NoOtherActive(CheckOf(w))
  /\ row' = [row EXCEPT ![CheckOf(w)] =
               [@ EXCEPT !.status = "running", !.active = TRUE, !.token = w,
                         !.age = task[w].since]]
  /\ task' = [task EXCEPT ![w] =
                [@ EXCEPT !.at = "calling", !.holds = TRUE, !.since = 0]]
  /\ UNCHANGED <<queue, request, crashes>>

\* rowcount 0: another delivery got there between the read and the UPDATE.
ClaimLoses(w) ==
  /\ task[w].at = "claiming"
  /\ ~Claimable(w)
  /\ Go(w, "yielding")
  /\ UNCHANGED <<row, queue, request, crashes>>

WillRetry(w, permanent) == ~permanent /\ task[w].job.retries < MaxRetries

Fail(w, permanent) ==
  /\ task' = [task EXCEPT ![w] =
                [@ EXCEPT !.at = "failing", !.retrying = WillRetry(w, permanent)]]
  /\ UNCHANGED <<row, queue, request, crashes>>

\* Restoring active_key collides with another active row of the version.
ClaimCollides(w) ==
  /\ task[w].at = "claiming"
  /\ Claimable(w)
  /\ ~NoOtherActive(CheckOf(w))
  /\ Fail(w, FALSE)

WakeupDelay(c) == IF row[c].age < Lease THEN Lease - row[c].age + 1 ELSE 1

\* Mutant of Yield: a duplicate is dropped without a wakeup.
YieldSilently(w) ==
  /\ task[w].at = "yielding"
  /\ Go(w, "acking")
  /\ UNCHANGED <<row, queue, request, crashes>>

\* A duplicate refreshes the row and, when a lease is running, leaves a wakeup
\* for the moment it expires.
Yield(w) ==
  LET c == CheckOf(w) IN
  /\ task[w].at = "yielding"
  /\ IF row[c].status = "running"
     THEN Send([check |-> c, retries |-> 0, eta |-> WakeupDelay(c)])
     ELSE UNCHANGED queue
  /\ Go(w, "acking")
  /\ UNCHANGED <<row, request, crashes>>

\* Mutants of OwnsLease: the result UPDATE matches the status or the token alone.
OwnsByStatus(w) == row[CheckOf(w)].status = "running"
OwnsByToken(w) == row[CheckOf(w)].token = w

OwnsLease(w) ==
  /\ row[CheckOf(w)].status = "running"
  /\ row[CheckOf(w)].token = w

\* review_story_consistency returned; the result UPDATE matches the lease.
Succeed(w) ==
  /\ task[w].at = "calling"
  /\ OwnsLease(w)
  /\ row' = [row EXCEPT ![CheckOf(w)] =
               [@ EXCEPT !.status = "succeeded", !.active = FALSE, !.author = w]]
  /\ Go(w, "reporting")
  /\ UNCHANGED <<queue, request, crashes>>

\* The lease was lost meanwhile: the output is discarded.
Discard(w) ==
  /\ task[w].at = "calling"
  /\ ~OwnsLease(w)
  /\ Go(w, "acking")
  /\ UNCHANGED <<row, queue, request, crashes>>

CallFails(w) ==
  /\ task[w].at = "calling"
  /\ \E permanent \in BOOLEAN : Fail(w, permanent)

\* A database or broker error before the claim: run_token is still None.
SetupFails(w) ==
  /\ "setup_error" \in Faults
  /\ task[w].at \in {"loading", "claiming", "yielding"}
  /\ Fail(w, FALSE)

\* COMMIT succeeded but its acknowledgement was lost, or the soft time limit
\* fired before the task returned.
LateError(w) ==
  /\ "late_error" \in Faults
  /\ task[w].at = "reporting"
  /\ Fail(w, FALSE)

\* Mutant of FailureApplies: no guard without a token.
FailureAppliesUnclaimed(w) == task[w].holds => row[CheckOf(w)].token = w

\* The WHERE clause of _record_consistency_failure.
FailureApplies(w) ==
  IF task[w].holds THEN row[CheckOf(w)].token = w ELSE row[CheckOf(w)].status = "pending"

\* Mutant of FailedRow: a failed row keeps its active_key.
FailedRowKeepsKey(r, again) ==
  [r EXCEPT !.status = IF again THEN "pending" ELSE "failed"]

FailedRow(r, again) ==
  IF again THEN [r EXCEPT !.status = "pending"]
           ELSE [r EXCEPT !.status = "failed", !.active = FALSE]

AfterFailure(w) == Go(w, IF task[w].retrying THEN "raising" ELSE "acking")

RecordFailure(w) ==
  /\ task[w].at = "failing"
  /\ IF FailureApplies(w)
     THEN row' = [row EXCEPT ![CheckOf(w)] = FailedRow(@, task[w].retrying)]
     ELSE UNCHANGED row
  /\ AfterFailure(w)
  /\ UNCHANGED <<queue, request, crashes>>

\* The failure UPDATE raised; the exception is logged and swallowed.
FailureUnrecorded(w) ==
  /\ "unrecorded_failure" \in Faults
  /\ task[w].at = "failing"
  /\ AfterFailure(w)
  /\ UNCHANGED <<row, queue, request, crashes>>

\* autoretry publishes the next attempt before the current one is acknowledged.
Retry(w) ==
  /\ task[w].at = "raising"
  /\ Send([task[w].job EXCEPT !.retries = @ + 1])
  /\ Go(w, "acking")
  /\ UNCHANGED <<row, request, crashes>>

Ack(w) ==
  /\ task[w].at \in {"reporting", "acking"}
  /\ task' = [task EXCEPT ![w] = NoTask]
  /\ UNCHANGED <<row, queue, request, crashes>>

-------------------------------------------------------------------------------
(* The environment.                                                          *)

\* task_reject_on_worker_lost: the unacknowledged message goes back.
WorkerLost(w) ==
  /\ "worker_lost" \in Faults
  /\ Busy(w)
  /\ crashes < MaxCrashes
  /\ crashes' = crashes + 1
  /\ Send(task[w].job)
  /\ task' = [task EXCEPT ![w] = NoTask]
  /\ UNCHANGED <<row, request>>

\* A task killed at task_time_limit is acknowledged (Celery's default for
\* task_acks_on_failure_or_timeout), so nothing is redelivered.
HardLimitKill(w) ==
  /\ "hard_limit" \in Faults
  /\ Busy(w)
  /\ task[w].elapsed = HardLimit
  /\ task' = [task EXCEPT ![w] = NoTask]
  /\ UNCHANGED <<row, queue, request, crashes>>

Later(m) == [m EXCEPT !.eta = @ + 1]

\* Time passes while no task has outlived its hard limit.  A countdown, the age
\* of a lease and the clocks of the running tasks move together.
Tick ==
  /\ \A w \in Worker : Busy(w) => task[w].elapsed < HardLimit
  /\ row' = [c \in Check |->
               IF row[c].status = "running"
               THEN [row[c] EXCEPT !.age = Capped(@ + 1, MaxAge)] ELSE row[c]]
  /\ task' = [w \in Worker |->
                IF ~Busy(w) THEN task[w]
                ELSE [task[w] EXCEPT !.elapsed = @ + 1,
                        !.since = IF task[w].at = "claiming" THEN @ + 1 ELSE @]]
  /\ queue' = [m \in Message |->
                 (IF m.eta = 0 THEN queue[m] ELSE 0)
                   + (IF m.eta = MaxEta THEN 0 ELSE queue[Later(m)])]
  /\ UNCHANGED <<request, crashes>>

WorkerStep(w) ==
  \/ Load(w) \/ ClaimWins(w) \/ ClaimLoses(w) \/ ClaimCollides(w) \/ Yield(w)
  \/ Succeed(w) \/ Discard(w) \/ CallFails(w) \/ SetupFails(w) \/ LateError(w)
  \/ RecordFailure(w) \/ FailureUnrecorded(w) \/ Retry(w) \/ Ack(w)

RequestStep(a) == Decline(a) \/ Dispatch(a) \/ DispatchError(a) \/ RecordRefusal(a)

Next ==
  \/ \E a \in Requester : \/ Lookup(a) \/ RequestStep(a) \/ ApiCrash(a)
                          \/ \E c \in Check : Insert(a, c)
  \/ \E w \in Worker : \/ WorkerStep(w) \/ WorkerLost(w) \/ HardLimitKill(w)
                       \/ \E m \in Message : Deliver(w, m)
  \/ Tick

Spec == Init /\ [][Next]_vars

\* A started task runs to an end, a request that committed its row goes on to
\* dispatch it, time passes, and the broker (a FIFO list) does not pass over a
\* due message for ever.
Fairness ==
  /\ \A w \in Worker : WF_vars(WorkerStep(w))
  /\ \A a \in Requester : WF_vars(RequestStep(a))
  /\ WF_vars(\E w \in Worker, m \in Message : Deliver(w, m))
  /\ WF_vars(Tick)

FairSpec == Spec /\ Fairness

\* The model provider is not down for ever: a worker whose calls go on being
\* attempted gets an answer in the end.
AnsweringSpec == FairSpec /\ \A w \in Worker : SF_vars(Succeed(w))

-------------------------------------------------------------------------------
\* active_key is set exactly while a row is pending or running, so a new review
\* can be asked for exactly when none is in flight.
ActiveKeyMarksActive == \A c \in Check : row[c].active <=> row[c].status \in Active

Calling(w) == task[w].at = "calling"

\* No two workers pay for a model call at the same time, however deliveries,
\* retries, wakeups and requests interleave.
OneCaller == \A v, w \in Worker : Calling(v) /\ Calling(w) => v = w

\* The findings of a finished review come from the worker that held its last
\* lease, never from one that was superseded.
FindingsFromLease ==
  \A c \in Check : row[c].status = "succeeded" => row[c].author = row[c].token

\* A live worker is never superseded: while it is calling the model, the row is
\* running under its token.
NeverSuperseded == \A w \in Worker : Calling(w) => OwnsLease(w)

\* Somebody will still look at the row: a message names it, a worker has one in
\* hand, or its request has yet to dispatch it.
HasSignal(c) ==
  \/ \E m \in Message : m.check = c /\ queue[m] > 0
  \/ \E w \in Worker : Busy(w) /\ CheckOf(w) = c
  \/ \E a \in Requester : request[a].at \in {"inserted", "refused"} /\ request[a].check = c

\* No delivery acknowledges the last recovery signal of an unfinished review.
SignalKept == \A c \in Check : row[c].status \in Active => HasSignal(c)

\* A finished review never changes again: neither a stale worker, nor a retry,
\* nor a late failure rewrites its status, its key or its findings.
TerminalIsFinal ==
  [][\A c \in Check : row[c].status \in Terminal => row'[c] = row[c]]_vars

\* Even when a dispatch the broker accepted was reported as failed, the worker
\* that got it does not turn the reported failure into a result.
FailureNotOverwritten ==
  [][\A c \in Check : row[c].status = "failed" => row'[c].status # "succeeded"]_vars

\* Every review that was asked for ends: it succeeds or it is reported failed.
EventuallySettles ==
  \A c \in Check : row[c].status \in Active ~> row[c].status \in Terminal
===============================================================================
