------------------------ MODULE ConsistencyLease_proofs ------------------------
(* Proofs about ConsistencyLease for every set of rows, workers and requests,   *)
(* and every lease, limit and retry count.                                      *)
EXTENDS ConsistencyRefinement, TLAPS

LEMMA ConstantTypes ==
  /\ AnyCheck \in Check
  /\ Lease \in Nat /\ HardLimit \in Nat /\ MaxRetries \in Nat /\ MaxCrashes \in Nat
  /\ Lease > 0 /\ HardLimit > 0
  /\ 0 \in 0..HardLimit /\ 0 \in 0..MaxAge /\ 0 \in 0..MaxEta
BY ConsistencyAssumption DEF ConsistencyAssumption, AnyCheck, MaxAge, MaxEta

LEMMA MessageTypes ==
  /\ \A c \in Check : FirstMessage(c) \in Message
  /\ \A m \in Message : m.check \in Check /\ m.retries \in 0..MaxRetries /\ m.eta \in 0..MaxEta
  /\ \A m \in Message : m.eta # MaxEta => Later(m) \in Message /\ Later(m).check = m.check
  /\ \A m \in Message : Started(m) \in Task
  /\ NoTask \in Task
  /\ NoRow \in Row /\ NewRow \in Row
  /\ NoRequest \in Request
<1>1. \A c \in Check : FirstMessage(c) \in Message
  BY ConstantTypes DEF FirstMessage, Message, MaxEta
<1>2. \A m \in Message : m.check \in Check /\ m.retries \in 0..MaxRetries /\ m.eta \in 0..MaxEta
  BY DEF Message
<1>3. \A m \in Message : m.eta # MaxEta => Later(m) \in Message /\ Later(m).check = m.check
  BY ConstantTypes DEF Later, Message, MaxEta
<1>4. \A m \in Message : Started(m) \in Task
  BY ConstantTypes DEF Started, Task
<1>5. NoTask \in Task
  BY <1>1, <1>4, ConstantTypes DEF NoTask, Task, Started
<1>6. NoRow \in Row /\ NewRow \in Row
  <2>1. NoRow \in Row
    BY ConstantTypes DEF NoRow, Row
  <2>2. QED  BY <2>1 DEF NewRow, Row, Active
<1>7. NoRequest \in Request
  BY ConstantTypes DEF NoRequest, Request
<1>8. QED  BY <1>1, <1>2, <1>3, <1>4, <1>5, <1>6, <1>7

\* What makes TypeOK inductive: a claim is never older than its task, and only a
\* task with retries left is about to publish another attempt.  A task has a run
\* token from its claim on, not before.
TaskOK(t) ==
  /\ t.since <= t.elapsed
  /\ t.at = "calling" => t.holds
  /\ t.at \in {"loading", "claiming", "yielding"} => ~t.holds
  /\ t.at = "raising" => t.retrying
  /\ t.at \in {"failing", "raising"} /\ t.retrying => t.job.retries < MaxRetries

TaskInv == \A w \in Worker : TaskOK(task[w])

LEMMA TypeInit == Init => TypeOK /\ TaskInv
<1> SUFFICES ASSUME Init PROVE TypeOK /\ TaskInv
  OBVIOUS
<1>1. TypeOK
  BY MessageTypes, ConstantTypes DEF Init, TypeOK
<1>2. TaskInv
  BY DEF Init, TaskInv, TaskOK, NoTask, Started
<1>3. QED  BY <1>1, <1>2

LEMMA TypeStep == TypeOK /\ TaskInv /\ [Next]_vars => TypeOK'
<1> SUFFICES ASSUME TypeOK, TaskInv, [Next]_vars PROVE TypeOK'
  OBVIOUS
<1> USE ConstantTypes, MessageTypes
<1>1. ASSUME NEW a \in Requester, Lookup(a) PROVE TypeOK'
  BY <1>1 DEF Lookup, TypeOK, Request
<1>2. ASSUME NEW a \in Requester, NEW c \in Check, Insert(a, c) PROVE TypeOK'
  BY <1>2 DEF Insert, TypeOK, Request
<1>3. ASSUME NEW a \in Requester, Decline(a) PROVE TypeOK'
  BY <1>3 DEF Decline, TypeOK
<1>4. ASSUME NEW a \in Requester, Dispatch(a) PROVE TypeOK'
  BY <1>4 DEF Dispatch, Send, TypeOK, Request
<1>5. ASSUME NEW a \in Requester, DispatchError(a) PROVE TypeOK'
  BY <1>5, SMTT(30) DEF DispatchError, Send, TypeOK, Request
<1>6. ASSUME NEW a \in Requester, RecordRefusal(a) PROVE TypeOK'
  BY <1>6, ZenonT(30) DEF RecordRefusal, TypeOK, Request, Row, Terminal
<1>7. ASSUME NEW a \in Requester, ApiCrash(a) PROVE TypeOK'
  BY <1>7 DEF ApiCrash, TypeOK
<1>8. ASSUME NEW w \in Worker, NEW m \in Message, Deliver(w, m) PROVE TypeOK'
  BY <1>8 DEF Deliver, TypeOK
<1>9. ASSUME NEW w \in Worker, Load(w) PROVE TypeOK'
  <2>1. \/ task' = [task EXCEPT ![w] = [@ EXCEPT !.at = "claiming", !.since = 0]]
        \/ task' = [task EXCEPT ![w].at = "yielding"]
    BY <1>9 DEF Load, Go
  <2>2. [task[w] EXCEPT !.at = "claiming", !.since = 0] \in Task
    BY DEF TypeOK, Task
  <2>3. [task[w] EXCEPT !.at = "yielding"] \in Task
    BY DEF TypeOK, Task
  <2>4. task' \in [Worker -> Task]
    BY <2>1, <2>2, <2>3 DEF TypeOK
  <2>5. QED  BY <1>9, <2>4 DEF Load, TypeOK
<1>10. ASSUME NEW w \in Worker, ClaimWins(w) PROVE TypeOK'
  <2>1. CheckOf(w) \in Check /\ task[w].since \in 0..MaxAge
    BY DEF TypeOK, Task, CheckOf, MaxAge
  <2>2. row' \in [Check -> Row]
    BY <1>10, <2>1 DEF ClaimWins, TypeOK, Row, Active
  <2>3. task' \in [Worker -> Task]
    BY <1>10 DEF ClaimWins, TypeOK, Task
  <2>4. QED  BY <1>10, <2>2, <2>3 DEF ClaimWins, TypeOK
<1>11. ASSUME NEW w \in Worker, ClaimLoses(w) PROVE TypeOK'
  BY <1>11 DEF ClaimLoses, Go, TypeOK, Task
<1>12. ASSUME NEW w \in Worker, NEW p \in BOOLEAN, Fail(w, p) PROVE TypeOK'
  BY <1>12 DEF Fail, WillRetry, TypeOK, Task
<1>13. ASSUME NEW w \in Worker, Yield(w) PROVE TypeOK'
  <2>1. CheckOf(w) \in Check
    BY DEF TypeOK, Task, CheckOf
  <2>2. WakeupDelay(CheckOf(w)) \in 0..MaxEta
    BY <2>1 DEF WakeupDelay, TypeOK, Row, MaxAge, MaxEta
  <2>3. [check |-> CheckOf(w), retries |-> 0, eta |-> WakeupDelay(CheckOf(w))] \in Message
    BY <2>1, <2>2 DEF Message
  <2>4. queue' \in [Message -> Nat]
    BY <1>13, <2>3 DEF Yield, Send, TypeOK
  <2>5. task' \in [Worker -> Task]
    BY <1>13 DEF Yield, Go, TypeOK, Task
  <2>6. QED  BY <1>13, <2>4, <2>5 DEF Yield, TypeOK
<1>14. ASSUME NEW w \in Worker, Succeed(w) PROVE TypeOK'
  <2>1. CheckOf(w) \in Check
    BY DEF TypeOK, Task, CheckOf
  <2>2. row' \in [Check -> Row]
    BY <1>14, <2>1 DEF Succeed, TypeOK, Row, Terminal
  <2>3. task' \in [Worker -> Task]
    BY <1>14 DEF Succeed, Go, TypeOK, Task
  <2>4. QED  BY <1>14, <2>2, <2>3 DEF Succeed, TypeOK
<1>15. ASSUME NEW w \in Worker, Discard(w) PROVE TypeOK'
  BY <1>15 DEF Discard, Go, TypeOK, Task
<1>16. ASSUME NEW w \in Worker, RecordFailure(w) PROVE TypeOK'
  <2>1. CheckOf(w) \in Check
    BY DEF TypeOK, Task, CheckOf
  <2>2. row' \in [Check -> Row]
    <3>1. \A b \in BOOLEAN : FailedRow(row[CheckOf(w)], b) \in Row
      BY <2>1 DEF FailedRow, TypeOK, Row, Terminal, Active
    <3>2. task[w].retrying \in BOOLEAN
      BY DEF TypeOK, Task
    <3>3. QED  BY <1>16, <3>1, <3>2 DEF RecordFailure, TypeOK
  <2>3. task' \in [Worker -> Task]
    BY <1>16, ZenonT(30) DEF RecordFailure, AfterFailure, Go, TypeOK, Task
  <2>4. QED  BY <1>16, <2>2, <2>3 DEF RecordFailure, TypeOK
<1>17. ASSUME NEW w \in Worker, FailureUnrecorded(w) PROVE TypeOK'
  BY <1>17 DEF FailureUnrecorded, AfterFailure, Go, TypeOK, Task
<1>18. ASSUME NEW w \in Worker, Retry(w) PROVE TypeOK'
  <2>1. [task[w].job EXCEPT !.retries = @ + 1] \in Message
    <3>1. task[w].job \in Message /\ task[w].job.retries < MaxRetries
      BY <1>18 DEF Retry, TaskInv, TaskOK, TypeOK, Task
    <3>2. task[w].job.retries + 1 \in 0..MaxRetries
      BY <3>1 DEF Message
    <3>3. QED  BY <3>1, <3>2 DEF Message
  <2>2. task' \in [Worker -> Task]
    BY <1>18 DEF Retry, Go, TypeOK, Task
  <2>3. queue' \in [Message -> Nat]
    BY <1>18, <2>1 DEF Retry, Send, TypeOK
  <2>4. QED  BY <1>18, <2>2, <2>3 DEF Retry, TypeOK
<1>19. ASSUME NEW w \in Worker, Ack(w) PROVE TypeOK'
  BY <1>19 DEF Ack, TypeOK
<1>20. ASSUME NEW w \in Worker, WorkerLost(w) PROVE TypeOK'
  BY <1>20 DEF WorkerLost, Send, TypeOK, Task
<1>21. ASSUME NEW w \in Worker, HardLimitKill(w) PROVE TypeOK'
  BY <1>21 DEF HardLimitKill, TypeOK
<1>22. ASSUME Tick PROVE TypeOK'
  <2>1. row' \in [Check -> Row]
    <3>1. \A c \in Check : [row[c] EXCEPT !.age = Capped(row[c].age + 1, MaxAge)] \in Row
      BY DEF Capped, TypeOK, Row, MaxAge
    <3>2. QED  BY <1>22, <3>1 DEF Tick, TypeOK
  <2>2. task' \in [Worker -> Task]
    <3>. DEFINE later(w) == [task[w] EXCEPT !.elapsed = task[w].elapsed + 1,
                               !.since = IF task[w].at = "claiming" THEN task[w].since + 1 ELSE task[w].since]
    <3>1. ASSUME NEW w \in Worker, Busy(w) PROVE later(w) \in Task
      <4>1. task[w] \in Task /\ task[w].elapsed < HardLimit /\ task[w].since <= task[w].elapsed
        BY <1>22, <3>1 DEF Tick, TypeOK, TaskInv, TaskOK
      <4>2. task[w].elapsed + 1 \in 0..HardLimit /\ task[w].since + 1 \in 0..HardLimit
        BY <4>1 DEF Task
      <4>3. QED  BY <4>1, <4>2 DEF Task
    <3>2. QED  BY <1>22, <3>1 DEF Tick, TypeOK
  <2>3. queue' \in [Message -> Nat]
    <3>1. ASSUME NEW m \in Message
          PROVE  (IF m.eta = 0 THEN queue[m] ELSE 0)
                   + (IF m.eta = MaxEta THEN 0 ELSE queue[Later(m)]) \in Nat
      BY DEF TypeOK
    <3>2. QED  BY <1>22, <3>1 DEF Tick
  <2>4. QED  BY <1>22, <2>1, <2>2, <2>3 DEF Tick, TypeOK
<1>23. CASE UNCHANGED vars
  BY <1>23 DEF vars, TypeOK
<1>24. QED
  BY <1>1, <1>2, <1>3, <1>4, <1>5, <1>6, <1>7, <1>8, <1>9, <1>10, <1>11, <1>12, <1>13,
     <1>14, <1>15, <1>16, <1>17, <1>18, <1>19, <1>20, <1>21, <1>22, <1>23
  DEF Next, RequestStep, WorkerStep, ClaimCollides, CallFails, SetupFails, LateError

LEMMA TaskStep == TypeOK /\ TaskInv /\ [Next]_vars => TaskInv'
<1> SUFFICES ASSUME TypeOK, TaskInv, [Next]_vars PROVE TaskInv'
  OBVIOUS
<1> USE ConstantTypes DEF TaskInv
<1>1. ASSUME NEW w \in Worker, NEW t, TaskOK(t), task' = [task EXCEPT ![w] = t]
      PROVE  TaskInv'
  BY <1>1 DEF TypeOK
<1>2. \A w \in Worker : task[w] \in Task /\ TaskOK(task[w])
  BY DEF TypeOK
<1>3. ASSUME NEW w \in Worker, NEW s \in {"yielding", "reporting", "acking"}, Go(w, s),
             s = "yielding" => ~task[w].holds
      PROVE  TaskInv'
  <2>1. TaskOK([task[w] EXCEPT !.at = s])
    BY <1>2, <1>3 DEF TaskOK, Task
  <2>2. QED  BY <1>1, <1>3, <2>1 DEF Go
<1>4. ASSUME NEW w \in Worker, Load(w) \/ ClaimLoses(w) PROVE TaskInv'
  <2>1. ~task[w].holds
    BY <1>2, <1>4 DEF TaskOK, Load, ClaimLoses
  <2>2. TaskOK([task[w] EXCEPT !.at = "claiming", !.since = 0])
    BY <1>2, <2>1 DEF TaskOK, Task
  <2>3. QED  BY <1>1, <1>3, <1>4, <2>1, <2>2 DEF Load, ClaimLoses
<1>5. ASSUME NEW w \in Worker, ClaimWins(w) PROVE TaskInv'
  <2>1. TaskOK([task[w] EXCEPT !.at = "calling", !.holds = TRUE, !.since = 0])
    BY <1>2 DEF TaskOK, Task
  <2>2. QED  BY <1>1, <1>5, <2>1 DEF ClaimWins
<1>6. ASSUME NEW w \in Worker, NEW p \in BOOLEAN, Fail(w, p) PROVE TaskInv'
  <2>1. TaskOK([task[w] EXCEPT !.at = "failing", !.retrying = WillRetry(w, p)])
    BY <1>2 DEF TaskOK, Task, WillRetry
  <2>2. QED  BY <1>1, <1>6, <2>1 DEF Fail
<1>7. ASSUME NEW w \in Worker, task[w].at = "failing", AfterFailure(w) PROVE TaskInv'
  <2>1. CASE task[w].retrying
    <3>1. TaskOK([task[w] EXCEPT !.at = "raising"])
      BY <1>2, <1>7, <2>1 DEF TaskOK, Task
    <3>2. QED  BY <1>1, <1>7, <2>1, <3>1 DEF AfterFailure, Go
  <2>2. CASE ~task[w].retrying
    BY <1>3, <1>7, <2>2 DEF AfterFailure
  <2>3. QED  BY <2>1, <2>2
<1>8. ASSUME NEW w \in Worker, task' = [task EXCEPT ![w] = NoTask] PROVE TaskInv'
  <2>1. TaskOK(NoTask)
    BY DEF TaskOK, NoTask, Started
  <2>2. QED  BY <1>1, <1>8, <2>1
<1>9. ASSUME NEW w \in Worker, NEW m \in Message, Deliver(w, m) PROVE TaskInv'
  <2>1. TaskOK(Started(m))
    BY DEF TaskOK, Started
  <2>2. QED  BY <1>1, <1>9, <2>1 DEF Deliver
<1>10. ASSUME Tick PROVE TaskInv'
  <2> SUFFICES ASSUME NEW w \in Worker PROVE TaskOK(task'[w])
    OBVIOUS
  <2> DEFINE later == [task[w] EXCEPT !.elapsed = @ + 1,
                         !.since = IF task[w].at = "claiming" THEN @ + 1 ELSE @]
  <2>1. TaskOK(later)
    BY <1>2 DEF TaskOK, Task
  <2>2. QED  BY <1>2, <1>10, <2>1 DEF Tick
<1>11. CASE UNCHANGED task
  BY <1>11
<1>12. CASE \E w \in Worker : WorkerStep(w)
  BY <1>3, <1>4, <1>5, <1>6, <1>7, <1>8, <1>12
  DEF WorkerStep, ClaimCollides, Yield, Succeed, Discard, CallFails, SetupFails,
      LateError, RecordFailure, FailureUnrecorded, Retry, Ack
<1>13. CASE \E a \in Requester : \/ Lookup(a) \/ RequestStep(a) \/ ApiCrash(a)
                                 \/ \E c \in Check : Insert(a, c)
  BY <1>11, <1>13 DEF Lookup, RequestStep, Decline, Dispatch, DispatchError, RecordRefusal,
                      ApiCrash, Insert
<1>14. QED
  BY <1>8, <1>9, <1>10, <1>11, <1>12, <1>13 DEF Next, WorkerLost, HardLimitKill, vars

\* Every variable keeps its type: rows, messages, tasks and requests stay within
\* the values the code writes, retry counts and countdowns included.
THEOREM TypeCorrect == Spec => []TypeOK
<1>1. Spec => [](TypeOK /\ TaskInv)
  BY TypeInit, TypeStep, TaskStep, PTL DEF Spec
<1>2. QED  BY <1>1, PTL

-------------------------------------------------------------------------------
(* The rows: who changes them, and when.                                       *)

\* The environment raises no error after the fact: a dispatch that is reported
\* as failed did not reach the broker, a durable result is not followed by one.
NoLateFaults == "late_error" \notin Faults /\ "ambiguous_dispatch" \notin Faults

OneActive == \A c, d \in Check : row[c].active /\ row[d].active => c = d

\* The row under a task's own token is running for as long as the task may yet
\* write to it.
MayWrite(w) == task[w].at \in {"calling", "failing"} /\ task[w].holds

HolderInv ==
  \A w \in Worker :
    MayWrite(w) /\ row[CheckOf(w)].token = w => row[CheckOf(w)].status = "running"

\* Nothing is on its way to row c.
Quiet(c) ==
  /\ \A m \in Message : m.check = c => queue[m] = 0
  /\ \A w \in Worker : Busy(w) => CheckOf(w) # c

Undispatched(a) == request[a].at \in {"inserted", "refused"}

QuietInv ==
  /\ \A c \in Check : row[c].status = "absent" => Quiet(c)
  /\ \A a \in Requester : Undispatched(a) =>
       row[request[a].check].status = "pending" /\ Quiet(request[a].check)
  /\ \A a, b \in Requester :
       Undispatched(a) /\ Undispatched(b) /\ request[a].check = request[b].check => a = b

RowInv == ActiveKeyMarksActive /\ OneActive /\ HolderInv /\ QuietInv

IInv == TypeOK /\ TaskInv /\ RowInv

\* A row changes by one of six statements only.
LEMMA RowChange ==
  ASSUME TypeOK, [Next]_vars, NEW c \in Check, row'[c] # row[c]
  PROVE  \/ \E a \in Requester : Insert(a, c)
         \/ \E a \in Requester : RecordRefusal(a) /\ request[a].check = c
         \/ \E w \in Worker : CheckOf(w) = c /\ (ClaimWins(w) \/ Succeed(w))
         \/ \E w \in Worker : CheckOf(w) = c /\ RecordFailure(w) /\ FailureApplies(w)
         \/ Tick /\ row[c].status = "running"
<1>1. ~UNCHANGED row
  OBVIOUS
<1>2. CASE \E a \in Requester : \/ Lookup(a) \/ RequestStep(a) \/ ApiCrash(a)
                                \/ \E d \in Check : Insert(a, d)
  <2>1. \/ \E a \in Requester : RecordRefusal(a)
        \/ \E a \in Requester, d \in Check : Insert(a, d)
    BY <1>1, <1>2 DEF Lookup, RequestStep, Decline, Dispatch, DispatchError, ApiCrash
  <2>2. QED  BY <2>1 DEF RecordRefusal, Insert, TypeOK
<1>3. CASE \E w \in Worker : \/ WorkerStep(w) \/ WorkerLost(w) \/ HardLimitKill(w)
                             \/ \E m \in Message : Deliver(w, m)
  <2>1. \E w \in Worker : ClaimWins(w) \/ Succeed(w) \/ (RecordFailure(w) /\ FailureApplies(w))
    BY <1>1, <1>3
    DEF WorkerStep, WorkerLost, HardLimitKill, Deliver, Load, ClaimLoses, ClaimCollides, Yield,
        Discard, CallFails, SetupFails, LateError, Fail, RecordFailure, FailureUnrecorded, Retry, Ack
  <2>2. QED  BY <2>1 DEF ClaimWins, Succeed, RecordFailure, TypeOK
<1>4. CASE Tick
  BY <1>4 DEF Tick
<1>5. QED  BY <1>1, <1>2, <1>3, <1>4 DEF Next, vars

\* A worker goes on with the job it has, or drops it, and sends nothing else.
LEMMA WorkerKeepsJob ==
  ASSUME TypeOK, NEW w \in Worker, WorkerStep(w) \/ WorkerLost(w) \/ HardLimitKill(w)
  PROVE  /\ Busy(w)
         /\ \A v \in Worker : Busy(v)' => Busy(v) /\ CheckOf(v)' = CheckOf(v)
         /\ UNCHANGED queue \/ \E m : m.check = CheckOf(w) /\ Send(m)
<1> USE DEF TypeOK
<1>1. Busy(w)
  BY DEF Busy, WorkerStep, WorkerLost, HardLimitKill, Load, ClaimWins, ClaimLoses, ClaimCollides,
         Yield, Succeed, Discard, CallFails, SetupFails, LateError, RecordFailure,
         FailureUnrecorded, Retry, Ack
<1>2. ASSUME NEW t, t.at = "idle" \/ t.job = task[w].job, task' = [task EXCEPT ![w] = t]
      PROVE  \A v \in Worker : Busy(v)' => Busy(v) /\ CheckOf(v)' = CheckOf(v)
  BY <1>1, <1>2 DEF Busy, CheckOf
<1>3. task[w] \in Task
  OBVIOUS
<1>4. ASSUME NEW s, Go(w, s)
      PROVE  \A v \in Worker : Busy(v)' => Busy(v) /\ CheckOf(v)' = CheckOf(v)
  BY <1>2, <1>3, <1>4 DEF Go, Task
<1>5. ASSUME NEW p \in BOOLEAN, Fail(w, p)
      PROVE  \A v \in Worker : Busy(v)' => Busy(v) /\ CheckOf(v)' = CheckOf(v)
  BY <1>2, <1>3, <1>5 DEF Fail, Task
<1>6. ASSUME task' = [task EXCEPT ![w] = NoTask]
      PROVE  \A v \in Worker : Busy(v)' => Busy(v) /\ CheckOf(v)' = CheckOf(v)
  <2>1. NoTask.at = "idle"
    BY DEF NoTask, Started
  <2>2. QED  BY <1>2, <1>6, <2>1
<1>7. ASSUME Load(w) \/ ClaimWins(w)
      PROVE  \A v \in Worker : Busy(v)' => Busy(v) /\ CheckOf(v)' = CheckOf(v)
  <2>1. \/ Go(w, "yielding")
        \/ task' = [task EXCEPT ![w] = [@ EXCEPT !.at = "claiming", !.since = 0]]
        \/ task' = [task EXCEPT ![w] = [@ EXCEPT !.at = "calling", !.holds = TRUE, !.since = 0]]
    BY <1>7 DEF Load, ClaimWins
  <2>2. QED  BY <1>2, <1>3, <1>4, <2>1 DEF Task
<1>8. \A v \in Worker : Busy(v)' => Busy(v) /\ CheckOf(v)' = CheckOf(v)
  BY <1>4, <1>5, <1>6, <1>7
  DEF WorkerStep, WorkerLost, HardLimitKill, ClaimLoses, ClaimCollides, Yield, Succeed, Discard,
      CallFails, SetupFails, LateError, RecordFailure, AfterFailure, FailureUnrecorded, Retry, Ack
<1>9. UNCHANGED queue \/ \E m : m.check = CheckOf(w) /\ Send(m)
  <2>1. ASSUME Retry(w) PROVE \E m : m.check = CheckOf(w) /\ Send(m)
    <3>1. [task[w].job EXCEPT !.retries = @ + 1].check = CheckOf(w)
      BY <1>3 DEF CheckOf, Task, Message
    <3>2. QED  BY <2>1, <3>1 DEF Retry
  <2>2. ASSUME WorkerLost(w) PROVE \E m : m.check = CheckOf(w) /\ Send(m)
    BY <2>2 DEF WorkerLost, CheckOf
  <2>3. ASSUME Yield(w) PROVE UNCHANGED queue \/ \E m : m.check = CheckOf(w) /\ Send(m)
    BY <2>3 DEF Yield
  <2>4. QED
    BY <2>1, <2>2, <2>3
    DEF WorkerStep, HardLimitKill, Load, ClaimWins, ClaimLoses, ClaimCollides, Succeed, Discard,
        CallFails, SetupFails, LateError, Fail, RecordFailure, FailureUnrecorded, Ack
<1>10. QED  BY <1>1, <1>8, <1>9

\* Only a row's own request or a task that has it in hand can send to it.
LEMMA QuietKept ==
  ASSUME TypeOK, [Next]_vars, NEW c \in Check, Quiet(c), NoLateFaults
  PROVE  Quiet(c)' \/ \E a \in Requester : Dispatch(a) /\ request[a].check = c
<1> USE MessageTypes DEF TypeOK
<1>1. ASSUME NEW w \in Worker, WorkerStep(w) \/ WorkerLost(w) \/ HardLimitKill(w)
      PROVE  Quiet(c)'
  BY <1>1, WorkerKeepsJob DEF Quiet, Send
<1>2. ASSUME NEW w \in Worker, NEW m \in Message, Deliver(w, m) PROVE Quiet(c)'
  <2>1. m.check # c
    BY <1>2 DEF Deliver, Quiet
  <2>2. \A k \in Message : k.check = c => queue'[k] = 0
    BY <1>2, <2>1 DEF Deliver, Quiet
  <2>3. \A v \in Worker : Busy(v)' => CheckOf(v)' # c
    BY <1>2, <2>1 DEF Deliver, Quiet, Busy, CheckOf, Started
  <2>4. QED  BY <2>2, <2>3 DEF Quiet
<1>3. ASSUME Tick PROVE Quiet(c)'
  <2>1. ASSUME NEW k \in Message, k.check = c PROVE queue'[k] = 0
    <3>1. queue[k] = 0 /\ (k.eta # MaxEta => queue[Later(k)] = 0)
      BY <2>1 DEF Quiet
    <3>2. queue'[k] = (IF k.eta = 0 THEN queue[k] ELSE 0)
                        + (IF k.eta = MaxEta THEN 0 ELSE queue[Later(k)])
      BY <1>3 DEF Tick
    <3>3. QED  BY <3>1, <3>2
  <2>2. \A v \in Worker : Busy(v)' => Busy(v) /\ CheckOf(v)' = CheckOf(v)
    BY <1>3 DEF Tick, Busy, CheckOf, Task
  <2>3. QED  BY <2>1, <2>2 DEF Quiet
<1>4. ASSUME NEW a \in Requester, Dispatch(a), request[a].check # c PROVE Quiet(c)'
  <2>1. FirstMessage(request[a].check).check # c
    BY <1>4 DEF FirstMessage
  <2>2. QED  BY <1>4, <2>1 DEF Dispatch, Send, Quiet, Busy, CheckOf
<1>5. CASE UNCHANGED <<queue, task>>
  BY <1>5 DEF Quiet, Busy, CheckOf
<1>6. CASE \E a \in Requester : \/ Lookup(a) \/ RequestStep(a) \/ ApiCrash(a)
                                \/ \E d \in Check : Insert(a, d)
  BY <1>4, <1>5, <1>6
  DEF Lookup, RequestStep, Decline, DispatchError, RecordRefusal, ApiCrash, Insert, NoLateFaults
<1>7. QED  BY <1>1, <1>2, <1>3, <1>5, <1>6 DEF Next, vars

LEMMA QuietStep ==
  ASSUME TypeOK, [Next]_vars, QuietInv, NoLateFaults
  PROVE  QuietInv'
<1> USE MessageTypes DEF TypeOK
<1>1. ASSUME NEW c \in Check, row[c].status # "absent" PROVE row'[c].status # "absent"
  <2>1. ASSUME NEW a \in Requester, RecordRefusal(a), request[a].check = c
        PROVE  row'[c].status # "absent"
    BY <2>1 DEF RecordRefusal, Row
  <2>2. ASSUME NEW w \in Worker, CheckOf(w) = c, ClaimWins(w) \/ Succeed(w)
        PROVE  row'[c].status # "absent"
    <3>1. row[c] \in Row
      OBVIOUS
    <3>2. CASE ClaimWins(w)
      BY <2>2, <3>1, <3>2 DEF ClaimWins, Row
    <3>3. CASE Succeed(w)
      BY <2>2, <3>1, <3>3 DEF Succeed, Row
    <3>4. QED  BY <2>2, <3>2, <3>3
  <2>3. ASSUME NEW w \in Worker, CheckOf(w) = c, RecordFailure(w), FailureApplies(w)
        PROVE  row'[c].status # "absent"
    <3>1. row'[c] = FailedRow(row[c], task[w].retrying)
      BY <2>3 DEF RecordFailure
    <3>2. row[c] \in Row
      OBVIOUS
    <3>3. QED  BY <3>1, <3>2 DEF FailedRow, Row
  <2>4. ASSUME Tick PROVE row'[c].status # "absent"
    BY <1>1, <2>4 DEF Tick, Row
  <2>5. QED  BY <1>1, <2>1, <2>2, <2>3, <2>4, RowChange DEF Insert
<1>2. ASSUME NEW c \in Check, row'[c].status = "absent" PROVE Quiet(c)'
  <2>1. row[c].status = "absent" /\ Quiet(c)
    BY <1>1, <1>2 DEF QuietInv
  <2>2. ASSUME NEW a \in Requester, Dispatch(a), request[a].check = c PROVE FALSE
    BY <2>1, <2>2 DEF Dispatch, QuietInv, Undispatched
  <2>3. QED  BY <2>1, <2>2, QuietKept
<1>3. ASSUME NEW a \in Requester, Undispatched(a)'
      PROVE  \/ Undispatched(a) /\ request'[a].check = request[a].check
             \/ \E c \in Check : Insert(a, c) /\ request'[a].check = c
  <2>1. CASE \E b \in Requester : \/ Lookup(b) \/ RequestStep(b) \/ ApiCrash(b)
                                  \/ \E d \in Check : Insert(b, d)
    <3>1. PICK b \in Requester : \/ Lookup(b) \/ RequestStep(b) \/ ApiCrash(b)
                                 \/ \E d \in Check : Insert(b, d)
      BY <2>1
    <3>2. CASE a # b
      BY <1>3, <3>1, <3>2 DEF Lookup, RequestStep, Decline, Dispatch, DispatchError,
         RecordRefusal, ApiCrash, Insert, Undispatched
    <3>3. CASE a = b
      BY <1>3, <3>1, <3>3 DEF Lookup, RequestStep, Decline, Dispatch, DispatchError,
         RecordRefusal, ApiCrash, Insert, Undispatched, NoRequest, Request
    <3>4. QED  BY <3>2, <3>3
  <2>2. CASE UNCHANGED request
    BY <1>3, <2>2 DEF Undispatched
  <2>3. QED
    BY <2>1, <2>2 DEF Next, vars, Tick, Deliver, WorkerStep, WorkerLost, HardLimitKill, Load,
       ClaimWins, ClaimLoses, ClaimCollides, Yield, Succeed, Discard, CallFails, SetupFails,
       LateError, Fail, RecordFailure, FailureUnrecorded, Retry, Ack
<1>4. ASSUME NEW a \in Requester, NEW c \in Check, Insert(a, c)
      PROVE  row'[c].status = "pending" /\ Quiet(c)'
  <2>1. row'[c].status = "pending"
    BY <1>4 DEF Insert, NewRow, NoRow
  <2>2. Quiet(c)
    BY <1>4 DEF Insert, QuietInv
  <2>3. QED  BY <1>4, <2>1, <2>2 DEF Insert, Quiet, Busy, CheckOf
<1>5. ASSUME NEW a \in Requester, Undispatched(a), Undispatched(a)',
             NEW c \in Check, request[a].check = c
      PROVE  row'[c].status = "pending" /\ Quiet(c)'
  <2>1. row[c].status = "pending" /\ Quiet(c)
    BY <1>5 DEF QuietInv
  <2>2. ASSUME NEW b \in Requester, RecordRefusal(b) \/ Dispatch(b), request[b].check = c
        PROVE  FALSE
    <3>1. b = a
      BY <1>5, <2>2 DEF RecordRefusal, Dispatch, Undispatched, QuietInv
    <3>2. request'[a] = NoRequest
      BY <2>2, <3>1 DEF RecordRefusal, Dispatch
    <3>3. QED  BY <1>5, <3>2 DEF Undispatched, NoRequest
  <2>3. ASSUME NEW w \in Worker, CheckOf(w) = c, ClaimWins(w) \/ Succeed(w) \/ RecordFailure(w)
        PROVE  FALSE
    BY <2>1, <2>3 DEF Quiet, Busy, ClaimWins, Succeed, RecordFailure
  <2>4. row'[c] = row[c]
    BY <2>1, <2>2, <2>3, RowChange DEF Insert
  <2>5. Quiet(c)'
    BY <2>1, <2>2, QuietKept
  <2>6. QED  BY <2>1, <2>4, <2>5
<1>6. ASSUME NEW a \in Requester, Undispatched(a)'
      PROVE  (row[request[a].check].status = "pending" /\ Quiet(request[a].check))'
  <2>1. PICK c \in Check : request'[a].check = c
    <3>1. request[a].check \in Check
      BY DEF Request
    <3>2. QED  BY <1>3, <1>6, <3>1
  <2>2. row'[c].status = "pending" /\ Quiet(c)'
    BY <1>3, <1>4, <1>5, <1>6, <2>1
  <2>3. QED  BY <2>1, <2>2 DEF Quiet
<1>7. ASSUME NEW a \in Requester, NEW b \in Requester,
             Undispatched(a)', Undispatched(b)', request'[a].check = request'[b].check
      PROVE  a = b
  <2>1. ASSUME NEW d \in Requester, NEW c \in Check, Insert(d, c),
               NEW e \in Requester, Undispatched(e), request[e].check = c
        PROVE  FALSE
    BY <2>1 DEF Insert, QuietInv
  <2>2. ASSUME NEW d \in Requester, NEW c \in Check, Insert(d, c),
               NEW e \in Requester, Undispatched(e)', request'[e].check = request'[d].check
        PROVE  d = e
    <3>1. request'[d].check = c
      BY <2>2 DEF Insert
    <3>2. CASE Undispatched(e) /\ request'[e].check = request[e].check
      BY <2>1, <2>2, <3>1, <3>2
    <3>3. CASE \E k \in Check : Insert(e, k)
      BY <2>2, <3>3 DEF Insert
    <3>4. QED  BY <1>3, <2>2, <3>2, <3>3
  <2>3. CASE \E c \in Check : Insert(a, c) \/ Insert(b, c)
    BY <1>7, <2>2, <2>3
  <2>4. CASE \A c \in Check : ~Insert(a, c) /\ ~Insert(b, c)
    <3>1. Undispatched(a) /\ Undispatched(b) /\ request[a].check = request[b].check
      BY <1>3, <1>7, <2>4
    <3>2. QED  BY <3>1 DEF QuietInv
  <2>5. QED  BY <2>3, <2>4
<1>8. QED  BY <1>2, <1>6, <1>7 DEF QuietInv

\* A recorded failure finds its row in flight.
LEMMA FailureFindsActive ==
  ASSUME TypeOK, RowInv, NEW w \in Worker, RecordFailure(w), FailureApplies(w)
  PROVE  row[CheckOf(w)].status \in Active /\ row[CheckOf(w)].active
<1>1. row[CheckOf(w)].status \in Active
  BY DEF RowInv, HolderInv, MayWrite, RecordFailure, FailureApplies, Active
<1>2. CheckOf(w) \in Check
  BY DEF TypeOK, Task, Message, CheckOf
<1>3. QED  BY <1>1, <1>2 DEF RowInv, ActiveKeyMarksActive

LEMMA KeyStep ==
  ASSUME TypeOK, [Next]_vars, RowInv
  PROVE  ActiveKeyMarksActive'
<1> SUFFICES ASSUME NEW c \in Check, row'[c] # row[c]
             PROVE  row'[c].active <=> row'[c].status \in Active
  BY DEF RowInv, ActiveKeyMarksActive
<1> USE DEF TypeOK, Active
<1>0. row[c] \in Row
  OBVIOUS
<1>1. ASSUME NEW a \in Requester, Insert(a, c)
      PROVE  row'[c].active <=> row'[c].status \in Active
  BY <1>1 DEF Insert, NewRow, NoRow
<1>2. ASSUME NEW a \in Requester, RecordRefusal(a), request[a].check = c
      PROVE  row'[c].active <=> row'[c].status \in Active
  BY <1>0, <1>2 DEF RecordRefusal, Row
<1>3. ASSUME NEW w \in Worker, CheckOf(w) = c, ClaimWins(w)
      PROVE  row'[c].active <=> row'[c].status \in Active
  BY <1>0, <1>3 DEF ClaimWins, Row
<1>4. ASSUME NEW w \in Worker, CheckOf(w) = c, Succeed(w)
      PROVE  row'[c].active <=> row'[c].status \in Active
  BY <1>0, <1>4 DEF Succeed, Row
<1>5. ASSUME NEW w \in Worker, CheckOf(w) = c, RecordFailure(w), FailureApplies(w)
      PROVE  row'[c].active <=> row'[c].status \in Active
  <2>1. row'[c] = FailedRow(row[c], task[w].retrying) /\ row[c].active
    BY <1>5, FailureFindsActive DEF RecordFailure
  <2>2. QED  BY <1>0, <2>1 DEF FailedRow, Row
<1>6. ASSUME Tick, row[c].status = "running"
      PROVE  row'[c].active <=> row'[c].status \in Active
  BY <1>0, <1>6 DEF Tick, Row, RowInv, ActiveKeyMarksActive
<1>7. QED  BY <1>1, <1>2, <1>3, <1>4, <1>5, <1>6, RowChange

LEMMA OneActiveStep ==
  ASSUME TypeOK, [Next]_vars, RowInv
  PROVE  OneActive'
<1> USE DEF TypeOK
<1>1. ASSUME NEW c \in Check, row'[c].active, ~row[c].active
      PROVE  NoOtherActive(c) /\ \A d \in Check \ {c} : row'[d] = row[d]
  <2>0. row[c] \in Row
    OBVIOUS
  <2>1. ASSUME NEW a \in Requester, Insert(a, c)
        PROVE  NoOtherActive(c) /\ \A d \in Check \ {c} : row'[d] = row[d]
    BY <2>1 DEF Insert
  <2>2. ASSUME NEW w \in Worker, CheckOf(w) = c, ClaimWins(w)
        PROVE  NoOtherActive(c) /\ \A d \in Check \ {c} : row'[d] = row[d]
    BY <2>2 DEF ClaimWins
  <2>3. ASSUME NEW a \in Requester, RecordRefusal(a), request[a].check = c PROVE FALSE
    BY <1>1, <2>0, <2>3 DEF RecordRefusal, Row
  <2>4. ASSUME NEW w \in Worker, CheckOf(w) = c, Succeed(w) PROVE FALSE
    BY <1>1, <2>0, <2>4 DEF Succeed, Row
  <2>5. ASSUME NEW w \in Worker, CheckOf(w) = c, RecordFailure(w), FailureApplies(w) PROVE FALSE
    BY <1>1, <2>5, FailureFindsActive
  <2>6. ASSUME Tick PROVE FALSE
    BY <1>1, <2>0, <2>6 DEF Tick, Row
  <2>7. QED  BY <1>1, <2>1, <2>2, <2>3, <2>4, <2>5, <2>6, RowChange
<1>2. QED  BY <1>1 DEF RowInv, OneActive, NoOtherActive

\* A task gets its token by winning a claim, and keeps its job.
LEMMA TokenFromClaim ==
  ASSUME TypeOK, TaskInv, [Next]_vars, NoLateFaults, NEW v \in Worker, MayWrite(v)'
  PROVE  /\ Busy(v) /\ CheckOf(v)' = CheckOf(v)
         /\ MayWrite(v) \/ ClaimWins(v)
<1> USE DEF TypeOK
<1>1. task[v] \in Task /\ TaskOK(task[v])
  BY DEF TaskInv
<1>2. CASE task'[v] = task[v]
  BY <1>2 DEF MayWrite, Busy, CheckOf
<1>3. ASSUME NEW w \in Worker, WorkerStep(w), w = v, task'[v] # task[v]
      PROVE  MayWrite(v) \/ ClaimWins(v)
  <2>1. ASSUME NEW s, Go(v, s), s \notin {"calling", "failing"} PROVE FALSE
    BY <1>1, <2>1 DEF Go, MayWrite, Task
  <2>2. ASSUME Load(v) PROVE FALSE
    <3>1. task'[v].at \in {"claiming", "yielding"}
      BY <1>1, <2>2 DEF Load, Go, Task
    <3>2. QED  BY <3>1 DEF MayWrite
  <2>3. ASSUME NEW p \in BOOLEAN, Fail(v, p), task[v].at \in {"loading", "claiming", "yielding"}
        PROVE  FALSE
    <3>1. task'[v].holds = task[v].holds
      BY <1>1, <2>3 DEF Fail, Task
    <3>2. QED  BY <1>1, <2>3, <3>1 DEF MayWrite, TaskOK
  <2>4. ASSUME CallFails(v) PROVE MayWrite(v)
    BY <1>1, <2>4 DEF CallFails, MayWrite, TaskOK
  <2>5. ASSUME Ack(v) PROVE FALSE
    BY <2>5 DEF Ack, MayWrite, NoTask, Started
  <2>6. ASSUME RecordFailure(v) \/ FailureUnrecorded(v) PROVE FALSE
    BY <2>1, <2>6 DEF RecordFailure, FailureUnrecorded, AfterFailure
  <2>7. QED
    BY <1>3, <2>1, <2>2, <2>3, <2>4, <2>5, <2>6
    DEF WorkerStep, ClaimLoses, ClaimCollides, Yield, Succeed, Discard, SetupFails, LateError,
        Retry, NoLateFaults
<1>4. ASSUME NEW w \in Worker, WorkerStep(w), w # v PROVE task'[v] = task[v]
  BY <1>4 DEF WorkerStep, Load, ClaimWins, ClaimLoses, ClaimCollides, Yield, Succeed, Discard,
     CallFails, SetupFails, LateError, Fail, RecordFailure, FailureUnrecorded, AfterFailure,
     Retry, Ack, Go
<1>5. ASSUME NEW w \in Worker, WorkerLost(w) \/ HardLimitKill(w) \/ \E m \in Message : Deliver(w, m)
      PROVE  task'[v] = task[v]
  <2>1. ASSUME v = w PROVE FALSE
    BY <1>5, <2>1 DEF WorkerLost, HardLimitKill, Deliver, MayWrite, NoTask, Started
  <2>2. QED  BY <1>5, <2>1 DEF WorkerLost, HardLimitKill, Deliver
<1>6. CASE Tick
  <2>1. task'[v].at = task[v].at /\ task'[v].holds = task[v].holds /\ task'[v].job = task[v].job
    BY <1>1, <1>6 DEF Tick, Task
  <2>2. QED  BY <2>1 DEF MayWrite, Busy, CheckOf
<1>7. CASE \E w \in Worker : WorkerStep(w)
  <2>1. task'[v] = task[v] \/ MayWrite(v) \/ ClaimWins(v)
    BY <1>3, <1>4, <1>7
  <2>2. Busy(v)'
    BY DEF MayWrite, Busy
  <2>3. Busy(v) /\ CheckOf(v)' = CheckOf(v)
    BY <1>7, <2>2, WorkerKeepsJob
  <2>4. QED  BY <2>1, <2>3, <1>2
<1>8. CASE \E a \in Requester : \/ Lookup(a) \/ RequestStep(a) \/ ApiCrash(a)
                                \/ \E c \in Check : Insert(a, c)
  BY <1>2, <1>8 DEF Lookup, RequestStep, Decline, Dispatch, DispatchError, RecordRefusal, ApiCrash,
     Insert
<1>9. QED  BY <1>2, <1>5, <1>6, <1>7, <1>8 DEF Next, vars

LEMMA HolderStep ==
  ASSUME TypeOK, TaskInv, [Next]_vars, RowInv, NoLateFaults
  PROVE  HolderInv'
<1> USE DEF TypeOK
<1> SUFFICES ASSUME NEW v \in Worker, NEW c \in Check, MayWrite(v)', CheckOf(v)' = c,
                    row'[c].token = v
             PROVE  row'[c].status = "running"
  <2>1. \A v \in Worker : CheckOf(v)' \in Check
    BY TypeStep DEF CheckOf, Task, Message
  <2>2. QED  BY <2>1 DEF HolderInv, CheckOf
<1>1. /\ Busy(v) /\ CheckOf(v) = c
      /\ MayWrite(v) \/ ClaimWins(v)
  BY TokenFromClaim
<1>2. row[c] \in Row /\ ~Quiet(c)
  BY <1>1 DEF Quiet
<1>3. CASE ClaimWins(v)
  BY <1>1, <1>2, <1>3 DEF ClaimWins, Row
<1>4. ASSUME MayWrite(v), row'[c] # row[c] PROVE row'[c].status = "running"
  <2>1. row[c].token = v => row[c].status = "running"
    BY <1>1, <1>4 DEF RowInv, HolderInv
  <2>2. ASSUME NEW a \in Requester,
               Insert(a, c) \/ (RecordRefusal(a) /\ request[a].check = c)
        PROVE  FALSE
    BY <1>2, <2>2 DEF Insert, RecordRefusal, RowInv, QuietInv, Undispatched
  <2>3. ASSUME NEW w \in Worker, CheckOf(w) = c, ClaimWins(w)
        PROVE  row'[c].status = "running"
    BY <1>2, <2>3 DEF ClaimWins, Row
  <2>4. ASSUME NEW w \in Worker, CheckOf(w) = c, Succeed(w) PROVE FALSE
    <3>1. row'[c].token = w
      BY <1>2, <2>4 DEF Succeed, OwnsLease, Row
    <3>2. task'[v].at = "reporting"
      BY <2>4, <3>1 DEF Succeed, Go, Task
    <3>3. QED  BY <3>2 DEF MayWrite
  <2>5. ASSUME NEW w \in Worker, CheckOf(w) = c, RecordFailure(w), FailureApplies(w) PROVE FALSE
    <3>0. row'[c] = FailedRow(row[c], task[w].retrying)
      BY <2>5 DEF RecordFailure
    <3>1. row'[c].token = row[c].token
      BY <1>2, <3>0 DEF FailedRow, Row
    <3>2. row[c].status = "running" /\ row[c].token = v
      BY <2>1, <3>1
    <3>3. w = v
      BY <2>5, <3>2 DEF FailureApplies
    <3>4. task'[v].at \in {"raising", "acking"}
      BY <2>5, <3>3 DEF RecordFailure, AfterFailure, Go, Task
    <3>5. QED  BY <3>4 DEF MayWrite
  <2>6. ASSUME Tick, row[c].status = "running" PROVE row'[c].status = "running"
    BY <1>2, <2>6 DEF Tick, Row
  <2>7. QED  BY <1>4, <2>2, <2>3, <2>4, <2>5, <2>6, RowChange
<1>5. CASE MayWrite(v) /\ row'[c] = row[c]
  BY <1>1, <1>5 DEF RowInv, HolderInv
<1>6. QED  BY <1>1, <1>3, <1>4, <1>5

LEMMA InvInit == Init => IInv
<1> SUFFICES ASSUME Init PROVE RowInv
  BY TypeInit DEF IInv
<1>1. \A c \in Check : row[c].status = "absent" /\ ~row[c].active
  BY DEF Init, NoRow
<1>2. \A w \in Worker : task[w].at = "idle"
  BY DEF Init, NoTask, Started
<1>3. \A a \in Requester : request[a].at = "idle"
  BY DEF Init, NoRequest
<1>4. ActiveKeyMarksActive /\ OneActive
  BY <1>1 DEF ActiveKeyMarksActive, OneActive, Active
<1>5. HolderInv
  BY <1>2 DEF HolderInv, MayWrite
<1>6. QuietInv
  BY <1>2, <1>3 DEF QuietInv, Quiet, Undispatched, Busy, Init
<1>7. QED  BY <1>4, <1>5, <1>6 DEF RowInv

LEMMA InvStep == ASSUME NoLateFaults PROVE IInv /\ [Next]_vars => IInv'
<1> SUFFICES ASSUME IInv, [Next]_vars PROVE IInv'
  OBVIOUS
<1>1. TypeOK' /\ TaskInv'
  BY TypeStep, TaskStep DEF IInv
<1>2. ActiveKeyMarksActive' /\ OneActive'
  BY KeyStep, OneActiveStep DEF IInv
<1>3. HolderInv' /\ QuietInv'
  BY HolderStep, QuietStep DEF IInv, RowInv
<1>4. QED  BY <1>1, <1>2, <1>3 DEF IInv, RowInv

\* active_key is set exactly while a row is in flight, as long as no error is
\* raised after a result is durable (the late_error run shows what it does then).
THEOREM KeyMarksActive == ASSUME NoLateFaults PROVE Spec => []ActiveKeyMarksActive
<1>1. Spec => []IInv
  BY InvInit, InvStep, PTL DEF Spec
<1>2. IInv => ActiveKeyMarksActive
  BY DEF IInv, RowInv
<1>3. QED  BY <1>1, <1>2, PTL

LEMMA FinalStep ==
  ASSUME IInv, [Next]_vars, NEW c \in Check, row[c].status \in Terminal
  PROVE  row'[c] = row[c]
<1> USE DEF IInv
<1>1. ASSUME NEW a \in Requester, Insert(a, c) PROVE FALSE
  BY <1>1 DEF Insert, Terminal
<1>2. ASSUME NEW a \in Requester, RecordRefusal(a), request[a].check = c PROVE FALSE
  BY <1>2 DEF RecordRefusal, RowInv, QuietInv, Undispatched, Terminal
<1>3. ASSUME NEW w \in Worker, CheckOf(w) = c, ClaimWins(w) \/ Succeed(w) PROVE FALSE
  BY <1>3 DEF ClaimWins, Claimable, Succeed, OwnsLease, Terminal
<1>4. ASSUME NEW w \in Worker, CheckOf(w) = c, RecordFailure(w), FailureApplies(w) PROVE FALSE
  BY <1>4, FailureFindsActive DEF Active, Terminal
<1>5. QED  BY <1>1, <1>2, <1>3, <1>4, RowChange DEF Terminal

\* A finished review never changes again, however many deliveries, wakeups,
\* retries and stale workers there are, whatever the lease and the time limit.
THEOREM FinishedForGood == ASSUME NoLateFaults PROVE Spec => TerminalIsFinal
<1>1. Spec => []IInv
  BY InvInit, InvStep, PTL DEF Spec
<1>2. IInv /\ [Next]_vars => [\A c \in Check : row[c].status \in Terminal => row'[c] = row[c]]_vars
  BY FinalStep
<1>3. QED  BY <1>1, <1>2, PTL DEF Spec, TerminalIsFinal

-------------------------------------------------------------------------------
(* The lease outlives every task that holds it.                                *)

\* A claim is at most as old as the task that made it, which the hard limit kills
\* before the lease is up: that is why no other delivery can take the row over.
HeldBy(w) == OwnsLease(w) /\ row[CheckOf(w)].age <= task[w].elapsed
LeaseInv == \A w \in Worker : Calling(w) => HeldBy(w)

\* How a task comes to be calling, or goes on calling.
LEMMA CallFromClaim ==
  ASSUME TypeOK, TaskInv, [Next]_vars, NEW w \in Worker, Calling(w)'
  PROVE  \/ ClaimWins(w)
         \/ /\ Calling(w) /\ CheckOf(w)' = CheckOf(w)
            /\ IF Tick THEN task'[w].elapsed = task[w].elapsed + 1 ELSE task'[w] = task[w]
<1> USE DEF TypeOK
<1>1. task[w] \in Task
  OBVIOUS
<1>2. CASE Tick
  <2>1. Busy(w)
    BY <1>2 DEF Tick, Calling, Busy
  <2>2. task'[w] = [task[w] EXCEPT !.elapsed = @ + 1,
                      !.since = IF task[w].at = "claiming" THEN @ + 1 ELSE @]
    BY <1>2, <2>1 DEF Tick
  <2>3. task'[w].at = task[w].at /\ task'[w].job = task[w].job
        /\ task'[w].elapsed = task[w].elapsed + 1
    BY <1>1, <2>2 DEF Task
  <2>4. QED  BY <1>2, <2>3 DEF Calling, CheckOf
<1>3. ASSUME ~Tick, task'[w] = task[w]
      PROVE  /\ Calling(w) /\ CheckOf(w)' = CheckOf(w)
             /\ IF Tick THEN task'[w].elapsed = task[w].elapsed + 1 ELSE task'[w] = task[w]
  BY <1>3 DEF Calling, CheckOf
<1>4. ASSUME WorkerStep(w) PROVE ClaimWins(w)
  <2>1. ASSUME NEW s, s # "calling", Go(w, s) PROVE FALSE
    BY <1>1, <2>1 DEF Go, Calling, Task
  <2>2. ASSUME NEW p, Fail(w, p) PROVE FALSE
    BY <1>1, <2>2 DEF Fail, Calling, Task
  <2>3. ASSUME Load(w) PROVE FALSE
    <3>1. task'[w].at \in {"claiming", "yielding"}
      BY <1>1, <2>3 DEF Load, Go, Task
    <3>2. QED  BY <3>1 DEF Calling
  <2>4. ASSUME Ack(w) PROVE FALSE
    BY <2>4 DEF Ack, Calling, NoTask, Started
  <2>5. ASSUME RecordFailure(w) \/ FailureUnrecorded(w) PROVE FALSE
    BY <2>1, <2>5 DEF RecordFailure, FailureUnrecorded, AfterFailure
  <2>6. QED
    BY <1>4, <2>1, <2>2, <2>3, <2>4, <2>5
    DEF WorkerStep, ClaimLoses, ClaimCollides, Yield, Succeed, Discard, CallFails, SetupFails,
        LateError, Retry
<1>5. ASSUME NEW v \in Worker, WorkerStep(v), v # w PROVE task'[w] = task[w]
  BY <1>5 DEF WorkerStep, Load, ClaimWins, ClaimLoses, ClaimCollides, Yield, Succeed, Discard,
     CallFails, SetupFails, LateError, Fail, RecordFailure, FailureUnrecorded, AfterFailure,
     Retry, Ack, Go
<1>6. ASSUME NEW v \in Worker, WorkerLost(v) \/ HardLimitKill(v) \/ \E m \in Message : Deliver(v, m)
      PROVE  task'[w] = task[w]
  <2>1. v # w
    BY <1>6 DEF WorkerLost, HardLimitKill, Deliver, Calling, NoTask, Started
  <2>2. QED  BY <1>6, <2>1 DEF WorkerLost, HardLimitKill, Deliver
<1>7. CASE \E a \in Requester : \/ Lookup(a) \/ RequestStep(a) \/ ApiCrash(a)
                                \/ \E c \in Check : Insert(a, c)
  BY <1>2, <1>3, <1>7 DEF Lookup, RequestStep, Decline, Dispatch, DispatchError, RecordRefusal,
     ApiCrash, Insert
<1>8. QED  BY <1>2, <1>3, <1>4, <1>5, <1>6, <1>7 DEF Next, vars

LEMMA LeaseStep ==
  ASSUME IInv, LeaseInv, [Next]_vars, HardLimit < Lease
  PROVE  LeaseInv'
<1> USE ConstantTypes DEF IInv, TypeOK
<1> SUFFICES ASSUME NEW w \in Worker, Calling(w)' PROVE HeldBy(w)'
  BY DEF LeaseInv
<1> DEFINE c == CheckOf(w)
<1>1. c \in Check /\ task[w] \in Task /\ TaskOK(task[w])
  BY DEF CheckOf, Task, Message, TaskInv
<1>2. row[c] \in Row
  BY <1>1
<1>3. CASE ClaimWins(w)
  <2>1. row'[c] = [row[c] EXCEPT !.status = "running", !.active = TRUE, !.token = w,
                                 !.age = task[w].since]
    BY <1>1, <1>3 DEF ClaimWins
  <2>2. task'[w] = [task[w] EXCEPT !.at = "calling", !.holds = TRUE, !.since = 0]
    BY <1>3 DEF ClaimWins
  <2>3. task'[w].job = task[w].job /\ task'[w].elapsed = task[w].elapsed
    BY <1>1, <2>2 DEF Task
  <2>4. row'[c].status = "running" /\ row'[c].token = w /\ row'[c].age = task[w].since
    BY <1>2, <2>1 DEF Row
  <2>5. task[w].since <= task[w].elapsed
    BY <1>1 DEF TaskOK
  <2>6. QED  BY <2>3, <2>4, <2>5 DEF HeldBy, OwnsLease, CheckOf
<1>4. ASSUME Calling(w), CheckOf(w)' = c,
             IF Tick THEN task'[w].elapsed = task[w].elapsed + 1 ELSE task'[w] = task[w]
      PROVE  HeldBy(w)'
  <2>1. row[c].status = "running" /\ row[c].token = w /\ row[c].age <= task[w].elapsed
    BY <1>4 DEF LeaseInv, HeldBy, OwnsLease
  <2>2. CASE Tick
    <3>1. row'[c] = [row[c] EXCEPT !.age = Capped(@ + 1, MaxAge)]
      BY <1>1, <2>1, <2>2 DEF Tick
    <3>2. row'[c].age = Capped(row[c].age + 1, MaxAge)
          /\ row'[c].status = "running" /\ row'[c].token = w
      BY <1>2, <2>1, <3>1 DEF Row
    <3>3. row[c].age \in Nat /\ task[w].elapsed \in Nat /\ MaxAge \in Nat
      BY <1>1, <1>2 DEF Row, Task, MaxAge
    <3>4. row'[c].age <= task[w].elapsed + 1
      BY <2>1, <3>2, <3>3 DEF Capped
    <3>5. QED  BY <1>4, <2>2, <3>2, <3>4 DEF HeldBy, OwnsLease
  <2>3. ASSUME ~Tick, row'[c] # row[c] PROVE FALSE
    <3>1. ASSUME NEW a \in Requester, Insert(a, c) \/ (RecordRefusal(a) /\ request[a].check = c)
          PROVE  FALSE
      BY <2>1, <3>1 DEF Insert, RecordRefusal, RowInv, QuietInv, Undispatched
    <3>2. ASSUME NEW v \in Worker, CheckOf(v) = c, ClaimWins(v) PROVE FALSE
      <4>1. row[c].age >= Lease + task[v].since
        BY <2>1, <3>2 DEF ClaimWins, Claimable
      <4>2. row[c].age <= HardLimit /\ row[c].age \in Nat /\ task[v].since \in Nat
        BY <1>1, <1>2, <2>1 DEF Task, Row, MaxAge
      <4>3. QED  BY <4>1, <4>2
    <3>3. ASSUME NEW v \in Worker, CheckOf(v) = c, Succeed(v) PROVE FALSE
      <4>1. v = w
        BY <2>1, <3>3 DEF Succeed, OwnsLease
      <4>2. task'[w].at = "reporting"
        BY <1>1, <3>3, <4>1 DEF Succeed, Go, Task
      <4>3. QED  BY <4>2 DEF Calling
    <3>4. ASSUME NEW v \in Worker, CheckOf(v) = c, RecordFailure(v), FailureApplies(v) PROVE FALSE
      <4>1. v = w
        BY <2>1, <3>4 DEF FailureApplies
      <4>2. QED  BY <1>4, <3>4, <4>1 DEF RecordFailure, Calling
    <3>5. QED  BY <1>1, <2>3, <3>1, <3>2, <3>3, <3>4, RowChange
  <2>4. CASE ~Tick /\ row'[c] = row[c]
    BY <1>4, <2>1, <2>4 DEF HeldBy, OwnsLease
  <2>5. QED  BY <2>2, <2>3, <2>4
<1>5. QED  BY <1>3, <1>4, CallFromClaim

LEMMA LeaseInvariant ==
  ASSUME NoLateFaults, HardLimit < Lease PROVE Spec => [](IInv /\ LeaseInv)
<1>1. Init => IInv /\ LeaseInv
  <2>1. Init => LeaseInv
    BY DEF Init, LeaseInv, Calling, NoTask, Started
  <2>2. QED  BY <2>1, InvInit
<1>2. IInv /\ LeaseInv /\ [Next]_vars => (IInv /\ LeaseInv)'
  BY InvStep, LeaseStep
<1>3. QED  BY <1>1, <1>2, PTL DEF Spec

\* With a lease longer than the hard time limit a calling worker is never
\* superseded: its row is running under its token until it has an answer.
THEOREM LiveWorkerKeepsLease ==
  ASSUME NoLateFaults, HardLimit < Lease PROVE Spec => []NeverSuperseded
<1>1. IInv /\ LeaseInv => NeverSuperseded
  BY DEF LeaseInv, HeldBy, NeverSuperseded
<1>2. QED  BY <1>1, LeaseInvariant, PTL

\* One paid model call at a time for a version: a consequence of the lease, of the
\* run token and of the unique active key together.
THEOREM OnePaidCall ==
  ASSUME NoLateFaults, HardLimit < Lease PROVE Spec => []OneCaller
<1>1. ASSUME IInv, LeaseInv PROVE OneCaller
  <2> SUFFICES ASSUME NEW v \in Worker, NEW w \in Worker, Calling(v), Calling(w) PROVE v = w
    BY DEF OneCaller
  <2>1. /\ CheckOf(v) \in Check /\ CheckOf(w) \in Check
        /\ row[CheckOf(v)].status = "running" /\ row[CheckOf(v)].token = v
        /\ row[CheckOf(w)].status = "running" /\ row[CheckOf(w)].token = w
    BY <1>1 DEF IInv, TypeOK, Task, Message, CheckOf, LeaseInv, HeldBy, OwnsLease
  <2>2. row[CheckOf(v)].active /\ row[CheckOf(w)].active
    BY <1>1, <2>1 DEF IInv, RowInv, ActiveKeyMarksActive, Active
  <2>3. CheckOf(v) = CheckOf(w)
    BY <1>1, <2>1, <2>2 DEF IInv, RowInv, OneActive
  <2>4. QED  BY <2>1, <2>3
<1>2. QED  BY <1>1, LeaseInvariant, PTL

-------------------------------------------------------------------------------
(* ConsistencyLease implements ReviewSlot.                                     *)

FullInv == IInv /\ LeaseInv

LEMMA FullTypes ==
  ASSUME FullInv
  PROVE  /\ \A w \in Worker : CheckOf(w) \in Check /\ task[w] \in Task
         /\ \A c \in Check : row[c] \in Row
         /\ \A w \in Worker : Calling(w) => /\ row[CheckOf(w)].status = "running"
                                            /\ row[CheckOf(w)].active
                                            /\ row[CheckOf(w)].token = w
         /\ OneCaller
<1>1. \A w \in Worker : CheckOf(w) \in Check /\ task[w] \in Task
  BY DEF FullInv, IInv, TypeOK, Task, Message, CheckOf
<1>2. \A w \in Worker : Calling(w) => row[CheckOf(w)].status = "running" /\ row[CheckOf(w)].token = w
  BY DEF FullInv, LeaseInv, HeldBy, OwnsLease
<1>3. \A w \in Worker : Calling(w) => row[CheckOf(w)].active
  BY <1>1, <1>2 DEF FullInv, IInv, RowInv, ActiveKeyMarksActive, Active
<1>4. OneCaller
  BY <1>1, <1>2, <1>3 DEF OneCaller, FullInv, IInv, RowInv, OneActive
<1>5. QED  BY <1>1, <1>2, <1>3, <1>4 DEF FullInv, IInv, TypeOK

\* The phases and the calls after a step, from what the step did.
LEMMA PhasesSame ==
  ASSUME \A c \in Check : row'[c].status = row[c].status PROVE phases' = phases
BY DEF phases, PhaseOf

LEMMA CallersSame ==
  ASSUME \A w \in Worker : Calling(w)' <=> Calling(w),
         \A w \in Worker : Calling(w) => CheckOf(w)' = CheckOf(w)
  PROVE  callers' = callers
BY DEF callers

LEMMA CallersNone == ASSUME \A w \in Worker : ~Calling(w) PROVE callers = {}
BY DEF callers

LEMMA CallersOne ==
  ASSUME OneCaller, NEW w \in Worker, Calling(w) PROVE callers = {<<w, CheckOf(w)>>}
BY DEF callers, OneCaller

\* A task that leaves its call without a result ends a call; any other step that
\* changes no phase and starts no call is a stutter.
LEMMA Leaves ==
  ASSUME FullInv, NEW w \in Worker, phases' = phases, ~Calling(w)',
         \A v \in Worker \ {w} : task'[v] = task[v]
  PROVE  [Slot!Next]_<<phases, callers>>
<1>1. \A v \in Worker \ {w} : (Calling(v)' <=> Calling(v)) /\ CheckOf(v)' = CheckOf(v)
  BY DEF Calling, CheckOf
<1>2. CASE Calling(w)
  <2>1. callers = {<<w, CheckOf(w)>>} /\ CheckOf(w) \in Check
    BY <1>2, FullTypes, CallersOne
  <2>2. \A v \in Worker : ~Calling(v)'
    BY <1>1, <1>2, FullTypes DEF OneCaller
  <2>3. callers' = {}
    BY <2>2 DEF callers
  <2>4. Slot!DropCall(w, CheckOf(w))
    BY <2>1, <2>3 DEF Slot!DropCall
  <2>5. QED  BY <2>1, <2>4 DEF Slot!Next
<1>3. CASE ~Calling(w)
  <2>1. callers' = callers
    BY <1>1, <1>3, CallersSame
  <2>2. QED  BY <2>1
<1>4. QED  BY <1>2, <1>3

\* When a review in flight is reported failed, nobody is calling for it.
LEMMA GivesUp ==
  ASSUME FullInv, NEW c \in Check, NEW r, row[c].active, row[c].status \in Active,
         row' = [row EXCEPT ![c] = r], r.status = "failed",
         \A v \in Worker : ~(Calling(v) /\ CheckOf(v) = c), callers' = callers
  PROVE  Slot!Next
<1>1. \A v \in Worker : ~Calling(v)
  BY FullTypes DEF FullInv, IInv, RowInv, OneActive
<1>2. callers = {}
  BY <1>1, CallersNone
<1>3. phases[c] = "open" /\ phases' = [phases EXCEPT ![c] = "failed"]
  BY DEF phases, PhaseOf, Active, FullInv, IInv, TypeOK
<1>4. Slot!GiveUp(c)
  BY <1>2, <1>3 DEF Slot!GiveUp
<1>5. QED  BY <1>4 DEF Slot!Next

LEMMA SlotStep ==
  ASSUME FullInv, FullInv', [Next]_vars, HardLimit < Lease
  PROVE  [Slot!Next]_<<phases, callers>>
<1> USE FullTypes
<1>0. ASSUME NEW w \in Worker, NEW s, s # "calling", Go(w, s)
      PROVE  ~Calling(w)' /\ \A v \in Worker \ {w} : task'[v] = task[v]
  BY <1>0 DEF Go, Calling, Task, FullInv, IInv, TypeOK
<1>1. CASE UNCHANGED <<row, task>>
  <2>1. phases' = phases /\ callers' = callers
    BY <1>1 DEF phases, callers, Calling, CheckOf
  <2>2. QED  BY <2>1
<1>2. ASSUME NEW a \in Requester, NEW c \in Check, Insert(a, c) PROVE Slot!Next
  <2>1. callers' = callers
    BY <1>2 DEF Insert, callers, Calling, CheckOf
  <2>2. ASSUME NEW d \in Check PROVE phases[d] # "open"
    <3>1. row[d].status \notin Active
      BY <1>2 DEF Insert, NoOtherActive, FullInv, IInv, RowInv, ActiveKeyMarksActive, Active
    <3>2. QED  BY <3>1 DEF phases, PhaseOf, Active, Row, Terminal
  <2>3. phases[c] = "absent"
    BY <1>2 DEF Insert, phases, PhaseOf, Active
  <2>4. phases' = [phases EXCEPT ![c] = "open"]
    <3>1. row'[c].status = "pending" /\ \A d \in Check \ {c} : row'[d] = row[d]
      BY <1>2 DEF Insert, NewRow, NoRow, FullInv, IInv, TypeOK
    <3>2. QED  BY <3>1, ZenonT(30) DEF phases, PhaseOf, Active
  <2>5. Slot!Open(c)
    BY <2>1, <2>2, <2>3, <2>4 DEF Slot!Open
  <2>6. QED  BY <2>5 DEF Slot!Next
<1>3. ASSUME NEW a \in Requester, RecordRefusal(a) PROVE Slot!Next
  <2> DEFINE c == request[a].check
             r == [row[c] EXCEPT !.status = "failed", !.active = FALSE]
  <2>1. c \in Check
    BY DEF FullInv, IInv, TypeOK, Request
  <2>2. row[c].status = "pending" /\ row[c].active
    BY <1>3, <2>1 DEF RecordRefusal, Undispatched, FullInv, IInv, RowInv, QuietInv,
       ActiveKeyMarksActive, Active
  <2>3. row' = [row EXCEPT ![c] = r] /\ r.status = "failed"
    BY <1>3, <2>1 DEF RecordRefusal, Row
  <2>4. callers' = callers
    BY <1>3 DEF RecordRefusal, callers, Calling, CheckOf
  <2>5. \A v \in Worker : ~(Calling(v) /\ CheckOf(v) = c)
    BY <2>2
  <2> HIDE DEF c, r
  <2>6. QED  BY <2>1, <2>2, <2>3, <2>4, <2>5, GivesUp DEF Active
<1>4. ASSUME NEW w \in Worker, ClaimWins(w) PROVE Slot!Next
  <2> DEFINE c == CheckOf(w)
  <2>1. task'[w] = [task[w] EXCEPT !.at = "calling", !.holds = TRUE, !.since = 0]
    BY <1>4 DEF ClaimWins, FullInv, IInv, TypeOK
  <2>2. Calling(w)' /\ CheckOf(w)' = c
    BY <2>1 DEF Calling, CheckOf, Task
  <2>3. row[c].status \in Active
    BY <1>4 DEF ClaimWins, Claimable, Active
  <2>4. phases' = phases
    <3>1. row'[c].status = "running" /\ \A d \in Check \ {c} : row'[d] = row[d]
      BY <1>4 DEF ClaimWins, Row, FullInv, IInv, TypeOK
    <3>2. QED  BY <2>3, <3>1 DEF phases, PhaseOf, Active
  <2>5. ASSUME NEW v \in Worker, Calling(v) PROVE FALSE
    <3>1. CheckOf(v) = c
      BY <1>4, <2>5 DEF ClaimWins, NoOtherActive
    <3>2. row[c].age <= HardLimit
      <4>1. row[c].age <= task[v].elapsed
        BY <2>5, <3>1 DEF FullInv, LeaseInv, HeldBy
      <4>2. row[c].age \in Nat /\ task[v].elapsed \in 0..HardLimit
        BY DEF Row, Task, MaxAge
      <4>3. QED  BY <4>1, <4>2, ConstantTypes
    <3>3. row[c].age >= Lease + task[w].since
      BY <1>4, <2>5, <3>1 DEF ClaimWins, Claimable
    <3>4. row[c].age \in Nat /\ task[w].since \in Nat
      BY DEF Row, Task, MaxAge
    <3>5. QED  BY <3>2, <3>3, <3>4, ConstantTypes
  <2>6. callers = {}
    BY <2>5, CallersNone
  <2>7. phases[c] = "open"
    BY <2>3 DEF phases, PhaseOf
  <2>8. callers' = {<<w, c>>}
    <3>1. \A v \in Worker \ {w} : ~Calling(v)'
      BY <1>4, <2>5 DEF ClaimWins, Calling
    <3>2. QED  BY <2>2, <3>1 DEF callers
  <2>9. Slot!StartCall(w, c)
    BY <2>8, <2>4, <2>6, <2>7 DEF Slot!StartCall
  <2>10. QED  BY <2>9 DEF Slot!Next
<1>5. ASSUME NEW w \in Worker, Succeed(w) PROVE Slot!Next
  <2> DEFINE c == CheckOf(w)
  <2>1. callers = {<<w, c>>}
    BY <1>5, CallersOne DEF Succeed, Calling
  <2>2. \A v \in Worker : ~Calling(v)'
    BY <1>0, <1>5 DEF Succeed, Calling, OneCaller
  <2>3. callers' = {}
    BY <2>2 DEF callers
  <2>4. phases[c] = "open"
    BY <1>5 DEF Succeed, OwnsLease, phases, PhaseOf, Active
  <2>5. phases' = [phases EXCEPT ![c] = "succeeded"]
    <3>1. row'[c].status = "succeeded" /\ \A d \in Check \ {c} : row'[d] = row[d]
      BY <1>5 DEF Succeed, Row, FullInv, IInv, TypeOK
    <3>2. QED  BY <3>1, ZenonT(30) DEF phases, PhaseOf, Active
  <2>6. Slot!Publish(w, c)
    BY <2>1, <2>3, <2>4, <2>5 DEF Slot!Publish
  <2>7. QED  BY <2>6 DEF Slot!Next
<1>6. ASSUME NEW w \in Worker, RecordFailure(w) PROVE [Slot!Next]_<<phases, callers>>
  <2> DEFINE c == CheckOf(w)
             r == FailedRow(row[c], task[w].retrying)
  <2>1. ~Calling(w) /\ ~Calling(w)' /\ \A v \in Worker \ {w} : task'[v] = task[v]
    BY <1>0, <1>6 DEF RecordFailure, AfterFailure, Calling
  <2>2. callers' = callers
    BY <2>1, CallersSame DEF Calling, CheckOf
  <2>3. CASE FailureApplies(w)
    <3>1. row[c].status \in Active /\ row[c].active
      BY <1>6, <2>3, FailureFindsActive DEF FullInv, IInv
    <3>2. row' = [row EXCEPT ![c] = r]
      BY <1>6, <2>3 DEF RecordFailure
    <3>3. CASE task[w].retrying
      <4>1. r.status = "pending"
        BY <3>3 DEF FailedRow, Row
      <4>2. phases' = phases
        BY <3>1, <3>2, <4>1 DEF phases, PhaseOf, Active, FullInv, IInv, TypeOK
      <4>3. QED  BY <2>2, <4>2
    <3>4. CASE ~task[w].retrying
      <4>1. r.status = "failed"
        BY <3>4 DEF FailedRow, Row
      <4>2. ASSUME NEW v \in Worker, Calling(v), CheckOf(v) = c PROVE FALSE
        BY <2>1, <2>3, <4>2 DEF FailureApplies
      <4> HIDE DEF c, r
      <4>3. QED  BY <2>2, <3>1, <3>2, <4>1, <4>2, GivesUp DEF c
    <3>5. QED  BY <3>3, <3>4
  <2>4. CASE ~FailureApplies(w)
    BY <1>6, <2>2, <2>4 DEF RecordFailure, phases
  <2>5. QED  BY <2>3, <2>4
<1>7. ASSUME NEW w \in Worker,
             \/ Load(w) \/ ClaimLoses(w) \/ ClaimCollides(w) \/ Yield(w) \/ Discard(w)
             \/ CallFails(w) \/ SetupFails(w) \/ LateError(w) \/ FailureUnrecorded(w)
             \/ Retry(w) \/ Ack(w) \/ WorkerLost(w) \/ HardLimitKill(w)
             \/ \E m \in Message : Deliver(w, m)
      PROVE  [Slot!Next]_<<phases, callers>>
  <2>1. phases' = phases
    BY <1>7 DEF Load, ClaimLoses, ClaimCollides, Yield, Discard, CallFails, SetupFails, LateError,
       Fail, FailureUnrecorded, Retry, Ack, WorkerLost, HardLimitKill, Deliver, phases
  <2>2. ASSUME NEW t, t.at # "calling", task' = [task EXCEPT ![w] = t]
        PROVE  ~Calling(w)' /\ \A v \in Worker \ {w} : task'[v] = task[v]
    BY <2>2 DEF Calling, FullInv, IInv, TypeOK
  <2>3. ASSUME NEW p, Fail(w, p)
        PROVE  ~Calling(w)' /\ \A v \in Worker \ {w} : task'[v] = task[v]
    BY <2>2, <2>3 DEF Fail, Task
  <2>4. ASSUME Load(w) PROVE ~Calling(w)' /\ \A v \in Worker \ {w} : task'[v] = task[v]
    BY <1>0, <2>2, <2>4 DEF Load, Task
  <2>5. ASSUME \/ Ack(w) \/ WorkerLost(w) \/ HardLimitKill(w) \/ \E m \in Message : Deliver(w, m)
        PROVE  ~Calling(w)' /\ \A v \in Worker \ {w} : task'[v] = task[v]
    BY <2>2, <2>5 DEF Ack, WorkerLost, HardLimitKill, Deliver, NoTask, Started
  <2>6. ~Calling(w)' /\ \A v \in Worker \ {w} : task'[v] = task[v]
    BY <1>0, <1>7, <2>3, <2>4, <2>5
    DEF ClaimLoses, ClaimCollides, Yield, Discard, CallFails, SetupFails, LateError,
        FailureUnrecorded, AfterFailure, Retry
  <2>7. QED  BY <2>1, <2>6, Leaves
<1>8. ASSUME Tick PROVE phases' = phases /\ callers' = callers
  <2>1. \A c \in Check : row'[c].status = row[c].status
    BY <1>8, ZenonT(30) DEF Tick, Row
  <2>2. \A w \in Worker : task'[w].at = task[w].at /\ task'[w].job = task[w].job
    BY <1>8, ZenonT(30) DEF Tick, Task
  <2>3. QED  BY <2>1, <2>2, PhasesSame, CallersSame DEF Calling, CheckOf
<1>9. CASE \E a \in Requester : \/ Lookup(a) \/ RequestStep(a) \/ ApiCrash(a)
                                \/ \E c \in Check : Insert(a, c)
  BY <1>1, <1>2, <1>3, <1>9 DEF Lookup, RequestStep, Decline, Dispatch, DispatchError, ApiCrash
<1>10. CASE \E w \in Worker : \/ WorkerStep(w) \/ WorkerLost(w) \/ HardLimitKill(w)
                              \/ \E m \in Message : Deliver(w, m)
  BY <1>4, <1>5, <1>6, <1>7, <1>10 DEF WorkerStep
<1>11. QED  BY <1>1, <1>8, <1>9, <1>10 DEF Next, vars

\* The whole protocol keeps the promise of ReviewSlot: reviews of a version open
\* one at a time, with one call in progress at most, and end once.
THEOREM Implements == ASSUME NoLateFaults, HardLimit < Lease PROVE Spec => ImplementsSlot
<1>1. Init => Slot!Init
  <2>1. Init => phases = [c \in Check |-> "absent"]
    BY DEF Init, phases, PhaseOf, NoRow, Active
  <2>2. Init => callers = {}
    BY DEF Init, callers, Calling, NoTask, Started
  <2>3. QED  BY <2>1, <2>2 DEF Slot!Init
<1>2. Spec => []FullInv
  BY LeaseInvariant DEF FullInv
<1>3. FullInv /\ FullInv' /\ [Next]_vars => [Slot!Next]_<<phases, callers>>
  BY SlotStep
<1>4. QED  BY <1>1, <1>2, <1>3, PTL DEF Spec, ImplementsSlot, Slot!Spec, Slot!slot

-------------------------------------------------------------------------------
(* What the rows say, whatever the environment does.                           *)

\* A row becomes succeeded in one statement only, which tells its author.
LEMMA SuccessFromSucceed ==
  ASSUME TypeOK, [Next]_vars, NEW c \in Check, row'[c] # row[c], row'[c].status = "succeeded"
  PROVE  /\ row[c].status = "running"
         /\ row'[c].author = row'[c].token
<1> USE DEF TypeOK
<1>1. row[c] \in Row
  OBVIOUS
<1>2. ASSUME NEW a \in Requester, Insert(a, c) PROVE FALSE
  BY <1>2 DEF Insert, NewRow, NoRow
<1>3. ASSUME NEW a \in Requester, RecordRefusal(a), request[a].check = c PROVE FALSE
  BY <1>1, <1>3 DEF RecordRefusal, Row
<1>4. ASSUME NEW w \in Worker, CheckOf(w) = c, ClaimWins(w) PROVE FALSE
  BY <1>1, <1>4 DEF ClaimWins, Row
<1>5. ASSUME NEW w \in Worker, CheckOf(w) = c, Succeed(w)
      PROVE  row[c].status = "running" /\ row'[c].author = row'[c].token
  BY <1>1, <1>5 DEF Succeed, OwnsLease, Row
<1>6. ASSUME NEW w \in Worker, CheckOf(w) = c, RecordFailure(w), FailureApplies(w) PROVE FALSE
  <2>1. row'[c] = FailedRow(row[c], task[w].retrying)
    BY <1>6 DEF RecordFailure
  <2>2. QED  BY <1>1, <2>1 DEF FailedRow, Row
<1>7. ASSUME Tick, row[c].status = "running" PROVE FALSE
  BY <1>1, <1>7 DEF Tick, Row
<1>8. QED  BY <1>2, <1>3, <1>4, <1>5, <1>6, <1>7, RowChange

\* The findings of a finished review are those of the worker that holds its last
\* lease: lost workers, late errors, wakeups and dispatches of either outcome included.
THEOREM FindingsOfLastLease == Spec => []FindingsFromLease
<1>1. Init => FindingsFromLease
  BY DEF Init, NoRow, FindingsFromLease
<1>2. TypeOK /\ FindingsFromLease /\ [Next]_vars => FindingsFromLease'
  BY SuccessFromSucceed DEF FindingsFromLease
<1>3. QED  BY <1>1, <1>2, TypeCorrect, PTL DEF Spec

\* A review that was reported failed is never turned into a result, not even when
\* the broker kept the message of a dispatch that raised.
THEOREM FailureStands == Spec => FailureNotOverwritten
<1>1. TypeOK /\ [Next]_vars =>
        [\A c \in Check : row[c].status = "failed" => row'[c].status # "succeeded"]_vars
  BY SuccessFromSucceed
<1>2. QED  BY <1>1, TypeCorrect, PTL DEF Spec, FailureNotOverwritten

-------------------------------------------------------------------------------
(* The recovery signals.                                                       *)

\* Every run of a task ends in the code: nothing kills it at its time limit, nothing
\* fails before the claim, every failure is recorded, and the API lives on until it
\* has dispatched.  Losing workers, late errors and ambiguous dispatches are allowed,
\* and the lease may be shorter than the task.
SignalledFaults ==
  Faults \cap {"hard_limit", "setup_error", "unrecorded_failure", "api_crash"} = {}

\* A row whose key was given up is in flight again only to be claimed, and a claim
\* takes the key back.
RunningActive == \A c \in Check : row[c].status = "running" => row[c].active

\* Worker w has row c in hand and will leave a signal behind, or finish the row, as
\* long as nobody else changes it.
Attends(w, c) ==
  /\ CheckOf(w) = c
  /\ \/ task[w].at \in {"loading", "claiming", "raising"}
     \/ row[c].status = "pending" /\ task[w].at = "failing" /\ ~task[w].holds
     \/ row[c].status = "running" /\ task[w].at = "yielding"
     \/ row[c].status = "running" /\ MayWrite(w) /\ row[c].token = w

Named(c) == \E m \in Message : m.check = c /\ queue[m] > 0
Asked(c) == \E a \in Requester : Undispatched(a) /\ request[a].check = c
Attended(c) == \E w \in Worker : Attends(w, c)

Recovers(c) == Named(c) \/ Asked(c) \/ Attended(c)

SignalInv ==
  /\ OneActive
  /\ RunningActive
  /\ \A c \in Check : row[c].status \in Active => Recovers(c)

FullSignalInv == TypeOK /\ TaskInv /\ SignalInv

LEMMA KeyTaken ==
  ASSUME TypeOK, [Next]_vars, OneActive, RunningActive PROVE OneActive' /\ RunningActive'
<1> USE DEF TypeOK
<1> DEFINE Lawful(c) == /\ row'[c].active => row[c].active \/
                              (NoOtherActive(c) /\ \A d \in Check \ {c} : row'[d] = row[d])
                        /\ row'[c].status = "running" => row'[c].active
<1>1. ASSUME NEW c \in Check, row'[c] # row[c] PROVE Lawful(c)
  <2>0. row[c] \in Row
    OBVIOUS
  <2>1. ASSUME NEW a \in Requester, Insert(a, c)
        PROVE  Lawful(c)
    BY <2>1 DEF Insert, NewRow, NoRow
  <2>2. ASSUME NEW w \in Worker, CheckOf(w) = c, ClaimWins(w)
        PROVE  Lawful(c)
    BY <2>0, <2>2 DEF ClaimWins, Row
  <2>3. ASSUME NEW a \in Requester, RecordRefusal(a), request[a].check = c
        PROVE  Lawful(c)
    BY <2>0, <2>3 DEF RecordRefusal, Row
  <2>4. ASSUME NEW w \in Worker, CheckOf(w) = c, Succeed(w)
        PROVE  Lawful(c)
    BY <2>0, <2>4 DEF Succeed, Row
  <2>5. ASSUME NEW w \in Worker, CheckOf(w) = c, RecordFailure(w), FailureApplies(w)
        PROVE  Lawful(c)
    <3>1. row'[c] = FailedRow(row[c], task[w].retrying)
      BY <2>5 DEF RecordFailure
    <3>2. QED  BY <2>0, <3>1 DEF FailedRow, Row
  <2>6. ASSUME Tick, row[c].status = "running" PROVE Lawful(c)
    BY <2>0, <2>6 DEF Tick, Row, RunningActive
  <2> HIDE DEF Lawful
  <2>7. QED  BY <1>1, <2>1, <2>2, <2>3, <2>4, <2>5, <2>6, RowChange
<1>2. OneActive'
  BY <1>1 DEF OneActive, NoOtherActive
<1>3. RunningActive'
  BY <1>1 DEF RunningActive
<1>4. QED  BY <1>2, <1>3

\* Whoever puts a row in flight, or back in flight, attends to it next.
LEMMA ChangeRecovers ==
  ASSUME TypeOK, TaskInv, [Next]_vars, NEW c \in Check, row'[c] # row[c],
         row'[c].status \in Active, ~Tick
  PROVE  Recovers(c)'
<1> USE DEF TypeOK, Active
<1>0. row[c] \in Row
  OBVIOUS
<1>1. ASSUME NEW a \in Requester, Insert(a, c) PROVE Asked(c)'
  BY <1>1 DEF Insert, Asked, Undispatched
<1>2. ASSUME NEW a \in Requester, RecordRefusal(a), request[a].check = c PROVE FALSE
  BY <1>0, <1>2 DEF RecordRefusal, Row
<1>3. ASSUME NEW w \in Worker, CheckOf(w) = c, ClaimWins(w) PROVE Attended(c)'
  <2>1. row'[c].status = "running" /\ row'[c].token = w
    BY <1>0, <1>3 DEF ClaimWins, Row
  <2>2. task'[w].at = "calling" /\ task'[w].holds /\ task'[w].job = task[w].job
    BY <1>3 DEF ClaimWins, Task
  <2>3. QED  BY <1>3, <2>1, <2>2 DEF Attended, Attends, CheckOf, MayWrite
<1>4. ASSUME NEW w \in Worker, CheckOf(w) = c, Succeed(w) PROVE FALSE
  BY <1>0, <1>4 DEF Succeed, Row
<1>5. ASSUME NEW w \in Worker, CheckOf(w) = c, RecordFailure(w), FailureApplies(w)
      PROVE  Attended(c)'
  <2>1. row'[c] = FailedRow(row[c], task[w].retrying)
    BY <1>5 DEF RecordFailure
  <2>2. task[w].retrying
    BY <1>0, <2>1 DEF FailedRow, Row
  <2>3. task'[w].at = "raising" /\ task'[w].job = task[w].job
    BY <1>5, <2>2 DEF RecordFailure, AfterFailure, Go, Task
  <2>4. QED  BY <1>5, <2>3 DEF Attended, Attends, CheckOf
<1>6. QED  BY <1>1, <1>2, <1>3, <1>4, <1>5, RowChange DEF Recovers

\* A message stays with the broker until it is delivered to a worker that loads its row.
LEMMA MessageRecovers ==
  ASSUME TypeOK, [Next]_vars, NEW c \in Check, Named(c)
  PROVE  Recovers(c)'
<1> USE DEF TypeOK
<1>1. PICK m \in Message : m.check = c /\ queue[m] > 0
  BY DEF Named
<1>0. ASSUME NEW k \in Message, k.check = c, queue'[k] > 0 PROVE Named(c)'
  BY <1>0 DEF Named
<1>2. ASSUME NEW k, Send(k) PROVE Named(c)'
  <2>1. queue'[m] > 0
    BY <1>1, <1>2 DEF Send
  <2>2. QED  BY <1>0, <1>1, <2>1
<1>3. ASSUME UNCHANGED queue PROVE Named(c)'
  <2>1. queue'[m] > 0
    BY <1>1, <1>3
  <2>2. QED  BY <1>0, <1>1, <2>1
<1>4. ASSUME NEW w \in Worker, NEW k \in Message, Deliver(w, k) PROVE Recovers(c)'
  <2>1. CASE k = m
    <3>1. task'[w].at = "loading" /\ task'[w].job = m
      BY <1>4, <2>1 DEF Deliver, Started
    <3>2. QED  BY <1>1, <3>1 DEF Recovers, Attended, Attends, CheckOf
  <2>2. CASE k # m
    <3>1. queue'[m] > 0
      BY <1>1, <1>4, <2>2 DEF Deliver
    <3>2. QED  BY <1>0, <1>1, <3>1 DEF Recovers
  <2>3. QED  BY <2>1, <2>2
<1>5. ASSUME Tick PROVE Named(c)'
  <2>1. CASE m.eta = 0
    <3>1. queue'[m] = queue[m] + (IF m.eta = MaxEta THEN 0 ELSE queue[Later(m)])
      BY <1>5, <2>1 DEF Tick
    <3>2. m.eta # MaxEta => queue[Later(m)] \in Nat
      BY MessageTypes
    <3>3. queue'[m] > 0
      BY <1>1, <3>1, <3>2
    <3>4. QED  BY <1>0, <1>1, <3>3
  <2>2. CASE m.eta # 0
    <3> DEFINE k == [check |-> m.check, retries |-> m.retries, eta |-> m.eta - 1]
    <3>1. m.eta \in 0..MaxEta /\ MaxEta \in Nat
      BY MessageTypes, ConstantTypes DEF MaxEta
    <3>2. k.eta = m.eta - 1 /\ k.check = c /\ k.eta \in 0..MaxEta /\ k.eta # MaxEta
      BY <1>1, <2>2, <3>1
    <3>3. k \in Message
      BY <3>2 DEF Message
    <3>4. Later(k) = m
      <4>1. m.eta - 1 + 1 = m.eta
        BY <3>1
      <4>2. Later(k) = [check |-> m.check, retries |-> m.retries, eta |-> m.eta]
        BY <4>1 DEF Later
      <4>3. QED  BY <4>2 DEF Message
    <3> HIDE DEF k
    <3>5. queue'[k] = (IF k.eta = 0 THEN queue[k] ELSE 0) + queue[m]
      BY <1>5, <3>2, <3>3, <3>4 DEF Tick
    <3>6. queue'[k] > 0
      BY <1>1, <3>3, <3>5
    <3>7. QED  BY <1>0, <3>2, <3>3, <3>6
  <2>3. QED  BY <2>1, <2>2
<1>6. CASE \E a \in Requester : \/ Lookup(a) \/ RequestStep(a) \/ ApiCrash(a)
                                \/ \E d \in Check : Insert(a, d)
  BY <1>2, <1>3, <1>6 DEF Lookup, RequestStep, Decline, Dispatch, DispatchError, RecordRefusal,
     ApiCrash, Insert, Recovers
<1>7. CASE \E w \in Worker : WorkerStep(w) \/ WorkerLost(w) \/ HardLimitKill(w)
  BY <1>2, <1>3, <1>7, WorkerKeepsJob DEF Recovers
<1>8. QED  BY <1>3, <1>4, <1>5, <1>6, <1>7 DEF Next, vars, Recovers

\* A request that has inserted a row dispatches it or reports it failed.
LEMMA RequestRecovers ==
  ASSUME TypeOK, [Next]_vars, SignalledFaults, NEW c \in Check, Asked(c), row'[c].status \in Active
  PROVE  Recovers(c)'
<1> USE MessageTypes DEF TypeOK
<1>1. PICK a \in Requester : Undispatched(a) /\ request[a].check = c
  BY DEF Asked
<1>2. ASSUME request'[a] = request[a] PROVE Asked(c)'
  BY <1>1, <1>2 DEF Asked, Undispatched
<1>3. ASSUME Dispatch(a) PROVE Named(c)'
  <2>1. FirstMessage(c) \in Message /\ FirstMessage(c).check = c
    BY DEF FirstMessage
  <2>2. queue'[FirstMessage(c)] > 0
    BY <1>1, <1>3, <2>1 DEF Dispatch, Send
  <2>3. QED  BY <2>1, <2>2 DEF Named
<1>4. ASSUME DispatchError(a) PROVE Asked(c)'
  <2>1. request'[a].at = "refused" /\ request'[a].check = c
    BY <1>1, <1>4 DEF DispatchError, Request
  <2>2. QED  BY <2>1 DEF Asked, Undispatched
<1>5. ASSUME RecordRefusal(a) PROVE FALSE
  BY <1>1, <1>5 DEF RecordRefusal, Row, Active
<1>6. ASSUME NEW b \in Requester, Lookup(b) \/ RequestStep(b) \/ ApiCrash(b)
                                  \/ \E d \in Check : Insert(b, d)
      PROVE  Recovers(c)'
  <2>1. CASE b # a
    BY <1>2, <1>6, <2>1 DEF Lookup, RequestStep, Decline, Dispatch, DispatchError, RecordRefusal,
       ApiCrash, Insert, Recovers
  <2>2. CASE b = a
    BY <1>1, <1>3, <1>4, <1>5, <1>6, <2>2 DEF Lookup, RequestStep, Decline, ApiCrash, Insert,
       SignalledFaults, Undispatched, Recovers
  <2>3. QED  BY <2>1, <2>2
<1>7. CASE UNCHANGED request
  BY <1>2, <1>7 DEF Recovers
<1>8. QED
  BY <1>6, <1>7 DEF Next, vars, Tick, Deliver, WorkerStep, WorkerLost, HardLimitKill, Load,
     ClaimWins, ClaimLoses, ClaimCollides, Yield, Succeed, Discard, CallFails, SetupFails,
     LateError, Fail, RecordFailure, FailureUnrecorded, Retry, Ack

\* A worker that attends to a row goes on, or has sent a message when it stops.
LEMMA WorkerRecovers ==
  ASSUME FullSignalInv, [Next]_vars, SignalledFaults, NEW c \in Check, Attended(c),
         row'[c].status \in Active, row'[c] = row[c] \/ Tick
  PROVE  Recovers(c)'
<1> USE MessageTypes DEF FullSignalInv, TypeOK
<1>1. PICK w \in Worker : Attends(w, c)
  BY DEF Attended
<1>2. task[w] \in Task /\ TaskOK(task[w]) /\ CheckOf(w) = c /\ row[c] \in Row
  BY <1>1 DEF TaskInv, Attends
<1>3. ASSUME task'[w].at = task[w].at, task'[w].job = task[w].job, task'[w].holds = task[w].holds,
             row'[c].status = row[c].status, row'[c].token = row[c].token
      PROVE  Attends(w, c)'
  BY <1>1, <1>3 DEF Attends, MayWrite, CheckOf
<1>4. ASSUME NEW k \in Message, k.check = c, Send(k) PROVE Recovers(c)'
  <2>1. queue'[k] > 0
    BY <1>4 DEF Send
  <2>2. QED  BY <1>4, <2>1 DEF Recovers, Named
<1>5. ASSUME Tick PROVE Attends(w, c)'
  <2>1. row'[c].status = row[c].status /\ row'[c].token = row[c].token
    BY <1>2, <1>5 DEF Tick, Row
  <2>2. task'[w].at = task[w].at /\ task'[w].job = task[w].job /\ task'[w].holds = task[w].holds
    <3>1. task'[w] = IF ~Busy(w) THEN task[w]
                     ELSE [task[w] EXCEPT !.elapsed = task[w].elapsed + 1,
                             !.since = IF task[w].at = "claiming" THEN task[w].since + 1
                                       ELSE task[w].since]
      BY <1>5 DEF Tick
    <3>2. QED  BY <1>2, <3>1 DEF Task
  <2>3. QED  BY <1>3, <2>1, <2>2
<1>6. ASSUME row'[c] = row[c], WorkerStep(w) PROVE Recovers(c)'
  <2>0. row[c].status \in Active
    BY <1>6
  <2>1. ASSUME NEW s, Go(w, s)
        PROVE  task'[w].at = s /\ task'[w].job = task[w].job /\ task'[w].holds = task[w].holds
    BY <1>2, <2>1 DEF Go, Task
  <2>2. ASSUME Load(w) PROVE Attends(w, c)'
    <3>1. CASE Go(w, "yielding") /\ row[c].status = "running"
      BY <1>2, <1>6, <2>1, <3>1 DEF Attends, CheckOf
    <3>2. CASE task' = [task EXCEPT ![w] = [@ EXCEPT !.at = "claiming", !.since = 0]]
      BY <1>2, <3>2 DEF Attends, CheckOf, Task
    <3>3. QED  BY <1>2, <2>0, <2>2, <3>1, <3>2 DEF Load, Active, Terminal
  <2>3. ASSUME ClaimWins(w) PROVE Attends(w, c)'
    <3>1. row'[c].status = "running" /\ row'[c].token = w
      BY <1>2, <2>3 DEF ClaimWins, Row
    <3>2. task'[w].at = "calling" /\ task'[w].holds /\ task'[w].job = task[w].job
      BY <1>2, <2>3 DEF ClaimWins, Task
    <3>3. QED  BY <1>2, <3>1, <3>2 DEF Attends, CheckOf, MayWrite
  <2>4. ASSUME ClaimLoses(w) PROVE Attends(w, c)'
    <3>1. row[c].status = "running"
      BY <1>2, <2>0, <2>4 DEF ClaimLoses, Claimable, Active
    <3>2. QED  BY <1>2, <1>6, <2>1, <2>4, <3>1 DEF ClaimLoses, Attends, CheckOf
  <2>5. ASSUME ClaimCollides(w) PROVE Attends(w, c)'
    <3>1. row[c].status = "pending"
      BY <1>2, <2>0, <2>5 DEF ClaimCollides, NoOtherActive, SignalInv, OneActive, RunningActive, Active
    <3>2. ~task[w].holds
      BY <1>2, <2>5 DEF ClaimCollides, TaskOK
    <3>3. task'[w].at = "failing" /\ task'[w].job = task[w].job /\ task'[w].holds = task[w].holds
      BY <1>2, <2>5 DEF ClaimCollides, Fail, Task
    <3>4. QED  BY <1>2, <1>6, <3>1, <3>2, <3>3 DEF Attends, CheckOf
  <2>6. ASSUME Yield(w) PROVE Recovers(c)'
    <3>1. row[c].status = "running"
      BY <1>1, <2>6 DEF Yield, Attends, MayWrite
    <3>2. WakeupDelay(c) \in 0..MaxEta
      BY <1>2, ConstantTypes DEF WakeupDelay, Row, MaxAge, MaxEta
    <3>3. [check |-> c, retries |-> 0, eta |-> WakeupDelay(c)] \in Message
      BY <3>2, ConstantTypes DEF Message
    <3>4. QED  BY <1>2, <1>4, <2>6, <3>1, <3>3 DEF Yield
  <2>7. ASSUME Succeed(w) PROVE FALSE
    BY <1>2, <1>6, <2>0, <2>7 DEF Succeed, Row, Active
  <2>8. ASSUME Discard(w) PROVE FALSE
    BY <1>1, <1>2, <2>8 DEF Discard, Attends, OwnsLease, MayWrite
  <2>9. ASSUME CallFails(w) PROVE Attends(w, c)'
    <3>1. row[c].status = "running" /\ row[c].token = w /\ task[w].holds
      BY <1>1, <2>9 DEF CallFails, Attends, MayWrite
    <3>2. task'[w].at = "failing" /\ task'[w].job = task[w].job /\ task'[w].holds = task[w].holds
      BY <1>2, <2>9 DEF CallFails, Fail, Task
    <3>3. QED  BY <1>2, <1>6, <3>1, <3>2 DEF Attends, CheckOf, MayWrite
  <2>10. ASSUME SetupFails(w) \/ FailureUnrecorded(w) PROVE FALSE
    BY <2>10 DEF SetupFails, FailureUnrecorded, SignalledFaults
  <2>11. ASSUME LateError(w) \/ Ack(w) PROVE FALSE
    BY <1>1, <2>11 DEF LateError, Ack, Attends, MayWrite
  <2>12. ASSUME RecordFailure(w) PROVE Attends(w, c)'
    <3>1. FailureApplies(w)
      BY <1>1, <1>2, <2>12 DEF RecordFailure, FailureApplies, Attends, MayWrite
    <3>2. row'[c] = FailedRow(row[c], task[w].retrying)
      BY <1>2, <2>12, <3>1 DEF RecordFailure
    <3>3. task[w].retrying
      BY <1>2, <1>6, <2>0, <3>2 DEF FailedRow, Row, Active
    <3>4. QED  BY <1>2, <2>1, <2>12, <3>3 DEF RecordFailure, AfterFailure, Attends, CheckOf
  <2>13. ASSUME Retry(w) PROVE Recovers(c)'
    <3>1. task[w].job \in Message /\ task[w].job.retries < MaxRetries
      BY <1>2, <2>13 DEF Retry, TaskOK, Task
    <3>2. task[w].job.retries + 1 \in 0..MaxRetries
      BY <3>1, ConstantTypes DEF Message
    <3>3. [task[w].job EXCEPT !.retries = @ + 1] \in Message
          /\ [task[w].job EXCEPT !.retries = @ + 1].check = c
      BY <1>2, <3>1, <3>2 DEF Message, CheckOf
    <3>4. QED  BY <1>4, <2>13, <3>3 DEF Retry
  <2>14. QED
    BY <1>6, <2>2, <2>3, <2>4, <2>5, <2>6, <2>7, <2>8, <2>9, <2>10, <2>11, <2>12, <2>13
    DEF WorkerStep, Recovers, Attended
<1>7. ASSUME WorkerLost(w) PROVE Recovers(c)'
  <2>1. task[w].job \in Message /\ task[w].job.check = c
    BY <1>2 DEF Task, CheckOf
  <2>2. QED  BY <1>4, <1>7, <2>1 DEF WorkerLost
<1>8. ASSUME HardLimitKill(w) PROVE FALSE
  BY <1>8 DEF HardLimitKill, SignalledFaults
<1>9. ASSUME NEW m \in Message, Deliver(w, m) PROVE FALSE
  BY <1>1, <1>9 DEF Deliver, Busy, Attends, MayWrite
<1>10. ASSUME row'[c] = row[c], task'[w] = task[w] PROVE Recovers(c)'
  BY <1>3, <1>10 DEF Recovers, Attended
<1>11. ASSUME NEW v \in Worker, v # w,
              WorkerStep(v) \/ WorkerLost(v) \/ HardLimitKill(v) \/ \E m \in Message : Deliver(v, m)
       PROVE  task'[w] = task[w]
  BY <1>11 DEF WorkerStep, Load, ClaimWins, ClaimLoses, ClaimCollides, Yield, Succeed, Discard,
     CallFails, SetupFails, LateError, Fail, RecordFailure, FailureUnrecorded, AfterFailure,
     Retry, Ack, Go, WorkerLost, HardLimitKill, Deliver
<1>12. ASSUME NEW a \in Requester,
              Lookup(a) \/ RequestStep(a) \/ ApiCrash(a) \/ \E d \in Check : Insert(a, d)
       PROVE  task'[w] = task[w]
  BY <1>12 DEF Lookup, RequestStep, Decline, Dispatch, DispatchError, RecordRefusal, ApiCrash,
     Insert
<1>13. CASE Tick
  BY <1>5, <1>13 DEF Recovers, Attended
<1>14. CASE ~Tick
  BY <1>6, <1>7, <1>8, <1>9, <1>10, <1>11, <1>12, <1>14 DEF Next, vars
<1>15. QED  BY <1>13, <1>14

LEMMA SignalStep ==
  ASSUME SignalledFaults PROVE FullSignalInv /\ [Next]_vars => FullSignalInv'
<1> SUFFICES ASSUME FullSignalInv, [Next]_vars PROVE FullSignalInv'
  OBVIOUS
<1>1. TypeOK' /\ TaskInv'
  BY TypeStep, TaskStep DEF FullSignalInv
<1>2. OneActive' /\ RunningActive'
  BY KeyTaken DEF FullSignalInv, SignalInv
<1>3. ASSUME NEW c \in Check, row'[c].status \in Active PROVE Recovers(c)'
  <2>1. CASE row'[c] # row[c] /\ ~Tick
    BY <1>3, <2>1, ChangeRecovers DEF FullSignalInv
  <2>2. CASE row'[c] = row[c] \/ Tick
    <3>1. row[c].status \in Active
      BY <1>3, <2>2, ZenonT(30) DEF Tick, FullSignalInv, TypeOK, Row
    <3>2. Recovers(c)
      BY <3>1 DEF FullSignalInv, SignalInv
    <3>3. QED
      BY <1>3, <2>2, <3>2, MessageRecovers, RequestRecovers, WorkerRecovers
      DEF Recovers, FullSignalInv
  <2>3. QED  BY <2>1, <2>2
<1>4. QED  BY <1>1, <1>2, <1>3 DEF FullSignalInv, SignalInv

\* No delivery acknowledges the last signal of an unfinished review, even where the
\* lease is shorter than the task, workers are lost, errors follow a durable result
\* and the broker keeps what was reported as not sent.
THEOREM SignalsKept == ASSUME SignalledFaults PROVE Spec => []SignalKept
<1>1. Init => FullSignalInv
  <2> SUFFICES ASSUME Init PROVE SignalInv
    BY TypeInit DEF FullSignalInv
  <2>1. \A c \in Check : row[c].status = "absent" /\ ~row[c].active
    BY DEF Init, NoRow
  <2>2. QED  BY <2>1 DEF SignalInv, OneActive, RunningActive, Active
<1>2. FullSignalInv => SignalKept
  <2> SUFFICES ASSUME FullSignalInv, NEW c \in Check, Recovers(c) PROVE HasSignal(c)
    BY DEF FullSignalInv, SignalInv, SignalKept
  <2>1. Attended(c) => \E w \in Worker : Busy(w) /\ CheckOf(w) = c
    BY DEF Attended, Attends, MayWrite, Busy
  <2>2. QED  BY <2>1 DEF Recovers, Named, Asked, Undispatched, HasSignal
<1>3. QED  BY <1>1, <1>2, SignalStep, PTL DEF Spec

===============================================================================
