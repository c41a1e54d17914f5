-------------------------------- MODULE RunsDesk -------------------------------
(***************************************************************************)
(* The runs and the spend of the admin console.                            *)
(*                                                                         *)
(* A run is told from the jobs of its version: the API derives one status  *)
(* from theirs each time it is asked.  The console reads the list of runs, *)
(* or the run that is open, every ten seconds; a read does not wait for    *)
(* the one before it, and the answers come in any order.                   *)
(***************************************************************************)
EXTENDS Naturals, FiniteSets, FiniteSetsExt

CONSTANTS
  Runs,        (* the versions that are listed                            *)
  Stages,      (* the jobs of a run                                       *)
  MaxReads,    (* bound: requests in flight                               *)
  MaxClicks,   (* bound: clicks                                           *)
  MaxEvents    (* bound: jobs that fail, requests that fail               *)

VARIABLES
  job,         \* per run, the jobs that are done and what the current one does
  tab,         \* the section that is open
  rows,        \* the runs as they are listed
  filter,      \* `statusFilter`
  selected,    \* the run that is open (a set of one or none)
  auto,        \* `autoRefresh`
  loading, refreshing,
  costs,       \* the spend that is shown (a set of one or none)
  reads,       \* the requests in flight
  clicks, events

server == <<job>>
page == <<rows, filter, selected, auto, loading, refreshing>>
vars == <<job, tab, rows, filter, selected, auto, loading, refreshing, costs, reads, clicks,
          events>>

Status == {"pending", "running", "failed", "succeeded"}
Listing == [Runs -> Status \cup {"none"}]
Spend == 0..Stages * Cardinality(Runs)
Maybe(S) == {{}} \cup {{x} : x \in S}

TypeOK ==
  /\ job \in [Runs -> [done: 0..Stages, now: {"none", "running", "failed"}]]
  /\ tab \in {"spend", "runs"}
  /\ rows \in Listing
  /\ filter \in Status \cup {"all"}
  /\ selected \in Maybe([run: Runs, status: Status])
  /\ {auto, loading, refreshing} \subseteq BOOLEAN
  /\ costs \in Maybe(Spend)
  /\ \A r \in reads : /\ r.id \in 1..MaxReads /\ r.kind \in {"costs", "list", "run"}
                      /\ r.answer \in Maybe([rows: Listing, spent: Spend])

-------------------------------------------------------------------------------
(* The pipeline                                                              *)

Event == events < MaxEvents /\ events' = events + 1
Console == UNCHANGED <<tab, page, costs, reads, clicks>>

\* A job is recorded when it starts; one that failed is started again.
StartJob(r) ==
  /\ job[r].done < Stages /\ job[r].now # "running"
  /\ job[r].now = "failed" => Event
  /\ job[r].now # "failed" => UNCHANGED events
  /\ job' = [job EXCEPT ![r].now = "running"]
  /\ Console

FinishJob(r) ==
  /\ job[r].now = "running"
  /\ \/ job' = [job EXCEPT ![r] = [done |-> @.done + 1, now |-> "none"]] /\ UNCHANGED events
     \/ job' = [job EXCEPT ![r].now = "failed"] /\ Event
  /\ Console

-------------------------------------------------------------------------------
(* The API                                                                   *)

\* Between two jobs every job there is has succeeded.
DeriveStatus(j) ==
  IF j.now # "none" THEN j.now ELSE IF j.done = 0 THEN "pending" ELSE "succeeded"

Spent == MapThenSumSet(LAMBDA r : job[r].done, Runs)

\* What a request asks for.
RunsOf(q) ==
  [r \in Runs |->
     LET s == DeriveStatus(job[r])
     IN CASE q.kind = "list" -> IF q.failedOnly /\ s # "failed" THEN "none" ELSE s
          [] q.kind = "run"  -> IF r \in q.run THEN s ELSE "none"
          [] q.kind = "costs" -> "none"]

Serve(i) ==
  /\ \E q \in reads :
       /\ q.id = i /\ q.answer = {}
       /\ reads' = (reads \ {q}) \cup
            {[q EXCEPT !.answer = {[rows |-> RunsOf(q),
                                    spent |-> IF q.kind = "costs" THEN Spent ELSE 0]}]}
  /\ UNCHANGED <<server, tab, page, costs, clicks, events>>

-------------------------------------------------------------------------------
(* The console: requests                                                     *)

Free == {i \in 1..MaxReads : \A q \in reads : q.id # i}

Request(kind, run) ==
  [id |-> Min(Free), kind |-> kind, run |-> run, failedOnly |-> FALSE, answer |-> {}]

ListRequest(f) == [Request("list", {}) EXCEPT !.failedOnly = (f = "failed")]

Ask(q) == Free # {} /\ reads' = reads \cup {q}

LoadRuns ==
  /\ Ask(ListRequest(filter)) /\ refreshing' = TRUE
  /\ UNCHANGED <<tab, rows, filter, selected, auto, loading, costs>>

LoadRunDetail(r) ==
  /\ Ask(Request("run", {r})) /\ refreshing' = TRUE
  /\ UNCHANGED <<tab, rows, filter, selected, auto, loading, costs>>

Listed(q) ==
  /\ q.kind = "list"
  /\ loading' = FALSE /\ refreshing' = FALSE
  /\ \/ \E a \in q.answer : rows' = a.rows /\ UNCHANGED events
     \/ q.answer = {} /\ Event /\ UNCHANGED rows
  /\ UNCHANGED <<filter, selected, auto, costs>>

\* Whatever is open by then, the run that was asked for is.
Detailed(q) ==
  /\ q.kind = "run"
  /\ refreshing' = FALSE
  /\ \/ \E a \in q.answer : \E r \in q.run :
          selected' = {[run |-> r, status |-> a.rows[r]]} /\ UNCHANGED events
     \/ q.answer = {} /\ Event /\ UNCHANGED selected
  /\ UNCHANGED <<rows, filter, auto, loading, costs>>

Costed(q) ==
  /\ q.kind = "costs"
  /\ \/ costs' = {a.spent : a \in q.answer} /\ q.answer # {} /\ UNCHANGED events
     \/ q.answer = {} /\ Event /\ UNCHANGED costs
  /\ UNCHANGED page

Answer(i) ==
  /\ \E q \in reads :
       /\ q.id = i /\ reads' = reads \ {q}
       /\ Listed(q) \/ Detailed(q) \/ Costed(q)
  /\ UNCHANGED <<server, tab, clicks>>

-------------------------------------------------------------------------------
(* The console: every ten seconds                                            *)

Interval == tab = "runs" /\ auto /\ UNCHANGED <<server, clicks, events>>

PollRuns == Interval /\ selected = {} /\ LoadRuns

\* Mutant: a run that has not begun is not read again.
PollRunning == Interval /\ \E d \in selected : d.status = "running" /\ LoadRunDetail(d.run)

PollRun ==
  /\ Interval
  /\ \E d \in selected : d.status \in {"pending", "running"} /\ LoadRunDetail(d.run)

-------------------------------------------------------------------------------
(* The console: clicks                                                       *)

Click == clicks < MaxClicks /\ clicks' = clicks + 1 /\ UNCHANGED <<server, events>>

\* The section that is left is thrown away; the answers to it change nothing any more.
OpenRuns ==
  /\ Click /\ tab = "spend" /\ Free # {}
  /\ tab' = "runs"
  /\ rows' = [r \in Runs |-> "none"] /\ filter' = "all" /\ selected' = {}
  /\ auto' = TRUE /\ loading' = TRUE /\ refreshing' = TRUE
  /\ reads' = reads \cup {ListRequest("all")}
  /\ UNCHANGED costs

OpenSpend ==
  /\ Click /\ Free # {}
  /\ tab' = "spend"
  /\ reads' = {q \in reads : q.kind = "costs"} \cup {Request("costs", {})}
  /\ rows' = [r \in Runs |-> "none"] /\ filter' = "all" /\ selected' = {}
  /\ auto' = TRUE /\ loading' = FALSE /\ refreshing' = FALSE
  /\ UNCHANGED costs

Refresh ==
  /\ tab = "runs" /\ ~refreshing /\ Click
  /\ \/ selected = {} /\ LoadRuns
     \/ \E d \in selected : LoadRunDetail(d.run)

\* The statuses that are listed are those that can be chosen.
SetStatusFilter(f) ==
  /\ tab = "runs" /\ selected = {} /\ f # filter /\ Click
  /\ f = "all" \/ \E r \in Runs : rows[r] = f
  /\ filter' = f /\ loading' = TRUE /\ refreshing' = TRUE
  /\ Ask(ListRequest(f))
  /\ UNCHANGED <<tab, rows, selected, auto, costs>>

OpenRun(r) ==
  /\ tab = "runs" /\ selected = {} /\ ~loading
  /\ rows[r] # "none" /\ filter \in {"all", rows[r]}
  /\ Click /\ LoadRunDetail(r)

Back ==
  /\ selected # {} /\ Click
  /\ selected' = {}
  /\ UNCHANGED <<tab, rows, filter, auto, loading, refreshing, costs, reads>>

SetAutoRefresh ==
  /\ tab = "runs" /\ Click
  /\ auto' = ~auto
  /\ UNCHANGED <<tab, rows, filter, selected, loading, refreshing, costs, reads>>

-------------------------------------------------------------------------------
Init ==
  /\ job = [r \in Runs |-> [done |-> 0, now |-> "none"]]
  /\ tab = "spend" /\ costs = {}
  /\ rows = [r \in Runs |-> "none"] /\ filter = "all" /\ selected = {} /\ auto = TRUE
  /\ loading = FALSE /\ refreshing = FALSE
  /\ reads = {[id |-> 1, kind |-> "costs", run |-> {}, failedOnly |-> FALSE, answer |-> {}]}
  /\ clicks = 0 /\ events = 0

Next ==
  \/ \E r \in Runs : StartJob(r) \/ FinishJob(r) \/ OpenRun(r)
  \/ \E i \in 1..MaxReads : Serve(i) \/ Answer(i)
  \/ \E f \in Status \cup {"all"} : SetStatusFilter(f)
  \/ PollRuns \/ PollRun \/ OpenRuns \/ OpenSpend \/ Refresh \/ Back \/ SetAutoRefresh

\* The worker goes on, the API answers and the browser's timers fire; nobody has to click.
Fairness ==
  /\ \A r \in Runs : WF_vars(StartJob(r)) /\ WF_vars(FinishJob(r))
  /\ \A i \in 1..MaxReads : WF_vars(Serve(i)) /\ WF_vars(Answer(i))
  /\ WF_vars(PollRuns) /\ WF_vars(PollRun)

Spec == Init /\ [][Next]_vars /\ Fairness

-------------------------------------------------------------------------------
(* Properties                                                                *)

Watched(r) == tab = "runs" /\ auto /\ \E d \in selected : d.run = r

\* A run that is shown at work is followed until it shows an end - whatever reads fail or come
\* late - unless the admin closes it, opens another one or pauses the updates.
RunFollowed ==
  \A r \in Runs :
    (Watched(r) /\ \E d \in selected : d.status \in {"pending", "running"})
      ~> (~Watched(r) \/ \E d \in selected : d.status \in {"failed", "succeeded"})

\* A run that is shown to have succeeded is over.
RunShown == \A d \in selected : d.status = "succeeded" => job[d.run].done = Stages
===============================================================================
