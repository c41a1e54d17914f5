---------------------------- MODULE StudioProgress ----------------------------
(***************************************************************************)
(* A studio page that follows a story: the web client of one reader, the   *)
(* REST state it reads, and the Redis stream of progress events.           *)
(*                                                                         *)
(* The server runs the stages of the current version in order, the first   *)
(* of them a fan-out counted in units, and appends to a stream per story.  *)
(* The page keeps a base (the last answers to a refresh, four GETs that    *)
(* are answered one by one) and an overlay folded from the stream; both    *)
(* outlive a version.  EventSource reconnects by itself after the last id  *)
(* it saw; a new EventSource replays the whole retained stream.            *)
(***************************************************************************)
EXTENDS Naturals, Sequences

CONSTANTS
  Last,        (* the number of stages; the last one is assembly          *)
  Units,       (* lines of the story, made by the fan-out stage           *)
  MaxClicks,   (* bound: requests of the listener                         *)
  Lossy,     (* bound: the versions whose publishes may be lost         *)
  MaxReads,    (* bound: refreshes of the page in flight                  *)
  MaxFaults    (* bound: failed stages, dropped streams, failed reads,    *)
               (* lost publishes, requests over a limit                   *)

ASSUME StudioAssumption ==
  /\ Last \in Nat /\ Last > 1
  /\ Units \in Nat \ {0}
  /\ MaxClicks \in Nat
  /\ Lossy \subseteq 1..(MaxClicks + 1)
  /\ MaxReads \in Nat \ {0}
  /\ MaxFaults \in Nat

Stage == 1..Last
FanOut == 1
Version == 1..(MaxClicks + 1)

VARIABLES
  story,     (* the story and its current version, as the database has it *)
  log,       (* the Redis stream of the story                             *)
  detail,    (* GET /stories/{id}, as last applied: a set of one or none  *)
  progress,  (* GET /stories/{id}/jobs, likewise                          *)
  live,      (* the overlay                                               *)
  stream,    (* the EventSource                                           *)
  timers,    (* the pending timers of watchProgress                       *)
  reads,     (* the refreshes in flight, oldest first                     *)
  command,   (* the listener's request in flight                          *)
  awaiting,  (* the version a respeak was asked from: a set of one or none *)
  faults,    (* faults so far                                             *)
  clicks,    (* requests so far                                           *)
  races      (* history: the races that have been lost                    *)

vars == <<story, log, detail, progress, live, stream, timers, reads, command, awaiting,
          clicks, faults, races>>
server == <<story, log>>
page == <<detail, progress, live, stream, timers, reads, command, awaiting>>
history == <<clicks, faults, races>>

JobStatus == {"pending", "running", "succeeded", "failed"}
StoryStatus == {"generating", "ready", "failed"}

\* `first` is where planned_stages begins; a note is a version yet to be forked.
Story == [version: Version, status: StoryStatus, first: Stage,
          job: [Stage -> JobStatus], done: 0..Units, note: BOOLEAN]

Event == [type: {"stage"}, stage: Stage, status: JobStatus]
         \cup [type: {"stage_progress"}, completed: 0..Units]
         \cup [type: {"asset", "feedback", "complete"}]

\* The part of the story that each read returns.
Detail == [version: Version, status: StoryStatus, episode: BOOLEAN]
Progress == [status: StoryStatus, job: [Stage -> JobStatus]]

Live == [stages: [Stage -> JobStatus \cup {"unknown"}], completed: 0..Units]

Refresh == [detail: {{}} \cup {{d} : d \in Detail}, progress: {{}} \cup {{p} : p \in Progress},
            command: BOOLEAN, passed: BOOLEAN]

Race == {"torn",       \* a refresh whose reads straddle a change of status
         "overtaken",  \* a refresh applied after a later one
         "read_failed", "publish_lost"}

TypeOK ==
  /\ story \in Story
  /\ log \in Seq(Event)
  /\ detail = {} \/ \E d \in Detail : detail = {d}
  /\ progress = {} \/ \E p \in Progress : progress = {p}
  /\ live \in Live
  /\ stream \in [at: {"none", "connecting", "open"}, cursor: Nat]
  /\ timers \subseteq {"poll", "refresh"}
  /\ reads \in Seq(Refresh) /\ Len(reads) <= MaxReads
  /\ command \in {"idle", "respeak", "note", "accepted", "refused", "rejected",
                 "refreshing"}
  /\ awaiting \in {{}} \cup {{v} : v \in Version}
  /\ clicks \in 0..MaxClicks
  /\ faults \in 0..MaxFaults
  /\ races \subseteq Race

NoJobs == [s \in Stage |-> "pending"]
EmptyLive == [stages |-> [s \in Stage |-> "unknown"], completed |-> 0]
NoStream == [at |-> "none", cursor |-> 0]
NewRefresh(c) == [detail |-> {}, progress |-> {}, command |-> c, passed |-> FALSE]

StageEvent(s, status) == [type |-> "stage", stage |-> s, status |-> status]
Count(n) == [type |-> "stage_progress", completed |-> n]

New == [version |-> 1, status |-> "generating", first |-> FanOut, job |-> NoJobs, done |-> 0,
        note |-> FALSE]
Ready == [New EXCEPT !.status = "ready", !.job = [s \in Stage |-> "succeeded"], !.done = Units]

\* What is retained of the first version: the stream is capped, and trimmed from the front.
Told == <<StageEvent(FanOut, "succeeded"), StageEvent(Last, "running"),
          StageEvent(Last, "succeeded"), [type |-> "complete"]>>

\* The page is opened on a story that has just been created, or on a ready one from the library;
\* as a bound, only the latter is worked on.
Init ==
  /\ \/ story = New /\ log = <<>> /\ clicks = MaxClicks
     \/ story = Ready /\ log = Told /\ clicks = 0
  /\ detail = {} /\ progress = {}
  /\ live = EmptyLive
  /\ stream = NoStream /\ timers = {}
  /\ reads = <<NewRefresh(FALSE)>>
  /\ command = "idle" /\ awaiting = {}
  /\ faults = 0 /\ races = {}

Fault == faults < MaxFaults /\ faults' = faults + 1
Lose(kind) == races' = races \cup {kind}

-------------------------------------------------------------------------------
(* The server                                                                *)

\* Best effort: a publish that fails is logged and forgotten.
Publish(events) ==
  \/ log' = log \o events /\ UNCHANGED history
  \/ /\ story.version \in Lossy /\ Fault /\ Lose("publish_lost")
     /\ UNCHANGED <<log, clicks>>

Begun(s) == s >= story.first /\ \A t \in story.first..(s - 1) : story.job[t] = "succeeded"

StartJob(s) ==
  /\ story.status = "generating" /\ ~story.note
  /\ story.job[s] = "pending" /\ Begun(s)
  /\ story' = [story EXCEPT !.job[s] = "running"]
  /\ Publish(<<StageEvent(s, "running")>> \o IF s = FanOut THEN <<Count(story.done)>> ELSE <<>>)
  /\ UNCHANGED page

\* A line is recorded, then announced, then counted.
FinishUnit ==
  /\ story.job[FanOut] = "running" /\ story.done < Units
  /\ story' = [story EXCEPT !.done = @ + 1]
  /\ Publish(<<[type |-> "asset"], Count(story.done + 1)>>)
  /\ UNCHANGED page

FinishJob(s) ==
  /\ story.job[s] = "running"
  /\ s = FanOut => story.done = Units
  /\ story' = [story EXCEPT !.job[s] = "succeeded"]
  /\ Publish(<<StageEvent(s, "succeeded")>>)
  /\ UNCHANGED page

Complete ==
  /\ story.status = "generating" /\ story.job[Last] = "succeeded" /\ ~story.note
  /\ story' = [story EXCEPT !.status = "ready"]
  /\ Publish(<<[type |-> "complete"]>>)
  /\ UNCHANGED page

FailJob(s) ==
  /\ story.job[s] = "running"
  /\ story' = [story EXCEPT !.job[s] = "failed"]
  /\ log' = Append(log, StageEvent(s, "failed"))
  /\ Fault
  /\ UNCHANGED <<page, clicks, races>>

\* The story is marked after its failed stage was announced, and without an event.
MarkFailed ==
  /\ story.status = "generating" /\ ~story.note
  /\ \E s \in Stage : story.job[s] = "failed"
  /\ story' = [story EXCEPT !.status = "failed"]
  /\ UNCHANGED <<log, page, history>>

\* The child plans its stages from some first one and carries over what it keeps.
Forked(from) ==
  {[version |-> story.version + 1, status |-> "generating", first |-> s, job |-> NoJobs,
    done |-> n, note |-> FALSE] : s \in from, n \in 0..Units}

Keeps(child) == child.first > FanOut => child.done = Units

Interpret ==
  /\ story.note
  /\ story' \in Forked(Stage) /\ Keeps(story')
  /\ Publish(<<[type |-> "feedback"]>>)
  /\ UNCHANGED page

InterpretFails ==
  /\ story.note
  /\ story' = [story EXCEPT !.note = FALSE, !.status = "ready"]
  /\ Publish(<<[type |-> "feedback"]>>)
  /\ UNCHANGED page

-------------------------------------------------------------------------------
(* What the page shows                                                       *)

Base(s) == LET p == CHOOSE p \in progress : TRUE
           IN IF progress = {} THEN "pending" ELSE p.job[s]

\* The overlay wins over the polled row.
Resolve(s) == IF live.stages[s] # "unknown" THEN live.stages[s] ELSE Base(s)

Polled == {p.status : p \in progress}
Regenerating == \E d \in detail : d.status = "generating"

\* The bar reads 100 for a ready story only, never for a finished overlay.
BarFull == Polled = {"ready"}

-------------------------------------------------------------------------------
(* Refreshing                                                                *)

Room == Len(reads) < MaxReads
Without(i) == SubSeq(reads, 1, i - 1) \o SubSeq(reads, i + 1, Len(reads))

\* The four GETs of one refresh are answered in any order.
ReadDetail(i) ==
  /\ reads[i].detail = {}
  /\ reads' = [reads EXCEPT ![i].detail =
       {[version |-> story.version, status |-> story.status,
         episode |-> story.job[Last] = "succeeded"]}]
  /\ UNCHANGED <<server, detail, progress, live, stream, timers, command, awaiting, history>>

ReadProgress(i) ==
  /\ reads[i].progress = {}
  /\ reads' = [reads EXCEPT ![i].progress =
       {[status |-> story.status, job |-> story.job]}]
  /\ UNCHANGED <<server, detail, progress, live, stream, timers, command, awaiting, history>>

\* What watchProgress and its cleanup do when the watched statuses change.
Rewatch(statuses, rest) ==
  IF statuses = <<{d.status : d \in detail}, Polled>>
  THEN /\ reads' = rest /\ UNCHANGED <<stream, timers>>
  ELSE /\ timers' = {}
       /\ IF statuses[2] = {"generating"}
          THEN /\ stream' = [NoStream EXCEPT !.at = "connecting"]
               /\ reads' = Append(rest, NewRefresh(FALSE))
          ELSE /\ stream' = NoStream
               /\ reads' = rest

\* The rebuilt mix has landed: the page jumps to the line that was respoken.
Jump(d) ==
  awaiting' = IF d.version \notin awaiting /\ d.episode THEN {} ELSE awaiting

Apply(i) ==
  \E d \in reads[i].detail, p \in reads[i].progress :
    /\ detail' = {d} /\ progress' = {p}
    /\ live' = IF \E e \in detail : e.version = d.version THEN live ELSE EmptyLive
    /\ Jump(d)
    /\ command' = IF reads[i].command THEN "idle" ELSE command
    /\ Rewatch(<<{d.status}, {p.status}>>,
               [j \in 1..(Len(reads) - 1) |->
                  IF j < i THEN [reads[j] EXCEPT !.passed = TRUE] ELSE reads[j + 1]])
    /\ races' = races \cup (IF d.status # p.status THEN {"torn"} ELSE {})
                      \cup (IF reads[i].passed THEN {"overtaken"} ELSE {})
    /\ UNCHANGED <<server, faults, clicks>>

ReadFails(i) ==
  /\ Fault /\ Lose("read_failed")
  /\ reads' = Without(i)
  /\ command' = IF reads[i].command THEN "idle" ELSE command
  /\ UNCHANGED <<server, detail, progress, live, stream, timers, awaiting, clicks>>

-------------------------------------------------------------------------------
(* Watching                                                                  *)

\* onOpen: no more polling, and one refresh.
Open ==
  /\ stream.at = "connecting" /\ Room
  /\ stream' = [stream EXCEPT !.at = "open"]
  /\ timers' = timers \ {"poll"}
  /\ reads' = Append(reads, NewRefresh(FALSE))
  /\ UNCHANGED <<server, detail, progress, live, command, awaiting, history>>

\* onerror: polling begins, the browser goes on trying.
Drop ==
  /\ stream.at # "none"
  /\ Fault
  /\ stream' = [stream EXCEPT !.at = "connecting"]
  /\ timers' = timers \cup {"poll"}
  /\ UNCHANGED <<server, detail, progress, live, reads, command, awaiting, races, clicks>>

\* Mutant: only what changes the media is read back.
NeedsRefreshMedia(e) == \/ e.type = "asset"
                        \/ e.type = "stage" /\ e.status # "running"

NeedsRefresh(e) == \/ e.type \in {"asset", "complete", "feedback"}
                   \/ e.type = "stage" /\ e.status # "running"

\* Mutant: a status is kept unless the event improves on it.
ApplyForward(e) ==
  CASE e.type = "stage" -> IF live.stages[e.stage] = "succeeded" THEN live
                           ELSE [live EXCEPT !.stages[e.stage] = e.status]
    [] OTHER -> live

ApplyEvent(e) ==
  CASE e.type = "stage" -> [live EXCEPT !.stages[e.stage] = e.status]
    [] e.type = "stage_progress" ->
         [live EXCEPT !.completed = IF e.completed > @ THEN e.completed ELSE @]
    [] OTHER -> live

Receive ==
  /\ stream.at = "open" /\ stream.cursor < Len(log)
  /\ LET e == log[stream.cursor + 1]
     IN /\ live' = ApplyEvent(e)
        /\ timers' = timers \cup (IF NeedsRefresh(e) THEN {"refresh"} ELSE {})
  /\ stream' = [stream EXCEPT !.cursor = @ + 1]
  /\ UNCHANGED <<server, detail, progress, reads, command, awaiting, history>>

\* The coalescing timeout, once; the polling interval, again and again.
Fire(t) ==
  /\ t \in timers /\ Room
  /\ timers' = timers \ ({t} \cap {"refresh"})
  /\ reads' = Append(reads, NewRefresh(FALSE))
  /\ UNCHANGED <<server, detail, progress, live, stream, command, awaiting, history>>

-------------------------------------------------------------------------------
(* The listener                                                              *)

\* The controls are disabled while a request is in flight or a version is generating.
Request(kind) ==
  /\ command = "idle" /\ detail # {} /\ ~Regenerating
  /\ clicks < MaxClicks /\ clicks' = clicks + 1
  /\ command' = kind
  /\ UNCHANGED <<server, detail, progress, live, stream, timers, reads, faults, races>>

\* A respoken line is noted, with the version it is to replace, and playback is left alone.
RespeakLine == Request("respeak") /\ awaiting' = {d.version : d \in detail}

SendNote == Request("note") /\ UNCHANGED awaiting

Regenerate ==
  /\ command = "respeak"
  /\ story.status # "generating"
  /\ story' \in Forked({FanOut}) /\ story'.done = Units - 1
  /\ command' = "accepted"
  /\ UNCHANGED <<log, detail, progress, live, stream, timers, reads, awaiting, history>>

SubmitFeedback ==
  /\ command = "note"
  /\ story.status = "ready"
  /\ story' = [story EXCEPT !.status = "generating", !.note = TRUE]
  /\ command' = "accepted"
  /\ UNCHANGED <<log, detail, progress, live, stream, timers, reads, awaiting, history>>

\* A version is being made, the last one failed (for a note), or a limit is reached.
Refuse ==
  /\ \/ command = "respeak" /\ command' = "refused"
     \/ command = "note" /\ command' = "rejected"
  /\ \/ story.status = "generating" /\ UNCHANGED history
     \/ command = "note" /\ story.status = "failed" /\ UNCHANGED history
     \/ Fault /\ UNCHANGED <<clicks, races>>
  /\ UNCHANGED <<server, detail, progress, live, stream, timers, reads, awaiting>>

\* The page refreshes once its request is accepted, and reports a refusal.
Accepted ==
  /\ command = "accepted" /\ Room
  /\ command' = "refreshing"
  /\ reads' = Append(reads, NewRefresh(TRUE))
  /\ UNCHANGED <<server, detail, progress, live, stream, timers, awaiting, history>>

\* Mutant: the error path of a respeak leaves its line behind.
RefusedKeepingLine ==
  /\ command \in {"refused", "rejected"}
  /\ command' = "idle"
  /\ UNCHANGED <<server, detail, progress, live, stream, timers, reads, awaiting, history>>

Refused ==
  /\ command \in {"refused", "rejected"}
  /\ command' = "idle"
  /\ awaiting' = IF command = "refused" THEN {} ELSE awaiting
  /\ UNCHANGED <<server, detail, progress, live, stream, timers, reads, history>>

-------------------------------------------------------------------------------
Pipeline ==
  \/ \E s \in Stage : StartJob(s) \/ FinishJob(s) \/ FailJob(s)
  \/ FinishUnit \/ Complete \/ MarkFailed \/ Interpret \/ InterpretFails

Answer(i) == i <= Len(reads) /\ (ReadDetail(i) \/ ReadProgress(i) \/ Apply(i))

Requests == Regenerate \/ SubmitFeedback \/ Refuse \/ Accepted \/ Refused

Next ==
  \/ Pipeline \/ Requests \/ Open \/ Drop \/ Receive
  \/ \E i \in 1..Len(reads) : Answer(i) \/ ReadFails(i)
  \/ \E t \in {"poll", "refresh"} : Fire(t)
  \/ RespeakLine \/ SendNote

Spec == Init /\ [][Next]_vars

\* Workers, the API and the browser keep going; a dropped stream may stay down for a while but
\* the browser tries again for ever (strong, since polls may keep filling `reads`).  Nobody has
\* to click, and no fault has to happen.
Fairness ==
  /\ \A s \in Stage : WF_vars(StartJob(s)) /\ WF_vars(FinishJob(s))
  /\ WF_vars(FinishUnit) /\ WF_vars(Complete) /\ WF_vars(MarkFailed)
  /\ WF_vars(Interpret \/ InterpretFails)
  /\ WF_vars(Requests) /\ WF_vars(Answer(1))
  /\ WF_vars(Receive) /\ SF_vars(Open) /\ SF_vars(Fire("refresh"))

FairSpec == Spec /\ Fairness

-------------------------------------------------------------------------------
(* Properties                                                                *)

CaughtUp == stream.at = "open" /\ stream.cursor = Len(log) /\ "publish_lost" \notin races
OfCurrent == \E d \in detail : d.version = story.version

\* Once the page follows the current version and has read the stream to its end, the overlay
\* tells nothing but the truth of every stage this version has begun, whatever earlier versions
\* left in the retained stream; and it never counts fewer lines than are made.
OverlayFresh ==
  CaughtUp /\ OfCurrent =>
    /\ \A s \in Stage : story.job[s] # "pending" => live.stages[s] \in {"unknown", story.job[s]}
    /\ story.job[FanOut] # "pending" => live.completed = 0 \/ live.completed >= story.done

\* "The overlay is always the newer of the two" (events.py): where the base is what the database
\* has, the overlay does not hide it behind something older.
OverlayNewer ==
  CaughtUp /\ OfCurrent =>
    \A s \in Stage, p \in progress : p.job[s] = story.job[s] => Resolve(s) = story.job[s]

Shows == detail = {[version |-> story.version, status |-> story.status,
                    episode |-> story.job[Last] = "succeeded"]}

\* A page that stays open ends up showing the story as it is, through dropped streams and
\* coalesced refreshes, unless it lost one of the races of `Race` or the story failed, which
\* no event announces.
EventuallyCurrent ==
  <>[](races = {} /\ story.status # "failed" => Shows /\ BarFull)

\* A respoken line is jumped to (or the request given up) once the mix is rebuilt.
RespeakAnswered ==
  \A v \in Version :
    awaiting = {v} ~> awaiting # {v} \/ races # {} \/ story.status = "failed"
===============================================================================
