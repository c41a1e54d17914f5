------------------------- MODULE StudioProgress_proofs -------------------------
(***************************************************************************)
(* The overlay of the studio page tells the truth once the stream has been *)
(* read, for any number of stages, lines, requests, refreshes and faults.  *)
(*                                                                         *)
(* OverlayFresh speaks of a page that has caught up; what survives a step  *)
(* is what is still to be read: of every stage the current version has     *)
(* begun, the last event in the stream tells its status, and the overlay   *)
(* is silent or right about it unless an event about it is yet to come.    *)
(* The same holds of the count of lines.  Events of earlier versions do no *)
(* harm, since a stage that begins again is announced again.               *)
(***************************************************************************)
EXTENDS StudioProgress, TLAPS

About(e, s) == e.type = "stage" /\ e.stage = s
Counts(e) == e.type = "stage_progress"

Unread == (stream.cursor + 1)..Len(log)

\* The types that the argument needs.
StoryShape == [version: Nat, status: StoryStatus, first: Stage, job: [Stage -> JobStatus],
               done: 0..Units, note: BOOLEAN]

Shape ==
  /\ story \in StoryShape
  /\ log \in Seq(Event)
  /\ live \in Live
  /\ stream \in [at: {"none", "connecting", "open"}, cursor: Nat]
  /\ stream.cursor <= Len(log)

\* The last event about a stage that has begun, and the last count, tell what is recorded.
StagesLogged ==
  \A s \in Stage, i \in 1..Len(log) :
    story.job[s] # "pending" /\ About(log[i], s) =>
      log[i].status = story.job[s] \/ \E j \in (i + 1)..Len(log) : About(log[j], s)

LinesLogged ==
  \A i \in 1..Len(log) :
    story.job[FanOut] # "pending" /\ Counts(log[i]) =>
      log[i].completed = story.done \/ \E j \in (i + 1)..Len(log) : Counts(log[j])

\* The overlay is right, or will yet be told.
StagesSeen ==
  \A s \in Stage :
    story.job[s] # "pending" =>
      live.stages[s] \in {"unknown", story.job[s]} \/ \E i \in Unread : About(log[i], s)

LinesSeen ==
  story.job[FanOut] # "pending" =>
    \/ live.completed = 0 \/ live.completed >= story.done
    \/ \E i \in Unread : Counts(log[i])

\* Whatever the overlay says is in the stream, to be read again after a new EventSource.
FromLog ==
  /\ \A s \in Stage : live.stages[s] # "unknown" => \E i \in 1..Len(log) : About(log[i], s)
  /\ live.completed # 0 => \E i \in 1..Len(log) : Counts(log[i])

Faithful == StagesLogged /\ LinesLogged /\ StagesSeen /\ LinesSeen /\ FromLog

Inv == Shape /\ ("publish_lost" \in races \/ Faithful)

-------------------------------------------------------------------------------
(* The server                                                                *)

\* What a step of the server appends to the stream.
Appended == (Len(log) + 1)..Len(log')

\* The stream only grows, and the page is not touched.
Grows ==
  /\ Len(log) <= Len(log') /\ \A i \in 1..Len(log) : log'[i] = log[i]
  /\ live' = live /\ stream' = stream

\* What changes of a stage, or of the count, is announced, and nothing is announced after it.
Announces ==
  /\ \A s \in Stage : story'.job[s] # "pending" =>
       \/ story'.job[s] = story.job[s] /\ \A i \in Appended : ~About(log'[i], s)
       \/ \E i \in Appended : /\ About(log'[i], s) /\ log'[i].status = story'.job[s]
                              /\ \A j \in (i + 1)..Len(log') : ~About(log'[j], s)
  /\ story'.job[FanOut] # "pending" =>
       \/ /\ story.job[FanOut] # "pending" /\ story'.done = story.done
          /\ \A i \in Appended : ~Counts(log'[i])
       \/ \E i \in Appended : /\ Counts(log'[i]) /\ log'[i].completed = story'.done
                              /\ \A j \in (i + 1)..Len(log') : ~Counts(log'[j])

\* A server that announces what it changes leaves the stream faithful.
LEMMA AnnouncedIsTold ==
  ASSUME Shape, Shape', Faithful, Grows, Announces
  PROVE  Faithful'
<1>0. /\ Len(log) \in Nat /\ Len(log') \in Nat /\ stream.cursor \in Nat
      /\ stream.cursor <= Len(log) /\ FanOut \in Stage
  BY StudioAssumption DEF Shape, FanOut, Stage
<1>1. StagesLogged'
  <2>1. ASSUME NEW s \in Stage, NEW i \in 1..Len(log'),
               story'.job[s] # "pending", About(log'[i], s)
        PROVE  log'[i].status = story'.job[s] \/ \E j \in (i + 1)..Len(log') : About(log'[j], s)
    <3>1. CASE story'.job[s] = story.job[s] /\ \A j \in Appended : ~About(log'[j], s)
      <4>1. i \in 1..Len(log) /\ log'[i] = log[i]
        BY <1>0, <2>1, <3>1 DEF Appended, Grows
      <4>2. log[i].status = story.job[s] \/ \E j \in (i + 1)..Len(log) : About(log[j], s)
        BY <2>1, <3>1, <4>1 DEF Faithful, StagesLogged
      <4>3. \A j \in (i + 1)..Len(log) : j \in (i + 1)..Len(log') /\ log'[j] = log[j]
        BY <1>0, <4>1 DEF Grows
      <4> QED
        BY <3>1, <4>1, <4>2, <4>3
    <3>2. ASSUME NEW k \in Appended, About(log'[k], s), log'[k].status = story'.job[s],
                 \A j \in (k + 1)..Len(log') : ~About(log'[j], s)
          PROVE  log'[i].status = story'.job[s]
                   \/ \E j \in (i + 1)..Len(log') : About(log'[j], s)
      BY <1>0, <2>1, <3>2 DEF Appended
    <3> QED
      BY <2>1, <3>1, <3>2 DEF Announces
  <2> QED
    BY <2>1 DEF StagesLogged
<1>2. LinesLogged'
  <2>1. ASSUME NEW i \in 1..Len(log'), story'.job[FanOut] # "pending", Counts(log'[i])
        PROVE  log'[i].completed = story'.done \/ \E j \in (i + 1)..Len(log') : Counts(log'[j])
    <3>1. CASE /\ story.job[FanOut] # "pending" /\ story'.done = story.done
               /\ \A j \in Appended : ~Counts(log'[j])
      <4>1. i \in 1..Len(log) /\ log'[i] = log[i]
        BY <1>0, <2>1, <3>1 DEF Appended, Grows
      <4>2. log[i].completed = story.done \/ \E j \in (i + 1)..Len(log) : Counts(log[j])
        BY <2>1, <3>1, <4>1 DEF Faithful, LinesLogged
      <4>3. \A j \in (i + 1)..Len(log) : j \in (i + 1)..Len(log') /\ log'[j] = log[j]
        BY <1>0, <4>1 DEF Grows
      <4> QED
        BY <3>1, <4>1, <4>2, <4>3
    <3>2. ASSUME NEW k \in Appended, Counts(log'[k]), log'[k].completed = story'.done,
                 \A j \in (k + 1)..Len(log') : ~Counts(log'[j])
          PROVE  log'[i].completed = story'.done
                   \/ \E j \in (i + 1)..Len(log') : Counts(log'[j])
      BY <1>0, <2>1, <3>2 DEF Appended
    <3> QED
      BY <2>1, <3>1, <3>2 DEF Announces
  <2> QED
    BY <2>1 DEF LinesLogged
<1>3. /\ \A i \in Unread : i \in Unread' /\ log'[i] = log[i]
      /\ \A i \in Appended : i \in Unread'
  BY <1>0 DEF Unread, Appended, Grows
<1>4. StagesSeen'
  <2>1. ASSUME NEW s \in Stage, story'.job[s] # "pending"
        PROVE  live.stages[s] \in {"unknown", story'.job[s]} \/ \E i \in Unread' : About(log'[i], s)
    BY <1>3, <2>1 DEF Announces, Faithful, StagesSeen
  <2> QED
    BY <2>1 DEF StagesSeen, Grows
<1>5. LinesSeen'
  BY <1>3 DEF Announces, Faithful, LinesSeen, Grows
<1>6. FromLog'
  <2>1. \A i \in 1..Len(log) : i \in 1..Len(log') /\ log'[i] = log[i]
    BY <1>0 DEF Grows
  <2> QED
    BY <2>1 DEF Faithful, FromLog, Grows
<1> QED
  BY <1>1, <1>2, <1>4, <1>5, <1>6 DEF Faithful

\* What is in a sequence of events put together from two.
LEMMA Concat ==
  ASSUME NEW a \in Seq(Event), NEW b \in Seq(Event)
  PROVE  /\ a \o b \in Seq(Event) /\ Len(a \o b) = Len(a) + Len(b)
         /\ \A i \in 1..Len(a) : (a \o b)[i] = a[i]
         /\ \A i \in 1..Len(b) : (a \o b)[Len(a) + i] = b[i]
OBVIOUS

\* What appending does to the stream.
LEMMA AppendEffect ==
  ASSUME Shape, NEW es \in Seq(Event), log' = log \o es, live' = live, stream' = stream
  PROVE  /\ log' \in Seq(Event) /\ Len(log') = Len(log) + Len(es)
         /\ \A i \in 1..Len(es) : log'[Len(log) + i] = es[i]
         /\ stream'.cursor <= Len(log')
         /\ Grows
<1>1. log \in Seq(Event) /\ stream.cursor \in Nat /\ stream.cursor <= Len(log)
  BY DEF Shape
<1>2. /\ log' \in Seq(Event) /\ Len(log') = Len(log) + Len(es)
      /\ \A i \in 1..Len(es) : log'[Len(log) + i] = es[i]
      /\ \A i \in 1..Len(log) : log'[i] = log[i]
  BY <1>1, Concat
<1> QED
  BY <1>1, <1>2 DEF Grows

\* A publish that is not lost appends its events; one that is has lost the race.
LEMMA PublishEffect ==
  ASSUME NEW es, Publish(es)
  PROVE  /\ races \subseteq races'
         /\ \/ log' = log \o es
            \/ log' = log /\ "publish_lost" \in races'
BY DEF Publish, Lose, history

\* The step of a stage is announced; the fan-out begins with its count.
LEMMA JobTold ==
  ASSUME Inv, NEW s \in Stage, NEW st \in JobStatus \ {"pending"},
         story' = [story EXCEPT !.job[s] = st],
         s = FanOut /\ story.job[s] = "pending" => st = "running",
         races \subseteq races', live' = live, stream' = stream,
         NEW es \in Seq(Event), es[1] = StageEvent(s, st),
         \/ Len(es) = 1 /\ ~(s = FanOut /\ st = "running")
         \/ Len(es) = 2 /\ s = FanOut /\ es[2] = Count(story.done),
         \/ log' = log \o es
         \/ log' = log /\ "publish_lost" \in races'
  PROVE  Inv'
<1> DEFINE n == Len(log)
<1>1. /\ story \in StoryShape /\ n \in Nat /\ FanOut \in Stage
      /\ story.job \in [Stage -> JobStatus] /\ story.done \in 0..Units
  BY StudioAssumption DEF Inv, Shape, StoryShape, FanOut, Stage
<1>2. /\ story'.job = [story.job EXCEPT ![s] = st] /\ story'.done = story.done
      /\ story' \in StoryShape
  BY <1>1 DEF StoryShape
<1>3. /\ story'.job[s] = st
      /\ \A t \in Stage : t # s => story'.job[t] = story.job[t]
  BY <1>1, <1>2
<1>4. CASE log' = log /\ "publish_lost" \in races'
  BY <1>2, <1>4 DEF Inv, Shape
<1>5. CASE log' = log \o es
  <2>1. /\ log' \in Seq(Event) /\ Len(log') = n + Len(es) /\ stream'.cursor <= Len(log')
        /\ \A i \in 1..Len(es) : log'[n + i] = es[i]
        /\ Grows
    BY <1>5, AppendEffect DEF Inv
  <2>2. Shape'
    BY <1>2, <2>1 DEF Inv, Shape
  <2>3. log'[n + 1] = StageEvent(s, st) /\ n + 1 \in Appended
    BY <1>1, <2>1 DEF Appended
  <2>4. /\ About(log'[n + 1], s) /\ log'[n + 1].status = st /\ ~Counts(log'[n + 1])
        /\ \A t \in Stage : t # s => ~About(log'[n + 1], t)
    BY <2>3 DEF About, Counts, StageEvent
  <2>5. CASE Len(es) = 2
    <3>1. log'[n + 2] = Count(story.done) /\ Len(log') = n + 2
      BY <2>1, <2>5
    <3>2. \A t \in Stage : ~About(log'[n + 2], t)
      BY <3>1 DEF About, Count
    <3>3. Counts(log'[n + 2]) /\ log'[n + 2].completed = story'.done
      BY <1>2, <3>1 DEF Counts, Count
    <3>4. /\ \A i \in Appended : i = n + 1 \/ i = n + 2
          /\ n + 2 \in Appended
          /\ \A j \in (n + 2)..Len(log') : j = n + 2
          /\ (n + 3)..Len(log') = {}
      BY <1>1, <3>1 DEF Appended
    <3>5. \A t \in Stage : story'.job[t] # "pending" =>
            \/ story'.job[t] = story.job[t] /\ \A i \in Appended : ~About(log'[i], t)
            \/ \E i \in Appended : /\ About(log'[i], t) /\ log'[i].status = story'.job[t]
                                   /\ \A j \in (i + 1)..Len(log') : ~About(log'[j], t)
      <4>1. ASSUME NEW t \in Stage, t # s
            PROVE  story'.job[t] = story.job[t] /\ \A i \in Appended : ~About(log'[i], t)
        BY <1>3, <2>4, <3>2, <3>4, <4>1
      <4>2. \A j \in ((n + 1) + 1)..Len(log') : ~About(log'[j], s)
        BY <1>1, <3>2, <3>4
      <4> QED
        BY <1>3, <2>3, <2>4, <4>1, <4>2
    <3>6. \E i \in Appended : /\ Counts(log'[i]) /\ log'[i].completed = story'.done
                              /\ \A j \in (i + 1)..Len(log') : ~Counts(log'[j])
      <4>1. ((n + 2) + 1)..Len(log') = {}
        BY <1>1, <3>1
      <4> QED
        BY <3>3, <3>4, <4>1
    <3> QED
      BY <2>1, <2>2, <3>5, <3>6, AnnouncedIsTold DEF Inv, Announces
  <2>6. CASE Len(es) = 1
    <3>1. Len(log') = n + 1
      BY <2>1, <2>6
    <3>2. /\ \A i \in Appended : i = n + 1
          /\ ((n + 1) + 1)..Len(log') = {}
      BY <1>1, <3>1 DEF Appended
    <3>3. \A t \in Stage : story'.job[t] # "pending" =>
            \/ story'.job[t] = story.job[t] /\ \A i \in Appended : ~About(log'[i], t)
            \/ \E i \in Appended : /\ About(log'[i], t) /\ log'[i].status = story'.job[t]
                                   /\ \A j \in (i + 1)..Len(log') : ~About(log'[j], t)
      BY <1>3, <2>3, <2>4, <3>2
    <3>4. story'.job[FanOut] # "pending" => story.job[FanOut] # "pending"
      BY <1>1, <1>3, <2>6
    <3>5. \A i \in Appended : ~Counts(log'[i])
      BY <2>4, <3>2
    <3> QED
      BY <1>2, <2>1, <2>2, <3>3, <3>4, <3>5, AnnouncedIsTold DEF Inv, Announces
  <2> QED
    BY <2>5, <2>6
<1> QED
  BY <1>4, <1>5

\* The rows of the stages move with their events.
LEMMA JobKeeps ==
  ASSUME Inv, NEW s \in Stage, StartJob(s) \/ FinishJob(s) \/ FailJob(s)
  PROVE  Inv'
<1>0. /\ log \in Seq(Event) /\ Count(story.done) \in Event
      /\ \A st \in JobStatus : StageEvent(s, st) \in Event
  BY DEF Inv, Shape, StoryShape, StageEvent, Count, Event
<1>1. CASE StartJob(s)
  <2> DEFINE tail == IF s = FanOut THEN <<Count(story.done)>> ELSE <<>>
             head == <<StageEvent(s, "running")>>
             es == head \o tail
  <2>1. /\ story' = [story EXCEPT !.job[s] = "running"] /\ live' = live /\ stream' = stream
        /\ Publish(es)
    BY <1>1 DEF StartJob, page
  <2>2. /\ races \subseteq races'
        /\ \/ log' = log \o es
           \/ log' = log /\ "publish_lost" \in races'
    BY <2>1, PublishEffect
  <2>3. /\ tail \in Seq(Event)
        /\ IF s = FanOut THEN Len(tail) = 1 /\ tail[1] = Count(story.done) ELSE Len(tail) = 0
    BY <1>0
  <2>4. head \in Seq(Event) /\ Len(head) = 1 /\ head[1] = StageEvent(s, "running")
    BY <1>0 DEF JobStatus
  <2> HIDE DEF head, tail
  <2>5. /\ es \in Seq(Event) /\ es[1] = StageEvent(s, "running")
        /\ IF s = FanOut THEN Len(es) = 2 /\ es[2] = Count(story.done) ELSE Len(es) = 1
    <3>0. es \in Seq(Event) /\ Len(es) = Len(head) + Len(tail)
      BY <2>3, <2>4, Concat
    <3>1. /\ \A i \in 1..Len(head) : es[i] = head[i]
          /\ \A i \in 1..Len(tail) : es[Len(head) + i] = tail[i]
      BY <2>3, <2>4, Concat
    <3> HIDE DEF es
    <3>2. es[1] = StageEvent(s, "running") /\ Len(es) = 1 + Len(tail)
      BY <2>4, <3>0, <3>1
    <3>3. CASE s = FanOut
      <4>1. Len(tail) = 1 /\ tail[1] = Count(story.done)
        BY <2>3, <3>3
      <4>2. es[2] = tail[1]
        BY <2>4, <3>1, <4>1
      <4>3. Len(es) = 2
        BY <3>2, <4>1
      <4>4. es[2] = Count(story.done)
        BY <4>1, <4>2
      <4> QED BY <3>0, <3>2, <3>3, <4>3, <4>4, Zenon
    <3>4. CASE s # FanOut
      BY <2>3, <3>0, <3>2, <3>4
    <3> QED BY <3>3, <3>4
  <2> HIDE DEF es
  <2> QED
    BY <2>1, <2>2, <2>5, JobTold DEF JobStatus
<1>2. CASE FinishJob(s)
  <2> DEFINE es == <<StageEvent(s, "succeeded")>>
  <2>1. /\ story' = [story EXCEPT !.job[s] = "succeeded"] /\ live' = live /\ stream' = stream
        /\ Publish(es) /\ story.job[s] # "pending"
    BY <1>2 DEF FinishJob, page
  <2>2. /\ races \subseteq races'
        /\ \/ log' = log \o es
           \/ log' = log /\ "publish_lost" \in races'
    BY <2>1, PublishEffect
  <2>3. es \in Seq(Event) /\ es[1] = StageEvent(s, "succeeded") /\ Len(es) = 1
    BY <1>0 DEF JobStatus
  <2> HIDE DEF es
  <2> QED
    BY <2>1, <2>2, <2>3, JobTold DEF JobStatus
<1>3. CASE FailJob(s)
  <2> DEFINE es == <<StageEvent(s, "failed")>>
  <2>1. /\ story' = [story EXCEPT !.job[s] = "failed"] /\ live' = live /\ stream' = stream
        /\ races' = races /\ story.job[s] # "pending"
    BY <1>3 DEF FailJob, page
  <2>2. log' = log \o es
    BY <1>0, <1>3 DEF FailJob, JobStatus
  <2>3. es \in Seq(Event) /\ es[1] = StageEvent(s, "failed") /\ Len(es) = 1
    BY <1>0 DEF JobStatus
  <2> HIDE DEF es
  <2> QED
    BY <2>1, <2>2, <2>3, JobTold DEF JobStatus
<1> QED
  BY <1>1, <1>2, <1>3

\* A line that is made is counted.
LEMMA UnitKeeps == ASSUME Inv, FinishUnit PROVE Inv'
<1> DEFINE es == <<[type |-> "asset"], Count(story.done + 1)>>
           n == Len(log)
<1>1. /\ story' = [story EXCEPT !.done = @ + 1] /\ story.job[FanOut] = "running"
      /\ story.done < Units
      /\ races \subseteq races' /\ live' = live /\ stream' = stream
      /\ \/ log' = log \o es
         \/ log' = log /\ "publish_lost" \in races'
  BY PublishEffect DEF FinishUnit, page
<1>2. /\ story'.job = story.job /\ story'.done = story.done + 1
      /\ story.done + 1 \in 0..Units
      /\ story' \in StoryShape
  <2>1. story \in StoryShape
    BY DEF Inv, Shape
  <2> QED
    BY <1>1, <2>1, StudioAssumption DEF StoryShape
<1>3. /\ es \in Seq(Event) /\ Len(es) = 2
      /\ es[1] = [type |-> "asset"] /\ es[2] = Count(story.done + 1)
  <2>1. [type |-> "asset"] \in Event /\ Count(story.done + 1) \in Event
    BY <1>2 DEF Count, Event
  <2> QED
    BY <2>1
<1> HIDE DEF es
<1>4. CASE log' = log /\ "publish_lost" \in races'
  BY <1>1, <1>2, <1>4 DEF Inv, Shape
<1>5. CASE log' = log \o es
  <2>1. /\ log' \in Seq(Event) /\ Len(log') = n + Len(es) /\ stream'.cursor <= Len(log')
        /\ \A i \in 1..Len(es) : log'[n + i] = es[i]
        /\ Grows
    BY <1>1, <1>3, <1>5, AppendEffect DEF Inv
  <2>2. Shape' /\ n \in Nat
    BY <1>1, <1>2, <2>1 DEF Inv, Shape
  <2>4. log'[n + 1] = [type |-> "asset"] /\ log'[n + 2] = Count(story.done + 1)
    BY <1>3, <2>1
  <2>5. Appended = {n + 1, n + 2} /\ Len(log') = n + 2 /\ (n + 3)..Len(log') = {}
    BY <1>3, <2>1, <2>2 DEF Appended
  <2>6. /\ \A t \in Stage : ~About(log'[n + 1], t) /\ ~About(log'[n + 2], t)
        /\ Counts(log'[n + 2]) /\ log'[n + 2].completed = story'.done
    BY <1>2, <2>4 DEF About, Counts, Count
  <2>7. Announces
    BY <1>2, <2>5, <2>6 DEF Announces
  <2> QED
    BY <1>1, <2>1, <2>2, <2>7, AnnouncedIsTold DEF Inv
<1> QED
  BY <1>1, <1>4, <1>5

\* A step of the server that changes no stage and no count, or that begins a version.
LEMMA QuietKeeps ==
  ASSUME Inv,
         story' \in StoryShape,
         story'.job = NoJobs \/ (story'.job = story.job /\ story'.done = story.done),
         live' = live, stream' = stream, races \subseteq races',
         \/ log' = log
         \/ \E e \in Event : log' = log \o <<e>> /\ e.type \in {"feedback", "complete"}
  PROVE  Inv'
<1>1. log \in Seq(Event) /\ Len(log) \in Nat /\ FanOut \in Stage
  BY StudioAssumption DEF Inv, Shape, FanOut, Stage
<1>2. Shape' /\ Grows /\ \A i \in Appended : ~Counts(log'[i]) /\ \A s \in Stage : ~About(log'[i], s)
  <2>1. CASE log' = log
    BY <1>1, <2>1 DEF Inv, Shape, Grows, Appended
  <2>2. ASSUME NEW e \in Event, log' = log \o <<e>>, e.type \in {"feedback", "complete"}
        PROVE  Shape' /\ Grows
                 /\ \A i \in Appended : ~Counts(log'[i]) /\ \A s \in Stage : ~About(log'[i], s)
    <3> DEFINE es == <<e>>
    <3>0. es \in Seq(Event) /\ Len(es) = 1 /\ es[1] = e
      OBVIOUS
    <3>1. log' = log \o es
      BY <2>2
    <3> HIDE DEF es
    <3>2. /\ log' \in Seq(Event) /\ Len(log') = Len(log) + Len(es)
          /\ \A i \in 1..Len(es) : log'[Len(log) + i] = es[i]
          /\ stream'.cursor <= Len(log') /\ Grows
      BY <3>0, <3>1, AppendEffect DEF Inv
    <3>3. Len(log') = Len(log) + 1 /\ log'[Len(log) + 1] = e
      BY <3>0, <3>2
    <3>4. Appended = {Len(log) + 1}
      BY <1>1, <3>3 DEF Appended
    <3>5. ~Counts(e) /\ \A s \in Stage : ~About(e, s)
      BY <2>2 DEF Counts, About
    <3> QED
      BY <3>2, <3>3, <3>4, <3>5 DEF Inv, Shape
  <2> QED
    BY <2>1, <2>2
<1>3. Announces
  BY <1>1, <1>2 DEF Announces, NoJobs
<1> QED
  BY <1>2, <1>3, AnnouncedIsTold DEF Inv

-------------------------------------------------------------------------------
(* The page                                                                  *)

\* A step of the page that neither reads the stream nor touches the server: the overlay may
\* be emptied, and the stream begun again.
LEMMA PageKeeps ==
  ASSUME Inv, UNCHANGED server, races \subseteq races',
         live' \in {live, EmptyLive},
         stream' \in [at: {"none", "connecting", "open"}, cursor: {stream.cursor, 0}]
  PROVE  Inv'
<1>1. /\ log' = log /\ story' = story
      /\ stream.cursor \in Nat /\ Len(log) \in Nat /\ stream'.cursor \in {stream.cursor, 0}
  BY DEF Inv, Shape, server
<1>2. /\ EmptyLive \in Live /\ EmptyLive.completed = 0
      /\ \A s \in Stage : EmptyLive.stages[s] = "unknown"
  BY StudioAssumption DEF EmptyLive, Live
<1>3. Shape'
  BY <1>1, <1>2 DEF Inv, Shape
<1>4. ASSUME Faithful PROVE Faithful'
  <2>1. StagesLogged' /\ LinesLogged' /\ FromLog'
    BY <1>1, <1>2, <1>4 DEF Faithful, StagesLogged, LinesLogged, FromLog
  <2>2. CASE stream'.cursor = stream.cursor
    <3>1. Unread' = Unread
      BY <1>1, <2>2 DEF Unread
    <3> QED
      BY <1>1, <1>2, <1>4, <2>1, <3>1 DEF Faithful, StagesSeen, LinesSeen
  <2>3. CASE stream'.cursor = 0
    <3>1. Unread' = 1..Len(log)
      BY <1>1, <2>3 DEF Unread
    <3> QED
      BY <1>1, <1>2, <1>4, <2>1, <3>1 DEF Faithful, StagesSeen, LinesSeen, FromLog
  <2> QED
    BY <1>1, <2>2, <2>3
<1> QED
  BY <1>3, <1>4 DEF Inv

\* An event is read: the last one about a stage is right, of any other more is to come.
LEMMA ReceiveKeeps == ASSUME Inv, Receive PROVE Inv'
<1> DEFINE k == stream.cursor + 1
           e == log[k]
<1>1. /\ stream.cursor \in Nat /\ stream.cursor < Len(log) /\ Len(log) \in Nat
      /\ log' = log /\ story' = story /\ races' = races
      /\ live' = ApplyEvent(e) /\ stream' = [stream EXCEPT !.cursor = k]
  BY DEF Inv, Shape, Receive, server, history
<1>2. k \in 1..Len(log) /\ e \in Event
  BY <1>1 DEF Inv, Shape
<1> HIDE DEF e
<1>3. /\ live.stages \in [Stage -> JobStatus \cup {"unknown"}] /\ live.completed \in 0..Units
      /\ story.done \in 0..Units
  BY DEF Inv, Shape, StoryShape, Live
<1>4. /\ live' \in Live
      /\ \A s \in Stage : live'.stages[s] = IF About(e, s) THEN e.status ELSE live.stages[s]
      /\ live'.completed = IF Counts(e) /\ e.completed > live.completed THEN e.completed
                           ELSE live.completed
      /\ Counts(e) => e.completed \in 0..Units
  <2>1. CASE e.type = "stage"
    <3>1. e.stage \in Stage /\ e.status \in JobStatus
      BY <1>2, <2>1 DEF Event
    <3>2. live' = [live EXCEPT !.stages[e.stage] = e.status]
      BY <1>1, <2>1 DEF ApplyEvent
    <3> QED
      BY <1>3, <2>1, <3>1, <3>2 DEF Inv, Shape, Live, About, Counts
  <2>2. CASE e.type = "stage_progress"
    <3>1. e.completed \in 0..Units
      BY <1>2, <2>2 DEF Event
    <3>2. live' = [live EXCEPT !.completed = IF e.completed > @ THEN e.completed ELSE @]
      BY <1>1, <2>2 DEF ApplyEvent
    <3> QED
      BY <1>3, <2>2, <3>1, <3>2 DEF Inv, Shape, Live, About, Counts
  <2>3. CASE e.type \notin {"stage", "stage_progress"}
    BY <1>1, <1>3, <2>3 DEF ApplyEvent, Inv, Shape, Live, About, Counts
  <2> QED
    BY <2>1, <2>2, <2>3
<1>5. stream' \in [at: {"none", "connecting", "open"}, cursor: Nat] /\ stream'.cursor = k
  BY <1>1 DEF Inv, Shape
<1>6. Shape'
  BY <1>1, <1>4, <1>5 DEF Inv, Shape
<1>7. \A i \in Unread : i = k \/ i \in Unread'
  BY <1>1, <1>5 DEF Unread
<1>8. (k + 1)..Len(log) = Unread'
  BY <1>1, <1>5 DEF Unread
<1>9. ASSUME Faithful PROVE Faithful'
  <2>1. StagesLogged' /\ LinesLogged'
    BY <1>1, <1>9 DEF Faithful, StagesLogged, LinesLogged
  <2>2. FromLog'
    BY <1>1, <1>2, <1>4, <1>9 DEF Faithful, FromLog, e
  <2>3. StagesSeen'
    <3>1. ASSUME NEW s \in Stage, story.job[s] # "pending"
          PROVE  \/ live'.stages[s] \in {"unknown", story.job[s]}
                 \/ \E i \in Unread' : About(log[i], s)
      <4>1. CASE About(e, s)
        BY <1>2, <1>4, <1>8, <1>9, <3>1, <4>1 DEF Faithful, StagesLogged, e
      <4>2. CASE ~About(e, s)
        BY <1>4, <1>7, <1>9, <3>1, <4>2 DEF Faithful, StagesSeen, e
      <4> QED
        BY <4>1, <4>2
    <3> QED
      BY <1>1, <3>1 DEF StagesSeen
  <2>4. LinesSeen'
    <3>1. ASSUME story.job[FanOut] # "pending"
          PROVE  \/ live'.completed = 0 \/ live'.completed >= story.done
                 \/ \E i \in Unread' : Counts(log[i])
      <4>1. CASE Counts(e)
        <5>1. e.completed = story.done \/ \E i \in Unread' : Counts(log[i])
          BY <1>2, <1>8, <1>9, <3>1, <4>1 DEF Faithful, LinesLogged, e
        <5> QED
          BY <1>3, <1>4, <4>1, <5>1
      <4>2. CASE ~Counts(e)
        BY <1>4, <1>7, <1>9, <3>1, <4>2 DEF Faithful, LinesSeen, e
      <4> QED
        BY <4>1, <4>2
    <3> QED
      BY <1>1, <3>1 DEF LinesSeen
  <2> QED
    BY <2>1, <2>2, <2>3, <2>4 DEF Faithful
<1> QED
  BY <1>1, <1>6, <1>9 DEF Inv

-------------------------------------------------------------------------------
(* Theorems                                                                  *)

\* A page that has been opened has read nothing, on a new story or on a ready one.
LEMMA InitInv == Init => Inv
<1> SUFFICES ASSUME Init PROVE Inv
  OBVIOUS
<1>0. /\ FanOut \in Stage /\ Last \in Stage /\ 0 \in 0..Units /\ Units \in 0..Units
      /\ EmptyLive \in Live
  BY StudioAssumption DEF FanOut, Stage, EmptyLive, Live
<1>1. /\ \A s \in Stage : EmptyLive.stages[s] = "unknown" /\ EmptyLive.completed = 0
      /\ live = EmptyLive /\ stream = NoStream
  BY DEF Init, EmptyLive
<1>2. StagesSeen /\ LinesSeen /\ FromLog
  BY <1>0, <1>1 DEF StagesSeen, LinesSeen, FromLog, EmptyLive
<1>3. CASE story = New /\ log = <<>>
  <2>1. Shape
    BY <1>0, <1>1, <1>3 DEF Shape, StoryShape, New, NoJobs, JobStatus, StoryStatus, NoStream
  <2>2. StagesLogged /\ LinesLogged
    BY <1>3 DEF StagesLogged, LinesLogged
  <2> QED
    BY <1>2, <2>1, <2>2 DEF Inv, Faithful
<1>4. CASE story = Ready /\ log = Told
  <2>1. story \in StoryShape
    BY <1>0, <1>4 DEF StoryShape, Ready, New, NoJobs, JobStatus, StoryStatus
  <2>2. \A s \in Stage : story.job[s] = "succeeded"
    BY <1>4 DEF Ready, New
  <2>3. /\ Len(log) = 4
        /\ log[1] = StageEvent(FanOut, "succeeded") /\ log[2] = StageEvent(Last, "running")
        /\ log[3] = StageEvent(Last, "succeeded") /\ log[4] = [type |-> "complete"]
    BY <1>4 DEF Told
  <2>4. log \in Seq(Event)
    <3>1. /\ StageEvent(FanOut, "succeeded") \in Event /\ StageEvent(Last, "running") \in Event
          /\ StageEvent(Last, "succeeded") \in Event /\ [type |-> "complete"] \in Event
      BY <1>0 DEF StageEvent, Event, JobStatus
    <3> QED
      BY <1>4, <3>1 DEF Told
  <2>5. Shape
    BY <1>0, <1>1, <2>1, <2>3, <2>4 DEF Shape, NoStream
  <2>6. /\ \A i \in 1..4 : ~Counts(log[i])
        /\ \A s \in Stage, i \in 1..4 : About(log[i], s) =>
             log[i].status = "succeeded" \/ (i = 2 /\ About(log[3], s))
    BY <2>3 DEF Counts, About, StageEvent
  <2>7. StagesLogged /\ LinesLogged
    BY <2>2, <2>3, <2>6 DEF StagesLogged, LinesLogged
  <2> QED
    BY <1>2, <2>5, <2>7 DEF Inv, Faithful
<1> QED
  BY <1>3, <1>4 DEF Init

\* A child begins with no stage done.
LEMMA ForkShape ==
  ASSUME Shape, NEW from \in SUBSET Stage, story' \in Forked(from)
  PROVE  story' \in StoryShape /\ story'.job = NoJobs
<1>1. PICK s \in from, n \in 0..Units :
        story' = [version |-> story.version + 1, status |-> "generating", first |-> s,
                  job |-> NoJobs, done |-> n, note |-> FALSE]
  BY DEF Forked
<1>2. NoJobs \in [Stage -> JobStatus] /\ story.version + 1 \in Nat /\ s \in Stage
  BY DEF NoJobs, JobStatus, Shape, StoryShape
<1> QED
  BY <1>1, <1>2 DEF StoryShape, StoryStatus

LEMMA NextInv == Inv /\ [Next]_vars => Inv'
<1> SUFFICES ASSUME Inv, [Next]_vars PROVE Inv'
  OBVIOUS
<1>1. ASSUME NEW s \in Stage, StartJob(s) \/ FinishJob(s) \/ FailJob(s) PROVE Inv'
  BY <1>1, JobKeeps
<1>2. CASE FinishUnit
  BY <1>2, UnitKeeps
<1>3. CASE Complete \/ MarkFailed \/ InterpretFails
  <2>1. /\ story' \in StoryShape /\ story'.job = story.job /\ story'.done = story.done
        /\ live' = live /\ stream' = stream
    BY <1>3 DEF Complete, MarkFailed, InterpretFails, Inv, Shape, StoryShape, StoryStatus, page
  <2>2. races \subseteq races'
    BY <1>3, PublishEffect DEF Complete, MarkFailed, InterpretFails, history
  <2>3. \/ log' = log
        \/ \E e \in Event : log' = log \o <<e>> /\ e.type \in {"feedback", "complete"}
    <3>1. ASSUME NEW t \in {"feedback", "complete"}, Publish(<<[type |-> t]>>)
          PROVE  \/ log' = log
                 \/ \E e \in Event : log' = log \o <<e>> /\ e.type \in {"feedback", "complete"}
      <4>1. [type |-> t] \in Event /\ [type |-> t].type = t
        BY DEF Event
      <4> QED
        BY <3>1, <4>1, PublishEffect
    <3> QED
      BY <1>3, <3>1 DEF Complete, MarkFailed, InterpretFails
  <2> QED
    BY <2>1, <2>2, <2>3, QuietKeeps
<1>4. CASE Interpret
  <2>1. story' \in StoryShape /\ story'.job = NoJobs
    BY <1>4, ForkShape DEF Interpret, Inv
  <2>2. /\ live' = live /\ stream' = stream /\ races \subseteq races'
        /\ \/ log' = log \o <<[type |-> "feedback"]>>
           \/ log' = log
    BY <1>4, PublishEffect DEF Interpret, page
  <2>3. [type |-> "feedback"] \in Event /\ [type |-> "feedback"].type = "feedback"
    BY DEF Event
  <2> QED
    BY <2>1, <2>2, <2>3, QuietKeeps
<1>5. CASE Regenerate
  <2>1. {FanOut} \subseteq Stage
    BY StudioAssumption DEF FanOut, Stage
  <2>2. story' \in StoryShape /\ story'.job = NoJobs
    BY <1>5, <2>1, ForkShape DEF Regenerate, Inv
  <2> QED
    BY <1>5, <2>2, QuietKeeps DEF Regenerate, history
<1>6. CASE SubmitFeedback
  <2>1. story' \in StoryShape /\ story'.job = story.job /\ story'.done = story.done
    BY <1>6 DEF SubmitFeedback, Inv, Shape, StoryShape, StoryStatus
  <2> QED
    BY <1>6, <2>1, QuietKeeps DEF SubmitFeedback, history
<1>7. CASE Receive
  BY <1>7, ReceiveKeeps
<1>8. stream \in [at: {"none", "connecting", "open"}, cursor: {stream.cursor, 0}]
  BY DEF Inv, Shape
<1>9. CASE Refuse \/ Accepted \/ Refused \/ RespeakLine \/ SendNote
  BY <1>8, <1>9, PageKeeps DEF Refuse, Accepted, Refused, RespeakLine, SendNote, Request, Fault,
                               history
<1>10. CASE Open \/ Drop
  <2>1. stream' \in [at: {"none", "connecting", "open"}, cursor: {stream.cursor, 0}]
    BY <1>8, <1>10 DEF Open, Drop
  <2> QED
    BY <1>10, <2>1, PageKeeps DEF Open, Drop, history
<1>11. ASSUME NEW i \in 1..Len(reads), Answer(i) \/ ReadFails(i) PROVE Inv'
  <2>1. CASE ReadDetail(i) \/ ReadProgress(i) \/ ReadFails(i)
    BY <1>8, <2>1, PageKeeps DEF ReadDetail, ReadProgress, ReadFails, Lose, history
  <2>2. CASE Apply(i)
    <3>1. PICK statuses, rest : Rewatch(statuses, rest)
      BY <2>2 DEF Apply
    <3>2. \/ stream' = stream
          \/ stream' = [NoStream EXCEPT !.at = "connecting"]
          \/ stream' = NoStream
      BY <3>1, Zenon DEF Rewatch
    <3>3. stream' \in [at: {"none", "connecting", "open"}, cursor: {stream.cursor, 0}]
      BY <1>8, <3>2 DEF NoStream
    <3>4. /\ UNCHANGED server /\ live' \in {live, EmptyLive} /\ races \subseteq races'
      BY <2>2 DEF Apply
    <3> QED
      BY <3>3, <3>4, PageKeeps
  <2> QED
    BY <1>11, <2>1, <2>2 DEF Answer
<1>12. ASSUME NEW t \in {"poll", "refresh"}, Fire(t) PROVE Inv'
  BY <1>8, <1>12, PageKeeps DEF Fire, history
<1>13. CASE UNCHANGED vars
  BY <1>8, <1>13, PageKeeps DEF vars, server
<1> QED
  BY <1>1, <1>2, <1>3, <1>4, <1>5, <1>6, <1>7, <1>9, <1>10, <1>11, <1>12, <1>13
  DEF Next, Pipeline, Requests

\* A page that follows the current version and has read the stream to its end is told the truth
\* by its overlay, for any number of stages, lines, versions and refreshes, however often the
\* stream was dropped and replayed.
THEOREM OverlayTrue == Spec => []OverlayFresh
<1>1. Inv => OverlayFresh
  <2> SUFFICES ASSUME Inv, CaughtUp PROVE OverlayFresh
    BY DEF OverlayFresh
  <2>1. Faithful /\ Unread = {}
    BY DEF CaughtUp, Inv, Shape, Unread
  <2>2. FanOut \in Stage
    BY StudioAssumption DEF FanOut, Stage
  <2> QED
    BY <2>1, <2>2 DEF OverlayFresh, Faithful, StagesSeen, LinesSeen
<1> QED
  BY <1>1, InitInv, NextInv, PTL DEF Spec

===============================================================================
