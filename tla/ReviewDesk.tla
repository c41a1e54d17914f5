------------------------------- MODULE ReviewDesk ------------------------------
(***************************************************************************)
(* The editorial review of stories: the review queue of the admin console, *)
(* the API that applies a decision, and what goes on behind the desk's     *)
(* back - another admin, the owner who regenerates, the pipeline.          *)
(*                                                                         *)
(* A decision reads a story's row, checks it, and writes back the columns  *)
(* it has changed; nothing locks the row meanwhile.  The queue, a story    *)
(* that is opened and the story that is read again after a decision are    *)
(* answered in any order.                                                  *)
(***************************************************************************)
EXTENDS Naturals, FiniteSets

CONSTANTS
  Stories,     (* the stories of the queue                                *)
  MaxClicks,   (* bound: clicks on the desk                               *)
  MaxEvents    (* bound: what goes on behind the desk's back: decisions   *)
               (* of another admin, regenerations, requests that fail     *)

VARIABLES
  story,       \* the rows
  review,      \* this desk's decision in flight: `saving` (a set of one or none)
  other,       \* the other admin's decision in flight (a set of one or none)
  queue,       \* the rows as the queue shows them (empty: not loaded)
  loading,     \* the queue is hidden while it is loaded
  detail,      \* the story that is open (a set of one or none)
  lists,       \* the queues in flight
  opens,       \* the stories in flight
  clicks, events,
  saved,       \* history: per story, the row of this desk's last decision
  overtaken,   \* history: an older answer has replaced a newer one
  crossed      \* history: the stories for which two decisions were handled at the same time

vars == <<story, review, other, queue, loading, detail, lists, opens, clicks, events, saved,
          overtaken, crossed>>
desk == <<queue, loading, detail, lists, opens, clicks, saved, overtaken>>

StoryStatus == {"draft", "generating", "ready", "failed", "flagged"}
ReviewStatus == {"pending", "approved", "changes_requested", "flagged"}
ReviewAction == {"approve", "changes_requested", "flag", "clear_flag"}
Before == [status: StoryStatus, review: ReviewStatus]

Maybe(S) == {{}} \cup {{x} : x \in S}

\* A row, whether the pipeline is at work on its current version and what the quality report
\* says of that version, and how often it was decided on.
Row == [status: StoryStatus, flagged: BOOLEAN, review: ReviewStatus, before: Maybe(Before),
        building: BOOLEAN, complete: BOOLEAN, stamp: 0..MaxClicks + MaxEvents]

TypeOK ==
  /\ story \in [Stories -> Row]
  /\ \A d \in review \cup other :
       /\ d.story \in Stories /\ d.action \in ReviewAction /\ d.row \subseteq Row
       /\ d.at \in {"sent", "read", "decided", "refused", "again", "shown", "lost"}
  /\ \A q \in queue : q \in [Stories -> Row]
  /\ \A d \in detail : d.id \in Stories /\ d.row \in Row /\ d.of \in Stories
  /\ Cardinality(review) <= 1 /\ Cardinality(other) <= 1
  /\ Cardinality(queue) <= 1 /\ Cardinality(detail) <= 1
  /\ loading \in BOOLEAN
  /\ saved \in [Stories -> 0..MaxClicks + MaxEvents]
  /\ overtaken \in BOOLEAN /\ crossed \subseteq Stories

Fresh(s) == [status |-> s, flagged |-> FALSE, review |-> "pending", before |-> {},
             building |-> FALSE, complete |-> s = "ready", stamp |-> 0]

NewList == [n |-> clicks, rows |-> {}]

Init ==
  /\ story \in [Stories -> {Fresh("ready"), Fresh("failed")}]
  /\ review = {} /\ other = {}
  /\ queue = {} /\ loading = TRUE /\ detail = {}
  /\ lists = {[n |-> 0, rows |-> {}]} /\ opens = {}
  /\ clicks = 0 /\ events = 0
  /\ saved = [s \in Stories |-> 0] /\ overtaken = FALSE /\ crossed = {}

Event == events < MaxEvents /\ events' = events + 1

-------------------------------------------------------------------------------
(* The owner and the pipeline                                                *)

Elsewhere(s, row) ==
  /\ story' = [story EXCEPT ![s] = row]
  /\ UNCHANGED <<review, other, desk, crossed>>

\* A new version replaces the current one; a flag is not looked at.
Regenerate(s) ==
  /\ story[s].status # "generating" /\ Event
  /\ Elsewhere(s, [story[s] EXCEPT !.status = "generating", !.building = TRUE,
                                     !.complete = FALSE])

\* The pipeline marks the version that is current; a flag is not looked at either.
MarkStory(s) ==
  /\ story[s].building
  /\ \E done \in BOOLEAN :
       Elsewhere(s, [story[s] EXCEPT !.status = IF done THEN "ready" ELSE "failed",
                                     !.building = FALSE, !.complete = done])
  /\ UNCHANGED events

-------------------------------------------------------------------------------
(* The API: a decision                                                       *)

\* What a flag has hidden, or what can be told from the current version.
Restored(row) ==
  IF \E b \in row.before : b.status # "flagged" THEN (CHOOSE b \in row.before : TRUE).status
  ELSE IF row.complete THEN "ready" ELSE "draft"

Permitted(row, action) ==
  /\ row.status # "generating"
  /\ action = "clear_flag" => row.flagged
  /\ action = "approve" =>
       /\ row.complete
       /\ (IF row.flagged THEN Restored(row) ELSE row.status) = "ready"

Hidden(row) == {[status |-> row.status, review |-> row.review]}

Cleared(row) ==
  IF row.flagged
  THEN [row EXCEPT !.flagged = FALSE, !.status = Restored(row), !.before = {}]
  ELSE row

Reviewed(row, action) ==
  CASE action = "flag" ->
         [row EXCEPT !.flagged = TRUE, !.status = "flagged", !.review = "flagged",
                     !.before = IF row.flagged THEN row.before ELSE Hidden(row)]
    [] action = "clear_flag" ->
         [Cleared(row) EXCEPT !.review = IF row.before = {} THEN "pending"
                                         ELSE (CHOOSE b \in row.before : TRUE).review]
    [] action = "approve" -> [Cleared(row) EXCEPT !.review = "approved"]
    [] action = "changes_requested" -> [Cleared(row) EXCEPT !.review = "changes_requested"]

\* Only the columns that differ from what was read are written.
Written(now, read, new) ==
  [f \in DOMAIN now |-> IF f = "stamp" THEN now.stamp + 1
                        ELSE IF new[f] # read[f] THEN new[f] ELSE now[f]]

Read(d) ==
  [d EXCEPT !.row = {story[d.story]},
            !.at = IF Permitted(story[d.story], d.action) THEN "read" ELSE "refused"]

\* Two decisions about a story overlap.
Crossing(d, rival) == {s \in {d.story} : \E r \in rival : r.story = s /\ r.at = "read"}

ReviewStory ==
  /\ \E d \in review :
       \/ /\ d.at = "sent"
          /\ review' = {Read(d)} /\ crossed' = crossed \cup Crossing(d, other)
          /\ UNCHANGED <<story, events>>
       \/ /\ d.at = "read"
          /\ \E row \in d.row :
               story' = [story EXCEPT ![d.story] = Written(@, row, Reviewed(row, d.action))]
          /\ review' = {[d EXCEPT !.at = "decided", !.row = {story'[d.story]}]}
          /\ UNCHANGED <<events, crossed>>
       \/ /\ d.at = "sent" /\ Event
          /\ review' = {[d EXCEPT !.at = "refused"]}
          /\ UNCHANGED <<story, crossed>>
  /\ UNCHANGED <<other, desk>>

\* The same handler, for a request of another admin.
ReviewElsewhere(s, action) ==
  /\ \/ /\ other = {} /\ Event
        /\ LET d == Read([story |-> s, action |-> action, row |-> {}, at |-> "sent"])
           IN other' = IF d.at = "read" THEN {d} ELSE {}
        /\ crossed' = crossed \cup
                        Crossing([story |-> s], {d \in review : Permitted(story[s], action)})
        /\ UNCHANGED story
     \/ \E d \in other : \E row \in d.row :
        /\ d.story = s /\ d.action = action
        /\ story' = [story EXCEPT ![s] = Written(@, row, Reviewed(row, action))]
        /\ other' = {}
        /\ UNCHANGED <<events, crossed>>
  /\ UNCHANGED <<review, desk>>

-------------------------------------------------------------------------------
(* The API: what is shown                                                    *)

Serve == UNCHANGED <<story, review, other, queue, loading, detail, clicks, saved,
                     overtaken, crossed>>

ListStories(l) ==
  /\ l \in lists /\ l.rows = {}
  /\ lists' = (lists \ {l}) \cup {[l EXCEPT !.rows = {story}]}
  /\ UNCHANGED <<opens, events>> /\ Serve

GetStory(o) ==
  /\ o \in opens /\ o.row = {}
  /\ opens' = (opens \ {o}) \cup {[o EXCEPT !.row = {story[o.story]}]}
  /\ UNCHANGED <<lists, events>> /\ Serve

\* The read that follows a decision.
GetAgain ==
  /\ \E d \in review :
       /\ d.at = "again"
       /\ \/ /\ review' = {[d EXCEPT !.at = "shown", !.row = {story[d.story]}]}
             /\ UNCHANGED events
          \/ review' = {[d EXCEPT !.at = "lost"]} /\ Event
  /\ UNCHANGED <<story, other, desk, crossed>>

-------------------------------------------------------------------------------
(* The desk                                                                  *)

Desk == UNCHANGED <<story, other, crossed>>
Click == clicks < MaxClicks /\ clicks' = clicks + 1

Load == loading' = TRUE /\ lists' = lists \cup {NewList}

Refresh ==
  /\ detail = {} /\ ~loading /\ Click
  /\ Load
  /\ UNCHANGED <<review, queue, detail, opens, events, saved, overtaken>> /\ Desk

\* An answer that is older than what it replaces.
Older(row, shown) == \E r \in shown : row.stamp < r.stamp

Listed(s) == {q[s] : q \in queue}

ApplyList(l) ==
  /\ l \in lists /\ l.rows # {}
  /\ lists' = lists \ {l} /\ loading' = FALSE
  /\ queue' = l.rows
  /\ overtaken' = (overtaken \/ \E rows \in l.rows, s \in Stories : Older(rows[s], Listed(s)))
  /\ UNCHANGED <<review, detail, opens, clicks, events, saved>> /\ Desk

ListFails(l) ==
  /\ l \in lists /\ l.rows = {} /\ Event
  /\ lists' = lists \ {l} /\ loading' = FALSE
  /\ UNCHANGED <<review, queue, detail, opens, clicks, saved, overtaken>> /\ Desk

OpenStory(s) ==
  /\ detail = {} /\ ~loading /\ queue # {} /\ Click
  /\ opens' = opens \cup {[n |-> clicks, story |-> s, row |-> {}]}
  /\ UNCHANGED <<review, queue, loading, detail, lists, events, saved, overtaken>> /\ Desk

Replaced(d) == {x.row : x \in {y \in detail : y.id = d.id}}

ApplyOpen(o) ==
  /\ o \in opens
  /\ \E row \in o.row :
       LET d == [id |-> o.story, row |-> row, of |-> o.story]
       IN detail' = {d} /\ overtaken' = (overtaken \/ Older(row, Replaced(d) \cup Listed(d.id)))
  /\ opens' = opens \ {o}
  /\ UNCHANGED <<review, queue, loading, lists, clicks, events, saved>> /\ Desk

OpenFails(o) ==
  /\ o \in opens /\ o.row = {} /\ Event
  /\ opens' = opens \ {o}
  /\ UNCHANGED <<review, queue, loading, detail, lists, clicks, saved, overtaken>> /\ Desk

BackToQueue ==
  /\ detail # {}
  /\ detail' = {} /\ Load
  /\ UNCHANGED <<review, queue, opens, clicks, events, saved, overtaken>> /\ Desk

\* What the form of an open story offers.
Offered(row, action) ==
  /\ action = "clear_flag" => row.flagged
  /\ action = "approve" => ~row.flagged /\ row.status = "ready" /\ row.complete

SaveReview(action) ==
  /\ review = {} /\ Click
  /\ \E d \in detail :
       /\ Offered(d.row, action)
       /\ review' = {[story |-> d.id, action |-> action, row |-> {}, at |-> "sent"]}
  /\ UNCHANGED <<queue, loading, detail, lists, opens, events, saved, overtaken>> /\ Desk

\* Mutant: only the story that is read again shows the decision.
DecidedUnlisted ==
  /\ \E d \in review :
       /\ d.at = "decided"
       /\ \E row \in d.row : saved' = [saved EXCEPT ![d.story] = row.stamp]
       /\ review' = {[d EXCEPT !.at = "again"]}
  /\ UNCHANGED <<queue, loading, detail, lists, opens, clicks, events, overtaken>> /\ Desk

\* The row that was answered replaces the one in the queue, and the story is read again.
Decided ==
  /\ \E d \in review :
       /\ d.at = "decided"
       /\ \E row \in d.row :
            /\ queue' = {[q EXCEPT ![d.story] = row] : q \in queue}
            /\ saved' = [saved EXCEPT ![d.story] = row.stamp]
       /\ review' = {[d EXCEPT !.at = "again"]}
  /\ UNCHANGED <<loading, detail, lists, opens, clicks, events, overtaken>> /\ Desk

\* The story as it was read again; or, if that failed, the answered row over whatever is open.
ShownAgain ==
  /\ \E d \in review : \E row \in d.row :
       /\ review' = {}
       /\ \/ /\ d.at = "shown"
             /\ detail' = {[id |-> d.story, row |-> row, of |-> d.story]}
             /\ overtaken' = (overtaken \/ \E x \in detail : x.id = d.story /\ Older(row, {x.row}))
          \/ /\ d.at = "lost"
             /\ detail' = {[x EXCEPT !.id = d.story, !.row = row] : x \in detail}
             /\ overtaken' = (overtaken \/ \E x \in detail : Older(row, {x.row}))
  /\ UNCHANGED <<queue, loading, lists, opens, clicks, events, saved>> /\ Desk

Refused ==
  /\ \E d \in review : d.at = "refused"
  /\ review' = {}
  /\ UNCHANGED <<queue, loading, detail, lists, opens, clicks, events, saved, overtaken>> /\ Desk

-------------------------------------------------------------------------------
Next ==
  \/ \E s \in Stories : Regenerate(s) \/ MarkStory(s) \/ OpenStory(s)
  \/ \E s \in Stories, a \in ReviewAction : ReviewElsewhere(s, a)
  \/ \E l \in lists : ListStories(l) \/ ApplyList(l) \/ ListFails(l)
  \/ \E o \in opens : GetStory(o) \/ ApplyOpen(o) \/ OpenFails(o)
  \/ \E a \in ReviewAction : SaveReview(a)
  \/ ReviewStory \/ GetAgain \/ Refresh \/ BackToQueue \/ Decided \/ ShownAgain \/ Refused

Spec == Init /\ [][Next]_vars

-------------------------------------------------------------------------------
(* Properties                                                                *)

\* The flag, the review state and what the flag has hidden go together, and what is hidden is
\* never a flag: however often a story is flagged, regenerated and decided on, clearing its flag
\* gives the review back.  Two decisions handled at the same time may break this.
FlagKept ==
  \A s \in Stories \ crossed :
    /\ story[s].flagged <=> story[s].review = "flagged"
    /\ story[s].flagged <=> story[s].before # {}
    /\ \A b \in story[s].before : b.status # "flagged" /\ b.review # "flagged"

\* With nothing in flight, the queue and the open story show this desk's last decision on a story
\* or a later one, though reads fail and others decide, unless an older answer came last.
ShownAsSaved ==
  review = {} /\ lists = {} /\ opens = {} /\ ~overtaken =>
    /\ \A d \in detail : d.row.stamp >= saved[d.id]
    /\ detail = {} => \A q \in queue, s \in Stories : q[s].stamp >= saved[s]

\* "Never claim readiness without a complete, verifiable current version." (admin.py)
ReadyIsComplete == \A s \in Stories : story[s].status = "ready" => story[s].complete

\* The story that is decided on is the one whose script and media are on the page.
PanelWhole == \A d \in detail : d.id = d.of
===============================================================================
