------------------------------- MODULE Downloads -------------------------------
(***************************************************************************)
(* The downloads of a finished story: the panels for the episode, its      *)
(* video and its background score, the API that lists the formats, and the *)
(* workers that convert them.                                              *)
(*                                                                         *)
(* A format that was never made is asked for by a POST, which starts a     *)
(* conversion and leaves no row behind; the panel then reads the list until *)
(* the file is in it or a deadline has passed.  Meanwhile the story may be *)
(* regenerated, and the page be left and come back.                        *)
(***************************************************************************)
EXTENDS Naturals, FiniteSets

CONSTANTS
  Latest,      (* bound: the last version of the story                    *)
  MaxClicks,   (* bound: downloads the listener asks for                  *)
  MaxFaults    (* bound: failed requests and conversions, and visits to   *)
               (* another page                                            *)

\* What tells the panels apart is what their files are made from: a mix and a video are made
\* anew for every version, a score only when the version is scored again.  `inherited` says
\* whether a version takes its parent's conversions over.
ExportPanel == [master |-> "final_episode", rescored |-> {TRUE}, inherited |-> FALSE]
VideoExportPanel == [master |-> "final_video", rescored |-> {TRUE}, inherited |-> FALSE]
BgmPanel == [master |-> "music_bed", rescored |-> BOOLEAN, inherited |-> TRUE]

Panels == {ExportPanel, VideoExportPanel, BgmPanel}

VARIABLES
  offer,      \* the panel that is open
  current,    \* the current version
  master,     \* per version, the version its master was made for (0: no master)
  converted,  \* per version, the same of the master its conversion was made from
  tasks,      \* the conversions that are queued or running
  formats,    \* the list, as last applied: a set of one or none
  working,    \* the download that is being prepared (0: none)
  transfers,     \* the requests, timers and reads that belong to a download
  lists,      \* the lists that were asked for when the panel opened
  visit,      \* how often the panel was opened
  clicks,     \* downloads asked for so far
  faults,     \* faults so far
  delivered   \* history: the files handed to the browser

vars == <<offer, current, master, converted, tasks, formats, working, transfers, lists, visit,
          clicks, faults, delivered>>
server == <<offer, current, master, converted, tasks>>

Version == 1..Latest
Origin == 0..Latest
Visit == 1..(MaxFaults + 1)

\* A file by the version that lists it and the master it was made from.
File == [version: Version, of: Version]
None == {}
MaybeFile == {None} \cup {{f} : f \in File}

Fmt == {"original", "conversion"}
Formats == [Fmt -> MaybeFile]

\* One request after another: the POST, a pause, a read of the list, and so on.
Chain == [click: 1..MaxClicks, visit: Visit, fmt: Fmt, late: BOOLEAN,
          at: {"post", "accepted", "pause", "read", "answered", "error"},
          file: MaybeFile, list: {{}} \cup {{l} : l \in Formats}]

Task == [version: Version, of: Origin, at: {"queued", "converting"}]

TypeOK ==
  /\ offer \in Panels
  /\ current \in Version
  /\ master \in [Version -> Origin] /\ converted \in [Version -> Origin]
  /\ tasks \subseteq Task
  /\ formats = {} \/ \E l \in Formats : formats = {l}
  /\ working \in 0..MaxClicks
  /\ transfers \subseteq Chain
  /\ lists \subseteq [visit: Visit, list: {{}} \cup {{l} : l \in Formats}]
  /\ visit \in Visit
  /\ clicks \in 0..MaxClicks
  /\ faults \in 0..MaxFaults
  /\ delivered \subseteq [file: File, clicked: 1..MaxClicks, visit: Visit, now: Visit]

NewRead(v) == [visit |-> v, list |-> {}]

Init ==
  /\ offer \in Panels
  /\ current = 1
  /\ master = [v \in Version |-> IF v = 1 THEN 1 ELSE 0]
  /\ converted = [v \in Version |-> 0]
  /\ tasks = {}
  /\ formats = {} /\ working = 0 /\ transfers = {} /\ lists = {NewRead(1)}
  /\ visit = 1 /\ clicks = 0 /\ faults = 0 /\ delivered = {}

Fault == faults < MaxFaults /\ faults' = faults + 1

-------------------------------------------------------------------------------
(* The server                                                                *)

Ref(v, of) == IF of[v] = 0 THEN None ELSE {[version |-> v, of |-> of[v]]}

Listing == [fmt \in Fmt |-> Ref(current, IF fmt = "original" THEN master ELSE converted)]

\* Mutant: every conversion is taken over.
InheritedAll == TRUE

Inherited == offer.inherited

\* A child version takes over what no planned stage will rewrite, never the final mix or video.
Regenerate ==
  /\ current < Latest /\ master[current] # 0
  /\ current' = current + 1
  /\ \E rescored \in offer.rescored :
       master' = [master EXCEPT ![current + 1] = IF rescored THEN 0 ELSE master[current]]
  /\ converted' = [converted EXCEPT ![current + 1] = IF Inherited THEN converted[current] ELSE 0]
  /\ UNCHANGED <<offer, tasks, formats, working, transfers, lists, visit, clicks, faults,
                 delivered>>

MakeMaster ==
  /\ master[current] = 0
  /\ master' = [master EXCEPT ![current] = current]
  /\ UNCHANGED <<offer, current, converted, tasks, formats, working, transfers, lists, visit,
                 clicks, faults, delivered>>

Worker(task, rest) ==
  /\ task \in tasks
  /\ tasks' = (tasks \ {task}) \cup rest
  /\ UNCHANGED <<offer, current, master, formats, working, transfers, lists, visit, clicks,
                 delivered>>

\* A conversion that exists already is left alone.
Begin(t) ==
  /\ t.at = "queued"
  /\ Worker(t, IF converted[t.version] # 0 THEN {}
               ELSE {[t EXCEPT !.at = "converting", !.of = master[t.version]]})
  /\ UNCHANGED <<converted, faults>>

Finish(t) ==
  /\ t.at = "converting"
  /\ Worker(t, {})
  /\ converted' = [converted EXCEPT ![t.version] = t.of]
  /\ UNCHANGED faults

\* A conversion fails and is tried again, or it is given up without a trace.
Fail(t) ==
  /\ t.at = "converting" /\ Fault
  /\ \E rest \in {{}, {[t EXCEPT !.at = "queued", !.of = 0]}} : Worker(t, rest)
  /\ UNCHANGED converted

Convert == [version |-> current, of |-> 0, at |-> "queued"]

\* No master, a limit that is reached or a request that is lost: an error.
Request(c) ==
  /\ c \in transfers /\ c.at = "post"
  /\ \/ /\ master[current] = 0
        /\ transfers' = (transfers \ {c}) \cup {[c EXCEPT !.at = "error"]}
        /\ UNCHANGED <<tasks, faults>>
     \/ /\ Fault
        /\ transfers' = (transfers \ {c}) \cup {[c EXCEPT !.at = "error"]}
        /\ UNCHANGED tasks
     \/ /\ master[current] # 0
        /\ transfers' = (transfers \ {c}) \cup
                            {[c EXCEPT !.at = "accepted", !.file = Listing[c.fmt]]}
        /\ tasks' = IF Listing[c.fmt] # None THEN tasks ELSE tasks \cup {Convert}
        /\ UNCHANGED faults
  /\ UNCHANGED <<offer, current, master, converted, formats, working, lists, visit, clicks,
                 delivered>>

AnswerChain(c) ==
  /\ c \in transfers /\ c.at = "read"
  /\ \/ transfers' = (transfers \ {c}) \cup {[c EXCEPT !.at = "answered", !.list = {Listing}]}
        /\ UNCHANGED faults
     \/ transfers' = (transfers \ {c}) \cup {[c EXCEPT !.at = "error"]} /\ Fault
  /\ UNCHANGED <<server, formats, working, lists, visit, clicks, delivered>>

AnswerRead(r) ==
  /\ r \in lists /\ r.list = {}
  /\ lists' = (lists \ {r}) \cup {[r EXCEPT !.list = {Listing}]}
  /\ UNCHANGED <<server, formats, working, transfers, visit, clicks, faults, delivered>>

-------------------------------------------------------------------------------
(* The panel                                                                 *)

Page(c, rest) ==
  /\ transfers' = (transfers \ {c}) \cup rest
  /\ UNCHANGED <<server, visit, clicks, faults>>

\* The panel this belongs to is gone.
Cancelled(x) == x.visit # visit

ApplyRead(r) ==
  /\ r \in lists /\ r.list # {}
  /\ lists' = lists \ {r}
  /\ formats' = IF Cancelled(r) THEN formats ELSE r.list
  /\ UNCHANGED <<server, working, transfers, visit, clicks, faults, delivered>>

Deliver(file, c) ==
  delivered' = delivered \cup {[file |-> f, clicked |-> c.click, visit |-> c.visit, now |-> visit] :
                               f \in file}

Clicked(fmt) == [click |-> clicks + 1, visit |-> visit, fmt |-> fmt, late |-> FALSE, at |-> "post",
                 file |-> None, list |-> {}]

\* A file the list knows of is downloaded at once; every button is disabled while one is prepared.
Download(fmt) ==
  /\ working = 0 /\ clicks < MaxClicks
  /\ clicks' = clicks + 1
  /\ \E l \in formats :
       IF l[fmt] # None
       THEN Deliver(l[fmt], Clicked(fmt)) /\ UNCHANGED <<working, transfers>>
       ELSE /\ working' = clicks + 1 /\ transfers' = transfers \cup {Clicked(fmt)}
            /\ UNCHANGED delivered
  /\ UNCHANGED <<server, formats, lists, visit, faults>>

Accepted(c) ==
  /\ c \in transfers /\ c.at = "accepted"
  /\ IF Cancelled(c) THEN Page(c, {}) /\ UNCHANGED <<working, delivered>>
     ELSE IF c.file # None
     THEN Deliver(c.file, c) /\ working' = 0 /\ Page(c, {})
     ELSE Page(c, {[c EXCEPT !.at = "pause"]}) /\ UNCHANGED <<working, delivered>>
  /\ UNCHANGED <<formats, lists>>

\* Every pause may be the one that the deadline falls into.
Poll(c) ==
  /\ c \in transfers /\ c.at = "pause"
  /\ \E late \in {c.late, TRUE} :
       Page(c, IF Cancelled(c) THEN {} ELSE {[c EXCEPT !.at = "read", !.late = late]})
  /\ UNCHANGED <<formats, working, lists, delivered>>

Ready(c) == UNION {l[c.fmt] : l \in c.list}

\* Mutant: there is no deadline.
PolledForEver(c) ==
  /\ c \in transfers /\ c.at = "answered"
  /\ IF Cancelled(c) THEN Page(c, {}) /\ UNCHANGED <<formats, working, delivered>>
     ELSE /\ formats' = c.list
          /\ IF Ready(c) # None
             THEN Deliver(Ready(c), c) /\ working' = 0 /\ Page(c, {})
             ELSE /\ Page(c, {[c EXCEPT !.at = "pause", !.list = {}]})
                  /\ UNCHANGED <<working, delivered>>
  /\ UNCHANGED lists

Polled(c) ==
  /\ c \in transfers /\ c.at = "answered"
  /\ IF Cancelled(c) THEN Page(c, {}) /\ UNCHANGED <<formats, working, delivered>>
     ELSE /\ formats' = c.list
          /\ IF Ready(c) # None
             THEN Deliver(Ready(c), c) /\ working' = 0 /\ Page(c, {})
             ELSE IF c.late
             THEN working' = 0 /\ Page(c, {}) /\ UNCHANGED delivered
             ELSE /\ Page(c, {[c EXCEPT !.at = "pause", !.list = {}]})
                  /\ UNCHANGED <<working, delivered>>
  /\ UNCHANGED lists

Failed(c) ==
  /\ c \in transfers /\ c.at = "error"
  /\ working' = IF Cancelled(c) THEN working ELSE 0
  /\ Page(c, {})
  /\ UNCHANGED <<formats, lists, delivered>>

\* The panel is closed, or its page left, and opened again.
Reopen ==
  /\ Fault
  /\ visit' = visit + 1
  /\ formats' = {} /\ working' = 0 /\ lists' = lists \cup {NewRead(visit + 1)}
  /\ UNCHANGED <<server, transfers, clicks, delivered>>

-------------------------------------------------------------------------------
Follow(c) == Request(c) \/ AnswerChain(c) \/ Accepted(c) \/ Poll(c) \/ Polled(c) \/ Failed(c)
Run(t) == Begin(t) \/ Finish(t) \/ Fail(t)

Next ==
  \/ Regenerate \/ MakeMaster \/ Reopen
  \/ \E t \in tasks : Run(t)
  \/ \E c \in transfers : Follow(c)
  \/ \E r \in lists : AnswerRead(r) \/ ApplyRead(r)
  \/ \E fmt \in Fmt : Download(fmt)

Spec == Init /\ [][Next]_vars

\* Requests are answered and timers fire, and time passes: pauses are not for ever before the
\* deadline.  No conversion has to succeed, or to end.
Fairness ==
  /\ \A k \in 1..MaxClicks : WF_vars(\E c \in transfers : c.click = k /\ Follow(c))
  /\ \A k \in 1..MaxClicks : SF_vars(\E c \in transfers : c.click = k /\ Poll(c)
                                       /\ \A d \in transfers' : d.click = k => d.late)
FairSpec == Spec /\ Fairness

-------------------------------------------------------------------------------
(* Properties                                                                *)

\* What a file of a version may be made from: its own mix or render; of a score, whose conversions
\* are carried over, also that of an earlier version.
Sources(v) == IF offer.inherited THEN {master[u] : u \in 1..v} ELSE {master[v]}

\* What is handed to the browser was asked for on the page that is open, and is made from the mix,
\* the render or the score that the version offering it may take it from, however often the story
\* is regenerated meanwhile.
RightFile ==
  \A d \in delivered : d.visit = d.now /\ d.file.of \in Sources(d.file.version)

\* "A child version must never expose a parent's mix, video, or downloaded transcode while its
\* own timeline is still rebuilding" (versions.py), said of the score as well.
RightScore == \A d \in delivered : d.file.of = master[d.file.version]

\* A download that is being prepared is delivered or given up, though its conversion may fail
\* without a trace.
ClickAnswered == \A k \in 1..MaxClicks : working = k ~> working # k
===============================================================================
