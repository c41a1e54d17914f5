------------------------------ MODULE StudioForks ------------------------------
(***************************************************************************)
(* The studio's ways of forking a story: respeaking a line, the director   *)
(* controls, the alternate endings and the Time Machine, which branches    *)
(* from any version of the history.  They share one page, whose `busy`     *)
(* flag only two of them raise, and one story row, which the server locks  *)
(* for a fork; another page of the same listener forks it too.             *)
(*                                                                         *)
(* A refresh is read and applied in one step here; StudioProgress has its  *)
(* four reads apart, the stream, and the notes.                            *)
(***************************************************************************)
EXTENDS Naturals, Sequences, FiniteSetsExt

CONSTANTS
  Scopes,        (* the scopes of the director controls that are used      *)
  MaxVersions,   (* bound: versions of the story                           *)
  MaxElsewhere,  (* bound: forks made by another page                      *)
  MaxFaults      (* bound: answers and reads that are lost                 *)

Version == 1..MaxVersions
Panel == {"respeak", "director", "ending", "branch"}

\* Where each scope re-enters the pipeline.
SCOPE_STAGE ==
  [line |-> "tts_synthesis", character |-> "voice_assignment", scene |-> "story_understanding",
   music |-> "music_generation", full_story |-> "story_understanding"]

NeedsPicker(scope) == scope \in {"line", "character", "scene"}
Rewrites(scope) == SCOPE_STAGE[scope] = "story_understanding"

VARIABLES
  story,      (* the scripts of its versions, the last one current, and its status *)
  detail,     (* the current version as the page has last read it          *)
  base,       (* baseVersionId, the version the Time Machine branches from *)
  baseDetail, (* a version read for the Time Machine: a set of one or none *)
  loading,    (* the version being read, and the current one at the click  *)
  form,       (* the scope and the target of the director controls         *)
  draft,      (* whether a decision is written in the Time Machine         *)
  requests,   (* requests to fork, in flight or answered                   *)
  forks,      (* history: what this page has forked                        *)
  picked,     (* history: the base is a historic version the listener chose *)
  elsewhere, faults

vars == <<story, detail, base, baseDetail, loading, form, draft, requests, forks, picked,
          elsewhere, faults>>
machine == <<base, baseDetail, loading, draft, picked>>

current == Len(story.script)

\* A script stands for the ids of a version's scenes and lines: a rewrite may give it new ones.
Status == {"generating", "ready", "failed"}
Story == [script: Seq(Version), status: Status, rewriting: BOOLEAN]
Detail == [version: Version, script: Version, status: Status]
Request == [by: Panel, scope: Scopes \cup {"line", "scene"}, target: {0} \cup Version,
            from: {0} \cup Version, seen: Version, made: {0} \cup Version, held: BOOLEAN,
            at: {"sent", "accepted", "refused", "refreshing"}]

TypeOK ==
  /\ story \in Story /\ current \in Version
  /\ detail \in Detail
  /\ base \in Version
  /\ baseDetail = {} \/ \E d \in [version: Version, script: Version] : baseDetail = {d}
  /\ loading = {} \/ \E l \in [version: Version, home: Version] : loading = {l}
  /\ form \in [scope: Scopes, target: {0} \cup Version]
  /\ requests \subseteq Request
  /\ forks \in Seq([by: Panel, seen: Version])
  /\ {draft, picked} \subseteq BOOLEAN
  /\ elsewhere \in 0..MaxElsewhere /\ faults \in 0..MaxFaults

\* The page has just been opened on a story that is ready.
Init ==
  /\ story = [script |-> <<1>>, status |-> "ready", rewriting |-> FALSE]
  /\ detail = [version |-> 1, script |-> 1, status |-> "ready"]
  /\ base = 1 /\ baseDetail = {} /\ loading = {}
  /\ form \in [scope: Scopes, target: {0}]
  /\ draft = FALSE /\ picked = FALSE
  /\ requests = {} /\ forks = <<>>
  /\ elsewhere = 0 /\ faults = 0

Fault == faults < MaxFaults /\ faults' = faults + 1

-------------------------------------------------------------------------------
(* What is locked                                                            *)

\* Both flags are up from the click to the last line of its handler.
Pending(panel) == \E r \in requests : r.by = panel /\ r.held
busy == Pending("respeak") \/ Pending("branch")

regenerating == detail.status = "generating"
DirectorLocked == busy \/ regenerating \/ Pending("director")
EndingsLocked == busy \/ detail.status # "ready" \/ Pending("ending")

\* Mutant: the Time Machine stays open while it reads a version.
SelectionWhileLoading == busy \/ detail.status # "ready"
SelectionLocked == busy \/ detail.status # "ready" \/ loading # {}

\* What the Time Machine shows: its scenes, and the version they are read from.
timelineDetail ==
  IF base = detail.version THEN {[version |-> detail.version, script |-> detail.script]}
  ELSE baseDetail

-------------------------------------------------------------------------------
(* The Time Machine                                                          *)

\* A draft belongs to the version it was written for.
SetBase(v) == base' = v /\ draft' = (draft /\ v = base)

SelectBaseVersion(v) ==
  /\ ~SelectionLocked /\ timelineDetail # {}
  /\ v <= detail.version
  /\ SetBase(v) /\ picked' = (v # detail.version)
  /\ IF v = detail.version
     THEN baseDetail' = {} /\ loading' = {}
     ELSE loading' = {[version |-> v, home |-> detail.version]} /\ UNCHANGED baseDetail
  /\ UNCHANGED <<story, detail, form, requests, forks, elsewhere, faults>>

VersionRead ==
  \E l \in loading :
    /\ baseDetail' = {[version |-> l.version, script |-> story.script[l.version]]}
    /\ loading' = {}
    /\ UNCHANGED <<story, detail, base, form, draft, requests, forks, picked, elsewhere, faults>>

\* A version that cannot be read gives way to the one that was current at the click.
VersionLost ==
  \E l \in loading :
    /\ Fault
    /\ SetBase(l.home) /\ picked' = FALSE
    /\ baseDetail' = {} /\ loading' = {}
    /\ UNCHANGED <<story, detail, form, requests, forks, elsewhere>>

WriteDraft ==
  /\ ~SelectionLocked /\ timelineDetail # {} /\ ~draft
  /\ draft' = TRUE
  /\ UNCHANGED <<story, detail, base, baseDetail, loading, form, requests, forks, picked,
                 elsewhere, faults>>

-------------------------------------------------------------------------------
(* The clicks                                                                *)

ChooseScope(scope) ==
  /\ ~DirectorLocked
  /\ form' = [scope |-> scope, target |-> 0]
  /\ UNCHANGED <<story, detail, machine, requests, forks, elsewhere, faults>>

\* The picker offers what the page shows; what was picked before a rewrite stays picked.
ChooseTarget ==
  /\ ~DirectorLocked /\ NeedsPicker(form.scope)
  /\ form' = [form EXCEPT !.target = detail.script]
  /\ UNCHANGED <<story, detail, machine, requests, forks, elsewhere, faults>>

\* Bound: no click whose fork would be a version too many.
Room == current + Cardinality({r \in requests : r.at = "sent"}) < MaxVersions

Send(panel, scope, target, from) ==
  /\ Room
  /\ requests' = requests \cup
       {[by |-> panel, scope |-> scope, target |-> target, from |-> from,
         seen |-> detail.version, made |-> 0, held |-> TRUE, at |-> "sent"]}
  /\ UNCHANGED <<story, detail, machine, form, forks, elsewhere, faults>>

RespeakLine == ~busy /\ ~regenerating /\ Send("respeak", "line", detail.script, 0)

\* Nothing is asked of the other panels' flags, nor of theirs here.
SubmitControls ==
  /\ ~DirectorLocked
  /\ NeedsPicker(form.scope) => form.target # 0
  /\ Send("director", form.scope, form.target, 0)

ChooseEnding == ~EndingsLocked /\ Send("ending", "scene", detail.script, 0)

SubmitBranch ==
  /\ draft /\ ~SelectionLocked
  /\ \E t \in timelineDetail : Send("branch", "scene", t.script, base)

-------------------------------------------------------------------------------
(* The server                                                                *)

Parent(r) == IF r.from = 0 THEN current ELSE r.from

\* Mutant: the version the listener saw is not compared with the current one.
ForkableUnseen(r) ==
  /\ story.status # "generating"
  /\ NeedsPicker(r.scope) => r.target = story.script[Parent(r)]

\* Only the Time Machine says which version it has seen.
Forkable(r) ==
  /\ story.status # "generating"
  /\ r.by = "branch" => r.seen = current
  /\ NeedsPicker(r.scope) => r.target = story.script[Parent(r)]

Forked(parent, scope) ==
  [script |-> Append(story.script, story.script[parent]), status |-> "generating",
   rewriting |-> Rewrites(scope)]

Replace(r, s) == requests' = (requests \ {r}) \cup {s}

\* The answer to a fork may be lost after its commit.
Regenerate(r) ==
  /\ r.at = "sent" /\ Forkable(r)
  /\ story' = Forked(Parent(r), r.scope)
  /\ forks' = Append(forks, [by |-> r.by, seen |-> r.seen])
  /\ \/ Replace(r, [r EXCEPT !.at = "accepted", !.made = current + 1]) /\ UNCHANGED faults
     \/ Replace(r, [r EXCEPT !.at = "refused"]) /\ Fault
  /\ UNCHANGED <<detail, machine, form, elsewhere>>

Refuse(r) ==
  /\ r.at = "sent" /\ ~Forkable(r)
  /\ Replace(r, [r EXCEPT !.at = "refused"])
  /\ UNCHANGED <<story, detail, machine, form, forks, elsewhere, faults>>

ForkElsewhere(parent, scope) ==
  /\ story.status # "generating" /\ Room
  /\ elsewhere < MaxElsewhere /\ elsewhere' = elsewhere + 1
  /\ parent <= current
  /\ story' = Forked(parent, scope)
  /\ UNCHANGED <<detail, machine, form, requests, forks, faults>>

\* The pipeline ends, well or not; a rewrite may have kept the ids it was given.
Finish ==
  /\ story.status = "generating"
  /\ \E s \in {story.script[current]} \cup (IF story.rewriting THEN {current} ELSE {}),
        status \in {"ready", "failed"} :
       story' = [script |-> [story.script EXCEPT ![current] = s], status |-> status,
                 rewriting |-> FALSE]
  /\ UNCHANGED <<detail, machine, form, requests, forks, elsewhere, faults>>

-------------------------------------------------------------------------------
(* The answers                                                               *)

\* The refresh that follows is awaited by every panel but the director controls.  The Time
\* Machine turns to the child.
Accepted(r) ==
  /\ r.at = "accepted"
  /\ Replace(r, [r EXCEPT !.at = "refreshing", !.held = @ /\ r.by # "director"])
  /\ IF r.by = "branch"
     THEN SetBase(r.made) /\ baseDetail' = {} /\ picked' = FALSE /\ UNCHANGED loading
     ELSE UNCHANGED machine
  /\ UNCHANGED <<story, detail, form, forks, elsewhere, faults>>

\* The error is shown; the page is not read again, and a draft is kept.
Refused(r) ==
  /\ r.at = "refused"
  /\ requests' = requests \ {r}
  /\ UNCHANGED <<story, detail, machine, form, forks, elsewhere, faults>>

\* The alternate endings are mounted for a ready story only, and forget what they wait for.
Unmounted(rest) ==
  IF story.status = "ready" THEN rest
  ELSE {[r EXCEPT !.held = @ /\ r.by # "ending"] : r \in rest}

Read(rest) ==
  /\ detail' = [version |-> current, script |-> story.script[current], status |-> story.status]
  /\ requests' = Unmounted(rest)
  /\ UNCHANGED <<story, machine, form, forks, elsewhere>>

Refresh(r) ==
  /\ r.at = "refreshing"
  /\ \/ Read(requests \ {r}) /\ UNCHANGED faults
     \/ /\ Fault /\ requests' = requests \ {r}
        /\ UNCHANGED <<story, detail, machine, form, forks, elsewhere>>

\* A story that is generating is watched: its page is read again and again.
Watch == regenerating /\ Read(requests) /\ UNCHANGED faults

-------------------------------------------------------------------------------
Server == Finish \/ \E r \in requests : Regenerate(r) \/ Refuse(r)
Page == \/ VersionRead \/ VersionLost
        \/ \E r \in requests : Accepted(r) \/ Refused(r) \/ Refresh(r)

Next ==
  \/ Server \/ Page \/ Watch
  \/ \E parent \in Version, scope \in Scopes : ForkElsewhere(parent, scope)
  \/ \E v \in Version : SelectBaseVersion(v)
  \/ \E scope \in Scopes : ChooseScope(scope)
  \/ ChooseTarget \/ WriteDraft
  \/ RespeakLine \/ SubmitControls \/ ChooseEnding \/ SubmitBranch

\* Requests and reads are answered and the pipeline of a version ends; nobody has to click.
Spec == Init /\ [][Next]_vars /\ WF_vars(Server) /\ WF_vars(Page) /\ WF_vars(Watch)

-------------------------------------------------------------------------------
(* Properties                                                                *)

\* While the Time Machine can be used, the scenes it shows are those of the version it branches
\* from: not of the version shown before, nor of the one another page has made current.
RightTimeline ==
  ~SelectionLocked =>
    \A t \in timelineDetail : t.version = base /\ t.script = story.script[base]

\* A decision whose answer was lost may be sent again, and other panels and pages fork in
\* between: yet no two branches of the Time Machine are made from one view of the story.
OneBranchPerView ==
  \A i, j \in DOMAIN forks :
    forks[i].by = "branch" /\ forks[j] = forks[i] => i = j

\* Studio.tsx: "Once the listener intentionally picks a historic version we leave that choice in
\* place while progress refreshes the current child"; without such a choice, a ready story has
\* its Time Machine.  A fork made by any other panel takes it away until the page is reloaded.
TimeMachineShown ==
  detail.status = "ready" /\ requests = {} /\ ~picked => timelineDetail # {}

\* AlternateEndings.tsx: "Disable alongside any other studio mutation, preventing competing
\* forks."  The director controls keep their flag to themselves.
NoCompetingForks == ~(Pending("director") /\ Pending("ending"))
===============================================================================
