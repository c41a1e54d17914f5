-------------------------- MODULE StudioForks_proofs --------------------------
(***************************************************************************)
(* Proofs about StudioForks, for any scopes and any number of versions,    *)
(* forks elsewhere and lost answers: the Time Machine shows the scenes of  *)
(* the version it branches from, and makes one branch from one view.       *)
(*                                                                         *)
(* Only the current version is ever rewritten, and only while it is being  *)
(* generated.  So what has been read of a version is right for good if it  *)
(* was read of an older one, or of one whose pipeline had ended; and while *)
(* a version is being read no branch is on its way that could turn the     *)
(* Time Machine to another.                                                *)
(***************************************************************************)
EXTENDS StudioForks, SequenceTheorems, TLAPS

Ask == [by: Panel, scope: Scopes \cup {"line", "scene"}, target: Nat, from: Nat, seen: Nat, made: Nat, held: BOOLEAN,
        at: {"sent", "accepted", "refused", "refreshing"}]

\* The versions that are named anywhere exist.
Shape ==
  /\ story \in [script: Seq(Nat), status: Status, rewriting: BOOLEAN]
  /\ detail \in [version: Nat, script: Nat, status: Status]
  /\ detail.version \in 1..current
  /\ base \in 1..current
  /\ form \in [scope: Scopes, target: Nat]
  /\ requests \subseteq Ask
  /\ \A r \in requests : r.from \in 0..current /\ (r.at = "accepted" => r.made \in 1..current)
  /\ forks \in Seq([by: Panel, seen: Nat])

\* What has been read of a version that has ended is what the version is.
PageTrue ==
  detail.status # "generating" =>
    /\ detail.script = story.script[detail.version]
    /\ detail.version = current => story.status # "generating"

BaseTrue ==
  /\ \A d \in baseDetail :
       /\ d.version \in 1..(current - 1) /\ d.script = story.script[d.version]
       /\ loading = {} => d.version = base
  /\ \A l \in loading : l.version = base /\ l.version < current /\ l.home \in 1..current

\* A branch holds the Time Machine until it has turned to its child.
OnItsWay(r) == r.by = "branch" /\ r.at \in {"sent", "accepted"}
Held == \A r \in requests : OnItsWay(r) => r.held /\ loading = {}

Inv == Shape /\ PageTrue /\ BaseTrue /\ Held

-------------------------------------------------------------------------------
(* Scripts                                                                   *)

LEMMA Appended ==
  ASSUME NEW S, NEW s \in Seq(S), NEW v \in S
  PROVE  /\ Append(s, v) \in Seq(S) /\ Len(Append(s, v)) = Len(s) + 1 /\ Len(s) \in Nat
         /\ \A i \in 1..Len(s) : Append(s, v)[i] = s[i]
         /\ Append(s, v)[Len(s) + 1] = v
OBVIOUS

LEMMA Rewritten ==
  ASSUME NEW s \in Seq(Nat), Len(s) \in 1..Len(s), NEW v \in Nat
  PROVE  /\ [s EXCEPT ![Len(s)] = v] \in Seq(Nat)
         /\ Len([s EXCEPT ![Len(s)] = v]) = Len(s)
         /\ \A i \in 1..(Len(s) - 1) : [s EXCEPT ![Len(s)] = v][i] = s[i]
<1>1. Len(s) \in Nat
  OBVIOUS
<1> QED BY <1>1, ExceptSeq

\* A fork leaves what was read of the versions before it true.
LEMMA ForkKeeps ==
  ASSUME Inv, NEW parent \in 1..current, NEW scope, story' = Forked(parent, scope),
         UNCHANGED <<detail, machine, form>>,
         requests' \subseteq Ask, forks' \in Seq([by: Panel, seen: Nat]),
         \A r \in requests' : /\ r.from \in 0..(current + 1)
                              /\ r.at = "accepted" => r.made \in 1..(current + 1)
                              /\ OnItsWay(r) => r.held /\ loading = {}
  PROVE  Inv'
<1>1. story.script \in Seq(Nat) /\ story.script[parent] \in Nat /\ current \in Nat
  BY DEF Inv, Shape, current
<1>2. /\ story'.script = Append(story.script, story.script[parent])
      /\ story'.status = "generating"
  BY DEF Forked
<1>3. /\ story'.script \in Seq(Nat) /\ current' = current + 1
      /\ \A i \in 1..current : story'.script[i] = story.script[i]
  BY <1>1, <1>2, Appended DEF current
<1>4. story' \in [script: Seq(Nat), status: Status, rewriting: BOOLEAN]
  BY <1>2, <1>3 DEF Forked, Rewrites, Status
<1>5. Shape'
  BY <1>1, <1>3, <1>4 DEF Inv, Shape, machine
<1>6. PageTrue'
  BY <1>1, <1>3 DEF Inv, Shape, PageTrue
<1>7. BaseTrue'
  <2>1. UNCHANGED <<base, baseDetail, loading>>
    BY DEF machine
  <2>2. ASSUME NEW d \in baseDetail'
        PROVE  /\ d.version \in 1..(current' - 1) /\ d.script = story'.script[d.version]
               /\ loading' = {} => d.version = base'
    <3>1. /\ d.version \in 1..(current - 1) /\ d.script = story.script[d.version]
          /\ loading = {} => d.version = base
      BY <2>1 DEF Inv, BaseTrue
    <3>2. d.version \in 1..current /\ d.version \in 1..(current' - 1)
      BY <1>1, <1>3, <3>1
    <3> QED BY <1>3, <2>1, <3>1, <3>2
  <2>3. ASSUME NEW l \in loading'
        PROVE  l.version = base' /\ l.version < current' /\ l.home \in 1..current'
    BY <1>1, <1>3, <2>1, SMTT(30) DEF Inv, Shape, BaseTrue
  <2> QED BY <2>2, <2>3 DEF BaseTrue
<1>8. Held'
  BY DEF Held, OnItsWay, machine
<1> QED BY <1>5, <1>6, <1>7, <1>8 DEF Inv

-------------------------------------------------------------------------------
(* The steps                                                                 *)

LEMMA InvInit == ASSUME Init PROVE Inv
BY DEF Init, Inv, Shape, PageTrue, BaseTrue, Held, OnItsWay, current, Status, Ask, Panel

\* No branch is on its way while the Time Machine can be used.
LEMMA Idle ==
  ASSUME Inv, ~SelectionLocked
  PROVE  /\ \A r \in requests : ~OnItsWay(r)
         /\ loading = {} /\ detail.status # "generating"
BY DEF Inv, Held, SelectionLocked, busy, Pending, OnItsWay

LEMMA MachineKeeps ==
  ASSUME Inv,
         (\E v \in Version : SelectBaseVersion(v)) \/ VersionRead \/ VersionLost \/ WriteDraft
  PROVE  Inv'
<1>1. current \in Nat
  BY DEF Inv, Shape, current
<1>2. ASSUME NEW v \in Version, SelectBaseVersion(v) PROVE Inv'
  <2>1. v \in 1..detail.version /\ v \in 1..current
    BY <1>1, <1>2 DEF SelectBaseVersion, Version, Inv, Shape
  <2>2. /\ \A r \in requests : ~OnItsWay(r)
        /\ loading = {} /\ base' = v
        /\ UNCHANGED <<story, detail, form, requests, forks>>
    BY <1>2, Idle DEF SelectBaseVersion, SetBase
  <2>3. CASE v = detail.version /\ baseDetail' = {} /\ loading' = {}
    BY <2>1, <2>2, <2>3 DEF Inv, Shape, PageTrue, BaseTrue, Held, OnItsWay, current
  <2>4. CASE v # detail.version /\ UNCHANGED baseDetail
             /\ loading' = {[version |-> v, home |-> detail.version]}
    <3>1. v < current
      BY <1>1, <2>1, <2>4 DEF Inv, Shape
    <3>2. Shape' /\ PageTrue'
      BY <2>1, <2>2 DEF Inv, Shape, PageTrue, current
    <3>3. BaseTrue'
      <4>1. loading' # {} /\ current' = current /\ detail.version \in 1..current
        BY <2>2, <2>4 DEF Inv, Shape, current
      <4>2. ASSUME NEW d \in baseDetail'
            PROVE  d.version \in 1..(current' - 1) /\ d.script = story'.script[d.version]
        BY <2>2, <2>4, <4>1 DEF Inv, BaseTrue
      <4>3. ASSUME NEW l \in loading'
            PROVE  l.version = base' /\ l.version < current' /\ l.home \in 1..current'
        BY <2>2, <2>4, <3>1, <4>1
      <4> QED BY <4>1, <4>2, <4>3 DEF BaseTrue
    <3>4. Held'
      BY <2>2 DEF Held, OnItsWay
    <3> QED BY <3>2, <3>3, <3>4 DEF Inv
  <2> QED BY <1>2, <2>3, <2>4 DEF SelectBaseVersion
<1>3. CASE VersionRead
  <2>1. PICK l \in loading :
          /\ baseDetail' = {[version |-> l.version, script |-> story.script[l.version]]}
          /\ loading' = {}
          /\ UNCHANGED <<story, detail, base, form, requests, forks>>
    BY <1>3 DEF VersionRead
  <2>2. l.version = base /\ l.version \in 1..(current - 1)
    BY <1>1 DEF Inv, Shape, BaseTrue
  <2>3. Shape' /\ PageTrue'
    BY <2>1 DEF Inv, Shape, PageTrue, current
  <2>4. BaseTrue'
    BY <2>1, <2>2 DEF BaseTrue, current
  <2>5. Held'
    BY <2>1 DEF Inv, Held, OnItsWay
  <2> QED BY <2>3, <2>4, <2>5 DEF Inv
<1>4. CASE VersionLost
  <2>1. PICK l \in loading :
          /\ base' = l.home /\ baseDetail' = {} /\ loading' = {}
          /\ UNCHANGED <<story, detail, form, requests, forks>>
    BY <1>4 DEF VersionLost, SetBase
  <2>2. l.home \in 1..current
    BY DEF Inv, BaseTrue
  <2>3. Shape' /\ PageTrue'
    BY <2>1, <2>2 DEF Inv, Shape, PageTrue, current
  <2>4. BaseTrue' /\ Held'
    BY <2>1 DEF Inv, BaseTrue, Held, OnItsWay
  <2> QED BY <2>3, <2>4 DEF Inv
<1>5. CASE WriteDraft
  BY <1>5 DEF WriteDraft, Inv, Shape, PageTrue, BaseTrue, Held, OnItsWay, current
<1> QED BY <1>2, <1>3, <1>4, <1>5

\* A new request names versions that exist; a branch starts with nothing being read.
LEMMA SendKeeps ==
  ASSUME Inv, NEW panel \in Panel, NEW scope \in Scopes \cup {"line", "scene"}, NEW target \in Nat, NEW from \in 0..current,
         Send(panel, scope, target, from), panel = "branch" => loading = {}
  PROVE  Inv'
<1> DEFINE q == [by |-> panel, scope |-> scope, target |-> target, from |-> from,
                 seen |-> detail.version, made |-> 0, held |-> TRUE, at |-> "sent"]
<1>1. q \in Ask /\ q.from \in 0..current /\ q.at = "sent" /\ q.held /\ q.by = panel
  BY DEF Inv, Shape, Ask, current
<1>2. requests' = requests \cup {q} /\ UNCHANGED <<story, detail, form, machine, forks>>
  BY DEF Send
<1> HIDE DEF q
<1>3. Shape'
  BY <1>1, <1>2 DEF Inv, Shape, current, machine
<1>4. PageTrue' /\ BaseTrue'
  BY <1>2 DEF Inv, PageTrue, BaseTrue, current, machine
<1>5. Held'
  BY <1>1, <1>2 DEF Inv, Held, OnItsWay, machine
<1> QED BY <1>3, <1>4, <1>5 DEF Inv

\* The clicks of the four panels.
LEMMA ClickKeeps ==
  ASSUME Inv,
         RespeakLine \/ SubmitControls \/ ChooseEnding \/ SubmitBranch
  PROVE  Inv'
<1>1. form.scope \in Scopes /\ form.target \in Nat /\ detail.script \in Nat /\ 0 \in 0..current /\ base \in 0..current
  BY DEF Inv, Shape, current
<1>2. CASE RespeakLine
  BY <1>1, <1>2, SendKeeps DEF RespeakLine, Panel
<1>3. CASE SubmitControls
  BY <1>1, <1>3, SendKeeps DEF SubmitControls, Panel
<1>4. CASE ChooseEnding
  BY <1>1, <1>4, SendKeeps DEF ChooseEnding, Panel
<1>5. CASE SubmitBranch
  <2>1. PICK t \in timelineDetail : Send("branch", "scene", t.script, base)
    BY <1>5 DEF SubmitBranch
  <2>2. loading = {}
    BY <1>5 DEF SubmitBranch, SelectionLocked
  <2>3. \A i \in 1..current : story.script[i] \in Nat
    BY DEF Inv, Shape, current
  <2>4. current \in Nat
    BY DEF Inv, Shape, current
  <2>5. \A d \in baseDetail : d.script \in Nat
    BY <2>3, <2>4 DEF Inv, BaseTrue
  <2>6. t.script \in Nat
    BY <1>1, <2>1, <2>5 DEF timelineDetail
  <2> QED BY <1>1, <2>1, <2>2, <2>6, SendKeeps DEF Panel
<1> QED BY <1>2, <1>3, <1>4, <1>5

\* The server's steps: forks, refusals, and the end of a pipeline.
LEMMA ServerKeeps ==
  ASSUME Inv, Server \/ \E parent \in Version, scope \in Scopes : ForkElsewhere(parent, scope)
  PROVE  Inv'
<1>1. current \in Nat
  BY DEF Inv, Shape, current
<1>2. CASE Finish
  <2>1. PICK s \in {story.script[current]} \cup (IF story.rewriting THEN {current} ELSE {}),
             status \in {"ready", "failed"} :
          story' = [script |-> [story.script EXCEPT ![current] = s], status |-> status,
                    rewriting |-> FALSE]
    BY <1>2 DEF Finish
  <2>2. current \in 1..current /\ story.script \in Seq(Nat)
    BY <1>1 DEF Inv, Shape
  <2>3. s \in Nat
    BY <1>1, <2>2 DEF current
  <2>4. /\ story'.script = [story.script EXCEPT ![Len(story.script)] = s]
        /\ story' \in [script: {story'.script}, status: Status, rewriting: BOOLEAN]
    BY <2>1 DEF current, Status
  <2>5. /\ story'.script \in Seq(Nat) /\ current' = current
        /\ \A i \in 1..(current - 1) : story'.script[i] = story.script[i]
    <3>1. Len(story.script) \in 1..Len(story.script)
      BY <2>2 DEF current
    <3> QED BY <2>2, <2>3, <2>4, <3>1, Rewritten DEF current
  <2>6. story' \in [script: Seq(Nat), status: Status, rewriting: BOOLEAN]
    BY <2>4, <2>5
  <2>7. UNCHANGED <<detail, base, baseDetail, loading, form, requests, forks>>
    BY <1>2 DEF Finish, machine
  <2>8. Shape'
    BY <2>5, <2>6, <2>7 DEF Inv, Shape
  <2>9. PageTrue'
    <3>1. story.status = "generating"
      BY <1>2 DEF Finish
    <3>2. detail.status # "generating" => detail.version \in 1..(current - 1)
      BY <1>1, <3>1 DEF Inv, Shape, PageTrue
    <3> QED BY <1>1, <2>5, <2>7, <3>2 DEF Inv, PageTrue
  <2>10. BaseTrue' /\ Held'
    BY <2>5, <2>7 DEF Inv, BaseTrue, Held, OnItsWay
  <2> QED BY <2>8, <2>9, <2>10 DEF Inv
<1>3. ASSUME NEW r \in requests, Regenerate(r) PROVE Inv'
  <2>1. Parent(r) \in 1..current
    BY <1>1, <1>3 DEF Parent, Inv, Shape
  <2>2. PICK q \in Ask :
          /\ requests' = (requests \ {r}) \cup {q}
          /\ q.from = r.from /\ ~(q.by = "branch" /\ q.at = "accepted" /\ ~q.held)
          /\ q.by = r.by /\ q.held = r.held /\ q.at \in {"accepted", "refused"}
          /\ q.at = "accepted" => q.made = current + 1
    <3>1. r \in Ask /\ r.at = "sent" /\ (OnItsWay(r) => r.held)
      BY <1>3 DEF Regenerate, Inv, Shape, Held
    <3>2. CASE Replace(r, [r EXCEPT !.at = "accepted", !.made = current + 1])
      <4> DEFINE q == [r EXCEPT !.at = "accepted", !.made = current + 1]
      <4>1. q \in Ask /\ q.from = r.from /\ q.by = r.by /\ q.held = r.held /\ q.at = "accepted"
            /\ q.made = current + 1
        <5>1. [r EXCEPT !.made = current + 1] \in Ask
          BY <1>1, <3>1 DEF Ask
        <5>2. q = [[r EXCEPT !.made = current + 1] EXCEPT !.at = "accepted"]
          BY <3>1 DEF Ask
        <5> QED BY <1>1, <3>1, <5>1, <5>2 DEF Ask
      <4>2. requests' = (requests \ {r}) \cup {q}
        BY <3>2 DEF Replace
      <4> HIDE DEF q
      <4> QED BY <3>1, <4>1, <4>2 DEF OnItsWay
    <3>3. CASE Replace(r, [r EXCEPT !.at = "refused"])
      <4> DEFINE q == [r EXCEPT !.at = "refused"]
      <4>1. q \in Ask /\ q.from = r.from /\ q.by = r.by /\ q.held = r.held /\ q.at = "refused"
        BY <3>1 DEF Ask
      <4>2. requests' = (requests \ {r}) \cup {q}
        BY <3>3 DEF Replace
      <4> HIDE DEF q
      <4> QED BY <4>1, <4>2
    <3> QED BY <1>3, <3>2, <3>3 DEF Regenerate
  <2>3. requests' \subseteq Ask
    BY <2>2 DEF Inv, Shape
  <2>4. ASSUME NEW s \in requests'
        PROVE  /\ s.from \in 0..(current + 1)
               /\ s.at = "accepted" => s.made \in 1..(current + 1)
               /\ OnItsWay(s) => s.held /\ loading = {}
    <3>1. CASE s \in requests
      BY <1>1, <3>1 DEF Inv, Shape, Held
    <3>2. CASE s = q
      <4>1. r.at = "sent" /\ r.from \in 0..current /\ (OnItsWay(r) => r.held /\ loading = {})
        BY <1>3 DEF Regenerate, Inv, Shape, Held
      <4> QED BY <1>1, <2>2, <3>2, <4>1 DEF OnItsWay
    <3> QED BY <2>2, <3>1, <3>2
  <2>5. forks' \in Seq([by: Panel, seen: Nat])
    <3>1. [by |-> r.by, seen |-> r.seen] \in [by: Panel, seen: Nat]
      BY DEF Inv, Shape, Ask
    <3> QED BY <1>3, <3>1, Appended DEF Regenerate, Inv, Shape
  <2>6. story' = Forked(Parent(r), r.scope) /\ UNCHANGED <<detail, machine, form>>
    BY <1>3 DEF Regenerate
  <2> QED BY <2>1, <2>3, <2>4, <2>5, <2>6, ForkKeeps
<1>4. ASSUME NEW r \in requests, Refuse(r) PROVE Inv'
  <2> DEFINE q == [r EXCEPT !.at = "refused"]
  <2>1. q \in Ask /\ q.from = r.from /\ q.at = "refused" /\ r.from \in 0..current
    BY DEF Inv, Shape, Ask
  <2>2. requests' = (requests \ {r}) \cup {q} /\ UNCHANGED <<story, detail, machine, form, forks>>
    BY <1>4 DEF Refuse, Replace
  <2> HIDE DEF q
  <2> QED BY <2>1, <2>2 DEF Inv, Shape, PageTrue, BaseTrue, Held, OnItsWay, current, machine
<1>5. ASSUME NEW parent \in Version, NEW scope \in Scopes, ForkElsewhere(parent, scope) PROVE Inv'
  <2>1. parent \in 1..current
    BY <1>1, <1>5 DEF ForkElsewhere, Version
  <2>2. /\ story' = Forked(parent, scope)
        /\ UNCHANGED <<detail, machine, form, requests, forks>>
    BY <1>5 DEF ForkElsewhere
  <2>3. \A r \in requests' : /\ r.from \in 0..(current + 1)
                             /\ r.at = "accepted" => r.made \in 1..(current + 1)
                             /\ OnItsWay(r) => r.held /\ loading = {}
    BY <1>1, <2>2 DEF Inv, Shape, Held
  <2>4. requests' \subseteq Ask /\ forks' \in Seq([by: Panel, seen: Nat])
    BY <2>2 DEF Inv, Shape
  <2> QED BY <2>1, <2>2, <2>3, <2>4, ForkKeeps
<1> QED BY <1>2, <1>3, <1>4, <1>5 DEF Server
\* What is left of the requests after a read: some may have been unmounted.
LEMMA ReadKeeps ==
  ASSUME Inv, NEW rest \in SUBSET requests, Read(rest)
  PROVE  Inv'
<1>1. current \in 1..current /\ story.script[current] \in Nat
  BY DEF Inv, Shape, current
<1>2. detail' = [version |-> current, script |-> story.script[current], status |-> story.status]
      /\ UNCHANGED <<story, machine, form, forks>>
  BY DEF Read
<1>3. \A s \in requests' : \E r \in requests :
        s \in Ask /\ s.by = r.by /\ s.at = r.at /\ s.from = r.from /\ s.made = r.made
        /\ (r.by = "branch" => s.held = r.held)
  <2>1. CASE requests' = rest
    BY <2>1 DEF Inv, Shape
  <2>2. CASE requests' = {[r EXCEPT !.held = @ /\ r.by # "ending"] : r \in rest}
    <3>1. TAKE s \in requests'
    <3>2. PICK r \in rest : s = [r EXCEPT !.held = @ /\ r.by # "ending"]
      BY <2>2
    <3>3. r \in requests /\ r \in Ask /\ r.held \in BOOLEAN
      BY DEF Inv, Shape, Ask
    <3>4. s \in Ask /\ s.by = r.by /\ s.at = r.at /\ s.from = r.from /\ s.made = r.made
      BY <3>2, <3>3 DEF Ask
    <3>5. s.held = (r.held /\ r.by # "ending")
      BY <3>2, <3>3 DEF Ask
    <3>6. r.by = "branch" => s.held = r.held
      BY <3>3, <3>5
    <3> QED BY <3>3, <3>4, <3>6
  <2> QED BY <2>1, <2>2 DEF Read, Unmounted
<1>4. Shape'
  <2>1. story.status \in Status
    BY DEF Inv, Shape
  <2>2. detail' \in [version: Nat, script: Nat, status: Status] /\ detail'.version \in 1..current
    BY <1>1, <1>2, <2>1
  <2>3. requests' \subseteq Ask
        /\ \A s \in requests' : s.from \in 0..current /\ (s.at = "accepted" => s.made \in 1..current)
    <3>1. SUFFICES ASSUME NEW s \in requests'
                   PROVE  s \in Ask /\ s.from \in 0..current
                          /\ (s.at = "accepted" => s.made \in 1..current)
      OBVIOUS
    <3>2. PICK r \in requests : s \in Ask /\ s.at = r.at /\ s.from = r.from /\ s.made = r.made
      BY <1>3
    <3>3. r.from \in 0..current /\ (r.at = "accepted" => r.made \in 1..current)
      BY DEF Inv, Shape
    <3> QED BY <3>2, <3>3
  <2> QED BY <1>2, <2>2, <2>3 DEF Inv, Shape, current, machine
<1>5. PageTrue' /\ BaseTrue'
  BY <1>2 DEF Inv, PageTrue, BaseTrue, current, machine
<1>6. Held'
  BY <1>2, <1>3 DEF Inv, Held, OnItsWay, machine
<1> QED BY <1>4, <1>5, <1>6 DEF Inv

LEMMA AnswerKeeps ==
  ASSUME Inv, Watch \/ \E r \in requests : Accepted(r) \/ Refused(r) \/ Refresh(r)
  PROVE  Inv'
<1>1. ASSUME NEW r \in requests, Accepted(r) PROVE Inv'
  <2> DEFINE q == [r EXCEPT !.at = "refreshing", !.held = @ /\ r.by # "director"]
  <2>1. r \in Ask /\ r.from \in 0..current /\ r.made \in 1..current /\ r.held \in BOOLEAN
        /\ r.at = "accepted"
    BY <1>1 DEF Accepted, Inv, Shape, Ask
  <2>2. q \in Ask /\ q.from = r.from /\ q.at = "refreshing"
    BY <2>1 DEF Ask
  <2>3. requests' = (requests \ {r}) \cup {q} /\ UNCHANGED <<story, detail, form, forks, loading>>
    BY <1>1 DEF Accepted, Replace, machine
  <2> HIDE DEF q
  <2>4. requests' \subseteq Ask
        /\ \A s \in requests' : /\ s.from \in 0..current
                                /\ s.at = "accepted" => s.made \in 1..current
    BY <2>1, <2>2, <2>3 DEF Inv, Shape
  <2>5. Held'
    BY <2>2, <2>3 DEF Inv, Held, OnItsWay
  <2>6. PageTrue'
    BY <2>3 DEF Inv, PageTrue, current
  <2>7. CASE r.by = "branch"
    <3>1. base' = r.made /\ baseDetail' = {}
      BY <1>1, <2>7 DEF Accepted, SetBase
    <3>2. loading = {}
      BY <2>1, <2>7 DEF Inv, Held, OnItsWay
    <3>3. Shape'
      BY <2>1, <2>3, <2>4, <3>1 DEF Inv, Shape, current
    <3>4. BaseTrue'
      BY <2>3, <3>1, <3>2 DEF BaseTrue
    <3> QED BY <2>5, <2>6, <3>3, <3>4 DEF Inv
  <2>8. CASE r.by # "branch"
    <3>1. UNCHANGED machine
      BY <1>1, <2>8 DEF Accepted
    <3>2. Shape' /\ BaseTrue'
      BY <2>3, <2>4, <3>1 DEF Inv, Shape, BaseTrue, current, machine
    <3> QED BY <2>5, <2>6, <3>2 DEF Inv
  <2> QED BY <2>7, <2>8
<1>2. ASSUME NEW r \in requests,
             requests' = requests \ {r}, UNCHANGED <<story, detail, machine, form, forks>>
      PROVE  Inv'
  BY <1>2 DEF Inv, Shape, PageTrue, BaseTrue, Held, OnItsWay, current, machine
<1>3. ASSUME NEW r \in requests, Refused(r) PROVE Inv'
  BY <1>2, <1>3 DEF Refused
<1>4. ASSUME NEW r \in requests, Refresh(r) PROVE Inv'
  <2>1. Read(requests \ {r})
        \/ (requests' = requests \ {r} /\ UNCHANGED <<story, detail, machine, form, forks>>)
    BY <1>4 DEF Refresh
  <2> QED BY <1>2, <2>1, ReadKeeps
<1>5. CASE Watch
  BY <1>5, ReadKeeps DEF Watch
<1> QED BY <1>1, <1>3, <1>4, <1>5

LEMMA FormKeeps ==
  ASSUME Inv, ChooseTarget \/ \E scope \in Scopes : ChooseScope(scope)
  PROVE  Inv'
<1>1. UNCHANGED <<story, detail, machine, requests, forks>>
  BY DEF ChooseTarget, ChooseScope
<1>2. form' \in [scope: Scopes, target: Nat]
  <2>1. CASE ChooseTarget
    <3>1. form \in [scope: Scopes, target: Nat] /\ detail.script \in Nat
      BY DEF Inv, Shape
    <3> QED BY <2>1, <3>1 DEF ChooseTarget
  <2>2. CASE \E scope \in Scopes : ChooseScope(scope)
    BY <2>2 DEF ChooseScope
  <2> QED BY <2>1, <2>2
<1> QED BY <1>1, <1>2 DEF Inv, Shape, PageTrue, BaseTrue, Held, OnItsWay, current, machine

LEMMA InvNext == ASSUME Inv, [Next]_vars PROVE Inv'
<1>1. CASE Next
  BY <1>1, MachineKeeps, ClickKeeps, ServerKeeps, AnswerKeeps, FormKeeps DEF Next, Page
<1>2. CASE UNCHANGED vars
  BY <1>2 DEF vars, Inv, Shape, PageTrue, BaseTrue, Held, OnItsWay, current
<1> QED BY <1>1, <1>2

-------------------------------------------------------------------------------
(* The Time Machine                                                          *)

LEMMA InvTimeline == ASSUME Inv PROVE RightTimeline
<1>1. SUFFICES ASSUME ~SelectionLocked, NEW t \in timelineDetail
               PROVE  t.version = base /\ t.script = story.script[base]
  BY DEF RightTimeline
<1>2. loading = {} /\ detail.status # "generating"
  BY <1>1, Idle
<1>3. CASE base = detail.version
  BY <1>1, <1>2, <1>3 DEF timelineDetail, Inv, PageTrue
<1>4. CASE base # detail.version
  BY <1>1, <1>2, <1>4 DEF timelineDetail, Inv, BaseTrue
<1> QED BY <1>3, <1>4

\* While the Time Machine can be used, its scenes are those of the version it branches from,
\* whatever the other panels, another page, the pipeline and lost answers do meanwhile.
THEOREM TimelineRight == Spec => []RightTimeline
<1>1. Init => Inv
  BY InvInit
<1>2. Inv /\ [Next]_vars => Inv'
  BY InvNext
<1>3. Inv => RightTimeline
  BY InvTimeline
<1> QED BY <1>1, <1>2, <1>3, PTL DEF Spec

\* A branch is made from the version that is current, and moves it on.
BranchesBefore == \A i \in DOMAIN forks : forks[i].by = "branch" => forks[i].seen < current

LEMMA ForkOnce ==
  ASSUME Inv, BranchesBefore, OneBranchPerView, NEW r \in requests, Regenerate(r)
  PROVE  BranchesBefore' /\ OneBranchPerView'
<1> DEFINE new == [by |-> r.by, seen |-> r.seen]
<1>1. /\ forks \in Seq([by: Panel, seen: Nat]) /\ new \in [by: Panel, seen: Nat]
      /\ new.by = r.by /\ new.seen = r.seen /\ current \in Nat
      /\ story.script \in Seq(Nat) /\ DOMAIN forks = 1..Len(forks)
  BY DEF Inv, Shape, Ask, current
<1>2. forks' = Append(forks, new) /\ (r.by = "branch" => r.seen = current)
  BY DEF Regenerate, Forkable
<1>3. current' = current + 1
  <2>1. story'.script = Append(story.script, story.script[Parent(r)])
    BY DEF Regenerate, Forked
  <2>2. Len(story.script) \in Nat
    BY <1>1
  <2>3. Len(Append(story.script, story.script[Parent(r)])) = Len(story.script) + 1
    BY <1>1
  <2> QED BY <2>1, <2>3 DEF current
<1> HIDE DEF new
<1>4. /\ DOMAIN forks' = 1..(Len(forks) + 1) /\ Len(forks) \in Nat
      /\ \A i \in 1..Len(forks) : forks'[i] = forks[i]
      /\ forks'[Len(forks) + 1] = new
  <2>1. Append(forks, new) \in Seq([by: Panel, seen: Nat])
    BY <1>1, Appended
  <2> QED BY <1>1, <1>2, <2>1, Appended, LenProperties
<1>5. \A i \in DOMAIN forks' : forks'[i].by = "branch" =>
        \/ i \in 1..Len(forks) /\ forks'[i] = forks[i] /\ forks[i].seen < current
        \/ i = Len(forks) + 1 /\ forks'[i] = new /\ new.seen = current
  <2>1. TAKE i \in DOMAIN forks'
  <2>2. i \in 1..Len(forks) \/ i = Len(forks) + 1
    BY <1>4
  <2> QED BY <1>1, <1>2, <1>4, <2>2 DEF BranchesBefore
<1>6. \A i \in 1..Len(forks) : forks[i].seen \in Nat
  <2>1. \A i \in 1..Len(forks) : forks[i] \in [by: Panel, seen: Nat]
    BY <1>1, ElementOfSeq
  <2> QED BY <2>1
<1>7. BranchesBefore'
  <2>1. SUFFICES ASSUME NEW i \in DOMAIN forks', forks'[i].by = "branch"
                 PROVE  forks'[i].seen < current + 1
    BY <1>3 DEF BranchesBefore
  <2>2. CASE i \in 1..Len(forks) /\ forks'[i] = forks[i] /\ forks[i].seen < current
    BY <1>1, <1>6, <2>2
  <2>3. CASE i = Len(forks) + 1 /\ forks'[i] = new /\ new.seen = current
    BY <1>1, <2>3
  <2> QED BY <1>5, <2>1, <2>2, <2>3
<1>8. OneBranchPerView'
  BY <1>1, <1>4, <1>5, <1>6 DEF OneBranchPerView
<1> QED BY <1>7, <1>8

LEMMA OnceInit == ASSUME Init PROVE BranchesBefore /\ OneBranchPerView
BY DEF Init, BranchesBefore, OneBranchPerView

LEMMA OnceNext ==
  ASSUME Inv, BranchesBefore, OneBranchPerView, [Next]_vars
  PROVE  BranchesBefore' /\ OneBranchPerView'
<1>1. CASE \E r \in requests : Regenerate(r)
  BY <1>1, ForkOnce
<1>2. CASE forks' = forks /\ current' = current
  BY <1>2 DEF BranchesBefore, OneBranchPerView
<1>3. CASE \E parent \in Version, scope \in Scopes : ForkElsewhere(parent, scope)
  <2>1. PICK parent \in Version, scope \in Scopes : ForkElsewhere(parent, scope)
    BY <1>3
  <2>2. story'.script = Append(story.script, story.script[parent]) /\ forks' = forks
    BY <2>1 DEF ForkElsewhere, Forked
  <2>3. story.script \in Seq(Nat)
    BY DEF Inv, Shape
  <2>4. current' = current + 1 /\ current \in Nat
    BY <2>2, <2>3 DEF current
  <2>5. DOMAIN forks = 1..Len(forks) /\ \A i \in DOMAIN forks : forks[i].seen \in Nat
    <3>1. forks \in Seq([by: Panel, seen: Nat])
      BY DEF Inv, Shape
    <3>2. \A i \in 1..Len(forks) : forks[i] \in [by: Panel, seen: Nat]
      BY <3>1, ElementOfSeq
    <3> QED BY <3>1, <3>2
  <2> QED BY <2>2, <2>4, <2>5 DEF BranchesBefore, OneBranchPerView
<1>4. CASE Finish
  <2>1. PICK s \in {story.script[current]} \cup (IF story.rewriting THEN {current} ELSE {}),
             status \in {"ready", "failed"} :
          story' = [script |-> [story.script EXCEPT ![current] = s], status |-> status,
                    rewriting |-> FALSE]
    BY <1>4 DEF Finish
  <2>2. Len(story.script) \in 1..Len(story.script) /\ story.script \in Seq(Nat)
    BY DEF Inv, Shape, current
  <2>3. s \in Nat
    BY <2>2, ElementOfSeq DEF current
  <2>4. current' = current
    BY <2>1, <2>2, <2>3, Rewritten DEF current
  <2>5. forks' = forks
    BY <1>4 DEF Finish
  <2> QED BY <1>2, <2>4, <2>5
<1>5. CASE UNCHANGED <<story, forks>>
  BY <1>2, <1>5 DEF current
<1>6. \/ \E r \in requests : Regenerate(r)
      \/ \E parent \in Version, scope \in Scopes : ForkElsewhere(parent, scope)
      \/ Finish
      \/ UNCHANGED <<story, forks>>
  BY DEF Next, Server, Page, Watch, Refuse, VersionRead, VersionLost, Accepted, Refused, Refresh,
         Read, SelectBaseVersion, ChooseScope, ChooseTarget, WriteDraft, RespeakLine,
         SubmitControls, ChooseEnding, SubmitBranch, Send, vars
<1> QED BY <1>1, <1>3, <1>4, <1>5, <1>6

\* Whatever is lost, retried, or forked by others in between, the Time Machine makes one branch
\* at most from one view of the story.
THEOREM OneBranch == Spec => []OneBranchPerView
<1>1. Init => Inv /\ BranchesBefore /\ OneBranchPerView
  BY InvInit, OnceInit
<1>2. Inv /\ BranchesBefore /\ OneBranchPerView /\ [Next]_vars
        => Inv' /\ BranchesBefore' /\ OneBranchPerView'
  BY InvNext, OnceNext
<1> QED BY <1>1, <1>2, PTL DEF Spec
===============================================================================
