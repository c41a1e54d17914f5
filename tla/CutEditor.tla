------------------------------- MODULE CutEditor -------------------------------
(***************************************************************************)
(* The editor tab of one listener, over the rows and the pool of           *)
(* CutRender.                                                              *)
(*                                                                         *)
(* The tab keeps the list of cuts as last answered, the cut that is open   *)
(* and its manifest on screen, and saves by a debounce: one timer for all  *)
(* cuts, holding the cut and the manifest of the change that armed it.     *)
(* Requests are answered in any order, the handlers run in any order, and  *)
(* each answer is folded into the list by the cut's id.                    *)
(***************************************************************************)
EXTENDS CutRender, Sequences

CONSTANTS
  MaxChanges,  (* bound: moves of a control                               *)
  MaxClicks,   (* bound: cuts created, deleted, opened, exported, shared, *)
               (* and tracks uploaded                                     *)
  MaxFlight    (* bound: requests in flight                               *)

\* The settings of a manifest, in the two groups that are changed apart: where a control of
\* each stands, as the move that put it there.
VideoEditManifest == [look: 0..MaxChanges, sound: 0..MaxChanges]
Defaults == [look |-> 0, sound |-> 0]

ASSUME EditorAssumption ==
  /\ Cut # {}
  /\ MaxChanges \in Nat /\ MaxClicks \in Nat /\ MaxFlight \in Nat \ {0}
  /\ Manifest = VideoEditManifest /\ Blank = Defaults

VARIABLES
  edits,     (* the cuts of the list, as last answered                    *)
  selected,  (* the cut that is open: a set of one or none                *)
  manifest,  (* the manifest on screen, likewise                          *)
  timer,     (* the pending save, likewise                                *)
  flushable, (* saveTimer.current is set, be its timeout pending or fired *)
  saving,    (* the editor says that it is saving                         *)
  creating,  (* a cut is being created                                    *)
  polls,     (* the cuts a timeout is pending to poll                     *)
  flight,    (* requests in flight, oldest first                          *)
  wanted,    (* history: what the listener made of each cut               *)
  changes,   (* moves of a control so far                                 *)
  clicks,    (* other clicks so far                                       *)
  races      (* history: the races that have been lost                    *)

vars == <<renderVars, edits, selected, manifest, timer, flushable, saving, creating, polls,
          flight, wanted, changes, clicks, races>>
autosave == <<timer, flushable, saving>>
list == <<edits, polls>>
screen == <<selected, manifest>>
history == <<wanted, changes, clicks, races>>

VideoEdit == [manifest: Manifest, status: Status, current: BOOLEAN, rendered: BOOLEAN,
              shared: BOOLEAN]
Kind == {"create", "save", "flush", "delete", "render", "cut", "share", "revoke",
         "poll", "upload"}

\* `update` is what the handler has decided and not yet committed; a render that is "queued" is
\* committed and not yet dispatched; `answer` is the row that was answered, if any; `stale`: it
\* has changed since.
Request == [kind: Kind, cut: Option(Cut), manifest: Option(Manifest),
            at: {"sent", "read", "queued", "answered", "failed"}, update: Option(Columns),
            answer: Option(VideoEdit), stale: BOOLEAN]

Race == {"refused",     \* a request that failed
         "crossed",     \* a save that reads the row before an older one of its cut has written
         "torn",        \* a handler's write and a worker's claim, one read before the other
                       \* was committed
         "unsaved",     \* a pending save of another cut replaced by a new one
         "reverted",    \* an older manifest put on screen
         "overtaken"}   \* an answer folded in after a newer one

EditorTypeOK ==
  /\ TypeOK
  /\ DOMAIN edits \subseteq Cut /\ \A c \in DOMAIN edits : edits[c] \in VideoEdit
  /\ selected \in Option(Cut) /\ manifest \in Option(Manifest)
  /\ timer \subseteq [cut: Cut, manifest: Manifest]
  /\ <<flushable, saving, creating>> \in BOOLEAN \X BOOLEAN \X BOOLEAN
  /\ polls \subseteq Cut
  /\ flight \in Seq(Request) /\ Len(flight) <= MaxFlight
  /\ DOMAIN wanted \subseteq Cut /\ \A c \in DOMAIN wanted : wanted[c] \in Manifest
  /\ changes \in 0..MaxChanges /\ clicks \in 0..MaxClicks
  /\ races \subseteq Race

View(r) == [manifest |-> r.manifest, status |-> r.status, current |-> RenderCurrent(r),
            rendered |-> r.asset # {}, shared |-> r.linked]

Sent(kind, c, m) == [kind |-> kind, cut |-> c, manifest |-> m, at |-> "sent", update |-> {},
                     answer |-> {}, stale |-> FALSE]

Newest == CHOOSE c \in Cut : TRUE
Exported == [NewRow(Blank) EXCEPT !.status = "ready", !.asset = {Blank}, !.hash = {Blank}]

\* The tab has been opened on the newest cut, the only one (exported or not) or one of several.
Init ==
  /\ row \in {[c \in {Newest} |-> r] : r \in {NewRow(Blank), Exported}}
            \cup {[c \in Cut |-> [Exported EXCEPT !.linked = (c = Newest)]]}
  /\ wanted = [c \in DOMAIN row |-> Blank]
  /\ queue = [t \in Cut \X Attempt |-> 0] /\ pool = {} /\ faults = 0
  /\ edits = [c \in DOMAIN row |-> View(row[c])]
  /\ selected = {Newest} /\ manifest = {Blank}
  /\ timer = {} /\ flushable = FALSE /\ saving = FALSE /\ creating = FALSE
  /\ polls = {}
  /\ flight = <<>>
  /\ changes = 0 /\ clicks = 0 /\ races = {}

-------------------------------------------------------------------------------
(* The list, the screen and the export panel                                 *)

Working(es, c) == c \in DOMAIN es /\ es[c].status \in {"queued", "rendering"}

\* The polling effect of the export panel, when what it depends on has changed.
Effect(es, sel, ps) ==
  LET old == {c \in selected : Working(edits, c)}
      new == {c \in sel : Working(es, c)}
  IN IF old = new THEN ps ELSE (ps \ old) \cup new

Folded(c, v) == [d \in DOMAIN edits \cup {c} |-> IF d = c THEN v ELSE edits[d]]

MergeEdit(c, v) ==
  /\ edits' = Folded(c, v)
  /\ polls' = Effect(edits', selected, polls)

\* An older manifest than the listener's last one is a race lost.
Reverted(c, m) == IF wanted[c] # m THEN {"reverted"} ELSE {}

\* A cut is opened from the list.
Show(c, es) ==
  /\ selected' = {c} /\ manifest' = {es[c].manifest}

Room == Len(flight) < MaxFlight
Send(kind, c, m) == Room /\ flight' = Append(flight, Sent(kind, c, m))
Without(i) == SubSeq(flight, 1, i - 1) \o SubSeq(flight, i + 1, Len(flight))

\* The panel is gone: whatever its polls are answered, nobody hears it.
Unheard(f) ==
  [j \in 1..Len(f) |-> IF f[j].kind = "poll" THEN [f[j] EXCEPT !.at = "failed"] ELSE f[j]]

Click == clicks < MaxClicks /\ clicks' = clicks + 1

-------------------------------------------------------------------------------
(* Autosave                                                                  *)

\* Any earlier pending save is replaced, whichever cut it was of.
Save(c, m) ==
  /\ timer' = {[cut |-> c, manifest |-> m]}
  /\ flushable' = TRUE /\ saving' = TRUE

Unsaved(c) == IF \E t \in timer : t.cut # c THEN {"unsaved"} ELSE {}

\* A control is moved to a new place, or back to its default.
Moved(part) ==
  \E c \in selected, m \in manifest, v \in {0, changes + 1} :
    /\ v # m[part]
    /\ manifest' = {[m EXCEPT ![part] = v]}
    /\ wanted' = [wanted EXCEPT ![c][part] = v]
    /\ Save(c, [m EXCEPT ![part] = v])
    /\ races' = races \cup Unsaved(c)

Change(part) ==
  /\ changes < MaxChanges /\ changes' = changes + 1
  /\ Moved(part)
  /\ UNCHANGED <<renderVars, list, selected, creating, flight, clicks>>

ChangeLook == Change("look")
ChangeSound == Change("sound")

\* Mutant: the save goes to the cut that is open when the timeout fires.
FireSelected ==
  \E t \in timer, c \in selected :
    /\ Send("save", {c}, {t.manifest})
    /\ timer' = {}
    /\ UNCHANGED <<renderVars, list, screen, flushable, saving, creating, history>>

\* The timeout fires; saveTimer.current stays set.
FireSave ==
  \E t \in timer :
    /\ Send("save", {t.cut}, {t.manifest})
    /\ timer' = {}
    /\ UNCHANGED <<renderVars, list, screen, flushable, saving, creating, history>>

-------------------------------------------------------------------------------
(* Clicks                                                                    *)

\* The new cut starts as a duplicate of what is on screen.
CreateCutClick ==
  /\ ~creating /\ Click
  /\ Send("create", {}, IF manifest = {} THEN {Blank} ELSE manifest)
  /\ creating' = TRUE
  /\ UNCHANGED <<renderVars, list, screen, autosave, wanted, changes, races>>

RemoveCut ==
  /\ Click
  /\ \E c \in selected : Send("delete", {c}, {})
  /\ UNCHANGED <<renderVars, list, screen, autosave, creating, wanted, changes, races>>

\* A pending save is flushed: what is on screen is sent for the cut that is left.
SelectCut(c) ==
  /\ Click /\ c \in DOMAIN edits
  /\ IF flushable
     THEN /\ timer' = {} /\ flushable' = FALSE /\ saving' = FALSE
          /\ IF selected # {} THEN Send("flush", selected, manifest) ELSE UNCHANGED flight
     ELSE UNCHANGED <<autosave, flight>>
  /\ Show(c, edits)
  /\ polls' = Effect(edits, {c}, polls)
  /\ races' = races \cup Reverted(c, edits[c].manifest)
                    \cup (IF flushable /\ selected # {} THEN UNION {Unsaved(d) : d \in selected}
                          ELSE {})
  /\ UNCHANGED <<renderVars, edits, creating, wanted, changes>>

\* Export is disabled while working, while saving, and when the bytes are those of the list.
ExportEnabled(c) ==
  /\ c \in DOMAIN edits
  /\ ~Working(edits, c) /\ ~saving /\ ~edits[c].current

ExportClick ==
  /\ Click
  /\ \E c \in selected : ExportEnabled(c) /\ Send("render", {c}, {})
  /\ UNCHANGED <<renderVars, list, screen, autosave, creating, wanted, changes, races>>

\* Sharing is offered for a current export, and withdrawn where there is a link.
ShareClick ==
  /\ Click
  /\ \E c \in selected \cap DOMAIN edits :
       /\ edits[c].rendered
       /\ \/ ~edits[c].shared /\ edits[c].current /\ Send("share", {c}, {})
          \/ edits[c].shared /\ Send("revoke", {c}, {})
  /\ UNCHANGED <<renderVars, list, screen, autosave, creating, wanted, changes, races>>

\* The closures of the render in which the upload began: its cut, and its manifest with the
\* track put in.
UploadClick ==
  /\ Click /\ ~\E i \in 1..Len(flight) : flight[i].kind = "upload"
  /\ changes < MaxChanges /\ changes' = changes + 1
  /\ selected # {}
  /\ Send("upload", selected, {[m EXCEPT !.sound = changes + 1] : m \in manifest})
  /\ UNCHANGED <<renderVars, list, screen, autosave, creating, wanted, races>>

FirePoll(c) ==
  /\ c \in polls /\ Send("poll", {c}, {})
  /\ polls' = polls \ {c}
  /\ UNCHANGED <<renderVars, edits, screen, autosave, creating, history>>

-------------------------------------------------------------------------------
(* Requests at the server                                                    *)

\* An answer whose row has changed since.
Changed(c) == c \in DOMAIN row \cap DOMAIN row' /\ row'[c] # row[c]
Aged(r) == [r EXCEPT !.stale = @ \/ (r.at = "answered" /\ \E c \in r.cut : Changed(c))]

\* The request is answered with the row as it then is.
Reply(i, c) ==
  flight' = [j \in 1..Len(flight) |->
    IF j = i THEN [flight[i] EXCEPT !.at = "answered", !.update = {},
                                    !.answer = IF c \in DOMAIN row' THEN {View(row'[c])} ELSE {},
                                    !.cut = {c}]
    ELSE Aged(flight[j])]

\* The request goes on, with or without something to commit.
Goes(i, at, u) ==
  flight' = [j \in 1..Len(flight) |->
    IF j = i THEN [flight[i] EXCEPT !.at = at, !.update = u] ELSE Aged(flight[j])]

Unhandled(i) == flight[i].at \in {"sent", "read", "queued"}

Older(i) == \E j \in 1..(i - 1) : /\ flight[j].kind \in {"save", "flush"}
                                  /\ Unhandled(j) /\ flight[j].cut = flight[i].cut

\* The status written is of a cut that a worker has claimed since the row was read.
Torn(c, u) == IF u.status # {} /\ row[c].status = "rendering" THEN {"torn"} ELSE {}

\* The row of the path's cut is read, and what to write is decided.
ReadCut(i) ==
  /\ flight[i].at = "sent" /\ UNCHANGED <<renderVars, wanted>>
  /\ \E c \in flight[i].cut :
       /\ Exists(c)
       /\ \/ \E m \in flight[i].manifest :
               /\ flight[i].kind \in {"save", "flush"}
               /\ Goes(i, "read", {UpdateCut(row[c], m)})
               /\ races' = races \cup (IF Older(i) THEN {"crossed"} ELSE {})
          \/ /\ flight[i].kind = "render" /\ UNCHANGED races
             /\ IF NothingToRender(row[c]) THEN Reply(i, c)
                ELSE Goes(i, "read", {RenderCut(row[c])})

\* What was decided is written.  An export that is queued is still to be dispatched.
CommitCut(i) ==
  /\ flight[i].at = "read" /\ UNCHANGED wanted
  /\ \E c \in flight[i].cut, u \in flight[i].update :
       /\ Commit(c, u)
       /\ races' = races \cup Torn(c, u)
       /\ IF flight[i].kind = "render" /\ u.status # {"ready"}
          THEN Goes(i, "queued", {}) ELSE Reply(i, c)

\* The row is read again for the answer.
DispatchCut(i) ==
  /\ flight[i].at = "queued" /\ UNCHANGED <<wanted, races>>
  /\ \E c \in flight[i].cut :
       /\ DispatchRender(c)
       /\ IF Exists(c) THEN Reply(i, c) ELSE Goes(i, "failed", {})

CreateCutRow(i) ==
  /\ flight[i].at = "sent" /\ flight[i].kind = "create" /\ UNCHANGED races
  /\ \E c \in Cut \ DOMAIN wanted, m \in flight[i].manifest :
       /\ CreateCut(c, m) /\ Reply(i, c)
       /\ wanted' = [d \in DOMAIN wanted \cup {c} |-> IF d = c THEN m ELSE wanted[d]]

Handler(kind, c) ==
  CASE kind = "delete" -> DeleteCut(c)
    [] kind = "share" -> ShareCut(c)
    [] kind = "revoke" -> RevokeShare(c)
    [] kind = "upload" -> UNCHANGED renderVars
    [] OTHER -> Exists(c) /\ UNCHANGED renderVars

\* A handler that writes nothing it has read.
HandlePlain(i) ==
  /\ flight[i].at = "sent" /\ UNCHANGED <<wanted, races>>
  /\ flight[i].kind \notin {"save", "flush", "create", "render"}
  /\ \E c \in flight[i].cut : Handler(flight[i].kind, c) /\ Reply(i, c)

Handle(i) ==
  /\ ReadCut(i) \/ CommitCut(i) \/ DispatchCut(i) \/ CreateCutRow(i) \/ HandlePlain(i)
  /\ UNCHANGED <<list, screen, autosave, creating, changes, clicks>>

\* The cut is gone (or, for a new one, the limit is reached), or the network, the database or the
\* broker fails; what was committed stays.
HandleFails(i) ==
  /\ Unhandled(i)
  /\ \/ /\ flight[i].kind # "upload" /\ flight[i].at # "queued"
        /\ \E c \in flight[i].cut : ~Exists(c)
        /\ UNCHANGED <<renderVars, races>>
     \/ /\ flight[i].kind = "create" /\ DOMAIN wanted = Cut
        /\ UNCHANGED <<renderVars, races>>
     \/ /\ Fault /\ races' = races \cup {"refused"}
        /\ UNCHANGED <<row, queue, pool>>
  /\ flight' = [flight EXCEPT ![i].at = "failed", ![i].update = {}]
  /\ UNCHANGED <<list, screen, autosave, creating, wanted, changes, clicks>>

-------------------------------------------------------------------------------
(* Answers                                                                   *)

Has(i, kinds) == flight[i].at = "answered" /\ flight[i].kind \in kinds
Behind(i) == IF flight[i].stale THEN {"overtaken"} ELSE {}

\* Mutant: the answer to a save is dropped, the manifest in state being authoritative.
SavedUnmerged(i) ==
  /\ Has(i, {"save", "flush", "render", "cut"})
  /\ \E c \in flight[i].cut, v \in flight[i].answer :
       IF flight[i].kind = "save" THEN UNCHANGED list ELSE MergeEdit(c, v)
  /\ saving' = IF flight[i].kind = "save" THEN FALSE ELSE saving
  /\ races' = races \cup Behind(i)
  /\ flight' = Without(i)
  /\ UNCHANGED <<renderVars, screen, timer, flushable, creating, wanted, changes, clicks>>

\* An answered save ends "saving", whether or not a later change is still to be sent.
Saved(i) ==
  /\ Has(i, {"save", "flush", "render", "cut"})
  /\ \E c \in flight[i].cut, v \in flight[i].answer : MergeEdit(c, v)
  /\ saving' = IF flight[i].kind = "save" THEN FALSE ELSE saving
  /\ races' = races \cup Behind(i)
  /\ flight' = Without(i)
  /\ UNCHANGED <<renderVars, screen, timer, flushable, creating, wanted, changes, clicks>>

Created(i) ==
  /\ Has(i, {"create"})
  /\ \E c \in flight[i].cut, v \in flight[i].answer :
       /\ edits' = Folded(c, v)
       /\ Show(c, edits')
       /\ polls' = Effect(edits', {c}, polls)
  /\ creating' = FALSE
  /\ flight' = Without(i)
  /\ UNCHANGED <<renderVars, autosave, history>>

\* The cut was open when it was deleted; another one is opened, even if the listener has.
Removed(i) ==
  /\ Has(i, {"delete"})
  /\ \E c \in flight[i].cut :
       LET remaining == [d \in DOMAIN edits \ {c} |-> edits[d]]
       IN /\ edits' = remaining
          /\ \/ /\ DOMAIN remaining = {}
                /\ selected' = {} /\ manifest' = {} /\ polls' = {}
                /\ flight' = Unheard(Without(i))
                /\ UNCHANGED races
             \/ \E d \in DOMAIN remaining :
                  /\ Show(d, remaining)
                  /\ polls' = Effect(remaining, {d}, polls)
                  /\ flight' = Without(i)
                  /\ races' = races \cup Reverted(d, remaining[d].manifest)
  /\ UNCHANGED <<renderVars, autosave, creating, wanted, changes, clicks>>

\* Mutant: a queued cut is not polled again.
PolledRendering(i) ==
  /\ Has(i, {"poll"})
  /\ \E c \in flight[i].cut, v \in flight[i].answer :
       /\ edits' = Folded(c, v)
       /\ polls' = LET ps == Effect(edits', selected, polls)
                   IN IF v.status = "rendering" THEN ps \cup {c} ELSE ps
  /\ races' = races \cup Behind(i)
  /\ flight' = Without(i)
  /\ UNCHANGED <<renderVars, screen, autosave, creating, wanted, changes, clicks>>

\* Polled again until it settles, also when another cut has been opened meanwhile.
Polled(i) ==
  /\ Has(i, {"poll"})
  /\ \E c \in flight[i].cut, v \in flight[i].answer :
       /\ edits' = Folded(c, v)
       /\ polls' = LET ps == Effect(edits', selected, polls)
                   IN IF v.status \in {"queued", "rendering"} THEN ps \cup {c} ELSE ps
  /\ races' = races \cup Behind(i)
  /\ flight' = Without(i)
  /\ UNCHANGED <<renderVars, screen, autosave, creating, wanted, changes, clicks>>

\* After a share or a revoke the cut is read again.
Shared(i) ==
  /\ Has(i, {"share", "revoke"})
  /\ flight' = Append(Without(i), Sent("cut", flight[i].cut, {}))
  /\ UNCHANGED <<renderVars, list, screen, autosave, creating, history>>

\* The uploaded track is put into the manifest the upload began with, on the screen as it is.
Uploaded(i) ==
  /\ Has(i, {"upload"})
  /\ \E c \in flight[i].cut, m \in flight[i].manifest :
       /\ manifest' = {m}
       /\ wanted' = [wanted EXCEPT ![c].sound = m.sound]
       /\ Save(c, m)
       /\ races' = races \cup Unsaved(c)
                         \cup (IF selected = {c} /\ m = wanted'[c] THEN {} ELSE {"reverted"})
  /\ flight' = Without(i)
  /\ UNCHANGED <<renderVars, list, selected, creating, changes, clicks>>

Failed(i) ==
  /\ flight[i].at = "failed"
  /\ saving' = IF flight[i].kind = "save" THEN FALSE ELSE saving
  /\ creating' = IF flight[i].kind = "create" THEN FALSE ELSE creating
  /\ flight' = Without(i)
  /\ UNCHANGED <<renderVars, list, screen, timer, flushable, history>>

-------------------------------------------------------------------------------
\* A cut that is claimed for a manifest it no longer has.
ClaimTorn(t) ==
  t.at = "claiming" /\ Exists(t.cut) /\ row'[t.cut].status = "rendering"
    /\ row[t.cut].manifest # t.manifest

\* What happens behind the tab's back.
Elsewhere ==
  /\ Pool \/ \E c \in Cut : ShareExpires(c)
  /\ flight' = [j \in 1..Len(flight) |-> Aged(flight[j])]
  /\ races' = races \cup (IF \E t \in pool : ClaimTorn(t) THEN {"torn"} ELSE {})
  /\ UNCHANGED <<list, screen, autosave, creating, wanted, changes, clicks>>

Answer(i) ==
  \/ Saved(i) \/ Created(i) \/ Removed(i) \/ Polled(i) \/ Shared(i)
  \/ Uploaded(i) \/ Failed(i)

Listener ==
  \/ ChangeLook \/ ChangeSound
  \/ CreateCutClick \/ RemoveCut \/ \E c \in Cut : SelectCut(c)
  \/ ExportClick \/ ShareClick \/ UploadClick

Flight(i) == i <= Len(flight) /\ (Handle(i) \/ HandleFails(i) \/ Answer(i))

Next ==
  \/ Listener \/ FireSave \/ Elsewhere
  \/ \E c \in Cut : FirePoll(c)
  \/ \E i \in 1..Len(flight) : Flight(i)

EditorSpec == Init /\ [][Next]_vars

\* Requests are handled and answered, timeouts fire, and the pool goes on; nobody has to click.
EditorFairness ==
  /\ WF_vars(Flight(1)) /\ SF_vars(FireSave)
  /\ \A c \in Cut : SF_vars(FirePoll(c))
  /\ WF_vars(Elsewhere /\ Pool)

FairEditorSpec == EditorSpec /\ EditorFairness

-------------------------------------------------------------------------------
(* Properties                                                                *)

\* Once nothing is pending, "Exported" is said of what is on screen: the bytes that can be
\* downloaded or shared were made from that manifest, unless a race was lost ("torn" among them:
\* a save that reads "queued", and says "ready" over the claim of a worker that is encoding what
\* the listener has left).
Quiet == timer = {} /\ flight = <<>> /\ races = {}
ExportedAsShown ==
  Quiet => \A c \in selected \cap DOMAIN row :
    edits[c].current /\ ~Working(edits, c) => row[c].asset = manifest

\* Every move of a control ends up in its own cut's row, across the debounce, the flush of a cut
\* that is left and answers in any order, unless a request failed or one of the races that lose a
\* save was lost.
EventuallySaved ==
  <>[](races \cap {"refused", "crossed", "unsaved", "reverted"} = {} =>
         \A c \in DOMAIN row : row[c].manifest = wanted[c])

\* The panel of the open cut does not say "exporting" for ever, whatever a save and a claim that
\* cross leave in the row: unless a request failed (a queued cut may then have no message), or an
\* older answer came last.
Exporting == \E c \in selected : Working(edits, c)
ExportFollowed == []<>(~Exporting \/ races \cap {"refused", "overtaken"} # {})

\* "True while there are unsaved manifest changes, so Export can wait for the save rather than
\* encoding the previous version of the cut" (EditorExport.tsx).
ExportWaits ==
  \A c \in selected : ExportEnabled(c) => ~\E t \in timer : t.cut = c
===============================================================================
