---------------------------- MODULE RuntimeSettings ----------------------------
(***************************************************************************)
(* The runtime settings: the forms of the admin console, the API that      *)
(* keeps them, and the worker that reads them for every call it makes.     *)
(*                                                                         *)
(* A setting is saved as a whole.  A form sends the draft it was filled    *)
(* with when the settings were loaded, and what was changed in it since;   *)
(* the advanced editor sends its text, which starts again from the listed  *)
(* setting whenever the list changes.  Another admin saves elsewhere.      *)
(***************************************************************************)
EXTENDS Naturals, FiniteSets, SequencesExt

CONSTANTS
  Keys,        (* the settings                                            *)
  FormKeys,    (* those that have a form                                  *)
  Models,      (* the one that routes the models                          *)
  Entries,     (* what a setting may contain                              *)
  MaxClicks,   (* bound: clicks and edits                                 *)
  MaxEvents    (* bound: saves made elsewhere, requests that fail         *)

\* Every form is of a setting, and so is what the advanced editor shows first.
ASSUME SettingsAssumption == FormKeys \subseteq Keys /\ Models \in Keys

VARIABLES
  stored,      \* the settings
  puts,        \* the saves that are sent or answered
  loads,       \* the lists that are sent or answered
  rows,        \* the settings as they are listed
  draft,       \* the forms
  advanced,    \* the advanced editor: `advancedKey`, `advancedJson`
  saving,      \* `savingKey` (a set of one or none)
  loading,
  worker,      \* a job of the worker and what its last call has read (a set of one or none)
  clicks, events,
  known,       \* history: the settings that were ever answered
  crossed,     \* history: those saved by another admin, while another request was under way,
               \* or by a request whose answer was lost
  edited       \* history: the forms that were changed since they were filled

console == <<rows, draft, advanced, saving, loading>>
history == <<known, crossed, edited>>
settingsVars == <<stored, puts, loads, console, worker, clicks, events, history>>

Value == SUBSET Entries
Settings == [Keys -> Value]
Maybe(S) == {{}} \cup {{x} : x \in S}

SettingsTypeOK ==
  /\ {stored, rows} \subseteq Settings
  /\ draft \in [FormKeys -> Value]
  /\ advanced \in [key: Keys, json: Value]
  /\ saving \in Maybe(Keys) /\ loading \in BOOLEAN
  /\ \A p \in puts : p.key \in Keys /\ p.value \in Value /\ p.at \in {"sent", "saved", "failed"}
  /\ \A l \in loads : l.rows \in Maybe(Settings)
  /\ worker \in Maybe([began: Settings, read: Settings])
  /\ known \subseteq Keys /\ crossed \subseteq Keys /\ edited \subseteq FormKeys

Event == events < MaxEvents /\ events' = events + 1
Click == clicks < MaxClicks /\ clicks' = clicks + 1

-------------------------------------------------------------------------------
(* The API                                                                   *)

Upsert(k, value) == stored' = [stored EXCEPT ![k] = value]

UpsertSetting(p) ==
  /\ p \in puts /\ p.at = "sent"
  /\ \/ /\ Upsert(p.key, p.value) /\ UNCHANGED <<events, crossed>>
        /\ puts' = (puts \ {p}) \cup {[p EXCEPT !.at = "saved"]}
     \/ /\ Event
        /\ \/ UNCHANGED <<stored, crossed>>
           \/ Upsert(p.key, p.value) /\ crossed' = crossed \cup {p.key}
        /\ puts' = (puts \ {p}) \cup {[p EXCEPT !.at = "failed"]}
  /\ UNCHANGED <<loads, console, worker, clicks, known, edited>>

SaveElsewhere(k, value) ==
  /\ Event /\ value # stored[k]
  /\ Upsert(k, value)
  /\ crossed' = crossed \cup {k}
  /\ UNCHANGED <<puts, loads, console, worker, clicks, known, edited>>

ListSettings(l) ==
  /\ l \in loads /\ l.rows = {}
  /\ loads' = (loads \ {l}) \cup {[l EXCEPT !.rows = {stored}]}
  /\ UNCHANGED <<stored, puts, console, worker, clicks, events, history>>

-------------------------------------------------------------------------------
(* The worker                                                                *)

StartJob ==
  /\ worker = {}
  /\ worker' = {[began |-> stored, read |-> stored]}
  /\ UNCHANGED <<stored, puts, loads, console, clicks, events, history>>

\* Every call resolves its model anew.
ResolveModel ==
  /\ worker' = {[j EXCEPT !.read = stored] : j \in worker}
  /\ UNCHANGED <<stored, puts, loads, console, clicks, events, history>>

-------------------------------------------------------------------------------
(* The console                                                               *)

Server == UNCHANGED <<stored, worker>>

\* The advanced editor starts again from the list.
ShowRows(list) ==
  /\ rows' = list
  /\ advanced' = [advanced EXCEPT !.json = list[advanced.key]]

HydrateDrafts(list) == draft' = [k \in FormKeys |-> list[k]] /\ edited' = {}

\* A list that is asked for before a save may be answered after it.
Load ==
  /\ ~loading /\ Click
  /\ loading' = TRUE
  /\ loads' = loads \cup {[n |-> clicks, rows |-> {}]}
  /\ crossed' = crossed \cup {p.key : p \in puts}
  /\ UNCHANGED <<puts, rows, draft, advanced, saving, events, known, edited>> /\ Server

Loaded(l) ==
  /\ l \in loads
  /\ \/ /\ \E list \in l.rows : ShowRows(list) /\ HydrateDrafts(list)
        /\ known' = Keys /\ UNCHANGED events
     \/ l.rows = {} /\ Event /\ UNCHANGED <<rows, advanced, draft, known, edited>>
  /\ loads' = loads \ {l} /\ loading' = FALSE
  /\ UNCHANGED <<puts, saving, clicks, crossed>> /\ Server

\* Overlapping with another save of the setting, or with a list that is loaded.
Crossing(k) == {x \in {k} : loads # {} \/ \E p \in puts : p.key = k}

SaveSetting(k, value) ==
  /\ saving' = {k}
  /\ puts' = puts \cup {[n |-> clicks, key |-> k, value |-> value, at |-> "sent"]}
  /\ crossed' = crossed \cup Crossing(k)
  /\ UNCHANGED <<loads, rows, draft, advanced, loading, events, known, edited>>

ToggleForm(k, e) ==
  /\ k \in FormKeys /\ Click
  /\ draft' = [draft EXCEPT ![k] = SymDiff(@, {e})]
  /\ edited' = edited \cup {k}
  /\ UNCHANGED <<puts, loads, rows, advanced, saving, loading, events, known, crossed>> /\ Server

SaveForm(k) ==
  /\ k \in FormKeys /\ k \notin saving /\ Click
  /\ SaveSetting(k, draft[k]) /\ Server

SetAdvancedKey(k) ==
  /\ k # advanced.key /\ Click
  /\ advanced' = [key |-> k, json |-> rows[k]]
  /\ UNCHANGED <<puts, loads, rows, draft, saving, loading, events, history>> /\ Server

ToggleJson(e) ==
  /\ Click
  /\ advanced' = [advanced EXCEPT !.json = SymDiff(@, {e})]
  /\ UNCHANGED <<puts, loads, rows, draft, saving, loading, events, history>> /\ Server

\* The forms do not hear of it.
SaveJson ==
  /\ advanced.key \notin saving /\ Click
  /\ SaveSetting(advanced.key, advanced.json) /\ Server

\* Mutant: the list is left as it is.
SavedUnlisted(p) ==
  /\ p \in puts /\ p.at = "saved"
  /\ puts' = puts \ {p} /\ saving' = {} /\ known' = known \cup {p.key}
  /\ UNCHANGED <<rows, advanced, loads, draft, loading, clicks, events, crossed, edited>> /\ Server

Saved(p) ==
  /\ p \in puts /\ p.at = "saved"
  /\ ShowRows([rows EXCEPT ![p.key] = p.value])
  /\ puts' = puts \ {p} /\ saving' = {} /\ known' = known \cup {p.key}
  /\ UNCHANGED <<loads, draft, loading, clicks, events, crossed, edited>> /\ Server

SaveFailed(p) ==
  /\ p \in puts /\ p.at = "failed"
  /\ puts' = puts \ {p} /\ saving' = {}
  /\ UNCHANGED <<loads, rows, draft, advanced, loading, clicks, events, history>> /\ Server

-------------------------------------------------------------------------------
SettingsInit ==
  /\ stored \in Settings
  /\ puts = {} /\ loads = {[n |-> 0, rows |-> {}]}
  /\ rows = [k \in Keys |-> {}] /\ draft = [k \in FormKeys |-> {}]
  /\ advanced = [key |-> Models, json |-> {}]
  /\ saving = {} /\ loading = TRUE
  /\ worker = {} /\ clicks = 0 /\ events = 0
  /\ known = {} /\ crossed = {} /\ edited = {}

SettingsNext ==
  \/ \E p \in puts : UpsertSetting(p) \/ Saved(p) \/ SaveFailed(p)
  \/ \E k \in Keys, value \in Value : SaveElsewhere(k, value)
  \/ \E l \in loads : ListSettings(l) \/ Loaded(l)
  \/ \E k \in Keys : SaveForm(k) \/ SetAdvancedKey(k)
  \/ \E k \in Keys, e \in Entries : ToggleForm(k, e)
  \/ \E e \in Entries : ToggleJson(e)
  \/ StartJob \/ ResolveModel \/ Load \/ SaveJson

SettingsSpec == SettingsInit /\ [][SettingsNext]_settingsVars

-------------------------------------------------------------------------------
(* Properties                                                                *)

Quiet == puts = {} /\ loads = {}

\* What is listed as saved is what the workers read: saves that fail, forms and text that were
\* changed and not sent, and lists that fail do not come between them.
RowsTold == Quiet => \A k \in known \ crossed : rows[k] = stored[k]

\* A form that was not touched shows the setting: to save it changes nothing.
DraftTold == Quiet => \A k \in (FormKeys \cap known) \ edited : draft[k] = rows[k]

\* "Existing jobs keep the settings they started with." (SettingsTab.tsx)
JobKeepsSettings == \A j \in worker : j.read = j.began
===============================================================================
