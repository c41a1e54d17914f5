------------------------------ MODULE Pages_proofs ------------------------------
(***************************************************************************)
(* Proofs about five of the six pages of MCPages, for any number of        *)
(* settings, files, versions, accounts, stories, clicks and faults.        *)
(*                                                                         *)
(* The properties speak of a page that has nothing under way, or of what   *)
(* has been done already, and none survives a step by itself.  Each        *)
(* invariant follows what is under way instead: a setting through its      *)
(* save, a file through its upload, a click to the file it hands over, a   *)
(* change of a role from its check to its entry, and a decision from the   *)
(* row it is written to until that row is shown.                           *)
(*                                                                         *)
(* The settings and the dropzone are proved in their own specifications,   *)
(* which the pages extend; the other three as part of PagesSpec, where a   *)
(* page that is not open stays as it starts.                               *)
(***************************************************************************)
EXTENDS MCPages, FiniteSetTheorems, TLAPS

-------------------------------------------------------------------------------
(* The settings: as long as nobody else touched it, a setting has one save   *)
(* under way at most and no list beside it; a list that is answered holds it *)
(* as it is stored; and once its save is answered it is stored as it was     *)
(* sent, until then as it is listed.                                         *)

Put == [n: Nat, key: Keys, value: Value, at: {"sent", "saved", "failed"}]
List == [n: Nat, rows: Maybe(Settings)]

\* The types, with the records whole.
SettingsShape ==
  /\ stored \in Settings /\ rows \in Settings
  /\ draft \in [FormKeys -> Value]
  /\ advanced \in [key: Keys, json: Value]
  /\ puts \subseteq Put /\ loads \subseteq List
  /\ clicks \in Nat

\* A save has the setting to itself.
Alone(k) ==
  /\ loads = {} \/ \A p \in puts : p.key # k
  /\ \A p, q \in puts : p.key = k /\ q.key = k => p = q

\* A list that is answered, and a save that is, tell what is stored.
Answers(k) ==
  /\ \A l \in loads : \A list \in l.rows : list[k] = stored[k]
  /\ \A p \in puts : p.key = k /\ p.at = "saved" => p.value = stored[k]

\* What is listed is stored, unless the answer of a save is still to come.
Listed(k) ==
  k \in known => \/ rows[k] = stored[k]
                 \/ \E p \in puts : p.key = k /\ p.at = "saved"

Followed(k) == Alone(k) /\ Answers(k) /\ Listed(k)
SettingsInv == SettingsShape /\ known \subseteq Keys /\ \A k \in Keys \ crossed : Followed(k)

-------------------------------------------------------------------------------
LEMMA SettingsInvInit == SettingsInit => SettingsInv
<1> SUFFICES ASSUME SettingsInit PROVE SettingsInv
  OBVIOUS
<1>1. SettingsShape
  BY SettingsAssumption DEF SettingsInit, SettingsShape, Settings, Value, List, Maybe
<1>2. \A k \in Keys : Followed(k)
  BY DEF SettingsInit, Followed, Alone, Answers, Listed
<1> QED BY <1>1, <1>2 DEF SettingsInv, SettingsInit

\* A save that reaches the API is stored, or fails, or is stored and its answer is lost.
LEMMA UpsertKeeps ==
  ASSUME SettingsInv, NEW p \in puts, UpsertSetting(p)
  PROVE  SettingsInv'
<1>1. p \in Put /\ p.at = "sent"
  BY DEF SettingsInv, SettingsShape, UpsertSetting
<1>2. UNCHANGED <<loads, rows, draft, advanced, clicks, known>>
  BY DEF UpsertSetting, console
<1>3. stored' = stored \/ stored' = [stored EXCEPT ![p.key] = p.value]
  BY DEF UpsertSetting, Upsert
<1>4. PICK at \in {"saved", "failed"} :
        /\ puts' = (puts \ {p}) \cup {[p EXCEPT !.at = at]}
        /\ at = "saved" => stored' = [stored EXCEPT ![p.key] = p.value]
        /\ at = "failed" => stored' = stored \/ p.key \in crossed'
        /\ crossed \subseteq crossed'
  BY DEF UpsertSetting, Upsert
<1> DEFINE q == [p EXCEPT !.at = at]
<1>5. q \in Put /\ q.key = p.key /\ q.value = p.value /\ q.at = at
  BY <1>1 DEF Put
<1>6. puts' = (puts \ {p}) \cup {q}
  BY <1>4
<1> HIDE DEF q
<1>7. SettingsShape'
  BY <1>1, <1>2, <1>3, <1>5, <1>6 DEF SettingsInv, SettingsShape, Put, Settings
<1>8. ASSUME NEW k \in Keys \ crossed' PROVE Followed(k)'
  <2>1. Followed(k)
    BY <1>4 DEF SettingsInv
  <2>2. Alone(k)'
    BY <1>2, <1>5, <1>6, <2>1 DEF Followed, Alone
  <2>3. CASE k # p.key
    <3>1. stored'[k] = stored[k]
      BY <1>3, <2>3 DEF SettingsInv, SettingsShape, Settings
    <3> QED BY <1>2, <1>5, <1>6, <2>1, <2>2, <2>3, <3>1 DEF Followed, Answers, Listed
  <2>4. CASE k = p.key /\ at = "saved"
    <3>1. stored'[k] = p.value /\ loads = {}
      BY <1>4, <2>1, <2>4 DEF SettingsInv, SettingsShape, Settings, Followed, Alone
    <3>2. \A x \in puts' : x.key = k => x = q
      BY <1>5, <1>6, <2>2, <2>4 DEF Alone
    <3> QED BY <1>2, <1>5, <1>6, <2>2, <2>4, <3>1, <3>2 DEF Followed, Answers, Listed
  <2>5. CASE k = p.key /\ at = "failed"
    <3>1. stored' = stored
      BY <1>4, <2>5
    <3>2. \A x \in puts : x.at = "saved" => x # p
      BY <1>1
    <3> QED BY <1>2, <1>5, <1>6, <2>1, <2>2, <2>5, <3>1, <3>2 DEF Followed, Answers, Listed
  <2> QED BY <1>4, <2>3, <2>4, <2>5
<1> QED BY <1>2, <1>7, <1>8 DEF SettingsInv

\* What another admin saves is crossed from then on.
LEMMA ElsewhereKeeps ==
  ASSUME SettingsInv, NEW k \in Keys, NEW value \in Value, SaveElsewhere(k, value)
  PROVE  SettingsInv'
<1>1. UNCHANGED <<puts, loads, rows, draft, advanced, clicks, known>>
  BY DEF SaveElsewhere, console
<1>2. stored' = [stored EXCEPT ![k] = value] /\ crossed' = crossed \cup {k}
  BY DEF SaveElsewhere, Upsert
<1>3. SettingsShape'
  BY <1>1, <1>2 DEF SettingsInv, SettingsShape, Settings
<1>4. ASSUME NEW i \in Keys \ crossed' PROVE Followed(i)'
  <2>1. Followed(i) /\ stored'[i] = stored[i]
    BY <1>2 DEF SettingsInv, SettingsShape, Settings
  <2> QED BY <1>1, <2>1 DEF Followed, Alone, Answers, Listed
<1> QED BY <1>1, <1>3, <1>4 DEF SettingsInv

\* A list is what is stored when it is answered.
LEMMA ListKeeps ==
  ASSUME SettingsInv, NEW l \in loads, ListSettings(l)
  PROVE  SettingsInv'
<1>1. UNCHANGED <<stored, puts, rows, draft, advanced, clicks, known, crossed>>
  BY DEF ListSettings, console, history
<1> DEFINE m == [l EXCEPT !.rows = {stored}]
<1>2. m \in List /\ m.rows = {stored}
  BY DEF SettingsInv, SettingsShape, List, Maybe
<1>3. loads' = (loads \ {l}) \cup {m}
  BY DEF ListSettings
<1> HIDE DEF m
<1>4. SettingsShape'
  BY <1>1, <1>2, <1>3 DEF SettingsInv, SettingsShape
<1>5. ASSUME NEW k \in Keys \ crossed' PROVE Followed(k)'
  <2>1. Followed(k)
    BY <1>1 DEF SettingsInv
  <2>2. Alone(k)'
    BY <1>1, <2>1 DEF Followed, Alone
  <2> QED BY <1>1, <1>2, <1>3, <2>1, <2>2 DEF Followed, Answers, Listed
<1> QED BY <1>1, <1>4, <1>5 DEF SettingsInv

\* What is saved while a list is asked for is crossed.
LEMMA LoadKeeps ==
  ASSUME SettingsInv, Load
  PROVE  SettingsInv'
<1>1. UNCHANGED <<stored, puts, rows, draft, advanced, known>>
  BY DEF Load, Server
<1>2. clicks \in Nat /\ clicks' \in Nat
  BY DEF SettingsInv, SettingsShape, Load, Click
<1> DEFINE m == [n |-> clicks, rows |-> {}]
<1>3. m \in List /\ m.rows = {}
  BY <1>2 DEF List, Maybe
<1>4. loads' = loads \cup {m} /\ crossed' = crossed \cup {p.key : p \in puts}
  BY DEF Load
<1> HIDE DEF m
<1>5. SettingsShape'
  BY <1>1, <1>2, <1>3, <1>4 DEF SettingsInv, SettingsShape
<1>6. ASSUME NEW k \in Keys \ crossed' PROVE Followed(k)'
  <2>1. Followed(k) /\ \A p \in puts : p.key # k
    BY <1>4 DEF SettingsInv
  <2> QED BY <1>1, <1>3, <1>4, <2>1 DEF Followed, Alone, Answers, Listed
<1> QED BY <1>1, <1>5, <1>6 DEF SettingsInv

\* The list that is shown is what is stored, but for what was crossed.
LEMMA LoadedKeeps ==
  ASSUME SettingsInv, NEW l \in loads, Loaded(l)
  PROVE  SettingsInv'
<1>1. UNCHANGED <<stored, puts, clicks, crossed>> /\ loads' = loads \ {l}
  BY DEF Loaded, Server
<1>2. l.rows \subseteq Settings
  BY DEF SettingsInv, SettingsShape, List, Maybe
<1>3. CASE UNCHANGED <<rows, draft, advanced, known>>
  <2>1. SettingsShape'
    BY <1>1, <1>3 DEF SettingsInv, SettingsShape
  <2> QED BY <1>1, <1>3, <2>1 DEF SettingsInv, Followed, Alone, Answers, Listed
<1>4. ASSUME NEW list \in l.rows, ShowRows(list), HydrateDrafts(list), known' = Keys
      PROVE  SettingsInv'
  <2>1. SettingsShape'
    BY <1>1, <1>2, <1>4, SettingsAssumption
    DEF SettingsInv, SettingsShape, ShowRows, HydrateDrafts, Settings
  <2>2. \A k \in Keys \ crossed : rows'[k] = stored'[k]
    BY <1>1, <1>4 DEF SettingsInv, ShowRows, Followed, Answers
  <2> QED BY <1>1, <1>4, <2>1, <2>2 DEF SettingsInv, Followed, Alone, Answers, Listed
<1> QED BY <1>3, <1>4 DEF Loaded

\* A save beside another one, or beside a list, is crossed.
LEMMA SaveKeeps ==
  ASSUME SettingsInv, NEW k \in Keys, NEW value \in Value, Click, Server, SaveSetting(k, value)
  PROVE  SettingsInv'
<1>1. UNCHANGED <<stored, loads, rows, draft, advanced, known>>
  BY DEF SaveSetting, Server
<1>2. clicks \in Nat /\ clicks' \in Nat
  BY DEF SettingsInv, SettingsShape, Click
<1> DEFINE q == [n |-> clicks, key |-> k, value |-> value, at |-> "sent"]
<1>3. q \in Put /\ q.key = k /\ q.at = "sent"
  BY <1>2 DEF Put
<1>4. puts' = puts \cup {q} /\ crossed' = crossed \cup Crossing(k)
  BY DEF SaveSetting
<1> HIDE DEF q
<1>5. SettingsShape'
  BY <1>1, <1>2, <1>3, <1>4 DEF SettingsInv, SettingsShape
<1>6. ASSUME NEW i \in Keys \ crossed' PROVE Followed(i)'
  <2>1. Followed(i) /\ (i = k => loads = {} /\ \A p \in puts : p.key # k)
    BY <1>4 DEF SettingsInv, Crossing
  <2>2. Alone(i)'
    BY <1>1, <1>3, <1>4, <2>1 DEF Followed, Alone
  <2> QED BY <1>1, <1>3, <1>4, <2>1, <2>2 DEF Followed, Answers, Listed
<1> QED BY <1>1, <1>5, <1>6 DEF SettingsInv

\* The save that is answered is what is stored, and it is listed.
LEMMA SavedKeeps ==
  ASSUME SettingsInv, NEW p \in puts, Saved(p)
  PROVE  SettingsInv'
<1>1. UNCHANGED <<stored, loads, draft, clicks, crossed>> /\ puts' = puts \ {p} /\ p.at = "saved"
  BY DEF Saved, Server
<1>2. p \in Put
  BY DEF SettingsInv, SettingsShape
<1>3. rows' = [rows EXCEPT ![p.key] = p.value] /\ known' = known \cup {p.key}
  BY DEF Saved, ShowRows
<1>4. rows' \in Settings
  BY <1>2, <1>3 DEF SettingsInv, SettingsShape, Put, Settings
<1>5. SettingsShape'
  BY <1>1, <1>3, <1>4 DEF SettingsInv, SettingsShape, Saved, ShowRows, Settings
<1>6. ASSUME NEW k \in Keys \ crossed' PROVE Followed(k)'
  <2>1. Followed(k) /\ rows'[k] = IF k = p.key THEN p.value ELSE rows[k]
    BY <1>1, <1>3 DEF SettingsInv, SettingsShape, Settings
  <2>2. Alone(k)' /\ Answers(k)'
    BY <1>1, <2>1 DEF Followed, Alone, Answers
  <2>3. Listed(k)'
    BY <1>1, <1>3, <2>1 DEF Followed, Answers, Listed
  <2> QED BY <2>2, <2>3 DEF Followed
<1> QED BY <1>1, <1>2, <1>3, <1>5, <1>6 DEF SettingsInv, Put

LEMMA FailedKeeps ==
  ASSUME SettingsInv, NEW p \in puts, SaveFailed(p)
  PROVE  SettingsInv'
<1>1. /\ UNCHANGED <<stored, loads, rows, draft, advanced, clicks, known, crossed>>
      /\ puts' = puts \ {p} /\ p.at = "failed"
  BY DEF SaveFailed, Server, history
<1>2. SettingsShape'
  BY <1>1 DEF SettingsInv, SettingsShape
<1>3. ASSUME NEW k \in Keys \ crossed' PROVE Followed(k)'
  BY <1>1 DEF SettingsInv, Followed, Alone, Answers, Listed
<1> QED BY <1>1, <1>2, <1>3 DEF SettingsInv

\* Clicks that send nothing change a draft, the editor or its key.
LEMMA EditKeeps ==
  ASSUME SettingsInv, UNCHANGED <<stored, puts, loads, rows, known, crossed>>, Click,
         draft' \in [FormKeys -> Value], advanced' \in [key: Keys, json: Value]
  PROVE  SettingsInv'
<1>1. SettingsShape'
  BY DEF SettingsInv, SettingsShape, Click
<1> QED BY <1>1 DEF SettingsInv, Followed, Alone, Answers, Listed

LEMMA SettingsInvNext == SettingsInv /\ [SettingsNext]_settingsVars => SettingsInv'
<1> SUFFICES ASSUME SettingsInv, [SettingsNext]_settingsVars PROVE SettingsInv'
  OBVIOUS
<1>1. ASSUME NEW k \in Keys, SaveForm(k) PROVE SettingsInv'
  BY <1>1, SaveKeeps DEF SaveForm, SettingsInv, SettingsShape
<1>2. CASE SaveJson
  BY <1>2, SaveKeeps DEF SaveJson, SettingsInv, SettingsShape
<1>3. ASSUME NEW k \in Keys, NEW e \in Entries, ToggleForm(k, e) PROVE SettingsInv'
  <2>1. draft' \in [FormKeys -> Value]
    BY <1>3 DEF SettingsInv, SettingsShape, ToggleForm, Value, SymDiff
  <2> QED BY <1>3, <2>1, EditKeeps DEF ToggleForm, Server, SettingsInv, SettingsShape
<1>4. ASSUME NEW k \in Keys, SetAdvancedKey(k) PROVE SettingsInv'
  <2>1. advanced' \in [key: Keys, json: Value]
    BY <1>4 DEF SettingsInv, SettingsShape, SetAdvancedKey, Settings
  <2> QED BY <1>4, <2>1, EditKeeps DEF SetAdvancedKey, Server, history, SettingsInv, SettingsShape
<1>5. ASSUME NEW e \in Entries, ToggleJson(e) PROVE SettingsInv'
  <2>1. advanced' \in [key: Keys, json: Value]
    BY <1>5 DEF SettingsInv, SettingsShape, ToggleJson, Value, SymDiff
  <2> QED BY <1>5, <2>1, EditKeeps DEF ToggleJson, Server, history, SettingsInv, SettingsShape
<1>6. CASE StartJob \/ ResolveModel \/ UNCHANGED settingsVars
  <2>1. UNCHANGED <<stored, puts, loads, rows, draft, advanced, clicks, known, crossed>>
    BY <1>6 DEF StartJob, ResolveModel, settingsVars, console, history
  <2> QED BY <2>1 DEF SettingsInv, SettingsShape, Followed, Alone, Answers, Listed
<1> QED
  BY <1>1, <1>2, <1>3, <1>4, <1>5, <1>6, UpsertKeeps, SavedKeeps, FailedKeeps, ElsewhereKeeps,
     ListKeeps, LoadedKeeps, LoadKeeps
  DEF SettingsNext

\* While nothing is under way, what the console lists of a setting is what the workers read.
THEOREM RowsRight == SettingsSpec => []RowsTold
<1>1. SettingsInv => RowsTold
  BY DEF SettingsInv, Followed, Listed, RowsTold, Quiet
<1> QED BY <1>1, SettingsInvInit, SettingsInvNext, PTL DEF SettingsSpec

-------------------------------------------------------------------------------
(* The dropzone: which request may be in flight in which state of it.  No    *)
(* row is ready without a text, which would end the polling unheard.         *)

\* A file is sent while nothing is shown.
Uploading == upload => job = {} /\ \E c \in chains : chains = {c} /\ c.at = "upload"

\* The file that is followed is the one that is shown, and has not come to an end.
Following ==
  ~upload => \A c \in chains :
    /\ c.at # "upload" /\ chains = {c}
    /\ \E j \in job : job = {j} /\ j.id = c.id /\ j.status \notin Settled

\* An error ends the wait; without one, so does only the end of the file.
GivenUp ==
  /\ error => chains = {}
  /\ chains = {} => ~upload /\ (error \/ \A j \in job : j.status \in Settled)

\* A finished row has its text, and so has the answer that tells of it.
TextReady ==
  /\ \A i \in Id : uploads[i].status = "ready" => uploads[i].text
  /\ \A c \in chains : c.status = "ready" => c.text

\* What the steps need of the types of TypeOK.
IngestShape ==
  /\ uploads \in [Id -> Row] /\ chains \subseteq Chain /\ files \in Nat
  /\ upload \in BOOLEAN /\ error \in BOOLEAN

IngestInv == IngestShape /\ TextReady /\ Uploading /\ Following /\ GivenUp

-------------------------------------------------------------------------------
LEMMA IngestInvInit == Init => IngestInv
<1> SUFFICES ASSUME Init PROVE IngestInv
  OBVIOUS
<1>1. Absent \in Row /\ Absent.status # "ready"
  BY IngestAssumption DEF Absent, Row, Status
<1>2. IngestShape
  BY <1>1 DEF Init, IngestShape
<1>3. TextReady
  BY <1>1 DEF Init, TextReady
<1> QED BY <1>2, <1>3 DEF Init, IngestInv, Uploading, Following, GivenUp

\* A row that is written leaves the dropzone and the form alone.
LEMMA RowKeeps ==
  ASSUME IngestInv, NEW i \in Id, NEW r \in Row, SetRow(i, r), r.status = "ready" => r.text
  PROVE  IngestInv'
<1>1. UNCHANGED <<job, upload, error, chains, text, form, files>>
  BY DEF SetRow, dropzone
<1>2. uploads' \in [Id -> Row] /\ \A j \in Id : uploads'[j] = IF j = i THEN r ELSE uploads[j]
  BY DEF IngestInv, IngestShape, SetRow
<1>3. IngestShape'
  BY <1>1, <1>2 DEF IngestInv, IngestShape
<1>4. TextReady'
  BY <1>1, <1>2 DEF IngestInv, TextReady
<1> QED BY <1>1, <1>3, <1>4 DEF IngestInv, Uploading, Following, GivenUp

\* A worker makes no row ready without its text.
LEMMA ServerKeeps ==
  ASSUME IngestInv, NEW i \in Id, Extract(i) \/ Clean(i) \/ Ready(i) \/ Fail(i) \/ Die(i)
  PROVE  IngestInv'
<1> DEFINE u == uploads[i]
<1>1. u \in Row
  BY DEF IngestInv, IngestShape
<1>2. u.status = "ready" => u.text
  BY DEF IngestInv, TextReady
<1>3. CASE Extract(i) \/ Clean(i) \/ Ready(i)
  BY <1>1, <1>2, <1>3, RowKeeps DEF Extract, Clean, Ready, Row, Status
<1>4. CASE Fail(i)
  <2>1. CASE u.tries + 1 < MaxTries /\ SetRow(i, [u EXCEPT !.tries = @ + 1, !.at = "queue"])
    <3>1. u.tries + 1 \in 0..MaxTries
      BY <1>1, <2>1, IngestAssumption DEF Row
    <3>2. [u EXCEPT !.tries = @ + 1, !.at = "queue"] \in Row
      BY <1>1, <3>1 DEF Row
    <3> QED BY <1>1, <1>2, <2>1, <3>2, RowKeeps DEF Row
  <2>2. CASE SetRow(i, [u EXCEPT !.status = "failed", !.at = "nowhere"])
    BY <1>1, <1>2, <2>2, RowKeeps DEF Row, Status
  <2> QED BY <1>4, <2>1, <2>2 DEF Fail
<1>5. CASE Die(i)
  <2>1. PICK at \in {"queue", "nowhere"} : SetRow(i, [u EXCEPT !.at = at])
    BY <1>5 DEF Die
  <2> QED BY <1>1, <1>2, <2>1, RowKeeps DEF Row
<1> QED BY <1>3, <1>4, <1>5

LEMMA FormKeeps ==
  ASSUME IngestInv, Reset \/ Write \/ Submit \/ Created \/ Leave \/ Reported
  PROVE  IngestInv'
<1>1. IngestShape'
  BY IngestAssumption
     DEF IngestInv, IngestShape, Reset, Write, Submit, Created, Leave, Reported, Fault,
         dropzone, Typed
<1>2. CASE Reset
  <2>1. chains = {}
    BY <1>2 DEF IngestInv, Reset, Uploading, Following, GivenUp, Settled
  <2> QED BY <1>1, <1>2, <2>1 DEF IngestInv, Reset, TextReady, Uploading, Following, GivenUp
<1>3. CASE Leave
  BY <1>1, <1>3 DEF IngestInv, Leave, TextReady, Uploading, Following, GivenUp
<1>4. CASE Write \/ Submit \/ Created \/ Reported
  <2>1. UNCHANGED <<uploads, dropzone>>
    BY <1>4 DEF Write, Submit, Created, Reported
  <2> QED BY <1>1, <2>1 DEF IngestInv, TextReady, Uploading, Following, GivenUp, dropzone
<1> QED BY <1>2, <1>3, <1>4

\* A closed dropzone follows one file; an open one has none in flight, and takes another.
LEMMA SendKeeps ==
  ASSUME IngestInv, Send
  PROVE  IngestInv'
<1>1. chains = {}
  BY DEF IngestInv, Send, Busy, Following
<1>2. files + 1 \in Id
  BY IngestAssumption DEF IngestInv, IngestShape, Send, Id
<1> DEFINE sent == [id |-> files + 1, at |-> "upload", late |-> FALSE, status |-> "pending",
                    text |-> FALSE]
<1>3. chains' = {sent}
  BY <1>1 DEF Send
<1>4. sent \in Chain /\ sent.at = "upload" /\ sent.status # "ready"
  BY <1>2 DEF Chain, Status
<1>5. upload' /\ job' = {} /\ ~error' /\ files' \in Nat /\ uploads' = uploads
  BY <1>2 DEF Send, Id
<1> HIDE DEF sent
<1>6. Uploading' /\ Following' /\ GivenUp'
  BY <1>3, <1>4, <1>5 DEF Uploading, Following, GivenUp
<1>7. IngestShape'
  BY <1>3, <1>4, <1>5 DEF IngestInv, IngestShape, Send
<1>8. TextReady'
  BY <1>3, <1>4, <1>5 DEF IngestInv, TextReady
<1> QED BY <1>6, <1>7, <1>8 DEF IngestInv

\* The rows and the counters as a step of the dropzone leaves them.
Kept ==
  /\ uploads \in [Id -> Row] /\ files \in Nat /\ upload = FALSE /\ error \in BOOLEAN
  /\ \A i \in Id : uploads[i].status = "ready" => uploads[i].text

\* One request follows the file that is shown.
LEMMA OneFollows ==
  ASSUME Kept', error' = FALSE, NEW d \in Chain, chains' = {d}, d.at # "upload",
         d.status = "ready" => d.text,
         NEW j, job' = {j}, j.id = d.id, j.status \notin Settled
  PROVE  IngestInv'
BY DEF Kept, IngestInv, IngestShape, TextReady, Uploading, Following, GivenUp

\* Nothing is followed.
LEMMA NoneFollows ==
  ASSUME Kept', chains' = {}, error' \/ \A j \in job' : j.status \in Settled
  PROVE  IngestInv'
BY DEF Kept, IngestInv, IngestShape, TextReady, Uploading, Following, GivenUp

\* The one request in flight goes on as another one, or comes to an end.
LEMMA FollowKeeps ==
  ASSUME IngestInv, NEW c \in chains, Follow(c)
  PROVE  IngestInv'
<1>1. chains = {c} /\ (upload <=> c.at = "upload") /\ (upload => job = {})
  BY DEF IngestInv, Uploading, Following
<1>2. c \in Chain /\ error = FALSE
  BY DEF IngestInv, IngestShape, GivenUp
<1>3. c.status = "ready" => c.text
  BY DEF IngestInv, TextReady
<1>4. ~upload => \E j \in job : job = {j} /\ j.id = c.id /\ j.status \notin Settled
  BY DEF IngestInv, Following
<1>5. ASSUME UNCHANGED <<uploads, files>>, upload' = FALSE, error' \in BOOLEAN PROVE Kept'
  BY <1>5 DEF IngestInv, IngestShape, TextReady, Kept
<1>6. CASE Accepted(c)
  <2> DEFINE d == [c EXCEPT !.at = "pause"]  j == [id |-> c.id, status |-> "pending"]
  <2>1. d \in Chain /\ d.at # "upload" /\ (d.status = "ready" => d.text) /\ d.id = c.id
    BY <1>2, <1>3 DEF Chain
  <2>2. chains' = {d} /\ job' = {j} /\ j.id = c.id /\ j.status \notin Settled
    BY <1>1, <1>6 DEF Accepted, Step, Settled
  <2>3. uploads' \in [Id -> Row]
    BY <1>2, <1>6 DEF IngestInv, IngestShape, Accepted, Row, Chain
  <2>4. \A i \in Id : uploads'[i].status = "ready" => uploads'[i].text
    BY <1>2, <1>6 DEF IngestInv, IngestShape, TextReady, Accepted, Row, Chain
  <2>5. Kept'
    BY <1>6, <2>3, <2>4 DEF IngestInv, IngestShape, Accepted, Kept
  <2>6. error' = FALSE
    BY <1>2, <1>6 DEF Accepted
  <2> HIDE DEF d, j
  <2> QED BY <2>1, <2>2, <2>5, <2>6, OneFollows
<1>7. CASE Refused(c)
  <2>1. chains' = {} /\ error' = TRUE
    BY <1>1, <1>7 DEF Refused, Step
  <2> QED BY <1>5, <1>7, <2>1, NoneFollows DEF Refused
<1>8. ASSUME ~upload, NEW d \in Chain, chains' = {d}, d.at # "upload", d.id = c.id,
             d.status = "ready" => d.text, UNCHANGED <<uploads, job, upload, error, files>>
      PROVE  IngestInv'
  <2>1. PICK j \in job : job' = {j} /\ j.id = d.id /\ j.status \notin Settled
    BY <1>4, <1>8
  <2>2. upload' = FALSE /\ error' = FALSE
    BY <1>2, <1>8 DEF IngestInv, IngestShape
  <2>3. Kept'
    BY <1>5, <1>8, <2>2
  <2> QED BY <1>8, <2>1, <2>2, <2>3, OneFollows
<1>9. CASE Tick(c)
  <2>1. PICK late \in BOOLEAN : chains' = {[c EXCEPT !.at = "read", !.late = late]}
    BY <1>1, <1>2, <1>9 DEF Tick, Step, Chain
  <2> DEFINE d == [c EXCEPT !.at = "read", !.late = late]
  <2>2. d \in Chain /\ d.at # "upload" /\ (d.status = "ready" => d.text) /\ d.id = c.id
    BY <1>2, <1>3 DEF Chain
  <2>3. ~upload /\ UNCHANGED <<uploads, job, upload, error, files>>
    BY <1>1, <1>9 DEF Tick
  <2>4. chains' = {d}
    BY <2>1
  <2> HIDE DEF d
  <2> QED BY <1>8, <2>2, <2>3, <2>4
<1>10. CASE Answer(c)
  <2>1. ~upload /\ UNCHANGED <<uploads, job, upload, error, files>>
    BY <1>1, <1>10 DEF Answer
  <2> DEFINE u == uploads[c.id]
             d == [c EXCEPT !.at = "answered", !.status = u.status, !.text = u.text]
             e == [c EXCEPT !.at = "error"]
  <2>2. chains' = {d} \/ chains' = {e}
    BY <1>1, <1>10 DEF Answer, Step
  <2>3. u \in Row /\ c.id \in Id
    BY <1>2 DEF IngestInv, IngestShape, Chain
  <2>4. u.status = "ready" => u.text
    BY <2>3 DEF IngestInv, TextReady
  <2>5. d \in Chain /\ d.at # "upload" /\ (d.status = "ready" => d.text) /\ d.id = c.id
    BY <1>2, <2>3, <2>4 DEF Chain, Row
  <2>6. e \in Chain /\ e.at # "upload" /\ (e.status = "ready" => e.text) /\ e.id = c.id
    BY <1>2, <1>3 DEF Chain
  <2> HIDE DEF d, e
  <2> QED BY <1>8, <2>1, <2>2, <2>5, <2>6
<1>11. CASE ReadFailed(c)
  <2>1. chains' = {} /\ error' = TRUE /\ upload' = FALSE
    BY <1>1, <1>11 DEF IngestInv, IngestShape, ReadFailed, Step
  <2> QED BY <1>5, <1>11, <2>1, NoneFollows DEF ReadFailed
<1>12. CASE Polled(c)
  <2> DEFINE d == [c EXCEPT !.at = "pause"]  j == [id |-> c.id, status |-> c.status]
  <2>1. job' = {j} /\ upload' = FALSE /\ UNCHANGED <<uploads, files>> /\ error' \in BOOLEAN
    BY <1>1, <1>2, <1>12 DEF IngestInv, IngestShape, Polled
  <2>2. Kept'
    BY <1>5, <2>1
  <2>3. CASE chains' = {} /\ (error' \/ c.status \in Settled)
    BY <2>1, <2>2, <2>3, NoneFollows
  <2>4. CASE chains' = {d} /\ error' = FALSE /\ c.status \notin Settled
    <3>1. d \in Chain /\ d.at # "upload" /\ (d.status = "ready" => d.text) /\ d.id = c.id
      BY <1>2, <1>3 DEF Chain
    <3>2. j.id = d.id /\ j.status \notin Settled
      BY <2>4, <3>1
    <3> HIDE DEF d, j
    <3> QED BY <2>1, <2>2, <2>4, <3>1, <3>2, OneFollows
  <2>5. \/ chains' = {} /\ (error' \/ c.status \in Settled)
        \/ chains' = {d} /\ error' = FALSE /\ c.status \notin Settled
    BY <1>1, <1>2, <1>3, <1>12 DEF Polled, Step, Settled
  <2> QED BY <2>3, <2>4, <2>5
<1> QED BY <1>6, <1>7, <1>9, <1>10, <1>11, <1>12 DEF Follow

LEMMA IngestInvNext == IngestInv /\ [Next]_vars => IngestInv'
<1> SUFFICES ASSUME IngestInv, [Next]_vars PROVE IngestInv'
  OBVIOUS
<1>1. CASE Next
  BY <1>1, ServerKeeps, FollowKeeps, SendKeeps, FormKeeps DEF Next
<1>2. CASE UNCHANGED vars
  BY <1>2 DEF vars, IngestInv, IngestShape, TextReady, Uploading, Following, GivenUp
<1> QED BY <1>1, <1>2

-------------------------------------------------------------------------------
\* Whatever fails, is repeated or comes late in the upload and the extraction of a document, the
\* dropzone opens again or offers a way on, and the text of a file put aside never lands.
THEOREM OpensAgain == Spec => []NeverStuck
<1>1. IngestInv => NeverStuck
  <2> SUFFICES ASSUME IngestInv PROVE NeverStuck
    OBVIOUS
  <2>1. Busy => chains # {} \/ error
    BY DEF IngestInv, Busy, Uploading, GivenUp
  <2>2. chains # {} => Busy
    BY DEF IngestInv, Busy, Following
  <2>3. ASSUME NEW c \in chains PROVE chains = {c} /\ Cardinality(chains) = 1
    <3>1. chains = {c}
      BY <2>3 DEF IngestInv, Uploading, Following
    <3> QED BY <3>1, FS_Singleton
  <2>4. \A c \in chains, j \in job : c.id = j.id
    BY DEF IngestInv, Uploading, Following
  <2> QED BY <2>1, <2>2, <2>3, <2>4 DEF NeverStuck
<1> QED BY IngestInvInit, IngestInvNext, <1>1, PTL DEF Spec

-------------------------------------------------------------------------------
(* The downloads: what is asked for, answered and listed is a file of the    *)
(* master of its version, however old the answer.                            *)

Rows == [Download!Fmt -> SUBSET Download!File]
Transfer == [click: Nat, visit: Nat, fmt: Download!Fmt, late: BOOLEAN,
             at: {"post", "accepted", "pause", "read", "answered", "error"},
             file: SUBSET Download!File, list: SUBSET Rows]

DownloadShape ==
  /\ current \in Download!Version
  /\ master \in [Download!Version -> Download!Origin]
  /\ converted \in [Download!Version -> Download!Origin]
  /\ tasks \subseteq Download!Task
  /\ formats \subseteq Rows
  /\ transfers \subseteq Transfer
  /\ offered \subseteq [visit: Nat, list: SUBSET Rows]
  /\ delivered \subseteq [file: Download!File, clicked: Nat, visit: Nat, now: Nat]
  /\ visit \in Nat /\ clicks \in Nat

\* A version to come has no master, and one that has a master keeps it.
Unmade == \A v \in Download!Version : v > current => master[v] = 0

Right(f) == f.of \in Download!Sources(f.version)
RightRows(l) == \A fmt \in Download!Fmt : \A f \in l[fmt] : Right(f)

\* Every conversion is of a master that its version may take it from, and so is every file that is
\* listed, answered or handed over, however old the answer.
RightConverted ==
  /\ \A v \in Download!Version : converted[v] # 0 => converted[v] \in Download!Sources(v)
  /\ \A t \in tasks : /\ master[t.version] # 0
                      /\ t.at = "converting" => t.of = master[t.version]
RightHeld ==
  /\ \A l \in formats : RightRows(l)
  /\ \A r \in offered : \A l \in r.list : RightRows(l)
  /\ \A c \in transfers : (\A f \in c.file : Right(f)) /\ \A l \in c.list : RightRows(l)
  /\ \A d \in delivered : Right(d.file)

OnPage == \A d \in delivered : d.visit = d.now

DownloadInv ==
  DownloadShape /\ Unmade /\ OnPage /\ RightConverted /\ RightHeld

\* A version may always take a file from its own master.
LEMMA OwnSource ==
  ASSUME NEW v \in Download!Version PROVE master[v] \in Download!Sources(v)
<1>1. v \in 1..v
  BY PagesAssumption DEF Download!Version
<1> QED BY <1>1 DEF Download!Sources

\* A step that changes neither a master nor the panel leaves what is right as it is.
LEMMA SameSources ==
  ASSUME offer' = offer, master' = master
  PROVE  /\ \A v : Download!Sources(v)' = Download!Sources(v)
         /\ \A f : Right(f)' <=> Right(f)
         /\ \A l : RightRows(l)' <=> RightRows(l)
<1>1. \A v : Download!Sources(v)' = Download!Sources(v)
  BY DEF Download!Sources
<1>2. \A f : Right(f)' <=> Right(f)
  BY <1>1 DEF Right
<1> QED BY <1>1, <1>2 DEF RightRows

LEMMA DownloadInvInit == Download!Init /\ clicks = 0 => DownloadInv
<1> SUFFICES ASSUME Download!Init, clicks = 0 PROVE DownloadInv
  OBVIOUS
<1>1. 1 \in Download!Version /\ 0 \in Download!Origin /\ 1 \in Download!Origin
  BY PagesAssumption DEF Download!Version, Download!Origin
<1>2. DownloadShape
  BY <1>1 DEF Download!Init, DownloadShape, Download!NewRead
<1>3. Unmade
  BY DEF Download!Init, Unmade
<1>4. RightConverted /\ RightHeld /\ OnPage
  BY DEF Download!Init, RightConverted, RightHeld, OnPage, Download!NewRead
<1> QED BY <1>2, <1>3, <1>4 DEF DownloadInv

\* What is listed is typed, and of the masters of its versions.
LEMMA ListingRight ==
  ASSUME DownloadInv
  PROVE  Download!Listing \in Rows /\ RightRows(Download!Listing)
<1>1. ASSUME NEW of \in [Download!Version -> Download!Origin]
      PROVE  /\ Download!Ref(current, of) \subseteq Download!File
             /\ \A f \in Download!Ref(current, of) :
                  f.version = current /\ f.of = of[current] /\ f.of # 0
  <2>1. current \in Download!Version /\ of[current] \in Download!Origin
    BY DEF DownloadInv, DownloadShape
  <2>2. of[current] # 0 => of[current] \in Download!Version
    BY <2>1, PagesAssumption DEF Download!Origin, Download!Version
  <2> QED BY <2>1, <2>2 DEF Download!Ref, Download!File, Download!None
<1>2. Download!Listing["original"] = Download!Ref(current, master)
      /\ Download!Listing["conversion"] = Download!Ref(current, converted)
  BY DEF Download!Listing, Download!Fmt
<1>3. Download!Listing \in Rows
  BY <1>1 DEF Download!Listing, Rows, DownloadInv, DownloadShape
<1>4. RightRows(Download!Listing)
  <2>1. current \in Download!Version /\ master[current] \in Download!Sources(current)
    BY OwnSource DEF DownloadInv, DownloadShape
  <2>2. \A f \in Download!Listing["original"] : Right(f)
    BY <1>1, <1>2, <2>1 DEF Right, DownloadInv, DownloadShape
  <2>3. \A f \in Download!Listing["conversion"] : Right(f)
    BY <1>1, <1>2, <2>1 DEF Right, DownloadInv, DownloadShape, RightConverted
  <2> QED BY <2>2, <2>3 DEF RightRows, Download!Fmt
<1> QED BY <1>3, <1>4

\* A master that is made changes no other.
Fixed == \A v \in Download!Version : master[v] # 0 => master'[v] = master[v]

LEMMA SourcesStay ==
  ASSUME Fixed, offer' = offer, NEW v \in Download!Version, NEW of \in Download!Sources(v), of # 0
  PROVE  of \in Download!Sources(v)'
<1>1. CASE offer.inherited
  <2>1. PICK u \in 1..v : of = master[u]
    BY <1>1 DEF Download!Sources
  <2>2. u \in Download!Version
    BY PagesAssumption DEF Download!Version
  <2>3. master'[u] = of
    BY <2>1, <2>2 DEF Fixed
  <2> QED BY <1>1, <2>3 DEF Download!Sources
<1>2. CASE ~offer.inherited
  BY <1>2 DEF Download!Sources, Fixed
<1> QED BY <1>1, <1>2

LEMMA RightStays ==
  ASSUME Fixed, offer' = offer, NEW f \in Download!File, Right(f)
  PROVE  Right(f)'
<1>1. f.version \in Download!Version /\ f.of \in Download!Version
  BY DEF Download!File
<1>2. f.of # 0
  BY <1>1, PagesAssumption DEF Download!Version
<1> QED BY <1>1, <1>2, SourcesStay DEF Right

LEMMA HeldStays ==
  ASSUME DownloadShape, RightHeld, Fixed,
         UNCHANGED <<offer, formats, offered, transfers, delivered>>
  PROVE  RightHeld'
<1>1. ASSUME NEW l \in Rows, RightRows(l) PROVE RightRows(l)'
  <2>1. ASSUME NEW fmt \in Download!Fmt, NEW f \in l[fmt] PROVE Right(f)'
    <3>1. f \in Download!File
      BY DEF Rows
    <3> QED BY <1>1, <3>1, RightStays DEF RightRows
  <2> QED BY <2>1 DEF RightRows
<1>2. /\ \A l \in formats' : RightRows(l)'
      /\ \A r \in offered' : \A l \in r.list : RightRows(l)'
  BY <1>1 DEF DownloadShape, RightHeld
<1>3. ASSUME NEW c \in transfers'
      PROVE  (\A f \in c.file : Right(f)') /\ \A l \in c.list : RightRows(l)'
  <2>1. c.file \subseteq Download!File /\ c.list \subseteq Rows
    BY DEF DownloadShape, Transfer
  <2> QED BY <1>1, <2>1, RightStays DEF RightHeld
<1>4. ASSUME NEW d \in delivered' PROVE Right(d.file)'
  BY RightStays DEF DownloadShape, RightHeld
<1> QED BY <1>2, <1>3, <1>4 DEF RightHeld

\* Regenerating and making a master: what was listed, sent and handed over stays.
LEMMA MasterKeeps ==
  ASSUME DownloadInv, Download!Regenerate \/ Download!MakeMaster
  PROVE  DownloadInv'
<1> USE DEF DownloadInv
<1>1. /\ UNCHANGED <<offer, tasks, formats, working, transfers, offered, visit, clicks, delivered>>
      /\ current \in Download!Version /\ current \in Nat
      /\ 0 \in Download!Origin /\ current \in Download!Origin
  BY PagesAssumption DEF Download!Regenerate, Download!MakeMaster, DownloadShape,
                         Download!Version, Download!Origin
<1>2. PICK v \in Download!Version, m \in Download!Origin, k \in Download!Origin :
        /\ current' = v /\ current <= v /\ master[v] = 0
        /\ master' = [master EXCEPT ![v] = m]
        /\ \/ converted' = converted
           \/ /\ converted' = [converted EXCEPT ![v] = k]
              /\ k = 0 \/ (offer.inherited /\ k = converted[current])
  <2>1. CASE Download!Regenerate
    <3>1. /\ current + 1 \in Download!Version /\ current' = current + 1 /\ current + 1 > current
          /\ master[current + 1] = 0
      BY <1>1, <2>1, PagesAssumption DEF Download!Regenerate, Download!Version, Unmade
    <3>2. PICK m \in {0, master[current]} : master' = [master EXCEPT ![current + 1] = m]
      BY <2>1 DEF Download!Regenerate
    <3>3. m \in Download!Origin
      BY <1>1, <3>2 DEF DownloadShape
    <3>4. converted' = [converted EXCEPT ![current + 1] =
                          IF offer.inherited THEN converted[current] ELSE 0]
      BY <2>1 DEF Download!Regenerate, Download!Inherited
    <3>5. PICK k \in Download!Origin : k = IF offer.inherited THEN converted[current] ELSE 0
      BY <1>1 DEF DownloadShape
    <3>6. current <= current + 1 /\ (k = 0 \/ (offer.inherited /\ k = converted[current]))
      BY <1>1, <3>5
    <3> QED BY <3>1, <3>2, <3>3, <3>4, <3>5, <3>6
  <2>2. CASE Download!MakeMaster
    <3>1. /\ current' = current /\ current <= current /\ master[current] = 0
          /\ master' = [master EXCEPT ![current] = current] /\ converted' = converted
      BY <1>1, <2>2 DEF Download!MakeMaster
    <3> QED BY <1>1, <3>1
  <2> QED BY <2>1, <2>2
<1>3. Fixed
  BY <1>2 DEF DownloadShape, Fixed
<1>4. DownloadShape'
  BY <1>1, <1>2 DEF DownloadShape
<1>5. Unmade'
  <2>1. ASSUME NEW w \in Download!Version, w > v PROVE w > current /\ w # v
    BY <1>1, <1>2, <2>1, PagesAssumption DEF Download!Version
  <2> QED BY <1>2, <2>1 DEF DownloadShape, Unmade
<1>6. ASSUME NEW w \in Download!Version, converted'[w] # 0
      PROVE  converted'[w] \in Download!Sources(w)'
  <2>1. CASE converted'[w] = converted[w]
    BY <1>1, <1>3, <1>6, <2>1, SourcesStay DEF RightConverted
  <2>2. CASE converted'[w] # converted[w]
    <3>1. w = v /\ offer.inherited /\ converted'[w] = converted[current]
      <4>1. converted' = [converted EXCEPT ![v] = k]
        BY <1>2, <2>2
      <4>2. w = v /\ converted'[w] = k
        BY <1>1, <2>2, <4>1 DEF DownloadShape
      <4> QED BY <1>2, <1>6, <2>2, <4>2
    <3>2. converted[current] # 0 /\ converted[current] \in Download!Sources(current)
      BY <1>1, <1>6, <3>1 DEF RightConverted
    <3>3. /\ 1..current \subseteq 1..v /\ 1..current \subseteq Download!Version
          /\ offer'.inherited
      BY <1>1, <1>2, <3>1, PagesAssumption DEF Download!Version
    <3>4. PICK u \in 1..current : converted[current] = master[u]
      BY <3>1, <3>2 DEF Download!Sources
    <3>5. master'[u] = converted'[w] /\ u \in 1..w
      BY <1>3, <3>1, <3>2, <3>3, <3>4 DEF Fixed
    <3> QED BY <3>3, <3>5 DEF Download!Sources
  <2> QED BY <2>1, <2>2
<1>7. RightConverted'
  <2>1. \A t \in tasks' : master'[t.version] = master[t.version]
    BY <1>1, <1>3 DEF RightConverted, Fixed, DownloadShape, Download!Task
  <2> QED BY <1>1, <1>6, <2>1 DEF RightConverted
<1>8. RightHeld'
  BY <1>1, <1>3, HeldStays
<1> QED BY <1>1, <1>4, <1>5, <1>7, <1>8 DEF OnPage

\* A conversion is begun from the master that its version has, and finished as it was begun.
LEMMA WorkerKeeps ==
  ASSUME DownloadInv, NEW t \in tasks, Download!Run(t)
  PROVE  DownloadInv'
<1> USE DEF DownloadInv
<1>1. UNCHANGED <<offer, current, master, formats, working, transfers, offered, visit, clicks,
                  delivered>>
  BY DEF Download!Run, Download!Begin, Download!Finish, Download!Fail, Download!Worker
<1>2. /\ t.version \in Download!Version /\ t.of \in Download!Origin
      /\ 0 \in Download!Origin /\ master[t.version] \in Download!Origin
  BY PagesAssumption DEF DownloadShape, Download!Task, Download!Origin
<1>3. /\ tasks' \subseteq Download!Task /\ converted' \in [Download!Version -> Download!Origin]
      /\ RightConverted'
  <2>1. CASE Download!Begin(t)
    <3> DEFINE u == [t EXCEPT !.at = "converting", !.of = master[t.version]]
    <3>1. /\ u \in Download!Task /\ u.version = t.version /\ u.of = master[t.version]
      BY <1>2 DEF DownloadShape, Download!Task
    <3>2. tasks' \subseteq tasks \cup {u} /\ converted' = converted
      BY <2>1 DEF Download!Begin, Download!Worker
    <3> HIDE DEF u
    <3> QED BY <1>1, <3>1, <3>2 DEF DownloadShape, RightConverted, Download!Sources
  <2>2. CASE Download!Finish(t)
    <3>1. t.at = "converting" /\ tasks' \subseteq tasks
          /\ converted' = [converted EXCEPT ![t.version] = t.of]
      BY <2>2 DEF Download!Finish, Download!Worker
    <3>2. master[t.version] \in Download!Sources(t.version)
      BY <1>2, OwnSource
    <3>3. \A v : Download!Sources(v)' = Download!Sources(v)
      BY <1>1 DEF Download!Sources
    <3>4. \A v \in Download!Version : converted'[v] # 0 => converted'[v] \in Download!Sources(v)
      BY <1>1, <1>2, <3>1, <3>2 DEF DownloadShape, RightConverted
    <3> QED BY <1>1, <1>2, <3>1, <3>3, <3>4 DEF DownloadShape, RightConverted
  <2>3. CASE Download!Fail(t)
    <3> DEFINE u == [t EXCEPT !.at = "queued", !.of = 0]
    <3>1. u \in Download!Task /\ u.version = t.version /\ u.at = "queued"
      BY <1>2 DEF DownloadShape, Download!Task
    <3>2. tasks' \subseteq tasks \cup {u} /\ converted' = converted
      BY <2>3 DEF Download!Fail, Download!Worker
    <3> HIDE DEF u
    <3> QED BY <1>1, <3>1, <3>2 DEF DownloadShape, RightConverted, Download!Sources
  <2> QED BY <2>1, <2>2, <2>3 DEF Download!Run
<1>4. DownloadShape'
  BY <1>1, <1>3 DEF DownloadShape
<1>5. RightHeld'
  BY <1>1, SameSources DEF RightHeld
<1> QED BY <1>1, <1>3, <1>4, <1>5 DEF OnPage, Unmade

\* What a step of the panel or of the API may add: conversions of what has a master; requests and
\* lists that hold nothing but right files; and right files, handed over on the page that is open.
RightList(l) == l \in Rows /\ RightRows(l)
RightFiles(fs) == fs \subseteq Download!File /\ \A f \in fs : Right(f)
RightTransfer(c) == c \in Transfer /\ RightFiles(c.file) /\ \A l \in c.list : RightList(l)

Asked == \A t \in tasks' : t \in tasks \/ (/\ t \in Download!Task
                                           /\ t.at = "queued" /\ master[t.version] # 0)
Sent == \A c \in transfers' : c \in transfers \/ RightTransfer(c)
ListRight == \A l \in formats' : RightList(l)
ReadRight == \A r \in offered' : \/ r \in offered
                            \/ /\ r \in [visit: Nat, list: SUBSET Rows]
                               /\ \A l \in r.list : RightList(l)
Handed == \A d \in delivered' : \/ d \in delivered
                                \/ /\ d.file \in Download!File /\ RightFiles({d.file})
                                   /\ d \in [file: Download!File, clicked: Nat, visit: {visit},
                                             now: {visit}]

LEMMA HeldRight ==
  ASSUME DownloadInv
  PROVE  /\ \A c \in transfers : RightTransfer(c)
         /\ \A l \in formats : RightList(l)
         /\ \A r \in offered : /\ r \in [visit: Nat, list: SUBSET Rows]
                               /\ \A l \in r.list : RightList(l)
         /\ RightList(Download!Listing)
BY ListingRight
   DEF DownloadInv, DownloadShape, RightHeld, RightTransfer, RightList, RightFiles, Transfer

LEMMA PanelStays ==
  ASSUME DownloadInv, UNCHANGED <<offer, current, master, converted, visit>>, clicks' \in Nat,
         Asked, Sent, ListRight, ReadRight, Handed
  PROVE  DownloadInv'
<1>1. DownloadShape'
  <2>1. transfers' \subseteq Transfer
    BY DEF DownloadInv, DownloadShape, Sent, RightTransfer
  <2>2. offered' \subseteq [visit: Nat, list: SUBSET Rows]
    BY DEF DownloadInv, DownloadShape, ReadRight
  <2>3. delivered' \subseteq [file: Download!File, clicked: Nat, visit: Nat, now: Nat]
    BY DEF DownloadInv, DownloadShape, Handed
  <2> QED
    BY <2>1, <2>2, <2>3 DEF DownloadInv, DownloadShape, Asked, ListRight, RightList
<1>2. Unmade' /\ OnPage'
  BY DEF DownloadInv, Unmade, OnPage, Handed
<1>3. RightConverted'
  BY DEF DownloadInv, RightConverted, Asked, Download!Sources
<1>4. RightHeld'
  <2>1. /\ \A f : Right(f)' <=> Right(f)
        /\ \A l : RightRows(l)' <=> RightRows(l)
    BY SameSources
  <2>2. \A l \in formats' : RightRows(l)
    BY DEF ListRight, RightList
  <2>3. \A r \in offered' : \A l \in r.list : RightRows(l)
    BY DEF DownloadInv, RightHeld, ReadRight, RightList
  <2>4. \A c \in transfers' : (\A f \in c.file : Right(f)) /\ \A l \in c.list : RightRows(l)
    BY DEF DownloadInv, RightHeld, Sent, RightTransfer, RightList, RightFiles
  <2>5. \A d \in delivered' : Right(d.file)
    BY DEF DownloadInv, RightHeld, Handed, RightFiles
  <2> QED BY <2>1, <2>2, <2>3, <2>4, <2>5 DEF RightHeld
<1> QED BY <1>1, <1>2, <1>3, <1>4 DEF DownloadInv

\* What the API does with a request: it refuses it, answers it with the file it lists, or starts
\* a conversion; a read it answers with the list.
LEMMA RequestKeeps ==
  ASSUME DownloadInv, NEW c \in transfers, Download!Request(c) \/ Download!AnswerChain(c)
  PROVE  DownloadInv'
<1>1. RightTransfer(c) /\ RightList(Download!Listing)
  BY HeldRight
<1>2. UNCHANGED <<offer, current, master, converted, formats, offered, visit, clicks, delivered>>
  BY DEF Download!Request, Download!AnswerChain, Download!server
<1> DEFINE e == [c EXCEPT !.at = "error"]
           a == [c EXCEPT !.at = "accepted", !.file = Download!Listing[c.fmt]]
           l == [c EXCEPT !.at = "answered", !.list = {Download!Listing}]
<1>3. RightTransfer(e)
  BY <1>1 DEF RightTransfer, Transfer
<1>4. RightTransfer(a)
  <2>1. c.fmt \in Download!Fmt /\ RightFiles(Download!Listing[c.fmt])
    BY <1>1 DEF RightTransfer, Transfer, RightList, Rows, RightRows, RightFiles
  <2>2. a \in Transfer /\ a.file = Download!Listing[c.fmt] /\ a.list = c.list
    BY <1>1, <2>1 DEF RightTransfer, RightFiles, Transfer
  <2> HIDE DEF a
  <2> QED BY <1>1, <2>1, <2>2 DEF RightTransfer
<1>5. RightTransfer(l)
  <2>1. l \in Transfer /\ l.file = c.file /\ l.list = {Download!Listing}
    BY <1>1 DEF RightTransfer, RightList, Transfer
  <2> HIDE DEF l
  <2> QED BY <1>1, <2>1 DEF RightTransfer
<1>6. transfers' \subseteq transfers \cup {e, a, l}
  BY DEF Download!Request, Download!AnswerChain
<1> HIDE DEF e, a, l
<1>7. Sent
  BY <1>3, <1>4, <1>5, <1>6 DEF Sent
<1>8. Asked
  <2>1. \/ tasks' = tasks
        \/ tasks' = tasks \cup {Download!Convert} /\ master[current] # 0
    BY DEF Download!Request, Download!AnswerChain, Download!server
  <2>2. 0 \in Download!Origin /\ current \in Download!Version
    BY PagesAssumption DEF DownloadInv, DownloadShape, Download!Origin
  <2>3. /\ Download!Convert \in Download!Task
        /\ Download!Convert.at = "queued" /\ Download!Convert.version = current
    BY <2>2 DEF Download!Convert, Download!Task
  <2> QED BY <2>1, <2>3 DEF Asked
<1>9. ListRight /\ ReadRight /\ Handed /\ clicks' \in Nat
  BY <1>2, HeldRight DEF ListRight, ReadRight, Handed, DownloadInv, DownloadShape
<1> QED BY <1>2, <1>7, <1>8, <1>9, PanelStays

\* What is handed over: files that are right, for the page that is open.
LEMMA DeliverRight ==
  ASSUME NEW file, RightFiles(file), NEW c \in Transfer, c.visit = visit,
         Download!Deliver(file, c)
  PROVE  Handed
<1>1. ASSUME NEW f \in file
      PROVE  LET d == [file |-> f, clicked |-> c.click, visit |-> c.visit, now |-> visit]
             IN /\ d.file \in Download!File /\ RightFiles({d.file})
                /\ d \in [file: Download!File, clicked: Nat, visit: {visit}, now: {visit}]
  <2>1. f \in Download!File /\ c.click \in Nat
    BY DEF RightFiles, Transfer
  <2>2. RightFiles({f})
    BY <2>1 DEF RightFiles
  <2> QED BY <2>1, <2>2
<1> QED BY <1>1 DEF Download!Deliver, Handed

\* What the panel does with an answer, a timer or an error of a request.
LEMMA PanelKeeps ==
  ASSUME DownloadInv, NEW c \in transfers,
         Download!Accepted(c) \/ Download!Poll(c) \/ Download!Polled(c) \/ Download!Failed(c)
  PROVE  DownloadInv'
<1>1. RightTransfer(c)
  BY HeldRight
<1>2. UNCHANGED <<offer, current, master, converted, tasks, offered, visit, clicks>>
  BY DEF Download!Accepted, Download!Poll, Download!Polled, Download!Failed, Download!Page,
         Download!server
<1>3. Sent
  <2> DEFINE p == [c EXCEPT !.at = "pause"]
             q == [c EXCEPT !.at = "pause", !.list = {}]
             r(late) == [c EXCEPT !.at = "read", !.late = late]
  <2>1. RightTransfer(p) /\ RightTransfer(q)
    BY <1>1 DEF RightTransfer, Transfer
  <2>2. \A late \in {c.late, TRUE} : RightTransfer(r(late))
    BY <1>1 DEF RightTransfer, Transfer
  <2>3. \A x \in transfers' : x \in transfers \/ x = p \/ x = q
                                \/ \E late \in {c.late, TRUE} : x = r(late)
    BY DEF Download!Accepted, Download!Poll, Download!Polled, Download!Failed, Download!Page
  <2> HIDE DEF p, q, r
  <2> QED BY <2>1, <2>2, <2>3 DEF Sent
<1>4. ListRight
  <2>1. formats' = formats \/ formats' = c.list
    BY DEF Download!Accepted, Download!Poll, Download!Polled, Download!Failed
  <2> QED BY <1>1, <2>1, HeldRight DEF ListRight, RightTransfer
<1>5. Handed
  <2>1. \/ delivered' = delivered
        \/ ~Download!Cancelled(c) /\ Download!Deliver(c.file, c)
        \/ ~Download!Cancelled(c) /\ Download!Deliver(Download!Ready(c), c)
    BY Zenon DEF Download!Accepted, Download!Poll, Download!Polled, Download!Failed
  <2>2. RightFiles(c.file) /\ c \in Transfer
    BY <1>1 DEF RightTransfer
  <2>3. RightFiles(Download!Ready(c))
    <3>1. c.fmt \in Download!Fmt
      BY <2>2 DEF Transfer
    <3>2. \A l \in c.list : RightFiles(l[c.fmt])
      BY <1>1, <3>1 DEF RightTransfer, RightList, RightFiles, Rows, RightRows
    <3> QED BY <3>2 DEF Download!Ready, RightFiles
  <2> QED BY <2>1, <2>2, <2>3, DeliverRight DEF Download!Cancelled, Handed
<1>6. Asked /\ ReadRight /\ clicks' \in Nat
  BY <1>2 DEF Asked, ReadRight, DownloadInv, DownloadShape
<1> QED BY <1>2, <1>3, <1>4, <1>5, <1>6, PanelStays

\* A click: a file of the list is handed over, one that was never made is asked for.
LEMMA ClickKeeps ==
  ASSUME DownloadInv, NEW fmt \in Download!Fmt, Download!Download(fmt)
  PROVE  DownloadInv'
<1>1. UNCHANGED <<offer, current, master, converted, tasks, formats, offered, visit>>
      /\ clicks' = clicks + 1
  BY DEF Download!Download, Download!server
<1>2. clicks' \in Nat
  BY <1>1 DEF DownloadInv, DownloadShape
<1> DEFINE c == Download!Clicked(fmt)
<1>3. c \in Transfer /\ c.visit = visit /\ c.file = {} /\ c.list = {}
  BY <1>1, <1>2 DEF Transfer, Download!Clicked, Download!None, DownloadInv, DownloadShape
<1>4. PICK l \in formats :
        \/ Download!Deliver(l[fmt], c) /\ transfers' = transfers
        \/ delivered' = delivered /\ transfers' = transfers \cup {c}
  BY DEF Download!Download
<1> HIDE DEF c
<1>5. RightFiles(l[fmt])
  BY HeldRight DEF RightList, RightFiles, RightRows, Rows
<1>6. Handed
  BY <1>3, <1>4, <1>5, DeliverRight DEF Handed
<1>7. Sent
  BY <1>3, <1>4 DEF Sent, RightTransfer, RightFiles
<1>8. Asked /\ ListRight /\ ReadRight
  BY <1>1, HeldRight DEF Asked, ListRight, ReadRight
<1> QED BY <1>1, <1>2, <1>6, <1>7, <1>8, PanelStays

\* The list that was asked for when the panel opened is answered and shown.
LEMMA ReadKeeps ==
  ASSUME DownloadInv, NEW r \in offered, Download!AnswerRead(r) \/ Download!ApplyRead(r)
  PROVE  DownloadInv'
<1>1. UNCHANGED <<offer, current, master, converted, tasks, transfers, visit, clicks, delivered>>
  BY DEF Download!AnswerRead, Download!ApplyRead, Download!server
<1> DEFINE a == [r EXCEPT !.list = {Download!Listing}]
<1>2. /\ RightList(Download!Listing)
      /\ r \in [visit: Nat, list: SUBSET Rows] /\ \A l \in r.list : RightList(l)
  BY HeldRight
<1>3. a \in [visit: Nat, list: SUBSET Rows] /\ a.list = {Download!Listing}
  BY <1>2 DEF RightList
<1>4. offered' \subseteq offered \cup {a} /\ (formats' = formats \/ formats' = r.list)
  BY DEF Download!AnswerRead, Download!ApplyRead
<1> HIDE DEF a
<1>5. ListRight /\ ReadRight
  BY <1>2, <1>3, <1>4, HeldRight DEF ListRight, ReadRight
<1>6. Asked /\ Sent /\ Handed /\ clicks' \in Nat
  BY <1>1 DEF Asked, Sent, Handed, DownloadInv, DownloadShape
<1> QED BY <1>1, <1>5, <1>6, PanelStays

\* What was asked for on the page before is for no other page.
LEMMA ReopenKeeps ==
  ASSUME DownloadInv, Download!Reopen
  PROVE  DownloadInv'
<1>1. /\ UNCHANGED <<offer, current, master, converted, tasks, transfers, clicks, delivered>>
      /\ visit' = visit + 1 /\ formats' = {}
      /\ offered' = offered \cup {[visit |-> visit + 1, list |-> {}]}
  BY DEF Download!Reopen, Download!server, Download!NewRead
<1>2. DownloadShape'
  BY <1>1 DEF DownloadInv, DownloadShape
<1>3. Unmade' /\ OnPage'
  BY <1>1 DEF DownloadInv, Unmade, OnPage
<1>4. RightConverted' /\ RightHeld'
  BY <1>1, SameSources DEF DownloadInv, RightConverted, RightHeld
<1> QED BY <1>1, <1>2, <1>3, <1>4 DEF DownloadInv

LEMMA DownloadInvNext == DownloadInv /\ Download!Next => DownloadInv'
BY MasterKeeps, WorkerKeeps, RequestKeeps, PanelKeeps, ClickKeeps, ReadKeeps, ReopenKeeps
   DEF Download!Next, Download!Follow

\* Of a page that is not open, nothing happens.
DownloadsSafe == IF open = "downloads" THEN DownloadInv ELSE delivered = {}

LEMMA DownloadsSafeNext == DownloadsSafe /\ [PagesNext]_pagesVars => DownloadsSafe'
<1> SUFFICES ASSUME DownloadsSafe, [PagesNext]_pagesVars PROVE DownloadsSafe'
  OBVIOUS
<1>1. open' = open
  BY DEF PagesNext, Watching, Downloading, pagesVars
<1>2. CASE open = "downloads"
  <2>1. Download!Next \/ UNCHANGED <<downloadVars, clicks>>
    BY <1>2 DEF PagesNext, Watching, Downloading, pagesVars, web
  <2>2. CASE UNCHANGED <<downloadVars, clicks>>
    <3>1. /\ UNCHANGED <<offer, current, master, converted, tasks, formats, transfers, offered>>
          /\ UNCHANGED <<visit, clicks, delivered>> /\ DownloadInv
      BY <1>2, <2>2 DEF downloadVars, DownloadsSafe
    <3>2. RightConverted' /\ RightHeld'
      BY <3>1, SameSources DEF DownloadInv, RightConverted, RightHeld
    <3>3. DownloadShape' /\ Unmade' /\ OnPage'
      BY <3>1 DEF DownloadInv, DownloadShape, Unmade, OnPage
    <3> QED BY <1>1, <1>2, <3>2, <3>3 DEF DownloadsSafe, DownloadInv
  <2> QED BY <1>1, <1>2, <2>1, <2>2, DownloadInvNext DEF DownloadsSafe
<1>3. CASE open # "downloads"
  <2>1. delivered' = delivered
    BY <1>3 DEF PagesNext, Watching, Downloading, pagesVars, web, downloadVars
  <2> QED BY <1>1, <1>3, <2>1 DEF DownloadsSafe
<1> QED BY <1>2, <1>3

\* What is handed to the browser was asked for on the page that is open; an episode or a video is
\* made from the mix or the render of the version that offers it, a score from that version's or an
\* earlier one's, for any number of versions, clicks, conversions and faults.
THEOREM HandsOverRight == PagesSpec => []RightFile
<1>1. PagesInit => DownloadsSafe
  <2>1. PagesInit => Download!Init /\ clicks = 0
    BY DEF PagesInit, Download!Init
  <2>2. Download!Init => delivered = {}
    BY DEF Download!Init
  <2> QED BY <2>1, <2>2, DownloadInvInit DEF DownloadsSafe
<1>2. DownloadsSafe => RightFile
  BY DEF DownloadsSafe, DownloadInv, OnPage, RightHeld, Right, RightFile, Download!RightFile
<1> QED BY <1>1, <1>2, DownloadsSafeNext, PTL DEF PagesSpec

-------------------------------------------------------------------------------
(* The accounts: no two changes are past their checks at once.               *)

\* A change, with its caller and the request it answers left open.
Change(c) ==
  \E by, ask : c \in [by: {by}, user: Users, to: Account!Roles, from: SUBSET Account!Roles,
                      ask: {ask}]

AuditShape ==
  /\ role \in [Users -> Account!Roles]
  /\ trail \in Seq(Account!Entry)
  /\ \A c \in changes : Change(c)

\* As long as two were never handled at once, one change at most is past its checks, and the
\* role it has found is the one the account has.
OneHandled ==
  \A c \in changes : Account!Handled(c) =>
    /\ c.from = {role[c.user]}
    /\ \A d \in changes : Account!Handled(d) => c = d

AuditInv == AuditShape /\ (~together => OneHandled /\ AuditTells)

LEMMA AuditInvInit == Account!Init => AuditInv
BY DEF Account!Init, AuditInv, AuditShape, OneHandled, AuditTells, Account!AuditTells

\* What changes neither the roles nor the trail leaves the audit as it is.
LEMMA AuditStays ==
  ASSUME AuditInv, UNCHANGED <<role, trail>>, together => together',
         \A c \in changes' : Change(c), ~together' => OneHandled'
  PROVE  AuditInv'
<1>1. AuditShape'
  BY DEF AuditInv, AuditShape
<1>2. AuditTells => AuditTells'
  BY DEF AuditTells, Account!AuditTells, Account!Follows
<1> QED BY <1>1, <1>2 DEF AuditInv

\* A change is checked when no other one is, or the two have crossed.
LEMMA SetRoleKeeps ==
  ASSUME AuditInv, NEW c \in changes, Account!SetRole(c)
  PROVE  AuditInv'
<1>1. /\ UNCHANGED <<role, trail>> /\ Change(c) /\ c.user \in Users
      /\ role[c.user] \in Account!Roles
  BY DEF AuditInv, AuditShape, Account!SetRole, Change
<1> DEFINE d == [c EXCEPT !.from = {role[c.user]}]
<1>2. Change(d) /\ d.user = c.user /\ d.from = {role[c.user]}
  BY <1>1 DEF Change
<1>3. changes' = (changes \ {c}) \cup {d}
  BY DEF Account!SetRole
<1>4. together' = (together \/ \E x \in changes : Account!Handled(x))
  BY DEF Account!SetRole
<1> HIDE DEF d
<1>5. ~together' => OneHandled'
  <2>1. ASSUME ~together' PROVE ~together /\ \A x \in changes : ~Account!Handled(x)
    BY <1>4, <2>1
  <2> QED BY <1>1, <1>2, <1>3, <2>1 DEF OneHandled, Account!Handled
<1>6. \A x \in changes' : Change(x)
  BY <1>2, <1>3 DEF AuditInv, AuditShape
<1> QED BY <1>1, <1>4, <1>5, <1>6, AuditStays

\* The entry that is written follows from the last one about the account.
LEMMA CommitKeeps ==
  ASSUME AuditInv, NEW c \in changes, Account!CommitRole(c)
  PROVE  AuditInv'
<1>1. PICK from \in c.from :
        /\ role' = IF c.to = from THEN role ELSE [role EXCEPT ![c.user] = c.to]
        /\ trail' = Append(trail, [user |-> c.user, from |-> from, to |-> c.to])
  BY DEF Account!CommitRole, Account!Commit
<1>2. changes' = changes \ {c} /\ together' = together
  BY DEF Account!CommitRole, Account!Commit, Account!Finished
<1> DEFINE e == [user |-> c.user, from |-> from, to |-> c.to]
<1>0. Len(trail) \in Nat /\ trail \in Seq(Account!Entry)
  BY DEF AuditInv, AuditShape
<1> PICK n \in Nat : n = Len(trail)
  BY <1>0
<1>3. /\ c.user \in Users /\ c.to \in Account!Roles /\ from \in Account!Roles
      /\ e \in Account!Entry /\ trail \in Seq(Account!Entry) /\ n = Len(trail)
  BY DEF AuditInv, AuditShape, Change, Account!Entry
<1>4. AuditShape'
  BY <1>1, <1>2, <1>3 DEF AuditInv, AuditShape
<1>5. ASSUME ~together PROVE OneHandled' /\ AuditTells'
  <2>1. Account!Handled(c) /\ c.from = {role[c.user]} /\ from = role[c.user]
    BY <1>1, <1>2, <1>5 DEF AuditInv, OneHandled, Account!Handled
  <2>2. \A d \in changes' : ~Account!Handled(d)
    BY <1>2, <1>5, <2>1 DEF AuditInv, OneHandled
  <2>3. \A u \in Users : role'[u] = IF u = c.user THEN c.to ELSE role[u]
    BY <1>1, <1>3, <2>1 DEF AuditInv, AuditShape
  <2>4. /\ Len(trail') = n + 1 /\ trail'[n + 1] = e
        /\ \A i \in 1..n : trail'[i] = trail[i]
    BY <1>1, <1>3
  <2>5. \A i \in 1..n : trail[i].user \in Users
    <3>1. \A i \in 1..n : trail[i] \in Account!Entry
      BY <1>3
    <3> QED BY <3>1 DEF Account!Entry
  <2>6. e.user = c.user /\ e.from = role[c.user] /\ e.to = c.to
    BY <2>1
  <2> HIDE DEF e
  <2>7. n = Len(trail) /\ ~together
    BY <1>3, <1>5
  <2>8. ASSUME NEW i \in 1..Len(trail')
        PROVE  /\ \A j \in 1..Len(trail') : Account!Follows(j, i)' => trail'[j].from = trail'[i].to
               /\ \/ \E j \in i + 1..Len(trail') : trail'[j].user = trail'[i].user
                  \/ trail'[i].to = role'[trail'[i].user]
    <3>1. CASE i = n + 1
      <4>1. trail'[i].to = role'[trail'[i].user]
        BY <1>3, <2>3, <2>4, <2>6, <3>1
      <4>2. ASSUME NEW j \in 1..Len(trail'), Account!Follows(j, i)' PROVE FALSE
        BY <1>3, <2>4, <3>1, <4>2 DEF Account!Follows
      <4> QED BY <4>1, <4>2
    <3>2. CASE i \in 1..n
      <4>0. trail'[i] = trail[i]
        BY <2>4, <3>2
      <4>1. ASSUME NEW j \in 1..n, Account!Follows(j, i)' PROVE trail'[j].from = trail'[i].to
        <5>1. Account!Follows(j, i)
          BY <1>3, <2>4, <3>2, <4>1 DEF Account!Follows
        <5> QED BY <1>5, <2>4, <2>7, <3>2, <5>1 DEF AuditInv, AuditTells, Account!AuditTells
      <4>2. ASSUME Account!Follows(n + 1, i)' PROVE e.from = trail[i].to
        <5>1. trail[i].user = c.user /\ \A k \in i + 1..n : trail[k].user # trail[i].user
          BY <1>3, <2>4, <2>6, <3>2, <4>2 DEF Account!Follows
        <5> QED BY <1>5, <2>6, <2>7, <3>2, <5>1 DEF AuditInv, AuditTells, Account!AuditTells
      <4>3. \A j \in 1..Len(trail') : j \in 1..n \/ j = n + 1
        BY <1>3, <2>4
      <4>4. \A j \in 1..Len(trail') : Account!Follows(j, i)' => trail'[j].from = trail'[i].to
        BY <2>4, <4>0, <4>1, <4>2, <4>3
      <4>5. CASE trail[i].user = c.user
        BY <1>3, <2>4, <2>6, <3>2, <4>0, <4>4, <4>5
      <4>6. CASE trail[i].user # c.user
        <5>1. \/ \E j \in i + 1..n : trail[j].user = trail[i].user
              \/ trail[i].to = role[trail[i].user]
          BY <2>7, <3>2 DEF AuditInv, AuditTells, Account!AuditTells
        <5>2. \A j \in i + 1..n : j \in i + 1..Len(trail') /\ j \in 1..n
          BY <1>3, <2>4, <3>2
        <5> QED BY <2>3, <2>4, <2>5, <3>2, <4>0, <4>4, <4>6, <5>1, <5>2
      <4> QED BY <4>5, <4>6
    <3> QED BY <1>3, <2>4, <3>1, <3>2
  <2>9. AuditTells'
    BY <2>8 DEF AuditTells, Account!AuditTells
  <2> QED BY <2>2, <2>9 DEF OneHandled
<1> QED BY <1>2, <1>4, <1>5 DEF AuditInv

\* A change that is sent is not handled yet; one that is refused or left behind is as it was.
LEMMA ChangesKeep ==
  ASSUME AuditInv, UNCHANGED <<role, trail, together>>,
         \A c \in changes' : c \in changes \/ (Change(c) /\ ~Account!Handled(c))
  PROVE  AuditInv'
<1>1. \A c \in changes' : Change(c)
  BY DEF AuditInv, AuditShape
<1>2. ~together' => OneHandled'
  BY DEF AuditInv, OneHandled
<1> QED BY <1>1, <1>2, AuditStays

LEMMA OpenTabKeeps ==
  ASSUME AuditInv, NEW t, Account!OpenTab(t)
  PROVE  AuditInv'
<1> DEFINE Left(c) == IF c.ask = 0 THEN c ELSE [c EXCEPT !.ask = 0]
<1>1. UNCHANGED <<role, trail, together>> /\ changes' = {Left(c) : c \in changes}
  BY DEF Account!OpenTab
<1>2. ASSUME NEW c \in changes
      PROVE  /\ Change(Left(c)) /\ Left(c).from = c.from /\ Left(c).user = c.user
             /\ Account!Handled(Left(c)) => Account!Handled(c)
  <2>1. Change(c)
    BY DEF AuditInv, AuditShape
  <2> QED BY <2>1 DEF Change, Account!Handled
<1> HIDE DEF Left
<1>3. ~together' => OneHandled'
  BY <1>1, <1>2 DEF AuditInv, OneHandled
<1> QED BY <1>1, <1>2, <1>3, AuditStays

LEMMA AuditInvNext == AuditInv /\ Account!Next => AuditInv'
<1> SUFFICES ASSUME AuditInv, Account!Next PROVE AuditInv'
  OBVIOUS
<1>1. ASSUME NEW c \in changes, Account!RefuseRole(c) PROVE AuditInv'
  BY <1>1, ChangesKeep DEF Account!RefuseRole, Account!Finished
<1>2. ASSUME NEW by \in Users, NEW u \in Users, NEW to \in Account!Roles,
             Account!ChangeElsewhere(by, u, to)
      PROVE  AuditInv'
  <2> DEFINE c == [by |-> by, user |-> u, to |-> to, from |-> {}, ask |-> 0]
  <2>1. Change(c) /\ ~Account!Handled(c)
    BY DEF Change, Account!Handled
  <2>2. changes' = changes \cup {c} /\ UNCHANGED <<role, trail, together>>
    BY <1>2 DEF Account!ChangeElsewhere
  <2> HIDE DEF c
  <2> QED BY <2>1, <2>2, ChangesKeep
<1>3. ASSUME NEW u \in Users, Account!ChangeRole(u) PROVE AuditInv'
  <2>1. PICK to \in Account!Roles :
          changes' = changes \cup
            {[by |-> Me, user |-> u, to |-> to, from |-> {}, ask |-> Account!Id]}
    BY <1>3 DEF Account!ChangeRole
  <2> DEFINE c == [by |-> Me, user |-> u, to |-> to, from |-> {}, ask |-> Account!Id]
  <2>2. Change(c) /\ ~Account!Handled(c)
    BY DEF Change, Account!Handled
  <2>3. UNCHANGED <<role, trail, together>>
    BY <1>3 DEF Account!ChangeRole
  <2> HIDE DEF c
  <2> QED BY <2>1, <2>2, <2>3, ChangesKeep DEF c
<1>4. ASSUME \/ \E i \in 1..MaxReads : Account!Serve(i) \/ Account!Apply(i)
             \/ \E u \in Users : Account!OpenUser(u)
             \/ Account!RefreshAudit \/ Account!Back
      PROVE  AuditInv'
  <2>1. UNCHANGED <<role, trail, changes, together>>
    BY <1>4 DEF Account!Serve, Account!Apply, Account!OpenUser, Account!RefreshAudit,
                Account!Back, Account!server
  <2> QED BY <2>1, ChangesKeep
<1> QED
  BY <1>1, <1>2, <1>3, <1>4, SetRoleKeeps, CommitKeeps, OpenTabKeeps DEF Account!Next

AuditSafe == IF open = "accounts" THEN AuditInv ELSE trail = <<>>

LEMMA AuditSafeNext == AuditSafe /\ [PagesNext]_pagesVars => AuditSafe'
<1> SUFFICES ASSUME AuditSafe, [PagesNext]_pagesVars PROVE AuditSafe'
  OBVIOUS
<1>1. open' = open
  BY DEF PagesNext, Watching, Downloading, pagesVars
<1>2. CASE open = "accounts"
  <2>1. Account!Next \/ UNCHANGED accountVars
    BY <1>2 DEF PagesNext, Watching, Downloading, pagesVars, admin
  <2>2. CASE UNCHANGED accountVars
    <3>1. UNCHANGED <<role, trail, changes, together>>
      BY <2>2 DEF accountVars
    <3> QED BY <1>1, <1>2, <3>1, ChangesKeep DEF AuditSafe
  <2> QED BY <1>1, <1>2, <2>1, <2>2, AuditInvNext DEF AuditSafe
<1>3. CASE open # "accounts"
  <2>1. trail' = trail
    BY <1>3 DEF PagesNext, Watching, Downloading, pagesVars, admin, accountVars
  <2> QED BY <1>1, <1>3, <2>1 DEF AuditSafe
<1> QED BY <1>2, <1>3

\* The audit trail tells every role, for any number of accounts, admins and changes, as long as
\* no two changes were handled at the same time.
THEOREM TrailTells == PagesSpec => []AuditTells
<1>1. PagesInit => AuditSafe
  BY AuditInvInit DEF PagesInit, AuditSafe, Account!Init
<1>2. AuditSafe => AuditTells
  <2>1. trail = <<>> => AuditTells
    BY DEF AuditTells, Account!AuditTells
  <2>2. AuditInv => AuditTells
    BY DEF AuditInv, AuditTells, Account!AuditTells
  <2> QED BY <2>1, <2>2 DEF AuditSafe
<1> QED BY <1>1, <1>2, AuditSafeNext, PTL DEF PagesSpec

-------------------------------------------------------------------------------
(* The review desk: stamps of a row only grow, and the queue is never behind *)
(* what this desk decided; the open story is until it is shown again.        *)

\* What the argument needs of the rows and of what carries them.
Stamped(r) == "stamp" \in DOMAIN r /\ r.stamp \in Nat
WholeRows(q) == DOMAIN q = Stories /\ \A s \in Stories : Stamped(q[s])
Decision(d) ==
  \E held : /\ d \in [story: Stories, action: Review!ReviewAction, row: {held},
                      at: {"sent", "read", "decided", "refused", "again", "shown", "lost"}]
            /\ \A r, x \in held : Stamped(r) /\ r = x
Opened(d) == \E r : d \in [id: Stories, row: {r}, of: Stories] /\ Stamped(r)
Opening(o) == \E n, held : /\ o \in [n: {n}, story: Stories, row: {held}]
                           /\ \A r \in held : Stamped(r)
Queued(l) == \E n, held : l \in [n: {n}, rows: {held}] /\ \A q \in held : WholeRows(q)

ReviewShape ==
  /\ WholeRows(story)
  /\ \A d \in review : Decision(d) /\ \A e \in review : d = e
  /\ \A q \in queue : WholeRows(q)
  /\ \A d \in detail : Opened(d)
  /\ \A l \in lists : Queued(l)
  /\ \A o \in opens : Opening(o)
  /\ saved \in [Stories -> Nat]

\* Nothing is opened or decided before the queue is there.
QueueFirst ==
  queue = {} => review = {} /\ opens = {} /\ detail = {} /\ \A s \in Stories : saved[s] = 0

\* A decision that is answered is shown next.
Shows(r) == r.at \in {"again", "shown", "lost"}

\* Stamps only grow: what was answered is no newer than the row, and no older than what this
\* desk decided last.
StampsGrow ==
  /\ \A s \in Stories : saved[s] <= story[s].stamp
  /\ \A d \in review : \A r \in d.row :
       /\ r.stamp <= story[d.story].stamp
       /\ Shows(d) => saved[d.story] <= r.stamp

\* The queue is never behind, and the open story is not unless it is about to be shown again.
NotBehind ==
  /\ \A q \in queue, s \in Stories : saved[s] <= q[s].stamp
  /\ \A d \in detail : \/ saved[d.id] <= d.row.stamp
                       \/ \E r \in review : Shows(r) /\ r.story = d.id

ReviewInv == ReviewShape /\ QueueFirst /\ StampsGrow /\ (~overtaken => NotBehind)

LEMMA ReviewInvInit == Review!Init => ReviewInv
<1> SUFFICES ASSUME Review!Init PROVE ReviewInv
  OBVIOUS
<1>1. \A x : Stamped(Review!Fresh(x))
  BY DEF Review!Fresh, Stamped
<1>2. WholeRows(story) /\ \A s \in Stories : story[s].stamp = 0
  BY <1>1 DEF Review!Init, WholeRows, Review!Fresh
<1>3. \A l \in lists : Queued(l)
  BY DEF Review!Init, Queued
<1>4. ReviewShape /\ QueueFirst
  BY <1>2, <1>3 DEF Review!Init, ReviewShape, QueueFirst
<1>5. StampsGrow /\ NotBehind
  BY <1>2 DEF Review!Init, StampsGrow, NotBehind
<1> QED BY <1>4, <1>5 DEF ReviewInv

\* The rows change behind the desk's back: no stamp goes back.
Newer ==
  /\ WholeRows(story')
  /\ \A s \in Stories : story'[s].stamp \in Nat /\ story[s].stamp <= story'[s].stamp

LEMMA RowsKeep ==
  ASSUME ReviewInv, Newer, UNCHANGED <<review, queue, detail, lists, opens, saved, overtaken>>
  PROVE  ReviewInv'
<1>1. ReviewShape' /\ QueueFirst'
  BY DEF ReviewInv, ReviewShape, QueueFirst, Newer
<1>2. \A s \in Stories : saved[s] \in Nat /\ story[s].stamp \in Nat
  BY DEF ReviewInv, ReviewShape, WholeRows, Stamped
<1>3. \A d \in review : d.story \in Stories /\ \A r \in d.row : r.stamp \in Nat
  BY DEF ReviewInv, ReviewShape, Decision, Stamped
<1>4. StampsGrow'
  BY <1>2, <1>3 DEF ReviewInv, StampsGrow, Newer
<1>5. ~overtaken' => NotBehind'
  BY DEF ReviewInv, NotBehind
<1> QED BY <1>1, <1>4, <1>5 DEF ReviewInv

\* A row that is written over keeps its stamp or gets the next one.
LEMMA WrittenStamped ==
  ASSUME NEW now, Stamped(now), NEW r, NEW n
  PROVE  /\ Stamped(Review!Written(now, r, n))
         /\ Review!Written(now, r, n).stamp = now.stamp + 1
BY DEF Stamped, Review!Written

LEMMA RowNewer ==
  ASSUME ReviewShape, NEW s \in Stories, NEW r, Stamped(r), story[s].stamp <= r.stamp,
         story' = [story EXCEPT ![s] = r]
  PROVE  Newer
<1>1. \A x \in Stories : story'[x] = IF x = s THEN r ELSE story[x]
  BY DEF ReviewShape, WholeRows
<1>2. DOMAIN story' = Stories
  BY DEF ReviewShape, WholeRows
<1>3. \A x \in Stories : Stamped(story[x])
  BY DEF ReviewShape, WholeRows
<1> QED BY <1>1, <1>2, <1>3 DEF Newer, WholeRows, Stamped

LEMMA ElsewhereKeepsRows ==
  ASSUME ReviewInv, NEW s \in Stories, Review!Regenerate(s) \/ Review!MarkStory(s)
  PROVE  ReviewInv'
<1>1. UNCHANGED <<review, queue, detail, lists, opens, saved, overtaken>>
  BY DEF Review!Regenerate, Review!MarkStory, Review!Elsewhere, Review!desk
<1>2. PICK r : /\ story' = [story EXCEPT ![s] = r]
               /\ Stamped(r) /\ r.stamp = story[s].stamp
  <2>1. Stamped(story[s])
    BY DEF ReviewInv, ReviewShape, WholeRows
  <2>2. CASE Review!Regenerate(s)
    <3> DEFINE r == [story[s] EXCEPT !.status = "generating", !.building = TRUE,
                                     !.complete = FALSE]
    <3>1. Stamped(r) /\ r.stamp = story[s].stamp
      BY <2>1 DEF Stamped
    <3>2. story' = [story EXCEPT ![s] = r]
      BY <2>2 DEF Review!Regenerate, Review!Elsewhere
    <3> QED BY <3>1, <3>2
  <2>3. CASE Review!MarkStory(s)
    <3>1. PICK done \in BOOLEAN :
            story' = [story EXCEPT ![s] =
              [story[s] EXCEPT !.status = IF done THEN "ready" ELSE "failed",
                               !.building = FALSE, !.complete = done]]
      BY <2>3 DEF Review!MarkStory, Review!Elsewhere
    <3> DEFINE r == [story[s] EXCEPT !.status = IF done THEN "ready" ELSE "failed",
                                     !.building = FALSE, !.complete = done]
    <3>2. Stamped(r) /\ r.stamp = story[s].stamp
      BY <2>1 DEF Stamped
    <3> QED BY <3>1, <3>2
  <2> QED BY <2>2, <2>3
<1>3. story[s].stamp <= r.stamp
  BY <1>2 DEF Stamped
<1> QED BY <1>1, <1>2, <1>3, RowNewer, RowsKeep DEF ReviewInv

\* A decision of another admin.
LEMMA OtherKeeps ==
  ASSUME ReviewInv, NEW s \in Stories, NEW action, Review!ReviewElsewhere(s, action)
  PROVE  ReviewInv'
<1>1. UNCHANGED <<review, queue, detail, lists, opens, saved, overtaken>>
  BY DEF Review!ReviewElsewhere, Review!desk
<1>2. WholeRows(story) /\ Stamped(story[s])
  BY DEF ReviewInv, ReviewShape, WholeRows
<1>3. CASE story' = story
  BY <1>1, <1>2, <1>3, RowsKeep DEF Newer, WholeRows, Stamped
<1>4. ASSUME NEW r,
             story' = [story EXCEPT ![s] = Review!Written(@, r, Review!Reviewed(r, action))]
      PROVE  ReviewInv'
  <2> DEFINE w == Review!Written(story[s], r, Review!Reviewed(r, action))
  <2>1. Stamped(w) /\ w.stamp = story[s].stamp + 1
    BY <1>2, WrittenStamped
  <2>2. story' = [story EXCEPT ![s] = w]
    BY <1>4
  <2>3. story[s].stamp <= w.stamp
    BY <1>2, <2>1 DEF Stamped
  <2> HIDE DEF w
  <2> QED BY <1>1, <2>1, <2>2, <2>3, RowNewer, RowsKeep DEF ReviewInv
<1> QED BY <1>3, <1>4 DEF Review!ReviewElsewhere

\* A decision that takes another row along is a decision.
Taking(d, at, r) == [d EXCEPT !.at = at, !.row = {r}]

LEMMA RowTaken ==
  \A d, r, at :
    Decision(d) /\ Stamped(r) /\ at \in {"read", "refused", "decided", "shown"} =>
      /\ Decision(Taking(d, at, r)) /\ Taking(d, at, r).story = d.story
      /\ Taking(d, at, r).row = {r} /\ Taking(d, at, r).at = at
<1> TAKE d, r, at
<1> HAVE Decision(d) /\ Stamped(r) /\ at \in {"read", "refused", "decided", "shown"}
<1> DEFINE e == Taking(d, at, r)
<1>1. PICK held :
        d \in [story: Stories, action: Review!ReviewAction, row: {held},
               at: {"sent", "read", "decided", "refused", "again", "shown", "lost"}]
  BY DEF Decision
<1>2. /\ e \in [story: Stories, action: Review!ReviewAction, row: {{r}},
                at: {"sent", "read", "decided", "refused", "again", "shown", "lost"}]
      /\ e.story = d.story /\ e.row = {r} /\ e.at = at
  BY <1>1 DEF Taking
<1> HIDE DEF e
<1>3. \A y, x \in {r} : Stamped(y) /\ y = x
  OBVIOUS
<1>4. Decision(e)
  BY <1>2, <1>3 DEF Decision
<1> QED BY <1>2, <1>4 DEF e

\* This desk's decision at the API: read and checked, written, or lost.
LEMMA DecisionKeeps ==
  ASSUME ReviewInv, Review!ReviewStory \/ Review!GetAgain
  PROVE  ReviewInv'
<1>1. UNCHANGED <<queue, detail, lists, opens, saved, overtaken>>
  BY DEF Review!ReviewStory, Review!GetAgain, Review!desk
<1>2. PICK d \in review :
        \/ d.at = "sent" /\ review' = {Review!Read(d)} /\ story' = story
        \/ /\ d.at = "read"
           /\ \E r \in d.row : story' = [story EXCEPT ![d.story] =
                                 Review!Written(@, r, Review!Reviewed(r, d.action))]
           /\ review' = {[d EXCEPT !.at = "decided", !.row = {story'[d.story]}]}
        \/ d.at = "sent" /\ review' = {[d EXCEPT !.at = "refused"]} /\ story' = story
        \/ /\ d.at = "again" /\ review' = {[d EXCEPT !.at = "shown", !.row = {story[d.story]}]}
           /\ story' = story
        \/ d.at = "again" /\ review' = {[d EXCEPT !.at = "lost"]} /\ story' = story
  BY DEF Review!ReviewStory, Review!GetAgain
<1>3. /\ Decision(d) /\ d.story \in Stories
      /\ WholeRows(story) /\ Stamped(story[d.story]) /\ review = {d}
  BY DEF ReviewInv, ReviewShape, Decision, WholeRows
<1>5. \* What is stored is no older than what this desk decided last.
      saved[d.story] <= story[d.story].stamp /\ saved[d.story] \in Nat
  BY <1>3 DEF ReviewInv, ReviewShape, StampsGrow
<1>6. ASSUME Newer, NEW e, review' = {e}, Decision(e), e.story = d.story,
             \A r \in e.row : /\ r.stamp <= story'[d.story].stamp
                              /\ Shows(e) => saved[d.story] <= r.stamp,
             Shows(d) => Shows(e)
      PROVE  ReviewInv'
  <2>1. ReviewShape' /\ QueueFirst'
    BY <1>1, <1>3, <1>6 DEF ReviewInv, ReviewShape, QueueFirst, Newer
  <2>2. \A s \in Stories : saved[s] \in Nat /\ story[s].stamp \in Nat
    BY DEF ReviewInv, ReviewShape, WholeRows, Stamped
  <2>3. StampsGrow'
    BY <1>1, <1>6, <2>2 DEF ReviewInv, StampsGrow, Newer, Shows
  <2>4. ~overtaken' => NotBehind'
    BY <1>1, <1>3, <1>6 DEF ReviewInv, NotBehind
  <2> QED BY <2>1, <2>3, <2>4 DEF ReviewInv
<1>7. ASSUME story' = story PROVE Newer
  BY <1>3, <1>7 DEF Newer, WholeRows, Stamped
<1>8. CASE review' = {Review!Read(d)} /\ d.at = "sent" /\ story' = story
  <2>1. PICK w : w = story[d.story]
    OBVIOUS
  <2>2. Stamped(w) /\ w.stamp <= w.stamp
    BY <1>3, <2>1 DEF Stamped
  <2>3. ASSUME NEW at \in {"read", "refused"}, review' = {Taking(d, at, w)}
        PROVE  ReviewInv'
    <3> DEFINE e == Taking(d, at, w)
    <3>1. Decision(e) /\ e.story = d.story /\ e.row = {w} /\ e.at = at
      BY <1>3, <2>2, RowTaken
    <3>2. review' = {e}
      BY <2>3
    <3> HIDE DEF e
    <3> QED BY <1>6, <1>7, <1>8, <2>1, <2>2, <3>1, <3>2 DEF Shows
  <2>4. PICK at \in {"read", "refused"} : Review!Read(d) = [d EXCEPT !.row = {w}, !.at = at]
    BY <2>1 DEF Review!Read
  <2>5. [d EXCEPT !.row = {w}, !.at = at] = Taking(d, at, w)
    BY DEF Taking
  <2> QED BY <1>8, <2>3, <2>4, <2>5
<1>9. ASSUME NEW r, NEW n, review' = {[d EXCEPT !.at = "decided", !.row = {story'[d.story]}]},
             d.at = "read", story' = [story EXCEPT ![d.story] = Review!Written(@, r, n)]
      PROVE  ReviewInv'
  <2> DEFINE w == Review!Written(story[d.story], r, n)
  <2>1. Stamped(w) /\ w.stamp = story[d.story].stamp + 1
    BY <1>3, WrittenStamped
  <2>2. story' = [story EXCEPT ![d.story] = w]
    BY <1>9
  <2> HIDE DEF w
  <2>3. story'[d.story] = w
    BY <1>3, <2>2 DEF WholeRows
  <2>4. w.stamp <= w.stamp /\ story[d.story].stamp <= w.stamp
    BY <1>3, <2>1 DEF Stamped
  <2>5. Newer
    BY <1>3, <2>1, <2>2, <2>4, RowNewer DEF ReviewInv
  <2> DEFINE e == Taking(d, "decided", w)
  <2>6. Decision(e) /\ e.story = d.story /\ e.row = {w} /\ e.at = "decided"
    BY <1>3, <2>1, RowTaken
  <2>7. review' = {e}
    BY <1>9, <2>3 DEF Taking
  <2> HIDE DEF e
  <2> QED BY <1>6, <1>9, <2>3, <2>4, <2>5, <2>6, <2>7 DEF Shows
<1>10. CASE review' = {[d EXCEPT !.at = "refused"]} /\ d.at = "sent" /\ story' = story
  <2> DEFINE e == [d EXCEPT !.at = "refused"]
  <2>1. Decision(e) /\ e.story = d.story /\ e.row = d.row /\ e.at = "refused"
    BY <1>3 DEF Decision
  <2>2. \A r \in d.row : r.stamp <= story[d.story].stamp
    BY DEF ReviewInv, StampsGrow
  <2> HIDE DEF e
  <2> QED BY <1>6, <1>7, <1>10, <2>1, <2>2 DEF Shows, e
<1>11. CASE /\ review' = {[d EXCEPT !.at = "shown", !.row = {story[d.story]}]}
            /\ d.at = "again" /\ story' = story
  <2>1. PICK w : w = story[d.story]
    OBVIOUS
  <2>2. Stamped(w) /\ w.stamp <= w.stamp
    BY <1>3, <2>1 DEF Stamped
  <2> DEFINE e == Taking(d, "shown", w)
  <2>3. Decision(e) /\ e.story = d.story /\ e.row = {w} /\ e.at = "shown"
    BY <1>3, <2>2, RowTaken
  <2>4. review' = {e}
    BY <1>11, <2>1 DEF Taking
  <2> HIDE DEF e
  <2> QED BY <1>5, <1>6, <1>7, <1>11, <2>1, <2>2, <2>3, <2>4 DEF Shows
<1>12. CASE review' = {[d EXCEPT !.at = "lost"]} /\ d.at = "again" /\ story' = story
  <2> DEFINE e == [d EXCEPT !.at = "lost"]
  <2>1. Decision(e) /\ e.story = d.story /\ e.row = d.row /\ e.at = "lost"
    BY <1>3 DEF Decision
  <2>2. \A r \in d.row : r.stamp <= story[d.story].stamp /\ saved[d.story] <= r.stamp
    BY <1>12 DEF ReviewInv, StampsGrow, Shows
  <2> HIDE DEF e
  <2> QED BY <1>6, <1>7, <1>12, <2>1, <2>2 DEF Shows, e
<1> QED BY <1>2, <1>8, <1>9, <1>10, <1>11, <1>12

\* Lists and stories on their way change nothing of what is shown.
LEMMA ServeKeeps ==
  ASSUME ReviewInv, UNCHANGED <<story, review, queue, detail, saved, overtaken>>,
         \A l \in lists' : Queued(l), \A o \in opens' : Opening(o),
         queue # {} \/ opens' = {}
  PROVE  ReviewInv'
<1>1. ReviewShape'
  BY DEF ReviewInv, ReviewShape
<1> QED BY <1>1 DEF ReviewInv, QueueFirst, StampsGrow, NotBehind

\* An answer that is older than what it replaces is noticed.
LEMMA NotOlder ==
  ASSUME NEW r, Stamped(r), NEW shown0, ~Review!Older(r, shown0),
         NEW x \in shown0, Stamped(x)
  PROVE  x.stamp <= r.stamp
BY DEF Review!Older, Stamped

LEMMA ApplyListKeeps ==
  ASSUME ReviewInv, NEW l \in lists, Review!ApplyList(l)
  PROVE  ReviewInv'
<1>1. UNCHANGED <<story, review, detail, opens, saved>> /\ lists' = lists \ {l}
      /\ queue' = l.rows /\ l.rows # {}
  BY DEF Review!ApplyList, Review!Desk
<1>2. overtaken' = (overtaken \/ \E q \in l.rows, s \in Stories :
                      Review!Older(q[s], Review!Listed(s)))
  BY DEF Review!ApplyList
<1>3. \A q \in l.rows : WholeRows(q)
  BY DEF ReviewInv, ReviewShape, Queued
<1>4. ReviewShape' /\ QueueFirst'
  BY <1>1, <1>3 DEF ReviewInv, ReviewShape, QueueFirst
<1>5. StampsGrow'
  BY <1>1 DEF ReviewInv, StampsGrow
<1>6. ASSUME ~overtaken' PROVE NotBehind'
  <2>1. ~overtaken /\ \A q \in l.rows, s \in Stories : ~Review!Older(q[s], Review!Listed(s))
    BY <1>2, <1>6
  <2>2. ASSUME NEW q \in l.rows, NEW s \in Stories PROVE saved[s] <= q[s].stamp
    <3>1. Stamped(q[s]) /\ saved[s] \in Nat
      BY <1>3 DEF WholeRows, ReviewInv, ReviewShape
    <3>2. CASE queue = {}
      BY <3>1, <3>2 DEF ReviewInv, QueueFirst, Stamped
    <3>3. ASSUME NEW p \in queue PROVE saved[s] <= q[s].stamp
      <4>1. p[s] \in Review!Listed(s) /\ Stamped(p[s])
        BY DEF Review!Listed, ReviewInv, ReviewShape, WholeRows
      <4>2. p[s].stamp <= q[s].stamp
        BY <2>1, <3>1, <4>1, NotOlder
      <4>3. saved[s] <= p[s].stamp
        BY <2>1 DEF ReviewInv, NotBehind
      <4> QED BY <3>1, <4>1, <4>2, <4>3 DEF Stamped
    <3> QED BY <3>2, <3>3
  <2> QED BY <1>1, <2>1, <2>2 DEF ReviewInv, NotBehind
<1> QED BY <1>4, <1>5, <1>6 DEF ReviewInv

LEMMA ApplyOpenKeeps ==
  ASSUME ReviewInv, NEW o \in opens, Review!ApplyOpen(o)
  PROVE  ReviewInv'
<1>1. UNCHANGED <<story, review, queue, lists, saved>> /\ opens' = opens \ {o}
  BY DEF Review!ApplyOpen, Review!Desk
<1>2. PICK r \in o.row :
        /\ detail' = {[id |-> o.story, row |-> r, of |-> o.story]}
        /\ overtaken' = (overtaken \/ Review!Older(r,
             Review!Replaced([id |-> o.story, row |-> r, of |-> o.story])
               \cup Review!Listed(o.story)))
  BY DEF Review!ApplyOpen
<1> DEFINE d == [id |-> o.story, row |-> r, of |-> o.story]
<1>3. o.story \in Stories /\ Stamped(r)
  BY DEF ReviewInv, ReviewShape, Opening
<1>4. Opened(d) /\ d.id = o.story /\ d.row = r
  BY <1>3 DEF Opened
<1>5. detail' = {d}
  BY <1>2
<1>6. overtaken' = (overtaken \/ Review!Older(r, Review!Replaced(d) \cup Review!Listed(o.story)))
  BY <1>2
<1> HIDE DEF d
<1>7. queue # {}
  BY DEF ReviewInv, QueueFirst
<1>8. ReviewShape' /\ QueueFirst' /\ StampsGrow'
  BY <1>1, <1>4, <1>5, <1>7 DEF ReviewInv, ReviewShape, QueueFirst, StampsGrow
<1>9. ASSUME ~overtaken' PROVE NotBehind'
  <2>1. ~overtaken /\ ~Review!Older(r, Review!Replaced(d) \cup Review!Listed(o.story))
    BY <1>6, <1>9
  <2>2. PICK p \in queue : TRUE
    BY <1>7
  <2>3. p[o.story] \in Review!Listed(o.story) /\ Stamped(p[o.story])
    BY <1>3 DEF Review!Listed, ReviewInv, ReviewShape, WholeRows
  <2>4. p[o.story].stamp <= r.stamp
    BY <1>3, <2>1, <2>3, NotOlder
  <2>5. saved[o.story] <= p[o.story].stamp /\ saved[o.story] \in Nat
    BY <1>3, <2>1 DEF ReviewInv, ReviewShape, NotBehind
  <2>6. saved[o.story] <= r.stamp
    BY <1>3, <2>3, <2>4, <2>5 DEF Stamped
  <2> QED BY <1>1, <1>4, <1>5, <2>1, <2>6 DEF ReviewInv, NotBehind
<1> QED BY <1>8, <1>9 DEF ReviewInv

\* The answered row is shown in the queue at once, and on the open story with the next answer.
LEMMA DecidedKeeps ==
  ASSUME ReviewInv, Review!Decided
  PROVE  ReviewInv'
<1>1. UNCHANGED <<story, detail, lists, opens, overtaken>>
  BY DEF Review!Decided, Review!Desk
<1>2. PICK d \in review : \E r \in d.row :
        /\ d.at = "decided" /\ review' = {[d EXCEPT !.at = "again"]}
        /\ queue' = {[q EXCEPT ![d.story] = r] : q \in queue}
        /\ saved' = [saved EXCEPT ![d.story] = r.stamp]
  BY DEF Review!Decided
<1>2a. PICK r \in d.row :
        /\ d.at = "decided" /\ review' = {[d EXCEPT !.at = "again"]}
        /\ queue' = {[q EXCEPT ![d.story] = r] : q \in queue}
        /\ saved' = [saved EXCEPT ![d.story] = r.stamp]
  BY <1>2
<1>3. /\ Decision(d) /\ d.story \in Stories /\ Stamped(r)
      /\ r.stamp <= story[d.story].stamp /\ \A x \in d.row : x.stamp <= story[d.story].stamp
      /\ queue # {}
  BY DEF ReviewInv, ReviewShape, Decision, StampsGrow, QueueFirst
<1> DEFINE e == [d EXCEPT !.at = "again"]
<1>4. Decision(e) /\ e.story = d.story /\ e.row = d.row /\ e.at = "again" /\ review' = {e}
  BY <1>2a, <1>3 DEF Decision
<1> HIDE DEF e
<1>5. \A s \in Stories : saved'[s] = IF s = d.story THEN r.stamp ELSE saved[s]
  BY <1>2a, <1>3 DEF ReviewInv, ReviewShape
<1>6. \A p \in queue' :
        /\ WholeRows(p) /\ p[d.story] = r
        /\ \E q \in queue : \A s \in Stories \ {d.story} : p[s] = q[s]
  <2>1. ASSUME NEW q \in queue
        PROVE  /\ WholeRows([q EXCEPT ![d.story] = r]) /\ [q EXCEPT ![d.story] = r][d.story] = r
               /\ \A s \in Stories \ {d.story} : [q EXCEPT ![d.story] = r][s] = q[s]
    <3>1. WholeRows(q)
      BY DEF ReviewInv, ReviewShape
    <3> QED BY <1>3, <3>1 DEF WholeRows
  <2> DEFINE Over(q) == [q EXCEPT ![d.story] = r]
  <2>2. queue' = {Over(q) : q \in queue}
    BY <1>2a
  <2>3. \A q \in queue : /\ WholeRows(Over(q)) /\ Over(q)[d.story] = r
                         /\ \A s \in Stories \ {d.story} : Over(q)[s] = q[s]
    BY <2>1
  <2> HIDE DEF Over
  <2> QED BY <2>2, <2>3
<1>7. queue' # {}
  BY <1>2a, <1>3
<1>8. saved' \in [Stories -> Nat]
  BY <1>2a, <1>3 DEF ReviewInv, ReviewShape, Stamped
<1>9. ReviewShape' /\ QueueFirst'
  BY <1>1, <1>4, <1>6, <1>7, <1>8 DEF ReviewInv, ReviewShape, QueueFirst
<1>10. StampsGrow'
  <2>1. \A x \in d.row : x = r
    BY <1>2a, <1>3 DEF Decision
  <2>2. \A s \in Stories : saved'[s] <= story[s].stamp
    BY <1>3, <1>5 DEF ReviewInv, StampsGrow
  <2>3. \A x \in d.row : x.stamp <= story[d.story].stamp /\ saved'[d.story] <= x.stamp
    BY <1>3, <1>5, <2>1 DEF Stamped
  <2> QED BY <1>1, <1>4, <2>2, <2>3 DEF StampsGrow
<1>11. ASSUME ~overtaken' PROVE NotBehind'
  <2>1. ~overtaken /\ NotBehind
    BY <1>1, <1>11 DEF ReviewInv
  <2>2. ASSUME NEW p \in queue', NEW s \in Stories PROVE saved'[s] <= p[s].stamp
    <3>1. CASE s = d.story
      BY <1>3, <1>5, <1>6, <3>1 DEF Stamped
    <3>2. CASE s # d.story
      <4>1. PICK q \in queue : p[s] = q[s]
        BY <1>6, <3>2
      <4> QED BY <1>5, <2>1, <3>2, <4>1 DEF NotBehind
    <3> QED BY <3>1, <3>2
  <2>3. ASSUME NEW x \in detail
        PROVE  saved'[x.id] <= x.row.stamp \/ \E y \in review' : Shows(y) /\ y.story = x.id
    <3>1. x.id \in Stories
      BY DEF ReviewInv, ReviewShape, Opened
    <3>2. CASE x.id = d.story
      BY <1>4, <3>2 DEF Shows
    <3>3. CASE x.id # d.story
      <4>1. ~ \E y \in review : Shows(y)
        BY <1>2a DEF ReviewInv, ReviewShape, Shows
      <4> QED BY <1>5, <2>1, <3>1, <3>3, <4>1 DEF NotBehind
    <3> QED BY <3>2, <3>3
  <2> QED BY <1>1, <2>2, <2>3 DEF NotBehind
<1> QED BY <1>9, <1>10, <1>11 DEF ReviewInv

\* The story as it was read again: it is as new as what this desk decided.  Where the read was
\* lost, the answered row is.
LEMMA ShownAgainKeeps ==
  ASSUME ReviewInv, Review!ShownAgain
  PROVE  ReviewInv'
<1>1. UNCHANGED <<story, queue, lists, opens, saved>> /\ review' = {}
  BY DEF Review!ShownAgain, Review!Desk
<1>2. overtaken => overtaken'
  BY DEF Review!ShownAgain
<1>3. PICK d \in review : \E r \in d.row :
        \/ /\ d.at = "shown"
           /\ detail' = {[id |-> d.story, row |-> r, of |-> d.story]}
        \/ /\ d.at = "lost"
           /\ detail' = {[x EXCEPT !.id = d.story, !.row = r] : x \in detail}
  BY DEF Review!ShownAgain
<1>4. PICK r \in d.row :
        \/ /\ d.at = "shown"
           /\ detail' = {[id |-> d.story, row |-> r, of |-> d.story]}
        \/ /\ d.at = "lost"
           /\ detail' = {[x EXCEPT !.id = d.story, !.row = r] : x \in detail}
  BY <1>3
<1>5. d.story \in Stories /\ Stamped(r) /\ queue # {} /\ saved[d.story] <= r.stamp
  <2>1. d.story \in Stories /\ Stamped(r)
    BY DEF ReviewInv, ReviewShape, Decision
  <2>2. queue # {}
    BY DEF ReviewInv, QueueFirst
  <2>3. Shows(d)
    BY <1>4 DEF Shows
  <2>4. saved[d.story] <= r.stamp
    BY <2>3 DEF ReviewInv, StampsGrow
  <2> QED BY <2>1, <2>2, <2>4
<1>6. \A x \in detail' : Opened(x) /\ x.id = d.story /\ x.row = r
  <2>1. CASE detail' = {[id |-> d.story, row |-> r, of |-> d.story]}
    BY <1>5, <2>1 DEF Opened
  <2>2. CASE detail' = {[x EXCEPT !.id = d.story, !.row = r] : x \in detail}
    <3> DEFINE Over(x) == [x EXCEPT !.id = d.story, !.row = r]
    <3>1. ASSUME NEW x \in detail PROVE Opened(Over(x)) /\ Over(x).id = d.story /\ Over(x).row = r
      <4>1. PICK old : x \in [id: Stories, row: {old}, of: Stories]
        BY DEF ReviewInv, ReviewShape, Opened
      <4>2. /\ Over(x) \in [id: Stories, row: {r}, of: Stories]
            /\ Over(x).id = d.story /\ Over(x).row = r
        BY <1>5, <4>1
      <4> QED BY <1>5, <4>2 DEF Opened
    <3>2. detail' = {Over(x) : x \in detail}
      BY <2>2
    <3> HIDE DEF Over
    <3> QED BY <3>1, <3>2
  <2> QED BY <1>4, <2>1, <2>2
<1>7. ReviewShape'
  BY <1>1, <1>6 DEF ReviewInv, ReviewShape
<1>8. QueueFirst' /\ StampsGrow'
  BY <1>1, <1>5 DEF ReviewInv, QueueFirst, StampsGrow
<1>9. ASSUME ~overtaken' PROVE NotBehind'
  BY <1>1, <1>2, <1>5, <1>6, <1>9 DEF ReviewInv, NotBehind
<1> QED BY <1>7, <1>8, <1>9 DEF ReviewInv

\* The other steps of the desk: a click, and an answer that fails.
LEMMA DeskKeeps ==
  ASSUME ReviewInv,
         \/ Review!Refresh \/ Review!BackToQueue \/ Review!Refused
         \/ \E s \in Stories : Review!OpenStory(s)
         \/ \E a \in Review!ReviewAction : Review!SaveReview(a)
  PROVE  ReviewInv'
<1>1. Queued(Review!NewList)
  <2>1. Review!NewList \in [n: {clicks}, rows: {{}}]
    BY DEF Review!NewList
  <2> QED BY <2>1 DEF Queued
<1>2. CASE Review!Refresh
  <2>1. UNCHANGED <<story, review, queue, detail, opens, saved, overtaken>>
        /\ lists' = lists \cup {Review!NewList}
    BY <1>2 DEF Review!Refresh, Review!Load, Review!Desk
  <2> QED BY <1>1, <2>1, ServeKeeps DEF ReviewInv, ReviewShape, QueueFirst
<1>3. CASE Review!BackToQueue
  <2>1. UNCHANGED <<story, review, queue, opens, saved, overtaken>> /\ detail' = {}
        /\ lists' = lists \cup {Review!NewList}
    BY <1>3 DEF Review!BackToQueue, Review!Load, Review!Desk
  <2>2. ReviewShape' /\ QueueFirst'
    BY <1>1, <2>1 DEF ReviewInv, ReviewShape, QueueFirst
  <2> QED BY <2>1, <2>2 DEF ReviewInv, StampsGrow, NotBehind
<1>4. CASE Review!Refused
  <2>1. UNCHANGED <<story, queue, detail, lists, opens, saved, overtaken>> /\ review' = {}
        /\ \E d \in review : d.at = "refused"
    BY <1>4 DEF Review!Refused, Review!Desk
  <2>2. ~ \E d \in review : Shows(d)
    BY <2>1 DEF ReviewInv, ReviewShape, Shows
  <2>3. ReviewShape' /\ QueueFirst' /\ StampsGrow'
    BY <2>1 DEF ReviewInv, ReviewShape, QueueFirst, StampsGrow
  <2> QED BY <2>1, <2>2, <2>3 DEF ReviewInv, NotBehind
<1>5. ASSUME NEW s \in Stories, Review!OpenStory(s) PROVE ReviewInv'
  <2> DEFINE o == [n |-> clicks, story |-> s, row |-> {}]
  <2>1. UNCHANGED <<story, review, queue, detail, lists, saved, overtaken>> /\ queue # {}
        /\ opens' = opens \cup {o}
    BY <1>5 DEF Review!OpenStory, Review!Desk
  <2>2. Opening(o)
    <3>1. o \in [n: {clicks}, story: Stories, row: {{}}]
      OBVIOUS
    <3> HIDE DEF o
    <3> QED BY <3>1 DEF Opening
  <2> HIDE DEF o
  <2> QED BY <2>1, <2>2, ServeKeeps DEF ReviewInv, ReviewShape
<1>6. ASSUME NEW a \in Review!ReviewAction, Review!SaveReview(a) PROVE ReviewInv'
  <2>1. UNCHANGED <<story, queue, detail, lists, opens, saved, overtaken>> /\ review = {}
    BY <1>6 DEF Review!SaveReview, Review!Desk
  <2>2. PICK x \in detail :
          review' = {[story |-> x.id, action |-> a, row |-> {}, at |-> "sent"]}
    BY <1>6 DEF Review!SaveReview
  <2> DEFINE d == [story |-> x.id, action |-> a, row |-> {}, at |-> "sent"]
  <2>3. x.id \in Stories /\ queue # {}
    BY DEF ReviewInv, ReviewShape, Opened, QueueFirst
  <2>4. Decision(d) /\ d.row = {} /\ review' = {d}
    <3>1. d \in [story: Stories, action: Review!ReviewAction, row: {{}},
                 at: {"sent", "read", "decided", "refused", "again", "shown", "lost"}]
      BY <2>3
    <3> QED BY <2>2, <3>1 DEF Decision
  <2> HIDE DEF d
  <2>5. ReviewShape' /\ QueueFirst' /\ StampsGrow'
    BY <2>1, <2>3, <2>4 DEF ReviewInv, ReviewShape, QueueFirst, StampsGrow
  <2> QED BY <2>1, <2>5 DEF ReviewInv, NotBehind
<1> QED BY <1>2, <1>3, <1>4, <1>5, <1>6

\* A request that is answered by the API, or fails.
LEMMA AnswerKeeps ==
  ASSUME ReviewInv,
         \/ \E l \in lists : Review!ListStories(l) \/ Review!ListFails(l)
         \/ \E o \in opens : Review!GetStory(o) \/ Review!OpenFails(o)
  PROVE  ReviewInv'
<1>1. UNCHANGED <<story, review, queue, detail, saved, overtaken>>
  BY DEF Review!ListStories, Review!ListFails, Review!GetStory, Review!OpenFails, Review!Serve,
         Review!Desk
<1>2. \A o \in opens : queue # {}
  BY DEF ReviewInv, QueueFirst
<1>3. ASSUME NEW l \in lists, Review!ListStories(l) PROVE ReviewInv'
  <2> DEFINE m == [l EXCEPT !.rows = {story}]
  <2>1. opens' = opens /\ lists' = (lists \ {l}) \cup {m}
    BY <1>3 DEF Review!ListStories
  <2>2. Queued(m)
    <3>1. PICK n, held : l \in [n: {n}, rows: {held}]
      BY DEF ReviewInv, ReviewShape, Queued
    <3>2. m \in [n: {n}, rows: {{story}}]
      BY <3>1
    <3> QED BY <3>2 DEF ReviewInv, ReviewShape, Queued
  <2> HIDE DEF m
  <2> QED BY <1>1, <1>2, <2>1, <2>2, ServeKeeps DEF ReviewInv, ReviewShape
<1>4. ASSUME NEW l \in lists, Review!ListFails(l) PROVE ReviewInv'
  <2>1. opens' = opens /\ lists' = lists \ {l}
    BY <1>4 DEF Review!ListFails
  <2> QED BY <1>1, <1>2, <2>1, ServeKeeps DEF ReviewInv, ReviewShape
<1>5. ASSUME NEW o \in opens, Review!GetStory(o) PROVE ReviewInv'
  <2> DEFINE m == [o EXCEPT !.row = {story[o.story]}]
  <2>1. lists' = lists /\ opens' = (opens \ {o}) \cup {m}
    BY <1>5 DEF Review!GetStory
  <2>2. Opening(m)
    <3>1. PICK n, held : o \in [n: {n}, story: Stories, row: {held}]
      BY DEF ReviewInv, ReviewShape, Opening
    <3>2. m \in [n: {n}, story: Stories, row: {{story[o.story]}}]
      BY <3>1
    <3>3. Stamped(story[o.story])
      BY <3>1 DEF ReviewInv, ReviewShape, WholeRows
    <3> QED BY <3>2, <3>3 DEF Opening
  <2> HIDE DEF m
  <2> QED BY <1>1, <1>2, <2>1, <2>2, ServeKeeps DEF ReviewInv, ReviewShape
<1>6. ASSUME NEW o \in opens, Review!OpenFails(o) PROVE ReviewInv'
  <2>1. lists' = lists /\ opens' = opens \ {o}
    BY <1>6 DEF Review!OpenFails
  <2> QED BY <1>1, <1>2, <2>1, ServeKeeps DEF ReviewInv, ReviewShape
<1> QED BY <1>3, <1>4, <1>5, <1>6

LEMMA ReviewInvNext == ReviewInv /\ Review!Next => ReviewInv'
<1> SUFFICES ASSUME ReviewInv, Review!Next PROVE ReviewInv'
  OBVIOUS
<1>1. ASSUME NEW s \in Stories, Review!Regenerate(s) \/ Review!MarkStory(s) PROVE ReviewInv'
  BY <1>1, ElsewhereKeepsRows
<1>2. ASSUME NEW s \in Stories, NEW a \in Review!ReviewAction, Review!ReviewElsewhere(s, a)
      PROVE  ReviewInv'
  BY <1>2, OtherKeeps
<1>3. ASSUME NEW l \in lists, Review!ApplyList(l) PROVE ReviewInv'
  BY <1>3, ApplyListKeeps
<1>4. ASSUME NEW o \in opens, Review!ApplyOpen(o) PROVE ReviewInv'
  BY <1>4, ApplyOpenKeeps
<1>5. CASE \/ \E l \in lists : Review!ListStories(l) \/ Review!ListFails(l)
           \/ \E o \in opens : Review!GetStory(o) \/ Review!OpenFails(o)
  BY <1>5, AnswerKeeps
<1>6. CASE \/ Review!Refresh \/ Review!BackToQueue \/ Review!Refused
           \/ \E s \in Stories : Review!OpenStory(s)
           \/ \E a \in Review!ReviewAction : Review!SaveReview(a)
  BY <1>6, DeskKeeps
<1>7. CASE Review!ReviewStory \/ Review!GetAgain
  BY <1>7, DecisionKeeps
<1>8. CASE Review!Decided
  BY <1>8, DecidedKeeps
<1>9. CASE Review!ShownAgain
  BY <1>9, ShownAgainKeeps
<1> QED BY <1>1, <1>2, <1>3, <1>4, <1>5, <1>6, <1>7, <1>8, <1>9 DEF Review!Next

\* Behind the other pages the desk stays as it starts.
ReviewSafe == IF open = "review" THEN ReviewInv ELSE queue = {} /\ detail = {}

LEMMA ReviewSafeInit == PagesInit => ReviewSafe
BY ReviewInvInit DEF PagesInit, ReviewSafe, Review!Init

LEMMA ReviewStays ==
  ASSUME ReviewInv, UNCHANGED reviewVars
  PROVE  ReviewInv'
BY DEF ReviewInv, ReviewShape, QueueFirst, StampsGrow, NotBehind, reviewVars

LEMMA ReviewSafeNext == ReviewSafe /\ [PagesNext]_pagesVars => ReviewSafe'
<1> SUFFICES ASSUME ReviewSafe, [PagesNext]_pagesVars PROVE ReviewSafe'
  OBVIOUS
<1>1. open' = open
  BY DEF PagesNext, pagesVars, Watching, Downloading
<1>2. CASE open = "review" /\ Review!Next
  BY <1>1, <1>2, ReviewInvNext DEF ReviewSafe
<1>3. CASE UNCHANGED reviewVars
  <2>1. CASE open = "review"
    BY <1>1, <1>3, <2>1, ReviewStays DEF ReviewSafe
  <2>2. CASE open # "review"
    BY <1>1, <1>3, <2>2 DEF ReviewSafe, reviewVars
  <2> QED BY <2>1, <2>2
<1>4. \/ open = "review" /\ Review!Next
      \/ UNCHANGED reviewVars
  BY DEF PagesNext, pagesVars, Watching, Downloading, admin
<1> QED BY <1>2, <1>3, <1>4

\* What this desk decided is shown once nothing is in flight, in the queue and on the open story,
\* for every number of stories and clicks and whatever goes on behind the desk's back: an answer
\* is shown only where it is not older than what it replaces.
THEOREM DecisionShown == PagesSpec => []ShownAsSaved
<1>1. ReviewSafe => ShownAsSaved
  <2> SUFFICES ASSUME ReviewSafe, review = {}, ~overtaken
               PROVE  /\ \A d \in detail : d.row.stamp >= saved[d.id]
                      /\ \A q \in queue, s \in Stories : q[s].stamp >= saved[s]
    BY DEF ShownAsSaved, Review!ShownAsSaved
  <2>1. CASE open = "review"
    <3>1. \A d \in detail : d.row.stamp \in Nat /\ saved[d.id] \in Nat
      BY <2>1 DEF ReviewSafe, ReviewInv, ReviewShape, Opened, Stamped
    <3>2. \A q \in queue, s \in Stories : q[s].stamp \in Nat /\ saved[s] \in Nat
      BY <2>1 DEF ReviewSafe, ReviewInv, ReviewShape, WholeRows, Stamped
    <3> QED BY <2>1, <3>1, <3>2 DEF ReviewSafe, ReviewInv, NotBehind
  <2>2. CASE open # "review"
    BY <2>2 DEF ReviewSafe
  <2> QED BY <2>1, <2>2
<1> QED BY <1>1, ReviewSafeInit, ReviewSafeNext, PTL DEF PagesSpec

================================================================================
