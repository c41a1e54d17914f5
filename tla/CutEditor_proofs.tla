---------------------------- MODULE CutEditor_proofs ---------------------------
(***************************************************************************)
(* Proofs about CutRender and about CutEditor, for every set of cuts, all  *)
(* manifests and every bound.                                              *)
(*                                                                         *)
(* A row never claims bytes of another manifest, whatever is saved,        *)
(* exported, shared or deleted between two steps of the pool.  With the    *)
(* types the property is inductive: the task in the pool carries the       *)
(* manifest it has captured, and a row gives up its bytes only for those   *)
(* of a later task.                                                        *)
(*                                                                         *)
(* What the tab calls exported was made from what it shows, as long as no  *)
(* race of Race was lost.  For this the invariant EditorInv follows every  *)
(* manifest of the listener to the place where it is (the timer, the       *)
(* newest save that is not committed, the row), and every row to the       *)
(* answer or the entry of the list that tells it.  A save or an export is  *)
(* read before it is committed: InTurn says that what it has decided still *)
(* fits the row, Pending that it does so, as far as types go, even once a  *)
(* race was lost.                                                          *)
(***************************************************************************)
EXTENDS CutEditor, SequenceTheorems, TLAPS

\* The row of every handler and every task is one that is there.
LEMMA StoredTyped ==
  ASSUME TypeOK, NEW c \in Cut, NEW r \in Row, Stored(c, r)
  PROVE  /\ DOMAIN row' \subseteq Cut
         /\ \A d \in DOMAIN row' : row'[d] \in Row
BY DEF TypeOK, Stored

\* What is stored for one cut changes no other.
LEMMA StoredHonest ==
  ASSUME ExportHonest, NEW c \in Cut, NEW r, Stored(c, r),
         r.hash = r.asset, r.status = "ready" \/ r.linked => r.asset # {}
  PROVE  ExportHonest'
BY DEF ExportHonest, Stored

\* A message that is taken, put back or retried leaves the queue within its bound.
LEMMA QueueTyped ==
  ASSUME CutAssumption, NEW q \in [Cut \X Attempt -> 0..MaxTasks], NEW c \in Cut, NEW a \in Attempt
  PROVE  /\ q[<<c, a>>] > 0 => [q EXCEPT ![<<c, a>>] = @ - 1] \in [Cut \X Attempt -> 0..MaxTasks]
         /\ q[<<c, a>>] < MaxTasks => [q EXCEPT ![<<c, a>>] = @ + 1] \in [Cut \X Attempt -> 0..MaxTasks]
         /\ Retried(c, a, q) => queue' \in [Cut \X Attempt -> 0..MaxTasks]
<1>1. MaxTasks \in Nat
  BY DEF CutAssumption
<1>2. q[<<c, a>>] \in 0..MaxTasks
  OBVIOUS
<1>3. q[<<c, a>>] > 0 => [q EXCEPT ![<<c, a>>] = @ - 1] \in [Cut \X Attempt -> 0..MaxTasks]
  <2>1. SUFFICES ASSUME q[<<c, a>>] > 0 PROVE q[<<c, a>>] - 1 \in 0..MaxTasks
    OBVIOUS
  <2> QED BY <1>1, <1>2, <2>1
<1>4. ASSUME NEW b \in Attempt, q[<<c, b>>] < MaxTasks
      PROVE  [q EXCEPT ![<<c, b>>] = @ + 1] \in [Cut \X Attempt -> 0..MaxTasks]
  <2>1. q[<<c, b>>] \in 0..MaxTasks
    OBVIOUS
  <2>2. q[<<c, b>>] + 1 \in 0..MaxTasks
    BY <1>1, <1>4, <2>1
  <2> QED BY <2>2
<1>5. a < MaxRetries => a + 1 \in Attempt
  BY DEF Attempt, CutAssumption
<1>6. Retried(c, a, q) => queue' \in [Cut \X Attempt -> 0..MaxTasks]
  BY <1>4, <1>5 DEF Retried
<1> QED BY <1>3, <1>4, <1>6

-------------------------------------------------------------------------------
(* Types                                                                     *)

LEMMA TypeInit == ASSUME CutAssumption, RenderInit PROVE TypeOK
BY DEF CutAssumption, RenderInit, TypeOK, Exists

\* What an UPDATE leaves: a row of the right type.
LEMMA CommitTyped ==
  ASSUME NEW r \in Row, NEW u \in Columns, NEW m \in Given(u.manifest, r.manifest),
         NEW st \in Given(u.status, r.status)
  PROVE  [r EXCEPT !.manifest = m, !.status = st] \in Row
<1>1. m \in Manifest /\ st \in Status
  BY DEF Columns, Given, Option, Row
<1> QED BY <1>1 DEF Row

\* Every handler stores a row of the right type, or none.
LEMMA TypeCaller == ASSUME CutAssumption, TypeOK, Caller PROVE TypeOK'
<1> USE DEF Exists
<1>1. PICK c \in Cut :
        \/ \E m \in Manifest : CreateCut(c, m)
        \/ \E u \in Columns : Decided(c, u) /\ Commit(c, u)
        \/ DeleteCut(c) \/ DispatchRender(c)
        \/ ShareCut(c) \/ RevokeShare(c) \/ ShareExpires(c)
  BY DEF Caller
<1>2. c \in DOMAIN row => row[c] \in Row
  BY DEF TypeOK
<1>3. ASSUME NEW m \in Manifest, CreateCut(c, m) PROVE TypeOK'
  <2>1. NewRow(m) \in Row
    BY DEF NewRow, Row, Status, Option
  <2> QED BY <1>3, <2>1, StoredTyped DEF CreateCut, TypeOK
<1>4. ASSUME NEW u \in Columns, Commit(c, u) PROVE TypeOK'
  <2>1. PICK m \in Given(u.manifest, row[c].manifest), st \in Given(u.status, row[c].status) :
          Stored(c, [row[c] EXCEPT !.manifest = m, !.status = st])
    BY <1>4 DEF Commit
  <2>2. [row[c] EXCEPT !.manifest = m, !.status = st] \in Row
    BY <1>2, <1>4, CommitTyped DEF Commit
  <2>3. /\ DOMAIN row' \subseteq Cut /\ \A d \in DOMAIN row' : row'[d] \in Row
    BY <2>1, <2>2, StoredTyped
  <2> QED BY <1>4, <2>3 DEF Commit, TypeOK
<1>5. CASE DeleteCut(c)
  BY <1>5 DEF DeleteCut, TypeOK
<1>6. CASE DispatchRender(c)
  <2>1. 0 \in Attempt
    BY DEF Attempt, CutAssumption
  <2>2. queue' \in [Cut \X Attempt -> 0..MaxTasks]
    BY <1>6, <2>1, QueueTyped DEF DispatchRender, TypeOK
  <2> QED BY <1>6, <2>2 DEF DispatchRender, TypeOK
<1>7. CASE ShareCut(c) \/ RevokeShare(c) \/ ShareExpires(c)
  <2>1. c \in DOMAIN row
    BY <1>7 DEF ShareCut, RevokeShare, ShareExpires
  <2>2. [row[c] EXCEPT !.linked = TRUE] \in Row /\ [row[c] EXCEPT !.linked = FALSE] \in Row
    BY <1>2, <2>1 DEF Row
  <2>3. /\ DOMAIN row' \subseteq Cut /\ \A d \in DOMAIN row' : row'[d] \in Row
    BY <1>7, <2>2, StoredTyped DEF ShareCut, RevokeShare, ShareExpires
  <2> QED BY <1>7, <2>3 DEF ShareCut, RevokeShare, ShareExpires, TypeOK
<1> QED BY <1>1, <1>3, <1>4, <1>5, <1>6, <1>7

\* A delivery takes a message, and a task ends with its result, a failure or a crash.
LEMMA TypePool == ASSUME CutAssumption, TypeOK, Pool PROVE TypeOK'
<1> USE DEF Exists
<1>1. ASSUME NEW c \in Cut, NEW a \in Attempt, Deliver(c, a) PROVE TypeOK'
  <2>1. [queue EXCEPT ![<<c, a>>] = @ - 1] \in [Cut \X Attempt -> 0..MaxTasks]
    BY <1>1, QueueTyped DEF Deliver, BeginMissing, BeginCached, BeginRender, Taken, TypeOK
  <2>2. queue' \in [Cut \X Attempt -> 0..MaxTasks]
    BY <1>1, <2>1, QueueTyped DEF Deliver, BeginMissing, BeginCached, BeginRender, Consumed
  <2>3. CASE BeginMissing(c, a) \/ BeginCached(c, a)
    BY <2>2, <2>3 DEF BeginMissing, BeginCached, TypeOK
  <2>4. CASE BeginRender(c, a)
    <3>1. row[c] \in Row
      BY <2>4 DEF BeginRender, TypeOK
    <3>2. row[c].manifest \in Manifest
      BY <3>1 DEF Row
    <3>3. pool' \subseteq Task
      BY <2>4, <3>2 DEF BeginRender, Task
    <3> QED BY <2>2, <2>4, <3>3 DEF BeginRender, TypeOK
  <2> QED BY <1>1, <2>3, <2>4 DEF Deliver
<1>2. ASSUME NEW t \in pool, ClaimRender(t) \/ FinishRender(t) \/ FailRender(t) \/ Crash(t) PROVE TypeOK'
  <2>1. t \in Task /\ t.cut \in Cut /\ t.attempt \in Attempt /\ t.manifest \in Manifest
    BY DEF TypeOK, Task
  <2>2. t.cut \in DOMAIN row =>
          /\ [row[t.cut] EXCEPT !.status = "rendering"] \in Row
          /\ [row[t.cut] EXCEPT !.status = "ready", !.asset = {t.manifest}, !.hash = {t.manifest}] \in Row
          /\ [row[t.cut] EXCEPT !.status = "failed"] \in Row
    BY <2>1 DEF TypeOK, Row, Status, Option
  <2>3. /\ DOMAIN row' \subseteq Cut /\ \A d \in DOMAIN row' : row'[d] \in Row
    BY <1>2, <2>1, <2>2, StoredTyped DEF ClaimRender, FinishRender, FailRender, Crash, TypeOK
  <2>4. queue' \in [Cut \X Attempt -> 0..MaxTasks]
    <3>1. queue \in [Cut \X Attempt -> 0..MaxTasks]
      BY DEF TypeOK
    <3>2. ASSUME Retried(t.cut, t.attempt, queue) PROVE queue' \in [Cut \X Attempt -> 0..MaxTasks]
      BY <2>1, <3>1, <3>2, QueueTyped
    <3>3. CASE ClaimRender(t) \/ FinishRender(t) \/ FailRender(t)
      BY <3>1, <3>2, <3>3 DEF ClaimRender, FinishRender, FailRender
    <3>4. CASE Crash(t)
      <4>1. /\ queue[<<t.cut, t.attempt>>] < MaxTasks
            /\ queue' = [queue EXCEPT ![<<t.cut, t.attempt>>] = @ + 1]
        BY <3>4 DEF Crash
      <4> QED BY <2>1, <3>1, <4>1, QueueTyped
    <3> QED BY <1>2, <3>3, <3>4
  <2>5. pool' \subseteq Task
    BY <1>2, <2>1 DEF ClaimRender, FinishRender, FailRender, Crash, Task
  <2>6. faults' \in 0..MaxFaults
    BY <1>2 DEF ClaimRender, FinishRender, FailRender, Crash, Fault, TypeOK, CutAssumption
  <2> QED BY <2>3, <2>4, <2>5, <2>6 DEF TypeOK
<1> QED BY <1>1, <1>2 DEF Pool

\* Every variable keeps its type, the bound on messages included, for all constants.
THEOREM TypeCorrect == Spec => []TypeOK
<1> USE CutAssumption
<1>1. RenderInit => TypeOK
  BY TypeInit
<1>2. TypeOK /\ [Caller \/ Pool]_renderVars => TypeOK'
  BY TypeCaller, TypePool DEF renderVars, TypeOK
<1> QED BY <1>1, <1>2, PTL DEF Spec

-------------------------------------------------------------------------------
(* Honest exports                                                            *)

LEMMA HonestCaller == ASSUME CutAssumption, TypeOK, ExportHonest, Caller PROVE ExportHonest'
<1> USE DEF Exists
<1>1. PICK c \in Cut :
        \/ \E m \in Manifest : CreateCut(c, m)
        \/ \E u \in Columns : Decided(c, u) /\ Commit(c, u)
        \/ DeleteCut(c) \/ DispatchRender(c)
        \/ ShareCut(c) \/ RevokeShare(c) \/ ShareExpires(c)
  BY DEF Caller
<1>2. c \in DOMAIN row =>
        /\ row[c] \in Row
        /\ row[c].hash = row[c].asset
        /\ row[c].status = "ready" \/ row[c].linked => row[c].asset # {}
  BY DEF TypeOK, ExportHonest
<1>3. ASSUME NEW m \in Manifest, CreateCut(c, m) PROVE ExportHonest'
  BY <1>3, StoredHonest DEF CreateCut, NewRow
\* "Ready" was decided on a row that had bytes, and it still has some.
<1>4. ASSUME NEW u \in Columns, Decided(c, u), Commit(c, u) PROVE ExportHonest'
  <2>1. PICK m \in Given(u.manifest, row[c].manifest), st \in Given(u.status, row[c].status) :
          Stored(c, [row[c] EXCEPT !.manifest = m, !.status = st])
    BY <1>4 DEF Commit
  <2> DEFINE r == [row[c] EXCEPT !.manifest = m, !.status = st]
  <2>2. r.hash = row[c].hash /\ r.asset = row[c].asset /\ r.linked = row[c].linked /\ r.status = st
    BY <1>2, <1>4 DEF Commit, Row
  <2>3. st = "ready" => row[c].asset # {}
    <3>1. CASE u.status = {}
      BY <1>2, <1>4, <3>1 DEF Commit, Given
    <3>2. CASE u.status # {}
      BY <1>4, <3>2 DEF Commit, Given, Decided, Columns, Option
    <3> QED BY <3>1, <3>2
  <2>4. Stored(c, r)
    BY <2>1
  <2> HIDE DEF r
  <2>5. r.hash = r.asset /\ (r.status = "ready" \/ r.linked => r.asset # {})
    BY <1>2, <1>4, <2>2, <2>3 DEF Commit
  <2> QED BY <2>4, <2>5, StoredHonest
<1>5. CASE DeleteCut(c)
  BY <1>5 DEF DeleteCut, ExportHonest
<1>6. CASE DispatchRender(c)
  BY <1>6 DEF DispatchRender, ExportHonest
\* A link is minted for a row that has bytes.
<1>7. CASE ShareCut(c)
  <2> DEFINE r == [row[c] EXCEPT !.linked = TRUE]
  <2>1. r.hash = r.asset /\ (r.status = "ready" \/ r.linked => r.asset # {})
    BY <1>2, <1>7 DEF ShareCut, Row
  <2>2. Stored(c, r)
    BY <1>7 DEF ShareCut
  <2> HIDE DEF r
  <2> QED BY <2>1, <2>2, StoredHonest
<1>8. CASE RevokeShare(c) \/ ShareExpires(c)
  <2> DEFINE r == [row[c] EXCEPT !.linked = FALSE]
  <2>1. r.hash = r.asset /\ (r.status = "ready" \/ r.linked => r.asset # {})
    BY <1>2, <1>8 DEF RevokeShare, ShareExpires, Row
  <2>2. Stored(c, r)
    BY <1>8 DEF RevokeShare, ShareExpires
  <2> HIDE DEF r
  <2> QED BY <2>1, <2>2, StoredHonest
<1> QED BY <1>1, <1>3, <1>4, <1>5, <1>6, <1>7, <1>8

\* The bytes of a task are recorded with the manifest it has captured; whatever else the pool
\* writes to a row is its status, and that never "ready".
LEMMA HonestPool == ASSUME CutAssumption, TypeOK, ExportHonest, Pool PROVE ExportHonest'
<1> USE DEF Exists
<1>1. ASSUME NEW c \in Cut, NEW a \in Attempt, Deliver(c, a) PROVE ExportHonest'
  BY <1>1 DEF Deliver, BeginMissing, BeginCached, BeginRender, ExportHonest
<1>2. ASSUME NEW t \in pool, ClaimRender(t) \/ FinishRender(t) \/ FailRender(t) \/ Crash(t)
      PROVE  ExportHonest'
  <2>1. t.cut \in Cut
    BY DEF TypeOK, Task
  <2>2. CASE row' = row
    BY <2>2 DEF ExportHonest
  <2>3. CASE t.cut \in DOMAIN row /\ FinishRender(t)
    <3> DEFINE r == [row[t.cut] EXCEPT !.status = "ready", !.asset = {t.manifest}, !.hash = {t.manifest}]
    <3>1. r.hash = r.asset /\ r.asset # {}
      BY <2>3 DEF TypeOK, Row
    <3>2. Stored(t.cut, r)
      BY <2>3 DEF FinishRender
    <3> HIDE DEF r
    <3> QED BY <2>1, <3>1, <3>2, StoredHonest
  <2>4. ASSUME NEW st \in {"failed", "rendering"}, t.cut \in DOMAIN row,
               Stored(t.cut, [row[t.cut] EXCEPT !.status = st])
        PROVE  ExportHonest'
    <3> DEFINE r == [row[t.cut] EXCEPT !.status = st]
    <3>1. r.hash = r.asset /\ (r.status = "ready" \/ r.linked => r.asset # {})
      BY <2>4 DEF TypeOK, Row, ExportHonest
    <3>2. Stored(t.cut, r)
      BY <2>4
    <3> HIDE DEF r
    <3> QED BY <2>1, <3>1, <3>2, StoredHonest
  <2> QED BY <1>2, <2>2, <2>3, <2>4 DEF ClaimRender, FinishRender, FailRender, Crash
<1> QED BY <1>1, <1>2 DEF Pool

\* Whatever callers and the pool do in between, a row's digest is that of its bytes, a ready row
\* has bytes, and a link in force finds some.
THEOREM Honest == Spec => []ExportHonest
<1> USE CutAssumption
<1>1. RenderInit => ExportHonest
  BY DEF RenderInit, ExportHonest
<1>2. TypeOK /\ ExportHonest /\ [Caller \/ Pool]_renderVars => ExportHonest'
  BY HonestCaller, HonestPool DEF renderVars, ExportHonest
<1> QED BY <1>1, <1>2, TypeCorrect, PTL DEF Spec
-------------------------------------------------------------------------------
(* The editor's tab: what is said of a cut follows its row, and what the     *)
(* listener made of it is on the screen, in the timer, in the newest request *)
(* or in the row.                                                            *)

\* Every cut that anything names has been made.
AllMade ==
  /\ DOMAIN row \subseteq DOMAIN wanted /\ DOMAIN edits \subseteq DOMAIN wanted
  /\ polls \subseteq DOMAIN wanted
  /\ \A t \in pool \cup timer : t.cut \in DOMAIN wanted
  /\ \A i \in 1..Len(flight) : flight[i].cut \subseteq DOMAIN wanted

\* A cut is being encoded only while its row says so.
EncodingShown ==
  \A t \in pool : t.at = "encoding" /\ Exists(t.cut) => row[t.cut].status = "rendering"

\* One timer at most, and the flag is not lowered before it fires.
OneTimer == (\A t, u \in timer : t = u) /\ (timer # {} => flushable)

\* The cut that is open is of the list; none is open only when no cut is left.
OpenListed ==
  /\ selected \subseteq DOMAIN edits
  /\ selected = {} => DOMAIN row \cap DOMAIN edits = {}

\* A cut that is not in the list is gone, or known only to the request that has made it.
Creates(i, c) == c \in flight[i].cut /\ Has(i, {"create"})
Unlisted(c) == Exists(c) /\ c \notin DOMAIN edits
OnlyListedNamed ==
  \A c \in Cut : Unlisted(c) =>
    /\ c \notin polls /\ \A t \in timer : t.cut # c
    /\ \A i \in 1..Len(flight) : c \in flight[i].cut => flight[i].kind = "create"

DeletedGone ==
  \A i \in 1..Len(flight), c \in Cut :
    c \in flight[i].cut /\ Has(i, {"delete"}) => ~Exists(c)

\* What a row says of its bytes holds until another manifest is saved, also while it is encoded
\* again.
Encoded(c) == {t \in pool : t.cut = c /\ t.at = "encoding"}
Exports(c) == RenderCurrent(row[c]) /\ \A t \in Encoded(c) : t.manifest = row[c].manifest
Told(v, c) ==
  Exists(c) => /\ v.manifest = row[c].manifest
               /\ v.current /\ v.status \notin {"queued", "rendering"} => Exports(c)

\* A cut just made is as the listener made it, and one request has made it.
CreatedTold ==
  \A i \in 1..Len(flight), c \in Cut : Creates(i, c) =>
    /\ Unlisted(c)
    /\ row[c].manifest = wanted[c]
    /\ \A v \in flight[i].answer : Told(v, c)
    /\ \A j \in 1..Len(flight) : Creates(j, c) => i = j

AnswersTell ==
  \A i \in 1..Len(flight), c \in Cut :
    /\ c \in flight[i].cut /\ Has(i, {"save", "flush", "render", "cut", "poll"})
    /\ ~flight[i].stale
    => \A v \in flight[i].answer : Told(v, c)

\* The list tells the row, unless the answer to a save will.
ListTells(c) ==
  \/ Told(edits[c], c)
  \/ \E i \in 1..Len(flight) : c \in flight[i].cut /\ Has(i, {"save", "flush"})

\* Where the listener's last manifest of a cut is: in the timer, else in the newest save that
\* is not yet committed, else in the row.
Unheld(c) == \A t \in timer : t.cut # c
Saves(i, c) ==
  /\ flight[i].kind \in {"save", "flush"} /\ flight[i].at \in {"sent", "read"}
  /\ flight[i].cut = {c}
Carried(c) ==
  /\ \A t \in timer : t.cut = c => t.manifest = wanted[c]
  /\ Unheld(c) =>
       /\ \A i \in 1..Len(flight) :
            Saves(i, c) /\ (\A j \in (i + 1)..Len(flight) : ~Saves(j, c))
              => flight[i].manifest = {wanted[c]}
       /\ (\A i \in 1..Len(flight) : ~Saves(i, c)) => row[c].manifest = wanted[c]

OnScreen == \A c \in selected : manifest = {wanted[c]}

\* A save whose row has been read is the oldest one of its cut, and what it will write, or leave,
\* is what it was sent with; an export leaves the manifest as it is.
Reads(i) == flight[i].at = "read" /\ flight[i].kind \in {"save", "flush", "render"}
TurnOf(i) ==
  \A c \in flight[i].cut, u \in flight[i].update :
    IF flight[i].kind = "render" THEN u.manifest = {}
    ELSE /\ \A j \in 1..(i - 1) : ~Saves(j, c)
         /\ Exists(c) => Given(u.manifest, row[c].manifest) = flight[i].manifest
InTurn == \A i \in 1..Len(flight) : Reads(i) => TurnOf(i)

\* What a save or an export has decided is of a cut that was made, and "ready" for bytes that are
\* there.
Decides(i) ==
  /\ flight[i].at = "queued" => flight[i].kind = "render"
  /\ \A u \in flight[i].update, c \in flight[i].cut :
       flight[i].kind \in {"save", "flush", "render"} /\ c \in DOMAIN wanted /\ Decided(c, u)
Pending == DOMAIN row \subseteq DOMAIN wanted /\ \A i \in 1..Len(flight) : Decides(i)

Structure ==
  /\ AllMade /\ EncodingShown /\ OneTimer /\ OpenListed
  /\ OnlyListedNamed /\ DeletedGone /\ CreatedTold /\ AnswersTell /\ InTurn

NothingLost ==
  OnScreen /\ \A c \in DOMAIN row \cap DOMAIN edits : Carried(c) /\ ListTells(c)

EditorInv == EditorTypeOK /\ ExportHonest /\ Pending /\ (races = {} => Structure /\ NothingLost)

-------------------------------------------------------------------------------
(* Requests in flight                                                        *)

\* What a step of the tab does to the requests: request i, if any, is done with, the others
\* stay in their order, and what is new comes last.  p says where each was.
Remains(old, new) ==
  /\ new.kind = old.kind /\ new.cut = old.cut /\ new.manifest = old.manifest
  /\ new.update = old.update /\ new.answer = old.answer /\ new.stale = old.stale
  /\ new.at = old.at \/ (new.kind = "poll" /\ new.at = "failed")

Follows(p, i) ==
  /\ p \in [1..Len(flight') -> 0..Len(flight)]
  /\ \A j, k \in 1..Len(flight') : j < k /\ p[k] # 0 => p[j] # 0 /\ p[j] < p[k]
  /\ \A j \in 1..Len(flight') :
       IF p[j] = 0 THEN flight'[j].at = "sent" /\ flight'[j].update = {}
       ELSE p[j] # i /\ Remains(flight[p[j]], flight'[j])
  /\ \A k \in 1..Len(flight) : k = i \/ \E j \in 1..Len(flight') : p[j] = k

LEMMA SentTyped ==
  ASSUME NEW kind \in Kind, NEW c \in Option(Cut), NEW m \in Option(Manifest)
  PROVE  Sent(kind, c, m) \in Request
BY DEF Sent, Request, Option

LEMMA WithoutOne ==
  ASSUME NEW i \in 1..Len(flight), flight \in Seq(Request)
  PROVE  /\ Without(i) \in Seq(Request) /\ Len(Without(i)) = Len(flight) - 1
         /\ \A j \in 1..(Len(flight) - 1) :
              Without(i)[j] = flight[IF j < i THEN j ELSE j + 1]
<1> DEFINE before == SubSeq(flight, 1, i - 1)
           after == SubSeq(flight, i + 1, Len(flight))
<1>1. Len(flight) \in Nat /\ \A j \in 1..Len(flight) : flight[j] \in Request
  BY ElementOfSeq, LenProperties
<1> HIDE DEF Request
<1>2. /\ before \in Seq(Request) /\ Len(before) = i - 1
      /\ \A j \in 1..(i - 1) : before[j] = flight[j]
  BY <1>1, SubSeqProperties
<1>3. /\ after \in Seq(Request) /\ Len(after) = Len(flight) - i
      /\ \A j \in 1..(Len(flight) - i) : after[j] = flight[i + j]
  <2>1. \A k \in (i + 1)..Len(flight) : flight[k] \in Request
    BY <1>1
  <2>2. /\ after \in Seq(Request)
        /\ Len(after) = IF i + 1 <= Len(flight) THEN Len(flight) - (i + 1) + 1 ELSE 0
        /\ \A j \in 1..(Len(flight) - (i + 1) + 1) : after[j] = flight[i + 1 + j - 1]
    BY <1>1, <2>1, SubSeqProperties
  <2> HIDE DEF after
  <2> QED BY <1>1, <2>2
<1>4. Without(i) = before \o after
  BY DEF Without
<1> HIDE DEF before, after
<1>5. /\ Without(i) \in Seq(Request) /\ Len(Without(i)) = Len(before) + Len(after)
      /\ \A j \in 1..(Len(before) + Len(after)) :
           Without(i)[j] = IF j <= Len(before) THEN before[j] ELSE after[j - Len(before)]
  <2>1. before \in Seq(Request) /\ after \in Seq(Request)
    BY <1>2, <1>3
  <2>2. /\ before \o after \in Seq(Request) /\ Len(before \o after) = Len(before) + Len(after)
        /\ \A j \in 1..(Len(before) + Len(after)) :
             (before \o after)[j] = IF j <= Len(before) THEN before[j] ELSE after[j - Len(before)]
    BY ONLY <2>1, ConcatProperties, Zenon
  <2> QED BY <1>4, <2>2, Zenon
<1>6. ASSUME NEW j \in 1..(Len(flight) - 1)
      PROVE  Without(i)[j] = flight[IF j < i THEN j ELSE j + 1]
  <2>1. Without(i)[j] = IF j <= i - 1 THEN before[j] ELSE after[j - (i - 1)]
    BY <1>1, <1>2, <1>3, <1>5
  <2>2. CASE j < i
    BY <1>1, <1>2, <2>1, <2>2
  <2>3. CASE ~(j < i)
    <3>1. j - (i - 1) \in 1..(Len(flight) - i) /\ i + (j - (i - 1)) = j + 1
      BY <1>1, <2>3
    <3> QED BY <1>1, <1>3, <2>1, <2>3, <3>1
  <2> QED BY <2>2, <2>3
<1> QED BY <1>1, <1>2, <1>3, <1>5, <1>6

LEMMA SameFlight ==
  ASSUME EditorTypeOK, flight' = flight
  PROVE  \E p : Follows(p, 0) /\ \A j \in 1..Len(flight') : p[j] # 0
<1> DEFINE p == [j \in 1..Len(flight) |-> j]
<1>1. Len(flight) \in Nat
  BY DEF EditorTypeOK
<1>2. Follows(p, 0)
  BY <1>1 DEF Follows, Remains
<1>3. \A j \in 1..Len(flight') : p[j] # 0
  BY <1>1
<1> HIDE DEF p
<1> QED BY <1>2, <1>3

LEMMA SendFollows ==
  ASSUME EditorTypeOK, EditorAssumption,
         NEW kind \in Kind, NEW c \in Option(Cut), NEW m \in Option(Manifest), Send(kind, c, m)
  PROVE  /\ flight' \in Seq(Request) /\ Len(flight') <= MaxFlight
         /\ Len(flight') = Len(flight) + 1 /\ flight'[Len(flight')] = Sent(kind, c, m)
         /\ \E p : Follows(p, 0) /\ \A j \in 1..Len(flight') : p[j] = 0 => j = Len(flight')
<1> DEFINE p == [j \in 1..Len(flight') |-> IF j = Len(flight') THEN 0 ELSE j]
<1>1. flight \in Seq(Request) /\ Len(flight) \in Nat /\ MaxFlight \in Nat
  BY DEF EditorTypeOK, EditorAssumption
<1>2. flight' = Append(flight, Sent(kind, c, m)) /\ Len(flight) < MaxFlight
  BY DEF Send, Room
<1>3. /\ flight' \in Seq(Request) /\ Len(flight') = Len(flight) + 1
      /\ flight'[Len(flight')] = Sent(kind, c, m)
      /\ \A j \in 1..Len(flight) : flight'[j] = flight[j]
  BY <1>1, <1>2, SentTyped
<1>4. Follows(p, 0)
  BY <1>1, <1>3 DEF Follows, Remains, Sent
<1>5. \A j \in 1..Len(flight') : p[j] = 0 => j = Len(flight')
  BY <1>1, <1>3
<1>6. Len(flight') <= MaxFlight
  BY <1>1, <1>2, <1>3
<1> HIDE DEF p
<1> QED BY <1>3, <1>4, <1>5, <1>6

LEMMA WithoutFollows ==
  ASSUME EditorTypeOK, EditorAssumption, NEW i \in 1..Len(flight), flight' = Without(i)
  PROVE  /\ flight' \in Seq(Request) /\ Len(flight') <= MaxFlight
         /\ \E p : Follows(p, i) /\ \A j \in 1..Len(flight') : p[j] # 0
<1> DEFINE p == [j \in 1..Len(flight') |-> IF j < i THEN j ELSE j + 1]
<1>1. flight \in Seq(Request) /\ Len(flight) \in Nat /\ MaxFlight \in Nat /\ Len(flight) <= MaxFlight
  BY DEF EditorTypeOK, EditorAssumption
<1>2. /\ flight' \in Seq(Request) /\ Len(flight') = Len(flight) - 1
      /\ \A j \in 1..Len(flight') : flight'[j] = flight[p[j]]
  BY <1>1, WithoutOne
<1>3. \A k \in 1..Len(flight) : k = i \/ \E j \in 1..Len(flight') : p[j] = k
  <2> TAKE k \in 1..Len(flight)
  <2>1. CASE k < i
    BY <1>1, <1>2, <2>1
  <2>2. CASE k > i
    <3>1. k - 1 \in 1..Len(flight') /\ p[k - 1] = k
      BY <1>1, <1>2, <2>2
    <3> QED BY <3>1
  <2> QED BY <1>1, <2>1, <2>2
<1>4. Follows(p, i)
  <2>1. \A j \in 1..Len(flight') : p[j] # 0 /\ p[j] # i /\ Remains(flight[p[j]], flight'[j])
    BY <1>1, <1>2 DEF Remains
  <2>2. /\ p \in [1..Len(flight') -> 0..Len(flight)]
        /\ \A j, k \in 1..Len(flight') : j < k /\ p[k] # 0 => p[j] # 0 /\ p[j] < p[k]
    BY <1>1, <1>2
  <2> HIDE DEF p
  <2> QED BY <1>3, <2>1, <2>2 DEF Follows
<1>5. \A j \in 1..Len(flight') : p[j] # 0
  BY <1>1, <1>2
<1>6. Len(flight') <= MaxFlight
  BY <1>1, <1>2
<1> HIDE DEF p
<1> QED BY <1>2, <1>4, <1>5, <1>6

LEMMA SharedFollows ==
  ASSUME EditorTypeOK, EditorAssumption, NEW i \in 1..Len(flight),
         flight' = Append(Without(i), Sent("cut", flight[i].cut, {}))
  PROVE  /\ flight' \in Seq(Request) /\ Len(flight') <= MaxFlight
         /\ \E p : Follows(p, i) /\ \A j \in 1..Len(flight') :
                      p[j] = 0 => flight'[j] = Sent("cut", flight[i].cut, {})
<1> DEFINE p == [j \in 1..Len(flight') |-> IF j = Len(flight') THEN 0 ELSE IF j < i THEN j ELSE j + 1]
           r == Sent("cut", flight[i].cut, {})
<1>1. flight \in Seq(Request) /\ Len(flight) \in Nat /\ MaxFlight \in Nat /\ Len(flight) <= MaxFlight
  BY DEF EditorTypeOK, EditorAssumption
<1>2. flight[i] \in Request /\ r \in Request /\ r.at = "sent" /\ r.update = {}
  <2>1. flight[i] \in Request
    BY <1>1
  <2>2. flight[i].cut \in Option(Cut) /\ {} \in Option(Manifest) /\ "cut" \in Kind
    BY <2>1 DEF Request, Option, Kind
  <2> QED BY <2>1, <2>2, SentTyped DEF Sent
<1> HIDE DEF r
<1>3. /\ flight' \in Seq(Request) /\ Len(flight') = Len(flight) /\ flight'[Len(flight)] = r
      /\ \A j \in 1..(Len(flight) - 1) : flight'[j] = flight[IF j < i THEN j ELSE j + 1]
  BY <1>1, <1>2, WithoutOne DEF r
<1>4. \A k \in 1..Len(flight) : k = i \/ \E j \in 1..Len(flight') : p[j] = k
  <2> TAKE k \in 1..Len(flight)
  <2>1. CASE k < i
    BY <1>1, <1>3, <2>1
  <2>2. CASE k > i
    <3>1. k - 1 \in 1..Len(flight') /\ p[k - 1] = k
      BY <1>1, <1>3, <2>2
    <3> QED BY <3>1
  <2> QED BY <1>1, <2>1, <2>2
<1>5. /\ p \in [1..Len(flight') -> 0..Len(flight)]
      /\ \A j \in 1..Len(flight') :
           p[j] = IF j = Len(flight') THEN 0 ELSE IF j < i THEN j ELSE j + 1
  BY <1>1, <1>3
<1> HIDE DEF p
<1>6. \A j, k \in 1..Len(flight') : j < k /\ p[k] # 0 => p[j] # 0 /\ p[j] < p[k]
  BY <1>1, <1>3, <1>5
<1>7. ASSUME NEW j \in 1..Len(flight')
      PROVE  IF p[j] = 0 THEN flight'[j] = r ELSE p[j] # i /\ flight'[j] = flight[p[j]]
  <2>1. CASE j = Len(flight)
    BY <1>1, <1>3, <1>5, <2>1
  <2>2. CASE j # Len(flight)
    <3>1. j \in 1..(Len(flight) - 1) /\ p[j] = IF j < i THEN j ELSE j + 1
      BY <1>1, <1>3, <1>5, <2>2
    <3> QED BY <1>1, <1>3, <3>1
  <2> QED BY <2>1, <2>2
<1>8. Follows(p, i)
  <2>1. \A j \in 1..Len(flight') :
          IF p[j] = 0 THEN flight'[j].at = "sent" /\ flight'[j].update = {}
          ELSE p[j] # i /\ Remains(flight[p[j]], flight'[j])
    BY <1>2, <1>7 DEF Remains
  <2> QED BY <1>4, <1>5, <1>6, <2>1 DEF Follows
<1>9. \A j \in 1..Len(flight') : p[j] = 0 => flight'[j] = r
  BY <1>7
<1> QED BY <1>1, <1>3, <1>8, <1>9 DEF r

LEMMA UnheardFollows ==
  ASSUME EditorTypeOK, EditorAssumption, NEW i \in 1..Len(flight), flight' = Unheard(Without(i))
  PROVE  /\ flight' \in Seq(Request) /\ Len(flight') <= MaxFlight
         /\ \E p : Follows(p, i) /\ \A j \in 1..Len(flight') : p[j] # 0
<1> DEFINE p == [j \in 1..Len(flight') |-> IF j < i THEN j ELSE j + 1]
<1>1. flight \in Seq(Request) /\ Len(flight) \in Nat /\ MaxFlight \in Nat /\ Len(flight) <= MaxFlight
  BY DEF EditorTypeOK, EditorAssumption
<1>2. /\ Without(i) \in Seq(Request) /\ Len(Without(i)) = Len(flight) - 1
      /\ \A j \in 1..Len(Without(i)) : Without(i)[j] = flight[IF j < i THEN j ELSE j + 1]
  BY <1>1, WithoutOne
<1>3. \A j \in 1..Len(Without(i)) :
        /\ Without(i)[j] \in Request
        /\ [Without(i)[j] EXCEPT !.at = "failed"] \in Request
  <2>1. \A j \in 1..Len(Without(i)) : Without(i)[j] \in Request
    BY <1>2
  <2> QED BY <2>1 DEF Request
<1>4. /\ flight' \in Seq(Request) /\ Len(flight') = Len(flight) - 1
      /\ \A j \in 1..Len(flight') : Remains(flight[p[j]], flight'[j])
  <2>1. flight' = [j \in 1..Len(Without(i)) |->
           IF Without(i)[j].kind = "poll" THEN [Without(i)[j] EXCEPT !.at = "failed"] ELSE Without(i)[j]]
    BY DEF Unheard
  <2>2. flight' \in Seq(Request) /\ Len(flight') = Len(flight) - 1
    <3>1. Len(Without(i)) \in Nat
      BY <1>1, <1>2
    <3>2. flight' \in [1..Len(Without(i)) -> Request]
      BY <1>3, <2>1
    <3> QED BY <1>2, <3>1, <3>2
  <2>3. ASSUME NEW j \in 1..Len(flight') PROVE Remains(flight[p[j]], flight'[j])
    <3>1. /\ j \in 1..Len(Without(i)) /\ Without(i)[j] \in Request
          /\ flight[p[j]] = Without(i)[j]
      BY <1>1, <1>2, <2>2
    <3>2. flight'[j] = IF Without(i)[j].kind = "poll"
                       THEN [Without(i)[j] EXCEPT !.at = "failed"] ELSE Without(i)[j]
      BY <2>1, <3>1
    <3> QED BY <3>1, <3>2 DEF Remains, Request
  <2> QED BY <2>2, <2>3
<1>5. \A k \in 1..Len(flight) : k = i \/ \E j \in 1..Len(flight') : p[j] = k
  <2> TAKE k \in 1..Len(flight)
  <2>1. CASE k < i
    BY <1>1, <1>4, <2>1
  <2>2. CASE k > i
    <3>1. k - 1 \in 1..Len(flight') /\ p[k - 1] = k
      BY <1>1, <1>4, <2>2
    <3> QED BY <3>1
  <2> QED BY <1>1, <2>1, <2>2
<1>6. Follows(p, i)
  BY <1>1, <1>4, <1>5 DEF Follows
<1>7. \A j \in 1..Len(flight') : p[j] # 0
  BY <1>1, <1>4
<1>8. Len(flight') <= MaxFlight
  BY <1>1, <1>4
<1> HIDE DEF p
<1> QED BY <1>4, <1>6, <1>7, <1>8

-------------------------------------------------------------------------------
(* The types of the tab                                                      *)

LEMMA RacesTyped ==
  ASSUME NEW c, NEW m, NEW i
  PROVE  Unsaved(c) \subseteq Race /\ Reverted(c, m) \subseteq Race /\ Behind(i) \subseteq Race
BY DEF Unsaved, Reverted, Behind, Race

LEMMA ViewTyped == ASSUME NEW r \in Row PROVE View(r) \in VideoEdit
BY DEF View, VideoEdit, Row, RenderCurrent

LEMMA FoldedTyped ==
  ASSUME EditorTypeOK, NEW c \in Cut, NEW v \in VideoEdit
  PROVE  /\ DOMAIN Folded(c, v) = DOMAIN edits \cup {c} /\ DOMAIN Folded(c, v) \subseteq Cut
         /\ Folded(c, v)[c] = v
         /\ \A d \in DOMAIN edits : d # c => Folded(c, v)[d] = edits[d]
         /\ \A d \in DOMAIN Folded(c, v) : Folded(c, v)[d] \in VideoEdit
BY DEF EditorTypeOK, Folded

LEMMA EffectTyped ==
  ASSUME NEW es, NEW sel, NEW ps
  PROVE  \A c \in Effect(es, sel, ps) : c \in ps \/ (c \in sel /\ c \in DOMAIN es)
BY DEF Effect, Working

\* A request in flight.
LEMMA InFlight ==
  ASSUME EditorTypeOK, NEW i \in 1..Len(flight)
  PROVE  /\ flight[i] \in Request
         /\ \A c \in flight[i].cut : c \in Cut /\ flight[i].cut = {c}
         /\ \A m \in flight[i].manifest : m \in Manifest /\ flight[i].manifest = {m}
         /\ \A v \in flight[i].answer : v \in VideoEdit /\ flight[i].answer = {v}
         /\ \A u \in flight[i].update : u \in Columns /\ flight[i].update = {u}
<1>1. flight[i] \in Request
  BY DEF EditorTypeOK
<1> QED BY <1>1 DEF Request, Option

LEMMA RemoteTyped == ASSUME TypeOK, UNCHANGED renderVars PROVE TypeOK'
BY DEF TypeOK, renderVars

\* A manifest in which one control has been moved.
LEMMA MovedTyped ==
  ASSUME EditorAssumption, NEW m \in Manifest, NEW part \in {"look", "sound"},
         NEW v \in 0..MaxChanges
  PROVE  /\ [m EXCEPT ![part] = v] \in Manifest /\ [m EXCEPT ![part] = v][part] = v
         /\ \A o \in {"look", "sound"} : o # part => [m EXCEPT ![part] = v][o] = m[o]
BY DEF EditorAssumption, VideoEditManifest

\* What a step of the tab may do to what it keeps.
TabTyped ==
  /\ DOMAIN edits' \subseteq Cut /\ \A c \in DOMAIN edits' : edits'[c] \in VideoEdit
  /\ selected' \in Option(Cut) /\ manifest' \in Option(Manifest)
  /\ timer' \subseteq [cut: Cut, manifest: Manifest]
  /\ flushable' \in BOOLEAN /\ saving' \in BOOLEAN /\ creating' \in BOOLEAN
  /\ polls' \subseteq Cut
  /\ flight' \in Seq(Request) /\ Len(flight') <= MaxFlight
  /\ DOMAIN wanted' \subseteq Cut /\ \A c \in DOMAIN wanted' : wanted'[c] \in Manifest
  /\ changes' \in 0..MaxChanges /\ clicks' \in 0..MaxClicks
  /\ races' \subseteq Race

LEMMA TabTypedIs == TypeOK' /\ TabTyped => EditorTypeOK'
BY DEF EditorTypeOK, TabTyped

LEMMA ClickTyped == ASSUME EditorTypeOK, EditorAssumption, Click PROVE clicks' \in 0..MaxClicks
BY DEF EditorTypeOK, EditorAssumption, Click

LEMMA MoveTyped ==
  ASSUME EditorTypeOK, EditorAssumption, NEW part \in {"look", "sound"}, Change(part)
  PROVE  EditorTypeOK'
<1>1. changes + 1 \in 0..MaxChanges /\ changes' = changes + 1
  BY DEF Change, EditorTypeOK, EditorAssumption
<1>2. PICK c \in selected, m \in manifest, v \in {0, changes + 1} :
        /\ manifest' = {[m EXCEPT ![part] = v]}
        /\ wanted' = [wanted EXCEPT ![c][part] = v]
        /\ Save(c, [m EXCEPT ![part] = v])
        /\ races' = races \cup Unsaved(c)
  BY DEF Change, Moved
<1>3. c \in Cut /\ m \in Manifest /\ v \in 0..MaxChanges
  BY <1>1 DEF EditorTypeOK, Option, EditorAssumption
<1>4. [m EXCEPT ![part] = v] \in Manifest
  BY <1>3, MovedTyped
<1>5. DOMAIN wanted' \subseteq Cut /\ \A d \in DOMAIN wanted' : wanted'[d] \in Manifest
  <2>1. c \in DOMAIN wanted => [wanted[c] EXCEPT ![part] = v] \in Manifest
    BY <1>3, MovedTyped DEF EditorTypeOK
  <2> QED BY <1>2, <2>1 DEF EditorTypeOK
<1>6. TypeOK'
  BY RemoteTyped DEF Change, EditorTypeOK
<1>7. TabTyped
  <2>1. races' \subseteq Race
    BY <1>2, RacesTyped DEF EditorTypeOK
  <2>2. /\ timer' \subseteq [cut: Cut, manifest: Manifest] /\ manifest' \in Option(Manifest)
        /\ flushable' \in BOOLEAN /\ saving' \in BOOLEAN
    BY <1>2, <1>3, <1>4 DEF Save, Option
  <2> QED BY <1>1, <1>5, <2>1, <2>2 DEF Change, EditorTypeOK, TabTyped, list
<1> QED BY <1>6, <1>7, TabTypedIs

\* What an upload is begun with.
LEMMA UploadTyped ==
  ASSUME EditorTypeOK, EditorAssumption, UploadClick
  PROVE  {[x EXCEPT !.sound = changes + 1] : x \in manifest} \in Option(Manifest)
<1>1. changes + 1 \in 0..MaxChanges
  BY DEF UploadClick, EditorTypeOK, EditorAssumption
<1>2. \A x \in Manifest : [x EXCEPT !.sound = changes + 1] \in Manifest
  BY <1>1 DEF EditorAssumption, VideoEditManifest
<1>3. CASE manifest = {}
  BY <1>3 DEF Option
<1>4. ASSUME NEW y \in Manifest, manifest = {y}
      PROVE  {[x EXCEPT !.sound = changes + 1] : x \in manifest} \in Option(Manifest)
  <2>1. {[x EXCEPT !.sound = changes + 1] : x \in manifest} = {[y EXCEPT !.sound = changes + 1]}
    BY <1>4
  <2> QED BY <1>2, <1>4, <2>1 DEF Option
<1> QED BY <1>3, <1>4 DEF EditorTypeOK, Option

\* A click or a timeout that only sends a request.
LEMMA Sends ==
  ASSUME EditorTypeOK, EditorAssumption,
         CreateCutClick \/ RemoveCut \/ ExportClick \/ ShareClick \/ UploadClick \/ FireSave
           \/ \E c \in Cut : FirePoll(c)
  PROVE  \E kind \in Kind, c \in Option(Cut), m \in Option(Manifest) : Send(kind, c, m)
<1> USE DEF Option
<1>1. {} \in Option(Manifest) /\ {} \in Option(Cut) /\ selected \in Option(Cut)
      /\ manifest \in Option(Manifest) /\ {Blank} \in Option(Manifest)
      /\ \A d \in Cut : {d} \in Option(Cut)
  BY CutAssumption DEF CutAssumption, EditorTypeOK
<1>2. /\ \A d \in selected : d \in Cut
      /\ \A t \in timer : {t.cut} \in Option(Cut) /\ {t.manifest} \in Option(Manifest)
  BY DEF EditorTypeOK
<1>3. CASE CreateCutClick
  BY <1>1, <1>3 DEF CreateCutClick, Kind
<1>4. CASE RemoveCut
  BY <1>1, <1>2, <1>4 DEF RemoveCut, Kind
<1>5. CASE ExportClick
  BY <1>1, <1>2, <1>5 DEF ExportClick, Kind
<1>6. CASE ShareClick
  BY <1>1, <1>2, <1>6 DEF ShareClick, Kind
<1>7. CASE UploadClick
  <2>1. {[x EXCEPT !.sound = changes + 1] : x \in manifest} \in Option(Manifest)
    BY <1>7, UploadTyped
  <2> QED BY <1>1, <1>7, <2>1 DEF UploadClick, Kind
<1>8. CASE FireSave
  BY <1>2, <1>8 DEF FireSave, Kind
<1>9. CASE \E d \in Cut : FirePoll(d)
  BY <1>1, <1>9 DEF FirePoll, Kind
<1> QED BY <1>3, <1>4, <1>5, <1>6, <1>7, <1>8, <1>9

LEMMA SendTyped ==
  ASSUME EditorTypeOK, EditorAssumption,
         CreateCutClick \/ RemoveCut \/ ExportClick \/ ShareClick \/ UploadClick \/ FireSave
           \/ \E c \in Cut : FirePoll(c)
  PROVE  EditorTypeOK'
<1>1. TypeOK'
  BY RemoteTyped DEF EditorTypeOK, CreateCutClick, RemoveCut, ExportClick, ShareClick, UploadClick,
     FireSave, FirePoll
<1>2. PICK kind \in Kind, c \in Option(Cut), m \in Option(Manifest) : Send(kind, c, m)
  BY Sends
<1>3. flight' \in Seq(Request) /\ Len(flight') <= MaxFlight
  BY <1>2, SendFollows
<1>4. clicks' \in 0..MaxClicks /\ changes' \in 0..MaxChanges
  <2>1. Click \/ clicks' = clicks
    BY DEF history, CreateCutClick, RemoveCut, ExportClick, ShareClick, UploadClick, FireSave, FirePoll
  <2>2. changes' = changes \/ (changes < MaxChanges /\ changes' = changes + 1)
    BY DEF history, CreateCutClick, RemoveCut, ExportClick, ShareClick, UploadClick, FireSave, FirePoll
  <2>3. clicks' \in 0..MaxClicks
    BY <2>1, ClickTyped DEF EditorTypeOK
  <2> QED BY <2>2, <2>3 DEF EditorTypeOK, EditorAssumption
<1>5. TabTyped
  BY <1>3, <1>4 DEF EditorTypeOK, TabTyped, list, screen, autosave, history, CreateCutClick,
     RemoveCut, ExportClick, ShareClick, UploadClick, FireSave, FirePoll
<1> QED BY <1>1, <1>5, TabTypedIs

LEMMA SelectTyped ==
  ASSUME EditorTypeOK, EditorAssumption, NEW c \in Cut, SelectCut(c)
  PROVE  EditorTypeOK'
<1>1. TypeOK'
  BY RemoteTyped DEF EditorTypeOK, SelectCut
<1>2. c \in DOMAIN edits /\ edits[c] \in VideoEdit /\ selected' = {c} /\ manifest' = {edits[c].manifest}
  BY DEF SelectCut, Show, EditorTypeOK
<1>3. selected' \in Option(Cut) /\ manifest' \in Option(Manifest)
  BY <1>2 DEF Option, VideoEdit
<1>4. flight' \in Seq(Request) /\ Len(flight') <= MaxFlight
  <2>1. CASE flight' = flight
    BY <2>1 DEF EditorTypeOK
  <2>2. CASE Send("flush", selected, manifest)
    BY <2>2, SendFollows DEF EditorTypeOK, Kind
  <2> QED BY <2>1, <2>2 DEF SelectCut
<1>5. polls' \subseteq Cut
  BY EffectTyped DEF SelectCut, EditorTypeOK
<1>6. races' \subseteq Race
  <2>1. \A d \in selected : Unsaved(d) \subseteq Race
    BY RacesTyped
  <2>2. UNION {Unsaved(d) : d \in selected} \subseteq Race
    BY <2>1
  <2> QED BY <2>2, RacesTyped DEF SelectCut, EditorTypeOK
<1>7. clicks' \in 0..MaxClicks
  BY ClickTyped DEF SelectCut
<1>8. timer' \subseteq [cut: Cut, manifest: Manifest] /\ flushable' \in BOOLEAN /\ saving' \in BOOLEAN
  BY DEF SelectCut, EditorTypeOK, autosave
<1>9. TabTyped
  BY <1>3, <1>4, <1>5, <1>6, <1>7, <1>8 DEF EditorTypeOK, TabTyped, SelectCut
<1> QED BY <1>1, <1>9, TabTypedIs

\* The answers, each folded in or acted upon.
LEMMA AnswerTyped ==
  ASSUME EditorTypeOK, EditorAssumption, NEW i \in 1..Len(flight), Answer(i)
  PROVE  EditorTypeOK'
<1>1. TypeOK'
  BY RemoteTyped DEF EditorTypeOK, Answer, Saved, Created, Removed, Polled, Shared, Uploaded, Failed
<1>2. flight' \in Seq(Request) /\ Len(flight') <= MaxFlight
  BY WithoutFollows, SharedFollows, UnheardFollows
  DEF Answer, Saved, Created, Removed, Polled, Shared, Uploaded, Failed
<1>3. ASSUME Saved(i) \/ Polled(i) PROVE TabTyped
  <2>1. PICK c \in flight[i].cut, v \in flight[i].answer :
          edits' = Folded(c, v) /\ polls' \subseteq Effect(edits', selected, polls) \cup {c}
    BY <1>3 DEF Saved, Polled, MergeEdit
  <2>2. c \in Cut /\ v \in VideoEdit
    BY InFlight
  <2>3. DOMAIN edits' \subseteq Cut /\ \A d \in DOMAIN edits' : edits'[d] \in VideoEdit
    BY <2>1, <2>2, FoldedTyped
  <2>4. polls' \subseteq Cut
    BY <2>1, <2>2, <2>3, EffectTyped DEF EditorTypeOK
  <2>5. races' \subseteq Race
    BY <1>3, RacesTyped DEF Saved, Polled, EditorTypeOK
  <2>6. saving' \in BOOLEAN
    BY <1>3 DEF Saved, Polled, EditorTypeOK, autosave
  <2> QED BY <1>2, <1>3, <2>3, <2>4, <2>5, <2>6 DEF Saved, Polled, EditorTypeOK, TabTyped, screen, autosave
<1>4. ASSUME Created(i) PROVE TabTyped
  <2>1. PICK c \in flight[i].cut, v \in flight[i].answer :
          /\ edits' = Folded(c, v) /\ polls' = Effect(edits', {c}, polls)
          /\ selected' = {c} /\ manifest' = {edits'[c].manifest}
    BY <1>4 DEF Created, Show
  <2>2. c \in Cut /\ v \in VideoEdit
    BY InFlight
  <2>3. DOMAIN edits' \subseteq Cut /\ \A d \in DOMAIN edits' : edits'[d] \in VideoEdit
    BY <2>1, <2>2, FoldedTyped
  <2>4. polls' \subseteq Cut
    BY <2>1, <2>2, <2>3, EffectTyped DEF EditorTypeOK
  <2>5. selected' \in Option(Cut) /\ manifest' \in Option(Manifest)
    BY <2>1, <2>2, FoldedTyped DEF Option, VideoEdit
  <2> QED BY <1>2, <1>4, <2>3, <2>4, <2>5 DEF Created, EditorTypeOK, TabTyped, autosave, history
<1>5. ASSUME Removed(i) PROVE TabTyped
  <2>1. PICK c \in flight[i].cut :
          LET remaining == [d \in DOMAIN edits \ {c} |-> edits[d]]
          IN /\ edits' = remaining
             /\ \/ selected' = {} /\ manifest' = {} /\ polls' = {} /\ UNCHANGED races
                \/ \E d \in DOMAIN remaining :
                     /\ Show(d, remaining) /\ polls' = Effect(remaining, {d}, polls)
                     /\ races' = races \cup Reverted(d, remaining[d].manifest)
    BY <1>5 DEF Removed
  <2>2. DOMAIN edits' \subseteq Cut /\ \A d \in DOMAIN edits' : edits'[d] \in VideoEdit
    BY <2>1 DEF EditorTypeOK
  <2>3. /\ selected' \in Option(Cut) /\ manifest' \in Option(Manifest)
        /\ polls' \subseteq Cut /\ races' \subseteq Race
    <3>1. CASE selected' = {} /\ manifest' = {} /\ polls' = {} /\ UNCHANGED races
      BY <3>1 DEF Option, EditorTypeOK
    <3>2. ASSUME NEW d \in DOMAIN edits', Show(d, edits'), polls' = Effect(edits', {d}, polls),
                 races' = races \cup Reverted(d, edits'[d].manifest)
          PROVE  /\ selected' \in Option(Cut) /\ manifest' \in Option(Manifest)
                 /\ polls' \subseteq Cut /\ races' \subseteq Race
      <4>1. selected' = {d} /\ manifest' = {edits'[d].manifest} /\ edits'[d].manifest \in Manifest
        BY <2>2, <3>2 DEF Show, VideoEdit
      <4>2. polls' \subseteq Cut
        BY <2>2, <3>2, EffectTyped DEF EditorTypeOK
      <4>3. races' \subseteq Race
        BY <3>2, RacesTyped DEF EditorTypeOK
      <4> QED BY <2>2, <4>1, <4>2, <4>3 DEF Option
    <3> QED BY <2>1, <3>1, <3>2
  <2> QED BY <1>2, <1>5, <2>2, <2>3 DEF Removed, EditorTypeOK, TabTyped, autosave
<1>6. ASSUME Shared(i) \/ Failed(i) PROVE TabTyped
  <2>1. saving' \in BOOLEAN /\ creating' \in BOOLEAN
    BY <1>6 DEF Shared, Failed, EditorTypeOK, autosave
  <2> QED BY <1>2, <1>6, <2>1 DEF Shared, Failed, EditorTypeOK, TabTyped, list, screen, autosave, history
<1>7. ASSUME Uploaded(i) PROVE TabTyped
  <2>1. PICK c \in flight[i].cut, m \in flight[i].manifest :
          /\ manifest' = {m} /\ wanted' = [wanted EXCEPT ![c].sound = m.sound] /\ Save(c, m)
          /\ races' = races \cup Unsaved(c)
                            \cup (IF selected = {c} /\ m = wanted'[c] THEN {} ELSE {"reverted"})
    BY <1>7 DEF Uploaded
  <2>2. c \in Cut /\ m \in Manifest
    BY InFlight
  <2>3. DOMAIN wanted' \subseteq Cut /\ \A d \in DOMAIN wanted' : wanted'[d] \in Manifest
    <3>1. m.sound \in 0..MaxChanges
      BY <2>2 DEF EditorAssumption, VideoEditManifest
    <3>2. c \in DOMAIN wanted => [wanted[c] EXCEPT !.sound = m.sound] \in Manifest
      BY <3>1 DEF EditorAssumption, EditorTypeOK, VideoEditManifest
    <3> QED BY <2>1, <3>2 DEF EditorTypeOK
  <2>4. races' \subseteq Race
    BY <2>1, RacesTyped DEF EditorTypeOK, Race
  <2>5. /\ timer' \subseteq [cut: Cut, manifest: Manifest] /\ manifest' \in Option(Manifest)
        /\ flushable' \in BOOLEAN /\ saving' \in BOOLEAN
    BY <2>1, <2>2 DEF Save, Option
  <2> QED BY <1>2, <1>7, <2>3, <2>4, <2>5 DEF Uploaded, EditorTypeOK, TabTyped, list
<1> QED BY <1>1, <1>3, <1>4, <1>5, <1>6, <1>7, TabTypedIs DEF Answer

\* What the server and the pool do to the requests: the handled one is answered, or fails, and
\* the others may have gone stale.
LEMMA RequestAged == ASSUME NEW r \in Request PROVE Aged(r) \in Request
BY DEF Aged, Request

LEMMA ReplyTyped ==
  ASSUME EditorTypeOK, TypeOK', NEW i \in 1..Len(flight), NEW c \in Cut, Reply(i, c)
  PROVE  flight' \in Seq(Request) /\ Len(flight') = Len(flight)
<1> DEFINE n == Len(flight)
           answered == [flight[i] EXCEPT !.at = "answered", !.update = {},
                          !.answer = IF c \in DOMAIN row' THEN {View(row'[c])} ELSE {}, !.cut = {c}]
<1>1. n \in Nat /\ \A j \in 1..n : flight[j] \in Request
  BY DEF EditorTypeOK
<1>2. answered \in Request
  <2>1. (IF c \in DOMAIN row' THEN {View(row'[c])} ELSE {}) \in Option(VideoEdit)
    BY ViewTyped DEF TypeOK, Option
  <2>2. {c} \in Option(Cut) /\ {} \in Option(Columns)
    BY DEF Option
  <2> QED BY <1>1, <2>1, <2>2 DEF Request
<1>3. flight' = [j \in 1..n |-> IF j = i THEN answered ELSE Aged(flight[j])]
  BY DEF Reply
<1> HIDE DEF answered
<1>4. flight' \in [1..n -> Request]
  BY <1>1, <1>2, <1>3, RequestAged
<1> HIDE DEF n
<1> QED BY <1>1, <1>4 DEF n

LEMMA GoesTyped ==
  ASSUME EditorTypeOK, NEW i \in 1..Len(flight), NEW at \in {"read", "queued", "failed"},
         NEW u \in Option(Columns), Goes(i, at, u)
  PROVE  flight' \in Seq(Request) /\ Len(flight') = Len(flight)
<1> DEFINE n == Len(flight)
           gone == [flight[i] EXCEPT !.at = at, !.update = u]
<1>1. n \in Nat /\ \A j \in 1..n : flight[j] \in Request
  BY DEF EditorTypeOK
<1>2. gone \in Request
  BY <1>1 DEF Request
<1>3. flight' = [j \in 1..n |-> IF j = i THEN gone ELSE Aged(flight[j])]
  BY DEF Goes
<1> HIDE DEF gone
<1>4. flight' \in [1..n -> Request]
  BY <1>1, <1>2, <1>3, RequestAged
<1> HIDE DEF n
<1> QED BY <1>1, <1>4 DEF n

LEMMA AgedTyped ==
  ASSUME EditorTypeOK, flight' = [j \in 1..Len(flight) |-> Aged(flight[j])]
  PROVE  flight' \in Seq(Request) /\ Len(flight') = Len(flight)
<1> DEFINE n == Len(flight)
<1>1. n \in Nat /\ \A j \in 1..n : flight[j] \in Request
  BY DEF EditorTypeOK
<1>2. flight' \in [1..n -> Request]
  BY <1>1, RequestAged
<1> HIDE DEF n
<1> QED BY <1>1, <1>2 DEF n

-------------------------------------------------------------------------------
(* What the server and the pool do to a row                                  *)

\* A row that is there after the step was there before, asks for the same, and exports it if it
\* did.
Stays(c) ==
  Exists(c)' => /\ Exists(c)
                /\ row'[c].manifest = row[c].manifest
                /\ Exports(c) => Exports(c)'

LEMMA ToldStays == ASSUME NEW c, NEW v, Stays(c), Told(v, c) PROVE Told(v, c)'
BY DEF Stays, Told

LEMMA UntouchedStays ==
  ASSUME NEW c, Exists(c)' => Exists(c) /\ row'[c] = row[c], pool' = pool
  PROVE  Stays(c)
BY DEF Stays, Exports, Encoded, RenderCurrent

\* An UPDATE gives its row what it was decided to, and leaves the rest.
LEMMA CommitRow ==
  ASSUME TypeOK, NEW d \in Cut, NEW u \in Columns, Commit(d, u)
  PROVE  /\ d \in DOMAIN row /\ DOMAIN row' = DOMAIN row /\ pool' = pool
         /\ \A e \in DOMAIN row : e # d => row'[e] = row[e]
         /\ row'[d].manifest \in Given(u.manifest, row[d].manifest)
         /\ row'[d].status \in Given(u.status, row[d].status)
         /\ row'[d].asset = row[d].asset /\ row'[d].hash = row[d].hash
<1>1. d \in DOMAIN row /\ row[d] \in Row /\ pool' = pool
  BY DEF TypeOK, Commit, Exists
<1>2. PICK m \in Given(u.manifest, row[d].manifest), st \in Given(u.status, row[d].status) :
        Stored(d, [row[d] EXCEPT !.manifest = m, !.status = st])
  BY DEF Commit
<1>3. /\ DOMAIN row' = DOMAIN row /\ \A e \in DOMAIN row : e # d => row'[e] = row[e]
      /\ row'[d] = [row[d] EXCEPT !.manifest = m, !.status = st]
  BY <1>1, <1>2 DEF Stored
<1>4. /\ row'[d].manifest = m /\ row'[d].status = st
      /\ row'[d].asset = row[d].asset /\ row'[d].hash = row[d].hash
  BY <1>1, <1>3 DEF Row
<1> QED BY <1>1, <1>2, <1>3, <1>4

\* What a caller does to a cut that is not its own, or without saving it.
LEMMA CallerStays ==
  ASSUME TypeOK, NEW c \in Cut, NEW d \in Cut,
         \/ DeleteCut(d) \/ ShareCut(d) \/ RevokeShare(d) \/ ShareExpires(d)
         \/ \E u \in Columns : (c # d \/ u.manifest = {}) /\ Commit(d, u)
         \/ c # d /\ \E m \in Manifest : CreateCut(d, m)
  PROVE  Stays(c) /\ (c # d => (Exists(c)' <=> Exists(c)))
<1> USE DEF Exists
<1>1. d \in DOMAIN row => row[d] \in Row
  BY DEF TypeOK
<1>2. pool' = pool
  BY DEF DeleteCut, ShareCut, RevokeShare, ShareExpires, Commit, CreateCut
<1>3. CASE c # d
  <2>1. (c \in DOMAIN row' <=> c \in DOMAIN row) /\ (c \in DOMAIN row => row'[c] = row[c])
    <3>1. ASSUME NEW u \in Columns, Commit(d, u)
          PROVE  (c \in DOMAIN row' <=> c \in DOMAIN row) /\ (c \in DOMAIN row => row'[c] = row[c])
      BY <1>3, <3>1, CommitRow
    <3> QED BY <1>3, <3>1 DEF DeleteCut, ShareCut, RevokeShare, ShareExpires, CreateCut, Stored
  <2> QED BY <1>2, <2>1, UntouchedStays
<1>4. CASE c = d
  <2>1. CASE DeleteCut(d)
    BY <1>4, <2>1 DEF DeleteCut, Stays
  <2>2. ASSUME d \in DOMAIN row, row'[d].manifest = row[d].manifest,
               row'[d].asset = row[d].asset, row'[d].hash = row[d].hash
        PROVE  Stays(c)
    BY <1>2, <1>4, <2>2 DEF Stays, Exports, Encoded, RenderCurrent
  <2>3. CASE ShareCut(d) \/ RevokeShare(d) \/ ShareExpires(d)
    <3>1. d \in DOMAIN row /\ row[d] \in Row
      BY <1>1, <2>3 DEF ShareCut, RevokeShare, ShareExpires
    <3>2. /\ row'[d].manifest = row[d].manifest
          /\ row'[d].asset = row[d].asset /\ row'[d].hash = row[d].hash
      BY <2>3, <3>1 DEF ShareCut, RevokeShare, ShareExpires, Stored, Row
    <3> QED BY <1>4, <2>2, <3>1, <3>2
  <2>4. ASSUME NEW u \in Columns, u.manifest = {}, Commit(d, u) PROVE Stays(c)
    BY <2>2, <2>4, CommitRow DEF Given
  <2> QED BY <1>4, <2>1, <2>3, <2>4
<1> QED BY <1>3, <1>4

\* The pool captures the manifest that is asked for, claims the row while it still is, and finishes
\* with what it has captured.
LEMMA PoolStays ==
  ASSUME TypeOK, NEW c \in Cut, Pool, \A t \in pool : ~ClaimTorn(t)
  PROVE  Stays(c) /\ (Exists(c)' <=> Exists(c))
<1> USE DEF Exists
<1>1. ASSUME NEW d \in Cut, NEW a \in Attempt, Deliver(d, a)
      PROVE  Stays(c) /\ (Exists(c)' <=> Exists(c))
  <2>1. CASE BeginMissing(d, a) \/ BeginCached(d, a)
    <3>1. row' = row /\ pool' = pool
      BY <2>1 DEF BeginMissing, BeginCached
    <3> QED BY <3>1, UntouchedStays
  <2>2. CASE BeginRender(d, a)
    <3>1. row' = row /\ \A t \in pool' : t.cut = d /\ t.manifest = row[d].manifest
      BY <2>2 DEF BeginRender
    <3> QED BY <3>1 DEF Stays, Exports, Encoded, RenderCurrent
  <2> QED BY <1>1, <2>1, <2>2 DEF Deliver
<1>2. ASSUME NEW t \in pool, ClaimRender(t) \/ FinishRender(t) \/ FailRender(t) \/ Crash(t)
      PROVE  Stays(c) /\ (Exists(c)' <=> Exists(c))
  <2>1. /\ DOMAIN row' = DOMAIN row /\ \A e \in DOMAIN row : e # t.cut => row'[e] = row[e]
        /\ \A u \in pool' : u.cut = t.cut /\ u.manifest = t.manifest /\ ClaimRender(t)
    <3>1. t \in Task
      BY DEF TypeOK
    <3> QED BY <1>2, <3>1 DEF ClaimRender, FinishRender, FailRender, Crash, Stored, Task
  <2>2. CASE c # t.cut
    BY <2>1, <2>2 DEF Stays, Exports, Encoded, RenderCurrent
  <2>3. CASE c = t.cut /\ c \in DOMAIN row
    <3>1. row[c] \in Row
      BY <2>3 DEF TypeOK
    <3>2. ASSUME row'[c].asset = row[c].asset, row'[c].hash = row[c].hash,
                 row'[c].manifest = row[c].manifest, ClaimRender(t) => t.manifest = row[c].manifest
          PROVE  Stays(c)
      BY <2>1, <2>3, <3>2 DEF Stays, Exports, Encoded, RenderCurrent
    <3>3. CASE FinishRender(t)
      <4>1. /\ row'[c].manifest = row[c].manifest
            /\ row'[c].asset = {t.manifest} /\ row'[c].hash = {t.manifest} /\ pool' = {}
        BY <2>3, <3>1, <3>3 DEF FinishRender, Stored, Row
      <4>2. Exports(c) => t.manifest = row[c].manifest
        BY <2>3, <3>3 DEF Exports, Encoded, FinishRender
      <4>3. Stays(c)
        BY <2>1, <2>3, <4>1, <4>2 DEF Stays, Exports, Encoded, RenderCurrent
      <4> QED BY <2>1, <4>3
    <3>4. CASE Crash(t)
      <4>1. row' = row /\ pool' = {}
        BY <3>4 DEF Crash
      <4> QED BY <4>1 DEF Stays, Exports, Encoded, RenderCurrent
    <3>5. CASE FailRender(t)
      <4>1. row'[c] = [row[c] EXCEPT !.status = "failed"] /\ pool' = {}
        BY <2>3, <3>5 DEF FailRender, Stored
      <4>2. /\ row'[c].asset = row[c].asset /\ row'[c].hash = row[c].hash
            /\ row'[c].manifest = row[c].manifest
        BY <3>1, <4>1 DEF Row
      <4> QED BY <2>1, <2>3, <4>1, <4>2 DEF Stays, Exports, Encoded, RenderCurrent
    <3>6. CASE ClaimRender(t)
      <4>1. row'[c] = [row[c] EXCEPT !.status = "rendering"] /\ t.at = "claiming"
        BY <2>3, <3>6 DEF ClaimRender, Stored
      <4>2. /\ row'[c].asset = row[c].asset /\ row'[c].hash = row[c].hash
            /\ row'[c].manifest = row[c].manifest /\ row'[c].status = "rendering"
        BY <3>1, <4>1 DEF Row
      <4>3. t.manifest = row[c].manifest
        BY <2>3, <4>1, <4>2 DEF ClaimTorn
      <4> QED BY <2>1, <2>3, <3>2, <4>2, <4>3
    <3> QED BY <1>2, <3>3, <3>4, <3>5, <3>6
  <2>4. CASE c \notin DOMAIN row
    BY <2>1, <2>4 DEF Stays
  <2> QED BY <2>2, <2>3, <2>4
<1> QED BY <1>1, <1>2 DEF Pool

\* A row is put out of "rendering" by the pool, when it is done with it, or by a handler that had
\* read the row before it was claimed.
LEMMA EncodingCaller ==
  ASSUME TypeOK, EncodingShown, NEW d \in Cut,
         \/ DeleteCut(d) \/ ShareCut(d) \/ RevokeShare(d) \/ ShareExpires(d)
         \/ \E u \in Columns : Commit(d, u) /\ Torn(d, u) = {}
         \/ (\E m \in Manifest : CreateCut(d, m)) /\ \A t \in pool : t.cut # d
  PROVE  EncodingShown'
<1> USE DEF Exists
<1>1. pool' = pool
  BY DEF DeleteCut, ShareCut, RevokeShare, ShareExpires, Commit, CreateCut
<1>2. SUFFICES ASSUME NEW t \in pool, t.at = "encoding", t.cut \in DOMAIN row'
               PROVE  row'[t.cut].status = "rendering"
  BY <1>1 DEF EncodingShown
<1>3. ASSUME NEW u \in Columns, Commit(d, u), Torn(d, u) = {}
      PROVE  row'[t.cut].status = "rendering"
  <2>1. /\ d \in DOMAIN row /\ DOMAIN row' = DOMAIN row
        /\ \A e \in DOMAIN row : e # d => row'[e] = row[e]
        /\ row'[d].status \in Given(u.status, row[d].status)
    BY <1>3, CommitRow
  <2>2. row[t.cut].status = "rendering"
    BY <1>2, <2>1 DEF EncodingShown
  <2>3. CASE t.cut = d
    BY <1>3, <2>1, <2>2, <2>3 DEF Torn, Given
  <2>4. CASE t.cut # d
    BY <1>2, <2>1, <2>2, <2>4
  <2> QED BY <2>3, <2>4
<1>4. ASSUME \/ DeleteCut(d) \/ ShareCut(d) \/ RevokeShare(d) \/ ShareExpires(d)
             \/ (\E m \in Manifest : CreateCut(d, m)) /\ \A v \in pool : v.cut # d
      PROVE  row'[t.cut].status = "rendering"
  <2>1. t.cut \in DOMAIN row /\ row[t.cut] \in Row /\ row[t.cut].status = "rendering"
    BY <1>2, <1>4 DEF EncodingShown, TypeOK, DeleteCut, ShareCut, RevokeShare, ShareExpires,
       CreateCut, Stored
  <2>2. CASE t.cut # d
    BY <1>2, <1>4, <2>1, <2>2 DEF DeleteCut, ShareCut, RevokeShare, ShareExpires, CreateCut, Stored
  <2>3. CASE t.cut = d
    <3>1. ~DeleteCut(d) /\ ~\E m \in Manifest : CreateCut(d, m)
      BY <1>2, <2>1, <2>3 DEF DeleteCut, CreateCut
    <3> QED BY <1>4, <2>1, <2>3, <3>1 DEF ShareCut, RevokeShare, ShareExpires, Stored, Row
  <2> QED BY <2>2, <2>3
<1> QED BY <1>3, <1>4

LEMMA EncodingPool == ASSUME TypeOK, EncodingShown, Pool PROVE EncodingShown'
<1> USE DEF Exists
<1>1. ASSUME NEW d \in Cut, NEW a \in Attempt, Deliver(d, a) PROVE EncodingShown'
  BY <1>1 DEF Deliver, BeginMissing, BeginCached, BeginRender, EncodingShown
<1>2. ASSUME NEW t \in pool, FinishRender(t) \/ FailRender(t) \/ Crash(t) PROVE EncodingShown'
  BY <1>2 DEF FinishRender, FailRender, Crash, EncodingShown
<1>3. ASSUME NEW t \in pool, ClaimRender(t) PROVE EncodingShown'
  <2>1. t \in Task /\ (t.cut \in DOMAIN row => row[t.cut] \in Row)
    BY DEF TypeOK
  <2>2. CASE t.cut \in DOMAIN row
    <3>1. /\ pool' = {[t EXCEPT !.at = "encoding"]}
          /\ row'[t.cut] = [row[t.cut] EXCEPT !.status = "rendering"]
      BY <1>3, <2>2 DEF ClaimRender, Stored
    <3>2. row'[t.cut].status = "rendering" /\ \A u \in pool' : u.cut = t.cut
      BY <2>1, <2>2, <3>1 DEF Row, Task
    <3> QED BY <3>2 DEF EncodingShown
  <2>3. CASE t.cut \notin DOMAIN row
    BY <1>3, <2>3 DEF ClaimRender, EncodingShown
  <2> QED BY <2>2, <2>3
<1> QED BY <1>1, <1>2, <1>3 DEF Pool

\* What a handler answers is true when it answers.
LEMMA AnswerTold ==
  ASSUME TypeOK', EncodingShown', NEW c \in Cut, Exists(c)', NEW v, v = View(row'[c])
  PROVE  Told(v, c)'
BY DEF TypeOK, EncodingShown, Told, View, Exports, Encoded, Row, Status, Exists

-------------------------------------------------------------------------------
(* Steps of the server and the pool                                          *)

\* Every request but i is as it was, or stale if its row has changed.
KeptBut(i) ==
  /\ Len(flight') = Len(flight)
  /\ \A j \in 1..Len(flight) : j # i =>
       /\ flight'[j].kind = flight[j].kind /\ flight'[j].cut = flight[j].cut
       /\ flight'[j].manifest = flight[j].manifest /\ flight'[j].update = flight[j].update
       /\ flight'[j].at = flight[j].at /\ flight'[j].answer = flight[j].answer
       /\ flight[j].at = "answered" /\ ~flight'[j].stale =>
            ~flight[j].stale /\ \A c \in flight[j].cut : ~Changed(c)

LEMMA AgedKept ==
  ASSUME NEW r \in Request
  PROVE  /\ Aged(r).kind = r.kind /\ Aged(r).cut = r.cut /\ Aged(r).manifest = r.manifest
         /\ Aged(r).at = r.at /\ Aged(r).answer = r.answer /\ Aged(r).update = r.update
         /\ r.at = "answered" /\ ~Aged(r).stale => ~r.stale /\ \A c \in r.cut : ~Changed(c)
BY DEF Aged, Request

LEMMA AgedKeeps ==
  ASSUME EditorTypeOK, flight' = [j \in 1..Len(flight) |-> Aged(flight[j])]
  PROVE  KeptBut(0)
<1>1. Len(flight) \in Nat /\ \A j \in 1..Len(flight) : flight[j] \in Request
  BY DEF EditorTypeOK
<1>2. Len(flight') = Len(flight) /\ \A j \in 1..Len(flight) : flight'[j] = Aged(flight[j])
  BY AgedTyped
<1> QED BY <1>1, <1>2, AgedKept DEF KeptBut

LEMMA ReplyKeeps ==
  ASSUME EditorTypeOK, TypeOK', NEW i \in 1..Len(flight), NEW c \in Cut, Reply(i, c)
  PROVE  /\ KeptBut(i)
         /\ flight'[i].kind = flight[i].kind /\ flight'[i].at = "answered" /\ flight'[i].cut = {c}
         /\ flight'[i].manifest = flight[i].manifest /\ flight'[i].update = {}
         /\ flight'[i].answer = IF Exists(c)' THEN {View(row'[c])} ELSE {}
<1>1. Len(flight) \in Nat /\ \A j \in 1..Len(flight) : flight[j] \in Request
  BY DEF EditorTypeOK
<1>2. Len(flight') = Len(flight)
  BY ReplyTyped
<1>3. \A j \in 1..Len(flight) : j # i => flight'[j] = Aged(flight[j])
  BY <1>1 DEF Reply
<1>4. flight'[i] = [flight[i] EXCEPT !.at = "answered", !.update = {},
                      !.answer = IF c \in DOMAIN row' THEN {View(row'[c])} ELSE {}, !.cut = {c}]
  BY <1>1 DEF Reply
<1>5. KeptBut(i)
  BY <1>1, <1>2, <1>3, AgedKept DEF KeptBut
<1>6. /\ flight'[i].kind = flight[i].kind /\ flight'[i].at = "answered" /\ flight'[i].cut = {c}
      /\ flight'[i].manifest = flight[i].manifest /\ flight'[i].update = {}
      /\ flight'[i].answer = IF c \in DOMAIN row' THEN {View(row'[c])} ELSE {}
  BY <1>1, <1>4 DEF Request
<1> QED BY <1>5, <1>6 DEF Exists

LEMMA GoesKeeps ==
  ASSUME EditorTypeOK, NEW i \in 1..Len(flight), NEW at \in {"read", "queued", "failed"},
         NEW u \in Option(Columns), Goes(i, at, u)
  PROVE  /\ KeptBut(i)
         /\ flight'[i].kind = flight[i].kind /\ flight'[i].at = at /\ flight'[i].cut = flight[i].cut
         /\ flight'[i].manifest = flight[i].manifest /\ flight'[i].update = u
<1>1. Len(flight) \in Nat /\ \A j \in 1..Len(flight) : flight[j] \in Request
  BY DEF EditorTypeOK
<1>2. Len(flight') = Len(flight)
  BY GoesTyped
<1>3. \A j \in 1..Len(flight) : j # i => flight'[j] = Aged(flight[j])
  BY <1>1 DEF Goes
<1>4. flight'[i] = [flight[i] EXCEPT !.at = at, !.update = u]
  BY <1>1 DEF Goes
<1>5. KeptBut(i)
  BY <1>1, <1>2, <1>3, AgedKept DEF KeptBut
<1>6. /\ flight'[i].kind = flight[i].kind /\ flight'[i].at = at /\ flight'[i].cut = flight[i].cut
      /\ flight'[i].manifest = flight[i].manifest /\ flight'[i].update = u
  BY <1>1, <1>4 DEF Request
<1> QED BY <1>5, <1>6

\* What the server does to one request and one row leaves the saves that were read in their turn.
LEMMA TurnServer ==
  ASSUME EditorTypeOK, InTurn, NEW i \in 0..Len(flight), KeptBut(i),
         i # 0 => (\A c : Saves(i, c)' => Saves(i, c)) /\ (Reads(i)' => TurnOf(i)'),
         \A j \in 1..Len(flight) : j # i /\ Reads(j) /\ flight[j].kind # "render" =>
           \A u \in flight[j].update, c \in flight[j].cut :
             Exists(c)' => Exists(c) /\ row'[c].manifest = row[c].manifest
  PROVE  InTurn'
<1>1. Len(flight) \in Nat /\ Len(flight') = Len(flight)
  BY DEF EditorTypeOK, KeptBut
<1>2. ASSUME NEW j \in 1..Len(flight), NEW c, Saves(j, c)' PROVE Saves(j, c)
  <2>1. CASE j = i
    BY <1>2, <2>1, <1>1
  <2>2. CASE j # i
    BY <1>2, <2>2 DEF KeptBut, Saves
  <2> QED BY <2>1, <2>2
<1> SUFFICES ASSUME NEW j \in 1..Len(flight), Reads(j)' PROVE TurnOf(j)'
  BY <1>1 DEF InTurn
<1>3. CASE j = i
  BY <1>3
<1>4. CASE j # i
  <2>1. /\ flight'[j].kind = flight[j].kind /\ flight'[j].cut = flight[j].cut
        /\ flight'[j].manifest = flight[j].manifest /\ flight'[j].update = flight[j].update
        /\ flight'[j].at = flight[j].at
    BY <1>4 DEF KeptBut
  <2>2. Reads(j)
    BY <2>1 DEF Reads
  <2>3. TurnOf(j)
    BY <2>2 DEF InTurn
  <2>4. \A k \in 1..(j - 1) : k \in 1..Len(flight)
    BY <1>1
  <2> QED BY <1>2, <1>4, <2>1, <2>2, <2>3, <2>4 DEF TurnOf
<1> QED BY <1>3, <1>4

\* The structure survives when every row but the one that is saved or deleted stays, and the
\* request that is handled answers the truth.
LEMMA ServerKeeps ==
  ASSUME EditorTypeOK, Structure, EncodingShown', InTurn', NEW i \in 0..Len(flight), KeptBut(i),
         UNCHANGED <<edits, selected, timer, flushable, polls>>,
         DOMAIN wanted \subseteq DOMAIN wanted', \A d \in DOMAIN wanted : wanted'[d] = wanted[d],
         DOMAIN row' \subseteq DOMAIN wanted', \A t \in pool' : t.cut \in DOMAIN wanted',
         NEW B,
         \A d \in DOMAIN wanted \ B : Stays(d) /\ (Exists(d)' <=> Exists(d)),
         \A d \in DOMAIN wanted \cap B : /\ ~Unlisted(d) /\ (Exists(d)' => Exists(d))
                                        /\ (~Changed(d) => Stays(d)),
         i # 0 =>
           /\ flight'[i].kind = flight[i].kind
           /\ \/ flight'[i].cut = flight[i].cut
              \/ /\ flight[i].kind = "create"
                 /\ \A d \in flight'[i].cut : d \in DOMAIN wanted' /\ d \notin DOMAIN wanted
           /\ flight'[i].at = "answered" => \A d \in flight'[i].cut :
                /\ flight[i].kind = "delete" => ~Exists(d)'
                /\ \A v \in flight'[i].answer : Told(v, d)'
                /\ flight[i].kind = "create" =>
                     Exists(d)' /\ d \notin DOMAIN wanted /\ row'[d].manifest = wanted'[d]
  PROVE  Structure'
<1> USE DEF Has
<1>1. /\ AllMade /\ OneTimer /\ OpenListed /\ OnlyListedNamed /\ DeletedGone /\ CreatedTold
      /\ AnswersTell /\ Len(flight') = Len(flight)
  BY DEF Structure, KeptBut
<1>2. \A j \in 1..Len(flight) : j # i =>
        /\ flight'[j].kind = flight[j].kind /\ flight'[j].cut = flight[j].cut
        /\ flight'[j].at = flight[j].at /\ flight'[j].answer = flight[j].answer
        /\ flight[j].at = "answered" /\ ~flight'[j].stale =>
             ~flight[j].stale /\ \A c \in flight[j].cut : ~Changed(c)
  BY DEF KeptBut
<1>3. \A d \in DOMAIN wanted : Exists(d)' => Exists(d)
  OBVIOUS
<1>4. \A d \in DOMAIN wanted : Unlisted(d) => d \notin B /\ Unlisted(d)' /\ Stays(d)
  BY DEF Unlisted
<1>5. AllMade'
  <2>1. \A j \in 1..Len(flight) : flight'[j].cut \subseteq DOMAIN wanted'
    BY <1>1, <1>2 DEF AllMade
  <2> QED BY <1>1, <2>1 DEF AllMade
<1>6. OneTimer'
  BY <1>1 DEF OneTimer
<1>7. OpenListed'
  <2>1. \A d \in DOMAIN edits : d \in DOMAIN row' => d \in DOMAIN row
    BY <1>1, <1>3 DEF AllMade, Exists
  <2> QED BY <1>1, <2>1 DEF OpenListed
<1>8. OnlyListedNamed'
  <2> SUFFICES ASSUME NEW d \in Cut, Unlisted(d)'
               PROVE  /\ d \notin polls /\ \A t \in timer : t.cut # d
                      /\ \A j \in 1..Len(flight) : d \in flight'[j].cut => flight'[j].kind = "create"
    BY <1>1 DEF OnlyListedNamed
  <2>1. CASE d \in DOMAIN wanted
    <3>1. Unlisted(d)
      BY <1>3, <2>1 DEF Unlisted
    <3> QED BY <1>1, <1>2, <2>1, <3>1 DEF OnlyListedNamed
  <2>2. CASE d \notin DOMAIN wanted
    BY <1>1, <1>2, <2>2 DEF AllMade
  <2> QED BY <2>1, <2>2
<1>9. DeletedGone'
  <2> SUFFICES ASSUME NEW j \in 1..Len(flight), NEW d \in Cut, d \in flight'[j].cut,
                      flight'[j].at = "answered", flight'[j].kind = "delete"
               PROVE  ~Exists(d)'
    BY <1>1 DEF DeletedGone
  <2>1. CASE j = i
    BY <2>1
  <2>2. CASE j # i
    BY <1>1, <1>2, <1>3, <2>2 DEF DeletedGone, AllMade
  <2> QED BY <2>1, <2>2
<1>10. CreatedTold'
  <2>1. ASSUME NEW j \in 1..Len(flight), NEW d \in Cut, Creates(j, d)', j # i
        PROVE  Creates(j, d) /\ d \in DOMAIN wanted /\ Unlisted(d)
    BY <1>1, <1>2, <2>1 DEF Creates, CreatedTold, AllMade
  <2>2. ASSUME NEW d \in Cut, i # 0, Creates(i, d)' PROVE d \notin DOMAIN wanted
    BY <2>2 DEF Creates
  <2>3. ASSUME NEW j \in 1..Len(flight), NEW d \in Cut, Creates(j, d)', j # i
        PROVE  /\ Unlisted(d)' /\ row'[d].manifest = wanted'[d]
               /\ \A v \in flight'[j].answer : Told(v, d)'
    <3>1. /\ row[d].manifest = wanted[d] /\ \A v \in flight[j].answer : Told(v, d)
      BY <1>1, <2>1, <2>3 DEF CreatedTold
    <3>2. Unlisted(d)' /\ Stays(d) /\ Exists(d)'
      BY <1>4, <2>1, <2>3 DEF Unlisted
    <3>3. row'[d].manifest = row[d].manifest /\ wanted'[d] = wanted[d]
      BY <2>1, <2>3, <3>2 DEF Stays
    <3> QED BY <1>2, <2>3, <3>1, <3>2, <3>3, ToldStays
  <2>4. ASSUME NEW d \in Cut, i # 0, Creates(i, d)'
        PROVE  /\ Unlisted(d)' /\ row'[d].manifest = wanted'[d]
               /\ \A v \in flight'[i].answer : Told(v, d)'
    BY <1>1, <2>4 DEF Creates, Unlisted, AllMade
  <2>5. ASSUME NEW j \in 1..Len(flight), NEW k \in 1..Len(flight), NEW d \in Cut,
               Creates(j, d)', Creates(k, d)'
        PROVE  j = k
    BY <1>1, <2>1, <2>2, <2>5 DEF CreatedTold
  <2> QED BY <1>1, <2>3, <2>4, <2>5 DEF CreatedTold
<1>11. AnswersTell'
  <2> SUFFICES ASSUME NEW j \in 1..Len(flight), NEW d \in Cut, d \in flight'[j].cut,
                      flight'[j].at = "answered",
                      flight'[j].kind \in {"save", "flush", "render", "cut", "poll"},
                      ~flight'[j].stale, NEW v \in flight'[j].answer
               PROVE  Told(v, d)'
    BY <1>1 DEF AnswersTell
  <2>1. CASE j = i
    BY <2>1
  <2>2. CASE j # i
    <3>1. Told(v, d) /\ d \in DOMAIN wanted /\ ~Changed(d)
      BY <1>1, <1>2, <2>2 DEF AnswersTell, AllMade
    <3>2. Stays(d)
      BY <3>1
    <3> QED BY <3>1, <3>2, ToldStays
  <2> QED BY <2>1, <2>2
<1> QED BY <1>5, <1>6, <1>7, <1>8, <1>9, <1>10, <1>11 DEF Structure

\* What the requests do that neither decide on a row nor create one.
LEMMA HandlerSteps ==
  ASSUME NEW kind \in Kind \ {"save", "flush", "create", "render"}, NEW c \in Cut, Handler(kind, c)
  PROVE  \/ kind = "delete" /\ DeleteCut(c)
         \/ kind # "delete" /\ (ShareCut(c) \/ RevokeShare(c))
         \/ kind # "delete" /\ UNCHANGED renderVars
<1>1. CASE kind = "delete"
  BY <1>1 DEF Handler
<1>2. CASE kind = "share"
  BY <1>2 DEF Handler
<1>3. CASE kind = "revoke"
  BY <1>3 DEF Handler
<1>4. CASE kind = "upload"
  BY <1>4 DEF Handler
<1>5. CASE kind \in {"cut", "poll"}
  BY <1>5 DEF Handler
<1> QED BY <1>1, <1>2, <1>3, <1>4, <1>5 DEF Kind

\* What is decided on a row: a save asks for its manifest, an export for none, and neither says
\* ready without bytes.
LEMMA DecidedTyped ==
  ASSUME TypeOK, ExportHonest, NEW c \in DOMAIN row, NEW m \in Manifest
  PROVE  /\ UpdateCut(row[c], m) \in Columns /\ Decided(c, UpdateCut(row[c], m))
         /\ Given(UpdateCut(row[c], m).manifest, row[c].manifest) = {m}
         /\ RenderCut(row[c]) \in Columns /\ Decided(c, RenderCut(row[c]))
         /\ RenderCut(row[c]).manifest = {}
<1>1. row[c] \in Row /\ row[c].hash = row[c].asset
  BY DEF TypeOK, ExportHonest
<1> DEFINE u == UpdateCut(row[c], m)
           r == RenderCut(row[c])
<1>2. /\ u.manifest = Differs(m, row[c].manifest) /\ r.manifest = {}
      /\ u.status \in {{}, {"draft"}, {"ready"}} /\ r.status \in {{}, {"queued"}, {"ready"}}
      /\ u.status = {"ready"} => row[c].hash = {m}
      /\ r.status = {"ready"} => row[c].asset # {}
  BY DEF UpdateCut, RenderCut, Differs, RenderCurrent
<1>3. Differs(m, row[c].manifest) \in {{}, {m}} /\ Given(Differs(m, row[c].manifest), row[c].manifest) = {m}
  BY DEF Differs, Given
<1>4. u \in Columns /\ r \in Columns
  <2>1. \A s \in {"draft", "ready", "queued"} : s \in Status
    BY DEF Status
  <2>2. u.manifest \in Option(Manifest) /\ r.manifest \in Option(Manifest)
        /\ u.status \in Option(Status) /\ r.status \in Option(Status)
    BY <1>2, <1>3, <2>1 DEF Option
  <2> QED BY <2>2 DEF UpdateCut, RenderCut, Columns
<1> QED BY <1>1, <1>2, <1>3, <1>4 DEF Decided

\* A handler reads the path's row and decides, ...
Reading(i, c) ==
  /\ flight[i].at = "sent" /\ flight[i].kind \in {"save", "flush", "render"} /\ Exists(c)
  /\ UNCHANGED renderVars /\ wanted' = wanted
  /\ \E u \in Columns :
       /\ Goes(i, "read", {u}) /\ Decided(c, u)
       /\ IF flight[i].kind = "render" THEN u.manifest = {}
          ELSE /\ Older(i) => races' # {}
               /\ Given(u.manifest, row[c].manifest) = flight[i].manifest

\* ... writes what it has decided, ...
Writing(i, c) ==
  /\ flight[i].at = "read" /\ flight[i].kind \in {"save", "flush", "render"} /\ wanted' = wanted
  /\ \E u \in flight[i].update :
       /\ Commit(c, u) /\ Decided(c, u)
       /\ Torn(c, u) \subseteq races'
       /\ (flight[i].kind = "render" /\ Goes(i, "queued", {})) \/ Reply(i, c)

\* ... or does neither.
Plain(i, c) ==
  /\ flight[i].at \in {"sent", "queued"} /\ flight[i].kind \notin {"save", "flush", "create"}
  /\ wanted' = wanted
  /\ \/ flight[i].kind = "delete" /\ DeleteCut(c)
     \/ /\ flight[i].kind # "delete"
        /\ ShareCut(c) \/ RevokeShare(c) \/ DispatchRender(c) \/ UNCHANGED renderVars
  /\ Reply(i, c) \/ (Goes(i, "failed", {}) /\ flight[i].kind # "delete")

\* A new row.
Creating(i, c) ==
  /\ flight[i].at = "sent" /\ flight[i].kind = "create" /\ c \notin DOMAIN wanted
  /\ \E m \in flight[i].manifest :
       /\ CreateCut(c, m) /\ Reply(i, c)
       /\ wanted' = [d \in DOMAIN wanted \cup {c} |-> IF d = c THEN m ELSE wanted[d]]

LEMMA HandleCases ==
  ASSUME EditorTypeOK, ExportHonest, Pending, NEW i \in 1..Len(flight), Handle(i)
  PROVE  \/ \E c \in flight[i].cut : Reading(i, c) \/ Writing(i, c) \/ Plain(i, c)
         \/ \E c \in Cut : Creating(i, c)
<1> USE DEF EditorTypeOK
<1>1. /\ flight[i] \in Request /\ flight[i].kind \in Kind /\ Decides(i)
      /\ \A c \in flight[i].cut : c \in Cut
      /\ \A m \in flight[i].manifest : m \in Manifest /\ flight[i].manifest = {m}
  BY InFlight DEF Request, Pending
<1>2. ASSUME ReadCut(i) PROVE \E c \in flight[i].cut : Reading(i, c) \/ Plain(i, c)
  <2>1. PICK c \in flight[i].cut :
          /\ Exists(c)
          /\ \/ \E m \in flight[i].manifest :
                  /\ flight[i].kind \in {"save", "flush"}
                  /\ Goes(i, "read", {UpdateCut(row[c], m)})
                  /\ races' = races \cup (IF Older(i) THEN {"crossed"} ELSE {})
             \/ /\ flight[i].kind = "render"
                /\ Reply(i, c) \/ Goes(i, "read", {RenderCut(row[c])})
    BY <1>2 DEF ReadCut
  <2>2. c \in DOMAIN row
    BY <2>1 DEF Exists
  <2>3. ASSUME NEW m \in flight[i].manifest, flight[i].kind \in {"save", "flush"},
               Goes(i, "read", {UpdateCut(row[c], m)}),
               races' = races \cup (IF Older(i) THEN {"crossed"} ELSE {})
        PROVE  Reading(i, c)
    <3> DEFINE u == UpdateCut(row[c], m)
    <3>1. m \in Manifest /\ flight[i].manifest = {m}
      BY <1>1
    <3>2. u \in Columns /\ Decided(c, u) /\ Given(u.manifest, row[c].manifest) = flight[i].manifest
      BY <2>2, <3>1, DecidedTyped
    <3>3. Goes(i, "read", {u})
      BY <2>3
    <3> HIDE DEF u
    <3>4. Older(i) => races' # {}
      BY <2>3
    <3>5. flight[i].at = "sent" /\ flight[i].kind # "render" /\ UNCHANGED renderVars /\ wanted' = wanted
      BY <1>2, <2>3 DEF ReadCut
    <3> QED BY <2>1, <2>3, <3>2, <3>3, <3>4, <3>5 DEF Reading
  <2>4. ASSUME flight[i].kind = "render", Goes(i, "read", {RenderCut(row[c])})
        PROVE  Reading(i, c)
    <3>1. RenderCut(row[c]) \in Columns /\ Decided(c, RenderCut(row[c])) /\ RenderCut(row[c]).manifest = {}
      BY <1>1, <2>2, CutAssumption, DecidedTyped DEF CutAssumption
    <3> QED BY <1>2, <2>1, <2>4, <3>1 DEF Reading, ReadCut
  <2>5. ASSUME flight[i].kind = "render", Reply(i, c) PROVE Plain(i, c)
    BY <1>2, <2>5 DEF Plain, ReadCut
  <2> QED BY <2>1, <2>3, <2>4, <2>5
<1>3. ASSUME CommitCut(i) PROVE \E c \in flight[i].cut : Writing(i, c)
  BY <1>1, <1>3 DEF CommitCut, Writing, Decides
<1>4. ASSUME DispatchCut(i) PROVE \E c \in flight[i].cut : Plain(i, c)
  BY <1>1, <1>4 DEF DispatchCut, Plain, Decides
<1>5. ASSUME HandlePlain(i) PROVE \E c \in flight[i].cut : Plain(i, c)
  <2>1. PICK c \in flight[i].cut : Handler(flight[i].kind, c) /\ Reply(i, c)
    BY <1>5 DEF HandlePlain
  <2>2. flight[i].kind \in Kind \ {"save", "flush", "create", "render"} /\ c \in Cut
    BY <1>1, <1>5 DEF HandlePlain
  <2>3. \/ flight[i].kind = "delete" /\ DeleteCut(c)
        \/ flight[i].kind # "delete" /\ (ShareCut(c) \/ RevokeShare(c))
        \/ flight[i].kind # "delete" /\ UNCHANGED renderVars
    BY <2>1, <2>2, HandlerSteps
  <2> QED BY <1>5, <2>1, <2>2, <2>3 DEF HandlePlain, Plain
<1>6. ASSUME CreateCutRow(i) PROVE \E c \in Cut : Creating(i, c)
  BY <1>6 DEF CreateCutRow, Creating
<1> QED BY <1>2, <1>3, <1>4, <1>5, <1>6 DEF Handle

\* What a failure leaves of the request.
LEMMA FailKeeps ==
  ASSUME EditorTypeOK, NEW i \in 1..Len(flight), row' = row,
         flight' = [flight EXCEPT ![i].at = "failed", ![i].update = {}]
  PROVE  /\ KeptBut(i) /\ flight' \in Seq(Request)
         /\ flight'[i].kind = flight[i].kind /\ flight'[i].at = "failed"
         /\ flight'[i].cut = flight[i].cut /\ flight'[i].manifest = flight[i].manifest
         /\ flight'[i].update = {}
<1> DEFINE failed == [flight[i] EXCEPT !.at = "failed", !.update = {}]
<1>1. Len(flight) \in Nat /\ \A j \in 1..Len(flight) : flight[j] \in Request
  BY DEF EditorTypeOK
<1>2. failed \in Request
  BY <1>1 DEF Request, Option
<1>3. flight' = [flight EXCEPT ![i] = failed]
  <2>1. flight \in [1..Len(flight) -> Request]
    BY DEF EditorTypeOK
  <2> QED BY <1>1, <2>1
<1>4. failed.kind = flight[i].kind /\ failed.at = "failed" /\ failed.cut = flight[i].cut
      /\ failed.manifest = flight[i].manifest /\ failed.update = {}
  BY <1>1 DEF Request
<1> HIDE DEF failed
<1>5. /\ flight' \in Seq(Request) /\ Len(flight') = Len(flight) /\ flight'[i] = failed
      /\ \A j \in 1..Len(flight) : j # i => flight'[j] = flight[j]
  <2>1. flight \in Seq(Request)
    BY DEF EditorTypeOK
  <2> QED BY ONLY <1>2, <1>3, <2>1, i \in 1..Len(flight), ExceptSeq
<1>6. \A c : ~Changed(c)
  BY DEF Changed
<1> QED BY <1>1, <1>4, <1>5, <1>6 DEF KeptBut

LEMMA HandledTyped ==
  ASSUME CutAssumption, EditorAssumption, EditorTypeOK, ExportHonest, Pending,
         NEW i \in 1..Len(flight), Handle(i) \/ HandleFails(i)
  PROVE  EditorTypeOK' /\ ExportHonest'
<1> USE DEF EditorTypeOK
<1>1. \A c \in flight[i].cut : c \in Cut
  BY InFlight
<1>2. \A m \in flight[i].manifest : m \in Manifest
  BY InFlight
<1>3. \A u \in flight[i].update : u \in Columns
  BY InFlight
<1>4. TypeOK' /\ ExportHonest'
  <2>1. CASE Caller
    BY <2>1, TypeCaller, HonestCaller
  <2>2. CASE UNCHANGED renderVars
    BY <2>2, RemoteTyped DEF ExportHonest, renderVars
  <2>3. CASE Fault /\ UNCHANGED <<row, queue, pool>>
    BY <2>3 DEF Fault, TypeOK, CutAssumption, ExportHonest
  <2>4. ASSUME NEW c \in Cut, Reading(i, c) \/ Writing(i, c) \/ Plain(i, c) \/ Creating(i, c)
        PROVE  Caller \/ UNCHANGED renderVars
    BY <1>2, <1>3, <2>4 DEF Reading, Writing, Plain, Creating, Caller
  <2>5. CASE Handle(i)
    BY <1>1, <2>1, <2>2, <2>4, <2>5, HandleCases
  <2>6. CASE HandleFails(i)
    BY <2>2, <2>3, <2>6 DEF HandleFails
  <2> QED BY <2>5, <2>6
<1>5. flight' \in Seq(Request) /\ Len(flight') <= MaxFlight
  <2>1. ASSUME NEW c \in Cut, Reading(i, c) \/ Writing(i, c) \/ Plain(i, c) \/ Creating(i, c)
        PROVE  \/ Reply(i, c)
               \/ \E at \in {"read", "queued", "failed"}, u \in Option(Columns) : Goes(i, at, u)
    BY <2>1 DEF Reading, Writing, Plain, Creating, Option
  <2>2. CASE Handle(i)
    BY <1>1, <1>4, <2>1, <2>2, HandleCases, ReplyTyped, GoesTyped
  <2>3. CASE HandleFails(i)
    <3>1. row' = row /\ flight' = [flight EXCEPT ![i].at = "failed", ![i].update = {}]
      BY <2>3 DEF HandleFails, renderVars
    <3> QED BY <3>1, FailKeeps DEF KeptBut
  <2> QED BY <2>2, <2>3
<1>6. DOMAIN wanted' \subseteq Cut /\ \A c \in DOMAIN wanted' : wanted'[c] \in Manifest
  <2>1. CASE wanted' = wanted
    BY <2>1
  <2>2. ASSUME NEW c \in Cut, Creating(i, c)
        PROVE  DOMAIN wanted' \subseteq Cut /\ \A d \in DOMAIN wanted' : wanted'[d] \in Manifest
    BY <1>2, <2>2 DEF Creating
  <2>3. CASE Handle(i)
    BY <1>1, <2>1, <2>2, <2>3, HandleCases DEF Reading, Writing, Plain
  <2> QED BY <2>1, <2>3 DEF HandleFails
<1>7. races' \subseteq Race
  BY DEF Handle, ReadCut, CommitCut, DispatchCut, CreateCutRow, HandlePlain, Torn, HandleFails, Race
<1>8. TabTyped
  BY <1>5, <1>6, <1>7 DEF TabTyped, Handle, HandleFails, list, screen, autosave
<1> QED BY <1>4, <1>8, TabTypedIs

LEMMA ElsewhereTyped ==
  ASSUME CutAssumption, EditorTypeOK, ExportHonest, Elsewhere PROVE EditorTypeOK' /\ ExportHonest'
<1>1. TypeOK' /\ ExportHonest'
  <2>1. Pool \/ Caller
    BY DEF Elsewhere, Caller
  <2> QED BY <2>1, TypeCaller, TypePool, HonestCaller, HonestPool DEF EditorTypeOK
<1>2. flight' \in Seq(Request) /\ Len(flight') <= MaxFlight
  BY AgedTyped DEF Elsewhere, EditorTypeOK
<1>3. races' \subseteq Race
  BY DEF Elsewhere, EditorTypeOK, Race
<1>4. TabTyped
  BY <1>2, <1>3 DEF TabTyped, Elsewhere, EditorTypeOK, list, screen, autosave
<1> QED BY <1>1, <1>4, TabTypedIs

\* What was decided stays decided: a row is taken away, or keeps bytes if it has some.
LEMMA PendingServer ==
  ASSUME EditorTypeOK, Pending, NEW i \in 0..Len(flight), KeptBut(i),
         DOMAIN row' \subseteq DOMAIN wanted', DOMAIN wanted \subseteq DOMAIN wanted',
         \A d \in DOMAIN wanted :
           Exists(d)' => Exists(d) /\ (row[d].asset # {} => row'[d].asset # {}),
         i # 0 => Decides(i)'
  PROVE  Pending'
<1>1. Len(flight') = Len(flight)
  BY DEF KeptBut
<1> SUFFICES ASSUME NEW j \in 1..Len(flight), j # i PROVE Decides(j)'
  BY <1>1 DEF Pending
<1>2. /\ flight'[j].kind = flight[j].kind /\ flight'[j].cut = flight[j].cut
      /\ flight'[j].at = flight[j].at /\ flight'[j].update = flight[j].update
  BY DEF KeptBut
<1>3. Decides(j)
  BY DEF Pending
<1> QED BY <1>2, <1>3 DEF Decides, Decided

\* The rows under each step of a handler.
LEMMA AssetStays ==
  ASSUME TypeOK, NEW c \in Cut, NEW d,
         \/ UNCHANGED renderVars \/ DispatchRender(c) \/ DeleteCut(c)
         \/ ShareCut(c) \/ RevokeShare(c) \/ ShareExpires(c)
         \/ \E u \in Columns : Commit(c, u)
         \/ c # d /\ \E m \in Manifest : CreateCut(c, m)
  PROVE  Exists(d)' => Exists(d) /\ row'[d].asset = row[d].asset
<1> USE DEF Exists
<1>1. CASE UNCHANGED renderVars \/ DispatchRender(c)
  BY <1>1 DEF renderVars, DispatchRender
<1>2. CASE DeleteCut(c)
  BY <1>2 DEF DeleteCut
<1>3. CASE ShareCut(c) \/ RevokeShare(c) \/ ShareExpires(c)
  <2>1. c \in DOMAIN row /\ row[c] \in Row
    BY <1>3 DEF ShareCut, RevokeShare, ShareExpires, TypeOK
  <2>2. \E b \in BOOLEAN : Stored(c, [row[c] EXCEPT !.linked = b])
    BY <1>3 DEF ShareCut, RevokeShare, ShareExpires
  <2> QED BY <2>1, <2>2 DEF Stored, Row
<1>4. ASSUME NEW u \in Columns, Commit(c, u)
      PROVE  d \in DOMAIN row' => d \in DOMAIN row /\ row'[d].asset = row[d].asset
  BY <1>4, CommitRow
<1>5. CASE c # d /\ \E m \in Manifest : CreateCut(c, m)
  BY <1>5 DEF CreateCut, Stored
<1> QED BY <1>1, <1>2, <1>3, <1>4, <1>5

LEMMA AssetPool ==
  ASSUME TypeOK, NEW d, Pool
  PROVE  Exists(d)' => Exists(d) /\ (row[d].asset # {} => row'[d].asset # {})
<1> USE DEF Exists
<1>1. ASSUME NEW c \in Cut, NEW a \in Attempt, Deliver(c, a) PROVE row' = row
  BY <1>1 DEF Deliver, BeginMissing, BeginCached, BeginRender
<1>2. ASSUME NEW t \in pool, ClaimRender(t) \/ FinishRender(t) \/ FailRender(t) \/ Crash(t)
      PROVE  d \in DOMAIN row' => d \in DOMAIN row /\ (row[d].asset # {} => row'[d].asset # {})
  <2>1. CASE row' = row
    BY <2>1
  <2>2. ASSUME t.cut \in DOMAIN row,
               \/ \E st \in {"rendering", "failed"} : Stored(t.cut, [row[t.cut] EXCEPT !.status = st])
               \/ Stored(t.cut, [row[t.cut] EXCEPT !.status = "ready", !.asset = {t.manifest},
                                                  !.hash = {t.manifest}])
        PROVE  d \in DOMAIN row' => d \in DOMAIN row /\ (row[d].asset # {} => row'[d].asset # {})
    <3>1. row[t.cut] \in Row
      BY <2>2 DEF TypeOK
    <3>2. ASSUME NEW r, r.asset = row[t.cut].asset \/ r.asset # {}, Stored(t.cut, r)
          PROVE  d \in DOMAIN row' => d \in DOMAIN row /\ (row[d].asset # {} => row'[d].asset # {})
      BY <2>2, <3>2 DEF Stored
    <3>3. /\ \A st : [row[t.cut] EXCEPT !.status = st].asset = row[t.cut].asset
          /\ [row[t.cut] EXCEPT !.status = "ready", !.asset = {t.manifest},
                                !.hash = {t.manifest}].asset # {}
      BY <3>1 DEF Row
    <3> QED BY <2>2, <3>2, <3>3
  <2> QED BY <1>2, <2>1, <2>2 DEF ClaimRender, FinishRender, FailRender, Crash
<1> QED BY <1>1, <1>2 DEF Pool

LEMMA HandledPending ==
  ASSUME CutAssumption, EditorAssumption, EditorTypeOK, EditorTypeOK', ExportHonest, Pending,
         NEW i \in 1..Len(flight), Handle(i)
  PROVE  Pending'
<1>1. TypeOK /\ TypeOK' /\ DOMAIN row \subseteq DOMAIN wanted /\ \A d \in DOMAIN wanted : d \in Cut
  BY DEF EditorTypeOK, Pending
<1>2. \A c \in flight[i].cut : c \in Cut /\ flight[i].cut = {c}
  BY InFlight
<1>3. i \in 0..Len(flight) /\ {} \in Option(Columns) /\ Decides(i)
  BY DEF Option, Pending
<1>4. ASSUME NEW c \in flight[i].cut, Reading(i, c) PROVE Pending'
  <2>1. PICK u \in Columns : Goes(i, "read", {u}) /\ Decided(c, u)
    BY <1>4 DEF Reading
  <2>2. {u} \in Option(Columns) /\ UNCHANGED renderVars /\ wanted' = wanted /\ row' = row
    BY <1>4 DEF Reading, Option, renderVars
  <2>3. /\ KeptBut(i) /\ flight'[i].kind = flight[i].kind /\ flight'[i].at = "read"
        /\ flight'[i].cut = flight[i].cut /\ flight'[i].update = {u}
    BY <2>1, <2>2, GoesKeeps
  <2>4. c \in DOMAIN wanted /\ flight[i].kind \in {"save", "flush", "render"}
    BY <1>1, <1>4 DEF Reading, Exists
  <2>5. Decides(i)'
    BY <1>2, <2>1, <2>2, <2>3, <2>4 DEF Decides, Decided, Exists
  <2>6. \A d : Exists(d)' => Exists(d) /\ row'[d].asset = row[d].asset
    BY <2>2 DEF Exists
  <2> QED BY <1>1, <1>3, <2>2, <2>3, <2>5, <2>6, PendingServer
<1>5. ASSUME NEW c \in flight[i].cut, Writing(i, c) \/ Plain(i, c) PROVE Pending'
  <2>1. KeptBut(i) /\ flight'[i].update = {}
        /\ (flight'[i].at = "queued" => flight'[i].kind = "render")
    <3>1. CASE Reply(i, c)
      BY <1>1, <1>2, <3>1, ReplyKeeps
    <3>2. ASSUME Goes(i, "queued", {}), flight[i].kind = "render"
          PROVE  KeptBut(i) /\ flight'[i].update = {} /\ flight'[i].kind = "render"
      BY <1>3, <3>2, GoesKeeps
    <3>3. ASSUME Goes(i, "failed", {})
          PROVE  KeptBut(i) /\ flight'[i].update = {} /\ flight'[i].at = "failed"
      BY <1>3, <3>3, GoesKeeps
    <3> QED BY <1>5, <3>1, <3>2, <3>3 DEF Writing, Plain
  <2>2. \A d : Exists(d)' => Exists(d) /\ row'[d].asset = row[d].asset
    <3>1. \A u \in flight[i].update : u \in Columns
      BY InFlight
    <3> QED BY <1>1, <1>2, <1>5, <3>1, AssetStays DEF Writing, Plain
  <2>3. DOMAIN row' \subseteq DOMAIN wanted' /\ wanted' = wanted
    <3>1. DOMAIN row' \subseteq DOMAIN row
      BY <2>2 DEF Exists
    <3> QED BY <1>1, <1>5, <3>1 DEF Writing, Plain
  <2>4. Decides(i)'
    BY <2>1 DEF Decides
  <2> QED BY <1>3, <2>1, <2>2, <2>3, <2>4, PendingServer
<1>6. ASSUME NEW c \in Cut, Creating(i, c) PROVE Pending'
  <2>1. PICK m \in flight[i].manifest :
          /\ CreateCut(c, m) /\ Reply(i, c)
          /\ wanted' = [d \in DOMAIN wanted \cup {c} |-> IF d = c THEN m ELSE wanted[d]]
    BY <1>6 DEF Creating
  <2>2. m \in Manifest
    BY InFlight
  <2>3. KeptBut(i) /\ flight'[i].update = {} /\ flight'[i].at = "answered"
    BY <1>1, <2>1, ReplyKeeps
  <2>4. \A d \in DOMAIN wanted : Exists(d)' => Exists(d) /\ row'[d].asset = row[d].asset
    <3>1. \A d \in DOMAIN wanted : d # c
      BY <1>6 DEF Creating
    <3> QED BY <1>1, <2>1, <2>2, <3>1, AssetStays
  <2>5. DOMAIN row' \subseteq DOMAIN wanted' /\ DOMAIN wanted \subseteq DOMAIN wanted'
    BY <1>1, <2>1 DEF CreateCut, Stored
  <2>6. Decides(i)'
    BY <2>3 DEF Decides
  <2> QED BY <1>3, <2>3, <2>4, <2>5, <2>6, PendingServer
<1> QED BY <1>4, <1>5, <1>6, HandleCases

LEMMA FailsPending ==
  ASSUME EditorTypeOK, Pending, NEW i \in 1..Len(flight), HandleFails(i) PROVE Pending'
<1>1. /\ row' = row /\ wanted' = wanted
      /\ flight' = [flight EXCEPT ![i].at = "failed", ![i].update = {}]
  BY DEF HandleFails, renderVars
<1>2. KeptBut(i) /\ flight'[i].at = "failed" /\ flight'[i].update = {}
  BY <1>1, FailKeeps
<1>3. Decides(i)' /\ i \in 0..Len(flight)
  BY <1>2 DEF Decides
<1>4. \A d : Exists(d)' => Exists(d) /\ row'[d].asset = row[d].asset
  BY <1>1 DEF Exists
<1> QED BY <1>1, <1>2, <1>3, <1>4, PendingServer DEF Pending

LEMMA ElsewherePending ==
  ASSUME EditorTypeOK, Pending, Elsewhere PROVE Pending'
<1>1. TypeOK /\ wanted' = wanted /\ DOMAIN row \subseteq DOMAIN wanted /\ 0 \in 0..Len(flight)
  BY DEF Elsewhere, EditorTypeOK, Pending
<1>2. KeptBut(0)
  BY AgedKeeps DEF Elsewhere
<1>3. \A d : Exists(d)' => Exists(d) /\ (row[d].asset # {} => row'[d].asset # {})
  BY <1>1, AssetPool, AssetStays DEF Elsewhere
<1>4. DOMAIN row' \subseteq DOMAIN row
  BY <1>3 DEF Exists
<1> QED BY <1>1, <1>2, <1>3, <1>4, PendingServer

\* The structure under a request about the cut of its path.
LEMMA PathKeeps ==
  ASSUME EditorTypeOK, Structure, EncodingShown', InTurn', NEW i \in 1..Len(flight), KeptBut(i),
         UNCHANGED <<edits, selected, timer, flushable, polls>>, pool' = pool, wanted' = wanted,
         DOMAIN row' \subseteq DOMAIN row,
         NEW c \in Cut, flight[i].cut = {c}, flight'[i].cut = {c},
         flight'[i].kind = flight[i].kind, flight[i].kind # "create",
         \A d \in DOMAIN wanted : d # c => Stays(d) /\ (Exists(d)' <=> Exists(d)),
         ~Changed(c) => Stays(c),
         flight'[i].at = "answered" =>
           /\ flight[i].kind = "delete" => ~Exists(c)'
           /\ \A v \in flight'[i].answer : Told(v, c)'
  PROVE  Structure'
<1>1. ~Unlisted(c)
  BY DEF Structure, OnlyListedNamed
<1>2. DOMAIN row' \subseteq DOMAIN wanted' /\ \A t \in pool' : t.cut \in DOMAIN wanted'
  BY DEF Structure, AllMade
<1> DEFINE B == {c}
<1>3. /\ \A d \in DOMAIN wanted \cap B : /\ ~Unlisted(d) /\ (Exists(d)' => Exists(d))
                                       /\ (~Changed(d) => Stays(d))
      /\ \A d \in DOMAIN wanted \ B : Stays(d) /\ (Exists(d)' <=> Exists(d))
  BY <1>1 DEF Exists
<1> HIDE DEF B
<1>4. /\ flight'[i].kind = flight[i].kind /\ flight'[i].cut = flight[i].cut
      /\ flight'[i].at = "answered" => \A d \in flight'[i].cut :
           /\ flight[i].kind = "delete" => ~Exists(d)'
           /\ \A v \in flight'[i].answer : Told(v, d)'
  OBVIOUS
<1>5. i \in 0..Len(flight)
  OBVIOUS
<1> QED BY <1>2, <1>3, <1>4, <1>5, ServerKeeps

LEMMA HandledStructure ==
  ASSUME CutAssumption, EditorAssumption, EditorTypeOK, EditorTypeOK', ExportHonest, Pending,
         Structure, NEW i \in 1..Len(flight), Handle(i), races' = {}
  PROVE  Structure'
<1>1. TypeOK /\ TypeOK' /\ flight[i] \in Request /\ {} \in Option(Columns) /\ i \in 0..Len(flight)
  BY InFlight DEF EditorTypeOK, Option
<1>2. AllMade /\ EncodingShown /\ InTurn
  BY DEF Structure
<1>3. UNCHANGED <<edits, selected, timer, flushable, polls>>
  BY DEF Handle, list, screen, autosave
<1>4. \A d \in DOMAIN wanted : d \in Cut
  BY DEF EditorTypeOK
<1>5. \A c \in flight[i].cut : c \in Cut /\ flight[i].cut = {c}
  BY InFlight
<1>6. ASSUME NEW c \in flight[i].cut, Reading(i, c) PROVE Structure'
  <2>1. PICK u \in Columns :
          /\ Goes(i, "read", {u})
          /\ IF flight[i].kind = "render" THEN u.manifest = {}
             ELSE ~Older(i) /\ Given(u.manifest, row[c].manifest) = flight[i].manifest
    BY <1>6 DEF Reading
  <2>2. /\ {u} \in Option(Columns) /\ row' = row /\ pool' = pool /\ wanted' = wanted
        /\ flight[i].at = "sent" /\ flight[i].kind \in {"save", "flush", "render"}
    BY <1>6 DEF Reading, Option, renderVars
  <2>3. /\ KeptBut(i) /\ flight'[i].kind = flight[i].kind /\ flight'[i].at = "read"
        /\ flight'[i].cut = flight[i].cut /\ flight'[i].manifest = flight[i].manifest
        /\ flight'[i].update = {u}
    BY <2>1, <2>2, GoesKeeps
  <2>4. \A d : Stays(d) /\ (Exists(d)' <=> Exists(d))
    BY <2>2, UntouchedStays DEF Exists
  <2>5. InTurn'
    <3>1. \A d : Saves(i, d)' => Saves(i, d)
      BY <2>2, <2>3 DEF Saves
    <3>2. TurnOf(i)'
      <4>1. ASSUME ~Older(i), flight[i].kind # "render", NEW j \in 1..(i - 1) PROVE ~Saves(j, c)'
        <5>1. j \in 1..Len(flight) /\ j # i
          BY DEF EditorTypeOK
        <5>2. ~Saves(j, c)
          BY <1>5, <4>1 DEF Older, Saves, Unhandled
        <5> QED BY <2>3, <5>1, <5>2 DEF KeptBut, Saves
      <4>2. \A d \in flight'[i].cut, v \in flight'[i].update : d = c /\ v = u
        BY <1>5, <2>3
      <4> QED BY <2>1, <2>2, <2>3, <4>1, <4>2 DEF TurnOf
    <3>3. \A j \in 1..Len(flight) : \A d \in flight[j].cut :
            Exists(d)' => Exists(d) /\ row'[d].manifest = row[d].manifest
      BY <2>2 DEF Exists
    <3> QED BY <1>1, <1>2, <2>3, <3>1, <3>2, <3>3, TurnServer
  <2>6. EncodingShown'
    BY <1>2, <2>2 DEF EncodingShown, Exists
  <2> QED BY <1>3, <1>5, <2>2, <2>3, <2>4, <2>5, <2>6, PathKeeps
<1>7. ASSUME NEW c \in flight[i].cut, Writing(i, c) PROVE Structure'
  <2>1. PICK u \in flight[i].update :
          /\ Commit(c, u) /\ Torn(c, u) = {}
          /\ (flight[i].kind = "render" /\ Goes(i, "queued", {})) \/ Reply(i, c)
    BY <1>7 DEF Writing
  <2>2. /\ u \in Columns /\ c \in Cut /\ wanted' = wanted /\ Reads(i)
        /\ flight[i].kind \in {"save", "flush", "render"}
    BY <1>5, <1>7, InFlight DEF Writing, Reads
  <2>3. /\ c \in DOMAIN row /\ DOMAIN row' = DOMAIN row /\ pool' = pool
        /\ \A d \in DOMAIN row : d # c => row'[d] = row[d]
        /\ row'[c].manifest \in Given(u.manifest, row[c].manifest)
    BY <1>1, <2>1, <2>2, CommitRow
  <2>4. EncodingShown'
    BY <1>1, <1>2, <2>1, <2>2, EncodingCaller
  <2>5. /\ KeptBut(i) /\ flight'[i].kind = flight[i].kind /\ flight'[i].cut = {c}
        /\ flight'[i].at \in {"queued", "answered"}
        /\ flight'[i].at = "answered" => \A v \in flight'[i].answer : Told(v, c)'
    <3>1. CASE Goes(i, "queued", {})
      BY <1>1, <1>5, <3>1, GoesKeeps
    <3>2. CASE Reply(i, c)
      <4>1. /\ KeptBut(i) /\ flight'[i].kind = flight[i].kind /\ flight'[i].cut = {c}
            /\ flight'[i].at = "answered"
            /\ flight'[i].answer = IF Exists(c)' THEN {View(row'[c])} ELSE {}
        BY <1>1, <2>2, <3>2, ReplyKeeps
      <4>2. \A v \in flight'[i].answer : Exists(c)' /\ v = View(row'[c])
        BY <4>1
      <4> QED BY <1>1, <2>2, <2>4, <4>1, <4>2, AnswerTold
    <3> QED BY <2>1, <3>1, <3>2
  <2>6. \A d \in DOMAIN wanted : d # c => Stays(d) /\ (Exists(d)' <=> Exists(d))
    BY <1>1, <1>4, <2>1, <2>2, CallerStays
  <2>7. ~Changed(c) => Stays(c)
    BY <2>3, UntouchedStays DEF Changed, Exists
  <2>8. TurnOf(i)
    BY <1>2, <2>2 DEF InTurn
  <2>9. ASSUME NEW j \in 1..Len(flight), j # i, Reads(j), flight[j].kind # "render",
               NEW w \in flight[j].update, NEW d \in flight[j].cut, Exists(d)'
        PROVE  Exists(d) /\ row'[d].manifest = row[d].manifest
    <3>1. CASE d # c
      BY <2>3, <2>9, <3>1 DEF Exists
    <3>2. CASE d = c /\ flight[i].kind = "render"
      BY <2>2, <2>3, <2>8, <1>5, <3>2 DEF TurnOf, Given, Exists
    <3>3. CASE d = c /\ flight[i].kind # "render"
      <4>1. Saves(i, c)
        BY <1>5, <2>2, <3>3 DEF Saves, Reads
      <4>2. Saves(j, c)
        <5>1. flight[j].cut = {c}
          BY <3>3, InFlight
        <5> QED BY <2>9, <5>1 DEF Saves, Reads
      <4>3. ~(j < i)
        <5>1. \A k \in 1..(i - 1) : ~Saves(k, c)
          BY <2>8, <3>3 DEF TurnOf
        <5> QED BY <4>2, <5>1
      <4>4. ~(i < j)
        <5>1. \A k \in 1..(j - 1) : ~Saves(k, c)
          BY <1>2, <2>9, <3>3 DEF InTurn, TurnOf
        <5> QED BY <4>1, <5>1
      <4> QED BY <2>9, <4>3, <4>4
    <3> QED BY <3>1, <3>2, <3>3
  <2>10. InTurn'
    <3>1. \A d : ~Saves(i, d)'
      BY <2>5 DEF Saves
    <3>2. ~Reads(i)'
      BY <2>5 DEF Reads
    <3> QED BY <1>1, <1>2, <2>5, <2>9, <3>1, <3>2, TurnServer
  <2>11. flight[i].kind # "delete" /\ flight[i].kind # "create" /\ flight[i].cut = {c}
    BY <1>5, <2>2
  <2>12. DOMAIN row' \subseteq DOMAIN row
    BY <2>3
  <2> QED BY <1>3, <2>2, <2>3, <2>4, <2>5, <2>6, <2>7, <2>10, <2>11, <2>12, PathKeeps
<1>8. ASSUME NEW c \in flight[i].cut, Plain(i, c) PROVE Structure'
  <2>1. /\ c \in Cut /\ flight[i].cut = {c} /\ wanted' = wanted /\ flight[i].kind # "create"
    BY <1>5, <1>8 DEF Plain
  <2>2. \/ flight[i].kind = "delete" /\ DeleteCut(c)
        \/ ShareCut(c) \/ RevokeShare(c)
        \/ flight[i].kind # "delete" /\ row' = row /\ pool' = pool
    BY <1>8 DEF Plain, renderVars, DispatchRender
  <2>3. EncodingShown'
    <3>1. CASE row' = row /\ pool' = pool
      BY <1>2, <3>1 DEF EncodingShown, Exists
    <3> QED BY <1>1, <1>2, <2>1, <2>2, <3>1, EncodingCaller
  <2>4. \A d \in Cut : Stays(d) /\ (d # c => (Exists(d)' <=> Exists(d)))
    <3> SUFFICES ASSUME NEW d \in Cut PROVE Stays(d) /\ (d # c => (Exists(d)' <=> Exists(d)))
      OBVIOUS
    <3>1. CASE row' = row /\ pool' = pool
      BY <3>1, UntouchedStays DEF Exists
    <3> QED BY <1>1, <2>1, <2>2, <3>1, CallerStays
  <2>5. /\ pool' = pool /\ DOMAIN row' \subseteq DOMAIN row
        /\ flight[i].kind = "delete" => ~Exists(c)'
    <3>1. CASE DeleteCut(c)
      BY <3>1 DEF DeleteCut, Exists
    <3>2. CASE ShareCut(c) \/ RevokeShare(c)
      <4>1. flight[i].kind # "delete" \/ DeleteCut(c)
        BY <1>8 DEF Plain
      <4> QED BY <3>1, <3>2, <4>1 DEF ShareCut, RevokeShare, Stored, Exists
    <3>3. CASE flight[i].kind # "delete" /\ row' = row /\ pool' = pool
      BY <3>3
    <3> QED BY <2>2, <3>1, <3>2, <3>3
  <2>6. /\ KeptBut(i) /\ flight'[i].kind = flight[i].kind /\ flight'[i].cut = {c}
        /\ flight'[i].at \in {"failed", "answered"}
        /\ flight'[i].at = "answered" => \A v \in flight'[i].answer : Told(v, c)'
    <3>1. CASE Goes(i, "failed", {})
      BY <1>1, <1>5, <3>1, GoesKeeps
    <3>2. CASE Reply(i, c)
      <4>1. /\ KeptBut(i) /\ flight'[i].kind = flight[i].kind /\ flight'[i].cut = {c}
            /\ flight'[i].at = "answered"
            /\ flight'[i].answer = IF Exists(c)' THEN {View(row'[c])} ELSE {}
        BY <1>1, <2>1, <3>2, ReplyKeeps
      <4>2. \A v \in flight'[i].answer : Exists(c)' /\ v = View(row'[c])
        BY <4>1
      <4> QED BY <1>1, <2>1, <2>3, <4>1, <4>2, AnswerTold
    <3> QED BY <1>8, <3>1, <3>2 DEF Plain
  <2>7. InTurn'
    <3>1. (\A d : ~Saves(i, d)') /\ ~Reads(i)'
      BY <2>6 DEF Saves, Reads
    <3>2. \A j \in 1..Len(flight) : \A d \in flight[j].cut :
            Exists(d)' => Exists(d) /\ row'[d].manifest = row[d].manifest
      <4>1. \A j \in 1..Len(flight) : \A d \in flight[j].cut : d \in Cut
        BY InFlight
      <4> QED BY <2>4, <4>1 DEF Stays
    <3> QED BY <1>1, <1>2, <2>6, <3>1, <3>2, TurnServer
  <2>8. \A d \in DOMAIN wanted : d # c => Stays(d) /\ (Exists(d)' <=> Exists(d))
    BY <1>4, <2>4
  <2> QED BY <1>3, <2>1, <2>3, <2>4, <2>5, <2>6, <2>7, <2>8, PathKeeps
<1>9. ASSUME NEW c \in Cut, Creating(i, c) PROVE Structure'
  <2>1. PICK m \in flight[i].manifest :
          /\ CreateCut(c, m) /\ Reply(i, c)
          /\ wanted' = [d \in DOMAIN wanted \cup {c} |-> IF d = c THEN m ELSE wanted[d]]
    BY <1>9 DEF Creating
  <2>2. m \in Manifest /\ c \notin DOMAIN wanted /\ flight[i].kind = "create"
    BY <1>9, InFlight DEF Creating
  <2>3. EncodingShown'
    BY <1>1, <1>2, <2>1, <2>2, EncodingCaller DEF AllMade
  <2>4. /\ DOMAIN row' = DOMAIN row \cup {c} /\ pool' = pool /\ row'[c] = NewRow(m)
    BY <2>1 DEF CreateCut, Stored
  <2>5. \A d \in Cut : d # c => Stays(d) /\ (Exists(d)' <=> Exists(d))
    BY <1>1, <2>1, <2>2, CallerStays
  <2>6. /\ KeptBut(i) /\ flight'[i].kind = flight[i].kind /\ flight'[i].cut = {c}
        /\ flight'[i].at = "answered" /\ Exists(c)' /\ \A v \in flight'[i].answer : Told(v, c)'
    <3>1. Exists(c)' /\ flight'[i].answer = {View(row'[c])}
      BY <1>1, <2>1, <2>4, ReplyKeeps DEF Exists
    <3> QED BY <1>1, <2>1, <2>3, <3>1, ReplyKeeps, AnswerTold
  <2>7. /\ DOMAIN row' \subseteq DOMAIN wanted' /\ \A t \in pool' : t.cut \in DOMAIN wanted'
        /\ DOMAIN wanted \subseteq DOMAIN wanted' /\ c \in DOMAIN wanted'
        /\ \A d \in DOMAIN wanted : wanted'[d] = wanted[d]
    BY <1>2, <2>1, <2>2, <2>4 DEF AllMade
  <2>8. row'[c].manifest = wanted'[c]
    BY <2>1, <2>4 DEF NewRow
  <2>9. InTurn'
    <3>1. (\A d : ~Saves(i, d)') /\ ~Reads(i)'
      BY <2>6 DEF Saves, Reads
    <3>2. \A j \in 1..Len(flight) : \A d \in flight[j].cut :
            Exists(d)' => Exists(d) /\ row'[d].manifest = row[d].manifest
      <4>1. \A j \in 1..Len(flight) : \A d \in flight[j].cut : d \in Cut /\ d # c
        BY <1>2, <2>2, InFlight DEF AllMade
      <4> QED BY <2>5, <4>1 DEF Stays
    <3> QED BY <1>1, <1>2, <2>6, <3>1, <3>2, TurnServer
  <2> DEFINE B == {}
  <2>10. /\ \A d \in DOMAIN wanted \cap B : FALSE
         /\ \A d \in DOMAIN wanted \ B : Stays(d) /\ (Exists(d)' <=> Exists(d))
    BY <1>4, <2>2, <2>5
  <2> HIDE DEF B
  <2>11. /\ flight'[i].kind = flight[i].kind
         /\ flight[i].kind = "create" /\ \A d \in flight'[i].cut : d \in DOMAIN wanted' /\ d \notin DOMAIN wanted
         /\ \A d \in flight'[i].cut :
              /\ flight[i].kind # "delete"
              /\ \A v \in flight'[i].answer : Told(v, d)'
              /\ Exists(d)' /\ d \notin DOMAIN wanted /\ row'[d].manifest = wanted'[d]
    BY <2>2, <2>6, <2>7, <2>8
  <2> QED BY ONLY EditorTypeOK, Structure, <1>1, <1>3, <2>3, <2>6, <2>7, <2>9, <2>10, <2>11, ServerKeeps
<1> QED BY <1>6, <1>7, <1>8, <1>9, HandleCases

LEMMA HandleFailsStructure ==
  ASSUME EditorAssumption, EditorTypeOK, Structure, NEW i \in 1..Len(flight), HandleFails(i)
  PROVE  Structure'
<1>1. /\ row' = row /\ pool' = pool /\ wanted' = wanted
      /\ flight' = [flight EXCEPT ![i].at = "failed", ![i].update = {}]
  BY DEF HandleFails, renderVars
<1>2. UNCHANGED <<edits, selected, timer, flushable, polls>>
  BY DEF HandleFails, list, screen, autosave
<1>3. AllMade /\ EncodingShown /\ InTurn
  BY DEF Structure
<1>4. EncodingShown'
  BY <1>1, <1>3 DEF EncodingShown, Exists
<1> DEFINE B == {}
<1>5. /\ \A d \in DOMAIN wanted \ B : Stays(d) /\ (Exists(d)' <=> Exists(d))
      /\ \A d \in DOMAIN wanted \cap B : FALSE
  BY <1>1, UntouchedStays DEF Exists
<1> HIDE DEF B
<1>6. /\ KeptBut(i) /\ flight'[i].kind = flight[i].kind /\ flight'[i].cut = flight[i].cut
      /\ flight'[i].at = "failed"
  BY <1>1, FailKeeps
<1>7. DOMAIN row' \subseteq DOMAIN wanted' /\ \A t \in pool' : t.cut \in DOMAIN wanted'
  BY <1>1, <1>3 DEF AllMade
<1>8. i \in 0..Len(flight)
  OBVIOUS
<1>9. InTurn'
  <2>1. (\A d : ~Saves(i, d)') /\ ~Reads(i)'
    BY <1>6 DEF Saves, Reads
  <2>2. \A d : Exists(d)' => Exists(d) /\ row'[d].manifest = row[d].manifest
    BY <1>1 DEF Exists
  <2> QED BY <1>3, <1>6, <1>8, <2>1, <2>2, TurnServer
<1> QED BY <1>1, <1>2, <1>4, <1>5, <1>6, <1>7, <1>8, <1>9, ServerKeeps

LEMMA ElsewhereStays ==
  ASSUME EditorTypeOK, Elsewhere, races' = {}
  PROVE  \A d \in Cut : Stays(d) /\ (Exists(d)' <=> Exists(d))
<1>1. TypeOK
  BY DEF EditorTypeOK
<1>2. CASE Pool
  <2>1. \A t \in pool : ~ClaimTorn(t)
    BY DEF Elsewhere
  <2> QED BY <1>1, <1>2, <2>1, PoolStays
<1>3. ASSUME NEW c \in Cut, ShareExpires(c), NEW d \in Cut
      PROVE  Stays(d) /\ (Exists(d)' <=> Exists(d))
  BY <1>1, <1>3, CallerStays DEF ShareExpires, Stored, Exists
<1> QED BY <1>2, <1>3 DEF Elsewhere

LEMMA ElsewhereStructure ==
  ASSUME EditorTypeOK, EditorTypeOK', Structure, Elsewhere, races' = {} PROVE Structure'
<1>1. UNCHANGED <<edits, selected, timer, flushable, polls>> /\ wanted' = wanted /\ KeptBut(0)
  BY AgedKeeps DEF Elsewhere, list, screen, autosave
<1>2. /\ TypeOK /\ AllMade /\ EncodingShown /\ InTurn
      /\ \A d \in DOMAIN wanted : d \in Cut
  BY DEF Structure, EditorTypeOK
<1>3. EncodingShown'
  BY <1>2, EncodingPool, EncodingCaller DEF Elsewhere
<1>4. \A d \in Cut : Stays(d) /\ (Exists(d)' <=> Exists(d))
  BY ElsewhereStays
<1>5. DOMAIN row' = DOMAIN row
  <2>1. DOMAIN row \subseteq Cut
    BY <1>2 DEF TypeOK
  <2>2. DOMAIN row' \subseteq Cut
    BY DEF EditorTypeOK, TypeOK
  <2> QED BY <1>4, <2>1, <2>2 DEF Exists
<1>6. \A t \in pool' : t.cut \in DOMAIN row \/ \E u \in pool : t.cut = u.cut
  <2>1. ASSUME NEW c \in Cut, NEW a \in Attempt, Deliver(c, a)
        PROVE  \A t \in pool' : t.cut \in DOMAIN row \/ t \in pool
    BY <2>1 DEF Deliver, BeginMissing, BeginCached, BeginRender, Exists
  <2>2. ASSUME NEW t \in pool, FinishRender(t) \/ FailRender(t) \/ Crash(t) PROVE pool' = {}
    BY <2>2 DEF FinishRender, FailRender, Crash
  <2>3. ASSUME NEW t \in pool, ClaimRender(t) PROVE \A u \in pool' : u.cut = t.cut
    <3>1. t \in Task
      BY <1>2 DEF TypeOK
    <3> QED BY <2>3, <3>1 DEF ClaimRender, Task
  <2>4. ASSUME NEW c \in Cut, ShareExpires(c) PROVE pool' = pool
    BY <2>4 DEF ShareExpires
  <2> QED BY <2>1, <2>2, <2>3, <2>4 DEF Elsewhere, Pool
<1>7. DOMAIN row' \subseteq DOMAIN wanted' /\ \A t \in pool' : t.cut \in DOMAIN wanted'
  BY <1>1, <1>2, <1>5, <1>6 DEF AllMade
<1>8. 0 \in 0..Len(flight)
  BY DEF EditorTypeOK
<1> DEFINE B == {}
<1>9. /\ \A d \in DOMAIN wanted \ B : Stays(d) /\ (Exists(d)' <=> Exists(d))
      /\ \A d \in DOMAIN wanted \cap B : FALSE
  BY <1>2, <1>4
<1> HIDE DEF B
<1>10. InTurn'
  <2>1. \A j \in 1..Len(flight) : \A d \in flight[j].cut :
          Exists(d)' => Exists(d) /\ row'[d].manifest = row[d].manifest
    <3>1. \A j \in 1..Len(flight) : \A d \in flight[j].cut : d \in Cut
      BY InFlight
    <3> QED BY <1>4, <3>1 DEF Stays
  <2> QED BY <1>1, <1>2, <1>8, <2>1, TurnServer
<1> QED BY <1>1, <1>3, <1>7, <1>8, <1>9, <1>10, ServerKeeps

-------------------------------------------------------------------------------
(* Steps of the tab                                                          *)

\* A cut that the tab may name: it has been made, and is listed unless it is gone.
Known(d) == d \in DOMAIN wanted /\ ~Unlisted(d)

LEMMA KnownNames ==
  ASSUME EditorTypeOK, Structure
  PROVE  /\ \A d \in DOMAIN edits \cup selected \cup polls : Known(d)
         /\ \A t \in timer : Known(t.cut)
         /\ \A i \in 1..Len(flight) : \A d \in flight[i].cut :
              /\ d \in DOMAIN wanted
              /\ flight[i].kind # "create" => Known(d)
<1>1. AllMade /\ OpenListed /\ OnlyListedNamed
  BY DEF Structure
<1>2. \A d \in DOMAIN wanted : d \in Cut
  BY DEF EditorTypeOK
<1> QED BY <1>1, <1>2 DEF AllMade, OpenListed, OnlyListedNamed, Known, Unlisted

\* Where a request was before the step.
LEMMA Before ==
  ASSUME EditorTypeOK, NEW i, NEW p, Follows(p, i)
  PROVE  /\ \A j \in 1..Len(flight') :
              \/ p[j] = 0 /\ flight'[j].at = "sent"
              \/ p[j] \in 1..Len(flight) /\ p[j] # i /\ Remains(flight[p[j]], flight'[j])
         /\ \A j, k \in 1..Len(flight') : p[j] # 0 /\ p[j] = p[k] => j = k
         /\ Len(flight') \in Nat
<1>1. Len(flight) \in Nat
  BY DEF EditorTypeOK
<1>2. \A j \in 1..Len(flight') : p[j] \in 0..Len(flight)
  BY DEF Follows
<1>3. \A j \in 1..Len(flight') :
        \/ p[j] = 0 /\ flight'[j].at = "sent"
        \/ p[j] \in 1..Len(flight) /\ p[j] # i /\ Remains(flight[p[j]], flight'[j])
  BY <1>1, <1>2 DEF Follows
<1> QED BY <1>1, <1>2, <1>3 DEF Follows

\* What the tab sends comes last, so a save that was read stays the oldest one of its cut.
LEMMA TurnFollows ==
  ASSUME EditorTypeOK, InTurn, row' = row, NEW i, NEW p, Follows(p, i) PROVE InTurn'
<1> SUFFICES ASSUME NEW j \in 1..Len(flight'), Reads(j)' PROVE TurnOf(j)'
  BY DEF InTurn
<1>1. Len(flight) \in Nat /\ Len(flight') \in Nat
  BY Before DEF EditorTypeOK
<1>2. /\ p[j] \in 1..Len(flight) /\ p[j] # 0 /\ Remains(flight[p[j]], flight'[j])
  BY Before, <1>1 DEF Reads
<1>3. Reads(p[j])
  BY <1>2 DEF Reads, Remains
<1>4. TurnOf(p[j])
  BY <1>2, <1>3 DEF InTurn
<1>5. ASSUME NEW k \in 1..(j - 1), NEW c, Saves(k, c)' PROVE \E l \in 1..(p[j] - 1) : Saves(l, c)
  <2>1. k \in 1..Len(flight') /\ k < j
    BY <1>1
  <2>2. p[k] # 0 /\ p[k] < p[j]
    BY <1>2, <2>1 DEF Follows
  <2>3. p[k] \in 1..Len(flight) /\ Remains(flight[p[k]], flight'[k])
    BY <2>1, <2>2, Before
  <2>4. Saves(p[k], c)
    BY <1>5, <2>3 DEF Saves, Remains
  <2>5. p[k] \in 1..(p[j] - 1)
    BY <1>1, <1>2, <2>2, <2>3
  <2> QED BY <2>4, <2>5
<1>6. /\ flight'[j].kind = flight[p[j]].kind /\ flight'[j].cut = flight[p[j]].cut
      /\ flight'[j].manifest = flight[p[j]].manifest /\ flight'[j].update = flight[p[j]].update
  BY <1>2 DEF Remains
<1>7. \A c \in flight'[j].cut, u \in flight'[j].update :
        IF flight'[j].kind = "render" THEN u.manifest = {}
        ELSE /\ \A k \in 1..(j - 1) : ~Saves(k, c)'
             /\ c \in DOMAIN row => Given(u.manifest, row[c].manifest) = flight'[j].manifest
  BY <1>4, <1>5, <1>6 DEF TurnOf, Exists
<1> QED BY <1>7 DEF TurnOf, Exists

\* The structure survives a step that names only cuts it knows, takes no cut that is there off
\* the list, and puts a new one there only when it is told of it.
LEMMA TabKeeps ==
  ASSUME EditorTypeOK, EditorTypeOK', Structure, UNCHANGED renderVars, OneTimer', OpenListed',
         NEW i \in 0..Len(flight), NEW p, Follows(p, i),
         DOMAIN wanted' = DOMAIN wanted, DOMAIN edits' \subseteq DOMAIN wanted,
         \A d \in Cut : Unlisted(d) => wanted'[d] = wanted[d],
         \A d \in Cut : Unlisted(d)' => Unlisted(d),
         \A k \in 1..Len(flight), d \in Cut : k # i /\ Creates(k, d) => d \notin DOMAIN edits',
         \A d \in polls' : Known(d)', \A t \in timer' : Known(t.cut)',
         \A j \in 1..Len(flight') : p[j] = 0 => \A d \in flight'[j].cut : Known(d)'
  PROVE  Structure'
<1>1. /\ AllMade /\ EncodingShown /\ OnlyListedNamed /\ DeletedGone /\ CreatedTold /\ AnswersTell
      /\ InTurn
  BY DEF Structure
<1>2. row' = row /\ pool' = pool
  BY DEF renderVars
<1>3. \A d : Stays(d)
  BY <1>2, UntouchedStays DEF Exists
<1>4. \A j \in 1..Len(flight') :
        \/ p[j] = 0 /\ flight'[j].at = "sent"
        \/ p[j] \in 1..Len(flight) /\ p[j] # i /\ Remains(flight[p[j]], flight'[j])
  BY Before
<1>5. \A j, k \in 1..Len(flight') : p[j] # 0 /\ p[j] = p[k] => j = k
  BY Before
<1>6. AllMade'
  BY <1>1, <1>2, <1>4 DEF AllMade, Known, Remains
<1>7. EncodingShown'
  BY <1>1, <1>2 DEF EncodingShown, Exists
<1>8. OnlyListedNamed'
  <2> SUFFICES ASSUME NEW d \in Cut, Unlisted(d)'
               PROVE  /\ d \notin polls' /\ \A t \in timer' : t.cut # d
                      /\ \A j \in 1..Len(flight') : d \in flight'[j].cut => flight'[j].kind = "create"
    BY DEF OnlyListedNamed
  <2>1. Unlisted(d)
    OBVIOUS
  <2>2. d \notin polls' /\ \A t \in timer' : t.cut # d
    BY DEF Known
  <2>3. ASSUME NEW j \in 1..Len(flight'), d \in flight'[j].cut PROVE flight'[j].kind = "create"
    BY <1>1, <1>4, <2>1, <2>3 DEF OnlyListedNamed, Known, Remains
  <2> QED BY <2>2, <2>3
<1>9. DeletedGone'
  BY <1>1, <1>2, <1>4 DEF DeletedGone, Has, Remains, Exists
<1>10. CreatedTold'
  <2>1. ASSUME NEW j \in 1..Len(flight'), NEW d \in Cut, Creates(j, d)'
        PROVE  p[j] \in 1..Len(flight) /\ Creates(p[j], d) /\ p[j] # i /\ Remains(flight[p[j]], flight'[j])
    BY <1>4, <2>1 DEF Creates, Has, Remains
  <2>2. ASSUME NEW j \in 1..Len(flight'), NEW d \in Cut, Creates(j, d)'
        PROVE  /\ Unlisted(d)' /\ row'[d].manifest = wanted'[d]
               /\ \A v \in flight'[j].answer : Told(v, d)'
    <3>1. /\ Unlisted(d) /\ row[d].manifest = wanted[d]
          /\ \A v \in flight[p[j]].answer : Told(v, d)
      BY <1>1, <2>1, <2>2 DEF CreatedTold
    <3>2. d \notin DOMAIN edits' /\ flight'[j].answer = flight[p[j]].answer
      BY <2>1, <2>2 DEF Remains
    <3> QED BY <1>2, <1>3, <3>1, <3>2, ToldStays DEF Unlisted, Exists
  <2>3. ASSUME NEW j \in 1..Len(flight'), NEW k \in 1..Len(flight'), NEW d \in Cut,
               Creates(j, d)', Creates(k, d)'
        PROVE  j = k
    BY <1>1, <1>5, <2>1, <2>3 DEF CreatedTold
  <2> QED BY <2>2, <2>3 DEF CreatedTold
<1>11. AnswersTell'
  <2> SUFFICES ASSUME NEW j \in 1..Len(flight'), NEW d \in Cut, d \in flight'[j].cut,
                      Has(j, {"save", "flush", "render", "cut", "poll"})', ~flight'[j].stale,
                      NEW v \in flight'[j].answer
               PROVE  Told(v, d)'
    BY DEF AnswersTell
  <2>1. /\ p[j] \in 1..Len(flight) /\ d \in flight[p[j]].cut /\ ~flight[p[j]].stale
        /\ Has(p[j], {"save", "flush", "render", "cut", "poll"}) /\ v \in flight[p[j]].answer
    BY <1>4 DEF Has, Remains
  <2>2. Told(v, d)
    BY <1>1, <2>1 DEF AnswersTell
  <2> QED BY <1>3, <2>2, ToldStays
<1>12. InTurn'
  BY <1>1, <1>2, TurnFollows
<1> QED BY <1>6, <1>7, <1>8, <1>9, <1>10, <1>11, <1>12 DEF Structure

LEMMA MoveStructure ==
  ASSUME EditorTypeOK, EditorTypeOK', Structure, NEW part \in {"look", "sound"}, Change(part)
  PROVE  Structure'
<1>1. /\ UNCHANGED renderVars /\ edits' = edits /\ polls' = polls /\ selected' = selected
      /\ flight' = flight
  BY DEF Change, list
<1>2. PICK c \in selected, m \in manifest, v \in {0, changes + 1} :
        wanted' = [wanted EXCEPT ![c][part] = v] /\ Save(c, [m EXCEPT ![part] = v])
  BY DEF Change, Moved
<1>3. row' = row
  BY <1>1 DEF renderVars
<1>4. DOMAIN wanted' = DOMAIN wanted /\ \A d \in Cut : d # c => wanted'[d] = wanted[d]
  BY <1>2 DEF EditorTypeOK
<1>5. \A d : /\ Known(d) => Known(d)'
             /\ Unlisted(d)' => Unlisted(d)
  BY <1>1, <1>3, <1>4 DEF Known, Unlisted, Exists
<1>6. Known(c) /\ (\A d \in polls \cup DOMAIN edits : Known(d))
  BY KnownNames
<1>7. (\A d \in polls' : Known(d)') /\ (\A t \in timer' : Known(t.cut)')
  <2>1. \A t \in timer' : t.cut = c
    BY <1>2 DEF Save
  <2> QED BY <1>1, <1>5, <1>6, <2>1
<1>8. OneTimer' /\ OpenListed'
  <2>1. timer' = {[cut |-> c, manifest |-> [m EXCEPT ![part] = v]]} /\ flushable'
    BY <1>2 DEF Save
  <2> QED BY <1>1, <1>3, <2>1 DEF OneTimer, OpenListed, Structure
<1>9. PICK p : Follows(p, 0) /\ \A j \in 1..Len(flight') : p[j] # 0
  BY <1>1, SameFlight
<1>10. /\ DOMAIN edits' \subseteq DOMAIN wanted
       /\ \A d \in Cut : Unlisted(d) => wanted'[d] = wanted[d]
       /\ \A k \in 1..Len(flight), d \in Cut : Creates(k, d) => d \notin DOMAIN edits'
  <2>1. \A k \in 1..Len(flight), d \in Cut : Creates(k, d) => d \notin DOMAIN edits
    BY DEF Structure, CreatedTold, Unlisted
  <2> QED BY <1>1, <1>4, <1>6, <2>1 DEF Known
<1>11. 0 \in 0..Len(flight)
  BY DEF EditorTypeOK
<1> QED BY <1>1, <1>4, <1>5, <1>7, <1>8, <1>9, <1>10, <1>11, TabKeeps

\* What is sent is about a cut that is known.
LEMMA SentKeeps ==
  ASSUME EditorTypeOK, EditorTypeOK', Structure, UNCHANGED renderVars,
         edits' = edits, wanted' = wanted, timer' \subseteq timer, polls' \subseteq DOMAIN edits \cup polls,
         OneTimer', OpenListed',
         NEW p, Follows(p, 0),
         \A j \in 1..Len(flight') : p[j] = 0 => \A d \in flight'[j].cut : Known(d)
  PROVE  Structure'
<1>1. row' = row
  BY DEF renderVars
<1>2. \A d : /\ Known(d) <=> Known(d)'
             /\ Unlisted(d)' <=> Unlisted(d)
  BY <1>1 DEF Known, Unlisted, Exists
<1>3. (\A d \in polls \cup DOMAIN edits : Known(d)) /\ \A t \in timer : Known(t.cut)
  BY KnownNames
<1>4. \A k \in 1..Len(flight), d \in Cut : Creates(k, d) => d \notin DOMAIN edits'
  BY DEF Structure, CreatedTold, Unlisted
<1>5. DOMAIN edits' \subseteq DOMAIN wanted
  BY <1>3 DEF Known
<1>6. (\A d \in polls' : Known(d)') /\ (\A t \in timer' : Known(t.cut)')
  BY <1>2, <1>3
<1>7. 0 \in 0..Len(flight)
  BY DEF EditorTypeOK
<1>8. \A j \in 1..Len(flight') : p[j] = 0 => \A d \in flight'[j].cut : Known(d)'
  BY <1>2
<1> QED BY <1>2, <1>4, <1>5, <1>6, <1>7, <1>8, TabKeeps

LEMMA SendStructure ==
  ASSUME EditorAssumption, EditorTypeOK, EditorTypeOK', Structure,
         CreateCutClick \/ RemoveCut \/ ExportClick \/ ShareClick \/ UploadClick \/ FireSave
           \/ \E c \in Cut : FirePoll(c)
  PROVE  Structure'
<1>1. /\ UNCHANGED renderVars /\ edits' = edits /\ wanted' = wanted /\ selected' = selected
      /\ flushable' = flushable
  BY DEF CreateCutClick, RemoveCut, ExportClick, ShareClick, UploadClick, FireSave, FirePoll, list,
     screen, autosave, history
<1>2. timer' \subseteq timer /\ polls' \subseteq polls
  BY DEF CreateCutClick, RemoveCut, ExportClick, ShareClick, UploadClick, FireSave, FirePoll, list,
     autosave
<1>3. OneTimer' /\ OpenListed'
  <2>1. OneTimer /\ OpenListed /\ row' = row
    BY <1>1 DEF Structure, renderVars
  <2>2. OneTimer'
    BY <1>1, <1>2, <2>1 DEF OneTimer
  <2> QED BY <1>1, <2>1, <2>2 DEF OpenListed
<1>4. /\ \A d \in selected \cup polls : Known(d) /\ {d} \in Option(Cut)
      /\ \A t \in timer : Known(t.cut) /\ {t.cut} \in Option(Cut) /\ {t.manifest} \in Option(Manifest)
      /\ selected \in Option(Cut) /\ manifest \in Option(Manifest)
      /\ {} \in Option(Cut) /\ {} \in Option(Manifest) /\ {Blank} \in Option(Manifest)
  <2>1. \A d \in selected \cup polls : d \in Cut
    BY DEF EditorTypeOK, Option
  <2> QED BY <2>1, KnownNames, CutAssumption DEF EditorTypeOK, Option, CutAssumption
<1>5. PICK kind \in Kind, c \in Option(Cut), m \in Option(Manifest) :
        Send(kind, c, m) /\ \A d \in c : Known(d)
  <2>1. CASE CreateCutClick
    BY <1>4, <2>1 DEF CreateCutClick, Kind
  <2>2. CASE RemoveCut
    <3>1. PICK d \in selected : Send("delete", {d}, {})
      BY <2>2 DEF RemoveCut
    <3>2. \A e \in {d} : Known(e)
      BY <1>4
    <3> QED BY <1>4, <3>1, <3>2 DEF Kind
  <2>3. CASE ExportClick
    <3>1. PICK d \in selected : Send("render", {d}, {})
      BY <2>3 DEF ExportClick
    <3>2. \A e \in {d} : Known(e)
      BY <1>4
    <3> QED BY <1>4, <3>1, <3>2 DEF Kind
  <2>4. CASE ShareClick
    <3>1. PICK d \in selected, k \in {"share", "revoke"} : Send(k, {d}, {})
      BY <2>4 DEF ShareClick
    <3>2. \A e \in {d} : Known(e)
      BY <1>4
    <3> QED BY <1>4, <3>1, <3>2 DEF Kind
  <2>5. CASE UploadClick
    <3>1. {[x EXCEPT !.sound = changes + 1] : x \in manifest} \in Option(Manifest)
      BY <2>5, UploadTyped
    <3> QED BY <1>4, <2>5, <3>1 DEF UploadClick, Kind
  <2>6. CASE FireSave
    BY <1>4, <2>6 DEF FireSave, Kind
  <2>7. CASE \E d \in Cut : FirePoll(d)
    BY <1>4, <2>7 DEF FirePoll, Kind
  <2> QED BY <2>1, <2>2, <2>3, <2>4, <2>5, <2>6, <2>7
<1>6. PICK p : Follows(p, 0) /\ \A j \in 1..Len(flight') : p[j] = 0 => j = Len(flight')
  BY <1>5, SendFollows
<1>7. flight'[Len(flight')].cut = c
  <2>1. flight'[Len(flight')] = Sent(kind, c, m)
    BY <1>5, SendFollows
  <2> QED BY <2>1 DEF Sent
<1> QED BY <1>1, <1>2, <1>3, <1>5, <1>6, <1>7, SentKeeps

LEMMA SelectStructure ==
  ASSUME EditorAssumption, EditorTypeOK, EditorTypeOK', Structure, NEW c \in Cut, SelectCut(c)
  PROVE  Structure'
<1>1. /\ UNCHANGED renderVars /\ edits' = edits /\ wanted' = wanted /\ selected' = {c}
      /\ c \in DOMAIN edits
  BY DEF SelectCut, Show
<1>2. timer' \subseteq timer /\ OneTimer'
  BY DEF SelectCut, autosave, OneTimer, Structure
<1>3. polls' \subseteq DOMAIN edits \cup polls
  BY EffectTyped DEF SelectCut
<1>4. OpenListed'
  BY <1>1 DEF OpenListed
<1>5. CASE flight' = flight
  <2>1. PICK p : Follows(p, 0) /\ \A j \in 1..Len(flight') : p[j] # 0
    BY <1>5, SameFlight
  <2> QED BY <1>1, <1>2, <1>3, <1>4, <2>1, SentKeeps
<1>6. CASE Send("flush", selected, manifest)
  <2>1. selected \in Option(Cut) /\ manifest \in Option(Manifest) /\ "flush" \in Kind
        /\ \A d \in selected : Known(d)
    BY KnownNames DEF EditorTypeOK, Kind
  <2>2. PICK p : Follows(p, 0) /\ \A j \in 1..Len(flight') : p[j] = 0 => j = Len(flight')
    BY <1>6, <2>1, SendFollows
  <2>3. flight'[Len(flight')].cut = selected
    <3>1. flight'[Len(flight')] = Sent("flush", selected, manifest)
      BY <1>6, <2>1, SendFollows
    <3> QED BY <3>1 DEF Sent
  <2> QED BY <1>1, <1>2, <1>3, <1>4, <2>1, <2>2, <2>3, SentKeeps
<1> QED BY <1>5, <1>6 DEF SelectCut, autosave

\* A cut that is known to a step stays so, unless it is taken off the list while it is there.
LEMMA StaysKnown ==
  ASSUME row' = row, DOMAIN wanted' = DOMAIN wanted, \A d \in Cut : Unlisted(d)' => Unlisted(d),
         DOMAIN wanted \subseteq Cut, NEW d, Known(d)
  PROVE  Known(d)'
BY DEF Known

\* What an answer about a known cut does to the list.
LEMMA FoldedStructure ==
  ASSUME EditorAssumption, EditorTypeOK, EditorTypeOK', Structure,
         NEW i \in 1..Len(flight), NEW c, c \in flight[i].cut, NEW v \in flight[i].answer,
         c \in DOMAIN edits \/ Creates(i, c) \/ ~Exists(c),
         UNCHANGED <<renderVars, timer, flushable, wanted>>,
         edits' = Folded(c, v), (selected' = selected /\ ~Creates(i, c)) \/ selected' = {c},
         polls' \subseteq polls \cup selected' \cup {c},
         flight' = Without(i)
  PROVE  Structure'
<1>1. c \in Cut /\ v \in VideoEdit /\ flight[i] \in Request
  BY InFlight
<1>2. DOMAIN edits' = DOMAIN edits \cup {c}
  BY <1>1, FoldedTyped
<1>3. row' = row /\ wanted' = wanted /\ UNCHANGED renderVars
  BY DEF renderVars
<1>4. /\ \A d \in DOMAIN edits \cup selected \cup polls : Known(d)
      /\ \A t \in timer : Known(t.cut)
      /\ c \in DOMAIN wanted /\ DOMAIN wanted \subseteq Cut
  BY <1>1, KnownNames DEF EditorTypeOK
<1>5. \A d : Unlisted(d)' => Unlisted(d)
  BY <1>2, <1>3 DEF Unlisted, Exists
<1>6. \A d : Known(d) => Known(d)'
  BY <1>3, <1>4, <1>5, StaysKnown
<1>7. Known(c)'
  BY <1>2, <1>3, <1>4 DEF Known, Unlisted
<1>8. (\A d \in polls' : Known(d)') /\ \A t \in timer' : Known(t.cut)'
  <2>1. \A d \in polls' : d \in polls \cup selected \/ d = c
    OBVIOUS
  <2> QED BY <1>4, <1>6, <1>7, <2>1
<1>9. OneTimer /\ OpenListed /\ CreatedTold
  BY DEF Structure
<1>10. OneTimer' /\ OpenListed'
  <2>1. OneTimer'
    BY <1>9 DEF OneTimer
  <2>2. ASSUME selected' = {c} PROVE OpenListed'
    BY <1>2, <2>2 DEF OpenListed
  <2>3. ASSUME selected' = selected, ~Creates(i, c) PROVE OpenListed'
    <3>1. selected # {} => OpenListed'
      BY <1>2, <1>9, <2>3 DEF OpenListed
    <3>2. selected = {} => ~Exists(c)
      BY <1>9, <2>3 DEF OpenListed, Exists
    <3> QED BY <1>2, <1>3, <1>9, <2>3, <3>1, <3>2 DEF OpenListed, Exists
  <2> QED BY <2>1, <2>2, <2>3
<1>11. \A k \in 1..Len(flight), d \in Cut : k # i /\ Creates(k, d) => d \notin DOMAIN edits'
  <2> SUFFICES ASSUME NEW k \in 1..Len(flight), NEW d \in Cut, k # i, Creates(k, d)
               PROVE  d \notin DOMAIN edits'
    OBVIOUS
  <2>1. Unlisted(d) /\ ~Creates(i, d)
    BY <1>9 DEF CreatedTold
  <2>2. d # c
    BY <2>1 DEF Unlisted
  <2> QED BY <1>2, <2>1, <2>2 DEF Unlisted
<1>12. PICK p : Follows(p, i) /\ \A j \in 1..Len(flight') : p[j] # 0
  BY WithoutFollows
<1>13. DOMAIN edits' \subseteq DOMAIN wanted
  BY <1>2, <1>4 DEF Known
<1>14. i \in 0..Len(flight)
  OBVIOUS
<1> QED BY <1>3, <1>5, <1>8, <1>10, <1>11, <1>12, <1>13, <1>14, TabKeeps

LEMMA AnswerStructure ==
  ASSUME EditorAssumption, EditorTypeOK, EditorTypeOK', Structure, NEW i \in 1..Len(flight), Answer(i)
  PROVE  Structure'
<1>1. \A c \in flight[i].cut : c \in Cut
  BY InFlight
<1>2. /\ \A d \in DOMAIN edits \cup selected \cup polls : Known(d)
      /\ \A t \in timer : Known(t.cut)
      /\ flight[i].kind # "create" => \A c \in flight[i].cut : Known(c) /\ ~Creates(i, c)
      /\ DOMAIN wanted \subseteq Cut
  BY <1>1, KnownNames DEF EditorTypeOK, Creates, Has
<1>3. /\ OneTimer /\ OpenListed /\ CreatedTold /\ DeletedGone
      /\ \A k \in 1..Len(flight), d \in Cut : Creates(k, d) => d \notin DOMAIN edits
      /\ i \in 0..Len(flight)
  BY DEF Structure, CreatedTold, Unlisted
<1>4. ASSUME Saved(i) \/ Polled(i) PROVE Structure'
  <2>1. PICK c \in flight[i].cut, v \in flight[i].answer :
          edits' = Folded(c, v) /\ polls' \subseteq Effect(edits', selected, polls) \cup {c}
    BY <1>4 DEF Saved, Polled, MergeEdit
  <2>2. polls' \subseteq polls \cup selected \cup {c}
    BY <2>1, EffectTyped
  <2>3. flight[i].kind # "create" /\ flight' = Without(i) /\ selected' = selected
        /\ UNCHANGED <<renderVars, timer, flushable, wanted>>
    BY <1>4 DEF Saved, Polled, Has, screen, autosave
  <2>4. (c \in DOMAIN edits \/ ~Exists(c)) /\ ~Creates(i, c)
    BY <1>2, <2>3 DEF Known, Unlisted
  <2> QED BY <2>1, <2>2, <2>3, <2>4, FoldedStructure
<1>5. ASSUME Created(i) PROVE Structure'
  <2>1. PICK c \in flight[i].cut, v \in flight[i].answer :
          edits' = Folded(c, v) /\ polls' = Effect(edits', {c}, polls) /\ selected' = {c}
    BY <1>5 DEF Created, Show
  <2>2. polls' \subseteq polls \cup selected' \cup {c}
    BY <2>1, EffectTyped
  <2>3. flight' = Without(i) /\ UNCHANGED <<renderVars, timer, flushable, wanted>> /\ Creates(i, c)
    BY <1>5 DEF Created, Creates, autosave, history
  <2> QED BY <2>1, <2>2, <2>3, FoldedStructure
<1>6. ASSUME Removed(i) PROVE Structure'
  <2>1. PICK c \in flight[i].cut :
          /\ edits' = [d \in DOMAIN edits \ {c} |-> edits[d]]
          /\ \/ DOMAIN edits' = {} /\ selected' = {} /\ polls' = {} /\ flight' = Unheard(Without(i))
             \/ \E d \in DOMAIN edits' : selected' = {d} /\ polls' = Effect(edits', {d}, polls)
                                         /\ flight' = Without(i)
    BY <1>6 DEF Removed, Show
  <2>2. /\ UNCHANGED <<renderVars, timer, flushable, wanted>> /\ row' = row /\ Has(i, {"delete"})
    BY <1>6 DEF Removed, autosave, renderVars
  <2>3. DOMAIN edits' = DOMAIN edits \ {c}
    BY <2>1
  <2>4. ~Exists(c)
    BY <1>1, <1>3, <2>2 DEF DeletedGone
  <2>5. \A d : Unlisted(d)' => Unlisted(d)
    BY <2>2, <2>3, <2>4 DEF Unlisted, Exists
  <2>6. \A d : Known(d) => Known(d)'
    BY <1>2, <2>2, <2>5, StaysKnown
  <2>7. OneTimer' /\ OpenListed'
    BY <1>3, <2>1, <2>2 DEF OneTimer, OpenListed
  <2>8. polls' \subseteq polls \cup DOMAIN edits
    <3>1. ASSUME NEW d \in DOMAIN edits', polls' = Effect(edits', {d}, polls)
          PROVE  polls' \subseteq polls \cup DOMAIN edits
      BY <2>3, <3>1, EffectTyped
    <3> QED BY <2>1, <3>1
  <2>9. PICK p : Follows(p, i) /\ \A j \in 1..Len(flight') : p[j] # 0
    BY <2>1, WithoutFollows, UnheardFollows
  <2>10. /\ DOMAIN edits' \subseteq DOMAIN wanted
         /\ \A k \in 1..Len(flight), d \in Cut : Creates(k, d) => d \notin DOMAIN edits'
         /\ (\A d \in polls' : Known(d)') /\ \A t \in timer' : Known(t.cut)'
    <3>1. \A d \in DOMAIN edits : Known(d)
      BY <1>2
    <3>2. DOMAIN edits' \subseteq DOMAIN wanted
      BY <2>3, <3>1 DEF Known
    <3>3. (\A d \in polls' : Known(d)') /\ \A t \in timer' : Known(t.cut)'
      BY <1>2, <2>2, <2>6, <2>8
    <3> QED BY <1>3, <2>3, <3>2, <3>3
  <2> QED BY <1>3, <2>2, <2>5, <2>7, <2>9, <2>10, TabKeeps
<1>7. ASSUME Shared(i) PROVE Structure'
  <2>1. /\ UNCHANGED renderVars /\ edits' = edits /\ wanted' = wanted /\ timer' = timer
        /\ polls' = polls /\ flushable' = flushable /\ selected' = selected /\ row' = row
        /\ flight[i].kind # "create" /\ flight' = Append(Without(i), Sent("cut", flight[i].cut, {}))
    BY <1>7 DEF Shared, Has, list, screen, autosave, history, renderVars
  <2>2. \A d : Known(d)' <=> Known(d)
    BY <2>1 DEF Known, Unlisted, Exists
  <2>3. PICK p : Follows(p, i) /\ \A j \in 1..Len(flight') :
                                    p[j] = 0 => flight'[j] = Sent("cut", flight[i].cut, {})
    BY <2>1, SharedFollows
  <2>4. \A j \in 1..Len(flight') : p[j] = 0 => \A d \in flight'[j].cut : Known(d)'
    <3>1. Sent("cut", flight[i].cut, {}).cut = flight[i].cut
      BY DEF Sent
    <3> QED BY <1>2, <2>1, <2>2, <2>3, <3>1
  <2>5. OneTimer' /\ OpenListed'
    BY <1>3, <2>1 DEF OneTimer, OpenListed
  <2>6. /\ DOMAIN edits' \subseteq DOMAIN wanted /\ \A d : Unlisted(d)' <=> Unlisted(d)
        /\ (\A d \in polls' : Known(d)') /\ \A t \in timer' : Known(t.cut)'
    BY <1>2, <2>1, <2>2 DEF Known, Unlisted, Exists
  <2> QED BY <1>3, <2>1, <2>3, <2>4, <2>5, <2>6, TabKeeps
<1>8. ASSUME Failed(i) PROVE Structure'
  <2>1. /\ UNCHANGED renderVars /\ edits' = edits /\ wanted' = wanted /\ timer' = timer
        /\ polls' = polls /\ flushable' = flushable /\ selected' = selected /\ row' = row
        /\ flight' = Without(i)
    BY <1>8 DEF Failed, list, screen, history, renderVars
  <2>2. \A d : (Known(d)' <=> Known(d)) /\ (Unlisted(d)' <=> Unlisted(d))
    BY <2>1 DEF Known, Unlisted, Exists
  <2>3. PICK p : Follows(p, i) /\ \A j \in 1..Len(flight') : p[j] # 0
    BY <2>1, WithoutFollows
  <2>4. OneTimer' /\ OpenListed'
    BY <1>3, <2>1 DEF OneTimer, OpenListed
  <2>5. /\ DOMAIN edits' \subseteq DOMAIN wanted
        /\ (\A d \in polls' : Known(d)') /\ \A t \in timer' : Known(t.cut)'
    BY <1>2, <2>1, <2>2 DEF Known
  <2> QED BY <1>3, <2>1, <2>2, <2>3, <2>4, <2>5, TabKeeps
<1>9. ASSUME Uploaded(i) PROVE Structure'
  <2>1. PICK c \in flight[i].cut, m \in flight[i].manifest :
          wanted' = [wanted EXCEPT ![c].sound = m.sound] /\ Save(c, m)
    BY <1>9 DEF Uploaded
  <2>2. /\ UNCHANGED renderVars /\ edits' = edits /\ polls' = polls /\ selected' = selected
        /\ row' = row /\ flight[i].kind # "create" /\ flight' = Without(i)
    BY <1>9 DEF Uploaded, Has, list, renderVars
  <2>3. DOMAIN wanted' = DOMAIN wanted /\ \A d \in DOMAIN wanted : d # c => wanted'[d] = wanted[d]
    BY <2>1
  <2>4. timer' = {[cut |-> c, manifest |-> m]} /\ flushable'
    BY <2>1 DEF Save
  <2>5. \A d : (Known(d)' <=> Known(d)) /\ (Unlisted(d)' <=> Unlisted(d))
    BY <2>2, <2>3 DEF Known, Unlisted, Exists
  <2>6. Known(c)
    BY <1>2, <2>2
  <2>7. PICK p : Follows(p, i) /\ \A j \in 1..Len(flight') : p[j] # 0
    BY <2>2, WithoutFollows
  <2>8. OneTimer' /\ OpenListed'
    BY <1>3, <2>2, <2>4 DEF OneTimer, OpenListed
  <2>9. /\ DOMAIN edits' \subseteq DOMAIN wanted
        /\ (\A d \in polls' : Known(d)') /\ \A t \in timer' : Known(t.cut)'
    BY <1>2, <2>2, <2>4, <2>5, <2>6 DEF Known
  <2>10. \A d \in Cut : Unlisted(d) => wanted'[d] = wanted[d]
    <3>1. \A d \in Cut : Unlisted(d) => d # c /\ d \in DOMAIN wanted
      BY <2>6 DEF Known, Unlisted, Structure, AllMade, Exists
    <3> QED BY <2>3, <3>1
  <2> QED BY <1>3, <2>2, <2>3, <2>5, <2>7, <2>8, <2>9, <2>10, TabKeeps
<1> QED BY <1>4, <1>5, <1>6, <1>7, <1>8, <1>9 DEF Answer

-------------------------------------------------------------------------------
(* What is carried for a cut, and what tells it to the list                  *)

LEMMA SavesFollow ==
  ASSUME EditorTypeOK, NEW i, NEW p, Follows(p, i), NEW c,
         \A j \in 1..Len(flight') : p[j] = 0 => ~Saves(j, c)'
  PROVE  \A j \in 1..Len(flight') : Saves(j, c)' =>
           /\ p[j] \in 1..Len(flight) /\ p[j] # i /\ Saves(p[j], c)
           /\ flight'[j].manifest = flight[p[j]].manifest
BY Before DEF Saves, Remains

LEMMA SavesKept ==
  ASSUME EditorTypeOK, NEW i, NEW p, Follows(p, i), NEW c,
         NEW k \in 1..Len(flight), Saves(k, c), k # i
  PROVE  \E l \in 1..Len(flight') : p[l] = k /\ Saves(l, c)'
<1>1. PICK l \in 1..Len(flight') : p[l] = k
  BY DEF Follows
<1>2. Remains(flight[k], flight'[l])
  BY <1>1, Before
<1> QED BY <1>1, <1>2 DEF Remains, Saves

\* The order of the saves of a cut is kept, so the newest one stays the newest.
LEMMA CarriedFollows ==
  ASSUME EditorTypeOK, NEW i, NEW p, Follows(p, i), NEW c \in Cut, Carried(c),
         row' = row, wanted'[c] = wanted[c],
         \A t \in timer' : t.cut = c => t \in timer, Unheld(c)' => Unheld(c),
         i \in 1..Len(flight) => ~Saves(i, c),
         \A j \in 1..Len(flight') : p[j] = 0 => ~Saves(j, c)'
  PROVE  Carried(c)'
<1>1. Len(flight) \in Nat /\ Len(flight') \in Nat
  BY Before DEF EditorTypeOK
<1>2. SUFFICES ASSUME Unheld(c)'
      PROVE  /\ \A j \in 1..Len(flight') :
                  Saves(j, c)' /\ (\A k \in (j + 1)..Len(flight') : ~Saves(k, c)')
                    => flight'[j].manifest = {wanted[c]}
             /\ (\A j \in 1..Len(flight') : ~Saves(j, c)') => row[c].manifest = wanted[c]
  BY DEF Carried
<1>3. Unheld(c)
  BY <1>2
<1>4. ASSUME NEW j \in 1..Len(flight'), Saves(j, c)', \A k \in (j + 1)..Len(flight') : ~Saves(k, c)'
      PROVE  flight'[j].manifest = {wanted[c]}
  <2>1. p[j] \in 1..Len(flight) /\ Saves(p[j], c) /\ flight'[j].manifest = flight[p[j]].manifest
    BY <1>4, SavesFollow
  <2>2. ASSUME NEW k \in (p[j] + 1)..Len(flight), Saves(k, c) PROVE FALSE
    <3>1. k \in 1..Len(flight) /\ k # i /\ k > p[j]
      BY <1>1, <2>1, <2>2
    <3>2. PICK l \in 1..Len(flight') : p[l] = k /\ Saves(l, c)'
      BY <2>2, <3>1, SavesKept
    <3>3. ~(l < j) /\ l # j
      <4>1. l < j => p[l] < p[j]
        BY <2>1 DEF Follows
      <4> QED BY <1>1, <2>1, <3>1, <3>2, <4>1
    <3>4. l \in (j + 1)..Len(flight')
      BY <1>1, <3>3
    <3> QED BY <1>4, <3>2, <3>4
  <2> QED BY <1>3, <2>1, <2>2 DEF Carried
<1>5. ASSUME \A j \in 1..Len(flight') : ~Saves(j, c)' PROVE row[c].manifest = wanted[c]
  <2>1. \A k \in 1..Len(flight) : ~Saves(k, c)
    BY <1>5, SavesKept
  <2> QED BY <1>3, <2>1 DEF Carried
<1> QED BY <1>4, <1>5

\* A save that is sent last carries what it is sent with.
LEMMA CarriedSent ==
  ASSUME NEW c, timer' = {}, NEW n \in Nat \ {0}, Len(flight') = n, Saves(n, c)',
         flight'[n].manifest = {wanted'[c]}
  PROVE  Carried(c)'
<1>1. ASSUME NEW j \in 1..n, \A k \in (j + 1)..n : ~Saves(k, c)' PROVE j = n
  BY <1>1
<1>2. n \in 1..n
  OBVIOUS
<1>3. /\ \A j \in 1..n : Saves(j, c)' /\ (\A k \in (j + 1)..n : ~Saves(k, c)')
             => flight'[j].manifest = {wanted'[c]}
      /\ ~\A j \in 1..n : ~Saves(j, c)'
  BY <1>1, <1>2
<1> QED BY <1>3 DEF Carried

LEMMA TellsFollows ==
  ASSUME EditorTypeOK, NEW i, NEW p, Follows(p, i), NEW c, ListTells(c),
         UNCHANGED renderVars, edits'[c] = edits[c],
         i \in 1..Len(flight) => ~(c \in flight[i].cut /\ Has(i, {"save", "flush"}))
  PROVE  ListTells(c)'
<1>1. row' = row /\ pool' = pool
  BY DEF renderVars
<1>2. Stays(c)
  BY <1>1, UntouchedStays DEF Exists
<1>3. CASE Told(edits[c], c)
  BY <1>2, <1>3, ToldStays DEF ListTells
<1>4. ASSUME NEW k \in 1..Len(flight), c \in flight[k].cut, Has(k, {"save", "flush"})
      PROVE  ListTells(c)'
  <2>1. k # i
    BY <1>4
  <2>2. PICK l \in 1..Len(flight') : p[l] = k
    BY <2>1 DEF Follows
  <2>3. Remains(flight[k], flight'[l])
    BY <2>2, Before
  <2>4. c \in flight'[l].cut /\ Has(l, {"save", "flush"})'
    BY <1>4, <2>3 DEF Remains, Has
  <2> QED BY <2>4 DEF ListTells
<1> QED BY <1>3, <1>4 DEF ListTells

\* Neither the server nor the pool touches what is carried, unless it handles a save.
LEMMA CarriedServer ==
  ASSUME EditorTypeOK, NEW i, KeptBut(i), NEW c, Carried(c), Stays(c), Exists(c)',
         timer' = timer, wanted'[c] = wanted[c],
         i \in 1..Len(flight) => flight'[i].manifest = flight[i].manifest
                                /\ (Saves(i, c)' <=> Saves(i, c))
  PROVE  Carried(c)'
<1>1. Len(flight') = Len(flight)
  BY DEF KeptBut
<1>2. \A j \in 1..Len(flight) : /\ Saves(j, c)' <=> Saves(j, c)
                                /\ flight'[j].manifest = flight[j].manifest
  BY DEF KeptBut, Saves
<1>3. row'[c].manifest = row[c].manifest
  BY DEF Stays
<1>4. \A j \in 1..Len(flight) : \A k \in (j + 1)..Len(flight) : k \in 1..Len(flight)
  BY DEF EditorTypeOK
<1>5. /\ \A t \in timer : t.cut = c => t.manifest = wanted[c]
      /\ Unheld(c)' <=> Unheld(c)
  BY DEF Carried, Unheld
<1> SUFFICES ASSUME Unheld(c)
    PROVE  /\ \A j \in 1..Len(flight) :
                Saves(j, c)' /\ (\A k \in (j + 1)..Len(flight) : ~Saves(k, c)')
                  => flight'[j].manifest = {wanted[c]}
           /\ (\A j \in 1..Len(flight) : ~Saves(j, c)') => row'[c].manifest = wanted[c]
  BY <1>1, <1>5 DEF Carried
<1>6. ASSUME NEW j \in 1..Len(flight), Saves(j, c)', \A k \in (j + 1)..Len(flight) : ~Saves(k, c)'
      PROVE  flight'[j].manifest = {wanted[c]}
  BY <1>2, <1>4, <1>6 DEF Carried
<1> QED BY <1>2, <1>3, <1>6 DEF Carried

LEMMA TellsServer ==
  ASSUME EditorTypeOK, NEW i, KeptBut(i), NEW c, ListTells(c), Stays(c), edits' = edits,
         i \in 1..Len(flight) => flight[i].at # "answered"
  PROVE  ListTells(c)'
<1>1. CASE Told(edits[c], c)
  BY <1>1, ToldStays DEF ListTells
<1>2. ASSUME NEW k \in 1..Len(flight), c \in flight[k].cut, Has(k, {"save", "flush"})
      PROVE  ListTells(c)'
  BY <1>2 DEF ListTells, KeptBut, Has
<1> QED BY <1>1, <1>2 DEF ListTells

-------------------------------------------------------------------------------
(* Nothing is lost, unless by a race                                         *)

\* With nothing to hear about a replaced save, the timer was of the same cut.
LEMMA NotReplaced ==
  ASSUME NEW c, Unsaved(c) = {} PROVE \A t \in timer : t.cut = c
BY DEF Unsaved

LEMMA MoveLost ==
  ASSUME EditorAssumption, EditorTypeOK, Structure, NothingLost,
         NEW part \in {"look", "sound"}, Change(part), races' = {}
  PROVE  NothingLost'
<1>1. /\ UNCHANGED renderVars /\ edits' = edits /\ selected' = selected /\ flight' = flight
      /\ row' = row
  BY DEF Change, list, renderVars
<1>2. PICK c \in selected, m \in manifest, v \in {0, changes + 1} :
        /\ manifest' = {[m EXCEPT ![part] = v]}
        /\ wanted' = [wanted EXCEPT ![c][part] = v]
        /\ Save(c, [m EXCEPT ![part] = v])
        /\ races' = races \cup Unsaved(c)
  BY DEF Change, Moved
<1>3. Known(c) /\ selected = {c} /\ \A d \in DOMAIN edits : Known(d) /\ d \in Cut
  BY KnownNames DEF EditorTypeOK, Option
<1>4. m = wanted[c]
  BY DEF NothingLost, OnScreen
<1>5. wanted'[c] = [m EXCEPT ![part] = v] /\ \A d \in DOMAIN wanted : d # c => wanted'[d] = wanted[d]
  <2>1. wanted'[c] = [wanted[c] EXCEPT ![part] = v]
    BY <1>2, <1>3 DEF Known
  <2> QED BY <1>2, <1>4, <2>1
<1>6. timer' = {[cut |-> c, manifest |-> wanted'[c]]}
  BY <1>2, <1>5 DEF Save
<1>7. \A t \in timer : t.cut = c
  BY <1>2, NotReplaced
<1>8. OnScreen'
  BY <1>1, <1>2, <1>3, <1>5 DEF OnScreen
<1>9. PICK p : Follows(p, 0) /\ \A j \in 1..Len(flight') : p[j] # 0
  BY <1>1, SameFlight
<1>10. 0 \notin 1..Len(flight)
  OBVIOUS
<1>11. ASSUME NEW d \in DOMAIN row' \cap DOMAIN edits' PROVE Carried(d)'
  <2>1. CASE d = c
    BY <1>6, <2>1 DEF Carried, Unheld
  <2>2. CASE d # c
    <3>1. Carried(d) /\ d \in Cut /\ wanted'[d] = wanted[d]
      BY <1>1, <1>3, <1>5, <2>2 DEF NothingLost, Known
    <3>2. Unheld(d) /\ \A t \in timer' : t.cut # d
      BY <1>6, <1>7, <2>2 DEF Unheld
    <3> QED BY <1>1, <1>9, <1>10, <3>1, <3>2, CarriedFollows
  <2> QED BY <2>1, <2>2
<1>12. ASSUME NEW d \in DOMAIN row' \cap DOMAIN edits' PROVE ListTells(d)'
  BY <1>1, <1>9, <1>10, TellsFollows DEF NothingLost
<1> QED BY <1>8, <1>11, <1>12 DEF NothingLost

\* A request that saves nothing carries nothing either.
LEMMA PlainLost ==
  ASSUME EditorTypeOK, NothingLost, UNCHANGED <<renderVars, edits, screen, timer, wanted>>,
         NEW i, NEW p, Follows(p, i),
         i \in 1..Len(flight) => ~Has(i, {"save", "flush"}) /\ \A c \in Cut : ~Saves(i, c),
         \A j \in 1..Len(flight') : p[j] = 0 => flight'[j].kind \notin {"save", "flush"}
  PROVE  NothingLost'
<1>1. OnScreen'
  BY DEF NothingLost, OnScreen, screen
<1>2. row' = row /\ UNCHANGED renderVars
  BY DEF renderVars
<1>3. ASSUME NEW c \in DOMAIN row' \cap DOMAIN edits' PROVE Carried(c)' /\ ListTells(c)'
  <2>1. Carried(c) /\ ListTells(c) /\ c \in Cut
    BY <1>2 DEF NothingLost, EditorTypeOK
  <2>2. \A j \in 1..Len(flight') : p[j] = 0 => ~Saves(j, c)'
    BY DEF Saves
  <2>3. Carried(c)'
    BY <1>2, <2>1, <2>2, CarriedFollows DEF Unheld
  <2> QED BY <1>2, <2>1, <2>3, TellsFollows
<1> QED BY <1>1, <1>3 DEF NothingLost

\* The fired or flushed save carries what the timer or the screen held.
LEMMA SavedLost ==
  ASSUME EditorAssumption, EditorTypeOK, Structure, NothingLost,
         UNCHANGED <<renderVars, edits, wanted>>, timer' = {}, OnScreen',
         NEW kind \in {"save", "flush"}, NEW c \in Cut, NEW m \in Manifest,
         Send(kind, {c}, {m}), m = wanted[c], \A t \in timer : t.cut = c
  PROVE  NothingLost'
<1>1. row' = row /\ UNCHANGED renderVars
  BY DEF renderVars
<1>2. {c} \in Option(Cut) /\ {m} \in Option(Manifest) /\ kind \in Kind
  BY DEF Option, Kind
<1>3. /\ Len(flight') = Len(flight) + 1 /\ flight'[Len(flight')] = Sent(kind, {c}, {m})
      /\ \E p : Follows(p, 0) /\ \A j \in 1..Len(flight') : p[j] = 0 => j = Len(flight')
  BY <1>2, SendFollows
<1>4. PICK p : Follows(p, 0) /\ \A j \in 1..Len(flight') : p[j] = 0 => j = Len(flight')
  BY <1>3
<1>5. PICK n \in Nat \ {0} : n = Len(flight')
  BY <1>3 DEF EditorTypeOK
<1>6. flight'[n].cut = {c} /\ flight'[n].manifest = {m} /\ Saves(n, c)'
  BY <1>3, <1>5 DEF Sent, Saves
<1>7. 0 \notin 1..Len(flight)
  OBVIOUS
<1>8. ASSUME NEW d \in DOMAIN row' \cap DOMAIN edits' PROVE Carried(d)'
  <2>1. CASE d = c
    BY <1>5, <1>6, <2>1, CarriedSent
  <2>2. CASE d # c
    <3>1. Carried(d) /\ d \in Cut /\ Unheld(d)
      BY <1>1, <2>2 DEF NothingLost, EditorTypeOK, Unheld
    <3>2. \A j \in 1..Len(flight') : p[j] = 0 => ~Saves(j, d)'
      BY <1>4, <1>5, <1>6, <2>2 DEF Saves
    <3> QED BY <1>1, <1>4, <1>7, <3>1, <3>2, CarriedFollows
  <2> QED BY <2>1, <2>2
<1>9. ASSUME NEW d \in DOMAIN row' \cap DOMAIN edits' PROVE ListTells(d)'
  BY <1>1, <1>4, <1>7, TellsFollows DEF NothingLost
<1> QED BY <1>8, <1>9 DEF NothingLost

LEMMA SendLost ==
  ASSUME EditorAssumption, EditorTypeOK, Structure, NothingLost,
         CreateCutClick \/ RemoveCut \/ ExportClick \/ ShareClick \/ UploadClick \/ FireSave
           \/ \E c \in Cut : FirePoll(c)
  PROVE  NothingLost'
<1>1. CASE FireSave
  <2>1. PICK t \in timer : Send("save", {t.cut}, {t.manifest})
    BY <1>1 DEF FireSave
  <2>2. /\ UNCHANGED <<renderVars, edits, wanted>> /\ timer' = {} /\ UNCHANGED screen
    BY <1>1 DEF FireSave, list, history
  <2>3. t.cut \in Cut /\ t.manifest \in Manifest /\ \A u \in timer : u = t
    BY DEF EditorTypeOK, Structure, OneTimer
  <2>4. OnScreen'
    BY <2>2 DEF NothingLost, OnScreen, screen
  <2>5. CASE t.cut \in DOMAIN row \cap DOMAIN edits
    <3>1. t.manifest = wanted[t.cut]
      BY <2>5 DEF NothingLost, Carried
    <3> QED BY <2>1, <2>2, <2>3, <2>4, <3>1, SavedLost
  <2>6. CASE t.cut \notin DOMAIN row \cap DOMAIN edits
    <3> DEFINE c == t.cut
    <3>1. {c} \in Option(Cut) /\ {t.manifest} \in Option(Manifest) /\ "save" \in Kind
      BY <2>3 DEF Option, Kind
    <3>2. PICK p : Follows(p, 0) /\ \A j \in 1..Len(flight') : p[j] = 0 => j = Len(flight')
      BY <2>1, <3>1, SendFollows
    <3>3. flight'[Len(flight')].cut = {c}
      <4>1. flight'[Len(flight')] = Sent("save", {c}, {t.manifest})
        BY <2>1, <3>1, SendFollows
      <4> QED BY <4>1 DEF Sent
    <3>4. 0 \notin 1..Len(flight) /\ row' = row /\ edits' = edits /\ UNCHANGED renderVars
      BY <2>2 DEF renderVars
    <3>5. ASSUME NEW d \in DOMAIN row' \cap DOMAIN edits' PROVE Carried(d)' /\ ListTells(d)'
      <4>1. Carried(d) /\ ListTells(d) /\ d \in Cut /\ d # c /\ Unheld(d)
        BY <2>3, <2>6, <3>4 DEF NothingLost, EditorTypeOK, Unheld
      <4>2. \A j \in 1..Len(flight') : p[j] = 0 => ~Saves(j, d)'
        BY <3>2, <3>3, <4>1 DEF Saves
      <4>3. Carried(d)'
        BY <2>2, <3>2, <3>4, <4>1, <4>2, CarriedFollows
      <4> QED BY <3>2, <3>4, <4>1, <4>3, TellsFollows
    <3> QED BY <2>4, <3>5 DEF NothingLost
  <2> QED BY <2>5, <2>6
<1>2. CASE CreateCutClick \/ RemoveCut \/ ExportClick \/ ShareClick \/ UploadClick
             \/ \E c \in Cut : FirePoll(c)
  <2>1. UNCHANGED <<renderVars, edits, screen, timer, wanted>>
    BY <1>2 DEF CreateCutClick, RemoveCut, ExportClick, ShareClick, UploadClick, FirePoll, list,
       autosave, history
  <2>2. \A d \in selected \cup polls : {d} \in Option(Cut)
    BY DEF EditorTypeOK, Option
  <2>3. selected \in Option(Cut) /\ manifest \in Option(Manifest)
        /\ {} \in Option(Cut) /\ {} \in Option(Manifest) /\ {Blank} \in Option(Manifest)
    BY CutAssumption DEF EditorTypeOK, Option, CutAssumption
  <2>4. PICK kind \in Kind \ {"save", "flush"}, c \in Option(Cut), m \in Option(Manifest) :
          Send(kind, c, m)
    <3>1. CASE CreateCutClick
      BY <2>3, <3>1 DEF CreateCutClick, Kind
    <3>2. ASSUME NEW d \in selected \cup polls,
                 NEW k \in {"delete", "render", "share", "revoke", "poll"}, Send(k, {d}, {})
          PROVE  \E kind \in Kind \ {"save", "flush"}, c \in Option(Cut), m \in Option(Manifest) :
                   Send(kind, c, m)
      BY <2>2, <2>3, <3>2 DEF Kind
    <3>3. CASE RemoveCut \/ ExportClick \/ ShareClick
      BY <3>2, <3>3 DEF RemoveCut, ExportClick, ShareClick
    <3>4. CASE UploadClick
      <4>1. {[x EXCEPT !.sound = changes + 1] : x \in manifest} \in Option(Manifest)
        BY <3>4, UploadTyped
      <4> QED BY <2>3, <3>4, <4>1 DEF UploadClick, Kind
    <3>5. CASE \E c \in Cut : FirePoll(c)
      BY <3>2, <3>5 DEF FirePoll
    <3> QED BY <1>2, <3>1, <3>3, <3>4, <3>5
  <2>5. PICK p : Follows(p, 0) /\ \A j \in 1..Len(flight') : p[j] = 0 => j = Len(flight')
    BY <2>4, SendFollows
  <2>6. flight'[Len(flight')].kind \notin {"save", "flush"}
    <3>1. flight'[Len(flight')] = Sent(kind, c, m)
      BY <2>4, SendFollows
    <3> QED BY <2>4, <3>1 DEF Sent
  <2>7. 0 \notin 1..Len(flight)
    OBVIOUS
  <2> QED BY <2>1, <2>5, <2>6, <2>7, PlainLost
<1> QED BY <1>1, <1>2

LEMMA SelectLost ==
  ASSUME EditorAssumption, EditorTypeOK, Structure, NothingLost, NEW c \in Cut, SelectCut(c),
         races' = {}
  PROVE  NothingLost'
<1>1. /\ UNCHANGED <<renderVars, edits, wanted>> /\ row' = row
      /\ selected' = {c} /\ manifest' = {edits[c].manifest} /\ c \in DOMAIN edits
  BY DEF SelectCut, Show, renderVars
<1>2. Reverted(c, edits[c].manifest) = {}
  BY DEF SelectCut
<1>3. OnScreen'
  BY <1>1, <1>2 DEF OnScreen, Reverted
<1>4. OneTimer /\ OpenListed
  BY DEF Structure
<1>5. 0 \notin 1..Len(flight)
  OBVIOUS
<1>6. ASSUME flight' = flight, timer' = timer PROVE NothingLost'
  <2>1. PICK p : Follows(p, 0) /\ \A j \in 1..Len(flight') : p[j] # 0
    BY <1>6, SameFlight
  <2>2. ASSUME NEW d \in DOMAIN row' \cap DOMAIN edits' PROVE Carried(d)' /\ ListTells(d)'
    <3>1. Carried(d) /\ ListTells(d) /\ d \in Cut
      BY <1>1 DEF NothingLost, EditorTypeOK
    <3>2. Carried(d)'
      BY <1>1, <1>5, <1>6, <2>1, <3>1, CarriedFollows DEF Unheld
    <3> QED BY <1>1, <1>5, <2>1, <3>1, <3>2, TellsFollows
  <2> QED BY <1>3, <2>2 DEF NothingLost
<1>7. CASE ~flushable
  BY <1>6, <1>7 DEF SelectCut, autosave
<1>8. CASE flushable /\ selected = {}
  BY <1>1, <1>3, <1>4, <1>8 DEF OpenListed, NothingLost
<1>9. CASE flushable /\ selected # {}
  <2>1. PICK d \in Cut : selected = {d}
    BY <1>9 DEF EditorTypeOK, Option
  <2>2. Send("flush", {d}, {wanted[d]}) /\ timer' = {}
    <3>1. manifest = {wanted[d]}
      BY <2>1 DEF NothingLost, OnScreen
    <3> QED BY <1>9, <2>1, <3>1 DEF SelectCut
  <2>3. \A t \in timer : t.cut = d
    <3>1. Unsaved(d) = {}
      BY <1>9, <2>1 DEF SelectCut
    <3> QED BY <3>1, NotReplaced
  <2>4. Known(d)
    BY <2>1, KnownNames
  <2>5. wanted[d] \in Manifest
    BY <2>4 DEF Known, EditorTypeOK
  <2> QED BY <1>1, <1>3, <2>2, <2>3, <2>5, SavedLost
<1> QED BY <1>7, <1>8, <1>9

\* A save handled in its turn leaves the newest one that is still sent as the newest; the last
\* one puts into the row what the listener has made.
LEMMA CarriedHandled ==
  ASSUME EditorTypeOK, NEW i \in 1..Len(flight), KeptBut(i), NEW c \in Cut, Carried(c),
         Saves(i, c), flight'[i].at = "answered", \A j \in 1..(i - 1) : ~Saves(j, c),
         timer' = timer, wanted' = wanted, row'[c].manifest \in flight[i].manifest
  PROVE  Carried(c)'
<1>1. Len(flight') = Len(flight) /\ Len(flight) \in Nat
  BY DEF KeptBut, EditorTypeOK
<1>2. \A j \in 1..Len(flight) : /\ Saves(j, c)' <=> Saves(j, c) /\ j # i
                                /\ j # i => flight'[j].manifest = flight[j].manifest
  BY DEF KeptBut, Saves
<1>3. \A j \in 1..Len(flight) : Saves(j, c) => j >= i
  BY <1>1
<1>4. \A m \in flight[i].manifest : flight[i].manifest = {m}
  BY InFlight
<1>5. /\ \A t \in timer : t.cut = c => t.manifest = wanted[c]
      /\ Unheld(c)' <=> Unheld(c)
  BY DEF Carried, Unheld
<1> SUFFICES ASSUME Unheld(c)
    PROVE  /\ \A j \in 1..Len(flight) :
                Saves(j, c)' /\ (\A k \in (j + 1)..Len(flight) : ~Saves(k, c)')
                  => flight'[j].manifest = {wanted[c]}
           /\ (\A j \in 1..Len(flight) : ~Saves(j, c)') => row'[c].manifest = wanted[c]
  BY <1>1, <1>5 DEF Carried
<1>6. ASSUME NEW j \in 1..Len(flight), Saves(j, c)', \A k \in (j + 1)..Len(flight) : ~Saves(k, c)'
      PROVE  flight'[j].manifest = {wanted[c]}
  <2>1. Saves(j, c) /\ j # i /\ j > i
    BY <1>2, <1>3, <1>6
  <2>2. \A k \in (j + 1)..Len(flight) : ~Saves(k, c)
    BY <1>1, <1>2, <1>6, <2>1
  <2> QED BY <1>2, <2>1, <2>2 DEF Carried
<1>7. ASSUME \A j \in 1..Len(flight) : ~Saves(j, c)' PROVE row'[c].manifest = wanted[c]
  <2>1. \A k \in (i + 1)..Len(flight) : ~Saves(k, c)
    BY <1>1, <1>2, <1>7
  <2>2. flight[i].manifest = {wanted[c]}
    BY <2>1 DEF Carried
  <2> QED BY <2>2
<1> QED BY <1>6, <1>7

\* A step of the server that stays with a row keeps what is carried for it and told of it.
LEMMA ServerLost ==
  ASSUME EditorTypeOK, NothingLost, NEW i, KeptBut(i), UNCHANGED <<edits, screen, timer>>,
         \A c \in DOMAIN edits : wanted'[c] = wanted[c],
         selected \subseteq DOMAIN edits,
         i \in 1..Len(flight) => flight[i].at # "answered" /\ flight'[i].manifest = flight[i].manifest,
         \A c \in DOMAIN row' \cap DOMAIN edits :
           /\ c \in DOMAIN row
           /\ \/ Stays(c) /\ (i \in 1..Len(flight) => (Saves(i, c)' <=> Saves(i, c)))
              \/ Carried(c)' /\ ListTells(c)'
  PROVE  NothingLost'
<1>1. OnScreen'
  BY DEF NothingLost, OnScreen, screen
<1>2. ASSUME NEW c \in DOMAIN row' \cap DOMAIN edits', Stays(c),
             i \in 1..Len(flight) => (Saves(i, c)' <=> Saves(i, c))
      PROVE  Carried(c)' /\ ListTells(c)'
  <2>1. Carried(c) /\ ListTells(c) /\ Exists(c)' /\ edits' = edits
        /\ wanted'[c] = wanted[c] /\ timer' = timer
    BY DEF NothingLost, Exists
  <2>2. Carried(c)'
    BY <1>2, <2>1, CarriedServer
  <2> QED BY <1>2, <2>1, <2>2, TellsServer
<1> QED BY <1>1, <1>2 DEF NothingLost

LEMMA HandledLost ==
  ASSUME EditorAssumption, EditorTypeOK, EditorTypeOK', ExportHonest, Pending, Structure,
         NothingLost, NEW i \in 1..Len(flight), Handle(i), races' = {}
  PROVE  NothingLost'
<1>1. TypeOK /\ TypeOK' /\ flight[i] \in Request /\ {} \in Option(Columns)
  BY InFlight DEF EditorTypeOK, Option
<1>2. UNCHANGED <<edits, screen, timer>>
  BY DEF Handle, list, screen, autosave
<1>3. /\ selected \subseteq DOMAIN edits /\ DOMAIN edits \subseteq DOMAIN wanted
      /\ InTurn /\ \A d \in DOMAIN edits : d \in Cut
  BY DEF Structure, OpenListed, AllMade, EditorTypeOK
<1>4. \A c \in flight[i].cut : c \in Cut /\ flight[i].cut = {c}
  BY InFlight
<1>5. ASSUME NEW c \in flight[i].cut, Reading(i, c) PROVE NothingLost'
  <2>1. PICK u \in Columns : Goes(i, "read", {u})
    BY <1>5 DEF Reading
  <2>2. {u} \in Option(Columns) /\ row' = row /\ pool' = pool /\ wanted' = wanted
        /\ flight[i].at = "sent"
    BY <1>5 DEF Reading, Option, renderVars
  <2>3. /\ KeptBut(i) /\ flight'[i].kind = flight[i].kind /\ flight'[i].at = "read"
        /\ flight'[i].cut = flight[i].cut /\ flight'[i].manifest = flight[i].manifest
    BY <2>1, <2>2, GoesKeeps
  <2>4. \A d : Stays(d)
    BY <2>2, UntouchedStays DEF Exists
  <2>5. \A d : Saves(i, d)' <=> Saves(i, d)
    BY <2>2, <2>3 DEF Saves
  <2> QED BY <1>2, <1>3, <2>2, <2>3, <2>4, <2>5, ServerLost
<1>6. ASSUME NEW c \in flight[i].cut, Writing(i, c) PROVE NothingLost'
  <2>1. PICK u \in flight[i].update :
          Commit(c, u) /\ ((flight[i].kind = "render" /\ Goes(i, "queued", {})) \/ Reply(i, c))
    BY <1>6 DEF Writing
  <2>2. /\ u \in Columns /\ c \in Cut /\ wanted' = wanted /\ flight[i].at = "read"
        /\ flight[i].kind \in {"save", "flush", "render"} /\ TurnOf(i)
    BY <1>3, <1>4, <1>6, InFlight DEF Writing, Reads, InTurn
  <2>3. /\ c \in DOMAIN row /\ DOMAIN row' = DOMAIN row
        /\ row'[c].manifest \in Given(u.manifest, row[c].manifest)
    BY <1>1, <2>1, <2>2, CommitRow
  <2>4. /\ KeptBut(i) /\ flight'[i].kind = flight[i].kind /\ flight'[i].cut = {c}
        /\ flight'[i].manifest = flight[i].manifest
        /\ flight'[i].at = "answered" \/ (flight'[i].at = "queued" /\ flight[i].kind = "render")
    BY <1>1, <1>4, <2>1, <2>2, GoesKeeps, ReplyKeeps
  <2>5. \A d \in Cut : d # c => Stays(d)
    BY <1>1, <2>1, <2>2, CallerStays
  <2>6. \A d : d # c => ~Saves(i, d) /\ ~Saves(i, d)'
    BY <1>4, <2>4 DEF Saves
  <2>7. CASE flight[i].kind = "render"
    <3>1. Stays(c)
      <4>1. u.manifest = {}
        BY <2>2, <2>7 DEF TurnOf
      <4> QED BY <1>1, <2>1, <2>2, <4>1, CallerStays
    <3>2. ~Saves(i, c) /\ ~Saves(i, c)'
      BY <2>4, <2>7 DEF Saves
    <3> QED BY <1>2, <1>3, <2>2, <2>3, <2>4, <2>5, <2>6, <3>1, <3>2, ServerLost
  <2>8. CASE flight[i].kind # "render"
    <3>1. Saves(i, c) /\ flight'[i].at = "answered"
      BY <1>4, <2>2, <2>4, <2>8 DEF Saves
    <3>2. (\A j \in 1..(i - 1) : ~Saves(j, c)) /\ row'[c].manifest \in flight[i].manifest
      BY <2>2, <2>3, <2>8 DEF TurnOf, Exists
    <3>3. c \in DOMAIN edits => Carried(c)'
      <4>1. c \in DOMAIN edits => Carried(c) /\ timer' = timer
        BY <1>2, <2>3 DEF NothingLost
      <4> QED BY <2>2, <2>4, <3>1, <3>2, <4>1, CarriedHandled
    <3>4. ListTells(c)'
      <4>1. i \in 1..Len(flight') /\ c \in flight'[i].cut /\ Has(i, {"save", "flush"})'
        BY <2>2, <2>4, <2>8, <3>1 DEF Has, KeptBut
      <4> QED BY <4>1 DEF ListTells
    <3> QED BY <1>2, <1>3, <2>2, <2>3, <2>4, <2>5, <2>6, <3>3, <3>4, ServerLost
  <2> QED BY <2>7, <2>8
<1>7. ASSUME NEW c \in flight[i].cut, Plain(i, c) PROVE NothingLost'
  <2>1. /\ c \in Cut /\ wanted' = wanted /\ flight[i].at # "answered"
        /\ flight[i].kind \notin {"save", "flush"}
    BY <1>4, <1>7 DEF Plain
  <2>2. KeptBut(i) /\ flight'[i].kind = flight[i].kind /\ flight'[i].manifest = flight[i].manifest
    BY <1>1, <1>7, <2>1, GoesKeeps, ReplyKeeps DEF Plain
  <2>3. \A d \in Cut : Stays(d)
    <3>1. \/ DeleteCut(c) \/ ShareCut(c) \/ RevokeShare(c)
          \/ row' = row /\ pool' = pool
      BY <1>7 DEF Plain, renderVars, DispatchRender
    <3>2. CASE row' = row /\ pool' = pool
      BY <3>2, UntouchedStays DEF Exists
    <3> QED BY <1>1, <2>1, <3>1, <3>2, CallerStays
  <2>4. \A d \in DOMAIN row' \cap DOMAIN edits : d \in DOMAIN row /\ Stays(d)
    BY <1>3, <2>3 DEF Stays, Exists
  <2>5. \A d : ~Saves(i, d) /\ ~Saves(i, d)'
    BY <2>1, <2>2 DEF Saves
  <2> QED BY <1>2, <1>3, <2>1, <2>2, <2>4, <2>5, ServerLost
<1>8. ASSUME NEW c \in Cut, Creating(i, c) PROVE NothingLost'
  <2>1. PICK m \in flight[i].manifest :
          /\ CreateCut(c, m) /\ Reply(i, c)
          /\ wanted' = [d \in DOMAIN wanted \cup {c} |-> IF d = c THEN m ELSE wanted[d]]
    BY <1>8 DEF Creating
  <2>2. /\ m \in Manifest /\ c \notin DOMAIN wanted /\ flight[i].kind = "create"
        /\ flight[i].at # "answered"
    BY <1>8, InFlight DEF Creating
  <2>3. KeptBut(i) /\ flight'[i].kind = flight[i].kind /\ flight'[i].manifest = flight[i].manifest
    BY <1>1, <2>1, ReplyKeeps
  <2>4. \A d \in DOMAIN edits : d # c /\ wanted'[d] = wanted[d]
    BY <1>3, <2>1, <2>2
  <2>5. \A d \in DOMAIN row' \cap DOMAIN edits : d \in DOMAIN row /\ Stays(d)
    <3>1. \A d \in Cut : d # c => Stays(d) /\ (Exists(d)' <=> Exists(d))
      BY <1>1, <2>1, <2>2, CallerStays
    <3> QED BY <1>3, <2>4, <3>1 DEF Exists
  <2>6. \A d : ~Saves(i, d) /\ ~Saves(i, d)'
    BY <2>2, <2>3 DEF Saves
  <2> QED BY <1>2, <1>3, <2>2, <2>3, <2>4, <2>5, <2>6, ServerLost
<1> QED BY <1>5, <1>6, <1>7, <1>8, HandleCases

LEMMA HandleFailsLost ==
  ASSUME EditorTypeOK, Structure, NothingLost, NEW i \in 1..Len(flight), HandleFails(i), races' = {}
  PROVE  NothingLost'
<1>1. /\ row' = row /\ pool' = pool /\ wanted' = wanted /\ UNCHANGED <<edits, screen, timer>>
      /\ flight' = [flight EXCEPT ![i].at = "failed", ![i].update = {}]
      /\ flight[i].at # "answered"
  BY DEF HandleFails, renderVars, list, autosave, Unhandled
<1>2. flight[i].kind = "create" \/ \E c \in flight[i].cut : ~Exists(c)
  BY DEF HandleFails
<1>3. selected \subseteq DOMAIN edits
  BY DEF Structure, OpenListed
<1>4. \A d : Stays(d)
  BY <1>1, UntouchedStays DEF Exists
<1>5. KeptBut(i) /\ flight'[i].at = "failed" /\ flight'[i].manifest = flight[i].manifest
  BY <1>1, FailKeeps
\* A save fails by itself only when its cut is gone.
<1>6. \A d \in DOMAIN row : ~Saves(i, d) /\ ~Saves(i, d)'
  <2>1. \A d : ~Saves(i, d)'
    BY <1>5 DEF Saves
  <2>2. \A c \in flight[i].cut : flight[i].cut = {c}
    BY InFlight
  <2>3. \A d \in DOMAIN row : ~Saves(i, d)
    BY <1>2, <2>2 DEF Saves, Exists
  <2> QED BY <2>1, <2>3
<1>7. \A c \in DOMAIN row' \cap DOMAIN edits :
        c \in DOMAIN row /\ Stays(c) /\ (Saves(i, c)' <=> Saves(i, c))
  BY <1>1, <1>4, <1>6
<1> QED BY <1>1, <1>3, <1>5, <1>7, ServerLost

LEMMA ElsewhereLost ==
  ASSUME EditorTypeOK, Structure, NothingLost, Elsewhere, races' = {} PROVE NothingLost'
<1>1. UNCHANGED <<edits, screen, timer>> /\ wanted' = wanted /\ KeptBut(0)
  BY AgedKeeps DEF Elsewhere, list, autosave
<1>2. selected \subseteq DOMAIN edits /\ DOMAIN edits \subseteq Cut
  BY DEF Structure, OpenListed, EditorTypeOK
<1>3. \A d \in DOMAIN row' \cap DOMAIN edits : d \in DOMAIN row /\ Stays(d)
  BY <1>2, ElsewhereStays DEF Stays, Exists
<1>4. 0 \notin 1..Len(flight)
  OBVIOUS
<1> QED BY <1>1, <1>2, <1>3, <1>4, ServerLost

\* An answer that is folded in tells the list of its cut; the others are told as before.
LEMMA FoldedLost ==
  ASSUME EditorAssumption, EditorTypeOK, NothingLost, OnScreen',
         NEW i \in 1..Len(flight), NEW c, c \in flight[i].cut, NEW v \in flight[i].answer,
         flight[i].at = "answered", Told(v, c),
         UNCHANGED <<renderVars, timer, wanted>>, edits' = Folded(c, v), flight' = Without(i),
         c \in DOMAIN row => c \in DOMAIN edits \/ Carried(c)'
  PROVE  NothingLost'
<1>1. c \in Cut /\ v \in VideoEdit /\ flight[i].cut = {c}
  BY InFlight
<1>2. /\ DOMAIN edits' = DOMAIN edits \cup {c} /\ edits'[c] = v
      /\ \A d \in DOMAIN edits : d # c => edits'[d] = edits[d]
  <2>1. /\ DOMAIN Folded(c, v) = DOMAIN edits \cup {c} /\ Folded(c, v)[c] = v
        /\ \A d \in DOMAIN edits : d # c => Folded(c, v)[d] = edits[d]
    BY <1>1, FoldedTyped
  <2> QED BY <2>1
<1>3. row' = row /\ pool' = pool /\ timer' = timer /\ wanted' = wanted /\ UNCHANGED renderVars
  BY DEF renderVars
<1>4. PICK p : Follows(p, i) /\ \A j \in 1..Len(flight') : p[j] # 0
  BY WithoutFollows
<1>5. \A d : ~Saves(i, d)
  BY DEF Saves
<1>6. ASSUME NEW d \in DOMAIN row \cap DOMAIN edits PROVE Carried(d)'
  <2>1. Carried(d) /\ d \in Cut
    BY DEF NothingLost, EditorTypeOK
  <2> QED BY <1>3, <1>4, <1>5, <2>1, CarriedFollows DEF Unheld
<1>7. ListTells(c)'
  <2>1. Stays(c)
    BY <1>3, UntouchedStays DEF Exists
  <2> QED BY <1>2, <2>1, ToldStays DEF ListTells
<1>8. ASSUME NEW d \in DOMAIN row \cap DOMAIN edits, d # c PROVE ListTells(d)'
  <2>1. ListTells(d) /\ edits'[d] = edits[d] /\ d \notin flight[i].cut
    BY <1>1, <1>2, <1>8 DEF NothingLost
  <2> QED BY <1>3, <1>4, <2>1, TellsFollows
<1> QED BY <1>2, <1>3, <1>6, <1>7, <1>8 DEF NothingLost

LEMMA AnswerLost ==
  ASSUME EditorAssumption, EditorTypeOK, Structure, NothingLost,
         NEW i \in 1..Len(flight), Answer(i), races' = {}
  PROVE  NothingLost'
<1>1. \A c \in flight[i].cut : c \in Cut /\ flight[i].cut = {c}
  BY InFlight
<1>2. OpenListed /\ CreatedTold /\ AnswersTell /\ OneTimer /\ OnlyListedNamed
  BY DEF Structure
<1>3. ASSUME Saved(i) \/ Polled(i) PROVE NothingLost'
  <2>1. PICK c \in flight[i].cut, v \in flight[i].answer : edits' = Folded(c, v)
    BY <1>3 DEF Saved, Polled, MergeEdit
  <2>2. /\ UNCHANGED <<renderVars, timer, wanted>> /\ UNCHANGED screen /\ flight' = Without(i)
        /\ Has(i, {"save", "flush", "render", "cut", "poll"}) /\ Behind(i) = {}
    BY <1>3 DEF Saved, Polled, Has, autosave
  <2>3. OnScreen'
    BY <2>2 DEF NothingLost, OnScreen, screen
  <2>4. Told(v, c) /\ flight[i].at = "answered"
    BY <1>1, <1>2, <2>2 DEF AnswersTell, Behind, Has
  <2>5. c \in DOMAIN row => c \in DOMAIN edits
    BY <1>1, <1>2, <2>2 DEF OnlyListedNamed, Unlisted, Exists, Has
  <2> QED BY <2>1, <2>2, <2>3, <2>4, <2>5, FoldedLost
<1>4. ASSUME Created(i) PROVE NothingLost'
  <2>1. PICK c \in flight[i].cut, v \in flight[i].answer :
          edits' = Folded(c, v) /\ selected' = {c} /\ manifest' = {edits'[c].manifest}
    BY <1>4 DEF Created, Show
  <2>2. /\ UNCHANGED <<renderVars, timer, wanted>> /\ flight' = Without(i) /\ Creates(i, c)
        /\ row' = row
    BY <1>4 DEF Created, Creates, autosave, history, renderVars
  <2>3. /\ c \in Cut /\ v \in VideoEdit /\ Unlisted(c) /\ row[c].manifest = wanted[c] /\ Told(v, c)
        /\ flight[i].at = "answered"
    BY <1>1, <1>2, <2>2, InFlight DEF CreatedTold, Creates, Has
  <2>4. OnScreen'
    <3>1. edits'[c] = v
      BY <2>1, <2>3, FoldedTyped
    <3>2. v.manifest = wanted[c]
      BY <2>3 DEF Told, Unlisted
    <3> QED BY <2>1, <2>2, <3>1, <3>2 DEF OnScreen
  <2>5. Carried(c)'
    <3>1. /\ \A t \in timer : t.cut # c
          /\ \A k \in 1..Len(flight) : c \in flight[k].cut => flight[k].kind = "create"
      BY <1>2, <2>3 DEF OnlyListedNamed
    <3>2. PICK p : Follows(p, i) /\ \A j \in 1..Len(flight') : p[j] # 0
      BY <2>2, WithoutFollows
    <3>3. \A j \in 1..Len(flight') : ~Saves(j, c)'
      <4>1. \A k \in 1..Len(flight) : ~Saves(k, c)
        BY <3>1 DEF Saves
      <4> QED BY <3>2, <4>1, SavesFollow
    <3> QED BY <2>2, <2>3, <3>1, <3>3 DEF Carried
  <2> QED BY <2>1, <2>2, <2>3, <2>4, <2>5, FoldedLost
<1>5. ASSUME Removed(i) PROVE NothingLost'
  <2>1. PICK c \in flight[i].cut :
          /\ edits' = [d \in DOMAIN edits \ {c} |-> edits[d]]
          /\ \/ selected' = {} /\ flight' = Unheard(Without(i))
             \/ \E d \in DOMAIN edits' :
                  /\ selected' = {d} /\ manifest' = {edits'[d].manifest} /\ flight' = Without(i)
                  /\ races' = races \cup Reverted(d, edits'[d].manifest)
    BY <1>5 DEF Removed, Show
  <2>2. /\ UNCHANGED renderVars /\ timer' = timer /\ wanted' = wanted /\ row' = row
        /\ Has(i, {"delete"})
    BY <1>5 DEF Removed, autosave, renderVars
  <2>3. OnScreen'
    BY <2>1, <2>2 DEF OnScreen, Reverted
  <2>4. PICK p : Follows(p, i) /\ \A j \in 1..Len(flight') : p[j] # 0
    BY <2>1, WithoutFollows, UnheardFollows
  <2>5. ASSUME NEW d \in DOMAIN row' \cap DOMAIN edits' PROVE Carried(d)' /\ ListTells(d)'
    <3>1. Carried(d) /\ ListTells(d) /\ d \in Cut /\ edits'[d] = edits[d]
      BY <2>1, <2>2 DEF NothingLost, EditorTypeOK
    <3>2. ~Saves(i, d) /\ ~Has(i, {"save", "flush"})
      BY <2>2 DEF Saves, Has
    <3>3. Carried(d)'
      BY <2>2, <2>4, <3>1, <3>2, CarriedFollows DEF Unheld
    <3> QED BY <2>2, <2>4, <3>1, <3>2, <3>3, TellsFollows
  <2> QED BY <2>3, <2>5 DEF NothingLost
<1>6. ASSUME Shared(i) PROVE NothingLost'
  <2>1. /\ UNCHANGED <<renderVars, edits, screen, timer, wanted>>
        /\ Has(i, {"share", "revoke"}) /\ flight' = Append(Without(i), Sent("cut", flight[i].cut, {}))
    BY <1>6 DEF Shared, list, autosave, history
  <2>2. PICK p : Follows(p, i) /\ \A j \in 1..Len(flight') :
                                    p[j] = 0 => flight'[j] = Sent("cut", flight[i].cut, {})
    BY <2>1, SharedFollows
  <2>3. \A j \in 1..Len(flight') : p[j] = 0 => flight'[j].kind \notin {"save", "flush"}
    BY <2>2 DEF Sent
  <2>4. ~Has(i, {"save", "flush"}) /\ \A c \in Cut : ~Saves(i, c)
    BY <2>1 DEF Has, Saves
  <2> QED BY <2>1, <2>2, <2>3, <2>4, PlainLost
<1>7. ASSUME Failed(i) PROVE NothingLost'
  <2>1. /\ UNCHANGED <<renderVars, edits, screen, timer, wanted>>
        /\ flight[i].at = "failed" /\ flight' = Without(i)
    BY <1>7 DEF Failed, list, history
  <2>2. PICK p : Follows(p, i) /\ \A j \in 1..Len(flight') : p[j] # 0
    BY <2>1, WithoutFollows
  <2>3. ~Has(i, {"save", "flush"}) /\ \A c \in Cut : ~Saves(i, c)
    BY <2>1 DEF Has, Saves
  <2> QED BY <2>1, <2>2, <2>3, PlainLost
<1>8. ASSUME Uploaded(i) PROVE NothingLost'
  <2>1. PICK c \in flight[i].cut, m \in flight[i].manifest :
          /\ manifest' = {m} /\ wanted' = [wanted EXCEPT ![c].sound = m.sound] /\ Save(c, m)
          /\ races' = races \cup Unsaved(c)
                            \cup (IF selected = {c} /\ m = wanted'[c] THEN {} ELSE {"reverted"})
    BY <1>8 DEF Uploaded
  <2>2. /\ UNCHANGED renderVars /\ edits' = edits /\ selected' = selected /\ row' = row
        /\ Has(i, {"upload"}) /\ flight' = Without(i)
    BY <1>8 DEF Uploaded, list, renderVars
  <2>3. selected = {c} /\ m = wanted'[c] /\ Unsaved(c) = {}
    BY <2>1
  <2>4. timer' = {[cut |-> c, manifest |-> m]} /\ \A t \in timer : t.cut = c
    BY <2>1, <2>3, NotReplaced DEF Save
  <2>5. OnScreen'
    BY <2>1, <2>2, <2>3 DEF OnScreen
  <2>6. PICK p : Follows(p, i) /\ \A j \in 1..Len(flight') : p[j] # 0
    BY <2>2, WithoutFollows
  <2>7. \A d : ~Saves(i, d) /\ ~Has(i, {"save", "flush"})
    BY <2>2 DEF Saves, Has
  <2>8. ASSUME NEW d \in DOMAIN row' \cap DOMAIN edits' PROVE Carried(d)' /\ ListTells(d)'
    <3>1. Carried(d) /\ ListTells(d) /\ d \in Cut /\ d \in DOMAIN wanted
      BY <2>2 DEF NothingLost, EditorTypeOK, Structure, AllMade
    <3>2. ASSUME d = c PROVE Carried(d)'
      BY <2>3, <2>4, <3>2 DEF Carried, Unheld
    <3>3. ASSUME d # c PROVE Carried(d)'
      <4>1. wanted'[d] = wanted[d]
        BY <2>1, <3>1, <3>3
      <4>2. Unheld(d) /\ \A t \in timer' : t.cut # d
        BY <2>4, <3>3 DEF Unheld
      <4> QED BY <2>2, <2>6, <2>7, <3>1, <4>1, <4>2, CarriedFollows
    <3>4. ListTells(d)'
      BY <2>2, <2>6, <2>7, <3>1, TellsFollows
    <3> QED BY <3>2, <3>3, <3>4
  <2> QED BY <2>5, <2>8 DEF NothingLost
<1> QED BY <1>3, <1>4, <1>5, <1>6, <1>7, <1>8 DEF Answer

-------------------------------------------------------------------------------
(* What is exported is what is shown                                         *)

\* The tab decides nothing of a row: its requests are sent, and answers taken.
LEMMA PendingFollows ==
  ASSUME EditorTypeOK, Pending, UNCHANGED renderVars, DOMAIN wanted' = DOMAIN wanted,
         NEW i, NEW p, Follows(p, i)
  PROVE  Pending'
<1>1. row' = row
  BY DEF renderVars
<1> SUFFICES ASSUME NEW j \in 1..Len(flight') PROVE Decides(j)'
  BY <1>1 DEF Pending
<1>2. CASE p[j] = 0
  BY <1>2 DEF Follows, Decides
<1>3. CASE p[j] # 0
  <2>1. p[j] \in 1..Len(flight) /\ Remains(flight[p[j]], flight'[j])
    BY <1>3, Before
  <2>2. Decides(p[j])
    BY <2>1 DEF Pending
  <2> QED BY <1>1, <2>1, <2>2 DEF Decides, Decided, Remains, Exists
<1> QED BY <1>2, <1>3

LEMMA PendingClick ==
  ASSUME EditorTypeOK, EditorAssumption, Pending,
         \/ CreateCutClick \/ RemoveCut \/ ExportClick \/ ShareClick \/ UploadClick \/ FireSave
         \/ \E c \in Cut : FirePoll(c)
         \/ \E part \in {"look", "sound"} : Change(part)
         \/ \E c \in Cut : SelectCut(c)
  PROVE  Pending'
<1>1. CASE \E part \in {"look", "sound"} : Change(part)
  <2>1. UNCHANGED renderVars /\ flight' = flight /\ DOMAIN wanted' = DOMAIN wanted
    BY <1>1 DEF Change, Moved
  <2> QED BY <2>1, SameFlight, PendingFollows
<1>2. ASSUME NEW c \in Cut, SelectCut(c) PROVE Pending'
  <2>1. UNCHANGED renderVars /\ wanted' = wanted
        /\ (flight' = flight \/ Send("flush", selected, manifest))
    BY <1>2 DEF SelectCut
  <2>2. "flush" \in Kind /\ selected \in Option(Cut) /\ manifest \in Option(Manifest)
    BY DEF Kind, EditorTypeOK
  <2>3. \E p : Follows(p, 0)
    BY <2>1, <2>2, SameFlight, SendFollows
  <2> QED BY <2>1, <2>3, PendingFollows
<1>3. CASE CreateCutClick \/ RemoveCut \/ ExportClick \/ ShareClick \/ UploadClick \/ FireSave
             \/ \E c \in Cut : FirePoll(c)
  <2>1. UNCHANGED renderVars /\ wanted' = wanted
    BY <1>3 DEF CreateCutClick, RemoveCut, ExportClick, ShareClick, UploadClick, FireSave, FirePoll,
       history
  <2>2. \E p : Follows(p, 0)
    BY <1>3, Sends, SendFollows
  <2> QED BY <2>1, <2>2, PendingFollows
<1> QED BY <1>1, <1>2, <1>3

LEMMA PendingAnswer ==
  ASSUME EditorTypeOK, EditorAssumption, Pending, NEW i \in 1..Len(flight), Answer(i)
  PROVE  Pending'
<1>1. UNCHANGED renderVars /\ DOMAIN wanted' = DOMAIN wanted
  BY DEF Answer, Saved, Created, Removed, Polled, Shared, Uploaded, Failed, history
<1>2. \/ flight' = Without(i) \/ flight' = Unheard(Without(i))
      \/ flight' = Append(Without(i), Sent("cut", flight[i].cut, {}))
  BY DEF Answer, Saved, Created, Removed, Polled, Shared, Uploaded, Failed
<1>3. \E p : Follows(p, i)
  BY <1>2, WithoutFollows, UnheardFollows, SharedFollows
<1> QED BY <1>1, <1>3, PendingFollows

LEMMA InitRows ==
  ASSUME CutAssumption, EditorAssumption, Init
  PROVE  /\ Newest \in DOMAIN row /\ DOMAIN row \subseteq Cut
         /\ \A c \in DOMAIN row :
              /\ row[c] \in Row /\ row[c].manifest = Blank /\ row[c].hash = row[c].asset
              /\ row[c].status = "ready" \/ row[c].linked => row[c].asset # {}
<1>1. Newest \in Cut
  BY DEF Newest, EditorAssumption
<1> DEFINE Fine(r) == /\ r \in Row /\ r.manifest = Blank /\ r.hash = r.asset
                      /\ r.status = "ready" \/ r.linked => r.asset # {}
<1>2. Fine(NewRow(Blank))
  BY DEF NewRow, Row, Status, Option, CutAssumption
<1>3. Fine(Exported)
  BY DEF NewRow, Exported, Row, Status, Option, CutAssumption
<1>4. ASSUME NEW l \in BOOLEAN PROVE Fine([Exported EXCEPT !.linked = l])
  <2>1. Exported \in Row /\ Exported.manifest = Blank /\ Exported.hash = Exported.asset
        /\ Exported.asset # {}
    BY <1>3 DEF NewRow, Exported
  <2> QED BY <2>1 DEF Row
<1> HIDE DEF Fine
<1>5. \/ row = [c \in {Newest} |-> NewRow(Blank)]
      \/ row = [c \in {Newest} |-> Exported]
      \/ row = [c \in Cut |-> [Exported EXCEPT !.linked = (c = Newest)]]
  BY DEF Init
<1>6. Newest \in DOMAIN row /\ DOMAIN row \subseteq Cut
  BY <1>1, <1>5
<1>7. \A c \in DOMAIN row : Fine(row[c])
  <2>1. CASE row = [c \in {Newest} |-> NewRow(Blank)]
    BY <1>2, <2>1
  <2>2. CASE row = [c \in {Newest} |-> Exported]
    BY <1>3, <2>2
  <2>3. CASE row = [c \in Cut |-> [Exported EXCEPT !.linked = (c = Newest)]]
    <3>1. \A c \in DOMAIN row : row[c] = [Exported EXCEPT !.linked = (c = Newest)]
      BY <2>3, Zenon
    <3> QED BY <1>4, <3>1, Zenon
  <2> QED BY <1>5, <2>1, <2>2, <2>3
<1> QED BY <1>6, <1>7 DEF Fine

LEMMA EditorInit == ASSUME CutAssumption, EditorAssumption, Init PROVE EditorInv
<1>1. /\ Newest \in DOMAIN row /\ DOMAIN row \subseteq Cut
      /\ \A c \in DOMAIN row :
           /\ row[c] \in Row /\ row[c].manifest = Blank /\ row[c].hash = row[c].asset
           /\ row[c].status = "ready" \/ row[c].linked => row[c].asset # {}
  BY InitRows
<1>2. /\ wanted = [c \in DOMAIN row |-> Blank] /\ edits = [c \in DOMAIN row |-> View(row[c])]
      /\ queue = [t \in Cut \X Attempt |-> 0] /\ pool = {} /\ faults = 0
      /\ selected = {Newest} /\ manifest = {Blank} /\ timer = {} /\ flushable = FALSE
      /\ saving = FALSE /\ creating = FALSE /\ polls = {} /\ flight = <<>>
      /\ changes = 0 /\ clicks = 0 /\ races = {}
  BY DEF Init
<1>3. TypeOK
  BY <1>1, <1>2 DEF TypeOK, CutAssumption
<1>4. \A c \in DOMAIN row : edits[c] = View(row[c]) /\ edits[c] \in VideoEdit /\ wanted[c] = Blank
  BY <1>1, <1>2, ViewTyped
<1>5. EditorTypeOK
  <2>1. selected \in Option(Cut) /\ manifest \in Option(Manifest)
    BY <1>1, <1>2 DEF Option, CutAssumption
  <2>2. flight \in Seq(Request) /\ Len(flight) <= MaxFlight
    BY <1>2 DEF EditorAssumption
  <2>3. Blank \in Manifest /\ 0 \in 0..MaxChanges /\ 0 \in 0..MaxClicks
    BY DEF CutAssumption, EditorAssumption
  <2> QED BY <1>1, <1>2, <1>3, <1>4, <2>1, <2>2, <2>3 DEF EditorTypeOK
<1>6. ExportHonest
  BY <1>1 DEF ExportHonest
<1>7. Len(flight) = 0
  BY <1>2
<1>8. Structure
  BY <1>1, <1>2, <1>7 DEF Structure, AllMade, EncodingShown, OneTimer, OpenListed, OnlyListedNamed,
     DeletedGone, CreatedTold, AnswersTell, InTurn, Unlisted, Exists
<1>9. NothingLost
  <2>1. OnScreen
    BY <1>1, <1>2, <1>4 DEF OnScreen
  <2>2. \A c \in DOMAIN row : Carried(c)
    BY <1>1, <1>2, <1>4, <1>7 DEF Carried
  <2>3. EncodingShown
    BY <1>8 DEF Structure
  <2>4. ASSUME NEW c \in DOMAIN row PROVE ListTells(c)
    <3>1. Told(View(row[c]), c)
      BY <1>2 DEF Told, View, Exports, Encoded
    <3> QED BY <1>4, <3>1 DEF ListTells
  <2> QED BY <2>1, <2>2, <2>4 DEF NothingLost
<1>10. Pending
  BY <1>2, <1>7 DEF Pending
<1> QED BY <1>5, <1>6, <1>8, <1>9, <1>10 DEF EditorInv

\* A race that is lost stays lost.
LEMMA RacesGrow ==
  ASSUME Next PROVE races \subseteq races'
<1>1. CASE Listener
  BY <1>1 DEF Listener, ChangeLook, ChangeSound, Change, Moved, CreateCutClick, RemoveCut, SelectCut,
     ExportClick, ShareClick, UploadClick
<1>2. CASE FireSave \/ Elsewhere \/ \E c \in Cut : FirePoll(c)
  BY <1>2 DEF FireSave, Elsewhere, FirePoll, history
<1>3. ASSUME NEW i \in 1..Len(flight), Handle(i) \/ HandleFails(i) PROVE races \subseteq races'
  BY <1>3 DEF Handle, ReadCut, CommitCut, DispatchCut, CreateCutRow, HandlePlain, HandleFails
<1>4. ASSUME NEW i \in 1..Len(flight), Answer(i) PROVE races \subseteq races'
  BY <1>4 DEF Answer, Saved, Created, Removed, Polled, Shared, Uploaded, Failed, history
<1> QED BY <1>1, <1>2, <1>3, <1>4 DEF Next, Flight

LEMMA EditorStep ==
  ASSUME CutAssumption, EditorAssumption, EditorInv, [Next]_vars PROVE EditorInv'
<1>1. /\ EditorTypeOK /\ ExportHonest /\ Pending
      /\ races = {} => Structure /\ NothingLost
  BY DEF EditorInv
<1>2. ASSUME UNCHANGED renderVars PROVE ExportHonest'
  BY <1>1, <1>2 DEF ExportHonest, renderVars
<1>3. ASSUME Next, races' = {} PROVE Structure /\ NothingLost
  BY <1>1, <1>3, RacesGrow
<1>4. CASE UNCHANGED vars
  <2>1. /\ UNCHANGED <<renderVars, edits, selected, manifest, timer, flushable, saving, creating>>
        /\ UNCHANGED <<polls, flight, wanted, changes, clicks, races>>
        /\ UNCHANGED screen /\ row' = row
    BY <1>4 DEF vars, autosave, list, screen, history, renderVars
  <2>2. EditorTypeOK' /\ ExportHonest'
    <3>1. TypeOK'
      BY <1>1, <2>1, RemoteTyped DEF EditorTypeOK
    <3> QED BY <1>1, <2>1, <3>1 DEF EditorTypeOK, ExportHonest
  <2>3. PICK p : Follows(p, 0) /\ \A j \in 1..Len(flight') : p[j] # 0
    BY <1>1, <2>1, SameFlight
  <2>4. Pending'
    BY <1>1, <2>1, <2>3, PendingFollows
  <2>5. ASSUME races' = {} PROVE Structure' /\ NothingLost'
    <3>1. Structure /\ NothingLost
      BY <1>1, <2>1, <2>5
    <3>2. OneTimer' /\ OpenListed'
      BY <2>1, <3>1 DEF Structure, OneTimer, OpenListed
    <3>3. 0 \notin 1..Len(flight)
      OBVIOUS
    <3>4. Structure'
      BY <1>1, <2>1, <2>2, <2>3, <3>1, <3>2, SentKeeps
    <3> QED BY <1>1, <2>1, <2>2, <2>3, <2>5, <3>1, <3>3, <3>4, PlainLost
  <2> QED BY <2>2, <2>4, <2>5 DEF EditorInv
<1>5. ASSUME NEW part \in {"look", "sound"}, Change(part), Next PROVE EditorInv'
  <2>1. EditorTypeOK' /\ ExportHonest'
    BY <1>1, <1>2, <1>5, MoveTyped DEF Change
  <2>2. Pending'
    BY <1>1, <1>5, PendingClick
  <2>3. races' = {} => Structure' /\ NothingLost'
    BY <1>1, <1>3, <1>5, <2>1, MoveStructure, MoveLost
  <2> QED BY <2>1, <2>2, <2>3 DEF EditorInv
<1>6. ASSUME CreateCutClick \/ RemoveCut \/ ExportClick \/ ShareClick \/ UploadClick \/ FireSave
               \/ \E c \in Cut : FirePoll(c), Next
      PROVE  EditorInv'
  <2>1. UNCHANGED renderVars
    BY <1>6 DEF CreateCutClick, RemoveCut, ExportClick, ShareClick, UploadClick, FireSave, FirePoll
  <2>2. EditorTypeOK' /\ ExportHonest'
    BY <1>1, <1>2, <1>6, <2>1, SendTyped
  <2>3. Pending'
    BY <1>1, <1>6, PendingClick
  <2>4. races' = {} => Structure' /\ NothingLost'
    BY <1>1, <1>3, <1>6, <2>2, SendStructure, SendLost
  <2> QED BY <2>2, <2>3, <2>4 DEF EditorInv
<1>7. ASSUME NEW c \in Cut, SelectCut(c), Next PROVE EditorInv'
  <2>1. EditorTypeOK' /\ ExportHonest'
    BY <1>1, <1>2, <1>7, SelectTyped DEF SelectCut
  <2>2. Pending'
    BY <1>1, <1>7, PendingClick
  <2>3. races' = {} => Structure' /\ NothingLost'
    BY <1>1, <1>3, <1>7, <2>1, SelectStructure, SelectLost
  <2> QED BY <2>1, <2>2, <2>3 DEF EditorInv
<1>8. ASSUME Elsewhere, Next PROVE EditorInv'
  <2>1. EditorTypeOK' /\ ExportHonest'
    BY <1>1, <1>8, ElsewhereTyped
  <2>2. Pending'
    BY <1>1, <1>8, ElsewherePending
  <2>3. races' = {} => Structure' /\ NothingLost'
    BY <1>1, <1>3, <1>8, <2>1, ElsewhereStructure, ElsewhereLost
  <2> QED BY <2>1, <2>2, <2>3 DEF EditorInv
<1>9. ASSUME NEW i \in 1..Len(flight), Handle(i), Next PROVE EditorInv'
  <2>1. EditorTypeOK' /\ ExportHonest'
    BY <1>1, <1>9, HandledTyped
  <2>2. Pending'
    BY <1>1, <1>9, <2>1, HandledPending
  <2>3. races' = {} => Structure' /\ NothingLost'
    BY <1>1, <1>3, <1>9, <2>1, HandledStructure, HandledLost
  <2> QED BY <2>1, <2>2, <2>3 DEF EditorInv
<1>10. ASSUME NEW i \in 1..Len(flight), HandleFails(i), Next PROVE EditorInv'
  <2>1. EditorTypeOK' /\ ExportHonest'
    BY <1>1, <1>10, HandledTyped
  <2>2. Pending'
    BY <1>1, <1>10, FailsPending
  <2>3. races' = {} => Structure' /\ NothingLost'
    BY <1>1, <1>3, <1>10, <2>1, HandleFailsStructure, HandleFailsLost
  <2> QED BY <2>1, <2>2, <2>3 DEF EditorInv
<1>11. ASSUME NEW i \in 1..Len(flight), Answer(i), Next PROVE EditorInv'
  <2>1. UNCHANGED renderVars
    BY <1>11 DEF Answer, Saved, Created, Removed, Polled, Shared, Uploaded, Failed
  <2>2. EditorTypeOK' /\ ExportHonest'
    BY <1>1, <1>2, <1>11, <2>1, AnswerTyped
  <2>3. Pending'
    BY <1>1, <1>11, PendingAnswer
  <2>4. races' = {} => Structure' /\ NothingLost'
    BY <1>1, <1>3, <1>11, <2>2, AnswerStructure, AnswerLost
  <2> QED BY <2>2, <2>3, <2>4 DEF EditorInv
<1> QED BY <1>4, <1>5, <1>6, <1>7, <1>8, <1>9, <1>10, <1>11
       DEF Next, Listener, Flight, ChangeLook, ChangeSound

\* When nothing is pending and no race has been lost, the row asks for what is on screen, the list
\* tells the row, and its bytes were made from what it asks for.
LEMMA ShownIsExported == ASSUME EditorInv PROVE ExportedAsShown
<1> SUFFICES ASSUME Quiet, NEW c \in selected \cap DOMAIN row, edits[c].current, ~Working(edits, c)
             PROVE  row[c].asset = manifest
  BY DEF ExportedAsShown
<1>1. c \in DOMAIN edits /\ manifest = {wanted[c]} /\ Carried(c) /\ ListTells(c)
  BY DEF EditorInv, Structure, OpenListed, NothingLost, OnScreen, Quiet
<1>2. timer = {} /\ Len(flight) = 0
  BY DEF Quiet
<1>3. row[c].manifest = wanted[c]
  BY <1>1, <1>2 DEF Carried, Unheld
<1>4. Told(edits[c], c)
  BY <1>1, <1>2 DEF ListTells
<1>5. row[c].hash = {row[c].manifest}
  BY <1>1, <1>4 DEF Told, Working, Exports, RenderCurrent, Exists
<1>6. row[c].hash = row[c].asset
  BY DEF EditorInv, ExportHonest
<1> QED BY <1>1, <1>3, <1>5, <1>6

\* The tab, its requests and their answers keep their types, whatever is clicked and answered when.
THEOREM EditorTypeCorrect == EditorSpec => []EditorTypeOK
<1> USE CutAssumption, EditorAssumption
<1>1. Init => EditorInv
  BY EditorInit
<1>2. EditorInv /\ [Next]_vars => EditorInv'
  BY EditorStep
<1>3. EditorInv => EditorTypeOK
  BY DEF EditorInv
<1> QED BY <1>1, <1>2, <1>3, PTL DEF EditorSpec

\* Under the tab, too, every row tells the truth about its bytes.
THEOREM EditorHonest == EditorSpec => []ExportHonest
<1> USE CutAssumption, EditorAssumption
<1>1. Init => EditorInv
  BY EditorInit
<1>2. EditorInv /\ [Next]_vars => EditorInv'
  BY EditorStep
<1>3. EditorInv => ExportHonest
  BY DEF EditorInv
<1> QED BY <1>1, <1>2, <1>3, PTL DEF EditorSpec

\* Once nothing is pending, what the panel calls exported was made from what is on the screen,
\* although saves are debounced for all cuts together, are flushed, overtake one another and are
\* answered in any order; a race of `Race` that was lost is the only way to another outcome.
THEOREM ShownExported == EditorSpec => []ExportedAsShown
<1> USE CutAssumption, EditorAssumption
<1>1. Init => EditorInv
  BY EditorInit
<1>2. EditorInv /\ [Next]_vars => EditorInv'
  BY EditorStep
<1>3. EditorInv => ExportedAsShown
  BY ShownIsExported
<1> QED BY <1>1, <1>2, <1>3, PTL DEF EditorSpec
===============================================================================
