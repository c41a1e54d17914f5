------------------------------- MODULE CutRender -------------------------------
(***************************************************************************)
(* The server's side of a cut: the rows of `video_edits`, the API handlers *)
(* that save, export, share and delete a cut, and the assembly pool (one   *)
(* process) that encodes it.                                               *)
(*                                                                         *)
(* A manifest may be edited at any moment, also while it waits for the     *)
(* pool or is being encoded, so what was rendered is told from what is     *)
(* asked for by the digest recorded with the bytes.  Nothing locks a row:  *)
(* a handler, and a worker's claim, decide on the row they have read and   *)
(* write the columns they change later.  Cuts, manifests, the instant a    *)
(* caller acts and the age of what it has read are arbitrary: CutEditor    *)
(* composes this module with the editor that calls it.                     *)
(***************************************************************************)
EXTENDS Naturals

CONSTANTS
  Cut,         (* names of cuts                                           *)
  Manifest,    (* what a cut may ask for                                  *)
  Blank,       (* the default manifest                                    *)
  MaxRetries,  (* autoretry: attempts after the first                     *)
  MaxTasks,    (* bound: messages of one cut and attempt on the queue     *)
  MaxFaults    (* bound: failed encodes and crashed workers               *)

ASSUME CutAssumption ==
  /\ Blank \in Manifest
  /\ MaxRetries \in Nat /\ MaxTasks \in Nat \ {0} /\ MaxFaults \in Nat

VARIABLES
  row,     (* the rows that exist                                         *)
  queue,   (* messages on the assembly queue, by cut and attempt          *)
  pool,    (* the task the pool is running: a set of one or none          *)
  faults   (* faults so far                                               *)

renderVars == <<row, queue, pool, faults>>

Status == {"draft", "queued", "rendering", "ready", "failed"}
Attempt == 0..MaxRetries

\* A value or null.
Option(S) == {{}} \cup {{x} : x \in S}

\* `asset` is the manifest its bytes were made from; `hash` is the digest the row records;
\* `linked` says that a share token is in force.
Row == [manifest: Manifest, status: Status, asset: Option(Manifest), hash: Option(Manifest),
        linked: BOOLEAN]

\* The columns that an UPDATE sets: those whose value is not the one that was read.
Columns == [manifest: Option(Manifest), status: Option(Status)]

\* `manifest` and the digest are captured when the task begins; the claim is committed after.
Task == [cut: Cut, attempt: Attempt, manifest: Manifest, at: {"claiming", "encoding"}]

TypeOK ==
  /\ DOMAIN row \subseteq Cut
  /\ \A c \in DOMAIN row : row[c] \in Row
  /\ queue \in [Cut \X Attempt -> 0..MaxTasks]
  /\ pool \subseteq Task
  /\ faults \in 0..MaxFaults

NewRow(m) == [manifest |-> m, status |-> "draft", asset |-> {}, hash |-> {}, linked |-> FALSE]

RenderInit ==
  /\ row = [c \in {} |-> NewRow(Blank)]
  /\ queue = [t \in Cut \X Attempt |-> 0]
  /\ pool = {}
  /\ faults = 0

Exists(c) == c \in DOMAIN row
Fault == faults < MaxFaults /\ faults' = faults + 1

\* `_edit_out`: what every handler answers.
RenderCurrent(r) == r.asset # {} /\ r.hash = {r.manifest}

Stored(c, r) == row' = [d \in DOMAIN row \cup {c} |-> IF d = c THEN r ELSE row[d]]

-------------------------------------------------------------------------------
(* The API                                                                   *)

CreateCut(c, m) ==
  /\ ~Exists(c)
  /\ Stored(c, NewRow(m))
  /\ UNCHANGED <<queue, pool, faults>>

\* A value to write, unless it is the one that was read.
Differs(new, old) == IF new = old THEN {} ELSE {new}

\* What is decided on the row that was read.  A manifest change puts the cut back to draft, or to
\* ready when it is what was rendered.
UpdateCut(r, m) ==
  [manifest |-> Differs(m, r.manifest),
   status |-> IF r.status = "rendering" THEN {}
              ELSE Differs(IF r.hash = {m} THEN "ready" ELSE "draft", r.status)]

\* An export: ready when it is already rendered, else queued.
RenderCut(r) ==
  [manifest |-> {}, status |-> Differs(IF RenderCurrent(r) THEN "ready" ELSE "queued", r.status)]

\* Already in flight, or rendered and said so: nothing to write and no message.
NothingToRender(r) == r.status = "rendering" \/ (RenderCurrent(r) /\ r.status = "ready")

Given(column, old) == IF column = {} THEN {old} ELSE column

\* The UPDATE, whatever the row has become since it was read.
Commit(c, u) ==
  /\ Exists(c)
  /\ \E m \in Given(u.manifest, row[c].manifest), s \in Given(u.status, row[c].status) :
       Stored(c, [row[c] EXCEPT !.manifest = m, !.status = s])
  /\ UNCHANGED <<queue, pool, faults>>

\* After the commit of "queued", and whether or not the row is still there.
DispatchRender(c) ==
  /\ queue[<<c, 0>>] < MaxTasks
  /\ queue' = [queue EXCEPT ![<<c, 0>>] = @ + 1]
  /\ UNCHANGED <<row, pool, faults>>

\* The bytes and the messages of the cut are left behind.
DeleteCut(c) ==
  /\ Exists(c)
  /\ row' = [d \in DOMAIN row \ {c} |-> row[d]]
  /\ UNCHANGED <<queue, pool, faults>>

\* A token is minted, or the one there is kept and its expiry moved.
ShareCut(c) ==
  /\ Exists(c) /\ row[c].asset # {}
  /\ Stored(c, [row[c] EXCEPT !.linked = TRUE])
  /\ UNCHANGED <<queue, pool, faults>>

RevokeShare(c) ==
  /\ Exists(c)
  /\ Stored(c, [row[c] EXCEPT !.linked = FALSE])
  /\ UNCHANGED <<queue, pool, faults>>

\* Time passes.
ShareExpires(c) ==
  /\ Exists(c) /\ row[c].linked
  /\ Stored(c, [row[c] EXCEPT !.linked = FALSE])
  /\ UNCHANGED <<queue, pool, faults>>

-------------------------------------------------------------------------------
(* The assembly pool                                                         *)

Taken(c, a) == queue[<<c, a>>] > 0 /\ pool = {}

Consumed(c, a) == queue' = [queue EXCEPT ![<<c, a>>] = @ - 1]

\* Celery's autoretry, of what is worth another attempt: the attempts end by themselves.
Retried(c, a, q) ==
  queue' = IF a < MaxRetries /\ q[<<c, a + 1>>] < MaxTasks
           THEN [q EXCEPT ![<<c, a + 1>>] = @ + 1] ELSE q

\* The cut is gone: LookupError is not retried.
BeginMissing(c, a) ==
  /\ Taken(c, a) /\ ~Exists(c)
  /\ Consumed(c, a)
  /\ UNCHANGED <<row, pool, faults>>

\* A redelivery of a render that already landed.
BeginCached(c, a) ==
  /\ Taken(c, a) /\ Exists(c)
  /\ row[c].status = "ready" /\ row[c].hash = {row[c].manifest}
  /\ Consumed(c, a)
  /\ UNCHANGED <<row, pool, faults>>

\* A row that says rendering already (the worker crashed) has no column to claim.
BeginRender(c, a) ==
  /\ Taken(c, a) /\ Exists(c)
  /\ ~(row[c].status = "ready" /\ row[c].hash = {row[c].manifest})
  /\ Consumed(c, a)
  /\ pool' = {[cut |-> c, attempt |-> a, manifest |-> row[c].manifest,
               at |-> IF row[c].status = "rendering" THEN "encoding" ELSE "claiming"]}
  /\ UNCHANGED <<row, faults>>

\* The claim is committed, whatever was saved since the row was read; a cut that is gone has no
\* row to update, an error that is retried.
ClaimRender(t) ==
  /\ t \in pool /\ t.at = "claiming"
  /\ \/ /\ Exists(t.cut)
        /\ Stored(t.cut, [row[t.cut] EXCEPT !.status = "rendering"])
        /\ pool' = {[t EXCEPT !.at = "encoding"]}
        /\ UNCHANGED queue
     \/ /\ ~Exists(t.cut)
        /\ pool' = {} /\ Retried(t.cut, t.attempt, queue)
        /\ UNCHANGED row
  /\ UNCHANGED faults

\* Mutant: the digest is taken from the row when the bytes are recorded.
FinishWithRow(t) ==
  /\ t \in pool /\ t.at = "encoding"
  /\ \/ ~Exists(t.cut) /\ UNCHANGED row
     \/ Exists(t.cut) /\ Stored(t.cut, [row[t.cut] EXCEPT !.status = "ready",
                                        !.asset = {t.manifest},
                                        !.hash = {row[t.cut].manifest}])
  /\ pool' = {}
  /\ UNCHANGED <<queue, faults>>

FinishRender(t) ==
  /\ t \in pool /\ t.at = "encoding"
  /\ \/ ~Exists(t.cut) /\ UNCHANGED row
     \/ Exists(t.cut) /\ Stored(t.cut, [row[t.cut] EXCEPT !.status = "ready",
                                        !.asset = {t.manifest}, !.hash = {t.manifest}])
  /\ pool' = {}
  /\ UNCHANGED <<queue, faults>>

\* The failure is recorded on the row, then raised: the task is retried, unless the failure is one
\* that would repeat.
FailRender(t) ==
  /\ t \in pool /\ t.at = "encoding" /\ Fault
  /\ \/ ~Exists(t.cut) /\ UNCHANGED row
     \/ Exists(t.cut) /\ Stored(t.cut, [row[t.cut] EXCEPT !.status = "failed"])
  /\ pool' = {}
  /\ Retried(t.cut, t.attempt, queue) \/ UNCHANGED queue

\* A crashed worker's message was not acknowledged and is delivered again.
Crash(t) ==
  /\ t \in pool /\ Fault
  /\ queue[<<t.cut, t.attempt>>] < MaxTasks
  /\ queue' = [queue EXCEPT ![<<t.cut, t.attempt>>] = @ + 1]
  /\ pool' = {}
  /\ UNCHANGED row

-------------------------------------------------------------------------------
Deliver(c, a) == BeginMissing(c, a) \/ BeginCached(c, a) \/ BeginRender(c, a)

Pool ==
  \/ \E c \in Cut, a \in Attempt : Deliver(c, a)
  \/ \E t \in pool : ClaimRender(t) \/ FinishRender(t) \/ FailRender(t) \/ Crash(t)

\* Whatever was decided on a row, read at any time before: it was ready for bytes it had.
Decided(c, u) == u.status = {"ready"} /\ Exists(c) => row[c].asset # {}

Caller ==
  \E c \in Cut :
    \/ \E m \in Manifest : CreateCut(c, m)
    \/ \E u \in Columns : Decided(c, u) /\ Commit(c, u)
    \/ DeleteCut(c) \/ DispatchRender(c)
    \/ ShareCut(c) \/ RevokeShare(c) \/ ShareExpires(c)

Spec == RenderInit /\ [][Caller \/ Pool]_renderVars

-------------------------------------------------------------------------------
(* Properties                                                                *)

\* What a row says its bytes are is what they were made from, although the manifest may change
\* and the row may be taken back to draft between an encode's first read and its last write, and
\* a handler may write what it decided on an older row;
\* nothing is called ready without bytes; and a link in force finds bytes to play, whatever is
\* saved, exported again or fails after it was handed out ("A link that resolves to nothing is
\* worse than no link").
ExportHonest ==
  \A c \in DOMAIN row :
    /\ row[c].hash = row[c].asset
    /\ row[c].status = "ready" \/ row[c].linked => row[c].asset # {}
===============================================================================
