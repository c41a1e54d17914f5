-------------------------------- MODULE Ingest --------------------------------
(***************************************************************************)
(* A document that is brought instead of a story that is written: the      *)
(* dropzone and the form around it, the job row of the upload, and the     *)
(* worker that extracts and condenses its text.                            *)
(*                                                                         *)
(* The dropzone uploads one file at a time and reads its job until there   *)
(* is text, a failure or a deadline; the text lands in the form, where it  *)
(* can be edited before a story is made of it.                             *)
(***************************************************************************)
EXTENDS Naturals, FiniteSets

CONSTANTS
  MaxFiles,    (* bound: files uploaded                                   *)
  MaxTries,    (* attempts of one task                                    *)
  MaxFaults    (* bound: failed requests, attempts and workers            *)

ASSUME IngestAssumption == MaxFiles \in Nat /\ MaxTries \in Nat /\ MaxFaults \in Nat

VARIABLES
  uploads,    \* per upload, its row and what the queue and the workers have of it
  job,     \* the row as the dropzone shows it; 0: none
  upload,  \* `uploading`
  error,   \* whether the dropzone shows an error, with its way out
  chains,  \* the requests, timers and reads that follow an upload
  text,    \* what is in the form: nothing, typed text, or a file's
  form,    \* the request that makes a story of it
  files,   \* uploads so far
  faults   \* faults so far

vars == <<uploads, job, upload, error, chains, text, form, files, faults>>
server == <<uploads>>
dropzone == <<job, upload, error, chains>>

Id == 1..MaxFiles
Status == {"pending", "extracting", "cleaning", "ready", "failed"}
Settled == {"ready", "failed"}
Row == [status: Status, text: BOOLEAN, tries: 0..MaxTries, at: {"queue", "worker", "nowhere"}]
Absent == [status |-> "pending", text |-> FALSE, tries |-> 0, at |-> "nowhere"]

Shown == [id: Id, status: Status]
Chain == [id: Id, at: {"upload", "pause", "read", "answered", "error"}, late: BOOLEAN,
          status: Status, text: BOOLEAN]

TypeOK ==
  /\ uploads \in [Id -> Row]
  /\ job = {} \/ \E j \in Shown : job = {j}
  /\ upload \in BOOLEAN /\ error \in BOOLEAN
  /\ chains \subseteq Chain
  /\ text \in 0..MaxFiles + 1
  /\ form \in {"idle", "sent", "made", "failed", "gone"}
  /\ files \in 0..MaxFiles
  /\ faults \in 0..MaxFaults

Nothing == 0
Typed == MaxFiles + 1

Init ==
  /\ uploads = [i \in Id |-> Absent]
  /\ job = {} /\ upload = FALSE /\ error = FALSE /\ chains = {}
  /\ text = Nothing /\ form = "idle"
  /\ files = 0 /\ faults = 0

Fault == faults < MaxFaults /\ faults' = faults + 1

-------------------------------------------------------------------------------
(* The server                                                                *)

SetRow(i, row) ==
  /\ uploads' = [uploads EXCEPT ![i] = row]
  /\ UNCHANGED <<dropzone, text, form, files>>

\* The first commit of the task; a repeated delivery takes a finished row back here.
Extract(i) ==
  /\ uploads[i].at = "queue"
  /\ SetRow(i, [uploads[i] EXCEPT !.status = "extracting", !.at = "worker"])
  /\ UNCHANGED faults

Clean(i) ==
  /\ uploads[i].at = "worker" /\ uploads[i].status = "extracting"
  /\ SetRow(i, [uploads[i] EXCEPT !.status = "cleaning"])
  /\ UNCHANGED faults

Ready(i) ==
  /\ uploads[i].at = "worker" /\ uploads[i].status = "cleaning"
  /\ SetRow(i, [uploads[i] EXCEPT !.status = "ready", !.text = TRUE, !.at = "nowhere"])
  /\ UNCHANGED faults

\* Written only when there is no retry left, or for a file that holds no story.
Fail(i) ==
  /\ uploads[i].at = "worker" /\ Fault
  /\ \/ /\ uploads[i].tries + 1 < MaxTries
        /\ SetRow(i, [uploads[i] EXCEPT !.tries = @ + 1, !.at = "queue"])
     \/ SetRow(i, [uploads[i] EXCEPT !.status = "failed", !.at = "nowhere"])

\* A worker dies: its message comes back, or (the hard time limit) it does not; or it comes
\* back once more although the text was stored.
Die(i) ==
  /\ Fault
  /\ \/ /\ uploads[i].at = "worker"
        /\ \E at \in {"queue", "nowhere"} : SetRow(i, [uploads[i] EXCEPT !.at = at])
     \/ /\ uploads[i].status = "ready" /\ uploads[i].at = "nowhere"
        /\ SetRow(i, [uploads[i] EXCEPT !.at = "queue"])

-------------------------------------------------------------------------------
(* The dropzone                                                              *)

Busy == upload \/ \E j \in job : j.status \notin Settled

Step(c, rest) == chains' = (chains \ {c}) \cup rest

Send ==
  /\ ~Busy /\ form # "sent" /\ form # "gone" /\ files < MaxFiles
  /\ files' = files + 1
  /\ job' = {} /\ error' = FALSE /\ upload' = TRUE
  /\ chains' = chains \cup {[id |-> files + 1, at |-> "upload", late |-> FALSE,
                             status |-> "pending", text |-> FALSE]}
  /\ UNCHANGED <<uploads, text, form, faults>>

\* The row is committed and its task sent, and the dropzone shows it as pending.
Accepted(c) ==
  /\ c \in chains /\ c.at = "upload"
  /\ uploads' = [uploads EXCEPT ![c.id].at = "queue"]
  /\ job' = {[id |-> c.id, status |-> "pending"]} /\ upload' = FALSE
  /\ Step(c, {[c EXCEPT !.at = "pause"]})
  /\ UNCHANGED <<error, text, form, files, faults>>

\* A file that is refused, a limit, or a request that is lost.
Refused(c) ==
  /\ c \in chains /\ c.at = "upload" /\ Fault
  /\ error' = TRUE /\ upload' = FALSE
  /\ Step(c, {})
  /\ UNCHANGED <<uploads, job, text, form, files>>

\* Every pause may be the one that the deadline falls into.
Tick(c) ==
  /\ c \in chains /\ c.at = "pause"
  /\ \E late \in {c.late, TRUE} : Step(c, {[c EXCEPT !.at = "read", !.late = late]})
  /\ UNCHANGED <<uploads, job, upload, error, text, form, files, faults>>

Answer(c) ==
  /\ c \in chains /\ c.at = "read"
  /\ \/ /\ Step(c, {[c EXCEPT !.at = "answered", !.status = uploads[c.id].status,
                              !.text = uploads[c.id].text]})
        /\ UNCHANGED faults
     \/ Step(c, {[c EXCEPT !.at = "error"]}) /\ Fault
  /\ UNCHANGED <<uploads, job, upload, error, text, form, files>>

\* Mutant: a read that fails ends the polling and says nothing.
ReadFailedSilently(c) ==
  /\ c \in chains /\ c.at = "error"
  /\ Step(c, {})
  /\ UNCHANGED <<uploads, job, upload, error, text, form, files, faults>>

ReadFailed(c) ==
  /\ c \in chains /\ c.at = "error"
  /\ error' = TRUE
  /\ Step(c, {})
  /\ UNCHANGED <<uploads, job, upload, text, form, files, faults>>

\* onExtracted: the text replaces whatever is in the form.
Land(c) == text' = c.id

Polled(c) ==
  /\ c \in chains /\ c.at = "answered"
  /\ job' = {[id |-> c.id, status |-> c.status]}
  /\ \/ c.status = "ready" /\ c.text /\ Land(c) /\ Step(c, {}) /\ UNCHANGED error
     \/ /\ ~(c.status = "ready" /\ c.text) /\ (c.status = "failed" \/ c.late)
        /\ error' = TRUE /\ Step(c, {}) /\ UNCHANGED text
     \/ /\ ~(c.status = "ready" /\ c.text) /\ c.status # "failed" /\ ~c.late
        /\ Step(c, {[c EXCEPT !.at = "pause"]}) /\ UNCHANGED <<error, text>>
  /\ UNCHANGED <<uploads, upload, form, files, faults>>

\* "Use a different file" beside a finished one, "Try again" beside an error.
Reset ==
  /\ error \/ \E j \in job : j.status = "ready"
  /\ form # "gone"
  /\ job' = {} /\ error' = FALSE
  /\ UNCHANGED <<uploads, upload, chains, text, form, files, faults>>

-------------------------------------------------------------------------------
(* The form                                                                  *)

Write ==
  /\ form # "gone" /\ text # Typed
  /\ text' = Typed
  /\ UNCHANGED <<uploads, dropzone, form, files, faults>>

Submit ==
  /\ form = "idle" /\ text # Nothing
  /\ form' = "sent"
  /\ UNCHANGED <<uploads, dropzone, text, files, faults>>

Created ==
  /\ form = "sent"
  /\ \/ form' = "made" /\ UNCHANGED faults
     \/ form' = "failed" /\ Fault
  /\ UNCHANGED <<uploads, dropzone, text, files>>

\* The new story is opened, or the form left: the dropzone's answers are ignored from here on.
Leave ==
  /\ form # "gone"
  /\ form' = "gone"
  /\ job' = {} /\ upload' = FALSE /\ error' = FALSE /\ chains' = {}
  /\ UNCHANGED <<uploads, text, files, faults>>

Reported ==
  /\ form = "failed"
  /\ form' = "idle"
  /\ UNCHANGED <<uploads, dropzone, text, files, faults>>

-------------------------------------------------------------------------------
Follow(c) == Accepted(c) \/ Refused(c) \/ Tick(c) \/ Answer(c) \/ ReadFailed(c) \/ Polled(c)

Next ==
  \/ \E i \in Id : Extract(i) \/ Clean(i) \/ Ready(i) \/ Fail(i) \/ Die(i)
  \/ \E c \in chains : Follow(c)
  \/ Send \/ Reset \/ Write \/ Submit \/ Created \/ Leave \/ Reported

Spec == Init /\ [][Next]_vars

\* Requests are answered, timers fire and time passes.  No worker has to make any progress.
Fairness ==
  \A i \in Id :
    /\ WF_vars(\E c \in chains : c.id = i /\ Follow(c))
    /\ SF_vars(\E c \in chains : c.id = i /\ Tick(c) /\ \A d \in chains' : d.id = i => d.late)

FairSpec == Spec /\ Fairness

-------------------------------------------------------------------------------
(* Properties                                                                *)

\* While the dropzone is closed for a file, something is under way that will open it again, or
\* an error offers a way out; nothing follows a file the dropzone is not busy with; and only
\* the file that is shown is followed, so that the text of a file that was put aside never lands.
NeverStuck ==
  /\ Busy => chains # {} \/ error
  /\ chains # {} => Busy /\ Cardinality(chains) = 1
  /\ \A c \in chains, j \in job : c.id = j.id

===============================================================================
