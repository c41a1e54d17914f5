------------------------------ MODULE ReviewSlot ------------------------------
(***************************************************************************)
(* What the Plot Hole Hunter promises for one story version: reviews open  *)
(* one at a time, at most one model call is in progress, and a review ends *)
(* once, with a result only if a call was in progress for it.              *)
(***************************************************************************)
EXTENDS Naturals

CONSTANTS Check, Worker

VARIABLES phase,   (* of each review: "absent", "open", "succeeded", "failed" *)
          calls    (* the model calls in progress: <<worker, review>>        *)

slot == <<phase, calls>>

Init ==
  /\ phase = [c \in Check |-> "absent"]
  /\ calls = {}

Open(c) ==
  /\ phase[c] = "absent"
  /\ \A d \in Check : phase[d] # "open"
  /\ phase' = [phase EXCEPT ![c] = "open"]
  /\ UNCHANGED calls

StartCall(w, c) ==
  /\ phase[c] = "open"
  /\ calls = {}
  /\ calls' = {<<w, c>>}
  /\ UNCHANGED phase

\* A call that ends without a result leaves its review open.
DropCall(w, c) ==
  /\ <<w, c>> \in calls
  /\ calls' = {}
  /\ UNCHANGED phase

Publish(w, c) ==
  /\ <<w, c>> \in calls
  /\ phase[c] = "open"
  /\ phase' = [phase EXCEPT ![c] = "succeeded"]
  /\ calls' = {}

\* A review is reported failed when no call is in progress for it.
GiveUp(c) ==
  /\ phase[c] = "open"
  /\ calls = {}
  /\ phase' = [phase EXCEPT ![c] = "failed"]
  /\ UNCHANGED calls

Next ==
  \E c \in Check :
    \/ Open(c)
    \/ GiveUp(c)
    \/ \E w \in Worker : StartCall(w, c) \/ DropCall(w, c) \/ Publish(w, c)

Spec == Init /\ [][Next]_slot
===============================================================================
