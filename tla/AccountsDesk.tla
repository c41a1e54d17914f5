------------------------------ MODULE AccountsDesk -----------------------------
(***************************************************************************)
(* The accounts and the audit trail of the admin console, and the API that *)
(* changes a role.                                                         *)
(*                                                                         *)
(* A change reads the caller's account and the one it is about, checks     *)
(* them, and writes the role and an entry of the trail; nothing locks the  *)
(* accounts meanwhile.  Another admin works elsewhere.                     *)
(***************************************************************************)
EXTENDS Naturals, Sequences

CONSTANTS
  Users,       (* the accounts                                            *)
  Me,          (* the account this console is logged in with              *)
  MaxReads,    (* bound: requests in flight                               *)
  MaxClicks,   (* bound: clicks                                           *)
  MaxEvents    (* bound: changes made elsewhere, requests that fail       *)

VARIABLES
  role,        \* the accounts' roles
  trail,       \* the audit trail, oldest first
  changes,     \* the changes that are sent or handled
  crossed,     \* history: two changes were handled at the same time
  tab,         \* the section that is open
  users,       \* the accounts as they are listed (a set of one or none)
  detail,      \* the account that is open (a set of one or none)
  loading,
  shown,       \* the length of the trail that is listed
  reads,       \* the lists in flight
  clicks, events

server == <<role, trail, changes, crossed>>
page == <<tab, users, detail, loading, shown, reads>>
vars == <<server, page, clicks, events>>

Roles == {"user", "admin"}
Entry == [user: Users, from: Roles, to: Roles]
Maybe(S) == {{}} \cup {{x} : x \in S}

TypeOK ==
  /\ role \in [Users -> Roles]
  /\ trail \in Seq(Entry)
  /\ \A c \in changes : /\ {c.by, c.user} \subseteq Users /\ c.to \in Roles
                        /\ c.from \in Maybe(Roles)
  /\ {crossed, loading} \subseteq BOOLEAN
  /\ tab \in {"users", "audit"}
  /\ users \in Maybe([Users -> Roles]) /\ detail \in Maybe(Users)
  /\ shown \in 0..Len(trail)
  /\ \A q \in reads : q.id \in 1..MaxReads /\ q.kind \in {"users", "costs", "audit", "role"}

Event == events < MaxEvents /\ events' = events + 1
Click == clicks < MaxClicks /\ clicks' = clicks + 1

-------------------------------------------------------------------------------
(* The API: a role is changed                                                *)

Allowed(c) == role[c.by] = "admin" /\ ~(c.user = c.by /\ c.to # "admin")

\* A change whose accounts are read; `from` is the role it has found.
Handled(c) == c.from # {}

SetRole(c) ==
  /\ c \in changes /\ ~Handled(c) /\ Allowed(c)
  /\ changes' = (changes \ {c}) \cup {[c EXCEPT !.from = {role[c.user]}]}
  /\ crossed' = (crossed \/ \E x \in changes : Handled(x))
  /\ UNCHANGED <<role, trail, page, clicks, events>>

Finished(c) == changes' = changes \ {c}

\* Mutant: the entry is made of the account after the change.
CommitBlurred(c) ==
  /\ c \in changes
  /\ \E from \in c.from :
       /\ role' = IF c.to = from THEN role ELSE [role EXCEPT ![c.user] = c.to]
       /\ trail' = Append(trail, [user |-> c.user, from |-> c.to, to |-> c.to])
  /\ Finished(c)
  /\ UNCHANGED crossed

\* A role that is what was read already is not written; the entry is.
Commit(c) ==
  /\ c \in changes
  /\ \E from \in c.from :
       /\ role' = IF c.to = from THEN role ELSE [role EXCEPT ![c.user] = c.to]
       /\ trail' = Append(trail, [user |-> c.user, from |-> from, to |-> c.to])
  /\ Finished(c)
  /\ UNCHANGED crossed

\* The answer to this console's own change.
Answered(c, answer) ==
  IF c.ask = 0 THEN UNCHANGED reads
  ELSE reads' = {IF q.id = c.ask THEN [q EXCEPT !.answer = answer] ELSE q : q \in reads}

CommitRole(c) ==
  /\ Commit(c) /\ Answered(c, "done")
  /\ UNCHANGED <<tab, users, detail, loading, shown, clicks, events>>

RefuseRole(c) ==
  /\ c \in changes /\ ~Handled(c)
  /\ \/ ~Allowed(c) /\ UNCHANGED events
     \/ Event
  /\ Finished(c) /\ Answered(c, "failed")
  /\ UNCHANGED <<role, trail, crossed, tab, users, detail, loading, shown, clicks>>

ChangeElsewhere(by, u, to) ==
  /\ by # Me /\ Event
  /\ changes' = changes \cup {[by |-> by, user |-> u, to |-> to, from |-> {}, ask |-> 0]}
  /\ UNCHANGED <<role, trail, crossed, page, clicks>>

-------------------------------------------------------------------------------
(* The API: lists                                                            *)

\* Every list is for admins; one that is refused leaves the page as it was.
Serve(i) ==
  /\ \E q \in reads :
       /\ q.id = i /\ q.answer = "none" /\ q.kind # "role"
       /\ \/ /\ role[Me] = "admin" /\ UNCHANGED events
             /\ reads' = (reads \ {q}) \cup
                  {[q EXCEPT !.answer = "done", !.length = Len(trail), !.roles = {role}]}
          \/ /\ role[Me] # "admin" /\ UNCHANGED events
             /\ reads' = (reads \ {q}) \cup {[q EXCEPT !.answer = "failed"]}
          \/ /\ Event
             /\ reads' = (reads \ {q}) \cup {[q EXCEPT !.answer = "failed"]}
  /\ UNCHANGED <<server, tab, users, detail, loading, shown, clicks>>

-------------------------------------------------------------------------------
(* The console                                                               *)

Free == {i \in 1..MaxReads : \A q \in reads : q.id # i}
Id == CHOOSE i \in Free : \A j \in Free : i <= j

Request(kind, u) ==
  [id |-> Id, kind |-> kind, user |-> u, answer |-> "none", length |-> 0, roles |-> {}]

\* Both lists are loaded when their section is opened, and with it.
Load(t, others) ==
  /\ Free # {}
  /\ reads' = others \cup {Request(t, {})}
  /\ loading' = TRUE

RefreshAudit ==
  /\ tab = "audit" /\ ~loading /\ Click
  /\ Load("audit", reads)
  /\ UNCHANGED <<server, tab, users, detail, shown, events>>

\* What is left is thrown away; a change that was sent is not.
OpenTab(t) ==
  /\ t # tab /\ Click
  /\ tab' = t /\ users' = {} /\ detail' = {} /\ shown' = 0
  /\ Load(t, {})
  /\ changes' = {IF c.ask = 0 THEN c ELSE [c EXCEPT !.ask = 0] : c \in changes}
  /\ UNCHANGED <<role, trail, crossed, events>>

\* The accounts are hidden while they are loaded and while one is open.
Table == tab = "users" /\ ~loading /\ detail = {} /\ users # {}

ChangeRole(u) ==
  /\ Table /\ Free # {} /\ Click
  /\ \E roles \in users : \E to \in Roles \ {roles[u]} :
       changes' = changes \cup
         {[by |-> Me, user |-> u, to |-> to, from |-> {}, ask |-> Id]}
  /\ reads' = reads \cup {Request("role", {})}
  /\ UNCHANGED <<role, trail, crossed, tab, users, detail, loading, shown, events>>

OpenUser(u) ==
  /\ Table /\ Free # {} /\ Click
  /\ reads' = reads \cup {Request("costs", {u})}
  /\ UNCHANGED <<server, tab, users, detail, loading, shown, events>>

Back ==
  /\ detail # {} /\ Click
  /\ detail' = {}
  /\ UNCHANGED <<server, tab, users, loading, shown, reads, events>>

\* A change that was made loads the accounts again; one that was refused does not.
ApplyRole(q) ==
  /\ q.kind = "role"
  /\ IF q.answer = "done" THEN Load("users", reads \ {q})
     ELSE reads' = reads \ {q} /\ UNCHANGED loading
  /\ UNCHANGED <<users, detail, shown>>

ApplyList(q) ==
  /\ q.kind # "role"
  /\ reads' = reads \ {q}
  /\ loading' = (loading /\ q.kind = "costs")
  /\ users' = IF q.kind = "users" /\ q.answer = "done" THEN q.roles ELSE users
  /\ shown' = IF q.kind = "audit" /\ q.answer = "done" THEN q.length ELSE shown
  /\ detail' = IF q.kind = "costs" /\ q.answer = "done" THEN q.user ELSE detail

Apply(i) ==
  /\ \E q \in reads : q.id = i /\ q.answer # "none" /\ (ApplyRole(q) \/ ApplyList(q))
  /\ UNCHANGED <<server, tab, clicks, events>>

-------------------------------------------------------------------------------
Init ==
  /\ role \in {r \in [Users -> Roles] : r[Me] = "admin"}
  /\ trail = <<>> /\ changes = {} /\ crossed = FALSE
  /\ tab = "users" /\ users = {} /\ detail = {} /\ loading = TRUE /\ shown = 0
  /\ reads = {[id |-> 1, kind |-> "users", user |-> {}, answer |-> "none", length |-> 0,
               roles |-> {}]}
  /\ clicks = 0 /\ events = 0

Next ==
  \/ \E c \in changes : SetRole(c) \/ CommitRole(c) \/ RefuseRole(c)
  \/ \E by, u \in Users, to \in Roles : ChangeElsewhere(by, u, to)
  \/ \E i \in 1..MaxReads : Serve(i) \/ Apply(i)
  \/ \E t \in {"users", "audit"} : OpenTab(t)
  \/ \E u \in Users : ChangeRole(u) \/ OpenUser(u)
  \/ RefreshAudit \/ Back

Spec == Init /\ [][Next]_vars

-------------------------------------------------------------------------------
(* Properties                                                                *)

\* Whoever changes whose role, an account remains that is let into the console - unless two
\* changes are handled at the same time.
AdminRemains == ~crossed => \E u \in Users : role[u] = "admin"

\* The next entry of the trail about the same account.
Follows(j, i) ==
  /\ i < j /\ trail[j].user = trail[i].user
  /\ \A k \in i + 1..j - 1 : trail[k].user # trail[i].user

\* The trail tells every role: its entries about an account follow from one another up to the
\* role it has - unless two changes are handled at the same time.
AuditTells ==
  ~crossed =>
    \A i \in 1..Len(trail) :
      /\ \A j \in 1..Len(trail) : Follows(j, i) => trail[j].from = trail[i].to
      /\ \/ \E j \in i + 1..Len(trail) : trail[j].user = trail[i].user
         \/ trail[i].to = role[trail[i].user]

\* Two admins cannot lock everybody out.
NoLockout == \E u \in Users : role[u] = "admin"
===============================================================================
