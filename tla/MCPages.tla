-------------------------------- MODULE MCPages --------------------------------
(* Six pages that share no state: the review queue, the runs and the spend, the *)
(* accounts and the audit trail, and the settings of the admin console; and a   *)
(* downloads panel and the dropzone of the web client.  One of them is open;    *)
(* what is not open is not mounted, and stays as it is.                         *)
EXTENDS RuntimeSettings, Ingest

CONSTANTS
  Stories,                              \* ReviewDesk
  Runs, Stages, MaxReads, MoreClicks,   \* RunsDesk, and AccountsDesk with
  Users, Me,
  Latest                                \* Downloads

\* A story has a first version.
ASSUME PagesAssumption == Latest \in Nat \ {0}

VARIABLES
  open,
  story, review, other, queue, hidden, detail, lists, opens, saved, overtaken, doubled,
  runs, tab, listed, filter, selected, auto, waiting, refreshing, costs, reads,
  role, trail, changes, together, section, users, account, busy, shown, requests,
  offer, current, master, converted, tasks, formats, working, transfers, offered, visit, delivered

Review == INSTANCE ReviewDesk WITH loading <- hidden, crossed <- doubled
Run == INSTANCE RunsDesk
         WITH MaxClicks <- MoreClicks, job <- runs, rows <- listed, loading <- waiting
Account == INSTANCE AccountsDesk
             WITH MaxClicks <- MoreClicks, crossed <- together, tab <- section,
                  detail <- account, loading <- busy, reads <- requests
Download == INSTANCE Downloads WITH lists <- offered

reviewVars == <<story, review, other, queue, hidden, detail, lists, opens, saved, overtaken,
                doubled>>
runVars == <<runs, tab, listed, filter, selected, auto, waiting, refreshing, costs, reads>>
accountVars == <<role, trail, changes, together, section, users, account, busy, shown, requests>>
configVars == <<stored, puts, loads, console, worker, history>>
downloadVars == <<offer, current, master, converted, tasks, formats, working, transfers, offered,
                  visit, delivered>>
uploadVars == <<uploads, dropzone, text, form, files>>

admin == <<events, reviewVars, runVars, accountVars, configVars>>
web == <<faults, downloadVars, uploadVars>>
pagesVars == <<open, clicks, admin, web>>

\* One start is enough for what is not open.
PagesInit ==
  /\ Review!Init /\ Run!Init /\ Account!Init /\ SettingsInit /\ Download!Init /\ Init
  /\ open \in {"review", "runs", "accounts", "settings", "downloads", "ingest"}
  /\ open # "review" => story = [s \in Stories |-> Review!Fresh("ready")]
  /\ open # "accounts" => role = [u \in Users |-> "admin"]
  /\ open # "settings" => stored = [k \in Keys |-> {}]
  /\ open # "downloads" => offer = Download!BgmPanel

\* The worker, the API and the timers are fair to whoever watches a run, and so are the API and
\* the timers to whoever waits for a download.
Watching(A) ==
  open = "runs" /\ A /\ UNCHANGED <<open, reviewVars, accountVars, configVars, web>>

Downloading(A) == open = "downloads" /\ A /\ UNCHANGED <<open, admin, uploadVars>>

PagesNext ==
  \/ /\ open = "review" /\ Review!Next
     /\ UNCHANGED <<open, runVars, accountVars, configVars, web>>
  \/ Watching(Run!Next)
  \/ /\ open = "accounts" /\ Account!Next
     /\ UNCHANGED <<open, reviewVars, runVars, configVars, web>>
  \/ /\ open = "settings" /\ SettingsNext
     /\ UNCHANGED <<open, reviewVars, runVars, accountVars, web>>
  \/ Downloading(Download!Next)
  \/ open = "ingest" /\ Next /\ UNCHANGED <<open, clicks, admin, downloadVars>>

PagesFairness ==
  /\ \A r \in Runs :
       WF_pagesVars(Watching(Run!StartJob(r))) /\ WF_pagesVars(Watching(Run!FinishJob(r)))
  /\ \A i \in 1..MaxReads :
       WF_pagesVars(Watching(Run!Serve(i))) /\ WF_pagesVars(Watching(Run!Answer(i)))
  /\ WF_pagesVars(Watching(Run!PollRuns)) /\ WF_pagesVars(Watching(Run!PollRun))
  /\ Download!Fairness

PagesSpec == PagesInit /\ [][PagesNext]_pagesVars /\ PagesFairness

ShownAsSaved == Review!ShownAsSaved
RunFollowed == Run!RunFollowed
AuditTells == Account!AuditTells
RightFile == Download!RightFile
ClickAnswered == Download!ClickAnswered
===============================================================================
