------------------------------- MODULE MCStudio -------------------------------
(* Four parts of the studio's page that share no state: the controls that fork  *)
(* the story, the preview of the video editor, the player, and an analysis      *)
(* panel.  One of them is used, and the others stay as they are.                *)
EXTENDS StudioForks, EditorPreview

CONSTANTS
  MaxMix, Moves,                \* EpisodePlayer
  MaxJobs, MaxTries, MaxReads   \* AnalysisPanels

\* The player is given a first mix.
ASSUME StudioAssumption == MaxMix \in Nat \ {0}

VARIABLES
  open,
  episode, clips, el, rewinding, loaded, effects, seekLine, pending, resume, sounding, position,
  seekable, scrub, rate, heard, mishaps,
  panel, jobs, known, reads, click, started, races

Player == INSTANCE EpisodePlayer
            WITH mix <- episode, playing <- sounding, races <- mishaps, MaxMoves <- Moves
Analysis == INSTANCE AnalysisPanels

forkVars == <<story, detail, machine, form, requests, forks, elsewhere>>
cutVars == <<trim, card, mix, clock, active>>
playerVars == <<episode, clips, el, rewinding, loaded, effects, seekLine, pending, resume,
                sounding, position, seekable, scrub, rate, heard, mishaps>>
panelVars == <<panel, jobs, known, reads, click, started, races>>
studioVars == <<open, faults, moves, forkVars, cutVars, playerVars, panelVars>>

\* One start is enough for what is not used.
StudioInit ==
  /\ Init /\ PreviewInit /\ Player!Init /\ Analysis!Init
  /\ open \in {"forks", "player", "preview", "analysis"}
  /\ open # "forks" => form.scope = "line"
  /\ open # "preview" => card = 0 /\ ~mix /\ local = "none"
  /\ open # "analysis" => panel = Analysis!WritersRoomPanel /\ jobs = <<>>

InForks(A) ==
  open = "forks" /\ A /\ UNCHANGED <<open, moves, playerVars, cutVars, panelVars>>
InPreview(A) ==
  open = "preview" /\ A /\ UNCHANGED <<open, faults, forkVars, playerVars, panelVars>>
InPlayer(A) ==
  open = "player" /\ A /\ UNCHANGED <<open, faults, forkVars, cutVars, panelVars>>
InAnalysis(A) ==
  open = "analysis" /\ A /\ UNCHANGED <<open, moves, forkVars, cutVars, playerVars>>

StudioNext ==
  InForks(Next) \/ InPreview(PreviewNext) \/ InPlayer(Player!Next) \/ InAnalysis(Analysis!Next)

\* The fairness of the two parts of which something must come about, while they are used.
StudioFairness ==
  /\ WF_studioVars(InPreview(Frame))
  /\ WF_studioVars(InAnalysis(Analysis!Server))
  /\ WF_studioVars(InAnalysis(Analysis!Accepted \/ Analysis!Refused))
  /\ WF_studioVars(InAnalysis(Analysis!Fire)) /\ WF_studioVars(InAnalysis(Analysis!FirstRead))
  /\ \A i \in 1..MaxJobs : WF_studioVars(InAnalysis(Analysis!Worked(i)))

StudioSpec == StudioInit /\ [][StudioNext]_studioVars /\ StudioFairness

CarriedOver == Player!CarriedOver
EventuallyShown == Analysis!EventuallyShown
===============================================================================
