----------------------------- MODULE EpisodePlayer -----------------------------
(***************************************************************************)
(* The player of the studio: one media element that outlives the mixes it  *)
(* plays.  A revision brings first its clips and then its mix; the mix is  *)
(* swapped in under the listener, whose position, speed and play state are *)
(* carried over by refs, effects and the element's own events, and a line  *)
(* that was respoken is jumped to once its mix can be sought.              *)
(*                                                                         *)
(* Time is counted in ticks; a line lasts one, and the clip that a         *)
(* revision respeaks, always of the first line, lasts one more.            *)
(***************************************************************************)
EXTENDS Naturals

CONSTANTS
  Lines,      (* the lines of the story                                    *)
  MaxMix,     (* bound: versions whose mix is made                         *)
  MaxMoves    (* bound: what the listener does                             *)

VARIABLES
  mix,       (* the episode the player was given                           *)
  clips,     (* the version whose clips the seek math uses                 *)
  el,        (* the media element                                          *)
  rewinding, (* its timeupdate at 0, due since it was loaded               *)
  loaded,    (* loadedEpisodeId                                            *)
  effects,   (* the effects that the last commit has left to run           *)
  seekLine,  (* the line to jump to, 0 for none                            *)
  pending,   (* pendingSeek: a set of one or none                          *)
  resume,    (* resumeAfterSeek                                            *)
  playing,   (* the button says Pause                                      *)
  position,  (* currentRef                                                 *)
  seekable,  (* duration > 0                                               *)
  scrub,     (* where the thumb is held: a set of one or none              *)
  rate,      (* playbackRate                                               *)
  heard,     (* history: where the listener has been, or asked to go       *)
  moves,
  races      (* history: what went wrong outside the player                *)

vars == <<mix, clips, el, rewinding, loaded, effects, seekLine, pending, resume, playing,
          position, seekable, scrub, rate, heard, moves, races>>
refs == <<seekLine, pending, resume, position, scrub>>

Mix == 1..MaxMix
Rates == {1, 2}

\* Spans of the lines by the clips of a version, and the length of a mix.
StartOf(version, line) == IF line = 1 THEN 0 ELSE line + version - 2
Duration(version) == Lines + version - 1
Time == 0..Duration(MaxMix)

Element == [mix: Mix, ready: BOOLEAN, time: Time, paused: BOOLEAN, rate: Rates]

TypeOK ==
  /\ {mix, clips, loaded} \subseteq Mix
  /\ el \in Element
  /\ effects \subseteq {"swap", "seek"}
  /\ seekLine \in 0..Lines
  /\ pending = {} \/ \E t \in Time : pending = {t}
  /\ scrub = {} \/ \E t \in Time : scrub = {t}
  /\ {rewinding, resume, playing, seekable} \subseteq BOOLEAN
  /\ {position, heard} \subseteq Time
  /\ rate \in Rates /\ moves \in 0..MaxMoves
  /\ races \subseteq {"rewound", "swapped_twice", "play_refused"}

\* The first mix has been loaded.
Init ==
  /\ mix = 1 /\ clips = 1 /\ loaded = 1
  /\ el = [mix |-> 1, ready |-> TRUE, time |-> 0, paused |-> TRUE, rate |-> 1]
  /\ rewinding = FALSE /\ effects = {}
  /\ seekLine = 0 /\ pending = {} /\ resume = FALSE /\ scrub = {}
  /\ playing = FALSE /\ position = 0 /\ seekable = TRUE /\ rate = 1
  /\ heard = 0 /\ moves = 0 /\ races = {}

Least(a, b) == IF a < b THEN a ELSE b
Move == moves < MaxMoves /\ moves' = moves + 1

-------------------------------------------------------------------------------
(* The element                                                               *)

\* Loading a source rewinds and pauses the element without a pause event, and resets its rate.
Load(m) ==
  /\ el' = [mix |-> m, ready |-> FALSE, time |-> 0, paused |-> TRUE, rate |-> 1]
  /\ rewinding' = (rewinding \/ el.time # 0)

\* Playing is refused by a browser that wants a gesture first; the refusal is swallowed.
Played(e) ==
  \/ /\ el' = [e EXCEPT !.paused = FALSE, !.rate = rate]
     /\ playing' = TRUE /\ UNCHANGED races
  \/ /\ el' = e /\ races' = races \cup {"play_refused"} /\ UNCHANGED playing

\* applyPendingSeek, for a seek to t.
Seek(e, t, again) ==
  LET sought == [e EXCEPT !.time = Least(t, Duration(e.mix))]
  IN /\ pending' = {} /\ resume' = FALSE
     /\ position' = sought.time
     /\ heard' = IF seekLine = 0 THEN heard ELSE sought.time
     /\ seekLine' = 0
     /\ IF again THEN Played(sought) ELSE el' = sought /\ UNCHANGED <<playing, races>>

Tick ==
  /\ el.ready /\ ~el.paused
  /\ IF el.time < Duration(el.mix)
     THEN /\ el' = [el EXCEPT !.time = @ + 1]
          /\ position' = el'.time /\ heard' = el'.time
          /\ UNCHANGED playing
     ELSE el' = [el EXCEPT !.paused = TRUE] /\ playing' = FALSE /\ UNCHANGED <<position, heard>>
  /\ UNCHANGED <<mix, clips, rewinding, loaded, effects, seekLine, pending, resume, seekable,
                 scrub, rate, moves, races>>

\* The timeupdate of a load may come before the effects of the commit that changed the source.
Rewound ==
  /\ rewinding /\ rewinding' = FALSE
  /\ position' = el.time
  /\ races' = races \cup (IF "swap" \in effects /\ position # el.time THEN {"rewound"} ELSE {})
  /\ UNCHANGED <<mix, clips, el, loaded, effects, seekLine, pending, resume, playing, seekable,
                 scrub, rate, heard, moves>>

\* As a bound, metadata comes after the effects of its commit.
Metadata ==
  /\ ~el.ready /\ effects = {}
  /\ seekable' = TRUE
  /\ LET e == [el EXCEPT !.ready = TRUE, !.rate = rate]
     IN IF pending = {}
        THEN /\ el' = e
             /\ UNCHANGED <<seekLine, pending, resume, position, heard, playing, races>>
        ELSE \E t \in pending : Seek(e, t, resume)
  /\ UNCHANGED <<mix, clips, rewinding, loaded, effects, scrub, rate, moves>>

-------------------------------------------------------------------------------
(* The studio                                                                *)

\* The clips of the version in flight are merged in before there is a mix of them.
NewClips ==
  /\ clips = mix /\ mix < MaxMix
  /\ clips' = mix + 1
  /\ UNCHANGED <<mix, el, rewinding, loaded, effects, refs, playing, seekable, rate, heard,
                 moves, races>>

\* The rebuilt mix and the line to jump to come in one commit, which changes the source.
NewMix(line) ==
  /\ clips = mix + 1
  /\ mix' = clips
  /\ Load(clips)
  /\ seekLine' = IF line = 0 THEN seekLine ELSE line
  /\ effects' = {"swap"} \cup (IF seekLine' # 0 THEN {"seek"} ELSE {})
  /\ UNCHANGED <<clips, loaded, pending, resume, playing, position, seekable, scrub, rate, heard,
                 moves, races>>

\* The swap keeps a position and the play state, and loads again; then a seek is computed.
EffectsRun(kept) ==
  LET swap == "swap" \in effects
      target == IF "seek" \in effects THEN StartOf(clips, seekLine) ELSE kept
  IN /\ effects # {} /\ effects' = {}
     /\ IF swap
        THEN /\ loaded' = mix /\ Load(mix) /\ seekable' = FALSE /\ scrub' = {}
             /\ races' = races \cup (IF pending # {} /\ "seek" \notin effects
                                   THEN {"swapped_twice"} ELSE {})
        ELSE UNCHANGED <<loaded, seekable, scrub, rewinding>>
     /\ IF ~swap /\ el.ready
        THEN Seek(el, target, playing)
        ELSE /\ pending' = {target} /\ resume' = playing
             /\ UNCHANGED <<seekLine, position, heard, playing>>
             /\ IF swap THEN TRUE ELSE UNCHANGED <<el, races>>
     /\ UNCHANGED <<mix, clips, rate, moves>>

\* Mutant: a mix is swapped in without the position of the one before.
RunEffectsForgetting == EffectsRun(0)

RunEffects == EffectsRun(position)

-------------------------------------------------------------------------------
(* The listener                                                              *)

Button ==
  /\ Move
  /\ IF el.paused THEN Played(el)
     ELSE el' = [el EXCEPT !.paused = TRUE] /\ playing' = FALSE /\ UNCHANGED races
  /\ UNCHANGED <<mix, clips, rewinding, loaded, effects, refs, seekable, rate, heard>>

Speed(r) ==
  /\ Move
  /\ rate' = r /\ el' = [el EXCEPT !.rate = r]
  /\ UNCHANGED <<mix, clips, rewinding, loaded, effects, refs, playing, seekable, heard, races>>

PointerDown ==
  /\ Move
  /\ seekable /\ scrub = {}
  /\ scrub' = {position}
  /\ UNCHANGED <<mix, clips, el, rewinding, loaded, effects, seekLine, pending, resume, playing,
                 position, seekable, rate, heard, races>>

Drag(t) ==
  /\ scrub # {} /\ t <= Duration(el.mix)
  /\ scrub' = {t}
  /\ UNCHANGED <<mix, clips, el, rewinding, loaded, effects, seekLine, pending, resume, playing,
                 position, seekable, rate, heard, moves, races>>

\* The drag ends anywhere in the window.
CommitScrub ==
  \E t \in scrub :
    /\ scrub' = {}
    /\ el' = [el EXCEPT !.time = t]
    /\ position' = t /\ heard' = t
    /\ UNCHANGED <<mix, clips, rewinding, loaded, effects, seekLine, pending, resume, playing,
                   seekable, rate, moves, races>>

\* A click on a line of the script, or on a scene.
SeekLine(line) ==
  /\ Move /\ line # seekLine
  /\ seekLine' = line
  /\ effects' = effects \cup {"seek"}
  /\ UNCHANGED <<mix, clips, el, rewinding, loaded, pending, resume, playing, position, seekable,
                 scrub, rate, heard, races>>

-------------------------------------------------------------------------------
Next ==
  \/ Tick \/ Rewound \/ Metadata \/ RunEffects
  \/ NewClips \/ \E line \in 0..1 : NewMix(line)
  \/ Button \/ PointerDown \/ CommitScrub
  \/ \E r \in Rates : Speed(r)
  \/ \E t \in Time : Drag(t)
  \/ \E line \in 1..Lines : SeekLine(line)

\* Effects are run, a source that is loaded brings its metadata, and time passes.
Fairness == WF_vars(RunEffects) /\ WF_vars(Metadata)
Spec == Init /\ [][Next]_vars /\ Fairness

-------------------------------------------------------------------------------
(* Properties                                                                *)

Settled == el.ready /\ effects = {} /\ pending = {}

\* "Carry the listener's position and play state over instead of silently dropping them back to
\* zero": whatever is swapped, sought and dragged meanwhile, the settled element is where the
\* listener was or asked to be (as long as no event of a load, and no second mix, came in
\* between), at the speed they chose, and does what the button says (unless the browser refused).
CarriedOver ==
  Settled => /\ races \cap {"rewound", "swapped_twice"} = {} => el.time = heard
             /\ el.rate = rate
             /\ "play_refused" \notin races => playing = ~el.paused

\* Studio.tsx: clips in flight are merged in "so seek math stays accurate during a regen".  The
\* mix is still the one before, whose lines start elsewhere.
SeekExact ==
  [][seekLine # 0 /\ seekLine' = 0 => el'.time = StartOf(el'.mix, seekLine)]_vars
===============================================================================
