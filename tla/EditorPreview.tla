----------------------------- MODULE EditorPreview -----------------------------
(***************************************************************************)
(* The preview of a cut and its trim strip: a playhead that is driven by   *)
(* wall time while the title card is shown and by the audio element after  *)
(* it, over a manifest that may change while it plays.                     *)
(*                                                                         *)
(* Time is counted in frames; a line lasts one.  The mix and the listener's *)
(* own track are media elements of the browser.                            *)
(***************************************************************************)
EXTENDS Integers

CONSTANTS
  Lines,       (* lines of the episode, back to back                      *)
  MixLength,   (* frames of the mix                                       *)
  SceneStart,  (* the lines that begin a scene                            *)
  MaxCard,     (* the longest title card                                  *)
  Offset,      (* where in the cut the listener's own track sets in       *)
  MaxMoves     (* bound: clicks                                           *)

\* Lengths are counted in frames.
ASSUME PreviewAssumption ==
  /\ Lines \in Nat /\ MixLength \in Nat /\ MaxCard \in Nat /\ Offset \in Nat /\ MaxMoves \in Nat
  /\ SceneStart \subseteq 0..Lines

VARIABLES
  trim,     (* the span that is kept; a missing end is the last line's    *)
  card,     (* leadMs: how long the title card is held, 0 for none        *)
  mix,      (* the episode has a mix to play                              *)
  cutTime,  (* the playhead, in the cut                                   *)
  playing,  (* the button says Pause                                      *)
  elapsed,  (* wall time since the anchor                                 *)
  audio,    (* the element of the mix                                     *)
  local,    (* the listener's track: "none", "paused" or "playing"        *)
  active,   (* the editor tab is the one that is shown                    *)
  moves     (* clicks so far                                              *)

previewVars == <<trim, card, mix, cutTime, playing, elapsed, audio, local, active, moves>>
clock == <<cutTime, playing, elapsed, audio, local>>

Most(a, b) == IF a > b THEN a ELSE b
Least(a, b) == IF a < b THEN a ELSE b
Latest == Lines + MaxCard + 1

Cut(t, c) == Most(c + t.end - t.start, 1)
CutDuration == Cut(trim, card)
OnCard == cutTime < card
EpisodeTime == trim.start + Most(0, cutTime - card)

PreviewTypeOK ==
  /\ trim \in [start: 0..Lines, end: 0..Lines]
  /\ card \in 0..MaxCard /\ mix \in BOOLEAN
  /\ cutTime \in 0..Latest /\ playing \in BOOLEAN /\ elapsed \in 0..Latest
  /\ audio \in [time: 0..MixLength, paused: BOOLEAN]
  /\ local \in {"none", "paused", "playing"}
  /\ active \in BOOLEAN /\ moves \in 0..MaxMoves

PreviewInit ==
  /\ trim = [start |-> 0, end |-> Lines] /\ card \in {0, MaxCard}
  /\ mix \in BOOLEAN
  /\ cutTime = 0 /\ playing = FALSE /\ elapsed = 0
  /\ audio = [time |-> 0, paused |-> TRUE]
  /\ local \in {"none", "paused"}
  /\ active = TRUE /\ moves = 0

Move == active /\ moves < MaxMoves /\ moves' = moves + 1
Quieted == IF local = "playing" THEN "paused" ELSE local

-------------------------------------------------------------------------------
(* Playing                                                                   *)

\* The own track is started and stopped by where the playhead is in the cut.
SyncLocal(t) ==
  local' = IF local = "none" THEN local ELSE IF t < Offset THEN "paused" ELSE "playing"

Stop ==
  /\ playing' = FALSE
  /\ audio' = [audio EXCEPT !.paused = TRUE]
  /\ local' = Quieted

Play ==
  LET start == IF cutTime >= CutDuration THEN 0 ELSE cutTime
  IN /\ ~playing /\ (mix \/ card > 0) /\ Move
     /\ playing' = TRUE /\ cutTime' = start /\ elapsed' = start
     /\ audio' = IF mix /\ start >= card
                 THEN [time |-> trim.start + start - card, paused |-> FALSE]
                 ELSE audio
     /\ UNCHANGED <<trim, card, mix, local, active>>

Pause ==
  /\ playing /\ Move /\ Stop
  /\ UNCHANGED <<trim, card, mix, cutTime, elapsed, active>>

\* The element as a frame may find it: at its end it pauses by itself, before the frame or after.
Heard ==
  IF audio.paused THEN {audio}
  ELSE LET t == Least(audio.time + 1, MixLength)
       IN {[time |-> t, paused |-> p] : p \in IF t < MixLength THEN {FALSE} ELSE BOOLEAN}

\* A paused element is taken for one the card has held back, and started.
Resumed(h) == IF h.paused THEN [time |-> trim.start, paused |-> FALSE] ELSE h

\* Mutant: past the end of the trim the frame only stops drawing.
FrameUnstopped ==
  LET now == Least(elapsed + 1, Latest)
  IN /\ playing
     /\ elapsed' = now
     /\ \E h \in Heard :
          IF now < card
          THEN cutTime' = now /\ audio' = h /\ SyncLocal(now) /\ UNCHANGED playing
          ELSE /\ audio' = Resumed(h) /\ UNCHANGED <<playing, local>>
               /\ cutTime' = Least(CutDuration, card + Most(0, Resumed(h).time - trim.start))
     /\ UNCHANGED <<trim, card, mix, active, moves>>

OnTheCard(now) ==
  /\ now < card
  /\ cutTime' = now /\ audio' \in Heard /\ SyncLocal(now) /\ UNCHANGED playing

\* No mix to play: the clock is run out on wall time.
Unaccompanied(now) ==
  /\ now >= card /\ ~mix
  /\ \/ now >= CutDuration /\ cutTime' = CutDuration /\ Stop
     \/ now < CutDuration /\ cutTime' = now /\ UNCHANGED <<playing, audio, local>>

\* The playhead follows the element, up to the end of the trim.
OnTheMix(now) ==
  /\ now >= card /\ mix
  /\ \E h \in Heard :
       LET a == Resumed(h)
           next == card + Most(0, a.time - trim.start)
       IN \/ a.time >= trim.end /\ cutTime' = CutDuration /\ Stop
          \/ a.time < trim.end /\ cutTime' = next /\ audio' = a /\ SyncLocal(next)
             /\ UNCHANGED playing

Frame ==
  LET now == Least(elapsed + 1, Latest)
  IN /\ playing
     /\ elapsed' = now
     /\ OnTheCard(now) \/ Unaccompanied(now) \/ OnTheMix(now)
     /\ UNCHANGED <<trim, card, mix, active, moves>>

SeekTo(t) ==
  LET clamped == Least(Most(t, 0), CutDuration)
  IN /\ cutTime' = clamped /\ elapsed' = clamped
     /\ audio' = IF mix THEN [time |-> trim.start + Most(0, clamped - card),
                              paused |-> audio.paused \/ clamped < card]
                 ELSE audio
     /\ SyncLocal(clamped)
     /\ UNCHANGED <<trim, card, mix, playing, active>>

Seek == Move /\ \E t \in 0..CutDuration : SeekTo(t)

-------------------------------------------------------------------------------
(* Changes of the manifest                                                   *)

\* Mutant: the playhead is left where it was.
ClampedNot(t, c) == UNCHANGED cutTime

\* The effect on the duration of the cut.
Clamped(t, c) == cutTime' = Least(cutTime, Cut(t, c))

TrimTo(t) ==
  /\ Move /\ trim' = t /\ Clamped(t, card)
  /\ UNCHANGED <<card, mix, playing, elapsed, audio, local, active>>

\* The line the playhead is in; none at the end of the episode.
Line == {i \in 0..(Lines - 1) : i <= EpisodeTime /\ EpisodeTime < i + 1}

SeekEpisode == Move /\ \E i \in 0..(Lines - 1) : SeekTo(card + Most(0, i - trim.start))

StartHere == TrimTo([trim EXCEPT !.start = IF Line = {} THEN 0 ELSE CHOOSE i \in Line : TRUE])
EndHere == TrimTo([trim EXCEPT !.end = IF Line = {} THEN Lines ELSE 1 + CHOOSE i \in Line : TRUE])
ResetTrim == (trim.start > 0 \/ trim.end < Lines) /\ TrimTo([start |-> 0, end |-> Lines])

\* Where a scene ends: at the next one's beginning, or with the episode.
SceneEnd(s) == {e \in SceneStart \cup {Lines} : s < e /\ \A f \in SceneStart : s < f => e <= f}

ClipScene ==
  /\ SceneStart # {0}
  /\ \E s \in SceneStart : \E e \in SceneEnd(s) : TrimTo([start |-> s, end |-> e])

\* The title card is switched on or off, or held for longer or shorter.
SetCard(c) ==
  /\ Move /\ card' = c /\ Clamped(trim, c)
  /\ UNCHANGED <<trim, mix, playing, elapsed, audio, local, active>>

-------------------------------------------------------------------------------

\* The tab is left: playback stops.
Hide ==
  /\ active /\ active' = FALSE /\ Stop
  /\ UNCHANGED <<trim, card, mix, cutTime, elapsed, moves>>

Return ==
  /\ ~active /\ moves < MaxMoves /\ active' = TRUE
  /\ UNCHANGED <<trim, card, mix, clock, moves>>

PreviewNext ==
  \/ Play \/ Pause \/ Seek \/ SeekEpisode
  \/ StartHere \/ EndHere \/ ResetTrim \/ ClipScene
  \/ \E c \in 0..MaxCard : SetCard(c)
  \/ Hide \/ Return \/ Frame

\* The browser goes on drawing frames while the preview plays.
PreviewFairness == WF_previewVars(Frame)
PreviewSpec == PreviewInit /\ [][PreviewNext]_previewVars /\ PreviewFairness

-------------------------------------------------------------------------------
(* Properties                                                                *)

\* "A trim that moves under the playhead would otherwise leave it outside the cut, showing a
\* frame the export does not contain": whatever is trimmed, clipped or put in front while it
\* plays, the frame on screen is one of the cut, if the cut has any.
FrameInCut ==
  ~OnCard /\ trim.start < trim.end => EpisodeTime >= trim.start /\ EpisodeTime <= trim.end

\* A preview that is left alone comes to its end, also when its trim or its card is changed under
\* it, unless it is trimmed to play on to the end of its mix (an untrimmed one is): an element that
\* has ended is paused, and a frame that finds it so starts it again.
PlaysOut == mix /\ trim.end >= MixLength
PlayEnds == playing ~> (~playing \/ PlaysOut)

\* What is saved is what the contract accepts: "trim end_ms must be greater than start_ms".
TrimOrdered == trim.start < trim.end
===============================================================================
