----------------------------- MODULE Studio_proofs -----------------------------
(***************************************************************************)
(* Proofs about the preview of the video editor and the player of MCStudio,*)
(* for episodes, mixes and title cards of any length and any number of     *)
(* versions and clicks.                                                    *)
(*                                                                         *)
(* Both properties speak of a moment in which all has settled.  What       *)
(* survives a step is, for the preview, that the playhead is within the    *)
(* cut; for the player, where the listener's position and play state are   *)
(* kept while the element that had them loads: in the refs until the       *)
(* effects have run, then in the seek that waits for the metadata.         *)
(***************************************************************************)
EXTENDS MCStudio, TLAPS

-------------------------------------------------------------------------------
(* The preview.  FrameInCut speaks of the episode; what the actions keep is  *)
(* that the playhead is within the cut, as long as the trim is not inverted: *)
(* an inverted trim leaves a cut of one frame or of the card alone, which    *)
(* the card may outrun, and the next change of the trim clamps the playhead. *)

Typed ==
  /\ trim \in [start: Nat, end: Nat]
  /\ card \in Nat /\ cutTime \in Nat /\ elapsed \in Nat
  /\ audio \in [time: Int, paused: BOOLEAN]

Within(time, t, c) == t.start < t.end => time <= Cut(t, c)

Inv == Typed /\ Within(cutTime, trim, card)

-------------------------------------------------------------------------------
\* A cut lasts a frame at least, and a trim that is not inverted makes it as long as its card
\* and the span that is kept.
LEMMA CutLength ==
  ASSUME NEW t \in [start: Nat, end: Nat], NEW c \in Nat
  PROVE  /\ Cut(t, c) \in Nat /\ Cut(t, c) >= 1
         /\ t.start < t.end => Cut(t, c) = c + t.end - t.start
BY DEF Cut, Most

\* The effect on the duration of a cut leaves the playhead within it.
LEMMA ClampedWithin ==
  ASSUME Typed, NEW t \in [start: Nat, end: Nat], NEW c \in Nat, Clamped(t, c)
  PROVE  cutTime' \in Nat /\ Within(cutTime', t, c)
BY CutLength DEF Clamped, Typed, Within, Least

\* A move of the trim keeps the rest of the preview and clamps the playhead.
LEMMA TrimKeeps ==
  ASSUME Inv, NEW t \in [start: Nat, end: Nat], TrimTo(t)
  PROVE  Inv'
BY ClampedWithin DEF TrimTo, Inv, Typed, Within

\* A seek ends within the cut.
LEMMA SeekKeeps ==
  ASSUME Inv, NEW t \in Int, SeekTo(t)
  PROVE  Inv'
<1>1. CutDuration \in Nat
  BY CutLength DEF Inv, Typed, CutDuration
<1>2. Least(Most(t, 0), CutDuration) \in Nat /\ Least(Most(t, 0), CutDuration) <= CutDuration
  BY <1>1 DEF Least, Most
<1>3. cutTime' \in Nat /\ elapsed' \in Nat /\ cutTime' <= CutDuration
  BY <1>2 DEF SeekTo
<1>4. audio' \in [time: Int, paused: BOOLEAN]
  <2>1. trim.start + Most(0, Least(Most(t, 0), CutDuration) - card) \in Int
    BY <1>2 DEF Inv, Typed, Most
  <2> QED BY <2>1 DEF SeekTo, Inv, Typed
<1> QED BY <1>3, <1>4 DEF SeekTo, Inv, Typed, Within, CutDuration

\* What a frame draws is on the card, or as far into the cut as the mix or the clock are.
LEMMA FrameKeeps ==
  ASSUME Inv, Frame
  PROVE  Inv'
<1> DEFINE now == Least(elapsed + 1, Latest)
<1>1. now \in Nat /\ elapsed' = now
  BY PreviewAssumption DEF Frame, Inv, Typed, Latest, Least
<1>2. CutDuration \in Nat /\ (trim.start < trim.end => CutDuration = card + trim.end - trim.start)
  BY CutLength DEF Inv, Typed, CutDuration
<1>3. Heard \subseteq [time: Int, paused: BOOLEAN]
  <2>1. Least(audio.time + 1, MixLength) \in Int
    BY PreviewAssumption DEF Inv, Typed, Least
  <2>2. ASSUME NEW h \in Heard PROVE h \in [time: Int, paused: BOOLEAN]
    <3>1. \/ h = audio
          \/ \E p \in BOOLEAN : h = [time |-> Least(audio.time + 1, MixLength), paused |-> p]
      BY DEF Heard
    <3> QED BY <2>1, <3>1 DEF Inv, Typed
  <2> QED BY <2>2
<1>4. trim' = trim /\ card' = card
  BY DEF Frame
<1> Stop => audio' \in [time: Int, paused: BOOLEAN]
  BY DEF Stop, Inv, Typed
<1>5. audio' \in [time: Int, paused: BOOLEAN] /\ cutTime' \in Nat
      /\ (trim.start < trim.end => cutTime' <= CutDuration)
  <2>1. OnTheCard(now) \/ Unaccompanied(now) \/ OnTheMix(now)
    BY DEF Frame
  <2>2. CASE OnTheCard(now)
    BY <1>1, <1>2, <1>3, <2>2 DEF OnTheCard, Inv, Typed
  <2>3. CASE Unaccompanied(now)
    BY <1>1, <1>2, <2>3 DEF Unaccompanied, Inv, Typed
  <2>4. CASE OnTheMix(now)
    <3>0. PICK h \in Heard :
            LET a == Resumed(h)
                next == card + Most(0, a.time - trim.start)
            IN \/ cutTime' = CutDuration /\ Stop
               \/ a.time < trim.end /\ cutTime' = next /\ audio' = a
      BY <2>4 DEF OnTheMix
    <3> DEFINE a == Resumed(h)
               next == card + Most(0, a.time - trim.start)
    <3>1. a \in [time: Int, paused: BOOLEAN]
      BY <1>3 DEF Resumed, Inv, Typed
    <3>2. \/ cutTime' = CutDuration /\ Stop
          \/ a.time < trim.end /\ cutTime' = next /\ audio' = a
      BY <3>0
    <3> HIDE DEF a
    <3>3. next \in Nat
      BY <3>1 DEF Most, Inv, Typed
    <3>4. a.time < trim.end /\ trim.start < trim.end => next <= card + trim.end - trim.start
      BY <3>1 DEF Most, Inv, Typed
    <3>5. CASE cutTime' = CutDuration /\ Stop
      BY <1>2, <3>5
    <3>6. CASE a.time < trim.end /\ cutTime' = next /\ audio' = a
      BY <1>2, <3>1, <3>3, <3>4, <3>6
    <3> QED BY <3>2, <3>5, <3>6
  <2> QED BY <2>1, <2>2, <2>3, <2>4
<1> QED BY <1>1, <1>4, <1>5 DEF Inv, Typed, Within, CutDuration

-------------------------------------------------------------------------------
LEMMA InvInit == ASSUME PreviewInit PROVE Inv
BY CutLength, PreviewAssumption DEF PreviewInit, Inv, Typed, Within

LEMMA InvNext == ASSUME Inv, [PreviewNext]_previewVars PROVE Inv'
<1>1. CASE Play
  <2>1. CutDuration \in Nat
    BY CutLength DEF Inv, Typed, CutDuration
  <2>2. cutTime' \in Nat /\ elapsed' \in Nat /\ cutTime' <= cutTime
    BY <1>1, <2>1 DEF Play, Inv, Typed
  <2>3. audio' \in [time: Int, paused: BOOLEAN]
    BY <1>1 DEF Play, Inv, Typed
  <2> QED BY <1>1, <2>1, <2>2, <2>3 DEF Play, Inv, Typed, Within, CutDuration
<1>2. CASE Pause \/ Hide
  BY <1>2 DEF Pause, Hide, Stop, Inv, Typed, Within
<1>3. CASE Return \/ UNCHANGED previewVars
  BY <1>3 DEF Return, clock, previewVars, Inv, Typed, Within
<1>4. CASE Seek
  <2>1. CutDuration \in Nat
    BY CutLength DEF Inv, Typed, CutDuration
  <2> QED BY <1>4, <2>1, SeekKeeps DEF Seek
<1>5. CASE SeekEpisode
  <2>1. PICK i \in 0..(Lines - 1) : SeekTo(card + Most(0, i - trim.start))
    BY <1>5 DEF SeekEpisode
  <2>2. card + Most(0, i - trim.start) \in Int
    BY PreviewAssumption DEF Inv, Typed, Most
  <2> QED BY <2>1, <2>2, SeekKeeps
<1>6. Line = {} \/ (CHOOSE i \in Line : TRUE) \in Nat
  BY PreviewAssumption DEF Line
<1>7. CASE StartHere \/ EndHere \/ ResetTrim
  <2>1. [trim EXCEPT !.start = IF Line = {} THEN 0 ELSE CHOOSE i \in Line : TRUE]
          \in [start: Nat, end: Nat]
    <3>1. (IF Line = {} THEN 0 ELSE CHOOSE i \in Line : TRUE) \in Nat
      BY <1>6
    <3> QED BY <3>1 DEF Inv, Typed
  <2>2. [trim EXCEPT !.end = IF Line = {} THEN Lines ELSE 1 + CHOOSE i \in Line : TRUE]
          \in [start: Nat, end: Nat]
    <3>1. (IF Line = {} THEN Lines ELSE 1 + CHOOSE i \in Line : TRUE) \in Nat
      BY <1>6, PreviewAssumption
    <3> QED BY <3>1 DEF Inv, Typed
  <2>3. [start |-> 0, end |-> Lines] \in [start: Nat, end: Nat]
    BY PreviewAssumption
  <2> QED BY <1>7, <2>1, <2>2, <2>3, TrimKeeps DEF StartHere, EndHere, ResetTrim
<1>8. CASE ClipScene
  <2>1. PICK s \in SceneStart : \E e \in SceneEnd(s) : TrimTo([start |-> s, end |-> e])
    BY <1>8 DEF ClipScene
  <2>2. PICK e \in SceneEnd(s) : TrimTo([start |-> s, end |-> e])
    BY <2>1
  <2>3. [start |-> s, end |-> e] \in [start: Nat, end: Nat]
    BY PreviewAssumption DEF SceneEnd
  <2> QED BY <2>2, <2>3, TrimKeeps
<1>9. ASSUME NEW c \in 0..MaxCard, SetCard(c) PROVE Inv'
  <2>1. c \in Nat
    BY PreviewAssumption
  <2> QED BY <1>9, <2>1, ClampedWithin DEF SetCard, Inv, Typed, Within
<1>10. CASE Frame
  BY <1>10, FrameKeeps
<1> QED BY <1>1, <1>2, <1>3, <1>4, <1>5, <1>7, <1>8, <1>9, <1>10 DEF PreviewNext

\* Within the cut, and past the card, is within the trim.
LEMMA InvFrame == ASSUME Inv PROVE FrameInCut
BY CutLength DEF Inv, Typed, Within, FrameInCut, OnCard, EpisodeTime, Most

\* Whatever is played, sought, trimmed, clipped or put in front, in episodes, mixes and cards of
\* any length, the frame on screen is one of the cut.
THEOREM AlwaysInCut == PreviewSpec => []FrameInCut
<1>1. PreviewInit => Inv
  BY InvInit
<1>2. Inv /\ [PreviewNext]_previewVars => Inv'
  BY InvNext
<1>3. Inv => FrameInCut
  BY InvFrame
<1> QED BY <1>1, <1>2, <1>3, PTL DEF PreviewSpec

-------------------------------------------------------------------------------
(* The player.  A source that is loaded forgets the position and the play    *)
(* state, which are in the refs until the effects of its commit have run,    *)
(* and in the pending seek until there is metadata to apply it.              *)

Point == 0..Player!Duration(episode)

PlayerShape ==
  /\ episode \in Nat \ {0} /\ clips \in Nat \ {0}
  /\ el \in [mix: {episode}, ready: BOOLEAN, time: Point, paused: BOOLEAN, rate: Player!Rates]
  /\ rate \in Player!Rates /\ sounding \in BOOLEAN /\ resume \in BOOLEAN
  /\ position \in Point /\ heard \in Point /\ scrub \subseteq Point
  /\ pending \subseteq Nat /\ seekLine \in Nat
  /\ "seek" \in effects => seekLine # 0

\* A source without metadata has effects to run or a seek to apply, and cannot be dragged.
Loading ==
  /\ el.ready <=> "swap" \notin effects /\ pending = {}
  /\ effects \subseteq {"swap", "seek"}
  /\ pending # {} => scrub = {} /\ seekable = FALSE

AtSpeed == el.ready => el.rate = rate

\* The button is behind the element only until a load that has stopped it is made good.
Resumes ==
  /\ ~sounding => el.paused
  /\ sounding /\ el.paused => "swap" \in effects \/ (pending # {} /\ resume)

\* Where the position is kept.
PlaceKept ==
  /\ el.ready => el.time = heard /\ position = heard
  /\ "swap" \in effects /\ pending = {} => position = heard
  /\ "swap" \notin effects /\ seekLine = 0 => \A t \in pending : t = heard

PlaceLost == "rewound" \in mishaps \/ "swapped_twice" \in mishaps
Silenced == "play_refused" \in mishaps

PlayerInv ==
  PlayerShape /\ Loading /\ AtSpeed /\ (~Silenced => Resumes) /\ (~PlaceLost => PlaceKept)

LEMMA PlayerInvInit == Player!Init => PlayerInv
<1> SUFFICES ASSUME Player!Init PROVE PlayerInv
  OBVIOUS
<1>1. Player!Duration(1) \in Nat /\ 0 \in 0..Player!Duration(1)
  BY PreviewAssumption DEF Player!Duration
<1>2. el \in [mix: {episode}, ready: {TRUE}, time: {0}, paused: {TRUE}, rate: {1}]
  BY DEF Player!Init
<1>3. PlayerShape
  <2>1. episode = 1 /\ 0 \in Point
    BY <1>1 DEF Player!Init, Point
  <2>2. el \in [mix: {episode}, ready: BOOLEAN, time: Point, paused: BOOLEAN, rate: Player!Rates]
    BY <1>2, <2>1 DEF Player!Rates
  <2>3. /\ clips = 1 /\ rate = 1 /\ sounding = FALSE /\ resume = FALSE /\ position = 0
        /\ heard = 0 /\ scrub = {} /\ pending = {} /\ seekLine = 0 /\ effects = {}
    BY DEF Player!Init
  <2>4. position \in Point /\ heard \in Point /\ scrub \subseteq Point
    BY <2>1, <2>3
  <2>5. rate \in Player!Rates /\ sounding \in BOOLEAN /\ resume \in BOOLEAN
    BY <2>3 DEF Player!Rates
  <2>6. pending \subseteq Nat /\ seekLine \in Nat /\ "seek" \notin effects
    BY <2>3
  <2>7. episode \in Nat \ {0} /\ clips \in Nat \ {0}
    BY <2>1, <2>3
  <2> QED BY <2>2, <2>4, <2>5, <2>6, <2>7 DEF PlayerShape
<1>4. Loading /\ AtSpeed /\ Resumes
  BY <1>2 DEF Player!Init, Loading, AtSpeed, Resumes
<1>5. PlaceKept
  BY <1>2 DEF Player!Init, PlaceKept
<1> QED BY <1>3, <1>4, <1>5 DEF PlayerInv

\* The length of a mix is a number, and grows with its version.
LEMMA DurationGrows ==
  ASSUME NEW m \in Nat \ {0}
  PROVE  /\ Player!Duration(m) \in Nat /\ Player!Duration(m + 1) = Player!Duration(m) + 1
         /\ \A line \in Nat \ {0} : Player!StartOf(m, line) \in Nat
BY PreviewAssumption DEF Player!Duration, Player!StartOf

\* A seek that is applied: to where the listener was, unless it is to a line, and at the state of
\* the button.
LEMMA SeekApplied ==
  ASSUME PlayerInv, NEW e, NEW t \in Nat, NEW again \in BOOLEAN, Player!Seek(e, t, again),
         effects' = {}, UNCHANGED <<episode, clips, rate, scrub>>,
         e \in [mix: {episode}, ready: {TRUE}, time: Point, paused: {el.paused}, rate: {rate}],
         ~Silenced /\ sounding /\ el.paused => again,
         ~PlaceLost /\ seekLine = 0 => t = heard
  PROVE  PlayerInv'
<1> DEFINE at == Player!Least(t, Player!Duration(e.mix))
           s == [e EXCEPT !.time = at]
<1>1. Player!Duration(episode) \in Nat /\ e.mix = episode
  BY DurationGrows DEF PlayerInv, PlayerShape
<1>2. at \in Point /\ (t \in Point => at = t)
  BY <1>1 DEF Player!Least, Point
<1>3. /\ pending' = {} /\ resume' = FALSE /\ position' = s.time /\ seekLine' = 0
      /\ heard' = IF seekLine = 0 THEN heard ELSE s.time
      /\ IF again THEN Player!Played(s) ELSE el' = s /\ UNCHANGED <<sounding, mishaps>>
  BY DEF Player!Seek
<1>4. /\ s \in [mix: {episode}, ready: {TRUE}, time: Point, paused: {el.paused}, rate: {rate}]
      /\ s.time = at
  BY <1>2
<1> HIDE DEF s, at
<1>5. /\ el' \in [mix: {episode}, ready: {TRUE}, time: {at}, paused: BOOLEAN, rate: {rate}]
      /\ sounding' \in BOOLEAN /\ mishaps \subseteq mishaps'
      /\ ("rewound" \in mishaps' => "rewound" \in mishaps)
      /\ ("swapped_twice" \in mishaps' => "swapped_twice" \in mishaps)
      /\ \/ el'.paused = FALSE /\ sounding' = TRUE
         \/ Silenced'
         \/ ~again /\ el'.paused = el.paused /\ sounding' = sounding
  <2>1. CASE again
    <3>1. CASE el' = [s EXCEPT !.paused = FALSE, !.rate = rate] /\ sounding' = TRUE
               /\ UNCHANGED mishaps
      BY <1>4, <3>1
    <3>2. CASE el' = s /\ mishaps' = mishaps \cup {"play_refused"} /\ UNCHANGED sounding
      BY <1>4, <3>2 DEF PlayerInv, PlayerShape, Silenced
    <3> QED BY <1>3, <2>1, <3>1, <3>2 DEF Player!Played
  <2>2. CASE ~again
    BY <1>3, <1>4, <2>2 DEF PlayerInv, PlayerShape
  <2> QED BY <2>1, <2>2
<1>6. heard' \in Point /\ position' = at
  BY <1>2, <1>3, <1>4 DEF PlayerInv, PlayerShape
<1>7. PlayerShape'
  BY <1>2, <1>3, <1>5, <1>6 DEF PlayerInv, PlayerShape, Point
<1>8. Loading' /\ AtSpeed'
  BY <1>3, <1>5 DEF Loading, AtSpeed
<1>9. ~Silenced' => Resumes'
  BY <1>5 DEF PlayerInv, PlayerShape, Silenced, Resumes
<1>10. ~PlaceLost' => PlaceKept'
  <2> SUFFICES ASSUME ~PlaceLost' PROVE PlaceKept'
    OBVIOUS
  <2>1. ~PlaceLost
    BY <1>5 DEF PlaceLost
  <2>2. heard' = at
    BY <1>2, <1>3, <1>4, <2>1 DEF PlayerInv, PlayerShape
  <2> QED BY <1>3, <1>5, <1>6, <2>2 DEF PlaceKept
<1> QED BY <1>7, <1>8, <1>9, <1>10 DEF PlayerInv

\* The element by itself.
LEMMA TickKeepsPlayer == ASSUME PlayerInv, Player!Tick PROVE PlayerInv'
<1>1. /\ el.ready /\ ~el.paused
      /\ UNCHANGED <<episode, clips, rewinding, loaded, effects, seekLine, pending, resume,
                     seekable, scrub, rate, mishaps>>
  BY DEF Player!Tick
<1>2. Player!Duration(episode) \in Nat /\ el.mix = episode /\ el.time \in Point
  BY DurationGrows DEF PlayerInv, PlayerShape
<1>3. CASE el.time < Player!Duration(el.mix)
  <2>1. el' = [el EXCEPT !.time = el.time + 1] /\ position' = el'.time /\ heard' = el'.time
        /\ UNCHANGED sounding
    BY <1>3 DEF Player!Tick
  <2>2. el.time + 1 \in Point
    BY <1>2, <1>3 DEF Point
  <2>3. /\ el' \in [mix: {episode}, ready: {TRUE}, time: Point, paused: {FALSE}, rate: {el.rate}]
        /\ position' = el'.time /\ heard' = el'.time
    BY <1>1, <2>1, <2>2 DEF PlayerInv, PlayerShape
  <2> QED BY <1>1, <2>1, <2>3 DEF PlayerInv, PlayerShape, Point, Loading, AtSpeed, Resumes,
               PlaceKept, PlaceLost, Silenced
<1>4. CASE ~(el.time < Player!Duration(el.mix))
  <2>1. el' = [el EXCEPT !.paused = TRUE] /\ sounding' = FALSE /\ UNCHANGED <<position, heard>>
    BY <1>4 DEF Player!Tick
  <2>2. el' \in [mix: {episode}, ready: {TRUE}, time: {el.time}, paused: {TRUE}, rate: {el.rate}]
    BY <1>1, <2>1 DEF PlayerInv, PlayerShape
  <2> QED BY <1>1, <1>2, <2>1, <2>2 DEF PlayerInv, PlayerShape, Point, Loading, AtSpeed, Resumes,
               PlaceKept, PlaceLost, Silenced
<1> QED BY <1>3, <1>4

LEMMA RewoundKeepsPlayer == ASSUME PlayerInv, Player!Rewound PROVE PlayerInv'
<1>1. /\ UNCHANGED <<episode, clips, el, effects, seekLine, pending, resume, sounding, seekable,
                     scrub, rate, heard>>
      /\ position' = el.time /\ el.time \in Point
      /\ mishaps' = mishaps \cup (IF "swap" \in effects /\ position # el.time
                                THEN {"rewound"} ELSE {})
  BY DEF Player!Rewound, PlayerInv, PlayerShape
<1>2. PlayerShape' /\ Loading' /\ AtSpeed'
  BY <1>1 DEF PlayerInv, PlayerShape, Point, Loading, AtSpeed
<1>3. ~Silenced' => Resumes'
  BY <1>1 DEF PlayerInv, Silenced, Resumes
<1>4. ~PlaceLost' => PlaceKept'
  BY <1>1 DEF PlayerInv, PlaceLost, PlaceKept
<1> QED BY <1>2, <1>3, <1>4 DEF PlayerInv

LEMMA MetadataKeepsPlayer == ASSUME PlayerInv, Player!Metadata PROVE PlayerInv'
<1> DEFINE e == [el EXCEPT !.ready = TRUE, !.rate = rate]
<1>1. ~el.ready /\ effects = {} /\ UNCHANGED <<episode, clips, rewinding, effects, scrub, rate>>
  BY DEF Player!Metadata
<1>2. pending # {}
  BY <1>1 DEF PlayerInv, Loading
<1>3. PICK t \in pending : Player!Seek(e, t, resume)
  BY <1>2 DEF Player!Metadata
<1>4. e \in [mix: {episode}, ready: {TRUE}, time: Point, paused: {el.paused}, rate: {rate}]
  BY DEF PlayerInv, PlayerShape
<1>5. t \in Nat /\ resume \in BOOLEAN
  BY DEF PlayerInv, PlayerShape
<1>6. ~Silenced /\ sounding /\ el.paused => resume
  BY <1>1 DEF PlayerInv, Resumes
<1>7. ~PlaceLost /\ seekLine = 0 => t = heard
  BY <1>1 DEF PlayerInv, PlaceKept
<1> HIDE DEF e
<1> QED BY <1>1, <1>3, <1>4, <1>5, <1>6, <1>7, SeekApplied

\* A revision: the refs are all there is of the listener until the effects have run.
LEMMA LoadedShape ==
  ASSUME NEW m, Player!Load(m)
  PROVE  el' \in [mix: {m}, ready: {FALSE}, time: {0}, paused: {TRUE}, rate: {1}]
BY DEF Player!Load

LEMMA NewMixKeepsPlayer ==
  ASSUME PlayerInv, NEW line \in 0..1, Player!NewMix(line)
  PROVE  PlayerInv'
<1>1. /\ clips = episode + 1 /\ episode' = clips /\ Player!Load(clips)
      /\ UNCHANGED <<clips, pending, resume, sounding, position, seekable, scrub, rate, heard,
                     mishaps>>
      /\ seekLine' = IF line = 0 THEN seekLine ELSE line
      /\ effects' = {"swap"} \cup (IF seekLine' # 0 THEN {"seek"} ELSE {})
  BY DEF Player!NewMix
<1>2. episode \in Nat \ {0}
  BY DEF PlayerInv, PlayerShape
<1>3. /\ Player!Duration(episode) \in Nat
      /\ Player!Duration(episode') = Player!Duration(episode) + 1
  BY <1>1, <1>2, DurationGrows
<1>4. 0 \in Point' /\ \A x \in Point : x \in Point'
  BY <1>3 DEF Point
<1>5. el' \in [mix: {clips}, ready: {FALSE}, time: {0}, paused: {TRUE}, rate: {1}]
  BY <1>1, LoadedShape
<1>6. el' \in [mix: {episode'}, ready: BOOLEAN, time: Point', paused: BOOLEAN,
               rate: Player!Rates]
  BY <1>1, <1>4, <1>5 DEF Player!Rates
<1>7. PlayerShape'
  BY <1>1, <1>2, <1>4, <1>6 DEF PlayerInv, PlayerShape
<1>8. Loading' /\ AtSpeed' /\ Resumes'
  BY <1>1, <1>5 DEF PlayerInv, Loading, AtSpeed, Resumes
<1>9. ~PlaceLost' => PlaceKept'
  <2> SUFFICES ASSUME ~PlaceLost' PROVE PlaceKept'
    OBVIOUS
  <2>1. PlaceKept
    BY <1>1 DEF PlayerInv, PlaceLost
  <2>2. pending = {} => position = heard
    BY <2>1 DEF PlayerInv, Loading, PlaceKept
  <2> QED BY <1>1, <1>5, <2>2 DEF PlaceKept
<1> QED BY <1>7, <1>8, <1>9 DEF PlayerInv

\* The effects: a swap keeps the position and the play state in the seek that is pending.
LEMMA EffectsKeepPlayer == ASSUME PlayerInv, Player!RunEffects PROVE PlayerInv'
<1> DEFINE target == IF "seek" \in effects THEN Player!StartOf(clips, seekLine) ELSE position
<1>1. /\ effects # {} /\ effects' = {} /\ UNCHANGED <<episode, clips, rate, moves>>
      /\ IF "swap" \in effects
         THEN /\ loaded' = episode /\ Player!Load(episode) /\ seekable' = FALSE /\ scrub' = {}
              /\ mishaps' = mishaps \cup (IF pending # {} /\ "seek" \notin effects
                                        THEN {"swapped_twice"} ELSE {})
         ELSE UNCHANGED <<loaded, seekable, scrub, rewinding>>
      /\ IF "swap" \notin effects /\ el.ready
         THEN Player!Seek(el, target, sounding)
         ELSE /\ pending' = {target} /\ resume' = sounding
              /\ UNCHANGED <<seekLine, position, heard, sounding>>
              /\ IF "swap" \in effects THEN TRUE ELSE UNCHANGED <<el, mishaps>>
  BY DEF Player!RunEffects, Player!EffectsRun
<1>2. target \in Nat /\ sounding \in BOOLEAN
  <2>1. clips \in Nat \ {0} /\ position \in Nat /\ ("seek" \in effects => seekLine \in Nat \ {0})
    BY DEF PlayerInv, PlayerShape, Point
  <2> QED BY <2>1, DurationGrows DEF PlayerInv, PlayerShape
<1>3. "seek" \in effects => seekLine # 0
  BY DEF PlayerInv, PlayerShape
<1>4. ~PlaceLost /\ "seek" \notin effects /\ pending = {} /\ "swap" \in effects => target = heard
  BY DEF PlayerInv, PlaceKept
<1>5. "swap" \in effects \/ "seek" \in effects
  BY <1>1 DEF PlayerInv, Loading
<1> HIDE DEF target
<1>6. CASE "swap" \notin effects /\ el.ready
  <2>1. el \in [mix: {episode}, ready: {TRUE}, time: Point, paused: {el.paused}, rate: {rate}]
    BY <1>6 DEF PlayerInv, PlayerShape, AtSpeed
  <2>2. ~Silenced /\ sounding /\ el.paused => sounding
    OBVIOUS
  <2>3. ~PlaceLost /\ seekLine = 0 => target = heard
    BY <1>3, <1>5, <1>6
  <2>4. Player!Seek(el, target, sounding) /\ UNCHANGED <<episode, clips, rate, scrub>>
    BY <1>1, <1>6
  <2> QED BY <1>1, <1>2, <2>1, <2>2, <2>3, <2>4, SeekApplied, ZenonT(30)
<1>7. CASE "swap" \notin effects /\ ~el.ready
  <2>1. /\ pending' = {target} /\ resume' = sounding /\ pending # {}
        /\ UNCHANGED <<el, scrub, seekable, mishaps, seekLine, position, heard, sounding>>
    BY <1>1, <1>7 DEF PlayerInv, Loading
  <2>2. PlayerShape' /\ Loading' /\ AtSpeed'
    BY <1>1, <1>2, <1>7, <2>1 DEF PlayerInv, PlayerShape, Point, Loading, AtSpeed
  <2>3. ~Silenced' => Resumes'
    BY <1>1, <2>1 DEF PlayerInv, Silenced, Resumes
  <2>4. PlaceKept'
    BY <1>1, <1>3, <1>5, <1>7, <2>1 DEF PlaceKept
  <2> QED BY <2>2, <2>3, <2>4 DEF PlayerInv
<1>8. CASE "swap" \in effects
  <2>1. /\ pending' = {target} /\ resume' = sounding /\ seekable' = FALSE /\ scrub' = {}
        /\ UNCHANGED <<seekLine, position, heard, sounding>>
        /\ mishaps' = mishaps \cup (IF pending # {} /\ "seek" \notin effects
                                  THEN {"swapped_twice"} ELSE {})
    BY <1>1, <1>8
  <2>2. el' \in [mix: {episode}, ready: {FALSE}, time: {0}, paused: {TRUE}, rate: {1}]
    BY <1>1, <1>8, LoadedShape
  <2>3. episode' = episode /\ 0 \in Point
    BY <1>1, DurationGrows DEF PlayerInv, PlayerShape, Point
  <2>4. el' \in [mix: {episode'}, ready: BOOLEAN, time: Point', paused: BOOLEAN,
                 rate: Player!Rates]
    BY <2>2, <2>3 DEF Player!Rates, Point
  <2>5. PlayerShape'
    BY <1>1, <1>2, <2>1, <2>3, <2>4 DEF PlayerInv, PlayerShape, Point
  <2>6. Loading' /\ AtSpeed' /\ Resumes'
    BY <1>1, <2>1, <2>2 DEF Loading, AtSpeed, Resumes
  <2>7. ~PlaceLost' => PlaceKept'
    BY <1>1, <1>3, <1>4, <1>8, <2>1, <2>2 DEF PlaceKept, PlaceLost
  <2> QED BY <2>5, <2>6, <2>7 DEF PlayerInv
<1> QED BY <1>6, <1>7, <1>8

\* The listener.
LEMMA ButtonKeepsPlayer == ASSUME PlayerInv, Player!Button PROVE PlayerInv'
<1>1. UNCHANGED <<episode, clips, effects, seekLine, pending, resume, position, scrub, seekable,
                  rate, heard>>
  BY DEF Player!Button, Player!refs
<1>2. CASE \/ el' = [el EXCEPT !.paused = FALSE, !.rate = rate] /\ sounding' = TRUE
              /\ UNCHANGED mishaps
           \/ el' = [el EXCEPT !.paused = TRUE] /\ sounding' = FALSE /\ UNCHANGED mishaps
  <2>1. /\ el' \in [mix: {episode}, ready: {el.ready}, time: {el.time}, paused: {~sounding'},
                    rate: {el.rate, rate}]
        /\ (el.rate = rate => el'.rate = rate)
        /\ sounding' \in BOOLEAN /\ mishaps' = mishaps
    BY <1>2 DEF PlayerInv, PlayerShape
  <2>2. PlayerShape' /\ Loading' /\ AtSpeed'
    BY <1>1, <2>1 DEF PlayerInv, PlayerShape, Point, Loading, AtSpeed
  <2>3. Resumes'
    BY <2>1 DEF Resumes
  <2>4. ~PlaceLost' => PlaceKept'
    BY <1>1, <2>1 DEF PlayerInv, PlaceLost, PlaceKept
  <2> QED BY <2>2, <2>3, <2>4 DEF PlayerInv
<1>3. CASE el' = el /\ mishaps' = mishaps \cup {"play_refused"} /\ UNCHANGED sounding
  <2>1. PlayerShape' /\ Loading' /\ AtSpeed'
    BY <1>1, <1>3 DEF PlayerInv, PlayerShape, Point, Loading, AtSpeed
  <2>2. Silenced'
    BY <1>3 DEF Silenced
  <2>3. ~PlaceLost' => PlaceKept'
    BY <1>1, <1>3 DEF PlayerInv, PlaceLost, PlaceKept
  <2> QED BY <2>1, <2>2, <2>3 DEF PlayerInv
<1> QED BY <1>2, <1>3 DEF Player!Button, Player!Played

LEMMA ScrubKeepsPlayer == ASSUME PlayerInv, Player!CommitScrub PROVE PlayerInv'
<1>1. PICK x \in scrub :
        /\ scrub' = {} /\ el' = [el EXCEPT !.time = x] /\ position' = x /\ heard' = x
        /\ UNCHANGED <<episode, clips, effects, seekLine, pending, resume, sounding, seekable,
                       rate, mishaps>>
  BY DEF Player!CommitScrub
<1>2. x \in Point /\ pending = {}
  BY DEF PlayerInv, PlayerShape, Loading
<1>3. el' \in [mix: {episode}, ready: {el.ready}, time: {x}, paused: {el.paused}, rate: {el.rate}]
  BY <1>1 DEF PlayerInv, PlayerShape
<1>4. PlayerShape' /\ Loading' /\ AtSpeed'
  BY <1>1, <1>2, <1>3 DEF PlayerInv, PlayerShape, Point, Loading, AtSpeed
<1>5. ~Silenced' => Resumes'
  BY <1>1, <1>3 DEF PlayerInv, Silenced, Resumes
<1>6. PlaceKept'
  BY <1>1, <1>2, <1>3 DEF PlaceKept
<1> QED BY <1>4, <1>5, <1>6 DEF PlayerInv

LEMMA MovesKeepPlayer ==
  ASSUME PlayerInv,
         \/ Player!NewClips \/ Player!PointerDown
         \/ \E r \in Player!Rates : Player!Speed(r)
         \/ \E x \in Player!Time : Player!Drag(x)
         \/ \E line \in 1..Lines : Player!SeekLine(line)
  PROVE  PlayerInv'
<1>1. CASE Player!NewClips
  <2>1. /\ clips' = episode + 1
        /\ UNCHANGED <<episode, el, effects, seekLine, pending, resume, position, scrub, sounding,
                       seekable, rate, heard, mishaps>>
    BY <1>1 DEF Player!NewClips, Player!refs
  <2>2. clips' \in Nat \ {0}
    BY <2>1 DEF PlayerInv, PlayerShape
  <2> QED BY <2>1, <2>2 DEF PlayerInv, PlayerShape, Point, Loading, AtSpeed, Resumes, PlaceKept,
               PlaceLost, Silenced
<1>2. ASSUME NEW x \in Point, scrub' = {x}, pending = {},
             UNCHANGED <<episode, clips, el, effects, seekLine, pending, resume, position,
                         sounding, seekable, rate, heard, mishaps>>
      PROVE  PlayerInv'
  BY <1>2 DEF PlayerInv, PlayerShape, Point, Loading, AtSpeed, Resumes, PlaceKept, PlaceLost,
              Silenced
<1>3. CASE Player!PointerDown
  <2>1. pending = {} /\ position \in Point
    BY <1>3 DEF Player!PointerDown, PlayerInv, PlayerShape, Loading
  <2> QED BY <1>2, <1>3, <2>1 DEF Player!PointerDown
<1>4. ASSUME NEW x \in Player!Time, Player!Drag(x) PROVE PlayerInv'
  <2>1. x \in Nat /\ x <= Player!Duration(el.mix) /\ el.mix = episode
    <3>1. Player!Duration(MaxMix) \in Nat
      BY StudioAssumption, DurationGrows
    <3> QED BY <1>4, <3>1 DEF Player!Time, Player!Drag, PlayerInv, PlayerShape
  <2>2. x \in Point
    BY <2>1, DurationGrows DEF Point, PlayerInv, PlayerShape
  <2>3. pending = {}
    BY <1>4 DEF Player!Drag, PlayerInv, Loading
  <2> QED BY <1>2, <1>4, <2>2, <2>3 DEF Player!Drag
<1>5. ASSUME NEW r \in Player!Rates, Player!Speed(r) PROVE PlayerInv'
  <2>1. /\ rate' = r /\ el' = [el EXCEPT !.rate = r]
        /\ UNCHANGED <<episode, clips, effects, seekLine, pending, resume, position, scrub,
                       sounding, seekable, heard, mishaps>>
    BY <1>5 DEF Player!Speed, Player!refs
  <2>2. el' \in [mix: {episode}, ready: {el.ready}, time: {el.time}, paused: {el.paused}, rate: {r}]
    BY <2>1 DEF PlayerInv, PlayerShape
  <2>3. PlayerShape' /\ Loading' /\ AtSpeed'
    BY <2>1, <2>2 DEF PlayerInv, PlayerShape, Point, Loading, AtSpeed
  <2>4. (~Silenced' => Resumes') /\ (~PlaceLost' => PlaceKept')
    BY <2>1, <2>2 DEF PlayerInv, Silenced, Resumes, PlaceLost, PlaceKept
  <2> QED BY <2>3, <2>4 DEF PlayerInv
<1>6. ASSUME NEW line \in 1..Lines, Player!SeekLine(line) PROVE PlayerInv'
  <2>1. /\ seekLine' = line /\ effects' = effects \cup {"seek"} /\ line \in Nat \ {0}
        /\ UNCHANGED <<episode, clips, el, pending, resume, sounding, position, seekable, scrub,
                       rate, heard, mishaps>>
    BY <1>6, PreviewAssumption DEF Player!SeekLine
  <2>2. PlayerShape' /\ Loading' /\ AtSpeed'
    BY <2>1 DEF PlayerInv, PlayerShape, Point, Loading, AtSpeed
  <2>3. (~Silenced' => Resumes') /\ (~PlaceLost' => PlaceKept')
    BY <2>1 DEF PlayerInv, Silenced, Resumes, PlaceLost, PlaceKept
  <2> QED BY <2>2, <2>3 DEF PlayerInv
<1> QED BY <1>1, <1>3, <1>4, <1>5, <1>6

LEMMA PlayerInvNext == PlayerInv /\ Player!Next => PlayerInv'
<1> SUFFICES ASSUME PlayerInv, Player!Next PROVE PlayerInv'
  OBVIOUS
<1>1. CASE Player!Tick
  BY <1>1, TickKeepsPlayer
<1>2. CASE Player!Rewound
  BY <1>2, RewoundKeepsPlayer
<1>3. CASE Player!Metadata
  BY <1>3, MetadataKeepsPlayer
<1>4. CASE Player!RunEffects
  BY <1>4, EffectsKeepPlayer
<1>5. ASSUME NEW line \in 0..1, Player!NewMix(line) PROVE PlayerInv'
  BY <1>5, NewMixKeepsPlayer
<1>6. CASE Player!Button
  BY <1>6, ButtonKeepsPlayer
<1>7. CASE Player!CommitScrub
  BY <1>7, ScrubKeepsPlayer
<1>8. CASE \/ Player!NewClips \/ Player!PointerDown
           \/ \E r \in Player!Rates : Player!Speed(r)
           \/ \E x \in Player!Time : Player!Drag(x)
           \/ \E line \in 1..Lines : Player!SeekLine(line)
  BY <1>8, MovesKeepPlayer
<1> QED BY <1>1, <1>2, <1>3, <1>4, <1>5, <1>6, <1>7, <1>8 DEF Player!Next

LEMMA PlayerStays == ASSUME PlayerInv, UNCHANGED playerVars PROVE PlayerInv'
BY DEF playerVars, PlayerInv, PlayerShape, Point, Loading, AtSpeed, Resumes, PlaceKept, PlaceLost,
       Silenced

\* Once the element has settled it is where the listener was or asked to be, at their speed, and
\* does what the button says, for any number of lines, versions, swaps, seeks, drags and clicks,
\* but for an event of a load or a second mix in between, and a browser that refuses to play.
THEOREM ListenerKept == StudioSpec => []CarriedOver
<1>1. StudioInit => PlayerInv
  BY PlayerInvInit DEF StudioInit
<1>2. PlayerInv /\ [StudioNext]_studioVars => PlayerInv'
  <2> SUFFICES ASSUME PlayerInv, [StudioNext]_studioVars PROVE PlayerInv'
    OBVIOUS
  <2>1. Player!Next \/ UNCHANGED playerVars
    BY DEF StudioNext, studioVars, InForks, InPreview, InPlayer, InAnalysis
  <2> QED BY <2>1, PlayerInvNext, PlayerStays
<1>3. PlayerInv => CarriedOver
  <2> SUFFICES ASSUME PlayerInv, el.ready, effects = {}, pending = {}
               PROVE  /\ ~PlaceLost => el.time = heard
                      /\ el.rate = rate
                      /\ ~Silenced => sounding = ~el.paused
    BY DEF CarriedOver, Player!CarriedOver, Player!Settled, PlaceLost, Silenced
  <2>1. el.rate = rate /\ (~PlaceLost => el.time = heard)
    BY DEF PlayerInv, AtSpeed, PlaceKept
  <2>2. sounding \in BOOLEAN /\ el.paused \in BOOLEAN
    BY DEF PlayerInv, PlayerShape
  <2>3. ~Silenced => (sounding <=> ~el.paused)
    BY DEF PlayerInv, Resumes
  <2> QED BY <2>1, <2>2, <2>3
<1> QED BY <1>1, <1>2, <1>3, PTL DEF StudioSpec
===============================================================================
