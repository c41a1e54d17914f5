---------------------------- MODULE MCMediaFanout ----------------------------
(* MediaFanout on small instances: lines are interchangeable, and so are the    *)
(* chords that deliveries of fan_out build.                                     *)
EXTENDS MediaFanout, TLC

Interchangeable == Permutations(Line) \cup Permutations(Chord)
===============================================================================
