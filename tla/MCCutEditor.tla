----------------------------- MODULE MCCutEditor -----------------------------
(* CutEditor with the manifests of a small number of moves. *)
EXTENDS CutEditor

MCManifest == VideoEditManifest
MCBlank == Defaults
==============================================================================
