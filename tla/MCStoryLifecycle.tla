--------------------------- MODULE MCStoryLifecycle ---------------------------
(* StoryLifecycle on a small instance: any two of a note, a regenerate request *)
(* and an administrator who reviews the story as often as he likes.            *)
EXTENDS StoryLifecycle, FiniteSets

MCMixes == {mix \in SUBSET Asker : Cardinality(mix) = 2}
===============================================================================
