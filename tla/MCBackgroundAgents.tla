------------------------- MODULE MCBackgroundAgents -------------------------
(* Small instances of BackgroundAgents for TLC.                            *)
EXTENDS BackgroundAgents, TLC

Symmetric == Permutations(Runs)
=============================================================================
