---------------------------- MODULE MCPlayButton ----------------------------
(* PlayButton with a user of each habit.                                   *)
EXTENDS PlayButton, TLC

MCOneWindow == SUBSET {0}
MCTwoWindows == SUBSET {0, 1}
MCSymmetry == Permutations(Pollers)
MCAllSymmetry == Permutations(Control) \cup Permutations(Pollers)
=============================================================================
