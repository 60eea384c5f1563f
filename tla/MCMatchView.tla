----------------------------- MODULE MCMatchView ------------------------------
(* Four slices, of a match of six frames: one spot is taken, left and taken    *)
(* again; the other one's strength changes between two slices without any.     *)
EXTENDS MatchView, TLC

MCDiffs == 0 :> ("a" :> 2) @@ 1 :> ("a" :> 0 @@ "b" :> 1) @@ 2 :> <<>>
           @@ 3 :> ("a" :> 3 @@ "b" :> 3)

Symmetry == Permutations(Panels)
================================================================================
