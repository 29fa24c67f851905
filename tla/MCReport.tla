------------------------------ MODULE MCReport ------------------------------
(* Two files.  "w" is a warning that fails the run, "h" a hint, "e" a parse error. *)
EXTENDS Report, TLC

TwoFiles == 1 :> {<<"w">>, <<"w", "w">>, <<"h", "e">>, <<"w", "h", "w">>} @@ 2 :> {<<"w">>}
Symmetry == Permutations(Procs)
=============================================================================
