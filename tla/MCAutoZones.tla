---------------------------- MODULE MCAutoZones ----------------------------
(***************************************************************************)
(* Small instances of AutoZones: addresses on a line, the buffers of       *)
(* neighbours touching, so that a2 joins the areas of a1 and a3.           *)
(***************************************************************************)
EXTENDS AutoZones, TLC

CONSTANTS a1, a2, a3

Line == (a1 :> 1..4) @@ (a2 :> 4..6) @@ (a3 :> 6..9)

Symmetry == Permutations(Proc)

NoSurvey == {}
TwoSurveys == {<<{a1, a2}, {}>>, <<{a2}, {a1}>>}

Zones3 == 1..3

\* Edits by hand: any zone hidden; the offering of the first zone deleted and one
\* for another technology created at the second.
Hide == {"hide"} \X Zone
OneOfEach == {<<"detach", 1>>, <<"attach", 2>>}
=============================================================================
