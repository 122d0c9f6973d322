--------------------------- MODULE MCEngineInputs ---------------------------
(***************************************************************************)
(* Gaps and heights on the lattice the players move on (multiples of three *)
(* from the starting positions), chosen on both sides of every edge of     *)
(* every box: widths 27, 28, 30 plus the foot's 30; heights 21, 38, 44     *)
(* plus the foot's 32.                                                     *)
(***************************************************************************)
EXTENDS EngineInputs

Half == {0, 3, 27, 30, 33, 54, 57, 60, 63}

BothSides == Half \cup {-g : g \in Half}

Heights == {355, 352, 325, 322, 305, 302, 299, 284, 281, 278, 275}

P1Places == {213, 321}

=============================================================================
