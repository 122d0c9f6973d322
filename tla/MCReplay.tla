------------------------------ MODULE MCReplay ------------------------------
(***************************************************************************)
(* One round of Lab8 on the real arena, played from a script: the players  *)
(* hop towards the left wall, kicking past each other, and one of them     *)
(* starts a kick so high up that the descent from the ceiling is decided   *)
(* in place of the stop at the wall.  A frame lasts three cycles here and  *)
(* a second sixty frames, as on the board.                                 *)
(***************************************************************************)
EXTENDS Lab8

CONSTANT FRAME   \* cycles from one frame edge to the next

VARIABLES
  frame,   \* frame edges of the round so far
  sweep    \* cycles since the last of them

rvars == <<State, Score, roundTimer, koTimer, readyTimer, diveKickTimer,
           player, edge, key, frame, sweep>>

Press(first, last, k) == [frames |-> first .. last, key |-> k]

\* What is pressed in which frames of the round; in all others no key is.
Script == {
   Press(4, 5, PtwoDive), Press(11, 11, PtwoKick),
   Press(40, 41, PoneDive), Press(56, 58, PtwoDive),
   Press(77, 77, PtwoKick), Press(124, 124, PoneKick),
   Press(227, 229, PoneDive), Press(255, 257, PtwoDive),
   Press(296, 296, PoneKick), Press(346, 346, PtwoKick),
   Press(420, 422, PoneDive), Press(491, 493, PtwoDive),
   Press(496, 496, PoneKick), Press(579, 580, PtwoKick),
   Press(603, 605, PoneDive), Press(688, 688, PoneKick),
   Press(692, 694, PtwoDive), Press(777, 777, PtwoKick)}

KeyAt(f) ==
  IF \E p \in Script : f \in p.frames
  THEN (CHOOSE p \in Script : f \in p.frames).key
  ELSE NoKey

RInit == LInit /\ key = GameStart /\ frame = 0 /\ sweep = 0

RNext ==
  /\ Tick
  /\ sweep' = IF State = Playing THEN (sweep + 1) % FRAME ELSE 0
  /\ frame' = IF edge THEN frame + 1 ELSE frame
  /\ edge' = (State' = Playing /\ sweep' = 1)
  /\ key' = IF edge' THEN KeyAt(frame') ELSE NoKey

RSpec == RInit /\ [][RNext]_rvars

\* playerone.sv:17, "Rightmost point on the X axis": no player is ever beyond it.
RightmostPoint == \A n \in Players : State = Playing => player[n].x <= Ball_X_Max

=============================================================================
