----------------------------- MODULE PlayerOne ------------------------------
(***************************************************************************)
(* One instance of module player_one (playerone.sv) on its own, against    *)
(* any opponent and any game: its registers change when a round is set up  *)
(* and once per frame while the game is being played.                      *)
(***************************************************************************)
EXTENDS PlayerMotion

CONSTANTS
  PlayerNum,   \* 1 for PlayerNum = 1'b0, 2 for 1'b1
  OtherXs      \* the positions the opponent may be at

(***************************************************************************)
(* What the parameters have to satisfy for the arena to make sense in ten  *)
(* bits: the ceiling check, a bounce and the step past the floor all stay  *)
(* inside a word, and the arena is high enough for a jump to leave the     *)
(* floor before it meets the ceiling.                                      *)
(***************************************************************************)
ASSUME ArenaAssumption ==
  /\ PlayerNum \in {1, 2}
  /\ OtherXs \subseteq Word10
  /\ Ball_X_Step \in 1 .. 511
  /\ Ball_Y_Step \in 1 .. 511
  /\ Ball_Y_Min + Ball_Height >= 2 * Ball_Y_Step
  /\ Ball_Y_Min + 2 * Ball_Height + 2 * Ball_Y_Step < Ball_Y_Max
  /\ Ball_Y_Max + Ball_Y_Step < Width10

VARIABLE ball

vars == <<ball>>

Init == ball = Start(PlayerNum)

\* Reset, the title screen and Reset_State all load the starting position.
SetUp ==
  \E gs \in {Title, Reset_State} :
    ball' = NextPlayer(PlayerNum, ball, FALSE, gs, FALSE, FALSE, FALSE, 0)

(***************************************************************************)
(* A frame of play.  The keyboard path delivers one key at a time, so a    *)
(* player's dive and kick are never both down.                             *)
(***************************************************************************)
PlayFrame ==
  \E key \in {"none", "dive", "kick"}, otherX \in OtherXs :
    ball' = NextPlayer(PlayerNum, ball, FALSE, Playing, TRUE,
                       key = "dive", key = "kick", otherX)

Next == SetUp \/ PlayFrame

(***************************************************************************)
(* While a round is on, VGA_VS keeps rising: frames keep coming, but no    *)
(* key has to be pressed in any of them.  So only a player on the move,    *)
(* whose position every frame changes, is sure to leave the state he is in.*)
(***************************************************************************)
OnTheMove == ball.dx # 0 \/ ball.dy # 0

Fairness == WF_vars(OnTheMove /\ PlayFrame)

Spec == Init /\ [][Next]_vars /\ Fairness

-----------------------------------------------------------------------------
\* Every register holds a value of its width.
TypeOK == ball \in Player

(***************************************************************************)
(* The highest and the lowest point a player can reach.  Position and      *)
(* motion are updated together from the old motion, so a player overshoots *)
(* the ceiling line by up to two steps and the floor line by one.          *)
(***************************************************************************)
Highest == Ball_Y_Min + Ball_Height - 2 * Ball_Y_Step
Lowest  == Ball_Y_Max - Ball_Height + Ball_Y_Step

\* A player never leaves the arena through the ceiling or the floor, whatever
\* keys are pressed in whatever frames (playerone.sv, the vertical branches).
VerticalBounds == ball.y \in Highest + 1 .. Lowest

\* The pose, which picks the sprite, the hit box and the hurt box, always
\* agrees with the motion registers, which move the player (playerone.sv).
PoseMatchesMotion ==
  /\ ball.what = Idle      => ball.dx = 0 /\ ball.dy = 0
  /\ ball.what = Jumping   => ball.dx = 0 /\ ball.dy \in {Ball_Y_Step, Neg(Ball_Y_Step)}
  /\ ball.what = KickRight => ball.dx = Ball_X_Step /\ ball.dy = Ball_Y_Step
  /\ ball.what = KickLeft  => ball.dx = Neg(Ball_X_Step) /\ ball.dy = Ball_Y_Step
  /\ ball.what = Falling   => ball.dx = 0 /\ ball.dy = Ball_Y_Step

(***************************************************************************)
(* What makes the bounds inductive.  Heights are whole steps away from the *)
(* floor; a rising player is at least a step below the highest point and a *)
(* descending one at least a step above the lowest; an idle player is at   *)
(* most a step above the floor.                                            *)
(***************************************************************************)
Floor == Ball_Y_Max - Ball_Height

Ceiling == Ball_Y_Min + Ball_Height

WholeSteps == \E k \in 0 .. Width10 : ball.y = Lowest - k * Ball_Y_Step

Momentum ==
  /\ ball.dy \in {0, Ball_Y_Step, Neg(Ball_Y_Step)}
  /\ ball.dy = Neg(Ball_Y_Step) => ball.y > Ceiling - Ball_Y_Step
  /\ ball.dy = Ball_Y_Step => ball.y <= Floor

\* A player becomes idle by landing (playerone.sv:111), but the position still
\* takes the motion of the frame before (line 129): he is idle on the floor or
\* one step above it, never higher.
IdleIsLow == ball.what = Idle => ball.y >= Floor - Ball_Y_Step

IInv == /\ TypeOK /\ VerticalBounds /\ PoseMatchesMotion
        /\ WholeSteps /\ Momentum /\ IdleIsLow

\* A kick is a commitment: once started it can be neither turned round nor
\* replaced by another kick before the player is back on the floor.
KickCommitted ==
  [][ /\ ball.what \in {KickLeft, KickRight, Falling}
      /\ ball'.what # ball.what
      => ball'.what = Falling \/ AtBottom(ball) \/ ball' = Start(PlayerNum) ]_vars

\* Every kick ends, in a landing, a new jump from the floor or a cancel, as
\* long as frames keep coming: gravity cannot be defeated by any key sequence.
KickEnds == ball.what \in {KickLeft, KickRight} ~> ball.what \in {Idle, Jumping, Falling}

\* A player that a wall has stopped comes down to the floor again.
FallEnds == ball.what = Falling ~> AtBottom(ball)

\* No pose in the air lasts for ever.
MotionEnds == KickEnds /\ FallEnds

=============================================================================
