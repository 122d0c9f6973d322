---------------------------- MODULE PlayerMotion ----------------------------
(***************************************************************************)
(* The combinational half of playerone.sv: what one player's registers     *)
(* hold after a clock edge, as a function of what they held before it and  *)
(* of the inputs.  PlayerOne turns it into a state machine of its own;     *)
(* Lab8 uses it twice, once per player.                                    *)
(*                                                                         *)
(* A player is a record of its five registers:                             *)
(*   x, y   Ball_X_Pos, Ball_Y_Pos        (y grows towards the floor)      *)
(*   dx, dy Ball_X_Motion, Ball_Y_Motion  (two's complement, 10 bits)      *)
(*   what   whatdo, the pose                                               *)
(***************************************************************************)
EXTENDS Signals

CONSTANTS
  P1_Ball_X_Center, P2_Ball_X_Center,  \* where the players start a round
  Ball_X_Min, Ball_X_Max,              \* walls
  Ball_Y_Min, Ball_Y_Max,              \* ceiling and floor
  Ball_X_Step, Ball_Y_Step,            \* distance covered in one frame
  Ball_Height, Ball_Width              \* half extents of the body

\* The parameters of player_one are ten bits wide (playerone.sv:13-23).
ASSUME ParameterAssumption ==
  /\ {P1_Ball_X_Center, P2_Ball_X_Center} \subseteq Word10
  /\ {Ball_X_Min, Ball_X_Max, Ball_Y_Min, Ball_Y_Max} \subseteq Word10
  /\ {Ball_X_Step, Ball_Y_Step, Ball_Height, Ball_Width} \subseteq Word10

\* Bug: a step is reversed in more than ten bits.
Neg_Wide(n) == 0 - n

\* (~n) + 1, the two's complement the module writes to reverse a step
Neg(n) == Wrap(Width10 - n)

Player == [x : Word10, y : Word10, dx : Word10, dy : Word10, what : Pose]

-----------------------------------------------------------------------------
(***************************************************************************)
(* The comparisons of the always_comb block, with the width it gives them. *)
(***************************************************************************)
\* Bug: the whole height of the body is added, not half of it.
AtBottom_WholeBody(p) == Wrap(p.y + 2 * Ball_Height) >= Ball_Y_Max

AtBottom(p) == Wrap(p.y + Ball_Height) >= Ball_Y_Max

\* Bug: the ceiling is tested for equality.
AtTop_Exact(p) == p.y = Wrap(Ball_Y_Min + Ball_Height)

AtTop(p) == p.y <= Wrap(Ball_Y_Min + Ball_Height)

AtLeftWall(p)  == Wrap(p.x - Ball_Width) <= Ball_X_Min
AtRightWall(p) == Wrap(p.x + Ball_Width) >= Ball_X_Max

\* Registers power up at zero; the title screen loads them on the first edge.
PowerUp == [x |-> 0, y |-> 0, dx |-> 0, dy |-> 0, what |-> Idle]

\* Round start: on the floor, in the player's own half, at rest.
Start(num) ==
  [x    |-> IF num = 1 THEN P1_Ball_X_Center ELSE P2_Ball_X_Center,
   y    |-> Wrap(Ball_Y_Max - Ball_Height),
   dx   |-> 0,
   dy   |-> 0,
   what |-> Idle]

\* The effects of the six branches on the motion and pose registers.
Jump(p) == [p EXCEPT !.dx = 0, !.dy = Neg(Ball_Y_Step), !.what = Jumping]

Descend(p) == [p EXCEPT !.dy = Ball_Y_Step]

\* Bug: landing does not end the pose.
Land_KeepsPose(p) == [p EXCEPT !.dx = 0, !.dy = 0]

Land(p) == [p EXCEPT !.dx = 0, !.dy = 0, !.what = Idle]

\* Bug: a cancelled kick keeps going sideways.
Cancel_KeepsMotion(p) == [p EXCEPT !.what = Falling]

Cancel(p) == [p EXCEPT !.dx = 0, !.what = Falling]

\* A kick goes towards the opponent; level with the opponent it goes right.
Kick(p, otherX) ==
  IF p.x > otherX
  THEN [p EXCEPT !.dx = Neg(Ball_X_Step), !.dy = Ball_Y_Step, !.what = KickLeft]
  ELSE [p EXCEPT !.dx = Ball_X_Step, !.dy = Ball_Y_Step, !.what = KickRight]

\* Bug: a kick can be started from any pose.
MayKick_AnyPose(p, kick) == kick /\ ~AtBottom(p)

\* A kick is started once per jump, in the air.
MayKick(p, kick) == kick /\ p.what = Jumping /\ ~AtBottom(p)

\* The if / else-if chain: the first condition that holds decides.
Decide(p, dive, kick, otherX) ==
  IF dive /\ AtBottom(p) THEN Jump(p)
  ELSE IF AtTop(p) THEN Descend(p)
  ELSE IF MayKick(p, kick) THEN Kick(p, otherX)
  ELSE IF AtBottom(p) THEN Land(p)
  ELSE IF \/ p.what = KickLeft /\ AtLeftWall(p)
          \/ p.what = KickRight /\ AtRightWall(p) THEN Cancel(p)
  ELSE p

\* One frame: the position moves by the motion decided a frame earlier.
Frame(p, dive, kick, otherX) ==
  [Decide(p, dive, kick, otherX) EXCEPT !.x = Wrap(p.x + p.dx),
                                        !.y = Wrap(p.y + p.dy)]

\* Bug: the players are not put back between rounds.
NextPlayer_Kept(num, p, reset, gs, edge, dive, kick, otherX) ==
  IF reset \/ gs = Title THEN Start(num)
  ELSE IF gs = Playing /\ edge THEN Frame(p, dive, kick, otherX)
  ELSE p

\* Bug: the players move in every cycle, not once per frame.
NextPlayer_EveryCycle(num, p, reset, gs, edge, dive, kick, otherX) ==
  IF reset \/ gs \in {Title, Reset_State} THEN Start(num)
  ELSE IF gs = Playing THEN Frame(p, dive, kick, otherX)
  ELSE p

\* The register block, evaluated at every edge of Clk.
NextPlayer(num, p, reset, gs, edge, dive, kick, otherX) ==
  IF reset \/ gs \in {Title, Reset_State} THEN Start(num)
  ELSE IF gs = Playing /\ edge THEN Frame(p, dive, kick, otherX)
  ELSE p

\* Bug: the next pose is shown in a frame edge after the round, too.
Status_Ungated(p, gs, edge, dive, kick, otherX) ==
  IF edge THEN Decide(p, dive, kick, otherX).what ELSE p.what

(***************************************************************************)
(* divekickstatus is whatdo_in, not whatdo: in the cycle of a frame edge   *)
(* the rest of the machine sees the pose the player is about to take, next *)
(* to the position it is about to leave.                                   *)
(***************************************************************************)
Status(p, gs, edge, dive, kick, otherX) ==
  IF gs = Playing /\ edge THEN Decide(p, dive, kick, otherX).what ELSE p.what

=============================================================================
