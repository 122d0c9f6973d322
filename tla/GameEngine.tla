---------------------------- MODULE GameEngine ------------------------------
(***************************************************************************)
(* GameEngine.sv: who is being hit, and who wins when the clock runs out.  *)
(* The module is combinational, so it is a set of operators on the         *)
(* players' published coordinates and poses,                               *)
(*   x, y   PlayerX, PlayerY                                               *)
(*   what   divekickstatus                                                 *)
(* and on gameTime, the seconds left in the round.                         *)
(***************************************************************************)
EXTENDS Signals

\* Wired by lab8.sv; the Char_Height and Char_Width ports are not used.
HB_Height == 32
HB_Width  == 30

Center == 320

Fighter == [x : Word10, y : Word10, what : Pose]

-----------------------------------------------------------------------------
\* Bug: the box of one kick is copied to the other.
HurtBox_Copied(what) ==
  CASE what = Idle               -> [top |-> 21, bot |-> 44, left |-> 30, right |-> 30]
    [] what \in {Jumping, Falling} -> [top |-> 38, bot |-> 44, left |-> 28, right |-> 28]
    [] what \in {KickRight, KickLeft} -> [top |-> 44, bot |-> 44, left |-> 27, right |-> 30]

(***************************************************************************)
(* The part of the body that can be hit, as distances from the position.   *)
(* It follows the pose.  The two case statements of the source, one per    *)
(* player, are the same table.                                             *)
(***************************************************************************)
HurtBox(what) ==
  CASE what = Idle               -> [top |-> 21, bot |-> 44, left |-> 30, right |-> 30]
    [] what \in {Jumping, Falling} -> [top |-> 38, bot |-> 44, left |-> 28, right |-> 28]
    [] what = KickRight          -> [top |-> 44, bot |-> 44, left |-> 27, right |-> 30]
    [] what = KickLeft           -> [top |-> 44, bot |-> 44, left |-> 30, right |-> 27]

\* Bug: the victim's two widths are swapped for a kick to the right.
MeetsAcross_Swapped(kicker, victim) ==
  LET h == HurtBox(victim.what) IN
  \/ /\ kicker.what = KickRight
     /\ kicker.x <= Wrap(victim.x + h.left)
     /\ Wrap(kicker.x + HB_Width) >= Wrap(victim.x - h.right)
  \/ /\ kicker.what = KickLeft
     /\ Wrap(kicker.x - HB_Width) <= Wrap(victim.x + h.right)
     /\ kicker.x >= Wrap(victim.x - h.left)

\* The foot overlaps the body of the victim sideways, in ten-bit arithmetic.
MeetsAcross(kicker, victim) ==
  LET h == HurtBox(victim.what) IN
  \/ /\ kicker.what = KickRight
     /\ kicker.x <= Wrap(victim.x + h.right)
     /\ Wrap(kicker.x + HB_Width) >= Wrap(victim.x - h.left)
  \/ /\ kicker.what = KickLeft
     /\ Wrap(kicker.x - HB_Width) <= Wrap(victim.x + h.right)
     /\ kicker.x >= Wrap(victim.x - h.left)

\* The foot overlaps the body of the victim vertically.
MeetsDown(kicker, victim) ==
  LET h == HurtBox(victim.what) IN
  /\ kicker.y <= Wrap(victim.y + h.bot)
  /\ Wrap(kicker.y + HB_Height) >= Wrap(victim.y - h.top)

\* Bug: it does not matter who is higher.
Kicks_AnyHeight(kicker, victim) ==
  MeetsAcross(kicker, victim) /\ MeetsDown(kicker, victim)

\* A kick lands on a body that is not above it.
Kicks(kicker, victim) ==
  /\ MeetsAcross(kicker, victim)
  /\ MeetsDown(kicker, victim)
  /\ kicker.y <= victim.y

\* The distances from the middle of the screen.  Player two's tests P1_Y.
P1_DistfromCenter(p1) ==
  IF p1.x > Center THEN Wrap(p1.x - Center) ELSE Wrap(Center - p1.x)

P2_DistfromCenter(p1, p2) ==
  IF p1.y > Center THEN Wrap(p2.x - Center) ELSE Wrap(Center - p2.x)

\* When time has run out the player nearer to the middle scores as well.
WinsOnTime(p1, p2) ==
  [i \in {1, 2} |->
     IF i = 1 THEN P1_DistfromCenter(p1) < P2_DistfromCenter(p1, p2)
              ELSE P2_DistfromCenter(p1, p2) < P1_DistfromCenter(p1)]

\* Bug: the distances count at any time.
Hits_AnyTime(p1, p2, gameTime) ==
  [i \in {1, 2} |->
     (IF i = 1 THEN Kicks(p1, p2) ELSE Kicks(p2, p1)) \/ WinsOnTime(p1, p2)[i]]

\* P1_Hit_Detected and P2_Hit_Detected.
Hits(p1, p2, gameTime) ==
  [i \in {1, 2} |->
     \/ IF i = 1 THEN Kicks(p1, p2) ELSE Kicks(p2, p1)
     \/ gameTime = 0 /\ WinsOnTime(p1, p2)[i]]

-----------------------------------------------------------------------------
(***************************************************************************)
(* What the comparisons stand for: rectangles on an unbounded plane.       *)
(***************************************************************************)
Rectangle(l, r, t, b) == [left |-> l, right |-> r, top |-> t, bottom |-> b]

Overlap(r, s) ==
  /\ r.left <= s.right  /\ s.left <= r.right
  /\ r.top  <= s.bottom /\ s.top  <= r.bottom

\* The foot of a kicker, ahead of the middle of the body and below it.
Foot(p) ==
  IF p.what = KickRight
  THEN Rectangle(p.x, p.x + HB_Width, p.y, p.y + HB_Height)
  ELSE Rectangle(p.x - HB_Width, p.x, p.y, p.y + HB_Height)

Body(p) ==
  LET h == HurtBox(p.what)
  IN  Rectangle(p.x - h.left, p.x + h.right, p.y - h.top, p.y + h.bot)

\* The reflection of a player in the vertical line at x = Center.
Mirror(p) ==
  [x    |-> 2 * Center - p.x,
   y    |-> p.y,
   what |-> IF p.what = KickLeft THEN KickRight
            ELSE IF p.what = KickRight THEN KickLeft ELSE p.what]

=============================================================================
