------------------------- MODULE EngineInputs_proofs -------------------------
(***************************************************************************)
(* Theorems about GameEngine, for two players anywhere a box width away    *)
(* from the edges of the ten-bit plane: hit detection is the overlap of    *)
(* two rectangles, of two kicks only level ones hit each other, no side of *)
(* the screen is favoured, and the pictures are read to their ends.        *)
(***************************************************************************)
EXTENDS EngineInputs, TLAPS

\* A result that fits ten bits is kept.
LEMMA WrapFits ==
  ASSUME NEW n \in 0 .. 1023
  PROVE  Wrap(n) = n
BY DEF Wrap, Word10, Width10


\* A body reaches no further than the margin to any side.
LEMMA BoxSizes ==
  ASSUME NEW what \in Pose
  PROVE  \E l \in 27 .. 30, r \in 27 .. 30, t \in 21 .. 44 :
           HurtBox(what) = [top |-> t, bot |-> 44, left |-> l, right |-> r]
<1>1. CASE what = Idle
  <2>1. HurtBox(what) = [top |-> 21, bot |-> 44, left |-> 30, right |-> 30]
    BY <1>1 DEF HurtBox, Idle, Jumping, Falling, KickRight, KickLeft
  <2>2. QED BY <2>1
<1>2. CASE what \in {Jumping, Falling}
  <2>1. HurtBox(what) = [top |-> 38, bot |-> 44, left |-> 28, right |-> 28]
    BY <1>2 DEF HurtBox, Idle, Jumping, Falling, KickRight, KickLeft
  <2>2. QED BY <2>1
<1>3. CASE what = KickRight
  <2>1. HurtBox(what) = [top |-> 44, bot |-> 44, left |-> 27, right |-> 30]
    BY <1>3 DEF HurtBox, Idle, Jumping, Falling, KickRight, KickLeft
  <2>2. QED BY <2>1
<1>4. CASE what = KickLeft
  <2>1. HurtBox(what) = [top |-> 44, bot |-> 44, left |-> 30, right |-> 27]
    BY <1>4 DEF HurtBox, Idle, Jumping, Falling, KickRight, KickLeft
  <2>2. QED BY <2>1
<1>5. QED BY <1>1, <1>2, <1>3, <1>4, SMTT(30) DEF Pose, Idle, Jumping, Falling, KickRight, KickLeft

\* A place on the screen, and a pose.
Somewhere == [x : 30 .. 993, y : 44 .. 979, what : Pose]

\* No comparison wraps on the screen, so a kick is an overlap of rectangles.
LEMMA KickGeometry ==
  ASSUME NEW k \in Somewhere, NEW v \in Somewhere
  PROVE  Kicks(k, v) <=> Kicking(k) /\ Overlap(Foot(k), Body(v)) /\ k.y <= v.y
<1>0. /\ k.x \in 30 .. 993 /\ k.y \in 44 .. 979
      /\ v.x \in 30 .. 993 /\ v.y \in 44 .. 979
  BY DEF Somewhere
<1>kx. PICK kx \in 30 .. 993 : k.x = kx
  BY <1>0
<1>ky. PICK ky \in 44 .. 979 : k.y = ky
  BY <1>0
<1>vx. PICK vx \in 30 .. 993 : v.x = vx
  BY <1>0, SMTT(30)
<1>vy. PICK vy \in 44 .. 979 : v.y = vy
  BY <1>0, SMTT(30)
<1>1. k.x = kx /\ k.y = ky /\ v.x = vx /\ v.y = vy
  BY <1>kx, <1>ky, <1>vx, <1>vy
<1>2. PICK l \in 27 .. 30, r \in 27 .. 30, t \in 21 .. 44 :
        HurtBox(v.what) = [top |-> t, bot |-> 44, left |-> l, right |-> r]
  BY BoxSizes, SMTT(30) DEF Somewhere
<1>3. /\ Wrap(vx + r) = vx + r /\ Wrap(vx - l) = vx - l
      /\ Wrap(kx + 30) = kx + 30 /\ Wrap(kx - 30) = kx - 30
      /\ Wrap(vy + 44) = vy + 44 /\ Wrap(vy - t) = vy - t
      /\ Wrap(ky + 32) = ky + 32
  <2>1. Wrap(vx + r) = vx + r
    <3>1. PICK e \in 0 .. 1023 : e = vx + r
      OBVIOUS
    <3>2. Wrap(e) = e
      BY WrapFits
    <3>3. QED BY <3>1, <3>2
  <2>2. Wrap(vx - l) = vx - l
    <3>1. PICK e \in 0 .. 1023 : e = vx - l
      OBVIOUS
    <3>2. Wrap(e) = e
      BY WrapFits
    <3>3. QED BY <3>1, <3>2
  <2>3. Wrap(kx + 30) = kx + 30
    <3>1. PICK e \in 0 .. 1023 : e = kx + 30
      OBVIOUS
    <3>2. Wrap(e) = e
      BY WrapFits
    <3>3. QED BY <3>1, <3>2
  <2>4. Wrap(kx - 30) = kx - 30
    <3>1. PICK e \in 0 .. 1023 : e = kx - 30
      OBVIOUS
    <3>2. Wrap(e) = e
      BY WrapFits
    <3>3. QED BY <3>1, <3>2
  <2>5. Wrap(vy + 44) = vy + 44
    <3>1. PICK e \in 0 .. 1023 : e = vy + 44
      OBVIOUS
    <3>2. Wrap(e) = e
      BY WrapFits
    <3>3. QED BY <3>1, <3>2
  <2>6. Wrap(vy - t) = vy - t
    <3>1. PICK e \in 0 .. 1023 : e = vy - t
      OBVIOUS
    <3>2. Wrap(e) = e
      BY WrapFits
    <3>3. QED BY <3>1, <3>2
  <2>7. Wrap(ky + 32) = ky + 32
    <3>1. PICK e \in 0 .. 1023 : e = ky + 32
      OBVIOUS
    <3>2. Wrap(e) = e
      BY WrapFits
    <3>3. QED BY <3>1, <3>2
  <2>8. QED BY <2>1, <2>2, <2>3, <2>4, <2>5, <2>6, <2>7
<1>4. Body(v) = [left |-> vx - l, right |-> vx + r, top |-> vy - t, bottom |-> vy + 44]
  BY <1>1, <1>2 DEF Body, Rectangle
<1>5. MeetsDown(k, v) <=> ky <= vy + 44 /\ ky + 32 >= vy - t
  BY <1>1, <1>2, <1>3 DEF MeetsDown, HB_Height
<1>6. CASE k.what = KickRight
  <2>1. MeetsAcross(k, v) <=> kx <= vx + r /\ kx + 30 >= vx - l
    BY <1>1, <1>2, <1>3, <1>6 DEF MeetsAcross, HB_Width, KickRight, KickLeft
  <2>2. Foot(k) = [left |-> kx, right |-> kx + 30, top |-> ky, bottom |-> ky + 32]
    BY <1>1, <1>6 DEF Foot, Rectangle, HB_Width, HB_Height
  <2>3. Overlap(Foot(k), Body(v)) <=> /\ kx <= vx + r /\ vx - l <= kx + 30
                                      /\ ky <= vy + 44 /\ vy - t <= ky + 32
    BY <1>4, <2>2 DEF Overlap
  <2>4. (kx + 30 >= vx - l <=> vx - l <= kx + 30) /\ (ky + 32 >= vy - t <=> vy - t <= ky + 32)
    OBVIOUS
  <2>5. QED BY <1>5, <1>6, <2>1, <2>3, <2>4 DEF Kicks, Kicking
<1>7. CASE k.what = KickLeft
  <2>1. MeetsAcross(k, v) <=> kx - 30 <= vx + r /\ kx >= vx - l
    BY <1>1, <1>2, <1>3, <1>7 DEF MeetsAcross, HB_Width, KickRight, KickLeft
  <2>2. Foot(k) = [left |-> kx - 30, right |-> kx, top |-> ky, bottom |-> ky + 32]
    BY <1>1, <1>7 DEF Foot, Rectangle, HB_Width, HB_Height, KickRight, KickLeft
  <2>3. Overlap(Foot(k), Body(v)) <=> /\ kx - 30 <= vx + r /\ vx - l <= kx
                                      /\ ky <= vy + 44 /\ vy - t <= ky + 32
    BY <1>4, <2>2 DEF Overlap
  <2>4. (kx >= vx - l <=> vx - l <= kx) /\ (ky + 32 >= vy - t <=> vy - t <= ky + 32)
    OBVIOUS
  <2>5. QED BY <1>5, <1>7, <2>1, <2>3, <2>4 DEF Kicks, Kicking
<1>8. CASE ~Kicking(k)
  BY <1>8 DEF Kicks, MeetsAcross, Kicking
<1>9. QED BY <1>6, <1>7, <1>8 DEF Kicking

-----------------------------------------------------------------------------
\* Where the players are put, and that they stay.
Placed == p1 \in Somewhere /\ p2 \in Somewhere

LEMMA StayPlaced == ESpec => []Placed
<1>1. EInit => Placed
  <2> SUFFICES ASSUME EInit PROVE Placed
    OBVIOUS
  <2>1. PICK x \in P1Xs, gap \in Gaps, s \in Stance, t \in Stance :
          /\ p1 = [x |-> x, y |-> s.y, what |-> s.what]
          /\ p2 = [x |-> x + gap, y |-> t.y, what |-> t.what]
    BY DEF EInit
  <2>2. x \in 30 .. 993 /\ x + gap \in 30 .. 993
    BY OnScreenAssumption DEF Width10
  <2>3. ASSUME NEW q \in Stance PROVE q.y \in 44 .. 979 /\ q.what \in Pose
    <3>1. q.y \in Ys /\ q.what \in Pose
      BY DEF Stance
    <3>2. Ys \subseteq 44 .. 979
      BY OnScreenAssumption DEF Width10
    <3>3. QED BY <3>1, <3>2, ZenonT(60)
  <2>4. QED BY <2>1, <2>2, <2>3 DEF Placed, Somewhere
<1>2. Placed /\ [ENext]_evars => Placed'
  BY DEF Placed, ENext, TimeRunsOut, evars
<1>3. QED BY <1>1, <1>2, PTL DEF ESpec

\* Before time runs out a hit is a kick, of either player.
LEMMA HitIsKick ==
  ASSUME gameTime > 0
  PROVE  /\ Hits(p1, p2, gameTime)[1] <=> Kicks(p1, p2)
         /\ Hits(p1, p2, gameTime)[2] <=> Kicks(p2, p1)
BY DEF Hits

\* Hit detection is the geometry of the sprites wherever two players can be seen.
THEOREM HitIsOverlap == ESpec => []KickIsOverlap
<1>1. Placed => KickIsOverlap
  <2> SUFFICES ASSUME Placed, gameTime > 0 PROVE
         /\ Hits(p1, p2, gameTime)[1] <=>
              Kicking(p1) /\ Overlap(Foot(p1), Body(p2)) /\ p1.y <= p2.y
         /\ Hits(p1, p2, gameTime)[2] <=>
              Kicking(p2) /\ Overlap(Foot(p2), Body(p1)) /\ p2.y <= p1.y
    BY DEF KickIsOverlap
  <2>1. QED BY HitIsKick, KickGeometry DEF Placed
<1>2. QED BY <1>1, StayPlaced, PTL

\* Two kicks hit each other only at the same height: the higher kick wins.
THEOREM HigherKickWins == ESpec => []DoubleHitIsLevel
<1>1. Placed => DoubleHitIsLevel
  <2> SUFFICES ASSUME Placed, gameTime > 0, Kicks(p1, p2), Kicks(p2, p1)
               PROVE  p1.y = p2.y
    BY HitIsKick DEF DoubleHitIsLevel
  <2>0. p1.y \in 44 .. 979 /\ p2.y \in 44 .. 979
    BY DEF Placed, Somewhere
  <2>1. PICK a \in 44 .. 979 : p1.y = a
    BY <2>0
  <2>2. PICK b \in 44 .. 979 : p2.y = b
    BY <2>0
  <2>3. a <= b /\ b <= a
    BY <2>1, <2>2 DEF Kicks
  <2>4. a = b
    BY <2>3
  <2>5. QED BY <2>1, <2>2, <2>4
<1>2. QED BY <1>1, StayPlaced, PTL

\* The rectangle a player is drawn in does not wrap either.
LEMMA DrawnArea ==
  ASSUME NEW scene, NEW p \in Somewhere, NEW other
  PROVE  PlayerLayer(scene, p, other).area =
           [left |-> p.x - 30, right |-> p.x + 29, top |-> p.y - 44, bottom |-> p.y + 44]
<1>1. p.x \in 30 .. 993 /\ p.y \in 44 .. 979
  BY DEF Somewhere
<1>x. PICK x \in 30 .. 993 : p.x = x
  BY <1>1
<1>y. PICK y \in 44 .. 979 : p.y = y
  BY <1>1
<1>2. p.x = x /\ p.y = y
  BY <1>x, <1>y
<1>3. Wrap(x - 30) = x - 30 /\ Wrap(x + 30) = x + 30
  <2>1. Wrap(x - 30) = x - 30
    <3>1. PICK e \in 0 .. 1023 : e = x - 30
      OBVIOUS
    <3> QED
      BY <3>1, WrapFits
  <2>2. Wrap(x + 30) = x + 30
    <3>1. PICK e \in 0 .. 1023 : e = x + 30
      OBVIOUS
    <3> QED
      BY <3>1, WrapFits
  <2> QED
    BY <2>1, <2>2
<1>4. Wrap(y - 44) = y - 44 /\ Wrap(y + 44) = y + 44
  <2>1. Wrap(y - 44) = y - 44
    <3>1. PICK e \in 0 .. 1023 : e = y - 44
      OBVIOUS
    <3> QED
      BY <3>1, WrapFits
  <2>2. Wrap(y + 44) = y + 44
    <3>1. PICK e \in 0 .. 1023 : e = y + 44
      OBVIOUS
    <3> QED
      BY <3>1, WrapFits
  <2> QED
    BY <2>1, <2>2
<1>5. x + 30 - 1 = x + 29
  OBVIOUS
<1> QED
  BY <1>2, <1>3, <1>4, <1>5 DEF PlayerLayer, Layer, Rectangle

\* A body and a foot lie in that rectangle, up to the column on its right.
LEMMA BoxesInArea ==
  ASSUME NEW p \in Somewhere,
         NEW area, area = [left |-> p.x - 30, right |-> p.x + 29, top |-> p.y - 44, bottom |-> p.y + 44],
         NEW b, b = Body(p) \/ (Kicking(p) /\ b = Foot(p))
  PROVE  /\ area.left <= b.left /\ b.right <= area.right + 1
         /\ area.top <= b.top /\ b.bottom <= area.bottom
<1>1. p.x \in 30 .. 993 /\ p.y \in 44 .. 979
  BY DEF Somewhere
<1>x. PICK x \in 30 .. 993 : p.x = x
  BY <1>1
<1>y. PICK y \in 44 .. 979 : p.y = y
  BY <1>1
<1>2. p.x = x /\ p.y = y
  BY <1>x, <1>y
<1>3. PICK l \in 27 .. 30, r \in 27 .. 30, t \in 21 .. 44 :
        HurtBox(p.what) = [top |-> t, bot |-> 44, left |-> l, right |-> r]
  BY BoxSizes, SMTT(30) DEF Somewhere
<1>4. area.left = x - 30 /\ area.right = x + 29 /\ area.top = y - 44 /\ area.bottom = y + 44
  BY <1>2
<1>5. CASE b = Body(p)
  <2>1. b = [left |-> x - l, right |-> x + r, top |-> y - t, bottom |-> y + 44]
    BY <1>2, <1>3, <1>5 DEF Body, Rectangle
  <2> QED
    BY <1>4, <2>1
<1>6. CASE b = Foot(p)
  <2>1. b = [left |-> x, right |-> x + 30, top |-> y, bottom |-> y + 32]
        \/ b = [left |-> x - 30, right |-> x, top |-> y, bottom |-> y + 32]
    BY <1>2, <1>6 DEF Foot, Rectangle, HB_Width, HB_Height
  <2> QED
    BY <1>4, <2>1
<1> QED
  BY <1>5, <1>6

\* What can hit and be hit is on the screen, wherever the players are.
THEOREM BoxesAreDrawn == ESpec => []BodyIsDrawn
<1>1. Placed => BodyIsDrawn
  <2> SUFFICES ASSUME Placed, NEW p \in {p1, p2} PROVE
        LET area  == PlayerLayer(Scene, p, IF p = p1 THEN p2 ELSE p1).area
            Boxes == {Body(p)} \cup (IF Kicking(p) THEN {Foot(p)} ELSE {})
        IN  \A b \in Boxes :
              /\ area.left <= b.left /\ b.right <= area.right + 1
              /\ area.top <= b.top /\ b.bottom <= area.bottom
    BY DEF BodyIsDrawn
  <2>1. p \in Somewhere
    BY DEF Placed
  <2> DEFINE area == PlayerLayer(Scene, p, IF p = p1 THEN p2 ELSE p1).area
  <2>2. area = [left |-> p.x - 30, right |-> p.x + 29, top |-> p.y - 44, bottom |-> p.y + 44]
    BY <2>1, DrawnArea
  <2>3. ASSUME NEW b \in {Body(p)} \cup (IF Kicking(p) THEN {Foot(p)} ELSE {})
        PROVE  b = Body(p) \/ (Kicking(p) /\ b = Foot(p))
    OBVIOUS
  <2> HIDE DEF area
  <2>4. \A b \in {Body(p)} \cup (IF Kicking(p) THEN {Foot(p)} ELSE {}) :
          /\ area.left <= b.left /\ b.right <= area.right + 1
          /\ area.top <= b.top /\ b.bottom <= area.bottom
    BY <2>1, <2>2, <2>3, BoxesInArea
  <2> QED
    BY <2>4 DEF area
<1>2. QED BY <1>1, StayPlaced, PTL

-----------------------------------------------------------------------------
(* The mirror *)

\* The reflected pose has the reflected box.
LEMMA MirrorBox ==
  ASSUME NEW p \in Somewhere,
         NEW l \in 27 .. 30, NEW r \in 27 .. 30, NEW t \in 21 .. 44,
         HurtBox(p.what) = [top |-> t, bot |-> 44, left |-> l, right |-> r]
  PROVE  HurtBox(Mirror(p).what) = [top |-> t, bot |-> 44, left |-> r, right |-> l]
<1> DEFINE m == Mirror(p).what
<1>0. /\ p.what \in Pose
      /\ m = IF p.what = KickLeft THEN KickRight ELSE IF p.what = KickRight THEN KickLeft ELSE p.what
  BY DEF Somewhere, Mirror
<1>1. CASE p.what = Idle
  <2>1. HurtBox(p.what) = [top |-> 21, bot |-> 44, left |-> 30, right |-> 30] /\ m = p.what
    BY <1>0, <1>1 DEF HurtBox, Idle, Jumping, Falling, KickRight, KickLeft
  <2> QED
    BY <2>1
<1>2. CASE p.what \in {Jumping, Falling}
  <2>1. HurtBox(p.what) = [top |-> 38, bot |-> 44, left |-> 28, right |-> 28] /\ m = p.what
    BY <1>0, <1>2 DEF HurtBox, Idle, Jumping, Falling, KickRight, KickLeft
  <2> QED
    BY <2>1
<1>3. CASE p.what = KickRight
  <2>1. /\ HurtBox(p.what) = [top |-> 44, bot |-> 44, left |-> 27, right |-> 30]
        /\ HurtBox(m) = [top |-> 44, bot |-> 44, left |-> 30, right |-> 27]
    BY <1>0, <1>3 DEF HurtBox, Idle, Jumping, Falling, KickRight, KickLeft
  <2> QED
    BY <2>1
<1>4. CASE p.what = KickLeft
  <2>1. /\ HurtBox(p.what) = [top |-> 44, bot |-> 44, left |-> 30, right |-> 27]
        /\ HurtBox(m) = [top |-> 44, bot |-> 44, left |-> 27, right |-> 30]
    BY <1>0, <1>4 DEF HurtBox, Idle, Jumping, Falling, KickRight, KickLeft
  <2> QED
    BY <2>1
<1> QED
  BY <1>0, <1>1, <1>2, <1>3, <1>4, SMTT(30) DEF Pose, Idle, Jumping, Falling, KickRight, KickLeft

\* A place whose mirror image is as far from the edges of the plane.
OnScreen == [x : 30 .. 2 * Center - 30, y : 44 .. 979, what : Pose]

LEMMA MirrorPlace ==
  ASSUME NEW p \in OnScreen
  PROVE  p \in Somewhere /\ Mirror(p) \in Somewhere
<1>1. p.x \in 30 .. 610 /\ p.y \in 44 .. 979 /\ p.what \in Pose /\ p = [x |-> p.x, y |-> p.y, what |-> p.what]
  BY DEF OnScreen, Center
<1>2. PICK a \in 30 .. 610 : p.x = a
  BY <1>1
<1>3. p.x \in 30 .. 993 /\ 2 * Center - p.x \in 30 .. 993
  <2>1. a \in 30 .. 993 /\ 640 - a \in 30 .. 993
    OBVIOUS
  <2> QED
    BY <1>2, <2>1 DEF Center
<1>4. p \in Somewhere
  <2>1. [x |-> p.x, y |-> p.y, what |-> p.what] \in Somewhere
    BY <1>1, <1>3 DEF Somewhere
  <2>2. p = [x |-> p.x, y |-> p.y, what |-> p.what]
    BY <1>1
  <2> QED
    BY <2>1, <2>2, Zenon
<1> DEFINE w == IF p.what = KickLeft THEN KickRight ELSE IF p.what = KickRight THEN KickLeft ELSE p.what
<1>5. w \in Pose
  BY <1>1 DEF Pose, Idle, Falling, KickLeft, KickRight
<1> HIDE DEF w
<1>6. [x |-> 2 * Center - p.x, y |-> p.y, what |-> w] \in Somewhere
  BY <1>1, <1>3, <1>5 DEF Somewhere
<1> QED
  BY <1>4, <1>6 DEF Mirror, w

\* A foot reaches a body exactly when its image reaches the body's image.
LEMMA MirrorOverlap ==
  ASSUME NEW k \in OnScreen, NEW v \in OnScreen, Kicking(k)
  PROVE  Overlap(Foot(Mirror(k)), Body(Mirror(v))) <=> Overlap(Foot(k), Body(v))
<1>0. /\ k.x \in 30 .. 610 /\ k.y \in 44 .. 979
      /\ v.x \in 30 .. 610 /\ v.y \in 44 .. 979
  BY DEF OnScreen, Center
<1>kx. PICK kx \in 30 .. 610 : k.x = kx
  BY <1>0
<1>ky. PICK ky \in 44 .. 979 : k.y = ky
  BY <1>0
<1>vx. PICK vx \in 30 .. 610 : v.x = vx
  BY <1>0, SMTT(30)
<1>vy. PICK vy \in 44 .. 979 : v.y = vy
  BY <1>0, SMTT(30)
<1>1. k.x = kx /\ k.y = ky /\ v.x = vx /\ v.y = vy
  BY <1>kx, <1>ky, <1>vx, <1>vy
<1>2. v \in Somewhere /\ v.what \in Pose
  BY MirrorPlace DEF OnScreen
<1>3. PICK l \in 27 .. 30, r \in 27 .. 30, t \in 21 .. 44 :
        HurtBox(v.what) = [top |-> t, bot |-> 44, left |-> l, right |-> r]
  BY <1>2, BoxSizes, Zenon
<1>4. HurtBox(Mirror(v).what) = [top |-> t, bot |-> 44, left |-> r, right |-> l]
  BY <1>2, <1>3, MirrorBox
<1>5. Body(v) = [left |-> vx - l, right |-> vx + r, top |-> vy - t, bottom |-> vy + 44]
  BY <1>1, <1>3 DEF Body, Rectangle
<1>6. Mirror(k).x = 640 - kx /\ Mirror(k).y = ky /\ Mirror(v).x = 640 - vx /\ Mirror(v).y = vy
  BY <1>1 DEF Mirror, Center
<1>7. Body(Mirror(v)) = [left |-> 640 - vx - r, right |-> 640 - vx + l, top |-> vy - t, bottom |-> vy + 44]
  BY <1>4, <1>6 DEF Body, Rectangle
<1>8. CASE k.what = KickRight
  <2>1. Foot(k) = [left |-> kx, right |-> kx + 30, top |-> ky, bottom |-> ky + 32]
    BY <1>1, <1>8 DEF Foot, Rectangle, HB_Width, HB_Height
  <2>2. Mirror(k).what = KickLeft
    BY <1>8 DEF Mirror, KickRight, KickLeft
  <2>3. Foot(Mirror(k)) = [left |-> 640 - kx - 30, right |-> 640 - kx, top |-> ky, bottom |-> ky + 32]
    BY <1>6, <2>2 DEF Foot, Rectangle, HB_Width, HB_Height, KickRight, KickLeft
  <2> QED
    BY <1>5, <1>7, <2>1, <2>3 DEF Overlap
<1>9. CASE k.what = KickLeft
  <2>1. Foot(k) = [left |-> kx - 30, right |-> kx, top |-> ky, bottom |-> ky + 32]
    BY <1>1, <1>9 DEF Foot, Rectangle, HB_Width, HB_Height, KickRight, KickLeft
  <2>2. Mirror(k).what = KickRight
    BY <1>9 DEF Mirror, KickRight, KickLeft
  <2>3. Foot(Mirror(k)) = [left |-> 640 - kx, right |-> 640 - kx + 30, top |-> ky, bottom |-> ky + 32]
    BY <1>6, <2>2 DEF Foot, Rectangle, HB_Width, HB_Height, KickRight, KickLeft
  <2> QED
    BY <1>5, <1>7, <2>1, <2>3 DEF Overlap
<1> QED
  BY <1>8, <1>9 DEF Kicking

LEMMA MirrorKicks ==
  ASSUME NEW k \in OnScreen, NEW v \in OnScreen
  PROVE  Kicks(Mirror(k), Mirror(v)) <=> Kicks(k, v)
<1>1. /\ k \in Somewhere /\ v \in Somewhere
      /\ Mirror(k) \in Somewhere /\ Mirror(v) \in Somewhere
  BY MirrorPlace
<1>2. /\ Kicking(Mirror(k)) <=> Kicking(k)
      /\ Mirror(k).y = k.y /\ Mirror(v).y = v.y
  BY DEF Kicking, Mirror, KickLeft, KickRight
<1>3. Kicks(k, v) <=> Kicking(k) /\ Overlap(Foot(k), Body(v)) /\ k.y <= v.y
  BY <1>1, KickGeometry
<1>4. Kicks(Mirror(k), Mirror(v)) <=>
        Kicking(Mirror(k)) /\ Overlap(Foot(Mirror(k)), Body(Mirror(v))) /\ Mirror(k).y <= Mirror(v).y
  BY <1>1, KickGeometry
<1> QED
  BY <1>2, <1>3, <1>4, MirrorOverlap

\* The players stand where the 640 columns of the screen show all of them.
VisiblePlaces == \A x \in P1Xs, gap \in Gaps : {x, x + gap} \subseteq 30 .. 2 * Center - 30

Visible == p1 \in OnScreen /\ p2 \in OnScreen

\* No side of the screen is favoured, at any place and height on it: the two
\* box tables are each other's reflections (GameEngine.sv:43-112).
THEOREM NoSideFavoured ==
  ASSUME VisiblePlaces
  PROVE  ESpec => []MirrorFair
<1>1. Placed /\ EInit => Visible
  <2> SUFFICES ASSUME Placed, EInit PROVE Visible
    OBVIOUS
  <2>1. PICK x \in P1Xs, gap \in Gaps, s \in Stance, t \in Stance :
          /\ p1 = [x |-> x, y |-> s.y, what |-> s.what]
          /\ p2 = [x |-> x + gap, y |-> t.y, what |-> t.what]
    BY DEF EInit
  <2>2. x \in 30 .. 2 * Center - 30 /\ x + gap \in 30 .. 2 * Center - 30
    BY DEF VisiblePlaces
  <2>3. /\ s.y \in 44 .. 979 /\ s.what \in Pose
        /\ t.y \in 44 .. 979 /\ t.what \in Pose
    <3>1. /\ p1.y = s.y /\ p1.what = s.what
          /\ p2.y = t.y /\ p2.what = t.what
      BY <2>1
    <3>2. /\ p1.y \in 44 .. 979 /\ p1.what \in Pose
          /\ p2.y \in 44 .. 979 /\ p2.what \in Pose
      BY DEF Placed, Somewhere
    <3>3. s.y \in 44 .. 979 /\ s.what \in Pose
      BY <3>1, <3>2
    <3>4. t.y \in 44 .. 979 /\ t.what \in Pose
      BY <3>1, <3>2
    <3> QED
      BY <3>3, <3>4
  <2>4. p1 \in OnScreen
    BY <2>1, <2>2, <2>3 DEF OnScreen
  <2>5. p2 \in OnScreen
    BY <2>1, <2>2, <2>3 DEF OnScreen
  <2> QED
    BY <2>4, <2>5 DEF Visible
<1>2. Visible /\ [ENext]_evars => Visible'
  BY DEF Visible, ENext, TimeRunsOut, evars
<1>3. Visible => MirrorFair
  <2> SUFFICES ASSUME Visible, gameTime > 0
               PROVE  Hits(p1, p2, gameTime) = Hits(Mirror(p1), Mirror(p2), gameTime)
    BY DEF MirrorFair
  <2>1. /\ Kicks(Mirror(p1), Mirror(p2)) <=> Kicks(p1, p2)
        /\ Kicks(Mirror(p2), Mirror(p1)) <=> Kicks(p2, p1)
    BY MirrorKicks DEF Visible
  <2>2. /\ Kicks(Mirror(p1), Mirror(p2)) = Kicks(p1, p2)
        /\ Kicks(Mirror(p2), Mirror(p1)) = Kicks(p2, p1)
    BY <2>1 DEF Kicks
  <2>3. gameTime # 0
    OBVIOUS
  <2> QED
    BY <2>2, <2>3, Zenon DEF Hits
<1> QED
  BY <1>1, <1>2, <1>3, StayPlaced, PTL DEF ESpec

-----------------------------------------------------------------------------
(* The pictures *)

\* What PicturesFit says of one layer.
Fits(layer) ==
  Overrun(layer) = IF layer.kind = "fighter" THEN Stride.fighter
                   ELSE IF IsNumberTwo(layer) THEN 1 ELSE 0

\* What a layer reads follows from its kind and its rectangle.
LEMMA OverrunOf ==
  ASSUME NEW on, NEW kind, NEW what, NEW l, NEW r, NEW t, NEW b
  PROVE  /\ Overrun(Layer(on, kind, what, l, r, t, b)) =
              (r - l) + (b - t) * Stride[kind] + 1 - Cells[kind]
         /\ Layer(on, kind, what, l, r, t, b).kind = kind
         /\ Layer(on, kind, what, l, r, t, b).area.left = l
BY DEF Overrun, Cell, Layer, Rectangle

\* The layers before the circles, and those after them.
Upper(scene) ==
  <<Layer(scene.state = Title, "title", 0, 213, 430, 70, 119),
    Layer(InGame(scene), "player", 0, 20, 100, 20, 41), Layer(InGame(scene), "digit", 1, 102, 117, 20, 37),
    Layer(InGame(scene), "player", 0, 522, 602, 20, 41), Layer(InGame(scene), "digit", 2, 604, 620, 20, 37)>>

Lower(scene) ==
  <<PlayerLayer(scene, scene.p1, scene.p2), PlayerLayer(scene, scene.p2, scene.p1),
    Layer(InGame(scene), "digit", Tens(scene.time), 304, 319, 20, 37),
    Layer(InGame(scene), "digit", Ones(scene.time), 321, 336, 20, 37),
    Layer(InGame(scene) /\ (scene.hits[1] \/ scene.hits[2]), "ko", 0, 283, 355, 60, 94),
    Layer(scene.state = Victory_State, "victory", 0, 200, 438, 60, 94),
    Layer(scene.state = Victory_State, "player", 0, 270, 350, 96, 117),
    Layer(scene.state = Victory_State, "digit", Winner(scene.score), 352, 367, 96, 113),
    Layer(scene.state = Ready_State, "round", 0, 264, 357, 60, 77),
    Layer(scene.state = Ready_State, "digit", RoundNumber(scene.score), 359, 374, 60, 77),
    Layer(scene.state = DiveKick_State, "divekick", 0, 251, 388, 60, 77)>>

LEMMA LayersInParts ==
  ASSUME NEW scene
  PROVE  Layers(scene) = Upper(scene) \o Circles(scene, 1) \o Circles(scene, 2) \o Lower(scene)
BY DEF Layers, Upper, Lower

\* A layer of a fixed size fits, whatever decides whether it is on.
LEMMA FixedFits ==
  ASSUME NEW on, NEW what
  PROVE  /\ Fits(Layer(on, "title", what, 213, 430, 70, 119))
         /\ Fits(Layer(on, "player", what, 20, 100, 20, 41))
         /\ Fits(Layer(on, "digit", what, 102, 117, 20, 37))
         /\ Fits(Layer(on, "player", what, 522, 602, 20, 41))
         /\ Fits(Layer(on, "digit", what, 604, 620, 20, 37))
         /\ Fits(Layer(on, "digit", what, 304, 319, 20, 37))
         /\ Fits(Layer(on, "digit", what, 321, 336, 20, 37))
         /\ Fits(Layer(on, "ko", what, 283, 355, 60, 94))
         /\ Fits(Layer(on, "victory", what, 200, 438, 60, 94))
         /\ Fits(Layer(on, "player", what, 270, 350, 96, 117))
         /\ Fits(Layer(on, "digit", what, 352, 367, 96, 113))
         /\ Fits(Layer(on, "round", what, 264, 357, 60, 77))
         /\ Fits(Layer(on, "digit", what, 359, 374, 60, 77))
         /\ Fits(Layer(on, "divekick", what, 251, 388, 60, 77))
<1>1. /\ Stride["title"] = 218 /\ Cells["title"] = 10900 /\ Stride["player"] = 81 /\ Cells["player"] = 1782
      /\ Stride["ko"] = 73 /\ Cells["ko"] = 2555 /\ Stride["victory"] = 239 /\ Cells["victory"] = 8365
      /\ Stride["round"] = 94 /\ Cells["round"] = 1692 /\ Stride["divekick"] = 138 /\ Cells["divekick"] = 2484
      /\ Stride["digit"] = 16 /\ Cells["digit"] = 288
  BY DEF Stride, Cells
<1>2. Fits(Layer(on, "title", what, 213, 430, 70, 119))
  BY <1>1, OverrunOf DEF Fits, IsNumberTwo
<1>3. Fits(Layer(on, "player", what, 20, 100, 20, 41))
  BY <1>1, OverrunOf DEF Fits, IsNumberTwo
<1>4. Fits(Layer(on, "digit", what, 102, 117, 20, 37))
  BY <1>1, OverrunOf DEF Fits, IsNumberTwo
<1>5. Fits(Layer(on, "player", what, 522, 602, 20, 41))
  BY <1>1, OverrunOf DEF Fits, IsNumberTwo
<1>6. Fits(Layer(on, "digit", what, 604, 620, 20, 37))
  BY <1>1, OverrunOf DEF Fits, IsNumberTwo
<1>7. Fits(Layer(on, "digit", what, 304, 319, 20, 37))
  BY <1>1, OverrunOf DEF Fits, IsNumberTwo
<1>8. Fits(Layer(on, "digit", what, 321, 336, 20, 37))
  BY <1>1, OverrunOf DEF Fits, IsNumberTwo
<1>9. Fits(Layer(on, "ko", what, 283, 355, 60, 94))
  BY <1>1, OverrunOf DEF Fits, IsNumberTwo
<1>10. Fits(Layer(on, "victory", what, 200, 438, 60, 94))
  BY <1>1, OverrunOf DEF Fits, IsNumberTwo
<1>11. Fits(Layer(on, "player", what, 270, 350, 96, 117))
  BY <1>1, OverrunOf DEF Fits, IsNumberTwo
<1>12. Fits(Layer(on, "digit", what, 352, 367, 96, 113))
  BY <1>1, OverrunOf DEF Fits, IsNumberTwo
<1>13. Fits(Layer(on, "round", what, 264, 357, 60, 77))
  BY <1>1, OverrunOf DEF Fits, IsNumberTwo
<1>14. Fits(Layer(on, "digit", what, 359, 374, 60, 77))
  BY <1>1, OverrunOf DEF Fits, IsNumberTwo
<1>15. Fits(Layer(on, "divekick", what, 251, 388, 60, 77))
  BY <1>1, OverrunOf DEF Fits, IsNumberTwo
<1> QED
  BY <1>2, <1>3, <1>4, <1>5, <1>6, <1>7, <1>8, <1>9, <1>10, <1>11, <1>12, <1>13, <1>14, <1>15

\* A circle fits, at any place but that of the second number.
LEMMA CircleFits ==
  ASSUME NEW on, NEW what, NEW x \in Int, x # 604
  PROVE  Fits(Layer(on, "circle", what, x, x + 15, 43, 58))
<1>1. Stride["circle"] = 16 /\ Cells["circle"] = 256
  BY DEF Stride, Cells
<1>2. Overrun(Layer(on, "circle", what, x, x + 15, 43, 58)) = 0
  BY <1>1, OverrunOf
<1> QED
  BY <1>2, OverrunOf DEF Fits, IsNumberTwo

\* A player's rectangle is a row higher than the picture.
LEMMA FighterFits ==
  ASSUME NEW scene, NEW p \in Somewhere, NEW other
  PROVE  Fits(PlayerLayer(scene, p, other))
<1> DEFINE layer == PlayerLayer(scene, p, other)
<1>1. p.x \in 30 .. 993 /\ p.y \in 44 .. 979
  BY DEF Somewhere
<1>2. layer.area = [left |-> p.x - 30, right |-> p.x + 29, top |-> p.y - 44, bottom |-> p.y + 44]
  BY DrawnArea
<1>3. layer.kind = "fighter"
  BY DEF PlayerLayer, Layer
<1>4. Stride["fighter"] = 60 /\ Cells["fighter"] = 5280
  BY DEF Stride, Cells
<1> HIDE DEF layer
<1>5. Cell(layer, layer.area.right, layer.area.bottom) =
        ((p.x + 29) - (p.x - 30)) + ((p.y + 44) - (p.y - 44)) * 60
  BY <1>2, <1>3, <1>4 DEF Cell
<1>6. (p.x + 29) - (p.x - 30) = 59 /\ (p.y + 44) - (p.y - 44) = 88
  <2>1. PICK x \in 30 .. 993 : p.x = x
    BY <1>1
  <2>2. PICK y \in 44 .. 979 : p.y = y
    BY <1>1
  <2>3. (x + 29) - (x - 30) = 59 /\ (y + 44) - (y - 44) = 88
    OBVIOUS
  <2> QED
    BY <2>1, <2>2, <2>3
<1>7. Cell(layer, layer.area.right, layer.area.bottom) = 5339
  BY <1>5, <1>6
<1>8. Fits(layer)
  BY <1>3, <1>4, <1>7 DEF Fits, Overrun
<1> QED
  BY <1>8 DEF layer

LEMMA AllOfConcat ==
  ASSUME NEW S, NEW s \in Seq(S), NEW t \in Seq(S)
  PROVE  s \o t \in Seq(S)
OBVIOUS

\* No layer reads beyond its picture, but for the two that always do.
THEOREM LayersFit == ESpec => []PicturesFit
<1>1. Placed => PicturesFit
  <2> SUFFICES ASSUME Placed PROVE PicturesFit
    OBVIOUS
  <2> DEFINE U == Upper(Scene)
             C == Circles(Scene, 1)
             D == Circles(Scene, 2)
             L == Lower(Scene)
             S == {U[i] : i \in 1..5} \cup {C[i] : i \in 1..5} \cup {D[i] : i \in 1..5} \cup {L[i] : i \in 1..11}
  <2>1. \A i \in 1..5 : Fits(U[i])
    BY FixedFits, SMTT(60) DEF Upper
  <2>2. \A i \in 1..5 : Fits(C[i])
    <3> TAKE i \in 1..5
    <3> DEFINE x == 20 + 19 * (i - 1)
    <3>1. C[i] = Layer(InGame(Scene), "circle", Lit(Scene.score[1], 6 - i), x, x + 15, 43, 58)
      BY DEF Circles
    <3>2. x \in Int /\ x # 604
      OBVIOUS
    <3> HIDE DEF x, C
    <3> QED
      BY <3>1, <3>2, CircleFits
  <2>3. \A i \in 1..5 : Fits(D[i])
    <3> TAKE i \in 1..5
    <3> DEFINE x == 522 + 19 * (i - 1)
    <3>1. D[i] = Layer(InGame(Scene), "circle", Lit(Scene.score[2], i), x, x + 15, 43, 58)
      BY DEF Circles
    <3>2. x \in Int /\ x # 604
      OBVIOUS
    <3> HIDE DEF x, D
    <3> QED
      BY <3>1, <3>2, CircleFits
  <2>4. \A i \in 1..11 : Fits(L[i])
    <3>1. Scene.p1 \in Somewhere /\ Scene.p2 \in Somewhere
      BY DEF Scene, Placed
    <3>2. Fits(L[1]) /\ Fits(L[2])
      BY <3>1, FighterFits DEF Lower
    <3>3. \A i \in 3..11 : Fits(L[i])
      BY FixedFits, SMTT(60) DEF Lower
    <3> QED
      BY <3>2, <3>3
  <2>5. U \in Seq(S) /\ C \in Seq(S) /\ D \in Seq(S) /\ L \in Seq(S)
    BY DEF Upper, Circles, Lower
  <2> HIDE DEF U, C, D, L
  <2>6. \A layer \in S : Fits(layer)
    BY <2>1, <2>2, <2>3, <2>4
  <2> HIDE DEF S
  <2>7. U \o C \o D \o L \in Seq(S)
    BY <2>5, AllOfConcat
  <2>8. Layers(Scene) = U \o C \o D \o L
    BY LayersInParts DEF U, C, D, L
  <2>9. \A i \in DOMAIN Layers(Scene) : Layers(Scene)[i] \in S
    BY <2>7, <2>8
  <2> QED
    BY <2>6, <2>9 DEF PicturesFit, Fits
<1> QED
  BY <1>1, StayPlaced, PTL

=============================================================================
