---------------------------- MODULE EngineInputs ----------------------------
(***************************************************************************)
(* GameEngine and Display driven by every arrangement of two players, in   *)
(* the last second of a round and after it: the players stand still, the   *)
(* clock reaches zero.                                                     *)
(***************************************************************************)
EXTENDS Display

CONSTANTS
  P1Xs,    \* where player one is
  Gaps,    \* player two's x minus player one's
  Ys,      \* heights
  Ground    \* how low a player is who stands

(***************************************************************************)
(* The arrangements keep a box width away from the edges of the ten-bit    *)
(* plane, where a comparison would wrap.                                   *)
(***************************************************************************)
ASSUME OnScreenAssumption ==
  /\ \A x \in P1Xs, gap \in Gaps : {x, x + gap} \subseteq 30 .. Width10 - 31
  /\ Ys \subseteq 44 .. Width10 - 45

VARIABLES p1, p2, gameTime

evars == <<p1, p2, gameTime>>

\* A player is idle only on the floor or a step above it.
Stance == {s \in [y : Ys, what : Pose] : s.what = Idle => s.y >= Ground}

EInit ==
  /\ \E x \in P1Xs, gap \in Gaps, s \in Stance, t \in Stance :
       /\ p1 = [x |-> x, y |-> s.y, what |-> s.what]
       /\ p2 = [x |-> x + gap, y |-> t.y, what |-> t.what]
  /\ gameTime = 1

TimeRunsOut ==
  /\ gameTime = 1
  /\ gameTime' = 0
  /\ UNCHANGED <<p1, p2>>

ENext == TimeRunsOut

ESpec == EInit /\ [][ENext]_evars

-----------------------------------------------------------------------------
Kicking(p) == p.what \in {KickLeft, KickRight}

\* The ten-bit comparisons of GameEngine.sv:116-143 are the geometry of the
\* sprites: a kick is detected exactly when the foot touches a body that is
\* not above it.
KickIsOverlap ==
  \A i \in {1, 2} :
    LET k == IF i = 1 THEN p1 ELSE p2
        v == IF i = 1 THEN p2 ELSE p1
    IN  gameTime > 0 =>
          (Hits(p1, p2, gameTime)[i] <=>
             Kicking(k) /\ Overlap(Foot(k), Body(v)) /\ k.y <= v.y)

\* No side of the screen is favoured: the mirror image of a position has the
\* same hits.  The box tables give the two kicks different widths, which have
\* to be each other's reflections.
MirrorFair ==
  gameTime > 0 => Hits(p1, p2, gameTime) = Hits(Mirror(p1), Mirror(p2), gameTime)

\* Divekick's rule that the higher kick wins: both players are hit at once
\* only when they are kicking at the same height.
DoubleHitIsLevel ==
  gameTime > 0 /\ Hits(p1, p2, gameTime)[1] /\ Hits(p1, p2, gameTime)[2]
    => p1.y = p2.y

\* GameEngine.sv:145-161, "time ran out!!": the player closer to the middle
\* (the smaller DistfromCenter) gets the round, and nobody does at a draw.
Distance(p) == IF p.x > Center THEN p.x - Center ELSE Center - p.x

NearestWins ==
  gameTime = 0 /\ ~Kicking(p1) /\ ~Kicking(p2) =>
    Hits(p1, p2, gameTime) =
      [i \in {1, 2} |-> IF i = 1 THEN Distance(p1) < Distance(p2)
                                 ELSE Distance(p2) < Distance(p1)]

-----------------------------------------------------------------------------
Scene == [state |-> Playing, score |-> <<0, 0>>, time |-> gameTime,
          p1 |-> p1, p2 |-> p2, hits |-> Hits(p1, p2, gameTime)]

\* How many cells beyond the end of its memory a layer reads.
Overrun(layer) ==
  Cell(layer, layer.area.right, layer.area.bottom) + 1 - Cells[layer.kind]

IsNumberTwo(layer) == layer.area.left = 604

\* Wherever the players are, every picture is shown to its last cell and read
\* no further, but for two: the players' rectangle is a row higher than their
\* pictures, and the number of player two is a column wider than its own
\* (Color_Mapper.sv:254, 334, 164; memories of 88 rows and of 16 columns).
PicturesFit ==
  LET layers == Layers(Scene) IN
  \A i \in DOMAIN layers :
    Overrun(layers[i]) = IF layers[i].kind = "fighter" THEN Stride.fighter
                         ELSE IF IsNumberTwo(layers[i]) THEN 1 ELSE 0

\* What GameEngine compares is on the screen: the body that can be hit and the
\* foot that hits lie in the rectangle the player is drawn in, up to the one
\* column to its right that the boxes have and the picture has not.
BodyIsDrawn ==
  \A p \in {p1, p2} :
    LET area  == PlayerLayer(Scene, p, IF p = p1 THEN p2 ELSE p1).area
        Boxes == {Body(p)} \cup (IF Kicking(p) THEN {Foot(p)} ELSE {})
    IN  \A b \in Boxes :
          /\ area.left <= b.left /\ b.right <= area.right + 1
          /\ area.top <= b.top /\ b.bottom <= area.bottom

=============================================================================
