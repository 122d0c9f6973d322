------------------------------ MODULE Display -------------------------------
(***************************************************************************)
(* Color_Mapper.sv: which picture is shown at which pixel.  The module is  *)
(* combinational.  A scene is what it is given besides the pixel:          *)
(*   state, score, time    the machine, the points and the seconds left    *)
(*   p1, p2                the players, as GameEngine sees them            *)
(*   hits                  the hit wires                                   *)
(* The colours, and the pictures' own contents, are left out: a pixel of a *)
(* picture is opaque or shows what is behind it.                           *)
(***************************************************************************)
EXTENDS GameEngine, Sequences

\* How many cells the memory of each picture has, and how long its rows are.
Cells  == [title |-> 10900, player |-> 1782, ko |-> 2555, victory |-> 8365, round |-> 1692,
           divekick |-> 2484, fighter |-> 5280, digit |-> 288, circle |-> 256]
Stride == [title |-> 218, player |-> 81, ko |-> 73, victory |-> 239, round |-> 94,
           divekick |-> 138, fighter |-> 60, digit |-> 16, circle |-> 16]

\* A picture of some kind is shown in a rectangle of the screen while "on".
Layer(on, kind, what, l, r, t, b) ==
  [on |-> on, kind |-> kind, what |-> what, area |-> Rectangle(l, r, t, b)]

InGame(scene) == scene.state # Title

\* The five circles of a player: the first n are lit, and the last only at five.
Lit(n, i) == IF i = 5 THEN n = 5 ELSE n >= i

\* Player one's circles fill from the right, player two's from the left.
Circles(scene, i) ==
  LET Circle(on, x) == Layer(InGame(scene), "circle", on, x, x + 15, 43, 58)
  IN  IF i = 1 THEN [k \in 1..5 |-> Circle(Lit(scene.score[1], 6 - k), 20 + 19 * (k - 1))]
               ELSE [k \in 1..5 |-> Circle(Lit(scene.score[2], k), 522 + 19 * (k - 1))]

\* A player is drawn around his position.  There are two pictures of each
\* pose: idle and in the air the opponent's side decides between them, and
\* level with the opponent both players show the second one; in a kick its
\* direction does.
SecondPicture(p, other) ==
  IF p.what \in {KickRight, KickLeft} THEN p.what = KickLeft ELSE p.x >= other.x

\* Bug: the last column is included, as it is in every other picture.
PlayerLayer_Inclusive(scene, p, other) ==
  Layer(InGame(scene), "fighter", <<p.what, SecondPicture(p, other)>>,
        Wrap(p.x - 30), Wrap(p.x + 30), Wrap(p.y - 44), Wrap(p.y + 44))

\* Bug: the position is taken for the upper left corner.
PlayerLayer_Corner(scene, p, other) ==
  Layer(InGame(scene), "fighter", <<p.what, SecondPicture(p, other)>>,
        Wrap(p.x), Wrap(p.x + 60) - 1, Wrap(p.y), Wrap(p.y + 88))

PlayerLayer(scene, p, other) ==
  Layer(InGame(scene), "fighter", <<p.what, SecondPicture(p, other)>>,
        Wrap(p.x - 30), Wrap(p.x + 30) - 1, Wrap(p.y - 44), Wrap(p.y + 44))

\* The clock, the number of the winner and that of the round.
Tens(time) == IF time >= 10 THEN 1 ELSE 0
Ones(time) == time % 10
Winner(score) == IF score[1] = 5 THEN 1 ELSE 2
RoundNumber(score) == IF score[1] + score[2] <= 8 THEN score[1] + score[2] + 1 ELSE 0

\* The layers in the order in which they are tried.
Layers(scene) ==
  LET on == InGame(scene) IN
  <<Layer(scene.state = Title, "title", 0, 213, 430, 70, 119),
    Layer(on, "player", 0, 20, 100, 20, 41), Layer(on, "digit", 1, 102, 117, 20, 37),
    Layer(on, "player", 0, 522, 602, 20, 41), Layer(on, "digit", 2, 604, 620, 20, 37)>>
  \o Circles(scene, 1) \o Circles(scene, 2)
  \o <<PlayerLayer(scene, scene.p1, scene.p2), PlayerLayer(scene, scene.p2, scene.p1),
       Layer(on, "digit", Tens(scene.time), 304, 319, 20, 37),
       Layer(on, "digit", Ones(scene.time), 321, 336, 20, 37),
       Layer(on /\ (scene.hits[1] \/ scene.hits[2]), "ko", 0, 283, 355, 60, 94),
       Layer(scene.state = Victory_State, "victory", 0, 200, 438, 60, 94),
       Layer(scene.state = Victory_State, "player", 0, 270, 350, 96, 117),
       Layer(scene.state = Victory_State, "digit", Winner(scene.score), 352, 367, 96, 113),
       Layer(scene.state = Ready_State, "round", 0, 264, 357, 60, 77),
       Layer(scene.state = Ready_State, "digit", RoundNumber(scene.score), 359, 374, 60, 77),
       Layer(scene.state = DiveKick_State, "divekick", 0, 251, 388, 60, 77)>>

\* The cell that is read for a pixel of a layer.
Cell(layer, x, y) == (x - layer.area.left) + (y - layer.area.top) * Stride[layer.kind]

=============================================================================
