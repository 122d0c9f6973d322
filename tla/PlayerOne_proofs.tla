-------------------------- MODULE PlayerOne_proofs --------------------------
(***************************************************************************)
(* Theorems about PlayerOne, for every arena that fits the ten bits of its *)
(* registers and every step size.                                          *)
(***************************************************************************)
EXTENDS PlayerOne, TLAPS

\* A result that fits ten bits is kept.
LEMMA WrapFits ==
  ASSUME NEW n \in 0 .. 1023
  PROVE  Wrap(n) = n
BY DEF Wrap, Word10, Width10

\* A sum beyond the word comes back at the low end.
LEMMA WrapAbove ==
  ASSUME NEW n \in 1024 .. 2047
  PROVE  Wrap(n) = n - 1024
BY DEF Wrap, Width10

\* A register holds ten bits whatever is stored.
LEMMA WrapType ==
  ASSUME NEW n \in Int
  PROVE  Wrap(n) \in Word10
BY DEF Wrap, Word10, Width10

-----------------------------------------------------------------------------

\* The six outcomes of a frame, one per branch of playerone.sv:84-122, with the
\* conditions each of them relies on later.
LEMMA FrameCases ==
  ASSUME NEW p \in Player, NEW dive \in BOOLEAN, NEW kick \in BOOLEAN,
         NEW otherX \in Word10
  PROVE  LET q == Frame(p, dive, kick, otherX) IN
         /\ q.x = Wrap(p.x + p.dx)
         /\ q.y = Wrap(p.y + p.dy)
         /\ \/ AtBottom(p) /\ q.dx = 0 /\ q.dy = Neg(Ball_Y_Step) /\ q.what = Jumping
            \/ AtTop(p) /\ q.dx = p.dx /\ q.dy = Ball_Y_Step /\ q.what = p.what
            \/ /\ ~AtBottom(p) /\ ~AtTop(p) /\ p.what = Jumping
               /\ q.dy = Ball_Y_Step
               /\ \/ q.dx = Neg(Ball_X_Step) /\ q.what = KickLeft
                  \/ q.dx = Ball_X_Step /\ q.what = KickRight
            \/ AtBottom(p) /\ q.dx = 0 /\ q.dy = 0 /\ q.what = Idle
            \/ /\ ~AtBottom(p) /\ ~AtTop(p) /\ p.what \in {KickLeft, KickRight}
               /\ q.dx = 0 /\ q.dy = p.dy /\ q.what = Falling
            \/ /\ ~AtBottom(p) /\ ~AtTop(p)
               /\ q.dx = p.dx /\ q.dy = p.dy /\ q.what = p.what
<1> DEFINE d == Decide(p, dive, kick, otherX)
           q == Frame(p, dive, kick, otherX)
<1>1. /\ q.x = Wrap(p.x + p.dx) /\ q.y = Wrap(p.y + p.dy)
      /\ q.dx = d.dx /\ q.dy = d.dy /\ q.what = d.what
  <2>1. d \in [x : Word10, y : Word10, dx : {d.dx}, dy : {d.dy}, what : {d.what}]
    BY DEF Decide, Jump, Descend, Kick, Land, Cancel, Player
  <2>2. QED BY <2>1 DEF Frame
<1>2. CASE dive /\ AtBottom(p)
  BY <1>1, <1>2 DEF Decide, Jump, Player
<1>3. CASE ~(dive /\ AtBottom(p)) /\ AtTop(p)
  BY <1>1, <1>3 DEF Decide, Descend, Player
<1>4. CASE ~(dive /\ AtBottom(p)) /\ ~AtTop(p) /\ MayKick(p, kick)
  BY <1>1, <1>4 DEF Decide, Kick, MayKick, Player
<1>5. CASE ~(dive /\ AtBottom(p)) /\ ~AtTop(p) /\ ~MayKick(p, kick) /\ AtBottom(p)
  BY <1>1, <1>5 DEF Decide, Land, Player
<1>6. CASE /\ ~AtTop(p) /\ ~MayKick(p, kick) /\ ~AtBottom(p)
           /\ \/ p.what = KickLeft /\ AtLeftWall(p)
              \/ p.what = KickRight /\ AtRightWall(p)
  BY <1>1, <1>6 DEF Decide, Cancel, Player
<1>7. CASE /\ ~AtTop(p) /\ ~MayKick(p, kick) /\ ~AtBottom(p)
           /\ ~ \/ p.what = KickLeft /\ AtLeftWall(p)
                \/ p.what = KickRight /\ AtRightWall(p)
  BY <1>1, <1>7 DEF Decide
<1>8. QED BY <1>2, <1>3, <1>4, <1>5, <1>6, <1>7

-----------------------------------------------------------------------------
\* A step reversed in ten bits.
LEMMA NegValue ==
  ASSUME NEW s \in 1 .. 511
  PROVE  Neg(s) = 1024 - s
<1>1. 1024 - s \in Word10
  BY DEF Word10, Width10
<1>2. QED BY <1>1, WrapFits DEF Neg, Width10

\* Adding the reversed step takes the step away.
LEMMA AddNeg ==
  ASSUME NEW s \in 1 .. 511, NEW y \in Word10, y >= s,
         NEW n, n = y + Neg(s)
  PROVE  Wrap(n) = y - s
<1>1. Neg(s) = 1024 - s
  BY NegValue
<1>2. n \in 1024 .. 2047 /\ n - 1024 = y - s
  BY <1>1 DEF Word10, Width10
<1>3. QED BY <1>2, WrapAbove

\* What the parameters say in the terms of the bounds.
LEMMA Arena ==
  /\ Ball_Y_Step \in 1 .. 511 /\ Ball_Height \in 0 .. 1023 /\ Ball_Y_Max \in 0 .. 1023
  /\ Floor \in 0 .. 1023 /\ Ceiling \in 0 .. 1023 /\ Lowest \in 0 .. 1023
  /\ Highest \in 0 .. 1023
  /\ Floor = Ball_Y_Max - Ball_Height
  /\ Ceiling >= 2 * Ball_Y_Step
  /\ Floor > Ceiling + 2 * Ball_Y_Step
  /\ Lowest = Floor + Ball_Y_Step
  /\ Highest = Ceiling - 2 * Ball_Y_Step
  /\ Lowest + Ball_Height < 1024
<1>1. /\ Ball_Y_Min \in 0 .. 1023 /\ Ball_Y_Max \in 0 .. 1023
      /\ Ball_Height \in 0 .. 1023 /\ Ball_Y_Step \in 1 .. 511
  BY ArenaAssumption, ParameterAssumption DEF Word10, Width10
<1>2. /\ Ball_Y_Min + Ball_Height >= 2 * Ball_Y_Step
      /\ Ball_Y_Min + 2 * Ball_Height + 2 * Ball_Y_Step < Ball_Y_Max
      /\ Ball_Y_Max + Ball_Y_Step < 1024
  BY ArenaAssumption DEF Width10
<1>3. QED BY <1>1, <1>2, SMTT(30) DEF Floor, Ceiling, Lowest, Highest

\* Inside the bounds neither vertical comparison wraps.
LEMMA FloorAndCeiling ==
  ASSUME NEW p, p.y \in 0 .. 1023, p.y <= Lowest
  PROVE  /\ AtBottom(p) <=> p.y >= Floor
         /\ AtTop(p) <=> p.y <= Ceiling
<1>1. PICK y \in 0 .. 1023 : y = p.y /\ y <= Lowest
  BY ZenonT(60)
<1>2. Wrap(y + Ball_Height) = y + Ball_Height
  <2>1. y <= Lowest
    BY <1>1
  <2>2. y + Ball_Height \in 0 .. 1023
    BY <2>1, Arena
  <2>3. QED BY <2>2, WrapFits
<1>3. Wrap(Ball_Y_Min + Ball_Height) = Ceiling
  <2>1. Ball_Y_Min + Ball_Height \in 0 .. 1023
    BY Arena DEF Ceiling
  <2>2. QED BY <2>1, WrapFits DEF Ceiling
<1>4. y + Ball_Height >= Ball_Y_Max <=> y >= Floor
  BY Arena
<1>5. (Wrap(p.y + Ball_Height) >= Ball_Y_Max) <=> (p.y >= Floor)
  BY <1>1, <1>2, <1>4
<1>6. (p.y <= Wrap(Ball_Y_Min + Ball_Height)) <=> (p.y <= Ceiling)
  BY <1>1, <1>3
<1>7. QED BY <1>5, <1>6 DEF AtBottom, AtTop

\* Heights that are whole steps away from the lowest point.
OnSteps(y) == \E k \in 0 .. Width10 : y = Lowest - k * Ball_Y_Step

\* On the steps, above the floor means at least a whole step above it.
LEMMA StepAboveFloor ==
  ASSUME NEW y \in 0 .. 1023, OnSteps(y), y < Floor
  PROVE  y <= Floor - Ball_Y_Step
<1>1. PICK k \in 0 .. 1024 : y = Lowest - k * Ball_Y_Step
  BY DEF OnSteps, Width10
<1>2. PICK m \in Nat :
        /\ m = k * Ball_Y_Step
        /\ k = 0 => m = 0
        /\ k = 1 => m = Ball_Y_Step
        /\ k > 1 => m >= 2 * Ball_Y_Step
  BY Arena
<1>3. y = Lowest - m
  BY <1>1, <1>2
<1>4. k # 0 /\ k # 1
  BY <1>2, <1>3, Arena
<1>5. QED BY <1>2, <1>3, <1>4, Arena

-----------------------------------------------------------------------------
\* The values of the reversed steps: they are neither zero nor the step itself.
LEMMA Steps ==
  /\ Neg(Ball_X_Step) \in Word10 /\ Ball_X_Step \in Word10
  /\ Neg(Ball_Y_Step) \in Word10 /\ Ball_Y_Step \in Word10
  /\ 0 \in Word10
  /\ Neg(Ball_Y_Step) # 0 /\ Neg(Ball_Y_Step) # Ball_Y_Step /\ Ball_Y_Step # 0
<1>1. Ball_X_Step \in 1 .. 511 /\ Ball_Y_Step \in 1 .. 511
  BY ArenaAssumption
<1>2. Neg(Ball_X_Step) = 1024 - Ball_X_Step
  BY <1>1, NegValue
<1>3. Neg(Ball_Y_Step) = 1024 - Ball_Y_Step
  BY <1>1, NegValue
<1>4. QED BY <1>1, <1>2, <1>3 DEF Word10, Width10

\* The starting position satisfies the invariant.
LEMMA StartInv == ball = Start(PlayerNum) => IInv
<1> SUFFICES ASSUME ball = Start(PlayerNum) PROVE IInv
  OBVIOUS
<1>1. Wrap(Ball_Y_Max - Ball_Height) = Floor
  <2>1. Ball_Y_Max - Ball_Height \in 0 .. 1023
    BY Arena
  <2>2. QED BY <2>1, WrapFits DEF Floor
<1>2. /\ ball.y = Floor /\ ball.dx = 0 /\ ball.dy = 0 /\ ball.what = Idle
      /\ ball = [x |-> ball.x, y |-> ball.y, dx |-> ball.dx, dy |-> ball.dy,
                 what |-> ball.what]
      /\ ball.x \in Word10
  BY <1>1, ArenaAssumption, ParameterAssumption DEF Start
<1>3. /\ Floor \in Highest + 1 .. Lowest
      /\ Floor = Lowest - 1 * Ball_Y_Step
      /\ Floor >= Floor - Ball_Y_Step
  BY Arena DEF Word10, Width10
<1>4. TypeOK
  <2>1. Floor \in Word10 /\ 0 \in Word10 /\ Idle \in Pose
    BY Arena DEF Word10, Width10, Pose, Idle, Falling
  <2>2. QED BY <1>2, <2>1 DEF TypeOK, Player
<1>5. VerticalBounds
  BY <1>2, <1>3 DEF VerticalBounds
<1>6. PoseMatchesMotion
  BY <1>2 DEF PoseMatchesMotion, Idle, Jumping, KickRight, KickLeft, Falling
<1>7. WholeSteps
  BY <1>2, <1>3 DEF WholeSteps, Width10
<1>8. Momentum /\ IdleIsLow
  BY <1>2, <1>3, Steps DEF Momentum, IdleIsLow
<1>9. QED BY <1>4, <1>5, <1>6, <1>7, <1>8 DEF IInv

(***************************************************************************)
(* Where a player is after a frame, by the motion it had: within the       *)
(* bounds, on the steps, and at most one of them away.                     *)
(***************************************************************************)
\* At rest it stays.
LEMMA StayPut ==
  ASSUME NEW y \in 0 .. 1023
  PROVE  Wrap(y + 0) = y
<1>1. y + 0 = y /\ y \in Word10
  BY DEF Word10, Width10
<1>2. QED BY <1>1, WrapFits

\* From the floor or above it a step down ends at the lowest point at most.
LEMMA GoDown ==
  ASSUME NEW y \in 0 .. 1023, y > Highest, y <= Floor, OnSteps(y)
  PROVE  /\ Wrap(y + Ball_Y_Step) = y + Ball_Y_Step
         /\ y + Ball_Y_Step \in 0 .. 1023
         /\ y + Ball_Y_Step > Highest /\ y + Ball_Y_Step <= Lowest
         /\ OnSteps(y + Ball_Y_Step)
<1>1. PICK k \in 0 .. 1024 : y = Lowest - k * Ball_Y_Step
  BY DEF OnSteps, Width10
<1>2. y + Ball_Y_Step \in 0 .. 1023 /\ y + Ball_Y_Step <= Lowest
  BY Arena
<1>3. Wrap(y + Ball_Y_Step) = y + Ball_Y_Step
  BY <1>2, WrapFits DEF Word10, Width10
<1>4. PICK m \in Nat :
        /\ m = k * Ball_Y_Step /\ m - Ball_Y_Step = (k - 1) * Ball_Y_Step
        /\ k = 0 => m = 0
  BY Arena
<1>5. k - 1 \in 0 .. 1024 /\ y + Ball_Y_Step = Lowest - (k - 1) * Ball_Y_Step
  <2>1. y = Lowest - m
    BY <1>1, <1>4
  <2>2. k # 0
    BY <1>4, <2>1, Arena
  <2>3. y + Ball_Y_Step = Lowest - (m - Ball_Y_Step)
    BY <2>1, Arena
  <2>4. QED BY <1>4, <2>2, <2>3
<1>6. OnSteps(y + Ball_Y_Step)
  BY <1>5 DEF OnSteps, Width10
<1>7. QED BY <1>2, <1>3, <1>6, Arena

\* A step up from less than a step under the ceiling stays below the highest point.
LEMMA GoUp ==
  ASSUME NEW y \in 0 .. 1023, y > Ceiling - Ball_Y_Step, y <= Lowest, OnSteps(y)
  PROVE  /\ Wrap(y + Neg(Ball_Y_Step)) = y - Ball_Y_Step
         /\ y - Ball_Y_Step \in 0 .. 1023
         /\ y - Ball_Y_Step > Highest /\ y - Ball_Y_Step <= Lowest
         /\ OnSteps(y - Ball_Y_Step)
<1>1. PICK k \in 0 .. 1024 : y = Lowest - k * Ball_Y_Step
  BY DEF OnSteps, Width10
<1>2. /\ y - Ball_Y_Step \in 0 .. 1023 /\ y >= Ball_Y_Step
      /\ y - Ball_Y_Step > Highest /\ y - Ball_Y_Step <= Lowest
  BY Arena
<1>3. Wrap(y + Neg(Ball_Y_Step)) = y - Ball_Y_Step
  <2>1. Neg(Ball_Y_Step) = 1024 - Ball_Y_Step
    BY Arena, NegValue
  <2>2. PICK n \in 1024 .. 2047 : n = y + (1024 - Ball_Y_Step) /\ n - 1024 = y - Ball_Y_Step
    BY <1>2, Arena
  <2>3. QED BY <2>1, <2>2, WrapAbove
<1>4. PICK m \in Nat :
        /\ m = k * Ball_Y_Step /\ m + Ball_Y_Step = (k + 1) * Ball_Y_Step
        /\ m >= k
  BY Arena
<1>5. k + 1 \in 0 .. 1024 /\ y - Ball_Y_Step = Lowest - (k + 1) * Ball_Y_Step
  <2>1. y = Lowest - m
    BY <1>1, <1>4
  <2>2. m + Ball_Y_Step <= 1023 /\ y - Ball_Y_Step = Lowest - (m + Ball_Y_Step)
    BY <1>2, <2>1, Arena
  <2>3. k + 1 <= 1023
    <3>1. m >= k
      BY <1>4
    <3>2. QED BY <2>2, <3>1, Arena
  <2>4. QED BY <1>4, <2>2, <2>3
<1>6. OnSteps(y - Ball_Y_Step)
  BY <1>5 DEF OnSteps, Width10
<1>7. QED BY <1>2, <1>3, <1>6

-----------------------------------------------------------------------------
\* Where a frame takes a player whose registers satisfy the invariant.
LEMMA NextHeight ==
  ASSUME IInv,
         NEW dive \in BOOLEAN, NEW kick \in BOOLEAN, NEW otherX \in Word10,
         ball' = Frame(ball, dive, kick, otherX)
  PROVE  /\ ball.y \in 0 .. 1023 /\ ball'.y \in 0 .. 1023
         /\ AtBottom(ball) <=> ball.y >= Floor
         /\ AtTop(ball) <=> ball.y <= Ceiling
         /\ ball.y < Floor => ball.y <= Floor - Ball_Y_Step
         /\ ball'.y > Highest /\ ball'.y <= Lowest /\ OnSteps(ball'.y)
         /\ \/ ball.dy = 0 /\ ball'.y = ball.y
            \/ ball.dy = Ball_Y_Step /\ ball'.y = ball.y + Ball_Y_Step
            \/ ball.dy = Neg(Ball_Y_Step) /\ ball'.y = ball.y - Ball_Y_Step
<1>1. /\ ball.y \in 0 .. 1023 /\ ball.y > Highest /\ ball.y <= Lowest
      /\ OnSteps(ball.y)
  <2>1. ball.y \in 0 .. 1023
    BY DEF IInv, TypeOK, Player, Word10, Width10
  <2>2. ball.y > Highest /\ ball.y <= Lowest
    BY Arena DEF IInv, VerticalBounds
  <2>3. OnSteps(ball.y)
    BY DEF IInv, WholeSteps, OnSteps
  <2>4. QED BY <2>1, <2>2, <2>3
<1>2. /\ AtBottom(ball) <=> ball.y >= Floor
      /\ AtTop(ball) <=> ball.y <= Ceiling
  BY <1>1, FloorAndCeiling
<1>3. PICK y \in 0 .. 1023 :
        /\ y = ball.y /\ y > Highest /\ y <= Lowest /\ OnSteps(y)
        /\ AtBottom(ball) <=> y >= Floor
        /\ AtTop(ball) <=> y <= Ceiling
  BY <1>1, <1>2, ZenonT(60)
<1>4. /\ ball \in Player
      /\ ball.dy \in {0, Ball_Y_Step, Neg(Ball_Y_Step)}
      /\ ball.dy = Neg(Ball_Y_Step) => y > Ceiling - Ball_Y_Step
      /\ ball.dy = Ball_Y_Step => y <= Floor
  BY <1>3 DEF IInv, TypeOK, Momentum
<1>5. /\ y < Floor => y <= Floor - Ball_Y_Step
      /\ y > Highest /\ y <= Lowest /\ OnSteps(y)
  BY <1>3, StepAboveFloor, ZenonT(60)
<1>6. ball'.y = Wrap(y + ball.dy)
  BY <1>3, <1>4, FrameCases
<1>7. CASE ball.dy = 0
  <2>1. ball'.y = y
    BY <1>6, <1>7, StayPut
  <2>2. QED BY <1>3, <1>5, <1>7, <2>1
<1>8. CASE ball.dy = Ball_Y_Step
  <2>1. /\ Wrap(y + Ball_Y_Step) = y + Ball_Y_Step
        /\ y + Ball_Y_Step \in 0 .. 1023
        /\ y + Ball_Y_Step > Highest /\ y + Ball_Y_Step <= Lowest
        /\ OnSteps(y + Ball_Y_Step)
    <3>1. y <= Floor
      BY <1>4, <1>8
    <3>2. QED BY <1>5, <3>1, GoDown, ZenonT(60)
  <2>2. ball'.y = y + Ball_Y_Step
    BY <1>6, <1>8, <2>1
  <2>3. /\ ball'.y \in 0 .. 1023 /\ ball'.y > Highest /\ ball'.y <= Lowest
        /\ OnSteps(ball'.y) /\ ball'.y = ball.y + Ball_Y_Step
    BY <1>3, <2>1, <2>2
  <2>4. QED BY <1>3, <1>5, <1>8, <2>3
<1>9. CASE ball.dy = Neg(Ball_Y_Step)
  <2>1. /\ Wrap(y + Neg(Ball_Y_Step)) = y - Ball_Y_Step
        /\ y - Ball_Y_Step \in 0 .. 1023
        /\ y - Ball_Y_Step > Highest /\ y - Ball_Y_Step <= Lowest
        /\ OnSteps(y - Ball_Y_Step)
    <3>1. y > Ceiling - Ball_Y_Step
      BY <1>4, <1>9
    <3>2. QED BY <1>5, <3>1, GoUp, ZenonT(60)
  <2>2. ball'.y = y - Ball_Y_Step
    BY <1>6, <1>9, <2>1
  <2>3. /\ ball'.y \in 0 .. 1023 /\ ball'.y > Highest /\ ball'.y <= Lowest
        /\ OnSteps(ball'.y) /\ ball'.y = ball.y - Ball_Y_Step
    BY <1>3, <2>1, <2>2
  <2>4. QED BY <1>3, <1>5, <1>9, <2>3
<1>10. \/ ball.dy = 0
       \/ ball.dy = Ball_Y_Step
       \/ ball.dy = Neg(Ball_Y_Step)
  BY <1>4, ZenonT(60)
<1>11. QED BY <1>7, <1>8, <1>9, <1>10, ZenonT(60)

\* A frame keeps the invariant, whatever keys are down and wherever the opponent is.
LEMMA FrameInv ==
  ASSUME IInv,
         NEW dive \in BOOLEAN, NEW kick \in BOOLEAN, NEW otherX \in Word10,
         ball' = Frame(ball, dive, kick, otherX)
  PROVE  IInv'
<1> DEFINE S == Ball_Y_Step
           U == Neg(Ball_Y_Step)
<1>0. /\ ball.y \in 0 .. 1023 /\ ball'.y \in 0 .. 1023
      /\ AtBottom(ball) <=> ball.y >= Floor
      /\ AtTop(ball) <=> ball.y <= Ceiling
      /\ ball.y < Floor => ball.y <= Floor - Ball_Y_Step
      /\ ball'.y > Highest /\ ball'.y <= Lowest /\ OnSteps(ball'.y)
      /\ \/ ball.dy = 0 /\ ball'.y = ball.y
         \/ ball.dy = Ball_Y_Step /\ ball'.y = ball.y + Ball_Y_Step
         \/ ball.dy = Neg(Ball_Y_Step) /\ ball'.y = ball.y - Ball_Y_Step
  BY NextHeight
<1>y. PICK y \in 0 .. 1023 : y = ball.y
  BY <1>0
<1>z. PICK z \in 0 .. 1023 : z = ball'.y
  BY <1>0, SMTT(30)
<1>1. /\ y = ball.y /\ z = ball'.y
      /\ AtBottom(ball) <=> y >= Floor
      /\ AtTop(ball) <=> y <= Ceiling
      /\ y < Floor => y <= Floor - Ball_Y_Step
      /\ z > Highest /\ z <= Lowest /\ OnSteps(z)
      /\ \/ ball.dy = 0 /\ z = y
         \/ ball.dy = Ball_Y_Step /\ z = y + Ball_Y_Step
         \/ ball.dy = Neg(Ball_Y_Step) /\ z = y - Ball_Y_Step
  BY <1>0, <1>y, <1>z
<1>2. ball \in Player
  BY DEF IInv, TypeOK
<1>3. \/ AtBottom(ball) /\ ball'.dx = 0 /\ ball'.dy = U /\ ball'.what = Jumping
      \/ AtTop(ball) /\ ball'.dx = ball.dx /\ ball'.dy = S /\ ball'.what = ball.what
      \/ /\ ~AtBottom(ball) /\ ~AtTop(ball) /\ ball.what = Jumping
         /\ ball'.dy = S
         /\ \/ ball'.dx = Neg(Ball_X_Step) /\ ball'.what = KickLeft
            \/ ball'.dx = Ball_X_Step /\ ball'.what = KickRight
      \/ AtBottom(ball) /\ ball'.dx = 0 /\ ball'.dy = 0 /\ ball'.what = Idle
      \/ /\ ~AtBottom(ball) /\ ~AtTop(ball) /\ ball.what \in {KickLeft, KickRight}
         /\ ball'.dx = 0 /\ ball'.dy = ball.dy /\ ball'.what = Falling
      \/ /\ ~AtBottom(ball) /\ ~AtTop(ball)
         /\ ball'.dx = ball.dx /\ ball'.dy = ball.dy /\ ball'.what = ball.what
  BY <1>2, FrameCases
<1>4. ball'.x = Wrap(ball.x + ball.dx) /\ ball' \in [x : {ball'.x}, y : {ball'.y},
        dx : {ball'.dx}, dy : {ball'.dy}, what : {ball'.what}]
  BY <1>2, ZenonT(60) DEF Frame, Decide, Jump, Descend, Kick, Land, Cancel, Player
<1>5. TypeOK'
  <2>1. ball'.x \in Word10
    BY <1>2, <1>4, WrapType DEF Player, Word10
  <2>2. ball'.y \in Word10
    BY <1>1 DEF Word10, Width10
  <2>3. /\ ball'.dx \in Word10 /\ ball'.dy \in Word10 /\ ball'.what \in Pose
    BY <1>2, <1>3, Steps DEF Player, Pose, Idle, Jumping, KickLeft, KickRight, Falling
  <2>4. QED BY <1>4, <2>1, <2>2, <2>3 DEF TypeOK, Player
<1>6. VerticalBounds'
  BY <1>1, Arena DEF VerticalBounds
<1>7. PoseMatchesMotion'
  <2>1. PoseMatchesMotion /\ (ball.what = Idle => y >= Floor - Ball_Y_Step)
    BY <1>1 DEF IInv, IdleIsLow
  <2>2. ball.what = Idle => ~AtTop(ball)
    BY <1>1, <2>1, Arena
  <2>3. QED BY <1>3, <2>1, <2>2 DEF PoseMatchesMotion, Idle, Jumping, KickLeft,
                                    KickRight, Falling
<1>8. WholeSteps'
  BY <1>1 DEF WholeSteps, OnSteps
<1>9. Momentum'
  <2>1. S \in 1 .. 511 /\ U # S /\ U # 0
    BY Arena, Steps
  <2>2. /\ ball.what \in {KickLeft, KickRight} => ball.dy = S
        /\ ball.dy \in {0, S, U}
    BY DEF IInv, PoseMatchesMotion, Momentum
  <2>3. CASE AtBottom(ball) /\ ball'.dy = U
    BY <1>1, <2>1, <2>3, Arena DEF Momentum
  <2>4. CASE AtTop(ball) /\ ball'.dy = S
    BY <1>1, <2>1, <2>4, Arena DEF Momentum
  <2>5. CASE ~AtBottom(ball) /\ ball'.dy = S
    BY <1>1, <2>1, <2>5, Arena DEF Momentum
  <2>6. CASE ball'.dy = 0
    BY <2>1, <2>6 DEF Momentum
  <2>7. CASE ~AtTop(ball) /\ ball'.dy = U /\ ball.dy = U
    BY <1>1, <2>1, <2>7, Arena DEF Momentum
  <2>8. QED BY <1>3, <2>2, <2>3, <2>4, <2>5, <2>6, <2>7
<1>10. IdleIsLow'
  <2>1. ball'.what = Idle => \/ AtBottom(ball)
                             \/ ball.what = Idle
    BY <1>3 DEF Idle, Jumping, KickLeft, KickRight, Falling
  <2>2. ball.what = Idle => y >= Floor - S /\ z = y
    BY <1>1, Steps DEF IInv, IdleIsLow, PoseMatchesMotion
  <2>3. AtBottom(ball) => z >= Floor - S
    BY <1>1, Arena
  <2>4. QED BY <1>1, <2>1, <2>2, <2>3 DEF IdleIsLow
<1>11. QED BY <1>5, <1>6, <1>7, <1>8, <1>9, <1>10 DEF IInv

-----------------------------------------------------------------------------
\* A step keeps the invariant, or it sets a round up again.
LEMMA StepInv == IInv /\ [Next]_vars => IInv' \/ Init'
<1> SUFFICES ASSUME IInv, [Next]_vars PROVE IInv' \/ Init'
  OBVIOUS
<1>1. CASE SetUp
  BY <1>1 DEF SetUp, NextPlayer, Init
<1>2. CASE PlayFrame
  <2>1. PICK key \in {"none", "dive", "kick"}, otherX \in OtherXs :
          ball' = Frame(ball, key = "dive", key = "kick", otherX)
    BY <1>2 DEF PlayFrame, NextPlayer, Playing, Title, Reset_State
  <2>2. otherX \in Word10 /\ (key = "dive") \in BOOLEAN /\ (key = "kick") \in BOOLEAN
    BY ArenaAssumption
  <2>3. QED BY <2>1, <2>2, FrameInv
<1>3. CASE UNCHANGED vars
  BY <1>3 DEF vars, IInv, TypeOK, VerticalBounds, PoseMatchesMotion, WholeSteps,
              Momentum, IdleIsLow
<1>4. QED BY <1>1, <1>2, <1>3 DEF Next

\* The invariant behind the bounds holds in every state of play.
THEOREM Inductive == Spec => []IInv
<1>1. Init => IInv
  BY StartInv DEF Init
<1>2. QED BY <1>1, StepInv, PTL DEF Spec

\* Every register keeps a value of its width, whatever the arena and the keys.
THEOREM TypeCorrect == Spec => []TypeOK
<1>1. IInv => TypeOK
  BY DEF IInv
<1>2. QED BY <1>1, Inductive, PTL

\* No player leaves the arena through the ceiling or the floor, in any arena
\* that fits its registers and with any step that fits the arena.
THEOREM StaysInBounds == Spec => []VerticalBounds
<1>1. IInv => VerticalBounds
  BY DEF IInv
<1>2. QED BY <1>1, Inductive, PTL

\* The pose that is shown and hit-tested is always the one that is moved.
THEOREM PoseIsMotion == Spec => []PoseMatchesMotion
<1>1. IInv => PoseMatchesMotion
  BY DEF IInv
<1>2. QED BY <1>1, Inductive, PTL

\* Who is idle has come down to the last step above the floor.
THEOREM IdleNearFloor == Spec => []IdleIsLow
<1>1. IInv => IdleIsLow
  BY DEF IInv
<1>2. QED BY <1>1, Inductive, PTL

(***************************************************************************)
(* A kick is never turned or replaced in the air: of the six outcomes of a *)
(* frame only a jump and a landing change the pose of a kick to something  *)
(* else than a fall, and both start on the floor.                          *)
(***************************************************************************)
THEOREM KickIsCommitted == Spec => KickCommitted
<1>1. IInv /\ [Next]_vars =>
        [ /\ ball.what \in {KickLeft, KickRight, Falling}
          /\ ball'.what # ball.what
          => ball'.what = Falling \/ AtBottom(ball) \/ ball' = Start(PlayerNum) ]_vars
  <2> SUFFICES ASSUME IInv, Next,
                      ball.what \in {KickLeft, KickRight, Falling},
                      ball'.what # ball.what
               PROVE  ball'.what = Falling \/ AtBottom(ball) \/ ball' = Start(PlayerNum)
    BY DEF vars
  <2>1. CASE SetUp
    BY <2>1 DEF SetUp, NextPlayer
  <2>2. CASE PlayFrame
    <3>1. PICK key \in {"none", "dive", "kick"}, otherX \in OtherXs :
            ball' = Frame(ball, key = "dive", key = "kick", otherX)
      BY <2>2 DEF PlayFrame, NextPlayer, Playing, Title, Reset_State
    <3>2. /\ ball \in Player /\ otherX \in Word10
          /\ (key = "dive") \in BOOLEAN /\ (key = "kick") \in BOOLEAN
      BY ArenaAssumption DEF IInv, TypeOK
    <3>3. \/ AtBottom(ball)
          \/ AtTop(ball) /\ ball'.what = ball.what
          \/ ball.what = Jumping
          \/ ball'.what = Falling
          \/ ball'.what = ball.what
      BY <3>1, <3>2, FrameCases, ZenonT(60)
    <3>4. QED BY <3>3 DEF Jumping, KickLeft, KickRight, Falling
  <2>3. QED BY <2>1, <2>2 DEF Next
<1>2. QED BY <1>1, Inductive, PTL DEF Spec, KickCommitted

=============================================================================
