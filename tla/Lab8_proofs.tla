----------------------------- MODULE Lab8_proofs ----------------------------
(***************************************************************************)
(* Theorems about the game as lab8.sv wires it: it plays Match, because    *)
(* the hits it computes are among those that Match allows; and what the    *)
(* players, the machine and the hit detection do together.                 *)
(***************************************************************************)
EXTENDS Lab8, Match_proofs

(***************************************************************************)
(* The inductive invariant.  The players are on their marks from the cycle *)
(* after they were put there until the next round begins, and nobody kicks *)
(* on the title screen, whose first cycle still shows where the last match *)
(* was left: a reset puts the players back at once.                        *)
(***************************************************************************)
PlayersPut ==
  /\ State \in {Ready_State, DiveKick_State, Victory_State} =>
       \A n \in Players : player[n] = Start(n)
  /\ State = Title => \A n \in Players : player[n].what = Idle

LInv ==
  /\ ClockInv
  /\ player \in [Players -> Player]
  /\ PlayersPut
  /\ edge \in BOOLEAN
  /\ key \in Keys

-----------------------------------------------------------------------------
\* A register holds ten bits whatever is stored.
LEMMA WrapType ==
  ASSUME NEW n \in Int
  PROVE  Wrap(n) \in Word10
BY DEF Wrap, Word10, Width10

\* The parameters, and a step either way, are ten-bit words.
LEMMA Parameters ==
  /\ P1_Ball_X_Center \in Word10 /\ P2_Ball_X_Center \in Word10
  /\ Ball_X_Step \in Word10 /\ Ball_Y_Step \in Word10
  /\ Neg(Ball_X_Step) \in Word10 /\ Neg(Ball_Y_Step) \in Word10
  /\ Wrap(Ball_Y_Max - Ball_Height) \in Word10
  /\ 0 \in Word10
<1>1. /\ P1_Ball_X_Center \in Word10 /\ P2_Ball_X_Center \in Word10
      /\ Ball_X_Step \in Word10 /\ Ball_Y_Step \in Word10
      /\ Ball_Y_Max \in Word10 /\ Ball_Height \in Word10
  BY ParameterAssumption
<1>2. /\ Width10 - Ball_X_Step \in Int /\ Width10 - Ball_Y_Step \in Int
      /\ Ball_Y_Max - Ball_Height \in Int
  BY <1>1 DEF Word10, Width10
<1>3. /\ Wrap(Width10 - Ball_X_Step) \in Word10 /\ Wrap(Width10 - Ball_Y_Step) \in Word10
      /\ Wrap(Ball_Y_Max - Ball_Height) \in Word10
  BY <1>2, WrapType
<1>4. 0 \in Word10
  BY DEF Word10, Width10
<1>5. QED BY <1>1, <1>3, <1>4 DEF Neg

LEMMA StartType ==
  ASSUME NEW n \in Players
  PROVE  Start(n) \in Player /\ Start(n).what = Idle
BY Parameters DEF Start, Player, Pose, Idle, Falling

\* A frame leaves a player whose registers have their width.
LEMMA FrameType ==
  ASSUME NEW p \in Player, NEW d \in BOOLEAN, NEW k \in BOOLEAN, NEW otherX
  PROVE  Frame(p, d, k, otherX) \in Player
<1>1. /\ p.x \in Word10 /\ p.y \in Word10 /\ p.dx \in Word10 /\ p.dy \in Word10
  BY DEF Player
<1>2. Wrap(p.x + p.dx) \in Word10 /\ Wrap(p.y + p.dy) \in Word10
  <2>1. \A a, b \in Word10 : a + b \in Int
    BY DEF Word10, Width10
  <2>2. QED BY <1>1, <2>1, WrapType
<1>3. Decide(p, d, k, otherX) \in Player
  <2>1. /\ Jumping \in Pose /\ Idle \in Pose /\ Falling \in Pose
        /\ KickRight \in Pose /\ KickLeft \in Pose
    BY DEF Pose, Idle, Jumping, KickRight, KickLeft, Falling
  <2>2. \A a, b \in Word10, w \in Pose :
          [p EXCEPT !.dx = a, !.dy = b, !.what = w] \in Player
    BY DEF Player
  <2>3. Descend(p) \in Player
    BY Parameters DEF Descend, Player
  <2>4. Jump(p) \in Player /\ Kick(p, otherX) \in Player
    BY <2>1, <2>2, Parameters, Zenon DEF Jump, Kick
  <2>5. Land(p) \in Player /\ Cancel(p) \in Player
    BY <2>1, Parameters DEF Land, Cancel, Player
  <2>6. QED BY <2>3, <2>4, <2>5 DEF Decide
<1>4. QED BY <1>2, <1>3 DEF Frame, Player

\* So does every edge of Clk.
LEMMA PlayersType ==
  ASSUME player \in [Players -> Player], NEW reset \in BOOLEAN, PlayersMove(reset)
  PROVE  player' \in [Players -> Player]
<1>1. ASSUME NEW n \in Players
      PROVE  NextPlayer(n, player[n], reset, State, edge, dive[n], kick[n],
                        player[Other(n)].x) \in Player
  <2>1. player[n] \in Player /\ dive[n] \in BOOLEAN /\ kick[n] \in BOOLEAN
    BY DEF dive, kick
  <2>2. Start(n) \in Player
    BY StartType
  <2>3. Frame(player[n], dive[n], kick[n], player[Other(n)].x) \in Player
    BY <2>1, FrameType
  <2>4. QED BY <2>1, <2>2, <2>3 DEF NextPlayer
<1>2. QED BY <1>1 DEF PlayersMove

-----------------------------------------------------------------------------
(***************************************************************************)
(* The control plays Match as long as the hits are among those that Match  *)
(* allows: outside a round no time is up, and nobody kicks.                *)
(***************************************************************************)
\* Whoever is not in a kick does not hit.
LEMMA NoKickNoHit ==
  ASSUME NEW p, NEW v, p.what = Idle
  PROVE  ~Kicks(p, v)
BY DEF Kicks, MeetsAcross, Idle, KickRight, KickLeft

\* A hit is a fact: the detection always answers yes or no.
LEMMA HitsType == hits \in [Players -> BOOLEAN]
BY DEF hits, Hits, Kicks, MeetsAcross, MeetsDown, WinsOnTime, Players

LEMMA HitsAllowed ==
  ASSUME LInv
  PROVE  hits \in HitInputs
<1>1. CASE State \in HitStates
  BY <1>1, HitsType DEF HitInputs
<1>2. CASE State \notin HitStates
  <2>1. State \in {Title, Ready_State, DiveKick_State, Victory_State}
    BY <1>2 DEF LInv, ClockInv, TypeOK, GameStates, HitStates
  <2>2. gameTime # 0
    <3>1. roundTimer.roundtime = 0
      BY <2>1 DEF LInv, ClockInv, ClearBefore
    <3>2. QED BY <3>1 DEF gameTime, MaxTime
  <2>3. \A n \in Players : player[n].what = Idle
    BY <2>1, StartType DEF LInv, PlayersPut
  <2>4. \A n \in Players : Shown(n).what = Idle
    BY <2>1, <2>3, DistinctStates DEF Shown, Status
  <2>5. ~Kicks(Shown(1), Shown(2)) /\ ~Kicks(Shown(2), Shown(1))
    BY <2>4, NoKickNoHit DEF Players
  <2>6. hits = [n \in Players |-> FALSE]
    BY <2>2, <2>5 DEF hits, Hits, Players
  <2>7. QED BY <1>2, <2>6 DEF HitInputs
<1>3. QED BY <1>1, <1>2

\* Of the five keys the machine reads two.
LEMMA KeysOfTheMachine ==
  ASSUME NEW k \in Keys, NEW h, Running(k, h)
  PROVE  \E j \in {NoKey, PoneDive, GameStart} : Running(j, h)
<1>1. CASE k \in {NoKey, PoneDive, GameStart}
  BY <1>1
<1>2. CASE k \notin {NoKey, PoneDive, GameStart}
  <2>1. k # GameStart /\ k # PoneDive /\ NoKey # GameStart /\ NoKey # PoneDive
    BY <1>2 DEF NoKey, PoneDive, GameStart
  <2>2. /\ InTitle(k) <=> InTitle(NoKey)
        /\ InReset(k) <=> InReset(NoKey)
        /\ InVictory(k) <=> InVictory(NoKey)
    BY <2>1 DEF InTitle, InReset, InVictory
  <2>3. QED BY <2>2 DEF Running
<1>3. QED BY <1>1, <1>2

\* A step of the game is a step of the machine.
LEMMA LStep ==
  ASSUME LInv, [LNext]_lvars
  PROVE  [Next]_vars
<1>1. CASE Tick
  <2>1. Running(key, hits)
    BY <1>1 DEF Tick
  <2>2. QED BY <2>1, HitsAllowed, KeysOfTheMachine DEF LInv, Next
<1>2. CASE Button
  BY <1>2, HitsAllowed DEF Button, Next
<1>3. CASE UNCHANGED lvars
  BY <1>3 DEF lvars, vars
<1>4. QED BY <1>1, <1>2, <1>3 DEF LNext

-----------------------------------------------------------------------------
\* A reset, the title screen and Reset_State put both players on their marks;
\* where no round is on, they stay where they are.
LEMMA PutOrKept ==
  ASSUME LInv, NEW reset \in BOOLEAN, PlayersMove(reset)
  PROVE  /\ reset \/ State \in {Title, Reset_State} =>
              \A n \in Players : player'[n] = Start(n)
         /\ ~reset /\ State \notin {Title, Reset_State} /\ (State # Playing \/ ~edge) =>
              player' = player
<1>1. \A n \in Players :
        player'[n] = NextPlayer(n, player[n], reset, State, edge, dive[n], kick[n],
                                player[Other(n)].x)
  BY DEF PlayersMove
<1>2. ASSUME ~reset, State \notin {Title, Reset_State}, State # Playing \/ ~edge
      PROVE  player' = player
  <2>1. \A n \in Players : player'[n] = player[n]
    BY <1>1, <1>2 DEF NextPlayer
  <2>2. player' \in [Players -> Player] /\ player \in [Players -> Player]
    BY PlayersType DEF LInv
  <2>3. QED BY <2>1, <2>2
<1>3. QED BY <1>1, <1>2 DEF NextPlayer

\* The inputs of the next cycle are an edge or none, and a key or none.
LEMMA InputsType ==
  ASSUME NextInputs
  PROVE  edge' \in BOOLEAN /\ key' \in Keys
<1>1. edge' \in BOOLEAN
  BY DEF NextInputs
<1>2. KeysRead(State', edge') \subseteq Keys
  BY DEF KeysRead, Keys, NoKey, PoneDive, GameStart
<1>3. QED BY <1>1, <1>2 DEF NextInputs

LEMMA LInductive == LInv /\ [LNext]_lvars => LInv'
<1> SUFFICES ASSUME LInv, [LNext]_lvars PROVE LInv'
  OBVIOUS
<1>1. CASE Tick
  <2>1. Running(key, hits) /\ PlayersMove(FALSE) /\ NextInputs
    BY <1>1 DEF Tick
  <2>2. ClockInv'
    BY <2>1, RunningClock DEF LInv
  <2>3. player' \in [Players -> Player]
    BY <2>1, PlayersType DEF LInv
  <2>4. PlayersPut'
    <3>1. State' \in {Ready_State, DiveKick_State, Victory_State} =>
            \/ State \in {Title, Reset_State}
            \/ State \in {Ready_State, DiveKick_State, Victory_State}
      BY <2>1, Transitions, DistinctStates
    <3>2. State' = Title => State \in {Title, Victory_State}
      BY <2>1, Transitions
    <3>3. State \in {Title, Reset_State, Ready_State, DiveKick_State, Victory_State} =>
            \A n \in Players : player'[n] = Start(n)
      BY <2>1, PutOrKept, DistinctStates DEF LInv, PlayersPut
    <3>4. QED BY <3>1, <3>2, <3>3, StartType DEF PlayersPut
  <2>5. QED BY <2>1, <2>2, <2>3, <2>4, InputsType DEF LInv
<1>2. CASE Button
  <2>1. ResetPressed(hits) /\ PlayersMove(TRUE) /\ NextInputs
    BY <1>2 DEF Button
  <2>2. ClockInv'
    BY <2>1, ResetClock DEF LInv
  <2>3. player' \in [Players -> Player]
    BY <2>1, PlayersType DEF LInv
  <2>4. PlayersPut'
    BY <2>1, PutOrKept, StartType DEF PlayersPut
  <2>5. QED BY <2>1, <2>2, <2>3, <2>4, InputsType DEF LInv
<1>3. CASE UNCHANGED lvars
  BY <1>3 DEF lvars, LInv, ClockInv, TypeOK, ClearBefore, LastSecond, PlayersPut
<1>4. QED BY <1>1, <1>2, <1>3 DEF LNext

LEMMA LInitially == LInit => LInv
<1> SUFFICES ASSUME LInit PROVE LInv
  OBVIOUS
<1>1. ClockInv
  BY InitClock DEF LInit
<1>2. player \in [Players -> Player] /\ \A n \in Players : player[n].what = Idle
  <2>1. PowerUp \in Player /\ PowerUp.what = Idle
    BY DEF PowerUp, Player, Word10, Width10, Pose, Idle, Falling
  <2>2. QED BY <2>1 DEF LInit
<1>3. PlayersPut
  BY <1>2, DistinctStates DEF LInit, Init, PlayersPut
<1>4. edge \in BOOLEAN /\ key \in Keys
  BY DEF LInit, Keys
<1>5. QED BY <1>1, <1>2, <1>3, <1>4 DEF LInv

LEMMA LInvariant == LSpec => []LInv
BY LInitially, LInductive, PTL DEF LSpec

-----------------------------------------------------------------------------
\* Nobody is hit outside a round: the assumption Match makes about its inputs
\* is met by the hit detection, though that never looks at the machine.
THEOREM NoHitOutside == LSpec => []HitsOnlyInRound
<1>1. LInv => HitsOnlyInRound
  BY HitsAllowed DEF HitsOnlyInRound
<1>2. QED BY <1>1, LInvariant, PTL

\* The game plays Match: what is proved of the control with hits chosen by
\* nobody holds of the control with the hits of the two players.
THEOREM PlaysMatch == LSpec => Machine
<1>1. LInit => Init
  BY DEF LInit
<1>2. QED BY <1>1, LStep, LInvariant, PTL DEF LSpec, Machine

\* So the game, too, keeps to the rules of a match, ...
THEOREM GamePlaysByTheRules == LSpec => ImplementsRules
BY PlaysMatch, MachineRules, PTL

\* ... and its clock stays out until the round is cleared.
THEOREM GameClockStaysOut == LSpec => ClockOutHolds
BY PlaysMatch, MachineClock, PTL

\* Both players are on their marks, whole, from the announcement of a round to
\* its begin, however the last round or match was left.
THEOREM PutOnTheirMarks == LSpec => []OnTheirMarks
<1>1. LInv => OnTheirMarks
  BY DEF LInv, PlayersPut, OnTheirMarks
<1>2. QED BY <1>1, LInvariant, PTL

-----------------------------------------------------------------------------
(***************************************************************************)
(* The verdict.  Where the players stand still, no new pose is shown and   *)
(* the clock does not reach zero, the hit wires do not move.               *)
(***************************************************************************)
LEMMA SameVerdict ==
  ASSUME player' = player, gameTime' = 0 <=> gameTime = 0,
         State # Playing \/ ~edge, State' # Playing
  PROVE  hits' = hits
<1>1. \A n \in Players : Shown(n)' = Shown(n)
  BY DEF Shown, Status
<1>2. Shown(1)' = Shown(1) /\ Shown(2)' = Shown(2)
  BY <1>1 DEF Players
<1>3. \A p, q : Hits(p, q, gameTime') = Hits(p, q, gameTime)
  BY DEF Hits
<1>4. QED BY <1>2, <1>3 DEF hits

\* The points that are given are those the banner shows as long as it is up.
THEOREM BannerIsRight == LSpec => BannerShowsVerdict
<1>1. LInv /\ [LNext]_lvars =>
        [ /\ State \in {Pause_State, Pause_State_2}
          /\ State' = Pause_State_2
          => hits' = hits ]_lvars
  <2> SUFFICES ASSUME LInv, LNext, State \in {Pause_State, Pause_State_2},
                      State' = Pause_State_2
               PROVE  hits' = hits
    BY DEF lvars
  <2>1. Running(key, hits) /\ PlayersMove(FALSE)
    BY DistinctStates DEF LNext, Tick, Button, ResetPressed
  <2>2. player' = player
    BY <2>1, PutOrKept, DistinctStates
  <2>3. roundTimer'.roundtime = roundTimer.roundtime
    BY <2>1, ClockSteps, DistinctStates DEF LInv, ClockInv, Running, Registers
  <2>4. gameTime' = 0 <=> gameTime = 0
    BY <2>3 DEF gameTime
  <2>5. QED BY <2>2, <2>4, SameVerdict, DistinctStates
<1>2. QED BY <1>1, LInvariant, PTL DEF LSpec, BannerShowsVerdict

\* A round that ends in a quiet cycle is credited to whom the machine saw.
THEOREM VerdictStands == LSpec => QuietVerdictStands
<1>1. LInv /\ [LNext]_lvars =>
        [ /\ State = Playing /\ State' = Pause_State
          /\ ~edge /\ (gameTime' = 0 <=> gameTime = 0)
          => hits' = hits ]_lvars
  <2> SUFFICES ASSUME LInv, LNext, State = Playing, State' = Pause_State, ~edge,
                      gameTime' = 0 <=> gameTime = 0
               PROVE  hits' = hits
    BY DEF lvars
  <2>1. PlayersMove(FALSE)
    BY DistinctStates DEF LNext, Tick, Button, ResetPressed
  <2>2. player' = player
    BY <2>1, PutOrKept, DistinctStates
  <2>3. QED BY <2>2, SameVerdict, DistinctStates
<1>2. QED BY <1>1, LInvariant, PTL DEF LSpec, QuietVerdictStands

=============================================================================
