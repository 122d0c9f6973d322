------------------------------- MODULE Match --------------------------------
(***************************************************************************)
(* The control of a match: the state machine (GameState.sv), the two score *)
(* registers (ScoreRegister.sv) and the four timers (roundtimer.sv), as    *)
(* lab8.sv wires them.  All are clocked by Clk; a step is one edge of it.  *)
(* What the players do reaches the control through P1_Hit_Detected and     *)
(* P2_Hit_Detected only: Lab8 computes them, here they are inputs.         *)
(***************************************************************************)
EXTENDS Signals

CONSTANTS
  SECOND,      \* cycles of Clk in a second: 50,000,000
  HALF_SECOND  \* the period of PauseTimer_4: 25,000,000

\* The counters are 26 bits wide.  A period of one cycle would make the round
\* clock pass through zero.
ASSUME PeriodAssumption ==
  /\ SECOND \in 2 .. 2 ^ 26
  /\ HALF_SECOND \in 2 .. 2 ^ 26

VARIABLES
  State,         \* GameState.sv
  Score,         \* Score of the two ScoreRegisters
  roundTimer,    \* roundtimer    the clock of a round
  koTimer,       \* PauseTimer_2  the KO banner
  readyTimer,    \* PauseTimer_3  the round number
  diveKickTimer  \* PauseTimer_4  the word DIVEKICK

timers == <<roundTimer, koTimer, readyTimer, diveKickTimer>>

vars == <<State, Score, roundTimer, koTimer, readyTimer, diveKickTimer>>

Players == {1, 2}

MaxTime == 15  \* 4'b1111

-----------------------------------------------------------------------------
(***************************************************************************)
(* The timers: internalClk counts the cycles of a period, roundtime the    *)
(* periods.                                                                *)
(***************************************************************************)
Timer(period, times) == [internalClk : 0 .. period - 1, roundtime : times]

Zero == [internalClk |-> 0, roundtime |-> 0]

\* One cycle of a running timer; the last cycle of a period counts it.
Advance(t, period, counting, wrap) ==
  IF t.internalClk = period - 1
  THEN [internalClk |-> 0,
        roundtime   |-> IF counting THEN (t.roundtime + 1) % wrap ELSE t.roundtime]
  ELSE [t EXCEPT !.internalClk = @ + 1]

\* Bug: the clock is not cleared between rounds.
NextRoundTimer_Kept(t, reset, gs) ==
  IF reset \/ gs = Title THEN Zero
  ELSE Advance(t, SECOND, gs = Playing, MaxTime + 1)

\* Bug: the clock is not held at zero on the title screen.
NextRoundTimer_TitleRuns(t, reset, gs) ==
  IF reset \/ gs = Reset_State THEN Zero
  ELSE Advance(t, SECOND, gs = Playing, MaxTime + 1)

\* Bug: seconds are counted whether the round is on or over.
NextRoundTimer_AlwaysCounts(t, reset, gs) ==
  IF reset \/ gs \in {Reset_State, Title} THEN Zero
  ELSE Advance(t, SECOND, TRUE, MaxTime + 1)

(***************************************************************************)
(* The clock of a round runs through the banners but counts seconds only   *)
(* while the round is on.                                                  *)
(***************************************************************************)
NextRoundTimer(t, reset, gs) ==
  IF reset \/ gs \in {Reset_State, Title} THEN Zero
  ELSE Advance(t, SECOND, gs = Playing, MaxTime + 1)

\* Bug: the timer is stopped rather than cleared outside its state.
NextPauseTimer_Held(t, own, period, reset, gs) ==
  IF reset THEN Zero ELSE IF gs = own THEN Advance(t, period, TRUE, 4) ELSE t

\* A pause timer runs in its own state and is cleared in every other.
NextPauseTimer(t, own, period, reset, gs) ==
  IF reset \/ gs # own THEN Zero ELSE Advance(t, period, TRUE, 4)

\* PauseTimer_2 times the KO banner, PauseTimer_3 the round number and
\* PauseTimer_4 the word DIVEKICK.
NextKoTimer(reset) == NextPauseTimer(koTimer, Pause_State_2, SECOND, reset, State)

NextReadyTimer(reset) == NextPauseTimer(readyTimer, Ready_State, SECOND, reset, State)

NextDiveKickTimer(reset) ==
  NextPauseTimer(diveKickTimer, DiveKick_State, HALF_SECOND, reset, State)

\* clocktime of roundtimer: ~roundtime, the seconds left.
gameTime     == MaxTime - roundTimer.roundtime
pauseTime    == koTimer.roundtime
readyTime    == readyTimer.roundtime
DiveKickTime == diveKickTimer.roundtime

-----------------------------------------------------------------------------
\* The score registers count in three bits, so 7 is followed by 0.
ScoreWidth == 8

\* Bug: the increment is not confined to the one cycle of Pause_State.
Increment_AllPause(n, hits) == State \in {Pause_State, Pause_State_2} /\ hits[n]

\* POne_Increment and PTwo_Increment.
Increment(n, hits) == State = Pause_State /\ hits[n]

NextScore(n, reset, hits) ==
  IF reset \/ State = Title THEN 0
  ELSE IF Increment(n, hits) THEN (Score[n] + 1) % ScoreWidth
  ELSE Score[n]

\* Every register other than State, at one edge of Clk.
Registers(reset, hits) ==
  /\ Score'         = [n \in Players |-> NextScore(n, reset, hits)]
  /\ roundTimer'    = NextRoundTimer(roundTimer, reset, State)
  /\ koTimer'       = NextKoTimer(reset)
  /\ readyTimer'    = NextReadyTimer(reset)
  /\ diveKickTimer' = NextDiveKickTimer(reset)

-----------------------------------------------------------------------------
(***************************************************************************)
(* The state machine.  Each action is one branch of its case statement and *)
(* fixes State'; a state is kept until the condition to leave it holds.    *)
(***************************************************************************)
Stay(leave, next) == State' = IF leave THEN next ELSE State

InTitle(key) ==
  /\ State = Title
  /\ Stay(key = GameStart, Ready_State)

InReady ==
  /\ State = Ready_State
  /\ Stay(readyTime = 1, DiveKick_State)

InDiveKick ==
  /\ State = DiveKick_State
  /\ Stay(DiveKickTime = 1, Playing)

\* Bug: the round is only left on a hit.
InPlaying_NoTimeOut(hits) ==
  /\ State = Playing
  /\ Stay(\E n \in Players : hits[n], Pause_State)

InPlaying(hits) ==
  /\ State = Playing
  /\ Stay(gameTime = 0 \/ (\E n \in Players : hits[n]), Pause_State)

InPause ==
  /\ State = Pause_State
  /\ State' = Pause_State_2

InPause2 ==
  /\ State = Pause_State_2
  /\ Stay(pauseTime = 2, Reset_State)

\* Bug: a score beyond five ends the match, too.
FiveReached_OrMore == \E n \in Players : Score[n] >= 5

FiveReached == \E n \in Players : Score[n] = 5

\* The test of the space bar comes last and overrides the test of the scores.
InReset(key) ==
  /\ State = Reset_State
  /\ State' = IF key = GameStart THEN Ready_State
              ELSE IF FiveReached THEN Victory_State
              ELSE Reset_State

InVictory(key) ==
  /\ State = Victory_State
  /\ Stay(key = PoneDive, Title)

\* The reset button, registered once by lab8.sv, sends the machine to Title.
ResetPressed(hits) == State' = Title /\ Registers(TRUE, hits)

Running(key, hits) ==
  /\ Registers(FALSE, hits)
  /\ \/ InTitle(key) \/ InReady \/ InDiveKick \/ InPlaying(hits)
     \/ InPause \/ InPause2 \/ InReset(key) \/ InVictory(key)

-----------------------------------------------------------------------------
\* Power-up: the registers of the device start at zero, and Title is 0.
Init ==
  /\ State = Title
  /\ Score = [n \in Players |-> 0]
  /\ roundTimer = Zero
  /\ koTimer = Zero
  /\ readyTimer = Zero
  /\ diveKickTimer = Zero

\* A hit is only ever detected between the start of a round and its clearing.
HitStates == {Playing, Pause_State, Pause_State_2, Reset_State}

HitInputs ==
  IF State \in HitStates THEN [Players -> BOOLEAN] ELSE {[n \in Players |-> FALSE]}

\* One edge of Clk.  Of the keys the machine reads space and W.
Next ==
  \E hits \in HitInputs :
    \/ ResetPressed(hits)
    \/ \E key \in {NoKey, PoneDive, GameStart} : Running(key, hits)

\* What the control does, and that it goes on: the clock never stops.
Machine == Init /\ [][Next]_vars

Spec == Machine /\ WF_vars(Next)

-----------------------------------------------------------------------------
\* Every register holds a value of its width, every state is one of the machine's.
TypeOK ==
  /\ State \in GameStates
  /\ Score \in [Players -> 0 .. ScoreWidth - 1]
  /\ roundTimer \in Timer(SECOND, 0 .. MaxTime)
  /\ koTimer \in Timer(SECOND, 0 .. 3)
  /\ readyTimer \in Timer(SECOND, 0 .. 3)
  /\ diveKickTimer \in Timer(HALF_SECOND, 0 .. 3)

\* A round starts with all its seconds: no time of an earlier round is left on
\* the clock when the banners are shown, however the earlier round was left
\* (roundtimer.sv:12).
RoundStartsFresh ==
  State \in {Ready_State, DiveKick_State} => roundTimer.roundtime = 0

\* A clock that has run out stays at zero until the scores are in, the banner
\* is over and the round is cleared: GameEngine's verdict reads the clock in
\* Playing, again in Pause_State, where the points are given, and all through
\* the banner (roundtimer.sv:20, "currently playing, increase round time").
ClockOutHolds ==
  [][gameTime = 0 /\ gameTime' # 0 => State = Reset_State \/ State' = Title]_vars

\* What the screen shows of the machine; the registers are cleared a cycle
\* after the title screen appears.
Phase ==
  CASE State = Title -> "Lobby"
    [] State \in {Ready_State, DiveKick_State} -> "Intro"
    [] State \in {Playing, Pause_State} -> "Fight"
    [] State = Pause_State_2 -> "Scored"
    [] State = Reset_State -> "Between"
    [] State = Victory_State -> "Over"

Points == IF State = Title THEN [n \in Players |-> 0] ELSE Score

Rules == INSTANCE MatchRules WITH Goal <- 5, phase <- Phase, score <- Points

\* The machine, its timers and its registers play by the rules of a match: at
\* most one point for each player and round, given at the end of the round;
\* no victory without five points; a new match starts from zero.
ImplementsRules == Rules!Spec

\* Every banner ends: the equality tests against two-bit counters are never
\* stepped over (GameState.sv:45,48,56).
BannersEnd ==
  /\ State = Ready_State   ~> State \in {Playing, Title}
  /\ State = Pause_State_2 ~> State \in {Reset_State, Title}

\* Every round ends, though nobody may ever be hit (GameState.sv:51).
RoundEnds == State = Playing ~> State \in {Pause_State, Title}

\* A match always moves on to its next phase, unless it is called off.
MatchMovesOn == BannersEnd /\ RoundEnds

\* GameState.sv:60, "check scores before going to next state": a match in which
\* a player has five points goes to the victory screen.
MatchEndsAtFive ==
  [][State = Reset_State /\ FiveReached => State' \in {Victory_State, Title}]_vars

=============================================================================
