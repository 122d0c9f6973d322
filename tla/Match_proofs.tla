---------------------------- MODULE Match_proofs ----------------------------
(***************************************************************************)
(* Theorems about Match, for every length of the second: the width of the  *)
(* registers, the round clock, and the refinement of MatchRules.           *)
(***************************************************************************)
EXTENDS MatchTiming, FiniteSetTheorems, TLAPS

\* The periods are proper numbers.
LEMMA Periods ==
  /\ SECOND \in Nat /\ SECOND >= 2
  /\ HALF_SECOND \in Nat /\ HALF_SECOND >= 2
BY PeriodAssumption

\* The states differ.
LEMMA DistinctStates ==
  /\ Title # Ready_State /\ Title # DiveKick_State /\ Title # Playing
  /\ Title # Pause_State /\ Title # Pause_State_2 /\ Title # Reset_State
  /\ Title # Victory_State
  /\ Ready_State # DiveKick_State /\ Ready_State # Playing
  /\ Ready_State # Pause_State /\ Ready_State # Pause_State_2
  /\ Ready_State # Reset_State /\ Ready_State # Victory_State
  /\ DiveKick_State # Playing /\ DiveKick_State # Pause_State
  /\ DiveKick_State # Pause_State_2 /\ DiveKick_State # Reset_State
  /\ DiveKick_State # Victory_State
  /\ Playing # Pause_State /\ Playing # Pause_State_2
  /\ Playing # Reset_State /\ Playing # Victory_State
  /\ Pause_State # Pause_State_2 /\ Pause_State # Reset_State
  /\ Pause_State # Victory_State
  /\ Pause_State_2 # Reset_State /\ Pause_State_2 # Victory_State
  /\ Reset_State # Victory_State
BY DEF Title, Ready_State, DiveKick_State, Playing, Pause_State, Pause_State_2,
       Reset_State, Victory_State

-----------------------------------------------------------------------------
\* A running timer stays within its period and its count.
LEMMA AdvanceType ==
  ASSUME NEW period \in Nat, period >= 2,
         NEW last \in Nat,
         NEW t \in Timer(period, 0 .. last),
         NEW counting \in BOOLEAN
  PROVE  Advance(t, period, counting, last + 1) \in Timer(period, 0 .. last)
<1>1. PICK c \in 0 .. period - 1, r \in 0 .. last :
        t = [internalClk |-> c, roundtime |-> r]
  BY DEF Timer
<1>2. (r + 1) % (last + 1) \in 0 .. last
  OBVIOUS
<1>3. CASE c = period - 1
  BY <1>1, <1>2, <1>3 DEF Advance, Timer
<1>4. CASE c # period - 1
  <2>1. c + 1 \in 0 .. period - 1
    BY <1>4
  <2>2. Advance(t, period, counting, last + 1) = [internalClk |-> c + 1, roundtime |-> r]
    BY <1>1, <1>4 DEF Advance
  <2>3. QED BY <2>1, <2>2 DEF Timer
<1>5. QED BY <1>3, <1>4

\* A pause timer does, too, and so does one that is cleared.
LEMMA PauseTimerType ==
  ASSUME NEW period \in Nat, period >= 2,
         NEW t \in Timer(period, 0 .. 3), NEW own, NEW reset, NEW gs
  PROVE  NextPauseTimer(t, own, period, reset, gs) \in Timer(period, 0 .. 3)
<1>1. Zero \in Timer(period, 0 .. 3)
  BY DEF Zero, Timer
<1>2. Advance(t, period, TRUE, 4) \in Timer(period, 0 .. 3)
  <2>1. Advance(t, period, TRUE, 3 + 1) \in Timer(period, 0 .. 3)
    BY AdvanceType
  <2>2. 3 + 1 = 4
    OBVIOUS
  <2>3. QED BY <2>1, <2>2
<1>3. QED BY <1>1, <1>2 DEF NextPauseTimer

\* An edge of Clk keeps every register other than State within its width.
LEMMA RegistersType ==
  ASSUME TypeOK, NEW reset \in BOOLEAN, NEW hits, Registers(reset, hits)
  PROVE  /\ Score' \in [Players -> 0 .. ScoreWidth - 1]
         /\ roundTimer' \in Timer(SECOND, 0 .. MaxTime)
         /\ koTimer' \in Timer(SECOND, 0 .. 3)
         /\ readyTimer' \in Timer(SECOND, 0 .. 3)
         /\ diveKickTimer' \in Timer(HALF_SECOND, 0 .. 3)
<1>1. Score' \in [Players -> 0 .. ScoreWidth - 1]
  <2>1. ASSUME NEW n \in Players PROVE NextScore(n, reset, hits) \in 0 .. ScoreWidth - 1
    <3>1. PICK s \in 0 .. 7 : s = Score[n]
      BY DEF TypeOK, ScoreWidth
    <3>2. (s + 1) % 8 \in 0 .. 7
      OBVIOUS
    <3>3. QED BY <3>1, <3>2 DEF NextScore, ScoreWidth
  <2>2. QED BY <2>1 DEF Registers
<1>2. roundTimer' \in Timer(SECOND, 0 .. MaxTime)
  <2>1. Zero \in Timer(SECOND, 0 .. MaxTime)
    BY Periods DEF Zero, Timer, MaxTime
  <2>2. MaxTime \in Nat /\ roundTimer \in Timer(SECOND, 0 .. MaxTime)
    BY DEF MaxTime, TypeOK
  <2>3. Advance(roundTimer, SECOND, State = Playing, MaxTime + 1)
          \in Timer(SECOND, 0 .. MaxTime)
    BY <2>2, Periods, AdvanceType
  <2>4. QED BY <2>1, <2>3 DEF Registers, NextRoundTimer
<1>3. /\ koTimer' \in Timer(SECOND, 0 .. 3)
      /\ readyTimer' \in Timer(SECOND, 0 .. 3)
      /\ diveKickTimer' \in Timer(HALF_SECOND, 0 .. 3)
  BY Periods, PauseTimerType
  DEF Registers, TypeOK, NextKoTimer, NextReadyTimer, NextDiveKickTimer
<1>4. QED BY <1>1, <1>2, <1>3

\* The machine only ever enters one of its states.
LEMMA StateType ==
  ASSUME TypeOK, NEW key, NEW hits, Running(key, hits)
  PROVE  State' \in GameStates
BY DEF Running, TypeOK, GameStates, Stay, InTitle, InReady, InDiveKick, InPlaying,
       InPause, InPause2, InReset, InVictory

\* What either kind of step does to the types.
LEMMA ResetType ==
  ASSUME TypeOK, NEW hits, ResetPressed(hits)
  PROVE  TypeOK'
<1>1. State' \in GameStates
  BY DEF ResetPressed, GameStates
<1>2. QED BY <1>1, RegistersType DEF ResetPressed, TypeOK

LEMMA RunningType ==
  ASSUME TypeOK, NEW key, NEW hits, Running(key, hits)
  PROVE  TypeOK'
<1>1. Registers(FALSE, hits)
  BY DEF Running
<1>2. QED BY <1>1, RegistersType, StateType DEF TypeOK

LEMMA InitType == Init => TypeOK
BY Periods DEF Init, TypeOK, GameStates, Timer, Zero, ScoreWidth, MaxTime

LEMMA MachineType == Machine => []TypeOK
<1>1. TypeOK /\ [Next]_vars => TypeOK'
  BY ResetType, RunningType DEF Next, vars, TypeOK
<1>2. QED BY <1>1, InitType, PTL DEF Machine

\* Every register keeps a value of its width and the machine one of its states,
\* however long a second is.
THEOREM TypeCorrect == Spec => []TypeOK
BY MachineType, PTL DEF Spec

-----------------------------------------------------------------------------
(***************************************************************************)
(* The round clock.  It is clear when no round has begun, and when it      *)
(* shows its last second, it has just begun to: the machine leaves Playing *)
(* in that very cycle, a whole second before the four bits would wrap.     *)
(***************************************************************************)
ClearBefore ==
  State \in {Title, Ready_State, DiveKick_State, Victory_State} =>
    roundTimer.roundtime = 0

LastSecond ==
  State = Playing /\ roundTimer.roundtime = MaxTime => roundTimer.internalClk = 0

ClockInv == TypeOK /\ ClearBefore /\ LastSecond

\* The seconds are counted in Playing only, at the end of a second.
LEMMA ClockSteps ==
  ASSUME TypeOK
  PROVE  LET t == NextRoundTimer(roundTimer, FALSE, State) IN
         /\ State \in {Title, Reset_State} => t.roundtime = 0
         /\ State \notin {Title, Reset_State, Playing} =>
              t.roundtime = roundTimer.roundtime
         /\ State = Playing =>
              \/ t.roundtime = roundTimer.roundtime
              \/ /\ t.internalClk = 0
                 /\ roundTimer.internalClk = SECOND - 1
<1>1. roundTimer \in [internalClk : 0 .. SECOND - 1, roundtime : 0 .. MaxTime]
  BY DEF TypeOK, Timer
<1>2. CASE State \in {Title, Reset_State}
  BY <1>1, <1>2, DistinctStates DEF NextRoundTimer, Zero
<1>3. CASE State \notin {Title, Reset_State, Playing}
  BY <1>1, <1>3 DEF NextRoundTimer, Advance
<1>4. CASE State = Playing
  BY <1>1, <1>4, DistinctStates DEF NextRoundTimer, Advance
<1>5. QED BY <1>2, <1>3, <1>4

\* Where the machine can come from.
LEMMA Transitions ==
  ASSUME NEW key, NEW hits, Running(key, hits)
  PROVE  /\ State' \in {Ready_State, DiveKick_State} =>
              State \in {Title, Ready_State, DiveKick_State, Reset_State}
         /\ State' = Title => State \in {Title, Victory_State}
         /\ State' = Victory_State => State \in {Reset_State, Victory_State}
         /\ State' = Playing => \/ State = DiveKick_State
                                \/ State = Playing /\ gameTime # 0
BY DistinctStates DEF Running, Stay, InTitle, InReady, InDiveKick, InPlaying, InPause,
                      InPause2, InReset, InVictory

LEMMA InitClock == Init => ClockInv
BY InitType, DistinctStates DEF Init, ClockInv, ClearBefore, LastSecond, Zero

\* What either kind of step does to the clock, whatever the hits are.
LEMMA ResetClock ==
  ASSUME ClockInv, NEW hits, ResetPressed(hits)
  PROVE  ClockInv'
<1>1. TypeOK'
  BY ResetType DEF ClockInv
<1>2. ClearBefore' /\ LastSecond'
  BY DistinctStates DEF ResetPressed, Registers, NextRoundTimer, Zero, ClearBefore,
                        LastSecond
<1>3. QED BY <1>1, <1>2 DEF ClockInv

LEMMA RunningClock ==
  ASSUME ClockInv, NEW key, NEW hits, Running(key, hits)
  PROVE  ClockInv'
<1> USE DEF ClockInv
<1>1. roundTimer' = NextRoundTimer(roundTimer, FALSE, State)
  BY DEF Running, Registers
<1>2. PICK r \in 0 .. MaxTime : r = roundTimer.roundtime
  BY DEF TypeOK, Timer
<1>3. ClearBefore'
  BY <1>1, ClockSteps, Transitions, DistinctStates DEF ClearBefore
<1>4. LastSecond'
  <2>1. CASE State = DiveKick_State
    <3>1. roundTimer.roundtime = 0 /\ State \notin {Title, Reset_State, Playing}
      BY <2>1, DistinctStates DEF ClearBefore
    <3>2. roundTimer'.roundtime = 0
      BY <1>1, <3>1, ClockSteps
    <3>3. QED BY <3>2 DEF LastSecond, MaxTime
  <2>2. CASE State = Playing /\ gameTime # 0
    <3>1. r # MaxTime
      BY <1>2, <2>2 DEF gameTime, MaxTime
    <3>2. QED BY <1>1, <1>2, <2>2, <3>1, ClockSteps DEF LastSecond
  <2>3. CASE State' # Playing
    BY <2>3 DEF LastSecond
  <2>4. QED BY <2>1, <2>2, <2>3, Transitions
<1>5. QED BY <1>3, <1>4, RunningType

LEMMA ClockInvariant == Machine => []ClockInv
<1>1. ClockInv /\ [Next]_vars => ClockInv'
  <2>1. ClockInv /\ UNCHANGED vars => ClockInv'
    BY DEF ClockInv, TypeOK, ClearBefore, LastSecond, vars
  <2>2. QED BY <2>1, ResetClock, RunningClock DEF Next
<1>2. QED BY <1>1, InitClock, PTL DEF Machine

\* No second of an earlier round is on the clock when a round is announced,
\* however long a second is and however the earlier round was left.
THEOREM FreshRounds == Spec => []RoundStartsFresh
<1>1. ClockInv => RoundStartsFresh
  BY DEF ClockInv, ClearBefore, RoundStartsFresh
<1>2. QED BY <1>1, ClockInvariant, PTL DEF Spec

LEMMA MachineClock == Machine => ClockOutHolds
<1>1. ClockInv /\ [Next]_vars =>
        [gameTime = 0 /\ gameTime' # 0 => State = Reset_State \/ State' = Title]_vars
  <2> SUFFICES ASSUME ClockInv, Next, gameTime = 0, State # Reset_State, State' # Title
               PROVE  gameTime' = 0
    BY DEF vars
  <2>1. PICK r \in 0 .. 15 : r = roundTimer.roundtime
    BY DEF ClockInv, TypeOK, Timer, MaxTime
  <2>2. r = MaxTime
    BY <2>1 DEF gameTime, MaxTime
  <2>3. PICK hits, key : Running(key, hits)
    BY DEF Next, ResetPressed
  <2>4. roundTimer' = NextRoundTimer(roundTimer, FALSE, State)
    BY <2>3 DEF Running, Registers
  <2>5. State # Title
    BY <2>1, <2>2 DEF ClockInv, ClearBefore, MaxTime
  <2>6. roundTimer'.roundtime = r
    <3>1. State = Playing => roundTimer.internalClk # SECOND - 1
      BY <2>1, <2>2, Periods DEF ClockInv, LastSecond
    <3>2. QED BY <2>1, <2>4, <2>5, <3>1, ClockSteps DEF ClockInv
  <2>7. QED BY <2>2, <2>6 DEF gameTime, MaxTime
<1>2. QED BY <1>1, ClockInvariant, PTL DEF Machine, ClockOutHolds

\* A clock that has run out shows zero until the round is cleared: it does not
\* wrap back to fifteen under the verdict that is taken from it.
THEOREM ClockStaysOut == Spec => ClockOutHolds
BY MachineClock, PTL DEF Spec

-----------------------------------------------------------------------------
(***************************************************************************)
(* The refinement of MatchRules: every step of the machine is a step of    *)
(* the rules or changes nothing they know of.                              *)
(***************************************************************************)
\* The phase each state belongs to, before and after a step.
LEMMA Phases ==
  /\ State = Title => Phase = "Lobby"
  /\ State \in {Ready_State, DiveKick_State} => Phase = "Intro"
  /\ State \in {Playing, Pause_State} => Phase = "Fight"
  /\ State = Pause_State_2 => Phase = "Scored"
  /\ State = Reset_State => Phase = "Between"
  /\ State = Victory_State => Phase = "Over"
  /\ State' = Title => Phase' = "Lobby"
  /\ State' \in {Ready_State, DiveKick_State} => Phase' = "Intro"
  /\ State' \in {Playing, Pause_State} => Phase' = "Fight"
  /\ State' = Pause_State_2 => Phase' = "Scored"
  /\ State' = Reset_State => Phase' = "Between"
  /\ State' = Victory_State => Phase' = "Over"
BY DistinctStates DEF Phase

\* The points change in Pause_State and on the way to the title screen only.
LEMMA PointsKept ==
  ASSUME TypeOK, NEW hits, Registers(FALSE, hits), State' # Title, State # Pause_State
  PROVE  Points' = Points
<1>1. Score' = [n \in Players |-> NextScore(n, FALSE, hits)]
  BY DEF Registers
<1>2. CASE State = Title
  BY <1>1, <1>2 DEF NextScore, Points
<1>3. CASE State # Title
  <2>1. \A n \in Players : NextScore(n, FALSE, hits) = Score[n]
    BY <1>3 DEF NextScore, Increment
  <2>2. Score' = Score
    BY <1>1, <2>1 DEF TypeOK
  <2>3. QED BY <1>3, <2>2 DEF Points
<1>4. QED BY <1>2, <1>3

\* In Pause_State each player who is hitting gets a point.
LEMMA PointsGiven ==
  ASSUME TypeOK, NEW hits, Registers(FALSE, hits),
         State = Pause_State, State' = Pause_State_2
  PROVE  \E winners \in SUBSET Players :
           Points' = [n \in Players |-> IF n \in winners
                                        THEN (Points[n] + 1) % ScoreWidth
                                        ELSE Points[n]]
<1> DEFINE won == {n \in Players : hits[n]}
<1>1. Points = Score /\ Points' = Score'
  BY DistinctStates DEF Points
<1>2. Score' = [n \in Players |-> NextScore(n, FALSE, hits)]
  BY DEF Registers
<1>3. \A n \in Players :
        NextScore(n, FALSE, hits) = IF n \in won THEN (Score[n] + 1) % ScoreWidth
                                                 ELSE Score[n]
  BY DistinctStates DEF NextScore, Increment
<1>4. Score' = [n \in Players |-> IF n \in won THEN (Score[n] + 1) % ScoreWidth
                                               ELSE Score[n]]
  BY <1>2, <1>3
<1>5. won \in SUBSET Players
  OBVIOUS
<1>6. QED BY <1>1, <1>4, <1>5

LEMMA MachineRules == Machine => ImplementsRules
<1>1. Init => Rules!Init
  BY Phases DEF Init, Rules!Init, Rules!NoScore, Points
<1>2. TypeOK /\ [Next]_vars => [Rules!Next]_(Rules!vars)
  <2> SUFFICES ASSUME TypeOK, [Next]_vars PROVE [Rules!Next]_(Rules!vars)
    OBVIOUS
  <2> USE DEF Rules!vars
  <2>1. CASE State' = Title /\ ~UNCHANGED vars
    <3>1. Rules!BackToLobby
      BY <2>1, Phases DEF Rules!BackToLobby, Rules!NoScore, Points
    <3>2. QED BY <3>1 DEF Rules!Next
  <2>2. ASSUME NEW hits, NEW key, Running(key, hits), State' # Title
        PROVE  [Rules!Next]_(Rules!vars)
    <3>1. Registers(FALSE, hits)
      BY <2>2 DEF Running
    <3>2. State # Pause_State => Points' = Points
      BY <2>2, <3>1, PointsKept
    <3>3. State \in {Title, Ready_State, DiveKick_State, Playing, Pause_State,
                     Pause_State_2, Reset_State, Victory_State}
      BY DEF TypeOK, GameStates
    <3>4. CASE State = Title
      <4>1. State' = Ready_State
        BY <2>2, <3>4, DistinctStates DEF Running, Stay, InTitle, InReady, InDiveKick,
                         InPlaying, InPause, InPause2, InReset, InVictory
      <4>2. QED BY <3>2, <3>4, <4>1, Phases, DistinctStates
                DEF Rules!Next, Rules!StartMatch, Rules!Go
    <3>5. CASE State \in {Ready_State, DiveKick_State}
      <4>1. State' \in {Ready_State, DiveKick_State, Playing}
        BY <2>2, <3>5, DistinctStates DEF Running, Stay, InTitle, InReady, InDiveKick,
                         InPlaying, InPause, InPause2, InReset, InVictory
      <4>2. QED BY <3>2, <3>5, <4>1, Phases, DistinctStates
                DEF Rules!Next, Rules!StartRound, Rules!Go
    <3>6. CASE State = Playing
      <4>1. State' \in {Playing, Pause_State}
        BY <2>2, <3>6, DistinctStates DEF Running, Stay, InTitle, InReady, InDiveKick,
                         InPlaying, InPause, InPause2, InReset, InVictory
      <4>2. QED BY <3>2, <3>6, <4>1, Phases, DistinctStates
    <3>7. CASE State = Pause_State
      <4>1. State' = Pause_State_2
        BY <2>2, <3>7, DistinctStates DEF Running, Stay, InTitle, InReady, InDiveKick,
                         InPlaying, InPause, InPause2, InReset, InVictory
      <4>2. Rules!Decide
        BY <3>1, <3>7, <4>1, PointsGiven, Phases DEF Rules!Decide, Rules!Go
      <4>3. QED BY <4>2 DEF Rules!Next
    <3>8. CASE State = Pause_State_2
      <4>1. State' \in {Pause_State_2, Reset_State}
        BY <2>2, <3>8, DistinctStates DEF Running, Stay, InTitle, InReady, InDiveKick,
                         InPlaying, InPause, InPause2, InReset, InVictory
      <4>2. QED BY <3>2, <3>8, <4>1, Phases, DistinctStates
                DEF Rules!Next, Rules!ShowPlayers, Rules!Go
    <3>9. CASE State = Reset_State
      <4>1. \/ State' \in {Reset_State, Ready_State}
            \/ State' = Victory_State /\ FiveReached
        BY <2>2, <3>9, DistinctStates DEF Running, Stay, InTitle, InReady, InDiveKick,
                         InPlaying, InPause, InPause2, InReset, InVictory
      <4>2. Points = Score
        BY <3>9, DistinctStates DEF Points
      <4>3. QED BY <3>2, <3>9, <4>1, <4>2, Phases, DistinctStates
                DEF Rules!Next, Rules!NextRound, Rules!Win, Rules!Go, FiveReached
    <3>10. CASE State = Victory_State
      <4>1. State' = Victory_State
        BY <2>2, <3>10, DistinctStates DEF Running, Stay, InTitle, InReady, InDiveKick,
                         InPlaying, InPause, InPause2, InReset, InVictory
      <4>2. QED BY <3>2, <3>10, <4>1, Phases, DistinctStates
    <3>11. QED BY <3>3, <3>4, <3>5, <3>6, <3>7, <3>8, <3>9, <3>10
  <2>3. CASE UNCHANGED vars
    BY <2>3 DEF vars, Phase, Points
  <2>4. QED BY <2>1, <2>2, <2>3 DEF Next, ResetPressed
<1>3. QED BY <1>1, <1>2, MachineType, PTL DEF Machine, ImplementsRules, Rules!Spec

\* The machine plays by the rules, however long a second is.
THEOREM PlaysByTheRules == Spec => ImplementsRules
BY MachineRules, PTL DEF Spec

-----------------------------------------------------------------------------
(***************************************************************************)
(* How long things last.  The timer of a banner has been counting since    *)
(* the banner appeared, because it is cleared in every other state; when   *)
(* it shows its last count it has just begun to.  The round clock keeps    *)
(* pace with the timer of the first banner, and the seconds of a round     *)
(* follow from where it stands when the round begins.                      *)
(***************************************************************************)
Elapsed(t, period) == t.roundtime * period + t.internalClk

Counts(t, period, n, s) ==
  /\ t.roundtime <= n
  /\ t.roundtime = n => t.internalClk = 0
  /\ s = Elapsed(t, period)

BannersCount ==
  /\ State = Ready_State => Counts(readyTimer, SECOND, 1, since)
  /\ State = DiveKick_State => Counts(diveKickTimer, HALF_SECOND, 1, since)
  /\ State = Pause_State_2 => Counts(koTimer, SECOND, 2, since)

RoundCounts ==
  /\ State = Ready_State => roundTimer.internalClk = readyTimer.internalClk
  /\ State = DiveKick_State => roundTimer.internalClk = since + 1
  /\ State = Playing => since + HALF_SECOND + 2 = Elapsed(roundTimer, SECOND)

TimingInv == ClockInv /\ since \in Nat /\ BannersCount

\* A timer that has not reached its last count goes on counting, cycle by cycle.
LEMMA CountsOn ==
  ASSUME NEW period \in Nat, period >= 2, NEW n \in 1 .. 2,
         NEW t \in Timer(period, 0 .. 3), NEW s \in Nat,
         Counts(t, period, n, s), t.roundtime # n
  PROVE  /\ Counts(Advance(t, period, TRUE, 4), period, n, s + 1)
         /\ s < n * period
<1>1. PICK c \in 0 .. period - 1, r \in 0 .. 3 : t = [internalClk |-> c, roundtime |-> r]
  BY DEF Timer
<1>2. r \in 0 .. n - 1 /\ s = r * period + c
  BY <1>1 DEF Counts, Elapsed
<1>3. s < n * period
  <2>1. CASE r = 0 /\ n = 1
    BY <1>2, <2>1
  <2>2. CASE r = 0 /\ n = 2
    BY <1>2, <2>2
  <2>3. CASE r = 1 /\ n = 2
    BY <1>2, <2>3
  <2>4. QED BY <1>2, <2>1, <2>2, <2>3
<1>4. CASE c = period - 1
  <2>1. Advance(t, period, TRUE, 4) = [internalClk |-> 0, roundtime |-> r + 1]
    <3>1. (r + 1) % 4 = r + 1
      BY <1>2
    <3>2. QED BY <1>1, <1>4, <3>1 DEF Advance
  <2>2. s + 1 = (r + 1) * period + 0 /\ r + 1 <= n
    BY <1>2, <1>4
  <2>3. PICK a : a = [internalClk |-> 0, roundtime |-> r + 1]
    OBVIOUS
  <2>4. a.roundtime = r + 1 /\ a.internalClk = 0
    BY <2>3
  <2>5. Counts(a, period, n, s + 1)
    BY <2>2, <2>4 DEF Counts, Elapsed
  <2>6. QED BY <1>3, <2>1, <2>3, <2>5
<1>5. CASE c # period - 1
  <2>1. Advance(t, period, TRUE, 4) = [internalClk |-> c + 1, roundtime |-> r]
    BY <1>1, <1>5 DEF Advance
  <2>2. s + 1 = r * period + (c + 1) /\ r <= n /\ r # n
    BY <1>2
  <2>3. PICK a : a = [internalClk |-> c + 1, roundtime |-> r]
    OBVIOUS
  <2>4. a.roundtime = r /\ a.internalClk = c + 1
    BY <2>3
  <2>5. Counts(a, period, n, s + 1)
    BY <2>2, <2>4 DEF Counts, Elapsed
  <2>6. QED BY <1>3, <2>1, <2>3, <2>5
<1>6. QED BY <1>4, <1>5

\* A timer that is cleared counts from zero.
LEMMA CountsFromZero ==
  ASSUME NEW period \in Nat, NEW n \in 1 .. 2
  PROVE  Counts(Zero, period, n, 0)
BY DEF Counts, Elapsed, Zero

\* The history variable counts on as long as a timed state can last.
LEMMA SinceSteps ==
  ASSUME since \in Nat, TNext
  PROVE  /\ since' \in Nat
         /\ State' # State => since' = 0
         /\ /\ State' = State /\ State \in Timed
            /\ \/ since < 1 * SECOND \/ since < 2 * SECOND \/ since < 16 * SECOND
               \/ since < 1 * HALF_SECOND
            => since' = since + 1
<1>1. /\ 1 * SECOND <= SinceBound /\ 2 * SECOND <= SinceBound
      /\ 16 * SECOND <= SinceBound /\ 1 * HALF_SECOND <= SinceBound
      /\ SinceBound \in Nat
  BY Periods DEF SinceBound, MaxTime
<1>2. since' = IF State' # State \/ State \notin Timed THEN 0
               ELSE IF since < SinceBound THEN since + 1 ELSE since
  BY DEF TNext
<1>3. QED BY <1>1, <1>2, Periods

\* The machine stays on a banner until its timer shows the last count.
LEMMA StayOrLeave ==
  ASSUME NEW key, NEW hits, Running(key, hits)
  PROVE  /\ State = Ready_State /\ State' = State => readyTimer.roundtime # 1
         /\ State = DiveKick_State /\ State' = State => diveKickTimer.roundtime # 1
         /\ State = Pause_State_2 /\ State' = State => koTimer.roundtime # 2
         /\ State = Ready_State /\ State' # State =>
              readyTimer.roundtime = 1 /\ State' = DiveKick_State
         /\ State = DiveKick_State /\ State' # State =>
              diveKickTimer.roundtime = 1 /\ State' = Playing
         /\ State = Pause_State_2 /\ State' # State => koTimer.roundtime = 2
BY DistinctStates DEF Running, Stay, InTitle, InReady, InDiveKick, InPlaying, InPause,
                      InPause2, InReset, InVictory, readyTime, DiveKickTime, pauseTime

LEMMA InitTiming == TInit => TimingInv
BY InitClock, DistinctStates DEF TInit, Init, TimingInv, BannersCount

LEMMA TimingInductive == TimingInv /\ [TNext]_tvars => TimingInv'
<1> SUFFICES ASSUME TimingInv, [TNext]_tvars PROVE TimingInv'
  OBVIOUS
<1> USE DEF TimingInv
<1>1. CASE UNCHANGED tvars
  BY <1>1 DEF tvars, ClockInv, TypeOK, ClearBefore, LastSecond, BannersCount, Counts,
              Elapsed
<1>2. ASSUME TNext, NEW hits, ResetPressed(hits) PROVE TimingInv'
  <2>1. ClockInv' /\ since' \in Nat
    BY <1>2, ResetClock, SinceSteps
  <2>2. State' = Title
    BY <1>2 DEF ResetPressed
  <2>3. QED BY <2>1, <2>2, DistinctStates DEF BannersCount
<1>3. ASSUME TNext, NEW hits, NEW key, Running(key, hits) PROVE TimingInv'
  <2>1. ClockInv' /\ since' \in Nat
    BY <1>3, RunningClock, SinceSteps
  <2>2. /\ readyTimer' = NextPauseTimer(readyTimer, Ready_State, SECOND, FALSE, State)
        /\ diveKickTimer' =
             NextPauseTimer(diveKickTimer, DiveKick_State, HALF_SECOND, FALSE, State)
        /\ koTimer' = NextPauseTimer(koTimer, Pause_State_2, SECOND, FALSE, State)
    BY <1>3 DEF Running, Registers, NextReadyTimer, NextDiveKickTimer, NextKoTimer
  <2>3. /\ readyTimer \in Timer(SECOND, 0 .. 3)
        /\ diveKickTimer \in Timer(HALF_SECOND, 0 .. 3)
        /\ koTimer \in Timer(SECOND, 0 .. 3)
        /\ 1 \in 1 .. 2 /\ 2 \in 1 .. 2
    BY DEF ClockInv, TypeOK
  <2>4. State' = Ready_State => Counts(readyTimer', SECOND, 1, since')
    <3>1. CASE State = Ready_State /\ State' = Ready_State
      <4>1. readyTimer' = Advance(readyTimer, SECOND, TRUE, 4)
        BY <2>2, <3>1 DEF NextPauseTimer
      <4>2. /\ Counts(readyTimer', SECOND, 1, since + 1)
            /\ since < 1 * SECOND
        BY <1>3, <2>3, <3>1, <4>1, StayOrLeave, CountsOn, Periods DEF BannersCount
      <4>3. since' = since + 1
        BY <1>3, <3>1, <4>2, SinceSteps DEF Timed, Banners
      <4>4. QED BY <4>2, <4>3
    <3>2. CASE State # Ready_State /\ State' = Ready_State
      <4>1. readyTimer' = Zero /\ since' = 0
        BY <1>3, <2>2, <3>2, SinceSteps DEF NextPauseTimer
      <4>2. QED BY <2>3, <4>1, CountsFromZero, Periods
    <3>3. QED BY <3>1, <3>2
  <2>5. State' = DiveKick_State => Counts(diveKickTimer', HALF_SECOND, 1, since')
    <3>1. CASE State = DiveKick_State /\ State' = DiveKick_State
      <4>1. diveKickTimer' = Advance(diveKickTimer, HALF_SECOND, TRUE, 4)
        BY <2>2, <3>1 DEF NextPauseTimer
      <4>2. /\ Counts(diveKickTimer', HALF_SECOND, 1, since + 1)
            /\ since < 1 * HALF_SECOND
        BY <1>3, <2>3, <3>1, <4>1, StayOrLeave, CountsOn, Periods DEF BannersCount
      <4>3. since' = since + 1
        BY <1>3, <3>1, <4>2, SinceSteps DEF Timed, Banners
      <4>4. QED BY <4>2, <4>3
    <3>2. CASE State # DiveKick_State /\ State' = DiveKick_State
      <4>1. diveKickTimer' = Zero /\ since' = 0
        BY <1>3, <2>2, <3>2, SinceSteps DEF NextPauseTimer
      <4>2. QED BY <2>3, <4>1, CountsFromZero, Periods
    <3>3. QED BY <3>1, <3>2
  <2>6. State' = Pause_State_2 => Counts(koTimer', SECOND, 2, since')
    <3>1. CASE State = Pause_State_2 /\ State' = Pause_State_2
      <4>1. koTimer' = Advance(koTimer, SECOND, TRUE, 4)
        BY <2>2, <3>1 DEF NextPauseTimer
      <4>2. /\ Counts(koTimer', SECOND, 2, since + 1)
            /\ since < 2 * SECOND
        BY <1>3, <2>3, <3>1, <4>1, StayOrLeave, CountsOn, Periods DEF BannersCount
      <4>3. since' = since + 1
        BY <1>3, <3>1, <4>2, SinceSteps DEF Timed, Banners
      <4>4. QED BY <4>2, <4>3
    <3>2. CASE State # Pause_State_2 /\ State' = Pause_State_2
      <4>1. koTimer' = Zero /\ since' = 0
        BY <1>3, <2>2, <3>2, SinceSteps DEF NextPauseTimer
      <4>2. QED BY <2>3, <4>1, CountsFromZero, Periods
    <3>3. QED BY <3>1, <3>2
  <2>7. QED BY <2>1, <2>4, <2>5, <2>6 DEF BannersCount
<1>4. QED BY <1>1, <1>2, <1>3 DEF TNext, Next

LEMMA TimingInvariant == TSpec => []TimingInv
BY InitTiming, TimingInductive, PTL DEF TSpec

\* Every banner is shown for its full time and a cycle, every time, for every
\* length of the two periods: it inherits nothing from an earlier showing.
THEOREM BannersLast == TSpec => BannerLengths
<1>1. TimingInv /\ [TNext]_tvars =>
        [ /\ State \in Banners
          /\ State' \notin {State, Title}
          => since + 1 = Lasts[State] ]_tvars
  <2> SUFFICES ASSUME TimingInv, TNext, State \in Banners, State' # State, State' # Title
               PROVE  since + 1 = Lasts[State]
    BY DEF tvars
  <2>1. PICK hits, key : Running(key, hits)
    BY DEF TNext, Next, ResetPressed
  <2>2. CASE State = Ready_State
    <3>1. Counts(readyTimer, SECOND, 1, since) /\ readyTimer.roundtime = 1
      BY <2>1, <2>2, StayOrLeave DEF TimingInv, BannersCount
    <3>2. since = 1 * SECOND + 0
      BY <3>1 DEF Counts, Elapsed
    <3>3. QED BY <2>2, <3>2, Periods, DistinctStates DEF Lasts, Banners
  <2>3. CASE State = DiveKick_State
    <3>1. Counts(diveKickTimer, HALF_SECOND, 1, since) /\ diveKickTimer.roundtime = 1
      BY <2>1, <2>3, StayOrLeave DEF TimingInv, BannersCount
    <3>2. since = 1 * HALF_SECOND + 0
      BY <3>1 DEF Counts, Elapsed
    <3>3. QED BY <2>3, <3>2, Periods, DistinctStates DEF Lasts, Banners
  <2>4. CASE State = Pause_State_2
    <3>1. Counts(koTimer, SECOND, 2, since) /\ koTimer.roundtime = 2
      BY <2>1, <2>4, StayOrLeave DEF TimingInv, BannersCount
    <3>2. since = 2 * SECOND + 0
      BY <3>1 DEF Counts, Elapsed
    <3>3. QED BY <2>4, <3>2, Periods, DistinctStates DEF Lasts, Banners
  <2>5. QED BY <2>2, <2>3, <2>4 DEF Banners
<1>2. QED BY <1>1, TimingInvariant, PTL DEF TSpec, BannerLengths

-----------------------------------------------------------------------------
\* The round clock wraps where its period ends; it counts seconds in a round.
LEMMA ClockPace ==
  ASSUME TypeOK
  PROVE  LET t == NextRoundTimer(roundTimer, FALSE, State) IN
         /\ State \in {Title, Reset_State} => t.internalClk = 0
         /\ State \notin {Title, Reset_State} =>
              t.internalClk = IF roundTimer.internalClk = SECOND - 1 THEN 0
                              ELSE roundTimer.internalClk + 1
         /\ State = Playing /\ roundTimer.roundtime # MaxTime =>
              t.roundtime * SECOND + t.internalClk =
                roundTimer.roundtime * SECOND + roundTimer.internalClk + 1
<1>1. PICK c \in 0 .. SECOND - 1, r \in 0 .. 15 :
        roundTimer = [internalClk |-> c, roundtime |-> r]
  BY DEF TypeOK, Timer, MaxTime
<1>2. roundTimer.internalClk = c /\ roundTimer.roundtime = r
  BY <1>1
<1>3. CASE State \in {Title, Reset_State}
  BY <1>3, DistinctStates DEF NextRoundTimer, Zero
<1>4. CASE State \notin {Title, Reset_State} /\ c # SECOND - 1
  <2>1. NextRoundTimer(roundTimer, FALSE, State) = [internalClk |-> c + 1, roundtime |-> r]
    BY <1>1, <1>4 DEF NextRoundTimer, Advance
  <2>2. r * SECOND + (c + 1) = r * SECOND + c + 1
    BY Periods
  <2>3. PICK t : t = [internalClk |-> c + 1, roundtime |-> r]
    OBVIOUS
  <2>4. t.internalClk = c + 1 /\ t.roundtime = r
    BY <2>3
  <2>5. QED BY <1>2, <1>4, <2>1, <2>2, <2>3, <2>4
<1>5. CASE State \notin {Title, Reset_State} /\ c = SECOND - 1
  <2>1. PICK q : q = IF State = Playing THEN (r + 1) % 16 ELSE r
    OBVIOUS
  <2>2. NextRoundTimer(roundTimer, FALSE, State) = [internalClk |-> 0, roundtime |-> q]
    BY <1>1, <1>5, <2>1 DEF NextRoundTimer, Advance, MaxTime
  <2>3. /\ State = Playing /\ r # MaxTime => q = r + 1
        /\ (r + 1) * SECOND + 0 = r * SECOND + c + 1
    BY <1>5, <2>1, Periods DEF MaxTime
  <2>4. PICK t : t = [internalClk |-> 0, roundtime |-> q]
    OBVIOUS
  <2>5. t.internalClk = 0 /\ t.roundtime = q
    BY <2>4
  <2>6. State = Playing /\ r # MaxTime =>
          t.roundtime * SECOND + t.internalClk = r * SECOND + c + 1
    BY <2>3, <2>5
  <2>7. QED BY <1>2, <1>5, <2>2, <2>4, <2>5, <2>6
<1>6. QED BY <1>3, <1>4, <1>5

\* Where each of the states of an intro comes from.
LEMMA IntroTransitions ==
  ASSUME NEW key, NEW hits, Running(key, hits)
  PROVE  /\ State' = Ready_State => State \in {Title, Reset_State, Ready_State}
         /\ State' = DiveKick_State => State \in {Ready_State, DiveKick_State}
BY DistinctStates DEF Running, Stay, InTitle, InReady, InDiveKick, InPlaying, InPause,
                      InPause2, InReset, InVictory

LEMMA RoundCountsSteps ==
  ASSUME IntroIsShort, TimingInv, RoundCounts, [TNext]_tvars
  PROVE  RoundCounts'
<1>1. CASE UNCHANGED tvars
  BY <1>1 DEF tvars, RoundCounts, Elapsed
<1>2. ASSUME NEW hits, ResetPressed(hits) PROVE RoundCounts'
  BY <1>2, DistinctStates DEF ResetPressed, RoundCounts
<1>3. ASSUME TNext, NEW hits, NEW key, Running(key, hits) PROVE RoundCounts'
  <2>1. /\ roundTimer' = NextRoundTimer(roundTimer, FALSE, State)
        /\ readyTimer' = NextPauseTimer(readyTimer, Ready_State, SECOND, FALSE, State)
    BY <1>3 DEF Running, Registers, NextReadyTimer
  <2>2. TypeOK /\ since \in Nat
    BY DEF TimingInv, ClockInv
  <2>3. PICK c \in 0 .. SECOND - 1 : roundTimer.internalClk = c
    BY <2>2 DEF TypeOK, Timer
  <2>4. HALF_SECOND + 2 < SECOND
    BY DEF IntroIsShort
  <2>5. ASSUME State' = Ready_State
        PROVE  roundTimer'.internalClk = readyTimer'.internalClk
    <3>1. CASE State = Ready_State
      <4>1. readyTimer' = Advance(readyTimer, SECOND, TRUE, 4)
        BY <2>1, <3>1 DEF NextPauseTimer
      <4>2. readyTimer'.internalClk = IF readyTimer.internalClk = SECOND - 1 THEN 0
                                      ELSE readyTimer.internalClk + 1
        BY <2>2, <4>1 DEF Advance, TypeOK, Timer
      <4>3. roundTimer.internalClk = readyTimer.internalClk
        BY <3>1 DEF RoundCounts
      <4>4. QED BY <2>1, <2>2, <3>1, <4>2, <4>3, ClockPace, DistinctStates
    <3>2. CASE State \in {Title, Reset_State}
      BY <2>1, <2>2, <3>2, ClockPace, DistinctStates DEF NextPauseTimer, Zero
    <3>3. QED BY <1>3, <2>5, <3>1, <3>2, IntroTransitions
  <2>6. ASSUME State' = DiveKick_State
        PROVE  roundTimer'.internalClk = since' + 1
    <3>1. CASE State = Ready_State
      <4>1. Counts(readyTimer, SECOND, 1, since) /\ readyTimer.roundtime = 1
        BY <1>3, <2>6, <3>1, StayOrLeave, DistinctStates DEF TimingInv, BannersCount
      <4>2. c = 0 /\ c # SECOND - 1
        BY <2>3, <3>1, <4>1, Periods DEF Counts, RoundCounts
      <4>3. roundTimer'.internalClk = c + 1
        BY <2>1, <2>2, <2>3, <3>1, <4>2, ClockPace, DistinctStates
      <4>4. since' = 0
        BY <1>3, <2>2, <2>6, <3>1, SinceSteps, DistinctStates
      <4>5. QED BY <4>2, <4>3, <4>4
    <3>2. CASE State = DiveKick_State
      <4>1. diveKickTimer.roundtime # 1 /\ Counts(diveKickTimer, HALF_SECOND, 1, since)
        BY <1>3, <2>6, <3>2, StayOrLeave DEF TimingInv, BannersCount
      <4>2. since < 1 * HALF_SECOND
        <5>1. diveKickTimer \in Timer(HALF_SECOND, 0 .. 3) /\ 1 \in 1 .. 2
          BY <2>2 DEF TypeOK
        <5>2. QED BY <2>2, <4>1, <5>1, CountsOn, Periods
      <4>3. since' = since + 1
        BY <1>3, <2>2, <2>6, <3>2, <4>2, SinceSteps DEF Timed, Banners
      <4>4. c = since + 1
        BY <2>3, <3>2 DEF RoundCounts
      <4>5. c # SECOND - 1
        BY <2>2, <2>4, <4>2, <4>4, Periods
      <4>6. roundTimer'.internalClk = c + 1
        BY <2>1, <2>2, <2>3, <3>2, <4>5, ClockPace, DistinctStates
      <4>7. QED BY <4>3, <4>4, <4>6
    <3>3. QED BY <1>3, <2>6, <3>1, <3>2, IntroTransitions
  <2>7. ASSUME State' = Playing
        PROVE  since' + HALF_SECOND + 2 = Elapsed(roundTimer, SECOND)'
    <3>1. CASE State = DiveKick_State
      <4>1. Counts(diveKickTimer, HALF_SECOND, 1, since) /\ diveKickTimer.roundtime = 1
        BY <1>3, <2>7, <3>1, StayOrLeave, DistinctStates DEF TimingInv, BannersCount
      <4>2. since = 1 * HALF_SECOND + 0
        BY <4>1 DEF Counts, Elapsed
      <4>3. c + 1 = HALF_SECOND + 2 /\ c # SECOND - 1
        BY <2>3, <2>4, <3>1, <4>2, Periods DEF RoundCounts
      <4>4. roundTimer'.internalClk = HALF_SECOND + 2
        BY <2>1, <2>2, <2>3, <3>1, <4>3, ClockPace, DistinctStates
      <4>5. roundTimer'.roundtime = 0
        BY <2>1, <2>2, <3>1, ClockSteps, DistinctStates DEF TimingInv, ClockInv, ClearBefore
      <4>6. since' = 0
        BY <1>3, <2>2, <2>7, <3>1, SinceSteps, DistinctStates
      <4>7. 0 + HALF_SECOND + 2 = 0 * SECOND + (HALF_SECOND + 2)
        BY Periods
      <4>8. QED BY <4>4, <4>5, <4>6, <4>7 DEF Elapsed
    <3>2. CASE State = Playing /\ gameTime # 0
      <4>1. PICK r \in 0 .. 15 : roundTimer.roundtime = r
        BY <2>2 DEF TypeOK, Timer, MaxTime
      <4>2. r # MaxTime
        BY <3>2, <4>1 DEF gameTime, MaxTime
      <4>3. since + HALF_SECOND + 2 = r * SECOND + c
        BY <2>3, <3>2, <4>1 DEF RoundCounts, Elapsed
      <4>4. r * SECOND <= 14 * SECOND
        BY <4>2, Periods DEF MaxTime
      <4>5. since < 16 * SECOND
        BY <2>2, <4>1, <4>3, <4>4, Periods
      <4>6. since' = since + 1
        BY <1>3, <2>2, <2>7, <3>2, <4>5, SinceSteps DEF Timed, Banners
      <4>7. roundTimer'.roundtime * SECOND + roundTimer'.internalClk = r * SECOND + c + 1
        BY <2>1, <2>2, <2>3, <3>2, <4>1, <4>2, ClockPace
      <4>8. since + 1 + HALF_SECOND + 2 = r * SECOND + c + 1
        BY <2>2, <4>1, <4>3, Periods
      <4>9. QED BY <4>6, <4>7, <4>8 DEF Elapsed
    <3>3. QED BY <1>3, <2>7, <3>1, <3>2, Transitions
  <2>8. QED BY <2>5, <2>6, <2>7 DEF RoundCounts
<1>4. QED BY <1>1, <1>2, <1>3 DEF TNext, Next

\* Every round that time decides lasts the same number of cycles, whatever came
\* before it, if the banners leave the round clock its first second, as they do
\* on the board.
THEOREM RoundsAreEqual ==
  ASSUME IntroIsShort
  PROVE  TSpec => []RoundLength
<1>1. TInit => RoundCounts
  BY DistinctStates DEF TInit, Init, RoundCounts
<1>2. TimingInv /\ RoundCounts => RoundLength
  <2> SUFFICES ASSUME TimingInv, RoundCounts, State = Playing, gameTime = 0
               PROVE  since = MaxTime * SECOND - HeadStart
    BY DEF RoundLength
  <2>1. PICK r \in 0 .. 15 : roundTimer.roundtime = r
    BY DEF TimingInv, ClockInv, TypeOK, Timer, MaxTime
  <2>2. r = MaxTime
    BY <2>1 DEF gameTime, MaxTime
  <2>3. roundTimer.internalClk = 0
    BY <2>1, <2>2 DEF TimingInv, ClockInv, LastSecond
  <2>4. since + HALF_SECOND + 2 = 15 * SECOND + 0
    BY <2>1, <2>2, <2>3 DEF RoundCounts, Elapsed, MaxTime
  <2>5. HeadStart = HALF_SECOND + 2
    BY Periods, DistinctStates DEF HeadStart, Lasts, Banners
  <2>6. QED BY <2>4, <2>5, Periods DEF TimingInv, MaxTime
<1>3. QED BY <1>1, <1>2, RoundCountsSteps, TimingInvariant, PTL DEF TSpec

-----------------------------------------------------------------------------
(***************************************************************************)
(* What the screen shows of the match.                                     *)
(***************************************************************************)
\* With n points, five or less, n circles are lit: the first n of player two,
\* the last n of player one.
LEMMA CirclesLit ==
  ASSUME NEW scene, NEW i \in Players, NEW n \in 0 .. 5, scene.score[i] = n
  PROVE  Cardinality({k \in 1..5 : Circles(scene, i)[k].what}) = n
<1>1. \A k \in 1..5 : Lit(n, k) <=> n >= k
  BY DEF Lit
<1>2. CASE i = 1
  <2>1. \A k \in 1..5 : Circles(scene, i)[k].what <=> Lit(n, 6 - k)
    BY <1>2 DEF Circles, Layer
  <2>2. \A k \in 1..5 : Lit(n, 6 - k) <=> n >= 6 - k
    BY <1>1
  <2>3. {k \in 1..5 : Circles(scene, i)[k].what} = (6 - n) .. 5
    BY <2>1, <2>2
  <2>4. Cardinality((6 - n) .. 5) = n
    BY FS_Interval
  <2>5. QED BY <2>3, <2>4
<1>3. CASE i = 2
  <2>1. \A k \in 1..5 : Circles(scene, i)[k].what <=> Lit(n, k)
    BY <1>3 DEF Circles, Layer
  <2>2. {k \in 1..5 : Circles(scene, i)[k].what} = 1 .. n
    BY <1>1, <2>1
  <2>3. Cardinality(1 .. n) = n
    <3>1. Cardinality(1 .. n) = IF 1 > n THEN 0 ELSE n - 1 + 1
      BY FS_Interval
    <3>2. QED BY <3>1
  <2>4. QED BY <2>2, <2>3
<1>4. QED BY <1>2, <1>3 DEF Players

\* The victory screen is reached with five points, and they stay.
VictoryIsWon == State = Victory_State => FiveReached

LEMMA VictoryInvariant == Machine => [](TypeOK /\ VictoryIsWon)
<1>1. Init => VictoryIsWon
  BY DistinctStates DEF Init, VictoryIsWon
<1>2. TypeOK /\ VictoryIsWon /\ [Next]_vars => VictoryIsWon'
  <2> SUFFICES ASSUME TypeOK, VictoryIsWon, [Next]_vars, State' = Victory_State
               PROVE  FiveReached'
    BY DEF VictoryIsWon
  <2>1. CASE UNCHANGED vars
    BY <2>1 DEF vars, VictoryIsWon, FiveReached
  <2>2. ASSUME NEW hits, NEW key, Running(key, hits) PROVE FiveReached'
    <3>1. FiveReached /\ State \in {Reset_State, Victory_State}
      BY <2>2, DistinctStates
      DEF VictoryIsWon, Running, Stay, InTitle, InReady, InDiveKick, InPlaying, InPause,
          InPause2, InReset, InVictory
    <3>2. Score' = [n \in Players |-> NextScore(n, FALSE, hits)]
      BY <2>2 DEF Running, Registers
    <3>3. \A n \in Players : Score'[n] = Score[n]
      BY <3>1, <3>2, DistinctStates DEF NextScore, Increment
    <3>4. QED BY <3>1, <3>3 DEF FiveReached
  <2>3. QED BY <2>1, <2>2, DistinctStates DEF Next, ResetPressed
<1>3. QED BY <1>1, <1>2, MachineType, PTL DEF Machine

\* The screen tells the points, the seconds and the winner as they are.
THEOREM ScreenIsTrue == TSpec => []ScreenTells
<1>1. TypeOK /\ VictoryIsWon => ScreenTells
  <2> SUFFICES ASSUME TypeOK, VictoryIsWon PROVE ScreenTells
    OBVIOUS
  <2> DEFINE scene == [state |-> State, score |-> Score]
  <2>1. ASSUME NEW i \in Players, Score[i] <= 5
        PROVE  Cardinality({k \in 1..5 : Circles(scene, i)[k].what}) = Score[i]
    <3>1. PICK n \in 0 .. 5 : n = Score[i]
      BY <2>1 DEF TypeOK, ScoreWidth
    <3>2. scene.score[i] = n
      BY <3>1
    <3>3. QED BY <3>1, <3>2, CirclesLit
  <2>2. 10 * Tens(gameTime) + Ones(gameTime) = gameTime
    <3>1. PICK g \in 0 .. 15 : g = gameTime
      BY DEF TypeOK, Timer, gameTime, MaxTime
    <3>2. 10 * Tens(g) + Ones(g) = g
      BY DEF Tens, Ones
    <3>3. QED BY <3>1, <3>2
  <2>3. State = Victory_State => Score[Winner(Score)] = 5
    BY DEF VictoryIsWon, FiveReached, Players, Winner
  <2>4. QED BY <2>1, <2>2, <2>3 DEF ScreenTells
<1>2. TSpec => Machine
  <2>1. TInit => Init
    BY DEF TInit
  <2>2. [TNext]_tvars => [Next]_vars
    BY DEF TNext, tvars, vars
  <2>3. QED BY <2>1, <2>2, PTL DEF TSpec, Machine
<1>3. QED BY <1>1, <1>2, VictoryInvariant, PTL

=============================================================================
