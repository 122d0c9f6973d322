---------------------------- MODULE MatchTiming -----------------------------
(***************************************************************************)
(* Match with a count of the cycles spent in the current timed state: how  *)
(* long the banners and the rounds last.  The count is no part of the      *)
(* machine.                                                                *)
(***************************************************************************)
EXTENDS Match, Display, FiniteSets

VARIABLE since   \* cycles of Clk since State was entered, up to SinceBound

\* Bound: longer than any timed state lasts.
SinceBound == (MaxTime + 1) * SECOND + HALF_SECOND

tvars == <<State, Score, roundTimer, koTimer, readyTimer, diveKickTimer, since>>

Banners == {Ready_State, DiveKick_State, Pause_State_2}

Timed == Banners \union {Playing}

TInit == Init /\ since = 0

TNext ==
  /\ Next
  /\ since' = IF State' # State \/ State \notin Timed THEN 0
              ELSE IF since < SinceBound THEN since + 1 ELSE since

TSpec == TInit /\ [][TNext]_tvars /\ WF_tvars(TNext)

-----------------------------------------------------------------------------
(***************************************************************************)
(* A banner lasts a cycle longer than its timer says: the machine sees the *)
(* timer the cycle after the period ends.                                  *)
(***************************************************************************)
Lasts == [b \in Banners |-> CASE b = Ready_State    -> SECOND + 1
                              [] b = DiveKick_State -> HALF_SECOND + 1
                              [] b = Pause_State_2  -> 2 * SECOND + 1]

\* Each banner lasts its full time, every time: no banner inherits time from
\* an earlier showing of itself, whichever way that one ended
\* (GameState.sv:44-49,55-57 and PauseTimer_2, _3, _4).
BannerLengths ==
  [][ /\ State \in Banners
      /\ State' \notin {State, Title}
      => since + 1 = Lasts[State] ]_tvars

\* The round clock is not restarted when the round is: it has been running
\* since the first banner appeared.
HeadStart == Lasts[Ready_State] + Lasts[DiveKick_State] - SECOND

\* True of the board: the banners are over before the round clock has run for
\* another second.  Otherwise it would lose that second.
IntroIsShort == HALF_SECOND + 2 < SECOND

\* Every round that time decides has the same length, whatever came before it
\* and however long the title screen was up (roundtimer.sv:12-31).  It is not the
\* length roundtimer.sv:1 gives: see FifteenSeconds.
RoundLength ==
  State = Playing /\ gameTime = 0 => since = MaxTime * SECOND - HeadStart

\* roundtimer.sv:1, "15 seconds for now": the players have fifteen seconds,
\* but for the cycles the registers between clock and state machine take.
Latency == 2

FifteenSeconds ==
  State = Playing /\ gameTime = 0 => since + Latency >= MaxTime * SECOND

\* What the screen tells of the match is true: as many circles are lit as a
\* player has points, up to the five there are; the clock shows the seconds
\* left; and the player who is named on the victory screen has five points,
\* however the match got there (Color_Mapper.sv:170-252, 375-422, 439-447).
ScreenTells ==
  LET scene == [state |-> State, score |-> Score] IN
  /\ \A i \in Players : Score[i] <= 5 =>
       Cardinality({k \in 1..5 : Circles(scene, i)[k].what}) = Score[i]
  /\ 10 * Tens(gameTime) + Ones(gameTime) = gameTime
  /\ State = Victory_State => Score[Winner(Score)] = 5

=============================================================================
