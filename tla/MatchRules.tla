----------------------------- MODULE MatchRules -----------------------------
(***************************************************************************)
(* What a player knows of a match: the phase the screen shows and the two  *)
(* scores.  Match, the state machine with its timers and score registers,  *)
(* is shown to implement it.                                               *)
(***************************************************************************)
EXTENDS Integers

CONSTANTS
  Players,     \* who can score
  ScoreWidth,  \* a score register counts modulo ScoreWidth
  Goal         \* the score that wins the match

VARIABLES phase, score

vars == <<phase, score>>

Phases == {"Lobby", "Intro", "Fight", "Scored", "Between", "Over"}

NoScore == [n \in Players |-> 0]

Init == phase = "Lobby" /\ score = NoScore

Go(from, to) == phase = from /\ phase' = to

StartMatch == Go("Lobby", "Intro") /\ UNCHANGED score

StartRound == Go("Intro", "Fight") /\ UNCHANGED score

\* One verdict a round, of at most one point for each player.
Decide ==
  /\ Go("Fight", "Scored")
  /\ \E winners \in SUBSET Players :
       score' = [n \in Players |->
                   IF n \in winners THEN (score[n] + 1) % ScoreWidth
                                    ELSE score[n]]

ShowPlayers == Go("Scored", "Between") /\ UNCHANGED score

NextRound == Go("Between", "Intro") /\ UNCHANGED score

Win ==
  /\ Go("Between", "Over")
  /\ \E n \in Players : score[n] = Goal
  /\ UNCHANGED score

\* The winner's screen is left, or the reset button is pressed, at any time.
BackToLobby == phase' = "Lobby" /\ score' = NoScore

Next == \/ StartMatch \/ StartRound \/ Decide \/ ShowPlayers
        \/ NextRound \/ Win \/ BackToLobby

Spec == Init /\ [][Next]_vars

=============================================================================
