----------------------------- MODULE MCPlayers ------------------------------
(***************************************************************************)
(* A player against any opponent (PlayerOne), and the engine on every      *)
(* arrangement of two (EngineInputs).  The two share no state: a behaviour *)
(* is one of a player, with the arrangement at rest, or one of an          *)
(* arrangement, with the player at rest.                                   *)
(***************************************************************************)
EXTENDS PlayerOne, MCEngineInputs

VARIABLE shown   \* which of the two the behaviour belongs to

\* Only the sign of the comparison with the opponent's position matters, so the
\* two ends of the word stand for "he is to my left" and "to my right or level".
AnyOpponent == {0, Width10 - 1}

\* The arrangement at rest.
Standing(x) == [x |-> x, y |-> Ground, what |-> Idle]

AtRest == p1 = Standing(213) /\ p2 = Standing(246) /\ gameTime = 1

MCInit ==
  /\ Init
  /\ \/ shown = "player" /\ AtRest
     \/ shown = "engine" /\ EInit

MCNext ==
  /\ UNCHANGED shown
  /\ \/ shown = "player" /\ Next /\ UNCHANGED evars
     \/ shown = "engine" /\ ENext /\ UNCHANGED vars

MCSpec == MCInit /\ [][MCNext]_<<vars, evars, shown>> /\ Fairness
=============================================================================
