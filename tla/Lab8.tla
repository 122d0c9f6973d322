-------------------------------- MODULE Lab8 --------------------------------
(***************************************************************************)
(* The game as lab8.sv wires it: the control of a match (Match), the two   *)
(* players (PlayerMotion, twice) and the hit detection between them        *)
(* (GameEngine), all on one clock.  A step is one edge of Clk.  Everything *)
(* combinational, the poses and the hits, is computed from the registers   *)
(* and the inputs of the cycle that the edge ends.                         *)
(***************************************************************************)
EXTENDS Match, PlayerMotion, GameEngine

CONSTANTS
  MaxPoints   \* bound: no round is started with more points than this awarded

VARIABLES
  player,     \* the registers of the two instances of player_one
  edge,       \* frame_clk_rising_edge: VGA_VS rose
  key         \* the key the keycode port shows

lvars == <<State, Score, roundTimer, koTimer, readyTimer, diveKickTimer,
           player, edge, key>>

-----------------------------------------------------------------------------
\* keycode_reader's outputs, and the wires from them to the players.
dive == [n \in Players |-> key = (IF n = 1 THEN PoneDive ELSE PtwoDive)]
kick == [n \in Players |-> key = (IF n = 1 THEN PoneKick ELSE PtwoKick)]

Other(n) == 3 - n

\* PlayerX, PlayerY and divekickstatus of a player, as the others see them.
Shown(n) ==
  [x    |-> player[n].x,
   y    |-> player[n].y,
   what |-> Status(player[n], State, edge, dive[n], kick[n], player[Other(n)].x)]

\* P1_Hit_Detected and P2_Hit_Detected.
hits == Hits(Shown(1), Shown(2), gameTime)

-----------------------------------------------------------------------------
(***************************************************************************)
(* The inputs of a cycle.  The keyboard may change at any time, but a key  *)
(* is read only on the screens that wait for one and at a frame edge of    *)
(* the round; elsewhere "none" stands for every key.                       *)
(***************************************************************************)
KeysRead(gs, rising) ==
  CASE gs = Title                -> {NoKey, GameStart}
    [] gs = Victory_State        -> {NoKey, PoneDive}
    [] gs = Reset_State          -> IF Score'[1] + Score'[2] > MaxPoints
                                    THEN {NoKey} ELSE {NoKey, GameStart}
    [] gs = Playing /\ rising    -> Keys \ {GameStart}
    [] OTHER                     -> {NoKey}

\* VGA_VS is low for some time before it rises, so two edges are never adjacent.
\* Nobody looks at the edges on the title screen and the banners before a round.
NextInputs ==
  /\ edge' \in IF edge \/ State' \notin HitStates THEN {FALSE} ELSE BOOLEAN
  /\ key' \in KeysRead(State', edge')

PlayersMove(reset) ==
  player' = [n \in Players |->
               NextPlayer(n, player[n], reset, State, edge, dive[n], kick[n],
                          player[Other(n)].x)]

\* One edge of Clk with the reset button up or down.
Tick   == Running(key, hits) /\ PlayersMove(FALSE) /\ NextInputs
Button == ResetPressed(hits) /\ PlayersMove(TRUE) /\ NextInputs

LInit ==
  /\ Init
  /\ player = [n \in Players |-> PowerUp]
  /\ edge = FALSE
  /\ key \in {NoKey, GameStart}

LNext == Tick \/ Button

LSpec == LInit /\ [][LNext]_lvars /\ WF_lvars(LNext)

-----------------------------------------------------------------------------
\* Both players stand on their marks, whole, when a round is announced and
\* until it begins: nothing of the last round is carried over.
OnTheirMarks ==
  State \in {Ready_State, DiveKick_State} =>
    \A n \in Players : player[n] = Start(n)

\* Nobody is hit outside a round, however it ended: not while the banners
\* announce the next one, not on the title screen after the reset button was
\* pressed in the middle of a kick.  Match takes this for granted (HitInputs),
\* GameEngine.sv never looks at the state of the machine.
HitsOnlyInRound == hits \in HitInputs

\* The points given in Pause_State are those of the verdict the KO banner
\* shows as long as it is up: between the cycle that gives the points and the
\* last cycle of the banner the verdict does not change.
BannerShowsVerdict ==
  [][ /\ State \in {Pause_State, Pause_State_2}
      /\ State' = Pause_State_2
      => hits' = hits ]_lvars

\* Only two things move the verdict between the cycle that ends a round and the
\* next, which gives the points: a frame edge, and the clock as it reaches zero.
\* In every other cycle, the clock's other ticks among them, the round is
\* credited to whom the machine saw hitting, or nearer at a time-out
\* (GameState.sv:51, 81-87).  At a frame edge it need not be: see the README.
QuietVerdictStands ==
  [][ /\ State = Playing /\ State' = Pause_State
      /\ ~edge /\ (gameTime' = 0 <=> gameTime = 0)
      => hits' = hits ]_lvars

=============================================================================
