------------------------------ MODULE Signals -------------------------------
(***************************************************************************)
(* The values that travel on the wires between the modules lab8.sv         *)
(* connects: ten-bit words, poses, game states and keys.                   *)
(***************************************************************************)
EXTENDS Integers

\* Positions, motions and box sizes are logic [9:0]: arithmetic is modulo 2^10.
Width10 == 1024

Word10 == 0 .. Width10 - 1

Wrap(n) == n % Width10

\* whatdo / divekickstatus, the pose of a player (playerone.sv:27).
Idle      == 0
Jumping   == 1
KickRight == 2
KickLeft  == 3
Falling   == 4

Pose == Idle .. Falling

\* The states of the machine in GameState.sv, which gameState publishes.
Title          == "Title"
Ready_State    == "Ready_State"
DiveKick_State == "DiveKick_State"
Playing        == "Playing"
Pause_State    == "Pause_State"
Pause_State_2  == "Pause_State_2"
Reset_State    == "Reset_State"
Victory_State  == "Victory_State"

GameStates == {Title, Ready_State, DiveKick_State, Playing, Pause_State,
               Pause_State_2, Reset_State, Victory_State}

(***************************************************************************)
(* What keycode_reader.sv makes of the keycode port: at most one of its    *)
(* outputs is up, because the four lanes of the port carry the same byte   *)
(* (UsbKeyboard says why).  "none" is every other byte.            *)
(***************************************************************************)
NoKey     == "none"
PoneDive  == "W"
PoneKick  == "A"
PtwoDive  == "S"
PtwoKick  == "D"
GameStart == "Space"

Keys == {NoKey, PoneDive, PoneKick, PtwoDive, PtwoKick, GameStart}

=============================================================================
