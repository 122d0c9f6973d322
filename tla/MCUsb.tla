------------------------------- MODULE MCUsb --------------------------------
(***************************************************************************)
(* The keyboard program with its controller (UsbKeyboard), and the bus     *)
(* between the two (HpiBus), on which each access that is one step of the  *)
(* first takes some fifty clocks of the second.  Their states are not      *)
(* related: a behaviour is one of the program, with the bus at rest, or    *)
(* one of the bus, with the program at rest.                               *)
(***************************************************************************)
EXTENDS MCUsbKeyboard, HpiBus

VARIABLE shown   \* which of the two the behaviour belongs to

\* One of the initial states of each, for the behaviours of the other.
BusAtRest == Reset = FALSE /\ held = 0 /\ mem = [w \in Word |-> 0] /\ ptr = 0
ProgramAtRest == plugged = FALSE

MCInit ==
  /\ Init /\ BInit
  /\ \/ shown = "program" /\ BusAtRest
     \/ shown = "bus" /\ ProgramAtRest

MCNext ==
  /\ UNCHANGED shown
  /\ \/ shown = "program" /\ Next /\ UNCHANGED bvars
     \/ shown = "bus" /\ BNext /\ UNCHANGED vars

MCSpec == MCInit /\ [][MCNext]_<<vars, bvars, shown>>
=============================================================================
