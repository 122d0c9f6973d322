------------------------------- MODULE MCHal --------------------------------
(***************************************************************************)
(* The character driver (JtagUart) and the descriptors through which the   *)
(* program reaches it (HalFiles).  The calls on descriptors change nothing *)
(* of the driver, and the driver nothing of theirs: a behaviour is one of  *)
(* the driver, before start-up has redirected a descriptor, or one of the  *)
(* descriptors, with the driver as its initialisation left it.             *)
(***************************************************************************)
EXTENDS MCJtagUart, MCHalFiles

\* No call of the driver, and no character from the host.
Files == [calls |-> {}, modes |-> {}, texts |-> {}, wants |-> {}, typed |-> {},
          timeout |-> INT_MAX, queue |-> 0, polls |-> FALSE, alone |-> FALSE]

HInit ==
  /\ Init /\ FInit
  /\ use \in {Writing, Reading, Both, Silence, Files} /\ timeout = use.timeout

HNext ==
  \/ use # Files /\ MCNext /\ UNCHANGED fvars
  \/ use = Files /\ FNext /\ UNCHANGED <<vars, use>>

HSpec == HInit /\ [][HNext]_<<vars, fvars, use>> /\ Fairness
=============================================================================
