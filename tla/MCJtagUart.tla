----------------------------- MODULE MCJtagUart -----------------------------
(***************************************************************************)
(* The character driver with rings of three slots and device queues of two *)
(* characters.  A behaviour belongs to one use of the driver: characters   *)
(* of both kinds in one direction, or the two directions together with     *)
(* characters of one kind.                                                 *)
(***************************************************************************)
EXTENDS JtagUart

VARIABLE use

\* Writes that do not fit into the ring, and one that does.
MCTexts == {<<0, 1, 0>>, <<0, 0, 0>>, <<0>>}

\* What a use does: the calls it makes, whether they may wait, what they write
\* and read, what the host types, and the timeout the driver starts with.  Bounds:
\* how much of what is typed the device holds (queue), whether the host pauses
\* (polls), and whether a write waits until the last one has gone out (alone).
Writing == [calls |-> {"write", "close"}, modes |-> BOOLEAN, texts |-> {<<0, 1, 0>>, <<0>>},
            wants |-> {}, typed |-> {}, timeout |-> INT_MAX,
            queue |-> 0, polls |-> FALSE, alone |-> FALSE]
Reading == [calls |-> {"read"}, modes |-> {FALSE}, texts |-> {},
            wants |-> {2}, typed |-> {0, 1}, timeout |-> INT_MAX,
            queue |-> FIFO_DEPTH, polls |-> TRUE, alone |-> FALSE]
Both    == [calls |-> {"write", "read"}, modes |-> {TRUE}, texts |-> {<<0>>},
            wants |-> {1}, typed |-> {0}, timeout |-> INT_MAX,
            queue |-> 1, polls |-> TRUE, alone |-> TRUE]
Silence == [calls |-> {"write", "read", "close"}, modes |-> {FALSE}, texts |-> {<<0, 0, 0>>},
            wants |-> {1}, typed |-> {}, timeout |-> DEFAULT_TIMEOUT,
            queue |-> 0, polls |-> TRUE, alone |-> FALSE]

MCInit == Init /\ use \in {Writing, Reading, Both, Silence} /\ timeout = use.timeout

\* The calls the program makes and the keys the host types are those of its use.
Called ==
  /\ op' \in use.calls /\ nonblock' \in use.modes
  /\ op' = "write" => /\ todo' \in use.texts
                      /\ use.alone => tx_in = tx_out /\ txFifo = <<>>
  /\ op' = "read" => want' \in use.wants

Allowed ==
  /\ (pc = "idle" /\ pc' # "idle") => Called
  /\ Len(rxFifo') <= use.queue
  /\ (ac' /\ ~ac) => use.polls
  /\ Len(rxFifo') > Len(rxFifo) => rxFifo'[Len(rxFifo')] \in use.typed

MCNext == Next /\ Allowed /\ UNCHANGED use

MCSpec == MCInit /\ [][MCNext]_<<vars, use>> /\ Fairness
=============================================================================
