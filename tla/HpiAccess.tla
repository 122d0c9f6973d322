------------------------------ MODULE HpiAccess ------------------------------
(***************************************************************************)
(* What IO_init, IO_write and IO_read promise the keyboard program about   *)
(* the USB controller: each call reaches the controller once, with the     *)
(* address and the data it was called with, and a read returns the word    *)
(* the controller gave.  Two things are excepted: what happens until the   *)
(* end of IO_init, and a call during which the board's reset button, which *)
(* resets the bus but not the processor, is pressed.  HpiBus implements it.*)
(***************************************************************************)
EXTENDS Naturals

CONSTANT N   \* words in the controller's memory

VARIABLES
  mem, ptr,    \* the controller's memory, and the address it works at
  asked,       \* the call in progress
  done,        \* whether it has reached the controller
  disturbed,   \* whether the button was pressed during it
  value        \* the word the last read gave, or returned

vars == <<mem, ptr, asked, done, disturbed, value>>

Word == 0..(N - 1)
DataPort == 0
AddressPort == 2

None == [op |-> "none", address |-> DataPort, data |-> 0]
Call == [op : {"init", "write", "read"}, address : {DataPort, AddressPort}, data : Word]

Init ==
  /\ mem \in [Word -> Word] /\ ptr \in Word
  /\ asked = [op |-> "init", address |-> DataPort, data |-> 0] /\ done = FALSE
  /\ disturbed = FALSE /\ value = 0

Start == \E c \in Call :
  /\ asked = None /\ asked' = c
  /\ done' = FALSE /\ disturbed' = FALSE
  /\ UNCHANGED <<mem, ptr, value>>

\* Words are read and written at the address that was written last; each moves
\* on to the next.
Following(p) == (p + 1) % N

Written(port, d) ==
  /\ mem' = IF port = DataPort THEN [mem EXCEPT ![ptr] = d] ELSE mem
  /\ ptr' = IF port = DataPort THEN Following(ptr) ELSE d

Fetched(port, d) ==
  /\ d = IF port = DataPort THEN mem[ptr] ELSE ptr
  /\ ptr' = IF port = DataPort THEN Following(ptr) ELSE ptr
  /\ UNCHANGED mem

Reach ==
  /\ \/ /\ asked.op = "write" /\ UNCHANGED value
        /\ \E d \in IF disturbed' THEN Word ELSE {asked.data} : Written(asked.address, d)
     \/ asked.op = "read" /\ Fetched(asked.address, value')
  /\ disturbed' \in {disturbed, TRUE}
  /\ disturbed' \/ ~done
  /\ done' = TRUE
  /\ UNCHANGED asked

\* IO_init leaves the controller reset.
Settle ==
  /\ asked.op = "init"
  /\ mem' \in [Word -> Word] /\ ptr' \in Word /\ done' \in BOOLEAN
  /\ disturbed' \in {disturbed, TRUE}
  /\ (done' /\ ~disturbed') => ptr' = 0
  /\ UNCHANGED <<asked, value>>

Disturb ==
  /\ asked # None /\ disturbed' = TRUE
  /\ UNCHANGED <<mem, ptr, asked, done, value>>

Return ==
  /\ asked # None
  /\ disturbed \/ done
  /\ asked' = None /\ done' = FALSE /\ disturbed' = FALSE
  /\ value' \in IF disturbed THEN Word ELSE {value}
  /\ UNCHANGED <<mem, ptr>>

\* The controller works on its memory by itself.
Work ==
  /\ \E a, d \in Word : mem' = [mem EXCEPT ![a] = d]
  /\ UNCHANGED <<ptr, asked, done, disturbed, value>>

Next == Start \/ Reach \/ Settle \/ Disturb \/ Return \/ Work

Spec == Init /\ [][Next]_vars
=============================================================================
