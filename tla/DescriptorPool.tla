--------------------------- MODULE DescriptorPool ---------------------------
(***************************************************************************)
(* What the HAL's open, close and ioctl promise the program about file     *)
(* descriptors: a descriptor handed out is one that nobody has, it refers  *)
(* to the device asked for until it is closed, a device's exclusive lock   *)
(* is granted to its only user, and while it is held no other descriptor   *)
(* is opened for the device.  The documentation is the instance with       *)
(* overlooked <- {} (alt_fd_lock.c:43-45).                                 *)
(***************************************************************************)
CONSTANTS
  Fd, Device, NoDev, NoFd,
  Streams       \* the devices that the standard descriptors use for ever

VARIABLES
  refersTo,   \* the device of each descriptor that is open
  holder,     \* the descriptor that holds each device's lock
  overlooked  \* input: descriptors that granting a lock takes no notice of

vars == <<refersTo, holder>>

Init == refersTo = [i \in Fd |-> NoDev] /\ holder = [d \in Device |-> NoFd]

Open == \E i \in Fd, d \in Device :
  /\ refersTo[i] = NoDev /\ holder[d] = NoFd
  /\ refersTo' = [refersTo EXCEPT ![i] = d]
  /\ UNCHANGED holder

Close == \E i \in Fd :
  /\ refersTo[i] # NoDev
  /\ refersTo' = [refersTo EXCEPT ![i] = NoDev]
  /\ holder' = [d \in Device |-> IF holder[d] = i THEN NoFd ELSE holder[d]]

\* No other open descriptor refers to the device of this one.
OnlyUser(i) ==
  /\ refersTo[i] \notin Streams
  /\ \A j \in Fd \ {i} : refersTo[j] = refersTo[i] => j \in overlooked

Lock == \E i \in Fd : LET d == refersTo[i] IN
  /\ d # NoDev /\ holder[d] = NoFd /\ OnlyUser(i)
  /\ holder' = [holder EXCEPT ![d] = i]
  /\ UNCHANGED refersTo

Unlock == \E d \in Device :
  /\ holder' = [holder EXCEPT ![d] = NoFd]
  /\ UNCHANGED refersTo

Next == Open \/ Close \/ Lock \/ Unlock

Spec == Init /\ [][Next]_vars
=============================================================================
