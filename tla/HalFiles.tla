------------------------------ MODULE HalFiles ------------------------------
(***************************************************************************)
(* The file descriptors of the board support package under the keyboard    *)
(* program: the pool (alt_fd_list), how start-up points the three standard *)
(* descriptors at the character device, and what open, close, ioctl and    *)
(* fcntl do to the pool.  Nothing but the program touches it, so each call *)
(* is one action.  The transfers themselves are the driver's (JtagUart).   *)
(***************************************************************************)
EXTENDS Integers

CONSTANTS
  ALT_MAX_FD,   \* descriptors in the pool
  Null, Uart,   \* the devices: /dev/null, and the character device
  NoDev,        \* no device
  Names         \* the names the program may try to open

ASSUME FilesAssumption ==
  /\ ALT_MAX_FD \in Nat /\ ALT_MAX_FD > 3
  /\ Null # Uart /\ NoDev \notin {Null, Uart} /\ NoDev \notin Names

VARIABLES
  stage,         \* how far start-up has come
  alt_dev_list,  \* the devices registered
  dev, flags,    \* of each descriptor: its device and its flags
  alt_max_fd,    \* the highest descriptor ever taken from the pool
  owned          \* what the program got from open and has not closed

fvars == <<stage, alt_dev_list, dev, flags, alt_max_fd, owned>>

-----------------------------------------------------------------------------
Fd == 0..(ALT_MAX_FD - 1)
Std == 0..2
Device == {Null, Uart}
Stages == {"loaded", "redirect_out", "redirect_in", "redirect_err", "running"}

\* Read-only access is the absence of WRONLY.
OpenFlags == {"WRONLY", "NONBLOCK"}
FcntlFlags == {"NONBLOCK"}
Flags == OpenFlags \cup {"DEV", "EXCL"}

\* The static pool: three descriptors on /dev/null, taken by nobody's open.
FInit ==
  /\ stage = "loaded" /\ alt_dev_list = {Null}
  /\ dev = [i \in Fd |-> IF i \in Std THEN Null ELSE NoDev]
  /\ flags = [i \in Fd |-> {}]
  /\ alt_max_fd = -1 /\ owned = {}

-----------------------------------------------------------------------------
\* alt_find_dev; no file system is registered, so alt_find_file finds none.
Find(name) == IF name \in alt_dev_list THEN name ELSE NoDev

Free == {i \in Fd : dev[i] = NoDev}

\* alt_get_fd takes the first free descriptor.
Taken == CHOOSE i \in Free : \A j \in Free : i <= j
\* Bug: the mark follows the last descriptor taken.
HighWater_Last(i) == i

HighWater(i) == IF i > alt_max_fd THEN i ELSE alt_max_fd

\* Bug: the search stops one short, as it does in alt_fd_lock.
Locked_OneShort(d) == \E j \in 0..(HighWater(Taken) - 1) :
  j # Taken /\ dev[j] = d /\ "EXCL" \in flags[j]

\* alt_file_locked, for the descriptor that was just taken.
Locked(d) == \E j \in 0..HighWater(Taken) :
  j # Taken /\ dev[j] = d /\ "EXCL" \in flags[j]

\* Bug: the standard descriptors are released, too.
Released_All(f, i, value) == [f EXCEPT ![i] = value]

\* alt_release_fd keeps the standard descriptors.
Released(f, i, value) == IF i > 2 THEN [f EXCEPT ![i] = value] ELSE f

\* open has found a device, a descriptor, and no lock on the device.
Opens(name) == Find(name) # NoDev /\ Free # {} /\ ~Locked(Find(name))

-----------------------------------------------------------------------------
(* Start-up *)

\* alt_sys_init registers the character device.
SysInit ==
  /\ stage = "loaded" /\ stage' = "redirect_out"
  /\ alt_dev_list' = alt_dev_list \cup {Uart}
  /\ UNCHANGED <<dev, flags, alt_max_fd, owned>>

\* alt_open_fd: the device is opened like any other, the standard descriptor
\* gets a copy of what open set up, and the one from the pool is given back.
\* The high-water mark stays.
Redirect(i, fl) ==
  /\ IF Opens(Uart)
     THEN /\ dev' = [dev EXCEPT ![i] = Uart]
          /\ flags' = [flags EXCEPT ![i] = fl \cup {"DEV"}]
          /\ alt_max_fd' = HighWater(Taken)
     ELSE UNCHANGED <<dev, flags, alt_max_fd>>
  /\ UNCHANGED <<alt_dev_list, owned>>

RedirectOut == stage = "redirect_out" /\ stage' = "redirect_in" /\ Redirect(1, {"WRONLY"})
RedirectIn == stage = "redirect_in" /\ stage' = "redirect_err" /\ Redirect(0, {})
RedirectErr == stage = "redirect_err" /\ stage' = "running" /\ Redirect(2, {"WRONLY"})

-----------------------------------------------------------------------------
(* The program's calls.  It passes descriptors that are open: a closed one   *)
(* has no device to vector to, and a negative one is refused at once.        *)

Running == stage = "running" /\ UNCHANGED <<stage, alt_dev_list>>

InUse == Std \cup owned

Open(name, fl) ==
  /\ Running /\ Opens(name)
  /\ dev' = [dev EXCEPT ![Taken] = Find(name)]
  /\ flags' = [flags EXCEPT ![Taken] = fl \cup {"DEV"}]
  /\ alt_max_fd' = HighWater(Taken)
  /\ owned' = owned \cup {Taken}

\* Bug: an open that meets a lock keeps the descriptor.
OpenFails_Keeps(name) ==
  /\ Running /\ ~Opens(name)
  /\ IF Find(name) # NoDev /\ Free # {}
     THEN alt_max_fd' = HighWater(Taken) /\ dev' = [dev EXCEPT ![Taken] = Find(name)]
     ELSE UNCHANGED <<alt_max_fd, dev>>
  /\ UNCHANGED <<flags, owned>>

\* The name is unknown, the pool is empty, or the device is locked: then the
\* descriptor has been taken and is given back, and the mark stays.
OpenFails(name) ==
  /\ Running /\ ~Opens(name)
  /\ alt_max_fd' = IF Find(name) # NoDev /\ Free # {} THEN HighWater(Taken) ELSE alt_max_fd
  /\ UNCHANGED <<dev, flags, owned>>

\* The descriptor is released even if the driver's close reports an error.
CloseFd(i) ==
  /\ Running
  /\ dev' = Released(dev, i, NoDev)
  /\ flags' = Released(flags, i, {})
  /\ owned' = owned \ {i}
  /\ UNCHANGED alt_max_fd

\* alt_fd_lock looks at the descriptors below the high-water mark, not at the
\* one at the mark.
Excludes(i) == \A j \in 0..(alt_max_fd - 1) : j # i => dev[j] # dev[i]

LockIt(i) ==
  /\ Running
  /\ "DEV" \in flags[i] /\ Excludes(i)
  /\ flags' = [flags EXCEPT ![i] = @ \cup {"EXCL"}]
  /\ UNCHANGED <<dev, alt_max_fd, owned>>

UnlockIt(i) ==
  /\ Running
  /\ "DEV" \in flags[i]
  /\ flags' = [flags EXCEPT ![i] = @ \ {"EXCL"}]
  /\ UNCHANGED <<dev, alt_max_fd, owned>>

\* What read and write ask of a descriptor before they vector to the driver.
MayRead(i) == "WRONLY" \notin flags[i]
MayWrite(i) == "WRONLY" \in flags[i]

\* F_SETFL changes only the flags fcntl may change.
SetFlags(i, fl) ==
  /\ Running
  /\ flags' = [flags EXCEPT ![i] = (@ \ FcntlFlags) \cup (fl \cap FcntlFlags)]
  /\ UNCHANGED <<dev, alt_max_fd, owned>>

FNext ==
  \/ SysInit \/ RedirectOut \/ RedirectIn \/ RedirectErr
  \/ \E name \in Names :
       OpenFails(name) \/ \E fl \in SUBSET OpenFlags : Open(name, fl)
  \/ \E i \in InUse :
       CloseFd(i) \/ LockIt(i) \/ UnlockIt(i) \/ \E fl \in SUBSET Flags : SetFlags(i, fl)

FSpec == FInit /\ [][FNext]_fvars

-----------------------------------------------------------------------------
\* Every variable has its type.
FTypeOK ==
  /\ stage \in Stages /\ alt_dev_list \subseteq Device
  /\ dev \in [Fd -> Device \cup {NoDev}]
  /\ flags \in [Fd -> SUBSET Flags]
  /\ alt_max_fd \in -1..(ALT_MAX_FD - 1)
  /\ owned \subseteq Fd

\* The pool and the program agree: above the standard descriptors exactly those
\* that open returned and close has not seen are in use.  No failing open, no
\* start-up and no failing close loses a descriptor or hands one out twice.
NoLeak == \A i \in Fd \ Std : dev[i] # NoDev <=> i \in owned

\* Once the program runs its standard descriptors refer to the character
\* device, readable or writable as they were redirected, whatever it opens,
\* closes, locks or sets: printf always has somewhere to go.  And nobody gets
\* that device for himself: every attempt meets another standard descriptor.
StreamsStay ==
  /\ stage = "running" =>
       \A i \in Std : dev[i] = Uart /\ "DEV" \in flags[i] /\ (MayWrite(i) <=> i # 0)
                                                      /\ (MayRead(i) <=> i = 0)
  /\ \A i \in Fd : dev[i] = Uart => "EXCL" \notin flags[i]

\* A device's lock has one holder at most, although the search for other users
\* stops one short (alt_fd_lock.c 61): the descriptor it misses is the highest,
\* and that one in turn meets the holder.
OneHolder == \A i, j \in Fd :
  ("EXCL" \in flags[i] /\ "EXCL" \in flags[j] /\ dev[i] = dev[j]) => i = j

\* alt_fd_lock.c 43-45: the lock is granted if no other open descriptor refers
\* to the device, and until it is released no other is opened.  So the holder of
\* a lock is the only user of its device.
HolderIsAlone == \A i, j \in Fd :
  ("EXCL" \in flags[i] /\ dev[j] = dev[i]) => i = j

\* The program's view, without the standard descriptors, which keep the
\* character device: the pool does what DescriptorPool says, but for the users
\* of a device that a lock overlooks, and that is the descriptor at the
\* high-water mark and no other.
Holders(d) == {i \in Fd \ Std : dev[i] = d /\ "EXCL" \in flags[i]}
HolderOf(d) == IF Holders(d) = {} THEN -1 ELSE CHOOSE i \in Holders(d) : TRUE

Promise == INSTANCE DescriptorPool WITH
  Fd <- Fd \ Std, NoFd <- -1, Streams <- {Uart}, overlooked <- {alt_max_fd},
  refersTo <- [i \in Fd \ Std |-> dev[i]],
  holder <- [d \in Device |-> HolderOf(d)]

PromiseKept == Promise!Spec
=============================================================================
