--------------------------- MODULE HalFiles_proofs ---------------------------
(***************************************************************************)
(* For a pool of any size and any names: the program's descriptors and the *)
(* pool agree, the standard streams stay on a device that nobody locks,    *)
(* and a device's lock has one holder.  The lock's search is one short;    *)
(* what makes up for it is that a holder is the lowest descriptor of its   *)
(* device (HoldersAreLowest).                                              *)
(***************************************************************************)
EXTENDS HalFiles, WellFoundedInduction, TLAPS

\* No descriptor in use is above the mark the searches stop at.
MarkCovers == \A i \in Fd \ Std : dev[i] # NoDev => i <= alt_max_fd

ClosedUnlocked == \A i \in Fd : dev[i] = NoDev => "EXCL" \notin flags[i]

HoldersAreLowest == \A i, j \in Fd :
  ("EXCL" \in flags[j] /\ dev[i] = dev[j] /\ i # j) => j < i

StdTaken == \A i \in Std : dev[i] # NoDev

Redirected(i) == dev[i] = Uart /\ "DEV" \in flags[i] /\ ("WRONLY" \in flags[i] <=> i # 0)

Unlocked == \A i \in Fd : dev[i] = Uart => "EXCL" \notin flags[i]

StartUp ==
  /\ stage # "running" => owned = {} /\ \A i \in Fd : "EXCL" \notin flags[i]
  /\ stage # "loaded" => Uart \in alt_dev_list
  /\ stage \in {"redirect_in", "redirect_err", "running"} => Redirected(1) /\ alt_max_fd >= 3
  /\ stage \in {"redirect_err", "running"} => Redirected(0)
  /\ stage = "running" => Redirected(2)

IInv == /\ FTypeOK /\ NoLeak /\ MarkCovers /\ ClosedUnlocked
        /\ HoldersAreLowest /\ StdTaken /\ StartUp /\ Unlocked

-----------------------------------------------------------------------------
LEMMA Constants ==
  /\ ALT_MAX_FD \in Nat /\ ALT_MAX_FD > 3
  /\ Std \subseteq Fd /\ 0 \in Std /\ 1 \in Std /\ 2 \in Std /\ 3 \in Fd /\ 3 \notin Std
  /\ \A i \in Fd : i \in Nat /\ i < ALT_MAX_FD /\ (i \in Std <=> i <= 2)
  /\ NoDev \notin Device /\ Uart \in Device /\ Null \in Device
BY FilesAssumption DEF Fd, Std, Device

\* The pool hands out a free descriptor, if there is one.
LEMMA TakenIsFree ==
  ASSUME Free # {}
  PROVE  Taken \in Free
<1>1. Free \subseteq Nat
  BY Constants DEF Free
<1>2. PICK i \in Free : \A j \in Free : ~(<<j, i>> \in OpToRel(<, Nat))
  BY <1>1, WFMin, NatLessThanWellFounded
<1>3. ASSUME NEW j \in Free PROVE i <= j
  <2>1. i \in Nat /\ j \in Nat
    BY <1>1
  <2>2. j < i => <<j, i>> \in OpToRel(<, Nat)
    BY <2>1 DEF OpToRel
  <2>3. ~(j < i)
    BY <1>2, <2>2
  <2> QED
    BY <2>1, <2>3
<1> QED
  BY <1>3 DEF Taken

LEMMA MarkRises ==
  ASSUME IInv, NEW i \in Fd \ Std
  PROVE  /\ HighWater(i) \in Int /\ HighWater(i) < ALT_MAX_FD
         /\ HighWater(i) \in -1..(ALT_MAX_FD - 1) /\ alt_max_fd \in Int
         /\ HighWater(i) >= i /\ HighWater(i) >= 3 /\ HighWater(i) >= alt_max_fd
<1>1. i \in Nat /\ i < ALT_MAX_FD /\ i >= 3 /\ ALT_MAX_FD \in Nat
  BY Constants
<1>2. alt_max_fd \in Int /\ alt_max_fd >= -1 /\ alt_max_fd < ALT_MAX_FD
  BY <1>1 DEF IInv, FTypeOK
<1>3. CASE i > alt_max_fd
  BY <1>1, <1>2, <1>3 DEF HighWater
<1>4. CASE ~(i > alt_max_fd)
  BY <1>1, <1>2, <1>4 DEF HighWater
<1> QED
  BY <1>3, <1>4

LEMMA InitIInv == FInit => IInv
<1> SUFFICES ASSUME FInit PROVE IInv
  OBVIOUS
<1>1. FTypeOK
  <2>1. dev \in [Fd -> Device \cup {NoDev}] /\ flags \in [Fd -> SUBSET Flags]
    BY Constants DEF FInit
  <2> QED
    BY <2>1, Constants DEF FInit, FTypeOK, Stages
<1>2. NoLeak /\ MarkCovers /\ StdTaken
  BY Constants DEF FInit, NoLeak, MarkCovers, StdTaken
<1>3. ClosedUnlocked /\ HoldersAreLowest /\ StartUp /\ Unlocked
  BY Constants DEF FInit, ClosedUnlocked, HoldersAreLowest, StartUp, Unlocked
<1> QED
  BY <1>1, <1>2, <1>3 DEF IInv

-----------------------------------------------------------------------------
(* Start-up *)

\* While it starts up the program finds the device, room and no lock.
LEMMA RedirectOpens ==
  ASSUME IInv, stage \in {"redirect_out", "redirect_in", "redirect_err"}
  PROVE  /\ Opens(Uart) /\ Taken \in Fd \ Std
         /\ HighWater(Taken) \in -1..(ALT_MAX_FD - 1)
         /\ HighWater(Taken) >= 3 /\ HighWater(Taken) >= alt_max_fd
<1>1. owned = {} /\ Uart \in alt_dev_list /\ \A i \in Fd : "EXCL" \notin flags[i]
  BY DEF IInv, StartUp
<1>2. 3 \in Free
  BY <1>1, Constants DEF IInv, NoLeak, Free
<1>3. Taken \in Free
  BY <1>2, TakenIsFree
<1>4. Taken \in Fd \ Std
  BY <1>3 DEF Free, IInv, StdTaken
<1>5. /\ HighWater(Taken) \in -1..(ALT_MAX_FD - 1)
      /\ HighWater(Taken) >= 3 /\ HighWater(Taken) >= alt_max_fd
      /\ HighWater(Taken) \in Int /\ HighWater(Taken) < ALT_MAX_FD
  BY <1>4, MarkRises
<1>6. Find(Uart) = Uart
  BY <1>1 DEF Find
<1>7. ~Locked(Uart)
  <2>1. \A m \in Int : m < ALT_MAX_FD => \A j \in 0..m : j \in Fd
    BY FilesAssumption DEF Fd
  <2>3. \A j \in 0..HighWater(Taken) : j \in Fd
    BY <1>5, <2>1
  <2> QED
    BY <1>1, <2>3 DEF Locked
<1> QED
  BY <1>2, <1>4, <1>5, <1>6, <1>7, Constants DEF Opens

LEMMA RedirectStep ==
  ASSUME IInv, stage \in {"redirect_out", "redirect_in", "redirect_err"},
         NEW i \in Std, NEW fl, fl \in {{}, {"WRONLY"}}, Redirect(i, fl), stage' \in Stages
  PROVE  /\ FTypeOK' /\ NoLeak' /\ MarkCovers' /\ ClosedUnlocked'
         /\ HoldersAreLowest' /\ StdTaken' /\ Unlocked'
         /\ alt_max_fd' >= 3 /\ owned' = {} /\ \A j \in Fd : "EXCL" \notin flags'[j]
         /\ dev'[i] = Uart /\ flags'[i] = fl \cup {"DEV"}
         /\ \A j \in Fd : j # i => dev'[j] = dev[j] /\ flags'[j] = flags[j]
         /\ Uart \in alt_dev_list'
<1>1. /\ dev' = [dev EXCEPT ![i] = Uart] /\ flags' = [flags EXCEPT ![i] = fl \cup {"DEV"}]
      /\ alt_max_fd' = HighWater(Taken) /\ alt_dev_list' = alt_dev_list /\ owned' = owned
  BY RedirectOpens DEF Redirect
<1>2. FTypeOK /\ i \in Fd /\ owned = {} /\ Uart \in alt_dev_list /\ \A j \in Fd : "EXCL" \notin flags[j]
  BY Constants DEF IInv, StartUp
<1>3. /\ dev'[i] = Uart /\ flags'[i] = fl \cup {"DEV"}
      /\ \A j \in Fd : j # i => dev'[j] = dev[j] /\ flags'[j] = flags[j]
  BY <1>1, <1>2 DEF FTypeOK
<1>4. \A j \in Fd : "EXCL" \notin flags'[j]
  <2>1. "EXCL" \notin flags'[i]
    BY <1>3
  <2> QED
    BY <1>2, <1>3, <2>1
<1>5. FTypeOK'
  <2>1. fl \cup {"DEV"} \in SUBSET Flags
    BY DEF Flags, OpenFlags
  <2> QED
    BY <1>1, <1>2, <2>1, RedirectOpens, Constants DEF FTypeOK
<1>6. NoLeak' /\ MarkCovers' /\ StdTaken'
  <2>1. \A j \in Fd \ Std : dev'[j] = dev[j]
    BY <1>3
  <2>2. alt_max_fd' \in Int /\ alt_max_fd \in Int /\ alt_max_fd' >= alt_max_fd
    <3>1. Taken \in Fd \ Std
      BY RedirectOpens
    <3>2. HighWater(Taken) \in Int /\ alt_max_fd \in Int /\ HighWater(Taken) >= alt_max_fd
      BY <3>1, MarkRises
    <3> QED
      BY <1>1, <3>2
  <2>3. \A j \in Fd \ Std : j \in Nat
    BY Constants
  <2>4. NoLeak'
    BY <1>1, <2>1 DEF IInv, NoLeak
  <2>5. MarkCovers'
    <3>1. \A j \in Fd \ Std : dev[j] # NoDev => j <= alt_max_fd
      BY DEF IInv, MarkCovers
    <3>2. ASSUME NEW j \in Fd \ Std, dev'[j] # NoDev PROVE j <= alt_max_fd'
      <4>1. j <= alt_max_fd
        BY <2>1, <3>1, <3>2
      <4>2. j \in Nat
        BY <2>3
      <4> QED
        BY <2>2, <4>1, <4>2
    <3> QED
      BY <3>2 DEF MarkCovers
  <2>6. StdTaken'
    BY <1>3, Constants DEF IInv, StdTaken
  <2> QED
    BY <2>4, <2>5, <2>6
<1>7. ClosedUnlocked' /\ HoldersAreLowest' /\ Unlocked'
  BY <1>4 DEF ClosedUnlocked, HoldersAreLowest, Unlocked
<1> QED
  BY <1>1, <1>2, <1>3, <1>4, <1>5, <1>6, <1>7, RedirectOpens

LEMMA StartUpStep ==
  ASSUME IInv, SysInit \/ RedirectOut \/ RedirectIn \/ RedirectErr
  PROVE  IInv'
<1>1. CASE SysInit
  <2>1. UNCHANGED <<dev, flags, alt_max_fd, owned>> /\ stage = "loaded" /\ stage' = "redirect_out"
        /\ alt_dev_list' = alt_dev_list \cup {Uart}
    BY <1>1 DEF SysInit
  <2>2. FTypeOK'
    BY <2>1, Constants DEF IInv, FTypeOK, Stages
  <2> QED
    BY <2>1, <2>2 DEF IInv, NoLeak, MarkCovers, ClosedUnlocked, HoldersAreLowest, StdTaken, StartUp, Unlocked
<1>2. CASE RedirectOut
  <2>1. stage = "redirect_out" /\ stage' = "redirect_in" /\ Redirect(1, {"WRONLY"})
    BY <1>2 DEF RedirectOut
  <2>2. stage' \in Stages /\ stage \in {"redirect_out", "redirect_in", "redirect_err"}
    BY <2>1 DEF Stages
  <2>3. /\ FTypeOK' /\ NoLeak' /\ MarkCovers' /\ ClosedUnlocked'
        /\ HoldersAreLowest' /\ StdTaken' /\ Unlocked'
    BY <2>1, <2>2, RedirectStep, Constants
  <2>4. /\ alt_max_fd' >= 3 /\ owned' = {} /\ \A j \in Fd : "EXCL" \notin flags'[j]
        /\ dev'[1] = Uart /\ flags'[1] = {"WRONLY"} \cup {"DEV"}
        /\ \A j \in Fd : j # 1 => dev'[j] = dev[j] /\ flags'[j] = flags[j]
        /\ Uart \in alt_dev_list'
    BY <2>1, <2>2, RedirectStep, Constants
  <2>5. StartUp'
    BY <2>1, <2>4, Constants DEF IInv, StartUp, Redirected
  <2> QED
    BY <2>3, <2>5 DEF IInv
<1>3. CASE RedirectIn
  <2>1. stage = "redirect_in" /\ stage' = "redirect_err" /\ Redirect(0, {})
    BY <1>3 DEF RedirectIn
  <2>2. stage' \in Stages /\ stage \in {"redirect_out", "redirect_in", "redirect_err"}
    BY <2>1 DEF Stages
  <2>3. /\ FTypeOK' /\ NoLeak' /\ MarkCovers' /\ ClosedUnlocked'
        /\ HoldersAreLowest' /\ StdTaken' /\ Unlocked'
    BY <2>1, <2>2, RedirectStep, Constants
  <2>4. /\ alt_max_fd' >= 3 /\ owned' = {} /\ \A j \in Fd : "EXCL" \notin flags'[j]
        /\ dev'[0] = Uart /\ flags'[0] = {} \cup {"DEV"}
        /\ \A j \in Fd : j # 0 => dev'[j] = dev[j] /\ flags'[j] = flags[j]
        /\ Uart \in alt_dev_list'
    BY <2>1, <2>2, RedirectStep, Constants
  <2>5. StartUp'
    BY <2>1, <2>4, Constants DEF IInv, StartUp, Redirected
  <2> QED
    BY <2>3, <2>5 DEF IInv
<1>4. CASE RedirectErr
  <2>1. stage = "redirect_err" /\ stage' = "running" /\ Redirect(2, {"WRONLY"})
    BY <1>4 DEF RedirectErr
  <2>2. stage' \in Stages /\ stage \in {"redirect_out", "redirect_in", "redirect_err"}
    BY <2>1 DEF Stages
  <2>3. /\ FTypeOK' /\ NoLeak' /\ MarkCovers' /\ ClosedUnlocked'
        /\ HoldersAreLowest' /\ StdTaken' /\ Unlocked'
    BY <2>1, <2>2, RedirectStep, Constants
  <2>4. /\ alt_max_fd' >= 3 /\ owned' = {} /\ \A j \in Fd : "EXCL" \notin flags'[j]
        /\ dev'[2] = Uart /\ flags'[2] = {"WRONLY"} \cup {"DEV"}
        /\ \A j \in Fd : j # 2 => dev'[j] = dev[j] /\ flags'[j] = flags[j]
        /\ Uart \in alt_dev_list'
    BY <2>1, <2>2, RedirectStep, Constants
  <2>5. StartUp'
    BY <2>1, <2>4, Constants DEF IInv, StartUp, Redirected
  <2> QED
    BY <2>3, <2>5 DEF IInv
<1> QED
  BY <1>1, <1>2, <1>3, <1>4

-----------------------------------------------------------------------------
(* The program's calls *)

\* What holds once the program runs.
LEMMA WhenRunning ==
  ASSUME IInv, Running
  PROVE  /\ stage = "running" /\ stage' = "running" /\ alt_dev_list' = alt_dev_list
         /\ FTypeOK /\ alt_max_fd >= 3 /\ alt_max_fd \in Nat
         /\ \A i \in Std : dev[i] = Uart /\ "EXCL" \notin flags[i]
         /\ \A i \in Fd : dev[i] # NoDev => i <= alt_max_fd
         /\ \A i \in InUse : i \in Fd /\ dev[i] # NoDev
<1>1. stage = "running" /\ stage' = "running" /\ alt_dev_list' = alt_dev_list
  BY DEF Running
<1>2. FTypeOK /\ alt_max_fd >= 3 /\ alt_max_fd \in Nat
  BY <1>1, Constants DEF IInv, StartUp, FTypeOK
<1>3. \A i \in Std : dev[i] = Uart /\ "EXCL" \notin flags[i]
  BY <1>1, Constants DEF IInv, StartUp, Redirected, Unlocked, Std
<1>4. \A i \in Fd : dev[i] # NoDev => i <= alt_max_fd
  <2> SUFFICES ASSUME NEW i \in Fd, dev[i] # NoDev PROVE i <= alt_max_fd
    OBVIOUS
  <2>1. CASE i \in Std
    BY <1>2, <2>1, Constants
  <2>2. CASE i \notin Std
    BY <2>2 DEF IInv, MarkCovers
  <2> QED
    BY <2>1, <2>2
<1>5. \A i \in InUse : i \in Fd /\ dev[i] # NoDev
  BY <1>2, <1>3, Constants DEF InUse, IInv, NoLeak, StdTaken, FTypeOK
<1> QED
  BY <1>1, <1>2, <1>3, <1>4, <1>5

\* An open that finds everything takes a free descriptor for a device that
\* nobody has locked.
LEMMA OpenTakes ==
  ASSUME IInv, NEW name, NEW fl, Open(name, fl)
  PROVE  /\ Taken \in Fd \ Std /\ dev[Taken] = NoDev /\ Find(name) \in Device
         /\ HighWater(Taken) \in -1..(ALT_MAX_FD - 1)
         /\ HighWater(Taken) >= Taken /\ HighWater(Taken) >= alt_max_fd
         /\ \A j \in Fd : dev[j] = Find(name) => "EXCL" \notin flags[j]
<1>1. Running /\ Find(name) # NoDev /\ Free # {} /\ ~Locked(Find(name))
  BY DEF Open, Opens
<1>2. Taken \in Fd \ Std /\ dev[Taken] = NoDev
  BY <1>1, TakenIsFree DEF Free, IInv, StdTaken
<1>3. Find(name) \in Device
  BY <1>1 DEF Find, IInv, FTypeOK
<1>4. /\ HighWater(Taken) \in -1..(ALT_MAX_FD - 1)
      /\ HighWater(Taken) >= Taken /\ HighWater(Taken) >= alt_max_fd
  BY <1>2, MarkRises
<1>5. ASSUME NEW j \in Fd, dev[j] = Find(name)
      PROVE  "EXCL" \notin flags[j]
  <2>1. j <= alt_max_fd /\ j \in Nat /\ alt_max_fd \in Nat
    BY <1>1, <1>5, WhenRunning, Constants
  <2>2. j \in 0..HighWater(Taken) /\ j # Taken
    BY <1>1, <1>2, <1>4, <1>5, <2>1
  <2> QED
    BY <1>1, <1>5, <2>2 DEF Locked
<1> QED
  BY <1>2, <1>3, <1>4, <1>5

LEMMA OpenStep ==
  ASSUME IInv, NEW name, NEW fl \in SUBSET OpenFlags, Open(name, fl)
  PROVE  IInv'
<1> DEFINE t == Taken
<1>1. /\ dev' = [dev EXCEPT ![t] = Find(name)] /\ flags' = [flags EXCEPT ![t] = fl \cup {"DEV"}]
      /\ alt_max_fd' = HighWater(t) /\ owned' = owned \cup {t} /\ Running
  BY DEF Open
<1>2. /\ t \in Fd /\ t \notin Std /\ dev[t] = NoDev /\ Find(name) \in Device
      /\ \A j \in Fd : dev[j] = Find(name) => "EXCL" \notin flags[j]
  BY OpenTakes
<1>3. /\ HighWater(t) \in Int /\ HighWater(t) \in -1..(ALT_MAX_FD - 1) /\ alt_max_fd \in Int
      /\ HighWater(t) >= t /\ HighWater(t) >= 3 /\ HighWater(t) >= alt_max_fd
  BY <1>2, MarkRises
<1>4. /\ stage = "running" /\ stage' = "running" /\ alt_dev_list' = alt_dev_list /\ FTypeOK
      /\ \A i \in Std : dev[i] = Uart /\ "EXCL" \notin flags[i]
  BY <1>1, WhenRunning
<1> HIDE DEF t
<1>5. "EXCL" \notin fl \cup {"DEV"} /\ fl \cup {"DEV"} \in SUBSET Flags
  BY DEF OpenFlags, Flags
<1>6. /\ dev'[t] = Find(name) /\ flags'[t] = fl \cup {"DEV"}
      /\ \A j \in Fd : j # t => dev'[j] = dev[j] /\ flags'[j] = flags[j]
  BY <1>1, <1>2, <1>4 DEF FTypeOK
<1>7. Find(name) # NoDev
  BY <1>2, Constants
<1>8. FTypeOK'
  BY <1>1, <1>2, <1>3, <1>4, <1>5 DEF FTypeOK
<1>9. NoLeak'
  BY <1>1, <1>2, <1>6, <1>7 DEF IInv, NoLeak
<1>10. MarkCovers'
  <2> SUFFICES ASSUME NEW j \in Fd \ Std, dev'[j] # NoDev PROVE j <= HighWater(t)
    BY <1>1 DEF MarkCovers
  <2>1. CASE j = t
    BY <1>2, <1>3, <2>1, Constants
  <2>2. CASE j # t
    <3>1. j <= alt_max_fd /\ j \in Nat
      BY <1>6, <2>2, Constants DEF IInv, MarkCovers
    <3> QED
      BY <1>3, <3>1
  <2> QED
    BY <2>1, <2>2
<1>11. ClosedUnlocked'
  BY <1>5, <1>6 DEF IInv, ClosedUnlocked
<1>12. HoldersAreLowest'
  <2> SUFFICES ASSUME NEW i \in Fd, NEW j \in Fd, "EXCL" \in flags'[j], dev'[i] = dev'[j], i # j
               PROVE  j < i
    BY DEF HoldersAreLowest
  <2>1. j # t
    BY <1>5, <1>6
  <2>2. "EXCL" \in flags[j] /\ dev'[j] = dev[j]
    BY <1>6, <2>1
  <2>3. i # t
    BY <1>2, <1>6, <2>2
  <2>4. dev[i] = dev[j]
    BY <1>6, <2>2, <2>3
  <2> QED
    BY <2>2, <2>4 DEF IInv, HoldersAreLowest
<1>13. StdTaken' /\ Unlocked'
  BY <1>2, <1>5, <1>6, <1>7, Constants DEF IInv, StdTaken, Unlocked
<1>14. StartUp'
  BY <1>1, <1>2, <1>3, <1>4, <1>6, Constants DEF IInv, StartUp, Redirected
<1> QED
  BY <1>8, <1>9, <1>10, <1>11, <1>12, <1>13, <1>14 DEF IInv

LEMMA OpenFailsStep ==
  ASSUME IInv, NEW name, OpenFails(name)
  PROVE  IInv'
<1>1. /\ dev' = dev /\ flags' = flags /\ owned' = owned /\ Running
      /\ (alt_max_fd' = HighWater(Taken) /\ Free # {}) \/ alt_max_fd' = alt_max_fd
  BY DEF OpenFails
<1>2. /\ stage = "running" /\ stage' = "running" /\ alt_dev_list' = alt_dev_list /\ FTypeOK
      /\ alt_max_fd \in Nat /\ alt_max_fd >= 3
  BY <1>1, WhenRunning
<1>3. /\ alt_max_fd' \in Int /\ alt_max_fd' \in -1..(ALT_MAX_FD - 1)
      /\ alt_max_fd' >= 3 /\ alt_max_fd' >= alt_max_fd
  <2>1. CASE alt_max_fd' = alt_max_fd
    BY <1>2, <2>1 DEF FTypeOK
  <2>2. CASE alt_max_fd' = HighWater(Taken) /\ Free # {}
    <3>1. Taken \in Fd \ Std
      BY <2>2, TakenIsFree DEF Free, IInv, StdTaken
    <3> QED
      BY <2>2, <3>1, MarkRises
  <2> QED
    BY <1>1, <2>1, <2>2
<1>4. FTypeOK'
  BY <1>1, <1>2, <1>3 DEF FTypeOK
<1>5. MarkCovers'
  <2> SUFFICES ASSUME NEW j \in Fd \ Std, dev[j] # NoDev PROVE j <= alt_max_fd'
    BY <1>1 DEF MarkCovers
  <2>1. j <= alt_max_fd /\ j \in Nat
    BY Constants DEF IInv, MarkCovers
  <2> QED
    BY <1>2, <1>3, <2>1
<1>6. StartUp'
  BY <1>1, <1>2, <1>3 DEF IInv, StartUp, Redirected
<1> QED
  BY <1>1, <1>4, <1>5, <1>6 DEF IInv, NoLeak, ClosedUnlocked, HoldersAreLowest, StdTaken, Unlocked

LEMMA CloseStep ==
  ASSUME IInv, NEW i \in InUse, CloseFd(i)
  PROVE  IInv'
<1>1. /\ dev' = Released(dev, i, NoDev) /\ flags' = Released(flags, i, {})
      /\ owned' = owned \ {i} /\ alt_max_fd' = alt_max_fd /\ Running
  BY DEF CloseFd
<1>2. /\ stage = "running" /\ stage' = "running" /\ alt_dev_list' = alt_dev_list /\ FTypeOK
      /\ alt_max_fd \in Nat /\ alt_max_fd >= 3 /\ i \in Fd
  BY <1>1, WhenRunning
<1>3. CASE i \in Std
  <2>1. dev' = dev /\ flags' = flags
    BY <1>1, <1>2, <1>3, Constants DEF Released
  <2>2. FTypeOK'
    BY <1>1, <1>2, <2>1 DEF FTypeOK
  <2>3. NoLeak'
    BY <1>1, <1>3, <2>1 DEF IInv, NoLeak
  <2>4. StartUp'
    BY <1>1, <1>2, <2>1 DEF IInv, StartUp, Redirected
  <2> QED
    BY <1>1, <2>1, <2>2, <2>3, <2>4
    DEF IInv, MarkCovers, ClosedUnlocked, HoldersAreLowest, StdTaken, Unlocked
<1>4. CASE i \notin Std
  <2>1. dev' = [dev EXCEPT ![i] = NoDev] /\ flags' = [flags EXCEPT ![i] = {}]
    BY <1>1, <1>2, <1>4, Constants DEF Released
  <2>2. /\ dev'[i] = NoDev /\ flags'[i] = {}
        /\ \A j \in Fd : j # i => dev'[j] = dev[j] /\ flags'[j] = flags[j]
    BY <1>2, <2>1 DEF FTypeOK
  <2>3. FTypeOK'
    BY <1>1, <1>2, <2>1 DEF FTypeOK
  <2>4. NoLeak' /\ MarkCovers' /\ ClosedUnlocked'
    BY <1>1, <2>2 DEF IInv, NoLeak, MarkCovers, ClosedUnlocked
  <2>5. HoldersAreLowest'
    <3> SUFFICES ASSUME NEW k \in Fd, NEW j \in Fd, "EXCL" \in flags'[j], dev'[k] = dev'[j], k # j
                 PROVE  j < k
      BY DEF HoldersAreLowest
    <3>1. j # i
      BY <2>2
    <3>2. "EXCL" \in flags[j] /\ dev'[j] = dev[j]
      BY <2>2, <3>1
    <3>3. k # i
      BY <2>2, <3>2 DEF IInv, ClosedUnlocked
    <3>4. dev[k] = dev[j]
      BY <2>2, <3>2, <3>3
    <3> QED
      BY <3>2, <3>4 DEF IInv, HoldersAreLowest
  <2>6. StdTaken' /\ Unlocked'
    BY <1>4, <2>2, Constants DEF IInv, StdTaken, Unlocked
  <2>7. StartUp'
    BY <1>1, <1>2, <1>4, <2>2, Constants DEF IInv, StartUp, Redirected
  <2> QED
    BY <2>3, <2>4, <2>5, <2>6, <2>7 DEF IInv
<1> QED
  BY <1>3, <1>4

-----------------------------------------------------------------------------
\* A descriptor that gets its device's lock: all others of the device, if any,
\* are above it, so nobody holds the lock already.
LEMMA LockFinds ==
  ASSUME IInv, NEW i \in InUse, LockIt(i)
  PROVE  /\ i \in Fd \ Std /\ dev[i] # Uart
         /\ \A j \in Fd : (j # i /\ dev[j] = dev[i]) =>
              i < j /\ "EXCL" \notin flags[j] /\ j = alt_max_fd
<1>1. Running /\ Excludes(i)
  BY DEF LockIt
<1>2. /\ FTypeOK /\ alt_max_fd \in Nat /\ alt_max_fd >= 3 /\ i \in Fd /\ dev[i] # NoDev
      /\ \A j \in Std : dev[j] = Uart
      /\ \A j \in Fd : dev[j] # NoDev => j <= alt_max_fd
  BY <1>1, WhenRunning
<1>3. \A j \in Fd : j \in Nat
  BY Constants
<1>4. dev[i] # Uart
  <2>1. dev[0] = Uart /\ dev[1] = Uart
    BY <1>2, Constants
  <2>2. 0 \in 0..(alt_max_fd - 1) /\ 1 \in 0..(alt_max_fd - 1)
    BY <1>2
  <2> QED
    BY <1>1, <2>1, <2>2 DEF Excludes
<1>5. ASSUME NEW j \in Fd, j # i, dev[j] = dev[i]
      PROVE  i < j /\ "EXCL" \notin flags[j] /\ j = alt_max_fd
  <2>1. ~(j \in 0..(alt_max_fd - 1))
    BY <1>1, <1>5 DEF Excludes
  <2>2. j \in Nat /\ i \in Nat /\ i <= alt_max_fd /\ j <= alt_max_fd
    BY <1>2, <1>3, <1>5
  <2>3. j = alt_max_fd /\ i < j
    BY <1>2, <1>5, <2>1, <2>2
  <2>4. "EXCL" \in flags[j] => j < i
    BY <1>2, <1>5 DEF IInv, HoldersAreLowest
  <2> QED
    BY <2>2, <2>3, <2>4
<1> QED
  BY <1>2, <1>4, <1>5

MayHold(i) ==
  \/ "EXCL" \in flags[i]
  \/ dev[i] # Uart /\ \A j \in Fd : (j # i /\ dev[j] = dev[i]) => i < j /\ "EXCL" \notin flags[j]

\* What a change of flags alone has to keep.
LEMMA FlagsStep ==
  ASSUME IInv, Running, UNCHANGED <<dev, alt_max_fd, owned>>,
         NEW i \in InUse, NEW fl \in SUBSET Flags,
         flags' = [flags EXCEPT ![i] = fl],
         "DEV" \in flags[i] => "DEV" \in fl, "WRONLY" \in flags[i] <=> "WRONLY" \in fl,
         "EXCL" \in fl => MayHold(i)
  PROVE  IInv'
<1>1. /\ stage = "running" /\ stage' = "running" /\ alt_dev_list' = alt_dev_list /\ FTypeOK
      /\ i \in Fd /\ dev[i] # NoDev
  BY WhenRunning
<1>2. flags'[i] = fl /\ \A j \in Fd : j # i => flags'[j] = flags[j]
  BY <1>1 DEF FTypeOK
<1>3. FTypeOK' /\ NoLeak' /\ MarkCovers' /\ StdTaken'
  BY <1>1 DEF IInv, FTypeOK, NoLeak, MarkCovers, StdTaken
<1>4. ClosedUnlocked' /\ Unlocked'
  BY <1>1, <1>2 DEF IInv, ClosedUnlocked, Unlocked, MayHold
<1>5. HoldersAreLowest'
  <2> SUFFICES ASSUME NEW k \in Fd, NEW j \in Fd, "EXCL" \in flags'[j], dev[k] = dev[j], k # j
               PROVE  j < k
    BY DEF HoldersAreLowest
  <2>1. CASE "EXCL" \in flags[j]
    BY <2>1 DEF IInv, HoldersAreLowest
  <2>2. CASE "EXCL" \notin flags[j]
    BY <1>2, <2>2 DEF MayHold
  <2> QED
    BY <2>1, <2>2
<1>6. StartUp'
  <2>1. \A j \in Std : Redirected(j) => Redirected(j)'
    BY <1>2, Constants DEF Redirected
  <2> QED
    BY <1>1, <2>1, Constants DEF IInv, StartUp
<1> QED
  BY <1>3, <1>4, <1>5, <1>6 DEF IInv

LEMMA FlagCallsStep ==
  ASSUME IInv, NEW i \in InUse,
         LockIt(i) \/ UnlockIt(i) \/ \E fl \in SUBSET Flags : SetFlags(i, fl)
  PROVE  IInv'
<1>1. Running /\ UNCHANGED <<dev, alt_max_fd, owned>>
  BY DEF LockIt, UnlockIt, SetFlags
<1>2. FTypeOK /\ i \in Fd
  BY <1>1, WhenRunning
<1>3. flags[i] \in SUBSET Flags
  BY <1>2 DEF FTypeOK
<1>4. CASE LockIt(i)
  <2>1. flags' = [flags EXCEPT ![i] = flags[i] \cup {"EXCL"}]
    BY <1>4 DEF LockIt
  <2>2. flags[i] \cup {"EXCL"} \in SUBSET Flags
    BY <1>3 DEF Flags
  <2>3. /\ "DEV" \in flags[i] => "DEV" \in flags[i] \cup {"EXCL"}
        /\ "WRONLY" \in flags[i] <=> "WRONLY" \in flags[i] \cup {"EXCL"}
    OBVIOUS
  <2>4. MayHold(i)
    BY <1>4, LockFinds DEF MayHold
  <2> QED
    BY <1>1, <2>1, <2>2, <2>3, <2>4, FlagsStep
<1>5. CASE UnlockIt(i)
  <2>1. flags' = [flags EXCEPT ![i] = flags[i] \ {"EXCL"}]
    BY <1>5 DEF UnlockIt
  <2>2. /\ flags[i] \ {"EXCL"} \in SUBSET Flags
        /\ "DEV" \in flags[i] => "DEV" \in flags[i] \ {"EXCL"}
        /\ "WRONLY" \in flags[i] <=> "WRONLY" \in flags[i] \ {"EXCL"}
        /\ "EXCL" \notin flags[i] \ {"EXCL"}
    BY <1>3
  <2> QED
    BY <1>1, <2>1, <2>2, FlagsStep
<1>6. ASSUME NEW fl \in SUBSET Flags, SetFlags(i, fl)
      PROVE  IInv'
  <2> DEFINE new == (flags[i] \ FcntlFlags) \cup (fl \cap FcntlFlags)
  <2>1. flags' = [flags EXCEPT ![i] = new]
    BY <1>6 DEF SetFlags
  <2>2. /\ new \in SUBSET Flags
        /\ "DEV" \in flags[i] => "DEV" \in new
        /\ "WRONLY" \in flags[i] <=> "WRONLY" \in new
        /\ "EXCL" \in new => "EXCL" \in flags[i]
    BY <1>3 DEF FcntlFlags, Flags
  <2>3. PICK g \in SUBSET Flags :
          /\ flags' = [flags EXCEPT ![i] = g]
          /\ "DEV" \in flags[i] => "DEV" \in g
          /\ "WRONLY" \in flags[i] <=> "WRONLY" \in g
          /\ "EXCL" \in g => MayHold(i)
    BY <2>1, <2>2 DEF MayHold
  <2> QED
    BY <1>1, <2>3, FlagsStep
<1> QED
  BY <1>4, <1>5, <1>6

Starting == SysInit \/ RedirectOut \/ RedirectIn \/ RedirectErr

Opening == \E name \in Names : OpenFails(name) \/ \E fl \in SUBSET OpenFlags : Open(name, fl)

Using == \E i \in InUse :
  CloseFd(i) \/ LockIt(i) \/ UnlockIt(i) \/ \E fl \in SUBSET Flags : SetFlags(i, fl)

\* The invariant of the pool, from power-on, call after call.
THEOREM Inductive == FSpec => []IInv
<1>1. FInit => IInv
  BY InitIInv
<1>2. IInv /\ [FNext]_fvars => IInv'
  <2> SUFFICES ASSUME IInv, [FNext]_fvars PROVE IInv'
    OBVIOUS
  <2>1. CASE Starting
    BY <2>1, StartUpStep DEF Starting
  <2>2. CASE Opening
    BY <2>2, OpenStep, OpenFailsStep DEF Opening
  <2>3. CASE Using
    BY <2>3, CloseStep, FlagCallsStep DEF Using
  <2>4. CASE UNCHANGED fvars
    BY <2>4 DEF fvars, IInv, FTypeOK, NoLeak, MarkCovers, ClosedUnlocked, HoldersAreLowest, StdTaken,
                StartUp, Redirected, Unlocked
  <2> QED
    BY <2>1, <2>2, <2>3, <2>4 DEF FNext, Starting, Opening, Using
<1> QED
  BY <1>1, <1>2, PTL DEF FSpec

\* Every variable keeps its type.
THEOREM TypeCorrect == FSpec => []FTypeOK
BY Inductive, PTL DEF IInv

\* No descriptor is lost or handed out twice, in a pool of any size.
THEOREM PoolAgrees == FSpec => []NoLeak
BY Inductive, PTL DEF IInv

\* The standard streams stay on the character device, and nobody locks it.
THEOREM StandardStreams == FSpec => []StreamsStay
<1>1. IInv => StreamsStay
  BY Constants DEF IInv, StartUp, Redirected, Unlocked, StreamsStay, MayRead, MayWrite, Std
<1> QED
  BY <1>1, Inductive, PTL

\* A device's lock has one holder, although the search for others is one short.
THEOREM LockHasOneHolder == FSpec => []OneHolder
<1>1. IInv => OneHolder
  <2> SUFFICES ASSUME IInv, NEW i \in Fd, NEW j \in Fd, "EXCL" \in flags[i], "EXCL" \in flags[j],
                      dev[i] = dev[j], i # j
               PROVE  FALSE
    BY DEF OneHolder
  <2>1. i \in Nat /\ j \in Nat
    BY Constants
  <2>2. i < j /\ j < i
    BY DEF IInv, HoldersAreLowest
  <2> QED
    BY <2>1, <2>2
<1> QED
  BY <1>1, Inductive, PTL

-----------------------------------------------------------------------------
(* HalFiles implements DescriptorPool. *)

Own == Fd \ Std
Refers == [i \in Own |-> dev[i]]
Holds == [d \in Device |-> HolderOf(d)]

LEMMA View ==
  /\ Promise!vars = <<Refers, Holds>>
  /\ Promise!Init <=> Refers = [i \in Own |-> NoDev] /\ Holds = [d \in Device |-> -1]
BY DEF Promise!vars, Promise!Init, Refers, Holds, Own

\* The holder of a lock is the only element of the set it is chosen from.
LEMMA HolderFacts ==
  ASSUME IInv, NEW d
  PROVE  /\ Holders(d) = {} => HolderOf(d) = -1
         /\ \A i \in Holders(d) : Holders(d) = {i} /\ HolderOf(d) = i
<1>1. \A i, j \in Fd : ("EXCL" \in flags[j] /\ dev[i] = dev[j] /\ i # j) => j < i
  BY DEF IInv, HoldersAreLowest
<1>2. ASSUME NEW i \in Holders(d), NEW j \in Holders(d)
      PROVE  i = j
  BY <1>1, <1>2, Constants DEF Holders
<1> QED
  BY <1>2 DEF HolderOf

LEMMA SameHolders ==
  ASSUME NEW d, Holders(d)' = Holders(d)
  PROVE  HolderOf(d)' = HolderOf(d)
BY DEF HolderOf

LEMMA ViewInit == FInit => Promise!Init
<1> SUFFICES ASSUME FInit PROVE Promise!Init
  OBVIOUS
<1>1. Refers = [i \in Own |-> NoDev]
  BY DEF FInit, Refers, Own
<1>2. ASSUME NEW d \in Device PROVE HolderOf(d) = -1
  <2>1. Holders(d) = {}
    BY DEF FInit, Holders
  <2> QED
    BY <2>1 DEF HolderOf
<1>3. Holds = [d \in Device |-> -1]
  BY <1>2 DEF Holds
<1> QED
  BY <1>1, <1>3, View

\* A step that changes neither the program's descriptors nor a lock.
LEMMA ViewSame ==
  ASSUME \A i \in Own : dev'[i] = dev[i] /\ ("EXCL" \in flags'[i] <=> "EXCL" \in flags[i])
  PROVE  UNCHANGED Promise!vars
<1>1. Refers' = Refers
  BY DEF Refers
<1>2. ASSUME NEW d \in Device PROVE HolderOf(d)' = HolderOf(d)
  <2>1. Holders(d)' = Holders(d)
    BY DEF Holders, Own
  <2> QED
    BY <2>1, SameHolders
<1>3. Holds' = Holds
  BY <1>2 DEF Holds
<1> QED
  BY <1>1, <1>3 DEF Promise!vars, Refers, Holds, Own

LEMMA ViewStarting ==
  ASSUME IInv, Starting
  PROVE  UNCHANGED Promise!vars
<1>1. CASE SysInit
  BY <1>1, ViewSame DEF SysInit
<1>2. ASSUME NEW i \in Std, NEW fl \in SUBSET {"WRONLY"}, Redirect(i, fl)
      PROVE  UNCHANGED Promise!vars
  <2>1. FTypeOK /\ i \in Fd
    BY Constants DEF IInv
  <2>2. \A j \in Own : dev'[j] = dev[j] /\ flags'[j] = flags[j]
    BY <1>2, <2>1 DEF Redirect, Own, FTypeOK
  <2> QED
    BY <2>2, ViewSame
<1>3. CASE RedirectOut \/ RedirectIn \/ RedirectErr
  <2>1. Redirect(1, {"WRONLY"}) \/ Redirect(0, {}) \/ Redirect(2, {"WRONLY"})
    BY <1>3 DEF RedirectOut, RedirectIn, RedirectErr
  <2>2. {} \in SUBSET {"WRONLY"} /\ {"WRONLY"} \in SUBSET {"WRONLY"}
    OBVIOUS
  <2> QED
    BY <1>2, <2>1, <2>2, Constants
<1> QED
  BY <1>1, <1>3 DEF Starting

LEMMA ViewOpening ==
  ASSUME IInv, Opening
  PROVE  Promise!Open \/ UNCHANGED Promise!vars
<1>1. ASSUME NEW name, OpenFails(name)
      PROVE  UNCHANGED Promise!vars
  BY <1>1, ViewSame DEF OpenFails
<1>2. ASSUME NEW name, NEW fl \in SUBSET OpenFlags, Open(name, fl)
      PROVE  Promise!Open
  <2> DEFINE t == Taken
             d == Find(name)
  <2>1. /\ dev' = [dev EXCEPT ![t] = d] /\ flags' = [flags EXCEPT ![t] = fl \cup {"DEV"}]
    BY <1>2 DEF Open
  <2>2. /\ t \in Own /\ t \in Fd /\ dev[t] = NoDev /\ d \in Device /\ FTypeOK
        /\ \A j \in Fd : dev[j] = d => "EXCL" \notin flags[j]
    BY <1>2, OpenTakes DEF Own, IInv
  <2> HIDE DEF t, d
  <2>3. /\ dev'[t] = d /\ "EXCL" \notin flags'[t] /\ "EXCL" \notin flags[t]
        /\ \A j \in Fd : j # t => dev'[j] = dev[j] /\ flags'[j] = flags[j]
    <3>1. "EXCL" \notin fl \cup {"DEV"}
      BY DEF OpenFlags
    <3> QED
      BY <2>1, <2>2, <3>1 DEF FTypeOK, IInv, ClosedUnlocked
  <2>4. ASSUME NEW e \in Device PROVE HolderOf(e)' = HolderOf(e)
    <3>1. Holders(e)' = Holders(e)
      BY <2>3 DEF Holders
    <3> QED
      BY <3>1, SameHolders
  <2>5. Holds' = Holds
    BY <2>4 DEF Holds
  <2>6. Refers' = [Refers EXCEPT ![t] = d]
    BY <2>2, <2>3 DEF Refers, Own
  <2>7. Refers[t] = NoDev /\ Holds[d] = -1
    <3>1. Holders(d) = {}
      BY <2>2 DEF Holders
    <3> QED
      BY <2>2, <3>1, HolderFacts DEF Refers, Holds
  <2> QED
    BY <2>2, <2>5, <2>6, <2>7 DEF Promise!Open, Refers, Holds, Own
<1> QED
  BY <1>1, <1>2 DEF Opening

LEMMA ViewClose ==
  ASSUME IInv, NEW i \in InUse, CloseFd(i)
  PROVE  Promise!Close \/ UNCHANGED Promise!vars
<1>1. dev' = Released(dev, i, NoDev) /\ flags' = Released(flags, i, {}) /\ Running
  BY DEF CloseFd
<1>2. FTypeOK /\ i \in Fd /\ dev[i] # NoDev
  BY <1>1, WhenRunning
<1>3. CASE i \in Std
  BY <1>1, <1>2, <1>3, ViewSame, Constants DEF Released
<1>4. CASE i \notin Std
  <2>1. dev' = [dev EXCEPT ![i] = NoDev] /\ flags' = [flags EXCEPT ![i] = {}]
    BY <1>1, <1>2, <1>4, Constants DEF Released
  <2>2. /\ i \in Own /\ dev'[i] = NoDev /\ flags'[i] = {}
        /\ \A j \in Fd : j # i => dev'[j] = dev[j] /\ flags'[j] = flags[j]
    BY <1>2, <1>4, <2>1 DEF FTypeOK, Own
  <2>3. Refers' = [Refers EXCEPT ![i] = NoDev] /\ Refers[i] # NoDev
    BY <1>2, <2>2 DEF Refers, Own
  <2>4. ASSUME NEW e \in Device
        PROVE  HolderOf(e)' = IF HolderOf(e) = i THEN -1 ELSE HolderOf(e)
    <3>1. Holders(e)' = Holders(e) \ {i}
      BY <2>2 DEF Holders
    <3>2. CASE i \in Holders(e)
      <4>1. Holders(e) = {i} /\ HolderOf(e) = i
        BY <3>2, HolderFacts
      <4>2. Holders(e)' = {}
        BY <3>1, <4>1
      <4> QED
        BY <4>1, <4>2 DEF HolderOf
    <3>3. CASE i \notin Holders(e)
      <4>1. HolderOf(e)' = HolderOf(e)
        BY <3>1, <3>3, SameHolders
      <4>2. HolderOf(e) = -1 \/ HolderOf(e) \in Holders(e)
        BY HolderFacts
      <4>3. HolderOf(e) # i
        BY <1>2, <3>3, <4>2, Constants
      <4> QED
        BY <4>1, <4>3
    <3> QED
      BY <3>2, <3>3
  <2>5. Holds' = [d \in Device |-> IF Holds[d] = i THEN -1 ELSE Holds[d]]
    BY <2>4 DEF Holds
  <2> QED
    BY <2>2, <2>3, <2>5 DEF Promise!Close, Refers, Holds, Own
<1> QED
  BY <1>3, <1>4

LEMMA ViewLock ==
  ASSUME IInv, NEW i \in InUse, LockIt(i)
  PROVE  Promise!Lock \/ UNCHANGED Promise!vars
<1>1. flags' = [flags EXCEPT ![i] = flags[i] \cup {"EXCL"}] /\ dev' = dev /\ Running
  BY DEF LockIt
<1>2. FTypeOK /\ i \in Own /\ i \in Fd /\ dev[i] \in Device /\ dev[i] # NoDev
  BY <1>1, WhenRunning, LockFinds DEF Own, FTypeOK
<1>3. "EXCL" \in flags'[i] /\ \A j \in Fd : j # i => flags'[j] = flags[j]
  BY <1>1, <1>2 DEF FTypeOK
<1>4. CASE "EXCL" \in flags[i]
  BY <1>1, <1>3, <1>4, ViewSame DEF Own
<1>5. CASE "EXCL" \notin flags[i]
  <2>1. Holders(dev[i]) = {}
    BY <1>5, LockFinds DEF Holders
  <2>2. Holds[dev[i]] = -1 /\ Refers[i] = dev[i]
    BY <1>2, <2>1, HolderFacts DEF Holds, Refers
  <2>3. Refers' = Refers
    BY <1>1 DEF Refers
  <2>4. ASSUME NEW e \in Device, e # dev[i] PROVE HolderOf(e)' = HolderOf(e)
    <3>1. Holders(e)' = Holders(e)
      BY <1>1, <1>3, <2>4 DEF Holders
    <3> QED
      BY <3>1, SameHolders
  <2>5. HolderOf(dev[i])' = i
    <3>1. Holders(dev[i])' = {i}
      BY <1>1, <1>2, <1>3, <2>1 DEF Holders, Own
    <3>2. HolderOf(dev[i])' = CHOOSE j \in {i} : TRUE
      BY <3>1 DEF HolderOf
    <3> QED
      BY <3>2
  <2>6. Holds' = [Holds EXCEPT ![dev[i]] = i]
    BY <1>1, <1>2, <2>4, <2>5 DEF Holds
  <2>7. Promise!OnlyUser(i)
    <3>1. dev[i] # Uart /\ \A j \in Own \ {i} : dev[j] = dev[i] => j = alt_max_fd
      BY LockFinds DEF Own
    <3> QED
      BY <1>2, <3>1 DEF Promise!OnlyUser, Own
  <2> QED
    BY <1>2, <2>2, <2>3, <2>6, <2>7 DEF Promise!Lock, Refers, Holds, Own
<1> QED
  BY <1>4, <1>5

LEMMA ViewUnlock ==
  ASSUME IInv, NEW i \in InUse, UnlockIt(i)
  PROVE  Promise!Unlock \/ UNCHANGED Promise!vars
<1>1. flags' = [flags EXCEPT ![i] = flags[i] \ {"EXCL"}] /\ dev' = dev /\ Running
  BY DEF UnlockIt
<1>2. FTypeOK /\ i \in Fd /\ dev[i] # NoDev /\ dev[i] \in Device
  BY <1>1, WhenRunning DEF FTypeOK
<1>3. "EXCL" \notin flags'[i] /\ \A j \in Fd : j # i => flags'[j] = flags[j]
  BY <1>1, <1>2 DEF FTypeOK
<1>4. CASE i \in Std \/ "EXCL" \notin flags[i]
  BY <1>1, <1>3, <1>4, ViewSame DEF Own
<1>5. CASE i \in Own /\ "EXCL" \in flags[i]
  <2>1. Holders(dev[i]) = {i}
    <3>1. i \in Holders(dev[i])
      BY <1>5 DEF Holders, Own
    <3> QED
      BY <3>1, HolderFacts
  <2>2. Refers' = Refers
    BY <1>1 DEF Refers
  <2>3. ASSUME NEW e \in Device, e # dev[i] PROVE HolderOf(e)' = HolderOf(e)
    <3>1. Holders(e)' = Holders(e)
      BY <1>1, <1>3, <2>3 DEF Holders
    <3> QED
      BY <3>1, SameHolders
  <2>4. HolderOf(dev[i])' = -1
    <3>1. Holders(dev[i])' = {}
      BY <1>1, <1>3, <2>1 DEF Holders
    <3> QED
      BY <3>1 DEF HolderOf
  <2>5. Holds' = [Holds EXCEPT ![dev[i]] = -1]
    BY <1>1, <1>2, <2>3, <2>4 DEF Holds
  <2> QED
    BY <1>2, <2>2, <2>5 DEF Promise!Unlock, Refers, Holds, Own
<1> QED
  BY <1>2, <1>4, <1>5 DEF Own

LEMMA ViewStep ==
  ASSUME IInv, [FNext]_fvars
  PROVE  [Promise!Next]_(Promise!vars)
<1>1. CASE Starting
  BY <1>1, ViewStarting
<1>2. CASE Opening
  BY <1>2, ViewOpening DEF Promise!Next
<1>3. ASSUME NEW i \in InUse,
             CloseFd(i) \/ LockIt(i) \/ UnlockIt(i) \/ \E fl \in SUBSET Flags : SetFlags(i, fl)
      PROVE  [Promise!Next]_(Promise!vars)
  <2>1. CASE CloseFd(i)
    BY <2>1, ViewClose DEF Promise!Next
  <2>2. CASE LockIt(i)
    BY <2>2, ViewLock DEF Promise!Next
  <2>3. CASE UnlockIt(i)
    BY <2>3, ViewUnlock DEF Promise!Next
  <2>4. ASSUME NEW fl \in SUBSET Flags, SetFlags(i, fl)
        PROVE  UNCHANGED Promise!vars
    <3>1. /\ flags' = [flags EXCEPT ![i] = (flags[i] \ FcntlFlags) \cup (fl \cap FcntlFlags)]
          /\ dev' = dev /\ Running
      BY <2>4 DEF SetFlags
    <3>2. FTypeOK /\ i \in Fd
      BY <3>1, WhenRunning
    <3>3. \A j \in Fd : "EXCL" \in flags'[j] <=> "EXCL" \in flags[j]
      BY <3>1, <3>2 DEF FTypeOK, FcntlFlags
    <3> QED
      BY <3>1, <3>3, ViewSame DEF Own
  <2> QED
    BY <1>3, <2>1, <2>2, <2>3, <2>4
<1>4. CASE UNCHANGED fvars
  BY <1>4, ViewSame DEF fvars
<1> QED
  BY <1>1, <1>2, <1>3, <1>4 DEF FNext, Starting, Opening

\* The pool keeps what DescriptorPool promises the program.
THEOREM PoolKeepsPromise == FSpec => PromiseKept
<1>1. FInit => Promise!Init
  BY ViewInit
<1>2. IInv /\ [FNext]_fvars => [Promise!Next]_(Promise!vars)
  BY ViewStep
<1> QED
  BY <1>1, <1>2, Inductive, PTL DEF FSpec, PromiseKept, Promise!Spec
=============================================================================
