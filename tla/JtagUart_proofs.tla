--------------------------- MODULE JtagUart_proofs ---------------------------
(***************************************************************************)
(* For rings and queues of any size and any traffic: the pieces stay in    *)
(* the rings, no wake-up of a write is lost and the read interrupt is off  *)
(* only with something to read, the dispatcher finds                       *)
(* the interrupt it was entered for, a write on a board without a clock    *)
(* comes back complete, and the driver implements CharPipe in both         *)
(* directions: no character is lost, repeated or overtaken.                *)
(***************************************************************************)
EXTENDS JtagUart, TLAPS

\* The device's enable bits are the driver's copy.
Shadow == control = irq_enable

\* Interrupts are off only while the enable bits are changed.
Masking ==
  /\ context = TRUE
  /\ pc = "mask" => ~pie
  /\ pc # "mask" => pie
  /\ isr # "none" => pc # "mask"

\* Where the program is tells in which call it is, and only a write has text left.
Where ==
  /\ pc = "idle" => op = "none"
  /\ pc \in {"measure", "copy", "inactive"} => op = "write"
  /\ pc \in {"fetch", "take", "arrived"} => op = "read"
  /\ pc \in {"off", "mask", "spin"} => op \in {"write", "read"}
  /\ op # "write" => todo = <<>>

\* The piece that is about to be moved.
PieceFits ==
  /\ pc = "copy" => n <= Len(todo)
  /\ pc = "take" => n >= 1 /\ n <= want /\ rx_out + n <= BUF_LEN
  /\ pc \in {"fetch", "take", "arrived"} => want > 0
  /\ pc = "spin" /\ op = "read" => want > 0

QueueFits == Len(txFifo) <= FIFO_DEPTH

NoClock == timeout = INT_MAX => host_inactive = 0

EntryPending == isr = "entry" => Pending

\* The host's pause leaves something to read, and so does what the routine last
\* saw of the queue; it receives with the read interrupt on.
PauseWithWork == pause_irq => rxFifo # <<>>
Receiving == isr = "rx" => ("RE" \in control /\ (avail => rxFifo # <<>>))

ReceiveWork == PauseWithWork /\ Receiving /\ SilencedWithWork

IInv == /\ TypeOK /\ Shadow /\ Masking /\ Where /\ PieceFits /\ QueueFits /\ NoClock
        /\ EntryPending /\ DispatchEnds /\ SendersWake /\ ReceiveWork /\ WholeWrites

-----------------------------------------------------------------------------
LEMMA Constants ==
  /\ BUF_LEN \in Nat /\ BUF_LEN > 1 /\ FIFO_DEPTH \in Nat /\ FIFO_DEPTH >= 1
  /\ WRITE_THRESHOLD \in Nat /\ READ_THRESHOLD \in Nat /\ READ_THRESHOLD < FIFO_DEPTH
  /\ INT_MAX \in Nat /\ INT_MAX >= 5 /\ DEFAULT_TIMEOUT \in Nat
  /\ Char \subseteq Nat /\ 0 \in Char /\ Typed \subseteq Char /\ Texts \subseteq Seq(Char)
  /\ Wants \subseteq Nat /\ Timeouts \subseteq Nat
BY UartAssumption

LEMMA AdvanceInRing ==
  ASSUME NEW i \in Nat, NEW k \in Nat
  PROVE  Advance(i, k) \in Slot
<1>1. BUF_LEN \in Nat /\ BUF_LEN > 0 /\ i + k \in Nat
  BY Constants
<1>2. \A x \in Nat : x % BUF_LEN \in 0..(BUF_LEN - 1)
  BY <1>1
<1> QED
  BY <1>1, <1>2 DEF Advance, Slot

\* A piece lies before the end of the ring.
LEMMA Pieces ==
  ASSUME NEW i \in Slot, NEW o \in Slot
  PROVE  /\ TxPiece(i, o) \in Nat /\ RxPiece(i, o) \in Nat
         /\ o + RxPiece(i, o) <= BUF_LEN
BY Constants DEF TxPiece, RxPiece, Slot

LEMMA InitIInv == Init => IInv
<1> SUFFICES ASSUME Init PROVE IInv
  OBVIOUS
<1>1. TypeOK
  <2>1. tx_buf \in [Slot -> Char] /\ rx_buf \in [Slot -> Char]
    BY Constants DEF Init
  <2>2. <<>> \in Seq(Char) /\ 0 \in Slot /\ timeout \in Nat
    BY Constants DEF Init, Slot
  <2> QED
    BY <2>1, <2>2 DEF Init, TypeOK, Enables, ProgramPoints, RoutinePoints
<1>2. Shadow /\ Masking /\ Where /\ PieceFits /\ QueueFits /\ NoClock
  BY Constants DEF Init, Shadow, Masking, Where, PieceFits, QueueFits, NoClock
<1>3. EntryPending /\ DispatchEnds /\ SendersWake /\ ReceiveWork /\ WholeWrites
  BY DEF Init, EntryPending, DispatchEnds, SendersWake, ReceiveWork, PauseWithWork, Receiving,
     SilencedWithWork, WholeWrites
<1> QED
  BY <1>1, <1>2, <1>3 DEF IInv

-----------------------------------------------------------------------------
(* Typing *)

\* The type invariant in parts: the rings, the queues of the device, the call,
\* and the rest.
Rings ==
  /\ tx_buf \in [Slot -> Char] /\ rx_buf \in [Slot -> Char]
  /\ tx_in \in Slot /\ tx_out \in Slot /\ rx_in \in Slot /\ rx_out \in Slot /\ seen \in Slot

Queues == txFifo \in Seq(Char) /\ rxFifo \in Seq(Char)

CallTypes ==
  /\ todo \in Seq(Char) /\ got \in Seq(Char)
  /\ want \in Nat /\ n \in Nat /\ nonblock \in BOOLEAN
  /\ op \in {"none", "write", "read", "close"} /\ pc \in ProgramPoints

DeviceTypes ==
  /\ irq_enable \subseteq Enables /\ control \subseteq Enables
  /\ ac \in BOOLEAN /\ pause_irq \in BOOLEAN /\ pie \in BOOLEAN /\ context \in BOOLEAN
  /\ wi \in BOOLEAN /\ avail \in BOOLEAN
  /\ host_inactive \in Nat /\ timeout \in Nat /\ space \in Nat
  /\ isr \in RoutinePoints

LEMMA TypeParts == TypeOK <=> Rings /\ Queues /\ CallTypes /\ DeviceTypes
BY DEF TypeOK, Rings, Queues, CallTypes, DeviceTypes

LEMMA PrimedTypeParts == TypeOK' <=> Rings' /\ Queues' /\ CallTypes' /\ DeviceTypes'
BY DEF TypeOK, Rings, Queues, CallTypes, DeviceTypes

LEMMA Moved ==
  ASSUME NEW s \in Seq(Char), s # <<>>
  PROVE  Tail(s) \in Seq(Char) /\ Head(s) \in Char /\ Len(Tail(s)) = Len(s) - 1
OBVIOUS

LEMMA RingsStep ==
  ASSUME IInv, Next
  PROVE  Rings'
<1> USE DEF IInv
<1>0. Rings /\ Queues /\ CallTypes
  BY TypeParts
<1>1. CASE Call
  BY <1>0, <1>1 DEF Call, Write, Read, Close, SetTimeout, Program, Rings, ring, piece
<1>2. CASE Continue
  <2>1. CASE Copy
    <3>1. Advance(tx_in, n) \in Slot
      <4>1. tx_in \in Nat /\ n \in Nat
        BY <1>0, Constants DEF Rings, CallTypes, Slot
      <4> QED
        BY <4>1, AdvanceInRing
    <3>2. ASSUME NEW i \in Slot, i \in tx_in..(tx_in + n - 1)
          PROVE  todo[i - tx_in + 1] \in Char
      <4>1. n <= Len(todo) /\ todo \in Seq(Char) /\ n \in Nat /\ tx_in \in Nat
        BY <1>0, <2>1 DEF Copy, Program, PieceFits, Rings, CallTypes, Slot
      <4>2. i - tx_in + 1 \in 1..Len(todo)
        BY <3>2, <4>1 DEF Slot
      <4> QED
        BY <4>1, <4>2
    <3>3. tx_buf' \in [Slot -> Char]
      BY <1>0, <2>1, <3>2 DEF Copy, Rings
    <3> QED
      BY <1>0, <2>1, <3>1, <3>3 DEF Copy, Rings
  <2>2. CASE TakePiece
    <3>1. Advance(rx_out, n) \in Slot
      <4>1. rx_out \in Nat /\ n \in Nat
        BY <1>0, Constants DEF Rings, CallTypes, Slot
      <4> QED
        BY <4>1, AdvanceInRing
    <3> QED
      BY <1>0, <2>2, <3>1 DEF TakePiece, Rings
  <2>3. CASE Measure \/ Fetch \/ Return
    <3>1. 0 \in Slot
      BY Constants DEF Slot
    <3> QED
      BY <1>0, <2>3, <3>1 DEF Measure, Fetch, Return, Rings, ring
  <2>4. CASE AllCopied \/ WaitSent \/ TryAgain \/ WaitTyped \/ Arrived \/ DisableAll
             \/ AskForInterrupts \/ Drain
    BY <1>0, <2>4 DEF AllCopied, WaitSent, TryAgain, WaitTyped, Arrived, DisableAll,
       AskForInterrupts, Drain, Rings, ring, piece
  <2> QED
    BY <1>2, <2>1, <2>2, <2>3, <2>4 DEF Continue
<1>3. CASE Serve
  <2>1. CASE ReceiveOne
    <3>1. Advance(rx_in, 1) \in Slot
      BY <1>0, AdvanceInRing DEF Rings, Slot
    <3>2. Head(rxFifo) \in Char
      BY <1>0, <2>1, Moved DEF ReceiveOne, Queues
    <3> QED
      BY <1>0, <2>1, <3>1, <3>2 DEF ReceiveOne, Rings, piece
  <2>2. CASE SendOne
    <3>1. Advance(tx_out, 1) \in Slot
      BY <1>0, AdvanceInRing DEF Rings, Slot
    <3> QED
      BY <1>0, <2>2, <3>1 DEF SendOne, Rings, piece
  <2>3. CASE Interrupt \/ Dispatch \/ ReadControl \/ ReceiveEnd \/ SendEnd \/ Leave
    BY <1>0, <2>3 DEF Interrupt, Dispatch, ReadControl, ReceiveEnd, ReceiveFull, ReceiveNone,
       TurnOff, SendEnd, Leave, Rings, ring, piece
  <2> QED
    BY <1>3, <2>1, <2>2, <2>3 DEF Serve
<1>4. CASE Second \/ Host
  BY <1>0, <1>4 DEF Second, Host, HostTake, HostType, HostPoll, Rings, ring, piece
<1> QED
  BY <1>1, <1>2, <1>3, <1>4 DEF Next

\* The device's queue to the host never holds more than it can.
LEMMA QueuesStep ==
  ASSUME IInv, Next
  PROVE  Queues' /\ QueueFits'
<1> USE DEF IInv
<1>0. Rings /\ Queues /\ QueueFits
  BY TypeParts
<1>1. CASE Call
  BY <1>0, <1>1 DEF Call, Write, Read, Close, SetTimeout, Queues, QueueFits, host
<1>2. CASE Continue
  BY <1>0, <1>2 DEF Continue, Measure, AllCopied, Copy, WaitSent, TryAgain, Fetch, TakePiece,
     WaitTyped, Arrived, DisableAll, AskForInterrupts, Return, Drain, Queues, QueueFits, host
<1>3. CASE Serve
  <2>1. CASE ReceiveOne
    BY <1>0, <2>1, Moved DEF ReceiveOne, Queues, QueueFits
  <2>2. CASE SendOne
    <3>1. tx_buf[tx_out] \in Char
      BY <1>0 DEF Rings
    <3>2. Append(txFifo, tx_buf[tx_out]) \in Seq(Char) /\ Len(Append(txFifo, tx_buf[tx_out])) = Len(txFifo) + 1
      BY <1>0, <3>1 DEF Queues
    <3>3. txFifo' \in Seq(Char) /\ rxFifo' \in Seq(Char)
      BY <1>0, <2>2, <3>2 DEF SendOne, Queues
    <3>4. Len(txFifo') <= FIFO_DEPTH
      BY <1>0, <2>2, <3>2, Constants DEF SendOne, Queues, QueueFits
    <3> QED
      BY <3>3, <3>4 DEF Queues, QueueFits
  <2>3. CASE Interrupt \/ Dispatch \/ ReadControl \/ ReceiveFull \/ SendEnd \/ Leave
    BY <1>0, <2>3 DEF Interrupt, Dispatch, ReadControl, ReceiveFull, SendEnd, Leave, Queues,
       QueueFits, host
  <2>4. ASSUME NEW s, ReceiveNone(s), s = <<>> \/ \E c \in Typed : s = <<c>>
        PROVE  Queues' /\ QueueFits'
    <3>1. <<>> \in Seq(Char) /\ \A c \in Typed : <<c>> \in Seq(Char)
      BY Constants
    <3> QED
      BY <1>0, <2>4, <3>1, Zenon DEF ReceiveNone, Queues, QueueFits
  <2> QED
    BY <1>3, <2>1, <2>2, <2>3, <2>4 DEF Serve, ReceiveEnd
<1>4. CASE Second \/ HostPoll
  BY <1>0, <1>4 DEF Second, HostPoll, Queues, QueueFits
<1>5. CASE HostTake
  BY <1>0, <1>5, Moved, Constants DEF HostTake, Queues, QueueFits
<1>6. ASSUME NEW c \in Typed, HostType(c) PROVE Queues' /\ QueueFits'
  <2>1. c \in Char
    BY Constants
  <2> QED
    BY <1>0, <1>6, <2>1 DEF HostType, Queues, QueueFits
<1> QED
  BY <1>1, <1>2, <1>3, <1>4, <1>5, <1>6 DEF Next, Host

LEMMA PieceTaken ==
  ASSUME Rings, CallTypes, PieceFits, pc = "take"
  PROVE  /\ [k \in 1..n |-> rx_buf[rx_out + k - 1]] \in Seq(Char)
         /\ Len([k \in 1..n |-> rx_buf[rx_out + k - 1]]) = n
<1>1. n \in Nat /\ rx_out + n <= BUF_LEN /\ rx_out \in Nat /\ BUF_LEN \in Nat
  BY Constants DEF PieceFits, CallTypes, Rings, Slot
<1>2. \A k \in 1..n : rx_buf[rx_out + k - 1] \in Char
  BY <1>1 DEF Rings, Slot
<1> QED
  BY <1>1, <1>2

LEMMA CallStep ==
  ASSUME IInv, Next
  PROVE  CallTypes' /\ PieceFits' /\ Where'
<1> USE DEF IInv
<1>0. Rings /\ CallTypes /\ PieceFits /\ Where
  BY TypeParts
<1>1. CASE Call
  <2>1. ASSUME NEW t \in Texts, NEW nb \in BOOLEAN, Write(t, nb) PROVE CallTypes' /\ PieceFits' /\ Where'
    <3>1. t \in Seq(Char)
      BY Constants
    <3> QED
      BY <1>0, <2>1, <3>1 DEF Write, Program, CallTypes, PieceFits, Where, ProgramPoints, piece, ring
  <2>2. ASSUME NEW k \in Wants, NEW nb \in BOOLEAN, Read(k, nb) PROVE CallTypes' /\ PieceFits' /\ Where'
    <3>1. k \in Nat /\ <<>> \in Seq(Char)
      BY Constants
    <3> QED
      BY <1>0, <2>2, <3>1 DEF Read, Program, CallTypes, PieceFits, Where, ProgramPoints, piece, ring
  <2>3. ASSUME NEW nb \in BOOLEAN, Close(nb) PROVE CallTypes' /\ PieceFits' /\ Where'
    BY <1>0, <2>3 DEF Close, Program, CallTypes, PieceFits, Where, ProgramPoints, piece, ring
  <2>4. ASSUME NEW t \in Timeouts, SetTimeout(t) PROVE CallTypes' /\ PieceFits' /\ Where'
    BY <1>0, <2>4 DEF SetTimeout, Program, CallTypes, PieceFits, Where, ProgramPoints, piece, ring
  <2> QED
    BY <1>1, <2>1, <2>2, <2>3, <2>4 DEF Call
<1>2. CASE Continue
  <2>1. CASE Measure
    <3> DEFINE room == TxPiece(tx_in, tx_out)
    <3>1. room \in Nat /\ Len(todo) \in Nat
      BY <1>0, Pieces DEF Rings, CallTypes
    <3>2. Least(room, Len(todo)) \in Nat /\ Least(room, Len(todo)) <= Len(todo)
      BY <3>1 DEF Least
    <3>3. pc = "measure" /\ pc' \in {"off", "copy"} /\ n' = Least(room, Len(todo))
          /\ UNCHANGED <<op, nonblock, todo, want, got, rx_out>>
      BY <2>1 DEF Measure, Program, call, ring
    <3> HIDE DEF room
    <3> QED
      BY <1>0, <3>2, <3>3 DEF CallTypes, PieceFits, Where, ProgramPoints
  <2>2. CASE Copy
    <3>1. SubSeq(todo, n + 1, Len(todo)) \in Seq(Char)
      BY <1>0 DEF CallTypes
    <3> QED
      BY <1>0, <2>2, <3>1 DEF Copy, Program, CallTypes, PieceFits, Where, ProgramPoints
  <2>3. CASE Fetch
    <3> DEFINE m == RxPiece(rx_in, rx_out)
    <3>1. m \in Nat /\ want \in Nat /\ want > 0 /\ rx_out + m <= BUF_LEN /\ rx_out \in Nat /\ BUF_LEN \in Nat
      BY <1>0, <2>3, Pieces, Constants DEF Rings, CallTypes, PieceFits, Fetch, Program, Slot
    <3>2. /\ Least(m, want) \in Nat /\ Least(m, want) <= want /\ rx_out + Least(m, want) <= BUF_LEN
          /\ m > 0 => Least(m, want) >= 1
      BY <3>1 DEF Least
    <3>3. /\ pc = "fetch" /\ pc' \in {"take", "off", "return", "spin"}
          /\ pc' = "take" => m > 0
          /\ n' = Least(m, want)
          /\ UNCHANGED <<op, nonblock, todo, want, got, rx_out>>
      BY <2>3, <3>1 DEF Fetch, Program, call, ring
    <3> HIDE DEF m
    <3> QED
      BY <1>0, <3>1, <3>2, <3>3 DEF CallTypes, PieceFits, Where, ProgramPoints
  <2>4. CASE TakePiece
    <3>1. n \in Nat /\ want \in Nat /\ n <= want
      BY <1>0, <2>4 DEF TakePiece, Program, PieceFits, CallTypes
    <3>2. [k \in 1..n |-> rx_buf[rx_out + k - 1]] \in Seq(Char)
      BY <1>0, <2>4, PieceTaken DEF TakePiece, Program
    <3>3. got' \in Seq(Char)
      BY <1>0, <2>4, <3>2 DEF TakePiece, CallTypes
    <3>4. /\ want' \in Nat /\ n' = 0 /\ pc = "take" /\ pc' \in {"fetch", "off"}
          /\ pc' = "fetch" => want' > 0
          /\ UNCHANGED <<op, nonblock, todo>>
      BY <2>4, <3>1 DEF TakePiece, Program
    <3> QED
      BY <1>0, <3>3, <3>4 DEF CallTypes, PieceFits, Where, ProgramPoints
  <2>5. CASE AllCopied \/ WaitSent \/ TryAgain \/ WaitTyped \/ Arrived \/ DisableAll \/ AskForInterrupts
    BY <1>0, <2>5 DEF AllCopied, WaitSent, TryAgain, WaitTyped, Arrived, DisableAll, AskForInterrupts,
       Program, CallTypes, PieceFits, Where, ProgramPoints, call, piece, ring
  <2>6. CASE Return \/ Drain
    <3>1. <<>> \in Seq(Char)
      OBVIOUS
    <3>2. /\ pc' = "idle" /\ op' = "none" /\ nonblock' = FALSE /\ n' \in Nat
          /\ todo' = <<>> /\ want' = 0 /\ got' = <<>>
      BY <1>0, <2>6 DEF Return, Drain, LeaveCall, Program, CallTypes, piece
    <3> QED
      BY <3>1, <3>2 DEF CallTypes, PieceFits, Where, ProgramPoints
  <2> QED
    BY <1>2, <2>1, <2>2, <2>3, <2>4, <2>5, <2>6 DEF Continue
<1>3. CASE Serve \/ Second \/ Host
  <2>1. UNCHANGED <<rx_out, op, nonblock, todo, want, got, n, pc>>
    BY <1>3 DEF Serve, Interrupt, Dispatch, ReadControl, ReceiveOne, ReceiveEnd, ReceiveFull,
       ReceiveNone, TurnOff, SendOne, SendEnd, Leave, Second, Host, HostTake, HostType, HostPoll,
       ring, call, piece
  <2> QED
    BY <1>0, <2>1 DEF CallTypes, PieceFits, Where
<1> QED
  BY <1>1, <1>2, <1>3 DEF Next

LEMMA DeviceStep ==
  ASSUME IInv, Next
  PROVE  DeviceTypes' /\ Shadow' /\ Masking' /\ NoClock'
<1> USE DEF IInv
<1>0. DeviceTypes /\ Queues /\ CallTypes /\ QueueFits /\ Shadow /\ Masking /\ NoClock
  BY TypeParts
<1>1. CASE Call
  <2>1. /\ UNCHANGED <<irq_enable, control, host_inactive, isr, wi, space, avail, ac, pause_irq, pie, context>>
        /\ pc # "mask" /\ pc' # "mask"
    BY <1>1 DEF Call, Write, Read, Close, SetTimeout, Program, enables, silence, service, host
  <2>2. timeout' \in Nat /\ (timeout' = INT_MAX => timeout = INT_MAX)
    BY <1>0, <1>1, Constants DEF Call, Write, Read, Close, SetTimeout, silence, DeviceTypes
  <2> QED
    BY <1>0, <2>1, <2>2 DEF DeviceTypes, Shadow, Masking, NoClock
<1>2. CASE Continue
  <2>1. CASE DisableAll \/ AskForInterrupts
    BY <1>0, <2>1 DEF DisableAll, AskForInterrupts, Program, enables, silence, service, host, Enables,
       DeviceTypes, Shadow, Masking, NoClock
  <2>2. CASE Measure \/ AllCopied \/ Copy \/ WaitSent \/ TryAgain \/ Fetch \/ TakePiece \/ WaitTyped
             \/ Arrived \/ Return \/ Drain
    <3>1. /\ UNCHANGED <<enables, silence, service, host, pie, context>>
          /\ pc # "mask" /\ pc' # "mask"
      BY <2>2 DEF Measure, AllCopied, Copy, WaitSent, TryAgain, Fetch, TakePiece, WaitTyped,
         Arrived, Return, Drain, Program
    <3> QED
      BY <1>0, <3>1 DEF enables, silence, service, host, DeviceTypes, Shadow, Masking, NoClock
  <2> QED
    BY <1>2, <2>1, <2>2 DEF Continue
<1>3. CASE Serve
  <2>1. UNCHANGED <<silence, pie, context, pc>> /\ control' = irq_enable' /\ irq_enable' \subseteq irq_enable
    BY <1>0, <1>3 DEF Serve, Interrupt, Dispatch, ReadControl, ReceiveOne, ReceiveEnd,
       ReceiveFull, ReceiveNone, TurnOff, SendOne, SendEnd, Leave, enables, host, Shadow
  <2>2. isr' \in RoutinePoints /\ (isr' # "none" => isr # "none" \/ pie)
    BY <1>3 DEF Serve, Interrupt, Dispatch, ReadControl, ReceiveOne, ReceiveEnd, ReceiveFull,
       ReceiveNone, TurnOff, SendOne, SendEnd, Leave, Routine, RoutinePoints
  <2>3. wi' \in BOOLEAN /\ avail' \in BOOLEAN
    BY <1>0, <1>3, Zenon DEF Serve, Interrupt, Dispatch, ReadControl, ReceiveOne, ReceiveEnd,
       ReceiveFull, ReceiveNone, TurnOff, SendOne, SendEnd, Leave, DeviceTypes, service, WriteIrq,
       fifo_AE
  <2>4. space' \in Nat
    <3>1. Len(txFifo) \in Nat /\ FIFO_DEPTH \in Nat /\ space \in Nat /\ Len(txFifo) <= FIFO_DEPTH
      BY <1>0, Constants DEF Queues, QueueFits, DeviceTypes
    <3> QED
      BY <1>3, <3>1, SMTT(30) DEF Serve, Interrupt, Dispatch, ReadControl, ReceiveOne, ReceiveEnd,
         ReceiveFull, ReceiveNone, TurnOff, SendOne, SendEnd, Leave
  <2>5. ac' \in BOOLEAN /\ pause_irq' \in BOOLEAN
    <3>1. CASE ReceiveEnd
      BY <1>0, <3>1, Zenon DEF ReceiveEnd, ReceiveFull, ReceiveNone, DeviceTypes, host
    <3>2. CASE Interrupt \/ Dispatch \/ ReadControl \/ ReceiveOne \/ SendOne \/ SendEnd \/ Leave
      BY <1>0, <3>2, Zenon DEF Interrupt, Dispatch, ReadControl, ReceiveOne, SendOne, SendEnd,
         Leave, DeviceTypes, host
    <3> QED
      BY <1>3, <3>1, <3>2 DEF Serve
  <2> QED
    BY <1>0, <2>1, <2>2, <2>3, <2>4, <2>5 DEF DeviceTypes, Shadow, Masking, NoClock, silence
<1>4. CASE Second
  <2>1. host_inactive' \in Nat
    BY <1>0, <1>4 DEF Second, DeviceTypes
  <2> QED
    BY <1>0, <1>4, <2>1 DEF Second, DeviceTypes, Shadow, Masking, NoClock, service
<1>5. CASE Host
  <2>1. /\ UNCHANGED <<irq_enable, control, host_inactive, timeout, isr, wi, space, avail, pie, context, pc>>
    BY <1>5 DEF Host, HostTake, HostType, HostPoll, enables, silence, service
  <2>2. ac' \in BOOLEAN /\ pause_irq' \in BOOLEAN
    BY <1>0, <1>5, Zenon DEF Host, HostTake, HostType, HostPoll, DeviceTypes
  <2> QED
    BY <1>0, <2>1, <2>2 DEF DeviceTypes, Shadow, Masking, NoClock
<1> QED
  BY <1>1, <1>2, <1>3, <1>4, <1>5 DEF Next

-----------------------------------------------------------------------------
(* The dispatcher *)

\* What is pending when the dispatcher is entered stays pending until it looks:
\* in between only the host moves, and it only adds reasons to interrupt.
LEMMA EntryStep ==
  ASSUME IInv, Next
  PROVE  EntryPending' /\ DispatchEnds'
<1> USE DEF IInv
<1>0. Queues /\ EntryPending /\ DispatchEnds
  BY TypeParts
<1>1. CASE Call \/ Continue
  <2>1. isr = "none" /\ isr' = isr
    BY <1>1 DEF Call, Write, Read, Close, SetTimeout, Continue, Measure, AllCopied, Copy, WaitSent,
       TryAgain, Fetch, TakePiece, WaitTyped, Arrived, DisableAll, AskForInterrupts, Return, Drain,
       Program, service
  <2> QED
    BY <2>1 DEF EntryPending, DispatchEnds
<1>2. CASE Serve
  <2>1. CASE Interrupt
    BY <2>1 DEF Interrupt, Routine, EntryPending, DispatchEnds, Pending, ReadIrq, WriteIrq,
       fifo_AF, fifo_AE, enables, host
  <2>2. CASE Dispatch
    BY <1>0, <2>2 DEF Dispatch, Routine, EntryPending, DispatchEnds
  <2>3. CASE ReadControl \/ ReceiveOne \/ ReceiveEnd \/ SendOne \/ SendEnd \/ Leave
    BY <2>3 DEF ReadControl, ReceiveOne, ReceiveEnd, ReceiveFull, ReceiveNone, TurnOff, SendOne,
       SendEnd, Leave, Routine, EntryPending, DispatchEnds
  <2> QED
    BY <1>2, <2>1, <2>2, <2>3 DEF Serve
<1>3. CASE Second
  BY <1>3 DEF Second, service, EntryPending, DispatchEnds
<1>4. CASE Host
  <2>1. isr' = isr /\ control' = control
    BY <1>4 DEF Host, HostTake, HostType, HostPoll, service, enables
  <2>2. (pause_irq => pause_irq') /\ (fifo_AF => fifo_AF') /\ (fifo_AE => fifo_AE')
    <3>1. CASE HostTake
      BY <1>0, <3>1, Moved, Constants DEF HostTake, Queues, fifo_AF, fifo_AE
    <3>2. ASSUME NEW c \in Typed, HostType(c)
          PROVE  pause_irq' = pause_irq /\ (fifo_AF => fifo_AF') /\ txFifo' = txFifo
      <4>1. Len(Append(rxFifo, c)) = Len(rxFifo) + 1 /\ Len(rxFifo) \in Nat
        BY <1>0, Constants DEF Queues
      <4> QED
        BY <3>2, <4>1, Constants DEF HostType, fifo_AF
    <3>3. CASE HostPoll
      BY <3>3 DEF HostPoll, fifo_AF, fifo_AE
    <3> QED
      BY <1>4, <3>1, <3>2, <3>3 DEF Host, fifo_AE
  <2> QED
    BY <1>0, <2>1, <2>2 DEF EntryPending, DispatchEnds, Pending, ReadIrq, WriteIrq
<1> QED
  BY <1>1, <1>2, <1>3, <1>4 DEF Next

-----------------------------------------------------------------------------
(* The wake-ups *)

\* The routine turns the write interrupt off only when it has emptied the ring.
LEMMA SendersStep ==
  ASSUME IInv, Next
  PROVE  SendersWake'
<1> USE DEF IInv
<1>0. DeviceTypes /\ CallTypes /\ SendersWake /\ Where /\ Shadow
  BY TypeParts
<1>1. CASE Call
  <2>1. UNCHANGED <<tx_in, tx_out, control>> /\ pc = "idle"
    BY <1>1 DEF Call, Write, Read, Close, SetTimeout, Program, ring, enables
  <2> QED
    BY <1>0, <2>1 DEF SendersWake
<1>2. CASE Continue
  <2>1. CASE AskForInterrupts
    BY <1>0, <2>1 DEF AskForInterrupts, Program, SendersWake, Where, Shadow, ring
  <2>2. CASE Measure \/ AllCopied \/ Copy
    BY <1>0, <2>2 DEF Measure, AllCopied, Copy, Program, SendersWake, Where, ring, enables, call
  <2>3. CASE WaitSent \/ TryAgain \/ Fetch \/ TakePiece \/ WaitTyped \/ Arrived \/ DisableAll \/ Return \/ Drain
    BY <1>0, <2>3 DEF WaitSent, TryAgain, Fetch, TakePiece, WaitTyped, Arrived, DisableAll,
       Return, Drain, LeaveCall, Program, SendersWake, Where, ring, enables, call
  <2> QED
    BY <1>2, <2>1, <2>2, <2>3 DEF Continue
<1>3. CASE Serve
  <2>0. UNCHANGED <<tx_in, op, pc>>
    BY <1>3 DEF Serve, Interrupt, Dispatch, ReadControl, ReceiveOne, ReceiveEnd, ReceiveFull,
       ReceiveNone, TurnOff, SendOne, SendEnd, Leave, ring, call
  <2>1. CASE SendOne
    BY <1>0, <2>0, <2>1 DEF SendOne, SendersWake, enables
  <2>2. CASE SendEnd
    BY <1>0, <2>0, <2>2 DEF SendEnd, SendersWake, Shadow, ring
  <2>3. CASE ReceiveEnd
    BY <1>0, <2>0, <2>3 DEF ReceiveEnd, ReceiveFull, ReceiveNone, TurnOff, SendersWake, Shadow, ring
  <2>4. CASE Interrupt \/ Dispatch \/ ReadControl \/ ReceiveOne \/ Leave
    <3>1. UNCHANGED <<tx_out, control>>
      BY <2>4 DEF Interrupt, Dispatch, ReadControl, ReceiveOne, Leave, ring, enables
    <3> QED
      BY <1>0, <2>0, <3>1 DEF SendersWake
  <2> QED
    BY <1>3, <2>1, <2>2, <2>3, <2>4 DEF Serve
<1>4. CASE Second \/ Host
  <2>1. UNCHANGED <<tx_in, tx_out, op, pc>> /\ control' = control
    BY <1>0, <1>4 DEF Second, Host, HostTake, HostType, HostPoll, ring, call, enables, Shadow
  <2> QED
    BY <1>0, <2>1 DEF SendersWake
<1> QED
  BY <1>1, <1>2, <1>3, <1>4 DEF Next

\* What the device raises for a read has something to read behind it.
LEMMA ReadIrqWork ==
  ASSUME Queues, PauseWithWork, ReadIrq
  PROVE  rxFifo # <<>>
<1>1. CASE fifo_AF
  <2>1. Len(rxFifo) > 0
    BY <1>1, Constants DEF fifo_AF, Queues
  <2> QED
    BY <2>1 DEF Queues
<1> QED
  BY <1>1 DEF ReadIrq, PauseWithWork

\* The routine turns the read interrupt off when its last look at the queue has
\* found something there, and only it takes from the queue, with the interrupt
\* on.
LEMMA ReceiveStep ==
  ASSUME IInv, Next
  PROVE  ReceiveWork'
<1> USE DEF IInv
<1>0. Queues /\ DeviceTypes /\ CallTypes /\ Shadow /\ PauseWithWork /\ Receiving /\ SilencedWithWork /\ Where
  BY TypeParts DEF ReceiveWork
<1>1. CASE Call \/ Continue
  <2>1. UNCHANGED <<rxFifo, pause_irq>> /\ isr = "none" /\ isr' = "none"
    BY <1>1 DEF Call, Write, Read, Close, SetTimeout, Continue, Measure, AllCopied, Copy,
       WaitSent, TryAgain, Fetch, TakePiece, WaitTyped, Arrived, DisableAll, AskForInterrupts,
       Return, Drain, Program, host, service
  <2>2. "RE" \in control => "RE" \in control'
    BY <1>0, <1>1 DEF Call, Write, Read, Close, SetTimeout, Continue, Measure, AllCopied, Copy,
       WaitSent, TryAgain, Fetch, TakePiece, WaitTyped, Arrived, DisableAll, AskForInterrupts,
       Return, Drain, enables, Shadow
  <2> QED
    BY <1>0, <2>1, <2>2 DEF ReceiveWork, PauseWithWork, Receiving, SilencedWithWork
<1>2. CASE Serve
  <2>1. CASE ReadControl
    <3>1. UNCHANGED <<rxFifo, pause_irq, control>> /\ (isr' = "rx" => ReadIrq)
      BY <2>1 DEF ReadControl, Routine, host, enables
    <3> QED
      BY <1>0, <3>1, ReadIrqWork DEF ReadIrq, ReceiveWork, PauseWithWork, Receiving, SilencedWithWork
  <2>2. CASE ReceiveOne
    <3>1. control' = control /\ pause_irq' = FALSE /\ isr = "rx" /\ (avail' => rxFifo' # <<>>)
      BY <2>2 DEF ReceiveOne, Routine, enables
    <3> QED
      BY <1>0, <3>1 DEF ReceiveWork, PauseWithWork, Receiving, SilencedWithWork
  <2>3. CASE ReceiveFull
    <3>1. /\ UNCHANGED <<rxFifo, pause_irq>> /\ isr = "rx" /\ isr' # "rx"
          /\ "RE" \notin control' => avail \/ "RE" \notin control
      BY <2>3 DEF ReceiveFull, TurnOff, Routine, host
    <3> QED
      BY <1>0, <3>1 DEF ReceiveWork, PauseWithWork, Receiving, SilencedWithWork
  <2>4. ASSUME NEW s, ReceiveNone(s) PROVE ReceiveWork'
    <3>1. /\ rxFifo' = s /\ pause_irq' = FALSE /\ isr = "rx" /\ isr' # "rx"
          /\ "RE" \notin control' => s # <<>> \/ "RE" \notin control
      BY <2>4 DEF ReceiveNone, TurnOff, Routine
    <3> QED
      BY <1>0, <3>1 DEF ReceiveWork, PauseWithWork, Receiving, SilencedWithWork
  <2>5. CASE SendEnd
    <3>1. UNCHANGED <<rxFifo, pause_irq>> /\ isr' # "rx" /\ ("RE" \in control' <=> "RE" \in control)
      BY <1>0, <2>5 DEF SendEnd, Routine, host, Shadow
    <3> QED
      BY <1>0, <3>1 DEF ReceiveWork, PauseWithWork, Receiving, SilencedWithWork
  <2>6. CASE Interrupt \/ Dispatch \/ SendOne \/ Leave
    <3>1. UNCHANGED <<rxFifo, pause_irq, control>> /\ isr' # "rx"
      BY <2>6 DEF Interrupt, Dispatch, SendOne, Leave, Routine, host, enables
    <3> QED
      BY <1>0, <3>1 DEF ReceiveWork, PauseWithWork, Receiving, SilencedWithWork
  <2> QED
    BY <1>2, <2>1, <2>2, <2>3, <2>4, <2>5, <2>6 DEF Serve, ReceiveEnd
<1>3. CASE Second \/ HostTake
  <2>1. UNCHANGED <<rxFifo, pause_irq, isr, avail, control>>
    BY <1>0, <1>3 DEF Second, HostTake, service, enables, Shadow
  <2> QED
    BY <1>0, <2>1 DEF ReceiveWork, PauseWithWork, Receiving, SilencedWithWork
<1>4. CASE HostPoll
  <2>1. UNCHANGED <<rxFifo, isr, avail, control>> /\ pause_irq' = (pause_irq \/ rxFifo # <<>>)
    BY <1>4 DEF HostPoll, service, enables
  <2> QED
    BY <1>0, <2>1 DEF ReceiveWork, PauseWithWork, Receiving, SilencedWithWork
<1>5. ASSUME NEW c \in Typed, HostType(c) PROVE ReceiveWork'
  <2>1. UNCHANGED <<isr, avail, control, pause_irq>> /\ rxFifo' # <<>>
    BY <1>0, <1>5 DEF HostType, Queues, service, enables
  <2> QED
    BY <1>0, <2>1 DEF ReceiveWork, PauseWithWork, Receiving, SilencedWithWork
<1> QED
  BY <1>1, <1>2, <1>3, <1>4, <1>5 DEF Next, Host

-----------------------------------------------------------------------------
(* Whole writes *)

\* A write that may wait returns when nothing is left, or from the wait after
\* some silence, and without a clock there is none.
LEMMA WholeStep ==
  ASSUME IInv, Next
  PROVE  WholeWrites'
<1> USE DEF IInv
<1>0. CallTypes /\ DeviceTypes /\ WholeWrites /\ Where /\ NoClock
  BY TypeParts
<1>1. CASE Call
  BY <1>0, <1>1, Constants DEF Call, Write, Read, Close, SetTimeout, Program, WholeWrites
<1>2. CASE Continue
  <2>1. CASE AskForInterrupts \/ TryAgain
    BY <1>0, <2>1 DEF AskForInterrupts, TryAgain, Program, WholeWrites, Where, NoClock,
       DeviceTypes, call, silence
  <2>2. CASE Measure \/ AllCopied \/ Copy \/ WaitSent \/ DisableAll \/ TakePiece \/ WaitTyped \/ Return \/ Drain
    BY <2>2 DEF Measure, AllCopied, Copy, WaitSent, DisableAll, TakePiece, WaitTyped, Return,
       Drain, Program, WholeWrites
  <2>3. CASE Fetch \/ Arrived
    BY <1>0, <2>3 DEF Fetch, Arrived, Program, WholeWrites, Where, call
  <2> QED
    BY <1>2, <2>1, <2>2, <2>3 DEF Continue
<1>3. CASE Serve \/ Second \/ Host
  <2>1. UNCHANGED <<pc, op, nonblock, timeout, todo>>
    BY <1>3 DEF Serve, Interrupt, Dispatch, ReadControl, ReceiveOne, ReceiveEnd, ReceiveFull,
       ReceiveNone, TurnOff, SendOne, SendEnd, Leave, Second, Host, HostTake, HostType, HostPoll,
       call, silence
  <2> QED
    BY <1>0, <2>1 DEF WholeWrites
<1> QED
  BY <1>1, <1>2, <1>3 DEF Next

-----------------------------------------------------------------------------
LEMMA StutterIInv == ASSUME IInv, UNCHANGED vars PROVE IInv'
<1>1. UNCHANGED <<ring, enables, host, silence, pie, context, pc, call, piece, service>>
  BY DEF vars
<1>2. TypeOK' /\ Shadow' /\ Masking' /\ Where' /\ PieceFits'
  BY <1>1 DEF IInv, TypeOK, Shadow, Masking, Where, PieceFits, ring, enables, host, silence, call,
     piece, service
<1>3. QueueFits' /\ NoClock' /\ EntryPending' /\ DispatchEnds' /\ SendersWake' /\ ReceiveWork' /\ WholeWrites'
  BY <1>1 DEF IInv, QueueFits, NoClock, EntryPending, DispatchEnds, SendersWake, ReceiveWork,
     PauseWithWork, Receiving, SilencedWithWork, WholeWrites, Pending, ReadIrq, WriteIrq, fifo_AF,
     fifo_AE, ring, enables, host, silence, call, service
<1> QED
  BY <1>2, <1>3 DEF IInv

\* The strengthening that the four facts below need of each other: where the
\* program is, which interrupts are on, and what the dispatcher was entered for.
THEOREM Inductive == Spec => []IInv
<1>1. IInv /\ Next => IInv'
  BY RingsStep, QueuesStep, CallStep, DeviceStep, EntryStep, SendersStep, ReceiveStep, WholeStep,
     PrimedTypeParts DEF IInv
<1>2. IInv /\ [Next]_vars => IInv'
  BY <1>1, StutterIInv
<1> QED
  BY InitIInv, <1>2, PTL DEF Spec

\* Every variable keeps its type, and the pieces stay within the rings.
THEOREM TypeCorrect == Spec => []TypeOK
<1>1. IInv => TypeOK
  BY DEF IInv
<1> QED
  BY <1>1, Inductive, PTL

\* No order of the program's statements, the interrupt routine and the host
\* leaves the write interrupt off with characters in the ring, or the read
\* interrupt off with nothing in the device.
THEOREM WakeUpsKept == Spec => []NoWakeUpLost
<1>1. IInv => NoWakeUpLost
  BY DEF IInv, ReceiveWork, NoWakeUpLost
<1> QED
  BY <1>1, Inductive, PTL

\* The dispatcher never searches for an interrupt that is no longer there.
THEOREM DispatcherReturns == Spec => []DispatchEnds
<1>1. IInv => DispatchEnds
  BY DEF IInv
<1> QED
  BY <1>1, Inductive, PTL

\* Without a clock a write that may wait has written everything when it returns.
THEOREM WritesAreWhole == Spec => []WholeWrites
<1>1. IInv => WholeWrites
  BY DEF IInv
<1> QED
  BY <1>1, Inductive, PTL
-----------------------------------------------------------------------------
(* The rings as sequences *)

\* How many characters a ring holds, and the index k places after i.
Count(i, o) == (i - o + BUF_LEN) % BUF_LEN
After(i, k) == IF i + k < BUF_LEN THEN i + k ELSE i + k - BUF_LEN

LEMMA Wrapped ==
  ASSUME NEW x \in 0..(2 * BUF_LEN - 1)
  PROVE  x % BUF_LEN = IF x < BUF_LEN THEN x ELSE x - BUF_LEN
<1>1. BUF_LEN \in Nat /\ BUF_LEN > 1
  BY Constants
<1>2. CASE x < BUF_LEN
  BY <1>1, <1>2, SMTT(60)
<1>3. CASE x >= BUF_LEN
  <2>1. x \in BUF_LEN..(2 * BUF_LEN - 1)
    BY <1>1, <1>3
  <2>2. x % BUF_LEN = x - BUF_LEN
    BY <1>1, <2>1, SMTT(60)
  <2> QED
    BY <1>1, <1>3, <2>2
<1> QED
  BY <1>1, <1>2, <1>3

LEMMA CountValue ==
  ASSUME NEW i \in Slot, NEW o \in Slot
  PROVE  /\ Count(i, o) = IF i >= o THEN i - o ELSE i - o + BUF_LEN
         /\ Count(i, o) \in 0..(BUF_LEN - 1)
<1> DEFINE x == i - o + BUF_LEN
<1>1. BUF_LEN \in Nat /\ BUF_LEN > 1 /\ x \in 0..(2 * BUF_LEN - 1)
  BY Constants DEF Slot
<1>2. Count(i, o) = x % BUF_LEN
  BY DEF Count
<1> HIDE DEF x
<1>3. x % BUF_LEN = IF x < BUF_LEN THEN x ELSE x - BUF_LEN
  BY <1>1, Wrapped
<1> QED
  BY <1>1, <1>2, <1>3 DEF Slot, x

LEMMA AdvanceValue ==
  ASSUME NEW i \in Slot, NEW k \in 0..BUF_LEN
  PROVE  Advance(i, k) = After(i, k) /\ After(i, k) \in Slot
<1>1. BUF_LEN \in Nat /\ BUF_LEN > 1 /\ i + k \in 0..(2 * BUF_LEN - 1)
  BY Constants DEF Slot
<1> QED
  BY <1>1, Wrapped DEF Advance, After, Slot

\* What a ring holds, place by place.
LEMMA HeldAt ==
  ASSUME NEW buf \in [Slot -> Char], NEW i \in Slot, NEW o \in Slot
  PROVE  /\ Held(buf, i, o) \in Seq(Char)
         /\ Len(Held(buf, i, o)) = Count(i, o)
         /\ \A k \in 1..Count(i, o) : Held(buf, i, o)[k] = buf[After(o, k - 1)]
<1> DEFINE h == [k \in 1..Count(i, o) |-> buf[(o + k - 1) % BUF_LEN]]
<1>1. Count(i, o) \in 0..(BUF_LEN - 1) /\ BUF_LEN \in Nat
  BY CountValue, Constants
<1>2. \A k \in 1..Count(i, o) : (o + k - 1) % BUF_LEN = After(o, k - 1) /\ After(o, k - 1) \in Slot
  <2> TAKE k \in 1..Count(i, o)
  <2>1. k - 1 \in 0..BUF_LEN /\ o + (k - 1) = o + k - 1
    BY <1>1 DEF Slot
  <2> QED
    BY <2>1, AdvanceValue DEF Advance
<1>3. \A k \in 1..Count(i, o) : buf[(o + k - 1) % BUF_LEN] \in Char
  BY <1>2
<1>4. h \in Seq(Char) /\ Len(h) = Count(i, o)
  BY <1>1, <1>3
<1>5. \A k \in 1..Count(i, o) : h[k] = buf[After(o, k - 1)]
  BY <1>2
<1>6. Held(buf, i, o) = h
  BY DEF Held, Count
<1> QED
  BY <1>4, <1>5, <1>6

LEMMA SameCharacters ==
  ASSUME NEW s \in Seq(Char), NEW t \in Seq(Char), Len(s) = Len(t), \A i \in 1..Len(s) : s[i] = t[i]
  PROVE  s = t
OBVIOUS

\* The index of the reader moves past the first m characters.
LEMMA Joined ==
  ASSUME NEW s \in Seq(Char), NEW t \in Seq(Char)
  PROVE  /\ s \o t \in Seq(Char) /\ Len(s \o t) = Len(s) + Len(t)
         /\ \A k \in 1..(Len(s) + Len(t)) : (s \o t)[k] = IF k <= Len(s) THEN s[k] ELSE t[k - Len(s)]
OBVIOUS

LEMMA HeldTaken ==
  ASSUME NEW buf \in [Slot -> Char], NEW i \in Slot, NEW o \in Slot, NEW m \in 1..Count(i, o)
  PROVE  Held(buf, i, Advance(o, m)) = SubSeq(Held(buf, i, o), m + 1, Count(i, o))
<1> DEFINE h == Held(buf, i, o)
           p == Advance(o, m)
           t == SubSeq(h, m + 1, Count(i, o))
<1>1. BUF_LEN \in Nat /\ BUF_LEN > 1 /\ Count(i, o) \in 0..(BUF_LEN - 1)
  BY Constants, CountValue
<1>2. p = After(o, m) /\ p \in Slot
  BY <1>1, AdvanceValue
<1>3. Count(i, p) = Count(i, o) - m
  <2>1. Count(i, p) = IF i >= p THEN i - p ELSE i - p + BUF_LEN
    BY <1>2, CountValue
  <2>2. Count(i, o) = IF i >= o THEN i - o ELSE i - o + BUF_LEN
    BY CountValue
  <2> HIDE DEF p
  <2> QED
    BY <1>1, <1>2, <2>1, <2>2 DEF Slot, After
<1>4. h \in Seq(Char) /\ Len(h) = Count(i, o) /\ \A k \in 1..Count(i, o) : h[k] = buf[After(o, k - 1)]
  BY HeldAt
<1>5. /\ Held(buf, i, p) \in Seq(Char) /\ Len(Held(buf, i, p)) = Count(i, p)
      /\ \A k \in 1..Count(i, p) : Held(buf, i, p)[k] = buf[After(p, k - 1)]
  BY <1>2, HeldAt
<1> HIDE DEF h, p
<1>6. t \in Seq(Char) /\ Len(t) = Count(i, o) - m
  BY <1>1, <1>4
<1>7. \A k \in 1..(Count(i, o) - m) : t[k] = h[m + k]
  BY <1>1, <1>4
<1>8. \A k \in 1..(Count(i, o) - m) : After(p, k - 1) = After(o, m + k - 1)
  BY <1>1, <1>2 DEF After, Slot
<1>9. \A k \in 1..Len(t) : Held(buf, i, p)[k] = t[k]
  <2> TAKE k \in 1..Len(t)
  <2>1. k \in 1..(Count(i, o) - m) /\ m + k \in 1..Count(i, o)
    BY <1>1, <1>6
  <2>2. Held(buf, i, p)[k] = buf[After(p, k - 1)]
    BY <1>3, <1>5, <2>1
  <2>3. t[k] = buf[After(o, m + k - 1)]
    BY <1>4, <1>7, <2>1
  <2> QED
    BY <1>8, <2>1, <2>2, <2>3
<1> HIDE DEF t
<1>10. Held(buf, i, p) = t
  BY <1>3, <1>5, <1>6, <1>9, SameCharacters
<1> QED
  BY <1>10 DEF p, t, h

\* The reader copies its first m characters out of one stretch of the ring.
LEMMA HeldFront ==
  ASSUME NEW buf \in [Slot -> Char], NEW i \in Slot, NEW o \in Slot, NEW m \in 1..Count(i, o), o + m <= BUF_LEN
  PROVE  [k \in 1..m |-> buf[o + k - 1]] = SubSeq(Held(buf, i, o), 1, m)
<1> DEFINE h == Held(buf, i, o)
           t == [k \in 1..m |-> buf[o + k - 1]]
<1>1. BUF_LEN \in Nat /\ BUF_LEN > 1 /\ Count(i, o) \in 0..(BUF_LEN - 1)
  BY Constants, CountValue
<1>2. h \in Seq(Char) /\ Len(h) = Count(i, o) /\ \A k \in 1..Count(i, o) : h[k] = buf[After(o, k - 1)]
  BY HeldAt
<1> HIDE DEF h
<1>3. \A k \in 1..m : o + k - 1 \in Slot /\ After(o, k - 1) = o + k - 1
  BY <1>1 DEF After, Slot
<1>4. t \in Seq(Char) /\ Len(t) = m
  <2>1. \A k \in 1..m : buf[o + k - 1] \in Char
    BY <1>3
  <2> QED
    BY <1>1, <2>1
<1>5. SubSeq(h, 1, m) \in Seq(Char) /\ Len(SubSeq(h, 1, m)) = m /\ \A k \in 1..m : SubSeq(h, 1, m)[k] = h[k]
  BY <1>1, <1>2
<1>6. \A k \in 1..m : t[k] = h[k]
  BY <1>1, <1>2, <1>3
<1> HIDE DEF t
<1>7. t = SubSeq(h, 1, m)
  BY <1>4, <1>5, <1>6, SameCharacters
<1> QED
  BY <1>7 DEF t, h

\* The ring with the first m characters of s put at the index i.
Filled(buf, i, s, m) ==
  [j \in Slot |-> IF j \in i..(i + m - 1) THEN s[j - i + 1] ELSE buf[j]]

\* The writer puts m characters where there is room for them.
LEMMA HeldFilled ==
  ASSUME NEW buf \in [Slot -> Char], NEW i \in Slot, NEW o \in Slot, NEW s \in Seq(Char), NEW m \in 1..Len(s),
         m + Count(i, o) <= BUF_LEN - 1, i + m <= BUF_LEN
  PROVE  Held(Filled(buf, i, s, m), Advance(i, m), o) = Held(buf, i, o) \o SubSeq(s, 1, m)
<1> DEFINE new == Filled(buf, i, s, m)
           c == Count(i, o)
           h == Held(buf, i, o)
           g == Held(new, Advance(i, m), o)
           f == SubSeq(s, 1, m)
<1>0. new \in [Slot -> Char] /\ \A j \in Slot : new[j] = IF j \in i..(i + m - 1) THEN s[j - i + 1] ELSE buf[j]
  <2>1. \A j \in Slot : j \in i..(i + m - 1) => s[j - i + 1] \in Char
    <3> TAKE j \in Slot
    <3> HAVE j \in i..(i + m - 1)
    <3>1. j - i + 1 \in 1..Len(s)
      BY Constants DEF Slot
    <3> QED
      BY <3>1
  <2> QED
    BY <2>1 DEF Filled
<1>1. BUF_LEN \in Nat /\ BUF_LEN > 1 /\ c \in 0..(BUF_LEN - 1) /\ m \in 1..BUF_LEN
  BY Constants, CountValue DEF Slot
<1>2. c = IF i >= o THEN i - o ELSE i - o + BUF_LEN
  BY CountValue
<1>3. Advance(i, m) = After(i, m) /\ After(i, m) \in Slot
  BY <1>1, AdvanceValue
<1>4. Count(After(i, m), o) = c + m
  <2>1. Count(After(i, m), o) = IF After(i, m) >= o THEN After(i, m) - o ELSE After(i, m) - o + BUF_LEN
    BY <1>3, CountValue
  <2> HIDE DEF c
  <2> QED
    BY <1>1, <1>2, <1>3, <2>1 DEF After, Slot, c
<1>5. h \in Seq(Char) /\ Len(h) = c /\ \A k \in 1..c : h[k] = buf[After(o, k - 1)]
  BY HeldAt
<1>6. g \in Seq(Char) /\ Len(g) = c + m /\ \A k \in 1..(c + m) : g[k] = new[After(o, k - 1)]
  <2> DEFINE p == After(i, m)
  <2> HIDE DEF new
  <2>1. /\ Held(new, p, o) \in Seq(Char) /\ Len(Held(new, p, o)) = Count(p, o)
        /\ \A k \in 1..Count(p, o) : Held(new, p, o)[k] = new[After(o, k - 1)]
    BY <1>0, <1>3, HeldAt
  <2> QED
    BY <1>3, <1>4, <2>1
<1>7. f \in Seq(Char) /\ Len(f) = m /\ \A k \in 1..m : f[k] = s[k]
  BY <1>1
<1> HIDE DEF new, c, h, g, f
<1>8. /\ h \o f \in Seq(Char) /\ Len(h \o f) = c + m
      /\ \A k \in 1..(c + m) : (h \o f)[k] = IF k <= c THEN h[k] ELSE f[k - c]
  <2>1. /\ h \o f \in Seq(Char) /\ Len(h \o f) = Len(h) + Len(f)
        /\ \A k \in 1..(Len(h) + Len(f)) : (h \o f)[k] = IF k <= Len(h) THEN h[k] ELSE f[k - Len(h)]
    BY <1>5, <1>7, Joined
  <2>2. Len(h) = c /\ Len(f) = m
    BY <1>5, <1>7
  <2> QED
    BY <2>1, <2>2, Zenon
<1>9. \A k \in 1..(c + m) : g[k] = (h \o f)[k]
  <2> TAKE k \in 1..(c + m)
  <2> DEFINE j == After(o, k - 1)
  <2>1. j \in Slot /\ k \in Nat /\ k >= 1 /\ k <= c + m
    <3>1. k - 1 \in 0..BUF_LEN
      BY <1>1 DEF c
    <3> QED
      BY <1>1, <3>1, AdvanceValue DEF c
  <2>2. g[k] = new[j]
    BY <1>6
  <2>3. (h \o f)[k] = IF k <= c THEN h[k] ELSE f[k - c]
    BY <1>8
  <2>4. j = IF o + (k - 1) < BUF_LEN THEN o + (k - 1) ELSE o + (k - 1) - BUF_LEN
    BY DEF After
  <2> HIDE DEF j
  <2>5. CASE k <= c
    <3>1. ~(j >= i /\ j <= i + m - 1)
      BY <1>1, <1>2, <2>1, <2>4, <2>5 DEF Slot, c
    <3>2. k \in 1..c /\ j \notin i..(i + m - 1)
      BY <1>1, <2>1, <2>5, <3>1 DEF Slot
    <3>3. new[j] = buf[j] /\ h[k] = buf[j]
      BY <1>0, <1>5, <2>1, <3>2 DEF j
    <3> QED
      BY <2>2, <2>3, <2>5, <3>3
  <2>6. CASE k > c
    <3>1. j = i + (k - c) - 1 /\ k - c \in 1..m
      BY <1>1, <1>2, <2>1, <2>4, <2>6 DEF Slot
    <3>2. j \in i..(i + m - 1) /\ j - i + 1 = k - c
      BY <1>1, <3>1 DEF Slot
    <3>3. new[j] = s[k - c] /\ f[k - c] = s[k - c]
      BY <1>0, <1>7, <2>1, <3>1, <3>2
    <3>4. ~(k <= c)
      BY <1>1, <2>1, <2>6
    <3> QED
      BY <2>2, <2>3, <3>3, <3>4
  <2>7. k <= c \/ k > c
    BY <1>1, <2>1
  <2> QED
    BY <2>5, <2>6, <2>7, Zenon
<1>10. g = h \o f
  BY <1>6, <1>8, <1>9, SameCharacters
<1> QED
  BY <1>10 DEF new, g, h, f

-----------------------------------------------------------------------------
(* The pieces and the characters they move *)

\* A piece of a write has room up to the slot that stays free, and a piece of a
\* read is there, although the other index moves between measuring and moving.
CopyFits ==
  pc = "copy" => n >= 1 /\ tx_in + n <= BUF_LEN /\ n + Count(tx_in, tx_out) <= BUF_LEN - 1

TakeFits == pc = "take" => n <= Count(rx_in, rx_out)

\* The interrupt routine never believes in more room than the device has.
SpaceFits == isr \in {"rx", "tx"} => space + Len(txFifo) <= FIFO_DEPTH

Travel == CopyFits /\ TakeFits /\ SpaceFits

LEMMA PieceBounds ==
  ASSUME NEW i \in Slot, NEW o \in Slot
  PROVE  /\ i + TxPiece(i, o) <= BUF_LEN /\ TxPiece(i, o) + Count(i, o) <= BUF_LEN - 1
         /\ RxPiece(i, o) <= Count(i, o)
<1>1. Count(i, o) = IF i >= o THEN i - o ELSE i - o + BUF_LEN
  BY CountValue
<1> QED
  BY <1>1, Constants DEF TxPiece, RxPiece, Slot

\* One place on, at either end of the ring.
LEMMA CountStep ==
  ASSUME NEW i \in Slot, NEW o \in Slot
  PROVE  /\ i # o => Count(i, o) >= 1 /\ Count(i, Advance(o, 1)) = Count(i, o) - 1
         /\ Advance(i, 1) # o => Count(Advance(i, 1), o) = Count(i, o) + 1 /\ Count(i, o) + 1 <= BUF_LEN - 1
<1> DEFINE p == Advance(o, 1)
           q == Advance(i, 1)
<1>0. BUF_LEN \in Nat /\ BUF_LEN > 1 /\ 1 \in 0..BUF_LEN
  BY Constants
<1>1. p = After(o, 1) /\ p \in Slot /\ q = After(i, 1) /\ q \in Slot
  BY <1>0, AdvanceValue
<1>2. Count(i, o) = IF i >= o THEN i - o ELSE i - o + BUF_LEN
  BY CountValue
<1>3. Count(i, p) = IF i >= p THEN i - p ELSE i - p + BUF_LEN
  BY <1>1, CountValue
<1>4. Count(q, o) = IF q >= o THEN q - o ELSE q - o + BUF_LEN
  BY <1>1, CountValue
<1> HIDE DEF p, q
<1>5. i # o => Count(i, o) >= 1 /\ Count(i, p) = Count(i, o) - 1
  BY <1>0, <1>1, <1>2, <1>3 DEF After, Slot
<1>6. q # o => Count(q, o) = Count(i, o) + 1 /\ Count(i, o) + 1 <= BUF_LEN - 1
  BY <1>0, <1>1, <1>2, <1>4 DEF After, Slot
<1> QED
  BY <1>5, <1>6 DEF p, q

LEMMA CopyFitsStep ==
  ASSUME IInv, CopyFits, Next
  PROVE  CopyFits'
<1>0. Rings /\ CallTypes
  BY TypeParts DEF IInv
<1>1. CASE Measure
  <2> DEFINE room == TxPiece(tx_in, tx_out)
  <2>1. room \in Nat /\ tx_in + room <= BUF_LEN /\ room + Count(tx_in, tx_out) <= BUF_LEN - 1
    BY <1>0, Pieces, PieceBounds DEF Rings
  <2>2. Len(todo) \in Nat /\ Len(todo) >= 1
    BY <1>0, <1>1 DEF Measure, CallTypes
  <2>3. /\ pc' = "copy" => room # 0
        /\ n' = Least(room, Len(todo)) /\ UNCHANGED <<tx_in, tx_out>>
    BY <1>1 DEF Measure, Program, ring
  <2>4. Count(tx_in, tx_out) \in Nat /\ tx_in \in Nat /\ BUF_LEN \in Nat
    <3>1. Count(tx_in, tx_out) \in 0..(BUF_LEN - 1) /\ tx_in \in 0..(BUF_LEN - 1)
      BY <1>0, CountValue DEF Rings, Slot
    <3> QED
      BY <3>1, Constants
  <2>5. Count(tx_in, tx_out)' = Count(tx_in, tx_out)
    BY <2>3 DEF Count
  <2> HIDE DEF room
  <2>6. n' \in Nat /\ n' <= room /\ (room # 0 => n' >= 1)
    BY <2>1, <2>2, <2>3 DEF Least
  <2> QED
    BY <2>1, <2>3, <2>4, <2>5, <2>6 DEF CopyFits
<1>2. CASE SendOne
  <2>1. tx_in # tx_out /\ tx_out' = Advance(tx_out, 1) /\ UNCHANGED <<pc, n, tx_in>>
    BY <1>2 DEF SendOne, piece
  <2>2. Count(tx_in, tx_out)' = Count(tx_in, tx_out) - 1
    BY <1>0, <2>1, CountStep DEF Rings, Count
  <2>3. Count(tx_in, tx_out) \in Nat /\ n \in Nat /\ BUF_LEN \in Nat
    BY <1>0, CountValue, Constants DEF Rings, CallTypes
  <2> QED
    BY <2>1, <2>2, <2>3 DEF CopyFits
<1>3. CASE Call \/ AllCopied \/ Copy \/ WaitSent \/ TryAgain \/ Fetch \/ TakePiece \/ WaitTyped \/ Arrived
           \/ DisableAll \/ AskForInterrupts \/ Return \/ Drain
  BY <1>3 DEF Call, Write, Read, Close, SetTimeout, AllCopied, Copy, WaitSent, TryAgain, Fetch,
     TakePiece, WaitTyped, Arrived, DisableAll, AskForInterrupts, Return, Drain, Program, CopyFits
<1>4. CASE Interrupt \/ Dispatch \/ ReadControl \/ ReceiveOne \/ ReceiveEnd \/ SendEnd \/ Leave \/ Second \/ Host
  <2>1. UNCHANGED <<pc, n, tx_in, tx_out>>
    BY <1>4 DEF Interrupt, Dispatch, ReadControl, ReceiveOne, ReceiveEnd, ReceiveFull,
       ReceiveNone, TurnOff, SendEnd, Leave, Second, Host, HostTake, HostType, HostPoll, ring,
       piece
  <2> QED
    BY <2>1 DEF CopyFits, Count
<1> QED
  BY <1>1, <1>2, <1>3, <1>4 DEF Next, Continue, Serve

LEMMA TakeFitsStep ==
  ASSUME IInv, TakeFits, Next
  PROVE  TakeFits'
<1>0. Rings /\ CallTypes
  BY TypeParts DEF IInv
<1>1. CASE Fetch
  <2> DEFINE m == RxPiece(rx_in, rx_out)
  <2>1. m \in Nat /\ m <= Count(rx_in, rx_out) /\ Count(rx_in, rx_out) \in Nat /\ want \in Nat
    BY <1>0, Pieces, PieceBounds, CountValue DEF Rings, CallTypes
  <2>2. n' = Least(m, want) /\ UNCHANGED <<rx_in, rx_out>>
    BY <1>1 DEF Fetch, ring
  <2>3. Count(rx_in, rx_out)' = Count(rx_in, rx_out)
    BY <2>2 DEF Count
  <2> HIDE DEF m
  <2> QED
    BY <2>1, <2>2, <2>3 DEF Least, TakeFits
<1>2. CASE ReceiveOne
  <2>1. Advance(rx_in, 1) # rx_out /\ rx_in' = Advance(rx_in, 1) /\ UNCHANGED <<pc, n, rx_out>>
    BY <1>2 DEF ReceiveOne, RxFull, piece
  <2>2. Count(rx_in, rx_out)' = Count(rx_in, rx_out) + 1
    BY <1>0, <2>1, CountStep DEF Rings, Count
  <2>3. Count(rx_in, rx_out) \in Nat /\ n \in Nat
    BY <1>0, CountValue, Constants DEF Rings, CallTypes
  <2> QED
    BY <2>1, <2>2, <2>3 DEF TakeFits
<1>3. CASE Call \/ Measure \/ AllCopied \/ Copy \/ WaitSent \/ TryAgain \/ TakePiece \/ WaitTyped \/ Arrived
           \/ DisableAll \/ AskForInterrupts \/ Return \/ Drain
  BY <1>3 DEF Call, Write, Read, Close, SetTimeout, Measure, AllCopied, Copy, WaitSent, TryAgain,
     TakePiece, WaitTyped, Arrived, DisableAll, AskForInterrupts, Return, Drain, Program, TakeFits
<1>4. CASE Interrupt \/ Dispatch \/ ReadControl \/ SendOne \/ ReceiveEnd \/ SendEnd \/ Leave \/ Second \/ Host
  <2>1. UNCHANGED <<pc, n, rx_in, rx_out>>
    BY <1>4 DEF Interrupt, Dispatch, ReadControl, SendOne, ReceiveEnd, ReceiveFull, ReceiveNone,
       TurnOff, SendEnd, Leave, Second, Host, HostTake, HostType, HostPoll, ring, piece
  <2> QED
    BY <2>1 DEF TakeFits, Count
<1> QED
  BY <1>1, <1>2, <1>3, <1>4 DEF Next, Continue, Serve

LEMMA SpaceFitsStep ==
  ASSUME IInv, SpaceFits, Next
  PROVE  SpaceFits'
<1>0. Queues /\ QueueFits /\ DeviceTypes /\ Rings
  BY TypeParts DEF IInv
<1>1. Len(txFifo) \in Nat /\ FIFO_DEPTH \in Nat /\ space \in Nat
  BY <1>0, Constants DEF Queues, DeviceTypes
<1>2. CASE ReadControl
  BY <1>0, <1>1, <1>2 DEF ReadControl, SpaceFits, QueueFits, host
<1>3. CASE SendOne
  <2>1. tx_buf[tx_out] \in Char
    BY <1>0 DEF Rings
  <2>2. Len(Append(txFifo, tx_buf[tx_out])) = Len(txFifo) + 1
    BY <1>0, <2>1 DEF Queues
  <2>3. isr = "tx" /\ space' = space - 1 /\ space > 0 /\ Len(txFifo') <= Len(txFifo) + 1 /\ Len(txFifo') \in Nat
    BY <1>1, <1>3, <2>2 DEF SendOne, Routine
  <2> QED
    BY <1>1, <2>3 DEF SpaceFits
<1>4. CASE HostTake
  BY <1>0, <1>1, <1>4, Moved DEF HostTake, SpaceFits, Queues, service
<1>5. CASE Call \/ Continue \/ Second \/ HostPoll \/ \E c \in Typed : HostType(c)
  <2>1. UNCHANGED <<isr, space, txFifo>>
    BY <1>5 DEF Call, Write, Read, Close, SetTimeout, Continue, Measure, AllCopied, Copy,
       WaitSent, TryAgain, Fetch, TakePiece, WaitTyped, Arrived, DisableAll, AskForInterrupts,
       Return, Drain, Second, HostPoll, HostType, service, host
  <2> QED
    BY <2>1 DEF SpaceFits
<1>6. CASE Interrupt \/ Dispatch \/ ReceiveOne \/ ReceiveEnd \/ SendEnd \/ Leave
  <2>1. /\ UNCHANGED txFifo
        /\ isr' \in {"rx", "tx"} => isr \in {"rx", "tx"} /\ space' = space
    BY <1>6 DEF Interrupt, Dispatch, ReceiveOne, ReceiveEnd, ReceiveFull, ReceiveNone, TurnOff,
       SendEnd, Leave, Routine, service, host
  <2> QED
    BY <2>1 DEF SpaceFits
<1> QED
  BY <1>2, <1>3, <1>4, <1>5, <1>6 DEF Next, Serve, Host

LEMMA InitTravel == Init => Travel
BY DEF Init, Travel, CopyFits, TakeFits, SpaceFits

LEMMA TravelStep ==
  ASSUME IInv, Travel, [Next]_vars
  PROVE  Travel'
<1>1. CASE Next
  BY <1>1, CopyFitsStep, TakeFitsStep, SpaceFitsStep DEF Travel
<1>2. CASE UNCHANGED vars
  <2>1. UNCHANGED <<pc, n, tx_in, tx_out, rx_in, rx_out, isr, space, txFifo>>
    BY <1>2 DEF vars, ring, host, piece, service
  <2> QED
    BY <2>1 DEF Travel, CopyFits, TakeFits, SpaceFits, Count
<1> QED
  BY <1>1, <1>2

-----------------------------------------------------------------------------
(* The two pipes *)

LEMMA Associative ==
  ASSUME NEW s \in Seq(Char), NEW t \in Seq(Char), NEW u \in Seq(Char)
  PROVE  s \o (t \o u) = (s \o t) \o u
OBVIOUS

\* A sequence cut in two.
LEMMA Cut ==
  ASSUME NEW s \in Seq(Char), NEW m \in 1..Len(s)
  PROVE  /\ SubSeq(s, 1, m) \in Seq(Char) /\ SubSeq(s, m + 1, Len(s)) \in Seq(Char)
         /\ SubSeq(s, 1, m) \o SubSeq(s, m + 1, Len(s)) = s
<1> DEFINE f == SubSeq(s, 1, m)
           r == SubSeq(s, m + 1, Len(s))
<1>1. f \in Seq(Char) /\ Len(f) = m /\ \A k \in 1..m : f[k] = s[k]
  OBVIOUS
<1>2. r \in Seq(Char) /\ Len(r) = Len(s) - m /\ \A k \in 1..(Len(s) - m) : r[k] = s[m + k]
  OBVIOUS
<1> HIDE DEF f, r
<1>3. /\ f \o r \in Seq(Char) /\ Len(f \o r) = Len(f) + Len(r)
      /\ \A k \in 1..(Len(f) + Len(r)) : (f \o r)[k] = IF k <= Len(f) THEN f[k] ELSE r[k - Len(f)]
  BY <1>1, <1>2, Joined
<1>4. Len(f \o r) = Len(s)
  BY <1>1, <1>2, <1>3
<1>5. \A k \in 1..Len(f \o r) : (f \o r)[k] = s[k]
  <2> TAKE k \in 1..Len(f \o r)
  <2>1. k \in 1..(Len(f) + Len(r))
    BY <1>3
  <2>2. CASE k <= m
    BY <1>1, <1>3, <2>1, <2>2
  <2>3. CASE ~(k <= m)
    <3>1. k - m \in 1..(Len(s) - m) /\ m + (k - m) = k
      BY <1>1, <1>2, <2>1, <2>3
    <3>2. r[k - m] = s[k]
      BY <1>2, <3>1
    <3>3. (f \o r)[k] = r[k - m]
      BY <1>1, <1>3, <2>1, <2>3
    <3> QED
      BY <3>2, <3>3
  <2> QED
    BY <2>2, <2>3
<1>6. f \o r = s
  BY <1>3, <1>4, <1>5, SameCharacters
<1> QED
  BY <1>1, <1>2, <1>6 DEF f, r

\* What is at the front of a sequence is at the front of a longer one.
LEMMA FrontOfLonger ==
  ASSUME NEW s \in Seq(Char), NEW t \in Seq(Char), NEW m \in 1..Len(s)
  PROVE  /\ m \in 1..Len(s \o t)
         /\ SubSeq(s \o t, 1, m) = SubSeq(s, 1, m)
         /\ SubSeq(s \o t, m + 1, Len(s \o t)) = SubSeq(s, m + 1, Len(s)) \o t
<1>1. m \in 1..Len(s \o t)
  OBVIOUS
<1>2. SubSeq(s \o t, 1, m) = SubSeq(s, 1, m)
  OBVIOUS
<1>3. SubSeq(s \o t, m + 1, Len(s \o t)) = SubSeq(s, m + 1, Len(s)) \o t
  <2> DEFINE u == SubSeq(s \o t, m + 1, Len(s \o t))
             r == SubSeq(s, m + 1, Len(s))
             l == Len(s) - m
  <2>0. s \o t \in Seq(Char) /\ Len(s \o t) = Len(s) + Len(t) /\ l \in Nat
    OBVIOUS
  <2>1. u \in Seq(Char) /\ Len(u) = l + Len(t) /\ \A k \in 1..(l + Len(t)) : u[k] = (s \o t)[m + k]
    BY <2>0
  <2>2. r \in Seq(Char) /\ Len(r) = l /\ \A k \in 1..l : r[k] = s[m + k]
    BY <2>0
  <2> HIDE DEF u, r
  <2>3. /\ r \o t \in Seq(Char) /\ Len(r \o t) = Len(r) + Len(t)
        /\ \A k \in 1..(Len(r) + Len(t)) : (r \o t)[k] = IF k <= Len(r) THEN r[k] ELSE t[k - Len(r)]
    BY <2>2, Joined
  <2>4. \A k \in 1..(l + Len(t)) : (s \o t)[m + k] = IF k <= l THEN s[m + k] ELSE t[k - l]
    BY Joined
  <2>5. \A k \in 1..Len(u) : u[k] = (r \o t)[k]
    <3> TAKE k \in 1..Len(u)
    <3>1. k \in 1..(l + Len(t)) /\ k \in 1..(Len(r) + Len(t))
      BY <2>1, <2>2
    <3>2. (r \o t)[k] = IF k <= l THEN r[k] ELSE t[k - l]
      BY <2>2, <2>3, <3>1
    <3>3. k <= l => r[k] = s[m + k]
      BY <2>0, <2>2, <3>1
    <3> QED
      BY <2>1, <2>4, <3>1, <3>2, <3>3
  <2>6. Len(u) = Len(r \o t)
    BY <2>1, <2>2, <2>3
  <2>7. u = r \o t
    BY <2>1, <2>3, <2>5, <2>6, SameCharacters
  <2> QED
    BY <2>7 DEF u, r
<1> QED
  BY <1>1, <1>2, <1>3

LEMMA TailIsRest ==
  ASSUME NEW s \in Seq(Char), s # <<>>
  PROVE  1 \in 1..Len(s) /\ Tail(s) = SubSeq(s, 2, Len(s)) /\ <<Head(s)>> = SubSeq(s, 1, 1)
OBVIOUS

LEMMA AppendIsConcat ==
  ASSUME NEW s \in Seq(Char), NEW c \in Char
  PROVE  Append(s, c) = s \o <<c>>
OBVIOUS

LEMMA HeldTyped ==
  ASSUME Rings
  PROVE  Held(tx_buf, tx_in, tx_out) \in Seq(Char) /\ Held(rx_buf, rx_in, rx_out) \in Seq(Char)
BY HeldAt DEF Rings

\* A piece of a write goes from the call's text to the end of the pipe.
LEMMA CopyAccepts ==
  ASSUME IInv, Travel, Copy
  PROVE  /\ n \in 1..Len(todo)
         /\ ToHost' = ToHost \o SubSeq(todo, 1, n)
         /\ todo' = SubSeq(todo, n + 1, Len(todo))
<1> DEFINE h == Held(tx_buf, tx_in, tx_out)
<1>0. Rings /\ CallTypes /\ Queues /\ PieceFits
  BY TypeParts DEF IInv
<1>1. n \in 1..Len(todo) /\ todo \in Seq(Char)
  BY <1>0 DEF Copy, Program, Travel, CopyFits, PieceFits, CallTypes
<1>2. tx_in + n <= BUF_LEN /\ n + Count(tx_in, tx_out) <= BUF_LEN - 1
  BY DEF Copy, Program, Travel, CopyFits
<1>3. tx_buf' = Filled(tx_buf, tx_in, todo, n)
  BY DEF Copy, Filled
<1>4. Held(tx_buf', Advance(tx_in, n), tx_out) = h \o SubSeq(todo, 1, n)
  <2>1. tx_buf \in [Slot -> Char] /\ tx_in \in Slot /\ tx_out \in Slot
    BY <1>0 DEF Rings
  <2>2. Held(Filled(tx_buf, tx_in, todo, n), Advance(tx_in, n), tx_out) = h \o SubSeq(todo, 1, n)
    BY <1>1, <1>2, <2>1, HeldFilled
  <2> QED
    BY <1>3, <2>2
<1>6. tx_in' = Advance(tx_in, n) /\ UNCHANGED <<tx_out, txFifo>>
  BY DEF Copy, host
<1>7. ToHost' = txFifo \o (h \o SubSeq(todo, 1, n))
  BY <1>4, <1>6 DEF ToHost
<1>8. SubSeq(todo, 1, n) \in Seq(Char) /\ h \in Seq(Char) /\ txFifo \in Seq(Char)
  BY <1>0, <1>1, Cut, HeldTyped DEF Queues
<1>9. ToHost' = (txFifo \o h) \o SubSeq(todo, 1, n)
  BY <1>7, <1>8, Associative
<1> QED
  BY <1>1, <1>9 DEF ToHost, Copy

\* A character that the interrupt routine sends does not leave the pipe: the
\* device has room for it.
LEMMA SendKeeps ==
  ASSUME IInv, Travel, SendOne
  PROVE  ToHost' = ToHost
<1> DEFINE h == Held(tx_buf, tx_in, tx_out)
<1>0. Rings /\ Queues /\ DeviceTypes
  BY TypeParts DEF IInv
<1>1. Len(txFifo) < FIFO_DEPTH
  <2>1. Len(txFifo) \in Nat /\ FIFO_DEPTH \in Nat /\ space \in Nat
    BY <1>0, Constants DEF Queues, DeviceTypes
  <2> QED
    BY <2>1 DEF SendOne, Routine, Travel, SpaceFits
<1>2. Count(tx_in, tx_out) >= 1 /\ Count(tx_in, tx_out) \in 0..(BUF_LEN - 1) /\ BUF_LEN \in Nat
  BY <1>0, CountStep, CountValue, Constants DEF SendOne, Rings
<1>3. h \in Seq(Char) /\ Len(h) = Count(tx_in, tx_out) /\ h[1] = tx_buf[tx_out]
  <2>1. h \in Seq(Char) /\ Len(h) = Count(tx_in, tx_out) /\ \A k \in 1..Count(tx_in, tx_out) : h[k] = tx_buf[After(tx_out, k - 1)]
    BY <1>0, HeldAt DEF Rings
  <2>2. 1 \in 1..Count(tx_in, tx_out) /\ After(tx_out, 1 - 1) = tx_out
    BY <1>0, <1>2 DEF After, Rings, Slot
  <2> HIDE DEF h
  <2> QED
    BY <2>1, <2>2
<1>4. Held(tx_buf, tx_in, Advance(tx_out, 1)) = SubSeq(h, 2, Len(h))
  <2>1. 1 \in 1..Count(tx_in, tx_out) /\ 1 + 1 = 2
    BY <1>2
  <2> QED
    BY <1>0, <1>3, <2>1, HeldTaken DEF Rings
<1>5. txFifo' = Append(txFifo, h[1])
  BY <1>1, <1>3 DEF SendOne
<1>6. Held(tx_buf, tx_in, tx_out)' = SubSeq(h, 2, Len(h))
  <2>1. UNCHANGED <<tx_buf, tx_in>> /\ tx_out' = Advance(tx_out, 1)
    BY DEF SendOne
  <2> QED
    BY <1>4, <2>1
<1>7. txFifo \in Seq(Char) /\ h # <<>> /\ h[1] \in Char
  BY <1>0, <1>2, <1>3 DEF Queues
<1> HIDE DEF h
<1>8. SubSeq(h, 2, Len(h)) = Tail(h) /\ Tail(h) \in Seq(Char) /\ Append(txFifo, h[1]) = txFifo \o <<h[1]>>
  BY <1>3, <1>7, TailIsRest, Moved, AppendIsConcat
<1>9. <<h[1]>> \o Tail(h) = h
  BY <1>3, <1>7
<1>10. (txFifo \o <<h[1]>>) \o Tail(h) = txFifo \o h
  <2>1. <<h[1]>> \in Seq(Char)
    BY <1>7
  <2> QED
    BY <1>7, <1>8, <1>9, <2>1, Associative
<1>11. ToHost' = txFifo' \o Held(tx_buf, tx_in, tx_out)' /\ ToHost = txFifo \o Held(tx_buf, tx_in, tx_out)
  BY DEF ToHost
<1> QED
  BY <1>5, <1>6, <1>8, <1>10, <1>11 DEF h

\* The host takes the oldest character of the pipe.
LEMMA HostTakes ==
  ASSUME IInv, HostTake
  PROVE  1 \in 1..Len(ToHost) /\ ToHost' = SubSeq(ToHost, 2, Len(ToHost))
<1> DEFINE h == Held(tx_buf, tx_in, tx_out)
<1>0. Rings /\ Queues
  BY TypeParts DEF IInv
<1>1. txFifo \in Seq(Char) /\ txFifo # <<>> /\ txFifo' = Tail(txFifo) /\ h \in Seq(Char)
  BY <1>0, HeldTyped DEF Queues, HostTake
<1>2. h' = h
  BY DEF HostTake, ring
<1>3. ToHost = txFifo \o h /\ ToHost' = txFifo' \o h'
  BY DEF ToHost
<1> HIDE DEF h
<1>4. 1 \in 1..Len(txFifo) /\ Tail(txFifo) = SubSeq(txFifo, 1 + 1, Len(txFifo))
  BY <1>1, TailIsRest
<1>5. 1 \in 1..Len(txFifo \o h) /\ SubSeq(txFifo \o h, 1 + 1, Len(txFifo \o h)) = SubSeq(txFifo, 1 + 1, Len(txFifo)) \o h
  BY <1>1, <1>4, FrontOfLonger
<1> QED
  BY <1>1, <1>2, <1>3, <1>4, <1>5

\* A character that the interrupt routine receives does not leave the pipe.
LEMMA ReceiveKeeps ==
  ASSUME IInv, ReceiveOne
  PROVE  FromHost' = FromHost
<1> DEFINE h == Held(rx_buf, rx_in, rx_out)
<1>0. /\ rx_buf \in [Slot -> Char] /\ rx_in \in Slot /\ rx_out \in Slot
      /\ rxFifo \in Seq(Char) /\ rxFifo # <<>> /\ h \in Seq(Char)
  <2>1. Rings /\ Queues
    BY TypeParts DEF IInv
  <2> QED
    BY <2>1, HeldTyped DEF Rings, Queues, ReceiveOne
<1>1. 1 \in 1..Len(rxFifo) /\ Tail(rxFifo) = SubSeq(rxFifo, 1 + 1, Len(rxFifo)) /\ <<Head(rxFifo)>> = SubSeq(rxFifo, 1, 1)
  BY <1>0, TailIsRest
<1>2. 1 + Count(rx_in, rx_out) <= BUF_LEN - 1 /\ rx_in + 1 <= BUF_LEN
  <2>1. Advance(rx_in, 1) # rx_out
    BY DEF ReceiveOne, RxFull
  <2>2. Count(rx_in, rx_out) + 1 <= BUF_LEN - 1 /\ Count(rx_in, rx_out) \in 0..(BUF_LEN - 1)
    BY <1>0, <2>1, CountStep, CountValue
  <2> QED
    BY <1>0, <2>2, Constants DEF Slot
<1>3. rx_buf' = Filled(rx_buf, rx_in, rxFifo, 1)
  <2>1. \A j \in Slot : j \in rx_in..(rx_in + 1 - 1) <=> j = rx_in
    BY <1>0, Constants DEF Slot
  <2>2. rxFifo[rx_in - rx_in + 1] = Head(rxFifo)
    BY <1>0, Constants DEF Slot
  <2>3. rx_buf' = [j \in Slot |-> IF j = rx_in THEN Head(rxFifo) ELSE rx_buf[j]]
    BY <1>0 DEF ReceiveOne
  <2> QED
    BY <2>1, <2>2, <2>3 DEF Filled
<1>4. Held(Filled(rx_buf, rx_in, rxFifo, 1), Advance(rx_in, 1), rx_out) = h \o SubSeq(rxFifo, 1, 1)
  BY <1>0, <1>1, <1>2, HeldFilled
<1>5. FromHost' = (h \o SubSeq(rxFifo, 1, 1)) \o SubSeq(rxFifo, 1 + 1, Len(rxFifo))
  <2>1. rx_in' = Advance(rx_in, 1) /\ rx_out' = rx_out /\ rxFifo' = Tail(rxFifo)
    BY DEF ReceiveOne
  <2> HIDE DEF h
  <2> QED
    BY <1>1, <1>3, <1>4, <2>1 DEF FromHost
<1> DEFINE f == SubSeq(rxFifo, 1, 1)
           r == SubSeq(rxFifo, 1 + 1, Len(rxFifo))
<1>6. f \in Seq(Char) /\ r \in Seq(Char) /\ f \o r = rxFifo
  BY <1>0, <1>1, Cut
<1>7. FromHost = h \o rxFifo
  BY DEF FromHost
<1> HIDE DEF h, f, r
<1>8. h \o (f \o r) = (h \o f) \o r
  BY <1>0, <1>6, Associative
<1> QED
  BY <1>5, <1>6, <1>7, <1>8 DEF f, r

\* What the host types enters at the end of the pipe, in the middle of a read
\* of the data register too.
LEMMA TypedEnters ==
  ASSUME IInv, NEW c \in Typed, HostType(c) \/ ReceiveNone(<<c>>)
  PROVE  FromHost' = Append(FromHost, c)
<1> DEFINE h == Held(rx_buf, rx_in, rx_out)
<1>1. Rings /\ Queues
  BY TypeParts DEF IInv
<1>2. h \in Seq(Char) /\ rxFifo \in Seq(Char) /\ c \in Char
  BY <1>1, HeldTyped, Constants DEF Queues
<1>3. h' = h /\ rxFifo' = Append(rxFifo, c)
  <2>1. CASE HostType(c)
    BY <2>1 DEF HostType, ring
  <2>2. CASE ReceiveNone(<<c>>)
    <3>1. rxFifo = <<>> /\ rxFifo' = <<c>> /\ h' = h
      BY <2>2 DEF ReceiveNone, ring
    <3> QED
      BY <3>1
  <2> QED
    BY <2>1, <2>2
<1>4. FromHost = h \o rxFifo /\ FromHost' = h' \o rxFifo'
  BY DEF FromHost
<1> HIDE DEF h
<1>5. <<c>> \in Seq(Char) /\ h \o rxFifo \in Seq(Char)
  BY <1>2
<1>6. Append(rxFifo, c) = rxFifo \o <<c>> /\ Append(h \o rxFifo, c) = (h \o rxFifo) \o <<c>>
  BY <1>2, <1>5, AppendIsConcat
<1>7. h \o (rxFifo \o <<c>>) = (h \o rxFifo) \o <<c>>
  BY <1>2, <1>5, Associative
<1> QED
  BY <1>3, <1>4, <1>6, <1>7

\* A piece of a read is what is oldest in the pipe.
LEMMA PieceTakes ==
  ASSUME IInv, Travel, TakePiece
  PROVE  /\ n \in 1..Len(FromHost)
         /\ got' = got \o SubSeq(FromHost, 1, n)
         /\ FromHost' = SubSeq(FromHost, n + 1, Len(FromHost))
<1> DEFINE h == Held(rx_buf, rx_in, rx_out)
<1>0. Rings /\ Queues /\ CallTypes /\ PieceFits
  BY TypeParts DEF IInv
<1>1. rx_buf \in [Slot -> Char] /\ rx_in \in Slot /\ rx_out \in Slot /\ rxFifo \in Seq(Char)
  BY <1>0 DEF Rings, Queues
<1>2. n \in 1..Count(rx_in, rx_out) /\ rx_out + n <= BUF_LEN
  <2>1. n \in Nat /\ n >= 1 /\ n <= Count(rx_in, rx_out) /\ Count(rx_in, rx_out) \in 0..(BUF_LEN - 1)
    BY <1>0, <1>1, CountValue DEF TakePiece, Program, PieceFits, CallTypes, Travel, TakeFits
  <2> QED
    BY <1>0, <2>1 DEF TakePiece, Program, PieceFits
<1>3. h \in Seq(Char) /\ Len(h) = Count(rx_in, rx_out)
  BY <1>1, HeldAt
<1>4. [k \in 1..n |-> rx_buf[rx_out + k - 1]] = SubSeq(h, 1, n)
  BY <1>1, <1>2, HeldFront
<1>5. Held(rx_buf, rx_in, Advance(rx_out, n)) = SubSeq(h, n + 1, Len(h))
  BY <1>1, <1>2, <1>3, HeldTaken
<1>6. /\ FromHost = h \o rxFifo
      /\ FromHost' = SubSeq(h, n + 1, Len(h)) \o rxFifo
      /\ got' = got \o SubSeq(h, 1, n)
  <2>1. UNCHANGED <<rx_buf, rx_in, rxFifo>> /\ rx_out' = Advance(rx_out, n)
    BY DEF TakePiece, host
  <2>2. got' = got \o [k \in 1..n |-> rx_buf[rx_out + k - 1]]
    BY DEF TakePiece
  <2>3. FromHost' = Held(rx_buf, rx_in, Advance(rx_out, n)) \o rxFifo
    BY <2>1 DEF FromHost
  <2> QED
    BY <1>4, <1>5, <2>2, <2>3 DEF FromHost
<1> HIDE DEF h
<1>7. /\ n \in 1..Len(h \o rxFifo)
      /\ SubSeq(h \o rxFifo, 1, n) = SubSeq(h, 1, n)
      /\ SubSeq(h \o rxFifo, n + 1, Len(h \o rxFifo)) = SubSeq(h, n + 1, Len(h)) \o rxFifo
  BY <1>1, <1>2, <1>3, FrontOfLonger
<1> QED
  BY <1>6, <1>7

-----------------------------------------------------------------------------
(* The driver implements both *)

\* The steps that leave one pipe, and its two ends, as they are.
LEMMA ToHostStays ==
  ASSUME UNCHANGED <<tx_buf, tx_in, tx_out, txFifo, todo>>
  PROVE  UNCHANGED ToHostPipe!vars
<1>1. ToHost' = ToHost
  BY DEF ToHost, Held
<1> QED
  BY <1>1 DEF ToHostPipe!vars

LEMMA FromHostStays ==
  ASSUME UNCHANGED <<rx_buf, rx_in, rx_out, rxFifo, got>>
  PROVE  UNCHANGED FromHostPipe!vars
<1>1. FromHost' = FromHost
  BY DEF FromHost, Held
<1> QED
  BY <1>1 DEF FromHostPipe!vars

LEMMA EmptyAtFirst ==
  ASSUME Init
  PROVE  ToHost = <<>> /\ FromHost = <<>>
<1>1. 0 \in Slot /\ Count(0, 0) = 0
  <2>1. 0 \in Slot
    BY Constants DEF Slot
  <2> QED
    BY <2>1, CountValue
<1>2. Held(tx_buf, tx_in, tx_out) = <<>> /\ Held(rx_buf, rx_in, rx_out) = <<>>
  <2>1. /\ tx_in = 0 /\ tx_out = 0 /\ rx_in = 0 /\ rx_out = 0
        /\ tx_buf \in [Slot -> Char] /\ rx_buf \in [Slot -> Char]
    BY Constants DEF Init
  <2>2. /\ Held(tx_buf, 0, 0) \in Seq(Char) /\ Len(Held(tx_buf, 0, 0)) = 0
        /\ Held(rx_buf, 0, 0) \in Seq(Char) /\ Len(Held(rx_buf, 0, 0)) = 0
    BY <1>1, <2>1, HeldAt
  <2>3. \A s \in Seq(Char) : Len(s) = 0 => s = <<>>
    OBVIOUS
  <2> QED
    BY <2>1, <2>2, <2>3
<1>3. <<>> \o <<>> = <<>> /\ txFifo = <<>> /\ rxFifo = <<>>
  BY DEF Init
<1> QED
  BY <1>2, <1>3 DEF ToHost, FromHost

\* A write offers its text, its pieces are accepted, and a call that ends
\* withdraws what is left; only the host takes.
LEMMA ToHostStep ==
  ASSUME IInv, Travel, Next
  PROVE  [ToHostPipe!Next]_ToHostPipe!vars
<1>0. CallTypes
  BY TypeParts DEF IInv
<1>1. ASSUME NEW t \in Texts, NEW nb \in BOOLEAN, Write(t, nb) PROVE ToHostPipe!Next
  <2>1. todo' \in Seq(Char) /\ UNCHANGED <<tx_buf, tx_in, tx_out, txFifo>>
    BY <1>1, Constants DEF Write, ring, host
  <2>2. ToHost' = ToHost /\ todo = <<>>
    BY <1>1, <2>1 DEF ToHost, Held, Write, Program, IInv, Where
  <2> QED
    BY <2>1, <2>2 DEF ToHostPipe!Next, ToHostPipe!Offer
<1>2. CASE Copy
  <2>1. /\ n \in 1..Len(todo) /\ ToHost' = ToHost \o SubSeq(todo, 1, n)
        /\ todo' = SubSeq(todo, n + 1, Len(todo))
    BY <1>2, CopyAccepts
  <2>2. ToHostPipe!Accept
    BY <2>1 DEF ToHostPipe!Accept, ToHostPipe!Front, ToHostPipe!Rest
  <2> QED
    BY <2>2 DEF ToHostPipe!Next
<1>3. CASE Return \/ Drain
  <2>1. todo' = <<>> /\ UNCHANGED <<tx_buf, tx_in, tx_out, txFifo>>
    BY <1>3 DEF Return, Drain, LeaveCall, ring, host
  <2>2. ToHost' = ToHost /\ todo' \in Seq(Char)
    BY <2>1 DEF ToHost, Held
  <2> QED
    BY <2>1, <2>2 DEF ToHostPipe!Next, ToHostPipe!Offer
<1>4. CASE SendOne
  <2>1. ToHost' = ToHost /\ todo' = todo
    BY <1>4, SendKeeps DEF SendOne, call
  <2> QED
    BY <2>1 DEF ToHostPipe!vars
<1>5. CASE HostTake
  <2>1. /\ 1 \in 1..Len(ToHost) /\ ToHost' = SubSeq(ToHost, 1 + 1, Len(ToHost)) /\ todo' = todo
    BY <1>5, HostTakes DEF HostTake, call
  <2>2. ToHostPipe!Take
    BY <2>1 DEF ToHostPipe!Take, ToHostPipe!Rest
  <2> QED
    BY <2>2 DEF ToHostPipe!Next
<1>6. CASE \/ \E k \in Wants, nb \in BOOLEAN : Read(k, nb)
           \/ \E nb \in BOOLEAN : Close(nb)
           \/ \E t \in Timeouts : SetTimeout(t)
           \/ Measure \/ AllCopied \/ WaitSent \/ TryAgain \/ Fetch \/ TakePiece \/ WaitTyped
           \/ Arrived \/ DisableAll \/ AskForInterrupts
  <2>1. UNCHANGED <<tx_buf, tx_in, tx_out, txFifo, todo>>
    BY <1>6 DEF Read, Close, SetTimeout, Measure, AllCopied, WaitSent, TryAgain, Fetch, TakePiece,
       WaitTyped, Arrived, DisableAll, AskForInterrupts, ring, host, call
  <2> QED
    BY <2>1, ToHostStays
<1>7. CASE Interrupt \/ Dispatch \/ ReadControl \/ ReceiveOne \/ ReceiveEnd \/ SendEnd \/ Leave \/ Second
           \/ HostPoll \/ \E c \in Typed : HostType(c)
  <2>1. UNCHANGED <<tx_buf, tx_in, tx_out, txFifo, todo>>
    BY <1>7 DEF Interrupt, Dispatch, ReadControl, ReceiveOne, ReceiveEnd, ReceiveFull,
       ReceiveNone, TurnOff, SendEnd, Leave, Second, HostPoll, HostType, ring, host, call
  <2> QED
    BY <2>1, ToHostStays
<1> QED
  BY <1>1, <1>2, <1>3, <1>4, <1>5, <1>6, <1>7 DEF Next, Call, Continue, Serve, Host

\* The host hands over what it types, a read takes its pieces, and a call that
\* begins or ends forgets what an earlier one took.
LEMMA FromHostStep ==
  ASSUME IInv, Travel, Next
  PROVE  [FromHostPipe!Next]_FromHostPipe!vars
<1>1. ASSUME NEW c \in Typed, HostType(c) \/ ReceiveNone(<<c>>) PROVE FromHostPipe!Next
  <2>1. FromHost' = Append(FromHost, c) /\ got' = got
    BY <1>1, TypedEnters DEF HostType, ReceiveNone, call
  <2>2. FromHostPipe!HandOver
    BY <2>1 DEF FromHostPipe!HandOver
  <2> QED
    BY <2>2 DEF FromHostPipe!Next
<1>2. CASE TakePiece
  <2>1. /\ n \in 1..Len(FromHost) /\ got' = got \o SubSeq(FromHost, 1, n)
        /\ FromHost' = SubSeq(FromHost, n + 1, Len(FromHost))
    BY <1>2, PieceTakes
  <2>2. FromHostPipe!Take
    BY <2>1 DEF FromHostPipe!Take, FromHostPipe!Front, FromHostPipe!Rest
  <2> QED
    BY <2>2 DEF FromHostPipe!Next
<1>3. CASE Return \/ Drain \/ \E k \in Wants, nb \in BOOLEAN : Read(k, nb)
  <2>1. got' = <<>> /\ UNCHANGED <<rx_buf, rx_in, rx_out, rxFifo>>
    BY <1>3 DEF Return, Drain, LeaveCall, Read, ring, host
  <2>2. FromHost' = FromHost
    BY <2>1 DEF FromHost, Held
  <2> QED
    BY <2>1, <2>2 DEF FromHostPipe!Next, FromHostPipe!Forget
<1>4. CASE ReceiveOne
  <2>1. FromHost' = FromHost /\ got' = got
    BY <1>4, ReceiveKeeps DEF ReceiveOne, call
  <2> QED
    BY <2>1 DEF FromHostPipe!vars
<1>5. CASE \/ \E t \in Texts, nb \in BOOLEAN : Write(t, nb)
           \/ \E nb \in BOOLEAN : Close(nb)
           \/ \E t \in Timeouts : SetTimeout(t)
           \/ Measure \/ AllCopied \/ Copy \/ WaitSent \/ TryAgain \/ Fetch \/ WaitTyped
           \/ Arrived \/ DisableAll \/ AskForInterrupts
  <2>1. UNCHANGED <<rx_buf, rx_in, rx_out, rxFifo, got>>
    BY <1>5 DEF Write, Close, SetTimeout, Measure, AllCopied, Copy, WaitSent, TryAgain, Fetch,
       WaitTyped, Arrived, DisableAll, AskForInterrupts, ring, host, call
  <2> QED
    BY <2>1, FromHostStays
<1>6. CASE Interrupt \/ Dispatch \/ ReadControl \/ SendOne \/ ReceiveFull \/ ReceiveNone(<<>>) \/ SendEnd
           \/ Leave \/ Second \/ HostPoll \/ HostTake
  <2>1. UNCHANGED <<rx_buf, rx_in, rx_out, rxFifo, got>>
    BY <1>6 DEF Interrupt, Dispatch, ReadControl, SendOne, ReceiveFull, ReceiveNone, SendEnd,
       Leave, Second, HostPoll, HostTake, ring, host, call
  <2> QED
    BY <2>1, FromHostStays
<1> QED
  BY <1>1, <1>2, <1>3, <1>4, <1>5, <1>6 DEF Next, Call, Continue, Serve, ReceiveEnd, Host

\* What the program writes reaches the host, each character once and in order,
\* for rings and queues of any size.
THEOREM WritesArrive == Spec => WrittenReachesHost
<1>1. Init => Travel /\ ToHostPipe!Init
  <2> SUFFICES ASSUME Init PROVE Travel /\ ToHostPipe!Init
    OBVIOUS
  <2>1. todo = <<>>
    BY DEF Init
  <2> QED
    BY <2>1, InitTravel, EmptyAtFirst DEF ToHostPipe!Init
<1>2. IInv /\ Travel /\ [Next]_vars => Travel' /\ [ToHostPipe!Next]_ToHostPipe!vars
  <2> SUFFICES ASSUME IInv, Travel, [Next]_vars PROVE Travel' /\ [ToHostPipe!Next]_ToHostPipe!vars
    OBVIOUS
  <2>1. CASE Next
    BY <2>1, ToHostStep, TravelStep
  <2>2. CASE UNCHANGED vars
    <3>1. UNCHANGED <<tx_buf, tx_in, tx_out, txFifo, todo>>
      BY <2>2 DEF vars, ring, host, call
    <3> QED
      BY <3>1, TravelStep, ToHostStays
  <2> QED
    BY <2>1, <2>2
<1> QED
  BY <1>1, <1>2, Inductive, PTL DEF Spec, WrittenReachesHost, ToHostPipe!Spec

\* What the host types reaches the reads in the same way.
THEOREM KeysArrive == Spec => TypedReachesReader
<1>1. Init => Travel /\ FromHostPipe!Init
  <2> SUFFICES ASSUME Init PROVE Travel /\ FromHostPipe!Init
    OBVIOUS
  <2>1. got = <<>>
    BY DEF Init
  <2> QED
    BY <2>1, InitTravel, EmptyAtFirst DEF FromHostPipe!Init
<1>2. IInv /\ Travel /\ [Next]_vars => Travel' /\ [FromHostPipe!Next]_FromHostPipe!vars
  <2> SUFFICES ASSUME IInv, Travel, [Next]_vars PROVE Travel' /\ [FromHostPipe!Next]_FromHostPipe!vars
    OBVIOUS
  <2>1. CASE Next
    BY <2>1, FromHostStep, TravelStep
  <2>2. CASE UNCHANGED vars
    <3>1. UNCHANGED <<rx_buf, rx_in, rx_out, rxFifo, got>>
      BY <2>2 DEF vars, ring, host, call
    <3> QED
      BY <3>1, TravelStep, FromHostStays
  <2> QED
    BY <2>1, <2>2
<1> QED
  BY <1>1, <1>2, Inductive, PTL DEF Spec, TypedReachesReader, FromHostPipe!Spec
=============================================================================
