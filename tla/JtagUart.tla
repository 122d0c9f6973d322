------------------------------ MODULE JtagUart ------------------------------
(***************************************************************************)
(* The driver of the character device that carries the keyboard program's  *)
(* printf (altera_avalon_jtag_uart_*.c, the fast variant, no operating     *)
(* system).  Three parties share its two rings: the program, which runs    *)
(* write, read, close and ioctl one statement at a time; the interrupt     *)
(* routine, which the dispatcher runs between any two statements while     *)
(* interrupts are on; and the host, which empties and fills the device's   *)
(* own queues at any moment, in the middle of the interrupt routine too.   *)
(* The device is lab8_soc_jtag_uart_0.v.  An access to it is one step, but *)
(* for the read of its data register, in the two clocks of which the host  *)
(* may type.  The alarm that looks for a silent host runs at interrupt     *)
(* level, only if the board has a system clock.                            *)
(***************************************************************************)
EXTENDS Naturals, Sequences

CONSTANTS
  BUF_LEN,          \* slots of each ring, one of which stays free
  FIFO_DEPTH,       \* characters in each queue of the device
  WRITE_THRESHOLD,  \* the device asks for more at or below this many
  READ_THRESHOLD,   \* and to be read with this many places left, or fewer
  INT_MAX,          \* the timeout that means "no clock"
  DEFAULT_TIMEOUT,  \* seconds of silence after which the host counts as gone
  Char,             \* the characters; the rings start out filled with 0
  Typed,            \* those the host may type
  Texts,            \* what the program may write
  Wants,            \* how much it may ask to read
  Timeouts          \* what it may ask TIOCSTIMEOUT for

ASSUME UartAssumption ==
  /\ BUF_LEN \in Nat /\ BUF_LEN > 1
  /\ FIFO_DEPTH \in Nat \ {0} /\ {WRITE_THRESHOLD, READ_THRESHOLD} \subseteq 0..(FIFO_DEPTH - 1)
  /\ INT_MAX \in Nat /\ DEFAULT_TIMEOUT \in 2..(INT_MAX - 3)
  /\ Char \subseteq Nat /\ 0 \in Char /\ Typed \subseteq Char /\ Texts \subseteq Seq(Char) /\ Wants \subseteq Nat /\ Timeouts \subseteq Nat

VARIABLES
  tx_buf, tx_in, tx_out,   \* ring to the host: the program fills, the interrupt empties
  rx_buf, rx_in, rx_out,   \* ring from the host: the interrupt fills, the program empties
  irq_enable,              \* the driver's copy of the enable bits
  control,                 \* the enable bits in the device
  txFifo, rxFifo,          \* the device's queues
  ac,                      \* the device's bit "the host has been active"
  pause_irq,               \* the host has paused with characters in rxFifo
  host_inactive, timeout,  \* seconds of silence, and how many are too many
  pie, context,            \* processor interrupt enable, and its saved value
  pc, op, nonblock,        \* where the program is, in which call, with which flag
  todo, want, got,         \* left to write, left to read, read so far
  seen, n,                 \* the interrupt's index when there was nothing to do, size of a piece
  isr, wi, space, avail    \* where the interrupt routine is, and its locals

ring    == <<tx_buf, tx_in, tx_out, rx_buf, rx_in, rx_out>>
enables == <<irq_enable, control>>
host    == <<txFifo, rxFifo, ac, pause_irq>>
silence == <<host_inactive, timeout>>
call    == <<op, nonblock, todo, want, got>>
piece   == <<seen, n>>
service == <<isr, wi, space, avail>>
vars    == <<ring, enables, host, silence, pie, context, pc, call, piece, service>>

-----------------------------------------------------------------------------
Slot == 0..(BUF_LEN - 1)
Enables == {"RE", "WE"}
ProgramPoints == {"idle", "measure", "copy", "fetch", "take", "off", "mask",
                  "spin", "inactive", "arrived", "drain", "return"}
RoutinePoints == {"none", "entry", "control", "rx", "tx", "exit", "hung"}

Advance(i, k) == (i + k) % BUF_LEN
Least(a, b) == IF a <= b THEN a ELSE b

\* How much one piece of a write may copy, and one piece of a read: up to the
\* other index or to the end of the ring, and one slot short of it when full.
\* Bug: no slot is kept free when the other index is at the beginning.
TxPiece_WholeRing(i, o) == IF i < o THEN o - 1 - i ELSE BUF_LEN - i

TxPiece(i, o) == IF i < o THEN o - 1 - i
                 ELSE IF o > 0 THEN BUF_LEN - i ELSE BUF_LEN - 1 - i
RxPiece(i, o) == IF i >= o THEN i - o ELSE BUF_LEN - o

\* Bug: the index is compared without its wrap-around.
RxFull_NoWrap == rx_in + 1 = rx_out

RxFull == Advance(rx_in, 1) = rx_out

\* The interrupts the device raises, ipen_AF and ipen_AE.  A few characters do
\* not raise the first: the host has to pause behind them.
fifo_AF == FIFO_DEPTH - Len(rxFifo) <= READ_THRESHOLD
fifo_AE == Len(txFifo) <= WRITE_THRESHOLD

ReadIrq == "RE" \in control /\ (pause_irq \/ fifo_AF)
WriteIrq == "WE" \in control /\ fifo_AE
Pending == ReadIrq \/ WriteIrq

\* Bug: the count of seconds is compared for equality.
HostGone_Exactly == host_inactive = timeout

HostGone == host_inactive >= timeout

-----------------------------------------------------------------------------
\* altera_avalon_jtag_uart_init has run.  Without a system clock the alarm
\* cannot be started and the driver takes the host to be there for ever.
Init ==
  /\ tx_buf = [i \in Slot |-> 0] /\ tx_in = 0 /\ tx_out = 0
  /\ rx_buf = [i \in Slot |-> 0] /\ rx_in = 0 /\ rx_out = 0
  /\ irq_enable = {"RE"} /\ control = {"RE"}
  /\ txFifo = <<>> /\ rxFifo = <<>> /\ ac = FALSE /\ pause_irq = FALSE
  /\ host_inactive = 0 /\ timeout \in {DEFAULT_TIMEOUT, INT_MAX}
  /\ pie = TRUE /\ context = TRUE
  /\ pc = "idle" /\ op = "none" /\ nonblock = FALSE
  /\ todo = <<>> /\ want = 0 /\ got = <<>>
  /\ seen = 0 /\ n = 0
  /\ isr = "none" /\ wi = FALSE /\ space = 0 /\ avail = FALSE

\* The program moves from one point to another, when no interrupt runs.
Program(from, to) == isr = "none" /\ pc = from /\ pc' = to

\* A call's arguments and locals are gone when it returns.
LeaveCall ==
  /\ op' = "none" /\ nonblock' = FALSE
  /\ todo' = <<>> /\ want' = 0 /\ got' = <<>>

-----------------------------------------------------------------------------
(* write *)

Write(text, nb) ==
  /\ Program("idle", "measure")
  /\ op' = "write" /\ nonblock' = nb /\ todo' = text
  /\ UNCHANGED <<ring, enables, host, silence, pie, context, want, got, piece, service>>

\* A piece is measured against a copy of the index the interrupt moves.
Measure ==
  LET room == TxPiece(tx_in, tx_out) IN
  /\ todo # <<>>
  /\ Program("measure", IF room = 0 THEN "off" ELSE "copy")
  /\ seen' = IF room = 0 THEN tx_out ELSE 0
  /\ n' = Least(room, Len(todo))
  /\ UNCHANGED <<ring, enables, host, silence, pie, context, call, service>>

AllCopied ==
  /\ todo = <<>>
  /\ Program("measure", "off")
  /\ UNCHANGED <<ring, enables, host, silence, pie, context, call, piece, service>>

Copy ==
  /\ Program("copy", "measure")
  /\ tx_buf' = [i \in Slot |-> IF i \in tx_in..(tx_in + n - 1) THEN todo[i - tx_in + 1] ELSE tx_buf[i]]
  /\ tx_in' = Advance(tx_in, n) /\ n' = 0
  /\ todo' = SubSeq(todo, n + 1, Len(todo))
  /\ UNCHANGED <<tx_out, rx_buf, rx_in, rx_out, enables, host, silence, pie, context,
                 op, nonblock, want, got, seen, service>>

\* The wait for the interrupt routine to have sent something.
WaitSent ==
  /\ op = "write" /\ Program("spin", "inactive")
  /\ seen # tx_out \/ HostGone
  /\ UNCHANGED <<ring, enables, host, silence, pie, context, call, piece, service>>

\* Bug: the write gives up after one wait.
TryAgain_Once ==
  /\ Program("inactive", "return")
  /\ UNCHANGED <<ring, enables, host, silence, pie, context, call, piece, service>>

\* Any silence at all ends the call, not only one as long as the timeout.
TryAgain ==
  /\ Program("inactive", IF host_inactive > 0 THEN "return" ELSE "measure")
  /\ UNCHANGED <<ring, enables, host, silence, pie, context, call, piece, service>>

-----------------------------------------------------------------------------
(* read *)

Read(k, nb) ==
  /\ Program("idle", IF k > 0 THEN "fetch" ELSE "return")
  /\ op' = "read" /\ nonblock' = nb /\ want' = k /\ got' = <<>>
  /\ UNCHANGED <<ring, enables, host, silence, pie, context, todo, piece, service>>

\* With nothing more to read: keep what was read, return, or wait.
Fetch ==
  LET m == RxPiece(rx_in, rx_out) IN
  /\ Program("fetch", IF m > 0 THEN "take" ELSE
                      IF got # <<>> THEN "off" ELSE
                      IF nonblock THEN "return" ELSE "spin")
  /\ seen' = IF m = 0 THEN rx_in ELSE 0
  /\ n' = Least(m, want)
  /\ UNCHANGED <<ring, enables, host, silence, pie, context, call, service>>

TakePiece ==
  /\ Program("take", IF want > n THEN "fetch" ELSE "off")
  /\ got' = got \o [k \in 1..n |-> rx_buf[rx_out + k - 1]]
  /\ want' = want - n
  /\ rx_out' = Advance(rx_out, n) /\ n' = 0
  /\ UNCHANGED <<tx_buf, tx_in, tx_out, rx_buf, rx_in, enables, host, silence, pie, context,
                 op, nonblock, todo, seen, service>>

WaitTyped ==
  /\ op = "read" /\ Program("spin", "arrived")
  /\ seen # rx_in \/ HostGone
  /\ UNCHANGED <<ring, enables, host, silence, pie, context, call, piece, service>>

Arrived ==
  /\ Program("arrived", IF seen = rx_in THEN "return" ELSE "fetch")
  /\ UNCHANGED <<ring, enables, host, silence, pie, context, call, piece, service>>

-----------------------------------------------------------------------------
(* The end of both: the device is asked for interrupts, with all interrupts *)
(* off while the enable bits are read, changed and written back.            *)

DisableAll ==
  /\ Program("off", "mask")
  /\ context' = pie /\ pie' = FALSE
  /\ UNCHANGED <<ring, enables, host, silence, call, piece, service>>

\* Bug: a write that is complete does not ask for the interrupt.
AskForInterrupts_IfLeft ==
  /\ Program("mask", IF op = "write" /\ todo # <<>> /\ ~nonblock THEN "spin" ELSE "return")
  /\ irq_enable' = irq_enable \cup (IF op = "read" THEN {"RE"} ELSE IF todo = <<>> THEN {} ELSE {"WE"})
  /\ control' = irq_enable'
  /\ pie' = context
  /\ UNCHANGED <<ring, host, silence, context, call, piece, service>>

AskForInterrupts ==
  /\ Program("mask", IF op = "write" /\ todo # <<>> /\ ~nonblock THEN "spin" ELSE "return")
  /\ irq_enable' = irq_enable \cup {IF op = "write" THEN "WE" ELSE "RE"}
  /\ control' = irq_enable'
  /\ pie' = context
  /\ UNCHANGED <<ring, host, silence, context, call, piece, service>>

\* The value returned is left out: the number of characters moved, or an error
\* if there are none.
Return ==
  /\ Program("return", "idle")
  /\ LeaveCall
  /\ seen' = 0 /\ n' = 0
  /\ UNCHANGED <<ring, enables, host, silence, pie, context, service>>

-----------------------------------------------------------------------------
(* close and ioctl *)

Close(nb) ==
  /\ Program("idle", "drain")
  /\ op' = "close" /\ nonblock' = nb
  /\ UNCHANGED <<ring, enables, host, silence, pie, context,
                 todo, want, got, piece, service>>

Drain ==
  LET ends == tx_out = tx_in \/ HostGone IN
  /\ Program("drain", "idle")
  /\ ends \/ nonblock
  /\ LeaveCall
  /\ UNCHANGED <<ring, enables, host, silence, pie, context, piece, service>>

\* Without a clock both requests are refused and nothing changes.
SetTimeout(t) ==
  /\ Program("idle", "idle")
  /\ timeout # INT_MAX
  /\ timeout' = IF t >= 2 /\ t < INT_MAX THEN t ELSE INT_MAX - 1
  /\ UNCHANGED <<ring, enables, host, host_inactive, pie, context,
                 op, nonblock, todo, want, got, piece, service>>

-----------------------------------------------------------------------------
(* The dispatcher and the interrupt routine *)

Routine(from, to) == isr = from /\ isr' = to

Interrupt ==
  /\ pie /\ Pending
  /\ Routine("none", "entry")
  /\ UNCHANGED <<ring, enables, host, silence, pie, context, pc, call, piece, wi, space, avail>>

\* alt_irq_handler looks for the interrupt by shifting a mask until a bit
\* matches: were none pending any more, it would never come back.
Dispatch ==
  /\ Routine("entry", IF Pending THEN "control" ELSE "hung")
  /\ UNCHANGED <<ring, enables, host, silence, pie, context, pc, call, piece, wi, space, avail>>

ReadControl ==
  /\ Routine("control", IF ReadIrq THEN "rx" ELSE IF WriteIrq THEN "tx" ELSE "exit")
  /\ wi' = WriteIrq
  /\ space' = FIFO_DEPTH - Len(txFifo)
  /\ avail' = TRUE
  /\ UNCHANGED <<ring, enables, host, silence, pie, context, pc, call, piece>>

\* Every read of the data register ends the host's pause.
ReceiveOne ==
  /\ ~RxFull /\ rxFifo # <<>>
  /\ Routine("rx", "rx")
  /\ rx_buf' = [rx_buf EXCEPT ![rx_in] = Head(rxFifo)]
  /\ rx_in' = Advance(rx_in, 1)
  /\ rxFifo' = Tail(rxFifo) /\ pause_irq' = FALSE
  /\ avail' = (rxFifo' # <<>>)
  /\ UNCHANGED <<tx_buf, tx_in, tx_out, rx_out, enables, txFifo, ac, silence, pie, context,
                 pc, call, piece, wi, space>>

\* With characters left, by its last look at them, the routine turns the
\* device's read interrupt off.
TurnOff(left) ==
  /\ irq_enable' = IF left THEN irq_enable \ {"RE"} ELSE irq_enable
  /\ control' = IF left THEN irq_enable' ELSE control

ReceiveFull ==
  /\ RxFull
  /\ Routine("rx", IF wi THEN "tx" ELSE "control")
  /\ TurnOff(avail)
  /\ UNCHANGED <<ring, host, silence, pie, context, pc, call, piece, wi, space, avail>>

\* The read that finds nothing: RVALID is what was in the queue in its first
\* clock, RAVAIL what is there in the second.
ReceiveNone(arriving) ==
  /\ ~RxFull /\ rxFifo = <<>>
  /\ Routine("rx", IF wi THEN "tx" ELSE "control")
  /\ rxFifo' = arriving /\ pause_irq' = FALSE
  /\ ac' = (ac \/ arriving # <<>>)
  /\ avail' = (arriving # <<>>)
  /\ TurnOff(avail')
  /\ UNCHANGED <<ring, txFifo, silence, pie, context, pc, call, piece, wi, space>>

ReceiveEnd == ReceiveFull \/ ReceiveNone(<<>>) \/ \E c \in Typed : ReceiveNone(<<c>>)

\* A character written to a full queue of the device is gone.
SendOne ==
  /\ space > 0 /\ tx_out # tx_in
  /\ Routine("tx", "tx")
  /\ txFifo' = IF Len(txFifo) < FIFO_DEPTH THEN Append(txFifo, tx_buf[tx_out]) ELSE txFifo
  /\ tx_out' = Advance(tx_out, 1)
  /\ space' = space - 1
  /\ UNCHANGED <<tx_buf, tx_in, rx_buf, rx_in, rx_out, enables, rxFifo, ac, pause_irq, silence, pie,
                 context, pc, call, piece, wi, avail>>

\* Bug: the write interrupt is turned off after every burst.
SendEnd_AlwaysOff ==
  /\ space = 0 \/ tx_out = tx_in
  /\ Routine("tx", "control")
  /\ irq_enable' = irq_enable \ {"WE"}
  /\ control' = irq_enable'
  /\ UNCHANGED <<ring, host, silence, pie, context, pc, call, piece, wi, space, avail>>

SendEnd ==
  /\ space = 0 \/ tx_out = tx_in
  /\ Routine("tx", "control")
  /\ irq_enable' = IF space > 0 THEN irq_enable \ {"WE"} ELSE irq_enable
  /\ control' = IF space > 0 THEN irq_enable' ELSE control
  /\ UNCHANGED <<ring, host, silence, pie, context, pc, call, piece, wi, space, avail>>

\* Bug: the search starts again without a look whether anything is pending.
Leave_Unchecked ==
  /\ Routine("exit", "entry")
  /\ wi' = FALSE /\ space' = 0 /\ avail' = FALSE
  /\ UNCHANGED <<ring, enables, host, silence, pie, context, pc, call, piece>>

\* The dispatcher looks again before it gives the processor back.
Leave ==
  /\ Routine("exit", IF Pending THEN "control" ELSE "none")
  /\ wi' = FALSE /\ space' = 0 /\ avail' = FALSE
  /\ UNCHANGED <<ring, enables, host, silence, pie, context, pc, call, piece>>

\* altera_avalon_jtag_uart_timeout, once a second.
Second ==
  /\ timeout # INT_MAX /\ isr = "none" /\ pie
  /\ ac' = FALSE
  /\ control' = IF ac THEN irq_enable ELSE control
  /\ host_inactive' = IF ac THEN 0
                      ELSE IF host_inactive < INT_MAX - 2 THEN host_inactive + 1
                      ELSE host_inactive
  /\ UNCHANGED <<ring, irq_enable, txFifo, rxFifo, pause_irq, timeout, pie, context, pc, call,
                 piece, service>>

-----------------------------------------------------------------------------
(* The host *)

HostTake ==
  /\ txFifo # <<>>
  /\ txFifo' = Tail(txFifo)
  /\ UNCHANGED <<ring, enables, rxFifo, ac, pause_irq, silence, pie, context, pc, call, piece,
                 service>>

HostType(c) ==
  /\ Len(rxFifo) < FIFO_DEPTH
  /\ rxFifo' = Append(rxFifo, c) /\ ac' = TRUE
  /\ UNCHANGED <<ring, enables, txFifo, pause_irq, silence, pie, context, pc, call, piece,
                 service>>

\* The host's pulse t_pause.
HostPoll ==
  /\ ac' = TRUE
  /\ pause_irq' = (pause_irq \/ rxFifo # <<>>)
  /\ UNCHANGED <<ring, enables, txFifo, rxFifo, silence, pie, context, pc, call, piece,
                 service>>

-----------------------------------------------------------------------------
Call == \/ \E t \in Texts, nb \in BOOLEAN : Write(t, nb)
        \/ \E k \in Wants, nb \in BOOLEAN : Read(k, nb)
        \/ \E nb \in BOOLEAN : Close(nb)
        \/ \E t \in Timeouts : SetTimeout(t)

Continue == Measure \/ AllCopied \/ Copy \/ WaitSent \/ TryAgain
            \/ Fetch \/ TakePiece \/ WaitTyped \/ Arrived
            \/ DisableAll \/ AskForInterrupts \/ Return \/ Drain

Serve == Interrupt \/ Dispatch \/ ReadControl \/ ReceiveOne \/ ReceiveEnd
         \/ SendOne \/ SendEnd \/ Leave

Host == HostTake \/ HostPoll \/ \E c \in Typed : HostType(c)

Next == Call \/ Continue \/ Serve \/ Second \/ Host

\* The processor runs: the program goes on with a call it has begun and the
\* interrupt routine with its work, and an interrupt that is pending, or the
\* clock's tick, is taken at the latest at one of the moments when interrupts
\* are on.  Nothing is asked of the host.
Fairness == WF_vars(Continue) /\ WF_vars(Serve) /\ SF_vars(Interrupt) /\ SF_vars(Second)

Spec == Init /\ [][Next]_vars /\ Fairness

-----------------------------------------------------------------------------
\* Every variable has its type; the pieces lie within the rings.
TypeOK ==
  /\ tx_buf \in [Slot -> Char] /\ rx_buf \in [Slot -> Char]
  /\ {tx_in, tx_out, rx_in, rx_out, seen} \subseteq Slot
  /\ irq_enable \subseteq Enables /\ control \subseteq Enables
  /\ txFifo \in Seq(Char) /\ rxFifo \in Seq(Char)
  /\ {ac, pause_irq, pie, context, nonblock, wi, avail} \subseteq BOOLEAN
  /\ {host_inactive, timeout, want, n, space} \subseteq Nat
  /\ pc \in ProgramPoints /\ isr \in RoutinePoints
  /\ op \in {"none", "write", "read", "close"}
  /\ todo \in Seq(Char) /\ got \in Seq(Char)

\* Characters that wait in the ring to the host have an interrupt that will
\* send them, or the write that put them there is about to ask for it: no
\* order of the program's statements and the interrupt routine leaves them
\* waiting with the write interrupt off (write.c, the kick after the copy).
SendersWake ==
  tx_in # tx_out => \/ "WE" \in control
                    \/ op = "write" /\ pc \in {"measure", "copy", "off", "mask"}

\* With the read interrupt off there are characters in the device: nobody
\* waits for an interrupt that could not come anyway (init.c 156-167).
SilencedWithWork == "RE" \notin control => rxFifo # <<>>

\* What the two interrupts owe the program: that of the write is never lost,
\* that of the read is never off with nothing to read.
NoWakeUpLost == SendersWake /\ SilencedWithWork


\* Once the dispatcher has been entered an interrupt is still pending when it
\* looks for one: its search always ends (alt_irq_handler.c 141-155).
DispatchEnds == isr # "hung"

\* A write that may wait comes back with everything written when the board has
\* no clock: it never gives up on the host (init.c 92-97, write.c 174-189).
WholeWrites ==
  (pc = "return" /\ op = "write" /\ ~nonblock /\ timeout = INT_MAX) => todo = <<>>

\* The characters in a ring, oldest first.
Held(buf, i, o) ==
  [k \in 1..((i - o + BUF_LEN) % BUF_LEN) |-> buf[(o + k - 1) % BUF_LEN]]

ToHost == txFifo \o Held(tx_buf, tx_in, tx_out)
FromHost == Held(rx_buf, rx_in, rx_out) \o rxFifo

ToHostPipe == INSTANCE CharPipe WITH
  Char <- Char, Direct <- {}, offer <- todo, pipe <- ToHost, taken <- <<>>, Watched <- FALSE
FromHostPipe == INSTANCE CharPipe WITH
  Char <- Char, Direct <- Typed, offer <- <<>>, pipe <- FromHost, taken <- got, Watched <- TRUE

\* What the program writes reaches the host, each character once and in order,
\* whatever the interleaving of the write, the interrupt routine and the host.
WrittenReachesHost == ToHostPipe!Spec

\* What the host types reaches the reads in the same way: a full ring loses
\* nothing, the characters stay in the device.
TypedReachesReader == FromHostPipe!Spec

\* No character stays in the ring with the device's queue empty below it,
\* whatever the host does; none stays in the device's queue with the interrupt
\* on and room in the ring above it, if the host goes on polling.  Without that
\* it may: the reads that filled the ring have cleared pause_irq, and turning
\* the interrupt on again (read.c 188) raises nothing.
NothingStuck ==
  /\ []<>(tx_in = tx_out \/ txFifo # <<>>)
  /\ WF_vars(HostPoll) => []<>(rxFifo = <<>> \/ RxFull \/ "RE" \notin control)

\* A write or a close ends if the host keeps taking characters, on every board.
WritesEnd ==
  WF_vars(HostTake) => ((op \in {"write", "close"} /\ pc # "idle") ~> pc = "idle")

\* With a clock every call ends once the host has fallen silent, unless the
\* program has asked for a timeout longer than the count of seconds can reach.
SilenceEndsCalls ==
  <>[](~ac /\ timeout < INT_MAX - 1) => (pc # "idle" ~> pc = "idle")

\* The two together: the program hangs in the driver only if the host neither
\* takes characters nor counts as gone.
CallsEnd == WritesEnd /\ SilenceEndsCalls
=============================================================================
