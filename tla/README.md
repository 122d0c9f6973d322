# Divekick in SystemVerilog: specification, model checking and proofs

The repository is a two-player fighting game on a DE2-115 FPGA board, after the game
*Divekick*: each player has two keys, one to jump ("dive") and one to kick diagonally
down at the opponent; one kick wins a round, five rounds win the match. The game is
hardware; a C program on a small processor beside it reads a USB keyboard. This directory
holds TLA+ models of both, the TLC configurations that check them and theorems that TLAPS
proves.

## 1. Inventory

Everything in hardware runs on one 50 MHz clock, `Clk`. A register takes its new value at
an edge of `Clk`; everything else is combinational, so the unit of behaviour is the clock
cycle, and the hard questions are about which cycle's values meet which. The program is one
thread with one interrupt.

| Part | Files | State | Operations | Modelled |
|---|---|---|---|---|
| Player (twice) | `playerone.sv` | position, motion, pose (5 registers), frame-edge detector | round set-up; one frame of motion | yes |
| Hit detection | `GameEngine.sv` | none | hurt boxes by pose, two hit tests, verdict on time | yes |
| Match machine | `GameState.sv` | `State` | one branch per state; score increments | yes |
| Scores (twice) | `ScoreRegister.sv` | 3 bits | clear, count | yes |
| Timers (four) | `roundtimer.sv` | sub-second counter, seconds | clear, run, count | yes |
| Key reader | `keycode_reader.sv` | none | five key wires from the 32-bit key port | yes |
| Display | `Color_Mapper.sv` | none | colour of a pixel | which picture, where, which cell of it |
| Top level | `lab8.sv` | registered reset | wires all of the above together | the game, the bus |
| Keyboard program | `software/usb_kb/main.c` | `toggle`, `data_size`, the key port | enumerate, poll, publish, hot plug | yes, but for what it only prints |
| USB transactions | `software/usb_kb/usb.c` | transfer lists in the controller's memory | ten requests, wait, count retries | yes, but for `UsbPrintMem` |
| HPI bus | `hpi_io_intf.sv`, `io_handler.c` | ports, registered address, data, strobes | initialise, read, write | yes |
| Character driver | `software/usb_kb_bsp/drivers` | two rings, enable bits, silence count | write, read, close, ioctl, interrupt, alarm | yes |
| Character device | `lab8_soc_jtag_uart_0.v` | two queues, enable bits, `pause_irq`, `ac` | its two registers, interrupts, the host's side | yes, to an access |
| File descriptors | `software/usb_kb_bsp/HAL/src` | pool, high-water mark, flags | start-up, open, close, ioctl, fcntl | yes |
| VGA timing | `VGA_controller.sv`, `vga_clk.v` | two counters, sync registers | scan | no |
| Hex digits | `HexDriver.sv` | none | table | no |
| Not instantiated | `ball.sv`, `CharacterSelection.sv`, `ram.sv` | | | no |
| Generated, vendor | `lab8_soc*`, the rest of `software/usb_kb_bsp`, `db`, reports | | | no |

How they interact:

    keyboard - USB controller - HPI bus - main.c - key port - keycode_reader
                                            |                      |  keys
                          printf: HAL, JTAG driver - host          |
                        VGA_VS -> edge detector -> players <-------+
                                                   |  x, y, pose   |
                                                GameEngine         |
                                                   |  hits         |
                              timers <-> GameState <---------------+
                                            |  state, increments
                          players, timers, ScoreRegisters, Color_Mapper

There is no handshake anywhere: `gameState` and the hit wires are levels that everybody
samples in every cycle.

What is hard in it, and which property answers to it, is listed line by line under
`hazards` in `PROJECT.json`. The themes:

* **Registered and combinational values meet.** The pose a player publishes is the *next*
  one (`whatdo_in`), the position the current one; the machine leaves the round on the hits
  of one cycle and gives the points on those of the next.
* **Order of tests.** The branches of a player's frame form one chain, so a test that
  succeeds hides the later ones; in `GameState.sv` a later `if` overrides an earlier one.
* **Widths.** Ten-bit positions, four-bit seconds, three-bit scores, two-bit banner times,
  all compared for equality or order without a guard against wrapping.
* **Clearing.** Each register is cleared in some states and not in others; a value that
  survives into the next round, banner or match is the typical mistake.
* **Progress.** States are left on equality with a counter.
* **One keyboard path for two players,** with polling, retries and hot plug.
* **Wires and registers meet on the bus.** Strobes, address and data pass a register, the
  sixteen data wires are driven and released straight from the program's port; the reset
  button resets the interface and not the processor.
* **A program and its interrupt routine share two rings** and a copy of the enable bits,
  and the host works on the device's queues all the while. The program's `printf` is part of
  the keyboard path: if it hangs, no key is read any more.
* **Searches with a bound of their own:** the descriptor pool's high-water mark, compared
  with `<` in one place and `<=` in another; the dispatcher's search without a bound.

What makes each component correct:

* *Player*: stays in the arena, whatever is pressed; pose and motion agree; a kick is not
  taken back; a jump, a kick and a fall end on the floor.
* *Hit detection*: a hit is an overlap of the kicking foot with a body; neither side of
  the screen and neither player is favoured; the higher of two kicks wins; what is compared
  is what is drawn.
* *Match*: rounds, points and victory follow the rules (`MatchRules`); every round starts
  fresh; banners and rounds have their lengths and end; the screen tells the truth.
* *The game as a whole*: the players are put back for each round; the hit that
  scores is the one the banner shows, and only a frame edge or the end of time comes between
  the hit that ends a round and the one that scores.
* *Keyboard path*: a transfer list is one the controller can run to its end; no request of
  the set-up is skipped; a key appears on the port only if the keyboard reported it.
* *Bus*: each call reaches the controller once and whole (`HpiAccess`); the wires never have
  two drivers; nothing moves under a strobe.
* *Character driver*: a character goes through once and in order (`CharPipe`); none stays
  behind for want of an interrupt; the dispatcher comes back; a call hangs only if the host does.
* *File descriptors*: none is lost or handed out twice, a lock has one holder
  (`DescriptorPool`); `printf` always has somewhere to go.

## 2. Modules

| Module | Models | Extends |
|---|---|---|
| `Signals` | widths, poses, states, keys | |
| `PlayerMotion` | the combinational half of `playerone.sv`, as operators on a record of registers | `Signals` |
| `PlayerOne` | one player against any opponent in any game | `PlayerMotion` |
| `GameEngine` | `GameEngine.sv`, as operators; the rectangles it stands for | `Signals` |
| `Display` | `Color_Mapper.sv`, as a list of pictures on the screen | `GameEngine` |
| `EngineInputs` | the engine and the display driven by every arrangement of two players | `Display` |
| `MatchRules` | abstract: phases of a match and points | |
| `Match` | `GameState.sv`, `ScoreRegister.sv`, `roundtimer.sv`, wired as in `lab8.sv` | `Signals` |
| `MatchTiming` | `Match` with a history variable, the cycles spent in a state, and the display | `Match`, `Display` |
| `Lab8` | the game half of `lab8.sv`: control, both players, engine, key reader | `Match`, `PlayerMotion`, `GameEngine` |
| `TransferLists` | the words of the lists in `usb.c` and `main.c`, and what makes a list whole | |
| `UsbKeyboard` | `main.c` and `usb.c` with an external controller and keyboard | `Signals`, `TransferLists` |
| `HpiAccess` | abstract: what `IO_init`, `IO_write` and `IO_read` promise | |
| `HpiBus` | `io_handler.c`, the ports, `hpi_io_intf.sv`, the wires, an external controller | |
| `CharPipe` | abstract: characters carried in order, each once | |
| `JtagUart` | `altera_avalon_jtag_uart_*.c` and `alt_irq_handler.c`, `lab8_soc_jtag_uart_0.v`, an external host | |
| `DescriptorPool` | abstract: descriptors and locks | |
| `HalFiles` | `alt_main.c`, `alt_io_redirect.c`, `alt_open.c`, `alt_close.c`, `alt_ioctl.c`, `alt_fcntl.c` and what they call | |
| `MCEngineInputs`, `MCReplay`, `MCUsbKeyboard`, `MCJtagUart`, `MCHalFiles` | instances for TLC | |
| `MCPlayers`, `MCUsb`, `MCHal` | two instances side by side, for one run | |
| `PlayerOne_proofs`, `EngineInputs_proofs`, `Match_proofs`, `Lab8_proofs`, `UsbKeyboard_proofs`, `HpiBus_proofs`, `JtagUart_proofs`, `HalFiles_proofs` | theorems | |

An operator with a comment that begins with `Bug:` is not used by the model. It is a
plausible mistake in the definition after it; put in its place it breaks one property, which
shows that the property depends on that code.

### Player

A player is a record `[x, y, dx, dy, what]` of the five registers. `Decide` is the
if / else-if chain of `playerone.sv:84-127`; each branch is an operator (`Jump`,
`Descend`, `Kick`, `Land`, `Cancel`). `Frame` adds what the two last lines of the block
do: the position moves by the *old* motion. `NextPlayer` is the register block with its
three cases and `Status` the published pose. Arithmetic is modulo 1024 (`Wrap`), a
negative step is its two's complement (`Neg`). The edge detector appears as the input
`edge`. In `PlayerOne` the rest of the game is a choice: set the round up, or play a frame
with any one key and the opponent on either side.

### Hit detection

`HurtBox` is the box table (written once; the source repeats it for each player),
`MeetsAcross` and `MeetsDown` the comparisons, `Kicks` a hit, `WinsOnTime` the verdict when
no time is left. `Foot`, `Body` and `Overlap` say what the comparisons mean on an
unbounded plane; they are the reference the code is compared with.

### The display

`Layers` is the chain of `Color_Mapper.sv` as a list of pictures: when each is shown, in
which rectangle, and what it tells (which digit, whether a circle is lit, which pose). `Cell`
is the index that is read from a picture's memory for a pixel, with that picture's stride.
Two properties relate it to the rest: `PicturesFit` to the memories, `BodyIsDrawn` to the
boxes of the engine; `ScreenTells` (in `MatchTiming`) to the machine's registers.

### Match

One action per state of `GameState.sv` (`InTitle` ... `InVictory`) fixes the next state;
`Registers` moves scores and timers in the same step, because they share the clock. The
reset button is an action that may happen in every cycle. Hits are arbitrary inputs in the
four states between the start of a round and its clearing. The two timing constants
(`SECOND`, `HALF_SECOND`) stand for 50,000,000 and 25,000,000 cycles.

### The game

`Lab8` computes the hits instead of choosing them. Its step is one clock edge: `Tick` with
the button up, `Button` with it down. The inputs of the next cycle are chosen after the
step: `edge`, never twice in a row, and `key`, one of the five or none. A key is only
offered in cycles in which somebody reads it; in all others "none" stands for every key.
Its control half is `Match` itself, with the computed hits in place of the chosen ones, so
what `Match` is checked and proved to do holds of the game as long as the hits are among
those `Match` allows: `HitsOnlyInRound` discharges that assumption, and the theorem
`PlaysMatch` says that the game takes no step but `Match`'s.

### The keyboard

`TransferLists` holds the words that each function of `usb.c` writes, in the order in which
it writes them, and reads them the way the controller does: `Chain` is the descriptors, and
`RunsThrough` says that the next pointers lead through all of them. `UsbKeyboard` is the
program as a state machine, `pc` naming where it is. The nine requests of the set-up are the
same code nine times with another function, so they share their actions and `step` says
which one it is: `Send`, `CheckMessage`, `SendAgain` (the loop around the status flag),
`ReadDone` and `ClearDone` (`UsbWaitTDListDone`), `Result` (the control byte), and
`ReadRetry` to `ReadRetryCnt` (`UsbGetRetryCnt`). The poll is the tenth and goes to
`Publish` and the hot-plug check instead of `Result`.

The rest is external and modelled from what the program expects of it. The controller runs
the list it is started on, from the start each time it is started; marks the first
descriptor; posts one message at the end; and keeps its flag until the message is read. The
keyboard may answer, need a retry, or give up at any time, and may be pulled out or put in
at any time; after that and after a bus reset it has address 0. Assumed:

* the words of a list and the pointer that starts it are one step. The controller takes
  milliseconds for a transfer, the program microseconds for a list, and a repeated list has
  the same words;
* reading the message register clears its flag (`usb.c:105`); a later message replaces one
  that has not been read;
* an acknowledgement in the mailbox may be missing at any time;
* sleeps and numbers of attempts have no effect other than that time passes.

### The bus

`HpiBus` goes clock by clock. The program's three routines are sequences of stores and loads
(`IO_init`, `IO_write`, `IO_read`), at least `GAP` clocks apart; `Access` makes the next one.
`Clock` is one edge for everything in hardware: the interface's registers take the ports,
`data_in` takes what is on the wires, the load port's register takes `data_in`. `OnWires` is
the set of words that may be there: the driver's, anything if there are two, the last one for
`KEEP` clocks if there is none, then anything. The external controller takes a word when the
write strobe ends and puts one out `ACCESS` clocks into a read strobe. The reset button may
be pressed in any clock; it resets the interface and nothing else, and a call during which it
was pressed is `disturbed`: it may be lost, arrive with another word, or arrive twice. Worth
knowing:

* all ports are 0 at power-on, so the first store of `IO_init`, which ends the controller's
  reset, leaves both strobes active. `HpiAccess` promises nothing until `IO_init` is over;
* `OTG_DATA` follows the program's port `w` (line 43), `OTG_WR_N` a register: the interface
  lets go of the wires a clock before the write strobe ends. The word is taken only because
  the wires keep it for that clock, `KEEP >= 1`;
* a word that is read passes three registers. `GAP >= ACCESS + 3` says that the load comes
  after that. The processor (Nios II/e) takes at least six clocks for an instruction.

`HpiAccess` is the promise: a memory behind an address that moves on. The mailbox and status
registers are two more addresses of the same path and are left out.

### The character driver

`JtagUart` is the fast driver without an operating system, as this board support package is
built (`system.h`: interrupt 5, queues of 64 characters, threshold 8; rings of 2048). The
program's calls go one statement at a time, `pc` naming where they are, wherever an
interrupt in between makes a difference: measuring a piece and copying it are two steps,
turning interrupts off and changing the enable bits are two more. The interrupt routine has
its own place, `isr`, and runs in any gap while interrupts are on, one character a step,
since the host takes and types characters at the same time. `Dispatch` and `Leave` are the
two looks of `alt_irq_handler` at the pending interrupts; a look that finds nothing inside
the search is the place `"hung"`. `Second` is the alarm that counts seconds of silence. It
runs only where there is a system clock; this build has none, so `timeout` is `INT_MAX` from
`init.c:95` on. Both kinds of board are initial states.

The device behind it is `lab8_soc_jtag_uart_0.v`. `ReadIrq` and `WriteIrq` are its two
interrupts, `ipen_AF` and `ipen_AE`: the second is there while its queue is nearly empty,
the first while its queue is nearly full or after the host has paused with characters in it
(`pause_irq`, which any read of the data register clears). So a few characters raise nothing
until the host polls, and neither does turning the interrupt on. `HostTake`, `HostType` and
`HostPoll` are what the host's pulses `r_ena`, `t_ena` and `t_pause` do. An access is a step,
but for the read of the data register: `RVALID` is from its first clock and `RAVAIL` from its
second, and `ReceiveNone` lets a character arrive in between (after a read that does find one,
an arrival makes no difference from one before it). Left out is the clock by which `fifo_AE`
and `fifo_AF` follow their queues: the processor needs several between two accesses.

`ToHostPipe` and `FromHostPipe` map the two directions to `CharPipe`: what is in the device's
queue and in the ring, in order, is the pipe.

### The file descriptors

`HalFiles` begins with the static pool of `alt_dev.c` and runs `alt_main`'s start-up, which
points the three standard descriptors at the character device. Then the program makes any
calls in any order. Nobody else touches the pool, so a call is a step; `Taken` is the
descriptor `alt_get_fd` finds, `Locked` and `Excludes` the two searches, with the bounds they
have in the source. `alt_fd_lock.c:61` stops one below the highest descriptor, so that a
lock may be granted although that descriptor refers to the device, against the comment at
lines 43-44 (the finding of `Files_lock`). Two things are left of the promise and checked. The
lock has one holder: the descriptor the search misses is the highest, a holder is always the
lowest of its device, and so the two can not both hold it (`HoldersAreLowest`, `OneHolder`).
And the descriptor at the high-water mark is the only user that is missed: `DescriptorPool`
has the documented condition with an input, `overlooked`, that would be empty if the code
did what the comment says, and that `PromiseKept` has to set to `{alt_max_fd}`.

## 3. Runs

| Run | Instance | Checks |
|---|---|---|
| `Players` | the parameters of `playerone.sv:13-23`; heights and gaps on both sides of every box edge, every pair of poses | `TypeOK`, `VerticalBounds`, `PoseMatchesMotion`, `IdleIsLow`, `KickCommitted`, `MotionEnds`; `KickIsOverlap`, `MirrorFair`, `DoubleHitIsLevel`, `PicturesFit`, `BodyIsDrawn` |
| `Match_control` | seconds of 6 and 3 cycles | `RoundStartsFresh`, `RoundLength`, `ScreenTells`, `ClockOutHolds`, `BannerLengths`, `MatchMovesOn`, refinement of `MatchRules` |
| `Lab8_safety` | steps of 30 and 40, seconds of 2 cycles, at most one point before a round | `OnTheirMarks`, `HitsOnlyInRound`, `BannerShowsVerdict`, `QuietVerdictStands` |
| `Usb` | a keyboard that reports no key, `W` or `D`; a bus of 2 words, 4 clocks between accesses, 1 to fetch, 1 that wires keep | `RunsWholeLists`, `KeyboardAnswered`, `NoGhostKey`; `OneDriver`, `StableStrobe`, refinement of `HpiAccess` |
| `Hal` | rings of 3 slots, queues of 2, texts longer than a ring; 6 descriptors, two devices, a name of none | `NoWakeUpLost`, `DispatchEnds`, `WholeWrites`, `NothingStuck`, `CallsEnd`, refinement of `CharPipe` in both directions; `NoLeak`, `StreamsStay`, `OneHolder`, refinement of `DescriptorPool` |
| `Engine_clockout`, `Match_five`, `Match_fifteen`, `Replay_wall`, `Keyboard_retry`, `Console_late`, `Files_lock` | | one finding each, see below |

`Players`, `Usb` and `Hal` check two modules each that share no variable: the player and the
engine, the keyboard program and the bus, the driver and the descriptors. Every behaviour
belongs to one of the two and leaves the other in an initial state (`MCPlayers`, `MCUsb`,
`MCHal`). Nothing is claimed of the two together; how the program's accesses rest on the bus is
what the refinement of `HpiAccess` says.

### Bounds, and why they are enough

* `Players`, a player: there is no bound, the state space of one player is finite (385,649
  of the run's 529,537 states).
  Only the side of the opponent matters to a player, so the two ends of the word stand for
  all positions.
* `Players`, the engine (143,888 states): the comparisons are between sums of two coordinates and a
  box size, so only the difference of the coordinates counts while nothing wraps. `Half` and
  `Heights` hold a value on each side of each threshold. The theorems cover the rest: all
  five invariants are proved for every place on the screen. Neither covers a player nearer
  than 30 to the left edge, where only the bug of `Replay_wall` takes him: there the box edges
  wrap.
* `Match_control` (88,998 states): a banner, a round and the wrap of every counter need only
  that a second is longer than the banners' extra cycles; with `SECOND = 6`,
  `HALF_SECOND = 3` the round clock does not tick between the banners, as on the board.
  Scores run through all eight values. The theorems of `Match_proofs` hold for every
  `SECOND` and `HALF_SECOND`, `RoundsAreEqual` for those with `IntroIsShort`.
* `Lab8_safety` (1,151,622 states): on the board a frame is 833,600 cycles and a second sixty
  frames. Here the frame edge may come at any cycle that does not follow one, which includes
  every rate, and the steps are large, so that a jump is seven frames; a vertical step is
  shorter than half a body, so that kicks at different heights can meet. A second is two
  cycles long: a round ends on time within thirty cycles. The guard in `KeysRead` starts no
  round when more than `MaxPoints` points have been given; two rounds are played, which is
  what "nothing is carried over" is about.
* `Usb`, the keyboard program (86,644 of 507,276 states): nothing is bounded but the keys. Two are needed to tell a
  key of this keyboard from one that was down before it was pulled out, and one of them
  belongs to each player; the byte 0 stands for all that are no keys of the game. All
  requests of the set-up and all orders of answers, resends, removals and insertions occur.
  `RunsWholeLists` looks at the real words of every list. `NoGhostKey` has the history
  variable `reported`, `KeyboardAnswered` the history variable `answered`; neither guards
  an action.
* `Usb`, the bus (420,632 states): the smallest pace and the shortest hold the assumption
  admits are the hardest case. Two words tell the word of this call from that of another, and
  two consecutive addresses from each other. The theorems hold for all values.
* `Hal`, the driver (198,186 of 209,542 states): a ring of three slots is empty, half full, full, and full
  across its end; a queue of two has a level above its threshold and one below; texts of
  three do not fit the ring. A behaviour belongs to one of four uses (`MCJtagUart`): writes
  and closes, blocking or not, with two kinds of characters; blocking reads with two kinds;
  both directions at once without waiting; all three blocking on a board with a clock, with
  a timeout of two seconds. Characters of two kinds are needed for the order, of one
  kind for the wake-ups. With `READ_THRESHOLD = 0` one character in the device raises
  no interrupt by itself and two do. The theorems hold for every ring, queue and traffic.
* `Hal`, the descriptors (11,356 states): three descriptors besides the standard ones: a holder, another
  user, and one more to close in between.

### Findings

Each of these runs checks one property that the source states of itself, and TLC finds a
behaviour of the code that breaks it.

* `Engine_clockout`: on time, player two's distance from the middle is computed on the side
  picked by player *one's height* (`GameEngine.sv:152`).
* `Match_five`: space, when down in the cycle the scores are checked, overrides victory; a
  match can go on to six, seven and back to zero.
* `Replay_wall` (`MCReplay`, a scripted round in the real arena): a kick started just under
  the ceiling next to a wall is not stopped by it, because the ceiling branch comes first;
  the player leaves on the left and reappears at X = 1021.
* `Keyboard_retry`: a request that succeeds at the second try leaves a control byte other
  than `0x03`, and the program reads that byte for ever: nothing is sent again.
* `Match_fifteen`: `roundtimer.sv:1` says fifteen seconds. The counter of cycles under the
  clock is not cleared when the banners are over (lines 13, 28), so a round's first second is
  half a second short on the board. `RoundLength` has the exact number of cycles and says that
  every round has the same.
* `Console_late`: a character that reaches the device between the two clocks of a read of its
  data register makes the interrupt routine take the ring for full (`init.c:156-161`) and turn
  its interrupt off. A blocking read that waits with an empty ring is then never woken; on a
  board without a system clock it never ends.
* `Files_lock`: with `/dev/null` open as 3 and 4, the exclusive lock is granted to 3
  (`alt_fd_lock.c:61`), while 4 goes on using the device.

Other places where the code does not do the obvious are part of the properties that hold:

* a player who lands may be idle a step *above* the floor (`playerone.sv:129` moves him by the
  old motion), where neither key does anything until the round ends. `IdleIsLow` says that it
  is one step at most;
* a hit seen in the cycle of a frame edge may be gone in the next, which gives the points. The
  round is then credited to nobody, or to the other player, who kicks in that very frame; and
  when time runs out in between, possibly to both. `QuietVerdictStands` says that these two,
  an edge and the clock reaching zero, are the only causes; `BannerShowsVerdict` is about what
  follows the points. Nothing in the source says what is meant to happen at an edge, so no
  property does;
* characters left in the device when the ring was full raise no interrupt when the read that
  makes room turns it on again (`read.c:188`): the reads that filled the ring have cleared
  `pause_irq`. They are delivered when the host polls next, which is the hypothesis in the
  second half of `NothingStuck`; with a silent host they stay;
* a call on the bus in which the reset button is pressed may be lost or doubled; `CallsReach`
  exempts it, and `OneDriver` says that at least the wires are not driven by two;
* a player's rectangle has 89 rows on a picture of 88, and the "2" of player two's name a
  column too many: `PicturesFit` says that these are the only two;
* with six or seven points four circles are lit, the fifth only at five. `ScreenTells` is
  about the scores up to five.

### Fairness

`Match`, `MatchTiming` and `Lab8` assume weak fairness of the step: the oscillator does not
stop. `PlayerOne` assumes weak fairness of `PlayFrame` while the player is moving: `VGA_VS` rises
sixty times a second whatever the game does (`VGA_controller.sv` has no input that stops
it), and a round that is set up again and again counts as an end of the kick. It is limited
to a moving player because for one at rest fairness of a frame that changes something would
force somebody to press a key. `UsbKeyboard` assumes weak fairness of the
program, a loop on a processor, and of the controller, which ends a transfer with an answer
or after its retries. Nobody has to plug in a keyboard. Nothing is assumed about keys,
hits or the reset button, except that a reset ends whatever was going on.

`JtagUart` assumes weak fairness of a call that has begun and of the interrupt routine:
both are code on a processor. Interrupts and the alarm have strong fairness: interrupts are
off for a moment in every call, and one that is pending over and over is taken in one of the
moments when they are on. Of the host nothing is assumed. That a write ends needs a host that
takes characters or a clock; the two are hypotheses inside `WritesEnd` and
`SilenceEndsCalls`. In the same way the polling of the host is a hypothesis of the second half
of `NothingStuck`. `HpiBus` and `HalFiles` have no liveness property and no fairness.

## 4. Theorems

Proved by TLAPS for every value of the constants that satisfies the named assumption of the
module.

* `PlayerOne_proofs`, under `ParameterAssumption` (the parameters are ten bits wide) and
  `ArenaAssumption` (the arena is higher than a jump's two extra steps). The bounds are not
  inductive: from "y is in bounds" alone, a rising player one pixel below the highest point
  would leave. `IInv` adds that heights are whole steps from the lowest point
  (`WholeSteps`), that a rising player is less than a step above the ceiling line at most
  and a descending one not below the floor line (`Momentum`), and that an idle player is at
  most a step above the floor (`IdleIsLow`). `FrameCases` reduces a frame to six outcomes;
  `GoUp`, `GoDown` and `StayPut` say where each motion leads without wrapping; `FrameInv`
  puts them together. From it follow `TypeCorrect`, `StaysInBounds`, `PoseIsMotion`,
  `IdleNearFloor` and `KickIsCommitted`.
* `EngineInputs_proofs`, under `OnScreenAssumption` (both players a box width from the edges
  of the word): `HitIsOverlap`, by replacing each ten-bit expression by its value
  (`KickGeometry`) and comparing it with the rectangles; `HigherKickWins`; and
  `BoxesAreDrawn`, box by box against the rectangle of the picture. `NoSideFavoured` goes
  from the boxes (`MirrorBox`) over the positions (`MirrorPlace`) to the overlaps; it has
  the hypothesis `VisiblePlaces`, that the 640 columns of the screen show all of both
  players, because the reflection of a place beyond is not a ten-bit number. The places of
  `Players` satisfy it. `LayersFit` goes through the list of layers: pictures in a
  fixed place (`FixedFits`), the circles (`CircleFits`), the players (`FighterFits`).
* `Match_proofs`, under `PeriodAssumption` (a second has at least two cycles):
  `TypeCorrect`; `FreshRounds` and `ClockStaysOut` from the invariant `ClockInv` (the clock
  is clear whenever no round has begun, and fifteen is only shown in the first cycle of a
  second, in which the machine leaves the round); and `PlaysByTheRules`, the refinement of
  `MatchRules`, by the states the machine can come from. The lengths need invariants that
  tie the history variable `since` to the timers: `BannersCount` (the timer of the banner
  that is up has counted exactly the cycles it has been up) and `RoundCounts` (the round
  clock runs with the banners, and is ahead of the round by their share of its first
  second). `BannersLast` and `RoundsAreEqual` follow; the latter has the hypothesis
  `IntroIsShort`, since with longer banners the clock would tick before the round.
  `ScreenIsTrue` rests on `VictoryIsWon`: the victory screen is up only with five points on
  one side.
* `Lab8_proofs`, under the assumptions of `Match` and the widths of `ParameterAssumption`,
  for every arena. `LInv` says that the players are on their marks from the announcement of
  a round to its begin and on the victory screen, and idle on the title screen
  (`PlayersPut`). A hit needs a kick or a clock that has run out, and so `NoHitOutside`;
  with it every step of the game is one of `Match` (`PlaysMatch`), and `GamePlaysByTheRules`
  and `GameClockStaysOut` are `Match`'s theorems. `PutOnTheirMarks` is a part of `LInv`.
  `BannerIsRight` and `VerdictStands` add what the verdict depends on: the two players and
  whether there is time left, which do not change while the banner is up, or in a cycle
  without an edge and other than the clock's last. (Since `Match_proofs` extends `MatchTiming`, this module declares `since` too and
  uses it nowhere.)
* `UsbKeyboard_proofs`, for every set of keys: `NothingSkipped`, that the program never goes
  on to the next request before the keyboard has taken the current one. It does not follow
  from the message the program waited for, which may be an old one. What holds it up is the
  control byte: the invariant `AInv` says that while a request is being worked on the list
  in the controller's memory is its own, and that the byte says success only if the keyboard
  has taken that list (`Honest`). `AnsweredInductive` proves it group by group of actions.
  `TypeCorrect` needs it too, for the step counter ends at the poll because a poll is never
  judged. `NoGhosts` has an invariant of its own, `Exorcised`: from the first request of a
  set-up on, what stands in the controller's memory where the program reads the key has been
  reported since, or is no key of the game. The set-up writes lists and answers over that
  place; that they leave no key there is `ListsHoldNoKey`, list by list. `ListsAreWhole` has
  two operators that speak of words only, `WordsInOrder` and `Pieces`: `RequestIsWhole` goes
  from them to what the controller makes of a list, for two to ten stages, and each of the
  nine requests is compared with them word for word.
* `HpiBus_proofs`, under `BusAssumption` (at least three clocks between accesses besides
  those of a fetch, wires that keep a word for one). `IInv` has a part for each call
  (`Initialising`, `Resting`, `Writing`, `Reading`) that says, as a function of the accesses
  made and the clocks since, what is on the ports, what has reached the pins, and, for a
  call that was not disturbed, what the controller has seen of it. The pins are bounded even
  in a disturbed call, and that is enough for `NeverBothDrive` and `StrobesAreStable`.
  `EveryCallReaches` is the refinement of `HpiAccess`: a clock is a stutter but for the one
  in which the controller takes or fetches the word.
* `JtagUart_proofs`, under `UartAssumption`, for rings, queues and traffic of every size.
  The wake-ups (`WakeUpsKept`) rest on `Shadow` (the device's enable bits are the driver's
  copy), `Masking` (interrupts are off only while that copy is changed, and never with the
  routine running), `Where` (which call the program is in) and `PauseWithWork` (the device
  remembers a pause only with characters in its queue). `DispatcherReturns` rests on `EntryPending`:
  between the processor's taking of an interrupt and the look of the dispatcher only the
  host moves, and it can raise an interrupt but not withdraw one. `WritesAreWhole` rests on
  `NoClock`, that nobody counts silence on a board without a clock. `WritesArrive` and
  `KeysArrive` are the two refinements of `CharPipe`. What a ring holds is a sequence cut at
  the ring's end; the lemmas `HeldAt`, `HeldTaken`, `HeldFront` and `HeldFilled` say what is
  left of it when one is taken and what is added when a piece is copied in. The program
  measures a piece and copies it later, with the interrupt routine in between, so the proof
  needs `Travel`: the piece that was measured still fits when it is copied (`CopyFits`,
  `TakeFits`), because the routine moves only the other index, and the routine never
  believes in more room than the device has (`SpaceFits`).
* `HalFiles_proofs`, under `FilesAssumption` (more than three descriptors).
  `LockHasOneHolder` rests on `HoldersAreLowest`; `StandardStreams` on `Unlocked`, nobody
  can lock the character device because the standard streams are its users; both on
  `MarkCovers`, that no descriptor in use lies above the mark. `PoolKeepsPromise` is the
  refinement of `DescriptorPool`.

Every invariant above was checked by TLC, as an invariant of a run's instance, before it was
proved.

Model-checked only: everything under fairness (`MotionEnds`, `MatchMovesOn`, `NothingStuck`,
`CallsEnd`), which is beyond the prover. Every invariant, action property and refinement that
a passing run checks is also a theorem.

## 5. What is not modelled

* The contents of the pictures, the palette, the background, and that player two shows
  through the empty pixels of player one's picture (`Color_Mapper.sv:289-331`).
* The VGA counters (`VGA_controller.sv`): two free-running counters whose next values depend on
  nothing else. Only that frame edges keep coming and are never adjacent is used.
* Of the keyboard program: the inspection of descriptors that is only printed, the
  controller registers that are written once, `UsbPrintMem`. A read or write of the controller
  is one step of `UsbKeyboard`, as `HpiAccess` allows. Data toggles are compared by
  the form of the lists, not at run time. That the set-up ends is not stated: it does not,
  if the keyboard needs a retry or a message is lost between the read and the write that
  clears it (`usb.c:542-543`).
* The keyboard and the game are not composed: the key is an input of `Lab8`. At most one
  key is ever seen because `main.c:524` stores one byte, which the port repeats on its four
  lanes.
* `Char_Sel` and `Stage_Sel`, states that nothing enters; the `default` branches.
* Of the board support package: the variants this build does not have (an operating system,
  an interrupt controller outside the processor, the polled driver, a system clock), devices
  that do not exist (DMA, flash, file systems), what is compiled out (`alt_log_printf.c`,
  `alt_gmon.c`), and the assembly of entry and exception.
* Metastability, the PLL, generated and unused files.

Much of the source is outside any model by its nature: `cy7c67200.h` is 3,300 lines of
register names, `system.h` is generated, and a large part of the board support package is
compiled out or concerns absent devices. The models follow the code that runs.

## 6. What is left

* A composition of the keyboard port, the key reader and `Lab8`: which keys of two players
  are lost, what a key that stays on the port after a removal does to a round.
* The two VGA counters, to discharge what `Lab8` assumes of `edge`.
