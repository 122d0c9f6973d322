------------------------------- MODULE HpiBus -------------------------------
(***************************************************************************)
(* One access of the keyboard program to the USB controller, clock by      *)
(* clock: the stores and loads of io_handler.c to the ports of the system, *)
(* hpi_io_intf.sv, which passes them on a clock later, the sixteen wires   *)
(* that both sides drive, and the controller behind them.  The processor   *)
(* takes GAP clocks or more from one access to the next.                   *)
(***************************************************************************)
EXTENDS Naturals, Sequences

CONSTANTS
  N,        \* words; the data wires carry one
  GAP,      \* fewest clocks between two accesses of the program to its ports
  ACCESS,   \* clocks from a read strobe to valid data on the wires
  KEEP      \* clocks for which wires that nobody drives keep their value

\* The read passes three registers; the wires are released a clock before the
\* write strobe ends.
ASSUME BusAssumption ==
  /\ N \in Nat /\ N > 1 /\ ACCESS \in Nat \ {0}
  /\ GAP \in Nat /\ GAP >= ACCESS + 3
  /\ KEEP \in Nat \ {0}

VARIABLES
  port,                   \* the program's ports, as it last stored to them
  made,                   \* the accesses it has made in this call
  since,                  \* clocks since its last access, counted up to GAP
  temp,                   \* the word IO_read has loaded
  Reset,                  \* the reset button
  pin,                    \* the registered pins of the interface
  buffer, data_in,        \* from_sw_data_out_buffer, from_sw_data_in
  readdata,               \* the register of the port the program loads from
  held, floating,         \* what was last on the wires, and for how long undriven
  mem, ptr, age, out,     \* the controller: memory, address, length of the strobe, output
  asked, done, disturbed, \* the call, whether it has reached the controller,
  value                   \*   whether the button was pressed in it, the word it gave

processor == <<port, made, since, temp>>
interface == <<pin, buffer, data_in, readdata>>
wires     == <<held, floating>>
chip      == <<mem, ptr, age, out>>
record    == <<asked, done, disturbed, value>>
bvars     == <<processor, Reset, interface, wires, chip, record>>

-----------------------------------------------------------------------------
Word == 0..(N - 1)
Bit == {0, 1}
DataPort == 0
AddressPort == 2
Pins == {"address", "cs", "r", "w", "reset"}

Call(op, address, data) == [op |-> op, address |-> address, data |-> data]
None == Call("none", DataPort, 0)

Store(p, v) == [port |-> p, value |-> v]
Load == Store("load", 0)

\* io_handler.c
IO_init == << Store("reset", 1), Store("cs", 1), Store("r", 1), Store("w", 1),
              Store("address", 0), Store("data", 0),
              Store("cs", 0), Store("reset", 0), Store("reset", 1), Store("cs", 1) >>

\* Bug: the strobe comes before what it is to carry.
IO_write_StrobeFirst(address, data) ==
  << Store("r", 1), Store("cs", 0), Store("w", 0),
     Store("address", address), Store("data", data), Store("w", 1), Store("cs", 1) >>

IO_write(address, data) ==
  << Store("r", 1), Store("address", address), Store("data", data),
     Store("cs", 0), Store("w", 0), Store("w", 1), Store("cs", 1) >>

\* Bug: the word is loaded after the strobe.
IO_read_LoadsLate(address) ==
  << Store("w", 1), Store("address", address),
     Store("cs", 0), Store("r", 0), Store("r", 1), Load, Store("cs", 1) >>

IO_read(address) ==
  << Store("w", 1), Store("address", address),
     Store("cs", 0), Store("r", 0), Load, Store("r", 1), Store("cs", 1) >>

Accesses(c) == CASE c.op = "init"  -> IO_init
                 [] c.op = "write" -> IO_write(c.address, c.data)
                 [] c.op = "read"  -> IO_read(c.address)
                 [] c.op = "none"  -> <<>>

-----------------------------------------------------------------------------
(* The wires *)

Strobe(s) == pin["reset"] = 1 /\ pin["cs"] = 0 /\ pin[s] = 0

\* Bug: the interface drives the wires whenever the program does not read.
InterfaceDrives_UnlessRead == port["r"] = 1

\* The interface drives them from the program's port, not from the pin.
InterfaceDrives == port["w"] = 0
ControllerDrives == Strobe("r")

OnWires == IF InterfaceDrives
           THEN IF ControllerDrives THEN Word ELSE {buffer}
           ELSE IF ControllerDrives THEN IF age = ACCESS THEN {out} ELSE Word
           ELSE IF floating < KEEP THEN {held} ELSE Word

-----------------------------------------------------------------------------
\* The system's reset has cleared the ports: all strobes are active.
BInit ==
  /\ port = [p \in Pins \cup {"data"} |-> 0]
  /\ asked = Call("init", DataPort, 0) /\ made = 0
  /\ since = 0 /\ temp = 0
  /\ Reset \in BOOLEAN
  /\ pin = [p \in Pins |-> 0]
  /\ buffer = 0 /\ data_in = 0 /\ readdata = 0
  /\ held \in Word /\ floating = 0
  /\ mem \in [Word -> Word] /\ ptr \in Word /\ age = 0 /\ out = 0
  /\ done = FALSE /\ disturbed = FALSE /\ value = 0

-----------------------------------------------------------------------------
(* The program *)

Begin(c) ==
  /\ asked = None
  /\ asked' = c /\ made' = 0
  /\ done' = FALSE /\ disturbed' = FALSE
  /\ UNCHANGED <<port, since, temp, Reset, interface, wires, chip, value>>

Access ==
  /\ made < Len(Accesses(asked)) /\ since = GAP
  /\ LET a == Accesses(asked)[made + 1] IN
     IF a = Load THEN temp' = readdata /\ UNCHANGED port
     ELSE port' = [port EXCEPT ![a.port] = a.value] /\ UNCHANGED temp
  /\ made' = made + 1 /\ since' = 0
  /\ UNCHANGED <<Reset, interface, wires, chip, record>>

Return ==
  /\ asked # None /\ made = Len(Accesses(asked))
  /\ asked' = None /\ made' = 0
  /\ done' = FALSE /\ disturbed' = FALSE
  /\ value' = IF asked.op = "read" THEN temp ELSE value
  /\ UNCHANGED <<port, since, temp, Reset, interface, wires, chip>>

-----------------------------------------------------------------------------
(* The controller in a clock that leaves v on the wires and next on the pins *)

Following(p) == (p + 1) % N

\* It takes a word when the write strobe ends.
Latch(v) ==
  /\ mem' = IF pin["address"] = DataPort THEN [mem EXCEPT ![ptr] = v] ELSE mem
  /\ ptr' = IF pin["address"] = DataPort THEN Following(ptr) ELSE v
  /\ age' = 0 /\ done' = (asked.op # "init")
  /\ UNCHANGED <<out, value>>

\* It fetches a word for a read strobe that has lasted long enough.
Fetch ==
  /\ out' = IF pin["address"] = DataPort THEN mem[ptr] ELSE ptr
  /\ ptr' = IF pin["address"] = DataPort THEN Following(ptr) ELSE ptr
  /\ age' = ACCESS /\ done' = TRUE /\ value' = out'
  /\ UNCHANGED mem

React(v, next) ==
  IF pin["reset"] = 0 THEN ptr' = 0 /\ age' = 0 /\ done' = TRUE /\ UNCHANGED <<mem, out, value>>
  ELSE IF Strobe("w") THEN
       IF next["w"] = 1 \/ next["cs"] = 1 THEN Latch(v) ELSE UNCHANGED <<chip, done, value>>
  ELSE IF Strobe("r") /\ age = ACCESS - 1 THEN Fetch
  ELSE /\ age' = IF ~Strobe("r") THEN 0 ELSE IF age < ACCESS THEN age + 1 ELSE age
       /\ UNCHANGED <<mem, ptr, out, done, value>>

\* The interface's and the load port's registers, and the button.
Clock ==
  /\ Reset' \in BOOLEAN
  /\ disturbed' = (disturbed \/ (Reset /\ asked # None))
  /\ pin' = [p \in Pins |-> IF Reset THEN IF p = "address" THEN 0 ELSE 1 ELSE port[p]]
  /\ buffer' = IF Reset THEN 0 ELSE port["data"]
  /\ readdata' = data_in
  /\ since' = IF since < GAP THEN since + 1 ELSE since
  /\ \E v \in OnWires :
       /\ data_in' = IF Reset THEN 0 ELSE v
       /\ held' = v
       /\ floating' = IF InterfaceDrives \/ ControllerDrives THEN 0
                      ELSE IF floating < KEEP THEN floating + 1 ELSE floating
       /\ React(v, pin')
  /\ UNCHANGED <<port, made, temp, asked>>

\* It runs the transfers in its memory.
Work ==
  /\ \E a, d \in Word : mem' = [mem EXCEPT ![a] = d]
  /\ UNCHANGED <<processor, Reset, interface, wires, ptr, age, out, record>>

BNext ==
  \/ \E address \in {DataPort, AddressPort} :
       Begin(Call("read", address, 0)) \/ \E d \in Word : Begin(Call("write", address, d))
  \/ Access \/ Return \/ Clock \/ Work

BSpec == BInit /\ [][BNext]_bvars
-----------------------------------------------------------------------------
\* Every variable has its type.
TypeOK ==
  /\ port \in [Pins \cup {"data"} -> Word \cup {AddressPort}] /\ port["data"] \in Word
  /\ pin \in [Pins -> Word \cup {AddressPort}]
  /\ since \in 0..GAP /\ floating \in 0..KEEP /\ age \in 0..ACCESS
  /\ {temp, buffer, data_in, readdata, held, ptr, out, value} \subseteq Word
  /\ mem \in [Word -> Word]
  /\ {Reset, done, disturbed} \subseteq BOOLEAN
  /\ asked.op \in {"none", "init", "write", "read"}

\* Once IO_init is over, interface and controller never drive the wires against
\* each other, whatever calls follow and whenever the button is pressed: the
\* read strobe has left the pins before the program's port drives the wires,
\* though it passes a register that the drive does not (hpi_io_intf.sv 33, 43).
OneDriver == asked.op # "init" => ~(InterfaceDrives /\ ControllerDrives)

\* While a strobe is at the controller neither the address nor the word to be
\* written changes: set-up and hold are kept in whole clocks on both sides.
StableStrobe == [][
  \A s \in {"r", "w"} : (Strobe(s) /\ Strobe(s)') =>
     pin'["address"] = pin["address"] /\ (s = "w" => buffer' = buffer)]_bvars

Promised == INSTANCE HpiAccess

\* Every call reaches the controller exactly once with its own address and data,
\* and a read returns the word that was fetched for it, not what an earlier call
\* left in one of the three registers on the way (io_handler.c 20-62).
CallsReach == Promised!Spec
=============================================================================
