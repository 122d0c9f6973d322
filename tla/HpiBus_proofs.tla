---------------------------- MODULE HpiBus_proofs ----------------------------
(***************************************************************************)
(* For every number of words, every access time and every pace of the      *)
(* processor that HpiBus allows: the two sides never drive the wires       *)
(* against each other, nothing changes under a strobe, and every call of   *)
(* the program reaches the controller exactly once.                        *)
(***************************************************************************)
EXTENDS HpiBus, TLAPS

Ports == Pins \cup {"data"}

Before(k, s) == made < k \/ (made = k /\ since < s)
Since(k, s) == made > k \/ (made = k /\ since >= s)

Typed ==
  /\ port \in [Ports -> Word \cup {AddressPort}]
  /\ pin \in [Pins -> Word \cup {AddressPort}]
  /\ port["data"] \in Word
  /\ made \in Nat /\ since \in 0..GAP /\ floating \in 0..KEEP /\ age \in 0..ACCESS
  /\ temp \in Word /\ buffer \in Word /\ data_in \in Word /\ readdata \in Word
  /\ held \in Word /\ ptr \in Word /\ out \in Word /\ value \in Word
  /\ mem \in [Word -> Word]
  /\ Reset \in BOOLEAN /\ done \in BOOLEAN /\ disturbed \in BOOLEAN
  /\ asked \in [op : {"none", "init", "write", "read"},
                address : {DataPort, AddressPort}, data : Word]

Released == port["reset"] = 1 /\ pin["reset"] = 1

InitPorts ==
  /\ made \in 0..10
  /\ port["reset"] = IF made \in {0, 8} THEN 0 ELSE 1
  /\ port["cs"] = IF made \in {0, 1, 7, 8, 9} THEN 0 ELSE 1
  /\ port["r"] = IF made < 3 THEN 0 ELSE 1
  /\ port["w"] = IF made < 4 THEN 0 ELSE 1
  /\ port["address"] = 0 /\ port["data"] = 0

InitPins ==
  /\ pin["address"] = 0 /\ buffer = 0 /\ age = 0
  /\ pin["r"] = 0 => pin["w"] = 0
  /\ Since(3, 1) => pin["r"] = 1
  /\ Since(4, 1) => pin["w"] = 1
  /\ Since(9, 1) => pin["reset"] = 1

InitDone ==
  ~disturbed =>
    /\ made = 8 /\ since >= 1 => pin["reset"] = 0
    /\ Since(8, 2) => done
    /\ done => ptr = 0

Initialising == asked.op = "init" => InitPorts /\ InitPins /\ InitDone

Resting ==
  asked.op = "none" =>
    /\ asked = None /\ made = 0 /\ ~done /\ ~disturbed
    /\ port["cs"] = 1 /\ port["r"] = 1 /\ port["w"] = 1 /\ Released
    /\ pin["r"] = 1 /\ pin["w"] = 1 /\ age = 0

WritePorts ==
  /\ made \in 0..7
  /\ port["w"] = IF made = 5 THEN 0 ELSE 1
  /\ port["cs"] = IF made \in 4..6 THEN 0 ELSE 1
  /\ port["r"] = 1
  /\ made >= 2 => port["address"] = asked.address
  /\ made >= 3 => port["data"] = asked.data

WritePins ==
  /\ Released /\ pin["r"] = 1 /\ age = 0
  /\ pin["w"] \in Bit
  /\ pin["w"] = 0 => /\ Since(5, 1) /\ Before(6, 1)
                     /\ pin["address"] = asked.address /\ buffer = asked.data

WriteDone ==
  ~disturbed =>
    /\ done <=> Since(6, 1)
    /\ Since(3, 1) => pin["address"] = asked.address /\ buffer = asked.data
    /\ Since(4, 1) /\ Before(7, 0) => pin["cs"] = 0
    /\ Since(5, 1) /\ Before(6, 1) => pin["w"] = 0 /\ held = asked.data /\ floating = 0

Writing == asked.op = "write" => WritePorts /\ WritePins /\ WriteDone

ReadPorts ==
  /\ made \in 0..7
  /\ port["r"] = IF made \in {4, 5} THEN 0 ELSE 1
  /\ port["cs"] = IF made \in 3..6 THEN 0 ELSE 1
  /\ port["w"] = 1
  /\ made >= 2 => port["address"] = asked.address

ReadPins ==
  /\ Released /\ pin["w"] = 1
  /\ pin["r"] \in Bit
  /\ pin["r"] = 0 => Since(4, 1) /\ Before(6, 1) /\ pin["address"] = asked.address
  /\ age > 0 => Since(4, 2) /\ Before(6, 2)

ReadDone ==
  ~disturbed =>
    /\ Since(2, 1) => pin["address"] = asked.address
    /\ Since(3, 1) /\ Before(6, 1) => pin["cs"] = 0
    /\ Since(4, 1) /\ Before(6, 1) => pin["r"] = 0
    /\ made = 4 /\ since \in 1..ACCESS => age = since - 1
    /\ Since(4, ACCESS + 1) /\ Before(6, 1) => age = ACCESS /\ out = value
    /\ done <=> Since(4, ACCESS + 1)
    /\ made = 4 /\ since >= ACCESS + 2 => data_in = value
    /\ made = 4 /\ since >= ACCESS + 3 => readdata = value
    /\ made >= 5 => temp = value

Reading == asked.op = "read" => ReadPorts /\ ReadPins /\ ReadDone

IInv == Typed /\ Initialising /\ Resting /\ Writing /\ Reading

-----------------------------------------------------------------------------
\* What each access of a call does to the ports.
Stored(p, v) ==
  /\ port'[p] = v /\ \A q \in Ports \ {p} : port'[q] = port[q]
  /\ port' \in [Ports -> Word \cup {AddressPort}] /\ port'["data"] \in Word
  /\ temp' = temp

LEMMA InitAccess ==
  ASSUME Typed, asked.op = "init", made \in 0..10, Access
  PROVE  /\ port'["reset"] = IF made = 0 THEN 1 ELSE IF made = 7 THEN 0 ELSE IF made = 8 THEN 1 ELSE port["reset"]
         /\ port'["cs"] = IF made = 1 THEN 1 ELSE IF made = 6 THEN 0 ELSE IF made = 9 THEN 1 ELSE port["cs"]
         /\ port'["r"] = IF made = 2 THEN 1 ELSE port["r"]
         /\ port'["w"] = IF made = 3 THEN 1 ELSE port["w"]
         /\ port'["address"] = IF made = 4 THEN 0 ELSE port["address"]
         /\ port'["data"] = IF made = 5 THEN 0 ELSE port["data"]
         /\ temp' = temp
         /\ port' \in [Ports -> Word \cup {AddressPort}] /\ port'["data"] \in Word
         /\ made # 10
<1> DEFINE S == IO_init
<1>1. Accesses(asked) = S
  BY DEF Accesses
<1>2. made < Len(S)
  BY <1>1 DEF Access
<1>3. made # 10
  BY <1>2 DEF IO_init
<1>4. ASSUME NEW p \in Ports, NEW v \in Word \cup {AddressPort}, S[made + 1] = Store(p, v), p = "data" => v \in Word
      PROVE  Stored(p, v)
  <2>1. Store(p, v) # Load
    BY DEF Store, Load, Ports, Pins
  <2>2. port' = [port EXCEPT ![p] = v] /\ temp' = temp
    BY <1>1, <1>4, <2>1 DEF Access, Store
  <2> QED
    BY <1>4, <2>2 DEF Stored, Typed
<1>5. CASE made = 0
  <2>1. S[made + 1] = Store("reset", 1)
    BY <1>5 DEF IO_init
  <2>2. Stored("reset", 1)
    BY <1>4, <2>1, BusAssumption DEF Ports, Pins, Word, Typed
  <2> QED
    BY <1>5, <2>2 DEF Stored, Ports, Pins
<1>6. CASE made = 1
  <2>1. S[made + 1] = Store("cs", 1)
    BY <1>6 DEF IO_init
  <2>2. Stored("cs", 1)
    BY <1>4, <2>1, BusAssumption DEF Ports, Pins, Word, Typed
  <2> QED
    BY <1>6, <2>2 DEF Stored, Ports, Pins
<1>7. CASE made = 2
  <2>1. S[made + 1] = Store("r", 1)
    BY <1>7 DEF IO_init
  <2>2. Stored("r", 1)
    BY <1>4, <2>1, BusAssumption DEF Ports, Pins, Word, Typed
  <2> QED
    BY <1>7, <2>2 DEF Stored, Ports, Pins
<1>8. CASE made = 3
  <2>1. S[made + 1] = Store("w", 1)
    BY <1>8 DEF IO_init
  <2>2. Stored("w", 1)
    BY <1>4, <2>1, BusAssumption DEF Ports, Pins, Word, Typed
  <2> QED
    BY <1>8, <2>2 DEF Stored, Ports, Pins
<1>9. CASE made = 4
  <2>1. S[made + 1] = Store("address", 0)
    BY <1>9 DEF IO_init
  <2>2. Stored("address", 0)
    BY <1>4, <2>1, BusAssumption DEF Ports, Pins, Word, Typed
  <2> QED
    BY <1>9, <2>2 DEF Stored, Ports, Pins
<1>10. CASE made = 5
  <2>1. S[made + 1] = Store("data", 0)
    BY <1>10 DEF IO_init
  <2>2. Stored("data", 0)
    BY <1>4, <2>1, BusAssumption DEF Ports, Pins, Word, Typed
  <2> QED
    BY <1>10, <2>2 DEF Stored, Ports, Pins
<1>11. CASE made = 6
  <2>1. S[made + 1] = Store("cs", 0)
    BY <1>11 DEF IO_init
  <2>2. Stored("cs", 0)
    BY <1>4, <2>1, BusAssumption DEF Ports, Pins, Word, Typed
  <2> QED
    BY <1>11, <2>2 DEF Stored, Ports, Pins
<1>12. CASE made = 7
  <2>1. S[made + 1] = Store("reset", 0)
    BY <1>12 DEF IO_init
  <2>2. Stored("reset", 0)
    BY <1>4, <2>1, BusAssumption DEF Ports, Pins, Word, Typed
  <2> QED
    BY <1>12, <2>2 DEF Stored, Ports, Pins
<1>13. CASE made = 8
  <2>1. S[made + 1] = Store("reset", 1)
    BY <1>13 DEF IO_init
  <2>2. Stored("reset", 1)
    BY <1>4, <2>1, BusAssumption DEF Ports, Pins, Word, Typed
  <2> QED
    BY <1>13, <2>2 DEF Stored, Ports, Pins
<1>14. CASE made = 9
  <2>1. S[made + 1] = Store("cs", 1)
    BY <1>14 DEF IO_init
  <2>2. Stored("cs", 1)
    BY <1>4, <2>1, BusAssumption DEF Ports, Pins, Word, Typed
  <2> QED
    BY <1>14, <2>2 DEF Stored, Ports, Pins
<1> QED
  BY <1>3, <1>5, <1>6, <1>7, <1>8, <1>9, <1>10, <1>11, <1>12, <1>13, <1>14

LEMMA WriteAccess ==
  ASSUME Typed, asked.op = "write", made \in 0..7, Access
  PROVE  /\ port'["reset"] = port["reset"]
         /\ port'["cs"] = IF made = 3 THEN 0 ELSE IF made = 6 THEN 1 ELSE port["cs"]
         /\ port'["r"] = IF made = 0 THEN 1 ELSE port["r"]
         /\ port'["w"] = IF made = 4 THEN 0 ELSE IF made = 5 THEN 1 ELSE port["w"]
         /\ port'["address"] = IF made = 1 THEN asked.address ELSE port["address"]
         /\ port'["data"] = IF made = 2 THEN asked.data ELSE port["data"]
         /\ temp' = temp
         /\ port' \in [Ports -> Word \cup {AddressPort}] /\ port'["data"] \in Word
         /\ made # 7
<1> DEFINE S == IO_write(asked.address, asked.data)
<1>1. Accesses(asked) = S
  BY DEF Accesses
<1>2. made < Len(S)
  BY <1>1 DEF Access
<1>3. made # 7
  BY <1>2 DEF IO_write
<1>4. ASSUME NEW p \in Ports, NEW v \in Word \cup {AddressPort}, S[made + 1] = Store(p, v), p = "data" => v \in Word
      PROVE  Stored(p, v)
  <2>1. Store(p, v) # Load
    BY DEF Store, Load, Ports, Pins
  <2>2. port' = [port EXCEPT ![p] = v] /\ temp' = temp
    BY <1>1, <1>4, <2>1 DEF Access, Store
  <2> QED
    BY <1>4, <2>2 DEF Stored, Typed
<1>5. CASE made = 0
  <2>1. S[made + 1] = Store("r", 1)
    BY <1>5 DEF IO_write
  <2>2. Stored("r", 1)
    BY <1>4, <2>1, BusAssumption DEF Ports, Pins, Word, Typed
  <2> QED
    BY <1>5, <2>2 DEF Stored, Ports, Pins
<1>6. CASE made = 1
  <2>1. S[made + 1] = Store("address", asked.address)
    BY <1>6 DEF IO_write
  <2>2. asked.address \in Word \cup {AddressPort}
    BY BusAssumption DEF Typed, Word, DataPort
  <2>3. Stored("address", asked.address)
    BY <1>4, <2>1, <2>2 DEF Ports, Pins
  <2> QED
    BY <1>6, <2>3 DEF Stored, Ports, Pins
<1>7. CASE made = 2
  <2>1. S[made + 1] = Store("data", asked.data)
    BY <1>7 DEF IO_write
  <2>2. Stored("data", asked.data)
    BY <1>4, <2>1, BusAssumption DEF Ports, Pins, Word, Typed
  <2> QED
    BY <1>7, <2>2 DEF Stored, Ports, Pins
<1>8. CASE made = 3
  <2>1. S[made + 1] = Store("cs", 0)
    BY <1>8 DEF IO_write
  <2>2. Stored("cs", 0)
    BY <1>4, <2>1, BusAssumption DEF Ports, Pins, Word, Typed
  <2> QED
    BY <1>8, <2>2 DEF Stored, Ports, Pins
<1>9. CASE made = 4
  <2>1. S[made + 1] = Store("w", 0)
    BY <1>9 DEF IO_write
  <2>2. Stored("w", 0)
    BY <1>4, <2>1, BusAssumption DEF Ports, Pins, Word, Typed
  <2> QED
    BY <1>9, <2>2 DEF Stored, Ports, Pins
<1>10. CASE made = 5
  <2>1. S[made + 1] = Store("w", 1)
    BY <1>10 DEF IO_write
  <2>2. Stored("w", 1)
    BY <1>4, <2>1, BusAssumption DEF Ports, Pins, Word, Typed
  <2> QED
    BY <1>10, <2>2 DEF Stored, Ports, Pins
<1>11. CASE made = 6
  <2>1. S[made + 1] = Store("cs", 1)
    BY <1>11 DEF IO_write
  <2>2. Stored("cs", 1)
    BY <1>4, <2>1, BusAssumption DEF Ports, Pins, Word, Typed
  <2> QED
    BY <1>11, <2>2 DEF Stored, Ports, Pins
<1> QED
  BY <1>3, <1>5, <1>6, <1>7, <1>8, <1>9, <1>10, <1>11

LEMMA ReadAccess ==
  ASSUME Typed, asked.op = "read", made \in 0..7, Access
  PROVE  /\ port'["reset"] = port["reset"]
         /\ port'["cs"] = IF made = 2 THEN 0 ELSE IF made = 6 THEN 1 ELSE port["cs"]
         /\ port'["r"] = IF made = 3 THEN 0 ELSE IF made = 5 THEN 1 ELSE port["r"]
         /\ port'["w"] = IF made = 0 THEN 1 ELSE port["w"]
         /\ port'["address"] = IF made = 1 THEN asked.address ELSE port["address"]
         /\ port'["data"] = port["data"]
         /\ temp' = IF made = 4 THEN readdata ELSE temp
         /\ port' \in [Ports -> Word \cup {AddressPort}] /\ port'["data"] \in Word
         /\ made # 7
<1> DEFINE S == IO_read(asked.address)
<1>1. Accesses(asked) = S
  BY DEF Accesses
<1>2. made < Len(S)
  BY <1>1 DEF Access
<1>3. made # 7
  BY <1>2 DEF IO_read
<1>4. ASSUME NEW p \in Ports, NEW v \in Word \cup {AddressPort}, S[made + 1] = Store(p, v), p = "data" => v \in Word
      PROVE  Stored(p, v)
  <2>1. Store(p, v) # Load
    BY DEF Store, Load, Ports, Pins
  <2>2. port' = [port EXCEPT ![p] = v] /\ temp' = temp
    BY <1>1, <1>4, <2>1 DEF Access, Store
  <2> QED
    BY <1>4, <2>2 DEF Stored, Typed
<1>5. S[made + 1] = Load => temp' = readdata /\ port' = port
  BY <1>1 DEF Access
<1>6. CASE made = 0
  <2>1. S[made + 1] = Store("w", 1)
    BY <1>6 DEF IO_read
  <2>2. Stored("w", 1)
    BY <1>4, <2>1, BusAssumption DEF Ports, Pins, Word, Typed
  <2> QED
    BY <1>6, <2>2 DEF Stored, Ports, Pins
<1>7. CASE made = 1
  <2>1. S[made + 1] = Store("address", asked.address)
    BY <1>7 DEF IO_read
  <2>2. asked.address \in Word \cup {AddressPort}
    BY BusAssumption DEF Typed, Word, DataPort
  <2>3. Stored("address", asked.address)
    BY <1>4, <2>1, <2>2 DEF Ports, Pins
  <2> QED
    BY <1>7, <2>3 DEF Stored, Ports, Pins
<1>8. CASE made = 2
  <2>1. S[made + 1] = Store("cs", 0)
    BY <1>8 DEF IO_read
  <2>2. Stored("cs", 0)
    BY <1>4, <2>1, BusAssumption DEF Ports, Pins, Word, Typed
  <2> QED
    BY <1>8, <2>2 DEF Stored, Ports, Pins
<1>9. CASE made = 3
  <2>1. S[made + 1] = Store("r", 0)
    BY <1>9 DEF IO_read
  <2>2. Stored("r", 0)
    BY <1>4, <2>1, BusAssumption DEF Ports, Pins, Word, Typed
  <2> QED
    BY <1>9, <2>2 DEF Stored, Ports, Pins
<1>10. CASE made = 4
  <2>1. S[made + 1] = Load
    BY <1>10 DEF IO_read
  <2> QED
    BY <1>5, <1>10, <2>1 DEF Typed
<1>11. CASE made = 5
  <2>1. S[made + 1] = Store("r", 1)
    BY <1>11 DEF IO_read
  <2>2. Stored("r", 1)
    BY <1>4, <2>1, BusAssumption DEF Ports, Pins, Word, Typed
  <2> QED
    BY <1>11, <2>2 DEF Stored, Ports, Pins
<1>12. CASE made = 6
  <2>1. S[made + 1] = Store("cs", 1)
    BY <1>12 DEF IO_read
  <2>2. Stored("cs", 1)
    BY <1>4, <2>1, BusAssumption DEF Ports, Pins, Word, Typed
  <2> QED
    BY <1>12, <2>2 DEF Stored, Ports, Pins
<1> QED
  BY <1>3, <1>6, <1>7, <1>8, <1>9, <1>10, <1>11, <1>12

-----------------------------------------------------------------------------
Calls == [op : {"write", "read"}, address : {DataPort, AddressPort}, data : Word]

LEMMA InitIInv == BInit => IInv
<1> SUFFICES ASSUME BInit PROVE IInv
  OBVIOUS
<1>1. 0 \in Word /\ 1 \in Word
  BY BusAssumption DEF Word
<1>2. Typed
  <2>1. port \in [Ports -> Word \cup {AddressPort}] /\ port["data"] \in Word
    BY <1>1 DEF BInit, Ports, Pins
  <2>2. pin \in [Pins -> Word \cup {AddressPort}]
    BY <1>1 DEF BInit
  <2>3. asked \in [op : {"none", "init", "write", "read"}, address : {DataPort, AddressPort}, data : Word]
    BY <1>1 DEF BInit, Call
  <2>4. made \in Nat /\ since \in 0..GAP /\ floating \in 0..KEEP /\ age \in 0..ACCESS
    BY BusAssumption DEF BInit
  <2>5. /\ temp \in Word /\ buffer \in Word /\ data_in \in Word /\ readdata \in Word
        /\ held \in Word /\ ptr \in Word /\ out \in Word /\ value \in Word
        /\ mem \in [Word -> Word] /\ Reset \in BOOLEAN /\ done \in BOOLEAN /\ disturbed \in BOOLEAN
    BY <1>1 DEF BInit
  <2> QED
    BY <2>1, <2>2, <2>3, <2>4, <2>5 DEF Typed
<1>3. Initialising
  <2>1. InitPorts
    BY DEF InitPorts, Pins, BInit
  <2>2. InitPins
    BY DEF InitPins, Pins, Since, BInit
  <2>3. InitDone
    BY DEF InitDone, Since, BInit
  <2> QED
    BY <2>1, <2>2, <2>3 DEF Initialising
<1>4. Resting /\ Writing /\ Reading
  BY DEF Resting, Writing, Reading, Call, BInit
<1> QED
  BY <1>2, <1>3, <1>4 DEF IInv

-----------------------------------------------------------------------------
LEMMA BeginStep ==
  ASSUME IInv, NEW c \in Calls, Begin(c)
  PROVE  IInv'
<1>1. asked.op = "none" /\ Typed /\ Resting
  BY DEF IInv, Begin, None, Call
<1>2. asked' = c /\ c.op \in {"write", "read"} /\ made' = 0 /\ done' = FALSE /\ disturbed' = FALSE
  BY DEF Begin, Calls
<1>3. UNCHANGED <<port, since, temp, Reset, pin, buffer, data_in, readdata, held, floating,
                  mem, ptr, age, out, value>>
  BY DEF Begin, interface, wires, chip
<1>4. asked' \in [op : {"none", "init", "write", "read"}, address : {DataPort, AddressPort}, data : Word]
  BY <1>2 DEF Calls
<1>5. Typed'
  BY <1>1, <1>2, <1>3, <1>4 DEF Typed, Word
<1>6. Initialising' /\ Resting'
  BY <1>2 DEF Initialising, Resting
<1>7. /\ made = 0 /\ port["cs"] = 1 /\ port["r"] = 1 /\ port["w"] = 1 /\ Released
      /\ pin["r"] = 1 /\ pin["w"] = 1 /\ age = 0
  BY <1>1 DEF Resting
<1>8. Writing'
  BY <1>2, <1>3, <1>7 DEF Writing, WritePorts, WritePins, WriteDone, Released, Bit, Since, Before
<1>9. Reading'
  BY <1>2, <1>3, <1>7 DEF Reading, ReadPorts, ReadPins, ReadDone, Released, Bit, Since, Before
<1> QED
  BY <1>5, <1>6, <1>8, <1>9 DEF IInv

LEMMA AccessTyped ==
  ASSUME Typed, Access, temp' \in Word, port' \in [Ports -> Word \cup {AddressPort}], port'["data"] \in Word
  PROVE  Typed'
<1>1. since' = 0 /\ made' = made + 1
  BY DEF Access
<1>2. UNCHANGED <<Reset, pin, buffer, data_in, readdata, held, floating,
                  mem, ptr, age, out, asked, done, disturbed, value>>
  BY DEF Access, interface, wires, chip, record
<1> QED
  BY <1>1, <1>2, BusAssumption DEF Typed, Word

LEMMA AccessStep ==
  ASSUME IInv, Access
  PROVE  IInv'
<1>1. /\ since = GAP /\ since' = 0 /\ made' = made + 1
      /\ UNCHANGED <<Reset, pin, buffer, data_in, readdata, held, floating,
                     mem, ptr, age, out, asked, done, disturbed, value>>
  BY DEF Access, interface, wires, chip, record
<1>2. GAP \in Nat /\ GAP >= ACCESS + 3 /\ ACCESS \in Nat /\ ACCESS >= 1
  BY BusAssumption
<1>t. Typed
  BY DEF IInv
<1>3. CASE asked.op = "init"
  <2>1. InitPorts /\ InitPins /\ InitDone
    BY <1>3 DEF IInv, Initialising
  <2>2. made \in 0..10
    BY <2>1 DEF InitPorts
  <2>3. InitPorts'
    BY <1>1, <1>3, <1>t, <2>1, <2>2, InitAccess DEF InitPorts
  <2>4. InitPins'
    BY <1>1, <1>2, <2>1, <2>2 DEF InitPins, Since
  <2>5. InitDone'
    BY <1>1, <1>2, <2>1, <2>2 DEF InitDone, Since
  <2>6. Typed'
    BY <1>3, <1>t, <2>2, InitAccess, AccessTyped DEF Typed
  <2> QED
    BY <1>1, <1>3, <2>3, <2>4, <2>5, <2>6 DEF IInv, Initialising, Resting, Writing, Reading
<1>4. CASE asked.op = "write"
  <2>1. WritePorts /\ WritePins /\ WriteDone
    BY <1>4 DEF IInv, Writing
  <2>2. made \in 0..7
    BY <2>1 DEF WritePorts
  <2>3. WritePorts'
    BY <1>1, <1>4, <1>t, <2>1, <2>2, WriteAccess DEF WritePorts
  <2>4. Released'
    BY <1>1, <1>4, <1>t, <2>1, <2>2, WriteAccess DEF WritePins, Released
  <2>5. WritePins'
    BY <1>1, <1>2, <2>1, <2>2, <2>4 DEF WritePins, Since, Before, Bit
  <2>6. WriteDone'
    BY <1>1, <1>2, <2>1, <2>2 DEF WriteDone, Since, Before
  <2>7. Typed'
    BY <1>4, <1>t, <2>2, WriteAccess, AccessTyped DEF Typed
  <2> QED
    BY <1>1, <1>4, <2>3, <2>5, <2>6, <2>7 DEF IInv, Initialising, Resting, Writing, Reading
<1>5. CASE asked.op = "read"
  <2>1. ReadPorts /\ ReadPins /\ ReadDone
    BY <1>5 DEF IInv, Reading
  <2>2. made \in 0..7
    BY <2>1 DEF ReadPorts
  <2>3. ReadPorts'
    BY <1>1, <1>5, <1>t, <2>1, <2>2, ReadAccess DEF ReadPorts
  <2>4. Released' /\ temp' = IF made = 4 THEN readdata ELSE temp
    BY <1>1, <1>5, <1>t, <2>1, <2>2, ReadAccess DEF ReadPins, Released
  <2>5. ReadPins'
    BY <1>1, <1>2, <1>t, <2>1, <2>2, <2>4 DEF ReadPins, Since, Before, Bit, Typed
  <2>6. ReadDone'
    BY <1>1, <1>2, <1>t, <2>1, <2>2, <2>4 DEF ReadDone, Since, Before, Typed
  <2>7. Typed'
    BY <1>5, <1>t, <2>2, <2>4, ReadAccess, AccessTyped DEF Typed
  <2> QED
    BY <1>1, <1>5, <2>3, <2>5, <2>6, <2>7 DEF IInv, Initialising, Resting, Writing, Reading
<1>6. CASE asked.op = "none"
  <2>1. made = 0 /\ Accesses(asked) = <<>>
    BY <1>6 DEF IInv, Resting, Accesses
  <2> QED
    BY <2>1 DEF Access
<1> QED
  BY <1>3, <1>4, <1>5, <1>6, <1>t DEF Typed

LEMMA ReturnStep ==
  ASSUME IInv, Return
  PROVE  IInv'
<1>1. /\ asked # None /\ asked' = None /\ made' = 0 /\ done' = FALSE /\ disturbed' = FALSE
      /\ value' \in {temp, value}
      /\ UNCHANGED <<port, since, temp, Reset, pin, buffer, data_in, readdata, held, floating,
                     mem, ptr, age, out>>
  BY DEF Return, interface, wires, chip
<1>t. Typed
  BY DEF IInv
<1>2. Typed'
  <2>1. None \in [op : {"none", "init", "write", "read"}, address : {DataPort, AddressPort}, data : Word]
    BY BusAssumption DEF None, Call, Word
  <2> QED
    BY <1>1, <1>t, <2>1 DEF Typed, Word
<1>3. Initialising' /\ Writing' /\ Reading'
  BY <1>1 DEF Initialising, Writing, Reading, None, Call
<1>4. /\ port["cs"] = 1 /\ port["r"] = 1 /\ port["w"] = 1 /\ Released
      /\ pin["r"] = 1 /\ pin["w"] = 1 /\ age = 0
  <2>1. CASE asked.op = "init"
    <3>1. Accesses(asked) = IO_init
      BY <2>1 DEF Accesses
    <3>2. made = 10
      BY <3>1 DEF Return, IO_init
    <3> QED
      BY <1>t, <2>1, <3>2 DEF IInv, Initialising, InitPorts, InitPins, Since, Released
  <2>2. CASE asked.op = "write"
    <3>1. Accesses(asked) = IO_write(asked.address, asked.data)
      BY <2>2 DEF Accesses
    <3>2. made = 7
      BY <3>1 DEF Return, IO_write
    <3> QED
      BY <1>t, <2>2, <3>2 DEF IInv, Writing, WritePorts, WritePins, Since, Before, Bit
  <2>3. CASE asked.op = "read"
    <3>1. Accesses(asked) = IO_read(asked.address)
      BY <2>3 DEF Accesses
    <3>2. made = 7
      BY <3>1 DEF Return, IO_read
    <3> QED
      BY <1>t, <2>3, <3>2 DEF IInv, Reading, ReadPorts, ReadPins, Since, Before, Bit, Typed
  <2>4. CASE asked.op = "none"
    BY <1>1, <2>4 DEF IInv, Resting
  <2> QED
    BY <1>t, <2>1, <2>2, <2>3, <2>4 DEF Typed
<1>5. Resting'
  BY <1>1, <1>4 DEF Resting, Released
<1> QED
  BY <1>2, <1>3, <1>5 DEF IInv

-----------------------------------------------------------------------------
LEMMA WorkStep ==
  ASSUME IInv, Work
  PROVE  IInv'
<1>1. UNCHANGED <<port, made, since, temp, Reset, pin, buffer, data_in, readdata, held, floating,
                  ptr, age, out, asked, done, disturbed, value>>
  BY DEF Work, processor, interface, wires, record
<1>2. mem' \in [Word -> Word]
  BY DEF IInv, Typed, Work
<1>3. Typed'
  BY <1>1, <1>2 DEF IInv, Typed, Word
<1>4. Initialising'
  BY <1>1 DEF IInv, Initialising, InitPorts, InitPins, InitDone, Since
<1>5. Resting'
  BY <1>1 DEF IInv, Resting, Released
<1>6. Writing'
  BY <1>1 DEF IInv, Writing, WritePorts, WritePins, WriteDone, Released, Since, Before, Bit
<1>7. Reading'
  BY <1>1 DEF IInv, Reading, ReadPorts, ReadPins, ReadDone, Released, Since, Before, Bit
<1> QED
  BY <1>3, <1>4, <1>5, <1>6, <1>7 DEF IInv

-----------------------------------------------------------------------------
\* A clock edge, with the word v on the wires before it.
Edge(v) ==
  /\ UNCHANGED <<port, made, temp, asked>>
  /\ Reset' \in BOOLEAN /\ disturbed' = (disturbed \/ (Reset /\ asked # None))
  /\ since' = IF since < GAP THEN since + 1 ELSE since
  /\ pin' \in [Pins -> Word \cup {AddressPort}]
  /\ pin'["address"] = IF Reset THEN 0 ELSE port["address"]
  /\ pin'["cs"] = IF Reset THEN 1 ELSE port["cs"]
  /\ pin'["r"] = IF Reset THEN 1 ELSE port["r"]
  /\ pin'["w"] = IF Reset THEN 1 ELSE port["w"]
  /\ pin'["reset"] = IF Reset THEN 1 ELSE port["reset"]
  /\ buffer' = IF Reset THEN 0 ELSE port["data"]
  /\ readdata' = data_in
  /\ v \in Word /\ v \in OnWires
  /\ data_in' = IF Reset THEN 0 ELSE v
  /\ held' = v
  /\ floating' = IF InterfaceDrives \/ ControllerDrives THEN 0
                 ELSE IF floating < KEEP THEN floating + 1 ELSE floating
  /\ React(v, pin')

LEMMA ClockEdge ==
  ASSUME Typed, Clock
  PROVE  \E v : Edge(v)
<1>1. PICK v \in OnWires :
        /\ data_in' = IF Reset THEN 0 ELSE v
        /\ held' = v
        /\ floating' = IF InterfaceDrives \/ ControllerDrives THEN 0
                       ELSE IF floating < KEEP THEN floating + 1 ELSE floating
        /\ React(v, pin')
  BY DEF Clock
<1>2. v \in Word
  BY <1>1 DEF OnWires, Typed
<1>3. pin' = [p \in Pins |-> IF Reset THEN IF p = "address" THEN 0 ELSE 1 ELSE port[p]]
  BY DEF Clock
<1>4. 0 \in Word /\ 1 \in Word
  BY BusAssumption DEF Word
<1>5. pin' \in [Pins -> Word \cup {AddressPort}]
  BY <1>3, <1>4 DEF Typed, Ports
<1>6. /\ pin'["address"] = IF Reset THEN 0 ELSE port["address"]
      /\ pin'["cs"] = IF Reset THEN 1 ELSE port["cs"]
      /\ pin'["r"] = IF Reset THEN 1 ELSE port["r"]
      /\ pin'["w"] = IF Reset THEN 1 ELSE port["w"]
      /\ pin'["reset"] = IF Reset THEN 1 ELSE port["reset"]
  BY <1>3 DEF Pins
<1>7. /\ UNCHANGED <<port, made, temp, asked>>
      /\ Reset' \in BOOLEAN /\ disturbed' = (disturbed \/ (Reset /\ asked # None))
      /\ since' = IF since < GAP THEN since + 1 ELSE since
      /\ buffer' = IF Reset THEN 0 ELSE port["data"]
      /\ readdata' = data_in
  BY DEF Clock
<1> QED
  BY <1>1, <1>2, <1>5, <1>6, <1>7 DEF Edge

LEMMA ReactTyped ==
  ASSUME Typed, NEW v \in Word, NEW next, React(v, next)
  PROVE  /\ mem' \in [Word -> Word] /\ ptr' \in Word /\ age' \in 0..ACCESS
         /\ out' \in Word /\ value' \in Word /\ done' \in BOOLEAN
<1>1. N \in Nat /\ N > 1 /\ ACCESS \in Nat /\ ACCESS >= 1 /\ 0 \in Word
  BY BusAssumption DEF Word
<1>2. Following(ptr) \in Word
  BY <1>1 DEF Following, Typed, Word
<1>3. CASE pin["reset"] = 0
  BY <1>1, <1>3 DEF React, Typed
<1>4. CASE pin["reset"] # 0 /\ Strobe("w") /\ (next["w"] = 1 \/ next["cs"] = 1)
  <2>1. Latch(v)
    BY <1>4 DEF React
  <2>2. mem' \in [Word -> Word] /\ out' \in Word /\ value' \in Word
    BY <2>1 DEF Latch, Typed
  <2>3. ptr' \in Word /\ age' \in 0..ACCESS
    BY <1>1, <1>2, <2>1 DEF Latch
  <2>4. done' \in BOOLEAN
    BY <2>1 DEF Latch
  <2> QED
    BY <2>2, <2>3, <2>4
<1>5. CASE pin["reset"] # 0 /\ Strobe("w") /\ ~(next["w"] = 1 \/ next["cs"] = 1)
  BY <1>1, <1>5 DEF React, Typed, chip
<1>6. CASE pin["reset"] # 0 /\ ~Strobe("w") /\ Strobe("r") /\ age = ACCESS - 1
  BY <1>1, <1>2, <1>6 DEF React, Fetch, Typed
<1>7. CASE pin["reset"] # 0 /\ ~Strobe("w") /\ ~(Strobe("r") /\ age = ACCESS - 1)
  BY <1>1, <1>7 DEF React, Typed
<1> QED
  BY <1>3, <1>4, <1>5, <1>6, <1>7

LEMMA EdgeTyped ==
  ASSUME Typed, NEW v, Edge(v)
  PROVE  Typed'
<1>1. /\ mem' \in [Word -> Word] /\ ptr' \in Word /\ age' \in 0..ACCESS
      /\ out' \in Word /\ value' \in Word /\ done' \in BOOLEAN
  BY ReactTyped DEF Edge
<1>2. 0 \in Word
  BY BusAssumption DEF Word
<1>3. buffer' \in Word /\ data_in' \in Word /\ readdata' \in Word /\ held' \in Word
  BY <1>2 DEF Edge, Typed
<1>4. since' \in 0..GAP /\ floating' \in 0..KEEP
  BY BusAssumption DEF Edge, Typed
<1>5. Reset' \in BOOLEAN /\ disturbed' \in BOOLEAN
  BY DEF Edge, Typed
<1> QED
  BY <1>1, <1>3, <1>4, <1>5 DEF Edge, Typed, Word

LEMMA EdgeInit ==
  ASSUME IInv, NEW v, Edge(v), asked.op = "init"
  PROVE  Initialising'
<1>1. Typed /\ InitPorts /\ InitPins /\ InitDone /\ asked # None
  BY DEF IInv, Initialising, None, Call
<1>2. GAP \in Nat /\ GAP >= 4 /\ ACCESS \in Nat /\ ACCESS >= 1
  BY BusAssumption
<1>3. InitPorts'
  BY <1>1 DEF Edge, InitPorts
<1>4. age' = 0 /\ ((done' /\ ptr' = 0) \/ ~done' \/ (done' = done /\ ptr' = ptr))
  <2>1. CASE pin["reset"] = 0
    BY <2>1 DEF Edge, React
  <2>2. CASE pin["reset"] # 0 /\ Strobe("w")
    BY <1>1, <2>2 DEF Edge, React, Latch, InitPins, chip
  <2>3. CASE pin["reset"] # 0 /\ ~Strobe("w")
    <3>1. ~Strobe("r")
      BY <1>1, <2>3 DEF Strobe, InitPins
    <3> QED
      BY <2>3, <3>1 DEF Edge, React
  <2> QED
    BY <2>1, <2>2, <2>3
<1>5. InitPins'
  BY <1>1, <1>2, <1>4 DEF Edge, InitPins, InitPorts, Since, Typed
<1>6. InitDone'
  <2> SUFFICES ASSUME ~disturbed' PROVE InitDone'
    BY DEF InitDone
  <2>1. ~disturbed /\ ~Reset
    BY <1>1 DEF Edge
  <2>2. made = 8 /\ since' >= 1 => pin'["reset"] = 0
    BY <1>1, <2>1 DEF Edge, InitPorts
  <2>3. done' => ptr' = 0
    BY <1>1, <1>4, <2>1 DEF InitDone
  <2>4. ASSUME made > 8 \/ (made = 8 /\ since' >= 2)
        PROVE  done'
    <3>1. pin["w"] = 1
      BY <1>1, <1>2, <2>4 DEF InitPins, Since, InitPorts
    <3>2. ~Strobe("w") /\ ~Strobe("r")
      BY <1>1, <3>1 DEF Strobe, InitPins
    <3>3. made = 8 => since >= 1
      BY <1>1, <1>2, <2>4 DEF Edge, Typed
    <3>4. pin["reset"] = 0 \/ done
      BY <1>1, <1>2, <2>1, <2>4, <3>3 DEF InitDone, Since, InitPorts
    <3> QED
      BY <3>2, <3>4 DEF Edge, React
  <2> QED
    BY <2>2, <2>3, <2>4 DEF InitDone, Since, Edge
<1> QED
  BY <1>3, <1>5, <1>6 DEF Initialising

LEMMA EdgeRest ==
  ASSUME IInv, NEW v, Edge(v), asked.op = "none"
  PROVE  Resting' /\ mem' = mem /\ ptr' = ptr /\ value' = value
<1>1. /\ asked = None /\ made = 0 /\ ~done /\ ~disturbed
      /\ port["cs"] = 1 /\ port["r"] = 1 /\ port["w"] = 1 /\ Released
      /\ pin["r"] = 1 /\ pin["w"] = 1 /\ age = 0
  BY DEF IInv, Resting
<1>2. ACCESS \in Nat /\ ACCESS >= 1
  BY BusAssumption
<1>3. ~Strobe("w") /\ ~Strobe("r") /\ pin["reset"] = 1
  BY <1>1 DEF Strobe, Released
<1>4. age' = 0 /\ done' = done /\ mem' = mem /\ ptr' = ptr /\ value' = value
  BY <1>3 DEF Edge, React
<1>5. disturbed' = FALSE
  BY <1>1 DEF Edge
<1> QED
  BY <1>1, <1>4, <1>5 DEF Resting, Released, Edge

\* What an edge does to the controller in a write: nothing but take the word.
TakesWord(v) ==
  /\ Strobe("w") /\ (pin'["w"] = 1 \/ pin'["cs"] = 1)
  /\ Latch(v)

LEMMA WriteReact ==
  ASSUME IInv, NEW v, Edge(v), asked.op = "write"
  PROVE  /\ age' = 0 /\ value' = value
         /\ \/ TakesWord(v) /\ done' = TRUE
            \/ /\ ~(Strobe("w") /\ (pin'["w"] = 1 \/ pin'["cs"] = 1))
               /\ UNCHANGED <<mem, ptr, done>>
<1>1. WritePins /\ pin["reset"] = 1 /\ ~Strobe("r")
  BY DEF IInv, Writing, WritePins, Released, Strobe
<1>2. CASE Strobe("w") /\ (pin'["w"] = 1 \/ pin'["cs"] = 1)
  <2>1. Latch(v)
    BY <1>1, <1>2 DEF Edge, React
  <2>2. age' = 0 /\ value' = value /\ done' = TRUE
    BY <2>1 DEF Latch
  <2> QED
    BY <1>2, <2>1, <2>2 DEF TakesWord
<1>3. CASE Strobe("w") /\ ~(pin'["w"] = 1 \/ pin'["cs"] = 1)
  BY <1>1, <1>3 DEF Edge, React, WritePins, chip
<1>4. CASE ~Strobe("w")
  BY <1>1, <1>4 DEF Edge, React
<1> QED
  BY <1>2, <1>3, <1>4

LEMMA EdgeWrite ==
  ASSUME IInv, NEW v, Edge(v), asked.op = "write"
  PROVE  Writing'
<1>1. Typed /\ WritePorts /\ WritePins /\ WriteDone /\ asked # None
  BY DEF IInv, Writing, None, Call
<1>2. GAP \in Nat /\ GAP >= 4 /\ KEEP \in Nat /\ KEEP >= 1 /\ made \in 0..7 /\ since \in 0..GAP
  BY <1>1, BusAssumption DEF Typed, WritePorts
<1>3. WritePorts'
  BY <1>1 DEF Edge, WritePorts
<1>4. WritePins'
  <2>1. Released' /\ pin'["r"] = 1 /\ age' = 0 /\ pin'["w"] \in Bit
    BY <1>1, WriteReact DEF Edge, WritePins, WritePorts, Released, Bit
  <2>2. ASSUME pin'["w"] = 0
        PROVE  Since(5, 1)' /\ Before(6, 1)' /\ pin'["address"] = asked.address /\ buffer' = asked.data
    <3>1. made = 5 /\ ~Reset
      BY <1>1, <1>2, <2>2 DEF Edge, WritePorts
    <3> QED
      BY <1>1, <1>2, <3>1 DEF Edge, WritePorts, Since, Before
  <2> QED
    BY <2>1, <2>2 DEF WritePins, Edge
<1>5. WriteDone'
  <2> SUFFICES ASSUME ~disturbed' PROVE WriteDone'
    BY DEF WriteDone
  <2>1. ~disturbed /\ ~Reset
    BY <1>1 DEF Edge
  <2>2. Since(3, 1)' => pin'["address"] = asked.address /\ buffer' = asked.data
    BY <1>1, <1>2, <2>1 DEF Edge, WritePorts, Since
  <2>3. Since(4, 1)' /\ Before(7, 0)' => pin'["cs"] = 0
    BY <1>1, <1>2, <2>1 DEF Edge, WritePorts, Since, Before
  <2>4. ASSUME Since(5, 1)', Before(6, 1)'
        PROVE  pin'["w"] = 0 /\ held' = asked.data /\ floating' = 0
    <3>1. made = 5
      BY <1>2, <2>4 DEF Edge, Since, Before
    <3>2. port["w"] = 0 /\ ~ControllerDrives /\ buffer = asked.data
      BY <1>1, <2>1, <3>1 DEF WritePorts, WritePins, WriteDone, ControllerDrives, Strobe, Since
    <3> QED
      BY <2>1, <3>2 DEF Edge, OnWires, InterfaceDrives
  <2>5. done' <=> Since(6, 1)'
    <3>1. CASE made = 6 /\ since = 0
      <4>1. pin["w"] = 0 /\ pin["cs"] = 0 /\ pin["reset"] = 1 /\ pin'["w"] = 1
        BY <1>1, <2>1, <3>1 DEF Edge, WriteDone, WritePins, WritePorts, Released, Since, Before
      <4>2. done' = TRUE
        BY <4>1, WriteReact DEF Strobe, Edge
      <4> QED
        BY <1>2, <3>1, <4>2 DEF Edge, Since
    <3>2. CASE ~(made = 6 /\ since = 0)
      <4>1. ~(Strobe("w") /\ (pin'["w"] = 1 \/ pin'["cs"] = 1))
        BY <1>1, <1>2, <2>1, <3>2 DEF Edge, WritePins, WritePorts, Since, Before, Strobe
      <4>2. done' = done
        BY <4>1, WriteReact DEF TakesWord
      <4>3. Since(6, 1)' <=> Since(6, 1)
        BY <1>2, <3>2 DEF Edge, Since
      <4> QED
        BY <1>1, <2>1, <4>2, <4>3 DEF WriteDone
    <3> QED
      BY <3>1, <3>2
  <2> QED
    BY <2>2, <2>3, <2>4, <2>5 DEF WriteDone, Edge
<1> QED
  BY <1>3, <1>4, <1>5 DEF Writing
\* What an edge does to the controller in a read: count, and fetch once.
LEMMA ReadReact ==
  ASSUME IInv, NEW v, Edge(v), asked.op = "read"
  PROVE  /\ Strobe("r") /\ age = ACCESS - 1 => Fetch
         /\ ~(Strobe("r") /\ age = ACCESS - 1) =>
              /\ age' = IF ~Strobe("r") THEN 0 ELSE IF age < ACCESS THEN age + 1 ELSE age
              /\ UNCHANGED <<mem, ptr, out, done, value>>
<1>1. pin["reset"] = 1 /\ ~Strobe("w")
  BY DEF IInv, Reading, ReadPins, Released, Strobe
<1> QED
  BY <1>1 DEF Edge, React

LEMMA EdgeRead ==
  ASSUME IInv, NEW v, Edge(v), asked.op = "read"
  PROVE  Reading'
<1>1. Typed /\ ReadPorts /\ ReadPins /\ ReadDone /\ asked # None
  BY DEF IInv, Reading, None, Call
<1>2. /\ ACCESS \in Nat /\ ACCESS >= 1 /\ GAP \in Nat /\ GAP >= ACCESS + 3
      /\ made \in 0..7 /\ since \in 0..GAP /\ age \in 0..ACCESS /\ done \in BOOLEAN
  BY <1>1, BusAssumption DEF Typed, ReadPorts
<1>3. ReadPorts'
  BY <1>1 DEF Edge, ReadPorts
<1>4. age' > 0 => Strobe("r")
  <2>1. CASE Strobe("r") /\ age = ACCESS - 1
    BY <2>1
  <2>2. CASE ~(Strobe("r") /\ age = ACCESS - 1)
    BY <2>2, ReadReact
  <2> QED
    BY <2>1, <2>2
<1>5. asked' = asked /\ made' = made /\ since' = IF since < GAP THEN since + 1 ELSE since
  BY DEF Edge
<1>6. ReadPins'
  <2>1. Released' /\ pin'["w"] = 1 /\ pin'["r"] \in Bit
    BY <1>1 DEF Edge, ReadPins, ReadPorts, Released, Bit
  <2>2. ASSUME pin'["r"] = 0
        PROVE  Since(4, 1)' /\ Before(6, 1)' /\ pin'["address"] = asked.address
    <3>1. made \in {4, 5} /\ ~Reset
      BY <1>1, <1>2, <2>2 DEF Edge, ReadPorts
    <3> QED
      BY <1>1, <1>2, <1>5, <3>1 DEF Edge, ReadPorts, Since, Before
  <2>3. ASSUME age' > 0
        PROVE  Since(4, 2)' /\ Before(6, 2)'
    <3>1. Since(4, 1) /\ Before(6, 1)
      BY <1>1, <1>4, <2>3 DEF ReadPins, Strobe
    <3> QED
      BY <1>2, <1>5, <3>1 DEF Since, Before
  <2> QED
    BY <2>1, <2>2, <2>3 DEF ReadPins, Edge
<1>7. ReadDone'
  <2> SUFFICES ASSUME ~disturbed' PROVE ReadDone'
    BY DEF ReadDone
  <2>1. ~disturbed /\ ~Reset
    BY <1>1 DEF Edge
  <2>2. Since(2, 1)' => pin'["address"] = asked.address
    BY <1>1, <1>2, <1>5, <2>1 DEF Edge, ReadPorts, Since
  <2>3. Since(3, 1)' /\ Before(6, 1)' => pin'["cs"] = 0
    BY <1>1, <1>2, <1>5, <2>1 DEF Edge, ReadPorts, Since, Before
  <2>4. Since(4, 1)' /\ Before(6, 1)' => pin'["r"] = 0
    BY <1>1, <1>2, <1>5, <2>1 DEF Edge, ReadPorts, Since, Before
  <2>5. Strobe("r") <=> Since(4, 1) /\ Before(6, 1)
    BY <1>1, <1>2, <2>1 DEF ReadDone, ReadPins, Released, Strobe, Since, Before
  <2>6. Strobe("r") /\ age = ACCESS - 1 <=> made = 4 /\ since = ACCESS
    BY <1>1, <1>2, <2>1, <2>5 DEF ReadDone, Since, Before
  <2>7. CASE made = 4 /\ since = ACCESS
    <3>1. age' = ACCESS /\ done' = TRUE /\ out' = value'
      BY <2>6, <2>7, ReadReact DEF Fetch
    <3>2. since' = ACCESS + 1 /\ made' = 4
      BY <1>2, <1>5, <2>7
    <3> QED
      BY <1>2, <1>5, <2>2, <2>3, <2>4, <3>1, <3>2 DEF ReadDone, Since, Before
  <2>8. CASE ~(made = 4 /\ since = ACCESS)
    <3>1. /\ age' = IF ~Strobe("r") THEN 0 ELSE IF age < ACCESS THEN age + 1 ELSE age
          /\ out' = out /\ done' = done /\ value' = value
      BY <2>6, <2>8, ReadReact
    <3>2. made' = 4 /\ since' \in 1..ACCESS => age' = since' - 1
      BY <1>1, <1>2, <1>5, <2>1, <2>5, <2>8, <3>1 DEF ReadDone, ReadPins, Since, Before
    <3>3. Since(4, ACCESS + 1)' /\ Before(6, 1)' => age' = ACCESS /\ out' = value'
      BY <1>1, <1>2, <1>5, <2>1, <2>5, <2>8, <3>1 DEF ReadDone, Since, Before
    <3>4. done' <=> Since(4, ACCESS + 1)'
      BY <1>1, <1>2, <1>5, <2>1, <2>8, <3>1 DEF ReadDone, Since
    <3>5. ASSUME made' = 4, since' >= ACCESS + 2
          PROVE  data_in' = value'
      <4>1. made = 4 /\ since >= ACCESS + 1 /\ age = ACCESS /\ out = value
        BY <1>1, <1>2, <1>5, <2>1, <3>5 DEF ReadDone, Since, Before
      <4>2. ControllerDrives /\ ~InterfaceDrives
        BY <1>1, <1>2, <2>5, <4>1 DEF ControllerDrives, InterfaceDrives, ReadPorts, Since, Before
      <4> QED
        BY <2>1, <3>1, <4>1, <4>2 DEF Edge, OnWires
    <3>6. made' = 4 /\ since' >= ACCESS + 3 => readdata' = value'
      BY <1>1, <1>2, <1>5, <2>1, <3>1 DEF Edge, ReadDone
    <3>7. made' >= 5 => temp' = value'
      BY <1>1, <2>1, <3>1 DEF Edge, ReadDone
    <3> QED
      BY <1>5, <2>2, <2>3, <2>4, <3>2, <3>3, <3>4, <3>5, <3>6, <3>7 DEF ReadDone
  <2> QED
    BY <2>7, <2>8
<1> QED
  BY <1>3, <1>6, <1>7 DEF Reading

LEMMA EdgeStep ==
  ASSUME IInv, NEW v, Edge(v)
  PROVE  IInv'
<1>1. Typed' /\ asked' = asked
  BY EdgeTyped DEF IInv, Edge
<1>2. Initialising'
  BY <1>1, EdgeInit DEF Initialising
<1>3. Resting'
  BY <1>1, EdgeRest DEF Resting
<1>4. Writing'
  BY <1>1, EdgeWrite DEF Writing
<1>5. Reading'
  BY <1>1, EdgeRead DEF Reading
<1> QED
  BY <1>1, <1>2, <1>3, <1>4, <1>5 DEF IInv

-----------------------------------------------------------------------------
Beginning ==
  \E address \in {DataPort, AddressPort} :
     Begin(Call("read", address, 0)) \/ \E d \in Word : Begin(Call("write", address, d))

LEMMA BeginsCall ==
  ASSUME Beginning
  PROVE  \E c \in Calls : Begin(c)
<1>1. 0 \in Word
  BY BusAssumption DEF Word
<1> QED
  BY <1>1 DEF Beginning, Calls, Call

\* The invariant of the two sides of the bus, call after call.
THEOREM Inductive == BSpec => []IInv
<1>1. BInit => IInv
  BY InitIInv
<1>2. IInv /\ [BNext]_bvars => IInv'
  <2> SUFFICES ASSUME IInv, [BNext]_bvars PROVE IInv'
    OBVIOUS
  <2>1. CASE Beginning
    BY <2>1, BeginsCall, BeginStep
  <2>2. CASE Access
    BY <2>2, AccessStep
  <2>3. CASE Return
    BY <2>3, ReturnStep
  <2>4. CASE Clock
    BY <2>4, ClockEdge, EdgeStep DEF IInv
  <2>5. CASE Work
    BY <2>5, WorkStep
  <2>6. CASE UNCHANGED bvars
    <3>1. UNCHANGED <<port, made, since, temp, Reset, pin, buffer, data_in, readdata, held, floating,
                      mem, ptr, age, out, asked, done, disturbed, value>>
      BY <2>6 DEF bvars, processor, interface, wires, chip, record
    <3>2. Typed'
      BY <3>1 DEF IInv, Typed
    <3>3. Initialising'
      BY <3>1 DEF IInv, Initialising, InitPorts, InitPins, InitDone, Since
    <3>4. Resting'
      BY <3>1 DEF IInv, Resting, Released
    <3>5. Writing'
      BY <3>1 DEF IInv, Writing, WritePorts, WritePins, WriteDone, Released, Since, Before
    <3>6. Reading'
      BY <3>1 DEF IInv, Reading, ReadPorts, ReadPins, ReadDone, Released, Since, Before
    <3> QED
      BY <3>2, <3>3, <3>4, <3>5, <3>6 DEF IInv
  <2> QED
    BY <2>1, <2>2, <2>3, <2>4, <2>5, <2>6 DEF BNext, Beginning
<1> QED
  BY <1>1, <1>2, PTL DEF BSpec

-----------------------------------------------------------------------------
\* Every variable keeps its type.
THEOREM TypeCorrect == BSpec => []TypeOK
<1>1. IInv => TypeOK
  BY DEF IInv, Typed, TypeOK, Ports
<1> QED
  BY <1>1, Inductive, PTL

\* For every number of words, access time and pace of the processor, the
\* interface and the controller never drive the wires against each other once
\* IO_init is over.
THEOREM NeverBothDrive == BSpec => []OneDriver
<1>1. IInv => OneDriver
  <2> SUFFICES ASSUME IInv, asked.op # "init" PROVE ~(InterfaceDrives /\ ControllerDrives)
    BY DEF OneDriver
  <2>1. CASE asked.op = "none"
    BY <2>1 DEF IInv, Resting, InterfaceDrives
  <2>2. CASE asked.op = "write"
    BY <2>2 DEF IInv, Writing, WritePins, ControllerDrives, Strobe
  <2>3. CASE asked.op = "read"
    BY <2>3 DEF IInv, Reading, ReadPorts, InterfaceDrives
  <2> QED
    BY <2>1, <2>2, <2>3 DEF IInv, Typed
<1> QED
  BY <1>1, Inductive, PTL

-----------------------------------------------------------------------------
\* What a strobe that is at the controller carries.
Carried(address, data) ==
  /\ \A s \in {"r", "w"} : Strobe(s) => pin["address"] = address
  /\ Strobe("w") => buffer = data

LEMMA StrobeCarries ==
  ASSUME IInv
  PROVE  Carried(asked.address, asked.data) \/ (asked.op = "init" /\ Carried(0, 0))
<1>1. CASE asked.op = "init"
  BY <1>1 DEF IInv, Initialising, InitPins, Carried
<1>2. CASE asked.op = "none"
  BY <1>2 DEF IInv, Resting, Strobe, Carried
<1>3. CASE asked.op = "write"
  BY <1>3 DEF IInv, Writing, WritePins, Strobe, Carried
<1>4. CASE asked.op = "read"
  BY <1>4 DEF IInv, Reading, ReadPins, Strobe, Carried
<1> QED
  BY <1>1, <1>2, <1>3, <1>4 DEF IInv, Typed

Stable ==
  \A s \in {"r", "w"} : (Strobe(s) /\ Strobe(s)') =>
     pin'["address"] = pin["address"] /\ (s = "w" => buffer' = buffer)

LEMMA StableStep ==
  ASSUME IInv, IInv', [BNext]_bvars
  PROVE  [Stable]_bvars
<1>1. CASE Clock
  <2>1. asked' = asked
    BY <1>1 DEF Clock
  <2>2. CASE asked.op = "init"
    BY <2>1, <2>2 DEF IInv, Initialising, InitPins, Stable
  <2>3. CASE asked.op # "init"
    <3>1. Carried(asked.address, asked.data)
      BY <2>3, StrobeCarries
    <3>2. /\ \A s \in {"r", "w"} : Strobe(s)' => pin'["address"] = asked.address
          /\ Strobe("w")' => buffer' = asked.data
      <4>1. CASE asked.op = "none"
        BY <2>1, <4>1 DEF IInv, Resting, Strobe
      <4>2. CASE asked.op = "write"
        BY <2>1, <4>2 DEF IInv, Writing, WritePins, Strobe
      <4>3. CASE asked.op = "read"
        BY <2>1, <4>3 DEF IInv, Reading, ReadPins, Strobe
      <4> QED
        BY <2>3, <4>1, <4>2, <4>3 DEF IInv, Typed
    <3> QED
      BY <3>1, <3>2 DEF Carried, Stable
  <2> QED
    BY <2>2, <2>3
<1>2. CASE Beginning \/ Access \/ Return \/ Work
  <2>1. pin' = pin /\ buffer' = buffer
    BY <1>2 DEF Beginning, Begin, Access, Return, Work, interface
  <2> QED
    BY <2>1 DEF Stable
<1> QED
  BY <1>1, <1>2 DEF BNext, Beginning

\* Address and data do not change under a strobe.
THEOREM StrobesAreStable == BSpec => StableStrobe
<1>1. IInv /\ IInv' /\ [BNext]_bvars => [Stable]_bvars
  BY StableStep
<1> QED
  BY <1>1, Inductive, PTL DEF BSpec, StableStrobe, Stable

-----------------------------------------------------------------------------
(* HpiBus implements HpiAccess. *)

LEMMA CallInit == BInit => Promised!Init
<1> SUFFICES ASSUME BInit PROVE Promised!Init
  OBVIOUS
<1> QED
  BY DEF BInit, Promised!Init, Promised!Word, Word, Call, Promised!DataPort, DataPort

LEMMA CallBegin ==
  ASSUME IInv, NEW c \in Calls, Begin(c)
  PROVE  Promised!Start
<1>1. c \in Promised!Call /\ asked = Promised!None
  BY DEF Calls, Promised!Call, Promised!DataPort, DataPort, Promised!AddressPort, AddressPort,
         Promised!Word, Word, Begin, None, Call, Promised!None
<1>2. asked' = c /\ done' = FALSE /\ disturbed' = FALSE /\ UNCHANGED <<mem, ptr, value>>
  BY DEF Begin, chip
<1> QED
  BY <1>1, <1>2 DEF Promised!Start

LEMMA CallReturn ==
  ASSUME IInv, Return
  PROVE  Promised!Return
<1>1. asked # Promised!None
  BY DEF Return, None, Call, Promised!None, DataPort, Promised!DataPort
<1>2. /\ asked' = Promised!None /\ done' = FALSE /\ disturbed' = FALSE
      /\ UNCHANGED <<mem, ptr>> /\ value' = IF asked.op = "read" THEN temp ELSE value
  BY DEF Return, chip, None, Call, Promised!None, DataPort, Promised!DataPort
<1>3. Typed /\ made = Len(Accesses(asked)) /\ asked # None
  BY DEF IInv, Return
<1>4. ~disturbed => done /\ (asked.op = "read" => temp = value)
  <2>1. CASE asked.op = "init"
    <3>1. Accesses(asked) = IO_init
      BY <2>1 DEF Accesses
    <3>2. made = 10
      BY <1>3, <3>1 DEF IO_init
    <3> QED
      BY <2>1, <3>2 DEF IInv, Initialising, InitDone, Since
  <2>2. CASE asked.op = "write"
    <3>1. Accesses(asked) = IO_write(asked.address, asked.data)
      BY <2>2 DEF Accesses
    <3>2. made = 7
      BY <1>3, <3>1 DEF IO_write
    <3> QED
      BY <2>2, <3>2 DEF IInv, Writing, WriteDone, Since
  <2>3. CASE asked.op = "read"
    <3>1. Accesses(asked) = IO_read(asked.address)
      BY <2>3 DEF Accesses
    <3>2. made = 7
      BY <1>3, <3>1 DEF IO_read
    <3> QED
      BY <2>3, <3>2 DEF IInv, Reading, ReadDone, Since
  <2>4. CASE asked.op = "none"
    BY <1>3, <2>4 DEF IInv, Resting
  <2> QED
    BY <1>3, <2>1, <2>2, <2>3, <2>4 DEF Typed
<1>5. value' \in IF disturbed THEN Promised!Word ELSE {value}
  BY <1>2, <1>3, <1>4 DEF Typed, Promised!Word, Word
<1>6. disturbed \/ done
  BY <1>4
<1> QED
  BY <1>1, <1>2, <1>5, <1>6 DEF Promised!Return

LEMMA EdgeInInit ==
  ASSUME IInv, NEW v, Edge(v), asked.op = "init"
  PROVE  Promised!Settle
<1>1. Typed' /\ InitDone' /\ asked' = asked /\ Typed
  BY EdgeStep DEF IInv, Initialising, Edge
<1>2. value' = value
  <2>1. Strobe("r") => Strobe("w")
    BY DEF IInv, Initialising, InitPins, Strobe
  <2>2. CASE pin["reset"] = 0
    BY <2>2 DEF Edge, React
  <2>3. CASE pin["reset"] # 0 /\ Strobe("w")
    BY <2>3 DEF Edge, React, Latch
  <2>4. CASE pin["reset"] # 0 /\ ~Strobe("w")
    BY <2>1, <2>4 DEF Edge, React
  <2> QED
    BY <2>2, <2>3, <2>4
<1>3. disturbed' \in {disturbed, TRUE}
  BY <1>1 DEF Edge, Typed
<1>4. (done' /\ ~disturbed') => ptr' = 0
  BY <1>1 DEF InitDone
<1> QED
  BY <1>1, <1>2, <1>3, <1>4 DEF Promised!Settle, Promised!Word, Typed, Word

LEMMA EdgeInWrite ==
  ASSUME IInv, NEW v, Edge(v), asked.op = "write"
  PROVE  Promised!Reach \/ Promised!Disturb \/ UNCHANGED Promised!vars
<1>1. Typed /\ WritePorts /\ WritePins /\ WriteDone /\ asked # None /\ asked' = asked
  BY DEF IInv, Writing, None, Call, Edge
<1>2. GAP \in Nat /\ KEEP \in Nat /\ KEEP >= 1 /\ made \in 0..7 /\ since \in 0..GAP
  BY <1>1, BusAssumption DEF Typed, WritePorts
<1>3. disturbed' \in {disturbed, TRUE}
  BY <1>1 DEF Edge, Typed
<1>4. CASE TakesWord(v) /\ done' = TRUE
  <2>1. pin["w"] = 0 /\ Since(5, 1) /\ Before(6, 1) /\ pin["address"] = asked.address
    BY <1>1, <1>4 DEF TakesWord, Strobe, WritePins
  <2>2. ASSUME ~disturbed'
        PROVE  v = asked.data /\ ~done
    <3>1. ~disturbed /\ ~Reset
      BY <1>1, <2>2 DEF Edge
    <3>2. port["w"] = 1 \/ port["cs"] = 1
      BY <1>4, <3>1 DEF TakesWord, Edge
    <3>3. made = 6 /\ since = 0
      BY <1>1, <1>2, <2>1, <3>2 DEF WritePorts, Since, Before
    <3>4. held = asked.data /\ floating = 0 /\ ~done
      BY <1>1, <1>2, <3>1, <3>3 DEF WriteDone, Since, Before
    <3>5. ~InterfaceDrives /\ ~ControllerDrives
      BY <1>1, <3>3 DEF InterfaceDrives, ControllerDrives, Strobe, WritePorts, WritePins
    <3>6. v = held
      BY <1>2, <3>4, <3>5 DEF Edge, OnWires
    <3> QED
      BY <3>4, <3>6
  <2>3. Promised!Written(asked.address, v)
    BY <1>4, <2>1 DEF TakesWord, Latch, Promised!Written, DataPort, Promised!DataPort,
                      Following, Promised!Following
  <2>4. v \in Promised!Word
    BY DEF Edge, Promised!Word, Word
  <2>5. \E d \in IF disturbed' THEN Promised!Word ELSE {asked.data} : Promised!Written(asked.address, d)
    BY <2>2, <2>3, <2>4
  <2>6. value' = value /\ (disturbed' \/ ~done)
    BY <2>2, WriteReact
  <2> QED
    BY <1>1, <1>3, <1>4, <2>5, <2>6 DEF Promised!Reach
<1>5. CASE value' = value /\ UNCHANGED <<mem, ptr, done>>
  <2>1. CASE disturbed' = disturbed
    BY <1>1, <1>5, <2>1 DEF Promised!vars
  <2>2. CASE disturbed' = TRUE
    BY <1>1, <1>5, <2>2 DEF Promised!Disturb, Promised!None, None, Call, DataPort, Promised!DataPort
  <2> QED
    BY <1>3, <2>1, <2>2
<1> QED
  BY <1>4, <1>5, WriteReact

LEMMA EdgeInRead ==
  ASSUME IInv, NEW v, Edge(v), asked.op = "read"
  PROVE  Promised!Reach \/ Promised!Disturb \/ UNCHANGED Promised!vars
<1>1. Typed /\ ReadPorts /\ ReadPins /\ ReadDone /\ asked # None /\ asked' = asked
  BY DEF IInv, Reading, None, Call, Edge
<1>2. /\ ACCESS \in Nat /\ ACCESS >= 1 /\ GAP \in Nat /\ GAP >= ACCESS + 3
      /\ made \in 0..7 /\ since \in 0..GAP
  BY <1>1, BusAssumption DEF Typed, ReadPorts
<1>3. disturbed' \in {disturbed, TRUE}
  BY <1>1 DEF Edge, Typed
<1>4. CASE Strobe("r") /\ age = ACCESS - 1
  <2>1. Fetch
    BY <1>4, ReadReact
  <2>2. pin["address"] = asked.address /\ Since(4, 1) /\ Before(6, 1)
    BY <1>1, <1>4 DEF Strobe, ReadPins
  <2>3. Promised!Fetched(asked.address, value')
    BY <2>1, <2>2 DEF Fetch, Promised!Fetched, DataPort, Promised!DataPort,
                      Following, Promised!Following
  <2>4. disturbed' \/ ~done
    <3> SUFFICES ASSUME ~disturbed' PROVE ~done
      OBVIOUS
    <3>1. ~disturbed
      BY <1>1 DEF Edge
    <3> QED
      BY <1>1, <1>2, <1>4, <2>2, <3>1 DEF ReadDone, Since, Before
  <2>5. done' = TRUE
    BY <2>1 DEF Fetch
  <2> QED
    BY <1>1, <1>3, <2>3, <2>4, <2>5 DEF Promised!Reach
<1>5. CASE ~(Strobe("r") /\ age = ACCESS - 1)
  <2>1. UNCHANGED <<mem, ptr, done, value>>
    BY <1>5, ReadReact
  <2>2. CASE disturbed' = disturbed
    BY <1>1, <2>1, <2>2 DEF Promised!vars
  <2>3. CASE disturbed' = TRUE
    BY <1>1, <2>1, <2>3 DEF Promised!Disturb, Promised!None, None, Call, DataPort, Promised!DataPort
  <2> QED
    BY <1>3, <2>2, <2>3
<1> QED
  BY <1>4, <1>5

LEMMA CallStep ==
  ASSUME IInv, [BNext]_bvars
  PROVE  [Promised!Next]_(Promised!vars)
<1>1. CASE Beginning
  BY <1>1, BeginsCall, CallBegin DEF Promised!Next
<1>2. CASE Access
  BY <1>2 DEF Access, chip, record, Promised!vars
<1>3. CASE Return
  BY <1>3, CallReturn DEF Promised!Next
<1>4. CASE Clock
  <2>1. PICK v : Edge(v)
    BY <1>4, ClockEdge DEF IInv
  <2>2. CASE asked.op = "none"
    <3>1. asked = None /\ asked' = asked /\ mem' = mem /\ ptr' = ptr /\ value' = value
          /\ ~done /\ ~disturbed /\ ~done' /\ ~disturbed'
      BY <2>1, <2>2, EdgeRest, EdgeStep DEF IInv, Resting, Edge
    <3>2. done' = done /\ disturbed' = disturbed
      BY <2>1, <3>1, EdgeTyped DEF IInv, Typed
    <3> QED
      BY <3>1, <3>2 DEF Promised!vars
  <2>3. CASE asked.op = "init"
    BY <2>1, <2>3, EdgeInInit DEF Promised!Next
  <2>4. CASE asked.op = "write"
    BY <2>1, <2>4, EdgeInWrite DEF Promised!Next
  <2>5. CASE asked.op = "read"
    BY <2>1, <2>5, EdgeInRead DEF Promised!Next
  <2> QED
    BY <2>2, <2>3, <2>4, <2>5 DEF IInv, Typed
<1>5. CASE Work
  <2>1. /\ \E a, d \in Word : mem' = [mem EXCEPT ![a] = d]
        /\ UNCHANGED <<ptr, asked, done, disturbed, value>>
    BY <1>5 DEF Work, record
  <2>2. Promised!Work
    BY <2>1, Zenon DEF Promised!Work, Promised!Word, Word
  <2> QED
    BY <2>2 DEF Promised!Next
<1>6. CASE UNCHANGED bvars
  BY <1>6 DEF bvars, chip, record, Promised!vars
<1> QED
  BY <1>1, <1>2, <1>3, <1>4, <1>5, <1>6 DEF BNext, Beginning

\* Every call of the program reaches the controller exactly once, with its own
\* address and data, and a read returns the word fetched for it: HpiBus
\* implements HpiAccess.
THEOREM EveryCallReaches == BSpec => CallsReach
<1>1. BInit => Promised!Init
  BY CallInit
<1>2. IInv /\ [BNext]_bvars => [Promised!Next]_(Promised!vars)
  BY CallStep
<1> QED
  BY <1>1, <1>2, Inductive, PTL DEF BSpec, CallsReach, Promised!Spec
=============================================================================
