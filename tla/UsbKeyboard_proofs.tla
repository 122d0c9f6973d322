------------------------- MODULE UsbKeyboard_proofs -------------------------
(***************************************************************************)
(* No request of the set-up is skipped, and no key comes to the port that  *)
(* was not reported, whatever the controller and the keyboard do in        *)
(* between; and the transfer lists are whole.                              *)
(***************************************************************************)
EXTENDS UsbKeyboard, TLAPS

LEMMA NumberOfRequests == Poll = 10
  BY DEF Poll, Requests

\* Where the program works on a request it has sent.
Working == {"check", "resend", "wait", "clear", "result", "retry",
            "retryClear", "retryFlag", "retryCount"}

\* Where it decides whether the request has succeeded.
Judging == {"result", "retry", "retryClear", "retryFlag", "retryCount"}

(***************************************************************************)
(* The list in the controller's memory is the one the program works on,    *)
(* and its control byte says "no retry" only if the keyboard has taken it. *)
(* A poll has no control byte to look at.                                  *)
(***************************************************************************)
Honest ==
  pc \in Working =>
    /\ sent = step
    /\ ctl = "ok" /\ sent # Poll => sent \in answered

AInv ==
  /\ step \in 1 .. Poll
  /\ pc \in Judging => step # Poll
  /\ pc = "endpoint" => step = SetConfig
  /\ Honest

LEMMA InitAInv == Init => AInv
  BY NumberOfRequests DEF Init, AInv, Honest, Working, Judging, SetAddress

LEMMA SetUpAInv ==
  ASSUME AInv, UsbSoftReset \/ InitSIE1 \/ ResetBus \/ Detect \/ Inserted
  PROVE  AInv'
  BY NumberOfRequests DEF AInv, Honest, Working, Judging, SetAddress, SetConfig, Goto,
     UsbSoftReset, InitSIE1, ResetBus, Detect, Inserted, controller, keyboard, history

LEMMA RequestAInv ==
  ASSUME AInv, Send \/ CheckMessage \/ SendAgain \/ ReadDone \/ ClearDone
  PROVE  AInv'
  BY NumberOfRequests DEF AInv, Honest, Working, Judging, SetConfig, Goto, Start, ReadMessage,
     Send, CheckMessage, SendAgain, ReadDone, ClearDone, controller, keyboard, history

LEMMA JudgeAInv ==
  ASSUME AInv,
         Result \/ StartOnDescriptor \/ ReadRetry \/ ClearRetry \/ AwaitRetry \/ ReadRetryCnt
  PROVE  AInv'
  BY NumberOfRequests DEF AInv, Honest, Working, Judging, SetAddress, SetConfig, ConfigDesc2,
     Goto, Advance, ReadMessage, Result, StartOnDescriptor, ReadRetry, ClearRetry,
     AwaitRetry, ReadRetryCnt, controller, keyboard, history

LEMMA PollAInv ==
  ASSUME AInv, Publish \/ StillThere \/ Gone \/ Reinserted
  PROVE  AInv'
  BY NumberOfRequests DEF AInv, Honest, Working, Judging, SetConfig, Goto,
     Publish, StillThere, Gone, Reinserted, controller, keyboard, history

\* The others leave the program alone; the control byte becomes "no retry" in
\* the step in which the keyboard takes the request.
LEMMA OthersAInv ==
  ASSUME AInv, Controller \/ Replug
  PROVE  AInv'
  BY NumberOfRequests DEF AInv, Honest, Working, Judging, SetConfig, Controller, Replug,
     FirstStage, LastStage, Report, GiveUp, EndStray, program, controller, keyboard, history

LEMMA StutterAInv ==
  ASSUME AInv, UNCHANGED vars
  PROVE  AInv'
  BY DEF AInv, Honest, vars, program, controller, history

\* The list being judged is the one that was sent last, through every resend,
\* removal and set-up.
THEOREM AnsweredInductive == Spec => []AInv
<1>1. AInv /\ [Next]_vars => AInv'
  BY SetUpAInv, RequestAInv, JudgeAInv, PollAInv, OthersAInv, StutterAInv
  DEF Next, Program
<1>2. QED BY <1>1, InitAInv, PTL DEF Spec

\* Only the program counts its requests, and only where it has judged one.
LEMMA StepsUp ==
  ASSUME AInv, Next, step' = step + 1
  PROVE  pc \in {"result", "retryCount"} /\ ctl = "ok"
<1>1. step \in Int /\ step # 0
  BY NumberOfRequests DEF AInv
<1>2. ASSUME Program PROVE pc \in {"result", "retryCount"} /\ ctl = "ok"
  BY <1>1, <1>2 DEF Program, UsbSoftReset, InitSIE1, ResetBus, Detect, Inserted, Send,
     CheckMessage, SendAgain, ReadDone, ClearDone, Result, StartOnDescriptor, ReadRetry,
     ClearRetry, AwaitRetry, ReadRetryCnt, Publish, StillThere, Gone, Reinserted,
     Advance, Succeeded, SetAddress
<1>3. ASSUME Controller \/ Replug PROVE FALSE
  BY <1>1, <1>3 DEF Controller, Replug, FirstStage, LastStage, Report, GiveUp, EndStray, program
<1>4. QED BY <1>2, <1>3 DEF Next

\* The program never goes on before the keyboard has taken the current request
\* (main.c:179-461).
THEOREM NothingSkipped == Spec => KeyboardAnswered
<1>1. AInv /\ [Next]_vars => [step' = step + 1 => step \in answered]_vars
  <2>1. ASSUME AInv, Next, step' = step + 1
        PROVE  step \in answered
    <3>1. pc \in {"result", "retryCount"} /\ ctl = "ok"
      BY <2>1, StepsUp
    <3>2. QED BY <2>1, <3>1 DEF AInv, Honest, Working, Judging
  <2>2. QED BY <2>1
<1>2. QED BY <1>1, AnsweredInductive, PTL DEF Spec, KeyboardAnswered

(***************************************************************************)
(* Types.                                                                  *)
(***************************************************************************)

\* The poll leaves the byte at KeyAddress alone; every request overwrites it
\* with the byte of a word.
LEMMA ByteOfList ==
  ASSUME NEW n \in 1 .. Poll, KeyAddress < End(List(n))
  PROVE  At(List(n), KeyAddress) % 256 \in 0 .. 255
<1>1. n # Poll
  BY DEF List, End, PollList, KeyAddress, Base
<1>2. List(n) = Requests[n] /\ n \in 1 .. 9
  BY <1>1, NumberOfRequests DEF List
<1>3. At(List(n), KeyAddress) = Requests[n][16]
  BY <1>2 DEF At, KeyAddress, Base
<1>4. Requests[n][16] \in Int
  <2>1. CASE n = 1 BY <2>1 DEF Requests, UsbSetAddress
  <2>2. CASE n = 2 BY <2>2 DEF Requests, UsbGetDeviceDesc1
  <2>3. CASE n = 3 BY <2>3 DEF Requests, UsbGetDeviceDesc2
  <2>4. CASE n = 4 BY <2>4 DEF Requests, UsbGetConfigDesc1
  <2>5. CASE n = 5 BY <2>5 DEF Requests, UsbGetConfigDesc2
  <2>6. CASE n = 6 BY <2>6 DEF Requests, UsbSetConfig
  <2>7. CASE n = 7 BY <2>7 DEF Requests, UsbClassRequest
  <2>8. CASE n = 8 BY <2>8 DEF Requests, UsbGetHidDesc
  <2>9. CASE n = 9 BY <2>9 DEF Requests, UsbGetReportDesc
  <2>10. QED BY <1>2, <2>1, <2>2, <2>3, <2>4, <2>5, <2>6, <2>7, <2>8, <2>9
<1>5. QED BY <1>3, <1>4

LEMMA StartTypes ==
  ASSUME UTypeOK, Start(step)
  PROVE  sent' \in 1 .. Poll /\ run' = "first" /\ ctl' = "active" /\ memory' \in 0 .. 255
<1>1. step \in 1 .. Poll /\ memory \in 0 .. 255
  BY DEF UTypeOK, ProgramTypes, ControllerTypes
<1>2. QED BY <1>1, ByteOfList DEF Start

(***************************************************************************)
(* Every register, switch and history keeps a value of its type.  The      *)
(* steps that could leave it are the next request, after which a poll      *)
(* comes last (AInv), and the byte a list puts at KeyAddress (ByteOfList). *)
(***************************************************************************)
LEMMA SetUpTypes ==
  ASSUME UTypeOK, AInv,
         UsbSoftReset \/ InitSIE1 \/ ResetBus \/ Detect \/ Inserted
  PROVE  UTypeOK'
<1> USE NumberOfRequests DEF UTypeOK, ProgramTypes, ControllerTypes, Switches,
         KeyboardTypes, Labels, Messages, SetAddress, Goto, UsbSoftReset, InitSIE1, ResetBus,
         Detect, Inserted, controller, keyboard, history
<1>1. ProgramTypes' OBVIOUS
<1>2. ControllerTypes' OBVIOUS
<1>3. Switches' OBVIOUS
<1>4. KeyboardTypes' OBVIOUS
<1>5. QED BY <1>1, <1>2, <1>3, <1>4

LEMMA MessageTypes ==
  ASSUME UTypeOK, AInv,
         CheckMessage \/ ReadDone \/ ClearDone
  PROVE  UTypeOK'
<1> USE NumberOfRequests DEF UTypeOK, ProgramTypes, ControllerTypes, Switches,
         KeyboardTypes, Labels, Messages, Goto, ReadMessage, CheckMessage, ReadDone, ClearDone,
         controller, keyboard, history
<1>1. ProgramTypes' OBVIOUS
<1>2. ControllerTypes' OBVIOUS
<1>3. Switches' OBVIOUS
<1>4. KeyboardTypes' OBVIOUS
<1>5. QED BY <1>1, <1>2, <1>3, <1>4

LEMMA JudgeTypes ==
  ASSUME UTypeOK, AInv,
         Result \/ StartOnDescriptor \/ ReadRetry \/ ClearRetry \/ AwaitRetry \/ ReadRetryCnt
  PROVE  UTypeOK'
<1> USE NumberOfRequests DEF UTypeOK, ProgramTypes, ControllerTypes, Switches,
         KeyboardTypes, Labels, Messages, AInv, Judging, Goto, Advance, ReadMessage, Result,
         StartOnDescriptor, ReadRetry, ClearRetry, AwaitRetry, ReadRetryCnt,
         controller, keyboard, history
<1>1. ProgramTypes' OBVIOUS
<1>2. ControllerTypes' OBVIOUS
<1>3. Switches' OBVIOUS
<1>4. KeyboardTypes' OBVIOUS
<1>5. QED BY <1>1, <1>2, <1>3, <1>4

LEMMA PollTypes ==
  ASSUME UTypeOK, AInv,
         Publish \/ StillThere \/ Gone \/ Reinserted
  PROVE  UTypeOK'
<1> USE NumberOfRequests DEF UTypeOK, ProgramTypes, ControllerTypes, Switches,
         KeyboardTypes, Labels, Messages, Goto, Publish, StillThere, Gone, Reinserted,
         controller, keyboard, history
<1>1. ProgramTypes' OBVIOUS
<1>2. ControllerTypes' OBVIOUS
<1>3. Switches' OBVIOUS
<1>4. KeyboardTypes' OBVIOUS
<1>5. QED BY <1>1, <1>2, <1>3, <1>4

LEMMA EndTypes ==
  ASSUME UTypeOK, AInv,
         LastStage \/ GiveUp \/ EndStray
  PROVE  UTypeOK'
<1> USE NumberOfRequests DEF UTypeOK, ProgramTypes, ControllerTypes, Switches,
         KeyboardTypes, Labels, Messages, PostDone, LastStage, GiveUp, EndStray,
         program, keyboard, history
<1>1. ProgramTypes' OBVIOUS
<1>2. ControllerTypes' OBVIOUS
<1>3. Switches' OBVIOUS
<1>4. KeyboardTypes' OBVIOUS
<1>5. QED BY <1>1, <1>2, <1>3, <1>4

LEMMA FirstStageTypes ==
  ASSUME UTypeOK, FirstStage
  PROVE  UTypeOK'
<1> USE NumberOfRequests DEF UTypeOK, ProgramTypes, ControllerTypes, Switches,
         KeyboardTypes, Messages, FirstStage, program, keyboard
<1>1. ProgramTypes' OBVIOUS
<1>2. ControllerTypes' OBVIOUS
<1>3. Switches' OBVIOUS
<1>4. KeyboardTypes' OBVIOUS
<1>5. QED BY <1>1, <1>2, <1>3, <1>4

LEMMA ReplugTypes ==
  ASSUME UTypeOK, AInv,
         Replug
  PROVE  UTypeOK'
<1> USE NumberOfRequests DEF UTypeOK, ProgramTypes, ControllerTypes, Switches,
         KeyboardTypes, Labels, Messages, Replug, program, history
<1>1. ProgramTypes' OBVIOUS
<1>2. ControllerTypes' OBVIOUS
<1>3. Switches' OBVIOUS
<1>4. KeyboardTypes' OBVIOUS
<1>5. QED BY <1>1, <1>2, <1>3, <1>4

LEMMA StutterTypes ==
  ASSUME UTypeOK, AInv,
         UNCHANGED vars
  PROVE  UTypeOK'
<1> USE NumberOfRequests DEF UTypeOK, ProgramTypes, ControllerTypes, Switches,
         KeyboardTypes, Labels, Messages, vars, program, controller, keyboard, history
<1>1. ProgramTypes' OBVIOUS
<1>2. ControllerTypes' OBVIOUS
<1>3. Switches' OBVIOUS
<1>4. KeyboardTypes' OBVIOUS
<1>5. QED BY <1>1, <1>2, <1>3, <1>4

LEMMA SendTypes ==
  ASSUME UTypeOK, Send \/ SendAgain
  PROVE  UTypeOK'
<1>1. Start(step)
  BY DEF Send, SendAgain
<1> USE <1>1, StartTypes DEF UTypeOK, ProgramTypes, ControllerTypes, Switches,
         KeyboardTypes, Labels, Messages, Goto, Send, SendAgain, keyboard, history
<1>2. ProgramTypes' OBVIOUS
<1>3. ControllerTypes' OBVIOUS
<1>4. Switches' OBVIOUS
<1>5. KeyboardTypes' OBVIOUS
<1>6. QED BY <1>2, <1>3, <1>4, <1>5

LEMMA ReportTypes ==
  ASSUME UTypeOK, NEW byte \in Reports, Report(byte)
  PROVE  UTypeOK'
<1> USE ReportsAssumption DEF UTypeOK, ProgramTypes, ControllerTypes, Switches,
         KeyboardTypes, Messages, PostDone, Report, program, keyboard
<1>1. ProgramTypes' OBVIOUS
<1>2. ControllerTypes' OBVIOUS
<1>3. Switches' OBVIOUS
<1>4. KeyboardTypes' OBVIOUS
<1>5. QED BY <1>1, <1>2, <1>3, <1>4

\* Every register keeps a value of its type (main.c, usb.c).
THEOREM TypeCorrect == Spec => []UTypeOK
<1>1. ASSUME Init PROVE UTypeOK
  <2>1. ProgramTypes /\ ControllerTypes
    BY <1>1, NumberOfRequests
    DEF Init, ProgramTypes, ControllerTypes, Labels, Messages, SetAddress
  <2>2. Switches
    BY <1>1 DEF Init, Switches
  <2>3. KeyboardTypes
    BY <1>1 DEF Init, KeyboardTypes
  <2>4. QED BY <2>1, <2>2, <2>3 DEF UTypeOK
<1>2. ASSUME UTypeOK, AInv, [Next]_vars PROVE UTypeOK'
  <2>1. CASE Program
    BY <1>2, <2>1, SetUpTypes, SendTypes, MessageTypes, JudgeTypes, PollTypes DEF Program
  <2>2. CASE Controller
    BY <1>2, <2>2, FirstStageTypes, EndTypes, ReportTypes DEF Controller
  <2>3. QED BY <1>2, <2>1, <2>2, ReplugTypes, StutterTypes DEF Next
<1>3. QED BY <1>1, <1>2, AnsweredInductive, PTL DEF Spec

(***************************************************************************)
(* The byte at KeyAddress.                                                 *)
(***************************************************************************)

\* Every request puts a byte there that is no key of the game; the poll, which
\* is shorter, leaves what is there.
LEMMA ListsHoldNoKey ==
  ASSUME NEW n \in 1 .. Poll, KeyAddress < End(List(n))
  PROVE  KeyOf(At(List(n), KeyAddress) % 256) = NoKey
<1>1. n # Poll
  BY DEF List, End, PollList, KeyAddress, Base
<1>2. List(n) = Requests[n] /\ n \in 1 .. 9
  BY <1>1, NumberOfRequests DEF List
<1>3. At(List(n), KeyAddress) = Requests[n][16]
  BY <1>2 DEF At, KeyAddress, Base
<1>4. Requests[n][16] = 0 \/ Requests[n][16] = \h520
  <2>1. CASE n = 1 BY <2>1 DEF Requests, UsbSetAddress
  <2>2. CASE n = 2 BY <2>2 DEF Requests, UsbGetDeviceDesc1
  <2>3. CASE n = 3 BY <2>3 DEF Requests, UsbGetDeviceDesc2
  <2>4. CASE n = 4 BY <2>4 DEF Requests, UsbGetConfigDesc1
  <2>5. CASE n = 5 BY <2>5 DEF Requests, UsbGetConfigDesc2
  <2>6. CASE n = 6 BY <2>6 DEF Requests, UsbSetConfig
  <2>7. CASE n = 7 BY <2>7 DEF Requests, UsbClassRequest
  <2>8. CASE n = 8 BY <2>8 DEF Requests, UsbGetHidDesc
  <2>9. CASE n = 9 BY <2>9 DEF Requests, UsbGetReportDesc
  <2>10. QED BY <1>2, <2>1, <2>2, <2>3, <2>4, <2>5, <2>6, <2>7, <2>8, <2>9
<1>5. 0 % 256 = 0 /\ \h520 % 256 = \h20
  OBVIOUS
<1>6. KeyOf(0) = NoKey /\ KeyOf(\h20) = NoKey
  BY DEF KeyOf
<1>7. QED BY <1>3, <1>4, <1>5, <1>6

\* Where a list has been written since the keys reported were forgotten.
Written == Working \cup {"endpoint", "publish", "present"}

(***************************************************************************)
(* Once the first request of a set-up is in the controller's memory, the   *)
(* byte is no key, or one reported since.  Before, and while the program   *)
(* waits for a keyboard to come back, the old key is still there, and the  *)
(* port is not written.                                                    *)
(***************************************************************************)
Exorcised ==
  pc \in Written \/ (pc = "send" /\ step # SetAddress) =>
    KeyOf(memory) = NoKey \/ memory \in reported

LEMMA StartExorcises ==
  ASSUME AInv, Start(step), step = SetAddress \/ KeyOf(memory) = NoKey \/ memory \in reported
  PROVE  KeyOf(memory') = NoKey \/ memory' \in reported
<1>1. step \in 1 .. Poll
  BY DEF AInv
<1>2. CASE KeyAddress < End(List(step))
  BY <1>1, <1>2, ListsHoldNoKey DEF Start
<1>3. CASE ~(KeyAddress < End(List(step)))
  <2>1. step # SetAddress
    <3>1. List(SetAddress) = UsbSetAddress
      BY NumberOfRequests DEF SetAddress, List, Requests
    <3>2. Len(UsbSetAddress) = 16
      BY DEF UsbSetAddress
    <3>3. KeyAddress < End(UsbSetAddress)
      BY <3>2 DEF End, KeyAddress, Base
    <3>4. QED BY <1>3, <3>1, <3>3
  <2>2. memory' = memory
    BY <1>3 DEF Start
  <2>3. QED BY <2>1, <2>2
<1>4. QED BY <1>2, <1>3

LEMMA SetUpExorcised ==
  ASSUME AInv, Exorcised, UsbSoftReset \/ InitSIE1 \/ ResetBus \/ Detect \/ Inserted
  PROVE  Exorcised'
  BY DEF Exorcised, Written, Working, Goto, UsbSoftReset, InitSIE1, ResetBus, Detect, Inserted

LEMMA SendExorcised ==
  ASSUME AInv, Exorcised, Send \/ SendAgain
  PROVE  Exorcised'
<1>1. Start(step) /\ reported' = reported
  BY DEF Send, SendAgain, history
<1>2. step = SetAddress \/ KeyOf(memory) = NoKey \/ memory \in reported
  BY DEF Send, SendAgain, Exorcised, Written, Working
<1>3. QED BY <1>1, <1>2, StartExorcises DEF Exorcised

LEMMA RequestExorcised ==
  ASSUME AInv, Exorcised,
         CheckMessage \/ ReadDone \/ ClearDone \/ Result \/ StartOnDescriptor
         \/ ReadRetry \/ ClearRetry \/ AwaitRetry \/ ReadRetryCnt
  PROVE  Exorcised'
<1>1. UNCHANGED <<memory, reported>>
  BY DEF CheckMessage, ReadDone, ClearDone, Result, StartOnDescriptor, ReadRetry, ClearRetry,
     AwaitRetry, ReadRetryCnt, controller, history
<1>2. pc \in Written
  BY DEF Written, Working, CheckMessage, ReadDone, ClearDone, Result, StartOnDescriptor,
     ReadRetry, ClearRetry, AwaitRetry, ReadRetryCnt
<1>3. QED BY <1>1, <1>2 DEF Exorcised

LEMMA PollExorcised ==
  ASSUME AInv, Exorcised, Publish \/ StillThere \/ Gone \/ Reinserted
  PROVE  Exorcised'
  BY DEF Exorcised, Written, Working, Goto, Publish, StillThere, Gone, Reinserted,
     controller, history

LEMMA OthersExorcised ==
  ASSUME AInv, Exorcised, Controller \/ Replug
  PROVE  Exorcised'
  BY DEF Exorcised, Controller, Replug, FirstStage, LastStage, Report, GiveUp, EndStray,
     program, history

LEMMA ExorcisedStep ==
  ASSUME AInv, Exorcised, [Next]_vars
  PROVE  Exorcised'
<1>1. CASE Next
  BY <1>1, SetUpExorcised, SendExorcised, RequestExorcised, PollExorcised, OthersExorcised
  DEF Next, Program
<1>2. CASE UNCHANGED vars
  BY <1>2 DEF Exorcised, vars, program, controller, history
<1>3. QED BY <1>1, <1>2

\* A key of the game comes to the port only after a keyboard has reported it
\* in this set-up (main.c:518-524).
THEOREM NoGhosts == Spec => NoGhostKey
<1>1. Init => Exorcised
  BY DEF Init, Exorcised, Written, Working
<1>2. AInv /\ Exorcised /\ [Next]_vars =>
        [ KeyOf(keycode') # KeyOf(keycode) /\ KeyOf(keycode') # NoKey
            => keycode' \in reported ]_vars
  <2>1. ASSUME AInv, Exorcised, Next, KeyOf(keycode') # KeyOf(keycode), KeyOf(keycode') # NoKey
        PROVE  keycode' \in reported
    <3>1. pc = "publish" /\ keycode' = memory
      BY <2>1 DEF Next, Program, Controller, Replug, UsbSoftReset, InitSIE1, ResetBus, Detect,
         Inserted, Send, CheckMessage, SendAgain, ReadDone, ClearDone, Result, StartOnDescriptor,
         ReadRetry, ClearRetry, AwaitRetry, ReadRetryCnt, Publish, StillThere, Gone, Reinserted,
         FirstStage, LastStage, Report, GiveUp, EndStray, program
    <3>2. QED BY <2>1, <3>1 DEF Exorcised, Written
  <2>2. QED BY <2>1
<1>3. QED BY <1>1, <1>2, ExorcisedStep, AnsweredInductive, PTL DEF Spec, NoGhostKey

-----------------------------------------------------------------------------
(***************************************************************************)
(* The transfer lists.  A request of n stages (setup, data, status) has    *)
(* 6 * n + 4 words, the eight bytes after the first descriptor included.   *)
(* The two operators say of each word what it must be, or how it must go   *)
(* with the others; d is the address of the device.                        *)
(***************************************************************************)
WordsInOrder(list, n, d) ==
  /\ Len(list) = 6 * n + 4
  /\ list[1] = Base + 12 /\ list[2] = 8 /\ list[3] = 256 * d + \hD0
  /\ list[4] = 1 /\ list[5] = \h13 /\ list[6] = Base + 20
  /\ \A i \in 2 .. n :
       /\ list[6 * i + 1] = 256 * d + (IF i = n /\ n > 2 THEN \h10 ELSE \h90)
       /\ list[6 * i + 2] = IF i = n \/ i % 2 = 0 THEN \h41 ELSE \h01
       /\ list[6 * i + 3] = \h13
       /\ list[6 * i + 4] = IF i = n THEN 0 ELSE Base + 12 * i + 8

Pieces(list, n) ==
  /\ \A i \in 2 .. n - 1 :
       /\ list[6 * i - 1] >= Base + 12 * n + 8
       /\ i > 2 => list[6 * i - 1] = list[6 * i - 7] + list[6 * i - 6]
  /\ list[6 * n] = 0
  /\ n > 2 => list[6 * n - 7] + list[6 * n - 6] <= list[11] + list[10]

\* The word at an address, ...
LEMMA WordAt ==
  ASSUME NEW list, NEW k \in Nat, NEW a, a = Base + 2 * k
  PROVE  At(list, a) = list[k + 1]
<1> DEFINE word == (a - Base) \div 2 + 1
<1>1. word = k + 1
  BY DEF Base
<1>2. At(list, a) = list[word]
  BY DEF At
<1>3. QED
  <2> HIDE DEF word
  <2>1. QED BY <1>1, <1>2

\* ... the words a descriptor is read from, ...
LEMMA Fields ==
  ASSUME NEW list, NEW a
  PROVE  LET t == Descriptor(list, a) IN
         /\ t.at = a
         /\ t.buffer = At(list, a)
         /\ t.length = At(list, a + 2)
         /\ t.device = At(list, a + 4) \div 256
         /\ t.token = (At(list, a + 4) % 256) \div 16
         /\ t.data1 <=> At(list, a + 6) \div 64 = 1
         /\ t.active <=> At(list, a + 8) = \h13
         /\ t.next = At(list, a + 10)
<1>1. Descriptor(list, a).at = a
  BY DEF Descriptor
<1>2. Descriptor(list, a).data1 <=> At(list, a + 6) \div 64 = 1
  BY DEF Descriptor
<1>3. Descriptor(list, a).device = At(list, a + 4) \div 256
  BY DEF Descriptor
<1>4. Descriptor(list, a).active <=> At(list, a + 8) = \h13
  BY DEF Descriptor
<1>5. QED BY <1>1, <1>2, <1>3, <1>4 DEF Descriptor

\* ... and both together.
LEMMA StageWords ==
  ASSUME NEW list, NEW k \in Nat, NEW a, a = Base + 2 * k
  PROVE  LET t == Descriptor(list, a) IN
         /\ t.at = a
         /\ t.buffer = list[k + 1]
         /\ t.length = list[k + 2]
         /\ t.device = list[k + 3] \div 256
         /\ t.token = (list[k + 3] % 256) \div 16
         /\ t.data1 <=> list[k + 4] \div 64 = 1
         /\ t.active <=> list[k + 5] = \h13
         /\ t.next = list[k + 6]
<1>1. At(list, a) = list[k + 1]
  BY WordAt
<1>2. At(list, a + 2) = list[k + 2]
  <2>1. a + 2 = Base + 2 * (k + 1) /\ k + 1 \in Nat /\ (k + 1) + 1 = k + 2
    BY DEF Base
  <2>2. QED BY <2>1, WordAt
<1>3. At(list, a + 4) = list[k + 3]
  <2>1. a + 4 = Base + 2 * (k + 2) /\ k + 2 \in Nat /\ (k + 2) + 1 = k + 3
    BY DEF Base
  <2>2. QED BY <2>1, WordAt
<1>4. At(list, a + 6) = list[k + 4]
  <2>1. a + 6 = Base + 2 * (k + 3) /\ k + 3 \in Nat /\ (k + 3) + 1 = k + 4
    BY DEF Base
  <2>2. QED BY <2>1, WordAt
<1>5. At(list, a + 8) = list[k + 5]
  <2>1. a + 8 = Base + 2 * (k + 4) /\ k + 4 \in Nat /\ (k + 4) + 1 = k + 5
    BY DEF Base
  <2>2. QED BY <2>1, WordAt
<1>6. At(list, a + 10) = list[k + 6]
  <2>1. a + 10 = Base + 2 * (k + 5) /\ k + 5 \in Nat /\ (k + 5) + 1 = k + 6
    BY DEF Base
  <2>2. QED BY <2>1, WordAt
<1>7. QED BY <1>1, <1>2, <1>3, <1>4, <1>5, <1>6, Fields

\* The first descriptor of a request.
LEMMA SetupStage ==
  ASSUME NEW list, NEW n \in 2 .. 10, NEW d \in {0, 2}, WordsInOrder(list, n, d)
  PROVE  LET t == Descriptor(list, Place(1)) IN
         /\ t.at = Base /\ t.next = Base + 20 /\ t.active /\ t.device = d
         /\ t.token = Setup /\ t.buffer = Base + 12 /\ t.length = 8 /\ ~t.data1
<1> DEFINE t == Descriptor(list, Place(1))
           k == 0
<1>1. Place(1) = Base + 2 * k /\ k \in Nat /\ Place(1) = Base
  BY DEF Place, Base
<1>2. /\ list[1] = Base + 12 /\ list[2] = 8 /\ list[3] = 256 * d + \hD0
      /\ list[4] = 1 /\ list[5] = \h13 /\ list[6] = Base + 20
  BY DEF WordsInOrder
<1>3. /\ t.at = Base /\ t.buffer = list[1] /\ t.length = list[2]
      /\ t.device = list[3] \div 256 /\ t.token = (list[3] % 256) \div 16
      /\ t.data1 <=> list[4] \div 64 = 1
      /\ t.active <=> list[5] = \h13
      /\ t.next = list[6]
  <2>1. k + 1 = 1 /\ k + 2 = 2 /\ k + 3 = 3 /\ k + 4 = 4 /\ k + 5 = 5 /\ k + 6 = 6
    OBVIOUS
  <2> HIDE DEF k
  <2>2. /\ t.at = Place(1) /\ t.buffer = list[k + 1] /\ t.length = list[k + 2]
        /\ t.device = list[k + 3] \div 256 /\ t.token = (list[k + 3] % 256) \div 16
        /\ t.data1 <=> list[k + 4] \div 64 = 1
        /\ t.active <=> list[k + 5] = \h13
        /\ t.next = list[k + 6]
    BY <1>1, StageWords
  <2>3. QED BY <1>1, <2>1, <2>2
<1>4. /\ list[3] \div 256 = d /\ (list[3] % 256) \div 16 = 13
      /\ list[4] \div 64 # 1
  BY <1>2
<1> HIDE DEF t
<1>5. /\ t.at = Base /\ t.next = Base + 20 /\ t.active /\ t.device = d
      /\ t.token = Setup /\ t.buffer = Base + 12 /\ t.length = 8 /\ ~t.data1
  BY <1>2, <1>3, <1>4 DEF Setup
<1>6. QED BY <1>5 DEF t

\* What the i-th descriptor of a request says, ...
Follows(t, list, n, d, i) ==
  /\ t.at = Base + 12 * i - 4 /\ t.active /\ t.device = d
  /\ t.next = IF i = n THEN 0 ELSE Base + 12 * i + 8
  /\ t.token = IF i = n /\ n > 2 THEN Out ELSE In
  /\ t.data1 <=> i = n \/ i % 2 = 0
  /\ t.buffer = list[6 * i - 1] /\ t.length = list[6 * i]

\* ... if its words are as they must be.
LEMMA LaterStage ==
  ASSUME NEW list, NEW n \in 2 .. 10, NEW d \in {0, 2}, WordsInOrder(list, n, d),
         NEW i \in 2 .. n
  PROVE  Follows(Descriptor(list, Place(i)), list, n, d, i)
<1> DEFINE t == Descriptor(list, Place(i))
           k == 6 * i - 2
<1>1. Place(i) = Base + 2 * k /\ k \in Nat /\ Place(i) = Base + 12 * i - 4
  BY DEF Place, Base
<1>2. /\ k + 1 = 6 * i - 1 /\ k + 2 = 6 * i /\ k + 3 = 6 * i + 1
      /\ k + 4 = 6 * i + 2 /\ k + 5 = 6 * i + 3 /\ k + 6 = 6 * i + 4
  OBVIOUS
<1> HIDE DEF k
<1>3. /\ t.at = Place(i) /\ t.buffer = list[k + 1] /\ t.length = list[k + 2]
      /\ t.device = list[k + 3] \div 256 /\ t.token = (list[k + 3] % 256) \div 16
      /\ t.data1 <=> list[k + 4] \div 64 = 1
      /\ t.active <=> list[k + 5] = \h13
      /\ t.next = list[k + 6]
  BY <1>1, StageWords
<1>4. /\ list[6 * i + 1] = 256 * d + (IF i = n /\ n > 2 THEN \h10 ELSE \h90)
      /\ list[6 * i + 2] = IF i = n \/ i % 2 = 0 THEN \h41 ELSE \h01
      /\ list[6 * i + 3] = \h13
      /\ list[6 * i + 4] = IF i = n THEN 0 ELSE Base + 12 * i + 8
  BY DEF WordsInOrder
<1>5. /\ list[6 * i + 1] \div 256 = d
      /\ (list[6 * i + 1] % 256) \div 16 = IF i = n /\ n > 2 THEN Out ELSE In
      /\ list[6 * i + 2] \div 64 = 1 <=> i = n \/ i % 2 = 0
  BY <1>4 DEF Out, In
<1> HIDE DEF t
<1>6. Follows(t, list, n, d, i)
  BY <1>1, <1>2, <1>3, <1>4, <1>5 DEF Follows
<1>7. QED BY <1>6 DEF t

\* Then the controller runs the request to its end, and its answer fits.
LEMMA RequestIsWhole ==
  ASSUME NEW list, NEW n \in 2 .. 10, NEW d \in {0, 2},
         WordsInOrder(list, n, d), Pieces(list, n)
  PROVE  WellFormedRequest(list)
<1> DEFINE tds == Chain(list)
<1>1. Stages(list) = n /\ Len(list) = 6 * n + 4 /\ End(list) = Base + 12 * n + 8
  BY DEF WordsInOrder, Stages, End, Base
<1>2. \A i \in 1 .. n : tds[i] = Descriptor(list, Place(i))
  BY <1>1 DEF Chain
<1>3. /\ tds[1].at = Base /\ tds[1].next = Base + 20 /\ tds[1].active
      /\ tds[1].device = d /\ tds[1].token = Setup /\ tds[1].buffer = Base + 12
      /\ tds[1].length = 8 /\ ~tds[1].data1
  BY <1>2, SetupStage
<1>4. ASSUME NEW i \in 2 .. n
      PROVE  Follows(tds[i], list, n, d, i)
  <2>1. tds[i] = Descriptor(list, Place(i))
    BY <1>2
  <2>2. QED BY <2>1, LaterStage, Zenon
<1> HIDE DEF tds
<1>5. RunsThrough(list)
  <2>1. ASSUME NEW i \in 1 .. n - 1
        PROVE  tds[i].next = tds[i + 1].at
    <3>1. i + 1 \in 2 .. n /\ tds[i + 1].at = Base + 12 * (i + 1) - 4
      BY <1>4 DEF Follows
    <3>2. CASE i = 1
      BY <1>3, <3>1, <3>2 DEF Base
    <3>3. CASE i \in 2 .. n - 1
      <4>1. tds[i].next = Base + 12 * i + 8
        BY <1>4, <3>3 DEF Follows
      <4>2. QED BY <3>1, <4>1 DEF Base
    <3>4. QED BY <3>2, <3>3
  <2>2. tds[n].next = 0 /\ tds[n].at + 12 = End(list)
    <3>1. tds[n].next = 0 /\ tds[n].at = Base + 12 * n - 4
      BY <1>4 DEF Follows
    <3>2. QED BY <1>1, <3>1 DEF Base
  <2>3. ASSUME NEW i \in 1 .. n
        PROVE  tds[i].active /\ tds[i].device = tds[1].device
    <3>1. CASE i = 1
      BY <1>3, <3>1
    <3>2. CASE i \in 2 .. n
      BY <1>3, <1>4, <3>2 DEF Follows
    <3>3. QED BY <3>1, <3>2
  <2>4. QED BY <1>1, <2>1, <2>2, <2>3 DEF RunsThrough, tds
<1>6. /\ tds[n].length = 0 /\ tds[n].data1
      /\ tds[n].token = IF 2 .. n - 1 = {} THEN In ELSE Out
  <2>1. 2 .. n - 1 = {} <=> n = 2
    OBVIOUS
  <2>2. tds[n].token = IF n > 2 THEN Out ELSE In
    BY <1>4 DEF Follows
  <2>3. tds[n].length = list[6 * n] /\ tds[n].data1
    BY <1>4 DEF Follows
  <2>4. QED BY <2>1, <2>2, <2>3 DEF Pieces
<1>7. \A i \in 2 .. n - 1 : tds[i].token = In /\ (tds[i].data1 <=> i % 2 = 0)
  BY <1>4 DEF Follows
<1>8. StagesInOrder(list)
  BY <1>1, <1>3, <1>6, <1>7 DEF StagesInOrder, tds
<1>9. AnswerFits(list)
  <2>1. ASSUME NEW i \in 2 .. n - 1
        PROVE  /\ tds[i].buffer >= End(list)
               /\ i > 2 => tds[i].buffer = tds[i - 1].buffer + tds[i - 1].length
    <3>1. tds[i].buffer = list[6 * i - 1] /\ list[6 * i - 1] >= Base + 12 * n + 8
      BY <1>4 DEF Pieces, Follows
    <3>2. ASSUME i > 2
          PROVE  tds[i].buffer = tds[i - 1].buffer + tds[i - 1].length
      <4>1. i - 1 \in 2 .. n /\ 6 * (i - 1) - 1 = 6 * i - 7 /\ 6 * (i - 1) = 6 * i - 6
        BY <3>2
      <4>2. tds[i - 1].buffer = list[6 * i - 7] /\ tds[i - 1].length = list[6 * i - 6]
        BY <1>4, <4>1 DEF Follows
      <4>3. QED BY <3>1, <3>2, <4>2 DEF Pieces
    <3>3. QED BY <1>1, <3>1, <3>2
  <2>2. ASSUME n > 2
        PROVE  tds[n - 1].buffer + tds[n - 1].length
                 <= tds[2].buffer + At(list, Base + 18)
    <3>1. /\ n - 1 \in 2 .. n /\ 6 * (n - 1) - 1 = 6 * n - 7 /\ 6 * (n - 1) = 6 * n - 6
          /\ 2 \in 2 .. n /\ 6 * 2 - 1 = 11
      BY <2>2
    <3>2. /\ tds[n - 1].buffer = list[6 * n - 7] /\ tds[n - 1].length = list[6 * n - 6]
          /\ tds[2].buffer = list[11]
      BY <1>4, <3>1 DEF Follows
    <3>3. At(list, Base + 18) = list[10]
      BY WordAt DEF Base
    <3>4. QED BY <2>2, <3>2, <3>3 DEF Pieces
  <2>3. 2 .. n - 1 # {} => n > 2
    OBVIOUS
  <2>4. QED BY <1>1, <2>1, <2>2, <2>3 DEF AnswerFits, tds
<1>10. QED BY <1>5, <1>8, <1>9 DEF WellFormedRequest

\* A list of one descriptor that asks for a report.
LEMMA OneStage ==
  ASSUME NEW list, Len(list) = 6, list[1] = \h51C, list[2] = 8, list[3] = \h291,
         list[5] = \h13, list[6] = 0
  PROVE  WellFormedPoll(list)
<1> DEFINE t == Descriptor(list, Place(1))
<1>2. /\ t.at = Base /\ t.buffer = \h51C /\ t.length = 8 /\ t.token = In
      /\ t.active /\ t.next = 0
  <2> DEFINE k == 0
  <2>1. k + 1 = 1 /\ k + 2 = 2 /\ k + 3 = 3 /\ k + 4 = 4 /\ k + 5 = 5 /\ k + 6 = 6
    OBVIOUS
  <2>5. Place(1) = Base + 2 * k /\ k \in Nat /\ Place(1) = Base
    BY DEF Place, Base
  <2> HIDE DEF k
  <2>2. /\ t.at = Place(1) /\ t.buffer = list[k + 1] /\ t.length = list[k + 2]
        /\ t.token = (list[k + 3] % 256) \div 16
        /\ t.active <=> list[k + 5] = \h13
        /\ t.next = list[k + 6]
    BY <2>5, StageWords
  <2>3. (\h291 % 256) \div 16 = In
    BY DEF In
  <2>4. QED BY <2>1, <2>2, <2>3, <2>5
<1>3. Stages(list) = 1 /\ End(list) = Base + 12 /\ Place(1) = Base
  BY DEF Stages, End, Place, Base
<1>4. Chain(list)[1] = t
  BY <1>3 DEF Chain
<1> HIDE DEF t
<1>5. RunsThrough(list)
  <2>1. 1 .. 1 - 1 = {} /\ \A i \in 1 .. 1 : i = 1
    OBVIOUS
  <2>2. QED BY <1>2, <1>3, <1>4, <2>1 DEF RunsThrough
<1>6. QED
  BY <1>2, <1>3, <1>5 DEF WellFormedPoll, t, KeyAddress, Base

\* The poll, with either toggle.
LEMMA PollIsWhole ==
  ASSUME NEW b
  PROVE  WellFormedPoll(PollList(b))
<1> DEFINE list == PollList(b)
<1>1. /\ Len(list) = 6 /\ list[1] = \h51C /\ list[2] = 8 /\ list[3] = \h291
      /\ list[5] = \h13 /\ list[6] = 0
  BY DEF PollList, data_size
<1> HIDE DEF list
<1>2. WellFormedPoll(list)
  BY <1>1, OneStage
<1>3. QED BY <1>2 DEF list

\* The nine requests, word for word.
LEMMA UsbSetAddressIsWhole == WellFormedRequest(UsbSetAddress)
<1>1. \A i \in 2 .. 2 : i \in {2}
  OBVIOUS
<1>2. WordsInOrder(UsbSetAddress, 2, 0)
  BY <1>1 DEF WordsInOrder, UsbSetAddress, Base
<1>3. Pieces(UsbSetAddress, 2)
  BY <1>1 DEF Pieces, UsbSetAddress, Base
<1>4. QED BY <1>2, <1>3, RequestIsWhole

LEMMA UsbGetDeviceDesc1IsWhole == WellFormedRequest(UsbGetDeviceDesc1)
<1>1. \A i \in 2 .. 3 : i \in {2, 3}
  OBVIOUS
<1>2. WordsInOrder(UsbGetDeviceDesc1, 3, 2)
  BY <1>1 DEF WordsInOrder, UsbGetDeviceDesc1, Base
<1>3. Pieces(UsbGetDeviceDesc1, 3)
  BY <1>1 DEF Pieces, UsbGetDeviceDesc1, Base
<1>4. QED BY <1>2, <1>3, RequestIsWhole

LEMMA UsbGetDeviceDesc2IsWhole == WellFormedRequest(UsbGetDeviceDesc2)
<1>1. \A i \in 2 .. 5 : i \in {2, 3, 4, 5}
  OBVIOUS
<1>2. WordsInOrder(UsbGetDeviceDesc2, 5, 2)
  BY <1>1 DEF WordsInOrder, UsbGetDeviceDesc2, Base
<1>3. Pieces(UsbGetDeviceDesc2, 5)
  BY <1>1 DEF Pieces, UsbGetDeviceDesc2, Base
<1>4. QED BY <1>2, <1>3, RequestIsWhole

LEMMA UsbGetConfigDesc1IsWhole == WellFormedRequest(UsbGetConfigDesc1)
<1>1. \A i \in 2 .. 4 : i \in {2, 3, 4}
  OBVIOUS
<1>2. WordsInOrder(UsbGetConfigDesc1, 4, 2)
  BY <1>1 DEF WordsInOrder, UsbGetConfigDesc1, Base
<1>3. Pieces(UsbGetConfigDesc1, 4)
  BY <1>1 DEF Pieces, UsbGetConfigDesc1, Base
<1>4. QED BY <1>2, <1>3, RequestIsWhole

LEMMA UsbGetConfigDesc2IsWhole == WellFormedRequest(UsbGetConfigDesc2)
<1>1. \A i \in 2 .. 7 : i \in {2, 3, 4, 5, 6, 7}
  OBVIOUS
<1>2. WordsInOrder(UsbGetConfigDesc2, 7, 2)
  BY <1>1 DEF WordsInOrder, UsbGetConfigDesc2, Base
<1>3. Pieces(UsbGetConfigDesc2, 7)
  BY <1>1 DEF Pieces, UsbGetConfigDesc2, Base
<1>4. QED BY <1>2, <1>3, RequestIsWhole

LEMMA UsbSetConfigIsWhole == WellFormedRequest(UsbSetConfig)
<1>1. \A i \in 2 .. 2 : i \in {2}
  OBVIOUS
<1>2. WordsInOrder(UsbSetConfig, 2, 2)
  BY <1>1 DEF WordsInOrder, UsbSetConfig, Base
<1>3. Pieces(UsbSetConfig, 2)
  BY <1>1 DEF Pieces, UsbSetConfig, Base
<1>4. QED BY <1>2, <1>3, RequestIsWhole

LEMMA UsbClassRequestIsWhole == WellFormedRequest(UsbClassRequest)
<1>1. \A i \in 2 .. 2 : i \in {2}
  OBVIOUS
<1>2. WordsInOrder(UsbClassRequest, 2, 2)
  BY <1>1 DEF WordsInOrder, UsbClassRequest, Base
<1>3. Pieces(UsbClassRequest, 2)
  BY <1>1 DEF Pieces, UsbClassRequest, Base
<1>4. QED BY <1>2, <1>3, RequestIsWhole

LEMMA UsbGetHidDescIsWhole == WellFormedRequest(UsbGetHidDesc)
<1>1. \A i \in 2 .. 3 : i \in {2, 3}
  OBVIOUS
<1>2. WordsInOrder(UsbGetHidDesc, 3, 2)
  BY <1>1 DEF WordsInOrder, UsbGetHidDesc, Base
<1>3. Pieces(UsbGetHidDesc, 3)
  BY <1>1 DEF Pieces, UsbGetHidDesc, Base
<1>4. QED BY <1>2, <1>3, RequestIsWhole

LEMMA UsbGetReportDescIsWhole == WellFormedRequest(UsbGetReportDesc)
<1>1. \A i \in 2 .. 10 : i \in {2, 3, 4, 5, 6, 7, 8, 9, 10}
  OBVIOUS
<1>2. WordsInOrder(UsbGetReportDesc, 10, 2)
  BY <1>1 DEF WordsInOrder, UsbGetReportDesc, Base
<1>3. Pieces(UsbGetReportDesc, 10)
  BY <1>1 DEF Pieces, UsbGetReportDesc, Base
<1>4. QED BY <1>2, <1>3, RequestIsWhole

\* Whatever list the controller runs, it can run to its end, with an answer that
\* is neither cut off nor written over the list (usb.c:117-535, main.c:472-488).
THEOREM ListsAreWhole == Spec => []RunsWholeLists
<1>1. UTypeOK => RunsWholeLists
  <2> SUFFICES ASSUME sent \in 1 .. Poll
               PROVE  IF sent = Poll THEN WellFormedPoll(List(sent))
                                     ELSE WellFormedRequest(List(sent))
    BY DEF UTypeOK, ControllerTypes, RunsWholeLists
  <2>1. CASE sent = Poll
    BY <2>1, PollIsWhole DEF List
  <2>2. CASE sent # Poll
    <3>1. sent \in {1, 2, 3, 4, 5, 6, 7, 8, 9} /\ List(sent) = Requests[sent]
      BY <2>2, NumberOfRequests DEF List
    <3>2. \A n \in {1, 2, 3, 4, 5, 6, 7, 8, 9} : WellFormedRequest(Requests[n])
      <4>1. Requests[1] = UsbSetAddress
        BY DEF Requests
      <4>2. Requests[2] = UsbGetDeviceDesc1
        BY DEF Requests
      <4>3. Requests[3] = UsbGetDeviceDesc2
        BY DEF Requests
      <4>4. Requests[4] = UsbGetConfigDesc1
        BY DEF Requests
      <4>5. Requests[5] = UsbGetConfigDesc2
        BY DEF Requests
      <4>6. Requests[6] = UsbSetConfig
        BY DEF Requests
      <4>7. Requests[7] = UsbClassRequest
        BY DEF Requests
      <4>8. Requests[8] = UsbGetHidDesc
        BY DEF Requests
      <4>9. Requests[9] = UsbGetReportDesc
        BY DEF Requests
      <4>10. QED
        BY <4>1, <4>2, <4>3, <4>4, <4>5, <4>6, <4>7, <4>8, <4>9,
           UsbSetAddressIsWhole, UsbGetDeviceDesc1IsWhole, UsbGetDeviceDesc2IsWhole,
           UsbGetConfigDesc1IsWhole, UsbGetConfigDesc2IsWhole, UsbSetConfigIsWhole,
           UsbClassRequestIsWhole, UsbGetHidDescIsWhole, UsbGetReportDescIsWhole
    <3>3. QED BY <2>2, <3>1, <3>2
  <2>3. QED BY <2>1, <2>2
<1>2. QED BY <1>1, TypeCorrect, PTL

=============================================================================
