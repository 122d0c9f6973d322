---------------------------- MODULE UsbKeyboard -----------------------------
(***************************************************************************)
(* The keyboard program (main.c, usb.c) with what it talks to: the USB     *)
(* controller, which runs the transfer lists by itself and answers through *)
(* one message register, and a keyboard that may be pulled out at any time.*)
(* The program is sequential; between any two of its accesses to the       *)
(* controller the others may take any number of steps.  The words of a     *)
(* list and the pointer that starts it are written in one step.            *)
(***************************************************************************)
EXTENDS Signals, TransferLists

CONSTANTS
  Reports   \* the first keys (bytes) a keyboard reports

ASSUME ReportsAssumption == Reports \subseteq 0 .. 255

VARIABLES
  \* the program
  pc, step,     \* where it is, and the number of the request it works on
  got,          \* the message it has just read
  toggle,       \* toggle % 2
  keycode,      \* the byte on the keycode port
  \* the controller
  sent,         \* the list in its memory, by the number of its request
  run,          \* what it is executing
  ctl,          \* the control byte of the first descriptor, at 0x0508
  msg, flag,    \* the message register and its flag in HPI_STATUS
  memory,       \* the byte at KeyAddress
  \* the keyboard
  plugged, address, configured,
  \* history
  answered,     \* the requests the keyboard has taken since the last set-up began
  reported      \* the keys reported since a removal was seen or a set-up began

program    == <<pc, step, got, toggle, keycode>>
controller == <<sent, run, ctl, msg, flag, memory>>
keyboard   == <<plugged, address, configured>>
history    == <<answered, reported>>

vars == <<program, controller, keyboard, history>>

-----------------------------------------------------------------------------
\* The requests in the order of main.c; the last one is the poll.
Requests == <<UsbSetAddress, UsbGetDeviceDesc1, UsbGetDeviceDesc2,
              UsbGetConfigDesc1, UsbGetConfigDesc2, UsbSetConfig,
              UsbClassRequest, UsbGetHidDesc, UsbGetReportDesc>>

SetAddress  == 1
ConfigDesc2 == 5
SetConfig   == 6
Poll        == Len(Requests) + 1

List(n) == IF n = Poll THEN PollList(toggle) ELSE Requests[n]

\* keycode_reader.sv; "none" is every byte it has no output for.
KeyOf(byte) ==
  CASE byte = \h1A -> PoneDive
    [] byte = \h04 -> PoneKick
    [] byte = \h16 -> PtwoDive
    [] byte = \h07 -> PtwoKick
    [] byte = \h2C -> GameStart
    [] OTHER       -> NoKey

\* Messages: nothing, HUSB_TDListDone, an insertion or removal.
Messages == {"none", "done", "other"}

Goto(label) == pc' = label

-----------------------------------------------------------------------------
(***************************************************************************)
(* Set-up.                                                                 *)
(***************************************************************************)
\* USB_HOT_PLUG: UsbSoftReset stops the controller and reads the message away.
UsbSoftReset ==
  /\ pc = "USB_HOT_PLUG"
  /\ run' = "idle" /\ flag' = FALSE
  /\ answered' = {} /\ reported' = {}
  /\ Goto("initSIE1")
  /\ UNCHANGED <<step, got, toggle, keycode, sent, ctl, msg, memory, keyboard>>

\* The message is cleared, then HUSB_SIE1_INIT_INT; anything but an
\* acknowledgement starts over.
InitSIE1 ==
  /\ pc = "initSIE1"
  /\ msg' = "none"
  /\ \E ack \in BOOLEAN : Goto(IF ack THEN "resetBus" ELSE "USB_HOT_PLUG")
  /\ UNCHANGED <<step, got, toggle, keycode, sent, run, ctl, flag, memory, keyboard, history>>

\* HUSB_RESET_INT resets the keyboard; the mailbox is read without waiting.
ResetBus ==
  /\ pc = "resetBus"
  /\ address' = 0 /\ configured' = FALSE
  /\ \E ack \in BOOLEAN : Goto(IF ack THEN "detect" ELSE "USB_HOT_PLUG")
  /\ UNCHANGED <<step, got, toggle, keycode, controller, plugged, history>>

\* Is a keyboard there?  After a few attempts the program goes on to wait for
\* one, and then starts over; the number of attempts is left open.
Detect ==
  /\ pc = "detect"
  /\ IF plugged THEN step' = SetAddress /\ Goto("send")
     ELSE /\ pc' \in {"detect", "absent"}
          /\ UNCHANGED step
  /\ UNCHANGED <<got, toggle, keycode, controller, keyboard, history>>

Inserted ==
  /\ pc = "absent" /\ plugged
  /\ Goto("USB_HOT_PLUG")
  /\ UNCHANGED <<step, got, toggle, keycode, controller, keyboard, history>>

-----------------------------------------------------------------------------
(***************************************************************************)
(* A request, and the poll: write the list and start it, look once for a   *)
(* message, and as long as there is none write and start it again.         *)
(***************************************************************************)
Start(n) ==
  /\ sent' = n
  /\ run' = "first"
  /\ ctl' = "active"
  /\ memory' = IF KeyAddress < End(List(n)) THEN At(List(n), KeyAddress) % 256
                                            ELSE memory

Send ==
  /\ pc = "send"
  /\ toggle' = IF step = Poll THEN 1 - toggle ELSE toggle
  /\ Start(step)
  /\ Goto("check")
  /\ UNCHANGED <<step, got, keycode, msg, flag, keyboard, history>>

CheckMessage ==
  /\ pc = "check"
  /\ Goto(IF flag THEN "wait" ELSE "resend")
  /\ UNCHANGED <<step, got, toggle, keycode, controller, keyboard, history>>

SendAgain ==
  /\ pc = "resend"
  /\ Start(step)
  /\ Goto("check")
  /\ UNCHANGED <<step, got, toggle, keycode, msg, flag, keyboard, history>>

\* Reading the message register clears its flag.
ReadMessage == got' = msg /\ flag' = FALSE

\* UsbWaitTDListDone: read the message, then clear it, until it is the one.
ReadDone ==
  /\ pc = "wait"
  /\ ReadMessage
  /\ Goto("clear")
  /\ UNCHANGED <<step, toggle, keycode, sent, run, ctl, msg, memory, keyboard, history>>

ClearDone ==
  /\ pc = "clear"
  /\ msg' = "none"
  /\ Goto(IF got # "done" THEN "wait" ELSE IF step = Poll THEN "publish" ELSE "result")
  /\ UNCHANGED <<step, got, toggle, keycode, sent, run, ctl, flag, memory, keyboard, history>>

\* Bug: the control byte is not looked at.
Succeeded_Always == TRUE

\* usb_ctl_val == 0x03: the first descriptor went through without a retry.
Succeeded == ctl = "ok"

\* The next request.  Between the configuration's descriptor and its setting
\* the program starts the controller on data that is no list.
Advance ==
  /\ step' = step + 1
  /\ Goto(IF step = ConfigDesc2 THEN "endpoint" ELSE "send")

Result ==
  /\ pc = "result"
  /\ IF Succeeded THEN Advance ELSE UNCHANGED step /\ Goto("retry")
  /\ UNCHANGED <<got, toggle, keycode, controller, keyboard, history>>

StartOnDescriptor ==
  /\ pc = "endpoint"
  /\ run' = "stray"
  /\ Goto("send")
  /\ UNCHANGED <<step, got, toggle, keycode, sent, ctl, msg, flag, memory, keyboard, history>>

(***************************************************************************)
(* UsbGetRetryCnt: if the message has come, clear it and wait for another; *)
(* then read the control byte again.  Setting the address starts over      *)
(* after it, the other requests read the byte until it is 0x03.            *)
(***************************************************************************)
ReadRetry ==
  /\ pc = "retry"
  /\ ReadMessage
  /\ Goto(IF msg = "done" THEN "retryClear" ELSE "retryCount")
  /\ UNCHANGED <<step, toggle, keycode, sent, run, ctl, msg, memory, keyboard, history>>

ClearRetry ==
  /\ pc = "retryClear"
  /\ msg' = "none"
  /\ Goto("retryFlag")
  /\ UNCHANGED <<step, got, toggle, keycode, sent, run, ctl, flag, memory, keyboard, history>>

AwaitRetry ==
  /\ pc = "retryFlag" /\ flag
  /\ Goto("retryCount")
  /\ UNCHANGED <<step, got, toggle, keycode, controller, keyboard, history>>

ReadRetryCnt ==
  /\ pc = "retryCount"
  /\ IF step = SetAddress THEN UNCHANGED step /\ Goto("USB_HOT_PLUG")
     ELSE IF Succeeded THEN Advance
     ELSE UNCHANGED step /\ Goto("retry")
  /\ UNCHANGED <<got, toggle, keycode, controller, keyboard, history>>

-----------------------------------------------------------------------------
(***************************************************************************)
(* The poll loop: publish the key, then see if the keyboard is still there.*)
(* The port is written through a pointer to char: one byte, which the bus  *)
(* puts on all four lanes.                                                 *)
(***************************************************************************)
Publish ==
  /\ pc = "publish"
  /\ keycode' = memory
  /\ Goto("present")
  /\ UNCHANGED <<step, got, toggle, controller, keyboard, history>>

StillThere ==
  /\ pc = "present" /\ plugged
  /\ Goto("send")
  /\ UNCHANGED <<step, got, toggle, keycode, controller, keyboard, history>>

\* The removal is believed after a few looks; their number is left open.
Gone ==
  /\ pc = "present" /\ ~plugged
  /\ \/ UNCHANGED <<pc, reported>>
     \/ Goto("removed") /\ reported' = {}
  /\ UNCHANGED <<step, got, toggle, keycode, controller, keyboard, answered>>

\* Bug: the program goes on polling when a keyboard is there again.
Reinserted_PollsOn ==
  /\ pc = "removed" /\ plugged
  /\ Goto("send")
  /\ UNCHANGED <<step, got, toggle, keycode, controller, keyboard, history>>

Reinserted ==
  /\ pc = "removed" /\ plugged
  /\ Goto("USB_HOT_PLUG")
  /\ UNCHANGED <<step, got, toggle, keycode, controller, keyboard, history>>

Program ==
  \/ UsbSoftReset \/ InitSIE1 \/ ResetBus \/ Detect \/ Inserted
  \/ Send \/ CheckMessage \/ SendAgain \/ ReadDone \/ ClearDone
  \/ Result \/ StartOnDescriptor
  \/ ReadRetry \/ ClearRetry \/ AwaitRetry \/ ReadRetryCnt
  \/ Publish \/ StillThere \/ Gone \/ Reinserted

-----------------------------------------------------------------------------
(***************************************************************************)
(* The controller.  A transfer only succeeds with a keyboard that has the  *)
(* address it is sent to, and may fail or need a retry with any.           *)
(***************************************************************************)
Answers(n) ==
  /\ plugged
  /\ address = Descriptor(List(n), Base).device
  /\ n = Poll => configured

PostDone == msg' = "done" /\ flag' = TRUE

\* The first descriptor succeeds, and others follow.
FirstStage ==
  /\ run = "first" /\ sent # Poll /\ Answers(sent)
  /\ ctl' \in {"ok", "retried"}
  /\ run' = "rest"
  /\ answered' = answered \cup {sent}
  /\ UNCHANGED <<program, sent, msg, flag, memory, keyboard, reported>>

\* The other descriptors succeed, and the request takes effect.
LastStage ==
  /\ run = "rest" /\ Answers(sent)
  /\ run' = "idle" /\ PostDone
  /\ address' = IF sent = SetAddress THEN 2 ELSE address
  /\ configured' = (configured \/ sent = SetConfig)
  /\ UNCHANGED <<program, sent, ctl, memory, plugged, history>>

\* The keyboard reports a key.
Report(byte) ==
  /\ run = "first" /\ sent = Poll /\ Answers(Poll)
  /\ run' = "idle" /\ PostDone
  /\ ctl' \in {"ok", "retried"}
  /\ memory' = byte
  /\ reported' = reported \cup {byte}
  /\ UNCHANGED <<program, sent, keyboard, answered>>

\* A list ends early: no answer, the retries used up, nothing to report.
GiveUp ==
  /\ run \in {"first", "rest"}
  /\ run' = "idle" /\ PostDone
  /\ ctl' = IF run = "first" THEN "retried" ELSE ctl
  /\ UNCHANGED <<program, sent, memory, keyboard, history>>

\* What the controller makes of data that is no list: a message, or nothing.
EndStray ==
  /\ run = "stray"
  /\ run' = "idle"
  /\ PostDone \/ UNCHANGED <<msg, flag>>
  /\ UNCHANGED <<program, sent, ctl, memory, keyboard, history>>

Controller ==
  FirstStage \/ LastStage \/ (\E byte \in Reports : Report(byte)) \/ GiveUp \/ EndStray

\* The keyboard is pulled out or put in again, with no address; the controller
\* posts a message, over one that may be there.
Replug ==
  /\ plugged' = ~plugged
  /\ address' = 0 /\ configured' = FALSE
  /\ \/ msg' = "other" /\ flag' = TRUE
     \/ UNCHANGED <<msg, flag>>
  /\ UNCHANGED <<program, sent, run, ctl, memory, history>>

-----------------------------------------------------------------------------
Init ==
  /\ pc = "USB_HOT_PLUG" /\ step = SetAddress /\ got = "none"
  /\ toggle = 0 /\ keycode = 0
  /\ sent = SetAddress /\ run = "idle" /\ ctl = "active"
  /\ msg = "none" /\ flag = FALSE /\ memory = 0
  /\ plugged \in BOOLEAN /\ address = 0 /\ configured = FALSE
  /\ answered = {} /\ reported = {}

Next == Program \/ Controller \/ Replug

(***************************************************************************)
(* The processor does not stop, and the controller ends what it has begun. *)
(* Nobody has to plug in a keyboard or press a key.                        *)
(***************************************************************************)
Spec == Init /\ [][Next]_vars /\ WF_vars(Program) /\ WF_vars(Controller)

-----------------------------------------------------------------------------
Labels == {"USB_HOT_PLUG", "initSIE1", "resetBus", "detect", "absent", "send",
           "check", "resend", "wait", "clear", "result", "endpoint", "retry",
           "retryClear", "retryFlag", "retryCount", "publish", "present", "removed"}

ProgramTypes ==
  /\ pc \in Labels /\ step \in 1 .. Poll /\ got \in Messages
  /\ toggle \in {0, 1} /\ keycode \in 0 .. 255

ControllerTypes ==
  /\ sent \in 1 .. Poll /\ run \in {"idle", "first", "rest", "stray"}
  /\ ctl \in {"active", "ok", "retried"} /\ msg \in Messages
  /\ memory \in 0 .. 255

Switches == flag \in BOOLEAN /\ plugged \in BOOLEAN /\ configured \in BOOLEAN

KeyboardTypes ==
  /\ address \in {0, 2}
  /\ answered \subseteq 1 .. Poll - 1 /\ reported \subseteq Reports

UTypeOK == ProgramTypes /\ ControllerTypes /\ Switches /\ KeyboardTypes

\* Whatever list the controller is running is one it can run to its end: the
\* chain of addresses, toggles, lengths and buffers typed into usb.c fits
\* together, so that the answer is neither cut off nor written over the list.
RunsWholeLists ==
  run \in {"first", "rest"} =>
    IF sent = Poll THEN WellFormedPoll(List(sent)) ELSE WellFormedRequest(List(sent))

\* The program never goes on to the next request before the keyboard has taken
\* the current one, though the message it waits for may belong to an earlier
\* transmission, a removal may have been announced in between, and the list is
\* rewritten while it is being run (main.c:179-198, 208-226).
KeyboardAnswered ==
  [][step' = step + 1 => step \in answered]_vars

\* A key of the game appears on the port only if a keyboard has reported it
\* since the set-up: not the key that was down when the keyboard was pulled
\* out, nor the words of a list, which share the memory (main.c:518-524).
NoGhostKey ==
  [][ KeyOf(keycode') # KeyOf(keycode) /\ KeyOf(keycode') # NoKey
      => keycode' \in reported ]_vars

\* main.c:210, "Call the appropriate function again if it wasn't processed
\* successfully": a request that needed a retry is sent again, or the set-up
\* is started over.
SentAgain ==
  pc = "retry" /\ ctl = "retried" ~> pc \in {"send", "resend", "USB_HOT_PLUG"}

=============================================================================
