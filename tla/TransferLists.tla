--------------------------- MODULE TransferLists ----------------------------
(***************************************************************************)
(* The transfer descriptor lists usb.c and main.c write into the memory of *)
(* the USB controller, word by word from address Base, and what it takes   *)
(* for the controller to run one to its end.  A descriptor is six words:   *)
(*   buffer address, length, device address and token, data toggle,        *)
(*   active bit and retries, address of the next descriptor.               *)
(* A request starts with a descriptor for the eight bytes that follow it.  *)
(***************************************************************************)
EXTENDS Integers, Sequences

Base == \h500

\* The lists, one descriptor or request to a line.
UsbSetAddress == <<
  \h50C, 8, \h0D0, \h01, \h13, \h514,   \h0500, 2, 0, 0,
  0,     0, \h090, \h41, \h13, 0 >>

UsbGetDeviceDesc1 == <<
  \h50C, 8, \h2D0, \h01, \h13, \h514,   \h0680, \h100, 0, 8,
  \h52C, 8, \h290, \h41, \h13, \h520,
  0,     0, \h210, \h41, \h13, 0 >>

UsbGetDeviceDesc2 == <<
  \h50C, 8, \h2D0, \h01, \h13, \h514,   \h0680, \h100, 0, \h12,
  \h544, 8, \h290, \h41, \h13, \h520,
  \h54C, 8, \h290, \h01, \h13, \h52C,
  \h554, 2, \h290, \h41, \h13, \h538,
  0,     0, \h210, \h41, \h13, 0 >>

\* Bug: a descriptor copied from the list above keeps its length.
UsbGetConfigDesc1_Copied == <<
  \h50C, 8, \h2D0, \h01, \h13, \h514,   \h0680, \h200, 0, 9,
  \h544, 8, \h290, \h41, \h13, \h520,
  \h54C, 8, \h290, \h01, \h13, \h52C,
  0,     0, \h210, \h41, \h13, 0 >>

UsbGetConfigDesc1 == <<
  \h50C, 8, \h2D0, \h01, \h13, \h514,   \h0680, \h200, 0, 9,
  \h544, 8, \h290, \h41, \h13, \h520,
  \h54C, 1, \h290, \h01, \h13, \h52C,
  0,     0, \h210, \h41, \h13, 0 >>

UsbGetConfigDesc2 == <<
  \h50C, 8, \h2D0, \h01, \h13, \h514,   \h0680, \h200, 0, \hFF,
  \h55C, 8, \h290, \h41, \h13, \h520,
  \h564, 8, \h290, \h01, \h13, \h52C,
  \h56C, 8, \h290, \h41, \h13, \h538,
  \h574, 8, \h290, \h01, \h13, \h544,
  \h57C, 2, \h290, \h41, \h13, \h550,
  0,     0, \h210, \h41, \h13, 0 >>

UsbSetConfig == <<
  \h50C, 8, \h2D0, \h01, \h13, \h514,   \h0900, 1, 0, 0,
  0,     0, \h290, \h41, \h13, 0 >>

UsbClassRequest == <<
  \h50C, 8, \h2D0, \h01, \h13, \h514,   \h0A21, 0, 0, 0,
  0,     0, \h290, \h41, \h13, 0 >>

UsbGetHidDesc == <<
  \h50C, 8, \h2D0, \h01, \h13, \h514,   \h0681, \h2100, 0, \h7B,
  \h544, 8, \h290, \h41, \h13, \h520,
  0,     0, \h210, \h41, \h13, 0 >>

UsbGetReportDesc == <<
  \h50C, 8, \h2D0, \h01, \h13, \h514,   \h0681, \h2200, 0, \h7B,
  \h580, 8, \h290, \h41, \h13, \h520,
  \h588, 8, \h290, \h01, \h13, \h52C,
  \h590, 8, \h290, \h41, \h13, \h538,
  \h598, 8, \h290, \h01, \h13, \h544,
  \h5A0, 8, \h290, \h41, \h13, \h550,
  \h5A8, 8, \h290, \h01, \h13, \h55C,
  \h5B0, 8, \h290, \h41, \h13, \h568,
  \h5B8, 3, \h290, \h01, \h13, \h574,
  0,     0, \h210, \h41, \h13, 0 >>

\* The length of a report, as read back from the descriptor the program itself
\* wrote at 0x0576.
data_size == 8

\* The list that asks the keyboard for a report.
PollList(toggle) == <<
  \h51C, data_size, \h291, IF toggle = 1 THEN \h01 ELSE \h41, \h13, 0 >>

\* Where main.c looks for the first key of a report.
KeyAddress == \h51E

-----------------------------------------------------------------------------
(***************************************************************************)
(* A list as the controller sees it.                                       *)
(***************************************************************************)
End(list) == Base + 2 * Len(list)

At(list, address) == list[(address - Base) \div 2 + 1]

Setup == 13
In    == 9
Out   == 1

Descriptor(list, a) ==
  [at     |-> a,
   buffer |-> At(list, a),
   length |-> At(list, a + 2),
   device |-> At(list, a + 4) \div 256,
   token  |-> (At(list, a + 4) % 256) \div 16,
   data1  |-> At(list, a + 6) \div 64 = 1,
   active |-> At(list, a + 8) = \h13,
   next   |-> At(list, a + 10)]

\* The descriptors in the order they were written.  Between the first and the
\* second are the eight bytes of a request, which the poll does not have.
Stages(list) == IF Len(list) = 6 THEN 1 ELSE (Len(list) - 4) \div 6

Place(i) == Base + (IF i = 1 THEN 0 ELSE 12 * i - 4)

Chain(list) == [i \in 1 .. Stages(list) |-> Descriptor(list, Place(i))]

\* The controller comes to every descriptor, in the order they were written,
\* and stops at the last one.
RunsThrough(list) ==
  LET tds  == Chain(list)
      last == Stages(list)
  IN  /\ \A i \in 1 .. last - 1 : tds[i].next = tds[i + 1].at
      /\ tds[last].next = 0 /\ tds[last].at + 12 = End(list)
      /\ \A i \in 1 .. last : tds[i].active /\ tds[i].device = tds[1].device

\* A request is sent as setup, data and status stage; DATA0 and DATA1 take
\* turns, starting with DATA0 and ending with DATA1.
StagesInOrder(list) ==
  LET tds  == Chain(list)
      last == Stages(list)
      data == 2 .. last - 1
  IN  /\ last >= 2
      /\ tds[1].token = Setup /\ tds[1].buffer = Base + 12 /\ tds[1].length = 8
      /\ ~tds[1].data1
      /\ \A i \in data : tds[i].token = In /\ (tds[i].data1 <=> i % 2 = 0)
      /\ tds[last].token = (IF data = {} THEN In ELSE Out)
      /\ tds[last].length = 0 /\ tds[last].data1

\* The pieces of the answer lie end to end, behind the list that is being run,
\* and hold no more than the request asks for.
AnswerFits(list) ==
  LET tds  == Chain(list)
      last == Stages(list)
      data == 2 .. last - 1
  IN  /\ \A i \in data : /\ tds[i].buffer >= End(list)
                         /\ i > 2 => tds[i].buffer = tds[i - 1].buffer + tds[i - 1].length
      /\ data # {} => tds[last - 1].buffer + tds[last - 1].length
                        <= tds[2].buffer + At(list, Base + 18)

WellFormedRequest(list) ==
  RunsThrough(list) /\ StagesInOrder(list) /\ AnswerFits(list)

\* A report is received behind its list, and the key is its third byte.
WellFormedPoll(list) ==
  LET td == Descriptor(list, Base) IN
  /\ RunsThrough(list)
  /\ td.token = In
  /\ td.buffer >= End(list)
  /\ KeyAddress = td.buffer + 2 /\ td.length >= 3

=============================================================================
