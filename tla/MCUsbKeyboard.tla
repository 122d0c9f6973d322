--------------------------- MODULE MCUsbKeyboard ----------------------------
(***************************************************************************)
(* Model-checking instance of UsbKeyboard: a keyboard that reports no     *)
(* key, W (player one dives) or D (player two kicks).                      *)
(***************************************************************************)
EXTENDS UsbKeyboard

TwoKeys == {0, \h1A, \h07}

=============================================================================
