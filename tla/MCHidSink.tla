------------------------------ MODULE MCHidSink ------------------------------
(***************************************************************************)
(* HidSink with a French keyboard: the key at Q's place types "a", so its  *)
(* keysym and its position stand for different usages.  Two slots are one  *)
(* fewer than the usages two keys have in the two modes; the clipboard has *)
(* a letter twice, shifted once, and one the table does not know.          *)
(***************************************************************************)
EXTENDS HidSink

MCViewers == {"v1", "v2"}
MCSaved == [v1 |-> TRUE, v2 |-> FALSE]
MCPhys == {"KeyQ", "KeyB", "ShiftLeft"}
MCLayout == [KeyQ |-> "a", KeyB |-> "b", ShiftLeft |-> "Shift_L"]
MCUsages == [KeyQ |-> "u14", KeyB |-> "u05"]
MCTexts == {<<"b", "e_acute", "B">>}

=============================================================================
