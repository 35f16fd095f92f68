------------------------------ MODULE MCKvmVideo ------------------------------
(***************************************************************************)
(* Modes for KvmVideo with tiles of two pixels: 4:4:4 with a cut last row  *)
(* and column, 4:2:0 of several tiles in both directions with the row that *)
(* is cut to half, one the decoder refuses, and one whose frames are too   *)
(* long for the client.                                                    *)
(***************************************************************************)
EXTENDS KvmVideo

M(w, h, m, n) == [w |-> w, h |-> h, mode420 |-> m, parts |-> n]

MCModes == {M(3, 3, FALSE, 2), M(8, 6, TRUE, 2), M(12, 2, TRUE, 1), M(2, 3, FALSE, 3)}

MCHalfRow == [height |-> 8, ty |-> 1]

=============================================================================
