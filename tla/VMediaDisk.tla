------------------------------ MODULE VMediaDisk ------------------------------
(***************************************************************************)
(* What a redirected medium promises the host, with no cache in sight: one *)
(* command at a time; a READ is answered with the cells the medium holds   *)
(* at that moment, zero past its end; a WRITE changes the cells it names,  *)
(* or the first of them (a write that fails is acknowledged too), and no   *)
(* others.  While the backing is faulty a READ may lose a suffix of its    *)
(* cells (they read as Zero), never return wrong ones.                     *)
(***************************************************************************)
EXTENDS Naturals, Sequences

CONSTANTS Size, BlockSize, Values, Zero, Command, NoCommand

VARIABLES medium, cmd, data, faulty

vars == <<medium, cmd, data, faulty>>

Cells == 0..(Size - 1)

Init ==
  /\ medium \in [Cells -> Values]
  /\ cmd = NoCommand
  /\ data = <<>>
  /\ faulty = FALSE

\* The first k of n cells from off on, the rest Zero.
Served(off, n, k) ==
  [i \in 1..n |-> IF i <= k /\ off + i - 1 < Size THEN medium[off + i - 1] ELSE Zero]

Submit ==
  /\ cmd = NoCommand
  /\ cmd' \in Command
  /\ UNCHANGED <<medium, data>>

AnswerRead ==
  /\ cmd # NoCommand /\ cmd.op = "read"
  /\ LET n == cmd.blocks * BlockSize IN
       \E k \in (IF faulty THEN 0..n ELSE {n}) :
         data' = Served(cmd.lba * BlockSize, n, k)
  /\ cmd' = NoCommand
  /\ UNCHANGED medium

ApplyWrite ==
  /\ cmd # NoCommand /\ cmd.op = "write"
  /\ LET first == cmd.lba * BlockSize
         n == cmd.blocks * BlockSize
     IN \E k \in 0..n :
          medium' = [c \in Cells |->
                       IF first <= c /\ c < first + k THEN cmd.val ELSE medium[c]]
  /\ cmd' = NoCommand
  /\ data' = <<>>

AnswerOther ==
  /\ cmd # NoCommand /\ cmd.op \notin {"read", "write"}
  /\ cmd' = NoCommand
  /\ data' = <<>>
  /\ UNCHANGED medium

\* Any step may also see the backing fail or recover.
Next ==
  /\ faulty' \in BOOLEAN
  /\ Submit \/ AnswerRead \/ ApplyWrite \/ AnswerOther \/ UNCHANGED <<medium, cmd, data>>

Spec == Init /\ [][Next]_vars

=============================================================================
