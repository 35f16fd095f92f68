----------------------------- MODULE VMediaDevice -----------------------------
(***************************************************************************)
(* vmedia.Device over vmedia.Cache: the SCSI commands of one redirected    *)
(* medium, as the Serve loop handles them, one at a time.                  *)
(***************************************************************************)
EXTENDS VMediaCache

CONSTANTS
  BlockSize,  \* cells per SCSI block; a window is a whole number of blocks
  MaxBlocks   \* bound on the length of one READ or WRITE

ASSUME BlockAssumption == BlockSize \in Nat \ {0} /\ MaxBlocks \in Nat

VARIABLES
  cmd,    \* the request Handle is working on
  reply   \* the data of the last response

vars == <<medium, cacheVars, call, degraded, cmd, reply>>

\* newDevice: the highest addressable block; a tail shorter than a block is not one.
LastLBA == IF Size \div BlockSize > 0 THEN (Size \div BlockSize) - 1 ELSE 0

\* The host reads and writes up to one block past the capacity it was told, which nothing
\* checks, and sends the other commands, answered without touching the medium.
Read == [op : {"read"}, lba : 0..(LastLBA + 1), blocks : 0..MaxBlocks, val : {Zero}]
Write == [op : {"write"}, lba : 0..(LastLBA + 1), blocks : 0..MaxBlocks, val : Values]
Other == [op : {"other"}, lba : {0}, blocks : {0}, val : {Zero}]
Command == Read \cup Write \cup Other
NoCommand == [op |-> "none", lba |-> 0, blocks |-> 0, val |-> Zero]

Init ==
  /\ CacheInit
  /\ medium \in [Cells -> Values]
  /\ cmd = NoCommand
  /\ reply = <<>>

\* readPacket delivers the next request.
Submit ==
  /\ cmd = NoCommand
  /\ cmd' \in Command
  /\ UNCHANGED <<medium, cacheVars, call, degraded, reply>>

\* buildResponse: the data-in bytes, if any.  Nothing in it tells success from failure.
Respond(data) ==
  /\ reply' = data
  /\ cmd' = NoCommand

HandleRead ==
  /\ cmd.op = "read"
  /\ BeginReadAt(cmd.lba * BlockSize, cmd.blocks * BlockSize)
  /\ UNCHANGED <<cmd, reply>>

CacheStep ==
  /\ WindowHit \/ WindowMiss \/ WindowError \/ EndReadAt
  /\ UNCHANGED <<cmd, reply>>

\* read() returns the whole zero-filled buffer whatever ReadAt returned.
FinishRead ==
  /\ call.op = "done"
  /\ Respond(call.buf)
  /\ call' = NoCall
  /\ UNCHANGED <<medium, cacheVars, degraded>>

\* write() does nothing for zero blocks, a read-only device or a payload shorter than the
\* command says; it acknowledges in every case.
SkipWrite ==
  /\ cmd.op = "write"
  /\ Respond(<<>>)
  /\ UNCHANGED <<medium, cacheVars, call, degraded>>

HandleWrite ==
  /\ cmd.op = "write"
  /\ cmd.blocks > 0
  /\ WriteAt(cmd.lba * BlockSize, cmd.blocks * BlockSize, cmd.val)
  /\ Respond(<<>>)

\* TEST UNIT READY, INQUIRY, READ CAPACITY, MODE SENSE, REQUEST SENSE, the MMC probes and
\* the AMI control opcodes: a canned reply.
HandleOther ==
  /\ cmd.op = "other"
  /\ Respond(<<>>)
  /\ UNCHANGED <<medium, cacheVars, call, degraded>>

Handle == HandleRead \/ CacheStep \/ FinishRead \/ SkipWrite \/ HandleWrite \/ HandleOther

Next == Submit \/ Handle

Spec == Init /\ [][Next]_vars

\* The Serve goroutine keeps running and every backing call returns (browser requests time
\* out); the host is free to send nothing.
FairSpec == Spec /\ WF_vars(Handle)

-----------------------------------------------------------------------------
(* Properties.                                                             *)

\* The cache is invisible to the host: what Device answers is what a plain medium would
\* answer, and exactly that unless the backing failed in this command or answered short
\* earlier (a short window stays cached).
Disk == INSTANCE VMediaDisk WITH
  data <- reply,
  faulty <- degraded \/ call.err = "io"
ActsAsMedium == Disk!Spec

\* Every command the BMC forwards is answered: ReadAt's loop always ends.
CommandAnswered == (cmd # NoCommand) ~> (cmd = NoCommand)

=============================================================================
