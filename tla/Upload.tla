-------------------------------- MODULE Upload --------------------------------
(* How open() (src/main.cpp) puts bytes into device buffers: upload() copies   *)
(* them through one host-visible staging buffer, a chunk at a time, and waits  *)
(* for the queue after each chunk.  The GPU makes a submitted copy on its own  *)
(* time.  Contents are sequences of cells.                                    *)
EXTENDS Integers

CONSTANTS
  StageCells,   \* cells copied at a time (140 MiB of the staging buffer's 160)
  Buffer,       \* names of buffers
  Cell, Junk    \* what a cell holds; Junk in memory nobody wrote

ASSUME UploadAssumption == StageCells \in Nat \ {0} /\ Junk \in Cell

VARIABLES
  src,    \* history: the buffers upload() was called for, and from what
  dev,    \* their contents on the device
  pc,     \* of upload(): "idle", "fill", "wait"
  cur,    \* the buffer being uploaded (its dst)
  size,   \* its length (n)
  off,    \* cells done
  stage,  \* the staging buffer
  gpu     \* copies submitted and not yet made

uploadVars == <<src, dev, pc, cur, size, off, stage, gpu>>

UploadInit ==
  /\ src = <<>> /\ dev = <<>> /\ pc = "idle" /\ cur = (CHOOSE b \in Buffer : TRUE) /\ size = 0 /\ off = 0
  /\ stage = [i \in 1 .. StageCells |-> Junk] /\ gpu = {}

\* min(n - off, 140 MiB)
ChunkLength == IF size - off < StageCells THEN size - off ELSE StageCells

\* createBuf, and upload() of n cells is called.
Call(d, n, cells) ==
  /\ pc = "idle" /\ d \notin DOMAIN src
  /\ src' = [b \in DOMAIN src \cup {d} |-> IF b = d THEN cells ELSE src[b]]
  /\ dev' = [b \in DOMAIN dev \cup {d} |-> IF b = d THEN [i \in 1 .. n |-> Junk] ELSE dev[b]]
  /\ cur' = d /\ size' = n /\ off' = 0 /\ pc' = "fill"
  /\ UNCHANGED <<stage, gpu>>

\* Mutant of DstOffset: the offset of the next chunk.
DstOffsetNext == off + ChunkLength

\* VkBufferCopy.dstOffset
DstOffset == off

\* The next chunk is put into the staging buffer and its copy is submitted.
Fill ==
  /\ pc = "fill" /\ off < size
  /\ LET len == ChunkLength IN
     /\ stage' = [i \in 1 .. StageCells |-> IF i <= len THEN src[cur][off + i] ELSE stage[i]]
     /\ gpu' = gpu \cup {[dst |-> cur, at |-> DstOffset, len |-> len]}
  /\ pc' = "wait"
  /\ UNCHANGED <<src, dev, cur, size, off>>

\* The GPU makes one submitted copy.
Copy ==
  \E c \in gpu :
    /\ dev' = [dev EXCEPT ![c.dst] = [i \in DOMAIN dev[c.dst] |->
                 IF i - c.at \in 1 .. c.len THEN stage[i - c.at] ELSE dev[c.dst][i]]]
    /\ gpu' = gpu \ {c}
    /\ UNCHANGED <<src, pc, cur, size, off, stage>>

\* Mutant of Drained: the host does not wait.
DrainedNever == TRUE

\* vkQueueWaitIdle
Drained == gpu = {}

\* submitWait returns.
Wait ==
  /\ pc = "wait" /\ Drained
  /\ off' = off + ChunkLength /\ pc' = "fill"
  /\ UNCHANGED <<src, dev, cur, size, stage, gpu>>

\* upload() returns.
Return ==
  /\ pc = "fill" /\ off >= size
  /\ pc' = "idle"
  /\ UNCHANGED <<src, dev, cur, size, off, stage, gpu>>

Uploading == Fill \/ Wait \/ Return \/ Copy

-------------------------------------------------------------------------------
(* On its own: any buffers, one upload() after another.                       *)

UploadNext ==
  \/ Uploading
  \/ \E d \in Buffer, n \in Nat : \E cells \in [1 .. n -> Cell] : Call(d, n, cells)

UploadSpec == UploadInit /\ [][UploadNext]_uploadVars

\* When upload() has returned, the device holds what it was called with, in
\* every buffer uploaded so far.
Uploaded == pc = "idle" => dev = src
===============================================================================
