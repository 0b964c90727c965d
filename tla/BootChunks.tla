------------------------------ MODULE BootChunks ------------------------------
(***************************************************************************)
(* How the boot machines of the E51 place a boot image in memory: the      *)
(* ZERO_INIT_CHUNKS and DOWNLOAD_CHUNKS states of hss_boot_service.c, one   *)
(* handler call per machine and pass of the super-loop.  A chunk is copied *)
(* in pieces of BOOT_SUB_CHUNK_SIZE bytes, the last piece included.        *)
(*                                                                         *)
(* A byte of memory is Old (never written), Zero, or the offset in the     *)
(* boot image of the byte that was copied to it.                           *)
(***************************************************************************)
EXTENDS Integers, Sequences, FiniteSets

CONSTANTS
    NumU54,     \* the boot machines are 1..NumU54
    Sub,        \* BOOT_SUB_CHUNK_SIZE
    Top,        \* memory is 0..Top
    Images      \* boot images: chunk table, zi-chunk table, and firstChunk and
                \* lastChunk of every hart, counted from 0

U54 == 1..NumU54
Old == -2
Zero == -1

ChunkDesc == [owner : U54, anc : BOOLEAN, loadAddr : Nat, execAddr : 0..Top, size : 1..Top]
ZIChunkDesc == [owner : U54, execAddr : 0..Top, size : 1..Top]

ASSUME ChunkAssumption ==
    /\ NumU54 \in Nat \ {0} /\ Sub \in Nat \ {0} /\ Top \in Nat
    /\ \A img \in Images :
        /\ img.chunks \in Seq(ChunkDesc) /\ img.zi \in Seq(ZIChunkDesc)
        /\ img.first \in [U54 -> Nat] /\ img.last \in [U54 -> Nat]

VARIABLES
    image,      \* pBootImage
    mem,        \* physical memory
    turn,       \* the machine the super-loop runs next
    state,      \* of each machine; "WAIT_PMP" before, "DONE" after the two states
    pZiChunk, pChunk, chunkCount, subChunkOffset, ancilliaryData

vars == <<image, mem, turn, state, pZiChunk, pChunk, chunkCount, subChunkOffset, ancilliaryData>>
cursors == <<pZiChunk, pChunk, chunkCount, subChunkOffset, ancilliaryData>>

Init ==
    /\ image \in Images
    /\ mem = [a \in 0..Top |-> Old]
    /\ turn = 1
    /\ state = [h \in U54 |-> "WAIT_PMP"]
    /\ pZiChunk = [h \in U54 |-> 1]
    /\ pChunk = [h \in U54 |-> 1]
    /\ chunkCount = [h \in U54 |-> 0]
    /\ subChunkOffset = [h \in U54 |-> 0]
    /\ ancilliaryData = [h \in U54 |-> 0]

-----------------------------------------------------------------------------
\* The super-loop runs machine h and goes on with the next one.
Runs(h, s) == turn = h /\ state[h] = s /\ turn' = 1 + (turn % NumU54)

Enter(h, s) == state' = [state EXCEPT ![h] = s]

NumChunks(h) == Cardinality({i \in DOMAIN image.chunks : image.chunks[i].owner = h})

\* The PMP request of the machine is answered, sooner or later.
WaitPmp(h) ==
    /\ Runs(h, "WAIT_PMP")
    /\ \/ UNCHANGED state
       \/ Enter(h, "ZERO_INIT_CHUNKS")
    /\ UNCHANGED <<image, mem, cursors>>

\* boot_do_zero_init_chunk
ZeroInit(z) ==
    mem' = [a \in 0..Top |->
               IF a \in z.execAddr..(z.execAddr + z.size - 1) THEN Zero ELSE mem[a]]

\* boot_zero_init_chunks_handler: one entry per call; the entry of size zero
\* behind the last one ends the table (and boot_download_chunks_onEntry
\* follows).
ZeroInitChunks(h) ==
    LET i == pZiChunk[h]
    IN  /\ Runs(h, "ZERO_INIT_CHUNKS")
        /\ \/ /\ i <= Len(image.zi)
              /\ IF image.zi[i].owner = h THEN ZeroInit(image.zi[i]) ELSE UNCHANGED mem
              /\ pZiChunk' = [pZiChunk EXCEPT ![h] = @ + 1]
              /\ UNCHANGED <<state, pChunk, chunkCount, subChunkOffset>>
           \/ /\ i > Len(image.zi)
              /\ Enter(h, "DOWNLOAD_CHUNKS")
              /\ pChunk' = [pChunk EXCEPT ![h] = IF NumChunks(h) = 0 THEN @ ELSE image.first[h] + 1]
              /\ chunkCount' = [chunkCount EXCEPT ![h] = IF NumChunks(h) = 0 THEN @ ELSE 0]
              /\ subChunkOffset' = [subChunkOffset EXCEPT ![h] = IF NumChunks(h) = 0 THEN @ ELSE 0]
              /\ UNCHANGED <<mem, pZiChunk>>
        /\ UNCHANGED <<image, ancilliaryData>>

\* HSS_PMP_CheckWrite: HSS_PMP_Init leaves every entry of the table inactive,
\* and with no active entry a write is permitted.
CheckWrite(h, addr, length) == TRUE

\* boot_do_download_chunk: Sub bytes, whatever the size of the chunk.
Download(c, offset) ==
    LET exec == c.execAddr + offset
        load == c.loadAddr + offset
    IN  mem' = [a \in 0..Top |-> IF a \in exec..(exec + Sub - 1) THEN load + (a - exec) ELSE mem[a]]

\* Mutant: the piece that reaches the end is not copied.
ChunkFinishedEarly(c, offset) == offset + Sub > c.size

ChunkFinished(c, offset) == offset > c.size

\* Mutant: a chunk of another hart is not passed over.
SkipChunkForgotten(h) == UNCHANGED <<mem, pChunk, chunkCount, subChunkOffset, ancilliaryData>>

\* Mutant: a chunk of another hart is counted.
SkipChunkCounted(h) ==
    /\ pChunk' = [pChunk EXCEPT ![h] = @ + 1]
    /\ chunkCount' = [chunkCount EXCEPT ![h] = @ + 1]
    /\ UNCHANGED <<mem, subChunkOffset, ancilliaryData>>

SkipChunk(h) ==
    /\ pChunk' = [pChunk EXCEPT ![h] = @ + 1]
    /\ UNCHANGED <<mem, chunkCount, subChunkOffset, ancilliaryData>>

\* One piece of an own chunk.
DownloadPiece(h, c) ==
    LET offset == subChunkOffset[h] + Sub
        finished == ChunkFinished(c, offset)
    IN  /\ Download(c, subChunkOffset[h])
        /\ ancilliaryData' = [ancilliaryData EXCEPT ![h] =
              IF c.anc /\ @ = 0 THEN c.execAddr ELSE @]
        /\ subChunkOffset' = [subChunkOffset EXCEPT ![h] = IF finished THEN 0 ELSE offset]
        /\ chunkCount' = [chunkCount EXCEPT ![h] = IF finished THEN @ + 1 ELSE @]
        /\ pChunk' = [pChunk EXCEPT ![h] = IF finished THEN @ + 1 ELSE @]

\* boot_download_chunks_handler
DownloadChunks(h) ==
    LET i == pChunk[h]
        more == NumChunks(h) # 0 /\ chunkCount[h] <= image.last[h] /\ i <= Len(image.chunks)
        c == image.chunks[i]
    IN  /\ Runs(h, "DOWNLOAD_CHUNKS")
        /\ \/ more /\ c.owner = h /\ CheckWrite(h, c.execAddr, c.size)
              /\ DownloadPiece(h, c) /\ UNCHANGED state
           \/ more /\ ~(c.owner = h /\ CheckWrite(h, c.execAddr, c.size))
              /\ SkipChunk(h) /\ UNCHANGED state
           \/ ~more /\ Enter(h, "DONE") /\ UNCHANGED <<mem, pChunk, chunkCount, subChunkOffset,
                                                       ancilliaryData>>
        /\ UNCHANGED <<image, pZiChunk>>

\* The machine has gone on to BOOT_OPENSBI_INIT or BOOT_COMPLETE.
Done(h) == Runs(h, "DONE") /\ UNCHANGED <<image, mem, state, cursors>>

Next == \E h \in U54 : WaitPmp(h) \/ ZeroInitChunks(h) \/ DownloadChunks(h) \/ Done(h)

Spec == Init /\ [][Next]_vars

\* The super-loop never stops.
FairSpec == Spec /\ WF_vars(Next)

-----------------------------------------------------------------------------
(* Properties                                                              *)

Region(c) == c.execAddr..(c.execAddr + c.size - 1)

\* The type invariant: the cursors stay inside the tables.
TypeOK ==
    /\ image \in Images
    /\ mem \in [0..Top -> Int]
    /\ turn \in U54
    /\ state \in [U54 -> {"WAIT_PMP", "ZERO_INIT_CHUNKS", "DOWNLOAD_CHUNKS", "DONE"}]
    /\ \A h \in U54 :
        /\ pZiChunk[h] \in 1..(Len(image.zi) + 1)
        /\ pChunk[h] \in 1..(Len(image.chunks) + 1)
        /\ chunkCount[h] \in 0..NumChunks(h)
        /\ subChunkOffset[h] \in 0..Top
        /\ ancilliaryData[h] \in 0..Top

\* "The E51 places chunks from the boot image to their correct location in
\* physical system memory *before* releasing the U54s from WFI"
\* (boot_do_download_chunk): once a machine has left DOWNLOAD_CHUNKS, every
\* byte of its chunks is the image's and every byte of its zi-chunks is zero,
\* and stays so while the other machines go on copying.
PayloadLoaded ==
    \A h \in U54 : state[h] = "DONE" =>
        /\ \A i \in DOMAIN image.chunks :
              LET c == image.chunks[i]
              IN  c.owner = h =>
                    \A a \in Region(c) : mem[a] = c.loadAddr + (a - c.execAddr)
        /\ \A i \in DOMAIN image.zi :
              LET z == image.zi[i] IN z.owner = h => \A a \in Region(z) : mem[a] = Zero

\* A machine that has started goes through both tables and finishes.
DownloadEnds ==
    \A h \in U54 : (state[h] # "WAIT_PMP") ~> (state[h] = "DONE")

=============================================================================
