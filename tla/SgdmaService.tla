---------------------------- MODULE SgdmaService ----------------------------
(***************************************************************************)
(* sgdma_service.c: the E51 takes the scatter-gather request of a U54 and  *)
(* copies the blocks it lists, at most one piece of                        *)
(* MAX_SGDMA_SIZE_PER_LOOP_ITER per pass.  A block is its size in pieces   *)
(* (rounded up, zero included); what the copy writes is not modelled.      *)
(***************************************************************************)
EXTENDS Platform, Sequences

CONSTANT Blocks         \* sizes of the blocks of a request, in pieces

ASSUME BlocksAssumption == Blocks \in Seq(Nat)

VARIABLES
    sgdma,              \* state of the machine
    nextHart,           \* i, the hart the idle state looks at next
    block,              \* pBlockDesc: position in Blocks, 0 for NULL
    remaining,          \* remaining_in_current_block
    activeHart

sgdmaVars == <<sgdma, nextHart, block, remaining, activeHart>>

SgdmaInit ==
    /\ sgdma = "init"
    /\ nextHart = 1
    /\ block = 0
    /\ remaining = 0
    /\ activeHart = E51

SgdmaRequest(u) == <<u, E51, "SCATTERGATHER_DMA">>

sgdma_init_handler ==
    /\ sgdma = "init"
    /\ sgdma' = "idle"
    /\ UNCHANGED <<nextHart, block, remaining, activeHart, platformVars>>

\* HSS_SGDMA_IPIHandler with the rest of IPI_ConsumeIntent: the request is
\* acknowledged as complete before anything is copied.
SgdmaAccept(u) ==
    /\ count' = [count EXCEPT ![ToE51(u)] = OneLess(@)]
    /\ mail' = (mail \ {SgdmaRequest(u)}) \cup {<<E51, u, "ACK_COMPLETE">>}
    /\ block' = 1
    /\ activeHart' = u
    /\ sgdma' = "transferring"
    /\ fresh' = fresh \cup {IPI_CalculateQueueIndex(E51, u)}

\* Mutant: the number of peers is one too many.
sgdma_idle_handler_over ==
    /\ sgdma = "idle"
    /\ IF count[nextHart] > 0 /\ SgdmaRequest(nextHart) \in mail
       THEN SgdmaAccept(nextHart)
       ELSE UNCHANGED <<count, mail, fresh, block, activeHart, sgdma>>
    /\ nextHart' = (nextHart + 1) % 6
    /\ UNCHANGED <<remaining, triggers, resetReq>>

\* The idle state asks for the count of the queue whose *index* is the hart
\* number: queues 0 to 3 are those from the E51 to the U54s, queue 4 is the
\* one from U54_1.
sgdma_idle_handler ==
    /\ sgdma = "idle"
    /\ IF count[nextHart] > 0 /\ SgdmaRequest(nextHart) \in mail
       THEN SgdmaAccept(nextHart)
       ELSE UNCHANGED <<count, mail, fresh, block, activeHart, sgdma>>
    /\ nextHart' = (nextHart + 1) % 5
    /\ UNCHANGED <<remaining, triggers, resetReq>>

\* Mutant: the position in the list does not move on after a block.
sgdma_transferring_handler_stuck ==
    /\ sgdma = "transferring"
    /\ IF block <= Len(Blocks)
       THEN /\ remaining' = OneLess(IF remaining = 0 THEN Blocks[block] ELSE remaining)
            /\ UNCHANGED <<sgdma, block, activeHart>>
       ELSE /\ sgdma' = "idle"
            /\ block' = 0
            /\ activeHart' = E51
            /\ UNCHANGED remaining
    /\ UNCHANGED <<nextHart, platformVars>>

\* One piece of the current block, or the end of the list (ext is zero).
sgdma_transferring_handler ==
    /\ sgdma = "transferring"
    /\ IF block <= Len(Blocks)
       THEN /\ remaining' = OneLess(IF remaining = 0 THEN Blocks[block] ELSE remaining)
            /\ block' = IF remaining' = 0 THEN block + 1 ELSE block
            /\ UNCHANGED <<sgdma, activeHart>>
       ELSE /\ sgdma' = "idle"
            /\ block' = 0
            /\ activeHart' = E51
            /\ UNCHANGED remaining
    /\ UNCHANGED <<nextHart, platformVars>>

SgdmaStep == sgdma_init_handler \/ sgdma_idle_handler \/ sgdma_transferring_handler

SgdmaTypeOK ==
    /\ sgdma \in {"init", "idle", "transferring"}
    /\ nextHart \in 0..4
    /\ block \in 0..(Len(Blocks) + 1)
    /\ remaining \in Nat
    /\ activeHart \in Harts \cup {E51}

=============================================================================
