------------------------------- MODULE IpiAlloc -------------------------------
(***************************************************************************)
(* The table of completion entries (ipi_completes, ssmb_ipi.c) when the    *)
(* E51 and U54s that run OpenSBI allocate from it at the same time.        *)
(* IPI_MessageAlloc is code of all harts and takes no lock: reading `used` *)
(* and setting it are separate steps here, so two harts may leave the      *)
(* search with the same entry.                                             *)
(*                                                                         *)
(* The E51 allocates for PMP_SETUP and for the launch messages and frees   *)
(* the entry when it is acknowledged or timed out.  A U54 allocates for    *)
(* the BOOT_REQUEST of a warm reboot and never frees it, or (Rproc) for    *)
(* the BOOT_REQUEST of a remoteproc start, which it frees when it cannot   *)
(* be delivered.  Transactions and status are those of SsmbIpi; here only  *)
(* the ownership of entries matters.                                       *)
(***************************************************************************)
EXTENDS Integers, FiniteSets

CONSTANTS
    NumU54,     \* U54 harts that run OpenSBI are 1..NumU54, the E51 is hart 0
    K,          \* IPI_MAX_NUM_OUTSTANDING_COMPLETES
    N,          \* IPI_MAX_NUM_QUEUE_MESSAGES
    MaxHeld,    \* bound on the entries the E51 waits for at a time
    MaxReq,     \* bound on the requests of each U54
    Rproc       \* the U54s' requests are remoteproc starts

ASSUME AllocAssumption ==
    /\ NumU54 \in Nat \ {0} /\ K \in Nat \ {0} /\ N \in Nat \ {0}
    /\ MaxHeld \in Nat \ {0} /\ MaxReq \in Nat /\ Rproc \in BOOLEAN

E51 == 0
U54 == 1..NumU54
Hart == 0..NumU54
Index == 0..(K - 1)

VARIABLES
    used,       \* ipi_completes[k].used
    pc,         \* where each hart is in alloc, deliver, free
    index,      \* its local index
    held,       \* entries the boot machines of the E51 have indices of
    queue,      \* BOOT_REQUESTs in the queue of each U54 to the E51
    reqs        \* history: requests each U54 has made

vars == <<used, pc, index, held, queue, reqs>>

Init ==
    /\ used = [k \in Index |-> FALSE]
    /\ pc = [h \in Hart |-> "idle"]
    /\ index = [h \in Hart |-> 0]
    /\ held = {}
    /\ queue = [u \in U54 |-> 0]
    /\ reqs = [u \in U54 |-> 0]

Goto(h, label) == pc' = [pc EXCEPT ![h] = label]

-----------------------------------------------------------------------------
(* IPI_MessageAlloc, IPI_MessageDeliver and IPI_MessageFree on hart h.     *)

\* Mutant: the search goes one entry too far.
SearchTooFar(h) ==
    /\ pc[h] = "search"
    /\ IF used[index[h]]
       THEN /\ index' = [index EXCEPT ![h] = @ + 1]
            /\ Goto(h, IF index[h] = K THEN "none" ELSE "search")
       ELSE Goto(h, "take") /\ UNCHANGED index
    /\ UNCHANGED <<used, held, queue, reqs>>

\* One iteration of the search: `used` is read.
Search(h) ==
    /\ pc[h] = "search"
    /\ IF used[index[h]]
       THEN /\ index' = [index EXCEPT ![h] = @ + 1]
            /\ Goto(h, IF index[h] = K - 1 THEN "none" ELSE "search")
       ELSE Goto(h, "take") /\ UNCHANGED index
    /\ UNCHANGED <<used, held, queue, reqs>>

\* The entry the search left off at is taken, whatever happened to it since.
Take(h) ==
    /\ pc[h] = "take"
    /\ used' = [used EXCEPT ![index[h]] = TRUE]
    /\ Goto(h, "deliver")
    /\ UNCHANGED <<index, held, queue, reqs>>

\* IPI_MessageFree: the assertion stops the hart.
MessageFree(h) ==
    /\ pc[h] = "free"
    /\ IF used[index[h]]
       THEN used' = [used EXCEPT ![index[h]] = FALSE] /\ Goto(h, "idle")
       ELSE UNCHANGED used /\ Goto(h, "halted")
    /\ index' = [index EXCEPT ![h] = 0]
    /\ UNCHANGED <<held, queue, reqs>>

-----------------------------------------------------------------------------
(* The E51 *)

\* A boot machine starts HSS_Boot_PMPSetupRequest or a launch message.
E51Request ==
    /\ pc[E51] = "idle"
    /\ Cardinality(held) < MaxHeld
    /\ Goto(E51, "search")
    /\ UNCHANGED <<used, index, held, queue, reqs>>

\* assert(result) behind IPI_MessageAlloc.
E51NoEntry ==
    /\ pc[E51] = "none"
    /\ Goto(E51, "exhausted")
    /\ UNCHANGED <<used, index, held, queue, reqs>>

\* IPI_MessageDeliver sends only for an entry in use (the queue of the target
\* has room here, a full one is a case of BootService).  The machine has the
\* index whether the message was sent or not; a PMP request that was not sent
\* frees the entry at once, a launch message leaves it.
E51Deliver ==
    /\ pc[E51] = "deliver"
    /\ held' = held \cup {index[E51]}
    /\ \/ Goto(E51, "idle") /\ index' = [index EXCEPT ![E51] = 0]
       \/ ~used[index[E51]] /\ Goto(E51, "free") /\ UNCHANGED index
    /\ UNCHANGED <<used, queue, reqs>>

\* Mutant: after a time-out the index is forgotten, the entry stays in use.
E51FinishForgets(k) ==
    /\ pc[E51] = "idle"
    /\ k \in held
    /\ held' = held \ {k}
    /\ UNCHANGED <<used, pc, index, queue, reqs>>

\* The message is acknowledged or timed out: free_msg_index.
E51Finish(k) ==
    /\ pc[E51] = "idle"
    /\ k \in held
    /\ held' = held \ {k}
    /\ index' = [index EXCEPT ![E51] = k]
    /\ Goto(E51, "free")
    /\ UNCHANGED <<used, queue, reqs>>

\* A boot machine consumes a BOOT_REQUEST; the entry is not touched.
E51Consume(u) ==
    /\ pc[E51] = "idle"
    /\ queue[u] > 0
    /\ queue' = [queue EXCEPT ![u] = @ - 1]
    /\ UNCHANGED <<used, pc, index, held, reqs>>

-----------------------------------------------------------------------------
(* A U54 in an ecall *)

U54Request(u) ==
    /\ pc[u] = "idle"
    /\ reqs[u] < MaxReq
    /\ reqs' = [reqs EXCEPT ![u] = @ + 1]
    /\ Goto(u, "search")
    /\ UNCHANGED <<used, index, held, queue>>

\* No entry: the remoteproc start gives up; the reboot ignores the result and
\* delivers with an uninitialised index, which may be that of any entry or out
\* of range, where an assertion stops the hart.
U54NoEntry(u) ==
    /\ pc[u] = "none"
    /\ \/ /\ Rproc
          /\ Goto(u, "idle")
          /\ index' = [index EXCEPT ![u] = 0]
       \/ /\ ~Rproc
          /\ \/ \E k \in Index : index' = [index EXCEPT ![u] = k] /\ Goto(u, "deliver")
             \/ index' = [index EXCEPT ![u] = 0] /\ Goto(u, "halted")
    /\ UNCHANGED <<used, held, queue, reqs>>

\* Mutant: the entry of a reboot request is freed once it is delivered.
U54DeliverFrees(u) ==
    /\ pc[u] = "deliver"
    /\ \/ /\ used[index[u]] /\ queue[u] < N
          /\ queue' = [queue EXCEPT ![u] = @ + 1]
          /\ Goto(u, "free")
          /\ UNCHANGED index
       \/ /\ ~used[index[u]] \/ queue[u] = N
          /\ Goto(u, IF Rproc THEN "free" ELSE "idle")
          /\ index' = [index EXCEPT ![u] = IF Rproc THEN @ ELSE 0]
          /\ UNCHANGED queue
    /\ UNCHANGED <<used, held, reqs>>

\* IPI_MessageDeliver of a BOOT_REQUEST; only the remoteproc start looks at
\* the result.
U54Deliver(u) ==
    /\ pc[u] = "deliver"
    /\ \/ /\ used[index[u]] /\ queue[u] < N
          /\ queue' = [queue EXCEPT ![u] = @ + 1]
          /\ Goto(u, "idle")
          /\ index' = [index EXCEPT ![u] = 0]
       \/ /\ ~used[index[u]] \/ queue[u] = N
          /\ Goto(u, IF Rproc THEN "free" ELSE "idle")
          /\ index' = [index EXCEPT ![u] = IF Rproc THEN @ ELSE 0]
          /\ UNCHANGED queue
    /\ UNCHANGED <<used, held, reqs>>

-----------------------------------------------------------------------------
Next ==
    \/ \E h \in Hart : Search(h) \/ Take(h) \/ MessageFree(h)
    \/ E51Request \/ E51NoEntry \/ E51Deliver
    \/ \E k \in Index : E51Finish(k)
    \/ \E u \in U54 : E51Consume(u) \/ U54Request(u) \/ U54NoEntry(u) \/ U54Deliver(u)

Spec == Init /\ [][Next]_vars

-----------------------------------------------------------------------------
(* Properties *)

PC == {"idle", "search", "take", "none", "deliver", "free", "exhausted", "halted"}

\* The type invariant.
TypeOK ==
    /\ used \in [Index -> BOOLEAN]
    /\ pc \in [Hart -> PC]
    /\ index \in [Hart -> 0..K]
    /\ \A h \in Hart : pc[h] \in {"search", "take", "deliver", "free"} => index[h] \in Index
    /\ held \subseteq Index
    /\ queue \in [U54 -> 0..N]
    /\ reqs \in [U54 -> 0..MaxReq]

\* An entry whose index a boot machine of the E51 keeps, to poll for the
\* acknowledgement and to free it then, is in use until the machine frees it:
\* no U54 that searches the table at the same time takes it away.
HeldStaysUsed == \A k \in held : used[k]

\* assert(IPI_DATA.ipi_completes[index].used) in IPI_MessageFree, on any hart.
FreeAssertHolds == \A h \in Hart : pc[h] = "free" => used[index[h]]

\* The requests the U54s have made, the nth of hart u as <<u, n>>.
Requests == {r \in U54 \X (1..MaxReq) : r[2] <= reqs[r[1]]}

\* IPI_MessageAlloc fails on the E51, where assert(result) follows, only when
\* the requests the U54s have made, whose entries nobody frees, and the
\* messages the E51 itself waits for account for all entries: a race for an
\* entry never costs more entries than there were requests.
ExhaustedOnlyByLeaks ==
    pc[E51] \in {"none", "exhausted"} => Cardinality(Requests) + Cardinality(held) >= K

=============================================================================
