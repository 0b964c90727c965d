------------------------------- MODULE SsmbIpi -------------------------------
(***************************************************************************)
(* The shared-memory mailbox between the E51 and the U54 harts             *)
(* (modules/ssmb/ipi/ssmb_ipi.c), used the way the boot firmware uses it:  *)
(* the E51 allocates a completion entry and posts a request to a U54; the  *)
(* U54 takes it in its software-interrupt trap, runs the handler and posts *)
(* an ACK; the E51 polls for ACKs and updates the completion entry.        *)
(*                                                                         *)
(* The memory is shared without locks or fences, so IPI_Send is modelled   *)
(* store by store (msg_type first, transaction_id next, last[] and the     *)
(* interrupt at the end), and every reader may run between two stores.     *)
(* Requests here are those whose handler returns to IPI_ConsumeIntent      *)
(* (PMP_SETUP, DDR_TRAIN); GOTO and OPENSBI_INIT leave the firmware and    *)
(* are modelled with the boot service.                                     *)
(***************************************************************************)
EXTENDS Integers, FiniteSets, Sequences

CONSTANTS
    NumU54,     \* U54 harts are 1..NumU54, the E51 is hart 0
    N,          \* IPI_MAX_NUM_QUEUE_MESSAGES
    K,          \* IPI_MAX_NUM_OUTSTANDING_COMPLETES
    MaxTx,      \* bound on the transactions the E51 opens
    IpiDev      \* OpenSBI has registered its IPI device: MSIP can be cleared

ASSUME SizeAssumption ==
    /\ NumU54 \in Nat \ {0}
    /\ N \in Nat \ {0}
    /\ K \in Nat \ {0}
    /\ MaxTx \in Nat
    /\ IpiDev \in BOOLEAN

U54 == 1..NumU54
Slot == 0..(N - 1)
Index == 0..(K - 1)
TxId == 0..MaxTx

None == "NO_MESSAGE"
Intents == <<"PMP_SETUP", "DDR_TRAIN">>      \* scan order of HSS_U54_HandleIPI
Request == {"PMP_SETUP", "DDR_TRAIN"}
Ack == {"ACK_COMPLETE", "ACK_PENDING"}
Status == {"FAIL", "SUCCESS", "PENDING", "IDLE"}

VARIABLES
    toU54,      \* queue E51 -> u: per slot msg_type, transaction_id, and req,
                \* a history field: the transaction being published there
    toE51,      \* queue u -> E51: per slot msg_type, transaction_id
    last,       \* txId_per_queue.last of the queue u -> E51
    shadow,     \* txId_per_queue.shadow of the queue u -> E51
    count,      \* pending count of the queue u -> E51
    completes,  \* ipi_completes
    myTx,       \* my_transaction_id of the E51
    ddr,        \* ddr_service: "init", "train" (request sent), "trained"
    msip,       \* the CLINT software-interrupt bit of each U54
    pc,         \* of the E51, and its locals:
    hart,       \*   the U54 it posts to, polls or serves
    slot,       \*   the slot IPI_Send found
    tx,         \*   the transaction IPI_Send posts
    status,     \*   the result of IPI_PollReceive so far
    upc,        \* of each U54, and its locals:
    intent,     \*   the position of the scan in Intents
    found,      \*   intentFound of HSS_U54_HandleIPI
    uslot,      \*   the slot the scan looks at, then the request's slot
    utx,        \*   the transaction of the ACK
    ackSlot,    \*   the ACK's slot
    handled     \* history: transactions whose handler was started

mailbox == <<toU54, toE51, last, shadow, count>>
e51 == <<pc, hart, slot, tx, status>>
u54 == <<upc, intent, found, uslot, utx, ackSlot>>
vars == <<mailbox, completes, myTx, ddr, msip, e51, u54, handled>>

\* i is the first of the positions S: what the code's linear searches find.
IsFirst(i, S) == i \in S /\ \A j \in S : i <= j

Occupied(q) == {i \in Slot : q[i].msg_type # None}

-----------------------------------------------------------------------------
Init ==
    /\ toU54 = [u \in U54 |->
                  [i \in Slot |-> [msg_type |-> None, transaction_id |-> 0, req |-> 0]]]
    /\ toE51 = [u \in U54 |->
                  [i \in Slot |-> [msg_type |-> None, transaction_id |-> 0]]]
    /\ last = [u \in U54 |-> 0]
    /\ shadow = [u \in U54 |-> 0]
    /\ count = [u \in U54 |-> 0]
    /\ completes = [k \in Index |->
                      [used |-> FALSE, transaction_id |-> 0, status |-> "FAIL"]]
    /\ myTx = 1
    /\ ddr = "init"
    /\ msip = [u \in U54 |-> FALSE]
    /\ pc = "loop" /\ hart = 1 /\ slot = 0 /\ tx = 0 /\ status = FALSE
    /\ upc = [u \in U54 |-> "wfi"]
    /\ intent = [u \in U54 |-> 1]
    /\ found = [u \in U54 |-> FALSE]
    /\ uslot = [u \in U54 |-> 0]
    /\ utx = [u \in U54 |-> 0]
    /\ ackSlot = [u \in U54 |-> 0]
    /\ handled = {}

-----------------------------------------------------------------------------
(* The E51: a single thread that posts requests, polls, checks and frees.  *)

\* Mutant: IPI_Send takes the first slot, free or not.
StoreTypeOverwrites(u, type, t) ==
    /\ toU54' = [toU54 EXCEPT ![u][0] =
                    [msg_type |-> type, transaction_id |-> @.transaction_id, req |-> t]]
    /\ pc' = "body" /\ hart' = u /\ slot' = 0 /\ tx' = t
    /\ UNCHANGED status

\* First store of IPI_Send: the message type makes the slot visible.
StoreType(u, type, t) ==
    \E i \in Slot :
        /\ IsFirst(i, {j \in Slot : toU54[u][j].msg_type = None})
        /\ toU54' = [toU54 EXCEPT ![u][i] =
                        [msg_type |-> type, transaction_id |-> @.transaction_id, req |-> t]]
        /\ pc' = "body" /\ hart' = u /\ slot' = i /\ tx' = t
        /\ UNCHANGED status

QueueFull(u) == \A i \in Slot : toU54[u][i].msg_type # None

\* HSS_Boot_PMPSetupRequest: IPI_MessageAlloc, then IPI_MessageDeliver up to
\* the first store; with no slot free the entry is given back.  (With no entry
\* free the E51 stops in an assertion, so the step is not taken.)
\* The boot service starts once EVENT_DDR_TRAINED is notified.
PMPSetupRequest(u) ==
    /\ pc = "loop"
    /\ ddr = "trained"
    /\ myTx <= MaxTx
    /\ \E k \in Index :
        /\ IsFirst(k, {j \in Index : ~completes[j].used})
        /\ completes' = [completes EXCEPT ![k] =
              [used |-> ~QueueFull(u), transaction_id |-> myTx, status |-> "PENDING"]]
    /\ myTx' = myTx + 1
    /\ \/ StoreType(u, "PMP_SETUP", myTx)
       \/ QueueFull(u) /\ UNCHANGED <<toU54, e51>>
    /\ UNCHANGED <<toE51, last, shadow, count, ddr, msip, u54, handled>>

\* HSS_DDR_Train: an IPI_Send of transaction 0 to U54_1, with no completion
\* entry; the ddr machine does it once.
DdrTrain ==
    /\ pc = "loop"
    /\ ddr = "init"
    /\ ddr' = "train"
    /\ StoreType(1, "DDR_TRAIN", 0)
    /\ UNCHANGED <<toE51, last, shadow, count, completes, myTx, msip, u54, handled>>

\* Second store of IPI_Send: transaction_id (and the arguments).
StoreBody ==
    /\ pc = "body"
    /\ toU54' = [toU54 EXCEPT ![hart][slot] =
                    [msg_type |-> @.msg_type, transaction_id |-> tx, req |-> @.req]]
    /\ pc' = "raise"
    /\ UNCHANGED <<hart, slot, tx, status, toE51, last, shadow, count, completes, myTx, ddr, msip, u54, handled>>

\* End of IPI_Send: CLINT_Raise_MSIP (no U54 reads last[] of its own queue).
RaiseMSIP ==
    /\ pc = "raise"
    /\ msip' = [msip EXCEPT ![hart] = TRUE]
    /\ pc' = "loop" /\ hart' = 1 /\ slot' = 0 /\ tx' = 0
    /\ UNCHANGED <<status, mailbox, completes, myTx, ddr, u54, handled>>

\* IPI_MessageFree, after completion or after a time-out.
MessageFree(k) ==
    /\ pc = "loop"
    /\ completes[k].used
    /\ completes' = [completes EXCEPT ![k] =
          [used |-> FALSE, transaction_id |-> @.transaction_id, status |-> @.status]]
    /\ UNCHANGED <<mailbox, myTx, ddr, msip, e51, u54, handled>>

\* ipiPoll_monitoring_handler enters IPI_PollReceive.
StartPoll ==
    /\ pc = "loop"
    /\ pc' = "poll"
    /\ UNCHANGED <<hart, slot, tx, status, mailbox, completes, myTx, ddr, msip, u54, handled>>

\* One iteration of IPI_PollReceive: queue hart -> E51.
PollReceive ==
    LET new == shadow[hart] # last[hart]
    IN  /\ pc = "poll"
        /\ shadow' = [shadow EXCEPT ![hart] = last[hart]]
        /\ count' = IF new
                    THEN [count EXCEPT ![hart] = Cardinality(Occupied(toE51[hart]))]
                    ELSE count
        /\ \/ /\ hart < NumU54
              /\ status' = (status \/ new) /\ hart' = hart + 1 /\ pc' = "poll"
           \/ /\ hart = NumU54
              /\ pc' = (IF status \/ new THEN "gobble" ELSE "loop")
              /\ status' = FALSE /\ hart' = 1
        /\ UNCHANGED <<slot, tx, toU54, toE51, last, completes, myTx, ddr, msip, u54, handled>>

\* Mutant: the first entry in use, whatever transaction it holds.
UpdateStatusOfAny(t) ==
    \/ \E k \in Index :
        /\ IsFirst(k, {j \in Index : completes[j].used})
        /\ completes' = [completes EXCEPT ![k] =
              [used |-> @.used, transaction_id |-> @.transaction_id, status |-> "IDLE"]]
    \/ (\A k \in Index : ~completes[k].used) /\ UNCHANGED completes

\* IPI_MessageUpdateStatus(t, IPI_IDLE): the first entry holding t, in use or not.
MessageUpdateStatus(t) ==
    \/ \E k \in Index :
        /\ IsFirst(k, {j \in Index : completes[j].transaction_id = t})
        /\ completes' = [completes EXCEPT ![k] =
              [used |-> @.used, transaction_id |-> @.transaction_id, status |-> "IDLE"]]
    \/ /\ \A k \in Index : completes[k].transaction_id # t
       /\ UNCHANGED completes

\* Mutant: the pending count is not decremented.
ConsumeAckUncounted(u, type) ==
    \/ \E i \in Slot :
        /\ IsFirst(i, {j \in Slot : toE51[u][j].msg_type = type})
        /\ MessageUpdateStatus(toE51[u][i].transaction_id)
        /\ toE51' = [toE51 EXCEPT ![u][i] =
                        [msg_type |-> None, transaction_id |-> @.transaction_id]]
        /\ UNCHANGED count
    \/ /\ \A i \in Slot : toE51[u][i].msg_type # type
       /\ UNCHANGED <<toE51, count, completes>>

\* IPI_ConsumeIntent on the E51 for one ACK type: IPI_ACK_IPIHandler, then the
\* slot is cleared.
ConsumeAck(u, type) ==
    \/ \E i \in Slot :
        /\ IsFirst(i, {j \in Slot : toE51[u][j].msg_type = type})
        /\ count' = [count EXCEPT ![u] = IF @ = 0 THEN 0 ELSE @ - 1]
        /\ MessageUpdateStatus(toE51[u][i].transaction_id)
        /\ toE51' = [toE51 EXCEPT ![u][i] =
                        [msg_type |-> None, transaction_id |-> @.transaction_id]]
    \/ /\ \A i \in Slot : toE51[u][i].msg_type # type
       /\ UNCHANGED <<toE51, count, completes>>

NextHart ==
    \/ hart = NumU54 /\ hart' = 1 /\ pc' = "loop"
    \/ hart < NumU54 /\ hart' = hart + 1 /\ pc' = "gobble"

\* The monitoring handler's second loop, first ConsumeIntent of a hart.
GobbleComplete ==
    /\ pc = "gobble"
    /\ \/ /\ count[hart] # 0
          /\ ConsumeAck(hart, "ACK_COMPLETE")
          /\ pc' = "gobble2" /\ UNCHANGED hart
       \/ /\ count[hart] = 0
          /\ NextHart
          /\ UNCHANGED <<toE51, count, completes>>
    /\ UNCHANGED <<slot, tx, status, toU54, last, shadow, myTx, ddr, msip, u54, handled>>

\* The second ConsumeIntent of a hart.
GobblePending ==
    /\ pc = "gobble2"
    /\ ConsumeAck(hart, "ACK_PENDING")
    /\ NextHart
    /\ UNCHANGED <<slot, tx, status, toU54, last, shadow, myTx, ddr, msip, u54, handled>>

-----------------------------------------------------------------------------
(* A U54: waits for its software interrupt, scans the intents in order.    *)

Trap(u) ==
    /\ upc[u] = "wfi"
    /\ msip[u]
    /\ upc' = [upc EXCEPT ![u] = "scan"]
    /\ UNCHANGED <<intent, found, uslot, utx, ackSlot,
                   mailbox, completes, myTx, ddr, msip, e51, handled>>

\* Mutant: the scan runs past the last intent.
NextIntentOffByOne(u) ==
    /\ upc' = [upc EXCEPT ![u] = IF intent[u] <= Len(Intents) THEN "scan" ELSE "done"]
    /\ intent' = [intent EXCEPT ![u] = IF @ <= Len(Intents) THEN @ + 1 ELSE 1]
    /\ uslot' = [uslot EXCEPT ![u] = 0]
    /\ utx' = [utx EXCEPT ![u] = 0]
    /\ ackSlot' = [ackSlot EXCEPT ![u] = 0]

\* The scan goes on with the next intent.
NextIntent(u) ==
    /\ upc' = [upc EXCEPT ![u] = IF intent[u] < Len(Intents) THEN "scan" ELSE "done"]
    /\ intent' = [intent EXCEPT ![u] = IF @ < Len(Intents) THEN @ + 1 ELSE 1]
    /\ uslot' = [uslot EXCEPT ![u] = 0]
    /\ utx' = [utx EXCEPT ![u] = 0]
    /\ ackSlot' = [ackSlot EXCEPT ![u] = 0]

\* One iteration of the search loop of IPI_ConsumeIntent(E51, intent); a slot
\* of the wanted type ends the search and its handler is called.
ConsumeIntent(u) ==
    LET msg == toU54[u][uslot[u]]
        type == Intents[intent[u]]
    IN  /\ upc[u] = "scan"
        /\ \/ /\ msg.msg_type = type
              /\ upc' = [upc EXCEPT ![u] = "handler"]
              /\ found' = [found EXCEPT ![u] = TRUE]
              /\ handled' = handled \cup {msg.req}
              /\ UNCHANGED <<intent, uslot, utx, ackSlot>>
           \/ /\ msg.msg_type # type
              /\ uslot[u] < N - 1
              /\ uslot' = [uslot EXCEPT ![u] = @ + 1]
              /\ UNCHANGED <<upc, intent, utx, ackSlot, found, handled>>
           \/ /\ msg.msg_type # type
              /\ uslot[u] = N - 1
              /\ NextIntent(u)
              /\ UNCHANGED <<found, handled>>
        /\ UNCHANGED <<mailbox, completes, myTx, ddr, msip, e51>>

\* What the handlers in the registry return: HSS_Boot_PMPSetupHandler always
\* IPI_SUCCESS, HSS_DDR_Train_IPIHandler IPI_IDLE.
HandlerResult(type) == IF type = "PMP_SETUP" THEN {"SUCCESS"} ELSE {"IDLE"}

\* The ACK IPI_ConsumeIntent sends for a handler's result, None for no ACK.
AckFor(result) ==
    CASE result = "IDLE" -> None
      [] result = "PENDING" -> "ACK_PENDING"
      [] OTHER -> "ACK_COMPLETE"

\* The handler returns; the ACK's transaction_id is re-read from the slot.
\* A full queue drops the ACK: the result of IPI_Send is ignored.
HandlerReturns(u) ==
    LET msg == toU54[u][uslot[u]]
    IN  /\ upc[u] = "handler"
        /\ ddr' = IF msg.msg_type = "DDR_TRAIN" THEN "trained" ELSE ddr
        /\ \E result \in HandlerResult(msg.msg_type) :
            \/ \E i \in Slot :
                /\ AckFor(result) # None
                /\ IsFirst(i, {j \in Slot : toE51[u][j].msg_type = None})
                /\ toE51' = [toE51 EXCEPT ![u][i] =
                                [msg_type |-> AckFor(result),
                                 transaction_id |-> @.transaction_id]]
                /\ upc' = [upc EXCEPT ![u] = "ackBody"]
                /\ ackSlot' = [ackSlot EXCEPT ![u] = i]
                /\ utx' = [utx EXCEPT ![u] = msg.transaction_id]
            \/ /\ \/ AckFor(result) = None
                  \/ \A i \in Slot : toE51[u][i].msg_type # None
               /\ upc' = [upc EXCEPT ![u] = "clear"]
               /\ UNCHANGED <<toE51, utx, ackSlot>>
        /\ UNCHANGED <<intent, found, uslot, toU54, last, shadow, count, completes, myTx,
                       msip, e51, handled>>

StoreAckBody(u) ==
    /\ upc[u] = "ackBody"
    /\ toE51' = [toE51 EXCEPT ![u][ackSlot[u]] =
                    [msg_type |-> @.msg_type, transaction_id |-> utx[u]]]
    /\ upc' = [upc EXCEPT ![u] = "ackLast"]
    /\ UNCHANGED <<intent, found, uslot, utx, ackSlot, toU54, last, shadow, count,
                   completes, myTx, ddr, msip, e51, handled>>

StoreAckLast(u) ==
    /\ upc[u] = "ackLast"
    /\ last' = [last EXCEPT ![u] = utx[u]]
    /\ upc' = [upc EXCEPT ![u] = "clear"]
    /\ UNCHANGED <<intent, found, uslot, utx, ackSlot, toU54, toE51, shadow, count,
                   completes, myTx, ddr, msip, e51, handled>>

\* Mutant: the request stays in its slot.
ClearRequestForgotten(u) ==
    /\ upc[u] = "clear"
    /\ NextIntent(u)
    /\ UNCHANGED <<found, mailbox, completes, myTx, ddr, msip, e51, handled>>

\* IPI_ConsumeIntent clears the request slot last.
ClearRequest(u) ==
    /\ upc[u] = "clear"
    /\ toU54' = [toU54 EXCEPT ![u][uslot[u]] =
                    [msg_type |-> None, transaction_id |-> @.transaction_id, req |-> @.req]]
    /\ NextIntent(u)
    /\ UNCHANGED <<found, toE51, last, shadow, count, completes, myTx, ddr, msip, e51, handled>>

\* Mutant: the trap clears MSIP itself, as a commented-out call would have.
TrapReturnClears(u) ==
    /\ upc[u] = "done"
    /\ upc' = [upc EXCEPT ![u] = "wfi"]
    /\ found' = [found EXCEPT ![u] = FALSE]
    /\ msip' = [msip EXCEPT ![u] = FALSE]
    /\ UNCHANGED <<intent, uslot, utx, ackSlot, mailbox, completes, myTx, ddr, e51, handled>>

\* End of the trap: with no intent found sbi_trap_handler runs, and
\* sbi_ipi_process clears MSIP once an IPI device is registered.
TrapReturn(u) ==
    /\ upc[u] = "done"
    /\ upc' = [upc EXCEPT ![u] = "wfi"]
    /\ found' = [found EXCEPT ![u] = FALSE]
    /\ msip' = [msip EXCEPT ![u] = @ /\ (found[u] \/ ~IpiDev)]
    /\ UNCHANGED <<intent, uslot, utx, ackSlot, mailbox, completes, myTx, ddr, e51, handled>>

-----------------------------------------------------------------------------
E51Step ==
    \/ \E u \in U54 : PMPSetupRequest(u)
    \/ DdrTrain
    \/ StoreBody \/ RaiseMSIP
    \/ \E k \in Index : MessageFree(k)
    \/ StartPoll \/ PollReceive \/ GobbleComplete \/ GobblePending

U54Step(u) ==
    \/ Trap(u) \/ ConsumeIntent(u) \/ HandlerReturns(u)
    \/ StoreAckBody(u) \/ StoreAckLast(u) \/ ClearRequest(u) \/ TrapReturn(u)

Next == E51Step \/ \E u \in U54 : U54Step(u)

Spec == Init /\ [][Next]_vars

\* The E51's super-loop never stops and runs the ipi_poll machine in every
\* pass; a U54 never stops executing.
Fairness ==
    /\ WF_vars(StoreBody \/ RaiseMSIP)
    /\ SF_vars(StartPoll)
    /\ WF_vars(PollReceive \/ GobbleComplete \/ GobblePending)
    /\ \A u \in U54 : WF_vars(U54Step(u))

FairSpec == Spec /\ Fairness

-----------------------------------------------------------------------------
(* Properties                                                              *)

E51PC == {"loop", "body", "raise", "poll", "gobble", "gobble2"}
U54PC == {"wfi", "scan", "handler", "ackBody", "ackLast", "clear", "done"}

RequestMsg == [msg_type : Request \cup {None}, transaction_id : TxId, req : TxId]
AckMsg == [msg_type : Ack \cup {None}, transaction_id : TxId]
Complete == [used : BOOLEAN, transaction_id : TxId, status : Status]

\* The type invariant.
TypeOK ==
    /\ toU54 \in [U54 -> [Slot -> RequestMsg]]
    /\ toE51 \in [U54 -> [Slot -> AckMsg]]
    /\ last \in [U54 -> TxId]
    /\ shadow \in [U54 -> TxId]
    /\ count \in [U54 -> 0..N]
    /\ completes \in [Index -> Complete]
    /\ myTx \in 1..(MaxTx + 1)
    /\ ddr \in {"init", "train", "trained"}
    /\ msip \in [U54 -> BOOLEAN]
    /\ pc \in E51PC /\ hart \in U54 /\ slot \in Slot /\ tx \in TxId /\ status \in BOOLEAN
    /\ upc \in [U54 -> U54PC]
    /\ intent \in [U54 -> {1, 2}]
    /\ found \in [U54 -> BOOLEAN]
    /\ uslot \in [U54 -> Slot]
    /\ utx \in [U54 -> TxId]
    /\ ackSlot \in [U54 -> Slot]
    /\ handled \subseteq TxId

\* IPI_MessageCheckIfComplete(k) for an allocated entry.
MessageCheckIfComplete(k) == completes[k].used /\ completes[k].status # "PENDING"

\* The E51 never sees a transaction as complete whose handler has not started
\* on the U54: neither a late ACK for a freed entry nor one that carries the
\* slot's previous transaction_id (read before IPI_Send stored the new one)
\* completes a request that is still waiting.
CompletionImpliesHandled ==
    \A k \in Index :
        MessageCheckIfComplete(k) => completes[k].transaction_id \in handled

\* IPI_ConsumeIntent runs the handler of a request at most once, although the
\* slot stays occupied during the handler and the E51 may still be storing
\* into it.
HandledOnce ==
    [][\A u \in U54 :
         (upc[u] = "scan" /\ upc'[u] = "handler") =>
             toU54[u][uslot'[u]].req \notin handled \ {0}]_vars

\* The pending count the E51 goes by never promises more messages than the
\* queue holds, although the U54 adds messages while the E51 counts.
CountNeverOverstates ==
    \A u \in U54 : count[u] <= Cardinality(Occupied(toE51[u]))

\* A U54 that waits with its interrupt bit clear has no request it was told
\* of: before OpenSBI registers its IPI device nothing clears MSIP, so a
\* request raised while the U54 was scanning is found by the next trap.
NoStrandedRequest ==
    \A u \in U54 :
        (upc[u] = "wfi" /\ ~msip[u]) =>
            \A i \in Occupied(toU54[u]) :
                pc \in {"body", "raise"} /\ hart = u /\ slot = i

\* Every PMP_SETUP posted to a U54 is eventually taken and its slot freed.
RequestsTaken ==
    \A u \in U54, i \in Slot :
        (toU54[u][i].msg_type = "PMP_SETUP") ~> (toU54[u][i].msg_type = None)

\* The inductive strengthening of CompletionImpliesHandled and HandledOnce.
Busy == {"handler", "ackBody", "ackLast", "clear"}
Known == handled \cup {0}

\* Transaction numbers in use were all allocated; entries in use have one.
AllocatedTx ==
    /\ handled \subseteq 0..(myTx - 1)
    /\ tx < myTx
    /\ \A u \in U54, i \in Slot : toU54[u][i].req < myTx
    /\ \A k \in Index : completes[k].used =>
          completes[k].transaction_id >= 1

\* What a U54 may read as transaction_id: the request's own, or a leftover of
\* an earlier request of that slot, which was handled.
LeftoversHandled ==
    \A u \in U54, i \in Slot :
        LET m == toU54[u][i]
        IN  m.transaction_id \in Known \/ (m.msg_type # None /\ m.transaction_id = m.req)

\* Between the two stores of IPI_Send the slot is the E51's request, or the
\* U54 has already taken it.
PublishedOrTaken ==
    pc = "body" =>
        LET m == toU54[hart][slot]
        IN  m.req = tx /\ (m.msg_type # None \/ tx \in Known)

\* A U54 keeps the slot it works on occupied.
BusySlotOccupied ==
    \A u \in U54 : upc[u] \in Busy =>
        LET m == toU54[u][uslot[u]] IN m.msg_type # None /\ m.req \in handled

\* ACKs, complete or half written, only name handled requests.
AcksKnown ==
    \A u \in U54 : /\ utx[u] \in Known
                   /\ \A i \in Slot : toE51[u][i].transaction_id \in Known

\* A request waits in one slot only, and a slot whose request was handled is
\* the one its U54 is working on.
OneSlotPerRequest ==
    \A u, v \in U54, i, j \in Slot :
        (/\ toU54[u][i].msg_type # None /\ toU54[v][j].msg_type # None
         /\ toU54[u][i].req = toU54[v][j].req /\ toU54[u][i].req # 0) => u = v /\ i = j

HandledOnlyWhileBusy ==
    \A u \in U54, i \in Slot :
        (/\ toU54[u][i].msg_type # None
         /\ toU54[u][i].req \in handled \ {0}) => upc[u] \in Busy /\ uslot[u] = i

\* What a step of IPI_Send or IPI_ConsumeIntent relies on and re-establishes
\* when it touches the shared slots.
MailboxInv ==
    /\ AllocatedTx /\ LeftoversHandled /\ PublishedOrTaken /\ BusySlotOccupied
    /\ AcksKnown /\ OneSlotPerRequest /\ HandledOnlyWhileBusy
    /\ CompletionImpliesHandled

\* What the mailbox promises to the boot service, as an abstract service.
Service == INSTANCE RequestService WITH
    opened <- 1..(myTx - 1),
    ran <- handled \ {0},
    closed <- {t \in 1..(myTx - 1) :
                 \A k \in Index : completes[k].used => completes[k].transaction_id # t},
    reported <- {completes[k].transaction_id : k \in {j \in Index : MessageCheckIfComplete(j)}}

\* Every step of the mailbox is a step of the abstract request service:
\* requests open in order, run at most once, are reported complete only after
\* they ran and never after they were closed.
ImplementsRequestService == Service!Spec

=============================================================================
