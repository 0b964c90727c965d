---------------------------- MODULE SsmbIpiProofs ----------------------------
(***************************************************************************)
(* Proofs about the mailbox for any number of U54s, queue slots,           *)
(* completion entries and transactions: requests are handled once and      *)
(* reported only when handled; every step is a step of RequestService, the *)
(* pending count never overstates a queue, and no request is stranded      *)
(* while nothing clears MSIP.                                              *)
(***************************************************************************)
EXTENDS SsmbIpi, FiniteSetTheorems, TLAPS

\* A queue never counts more messages than it has slots.
LEMMA OccupiedBound ==
    ASSUME NEW q
    PROVE  Cardinality(Occupied(q)) \in 0..N
<1>1. IsFiniteSet(Slot) /\ Cardinality(Slot) = N
  BY FS_Interval, SizeAssumption DEF Slot
<1>2. Occupied(q) \subseteq Slot
  BY DEF Occupied
<1>3. QED
  BY <1>1, <1>2, FS_Subset, FS_CardinalityType, SizeAssumption

\* The initial values are in range, and so are the successors of a hart, a
\* slot, a count and a transaction number.
LEMMA Ranges ==
    /\ 1 \in U54 /\ 0 \in Slot /\ 0 \in TxId
    /\ \A u \in U54 : u < NumU54 => u + 1 \in U54
    /\ \A i \in Slot : i < N - 1 => i + 1 \in Slot
    /\ \A c \in 0..N : c # 0 => c - 1 \in 0..N
    /\ \A t \in 1..(MaxTx + 1) : t <= MaxTx => t \in TxId /\ t + 1 \in 1..(MaxTx + 1)
BY SizeAssumption DEF U54, Slot, TxId

\* The initial state is well typed.
LEMMA TypeInit == Init => TypeOK
<1> SUFFICES ASSUME Init PROVE TypeOK
  OBVIOUS
<1>1. toU54 \in [U54 -> [Slot -> RequestMsg]] /\ toE51 \in [U54 -> [Slot -> AckMsg]]
  BY Ranges DEF Init, RequestMsg, AckMsg
<1>2. completes \in [Index -> Complete]
  BY Ranges DEF Init, Complete, Status
<1>3. count \in [U54 -> 0..N] /\ myTx \in 1..(MaxTx + 1)
  BY SizeAssumption DEF Init
<1>4. QED
  BY <1>1, <1>2, <1>3, Ranges DEF Init, TypeOK, E51PC, U54PC

\* The first store of IPI_Send keeps the queue to the U54 well typed.
LEMMA StoreTypeOK ==
    ASSUME TypeOK, NEW u \in U54, NEW type \in Request, NEW t \in TxId,
           StoreType(u, type, t)
    PROVE  /\ toU54' \in [U54 -> [Slot -> RequestMsg]]
           /\ pc' \in E51PC /\ hart' \in U54 /\ slot' \in Slot /\ tx' \in TxId
           /\ status' \in BOOLEAN
<1>1. PICK i \in Slot :
        /\ toU54' = [toU54 EXCEPT ![u][i] =
              [msg_type |-> type, transaction_id |-> toU54[u][i].transaction_id, req |-> t]]
        /\ pc' = "body" /\ hart' = u /\ slot' = i /\ tx' = t /\ status' = status
  BY DEF StoreType
<1>2. toU54[u][i].transaction_id \in TxId
  BY DEF TypeOK, RequestMsg
<1>3. [msg_type |-> type, transaction_id |-> toU54[u][i].transaction_id, req |-> t] \in RequestMsg
  BY <1>2 DEF RequestMsg
<1>4. QED
  BY <1>1, <1>3 DEF TypeOK, E51PC

\* Consuming an ACK keeps the ACK queue, its count and the entries well typed.
LEMMA ConsumeAckOK ==
    ASSUME TypeOK, NEW u \in U54, NEW type, ConsumeAck(u, type)
    PROVE  /\ toE51' \in [U54 -> [Slot -> AckMsg]]
           /\ count' \in [U54 -> 0..N]
           /\ completes' \in [Index -> Complete]
<1>1. CASE UNCHANGED <<toE51, count, completes>>
  BY <1>1 DEF TypeOK
<1>2. ASSUME NEW i \in Slot,
             count' = [count EXCEPT ![u] = IF @ = 0 THEN 0 ELSE @ - 1],
             MessageUpdateStatus(toE51[u][i].transaction_id),
             toE51' = [toE51 EXCEPT ![u][i] =
                         [msg_type |-> None, transaction_id |-> toE51[u][i].transaction_id]]
      PROVE  /\ toE51' \in [U54 -> [Slot -> AckMsg]]
             /\ count' \in [U54 -> 0..N]
             /\ completes' \in [Index -> Complete]
  <2>1. [msg_type |-> None, transaction_id |-> toE51[u][i].transaction_id] \in AckMsg
    BY DEF TypeOK, AckMsg
  <2>2. toE51' \in [U54 -> [Slot -> AckMsg]]
    BY <1>2, <2>1 DEF TypeOK
  <2>3. count' \in [U54 -> 0..N]
    BY <1>2, Ranges, SizeAssumption DEF TypeOK
  <2>4. ASSUME NEW k \in Index
        PROVE  [used |-> completes[k].used, transaction_id |-> completes[k].transaction_id,
                status |-> "IDLE"] \in Complete
    BY DEF TypeOK, Complete, Status
  <2>5. completes' \in [Index -> Complete]
    BY <1>2, <2>4 DEF MessageUpdateStatus, TypeOK
  <2>6. QED
    BY <2>2, <2>3, <2>5
<1>3. QED
  BY <1>1, <1>2 DEF ConsumeAck

\* Going on with the next intent keeps the U54's locals well typed.
LEMMA NextIntentOK ==
    ASSUME TypeOK, NEW u \in U54, NextIntent(u)
    PROVE  /\ upc' \in [U54 -> U54PC] /\ intent' \in [U54 -> {1, 2}]
           /\ uslot' \in [U54 -> Slot] /\ utx' \in [U54 -> TxId] /\ ackSlot' \in [U54 -> Slot]
<1>1. Len(Intents) = 2
  BY DEF Intents
<1>2. upc' \in [U54 -> U54PC]
  BY DEF NextIntent, TypeOK, U54PC
<1>3. intent' \in [U54 -> {1, 2}]
  <2>1. intent \in [U54 -> {1, 2}] /\ intent[u] \in {1, 2}
    BY DEF TypeOK
  <2>2. (IF intent[u] < 2 THEN intent[u] + 1 ELSE 1) \in {1, 2}
    BY <2>1
  <2>3. intent' = [intent EXCEPT ![u] = IF intent[u] < 2 THEN intent[u] + 1 ELSE 1]
    BY <1>1 DEF NextIntent
  <2>4. QED
    BY <2>1, <2>2, <2>3
<1>4. QED
  BY <1>2, <1>3, Ranges DEF NextIntent, TypeOK

\* Every step keeps the state well typed.
LEMMA TypeNext == TypeOK /\ [Next]_vars => TypeOK'
<1> SUFFICES ASSUME TypeOK, [Next]_vars PROVE TypeOK'
  OBVIOUS
<1>1. ASSUME NEW u \in U54, PMPSetupRequest(u) PROVE TypeOK'
  <2>1. myTx \in TxId /\ myTx' \in 1..(MaxTx + 1)
    BY <1>1, Ranges DEF PMPSetupRequest, TypeOK
  <2>2. [used |-> ~QueueFull(u), transaction_id |-> myTx, status |-> "PENDING"] \in Complete
    BY <2>1, Zenon DEF Complete, Status, QueueFull
  <2>3. completes' \in [Index -> Complete]
    BY <1>1, <2>2 DEF PMPSetupRequest, TypeOK
  <2>4. /\ toU54' \in [U54 -> [Slot -> RequestMsg]]
        /\ pc' \in E51PC /\ hart' \in U54 /\ slot' \in Slot /\ tx' \in TxId
        /\ status' \in BOOLEAN
    <3>1. CASE StoreType(u, "PMP_SETUP", myTx)
      BY <2>1, <3>1, StoreTypeOK DEF Request
    <3>2. CASE UNCHANGED <<toU54, e51>>
      BY <3>2 DEF e51, TypeOK
    <3>3. QED
      BY <1>1, <3>1, <3>2 DEF PMPSetupRequest
  <2>5. QED
    BY <1>1, <2>1, <2>3, <2>4 DEF PMPSetupRequest, TypeOK, u54
<1>2. CASE DdrTrain
  <2>1. /\ toU54' \in [U54 -> [Slot -> RequestMsg]]
        /\ pc' \in E51PC /\ hart' \in U54 /\ slot' \in Slot /\ tx' \in TxId
        /\ status' \in BOOLEAN
    BY <1>2, Ranges, StoreTypeOK DEF DdrTrain, Request
  <2>2. QED
    BY <1>2, <2>1 DEF DdrTrain, TypeOK, u54
<1>3. CASE StoreBody
  <2>1. [msg_type |-> toU54[hart][slot].msg_type, transaction_id |-> tx,
         req |-> toU54[hart][slot].req] \in RequestMsg
    BY DEF TypeOK, RequestMsg
  <2>2. toU54' \in [U54 -> [Slot -> RequestMsg]]
    BY <1>3, <2>1 DEF StoreBody, TypeOK
  <2>3. QED
    BY <1>3, <2>2 DEF StoreBody, TypeOK, u54, E51PC
<1>4. CASE RaiseMSIP
  BY <1>4, Ranges DEF RaiseMSIP, TypeOK, mailbox, u54, E51PC
<1>5. ASSUME NEW k \in Index, MessageFree(k) PROVE TypeOK'
  <2>1. [used |-> FALSE, transaction_id |-> completes[k].transaction_id,
         status |-> completes[k].status] \in Complete
    BY DEF TypeOK, Complete
  <2>2. completes' \in [Index -> Complete]
    BY <1>5, <2>1 DEF MessageFree, TypeOK
  <2>3. QED
    BY <1>5, <2>2 DEF MessageFree, TypeOK, mailbox, e51, u54
<1>6. CASE StartPoll
  BY <1>6 DEF StartPoll, TypeOK, mailbox, u54, E51PC
<1>7. CASE PollReceive
  <2>1. count' \in [U54 -> 0..N]
    BY <1>7, OccupiedBound DEF PollReceive, TypeOK
  <2>2. shadow' \in [U54 -> TxId]
    BY <1>7 DEF PollReceive, TypeOK
  <2>3. pc' \in E51PC /\ hart' \in U54 /\ status' \in BOOLEAN
    BY <1>7, Ranges DEF PollReceive, TypeOK, E51PC
  <2>4. QED
    BY <1>7, <2>1, <2>2, <2>3 DEF PollReceive, TypeOK, u54
<1>8. ASSUME NextHart PROVE pc' \in E51PC /\ hart' \in U54
  BY <1>8, Ranges DEF NextHart, TypeOK, E51PC
<1>9. CASE GobbleComplete
  <2>1. /\ toE51' \in [U54 -> [Slot -> AckMsg]]
        /\ count' \in [U54 -> 0..N]
        /\ completes' \in [Index -> Complete]
        /\ pc' \in E51PC /\ hart' \in U54
    <3>1. CASE ConsumeAck(hart, "ACK_COMPLETE") /\ pc' = "gobble2" /\ UNCHANGED hart
      BY <3>1, ConsumeAckOK DEF TypeOK, E51PC
    <3>2. CASE NextHart /\ UNCHANGED <<toE51, count, completes>>
      BY <1>8, <3>2 DEF TypeOK
    <3>3. QED
      BY <1>9, <3>1, <3>2 DEF GobbleComplete
  <2>2. QED
    BY <1>9, <2>1 DEF GobbleComplete, TypeOK, u54
<1>10. CASE GobblePending
  <2>1. /\ toE51' \in [U54 -> [Slot -> AckMsg]]
        /\ count' \in [U54 -> 0..N]
        /\ completes' \in [Index -> Complete]
    BY <1>10, ConsumeAckOK DEF GobblePending, TypeOK
  <2>2. QED
    BY <1>8, <1>10, <2>1 DEF GobblePending, TypeOK, u54
<1>11. ASSUME NEW u \in U54, Trap(u) PROVE TypeOK'
  BY <1>11 DEF Trap, TypeOK, mailbox, e51, U54PC
<1>12. ASSUME NEW u \in U54, ConsumeIntent(u) PROVE TypeOK'
  <2>1. toU54[u][uslot[u]].req \in TxId
    BY DEF TypeOK, RequestMsg
  <2>2. /\ upc' \in [U54 -> U54PC] /\ intent' \in [U54 -> {1, 2}]
        /\ uslot' \in [U54 -> Slot] /\ utx' \in [U54 -> TxId] /\ ackSlot' \in [U54 -> Slot]
        /\ found' \in [U54 -> BOOLEAN] /\ handled' \subseteq TxId
    <3>1. CASE NextIntent(u) /\ UNCHANGED <<found, handled>>
      BY <3>1, NextIntentOK DEF TypeOK
    <3>2. CASE /\ upc' = [upc EXCEPT ![u] = "handler"]
               /\ found' = [found EXCEPT ![u] = TRUE]
               /\ handled' = handled \cup {toU54[u][uslot[u]].req}
               /\ UNCHANGED <<intent, uslot, utx, ackSlot>>
      BY <2>1, <3>2 DEF TypeOK, U54PC
    <3>3. CASE /\ uslot[u] < N - 1
               /\ uslot' = [uslot EXCEPT ![u] = @ + 1]
               /\ UNCHANGED <<upc, intent, utx, ackSlot, found, handled>>
      BY <3>3, Ranges DEF TypeOK
    <3>4. QED
      BY <1>12, <3>1, <3>2, <3>3 DEF ConsumeIntent
  <2>3. QED
    BY <1>12, <2>2 DEF ConsumeIntent, TypeOK, mailbox, e51
<1>13. ASSUME NEW u \in U54, HandlerReturns(u) PROVE TypeOK'
  <2>1. toU54[u][uslot[u]].transaction_id \in TxId
    BY DEF TypeOK, RequestMsg
  <2>2. ASSUME NEW result, NEW i \in Slot, AckFor(result) # None
        PROVE  [msg_type |-> AckFor(result),
                transaction_id |-> toE51[u][i].transaction_id] \in AckMsg
    BY <2>2 DEF AckFor, AckMsg, Ack, TypeOK
  <2>3. /\ toE51' \in [U54 -> [Slot -> AckMsg]]
        /\ upc' \in [U54 -> U54PC]
        /\ ackSlot' \in [U54 -> Slot]
        /\ utx' \in [U54 -> TxId]
    <3>1. PICK result \in HandlerResult(toU54[u][uslot[u]].msg_type) :
            \/ \E i \in Slot :
                /\ AckFor(result) # None
                /\ toE51' = [toE51 EXCEPT ![u][i] =
                                [msg_type |-> AckFor(result),
                                 transaction_id |-> toE51[u][i].transaction_id]]
                /\ upc' = [upc EXCEPT ![u] = "ackBody"]
                /\ ackSlot' = [ackSlot EXCEPT ![u] = i]
                /\ utx' = [utx EXCEPT ![u] = toU54[u][uslot[u]].transaction_id]
            \/ /\ upc' = [upc EXCEPT ![u] = "clear"]
               /\ UNCHANGED <<toE51, utx, ackSlot>>
      BY <1>13 DEF HandlerReturns
    <3>2. CASE UNCHANGED <<toE51, utx, ackSlot>> /\ upc' = [upc EXCEPT ![u] = "clear"]
      BY <3>2 DEF TypeOK, U54PC
    <3>3. ASSUME NEW i \in Slot,
                 AckFor(result) # None,
                 toE51' = [toE51 EXCEPT ![u][i] =
                                [msg_type |-> AckFor(result),
                                 transaction_id |-> toE51[u][i].transaction_id]],
                 upc' = [upc EXCEPT ![u] = "ackBody"],
                 ackSlot' = [ackSlot EXCEPT ![u] = i],
                 utx' = [utx EXCEPT ![u] = toU54[u][uslot[u]].transaction_id]
          PROVE  /\ toE51' \in [U54 -> [Slot -> AckMsg]]
                 /\ upc' \in [U54 -> U54PC]
                 /\ ackSlot' \in [U54 -> Slot]
                 /\ utx' \in [U54 -> TxId]
      <4>1. toE51' \in [U54 -> [Slot -> AckMsg]]
        BY <2>2, <3>3 DEF TypeOK
      <4>2. QED
        BY <2>1, <3>3, <4>1 DEF TypeOK, U54PC
    <3>4. QED
      BY <3>1, <3>2, <3>3
  <2>4. ddr' \in {"init", "train", "trained"}
    BY <1>13 DEF HandlerReturns, TypeOK
  <2>5. QED
    BY <1>13, <2>3, <2>4 DEF HandlerReturns, TypeOK, e51
<1>14. ASSUME NEW u \in U54, StoreAckBody(u) PROVE TypeOK'
  <2>1. [msg_type |-> toE51[u][ackSlot[u]].msg_type, transaction_id |-> utx[u]] \in AckMsg
    BY DEF TypeOK, AckMsg
  <2>2. toE51' \in [U54 -> [Slot -> AckMsg]]
    BY <1>14, <2>1 DEF StoreAckBody, TypeOK
  <2>3. QED
    BY <1>14, <2>2 DEF StoreAckBody, TypeOK, e51, U54PC
<1>15. ASSUME NEW u \in U54, StoreAckLast(u) PROVE TypeOK'
  BY <1>15 DEF StoreAckLast, TypeOK, e51, U54PC
<1>16. ASSUME NEW u \in U54, ClearRequest(u) PROVE TypeOK'
  <2>1. [msg_type |-> None, transaction_id |-> toU54[u][uslot[u]].transaction_id,
         req |-> toU54[u][uslot[u]].req] \in RequestMsg
    BY DEF TypeOK, RequestMsg
  <2>2. toU54' \in [U54 -> [Slot -> RequestMsg]]
    BY <1>16, <2>1 DEF ClearRequest, TypeOK
  <2>3. QED
    BY <1>16, <2>2, NextIntentOK DEF ClearRequest, TypeOK, e51
<1>17. ASSUME NEW u \in U54, TrapReturn(u) PROVE TypeOK'
  BY <1>17, Zenon DEF TrapReturn, TypeOK, mailbox, e51, U54PC
<1>18. CASE UNCHANGED vars
  BY <1>18 DEF vars, mailbox, e51, u54, TypeOK
<1>19. QED
  BY <1>1, <1>2, <1>3, <1>4, <1>5, <1>6, <1>7, <1>9, <1>10, <1>11, <1>12, <1>13,
     <1>14, <1>15, <1>16, <1>17, <1>18 DEF Next, E51Step, U54Step

\* The mailbox is well typed in every reachable state: every store of
\* IPI_Send and IPI_ConsumeIntent stays inside the queues and entries, for
\* every number of harts, slots, entries and transactions.
THEOREM TypeCorrect == Spec => []TypeOK
<1>1. QED
  BY TypeInit, TypeNext, PTL DEF Spec

-----------------------------------------------------------------------------
(* The inductive invariant.                                                *)

\* Message types are not NO_MESSAGE, and the scan only looks for requests.
LEMMA TypesNotNone ==
    /\ None \notin Request
    /\ \A n \in {1, 2} : Intents[n] # None
BY DEF None, Request, Intents

\* The empty mailbox satisfies the invariant.
LEMMA MailboxInit == Init => MailboxInv
BY SizeAssumption
   DEF Init, MailboxInv, AllocatedTx, LeftoversHandled, PublishedOrTaken, BusySlotOccupied,
       AcksKnown, OneSlotPerRequest, HandledOnlyWhileBusy, CompletionImpliesHandled,
       MessageCheckIfComplete, Known, Busy

\* The part of the invariant that speaks of the requests.
RequestInv ==
    /\ LeftoversHandled /\ PublishedOrTaken /\ BusySlotOccupied
    /\ OneSlotPerRequest /\ HandledOnlyWhileBusy
    /\ handled \subseteq 0..(myTx - 1)
    /\ tx < myTx
    /\ \A u \in U54, i \in Slot : toU54[u][i].req < myTx

\* The part that speaks of the ACKs and the completion entries.
AckInv ==
    /\ AcksKnown /\ CompletionImpliesHandled
    /\ \A k \in Index : completes[k].used => completes[k].transaction_id >= 1

\* The two parts make up the invariant.
LEMMA MailboxParts == MailboxInv <=> RequestInv /\ AckInv
BY DEF MailboxInv, RequestInv, AckInv, AllocatedTx

\* Ranges of transaction numbers grow with their end.
LEMMA RangeMono ==
    ASSUME NEW S, NEW a \in Int, NEW b \in Int, a <= b, S \subseteq 0..(a - 1)
    PROVE  S \subseteq 0..(b - 1)
OBVIOUS

\* The first store of IPI_Send publishes a fresh request in a free slot.
LEMMA StoreTypeRequest ==
    ASSUME TypeOK, RequestInv, NEW u \in U54, NEW type \in Request, NEW t \in TxId,
           StoreType(u, type, t), t = 0 \/ t = myTx, t < myTx', myTx <= myTx',
           myTx' \in Nat, UNCHANGED <<upc, uslot, handled>>
    PROVE  RequestInv'
<1>1. PICK i \in Slot :
        /\ toU54[u][i].msg_type = None
        /\ toU54' = [toU54 EXCEPT ![u][i] =
              [msg_type |-> type, transaction_id |-> toU54[u][i].transaction_id, req |-> t]]
        /\ pc' = "body" /\ hart' = u /\ slot' = i /\ tx' = t
  BY DEF StoreType, IsFirst
<1>2. /\ toU54'[u][i].msg_type = type /\ toU54'[u][i].req = t
      /\ toU54'[u][i].transaction_id = toU54[u][i].transaction_id
      /\ \A v \in U54, j \in Slot : (v # u \/ j # i) => toU54'[v][j] = toU54[v][j]
  BY <1>1 DEF TypeOK
<1>3. type # None
  BY TypesNotNone
<1>4. LeftoversHandled'
  BY <1>1, <1>2, <1>3 DEF RequestInv, LeftoversHandled, Known
<1>5. PublishedOrTaken'
  BY <1>1, <1>2, <1>3 DEF PublishedOrTaken
<1>6. BusySlotOccupied'
  BY <1>1, <1>2 DEF RequestInv, BusySlotOccupied, TypeOK
<1>7. OneSlotPerRequest'
  BY <1>1, <1>2 DEF RequestInv, OneSlotPerRequest, TypeOK
<1>8. HandledOnlyWhileBusy'
  BY <1>1, <1>2 DEF RequestInv, HandledOnlyWhileBusy, TypeOK
<1>9. handled' \subseteq 0..(myTx' - 1)
  <2>1. handled \subseteq 0..(myTx - 1) /\ handled' = handled /\ myTx \in Int
    BY DEF RequestInv, TypeOK
  <2>2. myTx' \in Int
    OBVIOUS
  <2>3. QED
    BY <2>1, <2>2, RangeMono
<1>10. tx' < myTx' /\ \A v \in U54, j \in Slot : toU54'[v][j].req < myTx'
  <2>1. ASSUME NEW v \in U54, NEW j \in Slot PROVE toU54[v][j].req \in Int
    BY SizeAssumption DEF TypeOK, RequestMsg, TxId
  <2>2. QED
    BY <1>1, <1>2, <2>1 DEF RequestInv, TypeOK
<1>11. QED
  BY <1>4, <1>5, <1>6, <1>7, <1>8, <1>9, <1>10 DEF RequestInv

\* A step that leaves the requests alone and is not between the two stores
\* of IPI_Send afterwards keeps the request part.
LEMMA RequestsUntouched ==
    ASSUME TypeOK, RequestInv, UNCHANGED <<toU54, myTx, upc, uslot, handled>>,
           tx' = tx \/ tx' = 0, pc' # "body"
    PROVE  RequestInv'
BY DEF RequestInv, LeftoversHandled, PublishedOrTaken, BusySlotOccupied,
       OneSlotPerRequest, HandledOnlyWhileBusy, Known, TypeOK

\* A step that leaves the ACKs and the entries alone keeps the ACK part.
LEMMA AcksUntouched ==
    ASSUME AckInv, UNCHANGED <<toE51, completes, utx>>, handled \subseteq handled'
    PROVE  AckInv'
BY DEF AckInv, AcksKnown, CompletionImpliesHandled, MessageCheckIfComplete, Known

\* The E51 consumes an ACK: the entry it completes was handled.
LEMMA ConsumeAckInv ==
    ASSUME TypeOK, AckInv, NEW u \in U54, NEW type, ConsumeAck(u, type),
           UNCHANGED <<utx, handled>>
    PROVE  AckInv'
<1>1. CASE UNCHANGED <<toE51, count, completes>>
  BY <1>1, AcksUntouched
<1>2. ASSUME NEW i \in Slot,
             MessageUpdateStatus(toE51[u][i].transaction_id),
             toE51' = [toE51 EXCEPT ![u][i] =
                         [msg_type |-> None, transaction_id |-> toE51[u][i].transaction_id]]
      PROVE  AckInv'
  <2>1. \A v \in U54, j \in Slot : toE51'[v][j].transaction_id = toE51[v][j].transaction_id
    BY <1>2 DEF TypeOK
  <2>2. AcksKnown'
    BY <2>1 DEF AckInv, AcksKnown, Known
  <2>3. toE51[u][i].transaction_id \in Known
    BY DEF AckInv, AcksKnown
  <2>4. ASSUME NEW k \in Index
        PROVE  /\ completes'[k].used = completes[k].used
               /\ completes'[k].transaction_id = completes[k].transaction_id
               /\ completes'[k].status # completes[k].status =>
                     completes[k].transaction_id = toE51[u][i].transaction_id
    <3>1. CASE completes' = completes
      BY <3>1
    <3>2. CASE \E m \in Index :
                 /\ completes[m].transaction_id = toE51[u][i].transaction_id
                 /\ completes' = [completes EXCEPT ![m] =
                       [used |-> completes[m].used,
                        transaction_id |-> completes[m].transaction_id, status |-> "IDLE"]]
      BY <3>2 DEF TypeOK
    <3>3. QED
      BY <1>2, <3>1, <3>2 DEF MessageUpdateStatus, IsFirst
  <2>5. \A k \in Index : completes[k].transaction_id \in Int
    BY SizeAssumption DEF TypeOK, Complete, TxId
  <2>6. CompletionImpliesHandled'
    BY <2>3, <2>4, <2>5 DEF AckInv, CompletionImpliesHandled, MessageCheckIfComplete, Known
  <2>7. QED
    BY <2>2, <2>4, <2>6 DEF AckInv
<1>3. QED
  BY <1>1, <1>2 DEF ConsumeAck

\* The U54 takes a request: its slot was waiting, so the request is new.
LEMMA TakeRequest ==
    ASSUME TypeOK, RequestInv, NEW u \in U54,
           upc[u] = "scan", toU54[u][uslot[u]].msg_type = Intents[intent[u]],
           upc' = [upc EXCEPT ![u] = "handler"],
           handled' = handled \cup {toU54[u][uslot[u]].req},
           UNCHANGED <<toU54, uslot, myTx, pc, hart, slot, tx>>
    PROVE  RequestInv'
<1> DEFINE r == toU54[u][uslot[u]].req
<1>1. /\ upc'[u] = "handler" /\ uslot[u] \in Slot /\ r \in TxId
      /\ \A v \in U54 : v # u => upc'[v] = upc[v]
      /\ toU54[u][uslot[u]].msg_type # None
  BY TypesNotNone DEF TypeOK, RequestMsg
<1>2. LeftoversHandled'
  BY DEF RequestInv, LeftoversHandled, Known
<1>3. PublishedOrTaken'
  BY DEF RequestInv, PublishedOrTaken, Known
<1>4. BusySlotOccupied'
  BY <1>1 DEF RequestInv, BusySlotOccupied
<1>5. OneSlotPerRequest'
  BY DEF RequestInv, OneSlotPerRequest
<1>6. HandledOnlyWhileBusy'
  <2> SUFFICES ASSUME NEW v \in U54, NEW i \in Slot,
                      toU54[v][i].msg_type # None, toU54[v][i].req \in handled' \ {0}
               PROVE  upc'[v] \in Busy /\ uslot[v] = i
    BY DEF HandledOnlyWhileBusy
  <2>1. CASE toU54[v][i].req \in handled
    BY <1>1, <2>1 DEF RequestInv, HandledOnlyWhileBusy, Busy
  <2>2. CASE toU54[v][i].req = r
    BY <1>1, <2>2 DEF RequestInv, OneSlotPerRequest, Busy
  <2>3. QED
    BY <2>1, <2>2
<1>7. handled' \subseteq 0..(myTx' - 1)
  <2>1. r \in 0..(myTx - 1)
    <3>1. r < myTx /\ r \in Nat /\ myTx \in Int
      BY <1>1, SizeAssumption DEF RequestInv, TypeOK, TxId
    <3>2. QED
      BY <3>1
  <2>2. QED
    BY <2>1 DEF RequestInv
<1>8. QED
  BY <1>2, <1>3, <1>4, <1>5, <1>6, <1>7 DEF RequestInv

\* A step of a U54 that leaves the requests alone and neither starts nor ends
\* the work on one keeps the request part.
LEMMA U54Untouched ==
    ASSUME TypeOK, RequestInv, NEW u \in U54, NEW p,
           upc' = [upc EXCEPT ![u] = p],
           upc[u] \in Busy <=> p \in Busy,
           \A v \in U54 : upc[v] \in Busy => uslot'[v] = uslot[v],
           UNCHANGED <<toU54, myTx, pc, hart, slot, tx, handled>>
    PROVE  RequestInv'
<1>1. \A v \in U54 : upc'[v] \in Busy <=> upc[v] \in Busy
  BY DEF TypeOK
<1>2. QED
  BY <1>1 DEF RequestInv, LeftoversHandled, PublishedOrTaken, BusySlotOccupied,
              OneSlotPerRequest, HandledOnlyWhileBusy, Known

\* What a U54 working on a request reads as its transaction is a handled one.
LEMMA BusyReads ==
    ASSUME TypeOK, RequestInv, NEW u \in U54, upc[u] \in Busy
    PROVE  toU54[u][uslot[u]].transaction_id \in Known
BY DEF RequestInv, LeftoversHandled, BusySlotOccupied, Known, TypeOK

\* IPI_ConsumeIntent clears the slot of the request it worked on.
LEMMA ClearRequestInv ==
    ASSUME TypeOK, RequestInv, NEW u \in U54, ClearRequest(u)
    PROVE  RequestInv'
<1> DEFINE i == uslot[u]
<1>1. /\ upc[u] \in Busy /\ i \in Slot
      /\ toU54'[u][i].msg_type = None /\ toU54'[u][i].req = toU54[u][i].req
      /\ toU54'[u][i].transaction_id = toU54[u][i].transaction_id
      /\ \A v \in U54, j \in Slot : (v # u \/ j # i) => toU54'[v][j] = toU54[v][j]
  BY DEF ClearRequest, TypeOK, Busy
<1>2. /\ upc'[u] \notin Busy
      /\ \A v \in U54 : v # u => upc'[v] = upc[v] /\ uslot'[v] = uslot[v]
      /\ UNCHANGED <<myTx, pc, hart, slot, tx, handled>>
  BY DEF ClearRequest, NextIntent, TypeOK, Busy, e51
<1>3. toU54[u][i].req \in handled /\ toU54[u][i].transaction_id \in Known
  BY <1>1, BusyReads DEF RequestInv, BusySlotOccupied
<1>4. LeftoversHandled'
  BY <1>1, <1>2, <1>3 DEF RequestInv, LeftoversHandled, Known
<1>5. PublishedOrTaken'
  <2>1. hart \in U54 /\ slot \in Slot
    BY DEF TypeOK
  <2>2. CASE hart = u /\ slot = i
    BY <1>1, <1>2, <1>3, <2>2 DEF RequestInv, PublishedOrTaken, Known
  <2>3. CASE hart # u \/ slot # i
    BY <1>1, <1>2, <2>1, <2>3 DEF RequestInv, PublishedOrTaken, Known
  <2>4. QED
    BY <2>2, <2>3
<1>6. BusySlotOccupied'
  <2>1. \A v \in U54 : uslot[v] \in Slot
    BY DEF TypeOK
  <2>2. QED
    BY <1>1, <1>2, <2>1 DEF RequestInv, BusySlotOccupied
<1>7. OneSlotPerRequest'
  BY <1>1, <1>2 DEF RequestInv, OneSlotPerRequest
<1>8. HandledOnlyWhileBusy'
  BY <1>1, <1>2 DEF RequestInv, HandledOnlyWhileBusy
<1>9. QED
  BY <1>1, <1>2, <1>4, <1>5, <1>6, <1>7, <1>8 DEF RequestInv

\* The second store of IPI_Send stores the request's own transaction number.
LEMMA StoreBodyRequest ==
    ASSUME TypeOK, RequestInv, StoreBody
    PROVE  RequestInv'
<1>1. /\ toU54'[hart][slot].msg_type = toU54[hart][slot].msg_type
      /\ toU54'[hart][slot].req = toU54[hart][slot].req
      /\ toU54'[hart][slot].transaction_id = tx
      /\ \A v \in U54, j \in Slot : (v # hart \/ j # slot) => toU54'[v][j] = toU54[v][j]
  BY DEF StoreBody, TypeOK
<1>2. /\ pc = "body" /\ pc' = "raise"
      /\ UNCHANGED <<myTx, hart, slot, tx, upc, uslot, handled>>
  BY DEF StoreBody, u54
<1>3. \A v \in U54, j \in Slot : /\ toU54'[v][j].msg_type = toU54[v][j].msg_type
                                 /\ toU54'[v][j].req = toU54[v][j].req
  BY <1>1
<1>4. LeftoversHandled'
  BY <1>1, <1>2, <1>3 DEF RequestInv, LeftoversHandled, PublishedOrTaken, Known
<1>5. PublishedOrTaken'
  BY <1>2 DEF PublishedOrTaken
<1>6. BusySlotOccupied'
  BY <1>2, <1>3 DEF RequestInv, BusySlotOccupied, TypeOK
<1>7. OneSlotPerRequest' /\ HandledOnlyWhileBusy'
  BY <1>2, <1>3 DEF RequestInv, OneSlotPerRequest, HandledOnlyWhileBusy
<1>8. QED
  BY <1>2, <1>3, <1>4, <1>5, <1>6, <1>7 DEF RequestInv

\* Every step keeps the invariant.
LEMMA MailboxNext == TypeOK /\ MailboxInv /\ [Next]_vars => MailboxInv'
<1> SUFFICES ASSUME TypeOK, RequestInv, AckInv, [Next]_vars PROVE RequestInv' /\ AckInv'
  BY MailboxParts, PTL
<1>1. ASSUME NEW u \in U54, PMPSetupRequest(u) PROVE RequestInv' /\ AckInv'
  <2>1. /\ myTx \in TxId /\ myTx \in Nat /\ myTx >= 1 /\ myTx' = myTx + 1
        /\ UNCHANGED <<toE51, upc, uslot, utx, handled>> /\ pc = "loop"
    BY <1>1, Ranges DEF PMPSetupRequest, TypeOK, u54
  <2>2. RequestInv'
    <3>1. CASE StoreType(u, "PMP_SETUP", myTx)
      BY <2>1, <3>1, StoreTypeRequest DEF Request
    <3>2. CASE UNCHANGED <<toU54, e51>>
      <4>1. /\ handled' \subseteq 0..(myTx' - 1) /\ tx' < myTx'
            /\ \A v \in U54, j \in Slot : toU54'[v][j].req < myTx'
        <5>1. \A v \in U54, j \in Slot : toU54[v][j].req \in Int
          BY SizeAssumption DEF TypeOK, RequestMsg, TxId
        <5>2. tx \in Int
          BY SizeAssumption DEF TypeOK, TxId
        <5>3. handled' \subseteq 0..(myTx' - 1)
          BY <2>1, RangeMono DEF RequestInv
        <5>4. QED
          BY <2>1, <3>2, <5>1, <5>2, <5>3 DEF RequestInv, e51
      <4>2. QED
        BY <2>1, <3>2, <4>1
           DEF RequestInv, LeftoversHandled, PublishedOrTaken, BusySlotOccupied,
               OneSlotPerRequest, HandledOnlyWhileBusy, Known, e51
    <3>3. QED
      BY <1>1, <3>1, <3>2 DEF PMPSetupRequest
  <2>3. PICK k \in Index : completes' = [completes EXCEPT ![k] =
              [used |-> ~QueueFull(u), transaction_id |-> myTx, status |-> "PENDING"]]
    BY <1>1 DEF PMPSetupRequest
  <2>4. /\ completes'[k].transaction_id = myTx /\ completes'[k].status = "PENDING"
        /\ \A j \in Index : j # k => completes'[j] = completes[j]
    BY <2>3 DEF TypeOK
  <2>5. AckInv'
    BY <2>1, <2>4 DEF AckInv, AcksKnown, CompletionImpliesHandled, MessageCheckIfComplete, Known
  <2>6. QED
    BY <2>2, <2>5
<1>2. CASE DdrTrain
  <2>1. /\ UNCHANGED <<toE51, completes, myTx, upc, uslot, utx, handled>>
        /\ StoreType(1, "DDR_TRAIN", 0) /\ myTx \in Nat /\ myTx >= 1
    BY <1>2 DEF DdrTrain, u54, TypeOK
  <2>2. QED
    BY <2>1, Ranges, StoreTypeRequest, AcksUntouched DEF Request
<1>3. CASE StoreBody
  BY <1>3, StoreBodyRequest, AcksUntouched DEF StoreBody, u54
<1>4. CASE RaiseMSIP
  BY <1>4, RequestsUntouched, AcksUntouched DEF RaiseMSIP, mailbox, u54
<1>5. ASSUME NEW k \in Index, MessageFree(k) PROVE RequestInv' /\ AckInv'
  <2>1. RequestInv'
    BY <1>5, RequestsUntouched DEF MessageFree, mailbox, e51, u54
  <2>2. /\ completes'[k].used = FALSE
        /\ \A j \in Index : j # k => completes'[j] = completes[j]
    BY <1>5 DEF MessageFree, TypeOK
  <2>3. UNCHANGED <<toE51, utx, handled>>
    BY <1>5 DEF MessageFree, mailbox, u54
  <2>4. AckInv'
    BY <2>2, <2>3 DEF AckInv, AcksKnown, CompletionImpliesHandled, MessageCheckIfComplete, Known
  <2>5. QED
    BY <2>1, <2>4
<1>6. CASE StartPoll
  BY <1>6, RequestsUntouched, AcksUntouched DEF StartPoll, mailbox, u54
<1>7. CASE PollReceive
  BY <1>7, RequestsUntouched, AcksUntouched DEF PollReceive, u54
<1>8. CASE GobbleComplete
  <2>1. RequestInv'
    BY <1>8, RequestsUntouched DEF GobbleComplete, NextHart, u54
  <2>2. AckInv'
    <3>1. CASE ConsumeAck(hart, "ACK_COMPLETE")
      BY <1>8, <3>1, ConsumeAckInv DEF GobbleComplete, TypeOK, u54
    <3>2. CASE UNCHANGED <<toE51, count, completes>>
      BY <1>8, <3>2, AcksUntouched DEF GobbleComplete, u54
    <3>3. QED
      BY <1>8, <3>1, <3>2 DEF GobbleComplete
  <2>3. QED
    BY <2>1, <2>2
<1>9. CASE GobblePending
  <2>1. RequestInv'
    BY <1>9, RequestsUntouched DEF GobblePending, NextHart, u54
  <2>2. AckInv'
    BY <1>9, ConsumeAckInv DEF GobblePending, TypeOK, u54
  <2>3. QED
    BY <2>1, <2>2
<1>10. ASSUME NEW u \in U54, Trap(u) PROVE RequestInv' /\ AckInv'
  BY <1>10, U54Untouched, AcksUntouched DEF Trap, mailbox, e51, Busy
<1>11. ASSUME NEW u \in U54, ConsumeIntent(u) PROVE RequestInv' /\ AckInv'
  <2>1. UNCHANGED <<toU54, toE51, completes, myTx, pc, hart, slot, tx>> /\ upc[u] = "scan"
    BY <1>11 DEF ConsumeIntent, mailbox, e51
  <2>2. CASE /\ toU54[u][uslot[u]].msg_type = Intents[intent[u]]
             /\ upc' = [upc EXCEPT ![u] = "handler"]
             /\ handled' = handled \cup {toU54[u][uslot[u]].req}
             /\ UNCHANGED <<intent, uslot, utx, ackSlot>>
    BY <2>1, <2>2, TakeRequest, AcksUntouched
  <2>3. CASE /\ uslot' = [uslot EXCEPT ![u] = @ + 1]
             /\ UNCHANGED <<upc, intent, utx, ackSlot, found, handled>>
    <3>1. upc' = [upc EXCEPT ![u] = "scan"] /\ upc[u] \notin Busy
      BY <2>1, <2>3 DEF TypeOK, Busy
    <3>2. \A v \in U54 : upc[v] \in Busy => uslot'[v] = uslot[v]
      BY <2>3, <3>1 DEF TypeOK
    <3>3. RequestInv'
      BY <2>1, <2>3, <3>1, <3>2, U54Untouched DEF Busy
    <3>4. QED
      BY <2>1, <2>3, <3>3, AcksUntouched
  <2>4. CASE NextIntent(u) /\ UNCHANGED <<found, handled>>
    <3> DEFINE p == IF intent[u] < Len(Intents) THEN "scan" ELSE "done"
    <3>1. upc' = [upc EXCEPT ![u] = p] /\ p \notin Busy
      BY <2>4 DEF NextIntent, Busy
    <3> HIDE DEF p
    <3>2. \A v \in U54 : upc[v] \in Busy => uslot'[v] = uslot[v]
      BY <2>1, <2>4 DEF NextIntent, TypeOK, Busy
    <3>3. RequestInv'
      BY <2>1, <2>4, <3>1, <3>2, U54Untouched DEF Busy
    <3>4. \A v \in U54 : utx'[v] = utx[v] \/ utx'[v] = 0
      BY <2>4 DEF NextIntent, TypeOK
    <3>5. AckInv'
      BY <2>1, <2>4, <3>4
         DEF AckInv, AcksKnown, CompletionImpliesHandled, MessageCheckIfComplete, Known
    <3>6. QED
      BY <3>3, <3>5
  <2>5. QED
    BY <1>11, <2>2, <2>3, <2>4 DEF ConsumeIntent
<1>12. ASSUME NEW u \in U54, HandlerReturns(u) PROVE RequestInv' /\ AckInv'
  <2>1. /\ UNCHANGED <<toU54, completes, myTx, pc, hart, slot, tx, uslot, handled>>
        /\ upc[u] = "handler" /\ upc[u] \in Busy
    BY <1>12 DEF HandlerReturns, e51, Busy
  <2>2. PICK p \in Busy : upc' = [upc EXCEPT ![u] = p]
    BY <1>12 DEF HandlerReturns, Busy
  <2>3. RequestInv'
    BY <2>1, <2>2, U54Untouched
  <2>4. toU54[u][uslot[u]].transaction_id \in Known
    BY <2>1, BusyReads
  <2>5. \A v \in U54 : utx'[v] = utx[v] \/ utx'[v] = toU54[u][uslot[u]].transaction_id
    BY <1>12 DEF HandlerReturns, TypeOK
  <2>6. \A v \in U54, j \in Slot : toE51'[v][j].transaction_id = toE51[v][j].transaction_id
    <3>1. CASE UNCHANGED toE51
      BY <3>1
    <3>2. ASSUME NEW i \in Slot, NEW type,
                 toE51' = [toE51 EXCEPT ![u][i] =
                             [msg_type |-> type,
                              transaction_id |-> toE51[u][i].transaction_id]]
          PROVE  \A v \in U54, j \in Slot :
                     toE51'[v][j].transaction_id = toE51[v][j].transaction_id
      BY <3>2 DEF TypeOK
    <3>3. QED
      BY <1>12, <3>1, <3>2 DEF HandlerReturns
  <2>7. AckInv'
    BY <2>1, <2>4, <2>5, <2>6
       DEF AckInv, AcksKnown, CompletionImpliesHandled, MessageCheckIfComplete, Known
  <2>8. QED
    BY <2>3, <2>7
<1>13. ASSUME NEW u \in U54, StoreAckBody(u) PROVE RequestInv' /\ AckInv'
  <2>1. RequestInv'
    BY <1>13, U54Untouched DEF StoreAckBody, e51, Busy
  <2>2. \A v \in U54, j \in Slot :
          \/ toE51'[v][j].transaction_id = toE51[v][j].transaction_id
          \/ toE51'[v][j].transaction_id = utx[u]
    BY <1>13 DEF StoreAckBody, TypeOK
  <2>3. UNCHANGED <<completes, utx, handled>>
    BY <1>13 DEF StoreAckBody
  <2>4. AckInv'
    BY <2>2, <2>3
       DEF AckInv, AcksKnown, CompletionImpliesHandled, MessageCheckIfComplete, Known
  <2>5. QED
    BY <2>1, <2>4
<1>14. ASSUME NEW u \in U54, StoreAckLast(u) PROVE RequestInv' /\ AckInv'
  BY <1>14, U54Untouched, AcksUntouched DEF StoreAckLast, e51, Busy
<1>15. ASSUME NEW u \in U54, ClearRequest(u) PROVE RequestInv' /\ AckInv'
  <2>1. UNCHANGED <<toE51, completes, handled>>
    BY <1>15 DEF ClearRequest
  <2>2. \A v \in U54 : utx'[v] = utx[v] \/ utx'[v] = 0
    BY <1>15 DEF ClearRequest, NextIntent, TypeOK
  <2>3. AckInv'
    BY <2>1, <2>2
       DEF AckInv, AcksKnown, CompletionImpliesHandled, MessageCheckIfComplete, Known
  <2>4. QED
    BY <1>15, <2>3, ClearRequestInv
<1>16. ASSUME NEW u \in U54, TrapReturn(u) PROVE RequestInv' /\ AckInv'
  BY <1>16, U54Untouched, AcksUntouched DEF TrapReturn, mailbox, e51, Busy
<1>17. CASE UNCHANGED vars
  BY <1>17 DEF vars, mailbox, e51, u54, RequestInv, AckInv, LeftoversHandled,
     PublishedOrTaken, BusySlotOccupied, OneSlotPerRequest, HandledOnlyWhileBusy,
     AcksKnown, CompletionImpliesHandled, MessageCheckIfComplete, Known
<1>18. QED
  BY <1>1, <1>2, <1>3, <1>4, <1>5, <1>6, <1>7, <1>8, <1>9, <1>10, <1>11, <1>12, <1>13,
     <1>14, <1>15, <1>16, <1>17 DEF Next, E51Step, U54Step

\* The invariant of IPI_Send and IPI_ConsumeIntent holds in every reachable
\* state.
THEOREM MailboxCorrect == Spec => []MailboxInv
<1>1. QED
  BY TypeInit, TypeNext, MailboxInit, MailboxNext, PTL DEF Spec

\* The E51 never sees a transaction as complete whose handler has not started
\* on the U54, although IPI_Send publishes msg_type before transaction_id and
\* entries are freed while their request is still on its way.
THEOREM CompletionCorrect == Spec => []CompletionImpliesHandled
<1>1. MailboxInv => CompletionImpliesHandled
  BY DEF MailboxInv
<1>2. QED
  BY <1>1, MailboxCorrect, PTL

\* No step runs the handler of a request that was handled before.
LEMMA TakenIsNew ==
    ASSUME TypeOK, MailboxInv, Next, NEW u \in U54, upc[u] = "scan", upc'[u] = "handler"
    PROVE  toU54[u][uslot'[u]].req \notin handled \ {0}
<1>1. ASSUME NEW v \in U54, ConsumeIntent(v)
      PROVE  /\ v = u /\ uslot' = uslot
             /\ toU54[u][uslot[u]].msg_type = Intents[intent[u]]
  BY <1>1 DEF ConsumeIntent, NextIntent, TypeOK
<1>2. ASSUME NEW v \in U54, U54Step(v) PROVE ConsumeIntent(v)
  BY <1>2 DEF U54Step, Trap, HandlerReturns, StoreAckBody, StoreAckLast,
     ClearRequest, NextIntent, TrapReturn, TypeOK
<1>3. \E v \in U54 : U54Step(v)
  <2>1. ASSUME upc' = upc PROVE FALSE
    BY <2>1
  <2>2. E51Step => upc' = upc
    BY DEF E51Step, PMPSetupRequest, DdrTrain, StoreBody, RaiseMSIP, MessageFree,
       StartPoll, PollReceive, GobbleComplete, GobblePending, u54
  <2>3. QED
    BY <2>1, <2>2 DEF Next
<1>4. toU54[u][uslot[u]].msg_type # None /\ uslot[u] \in Slot
  BY <1>1, <1>2, <1>3, TypesNotNone DEF TypeOK
<1>5. upc[u] \notin Busy
  BY DEF Busy
<1>6. uslot' = uslot
  BY <1>1, <1>2, <1>3
<1>7. QED
  BY <1>4, <1>5, <1>6 DEF MailboxInv, HandledOnlyWhileBusy

\* IPI_ConsumeIntent runs the handler of a request at most once.
THEOREM HandledOnceCorrect == Spec => HandledOnce
<1>1. TypeOK /\ MailboxInv /\ [Next]_vars =>
        [\A u \in U54 : (upc[u] = "scan" /\ upc'[u] = "handler") =>
             toU54[u][uslot'[u]].req \notin handled \ {0}]_vars
  BY TakenIsNew
<1>2. QED
  BY <1>1, TypeCorrect, MailboxCorrect, PTL DEF Spec, HandledOnce

-----------------------------------------------------------------------------
(* The refinement: what it needs to know of the completion entries.        *)

\* No two entries, in use or freed, hold the same transaction number, and
\* every number was allocated: IPI_MessageAlloc writes a fresh one.
EntriesInv ==
    /\ \A k \in Index : completes[k].transaction_id < myTx
    /\ \A j, k \in Index :
          (/\ completes[j].transaction_id = completes[k].transaction_id
           /\ completes[j].transaction_id # 0) => j = k

\* The transactions the client still has an entry for.
Live == {completes[k].transaction_id : k \in {j \in Index : completes[j].used}}

\* The transactions the client sees as complete.
Seen == {completes[k].transaction_id : k \in {j \in Index : MessageCheckIfComplete(j)}}

\* All entries are free at first.
LEMMA EntriesInit == Init => EntriesInv
BY DEF Init, EntriesInv

\* IPI_MessageAlloc as PMPSetupRequest uses it: one free entry is given the
\* next transaction number, and is in use unless the queue was full.
LEMMA AllocStep ==
    ASSUME TypeOK, NEW u \in U54, PMPSetupRequest(u)
    PROVE  /\ myTx \in 1..MaxTx /\ myTx' = myTx + 1 /\ handled' = handled
           /\ \E k \in Index :
                /\ ~completes[k].used
                /\ completes'[k].transaction_id = myTx
                /\ completes'[k].status = "PENDING"
                /\ \A j \in Index : j # k => completes'[j] = completes[j]
<1>1. myTx \in 1..MaxTx /\ myTx' = myTx + 1 /\ handled' = handled
  BY SizeAssumption DEF PMPSetupRequest, TypeOK
<1>2. PICK k \in Index :
        /\ IsFirst(k, {j \in Index : ~completes[j].used})
        /\ completes' = [completes EXCEPT ![k] =
              [used |-> ~QueueFull(u), transaction_id |-> myTx, status |-> "PENDING"]]
  BY DEF PMPSetupRequest
<1>3. /\ completes'[k].transaction_id = myTx /\ completes'[k].status = "PENDING"
      /\ \A j \in Index : j # k => completes'[j] = completes[j]
  BY <1>2 DEF TypeOK
<1>4. ~completes[k].used
  BY <1>2 DEF IsFirst
<1>5. QED
  BY <1>1, <1>3, <1>4

\* IPI_ConsumeIntent for an ACK changes at most the status of one entry, to
\* complete, and the entry's transaction was handled.
LEMMA ConsumeStep ==
    ASSUME TypeOK, MailboxInv, NEW u \in U54, NEW type, ConsumeAck(u, type)
    PROVE  \/ completes' = completes
           \/ \E k \in Index :
                /\ completes[k].transaction_id \in Known
                /\ completes'[k].used = completes[k].used
                /\ completes'[k].transaction_id = completes[k].transaction_id
                /\ completes'[k].status = "IDLE"
                /\ \A j \in Index : j # k => completes'[j] = completes[j]
<1>1. CASE UNCHANGED <<toE51, count, completes>>
  BY <1>1
<1>2. ASSUME NEW i \in Slot, MessageUpdateStatus(toE51[u][i].transaction_id),
             completes' # completes
      PROVE  \E k \in Index :
                /\ completes[k].transaction_id \in Known
                /\ completes'[k].used = completes[k].used
                /\ completes'[k].transaction_id = completes[k].transaction_id
                /\ completes'[k].status = "IDLE"
                /\ \A j \in Index : j # k => completes'[j] = completes[j]
  <2>1. toE51[u][i].transaction_id \in Known
    BY DEF MailboxInv, AcksKnown
  <2>2. PICK k \in Index :
          /\ completes[k].transaction_id = toE51[u][i].transaction_id
          /\ completes' = [completes EXCEPT ![k] =
                [used |-> completes[k].used, transaction_id |-> completes[k].transaction_id,
                 status |-> "IDLE"]]
    BY <1>2 DEF MessageUpdateStatus, IsFirst
  <2>3. QED
    BY <2>1, <2>2 DEF TypeOK
<1>3. QED
  BY <1>1, <1>2 DEF ConsumeAck

\* IPI_MessageFree gives one entry in use back.
LEMMA FreeStep ==
    ASSUME TypeOK, NEW k \in Index, MessageFree(k)
    PROVE  /\ completes[k].used /\ completes'[k].used = FALSE
           /\ completes'[k].transaction_id = completes[k].transaction_id
           /\ \A j \in Index : j # k => completes'[j] = completes[j]
           /\ UNCHANGED <<myTx, handled>>
BY DEF MessageFree, TypeOK

\* Only four kinds of step touch entries, numbers or the record of handlers.
LEMMA ServiceSteps ==
    ASSUME TypeOK, MailboxInv, [Next]_vars
    PROVE  \/ \E u \in U54 : PMPSetupRequest(u)
           \/ \E k \in Index : MessageFree(k)
           \/ /\ \E u \in U54, type \in Ack : ConsumeAck(u, type)
              /\ UNCHANGED <<myTx, handled>>
           \/ \E u \in U54 : /\ ConsumeIntent(u) /\ upc[u] = "scan" /\ upc'[u] = "handler"
                             /\ handled' = handled \cup {toU54[u][uslot[u]].req}
                             /\ uslot' = uslot
                             /\ UNCHANGED <<myTx, completes>>
           \/ UNCHANGED <<myTx, completes, handled>>
<1>1. CASE E51Step
  <2>1. CASE DdrTrain \/ StoreBody \/ RaiseMSIP \/ StartPoll \/ PollReceive
    BY <2>1 DEF DdrTrain, StoreBody, RaiseMSIP, StartPoll, PollReceive
  <2>2. CASE GobbleComplete \/ GobblePending
    BY <2>2 DEF GobbleComplete, GobblePending, Ack, TypeOK
  <2>3. QED
    BY <1>1, <2>1, <2>2 DEF E51Step
<1>2. ASSUME NEW u \in U54, U54Step(u)
      PROVE  \/ /\ ConsumeIntent(u) /\ upc[u] = "scan" /\ upc'[u] = "handler"
                /\ handled' = handled \cup {toU54[u][uslot[u]].req}
                /\ uslot' = uslot
                /\ UNCHANGED <<myTx, completes>>
             \/ UNCHANGED <<myTx, completes, handled>>
  <2>1. CASE ConsumeIntent(u)
    BY <2>1 DEF ConsumeIntent, TypeOK
  <2>2. CASE ~ConsumeIntent(u)
    BY <1>2, <2>2 DEF U54Step, Trap, HandlerReturns, StoreAckBody, StoreAckLast,
       ClearRequest, TrapReturn
  <2>3. QED
    BY <2>1, <2>2
<1>3. CASE UNCHANGED vars
  BY <1>3 DEF vars
<1>4. QED
  BY <1>1, <1>2, <1>3 DEF Next

\* Every step keeps the entries' transaction numbers distinct.
LEMMA EntriesNext == TypeOK /\ MailboxInv /\ EntriesInv /\ [Next]_vars => EntriesInv'
<1> SUFFICES ASSUME TypeOK, MailboxInv, EntriesInv, [Next]_vars PROVE EntriesInv'
  OBVIOUS
<1>0. myTx \in Int /\ \A k \in Index : completes[k].transaction_id \in Int
  BY SizeAssumption DEF TypeOK, Complete, TxId
<1>1. ASSUME NEW u \in U54, PMPSetupRequest(u) PROVE EntriesInv'
  BY <1>0, <1>1, AllocStep DEF EntriesInv
<1>2. ASSUME NEW k \in Index, MessageFree(k) PROVE EntriesInv'
  <2>1. /\ myTx' = myTx
        /\ \A j \in Index : completes'[j].transaction_id = completes[j].transaction_id
    BY <1>2, FreeStep
  <2>2. QED
    BY <2>1 DEF EntriesInv
<1>3. ASSUME NEW u \in U54, NEW type, ConsumeAck(u, type), UNCHANGED myTx PROVE EntriesInv'
  BY <1>3, ConsumeStep DEF EntriesInv
<1>4. CASE UNCHANGED <<myTx, completes>>
  BY <1>4 DEF EntriesInv
<1>5. QED
  BY <1>1, <1>2, <1>3, <1>4, ServiceSteps

\* The transactions that were opened and have no entry any more.
Closed == {t \in 1..(myTx - 1) :
             \A k \in Index : completes[k].used => completes[k].transaction_id # t}

\* They are the opened ones that are not live, before and after a step.
LEMMA ClosedNotLive ==
    /\ Closed = (1..(myTx - 1)) \ Live
    /\ Closed' = (1..(myTx' - 1)) \ Live'
<1>1. Closed = (1..(myTx - 1)) \ Live
  BY DEF Closed, Live
<1>2. Closed' = (1..(myTx' - 1)) \ Live'
  BY DEF Closed, Live
<1>3. QED
  BY <1>1, <1>2

\* Nothing is open, run, reported or closed at first.
LEMMA ServiceInit == Init => Service!Init
<1> SUFFICES ASSUME Init PROVE Service!Init
  OBVIOUS
<1>1. 1..(myTx - 1) = {} /\ handled \ {0} = {}
  BY DEF Init
<1>2. {j \in Index : MessageCheckIfComplete(j)} = {}
  BY DEF Init, MessageCheckIfComplete
<1>3. QED
  BY <1>1, <1>2 DEF Service!Init

\* Opening: a transaction number is allocated, with or without an entry.
LEMMA OpenStep ==
    ASSUME myTx \in 1..MaxTx, myTx' = myTx + 1, handled' = handled,
           Live \subseteq 1..(myTx - 1), Live' \in {Live, Live \cup {myTx}}, Seen' = Seen
    PROVE  Service!Open
<1>1. 1..(myTx' - 1) = (1..(myTx - 1)) \cup {myTx}
  BY SizeAssumption
<1>2. myTx \notin 1..(myTx - 1)
  BY SizeAssumption
<1>3. Closed' \in {Closed, Closed \cup {myTx}}
  <2>1. CASE Live' = Live
    BY <1>1, <1>2, <2>1, ClosedNotLive
  <2>2. CASE Live' = Live \cup {myTx}
    BY <1>1, <1>2, <2>2, ClosedNotLive
  <2>3. QED
    BY <2>1, <2>2
<1>4. QED
  BY <1>1, <1>3 DEF Service!Open, Closed, Seen

\* An entry in use holds an opened transaction, and so does a complete one.
LEMMA LiveOpened ==
    ASSUME TypeOK, MailboxInv, EntriesInv
    PROVE  Live \subseteq 1..(myTx - 1) /\ Seen \subseteq Live
<1>1. \A k \in Index : completes[k].transaction_id \in Int
  BY SizeAssumption DEF TypeOK, Complete, TxId
<1>2. \A k \in Index : completes[k].used => completes[k].transaction_id \in 1..(myTx - 1)
  BY <1>1 DEF MailboxInv, AllocatedTx, EntriesInv, TypeOK
<1>3. QED
  BY <1>2 DEF Live, Seen, MessageCheckIfComplete

\* PMPSetupRequest opens a transaction of the abstract service.
LEMMA AllocOpens ==
    ASSUME TypeOK, MailboxInv, EntriesInv, NEW u \in U54, PMPSetupRequest(u)
    PROVE  Service!Open
<1>1. PICK k \in Index :
        /\ ~completes[k].used
        /\ completes'[k].transaction_id = myTx
        /\ completes'[k].status = "PENDING"
        /\ \A j \in Index : j # k => completes'[j] = completes[j]
  BY AllocStep
<1>2. Live' = Live \/ Live' = Live \cup {myTx}
  <2>1. CASE completes'[k].used
    BY <1>1, <2>1 DEF Live
  <2>2. CASE ~completes'[k].used
    BY <1>1, <2>2 DEF Live
  <2>3. QED
    BY <2>1, <2>2
<1>3. Seen' = Seen
  BY <1>1 DEF Seen, MessageCheckIfComplete
<1>4. QED
  BY <1>2, <1>3, AllocStep, LiveOpened, OpenStep

\* IPI_MessageFree closes the entry's transaction, complete or not.
LEMMA FreeCloses ==
    ASSUME TypeOK, MailboxInv, EntriesInv, NEW k \in Index, MessageFree(k)
    PROVE  Service!Close
<1> DEFINE t == completes[k].transaction_id
<1>1. /\ completes[k].used /\ completes'[k].used = FALSE
      /\ \A j \in Index : j # k => completes'[j] = completes[j]
      /\ myTx' = myTx /\ handled' = handled
  BY FreeStep
<1>2. t \in Live /\ t \in 1..(myTx - 1)
  BY <1>1, LiveOpened DEF Live
<1>3. \A j \in Index : j # k => completes[j].transaction_id # t
  BY <1>2 DEF EntriesInv
<1>4. Live' = Live \ {t}
  BY <1>1, <1>3 DEF Live
<1>5. Seen' = Seen \ {t}
  BY <1>1, <1>3 DEF Seen, MessageCheckIfComplete
<1>6. Closed' = Closed \cup {t} /\ t \notin Closed
  BY <1>1, <1>2, <1>4, ClosedNotLive
<1>7. QED
  BY <1>1, <1>2, <1>5, <1>6 DEF Service!Close, Closed, Seen

\* An ACK reports the completion of a transaction that ran and is open, once.
LEMMA AckReports ==
    ASSUME TypeOK, MailboxInv, EntriesInv, NEW u \in U54, NEW type, ConsumeAck(u, type),
           UNCHANGED <<myTx, handled>>
    PROVE  Service!Report \/ UNCHANGED Service!svars
<1>1. CASE completes' = completes
  BY <1>1 DEF Service!svars, MessageCheckIfComplete
<1>2. ASSUME NEW k \in Index,
             completes[k].transaction_id \in Known,
             completes'[k].used = completes[k].used,
             completes'[k].transaction_id = completes[k].transaction_id,
             completes'[k].status = "IDLE",
             \A j \in Index : j # k => completes'[j] = completes[j]
      PROVE  Service!Report \/ UNCHANGED Service!svars
  <2> DEFINE t == completes[k].transaction_id
  <2>1. Live' = Live
    BY <1>2 DEF Live
  <2>2. Closed' = Closed
    BY <2>1, ClosedNotLive
  <2>3. CASE ~completes[k].used \/ completes[k].status # "PENDING"
    <3>1. Seen' = Seen
      BY <1>2, <2>3 DEF Seen, MessageCheckIfComplete
    <3>2. QED
      BY <2>2, <3>1 DEF Service!svars, Closed, Seen
  <2>4. CASE completes[k].used /\ completes[k].status = "PENDING"
    <3>1. Seen' = Seen \cup {t}
      <4>1. MessageCheckIfComplete(k)' /\ ~MessageCheckIfComplete(k)
        BY <1>2, <2>4 DEF MessageCheckIfComplete
      <4>2. \A j \in Index : j # k =>
              (MessageCheckIfComplete(j)' <=> MessageCheckIfComplete(j))
        BY <1>2 DEF MessageCheckIfComplete
      <4>3. \A j \in Index : completes'[j].transaction_id = completes[j].transaction_id
        BY <1>2
      <4>4. \A s : s \in Seen' <=> s \in Seen \/ s = t
        BY <4>1, <4>2, <4>3 DEF Seen
      <4>5. QED
        BY <4>4
    <3>2. t \in Live /\ t \in 1..(myTx - 1)
      BY <2>4, LiveOpened DEF Live
    <3>3. t \in handled \ {0}
      BY <1>2, <3>2 DEF Known
    <3>4. t \notin Closed
      BY <3>2, ClosedNotLive
    <3>5. t \notin Seen
      BY <2>4, <3>2 DEF Seen, EntriesInv, MessageCheckIfComplete
    <3>6. QED
      BY <2>2, <3>1, <3>3, <3>4, <3>5 DEF Service!Report, Closed, Seen
  <2>5. QED
    BY <2>3, <2>4
<1>3. QED
  BY <1>1, <1>2, ConsumeStep

\* A U54 that starts a handler runs an opened transaction, for the first time.
LEMMA HandlerRuns ==
    ASSUME TypeOK, MailboxInv, Next, NEW u \in U54, upc[u] = "scan", upc'[u] = "handler",
           handled' = handled \cup {toU54[u][uslot[u]].req}, uslot' = uslot,
           UNCHANGED <<myTx, completes>>
    PROVE  Service!Run \/ UNCHANGED Service!svars
<1> DEFINE r == toU54[u][uslot[u]].req
<1>1. r \in TxId /\ r < myTx /\ myTx \in Int
  BY DEF TypeOK, RequestMsg, MailboxInv, AllocatedTx
<1>2. r = 0 \/ r \notin handled
  BY TakenIsNew
<1>3. Closed' = Closed /\ Seen' = Seen
  BY DEF Closed, Seen, MessageCheckIfComplete
<1>4. CASE r = 0
  BY <1>3, <1>4 DEF Service!svars, Closed, Seen
<1>5. CASE r # 0
  <2>1. r \in 1..(myTx - 1) /\ r \notin handled \ {0}
    BY <1>1, <1>2, <1>5, SizeAssumption DEF TxId
  <2>2. handled' \ {0} = (handled \ {0}) \cup {r}
    BY <1>5
  <2>3. QED
    BY <1>3, <2>1, <2>2 DEF Service!Run, Closed, Seen
<1>6. QED
  BY <1>4, <1>5

\* Every step of the mailbox is a step of the request service or invisible.
LEMMA ServiceNext ==
    TypeOK /\ MailboxInv /\ EntriesInv /\ [Next]_vars => [Service!Next]_Service!svars
<1> SUFFICES ASSUME TypeOK, MailboxInv, EntriesInv, [Next]_vars
             PROVE  Service!Next \/ UNCHANGED Service!svars
  OBVIOUS
<1>1. ASSUME NEW u \in U54, PMPSetupRequest(u) PROVE Service!Next
  BY <1>1, AllocOpens DEF Service!Next
<1>2. ASSUME NEW k \in Index, MessageFree(k) PROVE Service!Next
  BY <1>2, FreeCloses DEF Service!Next
<1>3. ASSUME NEW u \in U54, NEW type, ConsumeAck(u, type), UNCHANGED <<myTx, handled>>
      PROVE  Service!Next \/ UNCHANGED Service!svars
  BY <1>3, AckReports DEF Service!Next
<1>4. ASSUME NEW u \in U54, ConsumeIntent(u), upc[u] = "scan", upc'[u] = "handler",
             handled' = handled \cup {toU54[u][uslot[u]].req}, uslot' = uslot,
             UNCHANGED <<myTx, completes>>
      PROVE  Service!Next \/ UNCHANGED Service!svars
  <2>1. Next
    BY <1>4 DEF Next, U54Step
  <2>2. QED
    BY <1>4, <2>1, HandlerRuns DEF Service!Next
<1>5. CASE UNCHANGED <<myTx, completes, handled>>
  BY <1>5 DEF Service!svars, MessageCheckIfComplete
<1>6. QED
  BY <1>1, <1>2, <1>3, <1>4, <1>5, ServiceSteps

\* The completion entries never share a transaction number.
THEOREM EntriesCorrect == Spec => []EntriesInv
<1>1. QED
  BY TypeCorrect, MailboxCorrect, EntriesInit, EntriesNext, PTL DEF Spec

\* The mailbox implements the abstract request service: requests open in
\* order, run at most once, are reported complete only after they ran and
\* never after the E51 freed their entry, whatever the interleaving of
\* IPI_Send, IPI_ConsumeIntent, polling and time-outs.
THEOREM RefinementCorrect == Spec => ImplementsRequestService
<1>1. QED
  BY TypeCorrect, MailboxCorrect, EntriesCorrect, ServiceInit, ServiceNext, PTL
     DEF Spec, ImplementsRequestService, Service!Spec

-----------------------------------------------------------------------------
(* The pending count of the queue a U54 fills.                             *)

\* What one queue holds is finite, and at most one message less or more when
\* one slot changes.
LEMMA OccupiedChange ==
    ASSUME NEW q, NEW r, NEW i \in Slot, \A j \in Slot : j # i => r[j] = q[j]
    PROVE  /\ Cardinality(Occupied(q)) \in Nat /\ Cardinality(Occupied(r)) \in Nat
           /\ (r[i].msg_type # None \/ q[i].msg_type = None) =>
                 Cardinality(Occupied(q)) <= Cardinality(Occupied(r))
           /\ Cardinality(Occupied(q)) <= Cardinality(Occupied(r)) + 1
<1>1. ASSUME NEW s PROVE IsFiniteSet(Occupied(s)) /\ Cardinality(Occupied(s)) \in Nat
  <2>1. IsFiniteSet(Slot)
    BY FS_Interval, SizeAssumption DEF Slot
  <2>2. Occupied(s) \subseteq Slot
    BY DEF Occupied
  <2>3. QED
    BY <2>1, <2>2, FS_Subset, FS_CardinalityType
<1>2. CASE r[i].msg_type # None \/ q[i].msg_type = None
  <2>1. Occupied(q) \subseteq Occupied(r)
    BY <1>2 DEF Occupied
  <2>2. QED
    BY <1>1, <2>1, FS_Subset
<1>3. CASE ~(r[i].msg_type # None \/ q[i].msg_type = None)
  <2>1. Occupied(r) = Occupied(q) \ {i} /\ i \in Occupied(q)
    BY <1>3 DEF Occupied
  <2>2. Cardinality(Occupied(r)) = Cardinality(Occupied(q)) - 1
    BY <1>1, <2>1, FS_RemoveElement
  <2>3. QED
    BY <1>1, <1>3, <2>2
<1>4. QED
  BY <1>2, <1>3

\* Consuming an ACK takes one message off the queue and one off the count.
LEMMA ConsumeCounts ==
    ASSUME TypeOK, CountNeverOverstates, NEW u \in U54, NEW type \in Ack, ConsumeAck(u, type)
    PROVE  CountNeverOverstates'
<1>1. CASE UNCHANGED <<toE51, count, completes>>
  BY <1>1 DEF CountNeverOverstates, Occupied
<1>2. ASSUME NEW i \in Slot,
             count' = [count EXCEPT ![u] = IF @ = 0 THEN 0 ELSE @ - 1],
             toE51' = [toE51 EXCEPT ![u][i] =
                         [msg_type |-> None, transaction_id |-> toE51[u][i].transaction_id]]
      PROVE  CountNeverOverstates'
  <2>1. /\ \A v \in U54 : v # u => toE51'[v] = toE51[v] /\ count'[v] = count[v]
        /\ \A j \in Slot : j # i => toE51'[u][j] = toE51[u][j]
        /\ count[u] \in Nat
        /\ count'[u] = IF count[u] = 0 THEN 0 ELSE count[u] - 1
    BY <1>2 DEF TypeOK
  <2>2. /\ Cardinality(Occupied(toE51[u])) \in Nat /\ Cardinality(Occupied(toE51'[u])) \in Nat
        /\ Cardinality(Occupied(toE51[u])) <= Cardinality(Occupied(toE51'[u])) + 1
    BY <2>1, OccupiedChange
  <2>3. count'[u] <= Cardinality(Occupied(toE51'[u]))
    BY <2>1, <2>2 DEF CountNeverOverstates
  <2>4. \A v \in U54 : count'[v] <= Cardinality(Occupied(toE51'[v]))
    BY <2>1, <2>3 DEF CountNeverOverstates
  <2>5. QED
    BY <2>4 DEF CountNeverOverstates, Occupied
<1>3. QED
  BY <1>1, <1>2 DEF ConsumeAck

\* A U54 that stores into a slot without emptying it keeps the count right.
LEMMA StoreCounts ==
    ASSUME TypeOK, CountNeverOverstates, NEW u \in U54, NEW i \in Slot,
           UNCHANGED count,
           \A v \in U54 : v # u => toE51'[v] = toE51[v],
           \A j \in Slot : j # i => toE51'[u][j] = toE51[u][j],
           toE51'[u][i].msg_type # None \/ toE51[u][i].msg_type = None
    PROVE  CountNeverOverstates'
<1>1. /\ Cardinality(Occupied(toE51[u])) \in Nat /\ Cardinality(Occupied(toE51'[u])) \in Nat
      /\ Cardinality(Occupied(toE51[u])) <= Cardinality(Occupied(toE51'[u]))
  BY OccupiedChange
<1>2. \A v \in U54 : count[v] \in Nat
  BY DEF TypeOK
<1>3. \A v \in U54 : count'[v] <= Cardinality(Occupied(toE51'[v]))
  BY <1>1, <1>2 DEF CountNeverOverstates
<1>4. QED
  BY <1>3 DEF CountNeverOverstates, Occupied

\* Every step keeps the counts right.
LEMMA CountNext == TypeOK /\ CountNeverOverstates /\ [Next]_vars => CountNeverOverstates'
<1> SUFFICES ASSUME TypeOK, CountNeverOverstates, [Next]_vars PROVE CountNeverOverstates'
  OBVIOUS
<1>1. CASE UNCHANGED <<toE51, count>>
  BY <1>1 DEF CountNeverOverstates, Occupied
<1>2. CASE PollReceive
  <2>1. \A v \in U54 : count'[v] = count[v] \/ count'[v] = Cardinality(Occupied(toE51[v]))
    BY <1>2 DEF PollReceive, TypeOK
  <2>2. toE51' = toE51
    BY <1>2 DEF PollReceive
  <2>3. \A v \in U54 : Cardinality(Occupied(toE51[v])) \in Nat
    BY OccupiedBound, SizeAssumption
  <2>4. \A v \in U54 : count'[v] <= Cardinality(Occupied(toE51'[v]))
    BY <2>1, <2>2, <2>3 DEF CountNeverOverstates
  <2>5. QED
    BY <2>4 DEF CountNeverOverstates, Occupied
<1>3. CASE GobbleComplete \/ GobblePending
  <2>1. CASE UNCHANGED <<toE51, count, completes>>
    BY <1>1, <2>1
  <2>2. ASSUME NEW type \in Ack, ConsumeAck(hart, type) PROVE CountNeverOverstates'
    BY <2>2, ConsumeCounts DEF TypeOK
  <2>3. QED
    BY <1>3, <2>1, <2>2 DEF GobbleComplete, GobblePending, Ack
<1>4. ASSUME NEW u \in U54, HandlerReturns(u) PROVE CountNeverOverstates'
  <2>1. CASE UNCHANGED toE51
    BY <1>1, <1>4, <2>1 DEF HandlerReturns
  <2>2. ASSUME NEW i \in Slot, NEW type,
               toE51[u][i].msg_type = None,
               toE51' = [toE51 EXCEPT ![u][i] =
                           [msg_type |-> type, transaction_id |-> toE51[u][i].transaction_id]]
        PROVE  CountNeverOverstates'
    <3>1. /\ \A v \in U54 : v # u => toE51'[v] = toE51[v]
          /\ \A j \in Slot : j # i => toE51'[u][j] = toE51[u][j]
      BY <2>2 DEF TypeOK
    <3>2. QED
      BY <1>4, <2>2, <3>1, StoreCounts DEF HandlerReturns
  <2>3. QED
    BY <1>4, <2>1, <2>2 DEF HandlerReturns, IsFirst
<1>5. ASSUME NEW u \in U54, StoreAckBody(u) PROVE CountNeverOverstates'
  <2>1. /\ \A v \in U54 : v # u => toE51'[v] = toE51[v]
        /\ \A j \in Slot : j # ackSlot[u] => toE51'[u][j] = toE51[u][j]
        /\ toE51'[u][ackSlot[u]].msg_type = toE51[u][ackSlot[u]].msg_type
        /\ ackSlot[u] \in Slot
    BY <1>5 DEF StoreAckBody, TypeOK
  <2>2. QED
    BY <1>5, <2>1, StoreCounts DEF StoreAckBody
<1>6. CASE E51Step /\ ~PollReceive /\ ~GobbleComplete /\ ~GobblePending
  BY <1>1, <1>6 DEF E51Step, PMPSetupRequest, DdrTrain, StoreBody, RaiseMSIP, MessageFree,
     StartPoll, mailbox
<1>7. ASSUME NEW u \in U54, U54Step(u), ~HandlerReturns(u), ~StoreAckBody(u)
      PROVE  CountNeverOverstates'
  BY <1>1, <1>7 DEF U54Step, Trap, ConsumeIntent, StoreAckLast, ClearRequest, TrapReturn, mailbox
<1>8. CASE UNCHANGED vars
  BY <1>1, <1>8 DEF vars, mailbox
<1>9. QED
  BY <1>2, <1>3, <1>4, <1>5, <1>6, <1>7, <1>8 DEF Next

\* The pending count the E51 goes by (IPI_PollReceive) never promises more
\* messages than the queue holds, although U54s add messages meanwhile: the
\* counting, the decrement and the clearing of slots stay in step.
THEOREM CountCorrect == Spec => []CountNeverOverstates
<1>1. Init => CountNeverOverstates
  BY OccupiedBound, SizeAssumption DEF Init, CountNeverOverstates
<1>2. QED
  BY <1>1, TypeCorrect, CountNext, PTL DEF Spec

-----------------------------------------------------------------------------
(* Interrupts before OpenSBI has registered its IPI device.                *)

\* A U54 whose bit was never raised has never left its wait loop, and the
\* only message in its queue is one IPI_Send is still posting.
NotYetRaised ==
    \A u \in U54 : ~msip[u] =>
        /\ upc[u] = "wfi"
        /\ \A i \in Occupied(toU54[u]) : pc \in {"body", "raise"} /\ hart = u /\ slot = i

\* IPI_Send raises the bit of the hart it posted to before it posts again.
LEMMA RaisedNext ==
    ASSUME IpiDev = FALSE
    PROVE  TypeOK /\ NotYetRaised /\ [Next]_vars => NotYetRaised'
<1> SUFFICES ASSUME TypeOK, NotYetRaised, [Next]_vars PROVE NotYetRaised'
  OBVIOUS
<1>1. CASE UNCHANGED <<toU54, upc, msip, pc, hart, slot>>
  BY <1>1 DEF NotYetRaised, Occupied
<1>2. ASSUME NEW u \in U54, NEW type, NEW t, StoreType(u, type, t), UNCHANGED <<upc, msip>>,
             pc = "loop"
      PROVE  NotYetRaised'
  <2>1. PICK i \in Slot :
          /\ toU54' = [toU54 EXCEPT ![u][i] =
              [msg_type |-> type, transaction_id |-> toU54[u][i].transaction_id, req |-> t]]
          /\ pc' = "body" /\ hart' = u /\ slot' = i
    BY <1>2 DEF StoreType
  <2>2. /\ \A v \in U54 : v # u => toU54'[v] = toU54[v]
        /\ \A j \in Slot : j # i => toU54'[u][j] = toU54[u][j]
    BY <2>1 DEF TypeOK
  <2>3. ASSUME NEW v \in U54, ~msip[v] PROVE upc[v] = "wfi" /\ Occupied(toU54[v]) = {}
    BY <1>2, <2>3 DEF NotYetRaised
  <2>4. QED
    BY <1>2, <2>1, <2>2, <2>3 DEF NotYetRaised, Occupied
<1>3. ASSUME NEW u \in U54, PMPSetupRequest(u) PROVE NotYetRaised'
  <2>1. CASE StoreType(u, "PMP_SETUP", myTx)
    BY <1>2, <1>3, <2>1 DEF PMPSetupRequest, u54
  <2>2. CASE UNCHANGED <<toU54, e51>>
    BY <1>1, <1>3, <2>2 DEF PMPSetupRequest, u54, e51
  <2>3. QED
    BY <1>3, <2>1, <2>2 DEF PMPSetupRequest
<1>4. CASE DdrTrain
  BY <1>2, <1>4, Ranges DEF DdrTrain, u54
<1>5. CASE StoreBody
  <2>1. /\ pc = "body" /\ pc' = "raise"
        /\ UNCHANGED <<upc, msip, hart, slot>>
        /\ \A v \in U54, j \in Slot : toU54'[v][j].msg_type = toU54[v][j].msg_type
    BY <1>5 DEF StoreBody, TypeOK, u54
  <2>2. QED
    BY <2>1 DEF NotYetRaised, Occupied
<1>6. CASE RaiseMSIP
  <2>1. /\ msip'[hart] /\ pc = "raise"
        /\ \A v \in U54 : v # hart => msip'[v] = msip[v]
        /\ UNCHANGED <<upc, toU54>>
    BY <1>6 DEF RaiseMSIP, TypeOK, mailbox, u54
  <2>2. QED
    BY <2>1 DEF NotYetRaised, Occupied
<1>7. CASE /\ UNCHANGED <<toU54, upc, msip>> /\ pc \notin {"body", "raise"}
  BY <1>7 DEF NotYetRaised, Occupied
<1>8. ASSUME NEW u \in U54, U54Step(u) PROVE NotYetRaised'
  <2>1. msip' = msip /\ UNCHANGED <<pc, hart, slot>>
    <3>1. CASE TrapReturn(u)
      <4>1. msip'[u] = msip[u] /\ \A v \in U54 : v # u => msip'[v] = msip[v]
        BY <3>1, Zenon DEF TrapReturn, TypeOK
      <4>2. msip' \in [U54 -> BOOLEAN] /\ msip \in [U54 -> BOOLEAN]
        BY TypeNext DEF TypeOK
      <4>3. msip' = msip
        BY <4>1, <4>2
      <4>4. QED
        BY <3>1, <4>3 DEF TrapReturn, e51
    <3>2. CASE ~TrapReturn(u)
      BY <1>8, <3>2 DEF U54Step, Trap, ConsumeIntent, HandlerReturns, StoreAckBody,
         StoreAckLast, ClearRequest, e51
    <3>3. QED
      BY <3>1, <3>2
  <2>2. msip[u]
    BY <1>8 DEF NotYetRaised, U54Step, Trap, ConsumeIntent, HandlerReturns, StoreAckBody,
       StoreAckLast, ClearRequest, TrapReturn
  <2>3. \A v \in U54 : v # u => toU54'[v] = toU54[v] /\ upc'[v] = upc[v]
    BY <1>8 DEF U54Step, Trap, ConsumeIntent, NextIntent, HandlerReturns, StoreAckBody,
       StoreAckLast, ClearRequest, TrapReturn, TypeOK, mailbox
  <2>4. QED
    BY <2>1, <2>2, <2>3 DEF NotYetRaised, Occupied
<1>9. QED
  BY <1>1, <1>3, <1>4, <1>5, <1>6, <1>7, <1>8
     DEF Next, E51Step, MessageFree, StartPoll, PollReceive, GobbleComplete, GobblePending,
         mailbox, e51, u54, vars

\* While nothing clears MSIP (OpenSBI has not registered an IPI device), a
\* U54 that waits with its bit clear has no request it was told of: the trap
\* of a request raised during a scan is not lost.
THEOREM NoStrandedCorrect ==
    ASSUME IpiDev = FALSE
    PROVE  Spec => []NoStrandedRequest
<1>1. Init => NotYetRaised
  BY DEF Init, NotYetRaised, Occupied
<1>2. TypeOK /\ NotYetRaised /\ [Next]_vars => NotYetRaised'
  BY RaisedNext
<1>3. NotYetRaised => NoStrandedRequest
  BY DEF NotYetRaised, NoStrandedRequest
<1>4. QED
  BY <1>1, <1>2, <1>3, TypeCorrect, PTL DEF Spec

=============================================================================
