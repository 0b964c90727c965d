----------------------------- MODULE BootService -----------------------------
(***************************************************************************)
(* Booting the U54 harts: the four boot machines of the E51                *)
(* (services/boot/hss_boot_service.c) run by the super-loop                *)
(* (application/hart0/hss_state_machine.c) between the ipi_poll and the    *)
(* tinycli machines, the U54s that serve their requests, and the ledger    *)
(* through which OpenSBI picks the hart that does the cold boot            *)
(* (services/opensbi/platform.c).                                          *)
(*                                                                         *)
(* IPI_Send and the handlers of the U54s are single steps here; SsmbIpi    *)
(* models them store by store.  Chunks are copied one per call; BootChunks *)
(* models what is copied.  Start-up is over: EVENT_DDR_TRAINED and         *)
(* EVENT_STARTUP_COMPLETE have been notified.                              *)
(***************************************************************************)
EXTENDS Integers, FiniteSets

CONSTANTS
    NumU54,       \* the boot machines and U54 harts are 1..NumU54
    N,            \* IPI_MAX_NUM_QUEUE_MESSAGES
    K,            \* IPI_MAX_NUM_OUTSTANDING_COMPLETES, also "no index"
    Scenarios     \* what the storage holds and the users do: records of
                  \*   numChunks    boot image: chunks of each hart
                  \*   entryPoint   boot image: entry point of each hart, 0 for none
                  \*   skipOpensbi  boot image: harts with BOOT_FLAG_SKIP_OPENSBI
                  \*   skipAutoboot boot image: harts with BOOT_FLAG_SKIP_AUTOBOOT
                  \*   storageFails HSS_BootInit may fail to read the image
                  \*   maxBoots     bound on the boot commands given to tinycli
                  \*   maxRequests  bound on the requests of the payloads

U54 == 1..NumU54
Index == 0..(K - 1)

ASSUME ImageAssumption ==
    /\ NumU54 \in Nat \ {0} /\ N \in Nat \ {0} /\ K \in Nat \ {0}
    /\ \A s \in Scenarios :
        /\ s.numChunks \in [U54 -> Nat] /\ s.entryPoint \in [U54 -> Nat]
        /\ s.skipOpensbi \subseteq U54 /\ s.skipAutoboot \subseteq U54
        /\ s.storageFails \in BOOLEAN /\ s.maxBoots \in Nat /\ s.maxRequests \in Nat

VARIABLES
    turn,         \* E51: 0 ipi_poll, 1..NumU54 boot machine, NumU54 + 1 tinycli
    phase,        \* E51, inside RunStateMachine: "enter", then "handler"
    cur,          \* E51: currentState as RunStateMachine captured it
    state,        \* of each boot machine
    prevState,
    elapsed,      \* BOOT_SETUP_PMP_COMPLETE_TIMEOUT has passed since startTime
    left,         \* chunks still to be downloaded
    iterator,
    msgIndex,
    msgIndexAux,
    image,        \* pBootImage # NULL
    bootComplete, \* harts whose bootComplete flag is set
    event,        \* EVENT_BOOT_COMPLETE has been notified
    bootFail,     \* BOOT_FAIL_CR
    bootStatus,   \* MSS_STATUS:BOOT_STATUS
    queue,        \* messages E51 -> u
    inbox,        \* messages u -> E51
    last, shadow, count,        \* of the queues u -> E51
    completes,
    myTx,         \* my_transaction_id of every hart
    ustate,       \* where a U54 is: in the "hss", in a payload without OpenSBI
                  \* ("goto"), in sbi_init before ("sbi") or while waiting for
                  \* the cold boot ("warm"), in sbi_hsm_hart_wait ("parked"),
                  \* in a payload under OpenSBI ("run")
    passed,       \* its scan is past the PMP_SETUP intent
    pmpSetupFlag,
    hartState,
    owner, pending,             \* hart_ledger
    lottery,      \* coldboot_lottery of sbi_init
    scenario,     \* one of Scenarios
    boots, requests             \* what its bounds count

machine == <<state, prevState, elapsed, left, iterator, msgIndex, msgIndexAux>>
sched == <<turn, phase, cur>>
report == <<bootComplete, event, bootFail, bootStatus>>
toE51 == <<inbox, last, shadow, count>>
ledger == <<owner, pending, lottery>>
hart == <<ustate, passed, pmpSetupFlag, hartState>>
bounds == <<scenario, boots, requests>>
vars == <<machine, sched, image, report, queue, toE51, completes, myTx, ledger, hart, bounds>>

BootState == {"INITIALIZATION", "SETUP_PMP", "SETUP_PMP_COMPLETE", "ZERO_INIT_CHUNKS",
              "DOWNLOAD_CHUNKS", "OPENSBI_INIT", "WAIT", "COMPLETE", "IDLE", "ERROR"}

NumChunks == scenario.numChunks
EntryPoint == scenario.entryPoint
SkipOpensbi == scenario.skipOpensbi
SkipAutoboot == scenario.skipAutoboot

\* A boot machine that has something to boot of its own.
PrimaryBootHart(h) == NumChunks[h] # 0 /\ EntryPoint[h] # 0

\* The other harts of the same boot set.
Peers(h) == {p \in U54 \ {h} : EntryPoint[p] = EntryPoint[h]}

Init ==
    /\ turn = 0 /\ phase = "enter" /\ cur = "IDLE"
    /\ state = [h \in U54 |-> "IDLE"]
    /\ prevState = [h \in U54 |-> "INVALID"]
    /\ elapsed = [h \in U54 |-> FALSE]
    /\ left = [h \in U54 |-> 0]
    /\ iterator = [h \in U54 |-> 0]
    /\ msgIndex = [h \in U54 |-> K]
    /\ msgIndexAux = [h \in U54 |-> [p \in U54 |-> 0]]
    /\ image = FALSE
    /\ bootComplete = {} /\ event = FALSE /\ bootFail = FALSE /\ bootStatus = {}
    /\ queue = [u \in U54 |-> {}]
    /\ inbox = [u \in U54 |-> {}]
    /\ last = [u \in U54 |-> 0] /\ shadow = [u \in U54 |-> 0] /\ count = [u \in U54 |-> 0]
    /\ completes = [k \in Index |-> [used |-> FALSE, tx |-> 0, status |-> "FAIL"]]
    /\ myTx = [h \in 0..NumU54 |-> 1]
    /\ ustate = [u \in U54 |-> "hss"]
    /\ passed = [u \in U54 |-> FALSE]
    /\ pmpSetupFlag = [u \in U54 |-> FALSE]
    /\ hartState = [u \in U54 |-> "Idle"]
    /\ owner = [u \in U54 |-> 0] /\ pending = {} /\ lottery = FALSE
    /\ scenario \in Scenarios /\ boots = 0 /\ requests = 0

-----------------------------------------------------------------------------
(* The mailbox, in single steps                                            *)

\* The entry IPI_MessageAlloc takes.  When there is none the E51 stops in an
\* assertion.
FreeEntry(k) == ~completes[k].used /\ \A j \in 0..(k - 1) : completes[j].used

\* Mutant: a ring buffer that keeps one slot empty.
SentKeepsSlotEmpty(u) == Cardinality(queue[u]) < N - 1

\* IPI_Send to hart u finds a free slot.
Sent(u) == Cardinality(queue[u]) < N

\* IPI_MessageAlloc and IPI_MessageDeliver of the E51 to hart u.
Deliver(k, u, type, keep) ==
    /\ FreeEntry(k)
    /\ completes' = [completes EXCEPT ![k] =
          [used |-> Sent(u) \/ keep, tx |-> myTx[0], status |-> "PENDING"]]
    /\ queue' = [queue EXCEPT ![u] =
          IF Sent(u) THEN @ \cup {[type |-> type, tx |-> myTx[0]]} ELSE @]
    /\ myTx' = [myTx EXCEPT ![0] = @ + 1]

\* IPI_MessageCheckIfComplete
Complete(k) == completes[k].used /\ completes[k].status # "PENDING"

\* IPI_MessageUpdateStatus for every transaction in txs: the first entry that
\* holds it, in use or not.
UpdateStatus(txs) ==
    [k \in Index |->
        IF completes[k].tx \in txs /\ \A j \in 0..(k - 1) : completes[j].tx # completes[k].tx
        THEN [used |-> completes[k].used, tx |-> completes[k].tx, status |-> "IDLE"]
        ELSE completes[k]]

\* IPI_MessageFree for every entry in ks.
Free(ks) ==
    [k \in Index |->
        IF k \in ks
        THEN [used |-> FALSE, tx |-> completes[k].tx, status |-> completes[k].status]
        ELSE completes[k]]

\* IPI_Send from hart u to the E51; a full queue drops the message.
Post(u, msg) ==
    LET room == Cardinality(inbox[u]) < N
    IN  /\ inbox' = [inbox EXCEPT ![u] = IF room THEN @ \cup {msg} ELSE @]
        /\ last' = [last EXCEPT ![u] = IF room THEN msg.tx ELSE @]
        /\ UNCHANGED <<shadow, count>>

AckComplete(t) == [type |-> "ACK_COMPLETE", tx |-> t, target |-> 0]

-----------------------------------------------------------------------------
(* The super-loop                                                          *)

\* RunStateMachines goes on with the next machine.
NextTurn == turn' = (turn + 1) % (NumU54 + 2) /\ phase' = "enter" /\ UNCHANGED cur

\* ipiPoll_monitoring_handler: count the queues with a new last transaction,
\* then take one ACK from every queue with a pending count.
IpiPoll ==
    LET new == {u \in U54 : last[u] # shadow[u]}
        seen == [u \in U54 |-> IF u \in new THEN Cardinality(inbox[u]) ELSE count[u]]
        acks == [u \in U54 |-> {m \in inbox[u] : m.type = "ACK_COMPLETE"}]
        taking == {u \in U54 : new # {} /\ seen[u] # 0 /\ acks[u] # {}}
    IN  /\ turn = 0
        /\ shadow' = last
        /\ \E ack \in [taking -> UNION {acks[u] : u \in taking}] :
            /\ \A u \in taking : ack[u] \in acks[u]
            /\ inbox' = [u \in U54 |-> IF u \in taking THEN inbox[u] \ {ack[u]} ELSE inbox[u]]
            /\ completes' = UpdateStatus({ack[u].tx : u \in taking})
        /\ count' = [u \in U54 |-> IF u \in taking THEN seen[u] - 1 ELSE seen[u]]
        /\ NextTurn
        /\ UNCHANGED <<machine, image, report, queue, last, myTx, ledger, hart, bounds>>

\* Mutant: the auxiliary indices survive.
KeepAuxIndices(h) == msgIndex' = [msgIndex EXCEPT ![h] = K] /\ UNCHANGED msgIndexAux

ForgetIndices(h) ==
    /\ msgIndex' = [msgIndex EXCEPT ![h] = K]
    /\ msgIndexAux' = [msgIndexAux EXCEPT ![h] = [p \in U54 |-> K]]

\* register_harts: forget the indices, enter the harts of the boot set in the
\* ledger.
RegisterHarts(h) ==
    LET set == IF PrimaryBootHart(h) THEN (Peers(h) \cup {h}) \ SkipOpensbi ELSE {}
        gone == IF PrimaryBootHart(h) THEN SkipOpensbi ELSE {}
    IN  /\ ForgetIndices(h)
        /\ owner' = [u \in U54 |-> IF u \in set THEN h ELSE IF u \in gone THEN 0 ELSE owner[u]]
        /\ pending' = (pending \ gone) \cup set
        /\ UNCHANGED lottery

\* common_boot_message_delivery to hart u: an entry that cannot be delivered
\* stays allocated and the machine goes to ERROR.
Launch(h, u) ==
    /\ \E k \in Index :
        /\ Deliver(k, u, IF u \in SkipOpensbi THEN "GOTO" ELSE "OPENSBI_INIT", TRUE)
        /\ msgIndexAux' = [msgIndexAux EXCEPT ![h][u] = k]
    /\ state' = IF Sent(u) THEN state ELSE [state EXCEPT ![h] = "ERROR"]

\* RunStateMachine up to the call of the handler: onExit of the previous
\* state, onEntry of the captured one; prevState is read again after them.
RunStateMachine(h) ==
    LET prev == prevState[h]
        now == state[h]
        moved == prev # now
        exits == moved /\ prev = "OPENSBI_INIT" /\ EntryPoint[h] # 0
        registers == moved /\ (prev = "DOWNLOAD_CHUNKS" \/ now = "SETUP_PMP")
    IN  /\ turn = h /\ phase = "enter"
        /\ phase' = "handler" /\ cur' = now /\ UNCHANGED turn
        /\ moved /\ prev \in {"DOWNLOAD_CHUNKS", "OPENSBI_INIT"} => image
        /\ now = "SETUP_PMP" /\ moved => image
        /\ \/ exits /\ Launch(h, h) /\ UNCHANGED <<msgIndex, ledger>>
           \/ registers /\ RegisterHarts(h) /\ UNCHANGED <<state, completes, queue, myTx>>
           \/ ~exits /\ ~registers
              /\ UNCHANGED <<state, completes, queue, myTx, msgIndex, msgIndexAux, ledger>>
        /\ prevState' = [prevState EXCEPT ![h] = IF moved THEN state'[h] ELSE @]
        /\ left' = [left EXCEPT ![h] =
              IF moved /\ now = "DOWNLOAD_CHUNKS" THEN NumChunks[h] ELSE @]
        /\ iterator' = [iterator EXCEPT ![h] =
              IF moved /\ now = "OPENSBI_INIT" /\ EntryPoint[h] # 0 THEN 0 ELSE @]
        /\ bootComplete' = IF moved /\ now = "COMPLETE" THEN bootComplete \cup {h}
                           ELSE bootComplete
        /\ UNCHANGED <<elapsed, image, event, bootFail, bootStatus, toE51, hart, bounds>>

\* A handler runs for the state that was captured, whatever the state is now.
Handles(h, s) == turn = h /\ phase = "handler" /\ cur = s /\ NextTurn

GoTo(h, s) == state' = [state EXCEPT ![h] = s]

InitHandler(h) ==
    /\ Handles(h, "INITIALIZATION")
    /\ \/ image /\ GoTo(h, "SETUP_PMP") /\ elapsed' = [elapsed EXCEPT ![h] = FALSE]
                /\ bootFail' = FALSE
       \/ ~image /\ GoTo(h, "ERROR") /\ UNCHANGED <<elapsed, bootFail>>
    /\ UNCHANGED <<prevState, left, iterator, msgIndex, msgIndexAux, image, bootComplete, event,
                   bootStatus, queue, toE51, completes, myTx, ledger, hart, bounds>>

\* boot_setup_pmp_handler with HSS_Boot_PMPSetupRequest: on failure the entry
\* is freed, yet msgIndex keeps its number.
SetupPmpHandler(h) ==
    /\ Handles(h, "SETUP_PMP")
    /\ \/ /\ msgIndex[h] = K
          /\ \E k \in Index :
                /\ Deliver(k, h, "PMP_SETUP", FALSE)
                /\ msgIndex' = [msgIndex EXCEPT ![h] = k]
          /\ IF Sent(h) THEN GoTo(h, "SETUP_PMP_COMPLETE") ELSE UNCHANGED state
       \/ /\ msgIndex[h] # K
          /\ GoTo(h, "SETUP_PMP_COMPLETE")
          /\ UNCHANGED <<completes, queue, myTx, msgIndex>>
    /\ UNCHANGED <<prevState, elapsed, left, iterator, msgIndexAux, image, report, toE51, ledger,
                   hart, bounds>>

\* The indices of machine h that hold an entry.
Outstanding(h) == {p \in U54 : msgIndexAux[h][p] # K}

\* check_for_ipi_acks: complete entries are freed in the order of the harts;
\* of the auxiliary ones only the last decides the result.
AuxFreed(h) ==
    {p \in Outstanding(h) :
        /\ Complete(msgIndexAux[h][p])
        /\ \A q \in Outstanding(h) : q < p => msgIndexAux[h][q] # msgIndexAux[h][p]}

AuxResult(h) ==
    \A p \in Outstanding(h) :
        (\A q \in Outstanding(h) : q <= p) => p \in AuxFreed(h)

AcksReceived(h) ==
    LET aux == {msgIndexAux[h][p] : p \in AuxFreed(h)}
    IN  AuxResult(h) /\ (msgIndex[h] = K \/ (Complete(msgIndex[h]) /\ msgIndex[h] \notin aux))

\* Mutant: the own entry is freed, its index is kept.
CheckForIpiAcksKeepsIndex(h) ==
    LET aux == {msgIndexAux[h][p] : p \in AuxFreed(h)}
        own == IF AcksReceived(h) /\ msgIndex[h] # K THEN {msgIndex[h]} ELSE {}
    IN  /\ completes' = Free(aux \cup own)
        /\ msgIndexAux' = [msgIndexAux EXCEPT ![h] =
              [p \in U54 |-> IF p \in AuxFreed(h) THEN K ELSE msgIndexAux[h][p]]]
        /\ UNCHANGED msgIndex

CheckForIpiAcks(h) ==
    LET aux == {msgIndexAux[h][p] : p \in AuxFreed(h)}
        own == IF AcksReceived(h) /\ msgIndex[h] # K THEN {msgIndex[h]} ELSE {}
    IN  /\ completes' = Free(aux \cup own)
        /\ msgIndexAux' = [msgIndexAux EXCEPT ![h] =
              [p \in U54 |-> IF p \in AuxFreed(h) THEN K ELSE msgIndexAux[h][p]]]
        /\ msgIndex' = [msgIndex EXCEPT ![h] = IF own # {} THEN K ELSE @]

\* The time-out branch frees every index; IPI_MessageFree asserts that the
\* entry is in use.
FreeAll(h) ==
    LET held == {msgIndexAux[h][p] : p \in Outstanding(h)}
                \cup (IF msgIndex[h] = K THEN {} ELSE {msgIndex[h]})
    IN  /\ \A k \in held : completes[k].used
        /\ completes' = Free(held)
        /\ msgIndex' = [msgIndex EXCEPT ![h] = K]
        /\ msgIndexAux' = [msgIndexAux EXCEPT ![h] = [p \in U54 |-> K]]

SetupPmpCompleteHandler(h) ==
    /\ Handles(h, "SETUP_PMP_COMPLETE")
    /\ \/ elapsed[h] /\ FreeAll(h) /\ GoTo(h, "ERROR")
       \/ /\ ~elapsed[h]
          /\ CheckForIpiAcks(h)
          /\ AcksReceived(h) => image
          /\ state' = [state EXCEPT ![h] =
                IF ~AcksReceived(h) THEN @
                ELSE IF h \in SkipAutoboot THEN "COMPLETE" ELSE "ZERO_INIT_CHUNKS"]
    /\ UNCHANGED <<prevState, elapsed, left, iterator, image, report, queue, toE51, myTx,
                   ledger, hart, bounds>>

ZeroInitChunksHandler(h) ==
    /\ Handles(h, "ZERO_INIT_CHUNKS")
    /\ image
    /\ GoTo(h, "DOWNLOAD_CHUNKS")
    /\ UNCHANGED <<prevState, elapsed, left, iterator, msgIndex, msgIndexAux, image, report,
                   queue, toE51, completes, myTx, ledger, hart, bounds>>

DownloadChunksHandler(h) ==
    /\ Handles(h, "DOWNLOAD_CHUNKS")
    /\ image
    /\ \/ NumChunks[h] = 0 /\ GoTo(h, "COMPLETE") /\ UNCHANGED left
       \/ NumChunks[h] # 0 /\ left[h] = 0 /\ GoTo(h, "OPENSBI_INIT") /\ UNCHANGED left
       \/ left[h] # 0 /\ left' = [left EXCEPT ![h] = @ - 1] /\ UNCHANGED state
    /\ UNCHANGED <<prevState, elapsed, iterator, msgIndex, msgIndexAux, image, report,
                   queue, toE51, completes, myTx, ledger, hart, bounds>>

\* Mutant: one machine too many.
MorePeersOffByOne(h) == iterator[h] <= NumU54

MorePeers(h) == iterator[h] < NumU54

\* boot_opensbi_init_handler: one other hart of the boot set per call.
OpensbiInitHandler(h) ==
    LET peer == iterator[h] + 1
    IN  /\ Handles(h, "OPENSBI_INIT")
        /\ image
        /\ \/ /\ PrimaryBootHart(h) /\ MorePeers(h)
              /\ iterator' = [iterator EXCEPT ![h] = @ + 1]
              /\ IF peer \in Peers(h) THEN Launch(h, peer)
                 ELSE UNCHANGED <<state, completes, queue, myTx, msgIndexAux>>
           \/ /\ PrimaryBootHart(h) /\ ~MorePeers(h)
              /\ GoTo(h, "WAIT")
              /\ UNCHANGED <<iterator, completes, queue, myTx, msgIndexAux>>
           \/ /\ ~PrimaryBootHart(h)
              /\ UNCHANGED <<state, iterator, completes, queue, myTx, msgIndexAux>>
        /\ UNCHANGED <<prevState, elapsed, left, msgIndex, image, report, toE51, ledger,
                       hart, bounds>>

\* boot_wait_handler: startTime is set to now in every call, so the time-out
\* test that follows it never succeeds.
WaitHandler(h) ==
    /\ Handles(h, "WAIT")
    /\ image
    /\ elapsed' = [elapsed EXCEPT ![h] = FALSE]
    /\ \/ /\ EntryPoint[h] = 0
          /\ hartState' = [hartState EXCEPT ![h] = "Idle"]
          /\ GoTo(h, "COMPLETE")
          /\ UNCHANGED <<completes, msgIndex, msgIndexAux, bootStatus>>
       \/ /\ EntryPoint[h] # 0
          /\ CheckForIpiAcks(h)
          /\ IF AcksReceived(h)
             THEN GoTo(h, "COMPLETE") /\ bootStatus' = bootStatus \cup {h}
             ELSE UNCHANGED <<state, bootStatus>>
          /\ UNCHANGED hartState
    /\ UNCHANGED <<prevState, left, iterator, image, bootComplete, event, bootFail, queue,
                   toE51, myTx, ledger, ustate, passed, pmpSetupFlag, bounds>>

ErrorHandler(h) ==
    /\ Handles(h, "ERROR")
    /\ bootFail' = TRUE
    /\ GoTo(h, "COMPLETE")
    /\ UNCHANGED <<prevState, elapsed, left, iterator, msgIndex, msgIndexAux, image, bootComplete,
                   event, bootStatus, queue, toE51, completes, myTx, ledger, hart, bounds>>

\* Mutant: also looks at the flag of hart 0.
AllCompleteFromZero == bootComplete = 0..NumU54

AllComplete == bootComplete = U54

CompleteHandler(h) ==
    /\ Handles(h, "COMPLETE")
    /\ IF AllComplete
       THEN event' = TRUE /\ GoTo(h, "IDLE")
       ELSE UNCHANGED <<event, state>>
    /\ UNCHANGED <<prevState, elapsed, left, iterator, msgIndex, msgIndexAux, image, bootComplete,
                   bootFail, bootStatus, queue, toE51, completes, myTx, ledger, hart, bounds>>

\* The harts HSS_Boot_RestartCores_Using_Bitmask starts: of every boot set it
\* meets, the lowest hart in the mask decides for the whole set.
Started(mask) ==
    LET lowest == {s \in mask : \A q \in mask : q \in Peers(s) => s < q}
    IN  UNION {Peers(s) \cup {s} : s \in {q \in lowest : NumChunks[q] # 0}}

\* boot_using_hart_bitmask_
Restart(st, harts) ==
    [h \in U54 |-> IF h \in harts /\ st[h] # "OPENSBI_INIT" THEN "INITIALIZATION" ELSE st[h]]

\* boot_idle_handler: IPI_ConsumeIntent with HSS_Boot_IPIHandler for one
\* BOOT_REQUEST of the machine's own hart.
IdleHandler(h) ==
    LET reqs == {m \in inbox[h] : m.type = "BOOT_REQUEST"}
    IN  /\ Handles(h, "IDLE")
        /\ \/ reqs = {} /\ UNCHANGED <<state, inbox, count>>
           \/ \E m \in reqs :
                /\ image
                /\ inbox' = [inbox EXCEPT ![h] = @ \ {m}]
                /\ count' = [count EXCEPT ![h] = IF @ = 0 THEN 0 ELSE @ - 1]
                /\ \/ m.target = 0 /\ state' = Restart(state, Started({h}))
                   \/ /\ m.target # 0
                      /\ state' = Restart([state EXCEPT ![m.target] = "OPENSBI_INIT"],
                                          Started({m.target}))
        /\ UNCHANGED <<prevState, elapsed, left, iterator, msgIndex, msgIndexAux, image, report,
                       queue, last, shadow, completes, myTx, ledger, hart, bounds>>

\* tinycli: no command, or HSS_BootInit and, if it finds an image,
\* HSS_BootHarts for the harts that are idle.
TinyCli ==
    /\ turn = NumU54 + 1
    /\ NextTurn
    /\ \/ UNCHANGED <<state, image, boots>>
       \/ /\ boots < scenario.maxBoots
          /\ boots' = boots + 1
          /\ \/ /\ image' = TRUE
                /\ state' = Restart(state, Started({h \in U54 : hartState[h] = "Idle"}))
             \/ scenario.storageFails /\ image' = FALSE /\ UNCHANGED state
    /\ UNCHANGED <<prevState, elapsed, left, iterator, msgIndex, msgIndexAux, report, queue,
                   toE51, completes, myTx, ledger, hart, scenario, requests>>

\* A second passes before the machine looks at its timer again.
Timeout(h) ==
    /\ state[h] \in {"SETUP_PMP", "SETUP_PMP_COMPLETE"}
    /\ ~elapsed[h]
    /\ elapsed' = [elapsed EXCEPT ![h] = TRUE]
    /\ UNCHANGED <<state, prevState, left, iterator, msgIndex, msgIndexAux, sched, image, report,
                   queue, toE51, completes, myTx, ledger, hart, bounds>>

-----------------------------------------------------------------------------
(* A U54                                                                   *)

Listens(u) == ustate[u] \in {"hss", "run"}

\* The scan of HSS_U54_HandleIPI, first intent: HSS_Boot_PMPSetupHandler and
\* its ACK.
ScanPmpSetup(u) ==
    LET reqs == {m \in queue[u] : m.type = "PMP_SETUP"}
    IN  /\ Listens(u) /\ ~passed[u] /\ queue[u] # {}
        /\ passed' = [passed EXCEPT ![u] = TRUE]
        /\ \/ reqs = {} /\ UNCHANGED <<queue, toE51, pmpSetupFlag, hartState>>
           \/ \E m \in reqs :
                /\ queue' = [queue EXCEPT ![u] = @ \ {m}]
                /\ Post(u, AckComplete(m.tx))
                /\ pmpSetupFlag' = [pmpSetupFlag EXCEPT ![u] = TRUE]
                /\ hartState' = [hartState EXCEPT ![u] = "Booting"]
        /\ UNCHANGED <<machine, sched, image, report, completes, myTx, ledger, ustate, bounds>>

\* Mutant: PMP_SETUP is not the first intent.
AtLaunchIntentsFirst(u) == queue[u] # {}

AtLaunchIntents(u) == passed[u]


MarkBooted(u) == pending' = pending \ {u}

\* The rest of the scan: HSS_GOTO_IPIHandler and HSS_OpenSBI_IPIHandler post
\* the ACK, update the entry themselves and leave for the payload.
ScanLaunch(u) ==
    LET reqs == {m \in queue[u] : m.type \in {"GOTO", "OPENSBI_INIT"}}
    IN  /\ Listens(u) /\ AtLaunchIntents(u)
        /\ passed' = [passed EXCEPT ![u] = FALSE]
        /\ \/ reqs = {} /\ UNCHANGED <<queue, toE51, completes, ustate, hartState, pending>>
           \/ \E m \in reqs :
                /\ m.type = "OPENSBI_INIT" => \A q \in reqs : q.type # "GOTO"
                /\ queue' = [queue EXCEPT ![u] = @ \ {m}]
                /\ Post(u, AckComplete(m.tx))
                /\ completes' = UpdateStatus({m.tx})
                /\ \/ /\ m.type = "GOTO"
                      /\ ustate' = [ustate EXCEPT ![u] = "goto"]
                      /\ hartState' = [hartState EXCEPT ![u] = "Running"]
                      /\ UNCHANGED pending
                   \/ /\ m.type = "OPENSBI_INIT"
                      /\ ustate' = [ustate EXCEPT ![u] = "sbi"]
                      /\ MarkBooted(u)
                      /\ UNCHANGED hartState
        /\ UNCHANGED <<machine, sched, image, report, myTx, owner, lottery, pmpSetupFlag, bounds>>

Runs(u) ==
    /\ ustate' = [ustate EXCEPT ![u] = "run"]
    /\ hartState' = [hartState EXCEPT ![u] = "Running"]

\* init_warm_startup: the boot hart of a domain has been started, the others
\* stay in sbi_hsm_hart_wait until the payload starts them.
WarmStartup(u) ==
    \/ owner[u] = u /\ Runs(u)
    \/ owner[u] # u /\ ustate' = [ustate EXCEPT ![u] = "parked"] /\ UNCHANGED hartState

\* Mutant: one hart may be outstanding.
LastHartReadyOffByOne == Cardinality(pending) <= 1

\* mpfs_is_last_hart_ready
LastHartReady == pending = {}

\* sbi_init: the last hart of the ledger does the cold boot and goes on to its
\* payload, the others wait for it; after the first cold boot the boot hart of
\* a domain waits for the ledger.
SbiInit(u) ==
    /\ ustate[u] = "sbi"
    /\ \/ LastHartReady /\ ~lottery /\ lottery' = TRUE /\ Runs(u)
       \/ ~LastHartReady /\ ~lottery /\ ustate' = [ustate EXCEPT ![u] = "warm"]
          /\ UNCHANGED <<lottery, hartState>>
       \/ lottery /\ (owner[u] = u => LastHartReady) /\ WarmStartup(u) /\ UNCHANGED lottery
    /\ UNCHANGED <<machine, sched, image, report, queue, toE51, completes, myTx, owner, pending,
                   passed, pmpSetupFlag, bounds>>

\* A hart that waited for the cold boot.
WarmBoot(u) ==
    /\ ustate[u] = "warm" /\ lottery
    /\ WarmStartup(u)
    /\ UNCHANGED <<machine, sched, image, report, queue, toE51, completes, myTx, ledger,
                   passed, pmpSetupFlag, bounds>>

\* The payload starts another hart of its domain (sbi_hsm_hart_start).
HartStart(u, v) ==
    /\ ustate[u] = "run" /\ ustate[v] = "parked" /\ owner[u] = owner[v]
    /\ Runs(v)
    /\ UNCHANGED <<machine, sched, image, report, queue, toE51, completes, myTx, ledger,
                   passed, pmpSetupFlag, bounds>>

\* The U54's own IPI_MessageAlloc and IPI_MessageDeliver of a BOOT_REQUEST.
BootRequest(u, target, keep) ==
    /\ requests < scenario.maxRequests
    /\ requests' = requests + 1
    /\ Post(u, [type |-> "BOOT_REQUEST", tx |-> myTx[u], target |-> target])
    /\ myTx' = [myTx EXCEPT ![u] = @ + 1]
    /\ \E k \in Index :
        /\ FreeEntry(k)
        /\ completes' = [completes EXCEPT ![k] =
              [used |-> keep \/ Cardinality(inbox[u]) < N, tx |-> myTx[u], status |-> "PENDING"]]
    /\ UNCHANGED <<scenario, boots>>

\* The payload resets its domain (sbi_system_reset, mpfs_system_reset,
\* mpfs_hart_stop) with SBI_SRST_RESET_TYPE_WARM_REBOOT: the harts it runs on
\* go back to _start; the boot hart asks for the reboot, if the reset was
\* called on it (reset_type of its own ledger entry).
SystemReset(u) ==
    LET domain == {v \in U54 : owner[v] = owner[u] /\ ustate[v] = "run"}
    IN  /\ ustate[u] = "run" /\ requests < scenario.maxRequests
        /\ \/ owner[u] = u /\ BootRequest(u, 0, TRUE)
           \/ owner[u] # u /\ requests' = requests + 1
              /\ UNCHANGED <<toE51, completes, myTx, scenario, boots>>
        /\ pending' = pending \cup {u}
        /\ ustate' = [v \in U54 |-> IF v \in domain THEN "hss" ELSE ustate[v]]
        /\ hartState' = [v \in U54 |-> IF v \in domain THEN "Idle" ELSE hartState[v]]
        /\ passed' = [v \in U54 |-> IF v \in domain THEN FALSE ELSE passed[v]]
        /\ UNCHANGED <<machine, sched, image, report, queue, owner, lottery, pmpSetupFlag>>

\* SBI_EXT_HSS_REBOOT: the hart goes on.
EcallReboot(u) ==
    /\ ustate[u] = "run"
    /\ BootRequest(u, 0, TRUE)
    /\ UNCHANGED <<machine, sched, image, report, queue, ledger, hart>>

\* SBI_EXT_RPROC_START of hart t; an entry that cannot be delivered is freed.
RprocStart(u, t) ==
    /\ ustate[u] = "run" /\ t \in SkipAutoboot
    /\ BootRequest(u, t, FALSE)
    /\ UNCHANGED <<machine, sched, image, report, queue, ledger, hart>>

-----------------------------------------------------------------------------
BootMachine(h) ==
    \/ RunStateMachine(h)
    \/ InitHandler(h) \/ SetupPmpHandler(h) \/ SetupPmpCompleteHandler(h)
    \/ ZeroInitChunksHandler(h) \/ DownloadChunksHandler(h) \/ OpensbiInitHandler(h)
    \/ WaitHandler(h) \/ ErrorHandler(h) \/ CompleteHandler(h) \/ IdleHandler(h)

E51 == IpiPoll \/ TinyCli \/ \E h \in U54 : BootMachine(h)

U54Step(u) == ScanPmpSetup(u) \/ ScanLaunch(u) \/ SbiInit(u) \/ WarmBoot(u)

Payload(u) ==
    \/ SystemReset(u) \/ EcallReboot(u)
    \/ \E t \in U54 : RprocStart(u, t) \/ HartStart(u, t)

Next ==
    \/ E51
    \/ \E h \in U54 : Timeout(h)
    \/ \E u \in U54 : U54Step(u) \/ Payload(u)

Spec == Init /\ [][Next]_vars

\* The super-loop never stops, time passes, and a U54 never stops executing.
Fairness ==
    /\ WF_vars(E51)
    /\ \A h \in U54 : WF_vars(Timeout(h)) /\ WF_vars(U54Step(h))

FairSpec == Spec /\ Fairness

\* The U54s may stop: only the E51 and the clock are fair.
E51FairSpec == Spec /\ WF_vars(E51) /\ \A h \in U54 : WF_vars(Timeout(h))

-----------------------------------------------------------------------------
(* Properties                                                              *)

Entry == [used : BOOLEAN, tx : Nat, status : {"FAIL", "PENDING", "IDLE"}]
ToU54Msg == [type : {"PMP_SETUP", "GOTO", "OPENSBI_INIT"}, tx : Nat]
ToE51Msg == [type : {"ACK_COMPLETE", "BOOT_REQUEST"}, tx : Nat, target : 0..NumU54]

\* The type invariant; a queue never holds more than its N slots.
TypeOK ==
    /\ turn \in 0..(NumU54 + 1) /\ phase \in {"enter", "handler"} /\ cur \in BootState
    /\ state \in [U54 -> BootState]
    /\ prevState \in [U54 -> BootState \cup {"INVALID"}]
    /\ elapsed \in [U54 -> BOOLEAN]
    /\ \A h \in U54 : left[h] \in 0..NumChunks[h]
    /\ iterator \in [U54 -> 0..NumU54]
    /\ msgIndex \in [U54 -> 0..K]
    /\ msgIndexAux \in [U54 -> [U54 -> 0..K]]
    /\ image \in BOOLEAN /\ event \in BOOLEAN /\ bootFail \in BOOLEAN
    /\ bootComplete \subseteq U54 /\ bootStatus \subseteq U54
    /\ \A u \in U54 : queue[u] \subseteq ToU54Msg /\ Cardinality(queue[u]) <= N
    /\ \A u \in U54 : inbox[u] \subseteq ToE51Msg /\ Cardinality(inbox[u]) <= N
    /\ last \in [U54 -> Nat] /\ shadow \in [U54 -> Nat] /\ count \in [U54 -> 0..N]
    /\ completes \in [Index -> Entry]
    /\ myTx \in [0..NumU54 -> Nat]
    /\ ustate \in [U54 -> {"hss", "goto", "sbi", "warm", "parked", "run"}]
    /\ passed \in [U54 -> BOOLEAN] /\ pmpSetupFlag \in [U54 -> BOOLEAN]
    /\ hartState \in [U54 -> {"Idle", "Booting", "Running"}]
    /\ owner \in [U54 -> 0..NumU54] /\ pending \subseteq U54 /\ lottery \in BOOLEAN
    /\ scenario \in Scenarios
    /\ boots \in 0..scenario.maxBoots /\ requests \in 0..scenario.maxRequests

\* The next step of machine h dereferences pBootImage.
ReadsImage(h) ==
    \/ /\ phase = "enter" /\ prevState[h] # state[h]
       /\ prevState[h] \in {"DOWNLOAD_CHUNKS", "OPENSBI_INIT"} \/ state[h] = "SETUP_PMP"
    \/ /\ phase = "handler"
       /\ \/ cur \in {"ZERO_INIT_CHUNKS", "DOWNLOAD_CHUNKS", "OPENSBI_INIT", "WAIT"}
          \/ cur = "SETUP_PMP_COMPLETE" /\ ~elapsed[h] /\ AcksReceived(h)
          \/ cur = "IDLE" /\ \E m \in inbox[h] : m.type = "BOOT_REQUEST"

\* The next step of machine h calls IPI_MessageAlloc.
TakesEntry(h) ==
    \/ phase = "enter" /\ prevState[h] = "OPENSBI_INIT" /\ state[h] # "OPENSBI_INIT"
       /\ EntryPoint[h] # 0
    \/ phase = "handler" /\ cur = "SETUP_PMP" /\ msgIndex[h] = K
    \/ phase = "handler" /\ cur = "OPENSBI_INIT" /\ PrimaryBootHart(h) /\ MorePeers(h)
       /\ iterator[h] + 1 \in Peers(h)

\* The next step of machine h frees all its indices.
FreesAll(h) == phase = "handler" /\ cur = "SETUP_PMP_COMPLETE" /\ elapsed[h]

\* No assertion of the boot service, of the mailbox or of the state-machine
\* engine stops the E51: pBootImage is there as long as the storage can be
\* read, a completion entry is found whenever one is needed, and what a
\* time-out frees is in use.
AssertsHold ==
    \A h \in U54 : turn = h =>
        /\ ReadsImage(h) => image \/ scenario.storageFails
        /\ TakesEntry(h) => \E k \in Index : ~completes[k].used
        /\ FreesAll(h) =>
              /\ msgIndex[h] # K => completes[msgIndex[h]].used
              /\ \A p \in Outstanding(h) : completes[msgIndexAux[h][p]].used

\* "The E51 ensures that hardware separate is ensured before the U54 code
\* starts running" (HSS_Boot_PMPSetupHandler): a hart leaves the HSS only with
\* its PMPs set up, also when its own machine has timed out or the primary
\* hart of its boot set launches it, and however requests and ACKs interleave.
LaunchAfterPmp == \A u \in U54 : ustate[u] # "hss" => pmpSetupFlag[u]

\* The places where a machine that is past INITIALIZATION keeps an index.
Booting(h) == prevState[h] \in BootState \ {"IDLE", "INITIALIZATION"}
Holders ==
    {<<h, 0>> : h \in {g \in U54 : Booting(g) /\ msgIndex[g] # K}}
    \cup UNION {{<<h, p>> : p \in Outstanding(h)} : h \in {g \in U54 : Booting(g)}}
HeldIndex(x) == IF x[2] = 0 THEN msgIndex[x[1]] ELSE msgIndexAux[x[1]][x[2]]

\* A completion entry has one holder: no machine waits for, or frees, the
\* entry of another one, and none holds an entry that was given back.
EntriesExclusive ==
    \A x \in Holders :
        /\ completes[HeldIndex(x)].used
        /\ \A y \in Holders : HeldIndex(x) = HeldIndex(y) => x = y

\* HSS_Boot_PMPSetupRequest finds room in the queue of its hart, also when the
\* request of an earlier boot command still waits there. If it did not, it would
\* free the completion entry and leave the entry's number in msgIndex.
PmpRequestFits ==
    \A h \in U54 :
        (turn = h /\ phase = "handler" /\ cur = "SETUP_PMP" /\ msgIndex[h] = K) => Sent(h)

\* assert(result) after IPI_MessageAlloc in common_boot_message_delivery: when
\* boot_opensbi_init_onExit launches the hart, a completion entry is free.
EntryAvailable ==
    \A h \in U54 :
        (turn = h /\ phase = "enter" /\ EntryPoint[h] # 0
         /\ prevState[h] = "OPENSBI_INIT" /\ state[h] # "OPENSBI_INIT") =>
            \E k \in Index : ~completes[k].used

\* A domain comes up as a whole: until a payload resets something, a hart that
\* runs its payload under OpenSBI leaves no hart of its domain waiting in the
\* HSS, whichever hart the ledger made do the cold boot.
DomainUpTogether ==
    \A u, v \in U54 :
        (requests = 0 /\ ustate[u] = "run" /\ owner[u] # 0 /\ owner[v] = owner[u]) =>
            ustate[v] # "hss"

\* "turn appropriate bit on in SYSREGSCB:MSS_STATUS:BOOT_STATUS to indicate it
\* is up" (boot_wait_handler): a hart whose bit is set has left the HSS.
BootStatusMeansUp == \A h \in bootStatus : ustate[h] # "hss"

\* A boot command that finds an image ends: every machine is idle again and
\* EVENT_BOOT_COMPLETE is notified, whatever times out on the way.
BootCompletes ==
    image ~> (event /\ \A h \in U54 : state[h] = "IDLE")

NothingTimesOut == []\A h \in U54 : ~elapsed[h]


\* "a context is only allowed warm reboot itself" (tools/hss-payload-generator
\* README): a domain that was running and was reset runs again, unless its PMP
\* request times out.
RebootComesBack ==
    NothingTimesOut =>
        \A b \in U54 :
            (owner[b] = b /\ lottery /\ ustate[b] = "hss") ~> (ustate[b] = "run")

\* "IPI ACK Timeout" (boot_wait_handler): a machine leaves BOOT_WAIT even if
\* its harts never answer.
WaitEnds == \A h \in U54 : (state[h] = "WAIT") ~> (state[h] # "WAIT")

=============================================================================
