-------------------------- MODULE BootServiceProofs --------------------------
(***************************************************************************)
(* Proofs about the boot service, for any number of harts, any boot image  *)
(* and any number of boot commands and requests of the payloads.           *)
(***************************************************************************)
EXTENDS BootService, FiniteSetTheorems, TLAPS

-----------------------------------------------------------------------------
(* The types, by component *)

MachineOK ==
    /\ state \in [U54 -> BootState] /\ prevState \in [U54 -> BootState \cup {"INVALID"}]
    /\ elapsed \in [U54 -> BOOLEAN]
    /\ left \in [U54 -> Nat] /\ \A h \in U54 : left[h] <= NumChunks[h]
    /\ iterator \in [U54 -> 0..NumU54]
IndexOK == msgIndex \in [U54 -> 0..K] /\ msgIndexAux \in [U54 -> [U54 -> 0..K]]
SchedOK == turn \in 0..(NumU54 + 1) /\ phase \in {"enter", "handler"} /\ cur \in BootState
ReportOK ==
    /\ image \in BOOLEAN /\ event \in BOOLEAN /\ bootFail \in BOOLEAN
    /\ bootComplete \subseteq U54 /\ bootStatus \subseteq U54
QueueOK ==
    /\ queue \in [U54 -> SUBSET ToU54Msg]
    /\ \A u \in U54 : IsFiniteSet(queue[u]) /\ Cardinality(queue[u]) <= N
InboxOK ==
    /\ inbox \in [U54 -> SUBSET ToE51Msg]
    /\ \A u \in U54 : IsFiniteSet(inbox[u]) /\ Cardinality(inbox[u]) <= N
    /\ last \in [U54 -> Nat] /\ shadow \in [U54 -> Nat] /\ count \in [U54 -> 0..N]
EntryOK == completes \in [Index -> Entry] /\ myTx \in [0..NumU54 -> Nat]
HartOK ==
    /\ ustate \in [U54 -> {"hss", "goto", "sbi", "warm", "parked", "run"}]
    /\ passed \in [U54 -> BOOLEAN] /\ pmpSetupFlag \in [U54 -> BOOLEAN]
    /\ hartState \in [U54 -> {"Idle", "Booting", "Running"}]
LedgerOK == owner \in [U54 -> 0..NumU54] /\ pending \subseteq U54 /\ lottery \in BOOLEAN
BoundsOK ==
    /\ scenario \in Scenarios
    /\ boots \in 0..scenario.maxBoots /\ requests \in 0..scenario.maxRequests

TypeInv ==
    /\ MachineOK /\ IndexOK /\ SchedOK /\ ReportOK /\ QueueOK /\ InboxOK /\ EntryOK
    /\ HartOK /\ LedgerOK /\ BoundsOK

-----------------------------------------------------------------------------
(* No hart is launched unprotected *)

\* The machines that a boot command starts when all harts are idle.
First == Started(U54)

\* The PMP registers of u are set up, or will be before u looks at anything
\* else that was sent to it.
Protected(u) == pmpSetupFlag[u] \/ \E m \in queue[u] : m.type = "PMP_SETUP"

AllProtected == \A p \in First : Protected(p)

\* Machine h is in its turn and about to run the handler of state cur.
InHandler(h) == turn = h /\ phase = "handler"

\* Before the first boot command that finds an image.
NotStarted ==
    /\ \A h \in U54 : state[h] = "IDLE" /\ prevState[h] \in {"INVALID", "IDLE"} /\ ~Protected(h)
    /\ phase = "handler" => cur = "IDLE"

\* The machines before turn have run their handler in this pass.
Ahead(p) == turn < p \/ (turn = p /\ phase = "enter")

\* The first pass of a boot: from INITIALIZATION to SETUP_PMP.
FirstPass ==
    /\ image
    /\ \A p \in U54 : ~Protected(p)
    /\ \A p \in First :
        /\ Ahead(p) => /\ state[p] = "INITIALIZATION"
                       /\ prevState[p] \in {"INVALID", "IDLE", "INITIALIZATION"}
        /\ InHandler(p) => cur = "INITIALIZATION" /\ prevState[p] = "INITIALIZATION"
        /\ turn > p => state[p] = "SETUP_PMP" /\ prevState[p] = "INITIALIZATION"

\* The second pass: every machine sends PMP_SETUP.
SecondPass ==
    /\ turn <= NumU54
    /\ \A p \in First :
        /\ Ahead(p) => state[p] = "SETUP_PMP" /\ prevState[p] = "INITIALIZATION" /\ ~Protected(p)
        /\ InHandler(p) => /\ cur = "SETUP_PMP" /\ prevState[p] = "SETUP_PMP"
                           /\ state[p] = "SETUP_PMP" /\ msgIndex[p] = K /\ ~Protected(p)
        /\ turn > p => /\ Protected(p) /\ prevState[p] = "SETUP_PMP"
                       /\ state[p] = "SETUP_PMP_COMPLETE"

\* Until all are protected the machines go through these passes together.
Lockstep == AllProtected \/ NotStarted \/ FirstPass \/ SecondPass

\* Only the harts of First are ever booted.
FirstOnly ==
    \A h \in U54 \ First :
        /\ state[h] = "IDLE" /\ prevState[h] \in {"INVALID", "IDLE"}
        /\ InHandler(h) => cur = "IDLE"
        /\ hartState[h] = "Idle" /\ queue[h] = {} /\ ustate[h] = "hss"

\* Before that nothing has left the HSS or asked for a boot.
Requested ==
    \A u \in U54 : \A m \in inbox[u] : m.type = "BOOT_REQUEST" =>
        u \in First /\ AllProtected /\ (m.target # 0 => m.target \in First)

ProtectInv ==
    \A u \in U54 :
        /\ queue[u] # {} => Protected(u)
        /\ passed[u] => pmpSetupFlag[u]
        /\ ustate[u] # "hss" => pmpSetupFlag[u] /\ AllProtected
        /\ hartState[u] # "Idle" => Protected(u)
        /\ (\E m \in queue[u] : m.type # "PMP_SETUP") => AllProtected

LaunchInv == Lockstep /\ FirstOnly /\ Requested /\ ProtectInv

\* A context that is not booted automatically belongs to a boot set that a
\* boot command starts.
ContextsStarted == SkipAutoboot \subseteq First

-----------------------------------------------------------------------------
(* Completion entries *)

\* h has forgotten what its indices held at reset.
Registered(h) == h \in First /\ (AllProtected \/ prevState[h] = "SETUP_PMP")

\* The places where machine h keeps an index: msgIndex, and one for each hart.
At(h, p) == IF p = 0 THEN msgIndex[h] ELSE msgIndexAux[h][p]
Places(h) == {p \in 0..NumU54 : At(h, p) # K}

EntriesInv ==
    \A h \in U54 : Registered(h) => \A p \in Places(h) :
        /\ completes[At(h, p)].used
        /\ \A g \in U54 : Registered(g) => \A q \in Places(g) :
              At(g, q) = At(h, p) => g = h /\ q = p

-----------------------------------------------------------------------------
(* Domains *)

\* The harts of the boot set of h that OpenSBI runs on.
Domain(h) == {v \in U54 : EntryPoint[v] = EntryPoint[h]} \ SkipOpensbi

\* The owner of a hart is a hart of its boot set, and a boot set is entered in
\* the ledger as a whole.
OwnersInv ==
    \A v \in U54 : owner[v] # 0 =>
        /\ owner[v] \in U54 /\ v \in Domain(owner[v])
        /\ \A w \in Domain(v) : owner[w] # 0

\* How a machine comes to BOOT_OPENSBI_INIT and leaves it; the state that was
\* captured is prevState, unless the launch of the hart has failed.
Path ==
    \A h \in U54 :
        /\ state[h] = "OPENSBI_INIT" =>
              NumChunks[h] # 0 /\ prevState[h] \in {"DOWNLOAD_CHUNKS", "OPENSBI_INIT"}
        /\ prevState[h] = "OPENSBI_INIT" =>
              state[h] \in {"OPENSBI_INIT", "WAIT", "ERROR", "INITIALIZATION"}
        /\ InHandler(h) =>
              \/ prevState[h] = cur
              \/ prevState[h] = "ERROR" /\ cur \in {"WAIT", "ERROR", "INITIALIZATION"}

\* A machine in BOOT_OPENSBI_INIT has entered its boot set in the ledger.
Entered ==
    \A h \in U54 : prevState[h] = "OPENSBI_INIT" /\ EntryPoint[h] # 0 =>
        \A v \in Domain(h) : owner[v] # 0

\* A hart of the ledger is pending until it leaves the HSS, and no payload of
\* a domain runs before that holds for all of its harts.
Waiting ==
    \A v \in U54 :
        /\ owner[v] # 0 => v \in pending \/ ustate[v] # "hss"
        /\ (\E m \in queue[v] : m.type = "OPENSBI_INIT") => owner[v] # 0
        /\ ustate[v] \in {"sbi", "warm", "parked", "run"} => owner[v] # 0
        /\ ustate[v] = "run" \/ (ustate[v] = "warm" /\ lottery) =>
              \A w \in Domain(v) : ustate[w] # "hss"
        /\ \A m \in inbox[v] : m.type # "BOOT_REQUEST"

DomainParts == OwnersInv /\ Path /\ Entered /\ Waiting

DomainInv == requests = 0 => DomainParts

-----------------------------------------------------------------------------
(* Type correctness *)

\* What a scenario gives.
LEMMA ScenarioType ==
    ASSUME BoundsOK
    PROVE  /\ NumU54 \in Nat \ {0} /\ N \in Nat \ {0} /\ K \in Nat \ {0}
           /\ NumChunks \in [U54 -> Nat] /\ EntryPoint \in [U54 -> Nat]
           /\ SkipOpensbi \subseteq U54 /\ SkipAutoboot \subseteq U54
           /\ scenario.maxBoots \in Nat /\ scenario.maxRequests \in Nat
BY ImageAssumption DEF BoundsOK, NumChunks, EntryPoint, SkipOpensbi, SkipAutoboot

LEMMA TypeImplied == TypeInv => TypeOK
<1> SUFFICES ASSUME TypeInv PROVE TypeOK
  OBVIOUS
<1>1. NumChunks \in [U54 -> Nat]
  BY ScenarioType DEF TypeInv
<1>2. \A h \in U54 : left[h] \in 0..NumChunks[h]
  BY <1>1 DEF TypeInv, MachineOK
<1>3. \A u \in U54 : queue[u] \subseteq ToU54Msg /\ inbox[u] \subseteq ToE51Msg
  BY DEF TypeInv, QueueOK, InboxOK
<1>4. QED
  BY <1>2, <1>3, Zenon DEF TypeInv, TypeOK, MachineOK, IndexOK, SchedOK, ReportOK, QueueOK, InboxOK,
     EntryOK, HartOK, LedgerOK, BoundsOK

LEMMA TypeInit == Init => TypeInv
<1> SUFFICES ASSUME Init PROVE TypeInv
  OBVIOUS
<1>1. scenario \in Scenarios /\ boots = 0 /\ requests = 0
  BY DEF Init
<1>2. BoundsOK
  BY <1>1, ImageAssumption DEF BoundsOK
<1>3. MachineOK
  BY <1>2, ScenarioType DEF Init, MachineOK, BootState
<1>4. IndexOK
  BY <1>2, ScenarioType DEF Init, IndexOK
<1>5. SchedOK /\ ReportOK /\ LedgerOK
  <2>1. SchedOK
    BY <1>2, ScenarioType DEF Init, SchedOK, BootState
  <2>2. ReportOK
    BY Zenon DEF Init, ReportOK
  <2>3. owner \in [U54 -> 0..NumU54]
    BY <1>2, ScenarioType DEF Init
  <2>4. QED
    BY <2>1, <2>2, <2>3 DEF Init, LedgerOK
<1>6. QueueOK /\ InboxOK
  BY <1>2, ScenarioType, FS_EmptySet DEF Init, QueueOK, InboxOK
<1>7. EntryOK
  BY DEF Init, EntryOK, Entry
<1>8. HartOK
  BY DEF Init, HartOK
<1>9. QED
  BY <1>2, <1>3, <1>4, <1>5, <1>6, <1>7, <1>8 DEF TypeInv

\* Components that a step leaves alone.
LEMMA Unchanged ==
    /\ TypeInv /\ scenario' = scenario /\ UNCHANGED <<state, prevState, elapsed, left, iterator>> =>
           MachineOK'
    /\ TypeInv /\ UNCHANGED <<msgIndex, msgIndexAux>> => IndexOK'
    /\ TypeInv /\ UNCHANGED sched => SchedOK'
    /\ TypeInv /\ UNCHANGED <<image, report>> => ReportOK'
    /\ TypeInv /\ UNCHANGED queue => QueueOK'
    /\ TypeInv /\ UNCHANGED toE51 => InboxOK'
    /\ TypeInv /\ UNCHANGED <<completes, myTx>> => EntryOK'
    /\ TypeInv /\ UNCHANGED hart => HartOK'
    /\ TypeInv /\ UNCHANGED ledger => LedgerOK'
    /\ TypeInv /\ UNCHANGED bounds => BoundsOK'
<1> USE DEF TypeInv
<1>1. TypeInv /\ scenario' = scenario /\ UNCHANGED <<state, prevState, elapsed, left, iterator>> =>
           MachineOK'
  BY DEF MachineOK, NumChunks
<1>2. TypeInv /\ UNCHANGED <<msgIndex, msgIndexAux>> => IndexOK'
  BY DEF IndexOK
<1>3. TypeInv /\ UNCHANGED sched => SchedOK'
  BY DEF SchedOK, sched
<1>4. TypeInv /\ UNCHANGED <<image, report>> => ReportOK'
  BY DEF ReportOK, report
<1>5. TypeInv /\ UNCHANGED queue => QueueOK'
  BY DEF QueueOK
<1>6. TypeInv /\ UNCHANGED toE51 => InboxOK'
  BY DEF InboxOK, toE51
<1>7. TypeInv /\ UNCHANGED <<completes, myTx>> => EntryOK'
  BY DEF EntryOK
<1>8. TypeInv /\ UNCHANGED hart => HartOK'
  BY DEF HartOK, hart
<1>9. TypeInv /\ UNCHANGED ledger => LedgerOK'
  BY DEF LedgerOK, ledger
<1>10. TypeInv /\ UNCHANGED bounds => BoundsOK'
  BY DEF BoundsOK, bounds
<1>11. QED
  BY <1>1, <1>2, <1>3, <1>4, <1>5, <1>6, <1>7, <1>8, <1>9, <1>10

\* One message more in a queue that has room.
LEMMA OneMore ==
    ASSUME NEW S, NEW m, NEW n \in Nat, IsFiniteSet(S), Cardinality(S) < n
    PROVE  IsFiniteSet(S \cup {m}) /\ Cardinality(S \cup {m}) <= n
<1>1. /\ IsFiniteSet(S \cup {m}) /\ Cardinality(S) \in Nat
      /\ Cardinality(S \cup {m}) = IF m \in S THEN Cardinality(S) ELSE Cardinality(S) + 1
  BY FS_AddElement, FS_CardinalityType
<1>2. QED
  BY <1>1

LEMMA OneLess ==
    ASSUME NEW S, NEW m, NEW n \in Nat, IsFiniteSet(S), Cardinality(S) <= n
    PROVE  IsFiniteSet(S \ {m}) /\ Cardinality(S \ {m}) <= n
<1>1. IsFiniteSet(S \ {m}) /\ Cardinality(S \ {m}) <= Cardinality(S)
  BY FS_Subset
<1>2. Cardinality(S) \in Nat /\ Cardinality(S \ {m}) \in Nat
  BY <1>1, FS_CardinalityType
<1>3. QED
  BY <1>1, <1>2

LEMMA DeliverType ==
    ASSUME TypeInv, NEW k \in Index, NEW u \in U54, NEW keep \in BOOLEAN,
           NEW type \in {"PMP_SETUP", "GOTO", "OPENSBI_INIT"}, Deliver(k, u, type, keep)
    PROVE  EntryOK' /\ QueueOK'
<1>1. /\ completes \in [Index -> Entry] /\ myTx \in [0..NumU54 -> Nat] /\ 0 \in 0..NumU54
      /\ N \in Nat
  BY ImageAssumption DEF TypeInv, EntryOK
<1>2. myTx[0] \in Nat
  BY <1>1
<1>3. EntryOK'
  <2>1. [used |-> Sent(u) \/ keep, tx |-> myTx[0], status |-> "PENDING"] \in Entry
    BY <1>2 DEF Entry
  <2>2. completes' \in [Index -> Entry]
    BY <1>1, <2>1 DEF Deliver
  <2>3. myTx' \in [0..NumU54 -> Nat]
    BY <1>1 DEF Deliver
  <2>4. QED
    BY <2>2, <2>3 DEF EntryOK
<1>4. QueueOK'
  <2> DEFINE m == [type |-> type, tx |-> myTx[0]]
  <2>1. m \in ToU54Msg
    BY <1>2 DEF ToU54Msg
  <2>2. /\ queue \in [U54 -> SUBSET ToU54Msg]
        /\ \A v \in U54 : IsFiniteSet(queue[v]) /\ Cardinality(queue[v]) <= N
    BY DEF TypeInv, QueueOK
  <2>3. queue' = [queue EXCEPT ![u] = IF Sent(u) THEN queue[u] \cup {m} ELSE queue[u]]
    BY DEF Deliver
  <2>4. Sent(u) => IsFiniteSet(queue[u] \cup {m}) /\ Cardinality(queue[u] \cup {m}) <= N
    BY <1>1, <2>2, OneMore DEF Sent
  <2> HIDE DEF m
  <2>5. queue' \in [U54 -> SUBSET ToU54Msg]
    BY <2>1, <2>2, <2>3
  <2>6. ASSUME NEW v \in U54 PROVE IsFiniteSet(queue'[v]) /\ Cardinality(queue'[v]) <= N
    <3>1. CASE v = u /\ Sent(u)
      <4>1. queue'[v] = queue[u] \cup {m}
        BY <2>2, <2>3, <3>1
      <4>2. QED
        BY <2>4, <3>1, <4>1
    <3>2. CASE ~(v = u /\ Sent(u))
      <4>1. queue'[v] = queue[v]
        BY <2>2, <2>3, <3>2
      <4>2. QED
        BY <2>2, <4>1
    <3>3. QED
      BY <3>1, <3>2
  <2>7. QED
    BY <2>5, <2>6 DEF QueueOK
<1>5. QED
  BY <1>3, <1>4

LEMMA PostType ==
    ASSUME TypeInv, NEW u \in U54, NEW m \in ToE51Msg, Post(u, m)
    PROVE  InboxOK'
<1>1. /\ inbox \in [U54 -> SUBSET ToE51Msg] /\ last \in [U54 -> Nat]
      /\ \A v \in U54 : IsFiniteSet(inbox[v]) /\ Cardinality(inbox[v]) <= N
      /\ shadow \in [U54 -> Nat] /\ count \in [U54 -> 0..N] /\ N \in Nat /\ m.tx \in Nat
  BY ImageAssumption DEF TypeInv, InboxOK, ToE51Msg
<1>2. shadow' = shadow /\ count' = count
  BY DEF Post
<1>3. CASE Cardinality(inbox[u]) < N
  <2>1. inbox' = [inbox EXCEPT ![u] = inbox[u] \cup {m}] /\ last' = [last EXCEPT ![u] = m.tx]
    BY <1>3 DEF Post
  <2>2. IsFiniteSet(inbox[u] \cup {m}) /\ Cardinality(inbox[u] \cup {m}) <= N
    BY <1>1, <1>3, OneMore
  <2>3. inbox' \in [U54 -> SUBSET ToE51Msg] /\ last' \in [U54 -> Nat]
    BY <1>1, <2>1
  <2>4. \A v \in U54 : inbox'[v] = IF v = u THEN inbox[u] \cup {m} ELSE inbox[v]
    BY <1>1, <2>1
  <2>5. \A v \in U54 : IsFiniteSet(inbox'[v]) /\ Cardinality(inbox'[v]) <= N
    BY <1>1, <2>2, <2>4
  <2>6. QED
    BY <1>1, <1>2, <2>3, <2>5 DEF InboxOK
<1>4. CASE ~(Cardinality(inbox[u]) < N)
  <2>1. inbox' = inbox /\ last' = last
    BY <1>1, <1>4 DEF Post
  <2>2. QED
    BY <1>1, <1>2, <2>1 DEF InboxOK
<1>5. QED
  BY <1>3, <1>4

\* The ACK of a message of its own queue.
LEMMA AckPostType ==
    ASSUME TypeInv, NEW u \in U54, NEW m \in queue[u], Post(u, AckComplete(m.tx))
    PROVE  InboxOK'
<1>1. m \in ToU54Msg
  BY DEF TypeInv, QueueOK
<1>2. m.tx \in Nat /\ 0 \in 0..NumU54
  BY <1>1, ImageAssumption DEF ToU54Msg
<1>3. AckComplete(m.tx) \in ToE51Msg
  BY <1>2 DEF AckComplete, ToE51Msg
<1>4. QED
  BY <1>3, PostType

\* What the U54 takes from its queue.
LEMMA TakenType ==
    ASSUME TypeInv, NEW u \in U54, NEW m, queue' = [queue EXCEPT ![u] = queue[u] \ {m}]
    PROVE  QueueOK'
<1>1. /\ queue \in [U54 -> SUBSET ToU54Msg] /\ N \in Nat
      /\ \A v \in U54 : IsFiniteSet(queue[v]) /\ Cardinality(queue[v]) <= N
  BY ImageAssumption DEF TypeInv, QueueOK
<1>2. IsFiniteSet(queue[u] \ {m}) /\ Cardinality(queue[u] \ {m}) <= N
  BY <1>1, OneLess
<1>3. queue' \in [U54 -> SUBSET ToU54Msg]
  BY <1>1
<1>4. \A v \in U54 : queue'[v] = IF v = u THEN queue[u] \ {m} ELSE queue[v]
  BY <1>1
<1>5. \A v \in U54 : IsFiniteSet(queue'[v]) /\ Cardinality(queue'[v]) <= N
  BY <1>1, <1>2, <1>4
<1>6. QED
  BY <1>3, <1>5 DEF QueueOK

\* IPI_MessageFree and IPI_MessageUpdateStatus leave entries behind, in use as
\* before unless they were freed.
LEMMA EntriesType ==
    ASSUME TypeInv, NEW ks, NEW txs
    PROVE  /\ Free(ks) \in [Index -> Entry] /\ UpdateStatus(txs) \in [Index -> Entry]
           /\ \A k \in Index : Free(ks)[k].used = (completes[k].used /\ k \notin ks)
           /\ \A k \in Index : UpdateStatus(txs)[k].used = completes[k].used
<1>1. completes \in [Index -> Entry]
  BY DEF TypeInv, EntryOK
<1>2. \A k \in Index : /\ completes[k].used \in BOOLEAN /\ completes[k].tx \in Nat
                       /\ completes[k].status \in {"FAIL", "PENDING", "IDLE"}
  BY <1>1 DEF Entry
<1>3. \A k \in Index :
        /\ [used |-> FALSE, tx |-> completes[k].tx, status |-> completes[k].status] \in Entry
        /\ [used |-> completes[k].used, tx |-> completes[k].tx, status |-> "IDLE"] \in Entry
  BY <1>2 DEF Entry
<1>4. Free(ks) \in [Index -> Entry]
  BY <1>1, <1>3 DEF Free
<1>5. UpdateStatus(txs) \in [Index -> Entry]
  BY <1>1, <1>3 DEF UpdateStatus
<1>6. ASSUME NEW k \in Index PROVE Free(ks)[k].used = (completes[k].used /\ k \notin ks)
  <2>1. CASE k \in ks
    BY <2>1 DEF Free
  <2>2. CASE k \notin ks
    BY <1>2, <2>2 DEF Free
  <2>3. QED
    BY <2>1, <2>2
<1>7. \A k \in Index : UpdateStatus(txs)[k].used = completes[k].used
  BY <1>2 DEF UpdateStatus
<1>8. QED
  BY <1>4, <1>5, <1>6, <1>7

LEMMA NextTurnType ==
    ASSUME TypeInv, NextTurn
    PROVE  SchedOK'
<1>1. turn \in 0..(NumU54 + 1) /\ NumU54 \in Nat /\ cur \in BootState
  BY ImageAssumption DEF TypeInv, SchedOK
<1>2. (turn + 1) % (NumU54 + 2) \in 0..(NumU54 + 1)
  BY <1>1
<1>3. QED
  BY <1>1, <1>2 DEF NextTurn, SchedOK

LEMMA RestartType ==
    ASSUME NEW st \in [U54 -> BootState], NEW harts
    PROVE  Restart(st, harts) \in [U54 -> BootState]
BY DEF Restart, BootState

LEMMA TypeIpiPoll ==
    ASSUME TypeInv, IpiPoll
    PROVE  TypeInv'
<1> DEFINE new == {u \in U54 : last[u] # shadow[u]}
           seen == [u \in U54 |-> IF u \in new THEN Cardinality(inbox[u]) ELSE count[u]]
           acks == [u \in U54 |-> {m \in inbox[u] : m.type = "ACK_COMPLETE"}]
           taking == {u \in U54 : new # {} /\ seen[u] # 0 /\ acks[u] # {}}
<1>1. /\ inbox \in [U54 -> SUBSET ToE51Msg] /\ last \in [U54 -> Nat] /\ shadow' = last
      /\ \A u \in U54 : IsFiniteSet(inbox[u]) /\ Cardinality(inbox[u]) <= N
      /\ count \in [U54 -> 0..N] /\ N \in Nat /\ last' = last
  BY ImageAssumption DEF TypeInv, InboxOK, IpiPoll
<1>2. PICK ack \in [taking -> UNION {acks[u] : u \in taking}] :
        /\ \A u \in taking : ack[u] \in acks[u]
        /\ inbox' = [u \in U54 |-> IF u \in taking THEN inbox[u] \ {ack[u]} ELSE inbox[u]]
        /\ completes' = UpdateStatus({ack[u].tx : u \in taking})
  BY DEF IpiPoll
<1>3. count' = [u \in U54 |-> IF u \in taking THEN seen[u] - 1 ELSE seen[u]]
  BY Zenon DEF IpiPoll
<1>4. \A u \in U54 : seen[u] \in 0..N
  <2>1. \A u \in U54 : Cardinality(inbox[u]) \in Nat
    BY <1>1, FS_CardinalityType
  <2>2. QED
    BY <1>1, <2>1
<1>5. count' \in [U54 -> 0..N]
  <2>1. \A u \in taking : u \in U54 /\ seen[u] # 0
    OBVIOUS
  <2> HIDE DEF taking, seen
  <2>2. QED
    BY <1>1, <1>3, <1>4, <2>1
<1>6. \A u \in U54 : IsFiniteSet(inbox'[u]) /\ Cardinality(inbox'[u]) <= N
  <2> HIDE DEF taking
  <2>1. \A u \in U54 : inbox'[u] = IF u \in taking THEN inbox[u] \ {ack[u]} ELSE inbox[u]
    BY <1>2
  <2>2. \A u \in U54 : IsFiniteSet(inbox[u] \ {ack[u]}) /\ Cardinality(inbox[u] \ {ack[u]}) <= N
    BY <1>1, OneLess
  <2>3. QED
    BY <1>1, <2>1, <2>2
<1>7. inbox' \in [U54 -> SUBSET ToE51Msg]
  <2> HIDE DEF taking
  <2>1. QED
    BY <1>1, <1>2
<1>8. InboxOK'
  BY <1>1, <1>5, <1>6, <1>7 DEF InboxOK
<1>9. EntryOK'
  <2>1. completes' \in [Index -> Entry]
    BY <1>2, EntriesType
  <2>2. QED
    BY <2>1 DEF EntryOK, TypeInv, IpiPoll
<1>10. SchedOK'
  BY NextTurnType DEF IpiPoll
<1>11. QED
  BY <1>8, <1>9, <1>10, Unchanged DEF TypeInv, IpiPoll, machine, bounds

LEMMA LaunchType ==
    ASSUME TypeInv, NEW h \in U54, NEW u \in U54, Launch(h, u)
    PROVE  /\ EntryOK' /\ QueueOK' /\ state' \in [U54 -> BootState]
           /\ msgIndexAux' \in [U54 -> [U54 -> 0..K]]
<1>1. PICK k \in Index :
        /\ Deliver(k, u, IF u \in SkipOpensbi THEN "GOTO" ELSE "OPENSBI_INIT", TRUE)
        /\ msgIndexAux' = [msgIndexAux EXCEPT ![h][u] = k]
  BY DEF Launch
<1>2. EntryOK' /\ QueueOK'
  <2>1. CASE u \in SkipOpensbi
    <3>1. Deliver(k, u, "GOTO", TRUE)
      BY <1>1, <2>1
    <3>2. QED
      BY <3>1, DeliverType
  <2>2. CASE u \notin SkipOpensbi
    <3>1. Deliver(k, u, "OPENSBI_INIT", TRUE)
      BY <1>1, <2>2
    <3>2. QED
      BY <3>1, DeliverType
  <2>3. QED
    BY <2>1, <2>2
<1>3. state' \in [U54 -> BootState]
  BY DEF Launch, TypeInv, MachineOK, BootState
<1>4. msgIndexAux' \in [U54 -> [U54 -> 0..K]]
  <2>1. k \in 0..K /\ msgIndexAux \in [U54 -> [U54 -> 0..K]]
    BY ImageAssumption DEF Index, TypeInv, IndexOK
  <2>2. QED
    BY <1>1, <2>1
<1>5. QED
  BY <1>2, <1>3, <1>4

LEMMA RegisterType ==
    ASSUME TypeInv, NEW h \in U54, RegisterHarts(h)
    PROVE  IndexOK' /\ LedgerOK'
<1>1. K \in 0..K /\ msgIndex \in [U54 -> 0..K] /\ msgIndexAux \in [U54 -> [U54 -> 0..K]]
  BY ImageAssumption DEF TypeInv, IndexOK
<1>2. IndexOK'
  BY <1>1 DEF RegisterHarts, ForgetIndices, IndexOK
<1>3. Peers(h) \subseteq U54 /\ h \in 0..NumU54 /\ 0 \in 0..NumU54
  BY ImageAssumption DEF Peers, U54
<1>4. owner \in [U54 -> 0..NumU54] /\ pending \subseteq U54
  BY DEF TypeInv, LedgerOK
<1>5. owner' \in [U54 -> 0..NumU54]
  BY <1>3, <1>4 DEF RegisterHarts
<1>6. pending' \subseteq U54
  BY <1>3, <1>4 DEF RegisterHarts
<1>7. QED
  BY <1>2, <1>5, <1>6 DEF RegisterHarts, LedgerOK, TypeInv

LEMMA TypeRunStateMachine ==
    ASSUME TypeInv, NEW h \in U54, RunStateMachine(h)
    PROVE  TypeInv'
<1>1. /\ UNCHANGED <<elapsed, image, event, bootFail, bootStatus, toE51, hart, bounds>>
      /\ phase' = "handler" /\ cur' = state[h] /\ turn' = turn
  BY DEF RunStateMachine
<1>2. state' \in [U54 -> BootState] /\ IndexOK' /\ QueueOK' /\ EntryOK' /\ LedgerOK'
  <2>1. CASE Launch(h, h) /\ UNCHANGED <<msgIndex, ledger>>
    BY <2>1, LaunchType, Unchanged DEF TypeInv, IndexOK
  <2>2. CASE RegisterHarts(h) /\ UNCHANGED <<state, completes, queue, myTx>>
    BY <2>2, RegisterType, Unchanged DEF TypeInv, MachineOK
  <2>3. CASE UNCHANGED <<state, completes, queue, myTx, msgIndex, msgIndexAux, ledger>>
    BY <2>3, Unchanged DEF TypeInv, MachineOK
  <2>4. QED
    BY <2>1, <2>2, <2>3 DEF RunStateMachine
<1>3. prevState' \in [U54 -> BootState \cup {"INVALID"}]
  BY <1>2 DEF RunStateMachine, TypeInv, MachineOK
<1>4. left' \in [U54 -> Nat] /\ \A g \in U54 : left'[g] <= NumChunks[g]
  <2>1. NumChunks \in [U54 -> Nat] /\ left \in [U54 -> Nat] /\ \A g \in U54 : left[g] <= NumChunks[g]
    BY ScenarioType DEF TypeInv, MachineOK
  <2>2. \A g \in U54 : NumChunks[g] \in Nat /\ NumChunks[g] <= NumChunks[g]
    BY <2>1
  <2>3. PICK x \in {left[h], NumChunks[h]} : left' = [left EXCEPT ![h] = x]
    BY DEF RunStateMachine
  <2>4. QED
    BY <2>1, <2>2, <2>3
<1>5. iterator' \in [U54 -> 0..NumU54]
  <2>1. iterator \in [U54 -> 0..NumU54] /\ 0 \in 0..NumU54
    BY ImageAssumption DEF TypeInv, MachineOK
  <2>2. QED
    BY <2>1 DEF RunStateMachine
<1>6. MachineOK'
  <2>1. NumChunks' = NumChunks /\ elapsed' = elapsed
    BY <1>1 DEF NumChunks, bounds
  <2>2. QED
    BY <1>2, <1>3, <1>4, <1>5, <2>1 DEF MachineOK, TypeInv
<1>7. SchedOK'
  BY <1>1 DEF TypeInv, SchedOK, MachineOK
<1>8. ReportOK'
  <2>1. bootComplete' \subseteq U54
    BY DEF RunStateMachine, TypeInv, ReportOK
  <2>2. QED
    BY <1>1, <2>1 DEF TypeInv, ReportOK
<1>9. QED
  BY <1>1, <1>2, <1>6, <1>7, <1>8, Unchanged DEF TypeInv

\* The handlers that only move their machine on.
LEMMA TypeMoves ==
    ASSUME TypeInv, NEW h \in U54,
           \/ InitHandler(h) \/ ZeroInitChunksHandler(h) \/ DownloadChunksHandler(h)
           \/ ErrorHandler(h) \/ CompleteHandler(h) \/ Timeout(h)
    PROVE  TypeInv'
<1>1. /\ elapsed \in [U54 -> BOOLEAN] /\ state \in [U54 -> BootState] /\ left \in [U54 -> Nat]
      /\ \A g \in U54 : left[g] <= NumChunks[g]
      /\ "SETUP_PMP" \in BootState /\ "ERROR" \in BootState /\ "DOWNLOAD_CHUNKS" \in BootState
      /\ "COMPLETE" \in BootState /\ "OPENSBI_INIT" \in BootState /\ "IDLE" \in BootState
  BY DEF TypeInv, MachineOK, BootState
<1>2. ASSUME UNCHANGED <<prevState, iterator, scenario>>, state' \in [U54 -> BootState],
             elapsed' \in [U54 -> BOOLEAN], left' \in [U54 -> Nat],
             \A g \in U54 : left'[g] <= NumChunks[g]
      PROVE  MachineOK'
  BY <1>2 DEF TypeInv, MachineOK, NumChunks
<1>3. CASE InitHandler(h)
  <2>1. state' \in [U54 -> BootState] /\ elapsed' \in [U54 -> BOOLEAN]
    BY <1>1, <1>3 DEF InitHandler, GoTo
  <2>2. MachineOK'
    BY <1>1, <1>2, <1>3, <2>1 DEF InitHandler, bounds
  <2>3. ReportOK'
    <3>1. bootFail' \in BOOLEAN
      BY <1>3 DEF InitHandler, TypeInv, ReportOK
    <3>2. QED
      BY <1>3, <3>1 DEF InitHandler, TypeInv, ReportOK
  <2>4. SchedOK'
    BY <1>3, NextTurnType DEF InitHandler, Handles
  <2>5. QED
    BY <1>3, <2>2, <2>3, <2>4, Unchanged DEF InitHandler, TypeInv
<1>4. CASE ZeroInitChunksHandler(h)
  <2>1. state' \in [U54 -> BootState]
    BY <1>1, <1>4 DEF ZeroInitChunksHandler, GoTo
  <2>2. MachineOK'
    BY <1>1, <1>2, <1>4, <2>1 DEF ZeroInitChunksHandler, bounds
  <2>3. SchedOK'
    BY <1>4, NextTurnType DEF ZeroInitChunksHandler, Handles
  <2>4. QED
    BY <1>4, <2>2, <2>3, Unchanged DEF ZeroInitChunksHandler, TypeInv
<1>5. CASE DownloadChunksHandler(h)
  <2>1. state' \in [U54 -> BootState]
    BY <1>1, <1>5 DEF DownloadChunksHandler, GoTo
  <2>2. left' \in [U54 -> Nat] /\ \A g \in U54 : left'[g] <= NumChunks[g]
    <3>1. NumChunks \in [U54 -> Nat]
      BY ScenarioType DEF TypeInv
    <3>2. CASE left' = left
      BY <1>1, <3>2
    <3>3. CASE left[h] # 0 /\ left' = [left EXCEPT ![h] = left[h] - 1]
      BY <1>1, <3>1, <3>3
    <3>4. QED
      BY <1>5, <3>2, <3>3 DEF DownloadChunksHandler
  <2>3. MachineOK'
    BY <1>1, <1>2, <1>5, <2>1, <2>2 DEF DownloadChunksHandler, bounds
  <2>4. SchedOK'
    BY <1>5, NextTurnType DEF DownloadChunksHandler, Handles
  <2>5. QED
    BY <1>5, <2>3, <2>4, Unchanged DEF DownloadChunksHandler, TypeInv
<1>6. CASE ErrorHandler(h)
  <2>1. state' \in [U54 -> BootState]
    BY <1>1, <1>6 DEF ErrorHandler, GoTo
  <2>2. MachineOK'
    BY <1>1, <1>2, <1>6, <2>1 DEF ErrorHandler, bounds
  <2>3. ReportOK'
    BY <1>6 DEF ErrorHandler, TypeInv, ReportOK
  <2>4. SchedOK'
    BY <1>6, NextTurnType DEF ErrorHandler, Handles
  <2>5. QED
    BY <1>6, <2>2, <2>3, <2>4, Unchanged DEF ErrorHandler, TypeInv
<1>7. CASE CompleteHandler(h)
  <2>1. state' \in [U54 -> BootState]
    BY <1>1, <1>7 DEF CompleteHandler, GoTo
  <2>2. MachineOK'
    BY <1>1, <1>2, <1>7, <2>1 DEF CompleteHandler, bounds
  <2>3. ReportOK'
    <3>1. event' \in BOOLEAN
      BY <1>7 DEF CompleteHandler, TypeInv, ReportOK
    <3>2. QED
      BY <1>7, <3>1 DEF CompleteHandler, TypeInv, ReportOK
  <2>4. SchedOK'
    BY <1>7, NextTurnType DEF CompleteHandler, Handles
  <2>5. QED
    BY <1>7, <2>2, <2>3, <2>4, Unchanged DEF CompleteHandler, TypeInv
<1>8. CASE Timeout(h)
  <2>1. elapsed' \in [U54 -> BOOLEAN]
    BY <1>1, <1>8 DEF Timeout
  <2>2. MachineOK'
    BY <1>1, <1>2, <1>8, <2>1 DEF Timeout, bounds
  <2>3. QED
    BY <1>8, <2>2, Unchanged DEF Timeout, TypeInv
<1>9. QED
  BY <1>3, <1>4, <1>5, <1>6, <1>7, <1>8

LEMMA TypeSetupPmp ==
    ASSUME TypeInv, NEW h \in U54, SetupPmpHandler(h)
    PROVE  TypeInv'
<1>1. /\ UNCHANGED <<prevState, elapsed, left, iterator, msgIndexAux, image, report, toE51, ledger,
                     hart, bounds>> /\ NextTurn
  BY DEF SetupPmpHandler, Handles
<1>2. state' \in [U54 -> BootState]
  BY DEF SetupPmpHandler, GoTo, TypeInv, MachineOK, BootState
<1>3. msgIndex' \in [U54 -> 0..K] /\ EntryOK' /\ QueueOK'
  <2>1. CASE /\ msgIndex[h] = K
             /\ \E k \in Index : /\ Deliver(k, h, "PMP_SETUP", FALSE)
                                 /\ msgIndex' = [msgIndex EXCEPT ![h] = k]
    <3>1. PICK k \in Index : /\ Deliver(k, h, "PMP_SETUP", FALSE)
                             /\ msgIndex' = [msgIndex EXCEPT ![h] = k]
      BY <2>1
    <3>2. EntryOK' /\ QueueOK'
      BY <3>1, DeliverType
    <3>3. k \in 0..K
      BY ImageAssumption DEF Index
    <3>4. QED
      BY <3>1, <3>2, <3>3 DEF TypeInv, IndexOK
  <2>2. CASE UNCHANGED <<completes, queue, myTx, msgIndex>>
    BY <2>2, Unchanged DEF TypeInv, IndexOK
  <2>3. QED
    BY <2>1, <2>2 DEF SetupPmpHandler
<1>4. MachineOK'
  BY <1>1, <1>2 DEF MachineOK, TypeInv, NumChunks, bounds
<1>5. IndexOK' /\ SchedOK'
  BY <1>1, <1>3, NextTurnType DEF IndexOK, TypeInv
<1>6. QED
  BY <1>1, <1>3, <1>4, <1>5, Unchanged DEF TypeInv

LEMMA AcksType ==
    ASSUME TypeInv, NEW h \in U54, CheckForIpiAcks(h) \/ FreeAll(h), myTx' = myTx
    PROVE  EntryOK' /\ IndexOK'
<1>1. K \in 0..K /\ msgIndex \in [U54 -> 0..K] /\ msgIndexAux \in [U54 -> [U54 -> 0..K]]
  BY ImageAssumption DEF TypeInv, IndexOK
<1>2. IndexOK'
  <2>1. CASE CheckForIpiAcks(h)
    <3>1. PICK x \in {K, msgIndex[h]} : msgIndex' = [msgIndex EXCEPT ![h] = x]
      BY <2>1 DEF CheckForIpiAcks
    <3>2. msgIndexAux' = [msgIndexAux EXCEPT ![h] =
              [p \in U54 |-> IF p \in AuxFreed(h) THEN K ELSE msgIndexAux[h][p]]]
      BY <2>1 DEF CheckForIpiAcks
    <3>3. QED
      BY <1>1, <3>1, <3>2 DEF IndexOK
  <2>2. CASE FreeAll(h)
    BY <1>1, <2>2 DEF FreeAll, IndexOK
  <2>3. QED
    BY <2>1, <2>2
<1>3. PICK ks : completes' = Free(ks)
  BY DEF CheckForIpiAcks, FreeAll
<1>4. QED
  BY <1>2, <1>3, EntriesType DEF EntryOK, TypeInv

LEMMA TypeSetupPmpComplete ==
    ASSUME TypeInv, NEW h \in U54, SetupPmpCompleteHandler(h)
    PROVE  TypeInv'
<1>1. /\ UNCHANGED <<prevState, elapsed, left, iterator, image, report, queue, toE51, myTx,
                     ledger, hart, bounds>> /\ NextTurn
      /\ CheckForIpiAcks(h) \/ FreeAll(h)
  BY DEF SetupPmpCompleteHandler, Handles
<1>2. state' \in [U54 -> BootState]
  BY DEF SetupPmpCompleteHandler, GoTo, TypeInv, MachineOK, BootState
<1>3. MachineOK'
  BY <1>1, <1>2 DEF MachineOK, TypeInv, NumChunks, bounds
<1>4. EntryOK' /\ IndexOK' /\ SchedOK'
  BY <1>1, AcksType, NextTurnType
<1>5. QED
  BY <1>1, <1>3, <1>4, Unchanged DEF TypeInv

LEMMA TypeOpensbiInit ==
    ASSUME TypeInv, NEW h \in U54, OpensbiInitHandler(h)
    PROVE  TypeInv'
<1>1. /\ UNCHANGED <<prevState, elapsed, left, msgIndex, image, report, toE51, ledger, hart, bounds>>
      /\ NextTurn
  BY DEF OpensbiInitHandler, Handles
<1>2. iterator \in [U54 -> 0..NumU54] /\ NumU54 \in Nat /\ state \in [U54 -> BootState]
  BY ImageAssumption DEF TypeInv, MachineOK
<1>3. iterator' \in [U54 -> 0..NumU54]
  <2>1. CASE MorePeers(h) /\ iterator' = [iterator EXCEPT ![h] = iterator[h] + 1]
    BY <1>2, <2>1 DEF MorePeers
  <2>2. CASE iterator' = iterator
    BY <1>2, <2>2
  <2>3. QED
    BY <2>1, <2>2 DEF OpensbiInitHandler
<1>4. /\ state' \in [U54 -> BootState] /\ EntryOK' /\ QueueOK'
      /\ msgIndexAux' \in [U54 -> [U54 -> 0..K]]
  <2>1. CASE iterator[h] + 1 \in Peers(h) /\ Launch(h, iterator[h] + 1)
    <3>1. iterator[h] + 1 \in U54
      BY <2>1 DEF Peers
    <3>2. QED
      BY <2>1, <3>1, LaunchType
  <2>2. CASE GoTo(h, "WAIT") /\ UNCHANGED <<completes, queue, myTx, msgIndexAux>>
    BY <1>2, <2>2, Unchanged DEF GoTo, BootState, TypeInv, IndexOK
  <2>3. CASE UNCHANGED <<state, completes, queue, myTx, msgIndexAux>>
    BY <1>2, <2>3, Unchanged DEF TypeInv, IndexOK
  <2>4. QED
    BY <2>1, <2>2, <2>3 DEF OpensbiInitHandler
<1>5. MachineOK'
  BY <1>1, <1>3, <1>4 DEF MachineOK, TypeInv, NumChunks, bounds
<1>6. IndexOK' /\ SchedOK'
  BY <1>1, <1>4, NextTurnType DEF IndexOK, TypeInv
<1>7. QED
  BY <1>1, <1>4, <1>5, <1>6, Unchanged DEF TypeInv

LEMMA TypeWait ==
    ASSUME TypeInv, NEW h \in U54, WaitHandler(h)
    PROVE  TypeInv'
<1>1. /\ UNCHANGED <<prevState, left, iterator, image, bootComplete, event, bootFail, queue,
                     toE51, myTx, ledger, ustate, passed, pmpSetupFlag, bounds>>
      /\ NextTurn /\ elapsed' = [elapsed EXCEPT ![h] = FALSE]
  BY DEF WaitHandler, Handles
<1>2. state' \in [U54 -> BootState]
  BY DEF WaitHandler, GoTo, TypeInv, MachineOK, BootState
<1>3. EntryOK' /\ IndexOK'
  <2>1. CASE CheckForIpiAcks(h)
    BY <1>1, <2>1, AcksType
  <2>2. CASE UNCHANGED <<completes, msgIndex, msgIndexAux>>
    BY <1>1, <2>2, Unchanged
  <2>3. QED
    BY <2>1, <2>2 DEF WaitHandler
<1>4. HartOK'
  <2>1. hartState' \in [U54 -> {"Idle", "Booting", "Running"}]
    BY DEF WaitHandler, TypeInv, HartOK
  <2>2. QED
    BY <1>1, <2>1 DEF TypeInv, HartOK
<1>5. ReportOK'
  <2>1. bootStatus' \subseteq U54
    BY DEF WaitHandler, TypeInv, ReportOK
  <2>2. QED
    BY <1>1, <2>1 DEF TypeInv, ReportOK
<1>6. MachineOK'
  <2>1. elapsed' \in [U54 -> BOOLEAN]
    BY <1>1 DEF TypeInv, MachineOK
  <2>2. QED
    BY <1>1, <1>2, <2>1 DEF MachineOK, TypeInv, NumChunks, bounds
<1>7. SchedOK'
  BY <1>1, NextTurnType
<1>8. QED
  BY <1>1, <1>3, <1>4, <1>5, <1>6, <1>7, Unchanged DEF TypeInv

LEMMA TypeIdle ==
    ASSUME TypeInv, NEW h \in U54, IdleHandler(h)
    PROVE  TypeInv'
<1>1. /\ UNCHANGED <<prevState, elapsed, left, iterator, msgIndex, msgIndexAux, image, report,
                     queue, last, shadow, completes, myTx, ledger, hart, bounds>>
      /\ NextTurn
  BY DEF IdleHandler, Handles
<1>2. /\ state \in [U54 -> BootState] /\ inbox \in [U54 -> SUBSET ToE51Msg]
      /\ count \in [U54 -> 0..N] /\ N \in Nat
      /\ \A v \in U54 : IsFiniteSet(inbox[v]) /\ Cardinality(inbox[v]) <= N
  BY ImageAssumption DEF TypeInv, MachineOK, InboxOK
<1>3. CASE UNCHANGED <<state, inbox, count>>
  <2>1. MachineOK' /\ InboxOK'
    BY <1>1, <1>3, Unchanged DEF toE51, bounds
  <2>2. QED
    BY <1>1, <2>1, NextTurnType, Unchanged DEF TypeInv
<1>4. ASSUME NEW m \in inbox[h],
             inbox' = [inbox EXCEPT ![h] = inbox[h] \ {m}],
             count' = [count EXCEPT ![h] = IF count[h] = 0 THEN 0 ELSE count[h] - 1],
             \/ state' = Restart(state, Started({h}))
             \/ /\ m.target # 0
                /\ state' = Restart([state EXCEPT ![m.target] = "OPENSBI_INIT"], Started({m.target}))
      PROVE  TypeInv'
  <2>1. [state EXCEPT ![m.target] = "OPENSBI_INIT"] \in [U54 -> BootState]
    BY <1>2 DEF BootState
  <2>2. state' \in [U54 -> BootState]
    <3>1. CASE state' = Restart(state, Started({h}))
      BY <1>2, <3>1, RestartType
    <3>2. CASE state' = Restart([state EXCEPT ![m.target] = "OPENSBI_INIT"], Started({m.target}))
      <4> DEFINE st == [state EXCEPT ![m.target] = "OPENSBI_INIT"]
      <4> HIDE DEF st
      <4>1. QED
        BY <2>1, <3>2, RestartType DEF st
    <3>3. QED
      BY <1>4, <3>1, <3>2
  <2>3. MachineOK'
    BY <1>1, <2>2 DEF MachineOK, TypeInv, NumChunks, bounds
  <2>4. IsFiniteSet(inbox[h] \ {m}) /\ Cardinality(inbox[h] \ {m}) <= N
    BY <1>2, OneLess
  <2>5. inbox' \in [U54 -> SUBSET ToE51Msg]
    BY <1>2, <1>4
  <2>6. \A v \in U54 : inbox'[v] = IF v = h THEN inbox[h] \ {m} ELSE inbox[v]
    BY <1>2, <1>4
  <2>7. \A v \in U54 : IsFiniteSet(inbox'[v]) /\ Cardinality(inbox'[v]) <= N
    BY <1>2, <2>4, <2>6
  <2>8. count' \in [U54 -> 0..N]
    BY <1>2, <1>4
  <2>9. InboxOK'
    BY <1>1, <2>5, <2>7, <2>8 DEF InboxOK, TypeInv
  <2>10. QED
    BY <1>1, <2>3, <2>9, NextTurnType, Unchanged DEF TypeInv
<1>5. QED
  BY <1>3, <1>4 DEF IdleHandler

LEMMA TypeTinyCli ==
    ASSUME TypeInv, TinyCli
    PROVE  TypeInv'
<1>1. /\ UNCHANGED <<prevState, elapsed, left, iterator, msgIndex, msgIndexAux, report, queue,
                     toE51, completes, myTx, ledger, hart, scenario, requests>>
      /\ NextTurn
  BY DEF TinyCli
<1>2. state' \in [U54 -> BootState]
  <2>1. state \in [U54 -> BootState]
    BY DEF TypeInv, MachineOK
  <2>2. CASE \E harts : state' = Restart(state, harts)
    BY <2>1, <2>2, RestartType
  <2>3. CASE UNCHANGED state
    BY <2>1, <2>3
  <2>4. (\E harts : state' = Restart(state, harts)) \/ UNCHANGED state
    BY Zenon DEF TinyCli
  <2>5. QED
    BY <2>2, <2>3, <2>4
<1>3. MachineOK'
  BY <1>1, <1>2 DEF MachineOK, TypeInv, NumChunks
<1>4. ReportOK'
  <2>1. image' \in BOOLEAN
    BY DEF TinyCli, TypeInv, ReportOK
  <2>2. QED
    BY <1>1, <2>1 DEF ReportOK, TypeInv, report
<1>5. BoundsOK'
  <2>1. scenario \in Scenarios /\ scenario.maxBoots \in Nat /\ boots \in 0..scenario.maxBoots
    BY ScenarioType DEF TypeInv, BoundsOK
  <2>2. boots' \in 0..scenario.maxBoots
    BY <2>1 DEF TinyCli
  <2>3. QED
    BY <1>1, <2>2 DEF BoundsOK, TypeInv
<1>6. QED
  BY <1>1, <1>3, <1>4, <1>5, NextTurnType, Unchanged DEF TypeInv

LEMMA TypeScanPmpSetup ==
    ASSUME TypeInv, NEW u \in U54, ScanPmpSetup(u)
    PROVE  TypeInv'
<1>1. /\ UNCHANGED <<machine, sched, image, report, completes, myTx, ledger, ustate, bounds>>
      /\ passed' = [passed EXCEPT ![u] = TRUE]
  BY DEF ScanPmpSetup
<1>2. HartOK'
  <2>1. passed' \in [U54 -> BOOLEAN] /\ pmpSetupFlag' \in [U54 -> BOOLEAN]
    BY <1>1 DEF ScanPmpSetup, TypeInv, HartOK
  <2>2. hartState' \in [U54 -> {"Idle", "Booting", "Running"}]
    BY DEF ScanPmpSetup, TypeInv, HartOK
  <2>3. QED
    BY <1>1, <2>1, <2>2 DEF TypeInv, HartOK
<1>3. QueueOK' /\ InboxOK'
  <2>1. CASE UNCHANGED <<queue, toE51>>
    BY <2>1, Unchanged
  <2>2. ASSUME NEW m \in queue[u], queue' = [queue EXCEPT ![u] = queue[u] \ {m}],
               Post(u, AckComplete(m.tx))
        PROVE  QueueOK' /\ InboxOK'
    BY <2>2, TakenType, AckPostType
  <2>3. QED
    BY <2>1, <2>2 DEF ScanPmpSetup
<1>4. QED
  BY <1>1, <1>2, <1>3, Unchanged DEF TypeInv, machine, bounds

LEMMA TypeScanLaunch ==
    ASSUME TypeInv, NEW u \in U54, ScanLaunch(u)
    PROVE  TypeInv'
<1>1. /\ UNCHANGED <<machine, sched, image, report, myTx, owner, lottery, pmpSetupFlag, bounds>>
      /\ passed' = [passed EXCEPT ![u] = FALSE]
  BY DEF ScanLaunch
<1>2. HartOK'
  <2>1. passed' \in [U54 -> BOOLEAN]
    BY <1>1 DEF TypeInv, HartOK
  <2>2. hartState' \in [U54 -> {"Idle", "Booting", "Running"}]
    BY DEF ScanLaunch, TypeInv, HartOK
  <2>3. ustate' \in [U54 -> {"hss", "goto", "sbi", "warm", "parked", "run"}]
    BY DEF ScanLaunch, TypeInv, HartOK
  <2>4. QED
    BY <1>1, <2>1, <2>2, <2>3 DEF TypeInv, HartOK
<1>3. QueueOK' /\ InboxOK' /\ EntryOK'
  <2>1. CASE UNCHANGED <<queue, toE51, completes>>
    BY <1>1, <2>1, Unchanged
  <2>2. ASSUME NEW m \in queue[u], queue' = [queue EXCEPT ![u] = queue[u] \ {m}],
               Post(u, AckComplete(m.tx)), completes' = UpdateStatus({m.tx})
        PROVE  QueueOK' /\ InboxOK' /\ EntryOK'
    <3>1. EntryOK'
      BY <1>1, <2>2, EntriesType DEF EntryOK, TypeInv
    <3>2. QED
      BY <2>2, <3>1, TakenType, AckPostType
  <2>3. QED
    BY <2>1, <2>2 DEF ScanLaunch
<1>4. LedgerOK'
  <2>1. pending' \subseteq U54
    BY DEF ScanLaunch, MarkBooted, TypeInv, LedgerOK
  <2>2. QED
    BY <1>1, <2>1 DEF TypeInv, LedgerOK
<1>5. QED
  BY <1>1, <1>2, <1>3, <1>4, Unchanged DEF TypeInv, machine, bounds

\* OpenSBI's own steps: only the hart, and the lottery, change.
LEMMA TypeOpensbi ==
    ASSUME TypeInv, NEW u \in U54, NEW v \in U54, SbiInit(u) \/ WarmBoot(u) \/ HartStart(u, v)
    PROVE  TypeInv'
<1>1. /\ UNCHANGED <<machine, sched, image, report, queue, toE51, completes, myTx, owner, pending,
                     passed, pmpSetupFlag, bounds>>
  BY DEF SbiInit, WarmBoot, HartStart, ledger
<1>2. ustate' \in [U54 -> {"hss", "goto", "sbi", "warm", "parked", "run"}]
  BY DEF SbiInit, WarmBoot, HartStart, WarmStartup, Runs, TypeInv, HartOK
<1>3. hartState' \in [U54 -> {"Idle", "Booting", "Running"}]
  BY DEF SbiInit, WarmBoot, HartStart, WarmStartup, Runs, TypeInv, HartOK
<1>4. lottery' \in BOOLEAN
  BY DEF SbiInit, WarmBoot, HartStart, TypeInv, LedgerOK, ledger
<1>5. HartOK' /\ LedgerOK'
  BY <1>1, <1>2, <1>3, <1>4 DEF TypeInv, HartOK, LedgerOK
<1>6. QED
  BY <1>1, <1>5, Unchanged DEF TypeInv, machine, bounds

LEMMA BootRequestType ==
    ASSUME TypeInv, NEW u \in U54, NEW t \in 0..NumU54, NEW keep \in BOOLEAN,
           BootRequest(u, t, keep)
    PROVE  InboxOK' /\ EntryOK' /\ BoundsOK'
<1>1. /\ completes \in [Index -> Entry] /\ myTx \in [0..NumU54 -> Nat] /\ u \in 0..NumU54
  BY ImageAssumption DEF TypeInv, EntryOK, U54
<1>2. [type |-> "BOOT_REQUEST", tx |-> myTx[u], target |-> t] \in ToE51Msg
  BY <1>1 DEF ToE51Msg
<1>3. InboxOK'
  BY <1>2, PostType DEF BootRequest
<1>4. EntryOK'
  <2>1. PICK k \in Index : completes' = [completes EXCEPT ![k] =
              [used |-> keep \/ Cardinality(inbox[u]) < N, tx |-> myTx[u], status |-> "PENDING"]]
    BY DEF BootRequest
  <2>2. [used |-> keep \/ Cardinality(inbox[u]) < N, tx |-> myTx[u], status |-> "PENDING"] \in Entry
    BY <1>1 DEF Entry
  <2>3. completes' \in [Index -> Entry]
    BY <1>1, <2>1, <2>2
  <2>4. myTx' \in [0..NumU54 -> Nat]
    BY <1>1 DEF BootRequest
  <2>5. QED
    BY <2>3, <2>4 DEF EntryOK
<1>5. BoundsOK'
  <2>1. scenario \in Scenarios /\ scenario.maxRequests \in Nat /\ requests \in 0..scenario.maxRequests
    BY ScenarioType DEF TypeInv, BoundsOK
  <2>2. requests' \in 0..scenario.maxRequests
    BY <2>1 DEF BootRequest
  <2>3. QED
    BY <2>2 DEF BoundsOK, TypeInv, BootRequest
<1>6. QED
  BY <1>3, <1>4, <1>5

LEMMA TypePayload ==
    ASSUME TypeInv, NEW u \in U54, NEW t \in U54,
           SystemReset(u) \/ EcallReboot(u) \/ RprocStart(u, t)
    PROVE  TypeInv'
<1>1. 0 \in 0..NumU54 /\ t \in 0..NumU54
  BY ImageAssumption DEF U54
<1>2. CASE EcallReboot(u) \/ RprocStart(u, t)
  <2>1. /\ UNCHANGED <<machine, sched, image, report, queue, ledger, hart>>
        /\ BootRequest(u, 0, TRUE) \/ BootRequest(u, t, FALSE)
    BY <1>2 DEF EcallReboot, RprocStart
  <2>2. InboxOK' /\ EntryOK' /\ BoundsOK'
    BY <1>1, <2>1, BootRequestType
  <2>3. scenario' = scenario
    BY <2>1 DEF BootRequest
  <2>4. QED
    BY <2>1, <2>2, <2>3, Unchanged DEF TypeInv, machine
<1>3. CASE SystemReset(u)
  <2>1. /\ UNCHANGED <<machine, sched, image, report, queue, owner, lottery, pmpSetupFlag>>
        /\ pending' = pending \cup {u}
    BY <1>3 DEF SystemReset
  <2>2. InboxOK' /\ EntryOK' /\ BoundsOK' /\ scenario' = scenario
    <3>1. CASE BootRequest(u, 0, TRUE)
      BY <1>1, <3>1, BootRequestType DEF BootRequest
    <3>2. CASE /\ requests < scenario.maxRequests /\ requests' = requests + 1
               /\ UNCHANGED <<toE51, completes, myTx, scenario, boots>>
      <4>1. /\ scenario \in Scenarios /\ scenario.maxRequests \in Nat
            /\ requests \in 0..scenario.maxRequests
        BY ScenarioType DEF TypeInv, BoundsOK
      <4>2. BoundsOK'
        BY <3>2, <4>1 DEF BoundsOK, TypeInv
      <4>3. QED
        BY <3>2, <4>2, Unchanged
    <3>3. QED
      BY <1>3, <3>1, <3>2 DEF SystemReset
  <2>3. HartOK'
    <3>1. ustate' \in [U54 -> {"hss", "goto", "sbi", "warm", "parked", "run"}]
      BY <1>3 DEF SystemReset, TypeInv, HartOK
    <3>2. hartState' \in [U54 -> {"Idle", "Booting", "Running"}]
      BY <1>3 DEF SystemReset, TypeInv, HartOK
    <3>3. passed' \in [U54 -> BOOLEAN]
      BY <1>3 DEF SystemReset, TypeInv, HartOK
    <3>4. QED
      BY <2>1, <3>1, <3>2, <3>3 DEF TypeInv, HartOK
  <2>4. LedgerOK'
    BY <2>1 DEF TypeInv, LedgerOK
  <2>5. QED
    BY <2>1, <2>2, <2>3, <2>4, Unchanged DEF TypeInv, machine
<1>4. QED
  BY <1>2, <1>3

LEMMA TypeNext == TypeInv /\ [Next]_vars => TypeInv'
<1> SUFFICES ASSUME TypeInv, [Next]_vars PROVE TypeInv'
  OBVIOUS
<1>1. CASE UNCHANGED vars
  BY <1>1, Unchanged DEF vars, machine, bounds, TypeInv
<1>2. CASE E51
  <2>1. CASE IpiPoll \/ TinyCli
    BY <2>1, TypeIpiPoll, TypeTinyCli
  <2>2. ASSUME NEW h \in U54, BootMachine(h) PROVE TypeInv'
    BY <2>2, TypeRunStateMachine, TypeMoves, TypeSetupPmp, TypeSetupPmpComplete, TypeOpensbiInit,
       TypeWait, TypeIdle DEF BootMachine
  <2>3. QED
    BY <1>2, <2>1, <2>2 DEF E51
<1>3. ASSUME NEW h \in U54, Timeout(h) PROVE TypeInv'
  BY <1>3, TypeMoves
<1>4. ASSUME NEW u \in U54, U54Step(u) PROVE TypeInv'
  BY <1>4, TypeScanPmpSetup, TypeScanLaunch, TypeOpensbi DEF U54Step
<1>5. ASSUME NEW u \in U54, Payload(u) PROVE TypeInv'
  BY <1>5, TypePayload, TypeOpensbi DEF Payload
<1>6. QED
  BY <1>1, <1>2, <1>3, <1>4, <1>5 DEF Next

LEMMA TypeAlways == Spec => []TypeInv
BY TypeInit, TypeNext, PTL DEF Spec

\* Every step of the boot service, of the harts and of the payloads keeps the
\* types; no queue of the mailbox ever holds more than its N slots, and no
\* machine has more chunks left than the image gives its hart.
THEOREM TypeCorrect == Spec => []TypeOK
BY TypeAlways, TypeImplied, PTL

-----------------------------------------------------------------------------
(* A domain comes up as a whole *)

\* A step that leaves the ledger and the harts alone, launches nothing under
\* OpenSBI and requests no boot.
LEMMA WaitingFrame ==
    ASSUME Waiting, scenario' = scenario, UNCHANGED <<owner, pending, lottery, ustate>>,
           \A v \in U54 : \A m \in queue'[v] : m \in queue[v] \/ m.type # "OPENSBI_INIT",
           \A v \in U54 : \A m \in inbox'[v] : m \in inbox[v] \/ m.type # "BOOT_REQUEST"
    PROVE  Waiting'
<1>1. \A v \in U54 : Domain(v)' = Domain(v)
  BY DEF Domain, EntryPoint, SkipOpensbi
<1>2. ASSUME NEW v \in U54
      PROVE  /\ owner'[v] # 0 => v \in pending' \/ ustate'[v] # "hss"
             /\ (\E m \in queue'[v] : m.type = "OPENSBI_INIT") => owner'[v] # 0
             /\ ustate'[v] \in {"sbi", "warm", "parked", "run"} => owner'[v] # 0
             /\ \A m \in inbox'[v] : m.type # "BOOT_REQUEST"
  BY DEF Waiting
<1>3. ASSUME NEW v \in U54, ustate'[v] = "run" \/ (ustate'[v] = "warm" /\ lottery')
      PROVE  \A w \in Domain(v)' : ustate'[w] # "hss"
  BY <1>1, <1>3 DEF Waiting
<1>4. QED
  BY <1>2, <1>3 DEF Waiting

LEMMA LedgerFrame ==
    ASSUME OwnersInv, Entered, scenario' = scenario, UNCHANGED <<owner, prevState>>
    PROVE  OwnersInv' /\ Entered'
<1>1. \A v : Domain(v)' = Domain(v)
  BY DEF Domain, EntryPoint, SkipOpensbi
<1>2. OwnersInv'
  BY <1>1 DEF OwnersInv
<1>3. Entered'
  BY <1>1 DEF Entered, EntryPoint
<1>4. QED
  BY <1>2, <1>3

\* The handler of state s moves machine h to x.
LEMMA PathHandler ==
    ASSUME TypeInv, Path, NEW h \in U54, NEW s, NEW x, Handles(h, s),
           UNCHANGED <<prevState, scenario>>, state' = [state EXCEPT ![h] = x],
           s = "OPENSBI_INIT" => x \in {state[h], "WAIT", "ERROR"},
           x = "OPENSBI_INIT" => x = state[h] \/ (s = "DOWNLOAD_CHUNKS" /\ NumChunks[h] # 0)
    PROVE  Path'
<1>1. /\ state \in [U54 -> BootState] /\ turn = h /\ phase = "handler" /\ cur = s
      /\ phase' = "enter" /\ NumChunks' = NumChunks
  BY DEF TypeInv, MachineOK, Handles, NextTurn, NumChunks
<1>2. \A g \in U54 : ~InHandler(g)'
  BY <1>1 DEF InHandler
<1>3. \A g \in U54 : state'[g] = IF g = h THEN x ELSE state[g]
  BY <1>1
<1>4. InHandler(h)
  BY <1>1 DEF InHandler
<1>5. prevState[h] = s \/ (prevState[h] = "ERROR" /\ s \in {"WAIT", "ERROR", "INITIALIZATION"})
  BY <1>1, <1>4 DEF Path
<1>6. ASSUME NEW g \in U54
      PROVE  /\ state'[g] = "OPENSBI_INIT" =>
                   NumChunks'[g] # 0 /\ prevState'[g] \in {"DOWNLOAD_CHUNKS", "OPENSBI_INIT"}
             /\ prevState'[g] = "OPENSBI_INIT" =>
                   state'[g] \in {"OPENSBI_INIT", "WAIT", "ERROR", "INITIALIZATION"}
  BY <1>1, <1>3, <1>5 DEF Path
<1>7. QED
  BY <1>2, <1>6 DEF Path

\* Steps outside the handlers, and boot commands: a machine that is not in
\* BOOT_OPENSBI_INIT may be started again.
LEMMA PathFrame ==
    ASSUME Path, UNCHANGED <<prevState, scenario>>,
           UNCHANGED sched \/ phase' = "enter",
           \A g \in U54 : \/ state'[g] = state[g]
                          \/ state[g] # "OPENSBI_INIT" /\ state'[g] = "INITIALIZATION"
    PROVE  Path'
<1>1. NumChunks' = NumChunks
  BY DEF NumChunks
<1>2. ASSUME NEW g \in U54
      PROVE  /\ state'[g] = "OPENSBI_INIT" =>
                   NumChunks'[g] # 0 /\ prevState'[g] \in {"DOWNLOAD_CHUNKS", "OPENSBI_INIT"}
             /\ prevState'[g] = "OPENSBI_INIT" =>
                   state'[g] \in {"OPENSBI_INIT", "WAIT", "ERROR", "INITIALIZATION"}
  BY <1>1 DEF Path
<1>3. ASSUME NEW g \in U54, InHandler(g)'
      PROVE  \/ prevState'[g] = cur'
             \/ prevState'[g] = "ERROR" /\ cur' \in {"WAIT", "ERROR", "INITIALIZATION"}
  <2>1. UNCHANGED sched
    BY <1>3 DEF InHandler
  <2>2. InHandler(g)
    BY <1>3, <2>1 DEF InHandler, sched
  <2>3. QED
    BY <2>1, <2>2 DEF Path, sched
<1>4. QED
  BY <1>2, <1>3 DEF Path

\* No new message launches a hart under OpenSBI or requests a boot.
Quiet ==
    /\ UNCHANGED <<owner, pending, lottery, ustate>>
    /\ \A v \in U54 : \A m \in queue'[v] : m \in queue[v] \/ m.type # "OPENSBI_INIT"
    /\ \A v \in U54 : \A m \in inbox'[v] : m \in inbox[v] \/ m.type # "BOOT_REQUEST"

\* The handlers that launch nothing.
LEMMA DomainHandlers ==
    ASSUME TypeInv, DomainParts, NEW h \in U54,
           \/ InitHandler(h) \/ SetupPmpHandler(h) \/ SetupPmpCompleteHandler(h)
           \/ ZeroInitChunksHandler(h) \/ DownloadChunksHandler(h) \/ WaitHandler(h)
           \/ ErrorHandler(h) \/ CompleteHandler(h) \/ IdleHandler(h)
    PROVE  DomainParts'
<1>1. UNCHANGED <<prevState, scenario, owner, pending, lottery, ustate>>
  BY DEF InitHandler, SetupPmpHandler, SetupPmpCompleteHandler, ZeroInitChunksHandler,
     DownloadChunksHandler, WaitHandler, ErrorHandler, CompleteHandler, IdleHandler, bounds, ledger,
     hart
<1>2. state \in [U54 -> BootState] /\ state = [state EXCEPT ![h] = state[h]]
  BY DEF TypeInv, MachineOK
<1>3. Quiet
  <2>1. ASSUME NEW v \in U54, NEW m \in queue'[v] PROVE m \in queue[v] \/ m.type # "OPENSBI_INIT"
    <3>1. CASE UNCHANGED queue
      BY <3>1
    <3>2. CASE \E k \in Index : Deliver(k, h, "PMP_SETUP", FALSE)
      <4>1. \/ queue' = [queue EXCEPT ![h] = queue[h] \cup {[type |-> "PMP_SETUP", tx |-> myTx[0]]}]
            \/ queue' = [queue EXCEPT ![h] = queue[h]]
        BY <3>2 DEF Deliver
      <4>2. m \in queue[v] \/ m = [type |-> "PMP_SETUP", tx |-> myTx[0]]
        BY <4>1 DEF TypeInv, QueueOK
      <4>3. QED
        BY <4>2
    <3>3. QED
      BY <3>1, <3>2 DEF InitHandler, SetupPmpHandler, SetupPmpCompleteHandler, ZeroInitChunksHandler,
         DownloadChunksHandler, WaitHandler, ErrorHandler, CompleteHandler, IdleHandler
  <2>2. ASSUME NEW v \in U54 PROVE inbox'[v] \subseteq inbox[v]
    <3>1. CASE UNCHANGED inbox
      BY <3>1
    <3>2. CASE \E m : inbox' = [inbox EXCEPT ![h] = inbox[h] \ {m}]
      BY <3>2 DEF TypeInv, InboxOK
    <3>3. QED
      BY <3>1, <3>2 DEF InitHandler, SetupPmpHandler, SetupPmpCompleteHandler, ZeroInitChunksHandler,
         DownloadChunksHandler, WaitHandler, ErrorHandler, CompleteHandler, IdleHandler, toE51
  <2>3. QED
    BY <1>1, <2>1, <2>2 DEF Quiet
<1>4. OwnersInv' /\ Entered' /\ Waiting'
  BY <1>1, <1>3, LedgerFrame, WaitingFrame DEF DomainParts, Quiet
<1>5. \E s, x : /\ Handles(h, s) /\ state' = [state EXCEPT ![h] = x] /\ s # "OPENSBI_INIT"
                /\ x = "OPENSBI_INIT" =>
                      x = state[h] \/ (s = "DOWNLOAD_CHUNKS" /\ NumChunks[h] # 0)
  <2>1. CASE InitHandler(h)
    BY <2>1 DEF InitHandler, GoTo
  <2>2. CASE SetupPmpHandler(h)
    BY <1>2, <2>2 DEF SetupPmpHandler, GoTo
  <2>3. CASE SetupPmpCompleteHandler(h)
    <3>1. PICK x \in {state[h], "ERROR", "COMPLETE", "ZERO_INIT_CHUNKS"} :
             state' = [state EXCEPT ![h] = x]
      BY <2>3 DEF SetupPmpCompleteHandler, GoTo
    <3>2. Handles(h, "SETUP_PMP_COMPLETE")
      BY <2>3 DEF SetupPmpCompleteHandler
    <3>3. QED
      BY <3>1, <3>2
  <2>4. CASE ZeroInitChunksHandler(h)
    <3>1. PICK x \in {"DOWNLOAD_CHUNKS"} : state' = [state EXCEPT ![h] = x]
      BY <2>4 DEF ZeroInitChunksHandler, GoTo
    <3>2. Handles(h, "ZERO_INIT_CHUNKS")
      BY <2>4 DEF ZeroInitChunksHandler
    <3>3. QED
      BY <3>1, <3>2
  <2>5. CASE DownloadChunksHandler(h)
    BY <1>2, <2>5 DEF DownloadChunksHandler, GoTo
  <2>6. CASE WaitHandler(h)
    <3>1. PICK x \in {state[h], "COMPLETE"} : state' = [state EXCEPT ![h] = x]
      BY <1>2, <2>6 DEF WaitHandler, GoTo
    <3>2. Handles(h, "WAIT")
      BY <2>6 DEF WaitHandler
    <3>3. QED
      BY <3>1, <3>2
  <2>7. CASE ErrorHandler(h)
    <3>1. PICK x \in {"COMPLETE"} : state' = [state EXCEPT ![h] = x]
      BY <2>7 DEF ErrorHandler, GoTo
    <3>2. Handles(h, "ERROR")
      BY <2>7 DEF ErrorHandler
    <3>3. QED
      BY <3>1, <3>2
  <2>8. CASE CompleteHandler(h)
    BY <1>2, <2>8 DEF CompleteHandler, GoTo
  <2>9. CASE IdleHandler(h)
    <3>1. {m \in inbox[h] : m.type = "BOOT_REQUEST"} = {}
      BY DEF DomainParts, Waiting
    <3>2. Handles(h, "IDLE") /\ state' = state
      BY <2>9, <3>1 DEF IdleHandler
    <3>3. QED
      BY <1>2, <3>2
  <2>10. QED
    BY <2>1, <2>2, <2>3, <2>4, <2>5, <2>6, <2>7, <2>8, <2>9
<1>6. Path'
  BY <1>1, <1>5, PathHandler DEF DomainParts
<1>7. QED
  BY <1>4, <1>6 DEF DomainParts

\* The other machines of the super-loop and the clock.
LEMMA DomainLoop ==
    ASSUME TypeInv, DomainParts, IpiPoll \/ TinyCli \/ \E h \in U54 : Timeout(h)
    PROVE  DomainParts'
<1>1. UNCHANGED <<prevState, scenario, owner, pending, lottery, ustate, queue>>
  BY DEF IpiPoll, TinyCli, Timeout, bounds, ledger, hart, machine
<1>2. \A v \in U54 : inbox'[v] \subseteq inbox[v]
  <2>1. CASE IpiPoll
    BY <2>1 DEF IpiPoll
  <2>2. CASE UNCHANGED inbox
    BY <2>2
  <2>3. QED
    BY <2>1, <2>2 DEF TinyCli, Timeout, toE51
<1>3. OwnersInv' /\ Entered' /\ Waiting'
  BY <1>1, <1>2, LedgerFrame, WaitingFrame DEF DomainParts
<1>4. UNCHANGED sched \/ phase' = "enter"
  BY DEF IpiPoll, TinyCli, Timeout, NextTurn
<1>5. ASSUME NEW g \in U54
      PROVE  \/ state'[g] = state[g]
             \/ state[g] # "OPENSBI_INIT" /\ state'[g] = "INITIALIZATION"
  <2>1. CASE UNCHANGED state
    BY <2>1
  <2>2. CASE \E harts : state' = Restart(state, harts)
    BY <2>2 DEF Restart
  <2>3. UNCHANGED state \/ \E harts : state' = Restart(state, harts)
    BY Zenon DEF IpiPoll, TinyCli, Timeout, machine
  <2>4. QED
    BY <2>1, <2>2, <2>3
<1>6. Path'
  BY <1>1, <1>4, <1>5, PathFrame DEF DomainParts
<1>7. QED
  BY <1>3, <1>6 DEF DomainParts

\* The machine launches a hart of its boot set, itself or a peer, which the
\* ledger has.
LEMMA LaunchWaits ==
    ASSUME TypeInv, Waiting, Entered, NEW h \in U54, NEW u \in U54, Launch(h, u),
           prevState[h] = "OPENSBI_INIT", EntryPoint[h] # 0, EntryPoint[u] = EntryPoint[h],
           scenario' = scenario, UNCHANGED <<ledger, ustate, inbox>>
    PROVE  Waiting'
<1>1. /\ queue \in [U54 -> SUBSET ToU54Msg]
      /\ UNCHANGED <<owner, pending, lottery, ustate, inbox>>
  BY DEF TypeInv, QueueOK, ledger
<1>2. CASE u \in SkipOpensbi
  <2>1. \/ queue' = [queue EXCEPT ![u] = queue[u] \cup {[type |-> "GOTO", tx |-> myTx[0]]}]
        \/ queue' = [queue EXCEPT ![u] = queue[u]]
    BY <1>2 DEF Launch, Deliver
  <2>2. ASSUME NEW v \in U54, NEW m \in queue'[v] PROVE m \in queue[v] \/ m.type # "OPENSBI_INIT"
    <3>1. m \in queue[v] \/ m = [type |-> "GOTO", tx |-> myTx[0]]
      BY <1>1, <2>1
    <3>2. QED
      BY <3>1
  <2>3. QED
    BY <1>1, <2>2, WaitingFrame
<1>3. CASE u \notin SkipOpensbi
  <2>1. u \in Domain(h)
    BY <1>3 DEF Domain
  <2>2. owner[u] # 0
    BY <2>1 DEF Entered
  <2>3. \A v \in U54 : v # u => queue'[v] = queue[v]
    BY <1>1 DEF Launch, Deliver
  <2>4. \A v \in U54 : Domain(v)' = Domain(v)
    BY DEF Domain, EntryPoint, SkipOpensbi
  <2>5. ASSUME NEW v \in U54
        PROVE  /\ owner'[v] # 0 => v \in pending' \/ ustate'[v] # "hss"
               /\ (\E m \in queue'[v] : m.type = "OPENSBI_INIT") => owner'[v] # 0
               /\ ustate'[v] \in {"sbi", "warm", "parked", "run"} => owner'[v] # 0
               /\ \A m \in inbox'[v] : m.type # "BOOT_REQUEST"
    BY <1>1, <2>2, <2>3 DEF Waiting
  <2>6. ASSUME NEW v \in U54, ustate'[v] = "run" \/ (ustate'[v] = "warm" /\ lottery')
        PROVE  \A w \in Domain(v)' : ustate'[w] # "hss"
    BY <1>1, <2>4, <2>6 DEF Waiting
  <2>7. QED
    BY <2>5, <2>6 DEF Waiting
<1>4. QED
  BY <1>2, <1>3

LEMMA DomainOpensbiInit ==
    ASSUME TypeInv, DomainParts, NEW h \in U54, OpensbiInitHandler(h)
    PROVE  DomainParts'
<1>1. /\ UNCHANGED <<prevState, scenario, ledger, owner, pending, lottery, ustate, inbox>>
      /\ Handles(h, "OPENSBI_INIT")
  BY DEF OpensbiInitHandler, bounds, ledger, hart, toE51
<1>2. state \in [U54 -> BootState] /\ state = [state EXCEPT ![h] = state[h]]
  BY DEF TypeInv, MachineOK
<1>3. prevState[h] = "OPENSBI_INIT"
  BY <1>1 DEF Handles, DomainParts, Path, InHandler
<1>4. PICK x \in {state[h], "WAIT", "ERROR"} : state' = [state EXCEPT ![h] = x]
  BY <1>2 DEF OpensbiInitHandler, Launch, GoTo
<1>5. Path'
  BY <1>1, <1>4, PathHandler DEF DomainParts
<1>6. Waiting'
  <2>1. CASE UNCHANGED queue
    BY <1>1, <2>1, WaitingFrame DEF DomainParts
  <2>2. CASE PrimaryBootHart(h) /\ iterator[h] + 1 \in Peers(h) /\ Launch(h, iterator[h] + 1)
    <3>1. /\ iterator[h] + 1 \in U54 /\ EntryPoint[iterator[h] + 1] = EntryPoint[h]
          /\ EntryPoint[h] # 0
      BY <2>2 DEF Peers, PrimaryBootHart
    <3>2. QED
      BY <1>1, <1>3, <2>2, <3>1, LaunchWaits DEF DomainParts
  <2>3. QED
    BY <2>1, <2>2 DEF OpensbiInitHandler
<1>7. OwnersInv' /\ Entered'
  BY <1>1, LedgerFrame DEF DomainParts
<1>8. QED
  BY <1>5, <1>6, <1>7 DEF DomainParts

\* register_harts: the boot set of a primary hart.
LEMMA Registers ==
    ASSUME TypeInv, OwnersInv, Waiting, NEW h \in U54, RegisterHarts(h), scenario' = scenario,
           UNCHANGED <<queue, inbox, ustate>>
    PROVE  /\ OwnersInv' /\ Waiting'
           /\ \A v \in U54 : owner[v] # 0 => owner'[v] # 0
           /\ PrimaryBootHart(h) => \A v \in Domain(h) : owner'[v] # 0
<1>1. \A v : Domain(v)' = Domain(v)
  BY DEF Domain, EntryPoint, SkipOpensbi
<1>2. /\ owner \in [U54 -> 0..NumU54] /\ pending \subseteq U54 /\ h # 0
      /\ \A v \in U54 : Domain(v) \subseteq U54
  BY ImageAssumption DEF TypeInv, LedgerOK, U54, Domain
<1>3. \A v \in U54 : owner[v] # 0 => v \notin SkipOpensbi
  BY DEF OwnersInv, Domain
<1>4. CASE ~PrimaryBootHart(h)
  <2>1. owner' = owner /\ pending' = pending /\ lottery' = lottery
    BY <1>2, <1>4 DEF RegisterHarts
  <2>2. QED
    BY <1>1, <1>4, <2>1, WaitingFrame DEF OwnersInv
<1>5. CASE PrimaryBootHart(h)
  <2>1. (Peers(h) \cup {h}) \ SkipOpensbi = Domain(h)
    BY DEF Peers, Domain
  <2>2. /\ \A v \in U54 : owner'[v] = IF v \in Domain(h) THEN h
                                      ELSE IF v \in SkipOpensbi THEN 0 ELSE owner[v]
        /\ pending' = (pending \ SkipOpensbi) \cup Domain(h)
        /\ lottery' = lottery
    BY <1>5, <2>1 DEF RegisterHarts
  <2>3. \A v \in U54 : owner[v] # 0 => owner'[v] # 0
    BY <1>2, <1>3, <2>2
  <2>4. OwnersInv'
    <3>1. ASSUME NEW v \in U54, owner'[v] # 0
          PROVE  /\ owner'[v] \in U54 /\ v \in Domain(owner'[v])
                 /\ \A w \in Domain(v) : owner'[w] # 0
      <4>1. CASE v \in Domain(h)
        <5>1. Domain(v) = Domain(h)
          BY <4>1 DEF Domain
        <5>2. QED
          BY <1>2, <2>2, <4>1, <5>1
      <4>2. CASE v \notin Domain(h)
        <5>1. owner'[v] = owner[v] /\ owner[v] # 0
          BY <2>2, <3>1, <4>2
        <5>2. QED
          BY <1>2, <2>3, <5>1 DEF OwnersInv
      <4>3. QED
        BY <4>1, <4>2
    <3>2. QED
      BY <1>1, <3>1 DEF OwnersInv
  <2>5. Waiting'
    <3>1. ASSUME NEW v \in U54
          PROVE  /\ owner'[v] # 0 => v \in pending' \/ ustate'[v] # "hss"
                 /\ (\E m \in queue'[v] : m.type = "OPENSBI_INIT") => owner'[v] # 0
                 /\ ustate'[v] \in {"sbi", "warm", "parked", "run"} => owner'[v] # 0
                 /\ \A m \in inbox'[v] : m.type # "BOOT_REQUEST"
      BY <1>2, <2>2, <2>3 DEF Waiting
    <3>2. ASSUME NEW v \in U54, ustate'[v] = "run" \/ (ustate'[v] = "warm" /\ lottery')
          PROVE  \A w \in Domain(v)' : ustate'[w] # "hss"
      BY <1>1, <2>2, <3>2 DEF Waiting
    <3>3. QED
      BY <3>1, <3>2 DEF Waiting
  <2>6. \A v \in Domain(h) : owner'[v] # 0
    BY <1>2, <2>2
  <2>7. QED
    BY <2>3, <2>4, <2>5, <2>6
<1>6. QED
  BY <1>4, <1>5

LEMMA DomainRunStateMachine ==
    ASSUME TypeInv, DomainParts, NEW h \in U54, RunStateMachine(h)
    PROVE  DomainParts'
<1> DEFINE moved == prevState[h] # state[h]
<1>1. /\ UNCHANGED <<scenario, ustate, inbox, turn>> /\ turn = h /\ cur' = state[h]
      /\ prevState' = [prevState EXCEPT ![h] = IF moved THEN state'[h] ELSE prevState[h]]
  BY DEF RunStateMachine, bounds, hart, toE51
<1>2. /\ state \in [U54 -> BootState] /\ prevState \in [U54 -> BootState \cup {"INVALID"}]
      /\ NumChunks' = NumChunks /\ EntryPoint' = EntryPoint
  BY <1>1 DEF TypeInv, MachineOK, NumChunks, EntryPoint
<1>3. \A v : Domain(v)' = Domain(v)
  BY <1>1 DEF Domain, EntryPoint, SkipOpensbi
<1>4. \/ /\ prevState[h] = "OPENSBI_INIT" /\ moved /\ EntryPoint[h] # 0 /\ Launch(h, h)
         /\ UNCHANGED ledger
      \/ RegisterHarts(h) /\ UNCHANGED <<state, queue>>
      \/ /\ ~(moved /\ prevState[h] = "DOWNLOAD_CHUNKS")
         /\ UNCHANGED <<state, queue, ledger>>
  BY DEF RunStateMachine
<1>5. \/ state' = state
      \/ /\ prevState[h] = "OPENSBI_INIT" /\ moved
         /\ state' = [state EXCEPT ![h] = "ERROR"]
  BY <1>4 DEF Launch
<1>6. OwnersInv' /\ Waiting' /\ \A v \in U54 : owner[v] # 0 => owner'[v] # 0
  <2>1. CASE UNCHANGED <<queue, ledger>>
    BY <1>1, <1>3, <2>1, WaitingFrame DEF ledger, OwnersInv, DomainParts
  <2>2. CASE RegisterHarts(h) /\ UNCHANGED queue
    BY <1>1, <2>2, Registers DEF DomainParts
  <2>3. CASE prevState[h] = "OPENSBI_INIT" /\ EntryPoint[h] # 0 /\ Launch(h, h) /\ UNCHANGED ledger
    <3>1. Waiting'
      BY <1>1, <2>3, LaunchWaits DEF DomainParts
    <3>2. QED
      BY <1>3, <2>3, <3>1 DEF ledger, OwnersInv, DomainParts
  <2>4. QED
    BY <1>4, <2>1, <2>2, <2>3
<1>7. Path'
  <2>1. \A g \in U54 : g # h => prevState'[g] = prevState[g] /\ state'[g] = state[g]
    BY <1>1, <1>2, <1>5
  <2>2. prevState'[h] = IF moved THEN state'[h] ELSE prevState[h]
    BY <1>1, <1>2
  <2>3. state'[h] = state[h] \/ (prevState[h] = "OPENSBI_INIT" /\ moved /\ state'[h] = "ERROR")
    BY <1>2, <1>5
  <2>4. ASSUME NEW g \in U54
        PROVE  /\ state'[g] = "OPENSBI_INIT" =>
                     NumChunks'[g] # 0 /\ prevState'[g] \in {"DOWNLOAD_CHUNKS", "OPENSBI_INIT"}
               /\ prevState'[g] = "OPENSBI_INIT" =>
                     state'[g] \in {"OPENSBI_INIT", "WAIT", "ERROR", "INITIALIZATION"}
    <3>1. CASE g = h
      BY <1>2, <2>2, <2>3, <3>1 DEF DomainParts, Path
    <3>2. CASE g # h
      BY <1>2, <2>1, <3>2 DEF DomainParts, Path
    <3>3. QED
      BY <3>1, <3>2
  <2>5. ASSUME NEW g \in U54, InHandler(g)'
        PROVE  \/ prevState'[g] = cur'
               \/ prevState'[g] = "ERROR" /\ cur' \in {"WAIT", "ERROR", "INITIALIZATION"}
    <3>1. g = h
      BY <1>1, <2>5 DEF InHandler
    <3>2. QED
      BY <1>1, <2>2, <2>3, <3>1 DEF DomainParts, Path
  <2>6. QED
    BY <2>4, <2>5 DEF Path
<1>8. Entered'
  <2>1. ASSUME NEW g \in U54, prevState'[g] = "OPENSBI_INIT", EntryPoint[g] # 0,
               NEW v \in Domain(g)
        PROVE  owner'[v] # 0
    <3>1. v \in U54
      BY DEF Domain
    <3>2. CASE prevState[g] = "OPENSBI_INIT"
      BY <1>6, <2>1, <3>1, <3>2 DEF DomainParts, Entered
    <3>3. CASE prevState[g] # "OPENSBI_INIT"
      <4>1. g = h /\ moved /\ state'[h] = "OPENSBI_INIT"
        BY <1>1, <1>2, <2>1, <3>3
      <4>2. state[h] = "OPENSBI_INIT" /\ state' = state
        BY <1>5, <3>3, <4>1
      <4>3. prevState[h] = "DOWNLOAD_CHUNKS" /\ NumChunks[h] # 0
        BY <3>3, <4>1, <4>2 DEF DomainParts, Path
      <4>4. RegisterHarts(h) /\ UNCHANGED queue
        BY <1>4, <4>1, <4>3
      <4>5. PrimaryBootHart(h)
        BY <2>1, <4>1, <4>3 DEF PrimaryBootHart
      <4>6. QED
        BY <1>1, <4>1, <4>4, <4>5, Registers DEF DomainParts
    <3>4. QED
      BY <3>2, <3>3
  <2>2. QED
    BY <1>2, <1>3, <2>1 DEF Entered
<1>9. QED
  BY <1>6, <1>7, <1>8 DEF DomainParts

\* An ACK is no boot request.
LEMMA AckPosted ==
    ASSUME TypeInv, NEW u \in U54, UNCHANGED toE51 \/ \E t : Post(u, AckComplete(t)),
           NEW v \in U54, NEW m \in inbox'[v], m.type = "BOOT_REQUEST"
    PROVE  m \in inbox[v]
<1>1. CASE UNCHANGED toE51
  BY <1>1 DEF toE51
<1>2. CASE \E t : Post(u, AckComplete(t))
  <2>1. PICK t : Post(u, AckComplete(t))
    BY <1>2
  <2>2. m \in inbox[v] \/ m = AckComplete(t)
    BY <2>1 DEF Post, TypeInv, InboxOK
  <2>3. QED
    BY <2>2 DEF AckComplete
<1>3. QED
  BY <1>1, <1>2

\* HSS_U54_HandleIPI: a launched hart leaves the HSS; it was in the ledger if
\* it goes to OpenSBI.
LEMMA DomainScan ==
    ASSUME TypeInv, DomainParts, NEW u \in U54, ScanPmpSetup(u) \/ ScanLaunch(u)
    PROVE  DomainParts'
<1>1. UNCHANGED <<state, prevState, sched, scenario, owner, lottery>>
  BY DEF ScanPmpSetup, ScanLaunch, machine, bounds, ledger
<1>2. OwnersInv' /\ Entered' /\ Path'
  BY <1>1, LedgerFrame, PathFrame DEF DomainParts
<1>3. ASSUME NEW v \in U54, NEW m \in queue'[v] PROVE m \in queue[v]
  BY DEF ScanPmpSetup, ScanLaunch, TypeInv, QueueOK
<1>4. ASSUME NEW v \in U54, NEW m \in inbox'[v] PROVE m \in inbox[v] \/ m.type # "BOOT_REQUEST"
  BY AckPosted DEF ScanPmpSetup, ScanLaunch
<1>5. CASE UNCHANGED <<ustate, pending>>
  BY <1>1, <1>2, <1>3, <1>4, <1>5, WaitingFrame DEF DomainParts
<1>6. CASE /\ (ustate' = [ustate EXCEPT ![u] = "goto"] /\ UNCHANGED pending)
              \/ /\ ustate' = [ustate EXCEPT ![u] = "sbi"] /\ pending' = pending \ {u}
                 /\ \E m \in queue[u] : m.type = "OPENSBI_INIT"
  <2>1. /\ \A v \in U54 : v # u => ustate'[v] = ustate[v]
        /\ ustate'[u] \in {"goto", "sbi"}
        /\ ustate'[u] = "sbi" => owner[u] # 0
        /\ \A v \in U54 : v # u => (v \in pending => v \in pending')
    BY <1>6 DEF TypeInv, HartOK, DomainParts, Waiting
  <2>2. \A v \in U54 : Domain(v)' = Domain(v) /\ Domain(v) \subseteq U54
    BY <1>1 DEF Domain, EntryPoint, SkipOpensbi
  <2>3. ASSUME NEW v \in U54
        PROVE  /\ owner'[v] # 0 => v \in pending' \/ ustate'[v] # "hss"
               /\ (\E m \in queue'[v] : m.type = "OPENSBI_INIT") => owner'[v] # 0
               /\ ustate'[v] \in {"sbi", "warm", "parked", "run"} => owner'[v] # 0
               /\ \A m \in inbox'[v] : m.type # "BOOT_REQUEST"
    BY <1>1, <1>3, <1>4, <2>1 DEF DomainParts, Waiting
  <2>4. ASSUME NEW v \in U54, ustate'[v] = "run" \/ (ustate'[v] = "warm" /\ lottery')
        PROVE  \A w \in Domain(v)' : ustate'[w] # "hss"
    <3>1. v # u
      BY <2>1, <2>4
    <3>2. \A w \in Domain(v) : ustate[w] # "hss"
      BY <1>1, <2>1, <2>4, <3>1 DEF DomainParts, Waiting
    <3>3. QED
      BY <2>1, <2>2, <3>2
  <2>5. Waiting'
    BY <2>3, <2>4 DEF Waiting
  <2>6. QED
    BY <1>2, <2>5 DEF DomainParts
<1>7. QED
  BY <1>5, <1>6 DEF ScanPmpSetup, ScanLaunch, MarkBooted, ledger

\* When nothing is pending, no hart of the domain of a hart of the ledger is
\* left in the HSS.
LEMMA NonePending ==
    ASSUME DomainParts, NEW v \in U54, owner[v] # 0, LastHartReady
    PROVE  \A w \in Domain(v) : ustate[w] # "hss"
<1>1. \A w \in Domain(v) : w \in U54 /\ owner[w] # 0
  BY DEF DomainParts, OwnersInv, Domain
<1>2. QED
  BY <1>1 DEF DomainParts, Waiting, LastHartReady

\* sbi_init and sbi_hsm_hart_start.
LEMMA DomainOpensbi ==
    ASSUME TypeInv, DomainParts, NEW u \in U54, NEW t \in U54,
           SbiInit(u) \/ WarmBoot(u) \/ HartStart(t, u)
    PROVE  DomainParts'
<1>1. /\ UNCHANGED <<state, prevState, sched, scenario, owner, pending, queue, inbox>>
      /\ ustate[u] \in {"sbi", "warm", "parked"}
  BY DEF SbiInit, WarmBoot, HartStart, machine, bounds, ledger, toE51
<1>2. OwnersInv' /\ Entered' /\ Path'
  BY <1>1, LedgerFrame, PathFrame DEF DomainParts
<1>3. owner[u] # 0
  BY <1>1 DEF DomainParts, Waiting
<1>4. PICK x \in {"run", "warm", "parked"} : ustate' = [ustate EXCEPT ![u] = x]
  BY DEF SbiInit, WarmBoot, HartStart, WarmStartup, Runs
<1>5. \A v \in U54 : ustate'[v] = IF v = u THEN x ELSE ustate[v]
  BY <1>4 DEF TypeInv, HartOK
<1>6. \A v \in U54 : Domain(v)' = Domain(v) /\ Domain(v) \subseteq U54
  BY <1>1 DEF Domain, EntryPoint, SkipOpensbi
<1>7. ASSUME NEW v \in U54
      PROVE  /\ owner'[v] # 0 => v \in pending' \/ ustate'[v] # "hss"
             /\ (\E m \in queue'[v] : m.type = "OPENSBI_INIT") => owner'[v] # 0
             /\ ustate'[v] \in {"sbi", "warm", "parked", "run"} => owner'[v] # 0
             /\ \A m \in inbox'[v] : m.type # "BOOT_REQUEST"
  BY <1>1, <1>3, <1>5 DEF DomainParts, Waiting
<1>8. ASSUME NEW v \in U54, ustate'[v] = "run" \/ (ustate'[v] = "warm" /\ lottery')
      PROVE  \A w \in Domain(v)' : ustate'[w] # "hss"
  <2>1. SUFFICES \A w \in Domain(v) : ustate[w] # "hss"
    BY <1>5, <1>6
  <2>2. CASE ustate[v] = "run" \/ (ustate[v] = "warm" /\ lottery)
    BY <2>2 DEF DomainParts, Waiting
  <2>3. CASE v # u /\ ustate[v] = "warm" /\ ~lottery /\ lottery'
    <3>1. LastHartReady
      BY <2>3 DEF SbiInit, WarmBoot, HartStart, ledger
    <3>2. owner[v] # 0
      BY <2>3 DEF DomainParts, Waiting
    <3>3. QED
      BY <3>1, <3>2, NonePending
  <2>4. CASE v = u /\ SbiInit(u)
    <3>1. LastHartReady
      <4>1. ustate'[u] = x
        BY <1>5
      <4>2. x = "run" \/ (x = "warm" /\ lottery')
        BY <1>8, <2>4, <4>1
      <4>3. ustate \in [U54 -> {"hss", "goto", "sbi", "warm", "parked", "run"}]
        BY DEF TypeInv, HartOK
      <4>4. CASE ~LastHartReady /\ ~lottery /\ ustate' = [ustate EXCEPT ![u] = "warm"]
                 /\ UNCHANGED lottery
        BY <4>1, <4>2, <4>3, <4>4
      <4>5. CASE lottery /\ (owner[u] = u => LastHartReady) /\ WarmStartup(u)
        BY <4>1, <4>2, <4>3, <4>5 DEF WarmStartup
      <4>6. QED
        BY <2>4, <4>4, <4>5 DEF SbiInit
    <3>2. QED
      BY <1>3, <2>4, <3>1, NonePending
  <2>5. CASE v = u /\ HartStart(t, u)
    <3>1. ustate[t] = "run" /\ owner[t] = owner[u]
      BY <2>5 DEF HartStart
    <3>2. t \in Domain(owner[u]) /\ u \in Domain(owner[u])
      BY <1>3, <3>1 DEF DomainParts, OwnersInv
    <3>3. Domain(u) = Domain(t)
      BY <3>2 DEF Domain
    <3>4. QED
      BY <2>5, <3>1, <3>3 DEF DomainParts, Waiting
  <2>6. CASE v = u /\ WarmBoot(u)
    BY <2>2, <2>6 DEF WarmBoot
  <2>7. CASE v # u /\ ~(ustate[v] = "warm" /\ ~lottery)
    <3>1. ustate'[v] = ustate[v] /\ lottery \in BOOLEAN
      BY <1>5, <2>7 DEF TypeInv, LedgerOK
    <3>2. QED
      BY <1>8, <2>2, <2>7, <3>1
  <2>8. CASE v # u /\ ustate[v] = "warm" /\ ~lottery
    <3>1. ustate'[v] = ustate[v]
      BY <1>5, <2>8
    <3>2. QED
      BY <1>8, <2>3, <2>8, <3>1
  <2>9. QED
    BY <2>4, <2>5, <2>6, <2>7, <2>8
<1>9. Waiting'
  BY <1>7, <1>8 DEF Waiting
<1>10. QED
  BY <1>2, <1>9 DEF DomainParts

LEMMA DomainNext == TypeInv /\ DomainInv /\ [Next]_vars => DomainInv'
<1> SUFFICES ASSUME TypeInv, DomainInv, [Next]_vars, requests' = 0 PROVE DomainParts'
  BY DEF DomainInv
<1>1. requests \in Nat
  BY ScenarioType DEF TypeInv, BoundsOK
<1>2. ASSUME NEW u \in U54, NEW t \in U54, SystemReset(u) \/ EcallReboot(u) \/ RprocStart(u, t)
      PROVE  FALSE
  <2>1. requests' = requests + 1
    BY <1>2 DEF SystemReset, EcallReboot, RprocStart, BootRequest
  <2>2. QED
    BY <1>1, <2>1
<1>3. requests = 0
  <2>1. UNCHANGED requests
    BY <1>2, ImageAssumption DEF Next, vars, E51, BootMachine, U54Step, Payload, IpiPoll, TinyCli,
       RunStateMachine, InitHandler, SetupPmpHandler, SetupPmpCompleteHandler,
       ZeroInitChunksHandler, DownloadChunksHandler, OpensbiInitHandler, WaitHandler, ErrorHandler,
       CompleteHandler, IdleHandler, Timeout, ScanPmpSetup, ScanLaunch, SbiInit, WarmBoot,
       HartStart, bounds
  <2>2. QED
    BY <2>1
<1>4. DomainParts
  BY <1>3 DEF DomainInv
<1>5. CASE UNCHANGED vars
  <2>1. UNCHANGED <<state, prevState, sched, scenario, owner, pending, lottery, ustate, queue, inbox>>
    BY <1>5 DEF vars, machine, bounds, ledger, hart, toE51
  <2>2. QED
    BY <1>4, <2>1, LedgerFrame, PathFrame, WaitingFrame DEF DomainParts
<1>6. CASE E51
  BY <1>4, <1>6, DomainLoop, DomainRunStateMachine, DomainHandlers, DomainOpensbiInit
  DEF E51, BootMachine
<1>7. CASE \E h \in U54 : Timeout(h)
  BY <1>4, <1>7, DomainLoop
<1>8. ASSUME NEW u \in U54, U54Step(u) PROVE DomainParts'
  BY <1>4, <1>8, DomainScan, DomainOpensbi DEF U54Step
<1>9. ASSUME NEW u \in U54, Payload(u) PROVE DomainParts'
  BY <1>2, <1>4, <1>9, DomainOpensbi DEF Payload
<1>10. QED
  BY <1>5, <1>6, <1>7, <1>8, <1>9 DEF Next

LEMMA DomainInit == Init => DomainInv
<1> SUFFICES ASSUME Init PROVE DomainParts
  BY DEF DomainInv
<1>1. OwnersInv /\ Entered /\ Waiting
  BY DEF Init, OwnersInv, Entered, Waiting
<1>2. Path
  BY DEF Init, Path, InHandler
<1>3. QED
  BY <1>1, <1>2 DEF DomainParts

\* Whichever hart the ledger makes do the cold boot, and in whatever order the
\* machines, the ACKs and the harts come: until a payload resets something, no
\* payload of a domain runs under OpenSBI while a hart of the domain is still
\* in the HSS.
THEOREM DomainCorrect == Spec => []DomainUpTogether
<1>1. TypeInv /\ DomainInv => DomainUpTogether
  <2> SUFFICES ASSUME DomainInv, NEW u \in U54, NEW v \in U54,
                      requests = 0, ustate[u] = "run", owner[u] # 0, owner[v] = owner[u]
               PROVE  ustate[v] # "hss"
    BY DEF DomainUpTogether
  <2>1. DomainParts
    BY DEF DomainInv
  <2>2. u \in Domain(owner[u]) /\ v \in Domain(owner[u])
    BY <2>1 DEF DomainParts, OwnersInv
  <2>3. v \in Domain(u)
    BY <2>2 DEF Domain
  <2>4. QED
    BY <2>1, <2>3 DEF DomainParts, Waiting
<1>2. QED
  BY <1>1, TypeAlways, DomainInit, DomainNext, PTL DEF Spec

-----------------------------------------------------------------------------
(* No hart is launched unprotected *)

LEMMA FirstClosed ==
    /\ First \subseteq U54
    /\ \A p \in First : Peers(p) \subseteq First
BY DEF First, Started, Peers

\* HSS_Boot_RestartCores_Using_Bitmask for any harts among which are all those
\* that are never booted.
LEMMA StartedFirst ==
    ASSUME NEW mask \in SUBSET U54, U54 \ First \subseteq mask
    PROVE  Started(mask) \subseteq First
<1> SUFFICES ASSUME NEW s \in mask, \A q \in mask : q \in Peers(s) => s < q, NumChunks[s] # 0
             PROVE  Peers(s) \cup {s} \subseteq First
  BY DEF Started
<1>1. CASE s \in First
  BY <1>1, FirstClosed
<1>2. CASE s \notin First
  <2>1. ASSUME NEW q \in U54, q \in Peers(s) PROVE s < q
    <3>1. s \in Peers(q)
      BY <2>1 DEF Peers
    <3>2. q \notin First
      BY <1>2, <3>1, FirstClosed
    <3>3. QED
      BY <2>1, <3>2
  <2>2. QED
    BY <2>1 DEF First, Started
<1>3. QED
  BY <1>1, <1>2

LEMMA StartedOne ==
    ASSUME NEW h \in First
    PROVE  Started({h}) \subseteq First
BY FirstClosed DEF Started

LEMMA SameFirst ==
    ASSUME scenario' = scenario
    PROVE  First' = First
BY DEF First, Started, Peers, NumChunks, EntryPoint

\* The harts' side is left alone and no boot is requested.
LEMMA HartFrame ==
    ASSUME ProtectInv, Requested, scenario' = scenario,
           UNCHANGED <<queue, ustate, passed, pmpSetupFlag>>,
           \A u \in U54 : hartState'[u] = "Idle" \/ hartState'[u] = hartState[u],
           \A u \in U54 : inbox'[u] \subseteq inbox[u]
    PROVE  /\ \A u : Protected(u)' <=> Protected(u)
           /\ AllProtected' <=> AllProtected
           /\ ProtectInv' /\ Requested'
<1>1. \A u : Protected(u)' <=> Protected(u)
  BY DEF Protected
<1>2. AllProtected' <=> AllProtected
  BY <1>1, SameFirst DEF AllProtected
<1>3. ProtectInv'
  BY <1>1, <1>2 DEF ProtectInv
<1>4. Requested'
  BY <1>2, SameFirst DEF Requested
<1>5. QED
  BY <1>1, <1>2, <1>3, <1>4

\* A machine's own state is left alone, and so is every protection.
LEMMA LockstepFrame ==
    ASSUME Lockstep, ~AllProtected, scenario' = scenario,
           UNCHANGED <<state, prevState, sched, msgIndex, image>>,
           \A u \in U54 : Protected(u)' <=> Protected(u)
    PROVE  Lockstep'
<1>1. First' = First /\ First \subseteq U54
  BY SameFirst, FirstClosed
<1>2. \A p : (Ahead(p)' <=> Ahead(p)) /\ (InHandler(p)' <=> InHandler(p))
  BY DEF Ahead, InHandler, sched
<1>3. CASE NotStarted
  BY <1>3 DEF NotStarted, Lockstep, sched
<1>4. CASE FirstPass
  <2>1. FirstPass'
    BY <1>1, <1>2, <1>4 DEF FirstPass, sched
  <2>2. QED
    BY <2>1 DEF Lockstep
<1>5. CASE SecondPass
  <2>1. SecondPass'
    BY <1>1, <1>2, <1>5 DEF SecondPass, sched
  <2>2. QED
    BY <2>1 DEF Lockstep
<1>6. QED
  BY <1>3, <1>4, <1>5 DEF Lockstep

\* RunStateMachines goes on with the next machine.
LEMMA NextMachine ==
    ASSUME TypeInv, NEW h \in U54, turn = h, NextTurn
    PROVE  /\ turn' = h + 1 /\ phase' = "enter"
           /\ \A p \in U54 : /\ Ahead(p)' <=> h < p
                             /\ ~InHandler(p)'
                             /\ turn' > p <=> p <= h
                             /\ Ahead(p) => h <= p
                             /\ phase = "handler" => (Ahead(p) <=> h < p)
<1>1. h \in Nat /\ h > 0 /\ h <= NumU54 /\ NumU54 \in Nat /\ U54 \subseteq Nat
  BY ImageAssumption DEF U54
<1>2. turn' = h + 1 /\ phase' = "enter"
  BY <1>1 DEF NextTurn
<1>3. QED
  BY <1>1, <1>2 DEF Ahead, InHandler

\* Machine h has had its turn in the first pass, or in the second one.
LEMMA FirstStep ==
    ASSUME TypeInv, NEW h \in U54, turn = h, NextTurn, First' = First, image',
           \A p \in U54 : ~Protected(p)',
           \A p \in First :
               /\ h < p => /\ state'[p] = "INITIALIZATION"
                           /\ prevState'[p] \in {"INVALID", "IDLE", "INITIALIZATION"}
               /\ p <= h => state'[p] = "SETUP_PMP" /\ prevState'[p] = "INITIALIZATION"
    PROVE  Lockstep'
<1>1. FirstPass'
  BY NextMachine, FirstClosed DEF FirstPass
<1>2. QED
  BY <1>1 DEF Lockstep

LEMMA SecondStep ==
    ASSUME TypeInv, NEW h \in U54, turn = h, NextTurn, First' = First,
           \A p \in First :
               /\ h < p => /\ state'[p] = "SETUP_PMP" /\ prevState'[p] = "INITIALIZATION"
                           /\ ~Protected(p)'
               /\ p <= h => /\ Protected(p)' /\ prevState'[p] = "SETUP_PMP"
                            /\ state'[p] = "SETUP_PMP_COMPLETE"
    PROVE  Lockstep'
<1>1. h \in Nat /\ h <= NumU54 /\ NumU54 \in Nat /\ First \subseteq U54
      /\ \A p \in U54 : p \in Nat /\ p <= NumU54
  BY ImageAssumption, FirstClosed DEF U54
<1>2. CASE h = NumU54
  <2>1. AllProtected'
    BY <1>1, <1>2 DEF AllProtected
  <2>2. QED
    BY <2>1 DEF Lockstep
<1>3. CASE h < NumU54
  <2>1. turn' <= NumU54
    BY <1>1, <1>3, NextMachine
  <2>2. SecondPass'
    BY <1>1, <2>1, NextMachine DEF SecondPass
  <2>3. QED
    BY <2>2 DEF Lockstep
<1>4. QED
  BY <1>1, <1>2, <1>3

\* What a machine does in the passes before all harts are protected.
LEMMA PassState ==
    ASSUME LaunchInv, ~AllProtected, NEW h \in U54, InHandler(h)
    PROVE  \/ cur = "IDLE" /\ (NotStarted \/ h \notin First)
           \/ FirstPass /\ h \in First /\ cur = "INITIALIZATION"
           \/ SecondPass /\ h \in First /\ cur = "SETUP_PMP"
<1>1. CASE h \notin First
  BY <1>1 DEF LaunchInv, FirstOnly
<1>2. CASE h \in First
  BY <1>2 DEF LaunchInv, Lockstep, NotStarted, FirstPass, SecondPass, InHandler
<1>3. QED
  BY <1>1, <1>2

\* A machine that stays idle passes its turn on.
LEMMA PassOn ==
    ASSUME TypeInv, LaunchInv, ~AllProtected, NEW h \in U54, InHandler(h), cur = "IDLE", NextTurn,
           UNCHANGED <<state, prevState, image, scenario>>,
           \A u \in U54 : Protected(u)' <=> Protected(u)
    PROVE  Lockstep'
<1>1. First' = First /\ First \subseteq U54 /\ turn = h /\ phase = "handler"
  BY SameFirst, FirstClosed DEF InHandler
<1>2. CASE NotStarted
  <2>1. NotStarted'
    BY <1>2 DEF NotStarted, NextTurn
  <2>2. QED
    BY <2>1 DEF Lockstep
<1>3. CASE h \notin First
  <2>1. \A p \in U54 : (Ahead(p) <=> h < p) /\ (p \in First => p # h) /\ p \in Nat /\ h \in Nat
    BY <1>1, <1>3, NextMachine DEF U54
  <2>2. CASE FirstPass
    <3>1. \A p \in First :
             /\ h < p => /\ state'[p] = "INITIALIZATION"
                         /\ prevState'[p] \in {"INVALID", "IDLE", "INITIALIZATION"}
             /\ p <= h => state'[p] = "SETUP_PMP" /\ prevState'[p] = "INITIALIZATION"
      BY <1>1, <2>1, <2>2 DEF FirstPass
    <3>2. image' /\ \A p \in U54 : ~Protected(p)'
      BY <2>2 DEF FirstPass
    <3>3. QED
      BY <1>1, <3>1, <3>2, FirstStep
  <2>3. CASE SecondPass
    <3>1. \A p \in First :
             /\ h < p => /\ state'[p] = "SETUP_PMP" /\ prevState'[p] = "INITIALIZATION"
                         /\ ~Protected(p)'
             /\ p <= h => /\ Protected(p)' /\ prevState'[p] = "SETUP_PMP"
                          /\ state'[p] = "SETUP_PMP_COMPLETE"
      BY <1>1, <2>1, <2>3 DEF SecondPass
    <3>2. QED
      BY <1>1, <3>1, SecondStep
  <2>4. QED
    BY <1>2, <2>2, <2>3 DEF LaunchInv, Lockstep
<1>4. QED
  BY <1>2, <1>3, PassState DEF FirstPass, SecondPass, InHandler

\* The handlers of a machine that boots, but for the two that send something.
LEMMA LaunchMoves ==
    ASSUME TypeInv, LaunchInv, NEW h \in U54,
           \/ InitHandler(h) \/ SetupPmpCompleteHandler(h)
           \/ ZeroInitChunksHandler(h) \/ DownloadChunksHandler(h) \/ WaitHandler(h)
           \/ ErrorHandler(h) \/ CompleteHandler(h)
    PROVE  LaunchInv'
<1>1. /\ UNCHANGED <<prevState, scenario, image, queue, ustate, passed, pmpSetupFlag, inbox>>
      /\ turn = h /\ phase = "handler" /\ cur \notin {"IDLE", "SETUP_PMP"} /\ NextTurn
  BY DEF InitHandler, SetupPmpCompleteHandler, ZeroInitChunksHandler, DownloadChunksHandler,
     WaitHandler, ErrorHandler, CompleteHandler, Handles, bounds, hart, toE51
<1>2. \A g \in U54 : g # h => state'[g] = state[g]
  BY DEF InitHandler, SetupPmpCompleteHandler, ZeroInitChunksHandler, DownloadChunksHandler,
     WaitHandler, ErrorHandler, CompleteHandler, GoTo, TypeInv, MachineOK
<1>3. \A u \in U54 : hartState'[u] = "Idle" \/ hartState'[u] = hartState[u]
  BY DEF InitHandler, SetupPmpCompleteHandler, ZeroInitChunksHandler, DownloadChunksHandler,
     WaitHandler, ErrorHandler, CompleteHandler, hart, TypeInv, HartOK
<1>4. /\ ProtectInv' /\ Requested' /\ (AllProtected' <=> AllProtected)
      /\ \A u : Protected(u)' <=> Protected(u)
  BY <1>1, <1>3, HartFrame DEF LaunchInv
<1>5. First' = First /\ First \subseteq U54 /\ InHandler(h)
  BY <1>1, SameFirst, FirstClosed DEF InHandler
<1>6. h \in First
  BY <1>1, <1>5 DEF LaunchInv, FirstOnly
<1>7. FirstOnly'
  <2>1. \A g \in U54 \ First : g # h /\ ~InHandler(g)'
    BY <1>1, <1>6, NextMachine
  <2>2. QED
    BY <1>1, <1>2, <1>3, <1>5, <2>1 DEF LaunchInv, FirstOnly
<1>8. Lockstep'
  <2>1. CASE AllProtected
    BY <1>4, <2>1 DEF Lockstep
  <2>2. CASE ~AllProtected
    <3>1. FirstPass /\ cur = "INITIALIZATION"
      BY <1>1, <1>5, <2>2, PassState
    <3>2. state'[h] = "SETUP_PMP" /\ prevState[h] = "INITIALIZATION" /\ image
      <4>1. image /\ prevState[h] = "INITIALIZATION"
        BY <1>5, <1>6, <3>1 DEF FirstPass
      <4>2. InitHandler(h)
        BY <3>1 DEF SetupPmpCompleteHandler, ZeroInitChunksHandler, DownloadChunksHandler,
           WaitHandler, ErrorHandler, CompleteHandler, Handles
      <4>3. QED
        BY <4>1, <4>2 DEF InitHandler, GoTo, TypeInv, MachineOK
    <3>3. \A p \in U54 : (Ahead(p) <=> h < p) /\ p \in Nat /\ h \in Nat
      BY <1>1, NextMachine DEF U54
    <3>4. \A p \in First :
             /\ h < p => /\ state'[p] = "INITIALIZATION"
                         /\ prevState'[p] \in {"INVALID", "IDLE", "INITIALIZATION"}
             /\ p <= h => state'[p] = "SETUP_PMP" /\ prevState'[p] = "INITIALIZATION"
      BY <1>1, <1>2, <1>5, <3>1, <3>2, <3>3 DEF FirstPass
    <3>5. image' /\ \A p \in U54 : ~Protected(p)'
      BY <1>1, <1>4, <3>1 DEF FirstPass
    <3>6. QED
      BY <1>1, <1>5, <3>4, <3>5, FirstStep
  <2>3. QED
    BY <2>1, <2>2
<1>9. QED
  BY <1>4, <1>7, <1>8 DEF LaunchInv

LEMMA LaunchIdle ==
    ASSUME TypeInv, LaunchInv, NEW h \in U54, IdleHandler(h)
    PROVE  LaunchInv'
<1>1. /\ UNCHANGED <<prevState, scenario, image, queue, ustate, passed, pmpSetupFlag, hartState>>
      /\ turn = h /\ phase = "handler" /\ cur = "IDLE" /\ NextTurn
  BY DEF IdleHandler, Handles, bounds, hart
<1>2. \A u \in U54 : inbox'[u] \subseteq inbox[u]
  BY DEF IdleHandler, TypeInv, InboxOK
<1>3. /\ ProtectInv' /\ Requested' /\ (AllProtected' <=> AllProtected)
      /\ \A u : Protected(u)' <=> Protected(u)
  BY <1>1, <1>2, HartFrame DEF LaunchInv
<1>4. First' = First /\ First \subseteq U54 /\ InHandler(h)
  BY <1>1, SameFirst, FirstClosed DEF InHandler
<1>5. \A g \in U54 : ~InHandler(g)'
  BY <1>1, NextMachine
<1>6. CASE UNCHANGED state
  <2>1. FirstOnly'
    BY <1>1, <1>4, <1>5, <1>6 DEF LaunchInv, FirstOnly
  <2>2. Lockstep'
    BY <1>1, <1>3, <1>4, <1>6, PassOn DEF Lockstep
  <2>3. QED
    BY <1>3, <2>1, <2>2 DEF LaunchInv
<1>7. ASSUME NEW m \in inbox[h], m.type = "BOOT_REQUEST",
             \/ m.target = 0 /\ state' = Restart(state, Started({h}))
             \/ /\ m.target # 0
                /\ state' = Restart([state EXCEPT ![m.target] = "OPENSBI_INIT"], Started({m.target}))
      PROVE  LaunchInv'
  <2>1. h \in First /\ AllProtected /\ (m.target # 0 => m.target \in First)
    BY <1>7 DEF LaunchInv, Requested
  <2>2. \A g \in U54 \ First : state'[g] = state[g]
    <3>1. CASE m.target = 0
      BY <1>7, <2>1, <3>1, StartedOne DEF Restart
    <3>2. CASE m.target # 0
      <4>1. Started({m.target}) \subseteq First
        BY <2>1, <3>2, StartedOne
      <4>2. state' = Restart([state EXCEPT ![m.target] = "OPENSBI_INIT"], Started({m.target}))
        BY <1>7, <3>2
      <4>3. QED
        BY <2>1, <3>2, <4>1, <4>2 DEF Restart, TypeInv, MachineOK
    <3>3. QED
      BY <3>1, <3>2
  <2>3. FirstOnly'
    BY <1>1, <1>4, <1>5, <2>2 DEF LaunchInv, FirstOnly
  <2>4. QED
    BY <1>3, <2>1, <2>3 DEF LaunchInv, Lockstep
<1>8. QED
  BY <1>6, <1>7 DEF IdleHandler

\* A boot command starts the machines of First, and only those; before any
\* hart is protected it starts all of them.
LEMMA LaunchTinyCli ==
    ASSUME TypeInv, LaunchInv, TinyCli
    PROVE  LaunchInv'
<1> DEFINE idle == {h \in U54 : hartState[h] = "Idle"}
<1>1. /\ UNCHANGED <<prevState, scenario, queue, ustate, passed, pmpSetupFlag, hartState, inbox>>
      /\ turn = NumU54 + 1 /\ NextTurn
  BY DEF TinyCli, hart, toE51
<1>2. UNCHANGED state \/ (image' = TRUE /\ state' = Restart(state, Started(idle)))
  BY Zenon DEF TinyCli
<1>3. /\ ProtectInv' /\ Requested' /\ (AllProtected' <=> AllProtected)
      /\ \A u : Protected(u)' <=> Protected(u)
  BY <1>1, HartFrame DEF LaunchInv
<1>4. /\ First' = First /\ First \subseteq U54 /\ turn' = 0 /\ phase' = "enter"
      /\ NumU54 \in Nat \ {0} /\ \A p \in U54 : p \in Nat /\ 0 < p /\ p < turn
  <2>1. (NumU54 + 1 + 1) % (NumU54 + 2) = 0
    BY ImageAssumption
  <2>2. QED
    BY <1>1, <2>1, SameFirst, FirstClosed, ImageAssumption DEF NextTurn, U54
<1>5. FirstOnly'
  <2>1. U54 \ First \subseteq idle
    BY DEF LaunchInv, FirstOnly
  <2>2. Started(idle) \subseteq First
    BY <2>1, StartedFirst
  <2> HIDE DEF idle
  <2>3. \A g \in U54 \ First : state'[g] = state[g]
    BY <1>2, <2>2 DEF Restart
  <2>4. QED
    BY <1>1, <1>4, <2>3 DEF LaunchInv, FirstOnly, InHandler
<1>6. Lockstep'
  <2>1. CASE AllProtected
    BY <1>3, <2>1 DEF Lockstep
  <2>2. ASSUME ~AllProtected, \A u \in U54 : ~Protected(u), image' = TRUE,
               state' = Restart(state, Started(idle)),
               \A p \in First : /\ state[p] # "OPENSBI_INIT"
                                /\ prevState[p] \in {"INVALID", "IDLE", "INITIALIZATION"}
        PROVE  Lockstep'
    <3>1. idle = U54
      BY <2>2 DEF LaunchInv, ProtectInv
    <3>2. state' = Restart(state, First)
      BY <2>2, <3>1 DEF First
    <3>3. FirstPass'
      BY <1>1, <1>3, <1>4, <2>2, <3>2 DEF FirstPass, Restart, Ahead, InHandler
    <3>4. QED
      BY <3>3 DEF Lockstep
  <2>3. CASE NotStarted /\ ~AllProtected
    <3>1. CASE UNCHANGED state
      <4>1. NotStarted'
        BY <1>1, <1>3, <1>4, <2>3, <3>1 DEF NotStarted
      <4>2. QED
        BY <4>1 DEF Lockstep
    <3>2. CASE image' = TRUE /\ state' = Restart(state, Started(idle))
      BY <1>4, <2>2, <2>3, <3>2 DEF NotStarted
    <3>3. QED
      BY <1>2, <3>1, <3>2
  <2>4. CASE FirstPass /\ ~AllProtected
    <3>1. \A p \in First : state[p] = "SETUP_PMP" /\ prevState[p] = "INITIALIZATION"
      BY <1>4, <2>4 DEF FirstPass
    <3>2. CASE UNCHANGED state
      <4>1. SecondPass'
        BY <1>1, <1>3, <1>4, <2>4, <3>1, <3>2 DEF FirstPass, SecondPass, Ahead, InHandler
      <4>2. QED
        BY <4>1 DEF Lockstep
    <3>3. CASE image' = TRUE /\ state' = Restart(state, Started(idle))
      BY <2>2, <2>4, <3>1, <3>3 DEF FirstPass
    <3>4. QED
      BY <1>2, <3>2, <3>3
  <2>5. ~SecondPass
    BY <1>1, <1>4 DEF SecondPass
  <2>6. QED
    BY <2>1, <2>3, <2>4, <2>5 DEF LaunchInv, Lockstep
<1>7. QED
  BY <1>3, <1>5, <1>6 DEF LaunchInv

LEMMA LaunchIpiPoll ==
    ASSUME TypeInv, LaunchInv, IpiPoll
    PROVE  LaunchInv'
<1>1. /\ UNCHANGED <<state, prevState, image, scenario, queue, ustate, passed, pmpSetupFlag, hartState>>
      /\ turn = 0 /\ NextTurn
  BY DEF IpiPoll, hart, bounds, machine
<1>2. \A u \in U54 : inbox'[u] \subseteq inbox[u]
  BY DEF IpiPoll
<1>3. /\ ProtectInv' /\ Requested' /\ (AllProtected' <=> AllProtected)
      /\ \A u : Protected(u)' <=> Protected(u)
  BY <1>1, <1>2, HartFrame DEF LaunchInv
<1>4. /\ First' = First /\ First \subseteq U54 /\ turn' = 1 /\ phase' = "enter"
      /\ NumU54 \in Nat \ {0} /\ \A p \in U54 : p \in Nat /\ 0 < p
  <2>1. (0 + 1) % (NumU54 + 2) = 1
    BY ImageAssumption
  <2>2. QED
    BY <1>1, <2>1, SameFirst, FirstClosed, ImageAssumption DEF NextTurn, U54
<1>5. FirstOnly'
  BY <1>1, <1>4 DEF LaunchInv, FirstOnly, InHandler
<1>6. Lockstep'
  <2>1. CASE AllProtected
    BY <1>3, <2>1 DEF Lockstep
  <2>2. CASE NotStarted
    <3>1. NotStarted'
      BY <1>1, <1>3, <1>4, <2>2 DEF NotStarted
    <3>2. QED
      BY <3>1 DEF Lockstep
  <2>3. CASE FirstPass
    <3>1. FirstPass'
      BY <1>1, <1>3, <1>4, <2>3 DEF FirstPass, Ahead, InHandler
    <3>2. QED
      BY <3>1 DEF Lockstep
  <2>4. CASE SecondPass
    <3>1. SecondPass'
      BY <1>1, <1>3, <1>4, <2>4 DEF SecondPass, Ahead, InHandler
    <3>2. QED
      BY <3>1 DEF Lockstep
  <2>5. QED
    BY <2>1, <2>2, <2>3, <2>4 DEF LaunchInv, Lockstep
<1>7. QED
  BY <1>3, <1>5, <1>6 DEF LaunchInv

\* One message m for hart u: a PMP request, or any other once all harts are
\* protected.
LEMMA ProtectSend ==
    ASSUME TypeInv, LaunchInv, NEW u \in First, NEW m, scenario' = scenario,
           queue' = queue \/ queue' = [queue EXCEPT ![u] = queue[u] \cup {m}],
           m.type = "PMP_SETUP" \/ AllProtected,
           UNCHANGED <<ustate, passed, pmpSetupFlag, hartState, inbox>>
    PROVE  /\ ProtectInv' /\ Requested'
           /\ AllProtected => AllProtected'
           /\ \A v \in U54 : v # u => (Protected(v)' <=> Protected(v)) /\ queue'[v] = queue[v]
<1>1. First' = First /\ First \subseteq U54 /\ queue \in [U54 -> SUBSET ToU54Msg]
  BY SameFirst, FirstClosed DEF TypeInv, QueueOK
<1>2. \A v \in U54 : v # u => queue'[v] = queue[v]
  BY <1>1
<1>3. queue'[u] = queue[u] \/ queue'[u] = queue[u] \cup {m}
  BY <1>1
<1>4. \A v \in U54 : v # u => (Protected(v)' <=> Protected(v))
  BY <1>2 DEF Protected
<1>5. Protected(u) => Protected(u)'
  BY <1>3 DEF Protected
<1>6. AllProtected => AllProtected'
  BY <1>1, <1>4, <1>5 DEF AllProtected
<1>7. ASSUME NEW v \in U54
      PROVE  /\ queue'[v] # {} => Protected(v)'
             /\ passed'[v] => pmpSetupFlag'[v]
             /\ ustate'[v] # "hss" => pmpSetupFlag'[v] /\ AllProtected'
             /\ hartState'[v] # "Idle" => Protected(v)'
             /\ (\E x \in queue'[v] : x.type # "PMP_SETUP") => AllProtected'
  <2>1. CASE v # u
    BY <1>2, <1>4, <1>6, <2>1 DEF LaunchInv, ProtectInv
  <2>2. CASE v = u
    <3>1. queue'[u] # {} => Protected(u)'
      <4>1. CASE queue'[u] = queue[u]
        BY <1>1, <1>5, <4>1 DEF LaunchInv, ProtectInv
      <4>2. CASE queue'[u] = queue[u] \cup {m}
        <5>1. CASE m.type = "PMP_SETUP"
          BY <4>2, <5>1 DEF Protected
        <5>2. CASE AllProtected
          BY <1>6, <5>2, <1>1 DEF AllProtected
        <5>3. QED
          BY <5>1, <5>2
      <4>3. QED
        BY <1>3, <4>1, <4>2
    <3>2. (\E x \in queue'[u] : x.type # "PMP_SETUP") => AllProtected'
      BY <1>1, <1>3, <1>6 DEF LaunchInv, ProtectInv
    <3>3. QED
      BY <1>5, <1>6, <2>2, <3>1, <3>2 DEF LaunchInv, ProtectInv
  <2>3. QED
    BY <2>1, <2>2
<1>8. ProtectInv'
  BY <1>7 DEF ProtectInv
<1>9. Requested'
  BY <1>1, <1>6 DEF LaunchInv, Requested
<1>10. QED
  BY <1>2, <1>4, <1>6, <1>8, <1>9

LEMMA LaunchSetupPmp ==
    ASSUME TypeInv, LaunchInv, NEW h \in U54, SetupPmpHandler(h)
    PROVE  LaunchInv'
<1> DEFINE m == [type |-> "PMP_SETUP", tx |-> myTx[0]]
<1>1. /\ UNCHANGED <<prevState, scenario, ustate, passed, pmpSetupFlag, hartState, inbox>>
      /\ turn = h /\ phase = "handler" /\ cur = "SETUP_PMP" /\ NextTurn
  BY DEF SetupPmpHandler, Handles, bounds, hart, toE51
<1>2. First' = First /\ First \subseteq U54 /\ InHandler(h) /\ \A g \in U54 : ~InHandler(g)'
  BY <1>1, SameFirst, FirstClosed, NextMachine DEF InHandler
<1>3. h \in First
  BY <1>1, <1>2 DEF LaunchInv, FirstOnly
<1>4. m.type = "PMP_SETUP"
  OBVIOUS
<1>5. queue' = queue \/ queue' = [queue EXCEPT ![h] = queue[h] \cup {m}]
  BY DEF SetupPmpHandler, Deliver, TypeInv, QueueOK
<1> HIDE DEF m
<1>6. /\ ProtectInv' /\ Requested'
      /\ AllProtected => AllProtected'
      /\ \A v \in U54 : v # h => (Protected(v)' <=> Protected(v)) /\ queue'[v] = queue[v]
  BY <1>1, <1>3, <1>4, <1>5, ProtectSend
<1>7. \A g \in U54 : g # h => state'[g] = state[g]
  BY DEF SetupPmpHandler, GoTo, TypeInv, MachineOK
<1>8. FirstOnly'
  BY <1>1, <1>2, <1>3, <1>6, <1>7 DEF LaunchInv, FirstOnly
<1>9. Lockstep'
  <2>1. CASE AllProtected
    BY <1>6, <2>1 DEF Lockstep
  <2>2. CASE ~AllProtected
    <3>1. SecondPass
      BY <1>1, <1>2, <2>2, PassState
    <3>2. msgIndex[h] = K /\ ~Protected(h) /\ prevState[h] = "SETUP_PMP"
      BY <1>2, <1>3, <3>1 DEF SecondPass
    <3>3. queue[h] = {}
      BY <3>2 DEF LaunchInv, ProtectInv
    <3>4. Sent(h)
      BY <3>3, FS_EmptySet, ImageAssumption DEF Sent
    <3>5. state'[h] = "SETUP_PMP_COMPLETE" /\ queue'[h] = queue[h] \cup {m}
      BY <3>2, <3>4 DEF SetupPmpHandler, Deliver, GoTo, TypeInv, MachineOK, QueueOK, m
    <3>6. Protected(h)'
      BY <1>4, <3>5 DEF Protected
    <3>7. \A p \in U54 : (Ahead(p) <=> h < p) /\ p \in Nat /\ h \in Nat
      BY <1>1, NextMachine DEF U54
    <3>8. \A p \in First :
             /\ h < p => /\ state'[p] = "SETUP_PMP" /\ prevState'[p] = "INITIALIZATION"
                         /\ ~Protected(p)'
             /\ p <= h => /\ Protected(p)' /\ prevState'[p] = "SETUP_PMP"
                          /\ state'[p] = "SETUP_PMP_COMPLETE"
      BY <1>1, <1>2, <1>6, <1>7, <3>1, <3>2, <3>5, <3>6, <3>7 DEF SecondPass
    <3>9. QED
      BY <1>1, <1>2, <3>8, SecondStep
  <2>3. QED
    BY <2>1, <2>2
<1>10. QED
  BY <1>6, <1>8, <1>9 DEF LaunchInv

\* common_boot_message_delivery, once all harts are protected.
LEMMA LaunchProtects ==
    ASSUME TypeInv, LaunchInv, NEW h \in U54, NEW u \in First, Launch(h, u), AllProtected,
           scenario' = scenario, UNCHANGED <<ustate, passed, pmpSetupFlag, hartState, inbox>>
    PROVE  /\ ProtectInv' /\ Requested' /\ AllProtected'
           /\ \A v \in U54 : v # u => queue'[v] = queue[v]
           /\ \A g \in U54 : g # h => state'[g] = state[g]
<1>1. PICK m : queue' = queue \/ queue' = [queue EXCEPT ![u] = queue[u] \cup {m}]
  BY FirstClosed DEF Launch, Deliver, TypeInv, QueueOK
<1>2. \A g \in U54 : g # h => state'[g] = state[g]
  BY DEF Launch, TypeInv, MachineOK
<1>3. QED
  BY <1>1, <1>2, ProtectSend

LEMMA LaunchOpensbiInit ==
    ASSUME TypeInv, LaunchInv, NEW h \in U54, OpensbiInitHandler(h)
    PROVE  LaunchInv'
<1>1. /\ UNCHANGED <<prevState, scenario, ustate, passed, pmpSetupFlag, hartState, inbox>>
      /\ turn = h /\ phase = "handler" /\ cur = "OPENSBI_INIT" /\ NextTurn
  BY DEF OpensbiInitHandler, Handles, bounds, hart, toE51
<1>2. First' = First /\ First \subseteq U54 /\ InHandler(h) /\ \A g \in U54 : ~InHandler(g)'
  BY <1>1, SameFirst, FirstClosed, NextMachine DEF InHandler
<1>3. h \in First
  BY <1>1, <1>2 DEF LaunchInv, FirstOnly
<1>4. AllProtected
  BY <1>1, <1>2, PassState
<1>5. /\ ProtectInv' /\ Requested' /\ AllProtected'
      /\ \A v \in U54 \ First : queue'[v] = queue[v]
      /\ \A g \in U54 : g # h => state'[g] = state[g]
  <2>1. CASE UNCHANGED queue
    <3>1. ProtectInv' /\ Requested' /\ AllProtected'
      BY <1>1, <1>4, <2>1, HartFrame DEF LaunchInv
    <3>2. \A g \in U54 : g # h => state'[g] = state[g]
      BY DEF OpensbiInitHandler, Launch, GoTo, TypeInv, MachineOK
    <3>3. QED
      BY <2>1, <3>1, <3>2
  <2>2. CASE iterator[h] + 1 \in Peers(h) /\ Launch(h, iterator[h] + 1)
    <3>1. iterator[h] + 1 \in First
      BY <1>3, <2>2, FirstClosed
    <3>2. QED
      BY <1>1, <1>4, <2>2, <3>1, LaunchProtects
  <2>3. QED
    BY <2>1, <2>2 DEF OpensbiInitHandler
<1>6. FirstOnly'
  BY <1>1, <1>2, <1>3, <1>5 DEF LaunchInv, FirstOnly
<1>7. QED
  BY <1>5, <1>6 DEF LaunchInv, Lockstep

LEMMA LaunchRunStateMachine ==
    ASSUME TypeInv, LaunchInv, NEW h \in U54, RunStateMachine(h)
    PROVE  LaunchInv'
<1> DEFINE moved == prevState[h] # state[h]
<1>1. /\ UNCHANGED <<scenario, ustate, passed, pmpSetupFlag, hartState, inbox, turn, image>>
      /\ turn = h /\ phase = "enter" /\ phase' = "handler" /\ cur' = state[h]
      /\ prevState' = [prevState EXCEPT ![h] = IF moved THEN state'[h] ELSE prevState[h]]
  BY DEF RunStateMachine, bounds, hart, toE51
<1>2. /\ state \in [U54 -> BootState] /\ prevState \in [U54 -> BootState \cup {"INVALID"}]
      /\ First' = First /\ First \subseteq U54 /\ Ahead(h)
  BY <1>1, SameFirst, FirstClosed DEF TypeInv, MachineOK, Ahead
<1>3. /\ prevState'[h] = IF moved THEN state'[h] ELSE prevState[h]
      /\ \A g \in U54 : g # h => prevState'[g] = prevState[g]
  BY <1>1, <1>2
<1>4. \A p \in U54 : /\ Ahead(p)' => Ahead(p) /\ p # h
                     /\ InHandler(p)' => p = h
                     /\ turn' > p => turn > p /\ p # h
  BY <1>1 DEF Ahead, InHandler, U54
<1>5. CASE prevState[h] = "OPENSBI_INIT" /\ Launch(h, h)
  <2>1. h \in First
    BY <1>5 DEF LaunchInv, FirstOnly
  <2>2. AllProtected
    BY <1>2, <1>5, <2>1 DEF LaunchInv, Lockstep, NotStarted, FirstPass, SecondPass
  <2>3. /\ ProtectInv' /\ Requested' /\ AllProtected'
        /\ \A v \in U54 : v # h => queue'[v] = queue[v] /\ state'[v] = state[v]
    BY <1>1, <1>5, <2>1, <2>2, LaunchProtects
  <2>4. FirstOnly'
    BY <1>1, <1>2, <1>3, <1>4, <2>1, <2>3 DEF LaunchInv, FirstOnly
  <2>5. QED
    BY <2>3, <2>4 DEF LaunchInv, Lockstep
<1>6. CASE /\ UNCHANGED <<state, queue>>
           /\ moved /\ state[h] = "SETUP_PMP" => RegisterHarts(h) \/ prevState[h] = "OPENSBI_INIT"
  <2>1. /\ ProtectInv' /\ Requested' /\ (AllProtected' <=> AllProtected)
        /\ \A u : Protected(u)' <=> Protected(u)
    BY <1>1, <1>6, HartFrame DEF LaunchInv
  <2>2. prevState'[h] = state[h]
    BY <1>3, <1>6
  <2>3. FirstOnly'
    BY <1>1, <1>2, <1>3, <1>4, <1>6, <2>2 DEF LaunchInv, FirstOnly
  <2>4. CASE AllProtected
    BY <2>1, <2>3, <2>4 DEF LaunchInv, Lockstep
  <2>5. CASE NotStarted
    <3>1. NotStarted'
      BY <1>1, <1>3, <1>6, <2>1, <2>2, <2>5 DEF NotStarted
    <3>2. QED
      BY <2>1, <2>3, <3>1 DEF LaunchInv, Lockstep
  <2>6. CASE FirstPass
    <3>1. ASSUME NEW p \in First
          PROVE  /\ Ahead(p)' => /\ state'[p] = "INITIALIZATION"
                                 /\ prevState'[p] \in {"INVALID", "IDLE", "INITIALIZATION"}
                 /\ InHandler(p)' => cur' = "INITIALIZATION" /\ prevState'[p] = "INITIALIZATION"
                 /\ turn' > p => state'[p] = "SETUP_PMP" /\ prevState'[p] = "INITIALIZATION"
      BY <1>1, <1>2, <1>3, <1>4, <1>6, <2>2, <2>6 DEF FirstPass
    <3>2. FirstPass'
      BY <1>1, <1>2, <2>1, <2>6, <3>1 DEF FirstPass
    <3>3. QED
      BY <2>1, <2>3, <3>2 DEF LaunchInv, Lockstep
  <2>7. CASE SecondPass
    <3>1. ASSUME NEW p \in First
          PROVE  /\ Ahead(p)' => /\ state'[p] = "SETUP_PMP" /\ prevState'[p] = "INITIALIZATION"
                                 /\ ~Protected(p)'
                 /\ turn' > p => /\ Protected(p)' /\ prevState'[p] = "SETUP_PMP"
                                 /\ state'[p] = "SETUP_PMP_COMPLETE"
      BY <1>1, <1>2, <1>3, <1>4, <1>6, <2>1, <2>7 DEF SecondPass
    <3>2. ASSUME h \in First
          PROVE  /\ cur' = "SETUP_PMP" /\ prevState'[h] = "SETUP_PMP"
                 /\ state'[h] = "SETUP_PMP" /\ msgIndex'[h] = K /\ ~Protected(h)'
      <4>1. state[h] = "SETUP_PMP" /\ prevState[h] = "INITIALIZATION" /\ ~Protected(h)
        BY <1>2, <2>7, <3>2 DEF SecondPass
      <4>2. RegisterHarts(h)
        BY <1>6, <4>1
      <4>3. msgIndex'[h] = K
        BY <4>2 DEF RegisterHarts, ForgetIndices, TypeInv, IndexOK
      <4>4. QED
        BY <1>1, <1>6, <2>1, <2>2, <4>1, <4>3
    <3>3. SecondPass'
      BY <1>1, <1>2, <1>4, <2>7, <3>1, <3>2 DEF SecondPass
    <3>4. QED
      BY <2>1, <2>3, <3>3 DEF LaunchInv, Lockstep
  <2>8. QED
    BY <2>4, <2>5, <2>6, <2>7 DEF LaunchInv, Lockstep
<1>7. QED
  BY <1>5, <1>6 DEF RunStateMachine

\* HSS_U54_HandleIPI.
LEMMA LaunchScanPmpSetup ==
    ASSUME TypeInv, LaunchInv, NEW u \in U54, ScanPmpSetup(u)
    PROVE  LaunchInv'
<1>1. /\ UNCHANGED <<state, prevState, sched, msgIndex, image, scenario, ustate>>
      /\ passed' = [passed EXCEPT ![u] = TRUE] /\ queue[u] # {}
  BY DEF ScanPmpSetup, machine, bounds
<1>2. First' = First /\ First \subseteq U54 /\ u \in First /\ Protected(u)
  BY <1>1, SameFirst, FirstClosed DEF LaunchInv, FirstOnly, ProtectInv
<1>3. /\ queue \in [U54 -> SUBSET ToU54Msg] /\ passed \in [U54 -> BOOLEAN]
      /\ pmpSetupFlag \in [U54 -> BOOLEAN]
      /\ hartState \in [U54 -> {"Idle", "Booting", "Running"}]
  BY DEF TypeInv, QueueOK, HartOK
<1>4. /\ \A v \in U54 : v # u => /\ queue'[v] = queue[v] /\ pmpSetupFlag'[v] = pmpSetupFlag[v]
                                 /\ hartState'[v] = hartState[v] /\ passed'[v] = passed[v]
      /\ queue'[u] \subseteq queue[u]
      /\ \A v \in U54 : pmpSetupFlag[v] => pmpSetupFlag'[v]
  BY <1>1, <1>3 DEF ScanPmpSetup
<1>5. pmpSetupFlag'[u]
  <2>1. CASE {m \in queue[u] : m.type = "PMP_SETUP"} = {}
    BY <1>2, <1>4, <2>1 DEF Protected
  <2>2. CASE pmpSetupFlag' = [pmpSetupFlag EXCEPT ![u] = TRUE]
    BY <1>3, <2>2
  <2>3. QED
    BY <2>1, <2>2 DEF ScanPmpSetup
<1>6. \A v \in U54 : Protected(v)' <=> Protected(v)
  BY <1>2, <1>4, <1>5 DEF Protected
<1>7. AllProtected' <=> AllProtected
  BY <1>2, <1>6 DEF AllProtected
<1>8. ProtectInv'
  BY <1>1, <1>2, <1>4, <1>5, <1>6, <1>7 DEF LaunchInv, ProtectInv
<1>9. FirstOnly'
  <2>1. \A g : InHandler(g)' <=> InHandler(g)
    BY <1>1 DEF InHandler, sched
  <2>2. QED
    BY <1>1, <1>2, <1>4, <2>1 DEF LaunchInv, FirstOnly, sched
<1>10. ASSUME NEW v \in U54, NEW m \in inbox'[v], m.type = "BOOT_REQUEST" PROVE m \in inbox[v]
  BY <1>10, AckPosted DEF ScanPmpSetup
<1>11. Requested'
  BY <1>2, <1>7, <1>10 DEF LaunchInv, Requested
<1>12. Lockstep'
  <2>1. CASE AllProtected
    BY <1>7, <2>1 DEF Lockstep
  <2>2. CASE ~AllProtected
    BY <1>1, <1>6, <2>2, LockstepFrame DEF LaunchInv
  <2>3. QED
    BY <2>1, <2>2
<1>13. QED
  BY <1>8, <1>9, <1>11, <1>12 DEF LaunchInv

\* A step of protected harts, after all harts of First have been protected.
LEMMA HartSteps ==
    ASSUME TypeInv, LaunchInv, AllProtected, scenario' = scenario,
           UNCHANGED <<state, prevState, sched, pmpSetupFlag>>,
           \A v \in U54 : /\ queue'[v] = queue[v] \/ (queue'[v] \subseteq queue[v] /\ pmpSetupFlag[v])
                          /\ passed'[v] => passed[v]
                          /\ ustate'[v] # "hss" => ustate[v] # "hss" \/ (pmpSetupFlag[v] /\ v \in First)
                          /\ hartState'[v] # "Idle" =>
                                hartState[v] # "Idle" \/ (pmpSetupFlag[v] /\ v \in First),
           \A v \in U54 : \A m \in inbox'[v] : m.type = "BOOT_REQUEST" =>
               m \in inbox[v] \/ (v \in First /\ (m.target # 0 => m.target \in First))
    PROVE  LaunchInv'
<1>1. First' = First /\ First \subseteq U54
  BY SameFirst, FirstClosed
<1>2. \A v \in U54 : Protected(v) => Protected(v)'
  BY DEF Protected
<1>3. AllProtected'
  BY <1>1, <1>2 DEF AllProtected
<1>4. ProtectInv'
  <2>1. ASSUME NEW v \in U54
        PROVE  /\ queue'[v] # {} => Protected(v)'
               /\ passed'[v] => pmpSetupFlag'[v]
               /\ ustate'[v] # "hss" => pmpSetupFlag'[v]
               /\ hartState'[v] # "Idle" => Protected(v)'
    <3>1. pmpSetupFlag'[v] => Protected(v)'
      BY DEF Protected
    <3>2. QED
      BY <1>2, <3>1 DEF LaunchInv, ProtectInv
  <2>2. QED
    BY <1>3, <2>1 DEF ProtectInv
<1>5. FirstOnly'
  <2>1. \A g : InHandler(g)' <=> InHandler(g)
    BY DEF InHandler, sched
  <2>2. ASSUME NEW g \in U54 \ First
        PROVE  queue'[g] = {} /\ ustate'[g] = "hss" /\ hartState'[g] = "Idle"
    BY <2>2 DEF LaunchInv, FirstOnly
  <2>3. QED
    BY <1>1, <2>1, <2>2 DEF LaunchInv, FirstOnly, sched
<1>6. Requested'
  BY <1>1, <1>3 DEF LaunchInv, Requested
<1>7. QED
  BY <1>3, <1>4, <1>5, <1>6 DEF LaunchInv, Lockstep

LEMMA LaunchScanLaunch ==
    ASSUME TypeInv, LaunchInv, NEW u \in U54, ScanLaunch(u)
    PROVE  LaunchInv'
<1>1. /\ UNCHANGED <<state, prevState, sched, msgIndex, image, scenario, pmpSetupFlag>>
      /\ passed' = [passed EXCEPT ![u] = FALSE] /\ passed[u]
  BY DEF ScanLaunch, AtLaunchIntents, machine, bounds
<1>2. pmpSetupFlag[u] /\ First' = First /\ First \subseteq U54
  BY <1>1, SameFirst, FirstClosed DEF LaunchInv, ProtectInv
<1>3. \A v \in U54 : passed'[v] => passed[v]
  BY <1>1 DEF TypeInv, HartOK
<1>4. CASE UNCHANGED <<queue, toE51, ustate, hartState>>
  <2>1. \A v \in U54 : Protected(v)' <=> Protected(v)
    BY <1>1, <1>4 DEF Protected
  <2>2. AllProtected' <=> AllProtected
    BY <1>2, <2>1 DEF AllProtected
  <2>3. ProtectInv'
    BY <1>1, <1>3, <1>4, <2>1, <2>2 DEF LaunchInv, ProtectInv
  <2>4. FirstOnly' /\ Requested'
    <3>1. \A g : InHandler(g)' <=> InHandler(g)
      BY <1>1 DEF InHandler, sched
    <3>2. FirstOnly'
      BY <1>1, <1>2, <1>4, <3>1 DEF LaunchInv, FirstOnly, sched
    <3>3. Requested'
      BY <1>2, <1>4, <2>2 DEF LaunchInv, Requested, toE51
    <3>4. QED
      BY <3>2, <3>3
  <2>5. Lockstep'
    <3>1. CASE AllProtected
      BY <2>2, <3>1 DEF Lockstep
    <3>2. CASE ~AllProtected
      BY <1>1, <2>1, <3>2, LockstepFrame DEF LaunchInv
    <3>3. QED
      BY <3>1, <3>2
  <2>6. QED
    BY <2>3, <2>4, <2>5 DEF LaunchInv
<1>5. ASSUME NEW m \in queue[u], m.type \in {"GOTO", "OPENSBI_INIT"},
             queue' = [queue EXCEPT ![u] = queue[u] \ {m}], Post(u, AckComplete(m.tx))
      PROVE  LaunchInv'
  <2>1. AllProtected /\ u \in First
    BY <1>5 DEF LaunchInv, ProtectInv, FirstOnly
  <2>2. \A v \in U54 : /\ queue'[v] = queue[v] \/ (queue'[v] \subseteq queue[v] /\ pmpSetupFlag[v])
                       /\ v # u => ustate'[v] = ustate[v] /\ hartState'[v] = hartState[v]
    BY <1>2, <1>5 DEF ScanLaunch, TypeInv, QueueOK, HartOK
  <2>3. \A v \in U54 : \A x \in inbox'[v] : x.type = "BOOT_REQUEST" => x \in inbox[v]
    BY <1>5, AckPosted
  <2>4. QED
    BY <1>1, <1>2, <1>3, <2>1, <2>2, <2>3, HartSteps
<1>6. QED
  BY <1>4, <1>5 DEF ScanLaunch

LEMMA LaunchOpensbi ==
    ASSUME TypeInv, LaunchInv, NEW u \in U54, NEW t \in U54,
           SbiInit(u) \/ WarmBoot(u) \/ HartStart(t, u)
    PROVE  LaunchInv'
<1>1. /\ UNCHANGED <<state, prevState, sched, scenario, pmpSetupFlag, queue, inbox, passed>>
      /\ ustate[u] # "hss"
  BY DEF SbiInit, WarmBoot, HartStart, machine, bounds, toE51
<1>2. AllProtected /\ pmpSetupFlag[u] /\ u \in First
  BY <1>1 DEF LaunchInv, ProtectInv, FirstOnly
<1>3. \A v \in U54 : v # u => ustate'[v] = ustate[v] /\ hartState'[v] = hartState[v]
  BY DEF SbiInit, WarmBoot, HartStart, WarmStartup, Runs, TypeInv, HartOK
<1>4. QED
  BY <1>1, <1>2, <1>3, HartSteps

\* Only the contexts that a boot command has started are started by remoteproc.
LEMMA LaunchPayload ==
    ASSUME TypeInv, LaunchInv, ContextsStarted, NEW u \in U54, NEW t \in U54,
           SystemReset(u) \/ EcallReboot(u) \/ RprocStart(u, t)
    PROVE  LaunchInv'
<1>1. UNCHANGED <<state, prevState, sched, scenario, pmpSetupFlag, queue>> /\ ustate[u] = "run"
  BY DEF SystemReset, EcallReboot, RprocStart, BootRequest, machine, hart
<1>2. AllProtected /\ u \in First
  BY <1>1 DEF LaunchInv, ProtectInv, FirstOnly
<1>3. \A v \in U54 : /\ passed'[v] => passed[v]
                     /\ ustate'[v] # "hss" => ustate[v] # "hss"
                     /\ hartState'[v] # "Idle" => hartState[v] # "Idle"
  BY DEF SystemReset, EcallReboot, RprocStart, hart, TypeInv, HartOK
<1>4. ASSUME NEW v \in U54, NEW m \in inbox'[v], m.type = "BOOT_REQUEST"
      PROVE  m \in inbox[v] \/ (v \in First /\ (m.target # 0 => m.target \in First))
  <2>1. CASE UNCHANGED toE51
    BY <2>1 DEF toE51
  <2>2. CASE \E x \in First \cup {0} :
                Post(u, [type |-> "BOOT_REQUEST", tx |-> myTx[u], target |-> x])
    <3>1. PICK x \in First \cup {0} :
                Post(u, [type |-> "BOOT_REQUEST", tx |-> myTx[u], target |-> x])
      BY <2>2
    <3>2. m \in inbox[v] \/ (v = u /\ m = [type |-> "BOOT_REQUEST", tx |-> myTx[u], target |-> x])
      BY <3>1 DEF Post, TypeInv, InboxOK
    <3>3. QED
      BY <1>2, <3>2
  <2>3. QED
    BY <2>1, <2>2 DEF SystemReset, EcallReboot, RprocStart, BootRequest, ContextsStarted
<1>5. QED
  BY <1>1, <1>2, <1>3, <1>4, HartSteps

LEMMA LaunchTimeout ==
    ASSUME TypeInv, LaunchInv, \/ UNCHANGED vars \/ \E h \in U54 : Timeout(h)
    PROVE  LaunchInv'
<1>1. UNCHANGED <<state, prevState, sched, msgIndex, image, scenario, queue, ustate, passed,
                  pmpSetupFlag, hartState, inbox>>
  BY DEF vars, Timeout, machine, bounds, hart, toE51
<1>2. /\ ProtectInv' /\ Requested' /\ (AllProtected' <=> AllProtected)
      /\ \A u : Protected(u)' <=> Protected(u)
  BY <1>1, HartFrame DEF LaunchInv
<1>3. FirstOnly'
  <2>1. \A g : InHandler(g)' <=> InHandler(g)
    BY <1>1 DEF InHandler, sched
  <2>2. QED
    BY <1>1, <2>1, SameFirst DEF LaunchInv, FirstOnly, sched
<1>4. Lockstep'
  <2>1. CASE AllProtected
    BY <1>2, <2>1 DEF Lockstep
  <2>2. CASE ~AllProtected
    BY <1>1, <1>2, <2>2, LockstepFrame DEF LaunchInv
  <2>3. QED
    BY <2>1, <2>2
<1>5. QED
  BY <1>2, <1>3, <1>4 DEF LaunchInv

LEMMA LaunchNext == TypeInv /\ LaunchInv /\ ContextsStarted /\ [Next]_vars => LaunchInv'
<1> SUFFICES ASSUME TypeInv, LaunchInv, ContextsStarted, [Next]_vars PROVE LaunchInv'
  OBVIOUS
<1>1. CASE UNCHANGED vars \/ \E h \in U54 : Timeout(h)
  BY <1>1, LaunchTimeout
<1>2. CASE E51
  <2>1. CASE IpiPoll \/ TinyCli
    BY <2>1, LaunchIpiPoll, LaunchTinyCli
  <2>2. ASSUME NEW h \in U54, BootMachine(h) PROVE LaunchInv'
    BY <2>2, LaunchRunStateMachine, LaunchMoves, LaunchSetupPmp, LaunchOpensbiInit, LaunchIdle
    DEF BootMachine
  <2>3. QED
    BY <1>2, <2>1, <2>2 DEF E51
<1>3. ASSUME NEW u \in U54, U54Step(u) PROVE LaunchInv'
  BY <1>3, LaunchScanPmpSetup, LaunchScanLaunch, LaunchOpensbi DEF U54Step
<1>4. ASSUME NEW u \in U54, Payload(u) PROVE LaunchInv'
  BY <1>4, LaunchPayload, LaunchOpensbi DEF Payload
<1>5. QED
  BY <1>1, <1>2, <1>3, <1>4 DEF Next

LEMMA LaunchInit == Init => LaunchInv
<1> SUFFICES ASSUME Init PROVE LaunchInv
  OBVIOUS
<1>1. \A u \in U54 : ~Protected(u) /\ queue[u] = {} /\ inbox[u] = {}
  BY DEF Init, Protected
<1>2. NotStarted
  BY <1>1 DEF Init, NotStarted
<1>3. FirstOnly
  BY <1>1 DEF Init, FirstOnly, InHandler
<1>4. ProtectInv
  BY <1>1 DEF Init, ProtectInv
<1>5. QED
  BY <1>1, <1>2, <1>3, <1>4 DEF LaunchInv, Lockstep, Requested

LEMMA LaunchAlways == Spec /\ []ContextsStarted => []LaunchInv
BY TypeAlways, LaunchInit, LaunchNext, PTL DEF Spec

\* "The E51 ensures that hardware separate is ensured before the U54 code
\* starts running": when the contexts that are not booted automatically belong
\* to boot sets that a boot command starts, a hart leaves the HSS only with
\* its PMPs set up, whatever is requested, reset, restarted or timed out.
THEOREM LaunchCorrect == Spec /\ []ContextsStarted => []LaunchAfterPmp
<1>1. LaunchInv => LaunchAfterPmp
  BY DEF LaunchInv, ProtectInv, LaunchAfterPmp
<1>2. QED
  BY <1>1, LaunchAlways, PTL

-----------------------------------------------------------------------------
(* A completion entry has one holder *)

LEMMA PlaceType ==
    ASSUME TypeInv, NEW h \in U54, NEW p \in 0..NumU54
    PROVE  /\ At(h, p) \in 0..K
           /\ p \in Places(h) => At(h, p) \in Index
           /\ p = 0 \/ p \in U54
<1>1. p = 0 \/ p \in U54
  BY ImageAssumption DEF U54
<1>2. At(h, p) \in 0..K
  BY <1>1 DEF At, TypeInv, IndexOK
<1>3. p \in Places(h) => At(h, p) \in Index
  BY <1>2, ImageAssumption DEF Places, Index
<1>4. QED
  BY <1>1, <1>2, <1>3

\* Only a PMP request protects a hart.
LEMMA NoneProtected ==
    ASSUME TypeInv, scenario' = scenario, UNCHANGED prevState,
           UNCHANGED pmpSetupFlag \/ \E u \in U54 : ScanPmpSetup(u),
           \A v \in U54 : \A m \in queue'[v] : m \in queue[v] \/ m.type # "PMP_SETUP"
    PROVE  \A h \in U54 : Registered(h)' => Registered(h)
<1>1. First' = First /\ First \subseteq U54
  BY SameFirst, FirstClosed
<1>2. ASSUME NEW v \in U54, Protected(v)' PROVE Protected(v)
  <2>1. CASE UNCHANGED pmpSetupFlag
    BY <1>2, <2>1 DEF Protected
  <2>2. CASE \E u \in U54 : ScanPmpSetup(u)
    <3>1. PICK u \in U54 : ScanPmpSetup(u)
      BY <2>2
    <3>2. pmpSetupFlag'[v] => Protected(v)
      BY <3>1 DEF ScanPmpSetup, Protected, TypeInv, HartOK
    <3>3. QED
      BY <1>2, <3>2 DEF Protected
  <2>3. QED
    BY <2>1, <2>2
<1>3. AllProtected' => AllProtected
  BY <1>1, <1>2 DEF AllProtected
<1>4. QED
  BY <1>1, <1>3 DEF Registered

\* The indices are left alone and no entry is freed.
LEMMA EntriesKept ==
    ASSUME TypeInv, EntriesInv, \A h \in U54 : Registered(h)' => Registered(h),
           UNCHANGED <<msgIndex, msgIndexAux>>,
           \A k \in Index : completes[k].used => completes'[k].used
    PROVE  EntriesInv'
<1>1. \A h, p : At(h, p)' = At(h, p)
  BY DEF At
<1>2. \A h : Places(h)' = Places(h)
  BY <1>1 DEF Places
<1>3. \A h \in U54 : \A p \in Places(h) : At(h, p) \in Index
  BY PlaceType DEF Places
<1>4. QED
  BY <1>1, <1>2, <1>3 DEF EntriesInv

\* A free entry is taken, and its index is put in place q of machine h.
LEMMA EntriesTaken ==
    ASSUME TypeInv, EntriesInv, NEW h \in U54, NEW q \in 0..NumU54, NEW k \in Index,
           \A g \in U54 : Registered(g)' => Registered(g),
           ~completes[k].used, completes'[k].used,
           \A j \in Index : j # k => completes'[j].used = completes[j].used,
           At(h, q)' = k,
           \A g \in U54 : \A p \in 0..NumU54 : g # h \/ p # q => At(g, p)' = At(g, p)
    PROVE  EntriesInv'
<1>1. ASSUME NEW g \in U54, NEW p \in Places(g)', g # h \/ p # q
      PROVE  p \in Places(g) /\ At(g, p)' = At(g, p) /\ At(g, p) \in Index
  <2>1. p \in 0..NumU54 /\ At(g, p)' # K
    BY DEF Places
  <2>2. At(g, p)' = At(g, p) /\ p \in Places(g)
    BY <1>1, <2>1 DEF Places
  <2>3. QED
    BY <2>1, <2>2, PlaceType
<1>2. ASSUME NEW g \in U54, Registered(g)', NEW p \in Places(g)', g # h \/ p # q
      PROVE  /\ Registered(g) /\ At(g, p)' = At(g, p) /\ p \in Places(g)
             /\ completes[At(g, p)].used /\ At(g, p) # k /\ completes'[At(g, p)'].used
  <2>1. Registered(g) /\ p \in Places(g) /\ At(g, p)' = At(g, p) /\ At(g, p) \in Index
    BY <1>1, <1>2
  <2>2. completes[At(g, p)].used
    BY <2>1 DEF EntriesInv
  <2>3. QED
    BY <2>1, <2>2
<1>3. ASSUME NEW g \in U54, Registered(g)', NEW p \in Places(g)',
             NEW f \in U54, Registered(f)', NEW r \in Places(f)', At(f, r)' = At(g, p)'
      PROVE  f = g /\ r = p
  <2>1. CASE (g # h \/ p # q) /\ (f # h \/ r # q)
    BY <1>2, <1>3, <2>1 DEF EntriesInv
  <2>2. CASE (g # h \/ p # q) /\ f = h /\ r = q
    BY <1>2, <1>3, <2>2
  <2>3. CASE g = h /\ p = q /\ (f # h \/ r # q)
    BY <1>2, <1>3, <2>3
  <2>4. CASE g = h /\ p = q /\ f = h /\ r = q
    BY <2>4
  <2>5. QED
    BY <2>1, <2>2, <2>3, <2>4
<1>4. ASSUME NEW g \in U54, Registered(g)', NEW p \in Places(g)' PROVE completes'[At(g, p)'].used
  BY <1>2, <1>4
<1>5. QED
  BY <1>3, <1>4 DEF EntriesInv

\* The entries of the places F of machine h are freed, and their indices
\* forgotten.
LEMMA EntriesFreed ==
    ASSUME TypeInv, EntriesInv, NEW h \in U54, Registered(h), NEW F \in SUBSET Places(h),
           \A g \in U54 : Registered(g)' => Registered(g),
           completes' = Free({At(h, p) : p \in F}),
           \A p \in F : At(h, p)' = K,
           \A g \in U54 : \A p \in 0..NumU54 : g # h \/ p \notin F => At(g, p)' = At(g, p)
    PROVE  EntriesInv'
<1>1. ASSUME NEW g \in U54, NEW p \in Places(g)'
      PROVE  /\ p \in Places(g) /\ At(g, p)' = At(g, p) /\ At(g, p) \in Index
             /\ g # h \/ p \notin F
  <2>1. p \in 0..NumU54 /\ At(g, p)' # K
    BY DEF Places
  <2>2. g # h \/ p \notin F
    BY <2>1
  <2>3. At(g, p)' = At(g, p) /\ p \in Places(g)
    BY <2>1, <2>2 DEF Places
  <2>4. QED
    BY <2>1, <2>2, <2>3, PlaceType
<1>2. ASSUME NEW g \in U54, Registered(g)', NEW p \in Places(g)' PROVE completes'[At(g, p)'].used
  <2>1. /\ Registered(g) /\ p \in Places(g) /\ At(g, p)' = At(g, p) /\ At(g, p) \in Index
        /\ g # h \/ p \notin F
    BY <1>1, <1>2
  <2>2. completes[At(g, p)].used
    BY <2>1 DEF EntriesInv
  <2>3. At(g, p) \notin {At(h, r) : r \in F}
    <3>1. ASSUME NEW r \in F, At(h, r) = At(g, p) PROVE FALSE
      BY <2>1, <3>1 DEF EntriesInv
    <3>2. QED
      BY <3>1
  <2>4. QED
    BY <2>1, <2>2, <2>3, EntriesType
<1>3. ASSUME NEW g \in U54, Registered(g)', NEW p \in Places(g)',
             NEW f \in U54, Registered(f)', NEW r \in Places(f)', At(f, r)' = At(g, p)'
      PROVE  f = g /\ r = p
  BY <1>1, <1>3 DEF EntriesInv
<1>4. QED
  BY <1>2, <1>3 DEF EntriesInv

\* What IPI_MessageAlloc and IPI_MessageDeliver do to the entries.
LEMMA DeliverEntries ==
    ASSUME TypeInv, NEW k \in Index, NEW u \in U54, NEW type, NEW keep, Deliver(k, u, type, keep)
    PROVE  /\ ~completes[k].used /\ completes'[k].used = (Sent(u) \/ keep)
           /\ \A j \in Index : j # k => completes'[j].used = completes[j].used
           /\ \A v \in U54 : \A m \in queue'[v] : m \in queue[v] \/ m.type = type
<1>1. completes \in [Index -> Entry] /\ queue \in [U54 -> SUBSET ToU54Msg]
  BY DEF TypeInv, EntryOK, QueueOK
<1>2. completes' = [completes EXCEPT ![k] =
          [used |-> Sent(u) \/ keep, tx |-> myTx[0], status |-> "PENDING"]]
  BY DEF Deliver
<1>3. ASSUME NEW v \in U54, NEW m \in queue'[v] PROVE m \in queue[v] \/ m.type = type
  <2>1. m \in queue[v] \/ m = [type |-> type, tx |-> myTx[0]]
    BY <1>1 DEF Deliver
  <2>2. QED
    BY <2>1
<1>4. ~completes[k].used
  BY DEF Deliver, FreeEntry
<1>5. completes'[k].used = (Sent(u) \/ keep) /\ \A j \in Index : j # k => completes'[j] = completes[j]
  BY <1>1, <1>2
<1>6. QED
  BY <1>3, <1>4, <1>5

LEMMA EntriesOther ==
    ASSUME TypeInv, EntriesInv,
           \/ UNCHANGED vars \/ IpiPoll \/ TinyCli
           \/ \E h \in U54 : \/ InitHandler(h) \/ ZeroInitChunksHandler(h) \/ DownloadChunksHandler(h)
                             \/ ErrorHandler(h) \/ CompleteHandler(h) \/ IdleHandler(h) \/ Timeout(h)
           \/ \E u \in U54 : U54Step(u) \/ Payload(u)
    PROVE  EntriesInv'
<1>1. UNCHANGED <<msgIndex, msgIndexAux, prevState, scenario>>
  BY DEF vars, IpiPoll, TinyCli, InitHandler, ZeroInitChunksHandler, DownloadChunksHandler,
     ErrorHandler, CompleteHandler, IdleHandler, Timeout, U54Step, Payload, ScanPmpSetup, ScanLaunch,
     SbiInit, WarmBoot, HartStart, SystemReset, EcallReboot, RprocStart, BootRequest, machine, bounds
<1>2. UNCHANGED pmpSetupFlag \/ \E u \in U54 : ScanPmpSetup(u)
  BY DEF vars, IpiPoll, TinyCli, InitHandler, ZeroInitChunksHandler, DownloadChunksHandler,
     ErrorHandler, CompleteHandler, IdleHandler, Timeout, U54Step, Payload, ScanLaunch,
     SbiInit, WarmBoot, HartStart, SystemReset, EcallReboot, RprocStart, hart
<1>3. \A v \in U54 : queue'[v] \subseteq queue[v]
  <2>1. CASE UNCHANGED queue
    BY <2>1
  <2>2. ASSUME NEW u \in U54, ScanPmpSetup(u) \/ ScanLaunch(u)
        PROVE  \A v \in U54 : queue'[v] \subseteq queue[v]
    BY <2>2 DEF ScanPmpSetup, ScanLaunch, TypeInv, QueueOK
  <2>3. UNCHANGED queue \/ \E u \in U54 : ScanPmpSetup(u) \/ ScanLaunch(u)
    BY DEF vars, IpiPoll, TinyCli, InitHandler, ZeroInitChunksHandler, DownloadChunksHandler,
       ErrorHandler, CompleteHandler, IdleHandler, Timeout, U54Step, Payload, SbiInit, WarmBoot,
       HartStart, SystemReset, EcallReboot, RprocStart
  <2>4. QED
    BY <2>1, <2>2, <2>3
<1>4. \/ UNCHANGED completes
      \/ \E txs : completes' = UpdateStatus(txs)
      \/ \E u \in U54 : \E t, keep : BootRequest(u, t, keep)
  BY DEF vars, IpiPoll, TinyCli, InitHandler, ZeroInitChunksHandler, DownloadChunksHandler,
     ErrorHandler, CompleteHandler, IdleHandler, Timeout, U54Step, Payload, ScanPmpSetup, ScanLaunch,
     SbiInit, WarmBoot, HartStart, SystemReset, EcallReboot, RprocStart
<1>5. \A k \in Index : completes[k].used => completes'[k].used
  <2>1. CASE UNCHANGED completes
    BY <2>1
  <2>2. CASE \E txs : completes' = UpdateStatus(txs)
    BY <2>2, EntriesType
  <2>3. CASE \E u \in U54 : \E t, keep : BootRequest(u, t, keep)
    <3>1. PICK k \in Index : ~completes[k].used /\ \E e : completes' = [completes EXCEPT ![k] = e]
      BY <2>3 DEF BootRequest, FreeEntry
    <3>2. QED
      BY <3>1 DEF TypeInv, EntryOK
  <2>4. QED
    BY <1>4, <2>1, <2>2, <2>3
<1>6. QED
  BY <1>1, <1>2, <1>3, <1>5, NoneProtected, EntriesKept

LEMMA EntriesSetupPmp ==
    ASSUME TypeInv, LaunchInv, EntriesInv, PmpRequestFits, NEW h \in U54, SetupPmpHandler(h)
    PROVE  EntriesInv'
<1> DEFINE m == [type |-> "PMP_SETUP", tx |-> myTx[0]]
<1>1. /\ UNCHANGED <<prevState, scenario, ustate, passed, pmpSetupFlag, hartState, inbox, msgIndexAux>>
      /\ turn = h /\ phase = "handler" /\ cur = "SETUP_PMP" /\ NextTurn
  BY DEF SetupPmpHandler, Handles, bounds, hart, toE51
<1>2. First' = First /\ First \subseteq U54 /\ InHandler(h)
  BY <1>1, SameFirst, FirstClosed DEF InHandler
<1>3. h \in First
  BY <1>1, <1>2 DEF LaunchInv, FirstOnly
<1>4. m.type = "PMP_SETUP" /\ (queue' = queue \/ queue' = [queue EXCEPT ![h] = queue[h] \cup {m}])
  BY DEF SetupPmpHandler, Deliver, TypeInv, QueueOK
<1> HIDE DEF m
<1>5. \A g \in U54 : Registered(g)' => Registered(g)
  <2>1. \A v \in U54 : v # h => (Protected(v)' <=> Protected(v))
    BY <1>1, <1>3, <1>4, ProtectSend
  <2>2. CASE AllProtected
    BY <1>2, <2>2 DEF Registered
  <2>3. CASE ~AllProtected
    <3>1. SecondPass
      BY <1>1, <1>2, <2>3, PassState
    <3>2. \A p \in U54 : (Ahead(p) <=> h < p) /\ p \in Nat /\ h \in Nat
      BY <1>1, NextMachine DEF U54
    <3>3. ASSUME NEW g \in First, AllProtected' PROVE prevState[g] = "SETUP_PMP"
      <4>1. Protected(g)'
        BY <1>2, <3>3 DEF AllProtected
      <4>2. ~(h < g)
        BY <1>2, <2>1, <3>1, <3>2, <4>1 DEF SecondPass
      <4>3. QED
        BY <1>1, <1>2, <3>1, <3>2, <4>2 DEF SecondPass
    <3>4. QED
      BY <1>1, <1>2, <3>3 DEF Registered
  <2>4. QED
    BY <2>2, <2>3
<1>6. CASE UNCHANGED <<completes, msgIndex>>
  BY <1>1, <1>5, <1>6, EntriesKept
<1>7. ASSUME msgIndex[h] = K, NEW k \in Index, Deliver(k, h, "PMP_SETUP", FALSE),
             msgIndex' = [msgIndex EXCEPT ![h] = k]
      PROVE  EntriesInv'
  <2>1. Sent(h)
    BY <1>1, <1>2, <1>7 DEF PmpRequestFits
  <2>2. /\ ~completes[k].used /\ completes'[k].used
        /\ \A j \in Index : j # k => completes'[j].used = completes[j].used
    BY <1>7, <2>1, DeliverEntries
  <2>3. /\ 0 \in 0..NumU54 /\ At(h, 0)' = k
        /\ \A g \in U54 : \A p \in 0..NumU54 : g # h \/ p # 0 => At(g, p)' = At(g, p)
    BY <1>1, <1>7, ImageAssumption DEF At, TypeInv, IndexOK
  <2>4. QED
    BY <1>5, <2>2, <2>3, EntriesTaken
<1>8. QED
  BY <1>6, <1>7 DEF SetupPmpHandler

\* common_boot_message_delivery.
LEMMA EntriesLaunch ==
    ASSUME TypeInv, EntriesInv, NEW h \in U54, NEW u \in U54, Launch(h, u), UNCHANGED msgIndex,
           AllProtected, First' = First
    PROVE  EntriesInv'
<1>1. PICK k \in Index :
        /\ Deliver(k, u, IF u \in SkipOpensbi THEN "GOTO" ELSE "OPENSBI_INIT", TRUE)
        /\ msgIndexAux' = [msgIndexAux EXCEPT ![h][u] = k]
  BY DEF Launch
<1>2. /\ ~completes[k].used /\ completes'[k].used
      /\ \A j \in Index : j # k => completes'[j].used = completes[j].used
  BY <1>1, DeliverEntries
<1>3. /\ u \in 0..NumU54 /\ At(h, u)' = k
      /\ \A g \in U54 : \A p \in 0..NumU54 : g # h \/ p # u => At(g, p)' = At(g, p)
  <2>1. /\ msgIndexAux \in [U54 -> [U54 -> 0..K]] /\ u \in 0..NumU54 /\ u # 0
        /\ \A p \in 0..NumU54 : p = 0 \/ p \in U54
    BY ImageAssumption DEF U54, TypeInv, IndexOK
  <2>2. msgIndexAux'[h][u] = k
    BY <1>1, <2>1
  <2>3. \A g \in U54 : \A p \in U54 : g # h \/ p # u => msgIndexAux'[g][p] = msgIndexAux[g][p]
    BY <1>1, <2>1
  <2>4. QED
    BY <2>1, <2>2, <2>3 DEF At
<1>4. \A g \in U54 : Registered(g)' => Registered(g)
  BY DEF Registered
<1>5. QED
  BY <1>2, <1>3, <1>4, EntriesTaken

LEMMA EntriesOpensbiInit ==
    ASSUME TypeInv, LaunchInv, EntriesInv, NEW h \in U54, OpensbiInitHandler(h)
    PROVE  EntriesInv'
<1>1. /\ UNCHANGED <<prevState, scenario, msgIndex, pmpSetupFlag>>
      /\ turn = h /\ phase = "handler" /\ cur = "OPENSBI_INIT"
  BY DEF OpensbiInitHandler, Handles, bounds, hart
<1>2. First' = First /\ AllProtected
  BY <1>1, SameFirst, PassState DEF InHandler
<1>3. CASE UNCHANGED <<completes, msgIndexAux>>
  BY <1>1, <1>2, <1>3, EntriesKept DEF Registered
<1>4. CASE iterator[h] + 1 \in Peers(h) /\ Launch(h, iterator[h] + 1)
  BY <1>1, <1>2, <1>4, EntriesLaunch DEF Peers
<1>5. QED
  BY <1>3, <1>4 DEF OpensbiInitHandler

\* check_for_ipi_acks and the time-out branch free what they forget.
LEMMA EntriesAcks ==
    ASSUME TypeInv, EntriesInv, NEW h \in U54, Registered(h), CheckForIpiAcks(h) \/ FreeAll(h),
           \A g \in U54 : Registered(g)' => Registered(g)
    PROVE  EntriesInv'
<1>1. /\ msgIndex \in [U54 -> 0..K] /\ msgIndexAux \in [U54 -> [U54 -> 0..K]]
      /\ 0 \in 0..NumU54 /\ 0 \notin U54 /\ U54 \subseteq 0..NumU54
      /\ \A p \in 0..NumU54 : p = 0 \/ p \in U54
  BY ImageAssumption DEF U54, TypeInv, IndexOK
<1>2. CASE CheckForIpiAcks(h)
  <2> DEFINE aux == {msgIndexAux[h][p] : p \in AuxFreed(h)}
             own == IF AcksReceived(h) /\ msgIndex[h] # K THEN {msgIndex[h]} ELSE {}
             F == AuxFreed(h) \cup (IF AcksReceived(h) /\ msgIndex[h] # K THEN {0} ELSE {})
  <2>1. /\ completes' = Free(aux \cup own)
        /\ msgIndexAux' = [msgIndexAux EXCEPT ![h] =
              [p \in U54 |-> IF p \in AuxFreed(h) THEN K ELSE msgIndexAux[h][p]]]
        /\ msgIndex' = [msgIndex EXCEPT ![h] = IF own # {} THEN K ELSE msgIndex[h]]
    BY <1>2, Zenon DEF CheckForIpiAcks
  <2>2. AuxFreed(h) \subseteq U54 /\ \A p \in AuxFreed(h) : msgIndexAux[h][p] # K
    BY DEF AuxFreed, Outstanding
  <2>3. F \in SUBSET Places(h)
    BY <1>1, <2>2 DEF Places, At
  <2>4. aux \cup own = {At(h, p) : p \in F}
    <3>1. \A p \in AuxFreed(h) : At(h, p) = msgIndexAux[h][p]
      BY <1>1, <2>2 DEF At
    <3>2. At(h, 0) = msgIndex[h]
      BY DEF At
    <3>3. QED
      BY <3>1, <3>2
  <2>5. \A p \in F : At(h, p)' = K
    <3>1. \A p \in AuxFreed(h) : msgIndexAux'[h][p] = K
      BY <1>1, <2>1, <2>2
    <3>2. own # {} => msgIndex'[h] = K
      BY <1>1, <2>1
    <3>3. QED
      BY <1>1, <2>2, <3>1, <3>2 DEF At
  <2>6. \A g \in U54 : \A p \in 0..NumU54 : g # h \/ p \notin F => At(g, p)' = At(g, p)
    <3>1. \A g \in U54 : \A p \in U54 :
             g # h \/ p \notin AuxFreed(h) => msgIndexAux'[g][p] = msgIndexAux[g][p]
      BY <1>1, <2>1
    <3>2. \A g \in U54 : g # h \/ own = {} => msgIndex'[g] = msgIndex[g]
      BY <1>1, <2>1
    <3>3. 0 \notin F => own = {}
      OBVIOUS
    <3>4. QED
      BY <1>1, <3>1, <3>2, <3>3 DEF At
  <2> HIDE DEF aux, own, F
  <2>7. completes' = Free({At(h, p) : p \in F})
    BY <2>1, <2>4
  <2>8. QED
    BY <2>3, <2>5, <2>6, <2>7, EntriesFreed
<1>3. CASE FreeAll(h)
  <2> DEFINE held == {msgIndexAux[h][p] : p \in Outstanding(h)}
                     \cup (IF msgIndex[h] = K THEN {} ELSE {msgIndex[h]})
  <2>1. /\ completes' = Free(held)
        /\ msgIndex' = [msgIndex EXCEPT ![h] = K]
        /\ msgIndexAux' = [msgIndexAux EXCEPT ![h] = [p \in U54 |-> K]]
    BY <1>3, Zenon DEF FreeAll
  <2>2. held = {At(h, p) : p \in Places(h)}
    BY <1>1 DEF Places, At, Outstanding
  <2> HIDE DEF held
  <2>3. \A p \in Places(h) : At(h, p)' = K
    BY <1>1, <2>1 DEF Places, At
  <2>4. \A g \in U54 : \A p \in 0..NumU54 : g # h \/ p \notin Places(h) => At(g, p)' = At(g, p)
    BY <1>1, <2>1 DEF Places, At
  <2>5. QED
    BY <2>1, <2>2, <2>3, <2>4, EntriesFreed
<1>4. QED
  BY <1>2, <1>3

LEMMA EntriesWait ==
    ASSUME TypeInv, LaunchInv, EntriesInv, NEW h \in U54, SetupPmpCompleteHandler(h) \/ WaitHandler(h)
    PROVE  EntriesInv'
<1>1. /\ UNCHANGED <<prevState, scenario, queue, pmpSetupFlag>>
      /\ turn = h /\ phase = "handler" /\ cur \in {"SETUP_PMP_COMPLETE", "WAIT"}
  BY DEF SetupPmpCompleteHandler, WaitHandler, Handles, bounds, hart
<1>2. InHandler(h) /\ First' = First
  BY <1>1, SameFirst DEF InHandler
<1>3. h \in First /\ AllProtected
  BY <1>1, <1>2, PassState DEF LaunchInv, FirstOnly
<1>4. Registered(h) /\ \A g \in U54 : Registered(g)' => Registered(g)
  BY <1>2, <1>3 DEF Registered
<1>5. CASE CheckForIpiAcks(h) \/ FreeAll(h)
  BY <1>4, <1>5, EntriesAcks
<1>6. CASE UNCHANGED <<completes, msgIndex, msgIndexAux>>
  BY <1>4, <1>6, EntriesKept
<1>7. QED
  BY <1>5, <1>6 DEF SetupPmpCompleteHandler, WaitHandler

LEMMA EntriesRunStateMachine ==
    ASSUME TypeInv, LaunchInv, EntriesInv, NEW h \in U54, RunStateMachine(h)
    PROVE  EntriesInv'
<1> DEFINE moved == prevState[h] # state[h]
<1>1. /\ UNCHANGED <<scenario, pmpSetupFlag>> /\ turn = h /\ phase = "enter"
      /\ prevState' = [prevState EXCEPT ![h] = IF moved THEN state'[h] ELSE prevState[h]]
      /\ prevState \in [U54 -> BootState \cup {"INVALID"}]
  BY DEF RunStateMachine, bounds, hart, TypeInv, MachineOK
<1>2. First' = First /\ First \subseteq U54 /\ Ahead(h)
  BY <1>1, SameFirst, FirstClosed DEF Ahead
<1>3. CASE prevState[h] = "OPENSBI_INIT" /\ Launch(h, h) /\ UNCHANGED msgIndex
  <2>1. h \in First
    BY <1>3 DEF LaunchInv, FirstOnly
  <2>2. AllProtected
    BY <1>2, <1>3, <2>1 DEF LaunchInv, Lockstep, NotStarted, FirstPass, SecondPass
  <2>3. QED
    BY <1>2, <1>3, <2>2, EntriesLaunch
<1>4. ASSUME UNCHANGED queue
      PROVE  /\ AllProtected' <=> AllProtected
             /\ \A g \in U54 : g # h => (Registered(g)' <=> Registered(g))
  <2>1. AllProtected' <=> AllProtected
    BY <1>1, <1>2, <1>4 DEF AllProtected, Protected
  <2>2. QED
    BY <1>1, <1>2, <2>1 DEF Registered
<1>5. CASE RegisterHarts(h) /\ UNCHANGED <<state, completes, queue>>
  <2>1. /\ \A p \in 0..NumU54 : At(h, p)' = K
        /\ \A g \in U54 : g # h => \A p \in 0..NumU54 : At(g, p)' = At(g, p)
    <3>1. /\ msgIndex \in [U54 -> 0..K] /\ msgIndexAux \in [U54 -> [U54 -> 0..K]]
          /\ \A p \in 0..NumU54 : p = 0 \/ p \in U54
      BY ImageAssumption DEF U54, TypeInv, IndexOK
    <3>2. QED
      BY <1>5, <3>1 DEF RegisterHarts, ForgetIndices, At
  <2>2. Places(h)' = {} /\ \A g \in U54 : g # h => Places(g)' = Places(g)
    BY <2>1 DEF Places
  <2>3. ASSUME NEW g \in U54, Registered(g)', NEW p \in Places(g)'
        PROVE  /\ Registered(g) /\ p \in Places(g) /\ At(g, p)' = At(g, p)
    <3>1. g # h /\ p \in 0..NumU54
      BY <2>2 DEF Places
    <3>2. QED
      BY <1>4, <1>5, <2>1, <2>2, <2>3, <3>1
  <2>4. QED
    BY <1>5, <2>3 DEF EntriesInv
<1>6. CASE /\ ~(moved /\ state[h] = "SETUP_PMP")
           /\ UNCHANGED <<state, completes, queue, msgIndex, msgIndexAux>>
  <2>1. Registered(h)' => Registered(h)
    BY <1>1, <1>2, <1>4, <1>6 DEF Registered
  <2>2. QED
    BY <1>4, <1>6, <2>1, EntriesKept
<1>7. QED
  BY <1>3, <1>5, <1>6 DEF RunStateMachine

LEMMA EntriesNext ==
    TypeInv /\ LaunchInv /\ EntriesInv /\ PmpRequestFits /\ [Next]_vars => EntriesInv'
<1> SUFFICES ASSUME TypeInv, LaunchInv, EntriesInv, PmpRequestFits, [Next]_vars PROVE EntriesInv'
  OBVIOUS
<1>1. ASSUME NEW h \in U54, BootMachine(h) PROVE EntriesInv'
  BY <1>1, EntriesOther, EntriesSetupPmp, EntriesOpensbiInit, EntriesWait, EntriesRunStateMachine
  DEF BootMachine
<1>2. CASE UNCHANGED vars \/ IpiPoll \/ TinyCli \/ \E h \in U54 : Timeout(h)
  BY <1>2, EntriesOther
<1>3. CASE \E u \in U54 : U54Step(u) \/ Payload(u)
  BY <1>3, EntriesOther
<1>4. QED
  BY <1>1, <1>2, <1>3 DEF Next, E51

LEMMA EntriesInit == TypeInv /\ Init => EntriesInv
<1> SUFFICES ASSUME TypeInv, Init PROVE EntriesInv
  OBVIOUS
<1>1. \A h \in U54 : ~Protected(h) /\ prevState[h] # "SETUP_PMP"
  BY DEF Init, Protected
<1>2. \A h \in U54 : ~Registered(h)
  BY <1>1, FirstClosed DEF Registered, AllProtected
<1>3. QED
  BY <1>2 DEF EntriesInv

\* A completion entry has one holder: when PMP_SETUP finds room in the queue of
\* its hart, no machine waits for the entry of another one, none holds an
\* entry that was given back, and the entries the machines free are in use,
\* whatever times out and whatever a launch that fails leaves behind.
THEOREM EntriesCorrect ==
    Spec /\ []ContextsStarted /\ []PmpRequestFits => []EntriesExclusive
<1>1. TypeInv /\ LaunchInv /\ EntriesInv => EntriesExclusive
  <2> SUFFICES ASSUME TypeInv, LaunchInv, EntriesInv PROVE EntriesExclusive
    OBVIOUS
  <2>1. ASSUME NEW h \in U54, Booting(h) PROVE Registered(h)
    <3>1. prevState[h] \notin {"INVALID", "IDLE", "INITIALIZATION"}
      BY <2>1 DEF Booting, BootState
    <3>2. h \in First
      BY <3>1 DEF LaunchInv, FirstOnly
    <3>3. turn < h \/ turn = h \/ turn > h
      BY ImageAssumption DEF TypeInv, SchedOK, U54
    <3>4. Ahead(h) \/ InHandler(h) \/ turn > h
      BY <3>3 DEF Ahead, InHandler, TypeInv, SchedOK
    <3>5. AllProtected \/ prevState[h] = "SETUP_PMP"
      BY <3>1, <3>2, <3>4 DEF LaunchInv, Lockstep, NotStarted, FirstPass, SecondPass
    <3>6. QED
      BY <3>2, <3>5 DEF Registered
  <2>2. ASSUME NEW x \in Holders
        PROVE  \E h \in U54 : \E p \in Places(h) :
                  x = <<h, p>> /\ Registered(h) /\ HeldIndex(x) = At(h, p)
    <3>1. PICK h \in U54, p \in 0..NumU54 :
             /\ x = <<h, p>> /\ Booting(h)
             /\ \/ p = 0 /\ msgIndex[h] # K
                \/ p \in U54 /\ p # 0 /\ msgIndexAux[h][p] # K
      <4>1. 0 \in 0..NumU54 /\ \A p \in U54 : p \in 0..NumU54 /\ p # 0
        BY ImageAssumption DEF U54
      <4>2. QED
        BY <4>1 DEF Holders, Outstanding
    <3>2. HeldIndex(x) = At(h, p)
      BY <3>1 DEF HeldIndex, At
    <3>3. p \in Places(h)
      BY <3>1 DEF Places, At
    <3>4. QED
      BY <2>1, <3>1, <3>2, <3>3
  <2>3. ASSUME NEW x \in Holders, NEW y \in Holders
        PROVE  /\ completes[HeldIndex(x)].used
               /\ HeldIndex(x) = HeldIndex(y) => x = y
    <3>1. PICK h \in U54 : \E p \in Places(h) :
             x = <<h, p>> /\ Registered(h) /\ HeldIndex(x) = At(h, p)
      BY <2>2
    <3>2. PICK p \in Places(h) : x = <<h, p>> /\ Registered(h) /\ HeldIndex(x) = At(h, p)
      BY <3>1
    <3>3. PICK g \in U54 : \E q \in Places(g) :
             y = <<g, q>> /\ Registered(g) /\ HeldIndex(y) = At(g, q)
      BY <2>2
    <3>4. PICK q \in Places(g) : y = <<g, q>> /\ Registered(g) /\ HeldIndex(y) = At(g, q)
      BY <3>3
    <3>5. QED
      BY <3>2, <3>4 DEF EntriesInv
  <2>4. QED
    BY <2>3 DEF EntriesExclusive
<1>2. QED
  BY <1>1, TypeInit, TypeAlways, LaunchAlways, EntriesInit, EntriesNext, PTL DEF Spec

=============================================================================
