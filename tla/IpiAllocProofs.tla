---------------------------- MODULE IpiAllocProofs ----------------------------
(***************************************************************************)
(* Proofs about the table of completion entries for any number of U54s,    *)
(* entries, queue slots and requests.                                      *)
(***************************************************************************)
EXTENDS IpiAlloc, FiniteSetTheorems, TLAPS

\* A hart that is in no request starts its next search at entry 0.
IdleIndex == \A h \in Hart : pc[h] = "idle" => index[h] = 0

\* The harts and the first entry are in range.
LEMMA Ranges ==
    /\ E51 \in Hart /\ U54 \subseteq Hart /\ E51 \notin U54
    /\ 0 \in Index /\ Index \subseteq 0..K /\ 0 \in 0..K
    /\ \A i \in Index : i + 1 \in 0..K
    /\ \A i \in Index : i # K - 1 => i + 1 \in Index
BY AllocAssumption DEF E51, U54, Hart, Index

\* The initial state is well typed.
LEMMA TypeInit == Init => TypeOK /\ IdleIndex
BY Ranges, AllocAssumption DEF Init, TypeOK, IdleIndex, PC

\* What a step of hart h may do to pc and index: anything in range.
LEMMA HartMoves ==
    ASSUME TypeOK, IdleIndex, NEW h \in Hart, NEW p \in PC, NEW i \in 0..K,
           pc' = [pc EXCEPT ![h] = p], index' = [index EXCEPT ![h] = i],
           p \in {"search", "take", "deliver", "free"} => i \in Index,
           p = "idle" => i = 0
    PROVE  /\ pc' \in [Hart -> PC] /\ index' \in [Hart -> 0..K]
           /\ \A g \in Hart :
                pc'[g] \in {"search", "take", "deliver", "free"} => index'[g] \in Index
           /\ IdleIndex'
BY DEF TypeOK, IdleIndex

\* Every step keeps the state well typed.
LEMMA TypeNext == TypeOK /\ IdleIndex /\ [Next]_vars => TypeOK' /\ IdleIndex'
<1> SUFFICES ASSUME TypeOK, IdleIndex, [Next]_vars PROVE TypeOK' /\ IdleIndex'
  OBVIOUS
<1> DEFINE Locals == /\ pc' \in [Hart -> PC] /\ index' \in [Hart -> 0..K]
                     /\ \A g \in Hart :
                          pc'[g] \in {"search", "take", "deliver", "free"} => index'[g] \in Index
                     /\ IdleIndex'
<1>0. ASSUME NEW h \in Hart, NEW p \in PC, NEW i \in 0..K,
             pc' = [pc EXCEPT ![h] = p], index' = [index EXCEPT ![h] = i],
             p \in {"search", "take", "deliver", "free"} => i \in Index,
             p = "idle" => i = 0
      PROVE  Locals
  BY <1>0, HartMoves
<1>a. ASSUME NEW h \in Hart, NEW p \in PC,
             pc' = [pc EXCEPT ![h] = p], index' = index,
             p \in {"search", "take", "deliver", "free"} => index[h] \in Index,
             p # "idle"
      PROVE  Locals
  BY <1>a DEF TypeOK, IdleIndex
<1> HIDE DEF Locals
<1>1. ASSUME NEW h \in Hart, Search(h) PROVE TypeOK' /\ IdleIndex'
  <2>1. index[h] \in Index
    BY <1>1 DEF Search, TypeOK
  <2>2. CASE used[index[h]]
    <3>1. index' = [index EXCEPT ![h] = index[h] + 1] /\ index[h] + 1 \in 0..K
      BY <1>1, <2>1, <2>2, Ranges DEF Search
    <3>2. CASE index[h] = K - 1
      BY <1>0, <1>1, <2>2, <3>1, <3>2 DEF Search, Goto, PC, TypeOK, Locals
    <3>3. CASE index[h] # K - 1
      BY <1>0, <1>1, <2>1, <2>2, <3>1, <3>3, Ranges DEF Search, Goto, PC, TypeOK, Locals
    <3>4. QED
      BY <3>2, <3>3
  <2>3. CASE ~used[index[h]]
    BY <1>a, <1>1, <2>1, <2>3 DEF Search, Goto, PC, TypeOK, Locals
  <2>4. QED
    BY <2>2, <2>3
<1>2. ASSUME NEW h \in Hart, Take(h) PROVE TypeOK' /\ IdleIndex'
  BY <1>a, <1>2 DEF Take, Goto, PC, TypeOK, Locals
<1>3. ASSUME NEW h \in Hart, MessageFree(h) PROVE TypeOK' /\ IdleIndex'
  <2>1. used' \in [Index -> BOOLEAN]
    BY <1>3 DEF MessageFree, TypeOK
  <2>2. PICK p \in {"idle", "halted"} : pc' = [pc EXCEPT ![h] = p]
    BY <1>3 DEF MessageFree, Goto
  <2>3. Locals
    BY <1>0, <1>3, <2>2, Ranges DEF MessageFree, PC
  <2>4. QED
    BY <1>3, <2>1, <2>3 DEF MessageFree, TypeOK, Locals
<1>4. CASE E51Request
  BY <1>a, <1>4, Ranges DEF E51Request, Goto, PC, TypeOK, IdleIndex, Locals
<1>5. CASE E51NoEntry
  BY <1>a, <1>5, Ranges DEF E51NoEntry, Goto, PC, TypeOK, Locals
<1>6. CASE E51Deliver
  <2>1. index[E51] \in Index
    BY <1>6, Ranges DEF E51Deliver, TypeOK
  <2>2. Locals
    <3>1. CASE Goto(E51, "idle") /\ index' = [index EXCEPT ![E51] = 0]
      BY <1>0, <3>1, Ranges DEF Goto, PC
    <3>2. CASE Goto(E51, "free") /\ UNCHANGED index
      BY <1>a, <2>1, <3>2, Ranges DEF Goto, PC
    <3>3. QED
      BY <1>6, <3>1, <3>2 DEF E51Deliver
  <2>3. QED
    BY <1>6, <2>1, <2>2 DEF E51Deliver, TypeOK, Locals
<1>7. ASSUME NEW k \in Index, E51Finish(k) PROVE TypeOK' /\ IdleIndex'
  <2>1. Locals
    BY <1>0, <1>7, Ranges DEF E51Finish, Goto, PC
  <2>2. QED
    BY <1>7, <2>1 DEF E51Finish, TypeOK, Locals
<1>8. ASSUME NEW u \in U54, E51Consume(u) PROVE TypeOK' /\ IdleIndex'
  BY <1>8, AllocAssumption DEF E51Consume, TypeOK, IdleIndex
<1>9. ASSUME NEW u \in U54, U54Request(u) PROVE TypeOK' /\ IdleIndex'
  <2>1. Locals
    BY <1>a, <1>9, Ranges DEF U54Request, Goto, PC, IdleIndex
  <2>2. reqs' \in [U54 -> 0..MaxReq]
    BY <1>9, AllocAssumption DEF U54Request, TypeOK
  <2>3. QED
    BY <1>9, <2>1, <2>2 DEF U54Request, TypeOK, Locals
<1>10. ASSUME NEW u \in U54, U54NoEntry(u) PROVE TypeOK' /\ IdleIndex'
  <2>1. Locals
    <3>1. CASE Goto(u, "idle") /\ index' = [index EXCEPT ![u] = 0]
      BY <1>0, <3>1, Ranges DEF Goto, PC
    <3>2. ASSUME NEW k \in Index, index' = [index EXCEPT ![u] = k], Goto(u, "deliver")
          PROVE  Locals
      BY <1>0, <3>2, Ranges DEF Goto, PC
    <3>3. CASE index' = [index EXCEPT ![u] = 0] /\ Goto(u, "halted")
      BY <1>0, <3>3, Ranges DEF Goto, PC
    <3>4. QED
      BY <1>10, <3>1, <3>2, <3>3 DEF U54NoEntry
  <2>2. QED
    BY <1>10, <2>1 DEF U54NoEntry, TypeOK, Locals
<1>11. ASSUME NEW u \in U54, U54Deliver(u) PROVE TypeOK' /\ IdleIndex'
  <2>1. index[u] \in Index /\ u \in Hart
    BY <1>11, Ranges DEF U54Deliver, TypeOK
  <2>2. Locals
    <3>1. CASE Goto(u, "idle") /\ index' = [index EXCEPT ![u] = 0]
      BY <1>0, <2>1, <3>1, Ranges DEF Goto, PC
    <3>2. CASE Rproc /\ Goto(u, "free") /\ index' = [index EXCEPT ![u] = index[u]]
      BY <1>0, <2>1, <3>2, Ranges DEF Goto, PC
    <3>3. QED
      BY <1>11, <3>1, <3>2 DEF U54Deliver
  <2>3. queue' \in [U54 -> 0..N]
    BY <1>11, AllocAssumption DEF U54Deliver, TypeOK
  <2>4. QED
    BY <1>11, <2>2, <2>3 DEF U54Deliver, TypeOK, Locals
<1>12. CASE UNCHANGED vars
  BY <1>12 DEF vars, TypeOK, IdleIndex
<1>13. QED
  BY <1>1, <1>2, <1>3, <1>4, <1>5, <1>6, <1>7, <1>8, <1>9, <1>10, <1>11, <1>12 DEF Next

\* The searches of IPI_MessageAlloc, by all harts at once, stay inside the
\* table, and the entries taken and freed are entries of the table.
THEOREM TypeCorrect == Spec => []TypeOK
<1>1. QED
  BY TypeInit, TypeNext, PTL DEF Spec

-----------------------------------------------------------------------------
(* Warm reboots only (Rproc = FALSE): the U54s never free an entry.         *)

\* What the E51 relies on between the steps of a request: entries only it
\* frees stay in use, so the entries its search has passed are still in use.
AllocInv ==
    /\ \A u \in U54 : pc[u] # "free"
    /\ HeldStaysUsed
    /\ pc[E51] \in {"deliver", "free"} => used[index[E51]]
    /\ pc[E51] = "free" => index[E51] \notin held
    /\ pc[E51] = "search" => \A k \in Index : k < index[E51] => used[k]
    /\ pc[E51] \in {"none", "exhausted"} => \A k \in Index : used[k]

\* The part of AllocInv that a step of a U54 cannot disturb as long as it
\* takes no entry out of use.
LEMMA U54Keeps ==
    ASSUME TypeOK, AllocInv, NEW u \in U54,
           \A h \in Hart : h # u => pc'[h] = pc[h] /\ index'[h] = index[h],
           pc'[u] # "free", \A k \in Index : used[k] => used'[k], held' = held
    PROVE  AllocInv'
<1>1. pc'[E51] = pc[E51] /\ index'[E51] = index[E51]
  BY Ranges
<1>2. \A v \in U54 : pc'[v] # "free"
  BY Ranges DEF AllocInv
<1>3. pc[E51] \in {"deliver", "free"} => index[E51] \in Index
  BY Ranges DEF TypeOK
<1>4. HeldStaysUsed'
  BY DEF AllocInv, HeldStaysUsed, TypeOK
<1>5. QED
  BY <1>1, <1>2, <1>3, <1>4 DEF AllocInv

\* A step of the E51 changes no U54's program counter.
LEMMA E51Only ==
    ASSUME TypeOK, AllocInv, NEW p, pc' = [pc EXCEPT ![E51] = p]
    PROVE  pc'[E51] = p /\ \A u \in U54 : pc'[u] # "free"
BY Ranges DEF TypeOK, AllocInv

\* Every step keeps the invariant.
LEMMA AllocNext ==
    ASSUME Rproc = FALSE
    PROVE  TypeOK /\ IdleIndex /\ AllocInv /\ [Next]_vars => AllocInv'
<1> SUFFICES ASSUME TypeOK, IdleIndex, AllocInv, [Next]_vars PROVE AllocInv'
  OBVIOUS
<1>1. CASE Search(E51)
  <2>1. index[E51] \in Index /\ pc[E51] = "search" /\ held' = held /\ used' = used
    BY <1>1, Ranges DEF Search, TypeOK
  <2>2. CASE ~used[index[E51]]
    <3>1. pc' = [pc EXCEPT ![E51] = "take"]
      BY <1>1, <2>2 DEF Search, Goto
    <3>2. QED
      BY <2>1, <3>1, E51Only DEF AllocInv, HeldStaysUsed
  <2>3. CASE used[index[E51]]
    <3>1. index'[E51] = index[E51] + 1
      BY <1>1, <2>3, Ranges DEF Search, TypeOK
    <3>2. \A k \in Index : k < index[E51] + 1 => used[k]
      BY <2>1, <2>3, AllocAssumption DEF AllocInv, Index
    <3>3. CASE index[E51] = K - 1
      <4>1. \A k \in Index : used[k]
        BY <3>2, <3>3, AllocAssumption DEF Index
      <4>2. pc' = [pc EXCEPT ![E51] = "none"]
        BY <1>1, <2>3, <3>3 DEF Search, Goto
      <4>3. QED
        BY <2>1, <4>1, <4>2, E51Only DEF AllocInv, HeldStaysUsed
    <3>4. CASE index[E51] # K - 1
      <4>1. pc' = [pc EXCEPT ![E51] = "search"]
        BY <1>1, <2>3, <3>4 DEF Search, Goto
      <4>2. QED
        BY <2>1, <3>1, <3>2, <4>1, E51Only DEF AllocInv, HeldStaysUsed
    <3>5. QED
      BY <3>3, <3>4
  <2>4. QED
    BY <2>2, <2>3
<1>2. CASE Take(E51)
  <2>1. /\ pc' = [pc EXCEPT ![E51] = "deliver"] /\ index' = index /\ held' = held
        /\ index[E51] \in Index /\ used'[index[E51]]
        /\ \A k \in Index : used[k] => used'[k]
    BY <1>2, Ranges DEF Take, Goto, TypeOK
  <2>2. QED
    BY <2>1, E51Only DEF AllocInv, HeldStaysUsed, TypeOK
<1>3. CASE MessageFree(E51)
  <2>1. index[E51] \in Index /\ index[E51] \notin held /\ used[index[E51]] /\ held' = held
    BY <1>3, Ranges DEF MessageFree, TypeOK, AllocInv
  <2>2. pc' = [pc EXCEPT ![E51] = "idle"] /\ used' = [used EXCEPT ![index[E51]] = FALSE]
    BY <1>3, <2>1 DEF MessageFree, Goto
  <2>3. \A k \in held : used'[k]
    BY <2>1, <2>2 DEF AllocInv, HeldStaysUsed, TypeOK
  <2>4. QED
    BY <2>1, <2>2, <2>3, E51Only DEF AllocInv, HeldStaysUsed
<1>4. CASE E51Request
  <2>1. /\ pc' = [pc EXCEPT ![E51] = "search"] /\ UNCHANGED <<used, index, held>>
        /\ index[E51] = 0
    BY <1>4, Ranges DEF E51Request, Goto, IdleIndex
  <2>2. \A k \in Index : ~(k < index[E51])
    BY <2>1 DEF Index
  <2>3. QED
    BY <2>1, <2>2, E51Only DEF AllocInv, HeldStaysUsed
<1>5. CASE E51NoEntry
  <2>1. /\ pc' = [pc EXCEPT ![E51] = "exhausted"] /\ UNCHANGED <<used, index, held>>
        /\ pc[E51] = "none"
    BY <1>5 DEF E51NoEntry, Goto
  <2>2. QED
    BY <2>1, E51Only DEF AllocInv, HeldStaysUsed
<1>6. CASE E51Deliver
  <2>1. used[index[E51]] /\ used' = used /\ held' = held \cup {index[E51]}
    BY <1>6 DEF E51Deliver, AllocInv
  <2>2. pc' = [pc EXCEPT ![E51] = "idle"]
    BY <1>6, <2>1 DEF E51Deliver, Goto
  <2>3. QED
    BY <2>1, <2>2, E51Only DEF AllocInv, HeldStaysUsed
<1>7. ASSUME NEW k \in Index, E51Finish(k) PROVE AllocInv'
  <2>1. /\ pc' = [pc EXCEPT ![E51] = "free"] /\ used' = used
        /\ k \in held /\ held' = held \ {k} /\ index'[E51] = k
    BY <1>7, Ranges DEF E51Finish, Goto, TypeOK
  <2>2. QED
    BY <2>1, E51Only DEF AllocInv, HeldStaysUsed
<1>8. ASSUME NEW u \in U54, E51Consume(u) PROVE AllocInv'
  BY <1>8 DEF E51Consume, AllocInv, HeldStaysUsed
<1>9. ASSUME NEW u \in U54, Search(u) \/ Take(u) \/ U54Request(u) \/ U54NoEntry(u) \/ U54Deliver(u)
      PROVE  AllocInv'
  <2>1. u \in Hart
    BY Ranges
  <2>2. \A h \in Hart : h # u => pc'[h] = pc[h] /\ index'[h] = index[h]
    BY <1>9, <2>1 DEF Search, Take, U54Request, U54NoEntry, U54Deliver, Goto, TypeOK
  <2>3. pc'[u] # "free"
    BY <1>9, <2>1 DEF Search, Take, U54Request, U54NoEntry, U54Deliver, Goto, TypeOK
  <2>4. held' = held
    BY <1>9 DEF Search, Take, U54Request, U54NoEntry, U54Deliver
  <2>5. \A k \in Index : used[k] => used'[k]
    <3>1. CASE Take(u)
      BY <2>1, <3>1 DEF Take, TypeOK
    <3>2. CASE ~Take(u)
      BY <1>9, <3>2 DEF Search, U54Request, U54NoEntry, U54Deliver
    <3>3. QED
      BY <3>1, <3>2
  <2>6. QED
    BY <2>2, <2>3, <2>4, <2>5, U54Keeps
<1>10. ASSUME NEW u \in U54, MessageFree(u) PROVE AllocInv'
  BY <1>10 DEF MessageFree, AllocInv
<1>11. CASE UNCHANGED vars
  BY <1>11 DEF vars, AllocInv, HeldStaysUsed
<1>12. \A h \in Hart : h = E51 \/ h \in U54
  BY AllocAssumption DEF Hart, U54, E51
<1>13. QED
  BY <1>1, <1>2, <1>3, <1>4, <1>5, <1>6, <1>7, <1>8, <1>9, <1>10, <1>11, <1>12 DEF Next

\* The invariant holds in every reachable state.
LEMMA AllocCorrect ==
    ASSUME Rproc = FALSE
    PROVE  Spec => [](TypeOK /\ IdleIndex /\ AllocInv)
<1>1. Init => AllocInv
  BY Ranges DEF Init, AllocInv, HeldStaysUsed
<1>2. TypeOK /\ IdleIndex /\ AllocInv /\ [Next]_vars => AllocInv'
  BY AllocNext
<1>3. QED
  BY <1>1, <1>2, TypeInit, TypeNext, PTL DEF Spec

\* With warm reboots as the only requests of the U54s, an entry a boot machine
\* of the E51 keeps the index of stays in use until the machine frees it,
\* although every hart searches and marks the table without a lock.
THEOREM HeldCorrect ==
    ASSUME Rproc = FALSE
    PROVE  Spec => []HeldStaysUsed
<1>1. AllocInv => HeldStaysUsed
  BY DEF AllocInv
<1>2. QED
  BY <1>1, AllocCorrect, PTL

\* The assertion in IPI_MessageFree holds on every hart as long as no U54
\* makes remoteproc starts; run alloc_race shows that it fails with them.
THEOREM FreeAssertCorrect ==
    ASSUME Rproc = FALSE
    PROVE  Spec => []FreeAssertHolds
<1>1. AllocInv => FreeAssertHolds
  <2>1. \A h \in Hart : h = E51 \/ h \in U54
    BY AllocAssumption DEF Hart, U54, E51
  <2>2. QED
    BY <2>1 DEF AllocInv, FreeAssertHolds
<1>2. QED
  BY <1>1, AllocCorrect, PTL

-----------------------------------------------------------------------------
(* How many entries the U54s can keep in use.                              *)

\* Entries in use that no machine of the E51 will free.
Leaked == {k \in Index : /\ used[k] /\ k \notin held
                         /\ ~(pc[E51] \in {"deliver", "free"} /\ k = index[E51])}

\* U54s that may still take an entry for the request they are in.
Pending == {u \in U54 : pc[u] \in {"search", "take"}}

\* Every entry lost, and every one about to be, is owed to a request of its own.
LeakBound == Cardinality(Leaked) + Cardinality(Pending) <= Cardinality(Requests)

\* The three sets are finite.
LEMMA LeakFinite ==
    /\ IsFiniteSet(Leaked) /\ Cardinality(Leaked) \in Nat
    /\ IsFiniteSet(Pending) /\ Cardinality(Pending) \in Nat
    /\ IsFiniteSet(Requests) /\ Cardinality(Requests) \in Nat
<1>1. IsFiniteSet(Index) /\ IsFiniteSet(U54) /\ IsFiniteSet(1..MaxReq)
  BY FS_Interval, AllocAssumption DEF Index, U54
<1>2. IsFiniteSet(U54 \X (1..MaxReq))
  BY <1>1, FS_Product
<1>3. /\ Leaked \subseteq Index /\ Pending \subseteq U54
      /\ Requests \subseteq U54 \X (1..MaxReq)
  BY DEF Leaked, Pending, Requests
<1>4. QED
  BY <1>1, <1>2, <1>3, FS_Subset, FS_CardinalityType

\* A step that loses no entry and opens no request keeps the bound.
LEMMA NothingLost ==
    ASSUME LeakBound, Leaked' \subseteq Leaked, Pending' \subseteq Pending, reqs' = reqs
    PROVE  LeakBound'
<1>1. Cardinality(Leaked') <= Cardinality(Leaked) /\ Cardinality(Pending') <= Cardinality(Pending)
  BY LeakFinite, FS_Subset
<1>2. Requests' = Requests
  BY DEF Requests
<1>3. Cardinality(Leaked') \in Nat /\ Cardinality(Pending') \in Nat
  BY LeakFinite, FS_Subset, FS_CardinalityType
<1>4. QED
  BY <1>1, <1>2, <1>3, LeakFinite DEF LeakBound

\* A U54 that takes an entry is pending no more.
LEMMA OneTaken ==
    ASSUME LeakBound, NEW k, NEW u \in Pending, Leaked' \subseteq Leaked \cup {k},
           Pending' = Pending \ {u}, reqs' = reqs
    PROVE  LeakBound'
<1>1. /\ IsFiniteSet(Leaked \cup {k})
      /\ Cardinality(Leaked \cup {k}) <= Cardinality(Leaked) + 1
  <2>1. /\ IsFiniteSet(Leaked \cup {k})
        /\ Cardinality(Leaked \cup {k}) =
             IF k \in Leaked THEN Cardinality(Leaked) ELSE Cardinality(Leaked) + 1
    BY LeakFinite, FS_AddElement, Zenon
  <2>2. QED
    BY <2>1, LeakFinite
<1>2. Cardinality(Leaked') <= Cardinality(Leaked \cup {k}) /\ Cardinality(Leaked') \in Nat
  BY <1>1, FS_Subset, FS_CardinalityType
<1>3. Cardinality(Pending') = Cardinality(Pending) - 1
  BY LeakFinite, FS_RemoveElement
<1>4. Requests' = Requests
  BY DEF Requests
<1>5. Cardinality(Leaked \cup {k}) \in Nat
  BY <1>1, FS_CardinalityType
<1>6. QED
  BY <1>1, <1>2, <1>3, <1>4, <1>5, LeakFinite DEF LeakBound

\* A U54 that opens a request is pending then.
LEMMA OneOpened ==
    ASSUME TypeOK, LeakBound, NEW u \in U54, Leaked' = Leaked,
           u \notin Pending, Pending' = Pending \cup {u},
           reqs[u] < MaxReq, reqs' = [reqs EXCEPT ![u] = @ + 1]
    PROVE  LeakBound'
<1> DEFINE r == <<u, reqs[u] + 1>>
<1>1. reqs[u] \in Nat /\ reqs[u] + 1 \in 1..MaxReq
  BY AllocAssumption DEF TypeOK
<1>2. r \notin Requests
  BY <1>1 DEF Requests
<1>3. ASSUME NEW v \in U54, NEW n \in 1..MaxReq
      PROVE  n <= reqs'[v] <=> n <= reqs[v] \/ (v = u /\ n = reqs[u] + 1)
  BY <1>1 DEF TypeOK
<1>4. Requests' = Requests \cup {r}
  BY <1>1, <1>3 DEF Requests
<1>5. Cardinality(Requests') = Cardinality(Requests) + 1
  BY <1>2, <1>4, LeakFinite, FS_AddElement
<1>6. Cardinality(Pending') = Cardinality(Pending) + 1
  BY LeakFinite, FS_AddElement
<1>7. QED
  BY <1>5, <1>6, LeakFinite DEF LeakBound

\* Every step keeps the bound, remoteproc starts included.
LEMMA LeakNext == TypeOK /\ LeakBound /\ [Next]_vars => LeakBound'
<1> SUFFICES ASSUME TypeOK, LeakBound, [Next]_vars PROVE LeakBound'
  OBVIOUS
<1>0. \A h \in Hart : h = E51 \/ h \in U54
  BY AllocAssumption DEF Hart, U54, E51
<1>1. ASSUME NEW p, pc' = [pc EXCEPT ![E51] = p]
      PROVE  pc'[E51] = p /\ Pending' = Pending
  BY <1>1, Ranges DEF TypeOK, Pending
<1>2. CASE Search(E51)
  <2>1. PICK p \in {"search", "take", "none"} : pc' = [pc EXCEPT ![E51] = p]
    BY <1>2 DEF Search, Goto
  <2>2. Leaked' \subseteq Leaked
    BY <1>1, <1>2, <2>1 DEF Search, Leaked
  <2>3. QED
    BY <1>1, <1>2, <2>1, <2>2, NothingLost DEF Search
<1>3. CASE Take(E51)
  <2>1. pc' = [pc EXCEPT ![E51] = "deliver"]
    BY <1>3 DEF Take, Goto
  <2>2. Leaked' \subseteq Leaked
    BY <1>1, <1>3, <2>1 DEF Take, Leaked, TypeOK
  <2>3. QED
    BY <1>1, <1>3, <2>1, <2>2, NothingLost DEF Take
<1>4. CASE MessageFree(E51)
  <2>1. PICK p \in {"idle", "halted"} : pc' = [pc EXCEPT ![E51] = p]
    BY <1>4 DEF MessageFree, Goto
  <2>2. \A k \in Index : used'[k] => used[k] /\ k # index[E51]
    BY <1>4, Ranges DEF MessageFree, TypeOK
  <2>3. Leaked' \subseteq Leaked
    BY <1>1, <1>4, <2>1, <2>2 DEF MessageFree, Leaked
  <2>4. QED
    BY <1>1, <1>4, <2>1, <2>3, NothingLost DEF MessageFree
<1>5. CASE E51Request \/ E51NoEntry
  <2>1. PICK p \in {"search", "exhausted"} : pc' = [pc EXCEPT ![E51] = p]
    BY <1>5 DEF E51Request, E51NoEntry, Goto
  <2>2. Leaked' \subseteq Leaked
    BY <1>1, <1>5, <2>1 DEF E51Request, E51NoEntry, Leaked
  <2>3. QED
    BY <1>1, <1>5, <2>1, <2>2, NothingLost DEF E51Request, E51NoEntry
<1>6. CASE E51Deliver
  <2>1. PICK p \in {"idle", "free"} : pc' = [pc EXCEPT ![E51] = p]
    BY <1>6 DEF E51Deliver, Goto
  <2>2. Leaked' \subseteq Leaked
    BY <1>1, <1>6, <2>1 DEF E51Deliver, Leaked
  <2>3. QED
    BY <1>1, <1>6, <2>1, <2>2, NothingLost DEF E51Deliver
<1>7. ASSUME NEW k \in Index, E51Finish(k) PROVE LeakBound'
  <2>1. pc' = [pc EXCEPT ![E51] = "free"] /\ index'[E51] = k
    BY <1>7, Ranges DEF E51Finish, Goto, TypeOK
  <2>2. Leaked' \subseteq Leaked
    BY <1>1, <1>7, <2>1 DEF E51Finish, Leaked
  <2>3. QED
    BY <1>1, <1>7, <2>1, <2>2, NothingLost DEF E51Finish
<1>8. ASSUME NEW u \in U54, E51Consume(u) PROVE LeakBound'
  BY <1>8, NothingLost DEF E51Consume, Leaked, Pending
<1>9. ASSUME NEW u \in U54, NEW p, pc' = [pc EXCEPT ![u] = p]
      PROVE  pc'[E51] = pc[E51] /\ pc'[u] = p /\ \A v \in U54 : v # u => pc'[v] = pc[v]
  BY <1>9, Ranges DEF TypeOK
<1>10. ASSUME NEW u \in U54, Search(u) \/ U54NoEntry(u) \/ U54Deliver(u) \/ MessageFree(u)
       PROVE  LeakBound'
  <2>1. \E p : pc' = [pc EXCEPT ![u] = p] /\ (p \in {"search", "take"} => pc[u] = "search")
    BY <1>10 DEF Search, U54NoEntry, U54Deliver, MessageFree, Goto
  <2>2. Pending' \subseteq Pending
    BY <1>9, <2>1 DEF Pending
  <2>3. index'[E51] = index[E51]
    BY <1>10, Ranges DEF Search, U54NoEntry, U54Deliver, MessageFree, TypeOK
  <2>4. \A k \in Index : used'[k] => used[k]
    <3>1. CASE MessageFree(u)
      BY <3>1 DEF MessageFree, TypeOK
    <3>2. CASE ~MessageFree(u)
      BY <1>10, <3>2 DEF Search, U54NoEntry, U54Deliver
    <3>3. QED
      BY <3>1, <3>2
  <2>5. held' = held /\ reqs' = reqs
    BY <1>10 DEF Search, U54NoEntry, U54Deliver, MessageFree
  <2>6. Leaked' \subseteq Leaked
    BY <1>9, <2>1, <2>3, <2>4, <2>5 DEF Leaked
  <2>7. QED
    BY <2>2, <2>5, <2>6, NothingLost
<1>11. ASSUME NEW u \in U54, Take(u) PROVE LeakBound'
  <2>1. pc' = [pc EXCEPT ![u] = "deliver"] /\ u \in Pending
    BY <1>11 DEF Take, Goto, Pending
  <2>2. Pending' = Pending \ {u}
    <3>1. pc'[u] = "deliver" /\ \A v \in U54 : v # u => pc'[v] = pc[v]
      BY <1>9, <2>1
    <3>2. QED
      BY <3>1 DEF Pending
  <2>3. Leaked' \subseteq Leaked \cup {index[u]}
    BY <1>9, <1>11, <2>1 DEF Take, Leaked, TypeOK
  <2>4. QED
    BY <1>11, <2>1, <2>2, <2>3, OneTaken DEF Take
<1>12. ASSUME NEW u \in U54, U54Request(u) PROVE LeakBound'
  <2>1. pc' = [pc EXCEPT ![u] = "search"] /\ u \notin Pending
    BY <1>12 DEF U54Request, Goto, Pending
  <2>2. Pending' = Pending \cup {u}
    BY <1>9, <2>1 DEF Pending
  <2>3. Leaked' = Leaked
    BY <1>9, <1>12, <2>1 DEF U54Request, Leaked
  <2>4. QED
    BY <1>12, <2>1, <2>2, <2>3, OneOpened DEF U54Request
<1>13. CASE UNCHANGED vars
  BY <1>13, NothingLost DEF vars, Leaked, Pending
<1>14. QED
  BY <1>0, <1>2, <1>3, <1>4, <1>5, <1>6, <1>7, <1>8, <1>10, <1>11, <1>12, <1>13 DEF Next

\* The bound holds in every reachable state.
THEOREM LeakCorrect == Spec => []LeakBound
<1>1. Init => LeakBound
  <2> SUFFICES ASSUME Init PROVE LeakBound
    OBVIOUS
  <2>1. Leaked = {} /\ Pending = {}
    BY Ranges DEF Init, Leaked, Pending
  <2>2. QED
    BY <2>1, FS_EmptySet, LeakFinite DEF LeakBound
<1>2. QED
  BY <1>1, TypeCorrect, LeakNext, PTL DEF Spec

\* When the E51 finds no entry all entries are in use, and each is waited for
\* by the E51 or owed to a warm reboot: assert(result) behind IPI_MessageAlloc
\* cannot fail because of a race alone.
THEOREM ExhaustedCorrect ==
    ASSUME Rproc = FALSE
    PROVE  Spec => []ExhaustedOnlyByLeaks
<1>1. TypeOK /\ AllocInv /\ LeakBound => ExhaustedOnlyByLeaks
  <2> SUFFICES ASSUME TypeOK, AllocInv, LeakBound, pc[E51] \in {"none", "exhausted"}
               PROVE  Cardinality(Requests) + Cardinality(held) >= K
    BY DEF ExhaustedOnlyByLeaks
  <2>1. IsFiniteSet(Index) /\ Cardinality(Index) = K
    BY FS_Interval, AllocAssumption DEF Index
  <2>2. IsFiniteSet(held) /\ Cardinality(held) \in Nat
    BY <2>1, FS_Subset, FS_CardinalityType DEF TypeOK
  <2>3. Leaked \cup held = Index
    BY DEF AllocInv, Leaked, TypeOK
  <2>4. Leaked \cap held = {}
    BY DEF Leaked
  <2>5. Cardinality(Index) = Cardinality(Leaked) + Cardinality(held)
    <3>1. Cardinality(Leaked \cup held) =
            Cardinality(Leaked) + Cardinality(held) - Cardinality(Leaked \cap held)
      BY <2>2, LeakFinite, FS_Union, Zenon
    <3>2. Cardinality(Leaked \cap held) = 0
      BY <2>4, FS_EmptySet
    <3>3. Cardinality(Index) = Cardinality(Leaked \cup held)
      BY <2>3, Zenon
    <3>4. QED
      BY <2>2, <3>1, <3>2, <3>3, LeakFinite
  <2>6. QED
    BY <2>1, <2>2, <2>5, LeakFinite, AllocAssumption DEF LeakBound
<1>2. QED
  BY <1>1, AllocCorrect, LeakCorrect, PTL

=============================================================================
