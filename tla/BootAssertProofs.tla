--------------------------- MODULE BootAssertProofs ---------------------------
(***************************************************************************)
(* Queues and completion entries suffice for a number of boots: a boot     *)
(* command or a request of a payload makes the machines send a fixed set   *)
(* of messages, at most, so with enough slots and entries every message of *)
(* the E51 is delivered and no assertion stops it.                         *)
(***************************************************************************)
EXTENDS BootServiceProofs

-----------------------------------------------------------------------------
(* What a boot may send                                                    *)

\* Machine h may come to BOOT_OPENSBI_INIT: by its chunks or by a request.
Reaches(h) == NumChunks[h] # 0 \/ h \in SkipAutoboot

\* The messages that one boot command, or one request, makes machine h send to
\* hart u: PMP_SETUP, the launch of another hart of the boot set by the
\* handler of BOOT_OPENSBI_INIT, the launch of its own hart on the exit.
Granted(u, h, kind) ==
    \/ kind = "pmp" /\ u = h
    \/ kind = "peer" /\ PrimaryBootHart(h) /\ u \in Peers(h)
    \/ kind = "exit" /\ u = h /\ EntryPoint[h] # 0 /\ Reaches(h)

\* Where a message comes from: its machine and its kind; "old" is the exit of a boot before.
Kind == {"pmp", "peer", "exit", "old"}
Source == U54 \X Kind

PerBootTo(u) == {s \in Source : Granted(u, s[1], s[2])}
PerBoot == {t \in U54 \X Source : Granted(t[1], t[2][1], t[2][2])}

\* The queues take all messages of the boots and requests there may be.
QueuesSuffice ==
    \A u \in U54 :
        Cardinality(PerBootTo(u)) * (scenario.maxBoots + scenario.maxRequests) <= N

\* So do the completion entries, with one for each request.
EntriesSuffice ==
    Cardinality(PerBoot) * (scenario.maxBoots + scenario.maxRequests)
        + scenario.maxRequests <= K

-----------------------------------------------------------------------------
(* What the machines have still to send                                    *)

\* Machine h will enter BOOT_OPENSBI_INIT unless something fails.
Entering(h) ==
    \/ state[h] \in {"INITIALIZATION", "SETUP_PMP", "SETUP_PMP_COMPLETE", "ZERO_INIT_CHUNKS",
                     "DOWNLOAD_CHUNKS"}
    \/ state[h] = "OPENSBI_INIT" /\ prevState[h] # "OPENSBI_INIT"

PmpDue(h) ==
    \/ state[h] = "INITIALIZATION"
    \/ state[h] = "SETUP_PMP" /\ (prevState[h] # "SETUP_PMP" \/ msgIndex[h] = K)

PeerDue(u, h) ==
    \/ Entering(h)
    \/ state[h] = "OPENSBI_INIT" /\ iterator[h] < u

Owes(u, h, kind) ==
    \/ kind = "pmp" /\ Granted(u, h, "pmp") /\ PmpDue(h)
    \/ kind = "peer" /\ Granted(u, h, "peer") /\ PeerDue(u, h)
    \/ kind = "exit" /\ Granted(u, h, "exit") /\ Entering(h)
    \/ kind = "old" /\ u = h /\ EntryPoint[h] # 0 /\ prevState[h] = "OPENSBI_INIT"

DueTo(u) == {s \in Source : Owes(u, s[1], s[2])}
Due == {t \in U54 \X Source : Owes(t[1], t[2][1], t[2][2])}

UsedEntries == {k \in Index : completes[k].used}

\* The requests the E51 has not taken yet, and the boots it has begun.
Asked == UNION {{<<u, m>> : m \in {n \in inbox[u] : n.type = "BOOT_REQUEST"}} : u \in U54}
Begun == boots + requests - Cardinality(Asked)

\* A machine is in the state whose handler runs: no launch has failed.
Captured ==
    phase = "handler" =>
        \A h \in U54 : turn = h => state[h] = cur /\ prevState[h] = cur

\* Only machines with chunks, and those a request names, launch.
Reached ==
    /\ \A h \in U54 :
          state[h] = "OPENSBI_INIT" \/ prevState[h] = "OPENSBI_INIT" => Reaches(h)
    /\ \A u \in U54 : \A m \in inbox[u] :
          m.type = "BOOT_REQUEST" => m.target = 0 \/ m.target \in SkipAutoboot

AskedInv == IsFiniteSet(Asked) /\ Cardinality(Asked) <= requests

\* What a queue holds and what is still to be sent to it was granted.
QueuesInv ==
    \A u \in U54 :
        Cardinality(queue[u]) + Cardinality(DueTo(u)) <= Cardinality(PerBootTo(u)) * Begun

EntriesCount ==
    Cardinality(UsedEntries) + Cardinality(Due) <= Cardinality(PerBoot) * Begun + requests

FitInv == Captured /\ Reached /\ AskedInv /\ QueuesInv

\* No machine runs before there is an image, and none loses it.
ImageFirst ==
    ~scenario.storageFails /\ ~image =>
        /\ \A h \in U54 : /\ state[h] = "IDLE" /\ prevState[h] \in {"INVALID", "IDLE"}
                          /\ queue[h] = {} /\ inbox[h] = {} /\ ustate[h] = "hss"
        /\ phase = "handler" => cur = "IDLE"

-----------------------------------------------------------------------------
(* Counting                                                                *)

\* There are finitely many sources of messages.
LEMMA SourcesFinite == IsFiniteSet(Source) /\ IsFiniteSet(U54 \X Source)
<1>1. IsFiniteSet(U54)
  BY FS_Interval, ImageAssumption DEF U54
<1>2. IsFiniteSet(Kind)
  <2>1. IsFiniteSet({"pmp"} \cup {"peer"})
    BY FS_Singleton, FS_AddElement
  <2>2. IsFiniteSet({"pmp"} \cup {"peer"} \cup {"exit"})
    BY <2>1, FS_AddElement
  <2>3. IsFiniteSet({"pmp"} \cup {"peer"} \cup {"exit"} \cup {"old"})
    BY <2>2, FS_AddElement
  <2>4. Kind = {"pmp"} \cup {"peer"} \cup {"exit"} \cup {"old"}
    BY DEF Kind
  <2>5. QED
    BY <2>3, <2>4
<1>3. IsFiniteSet(Source)
  BY <1>1, <1>2, FS_Product DEF Source
<1>4. QED
  BY <1>1, <1>3, FS_Product

\* The sets of messages are finite, also in the next state.
LEMMA MessagesFinite ==
    /\ \A u : IsFiniteSet(PerBootTo(u)) /\ Cardinality(PerBootTo(u)) \in Nat
    /\ \A u : IsFiniteSet(DueTo(u)) /\ Cardinality(DueTo(u)) \in Nat
    /\ \A u : IsFiniteSet(DueTo(u)') /\ Cardinality(DueTo(u)') \in Nat
    /\ IsFiniteSet(PerBoot) /\ Cardinality(PerBoot) \in Nat
    /\ IsFiniteSet(Due) /\ Cardinality(Due) \in Nat
    /\ IsFiniteSet(Due') /\ Cardinality(Due') \in Nat
<1>1. \A u : PerBootTo(u) \subseteq Source /\ DueTo(u) \subseteq Source /\ DueTo(u)' \subseteq Source
  BY DEF PerBootTo, DueTo
<1>2. /\ PerBoot \subseteq U54 \X Source /\ Due \subseteq U54 \X Source
      /\ Due' \subseteq U54 \X Source
  BY DEF PerBoot, Due
<1>3. ASSUME NEW S, S \subseteq Source PROVE IsFiniteSet(S) /\ Cardinality(S) \in Nat
  BY <1>3, SourcesFinite, FS_Subset, FS_CardinalityType
<1>4. ASSUME NEW S, S \subseteq U54 \X Source PROVE IsFiniteSet(S) /\ Cardinality(S) \in Nat
  BY <1>4, SourcesFinite, FS_Subset, FS_CardinalityType
<1>5. QED
  BY <1>1, <1>2, <1>3, <1>4, Zenon

\* A set that loses an element, or trades one for another, or gains a set.
LEMMA CountSubset ==
    ASSUME NEW S, NEW T, IsFiniteSet(S), T \subseteq S
    PROVE  IsFiniteSet(T) /\ Cardinality(T) \in Nat /\ Cardinality(T) <= Cardinality(S)
BY FS_Subset, FS_CardinalityType

LEMMA CountSpent ==
    ASSUME NEW S, NEW T, NEW a, IsFiniteSet(S), a \in S, T \subseteq S \ {a}
    PROVE  Cardinality(T) + 1 <= Cardinality(S)
<1>1. IsFiniteSet(S \ {a}) /\ Cardinality(S \ {a}) = Cardinality(S) - 1
  BY FS_RemoveElement
<1>2. Cardinality(T) <= Cardinality(S \ {a}) /\ Cardinality(T) \in Nat
  BY <1>1, CountSubset
<1>3. QED
  BY <1>1, <1>2, FS_CardinalityType

LEMMA CountAdded ==
    ASSUME NEW S, NEW T, NEW a, IsFiniteSet(S), T \subseteq S \cup {a}
    PROVE  IsFiniteSet(T) /\ Cardinality(T) \in Nat /\ Cardinality(T) <= Cardinality(S) + 1
<1>1. IsFiniteSet(S \cup {a}) /\ Cardinality(S \cup {a}) <= Cardinality(S) + 1
  <2>1. Cardinality(S) \in Nat
    BY FS_CardinalityType
  <2>2. QED
    BY <2>1, FS_AddElement
<1>2. IsFiniteSet(T) /\ Cardinality(T) <= Cardinality(S \cup {a}) /\ Cardinality(T) \in Nat
  BY <1>1, CountSubset
<1>3. QED
  BY <1>1, <1>2, FS_CardinalityType

LEMMA CountTraded ==
    ASSUME NEW S, NEW T, NEW a, NEW b, IsFiniteSet(S), a \in S, T \subseteq (S \ {a}) \cup {b}
    PROVE  Cardinality(T) <= Cardinality(S)
<1>1. IsFiniteSet(S \ {a}) /\ Cardinality(S \ {a}) = Cardinality(S) - 1
  BY FS_RemoveElement
<1>2. Cardinality(T) <= Cardinality(S \ {a}) + 1
  BY <1>1, CountAdded
<1>3. QED
  BY <1>1, <1>2, FS_CardinalityType

LEMMA CountUnion ==
    ASSUME NEW S, NEW T, NEW U, IsFiniteSet(S), IsFiniteSet(U), T \subseteq S \cup U
    PROVE  Cardinality(T) <= Cardinality(S) + Cardinality(U)
<1>1. /\ IsFiniteSet(S \cup U) /\ IsFiniteSet(S \cap U)
      /\ Cardinality(S \cup U) = Cardinality(S) + Cardinality(U) - Cardinality(S \cap U)
  BY FS_Union, FS_Subset
<1>2. Cardinality(T) <= Cardinality(S \cup U)
  BY <1>1, CountSubset
<1>3. QED
  BY <1>1, <1>2, CountSubset, FS_CardinalityType

-----------------------------------------------------------------------------
(* What a step does to what is owed                                        *)

\* Nothing is owed that was not owed before.
NoneAdded == \A u, h \in U54 : \A kind \in Kind : Owes(u, h, kind)' => Owes(u, h, kind)

\* Machine g enters BOOT_OPENSBI_INIT: its exit is now that of a boot under way.
Trade(g) ==
    /\ Owes(g, g, "exit") /\ ~Owes(g, g, "exit")'
    /\ \A u, h \in U54 : \A kind \in Kind :
          Owes(u, h, kind)' => Owes(u, h, kind) \/ (u = g /\ h = g /\ kind = "old")

\* A message that was owed has been sent.
Spent(v, g, type) == NoneAdded /\ Owes(v, g, type) /\ ~Owes(v, g, type)'

\* A boot begins.
Renewed ==
    \A u, h \in U54 : \A kind \in Kind :
        Owes(u, h, kind)' => Owes(u, h, kind) \/ Granted(u, h, kind)

LEMMA NoneAddedCount ==
    ASSUME NoneAdded
    PROVE  /\ Cardinality(Due') <= Cardinality(Due)
           /\ \A u \in U54 : Cardinality(DueTo(u)') <= Cardinality(DueTo(u))
<1>1. Due' \subseteq Due /\ \A u \in U54 : DueTo(u)' \subseteq DueTo(u)
  BY DEF NoneAdded, Due, DueTo, Source
<1>2. QED
  BY <1>1, MessagesFinite, CountSubset, Zenon

LEMMA TradeCount ==
    ASSUME NEW g \in U54, Trade(g)
    PROVE  /\ Cardinality(Due') <= Cardinality(Due)
           /\ \A u \in U54 : Cardinality(DueTo(u)') <= Cardinality(DueTo(u))
<1>1. /\ <<g, <<g, "exit">>>> \in Due
      /\ Due' \subseteq (Due \ {<<g, <<g, "exit">>>>}) \cup {<<g, <<g, "old">>>>}
  BY DEF Trade, Due, Source, Kind
<1>2. /\ <<g, "exit">> \in DueTo(g)
      /\ DueTo(g)' \subseteq (DueTo(g) \ {<<g, "exit">>}) \cup {<<g, "old">>}
  BY DEF Trade, DueTo, Source, Kind
<1>3. \A u \in U54 \ {g} : DueTo(u)' \subseteq DueTo(u)
  BY DEF Trade, DueTo, Source
<1>4. Cardinality(Due') <= Cardinality(Due)
  BY <1>1, MessagesFinite, CountTraded, Zenon
<1>5. Cardinality(DueTo(g)') <= Cardinality(DueTo(g))
  BY <1>2, MessagesFinite, CountTraded, Zenon
<1>6. QED
  BY <1>3, <1>4, <1>5, MessagesFinite, CountSubset, Zenon

LEMMA SpentCount ==
    ASSUME NEW v \in U54, NEW g \in U54, NEW type \in Kind, Spent(v, g, type)
    PROVE  /\ Cardinality(Due') + 1 <= Cardinality(Due)
           /\ Cardinality(DueTo(v)') + 1 <= Cardinality(DueTo(v))
           /\ \A u \in U54 : Cardinality(DueTo(u)') <= Cardinality(DueTo(u))
<1>1. <<v, <<g, type>>>> \in Due /\ Due' \subseteq Due \ {<<v, <<g, type>>>>}
  BY DEF Spent, NoneAdded, Due, Source
<1>2. <<g, type>> \in DueTo(v) /\ DueTo(v)' \subseteq DueTo(v) \ {<<g, type>>}
  BY DEF Spent, NoneAdded, DueTo, Source
<1>3. Cardinality(Due') + 1 <= Cardinality(Due)
  BY <1>1, MessagesFinite, CountSpent, Zenon
<1>4. Cardinality(DueTo(v)') + 1 <= Cardinality(DueTo(v))
  BY <1>2, MessagesFinite, CountSpent, Zenon
<1>5. QED
  BY <1>3, <1>4, NoneAddedCount DEF Spent

LEMMA RenewedCount ==
    ASSUME Renewed
    PROVE  /\ Cardinality(Due') <= Cardinality(Due) + Cardinality(PerBoot)
           /\ \A u \in U54 :
                 Cardinality(DueTo(u)') <= Cardinality(DueTo(u)) + Cardinality(PerBootTo(u))
<1>1. Due' \subseteq Due \cup PerBoot
  BY DEF Renewed, Due, PerBoot, Source
<1>2. \A u \in U54 : DueTo(u)' \subseteq DueTo(u) \cup PerBootTo(u)
  BY DEF Renewed, DueTo, PerBootTo, Source
<1>3. QED
  BY <1>1, <1>2, MessagesFinite, CountUnion, Zenon

\* The products in the bounds.
LEMMA Products ==
    /\ \A a, b, c \in Nat : b <= c => a * b <= a * c
    /\ \A a, b \in Nat : a * (b + 1) = a * b + a
    /\ \A a, b \in Nat : a * b \in Nat
<1>1. ASSUME NEW a \in Nat, NEW b \in Nat, NEW c \in Nat, b <= c PROVE a * b <= a * c
  <2>1. PICK d \in Nat : c = b + d
    BY <1>1
  <2>2. a * c = a * b + a * d /\ a * d \in Nat
    BY <2>1
  <2>3. QED
    BY <2>2
<1>2. QED
  BY <1>1

\* The boots that have begun are among those there may be.
LEMMA BegunType ==
    ASSUME TypeInv, AskedInv
    PROVE  Begun \in Nat /\ Begun <= scenario.maxBoots + scenario.maxRequests
<1>1. /\ boots \in 0..scenario.maxBoots /\ requests \in 0..scenario.maxRequests
      /\ scenario.maxBoots \in Nat /\ scenario.maxRequests \in Nat
  BY ScenarioType DEF TypeInv, BoundsOK
<1>2. Cardinality(Asked) \in Nat /\ Cardinality(Asked) <= requests
  BY FS_CardinalityType DEF AskedInv
<1>3. QED
  BY <1>1, <1>2 DEF Begun

\* A message that is owed finds room in its queue.
LEMMA RoomForOwed ==
    ASSUME TypeInv, AskedInv, QueuesInv, QueuesSuffice,
           NEW u \in U54, NEW h \in U54, NEW kind \in Kind, Owes(u, h, kind)
    PROVE  Sent(u)
<1>1. <<h, kind>> \in DueTo(u)
  BY DEF DueTo, Source
<1>2. Cardinality(DueTo(u)) # 0 /\ Cardinality(DueTo(u)) \in Nat
  BY <1>1, MessagesFinite, FS_EmptySet
<1>3. Cardinality(queue[u]) \in Nat
  BY FS_CardinalityType DEF TypeInv, QueueOK
<1>4. Cardinality(queue[u]) + 1 <= Cardinality(PerBootTo(u)) * Begun
  <2>1. Cardinality(PerBootTo(u)) * Begun \in Nat
    BY BegunType, MessagesFinite, Products
  <2>2. Cardinality(queue[u]) + Cardinality(DueTo(u)) <= Cardinality(PerBootTo(u)) * Begun
    BY DEF QueuesInv
  <2>3. QED
    BY <1>2, <1>3, <2>1, <2>2
<1>5. Cardinality(PerBootTo(u)) * Begun
        <= Cardinality(PerBootTo(u)) * (scenario.maxBoots + scenario.maxRequests)
  <2>1. scenario.maxBoots + scenario.maxRequests \in Nat
    BY ScenarioType DEF TypeInv, BoundsOK
  <2>2. QED
    BY <2>1, BegunType, MessagesFinite, Products
<1>6. Cardinality(PerBootTo(u)) * (scenario.maxBoots + scenario.maxRequests) <= N
  BY DEF QueuesSuffice
<1>7. /\ Cardinality(PerBootTo(u)) * Begun \in Nat /\ N \in Nat
      /\ Cardinality(PerBootTo(u)) * (scenario.maxBoots + scenario.maxRequests) \in Nat
  <2>1. scenario.maxBoots + scenario.maxRequests \in Nat
    BY ScenarioType DEF TypeInv, BoundsOK
  <2>2. QED
    BY <2>1, BegunType, MessagesFinite, Products, ImageAssumption
<1>8. Cardinality(queue[u]) < N
  BY <1>3, <1>4, <1>5, <1>6, <1>7
<1>9. QED
  BY <1>8 DEF Sent

-----------------------------------------------------------------------------
(* The four kinds of steps                                                 *)

KeepsBooks == UNCHANGED <<scenario, boots, requests, Asked>>

\* Nothing is sent, nothing begins.
QuietStep ==
    /\ NoneAdded \/ \E g \in U54 : Trade(g)
    /\ KeepsBooks
    /\ UsedEntries' \subseteq UsedEntries
    /\ \A u \in U54 : queue'[u] \subseteq queue[u]

\* A machine sends a message that is owed.
SendStep ==
    /\ KeepsBooks
    /\ \E k : UsedEntries' \subseteq UsedEntries \cup {k}
    /\ \E v, g \in U54 : \E kind \in Kind :
          /\ Spent(v, g, kind)
          /\ \A u \in U54 : u # v => queue'[u] = queue[u]
          /\ \E m : queue'[v] \subseteq queue[v] \cup {m}

\* A boot command, or a request that is taken.
BeginStep ==
    /\ Renewed
    /\ UNCHANGED <<scenario, requests, queue, completes>>
    /\ \/ boots' = boots + 1 /\ Asked' = Asked
       \/ boots' = boots /\ \E x \in Asked : Asked' = Asked \ {x}

\* A payload makes a request.
AskStep ==
    /\ NoneAdded
    /\ UNCHANGED <<scenario, boots, queue>> /\ requests' = requests + 1
    /\ \E k : UsedEntries' \subseteq UsedEntries \cup {k}
    /\ \E x : Asked' \subseteq Asked \cup {x}

CountedStep == QuietStep \/ SendStep \/ BeginStep \/ AskStep

\* What was granted stays, and the books are kept.
LEMMA BooksNext ==
    ASSUME TypeInv, AskedInv, CountedStep
    PROVE  /\ AskedInv'
           /\ PerBoot' = PerBoot /\ \A u \in U54 : PerBootTo(u)' = PerBootTo(u)
           /\ ~BeginStep => Begun <= Begun' /\ (Begun' = Begun \/ AskStep)
           /\ BeginStep => Begun' = Begun + 1
           /\ Begun \in Nat /\ Begun' \in Nat /\ requests \in Nat
<1>1. UNCHANGED scenario
  BY DEF CountedStep, QuietStep, SendStep, BeginStep, AskStep, KeepsBooks
<1>2. PerBoot' = PerBoot /\ \A u \in U54 : PerBootTo(u)' = PerBootTo(u)
  BY <1>1 DEF PerBoot, PerBootTo, Granted, PrimaryBootHart, Peers, Reaches, NumChunks, EntryPoint,
     SkipAutoboot
<1>3. /\ boots \in Nat /\ requests \in Nat /\ Begun \in Nat
      /\ IsFiniteSet(Asked) /\ Cardinality(Asked) \in Nat /\ Cardinality(Asked) <= requests
  BY BegunType, FS_CardinalityType, ScenarioType DEF AskedInv, TypeInv, BoundsOK
<1>4. CASE KeepsBooks
  <2>1. AskedInv' /\ Begun' = Begun
    BY <1>4 DEF KeepsBooks, AskedInv, Begun
  <2>2. ~BeginStep
    <3>1. SUFFICES ASSUME BeginStep PROVE FALSE
      OBVIOUS
    <3>2. boots' = boots /\ Asked' = Asked
      BY <1>4 DEF KeepsBooks
    <3>3. QED
      BY <3>1, <3>2, <1>3 DEF BeginStep
  <2>3. QED
    BY <1>2, <1>3, <2>1, <2>2
<1>5. CASE BeginStep
  <2>1. CASE boots' = boots + 1 /\ Asked' = Asked
    BY <1>2, <1>3, <1>5, <2>1 DEF BeginStep, AskedInv, Begun
  <2>2. CASE boots' = boots /\ \E x \in Asked : Asked' = Asked \ {x}
    <3>1. IsFiniteSet(Asked') /\ Cardinality(Asked') = Cardinality(Asked) - 1
      BY <1>3, <2>2, FS_RemoveElement
    <3>2. Cardinality(Asked') \in Nat
      BY <3>1, FS_CardinalityType
    <3>3. QED
      BY <1>2, <1>3, <1>5, <2>2, <3>1, <3>2 DEF BeginStep, AskedInv, Begun
  <2>3. QED
    BY <1>5, <2>1, <2>2 DEF BeginStep
<1>6. CASE AskStep
  <2>1. IsFiniteSet(Asked') /\ Cardinality(Asked') \in Nat /\ Cardinality(Asked') <= Cardinality(Asked) + 1
    BY <1>3, <1>6, CountAdded DEF AskStep
  <2>2. boots' = boots /\ requests' = requests + 1
    BY <1>6 DEF AskStep
  <2>3. ~BeginStep
    BY <1>3, <2>2 DEF BeginStep
  <2>4. QED
    BY <1>2, <1>3, <1>6, <2>1, <2>2, <2>3 DEF AskedInv, Begun
<1>7. QED
  BY <1>4, <1>5, <1>6 DEF CountedStep, QuietStep, SendStep

\* A queue and what is owed to it grow only by what a boot is granted.
LEMMA QueuesNext ==
    ASSUME TypeInv, AskedInv, QueuesInv, CountedStep
    PROVE  QueuesInv'
<1> SUFFICES ASSUME NEW u \in U54
             PROVE  Cardinality(queue'[u]) + Cardinality(DueTo(u)')
                      <= Cardinality(PerBootTo(u)') * Begun'
  BY DEF QueuesInv
<1> DEFINE p == Cardinality(PerBootTo(u))
<1>1. /\ IsFiniteSet(queue[u]) /\ Cardinality(queue[u]) \in Nat
      /\ Cardinality(DueTo(u)) \in Nat /\ Cardinality(DueTo(u)') \in Nat
      /\ p \in Nat /\ PerBootTo(u)' = PerBootTo(u)
      /\ Begun \in Nat /\ Begun' \in Nat /\ Begun <= Begun'
  BY BooksNext, MessagesFinite, FS_CardinalityType DEF TypeInv, QueueOK
<1>2. Cardinality(queue[u]) + Cardinality(DueTo(u)) <= p * Begun
  BY DEF QueuesInv
<1>3. p * Begun \in Nat /\ p * Begun' \in Nat /\ p * Begun <= p * Begun'
  BY <1>1, Products
<1>4. CASE QuietStep
  <2>1. Cardinality(queue'[u]) \in Nat /\ Cardinality(queue'[u]) <= Cardinality(queue[u])
    BY <1>1, <1>4, CountSubset DEF QuietStep
  <2>2. Cardinality(DueTo(u)') <= Cardinality(DueTo(u))
    BY <1>4, NoneAddedCount, TradeCount DEF QuietStep
  <2>3. QED
    BY <1>1, <1>2, <1>3, <2>1, <2>2
<1>5. CASE SendStep
  <2>1. PICK v \in U54, g \in U54, kind \in Kind :
          /\ Spent(v, g, kind)
          /\ \A w \in U54 : w # v => queue'[w] = queue[w]
          /\ \E m : queue'[v] \subseteq queue[v] \cup {m}
    BY <1>5 DEF SendStep
  <2>2. CASE u = v
    <3>1. /\ Cardinality(queue'[u]) \in Nat
          /\ Cardinality(queue'[u]) <= Cardinality(queue[u]) + 1
      BY <1>1, <2>1, <2>2, CountAdded
    <3>2. Cardinality(DueTo(u)') + 1 <= Cardinality(DueTo(u))
      BY <2>1, <2>2, SpentCount
    <3>3. QED
      BY <1>1, <1>2, <1>3, <3>1, <3>2
  <2>3. CASE u # v
    <3>1. Cardinality(DueTo(u)') <= Cardinality(DueTo(u))
      BY <2>1, SpentCount
    <3>2. QED
      BY <1>1, <1>2, <1>3, <2>1, <2>3, <3>1
  <2>4. QED
    BY <2>2, <2>3
<1>6. CASE BeginStep
  <2>1. Cardinality(DueTo(u)') <= Cardinality(DueTo(u)) + p
    BY <1>6, RenewedCount DEF BeginStep
  <2>2. p * Begun' = p * Begun + p
    BY <1>1, <1>6, BooksNext, Products
  <2>3. queue'[u] = queue[u]
    BY <1>6 DEF BeginStep
  <2>4. QED
    BY <1>1, <1>2, <1>3, <2>1, <2>2, <2>3
<1>7. CASE AskStep
  <2>1. Cardinality(DueTo(u)') <= Cardinality(DueTo(u)) /\ queue'[u] = queue[u]
    BY <1>7, NoneAddedCount DEF AskStep
  <2>2. QED
    BY <1>1, <1>2, <1>3, <2>1
<1>8. QED
  BY <1>4, <1>5, <1>6, <1>7 DEF CountedStep

\* The entries in use are finitely many.
LEMMA UsedFinite ==
    /\ IsFiniteSet(UsedEntries) /\ Cardinality(UsedEntries) \in Nat
    /\ IsFiniteSet(UsedEntries') /\ Cardinality(UsedEntries') \in Nat
<1>1. IsFiniteSet(Index)
  BY FS_Interval, ImageAssumption DEF Index
<1>2. UsedEntries \subseteq Index /\ UsedEntries' \subseteq Index
  BY DEF UsedEntries
<1>3. QED
  BY <1>1, <1>2, FS_Subset, FS_CardinalityType

\* The sums in the bound.
LEMMA Sums ==
    ASSUME NEW e \in Nat, NEW f \in Nat, NEW d \in Nat, NEW c \in Nat, NEW b \in Nat,
           NEW g \in Nat, NEW r \in Nat, e + d <= b + r
    PROVE  /\ f <= e /\ c <= d /\ b <= g => f + c <= g + r
           /\ f <= e + 1 /\ c + 1 <= d /\ b <= g => f + c <= g + r
           /\ f <= e + 1 /\ c <= d /\ b <= g => f + c <= g + (r + 1)
           /\ \A p \in Nat : f = e /\ c <= d + p /\ g = b + p => f + c <= g + r
OBVIOUS

\* So do the completion entries; a request may take one more.
LEMMA EntriesCountNext ==
    ASSUME TypeInv, AskedInv, EntriesCount, CountedStep
    PROVE  EntriesCount'
<1> DEFINE p == Cardinality(PerBoot)
           e == Cardinality(UsedEntries)
           f == Cardinality(UsedEntries')
           d == Cardinality(Due)
           c == Cardinality(Due')
<1>1. /\ e \in Nat /\ f \in Nat /\ d \in Nat /\ c \in Nat
      /\ p \in Nat /\ PerBoot' = PerBoot /\ requests \in Nat
      /\ Begun \in Nat /\ Begun' \in Nat /\ Begun <= Begun'
  BY BooksNext, MessagesFinite, UsedFinite
<1>2. e + d <= p * Begun + requests
  BY DEF EntriesCount
<1>3. p * Begun \in Nat /\ p * Begun' \in Nat /\ p * Begun <= p * Begun'
  BY <1>1, Products
<1>4. SUFFICES f + c <= p * Begun' + requests'
  BY <1>1 DEF EntriesCount
<1>5. CASE QuietStep
  <2>1. f <= e
    BY <1>5, UsedFinite, CountSubset DEF QuietStep
  <2>2. c <= d /\ requests' = requests
    BY <1>5, NoneAddedCount, TradeCount DEF QuietStep, KeepsBooks
  <2>3. QED
    BY <1>1, <1>2, <1>3, <2>1, <2>2, Sums
<1>6. CASE SendStep
  <2>1. f <= e + 1
    BY <1>6, UsedFinite, CountAdded DEF SendStep
  <2>2. c + 1 <= d /\ requests' = requests
    BY <1>6, SpentCount DEF SendStep, KeepsBooks
  <2>3. QED
    BY <1>1, <1>2, <1>3, <2>1, <2>2, Sums
<1>7. CASE BeginStep
  <2>1. c <= d + p
    BY <1>7, RenewedCount DEF BeginStep
  <2>2. p * Begun' = p * Begun + p
    BY <1>1, <1>7, BooksNext, Products
  <2>3. f = e /\ requests' = requests
    BY <1>7 DEF BeginStep, UsedEntries
  <2>4. QED
    BY <1>1, <1>2, <1>3, <2>1, <2>2, <2>3, Sums
<1>8. CASE AskStep
  <2>1. f <= e + 1
    BY <1>8, UsedFinite, CountAdded DEF AskStep
  <2>2. c <= d /\ requests' = requests + 1
    BY <1>8, NoneAddedCount DEF AskStep
  <2>3. QED
    BY <1>1, <1>2, <1>3, <2>1, <2>2, Sums
<1>9. QED
  BY <1>5, <1>6, <1>7, <1>8 DEF CountedStep

-----------------------------------------------------------------------------
(* What a step of a machine does to what is owed                           *)

Same(g) ==
    /\ state'[g] = state[g] /\ prevState'[g] = prevState[g]
    /\ iterator'[g] = iterator[g] /\ msgIndex'[g] = msgIndex[g]

\* Machine g does not come nearer to a message it has to send.
NoMoreDue(g) ==
    /\ Entering(g)' => Entering(g)
    /\ PmpDue(g)' => PmpDue(g)
    /\ PrimaryBootHart(g) => \A u \in U54 : PeerDue(u, g)' => PeerDue(u, g)

NoExitAdded(g) ==
    EntryPoint[g] # 0 /\ prevState'[g] = "OPENSBI_INIT" => prevState[g] = "OPENSBI_INIT"

LEMMA GrantedSame ==
    ASSUME scenario' = scenario
    PROVE  /\ \A u, h, kind : Granted(u, h, kind)' = Granted(u, h, kind)
           /\ EntryPoint' = EntryPoint /\ NumChunks' = NumChunks /\ SkipAutoboot' = SkipAutoboot
           /\ \A h : Reaches(h)' = Reaches(h)
BY DEF Granted, PrimaryBootHart, Peers, Reaches, NumChunks, EntryPoint, SkipAutoboot

LEMMA SameNoMore ==
    ASSUME NEW g, Same(g)
    PROVE  NoMoreDue(g) /\ NoExitAdded(g)
BY DEF Same, NoMoreDue, NoExitAdded, Entering, PmpDue, PeerDue

\* The kinds of messages of machine g, one by one.
LEMMA OwedBefore ==
    ASSUME scenario' = scenario, NEW g \in U54, NEW u \in U54, NEW kind \in Kind,
           NoMoreDue(g), Owes(u, g, kind)', kind = "old" => NoExitAdded(g)
    PROVE  Owes(u, g, kind)
<1>1. CASE kind = "pmp"
  BY <1>1, GrantedSame DEF Owes, NoMoreDue
<1>2. CASE kind = "peer"
  BY <1>2, GrantedSame DEF Owes, NoMoreDue, Granted
<1>3. CASE kind = "exit"
  BY <1>3, GrantedSame DEF Owes, NoMoreDue
<1>4. CASE kind = "old"
  BY <1>4, GrantedSame DEF Owes, NoExitAdded
<1>5. QED
  BY <1>1, <1>2, <1>3, <1>4 DEF Kind

\* One machine moves, the others do not.
LEMMA OneMoves ==
    ASSUME scenario' = scenario, NEW h \in U54, \A g \in U54 : g # h => Same(g),
           NoMoreDue(h), NoExitAdded(h)
    PROVE  NoneAdded
<1>1. ASSUME NEW u \in U54, NEW g \in U54, NEW kind \in Kind, Owes(u, g, kind)'
      PROVE  Owes(u, g, kind)
  <2>1. NoMoreDue(g) /\ NoExitAdded(g)
    BY SameNoMore
  <2>2. QED
    BY <1>1, <2>1, OwedBefore
<1>2. QED
  BY <1>1 DEF NoneAdded

\* No machine moves.
LEMMA NoneMoves ==
    ASSUME scenario' = scenario, UNCHANGED <<state, prevState, iterator, msgIndex>>
    PROVE  NoneAdded
<1>1. ASSUME NEW u \in U54, NEW g \in U54, NEW kind \in Kind, Owes(u, g, kind)'
      PROVE  Owes(u, g, kind)
  <2>1. Same(g)
    BY DEF Same
  <2>2. QED
    BY <1>1, <2>1, SameNoMore, OwedBefore
<1>2. QED
  BY <1>1 DEF NoneAdded

\* The machines are restarted.
LEMMA Restarted ==
    ASSUME scenario' = scenario, prevState' = prevState
    PROVE  Renewed
<1>1. ASSUME NEW u \in U54, NEW g \in U54, NEW kind \in Kind, Owes(u, g, kind)'
      PROVE  Owes(u, g, kind) \/ Granted(u, g, kind)
  BY <1>1, GrantedSame DEF Owes, Kind
<1>2. QED
  BY <1>1 DEF Renewed

\* The requests stay when the queues to the E51 only gain or lose an ACK.
LEMMA AskedSame ==
    ASSUME \A u \in U54 : {n \in inbox'[u] : n.type = "BOOT_REQUEST"}
                            = {n \in inbox[u] : n.type = "BOOT_REQUEST"}
    PROVE  Asked' = Asked
BY DEF Asked

LEMMA UsedSame ==
    /\ completes' = completes => UsedEntries' = UsedEntries
    /\ (\A k \in Index : completes'[k].used => completes[k].used) => UsedEntries' \subseteq UsedEntries
BY DEF UsedEntries

-----------------------------------------------------------------------------
(* The steps are of these kinds                                            *)

\* Captured and Reached after a step of the E51 that ends a turn.
LEMMA TurnEnds ==
    ASSUME TypeInv, Reached, scenario' = scenario, phase' = "enter", prevState' = prevState,
           \A h \in U54 : state'[h] = "OPENSBI_INIT" => state[h] = "OPENSBI_INIT" \/ Reaches(h),
           \A u \in U54 : \A m \in inbox'[u] : m.type = "BOOT_REQUEST" => m \in inbox[u]
    PROVE  Captured' /\ Reached'
<1>1. Captured'
  BY DEF Captured
<1>2. QED
  BY <1>1, GrantedSame DEF Reached

\* The handlers that send nothing.
LEMMA CountedMoves ==
    ASSUME TypeInv, FitInv, NEW h \in U54,
           \/ InitHandler(h) \/ SetupPmpCompleteHandler(h) \/ ZeroInitChunksHandler(h)
           \/ DownloadChunksHandler(h) \/ WaitHandler(h) \/ ErrorHandler(h) \/ CompleteHandler(h)
    PROVE  QuietStep /\ Captured' /\ Reached'
<1>1. /\ UNCHANGED <<prevState, iterator, queue, inbox, scenario, boots, requests>>
      /\ turn = h /\ phase = "handler" /\ phase' = "enter"
  BY DEF InitHandler, SetupPmpCompleteHandler, ZeroInitChunksHandler, DownloadChunksHandler,
     WaitHandler, ErrorHandler, CompleteHandler, Handles, NextTurn, toE51, bounds
<1>2. /\ state \in [U54 -> BootState] /\ msgIndex \in [U54 -> 0..K]
      /\ state[h] = cur /\ prevState[h] = cur
  BY <1>1 DEF TypeInv, MachineOK, IndexOK, FitInv, Captured
<1>3. /\ msgIndex' = msgIndex \/ \E x : msgIndex' = [msgIndex EXCEPT ![h] = x]
      /\ completes' = completes \/ \E ks : completes' = Free(ks)
  BY DEF InitHandler, SetupPmpCompleteHandler, ZeroInitChunksHandler, DownloadChunksHandler,
     WaitHandler, ErrorHandler, CompleteHandler, CheckForIpiAcks, FreeAll
<1>4. /\ \A g \in U54 : g # h => state'[g] = state[g]
      /\ \/ cur = "INITIALIZATION" /\ state'[h] \in {"SETUP_PMP", "ERROR"}
         \/ cur = "SETUP_PMP_COMPLETE"
            /\ state'[h] \in {"SETUP_PMP_COMPLETE", "ZERO_INIT_CHUNKS", "COMPLETE", "ERROR"}
         \/ cur = "ZERO_INIT_CHUNKS" /\ state'[h] = "DOWNLOAD_CHUNKS"
         \/ cur = "DOWNLOAD_CHUNKS" /\ state'[h] \in {"DOWNLOAD_CHUNKS", "COMPLETE"}
         \/ cur = "DOWNLOAD_CHUNKS" /\ state'[h] = "OPENSBI_INIT" /\ NumChunks[h] # 0
         \/ cur \in {"WAIT", "ERROR", "COMPLETE"} /\ state'[h] \in {"WAIT", "COMPLETE", "IDLE"}
  <2>1. CASE InitHandler(h)
    BY <1>2, <2>1 DEF InitHandler, Handles, GoTo
  <2>2. CASE SetupPmpCompleteHandler(h)
    BY <1>2, <2>2 DEF SetupPmpCompleteHandler, Handles, GoTo
  <2>3. CASE ZeroInitChunksHandler(h)
    BY <1>2, <2>3 DEF ZeroInitChunksHandler, Handles, GoTo
  <2>4. CASE DownloadChunksHandler(h)
    BY <1>2, <2>4 DEF DownloadChunksHandler, Handles, GoTo
  <2>5. CASE WaitHandler(h)
    BY <1>2, <2>5 DEF WaitHandler, Handles, GoTo
  <2>6. CASE ErrorHandler(h) \/ CompleteHandler(h)
    BY <1>2, <2>6 DEF ErrorHandler, CompleteHandler, Handles, GoTo
  <2>7. QED
    BY <2>1, <2>2, <2>3, <2>4, <2>5, <2>6
<1>5. \A g \in U54 : g # h => Same(g)
  BY <1>1, <1>2, <1>3, <1>4 DEF Same
<1>6. NoMoreDue(h) /\ NoExitAdded(h)
  BY <1>1, <1>2, <1>4 DEF NoMoreDue, NoExitAdded, Entering, PmpDue, PeerDue
<1>7. NoneAdded
  BY <1>1, <1>5, <1>6, OneMoves
<1>8. UsedEntries' \subseteq UsedEntries
  BY <1>3, EntriesType, UsedSame
<1>9. QuietStep
  BY <1>1, <1>7, <1>8, AskedSame DEF QuietStep, KeepsBooks
<1>10. Captured' /\ Reached'
  BY <1>1, <1>2, <1>4, TurnEnds DEF FitInv, Reaches
<1>11. QED
  BY <1>9, <1>10

\* IPI_MessageDeliver of a message that is owed.
LEMMA DeliverSends ==
    ASSUME TypeInv, NEW v \in U54, NEW type, NEW keep, NEW k \in Index, Deliver(k, v, type, keep)
    PROVE  /\ UsedEntries' \subseteq UsedEntries \cup {k}
           /\ \A u \in U54 : u # v => queue'[u] = queue[u]
           /\ \E m : queue'[v] \subseteq queue[v] \cup {m}
<1>1. UsedEntries' \subseteq UsedEntries \cup {k}
  BY DeliverEntries DEF UsedEntries
<1>2. queue \in [U54 -> SUBSET ToU54Msg]
  BY DEF TypeInv, QueueOK
<1>3. queue' = [queue EXCEPT ![v] =
          IF Sent(v) THEN queue[v] \cup {[type |-> type, tx |-> myTx[0]]} ELSE queue[v]]
  BY DEF Deliver
<1>4. queue'[v] \subseteq queue[v] \cup {[type |-> type, tx |-> myTx[0]]}
  BY <1>2, <1>3
<1>5. QED
  BY <1>1, <1>2, <1>3, <1>4

\* boot_setup_pmp_handler.
LEMMA CountedSetupPmp ==
    ASSUME TypeInv, FitInv, QueuesSuffice, NEW h \in U54, SetupPmpHandler(h)
    PROVE  (QuietStep \/ SendStep) /\ Captured' /\ Reached'
<1>1. /\ UNCHANGED <<prevState, iterator, inbox, scenario, boots, requests>>
      /\ turn = h /\ phase = "handler" /\ cur = "SETUP_PMP" /\ phase' = "enter"
  BY DEF SetupPmpHandler, Handles, NextTurn, toE51, bounds
<1>2. /\ state \in [U54 -> BootState] /\ msgIndex \in [U54 -> 0..K]
      /\ state[h] = "SETUP_PMP" /\ prevState[h] = "SETUP_PMP"
  BY <1>1 DEF TypeInv, MachineOK, IndexOK, FitInv, Captured
<1>3. Asked' = Asked
  BY <1>1, AskedSame
<1>4. CASE /\ msgIndex[h] # K /\ state' = [state EXCEPT ![h] = "SETUP_PMP_COMPLETE"]
           /\ UNCHANGED <<completes, queue, msgIndex>>
  <2>1. \A g \in U54 : g # h => Same(g)
    BY <1>1, <1>2, <1>4 DEF Same
  <2>2. NoMoreDue(h) /\ NoExitAdded(h)
    BY <1>1, <1>2, <1>4 DEF NoMoreDue, NoExitAdded, Entering, PmpDue, PeerDue
  <2>3. QuietStep
    BY <1>1, <1>3, <1>4, <2>1, <2>2, OneMoves, UsedSame DEF QuietStep, KeepsBooks
  <2>4. QED
    BY <1>1, <1>2, <1>4, <2>3, TurnEnds DEF FitInv
<1>5. ASSUME msgIndex[h] = K, NEW k \in Index, Deliver(k, h, "PMP_SETUP", FALSE),
             msgIndex' = [msgIndex EXCEPT ![h] = k],
             IF Sent(h) THEN GoTo(h, "SETUP_PMP_COMPLETE") ELSE UNCHANGED state
      PROVE  SendStep /\ Captured' /\ Reached'
  <2>1. Owes(h, h, "pmp")
    BY <1>2, <1>5 DEF Owes, Granted, PmpDue
  <2>2. Sent(h)
    BY <2>1, RoomForOwed DEF FitInv, Kind
  <2>3. state' = [state EXCEPT ![h] = "SETUP_PMP_COMPLETE"]
    BY <1>5, <2>2 DEF GoTo
  <2>4. \A g \in U54 : g # h => Same(g)
    BY <1>1, <1>2, <1>5, <2>3 DEF Same
  <2>5. NoMoreDue(h) /\ NoExitAdded(h) /\ ~PmpDue(h)'
    BY <1>1, <1>2, <2>3 DEF NoMoreDue, NoExitAdded, Entering, PmpDue, PeerDue
  <2>6. Spent(h, h, "pmp")
    BY <1>1, <2>1, <2>4, <2>5, OneMoves DEF Spent, Owes
  <2>7. SendStep
    BY <1>1, <1>3, <1>5, <2>6, DeliverSends DEF SendStep, KeepsBooks, Kind
  <2>8. QED
    BY <1>1, <1>2, <2>3, <2>7, TurnEnds DEF FitInv
<1>6. QED
  BY <1>4, <1>5 DEF SetupPmpHandler, GoTo

\* boot_opensbi_init_handler.
LEMMA CountedOpensbiInit ==
    ASSUME TypeInv, FitInv, QueuesSuffice, NEW h \in U54, OpensbiInitHandler(h)
    PROVE  (QuietStep \/ SendStep) /\ Captured' /\ Reached'
<1> DEFINE peer == iterator[h] + 1
<1>1. /\ UNCHANGED <<prevState, msgIndex, inbox, scenario, boots, requests>>
      /\ turn = h /\ phase = "handler" /\ cur = "OPENSBI_INIT" /\ phase' = "enter"
  BY DEF OpensbiInitHandler, Handles, NextTurn, toE51, bounds
<1>2. /\ state \in [U54 -> BootState] /\ iterator \in [U54 -> 0..NumU54] /\ NumU54 \in Nat
      /\ state[h] = "OPENSBI_INIT" /\ prevState[h] = "OPENSBI_INIT"
  BY <1>1, ImageAssumption DEF TypeInv, MachineOK, FitInv, Captured
<1>3. Asked' = Asked
  BY <1>1, AskedSame
<1>4. CASE /\ UNCHANGED <<completes, queue>>
           /\ state' = state \/ state' = [state EXCEPT ![h] = "WAIT"]
           /\ iterator' = iterator \/ iterator' = [iterator EXCEPT ![h] = peer]
  <2>1. \A g \in U54 : g # h => Same(g)
    BY <1>1, <1>2, <1>4 DEF Same
  <2>2. state'[h] \in {"OPENSBI_INIT", "WAIT"} /\ iterator'[h] \in {iterator[h], peer}
    BY <1>2, <1>4
  <2>3. \A u \in U54 : iterator'[h] < u => iterator[h] < u
    BY <1>2, <2>2 DEF U54
  <2>4. NoMoreDue(h) /\ NoExitAdded(h)
    BY <1>1, <1>2, <2>2, <2>3 DEF NoMoreDue, NoExitAdded, Entering, PmpDue, PeerDue
  <2>5. QuietStep
    BY <1>1, <1>3, <1>4, <2>1, <2>4, OneMoves, UsedSame DEF QuietStep, KeepsBooks
  <2>6. Captured' /\ Reached'
    BY <1>1, <1>2, <1>4, TurnEnds DEF FitInv
  <2>7. QED
    BY <2>5, <2>6
<1>5. ASSUME NEW v \in U54, v = iterator[h] + 1, PrimaryBootHart(h), v \in Peers(h), Launch(h, v),
             iterator' = [iterator EXCEPT ![h] = v]
      PROVE  SendStep /\ Captured' /\ Reached'
  <2>1. iterator[h] < v
    BY <1>2, <1>5
  <2>2. Owes(v, h, "peer")
    BY <1>2, <1>5, <2>1 DEF Owes, Granted, PeerDue
  <2>3. Sent(v)
    BY <2>2, RoomForOwed DEF FitInv, Kind
  <2>4. state' = state
    BY <1>5, <2>3 DEF Launch
  <2>5. \A g \in U54 : g # h => Same(g)
    BY <1>1, <1>2, <1>5, <2>4 DEF Same
  <2>6. iterator'[h] = v /\ \A u \in U54 : iterator'[h] < u => iterator[h] < u
    BY <1>2, <1>5 DEF U54
  <2>7. NoMoreDue(h) /\ NoExitAdded(h) /\ ~PeerDue(v, h)'
    <3>1. ~Entering(h)' /\ ~PmpDue(h)'
      BY <1>1, <1>2, <2>4 DEF Entering, PmpDue
    <3>2. ~(iterator'[h] < v)
      BY <1>2, <1>5, <2>6
    <3>3. QED
      BY <1>1, <1>2, <2>4, <2>6, <3>1, <3>2 DEF NoMoreDue, NoExitAdded, PeerDue
  <2>8. NoneAdded
    BY <1>1, <2>5, <2>7, OneMoves
  <2>9. Spent(v, h, "peer")
    BY <2>2, <2>7, <2>8 DEF Spent, Owes
  <2>10. PICK k \in Index : Deliver(k, v, IF v \in SkipOpensbi THEN "GOTO" ELSE "OPENSBI_INIT", TRUE)
    BY <1>5 DEF Launch
  <2>11. SendStep
    BY <1>1, <1>3, <2>9, <2>10, DeliverSends DEF SendStep, KeepsBooks, Kind
  <2>12. QED
    BY <1>1, <2>4, <2>11, TurnEnds DEF FitInv
<1>6. QED
  BY <1>4, <1>5 DEF OpensbiInitHandler, GoTo, Peers

\* RunStateMachine: the exit from BOOT_OPENSBI_INIT launches, the entry trades.
LEMMA CountedRunStateMachine ==
    ASSUME TypeInv, FitInv, QueuesSuffice, NEW h \in U54, RunStateMachine(h)
    PROVE  (QuietStep \/ SendStep) /\ Captured' /\ Reached'
<1> DEFINE prev == prevState[h]
           now == state[h]
<1>1. /\ UNCHANGED <<inbox, scenario, boots, requests>> /\ turn' = h /\ turn = h /\ cur' = now
      /\ prevState' = [prevState EXCEPT ![h] = IF prev # now THEN state'[h] ELSE prev]
      /\ iterator' = [iterator EXCEPT ![h] =
            IF prev # now /\ now = "OPENSBI_INIT" /\ EntryPoint[h] # 0 THEN 0 ELSE iterator[h]]
  BY DEF RunStateMachine, toE51, bounds
<1>2. /\ state \in [U54 -> BootState] /\ iterator \in [U54 -> 0..NumU54] /\ NumU54 \in Nat
      /\ msgIndex \in [U54 -> 0..K] /\ prevState \in [U54 -> BootState \cup {"INVALID"}]
  BY ImageAssumption DEF TypeInv, MachineOK, IndexOK
<1>3. Asked' = Asked
  BY <1>1, AskedSame
<1>4. ASSUME state' = state PROVE Captured' /\ Reached' /\ prevState'[h] = now
  <2>1. prevState'[h] = now /\ \A g \in U54 : g # h => prevState'[g] = prevState[g]
    BY <1>1, <1>2, <1>4
  <2>2. Captured'
    BY <1>1, <1>4, <2>1 DEF Captured
  <2>3. Reached'
    BY <1>1, <1>4, <2>1, GrantedSame DEF FitInv, Reached
  <2>4. QED
    BY <2>1, <2>2, <2>3
<1>5. ASSUME prev # now, prev = "OPENSBI_INIT", EntryPoint[h] # 0, Launch(h, h), UNCHANGED msgIndex
      PROVE  SendStep /\ Captured' /\ Reached'
  <2>1. Owes(h, h, "old")
    BY <1>5 DEF Owes
  <2>2. Sent(h)
    BY <2>1, RoomForOwed DEF FitInv, Kind
  <2>3. state' = state /\ prevState'[h] = now
    BY <1>4, <1>5, <2>2 DEF Launch
  <2>4. iterator' = iterator /\ \A g \in U54 : g # h => prevState'[g] = prevState[g]
    BY <1>1, <1>2, <1>5
  <2>5. \A g \in U54 : g # h => Same(g)
    BY <1>5, <2>3, <2>4 DEF Same
  <2>6. NoMoreDue(h) /\ NoExitAdded(h) /\ ~Owes(h, h, "old")'
    BY <1>5, <2>3, <2>4 DEF NoMoreDue, NoExitAdded, Entering, PmpDue, PeerDue, Owes
  <2>7. Spent(h, h, "old")
    BY <1>1, <2>1, <2>5, <2>6, OneMoves DEF Spent
  <2>8. PICK k \in Index : Deliver(k, h, IF h \in SkipOpensbi THEN "GOTO" ELSE "OPENSBI_INIT", TRUE)
    BY <1>5 DEF Launch
  <2>9. SendStep
    BY <1>1, <1>3, <2>7, <2>8, DeliverSends DEF SendStep, KeepsBooks, Kind
  <2>10. QED
    BY <1>4, <2>3, <2>9
<1>6. ASSUME UNCHANGED <<state, completes, queue>>,
             \/ UNCHANGED msgIndex
             \/ prev # now /\ msgIndex' = [msgIndex EXCEPT ![h] = K]
      PROVE  QuietStep /\ Captured' /\ Reached'
  <2>1. prevState'[h] = now /\ state' = state
    BY <1>4, <1>6
  <2>2. \A g \in U54 : g # h => Same(g)
    BY <1>1, <1>2, <1>6 DEF Same
  <2>3. NoneAdded \/ Trade(h)
    <3>1. CASE prev = now
      <4>1. Same(h)
        BY <1>1, <1>2, <1>6, <2>1, <3>1 DEF Same
      <4>2. QED
        BY <1>1, <2>2, <4>1, SameNoMore, OneMoves
    <3>2. CASE prev # now /\ now = "OPENSBI_INIT"
      <4>1. NoMoreDue(h) /\ Entering(h) /\ ~Entering(h)'
        BY <2>1, <3>2 DEF NoMoreDue, Entering, PmpDue, PeerDue
      <4>2. CASE EntryPoint[h] = 0
        BY <1>1, <2>2, <4>1, <4>2, OneMoves DEF NoExitAdded
      <4>3. CASE EntryPoint[h] # 0
        <5>1. Reaches(h)
          BY <3>2 DEF FitInv, Reached
        <5>2. Owes(h, h, "exit") /\ ~Owes(h, h, "exit")'
          BY <4>1, <4>3, <5>1 DEF Owes, Granted
        <5>3. ASSUME NEW u \in U54, NEW g \in U54, NEW kind \in Kind, Owes(u, g, kind)'
              PROVE  Owes(u, g, kind) \/ (u = h /\ g = h /\ kind = "old")
          <6>1. NoMoreDue(g) /\ (g # h => NoExitAdded(g))
            BY <2>2, <4>1, SameNoMore
          <6>2. kind = "old" => u = g
            BY <5>3 DEF Owes
          <6>3. QED
            BY <1>1, <5>3, <6>1, <6>2, OwedBefore
        <5>4. QED
          BY <5>2, <5>3 DEF Trade
      <4>4. QED
        BY <4>2, <4>3
    <3>3. CASE prev # now /\ now # "OPENSBI_INIT"
      <4>1. NoMoreDue(h) /\ NoExitAdded(h)
        BY <2>1, <3>3 DEF NoMoreDue, NoExitAdded, Entering, PmpDue, PeerDue
      <4>2. QED
        BY <1>1, <2>2, <4>1, OneMoves
    <3>4. QED
      BY <3>1, <3>2, <3>3
  <2>4. QuietStep
    BY <1>1, <1>3, <1>6, <2>3, UsedSame DEF QuietStep, KeepsBooks
  <2>5. QED
    BY <1>4, <1>6, <2>4
<1>7. QED
  BY <1>5, <1>6 DEF RunStateMachine, RegisterHarts, ForgetIndices

\* boot_idle_handler takes a request, or finds none.
LEMMA CountedIdle ==
    ASSUME TypeInv, FitInv, NEW h \in U54, IdleHandler(h)
    PROVE  (QuietStep \/ BeginStep) /\ Captured' /\ Reached'
<1>1. /\ UNCHANGED <<prevState, iterator, msgIndex, queue, completes, scenario, boots, requests>>
      /\ phase' = "enter"
  BY DEF IdleHandler, Handles, NextTurn, bounds
<1>2. CASE UNCHANGED <<state, inbox>>
  <2>1. QuietStep
    BY <1>1, <1>2, NoneMoves, AskedSame, UsedSame DEF QuietStep, KeepsBooks
  <2>2. QED
    BY <1>1, <1>2, <2>1, TurnEnds DEF FitInv
<1>3. ASSUME NEW m \in inbox[h], m.type = "BOOT_REQUEST",
             inbox' = [inbox EXCEPT ![h] = inbox[h] \ {m}],
             \/ m.target = 0 /\ state' = Restart(state, Started({h}))
             \/ /\ m.target # 0
                /\ state' = Restart([state EXCEPT ![m.target] = "OPENSBI_INIT"], Started({m.target}))
      PROVE  BeginStep /\ Captured' /\ Reached'
  <2>1. inbox \in [U54 -> SUBSET ToE51Msg] /\ state \in [U54 -> BootState]
    BY DEF TypeInv, InboxOK, MachineOK
  <2>2. \A u \in U54 : inbox'[u] = IF u = h THEN inbox[h] \ {m} ELSE inbox[u]
    BY <1>3, <2>1
  <2>3. <<h, m>> \in Asked /\ Asked' = Asked \ {<<h, m>>}
    BY <1>3, <2>2 DEF Asked
  <2>4. BeginStep
    BY <1>1, <2>3, Restarted DEF BeginStep
  <2>5. m.target = 0 \/ m.target \in SkipAutoboot
    BY <1>3 DEF FitInv, Reached
  <2>6. \A g \in U54 : state'[g] = "OPENSBI_INIT" => state[g] = "OPENSBI_INIT" \/ Reaches(g)
    BY <1>3, <2>1, <2>5 DEF Restart, Reaches
  <2>7. QED
    BY <1>1, <2>2, <2>4, <2>6, TurnEnds DEF FitInv
<1>4. QED
  BY <1>2, <1>3 DEF IdleHandler

\* A boot command, or none.
LEMMA CountedTinyCli ==
    ASSUME TypeInv, FitInv, TinyCli
    PROVE  (QuietStep \/ BeginStep) /\ Captured' /\ Reached'
<1>1. /\ UNCHANGED <<prevState, iterator, msgIndex, queue, inbox, completes, scenario, requests>>
      /\ phase' = "enter"
  BY DEF TinyCli, NextTurn, toE51
<1>2. Asked' = Asked
  BY <1>1, AskedSame
<1>3. \A g \in U54 : state'[g] = "OPENSBI_INIT" => state[g] = "OPENSBI_INIT"
  BY DEF TinyCli, Restart
<1>4. CASE UNCHANGED <<state, boots>>
  BY <1>1, <1>2, <1>3, <1>4, NoneMoves, UsedSame, TurnEnds DEF FitInv, QuietStep, KeepsBooks
<1>5. CASE boots' = boots + 1
  BY <1>1, <1>2, <1>3, <1>5, Restarted, TurnEnds DEF FitInv, BeginStep
<1>6. QED
  BY <1>4, <1>5 DEF TinyCli

\* Captured and Reached after a step that is not the E51's.
LEMMA OthersStep ==
    ASSUME TypeInv, Captured, Reached, UNCHANGED <<scenario, state, prevState, sched>>,
           \A u \in U54 : \A m \in inbox'[u] : m.type = "BOOT_REQUEST" =>
               m \in inbox[u] \/ m.target = 0 \/ m.target \in SkipAutoboot
    PROVE  Captured' /\ Reached'
<1>1. Captured'
  BY DEF Captured, sched
<1>2. QED
  BY <1>1, GrantedSame DEF Reached

\* ipiPoll_monitoring_handler takes ACKs only.
LEMMA CountedIpiPoll ==
    ASSUME TypeInv, FitInv, IpiPoll
    PROVE  QuietStep /\ Captured' /\ Reached'
<1> DEFINE new == {u \in U54 : last[u] # shadow[u]}
           seen == [u \in U54 |-> IF u \in new THEN Cardinality(inbox[u]) ELSE count[u]]
           acks == [u \in U54 |-> {m \in inbox[u] : m.type = "ACK_COMPLETE"}]
           taking == {u \in U54 : new # {} /\ seen[u] # 0 /\ acks[u] # {}}
<1>1. /\ UNCHANGED <<state, prevState, iterator, msgIndex, queue, scenario, boots, requests>>
      /\ phase' = "enter"
  BY DEF IpiPoll, NextTurn, machine, bounds
<1>2. PICK ack \in [taking -> UNION {acks[u] : u \in taking}] :
        /\ \A u \in taking : ack[u] \in acks[u]
        /\ inbox' = [u \in U54 |-> IF u \in taking THEN inbox[u] \ {ack[u]} ELSE inbox[u]]
        /\ completes' = UpdateStatus({ack[u].tx : u \in taking})
  BY DEF IpiPoll
<1>3. \A u \in taking : ack[u].type = "ACK_COMPLETE"
  BY <1>2
<1> HIDE DEF new, seen, acks, taking
<1>4. \A u \in U54 : {n \in inbox'[u] : n.type = "BOOT_REQUEST"}
                       = {n \in inbox[u] : n.type = "BOOT_REQUEST"}
  BY <1>2, <1>3
<1>5. UsedEntries' \subseteq UsedEntries
  BY <1>2, EntriesType, UsedSame
<1>6. QuietStep
  BY <1>1, <1>4, <1>5, NoneMoves, AskedSame DEF QuietStep, KeepsBooks
<1>7. QED
  BY <1>1, <1>4, <1>6, TurnEnds DEF FitInv

\* The U54s, the clock and sbi_hsm_hart_start.
LEMMA CountedOther ==
    ASSUME TypeInv, FitInv,
           \/ UNCHANGED vars \/ \E h \in U54 : Timeout(h)
           \/ \E u \in U54 : U54Step(u) \/ \E t \in U54 : HartStart(u, t)
    PROVE  QuietStep /\ Captured' /\ Reached'
<1>1. UNCHANGED <<state, prevState, iterator, msgIndex, sched, scenario, boots, requests>>
  BY DEF vars, Timeout, U54Step, ScanPmpSetup, ScanLaunch, SbiInit, WarmBoot, HartStart, machine,
     bounds
<1>2. /\ \A v \in U54 : queue'[v] \subseteq queue[v]
      /\ UNCHANGED completes \/ \E txs : completes' = UpdateStatus(txs)
      /\ UNCHANGED toE51 \/ \E u \in U54 : \E t : Post(u, AckComplete(t))
  <2>1. CASE UNCHANGED <<queue, completes, toE51>>
    BY <2>1
  <2>2. ASSUME NEW u \in U54, ScanPmpSetup(u) \/ ScanLaunch(u)
        PROVE  \A v \in U54 : queue'[v] \subseteq queue[v]
    BY <2>2 DEF ScanPmpSetup, ScanLaunch, TypeInv, QueueOK
  <2>3. ASSUME NEW u \in U54, ScanPmpSetup(u) \/ ScanLaunch(u)
        PROVE  /\ UNCHANGED completes \/ \E txs : completes' = UpdateStatus(txs)
               /\ UNCHANGED toE51 \/ \E t : Post(u, AckComplete(t))
    BY <2>3 DEF ScanPmpSetup, ScanLaunch
  <2>4. QED
    BY <2>1, <2>2, <2>3 DEF vars, Timeout, U54Step, SbiInit, WarmBoot, HartStart
<1>3. \A u \in U54 : {n \in inbox'[u] : n.type = "BOOT_REQUEST"}
                       = {n \in inbox[u] : n.type = "BOOT_REQUEST"}
  <2>1. ASSUME NEW u \in U54, NEW n \in inbox'[u], n.type = "BOOT_REQUEST" PROVE n \in inbox[u]
    BY <1>2, <2>1, AckPosted, ImageAssumption DEF U54
  <2>2. \A u \in U54 : inbox[u] \subseteq inbox'[u]
    BY <1>2 DEF toE51, Post, TypeInv, InboxOK
  <2>3. QED
    BY <2>1, <2>2
<1>4. UsedEntries' \subseteq UsedEntries
  BY <1>2, EntriesType, UsedSame
<1>5. QuietStep
  BY <1>1, <1>2, <1>3, <1>4, NoneMoves, AskedSame DEF QuietStep, KeepsBooks
<1>6. QED
  BY <1>1, <1>3, <1>5, OthersStep DEF FitInv

\* A request of a payload.
LEMMA CountedPayload ==
    ASSUME TypeInv, FitInv, NEW u \in U54, NEW t \in U54,
           SystemReset(u) \/ EcallReboot(u) \/ RprocStart(u, t)
    PROVE  AskStep /\ Captured' /\ Reached'
<1>1. UNCHANGED <<state, prevState, iterator, msgIndex, sched, scenario, boots, queue>>
      /\ requests' = requests + 1
  BY DEF SystemReset, EcallReboot, RprocStart, BootRequest, machine
<1>2. NoneAdded
  BY <1>1, NoneMoves
<1>3. CASE UNCHANGED <<toE51, completes>>
  <2>1. inbox' = inbox
    BY <1>3 DEF toE51
  <2>2. Asked' = Asked /\ UsedEntries' = UsedEntries
    BY <1>3, <2>1, AskedSame, UsedSame
  <2>3. QED
    BY <1>1, <1>2, <2>1, <2>2, OthersStep DEF AskStep, FitInv
<1>4. ASSUME NEW x \in SkipAutoboot \cup {0}, NEW keep, BootRequest(u, x, keep)
      PROVE  AskStep /\ Captured' /\ Reached'
  <2> DEFINE msg == [type |-> "BOOT_REQUEST", tx |-> myTx[u], target |-> x]
  <2>1. Post(u, msg)
    BY <1>4 DEF BootRequest
  <2>2. \A v \in U54 : \A m \in inbox'[v] : m \in inbox[v] \/ (v = u /\ m = msg)
    BY <2>1 DEF Post, TypeInv, InboxOK
  <2>3. msg.target = x
    OBVIOUS
  <2> HIDE DEF msg
  <2>4. Asked' \subseteq Asked \cup {<<u, msg>>}
    BY <2>2 DEF Asked
  <2>5. PICK k \in Index : \E e : completes' = [completes EXCEPT ![k] = e]
    BY <1>4 DEF BootRequest
  <2>6. UsedEntries' \subseteq UsedEntries \cup {k}
    BY <2>5 DEF UsedEntries, TypeInv, EntryOK
  <2>7. AskStep
    BY <1>1, <1>2, <2>4, <2>6 DEF AskStep
  <2>8. Captured' /\ Reached'
    BY <1>1, <1>4, <2>2, <2>3, OthersStep DEF FitInv
  <2>9. QED
    BY <2>7, <2>8
<1>5. QED
  BY <1>3, <1>4 DEF SystemReset, EcallReboot, RprocStart

\* Every step is of one of the kinds.
LEMMA StepsCounted ==
    ASSUME TypeInv, FitInv, QueuesSuffice, [Next]_vars
    PROVE  CountedStep /\ Captured' /\ Reached'
<1> USE DEF CountedStep
<1>1. ASSUME NEW h \in U54, BootMachine(h) PROVE CountedStep /\ Captured' /\ Reached'
  <2>1. CASE RunStateMachine(h) \/ SetupPmpHandler(h) \/ OpensbiInitHandler(h)
    BY <2>1, CountedRunStateMachine, CountedSetupPmp, CountedOpensbiInit
  <2>2. CASE IdleHandler(h)
    BY <2>2, CountedIdle
  <2>3. QED
    BY <1>1, <2>1, <2>2, CountedMoves DEF BootMachine
<1>2. CASE IpiPoll \/ TinyCli
  BY <1>2, CountedIpiPoll, CountedTinyCli
<1>3. CASE UNCHANGED vars \/ \E h \in U54 : Timeout(h)
  BY <1>3, CountedOther
<1>4. ASSUME NEW u \in U54, U54Step(u) \/ Payload(u) PROVE CountedStep /\ Captured' /\ Reached'
  <2>1. CASE U54Step(u) \/ \E t \in U54 : HartStart(u, t)
    BY <2>1, CountedOther
  <2>2. CASE \E t \in U54 : SystemReset(u) \/ EcallReboot(u) \/ RprocStart(u, t)
    BY <2>2, CountedPayload
  <2>3. QED
    BY <1>4, <2>1, <2>2 DEF Payload
<1>5. QED
  BY <1>1, <1>2, <1>3, <1>4 DEF Next, E51

LEMMA FitNext == TypeInv /\ FitInv /\ QueuesSuffice /\ [Next]_vars => FitInv'
<1> SUFFICES ASSUME TypeInv, FitInv, QueuesSuffice, [Next]_vars PROVE FitInv'
  OBVIOUS
<1>1. CountedStep /\ Captured' /\ Reached' /\ AskedInv /\ QueuesInv
  BY StepsCounted DEF FitInv
<1>2. AskedInv' /\ QueuesInv'
  BY <1>1, BooksNext, QueuesNext
<1>3. QED
  BY <1>1, <1>2 DEF FitInv

\* At first nothing is owed and nothing is used.
LEMMA FitInit == Init => TypeInv /\ FitInv /\ EntriesCount
<1> SUFFICES ASSUME Init PROVE TypeInv /\ FitInv /\ EntriesCount
  OBVIOUS
<1>1. /\ \A h \in U54 : /\ state[h] = "IDLE" /\ prevState[h] = "INVALID"
                        /\ queue[h] = {} /\ inbox[h] = {}
      /\ boots = 0 /\ requests = 0 /\ phase = "enter"
  BY DEF Init
<1>2. \A u \in U54 : \A h \in U54 : \A kind : ~Owes(u, h, kind)
  BY <1>1 DEF Owes, PmpDue, PeerDue, Entering
<1>3. Due = {} /\ \A u \in U54 : DueTo(u) = {}
  BY <1>2 DEF Due, DueTo, Source
<1>4. Asked = {}
  BY <1>1 DEF Asked
<1>5. UsedEntries = {}
  BY DEF Init, UsedEntries
<1>6. IsFiniteSet({}) /\ Cardinality({}) = 0
  BY FS_EmptySet
<1>7. Begun = 0 /\ AskedInv
  BY <1>1, <1>4, <1>6 DEF Begun, AskedInv
<1>8. \A n \in Nat : n * 0 = 0
  OBVIOUS
<1>9. QueuesInv /\ EntriesCount
  <2>1. ASSUME NEW u \in U54
        PROVE  Cardinality(queue[u]) + Cardinality(DueTo(u)) <= Cardinality(PerBootTo(u)) * Begun
    <3>1. Cardinality(queue[u]) = 0 /\ Cardinality(DueTo(u)) = 0
      BY <1>1, <1>3, <1>6
    <3>2. Cardinality(PerBootTo(u)) * Begun = 0
      BY <1>7, <1>8, MessagesFinite
    <3>3. QED
      BY <3>1, <3>2
  <2>2. Cardinality(UsedEntries) = 0 /\ Cardinality(Due) = 0 /\ Cardinality(PerBoot) * Begun = 0
    BY <1>3, <1>5, <1>6, <1>7, <1>8, MessagesFinite
  <2>3. QED
    BY <1>1, <2>1, <2>2 DEF QueuesInv, EntriesCount
<1>10. Captured /\ Reached
  BY <1>1 DEF Captured, Reached
<1>11. QED
  BY <1>7, <1>9, <1>10, TypeInit DEF FitInv

LEMMA FitAlways == Spec /\ []QueuesSuffice => []FitInv
BY TypeAlways, FitInit, FitNext, PTL DEF Spec

LEMMA FitImplies == TypeInv /\ FitInv /\ QueuesSuffice => PmpRequestFits
<1> SUFFICES ASSUME TypeInv, FitInv, QueuesSuffice, NEW h \in U54,
                    turn = h, phase = "handler", cur = "SETUP_PMP", msgIndex[h] = K
             PROVE  Sent(h)
  BY DEF PmpRequestFits
<1>1. state[h] = "SETUP_PMP"
  BY DEF FitInv, Captured
<1>2. Owes(h, h, "pmp")
  BY <1>1 DEF Owes, Granted, PmpDue
<1>3. QED
  BY <1>2, RoomForOwed DEF FitInv, Kind

\* HSS_Boot_PMPSetupRequest finds room in the queue of its hart: when the slots
\* of every queue suffice for the messages that the boot commands and requests
\* may put into it, whether or not the hart takes one out, no PMP_SETUP is
\* refused and no completion entry is freed while msgIndex keeps its number.
THEOREM FitsCorrect == Spec /\ []QueuesSuffice => []PmpRequestFits
BY TypeAlways, FitAlways, FitImplies, PTL

\* A completion entry has one holder, from the sizes alone: machines do not
\* mix up their entries, also across time-outs, resets and restarts.
THEOREM HoldersCorrect == Spec /\ []ContextsStarted /\ []QueuesSuffice => []EntriesExclusive
BY FitsCorrect, EntriesCorrect, PTL

-----------------------------------------------------------------------------
(* No assertion stops the E51                                              *)

LEMMA EntriesCountAll ==
    TypeInv /\ FitInv /\ EntriesCount /\ QueuesSuffice /\ [Next]_vars => EntriesCount'
BY StepsCounted, EntriesCountNext DEF FitInv

LEMMA ImageFirstInit == Init => ImageFirst
BY DEF Init, ImageFirst

\* Without an image nothing but idle machines runs.
LEMMA ImageFirstNext == TypeInv /\ ImageFirst /\ [Next]_vars => ImageFirst'
<1> SUFFICES ASSUME TypeInv, ImageFirst, [Next]_vars, ~scenario'.storageFails, ~image'
             PROVE  /\ \A h \in U54 : /\ state'[h] = "IDLE" /\ prevState'[h] \in {"INVALID", "IDLE"}
                                      /\ queue'[h] = {} /\ inbox'[h] = {} /\ ustate'[h] = "hss"
                    /\ phase' = "handler" => cur' = "IDLE"
  BY DEF ImageFirst
<1>1. scenario' = scenario
  BY DEF Next, E51, BootMachine, RunStateMachine, InitHandler, SetupPmpHandler,
     SetupPmpCompleteHandler, ZeroInitChunksHandler, DownloadChunksHandler, OpensbiInitHandler,
     WaitHandler, ErrorHandler, CompleteHandler, IdleHandler, IpiPoll, TinyCli, Timeout, U54Step,
     ScanPmpSetup, ScanLaunch, SbiInit, WarmBoot, Payload, SystemReset, EcallReboot, RprocStart,
     BootRequest, HartStart, vars, bounds
<1>2. ~image
  BY <1>1 DEF Next, E51, BootMachine, RunStateMachine, InitHandler, SetupPmpHandler,
     SetupPmpCompleteHandler, ZeroInitChunksHandler, DownloadChunksHandler, OpensbiInitHandler,
     WaitHandler, ErrorHandler, CompleteHandler, IdleHandler, IpiPoll, TinyCli, Timeout, U54Step,
     ScanPmpSetup, ScanLaunch, SbiInit, WarmBoot, Payload, SystemReset, EcallReboot, RprocStart,
     HartStart, vars
<1>3. /\ \A h \in U54 : /\ state[h] = "IDLE" /\ prevState[h] \in {"INVALID", "IDLE"}
                        /\ queue[h] = {} /\ inbox[h] = {} /\ ustate[h] = "hss"
      /\ phase = "handler" => cur = "IDLE"
  BY <1>1, <1>2 DEF ImageFirst
<1>4. ASSUME NEW h \in U54, BootMachine(h)
      PROVE  /\ UNCHANGED <<state, queue, inbox, ustate>>
             /\ prevState' = prevState \/ prevState' = [prevState EXCEPT ![h] = state'[h]]
             /\ phase' = "handler" => cur' = "IDLE"
  <2>1. CASE RunStateMachine(h)
    <3>1. /\ UNCHANGED <<state, queue>> /\ cur' = state[h]
          /\ prevState' = [prevState EXCEPT
                ![h] = IF prevState[h] # state[h] THEN state'[h] ELSE prevState[h]]
      BY <1>3, <2>1 DEF RunStateMachine
    <3>2. UNCHANGED <<inbox, ustate>>
      BY <2>1 DEF RunStateMachine, toE51, hart
    <3>3. prevState \in [U54 -> BootState \cup {"INVALID"}]
      BY DEF TypeInv, MachineOK
    <3>4. prevState' = prevState \/ prevState' = [prevState EXCEPT ![h] = state'[h]]
      BY <3>1, <3>3
    <3>5. QED
      BY <1>3, <3>1, <3>2, <3>4
  <2>2. CASE IdleHandler(h)
    BY <1>3, <2>2 DEF IdleHandler, Handles, NextTurn, hart
  <2>3. ASSUME NEW s, Handles(h, s) PROVE s = "IDLE"
    BY <1>3, <2>3 DEF Handles
  <2>4. QED
    BY <1>4, <2>1, <2>2, <2>3 DEF BootMachine, InitHandler, SetupPmpHandler,
       SetupPmpCompleteHandler, ZeroInitChunksHandler, DownloadChunksHandler, OpensbiInitHandler,
       WaitHandler, ErrorHandler, CompleteHandler
<1>5. CASE IpiPoll
  <2>1. UNCHANGED <<state, prevState, queue, ustate>> /\ phase' = "enter"
    BY <1>5 DEF IpiPoll, NextTurn, machine, hart
  <2>2. \A u \in U54 : inbox'[u] \subseteq inbox[u]
    BY <1>5 DEF IpiPoll
  <2>3. QED
    BY <1>3, <2>1, <2>2
<1>6. CASE TinyCli
  BY <1>1, <1>3, <1>6 DEF TinyCli, NextTurn, toE51, hart
<1>7. CASE UNCHANGED vars \/ \E h \in U54 : Timeout(h)
  BY <1>3, <1>7 DEF vars, Timeout, machine, sched, toE51, hart
<1>8. ASSUME NEW u \in U54, U54Step(u) \/ Payload(u)
      PROVE  UNCHANGED <<state, prevState, queue, inbox, ustate, phase, cur>>
  <2>1. CASE ScanLaunch(u)
    BY <1>3, <2>1 DEF ScanLaunch, machine, sched, toE51
  <2>2. QED
    BY <1>3, <1>8, <2>1 DEF U54Step, Payload, ScanPmpSetup, SbiInit, WarmBoot, SystemReset,
       EcallReboot, RprocStart, HartStart
<1>9. prevState \in [U54 -> BootState \cup {"INVALID"}]
  BY DEF TypeInv, MachineOK
<1>10. QED
  BY <1>3, <1>4, <1>5, <1>6, <1>7, <1>8, <1>9 DEF Next, E51

\* A completion entry is free when a message is owed.
LEMMA EntryForOwed ==
    ASSUME TypeInv, AskedInv, EntriesCount, EntriesSuffice,
           NEW u \in U54, NEW h \in U54, NEW kind \in Kind, Owes(u, h, kind)
    PROVE  \E k \in Index : ~completes[k].used
<1> DEFINE p == Cardinality(PerBoot)
           most == scenario.maxBoots + scenario.maxRequests
<1>1. <<u, <<h, kind>>>> \in Due
  BY DEF Due, Source
<1>2. Cardinality(Due) # 0 /\ Cardinality(Due) \in Nat
  BY <1>1, MessagesFinite, FS_EmptySet
<1>3. /\ Cardinality(UsedEntries) \in Nat /\ p \in Nat /\ Begun \in Nat /\ most \in Nat
      /\ Begun <= most /\ requests \in Nat /\ scenario.maxRequests \in Nat
      /\ requests <= scenario.maxRequests /\ K \in Nat \ {0}
  BY UsedFinite, MessagesFinite, BegunType, ScenarioType DEF TypeInv, BoundsOK
<1>4. p * Begun <= p * most /\ p * Begun \in Nat /\ p * most \in Nat
  BY <1>3, Products
<1>5. Cardinality(UsedEntries) + Cardinality(Due) <= p * Begun + requests
  BY DEF EntriesCount
<1>6. p * most + scenario.maxRequests <= K
  BY DEF EntriesSuffice
<1> HIDE DEF p, most
<1>7. Cardinality(UsedEntries) # K
  BY <1>2, <1>3, <1>4, <1>5, <1>6
<1>8. Cardinality(Index) = K
  BY <1>3, FS_Interval DEF Index
<1>9. QED
  BY <1>7, <1>8 DEF UsedEntries

\* What the assertions ask for.
LEMMA AssertsImplied ==
    TypeInv /\ LaunchInv /\ EntriesInv /\ FitInv /\ EntriesCount /\ ImageFirst /\ EntriesSuffice
        => AssertsHold
<1> SUFFICES ASSUME TypeInv, LaunchInv, EntriesInv, FitInv, EntriesCount, ImageFirst,
                    EntriesSuffice, NEW h \in U54, turn = h
             PROVE  /\ ReadsImage(h) => image \/ scenario.storageFails
                    /\ TakesEntry(h) => \E k \in Index : ~completes[k].used
                    /\ FreesAll(h) =>
                          /\ msgIndex[h] # K => completes[msgIndex[h]].used
                          /\ \A p \in Outstanding(h) : completes[msgIndexAux[h][p]].used
  BY DEF AssertsHold
<1>1. ReadsImage(h) => image \/ scenario.storageFails
  BY DEF ReadsImage, ImageFirst
<1>2. ASSUME TakesEntry(h) PROVE \E k \in Index : ~completes[k].used
  <2>1. phase = "handler" => state[h] = cur /\ prevState[h] = cur
    BY DEF FitInv, Captured
  <2>2. CASE prevState[h] = "OPENSBI_INIT" /\ state[h] # "OPENSBI_INIT" /\ EntryPoint[h] # 0
    <3>1. Owes(h, h, "old")
      BY <2>2 DEF Owes
    <3>2. QED
      BY <3>1, EntryForOwed DEF FitInv, Kind
  <2>3. CASE phase = "handler" /\ cur = "SETUP_PMP" /\ msgIndex[h] = K
    <3>1. Owes(h, h, "pmp")
      BY <2>1, <2>3 DEF Owes, Granted, PmpDue
    <3>2. QED
      BY <3>1, EntryForOwed DEF FitInv, Kind
  <2>4. CASE /\ phase = "handler" /\ cur = "OPENSBI_INIT" /\ PrimaryBootHart(h)
             /\ iterator[h] + 1 \in Peers(h)
    <3>1. PICK v \in U54 : v = iterator[h] + 1
      BY <2>4 DEF Peers
    <3>2. iterator[h] < v
      BY <3>1 DEF TypeInv, MachineOK
    <3>3. Owes(v, h, "peer")
      BY <2>1, <2>4, <3>1, <3>2 DEF Owes, Granted, PeerDue
    <3>4. QED
      BY <3>3, EntryForOwed DEF FitInv, Kind
  <2>5. QED
    BY <1>2, <2>2, <2>3, <2>4 DEF TakesEntry
<1>3. ASSUME FreesAll(h)
      PROVE  /\ msgIndex[h] # K => completes[msgIndex[h]].used
             /\ \A p \in Outstanding(h) : completes[msgIndexAux[h][p]].used
  <2>1. InHandler(h) /\ cur = "SETUP_PMP_COMPLETE"
    BY <1>3 DEF FreesAll, InHandler
  <2>2. h \in First /\ AllProtected
    BY <2>1, PassState DEF LaunchInv, FirstOnly
  <2>3. \A p \in Places(h) : completes[At(h, p)].used
    BY <2>2 DEF Registered, EntriesInv
  <2>4. 0 \in 0..NumU54 /\ \A p \in U54 : p \in 0..NumU54 /\ p # 0
    BY ImageAssumption DEF U54
  <2>5. QED
    BY <2>3, <2>4 DEF Places, At, Outstanding
<1>4. QED
  BY <1>1, <1>2, <1>3

\* No assertion of the boot service or of the mailbox stops the E51: when the
\* contexts that are not booted automatically belong to boot sets that a boot
\* command starts, and the slots and completion entries suffice for the boot
\* commands and requests, the image is there whenever it is read, an entry is
\* free whenever IPI_MessageAlloc is called, and a time-out frees only entries
\* in use, whatever the U54s do and however late they answer.
THEOREM AssertsCorrect ==
    Spec /\ []ContextsStarted /\ []QueuesSuffice /\ []EntriesSuffice => []AssertsHold
<1>1. TypeInv /\ FitInv /\ QueuesSuffice => PmpRequestFits
  BY FitImplies
<1>2. QED
  BY <1>1, TypeInit, TypeAlways, LaunchAlways, FitAlways, FitInit, EntriesCountAll, EntriesInit,
     EntriesNext, ImageFirstInit, ImageFirstNext, AssertsImplied, PTL DEF Spec

=============================================================================
