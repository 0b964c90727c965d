--------------------------- MODULE BootChunksProofs ---------------------------
(***************************************************************************)
(* Proofs about the placing of a boot image, for any number of harts and   *)
(* chunks, any sizes and any size of a piece.  What an image has to        *)
(* fulfil for that is stated by TablesOK and PlacesOK.                     *)
(***************************************************************************)
EXTENDS BootChunks, FiniteSetTheorems, TLAPS

\* firstChunk and lastChunk of a hart enclose its chunks, as elf_parser and
\* blob_handler set them.
TablesOK(img) ==
    \A i \in DOMAIN img.chunks :
        LET h == img.chunks[i].owner IN img.first[h] + 1 <= i /\ i <= img.last[h] + 1

\* What the copy of a chunk may write: less than a piece past its end.
Extent(c) == c.execAddr..(c.execAddr + c.size + Sub - 1)

\* The payload is in memory.  No chunk is written over a zi-chunk, nor over
\* another chunk, unless that one belongs to the same hart and is copied later.
PlacesOK(img) ==
    /\ \A i \in DOMAIN img.chunks : Region(img.chunks[i]) \subseteq 0..Top
    /\ \A k \in DOMAIN img.zi : Region(img.zi[k]) \subseteq 0..Top
    /\ \A i \in DOMAIN img.chunks : \A k \in DOMAIN img.zi :
          Extent(img.chunks[i]) \cap Region(img.zi[k]) = {}
    /\ \A i, j \in DOMAIN img.chunks :
          ~(img.chunks[i].owner = img.chunks[j].owner /\ i <= j) =>
              Extent(img.chunks[i]) \cap Region(img.chunks[j]) = {}

-----------------------------------------------------------------------------
(* The inductive invariants *)

Own(h) == {i \in DOMAIN image.chunks : image.chunks[i].owner = h}

\* The own chunks that the machine has gone past.
Passed(h) == {i \in Own(h) : i < pChunk[h]}

\* The cursors of a machine into the chunk table.
CursorInv ==
    /\ pZiChunk \in [U54 -> Nat] /\ pChunk \in [U54 -> Nat] /\ chunkCount \in [U54 -> Nat]
    /\ subChunkOffset \in [U54 -> Nat] /\ ancilliaryData \in [U54 -> Nat]
    /\ \A h \in U54 :
        /\ chunkCount[h] <= Cardinality(Passed(h)) /\ chunkCount[h] + 1 <= pChunk[h]
        /\ pChunk[h] \in Own(h) => subChunkOffset[h] <= image.chunks[pChunk[h]].size
        /\ pChunk[h] \notin Own(h) => subChunkOffset[h] = 0
        /\ state[h] \in {"WAIT_PMP", "ZERO_INIT_CHUNKS"} => subChunkOffset[h] = 0

\* The first o bytes of chunk c are in place, in m.
LoadedTo(m, c, o) ==
    \A a \in Region(c) : a < c.execAddr + o => m[a] = c.loadAddr + (a - c.execAddr)

Loaded(m, c) == \A a \in Region(c) : m[a] = c.loadAddr + (a - c.execAddr)

Zeroed(m, z) == \A a \in Region(z) : m[a] = Zero

\* What machine h, in state s and with these cursors, has placed is in m.
Placed(m, h, s, pz, pc, so) ==
    /\ \A k \in DOMAIN image.zi :
          image.zi[k].owner = h /\ (k < pz \/ s \in {"DOWNLOAD_CHUNKS", "DONE"}) =>
              Zeroed(m, image.zi[k])
    /\ \A i \in Own(h) :
          /\ s = "DOWNLOAD_CHUNKS" /\ i < pc => Loaded(m, image.chunks[i])
          /\ s = "DOWNLOAD_CHUNKS" /\ i = pc => LoadedTo(m, image.chunks[i], so)
          /\ s = "DONE" => Loaded(m, image.chunks[i])

PlacedInv ==
    \A h \in U54 : Placed(mem, h, state[h], pZiChunk[h], pChunk[h], subChunkOffset[h])

-----------------------------------------------------------------------------
(* The tables and the cursors *)

\* Entry i of a table is one.
LEMMA Member ==
    ASSUME NEW S, NEW s \in Seq(S)
    PROVE  Len(s) \in Nat /\ DOMAIN s = 1..Len(s) /\ \A i \in 1..Len(s) : s[i] \in S
OBVIOUS

LEMMA Tables ==
    ASSUME image \in Images
    PROVE  /\ NumU54 \in Nat \ {0} /\ Sub \in Nat \ {0} /\ Top \in Nat
           /\ Len(image.chunks) \in Nat /\ DOMAIN image.chunks = 1..Len(image.chunks)
           /\ Len(image.zi) \in Nat /\ DOMAIN image.zi = 1..Len(image.zi)
           /\ \A i \in DOMAIN image.chunks :
                 LET c == image.chunks[i]
                 IN  /\ c.owner \in U54 /\ c.anc \in BOOLEAN /\ c.loadAddr \in Nat
                     /\ c.execAddr \in 0..Top /\ c.size \in 1..Top
           /\ \A k \in DOMAIN image.zi :
                 LET z == image.zi[k]
                 IN  z.owner \in U54 /\ z.execAddr \in 0..Top /\ z.size \in 1..Top
           /\ image.first \in [U54 -> Nat] /\ image.last \in [U54 -> Nat]
<1>1. /\ NumU54 \in Nat \ {0} /\ Sub \in Nat \ {0} /\ Top \in Nat
      /\ image.chunks \in Seq(ChunkDesc) /\ image.zi \in Seq(ZIChunkDesc)
      /\ image.first \in [U54 -> Nat] /\ image.last \in [U54 -> Nat]
  BY ChunkAssumption
<1>2. /\ Len(image.chunks) \in Nat /\ DOMAIN image.chunks = 1..Len(image.chunks)
      /\ \A i \in DOMAIN image.chunks : image.chunks[i] \in ChunkDesc
  BY <1>1, Member
<1>3. /\ Len(image.zi) \in Nat /\ DOMAIN image.zi = 1..Len(image.zi)
      /\ \A k \in DOMAIN image.zi : image.zi[k] \in ZIChunkDesc
  BY <1>1, Member
<1>4. \A c \in ChunkDesc : /\ c.owner \in U54 /\ c.anc \in BOOLEAN /\ c.loadAddr \in Nat
                           /\ c.execAddr \in 0..Top /\ c.size \in 1..Top
  BY DEF ChunkDesc
<1>5. \A z \in ZIChunkDesc : z.owner \in U54 /\ z.execAddr \in 0..Top /\ z.size \in 1..Top
  BY DEF ZIChunkDesc
<1>6. QED
  BY <1>1, <1>2, <1>3, <1>4, <1>5

\* The super-loop goes round the machines.
LEMMA TurnType ==
    ASSUME NEW n \in Nat \ {0}, NEW t \in 1..n
    PROVE  1 + (t % n) \in 1..n
<1>1. (t % n) \in 0..n - 1
  OBVIOUS
<1>2. QED
  BY <1>1

\* Sets of own chunks are finite, and one more counts one more.
LEMMA OwnCount ==
    ASSUME image \in Images, NEW h \in U54, NEW p \in Nat
    PROVE  LET below(n) == {i \in Own(h) : i < n}
           IN  /\ IsFiniteSet(Own(h)) /\ NumChunks(h) = Cardinality(Own(h))
               /\ NumChunks(h) \in Nat /\ (NumChunks(h) = 0 <=> Own(h) = {})
               /\ Cardinality(below(p)) \in Nat /\ Cardinality(below(p)) <= NumChunks(h)
               /\ Cardinality(below(p)) <= Cardinality(below(p + 1))
               /\ p \in Own(h) => Cardinality(below(p)) + 1 <= Cardinality(below(p + 1))
<1> DEFINE below(n) == {i \in Own(h) : i < n}
<1>1. /\ Own(h) \subseteq 1..Len(image.chunks) /\ Len(image.chunks) \in Nat
      /\ NumChunks(h) = Cardinality(Own(h))
  BY Tables DEF Own, NumChunks
<1>2. IsFiniteSet(Own(h)) /\ \A i \in Own(h) : i \in Nat
  <2>1. IsFiniteSet(1..Len(image.chunks))
    BY <1>1, FS_Interval
  <2>2. QED
    BY <1>1, <2>1, FS_Subset
<1>3. Cardinality(Own(h)) \in Nat /\ (Cardinality(Own(h)) = 0 <=> Own(h) = {})
  BY <1>2, FS_CardinalityType, FS_EmptySet
<1>4. /\ below(p) \subseteq Own(h) /\ below(p + 1) \subseteq Own(h)
      /\ below(p) \subseteq below(p + 1)
  BY <1>2
<1>5. IsFiniteSet(below(p)) /\ IsFiniteSet(below(p + 1))
  BY <1>2, <1>4, FS_Subset
<1>6. /\ Cardinality(below(p)) \in Nat /\ Cardinality(below(p + 1)) \in Nat
      /\ Cardinality(below(p)) <= Cardinality(Own(h))
      /\ Cardinality(below(p)) <= Cardinality(below(p + 1))
  BY <1>2, <1>4, <1>5, FS_Subset, FS_CardinalityType
<1>7. ASSUME p \in Own(h) PROVE Cardinality(below(p)) + 1 <= Cardinality(below(p + 1))
  <2>1. \A i \in Own(h) : i < p + 1 <=> i < p \/ i = p
    BY <1>2
  <2>2. ~(p < p)
    OBVIOUS
  <2>3. below(p + 1) = below(p) \cup {p} /\ p \notin below(p)
    BY <1>7, <2>1, <2>2, Zenon
  <2> HIDE DEF below
  <2>4. Cardinality(below(p) \cup {p}) = Cardinality(below(p)) + 1
    BY <1>5, <2>3, FS_AddElement
  <2>5. Cardinality(below(p + 1)) = Cardinality(below(p)) + 1
    BY <2>3, <2>4, Zenon
  <2>6. QED
    BY <1>6, <2>5
<1>8. QED
  BY <1>1, <1>2, <1>3, <1>6, <1>7

LEMMA TypeInit == Init => TypeOK /\ CursorInv
<1> SUFFICES ASSUME Init PROVE TypeOK /\ CursorInv
  OBVIOUS
<1>1. image \in Images /\ \A h \in U54 : pChunk[h] = 1
  BY DEF Init
<1>2. /\ NumU54 \in Nat \ {0} /\ Top \in Nat /\ Len(image.chunks) \in Nat /\ Len(image.zi) \in Nat
  BY <1>1, Tables
<1>3. \A h \in U54 : NumChunks(h) \in Nat
  BY <1>1, OwnCount
<1>4. \A h \in U54 : Cardinality(Passed(h)) \in Nat
  <2>1. ASSUME NEW h \in U54 PROVE Cardinality({i \in Own(h) : i < 1}) \in Nat
    BY <1>1, OwnCount
  <2>2. QED
    BY <1>1, <2>1 DEF Passed
<1>5. TypeOK
  BY <1>1, <1>2, <1>3 DEF Init, TypeOK, U54, Old
<1>6. \A i \in DOMAIN image.chunks : image.chunks[i].size \in Nat
  BY <1>1, Tables
<1>7. CursorInv
  <2>1. /\ pZiChunk \in [U54 -> Nat] /\ pChunk \in [U54 -> Nat] /\ chunkCount \in [U54 -> Nat]
        /\ subChunkOffset \in [U54 -> Nat] /\ ancilliaryData \in [U54 -> Nat]
    BY DEF Init
  <2>2. ASSUME NEW h \in U54
        PROVE  /\ chunkCount[h] <= Cardinality(Passed(h)) /\ chunkCount[h] + 1 <= pChunk[h]
               /\ subChunkOffset[h] = 0
               /\ pChunk[h] \in Own(h) => subChunkOffset[h] <= image.chunks[pChunk[h]].size
    BY <1>4, <1>6 DEF Init, Own
  <2>3. QED
    BY <2>1, <2>2 DEF CursorInv
<1>8. QED
  BY <1>5, <1>7

\* Machine h goes on with these cursors.
Moves(h, s, pz, pc, cc, so, an) ==
    /\ image' = image /\ turn' = 1 + (turn % NumU54)
    /\ state' = [state EXCEPT ![h] = s]
    /\ pZiChunk' = [pZiChunk EXCEPT ![h] = pz]
    /\ pChunk' = [pChunk EXCEPT ![h] = pc]
    /\ chunkCount' = [chunkCount EXCEPT ![h] = cc]
    /\ subChunkOffset' = [subChunkOffset EXCEPT ![h] = so]
    /\ ancilliaryData' = [ancilliaryData EXCEPT ![h] = an]

\* The cursors of machine h are in order.
InOrder(h, s, pz, pc, cc, so, an) ==
    /\ s \in {"WAIT_PMP", "ZERO_INIT_CHUNKS", "DOWNLOAD_CHUNKS", "DONE"}
    /\ pz \in 1..(Len(image.zi) + 1) /\ pc \in 1..(Len(image.chunks) + 1)
    /\ cc \in Nat /\ so \in 0..Top /\ an \in 0..Top
    /\ cc <= Cardinality({i \in Own(h) : i < pc}) /\ cc + 1 <= pc
    /\ pc \in Own(h) => so <= image.chunks[pc].size
    /\ pc \notin Own(h) => so = 0
    /\ s \in {"WAIT_PMP", "ZERO_INIT_CHUNKS"} => so = 0

\* A step of one machine has to keep that machine's cursors in order.
LEMMA OneMachine ==
    ASSUME TypeOK, CursorInv, NEW h \in U54, NEW s, NEW pz, NEW pc, NEW cc, NEW so, NEW an,
           Moves(h, s, pz, pc, cc, so, an), InOrder(h, s, pz, pc, cc, so, an),
           mem' \in [0..Top -> Int]
    PROVE  TypeOK' /\ CursorInv'
<1> USE DEF Moves, InOrder
<1>1. /\ image \in Images /\ turn \in U54 /\ NumU54 \in Nat \ {0} /\ Top \in Nat
      /\ Len(image.chunks) \in Nat /\ Len(image.zi) \in Nat
  BY Tables DEF TypeOK
<1>0. pz \in Nat /\ pc \in Nat /\ so \in Nat /\ an \in Nat
  BY <1>1
<1>2. /\ NumChunks(h) \in Nat
      /\ Cardinality({i \in Own(h) : i < pc}) \in Nat
      /\ Cardinality({i \in Own(h) : i < pc}) <= NumChunks(h)
  BY <1>0, <1>1, OwnCount
<1>3. turn' \in U54
  BY <1>1, TurnType DEF U54
<1>4. \A g \in U54 : NumChunks(g)' = NumChunks(g) /\ Own(g)' = Own(g)
  BY DEF NumChunks, Own
<1>5. state' \in [U54 -> {"WAIT_PMP", "ZERO_INIT_CHUNKS", "DOWNLOAD_CHUNKS", "DONE"}]
  BY DEF TypeOK
<1>6. /\ pZiChunk' \in [U54 -> Nat] /\ pChunk' \in [U54 -> Nat] /\ chunkCount' \in [U54 -> Nat]
      /\ subChunkOffset' \in [U54 -> Nat] /\ ancilliaryData' \in [U54 -> Nat]
  BY <1>0 DEF CursorInv
<1>7. /\ state'[h] = s /\ pZiChunk'[h] = pz /\ pChunk'[h] = pc /\ chunkCount'[h] = cc
      /\ subChunkOffset'[h] = so /\ ancilliaryData'[h] = an
  BY DEF TypeOK, CursorInv
<1>8. ASSUME NEW g \in U54, g # h
      PROVE  /\ state'[g] = state[g] /\ pZiChunk'[g] = pZiChunk[g] /\ pChunk'[g] = pChunk[g]
             /\ chunkCount'[g] = chunkCount[g] /\ subChunkOffset'[g] = subChunkOffset[g]
             /\ ancilliaryData'[g] = ancilliaryData[g]
  BY <1>8 DEF TypeOK, CursorInv
<1>9. ASSUME NEW g \in U54
      PROVE  /\ pZiChunk'[g] \in 1..(Len(image.zi) + 1)
             /\ pChunk'[g] \in 1..(Len(image.chunks) + 1)
             /\ chunkCount'[g] \in 0..NumChunks(g)
             /\ subChunkOffset'[g] \in 0..Top
             /\ ancilliaryData'[g] \in 0..Top
  <2>1. CASE g = h
    <3>1. cc \in 0..NumChunks(h)
      BY <1>2
    <3>2. QED
      BY <1>7, <2>1, <3>1
  <2>2. CASE g # h
    BY <1>8, <2>2 DEF TypeOK
  <2>3. QED
    BY <2>1, <2>2
<1>10. TypeOK'
  BY <1>1, <1>3, <1>4, <1>5, <1>9 DEF TypeOK
<1>11. ASSUME NEW g \in U54
       PROVE  /\ chunkCount'[g] <= Cardinality({i \in Own(g) : i < pChunk'[g]})
              /\ chunkCount'[g] + 1 <= pChunk'[g]
              /\ pChunk'[g] \in Own(g) => subChunkOffset'[g] <= image.chunks[pChunk'[g]].size
              /\ pChunk'[g] \notin Own(g) => subChunkOffset'[g] = 0
              /\ state'[g] \in {"WAIT_PMP", "ZERO_INIT_CHUNKS"} => subChunkOffset'[g] = 0
  <2>1. CASE g = h
    BY <1>7, <2>1
  <2>2. CASE g # h
    BY <1>8, <2>2 DEF CursorInv, Passed
  <2>3. QED
    BY <2>1, <2>2
<1>12. \A g \in U54 : Passed(g)' = {i \in Own(g) : i < pChunk'[g]}
  BY <1>4 DEF Passed
<1>13. \A g \in U54 : Cardinality(Passed(g)') = Cardinality({i \in Own(g) : i < pChunk'[g]})
  BY <1>12, Zenon
<1>14. CursorInv'
  <2>1. ASSUME NEW g \in U54
        PROVE  (/\ chunkCount[g] <= Cardinality(Passed(g)) /\ chunkCount[g] + 1 <= pChunk[g]
                /\ pChunk[g] \in Own(g) => subChunkOffset[g] <= image.chunks[pChunk[g]].size
                /\ pChunk[g] \notin Own(g) => subChunkOffset[g] = 0
                /\ state[g] \in {"WAIT_PMP", "ZERO_INIT_CHUNKS"} => subChunkOffset[g] = 0)'
    <3>1. Own(g)' = Own(g) /\ image' = image
      BY <1>4
    <3>2. (chunkCount[g] <= Cardinality(Passed(g)) /\ chunkCount[g] + 1 <= pChunk[g])'
      BY <1>11, <1>13
    <3>3. (pChunk[g] \in Own(g) => subChunkOffset[g] <= image.chunks[pChunk[g]].size)'
      BY <1>11, <3>1
    <3>4. (/\ pChunk[g] \notin Own(g) => subChunkOffset[g] = 0
           /\ state[g] \in {"WAIT_PMP", "ZERO_INIT_CHUNKS"} => subChunkOffset[g] = 0)'
      BY <1>11, <3>1
    <3>5. QED
      BY <3>2, <3>3, <3>4
  <2>2. QED
    BY <1>6, <2>1 DEF CursorInv
<1>15. QED
  BY <1>10, <1>14

\* A cursor that is left alone.
LEMMA SameCursor ==
    ASSUME NEW S, NEW T, NEW f \in [S -> T], NEW x \in S
    PROVE  f = [f EXCEPT ![x] = f[x]]
OBVIOUS

\* The cursors of machine h as they are.
LEMMA CursorsNow ==
    ASSUME TypeOK, CursorInv, NEW h \in U54
    PROVE  /\ state = [state EXCEPT ![h] = state[h]]
           /\ pZiChunk = [pZiChunk EXCEPT ![h] = pZiChunk[h]]
           /\ pChunk = [pChunk EXCEPT ![h] = pChunk[h]]
           /\ chunkCount = [chunkCount EXCEPT ![h] = chunkCount[h]]
           /\ subChunkOffset = [subChunkOffset EXCEPT ![h] = subChunkOffset[h]]
           /\ ancilliaryData = [ancilliaryData EXCEPT ![h] = ancilliaryData[h]]
           /\ InOrder(h, state[h], pZiChunk[h], pChunk[h], chunkCount[h], subChunkOffset[h],
                      ancilliaryData[h])
<1>1. /\ state = [state EXCEPT ![h] = state[h]]
      /\ pZiChunk = [pZiChunk EXCEPT ![h] = pZiChunk[h]]
      /\ pChunk = [pChunk EXCEPT ![h] = pChunk[h]]
      /\ chunkCount = [chunkCount EXCEPT ![h] = chunkCount[h]]
      /\ subChunkOffset = [subChunkOffset EXCEPT ![h] = subChunkOffset[h]]
      /\ ancilliaryData = [ancilliaryData EXCEPT ![h] = ancilliaryData[h]]
  BY SameCursor DEF TypeOK, CursorInv
<1>2. InOrder(h, state[h], pZiChunk[h], pChunk[h], chunkCount[h], subChunkOffset[h],
              ancilliaryData[h])
  BY DEF TypeOK, CursorInv, Passed, InOrder
<1>3. QED
  BY <1>1, <1>2

LEMMA TypeWaitPmp ==
    ASSUME TypeOK, CursorInv, NEW h \in U54, WaitPmp(h)
    PROVE  TypeOK' /\ CursorInv'
<1>1. mem' = mem /\ state[h] = "WAIT_PMP"
  BY DEF WaitPmp, Runs
<1>2. PICK s \in {"WAIT_PMP", "ZERO_INIT_CHUNKS"} : state' = [state EXCEPT ![h] = s]
  BY <1>1, CursorsNow DEF WaitPmp, Enter
<1>3. Moves(h, s, pZiChunk[h], pChunk[h], chunkCount[h], subChunkOffset[h], ancilliaryData[h])
  BY <1>2, CursorsNow DEF WaitPmp, Runs, cursors, Moves
<1>4. InOrder(h, s, pZiChunk[h], pChunk[h], chunkCount[h], subChunkOffset[h], ancilliaryData[h])
  BY <1>1, <1>2, CursorsNow DEF InOrder
<1>5. mem' \in [0..Top -> Int]
  BY <1>1 DEF TypeOK
<1>6. QED
  BY <1>3, <1>4, <1>5, OneMachine

LEMMA TypeDone ==
    ASSUME TypeOK, CursorInv, NEW h \in U54, Done(h)
    PROVE  TypeOK' /\ CursorInv'
<1>1. Moves(h, state[h], pZiChunk[h], pChunk[h], chunkCount[h], subChunkOffset[h],
            ancilliaryData[h])
  BY CursorsNow DEF Done, Runs, cursors, Moves
<1>2. mem' \in [0..Top -> Int]
  BY DEF Done, TypeOK
<1>3. QED
  BY <1>1, <1>2, CursorsNow, OneMachine

\* firstChunk lies inside the table, with no own chunk before it.
LEMMA FirstChunk ==
    ASSUME image \in Images, TablesOK(image), NEW h \in U54, NumChunks(h) # 0
    PROVE  /\ image.first[h] \in Nat
           /\ image.first[h] + 1 \in 1..(Len(image.chunks) + 1)
           /\ \A i \in Own(h) : image.first[h] + 1 <= i
<1>1. /\ Len(image.chunks) \in Nat /\ DOMAIN image.chunks = 1..Len(image.chunks)
      /\ image.first \in [U54 -> Nat]
  BY Tables
<1>2. PICK j \in Own(h) : TRUE
  BY OwnCount
<1>3. \A i \in Own(h) : i \in 1..Len(image.chunks) /\ image.first[h] + 1 <= i
  BY <1>1 DEF Own, TablesOK
<1>4. QED
  BY <1>1, <1>2, <1>3

LEMMA TypeZeroInitChunks ==
    ASSUME TypeOK, CursorInv, TablesOK(image), NEW h \in U54, ZeroInitChunks(h)
    PROVE  TypeOK' /\ CursorInv'
<1>1. /\ image \in Images /\ image' = image /\ turn' = 1 + (turn % NumU54)
      /\ state[h] = "ZERO_INIT_CHUNKS" /\ ancilliaryData' = ancilliaryData
  BY DEF ZeroInitChunks, Runs, TypeOK
<1>2. /\ Len(image.zi) \in Nat /\ Len(image.chunks) \in Nat /\ Top \in Nat
      /\ pZiChunk[h] \in Nat /\ (pZiChunk[h] > Len(image.zi) <=> ~(pZiChunk[h] <= Len(image.zi)))
  BY <1>1, Tables DEF CursorInv
<1>3. CASE pZiChunk[h] <= Len(image.zi)
  <2>1. /\ pZiChunk' = [pZiChunk EXCEPT ![h] = pZiChunk[h] + 1] /\ state' = state
        /\ pChunk' = pChunk /\ chunkCount' = chunkCount /\ subChunkOffset' = subChunkOffset
        /\ IF image.zi[pZiChunk[h]].owner = h THEN ZeroInit(image.zi[pZiChunk[h]])
                                              ELSE UNCHANGED mem
    BY <1>2, <1>3 DEF ZeroInitChunks
  <2>2. mem' \in [0..Top -> Int]
    BY <2>1 DEF ZeroInit, Zero, TypeOK
  <2>3. Moves(h, state[h], pZiChunk[h] + 1, pChunk[h], chunkCount[h], subChunkOffset[h],
              ancilliaryData[h])
    BY <1>1, <2>1, CursorsNow DEF Moves
  <2>4. InOrder(h, state[h], pZiChunk[h] + 1, pChunk[h], chunkCount[h], subChunkOffset[h],
                ancilliaryData[h])
    <3>1. pZiChunk[h] + 1 \in 1..(Len(image.zi) + 1)
      BY <1>2, <1>3
    <3>2. QED
      BY <3>1, CursorsNow DEF InOrder
  <2>5. QED
    BY <2>2, <2>3, <2>4, OneMachine
<1>4. CASE ~(pZiChunk[h] <= Len(image.zi))
  <2>1. /\ state' = [state EXCEPT ![h] = "DOWNLOAD_CHUNKS"] /\ mem' = mem
        /\ pZiChunk' = pZiChunk
        /\ pChunk' = [pChunk EXCEPT ![h] = IF NumChunks(h) = 0 THEN @ ELSE image.first[h] + 1]
        /\ chunkCount' = [chunkCount EXCEPT ![h] = IF NumChunks(h) = 0 THEN @ ELSE 0]
        /\ subChunkOffset' = [subChunkOffset EXCEPT ![h] = IF NumChunks(h) = 0 THEN @ ELSE 0]
    BY <1>2, <1>4 DEF ZeroInitChunks, Enter
  <2>2. mem' \in [0..Top -> Int]
    BY <2>1 DEF TypeOK
  <2>3. CASE NumChunks(h) = 0
    <3>1. Moves(h, "DOWNLOAD_CHUNKS", pZiChunk[h], pChunk[h], chunkCount[h], subChunkOffset[h],
                ancilliaryData[h])
      BY <1>1, <2>1, <2>3, CursorsNow DEF Moves
    <3>2. InOrder(h, "DOWNLOAD_CHUNKS", pZiChunk[h], pChunk[h], chunkCount[h], subChunkOffset[h],
                  ancilliaryData[h])
      BY CursorsNow DEF InOrder
    <3>3. QED
      BY <2>2, <3>1, <3>2, OneMachine
  <2>4. CASE NumChunks(h) # 0
    <3>1. Moves(h, "DOWNLOAD_CHUNKS", pZiChunk[h], image.first[h] + 1, 0, 0, ancilliaryData[h])
      BY <1>1, <2>1, <2>4, CursorsNow DEF Moves
    <3>2. image.first[h] \in Nat /\ image.first[h] + 1 \in 1..(Len(image.chunks) + 1)
      BY <1>1, <2>4, FirstChunk
    <3>3. 0 <= Cardinality({i \in Own(h) : i < image.first[h] + 1})
      <4>1. image.first[h] + 1 \in Nat
        BY <3>2
      <4>2. Cardinality({i \in Own(h) : i < image.first[h] + 1}) \in Nat
        BY <1>1, <4>1, OwnCount
      <4>3. QED
        BY <4>2
    <3>4. image.first[h] + 1 \in Own(h) => 0 <= image.chunks[image.first[h] + 1].size
      BY <1>1, <1>2, Tables DEF Own
    <3>5. 0 + 1 <= image.first[h] + 1 /\ 0 \in 0..Top /\ 0 \in Nat
      BY <1>2, <3>2
    <3>6. InOrder(h, "DOWNLOAD_CHUNKS", pZiChunk[h], image.first[h] + 1, 0, 0, ancilliaryData[h])
      BY <3>2, <3>3, <3>4, <3>5, CursorsNow DEF InOrder
    <3>7. QED
      BY <2>2, <3>1, <3>6, OneMachine
  <2>5. QED
    BY <2>3, <2>4
<1>5. QED
  BY <1>3, <1>4

\* What a call in DOWNLOAD_CHUNKS does, by the chunk the cursor is at.
LEMMA DownloadCases ==
    ASSUME TypeOK, CursorInv, NEW h \in U54, DownloadChunks(h)
    PROVE  LET p == pChunk[h]
           IN  \/ p \in Own(h) /\ DownloadPiece(h, image.chunks[p]) /\ UNCHANGED state
               \/ p \in 1..Len(image.chunks) \ Own(h) /\ SkipChunk(h) /\ UNCHANGED state
               \/ /\ ~(NumChunks(h) # 0 /\ chunkCount[h] <= image.last[h] /\ p <= Len(image.chunks))
                  /\ Enter(h, "DONE")
                  /\ UNCHANGED <<mem, pChunk, chunkCount, subChunkOffset, ancilliaryData>>
<1>1. image \in Images /\ pChunk[h] \in 1..(Len(image.chunks) + 1)
  BY DEF TypeOK
<1>2. Len(image.chunks) \in Nat /\ DOMAIN image.chunks = 1..Len(image.chunks)
  BY <1>1, Tables
<1>3. pChunk[h] <= Len(image.chunks) =>
          /\ pChunk[h] \in 1..Len(image.chunks)
          /\ pChunk[h] \in Own(h) <=> image.chunks[pChunk[h]].owner = h
  BY <1>1, <1>2 DEF Own
<1>4. QED
  BY <1>3 DEF DownloadChunks, CheckWrite

LEMMA TypeDownloadChunks ==
    ASSUME TypeOK, CursorInv, NEW h \in U54, DownloadChunks(h)
    PROVE  TypeOK' /\ CursorInv'
<1> DEFINE p == pChunk[h]
           c == image.chunks[p]
           cc == chunkCount[h]
           so == subChunkOffset[h]
           an == ancilliaryData[h]
<1>1. /\ image \in Images /\ image' = image /\ turn' = 1 + (turn % NumU54)
      /\ state[h] = "DOWNLOAD_CHUNKS" /\ pZiChunk' = pZiChunk
  BY DEF DownloadChunks, Runs, TypeOK
<1>2. /\ Len(image.chunks) \in Nat /\ Top \in Nat /\ Sub \in Nat \ {0}
      /\ \A i \in Own(h) : /\ i \in 1..Len(image.chunks) /\ image.chunks[i].loadAddr \in Nat
                           /\ image.chunks[i].execAddr \in 0..Top /\ image.chunks[i].size \in 1..Top
  BY <1>1, Tables DEF Own
<1>3. /\ p \in Nat /\ cc \in Nat /\ so \in Nat /\ cc + 1 <= p
      /\ cc <= Cardinality({i \in Own(h) : i < p})
      /\ p \notin Own(h) => so = 0
  BY DEF CursorInv, Passed
<1>4. /\ Cardinality({i \in Own(h) : i < p}) \in Nat
      /\ Cardinality({i \in Own(h) : i < p + 1}) \in Nat
      /\ Cardinality({i \in Own(h) : i < p}) <= Cardinality({i \in Own(h) : i < p + 1})
      /\ p \in Own(h) => Cardinality({i \in Own(h) : i < p}) + 1
                           <= Cardinality({i \in Own(h) : i < p + 1})
  <2>1. p + 1 \in Nat
    BY <1>3
  <2>2. QED
    BY <1>1, <1>3, <2>1, OwnCount
<1>5. CASE p \in Own(h) /\ DownloadPiece(h, c) /\ UNCHANGED state
  <2>1. mem' \in [0..Top -> Int]
    <3>1. c.execAddr \in Int /\ c.loadAddr \in Int /\ so \in Int
      BY <1>2, <1>3, <1>5
    <3>2. Download(c, so) /\ mem \in [0..Top -> Int]
      BY <1>5 DEF DownloadPiece, TypeOK
    <3> HIDE DEF c, so
    <3>3. QED
      BY <3>1, <3>2 DEF Download
  <2>2. PICK a \in 0..Top : ancilliaryData' = [ancilliaryData EXCEPT ![h] = a]
    <3>1. an \in 0..Top /\ c.execAddr \in 0..Top
      BY <1>2, <1>5 DEF TypeOK
    <3>2. ancilliaryData' = [ancilliaryData EXCEPT ![h] =
                                IF c.anc /\ an = 0 THEN c.execAddr ELSE an]
      BY <1>5 DEF DownloadPiece
    <3>3. QED
      BY <3>1, <3>2
  <2>3. CASE ChunkFinished(c, so + Sub)
    <3>1. Moves(h, state[h], pZiChunk[h], p + 1, cc + 1, 0, a)
      BY <1>1, <1>5, <2>2, <2>3, CursorsNow DEF Moves, DownloadPiece
    <3>2. /\ p + 1 \in 1..(Len(image.chunks) + 1) /\ cc + 1 \in Nat /\ 0 \in 0..Top
          /\ (cc + 1) + 1 <= p + 1
          /\ p + 1 \in Own(h) => 0 <= image.chunks[p + 1].size
      BY <1>2, <1>3, <1>5
    <3>3. cc + 1 <= Cardinality({i \in Own(h) : i < p + 1})
      BY <1>3, <1>4, <1>5
    <3>4. InOrder(h, state[h], pZiChunk[h], p + 1, cc + 1, 0, a)
      BY <1>1, <3>2, <3>3, CursorsNow DEF InOrder
    <3>5. QED
      BY <2>1, <3>1, <3>4, OneMachine
  <2>4. CASE ~ChunkFinished(c, so + Sub)
    <3>1. Moves(h, state[h], pZiChunk[h], p, cc, so + Sub, a)
      BY <1>1, <1>5, <2>2, <2>4, CursorsNow DEF Moves, DownloadPiece
    <3>2. so + Sub <= c.size /\ so + Sub \in 0..Top
      BY <1>2, <1>3, <1>5, <2>4 DEF ChunkFinished
    <3>3. InOrder(h, state[h], pZiChunk[h], p, cc, so + Sub, a)
      BY <1>1, <1>5, <3>2, CursorsNow DEF InOrder
    <3>4. QED
      BY <2>1, <3>1, <3>3, OneMachine
  <2>5. QED
    BY <2>3, <2>4
<1>6. CASE p \in 1..Len(image.chunks) \ Own(h) /\ SkipChunk(h) /\ UNCHANGED state
  <2>1. mem' \in [0..Top -> Int]
    BY <1>6 DEF SkipChunk, TypeOK
  <2>2. Moves(h, state[h], pZiChunk[h], p + 1, cc, so, an)
    BY <1>1, <1>6, CursorsNow DEF Moves, SkipChunk
  <2>3. /\ so = 0 /\ p + 1 \in 1..(Len(image.chunks) + 1)
        /\ cc <= Cardinality({i \in Own(h) : i < p + 1}) /\ cc + 1 <= p + 1
        /\ p + 1 \in Own(h) => 0 <= image.chunks[p + 1].size
    BY <1>2, <1>3, <1>4, <1>6
  <2>4. InOrder(h, state[h], pZiChunk[h], p + 1, cc, so, an)
    BY <1>1, <2>3, CursorsNow DEF InOrder
  <2>5. QED
    BY <2>1, <2>2, <2>4, OneMachine
<1>7. CASE /\ Enter(h, "DONE")
           /\ UNCHANGED <<mem, pChunk, chunkCount, subChunkOffset, ancilliaryData>>
  <2>1. mem' \in [0..Top -> Int]
    BY <1>7 DEF TypeOK
  <2>2. Moves(h, "DONE", pZiChunk[h], p, cc, so, an)
    BY <1>1, <1>7, CursorsNow DEF Moves, Enter
  <2>3. InOrder(h, "DONE", pZiChunk[h], p, cc, so, an)
    BY CursorsNow DEF InOrder
  <2>4. QED
    BY <2>1, <2>2, <2>3, OneMachine
<1>8. QED
  BY <1>5, <1>6, <1>7, DownloadCases

LEMMA TypeNext ==
    ASSUME \A img \in Images : TablesOK(img), TypeOK, CursorInv, [Next]_vars
    PROVE  TypeOK' /\ CursorInv'
<1>1. CASE Next
  <2>1. TablesOK(image)
    BY DEF TypeOK
  <2>2. QED
    BY <1>1, <2>1, TypeWaitPmp, TypeZeroInitChunks, TypeDownloadChunks, TypeDone DEF Next
<1>2. CASE UNCHANGED vars
  BY <1>2 DEF vars, TypeOK, CursorInv, NumChunks, Own, Passed
<1>3. QED
  BY <1>1, <1>2

\* The cursors of the boot machines stay inside the tables of the image: the
\* end of the chunk table is reached by its terminator alone, and no machine
\* counts more chunks than it has.
THEOREM TypeCorrect ==
    ASSUME \A img \in Images : TablesOK(img)
    PROVE  Spec => []TypeOK
<1>1. Init => TypeOK /\ CursorInv
  BY TypeInit
<1>2. TypeOK /\ CursorInv /\ [Next]_vars => (TypeOK /\ CursorInv)'
  BY TypeNext
<1>3. QED
  BY <1>1, <1>2, PTL DEF Spec

-----------------------------------------------------------------------------
(* What is placed stays placed *)

LEMMA RegionInExtent ==
    ASSUME image \in Images, NEW i \in DOMAIN image.chunks
    PROVE  Region(image.chunks[i]) \subseteq Extent(image.chunks[i])
<1> DEFINE c == image.chunks[i]
<1>1. c.execAddr \in Int /\ c.size \in Int /\ Sub \in Nat
  BY Tables
<1> HIDE DEF c
<1>2. Region(c) \subseteq Extent(c)
  BY <1>1 DEF Region, Extent
<1>3. QED
  BY <1>2 DEF c

\* Every byte that a machine may write lies outside the payload of g.
LEMMA PlacedKept ==
    ASSUME NEW g \in U54, NEW s, NEW pz, NEW pc, NEW so, NEW m, NEW n,
           Placed(m, g, s, pz, pc, so),
           \A k \in DOMAIN image.zi : \A a \in Region(image.zi[k]) : m[a] = Zero => n[a] = Zero,
           \A i \in Own(g) : \A a \in Region(image.chunks[i]) : n[a] = m[a]
    PROVE  Placed(n, g, s, pz, pc, so)
<1>1. \A k \in DOMAIN image.zi : Zeroed(m, image.zi[k]) => Zeroed(n, image.zi[k])
  BY DEF Zeroed
<1>2. \A i \in Own(g) : /\ Loaded(m, image.chunks[i]) => Loaded(n, image.chunks[i])
                        /\ LoadedTo(m, image.chunks[i], so) => LoadedTo(n, image.chunks[i], so)
  BY DEF Loaded, LoadedTo
<1>3. QED
  BY <1>1, <1>2 DEF Placed

\* A step of machine h keeps what the others have placed, and has placed what
\* its cursors say.
LEMMA OnePlaces ==
    ASSUME TypeOK, CursorInv, PlacedInv, NEW h \in U54,
           NEW s, NEW pz, NEW pc, NEW cc, NEW so, NEW an, Moves(h, s, pz, pc, cc, so, an),
           Placed(mem', h, s, pz, pc, so),
           \A g \in U54 \ {h} :
               Placed(mem, g, state[g], pZiChunk[g], pChunk[g], subChunkOffset[g]) =>
               Placed(mem', g, state[g], pZiChunk[g], pChunk[g], subChunkOffset[g])
    PROVE  PlacedInv'
<1>1. image' = image
  BY DEF Moves
<1>2. ASSUME NEW g \in U54
      PROVE  Placed(mem', g, state'[g], pZiChunk'[g], pChunk'[g], subChunkOffset'[g])
  <2>1. CASE g = h
    <3>1. state'[g] = s /\ pZiChunk'[g] = pz /\ pChunk'[g] = pc /\ subChunkOffset'[g] = so
      BY <2>1 DEF Moves, TypeOK, CursorInv
    <3>2. QED
      BY <2>1, <3>1
  <2>2. CASE g # h
    <3>1. /\ state'[g] = state[g] /\ pZiChunk'[g] = pZiChunk[g] /\ pChunk'[g] = pChunk[g]
          /\ subChunkOffset'[g] = subChunkOffset[g]
      BY <2>2 DEF Moves, TypeOK, CursorInv
    <3>2. QED
      BY <2>2, <3>1 DEF PlacedInv
  <2>3. QED
    BY <2>1, <2>2
<1>3. QED
  BY <1>1, <1>2 DEF PlacedInv, Placed, Own

\* A step that leaves the memory alone.
LEMMA SameMemory ==
    ASSUME TypeOK, CursorInv, PlacedInv, NEW h \in U54,
           NEW s, NEW pz, NEW pc, NEW cc, NEW so, NEW an, Moves(h, s, pz, pc, cc, so, an),
           mem' = mem, Placed(mem, h, s, pz, pc, so)
    PROVE  PlacedInv'
<1>1. Placed(mem', h, s, pz, pc, so)
  OBVIOUS
<1>2. \A g \in U54 \ {h} :
          Placed(mem, g, state[g], pZiChunk[g], pChunk[g], subChunkOffset[g]) =>
          Placed(mem', g, state[g], pZiChunk[g], pChunk[g], subChunkOffset[g])
  OBVIOUS
<1>3. QED
  BY <1>1, <1>2, OnePlaces

LEMMA PlacedWaitPmp ==
    ASSUME TypeOK, CursorInv, PlacedInv, NEW h \in U54, WaitPmp(h)
    PROVE  PlacedInv'
<1>1. mem' = mem /\ state[h] = "WAIT_PMP"
  BY DEF WaitPmp, Runs
<1>2. PICK s \in {"WAIT_PMP", "ZERO_INIT_CHUNKS"} : state' = [state EXCEPT ![h] = s]
  BY <1>1, CursorsNow DEF WaitPmp, Enter
<1>3. Moves(h, s, pZiChunk[h], pChunk[h], chunkCount[h], subChunkOffset[h], ancilliaryData[h])
  BY <1>2, CursorsNow DEF WaitPmp, Runs, cursors, Moves
<1>4. Placed(mem, h, s, pZiChunk[h], pChunk[h], subChunkOffset[h])
  BY <1>1 DEF PlacedInv, Placed
<1>5. QED
  BY <1>1, <1>3, <1>4, SameMemory

LEMMA PlacedDone ==
    ASSUME TypeOK, CursorInv, PlacedInv, NEW h \in U54, Done(h)
    PROVE  PlacedInv'
<1>1. Moves(h, state[h], pZiChunk[h], pChunk[h], chunkCount[h], subChunkOffset[h],
            ancilliaryData[h]) /\ mem' = mem
  BY CursorsNow DEF Done, Runs, cursors, Moves
<1>2. Placed(mem, h, state[h], pZiChunk[h], pChunk[h], subChunkOffset[h])
  BY DEF PlacedInv
<1>3. QED
  BY <1>1, <1>2, SameMemory

LEMMA PlacedZeroInitChunks ==
    ASSUME TypeOK, CursorInv, PlacedInv, TablesOK(image), PlacesOK(image), NEW h \in U54,
           ZeroInitChunks(h)
    PROVE  PlacedInv'
<1> DEFINE k == pZiChunk[h]
           z == image.zi[k]
<1>1. /\ image \in Images /\ image' = image /\ turn' = 1 + (turn % NumU54)
      /\ state[h] = "ZERO_INIT_CHUNKS" /\ ancilliaryData' = ancilliaryData
      /\ mem \in [0..Top -> Int]
  BY DEF ZeroInitChunks, Runs, TypeOK
<1>2. /\ Len(image.zi) \in Nat /\ DOMAIN image.zi = 1..Len(image.zi) /\ k \in 1..(Len(image.zi) + 1)
      /\ k \in Nat /\ (k > Len(image.zi) <=> ~(k <= Len(image.zi)))
  BY <1>1, Tables DEF TypeOK
<1>3. Placed(mem, h, "ZERO_INIT_CHUNKS", k, pChunk[h], subChunkOffset[h])
  BY <1>1 DEF PlacedInv
<1>4. CASE k <= Len(image.zi)
  <2>1. /\ pZiChunk' = [pZiChunk EXCEPT ![h] = k + 1] /\ state' = state
        /\ pChunk' = pChunk /\ chunkCount' = chunkCount /\ subChunkOffset' = subChunkOffset
        /\ IF z.owner = h THEN ZeroInit(z) ELSE UNCHANGED mem
    BY <1>2, <1>4 DEF ZeroInitChunks
  <2>2. Moves(h, "ZERO_INIT_CHUNKS", k + 1, pChunk[h], chunkCount[h], subChunkOffset[h],
              ancilliaryData[h])
    BY <1>1, <2>1, CursorsNow DEF Moves
  <2>3. k \in DOMAIN image.zi /\ \A j \in DOMAIN image.zi : j < k + 1 => j < k \/ j = k
    BY <1>2, <1>4
  <2>4. CASE z.owner # h
    <3>1. Placed(mem, h, "ZERO_INIT_CHUNKS", k + 1, pChunk[h], subChunkOffset[h])
      BY <1>3, <2>3, <2>4 DEF Placed
    <3>2. QED
      BY <2>1, <2>2, <2>4, <3>1, SameMemory
  <2>5. CASE z.owner = h
    <3>1. \A a \in 0..Top : mem'[a] = IF a \in Region(z) THEN Zero ELSE mem[a]
      BY <2>1, <2>5 DEF ZeroInit, Region
    <3>2. /\ \A j \in DOMAIN image.zi : \A a \in Region(image.zi[j]) : a \in 0..Top
          /\ \A i \in DOMAIN image.chunks : \A a \in Region(image.chunks[i]) : a \in 0..Top
      BY DEF PlacesOK
    <3>3. \A i \in DOMAIN image.chunks : \A a \in Region(image.chunks[i]) : a \notin Region(z)
      <4>1. \A i \in DOMAIN image.chunks : Region(image.chunks[i]) \subseteq Extent(image.chunks[i])
        BY <1>1, RegionInExtent
      <4>2. QED
        BY <2>3, <4>1 DEF PlacesOK
    <3>4. \A j \in DOMAIN image.zi : \A a \in Region(image.zi[j]) : mem[a] = Zero => mem'[a] = Zero
      BY <3>1, <3>2
    <3>5. \A i \in DOMAIN image.chunks : \A a \in Region(image.chunks[i]) : mem'[a] = mem[a]
      BY <3>1, <3>2, <3>3
    <3>6. ASSUME NEW g \in U54, NEW s, NEW pz, NEW pc, NEW so, Placed(mem, g, s, pz, pc, so)
          PROVE  Placed(mem', g, s, pz, pc, so)
      <4>1. \A i \in Own(g) : \A a \in Region(image.chunks[i]) : mem'[a] = mem[a]
        BY <3>5 DEF Own
      <4>2. QED
        BY <3>4, <3>6, <4>1, PlacedKept
    <3>7. Zeroed(mem', z)
      BY <2>3, <3>1, <3>2 DEF Zeroed
    <3>8. Placed(mem', h, "ZERO_INIT_CHUNKS", k + 1, pChunk[h], subChunkOffset[h])
      <4>1. Placed(mem', h, "ZERO_INIT_CHUNKS", k, pChunk[h], subChunkOffset[h])
        BY <1>3, <3>6
      <4>2. QED
        BY <2>3, <3>7, <4>1 DEF Placed
    <3>9. QED
      BY <2>2, <3>6, <3>8, OnePlaces
  <2>6. QED
    BY <2>4, <2>5
<1>5. CASE ~(k <= Len(image.zi))
  <2>1. /\ state' = [state EXCEPT ![h] = "DOWNLOAD_CHUNKS"] /\ mem' = mem
        /\ pZiChunk' = pZiChunk
        /\ pChunk' = [pChunk EXCEPT ![h] = IF NumChunks(h) = 0 THEN @ ELSE image.first[h] + 1]
        /\ chunkCount' = [chunkCount EXCEPT ![h] = IF NumChunks(h) = 0 THEN @ ELSE 0]
        /\ subChunkOffset' = [subChunkOffset EXCEPT ![h] = IF NumChunks(h) = 0 THEN @ ELSE 0]
    BY <1>2, <1>5 DEF ZeroInitChunks, Enter
  <2>2. \A j \in DOMAIN image.zi : j < k
    BY <1>2, <1>5
  <2>3. CASE NumChunks(h) = 0
    <3>1. Moves(h, "DOWNLOAD_CHUNKS", k, pChunk[h], chunkCount[h], subChunkOffset[h],
                ancilliaryData[h])
      BY <1>1, <2>1, <2>3, CursorsNow DEF Moves
    <3>2. Own(h) = {}
      <4>1. 0 \in Nat
        OBVIOUS
      <4>2. QED
        BY <1>1, <2>3, <4>1, OwnCount
    <3>3. Placed(mem, h, "DOWNLOAD_CHUNKS", k, pChunk[h], subChunkOffset[h])
      BY <1>3, <2>2, <3>2 DEF Placed
    <3>4. QED
      BY <2>1, <3>1, <3>3, SameMemory
  <2>4. CASE NumChunks(h) # 0
    <3>1. Moves(h, "DOWNLOAD_CHUNKS", k, image.first[h] + 1, 0, 0, ancilliaryData[h])
      BY <1>1, <2>1, <2>4, CursorsNow DEF Moves
    <3>2. \A i \in Own(h) : ~(i < image.first[h] + 1)
      <4>1. \A i \in Own(h) : i \in Int
        BY <1>1, Tables DEF Own
      <4>2. image.first[h] \in Nat /\ \A i \in Own(h) : image.first[h] + 1 <= i
        BY <1>1, <2>4, FirstChunk
      <4>3. QED
        BY <4>1, <4>2
    <3>3. \A i \in Own(h) : LoadedTo(mem, image.chunks[i], 0)
      BY <1>1, Tables DEF LoadedTo, Region, Own
    <3>4. Placed(mem, h, "DOWNLOAD_CHUNKS", k, image.first[h] + 1, 0)
      BY <1>3, <2>2, <3>2, <3>3 DEF Placed
    <3>5. QED
      BY <2>1, <3>1, <3>4, SameMemory
  <2>5. QED
    BY <2>3, <2>4
<1>6. QED
  BY <1>4, <1>5

\* The piece at offset so lies in the extent of the chunk, and is the next of
\* its bytes.
LEMMA Piece ==
    ASSUME image \in Images, PlacesOK(image), mem \in [0..Top -> Int],
           NEW i \in DOMAIN image.chunks, NEW so \in Nat, so <= image.chunks[i].size,
           Download(image.chunks[i], so)
    PROVE  /\ \A a \in (0..Top) \ Extent(image.chunks[i]) : mem'[a] = mem[a]
           /\ LoadedTo(mem, image.chunks[i], so) => LoadedTo(mem', image.chunks[i], so + Sub)
           /\ LoadedTo(mem, image.chunks[i], so) /\ ChunkFinished(image.chunks[i], so + Sub) =>
                  Loaded(mem', image.chunks[i])
<1> DEFINE c == image.chunks[i]
<1>1. /\ c.execAddr \in Int /\ c.size \in Int /\ c.loadAddr \in Int /\ Sub \in Nat /\ Top \in Nat
      /\ so <= c.size /\ Download(c, so) /\ Region(c) \subseteq 0..Top
  BY Tables DEF PlacesOK
<1> HIDE DEF c
<1>2. \A a \in 0..Top :
          mem'[a] = IF a \in (c.execAddr + so)..(c.execAddr + so + Sub - 1)
                      THEN c.loadAddr + so + (a - (c.execAddr + so)) ELSE mem[a]
  BY <1>1 DEF Download
<1>3. \A a \in (0..Top) \ Extent(c) : mem'[a] = mem[a]
  BY <1>1, <1>2 DEF Extent
<1>4. ASSUME LoadedTo(mem, c, so) PROVE LoadedTo(mem', c, so + Sub)
  <2>1. SUFFICES ASSUME NEW a \in Region(c), a < c.execAddr + (so + Sub)
                 PROVE  mem'[a] = c.loadAddr + (a - c.execAddr)
    BY DEF LoadedTo
  <2>2. a \in 0..Top /\ a \in Int
    BY <1>1, <2>1
  <2>3. CASE a < c.execAddr + so
    BY <1>1, <1>2, <1>4, <2>2, <2>3 DEF LoadedTo
  <2>4. CASE ~(a < c.execAddr + so)
    <3>1. a \in (c.execAddr + so)..(c.execAddr + so + Sub - 1)
      BY <1>1, <2>1, <2>2, <2>4
    <3>2. mem'[a] = c.loadAddr + so + (a - (c.execAddr + so))
      BY <1>2, <2>2, <3>1
    <3>3. QED
      BY <1>1, <2>2, <3>2
  <2>5. QED
    BY <2>3, <2>4
<1>5. ASSUME LoadedTo(mem', c, so + Sub), ChunkFinished(c, so + Sub) PROVE Loaded(mem', c)
  <2>1. \A a \in Region(c) : a < c.execAddr + (so + Sub)
    BY <1>1, <1>5 DEF ChunkFinished, Region
  <2>2. QED
    BY <1>5, <2>1 DEF LoadedTo, Loaded
<1>6. QED
  BY <1>3, <1>4, <1>5 DEF c

\* A copy leaves everything placed earlier alone.
LEMMA CopyKeeps ==
    ASSUME image \in Images, PlacesOK(image), NEW p \in DOMAIN image.chunks,
           \A a \in (0..Top) \ Extent(image.chunks[p]) : mem'[a] = mem[a]
    PROVE  /\ \A k \in DOMAIN image.zi : \A a \in Region(image.zi[k]) : mem'[a] = mem[a]
           /\ \A j \in DOMAIN image.chunks :
                 ~(image.chunks[j].owner = image.chunks[p].owner /\ p <= j) =>
                     \A a \in Region(image.chunks[j]) : mem'[a] = mem[a]
<1>1. \A k \in DOMAIN image.zi : \A a \in Region(image.zi[k]) :
          a \in (0..Top) \ Extent(image.chunks[p])
  BY DEF PlacesOK
<1>2. \A j \in DOMAIN image.chunks :
          ~(image.chunks[j].owner = image.chunks[p].owner /\ p <= j) =>
              \A a \in Region(image.chunks[j]) : a \in (0..Top) \ Extent(image.chunks[p])
  BY DEF PlacesOK
<1>3. QED
  BY <1>1, <1>2

LEMMA PlacedDownloadChunks ==
    ASSUME TypeOK, CursorInv, PlacedInv, TablesOK(image), PlacesOK(image), NEW h \in U54,
           DownloadChunks(h)
    PROVE  PlacedInv'
<1> DEFINE p == pChunk[h]
           c == image.chunks[p]
           so == subChunkOffset[h]
           pz == pZiChunk[h]
<1>1. /\ image \in Images /\ image' = image /\ turn' = 1 + (turn % NumU54)
      /\ state[h] = "DOWNLOAD_CHUNKS" /\ pZiChunk' = pZiChunk /\ mem \in [0..Top -> Int]
  BY DEF DownloadChunks, Runs, TypeOK
<1>2. /\ Len(image.chunks) \in Nat /\ DOMAIN image.chunks = 1..Len(image.chunks)
      /\ Sub \in Nat \ {0} /\ p \in Nat /\ so \in Nat /\ chunkCount[h] \in Nat
      /\ \A g \in U54 : Own(g) \subseteq DOMAIN image.chunks
  BY <1>1, Tables DEF Own, CursorInv
<1>3. Placed(mem, h, "DOWNLOAD_CHUNKS", pz, p, so)
  BY <1>1 DEF PlacedInv
<1>4. \A i \in Own(h) : i \in Nat /\ (i < p + 1 => i < p \/ i = p) /\ (i < p => ~(p <= i))
                       /\ (i = p + 1 => ~(i < p) /\ i # p)
  BY <1>2
<1>5. \A i \in Own(h) : LoadedTo(mem, image.chunks[i], 0) /\ LoadedTo(mem', image.chunks[i], 0)
  BY <1>1, Tables DEF LoadedTo, Region, Own
<1>6. CASE p \in Own(h) /\ DownloadPiece(h, c) /\ UNCHANGED state
  <2>1. /\ p \in DOMAIN image.chunks /\ c.owner = h /\ so <= c.size /\ Download(c, so)
        /\ LoadedTo(mem, c, so)
    BY <1>3, <1>6 DEF Own, DownloadPiece, CursorInv, Placed
  <2>2. /\ \A a \in (0..Top) \ Extent(c) : mem'[a] = mem[a]
        /\ LoadedTo(mem', c, so + Sub)
        /\ ChunkFinished(c, so + Sub) => Loaded(mem', c)
    BY <1>1, <1>2, <2>1, Piece
  <2>3. /\ \A k \in DOMAIN image.zi : \A a \in Region(image.zi[k]) : mem'[a] = mem[a]
        /\ \A j \in DOMAIN image.chunks :
              ~(image.chunks[j].owner = h /\ p <= j) =>
                  \A a \in Region(image.chunks[j]) : mem'[a] = mem[a]
    <3>1. /\ \A k \in DOMAIN image.zi : \A a \in Region(image.zi[k]) : mem'[a] = mem[a]
          /\ \A j \in DOMAIN image.chunks :
                ~(image.chunks[j].owner = image.chunks[p].owner /\ p <= j) =>
                    \A a \in Region(image.chunks[j]) : mem'[a] = mem[a]
      BY <1>1, <2>1, <2>2, CopyKeeps
    <3>2. QED
      BY <2>1, <3>1
  <2>4. ASSUME NEW g \in U54 \ {h}, NEW s, NEW pz2, NEW pc2, NEW so2,
               Placed(mem, g, s, pz2, pc2, so2)
        PROVE  Placed(mem', g, s, pz2, pc2, so2)
    <3>1. \A i \in Own(g) : \A a \in Region(image.chunks[i]) : mem'[a] = mem[a]
      BY <2>3 DEF Own
    <3>2. QED
      BY <2>3, <2>4, <3>1, PlacedKept
  <2>5. \A k \in DOMAIN image.zi : image.zi[k].owner = h => Zeroed(mem', image.zi[k])
    BY <1>3, <2>3 DEF Placed, Zeroed
  <2>6. \A i \in Own(h) : i < p => Loaded(mem', image.chunks[i])
    <3>1. ASSUME NEW i \in Own(h), i < p PROVE Loaded(mem', image.chunks[i])
      <4>1. i \in DOMAIN image.chunks /\ ~(p <= i) /\ Loaded(mem, image.chunks[i])
        BY <1>2, <1>3, <1>4, <3>1 DEF Placed
      <4>2. QED
        BY <2>3, <4>1 DEF Loaded
    <3>2. QED
      BY <3>1
  <2>7. PICK a : ancilliaryData' = [ancilliaryData EXCEPT ![h] = a]
    BY <1>6 DEF DownloadPiece
  <2>8. CASE ChunkFinished(c, so + Sub)
    <3>1. Moves(h, "DOWNLOAD_CHUNKS", pz, p + 1, chunkCount[h] + 1, 0, a)
      BY <1>1, <1>6, <2>7, <2>8, CursorsNow DEF Moves, DownloadPiece
    <3>2. Placed(mem', h, "DOWNLOAD_CHUNKS", pz, p + 1, 0)
      BY <1>4, <1>5, <2>2, <2>5, <2>6, <2>8 DEF Placed
    <3>3. QED
      BY <2>4, <3>1, <3>2, OnePlaces
  <2>9. CASE ~ChunkFinished(c, so + Sub)
    <3>1. Moves(h, "DOWNLOAD_CHUNKS", pz, p, chunkCount[h], so + Sub, a)
      BY <1>1, <1>6, <2>7, <2>9, CursorsNow DEF Moves, DownloadPiece
    <3>2. Placed(mem', h, "DOWNLOAD_CHUNKS", pz, p, so + Sub)
      BY <2>2, <2>5, <2>6 DEF Placed
    <3>3. QED
      BY <2>4, <3>1, <3>2, OnePlaces
  <2>10. QED
    BY <2>8, <2>9
<1>7. CASE p \in 1..Len(image.chunks) \ Own(h) /\ SkipChunk(h) /\ UNCHANGED state
  <2>1. /\ Moves(h, "DOWNLOAD_CHUNKS", pz, p + 1, chunkCount[h], so, ancilliaryData[h])
        /\ mem' = mem
    BY <1>1, <1>7, CursorsNow DEF Moves, SkipChunk
  <2>2. so = 0
    BY <1>7 DEF CursorInv
  <2>3. Placed(mem, h, "DOWNLOAD_CHUNKS", pz, p + 1, so)
    BY <1>3, <1>4, <1>5, <1>7, <2>2 DEF Placed
  <2>4. QED
    BY <2>1, <2>3, SameMemory
<1>8. CASE /\ ~(NumChunks(h) # 0 /\ chunkCount[h] <= image.last[h] /\ p <= Len(image.chunks))
           /\ Enter(h, "DONE")
           /\ UNCHANGED <<mem, pChunk, chunkCount, subChunkOffset, ancilliaryData>>
  <2>1. Moves(h, "DONE", pz, p, chunkCount[h], so, ancilliaryData[h]) /\ mem' = mem
    BY <1>1, <1>8, CursorsNow DEF Moves, Enter
  <2>2. ASSUME NEW i \in Own(h) PROVE i < p
    <3>1. NumChunks(h) # 0
      BY <1>1, <1>2, OwnCount
    <3>2. i \in 1..Len(image.chunks) /\ i <= image.last[h] + 1 /\ image.last[h] \in Nat
      BY <1>1, Tables DEF Own, TablesOK
    <3>3. chunkCount[h] + 1 <= p
      BY DEF CursorInv
    <3>4. QED
      BY <1>2, <1>8, <3>1, <3>2, <3>3
  <2>3. Placed(mem, h, "DONE", pz, p, so)
    BY <1>3, <2>2 DEF Placed
  <2>4. QED
    BY <2>1, <2>3, SameMemory
<1>9. QED
  BY <1>6, <1>7, <1>8, DownloadCases

LEMMA PlacedNext ==
    ASSUME \A img \in Images : TablesOK(img) /\ PlacesOK(img),
           TypeOK, CursorInv, PlacedInv, [Next]_vars
    PROVE  PlacedInv'
<1>1. CASE Next
  <2>1. TablesOK(image) /\ PlacesOK(image)
    BY DEF TypeOK
  <2>2. QED
    BY <1>1, <2>1, PlacedWaitPmp, PlacedZeroInitChunks, PlacedDownloadChunks, PlacedDone DEF Next
<1>2. CASE UNCHANGED vars
  BY <1>2 DEF vars, PlacedInv, Placed, Own
<1>3. QED
  BY <1>1, <1>2

\* The payload of a hart is in memory, whole, when its machine leaves
\* DOWNLOAD_CHUNKS, and stays there while the other machines go on copying:
\* for every image whose tables enclose each hart's chunks and whose chunks
\* leave room for the last piece of each other, whatever its size.
THEOREM PayloadCorrect ==
    ASSUME \A img \in Images : TablesOK(img) /\ PlacesOK(img)
    PROVE  Spec => []PayloadLoaded
<1>1. Init => TypeOK /\ CursorInv /\ PlacedInv
  <2>1. Init => PlacedInv
    <3> SUFFICES ASSUME Init PROVE PlacedInv
      OBVIOUS
    <3>1. image \in Images /\ DOMAIN image.zi = 1..Len(image.zi) /\ Len(image.zi) \in Nat
      BY Tables DEF Init
    <3>2. \A h \in U54 : state[h] = "WAIT_PMP" /\ pZiChunk[h] = 1
      BY DEF Init
    <3>3. QED
      BY <3>1, <3>2 DEF PlacedInv, Placed
  <2>2. QED
    BY <2>1, TypeInit
<1>2. TypeOK /\ CursorInv /\ PlacedInv /\ [Next]_vars => (TypeOK /\ CursorInv /\ PlacedInv)'
  BY TypeNext, PlacedNext
<1>3. PlacedInv => PayloadLoaded
  BY DEF PlacedInv, Placed, Loaded, Zeroed, PayloadLoaded, Own
<1>4. QED
  BY <1>1, <1>2, <1>3, PTL DEF Spec

=============================================================================
