--------------------------- MODULE BootSourceProofs ---------------------------
(***************************************************************************)
(* Proofs about the way to the boot image, for any cards (any number of    *)
(* partitions, any types, any LBAs), any indices the user may select and   *)
(* any read that fails.                                                    *)
(***************************************************************************)
EXTENDS BootSource, TLAPS

-----------------------------------------------------------------------------
(* The inductive invariant *)

\* No boot partition among the entries from a up to but not including b.
NoBootIn(a, b) ==
    \A i \in 0..(numPartitions - 1) : a <= i /\ i < b => Entry(i).type # "boot"

\* The partitions that `boot list` has to name.
Good == {i \in 0..(numPartitions - 1) :
           /\ card.header /\ card.crc
           /\ Entry(i).type = "boot" /\ Entry(i).firstLBA \in card.images}

\* Where the search stands: what it has seen of the table, and what it has
\* found when it hands an index on.
SearchInv ==
    /\ pc \in {"validate", "search", "lba"} \/ (pc = "image" /\ job = "list") => card.header
    /\ pc # "idle" /\ entriesValid => card.header /\ card.crc
    /\ pc = "search" => entriesValid /\ NoBootIn(srcIndex, index)
    /\ pc = "lba" /\ (job = "list" \/ manual = NoIndex) =>
          card.crc /\ srcIndex < numPartitions /\ Entry(srcIndex).type = "boot"

\* A boot searches from the first entry, unless the user has selected one.
BootInv ==
    job = "boot" =>
        /\ pc \in {"validate", "search"} => manual = NoIndex /\ srcIndex = 0
        /\ pc = "lba" /\ manual # NoIndex => srcIndex = manual
        /\ pc = "lba" /\ manual = NoIndex => NoBootIn(0, srcIndex)

\* `boot list` has named what there is below the index it searches from.
ListInv ==
    job = "list" /\ ~failed =>
        /\ pc = "header" => listed = {}
        /\ pc \in {"validate", "search", "lba", "image"} => listed = {i \in Good : i < srcIndex}
        /\ pc = "image" => /\ card.header /\ card.crc
                           /\ srcIndex < numPartitions /\ Entry(srcIndex).type = "boot"
                           /\ lba = Entry(srcIndex).firstLBA

\* The image that is copied or registered was found on a card.
ImageInv ==
    /\ pc = "copy" => lba \in card.images
    /\ pBootImage = "target" => target[1] = "image" /\ target[3] \in target[2].images

SourceInv ==
    /\ pc \in {"init", "copy"} => job = "boot"
    /\ SearchInv /\ BootInv /\ ListInv /\ ImageInv /\ RightPartition /\ ListComplete

-----------------------------------------------------------------------------
(* The table *)

\* What a sequence holds.
LEMMA Member ==
    ASSUME NEW S, NEW s \in Seq(S), NEW j \in 1..Len(s)
    PROVE  s[j] \in S
OBVIOUS

\* Entries of a card have a type and an LBA.
LEMMA Entries ==
    ASSUME card \in Cards
    PROVE  /\ numPartitions \in Nat
           /\ \A i \in Nat : i < numPartitions => Entry(i).firstLBA \in Nat
           /\ \A l \in UNION {c.images \cup {0} : c \in Cards} : l \in Nat
<1>1. /\ card.entries \in Seq([type : {"boot", "other"}, firstLBA : LBA])
      /\ \A c \in Cards : c.images \subseteq Nat
  BY CardAssumption DEF LBA
<1>2. numPartitions \in Nat
  BY <1>1 DEF numPartitions
<1>3. ASSUME NEW i \in Nat, i < numPartitions PROVE Entry(i).firstLBA \in Nat
  <2>1. i + 1 \in 1..Len(card.entries)
    BY <1>2, <1>3 DEF numPartitions
  <2>2. card.entries[i + 1] \in [type : {"boot", "other"}, firstLBA : LBA]
    BY <1>1, <2>1, Member, Zenon
  <2>3. QED
    BY <2>2 DEF Entry, LBA
<1>4. QED
  BY <1>1, <1>2, <1>3

\* The entry the search stops at is the first boot partition.
LEMMA FirstBoot ==
    ASSUME card \in Cards, NEW i \in Nat, i < numPartitions,
           Entry(i).type = "boot", NoBootIn(0, i), card.header, card.crc
    PROVE  BootLBA(card, NoIndex) = Entry(i).firstLBA
<1> DEFINE S == {j \in 1..numPartitions : card.entries[j].type = "boot"}
<1>1. numPartitions \in Nat
  BY Entries
<1>2. i + 1 \in S
  BY <1>1 DEF Entry
<1>3. ASSUME NEW j \in S PROVE i + 1 <= j
  <2>1. j - 1 \in 0..(numPartitions - 1) /\ Entry(j - 1).type = "boot"
    BY <1>1, <1>3 DEF Entry
  <2>2. ~(j - 1 < i)
    BY <2>1 DEF NoBootIn
  <2>3. QED
    BY <2>1, <2>2
<1>4. \A x \in S : x \in Int
  BY <1>1
<1> HIDE DEF S
<1>5. Min(S) = i + 1
  BY <1>2, <1>3, <1>4 DEF Min
<1>6. S # {}
  BY <1>2
<1>7. card.entries[Min(S)].firstLBA = Entry(i).firstLBA
  BY <1>5 DEF Entry
<1>8. QED
  BY <1>6, <1>7 DEF BootLBA, S, numPartitions

\* Without a table, an accepted CRC or a boot partition a boot goes to LBA 0.
LEMMA FallBack ==
    ASSUME card \in Cards,
           \/ ~card.header
           \/ manual = NoIndex /\ ~card.crc
           \/ manual = NoIndex /\ NoBootIn(0, numPartitions)
           \/ manual # NoIndex /\ manual \in Nat /\ manual >= numPartitions
    PROVE  BootLBA(card, manual) = 0
<1> DEFINE S == {j \in 1..numPartitions : card.entries[j].type = "boot"}
<1>1. numPartitions \in Nat
  BY Entries
<1>2. ASSUME NoBootIn(0, numPartitions) PROVE S = {}
  <2> SUFFICES ASSUME NEW j \in S PROVE FALSE
    OBVIOUS
  <2>1. j - 1 \in 0..(numPartitions - 1) /\ Entry(j - 1).type = "boot" /\ j - 1 < numPartitions
    BY <1>1 DEF Entry
  <2>2. QED
    BY <1>2, <2>1 DEF NoBootIn
<1>3. CASE ~card.header
  BY <1>3 DEF BootLBA
<1>4. CASE card.header /\ manual = NoIndex /\ ~card.crc
  BY <1>4 DEF BootLBA
<1>5. CASE card.header /\ manual = NoIndex /\ card.crc /\ NoBootIn(0, numPartitions)
  BY <1>2, <1>5 DEF BootLBA, numPartitions
<1>6. CASE card.header /\ manual # NoIndex /\ manual \in Nat /\ manual >= numPartitions
  BY <1>1, <1>6 DEF BootLBA, numPartitions
<1>7. QED
  BY <1>3, <1>4, <1>5, <1>6

\* A selected partition is taken as it is.
LEMMA Selected ==
    ASSUME card \in Cards, card.header, manual # NoIndex, manual \in Nat, manual < numPartitions
    PROVE  BootLBA(card, manual) = Entry(manual).firstLBA
<1>1. numPartitions \in Nat
  BY Entries
<1>2. ~(manual >= numPartitions)
  BY <1>1
<1>3. QED
  BY <1>2 DEF BootLBA, Entry, numPartitions

\* What a list of the good partitions below an index becomes at the next one.
LEMMA GoodBelow ==
    ASSUME TypeOK
    PROVE  /\ ~card.header \/ ~card.crc => Good = {}
           /\ {i \in Good : i < 0} = {}
           /\ \A s \in Nat : s \notin Good => {i \in Good : i < s + 1} = {i \in Good : i < s}
           /\ \A s \in Nat : s \in Good => {i \in Good : i < s + 1} = {i \in Good : i < s} \cup {s}
           /\ \A s \in Nat : NoBootIn(s, numPartitions) => {i \in Good : i < s} = Good
           /\ \A s \in Nat : NoBootIn(s, numPartitions) => s \notin Good
<1>1. numPartitions \in Nat
  BY Entries DEF TypeOK
<1>2. \A i \in Good : i \in Nat /\ i < numPartitions /\ Entry(i).type = "boot"
  BY <1>1 DEF Good
<1>3. ~card.header \/ ~card.crc => Good = {}
  BY DEF Good
<1>4. ASSUME NEW s \in Nat, NoBootIn(s, numPartitions)
      PROVE  \A i \in Good : i < s
  BY <1>1, <1>2, <1>4 DEF NoBootIn
<1> HIDE DEF Good
<1>5. QED
  BY <1>1, <1>2, <1>3, <1>4

-----------------------------------------------------------------------------
(* Types *)

Booleans ==
    ready \in BOOLEAN /\ entriesValid \in BOOLEAN /\ firstFind \in BOOLEAN /\ failed \in BOOLEAN

LEMMA TypeInit == Init => TypeOK
<1> SUFFICES ASSUME Init PROVE TypeOK
  OBVIOUS
<1>1. card \in Cards /\ numPartitions \in Nat
  BY Entries DEF Init
<1>2. Booleans
  BY Zenon DEF Init, Booleans
<1>3. QED
  BY <1>1, <1>2 DEF Init, TypeOK, Booleans, LBA

\* The commands, none of which moves the search.
LEMMA TypeCommand ==
    ASSUME TypeOK, Command
    PROVE  TypeOK'
<1>1. numPartitions \in Nat
  BY Entries DEF TypeOK
<1>2. CASE Boot \/ BootList
  <2>1. Booleans'
    BY <1>2, Zenon DEF Boot, BootList, Start, TypeOK, Booleans
  <2>2. QED
    BY <1>1, <1>2, <2>1
       DEF Boot, BootList, Start, TypeOK, Booleans, userVars, numPartitions, LBA
<1>3. CASE HSS_BootSelectSDCARD \/ HSS_BootSelectMMC
  BY <1>3 DEF HSS_BootSelectSDCARD, HSS_BootSelectMMC, TypeOK, userVars, gptVars, numPartitions
<1>4. CASE Exchange
  BY <1>4 DEF Exchange, TypeOK, gptVars
<1>5. CASE \E i \in Indices : GPT_SetBootPartitionIndex(i)
  BY <1>5 DEF GPT_SetBootPartitionIndex, TypeOK, gptVars, numPartitions
<1>6. QED
  BY <1>2, <1>3, <1>4, <1>5 DEF Command

\* The steps of a command leave the card in the slot.
LEMMA TypeWork ==
    ASSUME TypeOK, Work
    PROVE  TypeOK'
<1>1. /\ numPartitions \in Nat
      /\ \A i \in Nat : i < numPartitions => Entry(i).firstLBA \in Nat
      /\ \A l \in UNION {c.images \cup {0} : c \in Cards} : l \in Nat
  BY Entries DEF TypeOK
<1>2. manual # NoIndex => manual \in Nat
  BY CardAssumption DEF TypeOK
<1>3. CASE HSS_MMCInit
  BY <1>3 DEF HSS_MMCInit, TypeOK, userVars, gptVars, numPartitions
<1>4. ASSUME NEW ok \in BOOLEAN, GPT_ReadHeader(ok) PROVE TypeOK'
  <2>1. Booleans'
    BY <1>4, Zenon DEF GPT_ReadHeader, ReadTable, Find, TryImageAt, TypeOK, Booleans, gptVars
  <2>2. QED
    BY <1>1, <1>2, <1>4, <2>1
       DEF GPT_ReadHeader, ReadTable, Find, TryImageAt, TypeOK, Booleans,
           userVars, gptVars, numPartitions, LBA
<1>5. ASSUME NEW ok \in BOOLEAN, GPT_ValidatePartitionEntries(ok) PROVE TypeOK'
  <2>1. Booleans'
    BY <1>5, Zenon DEF GPT_ValidatePartitionEntries, FindFailed, ReadTable, Find, TryImageAt, TypeOK, Booleans, gptVars
  <2>2. QED
    BY <1>1, <1>5, <2>1
       DEF GPT_ValidatePartitionEntries, FindFailed, ReadTable, Find, TryImageAt, TypeOK, Booleans,
           userVars, gptVars, numPartitions, LBA
<1>6. ASSUME NEW ok \in BOOLEAN, FindPartitionById_(ok) PROVE TypeOK'
  <2>1. Booleans'
    BY <1>6, Zenon DEF FindPartitionById_, FindFailed, ReadTable, Find, TryImageAt, TypeOK, Booleans, gptVars
  <2>2. QED
    BY <1>1, <1>6, <2>1
       DEF FindPartitionById_, FindFailed, ReadTable, Find, TryImageAt, TypeOK, Booleans,
           userVars, gptVars, numPartitions, LBA
<1>7. ASSUME NEW ok \in BOOLEAN, GPT_PartitionIdToLBAOffset(ok) PROVE TypeOK'
  <2>1. lba' \in Nat
    BY <1>1, <1>7 DEF GPT_PartitionIdToLBAOffset, TryImageAt, TypeOK, gptVars, LBA
  <2>2. QED
    BY <1>1, <1>7, <2>1
       DEF GPT_PartitionIdToLBAOffset, ReadTable, TryImageAt, TypeOK, userVars, gptVars,
           numPartitions, LBA
<1>8. ASSUME NEW ok \in BOOLEAN, ReadImageHeader(ok) PROVE TypeOK'
  BY <1>8 DEF ReadImageHeader, TypeOK, userVars, gptVars, numPartitions
<1>9. ASSUME NEW ok \in BOOLEAN, ReadImageHeaderList(ok) PROVE TypeOK'
  <2>1. Booleans'
    BY <1>9, Zenon DEF ReadImageHeaderList, Find, TypeOK, Booleans
  <2>2. listed' \subseteq Nat
    BY <1>9 DEF ReadImageHeaderList, TypeOK
  <2>3. QED
    BY <1>1, <1>9, <2>1, <2>2 DEF ReadImageHeaderList, Find, TypeOK, Booleans, userVars, numPartitions
<1>10. ASSUME NEW ok \in BOOLEAN, copyBootImageToDDR_(ok) PROVE TypeOK'
  BY <1>10 DEF copyBootImageToDDR_, TypeOK, userVars, gptVars, numPartitions
<1>11. QED
  BY <1>3, <1>4, <1>5, <1>6, <1>7, <1>8, <1>9, <1>10 DEF Work

LEMMA TypeNext ==
    ASSUME TypeOK, [Next]_vars
    PROVE  TypeOK'
<1>1. CASE Halted \/ UNCHANGED vars
  BY <1>1 DEF Halted, vars, userVars, gptVars, TypeOK, numPartitions
<1>2. QED
  BY <1>1, TypeCommand, TypeWork DEF Next

\* The variables of the way to the image keep their types: no index runs past
\* the table, and each LBA is one.
THEOREM TypeCorrect == Spec => []TypeOK
BY TypeInit, TypeNext, PTL DEF Spec

-----------------------------------------------------------------------------
(* The image that is found *)

LEMMA SourceInit == Init => SourceInv
BY DEF Init, SourceInv, SearchInv, BootInv, ListInv, ImageInv, RightPartition, ListComplete

\* A step of the search says the same of the card before and after.
LEMMA SameCard ==
    ASSUME card' = card
    PROVE  /\ Good' = Good /\ numPartitions' = numPartitions
           /\ \A i : Entry(i)' = Entry(i)
           /\ \A a, b : NoBootIn(a, b)' = NoBootIn(a, b)
BY DEF Good, numPartitions, Entry, NoBootIn

\* A command has no step behind it, or only changes what is used by the next.
LEMMA SourceCommand ==
    ASSUME TypeOK, SourceInv, Command
    PROVE  SourceInv'
<1>1. CASE Boot \/ BootList
  BY <1>1 DEF Boot, BootList, Start, userVars, SourceInv, SearchInv, BootInv, ListInv, ImageInv,
              RightPartition, ListComplete
<1>2. CASE HSS_BootSelectSDCARD \/ HSS_BootSelectMMC
  BY <1>2 DEF HSS_BootSelectSDCARD, HSS_BootSelectMMC, userVars, gptVars, SourceInv, SearchInv,
              BootInv, ListInv, ImageInv, RightPartition, ListComplete, numPartitions, Entry
<1>3. CASE Exchange
  BY <1>3 DEF Exchange, gptVars, SourceInv, SearchInv, BootInv, ListInv, ImageInv,
              RightPartition, ListComplete
<1>4. CASE \E i \in Indices : GPT_SetBootPartitionIndex(i)
  BY <1>4 DEF GPT_SetBootPartitionIndex, gptVars, SourceInv, SearchInv, BootInv, ListInv,
              ImageInv, RightPartition, ListComplete, numPartitions, Entry
<1>5. QED
  BY <1>1, <1>2, <1>3, <1>4 DEF Command

\* Nothing found: a boot goes to LBA 0, as the table says, and the list has
\* nothing more to name at this index.
LEMMA SourceFindFailed ==
    ASSUME TypeOK, SourceInv, pc \in {"validate", "search"}, FindFailed,
           UNCHANGED <<userVars, pBootImage, target, job, listed>>,
           ~failed' => /\ ~failed
                       /\ \/ ~card.crc
                          \/ NoBootIn(srcIndex, numPartitions)
    PROVE  SourceInv'
<1>1. /\ Good' = Good /\ numPartitions' = numPartitions /\ card' = card
      /\ \A i : Entry(i)' = Entry(i)
      /\ \A a, b : NoBootIn(a, b)' = NoBootIn(a, b)
  BY SameCard DEF userVars
<1>2. srcIndex \in Nat /\ card.header /\ numPartitions \in Nat /\ card \in Cards
  BY Entries DEF TypeOK, SourceInv, SearchInv
<1>3. CASE job = "boot"
  <2>1. pc' = "image" /\ lba' = 0 /\ manual = NoIndex /\ srcIndex = 0
    BY <1>3 DEF FindFailed, TryImageAt, SourceInv, BootInv
  <2>2. ~failed' => BootLBA(card, manual) = 0
    BY <1>2, <2>1, FallBack
  <2>3. QED
    BY <1>1, <1>3, <2>1, <2>2
       DEF FindFailed, TryImageAt, userVars, SourceInv, SearchInv, BootInv, ListInv, ImageInv, RightPartition,
           ListComplete
<1>4. CASE job = "list" /\ firstFind
  <2>1. srcIndex' = srcIndex + 1 /\ entriesValid' = entriesValid /\ index' = 0 /\ lba' = lba
        /\ pc' = IF entriesValid THEN "search" ELSE "validate"
    BY <1>4 DEF FindFailed, Find
  <2>2. NoBootIn(srcIndex + 1, 0)
    BY <1>2 DEF NoBootIn
  <2>3. ~failed' => listed = {i \in Good : i < srcIndex + 1}
    <3>1. ~failed' => listed = {i \in Good : i < srcIndex} /\ srcIndex \notin Good
      BY <1>2, <1>4, GoodBelow DEF SourceInv, ListInv
    <3>2. QED
      BY <1>2, <3>1, GoodBelow
  <2>4. SearchInv'
    BY <1>1, <1>2, <2>1, <2>2 DEF SourceInv, SearchInv
  <2>5. ListInv'
    BY <1>1, <2>1, <2>3 DEF ListInv
  <2>6. QED
    BY <1>4, <2>1, <2>4, <2>5
       DEF userVars, SourceInv, BootInv, ImageInv, RightPartition, ListComplete
<1>5. CASE job = "list" /\ ~firstFind
  <2>1. pc' = "idle"
    BY <1>5 DEF FindFailed
  <2>2. ~failed' => listed = Good
    BY <1>2, <1>5, GoodBelow DEF SourceInv, ListInv
  <2>3. ListComplete'
    BY <1>1, <2>2 DEF ListComplete, Good
  <2>4. QED
    BY <1>5, <2>1, <2>3
       DEF userVars, SourceInv, SearchInv, BootInv, ListInv, ImageInv, RightPartition
<1>6. QED
  BY <1>3, <1>4, <1>5 DEF FindFailed

\* The header decides whether there is a table at all.
LEMMA SourceReadHeader ==
    ASSUME TypeOK, SourceInv, NEW ok \in BOOLEAN, GPT_ReadHeader(ok)
    PROVE  SourceInv'
<1> USE DEF GPT_ReadHeader, ReadTable
<1>1. /\ Good' = Good /\ numPartitions' = numPartitions /\ card' = card
      /\ \A i : Entry(i)' = Entry(i)
      /\ \A a, b : NoBootIn(a, b)' = NoBootIn(a, b)
  BY SameCard DEF userVars
<1>2. numPartitions \in Nat /\ card \in Cards
  BY Entries DEF TypeOK
<1>3. CASE ok /\ card.header /\ job = "boot" /\ manual # NoIndex
  BY <1>1, <1>3
     DEF userVars, SourceInv, SearchInv, BootInv, ListInv, ImageInv, RightPartition, ListComplete
<1>4. CASE ok /\ card.header /\ ~(job = "boot" /\ manual # NoIndex)
  <2>1. srcIndex' = 0 /\ index' = 0 /\ entriesValid' = FALSE /\ pc' = "validate"
    BY <1>4 DEF Find
  <2>2. ListInv'
    BY <1>1, <1>4, <2>1, GoodBelow DEF SourceInv, ListInv
  <2>3. QED
    BY <1>1, <1>4, <2>1, <2>2
       DEF userVars, SourceInv, SearchInv, BootInv, ImageInv, RightPartition, ListComplete
<1>5. CASE ~(ok /\ card.header) /\ job = "boot"
  <2>1. pc' = "image" /\ lba' = 0 /\ entriesValid' = entriesValid
    BY <1>5 DEF TryImageAt
  <2>2. ~failed' => BootLBA(card, manual) = 0
    BY <1>2, <1>5, FallBack
  <2>3. QED
    BY <1>1, <1>5, <2>1, <2>2
       DEF userVars, SourceInv, SearchInv, BootInv, ListInv, ImageInv, RightPartition, ListComplete
<1>6. CASE ~(ok /\ card.header) /\ job = "list"
  <2>1. pc' = "idle" /\ (~failed' => ~card.header /\ ~failed)
    BY <1>6
  <2>2. ~failed' => listed' = Good'
    BY <1>1, <1>6, <2>1, GoodBelow DEF SourceInv, ListInv
  <2>3. ListComplete'
    BY <2>2 DEF ListComplete, Good
  <2>4. QED
    BY <1>6, <2>1, <2>3
       DEF userVars, SourceInv, SearchInv, BootInv, ListInv, ImageInv, RightPartition
<1>7. QED
  BY <1>3, <1>4, <1>5, <1>6

\* The CRC over all entries; with it right, the search begins at the first.
LEMMA SourceValidate ==
    ASSUME TypeOK, SourceInv, NEW ok \in BOOLEAN, GPT_ValidatePartitionEntries(ok)
    PROVE  SourceInv'
<1> USE DEF GPT_ValidatePartitionEntries, ReadTable
<1>1. /\ Good' = Good /\ numPartitions' = numPartitions /\ card' = card
      /\ \A i : Entry(i)' = Entry(i)
      /\ \A a, b : NoBootIn(a, b)' = NoBootIn(a, b)
  BY SameCard DEF userVars
<1>2. /\ numPartitions \in Nat /\ srcIndex \in Nat
      /\ (index < numPartitions => index # numPartitions)
  BY Entries DEF TypeOK
<1>3. CASE index < numPartitions /\ ok
  <2>1. /\ pc' = "validate" /\ srcIndex' = srcIndex /\ entriesValid' = entriesValid /\ lba' = lba
        /\ (~failed' => ~failed)
    BY <1>2, <1>3, Zenon
  <2>2. QED
    BY <1>1, <2>1
     DEF userVars, SourceInv, SearchInv, BootInv, ListInv, ImageInv, RightPartition, ListComplete
<1>4. CASE index < numPartitions /\ ~ok
  <2>1. FindFailed /\ failed' /\ UNCHANGED <<userVars, pBootImage, target, job, listed>>
    BY <1>2, <1>4, Zenon
  <2>2. QED
    BY <2>1, SourceFindFailed
<1>5. CASE index = numPartitions /\ ok /\ ~card.crc
  <2>1. FindFailed /\ failed' = failed
    BY <1>2, <1>5
  <2>2. UNCHANGED <<userVars, pBootImage, target, job, listed>>
    OBVIOUS
  <2>3. QED
    BY <1>5, <2>1, <2>2, SourceFindFailed
<1>6. CASE index = numPartitions /\ ok /\ card.crc
  <2>1. /\ srcIndex' = srcIndex /\ index' = 0 /\ entriesValid' = TRUE /\ pc' = "search"
        /\ failed' = failed
    BY <1>2, <1>6 DEF Find
  <2>2. NoBootIn(srcIndex, 0)
    BY <1>2 DEF NoBootIn
  <2>3. QED
    BY <1>1, <1>6, <2>1, <2>2
       DEF userVars, SourceInv, SearchInv, BootInv, ListInv, ImageInv, RightPartition, ListComplete
<1>7. QED
  BY <1>3, <1>4, <1>5, <1>6

\* One entry of the search: a boot partition, another, or the end of the table.
LEMMA SourceSearch ==
    ASSUME TypeOK, SourceInv, NEW ok \in BOOLEAN, FindPartitionById_(ok)
    PROVE  SourceInv'
<1> USE DEF FindPartitionById_, ReadTable
<1>1. /\ Good' = Good /\ numPartitions' = numPartitions /\ card' = card
      /\ \A i : Entry(i)' = Entry(i)
      /\ \A a, b : NoBootIn(a, b)' = NoBootIn(a, b)
  BY SameCard DEF userVars
<1>2. /\ numPartitions \in Nat /\ srcIndex \in Nat /\ index \in Nat
      /\ (index < numPartitions => index # numPartitions)
      /\ card.header /\ card.crc /\ entriesValid /\ NoBootIn(srcIndex, index)
  BY Entries DEF TypeOK, SourceInv, SearchInv
<1>3. CASE index < numPartitions /\ ~ok
  BY <1>1, <1>2, <1>3
     DEF userVars, gptVars, SourceInv, SearchInv, BootInv, ListInv, ImageInv, RightPartition,
         ListComplete
<1>4. CASE index < numPartitions /\ ok /\ index >= srcIndex /\ Entry(index).type = "boot"
  <2>1. srcIndex' = index /\ pc' = "lba" /\ entriesValid' = entriesValid
    BY <1>2, <1>4, Zenon
  <2>2. \A i \in Good : i < index => i < srcIndex
    BY <1>2 DEF Good, NoBootIn
  <2>3. \A i \in Good : i \in Nat
    BY <1>2 DEF Good
  <2>4. {i \in Good : i < index} = {i \in Good : i < srcIndex}
    BY <1>2, <1>4, <2>2, <2>3
  <2>5. ListInv'
    BY <1>1, <2>1, <2>4 DEF SourceInv, ListInv
  <2>6. BootInv'
    BY <1>1, <1>2, <2>1 DEF userVars, SourceInv, BootInv
  <2>7. SearchInv'
    BY <1>1, <1>2, <1>4, <2>1 DEF SourceInv, SearchInv
  <2>8. QED
    BY <2>1, <2>5, <2>6, <2>7 DEF userVars, SourceInv, ImageInv, RightPartition, ListComplete
<1>5. CASE index < numPartitions /\ ok /\ ~(index >= srcIndex /\ Entry(index).type = "boot")
  <2>1. /\ index' = index + 1 /\ pc' = "search" /\ srcIndex' = srcIndex
        /\ entriesValid' = entriesValid
    BY <1>2, <1>5, Zenon
  <2>2. NoBootIn(srcIndex, index + 1)
    BY <1>2, <1>5 DEF NoBootIn
  <2>3. SearchInv'
    BY <1>1, <1>2, <2>1, <2>2 DEF SearchInv
  <2>4. QED
    BY <1>1, <2>1, <2>3
       DEF userVars, SourceInv, BootInv, ListInv, ImageInv, RightPartition, ListComplete
<1>6. CASE index = numPartitions
  <2>1. FindFailed /\ failed' = failed
    <3>1. ~(index < numPartitions)
      BY <1>2, <1>6
    <3>2. QED
      BY <3>1
  <2>2. UNCHANGED <<userVars, pBootImage, target, job, listed>>
    OBVIOUS
  <2>3. QED
    BY <1>2, <1>6, <2>1, <2>2, SourceFindFailed
<1>7. QED
  BY <1>3, <1>4, <1>5, <1>6

\* The partition that was found or selected gives the LBA.
LEMMA SourceLba ==
    ASSUME TypeOK, SourceInv, NEW ok \in BOOLEAN, GPT_PartitionIdToLBAOffset(ok)
    PROVE  SourceInv'
<1> USE DEF GPT_PartitionIdToLBAOffset, ReadTable
<1>1. /\ Good' = Good /\ numPartitions' = numPartitions /\ card' = card
      /\ \A i : Entry(i)' = Entry(i)
      /\ \A a, b : NoBootIn(a, b)' = NoBootIn(a, b)
  BY SameCard DEF userVars
<1>2. /\ numPartitions \in Nat /\ srcIndex \in Nat /\ card \in Cards
      /\ card.header /\ (manual # NoIndex => manual \in Nat)
  BY Entries, CardAssumption DEF TypeOK, SourceInv, SearchInv
<1>3. /\ pc' \in {"image", "halted"} /\ srcIndex' = srcIndex /\ entriesValid' = entriesValid
  BY DEF TryImageAt, gptVars
<1>4. pc' = "image" /\ ~failed' /\ srcIndex < numPartitions => lba' = Entry(srcIndex).firstLBA
  <2>1. srcIndex < numPartitions => ~(srcIndex >= numPartitions)
    BY <1>2
  <2>2. ~failed' => ok
    BY Zenon
  <2>3. QED
    BY <2>1, <2>2, Zenon DEF TryImageAt
<1>5. pc' = "image" /\ ~failed' /\ srcIndex >= numPartitions => lba' = 0
  BY <1>2 DEF TryImageAt, gptVars
<1>6. RightPartition'
  <2> SUFFICES ASSUME job = "boot", pc' = "image", ~failed'
               PROVE  lba' = BootLBA(card, manual)
    BY <1>1, <1>3 DEF RightPartition, userVars
  <2>1. CASE manual = NoIndex
    <3>1. card.crc /\ srcIndex < numPartitions /\ Entry(srcIndex).type = "boot"
          /\ NoBootIn(0, srcIndex)
      BY <2>1 DEF SourceInv, SearchInv, BootInv
    <3>2. QED
      BY <1>2, <1>4, <2>1, <3>1, FirstBoot
  <2>2. CASE manual # NoIndex
    <3>1. srcIndex = manual
      BY <2>2 DEF SourceInv, BootInv
    <3>2. QED
      BY <1>2, <1>4, <1>5, <2>2, <3>1, FallBack, Selected
  <2>3. QED
    BY <2>1, <2>2
<1>7. ListInv'
  BY <1>1, <1>2, <1>3, <1>4 DEF SourceInv, SearchInv, ListInv
<1>8. QED
  BY <1>1, <1>3, <1>6, <1>7 DEF userVars, SourceInv, SearchInv, BootInv, ImageInv, ListComplete

\* The image of a listed partition is named, and the search goes on behind it.
LEMMA SourceList ==
    ASSUME TypeOK, SourceInv, NEW ok \in BOOLEAN, ReadImageHeaderList(ok)
    PROVE  SourceInv'
<1> USE DEF ReadImageHeaderList, Find
<1>1. /\ Good' = Good /\ numPartitions' = numPartitions /\ card' = card
      /\ \A i : Entry(i)' = Entry(i)
      /\ \A a, b : NoBootIn(a, b)' = NoBootIn(a, b)
  BY SameCard DEF userVars
<1>2. numPartitions \in Nat /\ srcIndex \in Nat
  BY Entries DEF TypeOK
<1>3. NoBootIn(srcIndex + 1, 0)
  BY <1>2 DEF NoBootIn
<1>4. ASSUME ~failed' PROVE listed' = {i \in Good : i < srcIndex + 1}
  <2>1. /\ ~failed /\ ok /\ listed = {i \in Good : i < srcIndex}
        /\ card.header /\ card.crc
        /\ srcIndex < numPartitions /\ Entry(srcIndex).type = "boot"
        /\ lba = Entry(srcIndex).firstLBA
    BY <1>4 DEF SourceInv, ListInv
  <2>2. srcIndex \in Good <=> lba \in card.images
    BY <1>2, <2>1 DEF Good
  <2>3. CASE lba \in card.images
    BY <1>2, <2>1, <2>2, <2>3, GoodBelow DEF GoodHeader
  <2>4. CASE lba \notin card.images
    BY <1>2, <2>1, <2>2, <2>4, GoodBelow DEF GoodHeader
  <2>5. QED
    BY <2>3, <2>4
<1>5. SearchInv'
  <2>1. /\ srcIndex' = srcIndex + 1 /\ index' = 0 /\ entriesValid' = entriesValid
        /\ pc' = IF entriesValid THEN "search" ELSE "validate"
    OBVIOUS
  <2>2. card.header
    BY DEF SourceInv, SearchInv
  <2>3. QED
    BY <1>1, <1>3, <2>1, <2>2 DEF SourceInv, SearchInv
<1>6. ListInv'
  BY <1>1, <1>4 DEF ListInv
<1>7. QED
  BY <1>5, <1>6 DEF userVars, SourceInv, BootInv, ImageInv, RightPartition, ListComplete

\* The steps around the table: the card is initialised, the header of the image
\* read for a boot, and the image copied.
LEMMA SourceImage ==
    ASSUME TypeOK, SourceInv,
           \/ HSS_MMCInit
           \/ \E ok \in BOOLEAN : ReadImageHeader(ok) \/ copyBootImageToDDR_(ok)
    PROVE  SourceInv'
<1>1. CASE HSS_MMCInit
  BY <1>1 DEF HSS_MMCInit, userVars, gptVars, SourceInv, SearchInv, BootInv, ListInv, ImageInv,
              RightPartition, ListComplete
<1>2. ASSUME NEW ok \in BOOLEAN, ReadImageHeader(ok) PROVE SourceInv'
  <2>1. pc' = "copy" => lba' \in card'.images
    BY <1>2 DEF ReadImageHeader, GoodHeader, userVars, gptVars
  <2>2. QED
    BY <1>2, <2>1 DEF ReadImageHeader, userVars, gptVars, SourceInv, SearchInv, BootInv, ListInv,
                      ImageInv, RightPartition, ListComplete
<1>3. ASSUME NEW ok \in BOOLEAN, copyBootImageToDDR_(ok) PROVE SourceInv'
  <2>1. job # "list"
    BY <1>3 DEF copyBootImageToDDR_, SourceInv
  <2>2. ImageInv'
    BY <1>3 DEF copyBootImageToDDR_, userVars, gptVars, SourceInv, ImageInv
  <2>3. QED
    BY <1>3, <2>1, <2>2 DEF copyBootImageToDDR_, userVars, gptVars, SourceInv, SearchInv, BootInv,
                            ListInv, RightPartition, ListComplete
<1>4. QED
  BY <1>1, <1>2, <1>3

LEMMA SourceNext ==
    ASSUME TypeOK, SourceInv, [Next]_vars
    PROVE  SourceInv'
<1>1. CASE Halted \/ UNCHANGED vars
  <2>1. UNCHANGED vars
    BY <1>1 DEF Halted
  <2>2. QED
    BY <2>1 DEF vars, userVars, gptVars, SourceInv, SearchInv, BootInv, ListInv, ImageInv,
                RightPartition, ListComplete, Good, NoBootIn, numPartitions, Entry
<1>2. CASE Work
  BY <1>2, SourceImage, SourceReadHeader, SourceValidate, SourceSearch, SourceLba, SourceList
     DEF Work
<1>3. QED
  BY <1>1, <1>2, SourceCommand DEF Next

LEMMA SourceCorrect == Spec => [](TypeOK /\ SourceInv)
BY TypeInit, TypeNext, SourceInit, SourceNext, PTL DEF Spec

\* What HSS_BootInit has registered is a whole image that was on a card, after
\* any sequence of boots, failed reads and copies, and exchanges of the card.
THEOREM ImageCorrect == Spec => []ImageSound
<1>1. SourceInv => ImageSound
  BY DEF SourceInv, ImageInv, ImageSound
<1>2. QED
  BY <1>1, SourceCorrect, PTL

\* A boot whose reads all worked takes the partition that the table defines,
\* for a table of any length.
THEOREM PartitionCorrect == Spec => []RightPartition
<1>1. SourceInv => RightPartition
  BY DEF SourceInv
<1>2. QED
  BY <1>1, SourceCorrect, PTL

\* `boot list` whose reads all worked names the boot partitions that hold an
\* image, all of them and no other.
THEOREM ListCorrect == Spec => []ListComplete
<1>1. SourceInv => ListComplete
  BY DEF SourceInv
<1>2. QED
  BY <1>1, SourceCorrect, PTL

=============================================================================
