------------------------------ MODULE BootSource ------------------------------
(***************************************************************************)
(* Where the boot image comes from: HSS_BootInit and getBootImageFromMMC_  *)
(* (hss_boot_init.c), the partition table (gpt.c), the card (mmc_api.c)    *)
(* and the commands of the user around them (tinycli_api.c).  The board    *)
(* has one storage, the SD card, so the default storage and the loop over  *)
(* all storages try the same one; images are not compressed.               *)
(*                                                                         *)
(* The E51 does one command at a time, one step per read of the card.      *)
(* Every read may fail; between commands the card may be exchanged.        *)
(***************************************************************************)
EXTENDS Integers, Sequences, FiniteSetsExt

CONSTANTS
    Cards,      \* cards that may be in the slot
    Indices,    \* indices the user may give to `boot select`
    NoIndex     \* bootPartitionIndexValid is false

\* A card: does GPT_ValidateHeader accept its header, is the CRC of the entries
\* right, the entries (type and first LBA), and the LBAs that hold an image.
LBA == Nat

ASSUME CardAssumption ==
    /\ \A c \in Cards :
        /\ c.header \in BOOLEAN /\ c.crc \in BOOLEAN
        /\ c.entries \in Seq([type : {"boot", "other"}, firstLBA : LBA])
        /\ c.images \subseteq LBA
    /\ Indices \subseteq Nat /\ NoIndex \notin Nat

VARIABLES
    card,
    ready,          \* the card in the slot is initialised and can be read
    medium,         \* mmc_selectedMedium
    manual,         \* bootPartitionIndex, or NoIndex
    pBootImage,     \* "NULL" or "target", CONFIG_SERVICE_BOOT_DDR_TARGET_ADDR
    target,         \* what is there: <<"image", card, lba>>, <<"nothing">> or <<"partial">>
    pc, job,        \* where the E51 is, in a "boot" or a "list"
    srcIndex, index,    \* partition searched for or found, entry being read
    entriesValid,   \* pGpt->partitionEntriesValid
    lba,            \* srcLBAOffset
    listed,         \* partitions whose image `boot list` has named
    firstFind,      \* before the loop of tinyCLI_Boot_List_
    failed          \* history: a read of the table failed in this command

gptVars == <<srcIndex, index, entriesValid, lba>>
userVars == <<card, medium, manual>>
vars == <<userVars, gptVars, ready, pBootImage, target, pc, job, listed, firstFind, failed>>

numPartitions == Len(card.entries)
Entry(i) == card.entries[i + 1]

Init ==
    /\ card \in Cards /\ ready = FALSE
    /\ medium = "fallback" /\ manual = NoIndex
    /\ pBootImage = "NULL" /\ target = <<"nothing">>
    /\ pc = "idle" /\ job = "none"
    /\ srcIndex = 0 /\ index = 0 /\ entriesValid = FALSE /\ lba = 0
    /\ listed = {} /\ firstFind = FALSE /\ failed = FALSE

-----------------------------------------------------------------------------
(* Commands *)

\* A command begins, with its GPT on the stack (GPT_Init).
Start(j, first) ==
    /\ pc = "idle"
    /\ job' = j /\ pc' = first
    /\ srcIndex' = 0 /\ index' = 0 /\ entriesValid' = FALSE /\ lba' = 0
    /\ listed' = {} /\ firstFind' = TRUE /\ failed' = FALSE
    /\ UNCHANGED <<userVars, ready, pBootImage, target>>

\* `boot`, and the boot without a key pressed.
Boot == Start("boot", "init")

\* `boot list` goes to the card without initialising it.
BootList == Start("list", "header")

\* `boot select <index>`: there is no way back to the search.
GPT_SetBootPartitionIndex(i) ==
    /\ pc = "idle"
    /\ manual' = i
    /\ UNCHANGED <<card, medium, gptVars, ready, pBootImage, target, pc, job, listed, firstFind,
                   failed>>

\* `sdcard`; HSS_MMC_SelectSDCARD initialises the card the first time.
HSS_BootSelectSDCARD ==
    /\ pc = "idle"
    /\ medium' = "sdcard"
    /\ ready' \in IF medium = "sdcard" THEN {ready} ELSE BOOLEAN
    /\ pBootImage' = "NULL"
    /\ UNCHANGED <<card, manual, gptVars, target, pc, job, listed, firstFind, failed>>

\* `mmc` and `emmc`; without eMMC the medium stays.
HSS_BootSelectMMC ==
    /\ pc = "idle"
    /\ pBootImage' = "NULL"
    /\ UNCHANGED <<userVars, gptVars, ready, target, pc, job, listed, firstFind, failed>>

\* Another card in the slot.
Exchange ==
    /\ pc = "idle"
    /\ card' \in Cards \ {card}
    /\ ready' = FALSE
    /\ job' = "none"
    /\ UNCHANGED <<medium, manual, gptVars, pBootImage, target, pc, listed, firstFind, failed>>

-----------------------------------------------------------------------------
(* HSS_BootInit up to the partition *)

\* HSS_MMCInit; if it fails, tryBootFunction_ is not called.
HSS_MMCInit ==
    /\ pc = "init"
    /\ ready' \in BOOLEAN
    /\ pc' = IF ready' THEN "header" ELSE "idle"
    /\ UNCHANGED <<userVars, gptVars, pBootImage, target, job, listed, firstFind, failed>>

\* readBlockFnPtr on the partition table.
ReadTable(ok) ==
    /\ ok => ready
    /\ failed' = (failed \/ ~ok)

\* GPT_FindBootSectorIndex from src; valid entries are not validated again.
Find(src, valid) ==
    /\ srcIndex' = src /\ index' = 0 /\ entriesValid' = valid
    /\ pc' = IF valid THEN "search" ELSE "validate"
    /\ UNCHANGED lba

\* The image is looked for at LBA l.
TryImageAt(l) ==
    /\ lba' = l /\ pc' = "image"
    /\ UNCHANGED <<srcIndex, index, entriesValid>>

\* Mutant: the loop of `boot list` goes on whatever the search returned.
FindFailedForever ==
    \/ job = "boot" /\ TryImageAt(0) /\ UNCHANGED firstFind
    \/ job = "list" /\ Find(srcIndex, entriesValid) /\ UNCHANGED firstFind

\* The search found nothing.  A boot falls back to LBA 0.  tinyCLI_Boot_List_
\* looks at the result of its first search only after it has searched again
\* from the next index.
FindFailed ==
    \/ job = "boot" /\ TryImageAt(0) /\ UNCHANGED firstFind
    \/ job = "list" /\ firstFind /\ firstFind' = FALSE /\ Find(srcIndex + 1, entriesValid)
    \/ job = "list" /\ ~firstFind /\ pc' = "idle" /\ UNCHANGED <<gptVars, firstFind>>

\* A partition the user has selected is taken
\* without a look at the CRC of the entries.
GPT_ReadHeader(ok) ==
    /\ pc = "header"
    /\ ReadTable(ok)
    /\ \/ /\ ok /\ card.header
          /\ IF job = "boot" /\ manual # NoIndex
             THEN /\ srcIndex' = manual /\ pc' = "lba"
                  /\ UNCHANGED <<index, entriesValid, lba>>
             ELSE Find(0, FALSE)
       \/ ~(ok /\ card.header) /\ job = "boot" /\ TryImageAt(0)
       \/ ~(ok /\ card.header) /\ job = "list" /\ pc' = "idle" /\ UNCHANGED gptVars
    /\ UNCHANGED <<userVars, ready, pBootImage, target, job, listed, firstFind>>

\* Mutant: one entry more than the table has goes into the CRC.
GPT_ValidatePartitionEntries_over(ok) ==
    /\ pc = "validate"
    /\ \/ /\ index <= numPartitions
          /\ ReadTable(ok)
          /\ \/ ok /\ index' = index + 1 /\ UNCHANGED <<srcIndex, entriesValid, lba, pc, firstFind>>
             \/ ~ok /\ FindFailed
       \/ /\ index > numPartitions /\ ok
          /\ \/ card.crc /\ Find(srcIndex, TRUE) /\ UNCHANGED firstFind
             \/ ~card.crc /\ FindFailed
          /\ UNCHANGED failed
    /\ UNCHANGED <<userVars, ready, pBootImage, target, job, listed>>

\* All entries are read for their CRC.
GPT_ValidatePartitionEntries(ok) ==
    /\ pc = "validate"
    /\ \/ /\ index < numPartitions
          /\ ReadTable(ok)
          /\ \/ ok /\ index' = index + 1 /\ UNCHANGED <<srcIndex, entriesValid, lba, pc, firstFind>>
             \/ ~ok /\ FindFailed
       \/ /\ index = numPartitions /\ ok
          /\ \/ card.crc /\ Find(srcIndex, TRUE) /\ UNCHANGED firstFind
             \/ ~card.crc /\ FindFailed
          /\ UNCHANGED failed
    /\ UNCHANGED <<userVars, ready, pBootImage, target, job, listed>>

\* Mutant: the entry at the start index is skipped as well.
FindPartitionById_late(ok) ==
    /\ pc = "search"
    /\ \/ /\ index < numPartitions
          /\ ReadTable(ok)
          /\ \/ ~ok /\ pc' = "halted" /\ UNCHANGED gptVars
             \/ /\ ok /\ index > srcIndex /\ Entry(index).type = "boot"
                /\ srcIndex' = index /\ pc' = "lba"
                /\ UNCHANGED <<index, entriesValid, lba>>
             \/ /\ ok /\ ~(index > srcIndex /\ Entry(index).type = "boot")
                /\ index' = index + 1
                /\ UNCHANGED <<srcIndex, entriesValid, lba, pc>>
          /\ UNCHANGED firstFind
       \/ index = numPartitions /\ ok /\ FindFailed /\ UNCHANGED failed
    /\ UNCHANGED <<userVars, ready, pBootImage, target, job, listed>>

\* The first boot partition from srcIndex on.  The entries are read again, and
\* an assert is around the read.
FindPartitionById_(ok) ==
    /\ pc = "search"
    /\ \/ /\ index < numPartitions
          /\ ReadTable(ok)
          /\ \/ ~ok /\ pc' = "halted" /\ UNCHANGED gptVars
             \/ /\ ok /\ index >= srcIndex /\ Entry(index).type = "boot"
                /\ srcIndex' = index /\ pc' = "lba"
                /\ UNCHANGED <<index, entriesValid, lba>>
             \/ /\ ok /\ ~(index >= srcIndex /\ Entry(index).type = "boot")
                /\ index' = index + 1
                /\ UNCHANGED <<srcIndex, entriesValid, lba, pc>>
          /\ UNCHANGED firstFind
       \/ index = numPartitions /\ ok /\ FindFailed /\ UNCHANGED failed
    /\ UNCHANGED <<userVars, ready, pBootImage, target, job, listed>>

\* The entry is read a third time; when that fails its address is NULL and is
\* used nevertheless, which traps or yields any number.
GPT_PartitionIdToLBAOffset(ok) ==
    /\ pc = "lba"
    /\ ReadTable(ok)
    /\ \/ srcIndex < numPartitions /\ ok /\ TryImageAt(Entry(srcIndex).firstLBA)
       \/ /\ srcIndex < numPartitions /\ ~ok
          /\ \/ \E l \in UNION {c.images \cup {0} : c \in Cards} : TryImageAt(l)
             \/ pc' = "halted" /\ UNCHANGED gptVars
       \/ srcIndex >= numPartitions /\ TryImageAt(0)
    /\ UNCHANGED <<userVars, ready, pBootImage, target, job, listed, firstFind>>

-----------------------------------------------------------------------------
(* The image *)

\* The header of the image is read and HSS_Boot_VerifyMagic looks at it.
GoodHeader(ok) == ok /\ lba \in card.images

\* Mutant: `boot list` ends at a partition without an image.
ReadImageHeaderList_strict(ok) ==
    /\ pc = "image" /\ job = "list"
    /\ ok => ready
    /\ listed' = IF GoodHeader(ok) THEN listed \cup {srcIndex} ELSE listed
    /\ firstFind' = FALSE
    /\ IF GoodHeader(ok) THEN Find(srcIndex + 1, entriesValid)
                         ELSE pc' = "idle" /\ UNCHANGED gptVars
    /\ failed' = (failed \/ ~ok)
    /\ UNCHANGED <<userVars, ready, pBootImage, target, job>>

\* tinyCLI_Boot_List_: the name of an image is printed, then the next one searched.
ReadImageHeaderList(ok) ==
    /\ pc = "image" /\ job = "list"
    /\ ok => ready
    /\ listed' = IF GoodHeader(ok) THEN listed \cup {srcIndex} ELSE listed
    /\ firstFind' = FALSE
    /\ Find(srcIndex + 1, entriesValid)
    /\ failed' = (failed \/ ~ok)
    /\ UNCHANGED <<userVars, ready, pBootImage, target, job>>

\* Without an image tryBootFunction_ registers NULL.
ReadImageHeader(ok) ==
    /\ pc = "image" /\ job = "boot"
    /\ ok => ready
    /\ pc' = IF GoodHeader(ok) THEN "copy" ELSE "idle"
    /\ pBootImage' = IF GoodHeader(ok) THEN pBootImage ELSE "NULL"
    /\ UNCHANGED <<userVars, gptVars, ready, target, job, listed, firstFind, failed>>

\* Mutant: after a failed copy the image of the last boot stays registered.
copyBootImageToDDR_keep(ok) ==
    /\ pc = "copy"
    /\ target' = IF ok THEN <<"image", card, lba>> ELSE <<"partial">>
    /\ pBootImage' = IF ok THEN "target" ELSE pBootImage
    /\ pc' = "idle"
    /\ UNCHANGED <<userVars, gptVars, ready, job, listed, firstFind, failed>>

\* The whole image is copied, over what an earlier boot has put there.
copyBootImageToDDR_(ok) ==
    /\ pc = "copy"
    /\ target' = IF ok THEN <<"image", card, lba>> ELSE <<"partial">>
    /\ pBootImage' = IF ok THEN "target" ELSE "NULL"
    /\ pc' = "idle"
    /\ UNCHANGED <<userVars, gptVars, ready, job, listed, firstFind, failed>>

\* The E51 spins in __assert_func or in its trap handler.
Halted == pc = "halted" /\ UNCHANGED vars

-----------------------------------------------------------------------------
Command ==
    \/ Boot \/ BootList \/ HSS_BootSelectSDCARD \/ HSS_BootSelectMMC \/ Exchange
    \/ \E i \in Indices : GPT_SetBootPartitionIndex(i)

Work ==
    \/ HSS_MMCInit
    \/ \E ok \in BOOLEAN :
        \/ GPT_ReadHeader(ok) \/ GPT_ValidatePartitionEntries(ok) \/ FindPartitionById_(ok)
        \/ GPT_PartitionIdToLBAOffset(ok) \/ ReadImageHeader(ok) \/ ReadImageHeaderList(ok)
        \/ copyBootImageToDDR_(ok)

Next == Command \/ Work \/ Halted

\* A command that has begun goes on; nobody has to give one.
Spec == Init /\ [][Next]_vars /\ WF_vars(Work)

-----------------------------------------------------------------------------
(* Properties *)

\* The type invariant.
TypeOK ==
    /\ card \in Cards
    /\ ready \in BOOLEAN /\ entriesValid \in BOOLEAN /\ firstFind \in BOOLEAN /\ failed \in BOOLEAN
    /\ medium \in {"fallback", "sdcard"}
    /\ manual \in Indices \cup {NoIndex}
    /\ pBootImage \in {"NULL", "target"}
    /\ pc \in {"idle", "init", "header", "validate", "search", "lba", "image", "copy", "halted"}
    /\ job \in {"none", "boot", "list"}
    /\ index \in Nat /\ (pc # "idle" => index <= numPartitions)
    /\ srcIndex \in Nat /\ lba \in LBA
    /\ listed \subseteq Nat

\* While the E51 is at its prompt, a registered image is completely in memory,
\* and it was one (its magic was right) on the card it came from.  The copy of
\* a later boot goes over the image of the earlier one, and may fail; the
\* initialisation before it may fail too.
ImageSound ==
    pc \in {"idle", "halted"} /\ pBootImage = "target" =>
        target[1] = "image" /\ target[3] \in target[2].images

\* Where the table of a card says that the image of a boot is, m being the index
\* the user selected: the entry with that index; otherwise the first boot
\* partition, if the CRC vouches for the entries; otherwise LBA 0.
BootLBA(c, m) ==
    LET n == Len(c.entries)
        bootable == {i \in 1..n : c.entries[i].type = "boot"}
    IN  CASE ~c.header                                   -> 0
          [] c.header /\ m # NoIndex /\ m < n            -> c.entries[m + 1].firstLBA
          [] c.header /\ m # NoIndex /\ m >= n           -> 0
          [] c.header /\ m = NoIndex /\ c.crc /\ bootable # {} -> c.entries[Min(bootable)].firstLBA
          [] OTHER                                       -> 0

\* A boot for which the whole table could be read takes the image from where
\* the table says: the two searches over the table that read each entry up to
\* three times, and the fallbacks, agree with the definition above.
RightPartition ==
    job = "boot" /\ pc \in {"image", "copy"} /\ ~failed => lba = BootLBA(card, manual)

\* `boot list` names exactly the boot partitions of a valid table that hold an
\* image, if no read failed, although it mixes its results of two searches.
ListComplete ==
    job = "list" /\ pc = "idle" /\ ~failed =>
        listed = {i \in 0..(numPartitions - 1) :
                    /\ card.header /\ card.crc
                    /\ Entry(i).type = "boot" /\ Entry(i).firstLBA \in card.images}

\* Whatever is on the card and whichever read fails, a command comes back to
\* the prompt or halts the E51: the loops over partitions end.
CommandEnds == []<>(pc \in {"idle", "halted"})

=============================================================================
