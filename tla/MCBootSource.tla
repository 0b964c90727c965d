----------------------------- MODULE MCBootSource -----------------------------
(***************************************************************************)
(* BootSource with cards of up to three partitions: two boot partitions of *)
(* which the first holds no image, a table with a wrong CRC, one without   *)
(* boot partitions, and no table but an image at LBA 0.                    *)
(***************************************************************************)
EXTENDS BootSource

Part(kind, first) == [type |-> kind, firstLBA |-> first]

TestCards == {
    [header |-> TRUE, crc |-> TRUE, images |-> {0, 2, 3},
     entries |-> <<Part("boot", 1), Part("other", 2), Part("boot", 3)>>],
    [header |-> TRUE, crc |-> TRUE, images |-> {1, 2},
     entries |-> <<Part("boot", 2), Part("boot", 1)>>],
    [header |-> TRUE, crc |-> FALSE, images |-> {0, 1},
     entries |-> <<Part("boot", 1), Part("boot", 3)>>],
    [header |-> TRUE, crc |-> TRUE, images |-> {2},
     entries |-> <<Part("other", 2)>>],
    [header |-> FALSE, crc |-> FALSE, images |-> {0}, entries |-> <<>>]}
=============================================================================
