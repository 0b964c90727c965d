----------------------------- MODULE MCBootChunks -----------------------------
(***************************************************************************)
(* Boot images of two harts: up to two chunks and one zi-chunk per hart,   *)
(* in the order the payload generator writes them, one owner after the     *)
(* other.  Pieces are 2 bytes long.                                        *)
(***************************************************************************)
EXTENDS BootChunks

Chunk(h, anc, load, exec, n) ==
    [owner |-> h, anc |-> anc, loadAddr |-> load, execAddr |-> exec, size |-> n]
ZI(h, exec, n) == [owner |-> h, execAddr |-> exec, size |-> n]

\* Chunks of sizes n1 and n2 for U54_1, n3 for U54_2, and a zi-chunk of each,
\* gap bytes apart.  The second chunk is ancilliary data, which may follow the
\* first at once (d = 0), as blob_handler puts it.  firstChunk of U54_2 may be
\* 0, as when the image was put together from an ELF file and a binary file.
Image(gap, d, n1, n2, n3, first) ==
    LET e2 == n1 + d
        z1 == e2 + n2 + gap
        e3 == z1 + 1 + gap
        z2 == e3 + n3 + gap
    IN  [chunks |-> <<Chunk(1, FALSE, 0, 0, n1), Chunk(1, TRUE, n1, e2, n2),
                      Chunk(2, FALSE, n1 + n2, e3, n3)>>,
         zi |-> <<ZI(1, z1, 1), ZI(2, z2, 1)>>,
         first |-> <<0, first>>,
         last |-> <<1, 2>>]

Apart == {Image(2, d, n1, n2, n3, f) :
            d \in {0, 2}, n1 \in 1..4, n2 \in 1..4, n3 \in 1..4, f \in {0, 2}}
=============================================================================
