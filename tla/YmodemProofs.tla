----------------------------- MODULE YmodemProofs -----------------------------
(***************************************************************************)
(* Proofs about the YMODEM receiver, for files and buffers of any size,    *)
(* any modulus of the block numbers from 2 on, and any number of faults on *)
(* the line.                                                               *)
(***************************************************************************)
EXTENDS Ymodem, WellFoundedInduction, TLAPS

-----------------------------------------------------------------------------
(* Numbers *)

\* The remainder is the one of the division.
LEMMA Remainder ==
    ASSUME NEW w \in Nat \ {0}, NEW q \in Int, NEW r \in 0..w - 1
    PROVE  (w * q + r) % w = r
OBVIOUS

\* The number of the next block wraps at w.
LEMMA NextWraps ==
    ASSUME NEW w \in Nat \ {0}, NEW k \in Nat
    PROVE  \/ (k % w) + 1 < w /\ (k + 1) % w = (k % w) + 1
           \/ (k % w) + 1 = w /\ (k + 1) % w = 0
<1>1. PICK q \in Int, r \in 0..w - 1 : k = w * q + r
  <2>1. (k % w) \in 0..w - 1
    OBVIOUS
  <2>2. k \div w \in Int
    OBVIOUS
  <2>3. k = w * (k \div w) + (k % w)
    OBVIOUS
  <2>4. QED
    BY <2>1, <2>2, <2>3
<1>2. k % w = r
  BY <1>1, Remainder
<1>3. CASE r + 1 < w
  <2>1. k + 1 = w * q + (r + 1) /\ r + 1 \in 0..w - 1
    BY <1>1, <1>3
  <2>2. (k + 1) % w = r + 1
    BY <2>1, Remainder
  <2>3. QED
    BY <1>2, <1>3, <2>2
<1>4. CASE r + 1 = w
  <2>1. k + 1 = w * (q + 1) + 0
    BY <1>1, <1>4
  <2>2. q + 1 \in Int /\ 0 \in 0..w - 1
    OBVIOUS
  <2>3. (k + 1) % w = 0
    BY <2>1, <2>2, Remainder
  <2>4. QED
    BY <1>2, <1>4, <2>3
<1>5. QED
  BY <1>3, <1>4

\* Counting modulo w, which tells a block from the one before it.
LEMMA BlockNumbers ==
    ASSUME NEW w \in Nat \ {0}, NEW k \in Nat
    PROVE  /\ (k % w) \in 0..w - 1
           /\ ((k % w) + 1) % w = (k + 1) % w
           /\ w > 1 => (k + 1) % w # k % w
<1>1. (k % w) \in 0..w - 1
  OBVIOUS
<1>2. CASE (k % w) + 1 < w /\ (k + 1) % w = (k % w) + 1
  <2>1. (k % w) + 1 = w * 0 + ((k % w) + 1) /\ (k % w) + 1 \in 0..w - 1
    BY <1>1, <1>2
  <2>2. QED
    BY <1>1, <1>2, <2>1, Remainder
<1>3. CASE (k % w) + 1 = w /\ (k + 1) % w = 0
  <2>1. w = w * 1 + 0 /\ 0 \in 0..w - 1
    OBVIOUS
  <2>2. w % w = 0
    BY <2>1, Remainder
  <2>3. QED
    BY <1>1, <1>3, <2>2
<1>4. QED
  BY <1>2, <1>3, NextWraps

\* Below w a number is its own remainder.
LEMMA SmallNumbers ==
    ASSUME NEW w \in Nat \ {0}, NEW r \in 0..w - 1
    PROVE  r % w = r
<1>1. r = w * 0 + r
  OBVIOUS
<1>2. QED
  BY <1>1, Remainder

\* A set of naturals has a least member.
LEMMA Least ==
    ASSUME NEW T, T \subseteq Nat, T # {}
    PROVE  \E i \in T : \A j \in T : i <= j
<1> DEFINE R == OpToRel(<, Nat)
<1>1. IsWellFoundedOn(R, Nat)
  BY NatLessThanWellFounded
<1>2. \A x, y \in Nat : <<y, x>> \in R <=> y < x
  BY DEF OpToRel
<1> HIDE DEF R
<1>3. PICK i \in T : \A j \in T : ~(<<j, i>> \in R)
  BY <1>1, WFMin, Zenon
<1>4. ASSUME NEW j \in T PROVE i <= j
  <2>1. i \in Nat /\ j \in Nat
    OBVIOUS
  <2>2. ~(j < i)
    BY <1>2, <1>3, <2>1, Zenon
  <2>3. QED
    BY <2>1, <2>2
<1>5. QED
  BY <1>4

-----------------------------------------------------------------------------
(* The line to the receiver *)

\* r is what is left of q after something was read away: an end of q, whose
\* frames may have become noise.
Rest(r, q) ==
    \E d \in Nat : /\ Len(r) + d <= Len(q)
                   /\ \A j \in 1..Len(r) : r[j] = q[j + d] \/ r[j] = Noise

\* The blocks on the line are from lo to hi, in the order of their numbers.
InWindow(q, lo, hi) ==
    \A i \in 1..Len(q) :
        /\ q[i].kind = "noise" => ~q[i].intact
        /\ q[i].kind = "SOH" => lo <= q[i].blk /\ q[i].blk <= hi
        /\ \A j \in 1..Len(q) :
              i < j /\ q[i].kind = "SOH" /\ q[j].kind = "SOH" => q[i].blk <= q[j].blk

\* What is put together from sequences is one.
LEMMA Concatenation ==
    ASSUME NEW S
    PROVE  /\ \A s, t \in Seq(S) : s \o t \in Seq(S)
           /\ \A a \in S : <<a>> \in Seq(S)
           /\ \A a, b \in S : <<a, b>> \in Seq(S)
OBVIOUS

LEMMA FrameTypes ==
    /\ Noise \in Frames /\ Noise.kind = "noise" /\ Noise.intact = FALSE
    /\ \A n \in Nat : /\ Block(n) \in Frames /\ Block(n).kind = "SOH" /\ Block(n).blk = n
                      /\ Block(n).intact = TRUE
                      /\ Damaged(n) \in Frames /\ Damaged(n).kind = "SOH" /\ Damaged(n).blk = n
    /\ \A k \in {"EOT", "CAN", "ETX"} : Control(k) \in Frames /\ Control(k).kind = k
    /\ \A f \in Frames : f.blk \in Nat /\ f.kind \in {"SOH", "EOT", "CAN", "ETX", "noise"}
BY DEF Noise, Block, Damaged, Control, Frames

\* ReadAway leaves an end of the line.
LEMMA ReadAwayRest ==
    ASSUME NEW q \in Seq(Frames)
    PROVE  ReadAway(q) \in Seq(Frames) /\ Rest(ReadAway(q), q)
<1> DEFINE blocks == {i \in DOMAIN q : q[i].kind \in {"SOH", "noise"}}
<1>1. CASE blocks = {}
  <2>1. ReadAway(q) = <<>>
    BY <1>1 DEF ReadAway
  <2>2. QED
    BY <2>1 DEF Rest
<1>2. CASE blocks # {}
  <2> DEFINE i == CHOOSE i \in blocks : \A j \in blocks : i <= j
  <2>1. blocks \subseteq 1..Len(q) /\ blocks \subseteq Nat
    OBVIOUS
  <2> HIDE DEF blocks
  <2>2. i \in blocks
    BY <1>2, <2>1, Least
  <2>3. i \in 1..Len(q)
    BY <2>1, <2>2
  <2>4. ReadAway(q) = <<Noise>> \o SubSeq(q, i + 1, Len(q))
    BY <1>2 DEF ReadAway, blocks
  <2> HIDE DEF i
  <2> DEFINE t == SubSeq(q, i + 1, Len(q))
             r == <<Noise>> \o t
  <2>5. /\ t \in Seq(Frames) /\ Len(t) = Len(q) - i
        /\ \A j \in 1..Len(t) : t[j] = q[j + i]
    BY <2>3
  <2>6. Noise \in Frames
    BY FrameTypes
  <2> HIDE DEF t
  <2>7. /\ r \in Seq(Frames) /\ Len(r) = Len(t) + 1
        /\ \A j \in 1..Len(r) : r[j] = IF j = 1 THEN Noise ELSE t[j - 1]
    BY <2>5, <2>6
  <2> HIDE DEF r
  <2>8. ASSUME NEW j \in 1..Len(r), j # 1 PROVE r[j] = q[j + (i - 1)]
    <3>1. j - 1 \in 1..Len(t) /\ (j - 1) + i = j + (i - 1)
      BY <2>3, <2>5, <2>7, <2>8
    <3>2. QED
      BY <2>5, <2>7, <2>8, <3>1
  <2>9. i - 1 \in Nat /\ Len(r) + (i - 1) <= Len(q)
    BY <2>3, <2>5, <2>7
  <2>10. ReadAway(q) = r
    BY <2>4 DEF r, t
  <2>11. QED
    BY <2>7, <2>8, <2>9, <2>10 DEF Rest
<1>3. QED
  BY <1>1, <1>2

LEMMA RestTransitive ==
    ASSUME NEW q \in Seq(Frames), NEW r \in Seq(Frames), NEW t \in Seq(Frames),
           Rest(r, q), Rest(t, r)
    PROVE  Rest(t, q)
<1>1. PICK d \in Nat : /\ Len(r) + d <= Len(q)
                       /\ \A j \in 1..Len(r) : r[j] = q[j + d] \/ r[j] = Noise
  BY DEF Rest
<1>2. PICK e \in Nat : /\ Len(t) + e <= Len(r)
                       /\ \A j \in 1..Len(t) : t[j] = r[j + e] \/ t[j] = Noise
  BY DEF Rest
<1>3. ASSUME NEW j \in 1..Len(t) PROVE t[j] = q[j + (d + e)] \/ t[j] = Noise
  <2>1. j + e \in 1..Len(r) /\ (j + e) + d = j + (d + e)
    BY <1>2
  <2>2. QED
    BY <1>1, <1>2, <2>1
<1>4. d + e \in Nat /\ Len(t) + (d + e) <= Len(q)
  BY <1>1, <1>2
<1>5. QED
  BY <1>3, <1>4 DEF Rest

LEMMA RestSelfAndTail ==
    ASSUME NEW q \in Seq(Frames)
    PROVE  /\ Rest(q, q)
           /\ q # <<>> => Tail(q) \in Seq(Frames) /\ Rest(Tail(q), q)
<1>1. Rest(q, q)
  <2>1. 0 \in Nat /\ Len(q) + 0 <= Len(q) /\ \A j \in 1..Len(q) : q[j] = q[j + 0]
    OBVIOUS
  <2>2. QED
    BY <2>1 DEF Rest
<1>2. ASSUME q # <<>> PROVE Tail(q) \in Seq(Frames) /\ Rest(Tail(q), q)
  <2>1. /\ Tail(q) \in Seq(Frames) /\ Len(Tail(q)) + 1 <= Len(q)
        /\ \A j \in 1..Len(Tail(q)) : Tail(q)[j] = q[j + 1]
    BY <1>2
  <2>2. QED
    BY <2>1 DEF Rest
<1>3. QED
  BY <1>1, <1>2

\* What is left is in the window of what was there.
LEMMA WindowRest ==
    ASSUME NEW q \in Seq(Frames), NEW r \in Seq(Frames), NEW lo \in Int, NEW hi \in Int,
           Rest(r, q), InWindow(q, lo, hi)
    PROVE  InWindow(r, lo, hi)
<1>1. PICK d \in Nat : /\ Len(r) + d <= Len(q)
                       /\ \A j \in 1..Len(r) : r[j] = q[j + d] \/ r[j] = Noise
  BY DEF Rest
<1>2. \A j \in 1..Len(r) : j + d \in 1..Len(q)
  BY <1>1
<1>3. \A j \in 1..Len(r) : r[j].kind = "SOH" => r[j] = q[j + d]
  BY <1>1, FrameTypes
<1>4. ASSUME NEW i \in 1..Len(r)
      PROVE  /\ r[i].kind = "noise" => ~r[i].intact
             /\ r[i].kind = "SOH" => lo <= r[i].blk /\ r[i].blk <= hi
  <2>1. CASE r[i] = Noise
    BY <2>1, FrameTypes, Zenon
  <2>2. CASE r[i] = q[i + d]
    BY <1>2, <2>2 DEF InWindow
  <2>3. QED
    BY <1>1, <2>1, <2>2
<1>5. ASSUME NEW i \in 1..Len(r), NEW j \in 1..Len(r), i < j,
             r[i].kind = "SOH", r[j].kind = "SOH"
      PROVE  r[i].blk <= r[j].blk
  <2>1. i + d < j + d
    BY <1>5
  <2>2. QED
    BY <1>2, <1>3, <1>5, <2>1 DEF InWindow
<1>6. QED
  BY <1>4, <1>5 DEF InWindow

\* A frame behind the others, if it is the newest block or no block.
LEMMA WindowAppend ==
    ASSUME NEW q \in Seq(Frames), NEW f \in Frames, NEW lo \in Int, NEW hi \in Int,
           InWindow(q, lo, hi), f.kind # "noise",
           NEW top \in Int, hi <= top,
           f.kind = "SOH" => lo <= f.blk /\ f.blk = top
    PROVE  Append(q, f) \in Seq(Frames) /\ InWindow(Append(q, f), lo, top)
<1> DEFINE r == Append(q, f)
<1>1. /\ r \in Seq(Frames) /\ Len(r) = Len(q) + 1 /\ r[Len(q) + 1] = f
      /\ \A j \in 1..Len(q) : r[j] = q[j]
  OBVIOUS
<1>2. \A j \in 1..Len(r) : r[j].blk \in Nat
  BY <1>1, FrameTypes
<1> HIDE DEF r
<1>3. ASSUME NEW i \in 1..Len(r)
      PROVE  /\ r[i].kind = "noise" => ~r[i].intact
             /\ r[i].kind = "SOH" => lo <= r[i].blk /\ r[i].blk <= top
  <2>1. CASE i \in 1..Len(q)
    BY <1>1, <1>2, <2>1 DEF InWindow
  <2>2. CASE i = Len(q) + 1
    BY <1>1, <2>2
  <2>3. QED
    BY <1>1, <2>1, <2>2
<1>4. ASSUME NEW i \in 1..Len(r), NEW j \in 1..Len(r), i < j,
             r[i].kind = "SOH", r[j].kind = "SOH"
      PROVE  r[i].blk <= r[j].blk
  <2>1. i \in 1..Len(q)
    BY <1>1, <1>4
  <2>2. CASE j \in 1..Len(q)
    BY <1>1, <1>4, <2>1, <2>2 DEF InWindow
  <2>3. CASE j = Len(q) + 1
    BY <1>1, <1>3, <1>4, <2>1, <2>3
  <2>4. QED
    BY <1>1, <2>2, <2>3
<1>5. QED
  BY <1>1, <1>3, <1>4 DEF InWindow, r

-----------------------------------------------------------------------------
(* The inductive invariants *)

\* The loop of XYMODEM_Receive goes on only without a flag and with retries left.
RunInv == Running => status = {} /\ retries < MaxRetries

\* How many blocks the receiver has accepted, the header included.
Accepted == IF buffer = <<>> THEN expectedBlkNum ELSE buffer[Len(buffer)] + 1

NoAck(s) == \A i \in 1..Len(s) : s[i] # "ACK"
OneAck(s) == \A i, j \in 1..Len(s) : s[i] = "ACK" /\ s[j] = "ACK" => i = j

\* The block number counts what was accepted.
CountInv ==
    /\ expectedBlkNum = Accepted % W
    /\ buffer = <<>> => expectedBlkNum \in {0, 1}
    /\ numReceivedPackets = 0 => buffer = <<>> /\ expectedBlkNum = 0
    /\ eotReceived => numReceivedPackets # 0

\* The sender is at the block that is accepted next, or at the one before it
\* whose ACK is on its way or lost; so are the blocks on the line.
WindowInv ==
    /\ spos <= Accepted /\ Accepted <= spos + 1
    /\ OneAck(toSender)
    /\ spos = Accepted => NoAck(toSender)
    /\ sender = "idle" => spos = 0
    /\ sender = "waitC" => spos = 0 /\ Accepted = 1 /\ NoAck(toSender)
    /\ InWindow(toReceiver, Accepted - 1, spos)

OrderInv ==
    /\ BlocksInOrder
    /\ Running => CountInv
    /\ Running /\ ~eotReceived => WindowInv

\* A transfer without faults, phase by phase; one thing is on the line, until
\* the receiver has to ask for the content.
Stored(n) == /\ buffer = [i \in 1..n |-> i]
             /\ expectedBlkNum = (n + 1) % W

Ready ==
    /\ sender = "idle" /\ toSender = <<"C">> /\ toReceiver = <<>>
    /\ numReceivedPackets = 0 /\ syncAttempt = 0

HeaderSent ==
    /\ sender = "wait" /\ spos = 0 /\ toSender = <<>> /\ toReceiver = <<Block(0)>>
    /\ numReceivedPackets = 0 /\ syncAttempt = 0

HeaderAcked ==
    /\ sender = "wait" /\ spos = 0 /\ toSender = <<"ACK">> /\ toReceiver = <<>>
    /\ numReceivedPackets = 1 /\ Stored(0) /\ syncAttempt = 0

Waiting ==
    /\ sender = "waitC" /\ toSender = <<>> /\ toReceiver = <<>> /\ syncAttempt = 0
    /\ numReceivedPackets = 1 /\ Stored(0)

Asked ==
    /\ sender = "waitC" /\ toSender = <<"C">> /\ toReceiver = <<>>
    /\ numReceivedPackets = 1 /\ Stored(0)

BlockSent ==
    /\ sender = "wait" /\ spos \in 1..size + 1 /\ toSender = <<>> /\ toReceiver = <<Frame(spos)>>
    /\ numReceivedPackets \in {1, 2} /\ Stored(spos - 1)

BlockAcked ==
    /\ sender = "wait" /\ spos \in 1..size /\ toSender = <<"ACK">> /\ toReceiver = <<>>
    /\ numReceivedPackets \in {1, 2} /\ Stored(spos)

CleanPhase ==
    Ready \/ HeaderSent \/ HeaderAcked \/ Waiting \/ Asked \/ BlockSent \/ BlockAcked

CleanInv ==
    faults = 0 /\ size < MaxSize /\ Running =>
        /\ retries = 0 /\ canCount = 0 /\ eotReceived = FALSE
        /\ numReceivedPackets = 0 => /\ buffer = <<>> /\ expectedBlkNum = 0
                                     /\ lastReceivedBlkNum = 0
        /\ numReceivedPackets # 0 => expectedSize = size
        /\ CleanPhase

-----------------------------------------------------------------------------
(* Types *)

Chars == {"C", "ACK", "NAK", "CAN"}

\* TypeOK in three parts: the receiver, the line, the sender.
ReceiverOK ==
    /\ status \in SUBSET {"syncFail", "endOfSession", "abort"}
    /\ eotReceived \in BOOLEAN
    /\ lastReceivedBlkNum \in 0..W - 1 /\ expectedBlkNum \in 0..W - 1
    /\ numReceivedPackets \in 0..2 /\ expectedSize \in {0, size}
    /\ buffer \in Seq(Nat) /\ Len(buffer) <= MaxSize
    /\ retries \in 0..MaxRetries
    /\ syncAttempt \in 0..MaxSync - 1 /\ canCount \in 0..CanCountRequired - 1
    /\ result \in -1..MaxSize

LineOK == toReceiver \in Seq(Frames) /\ toSender \in Seq(Chars)

RemoteOK ==
    /\ size \in Sizes /\ spos \in 0..size + 1
    /\ sender \in {"idle", "wait", "waitC", "stop"}
    /\ faults \in 0..MaxFaults

LEMMA TypeParts == TypeOK <=> ReceiverOK /\ LineOK /\ RemoteOK
BY DEF TypeOK, ReceiverOK, LineOK, RemoteOK, Chars

\* What the receiver says, and what it stores.
LEMMA Said ==
    /\ \A s \in Seq(Chars) : /\ \A c \in Chars : Append(s, c) \in Seq(Chars)
                            /\ s \o <<"ACK", "CAN", "CAN">> \in Seq(Chars)
                            /\ s \o <<"ACK", "ACK">> \in Seq(Chars)
    /\ \A s \in Seq(Nat) : \A n \in Nat : Append(s, n) \in Seq(Nat)
                                        /\ Len(Append(s, n)) = Len(s) + 1
    /\ <<>> \in Seq(Nat) /\ Len(<<>>) = 0
<1>1. <<"ACK", "CAN", "CAN">> \in Seq(Chars) /\ <<"ACK", "ACK">> \in Seq(Chars)
  BY DEF Chars
<1>2. \A s, t \in Seq(Chars) : s \o t \in Seq(Chars)
  OBVIOUS
<1>3. QED
  BY <1>1, <1>2

\* The buffer after a step: as it was, emptied, or longer by a block that fits.
LEMMA BufferTypes ==
    ASSUME ReceiverOK,
           \/ buffer' = buffer
           \/ buffer' = <<>>
           \/ \E n \in Nat : Len(buffer) + 1 < MaxSize /\ buffer' = Append(buffer, n)
    PROVE  buffer' \in Seq(Nat) /\ Len(buffer') <= MaxSize
<1>1. buffer \in Seq(Nat) /\ Len(buffer) \in Nat /\ Len(buffer) <= MaxSize /\ MaxSize \in Nat
  BY YmodemAssumption DEF ReceiverOK
<1>2. CASE buffer' = buffer
  BY <1>1, <1>2
<1>3. CASE buffer' = <<>>
  <2>1. buffer' \in Seq(Nat) /\ Len(buffer') = 0
    BY <1>3, Said, Zenon
  <2>2. QED
    BY <1>1, <2>1
<1>4. ASSUME NEW n \in Nat, Len(buffer) + 1 < MaxSize, buffer' = Append(buffer, n)
      PROVE  buffer' \in Seq(Nat) /\ Len(buffer') <= MaxSize
  <2>1. buffer' \in Seq(Nat) /\ Len(buffer') = Len(buffer) + 1
    BY <1>1, <1>4, Said, Zenon
  <2>2. QED
    BY <1>1, <1>4, <2>1
<1>5. QED
  BY <1>2, <1>3, <1>4

\* The start byte that is read, and what it leaves on the line.
LEMMA StartByte ==
    ASSUME LineOK, NEW start \in StartBytes
    PROVE  /\ start.rest \in Seq(Frames) /\ Rest(start.rest, toReceiver)
           /\ start.byte = "timeout" => toReceiver = <<>>
           /\ start.byte # "timeout" =>
                 /\ toReceiver # <<>>
                 /\ Head(toReceiver).kind \in {start.byte, "noise"}
                 /\ Head(toReceiver).kind # "noise" => start.rest = Tail(toReceiver)
<1>1. CASE toReceiver = <<>>
  <2>1. start.byte = "timeout" /\ start.rest = <<>>
    BY <1>1 DEF StartBytes, Start
  <2>2. QED
    BY <1>1, <2>1 DEF Rest
<1>2. CASE toReceiver # <<>>
  <2> DEFINE kind == Head(toReceiver).kind
             tail == Tail(toReceiver)
  <2>1. /\ tail \in Seq(Frames) /\ Rest(tail, toReceiver) /\ Rest(toReceiver, toReceiver)
        /\ toReceiver \in Seq(Frames)
    BY <1>2, RestSelfAndTail DEF LineOK
  <2>2. ReadAway(tail) \in Seq(Frames) /\ Rest(ReadAway(tail), toReceiver)
    BY <2>1, ReadAwayRest, RestTransitive
  <2>3. kind \in {"SOH", "EOT", "CAN", "ETX", "noise"}
    <3>1. Head(toReceiver) \in Frames
      BY <1>2 DEF LineOK
    <3>2. QED
      BY <3>1, FrameTypes
  <2>4. CASE kind # "noise"
    <3>1. start.byte = kind /\ start.rest = tail
      BY <1>2, <2>4 DEF StartBytes, Start
    <3>2. QED
      BY <1>2, <2>1, <2>3, <3>1
  <2>5. CASE kind = "noise"
    <3>1. \/ start \in Start("SOH", {tail, ReadAway(tail)})
          \/ \E b \in {"other", "EOT", "ETX", "CAN"} : start \in Start(b, {toReceiver, tail})
      BY <1>2, <2>5 DEF StartBytes
    <3>2. start.byte # "timeout" /\ start.rest \in {toReceiver, tail, ReadAway(tail)}
      BY <3>1 DEF Start
    <3>3. QED
      BY <1>2, <2>1, <2>2, <2>5, <3>2
  <2>6. QED
    BY <2>4, <2>5
<1>3. QED
  BY <1>1, <1>2

\* The end of a pass of the loop.
LEMMA EndTypes ==
    ASSUME EndOfPass, expectedSize' \in Nat, buffer' \in Seq(Nat), Len(buffer') <= MaxSize
    PROVE  /\ syncAttempt' = 0 /\ canCount' = 0 /\ result' \in -1..MaxSize
           /\ RunInv'
           /\ Len(buffer') = 0 /\ status' # {} => result' = 0
<1>1. MaxSize \in Nat /\ MaxRetries \in Nat
  BY YmodemAssumption
<1>2. Len(buffer') \in Nat
  OBVIOUS
<1>3. result' \in -1..MaxSize
  BY <1>1, <1>2 DEF EndOfPass
<1>4. RunInv'
  BY <1>1, <1>2 DEF EndOfPass, RunInv, Running
<1>5. QED
  BY <1>2, <1>3, <1>4 DEF EndOfPass

\* What a bad packet leaves on the line.
LEMMA BadPacketLine ==
    ASSUME LineOK, NEW rest \in Seq(Frames), Rest(rest, toReceiver), BadPacket(rest)
    PROVE  LineOK' /\ Rest(toReceiver', toReceiver)
<1>1. toReceiver' \in Seq(Frames) /\ Rest(toReceiver', toReceiver)
  <2>1. toReceiver \in Seq(Frames)
    BY DEF LineOK
  <2>2. ReadAway(rest) \in Seq(Frames) /\ Rest(ReadAway(rest), toReceiver)
    BY <2>1, ReadAwayRest, RestTransitive
  <2>3. toReceiver' \in {rest, ReadAway(rest)}
    BY DEF BadPacket
  <2>4. QED
    BY <2>2, <2>3
<1>2. toSender' \in Seq(Chars)
  BY DEF BadPacket, LineOK, Chars
<1>3. QED
  BY <1>1, <1>2 DEF LineOK

\* The ways a packet can go: what it does to the file, and to the line.
LEMMA TypePacket ==
    ASSUME TypeOK, RunInv, Packet
    PROVE  TypeOK' /\ RunInv'
<1>0. ReceiverOK /\ LineOK /\ RemoteOK /\ status = {} /\ retries < MaxRetries
  BY TypeParts DEF RunInv, Packet
<1>1. PICK start \in StartBytes :
        LET frame == Head(toReceiver)
            rest == start.rest
            good == eotReceived \/ ValidatePacket(frame)
        IN  /\ Running /\ start.byte = "SOH"
            /\ numReceivedPackets' = CountUp(numReceivedPackets)
            /\ lastReceivedBlkNum' = IF good /\ ~eotReceived THEN frame.blk % W
                                     ELSE lastReceivedBlkNum
            /\ expectedBlkNum' = IF good /\ ~eotReceived THEN (expectedBlkNum + 1) % W
                                 ELSE expectedBlkNum
            /\ \/ ~good /\ BadPacket(rest) /\ UNCHANGED status
               \/ good /\ IsHeader /\ Announce /\ toReceiver' = rest
               \/ good /\ ~IsHeader /\ eotReceived /\ EndOfSession /\ toReceiver' = rest
               \/ good /\ ~IsHeader /\ ~eotReceived /\ Store(frame.blk) /\ toReceiver' = rest
            /\ EndOfPass
            /\ UNCHANGED <<eotReceived, remote, faults>>
  BY DEF Packet
<1> DEFINE frame == Head(toReceiver)
           rest == start.rest
<1>2. /\ rest \in Seq(Frames) /\ Rest(rest, toReceiver) /\ frame \in Frames /\ frame.blk \in Nat
  <2>1. toReceiver # <<>> /\ rest \in Seq(Frames) /\ Rest(rest, toReceiver)
    BY <1>0, <1>1, StartByte
  <2>2. frame \in Frames
    BY <1>0, <2>1 DEF LineOK
  <2>3. QED
    BY <2>1, <2>2, FrameTypes
<1>3. /\ W \in Nat \ {0, 1} /\ MaxSize \in Nat /\ MaxRetries \in Nat \ {0}
      /\ size \in Nat \ {0} /\ MaxSync \in Nat \ {0}
  BY <1>0, YmodemAssumption DEF RemoteOK
<1>4. lastReceivedBlkNum' \in 0..W - 1 /\ expectedBlkNum' \in 0..W - 1
  <2>1. (frame.blk % W) \in 0..W - 1 /\ ((expectedBlkNum + 1) % W) \in 0..W - 1
    <3>1. expectedBlkNum + 1 \in Nat /\ frame.blk \in Nat
      BY <1>0, <1>2, <1>3 DEF ReceiverOK
    <3>2. QED
      BY <1>3, <3>1, BlockNumbers
  <2>2. QED
    BY <1>0, <1>1, <2>1 DEF ReceiverOK
<1>5. /\ LineOK' /\ status' \in SUBSET {"syncFail", "endOfSession", "abort"}
      /\ expectedSize' \in {0, size} /\ buffer' \in Seq(Nat) /\ Len(buffer') <= MaxSize
      /\ retries' \in 0..MaxRetries
  <2>1. CASE BadPacket(rest) /\ UNCHANGED status
    <3>1. LineOK'
      BY <1>0, <1>2, <2>1, BadPacketLine
    <3>2. QED
      BY <1>0, <1>3, <2>1, <3>1 DEF BadPacket, ReceiverOK
  <2>2. CASE Announce /\ toReceiver' = rest
    <3>1. toSender' \in Seq(Chars)
      <4>1. toSender \in Seq(Chars) /\ "ACK" \in Chars
        BY <1>0 DEF LineOK, Chars
      <4>2. toSender' \in {toSender \o <<"ACK", "CAN", "CAN">>, Append(toSender, "ACK")}
        BY <2>2 DEF Announce
      <4>3. QED
        BY <4>1, <4>2, Said
    <3>2. QED
      <4>1. buffer' \in Seq(Nat) /\ Len(buffer') <= MaxSize
        BY <1>0, <2>2, BufferTypes DEF Announce
      <4>2. QED
        BY <1>0, <1>2, <1>3, <2>2, <3>1, <4>1 DEF Announce, LineOK, ReceiverOK
  <2>3. CASE EndOfSession /\ toReceiver' = rest
    <3>1. toSender' \in Seq(Chars)
      BY <1>0, <2>3, Said DEF EndOfSession, LineOK
    <3>2. QED
      BY <1>0, <1>2, <1>3, <2>3, <3>1 DEF EndOfSession, LineOK, ReceiverOK
  <2>4. CASE Store(frame.blk) /\ toReceiver' = rest
    <3>1. toSender' \in Seq(Chars)
      <4>1. toSender \in Seq(Chars) /\ "ACK" \in Chars
        BY <1>0 DEF LineOK, Chars
      <4>2. toSender' \in {toSender \o <<"ACK", "CAN", "CAN">>, Append(toSender, "ACK")}
        BY <2>4 DEF Store, Abort
      <4>3. QED
        BY <4>1, <4>2, Said
    <3>2. buffer' \in Seq(Nat) /\ Len(buffer') <= MaxSize
      <4>1. \/ Len(buffer) + 1 < MaxSize /\ buffer' = Append(buffer, frame.blk)
            \/ buffer' = <<>>
        BY <2>4 DEF Store, Abort
      <4>2. QED
        BY <1>0, <1>2, <4>1, BufferTypes
    <3>3. QED
      BY <1>0, <1>2, <1>3, <2>4, <3>1, <3>2 DEF Store, Abort, LineOK, ReceiverOK
  <2>5. QED
    BY <1>1, <2>1, <2>2, <2>3, <2>4
<1>6. numReceivedPackets' \in 0..2
  BY <1>0, <1>1 DEF CountUp, ReceiverOK
<1>7. RunInv' /\ syncAttempt' = 0 /\ canCount' = 0 /\ result' \in -1..MaxSize
  BY <1>1, <1>3, <1>5, EndTypes
<1>8. ReceiverOK'
  BY <1>0, <1>1, <1>3, <1>4, <1>5, <1>6, <1>7 DEF ReceiverOK, CanCountRequired, remote
<1>9. RemoteOK'
  BY <1>0, <1>1 DEF RemoteOK, remote
<1>10. QED
  BY <1>5, <1>7, <1>8, <1>9 DEF TypeOK, ReceiverOK, LineOK, RemoteOK, Chars

LEMMA TypeEot ==
    ASSUME TypeOK, RunInv, EndOfTransmission
    PROVE  TypeOK' /\ RunInv'
<1>0. ReceiverOK /\ LineOK /\ RemoteOK /\ status = {} /\ retries < MaxRetries
  BY TypeParts DEF RunInv, EndOfTransmission
<1>1. PICK start \in StartBytes :
        /\ Running /\ start.byte = "EOT"
        /\ eotReceived' = TRUE
        /\ numReceivedPackets' = CountUp(numReceivedPackets)
        /\ toReceiver' = ReadAway(start.rest)
        /\ UNCHANGED <<lastReceivedBlkNum, expectedBlkNum>>
        /\ \/ IsHeader /\ expectedSize' = 0 /\ toSender' = Append(toSender, "ACK")
                       /\ UNCHANGED <<status, buffer, retries>>
           \/ ~IsHeader /\ EndOfSession
        /\ EndOfPass
        /\ UNCHANGED <<remote, faults>>
  BY DEF EndOfTransmission
<1>2. toReceiver' \in Seq(Frames)
  BY <1>0, <1>1, StartByte, ReadAwayRest
<1>3. toSender' \in Seq(Chars)
  <2>1. toSender \in Seq(Chars) /\ "ACK" \in Chars
    BY <1>0 DEF LineOK, Chars
  <2>2. toSender' \in {toSender \o <<"ACK", "ACK">>, Append(toSender, "ACK")}
    BY <1>1 DEF EndOfSession
  <2>3. QED
    BY <2>1, <2>2, Said
<1>4. /\ MaxSize \in Nat /\ MaxRetries \in Nat \ {0} /\ size \in Nat \ {0} /\ MaxSync \in Nat \ {0}
  BY <1>0, YmodemAssumption DEF RemoteOK
<1>5. /\ status' \in SUBSET {"syncFail", "endOfSession", "abort"}
      /\ expectedSize' \in {0, size} /\ buffer' \in Seq(Nat) /\ Len(buffer') <= MaxSize
      /\ retries' \in 0..MaxRetries
  BY <1>0, <1>1, <1>4 DEF EndOfSession, ReceiverOK
<1>6. RunInv' /\ syncAttempt' = 0 /\ canCount' = 0 /\ result' \in -1..MaxSize
  BY <1>1, <1>4, <1>5, EndTypes
<1>7. numReceivedPackets' \in 0..2
  BY <1>0, <1>1 DEF CountUp, ReceiverOK
<1>8. ReceiverOK'
  BY <1>0, <1>1, <1>4, <1>5, <1>6, <1>7 DEF ReceiverOK, CanCountRequired, remote
<1>9. RemoteOK'
  BY <1>0, <1>1 DEF RemoteOK, remote
<1>10. QED
  BY <1>2, <1>3, <1>6, <1>8, <1>9 DEF TypeOK, ReceiverOK, LineOK, RemoteOK, Chars

LEMMA TypeCancelled ==
    ASSUME TypeOK, RunInv, Cancelled
    PROVE  TypeOK' /\ RunInv'
<1>0. ReceiverOK /\ LineOK /\ RemoteOK
  BY TypeParts
<1>1. PICK start \in StartBytes :
        /\ toReceiver' = start.rest
        /\ Abort({"abort", "syncFail"})
        /\ EndOfPass
        /\ UNCHANGED <<eotReceived, progress, remote, faults>>
  BY DEF Cancelled
<1>2. LineOK'
  BY <1>0, <1>1, StartByte, Said DEF Abort, LineOK
<1>3. buffer' \in Seq(Nat) /\ Len(buffer') <= MaxSize
  BY <1>0, <1>1, BufferTypes DEF Abort
<1>4. MaxSync \in Nat \ {0} /\ expectedSize' \in Nat /\ size' = size
  BY <1>0, <1>1, YmodemAssumption DEF Abort, ReceiverOK, RemoteOK, remote
<1>5. RunInv' /\ syncAttempt' = 0 /\ canCount' = 0 /\ result' \in -1..MaxSize
  BY <1>1, <1>3, <1>4, EndTypes
<1>6. ReceiverOK'
  BY <1>0, <1>1, <1>3, <1>4, <1>5 DEF ReceiverOK, Abort, progress, CanCountRequired
<1>7. RemoteOK'
  BY <1>0, <1>1 DEF RemoteOK, remote
<1>8. QED
  BY <1>2, <1>5, <1>6, <1>7 DEF TypeOK, ReceiverOK, LineOK, RemoteOK, Chars

LEMMA TypeNoStart ==
    ASSUME TypeOK, RunInv, NoStart
    PROVE  TypeOK' /\ RunInv' /\ Rest(toReceiver', toReceiver)
<1>0. ReceiverOK /\ LineOK /\ RemoteOK /\ status = {} /\ retries < MaxRetries
  BY TypeParts DEF RunInv, NoStart
<1> DEFINE said(b) == IF b = "CAN" THEN toSender ELSE Append(toSender, "C")
           again(start) ==
              /\ syncAttempt + 1 < MaxSync
              /\ syncAttempt' = syncAttempt + 1
              /\ canCount' = IF start.byte = "CAN" THEN canCount + 1 ELSE 0
              /\ toReceiver' = start.rest
              /\ toSender' = said(start.byte)
              /\ UNCHANGED <<status, expectedSize, buffer, retries, result>>
           givesUp(start) ==
              /\ status' = {"syncFail"}
              /\ retries' = retries + 1
              /\ toReceiver' = IF numReceivedPackets # 0 THEN ReadAway(start.rest) ELSE start.rest
              /\ toSender' = IF numReceivedPackets # 0 THEN Append(said(start.byte), "NAK")
                             ELSE said(start.byte)
              /\ UNCHANGED <<expectedSize, buffer>>
              /\ EndOfPass
<1>1. PICK start \in StartBytes :
        /\ start.byte = "CAN" => canCount + 1 < CanCountRequired
        /\ faults' \in {faults, faults + 1} /\ faults' <= MaxFaults
        /\ again(start) \/ givesUp(start)
        /\ UNCHANGED <<eotReceived, progress, remote>>
  BY DEF NoStart
<1>2. /\ MaxSize \in Nat /\ MaxRetries \in Nat \ {0} /\ size \in Nat \ {0} /\ MaxSync \in Nat \ {0}
      /\ MaxFaults \in Nat
  BY <1>0, YmodemAssumption DEF RemoteOK
<1>3. /\ toReceiver' \in Seq(Frames) /\ Rest(toReceiver', toReceiver)
  <2>1. /\ start.rest \in Seq(Frames) /\ Rest(start.rest, toReceiver)
        /\ toReceiver \in Seq(Frames)
    BY <1>0, StartByte DEF LineOK
  <2>2. ReadAway(start.rest) \in Seq(Frames) /\ Rest(ReadAway(start.rest), toReceiver)
    BY <2>1, ReadAwayRest, RestTransitive
  <2>3. toReceiver' \in {start.rest, ReadAway(start.rest)}
    BY <1>1
  <2>4. QED
    BY <2>1, <2>2, <2>3
<1>4. toSender' \in Seq(Chars)
  <2>1. toSender \in Seq(Chars) /\ "C" \in Chars /\ "NAK" \in Chars
    BY <1>0 DEF LineOK, Chars
  <2>2. said(start.byte) \in Seq(Chars)
    BY <2>1, Said
  <2>3. toSender' \in {said(start.byte), Append(said(start.byte), "NAK")}
    BY <1>1
  <2> HIDE DEF said
  <2>4. QED
    BY <2>1, <2>2, <2>3, Said
<1>5. RemoteOK'
  BY <1>0, <1>1, <1>2 DEF RemoteOK, remote
<1>6. CASE again(start)
  <2>1. ReceiverOK'
    BY <1>0, <1>1, <1>2, <1>6 DEF ReceiverOK, CanCountRequired, progress, remote
  <2>2. RunInv'
    BY <1>0, <1>6 DEF RunInv
  <2>3. QED
    BY <1>3, <1>4, <1>5, <2>1, <2>2 DEF TypeOK, ReceiverOK, LineOK, RemoteOK, Chars
<1>7. CASE givesUp(start)
  <2>1. /\ buffer' \in Seq(Nat) /\ Len(buffer') <= MaxSize
        /\ expectedSize' \in Nat /\ expectedSize' \in {0, size} /\ retries' \in 0..MaxRetries
    BY <1>0, <1>2, <1>7 DEF ReceiverOK
  <2>2. RunInv' /\ syncAttempt' = 0 /\ canCount' = 0 /\ result' \in -1..MaxSize
    BY <1>7, <2>1, EndTypes
  <2>3. ReceiverOK'
    BY <1>0, <1>1, <1>2, <1>7, <2>1, <2>2 DEF ReceiverOK, CanCountRequired, progress, remote
  <2>4. QED
    BY <1>3, <1>4, <1>5, <2>2, <2>3 DEF TypeOK, ReceiverOK, LineOK, RemoteOK, Chars
<1>8. QED
  BY <1>1, <1>6, <1>7

\* What the sender puts on the line.
LEMMA SenderFrame ==
    ASSUME NEW n \in Nat
    PROVE  /\ Frame(n) \in Frames /\ Frame(n).kind \in {"SOH", "EOT"}
           /\ Frame(n).kind = "SOH" => Frame(n).blk = n
BY FrameTypes DEF Frame

\* Nobody but the receiver changes its state.
LEMMA ReceiverKept ==
    ASSUME ReceiverOK, RunInv, UNCHANGED <<receiver, size>>
    PROVE  ReceiverOK' /\ RunInv'
BY DEF ReceiverOK, RunInv, Running, receiver, progress

LEMMA TypeSenderReads ==
    ASSUME TypeOK, RunInv, SenderReads
    PROVE  TypeOK' /\ RunInv'
<1>0. ReceiverOK /\ LineOK /\ RemoteOK
  BY TypeParts
<1>1. size \in Nat \ {0} /\ MaxFaults \in Nat /\ spos \in Nat
  BY <1>0, YmodemAssumption DEF RemoteOK
<1>2. ReceiverOK' /\ RunInv'
  BY <1>0, ReceiverKept DEF SenderReads
<1>3. RemoteOK' /\ spos' \in Nat
  BY <1>0, <1>1 DEF SenderReads, RemoteOK
<1>4. toReceiver' = toReceiver \/ \E n \in Nat : toReceiver' = Append(toReceiver, Frame(n))
  BY <1>1, <1>3 DEF SenderReads
<1>5. LineOK'
  <2>1. toReceiver' \in Seq(Frames)
    BY <1>0, <1>4, SenderFrame DEF LineOK
  <2>2. toSender' \in Seq(Chars)
    BY <1>0 DEF SenderReads, LineOK
  <2>3. QED
    BY <2>1, <2>2 DEF LineOK
<1>6. QED
  BY <1>2, <1>3, <1>5 DEF TypeOK, ReceiverOK, LineOK, RemoteOK, Chars

\* Time-outs, the user and the line.
LEMMA TypeFaults ==
    ASSUME TypeOK, RunInv, SenderTimesOut \/ UserStops \/ LineFails
    PROVE  TypeOK' /\ RunInv'
<1>0. /\ ReceiverOK /\ LineOK /\ RemoteOK
      /\ toReceiver \in Seq(Frames) /\ toSender \in Seq(Chars)
  BY TypeParts DEF LineOK
<1>1. size \in Nat \ {0} /\ MaxFaults \in Nat /\ spos \in Nat /\ faults \in Nat
  BY <1>0, YmodemAssumption DEF RemoteOK
<1>2. ReceiverOK' /\ RunInv'
  BY <1>0, ReceiverKept DEF SenderTimesOut, UserStops, LineFails, remote
<1>3. RemoteOK'
  BY <1>0, <1>1 DEF SenderTimesOut, UserStops, LineFails, RemoteOK, remote
<1>4. toSender' \in Seq(Chars)
  <2>1. toSender' = toSender \/ (toSender # <<>> /\ toSender' = Tail(toSender))
    BY DEF SenderTimesOut, UserStops, LineFails
  <2>2. QED
    BY <1>0, <2>1
<1>5. toReceiver' \in Seq(Frames)
  <2>1. CASE SenderTimesOut
    BY <1>0, <1>1, <2>1, SenderFrame DEF SenderTimesOut
  <2>2. CASE UserStops
    <3>1. Control("CAN") \in Frames /\ Control("ETX") \in Frames
      BY FrameTypes
    <3>2. \/ toReceiver' = toReceiver \o <<Control("CAN"), Control("CAN")>>
          \/ toReceiver' = Append(toReceiver, Control("ETX"))
      BY <2>2 DEF UserStops
    <3>3. /\ toReceiver \o <<Control("CAN"), Control("CAN")>> \in Seq(Frames)
          /\ Append(toReceiver, Control("ETX")) \in Seq(Frames)
      BY <1>0, <3>1, Concatenation
    <3>4. QED
      BY <3>2, <3>3, Zenon
  <2>3. CASE LineFails
    <3>1. CASE toReceiver = <<>>
      BY <1>0, <2>3, <3>1 DEF LineFails
    <3>2. CASE toReceiver # <<>>
      <4>1. Head(toReceiver).blk \in Nat /\ Tail(toReceiver) \in Seq(Frames)
        BY <1>0, <3>2, FrameTypes
      <4>2. {Damaged(Head(toReceiver).blk), Noise} \subseteq Frames
        BY <4>1, FrameTypes
      <4>3. \/ toReceiver' \in {Tail(toReceiver), toReceiver}
            \/ \E f \in Frames : toReceiver' = <<f>> \o Tail(toReceiver)
        BY <2>3, <4>2 DEF LineFails
      <4>4. QED
        BY <1>0, <4>1, <4>3, Concatenation
    <3>3. QED
      BY <3>1, <3>2
  <2>4. QED
    BY <2>1, <2>2, <2>3
<1>6. QED
  BY <1>2, <1>3, <1>4, <1>5 DEF TypeOK, ReceiverOK, RemoteOK, Chars

LEMMA TypeInit == Init => TypeOK /\ RunInv
<1> SUFFICES ASSUME Init PROVE TypeOK /\ RunInv
  OBVIOUS
<1>1. /\ W \in Nat \ {0, 1} /\ MaxSync \in Nat \ {0} /\ MaxRetries \in Nat \ {0}
      /\ MaxSize \in Nat /\ Sizes \subseteq Nat \ {0} /\ MaxFaults \in Nat
  BY YmodemAssumption
<1>2. eotReceived \in BOOLEAN
  BY Zenon DEF Init
<1>3. buffer \in Seq(Nat) /\ Len(buffer) = 0
  BY Said, Zenon DEF Init
<1>4. toReceiver \in Seq(Frames) /\ toSender \in Seq({"C", "ACK", "NAK", "CAN"})
  BY DEF Init
<1>5. QED
  BY <1>1, <1>2, <1>3, <1>4 DEF Init, TypeOK, RunInv, Running, CanCountRequired

LEMMA TypeNext ==
    ASSUME TypeOK, RunInv, [Next]_vars
    PROVE  TypeOK' /\ RunInv'
<1>1. CASE UNCHANGED vars
  BY <1>1 DEF vars, receiver, progress, remote, TypeOK, RunInv, Running
<1>2. QED
  BY <1>1, TypePacket, TypeEot, TypeCancelled, TypeNoStart, TypeSenderReads, TypeFaults
     DEF Next, Receive

\* The state of XYMODEM_Receive keeps its types: the buffer is never written
\* past its end, retries and attempts stay within their limits, and a result is
\* a size that fits.
THEOREM TypeCorrect == Spec => []TypeOK
BY TypeInit, TypeNext, PTL DEF Spec

-----------------------------------------------------------------------------
(* A transfer that is given up *)

LEMMA AbortNext ==
    ASSUME TypeOK, TypeOK', RunInv, AbortGivesNothing, [Next]_vars
    PROVE  AbortGivesNothing'
<1>0. RunInv'
  BY TypeNext
<1>1. CASE SenderReads \/ SenderTimesOut \/ UserStops \/ LineFails \/ UNCHANGED vars
  <2>1. status' = status /\ result' = result
    BY <1>1 DEF SenderReads, SenderTimesOut, UserStops, LineFails, vars, receiver
  <2>2. QED
    BY <2>1 DEF AbortGivesNothing, Running
<1>2. ASSUME EndOfPass, "abort" \in status' => Len(buffer') = 0 PROVE AbortGivesNothing'
  <2>1. expectedSize' \in Nat /\ buffer' \in Seq(Nat) /\ Len(buffer') <= MaxSize
    <3>1. size' \in Nat
      BY YmodemAssumption DEF TypeOK
    <3>2. expectedSize' \in {0, size'} /\ buffer' \in Seq(Nat) /\ Len(buffer') <= MaxSize
      BY Zenon DEF TypeOK
    <3>3. QED
      BY <3>1, <3>2
  <2>2. Len(buffer') = 0 /\ status' # {} => result' = 0
    BY <1>2, <2>1, EndTypes
  <2>3. QED
    BY <1>2, <2>2 DEF AbortGivesNothing
<1>3. CASE Packet
  <2>1. EndOfPass
    BY <1>3 DEF Packet
  <2>2. status = {}
    BY <1>3 DEF Packet, RunInv
  <2>3. "abort" \in status' => buffer' = <<>>
    BY <1>3, <2>2 DEF Packet, BadPacket, Announce, EndOfSession, Store, Abort
  <2>4. QED
    BY <1>2, <2>1, <2>3
<1>4. CASE EndOfTransmission
  BY <1>2, <1>4 DEF EndOfTransmission, EndOfSession, RunInv
<1>5. CASE Cancelled
  BY <1>2, <1>5 DEF Cancelled, Abort
<1>6. CASE NoStart
  <2>1. CASE result' = result
    BY <1>0, <1>6, <2>1 DEF NoStart, RunInv, AbortGivesNothing, Running
  <2>2. CASE EndOfPass /\ status' = {"syncFail"}
    BY <1>2, <2>2
  <2>3. QED
    BY <1>6, <2>1, <2>2 DEF NoStart
<1>7. QED
  BY <1>1, <1>3, <1>4, <1>5, <1>6 DEF Next, Receive

\* An aborted transfer is reported as nothing received, whoever gave it up and
\* whatever had been stored.
THEOREM AbortCorrect == Spec => []AbortGivesNothing
<1>1. Init => AbortGivesNothing
  BY DEF Init, AbortGivesNothing, Running
<1>2. QED
  BY <1>1, TypeInit, TypeNext, AbortNext, PTL DEF Spec

-----------------------------------------------------------------------------
(* The order of the blocks *)

\* The ACKs on the line, when one more character is said or one is taken.
LEMMA AckAppend ==
    ASSUME NEW s \in Seq(Chars), NEW c \in Chars
    PROVE  /\ c # "ACK" /\ NoAck(s) => NoAck(Append(s, c))
           /\ c # "ACK" /\ OneAck(s) => OneAck(Append(s, c))
           /\ NoAck(s) => OneAck(Append(s, c))
<1> DEFINE t == Append(s, c)
<1>1. /\ Len(t) = Len(s) + 1 /\ t[Len(s) + 1] = c /\ Len(s) \in Nat
      /\ \A i \in 1..Len(s) : t[i] = s[i]
  OBVIOUS
<1>2. \A i \in 1..Len(t) : i \in 1..Len(s) \/ i = Len(s) + 1
  BY <1>1
<1> HIDE DEF t
<1>3. /\ c # "ACK" /\ NoAck(s) => NoAck(t)
      /\ c # "ACK" /\ OneAck(s) => OneAck(t)
      /\ NoAck(s) => OneAck(t)
  BY <1>1, <1>2 DEF NoAck, OneAck
<1>4. QED
  BY <1>3 DEF t

LEMMA AckTail ==
    ASSUME NEW s \in Seq(Chars), s # <<>>
    PROVE  /\ NoAck(s) => NoAck(Tail(s)) /\ Head(s) # "ACK"
           /\ OneAck(s) => OneAck(Tail(s))
           /\ Head(s) = "ACK" /\ OneAck(s) => NoAck(Tail(s))
<1> DEFINE t == Tail(s)
<1>1. /\ Len(s) \in Nat /\ Len(t) = Len(s) - 1 /\ Head(s) = s[1] /\ 1 \in 1..Len(s)
      /\ \A i \in 1..Len(t) : t[i] = s[i + 1]
  OBVIOUS
<1>2. \A i \in 1..Len(t) : i + 1 \in 1..Len(s) /\ i + 1 # 1
  BY <1>1
<1>3. \A i, j \in 1..Len(t) : i + 1 = j + 1 => i = j
  BY <1>1
<1> HIDE DEF t
<1>4. /\ NoAck(s) => NoAck(t) /\ Head(s) # "ACK"
      /\ OneAck(s) => OneAck(t)
      /\ Head(s) = "ACK" /\ OneAck(s) => NoAck(t)
  BY <1>1, <1>2, <1>3 DEF NoAck, OneAck
<1>5. QED
  BY <1>4 DEF t

LEMMA AcceptedType ==
    ASSUME TypeOK
    PROVE  Accepted \in Nat /\ W \in Nat \ {0, 1} /\ spos \in Nat
<1>1. W \in Nat \ {0, 1} /\ expectedBlkNum \in Nat /\ buffer \in Seq(Nat) /\ size \in Nat
  BY YmodemAssumption DEF TypeOK
<1>2. buffer # <<>> => buffer[Len(buffer)] \in Nat
  BY <1>1
<1>3. QED
  BY <1>1, <1>2 DEF Accepted, TypeOK

\* A block whose number is the expected one is the next block of the file: the
\* line holds no other block with the same number modulo W.
LEMMA AcceptedFrame ==
    ASSUME TypeOK, CountInv, WindowInv, toReceiver # <<>>,
           Head(toReceiver).kind \in {"SOH", "noise"}, ValidatePacket(Head(toReceiver))
    PROVE  /\ Head(toReceiver).kind = "SOH"
           /\ Head(toReceiver).blk = Accepted /\ spos = Accepted
           /\ InWindow(Tail(toReceiver), Accepted, spos)
<1> DEFINE f == Head(toReceiver)
           t == Tail(toReceiver)
<1>1. /\ toReceiver \in Seq(Frames) /\ f = toReceiver[1] /\ 1 \in 1..Len(toReceiver)
      /\ t \in Seq(Frames) /\ Len(t) = Len(toReceiver) - 1
      /\ \A i \in 1..Len(t) : t[i] = toReceiver[i + 1] /\ i + 1 \in 1..Len(toReceiver)
  BY DEF TypeOK
<1>2. f \in Frames /\ f.blk \in Nat /\ f.intact /\ f.blk % W = expectedBlkNum
  BY <1>1, FrameTypes DEF ValidatePacket
<1>3. Accepted \in Nat /\ W \in Nat \ {0, 1} /\ spos \in Nat
  BY AcceptedType
<1>4. /\ InWindow(toReceiver, Accepted - 1, spos) /\ spos <= Accepted
      /\ expectedBlkNum = Accepted % W
  BY DEF WindowInv, CountInv
<1>5. f.kind = "SOH"
  BY <1>1, <1>2, <1>4 DEF InWindow
<1>6. Accepted - 1 <= f.blk /\ f.blk <= spos
  BY <1>1, <1>4, <1>5 DEF InWindow
<1>7. f.blk = Accepted
  <2>1. CASE f.blk + 1 = Accepted
    <3>1. (f.blk + 1) % W # f.blk % W
      <4>1. W \in Nat \ {0} /\ W > 1
        BY <1>3
      <4>2. QED
        BY <1>2, <4>1, BlockNumbers, Zenon
    <3>2. QED
      BY <1>2, <1>4, <2>1, <3>1
  <2>2. QED
    BY <1>2, <1>3, <1>4, <1>6, <2>1
<1>8. spos = Accepted
  BY <1>3, <1>4, <1>6, <1>7
<1>9. InWindow(t, Accepted - 1, spos)
  <2>1. Rest(t, toReceiver)
    BY <1>1, RestSelfAndTail
  <2>2. Accepted - 1 \in Int /\ spos \in Int
    BY <1>3
  <2>3. QED
    BY <1>1, <1>4, <2>1, <2>2, WindowRest, Zenon
<1>10. ASSUME NEW i \in 1..Len(t), t[i].kind = "SOH" PROVE Accepted <= t[i].blk
  <2>1. t[i] = toReceiver[i + 1] /\ i + 1 \in 1..Len(toReceiver) /\ 1 < i + 1
    BY <1>1
  <2>2. toReceiver[1].blk <= toReceiver[i + 1].blk
    BY <1>1, <1>4, <1>5, <1>10, <2>1 DEF InWindow
  <2>3. QED
    BY <1>1, <1>7, <2>1, <2>2
<1>11. InWindow(t, Accepted, spos)
  BY <1>9, <1>10 DEF InWindow
<1>12. QED
  BY <1>5, <1>7, <1>8, <1>11

\* The next block goes behind the others.
LEMMA StoredInOrder ==
    ASSUME TypeOK, BlocksInOrder, CountInv, buffer' = Append(buffer, Accepted)
    PROVE  BlocksInOrder' /\ buffer' # <<>> /\ buffer'[Len(buffer')] + 1 = Accepted + 1
<1>1. buffer \in Seq(Nat) /\ Len(buffer) \in Nat /\ Accepted \in Nat
  BY AcceptedType DEF TypeOK
<1>2. /\ Len(buffer') = Len(buffer) + 1 /\ buffer'[Len(buffer) + 1] = Accepted
      /\ \A i \in 1..Len(buffer) : buffer'[i] = buffer[i]
  BY <1>1
<1>3. CASE buffer = <<>>
  <2>1. Len(buffer) = 0 /\ Accepted \in {0, 1}
    BY <1>3 DEF CountInv, Accepted
  <2>2. QED
    BY <1>1, <1>2, <2>1 DEF BlocksInOrder
<1>4. CASE buffer # <<>>
  <2>1. Len(buffer) > 0 /\ Accepted = buffer[Len(buffer)] + 1
    BY <1>1, <1>4 DEF Accepted
  <2>2. ASSUME NEW i \in 1..Len(buffer') - 1 PROVE buffer'[i + 1] = buffer'[i] + 1
    <3>1. CASE i = Len(buffer)
      BY <1>2, <2>1, <3>1
    <3>2. CASE i \in 1..Len(buffer) - 1
      BY <1>1, <1>2, <3>2 DEF BlocksInOrder
    <3>3. QED
      BY <1>1, <1>2, <3>1, <3>2
  <2>3. buffer'[1] \in {0, 1}
    BY <1>1, <1>2, <1>4, <2>1 DEF BlocksInOrder
  <2>4. QED
    BY <1>1, <1>2, <2>2, <2>3 DEF BlocksInOrder
<1>5. QED
  BY <1>3, <1>4

\* With a flag set the receiver has returned.
LEMMA EndStops ==
    ASSUME EndOfPass, TypeOK', status' # {}
    PROVE  ~Running'
<1>1. size' \in Nat
  BY YmodemAssumption DEF TypeOK
<1>2. expectedSize' \in {0, size'} /\ buffer' \in Seq(Nat)
  BY Zenon DEF TypeOK
<1>3. expectedSize' \in Nat /\ Len(buffer') \in Nat
  BY <1>1, <1>2
<1>4. QED
  BY <1>3 DEF EndOfPass, Running

\* The receiver has ended with nothing, or with what it had.
LEMMA OrderEnded ==
    ASSUME OrderInv, ~Running', buffer' \in {buffer, <<>>}
    PROVE  OrderInv'
<1>1. CASE buffer' = buffer
  BY <1>1 DEF OrderInv, BlocksInOrder
<1>2. CASE buffer' = <<>>
  <2>1. Len(buffer') = 0
    BY <1>2, Said, Zenon
  <2>2. QED
    BY <1>2, <2>1 DEF OrderInv, BlocksInOrder
<1>3. QED
  BY <1>1, <1>2

\* Nothing was accepted: the receiver at most read something away and said
\* something that is no ACK.
LEMMA OrderKept ==
    ASSUME TypeOK, OrderInv, Running, ~eotReceived,
           toReceiver' \in Seq(Frames), Rest(toReceiver', toReceiver),
           \/ toSender' = toSender
           \/ \E c \in {"C", "NAK"} : toSender' = Append(toSender, c)
           \/ toSender' = Append(Append(toSender, "C"), "NAK"),
           numReceivedPackets' = 0 => numReceivedPackets = 0,
           UNCHANGED <<buffer, expectedBlkNum, eotReceived, spos, sender>>
    PROVE  OrderInv'
<1>1. CountInv /\ WindowInv /\ BlocksInOrder
  BY DEF OrderInv
<1>2. Accepted' = Accepted
  BY DEF Accepted
<1>3. CountInv' /\ BlocksInOrder'
  BY <1>1, <1>2 DEF CountInv, BlocksInOrder
<1>4. InWindow(toReceiver', Accepted - 1, spos)
  <2>1. Accepted - 1 \in Int /\ spos \in Int /\ toReceiver \in Seq(Frames)
    BY AcceptedType DEF TypeOK
  <2>2. QED
    BY <1>1, <2>1, WindowRest DEF WindowInv
<1>5. OneAck(toSender') /\ (NoAck(toSender) => NoAck(toSender'))
  <2>1. /\ toSender \in Seq(Chars) /\ {"C", "NAK"} \subseteq Chars /\ OneAck(toSender)
        /\ Append(toSender, "C") \in Seq(Chars)
    BY <1>1, Said DEF TypeOK, WindowInv, Chars
  <2>2. CASE toSender' = toSender
    BY <2>1, <2>2
  <2>3. ASSUME NEW c \in {"C", "NAK"}, toSender' = Append(toSender, c)
        PROVE  OneAck(toSender') /\ (NoAck(toSender) => NoAck(toSender'))
    BY <2>1, <2>3, AckAppend
  <2>4. CASE toSender' = Append(Append(toSender, "C"), "NAK")
    <3>1. /\ OneAck(Append(toSender, "C"))
          /\ NoAck(toSender) => NoAck(Append(toSender, "C"))
      BY <2>1, AckAppend
    <3>2. QED
      BY <2>1, <2>4, <3>1, AckAppend
  <2>5. QED
    BY <2>2, <2>3, <2>4
<1>6. WindowInv'
  BY <1>1, <1>2, <1>4, <1>5 DEF WindowInv
<1>7. QED
  BY <1>3, <1>6 DEF OrderInv

LEMMA OrderPacket ==
    ASSUME TypeOK, RunInv, OrderInv, Packet
    PROVE  OrderInv'
<1>0. TypeOK' /\ Running /\ LineOK /\ CountInv /\ BlocksInOrder
  BY TypePacket, TypeParts DEF Packet, OrderInv
<1>1. PICK start \in StartBytes :
        LET frame == Head(toReceiver)
            rest == start.rest
            good == eotReceived \/ ValidatePacket(frame)
        IN  /\ start.byte = "SOH"
            /\ numReceivedPackets' = CountUp(numReceivedPackets)
            /\ lastReceivedBlkNum' = IF good /\ ~eotReceived THEN frame.blk % W
                                     ELSE lastReceivedBlkNum
            /\ expectedBlkNum' = IF good /\ ~eotReceived THEN (expectedBlkNum + 1) % W
                                 ELSE expectedBlkNum
            /\ \/ ~good /\ BadPacket(rest) /\ UNCHANGED status
               \/ good /\ IsHeader /\ Announce /\ toReceiver' = rest
               \/ good /\ ~IsHeader /\ eotReceived /\ EndOfSession /\ toReceiver' = rest
               \/ good /\ ~IsHeader /\ ~eotReceived /\ Store(frame.blk) /\ toReceiver' = rest
            /\ EndOfPass
            /\ UNCHANGED <<eotReceived, remote, faults>>
  BY DEF Packet
<1> DEFINE frame == Head(toReceiver)
           rest == start.rest
<1>2. /\ rest \in Seq(Frames) /\ Rest(rest, toReceiver) /\ toReceiver # <<>>
      /\ frame.kind \in {"SOH", "noise"}
      /\ frame.kind = "SOH" => rest = Tail(toReceiver)
  BY <1>0, <1>1, StartByte
<1>3. numReceivedPackets' # 0 /\ (numReceivedPackets # 0 => numReceivedPackets' # 1)
  BY <1>1 DEF CountUp, TypeOK
<1>4. UNCHANGED <<eotReceived, spos, sender>>
  BY <1>1 DEF remote
<1>5. CASE eotReceived
  <2>1. numReceivedPackets # 0
    BY <1>0, <1>5 DEF CountInv
  <2>2. ~IsHeader
    BY <1>3, <2>1 DEF IsHeader
  <2>3. EndOfSession /\ EndOfPass
    BY <1>1, <1>5, <2>2
  <2>4. ~Running' /\ buffer' = buffer
    BY <1>0, <2>3, EndStops DEF EndOfSession
  <2>5. QED
    BY <2>4, OrderEnded
<1>6. CASE ~eotReceived /\ ~ValidatePacket(frame)
  <2>1. BadPacket(rest) /\ expectedBlkNum' = expectedBlkNum
    BY <1>1, <1>6
  <2>2. toReceiver' \in Seq(Frames) /\ Rest(toReceiver', toReceiver)
    BY <1>0, <1>2, <2>1, BadPacketLine DEF LineOK
  <2>3. toSender' = toSender \/ toSender' = Append(toSender, "NAK")
    BY <2>1 DEF BadPacket
  <2>4. buffer' = buffer
    BY <2>1 DEF BadPacket
  <2>5. QED
    BY <1>0, <1>3, <1>4, <1>6, <2>1, <2>2, <2>3, <2>4, OrderKept
<1>7. CASE ~eotReceived /\ ValidatePacket(frame)
  <2>1. /\ frame.kind = "SOH" /\ frame.blk = Accepted /\ spos = Accepted
        /\ InWindow(Tail(toReceiver), Accepted, spos)
        /\ WindowInv
    <3>1. WindowInv
      BY <1>0, <1>7 DEF OrderInv
    <3>2. QED
      BY <1>0, <1>2, <1>7, <3>1, AcceptedFrame
  <2>2. /\ expectedBlkNum' = (expectedBlkNum + 1) % W
        /\ lastReceivedBlkNum' = Accepted % W
        /\ toReceiver' = Tail(toReceiver)
        /\ (IsHeader /\ Announce) \/ Store(Accepted)
    BY <1>1, <1>2, <1>7, <2>1
  <2>3. Accepted \in Nat /\ W \in Nat \ {0, 1}
    BY AcceptedType
  <2>4. expectedBlkNum' = (Accepted + 1) % W
    <3>1. expectedBlkNum = Accepted % W
      BY <1>0 DEF CountInv
    <3>2. QED
      BY <2>2, <2>3, <3>1, BlockNumbers
  <2>5. ASSUME Accepted' = Accepted + 1, toSender' = Append(toSender, "ACK"), BlocksInOrder',
               buffer' = <<>> => expectedBlkNum' \in {0, 1}
        PROVE  OrderInv'
    <3>1. CountInv'
      BY <1>3, <2>4, <2>5 DEF CountInv
    <3>2. OneAck(toSender')
      <4>1. NoAck(toSender) /\ toSender \in Seq(Chars) /\ "ACK" \in Chars
        BY <1>0, <2>1 DEF WindowInv, LineOK, Chars
      <4>2. QED
        BY <2>5, <4>1, AckAppend
    <3>3. /\ spos' # Accepted' /\ spos' <= Accepted' /\ Accepted' <= spos' + 1
          /\ Accepted' - 1 = Accepted
      BY <1>4, <2>1, <2>3, <2>5
    <3>4. InWindow(toReceiver', Accepted' - 1, spos')
      BY <1>4, <2>1, <2>2, <3>3
    <3>5. sender' # "waitC"
      BY <1>4, <2>1, <2>3 DEF WindowInv
    <3>6. sender' = "idle" => spos' = 0
      BY <1>4, <2>1 DEF WindowInv
    <3>7. WindowInv'
      BY <3>2, <3>3, <3>4, <3>5, <3>6 DEF WindowInv
    <3>8. QED
      BY <2>5, <3>1, <3>7 DEF OrderInv
  <2>6. CASE IsHeader /\ Announce
    <3>1. CASE status' = {"abort"} /\ buffer' = <<>>
      <4>1. ~Running'
        BY <1>0, <1>1, <3>1, EndStops
      <4>2. QED
        BY <3>1, <4>1, OrderEnded
    <3>2. CASE toSender' = Append(toSender, "ACK") /\ buffer' = buffer
      <4>1. numReceivedPackets = 0
        BY <1>3, <2>6 DEF IsHeader
      <4>2. buffer = <<>> /\ Accepted = 0
        BY <1>0, <4>1 DEF CountInv, Accepted
      <4>3. expectedBlkNum' = 1
        <5>1. 1 \in 0..W - 1 /\ W \in Nat \ {0}
          BY <2>3
        <5>2. 1 % W = 1
          BY <5>1, SmallNumbers
        <5>3. QED
          BY <2>4, <4>2, <5>2
      <4>4. Accepted' = Accepted + 1
        BY <3>2, <4>2, <4>3 DEF Accepted
      <4>5. BlocksInOrder'
        BY <1>0, <3>2 DEF BlocksInOrder
      <4>6. QED
        BY <2>5, <3>2, <4>3, <4>4, <4>5
    <3>3. QED
      BY <2>6, <3>1, <3>2 DEF Announce
  <2>7. CASE Store(Accepted)
    <3>1. CASE Abort({"abort"})
      <4>1. status' # {} /\ buffer' = <<>>
        BY <3>1 DEF Abort
      <4>2. ~Running'
        BY <1>0, <1>1, <4>1, EndStops
      <4>3. QED
        BY <4>1, <4>2, OrderEnded
    <3>2. CASE buffer' = Append(buffer, Accepted) /\ toSender' = Append(toSender, "ACK")
      <4>1. BlocksInOrder' /\ buffer' # <<>> /\ buffer'[Len(buffer')] + 1 = Accepted + 1
        BY <1>0, <3>2, StoredInOrder
      <4>2. Accepted' = Accepted + 1
        BY <4>1 DEF Accepted
      <4>3. QED
        BY <2>5, <3>2, <4>1, <4>2
    <3>3. QED
      BY <2>7, <3>1, <3>2 DEF Store
  <2>8. QED
    BY <2>2, <2>6, <2>7
<1>8. QED
  BY <1>5, <1>6, <1>7

\* EOT, CTRL-C and CAN, and a byte that starts nothing.
LEMMA OrderOtherBytes ==
    ASSUME TypeOK, RunInv, OrderInv, EndOfTransmission \/ Cancelled \/ NoStart
    PROVE  OrderInv'
<1>0. TypeOK' /\ Running
  BY TypeEot, TypeCancelled, TypeNoStart DEF EndOfTransmission, Cancelled, NoStart
<1>1. CASE EndOfTransmission
  <2>1. EndOfPass /\ UNCHANGED <<expectedBlkNum, buffer>> /\ eotReceived'
        /\ numReceivedPackets' = CountUp(numReceivedPackets)
    BY <1>1 DEF EndOfTransmission, EndOfSession
  <2>2. numReceivedPackets' # 0 /\ Accepted' = Accepted
    BY <2>1 DEF CountUp, TypeOK, Accepted
  <2>3. QED
    BY <1>0, <2>1, <2>2 DEF OrderInv, CountInv, BlocksInOrder
<1>2. CASE Cancelled
  <2>1. EndOfPass /\ status' # {} /\ buffer' = <<>>
    BY <1>2 DEF Cancelled, Abort
  <2>2. QED
    BY <1>0, <2>1, EndStops, OrderEnded
<1>3. CASE NoStart
  <2>1. UNCHANGED <<buffer, expectedBlkNum, eotReceived, numReceivedPackets, spos, sender>>
    BY <1>3 DEF NoStart, progress, remote
  <2>2. CASE eotReceived
    <3>1. Accepted' = Accepted
      BY <2>1 DEF Accepted
    <3>2. QED
      BY <1>0, <2>1, <2>2, <3>1 DEF OrderInv, CountInv, BlocksInOrder
  <2>3. CASE ~eotReceived
    <3>1. Rest(toReceiver', toReceiver) /\ toReceiver' \in Seq(Frames)
      BY <1>0, <1>3, TypeNoStart DEF TypeOK
    <3>2. \/ toSender' = toSender
          \/ \E c \in {"C", "NAK"} : toSender' = Append(toSender, c)
          \/ toSender' = Append(Append(toSender, "C"), "NAK")
      BY <1>3 DEF NoStart
    <3>3. QED
      BY <1>0, <2>1, <2>3, <3>1, <3>2, OrderKept
  <2>4. QED
    BY <2>2, <2>3
<1>4. QED
  BY <1>1, <1>2, <1>3

\* Damage at the head of the line.
LEMMA WindowDamaged ==
    ASSUME NEW q \in Seq(Frames), q # <<>>, NEW lo \in Int, NEW hi \in Int, InWindow(q, lo, hi),
           Head(q).kind = "SOH", NEW f \in {Damaged(Head(q).blk), Noise}
    PROVE  InWindow(<<f>> \o Tail(q), lo, hi)
<1> DEFINE r == <<f>> \o Tail(q)
<1>1. /\ Len(r) = Len(q) /\ r[1] = f /\ Head(q) = q[1] /\ 1 \in 1..Len(q) /\ Head(q) \in Frames
      /\ \A i \in 1..Len(r) : i # 1 => r[i] = q[i]
  OBVIOUS
<1> HIDE DEF r
<1>2. f.kind = "noise" => ~f.intact
  <2>1. Head(q).blk \in Nat
    BY <1>1, FrameTypes
  <2>2. Damaged(Head(q).blk).kind # "noise"
    BY <2>1, FrameTypes
  <2>3. Noise.intact = FALSE
    BY FrameTypes
  <2>4. QED
    BY <2>2, <2>3, Zenon
<1>3. f.kind = "SOH" => f.blk = q[1].blk
  <2>1. Head(q).blk \in Nat
    BY <1>1, FrameTypes
  <2>2. Damaged(Head(q).blk).blk = Head(q).blk /\ Noise.kind # "SOH"
    BY <2>1, FrameTypes
  <2>3. QED
    BY <1>1, <2>2
<1>4. \A i \in 1..Len(r) : /\ r[i].kind = "noise" => ~r[i].intact
                           /\ r[i].kind = "SOH" => q[i].kind = "SOH" /\ r[i].blk = q[i].blk
  BY <1>1, <1>2, <1>3 DEF InWindow
<1>5. InWindow(r, lo, hi)
  BY <1>1, <1>4 DEF InWindow
<1>6. QED
  BY <1>5 DEF r

\* The receiver has nothing to do with a step.
LEMMA OrderSent ==
    ASSUME TypeOK, OrderInv, UNCHANGED receiver, Running /\ ~eotReceived => WindowInv'
    PROVE  OrderInv' /\ Accepted' = Accepted
<1>1. Accepted' = Accepted /\ Running' = Running
  BY DEF receiver, progress, Accepted, Running
<1>2. QED
  BY <1>1 DEF OrderInv, CountInv, BlocksInOrder, receiver, progress

\* The sender goes on to the next block only on an ACK, of which there is one
\* for each accepted block.
LEMMA OrderSenderReads ==
    ASSUME TypeOK, RunInv, OrderInv, SenderReads
    PROVE  OrderInv'
<1>0. UNCHANGED receiver
  BY DEF SenderReads
<1>1. ASSUME Running, ~eotReceived PROVE WindowInv'
  <2> DEFINE c == Head(toSender)
  <2>1. WindowInv /\ toSender # <<>> /\ toSender' = Tail(toSender)
    BY <1>1 DEF OrderInv, SenderReads
  <2>2. /\ toSender \in Seq(Chars) /\ toReceiver \in Seq(Frames)
        /\ Accepted \in Nat /\ spos \in Nat /\ Accepted' = Accepted
    BY <1>0, AcceptedType DEF TypeOK, Chars, Accepted, receiver, progress
  <2>3. /\ OneAck(toSender) => OneAck(toSender')
        /\ NoAck(toSender) => NoAck(toSender') /\ c # "ACK"
        /\ c = "ACK" /\ OneAck(toSender) => NoAck(toSender')
    BY <2>1, <2>2, AckTail
  <2>4. ASSUME NEW n \in Nat, spos <= n, Accepted - 1 <= n
        PROVE  InWindow(Append(toReceiver, Frame(n)), Accepted - 1, n)
    <3>1. /\ Frame(n) \in Frames /\ Frame(n).kind # "noise"
          /\ Frame(n).kind = "SOH" => Frame(n).blk = n
      BY SenderFrame
    <3>2. InWindow(toReceiver, Accepted - 1, spos) /\ Accepted - 1 \in Int
      BY <2>1, <2>2 DEF WindowInv
    <3>3. QED
      BY <2>2, <2>4, <3>1, <3>2, WindowAppend
  <2>5. CASE /\ c = "C" /\ sender \in {"idle", "waitC"}
             /\ spos' = IF sender = "idle" THEN 0 ELSE 1
             /\ sender' = "wait"
             /\ toReceiver' = Append(toReceiver, Frame(spos'))
    <3>1. CASE sender = "idle"
      <4>1. spos' = spos /\ spos = 0 /\ Accepted <= 1
        BY <2>1, <2>5, <3>1 DEF WindowInv
      <4>2. InWindow(toReceiver', Accepted - 1, spos')
        BY <2>2, <2>4, <2>5, <4>1
      <4>3. QED
        BY <2>1, <2>2, <2>3, <2>5, <4>1, <4>2 DEF WindowInv
    <3>2. CASE sender = "waitC"
      <4>1. spos' = 1 /\ spos = 0 /\ Accepted = 1 /\ NoAck(toSender)
        BY <2>1, <2>5, <3>2 DEF WindowInv
      <4>2. InWindow(toReceiver', Accepted - 1, spos')
        BY <2>2, <2>4, <2>5, <4>1
      <4>3. QED
        BY <2>1, <2>2, <2>3, <2>5, <4>1, <4>2 DEF WindowInv
    <3>3. QED
      BY <2>5, <3>1, <3>2
  <2>6. CASE c = "ACK" /\ sender = "wait" /\ spos = 0 /\ sender' = "waitC"
             /\ UNCHANGED <<spos, toReceiver>>
    <3>1. Accepted = 1 /\ NoAck(toSender')
      BY <2>1, <2>2, <2>3, <2>6 DEF WindowInv
    <3>2. QED
      BY <2>1, <2>2, <2>3, <2>6, <3>1 DEF WindowInv
  <2>7. CASE /\ c = "ACK" /\ sender = "wait" /\ spos' = spos + 1 /\ sender' = sender
             /\ toReceiver' = Append(toReceiver, Frame(spos'))
    <3>1. Accepted = spos' /\ NoAck(toSender') /\ OneAck(toSender')
      BY <2>1, <2>2, <2>3, <2>7 DEF WindowInv
    <3>2. InWindow(toReceiver', Accepted - 1, spos')
      BY <2>2, <2>4, <2>7, <3>1
    <3>3. QED
      BY <2>1, <2>2, <2>7, <3>1, <3>2 DEF WindowInv
  <2>8. CASE /\ sender = "wait" /\ toReceiver' = Append(toReceiver, Frame(spos))
             /\ UNCHANGED <<spos, sender>>
    <3>1. InWindow(toReceiver', Accepted - 1, spos')
      BY <2>1, <2>2, <2>4, <2>8 DEF WindowInv
    <3>2. QED
      BY <2>1, <2>2, <2>3, <2>8, <3>1 DEF WindowInv
  <2>9. CASE UNCHANGED <<spos, sender, toReceiver>>
    BY <2>1, <2>2, <2>3, <2>9 DEF WindowInv
  <2>10. QED
    BY <2>5, <2>6, <2>7, <2>8, <2>9 DEF SenderReads
<1>2. QED
  BY <1>0, <1>1, OrderSent

\* Nothing that goes wrong on the line brings a block into it that is not the
\* one the sender is at.
LEMMA OrderFaults ==
    ASSUME TypeOK, RunInv, OrderInv, SenderTimesOut \/ UserStops \/ LineFails
    PROVE  OrderInv'
<1>0. UNCHANGED <<receiver, spos>>
  BY DEF SenderTimesOut, UserStops, LineFails, remote
<1>1. ASSUME Running, ~eotReceived PROVE WindowInv'
  <2>1. WindowInv
    BY <1>1 DEF OrderInv
  <2>2. /\ toSender \in Seq(Chars) /\ toReceiver \in Seq(Frames)
        /\ Accepted \in Nat /\ spos \in Nat /\ Accepted' = Accepted /\ Accepted - 1 \in Int
        /\ InWindow(toReceiver, Accepted - 1, spos) /\ Accepted - 1 <= spos
        /\ spos <= spos /\ spos \in Int
    <3>1. Accepted' = Accepted
      BY <1>0 DEF Accepted, receiver, progress
    <3>2. toSender \in Seq(Chars) /\ toReceiver \in Seq(Frames)
      BY DEF TypeOK, Chars
    <3>3. Accepted \in Nat /\ spos \in Nat
      BY AcceptedType
    <3>4. InWindow(toReceiver, Accepted - 1, spos) /\ Accepted <= spos + 1
      BY <2>1 DEF WindowInv
    <3>5. QED
      BY <3>1, <3>2, <3>3, <3>4
  <2>3. ASSUME InWindow(toReceiver', Accepted - 1, spos), toSender' = toSender,
               sender' \in {sender, "stop"}
        PROVE  WindowInv'
    BY <1>0, <2>1, <2>2, <2>3 DEF WindowInv
  <2>4. CASE SenderTimesOut
    <3>1. /\ Frame(spos) \in Frames /\ Frame(spos).kind # "noise"
          /\ Frame(spos).kind = "SOH" => Frame(spos).blk = spos
      BY <2>2, SenderFrame
    <3>2. InWindow(Append(toReceiver, Frame(spos)), Accepted - 1, spos)
      BY <2>2, <3>1, WindowAppend
    <3>3. QED
      BY <2>3, <2>4, <3>2 DEF SenderTimesOut, remote
  <2>5. CASE UserStops
    <3>1. \A k \in {"CAN", "ETX"} : /\ Control(k) \in Frames
                                    /\ Control(k).kind \notin {"SOH", "noise"}
      BY FrameTypes
    <3>2. /\ InWindow(Append(toReceiver, Control("CAN")), Accepted - 1, spos)
          /\ Append(toReceiver, Control("CAN")) \in Seq(Frames)
          /\ InWindow(Append(toReceiver, Control("ETX")), Accepted - 1, spos)
      BY <2>2, <3>1, WindowAppend
    <3>3. InWindow(Append(Append(toReceiver, Control("CAN")), Control("CAN")), Accepted - 1, spos)
      <4> DEFINE q == Append(toReceiver, Control("CAN"))
      <4>1. q \in Seq(Frames) /\ InWindow(q, Accepted - 1, spos)
        BY <3>2
      <4> HIDE DEF q
      <4>2. InWindow(Append(q, Control("CAN")), Accepted - 1, spos)
        BY <2>2, <3>1, <4>1, WindowAppend
      <4>3. QED
        BY <4>2 DEF q
    <3>4. toReceiver \o <<Control("CAN"), Control("CAN")>>
            = Append(Append(toReceiver, Control("CAN")), Control("CAN"))
      BY <2>2, <3>1
    <3>5. QED
      BY <2>3, <2>5, <3>2, <3>3, <3>4 DEF UserStops
  <2>6. CASE LineFails
    <3>1. CASE toReceiver # <<>> /\ toReceiver' = Tail(toReceiver) /\ UNCHANGED toSender
      <4>1. InWindow(Tail(toReceiver), Accepted - 1, spos)
        <5>1. Tail(toReceiver) \in Seq(Frames) /\ Rest(Tail(toReceiver), toReceiver)
          BY <2>2, <3>1, RestSelfAndTail
        <5>2. QED
          BY <2>2, <5>1, WindowRest, Zenon
      <4>2. QED
        BY <2>3, <2>6, <3>1, <4>1 DEF LineFails, remote
    <3>2. ASSUME toReceiver # <<>>, Head(toReceiver).kind = "SOH", UNCHANGED toSender,
                 NEW f \in {Damaged(Head(toReceiver).blk), Noise},
                 toReceiver' = <<f>> \o Tail(toReceiver)
          PROVE  WindowInv'
      <4>1. InWindow(<<f>> \o Tail(toReceiver), Accepted - 1, spos)
        BY <2>2, <3>2, WindowDamaged, Zenon
      <4>2. QED
        BY <2>3, <2>6, <3>2, <4>1 DEF LineFails, remote
    <3>3. CASE toSender # <<>> /\ toSender' = Tail(toSender) /\ UNCHANGED toReceiver
      <4>1. /\ OneAck(toSender) => OneAck(toSender')
            /\ NoAck(toSender) => NoAck(toSender')
        BY <2>2, <3>3, AckTail
      <4>2. sender' = sender
        BY <2>6 DEF LineFails, remote
      <4>3. QED
        BY <1>0, <2>1, <2>2, <3>3, <4>1, <4>2 DEF WindowInv
    <3>4. QED
      BY <2>6, <3>1, <3>2, <3>3 DEF LineFails
  <2>7. QED
    BY <2>4, <2>5, <2>6
<1>2. QED
  BY <1>0, <1>1, OrderSent

LEMMA OrderInit == Init => OrderInv
<1> SUFFICES ASSUME Init PROVE OrderInv
  OBVIOUS
<1>1. /\ W \in Nat \ {0, 1} /\ buffer = <<>> /\ Len(buffer) = 0 /\ Accepted = 0
      /\ Len(toReceiver) = 0 /\ toSender = <<"C">>
  BY YmodemAssumption DEF Init, Accepted
<1>2. 0 % W = 0
  <2>1. 0 \in 0..W - 1 /\ W \in Nat \ {0}
    BY <1>1
  <2>2. QED
    BY <2>1, SmallNumbers
<1>3. NoAck(toSender) /\ OneAck(toSender)
  BY <1>1 DEF NoAck, OneAck
<1>4. CountInv
  BY <1>1, <1>2 DEF Init, CountInv
<1>5. WindowInv
  BY <1>1, <1>3 DEF Init, WindowInv, InWindow
<1>6. QED
  BY <1>1, <1>4, <1>5 DEF OrderInv, BlocksInOrder

LEMMA OrderNext ==
    ASSUME TypeOK, RunInv, OrderInv, [Next]_vars
    PROVE  OrderInv'
<1>1. CASE UNCHANGED vars
  <2>1. Accepted' = Accepted
    BY <1>1 DEF vars, receiver, progress, Accepted
  <2>2. QED
    BY <1>1, <2>1 DEF vars, receiver, progress, remote, OrderInv, CountInv, WindowInv, BlocksInOrder,
                      Running
<1>2. QED
  BY <1>1, OrderPacket, OrderOtherBytes, OrderSenderReads, OrderFaults DEF Next, Receive

\* Whatever the line loses, damages, delays or repeats, the blocks in the buffer
\* are consecutive blocks of the file, from the first (or from the header) on.
\* Block numbers modulo W are enough for that, because the receiver answers a
\* repeated block with NAK: the sender is never more than one block behind.
THEOREM BlocksCorrect == Spec => []BlocksInOrder
<1>1. OrderInv => BlocksInOrder
  BY DEF OrderInv
<1>2. QED
  BY <1>1, TypeInit, TypeNext, OrderInit, OrderNext, PTL DEF Spec

-----------------------------------------------------------------------------
(* A clean line *)

\* The first n blocks.
LEMMA FirstBlocks ==
    ASSUME NEW n \in Nat
    PROVE  /\ [i \in 1..n |-> i] \in Seq(Nat) /\ Len([i \in 1..n |-> i]) = n
           /\ Append([i \in 1..n |-> i], n + 1) = [i \in 1..n + 1 |-> i]
           /\ [i \in 1..0 |-> i] = <<>>
<1>1. [i \in 1..n |-> i] \in Seq(Nat) /\ Len([i \in 1..n |-> i]) = n
  OBVIOUS
<1>2. Append([i \in 1..n |-> i], n + 1) = [i \in 1..n + 1 |-> i]
  BY <1>1
<1>3. [i \in 1..0 |-> i] = <<>>
  OBVIOUS
<1>4. QED
  BY <1>1, <1>2, <1>3

\* What is at the head of a clean line.
LEMMA CleanHead ==
    ASSUME TypeOK, CleanPhase
    PROVE  \/ toReceiver = <<>>
           \/ HeaderSent /\ Head(toReceiver) = Block(0) /\ Tail(toReceiver) = <<>>
           \/ BlockSent /\ spos <= size /\ Head(toReceiver) = Block(spos) /\ Tail(toReceiver) = <<>>
           \/ BlockSent /\ spos = size + 1 /\ Head(toReceiver) = Control("EOT")
<1>1. size \in Nat
  BY YmodemAssumption DEF TypeOK
<1>2. CASE BlockSent
  BY <1>1, <1>2 DEF BlockSent, Frame
<1>3. CASE HeaderSent
  BY <1>3 DEF HeaderSent
<1>4. QED
  BY <1>2, <1>3 DEF CleanPhase, Ready, HeaderAcked, Waiting, Asked, BlockAcked

LEMMA CleanSenderReads ==
    ASSUME TypeOK, CleanInv, SenderReads, faults = 0, size < MaxSize
    PROVE  CleanInv'
<1>1. /\ size \in Nat \ {0} /\ Running /\ CleanPhase
  BY YmodemAssumption DEF TypeOK, SenderReads, CleanInv
<1>2. CleanPhase'
  <2>1. toSender # <<>>
    BY DEF SenderReads
  <2>2. CASE Ready
    <3>1. /\ sender' = "wait" /\ spos' = 0 /\ toSender' = <<>> /\ toReceiver' = <<Frame(0)>>
      BY <2>2 DEF Ready, SenderReads
    <3>2. Frame(0) = Block(0)
      BY <1>1 DEF Frame
    <3>3. QED
      BY <2>2, <3>1, <3>2 DEF Ready, SenderReads, receiver, progress, CleanPhase, HeaderSent
  <2>3. CASE HeaderAcked
    <3>1. sender' = "waitC" /\ toSender' = <<>> /\ toReceiver' = <<>>
      BY <1>1, <2>3 DEF HeaderAcked, SenderReads
    <3>2. QED
      BY <2>3, <3>1 DEF HeaderAcked, SenderReads, receiver, progress, CleanPhase, Waiting, Stored
  <2>4. CASE Asked
    <3>1. /\ sender' = "wait" /\ spos' = 1 /\ toSender' = <<>> /\ toReceiver' = <<Frame(1)>>
          /\ size' = size
      BY <2>4 DEF Asked, SenderReads
    <3>2. Frame(spos)' = Frame(1) /\ spos' \in 1..size' + 1 /\ spos' - 1 = 0
      BY <1>1, <3>1 DEF Frame, Block, Control
    <3>3. Stored(spos - 1)'
      BY <2>4, <3>2 DEF Asked, SenderReads, receiver, progress, Stored
    <3>4. QED
      BY <2>4, <3>1, <3>2, <3>3 DEF Asked, SenderReads, receiver, progress, CleanPhase, BlockSent
  <2>5. CASE BlockAcked
    <3>1. /\ sender' = "wait" /\ spos' = spos + 1 /\ toSender' = <<>>
          /\ toReceiver' = <<Frame(spos')>> /\ size' = size
      BY <1>1, <2>5 DEF BlockAcked, SenderReads
    <3>2. Frame(spos)' = Frame(spos') /\ spos' \in 1..size' + 1 /\ spos' - 1 = spos
      BY <1>1, <2>5, <3>1 DEF BlockAcked, Frame, Block, Control
    <3>3. Stored(spos - 1)'
      BY <2>5, <3>2 DEF BlockAcked, SenderReads, receiver, progress, Stored
    <3>4. QED
      BY <2>5, <3>1, <3>2, <3>3
         DEF BlockAcked, SenderReads, receiver, progress, CleanPhase, BlockSent
  <2>6. QED
    BY <1>1, <2>1, <2>2, <2>3, <2>4, <2>5 DEF CleanPhase, HeaderSent, Waiting, BlockSent
<1>3. QED
  BY <1>1, <1>2 DEF CleanInv, SenderReads, receiver, progress, Running

\* The header, or the next block of the file.
LEMMA CleanPacket ==
    ASSUME TypeOK, RunInv, CleanInv, Packet, faults = 0, size < MaxSize
    PROVE  Running' /\ CleanInv'
<1>0. /\ Running /\ CleanPhase /\ status = {} /\ retries = 0 /\ LineOK /\ eotReceived = FALSE
      /\ MaxRetries \in Nat \ {0} /\ W \in Nat \ {0, 1} /\ size \in Nat \ {0} /\ MaxSize \in Nat
      /\ canCount = 0 /\ (numReceivedPackets # 0 => expectedSize = size)
  BY YmodemAssumption, TypeParts DEF TypeOK, CleanInv, Packet, RunInv
<1>1. PICK start \in StartBytes :
        LET frame == Head(toReceiver)
            rest == start.rest
            good == eotReceived \/ ValidatePacket(frame)
        IN  /\ start.byte = "SOH"
            /\ numReceivedPackets' = CountUp(numReceivedPackets)
            /\ lastReceivedBlkNum' = IF good /\ ~eotReceived THEN frame.blk % W
                                     ELSE lastReceivedBlkNum
            /\ expectedBlkNum' = IF good /\ ~eotReceived THEN (expectedBlkNum + 1) % W
                                 ELSE expectedBlkNum
            /\ \/ ~good /\ BadPacket(rest) /\ UNCHANGED status
               \/ good /\ IsHeader /\ Announce /\ toReceiver' = rest
               \/ good /\ ~IsHeader /\ eotReceived /\ EndOfSession /\ toReceiver' = rest
               \/ good /\ ~IsHeader /\ ~eotReceived /\ Store(frame.blk) /\ toReceiver' = rest
            /\ EndOfPass
            /\ UNCHANGED <<eotReceived, remote, faults>>
  BY DEF Packet
<1> DEFINE frame == Head(toReceiver)
           rest == start.rest
<1>2. /\ toReceiver # <<>> /\ frame.kind \in {"SOH", "noise"}
      /\ frame.kind = "SOH" => rest = Tail(toReceiver)
  BY <1>0, <1>1, StartByte
<1>3. \A n \in Nat : Block(n).kind = "SOH" /\ Block(n).blk = n /\ Block(n).intact = TRUE
  BY FrameTypes
<1>4. Control("EOT").kind = "EOT"
  BY FrameTypes
<1>5. ASSUME status' = {}, retries' = 0 PROVE Running' /\ syncAttempt' = 0 /\ canCount' = 0
  BY <1>0, <1>1, <1>5 DEF EndOfPass, Running
<1>6. CASE HeaderSent /\ frame = Block(0) /\ Tail(toReceiver) = <<>>
  <2>1. /\ numReceivedPackets = 0 /\ buffer = <<>> /\ expectedBlkNum = 0
        /\ toSender = <<>> /\ sender = "wait" /\ spos = 0
    BY <1>0, <1>6 DEF HeaderSent, CleanInv
  <2>2. 0 % W = 0
    <3>1. 0 \in 0..W - 1 /\ W \in Nat \ {0}
      BY <1>0
    <3>2. QED
      BY <3>1, SmallNumbers
  <2>3. ValidatePacket(frame) /\ frame.kind = "SOH" /\ frame.blk = 0
    BY <1>3, <1>6, <2>1, <2>2 DEF ValidatePacket
  <2>4. /\ lastReceivedBlkNum' = 0 /\ expectedBlkNum' = 1 % W /\ numReceivedPackets' = 1
    BY <1>0, <1>1, <2>1, <2>2, <2>3 DEF CountUp
  <2>5. Announce /\ toReceiver' = <<>>
    BY <1>0, <1>1, <1>2, <1>6, <2>3, <2>4 DEF IsHeader
  <2>6. /\ expectedSize' = size /\ toSender' = <<"ACK">> /\ status' = {} /\ buffer' = <<>>
        /\ retries' = 0
    BY <1>0, <2>1, <2>5 DEF Announce
  <2>7. Stored(0)'
    BY <2>4, <2>6, FirstBlocks DEF Stored
  <2>8. /\ sender' = "wait" /\ spos' = 0 /\ size' = size /\ eotReceived' = FALSE
    BY <1>0, <1>1, <2>1 DEF remote
  <2>9. HeaderAcked'
    BY <1>5, <2>4, <2>5, <2>6, <2>7, <2>8 DEF HeaderAcked
  <2>10. QED
    BY <1>5, <2>4, <2>6, <2>8, <2>9 DEF CleanInv, CleanPhase
<1>7. CASE BlockSent /\ spos <= size /\ frame = Block(spos) /\ Tail(toReceiver) = <<>>
  <2>1. /\ numReceivedPackets \in {1, 2} /\ Stored(spos - 1)
        /\ toSender = <<>> /\ sender = "wait" /\ spos \in Nat \ {0}
    BY <1>0, <1>7 DEF BlockSent
  <2>2. expectedBlkNum = spos % W /\ buffer = [i \in 1..spos - 1 |-> i]
    <3>1. (spos - 1) + 1 = spos
      BY <2>1
    <3>2. QED
      BY <2>1, <3>1 DEF Stored
  <2>3. ValidatePacket(frame) /\ frame.kind = "SOH" /\ frame.blk = spos
    BY <1>3, <1>7, <2>1, <2>2 DEF ValidatePacket
  <2>4. numReceivedPackets' = 2
    BY <1>1, <2>1 DEF CountUp
  <2>5. expectedBlkNum' = (spos + 1) % W
    <3>1. expectedBlkNum' = ((spos % W) + 1) % W
      BY <1>0, <1>1, <2>2, <2>3
    <3>2. QED
      BY <1>0, <2>1, <3>1, BlockNumbers
  <2>6. Store(spos) /\ toReceiver' = <<>>
    <3>1. ~IsHeader
      BY <2>4 DEF IsHeader
    <3>2. Store(frame.blk) /\ toReceiver' = rest
      BY <1>0, <1>1, <2>3, <3>1, Zenon
    <3>3. QED
      BY <1>2, <1>7, <2>3, <3>2
  <2>7. Len(buffer) = spos - 1 /\ Append(buffer, spos) = [i \in 1..spos |-> i]
    <3>1. spos - 1 \in Nat /\ (spos - 1) + 1 = spos
      BY <2>1
    <3>2. QED
      BY <2>2, <3>1, FirstBlocks
  <2>8. Len(buffer) + 1 < MaxSize /\ ~(Len(buffer) + 1 >= MaxSize)
    BY <1>0, <1>7, <2>1, <2>7
  <2>9. /\ buffer' = [i \in 1..spos |-> i] /\ toSender' = <<"ACK">> /\ status' = {}
        /\ expectedSize' = size /\ retries' = 0
    BY <1>0, <2>1, <2>6, <2>7, <2>8 DEF Store
  <2>10. /\ sender' = "wait" /\ spos' = spos /\ size' = size /\ eotReceived' = FALSE
    BY <1>0, <1>1, <2>1 DEF remote
  <2>11. Stored(spos)'
    BY <2>5, <2>9, <2>10 DEF Stored
  <2>12. BlockAcked'
    BY <1>0, <1>7, <2>1, <2>4, <2>6, <2>9, <2>10, <2>11 DEF BlockAcked
  <2>13. QED
    BY <1>5, <2>4, <2>9, <2>10, <2>12 DEF CleanInv, CleanPhase
<1>8. QED
  BY <1>0, <1>2, <1>3, <1>4, <1>6, <1>7, CleanHead

\* EOT comes when the whole file is there.
LEMMA CleanEot ==
    ASSUME TypeOK, RunInv, CleanInv, EndOfTransmission, faults = 0, size < MaxSize
    PROVE  ~Running' /\ result' = size' /\ buffer' = [i \in 1..size' |-> i]
<1>0. /\ Running /\ CleanPhase /\ LineOK /\ size \in Nat \ {0}
      /\ (numReceivedPackets # 0 => expectedSize = size)
  BY YmodemAssumption, TypeParts DEF TypeOK, CleanInv, EndOfTransmission
<1>1. PICK start \in StartBytes :
        /\ start.byte = "EOT"
        /\ numReceivedPackets' = CountUp(numReceivedPackets)
        /\ \/ IsHeader
           \/ ~IsHeader /\ EndOfSession
        /\ EndOfPass
        /\ size' = size
  BY DEF EndOfTransmission, remote
<1>2. toReceiver # <<>> /\ Head(toReceiver).kind \in {"EOT", "noise"}
  BY <1>0, <1>1, StartByte
<1>3. BlockSent /\ spos = size + 1
  <2>1. /\ Block(0).kind = "SOH"
        /\ spos \in Nat => Block(spos).kind = "SOH"
    BY FrameTypes
  <2>2. spos \in Nat
    BY <1>0 DEF TypeOK
  <2>3. QED
    BY <1>0, <1>2, <2>1, <2>2, CleanHead
<1>4. numReceivedPackets \in {1, 2} /\ buffer = [i \in 1..size |-> i]
  BY <1>0, <1>3 DEF BlockSent, Stored
<1>5. EndOfSession
  BY <1>1, <1>4 DEF IsHeader, CountUp
<1>6. status' # {} /\ buffer' = buffer /\ expectedSize' = size
  BY <1>0, <1>4, <1>5 DEF EndOfSession
<1>7. Len(buffer') = size
  BY <1>0, <1>4, <1>6, FirstBlocks
<1>8. result' = size
  BY <1>0, <1>1, <1>6, <1>7 DEF EndOfPass
<1>9. QED
  BY <1>0, <1>1, <1>4, <1>6, <1>8 DEF Running

\* The receiver asks for the content of the file; nothing else makes it say C.
LEMMA CleanNoStart ==
    ASSUME TypeOK, RunInv, CleanInv, NoStart, faults = 0, faults' = 0, size < MaxSize, MaxSync > 1
    PROVE  Running' /\ CleanInv'
<1>0. /\ Running /\ CleanPhase /\ LineOK /\ size \in Nat \ {0} /\ MaxSync \in Nat
  BY YmodemAssumption, TypeParts DEF TypeOK, CleanInv, NoStart
<1>1. PICK start \in StartBytes :
        /\ start.byte \in {"CAN", "timeout", "other"}
        /\ faults' = IF start.byte = "timeout" /\ toSender # <<>> THEN faults + 1 ELSE faults
        /\ \/ /\ syncAttempt' = syncAttempt + 1
              /\ canCount' = IF start.byte = "CAN" THEN canCount + 1 ELSE 0
              /\ toReceiver' = start.rest
              /\ toSender' = IF start.byte = "CAN" THEN toSender ELSE Append(toSender, "C")
              /\ UNCHANGED <<status, expectedSize, buffer, retries, result>>
           \/ syncAttempt + 1 = MaxSync
        /\ UNCHANGED <<eotReceived, progress, remote>>
  BY DEF NoStart
<1>2. start.byte = "timeout" /\ toReceiver = <<>>
  <2>1. /\ Block(0).kind = "SOH" /\ Control("EOT").kind = "EOT"
        /\ spos \in Nat => Block(spos).kind = "SOH"
    BY FrameTypes
  <2>2. spos \in Nat
    BY <1>0 DEF TypeOK
  <2>3. QED
    BY <1>0, <1>1, <2>1, <2>2, CleanHead, StartByte
<1>3. toSender = <<>>
  BY <1>1, <1>2
<1>4. Waiting
  BY <1>0, <1>2, <1>3 DEF CleanPhase, Ready, HeaderSent, HeaderAcked, Asked, BlockSent, BlockAcked
<1>5. syncAttempt + 1 # MaxSync
  BY <1>0, <1>4 DEF Waiting
<1>6. toReceiver' = <<>> /\ toSender' = <<"C">> /\ canCount' = 0
  <2>1. start.rest = <<>>
    BY <1>2 DEF StartBytes, Start
  <2>2. QED
    BY <1>1, <1>2, <1>3, <1>5, <2>1
<1>7. /\ UNCHANGED <<status, expectedSize, buffer, retries, result, eotReceived>>
      /\ UNCHANGED <<numReceivedPackets, expectedBlkNum, size, sender>>
  BY <1>1, <1>5 DEF progress, remote
<1>8. Asked'
  BY <1>4, <1>6, <1>7 DEF Waiting, Asked, Stored
<1>9. QED
  BY <1>0, <1>4, <1>6, <1>7, <1>8 DEF CleanInv, CleanPhase, Running, Waiting

LEMMA CleanNext ==
    ASSUME TypeOK, RunInv, CleanInv, CleanLineDelivers, [Next]_vars, MaxSync > 1
    PROVE  CleanInv' /\ CleanLineDelivers'
<1> SUFFICES ASSUME faults' = 0, size' < MaxSize
             PROVE  CleanInv' /\ CleanLineDelivers'
  BY DEF CleanInv, CleanLineDelivers
<1>1. CASE UNCHANGED vars
  BY <1>1 DEF vars, receiver, progress, remote, CleanInv, CleanLineDelivers, CleanPhase, Ready,
              HeaderSent, HeaderAcked, Waiting, Asked, BlockSent, BlockAcked, Stored, Frame, Running
<1>2. CASE Next
  <2>1. Running /\ size' = size /\ faults \in Nat /\ size < MaxSize
    BY <1>2
       DEF Next, Receive, Packet, EndOfTransmission, Cancelled, NoStart, SenderReads, SenderTimesOut,
           UserStops, LineFails, remote, TypeOK
  <2>2. faults = 0 /\ ~UserStops /\ ~LineFails
    BY <1>2, <2>1
       DEF Next, Receive, Packet, EndOfTransmission, Cancelled, NoStart, SenderReads, SenderTimesOut,
           UserStops, LineFails
  <2>3. CleanPhase
    BY <2>1, <2>2 DEF CleanInv
  <2>4. ~SenderTimesOut
    <3>1. sender = "wait" => ~(toReceiver = <<>> /\ toSender = <<>>)
      BY <2>3 DEF CleanPhase, Ready, HeaderSent, HeaderAcked, Waiting, Asked, BlockSent, BlockAcked
    <3>2. QED
      BY <2>2, <3>1 DEF SenderTimesOut
  <2>5. ~Cancelled
    <3>1. /\ Block(0).kind = "SOH" /\ Control("EOT").kind = "EOT"
          /\ spos \in Nat => Block(spos).kind = "SOH"
      BY FrameTypes
    <3>2. spos \in Nat /\ LineOK
      BY YmodemAssumption, TypeParts DEF TypeOK
    <3>3. ASSUME NEW start \in StartBytes, start.byte \in {"ETX", "CAN"} PROVE FALSE
      BY <2>3, <3>1, <3>2, <3>3, CleanHead, StartByte
    <3>4. QED
      BY <3>3 DEF Cancelled
  <2>6. CASE SenderReads
    <3>1. Running'
      BY <2>1, <2>6 DEF SenderReads, receiver, Running
    <3>2. QED
      BY <2>1, <2>2, <2>6, <3>1, CleanSenderReads DEF CleanLineDelivers
  <2>7. CASE Packet
    BY <2>1, <2>2, <2>7, CleanPacket DEF CleanLineDelivers
  <2>8. CASE EndOfTransmission
    BY <2>1, <2>2, <2>8, CleanEot DEF CleanLineDelivers, CleanInv
  <2>9. CASE NoStart
    BY <2>1, <2>2, <2>9, CleanNoStart DEF CleanLineDelivers
  <2>10. QED
    BY <1>2, <2>2, <2>4, <2>5, <2>6, <2>7, <2>8, <2>9 DEF Next, Receive
<1>3. QED
  BY <1>1, <1>2

\* When nothing goes wrong on the line, a file that fits is received whole, for
\* every size, past any number of wraps of the block number.  Between the header
\* and the content the receiver has to ask, so it takes two attempts to
\* synchronise (the code makes 20).
THEOREM CleanCorrect ==
    ASSUME MaxSync > 1
    PROVE  Spec => []CleanLineDelivers
<1>1. Init => CleanInv /\ CleanLineDelivers
  <2> SUFFICES ASSUME Init PROVE CleanInv /\ CleanLineDelivers
    OBVIOUS
  <2>1. Running /\ Ready
    BY DEF Init, Running, Ready
  <2>2. QED
    BY <2>1 DEF Init, CleanInv, CleanPhase, CleanLineDelivers
<1>2. QED
  BY <1>1, TypeInit, TypeNext, CleanNext, PTL DEF Spec

=============================================================================
