-------------------------------- MODULE Ymodem --------------------------------
(***************************************************************************)
(* The YMODEM receiver (services/ymodem/ymodem_protocol.c) with a sender   *)
(* at the other end of the UART.  XYMODEM_Receive runs on the E51 outside  *)
(* the super-loop; one step here is one start byte read by                 *)
(* XYMODEM_ReadPacket and what follows from it.                            *)
(*                                                                         *)
(* Sizes are counted in blocks.  Block 0 carries the file's name and size, *)
(* blocks 1..size its content.  The line may lose or damage what either    *)
(* side sends; the rest of a block whose start is gone reads as noise,     *)
(* bytes that may be anything.  The sender is any program that sends one   *)
(* block at a time and repeats it when asked to.                           *)
(***************************************************************************)
EXTENDS Integers, Sequences

CONSTANTS
    W,            \* block numbers are sent modulo W (256)
    MaxSync,      \* HSS_XYMODEM_MAX_SYNC_ATTEMPTS
    MaxRetries,   \* HSS_XYMODEM_BAD_PACKET_RETRIES
    MaxSize,      \* size of the receive buffer
    Sizes,        \* sizes of the files that are sent
    MaxFaults     \* bound on what goes wrong on the line

ASSUME YmodemAssumption ==
    /\ W \in Nat \ {0, 1}
    /\ MaxSync \in Nat \ {0} /\ MaxRetries \in Nat \ {0} /\ MaxSize \in Nat
    /\ Sizes \subseteq Nat \ {0}
    /\ MaxFaults \in Nat

CanCountRequired == 2       \* HSS_XYMODEM_CAN_COUNT_REQUIRED

VARIABLES
    status,       \* flags of status.s that are set
    eotReceived, lastReceivedBlkNum, expectedBlkNum, numReceivedPackets, expectedSize,
    buffer,       \* the blocks stored; totalReceivedSize is its length
    retries,
    syncAttempt, canCount,      \* locals of XYMODEM_ReadPacket
    result,       \* of XYMODEM_Receive, -1 before it returns
    toReceiver,   \* on the line: frames to the receiver,
    toSender,     \*              and characters to the sender
    size,         \* of the file
    spos,         \* the block the sender is at, size + 1 for EOT
    sender,       \* "idle", "wait" for an answer, "waitC" after block 0, "stop"
    faults        \* what went wrong on the line so far

progress == <<lastReceivedBlkNum, expectedBlkNum, numReceivedPackets>>
receiver == <<status, eotReceived, progress, expectedSize, buffer, retries, syncAttempt,
              canCount, result>>
remote == <<size, spos, sender>>
vars == <<receiver, toReceiver, toSender, remote, faults>>

Block(n) == [kind |-> "SOH", blk |-> n, intact |-> TRUE]
Damaged(n) == [kind |-> "SOH", blk |-> n, intact |-> FALSE]
Control(k) == [kind |-> k, blk |-> 0, intact |-> TRUE]
Noise == [kind |-> "noise", blk |-> 0, intact |-> FALSE]

\* XYMODEM_Receive up to its loop: the state is cleared, the first ready
\* character is on its way.
Init ==
    /\ status = {} /\ eotReceived = FALSE
    /\ lastReceivedBlkNum = 0 /\ expectedBlkNum = 0
    /\ numReceivedPackets = 0 /\ expectedSize = 0 /\ buffer = <<>>
    /\ retries = 0 /\ syncAttempt = 0 /\ canCount = 0
    /\ result = -1
    /\ toReceiver = <<>> /\ toSender = <<"C">>
    /\ size \in Sizes /\ spos = 0 /\ sender = "idle"
    /\ faults = 0

-----------------------------------------------------------------------------
(* The receiver                                                            *)

Running == result = -1

\* numReceivedPackets is compared with 0 and 1 only: it is counted up to 2.
CountUp(n) == IF n = 2 THEN n ELSE n + 1

\* Characters that are read away: single ones are gone, a block loses its
\* start and the rest of it stays.
ReadAway(q) ==
    LET blocks == {i \in DOMAIN q : q[i].kind \in {"SOH", "noise"}}
    IN  IF blocks = {} THEN <<>>
        ELSE LET i == CHOOSE i \in blocks : \A j \in blocks : i <= j
             IN  <<Noise>> \o SubSeq(q, i + 1, Len(q))

\* The start bytes that getchar_with_timeout_ may return next, each with what
\* it leaves on the line (and, for a packet, what the rest of it leaves).
Start(b, rests) == {[byte |-> b, rest |-> r] : r \in rests}
StartBytes ==
    IF toReceiver = <<>> THEN Start("timeout", {<<>>})
    ELSE LET kind == Head(toReceiver).kind
             tail == Tail(toReceiver)
         IN  IF kind # "noise" THEN Start(kind, {tail})
             ELSE Start("SOH", {tail, ReadAway(tail)})
                  \cup UNION {Start(b, {toReceiver, tail}) : b \in {"other", "EOT", "ETX", "CAN"}}

\* XYMODEM_ReadPacket returns, the loop of XYMODEM_Receive goes on, or ends
\* and the smaller of the announced and the received size is the result.
EndOfPass ==
    /\ syncAttempt' = 0 /\ canCount' = 0
    /\ result' = IF status' = {} /\ retries' < MaxRetries THEN -1
                 ELSE IF expectedSize' # 0 /\ expectedSize' < Len(buffer') THEN expectedSize'
                 ELSE Len(buffer')

\* Mutant: bad packets are not counted.
BadPacketNoCount(rest) ==
    /\ retries' = retries
    /\ toReceiver' = IF numReceivedPackets' # 0 THEN ReadAway(rest) ELSE rest
    /\ toSender' = IF numReceivedPackets' # 0 THEN Append(toSender, "NAK") ELSE toSender
    /\ UNCHANGED <<expectedSize, buffer>>

\* Bad packet read: purge the line and send NAK once a packet has been seen.
BadPacket(rest) ==
    /\ retries' = retries + 1
    /\ toReceiver' = IF numReceivedPackets' # 0 THEN ReadAway(rest) ELSE rest
    /\ toSender' = IF numReceivedPackets' # 0 THEN Append(toSender, "NAK") ELSE toSender
    /\ UNCHANGED <<expectedSize, buffer>>

\* The transfer is given up: nothing was received.
Abort(flags) ==
    /\ status' = flags
    /\ buffer' = <<>>
    /\ toSender' = toSender \o <<"ACK", "CAN", "CAN">>
    /\ UNCHANGED <<expectedSize, retries>>

\* Mutant: the block number is not compared with the expected one.
ValidatePacketAnyBlock(frame) == frame.intact

\* XYMODEM_ValidatePacket: CRC and block number.
ValidatePacket(frame) == frame.intact /\ frame.blk % W = expectedBlkNum

\* Mutant: what does not fit ends the transfer but keeps what was stored.
StoreKeepsPart(blk) ==
    \/ /\ Len(buffer) + 1 < MaxSize
       /\ buffer' = Append(buffer, blk)
       /\ toSender' = Append(toSender, "ACK")
       /\ UNCHANGED <<status, expectedSize, retries>>
    \/ /\ Len(buffer) + 1 >= MaxSize
       /\ status' = {"abort"}
       /\ toSender' = toSender \o <<"ACK", "CAN", "CAN">>
       /\ UNCHANGED <<buffer, expectedSize, retries>>

\* Mutant: the size the header announced is relied on.
StoreUnchecked(blk) ==
    /\ buffer' = Append(buffer, blk)
    /\ toSender' = Append(toSender, "ACK")
    /\ UNCHANGED <<status, expectedSize, retries>>

\* A data packet, if the buffer has room for it and more.
Store(blk) ==
    \/ /\ Len(buffer) + 1 < MaxSize
       /\ buffer' = Append(buffer, blk)
       /\ toSender' = Append(toSender, "ACK")
       /\ UNCHANGED <<status, expectedSize, retries>>
    \/ Len(buffer) + 1 >= MaxSize /\ Abort({"abort"})

\* Mutant: every packet with number 0 is taken for the header.
IsHeaderByNumber == lastReceivedBlkNum' = 0

IsHeader == lastReceivedBlkNum' = 0 /\ numReceivedPackets' = 1

\* Block 0 announces the size of the file.
Announce ==
    /\ expectedSize' = size
    /\ \/ size > MaxSize
          /\ status' = {"abort"} /\ buffer' = <<>>
          /\ toSender' = toSender \o <<"ACK", "CAN", "CAN">>
       \/ size <= MaxSize
          /\ toSender' = Append(toSender, "ACK") /\ UNCHANGED <<status, buffer>>
    /\ UNCHANGED retries

EndOfSession ==
    /\ status' = {"endOfSession"}
    /\ toSender' = toSender \o <<"ACK", "ACK">>
    /\ UNCHANGED <<buffer, expectedSize, retries>>

\* A packet: after an EOT it is not looked at any more.
Packet ==
    \E start \in StartBytes :
        LET frame == Head(toReceiver)
            rest == start.rest
            good == eotReceived \/ ValidatePacket(frame)
        IN  /\ Running /\ start.byte = "SOH"
            /\ numReceivedPackets' = CountUp(numReceivedPackets)
            /\ lastReceivedBlkNum' = IF good /\ ~eotReceived THEN frame.blk % W
                                     ELSE lastReceivedBlkNum
            /\ expectedBlkNum' = IF good /\ ~eotReceived THEN (expectedBlkNum + 1) % W
                                 ELSE expectedBlkNum
            /\ \/ ~good /\ BadPacket(rest) /\ UNCHANGED status
               \/ good /\ IsHeader /\ Announce /\ toReceiver' = rest
               \/ good /\ ~IsHeader /\ eotReceived /\ EndOfSession /\ toReceiver' = rest
               \/ good /\ ~IsHeader /\ ~eotReceived /\ Store(frame.blk) /\ toReceiver' = rest
            /\ EndOfPass
            /\ UNCHANGED <<eotReceived, remote, faults>>

\* EOT, taken for a packet of no length; one that comes first passes for a
\* header that announces nothing.
EndOfTransmission ==
    \E start \in StartBytes :
        /\ Running /\ start.byte = "EOT"
        /\ eotReceived' = TRUE
        /\ numReceivedPackets' = CountUp(numReceivedPackets)
        /\ toReceiver' = ReadAway(start.rest)
        /\ UNCHANGED <<lastReceivedBlkNum, expectedBlkNum>>
        /\ \/ IsHeader /\ expectedSize' = 0 /\ toSender' = Append(toSender, "ACK")
                       /\ UNCHANGED <<status, buffer, retries>>
           \/ ~IsHeader /\ EndOfSession
        /\ EndOfPass
        /\ UNCHANGED <<remote, faults>>

\* CTRL-C of the user, or the second CAN in a row.
Cancelled ==
    \E start \in StartBytes :
        /\ Running /\ start.byte \in {"ETX", "CAN"}
        /\ start.byte = "CAN" => canCount + 1 = CanCountRequired
        /\ toReceiver' = start.rest
        /\ Abort({"abort", "syncFail"})
        /\ EndOfPass
        /\ UNCHANGED <<eotReceived, progress, remote, faults>>

\* No start of a packet: another attempt, or the synchronisation has failed
\* and the loop ends with what was received so far.  CAN alone is not
\* answered; a time-out or any other byte is, with a ready character.
\* (A time-out while an answer is under way means that the sender is slow.)
NoStart ==
    \E start \in StartBytes :
        LET b == start.byte
            rest == start.rest
            said == IF b = "CAN" THEN toSender ELSE Append(toSender, "C")
        IN  /\ Running /\ b \in {"CAN", "timeout", "other"}
            /\ b = "CAN" => canCount + 1 < CanCountRequired
            /\ faults' = IF b = "timeout" /\ toSender # <<>> THEN faults + 1 ELSE faults
            /\ faults' <= MaxFaults
            /\ \/ /\ syncAttempt + 1 < MaxSync
                  /\ syncAttempt' = syncAttempt + 1
                  /\ canCount' = IF b = "CAN" THEN canCount + 1 ELSE 0
                  /\ toReceiver' = rest
                  /\ toSender' = said
                  /\ UNCHANGED <<status, expectedSize, buffer, retries, result>>
               \/ /\ syncAttempt + 1 = MaxSync
                  /\ status' = {"syncFail"}
                  /\ retries' = retries + 1
                  /\ toReceiver' = IF numReceivedPackets # 0 THEN ReadAway(rest) ELSE rest
                  /\ toSender' = IF numReceivedPackets # 0 THEN Append(said, "NAK") ELSE said
                  /\ UNCHANGED <<expectedSize, buffer>>
                  /\ EndOfPass
            /\ UNCHANGED <<eotReceived, progress, remote>>

Receive == Packet \/ EndOfTransmission \/ Cancelled \/ NoStart

-----------------------------------------------------------------------------
(* The sender and the line                                                 *)

\* What the sender puts on the line when it is at block n.
Frame(n) == IF n <= size THEN Block(n) ELSE Control("EOT")

\* The sender takes a character and answers it.  The ready character starts
\* it, and starts it again after block 0; elsewhere it is ignored.  What the
\* receiver says last, it says after the transfer.
SenderReads ==
    /\ Running /\ toSender # <<>>
    /\ toSender' = Tail(toSender)
    /\ LET c == Head(toSender)
           started == c = "C" /\ sender \in {"idle", "waitC"}
           acked == c = "ACK" /\ sender = "wait" /\ spos <= size
           nacked == c = "NAK" /\ sender = "wait"
       IN  \/ /\ started
              /\ spos' = IF sender = "idle" THEN 0 ELSE 1
              /\ sender' = "wait"
              /\ toReceiver' = Append(toReceiver, Frame(spos'))
           \/ /\ acked /\ spos = 0
              /\ sender' = "waitC" /\ UNCHANGED <<spos, toReceiver>>
           \/ /\ acked /\ spos # 0
              /\ spos' = spos + 1
              /\ toReceiver' = Append(toReceiver, Frame(spos'))
              /\ UNCHANGED sender
           \/ /\ nacked
              /\ toReceiver' = Append(toReceiver, Frame(spos))
              /\ UNCHANGED <<spos, sender>>
           \/ /\ ~started /\ ~acked /\ ~nacked
              /\ UNCHANGED <<spos, sender, toReceiver>>
    /\ UNCHANGED <<receiver, size, faults>>

\* No answer: the sender repeats itself.  It is too early, which counts as a
\* fault, when something is still on the line.
SenderTimesOut ==
    /\ Running /\ sender = "wait"
    /\ faults' = IF toReceiver = <<>> /\ toSender = <<>> THEN faults ELSE faults + 1
    /\ faults' <= MaxFaults
    /\ toReceiver' = Append(toReceiver, Frame(spos))
    /\ UNCHANGED <<receiver, toSender, remote>>

\* The user stops the sender, or hits CTRL-C at the terminal.
UserStops ==
    /\ Running /\ faults < MaxFaults
    /\ \/ sender # "stop" /\ sender' = "stop"
          /\ toReceiver' = toReceiver \o <<Control("CAN"), Control("CAN")>>
       \/ toReceiver' = Append(toReceiver, Control("ETX")) /\ UNCHANGED sender
    /\ faults' = faults + 1
    /\ UNCHANGED <<receiver, toSender, size, spos>>

\* A frame is lost, damaged in its body or at its start, or a character is
\* lost on its way to the sender.
LineFails ==
    /\ Running /\ faults < MaxFaults
    /\ \/ /\ toReceiver # <<>>
          /\ \/ toReceiver' = Tail(toReceiver)
             \/ /\ Head(toReceiver).kind = "SOH"
                /\ \E f \in {Damaged(Head(toReceiver).blk), Noise} :
                       toReceiver' = <<f>> \o Tail(toReceiver)
          /\ UNCHANGED toSender
       \/ toSender # <<>> /\ toSender' = Tail(toSender) /\ UNCHANGED toReceiver
    /\ faults' = faults + 1
    /\ UNCHANGED <<receiver, remote>>

Next == Receive \/ SenderReads \/ SenderTimesOut \/ UserStops \/ LineFails

\* uart_getchar gives up after its time, so the receiver never waits for
\* ever; the sender answers what it has been sent.
Spec == Init /\ [][Next]_vars /\ WF_vars(Receive) /\ WF_vars(SenderReads)

-----------------------------------------------------------------------------
(* Properties                                                              *)

Frames == [kind : {"SOH", "EOT", "CAN", "ETX", "noise"}, blk : Nat, intact : BOOLEAN]

\* Types of the state of XYMODEM_Receive, of the sender and of the line.
TypeOK ==
    /\ status \in SUBSET {"syncFail", "endOfSession", "abort"}
    /\ eotReceived \in BOOLEAN
    /\ lastReceivedBlkNum \in 0..W - 1 /\ expectedBlkNum \in 0..W - 1
    /\ numReceivedPackets \in 0..2 /\ expectedSize \in {0, size}
    /\ buffer \in Seq(Nat) /\ Len(buffer) <= MaxSize
    /\ retries \in 0..MaxRetries
    /\ syncAttempt \in 0..MaxSync - 1 /\ canCount \in 0..CanCountRequired - 1
    /\ result \in -1..MaxSize
    /\ toReceiver \in Seq(Frames) /\ toSender \in Seq({"C", "ACK", "NAK", "CAN"})
    /\ size \in Sizes /\ spos \in 0..size + 1
    /\ sender \in {"idle", "wait", "waitC", "stop"}
    /\ faults \in 0..MaxFaults

\* Whatever is lost, damaged or repeated on the line, the blocks that
\* XYMODEM_Receive stores are consecutive blocks of the file: none is missing
\* in between and none is there twice.
BlocksInOrder ==
    /\ \A i \in 1..Len(buffer) - 1 : buffer[i + 1] = buffer[i] + 1
    /\ buffer # <<>> => buffer[1] \in {0, 1}

\* When nothing goes wrong, and the file is smaller than the buffer, the
\* result is its size and the buffer has all of its blocks, past the wrap of
\* the block number as well.
CleanLineDelivers ==
    ~Running /\ faults = 0 /\ size < MaxSize =>
        result = size /\ buffer = [i \in 1..size |-> i]

\* A transfer that was aborted, by either side or for lack of room, is
\* reported to the caller as nothing received, so that nothing is flashed.
AbortGivesNothing == ~Running /\ "abort" \in status => result = 0

\* The receiver always comes back to the menu of the loader, whatever the
\* line and the sender do.
TransferEnds == <>(~Running)

\* What hss_loader takes for success is one: "YMODEM failed to receive file
\* successfully" is all it says of a failure, and only when the result is 0.
WholeFileOrNothing == result > 0 => result = size /\ buffer = [i \in 1..size |-> i]

=============================================================================
