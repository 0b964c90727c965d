------------------------------- MODULE Platform -------------------------------
(***************************************************************************)
(* What the services of the E51 share: the triggers (hss_trigger.c), the   *)
(* mailbox between the E51 and each U54 seen from the services, and the    *)
(* reset register.                                                         *)
(*                                                                         *)
(* A message is <<source, target, type>>; of one type at most one is under *)
(* way between two harts, as a sender waits for the answer.  The steps     *)
(* inside one send or receive are those of SsmbIpi; a service sees         *)
(*   - mail:   the messages in the slots of the queues,                    *)
(*   - count:  what IPI_PollReceive last counted in a queue,               *)
(*   - fresh:  queues with txId_per_queue.last different from shadow       *)
(*             (successive messages have different transaction numbers).   *)
(***************************************************************************)
EXTENDS Integers, FiniteSets

CONSTANT Harts      \* the U54 harts that take part

ASSUME HartsAssumption == Harts \subseteq 1..4 /\ 1 \in Harts

VARIABLES
    triggers,       \* events notified so far
    mail, count, fresh,
    resetReq        \* MSS_RESET_CR is written, the E51 spins behind it

platformVars == <<triggers, mail, count, fresh, resetReq>>

E51 == 0

Event == {"IPI_INITIALIZED", "DDR_TRAINED", "STARTUP_COMPLETE", "POST_BOOT"}

\* 20 queues of ipi_queues, numbered by source and target.
IPI_CalculateQueueIndex(source, target) ==
    IF target > source THEN source * 4 + target - 1 ELSE source * 4 + target

Queue == 0..19

ToE51(u) == IPI_CalculateQueueIndex(u, E51)

Message ==
    {<<E51, u, type>> : u \in Harts, type \in {"DDR_TRAIN", "LAUNCH", "ACK_COMPLETE"}}
    \cup {<<u, E51, type>> : u \in Harts, type \in {"ACK_COMPLETE", "SCATTERGATHER_DMA"}}

HSS_Trigger_IsNotified(e) == e \in triggers

\* triggers' after HSS_Trigger_Notify of the events es.
HSS_Trigger_Notify(es) == triggers' = triggers \cup es

\* IPI_Send: the message gets a slot and its queue has a new transaction.
IPI_Send(m) ==
    /\ mail' = mail \cup {m}
    /\ fresh' = fresh \cup {IPI_CalculateQueueIndex(m[1], m[2])}

\* IPI_PollReceive, which only the E51 calls: a queue is counted when there is
\* something new in it.
Counted ==
    [q \in Queue |->
        IF q \in fresh /\ \E u \in Harts : q = ToE51(u)
        THEN Cardinality({m \in mail : IPI_CalculateQueueIndex(m[1], m[2]) = q})
        ELSE count[q]]

\* IPI_ConsumeIntent takes one message off the count, never below zero.
OneLess(n) == IF n > 0 THEN n - 1 ELSE 0

PlatformInit ==
    /\ triggers = {}
    /\ mail = {}
    /\ count = [q \in Queue |-> 0]
    /\ fresh = {}
    /\ resetReq = FALSE

\* IPI_QueuesInit clears everything in ipi_data.
IPI_QueuesInit ==
    /\ mail' = {}
    /\ count' = [q \in Queue |-> 0]
    /\ fresh' = {}
    /\ HSS_Trigger_Notify({"IPI_INITIALIZED"})

PlatformTypeOK ==
    /\ triggers \subseteq Event
    /\ mail \subseteq Message
    /\ count \in [Queue -> 0..2]
    /\ fresh \subseteq Queue
    /\ resetReq \in BOOLEAN

=============================================================================
