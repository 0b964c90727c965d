---------------------------- MODULE RequestService ----------------------------
(***************************************************************************)
(* What a client of the IPI mailbox may rely on, without queues, slots,    *)
(* interrupts or completion entries: the life of each transaction.         *)
(***************************************************************************)
EXTENDS Integers

CONSTANT MaxTx      \* bound on the transactions opened

VARIABLES
    opened,     \* transactions the client has opened
    ran,        \* transactions whose handler was started on the target hart
    reported,   \* open transactions the client can see as complete
    closed      \* transactions the client has given up or finished with

svars == <<opened, ran, reported, closed>>

Init == opened = {} /\ ran = {} /\ reported = {} /\ closed = {}

\* Transactions open in order; one that cannot be posted closes at once.
Open ==
    \E t \in 1..MaxTx :
        /\ opened = 1..(t - 1)
        /\ opened' = opened \cup {t}
        /\ closed' \in {closed, closed \cup {t}}
        /\ UNCHANGED <<ran, reported>>

\* The target runs the handler, once, even for a transaction closed meanwhile.
Run ==
    \E t \in opened \ ran :
        /\ ran' = ran \cup {t}
        /\ UNCHANGED <<opened, reported, closed>>

\* The client sees the completion of a transaction that ran and is not closed.
Report ==
    \E t \in ran \ (closed \cup reported) :
        /\ reported' = reported \cup {t}
        /\ UNCHANGED <<opened, ran, closed>>

\* The client frees its entry, complete or not.
Close ==
    \E t \in opened \ closed :
        /\ closed' = closed \cup {t}
        /\ reported' = reported \ {t}
        /\ UNCHANGED <<opened, ran>>

Next == Open \/ Run \/ Report \/ Close

Spec == Init /\ [][Next]_svars

=============================================================================
