--------------------------- MODULE SuperLoopProofs ---------------------------
(***************************************************************************)
(* Proofs about the super loop for any set of U54s, any table of init      *)
(* functions and any position of IPI_QueuesInit in it, any transfer and    *)
(* any number of resets.                                                   *)
(***************************************************************************)
EXTENDS SuperLoop, FiniteSetTheorems, TLAPS

-----------------------------------------------------------------------------
(* Queues and messages *)

\* The queue from a U54 to the E51 is its own, and none from the E51 is it.
LEMMA QueueNumbers ==
    /\ \A u \in Harts : u \in 1..4 /\ ToE51(u) = 4 * u /\ ToE51(u) \in Queue
    /\ \A u, v \in Harts : ToE51(u) = ToE51(v) => u = v
    /\ \A u, v \in Harts : IPI_CalculateQueueIndex(E51, u) # ToE51(v)
    /\ \A u \in Harts : IPI_CalculateQueueIndex(E51, u) \in Queue
BY HartsAssumption DEF ToE51, IPI_CalculateQueueIndex, E51, Queue

\* What a message of the services looks like.
LEMMA Messages ==
    /\ TrainRequest \in Message
    /\ \A u \in Harts : /\ Launch(u) \in Message /\ Acked(u) \in Message
                        /\ SgdmaRequest(u) \in Message /\ <<E51, u, "ACK_COMPLETE">> \in Message
    /\ \A u : SgdmaRequest(u) \in Message => u \in Harts
    /\ \A u \in Harts : /\ TrainRequest # Launch(u) /\ TrainRequest # Acked(u)
                        /\ TrainRequest # SgdmaRequest(u)
                        /\ TrainRequest # <<E51, u, "ACK_COMPLETE">>
BY HartsAssumption DEF Message, TrainRequest, Launch, Acked, SgdmaRequest, E51

\* At most two kinds of message wait in the queue from a U54.
LEMMA MailPerQueue ==
    ASSUME mail \subseteq Message, NEW u \in Harts
    PROVE  Cardinality({m \in mail : IPI_CalculateQueueIndex(m[1], m[2]) = ToE51(u)}) \in 0..2
<1> DEFINE S == {m \in mail : IPI_CalculateQueueIndex(m[1], m[2]) = ToE51(u)}
           T == {Acked(u), SgdmaRequest(u)}
<1>1. S \subseteq T
  <2> SUFFICES ASSUME NEW m \in mail, IPI_CalculateQueueIndex(m[1], m[2]) = ToE51(u)
               PROVE  m \in T
    OBVIOUS
  <2>1. m \in Message
    OBVIOUS
  <2>2. CASE \E v \in Harts : \E type : m = <<E51, v, type>>
    BY <2>2, QueueNumbers
  <2>3. ASSUME NEW v \in Harts, NEW type \in {"ACK_COMPLETE", "SCATTERGATHER_DMA"},
               m = <<v, E51, type>>
        PROVE  m \in T
    <3>1. ToE51(v) = ToE51(u)
      BY <2>3 DEF ToE51
    <3>2. v = u
      BY <3>1, QueueNumbers
    <3>3. QED
      BY <2>3, <3>2 DEF Acked, SgdmaRequest
  <2>4. QED
    BY <2>1, <2>2, <2>3 DEF Message
<1>2. IsFiniteSet(T) /\ Cardinality(T) <= 2
  <2>1. IsFiniteSet({Acked(u)}) /\ Cardinality({Acked(u)}) = 1
    BY FS_Singleton
  <2>2. T = {Acked(u)} \cup {SgdmaRequest(u)}
    OBVIOUS
  <2>3. /\ IsFiniteSet({Acked(u)} \cup {SgdmaRequest(u)})
        /\ Cardinality({Acked(u)} \cup {SgdmaRequest(u)}) =
             IF SgdmaRequest(u) \in {Acked(u)} THEN Cardinality({Acked(u)})
             ELSE Cardinality({Acked(u)}) + 1
    BY <2>1, FS_AddElement, Zenon
  <2>4. QED
    BY <2>1, <2>2, <2>3
<1>3. Cardinality(S) \in Nat /\ Cardinality(S) <= Cardinality(T) /\ Cardinality(T) \in Nat
  BY <1>1, <1>2, FS_Subset, FS_CardinalityType
<1>4. QED
  BY <1>2, <1>3

\* IPI_PollReceive counts zero, one or two messages per queue.
LEMMA CountedOK ==
    ASSUME PlatformTypeOK PROVE Counted \in [Queue -> 0..2]
<1>1. ASSUME NEW q \in Queue, NEW u \in Harts, q = ToE51(u)
      PROVE  Cardinality({m \in mail : IPI_CalculateQueueIndex(m[1], m[2]) = q}) \in 0..2
  BY <1>1, MailPerQueue DEF PlatformTypeOK
<1>2. ASSUME NEW q \in Queue
      PROVE  (IF q \in fresh /\ \E u \in Harts : q = ToE51(u)
              THEN Cardinality({m \in mail : IPI_CalculateQueueIndex(m[1], m[2]) = q})
              ELSE count[q]) \in 0..2
  BY <1>1 DEF PlatformTypeOK
<1>3. QED
  BY <1>2 DEF Counted

-----------------------------------------------------------------------------
(* Types *)

\* What the types rest on besides themselves: a transfer has a block, and a
\* reset that is under way or about to be is within the bound.
TypeAux ==
    /\ sgdma = "transferring" => block >= 1
    /\ resetReq \/ fired # {} => resets < MaxResets

\* The table of machines has eight, and the loop comes round.
LEMMA Turns == Len(Machines) = 8 /\ \A t \in 1..8 : (t % 8) + 1 \in 1..8
<1>1. Len(Machines) = 8
  BY DEF Machines
<1>2. \A t \in 1..8 : (t % 8) + 1 \in 1..8
  OBVIOUS
<1>3. QED
  BY <1>1, <1>2

\* The values after reset are in range.
LEMMA StartValues ==
    /\ [q \in Queue |-> 0] \in [Queue -> 0..2]
    /\ [u \in Harts |-> "Idle"] \in [Harts -> {"Idle", "Running"}]
    /\ 0 \in 0..(NumInit - 1)
<1>1. [q \in Queue |-> 0] \in [Queue -> 0..2]
  OBVIOUS
<1>2. [u \in Harts |-> "Idle"] \in [Harts -> {"Idle", "Running"}]
  OBVIOUS
<1>3. 0 \in 0..(NumInit - 1)
  BY InitAssumption
<1>4. QED
  BY <1>1, <1>2, <1>3

\* The state after reset is well typed.
LEMMA TypeInit == Init => TypeOK /\ TypeAux
<1> SUFFICES ASSUME Init PROVE TypeOK /\ TypeAux
  OBVIOUS
<1>1. PlatformTypeOK
  BY StartValues, Zenon DEF Init, PlatformInit, PlatformTypeOK
<1>2. StartupTypeOK /\ DdrTypeOK /\ BootTypeOK /\ TinyCliTypeOK /\ WdogTypeOK
  BY StartValues, Zenon
     DEF Init, StartupInit, StartupTypeOK, DdrInit, DdrTypeOK, BootInit, BootTypeOK,
         TinyCliInit, TinyCliTypeOK, WdogInit, WdogTypeOK
<1>3. SgdmaTypeOK /\ TypeAux
  BY BlocksAssumption DEF Init, PlatformInit, WdogInit, SgdmaInit, SgdmaTypeOK, TypeAux
<1>4. QED
  BY <1>1, <1>2, <1>3, Turns, BoundsAssumption DEF Init, TypeOK

\* Components a step leaves alone stay well typed.
LEMMA Untouched ==
    ASSUME TypeOK
    PROVE  /\ UNCHANGED platformVars => PlatformTypeOK'
           /\ UNCHANGED startupVars => StartupTypeOK'
           /\ UNCHANGED ddrVars => DdrTypeOK'
           /\ UNCHANGED bootVars => BootTypeOK'
           /\ UNCHANGED tinycli => TinyCliTypeOK'
           /\ UNCHANGED wdogVars => WdogTypeOK'
           /\ UNCHANGED sgdmaVars => SgdmaTypeOK'
BY DEF TypeOK, platformVars, PlatformTypeOK, startupVars, StartupTypeOK, ddrVars, DdrTypeOK,
       bootVars, BootTypeOK, TinyCliTypeOK, wdogVars, WdogTypeOK, sgdmaVars, SgdmaTypeOK

\* A turn of the loop and the counters of a run of a machine.
LEMMA RunOK ==
    ASSUME TypeOK, NEW machine, Run(machine)
    PROVE  /\ turn' \in 1..Len(Machines) /\ resets' \in 0..MaxResets
           /\ transfers' \in 0..MaxTransfers /\ resets' = resets /\ ~resetReq
BY Turns DEF TypeOK, Run

\* HSS_BootInit and HSS_BootHarts.
LEMMA AttemptBootOK ==
    ASSUME TypeOK, AttemptBoot
    PROVE  /\ image' \in BOOLEAN /\ restart' \subseteq Harts
           /\ memory' \in {"untrained", "trained", "zeroed", "image", "partial"}
           /\ triggers' \subseteq Event /\ triggers \subseteq triggers'
BY DEF AttemptBoot, HSS_Trigger_Notify, TypeOK, BootTypeOK, DdrTypeOK, PlatformTypeOK, Event

\* The poll takes messages off the queues and counts.
LEMMA IpiPollOK ==
    ASSUME TypeOK, IpiPoll
    PROVE  PlatformTypeOK' /\ ipiPoll' \in {"init", "monitoring"}
<1>1. PlatformTypeOK /\ ipiPoll \in {"init", "monitoring"}
  BY DEF TypeOK
<1>2. CASE ipiPoll = "init"
  BY <1>1, <1>2 DEF IpiPoll, PlatformTypeOK
<1>3. CASE ipiPoll = "monitoring"
  <2> DEFINE status == \E u \in Harts : ToE51(u) \in fresh
             taken == {u \in Harts : status /\ Counted[ToE51(u)] > 0 /\ Acked(u) \in mail}
  <2>1. /\ count' = [q \in Queue |->
              IF \E u \in taken : q = ToE51(u) THEN Counted[q] - 1 ELSE Counted[q]]
        /\ mail' = mail \ {Acked(u) : u \in taken}
        /\ fresh' = fresh \ {ToE51(u) : u \in Harts}
        /\ UNCHANGED <<triggers, resetReq, ipiPoll>>
    BY <1>3 DEF IpiPoll
  <2>2. Counted \in [Queue -> 0..2]
    BY <1>1, CountedOK
  <2>3. \A u \in taken : Counted[ToE51(u)] > 0
    OBVIOUS
  <2> HIDE DEF taken
  <2>4. \A q \in Queue : (IF \E u \in taken : q = ToE51(u) THEN Counted[q] - 1 ELSE Counted[q]) \in 0..2
    BY <2>2, <2>3
  <2>5. count' \in [Queue -> 0..2]
    BY <2>1, <2>4
  <2>6. QED
    BY <1>1, <2>1, <2>5 DEF PlatformTypeOK
<1>4. QED
  BY <1>1, <1>2, <1>3

\* The scatter-gather machine takes requests that were sent.
LEMMA SgdmaOK ==
    ASSUME TypeOK, TypeAux, SgdmaStep
    PROVE  PlatformTypeOK' /\ SgdmaTypeOK' /\ (sgdma' = "transferring" => block' >= 1)
<1>1. PlatformTypeOK /\ SgdmaTypeOK
  BY DEF TypeOK
<1>2. Len(Blocks) \in Nat
  BY BlocksAssumption
<1>3. CASE sgdma_init_handler
  BY <1>1, <1>3 DEF sgdma_init_handler, platformVars, PlatformTypeOK, SgdmaTypeOK
<1>4. CASE sgdma_idle_handler
  <2>1. (nextHart + 1) % 5 \in 0..4
    BY <1>1 DEF SgdmaTypeOK
  <2>2. CASE SgdmaRequest(nextHart) \in mail /\ SgdmaAccept(nextHart)
    <3>1. nextHart \in Harts
      BY <1>1, <2>2, Messages DEF PlatformTypeOK
    <3>2. count' \in [Queue -> 0..2]
      <4>1. ToE51(nextHart) \in Queue
        BY <3>1, QueueNumbers
      <4>2. \A n \in 0..2 : OneLess(n) \in 0..2
        BY DEF OneLess
      <4>3. QED
        BY <1>1, <2>2, <4>1, <4>2 DEF SgdmaAccept, PlatformTypeOK
    <3>3. PlatformTypeOK'
      BY <1>1, <1>4, <2>2, <3>1, <3>2, QueueNumbers, Messages
         DEF sgdma_idle_handler, SgdmaAccept, PlatformTypeOK
    <3>4. QED
      BY <1>1, <1>2, <1>4, <2>1, <2>2, <3>1, <3>3
         DEF sgdma_idle_handler, SgdmaAccept, SgdmaTypeOK
  <2>3. CASE UNCHANGED <<count, mail, fresh, block, activeHart, sgdma>>
    BY <1>1, <1>4, <2>1, <2>3 DEF sgdma_idle_handler, PlatformTypeOK, SgdmaTypeOK
  <2>4. QED
    BY <1>4, <2>2, <2>3 DEF sgdma_idle_handler
<1>5. CASE sgdma_transferring_handler
  <2>1. PlatformTypeOK'
    BY <1>1, <1>5 DEF sgdma_transferring_handler, platformVars, PlatformTypeOK
  <2>2. block >= 1 /\ block \in 0..(Len(Blocks) + 1) /\ remaining \in Nat
    BY <1>1, <1>5 DEF sgdma_transferring_handler, TypeAux, SgdmaTypeOK
  <2>3. CASE block <= Len(Blocks)
    <3>1. Blocks[block] \in Nat
      BY <1>2, <2>2, <2>3, BlocksAssumption
    <3>2. remaining' = OneLess(IF remaining = 0 THEN Blocks[block] ELSE remaining)
      BY <1>5, <2>3 DEF sgdma_transferring_handler
    <3>3. remaining' \in Nat
      BY <2>2, <3>1, <3>2 DEF OneLess
    <3>4. block' \in 1..(Len(Blocks) + 1)
      BY <1>2, <1>5, <2>2, <2>3 DEF sgdma_transferring_handler
    <3>5. QED
      BY <1>1, <1>2, <1>5, <2>1, <2>3, <3>3, <3>4 DEF sgdma_transferring_handler, SgdmaTypeOK
  <2>4. CASE ~(block <= Len(Blocks))
    BY <1>1, <1>2, <1>5, <2>1, <2>4 DEF sgdma_transferring_handler, SgdmaTypeOK
  <2>5. QED
    BY <2>3, <2>4
<1>6. QED
  BY <1>3, <1>4, <1>5 DEF SgdmaStep

\* The init functions, IPI_QueuesInit among them.
LEMMA StartupOK ==
    ASSUME TypeOK, StartupStep
    PROVE  PlatformTypeOK' /\ StartupTypeOK' /\ UNCHANGED resetReq
<1>1. PlatformTypeOK /\ StartupTypeOK
  BY DEF TypeOK
<1>2. StartupTypeOK'
  BY <1>1, InitAssumption DEF StartupStep, StartupTypeOK, startupVars
<1>3. CASE IPI_QueuesInit /\ UNCHANGED resetReq
  BY <1>1, <1>2, <1>3 DEF IPI_QueuesInit, HSS_Trigger_Notify, PlatformTypeOK, Event
<1>4. CASE UNCHANGED platformVars
  BY <1>1, <1>2, <1>4 DEF platformVars, PlatformTypeOK
<1>5. CASE HSS_Trigger_Notify({"STARTUP_COMPLETE"}) /\ UNCHANGED <<mail, count, fresh, resetReq>>
  BY <1>1, <1>2, <1>5 DEF HSS_Trigger_Notify, PlatformTypeOK, Event
<1>6. QED
  BY <1>3, <1>4, <1>5 DEF StartupStep, RunInitFunction

\* The machine of the ddr service and the training on U54_1.
LEMMA DdrOK ==
    ASSUME TypeOK, DdrStep \/ TrainStep
    PROVE  PlatformTypeOK' /\ DdrTypeOK' /\ UNCHANGED resetReq
<1>1. PlatformTypeOK /\ DdrTypeOK
  BY DEF TypeOK
<1>2. DdrTypeOK'
  BY <1>1 DEF DdrStep, ddr_init_handler, ddr_train_handler, ddr_idle_handler,
     ddr_retrain_handler, TrainStep, TrainTake, TrainMemory, TrainZero, TrainDone, DdrTypeOK
<1>3. CASE UNCHANGED platformVars
  BY <1>1, <1>2, <1>3 DEF platformVars, PlatformTypeOK
<1>4. CASE ddr_init_handler
  <2>1. CASE IPI_Send(TrainRequest)
    <3>1. fresh' \subseteq Queue
      BY <1>1, <2>1, QueueNumbers, HartsAssumption DEF IPI_Send, TrainRequest, PlatformTypeOK
    <3>2. QED
      BY <1>1, <1>2, <1>4, <2>1, <3>1, Messages
         DEF ddr_init_handler, IPI_Send, PlatformTypeOK
  <2>2. CASE UNCHANGED <<mail, fresh, ddr>>
    BY <1>1, <1>2, <1>4, <2>2 DEF ddr_init_handler, PlatformTypeOK
  <2>3. QED
    BY <1>4, <2>1, <2>2 DEF ddr_init_handler
<1>5. CASE TrainDone
  BY <1>1, <1>2, <1>5 DEF TrainDone, HSS_Trigger_Notify, PlatformTypeOK, Event
<1>6. QED
  BY <1>3, <1>4, <1>5 DEF DdrStep, ddr_train_handler, ddr_idle_handler,
     ddr_retrain_handler, TrainStep, TrainTake, TrainMemory, TrainZero

\* The boot machines and a hart that starts.
LEMMA BootOK ==
    ASSUME TypeOK, BootStep \/ \E u \in Harts : HartStart(u)
    PROVE  PlatformTypeOK' /\ BootTypeOK' /\ UNCHANGED <<ddrVars, resetReq>>
<1>1. PlatformTypeOK /\ BootTypeOK
  BY DEF TypeOK
<1>2. CASE BootStep
  <2>1. CASE UNCHANGED <<mail, fresh, restart>>
    BY <1>1, <1>2, <2>1 DEF BootStep, PlatformTypeOK, BootTypeOK
  <2>2. ASSUME NEW launched \in SUBSET Harts,
               mail' = mail \cup {Launch(u) : u \in launched},
               fresh' = fresh \cup {IPI_CalculateQueueIndex(E51, u) : u \in launched},
               restart' = {}
        PROVE  PlatformTypeOK' /\ BootTypeOK' /\ UNCHANGED <<ddrVars, resetReq>>
    <3>1. \A u \in launched : Launch(u) \in Message /\ IPI_CalculateQueueIndex(E51, u) \in Queue
      BY QueueNumbers, Messages
    <3>2. mail' \subseteq Message
      BY <1>1, <2>2, <3>1 DEF PlatformTypeOK
    <3>3. fresh' \subseteq Queue
      BY <1>1, <2>2, <3>1 DEF PlatformTypeOK
    <3>4. UNCHANGED <<triggers, count, resetReq, image, hartState, ddrVars>>
      BY <1>2 DEF BootStep
    <3>5. QED
      BY <1>1, <2>2, <3>2, <3>3, <3>4 DEF PlatformTypeOK, BootTypeOK
  <2>3. (IF image THEN restart ELSE {}) \in SUBSET Harts
    BY <1>1 DEF BootTypeOK
  <2>4. QED
    BY <1>2, <2>1, <2>2, <2>3 DEF BootStep
<1>3. ASSUME NEW u \in Harts, HartStart(u)
      PROVE  PlatformTypeOK' /\ BootTypeOK' /\ UNCHANGED <<ddrVars, resetReq>>
  <2>1. mail' \subseteq Message /\ fresh' \subseteq Queue
    <3>1. Acked(u) \in Message /\ ToE51(u) \in Queue
      BY QueueNumbers, Messages
    <3>2. mail' = (mail \ {Launch(u)}) \cup {Acked(u)} /\ fresh' = fresh \cup {ToE51(u)}
      BY <1>3 DEF HartStart, Acked
    <3>3. QED
      BY <1>1, <3>1, <3>2 DEF PlatformTypeOK
  <2>2. QED
    BY <1>1, <1>3, <2>1 DEF HartStart, PlatformTypeOK, BootTypeOK
<1>4. QED
  BY <1>2, <1>3

\* The command line.
LEMMA TinyCliOK ==
    ASSUME TypeOK, TinyCliStep
    PROVE  /\ PlatformTypeOK' /\ DdrTypeOK' /\ BootTypeOK' /\ TinyCliTypeOK'
           /\ triggers \subseteq triggers' /\ UNCHANGED <<mail, count, fresh, ddr, trainer>>
<1>1. PlatformTypeOK /\ DdrTypeOK /\ BootTypeOK /\ TinyCliTypeOK
  BY DEF TypeOK
<1>2. /\ UNCHANGED <<mail, count, fresh, ddr, trainer, hartState>>
      /\ resetReq' \in BOOLEAN /\ TinyCliTypeOK'
  BY <1>1 DEF TinyCliStep, tinycli_init_handler, tinycli_preboot_handler, tinycli_doboot_handler,
     tinycli_readline_handler, tinycli_parseline_handler, TinyCliTypeOK, PlatformTypeOK,
     platformVars, bootVars, ddrVars
<1>3. AttemptBoot \/ UNCHANGED <<triggers, memory, image, restart>>
  BY DEF TinyCliStep, tinycli_init_handler, tinycli_preboot_handler, tinycli_doboot_handler,
     tinycli_readline_handler, tinycli_parseline_handler, platformVars, bootVars, ddrVars
<1>4. CASE AttemptBoot
  BY <1>1, <1>2, <1>4, AttemptBootOK DEF PlatformTypeOK, DdrTypeOK, BootTypeOK
<1>5. CASE UNCHANGED <<triggers, memory, image, restart>>
  BY <1>1, <1>2, <1>5 DEF PlatformTypeOK, DdrTypeOK, BootTypeOK
<1>6. QED
  BY <1>3, <1>4, <1>5

\* Every step keeps the state well typed.
LEMMA TypeNext == TypeOK /\ TypeAux /\ [Next]_vars => TypeOK' /\ TypeAux'
<1> SUFFICES ASSUME TypeOK, TypeAux, [Next]_vars PROVE TypeOK' /\ TypeAux'
  OBVIOUS
<1> DEFINE Rest == /\ turn \in 1..Len(Machines)
                   /\ ipiPoll \in {"init", "monitoring"} /\ healthmon \in {"init", "monitoring"}
                   /\ resets \in 0..MaxResets /\ transfers \in 0..MaxTransfers
<1>0. Rest
  BY DEF TypeOK
<1>1. CASE IpiPoll
  BY <1>1, IpiPollOK, RunOK, Untouched
     DEF IpiPoll, TypeOK, TypeAux, startupVars, ddrVars, bootVars, wdogVars, sgdmaVars
<1>2. CASE Boot
  <2>1. PlatformTypeOK' /\ BootTypeOK' /\ UNCHANGED <<ddrVars, resetReq>>
    BY <1>2, BootOK DEF Boot
  <2>2. QED
    BY <1>0, <1>2, <2>1, RunOK, Untouched DEF Boot, TypeOK, TypeAux, wdogVars, sgdmaVars
<1>3. CASE Wdog
  <2>1. PlatformTypeOK' /\ WdogTypeOK' /\ fired' = fired /\ (resetReq' => resetReq \/ fired # {})
    <3>1. PlatformTypeOK /\ WdogTypeOK
      BY DEF TypeOK
    <3>2. CASE wdog_init_handler \/ wdog_idle_handler
      BY <3>1, <3>2 DEF wdog_init_handler, wdog_idle_handler, platformVars, PlatformTypeOK,
         WdogTypeOK
    <3>3. CASE wdog_monitoring_handler
      BY <3>1, <3>3 DEF wdog_monitoring_handler, HSS_reboot, PlatformTypeOK, WdogTypeOK, wdogVars
    <3>4. QED
      BY <1>3, <3>2, <3>3 DEF Wdog, WdogStep
  <2>2. QED
    BY <1>0, <1>3, <2>1, RunOK, Untouched DEF Wdog, TypeOK, TypeAux, sgdmaVars
<1>4. CASE Sgdma
  <2>1. PlatformTypeOK' /\ SgdmaTypeOK' /\ (sgdma' = "transferring" => block' >= 1)
    BY <1>4, SgdmaOK DEF Sgdma
  <2>2. resetReq' = resetReq
    BY <1>4 DEF Sgdma, SgdmaStep, sgdma_init_handler, sgdma_idle_handler,
       sgdma_transferring_handler, platformVars
  <2>3. QED
    BY <1>0, <1>4, <2>1, <2>2, RunOK, Untouched DEF Sgdma, TypeOK, TypeAux, wdogVars
<1>5. CASE Ddr
  <2>1. PlatformTypeOK' /\ DdrTypeOK' /\ UNCHANGED resetReq
    BY <1>5, DdrOK DEF Ddr
  <2>2. QED
    BY <1>0, <1>5, <2>1, RunOK, Untouched DEF Ddr, TypeOK, TypeAux, wdogVars, sgdmaVars
<1>6. CASE Cli
  <2>1. PlatformTypeOK' /\ DdrTypeOK' /\ BootTypeOK' /\ TinyCliTypeOK'
    BY <1>6, TinyCliOK DEF Cli
  <2>2. QED
    BY <1>0, <1>6, <2>1, RunOK, Untouched DEF Cli, TypeOK, TypeAux, wdogVars, sgdmaVars
<1>7. CASE HealthMon
  BY <1>0, <1>7, RunOK, Untouched
     DEF HealthMon, TypeOK, TypeAux, wdogVars, sgdmaVars, platformVars
<1>8. CASE Startup
  <2>1. PlatformTypeOK' /\ StartupTypeOK' /\ UNCHANGED resetReq
    BY <1>8, StartupOK DEF Startup
  <2>2. QED
    BY <1>0, <1>8, <2>1, RunOK, Untouched DEF Startup, TypeOK, TypeAux, wdogVars, sgdmaVars
<1>9. CASE U54Train
  <2>1. PlatformTypeOK' /\ DdrTypeOK' /\ UNCHANGED resetReq
    BY <1>9, DdrOK DEF U54Train
  <2>2. QED
    BY <1>0, <1>9, <2>1, Untouched DEF U54Train, TypeOK, TypeAux, wdogVars, sgdmaVars
<1>10. ASSUME NEW u \in Harts, U54Start(u) PROVE TypeOK' /\ TypeAux'
  <2>1. PlatformTypeOK' /\ BootTypeOK' /\ UNCHANGED <<ddrVars, resetReq>>
    BY <1>10, BootOK DEF U54Start
  <2>2. QED
    BY <1>0, <1>10, <2>1, Untouched DEF U54Start, TypeOK, TypeAux, wdogVars, sgdmaVars
<1>11. ASSUME NEW u \in Harts, U54Transfer(u) PROVE TypeOK' /\ TypeAux'
  <2>1. PlatformTypeOK'
    <3>1. SgdmaRequest(u)[1] = u /\ SgdmaRequest(u)[2] = E51
      BY DEF SgdmaRequest
    <3>2. fresh' \subseteq Queue
      BY <1>11, <3>1, QueueNumbers DEF U54Transfer, IPI_Send, ToE51, TypeOK, PlatformTypeOK
    <3>3. QED
      BY <1>11, <3>2, Messages DEF U54Transfer, IPI_Send, TypeOK, PlatformTypeOK
  <2>2. transfers' \in 0..MaxTransfers
    BY <1>0, <1>11, BoundsAssumption DEF U54Transfer
  <2>3. QED
    BY <1>0, <1>11, <2>1, <2>2, Untouched DEF U54Transfer, TypeOK, TypeAux, wdogVars, sgdmaVars
<1>12. ASSUME NEW u \in Harts, WatchdogFires(u) PROVE TypeOK' /\ TypeAux'
  <2>1. WdogTypeOK'
    BY <1>12 DEF WatchdogFires, TypeOK, WdogTypeOK
  <2>2. QED
    BY <1>0, <1>12, <2>1, Untouched
       DEF WatchdogFires, TypeOK, TypeAux, platformVars, sgdmaVars
<1>13. CASE ColdReset
  <2>1. PlatformTypeOK'
    BY <1>13, StartValues, Zenon DEF ColdReset, PlatformTypeOK
  <2>2. StartupTypeOK' /\ DdrTypeOK' /\ BootTypeOK' /\ TinyCliTypeOK' /\ WdogTypeOK'
    BY <1>13, StartValues, Zenon DEF ColdReset, StartupTypeOK, DdrTypeOK, BootTypeOK,
       TinyCliTypeOK, WdogTypeOK
  <2>3. SgdmaTypeOK' /\ TypeAux'
    BY <1>13, BlocksAssumption DEF ColdReset, SgdmaTypeOK, TypeAux
  <2>4. resets' \in 0..MaxResets
    BY <1>0, <1>13, BoundsAssumption DEF ColdReset, TypeAux
  <2>5. QED
    BY <1>13, <2>1, <2>2, <2>3, <2>4, Turns, BoundsAssumption DEF ColdReset, TypeOK
<1>14. CASE UNCHANGED vars
  BY <1>0, <1>14, Untouched DEF vars, TypeOK, TypeAux, platformVars, wdogVars, sgdmaVars
<1>15. QED
  BY <1>1, <1>2, <1>3, <1>4, <1>5, <1>6, <1>7, <1>8, <1>9, <1>10, <1>11, <1>12, <1>13, <1>14
     DEF Next, E51Step

\* Every machine of the super loop stays in its states, indexes only queues
\* and harts that exist, and never resets more often than it is made to.
THEOREM TypeCorrect == Spec => []TypeOK
<1>1. QED
  BY TypeInit, TypeNext, PTL DEF Spec

-----------------------------------------------------------------------------
(* The order of start-up, training and boot *)

\* IPI_QueuesInit is behind the loop once IPI_INITIALIZED is notified, and the
\* ddr machine asks for the training only then.
QueuesFirst ==
    /\ "IPI_INITIALIZED" \in triggers => initIndex > QueuesAt
    /\ ddr # "init" => "IPI_INITIALIZED" \in triggers

\* The request is under way, or being served by U54_1, or the memory is trained.
TrainingOnce ==
    /\ ddr = "init" => TrainRequest \notin mail /\ "DDR_TRAINED" \notin triggers
    /\ trainer # "none" => TrainRequest \in mail
    /\ TrainRequest \in mail => "DDR_TRAINED" \notin triggers
    /\ TrainRequestKept

\* Images are only put into trained memory, by a command line that waits for
\* training and start-up.
ImagesLast ==
    /\ "STARTUP_COMPLETE" \in triggers => startup = "boot"
    /\ tinycli # "init" => {"DDR_TRAINED", "STARTUP_COMPLETE"} \subseteq triggers
    /\ image => memory = "image" /\ tinycli # "init"

\* What the services rely on although none of them waits for another.
LoopInv == QueuesFirst /\ TrainingOnce /\ ImagesLast

\* After reset.
LEMMA LoopInit == Init => LoopInv
BY DEF Init, PlatformInit, StartupInit, DdrInit, BootInit, TinyCliInit, LoopInv, QueuesFirst,
       TrainingOnce, ImagesLast, TrainRequestKept

\* Steps that leave the training alone.
LEMMA TrainingUntouched ==
    ASSUME LoopInv, UNCHANGED <<ddr, trainer>>,
           TrainRequest \in mail' <=> TrainRequest \in mail,
           "DDR_TRAINED" \in triggers' <=> "DDR_TRAINED" \in triggers
    PROVE  TrainingOnce'
BY DEF LoopInv, TrainingOnce, TrainRequestKept, HSS_Trigger_IsNotified, TrainRequest

\* Steps that leave start-up, image and command line alone.
LEMMA ImagesUntouched ==
    ASSUME LoopInv, UNCHANGED <<triggers, startup, image, memory, tinycli>>
    PROVE  ImagesLast'
BY DEF LoopInv, ImagesLast

\* Steps that leave the triggers, the init functions and the ddr machine alone.
LEMMA QueuesUntouched ==
    ASSUME LoopInv, initIndex' = initIndex, ddr' = ddr,
           "IPI_INITIALIZED" \in triggers' <=> "IPI_INITIALIZED" \in triggers
    PROVE  QueuesFirst'
BY DEF LoopInv, QueuesFirst

\* A step of the command line.
LEMMA CliLoop ==
    ASSUME TypeOK, LoopInv, Cli
    PROVE  LoopInv'
<1>1. /\ UNCHANGED <<mail, ddr, trainer, startup, initIndex>> /\ triggers \subseteq triggers'
      /\ TinyCliStep
  BY TinyCliOK DEF Cli, startupVars
<1>2. triggers' \subseteq triggers \cup {"POST_BOOT"}
  BY <1>1 DEF TinyCliStep, tinycli_init_handler, tinycli_preboot_handler, tinycli_doboot_handler,
     tinycli_readline_handler, tinycli_parseline_handler, AttemptBoot, HSS_Trigger_Notify,
     platformVars
<1>3. QueuesFirst' /\ TrainingOnce'
  BY <1>1, <1>2, QueuesUntouched, TrainingUntouched
<1>4. tinycli' # "init" => {"DDR_TRAINED", "STARTUP_COMPLETE"} \subseteq triggers
  BY <1>1 DEF TinyCliStep, tinycli_init_handler, tinycli_preboot_handler, tinycli_doboot_handler,
     tinycli_readline_handler, tinycli_parseline_handler, HSS_Trigger_IsNotified, LoopInv,
     ImagesLast
<1>5. image' => memory' = "image" /\ tinycli' # "init"
  <2>1. CASE UNCHANGED <<image, memory>>
    BY <1>1, <2>1 DEF TinyCliStep, tinycli_init_handler, tinycli_preboot_handler,
       tinycli_doboot_handler, tinycli_readline_handler, tinycli_parseline_handler,
       LoopInv, ImagesLast
  <2>2. CASE AttemptBoot /\ tinycli \in {"doboot", "parseline"}
    <3>1. tinycli' # "init"
      BY <1>1, <2>2 DEF TinyCliStep, tinycli_init_handler, tinycli_preboot_handler,
         tinycli_doboot_handler, tinycli_readline_handler, tinycli_parseline_handler
    <3>2. image' => memory' = "image"
      BY <2>2 DEF AttemptBoot, LoopInv, ImagesLast
    <3>3. QED
      BY <3>1, <3>2
  <2>3. QED
    BY <1>1, <2>1, <2>2 DEF TinyCliStep, tinycli_init_handler, tinycli_preboot_handler,
       tinycli_doboot_handler, tinycli_readline_handler, tinycli_parseline_handler,
       bootVars, ddrVars
<1>6. ImagesLast'
  BY <1>1, <1>2, <1>4, <1>5 DEF LoopInv, ImagesLast
<1>7. QED
  BY <1>3, <1>6 DEF LoopInv

\* A step of the init functions: IPI_QueuesInit finds no request.
LEMMA StartupLoop ==
    ASSUME TypeOK, LoopInv, Startup
    PROVE  LoopInv'
<1>1. UNCHANGED <<ddr, trainer, memory, image, tinycli>> /\ StartupStep
  BY DEF Startup, ddrVars, bootVars
<1>2. initIndex \in Int /\ QueuesAt \in Int
  BY InitAssumption DEF TypeOK, StartupTypeOK
<1>3. CASE startup = "init" /\ initIndex = QueuesAt /\ IPI_QueuesInit
           /\ initIndex' = initIndex + 1 /\ startup' = startup
  <2>1. ddr = "init" /\ mail' = {} /\ triggers' = triggers \cup {"IPI_INITIALIZED"}
    BY <1>2, <1>3 DEF LoopInv, QueuesFirst, IPI_QueuesInit, HSS_Trigger_Notify
  <2>2. TrainingOnce'
    BY <1>1, <2>1, TrainingUntouched DEF LoopInv, TrainingOnce
  <2>3. QueuesFirst' /\ ImagesLast'
    BY <1>1, <1>2, <1>3, <2>1 DEF LoopInv, QueuesFirst, ImagesLast
  <2>4. QED
    BY <2>2, <2>3 DEF LoopInv
<1>4. CASE startup = "init" /\ UNCHANGED platformVars /\ initIndex' = initIndex + 1
           /\ startup' = startup
  <2>1. TrainingOnce' /\ ImagesLast'
    BY <1>1, <1>4, TrainingUntouched, ImagesUntouched DEF platformVars
  <2>2. QueuesFirst'
    BY <1>1, <1>2, <1>4 DEF LoopInv, QueuesFirst, platformVars
  <2>3. QED
    BY <2>1, <2>2 DEF LoopInv
<1>5. CASE /\ startup' = "boot" /\ HSS_Trigger_Notify({"STARTUP_COMPLETE"})
           /\ UNCHANGED <<initIndex, mail>>
  <2>1. triggers' = triggers \cup {"STARTUP_COMPLETE"}
    BY <1>5 DEF HSS_Trigger_Notify
  <2>2. TrainingOnce' /\ QueuesFirst'
    BY <1>1, <1>5, <2>1, TrainingUntouched, QueuesUntouched
  <2>3. ImagesLast'
    BY <1>1, <1>5, <2>1 DEF LoopInv, ImagesLast
  <2>4. QED
    BY <2>2, <2>3 DEF LoopInv
<1>6. CASE UNCHANGED <<startupVars, platformVars>>
  BY <1>1, <1>6, TrainingUntouched, ImagesUntouched, QueuesUntouched
     DEF LoopInv, startupVars, platformVars
<1>7. QED
  BY <1>1, <1>3, <1>4, <1>5, <1>6 DEF StartupStep, RunInitFunction

\* A step of the ddr machine.
LEMMA DdrLoop ==
    ASSUME TypeOK, LoopInv, Ddr
    PROVE  LoopInv'
<1>1. /\ UNCHANGED <<triggers, startup, initIndex, trainer, memory, image, tinycli>>
      /\ DdrStep
  BY DEF Ddr, startupVars, bootVars, DdrStep, ddr_init_handler, ddr_train_handler,
     ddr_idle_handler, ddr_retrain_handler, platformVars
<1>2. ImagesLast'
  BY <1>1, ImagesUntouched
<1>3. QueuesFirst'
  BY <1>1 DEF LoopInv, QueuesFirst, DdrStep, ddr_init_handler, ddr_train_handler,
     ddr_idle_handler, ddr_retrain_handler, HSS_Trigger_IsNotified
<1>4. TrainingOnce'
  <2>1. CASE ddr_init_handler
    <3>1. CASE UNCHANGED <<mail, fresh, ddr>>
      BY <1>1, <3>1, TrainingUntouched
    <3>2. CASE IPI_Send(TrainRequest) /\ ddr' = "train"
      <4>1. TrainRequest \in mail' /\ "DDR_TRAINED" \notin triggers'
        BY <1>1, <2>1, <3>2 DEF IPI_Send, ddr_init_handler, LoopInv, TrainingOnce
      <4>2. QED
        BY <3>2, <4>1 DEF TrainingOnce, TrainRequestKept, TrainRequest
    <3>3. QED
      BY <2>1, <3>1, <3>2 DEF ddr_init_handler
  <2>2. CASE ddr_train_handler \/ ddr_idle_handler \/ ddr_retrain_handler
    <3>1. ddr # "init" /\ ddr' # "init" /\ mail' = mail /\ (ddr' = "train" => ddr = "train")
      BY <2>2 DEF ddr_train_handler, ddr_idle_handler, ddr_retrain_handler, platformVars
    <3>2. QED
      BY <1>1, <3>1 DEF LoopInv, TrainingOnce, TrainRequestKept, HSS_Trigger_IsNotified,
         TrainRequest
  <2>3. QED
    BY <1>1, <2>1, <2>2 DEF DdrStep
<1>5. QED
  BY <1>2, <1>3, <1>4 DEF LoopInv

\* A step of the training on U54_1: no image is in the memory it writes.
LEMMA TrainLoop ==
    ASSUME TypeOK, LoopInv, U54Train
    PROVE  LoopInv'
<1>1. UNCHANGED <<startup, initIndex, ddr, image, tinycli>> /\ TrainStep
  BY DEF U54Train, startupVars, bootVars, TrainStep, TrainTake, TrainMemory, TrainZero, TrainDone
<1>2. CASE TrainTake \/ TrainMemory \/ TrainZero
  <2>1. UNCHANGED <<triggers, mail>> /\ TrainRequest \in mail
    BY <1>2 DEF TrainTake, TrainMemory, TrainZero, platformVars, LoopInv, TrainingOnce
  <2>2. ~image
    BY <2>1 DEF LoopInv, TrainingOnce, ImagesLast
  <2>3. QED
    BY <1>1, <2>1, <2>2
       DEF LoopInv, QueuesFirst, TrainingOnce, ImagesLast, TrainRequestKept,
           HSS_Trigger_IsNotified, TrainRequest
<1>3. CASE TrainDone
  <2>1. /\ triggers' = triggers \cup {"DDR_TRAINED"} /\ mail' = mail \ {TrainRequest}
        /\ trainer' = "none" /\ memory' = memory /\ TrainRequest \in mail
    BY <1>3 DEF TrainDone, HSS_Trigger_Notify, LoopInv, TrainingOnce
  <2>2. ddr # "init"
    BY <2>1 DEF LoopInv, TrainingOnce
  <2>3. TrainRequest \notin mail' /\ "DDR_TRAINED" \in triggers'
    BY <2>1
  <2>4. TrainingOnce'
    BY <1>1, <2>1, <2>2, <2>3
       DEF TrainingOnce, TrainRequestKept, HSS_Trigger_IsNotified, TrainRequest
  <2>5. QueuesFirst' /\ ImagesLast'
    BY <1>1, <2>1 DEF LoopInv, QueuesFirst, ImagesLast
  <2>6. QED
    BY <2>4, <2>5 DEF LoopInv
<1>4. QED
  BY <1>1, <1>2, <1>3 DEF TrainStep

\* The other steps of the E51 and of the U54s put no request to train into the
\* queue and take none out of it.
LEMMA OthersKeepTraining ==
    ASSUME TypeOK,
           \/ IpiPoll \/ Boot \/ Sgdma \/ Wdog \/ HealthMon
           \/ \E u \in Harts : U54Start(u) \/ U54Transfer(u) \/ WatchdogFires(u)
    PROVE  TrainRequest \in mail' <=> TrainRequest \in mail
<1>1. CASE IpiPoll
  <2>1. CASE mail' = mail
    BY <2>1
  <2>2. ASSUME NEW taken \in SUBSET Harts, mail' = mail \ {Acked(u) : u \in taken}
        PROVE  TrainRequest \in mail' <=> TrainRequest \in mail
    BY <2>2, Messages
  <2>3. QED
    BY <1>1, <2>1, <2>2 DEF IpiPoll
<1>2. CASE Boot
  <2>1. CASE mail' = mail
    BY <2>1
  <2>2. ASSUME NEW launched \in SUBSET Harts, mail' = mail \cup {Launch(u) : u \in launched}
        PROVE  TrainRequest \in mail' <=> TrainRequest \in mail
    BY <2>2, Messages
  <2>3. (IF image THEN restart ELSE {}) \in SUBSET Harts
    BY DEF TypeOK, BootTypeOK
  <2>4. QED
    BY <1>2, <2>1, <2>2, <2>3 DEF Boot, BootStep
<1>3. CASE Sgdma
  <2>1. CASE mail' = mail
    BY <2>1
  <2>2. ASSUME NEW u \in Harts,
               mail' = (mail \ {SgdmaRequest(u)}) \cup {<<E51, u, "ACK_COMPLETE">>}
        PROVE  TrainRequest \in mail' <=> TrainRequest \in mail
    <3>1. TrainRequest # SgdmaRequest(u) /\ TrainRequest # <<E51, u, "ACK_COMPLETE">>
      BY Messages
    <3>2. QED
      BY <2>2, <3>1
  <2>3. \A u : SgdmaRequest(u) \in mail => u \in Harts
    BY Messages DEF TypeOK, PlatformTypeOK
  <2>4. QED
    BY <1>3, <2>1, <2>2, <2>3 DEF Sgdma, SgdmaStep, sgdma_init_handler, sgdma_idle_handler,
       SgdmaAccept, sgdma_transferring_handler, platformVars
<1>4. CASE Wdog \/ HealthMon \/ \E u \in Harts : WatchdogFires(u)
  BY <1>4 DEF Wdog, WdogStep, wdog_init_handler, wdog_idle_handler, wdog_monitoring_handler,
     HealthMon, WatchdogFires, platformVars
<1>5. ASSUME NEW u \in Harts, U54Start(u)
      PROVE  TrainRequest \in mail' <=> TrainRequest \in mail
  <2>1. mail' = (mail \ {Launch(u)}) \cup {Acked(u)}
    BY <1>5 DEF U54Start, HartStart, Acked
  <2>2. TrainRequest # Launch(u) /\ TrainRequest # Acked(u)
    BY Messages
  <2>3. QED
    BY <2>1, <2>2
<1>6. ASSUME NEW u \in Harts, U54Transfer(u)
      PROVE  TrainRequest \in mail' <=> TrainRequest \in mail
  <2>1. mail' = mail \cup {SgdmaRequest(u)}
    BY <1>6 DEF U54Transfer, IPI_Send
  <2>2. TrainRequest # SgdmaRequest(u)
    BY Messages
  <2>3. QED
    BY <2>1, <2>2
<1>7. QED
  BY <1>1, <1>2, <1>3, <1>4, <1>5, <1>6

\* And they leave the rest of what the invariant speaks of alone.
LEMMA OthersUntouched ==
    ASSUME \/ IpiPoll \/ Boot \/ Sgdma \/ Wdog \/ HealthMon
           \/ \E u \in Harts : U54Start(u) \/ U54Transfer(u) \/ WatchdogFires(u)
    PROVE  UNCHANGED <<triggers, startup, initIndex, ddr, trainer, memory, image, tinycli>>
<1>1. CASE IpiPoll \/ HealthMon
  BY <1>1 DEF IpiPoll, HealthMon, platformVars, startupVars, ddrVars, bootVars
<1>2. CASE Boot
  BY <1>2 DEF Boot, BootStep, startupVars, ddrVars
<1>3. CASE Sgdma
  BY <1>3 DEF Sgdma, SgdmaStep, sgdma_init_handler, sgdma_idle_handler,
     sgdma_transferring_handler, platformVars, startupVars, ddrVars, bootVars
<1>4. CASE Wdog
  BY <1>4 DEF Wdog, WdogStep, wdog_init_handler, wdog_idle_handler, wdog_monitoring_handler,
     platformVars, startupVars, ddrVars, bootVars
<1>5. ASSUME NEW u \in Harts, U54Start(u) \/ U54Transfer(u) \/ WatchdogFires(u)
      PROVE  UNCHANGED <<triggers, startup, initIndex, ddr, trainer, memory, image, tinycli>>
  BY <1>5 DEF U54Start, HartStart, U54Transfer, WatchdogFires, platformVars, startupVars,
     ddrVars, bootVars
<1>6. QED
  BY <1>1, <1>2, <1>3, <1>4, <1>5

\* Every step keeps the invariant.
LEMMA LoopNext == TypeOK /\ LoopInv /\ [Next]_vars => LoopInv'
<1> SUFFICES ASSUME TypeOK, LoopInv, [Next]_vars PROVE LoopInv'
  OBVIOUS
<1>1. CASE Cli \/ Startup \/ Ddr \/ U54Train
  BY <1>1, CliLoop, StartupLoop, DdrLoop, TrainLoop
<1>2. CASE \/ IpiPoll \/ Boot \/ Sgdma \/ Wdog \/ HealthMon
           \/ \E u \in Harts : U54Start(u) \/ U54Transfer(u) \/ WatchdogFires(u)
  <2>1. /\ UNCHANGED <<triggers, startup, initIndex, ddr, trainer, memory, image, tinycli>>
        /\ TrainRequest \in mail' <=> TrainRequest \in mail
    BY <1>2, OthersUntouched, OthersKeepTraining
  <2>2. QED
    BY <2>1, TrainingUntouched, ImagesUntouched, QueuesUntouched DEF LoopInv
<1>3. CASE ColdReset
  BY <1>3 DEF ColdReset, LoopInv, QueuesFirst, TrainingOnce, ImagesLast, TrainRequestKept
<1>4. CASE UNCHANGED vars
  BY <1>4, TrainingUntouched, ImagesUntouched, QueuesUntouched
     DEF LoopInv, vars, platformVars, startupVars, ddrVars, bootVars
<1>5. QED
  BY <1>1, <1>2, <1>3, <1>4 DEF Next, E51Step

\* The invariant holds in every reachable state.
LEMMA LoopCorrect == Spec => []LoopInv
<1>1. QED
  BY LoopInit, LoopNext, TypeCorrect, PTL DEF Spec

\* Wherever IPI_QueuesInit stands in globalInitFunctions and however the U54s
\* interleave with the super loop, it never clears the request to train the
\* memory that ddr_init_handler has sent.
THEOREM TrainCorrect == Spec => []TrainRequestKept
<1>1. LoopInv => TrainRequestKept
  BY DEF LoopInv, TrainingOnce
<1>2. QED
  BY <1>1, LoopCorrect, PTL

\* HSS_DDR_Train_IPIHandler never trains or zeroes memory that holds a
\* registered image, and no image is registered before all init functions ran.
THEOREM ImageCorrect == Spec => []ImageSurvives
<1>1. LoopInv => ImageSurvives
  BY DEF LoopInv, ImagesLast, ImageSurvives
<1>2. QED
  BY <1>1, LoopCorrect, PTL

=============================================================================
