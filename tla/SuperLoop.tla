------------------------------ MODULE SuperLoop ------------------------------
(***************************************************************************)
(* The HSS from reset to the running payloads: the super loop of the E51   *)
(* (RunStateMachines over pGlobalStateMachines) runs one machine after the *)
(* other, while the U54s train the memory, start and ask for transfers,    *)
(* watchdogs fire and the user types.  A cold reset starts everything      *)
(* again.                                                                  *)
(*                                                                         *)
(* The four boot machines count as one (BootApi); the machines of opensbi  *)
(* and beu touch nothing the others read and are left out of the loop.     *)
(***************************************************************************)
EXTENDS StartupService, TinyCli, WdogService, SgdmaService

CONSTANTS MaxResets,        \* bound on the cold resets
          MaxTransfers      \* bound on the transfers between two resets

ASSUME BoundsAssumption == MaxResets \in Nat /\ MaxTransfers \in Nat

VARIABLES
    turn,           \* machine the super loop runs next
    ipiPoll,        \* state of the ipi_poll machine
    healthmon,      \* state of the health monitor
    resets,         \* cold resets so far
    transfers       \* scatter-gather requests since the last reset

vars == <<platformVars, startupVars, ddrVars, bootVars, tinycli, wdogVars, sgdmaVars,
          turn, ipiPoll, healthmon, resets, transfers>>

\* The order of pGlobalStateMachines.
Machines == <<"ipi_poll", "boot", "wdog", "sgdma", "ddr", "tinycli", "healthmon", "startup">>

Init ==
    /\ PlatformInit /\ StartupInit /\ DdrInit /\ BootInit /\ TinyCliInit /\ WdogInit /\ SgdmaInit
    /\ turn = 1 /\ ipiPoll = "init" /\ healthmon = "init" /\ transfers = 0 /\ resets = 0

-----------------------------------------------------------------------------
(* The E51 *)

\* One machine runs, unless the E51 spins behind the reset register.
Run(machine) ==
    /\ ~resetReq
    /\ Machines[turn] = machine
    /\ turn' = (turn % Len(Machines)) + 1
    /\ UNCHANGED <<resets, transfers>>

Acked(u) == <<u, E51, "ACK_COMPLETE">>

\* ipiPoll_init_handler, and ipiPoll_monitoring_handler: queues with something
\* new are counted, then ACKs are taken from the queues that have a count.
IpiPoll ==
    /\ Run("ipi_poll")
    /\ \/ /\ ipiPoll = "init"
          /\ ipiPoll' = IF HSS_Trigger_IsNotified("STARTUP_COMPLETE") THEN "monitoring" ELSE "init"
          /\ UNCHANGED <<mail, count, fresh>>
       \/ /\ ipiPoll = "monitoring"
          /\ LET status == \E u \in Harts : ToE51(u) \in fresh
                 taken == {u \in Harts : status /\ Counted[ToE51(u)] > 0 /\ Acked(u) \in mail}
             IN  /\ count' = [q \in Queue |->
                        IF \E u \in taken : q = ToE51(u) THEN Counted[q] - 1 ELSE Counted[q]]
                 /\ mail' = mail \ {Acked(u) : u \in taken}
                 /\ fresh' = fresh \ {ToE51(u) : u \in Harts}
          /\ UNCHANGED ipiPoll
    /\ UNCHANGED <<triggers, resetReq, startupVars, ddrVars, bootVars, tinycli, wdogVars,
                   sgdmaVars, healthmon>>

Boot ==
    /\ Run("boot") /\ BootStep
    /\ UNCHANGED <<startupVars, tinycli, wdogVars, sgdmaVars, ipiPoll, healthmon>>

Wdog ==
    /\ Run("wdog") /\ WdogStep
    /\ UNCHANGED <<startupVars, ddrVars, bootVars, tinycli, sgdmaVars, ipiPoll, healthmon>>

Sgdma ==
    /\ Run("sgdma") /\ SgdmaStep
    /\ UNCHANGED <<startupVars, ddrVars, bootVars, tinycli, wdogVars, ipiPoll, healthmon>>

Ddr ==
    /\ Run("ddr") /\ DdrStep
    /\ UNCHANGED <<startupVars, bootVars, tinycli, wdogVars, sgdmaVars, ipiPoll, healthmon>>

\* The bound on resets is one on `reset` commands too.
Cli ==
    /\ Run("tinycli") /\ TinyCliStep
    /\ resetReq' => resets < MaxResets
    /\ UNCHANGED <<startupVars, wdogVars, sgdmaVars, ipiPoll, healthmon>>

\* Mutant: the health monitor waits for its own event, which is never recorded.
HealthMonDeaf ==
    /\ Run("healthmon")
    /\ healthmon' = IF healthmon = "init" /\ "HEALTHMON" \notin triggers
                    THEN "init" ELSE "monitoring"
    /\ UNCHANGED <<platformVars, startupVars, ddrVars, bootVars, tinycli, wdogVars,
                   sgdmaVars, ipiPoll>>

\* healthmon_init_handler; this board has no monitors to run.
HealthMon ==
    /\ Run("healthmon")
    /\ healthmon' = IF healthmon = "init"
                       /\ ~({"DDR_TRAINED", "STARTUP_COMPLETE", "POST_BOOT"} \subseteq triggers)
                    THEN "init" ELSE "monitoring"
    /\ UNCHANGED <<platformVars, startupVars, ddrVars, bootVars, tinycli, wdogVars,
                   sgdmaVars, ipiPoll>>

Startup ==
    /\ Run("startup") /\ StartupStep
    /\ UNCHANGED <<ddrVars, bootVars, tinycli, wdogVars, sgdmaVars, ipiPoll, healthmon>>

E51Step == IpiPoll \/ Boot \/ Wdog \/ Sgdma \/ Ddr \/ Cli \/ HealthMon \/ Startup

-----------------------------------------------------------------------------
(* The U54s and the hardware *)

U54Train ==
    /\ TrainStep
    /\ UNCHANGED <<startupVars, bootVars, tinycli, wdogVars, sgdmaVars, turn, ipiPoll,
                   healthmon, resets, transfers>>

U54Start(u) ==
    /\ HartStart(u)
    /\ UNCHANGED <<startupVars, tinycli, wdogVars, sgdmaVars, turn, ipiPoll, healthmon,
                   resets, transfers>>

\* A payload asks for a scatter-gather transfer; only payloads do, the firmware
\* has just the receiving side.
U54Transfer(u) ==
    /\ hartState[u] = "Running"
    /\ transfers < MaxTransfers
    /\ SgdmaRequest(u) \notin mail
    /\ IPI_Send(SgdmaRequest(u))
    /\ transfers' = transfers + 1
    /\ UNCHANGED <<triggers, count, resetReq, startupVars, ddrVars, bootVars, tinycli,
                   wdogVars, sgdmaVars, turn, ipiPoll, healthmon, resets>>

\* The watchdog of a hart that no longer serves it.
WatchdogFires(u) ==
    /\ hartState[u] = "Running"
    /\ resets < MaxResets
    /\ fired' = fired \cup {u}
    /\ UNCHANGED <<platformVars, startupVars, ddrVars, bootVars, tinycli, wdog, hartBitmask,
                   sgdmaVars, turn, ipiPoll, healthmon, resets, transfers>>

\* MSS_RESET_CR: all harts start again, with everything but the history as in Init.
ColdReset ==
    /\ resetReq
    /\ triggers' = {} /\ mail' = {} /\ fresh' = {} /\ count' = [q \in Queue |-> 0]
    /\ resetReq' = FALSE
    /\ startup' = "init" /\ initIndex' = 0
    /\ ddr' = "init" /\ trainer' = "none" /\ memory' = "untrained"
    /\ image' = FALSE /\ restart' = {} /\ hartState' = [u \in Harts |-> "Idle"]
    /\ tinycli' = "init"
    /\ wdog' = "init" /\ hartBitmask' = Harts /\ fired' = {}
    /\ sgdma' = "init" /\ nextHart' = 1 /\ block' = 0 /\ remaining' = 0 /\ activeHart' = E51
    /\ turn' = 1 /\ ipiPoll' = "init" /\ healthmon' = "init" /\ transfers' = 0
    /\ resets' = resets + 1

-----------------------------------------------------------------------------
Next ==
    \/ E51Step \/ U54Train \/ ColdReset
    \/ \E u \in Harts : U54Start(u) \/ U54Transfer(u) \/ WatchdogFires(u)

\* The super loop never stops, a U54 handles what it is sent, and the reset
\* register acts.  Nobody has to type, to ask for a transfer or to hang.
Fairness ==
    /\ WF_vars(E51Step) /\ WF_vars(U54Train) /\ WF_vars(ColdReset)
    /\ \A u \in Harts : WF_vars(U54Start(u))

Spec == Init /\ [][Next]_vars /\ Fairness

-----------------------------------------------------------------------------
(* Safety *)

\* The type invariant.
TypeOK ==
    /\ PlatformTypeOK /\ StartupTypeOK /\ DdrTypeOK /\ BootTypeOK /\ TinyCliTypeOK
    /\ WdogTypeOK /\ SgdmaTypeOK
    /\ turn \in 1..Len(Machines)
    /\ ipiPoll \in {"init", "monitoring"}
    /\ healthmon \in {"init", "monitoring"}
    /\ resets \in 0..MaxResets /\ transfers \in 0..MaxTransfers

\* The request to train the memory is never lost: IPI_QueuesInit, which clears
\* the queues and runs only after the ddr machine has had its first turn, does
\* not find it there.  Without the request DDR_TRAINED never comes and nothing
\* boots.
TrainRequestKept ==
    ddr = "train" => TrainRequest \in mail \/ HSS_Trigger_IsNotified("DDR_TRAINED")

\* A registered boot image is intact in the DDR, and all init functions ran
\* before it was put there: U54_1 never trains or zeroes memory that holds an
\* image, and a boot that fails half way leaves no image registered.
ImageSurvives == image => memory = "image" /\ startup = "boot"

-----------------------------------------------------------------------------
(* Liveness *)



\* Harts that were told to restart are launched, or the system is reset.
RestartEnds == \A u \in Harts : (u \in restart) ~> (hartState[u] = "Running" \/ resetReq)

\* A transfer comes to its end although the E51 does one piece per pass.
TransferEnds == (sgdma = "transferring") ~> (sgdma = "idle" \/ resetReq)

\* After the first boot the health monitor takes up its work.
HealthMonitored == HSS_Trigger_IsNotified("POST_BOOT") ~> (healthmon = "monitoring" \/ resetReq)

\* "check each core to see if it wants to transmit" (sgdma_idle_handler): the
\* request of every core is taken some day.
EveryCoreServed ==
    \A u \in Harts : (SgdmaRequest(u) \in mail) ~> (SgdmaRequest(u) \notin mail)

=============================================================================
