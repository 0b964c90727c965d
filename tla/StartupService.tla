--------------------------- MODULE StartupService ---------------------------
(***************************************************************************)
(* startup_service.c: one init function per pass of the super loop, then   *)
(* STARTUP_COMPLETE.  Every entry of globalInitFunctions on this board has *)
(* haltOnFailure and restartOnFailure unset, so a result is only printed.  *)
(***************************************************************************)
EXTENDS Platform

CONSTANTS NumInit,      \* spanOfGlobalInitFunctions
          QueuesAt      \* position of IPI_QueuesInit in the table

ASSUME InitAssumption == NumInit \in Nat /\ QueuesAt \in 0..(NumInit - 2)

VARIABLES startup,      \* state of the machine
          initIndex     \* i

startupVars == <<startup, initIndex>>

StartupInit == startup = "init" /\ initIndex = 0

\* The function at initIndex; only IPI_QueuesInit touches what is modelled.
RunInitFunction ==
    IF initIndex = QueuesAt
    THEN IPI_QueuesInit /\ UNCHANGED resetReq
    ELSE UNCHANGED platformVars

\* startup_init_handler; with TINYCLI built in startup_boot_handler is empty.
StartupStep ==
    \/ /\ startup = "init"
       /\ initIndex < NumInit - 1
       /\ RunInitFunction
       /\ initIndex' = initIndex + 1
       /\ UNCHANGED startup
    \/ /\ startup = "init"
       /\ initIndex = NumInit - 1
       /\ startup' = "boot"
       /\ HSS_Trigger_Notify({"STARTUP_COMPLETE"})
       /\ UNCHANGED <<initIndex, mail, count, fresh, resetReq>>
    \/ startup = "boot" /\ UNCHANGED <<startupVars, platformVars>>

StartupTypeOK == startup \in {"init", "boot"} /\ initIndex \in 0..(NumInit - 1)

=============================================================================
