------------------------------- MODULE TinyCli -------------------------------
(***************************************************************************)
(* The state machine of tinycli_service.c on this board (TINYCLI and BOOT  *)
(* are built in, USBDMSC, UART_SURRENDER and the preboot time-out are not):*)
(* wait for the hardware, give the user a second to press a key, otherwise *)
(* boot, then read and execute command lines for ever.  What editing does  *)
(* to a line is left out: a line that ends is any command.                 *)
(***************************************************************************)
EXTENDS BootApi

VARIABLE tinycli        \* state of the machine

\* What a line may ask for, "other" standing for all that changes nothing here.
Command == {"boot", "reset", "other"}

TinyCliInit == tinycli = "init"

\* Mutant: the command line comes up without waiting for the init functions.
tinycli_init_handler_eager ==
    /\ tinycli = "init"
    /\ tinycli' = IF HSS_Trigger_IsNotified("DDR_TRAINED") THEN "preboot" ELSE "init"
    /\ UNCHANGED <<platformVars, bootVars, ddrVars>>

tinycli_init_handler ==
    /\ tinycli = "init"
    /\ tinycli' = IF HSS_Trigger_IsNotified("DDR_TRAINED") /\ HSS_Trigger_IsNotified("STARTUP_COMPLETE")
                  THEN "preboot" ELSE "init"
    /\ UNCHANGED <<platformVars, bootVars, ddrVars>>

\* HSS_ShowTimeout: a key is pressed in time or not.
tinycli_preboot_handler ==
    /\ tinycli = "preboot"
    /\ tinycli' \in {"readline", "doboot"}
    /\ UNCHANGED <<platformVars, bootVars, ddrVars>>

\* The boot target is in DDR; POST_BOOT would mean that a boot went before.
tinycli_doboot_handler ==
    /\ tinycli = "doboot"
    /\ \/ /\ HSS_Trigger_IsNotified("DDR_TRAINED")
          /\ tinycli' = "readline"
          /\ IF HSS_Trigger_IsNotified("POST_BOOT")
             THEN UNCHANGED <<triggers, memory, image, restart>>
             ELSE AttemptBoot
       \/ /\ ~HSS_Trigger_IsNotified("DDR_TRAINED")
          /\ UNCHANGED <<tinycli, triggers, memory, image, restart>>
    /\ UNCHANGED <<mail, count, fresh, resetReq, hartState, ddr, trainer>>

\* A key may arrive; Enter or ^C ends the line.
tinycli_readline_handler ==
    /\ tinycli = "readline"
    /\ tinycli' \in {"readline", "parseline"}
    /\ UNCHANGED <<platformVars, bootVars, ddrVars>>

\* HSS_TinyCLI_Execute: `boot` boots whatever was booted before, `reset`
\* writes the reset register and does not return.
tinycli_parseline_handler(command) ==
    /\ tinycli = "parseline"
    /\ IF command = "boot" THEN AttemptBoot ELSE UNCHANGED <<triggers, memory, image, restart>>
    /\ resetReq' = (command = "reset")
    /\ tinycli' = IF command = "reset" THEN "parseline" ELSE "readline"
    /\ UNCHANGED <<mail, count, fresh, hartState, ddr, trainer>>

TinyCliStep ==
    \/ tinycli_init_handler \/ tinycli_preboot_handler \/ tinycli_doboot_handler
    \/ tinycli_readline_handler
    \/ \E command \in Command : tinycli_parseline_handler(command)

TinyCliTypeOK == tinycli \in {"init", "preboot", "doboot", "readline", "parseline"}

=============================================================================
