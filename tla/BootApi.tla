------------------------------- MODULE BootApi -------------------------------
(***************************************************************************)
(* The boot service as the other services see it: HSS_BootInit and         *)
(* HSS_BootHarts (hss_boot_init.c), the boot machines that then launch the *)
(* harts, and the launched harts.  How the image is found is the matter of *)
(* BootSource, how the machines bring a hart up that of BootService; here  *)
(* a boot succeeds in one pass or there is no image.                       *)
(***************************************************************************)
EXTENDS DdrService

VARIABLES
    image,          \* pBootImage # NULL
    restart,        \* harts whose boot machine is set to BOOT_INITIALIZATION
    hartState       \* HSS_U54_GetState_Ex, "Idle" or "Running"

bootVars == <<image, restart, hartState>>

BootInit ==
    /\ image = FALSE
    /\ restart = {}
    /\ hartState = [u \in Harts |-> "Idle"]

Launch(u) == <<E51, u, "LAUNCH">>

\* HSS_BootInit and, if it returns true, HSS_BootHarts: harts that are not idle
\* are left alone, and POST_BOOT is notified once there is a hart to restart.
\* The card may not initialise, which leaves the image registered as it was,
\* or there is no image or its copy fails half way.
AttemptBoot ==
    LET idle == {u \in Harts : hartState[u] = "Idle"} IN
    \/ /\ image' = TRUE
       /\ memory' = "image"
       /\ restart' = restart \cup idle
       /\ HSS_Trigger_Notify(IF idle # {} THEN {"POST_BOOT"} ELSE {})
    \/ UNCHANGED <<image, memory, restart, triggers>>
    \/ /\ image' = FALSE
       /\ memory' \in {memory, "partial"}
       /\ UNCHANGED <<restart, triggers>>

\* Mutant: the first machine to launch its hart ends the restart of the others.
BootStepFirst ==
    /\ IF /\ HSS_Trigger_IsNotified("DDR_TRAINED") /\ HSS_Trigger_IsNotified("STARTUP_COMPLETE")
          /\ image /\ restart # {}
       THEN IPI_Send(Launch(CHOOSE v \in restart : \A w \in restart : v <= w))
       ELSE UNCHANGED <<mail, fresh>>
    /\ restart' = {}
    /\ UNCHANGED <<triggers, count, resetReq, image, hartState, ddrVars>>

\* The boot machines of the super loop; without an image they end in BOOT_ERROR.
BootStep ==
    /\ IF HSS_Trigger_IsNotified("DDR_TRAINED") /\ HSS_Trigger_IsNotified("STARTUP_COMPLETE")
       THEN LET launched == IF image THEN restart ELSE {} IN
            /\ mail' = mail \cup {Launch(u) : u \in launched}
            /\ fresh' = fresh \cup {IPI_CalculateQueueIndex(E51, u) : u \in launched}
            /\ restart' = {}
       ELSE UNCHANGED <<mail, fresh, restart>>
    /\ UNCHANGED <<triggers, count, resetReq, image, hartState, ddrVars>>

\* A U54 takes the launch message, acknowledges it and leaves the HSS.
HartStart(u) ==
    /\ hartState[u] = "Idle"
    /\ u = 1 => trainer = "none"
    /\ Launch(u) \in mail
    /\ mail' = (mail \ {Launch(u)}) \cup {<<u, E51, "ACK_COMPLETE">>}
    /\ fresh' = fresh \cup {ToE51(u)}
    /\ hartState' = [hartState EXCEPT ![u] = "Running"]
    /\ UNCHANGED <<triggers, count, resetReq, image, restart, ddrVars>>

BootTypeOK ==
    /\ image \in BOOLEAN
    /\ restart \subseteq Harts
    /\ hartState \in [Harts -> {"Idle", "Running"}]

=============================================================================
