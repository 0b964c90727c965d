----------------------------- MODULE WdogService -----------------------------
(***************************************************************************)
(* wdog_service.c and reboot_service.c: the E51 watches the watchdogs of   *)
(* the harts hss_main registers (all U54s) and resets the whole system     *)
(* when one has fired (CONFIG_ALLOW_COLDREBOOT_ALWAYS).                    *)
(***************************************************************************)
EXTENDS Platform

VARIABLES
    wdog,           \* state of the machine
    hartBitmask,    \* harts to be monitored
    fired           \* MSS_STATUS: watchdogs that have fired

wdogVars == <<wdog, hartBitmask, fired>>

\* HSS_Wdog_MonitorHart(HSS_HART_ALL) comes before the super loop.
WdogInit == wdog = "init" /\ hartBitmask = Harts /\ fired = {}

wdog_init_handler ==
    /\ wdog = "init"
    /\ wdog' = "idle"
    /\ UNCHANGED <<hartBitmask, fired, platformVars>>

wdog_idle_handler ==
    /\ wdog = "idle"
    /\ wdog' = IF hartBitmask # {} THEN "monitoring" ELSE "idle"
    /\ UNCHANGED <<hartBitmask, fired, platformVars>>

\* With CONFIG_ALLOW_COLDREBOOT_ALWAYS every set of harts resets the system and
\* nothing is left to be done for single ones.
HSS_reboot(harts) == resetReq' = (harts # {})


wdog_monitoring_handler ==
    /\ wdog = "monitoring"
    /\ HSS_reboot(fired \cap hartBitmask)
    /\ UNCHANGED <<wdogVars, triggers, mail, count, fresh>>

WdogStep == wdog_init_handler \/ wdog_idle_handler \/ wdog_monitoring_handler

WdogTypeOK ==
    /\ wdog \in {"init", "idle", "monitoring"}
    /\ hartBitmask \subseteq Harts
    /\ fired \subseteq Harts

=============================================================================
