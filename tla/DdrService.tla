------------------------------ MODULE DdrService ------------------------------
(***************************************************************************)
(* ddr_service.c and ddr_api.c: the E51 asks U54_1 to train the DDR and    *)
(* waits for DDR_TRAINED; U54_1 trains, zeroes the memory and notifies.    *)
(***************************************************************************)
EXTENDS Platform

VARIABLES
    ddr,            \* state of the machine
    trainer,        \* U54_1 in HSS_DDR_Train_IPIHandler: "none" or its next step
    memory          \* contents of the DDR

ddrVars == <<ddr, trainer, memory>>

DdrInit == ddr = "init" /\ trainer = "none" /\ memory = "untrained"

TrainRequest == <<E51, 1, "DDR_TRAIN">>

-----------------------------------------------------------------------------
(* The machine of the E51 *)

\* Mutant: the request does not wait for the queues to be initialised.
ddr_init_handler_eager ==
    /\ ddr = "init"
    /\ IPI_Send(TrainRequest)
    /\ ddr' = "train"
    /\ UNCHANGED <<triggers, count, resetReq, trainer, memory>>

ddr_init_handler ==
    /\ ddr = "init"
    /\ IF HSS_Trigger_IsNotified("IPI_INITIALIZED")
       THEN IPI_Send(TrainRequest) /\ ddr' = "train"
       ELSE UNCHANGED <<mail, fresh, ddr>>
    /\ UNCHANGED <<triggers, count, resetReq, trainer, memory>>

ddr_train_handler ==
    /\ ddr = "train"
    /\ ddr' = IF HSS_Trigger_IsNotified("DDR_TRAINED") THEN "idle" ELSE "train"
    /\ UNCHANGED <<platformVars, trainer, memory>>

\* The timer may have elapsed or not; retraining does nothing.
ddr_idle_handler ==
    /\ ddr = "idle"
    /\ ddr' \in {"idle", "retrain"}
    /\ UNCHANGED <<platformVars, trainer, memory>>

ddr_retrain_handler ==
    /\ ddr = "retrain"
    /\ ddr' = "idle"
    /\ UNCHANGED <<platformVars, trainer, memory>>

DdrStep == ddr_init_handler \/ ddr_train_handler \/ ddr_idle_handler \/ ddr_retrain_handler

-----------------------------------------------------------------------------
(* HSS_DDR_Train_IPIHandler on U54_1 *)

TrainTake ==
    /\ trainer = "none"
    /\ TrainRequest \in mail
    /\ trainer' = "HSS_DDRInit"
    /\ UNCHANGED <<platformVars, ddr, memory>>

TrainMemory ==
    /\ trainer = "HSS_DDRInit"
    /\ memory' = "trained"
    /\ trainer' = "HSS_ZeroDDR"
    /\ UNCHANGED <<platformVars, ddr>>

\* Mutant: DDR_TRAINED is notified before the memory is zeroed.
TrainZeroLate ==
    /\ trainer = "HSS_ZeroDDR"
    /\ \/ /\ ~HSS_Trigger_IsNotified("DDR_TRAINED")
          /\ HSS_Trigger_Notify({"DDR_TRAINED"})
          /\ UNCHANGED <<memory, trainer>>
       \/ /\ HSS_Trigger_IsNotified("DDR_TRAINED")
          /\ memory' = "zeroed"
          /\ trainer' = "notify"
          /\ UNCHANGED triggers
    /\ UNCHANGED <<mail, count, fresh, resetReq, ddr>>

TrainZero ==
    /\ trainer = "HSS_ZeroDDR"
    /\ memory' = "zeroed"
    /\ trainer' = "notify"
    /\ UNCHANGED <<platformVars, ddr>>

\* The handler returns IPI_IDLE: the slot is freed and no answer is sent.
TrainDone ==
    /\ trainer = "notify"
    /\ HSS_Trigger_Notify({"DDR_TRAINED"})
    /\ mail' = mail \ {TrainRequest}
    /\ trainer' = "none"
    /\ UNCHANGED <<count, fresh, resetReq, ddr, memory>>

TrainStep == TrainTake \/ TrainMemory \/ TrainZero \/ TrainDone

DdrTypeOK ==
    /\ ddr \in {"init", "train", "idle", "retrain"}
    /\ trainer \in {"none", "HSS_DDRInit", "HSS_ZeroDDR", "notify"}
    /\ memory \in {"untrained", "trained", "zeroed", "image", "partial"}

=============================================================================
