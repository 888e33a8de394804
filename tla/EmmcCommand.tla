---------------------------- MODULE EmmcCommand ----------------------------
(***************************************************************************)
(* What one call of emmc_exec_cmd promises its callers (emmc_mount.c,      *)
(* emmc_write.c, emmc_erase.c, dg_emmc_config.c), without registers,       *)
(* polling or the states of the driver's machine.  EmmcCmd implements it.  *)
(***************************************************************************)
CONSTANTS
  Commands, \* the commands that can be submitted: records with a field data
  Errors    \* the codes other than EMMC_SUCCESS

VARIABLES
  status,   \* "idle" or "running"
  command,  \* the command of the last call
  outcome,  \* what that call returned; "none" while it runs
  answered, \* the card has answered it
  moved,    \* its data has moved
  trouble   \* the controller has reported an error for it

vars == <<status, command, outcome, answered, moved, trouble>>

Init ==
  /\ status = "idle" /\ outcome = "none"
  /\ command = [resp |-> "none", data |-> FALSE, dir |-> "read", dma |-> FALSE]
  /\ answered = FALSE /\ moved = FALSE /\ trouble = FALSE

\* A call starts, or is refused at once without reaching the card.
Submit(c) ==
  /\ status = "idle"
  /\ command' = c /\ answered' = FALSE /\ moved' = FALSE /\ trouble' = FALSE
  /\ \/ status' = "running" /\ outcome' = "none"
     \/ status' = "idle" /\ outcome' \in Errors

\* The card answers, data moves, or an error is met, in this order if at all.
Progress ==
  /\ status = "running" /\ UNCHANGED <<status, command, outcome>>
  /\ \/ answered' = TRUE /\ UNCHANGED <<moved, trouble>>
     \/ command.data /\ answered /\ moved' = TRUE /\ UNCHANGED <<answered, trouble>>
     \/ trouble' = TRUE /\ UNCHANGED <<answered, moved>>

\* EMMC_SUCCESS is returned for a command the card answered, whose data moved
\* unless an error was met.
Complete ==
  /\ status = "running" /\ answered /\ (command.data => moved \/ trouble)
  /\ status' = "idle" /\ outcome' = "SUCCESS"
  /\ UNCHANGED <<command, answered, moved, trouble>>

\* Any other code says nothing of what the card has done.
Abort ==
  /\ status = "running"
  /\ status' = "idle" /\ outcome' \in Errors
  /\ UNCHANGED <<command, answered, moved, trouble>>

Return == Complete \/ Abort

Next == (\E c \in Commands: Submit(c)) \/ Progress \/ Return

Spec == Init /\ [][Next]_vars

FairSpec == Spec /\ WF_vars(Return)
=============================================================================
