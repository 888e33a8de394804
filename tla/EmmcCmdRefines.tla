--------------------------- MODULE EmmcCmdRefines ---------------------------
(* The command engine implements the contract of EmmcCommand.              *)
EXTENDS EmmcCmd

Contract == INSTANCE EmmcCommand WITH
  Errors   <- Codes \ {"none", "SUCCESS"},
  status   <- IF pc = "idle" THEN "idle" ELSE "running",
  command  <- cmd,
  outcome  <- result,
  answered <- responded,
  trouble  <- failed

\* Every behaviour of the engine is one of the contract: a success was answered
\* by the card and moved its data, and every call returns.
ImplementsContract == Contract!FairSpec
=============================================================================
