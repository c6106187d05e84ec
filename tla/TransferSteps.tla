---------------------------- MODULE TransferSteps ----------------------------
(***************************************************************************)
(* What a Send and a Get share: both are ConfigTransfer objects            *)
(* (gui/src/protocol/config_transfer.cpp), a list of steps that runNext()  *)
(* takes one at a time over the stop-and-wait link, each step one request. *)
(*                                                                         *)
(* A request ends in one of the ways LinkContract allows, told apart as    *)
(* far as the handler in runNext() looks at them.  Definitions marked      *)
(* "seeded bug" are no part of the specification.                          *)
(***************************************************************************)
EXTENDS Integers, Sequences

\* How a request ends for the handler: the reply (a range read's reply repeats
\* its range, so it is the one asked for); the unit's considered refusals
\* ERR_INVALID_CMD, ERR_LOCKED and all others; ERR_INVALID_CRC or _LEN once
\* the budget is spent; no response (errCode 0).
Outcome == {"ok", "unsupported", "locked", "error", "badline", "lost"}

\* (Seeded bug: a step that may be missing may also fail in any other way.)
ToleratesAnyRefusal(step, outcome) == step.optional \/ step.lenient

\* An optional step tolerates any failure, a skipIfUnsupported ("lenient") one
\* only firmware that does not know the command.
Tolerates(step, outcome) ==
    step.optional \/ (step.lenient /\ outcome = "unsupported")

\* (Seeded bug: every failure of a quiet step goes unreported.)
AlwaysQuiet(step, outcome) == step.quiet

\* A quiet step the firmware does not know goes to deviceLacked() instead of
\* skippedStages().
Quiet(step, outcome) == step.quiet /\ outcome = "unsupported"
=============================================================================
