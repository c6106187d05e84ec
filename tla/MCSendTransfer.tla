--------------------------- MODULE MCSendTransfer ---------------------------
(***************************************************************************)
(* Three small Sends: the Send dialog's to a CAN Triple 2.0, storing the   *)
(* project; one to a 1.x that echoes no CRC, with a reset behind it; and   *)
(* an installed package's to a 2.0, with a script and a bus to set up.     *)
(* All verify and save, as every caller does, and none tells send() of a   *)
(* guarded Get.  (A 1.x that echoes CRCs does nothing this one does not.)  *)
(***************************************************************************)
EXTENDS SendTransfer

Full == [plansTables |-> TRUE, tables |-> 1, script |-> 0, buses |-> 0, project |-> 1,
         verify |-> TRUE, saveToFlash |-> TRUE, resetAfter |-> FALSE]
Old == [Full EXCEPT !.plansTables = FALSE, !.project = 0, !.resetAfter = TRUE]
Install == [Full EXCEPT !.script = 1, !.buses = 1, !.project = 0]

MCSends ==
    {[steps |-> BuildSendSteps(Full), staged |-> TRUE, echoes |-> TRUE, guarded |-> FALSE],
     [steps |-> BuildSendSteps(Old), staged |-> FALSE, echoes |-> FALSE, guarded |-> FALSE],
     [steps |-> BuildSendSteps(Install), staged |-> TRUE, echoes |-> TRUE, guarded |-> FALSE]}
=============================================================================
