---------------------------- MODULE MCDeviceLink ----------------------------
(***************************************************************************)
(* A small instance of DeviceLink: two writes, then two reads of one       *)
(* command with different ranges; one unit that echoes CRCs and one whose  *)
(* firmware predates them.  Only the first request has a retry: a stale    *)
(* reply also follows a request that was given up too early, so the others *)
(* need none.                                                              *)
(***************************************************************************)
EXTENDS DeviceLink

CONSTANTS write1, write2, read1, read2, new, old

MCFrame == {write1, write2, read1, read2}
MCFrameOf == <<write1, write2, read1, read2>>
MCBudget == <<1, 0, 0, 0>>
MCCmdOf == [f \in MCFrame |-> IF f \in {read1, read2} THEN "read" ELSE "write"]
MCUnit == {new, old}
MCEchoUnits == {new}
=============================================================================
