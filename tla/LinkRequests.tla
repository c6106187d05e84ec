---------------------------- MODULE LinkRequests ----------------------------
(***************************************************************************)
(* The vocabulary of the serial link, shared by its contract               *)
(* (LinkContract) and its implementation (DeviceLink): the requests one    *)
(* run of the application issues, the frames they carry, and which reply   *)
(* of a unit answers which request.                                        *)
(*                                                                         *)
(* Requests are numbered in the order request() is called.  Two requests   *)
(* may carry the same frame (a Send repeats CLEAR_CONFIG, a lease is       *)
(* renewed every second); the CRC a unit echoes is a function of the       *)
(* frame, so a frame stands for its own CRC (collisions are not modelled). *)
(***************************************************************************)
EXTENDS Integers, Sequences

CONSTANTS
    MaxReq,     \* how many requests a behaviour may issue (a bound)
    Frame,      \* the frames (command and payload) a request may carry
    FrameOf,    \* the frame of each request
    Budget,     \* retriesLeft each request starts with
    CmdOf,      \* the command byte of each frame
    Writes,     \* commands answered by a bare ACK
    RangeReads, \* commands whose data reply repeats the request's range
    Unit,       \* the units that may be plugged into the port
    EchoUnits   \* those whose firmware echoes the request CRC in ACK and NACK

Request == 1 .. MaxReq

ASSUME LinkConstants ==
    /\ MaxReq \in Nat
    /\ FrameOf \in [Request -> Frame]
    /\ Budget \in [Request -> Nat]
    /\ EchoUnits \subseteq Unit

\* What a unit can conclude about a frame it received intact.
Verdict == {"ok", "refused"}

\* isReadResponse(): everything that is not in its list completes on an ACK.
IsRead(n) == CmdOf[FrameOf[n]] \notin Writes

\* Would a data reply to request m be taken for the answer to read n?  The
\* command must be the same; only a range read also compares the range.
DataMatches(m, n) ==
    /\ CmdOf[FrameOf[m]] = CmdOf[FrameOf[n]]
    /\ CmdOf[FrameOf[n]] \in RangeReads => FrameOf[m] = FrameOf[n]

\* The verdict v a unit gave on request m, sent back with the request's CRC
\* iff echo, is accepted as the answer to request n.  An "ok" is an ACK for a
\* write and a data reply for a read; a refusal is a NACK for both.
Answers(m, v, echo, n) ==
    IF v = "ok" /\ IsRead(m)
    THEN IsRead(n) /\ DataMatches(m, n)
    ELSE /\ v = "ok" => ~IsRead(n)
         /\ echo => FrameOf[m] = FrameOf[n]
=============================================================================
