---------------------------- MODULE SendTransfer ----------------------------
(***************************************************************************)
(* A Send: runNext() of gui/src/protocol/config_transfer.cpp over the plan *)
(* of SendPlan, the unit that takes it, and what the main window tells the *)
(* user when it is finished.                                               *)
(*                                                                         *)
(* The link is its contract (LinkContract): requests act in order, an      *)
(* answered one has been acted on -- or, by a unit that echoes no CRC, an  *)
(* earlier one was --, a failed one may have been acted on or may still be *)
(* until a later one is, and any may be acted on again by a late           *)
(* retransmission.  The unit's firmware is not in the repository.  A CAN   *)
(* Triple 2.0 stages a Send beside what it runs and swaps the two at       *)
(* SAVE_TO_FLASH; it is its own USB device, and a restart takes the port   *)
(* away.  A 1.x erases its flash at CLEAR_CONFIG and keeps what is written *)
(* for the save to commit; it sits behind an ST-LINK, and restarts without *)
(* the Manager seeing it.  Either may store a part wrong, which is what    *)
(* the read-back is for.                                                   *)
(***************************************************************************)
EXTENDS SendPlan, FiniteSets

CONSTANTS
    Sends,   \* the Sends considered: [steps, staged, echoes, guarded]
    Mishaps  \* at how many steps of a Send a unit restarts unseen or the answer to
             \* an earlier request is taken for this one's (a bound)

VARIABLES
    send,          \* this Send: its steps, whether the unit is a CAN Triple 2.0 and
                   \* echoes CRCs, and whether the caller knows that it guards its Get
    index,         \* m_index; 0 until the queued first runNext()
    report,        \* what finished() said; "none" before, "gone" if the owner died
    cancelled,     \* m_cancelled
    skipped,       \* m_skippedStages, as the parts of the steps skipped
    lacked,        \* m_lacked, as parts
    verifySkipped, \* m_verifySkipped
    flashSkipped,  \* m_flashSaveSkipped
    said,          \* what the user is told of a Send that finished ok
    onLine,        \* the steps of whose requests a copy may still reach the unit
    acted,         \* has the unit acted on the step in flight
    read,          \* of its last answer, what a read-back holds
    connected,     \* the port is open and the unit powered
    work,          \* what the unit is being sent: its stage (2.0) or RAM (1.x)
    flash,         \* what it boots with
    restarted,     \* history: the steps in flight when a restart cost the unit something
                   \* behind the Manager's back
    borrowed       \* history: the steps that went by on the answer to another

hostVars == <<index, report, cancelled, skipped, lacked, verifySkipped, flashSkipped, said>>
unitVars == <<onLine, acted, read, connected, work, flash, restarted>>
vars == <<send, hostVars, unitVars, borrowed>>

Plan == send.steps
Staged == send.staged
Echoes == send.echoes
Index == DOMAIN Plan

\* What a configuration holds of each part: what the unit had before, nothing,
\* or what was sent, stored right or wrong.
Part == {Plan[i].part : i \in {j \in Index : Plan[j].cmd = "write"}}
Verified == {Plan[i].part : i \in {j \in Index : Plan[j].cmd = "verify"}}
Content == {"old", "none", "good", "bad"}
All(content) == [p \in Part |-> content]

TypeOK ==
    /\ send \in Sends
    /\ index \in 0 .. Len(Plan) + 1
    /\ report = "none" => index \in 0 .. Len(Plan)
    /\ report \in {"none", "ok", "failed", "cancelled", "gone"}
    /\ {cancelled, verifySkipped, flashSkipped, connected} \subseteq BOOLEAN
    /\ skipped \subseteq Part \union {NoPart} /\ lacked \subseteq Part
    /\ said \in {"", "sent and verified", "sent, verified, and saved to flash"}
    /\ onLine \subseteq Index /\ acted \in BOOLEAN
    /\ work \in [Part -> Content] /\ flash \in [Part -> Content] /\ read \in Content
    /\ restarted \subseteq 0 .. Len(Plan) + 1 /\ borrowed \subseteq Index

\* send(): a unit known to guard its Get has the verify phase left out of Plan.
Init ==
    /\ send \in Sends
    /\ index = 0 /\ report = "none" /\ said = ""
    /\ cancelled = FALSE /\ flashSkipped = FALSE
    /\ verifySkipped = send.guarded
    /\ skipped = {} /\ lacked = {}
    /\ onLine = {} /\ acted = FALSE /\ connected = TRUE
    /\ work = All("old") /\ flash = All("old") /\ read = "none"
    /\ restarted = {} /\ borrowed = {}

-----------------------------------------------------------------------------
(* runNext() and its handler *)

\* onSendConfiguration()'s message for a Send that finished ok.
Message(saveSkipped) ==
    IF saveSkipped THEN "sent and verified" ELSE "sent, verified, and saved to flash"

Finish(how) ==
    /\ report' = how
    /\ said' = IF how = "ok" THEN Message(flashSkipped') ELSE said

\* (Seeded bug: m_index > m_steps.size().)
RunFromOneFurther(i) ==
    IF cancelled \/ i > Len(Plan) + 1
    THEN /\ Finish(IF cancelled THEN "cancelled" ELSE "ok")
         /\ UNCHANGED onLine
    ELSE /\ onLine' = IF connected THEN onLine \union ({i} \intersect Index) ELSE onLine
         /\ UNCHANGED <<report, said>>

\* runNext() at step i: finished, or the request of step i goes out.
RunFrom(i) ==
    IF cancelled \/ i > Len(Plan)
    THEN /\ Finish(IF cancelled THEN "cancelled" ELSE "ok")
         /\ UNCHANGED onLine
    ELSE /\ onLine' = IF connected THEN onLine \union {i} ELSE onLine
         /\ UNCHANGED <<report, said>>

\* The first runNext(), queued by send().
Begin ==
    /\ index = 0 /\ report = "none"
    /\ UNCHANGED <<send, cancelled, skipped, lacked, verifySkipped, flashSkipped,
                   acted, read, connected, work, flash, restarted, borrowed>>
    /\ index' = 1
    /\ RunFrom(1)

InFlight == report = "none" /\ index \in Index

Reported == skipped \union lacked

MishapsLeft == Cardinality(restarted) + Cardinality(borrowed) < Mishaps

\* A unit that echoes no CRC: the late answer to an earlier request is taken for
\* the answer to the step in flight -- an ACK if that step is no read, whose reply
\* must repeat its range, a refusal if one was refused before.
AnswersForAnother(outcome) ==
    /\ ~Echoes /\ index > 1 /\ MishapsLeft
    /\ outcome = "ok" => Plan[index].cmd # "verify"
    /\ outcome \in {"unsupported", "locked"} => Reported # {}

\* The answers the unit and the line can give to the step in flight.
Possible(outcome) ==
    /\ outcome = "ok" => acted \/ AnswersForAnother(outcome)
    /\ outcome \in {"unsupported", "locked"} => ~acted \/ AnswersForAnother(outcome)
    /\ outcome # "lost" => connected

\* (Seeded bug: a read-back that is not compared.)
NeverMismatched == FALSE

\* A verify step's reply that is not what was sent.
Mismatched == Plan[index].cmd = "verify" /\ read # "good"

Succeed ==
    /\ Possible("ok")
    /\ UNCHANGED <<skipped, lacked, verifySkipped, flashSkipped>>
    /\ borrowed' = IF acted THEN borrowed ELSE borrowed \union {index}
    /\ IF Mismatched
       THEN Finish("failed") /\ UNCHANGED <<index, onLine>>
       ELSE index' = index + 1 /\ RunFrom(index + 1)

\* A tolerated failure: noted, and on to the next step.
Skip(outcome) ==
    /\ Possible(outcome)
    /\ Tolerates(Plan[index], outcome)
    /\ flashSkipped' = (flashSkipped \/ Plan[index].cmd = "save")
    /\ IF Quiet(Plan[index], outcome)
       THEN lacked' = lacked \union {Plan[index].part} /\ UNCHANGED skipped
       ELSE skipped' = skipped \union {Plan[index].part} /\ UNCHANGED lacked
    /\ index' = index + 1
    /\ RunFrom(index + 1)
    /\ UNCHANGED <<verifySkipped, borrowed>>

\* (Seeded bug: the commit goes with the verify phase.)
AfterEverything == Len(Plan) + 1

\* The first step behind the run of verify steps the current one is in.
AfterVerify ==
    CHOOSE k \in index .. Len(Plan) + 1 :
        /\ \A j \in index .. k - 1 : Plan[j].cmd = "verify"
        /\ k \in Index => Plan[k].cmd # "verify"

\* The unit will not be read back without its Get password.
AbandonVerify ==
    /\ Possible("locked")
    /\ Plan[index].cmd = "verify" /\ ~Tolerates(Plan[index], "locked")
    /\ verifySkipped' = TRUE
    /\ skipped' = skipped \union {NoPart}
    /\ UNCHANGED <<lacked, flashSkipped, borrowed>>
    /\ index' = AfterVerify
    /\ RunFrom(AfterVerify)

Fail(outcome) ==
    /\ Possible(outcome)
    /\ ~Tolerates(Plan[index], outcome)
    /\ ~(outcome = "locked" /\ Plan[index].cmd = "verify")
    /\ Finish("failed")
    /\ UNCHANGED <<index, skipped, lacked, verifySkipped, flashSkipped, onLine, borrowed>>

\* The handler of the request in flight.
Answer ==
    /\ InFlight
    /\ \/ Succeed
       \/ AbandonVerify
       \/ \E outcome \in Outcome \ {"ok"} : Skip(outcome) \/ Fail(outcome)
    /\ acted' = FALSE
    /\ UNCHANGED <<send, cancelled, read, connected, work, flash, restarted>>

\* The progress dialog's Cancel; heeded by the next runNext().
Cancel ==
    /\ report = "none" /\ ~cancelled
    /\ cancelled' = TRUE
    /\ UNCHANGED <<send, index, report, skipped, lacked, verifySkipped, flashSkipped, said,
                   unitVars, borrowed>>

\* The owner is destroyed, and the ConfigTransfer with it: the link calls a
\* handler whose QPointer is null.
OwnerDies ==
    /\ report = "none"
    /\ report' = "gone"
    /\ UNCHANGED <<send, index, cancelled, skipped, lacked, verifySkipped, flashSkipped, said,
                   unitVars, borrowed>>

-----------------------------------------------------------------------------
(* The unit and the line *)

\* How the unit may store a part: right, or wrong.  Whether a part that is not
\* read back is right nobody can tell.
Stored(part) == IF part \in Verified THEN {"good", "bad"} ELSE {"good"}

\* What the unit does for a request it accepts.
Act(step) ==
    CASE step.cmd = "clear" ->
            /\ work' = All("none")
            /\ flash' = IF Staged THEN flash ELSE All("none")
      [] step.cmd = "write" ->
            /\ \E how \in Stored(step.part) : work' = [work EXCEPT ![step.part] = how]
            /\ UNCHANGED flash
      [] step.cmd = "save" -> flash' = work /\ UNCHANGED work
      [] step.cmd = "reset" -> work' = flash /\ UNCHANGED flash
      [] OTHER -> UNCHANGED <<work, flash>>

\* A copy of request i arrives, the first or a retransmission; nothing older
\* can follow it (DeviceLink!NoLateDuplicate).
UnitActs ==
    /\ connected
    /\ \E i \in onLine :
         /\ Act(Plan[i])
         /\ acted' = (i = index)
         /\ read' = IF Plan[i].cmd = "verify" THEN work[Plan[i].part] ELSE "none"
         /\ onLine' = {j \in onLine : j >= i}
    /\ UNCHANGED <<send, hostVars, connected, restarted, borrowed>>

\* The cable is pulled, or a 2.0 loses power: what was not saved is gone, and
\* the port with it.
PowerCut ==
    /\ connected
    /\ connected' = FALSE
    /\ onLine' = {}
    /\ work' = flash
    /\ UNCHANGED <<send, hostVars, acted, read, flash, restarted, borrowed>>

\* A 1.x loses power for a moment or is reset at its button: what was not saved
\* is gone, and the port of its ST-LINK stays open.
Restart ==
    /\ connected /\ ~Staged /\ MishapsLeft
    /\ work # flash
    /\ work' = flash
    /\ restarted' = restarted \union {index}
    /\ UNCHANGED <<send, hostVars, onLine, acted, read, connected, flash, borrowed>>

Done == report # "none" /\ UNCHANGED vars

Next ==
    \/ Begin \/ Answer \/ Cancel \/ OwnerDies
    \/ UnitActs \/ PowerCut \/ Restart
    \/ Done

\* The link answers every request (DeviceLink!EveryRequestAnswered) and the
\* event loop runs what is queued on it.
Spec == Init /\ [][Next]_vars /\ WF_vars(Begin) /\ WF_vars(Answer)

-----------------------------------------------------------------------------
(* Properties *)

\* The steps whose success tells the Manager what the unit holds of a part.
TellsOf(p, i) ==
    /\ Plan[i].part = p
    /\ Plan[i].cmd = "write" \/ (Plan[i].cmd = "verify" /\ ~verifySkipped)

\* Parts nobody could know to be missing: every step that told of them was taken
\* back by a restart, or never reached a unit that answers one request with the
\* ACK of another.
Unknowable(p) ==
    \A i \in Index : TellsOf(p, i) => i \in borrowed \/ \E r \in restarted : i <= r

\* The flash never holds a mixture: what a unit boots with is what it had, or
\* (a 1.x whose Send broke off) nothing, or every part of the configuration
\* sent except those reported as skipped -- whatever is lost, refused, late,
\* repeated, cancelled or unplugged.  Except: what a 1.x loses in a restart
\* behind its ST-LINK after it was read back (or written, if it is not read
\* back), which no step of a Send would notice.
CommitIsWhole ==
    \/ flash = All("old")
    \/ ~Staged /\ flash = All("none")
    \/ \A p \in Part : flash[p] \in {"good", "bad"} \/ p \in Reported \/ Unknowable(p)

\* A commit behind a completed read-back holds nothing wrong: no part that was to
\* be verified is stored wrong, however late its last copy arrived.  (That none is
\* missing is CommitIsWhole.)
VerifiedCommitIsExact ==
    ~verifySkipped =>
        \A p \in Verified : flash[p] # "bad" \/ p \in Reported

\* Who is told that a Send was "saved to flash" finds every part of it on the unit,
\* where a power cut leaves it, or named as skipped -- with CommitIsWhole's
\* exception, and unless its save went by on the ACK of another request.  (That it
\* was "verified" is said also of a Send whose read-back the unit refused.)
SuccessIsHonest ==
    said = "sent, verified, and saved to flash" /\ (\A i \in borrowed : Plan[i].cmd # "save") =>
        \A p \in Part : flash[p] \in {"good", "bad"} \/ p \in Reported \/ Unknowable(p)

\* buildSendSteps(), "Header last": a unit that keeps the header of a stored project
\* keeps its body, wherever the Send stops and whatever arrives twice.
HeaderSealsTheProject ==
    \A h, p \in Part :
        h[1] = "header" /\ p[1] = "project" /\ work[h] \in {"good", "bad"}
            => work[p] \in {"good", "bad"}

\* A Send always ends in a report, unless its owner is gone.
AlwaysReports == <>(report # "none")
=============================================================================
