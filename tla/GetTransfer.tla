---------------------------- MODULE GetTransfer ----------------------------
(***************************************************************************)
(* A Get: runNext() of gui/src/protocol/config_transfer.cpp over a plan    *)
(* that grows as it runs.  GET_USAGE's reply plans the reads of the tables *)
(* behind itself, the stored project's header those of its body; a gap in  *)
(* the project takes its remaining reads out again.                        *)
(*                                                                         *)
(* The link is its contract (LinkContract): a reply to a range read is the *)
(* one asked for, and any read may be lost or its frame garbled.  The unit *)
(* otherwise answers a kind of read always the same way.                   *)
(***************************************************************************)
EXTENDS GetPlan

CONSTANT Units  \* the units considered

\* How a unit may refuse a read for a reason of its own.
Considered == {"unsupported", "locked", "error"}

\* A unit has the tables a Get cannot do without, empty or not; no two of its
\* tables are the same, and none is one of the records read on their own.
ASSUME UnitsAreWellFormed ==
    \A u \in Units :
        /\ u.tables \in Seq([name : STRING, chunks : Nat]) /\ Len(u.tables) >= RequiredTables
        /\ u.labels \in Seq([name : STRING, chunks : Nat])
        /\ \A i, j \in DOMAIN u.tables : u.tables[i].name = u.tables[j].name => i = j
        /\ \A i, j \in DOMAIN u.labels : u.labels[i].name = u.labels[j].name => i = j
        /\ \A i \in DOMAIN u.tables, j \in DOMAIN u.labels :
              u.tables[i].name # u.labels[j].name
        /\ \A t \in {u.tables[i].name : i \in DOMAIN u.tables}
                     \union {u.labels[i].name : i \in DOMAIN u.labels} :
              t \notin {"busSetup", "channelsExt", "project"}
        /\ u.plans \in BOOLEAN /\ u.keeps \in BOOLEAN /\ u.valid \in BOOLEAN /\ u.body \in Nat
        /\ \A t \in DOMAIN u.answers : u.answers[t] \in Considered

VARIABLES
    unit,      \* this unit: what the plan depends on, and how it answers
    steps,     \* m_steps
    index,     \* m_index; 0 until the queued first runNext()
    report,    \* what finished() said; "none" before, "gone" if the owner died
    cancelled, \* m_cancelled
    skipped,   \* m_skippedStages: <<table, start, why>>
    lacked,    \* m_lacked, as tables
    replyLost, \* m_replyLost
    got        \* m_readTables (with the name, the bus setup and the project):
               \* of each table the chunks received, in their order
plan == <<unit, steps>>
vars == <<plan, index, report, cancelled, skipped, lacked, replyLost, got>>

\* What a unit holds: a set of parts <<table, start>>.
Chunks(table) == {<<table.name, i>> : i \in 0 .. table.chunks - 1}
Records(u) == UNION {Chunks(u.tables[i]) : i \in DOMAIN u.tables}
Names(u) == UNION {Chunks(u.labels[i]) : i \in DOMAIN u.labels}
Singles == {<<"busSetup", 0>>, <<"channelsExt", 0>>}
Project(u) == IF u.keeps THEN {<<"project", i>> : i \in 0 .. u.body} ELSE {}
Held(u) == Records(u) \union Names(u) \union Singles \union Project(u)
Table(u) == {p[1] : p \in Held(u)}

\* A chunk of names nobody sent.
Blank == -1

Why == Considered \union {"badline", "lost", "no fit"}

Init ==
    /\ unit \in Units
    /\ steps = BuildGetSteps(unit)
    /\ index = 0 /\ report = "none" /\ cancelled = FALSE
    /\ skipped = {} /\ lacked = {} /\ replyLost = FALSE
    /\ got = [t \in Table(unit) |-> <<>>]

-----------------------------------------------------------------------------
(* runNext() and its handler *)

\* (Seeded bug: m_index > m_steps.size().)
RunFromOneFurther(i) ==
    report' = IF cancelled THEN "cancelled" ELSE IF i > Len(steps') + 1 THEN "ok" ELSE report

\* runNext() once m_index is i; past the last step the tables are handed over.
RunFrom(i) ==
    report' = IF cancelled THEN "cancelled" ELSE IF i > Len(steps') THEN "ok" ELSE report

\* The first runNext(), queued by get().
Begin ==
    /\ index = 0 /\ report = "none"
    /\ index' = 1
    /\ UNCHANGED <<plan, cancelled, skipped, lacked, replyLost, got>>
    /\ RunFrom(1)

InFlight == report = "none" /\ index \in DOMAIN steps
Current == steps[index]

Advance == index' = index + 1 /\ RunFrom(index + 1)
Abort ==
    /\ report' = "failed"
    /\ UNCHANGED <<plan, index, skipped, lacked, replyLost, got>>

\* How the unit answers a request of this step, if it arrives whole.
Answer(step) == IF step.table \in DOMAIN unit.answers THEN unit.answers[step.table] ELSE "ok"
\* An answer of a size this build does not know.
Misfits(step) == step.table \in unit.misfits

\* The plan without the stored project's remaining reads.
WithoutProject ==
    LET upTo[n \in 0 .. Len(steps) - index] ==
            IF n = 0 THEN SubSeq(steps, 1, index)
            ELSE IF steps[index + n].cmd = "project" THEN upTo[n - 1]
            ELSE Append(upTo[n - 1], steps[index + n])
    IN  upTo[Len(steps) - index]

Skipping(why) == skipped \union {<<Current.table, Current.start, why>>}

\* (Seeded bug: a lost reply is noted with the skipped stages only.)
NeverNoted(why) == FALSE

\* errCode 0.
NotedAsLost(why) == why = "lost"

\* (Seeded bug: the failed project read alone is given up.)
TheOthersStay == UNCHANGED <<steps, got>>

\* A project with a piece missing is no project.
DropProject ==
    /\ got' = [got EXCEPT !["project"] = <<>>]
    /\ steps' = WithoutProject

Skip(why) ==
    /\ Tolerates(Current, why)
    /\ replyLost' = (replyLost \/ NotedAsLost(why))
    /\ IF Quiet(Current, why)
       THEN lacked' = lacked \union {Current.table} /\ UNCHANGED skipped
       ELSE skipped' = Skipping(why) /\ UNCHANGED lacked
    /\ IF Current.cmd = "project" THEN DropProject ELSE UNCHANGED <<steps, got>>
    /\ UNCHANGED unit
    /\ Advance

Fail(why) == ~Tolerates(Current, why) /\ Abort

Received(chunks) ==
    /\ got' = [got EXCEPT ![Current.table] = chunks]
    /\ UNCHANGED <<plan, skipped, lacked, replyLost>>
    /\ Advance

\* (Seeded bug: a table takes whatever comes.)
AnyPlace(t, start) == TRUE

\* appendItems: the reply starts where the table read so far ends.
InPlace(t, start) == start = Len(got[t])

ReceiveRecords ==
    /\ Current.cmd = "read"
    /\ IF InPlace(Current.table, Current.start)
       THEN Received(Append(got[Current.table], Current.start))
       ELSE Abort

\* captureLabels: labels.resize(start), then the names.
ReceiveNames ==
    /\ Current.cmd = "labels"
    /\ LET names == got[Current.table]
       IN  IF Current.start < Len(names) THEN Abort
           ELSE Received([i \in 1 .. Current.start + 1 |->
                            IF i <= Len(names) THEN names[i]
                            ELSE IF i = Current.start + 1 THEN Current.start ELSE Blank])

\* The ping's answer is not kept; neither is a record of another size.
ReceiveSingle ==
    /\ Current.cmd \in {"ping", "single"}
    /\ IF Current.cmd = "ping" \/ Misfits(Current)
       THEN UNCHANGED <<plan, skipped, lacked, replyLost, got>> /\ Advance
       ELSE Received(<<0>>)

\* captureProject: the next bytes, and with a valid header the body's reads; or
\* not what was asked for, or with a gap before it.
ReceiveProject ==
    /\ Current.cmd = "project"
    /\ UNCHANGED <<unit, lacked, replyLost>>
    /\ IF ~Misfits(Current) /\ InPlace("project", Current.start)
       THEN /\ got' = [got EXCEPT !["project"] = Append(@, Current.start)]
            /\ steps' = IF Current.start = 0 /\ unit.valid THEN steps \o ProjectReads(unit)
                        ELSE steps
            /\ UNCHANGED skipped
       ELSE DropProject /\ skipped' = Skipping("no fit")
    /\ Advance

\* captureUsage: what the running configuration holds.
ReceiveUsage ==
    /\ Current.cmd = "usage"
    /\ IF Misfits(Current) THEN Abort
       ELSE /\ steps' = SubSeq(steps, 1, index) \o TableReadSteps(unit)
                        \o SubSeq(steps, index + 1, Len(steps))
            /\ UNCHANGED <<unit, skipped, lacked, replyLost, got>>
            /\ Advance

Receive ==
    ReceiveSingle \/ ReceiveUsage \/ ReceiveRecords \/ ReceiveNames \/ ReceiveProject

\* The handler of the request in flight: the unit's answer, or none, or a line
\* that garbles the frame until the budget is spent.
Handle ==
    /\ InFlight
    /\ UNCHANGED cancelled
    /\ \/ Answer(Current) = "ok" /\ Receive
       \/ \E why \in {Answer(Current), "badline", "lost"} \ {"ok"} : Skip(why) \/ Fail(why)

\* The progress dialog's Cancel; heeded by the next runNext().
Cancel ==
    /\ report = "none" /\ ~cancelled
    /\ cancelled' = TRUE
    /\ UNCHANGED <<plan, index, report, skipped, lacked, replyLost, got>>

\* The owner is destroyed, and the ConfigTransfer with it.
OwnerDies ==
    /\ report = "none"
    /\ report' = "gone"
    /\ UNCHANGED <<plan, index, cancelled, skipped, lacked, replyLost, got>>

Done == report # "none" /\ UNCHANGED vars

Next == Begin \/ Handle \/ Cancel \/ OwnerDies \/ Done

\* The link answers every request and the event loop runs what is queued on it.
Spec == Init /\ [][Next]_vars /\ WF_vars(Begin) /\ WF_vars(Handle)

-----------------------------------------------------------------------------
(* Properties *)

Has(p) == \E i \in DOMAIN got[p[1]] : got[p[1]][i] = p[2]
NotedWith(p, whys) == \E why \in whys : <<p[1], p[2], why>> \in skipped

\* Record k of a table read is record k of the unit's table, however many
\* chunks before it were lost: names may have holes, records have none.
RecordsInPlace ==
    \A p \in Held(unit) : \A i \in DOMAIN got[p[1]] :
        \/ got[p[1]][i] = i - 1
        \/ got[p[1]][i] = Blank /\ p \in Names(unit)

\* A Get that succeeds has read everything the unit holds of the first four
\* tables; whatever else is missing is named to the user, except what a unit
\* from before the quiet commands cannot have and a single record of a size
\* this build does not know.
NothingIsMissingUnsaid ==
    report = "ok" =>
        /\ \A i \in 1 .. RequiredTables :
             \A p \in Chunks(unit.tables[i]) : Has(p)
        /\ \A p \in Held(unit) \ Project(unit) :
             Has(p) \/ NotedWith(p, Why) \/ p[1] \in lacked \union unit.misfits

\* The project a Get hands over is the whole one the unit keeps, or there is
\* none and the reason is named; a header that is not valid stands alone.
ProjectIsWholeOrNone ==
    report = "ok" /\ unit.keeps =>
        \/ unit.valid /\ \A p \in Project(unit) : Has(p)
        \/ ~unit.valid /\ got["project"] = <<0>>
        \/ got["project"] = <<>> /\ \E p \in Project(unit) : NotedWith(p, Why)

\* A read the backup does not refuse -- no reply was lost -- is short only of
\* what the unit declined or the line garbled (BackupIsComplete: of what the
\* unit does not have).
BackupKnowsItsGaps ==
    report = "ok" /\ ~replyLost =>
        \A p \in Held(unit) \ Project(unit) :
            \/ Has(p) \/ NotedWith(p, Considered \union {"badline"})
            \/ p[1] \in lacked \union unit.misfits

\* A Get always ends in a report, unless its owner is gone, though its plan
\* grows while it runs.
AlwaysReports == <>(report # "none")

\* config_transfer.h, anyReplyLost(): "a NACK on an optional read means 'this
\* firmware genuinely does not have that table', which is a truthful partial
\* result"; a read whose caller need not refuse it as a backup has everything
\* but that.
BackupIsComplete ==
    report = "ok" /\ ~replyLost =>
        \A p \in Records(unit) : Has(p) \/ p[1] \in DOMAIN unit.answers
=============================================================================
