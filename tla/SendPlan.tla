------------------------------ MODULE SendPlan ------------------------------
(***************************************************************************)
(* The steps of a Send, in the order ConfigTransfer::buildSendSteps()      *)
(* builds them.  A write step stands for one chunk of one table (or one    *)
(* record written whole); what it writes is its `part`, and the verify     *)
(* step of the same part reads it back.  The code chunks reads and writes  *)
(* differently; here each written part is read back by a step of its own.  *)
(***************************************************************************)
EXTENDS TransferSteps

\* Parts are named <<kind, number>>.
NoPart == <<"none", 0>>

Step(cmd, part) ==
    [cmd |-> cmd, part |-> part, optional |-> FALSE, lenient |-> FALSE, quiet |-> FALSE]
Optional(step) == [step EXCEPT !.optional = TRUE]
Lenient(step) == [step EXCEPT !.lenient = TRUE]
QuietIfUnsupported(step) == [step EXCEPT !.optional = TRUE, !.quiet = TRUE]

Unless(condition, steps) == IF condition THEN <<>> ELSE steps

\* The parts one kind of write is cut into.
Chunks(kind, n) == [i \in 1 .. n |-> <<kind, i>>]

Writes(parts) == [i \in DOMAIN parts |-> Step("write", parts[i])]
Verifies(parts) == [i \in DOMAIN parts |-> Step("verify", parts[i])]

AllLenient(steps) == [i \in DOMAIN steps |-> Lenient(steps[i])]
AllOptional(steps) == [i \in DOMAIN steps |-> Optional(steps[i])]

\* (Seeded bug: the header first.)
HeaderFirst(body) ==
    IF body = 0 THEN <<>> ELSE <<<<"header", 1>>>> \o Chunks("project", body)

\* The stored project: its body, then its header; read back from its start.
ProjectParts(body) ==
    IF body = 0 THEN <<>> ELSE Append(Chunks("project", body), <<"header", 1>>)

ProjectFromItsStart(body) ==
    IF body = 0 THEN <<>> ELSE <<<<"header", 1>>>> \o Chunks("project", body)

\* (Seeded bug: the project stored behind the commit.)
BuildProjectLast(d) ==
    <<Step("ping", NoPart), Step("clear", NoPart)>>
    \o Writes(Chunks("table", d.tables))
    \o Unless(~d.saveToFlash, <<Lenient(Step("save", NoPart))>>)
    \o Writes(ProjectParts(d.project))

\* d: the data of the Send -- how many chunks its tables (with the names, which
\* are written like tables), its script and its project's body take, how many
\* bus setups go with it -- and the options the caller chose.
BuildSendSteps(d) ==
    <<Step("ping", NoPart), Step("clear", NoPart)>>
    \o Unless(~d.plansTables, <<Step("plan", NoPart)>>)
    \o <<Optional(Step("write", <<"name", 1>>))>>
    \o Writes(Chunks("table", d.tables))
    \o AllLenient(Writes(Chunks("script", d.script)))
    \o AllOptional(Writes(<<<<"passwords", 1>>, <<"channels", 1>>>>))
    \o <<QuietIfUnsupported(Step("write", <<"channelsExt", 1>>))>>
    \o AllOptional(Writes(Chunks("bus", d.buses)))
    \o Writes(ProjectParts(d.project))
    \o Unless(~d.verify, Verifies(Chunks("table", d.tables))
                         \o AllLenient(Verifies(Chunks("script", d.script)))
                         \o Verifies(ProjectFromItsStart(d.project)))
    \o Unless(~d.saveToFlash, <<Lenient(Step("save", NoPart))>>)
    \o Unless(~d.resetAfter, <<Lenient(Step("reset", NoPart))>>)
=============================================================================
