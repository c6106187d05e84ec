------------------------------ MODULE GetPlan ------------------------------
(***************************************************************************)
(* The steps of a Get, as ConfigTransfer::buildGetSteps(), tableReadSteps()*)
(* and addProjectReads() build them.  A read step asks for one chunk; a    *)
(* table of a unit is the number of chunks its records take.               *)
(*                                                                         *)
(* What the plan depends on is the unit: `tables` and `labels`, sequences  *)
(* of [name, chunks] in the order they are read; whether it `plans` its    *)
(* tables (only GET_USAGE then tells how many records each holds) and      *)
(* `keeps` a project, whose body is `body` chunks behind its header.       *)
(***************************************************************************)
EXTENDS TransferSteps

ReadStep(cmd, table, start) ==
    [cmd |-> cmd, table |-> table, start |-> start,
     optional |-> FALSE, lenient |-> FALSE, quiet |-> FALSE]
MadeOptional(step) == [step EXCEPT !.optional = TRUE]
QuietRead(step) == [step EXCEPT !.quiet = TRUE]

\* Every step behind the first n is optional.
OptionalFrom(n, steps) ==
    [i \in DOMAIN steps |-> IF i > n THEN MadeOptional(steps[i]) ELSE steps[i]]

\* (Seeded bug: i + count < max.)
ReadsShortOfTheEnd(cmd, table) ==
    [i \in 1 .. (IF table.chunks > 1 THEN table.chunks - 1 ELSE table.chunks) |->
        ReadStep(cmd, table.name, i - 1)]

\* addReads, addLabelReads: the table's chunks, in order.
Reads(cmd, table) == [i \in 1 .. table.chunks |-> ReadStep(cmd, table.name, i - 1)]

AllReads(cmd, tables) ==
    LET upTo[n \in 0 .. Len(tables)] ==
            IF n = 0 THEN <<>> ELSE upTo[n - 1] \o Reads(cmd, tables[n])
    IN  upTo[Len(tables)]

\* The tables whose reads a Get cannot do without: messages, signals, math and
\* conditions.
RequiredTables == 4

\* (Seeded bug: the conditions' reads fall behind firstOptionalStep.)
RequiredUpTo(tables) == SubSeq(tables, 1, RequiredTables - 1)

\* The tables read before firstOptionalStep is taken.
Required(tables) == SubSeq(tables, 1, RequiredTables)

TableReadSteps(unit) ==
    OptionalFrom(Len(AllReads("read", Required(unit.tables))),
                 AllReads("read", unit.tables) \o AllReads("labels", unit.labels))

BuildGetSteps(unit) ==
    LET configuration == IF unit.plans
                         THEN <<ReadStep("usage", "usage", 0)>>
                         ELSE TableReadSteps(unit)
        singles == <<ReadStep("single", "busSetup", 0),
                     QuietRead(ReadStep("single", "channelsExt", 0))>>
        header == IF unit.keeps THEN <<ReadStep("project", "project", 0)>> ELSE <<>>
        required == <<ReadStep("ping", "none", 0)>> \o configuration
    IN  \* what TableReadSteps made optional stays so
        required \o OptionalFrom(0, singles \o header)

\* addProjectReads: the body's chunks behind the header's.
ProjectReads(unit) ==
    [i \in 1 .. unit.body |-> MadeOptional(ReadStep("project", "project", i))]
=============================================================================
