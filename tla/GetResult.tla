----------------------------- MODULE GetResult -----------------------------
(***************************************************************************)
(* What becomes of a Get that succeeded: the handler of tablesReady() in   *)
(* gui/src/ui/main_window.cpp.  It says that the unit is empty, opens the  *)
(* project the configuration was sent from (gui/src/protocol/              *)
(* stored_project.h), asks because the configuration is another one now,   *)
(* or opens the configuration as read.                                     *)
(*                                                                         *)
(* Which of them depends on the tables as read, gaps included; the reads   *)
(* that were skipped are named in the last case only.  unit.sent is, of    *)
(* every table, what the Send that stored the project wrote; unit.erased   *)
(* says that the unit keeps projects and has none.                         *)
(***************************************************************************)
EXTENDS GetTransfer

\* The tables behind crc8 in a Get: no fingerprint covers them.
Uncovered == {"uds"}

\* Table t of DeviceTables as the Get read it; one without records has none.
Read(t) == IF t \in DOMAIN got THEN got[t] ELSE <<>>

\* addTable() of tables 0 to 14, and addNames().
Covered(u) ==
    ({u.tables[i].name : i \in DOMAIN u.tables} \ Uncovered)
        \union {u.labels[i].name : i \in DOMAIN u.labels}

\* (Seeded bug: the names are left out of the fingerprint.)
RecordsFingerprint(records) ==
    [t \in {unit.tables[i].name : i \in DOMAIN unit.tables} \ Uncovered |-> records[t]]

\* The hash is right about the tables it covers (no collisions).
ConfigurationFingerprint(records) == [t \in Covered(unit) |-> records[t]]

\* The tables deviceEmpty looks at.
NotAsked == {"crc8", "uds"}
DeviceEmpty ==
    \A i \in DOMAIN unit.tables :
        unit.tables[i].name \notin NotAsked => Read(unit.tables[i].name) = <<>>

\* openStoredProject(): nothing read at all is a header too short to judge.
StoredProjectState ==
    IF Read("project") = <<>> THEN "damaged"
    ELSE IF unit.erased THEN "none"
    ELSE IF unit.valid /\ Len(Read("project")) = unit.body + 1 THEN "valid"
    ELSE "damaged"

AsSent ==
    ConfigurationFingerprint(unit.sent) = ConfigurationFingerprint([t \in Covered(unit) |-> Read(t)])

\* What the user is told: the unit is "empty"; the "project" stored on it was
\* opened; the configuration has been "changed" since it was stored; the
\* configuration was "read" from the tables, its project being "damaged".
Told ==
    IF DeviceEmpty THEN "empty"
    ELSE IF StoredProjectState = "valid" THEN IF AsSent THEN "project" ELSE "changed"
    ELSE IF StoredProjectState = "damaged" THEN "damaged"
    ELSE "read"

-----------------------------------------------------------------------------
(* Properties *)

\* What table t of the unit runs.
Runs(t) ==
    LET table == CHOOSE x \in {unit.tables[i] : i \in DOMAIN unit.tables}
                              \union {unit.labels[i] : i \in DOMAIN unit.labels} : x.name = t
    IN  [i \in 1 .. table.chunks |-> i - 1]

Skipped(t) == \E s \in skipped : s[1] = t

\* What the user is told of the unit is so, unless a table it hangs on was named
\* as skipped: a project opened unasked describes what the unit runs, a
\* configuration said to be changed is, a unit said to be empty holds nothing of
\* the tables asked for, and a project said to be unreadable is one -- or the
\* unit keeps none (a 1.x is told so too).
ToldIsSo ==
    report = "ok" =>
        /\ Told = "project" => \A t \in Covered(unit) : Runs(t) = unit.sent[t] \/ Skipped(t)
        /\ Told = "changed" => \E t \in Covered(unit) : Runs(t) # unit.sent[t] \/ Skipped(t)
        /\ Told = "empty" =>
             \A i \in DOMAIN unit.tables :
                 LET t == unit.tables[i]
                 IN  t.chunks = 0 \/ t.name \in NotAsked \/ Skipped(t.name)
        /\ Told = "damaged" => ~unit.keeps \/ ~unit.valid \/ Skipped("project")
=============================================================================
