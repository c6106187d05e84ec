--------------------------- MODULE MCGetTransfer ---------------------------
(***************************************************************************)
(* Units to Get from.  New is a CAN Triple 2.0 that plans its tables and   *)
(* keeps names and a project; Stale the same whose project was damaged and *)
(* whose bus setup has a size this build does not know; Torn's project     *)
(* does not come as asked for; Mute's GET_USAGE cannot be read.  Old is a  *)
(* 1.x that knows neither labels nor the extended channels and reads its   *)
(* tables over fixed ranges; Guarded the same behind a Get password.       *)
(* Changed and Renamed run another script and other names than they were   *)
(* sent, Extended has a UDS table more, Erased was never sent a project    *)
(* and Bare holds counters only.                                           *)
(***************************************************************************)
EXTENDS GetResult

NoAnswers == [t \in {} |-> "ok"]

\* The required four, then a table whose reads are optional.
MCTables(messages, conditions, scripts) ==
    <<[name |-> "messages", chunks |-> messages],
      [name |-> "signals", chunks |-> 1],
      [name |-> "math", chunks |-> 0],
      [name |-> "conditions", chunks |-> conditions],
      [name |-> "counters", chunks |-> 1],
      [name |-> "script", chunks |-> scripts]>>

\* Every table as the unit runs it.
AsRun(tables) ==
    [t \in {tables[i].name : i \in DOMAIN tables} |->
        LET table == CHOOSE x \in {tables[i] : i \in DOMAIN tables} : x.name = t
        IN  [i \in 1 .. table.chunks |-> i - 1]]

NewNames == <<[name |-> "messageNames", chunks |-> 3]>>
New == [plans |-> TRUE, keeps |-> TRUE, valid |-> TRUE, erased |-> FALSE, body |-> 2,
        tables |-> MCTables(2, 1, 2), labels |-> NewNames,
        sent |-> AsRun(MCTables(2, 1, 2) \o NewNames),
        answers |-> NoAnswers, misfits |-> {}]
SmallNames == <<[name |-> "messageNames", chunks |-> 1]>>
SmallTables == MCTables(1, 0, 1) \o <<[name |-> "uds", chunks |-> 1]>>
Small == [New EXCEPT !.body = 1, !.tables = SmallTables, !.labels = SmallNames,
                     !.sent = AsRun(SmallTables \o SmallNames)]
Changed == [Small EXCEPT !.sent["script"] = <<7>>]
Renamed == [Small EXCEPT !.sent["messageNames"] = <<0, 1>>]
Extended == [Small EXCEPT !.sent["uds"] = <<>>, !.sent["counters"] = <<>>]
Erased == [Small EXCEPT !.valid = FALSE, !.erased = TRUE]
Stale == [New EXCEPT !.valid = FALSE, !.misfits = {"busSetup"}]
Torn == [New EXCEPT !.misfits = {"project"}]
Mute == [New EXCEPT !.misfits = {"usage"}]
Old == [New EXCEPT !.plans = FALSE, !.keeps = FALSE, !.body = 0,
                   !.tables = MCTables(1, 1, 3), !.labels = <<>>,
                   !.sent = AsRun(MCTables(1, 1, 3)),
                   !.answers = [t \in {"channelsExt"} |-> "unsupported"]]
Guarded == [Old EXCEPT !.answers = [t \in {"messages", "script", "counters"} |->
                                        IF t = "messages" THEN "locked" ELSE "error"]]
Short == [Old EXCEPT !.answers = [t \in {"counters"} |-> "error"]]
\* Counters only, behind a line that may lose them.
Bare == [Old EXCEPT !.tables = <<[name |-> "messages", chunks |-> 0],
                                 [name |-> "signals", chunks |-> 0],
                                 [name |-> "math", chunks |-> 0],
                                 [name |-> "conditions", chunks |-> 0],
                                 [name |-> "counters", chunks |-> 1]>>]

MCUnits == {New, Changed, Renamed, Extended, Erased, Stale, Torn, Mute,
            Old, Guarded, Short, Bare}
=============================================================================
