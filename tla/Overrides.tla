------------------------------ MODULE Overrides ------------------------------
(***************************************************************************)
(* Channel overrides: the Monitor Channels dialog                          *)
(* (gui/src/ui/monitor_channels_dialog.cpp), which pins signals of the     *)
(* unit and keeps the pins alive with a lease, and the unit, which drops   *)
(* them all after LeaseFor of silence.                                     *)
(*                                                                         *)
(* Every call to the unit waits in an event loop of its own: the user, the *)
(* document and the lease timer go on acting, and their calls nest.  The   *)
(* link answers calls in the order they were made (LinkContract), but only *)
(* the innermost loop can return.  The dialog is not modal: requests of    *)
(* the rest of the program may be ahead of a call on the line.  Time       *)
(* passes in steps of one transmission's timeout; a late copy counts as    *)
(* heard in its step, and a refused SET as one nobody heard: the dialog    *)
(* treats them alike.                                                      *)
(***************************************************************************)
EXTENDS Integers, Sequences

CONSTANTS
    NameOrder,  \* the signals, in the order of their channels' names
    Selections, \* what the user may select: sequences of signals
    Tries,      \* transmissions of a request
    TickEvery,  \* kLeaseTickMs, in timeouts
    LeaseFor,   \* OVERRIDE_LEASE_MS, in timeouts
    MaxDepth    \* calls the user nests (a bound)

Row == DOMAIN NameOrder
Signal == {NameOrder[r] : r \in Row}

\* The selected signals in their order, then the others by name.
Layout(sel) ==
    sel \o SelectSeq(NameOrder, LAMBDA s : \A i \in DOMAIN sel : sel[i] # s)

\* Every signal has its row in every layout: no channel is selected twice.
ASSUME OverrideConstants ==
    /\ NameOrder \in Seq(Signal) /\ {"all", "none"} \intersect Signal = {}
    /\ \A sel \in Selections :
         /\ Layout(sel) \in [Row -> Signal]
         /\ \A s \in Signal : \E r \in Row : Layout(sel)[r] = s
         /\ \A r1, r2 \in Row : Layout(sel)[r1] = Layout(sel)[r2] => r1 = r2
    /\ Tries \in Nat \ {0} /\ TickEvery \in Nat \ {0}
    /\ LeaseFor \in Nat \ {0} /\ MaxDepth \in Nat

VARIABLES
    dialog,     \* "gone", "open", "closing" (in closeEvent) or "crashed"
    selection,  \* m_selection
    ticked,     \* rows whose Override box is ticked
    overridden, \* m_overriddenRows
    timer,      \* what is left of m_leaseTimer's interval; it runs while a row
                \* is overridden
    stack,      \* the calls that have not returned, innermost last
    linkOpen,
    pins,       \* signals the unit has pinned
    silence,    \* how long the unit has heard no SET or LEASE
    crowded,    \* history: for how much of that, up to Slack, others held a
                \* call of the dialog up
    doubt       \* history: why the box of a signal and its pin may differ

dialogVars == <<dialog, selection, ticked, overridden, timer>>
unitVars == <<pins, silence, crowded>>
vars == <<dialogVars, stack, linkOpen, unitVars, doubt>>

\* row is 0 and `about' "all" or "none" for a call that is not about a signal;
\* `then' is what waits for a clear.
Call == [kind : {"probe", "set", "release", "lease", "clear"},
         row : Row \union {0}, about : Signal \union {"all", "none"},
         then : {"-", "close"},
         state : {"waiting", "ok", "failed"}, left : 1 .. Tries]

\* "unsure": the dialog changed it without the unit's answer; "left": a dialog
\* that ended without a word left it; "dropped": the unit let go of it by itself;
\* "crossed", as long as the dialog lives: two calls overlapped.
Doubt == {"none", "unsure", "left", "dropped", "crossed"}

TypeOK ==
    /\ dialog \in {"gone", "open", "closing", "crashed"}
    /\ selection \in Selections
    /\ ticked \subseteq Row /\ overridden \subseteq Row
    /\ timer \in 0 .. TickEvery
    /\ stack \in Seq(Call)
    /\ linkOpen \in BOOLEAN
    /\ pins \subseteq Signal /\ silence \in 0 .. LeaseFor - 1 /\ crowded \in 0 .. silence
    /\ doubt \in [Signal -> Doubt]

Init ==
    /\ dialog = "gone" /\ selection \in Selections
    /\ ticked = {} /\ overridden = {} /\ timer = 0
    /\ stack = <<>> /\ linkOpen = TRUE
    /\ pins = {} /\ silence = 0 /\ crowded = 0
    /\ doubt = [s \in Signal |-> "none"]

-----------------------------------------------------------------------------
(* The dialog *)

Alive == dialog \in {"open", "closing"}
SignalAt(row) == Layout(selection)[row]
SignalsAt(rows) == {SignalAt(r) : r \in rows}

\* Signals a call on the stack is about.
Pending == {s \in Signal : \E i \in DOMAIN stack : stack[i].about \in {s, "all"}}

Mark(doubts, signals, why) ==
    [s \in Signal |-> IF s \in signals /\ doubts[s] # "crossed" THEN why ELSE doubts[s]]

Push(kind, row, about, then) ==
    stack' = Append(stack, [kind |-> kind, row |-> row, about |-> about, then |-> then,
                            state |-> "waiting", left |-> Tries])

\* updateOverrideSummary(): the timer runs exactly while a row is overridden.
SetOverridden(rows) ==
    /\ overridden' = rows
    /\ timer' = IF rows = {} THEN 0 ELSE IF overridden = {} THEN TickEvery ELSE timer

\* (Seeded bug: the rows are forgotten and the boxes stay.)
ForgetRows == ticked' = ticked /\ SetOverridden({})

\* The end of clearAllOverrides().
UntickAll == ticked' = {} /\ SetOverridden({})

\* A new dialog's boxes are empty and none of its calls have crossed.
StartsAfresh ==
    doubt' = [s \in Signal |-> IF s \notin pins THEN "none"
                               ELSE IF doubt[s] = "crossed" THEN "left" ELSE doubt[s]]

\* onMonitorChannels(): the constructor probes for the override commands.  A
\* dialog whose probe failed shows no override columns and is taken for none.
Open ==
    /\ dialog = "gone" /\ stack = <<>> /\ linkOpen
    /\ Push("probe", 0, "none", "-")
    /\ StartsAfresh /\ UNCHANGED <<dialogVars, linkOpen, unitVars>>

UserMayCall == Alive /\ Len(SelectSeq(stack, LAMBDA c : c.kind # "lease")) < MaxDepth

\* The user acts on signals; on a closed link nobody is told.
UserActs(signals) ==
    /\ doubt' = Mark(IF linkOpen THEN doubt ELSE Mark(doubt, signals, "unsure"),
                     signals \intersect Pending, "crossed")
    /\ UNCHANGED <<linkOpen, unitVars>>

\* onOverrideToggled() of a clear box or an edit beside a ticked one, with
\* sendOverride().
SendOverride(row) ==
    /\ UserMayCall
    /\ IF linkOpen
       THEN /\ ticked' = ticked \union {row}
            /\ Push("set", row, SignalAt(row), "-") /\ UNCHANGED <<overridden, timer>>
       ELSE /\ ticked' = ticked \ {row}
            /\ SetOverridden(overridden \ {row}) /\ UNCHANGED stack
    /\ UserActs({SignalAt(row)}) /\ UNCHANGED <<dialog, selection>>

\* onOverrideToggled() of a ticked box.
Untick(row) ==
    /\ UserMayCall /\ row \in ticked
    /\ ticked' = ticked \ {row}
    /\ IF linkOpen
       THEN Push("release", row, SignalAt(row), "-") /\ UNCHANGED <<overridden, timer>>
       ELSE SetOverridden(overridden \ {row}) /\ UNCHANGED stack
    /\ UserActs({SignalAt(row)}) /\ UNCHANGED <<dialog, selection>>

\* clearAllOverrides(true) tells the unit only if a row is overridden.
Tells == overridden # {} /\ linkOpen

\* "Clear All Overrides", and rebuildRows(false) when the document changes.
ClearAll ==
    /\ Alive /\ (Tells => UserMayCall)
    /\ IF Tells THEN Push("clear", 0, "all", "-") /\ UNCHANGED <<ticked, overridden, timer>>
       ELSE UntickAll /\ UNCHANGED stack
    /\ UserActs(Signal) /\ UNCHANGED <<dialog, selection>>

\* closeEvent(); Qt refuses a second one meanwhile.
Close ==
    /\ dialog = "open" /\ (Tells => UserMayCall)
    /\ IF Tells
       THEN /\ dialog' = "closing"
            /\ Push("clear", 0, "all", "close") /\ UNCHANGED <<ticked, overridden, timer>>
       ELSE dialog' = "gone" /\ UntickAll /\ UNCHANGED stack
    /\ UserActs(Signal) /\ UNCHANGED selection

\* Esc: QDialog::reject() hides the dialog, and WA_DeleteOnClose deletes it.  No
\* closeEvent() comes, so the unit is not told; firmware_update_dialog.cpp guards
\* this path, this dialog does not.
Reject ==
    /\ Alive /\ dialog' = "gone" /\ UntickAll
    /\ doubt' = Mark(Mark(doubt, SignalsAt(overridden), "left"), Pending, "crossed")
    /\ UNCHANGED <<selection, stack, linkOpen, unitVars>>

\* (Seeded bug: rows are carried across by their number.)
SameRows(sel) == overridden

\* The rows the overridden signals have in the layout of sel.
CarriedRows(sel) == {r \in Row : Layout(sel)[r] \in SignalsAt(overridden)}

\* onSelectChannels() and Show All: rebuildRows(true).  A call in flight
\* returns to a row that may have become another signal's.
Select(sel) ==
    /\ Alive /\ sel # selection
    /\ selection' = sel
    /\ ticked' = CarriedRows(sel) /\ SetOverridden(CarriedRows(sel))
    /\ doubt' = Mark(doubt, Pending \union
         {Layout(sel)[stack[i].row] : i \in {j \in DOMAIN stack : stack[j].row \in Row}}, "crossed")
    /\ UNCHANGED <<dialog, stack, linkOpen, unitVars>>

\* (Seeded bug: a refresh that failed leaves the boxes for the next one.)
TryLater == UNCHANGED <<ticked, overridden, timer, doubt>>

\* A refresh that failed: clearAllOverrides(false).
LeaseFailed ==
    /\ UntickAll
    /\ doubt' = Mark(Mark(doubt, SignalsAt(overridden), "unsure"), Pending, "crossed")

\* (Seeded bug: the timer is never stopped.)
RunsOn == Alive

TimerRuns == Alive /\ overridden # {}
TimerDue == TimerRuns /\ timer = 0

\* onLeaseTick().  Qt does not deliver a timer's event inside its own handler:
\* such a tick is lost.  (A timer stopped and started again meanwhile is taken
\* for the same one.)
LeaseTick ==
    /\ TimerDue
    /\ IF \E i \in DOMAIN stack : stack[i].kind = "lease"
       THEN timer' = TickEvery /\ UNCHANGED <<ticked, overridden, stack, doubt>>
       ELSE IF linkOpen
       THEN /\ Push("lease", 0, "none", "-") /\ timer' = TickEvery
            /\ UNCHANGED <<ticked, overridden, doubt>>
       ELSE LeaseFailed /\ UNCHANGED stack
    /\ UNCHANGED <<dialog, selection, linkOpen, unitVars>>

-----------------------------------------------------------------------------
(* A call returns *)

Top == stack[Len(stack)]
Returning == stack # <<>> /\ Top.state # "waiting"
Return(kind) ==
    /\ Returning /\ Top.kind = kind
    /\ stack' = SubSeq(stack, 1, Len(stack) - 1)
    /\ UNCHANGED <<selection, linkOpen, unitVars>>

\* probeOverrideSupport(), in the constructor.
ReturnProbe ==
    /\ Return("probe")
    /\ dialog' = IF Top.state = "ok" THEN "open" ELSE "gone"
    /\ UNCHANGED <<ticked, overridden, timer, doubt>>

\* (Seeded bug: the box stays ticked.)
KeepBox(row) == UNCHANGED ticked

TakeTickOff(row) == ticked' = ticked \ {row}

\* sendOverride(), with the row it was called for.
ReturnSet ==
    /\ Return("set") /\ Alive
    /\ IF Top.state = "ok"
       THEN SetOverridden(overridden \union {Top.row}) /\ UNCHANGED <<ticked, doubt>>
       ELSE /\ TakeTickOff(Top.row) /\ SetOverridden(overridden \ {Top.row})
            /\ doubt' = Mark(doubt, {Top.about}, "unsure")
    /\ UNCHANGED dialog

\* The call's result is not looked at.
ReturnRelease ==
    /\ Return("release") /\ Alive
    /\ SetOverridden(overridden \ {Top.row})
    /\ doubt' = IF Top.state = "ok" THEN doubt ELSE Mark(doubt, {Top.about}, "unsure")
    /\ UNCHANGED <<dialog, ticked>>

ReturnLease ==
    /\ Return("lease") /\ Alive
    /\ IF Top.state = "ok" THEN UNCHANGED <<ticked, overridden, timer, doubt>>
       ELSE LeaseFailed
    /\ UNCHANGED dialog

\* Neither is this one's.
ReturnClear ==
    /\ Return("clear") /\ Alive
    /\ UntickAll
    /\ dialog' = IF Top.then = "close" THEN "gone" ELSE dialog
    /\ doubt' = IF Top.state = "ok" THEN doubt ELSE Mark(doubt, SignalsAt(overridden), "unsure")

\* The dialog was closed and deleted (WA_DeleteOnClose) inside this call's
\* loop; what the code after it does is undefined: nothing seen, or a crash.
ReturnToDeleted ==
    /\ Returning /\ dialog = "gone" /\ Top.kind # "probe"
    /\ \/ stack' = SubSeq(stack, 1, Len(stack) - 1) /\ UNCHANGED <<dialog, linkOpen>>
       \/ stack' = <<>> /\ dialog' = "crashed" /\ linkOpen' = FALSE
    /\ UNCHANGED <<selection, ticked, overridden, timer, unitVars, doubt>>

ManagerCrashes ==
    /\ dialog # "crashed" /\ dialog' = "crashed" /\ linkOpen' = FALSE
    /\ stack' = <<>> /\ UntickAll
    /\ doubt' = Mark(doubt, SignalsAt(overridden) \union Pending, "left")
    /\ UNCHANGED <<selection, unitVars>>

\* It is started again; the selection is in its settings.
ManagerStarts ==
    /\ dialog = "crashed" /\ dialog' = "gone"
    /\ UNCHANGED <<selection, ticked, overridden, timer, stack, linkOpen, unitVars, doubt>>

-----------------------------------------------------------------------------
(* The link, the unit and time *)

Waiting == {i \in DOMAIN stack : stack[i].state = "waiting"}

\* The request in flight: the oldest that waits.
First == CHOOSE i \in Waiting : \A j \in Waiting : i <= j
InFlight == stack[First]

Done(call, state) == [call EXCEPT !.state = state, !.left = 1]

Renews(call) == call.kind # "clear"

\* The pins once the unit has acted on a call.
PinsAfter(call) ==
    CASE call.kind = "set"      -> pins \union {call.about}
      [] call.kind = "release"  -> pins \ {call.about}
      [] call.kind = "clear"    -> {}
      [] OTHER                  -> pins

\* What a refresh may wait for others before the lease runs out on it.
Slack == LeaseFor - TickEvery - Tries

Lasts(quiet) == quiet < LeaseFor

\* The unit holds pins `held' after `quiet' of silence, `crowd' of it behind
\* others, or drops them all; nothing is in doubt any more of the `known' signals.
Hold(held, quiet, crowd, known) ==
    /\ pins' = IF Lasts(quiet) THEN held ELSE {}
    /\ silence' = IF pins' = {} THEN 0 ELSE quiet
    /\ crowded' = IF pins' = {} THEN 0 ELSE crowd
    /\ doubt' = Mark(Mark(doubt, known, "none"), held \ pins', "dropped")

Answer ==
    /\ Waiting # {}
    /\ LET call == InFlight
       IN  /\ stack' = [stack EXCEPT ![First] = Done(@, "ok")]
           /\ Hold(PinsAfter(call), IF Renews(call) THEN 0 ELSE silence,
                   IF Renews(call) THEN 0 ELSE crowded, {s \in Signal : call.about \in {s, "all"}})
    /\ UNCHANGED <<dialogVars, linkOpen>>

Tick == timer' = IF TimerRuns THEN timer - 1 ELSE timer

\* Time passes with no request in flight,
PassIdle ==
    /\ ~TimerDue /\ ~Returning /\ Waiting = {}
    /\ Tick /\ Hold(pins, silence + 1, crowded, {})
    /\ UNCHANGED <<dialog, selection, ticked, overridden, stack, linkOpen>>

\* or with one that waits behind the requests of others (a Send's clear or save
\* has a flash timeout, longer than the lease) and has not been transmitted,
PassCrowded ==
    /\ ~TimerDue /\ ~Returning /\ Waiting # {} /\ InFlight.left = Tries
    /\ Tick /\ Hold(pins, silence + 1, IF crowded < Slack THEN crowded + 1 ELSE crowded, {})
    /\ UNCHANGED <<dialog, selection, ticked, overridden, stack, linkOpen>>

\* or with one whose frame, or whose answer, is lost.
PassUnanswered(heard) ==
    /\ ~TimerDue /\ ~Returning /\ Waiting # {}
    /\ stack' = IF InFlight.left = 1 THEN [stack EXCEPT ![First] = Done(@, "failed")]
                ELSE [stack EXCEPT ![First].left = @ - 1]
    /\ Tick
    /\ IF heard THEN Hold(PinsAfter(InFlight), IF Renews(InFlight) THEN 1 ELSE silence + 1,
                         IF Renews(InFlight) THEN 0 ELSE crowded, PinsAfter(InFlight) \ pins)
       ELSE Hold(pins, silence + 1, crowded, {})
    /\ UNCHANGED <<dialog, selection, ticked, overridden, linkOpen>>

\* A reset behind an adapter that keeps its port.
UnitRestarts ==
    /\ pins # {} /\ Hold(pins, LeaseFor, 0, {})
    /\ UNCHANGED <<dialogVars, stack, linkOpen>>

\* The port goes: every request fails.
Disconnect ==
    /\ linkOpen /\ linkOpen' = FALSE
    /\ stack' = [i \in DOMAIN stack |->
                    IF i \in Waiting THEN Done(stack[i], "failed") ELSE stack[i]]
    /\ UNCHANGED <<dialogVars, unitVars, doubt>>

Connect ==
    /\ ~linkOpen /\ dialog # "crashed" /\ linkOpen' = TRUE
    /\ UNCHANGED <<dialogVars, stack, unitVars, doubt>>

PassTime == PassIdle \/ PassCrowded \/ \E heard \in BOOLEAN : PassUnanswered(heard)

Returns ==
    \/ ReturnProbe \/ ReturnSet \/ ReturnRelease \/ ReturnLease \/ ReturnClear
    \/ ReturnToDeleted

Next ==
    \/ Open \/ ClearAll \/ Close \/ Reject
    \/ \E row \in Row : SendOverride(row) \/ Untick(row)
    \/ \E sel \in Selections : Select(sel)
    \/ LeaseTick
    \/ Returns \/ ManagerCrashes \/ ManagerStarts
    \/ Answer \/ PassTime
    \/ UnitRestarts \/ Disconnect \/ Connect

\* Time passes, the timer's event is delivered and a loop that was told to quit
\* ends; neither the user nor the line has to do anything.
Spec ==
    /\ Init /\ [][Next]_vars
    /\ WF_vars(PassTime) /\ WF_vars(LeaseTick) /\ WF_vars(Returns)

-----------------------------------------------------------------------------
(* Properties *)

Settled(row) == SignalAt(row) \notin Pending /\ doubt[SignalAt(row)] # "crossed"

\* Between calls the boxes are what m_overriddenRows says, which the title,
\* the lease timer and the hiding of rows go by.
BoxesAgree == \A row \in Row : Settled(row) => (row \in ticked <=> row \in overridden)

\* A pin that drives the unit is ticked and exempt from hiding: "a selection
\* must not be able to hide a value that is driving the device".  Excepted are
\* signals with a call that got no answer or crossed another, and pins that an
\* earlier dialog left behind without a word: the next one's probe is a LEASE.
NoHiddenPin ==
    Alive => \A row \in Row :
        /\ Settled(row) /\ SignalAt(row) \in pins
        /\ doubt[SignalAt(row)] \notin {"unsure", "left"}
        => row \in ticked \intersect overridden

\* "A box that stays ticked would claim a pin the device never took": unless
\* the unit let go of it, a ticked signal is pinned.
NoEmptyBox ==
    \A row \in ticked :
        Settled(row) /\ doubt[SignalAt(row)] # "dropped" => SignalAt(row) \in pins

\* The lease does what it is for: a ticked pin does not lapse, however many
\* frames are lost, while every other call of the dialog has been answered and
\* others have held the dialog's calls up for less than Slack.  (A call that
\* fails, or a Send's flash command on the line before a refresh, can hold it up
\* for longer than the lease lasts.)
RefreshIsInTime ==
    [][PassTime /\ pins' = {} /\ Alive /\ Pending = {} /\ crowded < Slack
       /\ (\A s \in Signal : doubt[s] \in {"none", "dropped"})
       => \A row \in ticked : SignalAt(row) \notin pins]_vars

\* Once the dialog, open or closed, overrides nothing and the user makes no
\* call, the unit lets go of every pin, also of one whose release got lost.
EverythingIsLetGo ==
    <>[](overridden = {} /\ \A i \in DOMAIN stack : stack[i].kind = "lease") => <>[](pins = {})
=============================================================================
