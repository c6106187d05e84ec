------------------------------- MODULE Session -------------------------------
(***************************************************************************)
(* The main window's commands on a unit (gui/src/ui/main_window.cpp):      *)
(* Connect, Send, Get, Monitor Channels and Reset Device, the passwords    *)
(* they prove (gui/src/protocol/device_session.cpp, access_state.cpp,      *)
(* gui/src/ui/access_passwords_dialog.cpp) and the transfers they start.   *)
(*                                                                         *)
(* A command is a flow of steps.  A step that asks the unit waits in an    *)
(* event loop of its own with the window disabled (BusyScope), one that    *)
(* asks the user shows a modal dialog.  Send and Get only start a transfer *)
(* and return; its end runs a flow inside whatever loop is running then.   *)
(* The link answers requests in their order (LinkContract); the innermost  *)
(* flow alone can go on.                                                   *)
(*                                                                         *)
(* A transfer asks any number of times, one request behind another         *)
(* (SendTransfer and GetTransfer say which), and fails when the link       *)
(* closes.  Boxes that only report the end of a command are left out.  No  *)
(* unit is put in another's place behind an open port.                     *)
(***************************************************************************)
EXTENDS Integers, FiniteSets, SequencesExt

CONSTANTS
    Units,     \* records: usb (a CAN Triple 2.0), guards (functions with a
               \* password), key (of its Protected Comms password), withholds
               \* (a 2.2.x that holds marked messages)
    Documents, \* records: marked (it has protected messages), key (its own
               \* Protected Comms key, or "none")
    MaxDepth   \* commands the user nests (a bound)

Functions == {"send", "get", "comms"}
NoUnit == [usb |-> FALSE, guards |-> {}, key |-> "none", withholds |-> FALSE]
NoDocument == [marked |-> FALSE, key |-> "none"]

ASSUME SessionConstants ==
    /\ \A u \in Units :
          /\ u.guards \subseteq Functions /\ u # NoUnit
          /\ "comms" \in u.guards => u.key # "none"
    /\ \A d \in Documents : d \in [marked : BOOLEAN, key : STRING]
    /\ MaxDepth \in Nat \ {0}

VARIABLES
    plugged,         \* the unit on the port, or NoUnit
    proved,          \* what was proved to it since it started
    linkOpen,
    hardware,        \* m_deviceHardware: the unit it is of, or NoUnit
    hasDocument,
    doc,             \* m_config
    enabled,         \* the window takes commands
    flows,           \* commands and handlers that have not returned, innermost last
    transfers,       \* the ConfigTransfers that are alive
    queue, inFlight, \* who waits for the link, and whether the first is on the line
    getInProgress, monitorAfterGet,
    crossed,         \* history: a Get's unlock ran inside another command, and
                     \* something of the two is left
    unread,          \* history: the unit's capacity could not be read for the
                     \* second attempt of a Get
    surprised        \* history: the unit refused what had been proved to it
                     \* (both forgotten by the first command that runs alone again)

unitVars == <<plugged, proved>>
docVars == <<hasDocument, doc>>
windowVars == <<docVars, getInProgress, monitorAfterGet>>
linkVars == <<queue, inFlight>>
histories == <<crossed, unread, surprised>>
vars == <<unitVars, linkOpen, hardware, enabled, flows, transfers, linkVars, windowVars,
          histories>>

Slots == 1 .. 2
Idle == [kind |-> "none", again |-> FALSE, cancelled |-> FALSE,
         sends |-> NoDocument, resets |-> FALSE, sure |-> FALSE]
Alive == {s \in Slots : transfers[s].kind # "none"}

Init ==
    /\ plugged = NoUnit /\ proved = {} /\ linkOpen = FALSE /\ hardware = NoUnit
    /\ hasDocument = FALSE /\ doc = NoDocument /\ enabled = TRUE /\ flows = <<>>
    /\ transfers = [s \in Slots |-> Idle] /\ queue = <<>> /\ inFlight = FALSE
    /\ getInProgress = FALSE /\ monitorAfterGet = FALSE
    /\ crossed = FALSE /\ unread = FALSE /\ surprised = FALSE

-----------------------------------------------------------------------------
(* Flows *)

\* ensureConnected(): nothing to do on an open link.
Connecting == <<<<"connect">>>>
\* identifyConnectedUnit(), with updateConnectionStatus() at its end.
Identify == <<<<"hardware">>, <<"report">>, <<"usbMode">>, <<"show">>>>

\* ensureDeviceAccess(fn) begins with readAccessState().
Access(fn) == <<<<"state", fn>>>>

GetSteps ==
    Connecting \o Access("get") \o <<<<"identity">>, <<"ask">>, <<"capacity">>, <<"start">>>>

\* onSendConfiguration(): the gate for a protected document, the store version
\* and the board, the fit check, the warning that nothing will guard protected
\* sections, the identity for the dialog (and the question behind it), the binding.
Gate == <<<<"gate">>>>
SendSteps ==
    Connecting \o Access("send") \o Gate
        \o <<<<"status">>, <<"board">>, <<"mapped">>, <<"fit">>, <<"marks">>, <<"uid">>>>
        \o <<<<"ask">>, <<"bind">>, <<"start">>>>

\* (Seeded bug: the reset relies on an earlier proof.)
ResetUnproved == Connecting \o <<<<"ask">>, <<"reset">>>>
ResetSteps == Connecting \o Access("send") \o <<<<"ask">>, <<"reset">>>>
Reconnect == <<<<"close">>, <<"reopen">>>>

\* offerProtectedCommsUnlock(), with runGetTransfer() behind it.
UnlockSteps ==
    <<<<"ask">>>> \o Access("get") \o Access("comms") \o <<<<"capacity">>, <<"start">>>>

Steps(command) ==
    CASE command = "connect" -> Connecting
      [] command = "get" -> GetSteps
      [] command = "monitor" -> Connecting \o <<<<"monitor">>>>
      [] command = "send" -> SendSteps
      [] command = "reset" -> ResetSteps

Flow(of, todo) == [of |-> of, todo |-> todo, state |-> "runs", unit |-> NoUnit,
                   key |-> "none", sends |-> NoDocument, sure |-> TRUE]

\* Steps that show a modal dialog, and steps that ask the unit.
Modal == {"connect", "ask", "prompt", "monitor", "close", "reopen", "told"}
Request == {"hardware", "report", "usbMode", "state", "again", "key", "prove", "identity", "uid",
            "capacity", "gate", "confirm", "status", "board", "fit", "marks", "bind", "reset"}

Top == flows[Len(flows)]
Step == Head(Top.todo)
Runs(kinds) == flows # <<>> /\ Top.state = "runs" /\ Step[1] \in kinds

\* An event loop runs: the main one, or that of the innermost flow's request or
\* dialog.  Any other step runs through, and nothing else happens meanwhile.
InLoop == flows # <<>> => Top.state = "waits" \/ (Top.state = "runs" /\ Step[1] \in Modal)

\* Flows the link runs as handlers: the next request starts when they return.
Handlers == {"sent", "got", "unlock"}

\* (Seeded bug: the link does not start the next request behind a handler.)
StallsBehindHandler(todo) ==
    /\ IF todo # <<>>
       THEN flows' = [flows EXCEPT ![Len(flows)].todo = todo, ![Len(flows)].state = "runs"]
       ELSE flows' = Front(flows)
    /\ UNCHANGED inFlight

\* The innermost flow goes on with todo, or returns.
GoesOn(todo) ==
    IF todo # <<>>
    THEN /\ flows' = [flows EXCEPT ![Len(flows)].todo = todo, ![Len(flows)].state = "runs"]
         /\ UNCHANGED inFlight
    ELSE /\ flows' = Front(flows)
         /\ inFlight' = (inFlight \/ (Top.of \in Handlers /\ queue # <<>>))
GoOn == GoesOn(Tail(Top.todo))

\* (Seeded bug: a Get whose unlock was refused keeps the monitor in mind.)
ForgetsUnstarted == Top.of = "monitor" /\ ~getInProgress

\* The end of a flow that got no further than this: onMonitorChannels() forgets
\* the monitor if no Get was started, and so does the finished handler if the
\* unlock was refused, but not if the capacity then was not read.
ForgetsMonitor ==
    \/ Top.of = "monitor" /\ ~getInProgress
    \/ Top.of = "unlock" /\ Step[1] # "capacity"

\* A step failed: without the Protected Comms password a Get goes on, anything
\* else ends here.
Abandon ==
    IF Top.of = "unlock" /\ Len(Step) = 2 /\ Step[2] = "comms"
    THEN GoOn /\ UNCHANGED <<monitorAfterGet, unread>>
    ELSE /\ GoesOn(<<>>)
         /\ monitorAfterGet' = (monitorAfterGet /\ ~ForgetsMonitor)
         /\ unread' = (unread \/ (Top.of = "unlock" /\ Step[1] = "capacity"))

\* (Seeded bug: the window takes commands while it waits for the unit.)
UserNeverBusy ==
    /\ InLoop
    /\ \A i \in DOMAIN flows : flows[i].state = "runs" => Head(flows[i].todo)[1] \notin Modal
    /\ \A s \in Alive : transfers[s].cancelled
    /\ Cardinality({i \in DOMAIN flows : flows[i].of \notin Handlers}) < MaxDepth

\* The user can reach the menu: the window is enabled, no dialog is open, and no
\* progress dialog (Cancel hides a transfer's).
UserFree ==
    /\ InLoop /\ enabled
    /\ \A i \in DOMAIN flows : flows[i].state = "runs" => Head(flows[i].todo)[1] \notin Modal
    /\ \A s \in Alive : transfers[s].cancelled
    /\ Cardinality({i \in DOMAIN flows : flows[i].of \notin Handlers}) < MaxDepth

\* Nothing is left of the commands before.
Quiet == flows = <<>> /\ Alive = {} /\ queue = <<>>

Command(command) ==
    /\ UserFree
    /\ command = "connect" => ~linkOpen
    /\ command = "send" => hasDocument
    /\ flows' = Append(flows, Flow(command, Steps(command)))
    /\ crossed' = (crossed /\ ~Quiet) /\ surprised' = (surprised /\ ~(crossed /\ Quiet))
    /\ UNCHANGED <<unitVars, linkOpen, hardware, enabled, transfers, linkVars, windowVars, unread>>

\* File > New and File > Open.
OpenDocument ==
    /\ UserFree
    /\ hasDocument' = TRUE /\ doc' \in Documents
    /\ UNCHANGED <<unitVars, linkOpen, hardware, enabled, flows, transfers, linkVars,
                   getInProgress, monitorAfterGet, histories>>

-----------------------------------------------------------------------------
(* Asking the unit *)

Applies ==
    CASE Step[1] = "connect" -> ~linkOpen
      [] Step[1] = "monitor" -> ~hasDocument
      [] Step[1] \in {"gate", "marks"} -> doc.marked
      [] Step[1] \in {"report", "usbMode"} -> Top.unit.usb
      [] Step[1] = "board" -> hardware = NoUnit
      [] OTHER -> TRUE

Pass ==
    /\ Runs({"connect", "monitor", "gate", "marks", "report", "usbMode", "board"}) /\ ~Applies
    /\ GoOn
    /\ UNCHANGED <<unitVars, linkOpen, hardware, enabled, transfers, queue, windowVars, histories>>

\* onSendConfiguration() maps the document.  A store of another format, or a
\* document that does not map, ends the Send.
MapDocument ==
    /\ Runs({"mapped"})
    /\ \/ /\ flows' = [flows EXCEPT ![Len(flows)].todo = Tail(@), ![Len(flows)].sends = doc]
          /\ UNCHANGED <<inFlight, monitorAfterGet, unread>>
       \/ Abandon
    /\ UNCHANGED <<unitVars, linkOpen, hardware, enabled, transfers, queue, docVars, getInProgress,
                   crossed, surprised>>

\* A request in a BusyScope, or "Not connected" at once.  identifyConnectedUnit()
\* forgets the unit it asks for.
Ask ==
    /\ Runs(Request) /\ Applies
    /\ flows' = [flows EXCEPT ![Len(flows)].state = IF linkOpen THEN "waits" ELSE "lost",
                              ![Len(flows)].key = IF Step[1] \in {"key", "gate", "confirm"}
                                                  THEN doc.key ELSE "none"]
    /\ IF linkOpen
       THEN queue' = Append(queue, Len(flows)) /\ inFlight' = TRUE
       ELSE UNCHANGED linkVars
    /\ hardware' = IF Step[1] = "hardware" THEN NoUnit ELSE hardware
    /\ enabled' = FALSE
    /\ UNCHANGED <<unitVars, linkOpen, transfers, windowVars, histories>>

Allowed(fn) == fn \notin plugged.guards \ proved

\* What the unit answers to a step of a flow, and what the flow makes of it: only
\* the user knows whether the password typed is right; a unit without a Protected
\* Comms password or a document without its key is refused before the proof
\* (protectedSendVerdict()).
Answers(step, key) ==
    CASE step[1] \in {"key", "confirm"} -> {IF plugged.key = key THEN "ok" ELSE "wrong"}
      [] step[1] = "gate" -> {IF "comms" \in plugged.guards /\ key # "none" THEN "ok" ELSE "unfit"}
      [] step[1] = "prove" -> {"ok", "wrong"}
      [] step[1] \in {"fit", "identity"} -> {"ok", "unfit"}
      [] step[1] \in {"bind", "reset"} -> {IF Allowed("send") THEN "ok" ELSE "refused"}
      [] OTHER -> {"ok"}

\* What the unit has proved to it once it acted on a step.
ProvedBy(step, answer) ==
    CASE step[1] = "reset" /\ answer = "ok" -> {}
      [] step[1] \in {"key", "confirm"} /\ answer = "ok" -> proved \union {"comms"}
      [] step[1] = "prove" /\ answer = "ok" -> proved \union {step[2]}
      [] OTHER -> proved

\* A flow's request is answered; an answer that is lost may have been given.
AnswerFlow ==
    /\ InLoop /\ inFlight /\ Head(queue) \in DOMAIN flows
    /\ LET i == Head(queue)
           step == Head(flows[i].todo)
           remembers == step[1] \in {"hardware", "state", "prove", "marks", "reset"}
       IN  /\ \E answer \in Answers(step, flows[i].key), heard \in BOOLEAN :
                /\ flows' = [flows EXCEPT ![i].state = IF heard THEN answer ELSE "lost",
                                          ![i].unit = IF remembers /\ heard THEN plugged
                                                      ELSE IF step[1] = "hardware" THEN NoUnit
                                                      ELSE @]
                /\ \/ proved' = ProvedBy(step, answer)
                   \/ ~heard /\ UNCHANGED proved
                /\ surprised' = (surprised \/ (heard /\ answer = "refused" /\ flows[i].sure))
    /\ queue' = Tail(queue) /\ inFlight' = (Tail(queue) # <<>>)
    /\ UNCHANGED <<plugged, linkOpen, hardware, enabled, transfers, windowVars, crossed, unread>>

\* proveLoop() and promptAndProve(): what a unit that guards fn asks for.
Proves(fn) ==
    IF fn \notin Top.unit.guards THEN <<>>
    ELSE IF fn = "comms" /\ doc.key # "none" THEN <<<<"key", fn>>>>
    ELSE <<<<"again", fn>>>>

\* (Seeded bug: any Protected Comms password of the unit is taken for the
\* document's.)
ThenUnconfirmed ==
    CASE Step[1] = "state" -> Proves(Step[2])
      [] Step[1] = "again" -> <<<<"prompt", Step[2]>>>>
      [] Step[1] = "reset" -> IF Top.unit.usb THEN Reconnect ELSE <<>>
      [] OTHER -> <<>>

\* The steps behind an answer.
Then ==
    CASE Step[1] = "state" -> Proves(Step[2])
      [] Step[1] = "again" -> <<<<"prompt", Step[2]>>>>
      [] Step[1] = "gate" -> <<<<"confirm">>>>
      [] Step[1] = "marks" /\ "comms" \notin Top.unit.guards -> <<<<"ask">>>>
      [] Step[1] = "reset" -> IF Top.unit.usb THEN Reconnect ELSE <<>>
      [] OTHER -> <<>>

\* Steps a flow goes on without.
Tolerated == {"hardware", "report", "usbMode", "identity", "uid", "status", "board",
              "marks", "bind"}

\* The wait is over: the BusyScope enables the window, and the flow goes on.  A
\* Protected Comms password typed for a document without one becomes its own.
Return ==
    /\ flows # <<>> /\ Top.state \notin {"runs", "waits"}
    /\ enabled' = TRUE
    /\ hardware' = IF Step[1] = "hardware" /\ Top.state = "ok" THEN Top.unit ELSE hardware
    /\ doc' = IF Step = <<"prove", "comms">> /\ Top.state = "ok" /\ doc.key = "none"
              THEN [doc EXCEPT !.key = Top.unit.key] ELSE doc
    /\ \/ /\ Top.state = "ok"
          /\ GoesOn(Then \o Tail(Top.todo))
          /\ UNCHANGED <<monitorAfterGet, unread>>
       \/ /\ Top.state = "wrong" /\ Step[1] \in {"key", "prove"}
          /\ LET retry == IF Step[1] = "key" THEN "again" ELSE "prompt"
             IN  GoesOn(<<<<retry, Step[2]>>>> \o Tail(Top.todo))
          /\ UNCHANGED <<monitorAfterGet, unread>>
       \/ /\ Top.state \in {"lost", "refused"} /\ Step[1] \in Tolerated
          /\ GoOn /\ UNCHANGED <<monitorAfterGet, unread>>
       \/ /\ \/ Top.state = "unfit" \/ (Top.state = "wrong" /\ Step[1] = "confirm")
             \/ Top.state \in {"lost", "refused"} /\ Step[1] \notin Tolerated
          /\ Abandon
    /\ UNCHANGED <<unitVars, linkOpen, transfers, queue, hasDocument, getInProgress, crossed,
                   surprised>>

\* The user answers a dialog.  A password typed is tried, right or wrong.
UserAnswers ==
    /\ Runs({"ask", "prompt", "told"})
    /\ \/ Step[1] # "prompt" /\ GoOn /\ UNCHANGED <<monitorAfterGet, unread>>
       \/ /\ Step[1] = "prompt"
          /\ GoesOn(<<<<"prove", Step[2]>>>> \o Tail(Top.todo))
          /\ UNCHANGED <<monitorAfterGet, unread>>
       \/ Step[1] # "told" /\ Abandon
    /\ UNCHANGED <<unitVars, linkOpen, hardware, enabled, transfers, queue, docVars, getInProgress,
                   crossed, surprised>>

\* The connection dialog, when the link is closed.
UserConnects ==
    /\ Runs({"connect"}) /\ Applies
    /\ \/ /\ plugged # NoUnit /\ linkOpen' = TRUE
          /\ GoesOn(Identify \o Tail(Top.todo)) /\ UNCHANGED <<monitorAfterGet, unread>>
       \/ linkOpen' = linkOpen /\ Abandon
    /\ UNCHANGED <<unitVars, hardware, enabled, transfers, queue, docVars, getInProgress, crossed,
                   surprised>>

\* onMonitorChannels() without a document offers a Get first.
UserMonitors ==
    /\ Runs({"monitor"}) /\ Applies
    /\ \/ monitorAfterGet' = TRUE /\ GoesOn(GetSteps)
       \/ GoOn /\ UNCHANGED monitorAfterGet
    /\ UNCHANGED <<unitVars, linkOpen, hardware, enabled, transfers, queue, docVars, getInProgress,
                   histories>>

\* updateConnectionStatus(); a command goes on only if it is connected.
Show ==
    /\ Runs({"show"})
    /\ hardware' = IF linkOpen THEN hardware ELSE NoUnit
    /\ IF linkOpen THEN GoOn /\ UNCHANGED <<monitorAfterGet, unread>> ELSE Abandon
    /\ UNCHANGED <<unitVars, linkOpen, enabled, transfers, queue, docVars, getInProgress, crossed,
                   surprised>>

-----------------------------------------------------------------------------
(* Transfers *)

\* DeviceLink::close(): cancelAll() fails every request and with it every
\* transfer; disconnected() forgets the unit.
CloseLink(theFlows) ==
    /\ linkOpen' = FALSE /\ hardware' = NoUnit
    /\ queue' = <<>> /\ inFlight' = FALSE
    /\ flows' = [i \in DOMAIN theFlows |->
                    IF theFlows[i].state = "waits" THEN [theFlows[i] EXCEPT !.state = "lost"]
                    ELSE theFlows[i]]
    /\ transfers' = [s \in Slots |-> Idle]
    /\ IF \E s \in Alive : transfers[s].kind = "get"
       THEN getInProgress' = FALSE /\ monitorAfterGet' = FALSE
       ELSE UNCHANGED <<getInProgress, monitorAfterGet>>

\* ConfigTransfer::send() and get(); runNext() asks before anything else happens.
Starts(kind, resets) ==
    [kind |-> kind, again |-> kind = "get" /\ Top.of # "unlock",
     cancelled |-> FALSE, sends |-> Top.sends, resets |-> resets, sure |-> Top.sure]

Start ==
    /\ Runs({"start"})
    /\ LET kind == IF Top.of = "send" THEN "send" ELSE "get"
       IN  IF linkOpen
           THEN \E s \in Slots \ Alive, resets \in BOOLEAN :
                   /\ resets => kind = "send"
                   /\ \A t \in Slots \ Alive : s <= t
                   /\ transfers' = [transfers EXCEPT ![s] = Starts(kind, resets)]
                   /\ queue' = Append(queue, -s) /\ inFlight' = TRUE
                   /\ getInProgress' = (getInProgress \/ kind = "get")
                   /\ UNCHANGED monitorAfterGet
           ELSE /\ getInProgress' = (getInProgress /\ kind # "get")
                /\ monitorAfterGet' = (monitorAfterGet /\ kind # "get")
                /\ UNCHANGED <<transfers, linkVars>>
    /\ flows' = Front(flows)
    /\ UNCHANGED <<unitVars, linkOpen, hardware, enabled, docVars, histories>>

\* A request of transfer s is answered and the next one is made, in its handler.
TransferGoesOn(s) ==
    /\ queue' = Append(Tail(queue), -s) /\ inFlight' = TRUE
    /\ UNCHANGED <<proved, flows, transfers, windowVars, crossed, unread>>

\* The finished handler of a Send.  One that resets a CAN Triple 2.0 reconnects; the
\* reset may be done although its answer was not heard.
SendEnds(s, ok) ==
    /\ transfers' = [transfers EXCEPT ![s] = Idle]
    /\ queue' = Tail(queue)
    /\ IF ok /\ transfers[s].resets
       THEN /\ proved' = {}
            /\ IF plugged.usb
               THEN flows' = Append(flows, Flow("sent", Reconnect)) /\ inFlight' = FALSE
               ELSE UNCHANGED flows /\ inFlight' = (Tail(queue) # <<>>)
       ELSE /\ proved' \in IF transfers[s].resets THEN {proved, {}} ELSE {proved}
            /\ UNCHANGED flows /\ inFlight' = (Tail(queue) # <<>>)
    /\ UNCHANGED <<windowVars, crossed, unread>>

\* tablesReady and the finished handler of a Get that succeeded.  A unit that
\* holds nothing leaves the document as it is.
GetSucceeds(s) ==
    /\ transfers' = [transfers EXCEPT ![s] = Idle]
    /\ queue' = Tail(queue) /\ inFlight' = FALSE
    /\ \/ UNCHANGED docVars
       \/ hasDocument' = TRUE /\ doc' \in Documents
    /\ flows' = Append(flows, Flow("got", <<<<"told">>, <<"finished">>>>))
    /\ UNCHANGED <<proved, getInProgress, monitorAfterGet, crossed, unread>>

GetFinished ==
    /\ Runs({"finished"})
    /\ getInProgress' = FALSE /\ monitorAfterGet' = FALSE
    /\ GoesOn(IF monitorAfterGet /\ hasDocument THEN Connecting \o <<<<"monitor">>>> ELSE <<>>)
    /\ UNCHANGED <<unitVars, linkOpen, hardware, enabled, transfers, queue, docVars, histories>>

\* The finished handler of a Get that failed: one refused for want of a password
\* may be tried once more.
GetFails(s, refused) ==
    /\ transfers' = [transfers EXCEPT ![s] = Idle]
    /\ queue' = Tail(queue) /\ getInProgress' = FALSE
    /\ IF refused /\ transfers[s].again
       THEN /\ flows' = Append(flows, Flow("unlock", UnlockSteps)) /\ inFlight' = FALSE
            /\ crossed' = (crossed \/ \E i \in DOMAIN flows : flows[i].of \notin Handlers)
            /\ UNCHANGED monitorAfterGet
       ELSE /\ inFlight' = (Tail(queue) # <<>>) /\ monitorAfterGet' = FALSE
            /\ UNCHANGED <<flows, crossed>>
    /\ UNCHANGED <<proved, docVars, unread>>

\* A transfer's request is answered.  A cancelled transfer stops here, with its
\* last request behind it too.
AnswerTransfer ==
    /\ InLoop /\ inFlight /\ Head(queue) < 0
    /\ LET s == -Head(queue)
           kind == transfers[s].kind
           withheld == kind = "get" /\ plugged.withholds /\ ~Allowed("comms")
       IN  \E heard, last \in BOOLEAN, refused \in {~Allowed(kind), withheld \/ ~Allowed(kind)} :
              /\ surprised' = (surprised \/ (heard /\ ~Allowed(kind) /\ transfers[s].sure))
              /\ IF ~heard \/ refused \/ transfers[s].cancelled
                 THEN IF kind = "get" THEN GetFails(s, heard /\ refused) ELSE SendEnds(s, FALSE)
                 ELSE IF ~last THEN TransferGoesOn(s)
                 ELSE IF kind = "get" THEN GetSucceeds(s) ELSE SendEnds(s, TRUE)
    /\ UNCHANGED <<plugged, linkOpen, hardware, enabled>>

\* Cancel of the progress dialog, which hides it; the transfer stops later.
Cancel(s) ==
    /\ InLoop /\ s \in Alive /\ ~transfers[s].cancelled
    /\ \A i \in DOMAIN flows : flows[i].state = "runs" => Head(flows[i].todo)[1] \notin Modal
    /\ transfers' = [transfers EXCEPT ![s].cancelled = TRUE]
    /\ UNCHANGED <<unitVars, linkOpen, hardware, enabled, flows, linkVars, windowVars, histories>>

-----------------------------------------------------------------------------
(* Connecting, unplugging, restarting *)

Disconnect ==
    /\ UserFree /\ linkOpen
    /\ CloseLink(flows)
    /\ UNCHANGED <<unitVars, enabled, docVars, histories>>

\* reopenAfterRestart() of reconnectAfterRestart() waits in an event loop for the
\* port to go before it closes the link, and then for the unit to come back.
Close ==
    /\ Runs({"close"})
    /\ LET on == [flows EXCEPT ![Len(flows)].todo = Tail(@)]
       IN  IF linkOpen THEN CloseLink(on)
           ELSE flows' = on /\ UNCHANGED <<linkOpen, hardware, linkVars, transfers, getInProgress,
                                           monitorAfterGet>>
    /\ UNCHANGED <<unitVars, enabled, docVars, histories>>

Reopen ==
    /\ Runs({"reopen"})
    /\ \/ plugged # NoUnit /\ linkOpen' = TRUE /\ GoesOn(Identify)
       \/ linkOpen' = linkOpen /\ GoOn
    /\ UNCHANGED <<unitVars, hardware, enabled, transfers, queue, windowVars, histories>>

\* Nothing is sure any more of what was proved.
Unsure(theFlows) == [i \in DOMAIN theFlows |-> [theFlows[i] EXCEPT !.sure = FALSE]]

Plug ==
    /\ InLoop /\ plugged = NoUnit /\ plugged' \in Units /\ proved' = {}
    /\ UNCHANGED <<linkOpen, hardware, enabled, flows, transfers, linkVars, windowVars, histories>>

Unplug ==
    /\ InLoop /\ plugged # NoUnit /\ plugged' = NoUnit /\ proved' = {}
    /\ IF linkOpen THEN CloseLink(Unsure(flows))
       ELSE flows' = Unsure(flows) /\ UNCHANGED <<linkOpen, hardware, linkVars, transfers,
                                                  getInProgress, monitorAfterGet>>
    /\ UNCHANGED <<enabled, docVars, histories>>

\* A unit behind a debug adapter restarts by itself; the port stays.
Restart ==
    /\ InLoop /\ plugged # NoUnit /\ ~plugged.usb
    /\ proved' = {} /\ flows' = Unsure(flows)
    /\ transfers' = [s \in Slots |-> [transfers[s] EXCEPT !.sure = FALSE]]
    /\ UNCHANGED <<plugged, linkOpen, hardware, enabled, linkVars, windowVars, histories>>

-----------------------------------------------------------------------------

UserCommands == {"connect", "get", "monitor", "send", "reset"}
Link == AnswerFlow \/ AnswerTransfer
Window == Pass \/ MapDocument \/ Ask \/ Return \/ Show \/ Start \/ GetFinished \/ Close \/ Reopen
Dialogs == UserAnswers \/ UserConnects \/ UserMonitors

Next ==
    \/ Link \/ Window \/ Dialogs
    \/ \E command \in UserCommands : Command(command)
    \/ OpenDocument \/ Disconnect
    \/ \E s \in Slots : Cancel(s)
    \/ Plug \/ Unplug \/ Restart

\* The link answers (EveryRequestAnswered of DeviceLink), the event loop is
\* served, and the user does not leave a dialog open for ever.
Spec == Init /\ [][Next]_vars /\ WF_vars(Link) /\ WF_vars(Window) /\ WF_vars(Dialogs)

-----------------------------------------------------------------------------
(* Properties *)

\* Two transfers are under way at once only behind a Get whose unlock ran inside
\* another command, until that has ended: a BusyScope or a progress dialog keeps
\* the user from starting one, and what a cancelled transfer has on the line is
\* answered before the next one starts.
TransfersFollowOneAnother == Cardinality(Alive) <= 1 \/ crossed

\* A protected document goes only to a unit that holds its Protected Comms
\* password, whatever becomes of the link, the unit and the window between the
\* gate and the Send.  Not so while a Get's unlock runs inside a command: inside a
\* Send, behind the gate, the Get it starts may read another document, and the
\* user may open one (ProtectedIsAlwaysConfirmed).
ProtectedGoesWhereConfirmed ==
    \A s \in Alive :
        transfers[s].kind = "send" /\ transfers[s].sends.marked
            => plugged.key = transfers[s].sends.key \/ crossed

\* "The key has to be IN the document", and be the unit's: a document that was
\* never sealed with the unit's secret is not sent to it.
ProtectedIsAlwaysConfirmed ==
    \A s \in Alive :
        transfers[s].kind = "send" /\ transfers[s].sends.marked
            => plugged.key = transfers[s].sends.key

\* A unit refuses a command, or a transfer, only if it restarted or another took
\* its place behind the command's proof, or a Get's unlock ran inside the command.
NothingProvedIsRefused == surprised => crossed

\* No Get, no command, no request for the monitor: it would open at the end of a
\* Get the user asks for later.  It is left behind where a second attempt cannot
\* read the capacity.
MonitorIsNotLeftBehind ==
    flows = <<>> /\ ~getInProgress /\ monitorAfterGet => unread

\* A disabled window comes back.
WindowComesBack == []<>enabled
=============================================================================
