# CAN Triple Device Manager: verification models

The Device Manager is a Qt application (`gui/src`) that edits a configuration
for a CAN Triple unit and sends it over a serial line. What is hard in it is
not the editing but the conversation with the unit: a line that loses, delays
and garbles frames, a unit that may lose power, several commands in flight from
a user's point of view and one from the line's, and a flash that must never be
left holding half a configuration. These modules model that conversation.

The unit's firmware is not in the repository as source (`firmware/` holds
headers and binaries). It is modelled as an environment, from what the code
under `gui/src` and the tests under `gui/test` rely on.

## The system

| Part | State | Operations | Talks to |
|---|---|---|---|
| `protocol/device_link` | the port, the request in flight, the queue, the retry timer | `request`, `requestSync`, `open`, `close`, `cancelAll`; on a timeout; on a reply | everything that needs the unit, by a handler called once per request |
| `protocol/framer`, `cobs`, `crc16` | a byte buffer | `feed` | the link |
| `protocol/config_transfer`, Send | the steps, the index, what was skipped, the cancel flag | `send`, `runNext`, `cancel` | the link; the main window by signals |
| `protocol/config_transfer`, Get | the same, and the tables read so far | `get`, `runNext`, `cancel` | the link; the main window and the firmware dialog |
| `protocol/stored_project` | a header and a body among the tables | build, parse | Send and Get |
| `protocol/device_session` | none: each call is a few requests in a nested event loop | prove a password, write passwords and licence, overrides, capacity, reopen after a restart | the link, all dialogs |
| `protocol/firmware_update` and its dialog | upload position, cancel flag, backup path | back up, upload, restart, confirm, restore | the link, Get, Send |
| `protocol/sealed_install` | the index of the sealed frame | `run`, `runNext`, `cancel` | the link |
| `ui/monitor_channels_dialog` | which rows are overridden, the lease timer | override, release, lease tick, close | the session |
| `ui/main_window` | connection, identity, document, dialogs | connect, Send, Get, install, reset, reconnect | everything |
| `model/*`, `scripting/*`, other `ui/*` | the document, its files, its script | editing, mapping, validation, compiling | the main window |

Everything runs on one thread; the concurrency is that of callbacks. A handler
may run inside another one's nested event loop, may issue requests of its own
from inside `completeCurrent()` or `cancelAll()`, and may find that its owner is
gone. The unit, the line and the user are the other actors.

What makes each part correct:

- **link**: every request gets exactly one answer, in order; an answer is never
  that of another frame; a unit acts on nothing twice beyond the retry budget
  and on nothing older than what it has already acted on.
- **Send**: the flash holds the old configuration, the new one or (1.x) nothing;
  what is said to be saved is there or named; a verified commit is what was sent.
- **Get**: records are in their places; what is missing is named; a project is
  whole or absent; a backup knows whether it can be trusted.
- **passwords**: a right password is not called wrong, least of all one the unit
  has just accepted.
- **a Get's result**: what the user is told of the unit (empty, unchanged since
  it was sent, changed) is so, but for what the Get could not read.
- **firmware update**: the unit runs only images that were sent whole, and the
  configuration is on the unit or in a file, unless the user did without.
- **package install**: a configuration is committed only with its passwords, and
  an install that says it succeeded did.
- **overrides**: no signal is driven behind an empty box, no box claims a pin
  that was never taken, and what is overridden ends with the dialog.
- **the main window**: one transfer at a time, started with the passwords it
  needs; a protected document goes only to a unit that was confirmed to hold its
  password; the window is given back.

`PROJECT.json` lists the components with what is modelled of each, and the
hazards of the code at the lines where they bite.

## The modules

```
LinkRequests   requests, frames, which reply answers which request
   |-- LinkContract       what the link promises (abstract)
   |-- DeviceLink         the queue, the line and the unit; implements LinkContract
          |-- MCDeviceLink       a small instance
          |-- DeviceLinkProofs   the theorems
TransferSteps  how a step ends, which failures it tolerates
   |-- SendPlan -- SendTransfer -- MCSendTransfer
   |               |-- SendTransferProofs
   |-- GetPlan  -- GetTransfer -- GetResult -- MCGetTransfer
                                  |-- GetTransferProofs
ProofExchange  challenge and answer (checked as it stands)
   |-- ProofExchangeProofs
UpdatePromise  what an update of the firmware promises (abstract)
   |-- FirmwareUpdate     backup, upload, trial, restore; implements UpdatePromise
          |-- FirmwareUpdateProofs
PackageInstall the relay of a sealed package, and the older way
   |-- MCPackageInstall, PackageInstallProofs
Overrides      the Monitor Channels dialog and the pins it leases
   |-- MCOverrides, OverridesProofs
Session        the main window's commands, nested in one another
   |-- MCSession, SessionProofs
```

The composition is by contract. `DeviceLink` is shown to implement
`LinkContract`; `SendTransfer` and `GetTransfer` use only what the contract
promises (an answered request has been acted on, or, of a unit that echoes no
CRC, an earlier one has; a failed one may have been, or may still be until a later
one is; copies act in order). `ProofExchange`
needs the line itself, because its subject is which of several nonces on it is
taken for the answer, and carries its own two queues. `FirmwareUpdate`,
`PackageInstall`, `Overrides` and `Session` take the contract as well: one request
in flight, its copies heard any number of times until a later one is, one
verdict. `FirmwareUpdate` uses what `GetTransfer` shows of a backup, and `Session`
what `SendTransfer` and `GetTransfer` show of a transfer: it asks, any number of
times, and ends.

Definitions marked "seeded bug" are no part of a specification. Each is the
wrong version of the definition that follows it, and shows that some property
fails when the code is wrong in that way.

### LinkRequests, LinkContract, DeviceLink

Source: `protocol/device_link.cpp`, `.h`. `current` and `queue` are `m_current`
and `m_queue`; the timer runs exactly while there is a current request and is
not a variable. `IssueRequest` is `request()`, `Timeout` is `onTimeout()`,
`ReceiveAnswer`, `ReceiveBadLine` and `ReceiveStale` are the branches of
`handlePacket()`, `Close` is `close()` with `cancelAll()`, `Open` is `open()`.
`CompleteCurrent` includes the request a handler may issue and the `startNext()`
behind it; `CloseReentered` is a cancellation during which a handler issues one.
The line is a queue of frames each way. Each frame carries the retries left when
it was sent: a history that tells the copies apart and that nothing reads.
`result`, `tries` and `verdicts` are the variables of the contract.

A frame stands for its CRC; collisions are not modelled. Unsolicited monitor and
log packets complete nothing and are left out, as is the oversize backstop of
`transmitCurrent()`, which static asserts keep unreachable.

### TransferSteps, SendPlan, SendTransfer

Source: `protocol/config_transfer.cpp`, `.h`, and the finished handler of
`MainWindow::onSendConfiguration()`. `BuildSendSteps` is the plan in its order;
a table's chunks are numbered parts, and each has the flags the code gives it
(optional, skipIfUnsupported, quietIfUnsupported). `RunFrom(i)` is `runNext()`
at step i; `Answer` is the handler, with `Succeed`, `Skip`, `AbandonVerify` and
`Fail` its branches. The unit keeps, of each part, whether it is old, absent,
right or wrong, in what it runs or stages (`work`) and in `flash`; a 2.0
stages a Send and swaps at the save, a 1.x erases at the clear. A copy of a
request may arrive at any time until a later request is acted on.

A 2.0 is its own USB device: when it restarts, its port goes (`PowerCut`). A 1.x
sits behind an ST-LINK whose port stays (`main_window.cpp:3408`), so it may lose
what was not saved while the Send goes on (`Restart`). A unit that echoes no CRC may
answer an earlier request late, and the link takes an ACK, or a refusal, for that
of the step in flight (`AnswersForAnother`; a read's reply repeats its range and
cannot be mistaken). `Mishaps` bounds the two together; `restarted` and `borrowed` are
histories of where they happened. What they leave that no later step of a Send
could notice is `Unknowable`, and the properties except just that.

`send()` takes what the caller knows of the unit's passwords; no caller in the
repository passes it, so the instance does not either, and the refusal of a
read-back is met when it comes. A step classified wrongly (`m_buildFault`) ends
a transfer before anything is sent; the shipped plans have none.

### GetPlan, GetTransfer

`BuildGetSteps`, `TableReadSteps` and `ProjectReads` are the three places where
steps are planned; `ReceiveUsage` and `ReceiveProject` insert them while the Get
runs, and `DropProject` takes the project's remaining reads out again. `got`
keeps of every table the chunks received in their order, so that a record out
of its place can be seen. What a unit answers to a kind of read is fixed for
the unit; the line may lose any read or garble it until the budget is spent.

### ProofExchange

`proveAccess()` and `proveLicenseSecret()` of `protocol/device_session.cpp`:
the same exchange with `Attempts = 2, AnswerRetries = 0` and `Attempts = 1` with
the link's ordinary retries. The unit keeps one nonce, spends it at the first
answer, and forgets it when it restarts (`test_firmware_link.cpp` has these as
tests of the firmware). `accepted` and `disturbed` are histories for the
properties; `call` in a frame is one too.

### GetResult

The handler of `tablesReady()` in `main_window.cpp`, with `openStoredProject()` of
`protocol/stored_project.h` and the configuration fingerprint of
`config_transfer.cpp`. The fingerprint is the function from the tables and names
it covers to what was read of them: the hash is taken to have no collisions.
`ToldIsSo` compares what the user is told with the unit; what a Get named as
missing, or lost of a table the fingerprint covers, is excepted where the code
cannot know better, and the exceptions are listed below under Disagreements.

### UpdatePromise, FirmwareUpdate

Source: `ui/firmware_update_dialog.cpp`, `protocol/firmware_update.cpp`;
`docs/firmware-update.md` for the unit. `frame` is the `onUpdate()` that runs with
its locals, `outer` the one it was pressed under: `setBusy(false)` comes before
the last three waits, so a second update can run inside the first. The upload's
requests are numbers (`Begin`, the frames, `End`, `Reset`, `Confirm`); `line` is the
one whose copies may still reach the unit, and `replies` its answers. The
unit stages frames, arms an image at END, starts it on trial, goes back when it
was not confirmed in time, and loses its configuration to an image that cannot
read it. `UpdatePromise` has four variables: the firmware the unit starts,
whether a whole image waits, where the configuration is, and whether the user
did without. `NothingOwed` states what the dialog does not promise: a
configuration `deviceEmpty` overlooks.

### PackageInstall

Source: `protocol/sealed_install.cpp`, `model/package_builder.cpp` (the order of
the frames), and `onSendSecureConfiguration()` for packages of format 2.
`SealedFrames` is that order: probe, passwords, clear, write, save; `OpenedSteps` that
of the older way. A sealed session takes each index once, in order; a repeated
frame ends it. Passwords are in RAM (`keys`) until the save puts them into flash
(`flashKeys`) with the configuration; a CAN Triple 1.x erases their flash at the
clear. `disturbed` is a history: the
unit restarted behind an adapter, without the port closing.

### Overrides

Source: `ui/monitor_channels_dialog.cpp` and the override calls of
`device_session.cpp`. Each call to the unit waits in a nested event loop, so the
calls are a stack: the link answers them oldest first, but only the innermost
loop can return. The lease timer, the user, the document and closing the dialog
go on in between; `ReturnToDeleted` is a call that comes back to a dialog that
was deleted inside it. A dialog ends in three ways: by `closeEvent()` with its CLEAR
(`Close`), by Esc, which deletes it without one (`Reject`), and with the Manager,
which may be started again within the lease (`ManagerCrashes`, `ManagerStarts`). The
dialog is not modal, so its calls queue behind what others ask of the unit
(`PassCrowded`). Time passes in steps of half a second. `doubt` is a history per
signal: why its box and its pin may differ (a call unanswered, a pin the unit
dropped, two calls that crossed, a pin left by a dialog that ended without a
CLEAR); `crowded` is one of how long others held the dialog's calls up.

### Session

Source: the slots of `ui/main_window.cpp` for Connect, Disconnect, Send, Get,
Monitor Channels and Reset Device, `promptAndProve()`, `ensureDeviceAccess()`,
`protectedSendVerdict()` and `reopenAfterRestart()`. A command is a flow of steps;
the stack of flows is that of the nested loops, and the innermost alone goes on.
A step that asks the unit has the window disabled (BusyScope), one that asks the
user is modal. A transfer is a slot of its own whose end runs a flow inside
whatever loop is running. A Send asks the unit about its guards twice: at the gate,
and again ("marks") for the warning that the unit protects nothing a marked
document relies on. `crossed` and `unread` are histories of the two cases described
under Disagreements; `crossed` is forgotten once no command, transfer or queued
request of the two that crossed is left (`Quiet`), so that it excepts them and
nothing after them. Boxes that only report are left out, the question of a project
that could not be prepared is one with the Send dialog's, and the waits of the
Monitor dialog, which disable nothing, are in `Overrides` only.

## The runs

| Run | Instance | Shows |
|---|---|---|
| `device_link` | 4 requests (two writes, two range reads of one command), one with a retry, a unit that echoes CRCs and one that does not | `ImplementsContract` (refinement), `NoLateDuplicate`, `ActsWithinBudget`, `EveryRequestAnswered` |
| `device_link_close` | the same | violated: a request survives `close()` |
| `send` | a Send with a project to a 2.0, one with a reset to a 1.x that echoes no CRC, a package with a script and a bus to a 2.0; one restart behind an ST-LINK or one answer taken for another | `CommitIsWhole`, `VerifiedCommitIsExact`, `SuccessIsHonest`, `HeaderSealsTheProject`, `AlwaysReports` |
| `get` | twelve units: planning or not, with a project whole, damaged or torn, with required or optional tables refused, changed since the project was sent, 1.x and 2.0 | `RecordsInPlace`, `NothingIsMissingUnsaid`, `ProjectIsWholeOrNone`, `BackupKnowsItsGaps`, `ToldIsSo`, `AlwaysReports` |
| `get_backup` | the same | violated: a garbled read is missing from an accepted backup |
| `access_proof` | two calls, three transmissions of a challenge, one restart, units with and without echoes | `WrongIsNeverAccepted`, `RightIsRarelyCalledWrong` |
| `licence_proof` | one exchange, answers sent twice | violated: `ERR_LOCKED` with the right secret |
| `overrides` | two signals in two layouts, three transmissions, a tick each second, a lease of three seconds, one call of the user's nested in another's wait | `BoxesAgree`, `NoHiddenPin`, `NoEmptyBox`, `RefreshIsInTime`, `EverythingIsLetGo` |
| `firmware_update` | an image of two frames, two presses of Update Firmware, three power cuts, three starts on trial | `KeepsPromise` (refinement), `BrokenUploadNeverInstalls`, `InstalledIsHonest`, `RestoreFillsAnEmptyUnit`, `EveryUpdateEnds` |
| `package_install` | two sealed and two opened packages setting both passwords or one, two installs, two restarts, units of both kinds, old and new | `SuccessIsHonest`, `OthersAreKept`, `OldUnitIsUntouched`, `CommitsTogether`, `EveryInstallEnds` |
| `session` | two units, two documents, two commands nested, two transfers | `TransfersFollowOneAnother`, `ProtectedGoesWhereConfirmed`, `NothingProvedIsRefused`, `MonitorIsNotLeftBehind`, `WindowComesBack` |
| `session_gate` | the same | violated: a protected document goes to a unit with another password |

The violated runs are disagreements between the code and what its own comments
say; `PROJECT.json` quotes them under `findings`.

**Bounds.** Four requests are what the link's hazards need: one to be
retransmitted, one whose late reply is about, one to be answered wrongly by it
and one more for a handler to issue. One retry suffices to have two copies; a
request given up too early leaves stale replies without one. In Sends every
kind of step occurs, with two chunks where the order of chunks matters; in Gets
the tables that matter have two or three chunks so that a first, a middle and a
last one can be lost. One mishap in a Send (`Mishaps`) is enough to lose a part, or the save, to;
the theorems have no bound on them. A proof exchange needs a second call to meet what the
first left on the line, and a third transmission to leave two stale nonces.
The line's queues are not bounded as such: what is on it is bounded by the
requests and their retries.

An override needs two signals, so that one can take the other's row, and one
nested call: the second of two is the one that finds a changed dialog. The lease
is kept at three ticks, and a request fails after a tick and a half; `Slack`, the time
others may take before a refresh without the pins' lapsing, is what then remains
of the lease. Two presses
of Update Firmware are one nested in the other; three cuts reach before, during
and after the trial, whose three starts are the bootloader's. Two installs let
the second meet what the first left in RAM. Two commands nested, each with a
transfer, is the smallest case in which two transfers could race; a third slot
was checked to stay unused. The largest run, `send`, has 1.2 million states, `session`,
`firmware_update` and `overrides` have 700 000 to 800 000, and the longest behaviour
`session` explores before it repeats a state is 285 steps.

**Fairness.** In `DeviceLink` only `Timeout` is fair: the Qt timer of the request
in flight runs and its event loop is served. Nothing is assumed of the line,
the unit or the user. `SendTransfer` and `GetTransfer` assume that the first
`runNext()`, queued on the event loop, runs, and that the link answers the
request in flight, which is `EveryRequestAnswered` of `DeviceLink`. A Send or Get
whose owner is destroyed reports to nobody, and `AlwaysReports` counts that as
an end. `ProofExchange` has safety properties only.

`Overrides` assumes that time passes, that a due timer fires and that a loop told
to quit ends. `FirmwareUpdate` assumes the steps of the dialog once their answer,
or the failure of the line, is there (`Dialog`), and a restore that has begun to
go on (`Restore`); power may fail as often as `MaxCuts` says. `PackageInstall`
assumes that the link answers. `Session` assumes that the link answers (`Link`),
that the event loop is served (`Window`) and that the user, asked by a modal
dialog, answers in the end (`Dialogs`); it does not assume that he ever gives a
command. Runs without a deadlock check are those in which the user may simply
stop: `access_proof`, `licence_proof`, `overrides`, `firmware_update`,
`package_install`, `session`, `session_gate`.

## Disagreements

Four disagreements between the code and what it says have a run that shows them:
`device_link_close`, `get_backup`, `licence_proof` and `session_gate`. The others met
while modelling are of two kinds. These are exceptions in the properties, each by a
history or a guard that can be dropped to see it:

- A Get that is cancelled while its request is in flight, and then refused for a
  password, asks for it inside whatever command runs by then
  (`main_window.cpp:3287`), and the window is enabled under that command. `crossed`
  excepts this, until nothing of the two commands is left, from three properties,
  and each may then really fail: two transfers run at once, which the comment at
  `main_window.cpp:2741-2744` excludes (`TransfersFollowOneAnother`); a
  protected document opened or read behind the gate goes unconfirmed to a unit
  with another password (`ProtectedGoesWhereConfirmed`; `session_gate`); and a
  command may be refused what was proved for it (`NothingProvedIsRefused`).
- A 1.x that restarts behind its ST-LINK while it is sent a configuration has lost
  what was not saved. The Manager notices if a step still ahead reads a lost part
  back or writes it again; behind the last such step nothing does, the save commits
  what is left, and the Send reports success (`Unknowable` in `CommitIsWhole` and
  `SuccessIsHonest`).
- A unit that echoes no CRC can answer a write of a Send, or its save, with the late
  ACK of an earlier request: a part that is not read back is then missing, or
  nothing is saved, unsaid (`borrowed` in `SuccessIsHonest` and in `Unknowable`).
- `runGetTransfer(false)` returns early when the capacity cannot be read and leaves
  `m_monitorAfterGet` set; a later Get opens the monitor unasked (`unread` in
  `MonitorIsNotLeftBehind`).
- `ensureDeviceAccess()` keeps a typed Protected Comms password in the open document
  (`main_window.cpp:1096-1099`), though `2363-2368` says that the key gets there
  only by the document's being secured.
- A lost chunk of an optional table makes the answer to its next chunk abort the
  Get (`config_transfer.cpp:1524`, against the comment at `1305-1310`).
- Of a unit that was read: a project can be opened unasked though the unit runs a
  table more, when that table was empty in the Send and its reads were lost; a
  configuration is called changed when a covered optional read was lost; a unit
  that holds only tables whose reads were lost is called empty; the UDS requests
  (table 15) are not covered by the fingerprint that "agrees exactly when nothing
  has changed" (`config_transfer.h:108`); and a 1.x, which stores no project, is
  always told to hold one that "could not be read" (`main_window.cpp:3209-3212`).
- `deviceEmpty` overlooks UDS requests, CRC8 rules and notes: a configuration of
  those alone is not backed up (`NothingOwed`).
- END's answer lost is told as "not installed" though the image is armed, and a
  lost answer to the reset as "did not accept the restart"; a lost identity read
  is told as "configuration is intact" (`firmware_update_dialog.cpp:1173`).
- `setBusy(false)` (`firmware_update_dialog.cpp:1113`) comes before the waits the
  comment at `193-202` means to protect; on a 1.x the second update may back up
  half a configuration.
- In an opened package, a password that fails after another was taken ends the
  install with "nothing has been sent" (against `main_window.cpp:1946-1948`); the
  password in RAM is committed by the next Send.
- A restart behind an adapter in the middle of an opened install commits the
  configuration without its passwords and says "Installed" (`disturbed`).
- A release, clear or SET that fails leaves a pin the dialog does not show, alive
  as long as another row renews the lease (`"unsure"` in `NoHiddenPin`). A failing
  call inside another's wait can hold the refresh up for longer than the lease
  lasts, and so can what others ask first: the clear and the save of a Send may
  wait four seconds for their answer (`Pending` and `crowded` in `RefreshIsInTime`).
- Closing the Monitor dialog while a SET is in flight sends no CLEAR, and the call
  comes back to a deleted dialog (WA_DeleteOnClose).
- Pins left by a dialog that ended without a CLEAR, by Esc or with the Manager, are
  renewed by the probe of one opened within the lease, which is a LEASE itself
  (`monitor_channels_dialog.cpp:602`), and are behind empty boxes then (`"left"` in
  `NoHiddenPin`): for one lease more, or as long as that dialog overrides anything.

And these no property is about:

- A Send whose read-back the unit refuses is called "verified"
  (`main_window.cpp:2922` and `1999-2004` ask only whether the save was skipped),
  though `config_transfer.h:138-140` says that a caller must consult
  `verifyWasSkipped()` before it says so. The list of skipped stages under the
  sentence names the verification; a package's message has no such list.
- A Send cancelled while its save, or the reset behind it, is in flight is reported
  as cancelled though it is committed (`config_transfer.cpp:1271`), against
  `docs/online.md:46`, where a cancelled Send leaves the device cleared.
- Esc ends the Monitor dialog past `closeEvent()`, and so without a CLEAR, though
  `monitor_channels_dialog.h:7-9` says that closing it releases everything; the
  firmware dialog guards this path (`firmware_update_dialog.cpp:193-203`).

## The proofs

`DeviceLinkProofs` proves for every number of requests, every assignment of
frames and retry budgets and every set of units:

- `TypeCorrect`, `BudgetIsKept`, `NoReordering`: `TypeOK`, `ActsWithinBudget` and
  `NoLateDuplicate` hold of `Spec`;
- `LinkRefinesContract`: `Spec => Contract!Spec`;
- all from `LinkInvariant`: `Spec => []LinkInv`.

The assumptions are those of `LinkRequests` on its constants (`LinkConstants`),
which TLC evaluates on the instance.

None of the properties is inductive. `ActsWithinBudget` needs to know that each
copy on the line has fewer retries left than the one before it and that
`tries + left` of the copies never exceeds the budget (`BudgetInv`);
`NoLateDuplicate` that the copies are in the order of their requests, none
younger than the current one and none older than what a unit has acted on
(`LineInv`); both that the waiting requests are the current one and, in
ascending order behind it, the queue (`QueueInv`), which is what makes the next
request to start the youngest ever sent. The refinement also needs every reply
on the line to have been given by a unit (`ReplyInv`). `LinkInv` is their
conjunction with `TypeOK`. Its preservation is proved action by action, with
lemmas for what the actions share: starting the next request, completing the
current one, sending it again, losing the head of the line. `Close` is the case
to look at: a handler that issues a request while it is being cancelled leaves
one in flight on a closed port, and the invariant has to admit it.

`SendTransferProofs` proves `TypeCorrect`, `CommitNeverMixed` (`CommitIsWhole`),
`VerifiedIsExact` (`VerifiedCommitIsExact`) and `SuccessTold` (`SuccessIsHonest`) for
every set of Sends whose steps `BuildSendSteps` plans: the hypothesis is
`SendsAreBuilt`, and for success also `SendsSave`; it is a hypothesis of the
theorems, not an ASSUME of the module, because it ranges over all document data.
`BuiltPlansAreWellFormed` shows of the plan what the invariant needs: it clears
before it writes, writes before it reads back, and saves behind everything. The
invariant, `CommitInv`, is `TypeOK`, `LineInv` (what may be on the line), `NothingOlder`
(of a step that a later one was heard after, no copy can come any more), `WorkInv`
(what the unit works on of the steps heard, but for those a restart behind them took
back), `FlashInv` (a save that was heard left the flash whole), the two properties
themselves, and that success is reported only behind the last step; `SaidInv` ties
what the user is told to it. A step counts
as heard when it was passed on its own answer (`borrowed` has the others), and
`Mishaps` may be any number: the theorems hold however often a unit restarts
unseen or one answer is taken for another. `CommitNeverMixed` and `SuccessTold`
promise of a part whatever some step could still tell of it; that a part all of
whose steps were taken back or never arrived cannot be accounted for
(`Unknowable`) is the exception in both, and a borrowed save in the second.

`ProofExchangeProofs` proves `TypeCorrect`, `WrongNeverAccepted` and
`RightRarelyWrong` for any number of calls, retransmitted challenges and restarts,
under the assumption that answers are sent once (`AnswerRetries = 0`, which is
what `proveAccess()` does and `proveLicenseSecret()` does not) and, for the last,
that there are at least two attempts. The invariant says that nonces arrive in
the order they were handed out (`NonceInv`), that an answer in flight is the
youngest frame or its verdict the youngest reply (`AnswerInv`), that one the unit
accepted is on its way back or lost (`OwnInv`), and that an undisturbed exchange
that has its verdict has left a quiet line (`QuietInv`). The key lemma is
`VerdictIsLast`.

`FirmwareUpdateProofs` proves `TypeCorrect`, `PromiseIsKept`
(`Spec => Promise!Spec`) and `NeverLost` for any image size and any numbers of
presses, cuts and starts, and, for the same constants, `BrokenUploadStays`
(`BrokenUploadNeverInstalls`), `InstalledIsTrue` (`InstalledIsHonest`) and
`RestoreFillsEmpty` (`RestoreFillsAnEmptyUnit`). What a
message says must outlive the state it was chosen in, so `MessageInv` follows what
can still reach the unit: one request at most (`OneRequest`), nothing that arms
it between BEGIN and END (`Disarmed`), and, before a second update, no second
image (`FirstUpdate`). `RestoreInv` says who may still write a configuration
while an update waits to offer its restore: the Send of the one underneath broke
at the restart, and a second update over an empty unit has no backup to send.

`PackageInstallProofs` proves `TypeCorrect`, `SuccessIsTrue` (`SuccessIsHonest`),
`OthersStay` (`OthersAreKept`), `OldUnitStays` (`OldUnitIsUntouched`) and
`CommitsWithPasswords` (`CommitsTogether`) for any packages, functions, installs and
restarts. `InstallInv` says that only the step in flight is on the line
(`LineInv`), that a session's index tells what the unit holds (`SessionInv`), that
an opened install has set what it has passed (`OpenedInv`), that a save taken put
the package in flash (`SavedInv`), that success is said behind the last answer
(`SaidInv`), and that an old unit is never past the probe (`OldInv`).
`PlansAreBuilt` reads what the invariant needs of a plan off its definition.

`OverridesProofs` proves `TypeCorrect`, `BoxesAndRowsAgree` (`BoxesAgree`),
`PinsAreShown` (`NoHiddenPin`) and `BoxesAreFilled` (`NoEmptyBox`) for any
channels, selections, retries, lease and any depth of nested calls;
`OverrideConstants` assumes of the layouts that each is a bijection between rows
and signals, which is what selecting no channel twice gives. None of the three
is inductive: while a call waits, its signal's box and pin may differ.
`DialogInv` adds what a waiting call will find when it returns (`CallInv`), that
there is at most one about a signal nothing has crossed (`SingleInv`), that its
row is still the signal's, or both have been given up (`StackInv`), and what a
dialog that is gone leaves behind (`GoneInv`: a pin it did not clear is in
doubt). `PinsAreShown` is therefore about the pins of the dialog that is open;
it does not say that an earlier one left none. Each action is a lemma; the ones
of the unit go through `HeldSound`, calls through `CallsSound`, rows cleared
without the unit's answer through `GivenUpSound`, returns through `RowReturns`.

`GetTransferProofs` proves `RecordsStayInPlace` (`RecordsInPlace`), `NothingMissing`
(`NothingIsMissingUnsaid`), `WholeOrNone` (`ProjectIsWholeOrNone`), `GapsAreKnown`
(`BackupKnowsItsGaps`) and `ToldTheTruth` (`ToldIsSo`) for every set of units. The
assumption is `UnitsAreWellFormed`, which TLC evaluates on the instance: a unit has
the four tables a Get cannot do without (they may be empty), its tables have names
of their own, and it declines a read for one of the three reasons the code tells
apart. Nothing is assumed of how many tables there are, how long they are, or what
the unit declines.

The plan of a Get is a recursive function of the unit, and it grows and shrinks
while the Get runs, so the proof has three parts. What the planning operators
return is proved by induction over the number of tables; since no rule with an
operator parameter can be instantiated, induction, the least number and recursion
are stated of sets of numbers (`Induction`, `Least`, `Recursion`) and derived from
the well-founded order of the library. How a plan changes (a step done, steps put
in behind it, the project's steps taken out) is proved of any plan. The invariant,
`GetInv`, then follows what the unit holds: every part is read, named as missing, or
due in a step still ahead (`CoverInv`; `GET_USAGE` ahead stands for all the tables it
has yet to plan); the first four tables are due by steps that tolerate no failure
(`RequiredInv`); the records read are in their places (`GotInv`); and the project is in
one of four stages (`ProjectInv`): its header ahead, its body read or due, a header
that stands alone, or all of it dropped and the reason noted. `ProjectInv` is where
the code is least obvious: a dropped project leaves the plan from inside a handler,
while the steps behind it stay.

`SessionProofs` proves `OneTransfer` (`TransfersFollowOneAnother`),
`ProtectedConfirmed` (`ProtectedGoesWhereConfirmed`), `ProvedIsAccepted`
(`NothingProvedIsRefused`) and `MonitorForgotten` (`MonitorIsNotLeftBehind`) for any
units, documents and depth of nesting. `SessionConstants` assumes that a unit's
guards are functions it knows, that one with a Protected Comms password has a key,
and that documents are marked or not and have a key or "none". It also rests on
what the model leaves out: no unit takes another's place behind an open port.

The invariant, `SessionInv` of that module, has three layers. `PlanInv`: what a
flow has ahead is a plan, that is, steps its command can have (`Belongs`), each
followed by what the code puts behind it (`Follows`), to a last one that may end it
(`Ends`); so the step a flow is at tells what it has been through, also where an
answer puts steps in front of the rest. `QueueInv` and `MonitorInv`: who is queued
for the link waits, and whoever set `m_monitorAfterGet` still has its Get to start
or to try again. Both hold at any depth of nesting. `SoleInv` is about the time
before an unlock crosses another command: there is one flow and at most one
transfer, and both wait only where `LineInv` says (a cancelled transfer's last
request comes before anything the next command asks); behind the gate the document
is one whose key the unit has (`Gated`); behind its proof the flow is allowed what
it needs, while the link is open and the unit has not restarted (`Trusted`). None of
the four properties is inductive without the plan. There is a lemma for each action
(`AskKeeps`, `ReturnKeeps`, `AnswerTransferKeeps`, ...); they go through two that say
what any step of the innermost flow must show, `Onward` and `Homeward`, and, for
the ends of transfers, `EndsKeeps` and `EndCalls`. Since `crossed` is forgotten when
nothing is left of the commands that crossed, `SoleInv` has to hold again from such
a state on: it does because nothing is left that it would be about, and because
`surprised` is cleared with it.

Checked by TLC only: the liveness properties (`WindowComesBack` among them; the
prover has no rules for fairness and `ENABLED`) and `RefreshIsInTime`, which needs a
count of the time behind each call.

## What is left

In the order in which it would add most:

1. The flows of `main_window.cpp` that `Session` leaves out: Save Secure
   Config, the CAN viewer, changing the USB mode (with its restart).
2. The licence write, which spends a proof and is retried after a lost
   acknowledgement.
3. The framer's buffer (8192 bytes without a delimiter drop a frame that had
   begun) and the packets of one read handed out in a loop that a handler
   re-enters.
4. A second Monitor dialog opened while the first waits in its constructor.

## What is not modelled

The document and its dialogs, the mapping between document and tables,
validation, files and their encryption, imports and the script compiler are
sequential code over data, covered by the repository's round-trip tests; tables
enter the models as named parts. Formatting, logs and presentation are left out.
Serial port detection, the Linux packaging and the programming tool run outside
the Manager's own logic. Cryptography is what it promises: an HMAC is right for
one nonce and one secret, and a sealed frame is the one that was sealed. The
framer, COBS and the CRC are functions of one buffer, and a frame stands for
itself. `FirmwareUploader::cancel()` is called by nothing in the program. A stream
may lead with up to three probes, one of which writes; the model has one.

Limits of what is modelled, smaller than a part:

- Of a Get's single reads (names, message passwords, device channels, bus setup,
  channel extensions) the plan has two, one of each kind of failure it tolerates;
  a reply shorter than its record is not modelled.
- A Get's handler keeps references into a plan it grows; what an invalidated one
  would read is outside the model, as is any memory error but the deleted dialog's.
- `VerifiedCommitIsExact` says that nothing wrong is committed; that nothing is missing
  is `CommitIsWhole`'s. `AlwaysReports` says that a Send or Get ends, counts one whose
  owner is gone as ended, and says nothing of what the report should have been.
- An image of the version that already runs cannot be told from it by the dialog,
  which compares versions (`firmware_update_dialog.cpp:1129-1131`); the model has images
  of other versions only.
