--------------------------- MODULE FirmwareUpdate ---------------------------
(***************************************************************************)
(* An update of the unit's firmware: onUpdate() of                         *)
(* gui/src/ui/firmware_update_dialog.cpp with the backup before it and the *)
(* restore behind it, the upload of gui/src/protocol/firmware_update.cpp,  *)
(* and the unit that takes the image (docs/firmware-update.md; its         *)
(* firmware is not in the repository).                                     *)
(*                                                                         *)
(* The window is only busy until the unit's status has been read again:    *)
(* from then on -- the confirmation, the identity read, the restore, which *)
(* wait in nested event loops -- Update Firmware can be pressed once more, *)
(* and the first update continues behind the second.                       *)
(*                                                                         *)
(* The link is its contract (LinkContract).  A request on the default      *)
(* timeout does not outlive a restart of the unit (1.5 s against 2.5 s);   *)
(* those on the flash timeout do.                                          *)
(***************************************************************************)
EXTENDS Naturals

CONSTANTS
    Chunks,      \* frames an image takes
    MaxPresses,  \* presses of Update Firmware considered
    MaxCuts,     \* power cuts considered
    MaxStarts    \* starts an image on trial is given (the unit's: 3)

ASSUME Sizes == /\ Chunks \in Nat \ {0} /\ MaxPresses \in Nat
                /\ MaxCuts \in Nat /\ MaxStarts \in Nat \ {0}

VARIABLES
    job,       \* what is updated, with what: see Job
    frame,     \* the onUpdate() that runs: where it is, and its locals
    outer,     \* the one it was pressed under, waiting in an event loop
    step,      \* the request of the upload in flight
    told,      \* the last message box
    presses,   \* presses of Update Firmware
    files,     \* what the backup files hold
    waived,    \* an update was started without a backup
    line,      \* the request whose copies may still reach the unit
    replies,   \* the answers the unit has given to it
    up,        \* the unit has started
    runs,      \* the image installed
    prev,      \* the image a rollback goes to
    staged,    \* frames staged since BEGIN; NoSession: it would take none
    armed,     \* the staged image is to be installed at the next start
    trial,     \* starts on trial; 0: none
    result,    \* last_result
    conf,      \* the configuration the unit holds
    confFor,   \* the image whose format it is in
    cuts       \* power cuts

hostVars == <<job, frame, outer, step, told, presses, files, waived>>
imageVars == <<up, runs, prev, staged, armed, trial, result>>
confVars == <<conf, confFor>>
vars == <<hostVars, line, replies, imageVars, confVars, cuts>>

Image == {"old", "new"}
Stage == {"idle", "before", "backup", "upload", "waiting", "status", "confirm", "identity",
          "there", "gone", "restore"}
\* "part": what a Send that broke off left on a CAN Triple 1.x.
Conf == {"mine", "part", "none"}

\* two: a CAN Triple 2.0; clears: the image has another configuration format;
\* well: it starts properly; holds: the unit had a configuration; listed:
\* deviceEmpty looks at a table that configuration fills (it passes over UDS
\* requests, CRC8 rules and notes).
Job == [two : BOOLEAN, clears : BOOLEAN, well : BOOLEAN, holds : BOOLEAN, listed : BOOLEAN]

\* keep: m_backupCheck; had: hadConfig; backup: what backupPath holds; send: its
\* restore's Send.
Frame == [at : Stage, keep : BOOLEAN, had : BOOLEAN, backup : Conf,
          send : {"no", "open", "stored", "failed"}]
Idle == [at |-> "idle", keep |-> TRUE, had |-> FALSE, backup |-> "none", send |-> "no"]

Begin == 0
End == Chunks + 1
Reset == Chunks + 2
Confirm == Chunks + 3
Request == 0 .. Confirm
Slow == {Begin, End, Confirm}
NoSession == Chunks + 1

Told == {"", "not started", "not installed", "no restart", "no return", "no answer",
         "rolled back", "still old", "intact", "empty", "no configuration",
         "restored", "not restored"}

TypeOK ==
    /\ job \in Job /\ frame \in Frame /\ outer \in Frame
    /\ step \in 0 .. Reset
    /\ told \in Told
    /\ presses \in 0 .. MaxPresses /\ cuts \in 0 .. MaxCuts
    /\ files \subseteq Conf \ {"none"}
    /\ {waived, up, armed} \subseteq BOOLEAN
    /\ line \subseteq Request /\ replies \subseteq {"ok", "refused"}
    /\ {runs, prev, confFor} \subseteq Image
    /\ staged \in 0 .. NoSession
    /\ trial \in 0 .. MaxStarts
    /\ result \in {"none", "ok", "failed", "rolled back"}
    /\ conf \in Conf

Init ==
    /\ job \in Job
    /\ frame = Idle /\ outer = Idle /\ step = Begin
    /\ told = "" /\ presses = 0 /\ files = {} /\ waived = FALSE
    /\ line = {} /\ replies = {}
    /\ up = TRUE /\ runs = "old" /\ prev = "old" /\ staged = NoSession
    /\ armed = FALSE /\ trial = 0 /\ result = "none"
    /\ conf = (IF job.holds THEN "mine" ELSE "none") /\ confFor = "old"
    /\ cuts = 0

\* The unit has started an image that runs.
Answering == up /\ (runs = "old" \/ job.well)

-----------------------------------------------------------------------------
(* onUpdate() *)

\* A request goes out; what is left of an older one cannot follow it.
Issue(request) == line' = {request} /\ replies' = {}

\* The end of an onUpdate(): a message, and back to the one underneath.
Finish(message) ==
    /\ told' = message
    /\ frame' = outer
    /\ outer' = Idle

Goto(stage) == frame' = [frame EXCEPT !.at = stage]

\* A Send that was under way, when the port closes or the unit restarts.
Broken(f) == [f EXCEPT !.send = IF f.send = "open" THEN "failed" ELSE f.send]

\* Update Firmware, answered with Yes.  Not busy is idle, or any wait behind
\* the second setBusy(false); an identity read has been answered before the
\* second update's first request goes out ("there", "gone").
Press ==
    /\ presses < MaxPresses
    /\ frame.at \in {"idle", "confirm", "there", "gone", "restore"}
    /\ outer.at = "idle"
    /\ presses' = presses + 1
    /\ outer' = frame
    /\ \E keep \in BOOLEAN : frame' = [Idle EXCEPT !.at = "before", !.keep = keep]
    /\ told' = ""
    /\ UNCHANGED <<job, step, files, waived, line, replies, imageVars, confVars, cuts>>

\* upload() begins: BEGIN goes out.
StartUpload(f) ==
    /\ frame' = [f EXCEPT !.at = "upload"]
    /\ step' = Begin
    /\ Issue(Begin)

\* hadConfig, a lost reply counting as a configuration.
ReadBefore ==
    /\ frame.at = "before"
    /\ \E lost \in BOOLEAN :
         LET read == [frame EXCEPT !.had = lost \/ conf # "none"]
         IN  /\ lost \/ Answering
             /\ IF frame.keep
                THEN /\ frame' = [read EXCEPT !.at = "backup"]
                     /\ UNCHANGED <<step, line, replies>>
                ELSE StartUpload(read)
    /\ waived' = (waived \/ ~frame.keep)
    /\ UNCHANGED <<job, outer, told, presses, files, imageVars, confVars, cuts>>

\* deviceEmpty: nothing worth a file.
DeviceEmpty == conf = "none" \/ ~job.listed

\* (Seeded bug: a read with lost replies is written as it is.)
UnreadAsBackup ==
    /\ frame.at = "backup"
    /\ files' = files \union {"part"}
    /\ StartUpload([frame EXCEPT !.backup = "part"])
    /\ UNCHANGED <<told, outer>>

\* backupConfiguration() that failed: a read that was refused or is not sure,
\* or a file that could not be written.
BackupFails ==
    /\ frame.at = "backup"
    /\ Finish("not started")
    /\ UNCHANGED <<files, step, line, replies>>

\* backupConfiguration(): one Get, which a restart would break.
BackupDone ==
    /\ frame.at = "backup" /\ Answering
    /\ IF DeviceEmpty
       THEN StartUpload(frame) /\ UNCHANGED files
       ELSE /\ files' = files \union {conf}
            /\ StartUpload([frame EXCEPT !.backup = conf])
    /\ UNCHANGED <<told, outer>>

Backup ==
    /\ BackupFails \/ BackupDone
    /\ UNCHANGED <<job, presses, waived, imageVars, confVars, cuts>>

-----------------------------------------------------------------------------
(* upload() and requestReset() *)

\* offset += chunk, or the phase behind the last one.
CarryOn ==
    /\ step' = step + 1 /\ Issue(step + 1)
    /\ UNCHANGED <<frame, outer, told>>

\* (Seeded bug: an upload that carries on behind a BEGIN nobody answered.)
OnlyChunksFail ==
    IF step = Begin THEN CarryOn
                    ELSE Finish("not installed") /\ UNCHANGED <<step, line, replies>>

\* requestSync() failed: refused, or unanswered.  No ABORT is sent.
UploadFails ==
    /\ Finish(IF step = Reset THEN "no restart" ELSE "not installed")
    /\ UNCHANGED <<step, line, replies>>

\* The answer to the request in flight; behind it the next chunk, END, the
\* restart, and waitForDeviceToReturn(), which closes the port.
UploadGoesOn ==
    IF step = Reset
    THEN /\ Goto("waiting")
         /\ outer' = Broken(outer)
         /\ line' = {} /\ replies' = {}
         /\ UNCHANGED <<step, told>>
    ELSE CarryOn

UploadAnswered ==
    /\ frame.at = "upload"
    /\ \/ "ok" \in replies /\ UploadGoesOn
       \/ UploadFails
    /\ UNCHANGED <<job, presses, files, waived, imageVars, confVars, cuts>>

-----------------------------------------------------------------------------
(* After the restart *)

hostOnly == <<job, step, presses, files, waived, line, replies, imageVars, confVars, cuts>>

\* (Seeded bug: a wait without an end.)
PollForever ==
    /\ frame.at = "waiting"
    /\ Answering /\ Goto("status") /\ UNCHANGED <<told, outer, hostOnly>>

\* waitForDeviceToReturn(): polled until the unit answers, for 25 s or 60 s.
Return ==
    /\ frame.at = "waiting"
    /\ \/ Answering /\ Goto("status") /\ UNCHANGED <<told, outer>>
       \/ Finish("no return")
    /\ UNCHANGED hostOnly

\* The version that runs is the image's: an image on trial is confirmed.
Installed ==
    /\ UNCHANGED <<told, outer>>
    /\ IF job.two /\ trial > 0 THEN Goto("confirm") /\ Issue(Confirm)
                               ELSE Goto("identity") /\ UNCHANGED <<line, replies>>

\* (Seeded bug: what was sent is what runs.)
TakenAsInstalled == Installed

\* What the status read shows.
Judge ==
    \/ runs = "new" /\ Installed
    \/ /\ runs # "new"
       /\ Finish(IF result = "rolled back" THEN "rolled back" ELSE "still old")
       /\ UNCHANGED <<line, replies>>

\* refreshDeviceStatus(), whose gated read may fail, and what follows from it.
ReadStatus ==
    /\ frame.at = "status"
    /\ \/ Answering /\ Judge
       \/ Finish("no answer") /\ UNCHANGED <<line, replies>>
    /\ UNCHANGED <<job, step, presses, files, waived, imageVars, confVars, cuts>>

\* confirm(): whatever comes of it, on to the identity.
ConfirmAnswered ==
    /\ frame.at = "confirm"
    /\ Goto("identity")
    /\ UNCHANGED <<told, outer, hostOnly>>

\* readIdentity(), and configGone.
ReadIdentity ==
    /\ frame.at = "identity"
    /\ \E lost \in BOOLEAN :
         /\ lost \/ Answering
         /\ Goto(IF frame.had /\ ~lost /\ conf = "none" THEN "gone" ELSE "there")
    /\ UNCHANGED <<told, outer, hostOnly>>

\* The configuration is not known to be gone.
SayInstalled ==
    /\ frame.at = "there"
    /\ Finish(IF frame.had THEN "intact" ELSE "empty")
    /\ UNCHANGED hostOnly

\* It is gone: said, or its backup offered and declined or found unfit.
SayGone ==
    /\ frame.at = "gone"
    /\ Finish(IF frame.backup = "none" THEN "no configuration" ELSE "not restored")
    /\ UNCHANGED hostOnly

\* (Seeded bug: a restore offered after every update.)
AlwaysOffer == frame.at \in {"there", "gone"}

Offers == frame.at = "gone"

\* offerConfigurationRestore(), accepted: a Send of the backup begins.
OfferRestore ==
    /\ Offers /\ frame.backup # "none"
    /\ frame' = [frame EXCEPT !.at = "restore", !.send = "open"]
    /\ UNCHANGED <<told, outer, hostOnly>>

\* CLEAR_CONFIG on a CAN Triple 1.x; a 2.0 stages the whole Send.
Clear(f) ==
    /\ ~job.two /\ conf' = "part" /\ confFor' = runs
    /\ UNCHANGED <<frame, outer>>

\* SAVE_TO_FLASH, on a CAN Triple 1.x behind its CLEAR_CONFIG.
Store(f) == (job.two \/ conf = "part") /\ conf' = f.backup /\ confFor' = runs

\* A step of the Send of either onUpdate(): the loop of the one underneath runs
\* on.
Restore ==
    /\ \/ \E f \in {frame, outer} : f.send = "open" /\ Answering /\ Clear(f)
       \/ /\ frame.send = "open" /\ Answering /\ Store(frame)
          /\ frame' = [frame EXCEPT !.send = "stored"] /\ UNCHANGED outer
       \/ /\ outer.send = "open" /\ Answering /\ Store(outer)
          /\ outer' = [outer EXCEPT !.send = "stored"] /\ UNCHANGED frame
       \/ /\ frame.send = "open" /\ frame' = Broken(frame)
          /\ UNCHANGED <<outer, confVars>>
       \/ /\ outer.send = "open" /\ outer' = Broken(outer)
          /\ UNCHANGED <<frame, confVars>>
    /\ UNCHANGED <<job, step, told, presses, files, waived, line, replies, imageVars, cuts>>

\* finished(); an answer to SAVE that was lost counts as a failure.
RestoreEnds ==
    /\ frame.at = "restore" /\ frame.send # "open"
    /\ \/ frame.send = "stored" /\ Finish("restored")
       \/ Finish("not restored")
    /\ UNCHANGED hostOnly

-----------------------------------------------------------------------------
(* The unit *)

Reply(verdict) == replies' = replies \union {verdict}

\* BEGIN erases the staging area, and with it what was armed there.
TakeBegin ==
    /\ Begin \in line
    /\ staged' = 0 /\ armed' = FALSE /\ Reply("ok")
    /\ UNCHANGED <<up, trial>>

\* A chunk in its place, the first copy or another.
TakeData ==
    \E chunk \in line \intersect (1 .. Chunks) :
        /\ IF staged \in {chunk - 1, chunk} THEN staged' = chunk /\ Reply("ok")
                                            ELSE UNCHANGED staged /\ Reply("refused")
        /\ UNCHANGED <<up, armed, trial>>

\* END: the unit checks the whole image, and arms it.
TakeEnd ==
    /\ End \in line
    /\ IF staged = Chunks THEN armed' = TRUE /\ Reply("ok")
                          ELSE UNCHANGED armed /\ Reply("refused")
    /\ UNCHANGED <<up, staged, trial>>

TakeConfirm ==
    /\ Confirm \in line
    /\ trial' = 0 /\ Reply("ok")
    /\ UNCHANGED <<up, staged, armed>>

Take ==
    /\ Answering
    /\ TakeBegin \/ TakeData \/ TakeEnd \/ TakeConfirm
    /\ UNCHANGED <<hostVars, line, runs, prev, result, confVars, cuts>>

\* What a restart ends: the session, and requests on the default timeout.
GoDown ==
    /\ up' = FALSE
    /\ staged' = NoSession
    /\ line' = line \intersect Slow
    /\ frame' = Broken(frame) /\ outer' = Broken(outer)
    /\ UNCHANGED <<job, step, told, presses, files, waived, runs, prev, armed,
                   trial, result, confVars>>

\* RESET_DEVICE: acknowledged, then done.
TakeReset ==
    /\ Answering /\ Reset \in line
    /\ GoDown /\ Reply("ok")
    /\ UNCHANGED cuts

\* The power is cut, or the watchdog ends an image that hangs.
PowerCut ==
    /\ up /\ cuts < MaxCuts
    /\ cuts' = cuts + 1
    /\ GoDown /\ UNCHANGED replies

Watchdog ==
    /\ up /\ ~Answering /\ trial > 0
    /\ GoDown /\ UNCHANGED <<replies, cuts>>

\* A firmware that starts cannot read another format's configuration; one that
\* hangs may or may not have got so far.
MeetConfiguration(image) ==
    IF job.clears /\ confFor # image /\ conf # "none"
    THEN /\ UNCHANGED confFor
         /\ conf' \in IF image = "old" \/ job.well THEN {"none"} ELSE {"none", conf}
    ELSE UNCHANGED confVars

\* (Seeded bug: an image on trial is never given up.)
KeepTrying == trial > MaxStarts

GivenUp == trial = MaxStarts

\* The bootloader: install what is armed (or fail to), go back from an image
\* that was started too often, or start what there is.
Start ==
    /\ ~up /\ up' = TRUE
    /\ \/ /\ armed /\ armed' = FALSE
          /\ runs' = "new" /\ prev' = runs /\ result' = "ok"
          /\ trial' = IF job.two THEN 1 ELSE 0
       \/ /\ armed /\ armed' = FALSE
          /\ result' = "failed"
          /\ UNCHANGED <<runs, prev, trial>>
       \/ /\ ~armed /\ GivenUp
          /\ runs' = prev /\ result' = "rolled back" /\ trial' = 0
          /\ UNCHANGED <<prev, armed>>
       \/ /\ ~armed /\ ~GivenUp
          /\ trial' = IF trial > 0 THEN trial + 1 ELSE 0
          /\ UNCHANGED <<runs, prev, armed, result>>
    /\ MeetConfiguration(runs')
    /\ UNCHANGED <<hostVars, line, replies, staged, cuts>>

\* A minute of running ends the trial.
Settle ==
    /\ Answering /\ trial > 0
    /\ trial' = 0
    /\ UNCHANGED <<hostVars, line, replies, up, runs, prev, staged, armed, result, confVars,
                   cuts>>

Unit == Take \/ TakeReset \/ PowerCut \/ Watchdog \/ Start \/ Settle

Dialog == ReadBefore \/ Backup \/ UploadAnswered \/ Return \/ ReadStatus \/ ConfirmAnswered
          \/ ReadIdentity \/ SayInstalled \/ SayGone \/ OfferRestore \/ RestoreEnds

Next == Press \/ Dialog \/ Restore \/ Unit

\* Every request of the window is answered or given up, its timers run, and the
\* user answers its questions.
Spec == Init /\ [][Next]_vars /\ WF_vars(Dialog) /\ WF_vars(Restore)

-----------------------------------------------------------------------------
(* Properties *)

\* The user had no configuration to lose, did without its backup, or it is one
\* that deviceEmpty takes for none.
NothingOwed == ~job.holds \/ ~job.listed \/ waived

\* The places the configuration is in.
Places == (IF conf = "mine" THEN {"unit"} ELSE {}) \union
          (IF "mine" \in files THEN {"file"} ELSE {})

Promise == INSTANCE UpdatePromise
    WITH runs <- runs, offered <- armed, places <- Places, waived <- NothingOwed

\* The update keeps its promise, as a refinement: the running image is only ever
\* replaced by one that was sent whole, and the configuration is on the unit or
\* in a file, through lost answers, power cuts, rollbacks, and a second update
\* started under the first (docs/firmware-update.md).
KeepsPromise == Promise!Spec

\* firmware_update_dialog.cpp:1080-1091, "The update was not installed": true for
\* good when a chunk failed, although no ABORT follows -- not even an image that
\* an earlier update left armed is installed later.
BrokenUploadNeverInstalls ==
    told = "not installed" /\ step \in 1 .. Chunks /\ frame.at = "idle" =>
        ~armed /\ End \notin line

\* What is said to be installed runs, or the unit has gone back from it since: the
\* answer judged is the restarted unit's, never the one before.
InstalledIsHonest ==
    told \in {"intact", "empty", "no configuration", "restored"} =>
        \/ runs = "new" \/ result = "rolled back"
        \/ presses > 1 /\ result = "failed"

\* firmware_update_dialog.cpp:1170-1172, "Only offer the restore when the
\* configuration really is gone": a restore never overwrites a configuration, not
\* even when the answer it goes by is older than a second update.
RestoreFillsAnEmptyUnit ==
    [][frame.at # "restore" /\ frame'.at = "restore" /\ outer' = outer => conf = "none"]_vars

\* Every update comes to an end, the one underneath as well.
EveryUpdateEnds == frame.at # "idle" ~> frame.at = "idle"
=============================================================================
