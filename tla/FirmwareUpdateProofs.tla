------------------------ MODULE FirmwareUpdateProofs ------------------------
(***************************************************************************)
(* FirmwareUpdate's types, that it implements UpdatePromise, and that what *)
(* the window says of the unit is so, for every size of image and any      *)
(* number of presses, power cuts and starts.                               *)
(*                                                                         *)
(* The refinement rests on one observation: until the configuration is in  *)
(* a file or the user has waived it (Safe), nothing an update does to the  *)
(* unit has begun (Early), so nothing can replace or lose it.              *)
(***************************************************************************)
EXTENDS FirmwareUpdate, TLAPS

Safe == NothingOwed \/ "mine" \in files

Early ==
    /\ frame.at \in {"idle", "before", "backup"} /\ frame.send = "no"
    /\ outer.at = "idle" /\ outer.send = "no"
    /\ line = {} /\ armed = FALSE /\ trial = 0
    /\ runs = "old" /\ prev = "old" /\ conf = "mine" /\ confFor = "old"

\* A backup that an update offers to restore is in a file.
BackupIsInAFile(f) == f.backup = "mine" => "mine" \in files

\* Only an image that replaced another is on trial.
TrialIsNew == trial > 0 => runs = "new"

PromiseInv ==
    /\ TypeOK
    /\ ~Safe => Early
    /\ BackupIsInAFile(frame) /\ BackupIsInAFile(outer)
    /\ TrialIsNew

-----------------------------------------------------------------------------
(* Frames *)

\* A frame whose Send broke is the same frame otherwise.
LEMMA BrokenFacts ==
    ASSUME NEW f \in Frame
    PROVE  /\ Broken(f) \in Frame
           /\ Broken(f).at = f.at /\ Broken(f).backup = f.backup
           /\ f.send = "no" => Broken(f).send = "no"
  BY DEF Broken, Frame

LEMMA FrameFacts ==
    ASSUME NEW f \in Frame
    PROVE  /\ \A stage \in Stage : [f EXCEPT !.at = stage] \in Frame
           /\ \A b \in BOOLEAN : [f EXCEPT !.had = b] \in Frame
           /\ \A c \in Conf : [f EXCEPT !.backup = c] \in Frame
           /\ \A s \in {"no", "open", "stored", "failed"} : [f EXCEPT !.send = s] \in Frame
  BY DEF Frame

LEMMA IdleIsFrame ==
    /\ Idle \in Frame
    /\ Idle.at = "idle" /\ Idle.send = "no" /\ Idle.backup = "none"
    /\ \A b \in BOOLEAN : [Idle EXCEPT !.at = "before", !.keep = b] \in Frame
  BY DEF Idle, Frame, Stage, Conf

LEMMA Requests ==
    /\ Begin \in Request /\ End \in Request /\ Reset \in Request /\ Confirm \in Request
    /\ Slow \subseteq Request /\ NoSession \in 0 .. NoSession
    /\ \A i \in 0 .. Reset : i # Reset => i + 1 \in 0 .. Reset
    /\ 0 .. Reset \subseteq Request
    /\ Begin \in 0 .. Reset
  BY Sizes DEF Sizes, Begin, End, Reset, Confirm, Request, Slow, NoSession

-----------------------------------------------------------------------------
(* Type correctness *)

LEMMA InitType == Init => TypeOK
  <1> SUFFICES ASSUME Init PROVE TypeOK
    OBVIOUS
  <1>1. job \in Job /\ told \in Told /\ conf \in Conf
    BY DEF Init, Told, Conf, Job
  <1>2. frame \in Frame /\ outer \in Frame
    BY IdleIsFrame DEF Init
  <1>3. step \in 0 .. Reset /\ staged \in 0 .. NoSession
    BY Requests DEF Init
  <1>4. presses \in 0 .. MaxPresses /\ cuts \in 0 .. MaxCuts /\ trial \in 0 .. MaxStarts
    <2>1. presses = 0 /\ cuts = 0 /\ trial = 0
      BY DEF Init
    <2> QED BY <2>1, Sizes DEF Sizes
  <1> QED BY <1>1, <1>2, <1>3, <1>4 DEF Init, TypeOK, Image

\* The type of the dialog's part, and of the unit's.
HostType ==
    /\ job \in Job /\ frame \in Frame /\ outer \in Frame
    /\ step \in 0 .. Reset
    /\ told \in Told
    /\ presses \in 0 .. MaxPresses
    /\ files \subseteq Conf \ {"none"} /\ waived \in BOOLEAN
    /\ line \subseteq Request /\ replies \subseteq {"ok", "refused"}

UnitType ==
    /\ {up, armed} \subseteq BOOLEAN
    /\ {runs, prev, confFor} \subseteq Image
    /\ staged \in 0 .. NoSession
    /\ trial \in 0 .. MaxStarts
    /\ result \in {"none", "ok", "failed", "rolled back"}
    /\ conf \in Conf
    /\ cuts \in 0 .. MaxCuts

LEMMA TypeParts == TypeOK <=> HostType /\ UnitType
  BY DEF TypeOK, HostType, UnitType

\* Steps of the dialog alone keep the unit's type.
LEMMA UnitUnchanged ==
    UnitType /\ UNCHANGED <<imageVars, confVars, cuts>> => UnitType'
  BY DEF UnitType, imageVars, confVars

LEMMA FinishType ==
    ASSUME HostType, NEW message \in Told, Finish(message)
    PROVE  told' \in Told /\ frame' \in Frame /\ outer' \in Frame
  BY IdleIsFrame DEF HostType, Finish

LEMMA GotoType ==
    ASSUME HostType, NEW stage \in Stage, Goto(stage)
    PROVE  frame' \in Frame
  BY FrameFacts DEF HostType, Goto

LEMMA IssueType ==
    ASSUME NEW request \in Request, Issue(request)
    PROVE  line' \subseteq Request /\ replies' \subseteq {"ok", "refused"}
  BY DEF Issue

LEMMA StartUploadType ==
    ASSUME NEW f \in Frame, StartUpload(f)
    PROVE  /\ frame' \in Frame /\ step' \in 0 .. Reset
           /\ line' \subseteq Request /\ replies' \subseteq {"ok", "refused"}
  <1>1. frame' \in Frame
    BY FrameFacts DEF StartUpload, Stage
  <1>2. Issue(Begin) /\ step' = Begin
    BY DEF StartUpload
  <1> QED BY <1>1, <1>2, Requests, IssueType

LEMMA PressType == HostType /\ UnitType /\ Press => HostType' /\ UnitType'
  <1> SUFFICES ASSUME HostType, UnitType, Press PROVE HostType' /\ UnitType'
    OBVIOUS
  <1>1. UnitType'
    BY UnitUnchanged DEF Press
  <1>2. frame' \in Frame /\ outer' \in Frame
    BY IdleIsFrame DEF Press, HostType
  <1>3. presses' \in 0 .. MaxPresses
    <2>1. presses' = presses + 1 /\ presses < MaxPresses /\ presses \in 0 .. MaxPresses
      BY DEF Press, HostType
    <2> QED BY <2>1, Sizes DEF Sizes
  <1> QED BY <1>1, <1>2, <1>3 DEF Press, HostType, Told

LEMMA ReadBeforeType == HostType /\ UnitType /\ ReadBefore => HostType' /\ UnitType'
  <1> SUFFICES ASSUME HostType, UnitType, ReadBefore PROVE HostType' /\ UnitType'
    OBVIOUS
  <1>1. UnitType'
    BY UnitUnchanged DEF ReadBefore
  <1>2. PICK lost \in BOOLEAN :
            LET read == [frame EXCEPT !.had = lost \/ conf # "none"]
            IN  IF frame.keep
                THEN frame' = [read EXCEPT !.at = "backup"] /\ UNCHANGED <<step, line, replies>>
                ELSE StartUpload(read)
    BY DEF ReadBefore
  <1> DEFINE read == [frame EXCEPT !.had = lost \/ conf # "none"]
  <1>3. read \in Frame
    BY FrameFacts DEF HostType
  <1> HIDE DEF read
  <1>4. CASE frame.keep
    <2>1. frame' \in Frame
      BY <1>2, <1>3, <1>4, FrameFacts DEF Stage, read
    <2> QED BY <1>1, <1>2, <1>4, <2>1 DEF ReadBefore, HostType
  <1>5. CASE ~frame.keep
    <2>1. StartUpload(read)
      BY <1>2, <1>5 DEF read
    <2> QED BY <1>1, <1>3, <2>1, StartUploadType DEF ReadBefore, HostType
  <1> QED BY <1>4, <1>5

LEMMA BackupType == HostType /\ UnitType /\ Backup => HostType' /\ UnitType'
  <1> SUFFICES ASSUME HostType, UnitType, Backup PROVE HostType' /\ UnitType'
    OBVIOUS
  <1>1. UnitType'
    BY UnitUnchanged DEF Backup
  <1>2. CASE BackupFails
    BY <1>1, <1>2, FinishType DEF Backup, BackupFails, HostType, Told
  <1>3. CASE BackupDone /\ DeviceEmpty
    <2>1. StartUpload(frame) /\ UNCHANGED <<files, told, outer>>
      BY <1>3 DEF BackupDone
    <2> QED BY <1>1, <2>1, StartUploadType DEF Backup, HostType
  <1>4. CASE BackupDone /\ ~DeviceEmpty
    <2>1. /\ files' = files \union {conf} /\ conf # "none" /\ conf \in Conf
          /\ StartUpload([frame EXCEPT !.backup = conf]) /\ UNCHANGED <<told, outer>>
      BY <1>4 DEF BackupDone, DeviceEmpty, UnitType
    <2>2. [frame EXCEPT !.backup = conf] \in Frame
      BY <2>1, FrameFacts DEF HostType
    <2> QED BY <1>1, <2>1, <2>2, StartUploadType DEF Backup, HostType
  <1> QED BY <1>2, <1>3, <1>4 DEF Backup

LEMMA UploadAnsweredType ==
    HostType /\ UnitType /\ UploadAnswered => HostType' /\ UnitType'
  <1> SUFFICES ASSUME HostType, UnitType, UploadAnswered PROVE HostType' /\ UnitType'
    OBVIOUS
  <1>1. UnitType'
    BY UnitUnchanged DEF UploadAnswered
  <1>2. CASE UploadFails
    <2>1. PICK message \in Told : Finish(message)
      BY <1>2 DEF UploadFails, Told
    <2> QED BY <1>1, <1>2, <2>1, FinishType DEF UploadAnswered, UploadFails, HostType
  <1>3. CASE UploadGoesOn /\ step = Reset
    <2>1. frame' \in Frame /\ outer' \in Frame
      BY <1>3, GotoType, BrokenFacts DEF UploadGoesOn, HostType, Stage
    <2> QED BY <1>1, <1>3, <2>1 DEF UploadAnswered, UploadGoesOn, HostType
  <1>4. CASE UploadGoesOn /\ step # Reset
    <2>1. step' = step + 1 /\ Issue(step + 1) /\ UNCHANGED <<frame, outer, told>>
      BY <1>4 DEF UploadGoesOn, CarryOn
    <2>2. step + 1 \in 0 .. Reset /\ step + 1 \in Request
      BY <1>4, Requests DEF HostType
    <2> QED BY <1>1, <2>1, <2>2, IssueType DEF UploadAnswered, HostType
  <1> QED BY <1>2, <1>3, <1>4 DEF UploadAnswered

\* What follows the restart changes the frames and the message only.
LEMMA HostOnlyType ==
    ASSUME HostType, UnitType, UNCHANGED hostOnly,
           told' \in Told, frame' \in Frame, outer' \in Frame
    PROVE  HostType' /\ UnitType'
  <1>1. UnitType'
    BY UnitUnchanged DEF hostOnly
  <1> QED BY <1>1 DEF HostType, hostOnly

AfterRestart == Return \/ ConfirmAnswered \/ ReadIdentity \/ SayInstalled \/ SayGone
                \/ OfferRestore \/ RestoreEnds

LEMMA AfterRestartSteps ==
    ASSUME AfterRestart
    PROVE  /\ UNCHANGED hostOnly
           /\ \/ \E message \in Told : Finish(message)
              \/ /\ UNCHANGED <<told, outer>>
                 /\ \/ \E stage \in Stage : Goto(stage)
                    \/ /\ frame.backup # "none" /\ frame.at = "gone"
                       /\ frame' = [frame EXCEPT !.at = "restore", !.send = "open"]
  <1>1. CASE Return
    BY <1>1 DEF Return, Told, Stage, hostOnly
  <1>2. CASE ConfirmAnswered
    BY <1>2 DEF ConfirmAnswered, Stage, hostOnly
  <1>3. CASE ReadIdentity
    BY <1>3 DEF ReadIdentity, Stage, hostOnly
  <1>4. CASE SayInstalled
    BY <1>4 DEF SayInstalled, Told, hostOnly
  <1>5. CASE SayGone
    BY <1>5 DEF SayGone, Told, hostOnly
  <1>6. CASE OfferRestore
    BY <1>6 DEF OfferRestore, Offers, hostOnly
  <1>7. CASE RestoreEnds
    BY <1>7 DEF RestoreEnds, Told, hostOnly
  <1> QED BY <1>1, <1>2, <1>3, <1>4, <1>5, <1>6, <1>7 DEF AfterRestart

LEMMA AfterRestartType == HostType /\ UnitType /\ AfterRestart => HostType' /\ UnitType'
  <1> SUFFICES ASSUME HostType, UnitType, AfterRestart PROVE HostType' /\ UnitType'
    OBVIOUS
  <1>1. told \in Told /\ frame \in Frame /\ outer \in Frame
    BY DEF HostType
  <1>2. CASE \E message \in Told : Finish(message)
    BY <1>2, AfterRestartSteps, FinishType, HostOnlyType
  <1>3. CASE UNCHANGED <<told, outer>> /\ \E stage \in Stage : Goto(stage)
    BY <1>1, <1>3, AfterRestartSteps, GotoType, HostOnlyType
  <1>4. CASE /\ UNCHANGED <<told, outer>>
             /\ frame' = [frame EXCEPT !.at = "restore", !.send = "open"]
    <2>1. frame' \in Frame
      BY <1>1, <1>4 DEF Frame, Stage
    <2> QED BY <1>1, <1>4, <2>1, AfterRestartSteps, HostOnlyType
  <1> QED BY <1>2, <1>3, <1>4, AfterRestartSteps

\* What a status read leads to.
LEMMA ReadStatusSteps ==
    ASSUME ReadStatus
    PROVE  /\ UNCHANGED <<job, step, presses, files, waived, imageVars, confVars, cuts>>
           /\ frame.at = "status"
           /\ \/ \E message \in Told : Finish(message) /\ UNCHANGED <<line, replies>>
              \/ Goto("confirm") /\ Issue(Confirm) /\ UNCHANGED <<told, outer>>
              \/ Goto("identity") /\ UNCHANGED <<told, outer, line, replies>>
  <1>1. CASE Answering /\ runs = "new" /\ Installed
    BY <1>1 DEF ReadStatus, Installed
  <1>2. CASE Answering /\ runs # "new" /\ Judge
    BY <1>2 DEF ReadStatus, Judge, Told
  <1>3. CASE Finish("no answer") /\ UNCHANGED <<line, replies>>
    BY <1>3 DEF ReadStatus, Told
  <1> QED BY <1>1, <1>2, <1>3 DEF ReadStatus, Judge

LEMMA ReadStatusType == HostType /\ UnitType /\ ReadStatus => HostType' /\ UnitType'
  <1> SUFFICES ASSUME HostType, UnitType, ReadStatus PROVE HostType' /\ UnitType'
    OBVIOUS
  <1>1. UnitType'
    BY UnitUnchanged DEF ReadStatus
  <1>2. UNCHANGED <<job, step, presses, files, waived>>
    BY DEF ReadStatus
  <1>3. CASE \E message \in Told : Finish(message) /\ UNCHANGED <<line, replies>>
    BY <1>1, <1>2, <1>3, FinishType DEF HostType
  <1>4. CASE Goto("confirm") /\ Issue(Confirm) /\ UNCHANGED <<told, outer>>
    BY <1>1, <1>2, <1>4, GotoType, IssueType, Requests DEF HostType, Stage
  <1>5. CASE Goto("identity") /\ UNCHANGED <<told, outer, line, replies>>
    BY <1>1, <1>2, <1>5, GotoType DEF HostType, Stage
  <1> QED BY <1>3, <1>4, <1>5, ReadStatusSteps

LEMMA RestoreType == HostType /\ UnitType /\ Restore => HostType' /\ UnitType'
  <1> SUFFICES ASSUME HostType, UnitType, Restore PROVE HostType' /\ UnitType'
    OBVIOUS
  <1>1. frame \in Frame /\ outer \in Frame /\ frame.backup \in Conf /\ outer.backup \in Conf
    BY DEF HostType, Frame
  <1>2. UNCHANGED <<job, step, told, presses, files, waived, line, replies, imageVars, cuts>>
    BY DEF Restore
  <1>3. /\ frame' \in Frame /\ outer' \in Frame
        /\ conf' \in Conf /\ confFor' \in Image
    <2>1. conf \in Conf /\ confFor \in Image /\ runs \in Image
      BY DEF UnitType
    <2>2. "part" \in Conf /\ {"stored", "failed"} \subseteq {"no", "open", "stored", "failed"}
      BY DEF Conf
    <2>3. CASE \E f \in {frame, outer} : Clear(f)
      BY <1>1, <2>1, <2>2, <2>3 DEF Clear
    <2>4. CASE Store(frame) /\ frame' = [frame EXCEPT !.send = "stored"] /\ UNCHANGED outer
      BY <1>1, <2>1, <2>2, <2>4, FrameFacts DEF Store
    <2>5. CASE Store(outer) /\ outer' = [outer EXCEPT !.send = "stored"] /\ UNCHANGED frame
      BY <1>1, <2>1, <2>2, <2>5, FrameFacts DEF Store
    <2>6. CASE frame' = Broken(frame) /\ UNCHANGED <<outer, confVars>>
      BY <1>1, <2>1, <2>6, BrokenFacts DEF confVars
    <2>7. CASE outer' = Broken(outer) /\ UNCHANGED <<frame, confVars>>
      BY <1>1, <2>1, <2>7, BrokenFacts DEF confVars
    <2> QED BY <2>3, <2>4, <2>5, <2>6, <2>7 DEF Restore
  <1> QED BY <1>2, <1>3 DEF HostType, UnitType, imageVars

LEMMA TakeType == HostType /\ UnitType /\ Take => HostType' /\ UnitType'
  <1> SUFFICES ASSUME HostType, UnitType, Take PROVE HostType' /\ UnitType'
    OBVIOUS
  <1>1. UNCHANGED hostVars /\ UNCHANGED <<line, runs, prev, result, confVars, cuts>>
    BY DEF Take
  <1>2. /\ \E verdict \in {"ok", "refused"} : Reply(verdict)
        /\ up' = up /\ armed' \in BOOLEAN
        /\ staged' \in 0 .. NoSession /\ trial' \in 0 .. MaxStarts
    <2>1. staged \in 0 .. NoSession /\ trial \in 0 .. MaxStarts /\ armed \in BOOLEAN
      BY DEF UnitType
    <2>2. 0 \in 0 .. NoSession /\ 0 \in 0 .. MaxStarts /\ 1 .. Chunks \subseteq 0 .. NoSession
      BY Sizes DEF Sizes, NoSession
    <2>3. CASE TakeBegin
      BY <2>1, <2>2, <2>3 DEF TakeBegin
    <2>4. CASE TakeData
      BY <2>1, <2>2, <2>4 DEF TakeData
    <2>5. CASE TakeEnd
      BY <2>1, <2>5 DEF TakeEnd
    <2>6. CASE TakeConfirm
      BY <2>1, <2>2, <2>6 DEF TakeConfirm
    <2> QED BY <2>3, <2>4, <2>5, <2>6 DEF Take
  <1>3. replies' \subseteq {"ok", "refused"}
    BY <1>2 DEF Reply, HostType
  <1>4. HostType'
    BY <1>1, <1>3 DEF HostType, hostVars
  <1>5. UnitType'
    BY <1>1, <1>2 DEF UnitType, confVars
  <1> QED BY <1>4, <1>5

LEMMA GoDownType ==
    ASSUME HostType, UnitType, GoDown, cuts' \in 0 .. MaxCuts,
           replies' \subseteq {"ok", "refused"}
    PROVE  HostType' /\ UnitType'
  <1>1. frame' \in Frame /\ outer' \in Frame /\ line' \subseteq Request
    BY BrokenFacts, Requests DEF HostType, GoDown
  <1>2. HostType'
    BY <1>1 DEF HostType, GoDown
  <1>3. UnitType'
    BY Requests DEF UnitType, GoDown, confVars
  <1> QED BY <1>2, <1>3

LEMMA DownType ==
    HostType /\ UnitType /\ (TakeReset \/ PowerCut \/ Watchdog) => HostType' /\ UnitType'
  <1> SUFFICES ASSUME HostType, UnitType, TakeReset \/ PowerCut \/ Watchdog
               PROVE  HostType' /\ UnitType'
    OBVIOUS
  <1>1. GoDown
    BY DEF TakeReset, PowerCut, Watchdog
  <1>2. replies' \subseteq {"ok", "refused"}
    BY DEF TakeReset, PowerCut, Watchdog, Reply, HostType
  <1>3. cuts' \in 0 .. MaxCuts
    <2>1. cuts \in 0 .. MaxCuts
      BY DEF UnitType
    <2>2. cuts' = cuts \/ (cuts < MaxCuts /\ cuts' = cuts + 1)
      BY DEF TakeReset, PowerCut, Watchdog
    <2> QED BY <2>1, <2>2, Sizes DEF Sizes
  <1> QED BY <1>1, <1>2, <1>3, GoDownType

\* What a start does to the image.
LEMMA StartSteps ==
    ASSUME Start
    PROVE  /\ up' = TRUE /\ MeetConfiguration(runs')
           /\ UNCHANGED <<hostVars, line, replies, staged, cuts>>
           /\ \/ armed /\ armed' = FALSE /\ runs' = "new" /\ prev' = runs /\ result' = "ok"
                 /\ trial' \in {0, 1}
              \/ armed /\ armed' = FALSE /\ result' = "failed" /\ UNCHANGED <<runs, prev, trial>>
              \/ ~armed /\ trial = MaxStarts /\ runs' = prev /\ result' = "rolled back"
                 /\ trial' = 0 /\ UNCHANGED <<prev, armed>>
              \/ ~armed /\ trial # MaxStarts /\ trial' = (IF trial > 0 THEN trial + 1 ELSE 0)
                 /\ UNCHANGED <<runs, prev, armed, result>>
  BY DEF Start, GivenUp

LEMMA StartType == HostType /\ UnitType /\ Start => HostType' /\ UnitType'
  <1> SUFFICES ASSUME HostType, UnitType, Start PROVE HostType' /\ UnitType'
    OBVIOUS
  <1>1. HostType'
    BY StartSteps DEF HostType, hostVars
  <1>2. trial' \in 0 .. MaxStarts
    <2>1. trial \in 0 .. MaxStarts
      BY DEF UnitType
    <2>2. \/ trial' \in {0, 1} \/ trial' = trial
          \/ trial # MaxStarts /\ trial' = (IF trial > 0 THEN trial + 1 ELSE 0)
      BY StartSteps
    <2> QED BY <2>1, <2>2, Sizes DEF Sizes
  <1>3. runs' \in Image /\ prev' \in Image /\ armed' \in BOOLEAN
        /\ result' \in {"none", "ok", "failed", "rolled back"}
    BY StartSteps DEF UnitType, Image
  <1>4. conf' \in Conf /\ confFor' \in Image
    BY StartSteps DEF MeetConfiguration, UnitType, confVars, Conf
  <1>5. UnitType'
    BY <1>2, <1>3, <1>4, StartSteps DEF UnitType
  <1> QED BY <1>1, <1>5

LEMMA SettleType == HostType /\ UnitType /\ Settle => HostType' /\ UnitType'
  <1> SUFFICES ASSUME HostType, UnitType, Settle PROVE HostType' /\ UnitType'
    OBVIOUS
  <1>1. HostType'
    BY DEF Settle, HostType, hostVars
  <1>2. trial' \in 0 .. MaxStarts
    <2>1. trial' = 0
      BY DEF Settle
    <2> QED BY <2>1, Sizes DEF Sizes
  <1>3. UnitType'
    BY <1>2 DEF Settle, UnitType, confVars
  <1> QED BY <1>1, <1>3

LEMMA StepType == TypeOK /\ [Next]_vars => TypeOK'
  <1> SUFFICES ASSUME HostType, UnitType, [Next]_vars PROVE HostType' /\ UnitType'
    BY TypeParts DEF TypeOK, HostType, UnitType
  <1>1. CASE Press
    BY <1>1, PressType
  <1>2. CASE ReadBefore
    BY <1>2, ReadBeforeType
  <1>3. CASE Backup
    BY <1>3, BackupType
  <1>4. CASE UploadAnswered
    BY <1>4, UploadAnsweredType
  <1>5. CASE AfterRestart
    BY <1>5, AfterRestartType
  <1>6. CASE ReadStatus
    BY <1>6, ReadStatusType
  <1>7. CASE Restore
    BY <1>7, RestoreType
  <1>8. CASE Take
    BY <1>8, TakeType
  <1>9. CASE TakeReset \/ PowerCut \/ Watchdog
    BY <1>9, DownType
  <1>10. CASE Start
    BY <1>10, StartType
  <1>11. CASE Settle
    BY <1>11, SettleType
  <1>12. CASE UNCHANGED vars
    BY <1>12 DEF HostType, UnitType, vars, hostVars, imageVars, confVars
  <1> QED
    BY <1>1, <1>2, <1>3, <1>4, <1>5, <1>6, <1>7, <1>8, <1>9, <1>10, <1>11, <1>12
    DEF Next, Dialog, Unit, AfterRestart

\* Every variable keeps its type, whatever the image's size and however often the
\* window's button is pressed and the power fails.
THEOREM TypeCorrect == Spec => []TypeOK
  BY InitType, StepType, PTL DEF Spec

-----------------------------------------------------------------------------
(* The invariant behind the promise *)

LEMMA InitPromiseInv == Init => PromiseInv
  <1> SUFFICES ASSUME Init PROVE PromiseInv
    OBVIOUS
  <1>1. ~Safe => Early
    BY IdleIsFrame DEF Init, Safe, NothingOwed, Early
  <1>2. BackupIsInAFile(frame) /\ BackupIsInAFile(outer) /\ TrialIsNew
    <2>1. trial = 0 /\ runs = "old" /\ frame = Idle /\ outer = Idle
      BY DEF Init
    <2>2. frame.backup = "none" /\ outer.backup = "none"
      BY <2>1, IdleIsFrame
    <2>3. TrialIsNew
      BY <2>1 DEF TrialIsNew
    <2> QED BY <2>2, <2>3 DEF BackupIsInAFile
  <1> QED BY <1>1, <1>2, InitType DEF PromiseInv

\* A file is never deleted, and a waiver never taken back.
LEMMA SafeIsStable ==
    ASSUME PromiseInv, [Next]_vars
    PROVE  files \subseteq files' /\ (Safe => Safe')
  <1>1. /\ job' = job /\ files \subseteq files'
        /\ waived' = waived \/ waived' = (waived \/ ~frame.keep)
    <2>1. CASE Press
      BY <2>1 DEF Press
    <2>2. CASE ReadBefore
      BY <2>2 DEF ReadBefore
    <2>3. CASE Backup
      BY <2>3 DEF Backup, BackupFails, BackupDone
    <2>4. CASE UploadAnswered
      BY <2>4 DEF UploadAnswered
    <2>5. CASE AfterRestart
      BY <2>5, AfterRestartSteps DEF hostOnly
    <2>6. CASE ReadStatus
      BY <2>6 DEF ReadStatus
    <2>7. CASE Restore
      BY <2>7 DEF Restore
    <2>8. CASE Unit
      BY <2>8 DEF Unit, Take, TakeReset, PowerCut, Watchdog, GoDown, Start, Settle, hostVars
    <2>9. CASE UNCHANGED vars
      BY <2>9 DEF vars, hostVars
    <2> QED
      BY <2>1, <2>2, <2>3, <2>4, <2>5, <2>6, <2>7, <2>8, <2>9 DEF Next, Dialog, AfterRestart
  <1>2. NothingOwed => NothingOwed'
    BY <1>1 DEF NothingOwed
  <1> QED BY <1>1, <1>2 DEF Safe

LEMMA TrialStep == PromiseInv /\ [Next]_vars => TrialIsNew'
  <1> SUFFICES ASSUME PromiseInv, [Next]_vars PROVE TrialIsNew'
    OBVIOUS
  <1>0. TrialIsNew /\ trial \in Nat
    <2>1. TrialIsNew /\ trial \in 0 .. MaxStarts
      BY DEF PromiseInv, TypeOK
    <2> QED BY <2>1, Sizes DEF Sizes
  <1>1. CASE UNCHANGED <<runs, trial>>
    BY <1>0, <1>1 DEF TrialIsNew
  <1>2. CASE trial' = 0
    BY <1>2 DEF TrialIsNew
  <1>3. CASE Start
    <2>1. \/ runs' = "new" \/ UNCHANGED <<runs, trial>> \/ trial' = 0
          \/ runs' = runs /\ trial > 0
      BY <1>3, StartSteps
    <2> QED BY <1>0, <2>1, <1>1, <1>2 DEF TrialIsNew
  <1>4. CASE Press \/ Dialog \/ Restore
    BY <1>1, <1>4 DEF Press, Dialog, ReadBefore, Backup, UploadAnswered, Return, ReadStatus,
       ConfirmAnswered, ReadIdentity, SayInstalled, SayGone, OfferRestore, RestoreEnds, Restore,
       hostOnly, imageVars
  <1>5. CASE Take
    BY <1>1, <1>2, <1>5 DEF Take, TakeBegin, TakeData, TakeEnd, TakeConfirm
  <1>6. CASE TakeReset \/ PowerCut \/ Watchdog
    BY <1>1, <1>6 DEF TakeReset, PowerCut, Watchdog, GoDown
  <1>7. CASE Settle
    BY <1>2, <1>7 DEF Settle
  <1>8. CASE UNCHANGED vars
    BY <1>1, <1>8 DEF vars, imageVars
  <1> QED BY <1>3, <1>4, <1>5, <1>6, <1>7, <1>8 DEF Next, Unit

\* The backups of the two frames stay in a file: they change places, are read from
\* the unit into a file, or are begun without.
LEMMA BackupStep ==
    PromiseInv /\ [Next]_vars => BackupIsInAFile(frame)' /\ BackupIsInAFile(outer)'
  <1> SUFFICES ASSUME PromiseInv, [Next]_vars
               PROVE  BackupIsInAFile(frame)' /\ BackupIsInAFile(outer)'
    OBVIOUS
  <1> DEFINE Backups == {frame.backup, outer.backup, "none"}
  <1>0. /\ BackupIsInAFile(frame) /\ BackupIsInAFile(outer)
        /\ frame \in Frame /\ outer \in Frame
    BY DEF PromiseInv, TypeOK
  <1>1. files \subseteq files'
    BY SafeIsStable
  <1>2. ASSUME frame'.backup \in Backups, outer'.backup \in Backups
        PROVE  BackupIsInAFile(frame)' /\ BackupIsInAFile(outer)'
    BY <1>0, <1>1, <1>2 DEF BackupIsInAFile
  <1>3. CASE UNCHANGED <<frame, outer>>
    BY <1>2, <1>3
  <1>4. ASSUME NEW message, Finish(message)
        PROVE  frame'.backup \in Backups /\ outer'.backup \in Backups
    BY <1>4, IdleIsFrame DEF Finish
  <1>5. CASE Press
    <2>1. outer' = frame /\ \E b \in BOOLEAN : frame' = [Idle EXCEPT !.at = "before", !.keep = b]
      BY <1>5 DEF Press
    <2>2. frame'.backup = "none"
      BY <2>1 DEF Idle
    <2> QED BY <1>2, <2>1, <2>2
  <1>6. CASE ReadBefore
    <2>1. outer' = outer /\ frame'.backup = frame.backup
      BY <1>0, <1>6 DEF ReadBefore, StartUpload, Frame
    <2> QED BY <1>2, <2>1
  <1>7. CASE Backup
    <2>1. CASE BackupFails
      BY <1>2, <1>4, <2>1 DEF BackupFails
    <2>2. CASE BackupDone
      BY <1>0, <1>1, <2>2 DEF BackupDone, StartUpload, Frame, BackupIsInAFile
    <2> QED BY <1>7, <2>1, <2>2 DEF Backup
  <1>8. CASE UploadAnswered
    <2>1. CASE UploadFails
      BY <1>2, <1>4, <2>1 DEF UploadFails
    <2>2. CASE UploadGoesOn
      <3>1. frame'.backup = frame.backup /\ outer'.backup = outer.backup
        BY <1>0, <2>2, BrokenFacts DEF UploadGoesOn, CarryOn, Goto, Frame
      <3> QED BY <1>2, <3>1
    <2> QED BY <1>8, <2>1, <2>2 DEF UploadAnswered
  <1>9. CASE AfterRestart
    <2>1. CASE \E message \in Told : Finish(message)
      BY <1>2, <1>4, <2>1
    <2>2. CASE outer' = outer /\ \E stage \in Stage : Goto(stage)
      BY <1>0, <1>2, <2>2 DEF Goto, Frame
    <2>3. CASE outer' = outer /\ frame' = [frame EXCEPT !.at = "restore", !.send = "open"]
      BY <1>0, <1>2, <2>3 DEF Frame
    <2> QED BY <1>9, <2>1, <2>2, <2>3, AfterRestartSteps
  <1>10. CASE ReadStatus
    <2>1. CASE \E message \in Told : Finish(message)
      BY <1>2, <1>4, <2>1
    <2>2. CASE outer' = outer /\ (Goto("confirm") \/ Goto("identity"))
      BY <1>0, <1>2, <2>2 DEF Goto, Frame
    <2> QED BY <1>10, <2>1, <2>2, ReadStatusSteps
  <1>11. CASE Restore
    <2>1. frame'.backup = frame.backup /\ outer'.backup = outer.backup
      BY <1>0, <1>11, BrokenFacts DEF Restore, Clear, Frame
    <2> QED BY <1>2, <2>1
  <1>12. CASE TakeReset \/ PowerCut \/ Watchdog
    BY <1>0, <1>2, <1>12, BrokenFacts DEF TakeReset, PowerCut, Watchdog, GoDown
  <1>13. CASE Take \/ Start \/ Settle
    BY <1>3, <1>13 DEF Take, Start, Settle, hostVars
  <1>14. CASE UNCHANGED vars
    BY <1>3, <1>14 DEF vars, hostVars
  <1> QED
    BY <1>5, <1>6, <1>7, <1>8, <1>9, <1>10, <1>11, <1>12, <1>13, <1>14
    DEF Next, Dialog, Unit, AfterRestart

\* Until the configuration is safe, a step keeps the unit as it was and the update
\* before its upload, or makes it safe.
LEMMA EarlyStep == PromiseInv /\ [Next]_vars => (~Safe' => Early')
  <1> SUFFICES ASSUME PromiseInv, [Next]_vars, ~Safe' PROVE Early'
    OBVIOUS
  <1>0. /\ ~Safe /\ Early /\ job.listed /\ frame \in Frame /\ outer \in Frame
        /\ trial \in 0 .. MaxStarts
    BY SafeIsStable DEF PromiseInv, TypeOK, Safe, NothingOwed
  <1> DEFINE UnitAsItWas == UNCHANGED <<armed, trial, runs, prev, conf, confFor>>
  <1>1. ASSUME UnitAsItWas, line' = {},
               frame'.at \in {"idle", "before", "backup"}, frame'.send = "no",
               outer'.at = "idle", outer'.send = "no"
        PROVE  Early'
    BY <1>0, <1>1 DEF Early
  <1>2. CASE Press
    <2>1. /\ UnitAsItWas /\ line' = {} /\ outer' = frame /\ frame.at = "idle"
          /\ \E b \in BOOLEAN : frame' = [Idle EXCEPT !.at = "before", !.keep = b]
      BY <1>0, <1>2 DEF Press, Early, imageVars, confVars
    <2>2. frame'.at = "before" /\ frame'.send = "no"
      BY <2>1 DEF Idle
    <2> QED BY <1>0, <1>1, <2>1, <2>2 DEF Early
  <1>3. CASE ReadBefore
    <2>1. frame.keep
      BY <1>3 DEF ReadBefore, Safe, NothingOwed
    <2>2. UnitAsItWas /\ line' = {} /\ outer' = outer
      BY <1>0, <1>3, <2>1 DEF ReadBefore, Early, imageVars, confVars
    <2>3. frame'.at = "backup" /\ frame'.send = frame.send
      BY <1>0, <1>3, <2>1 DEF ReadBefore, Frame
    <2> QED BY <1>0, <1>1, <2>2, <2>3 DEF Early
  <1>4. CASE Backup
    <2>1. ~BackupDone
      <3> SUFFICES ASSUME BackupDone PROVE FALSE
        OBVIOUS
      <3>1. conf = "mine" /\ ~DeviceEmpty
        BY <1>0 DEF Early, DeviceEmpty
      <3> QED BY <3>1 DEF BackupDone, Safe
    <2>2. /\ UnitAsItWas /\ line' = {}
          /\ frame' = outer /\ outer' = Idle
      BY <1>0, <1>4, <2>1 DEF Backup, BackupFails, Finish, Early, imageVars, confVars
    <2> QED BY <1>0, <1>1, <2>2, IdleIsFrame DEF Early
  <1>5. CASE UploadAnswered \/ AfterRestart \/ ReadStatus
    <2>1. frame.at \notin {"idle", "before", "backup"}
      BY <1>5 DEF UploadAnswered, AfterRestart, Return, ConfirmAnswered, ReadIdentity,
                  SayInstalled, SayGone, OfferRestore, Offers, RestoreEnds, ReadStatus
    <2> QED BY <1>0, <2>1 DEF Early
  <1>6. CASE Restore
    BY <1>0, <1>6 DEF Restore, Early
  <1>7. CASE Take
    BY <1>0, <1>7 DEF Take, TakeBegin, TakeData, TakeEnd, TakeConfirm, Early
  <1>8. CASE TakeReset \/ PowerCut \/ Watchdog
    <2>1. GoDown
      BY <1>8 DEF TakeReset, PowerCut, Watchdog
    <2>2. /\ UnitAsItWas /\ line' = {}
          /\ frame' = Broken(frame) /\ outer' = Broken(outer)
      BY <1>0, <2>1 DEF GoDown, Early, confVars
    <2> QED BY <1>0, <1>1, <2>2, BrokenFacts DEF Early
  <1>9. CASE Start
    <2>1. ~armed /\ trial = 0 /\ runs = "old" /\ confFor = "old" /\ prev = "old"
      BY <1>0 DEF Early
    <2>2. MeetConfiguration(runs') /\ UNCHANGED <<frame, outer, line>>
      BY <1>9 DEF Start, hostVars
    <2>3. trial' = 0 /\ UNCHANGED <<runs, prev, armed>>
      <3>1. trial # MaxStarts
        BY <2>1, Sizes DEF Sizes
      <3>2. trial' = (IF trial > 0 THEN trial + 1 ELSE 0) /\ UNCHANGED <<runs, prev, armed>>
        BY <1>9, <2>1, <3>1 DEF Start, GivenUp
      <3> QED BY <2>1, <3>2
    <2>4. UNCHANGED confVars
      BY <2>1, <2>2, <2>3 DEF MeetConfiguration
    <2>5. UnitAsItWas
      BY <2>1, <2>2, <2>3, <2>4 DEF confVars
    <2> QED BY <1>0, <1>1, <2>2, <2>5 DEF Early
  <1>10. CASE Settle
    BY <1>0, <1>10 DEF Settle, Early
  <1>11. CASE UNCHANGED vars
    BY <1>0, <1>1, <1>11 DEF vars, hostVars, imageVars, confVars, Early
  <1> QED
    BY <1>2, <1>3, <1>4, <1>5, <1>6, <1>7, <1>8, <1>9, <1>10, <1>11
    DEF Next, Dialog, Unit, AfterRestart

LEMMA PromiseInvStep == PromiseInv /\ [Next]_vars => PromiseInv'
  BY StepType, EarlyStep, BackupStep, TrialStep DEF PromiseInv

LEMMA PromiseInvariant == Spec => []PromiseInv
  BY InitPromiseInv, PromiseInvStep, PTL DEF Spec

-----------------------------------------------------------------------------
(* The refinement *)

LEMMA InitPromise == Init => Promise!Init
  <1> SUFFICES ASSUME Init PROVE Promise!Init
    OBVIOUS
  <1>1. /\ runs = "old" /\ armed = FALSE /\ files = {} /\ waived = FALSE
        /\ job \in Job /\ conf = (IF job.holds THEN "mine" ELSE "none")
    BY DEF Init
  <1>2. Places = IF job.holds THEN {"unit"} ELSE {}
    BY <1>1 DEF Places
  <1>3. NothingOwed \in BOOLEAN
    BY <1>1 DEF NothingOwed, Job
  <1>4. Places = {} => NothingOwed
    BY <1>2 DEF NothingOwed
  <1> QED BY <1>1, <1>2, <1>3, <1>4 DEF Promise!Init

\* A step that changes neither the image, the offer nor the configuration saves
\* it, waives it, or is none of the promise's business.
LEMMA QuietPromiseStep ==
    ASSUME PromiseInv, [Next]_vars, UNCHANGED <<job, runs, armed, conf>>,
           files' = files \union {conf} \/ files' = files,
           waived' = waived \/ (waived' = TRUE /\ files' = files)
    PROVE  [Promise!Next]_(Promise!vars)
  <1>1. CASE Places' = Places /\ waived' = waived
    BY <1>1 DEF Promise!vars, NothingOwed
  <1>2. CASE Places' # Places
    <2>1. conf = "mine" /\ Places' = Places \union {"file"} /\ "unit" \in Places
          /\ waived' = waived
      BY <1>2 DEF Places
    <2> QED BY <2>1 DEF Promise!Next, Promise!Save, NothingOwed
  <1>3. CASE Places' = Places /\ waived' = TRUE
    <2>1. NothingOwed' = TRUE
      BY <1>3 DEF NothingOwed
    <2> QED BY <1>3, <2>1 DEF Promise!Next, Promise!Waive
  <1> QED BY <1>1, <1>2, <1>3

\* The unit's configuration changes behind the backup only.
LEMMA ForgetPromise ==
    ASSUME PromiseInv, [Next]_vars, UNCHANGED <<job, files, waived>>,
           conf' # conf => Safe, conf' \in {conf, "none"}
    PROVE  Promise!MayForget
  <1>1. Places' = Places \/ Places' = Places \ {"unit"}
    BY DEF Places
  <1>2. Safe => "file" \in Places \/ NothingOwed
    BY DEF Safe, Places
  <1>3. conf' = conf => Places' = Places
    BY DEF Places
  <1> QED BY <1>1, <1>2, <1>3 DEF Promise!MayForget

LEMMA RestorePromise == PromiseInv /\ Restore => [Promise!Next]_(Promise!vars)
  <1> SUFFICES ASSUME PromiseInv, Restore PROVE [Promise!Next]_(Promise!vars)
    OBVIOUS
  <1>1. UNCHANGED <<job, files, waived, runs, armed>>
    BY DEF Restore, imageVars
  <1>2. NothingOwed' = NothingOwed
    BY <1>1 DEF NothingOwed
  <1>3. CASE conf' = conf
    <2>1. Places' = Places
      BY <1>1, <1>3 DEF Places
    <2> QED BY <1>1, <1>2, <2>1 DEF Promise!vars
  <1>4. CASE conf' # conf
    <2>1. Safe
      <3>1. frame.send = "open" \/ outer.send = "open"
        BY <1>4 DEF Restore, confVars
      <3> QED BY <3>1 DEF PromiseInv, Early
    <2>2. conf' = "mine" => "mine" \in files
      BY <1>4 DEF Restore, Clear, Store, PromiseInv, BackupIsInAFile, confVars
    <2>3. CASE "mine" \in files
      <3>1. "file" \in Places /\ Places' \in {{"file"}, {"unit", "file"}}
        BY <1>1, <2>3 DEF Places
      <3> QED BY <1>1, <1>2, <3>1 DEF Promise!Next, Promise!Restore, Promise!Place
    <2>4. CASE "mine" \notin files
      <3>1. NothingOwed /\ (Places' = Places \/ Places' = Places \ {"unit"})
        BY <1>1, <2>1, <2>2, <2>4 DEF Safe, Places
      <3>2. runs \in {"old", "new"}
        BY DEF PromiseInv, TypeOK, Image
      <3> QED BY <1>1, <1>2, <3>1, <3>2 DEF Promise!Next, Promise!Start, Promise!MayForget
    <2> QED BY <2>3, <2>4
  <1> QED BY <1>3, <1>4

LEMMA StartPromise == PromiseInv /\ [Next]_vars /\ Start => [Promise!Next]_(Promise!vars)
  <1> SUFFICES ASSUME PromiseInv, [Next]_vars, Start PROVE Promise!Start
    BY DEF Promise!Next
  <1>1. /\ UNCHANGED <<job, files, waived>>
        /\ conf' \in {conf, "none"} /\ (conf' # conf => confFor # runs')
    BY DEF Start, MeetConfiguration, hostVars, confVars
  <1>2. runs \in {"old", "new"} /\ prev \in {"old", "new"} /\ armed \in BOOLEAN
        /\ TrialIsNew
    BY DEF PromiseInv, TypeOK, Image
  <1>3. /\ armed' \in {FALSE, armed}
        /\ runs' = runs \/ (armed /\ runs' = "new") \/ (trial = MaxStarts /\ runs' = prev)
    BY <1>2 DEF Start, GivenUp
  <1>4. trial = MaxStarts => runs = "new"
    <2>1. MaxStarts > 0
      BY Sizes DEF Sizes
    <2> QED BY <1>2, <2>1 DEF TrialIsNew
  <1>5. conf' # conf => Safe
    <2>1. ~Safe => confFor = "old" /\ runs = "old" /\ ~armed /\ prev = "old"
      BY DEF PromiseInv, Early
    <2> QED BY <1>1, <1>3, <2>1
  <1>6. Promise!MayForget
    BY <1>1, <1>5, ForgetPromise
  <1>7. runs' \in {"old", "new"} /\ (runs' # runs => armed \/ runs = "new")
    BY <1>2, <1>3, <1>4
  <1>8. NothingOwed' = NothingOwed
    BY <1>1 DEF NothingOwed
  <1> QED BY <1>3, <1>6, <1>7, <1>8 DEF Promise!Start

LEMMA PromiseStep == PromiseInv /\ [Next]_vars => [Promise!Next]_(Promise!vars)
  <1> SUFFICES ASSUME PromiseInv, [Next]_vars PROVE [Promise!Next]_(Promise!vars)
    OBVIOUS
  <1>1. CASE Press \/ UploadAnswered \/ ReadStatus
    BY <1>1, QuietPromiseStep DEF Press, UploadAnswered, ReadStatus, imageVars, confVars
  <1>2. CASE ReadBefore
    <2>1. /\ UNCHANGED <<job, runs, armed, conf, files>>
          /\ waived' = waived \/ waived' = TRUE
      BY <1>2 DEF ReadBefore, imageVars, confVars, PromiseInv, TypeOK
    <2> QED BY <2>1, QuietPromiseStep
  <1>3. CASE Backup
    <2>1. /\ UNCHANGED <<job, runs, armed, conf, waived>>
          /\ files' = files \/ files' = files \union {conf}
      BY <1>3 DEF Backup, BackupFails, BackupDone, imageVars, confVars
    <2> QED BY <2>1, QuietPromiseStep
  <1>4. CASE AfterRestart
    BY <1>4, AfterRestartSteps, QuietPromiseStep DEF hostOnly, imageVars, confVars
  <1>5. CASE Restore
    BY <1>5, RestorePromise
  <1>6. CASE Take
    <2>1. UNCHANGED <<job, files, waived, runs, conf>> /\ armed' \in BOOLEAN
      BY <1>6 DEF Take, TakeBegin, TakeData, TakeEnd, TakeConfirm, hostVars, confVars,
                  PromiseInv, TypeOK
    <2>2. Places' = Places /\ NothingOwed' = NothingOwed
      BY <2>1 DEF Places, NothingOwed
    <2> QED BY <2>1, <2>2 DEF Promise!Next, Promise!Offer
  <1>7. CASE TakeReset \/ PowerCut \/ Watchdog
    BY <1>7, QuietPromiseStep DEF TakeReset, PowerCut, Watchdog, GoDown, confVars
  <1>8. CASE Start
    BY <1>8, StartPromise
  <1>9. CASE Settle
    BY <1>9, QuietPromiseStep DEF Settle, hostVars, confVars
  <1>10. CASE UNCHANGED vars
    BY <1>10, QuietPromiseStep DEF vars, hostVars, imageVars, confVars
  <1> QED
    BY <1>1, <1>2, <1>3, <1>4, <1>5, <1>6, <1>7, <1>8, <1>9, <1>10
    DEF Next, Dialog, Unit, AfterRestart

\* An update keeps its promise -- a running image is replaced only by one that was
\* sent whole, and the configuration is never lost to a user who wanted it kept --
\* through every lost answer, power cut and rollback.
THEOREM PromiseIsKept == Spec => KeepsPromise
  <1>1. Init => Promise!Init
    BY InitPromise
  <1>2. PromiseInv /\ [Next]_vars => [Promise!Next]_(Promise!vars)
    BY PromiseStep
  <1> QED BY <1>1, <1>2, PromiseInvariant, PTL DEF Spec, KeepsPromise, Promise!Spec

\* What the promise is for: somewhere, the configuration is kept.
THEOREM NeverLost == Spec => []Promise!Kept
  <1>1. PromiseInv => Promise!Kept
    BY DEF PromiseInv, Early, Safe, Places, Promise!Kept
  <1> QED BY <1>1, PromiseInvariant, PTL

-----------------------------------------------------------------------------
(***************************************************************************)
(* What the update window says of the unit is so, and what it offers fits, *)
(* for every size of image and any number of presses, power cuts and       *)
(* starts.                                                                 *)
(*                                                                         *)
(* A message outlives the states it was chosen in, so the invariant        *)
(* follows what can still reach the unit when it is shown: one request     *)
(* (OneRequest), and in the first update nothing that could have a second  *)
(* image installed (FirstUpdate).  An offer to restore outlives the read   *)
(* it goes by, so RestoreInv follows what may write a configuration.       *)
(***************************************************************************)

After == {"confirm", "identity", "there", "gone", "restore"}
SaysInstalled == {"intact", "empty", "no configuration", "restored"}

\* An update waits under another one only where the window is not busy.
OuterWaits == outer.at \in {"idle", "confirm", "there", "gone", "restore"}

OneRequest ==
    /\ \E request \in Request : line \subseteq {request}
    /\ frame.at = "upload" => line \subseteq {step}

\* The unit forgets an upload when it restarts.
DownForgets == ~up => staged = NoSession

\* BEGIN disarms the unit, and nothing arms it before END.
Disarmed ==
    frame.at = "upload" =>
        /\ step = Begin /\ "ok" \in replies => ~armed
        /\ step \in 1 .. Chunks => ~armed

BrokenStays ==
    told = "not installed" /\ step \in 1 .. Chunks /\ frame.at = "idle" =>
        ~armed /\ line \subseteq {step}

\* Before a second update, one image at most is armed, and once the unit has met
\* it no other can be.
FirstUpdate ==
    presses <= 1 =>
        /\ outer.at = "idle"
        /\ presses = 0 => frame.at = "idle"
        /\ (presses = 0 \/ frame.at \in {"before", "backup"}) =>
             result = "none" /\ ~armed /\ line = {}
        /\ (armed \/ result # "none") =>
             /\ \A request \in line : request > Chunks
             /\ frame.at = "upload" => step > Chunks
        /\ result # "none" => ~armed /\ staged # Chunks

\* The new image runs behind an installation only.
NewIsInstalled == runs = "new" => result # "none"

Known == runs = "new" \/ result = "rolled back" \/ (presses > 1 /\ result = "failed")

KnownAfter ==
    (frame.at \in After \/ outer.at \in After \/ told \in SaysInstalled) => Known

MessageInv ==
    /\ TypeOK
    /\ OuterWaits /\ OneRequest /\ DownForgets
    /\ Disarmed /\ BrokenStays
    /\ FirstUpdate /\ NewIsInstalled /\ KnownAfter

-----------------------------------------------------------------------------
LEMMA Sequence ==
    /\ Chunks \in Nat \ {0} /\ MaxPresses \in Nat
    /\ Begin = 0 /\ End = Chunks + 1 /\ Reset = Chunks + 2 /\ Confirm = Chunks + 3
    /\ NoSession = Chunks + 1
    /\ Request = 0 .. Chunks + 3
  BY Sizes DEF Sizes, Begin, End, Reset, Confirm, NoSession, Request

\* What TypeOK says of the frames and counters, without its sets of records.
LEMMA TypeFacts ==
    ASSUME TypeOK
    PROVE  /\ frame \in Frame /\ outer \in Frame
           /\ frame.at \in Stage /\ outer.at \in Stage
           /\ presses \in Nat /\ step \in 0 .. Chunks + 2 /\ staged \in 0 .. Chunks + 1
           /\ line \subseteq Request /\ armed \in BOOLEAN /\ up \in BOOLEAN
  <1>1. presses \in 0 .. MaxPresses /\ step \in 0 .. Reset /\ staged \in 0 .. NoSession
    BY DEF TypeOK
  <1>2. presses \in Nat /\ step \in 0 .. Chunks + 2 /\ staged \in 0 .. Chunks + 1
    BY <1>1, Sizes DEF Sizes, Reset, NoSession
  <1>3. frame \in Frame /\ outer \in Frame /\ line \subseteq Request
        /\ armed \in BOOLEAN /\ up \in BOOLEAN
    BY DEF TypeOK
  <1>4. frame.at \in Stage /\ outer.at \in Stage
    BY <1>3 DEF Frame
  <1> QED BY <1>2, <1>3, <1>4

\* No chunk is BEGIN, END, the restart or the confirmation.
LEMMA ChunksApart ==
    ASSUME NEW i \in 1 .. Chunks
    PROVE  i # Begin /\ i # End /\ i # Reset /\ i # Confirm
  BY Sizes DEF Sizes, Begin, End, Reset, Confirm

LEMMA RequestsApart ==
    /\ Begin # End /\ Begin # Reset /\ Begin # Confirm
    /\ End # Reset /\ End # Confirm /\ Reset # Confirm
  BY Sizes DEF Sizes, Begin, End, Reset, Confirm

LEMMA InitMessageInv == Init => MessageInv
  <1> SUFFICES ASSUME Init PROVE MessageInv
    OBVIOUS
  <1>1. frame.at = "idle" /\ outer.at = "idle"
    BY IdleIsFrame DEF Init
  <1>2. OuterWaits /\ OneRequest /\ DownForgets /\ Disarmed /\ BrokenStays
    BY <1>1, Requests DEF Init, OuterWaits, OneRequest, DownForgets, Disarmed, BrokenStays
  <1>3. FirstUpdate /\ NewIsInstalled /\ KnownAfter
    BY <1>1 DEF Init, FirstUpdate, NewIsInstalled, KnownAfter, After, SaysInstalled
  <1> QED BY <1>2, <1>3, InitType DEF MessageInv

-----------------------------------------------------------------------------
(* The dialog *)

\* A step of the dialog that sends nothing and says nothing keeps the invariant
\* when the frames stay out of an upload.
LEMMA QuietStep ==
    ASSUME MessageInv, TypeOK',
           UNCHANGED <<step, presses, up, runs, staged, armed, result>>,
           line' = line \/ line' = {}, outer'.at = outer.at, told' = told,
           frame'.at = frame.at \/ frame'.at \notin {"idle", "before", "backup", "upload"},
           frame.at = "idle" => frame'.at = "idle", frame'.at = "upload" => replies' = replies,
           frame'.at \in After => frame.at \in After \/ runs = "new"
    PROVE  MessageInv'
  <1>1. OuterWaits' /\ DownForgets' /\ NewIsInstalled'
    BY DEF MessageInv, OuterWaits, DownForgets, NewIsInstalled
  <1>2. OneRequest'
    BY DEF MessageInv, OneRequest
  <1>3. Disarmed' /\ BrokenStays'
    BY DEF MessageInv, Disarmed, BrokenStays
  <1>4. FirstUpdate'
    BY DEF MessageInv, FirstUpdate
  <1>5. KnownAfter'
    BY DEF MessageInv, KnownAfter, Known
  <1> QED BY <1>1, <1>2, <1>3, <1>4, <1>5 DEF MessageInv

\* The end of an update, with what it says.
LEMMA FinishStep ==
    ASSUME MessageInv, TypeOK',
           NEW message, Finish(message),
           UNCHANGED <<step, presses, line, imageVars>>,
           presses > 0,
           message = "not installed" /\ step \in 1 .. Chunks => frame.at = "upload",
           message \in SaysInstalled => frame.at \in After
    PROVE  MessageInv'
  <1>1. /\ frame'.at = outer.at /\ outer'.at = "idle" /\ told' = message
        /\ UNCHANGED <<up, runs, staged, armed, result>>
    BY IdleIsFrame DEF Finish, imageVars
  <1>2. OuterWaits' /\ DownForgets' /\ NewIsInstalled'
    BY <1>1 DEF MessageInv, OuterWaits, DownForgets, NewIsInstalled
  <1>3. OneRequest'
    BY <1>1 DEF MessageInv, OneRequest, OuterWaits
  <1>4. Disarmed' /\ BrokenStays'
    BY <1>1 DEF MessageInv, Disarmed, BrokenStays, OneRequest, OuterWaits
  <1>5. FirstUpdate'
    <2>1. presses \in Nat
      BY TypeFacts DEF MessageInv
    <2> QED BY <1>1, <2>1 DEF MessageInv, FirstUpdate
  <1>6. KnownAfter'
    BY <1>1 DEF MessageInv, KnownAfter, Known, After
  <1> QED BY <1>2, <1>3, <1>4, <1>5, <1>6 DEF MessageInv

LEMMA StartUploadStep ==
    ASSUME MessageInv, TypeOK', NEW f \in Frame, StartUpload(f),
           frame.at \in {"before", "backup"},
           UNCHANGED <<outer, told, presses, imageVars>>
    PROVE  MessageInv'
  <1>1. /\ frame'.at = "upload" /\ step' = 0 /\ line' = {0} /\ replies' = {}
        /\ UNCHANGED <<outer, told, presses, up, runs, staged, armed, result>>
    BY Sequence DEF StartUpload, Issue, Frame, imageVars
  <1>2. OuterWaits' /\ DownForgets' /\ NewIsInstalled'
    BY <1>1 DEF MessageInv, OuterWaits, DownForgets, NewIsInstalled
  <1>3. OneRequest'
    BY <1>1, Sequence DEF OneRequest
  <1>4. Disarmed' /\ BrokenStays'
    BY <1>1 DEF Disarmed, BrokenStays
  <1>5. FirstUpdate'
    BY <1>1 DEF MessageInv, FirstUpdate
  <1>6. KnownAfter'
    BY <1>1 DEF MessageInv, KnownAfter, Known, After
  <1> QED BY <1>2, <1>3, <1>4, <1>5, <1>6 DEF MessageInv

LEMMA PressStep == MessageInv /\ TypeOK' /\ Press => MessageInv'
  <1> SUFFICES ASSUME MessageInv, TypeOK', Press PROVE MessageInv'
    OBVIOUS
  <1>1. /\ frame'.at = "before" /\ outer'.at = frame.at /\ told' = "" /\ presses' = presses + 1
        /\ UNCHANGED <<step, line, replies, up, runs, staged, armed, result>>
        /\ frame.at \in {"idle", "confirm", "there", "gone", "restore"}
    BY DEF Press, Idle, imageVars
  <1>2. presses \in Nat
    BY TypeFacts DEF MessageInv
  <1>3. OuterWaits' /\ OneRequest' /\ DownForgets' /\ NewIsInstalled' /\ Disarmed' /\ BrokenStays'
    BY <1>1 DEF MessageInv, OuterWaits, OneRequest, DownForgets, NewIsInstalled, Disarmed,
                BrokenStays
  <1>4. (presses' <= 1 => presses = 0 /\ presses' # 0) /\ (presses > 1 => presses' > 1)
        /\ (presses = 0 => presses <= 1)
    <2>1. presses' = presses + 1
      BY <1>1
    <2> QED BY <1>2, <2>1
  <1>5. FirstUpdate'
    <2> SUFFICES ASSUME presses' <= 1 PROVE FirstUpdate'
      BY DEF FirstUpdate
    <2>1. presses = 0 /\ presses' # 0 /\ presses <= 1
      BY <1>4
    <2>2. /\ frame.at = "idle" /\ result = "none" /\ ~armed /\ line = {}
      BY <2>1 DEF MessageInv, FirstUpdate
    <2> QED BY <1>1, <2>1, <2>2 DEF FirstUpdate
  <1>6. KnownAfter'
    <2>1. Known => Known'
      BY <1>1, <1>4 DEF Known
    <2>2. outer'.at \in After => frame.at \in After
      BY <1>1
    <2>3. frame'.at \notin After /\ told' \notin SaysInstalled
      BY <1>1 DEF After, SaysInstalled
    <2> QED BY <2>1, <2>2, <2>3 DEF MessageInv, KnownAfter
  <1> QED BY <1>3, <1>5, <1>6 DEF MessageInv

LEMMA NotYetPressed == MessageInv /\ frame.at # "idle" => presses > 0
  BY TypeFacts DEF MessageInv, FirstUpdate

LEMMA ReadBeforeStep == MessageInv /\ TypeOK' /\ ReadBefore => MessageInv'
  <1> SUFFICES ASSUME MessageInv, TypeOK', ReadBefore PROVE MessageInv'
    OBVIOUS
  <1>1. PICK lost \in BOOLEAN :
            LET read == [frame EXCEPT !.had = lost \/ conf # "none"]
            IN  IF frame.keep
                THEN frame' = [read EXCEPT !.at = "backup"] /\ UNCHANGED <<step, line, replies>>
                ELSE StartUpload(read)
    BY DEF ReadBefore
  <1> DEFINE read == [frame EXCEPT !.had = lost \/ conf # "none"]
  <1>2. read \in Frame
    BY FrameFacts, TypeFacts DEF MessageInv
  <1> HIDE DEF read
  <1>3. frame.at = "before" /\ UNCHANGED <<outer, told, presses, imageVars>>
    BY DEF ReadBefore
  <1>4. CASE ~frame.keep
    <2>1. StartUpload(read)
      BY <1>1, <1>4 DEF read
    <2> QED BY <1>2, <1>3, <2>1, StartUploadStep
  <1>5. CASE frame.keep
    <2>1. /\ frame'.at = "backup"
          /\ UNCHANGED <<step, line, replies, outer, told, presses, up, runs, staged, armed,
                         result>>
      BY <1>1, <1>2, <1>3, <1>5 DEF read, Frame, imageVars
    <2>2. OuterWaits' /\ OneRequest' /\ DownForgets' /\ NewIsInstalled' /\ Disarmed'
          /\ BrokenStays'
      BY <2>1 DEF MessageInv, OuterWaits, OneRequest, DownForgets, NewIsInstalled, Disarmed,
                  BrokenStays
    <2>3. FirstUpdate'
      BY <1>3, <2>1 DEF MessageInv, FirstUpdate
    <2>4. KnownAfter'
      BY <2>1 DEF MessageInv, KnownAfter, Known, After
    <2> QED BY <2>2, <2>3, <2>4 DEF MessageInv
  <1> QED BY <1>4, <1>5

LEMMA BackupStepKeeps == MessageInv /\ TypeOK' /\ Backup => MessageInv'
  <1> SUFFICES ASSUME MessageInv, TypeOK', Backup PROVE MessageInv'
    OBVIOUS
  <1>1. frame.at = "backup" /\ UNCHANGED <<presses, imageVars>> /\ presses > 0
    BY NotYetPressed DEF Backup, BackupFails, BackupDone
  <1>2. CASE BackupFails
    <2>1. Finish("not started") /\ UNCHANGED <<step, line>>
      BY <1>2 DEF BackupFails
    <2> QED BY <1>1, <2>1, FinishStep DEF SaysInstalled
  <1>3. CASE BackupDone
    <2>1. frame \in Frame /\ [frame EXCEPT !.backup = conf] \in Frame
      BY FrameFacts DEF MessageInv, TypeOK
    <2>2. \E f \in Frame : StartUpload(f) /\ UNCHANGED <<told, outer>>
      BY <1>3, <2>1 DEF BackupDone
    <2> QED BY <1>1, <2>2, StartUploadStep
  <1> QED BY <1>2, <1>3 DEF Backup

LEMMA UploadStep == MessageInv /\ TypeOK' /\ UploadAnswered => MessageInv'
  <1> SUFFICES ASSUME MessageInv, TypeOK', UploadAnswered PROVE MessageInv'
    OBVIOUS
  <1>1. /\ frame.at = "upload" /\ UNCHANGED <<presses, imageVars>> /\ presses > 0
        /\ UNCHANGED <<up, runs, staged, armed, result>>
    BY NotYetPressed DEF UploadAnswered, imageVars
  <1>2. CASE UploadFails
    <2>1. PICK message \in {"no restart", "not installed"} : Finish(message)
      BY <1>2 DEF UploadFails
    <2>2. UNCHANGED <<step, line>>
      BY <1>2 DEF UploadFails
    <2> QED BY <1>1, <2>1, <2>2, FinishStep DEF SaysInstalled
  <1>3. CASE "ok" \in replies /\ UploadGoesOn /\ step = Reset
    <2>1. outer \in Frame /\ frame \in Frame
      BY TypeFacts DEF MessageInv
    <2>2. /\ frame'.at = "waiting" /\ outer'.at = outer.at /\ told' = told /\ step' = step
          /\ line' = {}
      BY <1>3, <2>1, BrokenFacts DEF UploadGoesOn, Goto, Frame
    <2> QED BY <1>1, <2>2, QuietStep DEF After
  <1>4. CASE "ok" \in replies /\ UploadGoesOn /\ step # Reset
    <2>1. /\ step' = step + 1 /\ line' = {step + 1} /\ replies' = {}
          /\ UNCHANGED <<frame, outer, told>>
      BY <1>4 DEF UploadGoesOn, CarryOn, Issue
    <2>2. step \in 0 .. Chunks + 1 /\ Chunks \in Nat
      BY <1>4, TypeFacts, Sequence DEF MessageInv
    <2>3. OuterWaits' /\ DownForgets' /\ NewIsInstalled'
      BY <1>1, <2>1 DEF MessageInv, OuterWaits, DownForgets, NewIsInstalled
    <2>4. OneRequest'
      BY <1>1, <2>1, <2>2, Sequence DEF OneRequest
    <2>5. Disarmed' /\ BrokenStays'
      <3>1. step' \in 1 .. Chunks => step = Begin \/ step \in 1 .. Chunks
        BY <2>1, <2>2, Sequence
      <3>2. step' # Begin
        BY <2>1, <2>2 DEF Begin
      <3>3. step' \in 1 .. Chunks => ~armed
        BY <1>1, <1>4, <3>1 DEF MessageInv, Disarmed
      <3> QED BY <1>1, <2>1, <3>2, <3>3 DEF Disarmed, BrokenStays
    <2>6. FirstUpdate'
      BY <1>1, <2>1, <2>2 DEF MessageInv, FirstUpdate
    <2>7. KnownAfter'
      BY <1>1, <2>1 DEF MessageInv, KnownAfter, Known
    <2> QED BY <2>3, <2>4, <2>5, <2>6, <2>7 DEF MessageInv
  <1> QED BY <1>2, <1>3, <1>4 DEF UploadAnswered

LEMMA AfterRestartStep == MessageInv /\ TypeOK' /\ AfterRestart => MessageInv'
  <1> SUFFICES ASSUME MessageInv, TypeOK', AfterRestart PROVE MessageInv'
    OBVIOUS
  <1>1. /\ UNCHANGED <<step, presses, line, replies, imageVars>>
        /\ UNCHANGED <<up, runs, staged, armed, result>>
        /\ frame \in Frame
    BY AfterRestartSteps, TypeFacts DEF hostOnly, imageVars, MessageInv
  <1>2. frame.at \notin {"idle", "before", "backup", "upload"}
    BY DEF AfterRestart, Return, ConfirmAnswered, ReadIdentity, SayInstalled, SayGone,
           OfferRestore, Offers, RestoreEnds
  <1>3. ASSUME NEW message, Finish(message), message # "not installed",
               message \in SaysInstalled => frame.at \in After
        PROVE  MessageInv'
    BY <1>1, <1>2, <1>3, FinishStep, NotYetPressed
  <1>4. ASSUME NEW stage, frame'.at = stage, UNCHANGED <<told, outer>>,
               stage \in {"status"} \/ (frame.at \in After /\ stage \in After)
        PROVE  MessageInv'
    BY <1>1, <1>2, <1>4, QuietStep DEF After
  <1>5. CASE Return
    <2>1. CASE Finish("no return")
      BY <1>3, <2>1 DEF SaysInstalled
    <2>2. CASE Goto("status") /\ UNCHANGED <<told, outer>>
      BY <1>1, <1>4, <2>2 DEF Goto, Frame
    <2> QED BY <1>5, <2>1, <2>2 DEF Return
  <1>6. CASE ConfirmAnswered
    BY <1>1, <1>4, <1>6 DEF ConfirmAnswered, Goto, Frame, After
  <1>7. CASE ReadIdentity
    BY <1>1, <1>4, <1>7 DEF ReadIdentity, Goto, Frame, After
  <1>8. CASE SayInstalled
    BY <1>3, <1>8 DEF SayInstalled, After
  <1>9. CASE SayGone
    BY <1>3, <1>9 DEF SayGone, After
  <1>10. CASE OfferRestore
    BY <1>1, <1>4, <1>10 DEF OfferRestore, Offers, Frame, After
  <1>11. CASE RestoreEnds
    BY <1>3, <1>11 DEF RestoreEnds, After, SaysInstalled
  <1> QED BY <1>5, <1>6, <1>7, <1>8, <1>9, <1>10, <1>11 DEF AfterRestart

LEMMA ReadStatusStep == MessageInv /\ TypeOK' /\ ReadStatus => MessageInv'
  <1> SUFFICES ASSUME MessageInv, TypeOK', ReadStatus PROVE MessageInv'
    OBVIOUS
  <1>1. /\ frame.at = "status" /\ UNCHANGED <<step, presses, imageVars>> /\ presses > 0
        /\ UNCHANGED <<up, runs, staged, armed, result>>
        /\ frame \in Frame
    BY NotYetPressed, TypeFacts DEF ReadStatus, imageVars, MessageInv
  <1>2. ASSUME NEW message \in {"rolled back", "still old", "no answer"}, Finish(message),
               line' = line
        PROVE  MessageInv'
    BY <1>1, <1>2, FinishStep DEF SaysInstalled
  <1>3. CASE Finish("no answer") /\ UNCHANGED <<line, replies>>
    BY <1>2, <1>3
  <1>4. CASE Judge /\ runs # "new"
    BY <1>2, <1>4 DEF Judge
  <1>5. CASE runs = "new" /\ Installed
    <2>1. CASE Goto("identity") /\ UNCHANGED <<told, outer, line, replies>>
      BY <1>1, <1>5, <2>1, QuietStep DEF Goto, Frame
    <2>2. CASE Goto("confirm") /\ Issue(Confirm) /\ UNCHANGED <<told, outer>>
      <3>1. frame'.at = "confirm" /\ line' = {Confirm} /\ UNCHANGED <<told, outer>>
        BY <1>1, <2>2 DEF Goto, Issue, Frame
      <3>2. OuterWaits' /\ DownForgets' /\ NewIsInstalled' /\ Disarmed' /\ BrokenStays'
        BY <1>1, <3>1 DEF MessageInv, OuterWaits, DownForgets, NewIsInstalled, Disarmed,
                          BrokenStays
      <3>3. OneRequest'
        BY <3>1, Requests DEF OneRequest
      <3>4. FirstUpdate'
        BY <1>1, <3>1, Sequence DEF MessageInv, FirstUpdate
      <3>5. KnownAfter'
        BY <1>1, <1>5 DEF KnownAfter, Known
      <3> QED BY <3>2, <3>3, <3>4, <3>5 DEF MessageInv
    <2> QED BY <1>5, <2>1, <2>2 DEF Installed
  <1> QED BY <1>3, <1>4, <1>5 DEF ReadStatus, Judge

\* A restore touches the configuration, which no message of these is about.
LEMMA RestoreStep == MessageInv /\ TypeOK' /\ Restore => MessageInv'
  <1> SUFFICES ASSUME MessageInv, TypeOK', Restore PROVE MessageInv'
    OBVIOUS
  <1>1. frame \in Frame /\ outer \in Frame
    BY TypeFacts DEF MessageInv
  <1>2. /\ frame'.at = frame.at /\ outer'.at = outer.at
        /\ UNCHANGED <<step, told, presses, line, replies, up, runs, staged, armed, result>>
    BY <1>1, BrokenFacts DEF Restore, Clear, Frame, imageVars
  <1> QED BY <1>2, QuietStep

-----------------------------------------------------------------------------
(* The unit *)

LEMMA TakeStep == MessageInv /\ TypeOK' /\ Take => MessageInv'
  <1> SUFFICES ASSUME MessageInv, TypeOK', Take PROVE MessageInv'
    OBVIOUS
  <1>1. /\ up
        /\ UNCHANGED <<frame, outer, step, told, presses, line, up, runs, result>>
    BY DEF Take, Answering, TakeBegin, TakeData, TakeEnd, TakeConfirm, hostVars
  <1>2. OuterWaits' /\ OneRequest' /\ DownForgets' /\ NewIsInstalled' /\ KnownAfter'
    BY <1>1 DEF MessageInv, OuterWaits, OneRequest, DownForgets, NewIsInstalled, KnownAfter,
                Known
  <1>3. /\ Chunks \in Nat \ {0} /\ step \in 0 .. Chunks + 2
        /\ OneRequest /\ Disarmed /\ BrokenStays /\ FirstUpdate
    BY Sequence, TypeFacts DEF MessageInv
  <1>4. CASE TakeBegin
    <2>1. 0 \in line /\ staged' = 0 /\ armed' = FALSE
      BY <1>4, Sequence DEF TakeBegin
    <2> QED BY <1>1, <1>2, <1>3, <2>1 DEF Disarmed, BrokenStays, FirstUpdate, MessageInv
  <1>5. CASE TakeData
    <2>1. /\ armed' = armed
          /\ \E chunk \in line : chunk \in 1 .. Chunks
      BY <1>5 DEF TakeData
    <2>2. Disarmed' /\ BrokenStays'
      <3>1. ~(step = Begin /\ line \subseteq {step})
        BY <2>1, ChunksApart
      <3> QED BY <1>1, <1>3, <2>1, <3>1 DEF OneRequest, Disarmed, BrokenStays
    <2>3. FirstUpdate'
      BY <1>1, <1>3, <2>1 DEF FirstUpdate
    <2> QED BY <1>2, <2>2, <2>3 DEF MessageInv
  <1>6. CASE TakeEnd
    <2>1. /\ End \in line /\ staged' = staged
          /\ armed' = armed \/ staged = Chunks
      BY <1>6 DEF TakeEnd
    <2>2. Disarmed' /\ BrokenStays'
      <3>1. line \subseteq {step} => step # Begin /\ step \notin 1 .. Chunks
        BY <2>1, ChunksApart, RequestsApart
      <3> QED BY <1>1, <1>3, <3>1 DEF OneRequest, Disarmed, BrokenStays
    <2>3. /\ \A request \in line : request > Chunks
          /\ frame.at = "upload" => step > Chunks
      <3>1. \A request \in line : request = End
        BY <1>3, <2>1 DEF OneRequest
      <3>2. frame.at = "upload" => step = End
        BY <1>3, <2>1 DEF OneRequest
      <3>3. End > Chunks
        BY Sizes DEF Sizes, End
      <3> QED BY <3>1, <3>2, <3>3
    <2>4. line # {}
      BY <2>1
    <2>5. FirstUpdate'
      BY <1>1, <1>3, <2>1, <2>3, <2>4 DEF FirstUpdate
    <2> QED BY <1>2, <2>2, <2>5 DEF MessageInv
  <1>7. CASE TakeConfirm
    <2>1. Confirm \in line /\ UNCHANGED <<staged, armed>>
      BY <1>7 DEF TakeConfirm
    <2>2. Disarmed' /\ BrokenStays'
      <3>1. line \subseteq {step} => step # Begin
        BY <2>1, RequestsApart
      <3> QED BY <1>1, <1>3, <2>1, <3>1 DEF OneRequest, Disarmed, BrokenStays
    <2>3. FirstUpdate'
      BY <1>1, <1>3, <2>1 DEF FirstUpdate
    <2> QED BY <1>2, <2>2, <2>3 DEF MessageInv
  <1> QED BY <1>4, <1>5, <1>6, <1>7 DEF Take

LEMMA DownStep == MessageInv /\ TypeOK' /\ (TakeReset \/ PowerCut \/ Watchdog) => MessageInv'
  <1> SUFFICES ASSUME MessageInv, TypeOK', TakeReset \/ PowerCut \/ Watchdog PROVE MessageInv'
    OBVIOUS
  <1>1. GoDown
    BY DEF TakeReset, PowerCut, Watchdog
  <1>2. /\ frame'.at = frame.at /\ outer'.at = outer.at
        /\ UNCHANGED <<step, told, presses, runs, armed, result>>
        /\ staged' = Chunks + 1 /\ up' = FALSE /\ line' \subseteq line
    <2>1. frame \in Frame /\ outer \in Frame
      BY TypeFacts DEF MessageInv
    <2> QED BY <1>1, <2>1, BrokenFacts, Sequence DEF GoDown
  <1>3. replies' = replies \/ Reset \in line
    BY DEF TakeReset, PowerCut, Watchdog
  <1>4. OuterWaits' /\ DownForgets' /\ NewIsInstalled' /\ KnownAfter'
    BY <1>2, Sequence DEF MessageInv, OuterWaits, DownForgets, NewIsInstalled, KnownAfter, Known
  <1>5. OneRequest'
    BY <1>2 DEF MessageInv, OneRequest
  <1>6. Disarmed' /\ BrokenStays'
    <2>1. line \subseteq {step} /\ step = Begin => replies' = replies
      BY <1>3, RequestsApart
    <2>2. OneRequest /\ Disarmed /\ BrokenStays
      BY DEF MessageInv
    <2>3. Disarmed'
      BY <1>2, <2>1, <2>2 DEF OneRequest, Disarmed
    <2>4. BrokenStays'
      BY <1>2, <2>2 DEF BrokenStays
    <2> QED BY <2>3, <2>4
  <1>7. FirstUpdate'
    BY <1>2, Sequence DEF MessageInv, FirstUpdate
  <1> QED BY <1>4, <1>5, <1>6, <1>7 DEF MessageInv

\* A start meets the armed image at most once in a first update, and goes back
\* from an image it has installed (TrialIsNew) only.
LEMMA StartStep == MessageInv /\ TypeOK' /\ TrialIsNew /\ Start => MessageInv'
  <1> SUFFICES ASSUME MessageInv, TypeOK', TrialIsNew, Start PROVE MessageInv'
    OBVIOUS
  <1>1. /\ UNCHANGED <<frame, outer, step, told, presses, line, replies, staged>>
        /\ up' = TRUE
        /\ \/ armed /\ armed' = FALSE /\ runs' = "new" /\ result' = "ok"
           \/ armed /\ armed' = FALSE /\ result' = "failed" /\ runs' = runs
           \/ ~armed /\ trial = MaxStarts /\ result' = "rolled back" /\ armed' = armed
           \/ UNCHANGED <<runs, result, armed>>
    BY StartSteps DEF hostVars
  <1>0. armed' => armed
    BY StartSteps
  <1>2. staged = Chunks + 1 /\ presses \in Nat /\ Chunks \in Nat
    BY Sequence, TypeFacts DEF MessageInv, DownForgets, Start
  <1>3. trial = MaxStarts => result # "none"
    <2>1. MaxStarts > 0
      BY Sizes DEF Sizes
    <2> QED BY <2>1 DEF MessageInv, TrialIsNew, NewIsInstalled
  <1>4. OuterWaits' /\ OneRequest' /\ DownForgets' /\ Disarmed' /\ BrokenStays'
    BY <1>0, <1>1 DEF MessageInv, OuterWaits, OneRequest, DownForgets, Disarmed, BrokenStays
  <1>5. NewIsInstalled'
    BY <1>1 DEF MessageInv, NewIsInstalled
  <1>6. Known => Known'
    <2>1. presses <= 1 \/ presses > 1
      BY <1>2
    <2>2. presses <= 1 => ~(armed /\ Known)
      <3>1. Known => result # "none" \/ presses > 1
        BY DEF MessageInv, NewIsInstalled, Known
      <3>2. presses <= 1 => ~(presses > 1)
        BY <1>2
      <3> QED BY <3>1, <3>2 DEF MessageInv, FirstUpdate
    <2> QED BY <1>1, <2>1, <2>2 DEF Known
  <1>7. KnownAfter'
    BY <1>1, <1>6 DEF MessageInv, KnownAfter
  <1>8. FirstUpdate'
    <2>1. staged # Chunks
      BY <1>2
    <2>2. result' # "none" => result # "none" \/ (armed /\ ~armed')
      BY <1>1, <1>3
    <2>3. result # "none" => result' # "none"
      BY <1>1
    <2> QED BY <1>0, <1>1, <1>3, <2>1, <2>2, <2>3 DEF MessageInv, FirstUpdate
  <1> QED BY <1>4, <1>5, <1>7, <1>8 DEF MessageInv

LEMMA SettleStep == MessageInv /\ TypeOK' /\ Settle => MessageInv'
  <1> SUFFICES ASSUME MessageInv, TypeOK', Settle PROVE MessageInv'
    OBVIOUS
  <1>1. UNCHANGED <<frame, outer, step, told, presses, line, replies, up, runs, staged, armed,
                    result>>
    BY DEF Settle, hostVars
  <1> QED BY <1>1, QuietStep

LEMMA MessageStep == MessageInv /\ PromiseInv /\ [Next]_vars => MessageInv'
  <1> SUFFICES ASSUME MessageInv, PromiseInv, [Next]_vars PROVE MessageInv'
    OBVIOUS
  <1>1. TypeOK' /\ TrialIsNew
    BY StepType DEF MessageInv, PromiseInv
  <1>2. CASE UNCHANGED vars
    <2>1. UNCHANGED <<frame, outer, step, told, presses, line, replies, up, runs, staged, armed,
                      result>>
      BY <1>2 DEF vars, hostVars, imageVars
    <2> QED BY <1>1, <2>1, QuietStep
  <1> QED
    BY <1>1, <1>2, PressStep, ReadBeforeStep, BackupStepKeeps, UploadStep, AfterRestartStep,
       ReadStatusStep, RestoreStep, TakeStep, DownStep, StartStep, SettleStep
    DEF Next, Dialog, Unit, AfterRestart

LEMMA MessageInvariant == Spec => []MessageInv
  BY InitMessageInv, MessageStep, PromiseInvariant, PTL DEF Spec

-----------------------------------------------------------------------------
(* What the window offers *)

\* A Send belongs to a restore.
SendsInARestore(f) == f.at # "restore" => f.send = "no"

\* Whoever waits to offer a restore waits over an empty unit: the Send of an
\* update underneath broke at the restart, and a second update finds nothing on
\* the unit to back up.
RestoreInv ==
    /\ SendsInARestore(frame) /\ SendsInARestore(outer)
    /\ frame.at \in {"waiting", "status", "restore"} \union After => outer.send # "open"
    /\ outer.at = "gone" => frame.backup = "none" /\ frame.send = "no"
    /\ frame.at = "gone" \/ outer.at = "gone" => conf = "none"

LEMMA InitRestoreInv == Init => RestoreInv
  <1> SUFFICES ASSUME Init PROVE RestoreInv
    OBVIOUS
  <1>1. /\ frame.at = "idle" /\ outer.at = "idle"
        /\ frame.send = "no" /\ outer.send = "no"
    BY IdleIsFrame DEF Init
  <1> QED BY <1>1 DEF RestoreInv, SendsInARestore, After

\* Both frames stay as they were, or at most lose their Sends, and the unit at most
\* its configuration.
LEMMA StillRestoreInv ==
    ASSUME MessageInv, RestoreInv,
           conf' \in {conf, "none"},
           UNCHANGED <<frame, outer>>
             \/ (frame' = Broken(frame) /\ outer' = Broken(outer))
    PROVE  RestoreInv'
  <1>1. frame \in Frame /\ outer \in Frame
    BY TypeFacts DEF MessageInv
  <1>2. /\ frame'.at = frame.at /\ frame'.backup = frame.backup
        /\ outer'.at = outer.at
        /\ frame.send = "no" => frame'.send = "no"
        /\ outer.send = "no" => outer'.send = "no"
        /\ outer.send # "open" => outer'.send # "open"
    BY <1>1, BrokenFacts DEF Broken, Frame
  <1> QED BY <1>2 DEF RestoreInv, SendsInARestore

\* The update underneath goes on where it waited, with nothing underneath it.
LEMMA FinishRestoreInv ==
    ASSUME RestoreInv, NEW message, Finish(message), UNCHANGED conf
    PROVE  RestoreInv'
  <1>1. frame' = outer /\ outer'.at = "idle" /\ outer'.send = "no"
    BY IdleIsFrame DEF Finish
  <1> QED BY <1>1 DEF RestoreInv, SendsInARestore

\* Another stage of the same update, that is no restore.
LEMMA GotoRestoreInv ==
    ASSUME RestoreInv, UNCHANGED conf,
           frame.at # "restore", frame'.at # "restore", frame'.send = frame.send,
           frame'.backup = frame.backup \/ (frame'.backup = conf /\ conf # "none"),
           outer'.at = outer.at, outer'.send = outer.send \/ outer'.send = "failed",
           outer.at = "gone" => outer'.send = outer.send,
           outer.at # "restore" => outer'.send = outer.send,
           frame'.at \in {"waiting", "status"} \union After => outer'.send # "open",
           frame'.at = "gone" => conf = "none"
    PROVE  RestoreInv'
  BY DEF RestoreInv, SendsInARestore

LEMMA RestoreInvStep == MessageInv /\ RestoreInv /\ [Next]_vars => RestoreInv'
  <1> SUFFICES ASSUME MessageInv, RestoreInv, [Next]_vars PROVE RestoreInv'
    OBVIOUS
  <1>0. frame \in Frame /\ outer \in Frame
    BY TypeFacts DEF MessageInv
  <1>1. CASE Press
    <2>1. /\ frame'.at = "before" /\ frame'.send = "no" /\ frame'.backup = "none"
          /\ outer' = frame /\ conf' = conf
      BY <1>1 DEF Press, Idle, confVars
    <2> QED BY <2>1 DEF RestoreInv, SendsInARestore, After
  <1>2. CASE ReadBefore
    <2>1. /\ frame.at = "before" /\ frame'.at \in {"backup", "upload"}
          /\ frame'.send = frame.send /\ frame'.backup = frame.backup
          /\ outer' = outer /\ conf' = conf
      BY <1>0, <1>2 DEF ReadBefore, StartUpload, Frame, confVars
    <2> QED BY <2>1, GotoRestoreInv DEF After
  <1>3. CASE Backup
    <2>1. frame.at = "backup" /\ conf' = conf
      BY <1>3 DEF Backup, BackupFails, BackupDone, confVars
    <2>2. CASE BackupFails
      BY <2>1, <2>2, FinishRestoreInv DEF BackupFails
    <2>3. CASE BackupDone
      <3>1. /\ frame'.at = "upload" /\ frame'.send = frame.send /\ outer' = outer
            /\ frame'.backup = frame.backup \/ (frame'.backup = conf /\ conf # "none")
        BY <1>0, <2>3 DEF BackupDone, DeviceEmpty, StartUpload, Frame
      <3> QED BY <2>1, <3>1, GotoRestoreInv DEF After
    <2> QED BY <1>3, <2>2, <2>3 DEF Backup
  <1>4. CASE UploadAnswered
    <2>1. frame.at = "upload" /\ conf' = conf
      BY <1>4 DEF UploadAnswered, confVars
    <2>2. CASE UploadFails
      BY <2>1, <2>2, FinishRestoreInv DEF UploadFails
    <2>3. CASE UploadGoesOn /\ step = Reset
      <3>1. /\ frame'.at = "waiting" /\ frame'.send = frame.send
            /\ frame'.backup = frame.backup /\ outer' = Broken(outer)
        BY <1>0, <2>3 DEF UploadGoesOn, Goto, Frame
      <3>2. /\ outer'.at = outer.at /\ outer'.send # "open"
            /\ outer'.send = outer.send \/ outer'.send = "failed"
            /\ outer.send = "no" => outer'.send = outer.send
        BY <1>0, <3>1 DEF Broken, Frame
      <3>3. outer.at # "restore" => outer'.send = outer.send
        BY <3>2 DEF RestoreInv, SendsInARestore
      <3> QED BY <2>1, <3>1, <3>2, <3>3, GotoRestoreInv
    <2>4. CASE UploadGoesOn /\ step # Reset
      BY <2>1, <2>4, StillRestoreInv DEF UploadGoesOn, CarryOn
    <2> QED BY <1>4, <2>2, <2>3, <2>4 DEF UploadAnswered
  <1>5. ASSUME NEW stage \in {"status"} \union After, stage # "restore", Goto(stage),
               frame.at \in {"waiting", "status"} \union After, frame.at # "restore",
               UNCHANGED <<outer, conf>>, stage = "gone" => conf = "none"
        PROVE  RestoreInv'
    <2>1. frame'.at = stage /\ frame'.send = frame.send /\ frame'.backup = frame.backup
      BY <1>0, <1>5 DEF Goto, Frame
    <2>2. outer.send # "open"
      BY <1>5 DEF RestoreInv
    <2> QED BY <1>5, <2>1, <2>2, GotoRestoreInv
  <1>6. CASE AfterRestart
    <2>0. conf' = conf
      BY <1>6, AfterRestartSteps DEF hostOnly, confVars
    <2>1. CASE \E message \in Told : Finish(message)
      BY <2>0, <2>1, FinishRestoreInv
    <2>2. CASE Return
      BY <1>5, <2>0, <2>1, <2>2, FinishRestoreInv DEF Return, After
    <2>3. CASE ConfirmAnswered
      BY <1>5, <2>0, <2>3 DEF ConfirmAnswered, After
    <2>4. CASE ReadIdentity
      BY <1>5, <2>0, <2>4 DEF ReadIdentity, After
    <2>5. CASE SayInstalled \/ SayGone \/ RestoreEnds
      BY <2>0, <2>5, FinishRestoreInv DEF SayInstalled, SayGone, RestoreEnds
    <2>6. CASE OfferRestore
      <3>1. /\ frame.at = "gone" /\ frame.backup # "none"
            /\ frame'.at = "restore" /\ outer' = outer
        BY <1>0, <2>6 DEF OfferRestore, Offers, Frame
      <3>2. outer.send # "open" /\ outer.at # "gone"
        BY <3>1 DEF RestoreInv, After
      <3> QED BY <3>1, <3>2 DEF RestoreInv, SendsInARestore
    <2> QED BY <1>6, <2>2, <2>3, <2>4, <2>5, <2>6 DEF AfterRestart
  <1>7. CASE ReadStatus
    <2>1. frame.at = "status" /\ conf' = conf
      BY <1>7 DEF ReadStatus, confVars
    <2>2. CASE \E message \in Told : Finish(message)
      BY <2>1, <2>2, FinishRestoreInv
    <2>3. CASE outer' = outer /\ (Goto("confirm") \/ Goto("identity"))
      BY <1>5, <2>1, <2>3 DEF After
    <2> QED BY <1>7, <2>2, <2>3, ReadStatusSteps
  <1>8. CASE Restore
    <2>1. frame.send = "open" \/ outer.send = "open"
      BY <1>8 DEF Restore
    <2>2. frame.at # "gone" /\ outer.at # "gone"
      BY <2>1 DEF RestoreInv, SendsInARestore, After
    <2>3. /\ frame'.at = frame.at /\ outer'.at = outer.at
          /\ frame.send = "no" => frame'.send = "no"
          /\ outer.send = "no" => outer'.send = "no"
          /\ outer.send # "open" => outer'.send # "open"
      BY <1>0, <1>8 DEF Restore, Clear, Broken, Frame
    <2> QED BY <2>2, <2>3 DEF RestoreInv, SendsInARestore
  <1>9. CASE Take \/ Settle
    BY <1>9, StillRestoreInv DEF Take, Settle, hostVars, confVars
  <1>10. CASE TakeReset \/ PowerCut \/ Watchdog
    BY <1>10, StillRestoreInv DEF TakeReset, PowerCut, Watchdog, GoDown, confVars
  <1>11. CASE Start
    <2>1. conf' \in {conf, "none"}
      BY <1>11, StartSteps DEF MeetConfiguration, confVars
    <2> QED BY <1>11, <2>1, StillRestoreInv DEF Start, hostVars
  <1>12. CASE UNCHANGED vars
    BY <1>12, StillRestoreInv DEF vars, hostVars, confVars
  <1> QED
    BY <1>1, <1>2, <1>3, <1>4, <1>6, <1>7, <1>8, <1>9, <1>10, <1>11, <1>12
    DEF Next, Dialog, Unit, AfterRestart

LEMMA RestoreInvariant == Spec => []RestoreInv
  BY InitRestoreInv, RestoreInvStep, MessageInvariant, PTL DEF Spec

\* Only an accepted offer begins a restore.
LEMMA OnlyOffersRestore ==
    MessageInv /\ RestoreInv /\ [Next]_vars =>
        [frame.at # "restore" /\ frame'.at = "restore" /\ outer' = outer => conf = "none"]_vars
  <1> SUFFICES ASSUME MessageInv, RestoreInv, Next, frame.at # "restore",
                      frame'.at = "restore", outer' = outer
               PROVE  conf = "none"
    OBVIOUS
  <1>0. frame \in Frame /\ outer \in Frame
    BY TypeFacts DEF MessageInv
  <1>1. ~\E message : Finish(message)
    BY IdleIsFrame DEF Finish
  <1>2. \A stage \in Stage : Goto(stage) => stage = "restore"
    BY <1>0 DEF Goto, Frame
  <1>3. CASE AfterRestart
    <2>1. frame.at = "gone" \/ \E stage \in Stage : Goto(stage)
      BY <1>1, <1>3, AfterRestartSteps
    <2>2. frame.at = "gone"
      BY <1>1, <1>2, <1>3 DEF AfterRestart, Return, ConfirmAnswered, ReadIdentity, SayInstalled,
                              SayGone, OfferRestore, Offers, RestoreEnds, Stage
    <2> QED BY <2>2 DEF RestoreInv
  <1>4. CASE Press
    BY <1>4 DEF Press, Idle
  <1>5. CASE ReadBefore \/ Backup
    BY <1>0, <1>1, <1>5 DEF ReadBefore, Backup, BackupFails, BackupDone, StartUpload, Frame
  <1>6. CASE UploadAnswered
    BY <1>0, <1>1, <1>6 DEF UploadAnswered, UploadFails, UploadGoesOn, CarryOn, Goto, Frame
  <1>7. CASE ReadStatus
    BY <1>1, <1>2, <1>7, ReadStatusSteps DEF Stage
  <1>8. CASE Restore
    BY <1>0, <1>8, BrokenFacts DEF Restore, Clear, Frame
  <1>9. CASE Unit
    BY <1>0, <1>9, BrokenFacts DEF Unit, Take, TakeReset, PowerCut, Watchdog, GoDown, Start,
       Settle, hostVars
  <1> QED BY <1>3, <1>4, <1>5, <1>6, <1>7, <1>8, <1>9 DEF Next, Dialog, AfterRestart

-----------------------------------------------------------------------------
(* The theorems *)

\* "The update was not installed" stays true of an upload that broke at a chunk:
\* no image is armed behind it, and no copy of an END is under way.
THEOREM BrokenUploadStays == Spec => []BrokenUploadNeverInstalls
  <1>1. MessageInv => BrokenUploadNeverInstalls
    <2> SUFFICES ASSUME MessageInv, told = "not installed", step \in 1 .. Chunks,
                        frame.at = "idle"
                 PROVE  ~armed /\ End \notin line
      BY DEF BrokenUploadNeverInstalls
    <2>1. ~armed /\ line \subseteq {step}
      BY DEF MessageInv, BrokenStays
    <2>2. End # step
      BY ChunksApart
    <2> QED BY <2>1, <2>2
  <1> QED BY <1>1, MessageInvariant, PTL

\* An image said to be installed runs, unless the unit has gone back from it or
\* failed to install a later one.
THEOREM InstalledIsTrue == Spec => []InstalledIsHonest
  <1>1. MessageInv => InstalledIsHonest
    BY DEF MessageInv, KnownAfter, Known, SaysInstalled, InstalledIsHonest
  <1> QED BY <1>1, MessageInvariant, PTL

\* A restore is only ever begun over a unit that has no configuration.
THEOREM RestoreFillsEmpty == Spec => RestoreFillsAnEmptyUnit
  <1>1. MessageInv /\ RestoreInv /\ [Next]_vars =>
          [frame.at # "restore" /\ frame'.at = "restore" /\ outer' = outer
             => conf = "none"]_vars
    BY OnlyOffersRestore
  <1> QED BY <1>1, MessageInvariant, RestoreInvariant, PTL DEF Spec, RestoreFillsAnEmptyUnit
=============================================================================
