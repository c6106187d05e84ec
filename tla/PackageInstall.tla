--------------------------- MODULE PackageInstall ---------------------------
(***************************************************************************)
(* Installing a secure package: the relay of a sealed stream               *)
(* (gui/src/protocol/sealed_install.cpp), in the order                     *)
(* package_builder.cpp sealed it, and the older way, for packages of       *)
(* format 2, which are opened, set their passwords in the clear and are    *)
(* sent (onSendSecureConfiguration() of gui/src/ui/main_window.cpp).       *)
(*                                                                         *)
(* The link is its contract (LinkContract), and a unit behind an adapter   *)
(* restarts without the port closing.  The unit is external: what is said  *)
(* of it is what its answers to testSealedInstallAgainstTheDevice          *)
(* (gui/tests) and docs/licensing.md and docs/online.md say.               *)
(***************************************************************************)
EXTENDS Naturals, Sequences

CONSTANTS
    Packages,    \* [name, sealed, sets, probes]: see Package
    Key,         \* the access functions that have a password
    MaxInstalls, \* installs considered
    MaxRestarts  \* restarts of the unit considered

Name == {p.name : p \in Packages}

\* sealed: format 3, relayed; sets: the passwords its policy sets, in the order
\* of passwordFrames(); probes: its stream leads with a command that older
\* firmware does not know.
Package == [name : Name, sealed : BOOLEAN, sets : Seq(Key), probes : BOOLEAN]

ASSUME PackageConstants ==
    /\ Packages \subseteq Package /\ Packages # {}
    /\ "send" \in Key /\ "none" \notin Key
    /\ Name \intersect {"own", "none", "part"} = {}
    /\ MaxInstalls \in Nat /\ MaxRestarts \in Nat

VARIABLES
    package,   \* what is installed
    busy,      \* an install runs
    index,     \* the step of it in flight
    cancelled, \* m_cancelled
    failed,    \* applyOne() has noted a failure
    said,      \* the last message box
    installs,  \* installs begun
    line,      \* the step whose copies may still reach the unit
    replies,   \* the answers the unit has given to it
    kind,      \* the unit: [two: a CAN Triple 2.0, old: it lacks what is probed]
    session,   \* the step the sealed session expects; 0: there is none
    granted,   \* the Firmware Key was proved, or
    proved,    \* the Send password was, or set, since the unit started
    keys,      \* the passwords in force: "own", "none" or the package's
    conf,      \* what the unit was sent: its stage (2.0) or what it runs (1.x)
    flashKeys, \* what it restarts with
    flashConf,
    restarts,
    before,    \* history: the unit when this install began
    disturbed  \* history: the unit restarted since

hostVars == <<package, busy, index, cancelled, failed, said, installs>>
sessionVars == <<session, granted, proved>>
storeVars == <<keys, conf, flashKeys, flashConf>>
unitVars == <<kind, sessionVars, storeVars>>
history == <<restarts, before, disturbed>>
vars == <<hostVars, line, replies, unitVars, history>>

-----------------------------------------------------------------------------
(* The steps of an install *)

Step(cmd, key) == [cmd |-> cmd, key |-> key]
Plain(cmd) == <<Step(cmd, "none")>>
When(condition, steps) == IF condition THEN steps ELSE <<>>

PasswordFrames(p) == [i \in DOMAIN p.sets |-> Step("key", p.sets[i])]

\* The tables are one step here: SendTransfer has their many.
Configuration == Plain("clear") \o Plain("write") \o Plain("save")

\* (Seeded bug: the probe behind the passwords.)
PasswordsFirst(p) ==
    PasswordFrames(p) \o When(p.probes, Plain("probe")) \o Configuration

\* (Seeded bug: the passwords behind the configuration.)
PasswordsLast(p) ==
    When(p.probes, Plain("probe")) \o Configuration \o PasswordFrames(p)

\* buildSecurePackage().
SealedFrames(p) ==
    When(p.probes, Plain("probe")) \o PasswordFrames(p) \o Configuration

\* What is behind the confirmation in onSendSecureConfiguration(): the licence's
\* proof, the passwords, ensureDeviceAccess(), and the Send.
OpenedSteps(p) ==
    When(p.sets # <<>>, Plain("prove") \o PasswordFrames(p)) \o Plain("access") \o Configuration

Steps(p) ==
    IF p.sealed THEN Plain("begin") \o SealedFrames(p) \o Plain("end") ELSE OpenedSteps(p)

Plan == Steps(package)
Cmd(i) == Plan[i].cmd
Sealed(i) == package.sealed /\ Cmd(i) \notin {"begin", "end"}

\* The requests a restart (2.5 s) does not outlast.
Slow(i) == Cmd(i) \in {"clear", "save"}

Value == {"own", "none"} \union Name

TypeOK ==
    /\ package \in Packages /\ index \in DOMAIN Plan
    /\ busy \in BOOLEAN /\ cancelled \in BOOLEAN /\ failed \in BOOLEAN
    /\ granted \in BOOLEAN /\ proved \in BOOLEAN /\ disturbed \in BOOLEAN
    /\ said \in {"", "installed", "stopped", "nothing changed", "nothing sent", "cancelled"}
    /\ installs \in 0 .. MaxInstalls /\ restarts \in 0 .. MaxRestarts
    /\ line \subseteq DOMAIN Plan /\ replies \subseteq {"ok", "refused", "unknown"}
    /\ kind \in [two : BOOLEAN, old : BOOLEAN]
    /\ session \in 0 .. Len(Plan) + 1
    /\ keys \in [Key -> Value] /\ flashKeys \in [Key -> Value]
    /\ conf \in Value \union {"part"} /\ flashConf \in Value \union {"part"}

Unit == [keys |-> keys, conf |-> conf, flashKeys |-> flashKeys, flashConf |-> flashConf]

Init ==
    /\ package \in Packages /\ busy = FALSE /\ index = 1
    /\ cancelled = FALSE /\ failed = FALSE /\ said = "" /\ installs = 0
    /\ line = {} /\ replies = {}
    /\ kind \in [two : BOOLEAN, old : BOOLEAN]
    /\ session = 0 /\ granted = FALSE /\ proved = FALSE
    /\ keys \in [Key -> {"own", "none"}] /\ flashKeys = keys
    /\ conf = "own" /\ flashConf = "own"
    /\ restarts = 0 /\ before = Unit /\ disturbed = FALSE

-----------------------------------------------------------------------------
(* The host *)

\* A request goes out; what is left of an older one cannot follow it.
Issue(i) == line' = {i} /\ replies' = {}

Finish(message) ==
    /\ busy' = FALSE /\ said' = message
    /\ UNCHANGED <<index, line, replies>>

\* Send Secure Configuration, answered with Yes.  checkPackagePolicy() has been
\* to the unit and back: nothing older is on the line.  A session left open takes
\* no frame of this package: they are sealed under another salt.
Install ==
    /\ ~busy /\ installs < MaxInstalls
    /\ package' \in Packages
    /\ installs' = installs + 1
    /\ busy' = TRUE /\ index' = 1 /\ cancelled' = FALSE /\ failed' = FALSE /\ said' = ""
    /\ Issue(1)
    /\ session' = 0
    /\ before' = Unit /\ disturbed' = FALSE
    /\ UNCHANGED <<kind, granted, proved, storeVars, restarts>>

\* runNext(): finished, or the next step's request.  A Cancel is heeded here.
RunNext(i) ==
    IF cancelled
    THEN Finish("cancelled")
    ELSE IF i > Len(Plan)
    THEN Finish("installed")
    ELSE index' = i /\ Issue(i) /\ UNCHANGED <<busy, said>>

\* describeFailure() of a sealed package's step, and the opened one's messages.
\* Only the first sealed frame's unknown command means that nothing changed.
Describe(how) ==
    IF package.sealed
    THEN IF how = "unknown" /\ index = 2 THEN "nothing changed" ELSE "stopped"
    ELSE IF Cmd(index) = "prove" THEN "nothing sent" ELSE "stopped"

\* applyOne(): a failure is noted, the others are still set.
SetsInTheClear == ~package.sealed /\ Cmd(index) = "key"
LastKey == Cmd(index + 1) # "key"

\* (Seeded bug: passwords that could not be set do not end the install.)
CarryOnUnset(noted) == RunNext(index + 1)

\* (Seeded bug: a password is tried until the unit takes it.)
TryAgain(noted) == IF noted THEN RunNext(index) ELSE RunNext(index + 1)

AfterKey(noted) ==
    IF LastKey /\ noted THEN Finish("nothing sent") ELSE RunNext(index + 1)

Succeed ==
    /\ "ok" \in replies
    /\ UNCHANGED failed
    /\ IF SetsInTheClear THEN AfterKey(failed) ELSE RunNext(index + 1)

\* A request that failed: refused, or unanswered.
Fail(how) ==
    /\ how \in replies \union {"lost"} /\ how # "ok"
    /\ failed' = (failed \/ SetsInTheClear)
    /\ IF SetsInTheClear THEN AfterKey(TRUE) ELSE Finish(Describe(how))

\* The answer to the step in flight.  (That to "access" is the user's too.)
Answer ==
    /\ busy
    /\ Succeed \/ \E how \in {"refused", "unknown", "lost"} : Fail(how)
    /\ UNCHANGED <<package, cancelled, installs, unitVars, history>>

\* The progress dialog's Cancel.  An opened package has one once it is sent.
Cancel ==
    /\ busy /\ ~cancelled
    /\ package.sealed \/ Cmd(index) \in {"clear", "write", "save"}
    /\ cancelled' = TRUE
    /\ UNCHANGED <<package, busy, index, failed, said, installs, line, replies, unitVars,
                   history>>

-----------------------------------------------------------------------------
(* The unit *)

Reply(how) == replies' = replies \union {how}

Refuse(how) == Reply(how) /\ UNCHANGED <<granted, proved, storeVars>>

\* The unit takes the step's command, within its session or not.
Perform(i) ==
    LET step == Plan[i]
    IN  /\ Reply("ok")
        /\ granted' = (granted \/ step.cmd = "prove")
        /\ proved' = (proved \/ step.cmd = "access" \/ step.key = "send")
        /\ CASE step.cmd = "key" ->
                  /\ keys' = [keys EXCEPT ![step.key] = package.name]
                  /\ UNCHANGED <<conf, flashKeys, flashConf>>
             [] step.cmd = "clear" ->
                  /\ conf' = "part"
                  /\ IF kind.two
                     THEN UNCHANGED <<flashKeys, flashConf>>
                     ELSE flashKeys' = [k \in Key |-> "none"] /\ flashConf' = "none"
                  /\ UNCHANGED keys
             [] step.cmd = "write" ->
                  conf' = package.name /\ UNCHANGED <<keys, flashKeys, flashConf>>
             [] step.cmd = "save" ->
                  /\ flashKeys' = keys /\ flashConf' = conf
                  /\ UNCHANGED <<keys, conf>>
             [] OTHER -> UNCHANGED storeVars

\* What the unit asks of a request in the clear.
Allowed(i) ==
    CASE Cmd(i) = "key" -> granted
      [] Cmd(i) \in {"clear", "write", "save"} -> keys["send"] = "none" \/ proved
      [] OTHER -> TRUE

\* BEGIN opens a session, END closes it.
TakeSession(i) ==
    /\ Cmd(i) \in {"begin", "end"}
    /\ session' = IF Cmd(i) = "begin" THEN i + 1 ELSE 0
    /\ Reply("ok") /\ UNCHANGED <<granted, proved, storeVars>>

\* (Seeded bug: frames are taken whatever their index.)
InAnySession(i) == TRUE

InStep(i) == session = i

\* A sealed frame: out of step, it ends the session; so does one that is refused.
TakeSealed(i) ==
    /\ Sealed(i)
    /\ \/ InStep(i) /\ ~(Cmd(i) = "probe" /\ kind.old)
          /\ session' = i + 1 /\ Perform(i)
       \/ InStep(i) /\ Cmd(i) = "probe" /\ kind.old
          /\ session' = 0 /\ Refuse("unknown")
       \/ (~InStep(i) \/ Cmd(i) = "save")
          /\ session' = 0 /\ Refuse("refused")

TakeInTheClear(i) ==
    /\ ~package.sealed
    /\ UNCHANGED session
    /\ \/ Allowed(i) /\ Perform(i)
       \/ (~Allowed(i) \/ Cmd(i) = "save") /\ Refuse("refused")

\* A copy of the request arrives, the first or a retransmission.
UnitActs ==
    /\ \E i \in line : TakeSession(i) \/ TakeSealed(i) \/ TakeInTheClear(i)
    /\ UNCHANGED <<hostVars, line, kind, history>>

\* What is not in flash is gone, and the session.
Restart ==
    /\ restarts < MaxRestarts
    /\ restarts' = restarts + 1 /\ disturbed' = TRUE
    /\ session' = 0 /\ granted' = FALSE /\ proved' = FALSE
    /\ keys' = flashKeys /\ conf' = flashConf
    /\ line' = {i \in line : Slow(i)}
    /\ UNCHANGED <<hostVars, replies, kind, flashKeys, flashConf, before>>

Next == Install \/ Answer \/ Cancel \/ UnitActs \/ Restart

\* The link answers every request (DeviceLink!EveryRequestAnswered), and the user
\* every prompt.
Spec == Init /\ [][Next]_vars /\ WF_vars(Answer)

-----------------------------------------------------------------------------
(* Properties *)

\* The passwords a package sets.
Sets(p) == {p.sets[i] : i \in DOMAIN p.sets}

Committed == \A k \in Sets(package) : flashKeys[k] = package.name

\* "so they commit to flash with it" (docs/licensing.md): a configuration is never
\* committed without the passwords of its package, whatever is lost, repeated or
\* refused; and of a sealed package not even when the unit restarts between the
\* two, because the session does not outlive the passwords in RAM.
CommitsTogether ==
    [][flashConf' # flashConf /\ flashConf' = package.name
       /\ (package.sealed \/ ~disturbed) => Committed']_vars

\* An install that says it is saved has put the configuration and the passwords
\* in flash.
SuccessIsHonest ==
    said = "installed" /\ (package.sealed \/ ~disturbed) =>
        flashConf = package.name /\ Committed

\* "unticked leaves it alone" (docs/licensing.md): the passwords a sealed package
\* does not set survive it, although a CAN Triple 1.x erases their flash first and
\* has them in RAM alone until the save.
OthersAreKept ==
    said = "installed" /\ package.sealed =>
        \A k \in Key \ Sets(package) : flashKeys[k] = before.keys[k]

\* A unit too old for a package's lead command "refuses the first frame of the
\* stream and nothing on it changes" (docs/licensing.md): no password either.
OldUnitIsUntouched ==
    kind.old /\ package.sealed /\ package.probes /\ installs > 0 /\ ~disturbed =>
        Unit = before

\* Every install comes to an end.
EveryInstallEnds == busy ~> ~busy
=============================================================================
