------------------------- MODULE SendTransferProofs -------------------------
(***************************************************************************)
(* SendTransfer's safety, for every Send BuildSendSteps() can build: any   *)
(* number of chunks, with or without a script, a project, a read-back, a   *)
(* save and a reset.                                                       *)
(*                                                                         *)
(* The proof needs of a plan only that its steps come in phases (InOrder)  *)
(* and what is read back was written (WellFormed).  Its invariant says     *)
(* what the unit holds of the steps behind the one in flight, for as long  *)
(* as a save may still be acted on (SavePending), and that nothing left on *)
(* the line can undo it (NothingOlder): the line keeps requests in order.  *)
(***************************************************************************)
EXTENDS SendTransfer, WellFoundedInduction, SequenceTheorems, TLAPS

-----------------------------------------------------------------------------
(* Plans *)

Cmd == {"ping", "clear", "plan", "write", "verify", "save", "reset"}

\* The order of the phases of a Send.
Phase == [cmd \in Cmd |->
            CASE cmd = "ping" -> 0
              [] cmd = "clear" -> 1
              [] cmd = "plan" -> 2
              [] cmd = "write" -> 3
              [] cmd = "verify" -> 4
              [] cmd = "save" -> 5
              [] cmd = "reset" -> 6]

InOrder(plan) ==
    \A i, j \in DOMAIN plan : i < j => Phase[plan[i].cmd] <= Phase[plan[j].cmd]

\* Only writes and read-backs have a part, and only a write may fail quietly.
Sound(step) ==
    /\ step.cmd \in Cmd
    /\ {step.optional, step.lenient, step.quiet} \subseteq BOOLEAN
    /\ step.cmd \notin {"write", "verify"} => step.part = NoPart
    /\ step.quiet => step.cmd = "write"

ReadsBackWhatItWrote(plan) ==
    \A i \in DOMAIN plan : plan[i].cmd = "verify" =>
        \E j \in DOMAIN plan : plan[j].cmd = "write" /\ plan[j].part = plan[i].part

WellFormed(plan) ==
    /\ DOMAIN plan = 1 .. Len(plan) /\ Len(plan) \in Nat
    /\ \A i \in DOMAIN plan : Sound(plan[i])
    /\ InOrder(plan)
    /\ ReadsBackWhatItWrote(plan)

PlansAreWellFormed ==
    \A s \in Sends : s.staged \in BOOLEAN /\ s.guarded \in BOOLEAN /\ WellFormed(s.steps)

-----------------------------------------------------------------------------
(* The invariant *)

Good == {"good", "bad"}

Written(i) == i \in Index /\ Plan[i].cmd = "write"
ReadBack(i) == i \in Index /\ Plan[i].cmd = "verify"
Saved(i) == i \in Index /\ Plan[i].cmd = "save"

\* Step i is behind the one in flight, was not passed over and did not go by on
\* the answer to another: the unit has acted on it.
Heard(i) ==
    /\ i < index /\ i \notin borrowed
    /\ \/ Written(i) /\ Plan[i].part \notin Reported
       \/ ReadBack(i) /\ ~verifySkipped /\ Plan[i].part \notin Reported
       \/ Saved(i) /\ ~flashSkipped

SavePending == \E i \in Index : Saved(i) /\ (i >= index \/ i \in onLine)

\* A restart has taken back what step i told of the unit.
Stale(i) == \E r \in restarted : i <= r

FlashIsWhole == \A p \in Part : flash[p] \in Good \/ p \in Reported \/ Unknowable(p)

\* Copies on the line are of steps already run, and behind one that was acted on
\* there is nothing older.
LineInv ==
    /\ \A i \in onLine : i <= index
    /\ acted => index \in Index /\ \A i \in onLine : i >= index
    /\ ~connected => onLine = {}

NothingOlder == \A i \in Index : Heard(i) => \A j \in onLine : j >= i

\* What a read-back that found its part right leaves known: it is not stored wrong,
\* and it is there unless a restart took it.
ReadRight(i) ==
    /\ work[Plan[i].part] # "bad"
    /\ ~Stale(i) => work[Plan[i].part] = "good"

\* The read-back in flight, answered with what was sent.
FoundGood(i) ==
    ReadBack(i) /\ read = "good" /\ ~verifySkipped /\ Plan[i].part \notin Reported

\* What the unit holds of the step in flight once it has acted, and of those heard
\* for as long as it may still be saved.
WorkInv ==
    connected =>
        /\ acted /\ Written(index) /\ ~Stale(index) => work[Plan[index].part] \in Good
        /\ acted /\ FoundGood(index) => ReadRight(index)
        /\ SavePending => \A i \in Index : Heard(i) =>
              /\ Written(i) /\ ~Stale(i) => work[Plan[i].part] \in Good
              /\ ReadBack(i) => ReadRight(i)

\* A save that was acted on leaves the flash whole.
FlashInv == (\E i \in Index : Saved(i) /\ (Heard(i) \/ (acted /\ i = index))) => FlashIsWhole

\* No read goes by on the answer to another: its reply repeats its range.
NoReadBorrowed == \A i \in borrowed : Plan[i].cmd # "verify"

CommitInv ==
    /\ TypeOK /\ LineInv /\ NothingOlder /\ NoReadBorrowed /\ WorkInv /\ FlashInv
    /\ CommitIsWhole /\ VerifiedCommitIsExact
    /\ report = "ok" => index > Len(Plan)

-----------------------------------------------------------------------------
(* Numbers and plans *)

LEMMA PlanFacts ==
    ASSUME PlansAreWellFormed, send \in Sends
    PROVE  /\ Len(Plan) \in Nat /\ Index = 1 .. Len(Plan)
           /\ WellFormed(Plan) /\ Staged \in BOOLEAN /\ send.guarded \in BOOLEAN
  BY DEF PlansAreWellFormed, WellFormed, Plan, Staged, Index

\* The phases, in pairs: what comes before what.
LEMMA Order ==
    ASSUME PlansAreWellFormed, send \in Sends
    PROVE  /\ \A i, j \in Index : Plan[i].cmd = "write" /\ Plan[j].cmd = "save" => i < j
           /\ \A i, j \in Index : Plan[i].cmd = "verify" /\ Plan[j].cmd = "save" => i < j
           /\ \A i, j \in Index : Plan[i].cmd = "clear" /\ Plan[j].cmd = "write" => i < j
           /\ \A i, j \in Index : Plan[i].cmd = "clear" /\ Plan[j].cmd = "verify" => i < j
           /\ \A i, j \in Index : Plan[i].cmd = "clear" /\ Plan[j].cmd = "save" => i < j
           /\ \A i, j \in Index : Plan[i].cmd = "write" /\ Plan[j].cmd = "verify" => i < j
           /\ \A i, j \in Index : Plan[i].cmd = "save" /\ Plan[j].cmd = "reset" => i < j
  <1>1. WellFormed(Plan) /\ Index = 1 .. Len(Plan) /\ Len(Plan) \in Nat
    BY PlanFacts
  <1>2. \A i, j \in Index : i < j => Phase[Plan[i].cmd] <= Phase[Plan[j].cmd]
    BY <1>1 DEF WellFormed, InOrder, Index
  <1>3. /\ Phase["clear"] = 1 /\ Phase["write"] = 3 /\ Phase["verify"] = 4
        /\ Phase["save"] = 5 /\ Phase["reset"] = 6
    BY DEF Phase, Cmd
  <1>4. ASSUME NEW i \in Index, NEW j \in Index, Phase[Plan[i].cmd] < Phase[Plan[j].cmd]
        PROVE  i < j
    <2>1. ~(j < i)
      <3>1. Plan[i].cmd \in Cmd /\ Plan[j].cmd \in Cmd
        BY <1>1 DEF WellFormed, Sound, Index
      <3>2. Phase[Plan[i].cmd] \in Int /\ Phase[Plan[j].cmd] \in Int
        BY <3>1 DEF Phase, Cmd
      <3> QED BY <1>2, <1>4, <3>2
    <2>2. i # j
      <3> SUFFICES ASSUME i = j PROVE FALSE
        OBVIOUS
      <3>1. Plan[i].cmd \in Cmd
        BY <1>1 DEF WellFormed, Sound, Index
      <3>2. Phase[Plan[i].cmd] \in Int
        BY <3>1 DEF Phase, Cmd
      <3> QED BY <1>4, <3>2
    <2> QED BY <1>1, <2>1, <2>2
  <1>5. \A i, j \in Index : Plan[i].cmd = "write" /\ Plan[j].cmd = "save" => i < j
    BY <1>3, <1>4
  <1>6. \A i, j \in Index : Plan[i].cmd = "verify" /\ Plan[j].cmd = "save" => i < j
    BY <1>3, <1>4
  <1>7. \A i, j \in Index : Plan[i].cmd = "clear" /\ Plan[j].cmd = "write" => i < j
    BY <1>3, <1>4
  <1>8. \A i, j \in Index : Plan[i].cmd = "clear" /\ Plan[j].cmd = "verify" => i < j
    BY <1>3, <1>4
  <1>9. \A i, j \in Index : Plan[i].cmd = "clear" /\ Plan[j].cmd = "save" => i < j
    BY <1>3, <1>4
  <1>10. \A i, j \in Index : Plan[i].cmd = "write" /\ Plan[j].cmd = "verify" => i < j
    BY <1>3, <1>4
  <1>11. \A i, j \in Index : Plan[i].cmd = "save" /\ Plan[j].cmd = "reset" => i < j
    BY <1>3, <1>4
  <1> QED BY <1>5, <1>6, <1>7, <1>8, <1>9, <1>10, <1>11

LEMMA PartsOfSteps ==
    ASSUME PlansAreWellFormed, send \in Sends
    PROVE  /\ \A i \in Index : Plan[i].part \in Part \union {NoPart}
           /\ \A i \in Index : Plan[i].cmd \in {"write", "verify"} => Plan[i].part \in Part
           /\ \A i \in Index : Plan[i].quiet => Plan[i].part \in Part
           /\ \A p \in Part : \E i \in Index : Plan[i].cmd = "write" /\ Plan[i].part = p
           /\ \A p \in Verified : \E i \in Index : Plan[i].cmd = "verify" /\ Plan[i].part = p
           /\ Verified \subseteq Part
           /\ \A i \in Index : Plan[i].cmd \in Cmd
  <1>1. WellFormed(Plan)
    BY PlanFacts
  <1>2. /\ \A i \in Index : Sound(Plan[i])
        /\ \A i \in Index : Plan[i].cmd = "verify" =>
              \E j \in Index : Plan[j].cmd = "write" /\ Plan[j].part = Plan[i].part
    BY <1>1 DEF WellFormed, ReadsBackWhatItWrote, Index
  <1>3. \A i \in Index : Plan[i].cmd = "write" => Plan[i].part \in Part
    BY DEF Part
  <1>4. \A i \in Index : Plan[i].cmd = "verify" => Plan[i].part \in Part
    BY <1>2, <1>3
  <1>5. Verified \subseteq Part
    BY <1>4 DEF Verified
  <1> QED BY <1>2, <1>3, <1>4, <1>5 DEF Sound, Part, Verified

LEMMA LeastNumber ==
    ASSUME NEW T, T \subseteq Nat, T # {}
    PROVE  \E x \in T : \A y \in T : x <= y
  <1> DEFINE R == OpToRel(<, Nat)
  <1>1. IsWellFoundedOn(R, Nat)
    BY NatLessThanWellFounded
  <1>2. \A x, y \in Nat : y < x => <<y, x>> \in R
    BY DEF OpToRel
  <1> HIDE DEF R
  <1>3. PICK x \in T : \A y \in T : ~(<<y, x>> \in R)
    BY <1>1, WFMin
  <1>4. ASSUME NEW y \in T
        PROVE  x <= y
    <2>1. x \in Nat /\ y \in Nat
      OBVIOUS
    <2>2. ~(y < x)
      BY <1>2, <1>3, <2>1
    <2> QED BY <2>1, <2>2
  <1> QED BY <1>4

\* Behind a run of verify steps there is a first step that is none.
LEMMA AfterVerifyFacts ==
    ASSUME PlansAreWellFormed, send \in Sends, ReadBack(index)
    PROVE  /\ AfterVerify \in index + 1 .. Len(Plan) + 1
           /\ \A j \in index .. AfterVerify - 1 : j \in Index /\ Plan[j].cmd = "verify"
  <1>1. /\ Len(Plan) \in Nat /\ Index = 1 .. Len(Plan) /\ index \in Index
        /\ Plan[index].cmd = "verify"
    BY PlanFacts DEF ReadBack
  <1> DEFINE Others == {k \in index .. Len(Plan) + 1 : k \in Index => Plan[k].cmd # "verify"}
  <1>2. Others \subseteq Nat /\ Len(Plan) + 1 \in Others
    BY <1>1
  <1>3. PICK k \in Others : \A j \in Others : k <= j
    <2>1. Others # {}
      BY <1>2
    <2> QED BY <1>2, <2>1, LeastNumber
  <1>4. \A j \in index .. k - 1 : j \in Index /\ Plan[j].cmd = "verify"
    BY <1>1, <1>3
  <1>5. \E i \in index .. Len(Plan) + 1 :
            /\ \A j \in index .. i - 1 : Plan[j].cmd = "verify"
            /\ i \in Index => Plan[i].cmd # "verify"
    BY <1>3, <1>4
  <1>6. /\ AfterVerify \in index .. Len(Plan) + 1
        /\ \A j \in index .. AfterVerify - 1 : Plan[j].cmd = "verify"
        /\ AfterVerify \in Index => Plan[AfterVerify].cmd # "verify"
    BY <1>5 DEF AfterVerify
  <1> HIDE DEF Others
  <1> QED BY <1>1, <1>6

-----------------------------------------------------------------------------
(* What runNext() and its handler may do to the books *)

\* The step in flight succeeds now.
NowHeard(i) ==
    /\ i = index /\ acted /\ connected
    /\ Written(i) \/ Saved(i) \/ FoundGood(i)

\* What the manager's actions do to the steps that went by on another's answer.
BorrowsNoRead ==
    /\ borrowed \subseteq borrowed' /\ borrowed' \subseteq Index
    /\ \A i \in borrowed' : Plan[i].cmd # "verify"

\* What every action of the manager does: it moves on, it never takes back what it
\* has noted as skipped, and it sends no request but that of the step it comes to.
HostStep ==
    /\ UNCHANGED <<send, work, flash, connected, restarted>>
    /\ acted' = FALSE
    /\ BorrowsNoRead
    /\ index' \in index .. Len(Plan) + 1
    /\ Reported \subseteq Reported'
    /\ verifySkipped => verifySkipped'
    /\ onLine' \subseteq onLine \union {index'}
    /\ ~connected => onLine' = onLine
    /\ \A i \in Index : Heard(i)' => Heard(i) \/ NowHeard(i)

LEMMA Typed ==
    ASSUME PlansAreWellFormed, TypeOK
    PROVE  /\ send \in Sends /\ Len(Plan) \in Nat /\ Index = 1 .. Len(Plan)
           /\ index \in Int /\ index \in 0 .. Len(Plan) + 1 /\ onLine \subseteq Int
  <1>1. send \in Sends /\ index \in 0 .. Len(Plan) + 1 /\ onLine \subseteq Index
    BY DEF TypeOK
  <1>2. Len(Plan) \in Nat /\ Index = 1 .. Len(Plan)
    BY <1>1, PlanFacts
  <1> QED BY <1>1, <1>2

\* What nobody could know to be missing stays so.
LEMMA UnknowableGrows ==
    ASSUME send' = send, restarted \subseteq restarted', borrowed \subseteq borrowed',
           verifySkipped => verifySkipped', NEW p, Unknowable(p)
    PROVE  Unknowable(p)'
  <1>1. Plan' = Plan /\ Index' = Index
    BY DEF Plan, Index
  <1>2. \A i : TellsOf(p, i)' => TellsOf(p, i)
    BY <1>1 DEF TellsOf
  <1> QED BY <1>1, <1>2 DEF Unknowable

LEMMA HostStepKeepsLine ==
    ASSUME PlansAreWellFormed, CommitInv, HostStep
    PROVE  LineInv' /\ NothingOlder'
  <1>1. /\ Len(Plan) \in Nat /\ Index = 1 .. Len(Plan) /\ index \in Int /\ onLine \subseteq Int
    BY Typed DEF CommitInv
  <1>2. LineInv /\ NothingOlder
    BY DEF CommitInv
  <1>3. /\ index' \in Int /\ index' >= index /\ onLine' \subseteq onLine \union {index'}
        /\ acted' = FALSE /\ connected' = connected /\ (~connected => onLine' = onLine)
    BY <1>1 DEF HostStep
  <1>4. LineInv'
    <2>1. \A i \in onLine' : i <= index'
      BY <1>1, <1>2, <1>3 DEF LineInv
    <2> QED BY <1>2, <1>3, <2>1 DEF LineInv
  <1>5. ASSUME NEW i \in Index, Heard(i)', NEW j \in onLine'
        PROVE  j >= i
    <2>1. i < index' /\ i \in Int
      BY <1>1, <1>5 DEF Heard
    <2>2. j = index' \/ j \in onLine
      BY <1>3
    <2>3. CASE j = index'
      BY <1>3, <2>1, <2>3
    <2>4. CASE j \in onLine /\ Heard(i)
      BY <1>2, <2>4 DEF NothingOlder
    <2>5. CASE j \in onLine /\ NowHeard(i)
      BY <1>2, <2>5 DEF LineInv, NowHeard
    <2>6. Heard(i) \/ NowHeard(i)
      BY <1>5 DEF HostStep
    <2> QED BY <2>2, <2>3, <2>4, <2>5, <2>6
  <1>6. Index' = Index
    BY DEF HostStep, Index, Plan
  <1> QED BY <1>4, <1>5, <1>6 DEF NothingOlder

LEMMA HostStepKeepsUnit ==
    ASSUME PlansAreWellFormed, CommitInv, HostStep
    PROVE  WorkInv' /\ FlashInv' /\ CommitIsWhole' /\ VerifiedCommitIsExact'
  <1>1. /\ Len(Plan) \in Nat /\ Index = 1 .. Len(Plan) /\ index \in Int /\ onLine \subseteq Int
    BY Typed DEF CommitInv
  <1>2. /\ WorkInv /\ FlashInv /\ CommitIsWhole /\ VerifiedCommitIsExact
    BY DEF CommitInv
  <1>3. /\ index' \in Int /\ index' >= index /\ onLine' \subseteq onLine \union {index'}
        /\ acted' = FALSE /\ connected' = connected /\ work' = work /\ flash' = flash
        /\ send' = send /\ Reported \subseteq Reported' /\ (verifySkipped => verifySkipped')
        /\ restarted' = restarted /\ borrowed \subseteq borrowed'
        /\ \A i \in Index : Heard(i)' => Heard(i) \/ NowHeard(i)
    BY <1>1 DEF HostStep, BorrowsNoRead
  <1>4. /\ Plan' = Plan /\ Index' = Index /\ Part' = Part /\ Verified' = Verified
        /\ Staged' = Staged
    BY <1>3 DEF Plan, Index, Part, Verified, Staged
  <1>5. /\ \A i : Saved(i)' <=> Saved(i)
        /\ \A i : Written(i)' <=> Written(i)
        /\ \A i : ReadBack(i)' <=> ReadBack(i)
    BY <1>4 DEF Saved, Written, ReadBack
  <1>11. \A i : Stale(i)' <=> Stale(i)
    BY <1>3 DEF Stale
  <1>12. \A i : ReadRight(i)' <=> ReadRight(i)
    BY <1>3, <1>4, <1>11 DEF ReadRight
  <1>6. SavePending' => SavePending
    <2> SUFFICES ASSUME SavePending' PROVE SavePending
      OBVIOUS
    <2>1. PICK i \in Index : Saved(i) /\ (i >= index' \/ i \in onLine')
      BY <1>4, <1>5 DEF SavePending
    <2>2. i >= index \/ i \in onLine
      BY <1>1, <1>3, <2>1
    <2> QED BY <2>1, <2>2 DEF SavePending
  <1>7. WorkInv'
    <2>1. ASSUME connected, SavePending, NEW i \in Index, Heard(i) \/ NowHeard(i)
          PROVE  /\ Written(i) /\ ~Stale(i) => work[Plan[i].part] \in Good
                 /\ ReadBack(i) => ReadRight(i)
      <3>1. CASE Heard(i)
        BY <1>2, <2>1, <3>1 DEF WorkInv
      <3>2. CASE NowHeard(i)
        BY <1>2, <2>1, <3>2 DEF WorkInv, NowHeard, Written, ReadBack, Saved, FoundGood
      <3> QED BY <2>1, <3>1, <3>2
    <2> QED BY <1>3, <1>4, <1>5, <1>6, <1>11, <1>12, <2>1 DEF WorkInv
  <1>8. FlashInv'
    <2>1. FlashIsWhole => FlashIsWhole'
      BY <1>3, <1>4, UnknowableGrows DEF FlashIsWhole
    <2>2. ASSUME NEW i \in Index, Saved(i), Heard(i)'
          PROVE  FlashIsWhole
      <3>1. Heard(i) \/ (acted /\ i = index)
        BY <1>3, <2>2 DEF NowHeard
      <3> QED BY <1>2, <2>2, <3>1 DEF FlashInv
    <2> QED BY <1>3, <1>4, <1>5, <2>1, <2>2 DEF FlashInv
  <1>9. CommitIsWhole'
    BY <1>2, <1>3, <1>4, UnknowableGrows DEF CommitIsWhole, All
  <1>10. VerifiedCommitIsExact'
    BY <1>2, <1>3, <1>4 DEF VerifiedCommitIsExact
  <1> QED BY <1>7, <1>8, <1>9, <1>10

-----------------------------------------------------------------------------
(* The manager's actions are such steps *)

LEMMA RunFromFacts ==
    ASSUME PlansAreWellFormed, TypeOK, NEW k \in Int, k \in 1 .. Len(Plan) + 1,
           send' = send, index' = k, RunFrom(k), report = "none"
    PROVE  /\ onLine' \subseteq onLine \union {k} /\ onLine' \subseteq Index
           /\ ~connected => onLine' = onLine
           /\ report' \in {"none", "ok", "cancelled"}
           /\ report' = "none" => k <= Len(Plan)
           /\ report' = "ok" => k > Len(Plan)
           /\ said' \in {"", "sent and verified", "sent, verified, and saved to flash"}
  <1>1. Index = 1 .. Len(Plan) /\ Len(Plan) \in Nat
    BY Typed
  <1>2. /\ onLine \subseteq Index
        /\ said \in {"", "sent and verified", "sent, verified, and saved to flash"}
    BY DEF TypeOK
  <1>3. CASE cancelled \/ k > Len(Plan)
    <2>1. Finish(IF cancelled THEN "cancelled" ELSE "ok") /\ onLine' = onLine
      BY <1>3 DEF RunFrom
    <2>2. report' = IF cancelled THEN "cancelled" ELSE "ok"
      BY <2>1 DEF Finish
    <2>3. said' \in {"", "sent and verified", "sent, verified, and saved to flash"}
      BY <1>2, <2>1 DEF Finish, Message
    <2> QED BY <1>2, <1>3, <2>1, <2>2, <2>3
  <1>4. CASE ~(cancelled \/ k > Len(Plan))
    <2>1. /\ onLine' = IF connected THEN onLine \union {k} ELSE onLine
          /\ report' = report /\ said' = said
      BY <1>4 DEF RunFrom
    <2>2. k \in Index /\ k <= Len(Plan) /\ ~(k > Len(Plan))
      BY <1>1, <1>4
    <2>3. onLine' \subseteq onLine \union {k} /\ onLine' \subseteq Index
      BY <1>2, <2>1, <2>2
    <2> QED BY <1>2, <2>1, <2>2, <2>3
  <1> QED BY <1>3, <1>4

\* What the manager's actions keep of the books, whatever the unit holds.
HostTyped == TypeOK' /\ (report' = "ok" => index' > Len(Plan))

LEMMA BeginIsHostStep ==
    ASSUME PlansAreWellFormed, CommitInv, Begin
    PROVE  HostStep /\ HostTyped
  <1>1. /\ send' = send /\ index = 0 /\ index' = 1 /\ report = "none" /\ RunFrom(1)
        /\ skipped' = skipped /\ lacked' = lacked /\ verifySkipped' = verifySkipped
        /\ flashSkipped' = flashSkipped /\ cancelled' = cancelled
        /\ acted' = acted /\ connected' = connected /\ work' = work /\ flash' = flash
        /\ restarted' = restarted /\ borrowed' = borrowed /\ read' = read
    BY DEF Begin
  <1>2. Len(Plan) \in Nat /\ Index = 1 .. Len(Plan) /\ onLine \subseteq Int
    BY Typed DEF CommitInv
  <1>3. acted = FALSE
    <2>1. acted \in BOOLEAN /\ (acted => index \in Index)
      BY DEF CommitInv, TypeOK, LineInv
    <2> QED BY <1>1, <1>2, <2>1
  <1>4. /\ onLine' \subseteq onLine \union {1} /\ onLine' \subseteq Index
        /\ ~connected => onLine' = onLine
        /\ report' \in {"none", "ok", "cancelled"}
        /\ report' = "none" => 1 <= Len(Plan)
        /\ report' = "ok" => 1 > Len(Plan)
        /\ said' \in {"", "sent and verified", "sent, verified, and saved to flash"}
    <2>1. 1 \in Int /\ 1 \in 1 .. Len(Plan) + 1
      BY <1>2
    <2>2. TypeOK
      BY DEF CommitInv
    <2> QED BY <1>1, <2>1, <2>2, RunFromFacts
  <1>5. \A i \in Index : ~ Heard(i)'
    BY <1>1, <1>2 DEF Heard
  <1>6. HostStep
    <2>1. index' \in index .. Len(Plan) + 1
      BY <1>1, <1>2
    <2>2. Reported' = Reported
      BY <1>1 DEF Reported
    <2>3. BorrowsNoRead
      BY <1>1 DEF BorrowsNoRead, TypeOK, CommitInv, NoReadBorrowed
    <2> QED BY <1>1, <1>3, <1>4, <1>5, <2>1, <2>2, <2>3 DEF HostStep
  <1>7. /\ Plan' = Plan /\ Index' = Index /\ Part' = Part
    BY <1>1 DEF Plan, Index, Part
  <1>8. TypeOK'
    <2>1. index' \in 0 .. Len(Plan) + 1 /\ (report' = "none" => index' \in 0 .. Len(Plan))
      <3>1. index' = 1 /\ (report' = "none" => 1 <= Len(Plan))
        BY <1>1, <1>4
      <3> QED BY <1>2, <3>1
    <2> QED BY <1>1, <1>3, <1>4, <1>7, <2>1 DEF CommitInv, TypeOK
  <1> QED BY <1>1, <1>4, <1>6, <1>8 DEF HostTyped

\* A step that has been answered and passed: what is behind the manager now.
LEMMA PassedIsHeard ==
    ASSUME PlansAreWellFormed, CommitInv, InFlight, send' = send,
           index' = index + 1, Reported \subseteq Reported',
           verifySkipped => verifySkipped', flashSkipped => flashSkipped',
           borrowed \subseteq borrowed', NEW i \in Index, Heard(i)'
    PROVE  \/ Heard(i)
           \/ /\ i = index
              /\ \/ Written(i) /\ Plan[i].part \notin Reported'
                 \/ ReadBack(i) /\ ~verifySkipped' /\ Plan[i].part \notin Reported'
                 \/ Saved(i) /\ ~flashSkipped'
              /\ i \notin borrowed'
  <1>1. Index = 1 .. Len(Plan) /\ Len(Plan) \in Nat /\ index \in Int
    BY Typed DEF CommitInv
  <1>2. Plan' = Plan /\ Index' = Index
    BY DEF Plan, Index
  <1>3. /\ i < index + 1 /\ i \notin borrowed'
        /\ \/ Written(i) /\ Plan[i].part \notin Reported'
           \/ ReadBack(i) /\ ~verifySkipped' /\ Plan[i].part \notin Reported'
           \/ Saved(i) /\ ~flashSkipped'
    BY <1>2 DEF Heard, Written, ReadBack, Saved
  <1>4. CASE i < index
    BY <1>3, <1>4 DEF Heard
  <1>5. CASE i = index
    BY <1>3, <1>5
  <1> QED BY <1>1, <1>3, <1>4, <1>5

\* The steps that move on by one share their typing.
LEMMA MoveOnTyped ==
    ASSUME PlansAreWellFormed, CommitInv, InFlight, NEW k \in Int,
           k \in index + 1 .. Len(Plan) + 1, index' = k, RunFrom(k),
           UNCHANGED <<send, cancelled, read, connected, work, flash, restarted>>,
           acted' = FALSE, BorrowsNoRead,
           skipped' \subseteq Part \union {NoPart}, lacked' \subseteq Part,
           verifySkipped' \in BOOLEAN, flashSkipped' \in BOOLEAN
    PROVE  /\ HostTyped
           /\ onLine' \subseteq onLine \union {index'}
           /\ ~connected => onLine' = onLine
           /\ index' \in index .. Len(Plan) + 1
  <1>1. /\ Len(Plan) \in Nat /\ Index = 1 .. Len(Plan) /\ index \in Int /\ index >= 0 /\ TypeOK
        /\ report = "none"
    BY Typed DEF CommitInv, InFlight
  <1>2. k \in 1 .. Len(Plan) + 1 /\ k \in index .. Len(Plan) + 1
    BY <1>1
  <1>3. /\ onLine' \subseteq onLine \union {k} /\ onLine' \subseteq Index
        /\ ~connected => onLine' = onLine
        /\ report' \in {"none", "ok", "cancelled"}
        /\ report' = "none" => k <= Len(Plan)
        /\ report' = "ok" => k > Len(Plan)
        /\ said' \in {"", "sent and verified", "sent, verified, and saved to flash"}
    BY <1>1, <1>2, RunFromFacts
  <1>4. /\ Plan' = Plan /\ Index' = Index /\ Part' = Part
    BY DEF Plan, Index, Part
  <1>5. k \in 0 .. Len(Plan) + 1 /\ (report' = "none" => k \in 0 .. Len(Plan))
    <2>1. Len(Plan) \in Nat /\ (report' = "none" => k <= Len(Plan))
      BY <1>1, <1>3
    <2> QED BY <1>2, <2>1
  <1>6. TypeOK'
    <2>1. /\ send \in Sends /\ work \in [Part -> Content] /\ flash \in [Part -> Content]
          /\ {cancelled, connected} \subseteq BOOLEAN /\ read \in Content
          /\ restarted \subseteq 0 .. Len(Plan) + 1
      BY <1>1 DEF TypeOK
    <2> QED BY <1>3, <1>4, <1>5, <2>1 DEF TypeOK, BorrowsNoRead
  <1> QED BY <1>2, <1>3, <1>6 DEF HostTyped

LEMMA StopIsHostStep ==
    ASSUME PlansAreWellFormed, CommitInv, InFlight, Finish("failed"),
           UNCHANGED <<send, cancelled, read, connected, work, flash, restarted, index, onLine,
                       skipped, lacked, verifySkipped, flashSkipped>>, acted' = FALSE,
           BorrowsNoRead
    PROVE  HostStep /\ HostTyped
  <1>1. Len(Plan) \in Nat /\ index \in 0 .. Len(Plan) + 1 /\ index \in Int /\ TypeOK
    BY Typed DEF CommitInv
  <1>2. report' = "failed" /\ said' = said
    BY DEF Finish
  <1>3. /\ Plan' = Plan /\ Index' = Index /\ Part' = Part /\ Reported' = Reported
    BY DEF Plan, Index, Part, Reported
  <1>4. \A i : Heard(i)' => Heard(i)
    BY <1>3 DEF Heard, Written, ReadBack, Saved, BorrowsNoRead
  <1>5. HostStep
    <2>1. index' \in index .. Len(Plan) + 1
      BY <1>1
    <2> QED BY <1>3, <1>4, <2>1 DEF HostStep
  <1>6. TypeOK'
    BY <1>1, <1>2, <1>3 DEF TypeOK, BorrowsNoRead
  <1> QED BY <1>2, <1>5, <1>6 DEF HostTyped

LEMMA SucceedIsHostStep ==
    ASSUME PlansAreWellFormed, CommitInv, InFlight, Succeed, acted' = FALSE,
           UNCHANGED <<send, cancelled, read, connected, work, flash, restarted>>
    PROVE  HostStep /\ HostTyped
  <1>1. /\ connected
        /\ borrowed' = IF acted THEN borrowed ELSE borrowed \union {index}
        /\ UNCHANGED <<skipped, lacked, verifySkipped, flashSkipped>>
    BY DEF Succeed, Possible
  <1>4. BorrowsNoRead
    <2>1. borrowed \subseteq Index /\ index \in Index /\ NoReadBorrowed
      BY DEF CommitInv, TypeOK, InFlight
    <2>2. Plan[index].cmd = "verify" => acted
      BY DEF Succeed, Possible, AnswersForAnother
    <2> QED BY <1>1, <2>1, <2>2 DEF BorrowsNoRead, NoReadBorrowed
  <1>2. CASE Mismatched
    <2>1. Finish("failed") /\ UNCHANGED <<index, onLine>>
      BY <1>2 DEF Succeed
    <2> QED BY <1>1, <1>4, <2>1, StopIsHostStep
  <1>3. CASE ~Mismatched
    <2>1. index' = index + 1 /\ RunFrom(index + 1)
      BY <1>3 DEF Succeed
    <2>2. TypeOK /\ index \in Index /\ Index = 1 .. Len(Plan) /\ Len(Plan) \in Nat
      BY Typed DEF CommitInv, InFlight
    <2>3. index + 1 \in Int /\ index + 1 \in index + 1 .. Len(Plan) + 1
      BY <2>2
    <2>4. /\ skipped' \subseteq Part \union {NoPart} /\ lacked' \subseteq Part
          /\ verifySkipped' \in BOOLEAN /\ flashSkipped' \in BOOLEAN
      BY <1>1, <2>2 DEF TypeOK
    <2>5. /\ HostTyped
          /\ onLine' \subseteq onLine \union {index'}
          /\ ~connected => onLine' = onLine
          /\ index' \in index .. Len(Plan) + 1
      BY <1>4, <2>1, <2>3, <2>4, MoveOnTyped
    <2>6. Reported' = Reported
      BY <1>1 DEF Reported
    <2>7. ASSUME NEW i \in Index, Heard(i)'
          PROVE  Heard(i) \/ NowHeard(i)
      <3>1. \/ Heard(i)
            \/ /\ i = index /\ i \notin borrowed'
               /\ \/ Written(i)
                  \/ ReadBack(i) /\ ~verifySkipped /\ Plan[i].part \notin Reported
                  \/ Saved(i)
        BY <1>1, <1>4, <2>1, <2>6, <2>7, PassedIsHeard DEF BorrowsNoRead
      <3>2. ReadBack(index) => read = "good"
        BY <1>3 DEF Mismatched, ReadBack
      <3>3. i = index /\ i \notin borrowed' => acted
        BY <1>1
      <3> QED BY <1>1, <3>1, <3>2, <3>3 DEF NowHeard, FoundGood
    <2>8. HostStep
      BY <1>1, <1>4, <2>5, <2>6, <2>7 DEF HostStep
    <2> QED BY <2>5, <2>8
  <1> QED BY <1>2, <1>3

LEMMA SkipIsHostStep ==
    ASSUME PlansAreWellFormed, CommitInv, InFlight, NEW outcome, Skip(outcome), acted' = FALSE,
           UNCHANGED <<send, cancelled, read, connected, work, flash, restarted>>
    PROVE  HostStep /\ HostTyped
  <1>1. TypeOK /\ index \in Index /\ Index = 1 .. Len(Plan) /\ Len(Plan) \in Nat /\ send \in Sends
    BY Typed DEF CommitInv, InFlight
  <1>2. /\ index' = index + 1 /\ RunFrom(index + 1) /\ verifySkipped' = verifySkipped
        /\ borrowed' = borrowed
        /\ flashSkipped' = (flashSkipped \/ Plan[index].cmd = "save")
        /\ IF Quiet(Plan[index], outcome)
           THEN lacked' = lacked \union {Plan[index].part} /\ UNCHANGED skipped
           ELSE skipped' = skipped \union {Plan[index].part} /\ UNCHANGED lacked
    BY DEF Skip
  <1>10. BorrowsNoRead
    BY <1>1, <1>2 DEF BorrowsNoRead, TypeOK, CommitInv, NoReadBorrowed
  <1>3. /\ Plan[index].part \in Part \union {NoPart}
        /\ Plan[index].quiet => Plan[index].part \in Part
    BY <1>1, PartsOfSteps
  <1>4. /\ skipped' \subseteq Part \union {NoPart} /\ lacked' \subseteq Part
        /\ verifySkipped' \in BOOLEAN /\ flashSkipped' \in BOOLEAN
    <2>1. /\ skipped \subseteq Part \union {NoPart} /\ lacked \subseteq Part
          /\ verifySkipped \in BOOLEAN /\ flashSkipped \in BOOLEAN
      BY <1>1 DEF TypeOK
    <2>2. CASE Quiet(Plan[index], outcome)
      BY <1>2, <1>3, <2>1, <2>2 DEF Quiet
    <2>3. CASE ~Quiet(Plan[index], outcome)
      BY <1>2, <1>3, <2>1, <2>3
    <2> QED BY <2>2, <2>3
  <1>5. index + 1 \in Int /\ index + 1 \in index + 1 .. Len(Plan) + 1
    BY <1>1
  <1>6. /\ HostTyped
        /\ onLine' \subseteq onLine \union {index'}
        /\ ~connected => onLine' = onLine
        /\ index' \in index .. Len(Plan) + 1
    BY <1>2, <1>4, <1>5, <1>10, MoveOnTyped
  <1>7. Reported' = Reported \union {Plan[index].part}
    BY <1>2 DEF Reported
  <1>8. ASSUME NEW i \in Index, Heard(i)'
        PROVE  Heard(i)
    <2>1. \/ Heard(i)
          \/ /\ i = index
             /\ \/ Written(i) /\ Plan[i].part \notin Reported'
                \/ ReadBack(i) /\ Plan[i].part \notin Reported'
                \/ Saved(i) /\ ~flashSkipped'
      BY <1>2, <1>7, <1>8, PassedIsHeard
    <2> QED BY <1>2, <1>7, <2>1 DEF Saved
  <1>9. HostStep
    BY <1>2, <1>6, <1>7, <1>8, <1>10 DEF HostStep
  <1> QED BY <1>6, <1>9

LEMMA AbandonIsHostStep ==
    ASSUME PlansAreWellFormed, CommitInv, InFlight, AbandonVerify, acted' = FALSE,
           UNCHANGED <<send, cancelled, read, connected, work, flash, restarted>>
    PROVE  HostStep /\ HostTyped
  <1>1. TypeOK /\ index \in Index /\ Index = 1 .. Len(Plan) /\ Len(Plan) \in Nat /\ send \in Sends
    BY Typed DEF CommitInv, InFlight
  <1>2. /\ verifySkipped' = TRUE /\ skipped' = skipped \union {NoPart}
        /\ UNCHANGED <<lacked, flashSkipped, borrowed>>
        /\ Plan[index].cmd = "verify" /\ index' = AfterVerify /\ RunFrom(AfterVerify)
    BY DEF AbandonVerify
  <1>3. /\ AfterVerify \in index + 1 .. Len(Plan) + 1
        /\ \A j \in index .. AfterVerify - 1 : j \in Index /\ Plan[j].cmd = "verify"
    BY <1>1, <1>2, AfterVerifyFacts DEF ReadBack
  <1>4. /\ skipped' \subseteq Part \union {NoPart} /\ lacked' \subseteq Part
        /\ verifySkipped' \in BOOLEAN /\ flashSkipped' \in BOOLEAN
    BY <1>1, <1>2 DEF TypeOK
  <1>10. BorrowsNoRead
    BY <1>1, <1>2 DEF BorrowsNoRead, TypeOK, CommitInv, NoReadBorrowed
  <1>5. AfterVerify \in Int
    BY <1>1, <1>3
  <1>6. /\ HostTyped
        /\ onLine' \subseteq onLine \union {index'}
        /\ ~connected => onLine' = onLine
        /\ index' \in index .. Len(Plan) + 1
    BY <1>2, <1>3, <1>4, <1>5, <1>10, MoveOnTyped
  <1>7. Reported \subseteq Reported' /\ Plan' = Plan /\ Index' = Index
    BY <1>2 DEF Reported, Plan, Index
  <1>8. ASSUME NEW i \in Index, Heard(i)'
        PROVE  Heard(i)
    <2>1. /\ i < AfterVerify /\ i \notin borrowed
          /\ \/ Written(i) /\ Plan[i].part \notin Reported
             \/ Saved(i) /\ ~flashSkipped
      BY <1>2, <1>7, <1>8 DEF Heard, Written, ReadBack, Saved
    <2>2. i < index
      <3>1. CASE i >= index
        <4>1. i \in index .. AfterVerify - 1
          BY <1>1, <1>5, <2>1, <3>1
        <4> QED BY <1>3, <2>1, <4>1 DEF Written, Saved
      <3> QED BY <1>1, <3>1
    <2> QED BY <2>1, <2>2 DEF Heard
  <1>9. HostStep
    BY <1>2, <1>6, <1>7, <1>8, <1>10 DEF HostStep
  <1> QED BY <1>6, <1>9

-----------------------------------------------------------------------------
(* The unit acts on a copy *)

\* What holds when the unit acts on request i, and what it leaves of the line.
UnitActsOn(i) ==
    /\ i \in onLine /\ connected
    /\ Act(Plan[i])
    /\ acted' = (i = index)
    /\ read' = IF Plan[i].cmd = "verify" THEN work[Plan[i].part] ELSE "none"
    /\ onLine' = {j \in onLine : j >= i}
    /\ UNCHANGED <<send, hostVars, connected, restarted, borrowed>>

LEMMA ActFacts ==
    ASSUME PlansAreWellFormed, CommitInv, NEW i, UnitActsOn(i)
    PROVE  /\ TypeOK /\ i \in Index /\ i <= index /\ Index = 1 .. Len(Plan) /\ Len(Plan) \in Nat
           /\ index \in Int /\ Plan[i].cmd \in Cmd
           /\ Plan' = Plan /\ Index' = Index /\ Part' = Part /\ Verified' = Verified
           /\ Staged' = Staged /\ Reported' = Reported
           /\ \A j : /\ Heard(j)' <=> Heard(j)
                     /\ Written(j)' <=> Written(j)
                     /\ ReadBack(j)' <=> ReadBack(j)
                     /\ Saved(j)' <=> Saved(j)
                     /\ Stale(j)' <=> Stale(j)
           /\ \A p : Unknowable(p)' <=> Unknowable(p)
           /\ \A j \in Index : Heard(j) => i >= j
           /\ SavePending' => \E j \in Index : Saved(j) /\ j >= i
           /\ SavePending' => SavePending
  <1>1. /\ i \in Index /\ i <= index /\ Index = 1 .. Len(Plan) /\ Len(Plan) \in Nat
        /\ index \in Int /\ TypeOK /\ send \in Sends
    BY Typed DEF CommitInv, UnitActsOn, LineInv, TypeOK
  <1>2. Plan[i].cmd \in Cmd
    BY <1>1, PartsOfSteps
  <1>3. /\ Plan' = Plan /\ Index' = Index /\ Part' = Part /\ Verified' = Verified
        /\ Staged' = Staged /\ Reported' = Reported /\ index' = index
        /\ verifySkipped' = verifySkipped /\ flashSkipped' = flashSkipped
        /\ restarted' = restarted /\ borrowed' = borrowed
    BY DEF UnitActsOn, hostVars, Plan, Index, Part, Verified, Staged, Reported
  <1>4. \A j : /\ Heard(j)' <=> Heard(j)
               /\ Written(j)' <=> Written(j)
               /\ ReadBack(j)' <=> ReadBack(j)
               /\ Saved(j)' <=> Saved(j)
               /\ Stale(j)' <=> Stale(j)
    BY <1>3 DEF Heard, Written, ReadBack, Saved, Stale
  <1>7. \A p : Unknowable(p)' <=> Unknowable(p)
    BY <1>3 DEF Unknowable, TellsOf
  <1>5. \A j \in Index : Heard(j) => i >= j
    BY DEF CommitInv, NothingOlder, UnitActsOn
  <1>6. ASSUME SavePending'
        PROVE  SavePending /\ \E j \in Index : Saved(j) /\ j >= i
    <2>1. PICK j \in Index : Saved(j) /\ (j >= index \/ j \in onLine')
      BY <1>3, <1>4, <1>6 DEF SavePending
    <2>2. j >= i
      <3>1. CASE j >= index
        BY <1>1, <3>1
      <3>2. CASE j \in onLine'
        BY <3>2 DEF UnitActsOn
      <3> QED BY <2>1, <3>1, <3>2
    <2>3. j >= index \/ j \in onLine
      BY <2>1 DEF UnitActsOn
    <2> QED BY <2>1, <2>2, <2>3 DEF SavePending
  <1> QED BY <1>1, <1>2, <1>3, <1>4, <1>5, <1>6, <1>7

LEMMA ActKeepsType ==
    ASSUME PlansAreWellFormed, CommitInv, NEW i, UnitActsOn(i)
    PROVE  TypeOK' /\ (report' = "ok" => index' > Len(Plan))
  <1>1. /\ TypeOK /\ i \in Index /\ Part' = Part /\ Plan' = Plan /\ Index' = Index
        /\ (report = "ok" => index > Len(Plan))
    BY ActFacts DEF CommitInv
  <1>2. work \in [Part -> Content] /\ flash \in [Part -> Content]
    BY <1>1 DEF TypeOK
  <1>3. All("none") \in [Part -> Content]
    BY DEF All, Content
  <1>4. Act(Plan[i])
    BY DEF UnitActsOn
  <1>5. work' \in [Part -> Content] /\ flash' \in [Part -> Content]
    <2>1. CASE Plan[i].cmd = "clear"
      BY <1>2, <1>3, <1>4, <2>1 DEF Act
    <2>2. CASE Plan[i].cmd = "write"
      <3>1. PICK how \in Stored(Plan[i].part) : work' = [work EXCEPT ![Plan[i].part] = how]
        BY <1>4, <2>2 DEF Act
      <3>2. how \in Content
        BY DEF Stored, Content
      <3>3. flash' = flash
        BY <1>4, <2>2 DEF Act
      <3> QED BY <1>2, <3>1, <3>2, <3>3
    <2>3. CASE Plan[i].cmd = "save"
      BY <1>2, <1>4, <2>3 DEF Act
    <2>4. CASE Plan[i].cmd = "reset"
      BY <1>2, <1>4, <2>4 DEF Act
    <2>5. CASE Plan[i].cmd \notin {"clear", "write", "save", "reset"}
      BY <1>2, <1>4, <2>5 DEF Act
    <2> QED BY <2>1, <2>2, <2>3, <2>4, <2>5
  <1>6. onLine' \subseteq Index /\ acted' \in BOOLEAN
    BY <1>1 DEF UnitActsOn, TypeOK
  <1>7. UNCHANGED <<send, index, report, cancelled, skipped, lacked, verifySkipped, flashSkipped,
                    said, connected, restarted, borrowed>>
    BY DEF UnitActsOn, hostVars
  <1>8. read' \in Content
    <2>1. "none" \in Content
      BY DEF Content
    <2>2. CASE Plan[i].cmd = "verify"
      <3>1. Plan[i].part \in Part /\ read' = work[Plan[i].part]
        BY <1>1, <2>2, PartsOfSteps DEF UnitActsOn, TypeOK
      <3> QED BY <1>2, <3>1
    <2>3. CASE Plan[i].cmd # "verify"
      BY <2>1, <2>3 DEF UnitActsOn
    <2> QED BY <2>2, <2>3
  <1> QED BY <1>1, <1>5, <1>6, <1>7, <1>8 DEF TypeOK

LEMMA ActKeepsLine ==
    ASSUME PlansAreWellFormed, CommitInv, NEW i, UnitActsOn(i)
    PROVE  LineInv' /\ NothingOlder'
  <1>1. /\ i \in Index /\ Index' = Index /\ \A j \in Index : Heard(j)' <=> Heard(j)
    BY ActFacts
  <1>2. /\ onLine' \subseteq onLine /\ \A j \in onLine' : j >= i
        /\ index' = index /\ connected' = connected /\ connected
        /\ acted' => i = index
    BY DEF UnitActsOn, hostVars
  <1>3. LineInv /\ NothingOlder
    BY DEF CommitInv
  <1>4. LineInv'
    BY <1>1, <1>2, <1>3 DEF LineInv
  <1>5. NothingOlder'
    BY <1>1, <1>2, <1>3 DEF NothingOlder
  <1> QED BY <1>4, <1>5

LEMMA ActKeepsWork ==
    ASSUME PlansAreWellFormed, CommitInv, NEW i, UnitActsOn(i)
    PROVE  WorkInv'
  <1>1. /\ TypeOK /\ i \in Index /\ i <= index /\ Index = 1 .. Len(Plan)
        /\ Plan' = Plan /\ Index' = Index /\ send \in Sends /\ Reported' = Reported
        /\ \A j : /\ Heard(j)' <=> Heard(j)
                  /\ Written(j)' <=> Written(j)
                  /\ ReadBack(j)' <=> ReadBack(j)
                  /\ Stale(j)' <=> Stale(j)
        /\ \A j \in Index : Heard(j) => i >= j
        /\ SavePending' => \E j \in Index : Saved(j) /\ j >= i
        /\ SavePending' => SavePending
    BY ActFacts DEF TypeOK
  <1>2. /\ Act(Plan[i]) /\ connected /\ index' = index /\ (acted' => i = index)
        /\ verifySkipped' = verifySkipped
    BY DEF UnitActsOn, hostVars
  <1>3. WorkInv /\ work \in [Part -> Content]
    BY <1>1 DEF CommitInv, TypeOK
  <1>4. \A j \in Index : (Written(j) \/ ReadBack(j)) => Plan[j].part \in Part
    BY <1>1, PartsOfSteps DEF Written, ReadBack
  <1>5. acted' /\ Written(index) => work'[Plan[index].part] \in Good
    <2> SUFFICES ASSUME acted', Written(index) PROVE work'[Plan[index].part] \in Good
      OBVIOUS
    <2>1. i = index /\ Plan[i].cmd = "write" /\ Plan[i].part \in Part
      BY <1>1, <1>2, <1>4 DEF Written
    <2>2. PICK how \in Stored(Plan[i].part) : work' = [work EXCEPT ![Plan[i].part] = how]
      BY <1>2, <2>1 DEF Act
    <2>3. how \in Good
      BY DEF Stored, Good
    <2> QED BY <1>3, <2>1, <2>2, <2>3
  <1>6. ASSUME acted', FoundGood(index)'
        PROVE  ReadRight(index)'
    <2>1. i = index /\ Plan[i].cmd = "verify" /\ read' = "good" /\ index' = index
      BY <1>1, <1>2, <1>6 DEF FoundGood, ReadBack
    <2>2. work' = work /\ read' = work[Plan[i].part]
      BY <1>2, <2>1 DEF Act, UnitActsOn
    <2> QED BY <1>1, <2>1, <2>2 DEF ReadRight
  <1>7. ASSUME SavePending', NEW j \in Index, Heard(j)
        PROVE  /\ Written(j) /\ ~Stale(j) => work'[Plan[j].part] \in Good
               /\ ReadBack(j) => ReadRight(j)'
    <2>1. i >= j /\ i \in Int /\ j \in Int
      BY <1>1, <1>7
    <2>2. /\ Written(j) /\ ~Stale(j) => work[Plan[j].part] \in Good
          /\ ReadBack(j) => ReadRight(j)
      BY <1>1, <1>2, <1>3, <1>7 DEF WorkInv
    <2>3. work' = work => (ReadRight(j) => ReadRight(j)')
      BY <1>1 DEF ReadRight
    <2>4. CASE Plan[i].cmd = "clear"
      BY <1>1, <2>1, <2>4, Order DEF Written, ReadBack
    <2>5. CASE Plan[i].cmd = "write"
      <3>1. PICK how \in Stored(Plan[i].part) : work' = [work EXCEPT ![Plan[i].part] = how]
        BY <1>2, <2>5 DEF Act
      <3>2. how \in Good
        BY DEF Stored, Good
      <3>3. ~ReadBack(j)
        BY <1>1, <2>1, <2>5, Order DEF ReadBack
      <3> QED BY <1>3, <1>4, <2>2, <3>1, <3>2, <3>3
    <2>6. CASE Plan[i].cmd = "save"
      BY <1>2, <2>2, <2>3, <2>6 DEF Act
    <2>7. CASE Plan[i].cmd = "reset"
      <3>1. PICK k \in Index : Saved(k) /\ k >= i
        BY <1>1, <1>7
      <3>2. k < i
        BY <1>1, <2>7, <3>1, Order DEF Saved
      <3> QED BY <1>1, <3>1, <3>2
    <2>8. CASE Plan[i].cmd \notin {"clear", "write", "save", "reset"}
      BY <1>2, <2>2, <2>3, <2>8 DEF Act
    <2> QED BY <2>4, <2>5, <2>6, <2>7, <2>8
  <1> QED BY <1>1, <1>2, <1>5, <1>6, <1>7 DEF WorkInv

\* A save commits what the steps before it left: every part written and every part
\* read back is behind it.
LEMMA SaveIsWhole ==
    ASSUME PlansAreWellFormed, CommitInv, NEW i, UnitActsOn(i), Plan[i].cmd = "save"
    PROVE  FlashIsWhole' /\ VerifiedCommitIsExact'
  <1>1. /\ TypeOK /\ i \in Index /\ i <= index /\ Index = 1 .. Len(Plan) /\ index \in Int
        /\ Part' = Part /\ Verified' = Verified /\ Reported' = Reported /\ send \in Sends
        /\ \A p : Unknowable(p)' <=> Unknowable(p)
    BY ActFacts DEF TypeOK
  <1>2. /\ flash' = work /\ work' = work /\ verifySkipped' = verifySkipped /\ connected
        /\ i \in onLine
    BY DEF UnitActsOn, Act, hostVars
  <1>3. SavePending
    BY <1>1, <1>2 DEF SavePending, Saved
  <1>4. \A j \in Index : Heard(j) =>
            /\ Written(j) /\ ~Stale(j) => work[Plan[j].part] \in Good
            /\ ReadBack(j) => ReadRight(j)
    BY <1>2, <1>3 DEF CommitInv, WorkInv
  <1>5. ASSUME NEW p \in Part, p \notin Reported, ~Unknowable(p)
        PROVE  work[p] \in Good
    <2>1. PICK j \in Index : TellsOf(p, j) /\ j \notin borrowed /\ ~Stale(j)
      BY <1>5 DEF Unknowable, Stale
    <2>2. Plan[j].part = p /\ (Written(j) \/ (ReadBack(j) /\ ~verifySkipped))
      BY <2>1 DEF TellsOf, Written, ReadBack
    <2>3. j < i
      BY <1>1, <2>2, Order DEF Written, ReadBack
    <2>4. j < index
      BY <1>1, <2>3
    <2>5. Heard(j)
      BY <1>5, <2>1, <2>2, <2>4 DEF Heard
    <2> QED BY <1>4, <2>1, <2>2, <2>5 DEF ReadRight, Good
  <1>6. ASSUME NEW p \in Verified, p \notin Reported, ~verifySkipped
        PROVE  work[p] # "bad"
    <2>1. PICK j \in Index : Plan[j].cmd = "verify" /\ Plan[j].part = p
      BY <1>1, PartsOfSteps
    <2>2. j < i
      BY <1>1, <2>1, Order
    <2>3. j < index
      BY <1>1, <2>2
    <2>4. ReadBack(j)
      BY <2>1 DEF ReadBack
    <2>5. CASE j \notin borrowed
      BY <1>4, <1>6, <2>1, <2>3, <2>4, <2>5 DEF Heard, ReadRight
    <2>6. CASE j \in borrowed
      BY <1>1, <2>1, <2>6 DEF CommitInv, NoReadBorrowed
    <2> QED BY <2>5, <2>6
  <1>7. FlashIsWhole'
    BY <1>1, <1>2, <1>5 DEF FlashIsWhole
  <1>8. VerifiedCommitIsExact'
    BY <1>1, <1>2, <1>6 DEF VerifiedCommitIsExact
  <1> QED BY <1>7, <1>8

LEMMA ActKeepsFlash ==
    ASSUME PlansAreWellFormed, CommitInv, NEW i, UnitActsOn(i)
    PROVE  FlashInv' /\ CommitIsWhole' /\ VerifiedCommitIsExact'
  <1>1. /\ TypeOK /\ i \in Index /\ Index = 1 .. Len(Plan) /\ send \in Sends
        /\ Plan' = Plan /\ Index' = Index /\ Part' = Part /\ Verified' = Verified
        /\ Staged' = Staged /\ Reported' = Reported
        /\ \A j : (Heard(j)' <=> Heard(j)) /\ (Saved(j)' <=> Saved(j))
        /\ \A p : Unknowable(p)' <=> Unknowable(p)
        /\ \A j \in Index : Heard(j) => i >= j
    BY ActFacts DEF TypeOK
  <1>2. /\ Act(Plan[i]) /\ index' = index /\ (acted' => i = index)
        /\ verifySkipped' = verifySkipped
    BY DEF UnitActsOn, hostVars
  <1>3. FlashInv /\ CommitIsWhole /\ VerifiedCommitIsExact
    BY DEF CommitInv
  <1>4. CASE Plan[i].cmd = "save"
    <2>1. FlashIsWhole' /\ VerifiedCommitIsExact'
      BY <1>4, SaveIsWhole
    <2>2. CommitIsWhole'
      BY <2>1 DEF FlashIsWhole, CommitIsWhole, Good
    <2> QED BY <2>1, <2>2 DEF FlashInv
  <1>5. CASE Plan[i].cmd # "save" /\ flash' = flash
    <2>1. CommitIsWhole' /\ VerifiedCommitIsExact'
      BY <1>1, <1>2, <1>3, <1>5 DEF CommitIsWhole, VerifiedCommitIsExact, All
    <2>2. FlashIsWhole => FlashIsWhole'
      BY <1>1, <1>5 DEF FlashIsWhole
    <2>3. ASSUME NEW j \in Index, Saved(j), Heard(j) \/ (acted' /\ j = index)
          PROVE  FlashIsWhole
      <3>1. Heard(j)
        BY <1>2, <1>5, <2>3 DEF Saved
      <3> QED BY <1>3, <2>3, <3>1 DEF FlashInv
    <2>4. FlashInv'
      BY <1>1, <1>2, <2>2, <2>3 DEF FlashInv
    <2> QED BY <2>1, <2>4
  <1>6. CASE Plan[i].cmd = "clear" /\ ~Staged
    <2>1. flash' = All("none")
      BY <1>2, <1>6 DEF Act
    <2>2. CommitIsWhole'
      BY <1>1, <1>6, <2>1 DEF CommitIsWhole, All
    <2>3. VerifiedCommitIsExact'
      <3>1. Verified \subseteq Part
        BY <1>1, PartsOfSteps
      <3> QED BY <1>1, <2>1, <3>1 DEF VerifiedCommitIsExact, All
    <2>4. \A j \in Index : Saved(j) => ~Heard(j) /\ j # i
      BY <1>1, <1>6, Order DEF Saved
    <2>5. FlashInv'
      BY <1>1, <1>2, <2>4 DEF FlashInv
    <2> QED BY <2>2, <2>3, <2>5
  <1>7. CASE Plan[i].cmd # "save" /\ flash' # flash
    <2>1. Plan[i].cmd = "clear" /\ ~Staged
      BY <1>2, <1>7 DEF Act
    <2> QED BY <1>6, <2>1
  <1> QED BY <1>4, <1>5, <1>7

-----------------------------------------------------------------------------
(* Every step *)

LEMMA InitSound ==
    ASSUME PlansAreWellFormed, Init
    PROVE  CommitInv
  <1>1. /\ send \in Sends /\ index = 0 /\ report = "none" /\ said = ""
        /\ cancelled = FALSE /\ flashSkipped = FALSE /\ verifySkipped = send.guarded
        /\ skipped = {} /\ lacked = {} /\ onLine = {} /\ acted = FALSE /\ connected = TRUE
        /\ work = All("old") /\ flash = All("old") /\ read = "none"
        /\ restarted = {} /\ borrowed = {}
    BY DEF Init
  <1>2. Len(Plan) \in Nat /\ Index = 1 .. Len(Plan) /\ send.guarded \in BOOLEAN
    BY <1>1, PlanFacts
  <1>3. \A i \in Index : ~Heard(i)
    <2>1. index = 0
      BY <1>1
    <2> QED BY <1>2, <2>1 DEF Heard
  <1>4. TypeOK
    <2>1. All("old") \in [Part -> Content] /\ read \in Content
      BY <1>1 DEF All, Content
    <2>2. index \in 0 .. Len(Plan) + 1 /\ index \in 0 .. Len(Plan)
      <3>1. index = 0
        BY <1>1
      <3> QED BY <1>2, <3>1
    <2> QED BY <1>1, <1>2, <2>1, <2>2 DEF TypeOK
  <1>5. LineInv /\ NothingOlder /\ NoReadBorrowed
    BY <1>1, <1>3 DEF LineInv, NothingOlder, NoReadBorrowed
  <1>6. WorkInv /\ FlashInv
    BY <1>1, <1>3 DEF WorkInv, FlashInv
  <1>7. VerifiedCommitIsExact
    <2>1. \A p \in Part : flash[p] # "bad"
      BY <1>1 DEF All
    <2>2. Verified \subseteq Part
      BY <1>1, PartsOfSteps
    <2> QED BY <2>1, <2>2 DEF VerifiedCommitIsExact
  <1> QED BY <1>1, <1>4, <1>5, <1>6, <1>7 DEF CommitInv, CommitIsWhole

LEMMA HostStepSound ==
    ASSUME PlansAreWellFormed, CommitInv, HostStep, HostTyped
    PROVE  CommitInv'
  <1>1. Plan' = Plan
    BY DEF HostStep, Plan
  <1>2. NoReadBorrowed'
    BY <1>1 DEF HostStep, BorrowsNoRead, NoReadBorrowed
  <1> QED BY <1>1, <1>2, HostStepKeepsLine, HostStepKeepsUnit DEF CommitInv, HostTyped

LEMMA AnswerSound ==
    ASSUME PlansAreWellFormed, CommitInv, Answer
    PROVE  CommitInv'
  <1>1. /\ InFlight /\ acted' = FALSE
        /\ UNCHANGED <<send, cancelled, read, connected, work, flash, restarted>>
        /\ \/ Succeed \/ AbandonVerify
           \/ \E outcome \in Outcome \ {"ok"} : Skip(outcome) \/ Fail(outcome)
    BY DEF Answer
  <1>2. CASE Succeed
    BY <1>1, <1>2, SucceedIsHostStep, HostStepSound
  <1>3. CASE AbandonVerify
    BY <1>1, <1>3, AbandonIsHostStep, HostStepSound
  <1>4. ASSUME NEW outcome \in Outcome \ {"ok"}, Skip(outcome)
        PROVE  CommitInv'
    BY <1>1, <1>4, SkipIsHostStep, HostStepSound
  <1>5. ASSUME NEW outcome \in Outcome \ {"ok"}, Fail(outcome)
        PROVE  CommitInv'
    <2>1. Finish("failed")
          /\ UNCHANGED <<index, skipped, lacked, verifySkipped, flashSkipped, onLine, borrowed>>
      BY <1>5 DEF Fail
    <2>2. BorrowsNoRead
      BY <2>1 DEF BorrowsNoRead, TypeOK, CommitInv, NoReadBorrowed
    <2> QED BY <1>1, <2>1, <2>2, StopIsHostStep, HostStepSound
  <1> QED BY <1>1, <1>2, <1>3, <1>4, <1>5

LEMMA UnitActsSound ==
    ASSUME PlansAreWellFormed, CommitInv, UnitActs
    PROVE  CommitInv'
  <1>1. PICK i : UnitActsOn(i)
    BY DEF UnitActs, UnitActsOn
  <1>2. Plan' = Plan
    BY <1>1, ActFacts
  <1>3. NoReadBorrowed'
    BY <1>1, <1>2 DEF CommitInv, NoReadBorrowed, UnitActsOn
  <1> QED BY <1>1, <1>2, <1>3, ActKeepsType, ActKeepsLine, ActKeepsWork, ActKeepsFlash
          DEF CommitInv

\* Nothing but what the invariant does not read, or what it only reads while the
\* unit is connected.
LEMMA QuietStepSound ==
    ASSUME PlansAreWellFormed, CommitInv, TypeOK',
           UNCHANGED <<send, index, skipped, lacked, verifySkipped, flashSkipped, acted, read,
                       flash, restarted, borrowed>>,
           \/ UNCHANGED <<onLine, connected, work>>
           \/ onLine' = {} /\ connected' = FALSE,
           report' = "ok" => report = "ok"
    PROVE  CommitInv'
  <1>1. /\ Plan' = Plan /\ Index' = Index /\ Part' = Part /\ Verified' = Verified
        /\ Staged' = Staged /\ Reported' = Reported
    BY DEF Plan, Index, Part, Verified, Staged, Reported
  <1>2. \A j : /\ Heard(j)' <=> Heard(j)
               /\ Written(j)' <=> Written(j)
               /\ ReadBack(j)' <=> ReadBack(j)
               /\ Saved(j)' <=> Saved(j)
               /\ Stale(j)' <=> Stale(j)
               /\ FoundGood(j)' <=> FoundGood(j)
    BY <1>1 DEF Heard, Written, ReadBack, Saved, Stale, FoundGood
  <1>3. LineInv'
    BY <1>1 DEF CommitInv, LineInv
  <1>4. NothingOlder' /\ NoReadBorrowed'
    BY <1>1, <1>2 DEF CommitInv, NothingOlder, NoReadBorrowed
  <1>5. WorkInv'
    <2>1. CASE UNCHANGED <<onLine, connected, work>>
      <3>1. SavePending' <=> SavePending
        BY <1>1, <1>2, <2>1 DEF SavePending
      <3>2. \A j : ReadRight(j)' <=> ReadRight(j)
        BY <1>1, <1>2, <2>1 DEF ReadRight
      <3> QED BY <1>1, <1>2, <2>1, <3>1, <3>2 DEF CommitInv, WorkInv
    <2>2. CASE connected' = FALSE
      BY <2>2 DEF WorkInv
    <2> QED BY <2>1, <2>2
  <1>6. \A p : Unknowable(p) <=> Unknowable(p)'
    BY <1>1 DEF Unknowable, TellsOf
  <1>7. FlashInv'
    BY <1>1, <1>2, <1>6 DEF CommitInv, FlashInv, FlashIsWhole
  <1>8. CommitIsWhole' /\ VerifiedCommitIsExact'
    BY <1>1, <1>6 DEF CommitInv, CommitIsWhole, VerifiedCommitIsExact, All
  <1> QED BY <1>1, <1>3, <1>4, <1>5, <1>7, <1>8 DEF CommitInv

\* A restart takes back what was heard up to the step in flight; what the flash
\* holds is not wrong.
LEMMA RestartSound ==
    ASSUME PlansAreWellFormed, CommitInv, Restart
    PROVE  CommitInv'
  <1>1. /\ TypeOK /\ Len(Plan) \in Nat /\ Index = 1 .. Len(Plan) /\ index \in Int
        /\ index \in 0 .. Len(Plan) + 1 /\ send \in Sends
    BY Typed DEF CommitInv
  <1>2. /\ work' = flash /\ restarted' = restarted \union {index}
        /\ UNCHANGED <<send, hostVars, onLine, acted, read, connected, flash, borrowed>>
        /\ connected
    BY DEF Restart
  <1>3. /\ Plan' = Plan /\ Index' = Index /\ Part' = Part /\ Verified' = Verified
        /\ Staged' = Staged /\ Reported' = Reported /\ index' = index
        /\ verifySkipped' = verifySkipped /\ report' = report /\ flashSkipped' = flashSkipped
    BY <1>2 DEF hostVars, Plan, Index, Part, Verified, Staged, Reported
  <1>4. \A j : /\ Heard(j)' <=> Heard(j)
               /\ Written(j)' <=> Written(j)
               /\ ReadBack(j)' <=> ReadBack(j)
               /\ Saved(j)' <=> Saved(j)
               /\ FoundGood(j)' <=> FoundGood(j)
    BY <1>2, <1>3 DEF Heard, Written, ReadBack, Saved, FoundGood
  <1>5. TypeOK'
    <2>1. restarted' \subseteq 0 .. Len(Plan) + 1 /\ work' \in [Part -> Content]
      BY <1>1, <1>2 DEF TypeOK
    <2> QED BY <1>1, <1>2, <1>3, <2>1 DEF TypeOK, hostVars
  <1>6. LineInv' /\ NothingOlder' /\ NoReadBorrowed'
    BY <1>2, <1>3, <1>4 DEF CommitInv, LineInv, NothingOlder, NoReadBorrowed
  <1>7. ASSUME NEW j \in Index, j <= index
        PROVE  Stale(j)'
    BY <1>2, <1>7 DEF Stale
  <1>8. ASSUME NEW j \in Index, ReadBack(j), ~verifySkipped, Plan[j].part \notin Reported
        PROVE  flash[Plan[j].part] # "bad"
    <2>1. Plan[j].part \in Verified
      BY <1>8 DEF Verified, ReadBack
    <2> QED BY <1>8, <2>1 DEF CommitInv, VerifiedCommitIsExact
  <1>9. WorkInv'
    <2>1. acted' /\ Written(index)' => Stale(index)'
      <3>1. Written(index)' => index \in Index
        BY <1>3, <1>4 DEF Written
      <3>2. index \in Index => Stale(index)'
        BY <1>1, <1>3, <1>7
      <3> QED BY <3>1, <3>2
    <2>2. acted' /\ FoundGood(index)' => ReadRight(index)'
      <3> SUFFICES ASSUME FoundGood(index) PROVE ReadRight(index)'
        BY <1>3, <1>4
      <3>1. index \in Index /\ Stale(index)'
        <4>1. index \in Index /\ index <= index
          BY <1>1 DEF FoundGood, ReadBack
        <4> QED BY <1>3, <1>7, <4>1
      <3>2. flash[Plan[index].part] # "bad"
        BY <1>8, <3>1 DEF FoundGood
      <3> QED BY <1>2, <1>3, <3>1, <3>2 DEF ReadRight
    <2>3. ASSUME NEW j \in Index, Heard(j)
          PROVE  Stale(j)' /\ (ReadBack(j) => ReadRight(j)')
      <3>1. j <= index
        BY <1>1, <2>3 DEF Heard
      <3>2. Stale(j)'
        BY <1>7, <3>1
      <3>3. ASSUME ReadBack(j)
            PROVE  ReadRight(j)'
        <4>1. ~verifySkipped /\ Plan[j].part \notin Reported
          BY <2>3, <3>3 DEF Heard, Written, ReadBack, Saved
        <4>2. flash[Plan[j].part] # "bad"
          BY <1>8, <3>3, <4>1
        <4> QED BY <1>2, <1>3, <3>2, <4>2 DEF ReadRight
      <3> QED BY <3>2, <3>3
    <2> QED BY <1>3, <1>4, <2>1, <2>2, <2>3 DEF WorkInv
  <1>10. \A p : Unknowable(p) => Unknowable(p)'
    BY <1>2, <1>3, UnknowableGrows
  <1>11. FlashInv'
    BY <1>2, <1>3, <1>4, <1>10 DEF CommitInv, FlashInv, FlashIsWhole
  <1>12. CommitIsWhole' /\ VerifiedCommitIsExact'
    BY <1>2, <1>3, <1>10 DEF CommitInv, CommitIsWhole, VerifiedCommitIsExact, All
  <1> QED BY <1>3, <1>5, <1>6, <1>9, <1>11, <1>12 DEF CommitInv

LEMMA StepSound ==
    ASSUME PlansAreWellFormed, CommitInv, [Next]_vars
    PROVE  CommitInv'
  <1>1. TypeOK
    BY DEF CommitInv
  <1>2. CASE Begin
    BY <1>2, BeginIsHostStep, HostStepSound
  <1>3. CASE Answer
    BY <1>3, AnswerSound
  <1>4. CASE Cancel
    <2>1. TypeOK'
      BY <1>1, <1>4 DEF TypeOK, Cancel, unitVars, Part, Index, Plan
    <2> QED BY <1>4, <2>1, QuietStepSound DEF Cancel, unitVars
  <1>5. CASE OwnerDies
    <2>1. TypeOK'
      BY <1>1, <1>5 DEF TypeOK, OwnerDies, unitVars, Part, Index, Plan
    <2> QED BY <1>5, <2>1, QuietStepSound DEF OwnerDies, unitVars
  <1>6. CASE UnitActs
    BY <1>6, UnitActsSound
  <1>7. CASE PowerCut
    <2>1. TypeOK'
      BY <1>1, <1>7 DEF TypeOK, PowerCut, hostVars, Part, Index, Plan
    <2> QED BY <1>7, <2>1, QuietStepSound DEF PowerCut, hostVars
  <1>10. CASE Restart
    BY <1>10, RestartSound
  <1>8. CASE UNCHANGED vars
    <2>1. TypeOK'
      BY <1>1, <1>8 DEF TypeOK, vars, hostVars, unitVars, Part, Index, Plan
    <2> QED BY <1>8, <2>1, QuietStepSound DEF vars, hostVars, unitVars
  <1>9. Done => UNCHANGED vars
    BY DEF Done
  <1> QED BY <1>2, <1>3, <1>4, <1>5, <1>6, <1>7, <1>8, <1>9, <1>10 DEF Next

LEMMA CommitInvariant == PlansAreWellFormed => (Spec => []CommitInv)
  <1>1. ASSUME PlansAreWellFormed, Init PROVE CommitInv
    BY <1>1, InitSound
  <1>2. ASSUME PlansAreWellFormed, CommitInv, [Next]_vars PROVE CommitInv'
    BY <1>2, StepSound
  <1>3. ASSUME PlansAreWellFormed PROVE Spec => []CommitInv
    BY <1>1, <1>2, <1>3, PTL DEF Spec
  <1> QED BY <1>3

-----------------------------------------------------------------------------
(* The plans BuildSendSteps() builds *)

\* The data and options of a Send.
SendData ==
    [plansTables : BOOLEAN, tables : Nat, script : Nat, buses : Nat, project : Nat,
     verify : BOOLEAN, saveToFlash : BOOLEAN, resetAfter : BOOLEAN]

Kind == {"none", "name", "table", "script", "passwords", "channels", "channelsExt", "bus",
         "project", "header"}

PartName == Kind \X Nat

SoundSteps ==
    {s \in [cmd : Cmd, part : PartName, optional : BOOLEAN, lenient : BOOLEAN, quiet : BOOLEAN] :
        Sound(s)}

\* A piece of a plan whose phases run from lo to hi.
Piece(s, lo, hi) ==
    /\ s \in Seq(SoundSteps)
    /\ lo \in Nat /\ hi \in Nat /\ lo <= hi
    /\ \A i \in 1 .. Len(s) : lo <= Phase[s[i].cmd] /\ Phase[s[i].cmd] <= hi
    /\ \A i, j \in 1 .. Len(s) : i < j => Phase[s[i].cmd] <= Phase[s[j].cmd]

PartsOf(cmd, s) == {s[i].part : i \in {j \in 1 .. Len(s) : s[j].cmd = cmd}}

LEMMA PhaseType == \A cmd \in Cmd : Phase[cmd] \in Nat
  BY DEF Phase, Cmd

LEMMA Join ==
    ASSUME NEW s, NEW t, NEW a, NEW b, NEW c, NEW d, Piece(s, a, b), Piece(t, c, d), b <= c
    PROVE  Piece(s \o t, a, d)
  <1>1. s \in Seq(SoundSteps) /\ t \in Seq(SoundSteps)
    BY DEF Piece
  <1>2. /\ s \o t \in Seq(SoundSteps) /\ Len(s) \in Nat /\ Len(t) \in Nat
        /\ Len(s \o t) = Len(s) + Len(t)
        /\ \A i \in 1 .. Len(s) + Len(t) : (s \o t)[i] = IF i <= Len(s) THEN s[i] ELSE t[i - Len(s)]
    BY <1>1, ConcatProperties, LenProperties
  <1>3. a \in Nat /\ b \in Nat /\ c \in Nat /\ d \in Nat /\ a <= b /\ c <= d
    BY DEF Piece
  <1>4. \A i \in 1 .. Len(s) : /\ a <= Phase[s[i].cmd] /\ Phase[s[i].cmd] <= b
                               /\ Phase[s[i].cmd] \in Nat
    <2>1. \A i \in 1 .. Len(s) : s[i] \in SoundSteps
      BY <1>1, ElementOfSeq
    <2> QED BY <2>1, PhaseType DEF Piece, SoundSteps
  <1>5. \A i \in 1 .. Len(t) : /\ c <= Phase[t[i].cmd] /\ Phase[t[i].cmd] <= d
                               /\ Phase[t[i].cmd] \in Nat
    <2>1. \A i \in 1 .. Len(t) : t[i] \in SoundSteps
      BY <1>1, ElementOfSeq
    <2> QED BY <2>1, PhaseType DEF Piece, SoundSteps
  <1> DEFINE u == s \o t
  <1>6. ASSUME NEW i \in 1 .. Len(u)
        PROVE  \/ i \in 1 .. Len(s) /\ u[i] = s[i]
               \/ i - Len(s) \in 1 .. Len(t) /\ u[i] = t[i - Len(s)]
    BY <1>2
  <1>7. \A i \in 1 .. Len(u) : a <= Phase[u[i].cmd] /\ Phase[u[i].cmd] <= d
    <2> SUFFICES ASSUME NEW i \in 1 .. Len(u)
                 PROVE  a <= Phase[u[i].cmd] /\ Phase[u[i].cmd] <= d
      OBVIOUS
    <2> HIDE DEF u
    <2>1. CASE i \in 1 .. Len(s) /\ u[i] = s[i]
      BY <1>3, <1>4, <2>1
    <2>2. CASE i - Len(s) \in 1 .. Len(t) /\ u[i] = t[i - Len(s)]
      BY <1>3, <1>5, <2>2
    <2> QED BY <1>6, <2>1, <2>2
  <1>8. ASSUME NEW i \in 1 .. Len(u), NEW j \in 1 .. Len(u), i < j
        PROVE  Phase[u[i].cmd] <= Phase[u[j].cmd]
    <2>1. Len(u) \in Nat /\ i \in Int /\ j \in Int
      BY <1>2
    <2> HIDE DEF u
    <2>2. CASE j \in 1 .. Len(s) /\ u[j] = s[j]
      <3>1. i \in 1 .. Len(s) /\ u[i] = s[i]
        BY <1>2, <1>6, <1>8, <2>1, <2>2
      <3> QED BY <1>8, <2>2, <3>1 DEF Piece
    <2>3. CASE j - Len(s) \in 1 .. Len(t) /\ u[j] = t[j - Len(s)]
      <3>1. CASE i \in 1 .. Len(s) /\ u[i] = s[i]
        BY <1>3, <1>4, <1>5, <2>3, <3>1
      <3>2. CASE i - Len(s) \in 1 .. Len(t) /\ u[i] = t[i - Len(s)]
        <4>1. i - Len(s) < j - Len(s)
          BY <1>2, <1>8, <2>1
        <4> QED BY <2>3, <3>2, <4>1 DEF Piece
      <3> QED BY <1>6, <3>1, <3>2
    <2> QED BY <1>6, <2>2, <2>3
  <1> HIDE DEF u
  <1> SUFFICES Piece(u, a, d)
    BY DEF u
  <1>9. u \in Seq(SoundSteps) /\ a <= d
    BY <1>2, <1>3 DEF u
  <1> QED BY <1>3, <1>7, <1>8, <1>9 DEF Piece

LEMMA JoinParts ==
    ASSUME NEW s \in Seq(SoundSteps), NEW t \in Seq(SoundSteps), NEW cmd
    PROVE  PartsOf(cmd, s \o t) = PartsOf(cmd, s) \union PartsOf(cmd, t)
  <1>1. /\ Len(s) \in Nat /\ Len(t) \in Nat
        /\ Len(s \o t) = Len(s) + Len(t)
        /\ \A i \in 1 .. Len(s) + Len(t) : (s \o t)[i] = IF i <= Len(s) THEN s[i] ELSE t[i - Len(s)]
    BY ConcatProperties, LenProperties
  <1> DEFINE u == s \o t
  <1>2. \A i \in 1 .. Len(u) : \/ i \in 1 .. Len(s) /\ u[i] = s[i]
                               \/ i - Len(s) \in 1 .. Len(t) /\ u[i] = t[i - Len(s)]
    BY <1>1
  <1>3. \A i \in 1 .. Len(s) : i \in 1 .. Len(u) /\ u[i] = s[i]
    BY <1>1
  <1>4. \A i \in 1 .. Len(t) : i + Len(s) \in 1 .. Len(u) /\ u[i + Len(s)] = t[i]
    BY <1>1
  <1> HIDE DEF u
  <1>5. PartsOf(cmd, u) \subseteq PartsOf(cmd, s) \union PartsOf(cmd, t)
    BY <1>2 DEF PartsOf
  <1>6. PartsOf(cmd, s) \subseteq PartsOf(cmd, u)
    BY <1>3 DEF PartsOf
  <1>7. PartsOf(cmd, t) \subseteq PartsOf(cmd, u)
    BY <1>4 DEF PartsOf
  <1> QED BY <1>5, <1>6, <1>7 DEF u

LEMMA EmptyPiece ==
    ASSUME NEW k \in Nat
    PROVE  Piece(<<>>, k, k)
  BY EmptySeq DEF Piece

\* Steps of one command are a piece of one phase.
LEMMA OnePhase ==
    ASSUME NEW s \in Seq(SoundSteps), NEW cmd \in Cmd,
           \A i \in 1 .. Len(s) : s[i].cmd = cmd
    PROVE  Piece(s, Phase[cmd], Phase[cmd])
  <1>1. Phase[cmd] \in Nat
    BY PhaseType
  <1> QED BY <1>1 DEF Piece

LEMMA OneStep ==
    ASSUME NEW st \in SoundSteps
    PROVE  Piece(<<st>>, Phase[st.cmd], Phase[st.cmd])
  <1>1. <<st>> \in Seq(SoundSteps) /\ Len(<<st>>) = 1 /\ <<st>>[1] = st
    OBVIOUS
  <1>2. st.cmd \in Cmd
    BY DEF SoundSteps
  <1>3. \A i \in 1 .. Len(<<st>>) : <<st>>[i].cmd = st.cmd
    BY <1>1
  <1> QED BY <1>1, <1>2, <1>3, OnePhase

LEMMA SoundStep ==
    /\ \A cmd \in Cmd \ {"write", "verify"} :
          /\ Step(cmd, NoPart) \in SoundSteps /\ Step(cmd, NoPart).cmd = cmd
          /\ Lenient(Step(cmd, NoPart)) \in SoundSteps
          /\ Lenient(Step(cmd, NoPart)).cmd = cmd
    /\ \A cmd \in {"write", "verify"}, p \in PartName :
          /\ Step(cmd, p) \in SoundSteps /\ Step(cmd, p).cmd = cmd /\ Step(cmd, p).part = p
    /\ \A st \in SoundSteps :
          /\ Lenient(st) \in SoundSteps /\ Optional(st) \in SoundSteps
          /\ Lenient(st).cmd = st.cmd /\ Optional(st).cmd = st.cmd
          /\ Lenient(st).part = st.part /\ Optional(st).part = st.part
    /\ \A p \in PartName :
          /\ QuietIfUnsupported(Step("write", p)) \in SoundSteps
          /\ QuietIfUnsupported(Step("write", p)).cmd = "write"
  <1>1. NoPart \in PartName
    BY DEF NoPart, PartName, Kind
  <1>2. \A cmd \in Cmd \ {"write", "verify"} :
          /\ Step(cmd, NoPart) \in SoundSteps /\ Step(cmd, NoPart).cmd = cmd
          /\ Lenient(Step(cmd, NoPart)) \in SoundSteps
          /\ Lenient(Step(cmd, NoPart)).cmd = cmd
    BY <1>1 DEF Step, Lenient, SoundSteps, Sound
  <1>3. \A cmd \in {"write", "verify"}, p \in PartName :
          /\ Step(cmd, p) \in SoundSteps /\ Step(cmd, p).cmd = cmd /\ Step(cmd, p).part = p
    BY DEF Step, SoundSteps, Sound, Cmd
  <1>4. \A st \in SoundSteps :
          /\ Lenient(st) \in SoundSteps /\ Optional(st) \in SoundSteps
          /\ Lenient(st).cmd = st.cmd /\ Optional(st).cmd = st.cmd
          /\ Lenient(st).part = st.part /\ Optional(st).part = st.part
    BY DEF Lenient, Optional, SoundSteps, Sound
  <1>5. \A p \in PartName :
          /\ QuietIfUnsupported(Step("write", p)) \in SoundSteps
          /\ QuietIfUnsupported(Step("write", p)).cmd = "write"
    BY DEF QuietIfUnsupported, Step, SoundSteps, Sound, Cmd
  <1> QED BY <1>2, <1>3, <1>4, <1>5

\* The steps of one command for the parts in a sequence.
LEMMA StepsOfParts ==
    ASSUME NEW parts \in Seq(PartName), NEW cmd \in {"write", "verify"}, NEW s,
           s = [i \in DOMAIN parts |-> Step(cmd, parts[i])]
    PROVE  /\ s \in Seq(SoundSteps) /\ Len(s) = Len(parts)
           /\ \A i \in 1 .. Len(s) : s[i].cmd = cmd /\ s[i].part = parts[i]
           /\ Piece(s, Phase[cmd], Phase[cmd])
           /\ PartsOf(cmd, s) = {parts[i] : i \in 1 .. Len(parts)}
  <1>1. Len(parts) \in Nat /\ DOMAIN parts = 1 .. Len(parts)
    BY LenProperties
  <1>2. \A i \in 1 .. Len(parts) : /\ parts[i] \in PartName
                                   /\ Step(cmd, parts[i]) \in SoundSteps
                                   /\ Step(cmd, parts[i]).cmd = cmd
                                   /\ Step(cmd, parts[i]).part = parts[i]
    BY ElementOfSeq, SoundStep
  <1>3. s \in [1 .. Len(parts) -> SoundSteps]
    BY <1>1, <1>2
  <1>4. s \in Seq(SoundSteps) /\ Len(s) = Len(parts)
    BY <1>1, <1>3
  <1>5. \A i \in 1 .. Len(s) : s[i].cmd = cmd /\ s[i].part = parts[i]
    BY <1>1, <1>2, <1>4
  <1>6. Piece(s, Phase[cmd], Phase[cmd])
    <2>1. cmd \in Cmd
      BY DEF Cmd
    <2> QED BY <1>4, <1>5, <2>1, OnePhase
  <1>7. PartsOf(cmd, s) = {parts[i] : i \in 1 .. Len(parts)}
    <2>1. PartsOf(cmd, s) = {s[i].part : i \in 1 .. Len(s)}
      BY <1>5 DEF PartsOf
    <2>2. ASSUME NEW i \in 1 .. Len(s)
          PROVE  s[i].part \in {parts[k] : k \in 1 .. Len(parts)}
      <3>1. s[i].part = parts[i] /\ i \in 1 .. Len(parts)
        BY <1>4, <1>5
      <3> QED BY <3>1
    <2>3. ASSUME NEW i \in 1 .. Len(parts)
          PROVE  parts[i] \in {s[k].part : k \in 1 .. Len(s)}
      <3>1. s[i].part = parts[i] /\ i \in 1 .. Len(s)
        BY <1>4, <1>5
      <3> QED BY <3>1
    <2> QED BY <2>1, <2>2, <2>3
  <1> QED BY <1>4, <1>5, <1>6, <1>7

\* Marking steps optional or lenient changes neither what they do nor to what.
LEMMA MarkedSteps ==
    ASSUME NEW s \in Seq(SoundSteps), NEW lo, NEW hi, Piece(s, lo, hi)
    PROVE  /\ AllLenient(s) \in Seq(SoundSteps) /\ AllOptional(s) \in Seq(SoundSteps)
           /\ Piece(AllLenient(s), lo, hi) /\ Piece(AllOptional(s), lo, hi)
           /\ \A cmd : PartsOf(cmd, AllLenient(s)) = PartsOf(cmd, s)
  <1>1. Len(s) \in Nat /\ DOMAIN s = 1 .. Len(s)
    BY LenProperties
  <1>2. \A i \in 1 .. Len(s) : s[i] \in SoundSteps
    BY ElementOfSeq
  <1>3. /\ AllLenient(s) = [i \in 1 .. Len(s) |-> Lenient(s[i])]
        /\ AllOptional(s) = [i \in 1 .. Len(s) |-> Optional(s[i])]
    BY <1>1 DEF AllLenient, AllOptional
  <1>4. \A i \in 1 .. Len(s) : /\ Lenient(s[i]) \in SoundSteps /\ Optional(s[i]) \in SoundSteps
                               /\ Lenient(s[i]).cmd = s[i].cmd /\ Optional(s[i]).cmd = s[i].cmd
                               /\ Lenient(s[i]).part = s[i].part
    BY <1>2, SoundStep
  <1>5. /\ AllLenient(s) \in [1 .. Len(s) -> SoundSteps]
        /\ AllOptional(s) \in [1 .. Len(s) -> SoundSteps]
    BY <1>3, <1>4
  <1>6. /\ AllLenient(s) \in Seq(SoundSteps) /\ AllOptional(s) \in Seq(SoundSteps)
        /\ Len(AllLenient(s)) = Len(s) /\ Len(AllOptional(s)) = Len(s)
    BY <1>1, <1>5
  <1>7. \A i \in 1 .. Len(s) : /\ AllLenient(s)[i].cmd = s[i].cmd
                               /\ AllOptional(s)[i].cmd = s[i].cmd
                               /\ AllLenient(s)[i].part = s[i].part
    BY <1>3, <1>4
  <1>8. Piece(AllLenient(s), lo, hi)
    BY <1>6, <1>7 DEF Piece
  <1>9. Piece(AllOptional(s), lo, hi)
    BY <1>6, <1>7 DEF Piece
  <1>10. \A cmd : PartsOf(cmd, AllLenient(s)) = PartsOf(cmd, s)
    BY <1>6, <1>7 DEF PartsOf
  <1> QED BY <1>6, <1>8, <1>9, <1>10

LEMMA ChunksType ==
    ASSUME NEW kind \in Kind, NEW n \in Nat
    PROVE  Chunks(kind, n) \in Seq(PartName) /\ Len(Chunks(kind, n)) = n
  <1>1. \A i \in 1 .. n : <<kind, i>> \in PartName
    BY DEF PartName
  <1>2. Chunks(kind, n) \in [1 .. n -> PartName]
    BY <1>1 DEF Chunks
  <1> HIDE DEF PartName
  <1>3. \A f \in [1 .. n -> PartName] : f \in Seq(PartName) /\ Len(f) = n
    OBVIOUS
  <1> QED BY <1>2, <1>3

\* The parts in a sequence, and those of a plan's sequences.
Elements(parts) == {parts[i] : i \in 1 .. Len(parts)}

LEMMA ProjectFacts ==
    ASSUME NEW body \in Nat
    PROVE  /\ ProjectParts(body) \in Seq(PartName) /\ ProjectFromItsStart(body) \in Seq(PartName)
           /\ Elements(ProjectFromItsStart(body)) \subseteq Elements(ProjectParts(body))
  <1>1. CASE body = 0
    <2>1. ProjectParts(body) = <<>> /\ ProjectFromItsStart(body) = <<>>
      BY <1>1 DEF ProjectParts, ProjectFromItsStart
    <2> QED BY <2>1, EmptySeq
  <1>2. CASE body # 0
    <2> DEFINE c == Chunks("project", body)
               h == <<"header", 1>>
    <2>1. c \in Seq(PartName) /\ Len(c) = body
      BY ChunksType DEF Kind
    <2>2. h \in PartName
      BY DEF PartName, Kind
    <2>3. /\ ProjectParts(body) = Append(c, h)
          /\ ProjectFromItsStart(body) = <<h>> \o c
      BY <1>2 DEF ProjectParts, ProjectFromItsStart
    <2> HIDE DEF c, h
    <2>4. <<h>> \in Seq(PartName) /\ Len(<<h>>) = 1 /\ <<h>>[1] = h
      BY <2>2
    <2>5. /\ Append(c, h) \in Seq(PartName) /\ Len(Append(c, h)) = body + 1
          /\ \A i \in 1 .. body : Append(c, h)[i] = c[i]
          /\ Append(c, h)[body + 1] = h
      BY <2>1, <2>2, AppendProperties
    <2>6. /\ <<h>> \o c \in Seq(PartName) /\ Len(<<h>> \o c) = 1 + body
          /\ \A i \in 1 .. 1 + body : (<<h>> \o c)[i] = IF i <= 1 THEN h ELSE c[i - 1]
      BY <2>1, <2>4, ConcatProperties
    <2>7. ASSUME NEW i \in 1 .. 1 + body
          PROVE  (<<h>> \o c)[i] \in Elements(Append(c, h))
      <3>1. CASE i = 1
        <4>1. (<<h>> \o c)[i] = h
          BY <2>6, <3>1
        <4>2. body + 1 \in 1 .. Len(Append(c, h))
          BY <2>5
        <4> QED BY <2>5, <4>1, <4>2 DEF Elements
      <3>2. CASE i # 1
        <4>1. (<<h>> \o c)[i] = c[i - 1] /\ i - 1 \in 1 .. body /\ i - 1 \in 1 .. Len(Append(c, h))
          BY <2>5, <2>6, <3>2
        <4>2. Append(c, h)[i - 1] = c[i - 1]
          BY <2>5, <4>1
        <4> QED BY <4>1, <4>2 DEF Elements
      <3> QED BY <3>1, <3>2
    <2>8. Elements(<<h>> \o c) \subseteq Elements(Append(c, h))
      BY <2>6, <2>7 DEF Elements
    <2> QED BY <2>3, <2>5, <2>6, <2>8
  <1> QED BY <1>1, <1>2

\* A piece before the read-back reads nothing, one behind the writes writes nothing.
LEMMA PartsOfPiece ==
    ASSUME NEW s, NEW lo, NEW hi, Piece(s, lo, hi), NEW cmd \in Cmd,
           Phase[cmd] < lo \/ Phase[cmd] > hi
    PROVE  PartsOf(cmd, s) = {}
  <1> SUFFICES ASSUME NEW i \in 1 .. Len(s), s[i].cmd = cmd
               PROVE  FALSE
    BY DEF PartsOf
  <1>1. lo <= Phase[cmd] /\ Phase[cmd] <= hi /\ lo \in Nat /\ hi \in Nat
    BY DEF Piece
  <1> QED BY <1>1, PhaseType

\* A piece in which every part read back is among those written is well formed.
LEMMA PieceIsWellFormed ==
    ASSUME NEW s, NEW lo, NEW hi, Piece(s, lo, hi),
           PartsOf("verify", s) \subseteq PartsOf("write", s)
    PROVE  WellFormed(s)
  <1>1. s \in Seq(SoundSteps)
    BY DEF Piece
  <1>2. DOMAIN s = 1 .. Len(s) /\ Len(s) \in Nat
    BY <1>1, LenProperties
  <1>3. \A i \in 1 .. Len(s) : Sound(s[i])
    BY <1>1, ElementOfSeq DEF SoundSteps
  <1>4. InOrder(s)
    BY <1>2 DEF Piece, InOrder
  <1>5. ReadsBackWhatItWrote(s)
    <2> SUFFICES ASSUME NEW i \in 1 .. Len(s), s[i].cmd = "verify"
                 PROVE  \E j \in 1 .. Len(s) : s[j].cmd = "write" /\ s[j].part = s[i].part
      BY <1>2 DEF ReadsBackWhatItWrote
    <2>1. s[i].part \in PartsOf("verify", s)
      BY DEF PartsOf
    <2>2. s[i].part \in PartsOf("write", s)
      BY <2>1
    <2> QED BY <2>2 DEF PartsOf
  <1> QED BY <1>2, <1>3, <1>4, <1>5 DEF WellFormed

LEMMA WritesPiece ==
    ASSUME NEW parts \in Seq(PartName)
    PROVE  /\ Writes(parts) \in Seq(SoundSteps) /\ Piece(Writes(parts), 3, 3)
           /\ PartsOf("write", Writes(parts)) = Elements(parts)
  <1>1. Phase["write"] = 3
    BY DEF Phase, Cmd
  <1> QED BY <1>1, StepsOfParts DEF Writes, Elements

LEMMA VerifiesPiece ==
    ASSUME NEW parts \in Seq(PartName)
    PROVE  /\ Verifies(parts) \in Seq(SoundSteps) /\ Piece(Verifies(parts), 4, 4)
           /\ PartsOf("verify", Verifies(parts)) = Elements(parts)
  <1>1. Phase["verify"] = 4
    BY DEF Phase, Cmd
  <1> QED BY <1>1, StepsOfParts DEF Verifies, Elements

\* One step, or none, of a command that has no part.
LEMMA OptionalPiece ==
    ASSUME NEW condition, NEW cmd \in Cmd \ {"write", "verify"}
    PROVE  /\ Piece(Unless(condition, <<Step(cmd, NoPart)>>), Phase[cmd], Phase[cmd])
           /\ Piece(Unless(condition, <<Lenient(Step(cmd, NoPart))>>), Phase[cmd], Phase[cmd])
  <1>1. Phase[cmd] \in Nat
    BY PhaseType
  <1>2. Piece(<<>>, Phase[cmd], Phase[cmd])
    BY <1>1, EmptyPiece
  <1>3. /\ Step(cmd, NoPart) \in SoundSteps /\ Step(cmd, NoPart).cmd = cmd
        /\ Lenient(Step(cmd, NoPart)) \in SoundSteps
        /\ Lenient(Step(cmd, NoPart)).cmd = cmd
    BY SoundStep
  <1>4. /\ Piece(<<Step(cmd, NoPart)>>, Phase[cmd], Phase[cmd])
        /\ Piece(<<Lenient(Step(cmd, NoPart))>>, Phase[cmd], Phase[cmd])
    BY <1>3, OneStep
  <1> QED BY <1>2, <1>4 DEF Unless

\* What is written, and what is read back.
LEMMA WritePhase ==
    ASSUME NEW d \in SendData
    PROVE  LET T == Writes(Chunks("table", d.tables))
               S == AllLenient(Writes(Chunks("script", d.script)))
               W == AllOptional(Writes(<<<<"passwords", 1>>, <<"channels", 1>>>>))
               B == AllOptional(Writes(Chunks("bus", d.buses)))
               J == Writes(ProjectParts(d.project))
           IN  /\ Piece(T, 3, 3) /\ PartsOf("write", T) = Elements(Chunks("table", d.tables))
               /\ Piece(S, 3, 3) /\ PartsOf("write", S) = Elements(Chunks("script", d.script))
               /\ Piece(W, 3, 3) /\ Piece(B, 3, 3)
               /\ Piece(J, 3, 3) /\ PartsOf("write", J) = Elements(ProjectParts(d.project))
  <1>1. d.tables \in Nat /\ d.script \in Nat /\ d.buses \in Nat /\ d.project \in Nat
    BY DEF SendData
  <1>2. /\ Chunks("table", d.tables) \in Seq(PartName)
        /\ Chunks("script", d.script) \in Seq(PartName)
        /\ Chunks("bus", d.buses) \in Seq(PartName)
    BY <1>1, ChunksType DEF Kind
  <1>3. <<<<"passwords", 1>>, <<"channels", 1>>>> \in Seq(PartName)
    <2>1. <<"passwords", 1>> \in PartName /\ <<"channels", 1>> \in PartName
      BY DEF PartName, Kind
    <2> HIDE DEF PartName
    <2>2. \A p, q \in PartName : <<p, q>> \in Seq(PartName)
      OBVIOUS
    <2> QED BY <2>1, <2>2
  <1>4. ProjectParts(d.project) \in Seq(PartName)
    BY <1>1, ProjectFacts
  <1>5. \A parts \in Seq(PartName) :
            /\ Piece(Writes(parts), 3, 3)
            /\ PartsOf("write", Writes(parts)) = Elements(parts)
            /\ Piece(AllLenient(Writes(parts)), 3, 3) /\ Piece(AllOptional(Writes(parts)), 3, 3)
            /\ PartsOf("write", AllLenient(Writes(parts))) = Elements(parts)
    <2> TAKE parts \in Seq(PartName)
    <2>1. /\ Writes(parts) \in Seq(SoundSteps) /\ Piece(Writes(parts), 3, 3)
          /\ PartsOf("write", Writes(parts)) = Elements(parts)
      BY WritesPiece
    <2>2. /\ Piece(AllLenient(Writes(parts)), 3, 3) /\ Piece(AllOptional(Writes(parts)), 3, 3)
          /\ PartsOf("write", AllLenient(Writes(parts))) = PartsOf("write", Writes(parts))
      BY <2>1, MarkedSteps
    <2> QED BY <2>1, <2>2
  <1> QED BY <1>2, <1>3, <1>4, <1>5

LEMMA VerifyPhase ==
    ASSUME NEW d \in SendData
    PROVE  LET V == Verifies(Chunks("table", d.tables))
                    \o AllLenient(Verifies(Chunks("script", d.script)))
                    \o Verifies(ProjectFromItsStart(d.project))
           IN  /\ Piece(V, 4, 4)
               /\ PartsOf("verify", V) \subseteq Elements(Chunks("table", d.tables))
                      \union Elements(Chunks("script", d.script))
                      \union Elements(ProjectParts(d.project))
  <1> DEFINE T == Verifies(Chunks("table", d.tables))
             S == AllLenient(Verifies(Chunks("script", d.script)))
             J == Verifies(ProjectFromItsStart(d.project))
  <1>1. d.tables \in Nat /\ d.script \in Nat /\ d.project \in Nat
    BY DEF SendData
  <1>2. /\ Chunks("table", d.tables) \in Seq(PartName)
        /\ Chunks("script", d.script) \in Seq(PartName)
    BY <1>1, ChunksType DEF Kind
  <1>3. /\ ProjectFromItsStart(d.project) \in Seq(PartName)
        /\ Elements(ProjectFromItsStart(d.project)) \subseteq Elements(ProjectParts(d.project))
    BY <1>1, ProjectFacts
  <1>4. Piece(T, 4, 4) /\ PartsOf("verify", T) = Elements(Chunks("table", d.tables))
    BY <1>2, VerifiesPiece
  <1>5. Piece(J, 4, 4) /\ PartsOf("verify", J) \subseteq Elements(ProjectParts(d.project))
    BY <1>3, VerifiesPiece
  <1>6. Piece(S, 4, 4) /\ PartsOf("verify", S) = Elements(Chunks("script", d.script))
    <2> DEFINE U == Verifies(Chunks("script", d.script))
    <2>1. U \in Seq(SoundSteps) /\ Piece(U, 4, 4)
          /\ PartsOf("verify", U) = Elements(Chunks("script", d.script))
      BY <1>2, VerifiesPiece
    <2> HIDE DEF U
    <2>2. /\ Piece(AllLenient(U), 4, 4)
          /\ PartsOf("verify", AllLenient(U)) = PartsOf("verify", U)
      BY <2>1, MarkedSteps
    <2> QED BY <2>1, <2>2 DEF U
  <1> HIDE DEF T, S, J
  <1>7. Piece(T \o S, 4, 4) /\ PartsOf("verify", T \o S)
                                  = PartsOf("verify", T) \union PartsOf("verify", S)
    <2>1. T \in Seq(SoundSteps) /\ S \in Seq(SoundSteps)
      BY <1>4, <1>6 DEF Piece
    <2> QED BY <1>4, <1>6, <2>1, Join, JoinParts
  <1>8. Piece(T \o S \o J, 4, 4) /\ PartsOf("verify", T \o S \o J)
                                  = PartsOf("verify", T \o S) \union PartsOf("verify", J)
    <2> DEFINE U == T \o S
    <2> HIDE DEF U
    <2>1. Piece(U, 4, 4)
      BY <1>7 DEF U
    <2>2. U \in Seq(SoundSteps) /\ J \in Seq(SoundSteps)
      BY <1>5, <2>1 DEF Piece
    <2>3. Piece(U \o J, 4, 4)
      BY <1>5, <2>1, Join
    <2>4. PartsOf("verify", U \o J) = PartsOf("verify", U) \union PartsOf("verify", J)
      BY <2>2, JoinParts
    <2> QED BY <2>3, <2>4 DEF U
  <1> QED BY <1>4, <1>5, <1>6, <1>7, <1>8 DEF T, S, J

\* Whatever its data and options, the plan of a Send has its phases in order and
\* reads back only what it wrote; and one that is to be saved has a save.
LEMMA BuiltPlansAreWellFormed ==
    ASSUME NEW d \in SendData
    PROVE  /\ WellFormed(BuildSendSteps(d))
           /\ d.saveToFlash => PartsOf("save", BuildSendSteps(d)) # {}
  <1> DEFINE F == <<Step("ping", NoPart), Step("clear", NoPart)>>
             P == Unless(~d.plansTables, <<Step("plan", NoPart)>>)
             N == <<Optional(Step("write", <<"name", 1>>))>>
             T == Writes(Chunks("table", d.tables))
             S == AllLenient(Writes(Chunks("script", d.script)))
             W == AllOptional(Writes(<<<<"passwords", 1>>, <<"channels", 1>>>>))
             Q == <<QuietIfUnsupported(Step("write", <<"channelsExt", 1>>))>>
             B == AllOptional(Writes(Chunks("bus", d.buses)))
             J == Writes(ProjectParts(d.project))
             V == Unless(~d.verify, Verifies(Chunks("table", d.tables))
                                    \o AllLenient(Verifies(Chunks("script", d.script)))
                                    \o Verifies(ProjectFromItsStart(d.project)))
             K == Unless(~d.saveToFlash, <<Lenient(Step("save", NoPart))>>)
             R == Unless(~d.resetAfter, <<Lenient(Step("reset", NoPart))>>)
             ET == Elements(Chunks("table", d.tables))
             ES == Elements(Chunks("script", d.script))
             EJ == Elements(ProjectParts(d.project))
  <1>1. /\ Phase["ping"] = 0 /\ Phase["clear"] = 1 /\ Phase["plan"] = 2
        /\ Phase["write"] = 3 /\ Phase["save"] = 5 /\ Phase["reset"] = 6
        /\ {"ping", "clear", "plan", "save", "reset"} \subseteq Cmd \ {"write", "verify"}
        /\ {"write", "verify"} \subseteq Cmd /\ Phase["verify"] = 4
    BY DEF Phase, Cmd
  <1>2. {d.plansTables, d.verify, d.saveToFlash, d.resetAfter} \subseteq BOOLEAN
    BY DEF SendData
  <1>3. Piece(F, 0, 1)
    <2>1. /\ Step("ping", NoPart) \in SoundSteps /\ Step("ping", NoPart).cmd = "ping"
          /\ Step("clear", NoPart) \in SoundSteps /\ Step("clear", NoPart).cmd = "clear"
      BY <1>1, SoundStep
    <2> DEFINE a == Step("ping", NoPart)
               b == Step("clear", NoPart)
    <2> HIDE DEF a, b
    <2>2. F = <<a, b>> /\ Phase[a.cmd] = 0 /\ Phase[b.cmd] = 1
      BY <1>1, <2>1 DEF a, b
    <2>3. a \in SoundSteps /\ b \in SoundSteps
      BY <2>1 DEF a, b
    <2>4. /\ <<a, b>> \in Seq(SoundSteps) /\ Len(<<a, b>>) = 2
          /\ <<a, b>>[1] = a /\ <<a, b>>[2] = b
      BY <2>3
    <2> DEFINE f == <<a, b>>
    <2> HIDE DEF f
    <2>5. \A i \in 1 .. Len(f) : (i = 1 /\ f[i] = a) \/ (i = 2 /\ f[i] = b)
      BY <2>4 DEF f
    <2>6. Piece(f, 0, 1)
      <3>1. f \in Seq(SoundSteps)
        BY <2>4 DEF f
      <3> QED BY <2>2, <2>5, <3>1 DEF Piece
    <2> QED BY <2>2, <2>6 DEF f
  <1>4. Piece(P, 2, 2) /\ Piece(K, 5, 5) /\ Piece(R, 6, 6)
    BY <1>1, OptionalPiece
  <1>5. Piece(N, 3, 3) /\ Piece(Q, 3, 3)
    <2>1. <<"name", 1>> \in PartName /\ <<"channelsExt", 1>> \in PartName
      BY DEF PartName, Kind
    <2>2. /\ Step("write", <<"name", 1>>) \in SoundSteps
          /\ Step("write", <<"name", 1>>).cmd = "write"
      BY <2>1, SoundStep
    <2>3. /\ Optional(Step("write", <<"name", 1>>)) \in SoundSteps
          /\ Optional(Step("write", <<"name", 1>>)).cmd = "write"
      BY <2>2, SoundStep
    <2>4. /\ QuietIfUnsupported(Step("write", <<"channelsExt", 1>>)) \in SoundSteps
          /\ QuietIfUnsupported(Step("write", <<"channelsExt", 1>>)).cmd = "write"
      BY <2>1, SoundStep
    <2> QED BY <1>1, <2>3, <2>4, OneStep
  <1>6. /\ Piece(T, 3, 3) /\ PartsOf("write", T) = ET
        /\ Piece(S, 3, 3) /\ PartsOf("write", S) = ES
        /\ Piece(W, 3, 3) /\ Piece(B, 3, 3)
        /\ Piece(J, 3, 3) /\ PartsOf("write", J) = EJ
    BY WritePhase
  <1>7. Piece(V, 4, 4) /\ PartsOf("verify", V) \subseteq ET \union ES \union EJ
    <2>1. CASE d.verify
      BY <2>1, VerifyPhase DEF Unless
    <2>2. CASE ~d.verify
      <3>1. V = <<>>
        BY <2>2 DEF Unless
      <3>2. Piece(<<>>, 4, 4)
        BY EmptyPiece
      <3>3. PartsOf("verify", <<>>) = {}
        BY EmptySeq DEF PartsOf
      <3> QED BY <3>1, <3>2, <3>3
    <2> QED BY <1>2, <2>1, <2>2
  <1>8. BuildSendSteps(d)
            = F \o P \o N \o T \o S \o W \o Q \o B \o J \o V \o K \o R
    BY DEF BuildSendSteps
  <1> HIDE DEF F, P, N, T, S, W, Q, B, J, V, K, R, ET, ES, EJ
  <1>9. Piece(F \o P \o N, 0, 3)
    <2>1. Piece(F \o P, 0, 2)
      BY <1>3, <1>4, Join
    <2> QED BY <1>5, <2>1, Join
  <1> DEFINE X1 == F \o P \o N
             X2 == X1 \o T \o S
             X3 == X2 \o W \o Q \o B
             X4 == X3 \o J
             X5 == X4 \o V
             X6 == X5 \o K
             X7 == X6 \o R
  <1>10. Piece(X2, 0, 3) /\ ET \union ES \subseteq PartsOf("write", X2)
    <2> HIDE DEF X1
    <2>1. Piece(X1, 0, 3)
      BY <1>9 DEF X1
    <2>2. Piece(X1 \o T, 0, 3) /\ Piece(X1 \o T \o S, 0, 3)
      <3>1. Piece(X1 \o T, 0, 3)
        BY <1>6, <2>1, Join
      <3> QED BY <1>6, <3>1, Join
    <2>3. /\ X1 \in Seq(SoundSteps) /\ T \in Seq(SoundSteps) /\ S \in Seq(SoundSteps)
          /\ X1 \o T \in Seq(SoundSteps)
      BY <1>6, <2>1, <2>2 DEF Piece
    <2>4. /\ PartsOf("write", X1 \o T) = PartsOf("write", X1) \union PartsOf("write", T)
          /\ PartsOf("write", X1 \o T \o S)
                 = PartsOf("write", X1 \o T) \union PartsOf("write", S)
      BY <2>3, JoinParts
    <2> QED BY <1>6, <2>2, <2>4
  <1>11. Piece(X3, 0, 3) /\ ET \union ES \subseteq PartsOf("write", X3)
    <2> HIDE DEF X2
    <2>1. Piece(X2 \o W, 0, 3)
      BY <1>6, <1>10, Join
    <2>2. Piece(X2 \o W \o Q, 0, 3)
      BY <1>5, <2>1, Join
    <2>3. Piece(X2 \o W \o Q \o B, 0, 3)
      BY <1>6, <2>2, Join
    <2>4. /\ X2 \in Seq(SoundSteps) /\ W \in Seq(SoundSteps) /\ Q \in Seq(SoundSteps)
          /\ B \in Seq(SoundSteps) /\ X2 \o W \in Seq(SoundSteps)
          /\ X2 \o W \o Q \in Seq(SoundSteps)
      BY <1>5, <1>6, <1>10, <2>1, <2>2 DEF Piece
    <2>5. /\ PartsOf("write", X2) \subseteq PartsOf("write", X2 \o W)
          /\ PartsOf("write", X2 \o W) \subseteq PartsOf("write", X2 \o W \o Q)
          /\ PartsOf("write", X2 \o W \o Q) \subseteq PartsOf("write", X2 \o W \o Q \o B)
      <3>1. PartsOf("write", X2 \o W) = PartsOf("write", X2) \union PartsOf("write", W)
        BY <2>4, JoinParts
      <3>2. PartsOf("write", X2 \o W \o Q)
                = PartsOf("write", X2 \o W) \union PartsOf("write", Q)
        BY <2>4, JoinParts
      <3>3. PartsOf("write", X2 \o W \o Q \o B)
                = PartsOf("write", X2 \o W \o Q) \union PartsOf("write", B)
        BY <2>4, JoinParts
      <3> QED BY <3>1, <3>2, <3>3
    <2> QED BY <1>10, <2>3, <2>5
  <1>12. /\ Piece(X4, 0, 3) /\ ET \union ES \union EJ \subseteq PartsOf("write", X4)
         /\ PartsOf("verify", X4) = {}
    <2> HIDE DEF X3
    <2>1. Piece(X4, 0, 3)
      BY <1>6, <1>11, Join
    <2>2. X3 \in Seq(SoundSteps) /\ J \in Seq(SoundSteps)
      BY <1>6, <1>11 DEF Piece
    <2>3. PartsOf("write", X4) = PartsOf("write", X3) \union PartsOf("write", J)
      BY <2>2, JoinParts
    <2>4. PartsOf("verify", X4) = {}
      BY <1>1, <2>1, PartsOfPiece
    <2> QED BY <1>6, <1>11, <2>1, <2>3, <2>4
  <1>13. Piece(X5, 0, 4) /\ PartsOf("verify", X5) \subseteq PartsOf("write", X5)
    <2> HIDE DEF X4
    <2>1. Piece(X5, 0, 4)
      BY <1>7, <1>12, Join
    <2>2. X4 \in Seq(SoundSteps) /\ V \in Seq(SoundSteps)
      BY <1>7, <1>12 DEF Piece
    <2>3. /\ PartsOf("write", X5) = PartsOf("write", X4) \union PartsOf("write", V)
          /\ PartsOf("verify", X5) = PartsOf("verify", X4) \union PartsOf("verify", V)
      BY <2>2, JoinParts
    <2> QED BY <1>7, <1>12, <2>1, <2>3
  <1>14. Piece(X7, 0, 6) /\ PartsOf("verify", X7) \subseteq PartsOf("write", X7)
    <2> HIDE DEF X5
    <2>1. Piece(X6, 0, 5)
      BY <1>4, <1>13, Join
    <2>2. Piece(X7, 0, 6)
      BY <1>4, <2>1, Join
    <2>3. /\ X5 \in Seq(SoundSteps) /\ K \in Seq(SoundSteps) /\ R \in Seq(SoundSteps)
          /\ X6 \in Seq(SoundSteps)
      BY <1>4, <1>13, <2>1 DEF Piece
    <2>4. /\ PartsOf("verify", K) = {} /\ PartsOf("verify", R) = {}
      BY <1>1, <1>4, PartsOfPiece
    <2>5. /\ PartsOf("write", X6) = PartsOf("write", X5) \union PartsOf("write", K)
          /\ PartsOf("verify", X6) = PartsOf("verify", X5) \union PartsOf("verify", K)
      BY <2>3, JoinParts
    <2> HIDE DEF X6
    <2>6. /\ PartsOf("write", X7) = PartsOf("write", X6) \union PartsOf("write", R)
          /\ PartsOf("verify", X7) = PartsOf("verify", X6) \union PartsOf("verify", R)
      BY <2>3, JoinParts
    <2> QED BY <1>13, <2>2, <2>4, <2>5, <2>6
  <1>15. WellFormed(X7)
    <2> HIDE DEF X7
    <2> QED BY <1>14, PieceIsWellFormed
  <1>16. ASSUME d.saveToFlash
         PROVE  PartsOf("save", X7) # {}
    <2> HIDE DEF X5
    <2>1. K = <<Lenient(Step("save", NoPart))>>
      BY <1>16 DEF K, Unless
    <2>2. Lenient(Step("save", NoPart)).cmd = "save"
      BY <1>1, SoundStep
    <2>3. PartsOf("save", K) # {}
      <3>1. 1 \in 1 .. Len(K) /\ K[1].cmd = "save"
        BY <2>1, <2>2
      <3> QED BY <3>1 DEF PartsOf
    <2>4. Piece(X6, 0, 5)
      BY <1>4, <1>13, Join
    <2>5. /\ X5 \in Seq(SoundSteps) /\ K \in Seq(SoundSteps) /\ R \in Seq(SoundSteps)
          /\ X6 \in Seq(SoundSteps)
      BY <1>4, <1>13, <2>4 DEF Piece
    <2>6. PartsOf("save", X6) = PartsOf("save", X5) \union PartsOf("save", K)
      BY <2>5, JoinParts
    <2> HIDE DEF X6
    <2>7. PartsOf("save", X7) = PartsOf("save", X6) \union PartsOf("save", R)
      BY <2>5, JoinParts
    <2> QED BY <2>3, <2>6, <2>7
  <1> QED BY <1>8, <1>15, <1>16

-----------------------------------------------------------------------------
(* Theorems *)

\* The Sends considered are any that BuildSendSteps() can build, to either unit.
SendsAreBuilt ==
    \A s \in Sends :
        /\ s.staged \in BOOLEAN /\ s.echoes \in BOOLEAN /\ s.guarded \in BOOLEAN
        /\ \E d \in SendData : s.steps = BuildSendSteps(d)

LEMMA BuiltSends == SendsAreBuilt => PlansAreWellFormed
  BY BuiltPlansAreWellFormed DEF SendsAreBuilt, PlansAreWellFormed

LEMMA SoundSends == SendsAreBuilt => (Spec => []CommitInv)
  BY BuiltSends, CommitInvariant

\* For every plan ConfigTransfer::buildSendSteps() can build, with any number of
\* chunks: runNext()'s index, books and report, and the unit, keep their types.
THEOREM TypeCorrect == SendsAreBuilt => (Spec => []TypeOK)
  <1>1. CommitInv => TypeOK
    BY DEF CommitInv
  <1> QED BY <1>1, SoundSends, PTL

\* For every such plan, to a unit that echoes CRCs or not, the unit's flash is never
\* a mixture, whatever is lost, refused, late, repeated, cancelled or unplugged: it
\* holds what was there, nothing (a 1.x), or all that was sent but the parts named as
\* skipped -- and but those a 1.x lost in a restart its port outlived after the last
\* step that told of them, or whose write went by on the ACK of another request.
THEOREM CommitNeverMixed == SendsAreBuilt => (Spec => []CommitIsWhole)
  <1>1. CommitInv => CommitIsWhole
    BY DEF CommitInv
  <1> QED BY <1>1, SoundSends, PTL

\* For every such plan, behind a read-back that was carried through no part stored
\* wrong is committed, however late a copy of its write arrives.
THEOREM VerifiedIsExact == SendsAreBuilt => (Spec => []VerifiedCommitIsExact)
  <1>1. CommitInv => VerifiedCommitIsExact
    BY DEF CommitInv
  <1> QED BY <1>1, SoundSends, PTL

\* The Sends considered save, as every caller of ConfigTransfer::send() asks.
SendsSave ==
    \A s \in Sends : \E d \in SendData : d.saveToFlash /\ s.steps = BuildSendSteps(d)

\* "Saved to flash" is said behind the last step only, of a Send whose save was taken.
SaidInv ==
    said = "sent, verified, and saved to flash" => report = "ok" /\ ~flashSkipped

LEMMA RunFromSays ==
    ASSUME report = "none", SaidInv, NEW k, RunFrom(k)
    PROVE  SaidInv'
  <1>1. said # "sent, verified, and saved to flash"
    BY DEF SaidInv
  <1>2. CASE cancelled \/ k > Len(Plan)
    <2>1. /\ report' = IF cancelled THEN "cancelled" ELSE "ok"
          /\ said' = IF cancelled THEN said ELSE Message(flashSkipped')
      BY <1>2 DEF RunFrom, Finish
    <2> QED BY <1>1, <2>1 DEF SaidInv, Message
  <1>3. CASE ~(cancelled \/ k > Len(Plan))
    BY <1>1, <1>3 DEF RunFrom, SaidInv
  <1> QED BY <1>2, <1>3

LEMMA SaidInvariant == Spec => []SaidInv
  <1>1. Init => SaidInv
    BY DEF Init, SaidInv
  <1>2. ASSUME SaidInv, [Next]_vars
        PROVE  SaidInv'
    <2>1. CASE Begin
      BY <1>2, <2>1, RunFromSays DEF Begin
    <2>2. CASE Answer
      <3>1. report = "none"
        BY <2>2 DEF Answer, InFlight
      <3>2. ASSUME Finish("failed")
            PROVE  SaidInv'
        BY <1>2, <3>1, <3>2 DEF Finish, SaidInv
      <3>3. CASE Succeed
        BY <1>2, <3>1, <3>2, <3>3, RunFromSays DEF Succeed
      <3>4. CASE AbandonVerify
        BY <1>2, <3>1, <3>4, RunFromSays DEF AbandonVerify
      <3>5. ASSUME NEW outcome, Skip(outcome)
            PROVE  SaidInv'
        BY <1>2, <3>1, <3>5, RunFromSays DEF Skip
      <3>6. ASSUME NEW outcome, Fail(outcome)
            PROVE  SaidInv'
        BY <3>2, <3>6 DEF Fail
      <3> QED BY <2>2, <3>3, <3>4, <3>5, <3>6 DEF Answer
    <2>3. CASE Cancel
      BY <1>2, <2>3 DEF Cancel, SaidInv
    <2>4. CASE OwnerDies
      BY <1>2, <2>4 DEF OwnerDies, SaidInv
    <2>5. CASE UnitActs \/ PowerCut \/ Restart
      BY <1>2, <2>5 DEF UnitActs, PowerCut, Restart, hostVars, SaidInv
    <2>6. CASE Done \/ UNCHANGED vars
      BY <1>2, <2>6 DEF Done, vars, hostVars, SaidInv
    <2> QED BY <1>2, <2>1, <2>2, <2>3, <2>4, <2>5, <2>6 DEF Next
  <1> QED BY <1>1, <1>2, PTL DEF Spec

\* Of a Send the user is told was saved to flash, its save not gone by on the ACK of
\* another request, every part is on the flash or was named to the user, but for those
\* CommitNeverMixed excepts.
THEOREM SuccessTold == SendsAreBuilt /\ SendsSave => (Spec => []SuccessIsHonest)
  <1>1. ASSUME SendsAreBuilt, SendsSave, CommitInv, SaidInv
        PROVE  SuccessIsHonest
    <2>1. ASSUME said = "sent, verified, and saved to flash",
                 \A i \in borrowed : Plan[i].cmd # "save"
          PROVE  FlashIsWhole
      <3>1. report = "ok" /\ ~flashSkipped
        BY <1>1, <2>1 DEF SaidInv
      <3>2. /\ send \in Sends /\ Index = 1 .. Len(Plan) /\ Len(Plan) \in Nat /\ index \in Int
            /\ index > Len(Plan)
        BY <1>1, <3>1, BuiltSends, Typed DEF CommitInv
      <3>3. PICK i \in Index : Plan[i].cmd = "save"
        <4>1. PICK d \in SendData : d.saveToFlash /\ Plan = BuildSendSteps(d)
          BY <1>1, <3>2 DEF SendsSave, Plan
        <4>2. PartsOf("save", Plan) # {}
          BY <4>1, BuiltPlansAreWellFormed
        <4> QED BY <3>2, <4>2 DEF PartsOf
      <3>4. i < index
        BY <3>2
      <3>5. Heard(i) /\ Saved(i)
        BY <2>1, <3>1, <3>3, <3>4 DEF Heard, Saved
      <3> QED BY <1>1, <3>5 DEF CommitInv, FlashInv
    <2> QED BY <2>1 DEF SuccessIsHonest, FlashIsWhole, Good
  <1>2. ASSUME SendsAreBuilt, SendsSave
        PROVE  Spec => []SuccessIsHonest
    <2>1. CommitInv /\ SaidInv => SuccessIsHonest
      BY <1>1, <1>2
    <2>2. Spec => []CommitInv
      BY <1>2, SoundSends
    <2> QED BY <2>1, <2>2, SaidInvariant, PTL
  <1> QED BY <1>2
=============================================================================
