---------------------------- MODULE ProofExchange ----------------------------
(***************************************************************************)
(* Proving a password to a unit without sending it                         *)
(* (gui/src/protocol/device_session.cpp): the unit hands out a nonce, the  *)
(* host answers with the nonce's HMAC under the secret.  proveAccess() and *)
(* proveLicenseSecret() differ in two numbers only, Attempts and           *)
(* AnswerRetries.                                                          *)
(*                                                                         *)
(* The unit keeps one nonce, and the first answer it sees spends it.  The  *)
(* nonce's reply names no request, so a late one passes for the answer to  *)
(* a later challenge; an ACK or NACK names its frame's CRC if the unit       *)
(* echoes them, and older firmware does not.  The exchange is the host's   *)
(* only traffic while it lasts; the line is DeviceLink's: FIFO, losing and *)
(* delaying.  A garbled frame is a lost one here.                          *)
(***************************************************************************)
EXTENDS Integers, Sequences

CONSTANTS
    Attempts,         \* whole exchanges before ERR_LOCKED is believed
    ChallengeRetries, \* the challenge's retries
    AnswerRetries,    \* the answer's
    Echoes,           \* the units there are: does it echo CRCs
    MaxCalls,         \* how often the user tries (a bound)
    MaxRestarts       \* how often the unit restarts (a bound)

ASSUME ProofConstants ==
    /\ Attempts \in Nat \ {0} /\ MaxCalls \in Nat /\ MaxRestarts \in Nat
    /\ ChallengeRetries \in Nat /\ AnswerRetries \in Nat
    /\ Echoes \subseteq BOOLEAN

VARIABLES
    calls,     \* calls made so far
    right,     \* is the secret of this call the unit's
    waiting,   \* what the host waits for: "none", "nonce" or "verdict"
    attempt,   \* the exchange this is, from 0
    left,      \* retriesLeft of the request in flight
    nonce,     \* the challenge in hand
    outcome,   \* what the last call that ended told the user
    disturbed, \* in this exchange the challenge was sent again or the unit restarted
    toUnit,    \* frames: a challenge or the answer to a nonce
    toHost,    \* replies [kind, nonce, right]
    echoes,    \* does this unit echo CRCs
    slot,      \* the unit's outstanding nonce, 0 for none
    minted,    \* the last nonce the unit handed out
    accepted,  \* has the unit accepted an answer in this call
    restarts

hostVars == <<calls, right, waiting, attempt, left, nonce, outcome>>
unitVars == <<echoes, slot, minted, accepted, restarts>>
vars == <<hostVars, disturbed, toUnit, toHost, unitVars>>

\* The answer to nonce n with the right secret or a wrong one; `call' is a
\* history of whose it is and is not on the wire.
Answer(n, good, call) == [nonce |-> n, right |-> good, call |-> call]

Challenge == Answer(0, FALSE, 0)

Kind == {"nonce", "ack", "locked"}

TypeOK ==
    /\ calls \in 0 .. MaxCalls /\ restarts \in 0 .. MaxRestarts
    /\ right \in BOOLEAN /\ disturbed \in BOOLEAN /\ accepted \in BOOLEAN
    /\ waiting \in {"none", "nonce", "verdict"}
    /\ attempt \in 0 .. Attempts - 1 /\ left \in Nat
    /\ outcome \in {"none", "proved", "wrong", "no answer", "refused"}
    /\ minted \in Nat /\ nonce \in 0 .. minted /\ slot \in 0 .. minted
    /\ toUnit \in Seq([nonce : 0 .. minted, right : BOOLEAN, call : 0 .. calls])
    /\ toHost \in Seq([kind : Kind, nonce : 1 .. minted, right : BOOLEAN])
    /\ echoes \in Echoes

Init ==
    /\ calls = 0 /\ right = FALSE /\ waiting = "none" /\ attempt = 0 /\ left = 0
    /\ nonce = 0 /\ outcome = "none" /\ disturbed = FALSE
    /\ toUnit = <<>> /\ toHost = <<>>
    /\ echoes \in Echoes /\ slot = 0 /\ minted = 0 /\ accepted = FALSE /\ restarts = 0

-----------------------------------------------------------------------------
(* The host *)

\* fetchChallenge() of exchange k.
StartExchange(k) ==
    /\ waiting' = "nonce" /\ attempt' = k /\ left' = ChallengeRetries
    /\ toUnit' = Append(toUnit, Challenge)
    /\ disturbed' = FALSE
    /\ UNCHANGED <<nonce, outcome>>

Return(what) ==
    /\ waiting' = "none" /\ outcome' = what
    /\ UNCHANGED <<attempt, left, nonce, disturbed, toUnit>>

\* proveAccess(), proveLicenseSecret(), with the right secret or a wrong one.
Call ==
    /\ waiting = "none" /\ calls < MaxCalls
    /\ calls' = calls + 1
    /\ right' \in BOOLEAN
    /\ accepted' = FALSE
    /\ StartExchange(0)
    /\ UNCHANGED <<toHost, echoes, slot, minted, restarts>>

Frame == IF waiting = "nonce" THEN Challenge ELSE Answer(nonce, right, calls)

\* The timer of the request in flight: the frame again, or no answer.
Timeout ==
    /\ waiting # "none"
    /\ IF left > 0
       THEN /\ left' = left - 1
            /\ toUnit' = Append(toUnit, Frame)
            /\ disturbed' = (disturbed \/ waiting = "nonce")
            /\ UNCHANGED <<waiting, attempt, nonce, outcome>>
       ELSE Return("no answer")
    /\ UNCHANGED <<calls, right, toHost, unitVars>>

Take == toHost # <<>> /\ toHost' = Tail(toHost) /\ UNCHANGED <<calls, right, unitVars>>

\* (Seeded bug: the answer sent with the link's ordinary retries.)
OrdinaryRetries == ChallengeRetries

AnswerBudget == AnswerRetries

\* The nonce arrives, or an older one: answered at once.
ReceiveNonce ==
    /\ Take
    /\ waiting = "nonce" /\ Head(toHost).kind = "nonce"
    /\ nonce' = Head(toHost).nonce
    /\ waiting' = "verdict" /\ left' = AnswerBudget
    /\ toUnit' = Append(toUnit, Answer(Head(toHost).nonce, right, calls))
    /\ UNCHANGED <<attempt, outcome, disturbed>>

\* replyEchoMatches(): is r the ACK or NACK of the frame in flight?
Matches(r) == \/ ~echoes
              \/ waiting = "verdict" /\ r.nonce = nonce /\ r.right = right

\* (Seeded bug: the first ERR_LOCKED is believed.)
NeverAgain == FALSE

Again == attempt + 1 < Attempts

ReceiveVerdict ==
    /\ Take
    /\ waiting = "verdict" /\ Head(toHost).kind \in {"ack", "locked"} /\ Matches(Head(toHost))
    /\ IF Head(toHost).kind = "ack" THEN Return("proved")
       ELSE IF Again THEN StartExchange(attempt + 1)
       ELSE Return("wrong")

\* A NACK without an echo is believed of the challenge too.
ReceiveRefusal ==
    /\ Take
    /\ waiting = "nonce" /\ Head(toHost).kind = "locked" /\ Matches(Head(toHost))
    /\ Return("refused")

\* A reply nothing waits for.
ReceiveStale ==
    /\ Take
    /\ \/ waiting = "none"
       \/ waiting = "nonce" /\ Head(toHost).kind # "nonce"
          /\ (Head(toHost).kind = "ack" \/ ~Matches(Head(toHost)))
       \/ waiting = "verdict" /\ (Head(toHost).kind = "nonce" \/ ~Matches(Head(toHost)))
    /\ UNCHANGED <<waiting, attempt, left, nonce, outcome, disturbed, toUnit>>

-----------------------------------------------------------------------------
(* The unit and the line *)

Reply(kind, n, good) ==
    toHost' = Append(toHost, [kind |-> kind, nonce |-> n, right |-> good])

HandOutNonce ==
    /\ toUnit # <<>> /\ Head(toUnit) = Challenge
    /\ toUnit' = Tail(toUnit)
    /\ minted' = minted + 1 /\ slot' = minted + 1
    /\ Reply("nonce", minted + 1, FALSE)
    /\ UNCHANGED <<hostVars, disturbed, echoes, accepted, restarts>>

JudgeAnswer ==
    /\ toUnit # <<>> /\ Head(toUnit) # Challenge
    /\ toUnit' = Tail(toUnit)
    /\ slot' = 0
    /\ LET frame == Head(toUnit)
           good  == frame.right /\ slot = frame.nonce
       IN  /\ accepted' = (accepted \/ (good /\ frame.call = calls))
           /\ Reply(IF good THEN "ack" ELSE "locked", frame.nonce, frame.right)
    /\ UNCHANGED <<hostVars, disturbed, echoes, minted, restarts>>

\* A reset behind an adapter that keeps its port: nonce and proofs are gone.
UnitRestarts ==
    /\ restarts < MaxRestarts
    /\ restarts' = restarts + 1
    /\ slot' = 0
    /\ disturbed' = TRUE
    /\ UNCHANGED <<hostVars, toUnit, toHost, echoes, minted, accepted>>

LoseFrame ==
    /\ toUnit # <<>> /\ toUnit' = Tail(toUnit)
    /\ UNCHANGED <<hostVars, disturbed, toHost, unitVars>>

LoseReply ==
    /\ toHost # <<>> /\ toHost' = Tail(toHost)
    /\ UNCHANGED <<hostVars, disturbed, toUnit, unitVars>>

Next ==
    \/ Call \/ Timeout
    \/ ReceiveNonce \/ ReceiveVerdict \/ ReceiveRefusal \/ ReceiveStale
    \/ HandOutNonce \/ JudgeAnswer \/ UnitRestarts \/ LoseFrame \/ LoseReply

Spec == Init /\ [][Next]_vars

-----------------------------------------------------------------------------
(* Properties *)

Wrong == waiting = "none" /\ outcome = "wrong"

\* "Wrong password." is never said of a password the unit accepted in this
\* call: the user is not sent off to retype what has just opened the session.
\* (Stated for units that echo; an older one can answer for another frame.)
WrongIsNeverAccepted == Wrong /\ echoes => ~accepted

\* The right password is called wrong only if the last exchange was itself
\* disturbed: what earlier exchanges and calls left on the line is absorbed.
RightIsRarelyCalledWrong == Wrong /\ echoes /\ right => disturbed

\* proveLicenseSecret(): "ERR_LOCKED is the device saying the HMAC did not
\* match. That is a wrong passphrase, not a broken link".
LockedMeansWrongSecret == Wrong => ~right
=============================================================================
