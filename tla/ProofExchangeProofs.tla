------------------------- MODULE ProofExchangeProofs -------------------------
(***************************************************************************)
(* proveAccess() is honest about a password, for any number of calls,      *)
(* restarts and retransmitted challenges.                                  *)
(*                                                                         *)
(* Because the answer is sent once only (AnswerRetries = 0) and the line   *)
(* keeps its order, a unit that echoes has nothing of an exchange left to  *)
(* say once the host has seen its verdict: the next exchange finds the     *)
(* line empty (QuietInv), and what an exchange has been accepted for is    *)
(* either on its way to the host as an ACK or lost (OwnInv).               *)
(***************************************************************************)
EXTENDS ProofExchange, TLAPS

-----------------------------------------------------------------------------
(* The invariant *)

\* Frames without a nonce are challenges, and every answer has one.
Shaped(frames) == \A i \in DOMAIN frames : frames[i].nonce = 0 <=> frames[i] = Challenge

ShapeInv ==
    /\ Shaped(toUnit)
    /\ waiting = "verdict" => nonce > 0

\* Nonces arrive in the order they were handed out, each once.
NonceInv ==
    /\ \A i \in DOMAIN toUnit : toUnit[i].nonce <= nonce
    /\ \A i \in DOMAIN toHost :
         IF toHost[i].kind = "nonce" THEN toHost[i].nonce > nonce ELSE toHost[i].nonce <= nonce
    /\ \A i, j \in DOMAIN toHost :
         i < j /\ toHost[i].kind = "nonce" /\ toHost[j].kind = "nonce" =>
             toHost[i].nonce < toHost[j].nonce

\* Is the verdict on the answer in flight among the first k replies?
JudgedIn(k) == \E i \in DOMAIN toHost : i <= k /\ toHost[i].kind # "nonce" /\ toHost[i].nonce = nonce

\* The answer in flight is the youngest frame, or its verdict the youngest reply.
AnswerInv ==
    waiting = "verdict" =>
        /\ left = 0
        /\ \A i \in DOMAIN toUnit : i < Len(toUnit) => toUnit[i].nonce < nonce
        /\ ~JudgedIn(Len(toHost) - 1)
        /\ toUnit # <<>> => /\ toUnit[Len(toUnit)] = Answer(nonce, right, calls)
                            /\ ~JudgedIn(Len(toHost))

\* The answers of this call: the one in flight, or one that was given up.
OwnInv ==
    echoes =>
        /\ accepted => \/ waiting = "none" /\ outcome # "wrong"
                       \/ /\ waiting = "verdict" /\ toUnit = <<>>
                          /\ \A i \in DOMAIN toHost :
                               toHost[i].kind # "nonce" /\ toHost[i].nonce = nonce =>
                                   toHost[i].kind = "ack"
        /\ \A i \in DOMAIN toUnit :
             toUnit[i].nonce > 0 /\ toUnit[i].call = calls =>
                 \/ waiting = "none" /\ outcome # "wrong"
                 \/ waiting = "verdict" /\ toUnit[i].nonce = nonce

\* What an undisturbed exchange behind a verdict can have on the line.
Asked ==
    \/ toUnit = <<Challenge>> /\ toHost = <<>>
    \/ toUnit = <<>> /\ toHost = <<>>
    \/ toUnit = <<>> /\ Len(toHost) = 1 /\ toHost[1].kind = "nonce" /\ toHost[1].nonce = slot

Answered ==
    \/ toUnit = <<Answer(nonce, right, calls)>> /\ toHost = <<>> /\ slot = nonce
    \/ toUnit = <<>> /\ toHost = <<>>
    \/ toUnit = <<>> /\ Len(toHost) = 1 /\ toHost[1].kind # "nonce"
       /\ (right => toHost[1].kind = "ack")

QuietInv ==
    echoes /\ ~disturbed =>
        /\ waiting = "nonce" /\ attempt > 0 => Asked
        /\ waiting = "verdict" /\ attempt > 0 => Answered
        /\ Wrong => ~right

TypeInv == TypeOK /\ ShapeInv

-----------------------------------------------------------------------------
(* Sequences *)

LEMMA Appended ==
    ASSUME NEW S, NEW s \in Seq(S), NEW e \in S
    PROVE  /\ Append(s, e) \in Seq(S) /\ Append(s, e) # <<>>
           /\ Len(Append(s, e)) = Len(s) + 1 /\ Len(s) \in Nat
           /\ DOMAIN Append(s, e) = 1 .. Len(s) + 1 /\ DOMAIN s = 1 .. Len(s)
           /\ \A i \in DOMAIN s : Append(s, e)[i] = s[i]
           /\ Append(s, e)[Len(s) + 1] = e
  OBVIOUS

LEMMA Taken ==
    ASSUME NEW S, NEW s \in Seq(S), s # <<>>
    PROVE  /\ Tail(s) \in Seq(S) /\ Head(s) = s[1] /\ s[1] \in S
           /\ Len(s) \in Nat \ {0} /\ Len(Tail(s)) = Len(s) - 1
           /\ DOMAIN s = 1 .. Len(s) /\ DOMAIN Tail(s) = 1 .. Len(s) - 1
           /\ \A i \in DOMAIN Tail(s) : i + 1 \in DOMAIN s /\ Tail(s)[i] = s[i + 1]
  OBVIOUS

LEMMA Elements ==
    ASSUME NEW S, NEW s \in Seq(S)
    PROVE  /\ Len(s) \in Nat /\ DOMAIN s = 1 .. Len(s)
           /\ \A i \in DOMAIN s : s[i] \in S
           /\ s = <<>> <=> Len(s) = 0
  OBVIOUS

LEMMA LastTaken ==
    ASSUME NEW S, NEW s \in Seq(S), Len(s) = 1
    PROVE  s # <<>> /\ Tail(s) = <<>> /\ Head(s) = s[1]
  <1>1. s # <<>>
    BY Elements
  <1>2. Tail(s) \in Seq(S) /\ Len(Tail(s)) = 0 /\ Head(s) = s[1]
    BY <1>1, Taken
  <1>3. Tail(s) = <<>>
    BY <1>2, Elements
  <1> QED BY <1>1, <1>2, <1>3

LEMMA Widened ==
    ASSUME NEW S, NEW T, S \subseteq T, NEW s \in Seq(S)
    PROVE  s \in Seq(T)
  OBVIOUS

-----------------------------------------------------------------------------
(* Types *)

FrameSet == [nonce : 0 .. minted, right : BOOLEAN, call : 0 .. calls]
ReplySet == [kind : Kind, nonce : 1 .. minted, right : BOOLEAN]

Flags ==
    /\ right \in BOOLEAN /\ disturbed \in BOOLEAN /\ accepted \in BOOLEAN
    /\ waiting \in {"none", "nonce", "verdict"}
    /\ outcome \in {"none", "proved", "wrong", "no answer", "refused"}
    /\ echoes \in Echoes

Numbers ==
    /\ calls \in 0 .. MaxCalls /\ restarts \in 0 .. MaxRestarts
    /\ attempt \in 0 .. Attempts - 1 /\ left \in Nat
    /\ minted \in Nat /\ nonce \in 0 .. minted /\ slot \in 0 .. minted

Queues == toUnit \in Seq(FrameSet) /\ toHost \in Seq(ReplySet)

LEMMA Split == TypeOK <=> Flags /\ Numbers /\ Queues
  BY DEF TypeOK, Flags, Numbers, Queues, FrameSet, ReplySet

LEMMA SplitNext == TypeOK' <=> Flags' /\ Numbers' /\ Queues'
  BY DEF TypeOK, Flags, Numbers, Queues, FrameSet, ReplySet

LEMMA FramesGrow ==
    ASSUME NEW m, NEW n, NEW c, NEW d, m \subseteq n, c \subseteq d
    PROVE  [nonce : m, right : BOOLEAN, call : c] \subseteq [nonce : n, right : BOOLEAN, call : d]
  OBVIOUS

LEMMA RepliesGrow ==
    ASSUME NEW m, NEW n, m \subseteq n
    PROVE  [kind : Kind, nonce : m, right : BOOLEAN] \subseteq [kind : Kind, nonce : n, right : BOOLEAN]
  OBVIOUS

LEMMA AnswerFacts ==
    ASSUME NEW n \in 0 .. minted, NEW good \in BOOLEAN, NEW c \in 0 .. calls
    PROVE  /\ Answer(n, good, c) \in FrameSet
           /\ Answer(n, good, c).nonce = n
           /\ Answer(n, good, c).right = good
           /\ Answer(n, good, c).call = c
  BY DEF Answer, FrameSet

LEMMA ReplyFacts ==
    ASSUME NEW kind \in Kind, NEW n \in 1 .. minted, NEW good \in BOOLEAN
    PROVE  [kind |-> kind, nonce |-> n, right |-> good] \in ReplySet
  BY DEF ReplySet

LEMMA Lines ==
    ASSUME TypeOK
    PROVE  /\ toUnit \in Seq(FrameSet) /\ toHost \in Seq(ReplySet)
           /\ minted \in Nat /\ calls \in Nat /\ nonce \in 0 .. minted
           /\ Challenge \in FrameSet
  <1>1. /\ toUnit \in Seq(FrameSet) /\ toHost \in Seq(ReplySet)
        /\ minted \in Nat /\ calls \in 0 .. MaxCalls /\ nonce \in 0 .. minted
    BY Split DEF Queues, Numbers
  <1>2. 0 \in 0 .. minted /\ 0 \in 0 .. calls /\ calls \in Nat
    BY <1>1, ProofConstants
  <1> QED BY <1>1, <1>2, AnswerFacts DEF Challenge

LEMMA TailShaped ==
    ASSUME NEW S, NEW s \in Seq(S), s # <<>>, Shaped(s)
    PROVE  Shaped(Tail(s)) /\ (Head(s).nonce = 0 <=> Head(s) = Challenge)
  BY Taken DEF Shaped

LEMMA AppendShaped ==
    ASSUME NEW S, NEW s \in Seq(S), NEW e \in S, Shaped(s), e.nonce = 0 <=> e = Challenge
    PROVE  Shaped(Append(s, e))
  BY Appended DEF Shaped

LEMMA ChallengeShaped == Challenge.nonce = 0
  BY DEF Challenge, Answer

LEMMA NextKeepsType == TypeInv /\ [Next]_vars => TypeInv'
  <1> SUFFICES ASSUME TypeInv, [Next]_vars PROVE TypeInv'
    OBVIOUS
  <1> USE ProofConstants
  <1>0. /\ Flags /\ Numbers /\ ShapeInv
        /\ toUnit \in Seq(FrameSet) /\ toHost \in Seq(ReplySet) /\ Challenge \in FrameSet
    BY Lines, Split DEF TypeInv
  <1>0c. calls \in 0 .. calls /\ right \in BOOLEAN
    <2>1. calls \in 0 .. calls
      BY <1>0 DEF Numbers
    <2> QED BY <1>0, <2>1, Zenon DEF Flags
  <1>00. ASSUME minted' = minted, calls' = calls PROVE FrameSet' = FrameSet /\ ReplySet' = ReplySet
    BY <1>00 DEF FrameSet, ReplySet
  <1>1. CASE Call
    <2>1. FrameSet \subseteq FrameSet'
      <3>1. minted' = minted /\ 0 .. calls \subseteq 0 .. calls'
        BY <1>0, <1>1 DEF Call, Numbers
      <3> QED BY <3>1, FramesGrow DEF FrameSet
    <2>2. toUnit \in Seq(FrameSet') /\ Challenge \in FrameSet'
      BY <1>0, <2>1, Widened
    <2>3. Append(toUnit, Challenge) \in Seq(FrameSet')
      BY <2>2, Appended
    <2>4. Flags' /\ Numbers' /\ Queues'
      <3>1. ReplySet' = ReplySet
        BY <1>1 DEF Call, ReplySet
      <3>2. Queues'
        BY <1>0, <1>1, <2>3, <3>1 DEF Call, StartExchange, Queues
      <3>3. Flags'
        BY <1>0, <1>1, Zenon DEF Call, StartExchange, Flags
      <3>4. Numbers'
        BY <1>0, <1>1 DEF Call, StartExchange, Numbers
      <3> QED BY <3>2, <3>3, <3>4
    <2>5. waiting' = "nonce" /\ toUnit' = Append(toUnit, Challenge)
      BY <1>1 DEF Call, StartExchange
    <2>6. ShapeInv'
      BY <1>0, <2>5, AppendShaped, ChallengeShaped DEF ShapeInv, Shaped
    <2> QED BY SplitNext, <2>4, <2>6 DEF TypeInv
  <1>2. CASE Timeout
    <2>1. Frame \in FrameSet /\ (Frame.nonce = 0 <=> Frame = Challenge)
      <3>1. CASE waiting = "nonce"
        BY <1>0, <3>1, ChallengeShaped DEF Frame
      <3>2. CASE waiting = "verdict"
        <4>1. nonce \in 0 .. minted /\ nonce # 0
          BY <1>0, <3>2 DEF Numbers, ShapeInv
        <4>2. Frame = Answer(nonce, right, calls)
          BY <3>2 DEF Frame
        <4> QED BY <1>0c, <4>1, <4>2, AnswerFacts, ChallengeShaped
      <3> QED BY <1>0, <1>2, <3>1, <3>2 DEF Timeout, Flags
    <2>2. Append(toUnit, Frame) \in Seq(FrameSet) /\ Shaped(Append(toUnit, Frame))
      BY <1>0, <2>1, Appended, AppendShaped DEF ShapeInv
    <2>3. Flags' /\ Numbers' /\ Queues'
      <3>1. Queues'
        BY <1>0, <1>00, <1>2, <2>2 DEF Timeout, Return, Queues, unitVars
      <3>2. Flags'
        BY <1>0, <1>2, Zenon DEF Timeout, Return, Flags, unitVars
      <3>3. Numbers'
        <4>1. /\ calls' = calls /\ nonce' = nonce /\ attempt' = attempt
              /\ minted' = minted /\ slot' = slot /\ restarts' = restarts
          BY <1>2, Zenon DEF Timeout, Return, unitVars
        <4>2. left' \in Nat
          <5>1. left \in Nat /\ (left > 0 => left - 1 \in Nat)
            BY <1>0 DEF Numbers
          <5>2. CASE left > 0
            BY <1>2, <5>1, <5>2 DEF Timeout
          <5>3. CASE ~(left > 0)
            BY <1>2, <5>1, <5>3 DEF Timeout, Return
          <5> QED BY <5>2, <5>3
        <4> QED BY <1>0, <4>1, <4>2 DEF Numbers
      <3> QED BY <3>1, <3>2, <3>3
    <2>4. ShapeInv'
      BY <1>0, <1>2, <2>2 DEF Timeout, Return, ShapeInv, Shaped, Challenge, Answer
    <2> QED BY SplitNext, <2>3, <2>4 DEF TypeInv
  <1>3. ASSUME Take
        PROVE  /\ toHost' = Tail(toHost) /\ Tail(toHost) \in Seq(ReplySet) /\ Head(toHost) \in ReplySet
               /\ calls' = calls /\ right' = right /\ echoes' = echoes /\ slot' = slot
               /\ minted' = minted /\ accepted' = accepted /\ restarts' = restarts
    BY <1>0, <1>3, Taken DEF Take, unitVars
  <1>4. CASE ReceiveNonce
    <2>1. Take
      BY <1>4 DEF ReceiveNonce
    <2> DEFINE f == Answer(Head(toHost).nonce, right, calls)
    <2>2. f \in FrameSet /\ f.nonce # 0 /\ f # Challenge
      <3>1. /\ Head(toHost).nonce \in 0 .. minted /\ Head(toHost).nonce # 0
        BY <1>0, <1>3, <2>1 DEF ReplySet, Numbers
      <3> QED BY <1>0c, <3>1, AnswerFacts, ChallengeShaped
    <2>3. Append(toUnit, f) \in Seq(FrameSet) /\ Shaped(Append(toUnit, f))
      BY <1>0, <2>2, Appended, AppendShaped DEF ShapeInv
    <2>4. /\ toUnit' = Append(toUnit, f) /\ nonce' = Head(toHost).nonce
          /\ waiting' = "verdict" /\ left' = AnswerBudget
          /\ attempt' = attempt /\ outcome' = outcome /\ disturbed' = disturbed
      BY <1>4 DEF ReceiveNonce
    <2>5. nonce' \in 1 .. minted
      BY <1>3, <2>1, <2>4 DEF ReplySet
    <2> HIDE DEF f
    <2>6. Flags' /\ Numbers' /\ Queues'
      <3>1. Queues'
        BY <1>0, <1>00, <1>3, <2>1, <2>3, <2>4 DEF Queues
      <3>2. Flags'
        BY <1>0, <1>3, <2>1, <2>4, <2>5, Zenon DEF Flags, AnswerBudget
      <3>3. Numbers'
        BY <1>0, <1>3, <2>1, <2>4, <2>5 DEF Numbers, AnswerBudget
      <3> QED BY <3>1, <3>2, <3>3
    <2>7. ShapeInv'
      BY <1>0, <2>3, <2>4, <2>5 DEF ShapeInv, Shaped, Numbers
    <2> QED BY SplitNext, <2>6, <2>7 DEF TypeInv
  <1>5. CASE ReceiveVerdict
    <2>1. Take
      BY <1>5 DEF ReceiveVerdict
    <2>2. Append(toUnit, Challenge) \in Seq(FrameSet) /\ Shaped(Append(toUnit, Challenge))
      BY <1>0, Appended, AppendShaped, ChallengeShaped DEF ShapeInv
    <2>3. Flags' /\ Numbers' /\ Queues'
      <3>1. Queues'
        BY <1>0, <1>00, <1>3, <1>5, <2>1, <2>2 DEF ReceiveVerdict, Return, StartExchange, Queues
      <3>2. Flags'
        BY <1>0, <1>3, <1>5, <2>1, Zenon DEF ReceiveVerdict, Return, StartExchange, Again, Flags
      <3>3. Numbers'
        BY <1>0, <1>3, <1>5, <2>1 DEF ReceiveVerdict, Return, StartExchange, Again, Numbers
      <3> QED BY <3>1, <3>2, <3>3
    <2>4. ShapeInv'
      BY <1>0, <1>5, <2>2 DEF ReceiveVerdict, Return, StartExchange, ShapeInv, Shaped
    <2> QED BY SplitNext, <2>3, <2>4 DEF TypeInv
  <1>6. CASE ReceiveRefusal \/ ReceiveStale
    <2>1. Take
      BY <1>6 DEF ReceiveRefusal, ReceiveStale
    <2>2. Flags' /\ Numbers' /\ Queues'
      <3>1. Queues'
        BY <1>0, <1>00, <1>3, <1>6, <2>1 DEF ReceiveRefusal, ReceiveStale, Return, Queues
      <3>2. Flags'
        BY <1>0, <1>3, <1>6, <2>1, Zenon DEF ReceiveRefusal, ReceiveStale, Return, Flags
      <3>3. Numbers'
        BY <1>0, <1>3, <1>6, <2>1 DEF ReceiveRefusal, ReceiveStale, Return, Numbers
      <3> QED BY <3>1, <3>2, <3>3
    <2>3. /\ toUnit' = toUnit /\ nonce' = nonce
          /\ waiting' = waiting \/ waiting' = "none"
      BY <1>6 DEF ReceiveRefusal, ReceiveStale, Return
    <2>4. ShapeInv'
      BY <1>0, <2>3 DEF ShapeInv, Shaped
    <2> QED BY SplitNext, <2>2, <2>4 DEF TypeInv
  <1>7. ASSUME hostVars' = hostVars
        PROVE  /\ calls' = calls /\ right' = right /\ waiting' = waiting /\ attempt' = attempt
               /\ left' = left /\ nonce' = nonce /\ outcome' = outcome
    BY <1>7 DEF hostVars
  <1>8. ASSUME toUnit # <<>>
        PROVE  /\ Tail(toUnit) \in Seq(FrameSet) /\ Shaped(Tail(toUnit)) /\ Head(toUnit) \in FrameSet
               /\ Head(toUnit).nonce = 0 <=> Head(toUnit) = Challenge
    BY <1>0, <1>8, Taken, TailShaped DEF ShapeInv
  <1>9. CASE HandOutNonce
    <2> DEFINE r == [kind |-> "nonce", nonce |-> minted + 1, right |-> FALSE]
    <2>1. /\ toUnit # <<>> /\ toUnit' = Tail(toUnit)
          /\ toHost' = Append(toHost, r)
          /\ minted' = minted + 1 /\ slot' = minted + 1
          /\ hostVars' = hostVars /\ disturbed' = disturbed /\ echoes' = echoes
          /\ accepted' = accepted /\ restarts' = restarts
      BY <1>9 DEF HandOutNonce, Reply
    <2>2. /\ FrameSet \subseteq FrameSet' /\ ReplySet \subseteq ReplySet' /\ r \in ReplySet'
      <3>1. /\ 0 .. minted \subseteq 0 .. minted' /\ 1 .. minted \subseteq 1 .. minted'
            /\ minted + 1 \in 1 .. minted' /\ calls' = calls
        BY <1>0, <1>7, <2>1 DEF Numbers
      <3>2. FrameSet \subseteq FrameSet' /\ ReplySet \subseteq ReplySet'
        BY <3>1, FramesGrow, RepliesGrow DEF FrameSet, ReplySet
      <3>3. "nonce" \in Kind /\ FALSE \in BOOLEAN
        BY DEF Kind
      <3>4. \A n \in 1 .. minted' : \A good \in BOOLEAN :
              [kind |-> "nonce", nonce |-> n, right |-> good] \in ReplySet'
        BY <3>3 DEF ReplySet
      <3> QED BY <3>1, <3>2, <3>3, <3>4
    <2>3. Tail(toUnit) \in Seq(FrameSet') /\ toHost \in Seq(ReplySet')
      BY <1>0, <1>8, <2>1, <2>2, Widened
    <2>4. Append(toHost, r) \in Seq(ReplySet')
      BY <2>2, <2>3, Appended
    <2> HIDE DEF r
    <2>5. Flags' /\ Numbers' /\ Queues'
      <3>1. Queues'
        BY <2>1, <2>3, <2>4 DEF Queues
      <3>2. Flags'
        BY <1>0, <1>7, <2>1, Zenon DEF Flags
      <3>3. Numbers'
        BY <1>0, <1>7, <2>1 DEF Numbers
      <3> QED BY <3>1, <3>2, <3>3
    <2>6. ShapeInv'
      BY <1>0, <1>7, <1>8, <2>1 DEF ShapeInv, Shaped
    <2> QED BY SplitNext, <2>5, <2>6 DEF TypeInv
  <1>10. CASE JudgeAnswer
    <2> DEFINE frame == Head(toUnit)
               good == frame.right /\ slot = frame.nonce
               r == [kind |-> IF good THEN "ack" ELSE "locked", nonce |-> frame.nonce,
                     right |-> frame.right]
    <2>1. /\ toUnit # <<>> /\ toUnit' = Tail(toUnit) /\ Head(toUnit) # Challenge
          /\ toHost' = Append(toHost, r)
          /\ slot' = 0 /\ accepted' = (accepted \/ (good /\ frame.call = calls))
          /\ hostVars' = hostVars /\ disturbed' = disturbed /\ echoes' = echoes
          /\ minted' = minted /\ restarts' = restarts
      BY <1>10 DEF JudgeAnswer, Reply
    <2>2. frame \in FrameSet /\ frame.nonce # 0
      BY <1>8, <2>1
    <2>3. r \in ReplySet
      <3>1. frame.nonce \in 1 .. minted /\ frame.right \in BOOLEAN
        BY <1>0, <2>2 DEF FrameSet, Numbers
      <3>2. (IF good THEN "ack" ELSE "locked") \in Kind
        BY DEF Kind
      <3> QED BY <3>1, <3>2, ReplyFacts
    <2>4. Append(toHost, r) \in Seq(ReplySet)
      BY <1>0, <2>3, Appended
    <2>5. accepted' \in BOOLEAN
      BY <2>1
    <2> HIDE DEF frame, good, r
    <2>6. Flags' /\ Numbers' /\ Queues'
      <3>1. Queues'
        BY <1>00, <1>7, <1>8, <2>1, <2>4 DEF Queues
      <3>2. Flags'
        BY <1>0, <1>7, <2>1, <2>5, Zenon DEF Flags
      <3>3. Numbers'
        BY <1>0, <1>7, <2>1, <2>5 DEF Numbers
      <3> QED BY <3>1, <3>2, <3>3
    <2>7. ShapeInv'
      BY <1>0, <1>7, <1>8, <2>1 DEF ShapeInv, Shaped
    <2> QED BY SplitNext, <2>6, <2>7 DEF TypeInv
  <1>11. CASE UnitRestarts
    <2>1. Flags' /\ ShapeInv'
      BY <1>0, <1>7, <1>11, Zenon DEF UnitRestarts, Flags, ShapeInv, Shaped
    <2>2. Numbers'
      BY <1>0, <1>7, <1>11 DEF UnitRestarts, Numbers
    <2>3. Queues'
      BY <1>0, <1>00, <1>7, <1>11 DEF UnitRestarts, Queues
    <2> QED BY SplitNext, <2>1, <2>2, <2>3 DEF TypeInv
  <1>12. CASE LoseFrame
    <2>1. Flags' /\ Numbers'
      BY <1>0, <1>7, <1>12, Zenon DEF LoseFrame, Flags, Numbers, unitVars
    <2>2. Queues' /\ ShapeInv'
      BY <1>0, <1>00, <1>7, <1>8, <1>12 DEF LoseFrame, Queues, ShapeInv, unitVars
    <2> QED BY SplitNext, <2>1, <2>2 DEF TypeInv
  <1>13. CASE LoseReply
    <2>1. Flags' /\ Numbers' /\ ShapeInv'
      BY <1>0, <1>7, <1>13, Zenon DEF LoseReply, Flags, Numbers, ShapeInv, Shaped, unitVars
    <2>2. Tail(toHost) \in Seq(ReplySet)
      BY <1>0, <1>13, Taken DEF LoseReply
    <2>3. Queues'
      BY <1>0, <1>00, <1>7, <1>13, <2>2 DEF LoseReply, Queues, unitVars
    <2> QED BY SplitNext, <2>1, <2>3 DEF TypeInv
  <1>14. CASE UNCHANGED vars
    <2>1. Flags' /\ Numbers' /\ ShapeInv'
      BY <1>0, <1>7, <1>14, Zenon DEF vars, Flags, Numbers, ShapeInv, Shaped, unitVars
    <2>2. Queues'
      BY <1>0, <1>00, <1>7, <1>14 DEF vars, Queues, unitVars
    <2> QED BY SplitNext, <2>1, <2>2 DEF TypeInv
  <1> QED
    BY <1>1, <1>2, <1>4, <1>5, <1>6, <1>9, <1>10, <1>11, <1>12, <1>13, <1>14 DEF Next

LEMMA InitType == Init => TypeInv
  <1> SUFFICES ASSUME Init PROVE TypeInv
    OBVIOUS
  <1>0. Flags
    BY Zenon DEF Init, Flags
  <1>1. Numbers
    BY ProofConstants DEF Init, Numbers
  <1>2. Queues
    BY DEF Init, Queues
  <1>3. ShapeInv
    BY DEF Init, ShapeInv, Shaped
  <1> QED BY Split, <1>0, <1>1, <1>2, <1>3 DEF TypeInv

-----------------------------------------------------------------------------
(* What the actions do to the two queues, entry by entry *)

LEMMA Entries ==
    ASSUME TypeInv
    PROVE  /\ Len(toUnit) \in Nat /\ DOMAIN toUnit = 1 .. Len(toUnit)
           /\ Len(toHost) \in Nat /\ DOMAIN toHost = 1 .. Len(toHost)
           /\ toUnit = <<>> <=> Len(toUnit) = 0
           /\ toHost = <<>> <=> Len(toHost) = 0
           /\ minted \in Nat /\ calls \in Nat /\ nonce \in Nat /\ nonce <= minted
           /\ \A i \in 1 .. Len(toUnit) :
                /\ toUnit[i].nonce \in Nat /\ toUnit[i].call \in Nat /\ toUnit[i].call <= calls
                /\ toUnit[i].right \in BOOLEAN
                /\ toUnit[i].nonce = 0 <=> toUnit[i] = Challenge
           /\ \A i \in 1 .. Len(toHost) :
                /\ toHost[i].nonce \in Nat /\ toHost[i].nonce > 0 /\ toHost[i].nonce <= minted
                /\ toHost[i].kind \in Kind
  <1>1. /\ toUnit \in Seq(FrameSet) /\ toHost \in Seq(ReplySet)
        /\ minted \in Nat /\ calls \in Nat /\ nonce \in 0 .. minted
    BY Lines DEF TypeInv
  <1>2. /\ Len(toUnit) \in Nat /\ DOMAIN toUnit = 1 .. Len(toUnit)
        /\ Len(toHost) \in Nat /\ DOMAIN toHost = 1 .. Len(toHost)
        /\ toUnit = <<>> <=> Len(toUnit) = 0
        /\ toHost = <<>> <=> Len(toHost) = 0
        /\ \A i \in 1 .. Len(toUnit) : toUnit[i] \in FrameSet
        /\ \A i \in 1 .. Len(toHost) : toHost[i] \in ReplySet
    BY <1>1, Elements
  <1>3. \A f \in FrameSet : /\ f.nonce \in Nat /\ f.call \in Nat /\ f.call <= calls
                            /\ f.right \in BOOLEAN
    BY <1>1 DEF FrameSet
  <1>4. \A r \in ReplySet : /\ r.nonce \in Nat /\ r.nonce > 0 /\ r.nonce <= minted
                            /\ r.kind \in Kind
    BY <1>1 DEF ReplySet
  <1>5. \A i \in 1 .. Len(toUnit) : toUnit[i].nonce = 0 <=> toUnit[i] = Challenge
    BY <1>2 DEF TypeInv, ShapeInv, Shaped
  <1> QED BY <1>1, <1>2, <1>3, <1>4, <1>5

\* t is s without its first entry, or s with one more.
Shortened(s, t) ==
    /\ Len(s) > 0 /\ Len(t) = Len(s) - 1 /\ DOMAIN t = 1 .. Len(t)
    /\ t = <<>> <=> Len(t) = 0
    /\ \A i \in 1 .. Len(t) : t[i] = s[i + 1]

Lengthened(s, t, e) ==
    /\ Len(t) = Len(s) + 1 /\ DOMAIN t = 1 .. Len(t) /\ t # <<>>
    /\ \A i \in 1 .. Len(s) : t[i] = s[i]
    /\ t[Len(t)] = e

LEMMA Shortens ==
    ASSUME NEW S, NEW s \in Seq(S), s # <<>>
    PROVE  Shortened(s, Tail(s)) /\ Head(s) = s[1]
  <1>1. Tail(s) \in Seq(S)
    BY Taken
  <1>2. Tail(s) = <<>> <=> Len(Tail(s)) = 0
    BY <1>1, Elements
  <1> QED BY <1>2, Taken DEF Shortened

LEMMA Lengthens ==
    ASSUME NEW S, NEW s \in Seq(S), NEW e
    PROVE  Lengthened(s, Append(s, e), e)
  <1>1. s \in Seq(S \cup {e}) /\ e \in S \cup {e}
    BY Widened
  <1> QED BY <1>1, Appended DEF Lengthened

LEMMA UnitQueue ==
    ASSUME TypeInv
    PROVE  /\ toUnit # <<>> => Shortened(toUnit, Tail(toUnit)) /\ Head(toUnit) = toUnit[1]
           /\ \A e : Lengthened(toUnit, Append(toUnit, e), e)
  BY Lines, Shortens, Lengthens DEF TypeInv

LEMMA HostQueue ==
    ASSUME TypeInv
    PROVE  /\ toHost # <<>> => Shortened(toHost, Tail(toHost)) /\ Head(toHost) = toHost[1]
           /\ \A e : Lengthened(toHost, Append(toHost, e), e)
  BY Lines, Shortens, Lengthens DEF TypeInv

-----------------------------------------------------------------------------
(* Nonces *)

\* The steps that leave the nonce in hand alone keep NonceInv whatever they take.
LEMMA NextKeepsNonces == TypeInv /\ NonceInv /\ [Next]_vars => NonceInv'
  <1> SUFFICES ASSUME TypeInv, NonceInv, [Next]_vars PROVE NonceInv'
    OBVIOUS
  <1>0. /\ Len(toUnit) \in Nat /\ DOMAIN toUnit = 1 .. Len(toUnit)
        /\ Len(toHost) \in Nat /\ DOMAIN toHost = 1 .. Len(toHost)
        /\ minted \in Nat /\ nonce \in Nat /\ nonce <= minted
        /\ \A i \in 1 .. Len(toUnit) : toUnit[i].nonce \in Nat
        /\ \A i \in 1 .. Len(toHost) : toHost[i].nonce \in Nat /\ toHost[i].nonce <= minted
    BY Entries
  <1>1. /\ \A i \in 1 .. Len(toUnit) : toUnit[i].nonce <= nonce
        /\ \A i \in 1 .. Len(toHost) :
             IF toHost[i].kind = "nonce" THEN toHost[i].nonce > nonce ELSE toHost[i].nonce <= nonce
        /\ \A i, j \in 1 .. Len(toHost) :
             i < j /\ toHost[i].kind = "nonce" /\ toHost[j].kind = "nonce" =>
                 toHost[i].nonce < toHost[j].nonce
    BY <1>0 DEF NonceInv
  <1>2. Challenge.nonce = 0
    BY ChallengeShaped
  <1> DEFINE UnitPart == \A i \in DOMAIN toUnit : toUnit[i].nonce <= nonce
             HostPart == /\ \A i \in DOMAIN toHost :
                              IF toHost[i].kind = "nonce" THEN toHost[i].nonce > nonce
                                                          ELSE toHost[i].nonce <= nonce
                         /\ \A i, j \in DOMAIN toHost :
                              i < j /\ toHost[i].kind = "nonce" /\ toHost[j].kind = "nonce" =>
                                  toHost[i].nonce < toHost[j].nonce
  <1>3. UnitPart' /\ HostPart' => NonceInv'
    BY DEF NonceInv
  <1>4. ASSUME nonce' = nonce,
               \/ toUnit' = toUnit
               \/ Shortened(toUnit, toUnit')
               \/ \E e : Lengthened(toUnit, toUnit', e) /\ e.nonce <= nonce
        PROVE  UnitPart'
    <2>1. CASE toUnit' = toUnit
      BY <1>0, <1>1, <1>4, <2>1
    <2>2. CASE Shortened(toUnit, toUnit')
      <3>1. \A i \in 1 .. Len(toUnit') : toUnit'[i].nonce <= nonce
        BY <1>0, <1>1, <2>2 DEF Shortened
      <3> QED BY <1>4, <2>2, <3>1 DEF Shortened
    <2>3. ASSUME NEW e, Lengthened(toUnit, toUnit', e), e.nonce <= nonce PROVE UnitPart'
      <3>1. \A i \in 1 .. Len(toUnit') : i \in 1 .. Len(toUnit) \/ i = Len(toUnit')
        BY <1>0, <2>3 DEF Lengthened
      <3>2. \A i \in 1 .. Len(toUnit') : toUnit'[i].nonce <= nonce
        BY <1>1, <2>3, <3>1 DEF Lengthened
      <3> QED BY <1>4, <2>3, <3>2 DEF Lengthened
    <2> QED BY <1>4, <2>1, <2>2, <2>3
  <1>5. ASSUME nonce' = nonce, toHost' = toHost \/ Shortened(toHost, toHost')
        PROVE  HostPart'
    <2>1. CASE toHost' = toHost
      BY <1>0, <1>1, <1>5, <2>1
    <2>2. CASE Shortened(toHost, toHost')
      <3>1. /\ DOMAIN toHost' = 1 .. Len(toHost')
            /\ \A i \in 1 .. Len(toHost') : i + 1 \in 1 .. Len(toHost) /\ toHost'[i] = toHost[i + 1]
        BY <1>0, <2>2 DEF Shortened
      <3>2. \A i, j \in 1 .. Len(toHost') : i < j => i + 1 < j + 1
        BY <1>0, <2>2 DEF Shortened
      <3> QED BY <1>1, <1>5, <3>1, <3>2
    <2> QED BY <1>5, <2>1, <2>2
  <1>6. ASSUME nonce' = nonce, NEW e, Lengthened(toHost, toHost', e),
               \/ e.kind = "nonce" /\ e.nonce = minted + 1
               \/ e.kind # "nonce" /\ e.nonce <= nonce
        PROVE  HostPart'
    <2>1. /\ DOMAIN toHost' = 1 .. Len(toHost) + 1
          /\ \A i \in 1 .. Len(toHost) + 1 :
               \/ i \in 1 .. Len(toHost) /\ toHost'[i] = toHost[i]
               \/ i = Len(toHost) + 1 /\ toHost'[i] = e
      BY <1>0, <1>6 DEF Lengthened
    <2>2. \A i \in 1 .. Len(toHost) + 1 :
            IF toHost'[i].kind = "nonce" THEN toHost'[i].nonce > nonce ELSE toHost'[i].nonce <= nonce
      BY <1>0, <1>1, <1>6, <2>1
    <2>3. ASSUME NEW i \in 1 .. Len(toHost) + 1, NEW j \in 1 .. Len(toHost) + 1,
                 i < j, toHost'[i].kind = "nonce", toHost'[j].kind = "nonce"
          PROVE  toHost'[i].nonce < toHost'[j].nonce
      <3>1. i \in 1 .. Len(toHost) /\ toHost'[i] = toHost[i] /\ toHost[i].nonce <= minted
        BY <1>0, <2>1, <2>3
      <3>2. CASE j \in 1 .. Len(toHost)
        <4>1. toHost'[j] = toHost[j]
          BY <1>0, <2>1, <3>2
        <4> QED BY <1>1, <2>3, <3>1, <3>2, <4>1
      <3>3. CASE j = Len(toHost) + 1
        <4>1. toHost'[j] = e /\ e.nonce = minted + 1
          BY <1>0, <1>6, <2>1, <2>3, <3>3
        <4>2. toHost[i].nonce \in Nat
          BY <1>0, <3>1
        <4> QED BY <1>0, <3>1, <4>1, <4>2
      <3> QED BY <1>0, <3>2, <3>3
    <2> QED BY <1>6, <2>1, <2>2, <2>3
  <1> HIDE DEF UnitPart, HostPart
  <1>7. CASE Call
    <2>1. nonce' = nonce /\ toHost' = toHost /\ toUnit' = Append(toUnit, Challenge)
      BY <1>7 DEF Call, StartExchange
    <2>2. Lengthened(toUnit, toUnit', Challenge) /\ Challenge.nonce <= nonce
      BY <1>0, <1>2, <2>1, UnitQueue
    <2> QED BY <1>3, <1>4, <1>5, <2>1, <2>2
  <1>8. CASE Timeout
    <2>1. /\ nonce' = nonce /\ toHost' = toHost
          /\ toUnit' = toUnit \/ toUnit' = Append(toUnit, Frame)
      BY <1>8 DEF Timeout, Return
    <2>2. Frame.nonce <= nonce
      BY <1>0, <1>2 DEF Frame, Answer
    <2>3. toUnit' = toUnit \/ Lengthened(toUnit, toUnit', Frame)
      BY <2>1, UnitQueue
    <2> QED BY <1>3, <1>4, <1>5, <2>1, <2>2, <2>3
  <1>9. CASE ReceiveNonce
    <2>1. /\ toHost # <<>> /\ toHost' = Tail(toHost) /\ Head(toHost).kind = "nonce"
          /\ nonce' = Head(toHost).nonce
          /\ toUnit' = Append(toUnit, Answer(Head(toHost).nonce, right, calls))
      BY <1>9 DEF ReceiveNonce, Take
    <2>2. Shortened(toHost, toHost') /\ Head(toHost) = toHost[1] /\ Len(toHost) > 0
      BY <2>1, HostQueue DEF Shortened
    <2>3. nonce' > nonce /\ nonce' = toHost[1].nonce /\ nonce' \in Nat
      BY <1>0, <1>1, <2>1, <2>2
    <2>4. UnitPart'
      <3> DEFINE f == Answer(Head(toHost).nonce, right, calls)
      <3>1. f.nonce = nonce'
        BY <2>1 DEF Answer
      <3>2. Lengthened(toUnit, toUnit', f)
        BY <2>1, UnitQueue
      <3> HIDE DEF f
      <3>3. /\ DOMAIN toUnit' = 1 .. Len(toUnit) + 1
            /\ \A i \in 1 .. Len(toUnit) + 1 :
                 \/ i \in 1 .. Len(toUnit) /\ toUnit'[i] = toUnit[i]
                 \/ toUnit'[i] = f
        BY <1>0, <3>2 DEF Lengthened
      <3>4. \A i \in 1 .. Len(toUnit) + 1 : toUnit'[i].nonce <= nonce'
        BY <1>0, <1>1, <2>3, <3>1, <3>3
      <3> QED BY <3>3, <3>4 DEF UnitPart
    <2>5. HostPart'
      <3>1. /\ DOMAIN toHost' = 1 .. Len(toHost')
            /\ \A i \in 1 .. Len(toHost') : i + 1 \in 1 .. Len(toHost) /\ toHost'[i] = toHost[i + 1]
        BY <1>0, <2>2 DEF Shortened
      <3>2. \A i, j \in 1 .. Len(toHost') : (i < j => i + 1 < j + 1) /\ 1 < i + 1
        BY <1>0, <2>2 DEF Shortened
      <3>3. \A i \in 1 .. Len(toHost') :
              IF toHost'[i].kind = "nonce" THEN toHost'[i].nonce > nonce' ELSE toHost'[i].nonce <= nonce'
        <4> TAKE i \in 1 .. Len(toHost')
        <4>1. i + 1 \in 1 .. Len(toHost) /\ 1 \in 1 .. Len(toHost) /\ 1 < i + 1
              /\ toHost'[i] = toHost[i + 1]
          BY <1>0, <2>2, <3>1, <3>2
        <4>2. toHost[i + 1].kind = "nonce" => toHost[1].nonce < toHost[i + 1].nonce
          BY <1>1, <2>1, <2>2, <4>1
        <4>3. toHost[i + 1].kind # "nonce" => toHost[i + 1].nonce <= nonce
          BY <1>1, <4>1
        <4>4. toHost[i + 1].nonce \in Nat
          BY <1>0, <4>1
        <4> QED BY <1>0, <2>3, <4>1, <4>2, <4>3, <4>4
      <3>4. \A i, j \in 1 .. Len(toHost') :
              i < j /\ toHost'[i].kind = "nonce" /\ toHost'[j].kind = "nonce" =>
                  toHost'[i].nonce < toHost'[j].nonce
        BY <1>1, <3>1, <3>2
      <3> QED BY <3>1, <3>3, <3>4 DEF HostPart
    <2> QED BY <1>3, <2>4, <2>5
  <1>10. CASE ReceiveVerdict
    <2>1. /\ nonce' = nonce /\ toHost # <<>> /\ toHost' = Tail(toHost)
          /\ toUnit' = toUnit \/ toUnit' = Append(toUnit, Challenge)
      BY <1>10 DEF ReceiveVerdict, Take, Return, StartExchange
    <2>2. Challenge.nonce <= nonce
      BY <1>0, <1>2
    <2>3. toUnit' = toUnit \/ Lengthened(toUnit, toUnit', Challenge)
      BY <2>1, UnitQueue
    <2>4. Shortened(toHost, toHost')
      BY <2>1, HostQueue
    <2> QED BY <1>3, <1>4, <1>5, <2>1, <2>2, <2>3, <2>4
  <1>11. CASE ReceiveRefusal \/ ReceiveStale \/ LoseReply
    <2>1. nonce' = nonce /\ toHost # <<>> /\ toHost' = Tail(toHost) /\ toUnit' = toUnit
      BY <1>11 DEF ReceiveRefusal, ReceiveStale, LoseReply, Take, Return, hostVars
    <2>2. Shortened(toHost, toHost')
      BY <2>1, HostQueue
    <2> QED BY <1>3, <1>4, <1>5, <2>1, <2>2
  <1>12. CASE HandOutNonce
    <2> DEFINE r == [kind |-> "nonce", nonce |-> minted + 1, right |-> FALSE]
    <2>1. /\ nonce' = nonce /\ toUnit # <<>> /\ toUnit' = Tail(toUnit)
          /\ toHost' = Append(toHost, r)
      BY <1>12 DEF HandOutNonce, Reply, hostVars
    <2>2. Shortened(toUnit, toUnit') /\ Lengthened(toHost, toHost', r)
      BY <2>1, UnitQueue, HostQueue
    <2>3. r.kind = "nonce" /\ r.nonce = minted + 1
      OBVIOUS
    <2> HIDE DEF r
    <2> QED BY <1>3, <1>4, <1>6, <2>1, <2>2, <2>3
  <1>13. CASE JudgeAnswer
    <2> DEFINE good == Head(toUnit).right /\ slot = Head(toUnit).nonce
               r == [kind |-> IF good THEN "ack" ELSE "locked", nonce |-> Head(toUnit).nonce,
                     right |-> Head(toUnit).right]
    <2>1. /\ nonce' = nonce /\ toUnit # <<>> /\ toUnit' = Tail(toUnit)
          /\ toHost' = Append(toHost, r)
      BY <1>13 DEF JudgeAnswer, Reply, hostVars
    <2>2. /\ Shortened(toUnit, toUnit') /\ Lengthened(toHost, toHost', r)
          /\ Head(toUnit) = toUnit[1]
      BY <2>1, UnitQueue, HostQueue
    <2>3. r.kind # "nonce" /\ r.nonce <= nonce
      BY <1>0, <1>1, <2>2 DEF Shortened
    <2> HIDE DEF good, r
    <2> QED BY <1>3, <1>4, <1>6, <2>1, <2>2, <2>3
  <1>14. CASE LoseFrame
    <2>1. nonce' = nonce /\ toHost' = toHost /\ toUnit # <<>> /\ toUnit' = Tail(toUnit)
      BY <1>14 DEF LoseFrame, hostVars
    <2>2. Shortened(toUnit, toUnit')
      BY <2>1, UnitQueue
    <2> QED BY <1>3, <1>4, <1>5, <2>1, <2>2
  <1>15. CASE UnitRestarts \/ UNCHANGED vars
    <2>1. nonce' = nonce /\ toHost' = toHost /\ toUnit' = toUnit
      BY <1>15 DEF UnitRestarts, vars, hostVars
    <2> QED BY <1>3, <1>4, <1>5, <2>1
  <1> QED
    BY <1>7, <1>8, <1>9, <1>10, <1>11, <1>12, <1>13, <1>14, <1>15 DEF Next

-----------------------------------------------------------------------------
(* The answer in flight is the last thing the host said *)

LEMMA NextKeepsAnswer ==
    ASSUME AnswerRetries = 0
    PROVE  TypeInv /\ NonceInv /\ AnswerInv /\ [Next]_vars => AnswerInv'
  <1> SUFFICES ASSUME TypeInv, NonceInv, AnswerInv, [Next]_vars PROVE AnswerInv'
    OBVIOUS
  <1>0. /\ Len(toUnit) \in Nat /\ DOMAIN toUnit = 1 .. Len(toUnit)
        /\ Len(toHost) \in Nat /\ DOMAIN toHost = 1 .. Len(toHost)
        /\ toUnit = <<>> <=> Len(toUnit) = 0
        /\ nonce \in Nat
        /\ \A i \in 1 .. Len(toUnit) : toUnit[i].nonce \in Nat
        /\ \A i \in 1 .. Len(toHost) : toHost[i].nonce \in Nat
    BY Entries
  <1>1. /\ \A i \in 1 .. Len(toUnit) : toUnit[i].nonce <= nonce
        /\ \A i \in 1 .. Len(toHost) :
             IF toHost[i].kind = "nonce" THEN toHost[i].nonce > nonce ELSE toHost[i].nonce <= nonce
    BY <1>0 DEF NonceInv
  <1>2. waiting = "verdict" =>
          /\ left = 0
          /\ \A i \in 1 .. Len(toUnit) : i < Len(toUnit) => toUnit[i].nonce < nonce
          /\ \A i \in 1 .. Len(toHost) :
               i <= Len(toHost) - 1 => ~(toHost[i].kind # "nonce" /\ toHost[i].nonce = nonce)
          /\ toUnit # <<>> =>
               /\ toUnit[Len(toUnit)] = Answer(nonce, right, calls)
               /\ \A i \in 1 .. Len(toHost) : ~(toHost[i].kind # "nonce" /\ toHost[i].nonce = nonce)
    <2>1. \A k : ~JudgedIn(k) =>
            \A i \in 1 .. Len(toHost) :
              i <= k => ~(toHost[i].kind # "nonce" /\ toHost[i].nonce = nonce)
      BY <1>0 DEF JudgedIn
    <2>2. \A i \in 1 .. Len(toHost) : i <= Len(toHost)
      BY <1>0
    <2>3. CASE waiting = "verdict"
      <3>1. /\ left = 0
            /\ \A i \in 1 .. Len(toUnit) : i < Len(toUnit) => toUnit[i].nonce < nonce
            /\ ~JudgedIn(Len(toHost) - 1)
            /\ toUnit # <<>> => /\ toUnit[Len(toUnit)] = Answer(nonce, right, calls)
                               /\ ~JudgedIn(Len(toHost))
        BY <1>0, <2>3 DEF AnswerInv
      <3> QED BY <2>1, <2>2, <3>1
    <2> QED BY <2>3
  <1>3. ASSUME waiting' # "verdict" PROVE AnswerInv'
    BY <1>3 DEF AnswerInv
  <1>4. ASSUME waiting' = waiting, nonce' = nonce, right' = right, calls' = calls, left' = left,
               toUnit' = toUnit \/ Shortened(toUnit, toUnit'),
               toHost' = toHost \/ Shortened(toHost, toHost')
        PROVE  AnswerInv'
    <2> SUFFICES ASSUME waiting = "verdict" PROVE AnswerInv'
      BY <1>3, <1>4
    <2>1. /\ Len(toUnit') \in Nat /\ DOMAIN toUnit' = 1 .. Len(toUnit')
          /\ \A i \in 1 .. Len(toUnit') : i < Len(toUnit') => toUnit'[i].nonce < nonce
          /\ toUnit' # <<>> => toUnit # <<>> /\ toUnit'[Len(toUnit')] = toUnit[Len(toUnit)]
      <3>1. CASE toUnit' = toUnit
        BY <1>0, <1>2, <3>1
      <3>2. CASE Shortened(toUnit, toUnit')
        <4>1. /\ Len(toUnit') = Len(toUnit) - 1 /\ Len(toUnit') \in Nat
              /\ DOMAIN toUnit' = 1 .. Len(toUnit') /\ toUnit # <<>>
              /\ toUnit' = <<>> <=> Len(toUnit') = 0
          BY <1>0, <3>2 DEF Shortened
        <4>2. \A i \in 1 .. Len(toUnit') :
                /\ i + 1 \in 1 .. Len(toUnit) /\ toUnit'[i] = toUnit[i + 1]
                /\ i < Len(toUnit') => i + 1 < Len(toUnit)
          BY <1>0, <3>2, <4>1 DEF Shortened
        <4>3. Len(toUnit') # 0 => Len(toUnit') \in 1 .. Len(toUnit') /\ Len(toUnit') + 1 = Len(toUnit)
          BY <1>0, <4>1
        <4> QED BY <1>2, <4>1, <4>2, <4>3
      <3> QED BY <1>4, <3>1, <3>2
    <2>2. /\ Len(toHost') \in Nat /\ DOMAIN toHost' = 1 .. Len(toHost')
          /\ \A i \in 1 .. Len(toHost') : \E j \in 1 .. Len(toHost) :
               /\ toHost'[i] = toHost[j]
               /\ i <= Len(toHost') - 1 => j <= Len(toHost) - 1
      <3>1. CASE toHost' = toHost
        BY <1>0, <3>1
      <3>2. CASE Shortened(toHost, toHost')
        <4>1. /\ Len(toHost') = Len(toHost) - 1 /\ Len(toHost') \in Nat
              /\ DOMAIN toHost' = 1 .. Len(toHost')
          BY <1>0, <3>2 DEF Shortened
        <4>2. \A i \in 1 .. Len(toHost') :
                /\ i + 1 \in 1 .. Len(toHost) /\ toHost'[i] = toHost[i + 1]
                /\ i <= Len(toHost') - 1 => i + 1 <= Len(toHost) - 1
          BY <1>0, <3>2, <4>1 DEF Shortened
        <4> QED BY <4>1, <4>2
      <3> QED BY <1>4, <3>1, <3>2
    <2>3. ~JudgedIn(Len(toHost) - 1)'
      BY <1>2, <1>4, <2>2 DEF JudgedIn
    <2>4. toUnit' # <<>> => ~JudgedIn(Len(toHost))'
      BY <1>2, <1>4, <2>1, <2>2 DEF JudgedIn
    <2>5. Answer(nonce, right, calls)' = Answer(nonce, right, calls)
      BY <1>4 DEF Answer
    <2> QED BY <1>2, <1>4, <2>1, <2>3, <2>4, <2>5 DEF AnswerInv
  <1>5. CASE Call
    BY <1>3, <1>5 DEF Call, StartExchange
  <1>6. CASE Timeout
    <2>1. CASE waiting = "verdict"
      <3>1. ~(left > 0)
        BY <1>2, <2>1
      <3> QED BY <1>3, <1>6, <3>1 DEF Timeout, Return
    <2>2. CASE waiting # "verdict"
      <3>1. waiting' # "verdict"
        BY <1>6, <2>2 DEF Timeout, Return
      <3> QED BY <1>3, <3>1
    <2> QED BY <2>1, <2>2
  <1>7. CASE ReceiveNonce
    <2> DEFINE f == Answer(Head(toHost).nonce, right, calls)
    <2>1. /\ toHost # <<>> /\ toHost' = Tail(toHost) /\ Head(toHost).kind = "nonce"
          /\ nonce' = Head(toHost).nonce /\ left' = AnswerBudget
          /\ toUnit' = Append(toUnit, f)
          /\ right' = right /\ calls' = calls
      BY <1>7 DEF ReceiveNonce, Take
    <2>2. Shortened(toHost, toHost') /\ Head(toHost) = toHost[1] /\ Lengthened(toUnit, toUnit', f)
      BY <2>1, HostQueue, UnitQueue
    <2>3. nonce' > nonce /\ nonce' \in Nat
      BY <1>0, <1>1, <2>1, <2>2 DEF Shortened
    <2>4. f = Answer(nonce, right, calls)'
      BY <2>1 DEF Answer
    <2> HIDE DEF f
    <2>5. /\ Len(toUnit') \in Nat /\ DOMAIN toUnit' = 1 .. Len(toUnit')
          /\ \A i \in 1 .. Len(toUnit') : i < Len(toUnit') => toUnit'[i].nonce < nonce'
          /\ toUnit'[Len(toUnit')] = f
      <3>1. Len(toUnit') = Len(toUnit) + 1 /\ DOMAIN toUnit' = 1 .. Len(toUnit')
        BY <1>0, <2>2 DEF Lengthened
      <3>2. ASSUME NEW i \in 1 .. Len(toUnit'), i < Len(toUnit')
            PROVE  toUnit'[i].nonce < nonce'
        <4>1. i \in 1 .. Len(toUnit)
          BY <1>0, <3>1, <3>2
        <4>2. toUnit'[i] = toUnit[i]
          BY <2>2, <4>1 DEF Lengthened
        <4>3. toUnit[i].nonce \in Nat /\ toUnit[i].nonce <= nonce
          BY <1>0, <1>1, <4>1
        <4> QED BY <1>0, <2>3, <4>2, <4>3
      <3> QED BY <1>0, <2>2, <3>1, <3>2 DEF Lengthened
    <2>6. /\ DOMAIN toHost' = 1 .. Len(toHost')
          /\ \A i \in 1 .. Len(toHost') : ~(toHost'[i].kind # "nonce" /\ toHost'[i].nonce = nonce')
      <3>1. /\ DOMAIN toHost' = 1 .. Len(toHost')
            /\ \A i \in 1 .. Len(toHost') : i + 1 \in 1 .. Len(toHost) /\ toHost'[i] = toHost[i + 1]
        BY <1>0, <2>2 DEF Shortened
      <3>2. \A i \in 1 .. Len(toHost) : toHost[i].kind # "nonce" => toHost[i].nonce < nonce'
        BY <1>0, <1>1, <2>3
      <3> QED BY <1>0, <2>3, <3>1, <3>2
    <2>7. ~JudgedIn(Len(toHost) - 1)' /\ ~JudgedIn(Len(toHost))'
      BY <2>6 DEF JudgedIn
    <2>8. left' = 0
      BY <2>1 DEF AnswerBudget
    <2> QED BY <2>4, <2>5, <2>7, <2>8 DEF AnswerInv
  <1>8. CASE ReceiveVerdict
    BY <1>3, <1>8 DEF ReceiveVerdict, Return, StartExchange
  <1>9. CASE ReceiveRefusal
    BY <1>3, <1>9 DEF ReceiveRefusal, Return
  <1>10. CASE ReceiveStale \/ LoseReply
    <2>1. /\ waiting' = waiting /\ nonce' = nonce /\ right' = right /\ calls' = calls
          /\ left' = left /\ toUnit' = toUnit /\ toHost # <<>> /\ toHost' = Tail(toHost)
      BY <1>10 DEF ReceiveStale, LoseReply, Take, hostVars
    <2> QED BY <1>4, <2>1, HostQueue
  <1>11. CASE HandOutNonce
    <2> DEFINE r == [kind |-> "nonce", nonce |-> minted + 1, right |-> FALSE]
    <2>1. /\ waiting' = waiting /\ nonce' = nonce /\ right' = right /\ calls' = calls
          /\ left' = left /\ toUnit # <<>> /\ toUnit' = Tail(toUnit)
          /\ toHost' = Append(toHost, r)
      BY <1>11 DEF HandOutNonce, Reply, hostVars
    <2>2. Shortened(toUnit, toUnit') /\ Lengthened(toHost, toHost', r)
      BY <2>1, UnitQueue, HostQueue
    <2>3. r.kind = "nonce"
      OBVIOUS
    <2> HIDE DEF r
    <2> SUFFICES ASSUME waiting = "verdict" PROVE AnswerInv'
      BY <1>3, <2>1
    <2>4. /\ DOMAIN toHost' = 1 .. Len(toHost')
          /\ \A i \in 1 .. Len(toHost') : ~(toHost'[i].kind # "nonce" /\ toHost'[i].nonce = nonce)
      <3>1. /\ DOMAIN toHost' = 1 .. Len(toHost')
            /\ \A i \in 1 .. Len(toHost') :
                 \/ i \in 1 .. Len(toHost) /\ toHost'[i] = toHost[i]
                 \/ toHost'[i] = r
        BY <1>0, <2>2 DEF Lengthened
      <3> QED BY <1>2, <2>1, <2>3, <3>1
    <2>5. ~JudgedIn(Len(toHost) - 1)' /\ ~JudgedIn(Len(toHost))'
      BY <2>1, <2>4 DEF JudgedIn
    <2>6. /\ DOMAIN toUnit' = 1 .. Len(toUnit')
          /\ \A i \in 1 .. Len(toUnit') : i < Len(toUnit') => toUnit'[i].nonce < nonce
          /\ toUnit' # <<>> => toUnit'[Len(toUnit')] = toUnit[Len(toUnit)]
      <3>1. /\ Len(toUnit') = Len(toUnit) - 1 /\ Len(toUnit') \in Nat
            /\ DOMAIN toUnit' = 1 .. Len(toUnit')
            /\ toUnit' = <<>> <=> Len(toUnit') = 0
        BY <1>0, <2>2 DEF Shortened
      <3>2. \A i \in 1 .. Len(toUnit') :
              /\ i + 1 \in 1 .. Len(toUnit) /\ toUnit'[i] = toUnit[i + 1]
              /\ i < Len(toUnit') => i + 1 < Len(toUnit)
        BY <1>0, <2>2, <3>1 DEF Shortened
      <3>3. Len(toUnit') # 0 => Len(toUnit') \in 1 .. Len(toUnit') /\ Len(toUnit') + 1 = Len(toUnit)
        BY <1>0, <3>1
      <3> QED BY <1>2, <3>1, <3>2, <3>3
    <2>7. Answer(nonce, right, calls)' = Answer(nonce, right, calls)
      BY <2>1 DEF Answer
    <2> QED BY <1>2, <2>1, <2>5, <2>6, <2>7 DEF AnswerInv
  <1>12. CASE JudgeAnswer
    <2> DEFINE good == Head(toUnit).right /\ slot = Head(toUnit).nonce
               r == [kind |-> IF good THEN "ack" ELSE "locked", nonce |-> Head(toUnit).nonce,
                     right |-> Head(toUnit).right]
    <2>1. /\ waiting' = waiting /\ nonce' = nonce /\ right' = right /\ calls' = calls
          /\ left' = left /\ toUnit # <<>> /\ toUnit' = Tail(toUnit)
          /\ toHost' = Append(toHost, r)
      BY <1>12 DEF JudgeAnswer, Reply, hostVars
    <2>2. /\ Shortened(toUnit, toUnit') /\ Lengthened(toHost, toHost', r)
          /\ Head(toUnit) = toUnit[1]
      BY <2>1, UnitQueue, HostQueue
    <2>3. r.nonce = toUnit[1].nonce
      BY <2>2
    <2> HIDE DEF good, r
    <2> SUFFICES ASSUME waiting = "verdict" PROVE AnswerInv'
      BY <1>3, <2>1
    <2>4. /\ Len(toUnit') = Len(toUnit) - 1 /\ Len(toUnit') \in Nat
          /\ DOMAIN toUnit' = 1 .. Len(toUnit')
          /\ toUnit' = <<>> <=> Len(toUnit') = 0
      BY <1>0, <2>2 DEF Shortened
    <2>5. \A i \in 1 .. Len(toUnit') :
            /\ i + 1 \in 1 .. Len(toUnit) /\ toUnit'[i] = toUnit[i + 1]
            /\ i < Len(toUnit') => i + 1 < Len(toUnit)
      BY <1>0, <2>2, <2>4 DEF Shortened
    <2>6. /\ Len(toHost') = Len(toHost) + 1
          /\ DOMAIN toHost' = 1 .. Len(toHost')
          /\ \A i \in 1 .. Len(toHost') :
               \/ i \in 1 .. Len(toHost) /\ toHost'[i] = toHost[i]
               \/ i = Len(toHost') /\ toHost'[i] = r
      BY <1>0, <2>2 DEF Lengthened
    <2>7. \A i \in 1 .. Len(toHost) : ~(toHost[i].kind # "nonce" /\ toHost[i].nonce = nonce)
      BY <1>2, <2>1
    <2>8. ~JudgedIn(Len(toHost) - 1)'
      <3>1. \A i \in 1 .. Len(toHost') : i <= Len(toHost') - 1 => i # Len(toHost')
        BY <1>0, <2>6
      <3> QED BY <2>1, <2>6, <2>7, <3>1 DEF JudgedIn
    <2>9. toUnit' # <<>> => ~JudgedIn(Len(toHost))'
      <3> SUFFICES ASSUME toUnit' # <<>> PROVE ~JudgedIn(Len(toHost))'
        OBVIOUS
      <3>1. 1 \in 1 .. Len(toUnit) /\ 1 < Len(toUnit)
        BY <1>0, <2>4
      <3>2. r.nonce # nonce
        BY <1>0, <1>2, <2>3, <3>1
      <3> QED BY <2>1, <2>6, <2>7, <3>2 DEF JudgedIn
    <2>10. toUnit' # <<>> => toUnit'[Len(toUnit')] = toUnit[Len(toUnit)]
      <3>1. Len(toUnit') # 0 => Len(toUnit') \in 1 .. Len(toUnit') /\ Len(toUnit') + 1 = Len(toUnit)
        BY <1>0, <2>4
      <3> QED BY <2>4, <2>5, <3>1
    <2>11. Answer(nonce, right, calls)' = Answer(nonce, right, calls)
      BY <2>1 DEF Answer
    <2>12. \A i \in DOMAIN toUnit' : i < Len(toUnit') => toUnit'[i].nonce < nonce
      BY <1>2, <2>4, <2>5
    <2> QED BY <1>2, <2>1, <2>8, <2>9, <2>10, <2>11, <2>12 DEF AnswerInv
  <1>13. CASE LoseFrame
    <2>1. /\ waiting' = waiting /\ nonce' = nonce /\ right' = right /\ calls' = calls
          /\ left' = left /\ toHost' = toHost /\ toUnit # <<>> /\ toUnit' = Tail(toUnit)
      BY <1>13 DEF LoseFrame, hostVars
    <2> QED BY <1>4, <2>1, UnitQueue
  <1>14. CASE UnitRestarts \/ UNCHANGED vars
    <2>1. /\ waiting' = waiting /\ nonce' = nonce /\ right' = right /\ calls' = calls
          /\ left' = left /\ toHost' = toHost /\ toUnit' = toUnit
      BY <1>14 DEF UnitRestarts, vars, hostVars
    <2> QED BY <1>4, <2>1
  <1> QED
    BY <1>5, <1>6, <1>7, <1>8, <1>9, <1>10, <1>11, <1>12, <1>13, <1>14 DEF Next

\* What AnswerInv says once JudgedIn is written out.
LEMMA AnswerIsLast ==
    ASSUME TypeInv, AnswerInv, waiting = "verdict"
    PROVE  /\ \A i \in 1 .. Len(toUnit) : i < Len(toUnit) => toUnit[i].nonce < nonce
           /\ \A i \in 1 .. Len(toHost) :
                i <= Len(toHost) - 1 => ~(toHost[i].kind # "nonce" /\ toHost[i].nonce = nonce)
           /\ toUnit # <<>> =>
                \A i \in 1 .. Len(toHost) : ~(toHost[i].kind # "nonce" /\ toHost[i].nonce = nonce)
  <1>0. Len(toHost) \in Nat /\ DOMAIN toHost = 1 .. Len(toHost) /\ DOMAIN toUnit = 1 .. Len(toUnit)
    BY Entries
  <1>1. \A k : ~JudgedIn(k) =>
          \A i \in 1 .. Len(toHost) :
            i <= k => ~(toHost[i].kind # "nonce" /\ toHost[i].nonce = nonce)
    BY <1>0 DEF JudgedIn
  <1>2. \A i \in 1 .. Len(toHost) : i <= Len(toHost)
    BY <1>0
  <1>3. /\ \A i \in 1 .. Len(toUnit) : i < Len(toUnit) => toUnit[i].nonce < nonce
        /\ ~JudgedIn(Len(toHost) - 1)
        /\ toUnit # <<>> => ~JudgedIn(Len(toHost))
    BY <1>0 DEF AnswerInv
  <1> QED BY <1>1, <1>2, <1>3

\* A verdict whose echo matches leaves nothing on the line.
LEMMA VerdictIsLast ==
    ASSUME TypeInv, AnswerInv, ReceiveVerdict, echoes
    PROVE  /\ toUnit = <<>> /\ Len(toHost) = 1 /\ 1 \in 1 .. Len(toHost)
           /\ toHost' = <<>> /\ Head(toHost) = toHost[1]
           /\ toHost[1].kind # "nonce" /\ toHost[1].nonce = nonce
  <1>0. Len(toHost) \in Nat /\ (toHost = <<>> <=> Len(toHost) = 0) /\ toHost \in Seq(ReplySet)
    BY Entries, Lines DEF TypeInv
  <1>1. /\ waiting = "verdict" /\ toHost # <<>> /\ toHost' = Tail(toHost)
        /\ Head(toHost).kind # "nonce" /\ Head(toHost).nonce = nonce
    BY DEF ReceiveVerdict, Take, Matches
  <1>2. Head(toHost) = toHost[1] /\ 1 \in 1 .. Len(toHost)
    BY <1>0, <1>1, HostQueue
  <1>3. Len(toHost) = 1 /\ toUnit = <<>>
    <2>1. /\ ~(1 <= Len(toHost) - 1)
          /\ ~(toUnit # <<>>)
      BY <1>1, <1>2, AnswerIsLast
    <2>2. \A n \in Nat : 1 \in 1 .. n /\ ~(1 <= n - 1) => n = 1
      OBVIOUS
    <2>3. Len(toHost) \in Nat
      BY <1>0
    <2>4. Len(toHost) = 1
      BY <1>2, <2>1, <2>2, <2>3
    <2> QED BY <2>1, <2>4
  <1>4. toHost' = <<>>
    BY <1>0, <1>1, <1>3, LastTaken
  <1> QED BY <1>1, <1>2, <1>3, <1>4

-----------------------------------------------------------------------------
(* An accepted answer is never called wrong *)

LEMMA NextKeepsOwn == TypeInv /\ NonceInv /\ AnswerInv /\ OwnInv /\ [Next]_vars => OwnInv'
  <1> SUFFICES ASSUME TypeInv, NonceInv, AnswerInv, OwnInv, [Next]_vars, echoes' PROVE OwnInv'
    BY DEF OwnInv
  <1>0. /\ Len(toUnit) \in Nat /\ DOMAIN toUnit = 1 .. Len(toUnit)
        /\ Len(toHost) \in Nat /\ DOMAIN toHost = 1 .. Len(toHost)
        /\ toUnit = <<>> <=> Len(toUnit) = 0
        /\ toHost = <<>> <=> Len(toHost) = 0
        /\ nonce \in Nat /\ calls \in Nat
        /\ \A i \in 1 .. Len(toUnit) : /\ toUnit[i].nonce \in Nat /\ toUnit[i].call \in Nat
                                       /\ toUnit[i].call <= calls
                                       /\ toUnit[i].nonce = 0 <=> toUnit[i] = Challenge
    BY Entries
  <1>1. echoes
    BY DEF Next, vars, unitVars, Call, Timeout, ReceiveNonce, ReceiveVerdict, ReceiveRefusal,
           ReceiveStale, Take, HandOutNonce, JudgeAnswer, UnitRestarts, LoseFrame, LoseReply
  <1>2. /\ accepted => \/ waiting = "none" /\ outcome # "wrong"
                       \/ /\ waiting = "verdict" /\ toUnit = <<>>
                          /\ \A i \in 1 .. Len(toHost) :
                               toHost[i].kind # "nonce" /\ toHost[i].nonce = nonce =>
                                   toHost[i].kind = "ack"
        /\ \A i \in 1 .. Len(toUnit) :
             toUnit[i].nonce > 0 /\ toUnit[i].call = calls =>
                 \/ waiting = "none" /\ outcome # "wrong"
                 \/ waiting = "verdict" /\ toUnit[i].nonce = nonce
    BY <1>0, <1>1 DEF OwnInv
  <1>3. Challenge.nonce = 0
    BY ChallengeShaped
  <1> DEFINE AcceptPart ==
               accepted => \/ waiting = "none" /\ outcome # "wrong"
                           \/ /\ waiting = "verdict" /\ toUnit = <<>>
                              /\ \A i \in DOMAIN toHost :
                                   toHost[i].kind # "nonce" /\ toHost[i].nonce = nonce =>
                                       toHost[i].kind = "ack"
             FramePart ==
               \A i \in DOMAIN toUnit :
                 toUnit[i].nonce > 0 /\ toUnit[i].call = calls =>
                     \/ waiting = "none" /\ outcome # "wrong"
                     \/ waiting = "verdict" /\ toUnit[i].nonce = nonce
  <1>4. AcceptPart' /\ FramePart' => OwnInv'
    BY DEF OwnInv
  <1>5. ASSUME waiting' = "none", outcome' # "wrong" PROVE OwnInv'
    BY <1>5 DEF OwnInv
  \* Dropping the oldest frame or reply changes nothing.
  <1>6. ASSUME waiting' = waiting, outcome' = outcome, nonce' = nonce, calls' = calls,
               accepted' = accepted,
               toUnit' = toUnit \/ Shortened(toUnit, toUnit'),
               toHost' = toHost \/ Shortened(toHost, toHost')
        PROVE  OwnInv'
    <2>1. \A i \in DOMAIN toUnit' : \E j \in 1 .. Len(toUnit) : toUnit'[i] = toUnit[j]
      <3>1. CASE toUnit' = toUnit
        BY <1>0, <3>1
      <3>2. CASE Shortened(toUnit, toUnit')
        <4>1. \A i \in DOMAIN toUnit' : i + 1 \in 1 .. Len(toUnit) /\ toUnit'[i] = toUnit[i + 1]
          BY <1>0, <3>2 DEF Shortened
        <4> QED BY <4>1
      <3> QED BY <1>6, <3>1, <3>2
    <2>2. \A i \in DOMAIN toHost' : \E j \in 1 .. Len(toHost) : toHost'[i] = toHost[j]
      <3>1. CASE toHost' = toHost
        BY <1>0, <3>1
      <3>2. CASE Shortened(toHost, toHost')
        <4>1. \A i \in DOMAIN toHost' : i + 1 \in 1 .. Len(toHost) /\ toHost'[i] = toHost[i + 1]
          BY <1>0, <3>2 DEF Shortened
        <4> QED BY <4>1
      <3> QED BY <1>6, <3>1, <3>2
    <2>3. toUnit = <<>> => toUnit' = <<>>
      <3>1. Shortened(toUnit, toUnit') => toUnit # <<>>
        BY <1>0 DEF Shortened
      <3> QED BY <1>6, <3>1
    <2>4. FramePart'
      BY <1>2, <1>6, <2>1
    <2>5. AcceptPart'
      BY <1>2, <1>6, <2>2, <2>3
    <2> QED BY <1>4, <2>4, <2>5
  <1>7. ASSUME ~accepted', NEW e, Lengthened(toUnit, toUnit', e),
               \A i \in 1 .. Len(toUnit) :
                 ~(toUnit[i].nonce > 0 /\ toUnit[i].call = calls'),
               e.nonce > 0 => waiting' = "verdict" /\ e.nonce = nonce'
        PROVE  OwnInv'
    <2>1. \A i \in DOMAIN toUnit' :
            (i \in 1 .. Len(toUnit) /\ toUnit'[i] = toUnit[i]) \/ toUnit'[i] = e
      BY <1>0, <1>7 DEF Lengthened
    <2>2. FramePart'
      BY <1>7, <2>1
    <2> QED BY <1>4, <1>7, <2>2
  <1> HIDE DEF AcceptPart, FramePart
  \* While a nonce is awaited, nothing of this call is accepted or under way.
  <1>8. ASSUME waiting = "nonce"
        PROVE  ~accepted /\ \A i \in 1 .. Len(toUnit) : ~(toUnit[i].nonce > 0 /\ toUnit[i].call = calls)
    BY <1>2, <1>8
  <1>9. CASE Call
    <2>1. /\ ~accepted' /\ calls' = calls + 1 /\ toUnit' = Append(toUnit, Challenge)
      BY <1>9 DEF Call, StartExchange
    <2>2. \A i \in 1 .. Len(toUnit) : toUnit[i].call # calls'
      BY <1>0, <2>1
    <2>3. Lengthened(toUnit, toUnit', Challenge)
      BY <2>1, UnitQueue
    <2>4. ~(Challenge.nonce > 0)
      BY <1>3
    <2> QED BY <1>7, <2>1, <2>2, <2>3, <2>4
  <1>10. CASE Timeout
    <2>1. CASE left > 0 /\ waiting = "nonce"
      <3>1. /\ accepted' = accepted /\ calls' = calls /\ toUnit' = Append(toUnit, Challenge)
        BY <1>10, <2>1 DEF Timeout, Frame, unitVars
      <3>2. Lengthened(toUnit, toUnit', Challenge)
        BY <3>1, UnitQueue
      <3>3. ~(Challenge.nonce > 0)
        BY <1>3
      <3> QED BY <1>7, <1>8, <2>1, <3>1, <3>2, <3>3
    <2>2. CASE ~(left > 0)
      BY <1>5, <1>10, <2>2 DEF Timeout, Return
    <2>3. CASE waiting = "verdict"
      <3>1. ~(left > 0)
        BY <2>3 DEF AnswerInv
      <3> QED BY <2>2, <3>1
    <2>4. waiting = "nonce" \/ waiting = "verdict"
      BY <1>10, Split DEF Timeout, TypeInv, Flags
    <2> QED BY <2>1, <2>2, <2>3, <2>4
  <1>11. CASE ReceiveNonce
    <2> DEFINE f == Answer(Head(toHost).nonce, right, calls)
    <2>1. /\ waiting = "nonce" /\ waiting' = "verdict" /\ nonce' = Head(toHost).nonce
          /\ toUnit' = Append(toUnit, f) /\ calls' = calls /\ accepted' = accepted
      BY <1>11 DEF ReceiveNonce, Take, unitVars
    <2>2. f.nonce = nonce'
      BY <2>1 DEF Answer
    <2> HIDE DEF f
    <2>3. Lengthened(toUnit, toUnit', f)
      BY <2>1, UnitQueue
    <2> QED BY <1>7, <1>8, <2>1, <2>2, <2>3
  <1>12. CASE ReceiveVerdict
    <2>1. /\ toUnit = <<>> /\ Head(toHost) = toHost[1] /\ 1 \in 1 .. Len(toHost)
          /\ toHost[1].kind # "nonce" /\ toHost[1].nonce = nonce
      BY <1>1, <1>12, VerdictIsLast
    <2>2. CASE Head(toHost).kind = "ack"
      BY <1>5, <1>12, <2>2 DEF ReceiveVerdict, Return
    <2>3. CASE Head(toHost).kind # "ack"
      <3>1. waiting = "verdict" /\ accepted' = accepted /\ calls' = calls
        BY <1>12 DEF ReceiveVerdict, Take, unitVars
      <3>2. ~accepted
        BY <1>2, <2>1, <2>3, <3>1
      <3>3. CASE Again
        <4>1. toUnit' = Append(toUnit, Challenge)
          BY <1>12, <2>3, <3>3 DEF ReceiveVerdict, StartExchange
        <4>2. Lengthened(toUnit, toUnit', Challenge)
          BY <4>1, UnitQueue
        <4>3. \A i \in 1 .. Len(toUnit) : FALSE
          BY <1>0, <2>1
        <4>4. ~(Challenge.nonce > 0)
          BY <1>3
        <4> QED BY <1>7, <3>1, <3>2, <4>2, <4>3, <4>4
      <3>4. CASE ~Again
        <4>1. toUnit' = <<>>
          BY <1>12, <2>1, <2>3, <3>4 DEF ReceiveVerdict, Return
        <4> QED BY <3>1, <3>2, <4>1 DEF OwnInv
      <3> QED BY <3>3, <3>4
    <2> QED BY <2>2, <2>3
  <1>13. CASE ReceiveRefusal
    BY <1>5, <1>13 DEF ReceiveRefusal, Return
  <1>14. CASE ReceiveStale \/ LoseReply
    <2>1. /\ waiting' = waiting /\ outcome' = outcome /\ nonce' = nonce /\ calls' = calls
          /\ accepted' = accepted /\ toUnit' = toUnit /\ toHost # <<>> /\ toHost' = Tail(toHost)
      BY <1>14 DEF ReceiveStale, LoseReply, Take, hostVars, unitVars
    <2> QED BY <1>6, <2>1, HostQueue
  <1>15. CASE HandOutNonce
    <2>1. /\ waiting' = waiting /\ outcome' = outcome /\ nonce' = nonce /\ calls' = calls
          /\ accepted' = accepted /\ toUnit # <<>> /\ toUnit' = Tail(toUnit)
      BY <1>15 DEF HandOutNonce, hostVars
    <2>2. Shortened(toUnit, toUnit')
      BY <2>1, UnitQueue
    <2>3. \A i \in DOMAIN toUnit' : i + 1 \in 1 .. Len(toUnit) /\ toUnit'[i] = toUnit[i + 1]
      BY <1>0, <2>2 DEF Shortened
    <2>4. FramePart'
      BY <1>2, <2>1, <2>3 DEF FramePart
    <2>5. AcceptPart'
      BY <1>2, <2>1 DEF AcceptPart
    <2> QED BY <1>4, <2>4, <2>5
  <1>16. CASE JudgeAnswer
    <2> DEFINE good == Head(toUnit).right /\ slot = Head(toUnit).nonce
               r == [kind |-> IF good THEN "ack" ELSE "locked", nonce |-> Head(toUnit).nonce,
                     right |-> Head(toUnit).right]
    <2>1. /\ waiting' = waiting /\ outcome' = outcome /\ nonce' = nonce /\ calls' = calls
          /\ toUnit # <<>> /\ toUnit' = Tail(toUnit) /\ Head(toUnit) # Challenge
          /\ toHost' = Append(toHost, r)
          /\ accepted' = (accepted \/ (good /\ Head(toUnit).call = calls))
      BY <1>16 DEF JudgeAnswer, Reply, hostVars
    <2>2. /\ Shortened(toUnit, toUnit') /\ Lengthened(toHost, toHost', r)
          /\ Head(toUnit) = toUnit[1] /\ 1 \in 1 .. Len(toUnit)
      BY <1>0, <2>1, UnitQueue, HostQueue
    <2>3. good => r.kind = "ack"
      OBVIOUS
    <2> HIDE DEF good, r
    <2>4. \A i \in DOMAIN toUnit' : i + 1 \in 1 .. Len(toUnit) /\ toUnit'[i] = toUnit[i + 1]
      BY <1>0, <2>2 DEF Shortened
    <2>5. FramePart'
      BY <1>2, <2>1, <2>4 DEF FramePart
    <2>6. AcceptPart'
      <3>1. CASE accepted
        BY <1>2, <2>1, <3>1 DEF AcceptPart
      <3>2. CASE ~accepted /\ good /\ toUnit[1].call = calls
        <4>1. toUnit[1].nonce > 0
          BY <1>0, <2>1, <2>2
        <4>2. CASE waiting = "none" /\ outcome # "wrong"
          BY <2>1, <4>2 DEF AcceptPart
        <4>3. CASE waiting = "verdict" /\ toUnit[1].nonce = nonce
          <5>1. /\ \A i \in 1 .. Len(toUnit) : i < Len(toUnit) => toUnit[i].nonce < nonce
                /\ \A i \in 1 .. Len(toHost) :
                     ~(toHost[i].kind # "nonce" /\ toHost[i].nonce = nonce)
            BY <2>1, <4>3, AnswerIsLast
          <5>2. ~(1 < Len(toUnit))
            BY <1>0, <2>2, <4>3, <5>1
          <5>3. toUnit' = <<>>
            BY <1>0, <2>2, <5>2 DEF Shortened
          <5>4. \A i \in DOMAIN toHost' :
                  (i \in 1 .. Len(toHost) /\ toHost'[i] = toHost[i]) \/ toHost'[i] = r
            BY <1>0, <2>2 DEF Lengthened
          <5>5. \A i \in DOMAIN toHost' :
                  toHost'[i].kind # "nonce" /\ toHost'[i].nonce = nonce => toHost'[i].kind = "ack"
            BY <2>3, <3>2, <5>1, <5>4
          <5> QED BY <2>1, <4>3, <5>3, <5>5 DEF AcceptPart
        <4> QED BY <1>2, <2>2, <3>2, <4>1, <4>2, <4>3
      <3>3. CASE ~accepted'
        BY <3>3 DEF AcceptPart
      <3> QED BY <2>1, <2>2, <3>1, <3>2, <3>3
    <2> QED BY <1>4, <2>5, <2>6
  <1>17. CASE LoseFrame
    <2>1. /\ waiting' = waiting /\ outcome' = outcome /\ nonce' = nonce /\ calls' = calls
          /\ accepted' = accepted /\ toHost' = toHost /\ toUnit # <<>> /\ toUnit' = Tail(toUnit)
      BY <1>17 DEF LoseFrame, hostVars, unitVars
    <2> QED BY <1>6, <2>1, UnitQueue
  <1>18. CASE UnitRestarts \/ UNCHANGED vars
    <2>1. /\ waiting' = waiting /\ outcome' = outcome /\ nonce' = nonce /\ calls' = calls
          /\ accepted' = accepted /\ toHost' = toHost /\ toUnit' = toUnit
      BY <1>18 DEF UnitRestarts, vars, hostVars, unitVars
    <2> QED BY <1>6, <2>1
  <1> QED
    BY <1>9, <1>10, <1>11, <1>12, <1>13, <1>14, <1>15, <1>16, <1>17, <1>18 DEF Next

-----------------------------------------------------------------------------
(* An undisturbed exchange behind a verdict judges the secret itself *)

LEMMA Singles ==
    ASSUME NEW e
    PROVE  /\ Append(<<>>, e) = <<e>> /\ Len(<<e>>) = 1 /\ <<e>>[1] = e
           /\ <<e>> # <<>> /\ Head(<<e>>) = e /\ Tail(<<e>>) = <<>>
  OBVIOUS

LEMMA NextKeepsQuiet ==
    ASSUME Attempts >= 2
    PROVE  TypeInv /\ AnswerInv /\ QuietInv /\ [Next]_vars => QuietInv'
  <1> SUFFICES ASSUME TypeInv, AnswerInv, QuietInv, [Next]_vars, echoes', ~disturbed'
               PROVE  QuietInv'
    BY DEF QuietInv
  <1>0. /\ Challenge.nonce = 0 /\ attempt \in Nat /\ toHost \in Seq(ReplySet)
        /\ toUnit \in Seq(FrameSet) /\ waiting \in {"none", "nonce", "verdict"}
    <2>1. Flags /\ Numbers /\ TypeOK
      BY Split DEF TypeInv
    <2>2. attempt \in Nat
      BY <2>1, ProofConstants DEF Numbers
    <2> QED BY <2>1, <2>2, ChallengeShaped, Lines DEF Flags
  <1>1. echoes
    BY DEF Next, vars, unitVars, Call, Timeout, ReceiveNonce, ReceiveVerdict, ReceiveRefusal,
           ReceiveStale, Take, HandOutNonce, JudgeAnswer, UnitRestarts, LoseFrame, LoseReply
  <1>2. waiting = "verdict" => Answer(nonce, right, calls) # Challenge
    BY <1>0 DEF TypeInv, ShapeInv, Answer
  <1>3. ASSUME Len(toHost) = 1 PROVE toHost # <<>> /\ Tail(toHost) = <<>> /\ Head(toHost) = toHost[1]
    <2>1. toHost \in Seq(ReplySet)
      BY <1>0
    <2>2. Len(toHost) = 1
      BY <1>3
    <2> HIDE DEF ReplySet
    <2> QED BY ONLY <2>1, <2>2, LastTaken
  <1>4. ASSUME waiting' = "none", ~Wrong' PROVE QuietInv'
    BY <1>4 DEF QuietInv
  \* A line that has gone quiet is as good as one whose last message is under way.
  <1>5. ASSUME waiting' = waiting, attempt' = attempt, nonce' = nonce, right' = right,
               outcome' = outcome, disturbed' = disturbed, slot' = slot, calls' = calls,
               \/ toUnit' = toUnit /\ toHost' = toHost
               \/ toUnit' = toUnit /\ toHost # <<>> /\ toHost' = Tail(toHost)
               \/ toHost' = toHost /\ toUnit # <<>> /\ toUnit' = Tail(toUnit)
        PROVE  QuietInv'
    <2>1. Wrong' <=> Wrong
      BY <1>5 DEF Wrong
    <2>2. /\ waiting = "nonce" /\ attempt > 0 => Asked
          /\ waiting = "verdict" /\ attempt > 0 => Answered
          /\ Wrong => ~right
      BY <1>1, <1>5 DEF QuietInv
    <2>3. Asked => Asked'
      <3>1. CASE toUnit = <<Challenge>> /\ toHost = <<>>
        <4>1. Challenge' = Challenge
          BY DEF Challenge, Answer
        <4> QED BY <1>5, <3>1, <4>1, Singles DEF Asked
      <3>2. CASE toUnit = <<>> /\ toHost = <<>>
        BY <1>5, <3>2 DEF Asked
      <3>3. CASE toUnit = <<>> /\ Len(toHost) = 1 /\ toHost[1].kind = "nonce" /\ toHost[1].nonce = slot
        BY <1>3, <1>5, <3>3 DEF Asked
      <3> QED BY <3>1, <3>2, <3>3 DEF Asked
    <2>4. Answered => Answered'
      <3>0. Answer(nonce, right, calls)' = Answer(nonce, right, calls)
        BY <1>5 DEF Answer
      <3>1. CASE toUnit = <<Answer(nonce, right, calls)>> /\ toHost = <<>> /\ slot = nonce
        BY <1>5, <3>0, <3>1, Singles DEF Answered
      <3>2. CASE toUnit = <<>> /\ toHost = <<>>
        BY <1>5, <3>2 DEF Answered
      <3>3. CASE /\ toUnit = <<>> /\ Len(toHost) = 1 /\ toHost[1].kind # "nonce"
                 /\ right => toHost[1].kind = "ack"
        BY <1>3, <1>5, <3>3 DEF Answered
      <3> QED BY <3>1, <3>2, <3>3 DEF Answered
    <2> QED BY <1>5, <2>1, <2>2, <2>3, <2>4 DEF QuietInv
  <1>6. CASE Call
    <2>1. waiting' = "nonce" /\ ~(attempt' > 0)
      BY <1>6 DEF Call, StartExchange
    <2> QED BY <2>1 DEF QuietInv, Wrong
  <1>7. CASE Timeout
    <2>1. CASE left > 0
      <3>1. waiting = "verdict"
        BY <1>0, <1>7, <2>1 DEF Timeout
      <3> QED BY <2>1, <3>1 DEF AnswerInv
    <2>2. CASE ~(left > 0)
      BY <1>4, <1>7, <2>2 DEF Timeout, Return, Wrong
    <2> QED BY <2>1, <2>2
  <1>8. CASE ReceiveNonce
    <2> DEFINE f == Answer(Head(toHost).nonce, right, calls)
    <2>1. /\ waiting = "nonce" /\ waiting' = "verdict" /\ nonce' = Head(toHost).nonce
          /\ toHost # <<>> /\ toHost' = Tail(toHost) /\ toUnit' = Append(toUnit, f)
          /\ attempt' = attempt /\ disturbed' = disturbed /\ slot' = slot
          /\ right' = right /\ calls' = calls
      BY <1>8 DEF ReceiveNonce, Take, unitVars
    <2>2. f = Answer(nonce, right, calls)'
      BY <2>1 DEF Answer
    <2> HIDE DEF f
    <2>3. ASSUME attempt > 0 PROVE Answered'
      <3>1. toUnit = <<>> /\ Len(toHost) = 1 /\ toHost[1].nonce = slot
        BY <1>1, <2>1, <2>3, Singles DEF QuietInv, Asked
      <3>2. toUnit' = <<f>> /\ toHost' = <<>> /\ slot' = nonce'
        BY <1>3, <2>1, <3>1, Singles
      <3> QED BY <2>2, <3>2 DEF Answered
    <2> QED BY <2>1, <2>3 DEF QuietInv, Wrong
  <1>9. CASE ReceiveVerdict
    <2>1. /\ toUnit = <<>> /\ Len(toHost) = 1 /\ toHost' = <<>> /\ Head(toHost) = toHost[1]
          /\ waiting = "verdict" /\ right' = right
      BY <1>1, <1>9, VerdictIsLast DEF ReceiveVerdict, Take
    <2>2. CASE Head(toHost).kind = "ack"
      BY <1>4, <1>9, <2>2 DEF ReceiveVerdict, Return, Wrong
    <2>3. CASE Head(toHost).kind # "ack" /\ Again
      <3>1. waiting' = "nonce" /\ toUnit' = Append(toUnit, Challenge)
        BY <1>9, <2>3 DEF ReceiveVerdict, StartExchange
      <3>2. toUnit' = <<Challenge>> /\ Challenge' = Challenge
        BY <2>1, <3>1, Singles DEF Challenge, Answer
      <3>3. Asked'
        BY <2>1, <3>2 DEF Asked
      <3> QED BY <3>1, <3>3 DEF QuietInv, Wrong
    <2>4. CASE Head(toHost).kind # "ack" /\ ~Again
      <3>1. disturbed' = disturbed /\ waiting' = "none"
        BY <1>9, <2>4 DEF ReceiveVerdict, Return
      <3>2. attempt > 0
        <4>1. Attempts \in Nat /\ ~(attempt + 1 < Attempts)
          BY <2>4, ProofConstants DEF Again
        <4> QED BY <1>0, <4>1
      <3>3. Answered
        BY <1>1, <2>1, <3>1, <3>2 DEF QuietInv
      <3>4. ~right
        BY <1>3, <2>1, <2>4, <3>3 DEF Answered
      <3> QED BY <2>1, <3>1, <3>4 DEF QuietInv
    <2> QED BY <2>2, <2>3, <2>4
  <1>10. CASE ReceiveRefusal
    BY <1>4, <1>10 DEF ReceiveRefusal, Return, Wrong
  <1>11. CASE ReceiveStale \/ LoseReply
    <2>1. /\ waiting' = waiting /\ attempt' = attempt /\ nonce' = nonce /\ right' = right
          /\ outcome' = outcome /\ disturbed' = disturbed /\ slot' = slot /\ calls' = calls
          /\ toUnit' = toUnit /\ toHost # <<>> /\ toHost' = Tail(toHost)
      BY <1>11 DEF ReceiveStale, LoseReply, Take, hostVars, unitVars
    <2> QED BY <1>5, <2>1
  <1>12. CASE HandOutNonce
    <2> DEFINE r == [kind |-> "nonce", nonce |-> minted + 1, right |-> FALSE]
    <2>1. /\ waiting' = waiting /\ attempt' = attempt /\ nonce' = nonce /\ right' = right
          /\ outcome' = outcome /\ disturbed' = disturbed /\ calls' = calls
          /\ toUnit # <<>> /\ Head(toUnit) = Challenge /\ toUnit' = Tail(toUnit)
          /\ slot' = minted + 1 /\ toHost' = Append(toHost, r)
      BY <1>12 DEF HandOutNonce, Reply, hostVars
    <2>2. r.kind = "nonce" /\ r.nonce = minted + 1
      OBVIOUS
    <2> HIDE DEF r
    <2>3. Wrong => ~right
      BY <1>1, <2>1 DEF QuietInv
    <2>4. ASSUME waiting = "nonce", attempt > 0 PROVE Asked'
      <3>1. toUnit = <<Challenge>> /\ toHost = <<>>
        BY <1>1, <2>1, <2>4 DEF QuietInv, Asked
      <3>2. toUnit' = <<>> /\ toHost' = <<r>>
        BY <2>1, <3>1, Singles
      <3> QED BY <2>1, <2>2, <3>2, Singles DEF Asked
    <2>5. ~(waiting = "verdict" /\ attempt > 0)
      <3> SUFFICES ASSUME waiting = "verdict", attempt > 0 PROVE FALSE
        OBVIOUS
      <3>1. toUnit = <<Answer(nonce, right, calls)>>
        BY <1>1, <2>1 DEF QuietInv, Answered
      <3> QED BY <1>2, <2>1, <3>1, Singles
    <2> QED BY <2>1, <2>3, <2>4, <2>5 DEF QuietInv, Wrong
  <1>13. CASE JudgeAnswer
    <2> DEFINE good == Head(toUnit).right /\ slot = Head(toUnit).nonce
               r == [kind |-> IF good THEN "ack" ELSE "locked", nonce |-> Head(toUnit).nonce,
                     right |-> Head(toUnit).right]
    <2>1. /\ waiting' = waiting /\ attempt' = attempt /\ nonce' = nonce /\ right' = right
          /\ outcome' = outcome /\ disturbed' = disturbed /\ calls' = calls
          /\ toUnit # <<>> /\ toUnit' = Tail(toUnit) /\ Head(toUnit) # Challenge
          /\ toHost' = Append(toHost, r)
      BY <1>13 DEF JudgeAnswer, Reply, hostVars
    <2>2. r.kind # "nonce" /\ (good => r.kind = "ack")
      OBVIOUS
    <2>3. Wrong => ~right
      BY <1>1, <2>1 DEF QuietInv
    <2>4. ~(waiting = "nonce" /\ attempt > 0)
      <3> SUFFICES ASSUME waiting = "nonce", attempt > 0 PROVE FALSE
        OBVIOUS
      <3>1. toUnit = <<Challenge>>
        BY <1>1, <2>1 DEF QuietInv, Asked
      <3> QED BY <2>1, <3>1, Singles
    <2>5. ASSUME waiting = "verdict", attempt > 0 PROVE Answered'
      <3>1. toUnit = <<Answer(nonce, right, calls)>> /\ toHost = <<>> /\ slot = nonce
        BY <1>1, <2>1, <2>5 DEF QuietInv, Answered
      <3>2. right => good
        BY <3>1, Singles DEF Answer
      <3> HIDE DEF good, r
      <3>3. toUnit' = <<>> /\ toHost' = <<r>>
        BY <2>1, <3>1, Singles
      <3> QED BY <2>1, <2>2, <3>2, <3>3, Singles DEF Answered
    <2> QED BY <2>1, <2>3, <2>4, <2>5 DEF QuietInv, Wrong
  <1>14. CASE UnitRestarts
    BY <1>14 DEF UnitRestarts
  <1>15. CASE LoseFrame \/ UNCHANGED vars
    <2>1. /\ waiting' = waiting /\ attempt' = attempt /\ nonce' = nonce /\ right' = right
          /\ outcome' = outcome /\ disturbed' = disturbed /\ slot' = slot /\ calls' = calls
          /\ toHost' = toHost
          /\ \/ toUnit' = toUnit
             \/ toUnit # <<>> /\ toUnit' = Tail(toUnit)
      BY <1>15 DEF LoseFrame, vars, hostVars, unitVars
    <2> QED BY <1>5, <2>1
  <1> QED
    BY <1>6, <1>7, <1>8, <1>9, <1>10, <1>11, <1>12, <1>13, <1>14, <1>15 DEF Next

-----------------------------------------------------------------------------
(* The theorems *)

LEMMA InitExchange == Init => TypeInv /\ NonceInv /\ AnswerInv /\ OwnInv /\ QuietInv
  <1> SUFFICES ASSUME Init PROVE TypeInv /\ NonceInv /\ AnswerInv /\ OwnInv /\ QuietInv
    OBVIOUS
  <1>1. TypeInv
    BY InitType
  <1>2. NonceInv
    BY DEF Init, NonceInv
  <1>3. AnswerInv /\ QuietInv
    BY DEF Init, AnswerInv, QuietInv, Wrong
  <1>4. OwnInv
    BY DEF Init, OwnInv
  <1> QED BY <1>1, <1>2, <1>3, <1>4

\* Every variable of the host, the line and the unit keeps its type, whatever the
\* retries: in particular every answer the unit judges is the answer to a nonce
\* (fetchChallenge(), answerChallenge()).
THEOREM TypeCorrect == Spec => []TypeOK
  <1>1. TypeInv => TypeOK
    BY DEF TypeInv
  <1> QED BY <1>1, InitType, NextKeepsType, PTL DEF Spec

\* While the answer is sent once (proveAccess()'s retries of 0), a password the
\* unit accepted in a call is not called wrong by that call, for any number of
\* exchanges, challenges sent again, calls and restarts of the unit.
THEOREM WrongNeverAccepted ==
    ASSUME AnswerRetries = 0
    PROVE  Spec => []WrongIsNeverAccepted
  <1> DEFINE IInv == TypeInv /\ NonceInv /\ AnswerInv /\ OwnInv
  <1>1. Init => IInv
    BY InitExchange
  <1>2. IInv /\ [Next]_vars => IInv'
    BY NextKeepsType, NextKeepsNonces, NextKeepsAnswer, NextKeepsOwn
  <1>3. IInv => WrongIsNeverAccepted
    BY DEF OwnInv, WrongIsNeverAccepted, Wrong
  <1> HIDE DEF IInv
  <1> QED BY <1>1, <1>2, <1>3, PTL DEF Spec

\* With the answer sent once and at least one exchange to spare, the right
\* password is called wrong only when the last exchange was itself disturbed:
\* replies left over from earlier exchanges and calls do not add up.
THEOREM RightRarelyWrong ==
    ASSUME AnswerRetries = 0, Attempts >= 2
    PROVE  Spec => []RightIsRarelyCalledWrong
  <1> DEFINE IInv == TypeInv /\ NonceInv /\ AnswerInv /\ QuietInv
  <1>1. Init => IInv
    BY InitExchange
  <1>2. IInv /\ [Next]_vars => IInv'
    BY NextKeepsType, NextKeepsNonces, NextKeepsAnswer, NextKeepsQuiet
  <1>3. IInv => RightIsRarelyCalledWrong
    BY DEF QuietInv, RightIsRarelyCalledWrong
  <1> HIDE DEF IInv
  <1> QED BY <1>1, <1>2, <1>3, PTL DEF Spec
=============================================================================
