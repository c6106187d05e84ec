-------------------------- MODULE DeviceLinkProofs --------------------------
(***************************************************************************)
(* Machine-checked proofs about DeviceLink, for every number of requests,  *)
(* assignment of frames, retry budgets and set of units: the link is type  *)
(* correct and implements LinkContract.                                    *)
(*                                                                         *)
(* The invariant that carries them has four parts.  QueueInv says who is   *)
(* waiting and in which order; LineInv that the copies on the line to the  *)
(* unit are in order, behind which nothing older can follow; BudgetInv     *)
(* ties what a unit may still do to the retries spent; ReplyInv that every *)
(* reply on the line was given by a unit.                                  *)
(***************************************************************************)
EXTENDS DeviceLink, TLAPS

\* The requests are numbered as they are issued; the waiting ones are the
\* current one and, in order behind it, the queue.
QueueInv ==
    /\ \A n \in Request : n > issued <=> result[n] = "idle"
    /\ \A n \in Request : result[n] = "waiting" <=>
           n = current.req \/ \E i \in DOMAIN queue : queue[i] = n
    /\ \A i \in DOMAIN queue : queue[i] > current.req
    /\ \A i, j \in DOMAIN queue : i < j => queue[i] < queue[j]
    /\ ~open \/ current.req = 0 => queue = <<>>

\* Copies on the line are in the order of their requests, none of them behind
\* one a unit has acted on or ahead of the current request.
LineInv ==
    /\ \A i, j \in DOMAIN toUnit : i < j => toUnit[i].req <= toUnit[j].req
    /\ \A i \in DOMAIN toUnit, n \in Request : tries[n] > 0 => n <= toUnit[i].req
    /\ \A i \in DOMAIN toUnit : result[toUnit[i].req] # "idle"
    /\ \A n \in Request : tries[n] > 0 => result[n] # "idle"
    /\ current.req # 0 =>
         /\ \A i \in DOMAIN toUnit : toUnit[i].req <= current.req
         /\ \A n \in Request : tries[n] > 0 => n <= current.req

\* Each copy of a request has fewer retries left than those before it, and a
\* unit has acted at most on the copies before it.
BudgetInv ==
    /\ \A n \in Request : tries[n] <= Budget[n] + 1
    /\ \A i \in DOMAIN toUnit :
         tries[toUnit[i].req] + toUnit[i].left <= Budget[toUnit[i].req]
    /\ \A i, j \in DOMAIN toUnit :
         i < j /\ toUnit[i].req = toUnit[j].req => toUnit[i].left > toUnit[j].left
    /\ current.req # 0 =>
         /\ tries[current.req] + current.left <= Budget[current.req] + 1
         /\ \A i \in DOMAIN toUnit :
              toUnit[i].req = current.req => toUnit[i].left >= current.left

\* Every reply with a verdict carries one a unit has given.
ReplyInv ==
    \A i \in DOMAIN toHost : toHost[i].verdict # "badline" =>
        /\ toHost[i].req \in Request
        /\ \E u \in Unit :
             /\ <<toHost[i].req, u, toHost[i].verdict>> \in verdicts
             /\ toHost[i].echo = (u \in EchoUnits)

LinkInv == TypeOK /\ QueueInv /\ LineInv /\ BudgetInv /\ ReplyInv

-----------------------------------------------------------------------------
(* Sequences, as this specification uses them *)

LEMMA AppendFacts ==
    ASSUME NEW S, NEW s \in Seq(S), NEW e \in S
    PROVE  /\ Append(s, e) \in Seq(S)
           /\ Append(s, e) # <<>>
           /\ DOMAIN Append(s, e) = 1 .. Len(s) + 1
           /\ DOMAIN s = 1 .. Len(s)
           /\ \A i \in DOMAIN s : i \in DOMAIN Append(s, e) /\ Append(s, e)[i] = s[i]
           /\ Append(s, e)[Len(s) + 1] = e
           /\ \A i \in DOMAIN Append(s, e) : i \in DOMAIN s \/ i = Len(s) + 1
  OBVIOUS

LEMMA TailFacts ==
    ASSUME NEW S, NEW s \in Seq(S), s # <<>>
    PROVE  /\ Head(s) \in S
           /\ Tail(s) \in Seq(S)
           /\ 1 \in DOMAIN s
           /\ Head(s) = s[1]
           /\ \A i \in DOMAIN Tail(s) : i + 1 \in DOMAIN s /\ Tail(s)[i] = s[i + 1]
           /\ \A i \in DOMAIN s : i = 1 \/ (i - 1 \in DOMAIN Tail(s) /\ s[i] = Tail(s)[i - 1])
  OBVIOUS

LEMMA DomainFacts ==
    ASSUME NEW S, NEW s \in Seq(S)
    PROVE  /\ DOMAIN s = 1 .. Len(s)
           /\ Len(s) \in Nat
           /\ \A i \in DOMAIN s : i \in Nat /\ s[i] \in S
           /\ s = <<>> <=> DOMAIN s = {}
  OBVIOUS

-----------------------------------------------------------------------------
(* The line, when the host starts, repeats or drops a request *)

\* What type correctness says of the numbers the arguments below compare.
LEMMA Numbers ==
    ASSUME TypeOK
    PROVE  /\ issued \in Nat /\ current.req \in Nat /\ current.left \in Nat
           /\ current.req # 0 => current.req \in Request
           /\ \A n \in Request : n \in Nat /\ n > 0 /\ tries[n] \in Nat /\ Budget[n] \in Nat
           /\ DOMAIN toUnit = 1 .. Len(toUnit) /\ Len(toUnit) \in Nat
           /\ \A i \in DOMAIN toUnit : toUnit[i].req \in Request /\ toUnit[i].left \in Nat
           /\ \A i \in DOMAIN queue : queue[i] \in Request
  <1>1. toUnit \in Seq(Copy) /\ queue \in Seq(Request)
    BY DEF TypeOK
  <1>2. \A i \in DOMAIN toUnit : toUnit[i].req \in Request /\ toUnit[i].left \in Nat
    <2>1. \A i \in DOMAIN toUnit : toUnit[i] \in Copy
      BY <1>1, DomainFacts
    <2>. QED BY <2>1 DEF Copy
  <1>3. /\ DOMAIN toUnit = 1 .. Len(toUnit) /\ Len(toUnit) \in Nat
        /\ \A i \in DOMAIN queue : queue[i] \in Request
    BY <1>1
  <1>4. /\ issued \in Nat /\ current.req \in Nat /\ current.left \in Nat
        /\ current.req # 0 => current.req \in Request
    BY LinkConstants DEF TypeOK, Request
  <1>5. \A n \in Request : n \in Nat /\ n > 0 /\ tries[n] \in Nat /\ Budget[n] \in Nat
    BY LinkConstants DEF TypeOK, Request
  <1>. QED BY <1>2, <1>3, <1>4, <1>5

\* A request not started yet is younger than every copy on the line and than
\* everything a unit has acted on.
LEMMA NotStartedIsYoungest ==
    ASSUME LinkInv, NEW k \in Request,
           k = issued + 1 \/ \E i \in DOMAIN queue : queue[i] = k
    PROVE  /\ \A i \in DOMAIN toUnit : toUnit[i].req < k
           /\ \A n \in Request : tries[n] > 0 => n < k
  <1>0. TypeOK BY DEF LinkInv
  <1>1. CASE k = issued + 1
    <2>1. \A n \in Request : result[n] # "idle" => n < k
      BY <1>0, <1>1, Numbers DEF LinkInv, QueueInv
    <2>. QED BY <1>0, <2>1, Numbers DEF LinkInv, LineInv
  <1>2. CASE \E i \in DOMAIN queue : queue[i] = k
    <2>1. PICK i \in DOMAIN queue : queue[i] = k
      BY <1>2
    <2>2. current.req # 0 /\ current.req < k
      BY <1>0, <2>1, Numbers DEF LinkInv, QueueInv
    <2>. QED BY <1>0, <2>2, Numbers DEF LinkInv, LineInv
  <1>. QED BY <1>1, <1>2

\* Starting request k, younger than all that was started, keeps the line and
\* the budgets in order.
LEMMA LaunchKeepsLine ==
    ASSUME LinkInv, TypeOK', NEW k \in Request,
           current' = Fresh(k), toUnit' = Transmitted(Fresh(k)), tries' = tries,
           \A i \in DOMAIN toUnit : toUnit[i].req < k,
           \A n \in Request : tries[n] > 0 => n < k,
           result'[k] # "idle",
           \A n \in Request : result[n] # "idle" => result'[n] # "idle"
    PROVE  LineInv' /\ BudgetInv'
  <1>0. TypeOK BY DEF LinkInv
  <1>1. toUnit \in Seq(Copy) /\ Fresh(k) \in Copy
    BY LinkConstants DEF LinkInv, TypeOK, Copy, Fresh
  <1>2. /\ tries[k] = 0
        /\ Fresh(k).req = k /\ Fresh(k).left = Budget[k]
        /\ current'.req = k /\ current'.left = Budget[k]
    BY <1>0, Numbers DEF Fresh
  <1>. DEFINE Order(t) == /\ \A i, j \in DOMAIN t : i < j => t[i].req <= t[j].req
                          /\ \A i \in DOMAIN t, n \in Request : tries[n] > 0 => n <= t[i].req
                          /\ \A i \in DOMAIN t : result'[t[i].req] # "idle"
                          /\ \A i \in DOMAIN t : t[i].req <= k
                          /\ \A i \in DOMAIN t : tries[t[i].req] + t[i].left <= Budget[t[i].req]
                          /\ \A i, j \in DOMAIN t :
                                i < j /\ t[i].req = t[j].req => t[i].left > t[j].left
                          /\ \A i \in DOMAIN t : t[i].req = k => t[i].left >= Budget[k]
  <1>3. Order(toUnit)
    BY <1>0, Numbers DEF LinkInv, LineInv, BudgetInv
  <1>4. Order(Append(toUnit, Fresh(k)))
    <2>. DEFINE t == Append(toUnit, Fresh(k))
    <2>1. /\ DOMAIN t = 1 .. Len(toUnit) + 1
          /\ \A i \in DOMAIN toUnit : t[i] = toUnit[i]
          /\ t[Len(toUnit) + 1] = Fresh(k)
          /\ \A i \in DOMAIN t : i \in DOMAIN toUnit \/ i = Len(toUnit) + 1
      BY <1>1, AppendFacts
    <2>. HIDE DEF t
    <2>. QED BY <1>0, <1>2, <1>3, <2>1, Numbers
  <1>5. Order(toUnit')
    BY <1>3, <1>4 DEF Transmitted
  <1>6. LineInv'
    <2>1. \A n \in Request : tries'[n] > 0 => result'[n] # "idle"
      BY DEF LinkInv, LineInv
    <2>. QED BY <1>0, <1>2, <1>5, <2>1, Numbers DEF LineInv
  <1>7. BudgetInv'
    <2>1. \A n \in Request : tries'[n] <= Budget[n] + 1
      BY DEF LinkInv, BudgetInv
    <2>. QED BY <1>0, <1>2, <1>5, <2>1, Numbers DEF BudgetInv
  <1>. QED BY <1>6, <1>7

\* Ending the current request, or leaving it alone, keeps the line in order.
LEMMA RestKeepsLine ==
    ASSUME LinkInv, TypeOK', toUnit' = toUnit, tries' = tries,
           current' = current \/ current' = NoCurrent,
           \A n \in Request : result[n] # "idle" => result'[n] # "idle"
    PROVE  LineInv' /\ BudgetInv'
  <1>0. TypeOK BY DEF LinkInv
  <1>1. LineInv'
    BY <1>0, Numbers DEF LinkInv, LineInv, NoCurrent
  <1>2. BudgetInv'
    BY <1>0, Numbers DEF LinkInv, BudgetInv, NoCurrent
  <1>. QED BY <1>1, <1>2

\* A retransmission is one copy more behind the others, one retry poorer.
LEMMA RetransmitKeepsLine ==
    ASSUME LinkInv, TypeOK', current.req # 0, current.left > 0, Retransmit, tries' = tries
    PROVE  LineInv' /\ BudgetInv'
  <1>0. TypeOK BY DEF LinkInv
  <1>. DEFINE c == [current EXCEPT !.left = @ - 1]
  <1>1. /\ toUnit \in Seq(Copy)
        /\ c \in Copy
        /\ c.req = current.req /\ c.left = current.left - 1
        /\ current.req \in Request
    <2>1. /\ current \in [req : 0 .. MaxReq, left : Nat]
          /\ toUnit \in Seq(Copy)
          /\ current.req \in Request /\ current.left \in Nat
      BY <1>0, Numbers DEF TypeOK
    <2>2. c.req = current.req /\ c.left = current.left - 1
      BY <2>1
    <2>3. c \in [req : {current.req}, left : Nat]
      BY <2>1
    <2>. QED BY <2>1, <2>2, <2>3 DEF Copy
  <1>2. /\ current'.req = current.req /\ current'.left = current.left - 1
        /\ result' = result
    BY <1>1 DEF Retransmit
  <1>. DEFINE Order(t) == /\ \A i, j \in DOMAIN t : i < j => t[i].req <= t[j].req
                          /\ \A i \in DOMAIN t, n \in Request : tries[n] > 0 => n <= t[i].req
                          /\ \A i \in DOMAIN t : result[t[i].req] # "idle"
                          /\ \A i \in DOMAIN t : t[i].req <= current.req
                          /\ \A i \in DOMAIN t : tries[t[i].req] + t[i].left <= Budget[t[i].req]
                          /\ \A i, j \in DOMAIN t :
                                i < j /\ t[i].req = t[j].req => t[i].left > t[j].left
                          /\ \A i \in DOMAIN t :
                                t[i].req = current.req => t[i].left >= current.left - 1
  <1>3. Order(toUnit)
    BY <1>0, Numbers DEF LinkInv, LineInv, BudgetInv
  <1>4. Order(Append(toUnit, c))
    <2>. DEFINE t == Append(toUnit, c)
    <2>1. /\ DOMAIN t = 1 .. Len(toUnit) + 1
          /\ \A i \in DOMAIN toUnit : t[i] = toUnit[i]
          /\ t[Len(toUnit) + 1] = c
          /\ \A i \in DOMAIN t : i \in DOMAIN toUnit \/ i = Len(toUnit) + 1
      BY <1>1, AppendFacts
    <2>2. result[c.req] # "idle"
      BY <1>1 DEF LinkInv, QueueInv
    <2>3. \A n \in Request : tries[n] > 0 => n <= c.req
      BY <1>1 DEF LinkInv, LineInv
    <2>4. tries[c.req] + c.left <= Budget[c.req]
      BY <1>0, <1>1, Numbers DEF LinkInv, BudgetInv
    <2>5. \A i \in DOMAIN toUnit :
            toUnit[i].req <= c.req /\ (toUnit[i].req = c.req => toUnit[i].left > c.left)
      BY <1>0, <1>1, Numbers DEF LinkInv, LineInv, BudgetInv
    <2>. HIDE DEF t, c
    <2>. QED BY <1>0, <1>1, <1>3, <2>1, <2>2, <2>3, <2>4, <2>5, Numbers
  <1>5. Order(toUnit')
    BY <1>3, <1>4 DEF Transmitted, Retransmit
  <1>6. LineInv'
    <2>1. \A n \in Request : tries[n] > 0 => result[n] # "idle" /\ n <= current.req
      BY DEF LinkInv, LineInv
    <2>. QED BY <1>0, <1>1, <1>2, <1>5, <2>1, Numbers DEF LineInv
  <1>7. BudgetInv'
    <2>1. /\ \A n \in Request : tries[n] <= Budget[n] + 1
          /\ tries[current.req] + current.left <= Budget[current.req] + 1
      BY DEF LinkInv, BudgetInv
    <2>. QED BY <1>0, <1>1, <1>2, <1>5, <2>1, Numbers DEF BudgetInv
  <1>. QED BY <1>6, <1>7

\* startNext() on a queue of requests not started yet.
LEMMA StartNextKeepsLine ==
    ASSUME LinkInv, TypeOK', NEW q \in Seq(Request), StartNext(q), tries' = tries,
           \A i \in DOMAIN q : q[i] = issued + 1 \/ \E j \in DOMAIN queue : queue[j] = q[i],
           \A i \in DOMAIN q : result'[q[i]] # "idle",
           \A n \in Request : result[n] # "idle" => result'[n] # "idle"
    PROVE  LineInv' /\ BudgetInv'
  <1>1. CASE q = <<>>
    BY <1>1, RestKeepsLine DEF StartNext
  <1>2. CASE q # <<>>
    <2>1. /\ Head(q) \in Request /\ 1 \in DOMAIN q /\ Head(q) = q[1]
          /\ current' = Fresh(Head(q)) /\ toUnit' = Transmitted(Fresh(Head(q)))
      BY <1>2, TailFacts DEF StartNext
    <2>2. /\ \A i \in DOMAIN toUnit : toUnit[i].req < Head(q)
          /\ \A n \in Request : tries[n] > 0 => n < Head(q)
      BY <2>1, NotStartedIsYoungest
    <2>. QED BY <2>1, <2>2, LaunchKeepsLine
  <1>. QED BY <1>1, <1>2

\* startNext() keeps the queue in order when q is, and holds what is waiting.
LEMMA StartNextKeepsQueue ==
    ASSUME TypeOK, TypeOK', NEW q \in Seq(Request), StartNext(q), open' = open,
           ~open => q = <<>>,
           \A i, j \in DOMAIN q : i < j => q[i] < q[j],
           \A n \in Request : result'[n] = "waiting" <=> \E i \in DOMAIN q : q[i] = n,
           \A n \in Request : n > issued' <=> result'[n] = "idle"
    PROVE  QueueInv'
  <1>1. CASE q = <<>>
    BY <1>1 DEF StartNext, QueueInv, NoCurrent, Request
  <1>2. CASE q # <<>>
    <2>1. /\ Head(q) \in Request /\ 1 \in DOMAIN q /\ Head(q) = q[1]
          /\ \A i \in DOMAIN Tail(q) : i + 1 \in DOMAIN q /\ Tail(q)[i] = q[i + 1]
          /\ \A i \in DOMAIN q : i = 1 \/ (i - 1 \in DOMAIN Tail(q) /\ q[i] = Tail(q)[i - 1])
          /\ \A i \in DOMAIN q : i \in Nat /\ i > 0 /\ q[i] \in Request
          /\ \A i \in DOMAIN Tail(q) : i \in Nat /\ i > 0
      BY <1>2, TailFacts, DomainFacts
    <2>2. current'.req = Head(q) /\ queue' = Tail(q)
      BY <1>2 DEF StartNext, Fresh
    <2>3. Head(q) # 0 /\ open
      BY <1>2, <2>1 DEF Request
    <2>4. \A n \in Request : result'[n] = "waiting" <=>
             n = current'.req \/ \E i \in DOMAIN queue' : queue'[i] = n
      <3>. SUFFICES ASSUME NEW n \in Request
                    PROVE (\E i \in DOMAIN q : q[i] = n) <=>
                             n = q[1] \/ \E i \in DOMAIN Tail(q) : Tail(q)[i] = n
        BY <2>1, <2>2
      <3>1. ASSUME NEW i \in DOMAIN q, q[i] = n
            PROVE  n = q[1] \/ \E j \in DOMAIN Tail(q) : Tail(q)[j] = n
        BY <3>1, <2>1
      <3>2. ASSUME NEW i \in DOMAIN Tail(q), Tail(q)[i] = n
            PROVE  \E j \in DOMAIN q : q[j] = n
        BY <3>2, <2>1
      <3>. QED BY <2>1, <3>1, <3>2
    <2>5. /\ \A i \in DOMAIN queue' : queue'[i] > current'.req
          /\ \A i, j \in DOMAIN queue' : i < j => queue'[i] < queue'[j]
      BY <2>1, <2>2 DEF Request
    <2>. QED BY <2>2, <2>3, <2>4, <2>5 DEF QueueInv
  <1>. QED BY <1>1, <1>2

-----------------------------------------------------------------------------
(* Type correctness *)

LEMMA TransmittedType ==
    ASSUME TypeOK, NEW c \in Copy
    PROVE  Transmitted(c) \in Seq(Copy)
  <1>1. toUnit \in Seq(Copy) /\ Append(toUnit, c) \in Seq(Copy)
    BY AppendFacts DEF TypeOK
  <1>. QED BY <1>1 DEF Transmitted

LEMMA StartNextType ==
    ASSUME TypeOK, NEW q \in Seq(Request), StartNext(q)
    PROVE  /\ current' \in [req : 0 .. MaxReq, left : Nat]
           /\ queue' \in Seq(Request)
           /\ toUnit' \in Seq(Copy)
  <1>1. CASE q = <<>>
    BY <1>1, LinkConstants DEF StartNext, NoCurrent, TypeOK
  <1>2. CASE q # <<>>
    <2>1. Head(q) \in Request /\ Tail(q) \in Seq(Request)
      BY <1>2, TailFacts
    <2>2. Fresh(Head(q)) \in Copy /\ Fresh(Head(q)) \in [req : 0 .. MaxReq, left : Nat]
      BY <2>1, LinkConstants DEF Fresh, Copy, Request
    <2>3. Transmitted(Fresh(Head(q))) \in Seq(Copy)
      BY <2>2, TransmittedType
    <2>. QED BY <1>2, <2>1, <2>2, <2>3 DEF StartNext
  <1>. QED BY <1>1, <1>2

LEMMA CompleteType ==
    ASSUME TypeOK, NEW outcome \in Contract!Result, CompleteCurrent(outcome)
    PROVE  /\ current' \in [req : 0 .. MaxReq, left : Nat]
           /\ queue' \in Seq(Request)
           /\ toUnit' \in Seq(Copy)
           /\ issued' \in 0 .. MaxReq
           /\ result' \in [Request -> Contract!Result]
  <1>1. queue \in Seq(Request) /\ (issued < MaxReq => issued + 1 \in Request)
    BY LinkConstants DEF TypeOK, Request
  <1>2. PICK q \in Seq(Request) : StartNext(q)
    <2>1. CASE StartNext(queue)
      BY <1>1, <2>1
    <2>2. CASE issued < MaxReq /\ StartNext(IF open THEN Enqueue(queue, issued + 1) ELSE queue)
      <3>1. Enqueue(queue, issued + 1) \in Seq(Request)
        BY <1>1, <2>2, AppendFacts DEF Enqueue
      <3>2. (IF open THEN Enqueue(queue, issued + 1) ELSE queue) \in Seq(Request)
        BY <1>1, <3>1
      <3>. QED BY <2>2, <3>2
    <2>. QED BY <2>1, <2>2 DEF CompleteCurrent
  <1>3. issued' \in 0 .. MaxReq
    BY LinkConstants DEF CompleteCurrent, TypeOK
  <1>4. result' \in [Request -> Contract!Result]
    BY DEF CompleteCurrent, TypeOK, Contract!Result
  <1>. QED BY <1>2, <1>3, <1>4, StartNextType

LEMMA RetransmitType ==
    ASSUME TypeOK, current.req # 0, current.left > 0, Retransmit
    PROVE  /\ current' \in [req : 0 .. MaxReq, left : Nat]
           /\ queue' \in Seq(Request)
           /\ toUnit' \in Seq(Copy)
           /\ issued' \in 0 .. MaxReq
           /\ result' \in [Request -> Contract!Result]
  <1>1. /\ current \in [req : 0 .. MaxReq, left : Nat]
        /\ toUnit \in Seq(Copy)
        /\ current.req \in Request /\ current.left \in Nat
    BY Numbers DEF TypeOK
  <1>. DEFINE c == [current EXCEPT !.left = @ - 1]
  <1>2. c \in [req : {current.req}, left : Nat]
    BY <1>1
  <1>3. c \in Copy /\ c \in [req : 0 .. MaxReq, left : Nat]
    BY <1>1, <1>2, LinkConstants DEF Copy, Request
  <1>. HIDE DEF c
  <1>4. toUnit' \in Seq(Copy)
    BY <1>1, <1>3 DEF Retransmit, Transmitted, c
  <1>. QED BY <1>3, <1>4 DEF Retransmit, TypeOK, c

LEMMA NextKeepsType == TypeOK /\ [Next]_vars => TypeOK'
  <1>. SUFFICES ASSUME TypeOK, [Next]_vars PROVE TypeOK'
    OBVIOUS
  <1>. USE LinkConstants
  <1>1. ASSUME IssueRequest PROVE TypeOK'
    <2>1. issued + 1 \in Request /\ queue \in Seq(Request)
      BY <1>1 DEF IssueRequest, TypeOK, Request
    <2>2. issued' \in 0 .. MaxReq /\ result' \in [Request -> Contract!Result]
      <3>1. issued' \in 0 .. MaxReq
        BY <1>1 DEF IssueRequest, TypeOK
      <3>2. result' \in [Request -> Contract!Result]
        BY <1>1 DEF IssueRequest, TypeOK, Contract!Result
      <3>. QED BY <3>1, <3>2
    <2>3. /\ current' \in [req : 0 .. MaxReq, left : Nat]
          /\ queue' \in Seq(Request)
          /\ toUnit' \in Seq(Copy)
      <3>1. Enqueue(queue, issued + 1) \in Seq(Request)
        BY <2>1 DEF Enqueue
      <3>2. CASE StartNext(Enqueue(queue, issued + 1))
        BY <3>1, <3>2, StartNextType
      <3>3. CASE /\ queue' \in {queue, Enqueue(queue, issued + 1)}
                 /\ UNCHANGED <<current, toUnit>>
        BY <2>1, <3>1, <3>3 DEF TypeOK
      <3>. QED BY <1>1, <3>2, <3>3 DEF IssueRequest
    <2>. QED BY <1>1, <2>2, <2>3 DEF IssueRequest, TypeOK, unitVars
  <1>2. ASSUME Timeout PROVE TypeOK'
    <2>1. "failed" \in Contract!Result BY DEF Contract!Result
    <2>2. CASE RetryAllowed(current.left)
      BY <1>2, <2>2, RetransmitType DEF Timeout, RetryAllowed, TypeOK, unitVars
    <2>3. CASE ~RetryAllowed(current.left)
      BY <1>2, <2>1, <2>3, CompleteType DEF Timeout, TypeOK, unitVars
    <2>. QED BY <2>2, <2>3
  <1>3. toHost # <<>> => /\ Head(toHost) \in Reply
                         /\ Tail(toHost) \in Seq(Reply)
    BY TailFacts DEF TypeOK
  <1>4. ASSUME ReceiveAnswer PROVE TypeOK'
    <2>1. Head(toHost).verdict \in Contract!Result
      BY <1>3, <1>4 DEF ReceiveAnswer, Accepts, Reply, Verdict, Contract!Result
    <2>. QED BY <1>3, <1>4, <2>1, CompleteType DEF ReceiveAnswer, TypeOK, unitVars
  <1>5. ASSUME ReceiveBadLine PROVE TypeOK'
    <2>1. "garbled" \in Contract!Result BY DEF Contract!Result
    <2>2. CASE RetryAllowed(current.left)
      BY <1>3, <1>5, <2>2, RetransmitType DEF ReceiveBadLine, RetryAllowed, TypeOK, unitVars
    <2>3. CASE ~RetryAllowed(current.left)
      BY <1>3, <1>5, <2>1, <2>3, CompleteType DEF ReceiveBadLine, TypeOK, unitVars
    <2>. QED BY <2>2, <2>3
  <1>6. ASSUME ReceiveStale PROVE TypeOK'
    BY <1>3, <1>6 DEF ReceiveStale, TypeOK, hostVars, unitVars
  <1>7. ASSUME CloseQuietly PROVE TypeOK'
    <2>1. <<>> \in Seq(Request) /\ NoCurrent \in [req : 0 .. MaxReq, left : Nat]
      BY DEF NoCurrent
    <2>2. result' \in [Request -> Contract!Result]
      BY <1>7 DEF CloseQuietly, TypeOK, Contract!Result
    <2>. QED BY <1>7, <2>1, <2>2 DEF CloseQuietly, TypeOK, unitVars
  <1>8. ASSUME CloseReentered PROVE TypeOK'
    <2>1. PICK k \in DOMAIN Outstanding :
            LET kept == IF k < Len(Outstanding) THEN Outstanding[k + 1] ELSE issued + 1
            IN  /\ current' = Fresh(kept)
                /\ toUnit' = Transmitted(Fresh(kept))
                /\ result' = [n \in Request |->
                                IF n = kept THEN "waiting"
                                ELSE IF n \in OutstandingSet \union {issued + 1}
                                     THEN "failed" ELSE result[n]]
      BY <1>8 DEF CloseReentered
    <2>2. issued + 1 \in Request /\ issued + 1 \in 0 .. MaxReq
      BY <1>8 DEF CloseReentered, TypeOK, Request
    <2>3. Outstanding \in Seq(Request)
      BY Numbers DEF Outstanding, TypeOK
    <2>. DEFINE kept == IF k < Len(Outstanding) THEN Outstanding[k + 1] ELSE issued + 1
    <2>4. kept \in Request
      BY <2>2, <2>3
    <2>. HIDE DEF kept
    <2>5. Fresh(kept) \in Copy /\ Fresh(kept) \in [req : 0 .. MaxReq, left : Nat]
      BY <2>4 DEF Fresh, Copy, Request
    <2>6. toUnit' \in Seq(Copy)
      BY <2>1, <2>5, TransmittedType DEF kept
    <2>7. result' \in [Request -> Contract!Result]
      BY <2>1 DEF TypeOK, Contract!Result
    <2>8. current' \in [req : 0 .. MaxReq, left : Nat]
      BY <2>1, <2>5 DEF kept
    <2>9. queue' \in Seq(Request) /\ issued' \in 0 .. MaxReq
      BY <1>8, <2>2 DEF CloseReentered
    <2>10. /\ open' = FALSE
           /\ UNCHANGED <<unit, toHost, tries, verdicts>>
      BY <1>8 DEF CloseReentered, unitVars
    <2>. QED BY <2>6, <2>7, <2>8, <2>9, <2>10 DEF TypeOK
  <1>9. ASSUME Open PROVE TypeOK'
    <2>1. toUnit \in Seq(Copy) /\ toHost \in Seq(Reply)
      BY DEF TypeOK
    <2>2. toUnit' \in Seq(Copy) /\ toHost' \in Seq(Reply)
      <3>1. CASE UNCHANGED <<toUnit, toHost>>
        BY <2>1, <3>1
      <3>2. CASE toUnit' = <<>> /\ toHost' = <<>>
        BY <3>2
      <3>. QED BY <1>9, <3>1, <3>2 DEF Open
    <2>. QED BY <1>9, <2>2 DEF Open, TypeOK, unitVars
  <1>10. toUnit # <<>> => Head(toUnit) \in Copy /\ Tail(toUnit) \in Seq(Copy)
    BY TailFacts DEF TypeOK
  <1>11. ASSUME UnitActs PROVE TypeOK'
    <2>1. PICK v \in Verdict :
            /\ verdicts' = verdicts \union {<<Head(toUnit).req, unit, v>>}
            /\ toHost' = Append(toHost, [verdict |-> v, req |-> Head(toUnit).req,
                                         echo |-> unit \in EchoUnits])
      BY <1>11 DEF UnitActs
    <2>2. Head(toUnit).req \in Request
      BY <1>10, <1>11 DEF UnitActs, Copy
    <2>3. [verdict |-> v, req |-> Head(toUnit).req, echo |-> unit \in EchoUnits] \in Reply
      BY <2>2 DEF Reply, Request
    <2>4. toHost' \in Seq(Reply) /\ verdicts' \subseteq Request \X Unit \X Verdict
      BY <2>1, <2>2, <2>3 DEF TypeOK
    <2>5. tries' \in [Request -> Nat]
      <3>1. tries' = [tries EXCEPT ![Head(toUnit).req] = @ + 1]
        BY <1>11 DEF UnitActs
      <3>. QED BY <2>2, <3>1 DEF TypeOK
    <2>. QED BY <1>10, <1>11, <2>4, <2>5 DEF UnitActs, TypeOK, hostVars
  <1>12. ASSUME UnitRejects PROVE TypeOK'
    <2>1. [verdict |-> "badline", req |-> 0, echo |-> FALSE] \in Reply
      BY DEF Reply
    <2>. QED BY <1>10, <1>12, <2>1 DEF UnitRejects, TypeOK, hostVars, unitVars
  <1>13. ASSUME LoseFrame PROVE TypeOK'
    BY <1>10, <1>13 DEF LoseFrame, TypeOK, hostVars, unitVars
  <1>14. ASSUME LoseReply PROVE TypeOK'
    BY <1>3, <1>14 DEF LoseReply, TypeOK, hostVars, unitVars
  <1>15. ASSUME UNCHANGED vars PROVE TypeOK'
    BY <1>15 DEF vars, hostVars, unitVars, TypeOK
  <1>. QED BY <1>1, <1>2, <1>4, <1>5, <1>6, <1>7, <1>8, <1>9, <1>11, <1>12, <1>13, <1>14,
              <1>15 DEF Next, Close

-----------------------------------------------------------------------------
(* The invariant: what the queue holds *)

\* The next request, put behind the queue, is the youngest of all.
LEMMA AppendedQueue ==
    ASSUME LinkInv, issued < MaxReq, NEW q, q = Append(queue, issued + 1)
    PROVE  /\ issued + 1 \in Request /\ q \in Seq(Request) /\ q # <<>>
           /\ result[issued + 1] = "idle"
           /\ issued + 1 > current.req
           /\ \A i \in DOMAIN queue : i \in DOMAIN q /\ q[i] = queue[i] /\ queue[i] <= issued
           /\ Len(queue) + 1 \in DOMAIN q /\ q[Len(queue) + 1] = issued + 1
           /\ \A i \in DOMAIN q : i \in DOMAIN queue \/ i = Len(queue) + 1
           /\ \A i, j \in DOMAIN q : i < j => q[i] < q[j]
  <1>0. TypeOK BY DEF LinkInv
  <1>1. /\ issued + 1 \in Request /\ queue \in Seq(Request)
        /\ result[issued + 1] = "idle"
    BY <1>0, Numbers, LinkConstants DEF LinkInv, QueueInv, TypeOK, Request
  <1>2. issued + 1 > current.req
    <2>1. CASE current.req = 0
      BY <1>0, <2>1, Numbers
    <2>2. CASE current.req # 0
      <3>1. current.req \in Request /\ result[current.req] # "idle"
        BY <1>0, <2>2, Numbers DEF LinkInv, QueueInv
      <3>. QED BY <1>0, <3>1, Numbers DEF LinkInv, QueueInv
    <2>. QED BY <2>1, <2>2
  <1>3. /\ q \in Seq(Request) /\ q # <<>>
        /\ DOMAIN q = 1 .. Len(queue) + 1 /\ DOMAIN queue = 1 .. Len(queue)
        /\ Len(queue) \in Nat
        /\ \A i \in DOMAIN queue : i \in DOMAIN q /\ q[i] = queue[i]
        /\ q[Len(queue) + 1] = issued + 1
        /\ \A i \in DOMAIN q : i \in DOMAIN queue \/ i = Len(queue) + 1
    BY <1>1, AppendFacts
  <1>4. \A i \in DOMAIN queue : queue[i] <= issued
    <2>1. \A i \in DOMAIN queue : queue[i] \in Request /\ result[queue[i]] # "idle"
      BY <1>0, Numbers DEF LinkInv, QueueInv
    <2>. QED BY <1>0, <2>1, Numbers DEF LinkInv, QueueInv
  <1>5. \A i, j \in DOMAIN q : i < j => q[i] < q[j]
    <2>1. \A i, j \in DOMAIN queue : i < j => queue[i] < queue[j]
      BY DEF LinkInv, QueueInv
    <2>2. \A i \in DOMAIN queue : queue[i] \in Nat
      BY <1>0, Numbers
    <2>. QED BY <1>0, <1>3, <1>4, <2>1, <2>2, Numbers
  <1>. QED BY <1>1, <1>2, <1>3, <1>4, <1>5

\* What outlives the current request is waiting in the queue, and nothing else.
LEMMA QueueIsTheRest ==
    ASSUME LinkInv, current.req # 0
    PROVE  /\ current.req \in Request /\ current.req <= issued
           /\ queue \in Seq(Request)
           /\ result[current.req] = "waiting"
           /\ \A i \in DOMAIN queue : queue[i] # current.req /\ result[queue[i]] = "waiting"
           /\ \A n \in Request : n # current.req =>
                (result[n] = "waiting" <=> \E i \in DOMAIN queue : queue[i] = n)
  <1>0. TypeOK BY DEF LinkInv
  <1>1. current.req \in Request /\ queue \in Seq(Request) /\ result[current.req] = "waiting"
    BY <1>0, Numbers DEF LinkInv, QueueInv, TypeOK
  <1>2. current.req <= issued
    BY <1>0, <1>1, Numbers DEF LinkInv, QueueInv
  <1>3. \A i \in DOMAIN queue : queue[i] \in Request /\ queue[i] > current.req
    BY <1>0, Numbers DEF LinkInv, QueueInv
  <1>4. \A i \in DOMAIN queue : queue[i] # current.req /\ result[queue[i]] = "waiting"
    BY <1>0, <1>1, <1>3, Numbers DEF LinkInv, QueueInv
  <1>5. \A n \in Request : n # current.req =>
           (result[n] = "waiting" <=> \E i \in DOMAIN queue : queue[i] = n)
    BY DEF LinkInv, QueueInv
  <1>. QED BY <1>1, <1>2, <1>4, <1>5

\* The four ways a request can end, for completeCurrent().
Ended == {"ok", "refused", "failed", "garbled"}

LEMMA CompleteKeepsInv ==
    ASSUME LinkInv, TypeOK', NEW outcome \in Ended, current.req # 0,
           CompleteCurrent(outcome), open' = open, tries' = tries
    PROVE  QueueInv' /\ LineInv' /\ BudgetInv'
  <1>0. TypeOK BY DEF LinkInv
  <1>1. outcome # "idle" /\ outcome # "waiting"
    BY DEF Ended
  <1>2. \A n \in Request : n > issued <=> result[n] = "idle"
    BY DEF LinkInv, QueueInv
  <1>3. /\ ~open => queue = <<>>
        /\ \A i, j \in DOMAIN queue : i < j => queue[i] < queue[j]
    BY DEF LinkInv, QueueInv
  <1>4. CASE /\ result' = [result EXCEPT ![current.req] = outcome]
             /\ issued' = issued
             /\ StartNext(queue)
    <2>1. /\ \A n \in Request : result'[n] = IF n = current.req THEN outcome ELSE result[n]
      BY <1>0, <1>4 DEF TypeOK
    <2>2. /\ \A n \in Request : result'[n] = "waiting" <=> \E i \in DOMAIN queue : queue[i] = n
          /\ \A n \in Request : n > issued' <=> result'[n] = "idle"
          /\ \A i \in DOMAIN queue : queue[i] \in Request /\ result'[queue[i]] # "idle"
          /\ \A n \in Request : result[n] # "idle" => result'[n] # "idle"
      BY <1>0, <1>1, <1>2, <1>4, <2>1, QueueIsTheRest, Numbers
    <2>3. QueueInv'
      BY <1>0, <1>3, <1>4, <2>2, QueueIsTheRest, StartNextKeepsQueue
    <2>4. LineInv' /\ BudgetInv'
      BY <1>4, <2>2, QueueIsTheRest, StartNextKeepsLine
    <2>. QED BY <2>3, <2>4
  <1>5. CASE /\ issued < MaxReq
             /\ issued' = issued + 1
             /\ result' = [result EXCEPT
                             ![current.req] = outcome,
                             ![issued + 1] = IF open THEN "waiting" ELSE "failed"]
             /\ StartNext(IF open THEN Enqueue(queue, issued + 1) ELSE queue)
    <2>. DEFINE q == Append(queue, issued + 1)
    <2>1. /\ issued + 1 \in Request /\ q \in Seq(Request)
          /\ issued + 1 > current.req
          /\ \A i \in DOMAIN queue : i \in DOMAIN q /\ q[i] = queue[i] /\ queue[i] <= issued
          /\ Len(queue) + 1 \in DOMAIN q /\ q[Len(queue) + 1] = issued + 1
          /\ \A i \in DOMAIN q : i \in DOMAIN queue \/ i = Len(queue) + 1
          /\ \A i, j \in DOMAIN q : i < j => q[i] < q[j]
      BY <1>5, AppendedQueue
    <2>2. \A n \in Request :
            result'[n] = IF n = issued + 1 THEN (IF open THEN "waiting" ELSE "failed")
                         ELSE IF n = current.req THEN outcome ELSE result[n]
      BY <1>0, <1>5, <2>1 DEF TypeOK
    <2>3. /\ \A n \in Request : n > issued' <=> result'[n] = "idle"
          /\ \A n \in Request : result[n] # "idle" => result'[n] # "idle"
      <3>1. current.req \in Request /\ current.req <= issued /\ issued' = issued + 1
        BY <1>5, QueueIsTheRest
      <3>2. issued \in Nat /\ \A n \in Request : n \in Nat
        BY <1>0, Numbers
      <3>. SUFFICES ASSUME NEW n \in Request
                    PROVE  /\ n > issued' <=> result'[n] = "idle"
                           /\ result[n] # "idle" => result'[n] # "idle"
        OBVIOUS
      <3>3. CASE n = issued + 1
        <4>1. result'[n] # "idle" BY <2>2, <3>3
        <4>. QED BY <3>1, <3>2, <3>3, <4>1
      <3>4. CASE n = current.req
        <4>1. result'[n] # "idle" BY <1>1, <2>1, <2>2, <3>2, <3>4
        <4>. QED BY <3>1, <3>2, <3>4, <4>1
      <3>5. CASE n # issued + 1 /\ n # current.req
        BY <1>2, <2>2, <3>1, <3>2, <3>5
      <3>. QED BY <3>3, <3>4, <3>5
    <2>4. CASE open
      <3>1. StartNext(q)
        BY <1>5, <2>4 DEF Enqueue
      <3>2. \A n \in Request : (\E i \in DOMAIN q : q[i] = n) <=>
                n = issued + 1 \/ \E i \in DOMAIN queue : queue[i] = n
        BY <2>1
      <3>3. \A i \in DOMAIN queue : queue[i] # issued + 1
        BY <1>0, <2>1, Numbers
      <3>. HIDE DEF q
      <3>4. /\ \A n \in Request : result'[n] = "waiting" <=> \E i \in DOMAIN q : q[i] = n
            /\ \A i \in DOMAIN q : q[i] \in Request /\ result'[q[i]] # "idle"
        <4>1. current.req \in Request /\ current.req # issued + 1
          BY <1>0, <2>1, QueueIsTheRest, Numbers
        <4>2. \A n \in Request : n = issued + 1 => result'[n] = "waiting"
          BY <2>2, <2>4
        <4>3. result'[current.req] = outcome /\ ~\E i \in DOMAIN q : q[i] = current.req
          BY <2>2, <3>2, <4>1, QueueIsTheRest
        <4>4. \A n \in Request : n # issued + 1 /\ n # current.req =>
                 (result'[n] = "waiting" <=> \E i \in DOMAIN q : q[i] = n)
          BY <2>2, <3>2, QueueIsTheRest
        <4>5. \A n \in Request : result'[n] = "waiting" <=> \E i \in DOMAIN q : q[i] = n
          BY <1>1, <3>2, <4>2, <4>3, <4>4
        <4>6. \A i \in DOMAIN q : q[i] \in Request
          BY <2>1, DomainFacts
        <4>. QED BY <4>5, <4>6
      <3>5. QueueInv'
        BY <1>0, <2>1, <2>3, <2>4, <3>1, <3>4, StartNextKeepsQueue
      <3>6. LineInv' /\ BudgetInv'
        BY <2>1, <2>3, <3>1, <3>4, StartNextKeepsLine
      <3>. QED BY <3>5, <3>6
    <2>5. CASE ~open
      <3>1. StartNext(queue) /\ queue = <<>>
        BY <1>3, <1>5, <2>5
      <3>2. /\ \A n \in Request : result'[n] # "waiting"
            /\ DOMAIN queue = {}
        BY <1>0, <1>1, <2>1, <2>2, <2>5, <3>1, QueueIsTheRest
      <3>3. QueueInv'
        BY <1>0, <2>3, <3>1, <3>2, QueueIsTheRest, StartNextKeepsQueue
      <3>4. LineInv' /\ BudgetInv'
        BY <2>3, <3>1, <3>2, QueueIsTheRest, StartNextKeepsLine
      <3>. QED BY <3>3, <3>4
    <2>. QED BY <2>4, <2>5
  <1>. QED BY <1>4, <1>5 DEF CompleteCurrent

-----------------------------------------------------------------------------
(* The invariant: every action keeps it *)

LEMMA RepliesKept ==
    ASSUME LinkInv, verdicts' = verdicts,
           toHost' = toHost \/ toHost' = <<>> \/ (toHost # <<>> /\ toHost' = Tail(toHost))
    PROVE  ReplyInv'
  <1>1. toHost \in Seq(Reply)
    BY DEF LinkInv, TypeOK
  <1>2. CASE toHost' = toHost
    BY <1>2 DEF LinkInv, ReplyInv
  <1>3. CASE toHost' = <<>>
    BY <1>3 DEF ReplyInv
  <1>4. CASE toHost # <<>> /\ toHost' = Tail(toHost)
    <2>1. \A i \in DOMAIN toHost' : i + 1 \in DOMAIN toHost /\ toHost'[i] = toHost[i + 1]
      BY <1>1, <1>4, TailFacts
    <2>. QED BY <2>1 DEF LinkInv, ReplyInv
  <1>. QED BY <1>2, <1>3, <1>4

LEMMA IssueKeepsInv ==
    ASSUME LinkInv, TypeOK', IssueRequest
    PROVE  QueueInv' /\ LineInv' /\ BudgetInv'
  <1>0. TypeOK BY DEF LinkInv
  <1>. DEFINE q == Append(queue, issued + 1)
  <1>1. /\ issued < MaxReq /\ issued' = issued + 1 /\ open' = open /\ tries' = tries
    BY DEF IssueRequest, unitVars
  <1>2. /\ issued + 1 \in Request /\ q \in Seq(Request)
        /\ issued + 1 > current.req
        /\ result[issued + 1] = "idle"
        /\ \A i \in DOMAIN queue : i \in DOMAIN q /\ q[i] = queue[i] /\ queue[i] <= issued
        /\ Len(queue) + 1 \in DOMAIN q /\ q[Len(queue) + 1] = issued + 1
        /\ \A i \in DOMAIN q : i \in DOMAIN queue \/ i = Len(queue) + 1
        /\ \A i, j \in DOMAIN q : i < j => q[i] < q[j]
    BY <1>1, AppendedQueue
  <1>3. \A n \in Request :
          result'[n] = IF n = issued + 1 THEN (IF open THEN "waiting" ELSE "failed")
                       ELSE result[n]
    BY <1>0, <1>2 DEF IssueRequest, TypeOK
  <1>4. /\ \A n \in Request : n > issued' <=> result'[n] = "idle"
        /\ \A n \in Request : result[n] # "idle" => result'[n] # "idle"
    <2>1. \A n \in Request : n > issued <=> result[n] = "idle"
      BY DEF LinkInv, QueueInv
    <2>. SUFFICES ASSUME NEW n \in Request
                  PROVE  /\ n > issued' <=> result'[n] = "idle"
                         /\ result[n] # "idle" => result'[n] # "idle"
      OBVIOUS
    <2>2. CASE n = issued + 1
      <3>1. result'[n] # "idle" BY <1>3, <2>2
      <3>. QED BY <1>0, <1>1, <2>2, <3>1, Numbers
    <2>3. CASE n # issued + 1
      BY <1>0, <1>1, <1>3, <2>1, <2>3, Numbers
    <2>. QED BY <2>2, <2>3
  <1>5. \A n \in Request : result[n] = "waiting" <=>
           n = current.req \/ \E i \in DOMAIN queue : queue[i] = n
    BY DEF LinkInv, QueueInv
  <1>6. CASE ~open
    <2>1. UNCHANGED <<current, queue, toUnit>>
      BY <1>6 DEF IssueRequest
    <2>2. \A n \in Request : result'[n] = "waiting" <=> result[n] = "waiting"
      BY <1>2, <1>3, <1>6
    <2>3. QueueInv'
      BY <1>1, <1>4, <1>5, <1>6, <2>1, <2>2 DEF LinkInv, QueueInv
    <2>. QED BY <1>1, <1>4, <2>1, <2>3, RestKeepsLine
  <1>7. CASE open
    <2>1. \A n \in Request : (\E i \in DOMAIN q : q[i] = n) <=>
              n = issued + 1 \/ \E i \in DOMAIN queue : queue[i] = n
      BY <1>2
    <2>2. \A n \in Request : result'[n] = "waiting" <=>
              n = current.req \/ \E i \in DOMAIN q : q[i] = n
      BY <1>2, <1>3, <1>5, <1>7, <2>1
    <2>3. CASE current.req = 0
      <3>1. StartNext(q)
        BY <1>7, <2>3 DEF IssueRequest, Enqueue
      <3>2. \A n \in Request : n # current.req
        BY <2>3 DEF Request
      <3>3. \A i \in DOMAIN q : q[i] \in Request
        BY <1>2, DomainFacts
      <3>. HIDE DEF q
      <3>4. \A n \in Request : result'[n] = "waiting" <=> \E i \in DOMAIN q : q[i] = n
        BY <2>2, <3>2
      <3>5. QueueInv'
        BY <1>0, <1>1, <1>2, <1>4, <1>7, <3>1, <3>4, StartNextKeepsQueue
      <3>6. \A i \in DOMAIN q : result'[q[i]] # "idle"
        BY <3>3, <3>4
      <3>7. LineInv' /\ BudgetInv'
        BY <1>1, <1>2, <1>4, <3>1, <3>6, StartNextKeepsLine
      <3>. QED BY <3>5, <3>7
    <2>4. CASE current.req # 0
      <3>1. queue' = q /\ UNCHANGED <<current, toUnit>>
        BY <1>7, <2>4 DEF IssueRequest, Enqueue
      <3>2. \A i \in DOMAIN q : q[i] > current.req
        BY <1>2 DEF LinkInv, QueueInv
      <3>. HIDE DEF q
      <3>3. QueueInv'
        BY <1>1, <1>2, <1>4, <1>7, <2>2, <2>4, <3>1, <3>2 DEF QueueInv
      <3>. QED BY <1>1, <1>4, <3>1, <3>3, RestKeepsLine
    <2>. QED BY <2>3, <2>4
  <1>. QED BY <1>6, <1>7

\* Repeating the current request leaves the queue alone.
LEMMA RetransmitKeepsInv ==
    ASSUME LinkInv, TypeOK', current.req # 0, current.left > 0, Retransmit,
           open' = open, tries' = tries
    PROVE  QueueInv' /\ LineInv' /\ BudgetInv'
  <1>1. current'.req = current.req
    <2>1. current \in [req : 0 .. MaxReq, left : Nat]
      BY DEF LinkInv, TypeOK
    <2>. QED BY <2>1 DEF Retransmit
  <1>2. queue' = queue /\ issued' = issued /\ result' = result
    BY DEF Retransmit
  <1>3. QueueInv'
    BY <1>1, <1>2 DEF LinkInv, QueueInv
  <1>. QED BY <1>3, RetransmitKeepsLine

LEMMA TimeoutKeepsInv ==
    ASSUME LinkInv, TypeOK', Timeout
    PROVE  QueueInv' /\ LineInv' /\ BudgetInv'
  <1>1. current.req # 0 /\ open' = open /\ tries' = tries
    BY DEF Timeout, unitVars
  <1>2. CASE RetryAllowed(current.left)
    BY <1>1, <1>2, RetransmitKeepsInv DEF Timeout, RetryAllowed
  <1>3. CASE ~RetryAllowed(current.left)
    <2>1. "failed" \in Ended BY DEF Ended
    <2>. QED BY <1>1, <1>3, <2>1, CompleteKeepsInv DEF Timeout
  <1>. QED BY <1>2, <1>3

LEMMA ReceiveAnswerKeepsInv ==
    ASSUME LinkInv, TypeOK', ReceiveAnswer
    PROVE  QueueInv' /\ LineInv' /\ BudgetInv'
  <1>1. /\ toHost # <<>> /\ Accepts(Head(toHost)) /\ CompleteCurrent(Head(toHost).verdict)
        /\ open' = open /\ tries' = tries
    BY DEF ReceiveAnswer, unitVars
  <1>2. Head(toHost) \in Reply
    BY <1>1, TailFacts DEF LinkInv, TypeOK
  <1>3. current.req # 0 /\ Head(toHost).verdict \in Ended
    BY <1>1, <1>2 DEF Accepts, Reply, Verdict, Ended
  <1>. QED BY <1>1, <1>3, CompleteKeepsInv

LEMMA ReceiveBadLineKeepsInv ==
    ASSUME LinkInv, TypeOK', ReceiveBadLine
    PROVE  QueueInv' /\ LineInv' /\ BudgetInv'
  <1>1. current.req # 0 /\ open' = open /\ tries' = tries
    BY DEF ReceiveBadLine, unitVars
  <1>2. CASE RetryAllowed(current.left)
    BY <1>1, <1>2, RetransmitKeepsInv DEF ReceiveBadLine, RetryAllowed
  <1>3. CASE ~RetryAllowed(current.left)
    <2>1. "garbled" \in Ended BY DEF Ended
    <2>. QED BY <1>1, <1>3, <2>1, CompleteKeepsInv DEF ReceiveBadLine
  <1>. QED BY <1>2, <1>3

\* What cancelAll() finds: the waiting requests, the current one first.
LEMMA OutstandingIsWaiting ==
    ASSUME LinkInv
    PROVE  /\ \A n \in Request : n \in OutstandingSet <=> result[n] = "waiting"
           /\ current.req = 0 => Outstanding = <<>>
           /\ \A k \in DOMAIN Outstanding : k < Len(Outstanding) =>
                \E i \in DOMAIN queue : queue[i] = Outstanding[k + 1]
  <1>0. TypeOK BY DEF LinkInv
  <1>1. queue \in Seq(Request)
    BY <1>0 DEF TypeOK
  <1>2. \A n \in Request : result[n] = "waiting" <=>
           n = current.req \/ \E i \in DOMAIN queue : queue[i] = n
    BY DEF LinkInv, QueueInv
  <1>3. CASE current.req = 0
    <2>1. queue = <<>> /\ Outstanding = <<>>
      BY <1>3 DEF LinkInv, QueueInv, Outstanding
    <2>2. DOMAIN queue = {} /\ DOMAIN Outstanding = {}
      BY <2>1
    <2>3. \A n \in Request : n # current.req
      BY <1>3 DEF Request
    <2>. QED BY <1>2, <2>1, <2>2, <2>3 DEF OutstandingSet
  <1>4. CASE current.req # 0
    <2>1. current.req \in Request
      BY <1>0, <1>4, Numbers
    <2>2. /\ Outstanding = <<current.req>> \o queue
          /\ DOMAIN Outstanding = 1 .. Len(queue) + 1
          /\ Len(Outstanding) = Len(queue) + 1 /\ Len(queue) \in Nat
          /\ DOMAIN queue = 1 .. Len(queue)
          /\ Outstanding[1] = current.req
          /\ \A i \in DOMAIN queue : Outstanding[i + 1] = queue[i]
      BY <1>1, <1>4, <2>1 DEF Outstanding
    <2>3. \A k \in DOMAIN Outstanding : k < Len(Outstanding) =>
             k \in DOMAIN queue /\ Outstanding[k + 1] = queue[k]
      BY <2>2
    <2>4. \A k \in DOMAIN Outstanding :
             k = 1 \/ (k - 1 \in DOMAIN queue /\ Outstanding[k] = queue[k - 1])
      BY <2>2
    <2>5. ASSUME NEW n \in Request, n \in OutstandingSet PROVE result[n] = "waiting"
      BY <1>2, <2>2, <2>4, <2>5 DEF OutstandingSet
    <2>6. ASSUME NEW n \in Request, result[n] = "waiting" PROVE n \in OutstandingSet
      <3>1. CASE n = current.req
        BY <2>2, <3>1 DEF OutstandingSet
      <3>2. CASE \E i \in DOMAIN queue : queue[i] = n
        <4>1. PICK i \in DOMAIN queue : queue[i] = n
          BY <3>2
        <4>2. i + 1 \in DOMAIN Outstanding /\ Outstanding[i + 1] = n
          BY <2>2, <4>1
        <4>. QED BY <4>2 DEF OutstandingSet
      <3>. QED BY <1>2, <2>6, <3>1, <3>2
    <2>. QED BY <1>4, <2>3, <2>5, <2>6
  <1>. QED BY <1>3, <1>4

LEMMA CloseQuietlyKeepsInv ==
    ASSUME LinkInv, TypeOK', CloseQuietly
    PROVE  QueueInv' /\ LineInv' /\ BudgetInv'
  <1>1. /\ current' = NoCurrent /\ queue' = <<>> /\ open' = FALSE
        /\ UNCHANGED <<issued, toUnit, tries>>
        /\ \A n \in Request :
             result'[n] = IF n \in OutstandingSet THEN "failed" ELSE result[n]
    BY DEF CloseQuietly, unitVars
  <1>2. /\ \A n \in Request : result'[n] # "waiting"
        /\ \A n \in Request : result'[n] = "idle" <=> result[n] = "idle"
    BY <1>1, OutstandingIsWaiting
  <1>3. DOMAIN queue' = {} /\ \A n \in Request : n # current'.req
    BY <1>1 DEF NoCurrent, Request
  <1>4. QueueInv'
    BY <1>1, <1>2, <1>3 DEF LinkInv, QueueInv
  <1>5. LineInv' /\ BudgetInv'
    BY <1>1, <1>2, RestKeepsLine
  <1>. QED BY <1>4, <1>5

\* The request a cancellation handler leaves behind is one not started yet.
LEMMA CloseReenteredKeepsInv ==
    ASSUME LinkInv, TypeOK', CloseReentered
    PROVE  QueueInv' /\ LineInv' /\ BudgetInv'
  <1>0. TypeOK BY DEF LinkInv
  <1>1. PICK k \in DOMAIN Outstanding :
          LET kept == IF k < Len(Outstanding) THEN Outstanding[k + 1] ELSE issued + 1
          IN  /\ current' = Fresh(kept)
              /\ toUnit' = Transmitted(Fresh(kept))
              /\ result' = [n \in Request |->
                              IF n = kept THEN "waiting"
                              ELSE IF n \in OutstandingSet \union {issued + 1}
                                   THEN "failed" ELSE result[n]]
    BY DEF CloseReentered
  <1>. DEFINE kept == IF k < Len(Outstanding) THEN Outstanding[k + 1] ELSE issued + 1
  <1>2. /\ issued < MaxReq /\ issued' = issued + 1 /\ open' = FALSE /\ queue' = <<>>
        /\ tries' = tries
    BY DEF CloseReentered, unitVars
  <1>3. /\ issued + 1 \in Request
        /\ result[issued + 1] = "idle"
        /\ \A i \in DOMAIN queue : queue[i] \in Request /\ queue[i] <= issued
    BY <1>0, <1>2, AppendedQueue, Numbers
  <1>4. /\ kept = issued + 1 \/ \E i \in DOMAIN queue : queue[i] = kept
        /\ kept \in Request /\ kept <= issued + 1
    <2>1. CASE k < Len(Outstanding)
      <3>1. \E i \in DOMAIN queue : queue[i] = kept
        BY <2>1, OutstandingIsWaiting
      <3>. QED BY <1>0, <1>3, <3>1, Numbers
    <2>2. CASE ~(k < Len(Outstanding))
      BY <1>0, <1>3, <2>2, Numbers
    <2>. QED BY <2>1, <2>2
  <1>5. \A n \in Request :
          result'[n] = IF n = kept THEN "waiting"
                       ELSE IF n \in OutstandingSet \union {issued + 1}
                            THEN "failed" ELSE result[n]
    BY <1>1
  <1>6. current' = Fresh(kept) /\ toUnit' = Transmitted(Fresh(kept)) /\ current'.req = kept
    BY <1>1 DEF Fresh
  <1>. HIDE DEF kept
  <1>7. /\ \A n \in Request : result'[n] = "waiting" <=> n = kept
        /\ \A n \in Request : result[n] # "idle" => result'[n] # "idle"
    BY <1>5, OutstandingIsWaiting
  <1>8. \A n \in Request : n > issued' <=> result'[n] = "idle"
    <2>1. \A n \in Request : n > issued <=> result[n] = "idle"
      BY DEF LinkInv, QueueInv
    <2>. SUFFICES ASSUME NEW n \in Request PROVE n > issued' <=> result'[n] = "idle"
      OBVIOUS
    <2>2. CASE n = issued + 1
      <3>1. result'[n] # "idle" BY <1>5, <2>2
      <3>. QED BY <1>0, <1>2, <2>2, <3>1, Numbers
    <2>3. CASE n # issued + 1 /\ n = kept
      BY <1>0, <1>2, <1>4, <1>7, <2>3, Numbers
    <2>4. CASE n # issued + 1 /\ n # kept
      BY <1>0, <1>2, <1>5, <2>1, <2>4, OutstandingIsWaiting, Numbers
    <2>. QED BY <2>2, <2>3, <2>4
  <1>9. QueueInv'
    <2>1. DOMAIN queue' = {}
      BY <1>2
    <2>. QED BY <1>2, <1>6, <1>7, <1>8, <2>1 DEF QueueInv
  <1>10. /\ \A i \in DOMAIN toUnit : toUnit[i].req < kept
         /\ \A n \in Request : tries[n] > 0 => n < kept
    BY <1>4, NotStartedIsYoungest
  <1>11. LineInv' /\ BudgetInv'
    BY <1>2, <1>4, <1>6, <1>7, <1>10, LaunchKeepsLine
  <1>. QED BY <1>9, <1>11

\* Frames leave the line at the front only, or all at once.
LEMMA ShorterLine ==
    ASSUME LinkInv, TypeOK',
           UNCHANGED <<current, tries, result>>,
           toUnit' = <<>> \/ (toUnit # <<>> /\ toUnit' = Tail(toUnit))
    PROVE  LineInv' /\ BudgetInv'
  <1>0. TypeOK BY DEF LinkInv
  <1>1. toUnit \in Seq(Copy)
    BY <1>0 DEF TypeOK
  <1>2. CASE toUnit' = <<>>
    <2>1. DOMAIN toUnit' = {}
      BY <1>2
    <2>. QED BY <2>1 DEF LinkInv, LineInv, BudgetInv
  <1>3. CASE toUnit # <<>> /\ toUnit' = Tail(toUnit)
    <2>1. \A i \in DOMAIN toUnit' :
             i \in Nat /\ i + 1 \in DOMAIN toUnit /\ toUnit'[i] = toUnit[i + 1]
      BY <1>1, <1>3, TailFacts
    <2>2. \A i, j \in DOMAIN toUnit' : i < j => i + 1 < j + 1
      BY <2>1
    <2>3. LineInv'
      BY <2>1, <2>2 DEF LinkInv, LineInv
    <2>4. BudgetInv'
      BY <2>1, <2>2 DEF LinkInv, BudgetInv
    <2>. QED BY <2>3, <2>4
  <1>. QED BY <1>2, <1>3

\* The unit acts on the copy at the front: it spends that copy's allowance.
LEMMA UnitActsKeepsInv ==
    ASSUME LinkInv, TypeOK', UnitActs
    PROVE  QueueInv' /\ LineInv' /\ BudgetInv' /\ ReplyInv'
  <1>0. TypeOK BY DEF LinkInv
  <1>. DEFINE h == Head(toUnit)
  <1>1. PICK v \in Verdict :
          /\ verdicts' = verdicts \union {<<h.req, unit, v>>}
          /\ toHost' = Append(toHost, [verdict |-> v, req |-> h.req,
                                       echo |-> unit \in EchoUnits])
    BY DEF UnitActs
  <1>2. /\ toUnit # <<>> /\ toUnit' = Tail(toUnit)
        /\ tries' = [tries EXCEPT ![h.req] = @ + 1]
        /\ UNCHANGED <<open, unit, current, queue, issued, result>>
    BY DEF UnitActs, hostVars
  <1>3. /\ h = toUnit[1] /\ 1 \in DOMAIN toUnit
        /\ \A i \in DOMAIN toUnit' :
             i \in Nat /\ i > 0 /\ i + 1 \in DOMAIN toUnit /\ toUnit'[i] = toUnit[i + 1]
    BY <1>2, TailFacts DEF LinkInv, TypeOK
  <1>. HIDE DEF h
  <1>4. h.req \in Request /\ h.left \in Nat
    BY <1>0, <1>3, Numbers
  <1>5. \A n \in Request : tries'[n] = IF n = h.req THEN tries[n] + 1 ELSE tries[n]
    BY <1>0, <1>2 DEF TypeOK
  <1>6. QueueInv'
    BY <1>2 DEF LinkInv, QueueInv
  <1>7. LineInv'
    <2>1. /\ \A i, j \in DOMAIN toUnit : i < j => toUnit[i].req <= toUnit[j].req
          /\ \A i \in DOMAIN toUnit, n \in Request : tries[n] > 0 => n <= toUnit[i].req
          /\ \A i \in DOMAIN toUnit : result[toUnit[i].req] # "idle"
          /\ \A n \in Request : tries[n] > 0 => result[n] # "idle"
          /\ current.req # 0 =>
               /\ \A i \in DOMAIN toUnit : toUnit[i].req <= current.req
               /\ \A n \in Request : tries[n] > 0 => n <= current.req
      BY DEF LinkInv, LineInv
    <2>2. \A i \in DOMAIN toUnit' : h.req <= toUnit'[i].req
      BY <1>3, <2>1
    <2>3. \A i, j \in DOMAIN toUnit' : i < j => toUnit'[i].req <= toUnit'[j].req
      BY <1>3, <2>1
    <2>4. \A i \in DOMAIN toUnit', n \in Request : tries'[n] > 0 => n <= toUnit'[i].req
      BY <1>3, <1>5, <2>1, <2>2
    <2>5. \A n \in Request : tries'[n] > 0 => result'[n] # "idle"
      BY <1>2, <1>3, <1>5, <2>1
    <2>6. \A i \in DOMAIN toUnit' : result'[toUnit'[i].req] # "idle"
      BY <1>2, <1>3, <2>1
    <2>7. current'.req # 0 =>
            /\ \A i \in DOMAIN toUnit' : toUnit'[i].req <= current'.req
            /\ \A n \in Request : tries'[n] > 0 => n <= current'.req
      BY <1>2, <1>3, <1>5, <2>1
    <2>. QED BY <2>3, <2>4, <2>5, <2>6, <2>7 DEF LineInv
  <1>8. BudgetInv'
    <2>1. /\ \A n \in Request : tries[n] <= Budget[n] + 1
          /\ \A i \in DOMAIN toUnit :
               tries[toUnit[i].req] + toUnit[i].left <= Budget[toUnit[i].req]
          /\ \A i, j \in DOMAIN toUnit :
               i < j /\ toUnit[i].req = toUnit[j].req => toUnit[i].left > toUnit[j].left
          /\ current.req # 0 =>
               /\ tries[current.req] + current.left <= Budget[current.req] + 1
               /\ \A i \in DOMAIN toUnit :
                    toUnit[i].req = current.req => toUnit[i].left >= current.left
      BY DEF LinkInv, BudgetInv
    <2>2. /\ tries[h.req] \in Nat /\ Budget[h.req] \in Nat
          /\ tries[h.req] + h.left <= Budget[h.req]
      BY <1>0, <1>3, <1>4, <2>1, Numbers
    <2>3. \A n \in Request : tries'[n] <= Budget[n] + 1
      <3>1. tries'[h.req] <= Budget[h.req] + 1
        BY <1>4, <1>5, <2>2
      <3>. QED BY <1>5, <2>1, <3>1
    <2>4. \A i \in DOMAIN toUnit' :
             tries'[toUnit'[i].req] + toUnit'[i].left <= Budget[toUnit'[i].req]
      <3>. SUFFICES ASSUME NEW i \in DOMAIN toUnit'
                    PROVE  tries'[toUnit'[i].req] + toUnit'[i].left <= Budget[toUnit'[i].req]
        OBVIOUS
      <3>1. /\ toUnit'[i].req \in Request /\ toUnit'[i].left \in Nat
            /\ tries[toUnit'[i].req] \in Nat
            /\ tries[toUnit'[i].req] + toUnit'[i].left <= Budget[toUnit'[i].req]
        BY <1>0, <1>3, <2>1, Numbers
      <3>2. toUnit'[i].req = h.req => toUnit'[i].left < h.left
        BY <1>3, <1>4, <2>1, <3>1
      <3>. QED BY <1>4, <1>5, <2>2, <3>1, <3>2
    <2>5. \A i, j \in DOMAIN toUnit' :
             i < j /\ toUnit'[i].req = toUnit'[j].req => toUnit'[i].left > toUnit'[j].left
      BY <1>3, <2>1
    <2>6. current'.req # 0 =>
            /\ tries'[current'.req] + current'.left <= Budget[current'.req] + 1
            /\ \A i \in DOMAIN toUnit' :
                 toUnit'[i].req = current'.req => toUnit'[i].left >= current'.left
      <3>. SUFFICES ASSUME current.req # 0
                    PROVE  /\ tries'[current.req] + current.left <= Budget[current.req] + 1
                           /\ \A i \in DOMAIN toUnit' :
                                toUnit'[i].req = current.req => toUnit'[i].left >= current.left
        BY <1>2
      <3>1. current.req \in Request /\ current.left \in Nat /\ tries[current.req] \in Nat
        BY <1>0, Numbers
      <3>2. h.req = current.req => h.left >= current.left
        BY <1>3, <2>1
      <3>. QED BY <1>3, <1>4, <1>5, <2>1, <2>2, <3>1, <3>2
    <2>. QED BY <2>3, <2>4, <2>5, <2>6 DEF BudgetInv
  <1>9. ReplyInv'
    <2>. DEFINE r == [verdict |-> v, req |-> h.req, echo |-> unit \in EchoUnits]
    <2>1. toHost \in Seq(Reply) /\ unit \in Unit /\ r \in Reply
      BY <1>0, <1>4 DEF TypeOK, Reply, Request
    <2>2. /\ \A i \in DOMAIN toHost : toHost'[i] = toHost[i]
          /\ \A i \in DOMAIN toHost' : i \in DOMAIN toHost \/ toHost'[i] = r
      BY <1>1, <2>1, AppendFacts
    <2>3. r.req = h.req /\ r.verdict = v /\ r.echo = (unit \in EchoUnits)
      OBVIOUS
    <2>. HIDE DEF r
    <2>4. \A i \in DOMAIN toHost : toHost[i].verdict # "badline" =>
             /\ toHost[i].req \in Request
             /\ \E u \in Unit :
                  /\ <<toHost[i].req, u, toHost[i].verdict>> \in verdicts
                  /\ toHost[i].echo = (u \in EchoUnits)
      BY DEF LinkInv, ReplyInv
    <2>5. <<r.req, unit, r.verdict>> \in verdicts' /\ verdicts \subseteq verdicts'
      BY <1>1, <2>3
    <2>6. \A i \in DOMAIN toHost' : toHost'[i].verdict # "badline" =>
             /\ toHost'[i].req \in Request
             /\ \E u \in Unit :
                  /\ <<toHost'[i].req, u, toHost'[i].verdict>> \in verdicts'
                  /\ toHost'[i].echo = (u \in EchoUnits)
      <3>. SUFFICES ASSUME NEW i \in DOMAIN toHost', toHost'[i].verdict # "badline"
                    PROVE  /\ toHost'[i].req \in Request
                           /\ \E u \in Unit :
                                /\ <<toHost'[i].req, u, toHost'[i].verdict>> \in verdicts'
                                /\ toHost'[i].echo = (u \in EchoUnits)
        OBVIOUS
      <3>1. CASE i \in DOMAIN toHost
        BY <2>2, <2>4, <2>5, <3>1
      <3>2. CASE toHost'[i] = r
        BY <1>4, <2>1, <2>3, <2>5, <3>2
      <3>. QED BY <2>2, <3>1, <3>2
    <2>. QED BY <2>6 DEF ReplyInv
  <1>. QED BY <1>6, <1>7, <1>8, <1>9

LEMMA UnitRejectsKeepsInv ==
    ASSUME LinkInv, TypeOK', UnitRejects
    PROVE  QueueInv' /\ LineInv' /\ BudgetInv' /\ ReplyInv'
  <1>1. /\ toUnit # <<>> /\ toUnit' = Tail(toUnit)
        /\ UNCHANGED <<open, unit, current, queue, issued, result, tries, verdicts>>
    BY DEF UnitRejects, hostVars, unitVars
  <1>2. LineInv' /\ BudgetInv'
    BY <1>1, ShorterLine
  <1>3. QueueInv'
    BY <1>1 DEF LinkInv, QueueInv
  <1>4. ReplyInv'
    <2>. DEFINE r == [verdict |-> "badline", req |-> 0, echo |-> FALSE]
    <2>1. toHost \in Seq(Reply) /\ r \in Reply /\ toHost' = Append(toHost, r)
      BY DEF LinkInv, TypeOK, Reply, UnitRejects
    <2>2. /\ \A i \in DOMAIN toHost : toHost'[i] = toHost[i]
          /\ \A i \in DOMAIN toHost' : i \in DOMAIN toHost \/ toHost'[i] = r
      BY <2>1, AppendFacts
    <2>3. r.verdict = "badline"
      OBVIOUS
    <2>. HIDE DEF r
    <2>. QED BY <1>1, <2>2, <2>3 DEF LinkInv, ReplyInv
  <1>. QED BY <1>2, <1>3, <1>4

LEMMA NextKeepsInv == LinkInv /\ [Next]_vars => LinkInv'
  <1>. SUFFICES ASSUME LinkInv, [Next]_vars PROVE LinkInv'
    OBVIOUS
  <1>0. TypeOK'
    BY NextKeepsType DEF LinkInv
  <1>1. CASE IssueRequest
    <2>1. ReplyInv' BY <1>1, RepliesKept DEF IssueRequest, unitVars
    <2>. QED BY <1>0, <1>1, <2>1, IssueKeepsInv DEF LinkInv
  <1>2. CASE Timeout
    <2>1. ReplyInv' BY <1>2, RepliesKept DEF Timeout, unitVars
    <2>. QED BY <1>0, <1>2, <2>1, TimeoutKeepsInv DEF LinkInv
  <1>3. CASE ReceiveAnswer
    <2>1. ReplyInv' BY <1>3, RepliesKept DEF ReceiveAnswer, unitVars
    <2>. QED BY <1>0, <1>3, <2>1, ReceiveAnswerKeepsInv DEF LinkInv
  <1>4. CASE ReceiveBadLine
    <2>1. ReplyInv' BY <1>4, RepliesKept DEF ReceiveBadLine, unitVars
    <2>. QED BY <1>0, <1>4, <2>1, ReceiveBadLineKeepsInv DEF LinkInv
  <1>5. CASE ReceiveStale
    <2>1. ReplyInv' BY <1>5, RepliesKept DEF ReceiveStale, unitVars
    <2>2. LineInv' /\ BudgetInv'
      BY <1>0, <1>5, RestKeepsLine DEF ReceiveStale, hostVars, unitVars
    <2>3. QueueInv' BY <1>5 DEF LinkInv, QueueInv, ReceiveStale, hostVars
    <2>. QED BY <1>0, <2>1, <2>2, <2>3 DEF LinkInv
  <1>6. CASE CloseQuietly
    <2>1. ReplyInv' BY <1>6, RepliesKept DEF CloseQuietly, unitVars
    <2>. QED BY <1>0, <1>6, <2>1, CloseQuietlyKeepsInv DEF LinkInv
  <1>7. CASE CloseReentered
    <2>1. ReplyInv' BY <1>7, RepliesKept DEF CloseReentered, unitVars
    <2>. QED BY <1>0, <1>7, <2>1, CloseReenteredKeepsInv DEF LinkInv
  <1>8. CASE Open
    <2>1. ReplyInv' BY <1>8, RepliesKept DEF Open, unitVars
    <2>2. UNCHANGED <<current, queue, issued, result, tries>>
      BY <1>8 DEF Open, unitVars
    <2>3. QueueInv'
      BY <1>8, <2>2 DEF LinkInv, QueueInv, Open
    <2>4. LineInv' /\ BudgetInv'
      <3>1. CASE toUnit' = toUnit
        BY <1>0, <2>2, <3>1, RestKeepsLine
      <3>2. CASE toUnit' = <<>>
        BY <1>0, <2>2, <3>2, ShorterLine
      <3>. QED BY <1>8, <3>1, <3>2 DEF Open
    <2>. QED BY <1>0, <2>1, <2>3, <2>4 DEF LinkInv
  <1>9. CASE UnitActs
    BY <1>0, <1>9, UnitActsKeepsInv DEF LinkInv
  <1>10. CASE UnitRejects
    BY <1>0, <1>10, UnitRejectsKeepsInv DEF LinkInv
  <1>11. CASE LoseFrame
    <2>1. ReplyInv' BY <1>11, RepliesKept DEF LoseFrame, unitVars
    <2>2. LineInv' /\ BudgetInv'
      BY <1>0, <1>11, ShorterLine DEF LoseFrame, hostVars, unitVars
    <2>3. QueueInv' BY <1>11 DEF LinkInv, QueueInv, LoseFrame, hostVars
    <2>. QED BY <1>0, <2>1, <2>2, <2>3 DEF LinkInv
  <1>12. CASE LoseReply
    <2>1. ReplyInv' BY <1>12, RepliesKept DEF LoseReply, unitVars
    <2>2. LineInv' /\ BudgetInv'
      BY <1>0, <1>12, RestKeepsLine DEF LoseReply, hostVars, unitVars
    <2>3. QueueInv' BY <1>12 DEF LinkInv, QueueInv, LoseReply, hostVars
    <2>. QED BY <1>0, <2>1, <2>2, <2>3 DEF LinkInv
  <1>13. CASE UNCHANGED vars
    <2>1. ReplyInv' BY <1>13, RepliesKept DEF vars, unitVars
    <2>2. LineInv' /\ BudgetInv'
      BY <1>0, <1>13, RestKeepsLine DEF vars, hostVars, unitVars
    <2>3. QueueInv' BY <1>13 DEF LinkInv, QueueInv, vars, hostVars
    <2>. QED BY <1>0, <2>1, <2>2, <2>3 DEF LinkInv
  <1>. QED BY <1>1, <1>2, <1>3, <1>4, <1>5, <1>6, <1>7, <1>8, <1>9, <1>10, <1>11, <1>12,
              <1>13 DEF Next, Close

LEMMA InitEstablishesInv == Init => LinkInv
  <1>. SUFFICES ASSUME Init PROVE LinkInv
    OBVIOUS
  <1>1. /\ open = FALSE /\ unit \in Unit /\ current = NoCurrent /\ queue = <<>>
        /\ issued = 0 /\ toUnit = <<>> /\ toHost = <<>>
        /\ result = [n \in Request |-> "idle"]
        /\ tries = [n \in Request |-> 0]
        /\ verdicts = {}
    BY DEF Init, Contract!Init, Contract!Request, Request
  <1>2. DOMAIN queue = {} /\ DOMAIN toUnit = {} /\ DOMAIN toHost = {} /\ current.req = 0
    BY <1>1 DEF NoCurrent
  <1>3. TypeOK
    <2>1. <<>> \in Seq(Request) /\ <<>> \in Seq(Copy) /\ <<>> \in Seq(Reply)
      OBVIOUS
    <2>2. current \in [req : 0 .. MaxReq, left : Nat] /\ issued \in 0 .. MaxReq
      BY <1>1, LinkConstants DEF NoCurrent
    <2>3. /\ result \in [Request -> Contract!Result]
          /\ tries \in [Request -> Nat]
          /\ verdicts \subseteq Request \X Unit \X Verdict
      BY <1>1 DEF Contract!Result
    <2>. QED BY <1>1, <2>1, <2>2, <2>3 DEF TypeOK
  <1>4. QueueInv
    BY <1>1, <1>2 DEF QueueInv, Request
  <1>5. LineInv /\ ReplyInv
    BY <1>1, <1>2 DEF LineInv, ReplyInv
  <1>6. BudgetInv
    <2>1. \A n \in Request : tries[n] <= Budget[n] + 1
      BY <1>1, LinkConstants
    <2>. QED BY <1>2, <2>1 DEF BudgetInv
  <1>. QED BY <1>3, <1>4, <1>5, <1>6 DEF LinkInv

\* The queue, the line and the unit keep the invariant the other theorems
\* rest on.
THEOREM LinkInvariant == Spec => []LinkInv
  BY InitEstablishesInv, NextKeepsInv, PTL DEF Spec

\* Every variable of the link keeps its type.
THEOREM TypeCorrect == Spec => []TypeOK
  <1>1. LinkInv => TypeOK BY DEF LinkInv
  <1>. QED BY <1>1, LinkInvariant, PTL

\* Whatever mix of timeouts, late replies, bad-line NACKs and reconnections a
\* request meets, a unit acts on it at most once more than its retries.
THEOREM BudgetIsKept == Spec => []ActsWithinBudget
  <1>1. LinkInv => ActsWithinBudget BY DEF LinkInv, BudgetInv, ActsWithinBudget
  <1>. QED BY <1>1, LinkInvariant, PTL

\* A unit never acts on a request after it has acted on a later one.
THEOREM NoReordering == Spec => NoLateDuplicate
  <1>1. ASSUME LinkInv, [Next]_vars, NEW m \in Request, NEW n \in Request,
               m < n, tries[n] > 0
        PROVE  tries'[m] = tries[m]
    <2>0. TypeOK BY <1>1 DEF LinkInv
    <2>1. CASE UnitActs
      <3>1. tries' = [tries EXCEPT ![Head(toUnit).req] = @ + 1] /\ toUnit # <<>>
        BY <2>1 DEF UnitActs
      <3>2. Head(toUnit) = toUnit[1] /\ 1 \in DOMAIN toUnit
        BY <2>0, <3>1, TailFacts DEF TypeOK
      <3>3. n <= Head(toUnit).req /\ Head(toUnit).req \in Request
        BY <1>1, <2>0, <3>2, Numbers DEF LinkInv, LineInv
      <3>4. Head(toUnit).req # m
        BY <1>1, <2>0, <3>3, Numbers
      <3>. QED BY <2>0, <3>1, <3>4 DEF TypeOK
    <2>2. CASE UNCHANGED tries
      BY <2>2
    <2>. QED BY <1>1, <2>1, <2>2
         DEF Next, IssueRequest, Timeout, ReceiveAnswer, ReceiveBadLine, ReceiveStale, Close,
             CloseQuietly, CloseReentered, Open, UnitRejects, LoseFrame, LoseReply, vars,
             hostVars, unitVars
  <1>2. LinkInv /\ [Next]_vars =>
          [\A m, n \in Request : m < n /\ tries[n] > 0 => tries'[m] = tries[m]]_vars
    BY <1>1
  <1>. QED BY <1>2, LinkInvariant, PTL DEF Spec, NoLateDuplicate

-----------------------------------------------------------------------------
(* Refinement *)

LEMMA SameVocabulary ==
    /\ Contract!Request = Request
    /\ Contract!Verdict = Verdict
    /\ \A m, v, echo, n : Contract!Answers(m, v, echo, n) <=> Answers(m, v, echo, n)
  <1>1. Contract!Request = Request /\ Contract!Verdict = Verdict
    BY DEF Contract!Request, Request, Contract!Verdict, Verdict
  <1>2. \A m, v, echo, n : Contract!Answers(m, v, echo, n) <=> Answers(m, v, echo, n)
    BY DEF Contract!Answers, Answers, Contract!DataMatches, DataMatches, Contract!IsRead, IsRead
  <1>. QED BY <1>1, <1>2

\* A step that gives some requests the report `new` is a step of the
\* contract's host.
LEMMA ReportsAreHostSteps ==
    ASSUME TypeOK', UNCHANGED <<tries, verdicts>>,
           \A n \in Request : result'[n] # result[n] => Contract!MayReport(n, result'[n])
    PROVE  Contract!Next
  <1>1. result' \in [Request -> Contract!Result]
    BY DEF TypeOK
  <1>. QED BY <1>1, SameVocabulary DEF Contract!Next, Contract!HostStep

\* completeCurrent() reports once on the current request, and takes up at most
\* one new one.
LEMMA CompleteIsHostStep ==
    ASSUME LinkInv, TypeOK', NEW outcome, CompleteCurrent(outcome), current.req # 0,
           UNCHANGED <<tries, verdicts>>, Contract!MayReport(current.req, outcome)
    PROVE  Contract!Next
  <1>0. TypeOK BY DEF LinkInv
  <1>1. current.req \in Request
    BY <1>0, Numbers
  <1>. SUFFICES ASSUME NEW n \in Request, result'[n] # result[n]
                PROVE  Contract!MayReport(n, result'[n])
    BY ReportsAreHostSteps
  <1>2. CASE result' = [result EXCEPT ![current.req] = outcome]
    <2>1. n = current.req /\ result'[n] = outcome
      BY <1>0, <1>1, <1>2 DEF TypeOK
    <2>. QED BY <2>1
  <1>3. CASE /\ issued < MaxReq
             /\ result' = [result EXCEPT
                             ![current.req] = outcome,
                             ![issued + 1] = IF open THEN "waiting" ELSE "failed"]
    <2>1. /\ issued + 1 \in Request
          /\ result[issued + 1] = "idle"
          /\ issued + 1 > current.req
      BY <1>3, AppendedQueue
    <2>2. /\ n = issued + 1 => result'[n] \in {"waiting", "failed"}
          /\ n # issued + 1 => n = current.req /\ result'[n] = outcome
      <3>1. current.req # issued + 1
        BY <1>0, <2>1, Numbers
      <3>. QED BY <1>0, <1>1, <1>3, <2>1, <3>1 DEF TypeOK
    <2>. QED BY <2>1, <2>2 DEF Contract!MayReport
  <1>. QED BY <1>2, <1>3 DEF CompleteCurrent

LEMMA StepSimulation ==
    ASSUME LinkInv, TypeOK', Next
    PROVE  Contract!Next \/ UNCHANGED Contract!vars
  <1>0. TypeOK BY DEF LinkInv
  <1>1. CASE IssueRequest
    <2>1. issued < MaxReq /\ UNCHANGED <<tries, verdicts>>
      BY <1>1 DEF IssueRequest, unitVars
    <2>2. issued + 1 \in Request /\ result[issued + 1] = "idle"
      BY <2>1, AppendedQueue
    <2>3. \A n \in Request : result'[n] # result[n] =>
             n = issued + 1 /\ result'[n] \in {"waiting", "failed"}
      BY <1>0, <1>1, <2>2 DEF IssueRequest, TypeOK
    <2>4. \A n \in Request : result'[n] # result[n] => Contract!MayReport(n, result'[n])
      BY <2>2, <2>3 DEF Contract!MayReport
    <2>. QED BY <2>1, <2>4, ReportsAreHostSteps
  <1>2. ASSUME Retransmit, UNCHANGED unitVars PROVE UNCHANGED Contract!vars
    BY <1>2 DEF Retransmit, Contract!vars, unitVars
  <1>3. current.req # 0 => /\ result[current.req] = "waiting"
                           /\ Contract!MayReport(current.req, "failed")
                           /\ Contract!MayReport(current.req, "garbled")
    BY QueueIsTheRest DEF Contract!MayReport
  <1>4. CASE Timeout
    <2>1. current.req # 0 /\ UNCHANGED <<tries, verdicts>> /\ UNCHANGED unitVars
      BY <1>4 DEF Timeout, unitVars
    <2>2. Retransmit \/ CompleteCurrent("failed")
      BY <1>4 DEF Timeout
    <2>. QED BY <1>2, <1>3, <2>1, <2>2, CompleteIsHostStep
  <1>5. CASE ReceiveBadLine
    <2>1. current.req # 0 /\ UNCHANGED <<tries, verdicts>> /\ UNCHANGED unitVars
      BY <1>5 DEF ReceiveBadLine, unitVars
    <2>2. Retransmit \/ CompleteCurrent("garbled")
      BY <1>5 DEF ReceiveBadLine
    <2>. QED BY <1>2, <1>3, <2>1, <2>2, CompleteIsHostStep
  <1>6. CASE ReceiveAnswer
    <2>. DEFINE r == Head(toHost)
    <2>1. /\ toHost # <<>> /\ Accepts(r) /\ CompleteCurrent(r.verdict)
          /\ UNCHANGED <<tries, verdicts>>
      BY <1>6 DEF ReceiveAnswer, unitVars
    <2>2. r \in Reply /\ r = toHost[1] /\ 1 \in DOMAIN toHost
      BY <1>0, <2>1, TailFacts DEF TypeOK
    <2>. HIDE DEF r
    <2>3. /\ current.req # 0 /\ r.verdict # "badline" /\ r.verdict \in Verdict
          /\ Answers(r.req, r.verdict, r.echo, current.req)
      BY <2>1, <2>2 DEF Accepts, Reply
    <2>4. PICK u \in Unit : /\ <<r.req, u, r.verdict>> \in verdicts
                            /\ r.echo = (u \in EchoUnits)
      BY <2>2, <2>3 DEF LinkInv, ReplyInv
    <2>5. r.req \in Request
      BY <2>2, <2>3 DEF LinkInv, ReplyInv
    <2>6. Contract!Backed(current.req, r.verdict)
      BY <2>3, <2>4, <2>5, SameVocabulary DEF Contract!Backed
    <2>7. \A m \in Request : m < current.req => result[m] \notin {"idle", "waiting"}
      <3>1. current.req \in Request /\ current.req <= issued
        BY <2>3, QueueIsTheRest
      <3>2. \A m \in Request : m < current.req => result[m] # "idle"
        BY <1>0, <3>1, Numbers DEF LinkInv, QueueInv
      <3>3. \A m \in Request : m < current.req => result[m] # "waiting"
        BY <1>0, <3>1, Numbers DEF LinkInv, QueueInv
      <3>. QED BY <3>2, <3>3
    <2>8. Contract!MayReport(current.req, r.verdict)
      BY <1>3, <2>3, <2>6, <2>7, SameVocabulary DEF Contract!MayReport
    <2>. QED BY <2>1, <2>3, <2>8, CompleteIsHostStep DEF r
  <1>7. CASE CloseQuietly
    <2>1. \A n \in Request : result'[n] # result[n] =>
             result[n] = "waiting" /\ result'[n] = "failed"
      BY <1>7, OutstandingIsWaiting DEF CloseQuietly
    <2>2. UNCHANGED <<tries, verdicts>>
      BY <1>7 DEF CloseQuietly, unitVars
    <2>3. \A n \in Request : result'[n] # result[n] => Contract!MayReport(n, result'[n])
      BY <2>1 DEF Contract!MayReport
    <2>. QED BY <2>2, <2>3, ReportsAreHostSteps
  <1>8. CASE CloseReentered
    <2>1. issued < MaxReq /\ UNCHANGED <<tries, verdicts>>
      BY <1>8 DEF CloseReentered, unitVars
    <2>2. issued + 1 \in Request /\ result[issued + 1] = "idle"
      BY <2>1, AppendedQueue
    <2>3. \E kept : /\ kept = issued + 1 \/ result[kept] = "waiting"
                    /\ \A n \in Request : result'[n] =
                         IF n = kept THEN "waiting"
                         ELSE IF n \in OutstandingSet \union {issued + 1}
                              THEN "failed" ELSE result[n]
      <3>1. PICK k \in DOMAIN Outstanding :
              LET kept == IF k < Len(Outstanding) THEN Outstanding[k + 1] ELSE issued + 1
              IN  /\ current' = Fresh(kept)
                  /\ toUnit' = Transmitted(Fresh(kept))
                  /\ result' = [n \in Request |->
                                  IF n = kept THEN "waiting"
                                  ELSE IF n \in OutstandingSet \union {issued + 1}
                                       THEN "failed" ELSE result[n]]
        BY <1>8 DEF CloseReentered
      <3>. DEFINE kept == IF k < Len(Outstanding) THEN Outstanding[k + 1] ELSE issued + 1
      <3>2. kept = issued + 1 \/ result[kept] = "waiting"
        <4>1. \A i \in DOMAIN queue : result[queue[i]] = "waiting"
          BY <1>0, Numbers DEF LinkInv, QueueInv
        <4>. QED BY <4>1, OutstandingIsWaiting
      <3>. HIDE DEF kept
      <3>3. \A n \in Request : result'[n] =
                         IF n = kept THEN "waiting"
                         ELSE IF n \in OutstandingSet \union {issued + 1}
                              THEN "failed" ELSE result[n]
        BY <3>1 DEF kept
      <3>. QED BY <3>2, <3>3
    <2>4. \A n \in Request : result'[n] # result[n] =>
             \/ n = issued + 1 /\ result'[n] \in {"waiting", "failed"}
             \/ result[n] = "waiting" /\ result'[n] = "failed"
      BY <2>3, OutstandingIsWaiting
    <2>5. \A n \in Request : result'[n] # result[n] => Contract!MayReport(n, result'[n])
      BY <2>2, <2>4 DEF Contract!MayReport
    <2>. QED BY <2>1, <2>5, ReportsAreHostSteps
  <1>9. CASE UnitActs
    <2>1. PICK v \in Verdict : verdicts' = verdicts \union {<<Head(toUnit).req, unit, v>>}
      BY <1>9 DEF UnitActs
    <2>2. /\ toUnit # <<>> /\ tries' = [tries EXCEPT ![Head(toUnit).req] = @ + 1]
          /\ UNCHANGED result
      BY <1>9 DEF UnitActs, hostVars
    <2>3. Head(toUnit) = toUnit[1] /\ 1 \in DOMAIN toUnit
      BY <1>0, <2>2, TailFacts DEF TypeOK
    <2>. DEFINE n == toUnit[1].req
    <2>4. /\ n \in Request /\ toUnit[1].left \in Nat
          /\ tries[n] \in Nat /\ Budget[n] \in Nat
      BY <1>0, <2>3, Numbers
    <2>5. result[n] # "idle" /\ \A m \in Request : tries[m] > 0 => m <= n
      BY <2>3 DEF LinkInv, LineInv
    <2>6. tries[n] <= Budget[n]
      <3>1. tries[n] + toUnit[1].left <= Budget[n]
        BY <2>3 DEF LinkInv, BudgetInv
      <3>. QED BY <2>4, <3>1
    <2>7. unit \in Unit
      BY <1>0 DEF TypeOK
    <2>8. /\ tries' = [tries EXCEPT ![n] = @ + 1]
          /\ verdicts' = verdicts \union {<<n, unit, v>>}
      BY <2>1, <2>2, <2>3
    <2>. HIDE DEF n
    <2>9. Contract!UnitStep
      BY <2>2, <2>4, <2>5, <2>6, <2>7, <2>8, SameVocabulary DEF Contract!UnitStep
    <2>. QED BY <2>9 DEF Contract!Next
  <1>10. CASE ReceiveStale \/ Open \/ UnitRejects \/ LoseFrame \/ LoseReply
    BY <1>10 DEF ReceiveStale, Open, UnitRejects, LoseFrame, LoseReply, hostVars, unitVars,
                 Contract!vars
  <1>. QED BY <1>1, <1>4, <1>5, <1>6, <1>7, <1>8, <1>9, <1>10 DEF Next, Close

\* The queue of device_link.cpp keeps the promises of LinkContract, whatever
\* the line loses, delays or garbles and whenever the port is closed.
THEOREM LinkRefinesContract == Spec => ImplementsContract
  <1>1. Init => Contract!Init
    BY DEF Init
  <1>2. LinkInv /\ [Next]_vars => [Contract!Next]_(Contract!vars)
    <2>1. ASSUME LinkInv, Next PROVE Contract!Next \/ UNCHANGED Contract!vars
      <3>1. TypeOK'
        BY <2>1, NextKeepsType DEF LinkInv
      <3>. QED BY <2>1, <3>1, StepSimulation
    <2>2. UNCHANGED vars => UNCHANGED Contract!vars
      BY DEF vars, hostVars, unitVars, Contract!vars
    <2>. QED BY <2>1, <2>2
  <1>. QED BY <1>1, <1>2, LinkInvariant, PTL DEF Spec, ImplementsContract, Contract!Spec

=============================================================================
