----------------------------- MODULE DeviceLink -----------------------------
(***************************************************************************)
(* The stop-and-wait request queue over the serial port                    *)
(* (gui/src/protocol/device_link.cpp) together with the line and the unit  *)
(* at its other end.  The unit's firmware is not in the repository: its    *)
(* actions are modelled from what the host code relies on.                 *)
(*                                                                         *)
(* The line is FIFO in both directions; it loses frames, delivers them     *)
(* late (a timeout may fire with the answer already on its way) and        *)
(* garbles them (the unit NACKs what it cannot read).  A garbled reply is  *)
(* dropped by the host's splitter and is a lost one here.                  *)
(*                                                                         *)
(* A handler runs inside completeCurrent() or cancelAll() and may issue a  *)
(* request of its own from there: that re-entrancy is part of the actions. *)
(* The retry timer runs exactly while there is a current request, so it is *)
(* not a variable.  The oversize-frame backstop of transmitCurrent() is    *)
(* left out: static asserts keep every payload the host builds below it.   *)
(* Definitions marked "seeded bug" are no part of the specification: each  *)
(* shows that a property fails when the code is wrong in that way.         *)
(***************************************************************************)
EXTENDS LinkRequests

VARIABLES
    open,      \* m_port.isOpen()
    unit,      \* the unit the port was last opened on
    current,   \* m_current: the request in flight (0: none) and retriesLeft
    queue,     \* m_queue
    issued,    \* how many requests have been issued
    toUnit,    \* frames on the line to the unit: the request, and the retries it
               \* had left when this copy was sent (telling the copies apart)
    toHost,    \* replies on the line to the host
    result,    \* what each request's handler was told (see LinkContract)
    tries,     \* how often a unit acted on each request
    verdicts   \* the verdicts units have given

hostVars == <<open, unit, current, queue, issued, result>>
unitVars == <<tries, verdicts>>
vars == <<hostVars, toUnit, toHost, unitVars>>

Contract == INSTANCE LinkContract
    WITH result <- result, tries <- tries, verdicts <- verdicts

NoCurrent == [req |-> 0, left |-> 0]

Copy == [req : Request, left : Nat]

\* A reply names the request it answers; "badline" answers none.
Reply == [verdict : Verdict \union {"badline"}, req : 0 .. MaxReq, echo : BOOLEAN]

TypeOK ==
    /\ open \in BOOLEAN
    /\ unit \in Unit
    /\ current \in [req : 0 .. MaxReq, left : Nat]
    /\ queue \in Seq(Request)
    /\ issued \in 0 .. MaxReq
    /\ toUnit \in Seq(Copy)
    /\ toHost \in Seq(Reply)
    /\ result \in [Request -> Contract!Result]
    /\ tries \in [Request -> Nat]
    /\ verdicts \subseteq Request \X Unit \X Verdict

Init ==
    /\ open = FALSE
    /\ unit \in Unit
    /\ current = NoCurrent
    /\ queue = <<>>
    /\ issued = 0
    /\ toUnit = <<>>
    /\ toHost = <<>>
    /\ Contract!Init

-----------------------------------------------------------------------------
(* Queueing and transmission *)

\* (Seeded bug: a queue that serves the newest request first.)
EnqueueFirst(q, n) == <<n>> \o q

Enqueue(q, n) == Append(q, n)

\* (Seeded bug: retriesLeft-- >= 0.)
RetryAllowedOnceMore(left) == left >= 0

RetryAllowed(left) == left > 0

\* transmitCurrent() for m_current = c; a closed port swallows the frame.
Transmitted(c) == IF open THEN Append(toUnit, c) ELSE toUnit

\* m_current as dequeued: a request with its whole budget.
Fresh(n) == [req |-> n, left |-> Budget[n]]

\* (Seeded bug: completeCurrent() without its startNext().)
LeaveQueued(q) ==
    /\ current' = NoCurrent
    /\ queue' = q
    /\ toUnit' = toUnit

\* startNext() with nothing in flight, q being the queue it finds.
StartNext(q) ==
    IF q = <<>>
    THEN /\ current' = NoCurrent
         /\ queue' = q
         /\ toUnit' = toUnit
    ELSE /\ current' = Fresh(Head(q))
         /\ queue' = Tail(q)
         /\ toUnit' = Transmitted(Fresh(Head(q)))

\* request() from the application.
IssueRequest ==
    /\ issued < MaxReq
    /\ issued' = issued + 1
    /\ IF ~open
       THEN /\ result' = [result EXCEPT ![issued + 1] = "failed"]
            /\ UNCHANGED <<current, queue, toUnit>>
       ELSE /\ result' = [result EXCEPT ![issued + 1] = "waiting"]
            /\ IF current.req = 0
               THEN StartNext(Enqueue(queue, issued + 1))
               ELSE /\ queue' = Enqueue(queue, issued + 1)
                    /\ UNCHANGED <<current, toUnit>>
    /\ UNCHANGED <<open, unit, toHost, unitVars>>

\* completeCurrent(): m_current is empty while the handler runs.  A request
\* the handler issues goes to the END of the queue and starts the queue's
\* head; otherwise the startNext() after the handler does.
CompleteCurrent(outcome) ==
    \/ /\ result' = [result EXCEPT ![current.req] = outcome]
       /\ issued' = issued
       /\ StartNext(queue)
    \/ /\ issued < MaxReq
       /\ issued' = issued + 1
       /\ result' = [result EXCEPT
                       ![current.req] = outcome,
                       ![issued + 1] = IF open THEN "waiting" ELSE "failed"]
       /\ StartNext(IF open THEN Enqueue(queue, issued + 1) ELSE queue)

\* Send the current frame again, one retry poorer.
Retransmit ==
    /\ current' = [current EXCEPT !.left = @ - 1]
    /\ toUnit' = Transmitted([current EXCEPT !.left = @ - 1])
    /\ UNCHANGED <<queue, issued, result>>

\* onTimeout(): fires whatever is still on its way.
Timeout ==
    /\ current.req # 0
    /\ IF RetryAllowed(current.left) THEN Retransmit ELSE CompleteCurrent("failed")
    /\ UNCHANGED <<open, unit, toHost, unitVars>>

-----------------------------------------------------------------------------
(* Replies *)

\* (Seeded bug: replyEchoMatches() accepting any reply of a plausible length.)
AcceptsAnyEcho(r) ==
    /\ current.req # 0
    /\ r.verdict # "badline"
    /\ Answers(r.req, r.verdict, FALSE, current.req)

\* handlePacket()'s decision whether reply r is for the current request.
Accepts(r) ==
    /\ current.req # 0
    /\ r.verdict # "badline"
    /\ Answers(r.req, r.verdict, r.echo, current.req)

\* The answer to the request in flight.
ReceiveAnswer ==
    /\ open /\ toHost # <<>>
    /\ Accepts(Head(toHost))
    /\ toHost' = Tail(toHost)
    /\ CompleteCurrent(Head(toHost).verdict)
    /\ UNCHANGED <<open, unit, unitVars>>

\* A NACK of a frame the unit could not read: matched by its code alone.
ReceiveBadLine ==
    /\ open /\ toHost # <<>>
    /\ current.req # 0
    /\ Head(toHost).verdict = "badline"
    /\ toHost' = Tail(toHost)
    /\ IF RetryAllowed(current.left) THEN Retransmit ELSE CompleteCurrent("garbled")
    /\ UNCHANGED <<open, unit, unitVars>>

\* A reply nothing is waiting for, or a duplicate of an earlier one.
ReceiveStale ==
    /\ open /\ toHost # <<>>
    /\ ~Accepts(Head(toHost))
    /\ current.req # 0 => Head(toHost).verdict # "badline"
    /\ toHost' = Tail(toHost)
    /\ UNCHANGED <<hostVars, toUnit, unitVars>>

-----------------------------------------------------------------------------
(* Opening and closing the port *)

\* The order in which cancelAll() fails what is outstanding.
Outstanding == IF current.req = 0 THEN queue ELSE <<current.req>> \o queue

\* The requests outstanding.
OutstandingSet == {Outstanding[i] : i \in DOMAIN Outstanding}

\* close() when no handler answers its cancellation with a new request.
CloseQuietly ==
    /\ open
    /\ open' = FALSE
    /\ current' = NoCurrent
    /\ queue' = <<>>
    /\ result' = [n \in Request |->
                    IF n \in OutstandingSet THEN "failed" ELSE result[n]]
    /\ UNCHANGED <<unit, issued, toUnit, toHost, unitVars>>

\* close() when the handler of the k-th outstanding request is the first to
\* issue a new one.  The port is still open and m_current empty, so request()
\* takes the head of what is left (the new request itself if nothing is), and
\* cancelAll() goes on to fail the others only.  What later handlers issue is
\* queued behind it and failed in the same loop.
CloseReentered ==
    /\ open
    /\ issued < MaxReq
    /\ \E k \in DOMAIN Outstanding :
         LET kept == IF k < Len(Outstanding) THEN Outstanding[k + 1] ELSE issued + 1
         IN  /\ current' = Fresh(kept)
             /\ toUnit' = Transmitted(Fresh(kept))
             /\ result' = [n \in Request |->
                             IF n = kept THEN "waiting"
                             ELSE IF n \in OutstandingSet \union {issued + 1}
                                  THEN "failed" ELSE result[n]]
    /\ issued' = issued + 1
    /\ open' = FALSE
    /\ queue' = <<>>
    /\ UNCHANGED <<unit, toHost, unitVars>>

\* The user disconnects, or the unit is unplugged (ResourceError).
Close == CloseQuietly \/ CloseReentered

\* open() on a closed port.  It does not look at m_current.  Bytes on the
\* line survive only if the port is the same unit's.
Open ==
    /\ ~open
    /\ open' = TRUE
    /\ unit' \in Unit
    /\ IF unit' = unit
       THEN UNCHANGED <<toUnit, toHost>>
       ELSE toUnit' = <<>> /\ toHost' = <<>>
    /\ UNCHANGED <<current, queue, issued, result, unitVars>>

-----------------------------------------------------------------------------
(* The unit and the line *)

\* The unit acts on the next intact frame and reports its verdict.
UnitActs ==
    /\ toUnit # <<>>
    /\ toUnit' = Tail(toUnit)
    /\ \E v \in Verdict :
         /\ verdicts' = verdicts \union {<<Head(toUnit).req, unit, v>>}
         /\ toHost' = Append(toHost, [verdict |-> v, req |-> Head(toUnit).req,
                                      echo |-> unit \in EchoUnits])
    /\ tries' = [tries EXCEPT ![Head(toUnit).req] = @ + 1]
    /\ UNCHANGED hostVars

\* A frame reaches the unit unreadable: ERR_INVALID_CRC or ERR_INVALID_LEN.
UnitRejects ==
    /\ toUnit # <<>>
    /\ toUnit' = Tail(toUnit)
    /\ toHost' = Append(toHost, [verdict |-> "badline", req |-> 0, echo |-> FALSE])
    /\ UNCHANGED <<hostVars, unitVars>>

LoseFrame ==
    /\ toUnit # <<>>
    /\ toUnit' = Tail(toUnit)
    /\ UNCHANGED <<hostVars, toHost, unitVars>>

LoseReply ==
    /\ toHost # <<>>
    /\ toHost' = Tail(toHost)
    /\ UNCHANGED <<hostVars, toUnit, unitVars>>

Next ==
    \/ IssueRequest \/ Timeout
    \/ ReceiveAnswer \/ ReceiveBadLine \/ ReceiveStale
    \/ Close \/ Open
    \/ UnitActs \/ UnitRejects \/ LoseFrame \/ LoseReply

Spec == Init /\ [][Next]_vars

\* The Qt timer of the request in flight fires unless an answer stops it.
\* Nothing else is owed: not the user, not the line, not the unit.
FairSpec == Spec /\ WF_vars(Timeout)

-----------------------------------------------------------------------------
(* Properties *)

\* The link implements its contract: a request reported ok was judged so by a
\* unit on this very frame (never the late duplicate of another frame's ACK),
\* no unit acts out of order or beyond the budget, answers come in order.
ImplementsContract == Contract!Spec

\* Retransmission never reorders: once a unit has acted on a request it acts
\* on no earlier one, so a late CLEAR_CONFIG cannot erase what was sent after
\* it -- not even across the requests a cancellation left in m_current.
NoLateDuplicate ==
    [][\A m, n \in Request :
         m < n /\ tries[n] > 0 => tries'[m] = tries[m]]_vars

\* Timeouts and bad-line NACKs share one budget: a unit acts on a request at
\* most once more than its retries, so one sent with none (ACCESS_RESPONSE)
\* is acted on at most once however the line behaves.
ActsWithinBudget == \A n \in Request : tries[n] <= Budget[n] + 1

\* No handler is left hanging: every request is eventually answered, through
\* losses, spurious timeouts, closing and reopening.
EveryRequestAnswered ==
    \A n \in Request : result[n] = "waiting" ~> result[n] # "waiting"

\* device_link.h: "cancelAll(); // fails all queued/in-flight requests" -- so
\* nothing outlives close().  It does: see CloseReentered.
CloseFailsEverything ==
    ~open => \A n \in Request : result[n] # "waiting"
=============================================================================
