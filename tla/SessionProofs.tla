---------------------------- MODULE SessionProofs ----------------------------
(***************************************************************************)
(* The invariants of the main window's commands on a unit, for all units   *)
(* and documents and any depth of nested commands.                         *)
(*                                                                         *)
(* Every flow has a plan ahead: steps its command can have, each followed  *)
(* by what the code puts behind it, to a last one that ends it.  So the    *)
(* step a flow is at says what it has been through.  The commands run one  *)
(* at a time as long as no Get is refused while another runs (crossed);    *)
(* until then the one flow may rely on what it proved and confirmed, as    *)
(* long as the link is open, for only a restart takes a proof back         *)
(* (Unsure) and only a closed link lets another unit onto the port.        *)
(***************************************************************************)
EXTENDS Session, SequenceTheorems, FiniteSetTheorems, TLAPS

-----------------------------------------------------------------------------
(* The invariant *)

Of == UserCommands \union Handlers
States == {"runs", "waits", "ok", "wrong", "unfit", "refused", "lost"}
Plain == {"connect", "hardware", "report", "usbMode", "show", "monitor", "identity", "ask",
          "capacity", "start", "gate", "confirm", "status", "board", "mapped", "fit",
          "marks", "uid", "bind", "reset", "close", "reopen", "told", "finished"}
Proving == {"state", "again", "key", "prompt", "prove"}
AnyStep == {<<kind>> : kind \in Plain} \union {<<kind, fn>> : kind \in Proving, fn \in Functions}
Keys == {"none"} \union {u.key : u \in Units} \union {d.key : d \in Documents}
AnyDocument == [marked : BOOLEAN, key : Keys]
AnyFlow == [of : Of, todo : Seq(AnyStep), state : States, unit : Units \union {NoUnit},
            key : Keys, sends : AnyDocument, sure : BOOLEAN]
AnyTransfer == [kind : {"none", "send", "get"}, again : BOOLEAN, cancelled : BOOLEAN,
                sends : AnyDocument, resets : BOOLEAN, sure : BOOLEAN]

\* Every variable has its type.
TypeOK ==
    /\ plugged \in Units \union {NoUnit} /\ proved \subseteq Functions
    /\ linkOpen \in BOOLEAN /\ hardware \in Units \union {NoUnit}
    /\ hasDocument \in BOOLEAN /\ doc \in AnyDocument /\ enabled \in BOOLEAN
    /\ flows \in Seq(AnyFlow) /\ transfers \in [Slots -> AnyTransfer]
    /\ queue \in Seq(Nat \union {-1, -2}) /\ inFlight \in BOOLEAN
    /\ getInProgress \in BOOLEAN /\ monitorAfterGet \in BOOLEAN
    /\ crossed \in BOOLEAN /\ unread \in BOOLEAN /\ surprised \in BOOLEAN

\* What a command, or a transfer it starts, needs proved.
Needs(of) == IF of \in {"send", "reset"} THEN "send" ELSE "get"

\* The kinds of steps a flow can have.
Identifying == {"connect", "hardware", "report", "usbMode", "show"}
Gets == {"get", "monitor"}
HasKind(of, kind) ==
    \/ of # "unlock" /\ kind \in Identifying
    \/ of \notin {"connect", "sent", "got"} /\ kind \in Proving
    \/ of \in Gets /\ kind = "identity"
    \/ of \in Gets \union {"unlock"} /\ kind \in {"ask", "capacity", "start"}
    \/ of \in {"monitor", "got"} /\ kind = "monitor"
    \/ of = "send" /\ kind \in {"gate", "confirm", "status", "board", "mapped", "fit",
                                "marks", "uid", "ask", "bind", "start"}
    \/ of = "reset" /\ kind \in {"ask", "reset", "close", "reopen"}
    \/ of = "sent" /\ kind \in {"close", "reopen"}
    \/ of = "got" /\ kind \in {"told", "finished"}
Belongs(of, s) ==
    /\ HasKind(of, s[1])
    /\ s[1] \in Proving => s[2] = Needs(of) \/ (of = "unlock" /\ s[2] = "comms")
    /\ s[1] = "key" => s[2] = "comms"

\* Step b may come right behind step a.
Follows(of, a, b) ==
    /\ a[1] = "hardware" => b[1] = "report"
    /\ a[1] = "report" => b[1] = "usbMode"
    /\ a[1] = "usbMode" => b[1] = "show"
    /\ a[1] \in {"connect", "show"} => b[1] \in {"state", "monitor"}
    /\ a[1] \in Proving /\ of = "send" => b[1] = "gate"
    /\ a[1] \in Proving /\ of = "reset" => b[1] = "ask"
    /\ a[1] \in Proving /\ of \in Gets => b[1] = "identity"
    /\ a[1] \in Proving /\ of = "unlock" /\ a[2] = "get" => b[1] = "state" /\ b[2] = "comms"
    /\ a[1] \in Proving /\ of = "unlock" /\ a[2] = "comms" => b[1] = "capacity"
    /\ a[1] = "identity" => b[1] = "ask"
    /\ a[1] = "ask" /\ of = "send" => b[1] \in {"uid", "bind"}
    /\ a[1] = "ask" /\ of = "reset" => b[1] = "reset"
    /\ a[1] = "ask" /\ of \in Gets => b[1] = "capacity"
    /\ a[1] = "ask" /\ of = "unlock" => b[1] = "state" /\ b[2] = "get"
    /\ a[1] \in {"capacity", "bind"} => b[1] = "start"
    /\ a[1] \in {"gate", "confirm"} => b[1] = "status"
    /\ a[1] = "status" => b[1] = "board"
    /\ a[1] = "board" => b[1] = "mapped"
    /\ a[1] = "mapped" => b[1] = "fit"
    /\ a[1] = "fit" => b[1] = "marks"
    /\ a[1] = "marks" => b[1] = "uid"
    /\ a[1] = "uid" => b[1] = "ask"
    /\ a[1] = "close" => b[1] = "reopen"
    /\ a[1] = "told" => b[1] = "finished"
    /\ a[1] \notin {"start", "monitor", "reset", "reopen", "finished"}

\* The last step of a flow.
Ends(of, s) ==
    \/ of = "connect" /\ s[1] \in {"connect", "show"}
    \/ of = "monitor" /\ s[1] \in {"monitor", "start"}
    \/ of = "reset" /\ s[1] \in {"reset", "reopen", "show"}
    \/ of = "sent" /\ s[1] \in {"reopen", "show"}
    \/ of = "got" /\ s[1] \in {"finished", "monitor"}
    \/ of \in {"get", "send", "unlock"} /\ s[1] = "start"

\* What a flow has left to do, and a piece of it.
IsPiece(of, p) ==
    /\ p \in Seq(AnyStep) /\ Len(p) > 0
    /\ \A k \in 1 .. Len(p) : Belongs(of, p[k])
    /\ \A k \in 1 .. Len(p) - 1 : Follows(of, p[k], p[k + 1])
IsPlan(of, todo) == IsPiece(of, todo) /\ Ends(of, todo[Len(todo)])
Planned(f) == IsPlan(f.of, f.todo) /\ (f.state # "runs" => Head(f.todo)[1] \in Request)
PlanInv == \A i \in 1 .. Len(flows) : Planned(flows[i])

\* Whoever is in the queue waits for an answer, and a flow for one alone.
Waits(q, fs) ==
    /\ \A k \in 1 .. Len(q) :
          q[k] \in {-1, -2} \/ (q[k] \in 1 .. Len(fs) /\ fs[q[k]].state = "waits")
    /\ \A j, k \in 1 .. Len(q) : q[j] = q[k] /\ q[j] > 0 => j = k
QueueInv == Waits(queue, flows) /\ (inFlight => queue # <<>>)

\* No unit is exchanged behind an open port.
PortInv == linkOpen => plugged # NoUnit

\* Whoever set m_monitorAfterGet still has to start its Get, or try it again.
Minds(f) == f.of = "unlock" \/ (f.of = "monitor" /\ f.todo[Len(f.todo)][1] = "start")
MonitorInv ==
    /\ monitorAfterGet =>
          unread \/ getInProgress \/ \E i \in 1 .. Len(flows) : Minds(flows[i])
    /\ \A i \in 1 .. Len(flows) :
          flows[i].of = "got" /\ flows[i].todo[Len(flows[i].todo)][1] = "monitor" => hasDocument

\* One command at a time, and at most one transfer: one that was cancelled, whose
\* last request is answered before anything the command has asked.
Fresh == Identifying \union {"monitor", "state"}
Asking == flows # <<>> /\ flows[1].state = "waits"
LineInv ==
    /\ Len(flows) <= 1
    /\ \A s, t \in Alive : s = t
    /\ Alive # {} => linkOpen
    /\ Alive # {} /\ flows # <<>> =>
          /\ flows[1].of \notin Handlers /\ flows[1].state \in {"runs", "waits"}
          /\ Head(flows[1].todo)[1] \in Fresh
          /\ \A s \in Alive : transfers[s].cancelled
    /\ Asking => linkOpen /\ ~enabled
    /\ Alive = {} => queue = IF Asking THEN <<1>> ELSE <<>>
    /\ \A s \in Alive : queue = IF Asking THEN <<-s, 1>> ELSE <<-s>>
    /\ inFlight <=> queue # <<>>

\* The document d was confirmed to the unit u that is connected.
Gated(f, link, d, u) ==
    /\ f.state = "waits" /\ Head(f.todo)[1] = "confirm" => f.key = d.key
    /\ link /\ Head(f.todo)[1] = "confirm" /\ f.state = "ok" => u.key = d.key
    /\ link /\ Head(f.todo)[1] \in {"status", "board", "mapped"} /\ d.marked => u.key = d.key
    /\ link /\ f.of = "send" /\ Head(f.todo)[1] \in {"fit", "marks", "uid", "ask", "bind", "start"}
            /\ f.sends.marked
          => u.key = f.sends.key

\* Behind its proof a flow is allowed what it needs by u, to which p was proved.
Beyond(f) ==
    \/ Head(f.todo)[1] \in {"identity", "capacity", "start", "gate", "confirm", "status",
                            "board", "mapped", "fit", "marks", "uid", "bind"}
    \/ Head(f.todo)[1] = "ask" /\ f.of # "unlock"
    \/ Head(f.todo)[1] = "reset" /\ f.state \in {"runs", "waits"}
    \/ Head(f.todo)[1] \in Proving /\ Head(f.todo)[2] = "comms"
Trusted(f, link, u, p) ==
    link =>
        /\ f.state = "ok" /\ Head(f.todo)[1] = "state" => f.unit = u
        /\ f.sure /\ f.state = "ok" /\ Head(f.todo)[1] = "prove" => Head(f.todo)[2] \in p
        /\ f.sure /\ Beyond(f) => Needs(f.of) \notin u.guards \ p

TransferInv ==
    \A s \in Alive :
        /\ transfers[s].kind = "send" /\ transfers[s].sends.marked
              => plugged.key = transfers[s].sends.key
        /\ transfers[s].sure => Allowed(transfers[s].kind)

SoleInv ==
    ~crossed =>
        /\ LineInv /\ TransferInv /\ ~surprised
        /\ flows # <<>> => /\ Gated(flows[1], linkOpen, doc, plugged)
                         /\ Trusted(flows[1], linkOpen, plugged, proved)

SessionInv == TypeOK /\ PlanInv /\ QueueInv /\ PortInv /\ MonitorInv /\ SoleInv

-----------------------------------------------------------------------------
(* Plans *)

\* A step is its kind, or its kind and the function it proves.
LEMMA StepFacts ==
    ASSUME NEW s \in AnyStep
    PROVE  \/ s[1] \in Plain /\ s = <<s[1]>> /\ Len(s) = 1
           \/ s[1] \in Proving /\ s[2] \in Functions /\ s = <<s[1], s[2]>> /\ Len(s) = 2
  <1>1. CASE s \in {<<kind>> : kind \in Plain}
    <2>1. PICK kind \in Plain : s = <<kind>> BY <1>1
    <2> QED BY <2>1
  <1>2. CASE s \in {<<kind, fn>> : kind \in Proving, fn \in Functions}
    <2>1. PICK kind \in Proving, fn \in Functions : s = <<kind, fn>> BY <1>2
    <2> QED BY <2>1
  <1> QED BY <1>1, <1>2 DEF AnyStep

\* A plan is not empty, and its first step is one its flow can have.
LEMMA PlanFacts ==
    ASSUME NEW of, NEW todo, IsPlan(of, todo)
    PROVE  /\ todo \in Seq(AnyStep) /\ todo # <<>> /\ Len(todo) \in Nat \ {0}
           /\ Head(todo) = todo[1] /\ Head(todo) \in AnyStep /\ Belongs(of, Head(todo))
           /\ Tail(todo) \in Seq(AnyStep)
  BY DEF IsPlan, IsPiece

\* Without its first step a plan is still one.
LEMMA PlanTail ==
    ASSUME NEW of, NEW todo, IsPlan(of, todo), Tail(todo) # <<>>
    PROVE  /\ IsPlan(of, Tail(todo)) /\ Follows(of, Head(todo), Head(Tail(todo)))
           /\ Tail(todo)[Len(Tail(todo))] = todo[Len(todo)]
  <1> DEFINE t == Tail(todo)
  <1>1. todo \in Seq(AnyStep) /\ Len(todo) \in Nat /\ Len(todo) > 0 BY DEF IsPlan, IsPiece
  <1>2. /\ t \in Seq(AnyStep) /\ Len(t) = Len(todo) - 1
        /\ \A k \in 1 .. Len(t) : t[k] = todo[k + 1]
    BY <1>1
  <1>3. Len(t) > 0 BY <1>2
  <1>4. /\ \A k \in 1 .. Len(todo) : Belongs(of, todo[k])
        /\ \A k \in 1 .. Len(todo) - 1 : Follows(of, todo[k], todo[k + 1])
        /\ Ends(of, todo[Len(todo)])
    BY DEF IsPlan, IsPiece
  <1> HIDE DEF t
  <1>5. \A k \in 1 .. Len(t) : Belongs(of, t[k])
    <2> TAKE k \in 1 .. Len(t)
    <2>1. k + 1 \in 1 .. Len(todo) BY <1>1, <1>2
    <2> QED BY <1>2, <1>4, <2>1
  <1>6. \A k \in 1 .. Len(t) - 1 : Follows(of, t[k], t[k + 1])
    <2> TAKE k \in 1 .. Len(t) - 1
    <2>1. k + 1 \in 1 .. Len(todo) - 1 /\ k \in 1 .. Len(t) /\ k + 1 \in 1 .. Len(t)
      BY <1>1, <1>2
    <2>2. Follows(of, todo[k + 1], todo[(k + 1) + 1]) BY <1>4, <2>1
    <2>3. t[k] = todo[k + 1] /\ t[k + 1] = todo[(k + 1) + 1] BY <1>2, <2>1
    <2> QED BY <2>2, <2>3
  <1>7. Len(t) \in 1 .. Len(t) /\ t[Len(t)] = todo[Len(todo)] BY <1>1, <1>2, <1>3
  <1>8. IsPlan(of, t) BY <1>2, <1>3, <1>4, <1>5, <1>6, <1>7 DEF IsPlan, IsPiece
  <1>9. Follows(of, Head(todo), Head(t))
    <2>1. 1 \in 1 .. Len(todo) - 1 /\ 1 \in 1 .. Len(t) BY <1>1, <1>2, <1>3
    <2>2. Follows(of, todo[1], todo[1 + 1]) BY <1>4, <2>1
    <2>3. Head(todo) = todo[1] /\ Head(t) = t[1] /\ t[1] = todo[1 + 1]
      BY <1>1, <1>2, <2>1
    <2> QED BY <2>2, <2>3
  <1> QED BY <1>7, <1>8, <1>9 DEF t

\* A plan of one step ends its flow.
LEMMA PlanLast ==
    ASSUME NEW of, NEW todo, IsPlan(of, todo), Tail(todo) = <<>>
    PROVE  Len(todo) = 1 /\ Head(todo) = todo[Len(todo)] /\ Ends(of, Head(todo))
  <1>1. todo \in Seq(AnyStep) /\ Len(todo) \in Nat /\ Len(todo) > 0 BY DEF IsPlan, IsPiece
  <1>2. Len(Tail(todo)) = Len(todo) - 1 BY <1>1
  <1>3. Len(Tail(todo)) = 0
    <2>1. Len(<<>>) = 0 OBVIOUS
    <2> QED BY <2>1
  <1>4. Len(todo) = 1 BY <1>1, <1>2, <1>3
  <1> QED BY <1>1, <1>4 DEF IsPlan, IsPiece

\* Two pieces joined.
Links(of, p, q) == Follows(of, p[Len(p)], Head(q))
Joins(of, p, q, t) == IsPiece(of, t) /\ Head(t) = Head(p) /\ t[Len(t)] = q[Len(q)]

\* A piece behind another is one.
LEMMA PieceJoin ==
    ASSUME NEW of, NEW p, NEW q, IsPiece(of, p), IsPiece(of, q), Links(of, p, q)
    PROVE  Joins(of, p, q, p \o q)
  <1> DEFINE t == p \o q
  <1>1. /\ p \in Seq(AnyStep) /\ Len(p) \in Nat /\ Len(p) > 0
        /\ q \in Seq(AnyStep) /\ Len(q) \in Nat /\ Len(q) > 0
    BY DEF IsPiece
  <1>2. /\ t \in Seq(AnyStep) /\ Len(t) = Len(p) + Len(q)
        /\ \A k \in 1 .. Len(p) : t[k] = p[k]
        /\ \A k \in 1 .. Len(q) : t[k + Len(p)] = q[k]
    BY <1>1
  <1>3. /\ \A k \in 1 .. Len(p) : Belongs(of, p[k])
        /\ \A k \in 1 .. Len(p) - 1 : Follows(of, p[k], p[k + 1])
        /\ \A k \in 1 .. Len(q) : Belongs(of, q[k])
        /\ \A k \in 1 .. Len(q) - 1 : Follows(of, q[k], q[k + 1])
    BY DEF IsPiece
  <1> HIDE DEF t
  <1>4. \A k \in 1 .. Len(t) : Belongs(of, t[k])
    <2> TAKE k \in 1 .. Len(t)
    <2>1. CASE k <= Len(p)
      <3>1. k \in 1 .. Len(p) BY <1>1, <1>2, <2>1
      <3> QED BY <1>2, <1>3, <3>1
    <2>2. CASE ~ (k <= Len(p))
      <3>1. k - Len(p) \in 1 .. Len(q) /\ (k - Len(p)) + Len(p) = k BY <1>1, <1>2, <2>2
      <3>2. t[(k - Len(p)) + Len(p)] = q[k - Len(p)] BY <1>2, <3>1
      <3>3. t[k] = q[k - Len(p)] BY <3>1, <3>2
      <3> QED BY <1>3, <3>1, <3>3
    <2> QED BY <2>1, <2>2
  <1>5. Head(q) = q[1] /\ Head(p) = p[1] BY <1>1
  <1>6. \A k \in 1 .. Len(t) - 1 : Follows(of, t[k], t[k + 1])
    <2> TAKE k \in 1 .. Len(t) - 1
    <2>1. CASE k < Len(p)
      <3>1. k \in 1 .. Len(p) /\ k + 1 \in 1 .. Len(p) /\ k \in 1 .. Len(p) - 1
        BY <1>1, <1>2, <2>1
      <3>2. t[k] = p[k] /\ t[k + 1] = p[k + 1] BY <1>2, <3>1
      <3> QED BY <1>3, <3>1, <3>2
    <2>2. CASE k = Len(p)
      <3>1. k \in 1 .. Len(p) /\ 1 \in 1 .. Len(q) /\ k + 1 = 1 + Len(p)
        BY <1>1, <1>2, <2>2
      <3>2. t[k] = p[k] /\ t[1 + Len(p)] = q[1] BY <1>2, <3>1
      <3>3. t[k + 1] = q[1] BY <3>1, <3>2
      <3> QED BY <1>5, <2>2, <3>2, <3>3 DEF Links
    <2>3. CASE k > Len(p)
      <3> DEFINE j == k - Len(p)
      <3>1. /\ j \in 1 .. Len(q) - 1 /\ j \in 1 .. Len(q) /\ j + 1 \in 1 .. Len(q)
            /\ k = j + Len(p) /\ k + 1 = (j + 1) + Len(p)
        BY <1>1, <1>2, <2>3
      <3> HIDE DEF j
      <3>2. t[j + Len(p)] = q[j] /\ t[(j + 1) + Len(p)] = q[j + 1] BY <1>2, <3>1
      <3>3. t[k] = q[j] /\ t[k + 1] = q[j + 1] BY <3>1, <3>2
      <3>4. Follows(of, q[j], q[j + 1]) BY <1>3, <3>1
      <3> QED BY <3>3, <3>4
    <2> QED BY <1>1, <1>2, <2>1, <2>2, <2>3
  <1>7. Len(t) > 0 /\ t[Len(t)] = q[Len(q)]
    <2>1. Len(q) \in 1 .. Len(q) /\ Len(t) = Len(q) + Len(p) BY <1>1, <1>2
    <2>2. t[Len(q) + Len(p)] = q[Len(q)] BY <1>2, <2>1
    <2>3. t[Len(t)] = q[Len(q)] BY <2>1, <2>2
    <2> QED BY <1>1, <1>2, <2>3
  <1>8. Head(t) = Head(p)
    <2>1. 1 \in 1 .. Len(p) /\ Head(t) = t[1] BY <1>1, <1>2, <1>7
    <2> QED BY <1>2, <1>5, <2>1
  <1>9. IsPiece(of, t) BY <1>2, <1>4, <1>6, <1>7 DEF IsPiece
  <1> QED BY <1>7, <1>8, <1>9 DEF t, Joins

\* A step alone is a piece.
LEMMA PieceOfOne ==
    ASSUME NEW of, NEW x \in AnyStep, Belongs(of, x)
    PROVE  IsPiece(of, <<x>>) /\ Head(<<x>>) = x /\ <<x>>[Len(<<x>>)] = x
  BY DEF IsPiece

\* A step put before a plan.
LEMMA PlanPut ==
    ASSUME NEW of, NEW x, NEW p, IsPlan(of, p), x \in AnyStep, Belongs(of, x),
           Follows(of, x, Head(p))
    PROVE  /\ IsPlan(of, <<x>> \o p) /\ Head(<<x>> \o p) = x
           /\ (<<x>> \o p)[Len(<<x>> \o p)] = p[Len(p)]
  <1> DEFINE t == <<x>>
  <1>1. IsPiece(of, t) /\ Head(t) = x /\ t[Len(t)] = x BY PieceOfOne
  <1> HIDE DEF t
  <1>2. IsPiece(of, p) /\ Ends(of, p[Len(p)]) BY DEF IsPlan
  <1>3. Links(of, t, p) BY <1>1 DEF Links
  <1>4. Joins(of, t, p, t \o p) BY <1>1, <1>2, <1>3, PieceJoin
  <1> QED BY <1>1, <1>2, <1>4 DEF IsPlan, t, Joins

\* Every step is one a flow can have.
LEMMA ListsAreSteps ==
    /\ \A kind \in Plain : <<kind>> \in AnyStep
    /\ \A kind \in Proving, fn \in Functions : <<kind, fn>> \in AnyStep
  BY DEF AnyStep

\* Connecting begins every plan but an unlock's.
LEMMA ConnectPiece ==
    ASSUME NEW of \in Of \ {"unlock"}
    PROVE  /\ IsPiece(of, Connecting) /\ Head(Connecting)[1] = "connect"
           /\ Connecting[Len(Connecting)][1] = "connect"
  <1> DEFINE x == <<"connect">>
  <1>1. x \in AnyStep /\ x[1] = "connect" BY ListsAreSteps DEF Plain
  <1>2. Belongs(of, x) BY <1>1 DEF Belongs, HasKind, Identifying, Proving
  <1>3. Connecting = <<x>> BY DEF Connecting
  <1> HIDE DEF x
  <1> QED BY <1>1, <1>2, <1>3, PieceOfOne

\* Proving a password starts with the unit's state.
LEMMA AccessPiece ==
    ASSUME NEW of \in Of, NEW fn \in Functions,
           of \in {"get", "monitor", "send", "reset", "unlock"},
           fn = Needs(of) \/ (of = "unlock" /\ fn = "comms")
    PROVE  /\ IsPiece(of, Access(fn)) /\ Head(Access(fn)) = <<"state", fn>>
           /\ Access(fn)[Len(Access(fn))] = <<"state", fn>>
  <1> DEFINE x == <<"state", fn>>
  <1>1. x \in AnyStep /\ x[1] = "state" /\ x[2] = fn BY ListsAreSteps DEF Proving
  <1>2. Belongs(of, x) BY <1>1 DEF Belongs, HasKind, Proving, Identifying
  <1>3. Access(fn) = <<x>> BY DEF Access
  <1> HIDE DEF x
  <1>4. IsPiece(of, <<x>>) /\ Head(<<x>>) = x /\ <<x>>[Len(<<x>>)] = x
    BY <1>1, <1>2, PieceOfOne
  <1> QED BY <1>3, <1>4 DEF x

\* connect, state: how the commands on a connected unit begin.
LEMMA BeginPiece ==
    ASSUME NEW of \in {"get", "monitor", "send", "reset"}
    PROVE  LET p == Connecting \o Access(Needs(of))
           IN  /\ IsPiece(of, p) /\ Head(p)[1] = "connect"
               /\ p[Len(p)] = <<"state", Needs(of)>>
  <1> DEFINE c == Connecting  a == Access(Needs(of))
  <1>1. of \in Of /\ of # "unlock" /\ Needs(of) \in Functions
    BY DEF Of, UserCommands, Needs, Functions
  <1>2. IsPiece(of, c) /\ Head(c)[1] = "connect" /\ c[Len(c)][1] = "connect"
    BY <1>1, ConnectPiece
  <1>3. /\ IsPiece(of, a) /\ Head(a) = <<"state", Needs(of)>>
        /\ a[Len(a)] = <<"state", Needs(of)>>
    BY <1>1, AccessPiece
  <1> HIDE DEF c, a
  <1>4. Head(a)[1] = "state" BY <1>3
  <1>5. Links(of, c, a) BY <1>2, <1>4 DEF Follows, Proving, Links
  <1>6. Joins(of, c, a, c \o a) BY <1>2, <1>3, <1>5, PieceJoin
  <1> QED BY <1>2, <1>3, <1>6 DEF c, a, Joins

\* The steps of a Get are a plan, for the commands that run one.
LEMMA GetPlan ==
    ASSUME NEW of \in Gets
    PROVE  /\ IsPlan(of, GetSteps) /\ Head(GetSteps)[1] = "connect"
           /\ GetSteps[Len(GetSteps)][1] = "start"
  <1> DEFINE b == Connecting \o Access("get")
             r == <<<<"identity">>, <<"ask">>, <<"capacity">>, <<"start">>>>
  <1>1. Needs(of) = "get" /\ of \in {"get", "monitor"} BY DEF Gets, Needs
  <1>2. IsPiece(of, b) /\ Head(b)[1] = "connect" /\ b[Len(b)] = <<"state", "get">>
    <2> HIDE DEF b
    <2> QED BY <1>1, BeginPiece DEF b
  <1>3. /\ IsPiece(of, r) /\ Head(r)[1] = "identity" /\ r[Len(r)][1] = "start"
    <2>1. r \in Seq(AnyStep) BY ListsAreSteps DEF Plain
    <2> QED BY <2>1 DEF Belongs, HasKind, Gets, Identifying, Proving, Follows, IsPiece
  <1>4. GetSteps = b \o r BY DEF GetSteps
  <1> HIDE DEF b, r
  <1>5. b[Len(b)][1] = "state" /\ b[Len(b)][2] = "get" BY <1>2
  <1>6. Links(of, b, r) BY <1>3, <1>5 DEF Follows, Gets, Proving, Links
  <1>7. Joins(of, b, r, b \o r) BY <1>2, <1>3, <1>6, PieceJoin
  <1>8. Ends(of, GetSteps[Len(GetSteps)]) BY <1>3, <1>4, <1>7 DEF Ends, Gets, Joins
  <1> QED BY <1>2, <1>3, <1>4, <1>7, <1>8 DEF IsPlan, Joins

\* The steps of a Send are a plan.
LEMMA SendPlan == IsPlan("send", SendSteps) /\ Head(SendSteps)[1] = "connect"
  <1> DEFINE of == "send"
             b == Connecting \o Access("send")
             g == Gate
             m == <<<<"status">>, <<"board">>, <<"mapped">>, <<"fit">>, <<"marks">>, <<"uid">>>>
             r == <<<<"ask">>, <<"bind">>, <<"start">>>>
  <1>1. Needs(of) = "send" /\ of \in {"get", "monitor", "send", "reset"} BY DEF Needs
  <1>2. IsPiece(of, b) /\ Head(b)[1] = "connect" /\ b[Len(b)] = <<"state", "send">>
    <2> HIDE DEF b, of
    <2> QED BY <1>1, BeginPiece DEF b
  <1> USE DEF Belongs, HasKind, Gets, Identifying, Proving, Follows, IsPiece
  <1>3. IsPiece(of, g) /\ Head(g)[1] = "gate" /\ g[Len(g)][1] = "gate"
    <2>1. g \in Seq(AnyStep) BY ListsAreSteps DEF Plain, Gate
    <2> QED BY <2>1 DEF Gate
  <1>4. IsPiece(of, m) /\ Head(m)[1] = "status" /\ m[Len(m)][1] = "uid"
    <2>1. m \in Seq(AnyStep) BY ListsAreSteps DEF Plain
    <2> QED BY <2>1
  <1>5. IsPiece(of, r) /\ Head(r)[1] = "ask" /\ r[Len(r)][1] = "start"
    <2>1. r \in Seq(AnyStep) BY ListsAreSteps DEF Plain
    <2> QED BY <2>1
  <1>6. SendSteps = ((b \o g) \o m) \o r BY DEF SendSteps
  <1> HIDE DEF b, g, m, r, Belongs, HasKind, IsPiece
  <1>7. b[Len(b)][1] = "state" BY <1>2
  <1>8. Links(of, b, g) BY <1>3, <1>7 DEF Links
  <1> DEFINE bg == b \o g
  <1>9j. Joins(of, b, g, b \o g) BY <1>2, <1>3, <1>8, PieceJoin
  <1>9. IsPiece(of, bg) /\ Head(bg) = Head(b) /\ bg[Len(bg)] = g[Len(g)]
    BY <1>9j DEF Joins, bg
  <1> HIDE DEF bg
  <1>10. Links(of, bg, m) BY <1>3, <1>4, <1>9 DEF Links
  <1> DEFINE bm == bg \o m
  <1>11j. Joins(of, bg, m, bg \o m) BY <1>4, <1>9, <1>10, PieceJoin
  <1>11. IsPiece(of, bm) /\ Head(bm) = Head(bg) /\ bm[Len(bm)] = m[Len(m)]
    BY <1>11j DEF Joins, bm
  <1> HIDE DEF bm
  <1>12. Links(of, bm, r) BY <1>4, <1>5, <1>11 DEF Links
  <1> DEFINE br == bm \o r
  <1>13j. Joins(of, bm, r, bm \o r) BY <1>5, <1>11, <1>12, PieceJoin
  <1>13. IsPiece(of, br) /\ Head(br) = Head(bm) /\ br[Len(br)] = r[Len(r)]
    BY <1>13j DEF Joins, br
  <1> HIDE DEF br
  <1>14. SendSteps = br BY <1>6 DEF br, bm, bg
  <1>15. Ends(of, br[Len(br)]) BY <1>5, <1>13 DEF Ends
  <1> QED BY <1>2, <1>9, <1>11, <1>13, <1>14, <1>15 DEF IsPlan

\* The steps of a reset are a plan.
LEMMA ResetPlan == IsPlan("reset", ResetSteps) /\ Head(ResetSteps)[1] = "connect"
  <1> DEFINE of == "reset"
             b == Connecting \o Access("send")
             r == <<<<"ask">>, <<"reset">>>>
  <1>1. Needs(of) = "send" /\ of \in {"get", "monitor", "send", "reset"} BY DEF Needs
  <1>2. IsPiece(of, b) /\ Head(b)[1] = "connect" /\ b[Len(b)] = <<"state", "send">>
    <2> HIDE DEF b, of
    <2> QED BY <1>1, BeginPiece DEF b
  <1>3. IsPiece(of, r) /\ Head(r)[1] = "ask" /\ r[Len(r)][1] = "reset"
    <2>1. r \in Seq(AnyStep) BY ListsAreSteps DEF Plain
    <2> QED BY <2>1 DEF Belongs, HasKind, Gets, Identifying, Proving, Follows, IsPiece
  <1>4. ResetSteps = b \o r BY DEF ResetSteps
  <1> HIDE DEF b, r
  <1>5. b[Len(b)][1] = "state" BY <1>2
  <1>6. Links(of, b, r) BY <1>3, <1>5 DEF Follows, Gets, Proving, Links
  <1>7. Joins(of, b, r, b \o r) BY <1>2, <1>3, <1>6, PieceJoin
  <1>8. Ends(of, ResetSteps[Len(ResetSteps)]) BY <1>3, <1>4, <1>7 DEF Ends, Joins
  <1> QED BY <1>2, <1>4, <1>7, <1>8 DEF IsPlan, Joins

\* So are those of Monitor Channels on a document that is open.
LEMMA MonitorsPlan ==
    ASSUME NEW of \in {"monitor", "got"}
    PROVE  LET p == Connecting \o <<<<"monitor">>>>
           IN  IsPlan(of, p) /\ Head(p)[1] = "connect" /\ p[Len(p)][1] = "monitor"
  <1> DEFINE c == Connecting  x == <<"monitor">>  m == <<x>>
  <1>1. of \in Of \ {"unlock"} BY DEF Of, UserCommands, Handlers
  <1>2. IsPiece(of, c) /\ Head(c)[1] = "connect" /\ c[Len(c)][1] = "connect"
    BY <1>1, ConnectPiece
  <1>3. x \in AnyStep /\ Belongs(of, x) /\ x[1] = "monitor"
    BY ListsAreSteps DEF Plain, Belongs, HasKind, Identifying, Proving
  <1>4. Ends(of, x) BY <1>3 DEF Ends
  <1> HIDE DEF x
  <1>5. IsPiece(of, m) /\ Head(m) = x /\ m[Len(m)] = x BY <1>3, PieceOfOne
  <1> HIDE DEF c, m
  <1>6. Links(of, c, m) BY <1>2, <1>3, <1>5 DEF Follows, Proving, Links
  <1>7. Joins(of, c, m, c \o m) BY <1>2, <1>5, <1>6, PieceJoin
  <1>8. IsPlan(of, c \o m) BY <1>4, <1>5, <1>7 DEF IsPlan, Joins
  <1> QED BY <1>2, <1>3, <1>5, <1>7, <1>8 DEF c, m, x, Joins

\* Every command has a plan, and connects first.
LEMMA CommandPlans ==
    ASSUME NEW command \in UserCommands
    PROVE  IsPlan(command, Steps(command)) /\ Head(Steps(command))[1] = "connect"
  <1>1. CASE command = "connect"
    <2>1. Steps(command) = Connecting BY <1>1 DEF Steps
    <2>2. command \in Of \ {"unlock"} BY <1>1 DEF Of, UserCommands
    <2>3. Ends(command, Connecting[Len(Connecting)]) BY <1>1, <2>2, ConnectPiece DEF Ends
    <2> QED BY <2>1, <2>2, <2>3, ConnectPiece DEF IsPlan
  <1>2. CASE command = "monitor"
    <2>1. Steps(command) = Connecting \o <<<<"monitor">>>> BY <1>2 DEF Steps
    <2> QED BY <1>2, <2>1, MonitorsPlan
  <1>3. CASE command = "get"
    <2>1. Steps(command) = GetSteps BY <1>3 DEF Steps
    <2> QED BY <1>3, <2>1, GetPlan DEF Gets
  <1>4. CASE command = "send"
    <2>1. Steps(command) = SendSteps BY <1>4 DEF Steps
    <2> QED BY <1>4, <2>1, SendPlan
  <1>5. CASE command = "reset"
    <2>1. Steps(command) = ResetSteps BY <1>5 DEF Steps
    <2> QED BY <1>5, <2>1, ResetPlan
  <1> QED BY <1>1, <1>2, <1>3, <1>4, <1>5 DEF UserCommands

\* A Get that was refused asks for the password, and proves it with Protected Comms.
LEMMA UnlockPlan ==
    /\ IsPlan("unlock", UnlockSteps) /\ Head(UnlockSteps)[1] = "ask"
  <1> DEFINE of == "unlock"
             q == <<<<"ask">>>>
             g == Access("get")
             c == Access("comms")
             r == <<<<"capacity">>, <<"start">>>>
  <1>1. of \in Of /\ Needs(of) = "get" BY DEF Of, Handlers, Needs
  <1>2. /\ IsPiece(of, g) /\ Head(g) = <<"state", "get">> /\ g[Len(g)] = <<"state", "get">>
        /\ IsPiece(of, c) /\ Head(c) = <<"state", "comms">>
        /\ c[Len(c)] = <<"state", "comms">>
    BY <1>1, AccessPiece DEF Functions
  <1> USE DEF Belongs, HasKind, Gets, Identifying, Proving, Follows, IsPiece
  <1>3. IsPiece(of, q) /\ Head(q)[1] = "ask" /\ q[Len(q)][1] = "ask"
    <2>1. q \in Seq(AnyStep) BY ListsAreSteps DEF Plain
    <2> QED BY <2>1
  <1>4. IsPiece(of, r) /\ Head(r)[1] = "capacity" /\ r[Len(r)][1] = "start"
    <2>1. r \in Seq(AnyStep) BY ListsAreSteps DEF Plain
    <2> QED BY <2>1
  <1>5. UnlockSteps = ((q \o g) \o c) \o r BY DEF UnlockSteps
  <1> HIDE DEF q, g, c, r, Belongs, HasKind, IsPiece
  <1>6. /\ Head(g)[1] = "state" /\ Head(g)[2] = "get"
        /\ g[Len(g)][1] = "state" /\ g[Len(g)][2] = "get"
        /\ Head(c)[1] = "state" /\ Head(c)[2] = "comms"
        /\ c[Len(c)][1] = "state" /\ c[Len(c)][2] = "comms"
    BY <1>2
  <1>7. Links(of, q, g) BY <1>3, <1>6 DEF Links
  <1> DEFINE qg == q \o g
  <1>8j. Joins(of, q, g, q \o g) BY <1>2, <1>3, <1>7, PieceJoin
  <1>8. IsPiece(of, qg) /\ Head(qg) = Head(q) /\ qg[Len(qg)] = g[Len(g)]
    BY <1>8j DEF Joins, qg
  <1> HIDE DEF qg
  <1>9. Links(of, qg, c) BY <1>6, <1>8 DEF Links
  <1> DEFINE qc == qg \o c
  <1>10j. Joins(of, qg, c, qg \o c) BY <1>2, <1>8, <1>9, PieceJoin
  <1>10. IsPiece(of, qc) /\ Head(qc) = Head(qg) /\ qc[Len(qc)] = c[Len(c)]
    BY <1>10j DEF Joins, qc
  <1> HIDE DEF qc
  <1>11. Links(of, qc, r) BY <1>4, <1>6, <1>10 DEF Links
  <1> DEFINE qr == qc \o r
  <1>12j. Joins(of, qc, r, qc \o r) BY <1>4, <1>10, <1>11, PieceJoin
  <1>12. IsPiece(of, qr) /\ Head(qr) = Head(qc) /\ qr[Len(qr)] = r[Len(r)]
    BY <1>12j DEF Joins, qr
  <1> HIDE DEF qr
  <1>13. UnlockSteps = qr BY <1>5 DEF qr, qc, qg
  <1>14. Ends(of, qr[Len(qr)]) BY <1>4, <1>12 DEF Ends
  <1> QED BY <1>3, <1>8, <1>10, <1>12, <1>13, <1>14 DEF IsPlan

\* Behind a reset and a Send the link is closed and opened again.
LEMMA ReconnectPlan ==
    ASSUME NEW of \in {"reset", "sent"}
    PROVE  IsPlan(of, Reconnect) /\ Head(Reconnect)[1] = "close"
  <1>1. Reconnect = <<<<"close">>, <<"reopen">>>> BY DEF Reconnect
  <1>2. Reconnect \in Seq(AnyStep) BY <1>1, ListsAreSteps DEF Plain
  <1> QED BY <1>1, <1>2
    DEF Belongs, HasKind, Gets, Identifying, Proving, Needs, Follows, Ends, IsPlan, IsPiece

\* To identify the unit is a list of steps.
LEMMA ListIdentify == Identify \in Seq(AnyStep)
  <1>1. Identify = <<<<"hardware">>, <<"report">>, <<"usbMode">>, <<"show">>>> BY DEF Identify
  <1> QED BY <1>1, ListsAreSteps DEF Plain

\* To identify the unit can be all a flow has left.
LEMMA IdentifyPlan ==
    ASSUME NEW of \in {"connect", "reset", "sent"}
    PROVE  IsPlan(of, Identify) /\ Head(Identify)[1] = "hardware"
  <1>1. Identify = <<<<"hardware">>, <<"report">>, <<"usbMode">>, <<"show">>>> BY DEF Identify
  <1>2. Identify \in Seq(AnyStep) BY <1>1, ListsAreSteps DEF Plain
  <1> QED BY <1>1, <1>2
    DEF Belongs, HasKind, Gets, Identifying, Proving, Needs, Follows, Ends, IsPlan, IsPiece

\* Identifying the unit before what a flow goes on with.
LEMMA IdentifyFirst ==
    ASSUME NEW of, NEW p, IsPlan(of, p), Head(p)[1] \in {"state", "monitor"},
           of # "unlock"
    PROVE  /\ IsPlan(of, Identify \o p) /\ Head(Identify \o p)[1] = "hardware"
           /\ (Identify \o p)[Len(Identify \o p)] = p[Len(p)]
  <1> DEFINE d == Identify
  <1>1. IsPiece(of, d) /\ Head(d)[1] = "hardware" /\ d[Len(d)][1] = "show"
    <2>1. d = <<<<"hardware">>, <<"report">>, <<"usbMode">>, <<"show">>>> BY DEF Identify
    <2>2. d \in Seq(AnyStep) BY <2>1, ListsAreSteps DEF Plain
    <2> QED BY <2>1, <2>2 DEF Belongs, HasKind, Identifying, Proving, Follows, IsPiece
  <1> HIDE DEF d
  <1>2. Links(of, d, p) BY <1>1 DEF Follows, Proving, Links
  <1>3. IsPiece(of, p) /\ Ends(of, p[Len(p)]) BY DEF IsPlan
  <1>4. Joins(of, d, p, d \o p) BY <1>1, <1>2, <1>3, PieceJoin
  <1> QED BY <1>1, <1>3, <1>4 DEF IsPlan, d, Joins

\* Behind a Get the user is told.
LEMMA GotPlan ==
    LET told == <<<<"told">>, <<"finished">>>>
    IN  IsPlan("got", told) /\ Head(told)[1] = "told" /\ told[Len(told)][1] = "finished"
  <1> DEFINE told == <<<<"told">>, <<"finished">>>>
  <1>1. told \in Seq(AnyStep) BY ListsAreSteps DEF Plain
  <1> QED BY <1>1
    DEF Belongs, HasKind, Gets, Identifying, Proving, Needs, Follows, Ends, IsPlan, IsPiece

-----------------------------------------------------------------------------
(* The stack of flows *)

\* The innermost flow has todo ahead; it returned; f was called; all go on with
\* what they were at.
Turns(todo) ==
    /\ flows' \in Seq(AnyFlow) /\ Len(flows') = Len(flows)
    /\ flows'[Len(flows)].of = Top.of /\ flows'[Len(flows)].todo = todo
    /\ flows'[Len(flows)].state = "runs" /\ flows'[Len(flows)].sure = Top.sure
    /\ \A i \in 1 .. Len(flows) - 1 : flows'[i] = flows[i]
Returns ==
    /\ flows' \in Seq(AnyFlow) /\ Len(flows') = Len(flows) - 1
    /\ \A i \in 1 .. Len(flows) - 1 : flows'[i] = flows[i]
Calls(f) ==
    /\ flows' \in Seq(AnyFlow) /\ Len(flows') = Len(flows) + 1
    /\ flows'[Len(flows) + 1] = f
    /\ \A i \in 1 .. Len(flows) : flows'[i] = flows[i]
Stays ==
    /\ flows' \in Seq(AnyFlow) /\ Len(flows') = Len(flows)
    /\ \A i \in 1 .. Len(flows) :
          /\ flows'[i].of = flows[i].of /\ flows'[i].todo = flows[i].todo
          /\ flows'[i].state # "runs"
                => flows[i].state # "runs" \/ Head(flows[i].todo)[1] \in Request

\* There is an innermost flow.
LEMMA TopFacts ==
    ASSUME flows \in Seq(AnyFlow), flows # <<>>
    PROVE  /\ Len(flows) \in Nat /\ Len(flows) >= 1 /\ Len(flows) \in 1 .. Len(flows)
           /\ Top \in AnyFlow
  BY DEF Top

\* A flow that goes on has todo ahead.
LEMMA GoesOnTurns ==
    ASSUME NEW todo \in Seq(AnyStep), todo # <<>>, flows \in Seq(AnyFlow), flows # <<>>,
           GoesOn(todo)
    PROVE  Turns(todo) /\ inFlight' = inFlight /\ flows'[Len(flows)].sends = Top.sends
  <1>1. /\ flows' = [flows EXCEPT ![Len(flows)].todo = todo, ![Len(flows)].state = "runs"]
        /\ inFlight' = inFlight
    BY DEF GoesOn
  <1> DEFINE n == Len(flows)
  <1>2. n \in Nat /\ n >= 1 /\ n \in 1 .. n /\ Top \in AnyFlow BY TopFacts
  <1> DEFINE g == [Top EXCEPT !.todo = todo, !.state = "runs"]
  <1>3. flows' = [flows EXCEPT ![n] = g] BY <1>1 DEF Top
  <1>4. g \in AnyFlow BY <1>2 DEF AnyFlow, States
  <1>7. /\ g.of = Top.of /\ g.todo = todo /\ g.state = "runs" /\ g.sure = Top.sure
        /\ g.sends = Top.sends
    BY <1>2 DEF AnyFlow
  <1> HIDE DEF g
  <1>5. flows' \in Seq(AnyFlow) /\ Len(flows') = n BY <1>2, <1>3, <1>4
  <1>6. flows'[n] = g /\ \A i \in 1 .. n - 1 : flows'[i] = flows[i] BY <1>2, <1>3
  <1> QED BY <1>1, <1>5, <1>6, <1>7 DEF Turns

\* Front leaves the elements before the last.
LEMMA FrontFacts ==
    ASSUME NEW S, NEW s \in Seq(S), s # <<>>
    PROVE  /\ Front(s) \in Seq(S) /\ Len(Front(s)) = Len(s) - 1
           /\ \A i \in 1 .. Len(s) - 1 : Front(s)[i] = s[i]
  <1> DEFINE n == Len(s) - 1
  <1>1. n \in Nat /\ Len(s) \in Nat /\ n + 1 = Len(s)
    <2>1. Len(s) \in Nat /\ Len(s) # 0 OBVIOUS
    <2> QED BY <2>1
  <1>2. Front(s) = SubSeq(s, 1, n) BY DEF Front
  <1>3. \A i \in 1 .. n : i \in 1 .. Len(s) BY <1>1
  <1> HIDE DEF n
  <1>4. SubSeq(s, 1, n) = [i \in 1 .. n |-> s[(i + 1) - 1]]
    BY <1>1, SMTT(20)
  <1> QED BY <1>1, <1>2, <1>3, <1>4

\* Without the last flow one has returned.
LEMMA FrontReturns ==
    ASSUME flows \in Seq(AnyFlow), flows # <<>>, flows' = Front(flows)
    PROVE  Returns
  <1>1. /\ Front(flows) \in Seq(AnyFlow) /\ Len(Front(flows)) = Len(flows) - 1
        /\ \A i \in 1 .. Len(flows) - 1 : Front(flows)[i] = flows[i]
    BY FrontFacts
  <1> QED BY <1>1 DEF Returns

\* A flow with nothing ahead returns.
LEMMA GoesOnReturns ==
    ASSUME flows \in Seq(AnyFlow), flows # <<>>, GoesOn(<<>>)
    PROVE  Returns /\ inFlight' = (inFlight \/ (Top.of \in Handlers /\ queue # <<>>))
  <1>1. /\ flows' = Front(flows)
        /\ inFlight' = (inFlight \/ (Top.of \in Handlers /\ queue # <<>>))
    BY DEF GoesOn
  <1> QED BY <1>1, FrontReturns

\* A flow behind the last is a call.
LEMMA AppendCalls ==
    ASSUME NEW f \in AnyFlow, flows \in Seq(AnyFlow), flows' = Append(flows, f)
    PROVE  Calls(f)
  BY DEF Calls

\* A flow starts well formed.
LEMMA FlowTyped ==
    ASSUME NEW of \in Of, NEW todo \in Seq(AnyStep)
    PROVE  Flow(of, todo) \in AnyFlow
  BY DEF Flow, AnyFlow, States, AnyDocument, Keys, NoDocument

-----------------------------------------------------------------------------
(* Plans, and who minds the monitor *)

\* The plans are kept by a flow that goes on with a plan,
LEMMA PlanTurns ==
    ASSUME NEW todo, flows \in Seq(AnyFlow), flows # <<>>, PlanInv, Turns(todo),
           IsPlan(Top.of, todo)
    PROVE  PlanInv'
  <1>1. Len(flows) \in Nat /\ Len(flows) >= 1 /\ Top \in AnyFlow BY TopFacts
  <1> SUFFICES ASSUME NEW i \in 1 .. Len(flows)
               PROVE  Planned(flows'[i])
    BY DEF PlanInv, Planned, Turns
  <1>2. CASE i = Len(flows)
    <2>1. flows'[i].of = Top.of /\ flows'[i].todo = todo /\ flows'[i].state = "runs"
      BY <1>1, <1>2 DEF Turns
    <2> QED BY <2>1 DEF Planned
  <1>3. CASE i # Len(flows)
    <2>1. i \in 1 .. Len(flows) - 1 BY <1>1, <1>3
    <2>2. flows'[i] = flows[i] BY <2>1 DEF Turns
    <2> QED BY <2>2 DEF PlanInv
  <1> QED BY <1>2, <1>3

\* by one that returns,
LEMMA PlanReturns ==
    ASSUME flows \in Seq(AnyFlow), PlanInv, Returns
    PROVE  PlanInv'
  <1> SUFFICES ASSUME NEW i \in 1 .. Len(flows) - 1
               PROVE  Planned(flows'[i])
    BY DEF PlanInv, Planned, Returns
  <1>1. flows'[i] = flows[i] /\ i \in 1 .. Len(flows) BY DEF Returns
  <1> QED BY <1>1 DEF PlanInv

\* by a call of one with a plan,
LEMMA PlanCalls ==
    ASSUME NEW f, flows \in Seq(AnyFlow), PlanInv, Calls(f), IsPlan(f.of, f.todo),
           f.state = "runs"
    PROVE  PlanInv'
  <1> SUFFICES ASSUME NEW i \in 1 .. Len(flows) + 1
               PROVE  Planned(flows'[i])
    BY DEF PlanInv, Planned, Calls
  <1>1. CASE i = Len(flows) + 1 BY <1>1 DEF Calls, Planned
  <1>2. CASE i # Len(flows) + 1
    <2>1. i \in 1 .. Len(flows) BY <1>2
    <2>2. flows'[i] = flows[i] BY <2>1 DEF Calls
    <2> QED BY <2>1, <2>2 DEF PlanInv
  <1> QED BY <1>1, <1>2

\* and by a change of what flows know.
LEMMA PlanStays ==
    ASSUME PlanInv, Stays
    PROVE  PlanInv'
  BY DEF PlanInv, Planned, Stays

\* A flow that minds the monitor still does with todo ahead.
StartsGet(todo) == Top.of = "monitor" /\ todo[Len(todo)][1] = "start"
EndsAlike(todo) ==
    \/ todo[Len(todo)] = Top.todo[Len(Top.todo)]
    \/ Top.of \notin {"monitor", "unlock", "got"}
    \/ StartsGet(todo)
    \/ Top.of = "got" /\ hasDocument

\* MonitorInv is kept by a flow that goes on towards the same end,
LEMMA MonitorTurns ==
    ASSUME NEW todo, flows \in Seq(AnyFlow), flows # <<>>, MonitorInv, Turns(todo),
           EndsAlike(todo), hasDocument' = hasDocument,
           monitorAfterGet' => monitorAfterGet \/ StartsGet(todo),
           unread => unread', monitorAfterGet' /\ getInProgress => getInProgress'
    PROVE  MonitorInv'
  <1>1. Len(flows) \in Nat /\ Len(flows) >= 1 /\ Len(flows) \in 1 .. Len(flows)
    BY TopFacts
  <1>a. flows'[Len(flows)].of = Top.of /\ flows'[Len(flows)].todo = todo
    BY DEF Turns
  <1>2. \A i \in 1 .. Len(flows) :
           /\ Minds(flows[i]) => Minds(flows'[i])
           /\ flows'[i].of = "got" /\ flows'[i].todo[Len(flows'[i].todo)][1] = "monitor" =>
                \/ flows[i].of = "got" /\ flows[i].todo[Len(flows[i].todo)][1] = "monitor"
                \/ hasDocument
    <2> TAKE i \in 1 .. Len(flows)
    <2>1. CASE i = Len(flows)
      <3>1. flows'[i].of = Top.of /\ flows'[i].todo = todo /\ flows[i] = Top
        BY <1>a, <2>1 DEF Top
      <3> QED BY <3>1 DEF EndsAlike, StartsGet, Minds
    <2>2. CASE i # Len(flows)
      <3>1. i \in 1 .. Len(flows) - 1 BY <1>1, <2>2
      <3>2. flows'[i] = flows[i] BY <3>1 DEF Turns
      <3> QED BY <3>2
    <2> QED BY <2>1, <2>2
  <1>3. Len(flows') = Len(flows) BY DEF Turns
  <1>4. \A i \in 1 .. Len(flows') :
           flows'[i].of = "got" /\ flows'[i].todo[Len(flows'[i].todo)][1] = "monitor"
             => hasDocument'
    BY <1>2, <1>3 DEF MonitorInv
  <1>5. monitorAfterGet' =>
           unread' \/ getInProgress' \/ \E i \in 1 .. Len(flows') : Minds(flows'[i])
    <2>1. CASE monitorAfterGet' /\ monitorAfterGet BY <1>2, <1>3, <2>1 DEF MonitorInv
    <2>2. CASE StartsGet(todo)
      <3>1. Minds(flows'[Len(flows)]) BY <1>a, <2>2 DEF Minds, StartsGet
      <3> QED BY <1>1, <1>3, <3>1
    <2> QED BY <2>1, <2>2
  <1>6. \A i \in 1 .. Len(flows') : Minds(flows[i])' <=> Minds(flows'[i]) BY DEF Minds
  <1> QED BY <1>4, <1>5, <1>6 DEF MonitorInv, Minds

\* by one that returns, if it minded a Get that is running now,
LEMMA MonitorReturns ==
    ASSUME flows \in Seq(AnyFlow), flows # <<>>, MonitorInv, Returns,
           hasDocument' = hasDocument, monitorAfterGet' => monitorAfterGet,
           monitorAfterGet' /\ Minds(Top) => unread' \/ getInProgress',
           unread => unread', monitorAfterGet' /\ getInProgress => getInProgress'
    PROVE  MonitorInv'
  <1>1. Len(flows) \in Nat /\ Len(flows) >= 1 BY TopFacts
  <1>2. Len(flows') = Len(flows) - 1 /\ \A i \in 1 .. Len(flows) - 1 : flows'[i] = flows[i]
    BY DEF Returns
  <1>3. \A i \in 1 .. Len(flows') : i \in 1 .. Len(flows) /\ flows'[i] = flows[i]
    BY <1>1, <1>2
  <1>4. \A i \in 1 .. Len(flows') :
           flows'[i].of = "got" /\ flows'[i].todo[Len(flows'[i].todo)][1] = "monitor"
             => hasDocument'
    BY <1>3 DEF MonitorInv
  <1>5. ASSUME monitorAfterGet', ~ unread', ~ getInProgress'
        PROVE  \E i \in 1 .. Len(flows') : Minds(flows'[i])
    <2>1. PICK i \in 1 .. Len(flows) : Minds(flows[i]) BY <1>5 DEF MonitorInv
    <2>2. i # Len(flows) BY <1>5, <2>1 DEF Top
    <2>3. i \in 1 .. Len(flows') BY <1>1, <1>2, <2>2
    <2> QED BY <1>3, <2>1, <2>3
  <1> QED BY <1>4, <1>5 DEF MonitorInv, Minds

\* by a call,
LEMMA MonitorCalls ==
    ASSUME NEW f, flows \in Seq(AnyFlow), MonitorInv, Calls(f),
           f.of = "got" /\ f.todo[Len(f.todo)][1] = "monitor" => hasDocument',
           hasDocument => hasDocument', monitorAfterGet' => monitorAfterGet,
           unread => unread', monitorAfterGet' /\ getInProgress => getInProgress' \/ Minds(f)
    PROVE  MonitorInv'
  <1>1. Len(flows) \in Nat OBVIOUS
  <1>2. /\ Len(flows') = Len(flows) + 1 /\ flows'[Len(flows) + 1] = f
        /\ \A i \in 1 .. Len(flows) : flows'[i] = flows[i]
    BY DEF Calls
  <1>3. \A i \in 1 .. Len(flows') : i \in 1 .. Len(flows) \/ flows'[i] = f BY <1>1, <1>2
  <1>4. \A i \in 1 .. Len(flows') :
           flows'[i].of = "got" /\ flows'[i].todo[Len(flows'[i].todo)][1] = "monitor"
             => hasDocument'
    BY <1>2, <1>3 DEF MonitorInv
  <1>5. ASSUME monitorAfterGet', ~ unread', ~ getInProgress'
        PROVE  \E i \in 1 .. Len(flows') : Minds(flows'[i])
    <2>1. CASE Minds(f)
      <3>1. Len(flows) + 1 \in 1 .. Len(flows') BY <1>1, <1>2
      <3> QED BY <1>2, <2>1, <3>1
    <2>2. CASE ~ Minds(f)
      <3>1. PICK i \in 1 .. Len(flows) : Minds(flows[i]) BY <1>5, <2>2 DEF MonitorInv
      <3>2. i \in 1 .. Len(flows') BY <1>1, <1>2
      <3> QED BY <1>2, <3>1, <3>2
    <2> QED BY <2>1, <2>2
  <1> QED BY <1>4, <1>5 DEF MonitorInv, Minds

\* and by a change of what flows know.
LEMMA MonitorStays ==
    ASSUME MonitorInv, Stays,
           hasDocument => hasDocument', monitorAfterGet' => monitorAfterGet,
           unread => unread', monitorAfterGet' /\ getInProgress => getInProgress'
    PROVE  MonitorInv'
  BY DEF MonitorInv, Minds, Stays

-----------------------------------------------------------------------------
(* Who waits for the link *)

\* Who waits in the queue waits on, if its flow does.
LEMMA WaitsMoves ==
    ASSUME NEW q, NEW fs, NEW gs, Waits(q, fs),
           \A i \in 1 .. Len(fs) :
              fs[i].state = "waits" => i \in 1 .. Len(gs) /\ gs[i].state = "waits"
    PROVE  Waits(q, gs)
  BY DEF Waits

\* The first in the queue may wait no longer.
LEMMA WaitsTail ==
    ASSUME NEW q \in Seq(Int), NEW fs, NEW gs, Waits(q, fs), q # <<>>,
           \A i \in 1 .. Len(fs) :
              fs[i].state = "waits" /\ i # Head(q) => i \in 1 .. Len(gs) /\ gs[i].state = "waits"
    PROVE  Waits(Tail(q), gs)
  <1> DEFINE t == Tail(q)
  <1>1. /\ Len(q) \in Nat /\ Len(t) = Len(q) - 1 /\ \A k \in 1 .. Len(t) : t[k] = q[k + 1]
        /\ Head(q) = q[1] /\ Len(q) >= 1
    BY DEF t
  <1> HIDE DEF t
  <1>2. \A k \in 1 .. Len(t) : k + 1 \in 1 .. Len(q) /\ 1 \in 1 .. Len(q) /\ k + 1 # 1 BY <1>1
  <1>3. ASSUME NEW k \in 1 .. Len(t)
        PROVE  t[k] \in {-1, -2} \/ (t[k] \in 1 .. Len(gs) /\ gs[t[k]].state = "waits")
    <2>1. /\ t[k] = q[k + 1] /\ k + 1 \in 1 .. Len(q) /\ 1 \in 1 .. Len(q) /\ k + 1 # 1
      BY <1>1, <1>2
    <2>2. CASE t[k] \in 1 .. Len(fs) /\ fs[t[k]].state = "waits"
      <3>1. t[k] > 0 BY <2>2
      <3>2. t[k] # Head(q) BY <1>1, <2>1, <3>1 DEF Waits
      <3> QED BY <2>2, <3>2
    <2> QED BY <2>1, <2>2 DEF Waits
  <1>4. ASSUME NEW j \in 1 .. Len(t), NEW k \in 1 .. Len(t), t[j] = t[k], t[j] > 0
        PROVE  j = k
    <2>1. t[j] = q[j + 1] /\ t[k] = q[k + 1] /\ j + 1 \in 1 .. Len(q) /\ k + 1 \in 1 .. Len(q)
      BY <1>1, <1>2
    <2>2. j + 1 = k + 1 BY <1>4, <2>1 DEF Waits
    <2> QED BY <2>2
  <1>5. Waits(t, gs) BY <1>3, <1>4 DEF Waits
  <1> QED BY <1>5 DEF t

\* A transfer waits, or a flow that did not.
LEMMA WaitsBehind ==
    ASSUME NEW q \in Seq(Int), NEW fs, NEW x \in {-1, -2}, Waits(q, fs)
    PROVE  Waits(Append(q, x), fs)
  <1> DEFINE r == Append(q, x)
  <1>1. /\ Len(q) \in Nat /\ Len(r) = Len(q) + 1 /\ r[Len(q) + 1] = x
        /\ \A k \in 1 .. Len(q) : r[k] = q[k]
    BY DEF r
  <1> HIDE DEF r
  <1>2. \A k \in 1 .. Len(r) : k \in 1 .. Len(q) \/ k = Len(q) + 1 BY <1>1
  <1>3. \A k \in 1 .. Len(r) : r[k] > 0 => k \in 1 .. Len(q) BY <1>1, <1>2
  <1>4. Waits(r, fs) BY <1>1, <1>2, <1>3 DEF Waits
  <1> QED BY <1>4 DEF r

\* A flow that asks waits behind the others.
LEMMA WaitsAsked ==
    ASSUME NEW q \in Seq(Int), NEW fs, NEW gs, NEW n \in Nat, n \in 1 .. Len(gs),
           gs[n].state = "waits", fs[n].state # "waits", Waits(q, fs),
           \A i \in 1 .. Len(fs) :
              fs[i].state = "waits" => i \in 1 .. Len(gs) /\ gs[i].state = "waits"
    PROVE  Waits(Append(q, n), gs)
  <1> DEFINE r == Append(q, n)
  <1>1. /\ Len(q) \in Nat /\ Len(r) = Len(q) + 1 /\ r[Len(q) + 1] = n
        /\ \A k \in 1 .. Len(q) : r[k] = q[k]
    BY DEF r
  <1> HIDE DEF r
  <1>2. \A k \in 1 .. Len(r) : k \in 1 .. Len(q) \/ k = Len(q) + 1 BY <1>1
  <1>3. \A k \in 1 .. Len(q) : q[k] # n
    <2>1. n > 0 BY <1>1
    <2> QED BY <2>1 DEF Waits
  <1>4. ASSUME NEW j \in 1 .. Len(r), NEW k \in 1 .. Len(r), r[j] = r[k], r[j] > 0
        PROVE  j = k
    BY <1>1, <1>2, <1>3, <1>4 DEF Waits
  <1>5. \A k \in 1 .. Len(r) :
           r[k] \in {-1, -2} \/ (r[k] \in 1 .. Len(gs) /\ gs[r[k]].state = "waits")
    BY <1>1, <1>2 DEF Waits
  <1>6. Waits(r, gs) BY <1>4, <1>5 DEF Waits
  <1> QED BY <1>6 DEF r

\* What a flow that goes on, returns or is called leaves of it.
LEMMA QueueTurns ==
    ASSUME NEW todo, flows \in Seq(AnyFlow), flows # <<>>, QueueInv, Top.state # "waits",
           Turns(todo), UNCHANGED <<queue, inFlight>>
    PROVE  QueueInv'
  <1>1. Len(flows) \in Nat /\ Len(flows) >= 1 BY TopFacts
  <1>2. \A i \in 1 .. Len(flows) :
           flows[i].state = "waits" => i \in 1 .. Len(flows') /\ flows'[i].state = "waits"
    <2> TAKE i \in 1 .. Len(flows)
    <2>1. flows[i].state = "waits" => i # Len(flows) BY DEF Top
    <2>2. i # Len(flows) => i \in 1 .. Len(flows) - 1 BY <1>1
    <2> QED BY <2>1, <2>2 DEF Turns
  <1>3. Waits(queue, flows') BY <1>2, WaitsMoves DEF QueueInv
  <1> QED BY <1>3 DEF QueueInv, Waits

\* A return takes no flow that waits.
LEMMA WaitersStay ==
    ASSUME flows \in Seq(AnyFlow), flows # <<>>, Top.state # "waits", Returns
    PROVE  \A i \in 1 .. Len(flows) :
              flows[i].state = "waits" => i \in 1 .. Len(flows') /\ flows'[i].state = "waits"
  <1>1. Len(flows) \in Nat /\ Len(flows) >= 1 BY TopFacts
  <1> TAKE i \in 1 .. Len(flows)
  <1>2. flows[i].state = "waits" => i # Len(flows) BY DEF Top
  <1>3. i # Len(flows) => i \in 1 .. Len(flows) - 1 BY <1>1
  <1> QED BY <1>2, <1>3 DEF Returns

\* A return may let the link go on with what is queued.
LEMMA QueueReturns ==
    ASSUME flows \in Seq(AnyFlow), flows # <<>>, QueueInv, Top.state # "waits",
           Returns, queue' = queue, inFlight' => inFlight \/ queue # <<>>
    PROVE  QueueInv'
  <1>2. \A i \in 1 .. Len(flows) :
           flows[i].state = "waits" => i \in 1 .. Len(flows') /\ flows'[i].state = "waits"
    BY WaitersStay
  <1>3. Waits(queue, flows') BY <1>2, WaitsMoves DEF QueueInv
  <1> QED BY <1>3 DEF QueueInv, Waits

-----------------------------------------------------------------------------
(* The one flow, and what it may rely on *)

\* The transfers that are alive are those of transfers.
LEMMA AliveSame ==
    ASSUME transfers' = transfers
    PROVE  Alive' = Alive
  BY DEF Alive

\* Uncrossed, the innermost flow is the only one.
LEMMA SoleTop ==
    ASSUME TypeOK, LineInv, flows # <<>>
    PROVE  Len(flows) = 1 /\ Top = flows[1] /\ Top \in AnyFlow
  <1>1. flows \in Seq(AnyFlow) /\ Len(flows) <= 1 BY DEF TypeOK, LineInv
  <1>2. Len(flows) \in Nat /\ Len(flows) >= 1 /\ Top \in AnyFlow BY <1>1, TopFacts
  <1>3. Len(flows) = 1
    <2>1. \A n \in Nat : n >= 1 /\ n <= 1 => n = 1 OBVIOUS
    <2> QED BY <1>1, <1>2, <2>1, Zenon
  <1> QED BY <1>2, <1>3 DEF Top

\* The flow goes on, and nothing else does.
LEMMA LineTurns ==
    ASSUME NEW todo, TypeOK, flows # <<>>, LineInv, Turns(todo), Top.state # "waits",
           Top.of \notin Handlers /\ Top.state = "runs" /\ Step[1] \in Fresh
             => Head(todo)[1] \in Fresh,
           UNCHANGED <<queue, transfers, inFlight>>, linkOpen => linkOpen'
    PROVE  LineInv'
  <1>1. flows \in Seq(AnyFlow) /\ Len(flows) <= 1 BY DEF TypeOK, LineInv
  <1>2. Len(flows) = 1 /\ Top = flows[1] /\ Top \in AnyFlow BY SoleTop
  <1>3. /\ flows' \in Seq(AnyFlow) /\ Len(flows') = 1
    BY <1>2 DEF Turns
  <1>4. flows'[1].of = Top.of /\ flows'[1].todo = todo /\ flows'[1].state = "runs"
    BY <1>2 DEF Turns
  <1>5. flows' # <<>> BY <1>3
  <1>6. Alive' = Alive BY AliveSame
  <1>7. ~ Asking /\ ~ Asking' BY <1>2, <1>4 DEF Asking
  <1>8. Alive # {} => /\ flows'[1].of \notin Handlers /\ flows'[1].state \in {"runs", "waits"}
                      /\ Head(flows'[1].todo)[1] \in Fresh
                      /\ \A s \in Alive : transfers[s].cancelled
    <2>1. Alive # {} => /\ Top.of \notin Handlers /\ Top.state \in {"runs", "waits"}
                        /\ Head(Top.todo)[1] \in Fresh
                        /\ \A s \in Alive : transfers[s].cancelled
      BY <1>2 DEF LineInv
    <2> QED BY <1>4, <2>1 DEF Step
  <1>9. /\ Alive' = {} => queue' = <<>>
        /\ \A s \in Alive' : queue' = <<-s>>
        /\ inFlight' <=> (queue' # <<>>)
        /\ Alive' # {} => linkOpen'
        /\ \A s, t \in Alive' : s = t
    BY <1>6, <1>7 DEF LineInv
  <1> QED BY <1>3, <1>6, <1>7, <1>8, <1>9 DEF LineInv

\* The flow returns.
LEMMA LineReturns ==
    ASSUME TypeOK, flows # <<>>, LineInv, Returns, Top.state # "waits",
           UNCHANGED <<queue, transfers>>, linkOpen => linkOpen',
           inFlight' = (inFlight \/ (Top.of \in Handlers /\ queue # <<>>))
    PROVE  LineInv' /\ flows' = <<>>
  <1>1. flows \in Seq(AnyFlow) /\ Len(flows) <= 1 BY DEF TypeOK, LineInv
  <1>2. Len(flows) = 1 /\ Top = flows[1] /\ Top \in AnyFlow BY SoleTop
  <1>3. flows' \in Seq(AnyFlow) /\ Len(flows') = 0 /\ flows' = <<>> BY <1>2 DEF Returns
  <1>4. Alive' = Alive BY AliveSame
  <1>5. ~ Asking /\ ~ Asking' BY <1>2, <1>3 DEF Asking
  <1>6. Top.of \in Handlers => queue = <<>> BY <1>2, <1>5 DEF LineInv
  <1>7. inFlight' <=> inFlight BY <1>6
  <1>8. /\ Alive' = {} => queue' = <<>>
        /\ \A s \in Alive' : queue' = <<-s>>
        /\ inFlight' <=> (queue' # <<>>)
        /\ Alive' # {} => linkOpen'
        /\ \A s, t \in Alive' : s = t
    BY <1>4, <1>5, <1>7 DEF LineInv
  <1> QED BY <1>3, <1>4, <1>5, <1>8 DEF LineInv

\* Nothing is on the line.
LEMMA LineQuiet ==
    ASSUME Len(flows') <= 1, Alive' = {}, ~ Asking', queue' = <<>>, inFlight' = FALSE
    PROVE  LineInv'
  BY DEF LineInv

\* What the one flow relies on is about the unit and the document alone.
LEMMA FreshClaims ==
    ASSUME NEW f, NEW link, NEW d, NEW u, NEW p, f.state = "runs",
           \/ Head(f.todo)[1] \in {"connect", "hardware", "report", "usbMode", "show", "monitor",
                                   "close", "reopen", "told", "finished"}
           \/ Head(f.todo)[1] = "ask" /\ f.of = "unlock"
           \/ Head(f.todo)[1] \in Proving /\ Head(f.todo)[2] # "comms"
    PROVE  Gated(f, link, d, u) /\ Trusted(f, link, u, p)
  BY DEF Gated, Trusted, Beyond, Proving

\* A step behind another that proves and confirms nothing.
LEMMA NextClaims ==
    ASSUME NEW f, NEW g, NEW link, NEW d, NEW u, NEW p,
           Gated(f, link, d, u), Trusted(f, link, u, p),
           g.of = f.of, g.sure = f.sure, g.sends = f.sends, g.state = "runs",
           Head(f.todo) \in AnyStep, Head(g.todo) \in AnyStep,
           Belongs(f.of, Head(f.todo)), Belongs(f.of, Head(g.todo)),
           Follows(f.of, Head(f.todo), Head(g.todo)), f.of \in Of,
           Head(f.todo)[1] \notin Proving \union {"gate", "confirm", "mapped", "reset"}
    PROVE  Gated(g, link, d, u) /\ Trusted(g, link, u, p)
  <1> DEFINE a == Head(f.todo)  b == Head(g.todo)
  <1>1. a[1] \in Plain /\ b[1] \in Plain \union Proving
    BY StepFacts
  <1> HIDE DEF a, b
  <1>2. Follows(f.of, a, b) /\ Belongs(f.of, a) /\ Belongs(f.of, b) BY DEF a, b
  <1>3. a[1] \notin {"gate", "confirm", "mapped", "reset"} BY DEF a
  <1>4. f.of \in {"connect", "get", "monitor", "send", "reset", "sent", "got", "unlock"}
    BY DEF Of, UserCommands, Handlers
  <1>5. \/ b[1] \in {"hardware", "report", "usbMode", "show", "monitor", "reopen", "finished"}
        \/ b[1] = "state" /\ b[2] # "comms"
        \/ b[1] \in {"board", "mapped"} /\ a[1] \in {"status", "board"}
        \/ b[1] \in {"marks", "uid", "ask", "bind", "start"} /\ f.of = "send"
             /\ a[1] \in {"fit", "marks", "uid", "ask", "bind"}
        \/ b[1] \in {"ask", "capacity", "start"} /\ f.of \in Gets
             /\ a[1] \in {"identity", "ask", "capacity"}
        \/ b[1] = "start" /\ f.of = "unlock" /\ a[1] = "capacity"
        \/ b[1] = "reset" /\ f.of = "reset" /\ a[1] = "ask"
    <2>1. CASE f.of = "send"
      BY <1>1, <1>2, <1>3, <2>1
      DEF Follows, Belongs, HasKind, Plain, Proving, Identifying, Gets, Needs
    <2>2. CASE f.of \in {"get", "monitor"}
      BY <1>1, <1>2, <1>3, <2>2
      DEF Follows, Belongs, HasKind, Plain, Proving, Identifying, Gets, Needs
    <2>3. CASE f.of \in {"connect", "sent", "got"}
      BY <1>1, <1>2, <1>3, <2>3
      DEF Follows, Belongs, HasKind, Plain, Proving, Identifying, Gets, Needs
    <2>4. CASE f.of = "reset"
      BY <1>1, <1>2, <1>3, <2>4
      DEF Follows, Belongs, HasKind, Plain, Proving, Identifying, Gets, Needs
    <2>5. CASE f.of = "unlock"
      BY <1>1, <1>2, <1>3, <2>5
      DEF Follows, Belongs, HasKind, Plain, Proving, Identifying, Gets, Needs
    <2> QED BY <1>4, <2>1, <2>2, <2>3, <2>4, <2>5
  <1>6. Gated(g, link, d, u)
    BY <1>5 DEF Gated, a, b, Gets
  <1>7. Beyond(g) => Beyond(f)
    BY <1>5 DEF Beyond, a, b, Gets, Proving
  <1>8. Trusted(g, link, u, p)
    BY <1>7 DEF Trusted
  <1> QED BY <1>6, <1>8

\* Behind a proof, and while it is tried again.
LEMMA ProvedClaims ==
    ASSUME NEW f, NEW g, NEW link, NEW d, NEW u, NEW p, NEW fn \in Functions,
           Trusted(f, link, u, p),
           g.of = f.of, g.sure = f.sure, g.state = "runs",
           Head(f.todo) \in AnyStep, Head(g.todo) \in AnyStep, f.of \in Of,
           Belongs(f.of, Head(f.todo)), Head(f.todo)[1] \in Proving, Head(f.todo)[2] = fn,
           Follows(f.of, Head(f.todo), Head(g.todo)),
           link /\ f.sure => fn \notin u.guards \ p \/ fn = "comms"
    PROVE  Gated(g, link, d, u) /\ Trusted(g, link, u, p)
  <1> DEFINE a == Head(f.todo)  b == Head(g.todo)
  <1> HIDE DEF a, b
  <1>1. Follows(f.of, a, b) /\ Belongs(f.of, a) BY DEF a, b
  <1>2. a[1] \in Proving /\ a[2] = fn BY DEF a
  <1>3. f.of \in {"connect", "get", "monitor", "send", "reset", "sent", "got", "unlock"}
    BY DEF Of, UserCommands, Handlers
  <1>4. f.of \notin {"connect", "sent", "got"}
    BY <1>1, <1>2 DEF Belongs, HasKind, Proving, Identifying, Gets
  <1>5. fn = Needs(f.of) \/ (f.of = "unlock" /\ fn = "comms") BY <1>1, <1>2 DEF Belongs
  <1>6. \/ b[1] = "gate" \/ b[1] = "identity" \/ (b[1] = "ask" /\ f.of = "reset")
        \/ f.of = "unlock" /\ fn = "get" /\ b[1] = "state" /\ b[2] = "comms"
        \/ f.of = "unlock" /\ fn = "comms" /\ b[1] = "capacity"
    BY <1>1, <1>2, <1>3, <1>4, <1>5 DEF Follows, Gets, Needs
  <1>7. Gated(g, link, d, u) BY <1>6 DEF Gated, b
  <1>8. link /\ f.sure => Needs(f.of) \notin u.guards \ p
    <2>1. CASE fn = "comms"
      <3>1. Beyond(f) BY <1>2, <2>1 DEF Beyond, a
      <3> QED BY <3>1 DEF Trusted
    <2>2. CASE fn # "comms" BY <1>5, <2>2
    <2> QED BY <2>1, <2>2
  <1>9. Trusted(g, link, u, p) BY <1>6, <1>8 DEF Trusted, b
  <1> QED BY <1>7, <1>9

\* What proves the same function claims the same.
LEMMA ProvingClaims ==
    ASSUME NEW f, NEW g, NEW link, NEW d, NEW u, NEW p,
           Trusted(f, link, u, p), g.of = f.of, g.sure = f.sure, g.state = "runs",
           Head(f.todo)[1] \in Proving, Head(g.todo)[1] \in Proving,
           Head(g.todo)[2] = Head(f.todo)[2]
    PROVE  Gated(g, link, d, u) /\ Trusted(g, link, u, p)
  <1>1. Gated(g, link, d, u) BY DEF Gated, Proving
  <1>2. Beyond(g) => Beyond(f) BY DEF Beyond, Proving
  <1> QED BY <1>1, <1>2 DEF Trusted

\* A step is asked, or answered with anything but "ok".
LEMMA AskedClaims ==
    ASSUME NEW f, NEW g, NEW link, NEW d, NEW u, NEW p,
           Gated(f, link, d, u), Trusted(f, link, u, p),
           g.of = f.of, g.sure = f.sure, g.sends = f.sends, g.todo = f.todo,
           f.state \in {"runs", "waits"}, g.state # "ok",
           g.state = "waits" /\ Head(f.todo)[1] = "confirm" => g.key = d.key
    PROVE  Gated(g, link, d, u) /\ Trusted(g, link, u, p)
  <1>1. Gated(g, link, d, u) BY DEF Gated
  <1>2. Beyond(g) => Beyond(f) BY DEF Beyond
  <1> QED BY <1>1, <1>2 DEF Trusted

\* Nothing is claimed of a closed link, and nothing of what was proved once that
\* is not sure any more.
LEMMA ClosedClaims ==
    ASSUME NEW f, NEW d, NEW u, NEW p, NEW link, ~ link, f.state # "waits"
    PROVE  Gated(f, link, d, u) /\ Trusted(f, link, u, p)
  BY DEF Gated, Trusted

-----------------------------------------------------------------------------
(* The innermost flow goes on, or returns *)

\* What the invariant says of the innermost flow.
LEMMA TopPlan ==
    ASSUME SessionInv, flows # <<>>
    PROVE  /\ flows \in Seq(AnyFlow) /\ Len(flows) \in Nat /\ Len(flows) >= 1
           /\ Top \in AnyFlow /\ Top.of \in Of /\ IsPlan(Top.of, Top.todo)
           /\ Step \in AnyStep /\ Belongs(Top.of, Step)
           /\ Top.todo # <<>> /\ Tail(Top.todo) \in Seq(AnyStep)
           /\ Top.state # "runs" => Step[1] \in Request
  <1>1. flows \in Seq(AnyFlow) /\ PlanInv BY DEF SessionInv, TypeOK
  <1>2. Len(flows) \in Nat /\ Len(flows) >= 1 /\ Len(flows) \in 1 .. Len(flows) /\ Top \in AnyFlow
    BY <1>1, TopFacts
  <1>3. IsPlan(Top.of, Top.todo) /\ (Top.state # "runs" => Step[1] \in Request)
    BY <1>1, <1>2 DEF PlanInv, Planned, Top, Step
  <1>4. Top.of \in Of BY <1>2 DEF AnyFlow
  <1> DEFINE of == Top.of  todo == Top.todo
  <1>5. IsPlan(of, todo) BY <1>3
  <1> HIDE DEF of, todo
  <1>6. /\ todo \in Seq(AnyStep) /\ todo # <<>> /\ Len(todo) \in Nat \ {0}
        /\ Head(todo) = todo[1] /\ Head(todo) \in AnyStep /\ Belongs(of, Head(todo))
        /\ Tail(todo) \in Seq(AnyStep)
    BY <1>5, PlanFacts
  <1>7. /\ Head(Top.todo) \in AnyStep /\ Belongs(Top.of, Head(Top.todo))
        /\ Top.todo # <<>> /\ Tail(Top.todo) \in Seq(AnyStep)
    BY <1>6 DEF of, todo
  <1> QED BY <1>1, <1>2, <1>3, <1>4, <1>7 DEF Step

\* What no step of a flow but a reset touches, and what it may do besides.
Leaves ==
    /\ UNCHANGED <<plugged, proved, transfers, queue, hasDocument, crossed, surprised>>
    /\ linkOpen' \in BOOLEAN /\ hardware' \in Units \union {NoUnit} /\ enabled' \in BOOLEAN
    /\ doc' \in AnyDocument /\ getInProgress' \in BOOLEAN
    /\ monitorAfterGet' \in BOOLEAN /\ unread' \in BOOLEAN
    /\ linkOpen => linkOpen'
    /\ linkOpen' => plugged # NoUnit
    /\ unread => unread'
    /\ monitorAfterGet' /\ getInProgress => getInProgress'
Keeps == Leaves /\ (monitorAfterGet' => monitorAfterGet)

\* What was proved to the unit is the same for every transfer.
LEMMA TransfersKept ==
    ASSUME TransferInv, UNCHANGED <<plugged, proved, transfers>>
    PROVE  TransferInv'
  BY DEF TransferInv, Alive, Allowed

\* The invariant is kept by a flow that goes on and can claim what it does next,
LEMMA Onward ==
    ASSUME NEW todo, SessionInv, flows # <<>>, Turns(todo), inFlight' = inFlight, Leaves,
           IsPlan(Top.of, todo), EndsAlike(todo), Top.state # "waits",
           monitorAfterGet' => monitorAfterGet \/ StartsGet(todo),
           Top.of \notin Handlers /\ Top.state = "runs" /\ Step[1] \in Fresh
             => Head(todo)[1] \in Fresh,
           ~ crossed /\ Len(flows) = 1
             => /\ Gated(flows'[1], linkOpen', doc', plugged)
                /\ Trusted(flows'[1], linkOpen', plugged, proved)
    PROVE  SessionInv'
  <1>1. flows \in Seq(AnyFlow) /\ Top \in AnyFlow BY TopPlan
  <1>3. Turns(todo) /\ inFlight' = inFlight OBVIOUS
  <1>4. TypeOK /\ PlanInv /\ QueueInv /\ PortInv /\ MonitorInv /\ SoleInv BY DEF SessionInv
  <1>5. TypeOK'
    <2>1. flows' \in Seq(AnyFlow) BY <1>3 DEF Turns
    <2> QED BY <1>3, <1>4, <2>1 DEF TypeOK, Leaves
  <1>6. PlanInv' BY <1>1, <1>3, <1>4, PlanTurns
  <1>7. MonitorInv'
    <2>1. /\ hasDocument' = hasDocument /\ (unread => unread')
          /\ (monitorAfterGet' /\ getInProgress => getInProgress')
      BY DEF Leaves
    <2> QED BY <1>1, <1>3, <1>4, <2>1, MonitorTurns
  <1>8. PortInv' BY DEF PortInv, Leaves
  <1>9. SoleInv'
    <2> SUFFICES ASSUME ~ crossed'
                 PROVE  /\ LineInv' /\ TransferInv' /\ ~ surprised'
                        /\ Gated(flows'[1], linkOpen', doc', plugged')
                        /\ Trusted(flows'[1], linkOpen', plugged', proved')
      BY DEF SoleInv
    <2>1. ~ crossed /\ ~ surprised' /\ LineInv /\ TransferInv
      BY <1>4 DEF SoleInv, Leaves
    <2>2. Len(flows) = 1 BY <1>4, <2>1, SoleTop
    <2>4. LineInv'
      <3>1. UNCHANGED <<queue, transfers, inFlight>> /\ (linkOpen => linkOpen')
        BY <1>3 DEF Leaves
      <3> QED BY <1>3, <1>4, <2>1, <3>1, LineTurns
    <2>5. TransferInv'
      <3>1. UNCHANGED <<plugged, proved, transfers>> BY DEF Leaves
      <3> QED BY <2>1, <3>1, TransfersKept
    <2>6. plugged' = plugged /\ proved' = proved BY DEF Leaves
    <2> QED BY <2>1, <2>2, <2>4, <2>5, <2>6
  <1>10. QueueInv'
    <2>1. queue' = queue BY DEF Leaves
    <2> QED BY <1>1, <1>3, <1>4, <2>1, QueueTurns
  <1> QED BY <1>5, <1>6, <1>7, <1>8, <1>9, <1>10 DEF SessionInv

\* and by one that returns.
LEMMA Homeward ==
    ASSUME SessionInv, flows # <<>>, GoesOn(<<>>), Keeps, Top.state # "waits",
           monitorAfterGet' /\ Minds(Top) => unread' \/ getInProgress'
    PROVE  SessionInv'
  <1>1. flows \in Seq(AnyFlow) /\ Top \in AnyFlow BY TopPlan
  <1>2. Returns /\ inFlight' = (inFlight \/ (Top.of \in Handlers /\ queue # <<>>))
    BY <1>1, GoesOnReturns
  <1>3. TypeOK /\ PlanInv /\ QueueInv /\ PortInv /\ MonitorInv /\ SoleInv BY DEF SessionInv
  <1>4. TypeOK'
    <2>1. flows' \in Seq(AnyFlow) BY <1>2 DEF Returns
    <2>2. inFlight' \in BOOLEAN BY <1>2
    <2> QED BY <1>3, <2>1, <2>2 DEF TypeOK, Keeps, Leaves
  <1>5. PlanInv' BY <1>1, <1>2, <1>3, PlanReturns
  <1>6. MonitorInv'
    <2>1. /\ hasDocument' = hasDocument /\ (monitorAfterGet' => monitorAfterGet)
          /\ (unread => unread') /\ (monitorAfterGet' /\ getInProgress => getInProgress')
      BY DEF Keeps, Leaves
    <2> QED BY <1>1, <1>2, <1>3, <2>1, MonitorReturns
  <1>7. PortInv' BY DEF PortInv, Keeps, Leaves
  <1>8. SoleInv'
    <2> SUFFICES ASSUME ~ crossed'
                 PROVE  LineInv' /\ TransferInv' /\ ~ surprised' /\ flows' = <<>>
      BY DEF SoleInv
    <2>1. ~ crossed /\ ~ surprised' /\ LineInv /\ TransferInv
      BY <1>3 DEF SoleInv, Keeps, Leaves
    <2>2. LineInv' /\ flows' = <<>>
      <3>1. UNCHANGED <<queue, transfers>> /\ (linkOpen => linkOpen') BY DEF Keeps, Leaves
      <3> QED BY <1>2, <1>3, <2>1, <3>1, LineReturns
    <2>3. TransferInv'
      <3>1. UNCHANGED <<plugged, proved, transfers>> BY DEF Keeps, Leaves
      <3> QED BY <2>1, <3>1, TransfersKept
    <2> QED BY <2>1, <2>2, <2>3
  <1>9. QueueInv'
    <2>1. queue' = queue BY DEF Keeps, Leaves
    <2> QED BY <1>1, <1>2, <1>3, <2>1, QueueReturns
  <1> QED BY <1>4, <1>5, <1>6, <1>7, <1>8, <1>9 DEF SessionInv

\* What the one flow may rely on.
LEMMA SoleClaims ==
    ASSUME SessionInv, ~ crossed, flows # <<>>
    PROVE  Gated(Top, linkOpen, doc, plugged) /\ Trusted(Top, linkOpen, plugged, proved)
  <1>1. TypeOK /\ LineInv BY DEF SessionInv, SoleInv
  <1>2. Top = flows[1] BY <1>1, SoleTop
  <1> QED BY <1>2 DEF SessionInv, SoleInv

\* What the innermost flow does next.
LEMMA TopTail ==
    ASSUME SessionInv, flows # <<>>, Tail(Top.todo) # <<>>
    PROVE  /\ IsPlan(Top.of, Tail(Top.todo)) /\ Follows(Top.of, Step, Head(Tail(Top.todo)))
           /\ Head(Tail(Top.todo)) \in AnyStep /\ Belongs(Top.of, Head(Tail(Top.todo)))
           /\ EndsAlike(Tail(Top.todo)) /\ Tail(Top.todo) \in Seq(AnyStep)
  <1> DEFINE of == Top.of  old == Top.todo  todo == Tail(old)
  <1>1. IsPlan(of, old) /\ todo # <<>> BY TopPlan
  <1> HIDE DEF of, old
  <1>2. IsPlan(of, todo) /\ Follows(of, Head(old), Head(todo)) /\ todo[Len(todo)] = old[Len(old)]
    BY <1>1, PlanTail
  <1>3. Head(todo) \in AnyStep /\ Belongs(of, Head(todo)) /\ todo \in Seq(AnyStep)
    <2> HIDE DEF todo
    <2>1. todo \in Seq(AnyStep) BY <1>2 DEF IsPlan, IsPiece
    <2> QED BY <1>2, <2>1, PlanFacts
  <1> QED BY <1>2, <1>3 DEF EndsAlike, Step, of, old

\* A flow whose last step this is does not mind the monitor unless it starts a Get.
LEMMA TopLast ==
    ASSUME SessionInv, flows # <<>>, Tail(Top.todo) = <<>>
    PROVE  /\ Ends(Top.of, Step) /\ (Minds(Top) => Step[1] = "start")
           /\ Step = Top.todo[Len(Top.todo)]
  <1> DEFINE of == Top.of  old == Top.todo
  <1>1. IsPlan(of, old) /\ Tail(old) = <<>> BY TopPlan
  <1> HIDE DEF of, old
  <1>2. Len(old) = 1 /\ Head(old) = old[Len(old)] /\ Ends(of, Head(old)) BY <1>1, PlanLast
  <1> QED BY <1>2 DEF Ends, Minds, Step, of, old

\* What the invariant claims of the innermost flow once it is at step x.
ClaimsOf(g, x) ==
    g.of = Top.of /\ g.sure = Top.sure /\ g.sends = Top.sends /\ g.state = "runs"
        /\ Head(g.todo) = x
      => Gated(g, linkOpen', doc', plugged) /\ Trusted(g, linkOpen', plugged, proved)
Claims(x) == ~ crossed => \A g : ClaimsOf(g, x)

\* Nothing is claimed at a step that relies on nothing.
LEMMA FreshClaimed ==
    ASSUME NEW x, x[1] \in {"connect", "hardware", "report", "usbMode", "show", "monitor",
                            "close", "reopen", "told", "finished"}
    PROVE  Claims(x)
  <1> SUFFICES ASSUME NEW g, g.state = "runs", Head(g.todo) = x
               PROVE  /\ Gated(g, linkOpen', doc', plugged)
                      /\ Trusted(g, linkOpen', plugged, proved)
    BY DEF Claims, ClaimsOf
  <1> QED BY FreshClaims

\* A flow that goes on, by what it can claim at its next step.
LEMMA OnwardTo ==
    ASSUME NEW todo, SessionInv, flows # <<>>, GoesOn(todo), todo # <<>>, Leaves,
           monitorAfterGet' => monitorAfterGet \/ StartsGet(todo),
           IsPlan(Top.of, todo), EndsAlike(todo), Top.state # "waits",
           Top.of \notin Handlers /\ Top.state = "runs" /\ Step[1] \in Fresh
             => Head(todo)[1] \in Fresh,
           Claims(Head(todo))
    PROVE  SessionInv'
  <1>1. Turns(todo) /\ inFlight' = inFlight /\ flows'[Len(flows)].sends = Top.sends
    <2>1. todo \in Seq(AnyStep) BY DEF IsPlan, IsPiece
    <2>2. flows \in Seq(AnyFlow) BY TopPlan
    <2> QED BY <2>1, <2>2, GoesOnTurns
  <1>2. ASSUME ~ crossed, Len(flows) = 1
        PROVE  /\ Gated(flows'[1], linkOpen', doc', plugged)
               /\ Trusted(flows'[1], linkOpen', plugged, proved)
    <2> DEFINE g == flows'[1]
    <2>1. /\ g.of = Top.of /\ g.sure = Top.sure /\ g.sends = Top.sends
          /\ g.state = "runs" /\ g.todo = todo
      BY <1>1, <1>2 DEF Turns
    <2>2. Head(g.todo) = Head(todo) BY <2>1
    <2> HIDE DEF g
    <2>3. Gated(g, linkOpen', doc', plugged) /\ Trusted(g, linkOpen', plugged, proved)
      BY <1>2, <2>1, <2>2 DEF Claims, ClaimsOf
    <2> QED BY <2>3 DEF g
  <1> QED BY <1>1, <1>2, Onward

\* The next step of the plan, behind one that proves and confirms nothing.
LEMMA GoOnKeeps ==
    ASSUME SessionInv, flows # <<>>, GoOn, Keeps, Top.state # "waits",
           UNCHANGED <<linkOpen, doc>>,
           Step[1] \notin Proving \union {"gate", "confirm", "mapped", "reset", "start"}
    PROVE  SessionInv'
  <1> DEFINE todo == Tail(Top.todo)
  <1>1. GoesOn(todo) BY DEF GoOn
  <1>2. CASE todo = <<>>
    <2>1. ~ Minds(Top) BY <1>2, TopLast
    <2>2. GoesOn(<<>>) BY <1>1, <1>2
    <2> QED BY <2>1, <2>2, Homeward
  <1>3. CASE todo # <<>>
    <2>1. /\ IsPlan(Top.of, todo) /\ Follows(Top.of, Step, Head(todo)) /\ EndsAlike(todo)
          /\ Head(todo) \in AnyStep /\ Belongs(Top.of, Head(todo))
      BY <1>3, TopTail
    <2>2. Step \in AnyStep /\ Belongs(Top.of, Step) /\ Top.of \in Of BY TopPlan
    <2>3. Step[1] \in Fresh => Head(todo)[1] \in Fresh
      <3> DEFINE b == Head(todo)
      <3>1. Follows(Top.of, Step, b) /\ Belongs(Top.of, b) BY <2>1
      <3> HIDE DEF b
      <3> QED BY <3>1 DEF Follows, Fresh, Identifying, Proving, b
    <2>4. Claims(Head(todo))
      <3> SUFFICES ASSUME ~ crossed, NEW g, g.of = Top.of, g.sure = Top.sure,
                          g.sends = Top.sends, g.state = "runs", Head(g.todo) = Head(todo)
                   PROVE  /\ Gated(g, linkOpen', doc', plugged)
                          /\ Trusted(g, linkOpen', plugged, proved)
        BY DEF Claims, ClaimsOf
      <3> DEFINE f == Top
      <3>1. Gated(f, linkOpen, doc, plugged) /\ Trusted(f, linkOpen, plugged, proved)
        BY SoleClaims
      <3>2. /\ Head(f.todo) \in AnyStep /\ Head(g.todo) \in AnyStep
            /\ Belongs(f.of, Head(f.todo)) /\ Belongs(f.of, Head(g.todo))
            /\ Follows(f.of, Head(f.todo), Head(g.todo)) /\ f.of \in Of
            /\ Head(f.todo)[1] \notin Proving \union {"gate", "confirm", "mapped", "reset"}
        BY <2>1, <2>2 DEF Step
      <3>3. g.of = f.of /\ g.sure = f.sure /\ g.sends = f.sends OBVIOUS
      <3> HIDE DEF f, todo
      <3>4. Gated(g, linkOpen, doc, plugged) /\ Trusted(g, linkOpen, plugged, proved)
        BY <3>1, <3>2, <3>3, NextClaims
      <3> QED BY <3>4
    <2> HIDE DEF todo
    <2> QED BY <1>1, <1>3, <2>1, <2>3, <2>4, OnwardTo DEF Keeps
  <1> QED BY <1>2, <1>3

\* Behind a proof, or past one that may fail.
LEMMA ProvedKeeps ==
    ASSUME SessionInv, flows # <<>>, GoOn, Keeps, Top.state # "waits", linkOpen' = linkOpen,
           Step[1] \in Proving,
           Top.state = "runs" => Top.of \in Handlers,
           ~ crossed /\ linkOpen /\ Top.sure
             => Step[2] \notin plugged.guards \ proved \/ Step[2] = "comms"
    PROVE  SessionInv'
  <1> DEFINE todo == Tail(Top.todo)
  <1>1. Step \in AnyStep /\ Belongs(Top.of, Step) /\ Top.of \in Of BY TopPlan
  <1>2. todo # <<>>
    <2> SUFFICES ASSUME todo = <<>> PROVE FALSE OBVIOUS
    <2>1. Ends(Top.of, Step) BY TopLast
    <2> QED BY <2>1 DEF Ends, Proving
  <1>3. /\ IsPlan(Top.of, todo) /\ Follows(Top.of, Step, Head(todo)) /\ EndsAlike(todo)
        /\ Head(todo) \in AnyStep
    BY <1>2, TopTail
  <1>4. Claims(Head(todo))
    <2> SUFFICES ASSUME ~ crossed, NEW g, g.of = Top.of, g.sure = Top.sure,
                        g.sends = Top.sends, g.state = "runs", Head(g.todo) = Head(todo)
                 PROVE  /\ Gated(g, linkOpen', doc', plugged)
                        /\ Trusted(g, linkOpen', plugged, proved)
      BY DEF Claims, ClaimsOf
    <2> DEFINE f == Top  fn == Step[2]
    <2>1. Trusted(f, linkOpen, plugged, proved) BY SoleClaims
    <2>2. fn \in Functions
      <3>1. Step[1] \notin Plain BY DEF Plain, Proving
      <3> QED BY <1>1, <3>1, StepFacts
    <2>3. /\ Head(f.todo) \in AnyStep /\ Head(g.todo) \in AnyStep /\ f.of \in Of
          /\ Belongs(f.of, Head(f.todo)) /\ Head(f.todo)[1] \in Proving
          /\ Head(f.todo)[2] = fn /\ Follows(f.of, Head(f.todo), Head(g.todo))
      BY <1>1, <1>3 DEF Step
    <2>4. linkOpen /\ f.sure => fn \notin plugged.guards \ proved \/ fn = "comms" OBVIOUS
    <2>5. g.of = f.of /\ g.sure = f.sure OBVIOUS
    <2> HIDE DEF f, todo, fn
    <2>6. Gated(g, linkOpen, doc', plugged) /\ Trusted(g, linkOpen, plugged, proved)
      BY <2>1, <2>2, <2>3, <2>4, <2>5, ProvedClaims
    <2> QED BY <2>6
  <1>5. GoesOn(todo) BY DEF GoOn
  <1>6. Top.of \notin Handlers /\ Top.state = "runs" /\ Step[1] \in Fresh
             => Head(todo)[1] \in Fresh
    OBVIOUS
  <1> HIDE DEF todo
  <1> QED BY <1>2, <1>3, <1>4, <1>5, <1>6, OnwardTo DEF Keeps

\* Behind the gate for a protected document, and behind its confirmation.
LEMMA CheckedKeeps ==
    ASSUME SessionInv, flows # <<>>, GoOn, Keeps, Top.state # "waits",
           UNCHANGED <<linkOpen, doc>>,
           Step[1] \in {"gate", "confirm"},
           ~ crossed /\ linkOpen /\ doc.marked => plugged.key = doc.key
    PROVE  SessionInv'
  <1> DEFINE todo == Tail(Top.todo)
  <1>1. todo # <<>>
    <2> SUFFICES ASSUME todo = <<>> PROVE FALSE OBVIOUS
    <2>1. Ends(Top.of, Step) BY TopLast
    <2> QED BY <2>1 DEF Ends
  <1>2. /\ IsPlan(Top.of, todo) /\ Follows(Top.of, Step, Head(todo)) /\ EndsAlike(todo)
    BY <1>1, TopTail
  <1>3. Head(todo)[1] = "status"
    <2> HIDE DEF todo
    <2> QED BY <1>2 DEF Follows
  <1>4. Claims(Head(todo))
    <2> SUFFICES ASSUME ~ crossed, NEW g, g.of = Top.of, g.sure = Top.sure,
                        g.sends = Top.sends, g.state = "runs", Head(g.todo) = Head(todo)
                 PROVE  /\ Gated(g, linkOpen', doc', plugged)
                        /\ Trusted(g, linkOpen', plugged, proved)
      BY DEF Claims, ClaimsOf
    <2>1. Trusted(Top, linkOpen, plugged, proved) BY SoleClaims
    <2>2. Beyond(Top) BY DEF Beyond, Step
    <2>3. Head(g.todo)[1] = "status" BY <1>3
    <2>4. Gated(g, linkOpen', doc', plugged) BY <2>3 DEF Gated
    <2>5. Trusted(g, linkOpen', plugged, proved) BY <2>1, <2>2, <2>3 DEF Trusted
    <2> QED BY <2>4, <2>5
  <1>5. GoesOn(todo) BY DEF GoOn
  <1>6. Step[1] \notin Fresh BY DEF Fresh, Identifying
  <1> HIDE DEF todo
  <1> QED BY <1>1, <1>2, <1>4, <1>5, <1>6, OnwardTo DEF Keeps

\* Step x is put in the place of one that was answered.
LEMMA PutKeeps ==
    ASSUME NEW x, x \in AnyStep, SessionInv, flows # <<>>, Tail(Top.todo) # <<>>,
           GoesOn(<<x>> \o Tail(Top.todo)), Belongs(Top.of, x),
           Follows(Top.of, x, Head(Tail(Top.todo))), Keeps, Top.state # "waits",
           Step[1] \in Fresh => Top.state # "runs",
           Claims(x)
    PROVE  SessionInv'
  <1> DEFINE rest == Tail(Top.todo)  todo == <<x>> \o rest
  <1>1. IsPlan(Top.of, rest) /\ EndsAlike(rest) BY TopTail
  <1>2. Follows(Top.of, x, Head(rest)) /\ GoesOn(todo) OBVIOUS
  <1> HIDE DEF rest
  <1>3. IsPlan(Top.of, todo) /\ Head(todo) = x /\ todo[Len(todo)] = rest[Len(rest)]
    BY <1>1, <1>2, PlanPut
  <1> HIDE DEF todo
  <1>4. EndsAlike(todo)
    <2>1. rest[Len(rest)] = Top.todo[Len(Top.todo)] \/ EndsAlike(todo)
      BY <1>1, <1>3 DEF EndsAlike, StartsGet
    <2> QED BY <1>3, <2>1 DEF EndsAlike
  <1>5. todo # <<>> BY <1>3, PlanFacts
  <1>6. Claims(Head(todo)) BY <1>3
  <1> QED BY <1>2, <1>3, <1>4, <1>5, <1>6, OnwardTo DEF Keeps

\* The next step of a proof is put in the place of one.
LEMMA TryKeeps ==
    ASSUME NEW x, x \in AnyStep, SessionInv, flows # <<>>, Step[1] \in Proving,
           x[1] \in Proving \ {"state"}, x[2] = Step[2], x[1] = "key" => x[2] = "comms",
           GoesOn(<<x>> \o Tail(Top.todo)), Keeps, Top.state # "waits", linkOpen' = linkOpen,
           Step[1] \in Fresh => Top.state # "runs"
    PROVE  SessionInv'
  <1> DEFINE rest == Tail(Top.todo)
  <1>1. Step \in AnyStep /\ Belongs(Top.of, Step) /\ Top.of \in Of BY TopPlan
  <1>2. rest # <<>>
    <2> SUFFICES ASSUME rest = <<>> PROVE FALSE OBVIOUS
    <2>1. Ends(Top.of, Step) BY TopLast
    <2> QED BY <2>1 DEF Ends, Proving
  <1>3. Follows(Top.of, Step, Head(rest)) BY <1>2, TopTail
  <1>4. Follows(Top.of, x, Head(rest))
    <2> DEFINE of == Top.of  a == Step  b == Head(rest)
    <2>1. Follows(of, a, b) /\ a[1] \in Proving /\ x[1] \in Proving /\ x[2] = a[2] BY <1>3
    <2> HIDE DEF of, a, b
    <2>2. Follows(of, x, b) BY <2>1 DEF Follows, Proving
    <2> QED BY <2>2 DEF of, a, b
  <1>5. Belongs(Top.of, x)
    <2>1. \A of, a : /\ Belongs(of, a) /\ a[1] \in Proving /\ x[2] = a[2]
                     => Belongs(of, x)
      BY DEF Belongs, HasKind, Proving, Identifying, Gets
    <2> QED BY <1>1, <2>1
  <1>6. Claims(x)
    <2> SUFFICES ASSUME ~ crossed, NEW g, g.of = Top.of, g.sure = Top.sure,
                        g.sends = Top.sends, g.state = "runs", Head(g.todo) = x
                 PROVE  /\ Gated(g, linkOpen', doc', plugged)
                        /\ Trusted(g, linkOpen', plugged, proved)
      BY DEF Claims, ClaimsOf
    <2> DEFINE f == Top
    <2>1. Trusted(f, linkOpen, plugged, proved) BY SoleClaims
    <2>2. /\ g.of = f.of /\ g.sure = f.sure /\ Head(f.todo)[1] \in Proving
          /\ Head(g.todo)[1] \in Proving /\ Head(g.todo)[2] = Head(f.todo)[2]
      BY DEF Step
    <2> HIDE DEF f
    <2>3. Gated(g, linkOpen, doc', plugged) /\ Trusted(g, linkOpen, plugged, proved)
      BY <2>1, <2>2, ProvingClaims
    <2> QED BY <2>3
  <1> HIDE DEF rest
  <1> QED BY <1>2, <1>4, <1>5, <1>6, PutKeeps DEF rest

\* Without the Protected Comms password a Get goes on; anything else ends.
LEMMA AbandonKeeps ==
    ASSUME SessionInv, flows # <<>>, Abandon, Top.state # "waits",
           UNCHANGED <<plugged, proved, transfers, queue, hasDocument, crossed, surprised,
                       linkOpen, doc, getInProgress>>,
           hardware' \in Units \union {NoUnit}, enabled' \in BOOLEAN
    PROVE  SessionInv'
  <1>1. TypeOK /\ PortInv BY DEF SessionInv
  <1>2. CASE Top.of = "unlock" /\ Len(Step) = 2 /\ Step[2] = "comms"
    <2>1. GoOn /\ monitorAfterGet' = monitorAfterGet /\ unread' = unread
      BY <1>2 DEF Abandon
    <2>2. Keeps BY <1>1, <2>1 DEF Keeps, Leaves, TypeOK, PortInv
    <2>3. Step[1] \in Proving
      <3>1. Step \in AnyStep BY TopPlan
      <3> QED BY <1>2, <3>1, StepFacts
    <2>4. Top.of \in Handlers BY <1>2 DEF Handlers
    <2> QED BY <1>2, <2>1, <2>2, <2>3, <2>4, ProvedKeeps
  <1>3. CASE ~ (Top.of = "unlock" /\ Len(Step) = 2 /\ Step[2] = "comms")
    <2>1. /\ GoesOn(<<>>)
          /\ monitorAfterGet' = (monitorAfterGet /\ ~ForgetsMonitor)
          /\ unread' = (unread \/ (Top.of = "unlock" /\ Step[1] = "capacity"))
      BY <1>3 DEF Abandon
    <2>2. Keeps BY <1>1, <2>1 DEF Keeps, Leaves, TypeOK, PortInv
    <2>3. monitorAfterGet' /\ Minds(Top) => unread' \/ getInProgress'
      BY <2>1 DEF ForgetsMonitor, Minds
    <2> QED BY <2>1, <2>2, <2>3, Homeward
  <1> QED BY <1>2, <1>3

-----------------------------------------------------------------------------
(* The actions: a flow alone *)

\* Pass: steps that ask no one.
LEMMA PassKeeps ==
    ASSUME SessionInv, Pass
    PROVE  SessionInv'
  <1>1. /\ flows # <<>> /\ Top.state = "runs" /\ ~ Applies /\ GoOn
        /\ Step[1] \in {"connect", "monitor", "gate", "marks", "report", "usbMode", "board"}
    BY DEF Pass, Runs
  <1>2. Keeps
    BY DEF Pass, Keeps, Leaves, SessionInv, TypeOK, PortInv, unitVars, windowVars, docVars,
           histories
  <1>3. UNCHANGED <<linkOpen, doc>> BY DEF Pass, windowVars, docVars
  <1>4. CASE Step[1] = "gate"
    <2>1. ~ doc.marked BY <1>1, <1>4 DEF Applies
    <2> QED BY <1>1, <1>2, <1>3, <1>4, <2>1, CheckedKeeps
  <1>5. CASE Step[1] # "gate"
    <2>1. Step[1] \notin Proving \union {"gate", "confirm", "mapped", "reset", "start"}
      BY <1>1, <1>5 DEF Proving
    <2> QED BY <1>1, <1>2, <1>3, <2>1, GoOnKeeps
  <1> QED BY <1>4, <1>5

\* MapDocument: mapping the document, which reads it.
LEMMA MapDocumentKeeps ==
    ASSUME SessionInv, MapDocument
    PROVE  SessionInv'
  <1>1. flows # <<>> /\ Top.state = "runs" /\ Step[1] = "mapped" BY DEF MapDocument, Runs
  <1>2. /\ UNCHANGED <<plugged, proved, linkOpen, hardware, enabled, transfers, queue, hasDocument,
                       doc, getInProgress, crossed, surprised>>
    BY DEF MapDocument, unitVars, docVars
  <1>3. CASE Abandon
    <2>1. hardware' \in Units \union {NoUnit} /\ enabled' \in BOOLEAN
      BY <1>2 DEF SessionInv, TypeOK
    <2> QED BY <1>1, <1>2, <1>3, <2>1, AbandonKeeps
  <1>4. CASE /\ flows' = [flows EXCEPT ![Len(flows)].todo = Tail(@),
                                       ![Len(flows)].sends = doc]
             /\ UNCHANGED <<inFlight, monitorAfterGet, unread>>
    <2> DEFINE todo == Tail(Top.todo)  n == Len(flows)
               g == [Top EXCEPT !.todo = todo, !.sends = doc]
    <2>1. /\ flows \in Seq(AnyFlow) /\ n \in Nat /\ n >= 1 /\ Top \in AnyFlow
          /\ todo \in Seq(AnyStep)
      BY <1>1, TopPlan
    <2>2. todo # <<>>
      <3> SUFFICES ASSUME todo = <<>> PROVE FALSE OBVIOUS
      <3>1. Ends(Top.of, Step) BY <1>1, TopLast
      <3> QED BY <1>1, <3>1 DEF Ends
    <2>3. /\ IsPlan(Top.of, todo) /\ Follows(Top.of, Step, Head(todo)) /\ EndsAlike(todo)
      BY <1>1, <2>2, TopTail
    <2>4. Head(todo)[1] = "fit" BY <1>1, <2>3 DEF Follows
    <2>5. flows' = [flows EXCEPT ![n] = g]
      BY <1>4 DEF Top
    <2>6. /\ g \in AnyFlow /\ g.of = Top.of /\ g.todo = todo /\ g.state = "runs"
          /\ g.sure = Top.sure /\ g.sends = doc
      <3>1. doc \in AnyDocument BY DEF SessionInv, TypeOK
      <3> HIDE DEF todo
      <3> QED BY <1>1, <2>1, <3>1 DEF AnyFlow
    <2> HIDE DEF g, todo
    <2>7. Turns(todo) /\ flows'[n] = g
      BY <2>1, <2>5, <2>6 DEF Turns
    <2>8. Leaves BY <1>2, <1>4 DEF Leaves, SessionInv, TypeOK, PortInv
    <2>9. ~ crossed /\ Len(flows) = 1
             => /\ Gated(flows'[1], linkOpen', doc', plugged)
                /\ Trusted(flows'[1], linkOpen', plugged, proved)
      <3> SUFFICES ASSUME ~ crossed, Len(flows) = 1
                   PROVE  Gated(g, linkOpen, doc, plugged) /\ Trusted(g, linkOpen, plugged, proved)
        BY <1>2, <2>7
      <3>1. Gated(Top, linkOpen, doc, plugged) /\ Trusted(Top, linkOpen, plugged, proved)
        BY <1>1, SoleClaims
      <3>2. Head(g.todo)[1] = "fit" BY <2>4, <2>6
      <3>3. Head(Top.todo)[1] = "mapped" BY <1>1 DEF Step
      <3>4. Gated(g, linkOpen, doc, plugged) BY <2>6, <3>1, <3>2, <3>3 DEF Gated
      <3>5. Trusted(g, linkOpen, plugged, proved)
        BY <2>6, <3>1, <3>2, <3>3 DEF Trusted, Beyond
      <3> QED BY <3>4, <3>5
    <2>10. Step[1] \notin Fresh BY <1>1 DEF Fresh, Identifying
    <2> QED BY <1>1, <1>4, <2>3, <2>7, <2>8, <2>9, <2>10, Onward
  <1> QED BY <1>3, <1>4 DEF MapDocument

\* UserAnswers: the boxes and password prompts.
LEMMA UserAnswersKeeps ==
    ASSUME SessionInv, UserAnswers
    PROVE  SessionInv'
  <1>1. flows # <<>> /\ Top.state = "runs" /\ Step[1] \in {"ask", "prompt", "told"}
    BY DEF UserAnswers, Runs
  <1>2. /\ UNCHANGED <<plugged, proved, linkOpen, hardware, enabled, transfers, queue, hasDocument,
                       doc, getInProgress, crossed, surprised>>
    BY DEF UserAnswers, unitVars, docVars
  <1>3. CASE Abandon
    <2>1. hardware' \in Units \union {NoUnit} /\ enabled' \in BOOLEAN
      BY <1>2 DEF SessionInv, TypeOK
    <2> QED BY <1>1, <1>2, <1>3, <2>1, AbandonKeeps
  <1>4. CASE Step[1] # "prompt" /\ GoOn /\ UNCHANGED <<monitorAfterGet, unread>>
    <2>1. Keeps BY <1>2, <1>4 DEF Keeps, Leaves, SessionInv, TypeOK, PortInv
    <2>2. Step[1] \notin Proving \union {"gate", "confirm", "mapped", "reset", "start"}
      BY <1>1, <1>4 DEF Proving
    <2> QED BY <1>1, <1>2, <1>4, <2>1, <2>2, GoOnKeeps
  <1>5. CASE /\ Step[1] = "prompt" /\ GoesOn(<<<<"prove", Step[2]>>>> \o Tail(Top.todo))
             /\ UNCHANGED <<monitorAfterGet, unread>>
    <2> DEFINE x == <<"prove", Step[2]>>
    <2>1. Keeps BY <1>2, <1>5 DEF Keeps, Leaves, SessionInv, TypeOK, PortInv
    <2>2. Step[1] \in Proving /\ Step[1] \notin Fresh /\ Step[1] # "key"
      BY <1>5 DEF Proving, Fresh, Identifying
    <2>3. linkOpen' = linkOpen BY <1>2
    <2>4. /\ x \in AnyStep /\ x[1] = "prove" /\ x[2] = Step[2]
      <3>1. Step \in AnyStep BY <1>1, TopPlan
      <3>2. Step[2] \in Functions BY <1>5, <3>1, StepFacts DEF Plain
      <3> QED BY <3>2, ListsAreSteps DEF Proving
    <2> HIDE DEF x
    <2>5. GoesOn(<<x>> \o Tail(Top.todo)) BY <1>5 DEF x
    <2>6. x[1] \in Proving \ {"state"} /\ x[1] # "key" BY <2>4 DEF Proving
    <2> QED BY <1>1, <2>1, <2>2, <2>3, <2>4, <2>5, <2>6, TryKeeps
  <1> QED BY <1>3, <1>4, <1>5 DEF UserAnswers

\* UserConnects: the Connect dialog opens the link.
LEMMA UserConnectsKeeps ==
    ASSUME SessionInv, UserConnects
    PROVE  SessionInv'
  <1>1. flows # <<>> /\ Top.state = "runs" /\ Step[1] = "connect"
    BY DEF UserConnects, Runs
  <1>2. /\ UNCHANGED <<plugged, proved, hardware, enabled, transfers, queue, hasDocument,
                       doc, getInProgress, crossed, surprised>>
    BY DEF UserConnects, unitVars, docVars
  <1>3. CASE linkOpen' = linkOpen /\ Abandon
    <2>1. hardware' \in Units \union {NoUnit} /\ enabled' \in BOOLEAN
      BY <1>2 DEF SessionInv, TypeOK
    <2> QED BY <1>1, <1>2, <1>3, <2>1, AbandonKeeps
  <1>4. CASE /\ plugged # NoUnit /\ linkOpen' = TRUE
             /\ GoesOn(Identify \o Tail(Top.todo)) /\ UNCHANGED <<monitorAfterGet, unread>>
    <2> DEFINE rest == Tail(Top.todo)  todo == Identify \o rest
    <2>1. Keeps BY <1>2, <1>4 DEF Keeps, Leaves, SessionInv, TypeOK
    <2>2. /\ Top.of \in Of /\ Belongs(Top.of, Step) /\ Step \in AnyStep /\ rest \in Seq(AnyStep)
      BY <1>1, TopPlan
    <2>3. IsPlan(Top.of, todo) /\ Head(todo)[1] = "hardware" /\ EndsAlike(todo)
      <3>1. CASE rest = <<>>
        <4>1. Ends(Top.of, Step) BY <1>1, <3>1, TopLast
        <4>2. Top.of = "connect" BY <1>1, <4>1 DEF Ends
        <4>3. todo = Identify BY <3>1, ListIdentify, ConcatEmptySeq
        <4>4. IsPlan(Top.of, Identify) /\ Head(Identify)[1] = "hardware" BY <4>2, IdentifyPlan
        <4> QED BY <4>2, <4>3, <4>4 DEF EndsAlike
      <3>2. CASE rest # <<>>
        <4>1. /\ IsPlan(Top.of, rest) /\ Follows(Top.of, Step, Head(rest)) /\ EndsAlike(rest)
          BY <1>1, <3>2, TopTail
        <4>2. Head(rest)[1] \in {"state", "monitor"} BY <1>1, <4>1 DEF Follows
        <4>3. Top.of # "unlock" BY <1>1, <2>2 DEF Belongs, HasKind, Proving, Identifying
        <4> HIDE DEF rest
        <4>4. /\ IsPlan(Top.of, todo) /\ Head(todo)[1] = "hardware"
              /\ todo[Len(todo)] = rest[Len(rest)]
          BY <4>1, <4>2, <4>3, IdentifyFirst
        <4> HIDE DEF todo
        <4>5. EndsAlike(todo) BY <4>1, <4>4 DEF EndsAlike, StartsGet
        <4> QED BY <4>4, <4>5
      <3> QED BY <3>1, <3>2
    <2>4. GoesOn(todo) BY <1>4
    <2> HIDE DEF todo
    <2>5. todo # <<>> BY <2>3, PlanFacts
    <2>6. Claims(Head(todo)) BY <2>3, FreshClaimed
    <2>7. Head(todo)[1] \in Fresh BY <2>3 DEF Fresh, Identifying
    <2> QED BY <1>1, <2>1, <2>3, <2>4, <2>5, <2>6, <2>7, OnwardTo DEF Keeps
  <1> QED BY <1>3, <1>4 DEF UserConnects

\* UserMonitors: the choice of what to monitor.
LEMMA UserMonitorsKeeps ==
    ASSUME SessionInv, UserMonitors
    PROVE  SessionInv'
  <1>1. flows # <<>> /\ Top.state = "runs" /\ Step[1] = "monitor" /\ ~ hasDocument
    BY DEF UserMonitors, Runs, Applies
  <1>2. /\ UNCHANGED <<plugged, proved, linkOpen, hardware, enabled, transfers, queue, hasDocument,
                       doc, getInProgress, crossed, surprised, unread>>
    BY DEF UserMonitors, unitVars, docVars, histories
  <1>3. /\ Top.of \in Of /\ Belongs(Top.of, Step) /\ Step \in AnyStep
    BY <1>1, TopPlan
  <1>4. CASE GoOn /\ UNCHANGED monitorAfterGet
    <2>1. Keeps BY <1>2, <1>4 DEF Keeps, Leaves, SessionInv, TypeOK, PortInv
    <2>2. Step[1] \notin Proving \union {"gate", "confirm", "mapped", "reset", "start"}
      BY <1>1 DEF Proving
    <2> QED BY <1>1, <1>2, <1>4, <2>1, <2>2, GoOnKeeps
  <1>5. CASE monitorAfterGet' = TRUE /\ GoesOn(GetSteps)
    <2>1. Leaves BY <1>2, <1>5 DEF Leaves, SessionInv, TypeOK, PortInv
    <2>2. Top.of \in {"monitor", "got"}
      BY <1>1, <1>3 DEF Belongs, HasKind, Identifying, Gets, Proving
    <2>3. Top.of # "got"
      <3> SUFFICES ASSUME Top.of = "got" PROVE FALSE OBVIOUS
      <3>1. Tail(Top.todo) = <<>>
        <4> SUFFICES ASSUME Tail(Top.todo) # <<>> PROVE FALSE OBVIOUS
        <4>1. Follows(Top.of, Step, Head(Tail(Top.todo))) BY <1>1, TopTail
        <4> QED BY <1>1, <4>1 DEF Follows
      <3>2. Step = Top.todo[Len(Top.todo)] BY <1>1, <3>1, TopLast
      <3>3. Len(flows) \in 1 .. Len(flows) BY <1>1, TopPlan
      <3> QED BY <1>1, <3>2, <3>3 DEF SessionInv, MonitorInv, Top
    <2>4. /\ IsPlan(Top.of, GetSteps) /\ Head(GetSteps)[1] = "connect"
          /\ GetSteps[Len(GetSteps)][1] = "start"
      BY <2>2, <2>3, GetPlan DEF Gets
    <2>5. StartsGet(GetSteps) BY <2>2, <2>3, <2>4 DEF StartsGet
    <2>6. EndsAlike(GetSteps) BY <2>5 DEF EndsAlike
    <2>7. GetSteps # <<>> BY <2>4, PlanFacts
    <2>8. Claims(Head(GetSteps)) BY <2>4, FreshClaimed
    <2>9. Head(GetSteps)[1] \in Fresh BY <2>4 DEF Fresh, Identifying
    <2> QED BY <1>1, <1>5, <2>1, <2>4, <2>5, <2>6, <2>7, <2>8, <2>9, OnwardTo
  <1> QED BY <1>4, <1>5 DEF UserMonitors

\* Show: the unit's hardware is shown.
LEMMA ShowKeeps ==
    ASSUME SessionInv, Show
    PROVE  SessionInv'
  <1>1. flows # <<>> /\ Top.state = "runs" /\ Step[1] = "show"
    BY DEF Show, Runs
  <1>2. /\ UNCHANGED <<plugged, proved, linkOpen, enabled, transfers, queue, hasDocument,
                       doc, getInProgress, crossed, surprised>>
    BY DEF Show, unitVars, docVars
  <1>3. hardware' \in Units \union {NoUnit} /\ enabled' \in BOOLEAN
    BY <1>2 DEF Show, SessionInv, TypeOK
  <1>4. CASE Abandon BY <1>1, <1>2, <1>3, <1>4, AbandonKeeps
  <1>5. CASE GoOn /\ UNCHANGED <<monitorAfterGet, unread>>
    <2>1. Keeps BY <1>2, <1>3, <1>5 DEF Keeps, Leaves, SessionInv, TypeOK, PortInv
    <2>2. Step[1] \notin Proving \union {"gate", "confirm", "mapped", "reset", "start"}
      BY <1>1 DEF Proving
    <2> QED BY <1>1, <1>2, <1>5, <2>1, <2>2, GoOnKeeps
  <1> QED BY <1>4, <1>5 DEF Show

\* GetFinished: the document of a Get, and the monitor that waited for it.
LEMMA GetFinishedKeeps ==
    ASSUME SessionInv, GetFinished
    PROVE  SessionInv'
  <1>1. flows # <<>> /\ Top.state = "runs" /\ Step[1] = "finished"
    BY DEF GetFinished, Runs
  <1>2. /\ UNCHANGED <<plugged, proved, linkOpen, hardware, enabled, transfers, queue, hasDocument,
                       doc, crossed, surprised, unread>>
        /\ getInProgress' = FALSE /\ monitorAfterGet' = FALSE
    BY DEF GetFinished, unitVars, docVars, histories
  <1>3. Keeps BY <1>2 DEF Keeps, Leaves, SessionInv, TypeOK, PortInv
  <1>4. CASE ~ (monitorAfterGet /\ hasDocument)
    <2>1. GoesOn(<<>>) BY <1>4 DEF GetFinished
    <2> QED BY <1>1, <1>2, <1>3, <2>1, Homeward
  <1>5. CASE monitorAfterGet /\ hasDocument
    <2> DEFINE todo == Connecting \o <<<<"monitor">>>>
    <2>1. GoesOn(todo) BY <1>5 DEF GetFinished
    <2>2. Top.of = "got"
      <3>1. Belongs(Top.of, Step) BY <1>1, TopPlan
      <3> QED BY <1>1, <3>1 DEF Belongs, HasKind, Identifying, Gets, Proving
    <2>3. IsPlan(Top.of, todo) /\ Head(todo)[1] = "connect" BY <2>2, MonitorsPlan
    <2> HIDE DEF todo
    <2>4. EndsAlike(todo) BY <1>5, <2>2 DEF EndsAlike
    <2>5. todo # <<>> BY <2>3, PlanFacts
    <2>6. Claims(Head(todo)) BY <2>3, FreshClaimed
    <2>7. Head(todo)[1] \in Fresh BY <2>3 DEF Fresh, Identifying
    <2> QED BY <1>1, <1>2, <1>3, <2>1, <2>3, <2>4, <2>5, <2>6, <2>7, OnwardTo DEF Keeps
  <1> QED BY <1>4, <1>5

\* Reopen: the link is opened again behind a restart.
LEMMA ReopenKeeps ==
    ASSUME SessionInv, Reopen
    PROVE  SessionInv'
  <1>1. flows # <<>> /\ Top.state = "runs" /\ Step[1] = "reopen"
    BY DEF Reopen, Runs
  <1>2. UNCHANGED <<plugged, proved, hardware, enabled, transfers, queue, hasDocument,
                    doc, getInProgress, monitorAfterGet, crossed, surprised, unread>>
    BY DEF Reopen, unitVars, docVars, windowVars, histories
  <1>3. CASE linkOpen' = linkOpen /\ GoOn
    <2>1. Keeps BY <1>2, <1>3 DEF Keeps, Leaves, SessionInv, TypeOK, PortInv
    <2>2. Step[1] \notin Proving \union {"gate", "confirm", "mapped", "reset", "start"}
      BY <1>1 DEF Proving
    <2> QED BY <1>1, <1>2, <1>3, <2>1, <2>2, GoOnKeeps
  <1>4. CASE plugged # NoUnit /\ linkOpen' = TRUE /\ GoesOn(Identify)
    <2>1. Keeps BY <1>2, <1>4 DEF Keeps, Leaves, SessionInv, TypeOK
    <2>2. Top.of \in {"reset", "sent"}
      <3>1. Belongs(Top.of, Step) BY <1>1, TopPlan
      <3> QED BY <1>1, <3>1 DEF Belongs, HasKind, Identifying, Gets, Proving
    <2>3. IsPlan(Top.of, Identify) /\ Head(Identify)[1] = "hardware" BY <2>2, IdentifyPlan
    <2>4. EndsAlike(Identify) BY <2>2 DEF EndsAlike
    <2>5. Identify # <<>> BY <2>3, PlanFacts
    <2>6. Claims(Head(Identify)) BY <2>3, FreshClaimed
    <2>7. Head(Identify)[1] \in Fresh BY <2>3 DEF Fresh, Identifying
    <2> QED BY <1>1, <1>4, <2>1, <2>3, <2>4, <2>5, <2>6, <2>7, OnwardTo DEF Keeps
  <1> QED BY <1>3, <1>4 DEF Reopen

-----------------------------------------------------------------------------
(* The actions: an answer is taken *)

\* What taking an answer leaves alone.
LEMMA ReturnKept ==
    ASSUME SessionInv, Return
    PROVE  /\ flows # <<>> /\ Top.state \notin {"runs", "waits"} /\ Step[1] \in Request
           /\ UNCHANGED <<plugged, proved, linkOpen, transfers, queue, hasDocument,
                          getInProgress, crossed, surprised>>
           /\ enabled' \in BOOLEAN /\ hardware' \in Units \union {NoUnit} /\ doc' \in AnyDocument
           /\ Top.state # "ok" \/ Step[1] # "prove" => doc' = doc
           /\ monitorAfterGet' = monitorAfterGet /\ unread' = unread => Keeps
  <1>1. flows # <<>> /\ Top.state \notin {"runs", "waits"} BY DEF Return
  <1>2. Step \in AnyStep /\ Top \in AnyFlow /\ Step[1] \in Request BY <1>1, TopPlan
  <1>3. UNCHANGED <<plugged, proved, linkOpen, transfers, queue, hasDocument,
                    getInProgress, crossed, surprised>>
    BY DEF Return, unitVars
  <1>4. TypeOK /\ PortInv BY DEF SessionInv
  <1>5. enabled' \in BOOLEAN BY DEF Return
  <1>6. hardware' \in Units \union {NoUnit}
    <2>1. hardware' = Top.unit \/ hardware' = hardware BY DEF Return
    <2>2. Top.unit \in Units \union {NoUnit} BY <1>2 DEF AnyFlow
    <2> QED BY <1>4, <2>1, <2>2 DEF TypeOK
  <1>7. doc' \in AnyDocument
    <2>1. doc' = doc \/ doc' = [doc EXCEPT !.key = Top.unit.key] BY DEF Return
    <2>2. Top.unit.key \in Keys
      <3>1. Top.unit \in Units \union {NoUnit} BY <1>2 DEF AnyFlow
      <3> QED BY <3>1 DEF Keys, NoUnit
    <2>3. doc \in AnyDocument BY <1>4 DEF TypeOK
    <2> QED BY <2>1, <2>2, <2>3 DEF AnyDocument
  <1>8. Top.state # "ok" \/ Step[1] # "prove" => doc' = doc BY DEF Return
  <1>9. monitorAfterGet' = monitorAfterGet /\ unread' = unread => Keeps
    BY <1>3, <1>4, <1>5, <1>6, <1>7 DEF Keeps, Leaves, TypeOK, PortInv
  <1> QED BY <1>1, <1>2, <1>3, <1>5, <1>6, <1>7, <1>8, <1>9

\* The unit's state says what is left to prove.
LEMMA StateReturns ==
    ASSUME SessionInv, Return, Step[1] = "state", Top.state = "ok",
           GoesOn(Proves(Step[2]) \o Tail(Top.todo)), Keeps
    PROVE  SessionInv'
  <1>1. /\ flows # <<>> /\ Top.state \notin {"runs", "waits"} /\ linkOpen' = linkOpen
    BY ReturnKept
  <1>2. Step \in AnyStep /\ Tail(Top.todo) \in Seq(AnyStep) BY <1>1, TopPlan
  <1>3. Step[2] \in Functions BY <1>2, StepFacts DEF Plain
  <1>4. Step[1] \in Proving BY DEF Proving
  <1>5. CASE Step[2] \notin Top.unit.guards
    <2>1. Proves(Step[2]) = <<>> BY <1>5 DEF Proves
    <2>2. GoesOn(Tail(Top.todo)) BY <1>2, <2>1, ConcatEmptySeq
    <2>3. GoOn BY <2>2 DEF GoOn
    <2>4. ~ crossed /\ linkOpen => Top.unit = plugged
      <3> SUFFICES ASSUME ~ crossed, linkOpen PROVE Top.unit = plugged OBVIOUS
      <3>1. Trusted(Top, linkOpen, plugged, proved) BY <1>1, SoleClaims
      <3> QED BY <3>1 DEF Trusted, Step
    <2> QED BY <1>1, <1>4, <1>5, <2>3, <2>4, ProvedKeeps
  <1>6. ASSUME NEW x, x \in {<<"key", Step[2]>>, <<"again", Step[2]>>},
               GoesOn(<<x>> \o Tail(Top.todo)), x[1] = "key" => Step[2] = "comms"
        PROVE  SessionInv'
    <2>1. x \in AnyStep /\ x[1] \in Proving \ {"state"} /\ x[2] = Step[2]
      BY <1>3, <1>6, ListsAreSteps DEF Proving
    <2> QED BY <1>1, <1>4, <1>6, <2>1, TryKeeps
  <1>7. CASE Step[2] \in Top.unit.guards /\ Step[2] = "comms" /\ doc.key # "none"
    <2> DEFINE x == <<"key", Step[2]>>
    <2>1. Proves(Step[2]) = <<x>> BY <1>7 DEF Proves
    <2> QED BY <1>6, <1>7, <2>1
  <1>8. CASE Step[2] \in Top.unit.guards /\ ~ (Step[2] = "comms" /\ doc.key # "none")
    <2> DEFINE x == <<"again", Step[2]>>
    <2>1. Proves(Step[2]) = <<x>> BY <1>8 DEF Proves
    <2>2. x[1] # "key" OBVIOUS
    <2> QED BY <1>6, <2>1, <2>2
  <1> QED BY <1>5, <1>7, <1>8

\* A protected document is confirmed to the unit before it is sent.
LEMMA GateReturns ==
    ASSUME SessionInv, Return, Step[1] = "gate", Top.state = "ok",
           GoesOn(<<<<"confirm">>>> \o Tail(Top.todo)), Keeps
    PROVE  SessionInv'
  <1>1. /\ flows # <<>> /\ Top.state \notin {"runs", "waits"} /\ UNCHANGED <<linkOpen, doc>>
    BY ReturnKept
  <1>2. Step \in AnyStep /\ Belongs(Top.of, Step) BY <1>1, TopPlan
  <1>3. Top.of = "send"
    BY <1>2 DEF Belongs, HasKind, Identifying, Proving, Gets
  <1>4. Tail(Top.todo) # <<>>
    <2> SUFFICES ASSUME Tail(Top.todo) = <<>> PROVE FALSE OBVIOUS
    <2>1. Ends(Top.of, Step) BY <1>1, TopLast
    <2> QED BY <2>1 DEF Ends
  <1>5. Follows(Top.of, Step, Head(Tail(Top.todo))) BY <1>1, <1>4, TopTail
  <1>6. Head(Tail(Top.todo))[1] = "status" BY <1>5 DEF Follows
  <1> DEFINE x == <<"confirm">>
  <1>7. x \in AnyStep /\ x[1] = "confirm" BY ListsAreSteps DEF Plain
  <1> HIDE DEF x
  <1>8. Belongs(Top.of, x)
    BY <1>3, <1>7 DEF Belongs, HasKind, Identifying, Proving, Gets
  <1>9. Follows(Top.of, x, Head(Tail(Top.todo))) BY <1>6, <1>7 DEF Follows, Proving
  <1>10. Claims(x)
    <2> SUFFICES ASSUME ~ crossed, NEW g, g.of = Top.of, g.sure = Top.sure,
                        g.sends = Top.sends, g.state = "runs", Head(g.todo) = x
                 PROVE  /\ Gated(g, linkOpen', doc', plugged)
                        /\ Trusted(g, linkOpen', plugged, proved)
      BY DEF Claims, ClaimsOf
    <2>1. Trusted(Top, linkOpen, plugged, proved) BY <1>1, SoleClaims
    <2>2. Beyond(Top) BY DEF Beyond, Step
    <2>3. Head(g.todo)[1] = "confirm" BY <1>7
    <2>4. Gated(g, linkOpen', doc', plugged) BY <2>3 DEF Gated
    <2>5. Trusted(g, linkOpen', plugged, proved) BY <1>1, <2>1, <2>2, <2>3 DEF Trusted
    <2> QED BY <2>4, <2>5
  <1>11. GoesOn(<<x>> \o Tail(Top.todo)) BY DEF x
  <1>12. Step[1] \notin Fresh BY DEF Fresh, Identifying
  <1> QED BY <1>1, <1>4, <1>7, <1>8, <1>9, <1>10, <1>11, <1>12, PutKeeps

\* Protected sections nothing will guard are sent only if the user agrees.
LEMMA MarksReturn ==
    ASSUME SessionInv, Return, Step[1] = "marks", Top.state = "ok",
           GoesOn(<<<<"ask">>>> \o Tail(Top.todo)), Keeps
    PROVE  SessionInv'
  <1>1. /\ flows # <<>> /\ Top.state \notin {"runs", "waits"} /\ UNCHANGED <<linkOpen, doc>>
    BY ReturnKept
  <1>2. Step \in AnyStep /\ Belongs(Top.of, Step) BY <1>1, TopPlan
  <1>3. Top.of = "send"
    BY <1>2 DEF Belongs, HasKind, Identifying, Proving, Gets
  <1>4. Tail(Top.todo) # <<>>
    <2> SUFFICES ASSUME Tail(Top.todo) = <<>> PROVE FALSE OBVIOUS
    <2>1. Ends(Top.of, Step) BY <1>1, TopLast
    <2> QED BY <2>1 DEF Ends
  <1> DEFINE b == Head(Tail(Top.todo))
  <1>5. Follows(Top.of, Step, b) BY <1>1, <1>4, TopTail
  <1>6. b[1] = "uid" BY <1>5 DEF Follows
  <1> DEFINE x == <<"ask">>
  <1>7. x \in AnyStep /\ x[1] = "ask" BY ListsAreSteps DEF Plain
  <1> HIDE DEF x
  <1>8. Belongs(Top.of, x)
    BY <1>3, <1>7 DEF Belongs, HasKind, Identifying, Proving, Gets
  <1>9. Follows(Top.of, x, b) BY <1>3, <1>6, <1>7 DEF Follows, Proving, Gets
  <1>10. Claims(x)
    <2> SUFFICES ASSUME ~ crossed, NEW g, g.of = Top.of, g.sure = Top.sure,
                        g.sends = Top.sends, g.state = "runs", Head(g.todo) = x
                 PROVE  /\ Gated(g, linkOpen', doc', plugged)
                        /\ Trusted(g, linkOpen', plugged, proved)
      BY DEF Claims, ClaimsOf
    <2>1. Gated(Top, linkOpen, doc, plugged) /\ Trusted(Top, linkOpen, plugged, proved)
      BY <1>1, SoleClaims
    <2>2. Beyond(Top) BY DEF Beyond, Step
    <2>3. Head(g.todo)[1] = "ask" /\ Head(Top.todo)[1] = "marks" BY <1>7 DEF Step
    <2>4. Gated(g, linkOpen', doc', plugged) BY <1>1, <1>3, <2>1, <2>3 DEF Gated
    <2>5. Trusted(g, linkOpen', plugged, proved) BY <1>1, <2>1, <2>2, <2>3 DEF Trusted
    <2> QED BY <2>4, <2>5
  <1>11. GoesOn(<<x>> \o Tail(Top.todo)) BY DEF x
  <1>12. Step[1] \notin Fresh BY DEF Fresh, Identifying
  <1> QED BY <1>1, <1>4, <1>7, <1>8, <1>9, <1>10, <1>11, <1>12, PutKeeps

\* A unit that was reset is connected again if it is on USB.
LEMMA ResetReturns ==
    ASSUME SessionInv, Return, Step[1] = "reset", Top.state = "ok", Keeps,
           GoesOn((IF Top.unit.usb THEN Reconnect ELSE <<>>) \o Tail(Top.todo))
    PROVE  SessionInv'
  <1>1. flows # <<>> /\ Top.state \notin {"runs", "waits"} BY ReturnKept
  <1>2. Step \in AnyStep /\ Belongs(Top.of, Step) BY <1>1, TopPlan
  <1>3. Top.of = "reset" BY <1>2 DEF Belongs, HasKind, Identifying, Proving, Gets
  <1>4. Tail(Top.todo) = <<>>
    <2> SUFFICES ASSUME Tail(Top.todo) # <<>> PROVE FALSE OBVIOUS
    <2>1. Follows(Top.of, Step, Head(Tail(Top.todo))) BY <1>1, TopTail
    <2> QED BY <2>1 DEF Follows
  <1>5. CASE ~ Top.unit.usb
    <2>1. <<>> \o <<>> = <<>> OBVIOUS
    <2>2. GoesOn(<<>>) BY <1>4, <1>5, <2>1
    <2>3. ~ Minds(Top) BY <1>3 DEF Minds
    <2> QED BY <1>1, <2>2, <2>3, Homeward
  <1>6. CASE Top.unit.usb
    <2>1. IsPlan(Top.of, Reconnect) /\ Head(Reconnect)[1] = "close" BY <1>3, ReconnectPlan
    <2>2. Reconnect \in Seq(AnyStep) /\ Reconnect # <<>> BY <2>1, PlanFacts
    <2>3. GoesOn(Reconnect) BY <1>4, <1>6, <2>2, ConcatEmptySeq
    <2>4. EndsAlike(Reconnect) BY <1>3 DEF EndsAlike
    <2>5. Claims(Head(Reconnect)) BY <2>1, FreshClaimed
    <2> QED BY <1>1, <2>1, <2>2, <2>3, <2>4, <2>5, OnwardTo DEF Keeps
  <1> QED BY <1>5, <1>6

\* An answer that is "ok".
LEMMA OkReturns ==
    ASSUME SessionInv, Return, Top.state = "ok", GoesOn(Then \o Tail(Top.todo)), Keeps
    PROVE  SessionInv'
  <1>1. /\ flows # <<>> /\ Top.state \notin {"runs", "waits"} /\ linkOpen' = linkOpen
        /\ Step[1] \in Request /\ (Step[1] # "prove" => doc' = doc)
    BY ReturnKept
  <1>2. Step \in AnyStep /\ Belongs(Top.of, Step) /\ Tail(Top.todo) \in Seq(AnyStep)
    BY <1>1, TopPlan
  <1>3. CASE Step[1] = "state"
    <2>1. Then = Proves(Step[2]) BY <1>3 DEF Then
    <2> QED BY <1>3, <2>1, StateReturns
  <1>4. CASE Step[1] = "again"
    <2> DEFINE x == <<"prompt", Step[2]>>
    <2>1. Then = <<x>> BY <1>4 DEF Then
    <2>2. Step[2] \in Functions BY <1>2, <1>4, StepFacts DEF Plain
    <2>3. /\ x \in AnyStep /\ x[1] \in Proving \ {"state"} /\ x[2] = Step[2] /\ x[1] # "key"
      BY <2>2, ListsAreSteps DEF Proving
    <2>4. Step[1] \in Proving BY <1>4 DEF Proving
    <2> HIDE DEF x
    <2> QED BY <1>1, <2>1, <2>3, <2>4, TryKeeps
  <1>5. CASE Step[1] = "gate"
    <2>1. Then = <<<<"confirm">>>> BY <1>5 DEF Then
    <2> QED BY <1>5, <2>1, GateReturns
  <1>6. CASE Step[1] = "reset"
    <2>1. Then = IF Top.unit.usb THEN Reconnect ELSE <<>> BY <1>6 DEF Then
    <2> QED BY <1>6, <2>1, ResetReturns
  <1>8. CASE Step[1] = "marks" /\ "comms" \notin Top.unit.guards
    <2>1. Then = <<<<"ask">>>> BY <1>8 DEF Then
    <2> QED BY <1>8, <2>1, MarksReturn
  <1>7. CASE /\ Step[1] \notin {"state", "again", "gate", "reset"}
             /\ ~ (Step[1] = "marks" /\ "comms" \notin Top.unit.guards)
    <2>1. Then = <<>> BY <1>7 DEF Then
    <2>2. GoesOn(Tail(Top.todo)) BY <1>2, <2>1, ConcatEmptySeq
    <2>3. GoOn BY <2>2 DEF GoOn
    <2>4. CASE Step[1] = "confirm"
      <3>1. ~ crossed /\ linkOpen => plugged.key = doc.key
        <4> SUFFICES ASSUME ~ crossed, linkOpen PROVE plugged.key = doc.key OBVIOUS
        <4>1. Gated(Top, linkOpen, doc, plugged) BY <1>1, SoleClaims
        <4> QED BY <2>4, <4>1 DEF Gated, Step
      <3> QED BY <1>1, <2>3, <2>4, <3>1, CheckedKeeps
    <2>5. CASE Step[1] \in {"key", "prove"}
      <3>1. Step[1] \in Proving BY <2>5 DEF Proving
      <3>2. Step[1] = "key" => Step[2] = "comms" BY <1>2 DEF Belongs
      <3>3. ~ crossed /\ linkOpen /\ Top.sure
               => Step[2] \notin plugged.guards \ proved \/ Step[2] = "comms"
        <4> SUFFICES ASSUME ~ crossed, linkOpen, Top.sure, Step[1] = "prove"
                     PROVE  Step[2] \in proved
          BY <2>5, <3>2
        <4>1. Trusted(Top, linkOpen, plugged, proved) BY <1>1, SoleClaims
        <4> QED BY <4>1 DEF Trusted, Step
      <3> QED BY <1>1, <2>3, <3>1, <3>3, ProvedKeeps
    <2>6. CASE Step[1] \notin {"confirm", "key", "prove"}
      <3>1. Step[1] \notin Proving \union {"gate", "confirm", "mapped", "reset", "start"}
        BY <1>1, <1>7, <2>6 DEF Proving, Request
      <3>2. UNCHANGED <<linkOpen, doc>> BY <1>1, <2>6
      <3> QED BY <1>1, <2>3, <3>1, <3>2, GoOnKeeps
    <2> QED BY <2>4, <2>5, <2>6
  <1> QED BY <1>3, <1>4, <1>5, <1>6, <1>7, <1>8

\* Return: a nested event loop ends with the answer, or with what failed.
LEMMA ReturnKeeps ==
    ASSUME SessionInv, Return
    PROVE  SessionInv'
  <1>1. /\ flows # <<>> /\ Top.state \notin {"runs", "waits"} /\ Step[1] \in Request
        /\ UNCHANGED <<plugged, proved, linkOpen, transfers, queue, hasDocument,
                       getInProgress, crossed, surprised>>
        /\ enabled' \in BOOLEAN /\ hardware' \in Units \union {NoUnit} /\ doc' \in AnyDocument
        /\ (Top.state # "ok" \/ Step[1] # "prove" => doc' = doc)
        /\ (monitorAfterGet' = monitorAfterGet /\ unread' = unread => Keeps)
    BY ReturnKept
  <1>2. CASE Top.state = "ok" /\ GoesOn(Then \o Tail(Top.todo))
             /\ UNCHANGED <<monitorAfterGet, unread>>
    BY <1>1, <1>2, OkReturns
  <1>3. CASE /\ Top.state = "wrong" /\ Step[1] \in {"key", "prove"}
             /\ GoesOn(<<<<IF Step[1] = "key" THEN "again" ELSE "prompt", Step[2]>>>>
                         \o Tail(Top.todo))
             /\ UNCHANGED <<monitorAfterGet, unread>>
    <2> DEFINE x == <<IF Step[1] = "key" THEN "again" ELSE "prompt", Step[2]>>
    <2>1. Step[1] \in Proving /\ Step[1] \notin Fresh BY <1>3 DEF Proving, Fresh, Identifying
    <2>2. Step[2] \in Functions
      <3>1. Step \in AnyStep BY <1>1, TopPlan
      <3> QED BY <1>3, <3>1, StepFacts DEF Plain
    <2>3. /\ x \in AnyStep /\ x[1] \in Proving \ {"state"} /\ x[2] = Step[2] /\ x[1] # "key"
      BY <2>2, ListsAreSteps DEF Proving
    <2>4. GoesOn(<<x>> \o Tail(Top.todo)) BY <1>3
    <2> HIDE DEF x
    <2> QED BY <1>1, <1>3, <2>1, <2>3, <2>4, TryKeeps
  <1>4. CASE /\ Top.state \in {"lost", "refused"} /\ Step[1] \in Tolerated
             /\ GoOn /\ UNCHANGED <<monitorAfterGet, unread>>
    <2>1. Step[1] \notin Proving \union {"gate", "confirm", "mapped", "reset", "start"}
      BY <1>4 DEF Proving, Tolerated
    <2>2. UNCHANGED <<linkOpen, doc>> BY <1>1, <1>4
    <2> QED BY <1>1, <1>4, <2>1, <2>2, GoOnKeeps
  <1>5. CASE Top.state \in {"unfit", "wrong", "lost", "refused"} /\ Abandon
    <2>1. doc' = doc BY <1>1, <1>5
    <2> QED BY <1>1, <1>5, <2>1, AbandonKeeps
  <1> QED BY <1>2, <1>3, <1>4, <1>5 DEF Return

-----------------------------------------------------------------------------
(* The actions: a flow asks, and is answered *)

\* Who waits is a number.
LEMMA QueueTyped ==
    ASSUME TypeOK
    PROVE  queue \in Seq(Int) /\ queue \in Seq(Nat \union {-1, -2})
  <1>1. queue \in Seq(Nat \union {-1, -2}) BY DEF TypeOK
  <1>2. Nat \union {-1, -2} \subseteq Int OBVIOUS
  <1> QED BY <1>1, <1>2

\* A sequence of one and an element is a sequence of two.
LEMMA BehindOne ==
    ASSUME NEW x \in Int, NEW q \in Seq(Int), q = <<x>>
    PROVE  Append(q, 1) = <<x, 1>>
  <1> DEFINE a == Append(q, 1)  b == <<x, 1>>
  <1>1. /\ a \in Seq(Int) /\ Len(a) = 2 /\ a[1] = x /\ a[2] = 1
        /\ b \in Seq(Int) /\ Len(b) = 2 /\ b[1] = x /\ b[2] = 1
    OBVIOUS
  <1> HIDE DEF a, b
  <1>2. \A i \in 1 .. 2 : i = 1 \/ i = 2 OBVIOUS
  <1>3. \A i \in 1 .. Len(a) : a[i] = b[i] BY <1>1, <1>2
  <1>4. a = b BY <1>1, <1>3, SeqEqual
  <1> QED BY <1>4 DEF a, b

\* Flow n is g now, which is where it was.
LEMMA Answered ==
    ASSUME NEW n \in 1 .. Len(flows), NEW g \in AnyFlow, TypeOK,
           flows' = [flows EXCEPT ![n] = g], g.of = flows[n].of, g.todo = flows[n].todo,
           g.state # "runs" => flows[n].state # "runs" \/ Head(g.todo)[1] \in Request
    PROVE  Stays /\ flows'[n] = g /\ \A i \in 1 .. Len(flows) : i # n => flows'[i] = flows[i]
  <1>1. flows \in Seq(AnyFlow) BY DEF TypeOK
  <1>2. flows' \in Seq(AnyFlow) /\ Len(flows') = Len(flows) BY <1>1
  <1>3. flows'[n] = g /\ \A i \in 1 .. Len(flows) : i # n => flows'[i] = flows[i] BY <1>1
  <1> QED BY <1>2, <1>3 DEF Stays

\* The innermost flow waits, or has no link to ask.
LEMMA AskedKeeps ==
    ASSUME SessionInv, NEW g, flows # <<>>, Top.state = "runs",
           UNCHANGED <<plugged, proved, linkOpen, transfers, hasDocument, doc, getInProgress,
                       monitorAfterGet, crossed, unread, surprised>>,
           Stays, flows'[Len(flows)] = g,
           g.of = Top.of, g.todo = Top.todo, g.sends = Top.sends, g.sure = Top.sure,
           g.state \in {"waits", "lost"}, Step[1] = "confirm" => g.key = doc.key,
           TypeOK', QueueInv', ~ crossed => LineInv'
    PROVE  SessionInv'
  <1>1. TypeOK /\ PlanInv /\ PortInv /\ MonitorInv /\ SoleInv BY DEF SessionInv
  <1>2. PlanInv' BY <1>1, PlanStays
  <1>3. MonitorInv' BY <1>1, MonitorStays
  <1>4. PortInv' BY <1>1 DEF PortInv
  <1>5. SoleInv'
    <2> SUFFICES ASSUME ~ crossed
                 PROVE  /\ LineInv' /\ TransferInv' /\ ~ surprised'
                        /\ Gated(flows'[1], linkOpen', doc', plugged')
                        /\ Trusted(flows'[1], linkOpen', plugged', proved')
      BY DEF SoleInv
    <2>1. LineInv /\ TransferInv /\ ~ surprised BY <1>1 DEF SoleInv
    <2>2. Len(flows) = 1 BY <1>1, <2>1, SoleTop
    <2>3. Gated(Top, linkOpen, doc, plugged) /\ Trusted(Top, linkOpen, plugged, proved)
      BY SoleClaims
    <2>4. Gated(g, linkOpen, doc, plugged) /\ Trusted(g, linkOpen, plugged, proved)
      <3> DEFINE f == Top
      <3>1. /\ Gated(f, linkOpen, doc, plugged) /\ Trusted(f, linkOpen, plugged, proved)
            /\ g.of = f.of /\ g.sure = f.sure /\ g.sends = f.sends /\ g.todo = f.todo
            /\ f.state \in {"runs", "waits"} /\ g.state # "ok"
            /\ (g.state = "waits" /\ Head(f.todo)[1] = "confirm" => g.key = doc.key)
        BY <2>3 DEF Step
      <3> HIDE DEF f
      <3> QED BY <3>1, AskedClaims
    <2>5. TransferInv' BY <2>1, TransfersKept
    <2> QED BY <2>1, <2>2, <2>4, <2>5
  <1> QED BY <1>2, <1>3, <1>4, <1>5 DEF SessionInv

\* Ask: a request joins the queue, and a nested event loop starts.
LEMMA AskKeeps ==
    ASSUME SessionInv, Ask
    PROVE  SessionInv'
  <1> DEFINE n == Len(flows)
             state == IF linkOpen THEN "waits" ELSE "lost"
             key == IF Step[1] \in {"key", "gate", "confirm"} THEN doc.key ELSE "none"
             g == [Top EXCEPT !.state = state, !.key = key]
  <1>1. flows # <<>> /\ Top.state = "runs" /\ Step[1] \in Request BY DEF Ask, Runs
  <1>2. UNCHANGED <<plugged, proved, linkOpen, transfers, hasDocument, doc, getInProgress,
                    monitorAfterGet, crossed, unread, surprised>>
    BY DEF Ask, unitVars, windowVars, docVars, histories
  <1>3. TypeOK /\ PlanInv /\ QueueInv /\ PortInv /\ MonitorInv /\ SoleInv BY DEF SessionInv
  <1>4. flows \in Seq(AnyFlow) /\ n \in 1 .. Len(flows) /\ n \in Nat /\ Top \in AnyFlow
    BY <1>1, TopPlan
  <1>5. flows' = [flows EXCEPT ![n] = g] BY DEF Ask, Top
  <1>6. /\ g \in AnyFlow /\ g.of = Top.of /\ g.todo = Top.todo /\ g.state = state /\ g.key = key
        /\ g.sends = Top.sends /\ g.sure = Top.sure /\ g.unit = Top.unit
    <2>1. key \in Keys
      <3>1. doc.key \in Keys BY <1>3 DEF TypeOK, AnyDocument
      <3> QED BY <3>1 DEF Keys
    <2>2. state \in States BY DEF States
    <2> HIDE DEF key, state
    <2> QED BY <1>4, <2>1, <2>2 DEF AnyFlow
  <1>7. /\ state \in {"waits", "lost"}
        /\ linkOpen => state = "waits"
        /\ ~ linkOpen => state = "lost"
    OBVIOUS
  <1>8. Step[1] = "confirm" => key = doc.key OBVIOUS
  <1> HIDE DEF g, state, key
  <1>9. Stays /\ flows'[n] = g /\ \A i \in 1 .. Len(flows) : i # n => flows'[i] = flows[i]
    <2>1. flows[n] = Top /\ Head(g.todo)[1] \in Request BY <1>1, <1>6 DEF Top, Step
    <2> HIDE DEF n
    <2> QED BY <1>3, <1>4, <1>5, <1>6, <2>1, Answered
  <1>10. CASE linkOpen /\ queue' = Append(queue, n) /\ inFlight' = TRUE
    <2>1. TypeOK'
      <3>1. queue' \in Seq(Nat \union {-1, -2})
        <4>1. n \in Nat \union {-1, -2} BY <1>4
        <4> HIDE DEF n
        <4> QED BY <1>3, <1>10, <4>1, QueueTyped
      <3>2. hardware' \in Units \union {NoUnit} /\ enabled' \in BOOLEAN
        BY <1>3 DEF Ask, TypeOK
      <3>3. flows' \in Seq(AnyFlow) BY <1>9 DEF Stays
      <3> QED BY <1>2, <1>3, <1>10, <3>1, <3>2, <3>3 DEF TypeOK
    <2>2. QueueInv'
      <3>1. queue \in Seq(Int) BY <1>3, QueueTyped
      <3>2. n \in 1 .. Len(flows') BY <1>4, <1>9 DEF Stays
      <3>3. flows'[n].state = "waits" /\ flows[n].state # "waits"
        BY <1>1, <1>6, <1>7, <1>9, <1>10 DEF Top
      <3>4. \A i \in 1 .. Len(flows) :
               flows[i].state = "waits" => i \in 1 .. Len(flows') /\ flows'[i].state = "waits"
        BY <1>9, <3>3 DEF Stays
      <3>5. Waits(queue, flows) BY <1>3 DEF QueueInv
      <3> HIDE DEF n
      <3>6. Waits(Append(queue, n), flows') BY <1>4, <3>1, <3>2, <3>3, <3>4, <3>5, WaitsAsked
      <3>7. queue' # <<>>
        <4>1. Len(queue') = Len(queue) + 1 /\ Len(queue) \in Nat BY <1>10, <3>1
        <4> QED BY <4>1
      <3> QED BY <1>10, <3>6, <3>7 DEF QueueInv, Waits
    <2>3. ASSUME ~ crossed PROVE LineInv'
      <3>1. LineInv BY <1>3, <2>3 DEF SoleInv
      <3>2. Len(flows) = 1 /\ Top = flows[1] BY <1>1, <1>3, <3>1, SoleTop
      <3>3. Len(flows') = 1 /\ Len(flows') <= 1 /\ flows'[1] = g /\ flows' # <<>>
        <4>1. flows' \in Seq(AnyFlow) /\ Len(flows') = 1 BY <1>9, <3>2 DEF Stays
        <4>2. Len(flows') <= 1 /\ flows' # <<>> BY <4>1
        <4> QED BY <1>9, <3>2, <4>1, <4>2
      <3>4. Asking' /\ ~ Asking BY <1>1, <1>6, <1>7, <1>10, <3>2, <3>3 DEF Asking
      <3>5. Alive' = Alive BY <1>2, AliveSame
      <3>6. queue' = Append(queue, 1) BY <1>10, <3>2
      <3>7. Alive = {} => queue' = <<1>> BY <3>1, <3>4, <3>6 DEF LineInv
      <3>8. \A s \in Alive : queue' = <<-s, 1>>
        <4> TAKE s \in Alive
        <4>1. queue = <<-s>> BY <3>1, <3>4 DEF LineInv
        <4>2. -s \in Int BY DEF Alive, Slots
        <4>3. queue \in Seq(Int) BY <1>3, QueueTyped
        <4>4. Append(queue, 1) = <<-s, 1>> BY <4>1, <4>2, <4>3, BehindOne
        <4> QED BY <3>6, <4>4
      <3>9. queue' # <<>>
        <4>1. queue \in Seq(Int) BY <1>3, QueueTyped
        <4>2. Len(queue') = Len(queue) + 1 /\ Len(queue) \in Nat BY <3>6, <4>1
        <4> QED BY <4>2
      <3>10. linkOpen' /\ ~ enabled' BY <1>2, <1>10 DEF Ask
      <3>11. Alive # {} => /\ flows'[1].of \notin Handlers /\ flows'[1].state \in {"runs", "waits"}
                           /\ Head(flows'[1].todo)[1] \in Fresh
                           /\ \A s \in Alive : transfers[s].cancelled
        <4>1. Alive # {} => /\ Top.of \notin Handlers /\ Head(Top.todo)[1] \in Fresh
                            /\ \A s \in Alive : transfers[s].cancelled
          BY <1>1, <3>1, <3>2 DEF LineInv
        <4> QED BY <1>6, <1>7, <1>10, <3>3, <4>1
      <3>12. \A s, t \in Alive : s = t BY <3>1 DEF LineInv
      <3>13. transfers' = transfers /\ inFlight' = TRUE BY <1>2, <1>10
      <3> HIDE DEF n
      <3> QED BY <3>3, <3>4, <3>5, <3>7, <3>8, <3>9, <3>10, <3>11, <3>12, <3>13 DEF LineInv
    <2> QED BY <1>1, <1>2, <1>3, <1>4, <1>6, <1>7, <1>8, <1>9, <2>1, <2>2, <2>3, AskedKeeps
  <1>11. CASE ~ linkOpen /\ UNCHANGED linkVars
    <2>1. TypeOK'
      <3>1. hardware' \in Units \union {NoUnit} /\ enabled' \in BOOLEAN
        BY <1>3 DEF Ask, TypeOK
      <3>2. flows' \in Seq(AnyFlow) BY <1>9 DEF Stays
      <3> QED BY <1>2, <1>3, <1>11, <3>1, <3>2 DEF TypeOK, linkVars
    <2>2. QueueInv'
      <3>1. \A i \in 1 .. Len(flows) :
               flows[i].state = "waits" => i \in 1 .. Len(flows') /\ flows'[i].state = "waits"
        BY <1>1, <1>9 DEF Stays, Top
      <3>2. Waits(queue, flows') BY <1>3, <3>1, WaitsMoves DEF QueueInv
      <3> QED BY <1>3, <1>11, <3>2 DEF QueueInv, Waits, linkVars
    <2>3. ASSUME ~ crossed PROVE LineInv'
      <3>1. LineInv BY <1>3, <2>3 DEF SoleInv
      <3>2. Len(flows) = 1 /\ Top = flows[1] BY <1>1, <1>3, <3>1, SoleTop
      <3>3. Len(flows') = 1 /\ Len(flows') <= 1 /\ flows'[1] = g /\ flows' # <<>>
        <4>1. flows' \in Seq(AnyFlow) /\ Len(flows') = 1 BY <1>9, <3>2 DEF Stays
        <4>2. Len(flows') <= 1 /\ flows' # <<>> BY <4>1
        <4> QED BY <1>9, <3>2, <4>1, <4>2
      <3>4. ~ Asking' /\ ~ Asking BY <1>1, <1>6, <1>7, <1>11, <3>2, <3>3 DEF Asking
      <3>5. Alive' = {} /\ Alive = {} BY <1>2, <1>11, <3>1, AliveSame DEF LineInv
      <3>6. queue = <<>> /\ ~ inFlight BY <3>1, <3>4, <3>5 DEF LineInv
      <3>7. queue' = <<>> /\ inFlight' = FALSE
        BY <1>3, <1>11, <3>6 DEF linkVars, TypeOK
      <3> HIDE DEF n
      <3> QED BY <3>3, <3>4, <3>5, <3>7, LineQuiet
    <2> QED BY <1>1, <1>2, <1>3, <1>4, <1>6, <1>7, <1>8, <1>9, <2>1, <2>2, <2>3, AskedKeeps
  <1> QED BY <1>10, <1>11 DEF Ask

\* What the unit may answer: "ok" to a key only if the key is its own.
LEMMA AnswersTyped ==
    ASSUME NEW step, NEW key, NEW answer \in Answers(step, key)
    PROVE  /\ answer \in {"ok", "wrong", "unfit", "refused"}
           /\ step[1] \in {"key", "confirm"} /\ answer = "ok" => plugged.key = key
           /\ answer = "refused" => step[1] \in {"bind", "reset"} /\ ~ Allowed("send")
  <1>1. CASE step[1] \in {"key", "confirm"} BY <1>1 DEF Answers
  <1>2. CASE step[1] = "gate" BY <1>2 DEF Answers
  <1>3. CASE step[1] = "prove" BY <1>3 DEF Answers
  <1>4. CASE step[1] \in {"fit", "identity"} BY <1>4 DEF Answers
  <1>5. CASE step[1] \in {"bind", "reset"} BY <1>5 DEF Answers
  <1>6. CASE step[1] \notin {"key", "confirm", "gate", "prove", "fit", "identity", "bind", "reset"}
    BY <1>6 DEF Answers
  <1> QED BY <1>1, <1>2, <1>3, <1>4, <1>5, <1>6

\* What is proved by an answer.
LEMMA ProvedByIs ==
    ASSUME NEW step \in AnyStep, NEW answer, proved \subseteq Functions
    PROVE  /\ ProvedBy(step, answer) \subseteq Functions
           /\ step[1] # "reset" => proved \subseteq ProvedBy(step, answer)
           /\ step[1] = "prove" /\ answer = "ok" => step[2] \in ProvedBy(step, answer)
  <1>1. CASE step[1] = "reset" /\ answer = "ok" BY <1>1 DEF ProvedBy
  <1>2. CASE step[1] \in {"key", "confirm"} /\ answer = "ok" BY <1>2 DEF ProvedBy, Functions
  <1>3. CASE step[1] = "prove" /\ answer = "ok"
    <2>1. step[2] \in Functions BY <1>3, StepFacts DEF Plain
    <2> QED BY <1>3, <2>1 DEF ProvedBy
  <1>4. CASE ~ (step[1] \in {"reset", "key", "confirm", "prove"} /\ answer = "ok")
    BY <1>4 DEF ProvedBy
  <1> QED BY <1>1, <1>2, <1>3, <1>4

\* What the flow may rely on once it is answered.
LEMMA AnsweredClaims ==
    ASSUME NEW f, NEW g, NEW answer \in Answers(Head(f.todo), f.key), NEW heard \in BOOLEAN,
           Gated(f, TRUE, doc, plugged), Trusted(f, TRUE, plugged, proved), f.state = "waits",
           proved \subseteq Functions, Head(f.todo) \in AnyStep,
           g.of = f.of, g.sure = f.sure, g.sends = f.sends, g.todo = f.todo,
           g.state = IF heard THEN answer ELSE "lost",
           heard /\ Head(f.todo)[1] = "state" => g.unit = plugged,
           proved' = ProvedBy(Head(f.todo), answer) \/ (~ heard /\ UNCHANGED proved)
    PROVE  Gated(g, TRUE, doc, plugged) /\ Trusted(g, TRUE, plugged, proved')
  <1> DEFINE step == Head(f.todo)
  <1>1. /\ answer \in {"ok", "wrong", "unfit", "refused"}
        /\ step[1] \in {"key", "confirm"} /\ answer = "ok" => plugged.key = f.key
    BY AnswersTyped
  <1>2. /\ step[1] # "reset" => proved \subseteq ProvedBy(step, answer)
        /\ step[1] = "prove" /\ answer = "ok" => step[2] \in ProvedBy(step, answer)
    BY ProvedByIs
  <1>3. g.state = "ok" => heard /\ answer = "ok" BY <1>1
  <1>4. g.state \notin {"runs", "waits"} BY <1>1
  <1>5. Gated(g, TRUE, doc, plugged)
    BY <1>1, <1>3, <1>4 DEF Gated
  <1>6. Beyond(g) => Beyond(f) /\ step[1] # "reset"
    BY <1>4 DEF Beyond, Proving
  <1>7. step[1] # "reset" => proved \subseteq proved' BY <1>2
  <1>8. Trusted(g, TRUE, plugged, proved')
    BY <1>2, <1>3, <1>6, <1>7 DEF Trusted
  <1> QED BY <1>5, <1>8

\* AnswerFlow: the link answers a flow that waits.
LEMMA AnswerFlowKeeps ==
    ASSUME SessionInv, AnswerFlow
    PROVE  SessionInv'
  <1> DEFINE i == Head(queue)
             f == flows[i]
             step == Head(f.todo)
             remembers == step[1] \in {"hardware", "state", "prove", "marks", "reset"}
  <1>1. inFlight /\ i \in DOMAIN flows BY DEF AnswerFlow
  <1>2. PICK answer \in Answers(step, f.key), heard \in BOOLEAN :
           /\ flows' = [flows EXCEPT ![i].state = IF heard THEN answer ELSE "lost",
                                     ![i].unit = IF remembers /\ heard THEN plugged
                                                 ELSE IF step[1] = "hardware" THEN NoUnit
                                                 ELSE @]
           /\ \/ proved' = ProvedBy(step, answer)
              \/ ~heard /\ UNCHANGED proved
           /\ surprised' = (surprised \/ (heard /\ answer = "refused" /\ f.sure))
    BY DEF AnswerFlow
  <1>3. queue' = Tail(queue) /\ inFlight' = (Tail(queue) # <<>>) BY DEF AnswerFlow
  <1>4. UNCHANGED <<plugged, linkOpen, hardware, enabled, transfers, hasDocument, doc,
                    getInProgress, monitorAfterGet, crossed, unread>>
    BY DEF AnswerFlow, windowVars, docVars
  <1>5. TypeOK /\ PlanInv /\ QueueInv /\ PortInv /\ MonitorInv /\ SoleInv BY DEF SessionInv
  <1>6. flows \in Seq(AnyFlow) /\ i \in 1 .. Len(flows) /\ f \in AnyFlow
    BY <1>1, <1>5 DEF TypeOK
  <1>7. queue # <<>> /\ queue \in Seq(Int) /\ queue \in Seq(Nat \union {-1, -2})
        /\ Tail(queue) \in Seq(Nat \union {-1, -2})
    BY <1>1, <1>5, QueueTyped DEF QueueInv
  <1>8. f.state = "waits"
    <2>1. 1 \in 1 .. Len(queue) /\ i = queue[1] BY <1>7
    <2> QED BY <1>5, <1>6, <2>1 DEF QueueInv, Waits
  <1>9. Planned(f) BY <1>5, <1>6 DEF PlanInv
  <1>10. step[1] \in Request BY <1>8, <1>9 DEF Planned
  <1>11. step \in AnyStep /\ Belongs(f.of, step)
    <2> DEFINE of == f.of  todo == f.todo
    <2>1. IsPlan(of, todo) BY <1>9 DEF Planned
    <2> HIDE DEF of, todo
    <2>2. Head(todo) \in AnyStep /\ Belongs(of, Head(todo)) BY <2>1, PlanFacts
    <2> QED BY <2>2 DEF of, todo
  <1> DEFINE state == IF heard THEN answer ELSE "lost"
             unit == IF remembers /\ heard THEN plugged
                     ELSE IF step[1] = "hardware" THEN NoUnit ELSE f.unit
             g == [f EXCEPT !.state = state, !.unit = unit]
  <1>12. flows' = [flows EXCEPT ![i] = g] BY <1>2
  <1>13. /\ answer \in {"ok", "wrong", "unfit", "refused"}
         /\ answer = "refused" => step[1] \in {"bind", "reset"} /\ ~ Allowed("send")
    BY AnswersTyped
  <1>14. /\ g \in AnyFlow /\ g.of = f.of /\ g.todo = f.todo /\ g.state = state /\ g.unit = unit
         /\ g.sends = f.sends /\ g.sure = f.sure
    <2>1. unit \in Units \union {NoUnit}
      BY <1>5, <1>6 DEF TypeOK, AnyFlow
    <2>2. state \in States BY <1>13 DEF States
    <2> HIDE DEF f, state, unit
    <2> QED BY <1>6, <2>1, <2>2 DEF AnyFlow
  <1>15. state # "waits" BY <1>13
  <1>16. heard /\ step[1] = "state" => unit = plugged OBVIOUS
  <1> HIDE DEF g, unit
  <1>17. Stays /\ flows'[i] = g /\ \A j \in 1 .. Len(flows) : j # i => flows'[j] = flows[j]
    <2>1. f.state # "runs" BY <1>8
    <2> HIDE DEF state
    <2> QED BY <1>5, <1>6, <1>12, <1>14, <2>1, Answered
  <1>18. proved' \subseteq Functions
    <2>1. proved \subseteq Functions BY <1>5 DEF TypeOK
    <2>2. ProvedBy(step, answer) \subseteq Functions
      <3> HIDE DEF step
      <3> QED BY <1>11, <2>1, ProvedByIs
    <2> QED BY <1>2, <2>1, <2>2
  <1>19. TypeOK'
    <2>1. flows' \in Seq(AnyFlow) BY <1>17 DEF Stays
    <2>2. surprised' \in BOOLEAN BY <1>2, <1>5, <1>6 DEF TypeOK, AnyFlow
    <2>3. inFlight' \in BOOLEAN BY <1>3
    <2> QED BY <1>3, <1>4, <1>5, <1>7, <1>18, <2>1, <2>2, <2>3 DEF TypeOK
  <1>20. QueueInv'
    <2>1. \A j \in 1 .. Len(flows) :
             flows[j].state = "waits" /\ j # i
               => j \in 1 .. Len(flows') /\ flows'[j].state = "waits"
      BY <1>17 DEF Stays
    <2>2. Waits(queue, flows) BY <1>5 DEF QueueInv
    <2>3. Waits(Tail(queue), flows') BY <1>7, <2>1, <2>2, WaitsTail
    <2> QED BY <1>3, <2>3 DEF QueueInv, Waits
  <1>21. PlanInv' BY <1>5, <1>17, PlanStays
  <1>22. MonitorInv' BY <1>4, <1>5, <1>17, MonitorStays
  <1>23. PortInv' BY <1>4, <1>5 DEF PortInv
  <1>24. SoleInv'
    <2> SUFFICES ASSUME ~ crossed
                 PROVE  /\ LineInv' /\ TransferInv' /\ ~ surprised'
                        /\ Gated(flows'[1], linkOpen', doc', plugged')
                        /\ Trusted(flows'[1], linkOpen', plugged', proved')
      BY <1>4 DEF SoleInv
    <2>1. LineInv /\ TransferInv /\ ~ surprised BY <1>5 DEF SoleInv
    <2>2. flows # <<>> BY <1>6
    <2>3. Len(flows) = 1 BY <1>5, <2>1, <2>2, SoleTop
    <2>4. i = 1 BY <1>6, <2>3
    <2>5. Asking BY <1>8, <2>2, <2>4 DEF Asking
    <2>6. Alive = {}
      <3> SUFFICES ASSUME NEW s \in Alive PROVE FALSE OBVIOUS
      <3>1. queue = <<-s, 1>> BY <2>1, <2>5 DEF LineInv
      <3>2. Head(queue) = -s BY <3>1
      <3>3. s \in 1 .. 2 BY DEF Alive, Slots
      <3> QED BY <2>4, <3>2, <3>3
    <2>7. queue = <<1>> /\ linkOpen BY <2>1, <2>5, <2>6 DEF LineInv
    <2>8. Tail(queue) = <<>> BY <2>7
    <2>9. Alive' = {} BY <1>4, <2>6, AliveSame
    <2>10. flows'[1] = g BY <1>17, <2>4
    <2>11. ~ Asking' BY <1>14, <1>15, <2>10 DEF Asking
    <2>12. LineInv'
      <3>1. Len(flows') <= 1 BY <1>17, <2>3 DEF Stays
      <3>2. queue' = <<>> /\ inFlight' = FALSE BY <1>3, <2>8
      <3> QED BY <2>9, <2>11, <3>1, <3>2, LineQuiet
    <2>13. TransferInv' BY <2>9 DEF TransferInv
    <2>14. Gated(f, TRUE, doc, plugged) /\ Trusted(f, TRUE, plugged, proved)
      <3>1. linkOpen = TRUE BY <1>5, <2>7 DEF TypeOK
      <3> QED BY <1>5, <2>2, <2>4, <3>1 DEF SoleInv
    <2>15. Gated(g, TRUE, doc, plugged) /\ Trusted(g, TRUE, plugged, proved')
      <3>1. heard /\ Head(f.todo)[1] = "state" => g.unit = plugged BY <1>14, <1>16
      <3>2. g.state = IF heard THEN answer ELSE "lost" BY <1>14
      <3>3. proved \subseteq Functions BY <1>5 DEF TypeOK
      <3>4. proved' = ProvedBy(Head(f.todo), answer) \/ (~ heard /\ UNCHANGED proved) BY <1>2
      <3>5. Head(f.todo) \in AnyStep BY <1>11
      <3>6. answer \in Answers(Head(f.todo), f.key) OBVIOUS
      <3> HIDE DEF f, state, step
      <3> QED BY <1>8, <1>14, <2>14, <3>1, <3>2, <3>3, <3>4, <3>5, <3>6, AnsweredClaims
    <2>16. Gated(flows'[1], linkOpen', doc', plugged')
           /\ Trusted(flows'[1], linkOpen', plugged', proved')
      <3>1. linkOpen' = TRUE BY <1>4, <1>5, <2>7 DEF TypeOK
      <3> QED BY <1>4, <2>10, <2>15, <3>1
    <2>17. ~ surprised'
      <3> SUFFICES ASSUME answer = "refused", f.sure PROVE FALSE BY <1>2, <2>1
      <3>1. step[1] \in {"bind", "reset"} /\ ~ Allowed("send") BY <1>13
      <3>2. Beyond(f) BY <1>8, <3>1 DEF Beyond
      <3>3. Needs(f.of) \notin plugged.guards \ proved BY <2>14, <3>2 DEF Trusted
      <3>4. f.of \in {"send", "reset"}
        BY <1>11, <3>1 DEF Belongs, HasKind, Identifying, Proving, Gets
      <3> QED BY <3>1, <3>3, <3>4 DEF Needs, Allowed
    <2> QED BY <2>12, <2>13, <2>16, <2>17
  <1> QED BY <1>19, <1>20, <1>21, <1>22, <1>23, <1>24 DEF SessionInv

-----------------------------------------------------------------------------
(* The actions: commands, documents and the cable *)

\* Nothing runs at first.
LEMMA InitKeeps == Init => SessionInv
  <1> SUFFICES ASSUME Init PROVE SessionInv OBVIOUS
  <1>1. flows = <<>> /\ queue = <<>> BY DEF Init
  <1>2. Len(flows) = 0 /\ Len(queue) = 0 BY <1>1
  <1>3. Alive = {} BY DEF Init, Alive, Idle
  <1>4. TypeOK
    <2>1. Idle \in AnyTransfer /\ NoDocument \in AnyDocument
      BY DEF Idle, AnyTransfer, AnyDocument, NoDocument, Keys
    <2>2. transfers \in [Slots -> AnyTransfer] /\ doc \in AnyDocument BY <2>1 DEF Init
    <2>3. flows \in Seq(AnyFlow) /\ queue \in Seq(Nat \union {-1, -2}) BY <1>1
    <2>4. plugged \in Units \union {NoUnit} /\ hardware \in Units \union {NoUnit}
          /\ proved \subseteq Functions
      BY DEF Init
    <2> QED BY <2>2, <2>3, <2>4 DEF Init, TypeOK
  <1>5. PlanInv /\ MonitorInv BY <1>2 DEF PlanInv, MonitorInv, Init
  <1>6. QueueInv BY <1>2 DEF QueueInv, Waits, Init
  <1>7. PortInv BY DEF PortInv, Init
  <1>8. SoleInv BY <1>1, <1>2, <1>3 DEF SoleInv, LineInv, TransferInv, Asking, Init
  <1> QED BY <1>4, <1>5, <1>6, <1>7, <1>8 DEF SessionInv

\* Flows that are the same stay.
LEMMA UnchangedStays ==
    ASSUME TypeOK, flows' = flows
    PROVE  Stays
  BY DEF Stays, TypeOK

\* A window that takes commands runs none, and what it transfers was cancelled.
LEMMA UserFreeIsIdle ==
    ASSUME SessionInv, UserFree, ~ crossed
    PROVE  flows = <<>> /\ \A s \in Alive : transfers[s].cancelled
  <1>1. TypeOK /\ PlanInv /\ LineInv BY DEF SessionInv, SoleInv
  <1>2. \A s \in Alive : transfers[s].cancelled BY DEF UserFree
  <1>3. ASSUME flows # <<>> PROVE FALSE
    <2>1. Len(flows) = 1 /\ Top = flows[1] BY <1>1, <1>3, SoleTop
    <2>2. 1 \in DOMAIN flows BY <1>1, <2>1 DEF TypeOK
    <2>3. CASE Top.state = "waits"
      <3>1. Asking BY <1>3, <2>1, <2>3 DEF Asking
      <3> QED BY <1>1, <3>1 DEF LineInv, UserFree
    <2>4. CASE Top.state = "runs" /\ Step[1] \in Modal
      <3>1. Head(flows[1].todo)[1] \notin Modal BY <2>1, <2>2, <2>4 DEF UserFree
      <3> QED BY <2>1, <2>4, <3>1 DEF Step
    <2> QED BY <1>3, <2>3, <2>4 DEF UserFree, InLoop
  <1> QED BY <1>2, <1>3

\* A call of f leaves the queue as it is.
LEMMA QueueCalls ==
    ASSUME NEW f, QueueInv, Calls(f), flows \in Seq(AnyFlow), UNCHANGED <<queue, inFlight>>
    PROVE  QueueInv'
  <1>1. \A i \in 1 .. Len(flows) :
           flows[i].state = "waits" => i \in 1 .. Len(flows') /\ flows'[i].state = "waits"
    BY DEF Calls
  <1>2. Waits(queue, flows') BY <1>1, WaitsMoves DEF QueueInv
  <1> QED BY <1>2 DEF QueueInv, Waits

\* Command: the user starts a command.
LEMMA CommandKeeps ==
    ASSUME SessionInv, NEW command \in UserCommands, Command(command)
    PROVE  SessionInv'
  <1> DEFINE f == Flow(command, Steps(command))
  <1>1. UserFree /\ flows' = Append(flows, f) BY DEF Command
  <1>2. UNCHANGED <<plugged, proved, linkOpen, hardware, enabled, transfers, queue, inFlight,
                    hasDocument, doc, getInProgress, monitorAfterGet, unread>>
    BY DEF Command, unitVars, linkVars, windowVars, docVars
  <1>16. /\ crossed' = (crossed /\ ~ Quiet)
         /\ surprised' = (surprised /\ ~ (crossed /\ Quiet))
    BY DEF Command
  <1>3. TypeOK /\ PlanInv /\ QueueInv /\ PortInv /\ MonitorInv /\ SoleInv BY DEF SessionInv
  <1>4. flows \in Seq(AnyFlow) BY <1>3 DEF TypeOK
  <1>5. IsPlan(command, Steps(command)) /\ Head(Steps(command))[1] = "connect"
    BY CommandPlans
  <1>6. command \in Of /\ Steps(command) \in Seq(AnyStep)
    BY <1>5, PlanFacts DEF Of
  <1>7. f \in AnyFlow BY <1>6, FlowTyped
  <1>8. f.of = command /\ f.todo = Steps(command) /\ f.state = "runs" BY DEF Flow
  <1> HIDE DEF f
  <1>9. Calls(f) BY <1>1, <1>4, <1>7, AppendCalls
  <1>10. TypeOK'
    <2>1. flows' \in Seq(AnyFlow) BY <1>9 DEF Calls
    <2>2. crossed' \in BOOLEAN /\ surprised' \in BOOLEAN BY <1>16
    <2> QED BY <1>2, <1>3, <2>1, <2>2 DEF TypeOK
  <1>11. PlanInv' BY <1>3, <1>4, <1>5, <1>8, <1>9, PlanCalls
  <1>12. QueueInv' BY <1>2, <1>3, <1>4, <1>9, QueueCalls
  <1>13. MonitorInv'
    <2>1. f.of # "got" BY <1>8 DEF UserCommands
    <2> QED BY <1>2, <1>3, <1>4, <1>9, <2>1, MonitorCalls
  <1>14. PortInv' BY <1>2, <1>3 DEF PortInv
  <1>15. SoleInv'
    <2> SUFFICES ASSUME ~ crossed'
                 PROVE  /\ LineInv' /\ TransferInv' /\ ~ surprised'
                        /\ Gated(flows'[1], linkOpen', doc', plugged')
                        /\ Trusted(flows'[1], linkOpen', plugged', proved')
      BY DEF SoleInv
    <2>0. ~ crossed \/ (crossed /\ Quiet) BY <1>3, <1>16 DEF TypeOK
    <2>1. LineInv /\ TransferInv /\ ~ surprised'
      <3>1. CASE ~ crossed BY <1>3, <1>16, <3>1 DEF SoleInv
      <3>2. CASE crossed /\ Quiet
        <4>1. Alive = {} /\ flows = <<>> /\ queue = <<>> BY <3>2 DEF Quiet
        <4>2. ~ inFlight BY <1>3, <4>1 DEF QueueInv
        <4>3. inFlight \in BOOLEAN BY <1>3 DEF TypeOK
        <4>4. LineInv BY <4>1, <4>2, <4>3 DEF LineInv, Asking
        <4>5. TransferInv BY <4>1 DEF TransferInv
        <4> QED BY <1>16, <3>2, <4>4, <4>5
      <3> QED BY <2>0, <3>1, <3>2
    <2>2. flows = <<>> /\ \A s \in Alive : transfers[s].cancelled
      <3>1. CASE ~ crossed BY <1>1, <3>1, UserFreeIsIdle
      <3>2. CASE crossed /\ Quiet BY <3>2 DEF Quiet
      <3> QED BY <2>0, <3>1, <3>2
    <2>3. flows' \in Seq(AnyFlow) /\ Len(flows') = 1 /\ flows'[1] = f
      BY <1>9, <2>2 DEF Calls
    <2>4. flows' # <<>> /\ Len(flows') <= 1 BY <2>3
    <2>5. ~ Asking /\ ~ Asking' BY <1>8, <2>2, <2>3 DEF Asking
    <2>6. Alive' = Alive BY <1>2, AliveSame
    <2>7. /\ flows'[1].of \notin Handlers /\ flows'[1].state \in {"runs", "waits"}
          /\ Head(flows'[1].todo)[1] \in Fresh
      BY <1>5, <1>8, <2>3 DEF Handlers, UserCommands, Fresh, Identifying
    <2>8. LineInv'
      BY <1>2, <2>1, <2>2, <2>4, <2>5, <2>6, <2>7 DEF LineInv
    <2>9. TransferInv' BY <1>2, <2>1, TransfersKept
    <2>10. Gated(f, linkOpen', doc', plugged') /\ Trusted(f, linkOpen', plugged', proved')
      <3>1. Head(f.todo)[1] = "connect" BY <1>5, <1>8
      <3> QED BY <1>8, <3>1, FreshClaims
    <2> QED BY <1>2, <2>1, <2>3, <2>8, <2>9, <2>10
  <1> QED BY <1>10, <1>11, <1>12, <1>13, <1>14, <1>15 DEF SessionInv

\* Documents are well formed.
LEMMA DocumentsAreSuch == Documents \subseteq AnyDocument
  <1> SUFFICES ASSUME NEW d \in Documents PROVE d \in AnyDocument OBVIOUS
  <1>1. d \in [marked : BOOLEAN, key : STRING] BY SessionConstants
  <1>2. d.key \in Keys BY DEF Keys
  <1> QED BY <1>1, <1>2 DEF AnyDocument

\* OpenDocument: the user opens another document.
LEMMA OpenDocumentKeeps ==
    ASSUME SessionInv, OpenDocument
    PROVE  SessionInv'
  <1>1. UserFree /\ hasDocument' = TRUE /\ doc' \in Documents BY DEF OpenDocument
  <1>2. UNCHANGED <<plugged, proved, linkOpen, hardware, enabled, flows, transfers, queue,
                    inFlight, getInProgress, monitorAfterGet, crossed, unread, surprised>>
    BY DEF OpenDocument, unitVars, linkVars, histories
  <1>3. TypeOK /\ PlanInv /\ QueueInv /\ PortInv /\ MonitorInv /\ SoleInv BY DEF SessionInv
  <1>4. Stays BY <1>2, <1>3, UnchangedStays
  <1>5. TypeOK'
    <2>1. doc' \in AnyDocument BY <1>1, DocumentsAreSuch
    <2> QED BY <1>1, <1>2, <1>3, <2>1 DEF TypeOK
  <1>6. PlanInv' BY <1>3, <1>4, PlanStays
  <1>7. MonitorInv' BY <1>1, <1>2, <1>3, <1>4, MonitorStays
  <1>8. PortInv' /\ QueueInv' BY <1>2, <1>3 DEF PortInv, QueueInv, Waits
  <1>9. SoleInv'
    <2> SUFFICES ASSUME ~ crossed
                 PROVE  /\ LineInv' /\ TransferInv' /\ ~ surprised' /\ flows' = <<>>
      BY <1>2 DEF SoleInv
    <2>1. LineInv /\ TransferInv /\ ~ surprised BY <1>3 DEF SoleInv
    <2>2. flows = <<>> BY <1>1, UserFreeIsIdle
    <2>3. Alive' = Alive /\ ~ Asking /\ ~ Asking' BY <1>2, <2>2, AliveSame DEF Asking
    <2>4. LineInv' BY <1>2, <2>1, <2>2, <2>3 DEF LineInv
    <2>5. TransferInv' BY <1>2, <2>1, TransfersKept
    <2> QED BY <1>2, <2>1, <2>2, <2>4, <2>5
  <1> QED BY <1>5, <1>6, <1>7, <1>8, <1>9 DEF SessionInv

\* Cancel: the user cancels a transfer, which ends with its next answer.
LEMMA CancelKeeps ==
    ASSUME SessionInv, NEW s \in Slots, Cancel(s)
    PROVE  SessionInv'
  <1>1. s \in Alive /\ transfers' = [transfers EXCEPT ![s].cancelled = TRUE] BY DEF Cancel
  <1>2. UNCHANGED <<plugged, proved, linkOpen, hardware, enabled, flows, queue, inFlight,
                    hasDocument, doc, getInProgress, monitorAfterGet, crossed, unread, surprised>>
    BY DEF Cancel, unitVars, linkVars, windowVars, docVars, histories
  <1>3. TypeOK /\ PlanInv /\ QueueInv /\ PortInv /\ MonitorInv /\ SoleInv BY DEF SessionInv
  <1>4. transfers \in [Slots -> AnyTransfer] BY <1>3 DEF TypeOK
  <1>5. /\ transfers' \in [Slots -> AnyTransfer]
        /\ \A t \in Slots : /\ transfers'[t].kind = transfers[t].kind
                            /\ transfers'[t].sends = transfers[t].sends
                            /\ transfers'[t].sure = transfers[t].sure
                            /\ transfers[t].cancelled => transfers'[t].cancelled
    BY <1>1, <1>4 DEF AnyTransfer
  <1>6. Alive' = Alive BY <1>5 DEF Alive
  <1>7. TypeOK' BY <1>2, <1>3, <1>5 DEF TypeOK
  <1>8. Stays BY <1>2, <1>3, UnchangedStays
  <1>9. PlanInv' BY <1>3, <1>8, PlanStays
  <1>10. MonitorInv' BY <1>2, <1>3, <1>8, MonitorStays
  <1>11. PortInv' /\ QueueInv' BY <1>2, <1>3 DEF PortInv, QueueInv, Waits
  <1>12. SoleInv'
    <2> SUFFICES ASSUME ~ crossed
                 PROVE  /\ LineInv' /\ TransferInv' /\ ~ surprised'
                        /\ flows # <<>> => /\ Gated(flows[1], linkOpen, doc, plugged)
                                           /\ Trusted(flows[1], linkOpen, plugged, proved)
      BY <1>2 DEF SoleInv
    <2>1. LineInv /\ TransferInv /\ ~ surprised BY <1>3 DEF SoleInv
    <2>2. Asking' = Asking BY <1>2 DEF Asking
    <2>3. \A t \in Alive : t \in Slots BY DEF Alive
    <2>4. LineInv' BY <1>2, <1>5, <1>6, <2>1, <2>2, <2>3 DEF LineInv
    <2>5. TransferInv' BY <1>2, <1>5, <1>6, <2>1, <2>3 DEF TransferInv, Allowed
    <2> QED BY <1>2, <1>3, <2>1, <2>4, <2>5 DEF SoleInv
  <1> QED BY <1>7, <1>9, <1>10, <1>11, <1>12 DEF SessionInv

\* Plug: a unit is plugged in.
LEMMA PlugKeeps ==
    ASSUME SessionInv, Plug
    PROVE  SessionInv'
  <1>1. plugged = NoUnit /\ plugged' \in Units /\ proved' = {} BY DEF Plug
  <1>2. UNCHANGED <<linkOpen, hardware, enabled, flows, transfers, queue, inFlight,
                    hasDocument, doc, getInProgress, monitorAfterGet, crossed, unread, surprised>>
    BY DEF Plug, linkVars, windowVars, docVars, histories
  <1>3. TypeOK /\ PlanInv /\ QueueInv /\ PortInv /\ MonitorInv /\ SoleInv BY DEF SessionInv
  <1>4. TypeOK' BY <1>1, <1>2, <1>3 DEF TypeOK
  <1>5. Stays BY <1>2, <1>3, UnchangedStays
  <1>6. PlanInv' BY <1>3, <1>5, PlanStays
  <1>7. MonitorInv' BY <1>2, <1>3, <1>5, MonitorStays
  <1>8. ~ linkOpen BY <1>1, <1>3 DEF PortInv
  <1>9. PortInv' /\ QueueInv' BY <1>2, <1>3, <1>8 DEF PortInv, QueueInv, Waits
  <1>10. SoleInv'
    <2> SUFFICES ASSUME ~ crossed
                 PROVE  /\ LineInv' /\ TransferInv' /\ ~ surprised'
                        /\ flows # <<>> => /\ Gated(flows[1], linkOpen', doc', plugged')
                                           /\ Trusted(flows[1], linkOpen', plugged', proved')
      BY <1>2 DEF SoleInv
    <2>1. LineInv /\ ~ surprised BY <1>3 DEF SoleInv
    <2>2. Asking' = Asking /\ Alive' = Alive BY <1>2, AliveSame DEF Asking
    <2>3. LineInv' BY <1>2, <2>1, <2>2 DEF LineInv
    <2>4. Alive = {} /\ ~ Asking BY <1>8, <2>1 DEF LineInv
    <2>5. TransferInv' BY <2>2, <2>4 DEF TransferInv
    <2>6. ASSUME flows # <<>>
          PROVE  /\ Gated(flows[1], linkOpen', doc', plugged')
                 /\ Trusted(flows[1], linkOpen', plugged', proved')
      <3>1. flows[1].state # "waits" BY <2>4, <2>6 DEF Asking
      <3> QED BY <1>2, <1>8, <3>1, ClosedClaims
    <2> QED BY <1>2, <2>1, <2>3, <2>5, <2>6
  <1> QED BY <1>4, <1>6, <1>7, <1>9, <1>10 DEF SessionInv

-----------------------------------------------------------------------------
(* The actions: the unit leaves, or restarts *)

\* The flows are what they were, none of them sure.
LEMMA UnsureFlows ==
    ASSUME TypeOK
    PROVE  /\ Unsure(flows) \in Seq(AnyFlow) /\ Len(Unsure(flows)) = Len(flows)
           /\ \A i \in 1 .. Len(flows) :
                 LET g == Unsure(flows)[i]
                 IN  /\ g.of = flows[i].of /\ g.todo = flows[i].todo /\ g.state = flows[i].state
                     /\ g.unit = flows[i].unit /\ g.key = flows[i].key
                     /\ g.sends = flows[i].sends /\ g.sure = FALSE
  <1> DEFINE gs == Unsure(flows)
  <1>1. flows \in Seq(AnyFlow) /\ Len(flows) \in Nat /\ DOMAIN flows = 1 .. Len(flows)
    BY DEF TypeOK
  <1>2. gs = [i \in 1 .. Len(flows) |-> [flows[i] EXCEPT !.sure = FALSE]]
    BY <1>1 DEF Unsure
  <1>3. \A i \in 1 .. Len(flows) :
           /\ gs[i] = [flows[i] EXCEPT !.sure = FALSE] /\ flows[i] \in AnyFlow
    BY <1>1, <1>2
  <1> HIDE DEF gs
  <1>4. \A i \in 1 .. Len(flows) :
           /\ gs[i] \in AnyFlow
           /\ gs[i].of = flows[i].of /\ gs[i].todo = flows[i].todo
           /\ gs[i].state = flows[i].state
           /\ gs[i].unit = flows[i].unit /\ gs[i].key = flows[i].key
           /\ gs[i].sends = flows[i].sends /\ gs[i].sure = FALSE
    BY <1>3 DEF AnyFlow
  <1>5. gs \in Seq(AnyFlow) /\ Len(gs) = Len(flows) BY <1>1, <1>2, <1>4
  <1> QED BY <1>4, <1>5 DEF gs

\* CloseLink fails what waits.
Lost(fs) == [i \in DOMAIN fs |-> IF fs[i].state = "waits" THEN [fs[i] EXCEPT !.state = "lost"]
                                 ELSE fs[i]]

\* All a closed link does to a flow is to fail what it waits for.
LEMMA LostFlows ==
    ASSUME NEW fs \in Seq(AnyFlow)
    PROVE  /\ Lost(fs) \in Seq(AnyFlow) /\ Len(Lost(fs)) = Len(fs)
           /\ \A i \in 1 .. Len(fs) :
                 LET g == Lost(fs)[i]
                 IN  /\ g.of = fs[i].of /\ g.todo = fs[i].todo
                     /\ g.state # "waits"
                     /\ g.state # "runs" => fs[i].state # "runs"
  <1> DEFINE gs == Lost(fs)
  <1>1. Len(fs) \in Nat /\ DOMAIN fs = 1 .. Len(fs) OBVIOUS
  <1>2. gs = [i \in 1 .. Len(fs) |->
                 IF fs[i].state = "waits" THEN [fs[i] EXCEPT !.state = "lost"] ELSE fs[i]]
    BY <1>1 DEF Lost
  <1>3. \A i \in 1 .. Len(fs) :
           /\ gs[i] = IF fs[i].state = "waits" THEN [fs[i] EXCEPT !.state = "lost"] ELSE fs[i]
           /\ fs[i] \in AnyFlow
    BY <1>1, <1>2
  <1> HIDE DEF gs
  <1>4. \A i \in 1 .. Len(fs) :
           /\ gs[i] \in AnyFlow /\ gs[i].of = fs[i].of /\ gs[i].todo = fs[i].todo
           /\ gs[i].state # "waits"
           /\ gs[i].state # "runs" => fs[i].state # "runs"
    <2> TAKE i \in 1 .. Len(fs)
    <2>1. CASE fs[i].state = "waits" BY <1>3, <2>1 DEF AnyFlow, States
    <2>2. CASE fs[i].state # "waits" BY <1>3, <2>2
    <2> QED BY <2>1, <2>2
  <1>5. gs \in Seq(AnyFlow) /\ Len(gs) = Len(fs) BY <1>1, <1>2, <1>4
  <1> QED BY <1>4, <1>5 DEF gs

\* The link is closed, and nothing waits any more.
LEMMA ClosedKeeps ==
    ASSUME NEW fs \in Seq(AnyFlow), SessionInv, CloseLink(fs), Len(fs) = Len(flows),
           plugged' \in Units \union {NoUnit}, proved' \subseteq Functions,
           UNCHANGED <<enabled, hasDocument, doc, crossed, unread, surprised>>,
           \A i \in 1 .. Len(flows) :
              Planned(fs[i]) /\ (Minds(flows[i]) => Minds(fs[i]))
              /\ (fs[i].of = "got" => flows[i].of = "got" /\ fs[i].todo = flows[i].todo)
    PROVE  SessionInv'
  <1>1. TypeOK /\ PlanInv /\ QueueInv /\ PortInv /\ MonitorInv /\ SoleInv BY DEF SessionInv
  <1>2. flows' = Lost(fs) BY DEF CloseLink, Lost
  <1>3. /\ flows' \in Seq(AnyFlow) /\ Len(flows') = Len(flows)
        /\ \A i \in 1 .. Len(flows) :
              /\ flows'[i].of = fs[i].of /\ flows'[i].todo = fs[i].todo
              /\ flows'[i].state # "waits"
              /\ flows'[i].state # "runs" => fs[i].state # "runs"
    BY <1>2, LostFlows
  <1>4. /\ linkOpen' = FALSE /\ hardware' = NoUnit /\ queue' = <<>> /\ inFlight' = FALSE
        /\ transfers' = [s \in Slots |-> Idle]
        /\ monitorAfterGet' \in BOOLEAN /\ getInProgress' \in BOOLEAN
        /\ (monitorAfterGet' => monitorAfterGet)
        /\ (monitorAfterGet' /\ getInProgress => getInProgress')
    BY <1>1 DEF CloseLink, TypeOK
  <1>5. Alive' = {} BY <1>4 DEF Alive, Idle
  <1>6. TypeOK'
    <2>1. Idle \in AnyTransfer
      BY DEF Idle, AnyTransfer, AnyDocument, NoDocument, Keys
    <2>2. transfers' \in [Slots -> AnyTransfer] BY <1>4, <2>1
    <2>3. queue' \in Seq(Nat \union {-1, -2}) BY <1>4
    <2> QED BY <1>1, <1>3, <1>4, <2>2, <2>3 DEF TypeOK
  <1>7. PlanInv' BY <1>3 DEF PlanInv, Planned
  <1>8. QueueInv'
    <2>1. Len(queue') = 0 BY <1>4
    <2> QED BY <1>4, <2>1 DEF QueueInv, Waits
  <1>9. PortInv' BY <1>4 DEF PortInv
  <1>10. MonitorInv'
    <2>1. \A i \in 1 .. Len(flows) :
             /\ Minds(flows[i]) => Minds(flows'[i])
             /\ flows'[i].of = "got" => flows[i].of = "got" /\ flows'[i].todo = flows[i].todo
      BY <1>3 DEF Minds
    <2>2. Len(flows') = Len(flows) /\ hasDocument' = hasDocument /\ unread' = unread BY <1>3
    <2>3. \A i \in 1 .. Len(flows') :
             flows'[i].of = "got" /\ flows'[i].todo[Len(flows'[i].todo)][1] = "monitor"
               => hasDocument'
      BY <1>1, <2>1, <2>2 DEF MonitorInv
    <2>4. monitorAfterGet' =>
             unread' \/ getInProgress' \/ \E i \in 1 .. Len(flows') : Minds(flows'[i])
      BY <1>1, <1>4, <2>1, <2>2 DEF MonitorInv
    <2> QED BY <2>3, <2>4 DEF MonitorInv, Minds
  <1>11. SoleInv'
    <2> SUFFICES ASSUME ~ crossed
                 PROVE  /\ LineInv' /\ TransferInv' /\ ~ surprised'
                        /\ flows' # <<>> => /\ Gated(flows'[1], linkOpen', doc', plugged')
                                            /\ Trusted(flows'[1], linkOpen', plugged', proved')
      BY DEF SoleInv
    <2>1. LineInv /\ ~ surprised BY <1>1 DEF SoleInv
    <2>2. Len(flows') <= 1 BY <1>3, <2>1 DEF LineInv
    <2>3. flows' # <<>> => flows'[1].state # "waits"
      <3>1. flows' # <<>> => 1 \in 1 .. Len(flows') BY <1>3
      <3> QED BY <1>3, <3>1
    <2>4. ~ Asking' BY <2>3 DEF Asking
    <2>5. LineInv' BY <1>4, <1>5, <2>2, <2>4, LineQuiet
    <2>6. TransferInv' BY <1>5 DEF TransferInv
    <2>7. flows' # <<>> => /\ Gated(flows'[1], linkOpen', doc', plugged')
                           /\ Trusted(flows'[1], linkOpen', plugged', proved')
      BY <1>4, <2>3, ClosedClaims
    <2> QED BY <2>1, <2>5, <2>6, <2>7
  <1> QED BY <1>6, <1>7, <1>8, <1>9, <1>10, <1>11 DEF SessionInv

\* Disconnect: the user closes the link.
LEMMA DisconnectKeeps ==
    ASSUME SessionInv, Disconnect
    PROVE  SessionInv'
  <1>1. CloseLink(flows) BY DEF Disconnect
  <1>2. UNCHANGED <<plugged, proved, enabled, hasDocument, doc, crossed, unread, surprised>>
    BY DEF Disconnect, unitVars, docVars, histories
  <1>3. TypeOK /\ PlanInv BY DEF SessionInv
  <1>4. flows \in Seq(AnyFlow) /\ plugged' \in Units \union {NoUnit} /\ proved' \subseteq Functions
    BY <1>2, <1>3 DEF TypeOK
  <1>5. \A i \in 1 .. Len(flows) : Planned(flows[i]) BY <1>3 DEF PlanInv
  <1> QED BY <1>1, <1>2, <1>4, <1>5, ClosedKeeps

\* Unplug: the unit is gone, and the link with it.
LEMMA UnplugKeeps ==
    ASSUME SessionInv, Unplug
    PROVE  SessionInv'
  <1> DEFINE fs == Unsure(flows)
  <1>1. plugged' = NoUnit /\ proved' = {} BY DEF Unplug
  <1>2. UNCHANGED <<enabled, hasDocument, doc, crossed, unread, surprised>>
    BY DEF Unplug, docVars, histories
  <1>3. TypeOK /\ PlanInv /\ QueueInv /\ PortInv /\ MonitorInv /\ SoleInv BY DEF SessionInv
  <1>4. /\ fs \in Seq(AnyFlow) /\ Len(fs) = Len(flows)
        /\ \A i \in 1 .. Len(flows) :
              /\ fs[i].of = flows[i].of /\ fs[i].todo = flows[i].todo
              /\ fs[i].state = flows[i].state
    BY <1>3, UnsureFlows
  <1>5. CASE linkOpen
    <2>1. CloseLink(fs) BY <1>5 DEF Unplug
    <2> HIDE DEF fs
    <2>2. \A i \in 1 .. Len(flows) : Planned(flows[i]) BY <1>3 DEF PlanInv
    <2>3. \A i \in 1 .. Len(flows) :
             Planned(fs[i]) /\ (Minds(flows[i]) => Minds(fs[i]))
             /\ (fs[i].of = "got" => flows[i].of = "got" /\ fs[i].todo = flows[i].todo)
      BY <1>4, <2>2 DEF Planned, Minds
    <2>4. plugged' \in Units \union {NoUnit} /\ proved' \subseteq Functions BY <1>1
    <2> QED BY <1>2, <1>4, <2>1, <2>3, <2>4, ClosedKeeps
  <1>6. CASE ~ linkOpen
    <2>1. /\ flows' = fs
          /\ UNCHANGED <<linkOpen, hardware, queue, inFlight, transfers, getInProgress,
                         monitorAfterGet>>
      BY <1>6 DEF Unplug, linkVars
    <2> HIDE DEF fs
    <2>2. Stays BY <1>4, <2>1 DEF Stays
    <2>3. TypeOK' BY <1>1, <1>2, <1>3, <1>4, <2>1 DEF TypeOK
    <2>4. PlanInv' BY <1>3, <2>2, PlanStays
    <2>5. QueueInv'
      <3>1. \A i \in 1 .. Len(flows) :
               flows[i].state = "waits" => i \in 1 .. Len(flows') /\ flows'[i].state = "waits"
        BY <1>4, <2>1
      <3>2. Waits(queue, flows') BY <1>3, <3>1, WaitsMoves DEF QueueInv
      <3> QED BY <1>3, <2>1, <3>2 DEF QueueInv, Waits
    <2>6. PortInv' BY <1>6, <2>1 DEF PortInv
    <2>7. MonitorInv' BY <1>2, <1>3, <2>1, <2>2, MonitorStays
    <2>8. SoleInv'
      <3> SUFFICES ASSUME ~ crossed
                   PROVE  /\ LineInv' /\ TransferInv' /\ ~ surprised'
                          /\ flows' # <<>> => /\ Gated(flows'[1], linkOpen', doc', plugged')
                                              /\ Trusted(flows'[1], linkOpen', plugged', proved')
        BY <1>2 DEF SoleInv
      <3>1. LineInv /\ ~ surprised BY <1>3 DEF SoleInv
      <3>2. Len(flows') <= 1 BY <1>4, <2>1, <3>1 DEF LineInv
      <3>3. ~ Asking /\ Alive = {} /\ queue = <<>> /\ ~ inFlight BY <1>6, <3>1 DEF LineInv
      <3>4. flows' # <<>> => flows'[1].state # "waits"
        <4>1. flows' # <<>> => flows # <<>> /\ 1 \in 1 .. Len(flows) BY <1>3, <1>4, <2>1 DEF TypeOK
        <4> QED BY <1>4, <2>1, <3>3, <4>1 DEF Asking
      <3>5. ~ Asking' /\ Alive' = {} BY <2>1, <3>3, <3>4, AliveSame DEF Asking
      <3>6. queue' = <<>> /\ inFlight' = FALSE BY <1>3, <2>1, <3>3 DEF TypeOK
      <3>7. LineInv' BY <3>2, <3>5, <3>6, LineQuiet
      <3>8. TransferInv' BY <3>5 DEF TransferInv
      <3>9. flows' # <<>> => /\ Gated(flows'[1], linkOpen', doc', plugged')
                             /\ Trusted(flows'[1], linkOpen', plugged', proved')
        BY <1>6, <2>1, <3>4, ClosedClaims
      <3> QED BY <1>2, <3>1, <3>7, <3>8, <3>9
    <2> QED BY <2>3, <2>4, <2>5, <2>6, <2>7, <2>8 DEF SessionInv
  <1> QED BY <1>5, <1>6

\* Close: the window closes the link to a unit that restarts.
LEMMA CloseKeeps ==
    ASSUME SessionInv, Close
    PROVE  SessionInv'
  <1> DEFINE n == Len(flows)  todo == Tail(Top.todo)
             g == [Top EXCEPT !.todo = todo]
             fs == [flows EXCEPT ![n] = g]
  <1>1. flows # <<>> /\ Top.state = "runs" /\ Step[1] = "close" BY DEF Close, Runs
  <1>2. UNCHANGED <<plugged, proved, enabled, hasDocument, doc, crossed, unread, surprised>>
    BY DEF Close, unitVars, docVars, histories
  <1>3. TypeOK /\ PlanInv /\ PortInv BY DEF SessionInv
  <1>4. /\ flows \in Seq(AnyFlow) /\ n \in Nat /\ n \in 1 .. n /\ Top \in AnyFlow
        /\ todo \in Seq(AnyStep) /\ Belongs(Top.of, Step)
    BY <1>1, TopPlan, TopFacts
  <1>5. Top.of \in {"reset", "sent"}
    BY <1>1, <1>4 DEF Belongs, HasKind, Identifying, Proving, Gets
  <1>6. todo # <<>>
    <2> SUFFICES ASSUME todo = <<>> PROVE FALSE OBVIOUS
    <2>1. Ends(Top.of, Step) BY <1>1, TopLast
    <2> QED BY <1>1, <2>1 DEF Ends
  <1>7. IsPlan(Top.of, todo) /\ Follows(Top.of, Step, Head(todo)) /\ EndsAlike(todo)
    BY <1>1, <1>6, TopTail
  <1>8. Head(todo)[1] = "reopen" BY <1>1, <1>7 DEF Follows
  <1>9. /\ g \in AnyFlow /\ g.of = Top.of /\ g.todo = todo /\ g.state = "runs"
        /\ g.sure = Top.sure /\ g.sends = Top.sends
    <2> HIDE DEF todo
    <2> QED BY <1>1, <1>4 DEF AnyFlow
  <1>10. fs = [flows EXCEPT ![n].todo = Tail(@)] BY DEF Top
  <1> HIDE DEF g, todo
  <1>11. /\ fs \in Seq(AnyFlow) /\ Len(fs) = Len(flows) /\ fs[n] = g
         /\ \A i \in 1 .. Len(flows) : i # n => fs[i] = flows[i]
    BY <1>4, <1>9
  <1>12. CASE linkOpen
    <2>1. CloseLink(fs) BY <1>10, <1>12 DEF Close
    <2> HIDE DEF fs
    <2>2. \A i \in 1 .. Len(flows) :
             Planned(fs[i]) /\ (Minds(flows[i]) => Minds(fs[i]))
             /\ (fs[i].of = "got" => flows[i].of = "got" /\ fs[i].todo = flows[i].todo)
      <3> TAKE i \in 1 .. Len(flows)
      <3>1. CASE i = n
        <4>1. Planned(g) BY <1>7, <1>9 DEF Planned
        <4>2. ~ Minds(flows[i]) BY <1>5, <3>1 DEF Minds, Top
        <4> QED BY <1>5, <1>9, <1>11, <3>1, <4>1, <4>2
      <3>2. CASE i # n BY <1>3, <1>11, <3>2 DEF PlanInv
      <3> QED BY <3>1, <3>2
    <2>3. plugged' \in Units \union {NoUnit} /\ proved' \subseteq Functions
      BY <1>2, <1>3 DEF TypeOK
    <2> QED BY <1>2, <1>11, <2>1, <2>2, <2>3, ClosedKeeps
  <1>13. CASE ~ linkOpen
    <2>1. /\ flows' = fs
          /\ UNCHANGED <<linkOpen, hardware, queue, inFlight, transfers, getInProgress,
                         monitorAfterGet>>
      BY <1>10, <1>13 DEF Close, linkVars
    <2> HIDE DEF fs
    <2>2. Turns(todo)
      <3>1. \A i \in 1 .. Len(flows) - 1 : i \in 1 .. Len(flows) /\ i # n BY <1>4
      <3> QED BY <1>9, <1>11, <2>1, <3>1 DEF Turns
    <2>3. Leaves BY <1>2, <1>3, <2>1 DEF Leaves, TypeOK, PortInv
    <2>4. ~ crossed /\ Len(flows) = 1
             => /\ Gated(flows'[1], linkOpen', doc', plugged)
                /\ Trusted(flows'[1], linkOpen', plugged, proved)
      <3> SUFFICES ASSUME Len(flows) = 1
                   PROVE  /\ Gated(flows'[1], linkOpen', doc', plugged)
                          /\ Trusted(flows'[1], linkOpen', plugged, proved)
        OBVIOUS
      <3>1. flows'[1].state # "waits" BY <1>9, <1>11, <2>1
      <3> QED BY <1>13, <2>1, <3>1, ClosedClaims
    <2>5. Step[1] \notin Fresh BY <1>1 DEF Fresh, Identifying
    <2> QED BY <1>1, <1>7, <2>1, <2>2, <2>3, <2>4, <2>5, Onward
  <1> QED BY <1>12, <1>13

\* Restart: the unit restarts and forgets what was proved to it.
LEMMA RestartKeeps ==
    ASSUME SessionInv, Restart
    PROVE  SessionInv'
  <1>1. /\ proved' = {} /\ flows' = Unsure(flows)
        /\ transfers' = [s \in Slots |-> [transfers[s] EXCEPT !.sure = FALSE]]
    BY DEF Restart
  <1>2. UNCHANGED <<plugged, linkOpen, hardware, enabled, queue, inFlight, hasDocument, doc,
                    getInProgress, monitorAfterGet, crossed, unread, surprised>>
    BY DEF Restart, linkVars, windowVars, docVars, histories
  <1>3. TypeOK /\ PlanInv /\ QueueInv /\ PortInv /\ MonitorInv /\ SoleInv BY DEF SessionInv
  <1>4. /\ flows' \in Seq(AnyFlow) /\ Len(flows') = Len(flows)
        /\ \A i \in 1 .. Len(flows) :
              /\ flows'[i].of = flows[i].of /\ flows'[i].todo = flows[i].todo
              /\ flows'[i].state = flows[i].state /\ flows'[i].unit = flows[i].unit
              /\ flows'[i].key = flows[i].key /\ flows'[i].sends = flows[i].sends
              /\ flows'[i].sure = FALSE
    BY <1>1, <1>3, UnsureFlows
  <1>5. /\ transfers' \in [Slots -> AnyTransfer]
        /\ \A t \in Slots : /\ transfers'[t].kind = transfers[t].kind
                            /\ transfers'[t].sends = transfers[t].sends
                            /\ transfers'[t].sure = FALSE
                            /\ transfers'[t].cancelled = transfers[t].cancelled
    <2>1. transfers \in [Slots -> AnyTransfer] BY <1>3 DEF TypeOK
    <2> QED BY <1>1, <2>1 DEF AnyTransfer
  <1>6. Alive' = Alive BY <1>5 DEF Alive
  <1>7. TypeOK' BY <1>1, <1>2, <1>3, <1>4, <1>5 DEF TypeOK
  <1>8. Stays BY <1>4 DEF Stays
  <1>9. PlanInv' BY <1>3, <1>8, PlanStays
  <1>10. MonitorInv' BY <1>2, <1>3, <1>8, MonitorStays
  <1>11. QueueInv'
    <2>1. \A i \in 1 .. Len(flows) :
             flows[i].state = "waits" => i \in 1 .. Len(flows') /\ flows'[i].state = "waits"
      BY <1>4
    <2>2. Waits(queue, flows') BY <1>3, <2>1, WaitsMoves DEF QueueInv
    <2> QED BY <1>2, <1>3, <2>2 DEF QueueInv, Waits
  <1>12. PortInv' BY <1>2, <1>3 DEF PortInv
  <1>13. SoleInv'
    <2> SUFFICES ASSUME ~ crossed
                 PROVE  /\ LineInv' /\ TransferInv' /\ ~ surprised'
                        /\ flows' # <<>> => /\ Gated(flows'[1], linkOpen', doc', plugged')
                                            /\ Trusted(flows'[1], linkOpen', plugged', proved')
      BY <1>2 DEF SoleInv
    <2>1. LineInv /\ TransferInv /\ ~ surprised BY <1>3 DEF SoleInv
    <2>2. flows' # <<>> <=> flows # <<>> BY <1>3, <1>4 DEF TypeOK
    <2>3. flows # <<>> => 1 \in 1 .. Len(flows) BY <1>3 DEF TypeOK
    <2>4. Asking' <=> Asking BY <1>4, <2>2, <2>3 DEF Asking
    <2>5. \A t \in Alive : t \in Slots BY DEF Alive
    <2>6. Alive' # {} /\ flows' # <<>> =>
             /\ flows'[1].of \notin Handlers /\ flows'[1].state \in {"runs", "waits"}
             /\ Head(flows'[1].todo)[1] \in Fresh
             /\ \A s \in Alive' : transfers'[s].cancelled
      BY <1>4, <1>5, <1>6, <2>1, <2>2, <2>3, <2>5 DEF LineInv
    <2>7. LineInv'
      BY <1>2, <1>4, <1>6, <2>1, <2>4, <2>6 DEF LineInv
    <2>8. TransferInv' BY <1>2, <1>5, <1>6, <2>1, <2>5 DEF TransferInv
    <2>9. ASSUME flows' # <<>>
          PROVE  /\ Gated(flows'[1], linkOpen, doc, plugged)
                 /\ Trusted(flows'[1], linkOpen, plugged, proved')
      <3> DEFINE f == flows[1]  g == flows'[1]
      <3>1. Gated(f, linkOpen, doc, plugged) /\ Trusted(f, linkOpen, plugged, proved)
        BY <1>3, <2>2, <2>9 DEF SoleInv
      <3>2. /\ g.of = f.of /\ g.todo = f.todo /\ g.state = f.state /\ g.unit = f.unit
            /\ g.key = f.key /\ g.sends = f.sends /\ g.sure = FALSE
        BY <1>4, <2>2, <2>3, <2>9
      <3> HIDE DEF f, g
      <3>3. Gated(g, linkOpen, doc, plugged) BY <3>1, <3>2 DEF Gated
      <3>4. Trusted(g, linkOpen, plugged, proved') BY <3>1, <3>2 DEF Trusted
      <3> QED BY <3>3, <3>4 DEF g
    <2> QED BY <1>2, <2>1, <2>7, <2>8, <2>9
  <1> QED BY <1>7, <1>9, <1>10, <1>11, <1>12, <1>13 DEF SessionInv

-----------------------------------------------------------------------------
(* The actions: transfers *)

\* A transfer that is not alive is well formed.
LEMMA IdleSlots ==
    /\ Idle \in AnyTransfer /\ Idle.kind = "none" /\ Slots = {1, 2}
    /\ \A s \in Slots : -s \in {-1, -2}
  BY DEF Idle, AnyTransfer, AnyDocument, NoDocument, Keys, Slots

\* Without its first a sequence is one.
LEMMA TailTyped ==
    ASSUME NEW S, NEW q \in Seq(S), q # <<>>
    PROVE  Tail(q) \in Seq(S)
  OBVIOUS

\* The one flow has put down what it needs when it starts its transfer.
LEMMA StartClaims ==
    ASSUME NEW f, NEW u, NEW p, NEW kind, Gated(f, TRUE, doc, u), Trusted(f, TRUE, u, p),
           Head(f.todo)[1] = "start", Belongs(f.of, Head(f.todo)),
           kind = IF f.of = "send" THEN "send" ELSE "get"
    PROVE  /\ kind = "send" /\ f.sends.marked => u.key = f.sends.key
           /\ f.sure => kind \notin u.guards \ p
  <1>1. f.of \in {"send", "get", "monitor", "unlock"}
    BY DEF Belongs, HasKind, Identifying, Proving, Gets
  <1>2. kind = Needs(f.of) BY <1>1 DEF Needs
  <1>3. Beyond(f) BY DEF Beyond
  <1>4. f.sure => kind \notin u.guards \ p BY <1>2, <1>3 DEF Trusted
  <1>5. kind = "send" /\ f.sends.marked => u.key = f.sends.key BY <1>1 DEF Gated
  <1> QED BY <1>4, <1>5

\* Start: a flow starts its transfer and returns.
LEMMA StartKeeps ==
    ASSUME SessionInv, Start
    PROVE  SessionInv'
  <1> DEFINE f == Top
             kind == IF f.of = "send" THEN "send" ELSE "get"
  <1>1. flows # <<>> /\ f.state = "runs" /\ Step[1] = "start" BY DEF Start, Runs
  <1>2. UNCHANGED <<plugged, proved, linkOpen, hardware, enabled, hasDocument, doc,
                    crossed, unread, surprised>>
    BY DEF Start, unitVars, docVars, histories
  <1>3. TypeOK /\ PlanInv /\ QueueInv /\ PortInv /\ MonitorInv /\ SoleInv BY DEF SessionInv
  <1>4. flows \in Seq(AnyFlow) /\ f \in AnyFlow /\ Belongs(f.of, Step) /\ Step \in AnyStep
    BY <1>1, TopPlan
  <1>5. flows' = Front(flows) BY DEF Start
  <1>6. Returns BY <1>1, <1>4, <1>5, FrontReturns
  <1>7. PlanInv' BY <1>3, <1>4, <1>6, PlanReturns
  <1>8. PortInv' BY <1>2, <1>3 DEF PortInv
  <1>9. flows' \in Seq(AnyFlow) BY <1>6 DEF Returns
  <1>10. Minds(f) => kind = "get" BY DEF Minds
  <1>11. kind \in {"send", "get"} OBVIOUS
  <1>12. ASSUME ~ crossed
         PROVE  /\ LineInv /\ ~ surprised /\ flows' = <<>> /\ Alive = {}
                /\ queue = <<>> /\ ~ inFlight
                /\ linkOpen => Gated(f, TRUE, doc, plugged) /\ Trusted(f, TRUE, plugged, proved)
    <2>1. LineInv /\ ~ surprised BY <1>3, <1>12 DEF SoleInv
    <2>2. Len(flows) = 1 /\ f = flows[1] BY <1>1, <1>3, <2>1, SoleTop
    <2>3. Len(flows') = 0 /\ flows' = <<>> BY <1>6, <2>2 DEF Returns
    <2>4. Step[1] \notin Fresh BY <1>1 DEF Fresh, Identifying
    <2>5. Alive = {} BY <1>1, <2>1, <2>2, <2>4 DEF LineInv, Step
    <2>6. ~ Asking BY <1>1, <2>2 DEF Asking
    <2>7. queue = <<>> /\ ~ inFlight BY <2>1, <2>5, <2>6 DEF LineInv
    <2>8. Gated(f, linkOpen, doc, plugged) /\ Trusted(f, linkOpen, plugged, proved)
      BY <1>1, <1>12, SoleClaims
    <2>9. linkOpen => linkOpen = TRUE BY <1>3 DEF TypeOK
    <2> HIDE DEF f
    <2> QED BY <2>1, <2>3, <2>5, <2>7, <2>8, <2>9
  <1>13. CASE linkOpen
    <2>1. PICK s \in Slots \ Alive, resets \in BOOLEAN :
             /\ transfers' = [transfers EXCEPT ![s] = Starts(kind, resets)]
             /\ queue' = Append(queue, -s) /\ inFlight' = TRUE
             /\ getInProgress' = (getInProgress \/ kind = "get")
             /\ UNCHANGED monitorAfterGet
      BY <1>13 DEF Start
    <2> DEFINE t == Starts(kind, resets)
    <2>2. /\ t \in AnyTransfer /\ t.kind = kind /\ t.sends = f.sends /\ t.sure = f.sure
      BY <1>4, <1>11 DEF Starts, AnyTransfer, AnyFlow
    <2> HIDE DEF t, kind, f
    <2>3. -s \in {-1, -2} /\ s \in Slots BY IdleSlots
    <2>4. transfers' \in [Slots -> AnyTransfer] /\ transfers'[s] = t
          /\ \A r \in Slots : r # s => transfers'[r] = transfers[r]
      <3>1. transfers \in [Slots -> AnyTransfer] BY <1>3 DEF TypeOK
      <3>2. transfers' = [transfers EXCEPT ![s] = t] BY <2>1 DEF t
      <3> QED BY <2>2, <2>3, <3>1, <3>2
    <2>5. queue \in Seq(Int) /\ queue \in Seq(Nat \union {-1, -2}) BY <1>3, QueueTyped
    <2>6. queue' \in Seq(Nat \union {-1, -2}) /\ queue' # <<>>
      <3>1. -s \in Nat \union {-1, -2} BY <2>3
      <3>2. queue' \in Seq(Nat \union {-1, -2}) BY <2>1, <2>5, <3>1
      <3>3. Len(queue') = Len(queue) + 1 /\ Len(queue) \in Nat BY <2>1, <2>5
      <3>4. queue' # <<>> BY <3>3
      <3> QED BY <3>2, <3>4
    <2>7. TypeOK'
      <3>1. getInProgress' \in BOOLEAN /\ monitorAfterGet' \in BOOLEAN
        BY <1>3, <2>1 DEF TypeOK
      <3> QED BY <1>2, <1>3, <1>9, <2>1, <2>4, <2>6, <3>1 DEF TypeOK
    <2>8. QueueInv'
      <3>1. Waits(queue, flows) BY <1>3 DEF QueueInv
      <3>2. \A i \in 1 .. Len(flows) :
               flows[i].state = "waits" => i \in 1 .. Len(flows') /\ flows'[i].state = "waits"
        BY <1>1, <1>4, <1>6, WaitersStay DEF f
      <3>3. Waits(queue, flows') BY <3>1, <3>2, WaitsMoves
      <3>4. Waits(Append(queue, -s), flows') BY <2>3, <2>5, <3>3, WaitsBehind
      <3> QED BY <2>1, <2>6, <3>4 DEF QueueInv, Waits
    <2>9. MonitorInv'
      <3>1. Minds(Top) => kind = "get" BY <1>10 DEF f
      <3> QED BY <1>1, <1>2, <1>3, <1>4, <1>6, <2>1, <3>1, MonitorReturns
    <2>10. SoleInv'
      <3> SUFFICES ASSUME ~ crossed
                   PROVE  LineInv' /\ TransferInv' /\ ~ surprised' /\ flows' = <<>>
        BY <1>2 DEF SoleInv
      <3>1. /\ LineInv /\ ~ surprised /\ flows' = <<>> /\ Alive = {} /\ queue = <<>>
            /\ Gated(f, TRUE, doc, plugged) /\ Trusted(f, TRUE, plugged, proved)
        BY <1>12, <1>13
      <3>2. Alive' = {s}
        BY <1>11, <2>2, <2>3, <2>4, <3>1 DEF Alive, kind
      <3>3. queue' = <<-s>> BY <2>1, <3>1
      <3>4. ~ Asking' BY <3>1 DEF Asking
      <3>5. linkOpen' BY <1>2, <1>13
      <3>6. Len(flows') <= 1 BY <3>1
      <3>7. LineInv'
        BY <2>1, <2>6, <3>1, <3>2, <3>3, <3>4, <3>5, <3>6 DEF LineInv
      <3>8. TransferInv'
        <4>1. Head(f.todo)[1] = "start" /\ Belongs(f.of, Head(f.todo)) BY <1>1, <1>4 DEF Step, f
        <4>2. kind = IF f.of = "send" THEN "send" ELSE "get" BY DEF kind
        <4>3. /\ kind = "send" /\ f.sends.marked => plugged.key = f.sends.key
              /\ f.sure => kind \notin plugged.guards \ proved
          BY <3>1, <4>1, <4>2, StartClaims
        <4> QED BY <1>2, <2>2, <2>4, <3>2, <4>3 DEF TransferInv, Allowed
      <3> QED BY <1>2, <3>1, <3>7, <3>8
    <2> QED BY <1>7, <1>8, <2>7, <2>8, <2>9, <2>10 DEF SessionInv
  <1>14. CASE ~ linkOpen
    <2>1. /\ getInProgress' = (getInProgress /\ kind # "get")
          /\ monitorAfterGet' = (monitorAfterGet /\ kind # "get")
          /\ UNCHANGED <<transfers, queue, inFlight>>
      BY <1>14 DEF Start, linkVars
    <2> HIDE DEF kind, f
    <2>2. TypeOK'
      <3>1. getInProgress' \in BOOLEAN /\ monitorAfterGet' \in BOOLEAN
        BY <1>3, <2>1 DEF TypeOK
      <3> QED BY <1>2, <1>3, <1>9, <2>1, <3>1 DEF TypeOK
    <2>3. QueueInv'
      <3>1. Top.state # "waits" BY <1>1 DEF f
      <3> QED BY <1>1, <1>3, <1>4, <1>6, <2>1, <3>1, QueueReturns
    <2>4. MonitorInv'
      <3>1. Minds(Top) => kind = "get" BY <1>10 DEF f
      <3> QED BY <1>1, <1>2, <1>3, <1>4, <1>6, <2>1, <3>1, MonitorReturns
    <2>5. SoleInv'
      <3> SUFFICES ASSUME ~ crossed
                   PROVE  LineInv' /\ TransferInv' /\ ~ surprised' /\ flows' = <<>>
        BY <1>2 DEF SoleInv
      <3>1. LineInv /\ ~ surprised /\ flows' = <<>> /\ Alive = {} /\ queue = <<>> /\ ~ inFlight
        BY <1>12
      <3>2. Alive' = {} BY <2>1, <3>1, AliveSame
      <3>3. ~ Asking' BY <3>1 DEF Asking
      <3>4. queue' = <<>> /\ inFlight' = FALSE BY <1>3, <2>1, <3>1 DEF TypeOK
      <3>5. Len(flows') <= 1 BY <3>1
      <3>6. LineInv' BY <3>2, <3>3, <3>4, <3>5, LineQuiet
      <3>7. TransferInv' BY <3>2 DEF TransferInv
      <3> QED BY <1>2, <3>1, <3>6, <3>7
    <2> QED BY <1>7, <1>8, <2>2, <2>3, <2>4, <2>5 DEF SessionInv
  <1> QED BY <1>13, <1>14

-----------------------------------------------------------------------------
(* The actions: a transfer is answered *)

\* Transfer s is first on the line.
First(s) == inFlight /\ Head(queue) < 0 /\ s = -Head(queue)

\* The rest of the queue waits on.
LEMMA FirstOnLine ==
    ASSUME SessionInv, NEW s, First(s)
    PROVE  /\ s \in Slots /\ queue # <<>> /\ queue \in Seq(Int)
           /\ Tail(queue) \in Seq(Nat \union {-1, -2}) /\ Tail(queue) \in Seq(Int)
           /\ Waits(Tail(queue), flows)
  <1>1. TypeOK /\ QueueInv BY DEF SessionInv
  <1>2. queue # <<>> /\ queue \in Seq(Int) /\ queue \in Seq(Nat \union {-1, -2})
    BY <1>1, QueueTyped DEF QueueInv, First
  <1>3. Head(queue) \in Nat \union {-1, -2} BY <1>2
  <1>4. s \in Slots BY <1>3 DEF First, Slots
  <1>5. Waits(queue, flows) BY <1>1 DEF QueueInv
  <1>6. \A i \in 1 .. Len(flows) :
           flows[i].state = "waits" /\ i # Head(queue)
             => i \in 1 .. Len(flows) /\ flows[i].state = "waits"
    OBVIOUS
  <1>7. Waits(Tail(queue), flows) BY <1>2, <1>5, <1>6, WaitsTail
  <1> QED BY <1>2, <1>4, <1>7, TailTyped

\* A sequence of two without its first.
LEMMA TailOfTwo ==
    ASSUME NEW x \in Int, NEW q \in Seq(Int), q = <<x, 1>>
    PROVE  Tail(q) = <<1>> /\ Head(q) = x
  <1> DEFINE a == Tail(q)  b == <<1>>
  <1>1. /\ a \in Seq(Int) /\ Len(a) = 1 /\ a[1] = 1
        /\ b \in Seq(Int) /\ Len(b) = 1 /\ b[1] = 1 /\ Head(q) = x
    OBVIOUS
  <1> HIDE DEF a, b
  <1>2. \A i \in 1 .. 1 : i = 1 OBVIOUS
  <1>3. \A i \in 1 .. Len(a) : a[i] = b[i] BY <1>1, <1>2
  <1>4. a = b BY <1>1, <1>3, SeqEqual
  <1> QED BY <1>1, <1>4 DEF a, b

\* A sequence of one.
LEMMA Alone ==
    ASSUME NEW x \in Int
    PROVE  Append(<<>>, x) = <<x>>
  <1> DEFINE a == Append(<<>>, x)  b == <<x>>
  <1>1. a \in Seq(Int) /\ Len(a) = 1 /\ a[1] = x /\ b \in Seq(Int) /\ Len(b) = 1 /\ b[1] = x
    OBVIOUS
  <1> HIDE DEF a, b
  <1>2. \A i \in 1 .. Len(a) : a[i] = b[i] BY <1>1
  <1>3. a = b BY <1>1, <1>2, SeqEqual
  <1> QED BY <1>3 DEF a, b

\* Uncrossed, the transfer on the line is the only one.
LEMMA SoleLine ==
    ASSUME SessionInv, NEW s, First(s), ~ crossed
    PROVE  /\ LineInv /\ TransferInv /\ ~ surprised /\ Alive = {s} /\ linkOpen
           /\ Asking => Tail(queue) = <<1>>
           /\ ~ Asking => Tail(queue) = <<>>
           /\ flows = <<>> => ~ Asking
           /\ flows # <<>> =>
                 /\ flows[1].of \notin Handlers /\ flows[1].state \in {"runs", "waits"}
                 /\ Head(flows[1].todo)[1] \in Fresh /\ transfers[s].cancelled
  <1>1. LineInv /\ TransferInv /\ ~ surprised BY DEF SessionInv, SoleInv
  <1>2. queue # <<>> /\ queue \in Seq(Int) BY FirstOnLine
  <1>3. Alive # {}
    <2> SUFFICES ASSUME Alive = {} PROVE FALSE OBVIOUS
    <2>1. queue = <<1>> \/ queue = <<>> BY <1>1 DEF LineInv
    <2>2. queue = <<1>> => Head(queue) = 1 OBVIOUS
    <2> QED BY <1>2, <2>1, <2>2 DEF First
  <1>4. PICK t \in Alive : TRUE BY <1>3
  <1>5. -t \in Int /\ t \in Int BY DEF Alive, Slots
  <1>6. Head(queue) = -t /\ (Asking => Tail(queue) = <<1>>) /\ (~ Asking => Tail(queue) = <<>>)
    <2>1. CASE Asking
      <3>1. queue = <<-t, 1>> BY <1>1, <2>1 DEF LineInv
      <3> QED BY <1>2, <1>5, <2>1, <3>1, TailOfTwo
    <2>2. CASE ~ Asking
      <3>1. queue = <<-t>> BY <1>1, <2>2 DEF LineInv
      <3> QED BY <1>5, <2>2, <3>1
    <2> QED BY <2>1, <2>2
  <1>7. s = t BY <1>5, <1>6 DEF First
  <1>8. Alive = {s} BY <1>1, <1>4, <1>7 DEF LineInv
  <1> QED BY <1>1, <1>6, <1>8 DEF LineInv, Asking

\* A transfer that ended is alive no longer.
LEMMA SlotCleared ==
    ASSUME TypeOK, NEW s \in Slots, transfers' = [transfers EXCEPT ![s] = Idle]
    PROVE  transfers' \in [Slots -> AnyTransfer] /\ Alive' = Alive \ {s}
  <1>1. transfers \in [Slots -> AnyTransfer] BY DEF TypeOK
  <1>2. transfers'[s] = Idle /\ \A r \in Slots : r # s => transfers'[r] = transfers[r]
    BY <1>1
  <1>3. transfers' \in [Slots -> AnyTransfer] BY <1>1, IdleSlots
  <1>4. Alive' = Alive \ {s} BY <1>2, IdleSlots DEF Alive
  <1> QED BY <1>3, <1>4

\* What the handlers of a transfer leave alone.
LEMMA GoesOnKeeps ==
    ASSUME SessionInv, NEW s, First(s), TransferGoesOn(s),
           UNCHANGED <<plugged, linkOpen, hardware, enabled>>,
           surprised' \in BOOLEAN, ~ crossed => flows = <<>> /\ ~ surprised'
    PROVE  SessionInv'
  <1>1. /\ queue' = Append(Tail(queue), -s) /\ inFlight' = TRUE
        /\ UNCHANGED <<proved, flows, transfers, hasDocument, doc, getInProgress,
                       monitorAfterGet, crossed, unread>>
    BY DEF TransferGoesOn, windowVars, docVars
  <1>2. TypeOK /\ PlanInv /\ QueueInv /\ PortInv /\ MonitorInv /\ SoleInv BY DEF SessionInv
  <1>3. /\ s \in Slots /\ Tail(queue) \in Seq(Nat \union {-1, -2}) /\ Tail(queue) \in Seq(Int)
        /\ Waits(Tail(queue), flows)
    BY FirstOnLine
  <1>4. -s \in {-1, -2} BY <1>3, IdleSlots
  <1>5. queue' \in Seq(Nat \union {-1, -2}) /\ queue' # <<>>
    <2>1. -s \in Nat \union {-1, -2} BY <1>4
    <2>2. queue' \in Seq(Nat \union {-1, -2}) BY <1>1, <1>3, <2>1
    <2>3. Len(queue') = Len(Tail(queue)) + 1 /\ Len(Tail(queue)) \in Nat BY <1>1, <1>3
    <2>4. queue' # <<>> BY <2>3
    <2> QED BY <2>2, <2>4
  <1>6. TypeOK' BY <1>1, <1>2, <1>5 DEF TypeOK
  <1>7. Stays BY <1>1, <1>2, UnchangedStays
  <1>8. PlanInv' BY <1>2, <1>7, PlanStays
  <1>9. MonitorInv' BY <1>1, <1>2, <1>7, MonitorStays
  <1>10. PortInv' BY <1>2 DEF PortInv
  <1>11. QueueInv'
    <2>1. Waits(Append(Tail(queue), -s), flows) BY <1>3, <1>4, WaitsBehind
    <2> QED BY <1>1, <1>5, <2>1 DEF QueueInv, Waits
  <1>12. SoleInv'
    <2> SUFFICES ASSUME ~ crossed
                 PROVE  LineInv' /\ TransferInv' /\ ~ surprised' /\ flows' = <<>>
      BY <1>1 DEF SoleInv
    <2>1. LineInv /\ TransferInv /\ Alive = {s} /\ linkOpen /\ (~ Asking => Tail(queue) = <<>>)
      BY SoleLine
    <2>2. flows' = <<>> /\ ~ Asking /\ ~ Asking' BY <1>1 DEF Asking
    <2>3. Alive' = {s} BY <1>1, <2>1, AliveSame
    <2>4. queue' = <<-s>>
      <3>1. Tail(queue) = <<>> BY <2>1, <2>2
      <3>2. -s \in Int BY <1>4
      <3>3. Append(<<>>, -s) = <<-s>> BY <3>2, Alone
      <3> QED BY <1>1, <3>1, <3>3
    <2>5. LineInv' BY <1>1, <1>5, <2>1, <2>2, <2>3, <2>4 DEF LineInv
    <2>6. TransferInv' BY <1>1, <2>1, TransfersKept
    <2> QED BY <2>2, <2>5, <2>6
  <1> QED BY <1>6, <1>8, <1>9, <1>10, <1>11, <1>12 DEF SessionInv

\* A transfer ends behind whatever flow asked meanwhile.
LEMMA EndsKeeps ==
    ASSUME SessionInv, NEW s, First(s), transfers' = [transfers EXCEPT ![s] = Idle],
           queue' = Tail(queue), inFlight' = (Tail(queue) # <<>>),
           UNCHANGED <<plugged, linkOpen, hardware, enabled, flows, hasDocument, doc, crossed,
                       unread>>,
           proved' \in {proved, {}},
           getInProgress' \in BOOLEAN, monitorAfterGet' \in BOOLEAN,
           monitorAfterGet' => monitorAfterGet,
           monitorAfterGet' /\ getInProgress => getInProgress',
           surprised' \in BOOLEAN, ~ crossed => ~ surprised'
    PROVE  SessionInv'
  <1>1. TypeOK /\ PlanInv /\ QueueInv /\ PortInv /\ MonitorInv /\ SoleInv BY DEF SessionInv
  <1>2. /\ s \in Slots /\ Tail(queue) \in Seq(Nat \union {-1, -2}) /\ Waits(Tail(queue), flows)
    BY FirstOnLine
  <1>3. transfers' \in [Slots -> AnyTransfer] /\ Alive' = Alive \ {s}
    BY <1>1, <1>2, SlotCleared
  <1>4. TypeOK' BY <1>1, <1>2, <1>3 DEF TypeOK
  <1>5. Stays BY <1>1, UnchangedStays
  <1>6. PlanInv' BY <1>1, <1>5, PlanStays
  <1>7. MonitorInv' BY <1>1, <1>5, MonitorStays
  <1>8. PortInv' BY <1>1 DEF PortInv
  <1>9. QueueInv' BY <1>2 DEF QueueInv, Waits
  <1>10. SoleInv'
    <2> SUFFICES ASSUME ~ crossed
                 PROVE  /\ LineInv' /\ TransferInv' /\ ~ surprised'
                        /\ flows # <<>> => /\ Gated(flows[1], linkOpen, doc, plugged)
                                           /\ Trusted(flows[1], linkOpen, plugged, proved')
      BY DEF SoleInv
    <2>1. /\ LineInv /\ Alive = {s} /\ linkOpen
          /\ Asking => Tail(queue) = <<1>>
          /\ ~ Asking => Tail(queue) = <<>>
          /\ flows # <<>> =>
                /\ flows[1].of \notin Handlers /\ flows[1].state \in {"runs", "waits"}
                /\ Head(flows[1].todo)[1] \in Fresh /\ transfers[s].cancelled
      BY SoleLine
    <2>2. Alive' = {} BY <1>3, <2>1
    <2>3. Asking' <=> Asking BY DEF Asking
    <2>4. <<1>> # <<>> OBVIOUS
    <2>5. LineInv' BY <2>1, <2>2, <2>3, <2>4 DEF LineInv
    <2>6. TransferInv' BY <2>2 DEF TransferInv
    <2>7. ASSUME flows # <<>>
          PROVE  /\ Gated(flows[1], linkOpen, doc, plugged)
                 /\ Trusted(flows[1], linkOpen, plugged, proved')
      <3> DEFINE f == flows[1]
      <3>1. Gated(f, linkOpen, doc, plugged) BY <1>1, <2>7 DEF SoleInv
      <3>2. /\ f.of \notin Handlers /\ f.state \in {"runs", "waits"}
            /\ Head(f.todo)[1] \in Fresh
        BY <2>1, <2>7
      <3>3. Belongs(f.of, Head(f.todo))
        <4>1. flows[1] = Top /\ Len(flows) = 1 BY <1>1, <2>1, <2>7, SoleTop
        <4>2. Belongs(Top.of, Step) BY <2>7, TopPlan
        <4> QED BY <4>1, <4>2 DEF Step
      <3> HIDE DEF f
      <3>4. ~ Beyond(f) /\ f.state # "ok"
        <4>1. Head(f.todo)[1] \in Proving => Head(f.todo)[2] # "comms"
          BY <3>2, <3>3 DEF Belongs, Handlers, Needs
        <4> QED BY <3>2, <4>1 DEF Beyond, Fresh, Identifying
      <3>5. Trusted(f, linkOpen, plugged, proved') BY <3>4 DEF Trusted
      <3> QED BY <3>1, <3>5 DEF f
    <2> QED BY <2>5, <2>6, <2>7
  <1> QED BY <1>4, <1>6, <1>7, <1>8, <1>9, <1>10 DEF SessionInv

\* A transfer ends with a flow for a handler.
LEMMA EndCalls ==
    ASSUME SessionInv, NEW s, First(s), transfers' = [transfers EXCEPT ![s] = Idle],
           queue' = Tail(queue), inFlight' = FALSE,
           NEW of \in Of, NEW todo \in Seq(AnyStep), IsPlan(of, todo),
           \/ Head(todo)[1] \in {"close", "told"}
           \/ Head(todo)[1] = "ask" /\ of = "unlock",
           of = "got" => todo[Len(todo)][1] # "monitor",
           flows' = Append(flows, Flow(of, todo)),
           UNCHANGED <<plugged, linkOpen, hardware, enabled, unread>>,
           proved' \subseteq Functions, hasDocument' \in BOOLEAN, doc' \in AnyDocument,
           hasDocument => hasDocument', crossed' \in BOOLEAN, crossed => crossed',
           getInProgress' \in BOOLEAN, monitorAfterGet' = monitorAfterGet,
           getInProgress => getInProgress' \/ of = "unlock",
           surprised' \in BOOLEAN, ~ crossed' => flows = <<>> /\ ~ surprised'
    PROVE  SessionInv'
  <1> DEFINE f == Flow(of, todo)
  <1>1. TypeOK /\ PlanInv /\ QueueInv /\ PortInv /\ MonitorInv /\ SoleInv BY DEF SessionInv
  <1>2. /\ s \in Slots /\ Tail(queue) \in Seq(Nat \union {-1, -2}) /\ Waits(Tail(queue), flows)
    BY FirstOnLine
  <1>3. transfers' \in [Slots -> AnyTransfer] /\ Alive' = Alive \ {s}
    BY <1>1, <1>2, SlotCleared
  <1>4. flows \in Seq(AnyFlow) BY <1>1 DEF TypeOK
  <1>5. f \in AnyFlow BY FlowTyped
  <1>6. f.of = of /\ f.todo = todo /\ f.state = "runs" BY DEF Flow
  <1>7. flows' = Append(flows, f) OBVIOUS
  <1> HIDE DEF f
  <1>8. Calls(f) BY <1>4, <1>5, <1>7, AppendCalls
  <1>9. TypeOK'
    <2>1. flows' \in Seq(AnyFlow) BY <1>8 DEF Calls
    <2> QED BY <1>1, <1>2, <1>3, <2>1 DEF TypeOK
  <1>10. PlanInv' BY <1>1, <1>4, <1>6, <1>8, PlanCalls
  <1>11. MonitorInv'
    <2>1. of = "unlock" => Minds(f) BY <1>6 DEF Minds
    <2> QED BY <1>1, <1>4, <1>6, <1>8, <2>1, MonitorCalls
  <1>12. PortInv' BY <1>1 DEF PortInv
  <1>13. QueueInv'
    <2>1. \A i \in 1 .. Len(flows) :
             flows[i].state = "waits" => i \in 1 .. Len(flows') /\ flows'[i].state = "waits"
      BY <1>4, <1>8 DEF Calls
    <2>2. Waits(Tail(queue), flows') BY <1>2, <2>1, WaitsMoves
    <2> QED BY <2>2 DEF QueueInv, Waits
  <1>14. SoleInv'
    <2> SUFFICES ASSUME ~ crossed'
                 PROVE  /\ LineInv' /\ TransferInv' /\ ~ surprised'
                        /\ Gated(flows'[1], linkOpen', doc', plugged')
                        /\ Trusted(flows'[1], linkOpen', plugged', proved')
      BY DEF SoleInv
    <2>1. /\ Alive = {s} /\ (~ Asking => Tail(queue) = <<>>) /\ flows = <<>> /\ ~ Asking
      BY SoleLine
    <2>2. Alive' = {} /\ queue' = <<>> BY <1>3, <2>1
    <2>3. flows' \in Seq(AnyFlow) /\ Len(flows') = 1 /\ flows'[1] = f
      BY <1>8, <2>1 DEF Calls
    <2>4. ~ Asking' BY <1>6, <2>3 DEF Asking
    <2>5. LineInv'
      <3>1. Len(flows') <= 1 BY <2>3
      <3>2. ~ inFlight' BY <1>3, <2>2
      <3> QED BY <2>2, <2>4, <3>1, <3>2, LineQuiet
    <2>6. TransferInv' BY <2>2 DEF TransferInv
    <2>7. Gated(f, linkOpen', doc', plugged') /\ Trusted(f, linkOpen', plugged', proved')
      BY <1>6, FreshClaims
    <2> QED BY <2>3, <2>5, <2>6, <2>7
  <1> QED BY <1>9, <1>10, <1>11, <1>12, <1>13, <1>14 DEF SessionInv

\* A Send ends.
LEMMA SendEndsKeeps ==
    ASSUME SessionInv, NEW s, First(s), NEW ok \in BOOLEAN, SendEnds(s, ok),
           UNCHANGED <<plugged, linkOpen, hardware, enabled>>,
           surprised' \in BOOLEAN, ~ crossed => ~ surprised',
           ~ crossed /\ ok => flows = <<>>
    PROVE  SessionInv'
  <1>1. TypeOK BY DEF SessionInv
  <1>2. /\ transfers' = [transfers EXCEPT ![s] = Idle] /\ queue' = Tail(queue)
        /\ UNCHANGED <<hasDocument, doc, getInProgress, monitorAfterGet, crossed, unread>>
    BY DEF SendEnds, windowVars, docVars
  <1>3. /\ getInProgress' \in BOOLEAN /\ monitorAfterGet' \in BOOLEAN
        /\ hasDocument' \in BOOLEAN /\ doc' \in AnyDocument /\ crossed' \in BOOLEAN
    BY <1>1, <1>2 DEF TypeOK
  <1>4. CASE UNCHANGED flows /\ inFlight' = (Tail(queue) # <<>>) /\ proved' \in {proved, {}}
    BY <1>2, <1>3, <1>4, EndsKeeps
  <1>5. CASE /\ ok /\ proved' = {}
             /\ flows' = Append(flows, Flow("sent", Reconnect)) /\ inFlight' = FALSE
    <2>1. IsPlan("sent", Reconnect) /\ Head(Reconnect)[1] = "close" BY ReconnectPlan
    <2>2. Reconnect \in Seq(AnyStep) BY <2>1, PlanFacts
    <2>3. "sent" \in Of BY DEF Of, Handlers
    <2>4. proved' \subseteq Functions BY <1>5
    <2> QED BY <1>2, <1>3, <1>5, <2>1, <2>2, <2>3, <2>4, EndCalls
  <1>6. CASE ok /\ transfers[s].resets
    <2>1. /\ proved' = {}
          /\ \/ flows' = Append(flows, Flow("sent", Reconnect)) /\ inFlight' = FALSE
             \/ UNCHANGED flows /\ inFlight' = (Tail(queue) # <<>>)
      BY <1>6 DEF SendEnds
    <2> QED BY <1>4, <1>5, <1>6, <2>1
  <1>7. CASE ~ (ok /\ transfers[s].resets)
    <2>1. UNCHANGED flows /\ inFlight' = (Tail(queue) # <<>>) /\ proved' \in {proved, {}}
      BY <1>7 DEF SendEnds
    <2> QED BY <1>4, <2>1
  <1> QED BY <1>6, <1>7

\* A Get ends with a document.
LEMMA GetSucceedsKeeps ==
    ASSUME SessionInv, NEW s, First(s), GetSucceeds(s),
           UNCHANGED <<plugged, linkOpen, hardware, enabled>>,
           surprised' \in BOOLEAN, ~ crossed => flows = <<>> /\ ~ surprised'
    PROVE  SessionInv'
  <1> DEFINE told == <<<<"told">>, <<"finished">>>>
  <1>1. TypeOK BY DEF SessionInv
  <1>2. /\ transfers' = [transfers EXCEPT ![s] = Idle] /\ queue' = Tail(queue)
        /\ inFlight' = FALSE /\ flows' = Append(flows, Flow("got", told))
        /\ UNCHANGED <<proved, getInProgress, monitorAfterGet, crossed, unread>>
    BY DEF GetSucceeds
  <1>3. hasDocument' \in BOOLEAN /\ doc' \in AnyDocument /\ (hasDocument => hasDocument')
    <2>1. CASE UNCHANGED docVars BY <1>1, <2>1 DEF docVars, TypeOK
    <2>2. CASE hasDocument' = TRUE /\ doc' \in Documents BY <2>2, DocumentsAreSuch
    <2> QED BY <2>1, <2>2 DEF GetSucceeds
  <1>4. IsPlan("got", told) /\ Head(told)[1] = "told" /\ told[Len(told)][1] = "finished"
    BY GotPlan
  <1> HIDE DEF told
  <1>5. told \in Seq(AnyStep) BY <1>4, PlanFacts
  <1>6. "got" \in Of BY DEF Of, Handlers
  <1>7. /\ proved' \subseteq Functions /\ crossed' \in BOOLEAN /\ getInProgress' \in BOOLEAN
    BY <1>1, <1>2 DEF TypeOK
  <1>8. Head(told)[1] \in {"close", "told"} /\ told[Len(told)][1] # "monitor" BY <1>4
  <1> QED BY <1>2, <1>3, <1>4, <1>5, <1>6, <1>7, <1>8, EndCalls

\* A Get ends without one; refused, it asks for the password.
LEMMA GetFailsKeeps ==
    ASSUME SessionInv, NEW s, First(s), NEW refused \in BOOLEAN, GetFails(s, refused),
           UNCHANGED <<plugged, linkOpen, hardware, enabled>>,
           surprised' \in BOOLEAN, ~ crossed => ~ surprised'
    PROVE  SessionInv'
  <1>1. TypeOK /\ SoleInv BY DEF SessionInv
  <1>2. /\ transfers' = [transfers EXCEPT ![s] = Idle] /\ queue' = Tail(queue)
        /\ getInProgress' = FALSE
        /\ UNCHANGED <<proved, hasDocument, doc, unread>>
    BY DEF GetFails, docVars
  <1>3. hasDocument' \in BOOLEAN /\ doc' \in AnyDocument /\ proved' \subseteq Functions
    BY <1>1, <1>2 DEF TypeOK
  <1>4. CASE ~ (refused /\ transfers[s].again)
    <2>1. /\ inFlight' = (Tail(queue) # <<>>) /\ monitorAfterGet' = FALSE
          /\ UNCHANGED <<flows, crossed>>
      BY <1>4 DEF GetFails
    <2> QED BY <1>2, <2>1, EndsKeeps
  <1>5. CASE refused /\ transfers[s].again
    <2>1. /\ flows' = Append(flows, Flow("unlock", UnlockSteps)) /\ inFlight' = FALSE
          /\ crossed' = (crossed \/ \E i \in DOMAIN flows : flows[i].of \notin Handlers)
          /\ UNCHANGED monitorAfterGet
      BY <1>5 DEF GetFails
    <2>2. IsPlan("unlock", UnlockSteps) /\ Head(UnlockSteps)[1] = "ask" BY UnlockPlan
    <2>3. UnlockSteps \in Seq(AnyStep) BY <2>2, PlanFacts
    <2>4. "unlock" \in Of BY DEF Of, Handlers
    <2>5. crossed' \in BOOLEAN BY <1>1, <2>1 DEF TypeOK
    <2>6. ~ crossed' => flows = <<>>
      <3> SUFFICES ASSUME ~ crossed', flows # <<>> PROVE FALSE OBVIOUS
      <3>1. ~ crossed /\ \A i \in DOMAIN flows : flows[i].of \in Handlers BY <2>1
      <3>2. flows[1].of \notin Handlers BY <3>1, SoleLine
      <3>3. 1 \in DOMAIN flows BY <1>1 DEF TypeOK
      <3> QED BY <3>1, <3>2, <3>3
    <2> QED BY <1>2, <1>3, <2>1, <2>2, <2>3, <2>4, <2>5, <2>6, EndCalls
  <1> QED BY <1>4, <1>5

\* AnswerTransfer: the link answers the first transfer in the queue.
LEMMA AnswerTransferKeeps ==
    ASSUME SessionInv, AnswerTransfer
    PROVE  SessionInv'
  <1> DEFINE s == -Head(queue)
             kind == transfers[s].kind
             withheld == kind = "get" /\ plugged.withholds /\ ~Allowed("comms")
  <1>1. inFlight /\ Head(queue) < 0 BY DEF AnswerTransfer
  <1>2. UNCHANGED <<plugged, linkOpen, hardware, enabled>> BY DEF AnswerTransfer
  <1>3. PICK heard \in BOOLEAN, last \in BOOLEAN,
             refused \in {~Allowed(kind), withheld \/ ~Allowed(kind)} :
           /\ surprised' = (surprised \/ (heard /\ ~Allowed(kind) /\ transfers[s].sure))
           /\ IF ~heard \/ refused \/ transfers[s].cancelled
              THEN IF kind = "get" THEN GetFails(s, heard /\ refused) ELSE SendEnds(s, FALSE)
              ELSE IF ~last THEN TransferGoesOn(s)
              ELSE IF kind = "get" THEN GetSucceeds(s) ELSE SendEnds(s, TRUE)
    BY DEF AnswerTransfer
  <1> HIDE DEF withheld, s, kind
  <1>4. First(s) BY <1>1 DEF First, s
  <1>5. s \in Slots /\ TypeOK BY <1>4, FirstOnLine DEF SessionInv
  <1>6. surprised' \in BOOLEAN BY <1>3, <1>5 DEF TypeOK, AnyTransfer
  <1>7. refused \in BOOLEAN BY <1>3 DEF Allowed, withheld
  <1>8. ASSUME ~ crossed
        PROVE  ~ surprised' /\ (flows # <<>> => transfers[s].cancelled)
    <2>1. TransferInv /\ ~ surprised /\ s \in Alive /\ (flows # <<>> => transfers[s].cancelled)
      BY <1>4, <1>8, SoleLine
    <2>2. transfers[s].sure => Allowed(kind) BY <2>1 DEF TransferInv, kind
    <2> QED BY <1>3, <2>1, <2>2
  <1>9. CASE ~heard \/ refused \/ transfers[s].cancelled
    <2>1. CASE GetFails(s, heard /\ refused)
      <3>1. (heard /\ refused) \in BOOLEAN OBVIOUS
      <3> QED BY <1>2, <1>4, <1>6, <1>8, <2>1, <3>1, GetFailsKeeps
    <2>2. CASE SendEnds(s, FALSE) BY <1>2, <1>4, <1>6, <1>8, <2>2, SendEndsKeeps
    <2> QED BY <1>3, <1>9, <2>1, <2>2
  <1>10. CASE ~ (~heard \/ refused \/ transfers[s].cancelled)
    <2>1. ~ crossed => flows = <<>> /\ ~ surprised' BY <1>8, <1>10
    <2>2. CASE TransferGoesOn(s) BY <1>2, <1>4, <1>6, <2>1, <2>2, GoesOnKeeps
    <2>3. CASE GetSucceeds(s) BY <1>2, <1>4, <1>6, <2>1, <2>3, GetSucceedsKeeps
    <2>4. CASE SendEnds(s, TRUE) BY <1>2, <1>4, <1>6, <2>1, <2>4, SendEndsKeeps
    <2> QED BY <1>3, <1>10, <2>2, <2>3, <2>4
  <1> QED BY <1>9, <1>10

-----------------------------------------------------------------------------
(* The theorems *)

\* Every step keeps the invariant,
LEMMA NextKeeps ==
    ASSUME SessionInv, Next
    PROVE  SessionInv'
  <1>1. CASE Link BY <1>1, AnswerFlowKeeps, AnswerTransferKeeps DEF Link
  <1>2. CASE Window
    BY <1>2, PassKeeps, MapDocumentKeeps, AskKeeps, ReturnKeeps, ShowKeeps, StartKeeps,
       GetFinishedKeeps, CloseKeeps, ReopenKeeps
    DEF Window
  <1>3. CASE Dialogs
    BY <1>3, UserAnswersKeeps, UserConnectsKeeps, UserMonitorsKeeps DEF Dialogs
  <1>4. ASSUME NEW command \in UserCommands, Command(command) PROVE SessionInv'
    BY <1>4, CommandKeeps
  <1>5. ASSUME NEW s \in Slots, Cancel(s) PROVE SessionInv'
    BY <1>5, CancelKeeps
  <1>6. CASE OpenDocument \/ Disconnect \/ Plug \/ Unplug \/ Restart
    BY <1>6, OpenDocumentKeeps, DisconnectKeeps, PlugKeeps, UnplugKeeps, RestartKeeps
  <1> QED BY <1>1, <1>2, <1>3, <1>4, <1>5, <1>6 DEF Next

\* and so does no step.
LEMMA Idles ==
    ASSUME SessionInv, UNCHANGED vars
    PROVE  SessionInv'
  BY DEF SessionInv, TypeOK, PlanInv, QueueInv, Waits, PortInv, MonitorInv, Minds, SoleInv, LineInv,
         TransferInv, Asking, Alive, Allowed, vars, unitVars, linkVars, windowVars, docVars,
         histories

\* Of any units and documents, every reachable state satisfies SessionInv: each flow is
\* still on a plan its command has (main_window.cpp), whoever is queued waits in an event
\* loop, and with no unlock nested in another command there is one command, one transfer
\* and nothing relied on that was not proved or confirmed to the unit on the port.
THEOREM SessionInvariant == Spec => []SessionInv
  <1>1. Init => SessionInv BY InitKeeps
  <1>2. SessionInv /\ [Next]_vars => SessionInv' BY NextKeeps, Idles
  <1> QED BY <1>1, <1>2, PTL DEF Spec

\* Of any units and documents, no two ConfigTransfers are alive at once, but from the
\* moment a Get's unlock runs inside another command until nothing of the two is left
\* (onSendConfiguration, onGetConfiguration, the Get's failure handler).
THEOREM OneTransfer == Spec => []TransfersFollowOneAnother
  <1>1. SessionInv => TransfersFollowOneAnother
    <2> SUFFICES ASSUME SessionInv, ~ crossed PROVE Cardinality(Alive) <= 1
      BY DEF TransfersFollowOneAnother
    <2>1. \A s, t \in Alive : s = t BY DEF SessionInv, SoleInv, LineInv
    <2>2. CASE Alive = {} BY <2>2, FS_EmptySet
    <2>3. CASE Alive # {}
      <3>1. PICK s \in Alive : TRUE BY <2>3
      <3>2. Alive = {s} BY <2>1, <3>1
      <3> QED BY <3>2, FS_Singleton
    <2> QED BY <2>2, <2>3
  <1> QED BY <1>1, SessionInvariant, PTL

\* Of any units and documents, a Send of protected messages goes to a unit that has the
\* key of the document it sends: confirmed, and neither unit nor document another since
\* (the gate of onSendConfiguration, BusyScope).  Excepted is the time from the moment a
\* Get's unlock runs inside another command until nothing of the two is left: then the
\* document that is sent may be one that was never confirmed.
THEOREM ProtectedConfirmed == Spec => []ProtectedGoesWhereConfirmed
  <1>1. SessionInv => ProtectedGoesWhereConfirmed
    BY DEF SessionInv, SoleInv, TransferInv, ProtectedGoesWhereConfirmed
  <1> QED BY <1>1, SessionInvariant, PTL

\* Of any units and documents, the unit never refuses what was proved to it, but from the
\* moment a Get's unlock runs inside another command until nothing of the two is left
\* (ensureDeviceAccess, the Get's failure handler).
THEOREM ProvedIsAccepted == Spec => []NothingProvedIsRefused
  <1>1. SessionInv => NothingProvedIsRefused BY DEF SessionInv, SoleInv, NothingProvedIsRefused
  <1> QED BY <1>1, SessionInvariant, PTL

\* Of any units and documents, m_monitorAfterGet is not set with no Get to come that would
\* clear it, but behind a second attempt whose capacity could not be read
\* (onMonitorChannels, the Get's failure handler).
THEOREM MonitorForgotten == Spec => []MonitorIsNotLeftBehind
  <1>1. SessionInv => MonitorIsNotLeftBehind
    BY DEF SessionInv, MonitorInv, MonitorIsNotLeftBehind
  <1> QED BY <1>1, SessionInvariant, PTL
=============================================================================
