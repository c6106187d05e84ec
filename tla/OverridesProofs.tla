--------------------------- MODULE OverridesProofs ---------------------------
(***************************************************************************)
(* The boxes of the Monitor Channels dialog and the pins of the unit, for  *)
(* any channels, selections, retries and lease, and calls nested to any    *)
(* depth.                                                                  *)
(***************************************************************************)
EXTENDS Overrides, SequenceTheorems, WellFoundedInduction, TLAPS

(* The invariant *)

\* Nothing has crossed a call about the signal.
Free(s) == doubt[s] # "crossed"

IsAbout(call, s) == call.about \in {s, "all"}

\* A call's row is still its signal's, or both have been given up.
StackInv ==
    \A i \in DOMAIN stack :
        /\ stack[i].kind \in {"set", "release"} =>
             /\ stack[i].row \in Row /\ stack[i].about \in Signal
             /\ \/ SignalAt(stack[i].row) = stack[i].about
                \/ ~Free(stack[i].about) /\ ~Free(SignalAt(stack[i].row))
        /\ stack[i].kind = "clear" => stack[i].about = "all"
        /\ stack[i].kind \in {"probe", "lease"} => stack[i].about = "none"

\* At most one call is about a signal that nothing has crossed.
SingleInv ==
    \A s \in Signal : Free(s) =>
        \A i, j \in DOMAIN stack : IsAbout(stack[i], s) /\ IsAbout(stack[j], s) => i = j

\* What such a call finds when it returns.
CallInv ==
    \A s \in Signal : Free(s) =>
        \A i \in DOMAIN stack : IsAbout(stack[i], s) =>
            /\ stack[i].kind = "set" =>
                 /\ stack[i].row \in ticked
                 /\ stack[i].state = "ok" => s \in pins \/ doubt[s] = "dropped"
            /\ stack[i].kind = "release" =>
                 /\ stack[i].row \notin ticked
                 /\ stack[i].state = "ok" => s \notin pins
            /\ stack[i].kind = "clear" /\ stack[i].state = "ok" => s \notin pins

\* A dialog that is gone has no boxes, and whatever still waits was crossed.
GoneInv ==
    /\ ~Alive => ticked = {} /\ overridden = {}
    /\ dialog = "gone" =>
         \A s \in Signal : Free(s) => \A i \in DOMAIN stack : ~IsAbout(stack[i], s)
    /\ dialog = "crashed" => stack = <<>>

\* A dialog that probes is not there yet.
ProbeInv ==
    \A i \in DOMAIN stack : stack[i].kind = "probe" => dialog = "gone" /\ DOMAIN stack = {i}

OnlyCleared(s) == \A i \in DOMAIN stack : IsAbout(stack[i], s) => stack[i].kind = "clear"

\* Box and pin of a signal that nothing has crossed.
BoxInv ==
    \A row \in Row : Free(SignalAt(row)) =>
        /\ SignalAt(row) \notin Pending =>
             /\ row \in ticked <=> row \in overridden
             /\ row \in ticked /\ doubt[SignalAt(row)] # "dropped" => SignalAt(row) \in pins
        /\ /\ OnlyCleared(SignalAt(row))
           /\ SignalAt(row) \in pins /\ doubt[SignalAt(row)] \notin {"unsure", "left"}
           => row \in ticked /\ row \in overridden

DialogInv == TypeOK /\ StackInv /\ SingleInv /\ CallInv /\ GoneInv /\ ProbeInv /\ BoxInv

-----------------------------------------------------------------------------
(* Rows, doubts and the stack *)

LEMMA Rows ==
    ASSUME TypeOK
    PROVE  /\ \A r \in Row : SignalAt(r) \in Signal
           /\ \A s \in Signal : \E r \in Row : SignalAt(r) = s
           /\ \A r1, r2 \in Row : SignalAt(r1) = SignalAt(r2) => r1 = r2
           /\ "all" \notin Signal /\ "none" \notin Signal
  <1>1. selection \in Selections
    BY DEF TypeOK
  <1> QED BY <1>1, OverrideConstants DEF OverrideConstants, SignalAt

LEMMA Marked ==
    ASSUME NEW d \in [Signal -> Doubt], NEW S, NEW why \in Doubt
    PROVE  /\ Mark(d, S, why) \in [Signal -> Doubt]
           /\ \A s \in Signal : /\ d[s] = "crossed" => Mark(d, S, why)[s] = "crossed"
                                /\ s \in S /\ d[s] # "crossed" => Mark(d, S, why)[s] = why
                                /\ s \notin S => Mark(d, S, why)[s] = d[s]
  BY DEF Mark

LEMMA Pushed ==
    ASSUME TypeOK, NEW kind, NEW row, NEW about, NEW then, Push(kind, row, about, then),
           kind \in {"probe", "set", "release", "lease", "clear"}, row \in Row \union {0},
           about \in Signal \union {"all", "none"}, then \in {"-", "close"}
    PROVE  /\ stack' \in Seq(Call) /\ Len(stack) \in Nat /\ DOMAIN stack = 1 .. Len(stack)
           /\ DOMAIN stack' = 1 .. Len(stack) + 1
           /\ \A i \in 1 .. Len(stack) : stack'[i] = stack[i]
           /\ stack'[Len(stack) + 1].kind = kind /\ stack'[Len(stack) + 1].row = row
           /\ stack'[Len(stack) + 1].about = about
           /\ stack'[Len(stack) + 1].state = "waiting"
  <1> DEFINE c == [kind |-> kind, row |-> row, about |-> about, then |-> then,
                   state |-> "waiting", left |-> Tries]
  <1>1. stack' = Append(stack, c) /\ stack \in Seq(Call)
    BY DEF Push, TypeOK
  <1>2. c \in Call
    BY OverrideConstants DEF Call, OverrideConstants
  <1>3. /\ c.kind = kind /\ c.row = row /\ c.about = about /\ c.state = "waiting"
    OBVIOUS
  <1> HIDE DEF c
  <1>4. /\ stack' \in Seq(Call) /\ Len(stack) \in Nat /\ DOMAIN stack = 1 .. Len(stack)
        /\ Len(stack') = Len(stack) + 1
        /\ \A i \in 1 .. Len(stack) : stack'[i] = stack[i]
        /\ stack'[Len(stack) + 1] = c
    BY <1>1, <1>2, AppendProperties, LenProperties
  <1>5. DOMAIN stack' = 1 .. Len(stack')
    BY <1>4, LenProperties
  <1> QED BY <1>3, <1>4, <1>5

LEMMA Popped ==
    ASSUME TypeOK, stack # <<>>, stack' = SubSeq(stack, 1, Len(stack) - 1)
    PROVE  /\ stack' \in Seq(Call) /\ Len(stack) \in Nat /\ DOMAIN stack = 1 .. Len(stack)
           /\ Len(stack) > 0 /\ DOMAIN stack' = 1 .. Len(stack) - 1
           /\ \A i \in 1 .. Len(stack) - 1 : stack'[i] = stack[i]
           /\ Top \in Call /\ Top = stack[Len(stack)]
  <1>1. stack \in Seq(Call)
    BY DEF TypeOK
  <1>2. Len(stack) \in Nat /\ Len(stack) > 0 /\ DOMAIN stack = 1 .. Len(stack)
    BY <1>1, LenProperties, EmptySeq
  <1>3. 1 \in 1 .. Len(stack) + 1 /\ Len(stack) - 1 \in 0 .. Len(stack)
    BY <1>2
  <1>4. /\ SubSeq(stack, 1, Len(stack) - 1) \in Seq(Call)
        /\ DOMAIN stack' = 1 .. Len(stack) - 1
        /\ \A i \in 1 .. Len(stack) - 1 : stack'[i] = stack[i]
    <2>1. \A i \in 1 .. Len(stack) - 1 : stack[i] \in Call
      BY <1>1, <1>2, ElementOfSeq
    <2>2. stack' = [i \in 1 .. Len(stack) - 1 |-> stack[i]]
      BY <1>1, <1>2
    <2>3. Len(stack) - 1 \in Nat
      BY <1>2
    <2>4. stack' \in [1 .. Len(stack) - 1 -> Call]
      BY <2>1, <2>2, Zenon
    <2> QED BY <2>2, <2>3, <2>4, SeqDef
  <1>5. Top = stack[Len(stack)] /\ Top \in Call
    BY <1>1, <1>2, ElementOfSeq DEF Top
  <1> QED BY <1>1, <1>2, <1>4, <1>5

LEMMA StackFacts ==
    ASSUME TypeOK
    PROVE  /\ Len(stack) \in Nat /\ DOMAIN stack = 1 .. Len(stack)
           /\ \A i \in DOMAIN stack : stack[i] \in Call
           /\ \A s \in Signal : s \in Pending <=> \E i \in DOMAIN stack : IsAbout(stack[i], s)
  <1>1. stack \in Seq(Call)
    BY DEF TypeOK
  <1>2. Len(stack) \in Nat /\ DOMAIN stack = 1 .. Len(stack)
        /\ \A i \in DOMAIN stack : stack[i] \in Call
    BY <1>1, LenProperties, ElementOfSeq
  <1> QED BY <1>2 DEF Pending, IsAbout

-----------------------------------------------------------------------------
(* What the unit and the line do *)

\* The unit holds other pins, or drops them.
LEMMA Held ==
    ASSUME TypeOK, NEW held \in SUBSET Signal, NEW quiet \in Nat, NEW crowd \in 0 .. quiet,
           NEW known \in SUBSET Signal, Hold(held, quiet, crowd, known)
    PROVE  /\ pins' \subseteq held /\ pins' \subseteq Signal
           /\ silence' \in 0 .. LeaseFor - 1 /\ crowded' \in 0 .. silence'
           /\ doubt' \in [Signal -> Doubt]
           /\ \A s \in Signal :
                /\ doubt'[s] # "crossed" => doubt[s] # "crossed"
                /\ s \in held \ pins' /\ doubt'[s] # "crossed" => doubt'[s] = "dropped"
                /\ s \notin known /\ s \notin held \ pins' => doubt'[s] = doubt[s]
  <1>1. doubt \in [Signal -> Doubt]
    BY DEF TypeOK
  <1>2. "none" \in Doubt /\ "dropped" \in Doubt
    BY DEF Doubt
  <1>3. pins' = (IF Lasts(quiet) THEN held ELSE {})
    BY DEF Hold
  <1>4. doubt' = Mark(Mark(doubt, known, "none"), held \ pins', "dropped")
    BY DEF Hold
  <1> DEFINE d == Mark(doubt, known, "none")
  <1>5. /\ d \in [Signal -> Doubt]
        /\ \A s \in Signal : /\ doubt[s] = "crossed" => d[s] = "crossed"
                             /\ s \notin known => d[s] = doubt[s]
    BY <1>1, <1>2, Marked
  <1> HIDE DEF d
  <1>6. /\ doubt' \in [Signal -> Doubt]
        /\ \A s \in Signal :
             /\ d[s] = "crossed" => doubt'[s] = "crossed"
             /\ s \in held \ pins' /\ d[s] # "crossed" => doubt'[s] = "dropped"
             /\ s \notin held \ pins' => doubt'[s] = d[s]
    <2>1. doubt' = Mark(d, held \ pins', "dropped")
      BY <1>4 DEF d
    <2> QED BY <1>2, <1>5, <2>1, Marked
  <1>7. silence' \in 0 .. LeaseFor - 1 /\ crowded' \in 0 .. silence'
    <2>1. /\ silence' = (IF pins' = {} THEN 0 ELSE quiet)
          /\ crowded' = (IF pins' = {} THEN 0 ELSE crowd)
      BY DEF Hold
    <2>2. CASE pins' = {}
      BY <2>1, <2>2, OverrideConstants DEF OverrideConstants
    <2>3. CASE pins' # {}
      <3>1. quiet < LeaseFor /\ silence' = quiet /\ crowded' = crowd
        BY <1>3, <2>1, <2>3 DEF Lasts
      <3> QED BY <3>1, OverrideConstants DEF OverrideConstants
    <2> QED BY <2>2, <2>3
  <1>8. pins' \subseteq held
    BY <1>3
  <1> QED BY <1>5, <1>6, <1>7, <1>8

\* The calls stay what they are about; the one in flight may have been heard.
SameCalls ==
    /\ DOMAIN stack' = DOMAIN stack
    /\ \A i \in DOMAIN stack : /\ stack'[i].kind = stack[i].kind /\ stack'[i].row = stack[i].row
                              /\ stack'[i].about = stack[i].about

LEMMA SamePending ==
    ASSUME TypeOK, SameCalls
    PROVE  /\ \A s, i : i \in DOMAIN stack => (IsAbout(stack'[i], s) <=> IsAbout(stack[i], s))
           /\ Pending' = Pending
           /\ \A s : OnlyCleared(s)' <=> OnlyCleared(s)
  <1>1. \A s, i : i \in DOMAIN stack => (IsAbout(stack'[i], s) <=> IsAbout(stack[i], s))
    BY DEF SameCalls, IsAbout
  <1>2. Pending' = Pending
    BY DEF SameCalls, Pending
  <1>3. ASSUME NEW s PROVE OnlyCleared(s)' <=> OnlyCleared(s)
    BY <1>1 DEF SameCalls, OnlyCleared
  <1> QED BY <1>1, <1>2, <1>3

LEMMA HeldSound ==
    ASSUME DialogInv, TypeOK', SameCalls,
           UNCHANGED <<dialog, selection, ticked, overridden>>,
           NEW held \in SUBSET Signal, NEW quiet \in Nat, NEW crowd \in 0 .. quiet,
           NEW known \in SUBSET Signal, Hold(held, quiet, crowd, known),
           NEW heard \in SUBSET DOMAIN stack,
           \* Nobody hears of a signal but by the calls heard,
           \A s \in Signal : (\A i \in heard : ~IsAbout(stack[i], s)) =>
               (s \in held <=> s \in pins) /\ s \notin known,
           \A i \in heard : stack[i].kind = "clear" => held = {} \/ (held = pins /\ known = {}),
           \* and those act as they should when they are answered.
           \A i \in DOMAIN stack : stack'[i].state = "ok" =>
               \/ stack[i].state = "ok" /\ i \notin heard
               \/ /\ stack[i].kind = "set" => stack[i].about \in held
                  /\ stack[i].kind = "release" => stack[i].about \notin held
                  /\ stack[i].kind = "clear" => held = {}
    PROVE  DialogInv'
  <1>1. TypeOK /\ StackInv /\ SingleInv /\ CallInv /\ GoneInv /\ ProbeInv /\ BoxInv
    BY DEF DialogInv
  <1>2. /\ pins' \subseteq held /\ pins' \subseteq Signal
        /\ \A s \in Signal :
             /\ doubt'[s] # "crossed" => doubt[s] # "crossed"
             /\ s \in held \ pins' /\ doubt'[s] # "crossed" => doubt'[s] = "dropped"
             /\ s \notin known /\ s \notin held \ pins' => doubt'[s] = doubt[s]
    BY <1>1, Held
  <1>3. /\ \A s, i : i \in DOMAIN stack => (IsAbout(stack'[i], s) <=> IsAbout(stack[i], s))
        /\ Pending' = Pending
        /\ \A s : OnlyCleared(s)' <=> OnlyCleared(s)
    BY <1>1, SamePending
  <1>4. DOMAIN stack' = DOMAIN stack /\ \A i \in DOMAIN stack :
          /\ stack'[i].kind = stack[i].kind /\ stack'[i].row = stack[i].row
          /\ stack'[i].about = stack[i].about
    BY DEF SameCalls
  <1>5. \A r : SignalAt(r)' = SignalAt(r)
    BY DEF SignalAt
  <1>6. \A r \in Row : SignalAt(r) \in Signal
    BY <1>1, Rows
  <1>7. StackInv'
    BY <1>1, <1>2, <1>4, <1>5, <1>6 DEF StackInv, Free
  <1>8. SingleInv'
    BY <1>1, <1>2, <1>3, <1>4 DEF SingleInv, Free
  <1>9. CallInv'
    <2> SUFFICES ASSUME NEW s \in Signal, doubt'[s] # "crossed", NEW i \in DOMAIN stack,
                        IsAbout(stack[i], s)
                 PROVE  /\ stack[i].kind = "set" =>
                             /\ stack[i].row \in ticked
                             /\ stack'[i].state = "ok" => s \in pins' \/ doubt'[s] = "dropped"
                        /\ stack[i].kind = "release" =>
                             /\ stack[i].row \notin ticked
                             /\ stack'[i].state = "ok" => s \notin pins'
                        /\ stack[i].kind = "clear" /\ stack'[i].state = "ok" => s \notin pins'
      BY <1>3, <1>4 DEF CallInv, Free
    <2>1. doubt[s] # "crossed"
      BY <1>2
    <2>2. /\ stack[i].kind = "set" =>
               /\ stack[i].row \in ticked
               /\ stack[i].state = "ok" => s \in pins \/ doubt[s] = "dropped"
          /\ stack[i].kind = "release" =>
               /\ stack[i].row \notin ticked
               /\ stack[i].state = "ok" => s \notin pins
          /\ stack[i].kind = "clear" /\ stack[i].state = "ok" => s \notin pins
      BY <1>1, <2>1 DEF CallInv, Free
    <2>3. CASE stack[i].state = "ok" /\ i \notin heard
      <3>1. \A j \in heard : ~IsAbout(stack[j], s)
        BY <1>1, <2>1, <2>3 DEF SingleInv, Free
      <3>2. (s \in held <=> s \in pins) /\ s \notin known
        BY <3>1
      <3> QED BY <1>2, <2>2, <2>3, <3>2
    <2>4. CASE /\ stack[i].kind = "set" => stack[i].about \in held
               /\ stack[i].kind = "release" => stack[i].about \notin held
               /\ stack[i].kind = "clear" => held = {}
      <3>1. stack[i].kind \in {"set", "release"} => stack[i].about = s
        BY <1>1, Rows DEF StackInv, IsAbout
      <3> QED BY <1>2, <2>2, <2>4, <3>1
    <2>5. CASE stack'[i].state # "ok"
      BY <2>2, <2>5
    <2> QED BY <2>3, <2>4, <2>5
  <1>10. GoneInv'
    <2>1. Alive' <=> Alive
      BY DEF Alive
    <2>2. dialog = "crashed" => stack' = <<>>
      <3> HAVE dialog = "crashed"
      <3>1. DOMAIN stack' = {}
        BY <1>1, <1>4 DEF GoneInv
      <3>2. Len(stack') \in Nat /\ DOMAIN stack' = 1 .. Len(stack') /\ stack' \in Seq(Call)
        BY LenProperties DEF TypeOK
      <3>3. Len(stack') = 0
        BY <3>1, <3>2
      <3> QED BY <3>2, <3>3, EmptySeq
    <2> QED BY <1>1, <1>2, <1>3, <1>4, <2>1, <2>2 DEF GoneInv, Free
  <1>11. ProbeInv'
    BY <1>1, <1>4 DEF ProbeInv
  <1>12. BoxInv'
    <2> SUFFICES ASSUME NEW row \in Row, NEW s \in Signal, SignalAt(row) = s,
                        doubt'[s] # "crossed"
                 PROVE  /\ s \notin Pending =>
                             /\ row \in ticked <=> row \in overridden
                             /\ row \in ticked /\ doubt'[s] # "dropped" => s \in pins'
                        /\ OnlyCleared(s) /\ s \in pins' /\ doubt'[s] \notin {"unsure", "left"}
                           => row \in ticked /\ row \in overridden
      BY <1>3, <1>5, <1>6 DEF BoxInv, Free
    <2>1. doubt[s] # "crossed"
      BY <1>2
    <2>2. /\ s \notin Pending =>
               /\ row \in ticked <=> row \in overridden
               /\ row \in ticked /\ doubt[s] # "dropped" => s \in pins
          /\ OnlyCleared(s) /\ s \in pins /\ doubt[s] \notin {"unsure", "left"}
             => row \in ticked /\ row \in overridden
      BY <1>1, <2>1 DEF BoxInv, Free
    <2>3. CASE \A i \in heard : ~IsAbout(stack[i], s)
      <3>1. (s \in held <=> s \in pins) /\ s \notin known
        BY <2>3
      <3> QED BY <1>2, <2>2, <3>1
    <2>4. ASSUME NEW i \in heard, IsAbout(stack[i], s)
          PROVE  /\ s \in Pending
                 /\ OnlyCleared(s) /\ s \in pins' /\ doubt'[s] \notin {"unsure", "left"}
                    => row \in ticked /\ row \in overridden
      <3>1. s \in Pending
        BY <1>1, <2>4, StackFacts
      <3>2. CASE stack[i].kind = "clear"
        <4>1. CASE held = {}
          BY <1>2, <3>1, <4>1
        <4>2. CASE held = pins /\ known = {}
          BY <1>2, <2>2, <3>1, <4>2
        <4> QED BY <3>2, <4>1, <4>2
      <3>3. CASE stack[i].kind # "clear"
        BY <2>4, <3>1, <3>3 DEF OnlyCleared
      <3> QED BY <3>2, <3>3
    <2> QED BY <2>2, <2>3, <2>4
  <1> QED BY <1>7, <1>8, <1>9, <1>10, <1>11, <1>12 DEF DialogInv

LEMMA Least ==
    ASSUME NEW S \in SUBSET Nat, S # {}
    PROVE  \E i \in S : \A j \in S : i <= j
  <1> DEFINE R == OpToRel(<, Nat)
  <1>1. IsWellFoundedOn(R, Nat)
    BY NatLessThanWellFounded
  <1>2. \A x, y \in Nat : <<y, x>> \in R <=> y < x
    BY DEF OpToRel
  <1> HIDE DEF R
  <1>3. PICK x \in S : \A y \in S : <<y, x>> \notin R
    BY <1>1, WFMin
  <1>4. x \in Nat /\ \A y \in S : y \in Nat /\ ~(y < x)
    BY <1>2, <1>3
  <1>5. \A y \in S : x <= y
    BY <1>4
  <1> QED BY <1>5

\* The request in flight is one of the calls that wait.
LEMMA FirstWaits ==
    ASSUME TypeOK, Waiting # {}
    PROVE  /\ First \in DOMAIN stack /\ InFlight = stack[First] /\ InFlight \in Call
           /\ stack[First].state = "waiting" /\ First \in Waiting
  <1>1. DOMAIN stack = 1 .. Len(stack) /\ \A i \in DOMAIN stack : stack[i] \in Call
    BY StackFacts
  <1>2. Waiting \subseteq Nat
    BY <1>1 DEF Waiting
  <1>3. First \in Waiting
    BY <1>2, Least DEF First
  <1> QED BY <1>1, <1>3 DEF Waiting, InFlight

\* What a call does to the pins concerns only the signals it is about.
LEMMA PinsOfCall ==
    ASSUME DialogInv, NEW i \in DOMAIN stack
    PROVE  /\ PinsAfter(stack[i]) \subseteq Signal
           /\ \A s \in Signal : ~IsAbout(stack[i], s) =>
                (s \in PinsAfter(stack[i]) <=> s \in pins)
           /\ stack[i].kind = "set" => stack[i].about \in PinsAfter(stack[i])
           /\ stack[i].kind = "release" => stack[i].about \notin PinsAfter(stack[i])
           /\ stack[i].kind = "clear" => PinsAfter(stack[i]) = {}
  <1>1. stack[i] \in Call /\ pins \subseteq Signal
    BY StackFacts DEF DialogInv, TypeOK
  <1>2. /\ stack[i].kind \in {"set", "release"} => stack[i].about \in Signal
        /\ stack[i].kind = "clear" => stack[i].about = "all"
    BY DEF DialogInv, StackInv
  <1>3. stack[i].kind \in {"probe", "set", "release", "lease", "clear"}
    BY <1>1 DEF Call
  <1>4. CASE stack[i].kind = "set"
    BY <1>1, <1>2, <1>4 DEF PinsAfter, IsAbout
  <1>5. CASE stack[i].kind = "release"
    BY <1>1, <1>2, <1>5 DEF PinsAfter, IsAbout
  <1>6. CASE stack[i].kind = "clear"
    BY <1>1, <1>2, <1>6 DEF PinsAfter, IsAbout
  <1>7. CASE stack[i].kind \in {"probe", "lease"}
    BY <1>1, <1>2, <1>7 DEF PinsAfter, IsAbout
  <1> QED BY <1>3, <1>4, <1>5, <1>6, <1>7

\* One call of the stack gets another state.
LEMMA Updated ==
    ASSUME TypeOK, NEW i \in DOMAIN stack, NEW c \in Call, stack' = [stack EXCEPT ![i] = c],
           c.kind = stack[i].kind, c.row = stack[i].row, c.about = stack[i].about
    PROVE  /\ stack' \in Seq(Call) /\ SameCalls
           /\ \A j \in DOMAIN stack : stack'[j] = IF j = i THEN c ELSE stack[j]
  <1>1. stack \in Seq(Call) /\ DOMAIN stack = 1 .. Len(stack)
    BY StackFacts DEF TypeOK
  <1>2. /\ stack' \in Seq(Call) /\ DOMAIN stack' = DOMAIN stack
        /\ \A j \in DOMAIN stack : stack'[j] = IF j = i THEN c ELSE stack[j]
    BY <1>1, ExceptSeq
  <1>3. SameCalls
    BY <1>2 DEF SameCalls
  <1> QED BY <1>2, <1>3

LEMMA DoneCall ==
    ASSUME NEW c \in Call, NEW state \in {"ok", "failed"}
    PROVE  /\ Done(c, state) \in Call /\ Done(c, state).state = state
           /\ Done(c, state).kind = c.kind /\ Done(c, state).row = c.row
           /\ Done(c, state).about = c.about
  <1>1. 1 \in 1 .. Tries
    BY OverrideConstants DEF OverrideConstants
  <1> QED BY <1>1 DEF Done, Call

LEMMA AnswerSound == DialogInv /\ Answer => DialogInv'
  <1> SUFFICES ASSUME DialogInv, Answer PROVE DialogInv'
    OBVIOUS
  <1>1. TypeOK
    BY DEF DialogInv
  <1>2. /\ First \in DOMAIN stack /\ InFlight = stack[First] /\ InFlight \in Call
        /\ stack[First].state = "waiting"
    BY <1>1, FirstWaits DEF Answer
  <1>3. UNCHANGED <<dialog, selection, ticked, overridden, timer, linkOpen>>
    BY DEF Answer, dialogVars
  <1> DEFINE call == InFlight  held == PinsAfter(call)
             quiet == IF Renews(call) THEN 0 ELSE silence
             crowd == IF Renews(call) THEN 0 ELSE crowded
             known == {s \in Signal : call.about \in {s, "all"}}
  <1>4. stack' = [stack EXCEPT ![First] = Done(call, "ok")]
    BY <1>2 DEF Answer
  <1>5. Hold(held, quiet, crowd, known)
    BY DEF Answer
  <1>6. /\ Done(call, "ok") \in Call /\ Done(call, "ok").state = "ok"
        /\ Done(call, "ok").kind = call.kind /\ Done(call, "ok").row = call.row
        /\ Done(call, "ok").about = call.about
    BY <1>2, DoneCall
  <1>7. /\ stack' \in Seq(Call) /\ SameCalls
        /\ \A j \in DOMAIN stack : stack'[j] = IF j = First THEN Done(call, "ok") ELSE stack[j]
    BY <1>1, <1>2, <1>4, <1>6, Updated
  <1>8. held \in SUBSET Signal /\ known \in SUBSET Signal
    BY <1>2, PinsOfCall
  <1>9. quiet \in Nat /\ crowd \in 0 .. quiet
    BY <1>1, OverrideConstants DEF TypeOK, OverrideConstants
  <1>10. \A s \in Signal : ~IsAbout(stack[First], s) =>
             (s \in held <=> s \in pins) /\ s \notin known
    BY <1>2, PinsOfCall DEF IsAbout
  <1>11. /\ stack[First].kind = "set" => stack[First].about \in held
         /\ stack[First].kind = "release" => stack[First].about \notin held
         /\ stack[First].kind = "clear" => held = {}
    BY <1>2, PinsOfCall
  <1> DEFINE heard == {First}
  <1> HIDE DEF held, quiet, crowd, known, call
  <1>12. TypeOK'
    <2>1. /\ pins' \subseteq Signal /\ silence' \in 0 .. LeaseFor - 1
          /\ crowded' \in 0 .. silence'
          /\ doubt' \in [Signal -> Doubt]
      BY <1>1, <1>5, <1>8, <1>9, Held
    <2> QED BY <1>1, <1>3, <1>7, <2>1, Zenon DEF TypeOK
  <1>13. \A i \in DOMAIN stack : stack'[i].state = "ok" =>
           \/ stack[i].state = "ok" /\ i \notin heard
           \/ /\ stack[i].kind = "set" => stack[i].about \in held
              /\ stack[i].kind = "release" => stack[i].about \notin held
              /\ stack[i].kind = "clear" => held = {}
    BY <1>7, <1>11
  <1>14. heard \in SUBSET DOMAIN stack
    BY <1>2
  <1>15. /\ \A s \in Signal : (\A i \in heard : ~IsAbout(stack[i], s)) =>
              (s \in held <=> s \in pins) /\ s \notin known
         /\ \A i \in heard : stack[i].kind = "clear" => held = {} \/ (held = pins /\ known = {})
    BY <1>10, <1>11
  <1>16. UNCHANGED <<dialog, selection, ticked, overridden>>
    BY <1>3
  <1> HIDE DEF heard
  <1> QED BY <1>5, <1>7, <1>8, <1>9, <1>12, <1>13, <1>14, <1>15, <1>16, HeldSound

LEMMA Ticks ==
    ASSUME TypeOK, ~TimerDue, Tick
    PROVE  timer' \in 0 .. TickEvery
  <1>1. timer \in 0 .. TickEvery /\ TickEvery \in Nat
    BY OverrideConstants DEF TypeOK, OverrideConstants
  <1>2. CASE TimerRuns
    <2>1. timer # 0 /\ timer' = timer - 1
      BY <1>2 DEF TimerDue, Tick
    <2> QED BY <1>1, <2>1
  <1>3. CASE ~TimerRuns
    BY <1>1, <1>3 DEF Tick
  <1> QED BY <1>2, <1>3

LEMMA NothingHeard ==
    ASSUME DialogInv, ~TimerDue, Tick, NEW crowd \in 0 .. silence + 1,
           Hold(pins, silence + 1, crowd, {}),
           UNCHANGED <<dialog, selection, ticked, overridden, stack, linkOpen>>
    PROVE  DialogInv'
  <1>1. TypeOK
    BY DEF DialogInv
  <1>2. UNCHANGED <<dialog, selection, ticked, overridden, stack, linkOpen>>
    OBVIOUS
  <1> DEFINE quiet == silence + 1  none == {}
  <1>3. Hold(pins, quiet, crowd, none) /\ crowd \in 0 .. quiet
    OBVIOUS
  <1>4. quiet \in Nat /\ pins \in SUBSET Signal /\ none \in SUBSET Signal
        /\ none \in SUBSET DOMAIN stack
    BY <1>1, OverrideConstants DEF TypeOK, OverrideConstants
  <1>5. timer' \in 0 .. TickEvery
    BY <1>1, Ticks
  <1>6. SameCalls
    BY <1>2 DEF SameCalls
  <1>7. /\ \A s \in Signal : (\A i \in none : ~IsAbout(stack[i], s)) =>
             (s \in pins <=> s \in pins) /\ s \notin none
        /\ \A i \in none : stack[i].kind = "clear" => pins = {} \/ (pins = pins /\ none = {})
    OBVIOUS
  <1>8. \A i \in DOMAIN stack : stack'[i].state = "ok" =>
          \/ stack[i].state = "ok" /\ i \notin none
          \/ /\ stack[i].kind = "set" => stack[i].about \in pins
             /\ stack[i].kind = "release" => stack[i].about \notin pins
             /\ stack[i].kind = "clear" => pins = {}
    BY <1>2
  <1> HIDE DEF quiet, none
  <1>9. TypeOK'
    <2>1. /\ pins' \subseteq Signal /\ silence' \in 0 .. LeaseFor - 1
          /\ crowded' \in 0 .. silence'
          /\ doubt' \in [Signal -> Doubt]
      BY <1>1, <1>3, <1>4, Held
    <2> QED BY <1>1, <1>2, <1>5, <2>1, Zenon DEF TypeOK
  <1>10. UNCHANGED <<dialog, selection, ticked, overridden>>
    BY <1>2
  <1> QED BY <1>3, <1>4, <1>6, <1>7, <1>8, <1>9, <1>10, HeldSound

LEMMA PassIdleSound == DialogInv /\ PassIdle => DialogInv'
  <1> SUFFICES ASSUME DialogInv, PassIdle PROVE DialogInv'
    OBVIOUS
  <1>1. crowded \in 0 .. silence + 1
    BY OverrideConstants DEF DialogInv, TypeOK, OverrideConstants
  <1> QED BY <1>1, NothingHeard DEF PassIdle

LEMMA PassCrowdedSound == DialogInv /\ PassCrowded => DialogInv'
  <1> SUFFICES ASSUME DialogInv, PassCrowded PROVE DialogInv'
    OBVIOUS
  <1> DEFINE crowd == IF crowded < Slack THEN crowded + 1 ELSE crowded
  <1>1. crowd \in 0 .. silence + 1
    BY OverrideConstants DEF DialogInv, TypeOK, OverrideConstants
  <1>2. /\ ~TimerDue /\ Tick /\ Hold(pins, silence + 1, crowd, {})
        /\ UNCHANGED <<dialog, selection, ticked, overridden, stack, linkOpen>>
    BY DEF PassCrowded
  <1> HIDE DEF crowd
  <1> QED BY <1>1, <1>2, NothingHeard

LEMMA PassUnansweredSound ==
    ASSUME NEW wasHeard \in BOOLEAN, DialogInv, PassUnanswered(wasHeard)
    PROVE  DialogInv'
  <1>1. TypeOK
    BY DEF DialogInv
  <1>2. /\ First \in DOMAIN stack /\ InFlight = stack[First] /\ InFlight \in Call
        /\ stack[First].state = "waiting"
    BY <1>1, FirstWaits DEF PassUnanswered
  <1>3. UNCHANGED <<dialog, selection, ticked, overridden, linkOpen>>
    BY DEF PassUnanswered
  <1>4. timer' \in 0 .. TickEvery
    BY <1>1, Ticks DEF PassUnanswered
  <1> DEFINE call == InFlight
             next == IF call.left = 1 THEN Done(call, "failed") ELSE [call EXCEPT !.left = @ - 1]
  <1>5. stack' = [stack EXCEPT ![First] = next]
    BY <1>2 DEF PassUnanswered
  <1>6. /\ next \in Call /\ next.state # "ok"
        /\ next.kind = call.kind /\ next.row = call.row /\ next.about = call.about
    <2>1. CASE call.left = 1
      <3>1. next = Done(call, "failed")
        BY <2>1
      <3> QED BY <1>2, <3>1, DoneCall
    <2>2. CASE call.left # 1
      <3>1. next = [call EXCEPT !.left = call.left - 1]
        BY <2>2
      <3>2. call.left - 1 \in 1 .. Tries
        <4>1. call.left \in 1 .. Tries
          BY <1>2 DEF Call
        <4>2. Tries \in Nat
          BY OverrideConstants DEF OverrideConstants
        <4> QED BY <2>2, <4>1, <4>2
      <3> HIDE DEF next
      <3> QED BY <1>2, <3>1, <3>2 DEF Call
    <2> QED BY <2>1, <2>2
  <1> HIDE DEF next
  <1>7. /\ stack' \in Seq(Call) /\ SameCalls
        /\ \A j \in DOMAIN stack : stack'[j] = IF j = First THEN next ELSE stack[j]
    BY <1>1, <1>2, <1>5, <1>6, Updated
  <1>8. \A j \in DOMAIN stack : stack'[j].state = "ok" => stack[j].state = "ok" /\ j # First
    BY <1>6, <1>7
  <1>9. silence + 1 \in Nat /\ pins \in SUBSET Signal /\ crowded \in 0 .. silence + 1
    BY <1>1, OverrideConstants DEF TypeOK, OverrideConstants
  <1>10. ASSUME NEW held \in SUBSET Signal, NEW quiet \in Nat, NEW crowd \in 0 .. quiet,
                NEW known \in SUBSET Signal, NEW heard \in SUBSET {First},
                Hold(held, quiet, crowd, known),
                \A s \in Signal : (\A i \in heard : ~IsAbout(stack[i], s)) =>
                    (s \in held <=> s \in pins) /\ s \notin known,
                \A i \in heard : stack[i].kind = "clear" => held = {} \/ (held = pins /\ known = {})
         PROVE  DialogInv'
    <2>1. TypeOK'
      <3>1. /\ pins' \subseteq Signal /\ silence' \in 0 .. LeaseFor - 1
            /\ crowded' \in 0 .. silence'
            /\ doubt' \in [Signal -> Doubt]
        BY <1>1, <1>10, Held
      <3> QED BY <1>1, <1>3, <1>4, <1>7, <3>1, Zenon DEF TypeOK
    <2>2. heard \in SUBSET DOMAIN stack
      BY <1>2
    <2>3. \A i \in DOMAIN stack : stack'[i].state = "ok" =>
            \/ stack[i].state = "ok" /\ i \notin heard
            \/ /\ stack[i].kind = "set" => stack[i].about \in held
               /\ stack[i].kind = "release" => stack[i].about \notin held
               /\ stack[i].kind = "clear" => held = {}
      BY <1>8
    <2>4. UNCHANGED <<dialog, selection, ticked, overridden>>
      BY <1>3
    <2> QED BY <1>7, <1>10, <2>1, <2>2, <2>3, <2>4, HeldSound
  <1>11. CASE wasHeard
    <2> DEFINE held == PinsAfter(call)
               quiet == IF Renews(call) THEN 1 ELSE silence + 1
               crowd == IF Renews(call) THEN 0 ELSE crowded
               known == held \ pins
               heard == {First}
    <2>1. Hold(held, quiet, crowd, known)
      BY <1>11 DEF PassUnanswered
    <2>2. /\ held \subseteq Signal
          /\ \A s \in Signal : ~IsAbout(stack[First], s) => (s \in held <=> s \in pins)
          /\ stack[First].kind = "clear" => held = {}
      BY <1>2, PinsOfCall
    <2> HIDE DEF held, call
    <2>3. quiet \in Nat /\ crowd \in 0 .. quiet
      BY <1>9
    <2>4. /\ \A s \in Signal : (\A i \in heard : ~IsAbout(stack[i], s)) =>
                (s \in held <=> s \in pins) /\ s \notin known
          /\ \A i \in heard : stack[i].kind = "clear" => held = {} \/ (held = pins /\ known = {})
      BY <2>2
    <2>5. held \in SUBSET Signal /\ known \in SUBSET Signal /\ heard \in SUBSET {First}
      BY <2>2
    <2> HIDE DEF quiet, crowd, known, heard
    <2> QED BY <1>10, <2>1, <2>3, <2>4, <2>5
  <1>12. CASE ~wasHeard
    <2> DEFINE quiet == silence + 1  none == {}
    <2>1. Hold(pins, quiet, crowded, none) /\ crowded \in 0 .. quiet
      BY <1>9, <1>12 DEF PassUnanswered
    <2>2. quiet \in Nat /\ none \in SUBSET Signal /\ none \in SUBSET {First}
      BY <1>9
    <2>3. /\ \A s \in Signal : (\A i \in none : ~IsAbout(stack[i], s)) =>
                (s \in pins <=> s \in pins) /\ s \notin none
          /\ \A i \in none : stack[i].kind = "clear" => pins = {} \/ (pins = pins /\ none = {})
      OBVIOUS
    <2> HIDE DEF quiet, none
    <2> QED BY <1>9, <1>10, <2>1, <2>2, <2>3
  <1> QED BY <1>11, <1>12

LEMMA UnitRestartsSound == DialogInv /\ UnitRestarts => DialogInv'
  <1> SUFFICES ASSUME DialogInv, UnitRestarts PROVE DialogInv'
    OBVIOUS
  <1>1. TypeOK
    BY DEF DialogInv
  <1>2. UNCHANGED <<dialog, selection, ticked, overridden, timer, stack, linkOpen>>
    BY DEF UnitRestarts, dialogVars
  <1> DEFINE none == {}
  <1>3. Hold(pins, LeaseFor, 0, none)
    BY DEF UnitRestarts
  <1>4. LeaseFor \in Nat /\ 0 \in 0 .. LeaseFor /\ pins \in SUBSET Signal /\ none \in SUBSET Signal
        /\ none \in SUBSET DOMAIN stack
    BY <1>1, OverrideConstants DEF TypeOK, OverrideConstants
  <1>5. SameCalls
    BY <1>2 DEF SameCalls
  <1>6. /\ \A s \in Signal : (\A i \in none : ~IsAbout(stack[i], s)) =>
             (s \in pins <=> s \in pins) /\ s \notin none
        /\ \A i \in none : stack[i].kind = "clear" => pins = {} \/ (pins = pins /\ none = {})
    OBVIOUS
  <1>7. \A i \in DOMAIN stack : stack'[i].state = "ok" =>
          \/ stack[i].state = "ok" /\ i \notin none
          \/ /\ stack[i].kind = "set" => stack[i].about \in pins
             /\ stack[i].kind = "release" => stack[i].about \notin pins
             /\ stack[i].kind = "clear" => pins = {}
    BY <1>2
  <1> HIDE DEF none
  <1>8. TypeOK'
    <2>1. /\ pins' \subseteq Signal /\ silence' \in 0 .. LeaseFor - 1
          /\ crowded' \in 0 .. silence'
          /\ doubt' \in [Signal -> Doubt]
      BY <1>1, <1>3, <1>4, Held
    <2> QED BY <1>1, <1>2, <2>1, Zenon DEF TypeOK
  <1>9. UNCHANGED <<dialog, selection, ticked, overridden>>
    BY <1>2
  <1> QED BY <1>3, <1>4, <1>5, <1>6, <1>7, <1>8, <1>9, HeldSound

\* The port goes or comes back: boxes and pins stay, and no call succeeds.
LEMMA PortSound ==
    ASSUME DialogInv, UNCHANGED <<dialogVars, unitVars, doubt>>, linkOpen' \in BOOLEAN,
           stack' \in Seq(Call), SameCalls,
           \A i \in DOMAIN stack : stack'[i].state = "ok" => stack[i].state = "ok"
    PROVE  DialogInv'
  <1>1. TypeOK /\ StackInv /\ SingleInv /\ CallInv /\ GoneInv /\ ProbeInv /\ BoxInv
    BY DEF DialogInv
  <1>2. UNCHANGED <<dialog, selection, ticked, overridden, timer, pins, silence, crowded, doubt>>
    BY DEF dialogVars, unitVars
  <1>3. /\ \A s, i : i \in DOMAIN stack => (IsAbout(stack'[i], s) <=> IsAbout(stack[i], s))
        /\ Pending' = Pending
        /\ \A s : OnlyCleared(s)' <=> OnlyCleared(s)
    BY <1>1, SamePending
  <1>4. DOMAIN stack' = DOMAIN stack /\ \A i \in DOMAIN stack :
          /\ stack'[i].kind = stack[i].kind /\ stack'[i].row = stack[i].row
          /\ stack'[i].about = stack[i].about
    BY DEF SameCalls
  <1>5. \A r : SignalAt(r)' = SignalAt(r)
    BY <1>2 DEF SignalAt
  <1>6. TypeOK'
    BY <1>1, <1>2, Zenon DEF TypeOK
  <1>7. StackInv'
    BY <1>1, <1>2, <1>4, <1>5 DEF StackInv, Free
  <1>8. SingleInv'
    BY <1>1, <1>2, <1>3, <1>4 DEF SingleInv, Free
  <1>9. CallInv'
    BY <1>1, <1>2, <1>3, <1>4 DEF CallInv, Free
  <1>10. GoneInv'
    <2>1. dialog = "crashed" => stack' = <<>>
      <3> HAVE dialog = "crashed"
      <3>1. DOMAIN stack' = {}
        BY <1>1, <1>4 DEF GoneInv
      <3>2. Len(stack') \in Nat /\ DOMAIN stack' = 1 .. Len(stack')
        BY LenProperties
      <3>3. Len(stack') = 0
        BY <3>1, <3>2
      <3> QED BY <3>2, <3>3, EmptySeq
    <2> QED BY <1>1, <1>2, <1>3, <1>4, <2>1 DEF GoneInv, Free, Alive
  <1>11. ProbeInv'
    BY <1>1, <1>2, <1>4 DEF ProbeInv
  <1>12. BoxInv'
    BY <1>1, <1>2, <1>3, <1>5 DEF BoxInv, Free
  <1> QED BY <1>6, <1>7, <1>8, <1>9, <1>10, <1>11, <1>12 DEF DialogInv

LEMMA DisconnectSound == DialogInv /\ Disconnect => DialogInv'
  <1> SUFFICES ASSUME DialogInv, Disconnect PROVE DialogInv'
    OBVIOUS
  <1>1. Len(stack) \in Nat /\ DOMAIN stack = 1 .. Len(stack)
        /\ \A i \in DOMAIN stack : stack[i] \in Call
    BY StackFacts DEF DialogInv
  <1>2. stack' = [i \in DOMAIN stack |->
                    IF i \in Waiting THEN Done(stack[i], "failed") ELSE stack[i]]
    BY DEF Disconnect
  <1>3. ASSUME NEW i \in DOMAIN stack
        PROVE  /\ stack'[i] \in Call /\ stack'[i].kind = stack[i].kind
               /\ stack'[i].row = stack[i].row /\ stack'[i].about = stack[i].about
               /\ stack'[i].state = "ok" => stack[i].state = "ok"
    <2>1. CASE i \in Waiting
      <3>1. stack'[i] = Done(stack[i], "failed")
        BY <1>2, <2>1
      <3> QED BY <1>1, <3>1, DoneCall
    <2>2. CASE i \notin Waiting
      <3>1. stack'[i] = stack[i]
        BY <1>2, <2>2
      <3> QED BY <1>1, <3>1
    <2> QED BY <2>1, <2>2
  <1>4. stack' \in Seq(Call)
    <2>1. DOMAIN stack' = 1 .. Len(stack) /\ stack' = [i \in 1 .. Len(stack) |-> stack'[i]]
      BY <1>1, <1>2
    <2>2. ASSUME NEW i \in 1 .. Len(stack) PROVE stack'[i] \in Call
      <3>1. i \in DOMAIN stack
        BY <1>1
      <3> QED BY <1>3, <3>1
    <2>3. stack' \in [1 .. Len(stack) -> Call]
      BY <2>1, <2>2, Zenon
    <2> QED BY <1>1, <2>3, SeqDef
  <1>5. SameCalls
    <2>1. DOMAIN stack' = DOMAIN stack
      BY <1>2
    <2>2. ASSUME NEW i \in DOMAIN stack
          PROVE  /\ stack'[i].kind = stack[i].kind /\ stack'[i].row = stack[i].row
                 /\ stack'[i].about = stack[i].about
      BY <1>3
    <2> QED BY <2>1, <2>2, Zenon DEF SameCalls
  <1>6. linkOpen' \in BOOLEAN /\ UNCHANGED <<dialogVars, unitVars, doubt>>
    BY DEF Disconnect
  <1>7. ASSUME NEW i \in DOMAIN stack, stack'[i].state = "ok"
        PROVE  stack[i].state = "ok"
    BY <1>3, <1>7
  <1> QED BY <1>4, <1>5, <1>6, <1>7, PortSound

LEMMA ConnectSound == DialogInv /\ Connect => DialogInv'
  <1> SUFFICES ASSUME DialogInv, Connect PROVE DialogInv'
    OBVIOUS
  <1>1. stack' = stack /\ stack \in Seq(Call)
    BY DEF Connect, DialogInv, TypeOK
  <1>2. SameCalls
    BY <1>1 DEF SameCalls
  <1>3. linkOpen' \in BOOLEAN /\ UNCHANGED <<dialogVars, unitVars, doubt>>
    BY DEF Connect
  <1> QED BY <1>1, <1>2, <1>3, PortSound
-----------------------------------------------------------------------------
(* Calls are made *)

\* A call is put on the stack, and its signal's row takes or loses its tick.
Calls(kind, row, about, then) ==
    /\ Push(kind, row, about, then)
    /\ kind \in {"set", "release", "lease", "clear"} /\ row \in Row \union {0}
    /\ about \in Signal \union {"all", "none"} /\ then \in {"-", "close"}
    /\ kind \in {"set", "release"} => row \in Row /\ about = SignalAt(row)
    /\ kind = "clear" => about = "all"
    /\ kind = "lease" => about = "none"
    /\ Alive /\ Alive'
    /\ \A r \in Row : /\ kind = "set" /\ r = row => r \in ticked'
                      /\ kind = "release" /\ r = row => r \notin ticked'
                      /\ kind \notin {"set", "release"} \/ r # row =>
                           (r \in ticked' <=> r \in ticked)
    /\ \A s \in Signal :
         /\ doubt'[s] # doubt[s] => doubt'[s] = "crossed"
         /\ about \in {s, "all"} /\ s \in Pending => doubt'[s] = "crossed"

LEMMA CallsSound ==
    ASSUME DialogInv, TypeOK', NEW kind, NEW row, NEW about, NEW then,
           Calls(kind, row, about, then), UNCHANGED <<selection, overridden, pins>>
    PROVE  DialogInv'
  <1>1. TypeOK /\ StackInv /\ SingleInv /\ CallInv /\ GoneInv /\ ProbeInv /\ BoxInv
    BY DEF DialogInv
  <1> DEFINE n == Len(stack) + 1
  <1>2. /\ Len(stack) \in Nat /\ DOMAIN stack = 1 .. Len(stack) /\ DOMAIN stack' = 1 .. n
        /\ \A i \in 1 .. Len(stack) : stack'[i] = stack[i]
        /\ stack'[n].kind = kind /\ stack'[n].row = row /\ stack'[n].about = about
        /\ stack'[n].state = "waiting"
    BY <1>1, Pushed DEF Calls
  <1>3. /\ \A i \in DOMAIN stack' : i \in DOMAIN stack \/ i = n
        /\ \A i \in DOMAIN stack : i \in DOMAIN stack' /\ stack'[i] = stack[i] /\ i # n
        /\ n \in DOMAIN stack'
    BY <1>2
  <1> HIDE DEF n
  <1>4. \A r : SignalAt(r)' = SignalAt(r)
    BY DEF SignalAt
  <1>5. /\ \A r \in Row : SignalAt(r) \in Signal
        /\ \A r1, r2 \in Row : SignalAt(r1) = SignalAt(r2) => r1 = r2
        /\ "all" \notin Signal /\ "none" \notin Signal
    BY <1>1, Rows
  <1>6. \A s \in Signal : s \in Pending <=> \E i \in DOMAIN stack : IsAbout(stack[i], s)
    BY <1>1, StackFacts
  <1>7. \A s \in Signal : s \in Pending' <=> \E i \in DOMAIN stack' : IsAbout(stack'[i], s)
    <2>1. \A s \in Signal, i \in DOMAIN stack' :
            stack'[i].about \in {s, "all"} <=> IsAbout(stack'[i], s)
      BY DEF IsAbout
    <2> QED BY <2>1 DEF Pending
  <1>8. \A s \in Signal : doubt'[s] # "crossed" =>
          /\ doubt'[s] = doubt[s]
          /\ about \in {s, "all"} => s \notin Pending
    BY DEF Calls
  <1>9. \A s \in Signal : doubt'[s] # "crossed" => \A i \in DOMAIN stack' :
          IsAbout(stack'[i], s) =>
            \/ /\ i \in DOMAIN stack /\ stack'[i] = stack[i] /\ IsAbout(stack[i], s)
               /\ about \notin {s, "all"} /\ s \in Pending
            \/ i = n /\ about \in {s, "all"} /\ s \notin Pending
    BY <1>2, <1>3, <1>6, <1>8 DEF IsAbout
  <1>10. StackInv'
    <2> SUFFICES ASSUME NEW i \in DOMAIN stack'
                 PROVE  /\ stack'[i].kind \in {"set", "release"} =>
                             /\ stack'[i].row \in Row /\ stack'[i].about \in Signal
                             /\ \/ SignalAt(stack'[i].row) = stack'[i].about
                                \/ /\ doubt'[stack'[i].about] = "crossed"
                                   /\ doubt'[SignalAt(stack'[i].row)] = "crossed"
                        /\ stack'[i].kind = "clear" => stack'[i].about = "all"
                        /\ stack'[i].kind \in {"probe", "lease"} => stack'[i].about = "none"
      BY <1>4 DEF StackInv, Free
    <2>1. CASE i \in DOMAIN stack
      BY <1>1, <1>3, <1>5, <1>8, <2>1 DEF StackInv, Free
    <2>2. CASE i = n
      BY <1>2, <1>5, <2>2 DEF Calls
    <2> QED BY <1>3, <2>1, <2>2
  <1>11. SingleInv'
    <2> SUFFICES ASSUME NEW s \in Signal, doubt'[s] # "crossed",
                        NEW i \in DOMAIN stack', NEW j \in DOMAIN stack',
                        IsAbout(stack'[i], s), IsAbout(stack'[j], s)
                 PROVE  i = j
      BY DEF SingleInv, Free, IsAbout
    <2> QED BY <1>1, <1>8, <1>9 DEF SingleInv, Free
  <1>12. CallInv'
    <2> SUFFICES ASSUME NEW s \in Signal, doubt'[s] # "crossed", NEW i \in DOMAIN stack',
                        IsAbout(stack'[i], s)
                 PROVE  /\ stack'[i].kind = "set" =>
                             /\ stack'[i].row \in ticked'
                             /\ stack'[i].state = "ok" => s \in pins \/ doubt[s] = "dropped"
                        /\ stack'[i].kind = "release" =>
                             /\ stack'[i].row \notin ticked'
                             /\ stack'[i].state = "ok" => s \notin pins
                        /\ stack'[i].kind = "clear" /\ stack'[i].state = "ok" => s \notin pins
      BY <1>8 DEF CallInv, Free, IsAbout
    <2>1. CASE i = n
      <3>1. kind = "set" => row \in ticked'
        BY DEF Calls
      <3>2. kind = "release" => row \notin ticked'
        BY DEF Calls
      <3> QED BY <1>2, <2>1, <3>1, <3>2
    <2>2. CASE i \in DOMAIN stack
      <3>1. stack'[i] = stack[i] /\ IsAbout(stack[i], s) /\ about \notin {s, "all"}
        BY <1>3, <1>9, <2>2
      <3>2. doubt[s] # "crossed"
        BY <1>8
      <3>3. /\ stack[i].kind = "set" =>
                 /\ stack[i].row \in ticked
                 /\ stack[i].state = "ok" => s \in pins \/ doubt[s] = "dropped"
            /\ stack[i].kind = "release" =>
                 /\ stack[i].row \notin ticked
                 /\ stack[i].state = "ok" => s \notin pins
            /\ stack[i].kind = "clear" /\ stack[i].state = "ok" => s \notin pins
        BY <1>1, <2>2, <3>1, <3>2 DEF CallInv, Free
      <3>4. stack[i].kind \in {"set", "release"} =>
              stack[i].row \in Row /\ SignalAt(stack[i].row) = s
        BY <1>1, <1>5, <2>2, <3>1, <3>2 DEF StackInv, Free, IsAbout
      <3>5. stack[i].kind \in {"set", "release"} =>
              (stack[i].row \in ticked' <=> stack[i].row \in ticked)
        BY <3>1, <3>4 DEF Calls
      <3> QED BY <3>1, <3>3, <3>5
    <2> QED BY <1>3, <2>1, <2>2
  <1>13. GoneInv'
    BY DEF Calls, GoneInv, Alive
  <1>14. ProbeInv'
    <2>1. \A i \in DOMAIN stack : stack[i].kind # "probe"
      BY <1>1 DEF Calls, ProbeInv, Alive
    <2> QED BY <1>2, <1>3, <2>1 DEF Calls, ProbeInv
  <1>15. BoxInv'
    <2> SUFFICES ASSUME NEW r \in Row, NEW s \in Signal, SignalAt(r) = s, doubt'[s] # "crossed"
                 PROVE  /\ s \notin Pending' =>
                             /\ r \in ticked' <=> r \in overridden
                             /\ r \in ticked' /\ doubt'[s] # "dropped" => s \in pins
                        /\ OnlyCleared(s)' /\ s \in pins /\ doubt'[s] \notin {"unsure", "left"}
                           => r \in ticked' /\ r \in overridden
      BY <1>4, <1>5 DEF BoxInv, Free
    <2>1. doubt'[s] = doubt[s]
      BY <1>8
    <2>3. /\ s \notin Pending =>
               /\ r \in ticked <=> r \in overridden
               /\ r \in ticked /\ doubt[s] # "dropped" => s \in pins
          /\ OnlyCleared(s) /\ s \in pins /\ doubt[s] \notin {"unsure", "left"}
             => r \in ticked /\ r \in overridden
      BY <1>1, <2>1 DEF BoxInv, Free
    <2>4. ~(kind \in {"set", "release"} /\ r = row) => (r \in ticked' <=> r \in ticked)
      BY DEF Calls
    <2>5. CASE about \in {s, "all"}
      <3>1. s \in Pending'
        BY <1>2, <1>3, <1>7, <2>5 DEF IsAbout
      <3>2. OnlyCleared(s)' => kind = "clear" /\ OnlyCleared(s)
        BY <1>2, <1>3, <2>5 DEF OnlyCleared, IsAbout
      <3> QED BY <2>1, <2>3, <2>4, <3>1, <3>2
    <2>6. CASE about \notin {s, "all"}
      <3>1. ~(kind \in {"set", "release"} /\ r = row)
        BY <2>6 DEF Calls
      <3>2. s \in Pending => s \in Pending'
        BY <1>3, <1>6, <1>7
      <3>3. OnlyCleared(s)' => OnlyCleared(s)
        BY <1>3 DEF OnlyCleared, IsAbout
      <3> QED BY <2>1, <2>3, <2>4, <3>1, <3>2, <3>3
    <2> QED BY <2>5, <2>6
  <1> QED BY <1>10, <1>11, <1>12, <1>13, <1>14, <1>15 DEF DialogInv

\* A user act, on an open link or a closed one.
LEMMA Acted ==
    ASSUME TypeOK, NEW STATE signals, UserActs(signals)
    PROVE  /\ doubt' \in [Signal -> Doubt] /\ UNCHANGED <<linkOpen, pins, silence, crowded>>
           /\ \A s \in Signal :
                /\ doubt'[s] # "crossed" => doubt[s] # "crossed"
                /\ s \notin signals => doubt'[s] = doubt[s]
                /\ s \in signals /\ s \in Pending => doubt'[s] = "crossed"
                /\ linkOpen /\ doubt'[s] # "crossed" => doubt'[s] = doubt[s]
                /\ ~linkOpen /\ s \in signals /\ doubt'[s] # "crossed" => doubt'[s] = "unsure"
  <1> DEFINE d == IF linkOpen THEN doubt ELSE Mark(doubt, signals, "unsure")
  <1>1. doubt \in [Signal -> Doubt] /\ "unsure" \in Doubt /\ "crossed" \in Doubt
    BY DEF TypeOK, Doubt
  <1>2. doubt' = Mark(d, signals \intersect Pending, "crossed")
    BY DEF UserActs
  <1>3. /\ d \in [Signal -> Doubt]
        /\ \A s \in Signal :
             /\ doubt[s] = "crossed" => d[s] = "crossed"
             /\ s \notin signals \/ linkOpen => d[s] = doubt[s]
             /\ ~linkOpen /\ s \in signals /\ d[s] # "crossed" => d[s] = "unsure"
    <2>1. CASE linkOpen
      BY <1>1, <2>1
    <2>2. CASE ~linkOpen
      <3>1. d = Mark(doubt, signals, "unsure")
        BY <2>2
      <3> QED BY <1>1, <2>2, <3>1, Marked
    <2> QED BY <2>1, <2>2
  <1> HIDE DEF d
  <1>4. /\ doubt' \in [Signal -> Doubt]
        /\ \A s \in Signal :
             /\ d[s] = "crossed" => doubt'[s] = "crossed"
             /\ s \in signals \intersect Pending /\ d[s] # "crossed" => doubt'[s] = "crossed"
             /\ s \notin signals \intersect Pending => doubt'[s] = d[s]
    BY <1>1, <1>2, <1>3, Marked
  <1>5. UNCHANGED <<linkOpen, pins, silence, crowded>>
    BY DEF UserActs, unitVars
  <1> QED BY <1>3, <1>4, <1>5

LEMMA Overriding ==
    ASSUME TypeOK, NEW STATE rows, rows \subseteq Row, SetOverridden(rows)
    PROVE  overridden' = rows /\ timer' \in 0 .. TickEvery
  <1>1. timer \in 0 .. TickEvery /\ TickEvery \in Nat
    BY OverrideConstants DEF TypeOK, OverrideConstants
  <1> QED BY <1>1 DEF SetOverridden

LEMMA OpenSound == DialogInv /\ Open => DialogInv'
  <1> SUFFICES ASSUME DialogInv, Open PROVE DialogInv'
    OBVIOUS
  <1>1. TypeOK /\ GoneInv /\ BoxInv
    BY DEF DialogInv
  <1>2. Push("probe", 0, "none", "-") /\ dialog = "gone" /\ stack = <<>> /\ StartsAfresh
    BY DEF Open
  <1>3. UNCHANGED <<dialog, selection, ticked, overridden, timer, linkOpen, pins, silence, crowded>>
    BY DEF Open, dialogVars, unitVars
  <1>4. /\ stack' \in Seq(Call) /\ DOMAIN stack' = {1} /\ stack'[1].kind = "probe"
        /\ stack'[1].about = "none"
    <2>1. Len(stack) = 0
      BY <1>2
    <2> QED BY <1>1, <1>2, <2>1, Pushed
  <1>5. /\ doubt \in [Signal -> Doubt] /\ doubt' \in [Signal -> Doubt]
        /\ \A s \in Signal : s \in pins =>
             doubt'[s] = IF doubt[s] = "crossed" THEN "left" ELSE doubt[s]
    BY <1>1, <1>2 DEF StartsAfresh, TypeOK, Doubt
  <1>6. TypeOK'
    BY <1>1, <1>3, <1>4, <1>5, Zenon DEF TypeOK
  <1>7. \A s \in Signal : \A i \in DOMAIN stack' : ~IsAbout(stack'[i], s)
    BY <1>1, <1>4, Rows DEF IsAbout
  <1>8. StackInv' /\ SingleInv' /\ CallInv'
    BY <1>4, <1>7 DEF StackInv, SingleInv, CallInv, IsAbout
  <1>9. ticked = {} /\ overridden = {}
    BY <1>1, <1>2 DEF GoneInv, Alive
  <1>10. GoneInv' /\ ProbeInv'
    BY <1>2, <1>3, <1>4, <1>7, <1>9 DEF GoneInv, ProbeInv, IsAbout
  <1>11. BoxInv'
    <2> SUFFICES ASSUME NEW r \in Row, NEW s \in Signal, SignalAt(r) = s, s \in pins,
                        doubt'[s] \notin {"unsure", "left"}
                 PROVE  FALSE
      <3>1. \A r : SignalAt(r)' = SignalAt(r)
        BY <1>3 DEF SignalAt
      <3>2. \A r \in Row : SignalAt(r) \in Signal
        BY <1>1, Rows
      <3> QED BY <1>3, <1>9, <3>1, <3>2 DEF BoxInv
    <2>1. doubt[s] = doubt'[s] /\ doubt[s] # "crossed"
      BY <1>5
    <2>2. OnlyCleared(s)
      BY <1>2 DEF OnlyCleared
    <2>3. r \in ticked
      BY <1>1, <2>1, <2>2 DEF BoxInv, Free
    <2> QED BY <1>9, <2>3
  <1> QED BY <1>6, <1>8, <1>10, <1>11 DEF DialogInv

LEMMA LeaseTickCalls ==
    ASSUME DialogInv, LeaseTick, Push("lease", 0, "none", "-"), timer' = TickEvery,
           UNCHANGED <<ticked, overridden, doubt>>
    PROVE  DialogInv'
  <1>1. TypeOK
    BY DEF DialogInv
  <1>2. UNCHANGED <<dialog, selection, linkOpen, pins, silence, crowded>> /\ Alive
    BY DEF LeaseTick, unitVars, TimerDue, TimerRuns
  <1>3. stack' \in Seq(Call)
    BY <1>1, Pushed
  <1>4. timer' \in 0 .. TickEvery
    BY OverrideConstants DEF OverrideConstants
  <1>5. TypeOK'
    BY <1>1, <1>2, <1>3, <1>4, Zenon DEF TypeOK
  <1>6. Alive'
    BY <1>2 DEF Alive
  <1>7. \A s \in Signal : "none" \notin {s, "all"}
    BY <1>1, Rows
  <1>8. Calls("lease", 0, "none", "-")
    BY <1>2, <1>6, <1>7 DEF Calls
  <1> QED BY <1>2, <1>5, <1>8, CallsSound

\* sendOverride() and a box that is unticked, on an open link.
LEMMA RowCalls ==
    ASSUME DialogInv, NEW row \in Row, NEW kind \in {"set", "release"}, Alive, linkOpen,
           Push(kind, row, SignalAt(row), "-"),
           ticked' = IF kind = "set" THEN ticked \union {row} ELSE ticked \ {row},
           UserActs({SignalAt(row)}), UNCHANGED <<dialog, selection, overridden, timer>>
    PROVE  DialogInv'
  <1>1. TypeOK
    BY DEF DialogInv
  <1>2. PICK about \in Signal : about = SignalAt(row)
    BY <1>1, Rows
  <1>3. Push(kind, row, about, "-")
    BY <1>2 DEF Push
  <1>4. stack' \in Seq(Call)
    BY <1>1, <1>3, Pushed
  <1>5. /\ doubt' \in [Signal -> Doubt] /\ UNCHANGED <<linkOpen, pins, silence, crowded>>
        /\ \A s \in Signal :
             /\ s \in {SignalAt(row)} /\ s \in Pending => doubt'[s] = "crossed"
             /\ doubt'[s] # "crossed" => doubt'[s] = doubt[s]
    BY <1>1, Acted
  <1>6. ticked' \subseteq Row
    BY <1>1 DEF TypeOK
  <1>7. TypeOK'
    BY <1>1, <1>4, <1>5, <1>6, Zenon DEF TypeOK
  <1>8. about # "all" /\ about # "none" /\ Alive'
    BY <1>1, Rows DEF Alive
  <1>9. Calls(kind, row, about, "-")
    BY <1>2, <1>3, <1>5, <1>8 DEF Calls
  <1> QED BY <1>5, <1>7, <1>9, CallsSound

\* "Clear All Overrides" and closing, on an open link.
LEMMA ClearCalls ==
    ASSUME DialogInv, NEW then \in {"-", "close"}, Push("clear", 0, "all", then),
           Alive, linkOpen, Alive', dialog' \in {"open", "closing"}, UserActs(Signal),
           UNCHANGED <<selection, ticked, overridden, timer>>
    PROVE  DialogInv'
  <1>1. TypeOK
    BY DEF DialogInv
  <1>2. stack' \in Seq(Call)
    BY <1>1, Pushed
  <1>3. /\ doubt' \in [Signal -> Doubt] /\ UNCHANGED <<linkOpen, pins, silence, crowded>>
        /\ \A s \in Signal : /\ s \in Pending => doubt'[s] = "crossed"
                             /\ doubt'[s] # "crossed" => doubt'[s] = doubt[s]
    BY <1>1, Acted
  <1>4. dialog' \in {"gone", "open", "closing", "crashed"}
    OBVIOUS
  <1>5. TypeOK'
    BY <1>1, <1>2, <1>3, <1>4, Zenon DEF TypeOK
  <1>6. Calls("clear", 0, "all", then)
    BY <1>3 DEF Calls
  <1> QED BY <1>3, <1>5, <1>6, CallsSound

-----------------------------------------------------------------------------
(* Rows are given up, and calls return *)

\* Calls stay on the stack or leave it.
Keeps ==
    /\ DOMAIN stack' \subseteq DOMAIN stack
    /\ \A i \in DOMAIN stack' : stack'[i] = stack[i]

\* What is left of the calls finds its rows as before.
LEMMA KeptSound ==
    ASSUME DialogInv, TypeOK', Keeps, UNCHANGED <<selection, pins>>,
           \A s \in Signal : doubt'[s] # "crossed" => doubt[s] # "crossed",
           \A r \in Row, i \in DOMAIN stack' :
               IsAbout(stack[i], SignalAt(r)) /\ doubt'[SignalAt(r)] # "crossed" =>
                   /\ doubt'[SignalAt(r)] = doubt[SignalAt(r)]
                   /\ r \in ticked' <=> r \in ticked
    PROVE  StackInv' /\ SingleInv' /\ CallInv'
  <1>1. TypeOK /\ StackInv /\ SingleInv /\ CallInv
    BY DEF DialogInv
  <1>2. \A r : SignalAt(r)' = SignalAt(r)
    BY DEF SignalAt
  <1>3. /\ \A r \in Row : SignalAt(r) \in Signal
        /\ "all" \notin Signal /\ "none" \notin Signal
    BY <1>1, Rows
  <1>4. \A i \in DOMAIN stack' : i \in DOMAIN stack /\ stack'[i] = stack[i]
    BY DEF Keeps
  <1>5. StackInv'
    <2> SUFFICES ASSUME NEW i \in DOMAIN stack'
                 PROVE  /\ stack[i].kind \in {"set", "release"} =>
                             /\ stack[i].row \in Row /\ stack[i].about \in Signal
                             /\ \/ SignalAt(stack[i].row) = stack[i].about
                                \/ /\ doubt'[stack[i].about] = "crossed"
                                   /\ doubt'[SignalAt(stack[i].row)] = "crossed"
                        /\ stack[i].kind = "clear" => stack[i].about = "all"
                        /\ stack[i].kind \in {"probe", "lease"} => stack[i].about = "none"
      BY <1>2, <1>4 DEF StackInv, Free
    <2> QED BY <1>1, <1>3, <1>4 DEF StackInv, Free
  <1>6. SingleInv'
    BY <1>1, <1>4 DEF SingleInv, Free, IsAbout
  <1>7. CallInv'
    <2> SUFFICES ASSUME NEW s \in Signal, doubt'[s] # "crossed", NEW i \in DOMAIN stack',
                        IsAbout(stack[i], s)
                 PROVE  /\ stack[i].kind = "set" =>
                             /\ stack[i].row \in ticked'
                             /\ stack[i].state = "ok" => s \in pins \/ doubt'[s] = "dropped"
                        /\ stack[i].kind = "release" =>
                             /\ stack[i].row \notin ticked'
                             /\ stack[i].state = "ok" => s \notin pins
                        /\ stack[i].kind = "clear" /\ stack[i].state = "ok" => s \notin pins
      BY <1>4 DEF CallInv, Free, IsAbout
    <2>1. doubt[s] # "crossed"
      OBVIOUS
    <2>2. /\ stack[i].kind = "set" =>
               /\ stack[i].row \in ticked
               /\ stack[i].state = "ok" => s \in pins \/ doubt[s] = "dropped"
          /\ stack[i].kind = "release" =>
               /\ stack[i].row \notin ticked
               /\ stack[i].state = "ok" => s \notin pins
          /\ stack[i].kind = "clear" /\ stack[i].state = "ok" => s \notin pins
      BY <1>1, <1>4, <2>1 DEF CallInv, Free
    <2>3. stack[i].kind \in {"set", "release"} =>
            stack[i].row \in Row /\ SignalAt(stack[i].row) = s
      BY <1>1, <1>3, <1>4, <2>1 DEF StackInv, Free, IsAbout
    <2>4. stack[i].kind \in {"set", "release"} =>
            /\ doubt'[s] = doubt[s]
            /\ stack[i].row \in ticked' <=> stack[i].row \in ticked
      BY <2>3
    <2> QED BY <2>2, <2>4
  <1> QED BY <1>5, <1>6, <1>7

\* Rows are given up: their boxes are cleared without the unit's answer.
LEMMA GivenUpSound ==
    ASSUME DialogInv, TypeOK', Keeps, UNCHANGED <<selection, pins>>,
           \A i \in DOMAIN stack : i \notin DOMAIN stack' => stack[i].about = "none",
           NEW STATE given, given \subseteq Row,
           ticked' = ticked \ given, overridden' = overridden \ given,
           dialog # "crashed", dialog' = dialog \/ (dialog' = "gone" /\ given = Row),
           \A s \in Signal : doubt'[s] # "crossed" => doubt[s] # "crossed",
           \A r \in Row : doubt'[SignalAt(r)] # "crossed" =>
               /\ r \notin given => doubt'[SignalAt(r)] = doubt[SignalAt(r)]
               /\ r \in given =>
                    /\ SignalAt(r) \notin Pending
                    /\ \/ doubt'[SignalAt(r)] \in {"unsure", "left"}
                       \/ doubt'[SignalAt(r)] = doubt[SignalAt(r)] /\ r \notin overridden
    PROVE  DialogInv'
  <1>1. TypeOK /\ GoneInv /\ ProbeInv /\ BoxInv
    BY DEF DialogInv
  <1>2. \A r : SignalAt(r)' = SignalAt(r)
    BY DEF SignalAt
  <1>3. /\ \A r \in Row : SignalAt(r) \in Signal
        /\ \A s \in Signal : \E r \in Row : SignalAt(r) = s
        /\ "none" \notin Signal
    BY <1>1, Rows
  <1>4. \A i \in DOMAIN stack' : i \in DOMAIN stack /\ stack'[i] = stack[i]
    BY DEF Keeps
  <1>5. \A s \in Signal : s \in Pending <=> \E i \in DOMAIN stack : IsAbout(stack[i], s)
    BY <1>1, StackFacts
  <1>6. \A s \in Signal : \A i \in DOMAIN stack :
          IsAbout(stack[i], s) => i \in DOMAIN stack'
    BY <1>3 DEF IsAbout
  <1>7. \A s \in Signal : s \in Pending' <=> s \in Pending
    BY <1>4, <1>6 DEF Pending, IsAbout
  <1>8. \A s \in Signal : OnlyCleared(s)' <=> OnlyCleared(s)
    BY <1>4, <1>6 DEF OnlyCleared, IsAbout
  <1>9. \A r \in Row, i \in DOMAIN stack' :
          IsAbout(stack[i], SignalAt(r)) /\ doubt'[SignalAt(r)] # "crossed" =>
              /\ doubt'[SignalAt(r)] = doubt[SignalAt(r)]
              /\ r \in ticked' <=> r \in ticked
    <2> SUFFICES ASSUME NEW r \in Row, NEW i \in DOMAIN stack',
                        IsAbout(stack[i], SignalAt(r)), doubt'[SignalAt(r)] # "crossed"
                 PROVE  /\ doubt'[SignalAt(r)] = doubt[SignalAt(r)]
                        /\ r \in ticked' <=> r \in ticked
      OBVIOUS
    <2>1. SignalAt(r) \in Pending
      BY <1>3, <1>4, <1>5
    <2>2. r \notin given
      BY <2>1
    <2>3. r \in ticked' <=> r \in ticked
      BY <2>2
    <2> QED BY <2>2, <2>3
  <1>10. StackInv' /\ SingleInv' /\ CallInv'
    BY <1>9, KeptSound
  <1>11. GoneInv'
    <2>1. CASE dialog' = dialog
      <3>1. Alive' <=> Alive
        BY <2>1 DEF Alive
      <3> QED BY <1>1, <1>4, <2>1, <3>1 DEF GoneInv, Free, IsAbout
    <2>2. CASE dialog' = "gone" /\ given = Row
      <3>1. ticked' = {} /\ overridden' = {}
        BY <1>1, <2>2 DEF TypeOK
      <3>2. ASSUME NEW s \in Signal, doubt'[s] # "crossed", NEW i \in DOMAIN stack'
            PROVE  ~IsAbout(stack'[i], s)
        <4>1. PICK r \in Row : SignalAt(r) = s
          BY <1>3
        <4>2. s \notin Pending
          BY <2>2, <3>2, <4>1
        <4> QED BY <1>4, <1>5, <4>2
      <3> QED BY <2>2, <3>1, <3>2 DEF GoneInv, Free, IsAbout
    <2> QED BY <2>1, <2>2
  <1>12. ProbeInv'
    <2> SUFFICES ASSUME NEW i \in DOMAIN stack', stack'[i].kind = "probe"
                 PROVE  dialog' = "gone" /\ DOMAIN stack' = {i}
      BY DEF ProbeInv
    <2>1. dialog = "gone" /\ DOMAIN stack = {i}
      BY <1>1, <1>4 DEF ProbeInv
    <2> QED BY <1>4, <2>1
  <1>13. BoxInv'
    <2> SUFFICES ASSUME NEW r \in Row, NEW s \in Signal, SignalAt(r) = s, doubt'[s] # "crossed"
                 PROVE  /\ s \notin Pending =>
                             /\ r \in ticked' <=> r \in overridden'
                             /\ r \in ticked' /\ doubt'[s] # "dropped" => s \in pins
                        /\ OnlyCleared(s) /\ s \in pins /\ doubt'[s] \notin {"unsure", "left"}
                           => r \in ticked' /\ r \in overridden'
      BY <1>2, <1>3, <1>7, <1>8 DEF BoxInv, Free
    <2>1. /\ s \notin Pending =>
               /\ r \in ticked <=> r \in overridden
               /\ r \in ticked /\ doubt[s] # "dropped" => s \in pins
          /\ OnlyCleared(s) /\ s \in pins /\ doubt[s] \notin {"unsure", "left"}
             => r \in ticked /\ r \in overridden
      BY <1>1 DEF BoxInv, Free
    <2>2. CASE r \in given
      <3>1. r \notin ticked' /\ r \notin overridden'
        BY <2>2
      <3>2. doubt'[s] \in {"unsure", "left"} \/ (doubt'[s] = doubt[s] /\ r \notin overridden)
        BY <2>2
      <3> QED BY <2>1, <3>1, <3>2
    <2>3. CASE r \notin given
      <3>1. (r \in ticked' <=> r \in ticked) /\ (r \in overridden' <=> r \in overridden)
        BY <2>3
      <3>2. doubt'[s] = doubt[s]
        BY <2>3
      <3> QED BY <2>1, <3>1, <3>2
    <2> QED BY <2>2, <2>3
  <1> QED BY <1>10, <1>11, <1>12, <1>13 DEF DialogInv

\* A box that the user toggles on a closed link.
LEMMA RowGivenUp ==
    ASSUME DialogInv, NEW row \in Row, Alive, ~linkOpen, ticked' = ticked \ {row},
           SetOverridden(overridden \ {row}), UserActs({SignalAt(row)}),
           UNCHANGED <<dialog, selection, stack>>
    PROVE  DialogInv'
  <1>1. TypeOK
    BY DEF DialogInv
  <1>2. overridden' = overridden \ {row} /\ timer' \in 0 .. TickEvery
    <2>1. overridden \ {row} \subseteq Row
      BY <1>1 DEF TypeOK
    <2> QED BY <1>1, <2>1, Overriding
  <1>3. /\ doubt' \in [Signal -> Doubt] /\ UNCHANGED <<linkOpen, pins, silence, crowded>>
        /\ \A s \in Signal :
             /\ doubt'[s] # "crossed" => doubt[s] # "crossed"
             /\ s \notin {SignalAt(row)} => doubt'[s] = doubt[s]
             /\ s \in {SignalAt(row)} /\ s \in Pending => doubt'[s] = "crossed"
             /\ s \in {SignalAt(row)} /\ doubt'[s] # "crossed" => doubt'[s] = "unsure"
    BY <1>1, Acted
  <1>4. ticked' \subseteq Row /\ overridden' \subseteq Row
    BY <1>1, <1>2 DEF TypeOK
  <1>5. TypeOK'
    BY <1>1, <1>2, <1>3, <1>4, Zenon DEF TypeOK
  <1>6. /\ \A r \in Row : SignalAt(r) \in Signal
        /\ \A r1, r2 \in Row : SignalAt(r1) = SignalAt(r2) => r1 = r2
    BY <1>1, Rows
  <1>7. Keeps
    BY DEF Keeps
  <1> DEFINE given == {row}
  <1>8. \A r \in Row : doubt'[SignalAt(r)] # "crossed" =>
          /\ r \notin given => doubt'[SignalAt(r)] = doubt[SignalAt(r)]
          /\ r \in given =>
               /\ SignalAt(r) \notin Pending
               /\ \/ doubt'[SignalAt(r)] \in {"unsure", "left"}
                  \/ doubt'[SignalAt(r)] = doubt[SignalAt(r)] /\ r \notin overridden
    BY <1>3, <1>6
  <1>9. \A i \in DOMAIN stack : i \notin DOMAIN stack' => stack[i].about = "none"
    OBVIOUS
  <1>10. /\ given \subseteq Row /\ ticked' = ticked \ given /\ overridden' = overridden \ given
         /\ dialog # "crashed" /\ dialog' = dialog
    BY <1>2 DEF Alive
  <1> HIDE DEF given
  <1> QED BY <1>3, <1>5, <1>7, <1>8, <1>9, <1>10, GivenUpSound

\* "Clear All Overrides", and closing, when the unit is not told.
LEMMA AllGivenUp ==
    ASSUME DialogInv, Alive, ~Tells, UntickAll, UserActs(Signal), dialog' \in {dialog, "gone"},
           UNCHANGED <<selection, stack>>
    PROVE  DialogInv'
  <1>1. TypeOK
    BY DEF DialogInv
  <1>2. ticked' = {} /\ overridden' = {} /\ timer' \in 0 .. TickEvery
    <2>1. SetOverridden({}) /\ {} \subseteq Row
      BY DEF UntickAll
    <2> QED BY <1>1, <2>1, Overriding DEF UntickAll
  <1>3. /\ doubt' \in [Signal -> Doubt] /\ UNCHANGED <<linkOpen, pins, silence, crowded>>
        /\ \A s \in Signal :
             /\ doubt'[s] # "crossed" => doubt[s] # "crossed"
             /\ s \in Pending => doubt'[s] = "crossed"
             /\ linkOpen /\ doubt'[s] # "crossed" => doubt'[s] = doubt[s]
             /\ ~linkOpen /\ doubt'[s] # "crossed" => doubt'[s] = "unsure"
    BY <1>1, Acted
  <1>4. dialog' \in {"gone", "open", "closing", "crashed"}
    BY <1>1 DEF TypeOK
  <1>5. TypeOK'
    BY <1>1, <1>2, <1>3, <1>4, Zenon DEF TypeOK
  <1>6. \A r \in Row : SignalAt(r) \in Signal
    BY <1>1, Rows
  <1>7. Keeps
    BY DEF Keeps
  <1>8. linkOpen => overridden = {}
    BY DEF Tells
  <1>9. \A r \in Row : doubt'[SignalAt(r)] # "crossed" =>
          /\ r \notin Row => doubt'[SignalAt(r)] = doubt[SignalAt(r)]
          /\ r \in Row =>
               /\ SignalAt(r) \notin Pending
               /\ \/ doubt'[SignalAt(r)] \in {"unsure", "left"}
                  \/ doubt'[SignalAt(r)] = doubt[SignalAt(r)] /\ r \notin overridden
    BY <1>3, <1>6, <1>8
  <1>10. \A i \in DOMAIN stack : i \notin DOMAIN stack' => stack[i].about = "none"
    OBVIOUS
  <1>11. /\ ticked' = ticked \ Row /\ overridden' = overridden \ Row /\ dialog # "crashed"
         /\ dialog' = dialog \/ (dialog' = "gone" /\ Row = Row)
    BY <1>1, <1>2 DEF TypeOK, Alive
  <1> QED BY <1>3, <1>5, <1>7, <1>9, <1>10, <1>11, GivenUpSound

\* A refresh that failed gives every row up, and so does a dialog that ends
\* without a word.
LEMMA WithoutAWord ==
    ASSUME DialogInv, TypeOK, NEW why \in {"unsure", "left"}, UntickAll,
           doubt' = Mark(Mark(doubt, SignalsAt(overridden), why), Pending, "crossed"),
           Alive, stack' \in Seq(Call), Keeps,
           \A i \in DOMAIN stack : i \notin DOMAIN stack' => stack[i].about = "none",
           dialog' = dialog \/ dialog' = "gone",
           UNCHANGED <<selection, linkOpen, unitVars>>
    PROVE  DialogInv'
  <1>1. ticked' = {} /\ overridden' = {} /\ timer' \in 0 .. TickEvery
    <2>1. SetOverridden({}) /\ {} \subseteq Row
      BY DEF UntickAll
    <2> QED BY <2>1, Overriding DEF UntickAll
  <1> DEFINE d == Mark(doubt, SignalsAt(overridden), why)
  <1>2. doubt \in [Signal -> Doubt] /\ why \in Doubt /\ "crossed" \in Doubt
    BY DEF TypeOK, Doubt
  <1>3. doubt' = Mark(d, Pending, "crossed")
    OBVIOUS
  <1>4. /\ d \in [Signal -> Doubt]
        /\ \A s \in Signal :
             /\ doubt[s] = "crossed" => d[s] = "crossed"
             /\ s \in SignalsAt(overridden) /\ doubt[s] # "crossed" => d[s] = why
             /\ s \notin SignalsAt(overridden) => d[s] = doubt[s]
    BY <1>2, Marked
  <1> HIDE DEF d
  <1>5. /\ doubt' \in [Signal -> Doubt]
        /\ \A s \in Signal :
             /\ d[s] = "crossed" => doubt'[s] = "crossed"
             /\ s \in Pending /\ d[s] # "crossed" => doubt'[s] = "crossed"
             /\ s \notin Pending => doubt'[s] = d[s]
    BY <1>2, <1>3, <1>4, Marked
  <1>6. UNCHANGED <<pins, silence, crowded>>
    BY DEF unitVars
  <1>7. TypeOK'
    <2>1. dialog' \in {"gone", "open", "closing", "crashed"}
      BY DEF TypeOK
    <2> QED BY <1>1, <1>5, <1>6, <2>1, Zenon DEF TypeOK
  <1>8. \A r \in Row : SignalAt(r) \in Signal
    BY Rows
  <1>9. \A r \in Row : r \in overridden => SignalAt(r) \in SignalsAt(overridden)
    BY DEF SignalsAt
  <1>10. /\ \A r1, r2 \in Row : SignalAt(r1) = SignalAt(r2) => r1 = r2
         /\ overridden \subseteq Row /\ ticked \subseteq Row
    BY Rows DEF TypeOK
  <1>11. \A r \in Row : r \notin overridden => SignalAt(r) \notin SignalsAt(overridden)
    BY <1>10 DEF SignalsAt
  <1>12. ASSUME NEW r \in Row, doubt'[SignalAt(r)] # "crossed"
         PROVE  /\ SignalAt(r) \notin Pending
                /\ \/ doubt'[SignalAt(r)] \in {"unsure", "left"}
                   \/ doubt'[SignalAt(r)] = doubt[SignalAt(r)] /\ r \notin overridden
    <2>1. SignalAt(r) \notin Pending
      BY <1>4, <1>5, <1>8, <1>12
    <2>2. doubt'[SignalAt(r)] = d[SignalAt(r)] /\ doubt[SignalAt(r)] # "crossed"
      BY <1>4, <1>5, <1>8, <1>12, <2>1
    <2>3. CASE r \in overridden
      BY <1>4, <1>8, <1>9, <2>1, <2>2, <2>3
    <2>4. CASE r \notin overridden
      BY <1>4, <1>8, <1>11, <2>1, <2>2, <2>4
    <2> QED BY <2>3, <2>4
  <1>13. /\ ticked' = ticked \ Row /\ overridden' = overridden \ Row
         /\ dialog # "crashed" /\ (dialog' = dialog \/ (dialog' = "gone" /\ Row = Row))
    BY <1>1, <1>10 DEF Alive
  <1>14. \A s \in Signal : doubt'[s] # "crossed" => doubt[s] # "crossed"
    BY <1>4, <1>5
  <1> QED BY <1>6, <1>7, <1>12, <1>13, <1>14, GivenUpSound

LEMMA RefreshFailedSound ==
    ASSUME DialogInv, TypeOK, LeaseFailed, Alive, stack' \in Seq(Call), Keeps,
           \A i \in DOMAIN stack : i \notin DOMAIN stack' => stack[i].about = "none",
           UNCHANGED <<dialog, selection, linkOpen, unitVars>>
    PROVE  DialogInv'
  <1> DEFINE why == "unsure"
  <1>1. /\ why \in {"unsure", "left"} /\ UntickAll
        /\ doubt' = Mark(Mark(doubt, SignalsAt(overridden), why), Pending, "crossed")
    BY DEF LeaseFailed
  <1> HIDE DEF why
  <1> QED BY <1>1, WithoutAWord

LEMMA RejectSound == DialogInv /\ Reject => DialogInv'
  <1> SUFFICES ASSUME DialogInv, Reject PROVE DialogInv'
    OBVIOUS
  <1> DEFINE why == "left"
  <1>1. TypeOK
    BY DEF DialogInv
  <1>2. /\ why \in {"unsure", "left"} /\ UntickAll /\ Alive /\ dialog' = "gone"
        /\ doubt' = Mark(Mark(doubt, SignalsAt(overridden), why), Pending, "crossed")
        /\ UNCHANGED <<selection, stack, linkOpen, unitVars>>
    BY DEF Reject
  <1>3. stack' \in Seq(Call) /\ Keeps
    BY <1>1, <1>2 DEF TypeOK, Keeps
  <1>4. \A i \in DOMAIN stack : i \notin DOMAIN stack' => stack[i].about = "none"
    BY <1>2
  <1> HIDE DEF why
  <1> QED BY <1>1, <1>2, <1>3, <1>4, WithoutAWord

LEMMA SendOverrideSound ==
    ASSUME DialogInv, NEW row \in Row, SendOverride(row)
    PROVE  DialogInv'
  <1>1. Alive /\ UserActs({SignalAt(row)}) /\ UNCHANGED <<dialog, selection>>
    BY DEF SendOverride, UserMayCall
  <1>2. CASE linkOpen
    <2>1. /\ ticked' = ticked \union {row} /\ Push("set", row, SignalAt(row), "-")
          /\ UNCHANGED <<overridden, timer>>
      BY <1>2 DEF SendOverride
    <2> QED BY <1>1, <1>2, <2>1, RowCalls
  <1>3. CASE ~linkOpen
    <2>1. /\ ticked' = ticked \ {row} /\ SetOverridden(overridden \ {row})
          /\ UNCHANGED stack
      BY <1>3 DEF SendOverride
    <2> QED BY <1>1, <1>3, <2>1, RowGivenUp
  <1> QED BY <1>2, <1>3

LEMMA UntickSound ==
    ASSUME DialogInv, NEW row \in Row, Untick(row)
    PROVE  DialogInv'
  <1>1. /\ Alive /\ UserActs({SignalAt(row)}) /\ UNCHANGED <<dialog, selection>>
        /\ ticked' = ticked \ {row}
    BY DEF Untick, UserMayCall
  <1>2. CASE linkOpen
    <2>1. Push("release", row, SignalAt(row), "-") /\ UNCHANGED <<overridden, timer>>
      BY <1>2 DEF Untick
    <2> QED BY <1>1, <1>2, <2>1, RowCalls
  <1>3. CASE ~linkOpen
    <2>1. SetOverridden(overridden \ {row}) /\ UNCHANGED stack
      BY <1>3 DEF Untick
    <2> QED BY <1>1, <1>3, <2>1, RowGivenUp
  <1> QED BY <1>2, <1>3

LEMMA ClearAllSound == DialogInv /\ ClearAll => DialogInv'
  <1> SUFFICES ASSUME DialogInv, ClearAll PROVE DialogInv'
    OBVIOUS
  <1>1. Alive /\ UserActs(Signal) /\ UNCHANGED <<dialog, selection>>
    BY DEF ClearAll
  <1>2. Alive' /\ dialog' \in {"open", "closing"}
    BY <1>1 DEF Alive
  <1>3. CASE Tells
    <2>1. Push("clear", 0, "all", "-") /\ UNCHANGED <<ticked, overridden, timer>> /\ linkOpen
      BY <1>3 DEF ClearAll, Tells
    <2> QED BY <1>1, <1>2, <2>1, ClearCalls
  <1>4. CASE ~Tells
    <2>1. UntickAll /\ UNCHANGED stack
      BY <1>4 DEF ClearAll
    <2> QED BY <1>1, <1>4, <2>1, AllGivenUp
  <1> QED BY <1>3, <1>4

LEMMA CloseSound == DialogInv /\ Close => DialogInv'
  <1> SUFFICES ASSUME DialogInv, Close PROVE DialogInv'
    OBVIOUS
  <1>1. Alive /\ UserActs(Signal) /\ UNCHANGED selection
    BY DEF Close, Alive
  <1>2. CASE Tells
    <2>1. /\ Push("clear", 0, "all", "close") /\ UNCHANGED <<ticked, overridden, timer>>
          /\ linkOpen /\ dialog' = "closing"
      BY <1>2 DEF Close, Tells
    <2>2. Alive' /\ dialog' \in {"open", "closing"}
      BY <2>1 DEF Alive
    <2> QED BY <1>1, <2>1, <2>2, ClearCalls
  <1>3. CASE ~Tells
    <2>1. UntickAll /\ UNCHANGED stack /\ dialog' = "gone"
      BY <1>3 DEF Close
    <2> QED BY <1>1, <1>3, <2>1, AllGivenUp
  <1> QED BY <1>2, <1>3

LEMMA LeaseTickSound == DialogInv /\ LeaseTick => DialogInv'
  <1> SUFFICES ASSUME DialogInv, LeaseTick PROVE DialogInv'
    OBVIOUS
  <1>1. TypeOK
    BY DEF DialogInv
  <1>2. Alive /\ UNCHANGED <<dialog, selection, linkOpen, unitVars>>
    BY DEF LeaseTick, TimerDue, TimerRuns
  <1>3. CASE \E i \in DOMAIN stack : stack[i].kind = "lease"
    <2>1. timer' = TickEvery /\ UNCHANGED <<ticked, overridden, stack, doubt>>
      BY <1>3 DEF LeaseTick
    <2>2. timer' \in 0 .. TickEvery
      BY <2>1, OverrideConstants DEF OverrideConstants
    <2>3. UNCHANGED <<pins, silence, crowded>>
      BY <1>2 DEF unitVars
    <2>4. TypeOK'
      BY <1>1, <1>2, <2>1, <2>2, <2>3, Zenon DEF TypeOK
    <2>5. Keeps
      BY <2>1 DEF Keeps
    <2> DEFINE given == {}
    <2>6. /\ given \subseteq Row /\ ticked' = ticked \ given /\ overridden' = overridden \ given
          /\ dialog # "crashed" /\ dialog' = dialog
          /\ \A s \in Signal : doubt'[s] # "crossed" => doubt[s] # "crossed"
          /\ \A r \in Row : r \notin given /\ doubt'[SignalAt(r)] = doubt[SignalAt(r)]
          /\ \A i \in DOMAIN stack : i \notin DOMAIN stack' => stack[i].about = "none"
      BY <1>2, <2>1 DEF Alive
    <2> HIDE DEF given
    <2> QED BY <1>2, <2>3, <2>4, <2>5, <2>6, GivenUpSound
  <1>4. CASE ~(\E i \in DOMAIN stack : stack[i].kind = "lease") /\ linkOpen
    <2>1. /\ Push("lease", 0, "none", "-") /\ timer' = TickEvery
          /\ UNCHANGED <<ticked, overridden, doubt>>
      BY <1>4 DEF LeaseTick
    <2> QED BY <2>1, LeaseTickCalls
  <1>5. CASE ~(\E i \in DOMAIN stack : stack[i].kind = "lease") /\ ~linkOpen
    <2>1. LeaseFailed /\ UNCHANGED stack
      BY <1>5 DEF LeaseTick
    <2>2. stack' \in Seq(Call) /\ Keeps
          /\ \A i \in DOMAIN stack : i \notin DOMAIN stack' => stack[i].about = "none"
      BY <1>1, <2>1 DEF TypeOK, Keeps
    <2> QED BY <1>1, <1>2, <2>1, <2>2, RefreshFailedSound
  <1> QED BY <1>3, <1>4, <1>5

LEMMA Returned ==
    ASSUME TypeOK, NEW kind, Return(kind)
    PROVE  /\ Keeps /\ stack' \in Seq(Call) /\ Top \in Call /\ Top.kind = kind
           /\ Top.state \in {"ok", "failed"}
           /\ UNCHANGED <<selection, linkOpen, pins, silence, crowded>>
           /\ \E n \in DOMAIN stack : Top = stack[n] /\ DOMAIN stack' = DOMAIN stack \ {n}
  <1>1. stack # <<>> /\ stack' = SubSeq(stack, 1, Len(stack) - 1) /\ Top.kind = kind
        /\ Top.state # "waiting"
    BY DEF Return, Returning
  <1>2. /\ stack' \in Seq(Call) /\ Len(stack) \in Nat /\ DOMAIN stack = 1 .. Len(stack)
        /\ Len(stack) > 0 /\ DOMAIN stack' = 1 .. Len(stack) - 1
        /\ \A i \in 1 .. Len(stack) - 1 : stack'[i] = stack[i]
        /\ Top \in Call /\ Top = stack[Len(stack)]
    BY <1>1, Popped
  <1>3. Top.state \in {"ok", "failed"}
    <2>1. Top.state \in {"waiting", "ok", "failed"}
      BY <1>2 DEF Call
    <2> QED BY <1>1, <2>1
  <1>4. Keeps
    <2>1. 1 .. Len(stack) - 1 \subseteq 1 .. Len(stack)
      BY <1>2
    <2> QED BY <1>2, <2>1 DEF Keeps
  <1>5. Len(stack) \in DOMAIN stack /\ DOMAIN stack' = DOMAIN stack \ {Len(stack)}
    BY <1>2
  <1>6. UNCHANGED <<selection, linkOpen, pins, silence, crowded>>
    BY DEF Return, unitVars
  <1> QED BY <1>1, <1>2, <1>3, <1>4, <1>5, <1>6

\* What the return of a call about one signal may change.
OnlyItsRow ==
    /\ \A r \in Row :
         r # Top.row => (r \in ticked' <=> r \in ticked) /\ (r \in overridden' <=> r \in overridden)
    /\ \A s \in Signal : doubt'[s] # "crossed" => doubt[s] # "crossed"
    /\ \A s \in Signal : s # Top.about => doubt'[s] = doubt[s]

\* And how box and pin must be left.
LeftRight ==
    doubt'[Top.about] # "crossed" =>
        /\ Top.row \in ticked' <=> Top.row \in overridden'
        /\ Top.row \in ticked' /\ doubt'[Top.about] # "dropped" => Top.about \in pins
        /\ Top.about \in pins /\ doubt'[Top.about] \notin {"unsure", "left"} => Top.row \in ticked'

\* The boxes of the other rows stay as they are.
LEMMA RowReturns ==
    ASSUME DialogInv, TypeOK', NEW kind \in {"set", "release"}, Return(kind), Alive,
           UNCHANGED dialog, OnlyItsRow, LeftRight
    PROVE  DialogInv'
  <1>1. TypeOK /\ StackInv /\ SingleInv /\ GoneInv /\ ProbeInv /\ BoxInv
    BY DEF DialogInv
  <1>2. Keeps /\ Top.kind = kind /\ UNCHANGED <<selection, pins>>
    BY <1>1, Returned
  <1>3. PICK n \in DOMAIN stack : Top = stack[n] /\ DOMAIN stack' = DOMAIN stack \ {n}
    BY <1>1, Returned
  <1>4. \A r : SignalAt(r)' = SignalAt(r)
    BY <1>2 DEF SignalAt
  <1>5. /\ \A r \in Row : SignalAt(r) \in Signal
        /\ \A r1, r2 \in Row : SignalAt(r1) = SignalAt(r2) => r1 = r2
        /\ "all" \notin Signal /\ "none" \notin Signal
    BY <1>1, Rows
  <1>16. /\ \A r \in Row : r # Top.row =>
              (r \in ticked' <=> r \in ticked) /\ (r \in overridden' <=> r \in overridden)
         /\ \A s \in Signal : doubt'[s] # "crossed" => doubt[s] # "crossed"
         /\ \A s \in Signal : s # Top.about => doubt'[s] = doubt[s]
    BY DEF OnlyItsRow
  <1>6. /\ Top.row \in Row /\ Top.about \in Signal
        /\ \/ SignalAt(Top.row) = Top.about
           \/ /\ doubt[Top.about] = "crossed" /\ doubt[SignalAt(Top.row)] = "crossed"
    BY <1>1, <1>2, <1>3 DEF StackInv, Free
  <1>7. \A i \in DOMAIN stack' : i \in DOMAIN stack /\ stack'[i] = stack[i] /\ i # n
    BY <1>2, <1>3 DEF Keeps
  \* The other rows have other signals, and no other call is about this one.
  <1>8. \A r \in Row : doubt'[SignalAt(r)] # "crossed" =>
          (r = Top.row <=> SignalAt(r) = Top.about)
    BY <1>16, <1>5, <1>6
  <1>9. \A i \in DOMAIN stack' : doubt'[Top.about] # "crossed" => ~IsAbout(stack[i], Top.about)
    <2>1. IsAbout(stack[n], Top.about)
      BY <1>3 DEF IsAbout
    <2> QED BY <1>16, <1>1, <1>6, <1>7, <2>1 DEF SingleInv, Free
  <1>10. \A r \in Row, i \in DOMAIN stack' :
           IsAbout(stack[i], SignalAt(r)) /\ doubt'[SignalAt(r)] # "crossed" =>
               /\ doubt'[SignalAt(r)] = doubt[SignalAt(r)]
               /\ r \in ticked' <=> r \in ticked
    <2> SUFFICES ASSUME NEW r \in Row, NEW i \in DOMAIN stack',
                        IsAbout(stack[i], SignalAt(r)), doubt'[SignalAt(r)] # "crossed"
                 PROVE  /\ doubt'[SignalAt(r)] = doubt[SignalAt(r)]
                        /\ r \in ticked' <=> r \in ticked
      OBVIOUS
    <2>1. SignalAt(r) # Top.about /\ r # Top.row
      BY <1>8, <1>9
    <2> QED BY <1>16, <1>5, <2>1
  <1>11. StackInv' /\ SingleInv' /\ CallInv'
    BY <1>16, <1>2, <1>10, KeptSound
  <1>12. GoneInv'
    BY DEF GoneInv, Alive
  <1>13. ProbeInv'
    <2>1. \A i \in DOMAIN stack : stack[i].kind # "probe"
      BY <1>1 DEF ProbeInv, Alive
    <2> QED BY <1>7, <2>1 DEF ProbeInv
  <1>14. BoxInv'
    <2> SUFFICES ASSUME NEW r \in Row, NEW s \in Signal, SignalAt(r) = s, doubt'[s] # "crossed"
                 PROVE  /\ s \notin Pending' =>
                             /\ r \in ticked' <=> r \in overridden'
                             /\ r \in ticked' /\ doubt'[s] # "dropped" => s \in pins
                        /\ OnlyCleared(s)' /\ s \in pins /\ doubt'[s] \notin {"unsure", "left"}
                           => r \in ticked' /\ r \in overridden'
      BY <1>2, <1>4, <1>5 DEF BoxInv, Free
    <2>1. CASE r = Top.row
      BY <1>8, <2>1 DEF LeftRight
    <2>2. CASE r # Top.row
      <3>1. s # Top.about /\ s # "all"
        BY <1>5, <1>8, <2>2
      <3>2. doubt'[s] = doubt[s]
        BY <1>16, <3>1
      <3>3. /\ s \notin Pending =>
                 /\ r \in ticked <=> r \in overridden
                 /\ r \in ticked /\ doubt[s] # "dropped" => s \in pins
            /\ OnlyCleared(s) /\ s \in pins /\ doubt[s] \notin {"unsure", "left"}
               => r \in ticked /\ r \in overridden
        BY <1>1, <3>2 DEF BoxInv, Free, Alive
      <3>4. ~IsAbout(stack[n], s)
        BY <1>3, <1>5, <1>6, <3>1 DEF IsAbout
      <3>5. \A i \in DOMAIN stack : IsAbout(stack[i], s) => i \in DOMAIN stack'
        BY <1>3, <3>4
      <3>6. s \in Pending => s \in Pending'
        BY <1>7, <3>5 DEF Pending, IsAbout
      <3>7. OnlyCleared(s)' => OnlyCleared(s)
        BY <1>7, <3>5 DEF OnlyCleared, IsAbout
      <3>8. (r \in ticked' <=> r \in ticked) /\ (r \in overridden' <=> r \in overridden)
        BY <1>16, <2>2
      <3> QED BY <3>2, <3>3, <3>6, <3>7, <3>8
    <2> QED BY <2>1, <2>2
  <1> QED BY <1>11, <1>12, <1>13, <1>14 DEF DialogInv

\* The unit said that a signal is pinned, or the box is taken back.
LEMMA ReturnSetSound == DialogInv /\ ReturnSet => DialogInv'
  <1> SUFFICES ASSUME DialogInv, ReturnSet PROVE DialogInv'
    OBVIOUS
  <1>1. TypeOK /\ StackInv /\ CallInv /\ SingleInv
    BY DEF DialogInv
  <1>2. Return("set") /\ Alive /\ UNCHANGED dialog
    BY DEF ReturnSet
  <1>3. /\ Top \in Call /\ Top.kind = "set" /\ Top.state \in {"ok", "failed"}
        /\ stack' \in Seq(Call) /\ UNCHANGED <<selection, linkOpen, pins, silence, crowded>>
    BY <1>1, <1>2, Returned
  <1>4. PICK n \in DOMAIN stack : Top = stack[n]
    BY <1>1, <1>2, Returned
  <1>5. Top.row \in Row /\ Top.about \in Signal
    BY <1>1, <1>3, <1>4 DEF StackInv
  <1>6. doubt \in [Signal -> Doubt] /\ "unsure" \in Doubt
    BY <1>1 DEF TypeOK, Doubt
  <1>7. overridden \union {Top.row} \subseteq Row /\ overridden \ {Top.row} \subseteq Row
    BY <1>1, <1>5 DEF TypeOK
  <1>8. CASE Top.state = "ok"
    <2>1. SetOverridden(overridden \union {Top.row}) /\ UNCHANGED <<ticked, doubt>>
      BY <1>8 DEF ReturnSet
    <2>2. overridden' = overridden \union {Top.row} /\ timer' \in 0 .. TickEvery
      BY <1>1, <1>7, <2>1, Overriding
    <2>3. TypeOK'
      BY <1>1, <1>2, <1>3, <1>7, <2>1, <2>2, Zenon DEF TypeOK
    <2>4. doubt[Top.about] # "crossed" =>
            Top.row \in ticked /\ (Top.about \in pins \/ doubt[Top.about] = "dropped")
      BY <1>1, <1>3, <1>4, <1>5, <1>8 DEF CallInv, Free, IsAbout
    <2>5. OnlyItsRow
      BY <2>1, <2>2 DEF OnlyItsRow
    <2>6. Top.row \in overridden'
      BY <2>2
    <2>7. LeftRight
      BY <1>3, <2>1, <2>4, <2>6 DEF LeftRight
    <2> QED BY <1>2, <2>3, <2>5, <2>7, RowReturns
  <1>9. CASE Top.state # "ok"
    <2>1. /\ ticked' = ticked \ {Top.row} /\ SetOverridden(overridden \ {Top.row})
          /\ doubt' = Mark(doubt, {Top.about}, "unsure")
      BY <1>9 DEF ReturnSet, TakeTickOff
    <2>2. overridden' = overridden \ {Top.row} /\ timer' \in 0 .. TickEvery
      BY <1>1, <1>7, <2>1, Overriding
    <2>3. /\ doubt' \in [Signal -> Doubt]
          /\ \A s \in Signal :
               /\ doubt[s] = "crossed" => doubt'[s] = "crossed"
               /\ s \in {Top.about} /\ doubt[s] # "crossed" => doubt'[s] = "unsure"
               /\ s \notin {Top.about} => doubt'[s] = doubt[s]
      BY <1>6, <2>1, Marked
    <2>4. ticked' \subseteq Row
      BY <1>1, <2>1 DEF TypeOK
    <2>5. TypeOK'
      BY <1>1, <1>2, <1>3, <1>7, <2>2, <2>3, <2>4, Zenon DEF TypeOK
    <2>6. OnlyItsRow
      BY <2>1, <2>2, <2>3 DEF OnlyItsRow
    <2>7. Top.row \notin ticked' /\ Top.row \notin overridden'
      BY <2>1, <2>2
    <2>8. doubt'[Top.about] # "crossed" => doubt'[Top.about] = "unsure"
      BY <1>5, <2>3
    <2>9. LeftRight
      BY <2>7, <2>8 DEF LeftRight
    <2> QED BY <1>2, <2>5, <2>6, <2>9, RowReturns
  <1> QED BY <1>8, <1>9

\* A release returns, heard or not.
LEMMA ReturnReleaseSound == DialogInv /\ ReturnRelease => DialogInv'
  <1> SUFFICES ASSUME DialogInv, ReturnRelease PROVE DialogInv'
    OBVIOUS
  <1>1. TypeOK /\ StackInv /\ CallInv /\ SingleInv
    BY DEF DialogInv
  <1>2. Return("release") /\ Alive /\ UNCHANGED <<dialog, ticked>>
    BY DEF ReturnRelease
  <1>3. /\ Top \in Call /\ Top.kind = "release" /\ Top.state \in {"ok", "failed"}
        /\ stack' \in Seq(Call) /\ UNCHANGED <<selection, linkOpen, pins, silence, crowded>>
    BY <1>1, <1>2, Returned
  <1>4. PICK n \in DOMAIN stack : Top = stack[n]
    BY <1>1, <1>2, Returned
  <1>5. Top.row \in Row /\ Top.about \in Signal
    BY <1>1, <1>3, <1>4 DEF StackInv
  <1>6. doubt \in [Signal -> Doubt] /\ "unsure" \in Doubt
    BY <1>1 DEF TypeOK, Doubt
  <1>7. overridden \ {Top.row} \subseteq Row /\ SetOverridden(overridden \ {Top.row})
    BY <1>1, <1>5 DEF TypeOK, ReturnRelease
  <1>8. overridden' = overridden \ {Top.row} /\ timer' \in 0 .. TickEvery
    BY <1>1, <1>7, Overriding
  <1>9. /\ doubt' \in [Signal -> Doubt]
        /\ \A s \in Signal : /\ doubt'[s] # "crossed" => doubt[s] # "crossed"
                             /\ s # Top.about => doubt'[s] = doubt[s]
        /\ doubt'[Top.about] # "crossed" =>
             (Top.state = "ok" /\ doubt' = doubt) \/ doubt'[Top.about] = "unsure"
    <2>1. CASE Top.state = "ok"
      BY <1>6, <2>1 DEF ReturnRelease
    <2>2. CASE Top.state # "ok"
      <3>1. doubt' = Mark(doubt, {Top.about}, "unsure")
        BY <2>2 DEF ReturnRelease
      <3>2. /\ doubt' \in [Signal -> Doubt]
            /\ \A s \in Signal :
                 /\ doubt[s] = "crossed" => doubt'[s] = "crossed"
                 /\ s \in {Top.about} /\ doubt[s] # "crossed" => doubt'[s] = "unsure"
                 /\ s \notin {Top.about} => doubt'[s] = doubt[s]
        BY <1>6, <3>1, Marked
      <3> QED BY <1>5, <3>2
    <2> QED BY <2>1, <2>2
  <1>10. TypeOK'
    BY <1>1, <1>2, <1>3, <1>7, <1>8, <1>9, Zenon DEF TypeOK
  <1>11. doubt[Top.about] # "crossed" =>
           Top.row \notin ticked /\ (Top.state = "ok" => Top.about \notin pins)
    BY <1>1, <1>3, <1>4, <1>5 DEF CallInv, Free, IsAbout
  <1>12. OnlyItsRow
    BY <1>2, <1>8, <1>9 DEF OnlyItsRow
  <1>13. LeftRight
    <2> SUFFICES ASSUME doubt'[Top.about] # "crossed"
                 PROVE  /\ Top.row \in ticked' <=> Top.row \in overridden'
                        /\ Top.row \in ticked' /\ doubt'[Top.about] # "dropped" =>
                             Top.about \in pins
                        /\ Top.about \in pins /\ doubt'[Top.about] \notin {"unsure", "left"} =>
                             Top.row \in ticked'
      BY DEF LeftRight
    <2>1. Top.row \notin ticked' /\ (Top.state = "ok" => Top.about \notin pins)
      BY <1>2, <1>5, <1>9, <1>11
    <2>2. Top.row \notin overridden'
      BY <1>8
    <2>3. Top.state = "ok" \/ doubt'[Top.about] = "unsure"
      BY <1>9
    <2> QED BY <2>1, <2>2, <2>3
  <1> QED BY <1>2, <1>10, <1>12, <1>13, RowReturns

LEMMA ReturnLeaseSound == DialogInv /\ ReturnLease => DialogInv'
  <1> SUFFICES ASSUME DialogInv, ReturnLease PROVE DialogInv'
    OBVIOUS
  <1>1. TypeOK /\ StackInv
    BY DEF DialogInv
  <1>2. Return("lease") /\ Alive /\ UNCHANGED dialog
    BY DEF ReturnLease
  <1>3. /\ Keeps /\ stack' \in Seq(Call) /\ Top.kind = "lease"
        /\ UNCHANGED <<selection, linkOpen, pins, silence, crowded>>
    BY <1>1, <1>2, Returned
  <1>4. PICK n \in DOMAIN stack : Top = stack[n] /\ DOMAIN stack' = DOMAIN stack \ {n}
    BY <1>1, <1>2, Returned
  <1>5. \A i \in DOMAIN stack : i \notin DOMAIN stack' => stack[i].about = "none"
    BY <1>1, <1>3, <1>4 DEF StackInv
  <1>6. CASE Top.state = "ok"
    <2>1. UNCHANGED <<ticked, overridden, timer, doubt>>
      BY <1>6 DEF ReturnLease
    <2>2. TypeOK'
      BY <1>1, <1>2, <1>3, <2>1, Zenon DEF TypeOK
    <2> DEFINE given == {}
    <2>3. /\ given \subseteq Row /\ ticked' = ticked \ given /\ overridden' = overridden \ given
          /\ dialog # "crashed" /\ dialog' = dialog
          /\ \A s \in Signal : doubt'[s] # "crossed" => doubt[s] # "crossed"
          /\ \A r \in Row : r \notin given /\ doubt'[SignalAt(r)] = doubt[SignalAt(r)]
      BY <1>2, <2>1 DEF Alive
    <2> HIDE DEF given
    <2> QED BY <1>3, <1>5, <2>2, <2>3, GivenUpSound
  <1>7. CASE Top.state # "ok"
    <2>1. LeaseFailed
      BY <1>7 DEF ReturnLease
    <2>2. UNCHANGED <<dialog, selection, linkOpen, unitVars>>
      BY <1>2, <1>3 DEF unitVars
    <2> QED BY <1>1, <1>2, <1>3, <1>5, <2>1, <2>2, RefreshFailedSound
  <1> QED BY <1>6, <1>7

\* Everything was to be cleared: what the unit did not hear of is in doubt.
LEMMA ReturnClearSound == DialogInv /\ ReturnClear => DialogInv'
  <1> SUFFICES ASSUME DialogInv, ReturnClear PROVE DialogInv'
    OBVIOUS
  <1>1. TypeOK /\ StackInv /\ SingleInv /\ CallInv /\ GoneInv /\ ProbeInv /\ BoxInv
    BY DEF DialogInv
  <1>2. Return("clear") /\ Alive /\ dialog' \in {dialog, "gone"}
    BY DEF ReturnClear
  <1>3. /\ Keeps /\ stack' \in Seq(Call) /\ Top.kind = "clear" /\ Top.state \in {"ok", "failed"}
        /\ UNCHANGED <<selection, linkOpen, pins, silence, crowded>>
    BY <1>1, <1>2, Returned
  <1>4. PICK n \in DOMAIN stack : Top = stack[n] /\ DOMAIN stack' = DOMAIN stack \ {n}
    BY <1>1, <1>2, Returned
  <1>5. ticked' = {} /\ overridden' = {} /\ timer' \in 0 .. TickEvery
    <2>1. SetOverridden({}) /\ {} \subseteq Row
      BY DEF UntickAll, ReturnClear
    <2> QED BY <1>1, <2>1, Overriding DEF UntickAll, ReturnClear
  <1>6. doubt \in [Signal -> Doubt] /\ "unsure" \in Doubt
    BY <1>1 DEF TypeOK, Doubt
  <1>7. /\ doubt' \in [Signal -> Doubt]
        /\ \A s \in Signal : doubt'[s] # "crossed" =>
             /\ doubt[s] # "crossed"
             /\ \/ Top.state = "ok"
                \/ doubt'[s] = "unsure"
                \/ doubt'[s] = doubt[s] /\ s \notin SignalsAt(overridden)
    <2>1. CASE Top.state = "ok"
      BY <1>6, <2>1 DEF ReturnClear
    <2>2. CASE Top.state # "ok"
      <3>1. doubt' = Mark(doubt, SignalsAt(overridden), "unsure")
        BY <2>2 DEF ReturnClear
      <3> DEFINE cleared == SignalsAt(overridden)
      <3>2. /\ doubt' \in [Signal -> Doubt]
            /\ \A s \in Signal :
                 /\ doubt[s] = "crossed" => doubt'[s] = "crossed"
                 /\ s \in cleared /\ doubt[s] # "crossed" => doubt'[s] = "unsure"
                 /\ s \notin cleared => doubt'[s] = doubt[s]
        <4> HIDE DEF cleared
        <4>1. doubt' = Mark(doubt, cleared, "unsure")
          BY <3>1 DEF cleared
        <4> QED BY <1>6, <4>1, Marked
      <3> QED BY <3>2
    <2> QED BY <2>1, <2>2
  <1>8. dialog' \in {"gone", "open", "closing", "crashed"}
    BY <1>1, <1>2 DEF TypeOK
  <1>9. TypeOK'
    BY <1>1, <1>3, <1>5, <1>7, <1>8, Zenon DEF TypeOK
  <1>10. \A r : SignalAt(r)' = SignalAt(r)
    BY <1>3 DEF SignalAt
  <1>11. \A r \in Row : SignalAt(r) \in Signal
    BY <1>1, Rows
  <1>12. \A i \in DOMAIN stack' : i \in DOMAIN stack /\ stack'[i] = stack[i] /\ i # n
    BY <1>3, <1>4 DEF Keeps
  <1>13. \A s : IsAbout(stack[n], s)
    BY <1>1, <1>3, <1>4 DEF StackInv, IsAbout
  \* No other call is about a signal that nothing has crossed.
  <1>14. \A s \in Signal : doubt'[s] # "crossed" =>
           \A i \in DOMAIN stack' : ~IsAbout(stack[i], s)
    BY <1>1, <1>7, <1>12, <1>13 DEF SingleInv, Free
  <1>15. StackInv' /\ SingleInv' /\ CallInv'
    <2>1. \A r \in Row, i \in DOMAIN stack' :
            ~(IsAbout(stack[i], SignalAt(r)) /\ doubt'[SignalAt(r)] # "crossed")
      BY <1>11, <1>14
    <2> QED BY <1>3, <1>7, <1>9, <2>1, KeptSound
  <1>16. GoneInv'
    <2>1. dialog' # "crashed"
      BY <1>2 DEF Alive
    <2>2. \A s \in Signal : doubt'[s] # "crossed" =>
            \A i \in DOMAIN stack' : ~IsAbout(stack'[i], s)
      BY <1>12, <1>14
    <2> QED BY <1>5, <2>1, <2>2 DEF GoneInv, Free, IsAbout
  <1>17. ProbeInv'
    <2>1. \A i \in DOMAIN stack : stack[i].kind # "probe"
      BY <1>1, <1>2 DEF ProbeInv, Alive
    <2> QED BY <1>12, <2>1 DEF ProbeInv
  <1>18. BoxInv'
    <2> SUFFICES ASSUME NEW r \in Row, NEW s \in Signal, SignalAt(r) = s, doubt'[s] # "crossed",
                        s \in pins, doubt'[s] \notin {"unsure", "left"}
                 PROVE  FALSE
      BY <1>3, <1>5, <1>10, <1>11 DEF BoxInv, Free
    <2>1. Top.state # "ok"
      BY <1>1, <1>3, <1>4, <1>7, <1>13 DEF CallInv, Free
    <2>2. doubt'[s] = doubt[s] /\ s \notin SignalsAt(overridden)
      BY <1>7, <2>1
    <2>3. OnlyCleared(s)
      BY <1>1, <1>3, <1>4, <1>13, <2>2 DEF SingleInv, Free, OnlyCleared
    <2>4. r \in overridden
      BY <1>1, <1>2, <2>2, <2>3 DEF BoxInv, Free, Alive
    <2> QED BY <2>2, <2>4 DEF SignalsAt
  <1> QED BY <1>9, <1>15, <1>16, <1>17, <1>18 DEF DialogInv

\* The constructor's probe returns, to a stack that holds nothing else.
LEMMA ReturnProbeSound == DialogInv /\ ReturnProbe => DialogInv'
  <1> SUFFICES ASSUME DialogInv, ReturnProbe PROVE DialogInv'
    OBVIOUS
  <1>1. TypeOK /\ StackInv /\ GoneInv /\ ProbeInv /\ BoxInv
    BY DEF DialogInv
  <1>2. Return("probe") /\ dialog' \in {"open", "gone"}
        /\ UNCHANGED <<ticked, overridden, timer, doubt>>
    BY DEF ReturnProbe
  <1>3. /\ Keeps /\ stack' \in Seq(Call) /\ Top.kind = "probe"
        /\ UNCHANGED <<selection, linkOpen, pins, silence, crowded>>
    BY <1>1, <1>2, Returned
  <1>4. PICK n \in DOMAIN stack : Top = stack[n] /\ DOMAIN stack' = DOMAIN stack \ {n}
    BY <1>1, <1>2, Returned
  <1>5. dialog = "gone" /\ DOMAIN stack = {n} /\ stack[n].about = "none"
    BY <1>1, <1>3, <1>4 DEF ProbeInv, StackInv
  <1>6. DOMAIN stack' = {}
    BY <1>4, <1>5
  <1>7. dialog' \in {"gone", "open", "closing", "crashed"}
    BY <1>2
  <1>8. TypeOK'
    BY <1>1, <1>2, <1>3, <1>7, Zenon DEF TypeOK
  <1>9. StackInv' /\ SingleInv' /\ CallInv'
    BY <1>2, <1>3, <1>6, <1>8, KeptSound
  <1>10. ticked = {} /\ overridden = {}
    BY <1>1, <1>5 DEF GoneInv, Alive
  <1>11. GoneInv' /\ ProbeInv'
    BY <1>2, <1>6, <1>10 DEF GoneInv, ProbeInv
  <1>12. BoxInv'
    <2> SUFFICES ASSUME NEW r \in Row, NEW s \in Signal, SignalAt(r) = s, doubt[s] # "crossed"
                 PROVE  /\ r \in ticked <=> r \in overridden
                        /\ r \in ticked /\ doubt[s] # "dropped" => s \in pins
                        /\ s \in pins /\ doubt[s] \notin {"unsure", "left"}
                           => r \in ticked /\ r \in overridden
      <3>1. \A r : SignalAt(r)' = SignalAt(r)
        BY <1>3 DEF SignalAt
      <3>2. \A r \in Row : SignalAt(r) \in Signal
        BY <1>1, Rows
      <3> QED BY <1>2, <1>3, <3>1, <3>2 DEF BoxInv, Free
    <2>1. OnlyCleared(s)
      BY <1>1, <1>5, Rows DEF OnlyCleared, IsAbout
    <2>2. s \in pins /\ doubt[s] \notin {"unsure", "left"} => r \in ticked /\ r \in overridden
      BY <1>1, <1>5, <2>1 DEF BoxInv, Free
    <2> QED BY <1>10, <2>2
  <1> QED BY <1>8, <1>9, <1>11, <1>12 DEF DialogInv

\* A call returns to a dialog that was deleted inside it.
LEMMA ReturnToDeletedSound == DialogInv /\ ReturnToDeleted => DialogInv'
  <1> SUFFICES ASSUME DialogInv, ReturnToDeleted PROVE DialogInv'
    OBVIOUS
  <1>1. TypeOK /\ GoneInv /\ ProbeInv /\ BoxInv
    BY DEF DialogInv
  <1>2. /\ stack # <<>> /\ dialog = "gone"
        /\ UNCHANGED <<selection, ticked, overridden, timer, pins, silence, crowded, doubt>>
    BY DEF ReturnToDeleted, Returning, unitVars
  <1>3. ticked = {} /\ overridden = {}
    BY <1>1, <1>2 DEF GoneInv, Alive
  <1>4. CASE stack' = SubSeq(stack, 1, Len(stack) - 1) /\ UNCHANGED <<dialog, linkOpen>>
    <2>1. /\ stack' \in Seq(Call) /\ DOMAIN stack = 1 .. Len(stack) /\ Len(stack) \in Nat
          /\ Len(stack) > 0 /\ DOMAIN stack' = 1 .. Len(stack) - 1
          /\ \A i \in 1 .. Len(stack) - 1 : stack'[i] = stack[i]
      BY <1>1, <1>2, <1>4, Popped
    <2>2. Keeps
      <3>1. 1 .. Len(stack) - 1 \subseteq 1 .. Len(stack)
        BY <2>1
      <3> QED BY <2>1, <3>1 DEF Keeps
    <2>3. TypeOK'
      BY <1>1, <1>2, <1>4, <2>1, Zenon DEF TypeOK
    <2>4. StackInv' /\ SingleInv' /\ CallInv'
      BY <1>2, <2>2, <2>3, KeptSound
    <2>5. \A i \in DOMAIN stack' : i \in DOMAIN stack /\ stack'[i] = stack[i]
      BY <2>2 DEF Keeps
    \* What was left on the stack was crossed.
    <2>6. \A s \in Signal : doubt[s] # "crossed" =>
            \A i \in DOMAIN stack : ~IsAbout(stack[i], s)
      BY <1>1, <1>2 DEF GoneInv, Free
    <2>7. GoneInv'
      BY <1>2, <1>3, <1>4, <2>5, <2>6 DEF GoneInv, Free, IsAbout
    <2>8. ProbeInv'
      <3> SUFFICES ASSUME NEW i \in DOMAIN stack', stack'[i].kind = "probe"
                   PROVE  dialog' = "gone" /\ DOMAIN stack' = {i}
        BY DEF ProbeInv
      <3>1. DOMAIN stack = {i}
        BY <1>1, <2>5 DEF ProbeInv
      <3> QED BY <1>2, <1>4, <2>5, <3>1
    <2>9. BoxInv'
      <3> SUFFICES ASSUME NEW r \in Row, NEW s \in Signal, SignalAt(r) = s,
                          doubt[s] # "crossed"
                   PROVE  /\ r \in ticked <=> r \in overridden
                          /\ r \in ticked /\ doubt[s] # "dropped" => s \in pins
                          /\ s \in pins /\ doubt[s] \notin {"unsure", "left"}
                             => r \in ticked /\ r \in overridden
        <4>1. \A r : SignalAt(r)' = SignalAt(r)
          BY <1>2 DEF SignalAt
        <4>2. \A r \in Row : SignalAt(r) \in Signal
          BY <1>1, Rows
        <4> QED BY <1>2, <4>1, <4>2 DEF BoxInv, Free
      <3>1. OnlyCleared(s)
        BY <2>6 DEF OnlyCleared
      <3>2. s \in pins /\ doubt[s] \notin {"unsure", "left"} => r \in ticked /\ r \in overridden
        BY <1>1, <1>2, <3>1 DEF BoxInv, Free
      <3> QED BY <1>3, <3>2
    <2> QED BY <2>3, <2>4, <2>7, <2>8, <2>9 DEF DialogInv
  <1>5. CASE stack' = <<>> /\ dialog' = "crashed" /\ linkOpen' = FALSE
    <2>1. stack' \in Seq(Call) /\ DOMAIN stack' = {}
      BY <1>5, EmptySeq
    <2>2. dialog' \in {"gone", "open", "closing", "crashed"} /\ linkOpen' \in BOOLEAN
      BY <1>5
    <2>3. TypeOK'
      BY <1>1, <1>2, <2>1, <2>2, Zenon DEF TypeOK
    <2>4. Keeps
      BY <2>1 DEF Keeps
    <2>5. StackInv' /\ SingleInv' /\ CallInv'
      BY <1>2, <2>1, <2>3, <2>4, KeptSound
    <2>6. GoneInv' /\ ProbeInv'
      BY <1>2, <1>3, <1>5, <2>1 DEF GoneInv, ProbeInv
    <2>7. BoxInv'
      <3> SUFFICES ASSUME NEW r \in Row, NEW s \in Signal, SignalAt(r) = s, s \in pins,
                          doubt[s] # "crossed", doubt[s] \notin {"unsure", "left"}
                   PROVE  FALSE
        <4>1. \A r : SignalAt(r)' = SignalAt(r)
          BY <1>2 DEF SignalAt
        <4>2. \A r \in Row : SignalAt(r) \in Signal
          BY <1>1, Rows
        <4> QED BY <1>2, <1>3, <4>1, <4>2 DEF BoxInv, Free
      <3>1. OnlyCleared(s)
        BY <1>1, <1>2 DEF GoneInv, Free, OnlyCleared
      <3>2. r \in ticked
        BY <1>1, <3>1 DEF BoxInv, Free
      <3> QED BY <1>3, <3>2
    <2> QED BY <2>3, <2>5, <2>6, <2>7 DEF DialogInv
  <1> QED BY <1>4, <1>5 DEF ReturnToDeleted

\* The Manager takes its boxes with it; what they or its calls may have pinned
\* is left behind.
LEMMA ManagerCrashesSound == DialogInv /\ ManagerCrashes => DialogInv'
  <1> SUFFICES ASSUME DialogInv, ManagerCrashes PROVE DialogInv'
    OBVIOUS
  <1>1. TypeOK /\ BoxInv
    BY DEF DialogInv
  <1> DEFINE lost == SignalsAt(overridden) \union Pending
  <1>2. /\ stack' = <<>> /\ dialog' = "crashed" /\ linkOpen' = FALSE
        /\ doubt' = Mark(doubt, lost, "left")
        /\ UNCHANGED <<selection, pins, silence, crowded>>
    BY DEF ManagerCrashes, unitVars
  <1>3. ticked' = {} /\ overridden' = {} /\ timer' \in 0 .. TickEvery
    <2>1. SetOverridden({}) /\ {} \subseteq Row
      BY DEF UntickAll, ManagerCrashes
    <2> QED BY <1>1, <2>1, Overriding DEF UntickAll, ManagerCrashes
  <1>4. \A s \in Signal : s \notin lost => s \notin SignalsAt(overridden) /\ s \notin Pending
    OBVIOUS
  <1> HIDE DEF lost
  <1>5. stack' \in Seq(Call) /\ DOMAIN stack' = {}
    BY <1>2, EmptySeq
  <1>6. dialog' \in {"gone", "open", "closing", "crashed"} /\ linkOpen' \in BOOLEAN
    BY <1>2
  <1>7. doubt \in [Signal -> Doubt] /\ "left" \in Doubt
    BY <1>1 DEF TypeOK, Doubt
  <1>8. /\ doubt' \in [Signal -> Doubt]
        /\ \A s \in Signal : /\ doubt[s] = "crossed" => doubt'[s] = "crossed"
                             /\ s \in lost /\ doubt[s] # "crossed" => doubt'[s] = "left"
                             /\ s \notin lost => doubt'[s] = doubt[s]
    BY <1>2, <1>7, Marked
  <1>9. TypeOK'
    BY <1>1, <1>2, <1>3, <1>5, <1>6, <1>8, Zenon DEF TypeOK
  <1>10. StackInv' /\ SingleInv' /\ CallInv'
    BY <1>5 DEF StackInv, SingleInv, CallInv
  <1>11. GoneInv' /\ ProbeInv'
    BY <1>2, <1>3, <1>5 DEF GoneInv, ProbeInv
  <1>12. BoxInv'
    <2> SUFFICES ASSUME NEW r \in Row, NEW s \in Signal, SignalAt(r) = s, s \in pins,
                        doubt'[s] # "crossed", doubt'[s] \notin {"unsure", "left"}
                 PROVE  FALSE
      <3>1. \A r : SignalAt(r)' = SignalAt(r)
        BY <1>2 DEF SignalAt
      <3>2. \A r \in Row : SignalAt(r) \in Signal
        BY <1>1, Rows
      <3> QED BY <1>2, <1>3, <3>1, <3>2 DEF BoxInv, Free
    <2>1. doubt'[s] = doubt[s] /\ s \notin SignalsAt(overridden) /\ s \notin Pending
      BY <1>4, <1>8
    <2>2. OnlyCleared(s)
      BY <1>1, <2>1, StackFacts DEF OnlyCleared
    <2>3. r \in overridden
      BY <1>1, <2>1, <2>2 DEF BoxInv, Free
    <2> QED BY <2>1, <2>3 DEF SignalsAt
  <1> QED BY <1>9, <1>10, <1>11, <1>12 DEF DialogInv

LEMMA ManagerStartsSound == DialogInv /\ ManagerStarts => DialogInv'
  <1> SUFFICES ASSUME DialogInv, ManagerStarts PROVE DialogInv'
    OBVIOUS
  <1>1. TypeOK /\ StackInv /\ SingleInv /\ CallInv /\ GoneInv /\ ProbeInv /\ BoxInv
    BY DEF DialogInv
  <1>2. /\ dialog = "crashed" /\ dialog' = "gone"
        /\ UNCHANGED <<selection, ticked, overridden, timer, stack, linkOpen,
                       pins, silence, crowded, doubt>>
    BY DEF ManagerStarts, unitVars
  <1>3. stack = <<>> /\ DOMAIN stack = {}
    BY <1>1, <1>2, EmptySeq DEF GoneInv
  <1>4. dialog' \in {"gone", "open", "closing", "crashed"}
    BY <1>2
  <1>5. TypeOK'
    BY <1>1, <1>2, <1>4, Zenon DEF TypeOK
  <1>6. \A r : SignalAt(r)' = SignalAt(r)
    BY <1>2 DEF SignalAt
  <1>7. StackInv' /\ SingleInv' /\ CallInv'
    BY <1>2, <1>3 DEF StackInv, SingleInv, CallInv
  <1>8. GoneInv' /\ ProbeInv'
    BY <1>1, <1>2, <1>3 DEF GoneInv, ProbeInv, Alive
  <1>9. BoxInv'
    <2>1. Pending' = Pending /\ \A s : OnlyCleared(s)' <=> OnlyCleared(s)
      BY <1>2 DEF Pending, OnlyCleared, IsAbout
    <2> QED BY <1>1, <1>2, <1>6, <2>1 DEF BoxInv, Free
  <1> QED BY <1>5, <1>7, <1>8, <1>9 DEF DialogInv

\* The rows are laid out anew: the boxes go with their signals, and a call in
\* flight, whose row does not, is crossed with both.
LEMMA SelectSound ==
    ASSUME DialogInv, NEW sel \in Selections, Select(sel)
    PROVE  DialogInv'
  <1>1. TypeOK /\ StackInv /\ SingleInv /\ GoneInv /\ ProbeInv /\ BoxInv
    BY DEF DialogInv
  <1>2. /\ Alive /\ selection' = sel /\ ticked' = CarriedRows(sel)
        /\ UNCHANGED <<dialog, stack, linkOpen, pins, silence, crowded>>
    BY DEF Select, unitVars
  <1>3. CarriedRows(sel) \subseteq Row
    BY DEF CarriedRows
  <1>4. overridden' = CarriedRows(sel) /\ timer' \in 0 .. TickEvery
    BY <1>1, <1>3, Overriding DEF Select
  <1> DEFINE moved == {Layout(sel)[stack[i].row] :
                          i \in {j \in DOMAIN stack : stack[j].row \in Row}}
             struck == Pending \union moved
  <1>5. doubt' = Mark(doubt, struck, "crossed")
    BY DEF Select
  <1>6. doubt \in [Signal -> Doubt] /\ "crossed" \in Doubt
    BY <1>1 DEF TypeOK, Doubt
  <1>7. \A i \in DOMAIN stack : stack[i].row \in Row => Layout(sel)[stack[i].row] \in struck
    OBVIOUS
  <1>8. \A s \in Pending : s \in struck
    OBVIOUS
  <1> HIDE DEF moved, struck
  <1>9. /\ doubt' \in [Signal -> Doubt]
        /\ \A s \in Signal : /\ doubt[s] = "crossed" => doubt'[s] = "crossed"
                             /\ s \in struck => doubt'[s] = "crossed"
                             /\ s \notin struck => doubt'[s] = doubt[s]
    BY <1>5, <1>6, Marked
  <1>10. TypeOK'
    BY <1>1, <1>2, <1>3, <1>4, <1>9, Zenon DEF TypeOK
  <1>11. \A r : SignalAt(r)' = Layout(sel)[r]
    BY <1>2 DEF SignalAt
  <1>12. /\ \A r \in Row : Layout(sel)[r] \in Signal
         /\ \A s \in Signal : \E r \in Row : SignalAt(r) = s
         /\ \A r1, r2 \in Row : SignalAt(r1) = SignalAt(r2) => r1 = r2
    BY <1>1, Rows, OverrideConstants DEF OverrideConstants
  <1>13. /\ \A s \in Signal : doubt'[s] # "crossed" => doubt'[s] = doubt[s] /\ s \notin Pending
         /\ \A s \in Signal : s \in Pending <=> \E i \in DOMAIN stack : IsAbout(stack[i], s)
    BY <1>1, <1>8, <1>9, StackFacts
  <1>14. Pending' = Pending
    BY <1>2 DEF Pending
  <1>15. StackInv'
    <2> SUFFICES ASSUME NEW i \in DOMAIN stack
                 PROVE  /\ stack[i].kind \in {"set", "release"} =>
                             /\ stack[i].row \in Row /\ stack[i].about \in Signal
                             /\ doubt'[stack[i].about] = "crossed"
                             /\ doubt'[Layout(sel)[stack[i].row]] = "crossed"
                        /\ stack[i].kind = "clear" => stack[i].about = "all"
                        /\ stack[i].kind \in {"probe", "lease"} => stack[i].about = "none"
      BY <1>2, <1>11 DEF StackInv, Free
    <2>1. stack[i].kind \in {"set", "release"} =>
            /\ stack[i].row \in Row /\ stack[i].about \in Signal
            /\ stack[i].about \in Pending
      BY <1>1, <1>13 DEF StackInv, IsAbout
    <2>2. stack[i].kind \in {"set", "release"} =>
            /\ doubt'[stack[i].about] = "crossed"
            /\ doubt'[Layout(sel)[stack[i].row]] = "crossed"
      BY <1>7, <1>8, <1>9, <1>12, <2>1
    <2> QED BY <1>1, <2>1, <2>2 DEF StackInv
  <1>16. SingleInv' /\ CallInv'
    <2>1. \A s \in Signal : doubt'[s] # "crossed" =>
            \A i \in DOMAIN stack' : ~IsAbout(stack'[i], s)
      BY <1>2, <1>13
    <2> QED BY <2>1 DEF SingleInv, CallInv, Free, IsAbout
  <1>17. GoneInv'
    BY <1>2 DEF GoneInv, Alive
  <1>18. ProbeInv'
    BY <1>1, <1>2 DEF ProbeInv
  <1>19. BoxInv'
    <2> SUFFICES ASSUME NEW r \in Row, NEW s \in Signal, Layout(sel)[r] = s, doubt'[s] # "crossed"
                 PROVE  /\ r \in ticked' <=> r \in overridden'
                        /\ r \in ticked' /\ doubt'[s] # "dropped" => s \in pins
                        /\ s \in pins /\ doubt'[s] \notin {"unsure", "left"} =>
                             r \in ticked' /\ r \in overridden'
      BY <1>2, <1>11, <1>12 DEF BoxInv, Free
    <2>1. PICK r0 \in Row : SignalAt(r0) = s
      BY <1>12
    <2>2. doubt'[s] = doubt[s] /\ s \notin Pending
      BY <1>13
    <2>3. OnlyCleared(s)
      BY <1>13, <2>2 DEF OnlyCleared
    <2>4. /\ r0 \in ticked <=> r0 \in overridden
          /\ r0 \in ticked /\ doubt[s] # "dropped" => s \in pins
          /\ s \in pins /\ doubt[s] \notin {"unsure", "left"} => r0 \in overridden
      BY <1>1, <1>2, <2>1, <2>2, <2>3 DEF BoxInv, Free, Alive
    <2>5. r \in CarriedRows(sel) <=> s \in SignalsAt(overridden)
      BY DEF CarriedRows
    <2>6. s \in SignalsAt(overridden) <=> r0 \in overridden
      <3>1. overridden \subseteq Row
        BY <1>1 DEF TypeOK
      <3> QED BY <1>12, <2>1, <3>1 DEF SignalsAt
    <2> QED BY <1>2, <1>4, <2>2, <2>4, <2>5, <2>6
  <1> QED BY <1>10, <1>15, <1>16, <1>17, <1>18, <1>19 DEF DialogInv

-----------------------------------------------------------------------------
(* The invariant holds *)

LEMMA DialogStarts == Init => DialogInv
  <1> SUFFICES ASSUME Init PROVE DialogInv
    OBVIOUS
  <1>1. /\ dialog = "gone" /\ selection \in Selections /\ ticked = {} /\ overridden = {}
        /\ timer = 0 /\ stack = <<>> /\ linkOpen = TRUE /\ pins = {}
        /\ silence = 0 /\ crowded = 0
        /\ doubt = [s \in Signal |-> "none"]
    BY DEF Init
  <1>2. TypeOK
    <2>1. /\ timer \in 0 .. TickEvery /\ silence \in 0 .. LeaseFor - 1
          /\ crowded \in 0 .. silence
      BY <1>1, OverrideConstants DEF OverrideConstants
    <2>2. stack \in Seq(Call)
      BY <1>1, EmptySeq
    <2>3. doubt \in [Signal -> Doubt]
      BY <1>1 DEF Doubt
    <2>4. /\ dialog \in {"gone", "open", "closing", "crashed"} /\ linkOpen \in BOOLEAN
          /\ ticked \subseteq Row /\ overridden \subseteq Row /\ pins \subseteq Signal
      BY <1>1
    <2> QED BY <1>1, <2>1, <2>2, <2>3, <2>4, Zenon DEF TypeOK
  <1>3. DOMAIN stack = {}
    BY <1>1, EmptySeq
  <1> QED BY <1>1, <1>2, <1>3
          DEF DialogInv, StackInv, SingleInv, CallInv, GoneInv, ProbeInv, BoxInv

LEMMA DialogSteps == DialogInv /\ [Next]_vars => DialogInv'
  <1> SUFFICES ASSUME DialogInv, [Next]_vars PROVE DialogInv'
    OBVIOUS
  <1>1. CASE Open \/ ClearAll \/ Close \/ Reject \/ LeaseTick
    BY <1>1, OpenSound, ClearAllSound, CloseSound, RejectSound, LeaseTickSound
  <1>2. CASE \E row \in Row : SendOverride(row) \/ Untick(row)
    BY <1>2, SendOverrideSound, UntickSound
  <1>3. CASE \E sel \in Selections : Select(sel)
    BY <1>3, SelectSound
  <1>4. CASE Returns
    BY <1>4, ReturnProbeSound, ReturnSetSound, ReturnReleaseSound, ReturnLeaseSound,
       ReturnClearSound, ReturnToDeletedSound DEF Returns
  <1>5. CASE ManagerCrashes \/ ManagerStarts \/ Answer
    BY <1>5, ManagerCrashesSound, ManagerStartsSound, AnswerSound
  <1>6. CASE PassTime
    BY <1>6, PassIdleSound, PassCrowdedSound, PassUnansweredSound DEF PassTime
  <1>7. CASE UnitRestarts \/ Disconnect \/ Connect
    BY <1>7, UnitRestartsSound, DisconnectSound, ConnectSound
  <1>8. CASE UNCHANGED vars
    <2>1. UNCHANGED <<dialogVars, unitVars, doubt>> /\ stack' = stack /\ linkOpen' = linkOpen
      BY <1>8 DEF vars
    <2>2. stack' \in Seq(Call) /\ linkOpen' \in BOOLEAN
      BY <2>1 DEF DialogInv, TypeOK
    <2>3. SameCalls
      BY <2>1 DEF SameCalls
    <2> QED BY <2>1, <2>2, <2>3, PortSound
  <1> QED BY <1>1, <1>2, <1>3, <1>4, <1>5, <1>6, <1>7, <1>8 DEF Next

LEMMA DialogHolds == Spec => []DialogInv
  <1> QED BY DialogStarts, DialogSteps, PTL DEF Spec

\* Every variable of the dialog and of the unit keeps to its type, however
\* deep the calls nest.
THEOREM TypeCorrect == Spec => []TypeOK
  <1>1. DialogInv => TypeOK
    BY DEF DialogInv
  <1> QED BY <1>1, DialogHolds, PTL

\* Between calls about a signal its box says what m_overriddenRows does,
\* whatever was called, answered, lost or selected before.
THEOREM BoxesAndRowsAgree == Spec => []BoxesAgree
  <1>1. DialogInv => BoxesAgree
    <2> SUFFICES ASSUME DialogInv, NEW row \in Row, Settled(row)
                 PROVE  row \in ticked <=> row \in overridden
      BY DEF BoxesAgree
    <2> QED BY DEF DialogInv, BoxInv, Settled, Free
  <1> QED BY <1>1, DialogHolds, PTL

\* No pin drives the unit behind an empty box, unless a call about it got no
\* answer or was crossed by another, or a dialog that ended by Esc, or with the
\* Manager, left it behind and a later one's probe keeps it.
THEOREM PinsAreShown == Spec => []NoHiddenPin
  <1>1. DialogInv => NoHiddenPin
    <2> SUFFICES ASSUME DialogInv, Alive, NEW row \in Row, Settled(row),
                        SignalAt(row) \in pins, doubt[SignalAt(row)] \notin {"unsure", "left"}
                 PROVE  row \in ticked \intersect overridden
      BY DEF NoHiddenPin
    <2>1. SignalAt(row) \in Signal
      BY Rows DEF DialogInv
    <2>2. OnlyCleared(SignalAt(row))
      BY <2>1, StackFacts DEF DialogInv, Settled, OnlyCleared
    <2> QED BY <2>2 DEF DialogInv, BoxInv, Settled, Free, Alive
  <1> QED BY <1>1, DialogHolds, PTL

\* No box claims a pin that the unit never took, unless the unit dropped it or
\* two calls crossed.
THEOREM BoxesAreFilled == Spec => []NoEmptyBox
  <1>1. DialogInv => NoEmptyBox
    <2> SUFFICES ASSUME DialogInv, NEW row \in ticked, Settled(row),
                        doubt[SignalAt(row)] # "dropped"
                 PROVE  SignalAt(row) \in pins
      BY DEF NoEmptyBox
    <2>1. row \in Row
      BY DEF DialogInv, TypeOK
    <2> QED BY <2>1 DEF DialogInv, BoxInv, Settled, Free
  <1> QED BY <1>1, DialogHolds, PTL
=============================================================================
