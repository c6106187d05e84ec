------------------------- MODULE PackageInstallProofs -------------------------
(***************************************************************************)
(* What an install commits, tells and leaves alone, for any packages, any  *)
(* access functions and any number of installs and restarts.               *)
(***************************************************************************)
EXTENDS PackageInstall, Integers, SequenceTheorems, TLAPS

(* The plans *)

CmdName == {"begin", "probe", "key", "clear", "write", "save", "end", "prove", "access"}
StepSet == [cmd : CmdName, key : Key \union {"none"}]

SaveAt == IF package.sealed THEN Len(Plan) - 1 ELSE Len(Plan)

\* What the proofs use of a plan.
PlanIsBuilt ==
    /\ Plan \in Seq(StepSet) /\ Len(Plan) \in Nat /\ DOMAIN Plan = 1 .. Len(Plan)
    /\ SaveAt \in 3 .. Len(Plan)
    /\ Cmd(SaveAt) = "save" /\ Cmd(SaveAt - 1) = "write"
    /\ \A i \in DOMAIN Plan : /\ Cmd(i) = "save" => i = SaveAt
                              /\ Cmd(i) = "write" => i = SaveAt - 1
                              /\ Cmd(i) = "key" => i < SaveAt /\ Plan[i].key \in Sets(package)
    /\ \A k \in Sets(package) : \E i \in DOMAIN Plan : Plan[i] = Step("key", k)

SealedIsBuilt ==
    package.sealed =>
        /\ Cmd(1) = "begin" /\ Cmd(Len(Plan)) = "end" /\ Len(Plan) > 4
        /\ \A i \in DOMAIN Plan : /\ Cmd(i) = "begin" => i = 1
                                  /\ Cmd(i) = "end" => i = Len(Plan)
        /\ package.probes => Cmd(2) = "probe"

-----------------------------------------------------------------------------
(* The invariant *)

\* Of the steps only the one in flight is on the line, and a sealed session that
\* has taken it expects the next one.
LineInv ==
    /\ line \subseteq {index}
    /\ package.sealed => /\ session \in {0, index, index + 1}
                         /\ "ok" \in replies => session # index
                         /\ 1 \in line => keys = before.keys

\* What a sealed session has taken, the unit holds: it outlives no restart.
SessionInv ==
    package.sealed /\ session > 0 =>
        /\ \A j \in 1 .. session - 1 : Cmd(j) = "key" => keys[Plan[j].key] = package.name
        /\ session = SaveAt => conf = package.name
        /\ \A k \in Key \ Sets(package) : keys[k] = before.keys[k]

\* What an opened package has set, without a restart, and when it goes on.
OpenedInv ==
    ~package.sealed /\ ~disturbed =>
        /\ ~failed => \A j \in 1 .. index - 1 : Cmd(j) = "key" => keys[Plan[j].key] = package.name
        /\ "ok" \in replies /\ Cmd(index) = "key" => keys[Plan[index].key] = package.name
        /\ failed => Cmd(index) = "key"
        /\ index = SaveAt => conf = package.name
        /\ "ok" \in replies /\ Cmd(index) = "write" => conf = package.name

SaveTaken == index > SaveAt \/ (index = SaveAt /\ "ok" \in replies)

\* Once the save has been taken the flash holds the package.
SavedInv ==
    SaveTaken /\ (package.sealed \/ ~disturbed) =>
        /\ flashConf = package.name /\ Committed
        /\ package.sealed => \A k \in Key \ Sets(package) : flashKeys[k] = before.keys[k]

SaidInv == said = "installed" => ~busy /\ index = Len(Plan) /\ "ok" \in replies

\* A unit that lacks the probe is never past it.
OldInv ==
    kind.old /\ package.sealed /\ package.probes /\ installs > 0 /\ ~disturbed =>
        index <= 2 /\ (index = 2 => "ok" \notin replies) /\ Unit = before

InstallInv ==
    TypeOK /\ LineInv /\ SessionInv /\ OpenedInv /\ SavedInv /\ SaidInv /\ OldInv

-----------------------------------------------------------------------------
(* How plans are put together *)

LEMMA Joined ==
    ASSUME NEW s \in Seq(StepSet), NEW t \in Seq(StepSet)
    PROVE  /\ s \o t \in Seq(StepSet) /\ Len(s) \in Nat /\ Len(t) \in Nat
           /\ Len(s \o t) = Len(s) + Len(t)
           /\ \A i \in 1 .. Len(s) : (s \o t)[i] = s[i]
           /\ \A i \in 1 .. Len(t) : (s \o t)[Len(s) + i] = t[i]
  <1>1. /\ s \o t \in Seq(StepSet) /\ Len(s) \in Nat /\ Len(t) \in Nat
        /\ Len(s \o t) = Len(s) + Len(t)
        /\ \A i \in 1 .. Len(s) + Len(t) : (s \o t)[i] = IF i <= Len(s) THEN s[i] ELSE t[i - Len(s)]
    BY ConcatProperties, LenProperties
  <1>2. ASSUME NEW i \in 1 .. Len(s) PROVE (s \o t)[i] = s[i]
    <2>1. i \in 1 .. Len(s) + Len(t) /\ i <= Len(s)
      BY <1>1
    <2> QED BY <1>1, <2>1
  <1>3. ASSUME NEW i \in 1 .. Len(t) PROVE (s \o t)[Len(s) + i] = t[i]
    <2>1. /\ Len(s) + i \in 1 .. Len(s) + Len(t) /\ ~(Len(s) + i <= Len(s))
          /\ Len(s) + i - Len(s) = i
      BY <1>1
    <2> QED BY <1>1, <2>1
  <1> QED BY <1>1, <1>2, <1>3

LEMMA Alone ==
    ASSUME NEW cmd \in CmdName
    PROVE  Plain(cmd) \in Seq(StepSet) /\ Len(Plain(cmd)) = 1 /\ Plain(cmd)[1] = Step(cmd, "none")
  <1>1. Step(cmd, "none") \in StepSet
    BY DEF Step, StepSet
  <1> QED BY <1>1 DEF Plain

\* A configuration behind any steps.
LEMMA Configured ==
    ASSUME NEW s \in Seq(StepSet)
    PROVE  LET t == s \o Configuration
           IN  /\ t \in Seq(StepSet) /\ Len(s) \in Nat /\ Len(t) = Len(s) + 3
               /\ \A i \in 1 .. Len(s) : t[i] = s[i]
               /\ t[Len(s) + 1] = Step("clear", "none")
               /\ t[Len(s) + 2] = Step("write", "none")
               /\ t[Len(s) + 3] = Step("save", "none")
  <1> DEFINE c == Plain("clear")  w == Plain("write")  v == Plain("save")
  <1>1. /\ c \in Seq(StepSet) /\ Len(c) = 1 /\ c[1] = Step("clear", "none")
        /\ w \in Seq(StepSet) /\ Len(w) = 1 /\ w[1] = Step("write", "none")
        /\ v \in Seq(StepSet) /\ Len(v) = 1 /\ v[1] = Step("save", "none")
    BY Alone DEF CmdName
  <1> HIDE DEF c, w, v
  <1> DEFINE cw == c \o w
  <1>2. /\ cw \in Seq(StepSet) /\ Len(cw) = 2
        /\ cw[1] = Step("clear", "none") /\ cw[2] = Step("write", "none")
    <2>1. /\ cw \in Seq(StepSet) /\ Len(cw) = Len(c) + Len(w)
          /\ \A i \in 1 .. Len(c) : cw[i] = c[i]
          /\ \A i \in 1 .. Len(w) : cw[Len(c) + i] = w[i]
      BY <1>1, Joined
    <2> HIDE DEF cw
    <2> QED BY <1>1, <2>1
  <1> HIDE DEF cw
  <1> DEFINE k == cw \o v
  <1>3. /\ k \in Seq(StepSet) /\ Len(k) = 3
        /\ k[1] = Step("clear", "none") /\ k[2] = Step("write", "none")
        /\ k[3] = Step("save", "none")
    <2>1. /\ k \in Seq(StepSet) /\ Len(k) = Len(cw) + Len(v)
          /\ \A i \in 1 .. Len(cw) : k[i] = cw[i]
          /\ \A i \in 1 .. Len(v) : k[Len(cw) + i] = v[i]
      BY <1>1, <1>2, Joined
    <2> HIDE DEF k
    <2> QED BY <1>1, <1>2, <2>1
  <1>4. Configuration = k
    BY DEF Configuration, k, cw, c, w, v
  <1> HIDE DEF k
  <1> DEFINE t == s \o k
  <1>5. /\ t \in Seq(StepSet) /\ Len(s) \in Nat /\ Len(t) = Len(s) + Len(k)
        /\ \A i \in 1 .. Len(s) : t[i] = s[i]
        /\ \A i \in 1 .. Len(k) : t[Len(s) + i] = k[i]
    BY <1>3, Joined
  <1> HIDE DEF t
  <1>6. /\ t \in Seq(StepSet) /\ Len(s) \in Nat /\ Len(t) = Len(s) + 3
        /\ \A i \in 1 .. Len(s) : t[i] = s[i]
        /\ t[Len(s) + 1] = k[1] /\ t[Len(s) + 2] = k[2] /\ t[Len(s) + 3] = k[3]
    BY <1>3, <1>5
  <1> QED BY <1>3, <1>4, <1>6 DEF t

\* What leads a plan: other commands, and the package's passwords.
Lead(s, p) ==
    /\ s \in Seq(StepSet) /\ Len(s) \in Nat
    /\ \A i \in 1 .. Len(s) :
         /\ s[i].cmd \in {"probe", "key", "prove", "access"}
         /\ s[i].cmd = "key" => s[i].key \in Sets(p)
    /\ \A k \in Sets(p) : \E i \in 1 .. Len(s) : s[i] = Step("key", k)

LEMMA Passwords ==
    ASSUME NEW p \in Packages
    PROVE  Lead(PasswordFrames(p), p)
  <1>1. p.sets \in Seq(Key)
    BY PackageConstants DEF PackageConstants, Package
  <1>2. Len(p.sets) \in Nat /\ DOMAIN p.sets = 1 .. Len(p.sets)
        /\ \A i \in 1 .. Len(p.sets) : p.sets[i] \in Key
    BY <1>1, LenProperties, ElementOfSeq
  <1> DEFINE s == PasswordFrames(p)
  <1>3. s = [i \in 1 .. Len(p.sets) |-> Step("key", p.sets[i])]
    BY <1>2 DEF PasswordFrames
  <1>4. \A i \in 1 .. Len(p.sets) : Step("key", p.sets[i]) \in StepSet
    BY <1>2 DEF Step, StepSet, CmdName
  <1>5. s \in Seq(StepSet) /\ Len(s) = Len(p.sets)
    BY <1>2, <1>3, <1>4
  <1>6. \A i \in 1 .. Len(s) : s[i] = Step("key", p.sets[i]) /\ p.sets[i] \in Sets(p)
    BY <1>2, <1>3, <1>5 DEF Sets
  <1>7. \A k \in Sets(p) : \E i \in 1 .. Len(s) : s[i] = Step("key", k)
    BY <1>2, <1>5, <1>6 DEF Sets
  <1> HIDE DEF s
  <1>8. ASSUME NEW i \in 1 .. Len(s) PROVE s[i].cmd = "key" /\ s[i].key \in Sets(p)
    <2>1. s[i] = [cmd |-> "key", key |-> p.sets[i]] /\ p.sets[i] \in Sets(p)
      BY <1>6 DEF Step
    <2> QED BY <2>1
  <1> SUFFICES Lead(s, p)
    BY DEF s
  <1> QED BY <1>2, <1>5, <1>7, <1>8 DEF Lead

\* A command ahead of the passwords,
LEMMA LedBy ==
    ASSUME NEW p \in Packages, NEW s, Lead(s, p), NEW cmd \in {"probe", "prove"}
    PROVE  /\ Lead(Plain(cmd) \o s, p) /\ Len(Plain(cmd) \o s) = 1 + Len(s)
           /\ (Plain(cmd) \o s)[1] = Step(cmd, "none")
  <1> DEFINE a == Plain(cmd)  t == a \o s
  <1>1. a \in Seq(StepSet) /\ Len(a) = 1 /\ a[1] = Step(cmd, "none")
    BY Alone DEF CmdName
  <1> HIDE DEF a
  <1>2. s \in Seq(StepSet) /\ Len(s) \in Nat
    BY DEF Lead
  <1>3. /\ t \in Seq(StepSet) /\ Len(t) = Len(a) + Len(s)
        /\ \A i \in 1 .. Len(a) : t[i] = a[i]
        /\ \A i \in 1 .. Len(s) : t[Len(a) + i] = s[i]
    BY <1>1, <1>2, Joined
  <1> HIDE DEF t
  <1>4. t \in Seq(StepSet) /\ Len(t) = 1 + Len(s) /\ t[1] = Step(cmd, "none")
        /\ \A i \in 1 .. Len(s) : t[1 + i] = s[i]
    BY <1>1, <1>2, <1>3
  <1>5. ASSUME NEW i \in 1 .. Len(t)
        PROVE  t[i].cmd \in {"probe", "key", "prove", "access"}
               /\ (t[i].cmd = "key" => t[i].key \in Sets(p))
    <2>1. CASE i = 1
      BY <1>4, <2>1 DEF Step
    <2>2. CASE i # 1
      <3>1. i - 1 \in 1 .. Len(s) /\ i = 1 + (i - 1)
        BY <1>2, <1>4, <2>2
      <3>2. t[i] = s[i - 1]
        BY <1>4, <3>1
      <3> QED BY <3>1, <3>2 DEF Lead
    <2> QED BY <2>1, <2>2
  <1>6. ASSUME NEW k \in Sets(p) PROVE \E i \in 1 .. Len(t) : t[i] = Step("key", k)
    <2>1. PICK i \in 1 .. Len(s) : s[i] = Step("key", k)
      BY DEF Lead
    <2>2. 1 + i \in 1 .. Len(t) /\ t[1 + i] = s[i]
      BY <1>2, <1>4
    <2> QED BY <2>1, <2>2
  <1>7. Lead(t, p)
    <2>1. Len(t) \in Nat
      BY <1>2, <1>4
    <2> QED BY <1>4, <1>5, <1>6, <2>1 DEF Lead
  <1> QED BY <1>4, <1>7 DEF t, a

\* and one behind them.
LEMMA FollowedBy ==
    ASSUME NEW p \in Packages, NEW s, Lead(s, p)
    PROVE  Lead(s \o Plain("access"), p) /\ Len(s \o Plain("access")) = Len(s) + 1
  <1> DEFINE a == Plain("access")  t == s \o a
  <1>1. a \in Seq(StepSet) /\ Len(a) = 1 /\ a[1] = Step("access", "none")
    BY Alone DEF CmdName
  <1> HIDE DEF a
  <1>2. s \in Seq(StepSet) /\ Len(s) \in Nat
    BY DEF Lead
  <1>3. /\ t \in Seq(StepSet) /\ Len(t) = Len(s) + Len(a)
        /\ \A i \in 1 .. Len(s) : t[i] = s[i]
        /\ \A i \in 1 .. Len(a) : t[Len(s) + i] = a[i]
    BY <1>1, <1>2, Joined
  <1> HIDE DEF t
  <1>4. t \in Seq(StepSet) /\ Len(t) = Len(s) + 1 /\ t[Len(s) + 1] = Step("access", "none")
        /\ \A i \in 1 .. Len(s) : t[i] = s[i]
    BY <1>1, <1>2, <1>3
  <1>5. ASSUME NEW i \in 1 .. Len(t)
        PROVE  t[i].cmd \in {"probe", "key", "prove", "access"}
               /\ (t[i].cmd = "key" => t[i].key \in Sets(p))
    <2>1. CASE i = Len(s) + 1
      BY <1>4, <2>1 DEF Step
    <2>2. CASE i # Len(s) + 1
      <3>1. i \in 1 .. Len(s)
        BY <1>2, <1>4, <2>2
      <3> QED BY <1>4, <3>1 DEF Lead
    <2> QED BY <2>1, <2>2
  <1>6. ASSUME NEW k \in Sets(p) PROVE \E i \in 1 .. Len(t) : t[i] = Step("key", k)
    <2>1. PICK i \in 1 .. Len(s) : s[i] = Step("key", k)
      BY DEF Lead
    <2>2. i \in 1 .. Len(t) /\ t[i] = s[i]
      BY <1>2, <1>4
    <2> QED BY <2>1, <2>2
  <1>7. Lead(t, p)
    <2>1. Len(t) \in Nat
      BY <1>2, <1>4
    <2> QED BY <1>4, <1>5, <1>6, <2>1 DEF Lead
  <1> QED BY <1>4, <1>7 DEF t, a

\* The two kinds of plan are a lead, a configuration and what a session adds.
LEMMA PlansAreBuilt == package \in Packages => PlanIsBuilt /\ SealedIsBuilt
  <1> SUFFICES ASSUME package \in Packages PROVE PlanIsBuilt /\ SealedIsBuilt
    OBVIOUS
  <1> DEFINE keysFirst == PasswordFrames(package)
  <1>1. package.sealed \in BOOLEAN /\ package.probes \in BOOLEAN
    BY PackageConstants DEF PackageConstants, Package
  <1>2. Lead(keysFirst, package)
    BY Passwords
  <1>3. CASE package.sealed
    <2> DEFINE lead == When(package.probes, Plain("probe")) \o keysFirst
               body == lead \o Configuration
               begun == Plain("begin") \o body
               all == begun \o Plain("end")
               n == Len(lead)
    <2>1. /\ Lead(lead, package)
          /\ package.probes => n > 0 /\ lead[1] = Step("probe", "none")
      <3>1. CASE package.probes
        <4>1. lead = Plain("probe") \o keysFirst
          BY <3>1 DEF When
        <4>2. Len(keysFirst) \in Nat
          BY <1>2 DEF Lead
        <4> HIDE DEF keysFirst
        <4>3. Lead(lead, package) /\ n = 1 + Len(keysFirst) /\ lead[1] = Step("probe", "none")
          BY <1>2, <4>1, LedBy
        <4> HIDE DEF lead
        <4> QED BY <4>2, <4>3
      <3>2. CASE ~package.probes
        <4>1. keysFirst \in Seq(StepSet)
          BY <1>2 DEF Lead
        <4>2. lead = keysFirst
          BY <3>2, <4>1, ConcatEmptySeq DEF When
        <4> QED BY <1>2, <3>2, <4>2
      <3> QED BY <1>1, <3>1, <3>2
    <2>2. all = Plan
      BY <1>3 DEF Plan, Steps, SealedFrames
    <2> HIDE DEF lead
    <2>3. /\ body \in Seq(StepSet) /\ n \in Nat /\ Len(body) = n + 3
          /\ \A i \in 1 .. n : body[i] = lead[i]
          /\ body[n + 1] = Step("clear", "none")
          /\ body[n + 2] = Step("write", "none")
          /\ body[n + 3] = Step("save", "none")
      <3>1. lead \in Seq(StepSet)
        BY <2>1 DEF Lead
      <3> QED BY <3>1, Configured
    <2> HIDE DEF body
    <2> DEFINE first == Plain("begin")  last == Plain("end")
    <2>4. /\ first \in Seq(StepSet) /\ Len(first) = 1 /\ first[1] = Step("begin", "none")
          /\ last \in Seq(StepSet) /\ Len(last) = 1 /\ last[1] = Step("end", "none")
      BY Alone DEF CmdName
    <2> HIDE DEF first, last
    <2>5. /\ begun \in Seq(StepSet) /\ Len(begun) = Len(first) + Len(body)
          /\ \A i \in 1 .. Len(first) : begun[i] = first[i]
          /\ \A i \in 1 .. Len(body) : begun[Len(first) + i] = body[i]
      <3>1. begun = first \o body
        BY DEF first
      <3> HIDE DEF begun
      <3> QED BY <2>3, <2>4, <3>1, Joined
    <2> HIDE DEF begun
    <2>6. /\ all \in Seq(StepSet) /\ Len(all) = Len(begun) + Len(last)
          /\ \A i \in 1 .. Len(begun) : all[i] = begun[i]
          /\ \A i \in 1 .. Len(last) : all[Len(begun) + i] = last[i]
      <3>1. all = begun \o last
        BY DEF last
      <3> HIDE DEF all
      <3> QED BY <2>4, <2>5, <3>1, Joined
    <2> HIDE DEF all
    <2>7. all \in Seq(StepSet) /\ n \in Nat /\ Len(all) = n + 5
      BY <2>3, <2>4, <2>5, <2>6
    <2>8. /\ all[1] = Step("begin", "none")
          /\ \A i \in 1 .. n : all[i + 1] = lead[i]
          /\ all[n + 2] = Step("clear", "none") /\ all[n + 3] = Step("write", "none")
          /\ all[n + 4] = Step("save", "none") /\ all[n + 5] = Step("end", "none")
      <3>1. \A i \in 1 .. n + 3 : begun[1 + i] = body[i] /\ 1 + i \in 1 .. Len(begun)
        BY <2>3, <2>4, <2>5
      <3>2. \A i \in 1 .. n + 3 : all[1 + i] = body[i]
        BY <2>6, <3>1
      <3>3. all[1] = Step("begin", "none")
        <4>1. 1 \in 1 .. Len(first) /\ 1 \in 1 .. Len(begun)
          BY <2>3, <2>4, <2>5
        <4> QED BY <2>4, <2>5, <2>6, <4>1
      <3>4. all[n + 5] = Step("end", "none")
        BY <2>3, <2>4, <2>5, <2>6
      <3>5. ASSUME NEW i \in 1 .. n PROVE all[i + 1] = lead[i]
        <4>1. i \in 1 .. n + 3 /\ i + 1 = 1 + i
          BY <2>3
        <4> QED BY <2>3, <3>2, <4>1
      <3>6. all[1 + (n + 1)] = body[n + 1] /\ all[1 + (n + 2)] = body[n + 2]
            /\ all[1 + (n + 3)] = body[n + 3]
        <4>1. n + 1 \in 1 .. n + 3 /\ n + 2 \in 1 .. n + 3 /\ n + 3 \in 1 .. n + 3
          BY <2>3
        <4> QED BY <3>2, <4>1
      <3>7. 1 + (n + 1) = n + 2 /\ 1 + (n + 2) = n + 3 /\ 1 + (n + 3) = n + 4
        BY <2>3
      <3> QED BY <2>3, <3>3, <3>4, <3>5, <3>6, <3>7
    <2>9. ASSUME NEW i \in 1 .. n + 5
          PROVE  \/ i = 1 /\ all[i].cmd = "begin"
                 \/ /\ i - 1 \in 1 .. n /\ all[i] = lead[i - 1]
                    /\ all[i].cmd \in {"probe", "key", "prove", "access"}
                    /\ all[i].cmd = "key" => all[i].key \in Sets(package)
                 \/ i = n + 2 /\ all[i].cmd = "clear"
                 \/ i = n + 3 /\ all[i].cmd = "write"
                 \/ i = n + 4 /\ all[i].cmd = "save"
                 \/ i = n + 5 /\ all[i].cmd = "end"
      <3>1. \/ i = 1 \/ i - 1 \in 1 .. n \/ i = n + 2 \/ i = n + 3 \/ i = n + 4 \/ i = n + 5
        BY <2>7
      <3>2. CASE i - 1 \in 1 .. n
        <4>1. all[(i - 1) + 1] = lead[i - 1] /\ (i - 1) + 1 = i
          BY <2>8, <3>2
        <4> QED BY <2>1, <3>2, <4>1 DEF Lead
      <3>3. CASE i = 1
        BY <2>8, <3>3 DEF Step
      <3>4. CASE i = n + 2
        BY <2>8, <3>4 DEF Step
      <3>5. CASE i = n + 3
        BY <2>8, <3>5 DEF Step
      <3>6. CASE i = n + 4
        BY <2>8, <3>6 DEF Step
      <3>7. CASE i = n + 5
        BY <2>8, <3>7 DEF Step
      <3> QED BY <3>1, <3>2, <3>3, <3>4, <3>5, <3>6, <3>7
    <2>10. Len(Plan) = n + 5 /\ SaveAt = n + 4 /\ n \in Nat /\ Plan \in Seq(StepSet)
           /\ DOMAIN Plan = 1 .. n + 5
      <3>1. DOMAIN all = 1 .. Len(all)
        BY <2>7, LenProperties
      <3>2. Len(Plan) = n + 5 /\ n \in Nat /\ Plan \in Seq(StepSet) /\ DOMAIN Plan = 1 .. n + 5
        BY <2>2, <2>7, <3>1
      <3> QED BY <1>3, <3>2 DEF SaveAt
    <2>11. \A k \in Sets(package) : \E i \in 1 .. n + 5 : Plan[i] = Step("key", k)
      <3> TAKE k \in Sets(package)
      <3>1. PICK i \in 1 .. n : lead[i] = Step("key", k)
        BY <2>1 DEF Lead
      <3>2. i + 1 \in 1 .. n + 5
        BY <2>7
      <3> QED BY <2>2, <2>8, <3>1, <3>2
    <2>12. /\ Cmd(1) = "begin" /\ Cmd(n + 5) = "end" /\ Cmd(n + 4) = "save"
           /\ Cmd(n + 3) = "write"
      BY <2>2, <2>8 DEF Cmd, Step
    <2>13. package.probes => Cmd(2) = "probe"
      <3> HAVE package.probes
      <3>1. 1 \in 1 .. n /\ 1 + 1 = 2
        BY <2>1, <2>7
      <3> QED BY <2>1, <2>2, <2>8, <3>1 DEF Cmd, Step
    <2>14. ASSUME NEW i \in 1 .. n + 5
           PROVE  /\ Cmd(i) = "save" => i = n + 4
                  /\ Cmd(i) = "write" => i = n + 3
                  /\ Cmd(i) = "key" => i < n + 4 /\ Plan[i].key \in Sets(package)
                  /\ Cmd(i) = "begin" => i = 1
                  /\ Cmd(i) = "end" => i = n + 5
      <3>1. \/ i = 1 /\ Cmd(i) = "begin"
            \/ /\ i - 1 \in 1 .. n /\ Cmd(i) \in {"probe", "key", "prove", "access"}
               /\ Cmd(i) = "key" => Plan[i].key \in Sets(package)
            \/ i = n + 2 /\ Cmd(i) = "clear"
            \/ i = n + 3 /\ Cmd(i) = "write"
            \/ i = n + 4 /\ Cmd(i) = "save"
            \/ i = n + 5 /\ Cmd(i) = "end"
        BY <2>2, <2>9 DEF Cmd
      <3>2. i - 1 \in 1 .. n => i < n + 4
        BY <2>7
      <3> QED BY <3>1, <3>2
    <2>15. n + 4 - 1 = n + 3 /\ n + 4 \in 3 .. n + 5 /\ n + 5 > 4 /\ n + 5 \in Nat
      BY <2>7
    <2>16. PlanIsBuilt
      BY <2>10, <2>11, <2>12, <2>14, <2>15 DEF PlanIsBuilt
    <2> QED BY <2>10, <2>12, <2>13, <2>14, <2>15, <2>16 DEF SealedIsBuilt
  <1>4. CASE ~package.sealed
    <2> DEFINE front == When(package.sets # <<>>, Plain("prove") \o keysFirst)
               lead == front \o Plain("access")
               all == lead \o Configuration
               n == Len(lead)
    <2>1. Lead(front, package)
      <3>1. CASE package.sets # <<>>
        <4>1. front = Plain("prove") \o keysFirst
          BY <3>1 DEF When
        <4> QED BY <1>2, <4>1, LedBy
      <3>2. CASE package.sets = <<>>
        <4>1. front = <<>>
          BY <3>2 DEF When
        <4>2. Sets(package) = {}
          BY <3>2 DEF Sets
        <4> HIDE DEF front
        <4>3. front \in Seq(StepSet) /\ Len(front) = 0 /\ 1 .. 0 = {}
          BY <4>1
        <4>4. 1 .. Len(front) = {} /\ Len(front) \in Nat
          BY <4>3
        <4> QED BY <4>2, <4>3, <4>4 DEF Lead
      <3> QED BY <3>1, <3>2
    <2>2. all = Plan
      BY <1>4 DEF Plan, Steps, OpenedSteps
    <2> HIDE DEF front
    <2>3. Lead(lead, package) /\ n = Len(front) + 1 /\ Len(front) \in Nat
      BY <2>1, FollowedBy DEF Lead
    <2> HIDE DEF lead
    <2>4. /\ all \in Seq(StepSet) /\ n \in Nat /\ n > 0 /\ Len(all) = n + 3
          /\ \A i \in 1 .. n : all[i] = lead[i]
          /\ all[n + 1] = Step("clear", "none")
          /\ all[n + 2] = Step("write", "none")
          /\ all[n + 3] = Step("save", "none")
      <3>1. lead \in Seq(StepSet)
        BY <2>3 DEF Lead
      <3> QED BY <2>3, <3>1, Configured
    <2> HIDE DEF all
    <2>5. ASSUME NEW i \in 1 .. n + 3
          PROVE  \/ /\ i \in 1 .. n /\ all[i].cmd \in {"probe", "key", "prove", "access"}
                    /\ all[i].cmd = "key" => all[i].key \in Sets(package)
                 \/ i = n + 1 /\ all[i].cmd = "clear"
                 \/ i = n + 2 /\ all[i].cmd = "write"
                 \/ i = n + 3 /\ all[i].cmd = "save"
      <3>1. \/ i \in 1 .. n \/ i = n + 1 \/ i = n + 2 \/ i = n + 3
        BY <2>4
      <3>2. CASE i \in 1 .. n
        BY <2>3, <2>4, <3>2 DEF Lead
      <3>3. CASE i = n + 1
        BY <2>4, <3>3 DEF Step
      <3>4. CASE i = n + 2
        BY <2>4, <3>4 DEF Step
      <3>5. CASE i = n + 3
        BY <2>4, <3>5 DEF Step
      <3> QED BY <3>1, <3>2, <3>3, <3>4, <3>5
    <2>6. Len(Plan) = n + 3 /\ SaveAt = n + 3 /\ n \in Nat /\ n > 0 /\ Plan \in Seq(StepSet)
          /\ DOMAIN Plan = 1 .. n + 3
      <3>1. DOMAIN all = 1 .. Len(all)
        BY <2>4, LenProperties
      <3> QED BY <1>4, <2>2, <2>4, <3>1 DEF SaveAt
    <2>7. \A k \in Sets(package) : \E i \in 1 .. n + 3 : Plan[i] = Step("key", k)
      <3> TAKE k \in Sets(package)
      <3>1. PICK i \in 1 .. n : lead[i] = Step("key", k)
        BY <2>3 DEF Lead
      <3>2. i \in 1 .. n + 3
        BY <2>4
      <3> QED BY <2>2, <2>4, <3>1, <3>2
    <2>8. Cmd(n + 3) = "save" /\ Cmd(n + 2) = "write"
      BY <2>2, <2>4 DEF Cmd, Step
    <2>9. ASSUME NEW i \in 1 .. n + 3
          PROVE  /\ Cmd(i) = "save" => i = n + 3
                 /\ Cmd(i) = "write" => i = n + 2
                 /\ Cmd(i) = "key" => i < n + 3 /\ Plan[i].key \in Sets(package)
      <3>1. \/ /\ i \in 1 .. n /\ Cmd(i) \in {"probe", "key", "prove", "access"}
               /\ Cmd(i) = "key" => Plan[i].key \in Sets(package)
            \/ i = n + 1 /\ Cmd(i) = "clear"
            \/ i = n + 2 /\ Cmd(i) = "write"
            \/ i = n + 3 /\ Cmd(i) = "save"
        BY <2>2, <2>5 DEF Cmd
      <3>2. i \in 1 .. n => i < n + 3
        BY <2>4
      <3> QED BY <3>1, <3>2
    <2>10. n + 3 - 1 = n + 2 /\ n + 3 \in 3 .. n + 3 /\ n + 3 \in Nat
      BY <2>4
    <2>11. PlanIsBuilt
      BY <2>6, <2>7, <2>8, <2>9, <2>10 DEF PlanIsBuilt
    <2> QED BY <1>4, <2>11 DEF SealedIsBuilt
  <1> QED BY <1>1, <1>3, <1>4

-----------------------------------------------------------------------------
(* The invariant is kept *)

LEMMA InitSound == Init => InstallInv
  <1> SUFFICES ASSUME Init PROVE InstallInv
    OBVIOUS
  <1>1. PlanIsBuilt
    BY PlansAreBuilt DEF Init
  <1>2. /\ index = 1 /\ line = {} /\ replies = {} /\ session = 0 /\ installs = 0
        /\ busy = FALSE /\ said = "" /\ failed = FALSE /\ cancelled = FALSE
        /\ granted = FALSE /\ proved = FALSE /\ disturbed = FALSE /\ restarts = 0
        /\ package \in Packages /\ kind \in [two : BOOLEAN, old : BOOLEAN]
        /\ keys \in [Key -> {"own", "none"}] /\ flashKeys = keys
        /\ conf = "own" /\ flashConf = "own"
    BY DEF Init
  <1>3. 1 \in DOMAIN Plan /\ Len(Plan) + 1 \in Nat /\ SaveAt \in Nat /\ SaveAt > 2
    BY <1>1 DEF PlanIsBuilt
  <1>11. index = 1 /\ session = 0 /\ installs = 0
    BY <1>2
  <1>4. TypeOK
    <2>1. keys \in [Key -> Value]
      BY <1>2 DEF Value
    <2>2. "own" \in Value /\ 0 \in 0 .. MaxInstalls /\ 0 \in 0 .. MaxRestarts
      BY PackageConstants DEF PackageConstants, Value
    <2>3. session \in 0 .. Len(Plan) + 1
      <3>1. session = 0
        BY <1>2
      <3> HIDE DEF Plan
      <3> QED BY <1>3, <3>1
    <2> QED BY <1>2, <1>3, <2>1, <2>2, <2>3 DEF TypeOK
  <1>5. LineInv
    BY <1>2 DEF LineInv
  <1>6. SessionInv
    BY <1>11 DEF SessionInv
  <1>7. OpenedInv
    <2>1. index # SaveAt
      BY <1>3, <1>11
    <2>2. 1 .. index - 1 = {}
      BY <1>11
    <2>3. replies = {} /\ ~failed
      BY <1>2
    <2> QED BY <2>1, <2>2, <2>3, Zenon DEF OpenedInv
  <1>8. SavedInv
    <2>1. ~(index > SaveAt) /\ index # SaveAt
      BY <1>3, <1>11
    <2> QED BY <2>1 DEF SavedInv, SaveTaken
  <1>9. SaidInv
    BY <1>2 DEF SaidInv
  <1>10. OldInv
    <2>1. ~(installs > 0)
      BY <1>11
    <2> QED BY <2>1 DEF OldInv
  <1> QED BY <1>4, <1>5, <1>6, <1>7, <1>8, <1>9, <1>10 DEF InstallInv

\* What the actions below rest on.
Sound == InstallInv /\ PlanIsBuilt /\ SealedIsBuilt

LEMMA SoundFacts ==
    ASSUME Sound
    PROVE  /\ index \in 1 .. Len(Plan) /\ Len(Plan) \in Nat /\ DOMAIN Plan = 1 .. Len(Plan)
           /\ SaveAt \in Nat /\ 2 < SaveAt /\ SaveAt <= Len(Plan)
           /\ Cmd(SaveAt) = "save" /\ Cmd(SaveAt - 1) = "write"
           /\ \A i \in 1 .. Len(Plan) :
                /\ Cmd(i) = "save" => i = SaveAt
                /\ Cmd(i) = "write" => i = SaveAt - 1
                /\ Cmd(i) = "key" => i < SaveAt /\ Plan[i].key \in Sets(package)
                                     /\ Plan[i].key \in Key
  <1>1. Sets(package) \subseteq Key
    <2>1. package.sets \in Seq(Key)
      BY PackageConstants DEF Sound, InstallInv, TypeOK, PackageConstants, Package
    <2> QED BY <2>1, LenProperties, ElementOfSeq DEF Sets
  <1>2. index \in DOMAIN Plan
    BY DEF Sound, InstallInv, TypeOK
  <1> QED BY <1>1, <1>2 DEF Sound, PlanIsBuilt

\* A new plan is built like the old one.
LEMMA SameTerms ==
    ASSUME package' = package
    PROVE  /\ Plan' = Plan /\ SaveAt' = SaveAt
           /\ \A i : Cmd(i)' = Cmd(i) /\ Sealed(i)' = Sealed(i)
           /\ Sets(package') = Sets(package)
  BY DEF Plan, SaveAt, Cmd, Sealed, Sets

LEMMA PlansStayBuilt == (package \in Packages => PlanIsBuilt /\ SealedIsBuilt)'
  BY PlansAreBuilt, PTL

LEMMA InstallSound == Sound /\ Install => InstallInv'
  <1> SUFFICES ASSUME Sound, Install PROVE InstallInv'
    OBVIOUS
  <1>1. package' \in Packages
    BY DEF Install
  <1>2. index' = 1 /\ session' = 0
    BY DEF Install
  <1>3. line' = {1} /\ replies' = {} /\ said' = "" /\ before' = Unit
    BY DEF Install, Issue
  <1>4. busy' = TRUE /\ cancelled' = FALSE /\ failed' = FALSE /\ disturbed' = FALSE
    BY DEF Install
  <1>5. UNCHANGED <<kind, granted, proved, keys, conf, flashKeys, flashConf, restarts>>
    BY DEF Install, storeVars
  <1>6. (PlanIsBuilt /\ SealedIsBuilt)'
    BY <1>1, PlansStayBuilt
  <1>7. Len(Plan)' \in Nat /\ (DOMAIN Plan)' = 1 .. Len(Plan)' /\ SaveAt' \in 3 .. Len(Plan)'
    BY <1>6 DEF PlanIsBuilt
  <1>8. ~(index' > SaveAt') /\ index' # SaveAt'
    BY <1>2, <1>7
  <1>9. TypeOK'
    <2>1. installs \in 0 .. MaxInstalls /\ installs < MaxInstalls /\ installs' = installs + 1
      BY DEF Sound, InstallInv, TypeOK, Install
    <2>2. installs' \in 0 .. MaxInstalls
      BY <2>1, PackageConstants DEF PackageConstants
    <2>3. 1 \in (DOMAIN Plan)' /\ 0 \in 0 .. Len(Plan)' + 1
      BY <1>7
    <2>4. TypeOK
      BY DEF Sound, InstallInv
    <2>5. index' \in (DOMAIN Plan)' /\ session' \in 0 .. Len(Plan)' + 1
          /\ line' \subseteq (DOMAIN Plan)'
      BY <1>2, <1>3, <2>3
    <2> QED BY <1>1, <1>3, <1>4, <1>5, <2>2, <2>4, <2>5, Zenon DEF TypeOK
  <1>10. LineInv'
    <2>1. keys' = before'.keys
      BY <1>3, <1>5 DEF Unit
    <2>2. line' \subseteq {index'} /\ "ok" \notin replies' /\ session' \in {0, index', index' + 1}
      BY <1>2, <1>3
    <2> QED BY <2>1, <2>2, Zenon DEF LineInv
  <1>11. SessionInv'
    <2>1. ~(session' > 0)
      BY <1>2
    <2> QED BY <2>1, Zenon DEF SessionInv
  <1>12. OpenedInv'
    <2>1. (1 .. index - 1)' = {}
      BY <1>2
    <2>2. "ok" \notin replies'
      BY <1>3
    <2> QED BY <1>4, <1>8, <2>1, <2>2, Zenon DEF OpenedInv
  <1>13. SavedInv'
    BY <1>8, Zenon DEF SavedInv, SaveTaken
  <1>14. SaidInv'
    BY <1>3 DEF SaidInv
  <1>15. OldInv'
    <2>1. index' <= 2 /\ index' # 2
      BY <1>2
    <2>2. before' = Unit'
      BY <1>3, <1>5 DEF Unit
    <2> QED BY <2>1, <2>2, Zenon DEF OldInv
  <1> QED BY <1>9, <1>10, <1>11, <1>12, <1>13, <1>14, <1>15 DEF InstallInv

\* Steps that change at most whether the user has cancelled.
LEMMA QuietSound ==
    ASSUME Sound, cancelled' \in BOOLEAN,
           UNCHANGED <<package, busy, index, failed, said, installs, line, replies, unitVars,
                       history>>
    PROVE  InstallInv'
  <1>1. UNCHANGED <<package, busy, index, failed, said, installs, line, replies, kind, session,
                    granted, proved, keys, conf, flashKeys, flashConf, restarts, before,
                    disturbed>>
    BY DEF unitVars, sessionVars, storeVars, history
  <1>2. Plan' = Plan /\ SaveAt' = SaveAt
    BY <1>1 DEF Plan, SaveAt
  <1>3. TypeOK /\ LineInv /\ SessionInv /\ OpenedInv /\ SavedInv /\ SaidInv /\ OldInv
    BY DEF Sound, InstallInv
  <1>4. TypeOK'
    BY <1>1, <1>2, <1>3, Zenon DEF TypeOK
  <1>5. LineInv'
    BY <1>1, <1>3, Zenon DEF LineInv
  <1>6. SessionInv'
    BY <1>1, <1>2, <1>3 DEF SessionInv, Cmd, Sets
  <1>7. OpenedInv'
    <2>1. /\ Plan' = Plan /\ SaveAt' = SaveAt /\ package' = package /\ index' = index
          /\ replies' = replies /\ keys' = keys /\ conf' = conf
          /\ (disturbed <=> disturbed') /\ (failed <=> failed')
      BY <1>1, <1>2
    <2> QED BY <1>3, <2>1 DEF OpenedInv, Cmd
  <1>8. SavedInv'
    BY <1>1, <1>2, <1>3, Zenon DEF SavedInv, SaveTaken, Committed, Sets
  <1>9. SaidInv'
    <2>1. said' = said /\ (busy <=> busy') /\ index' = index /\ Plan' = Plan /\ replies' = replies
      BY <1>1, <1>2
    <2> QED BY <1>3, <2>1 DEF SaidInv
  <1>10. OldInv'
    BY <1>1, <1>3, Zenon DEF OldInv, Unit
  <1> QED BY <1>4, <1>5, <1>6, <1>7, <1>8, <1>9, <1>10 DEF InstallInv

LEMMA RestartSound == Sound /\ Restart => InstallInv'
  <1> SUFFICES ASSUME Sound, Restart PROVE InstallInv'
    OBVIOUS
  <1>1. UNCHANGED <<package, busy, index, cancelled, failed, said, installs, replies, kind,
                    flashKeys, flashConf, before>>
    BY DEF Restart, hostVars
  <1>2. /\ disturbed' = TRUE /\ granted' = FALSE /\ proved' = FALSE
        /\ keys' = flashKeys /\ conf' = flashConf /\ line' = {i \in line : Slow(i)}
    BY DEF Restart
  <1>3. session' = 0
    BY DEF Restart
  <1>4. Plan' = Plan /\ SaveAt' = SaveAt
    BY <1>1 DEF Plan, SaveAt
  <1>5. TypeOK /\ LineInv /\ SavedInv /\ SaidInv
    BY DEF Sound, InstallInv
  <1>6. index \in 1 .. Len(Plan) /\ Len(Plan) \in Nat
    BY SoundFacts
  <1>7. TypeOK'
    <2>1. restarts \in 0 .. MaxRestarts /\ restarts < MaxRestarts /\ restarts' = restarts + 1
      BY <1>5 DEF TypeOK, Restart
    <2>2. restarts' \in 0 .. MaxRestarts
      BY <2>1, PackageConstants DEF PackageConstants
    <2>3. 0 \in 0 .. Len(Plan) + 1
      BY <1>6
    <2>4. session' \in 0 .. Len(Plan) + 1
      BY <1>3, <2>3
    <2>5. line' \subseteq line
      BY <1>2
    <2> QED BY <1>1, <1>2, <1>4, <1>5, <2>2, <2>4, <2>5, Zenon DEF TypeOK
  <1>8. LineInv'
    <2>1. line' \subseteq {index'}
      BY <1>1, <1>2, <1>5 DEF LineInv
    <2>2. session' \in {0, index', index' + 1} /\ session' # index'
      BY <1>1, <1>3, <1>6
    <2>3. package.sealed => 1 \notin line'
      <3>1. package.sealed => Cmd(1) = "begin"
        BY DEF Sound, SealedIsBuilt
      <3> QED BY <1>2, <3>1 DEF Slow
    <2> QED BY <1>1, <2>1, <2>2, <2>3, Zenon DEF LineInv
  <1>9. SessionInv'
    <2>1. ~(session' > 0)
      BY <1>3
    <2> QED BY <2>1, Zenon DEF SessionInv
  <1>10. OpenedInv' /\ OldInv'
    BY <1>2, Zenon DEF OpenedInv, OldInv
  <1>11. SavedInv'
    BY <1>1, <1>2, <1>4, <1>5, Zenon DEF SavedInv, SaveTaken, Committed, Sets
  <1>12. SaidInv'
    BY <1>1, <1>4, <1>5, Zenon DEF SaidInv
  <1> QED BY <1>7, <1>8, <1>9, <1>10, <1>11, <1>12 DEF InstallInv

\* An answer sends the next step, behind an accepted one or a password that is
\* not the last, or ends the install.
GoesOn ==
    /\ index + 1 <= Len(Plan) /\ index' = index + 1
    /\ line' = {index + 1} /\ replies' = {} /\ UNCHANGED <<busy, said>>
    /\ \/ /\ "ok" \in replies /\ failed' = failed
          /\ failed /\ SetsInTheClear => Cmd(index + 1) = "key"
       \/ SetsInTheClear /\ Cmd(index + 1) = "key" /\ failed' = TRUE

Ends ==
    /\ UNCHANGED <<index, line, replies>> /\ busy' = FALSE
    /\ said' \in {"installed", "stopped", "nothing changed", "nothing sent", "cancelled"}
    /\ said' = "installed" => index = Len(Plan) /\ "ok" \in replies
    /\ failed' = failed \/ (SetsInTheClear /\ failed' = TRUE)

LEMMA Answered == Sound /\ Answer => GoesOn \/ Ends
  <1> SUFFICES ASSUME Sound, Answer PROVE GoesOn \/ Ends
    OBVIOUS
  <1>1. index \in 1 .. Len(Plan) /\ Len(Plan) \in Nat /\ SaveAt \in Nat /\ SaveAt <= Len(Plan)
    BY SoundFacts
  <1>2. SetsInTheClear => index + 1 <= Len(Plan)
    <2>1. SetsInTheClear => index < SaveAt
      BY <1>1, SoundFacts DEF SetsInTheClear
    <2> QED BY <1>1, <2>1
  <1>3. failed \in BOOLEAN /\ cancelled \in BOOLEAN
    BY DEF Sound, InstallInv, TypeOK
  <1>4. index + 1 > Len(Plan) => index = Len(Plan)
    BY <1>1
  <1>5. ~(index + 1 > Len(Plan)) => index + 1 <= Len(Plan)
    BY <1>1
  <1>6. RunNext(index + 1) =>
            \/ /\ UNCHANGED <<index, line, replies>> /\ busy' = FALSE
               /\ \/ said' = "cancelled"
                  \/ said' = "installed" /\ index = Len(Plan) /\ index + 1 > Len(Plan)
            \/ /\ index + 1 <= Len(Plan) /\ index' = index + 1
               /\ line' = {index + 1} /\ replies' = {} /\ UNCHANGED <<busy, said>>
    BY <1>4, <1>5, Zenon DEF RunNext, Finish, Issue
  <1>7. CASE Succeed
    <2>1. "ok" \in replies /\ failed' = failed
      BY <1>7 DEF Succeed
    <2>2. CASE SetsInTheClear /\ LastKey /\ failed
      <3>1. Finish("nothing sent")
        BY <1>7, <2>2, Zenon DEF Succeed, AfterKey
      <3> QED BY <2>1, <3>1 DEF Finish, Ends
    <2>3. CASE ~(SetsInTheClear /\ LastKey /\ failed)
      <3>1. RunNext(index + 1)
        BY <1>7, <2>3, Zenon DEF Succeed, AfterKey
      <3>2. failed /\ SetsInTheClear => Cmd(index + 1) = "key"
        BY <2>3, Zenon DEF LastKey
      <3> QED BY <1>6, <2>1, <3>1, <3>2, Zenon DEF GoesOn, Ends
    <2> QED BY <2>2, <2>3
  <1>8. ASSUME NEW how \in {"refused", "unknown", "lost"}, Fail(how) PROVE GoesOn \/ Ends
    <2>1. CASE SetsInTheClear
      <3>1. failed' = TRUE
        BY <1>8, <2>1, Zenon DEF Fail
      <3>2. AfterKey(TRUE)
        BY <1>8, <2>1, Zenon DEF Fail
      <3>3. CASE LastKey
        <4>1. Finish("nothing sent")
          BY <3>2, <3>3, Zenon DEF AfterKey
        <4> QED BY <2>1, <3>1, <4>1 DEF Finish, Ends
      <3>4. CASE ~LastKey
        <4>1. RunNext(index + 1) /\ Cmd(index + 1) = "key"
          BY <3>2, <3>4, Zenon DEF AfterKey, LastKey
        <4>2. \/ /\ UNCHANGED <<index, line, replies>> /\ busy' = FALSE
                 /\ said' = "cancelled"
              \/ /\ index + 1 <= Len(Plan) /\ index' = index + 1
                 /\ line' = {index + 1} /\ replies' = {} /\ UNCHANGED <<busy, said>>
          <5>1. ~(index + 1 > Len(Plan))
            BY <1>1, <1>2, <2>1
          <5> QED BY <1>6, <4>1, <5>1, Zenon
        <4> QED BY <2>1, <3>1, <4>1, <4>2, Zenon DEF GoesOn, Ends
      <3> QED BY <3>3, <3>4
    <2>2. CASE ~SetsInTheClear
      <3>1. failed' = failed /\ Finish(Describe(how))
        BY <1>3, <1>8, <2>2, Zenon DEF Fail
      <3>2. Describe(how) \in {"stopped", "nothing changed", "nothing sent"}
        BY DEF Describe
      <3> QED BY <3>1, <3>2 DEF Finish, Ends
    <2> QED BY <2>1, <2>2
  <1> QED BY <1>7, <1>8 DEF Answer

LEMMA AnswerSound == Sound /\ Answer => InstallInv'
  <1> SUFFICES ASSUME Sound, Answer PROVE InstallInv'
    OBVIOUS
  <1>1. UNCHANGED <<package, cancelled, installs, kind, session, granted, proved, keys, conf,
                    flashKeys, flashConf, restarts, before, disturbed>>
    BY DEF Answer, unitVars, sessionVars, storeVars, history
  <1>2. Plan' = Plan /\ SaveAt' = SaveAt
    BY <1>1 DEF Plan, SaveAt
  <1>3. TypeOK /\ LineInv /\ SessionInv /\ OpenedInv /\ SavedInv /\ SaidInv /\ OldInv
    BY DEF Sound, InstallInv
  <1>4. /\ index \in 1 .. Len(Plan) /\ Len(Plan) \in Nat /\ DOMAIN Plan = 1 .. Len(Plan)
        /\ SaveAt \in Nat /\ 2 < SaveAt /\ SaveAt <= Len(Plan) /\ Cmd(SaveAt - 1) = "write"
    BY SoundFacts
  <1>5. SessionInv'
    BY <1>1, <1>2, <1>3 DEF SessionInv, Cmd, Sets
  <1>6. busy
    BY DEF Answer
  <1>7. CASE GoesOn
    <2>1. /\ index + 1 <= Len(Plan) /\ index' = index + 1
          /\ line' = {index + 1} /\ replies' = {}
      BY <1>7 DEF GoesOn
    <2>2. busy' = busy /\ said' = said
      BY <1>7 DEF GoesOn
    <2>3. \/ /\ "ok" \in replies /\ (failed' <=> failed)
             /\ failed /\ SetsInTheClear => Cmd(index + 1) = "key"
          \/ SetsInTheClear /\ Cmd(index + 1) = "key" /\ failed'
      BY <1>7 DEF GoesOn
    <2>4. failed' \in BOOLEAN
      BY <1>3, <1>7, Zenon DEF GoesOn, TypeOK
    <2>5. index + 1 \in DOMAIN Plan
      BY <1>4, <2>1
    <2>6. TypeOK'
      BY <1>1, <1>2, <1>3, <2>1, <2>2, <2>4, <2>5, Zenon DEF TypeOK
    <2>7. LineInv'
      <3>1. package.sealed => "ok" \in replies
        BY <2>3 DEF SetsInTheClear
      <3>2. package.sealed => session \in {0, index + 1, index + 1 + 1}
        BY <1>3, <3>1 DEF LineInv
      <3>3. index + 1 # 1
        BY <1>4
      <3>4. line' \subseteq {index'} /\ "ok" \notin replies' /\ 1 \notin line'
        BY <2>1, <3>3
      <3> QED BY <1>1, <2>1, <3>2, <3>4, Zenon DEF LineInv
    <2>8. OpenedInv'
      <3> SUFFICES ASSUME ~package.sealed, ~disturbed
                   PROVE  /\ ~failed' => \A j \in 1 .. index : Cmd(j) = "key" =>
                                             keys[Plan[j].key] = package.name
                          /\ failed' => Cmd(index + 1) = "key"
                          /\ index + 1 = SaveAt => conf = package.name
        <4>1. "ok" \notin replies' /\ index' - 1 = index
          BY <1>4, <2>1
        <4>2. package' = package /\ (disturbed' <=> disturbed) /\ keys' = keys /\ conf' = conf
          BY <1>1
        <4> QED BY <1>2, <2>1, <4>1, <4>2 DEF OpenedInv, Cmd
      <3>1. CASE "ok" \in replies /\ (failed' <=> failed)
                 /\ (failed /\ SetsInTheClear => Cmd(index + 1) = "key")
        <4>1. failed => SetsInTheClear
          BY <1>3 DEF OpenedInv, SetsInTheClear
        <4>2. ASSUME ~failed, NEW j \in 1 .. index, Cmd(j) = "key"
              PROVE  keys[Plan[j].key] = package.name
          <5>1. j = index \/ j \in 1 .. index - 1
            BY <1>4
          <5> QED BY <1>3, <3>1, <4>2, <5>1 DEF OpenedInv
        <4>3. index + 1 = SaveAt => conf = package.name
          <5>1. index + 1 = SaveAt => Cmd(index) = "write"
            <6>1. index + 1 = SaveAt => index = SaveAt - 1
              BY <1>4
            <6> QED BY <1>4, <6>1
          <5> QED BY <1>3, <3>1, <5>1 DEF OpenedInv
        <4> QED BY <3>1, <4>1, <4>2, <4>3
      <3>2. CASE SetsInTheClear /\ Cmd(index + 1) = "key" /\ failed'
        <4>1. index + 1 # SaveAt
          BY <2>5, <3>2 DEF Sound, PlanIsBuilt
        <4> QED BY <3>2, <4>1
      <3> QED BY <2>3, <3>1, <3>2
    <2>9. SavedInv'
      <3>1. SaveTaken' => SaveTaken
        <4>1. ("ok" \in replies) \/ SetsInTheClear
          BY <2>3
        <4>2. "ok" \notin replies'
          BY <2>1
        <4>3. SetsInTheClear => index < SaveAt
          BY <1>4, SoundFacts DEF SetsInTheClear
        <4>4. index' > SaveAt' => index > SaveAt \/ index = SaveAt
          BY <1>2, <1>4, <2>1
        <4>5. SetsInTheClear => ~(index > SaveAt \/ index = SaveAt)
          BY <1>4, <4>3
        <4> QED BY <4>1, <4>2, <4>4, <4>5, Zenon DEF SaveTaken
      <3> QED BY <1>1, <1>3, <3>1, Zenon DEF SavedInv, Committed, Sets
    <2>10. SaidInv'
      BY <1>3, <1>6, <2>2, Zenon DEF SaidInv
    <2>11. OldInv'
      <3> SUFFICES ASSUME kind.old /\ package.sealed /\ package.probes /\ installs > 0 /\ ~disturbed
                   PROVE  index' <= 2 /\ (index' = 2 => "ok" \notin replies') /\ Unit' = before'
        BY <1>1, Zenon DEF OldInv
      <3>1. index <= 2 /\ (index = 2 => "ok" \notin replies) /\ Unit = before
        BY <1>3, Zenon DEF OldInv
      <3>2. "ok" \in replies
        BY <2>3 DEF SetsInTheClear
      <3>3. index' <= 2
        BY <1>4, <2>1, <3>1, <3>2
      <3>4. "ok" \notin replies'
        BY <2>1
      <3>5. Unit' = before'
        BY <1>1, <3>1 DEF Unit
      <3> QED BY <3>3, <3>4, <3>5
    <2> QED BY <1>5, <2>6, <2>7, <2>8, <2>9, <2>10, <2>11 DEF InstallInv
  <1>8. CASE Ends
    <2>1. index' = index /\ line' = line /\ replies' = replies
      BY <1>8 DEF Ends
    <2>2. /\ said' \in {"installed", "stopped", "nothing changed", "nothing sent", "cancelled"}
          /\ said' = "installed" => index = Len(Plan) /\ "ok" \in replies
      BY <1>8 DEF Ends
    <2>3. ~busy' /\ busy' \in BOOLEAN
      BY <1>8 DEF Ends
    <2>4. failed' \in BOOLEAN
      BY <1>3, <1>8, Zenon DEF Ends, TypeOK
    <2>5. (failed' <=> failed) \/ (SetsInTheClear /\ failed')
      BY <1>8 DEF Ends
    <2>6. TypeOK'
      <3>1. said' \in {"", "installed", "stopped", "nothing changed", "nothing sent", "cancelled"}
        BY <2>2
      <3> QED BY <1>1, <1>2, <1>3, <2>1, <2>3, <2>4, <3>1, Zenon DEF TypeOK
    <2>7. LineInv'
      BY <1>1, <1>3, <2>1, Zenon DEF LineInv
    <2>8. OpenedInv'
      <3>1. failed => failed'
        BY <2>5
      <3>2. failed' => failed \/ Cmd(index) = "key"
        BY <2>5 DEF SetsInTheClear
      <3>3. /\ package' = package /\ (disturbed' <=> disturbed) /\ keys' = keys /\ conf' = conf
        BY <1>1
      <3> QED BY <1>2, <1>3, <2>1, <3>1, <3>2, <3>3 DEF OpenedInv, Cmd
    <2>9. SavedInv'
      BY <1>1, <1>2, <1>3, <2>1, Zenon DEF SavedInv, SaveTaken, Committed, Sets
    <2>10. SaidInv'
      BY <1>2, <2>1, <2>2, <2>3 DEF SaidInv
    <2>11. OldInv'
      BY <1>1, <1>3, <2>1, Zenon DEF OldInv, Unit
    <2> QED BY <1>5, <2>6, <2>7, <2>8, <2>9, <2>10, <2>11 DEF InstallInv
  <1> QED BY <1>7, <1>8, Answered

-----------------------------------------------------------------------------
(* The unit *)

\* What any reply to the step in flight leaves alone.
LEMMA RepliedSound ==
    ASSUME Sound, NEW how \in {"ok", "refused", "unknown"}, Reply(how), index \in line,
           UNCHANGED <<hostVars, line, kind, history>>,
           session' \in 0 .. Len(Plan) + 1,
           granted' \in BOOLEAN, proved' \in BOOLEAN,
           keys' \in [Key -> Value], flashKeys' \in [Key -> Value],
           conf' \in Value \union {"part"}, flashConf' \in Value \union {"part"}
    PROVE  TypeOK' /\ SaidInv'
  <1>1. UNCHANGED <<package, busy, index, cancelled, failed, said, installs, line, kind,
                    restarts, disturbed>>
    BY DEF hostVars, history
  <1>2. Plan' = Plan
    BY <1>1 DEF Plan
  <1>3. TypeOK /\ SaidInv
    BY DEF Sound, InstallInv
  <1>4. replies' = replies \union {how} /\ replies' \subseteq {"ok", "refused", "unknown"}
    BY <1>3 DEF TypeOK, Reply
  <1>5. TypeOK'
    BY <1>1, <1>2, <1>3, <1>4, Zenon DEF TypeOK
  <1>6. SaidInv'
    <2>1. said' = said /\ (busy <=> busy') /\ index' = index
      BY <1>1
    <2> QED BY <1>2, <1>3, <1>4, <2>1 DEF SaidInv
  <1> QED BY <1>5, <1>6

\* BEGIN, END and every refusal change nothing but the session.
LEMMA NothingDone ==
    ASSUME Sound, NEW how \in {"ok", "refused", "unknown"}, Reply(how), index \in line,
           UNCHANGED <<hostVars, line, kind, history, granted, proved, storeVars>>,
           how = "ok" => Cmd(index) \in {"begin", "end"},
           \/ session' = 0
           \/ package.sealed /\ Cmd(index) = "begin" /\ session' = index + 1
           \/ ~package.sealed /\ session' \in 0 .. Len(Plan) + 1
    PROVE  InstallInv'
  <1>1. UNCHANGED <<package, index, failed, installs, line, keys, conf, flashKeys, flashConf,
                    before, disturbed>>
    BY DEF hostVars, history, storeVars
  <1>2. Plan' = Plan /\ SaveAt' = SaveAt
    BY <1>1 DEF Plan, SaveAt
  <1>3. TypeOK /\ LineInv /\ SessionInv /\ OpenedInv /\ SavedInv /\ OldInv
    BY DEF Sound, InstallInv
  <1>4. /\ index \in 1 .. Len(Plan) /\ Len(Plan) \in Nat
        /\ SaveAt \in Nat /\ 2 < SaveAt /\ Cmd(SaveAt) = "save"
    BY SoundFacts
  <1>5. replies' = replies \union {how}
    BY DEF Reply
  <1>6. "ok" \in replies' => "ok" \in replies \/ Cmd(index) \in {"begin", "end"}
    BY <1>5
  <1>7. package.sealed => (Cmd(index) = "begin" => index = 1)
    BY <1>4, SoundFacts DEF Sound, SealedIsBuilt
  <1>8. session' \in 0 .. Len(Plan) + 1
    <2>1. 0 \in 0 .. Len(Plan) + 1 /\ index + 1 \in 0 .. Len(Plan) + 1
      BY <1>4
    <2> QED BY <2>1
  <1>9. TypeOK' /\ SaidInv'
    <2>1. granted' = granted /\ proved' = proved
      OBVIOUS
    <2>2. granted' \in BOOLEAN /\ proved' \in BOOLEAN
      BY <1>3, <2>1, Zenon DEF TypeOK
    <2>3. /\ keys' \in [Key -> Value] /\ flashKeys' \in [Key -> Value]
          /\ conf' \in Value \union {"part"} /\ flashConf' \in Value \union {"part"}
      BY <1>1, <1>3, Zenon DEF TypeOK
    <2>4. UNCHANGED <<hostVars, line, kind, history>>
      OBVIOUS
    <2> QED BY <1>8, <2>2, <2>3, <2>4, RepliedSound
  <1>10. LineInv'
    <2> SUFFICES ASSUME package.sealed
                 PROVE  session' \in {0, index, index + 1} /\ session' # index
      BY <1>1, <1>3, Zenon DEF LineInv
    <2> QED BY <1>4
  <1>11. SessionInv'
    <2> SUFFICES ASSUME package.sealed, session' > 0
                 PROVE  /\ \A j \in 1 .. session' - 1 : Cmd(j) = "key" =>
                                 keys[Plan[j].key] = package.name
                        /\ session' = SaveAt => conf = package.name
                        /\ \A k \in Key \ Sets(package) : keys[k] = before.keys[k]
      BY <1>1, <1>2 DEF SessionInv, Cmd, Sets
    <2>1. Cmd(index) = "begin" /\ session' = index + 1 /\ index = 1
      BY <1>7
    <2>2. keys = before.keys
      <3>1. 1 \in line
        BY <2>1
      <3> QED BY <1>3, <3>1 DEF LineInv
    <2>3. 1 .. session' - 1 = {1} /\ session' # SaveAt
      BY <1>4, <2>1
    <2> QED BY <2>1, <2>2, <2>3
  <1>12. OpenedInv'
    <2>1. Cmd(index) \in {"key", "write"} /\ "ok" \in replies' => "ok" \in replies
      BY <1>6
    <2>2. /\ package' = package /\ (disturbed' <=> disturbed) /\ (failed' <=> failed)
          /\ keys' = keys /\ conf' = conf /\ index' = index
      BY <1>1
    <2> QED BY <1>2, <1>3, <2>1, <2>2 DEF OpenedInv, Cmd
  <1>13. SavedInv'
    <2>1. SaveTaken' => SaveTaken
      BY <1>1, <1>2, <1>4, <1>6 DEF SaveTaken
    <2> QED BY <1>1, <1>3, <2>1, Zenon DEF SavedInv, Committed, Sets
  <1>14. OldInv'
    <2>1. ~(package.sealed /\ package.probes /\ index = 2 /\ Cmd(index) \in {"begin", "end"})
      BY DEF Sound, SealedIsBuilt
    <2> QED BY <1>1, <1>3, <1>6, <2>1, Zenon DEF OldInv, Unit
  <1> QED BY <1>9, <1>10, <1>11, <1>12, <1>13, <1>14 DEF InstallInv

\* A command the unit takes.
LEMMA PerformSound ==
    ASSUME Sound, Perform(index), index \in line,
           UNCHANGED <<hostVars, line, kind, history>>,
           IF package.sealed
           THEN /\ Sealed(index) /\ session = index /\ session' = index + 1
                /\ ~(Cmd(index) = "probe" /\ kind.old)
           ELSE session' = session
    PROVE  InstallInv'
  <1>1. UNCHANGED <<package, index, failed, installs, line, kind, before, disturbed>>
    BY DEF hostVars, history
  <1>2. Plan' = Plan /\ SaveAt' = SaveAt
    BY <1>1 DEF Plan, SaveAt
  <1>3. TypeOK /\ LineInv /\ SessionInv /\ OpenedInv /\ SavedInv /\ OldInv
    BY DEF Sound, InstallInv
  <1>4. /\ index \in 1 .. Len(Plan) /\ Len(Plan) \in Nat
        /\ SaveAt \in Nat /\ 2 < SaveAt /\ SaveAt <= Len(Plan)
        /\ Cmd(SaveAt) = "save" /\ Cmd(SaveAt - 1) = "write"
        /\ \A i \in 1 .. Len(Plan) :
             /\ Cmd(i) = "save" => i = SaveAt
             /\ Cmd(i) = "write" => i = SaveAt - 1
             /\ Cmd(i) = "key" => i < SaveAt /\ Plan[i].key \in Sets(package)
                                  /\ Plan[i].key \in Key
    BY SoundFacts
  <1>5. replies' = replies \union {"ok"}
    BY DEF Perform, Reply
  <1>6. package.name \in Value
    BY <1>3 DEF TypeOK, Value, Name
  <1>7. \/ /\ Cmd(index) = "key" /\ keys' = [keys EXCEPT ![Plan[index].key] = package.name]
           /\ UNCHANGED <<conf, flashKeys, flashConf>>
        \/ /\ Cmd(index) = "clear" /\ conf' = "part" /\ keys' = keys
           /\ \/ UNCHANGED <<flashKeys, flashConf>>
              \/ flashKeys' = [k \in Key |-> "none"] /\ flashConf' = "none"
        \/ /\ Cmd(index) = "write" /\ conf' = package.name
           /\ UNCHANGED <<keys, flashKeys, flashConf>>
        \/ /\ Cmd(index) = "save" /\ flashKeys' = keys /\ flashConf' = conf
           /\ UNCHANGED <<keys, conf>>
        \/ /\ Cmd(index) \notin {"key", "clear", "write", "save"}
           /\ UNCHANGED <<keys, conf, flashKeys, flashConf>>
    BY DEF Perform, Cmd, storeVars
  <1>8. /\ keys \in [Key -> Value] /\ flashKeys \in [Key -> Value]
        /\ conf \in Value \union {"part"} /\ flashConf \in Value \union {"part"}
        /\ "none" \in Value
    BY <1>3 DEF TypeOK, Value
  <1>9. /\ keys' \in [Key -> Value] /\ flashKeys' \in [Key -> Value]
        /\ conf' \in Value \union {"part"} /\ flashConf' \in Value \union {"part"}
    BY <1>4, <1>6, <1>7, <1>8
  \* A password that was the package's still is, and so is the one now set.
  <1>10. ASSUME NEW j \in 1 .. Len(Plan), Cmd(j) = "key",
                keys[Plan[j].key] = package.name \/ j = index
         PROVE  keys'[Plan[j].key] = package.name
    <2>1. Plan[j].key \in Key
      BY <1>4, <1>10
    <2>2. CASE Cmd(index) = "key"
      <3>1. keys' = [keys EXCEPT ![Plan[index].key] = package.name]
        BY <1>7, <2>2
      <3> QED BY <1>8, <1>10, <2>1, <3>1
    <2>3. CASE Cmd(index) # "key"
      <3>1. keys' = keys /\ j # index
        BY <1>7, <1>10, <2>3
      <3> QED BY <1>10, <3>1
    <2> QED BY <2>2, <2>3
  <1>11. \A k \in Key \ Sets(package) : keys'[k] = keys[k]
    <2>1. CASE Cmd(index) = "key"
      <3>1. Plan[index].key \in Sets(package) /\ keys' = [keys EXCEPT ![Plan[index].key] = package.name]
        BY <1>4, <1>7, <2>1
      <3> QED BY <1>8, <3>1
    <2>2. CASE Cmd(index) # "key"
      BY <1>7, <2>2
    <2> QED BY <2>1, <2>2
  <1>12. (\A j \in 1 .. Len(Plan) : Cmd(j) = "key" => keys[Plan[j].key] = package.name)
         => \A k \in Sets(package) : keys[k] = package.name
    <2> SUFFICES ASSUME \A j \in 1 .. Len(Plan) : Cmd(j) = "key" =>
                            keys[Plan[j].key] = package.name,
                        NEW k \in Sets(package)
                 PROVE  keys[k] = package.name
      OBVIOUS
    <2>1. PICK j \in 1 .. Len(Plan) : Plan[j] = [cmd |-> "key", key |-> k]
      BY DEF Sound, PlanIsBuilt, Step
    <2>2. Cmd(j) = "key" /\ Plan[j].key = k
      BY <2>1 DEF Cmd
    <2> QED BY <2>2
  <1>13. TypeOK' /\ SaidInv'
    <2>1. session' \in 0 .. Len(Plan) + 1
      <3>1. session \in 0 .. Len(Plan) + 1
        BY <1>3 DEF TypeOK
      <3>2. index + 1 \in 0 .. Len(Plan) + 1
        BY <1>4
      <3> QED BY <3>1, <3>2
    <2>2. granted' \in BOOLEAN /\ proved' \in BOOLEAN
      BY DEF Perform
    <2>3. Reply("ok")
      BY DEF Perform
    <2> QED BY <1>9, <2>1, <2>2, <2>3, RepliedSound
  <1>14. CASE package.sealed
    <2>1. /\ Sealed(index) /\ session = index /\ session' = index + 1
          /\ ~(Cmd(index) = "probe" /\ kind.old)
      BY <1>14
    <2>2. Cmd(index) \notin {"begin", "end"} /\ index # 1 /\ index # Len(Plan)
      BY <1>4, <1>14, <2>1 DEF Sealed, Sound, SealedIsBuilt
    <2>3. SaveAt = Len(Plan) - 1
      BY <1>14 DEF SaveAt
    <2>4. /\ \A j \in 1 .. index - 1 : Cmd(j) = "key" => keys[Plan[j].key] = package.name
          /\ index = SaveAt => conf = package.name
          /\ \A k \in Key \ Sets(package) : keys[k] = before.keys[k]
      <3>1. session > 0
        BY <1>4, <2>1
      <3> QED BY <1>3, <1>14, <2>1, <3>1 DEF SessionInv
    <2>5. LineInv'
      <3>1. session' \in {0, index, index + 1} /\ session' # index
        BY <1>4, <2>1
      <3>2. 1 \notin line
        BY <1>3, <2>2 DEF LineInv
      <3> QED BY <1>1, <1>3, <3>1, <3>2, Zenon DEF LineInv
    <2>6. SessionInv'
      <3>1. ASSUME NEW j \in 1 .. index, Cmd(j) = "key"
            PROVE  keys'[Plan[j].key] = package.name
        <4>1. j \in 1 .. Len(Plan) /\ (j = index \/ j \in 1 .. index - 1)
          BY <1>4
        <4> QED BY <1>10, <2>4, <3>1, <4>1
      <3>2. index + 1 = SaveAt => conf' = package.name
        <4>1. index + 1 = SaveAt => index = SaveAt - 1
          BY <1>4
        <4>2. Cmd(index) = "write" => conf' = package.name
          BY <1>7
        <4> QED BY <1>4, <4>1, <4>2
      <3>3. \A k \in Key \ Sets(package) : keys'[k] = before.keys[k]
        BY <1>11, <2>4
      <3>4. session' - 1 = index
        BY <1>4, <2>1
      <3> QED BY <1>1, <1>2, <2>1, <3>1, <3>2, <3>3, <3>4 DEF SessionInv, Cmd, Sets
    <2>7. SavedInv'
      <3> SUFFICES ASSUME SaveTaken'
                   PROVE  /\ flashConf' = package.name
                          /\ \A k \in Sets(package) : flashKeys'[k] = package.name
                          /\ \A k \in Key \ Sets(package) : flashKeys'[k] = before.keys[k]
        BY <1>1 DEF SavedInv, Committed, Sets
      <3>1. index = SaveAt
        <4>1. index > SaveAt \/ index = SaveAt
          BY <1>1, <1>2 DEF SaveTaken
        <4> QED BY <1>4, <2>2, <2>3, <4>1
      <3>2. flashKeys' = keys /\ flashConf' = conf
        BY <1>4, <1>7, <3>1
      <3>3. \A k \in Sets(package) : keys[k] = package.name
        <4>1. ASSUME NEW j \in 1 .. Len(Plan), Cmd(j) = "key"
              PROVE  keys[Plan[j].key] = package.name
          <5>1. j < SaveAt
            BY <1>4, <4>1
          <5>2. j \in 1 .. index - 1
            BY <1>4, <3>1, <5>1
          <5> QED BY <2>4, <4>1, <5>2
        <4> QED BY <1>12, <4>1
      <3> QED BY <2>4, <3>1, <3>2, <3>3
    <2>8. OpenedInv'
      BY <1>1, <1>14, Zenon DEF OpenedInv
    <2>9. OldInv'
      <3> SUFFICES ASSUME kind.old /\ package.sealed /\ package.probes /\ installs > 0 /\ ~disturbed
                   PROVE  FALSE
        BY <1>1, Zenon DEF OldInv
      <3>1. index <= 2
        BY <1>3, Zenon DEF OldInv
      <3>2. index = 2 /\ Cmd(2) = "probe"
        BY <1>4, <2>2, <3>1 DEF Sound, SealedIsBuilt
      <3> QED BY <2>1, <3>2
    <2> QED BY <1>13, <2>5, <2>6, <2>7, <2>8, <2>9 DEF InstallInv
  <1>15. CASE ~package.sealed
    <2>1. LineInv'
      BY <1>1, <1>3, <1>15, Zenon DEF LineInv
    <2>2. SessionInv' /\ OldInv'
      BY <1>1, <1>15, Zenon DEF SessionInv, OldInv
    <2>3. ASSUME ~disturbed
          PROVE  /\ ~failed => \A j \in 1 .. index - 1 : Cmd(j) = "key" => keys[Plan[j].key] = package.name
                 /\ "ok" \in replies /\ Cmd(index) = "key" => keys[Plan[index].key] = package.name
                 /\ failed => Cmd(index) = "key"
                 /\ index = SaveAt => conf = package.name
      BY <1>3, <1>15, <2>3 DEF OpenedInv
    <2>4. OpenedInv'
      <3> SUFFICES ASSUME ~disturbed
                   PROVE  /\ ~failed => \A j \in 1 .. index - 1 : Cmd(j) = "key" => keys'[Plan[j].key] = package.name
                          /\ Cmd(index) = "key" => keys'[Plan[index].key] = package.name
                          /\ failed => Cmd(index) = "key"
                          /\ index = SaveAt => conf' = package.name
                          /\ Cmd(index) = "write" => conf' = package.name
        <4>1. /\ package' = package /\ (disturbed' <=> disturbed) /\ (failed' <=> failed)
              /\ index' = index
          BY <1>1
        <4> QED BY <1>2, <4>1 DEF OpenedInv, Cmd
      <3>1. ASSUME ~failed, NEW j \in 1 .. index - 1, Cmd(j) = "key"
            PROVE  keys'[Plan[j].key] = package.name
        <4>1. j \in 1 .. Len(Plan)
          BY <1>4
        <4> QED BY <1>10, <2>3, <3>1, <4>1
      <3>2. Cmd(index) = "key" => keys'[Plan[index].key] = package.name
        BY <1>4, <1>10
      <3>3. index = SaveAt => conf' = package.name
        BY <1>4, <1>7, <2>3
      <3>4. Cmd(index) = "write" => conf' = package.name
        BY <1>7
      <3> QED BY <2>3, <3>1, <3>2, <3>3, <3>4
    <2>5. SavedInv'
      <3> SUFFICES ASSUME SaveTaken', ~disturbed
                   PROVE  /\ flashConf' = package.name
                          /\ \A k \in Sets(package) : flashKeys'[k] = package.name
        BY <1>1, <1>15, Zenon DEF SavedInv, Committed, Sets
      <3>1. index = SaveAt
        <4>1. index > SaveAt \/ index = SaveAt
          BY <1>1, <1>2 DEF SaveTaken
        <4>2. SaveAt = Len(Plan)
          BY <1>15 DEF SaveAt
        <4> QED BY <1>4, <4>1, <4>2
      <3>2. Cmd(index) = "save" /\ flashKeys' = keys /\ flashConf' = conf
        BY <1>4, <1>7, <3>1
      <3>3. ~failed
        BY <2>3, <3>2
      <3>4. \A k \in Sets(package) : keys[k] = package.name
        <4>1. ASSUME NEW j \in 1 .. Len(Plan), Cmd(j) = "key"
              PROVE  keys[Plan[j].key] = package.name
          <5>1. j < SaveAt
            BY <1>4, <4>1
          <5>2. j \in 1 .. index - 1
            BY <1>4, <3>1, <5>1
          <5> QED BY <2>3, <3>3, <4>1, <5>2
        <4> QED BY <1>12, <4>1
      <3> QED BY <2>3, <3>1, <3>2, <3>4
    <2> QED BY <1>13, <2>1, <2>2, <2>4, <2>5 DEF InstallInv
  <1> QED BY <1>14, <1>15

LEMMA UnitActsSound == Sound /\ UnitActs => InstallInv'
  <1> SUFFICES ASSUME Sound, UnitActs PROVE InstallInv'
    OBVIOUS
  <1>1. UNCHANGED <<hostVars, line, kind, history>>
    BY DEF UnitActs
  <1>2. index \in line /\ (TakeSession(index) \/ TakeSealed(index) \/ TakeInTheClear(index))
    <2>1. line \subseteq {index}
      BY DEF Sound, InstallInv, LineInv
    <2> QED BY <2>1 DEF UnitActs
  <1>3. session \in 0 .. Len(Plan) + 1
    BY DEF Sound, InstallInv, TypeOK
  <1>4. index \in 1 .. Len(Plan) /\ Len(Plan) \in Nat
    BY SoundFacts
  <1>5. index + 1 \in 0 .. Len(Plan) + 1
    BY <1>4
  <1>6. package.sealed \in BOOLEAN
    BY PackageConstants DEF Sound, InstallInv, TypeOK, PackageConstants, Package
  <1>7. CASE TakeSession(index)
    <2>1. /\ Cmd(index) \in {"begin", "end"} /\ Reply("ok")
          /\ UNCHANGED <<granted, proved, storeVars>>
          /\ session' = 0 \/ (Cmd(index) = "begin" /\ session' = index + 1)
      BY <1>7 DEF TakeSession
    <2>2. \/ session' = 0
          \/ package.sealed /\ Cmd(index) = "begin" /\ session' = index + 1
          \/ ~package.sealed /\ session' \in 0 .. Len(Plan) + 1
      BY <1>5, <1>6, <2>1
    <2> QED BY <1>1, <1>2, <2>1, <2>2, NothingDone
  <1>8. CASE TakeSealed(index)
    <2>1. Sealed(index) /\ package.sealed
      BY <1>8 DEF TakeSealed, Sealed
    <2>2. CASE /\ InStep(index) /\ ~(Cmd(index) = "probe" /\ kind.old)
               /\ session' = index + 1 /\ Perform(index)
      BY <1>1, <1>2, <2>1, <2>2, PerformSound DEF InStep
    <2>3. ASSUME NEW how \in {"refused", "unknown"}, Refuse(how), session' = 0
          PROVE  InstallInv'
      <3>1. Reply(how) /\ UNCHANGED <<granted, proved, storeVars>>
        BY <2>3 DEF Refuse
      <3> QED BY <1>1, <1>2, <2>3, <3>1, NothingDone
    <2> QED BY <1>8, <2>2, <2>3 DEF TakeSealed
  <1>9. CASE TakeInTheClear(index)
    <2>1. ~package.sealed /\ session' = session
      BY <1>9 DEF TakeInTheClear
    <2>2. CASE Perform(index)
      BY <1>1, <1>2, <2>1, <2>2, PerformSound
    <2>3. CASE Refuse("refused")
      <3>1. Reply("refused") /\ UNCHANGED <<granted, proved, storeVars>>
        BY <2>3 DEF Refuse
      <3> QED BY <1>1, <1>2, <1>3, <2>1, <3>1, NothingDone
    <2> QED BY <1>9, <2>2, <2>3 DEF TakeInTheClear
  <1> QED BY <1>2, <1>7, <1>8, <1>9

LEMMA StepSound == Sound /\ [Next]_vars => InstallInv'
  <1> SUFFICES ASSUME Sound, [Next]_vars PROVE InstallInv'
    OBVIOUS
  <1>1. CASE Cancel
    <2>1. cancelled' \in BOOLEAN
      BY <1>1 DEF Cancel
    <2> QED BY <1>1, <2>1, QuietSound DEF Cancel
  <1>2. CASE UNCHANGED vars
    <2>1. cancelled' \in BOOLEAN
      <3>1. cancelled' = cancelled
        BY <1>2 DEF vars, hostVars
      <3>2. cancelled \in BOOLEAN
        BY DEF Sound, InstallInv, TypeOK
      <3> QED BY <3>1, <3>2, Zenon
    <2> QED BY <1>2, <2>1, QuietSound DEF vars, hostVars
  <1> QED BY <1>1, <1>2, InstallSound, AnswerSound, UnitActsSound, RestartSound DEF Next

LEMMA InvIsSound == InstallInv => Sound
  BY PlansAreBuilt DEF Sound, InstallInv, TypeOK

LEMMA InstallInvariant == Spec => []InstallInv
  <1>1. Init => InstallInv
    BY InitSound
  <1>2. InstallInv /\ [Next]_vars => InstallInv'
    BY InvIsSound, StepSound
  <1> QED BY <1>1, <1>2, PTL DEF Spec

-----------------------------------------------------------------------------
(* What follows *)

\* Every variable of an install keeps its type.
THEOREM TypeCorrect == Spec => []TypeOK
  <1>1. InstallInv => TypeOK
    BY DEF InstallInv
  <1> QED BY <1>1, InstallInvariant, PTL

\* An install that onSendSecureConfiguration() or sendSealedPackage() calls
\* installed has put the configuration and its passwords in flash.
THEOREM SuccessIsTrue == Spec => []SuccessIsHonest
  <1>1. ASSUME Sound PROVE SuccessIsHonest
    <2> SUFFICES ASSUME said = "installed", package.sealed \/ ~disturbed
                 PROVE  flashConf = package.name /\ Committed
      BY DEF SuccessIsHonest
    <2>1. index = Len(Plan) /\ "ok" \in replies
      BY <1>1 DEF Sound, InstallInv, SaidInv
    <2>2. SaveTaken
      BY <1>1, <2>1, SoundFacts DEF SaveTaken
    <2> QED BY <1>1, <2>2 DEF Sound, InstallInv, SavedInv
  <1>2. InstallInv => SuccessIsHonest
    BY <1>1, InvIsSound
  <1> QED BY <1>2, InstallInvariant, PTL

\* The passwords a sealed package does not set are in flash as they were before.
THEOREM OthersStay == Spec => []OthersAreKept
  <1>1. ASSUME Sound PROVE OthersAreKept
    <2> SUFFICES ASSUME said = "installed", package.sealed
                 PROVE  \A k \in Key \ Sets(package) : flashKeys[k] = before.keys[k]
      BY DEF OthersAreKept
    <2>1. index = Len(Plan) /\ "ok" \in replies
      BY <1>1 DEF Sound, InstallInv, SaidInv
    <2>2. SaveTaken
      BY <1>1, <2>1, SoundFacts DEF SaveTaken
    <2> QED BY <1>1, <2>2 DEF Sound, InstallInv, SavedInv
  <1>2. InstallInv => OthersAreKept
    BY <1>1, InvIsSound
  <1> QED BY <1>2, InstallInvariant, PTL

\* A unit that lacks the command a package leads with is left as it was.
THEOREM OldUnitStays == Spec => []OldUnitIsUntouched
  <1>1. InstallInv => OldUnitIsUntouched
    BY Zenon DEF InstallInv, OldInv, OldUnitIsUntouched
  <1> QED BY <1>1, InstallInvariant, PTL

\* No step commits a configuration without the passwords of its package.
THEOREM CommitsWithPasswords == Spec => CommitsTogether
  <1> DEFINE Together == flashConf' # flashConf /\ flashConf' = package.name
                         /\ (package.sealed \/ ~disturbed) => Committed'
  <1>1. ASSUME Sound, [Next]_vars PROVE [Together]_vars
    <2> SUFFICES ASSUME flashConf' # flashConf, flashConf' = package.name,
                        package.sealed \/ ~disturbed
                 PROVE  Committed'
      OBVIOUS
    <2>1. UnitActs
      BY <1>1 DEF Next, vars, Install, Answer, Cancel, Restart, storeVars, unitVars
    <2>2. InstallInv'
      BY <1>1, StepSound
    <2>3. package' = package /\ index' = index /\ (disturbed' <=> disturbed)
      BY <2>1 DEF UnitActs, hostVars, history
    <2>4. PICK i \in line : TakeSession(i) \/ TakeSealed(i) \/ TakeInTheClear(i)
      BY <2>1 DEF UnitActs
    <2>5. i = index
      BY <1>1, <2>4 DEF Sound, InstallInv, LineInv
    <2>6. Perform(index)
      BY <2>4, <2>5 DEF TakeSession, TakeSealed, TakeInTheClear, Refuse, storeVars
    <2>7. Cmd(index) = "save" /\ "ok" \in replies'
      <3>1. package.name # "none"
        BY <1>1, PackageConstants DEF Sound, InstallInv, TypeOK, PackageConstants, Name
      <3> QED BY <2>6, <3>1 DEF Perform, Reply, Cmd, storeVars
    <2>8. index' = SaveAt'
      <3>1. SaveAt' = SaveAt
        BY <2>3 DEF SaveAt, Plan
      <3> QED BY <1>1, <2>3, <2>7, <3>1, SoundFacts
    <2>9. SaveTaken'
      BY <2>7, <2>8 DEF SaveTaken
    <2> QED BY <2>2, <2>3, <2>9, Zenon DEF InstallInv, SavedInv
  <1>2. InstallInv /\ [Next]_vars => [Together]_vars
    BY <1>1, InvIsSound
  <1> QED BY <1>2, InstallInvariant, PTL DEF Spec, CommitsTogether
=============================================================================
