-------------------------- MODULE GetTransferProofs --------------------------
(***************************************************************************)
(* The invariants of a Get, and of what the user is told of it, for all    *)
(* units: any tables of any sizes, any answers, any loss of replies.       *)
(*                                                                         *)
(* The plan is a recursive function of the unit, and it grows and shrinks  *)
(* while the Get runs.  So the proof has three parts: what the planning    *)
(* operators return, by induction over the number of tables (stated of     *)
(* sets of numbers, which needs no rule with an operator parameter); how   *)
(* a plan changes; and that every part the unit holds stays read, noted as *)
(* missing, or due in a step still ahead (GetInv).                         *)
(***************************************************************************)
EXTENDS GetResult, WellFoundedInduction, TLAPS

-----------------------------------------------------------------------------
(* Induction and recursion over the numbers *)

\* The order of the numbers as a well-founded set of pairs.
LEMMA Smaller ==
    \E R : IsWellFoundedOn(R, Nat) /\ \A m, n \in Nat : m < n => <<m, n>> \in R
  <1> DEFINE R == OpToRel(<, Nat)
  <1>1. IsWellFoundedOn(R, Nat) BY NatLessThanWellFounded
  <1>2. \A m, n \in Nat : m < n => <<m, n>> \in R BY DEF OpToRel
  <1> QED BY <1>1, <1>2

\* A set of numbers that is not empty has a least one.
LEMMA Least ==
    ASSUME NEW S, S \subseteq Nat, S # {}
    PROVE  \E n \in S : \A m \in S : n <= m
  <1>1. PICK R : IsWellFoundedOn(R, Nat) /\ \A m, n \in Nat : m < n => <<m, n>> \in R
    BY Smaller
  <1>2. PICK x \in S : \A y \in S : ~ (<<y, x>> \in R)
    <2>1. IsWellFoundedOn(R, Nat) BY <1>1
    <2>2. \E x \in S : \A y \in S : ~ (<<y, x>> \in R) BY <2>1, WFMin, Zenon
    <2> QED BY <2>2
  <1>3. x \in Nat /\ \A y \in S : y \in Nat /\ ~ (y < x) BY <1>1, <1>2
  <1> QED BY <1>2, <1>3

\* Induction over the numbers, for a set: no operator parameter to instantiate.
LEMMA Induction ==
    ASSUME NEW S, 0 \in S, \A n \in Nat : n \in S => n + 1 \in S
    PROVE  Nat \subseteq S
  <1> DEFINE T == Nat \ S
  <1> SUFFICES ASSUME T # {} PROVE FALSE OBVIOUS
  <1>1. PICK n \in T : \A m \in T : n <= m
    <2>1. T \subseteq Nat OBVIOUS
    <2> HIDE DEF T
    <2> QED BY <2>1, Least
  <1>2. n \in Nat /\ n # 0 OBVIOUS
  <1>3. n - 1 \in Nat /\ ~ (n <= n - 1) BY <1>2
  <1>4. n - 1 \in S BY <1>1, <1>3
  <1>5. (n - 1) + 1 \in S BY <1>3, <1>4
  <1>6. n \in S BY <1>2, <1>5
  <1> QED BY <1>6

HasRecursion(V, b, N, G) ==
    \E f \in [0 .. N -> V] : f[0] = b /\ \A m \in 1 .. N : f[m] = G[<<f[m - 1], m>>]

\* A function can be defined by recursion on the numbers up to N.
LEMMA Recursion ==
    ASSUME NEW V, NEW b \in V, NEW N \in Nat, NEW G \in [V \X Nat -> V]
    PROVE  HasRecursion(V, b, N, G)
  <1> DEFINE Is(f, n) == /\ f \in [0 .. n -> V]
                         /\ f[0] = b /\ \A m \in 1 .. n : f[m] = G[<<f[m - 1], m>>]
             S == {n \in Nat : \E f \in [0 .. n -> V] : Is(f, n)}
  <1>1. 0 \in S
    <2> DEFINE g == [m \in 0 .. 0 |-> b]
    <2>1. Is(g, 0) OBVIOUS
    <2> QED BY <2>1
  <1>2. ASSUME NEW n \in Nat, n \in S PROVE n + 1 \in S
    <2>1. PICK f \in [0 .. n -> V] : Is(f, n) BY <1>2
    <2> DEFINE g == [m \in 0 .. n + 1 |-> IF m = n + 1 THEN G[<<f[n], n + 1>>] ELSE f[m]]
    <2>2. <<f[n], n + 1>> \in V \X Nat OBVIOUS
    <2>3. G[<<f[n], n + 1>>] \in V BY <2>2
    <2>4. g \in [0 .. n + 1 -> V] BY <2>3
    <2>5. g[0] = b /\ g[n] = f[n] /\ g[n + 1] = G[<<f[n], n + 1>>] BY <2>1
    <2>6. ASSUME NEW m \in 1 .. n + 1 PROVE g[m] = G[<<g[m - 1], m>>]
      <3>1. CASE m = n + 1
        <4>1. m - 1 = n BY <3>1
        <4> HIDE DEF g
        <4> QED BY <2>5, <3>1, <4>1
      <3>2. CASE m # n + 1
        <4>1. m \in 1 .. n /\ m - 1 \in 0 .. n /\ m \in 0 .. n + 1 /\ m - 1 # n + 1 BY <3>2
        <4>2. g[m] = f[m] /\ g[m - 1] = f[m - 1] BY <4>1
        <4> HIDE DEF g
        <4> QED BY <2>1, <4>1, <4>2
      <3> QED BY <3>1, <3>2
    <2> HIDE DEF g
    <2>7. Is(g, n + 1) BY <2>4, <2>5, <2>6
    <2> QED BY <2>4, <2>7
  <1>3. N \in S
    <2> HIDE DEF S
    <2> QED BY <1>1, <1>2, Induction
  <1> QED BY <1>3 DEF HasRecursion

-----------------------------------------------------------------------------
(* The reads of tables, as they are planned *)

Tables == [name : STRING, chunks : Nat]
Commands == {"ping", "usage", "read", "labels", "single", "project"}
TableNames == STRING \union {"none", "usage", "busSetup", "channelsExt", "project"}
Steps == [cmd : Commands, table : TableNames, start : Nat, optional : BOOLEAN, lenient : {FALSE},
          quiet : BOOLEAN]

\* A read step has the fields it is built with.
LEMMA ReadStepIs ==
    ASSUME NEW cmd \in Commands, NEW t \in TableNames, NEW i \in Nat
    PROVE  /\ ReadStep(cmd, t, i) \in Steps
           /\ ReadStep(cmd, t, i).cmd = cmd /\ ReadStep(cmd, t, i).table = t
           /\ ReadStep(cmd, t, i).start = i /\ ReadStep(cmd, t, i).optional = FALSE
           /\ ReadStep(cmd, t, i).quiet = FALSE
  BY DEF ReadStep, Steps

\* w is s with t behind it.
IsJoined(w, s, t) ==
    /\ Len(w) = Len(s) + Len(t)
    /\ \A k \in 1 .. Len(s) : w[k] = s[k]
    /\ \A k \in 1 .. Len(t) : w[Len(s) + k] = t[k]
    /\ \A k \in Len(s) + 1 .. Len(s) + Len(t) : w[k] = t[k - Len(s)]

\* The concatenation of two sequences is the one with the other behind it.
LEMMA Joined ==
    ASSUME NEW S, NEW s \in Seq(S), NEW t \in Seq(S)
    PROVE  s \o t \in Seq(S) /\ IsJoined(s \o t, s, t)
  BY DEF IsJoined

\* Reads has one step per chunk of the table, in order.
LEMMA ReadsAre ==
    ASSUME NEW cmd \in Commands, NEW table \in Tables
    PROVE  /\ Reads(cmd, table) \in Seq(Steps) /\ Len(Reads(cmd, table)) = table.chunks
           /\ \A k \in 1 .. table.chunks : Reads(cmd, table)[k] = ReadStep(cmd, table.name, k - 1)
  <1>1. table.chunks \in Nat /\ table.name \in TableNames BY DEF Tables, TableNames
  <1>2. \A k \in 1 .. table.chunks : ReadStep(cmd, table.name, k - 1) \in Steps
    <2> SUFFICES ASSUME NEW k \in 1 .. table.chunks
                 PROVE  ReadStep(cmd, table.name, k - 1) \in Steps
      OBVIOUS
    <2>1. k - 1 \in Nat BY <1>1
    <2> QED BY <1>1, <2>1, ReadStepIs
  <1> QED BY <1>1, <1>2 DEF Reads

\* f[n] are the reads of the first n tables.
Prefixes(f, cmd, ts) ==
    /\ f \in [0 .. Len(ts) -> Seq(Steps)]
    /\ f[0] = <<>>
    /\ \A n \in 1 .. Len(ts) : f[n] = f[n - 1] \o Reads(cmd, ts[n])

\* AllReads' recursive function exists: f[n] is the reads of the first n tables.
LEMMA AllReadsDef ==
    ASSUME NEW cmd \in Commands, NEW ts \in Seq(Tables)
    PROVE  \E f : Prefixes(f, cmd, ts) /\ AllReads(cmd, ts) = f[Len(ts)]
  <1> DEFINE N == Len(ts)
             V == Seq(Steps)
             R(n) == IF n \in 1 .. N THEN Reads(cmd, ts[n]) ELSE <<>>
             G == [p \in V \X Nat |-> p[1] \o R(p[2])]
             Is(f) == f = [n \in 0 .. N |-> IF n = 0 THEN <<>> ELSE f[n - 1] \o Reads(cmd, ts[n])]
             f == CHOOSE g : Is(g)
  <1>1. N \in Nat /\ <<>> \in V /\ \A n \in 1 .. N : ts[n] \in Tables OBVIOUS
  <1>2. \A n : R(n) \in V BY <1>1, ReadsAre
  <1>3. G \in [V \X Nat -> V]
    <2> HIDE DEF R
    <2>1. \A p \in V \X Nat : p[1] \o R(p[2]) \in V BY <1>2
    <2> QED BY <2>1
  <1>4. PICK g \in [0 .. N -> V] : g[0] = <<>> /\ \A m \in 1 .. N : g[m] = G[<<g[m - 1], m>>]
    <2>1. N \in Nat /\ <<>> \in V BY <1>1
    <2>2. HasRecursion(V, <<>>, N, G)
      <3> HIDE DEF G, V, N
      <3> QED BY <2>1, <1>3, Recursion
    <2> QED BY <2>2 DEF HasRecursion
  <1>5. ASSUME NEW n \in 1 .. N PROVE g[n] = g[n - 1] \o Reads(cmd, ts[n])
    <2>1. n - 1 \in 0 .. N /\ n \in Nat BY <1>1
    <2>2. g[n - 1] \in V BY <2>1
    <2>3. <<g[n - 1], n>> \in V \X Nat BY <2>1, <2>2
    <2>4. G[<<g[n - 1], n>>] = g[n - 1] \o Reads(cmd, ts[n])
      <3> HIDE DEF V, N
      <3> QED BY <2>3
    <2> QED BY <1>4, <2>4
  <1>6. Is(g)
    <2> DEFINE h == [n \in 0 .. N |-> IF n = 0 THEN <<>> ELSE g[n - 1] \o Reads(cmd, ts[n])]
    <2>1. \A n \in 0 .. N : n # 0 => n \in 1 .. N BY <1>1
    <2>2. \A n \in 0 .. N : g[n] = h[n]
      <3> HIDE DEF G, N, V
      <3> QED BY <1>4, <1>5, <2>1
    <2>3. g = [n \in 0 .. N |-> g[n]]
      <3> HIDE DEF G, N, V
      <3> QED OBVIOUS
    <2> QED BY <2>2, <2>3
  <1>7. Is(f)
    <2> HIDE DEF Is
    <2> QED BY <1>6
  <1>8. ASSUME NEW h, Is(h)
        PROVE  h = f => h[0] = <<>> /\ \A n \in 1 .. N : h[n] = h[n - 1] \o Reads(cmd, ts[n])
    <2>1. 0 \in 0 .. N /\ \A n \in 1 .. N : n \in 0 .. N /\ n # 0 BY <1>1
    <2> HIDE DEF f, N
    <2> QED BY <1>8, <2>1
  <1>9. f[0] = <<>> /\ \A n \in 1 .. N : f[n] = f[n - 1] \o Reads(cmd, ts[n])
    <2> HIDE DEF f, Is
    <2> QED BY <1>7, <1>8
  <1>10. f = [n \in 0 .. N |-> f[n]]
    <2> HIDE DEF f, N
    <2> QED BY <1>7
  <1>11. \A n \in 0 .. N : f[n] \in V
    <2> DEFINE S == {n \in Nat : n <= N => f[n] \in V}
    <2> HIDE DEF f
    <2>1. 0 \in S BY <1>1, <1>9
    <2>2. ASSUME NEW n \in Nat, n \in S PROVE n + 1 \in S
      <3> SUFFICES ASSUME n + 1 <= N PROVE f[n + 1] \in V BY <2>2
      <3>1. n + 1 \in 1 .. N /\ (n + 1) - 1 = n /\ n <= N BY <1>1
      <3>2. f[n + 1] = f[n] \o Reads(cmd, ts[n + 1]) BY <1>9, <3>1
      <3>3. f[n] \in V /\ Reads(cmd, ts[n + 1]) \in V BY <2>2, <3>1, <1>1, ReadsAre
      <3> HIDE DEF S
      <3> QED BY <3>2, <3>3, Joined
    <2>3. Nat \subseteq S
      <3> HIDE DEF S
      <3> QED BY <2>1, <2>2, Induction
    <2> QED BY <1>1, <2>3
  <1>12. AllReads(cmd, ts) = f[N] BY Zenon DEF AllReads
  <1>13. f \in [0 .. N -> V]
    <2> HIDE DEF f, N, V
    <2> QED BY <1>10, <1>11
  <1>14. Prefixes(f, cmd, ts)
    <2> HIDE DEF f
    <2> QED BY <1>9, <1>13 DEF Prefixes
  <1> QED BY <1>12, <1>14

\* The step that reads part p.
IsStep(s, cmd, p) == s.cmd = cmd /\ s.table = p[1] /\ s.start = p[2]

\* s reads just the chunks of the first n tables.
ReadsUpTo(s, cmd, ts, n) ==
    /\ \A k \in 1 .. Len(s) : \E j \in 1 .. n : \E i \in 0 .. ts[j].chunks - 1 :
          s[k] = ReadStep(cmd, ts[j].name, i)
    /\ \A j \in 1 .. n : \A i \in 0 .. ts[j].chunks - 1 : \E k \in 1 .. Len(s) :
          s[k] = ReadStep(cmd, ts[j].name, i)

\* With the reads of one more table behind them, the reads of n tables are those
\* of n + 1.
LEMMA NextTable ==
    ASSUME NEW cmd \in Commands, NEW ts \in Seq(Tables), NEW n \in Nat, n + 1 <= Len(ts),
           NEW s \in Seq(Steps), ReadsUpTo(s, cmd, ts, n)
    PROVE  ReadsUpTo(s \o Reads(cmd, ts[n + 1]), cmd, ts, n + 1)
  <1> DEFINE table == ts[n + 1]
             r == Reads(cmd, table)
             m == Len(s)
             c == table.chunks
  <1>1. table \in Tables /\ c \in Nat /\ m \in Nat
    <2>1. n + 1 \in 1 .. Len(ts) OBVIOUS
    <2>2. table \in Tables BY <2>1
    <2> QED BY <2>2 DEF Tables
  <1>2. /\ r \in Seq(Steps) /\ Len(r) = c
        /\ \A k \in 1 .. c : r[k] = ReadStep(cmd, table.name, k - 1)
    BY <1>1, ReadsAre
  <1>3. /\ Len(s \o r) = m + c
        /\ \A k \in 1 .. m : (s \o r)[k] = s[k]
        /\ \A k \in 1 .. c : (s \o r)[m + k] = r[k]
        /\ \A k \in m + 1 .. m + c : (s \o r)[k] = r[k - m]
    <2>1. r \in Seq(Steps) /\ Len(r) = c BY <1>2
    <2> HIDE DEF r, c
    <2>2. IsJoined(s \o r, s, r) BY <2>1, Joined
    <2> QED BY <2>1, <2>2 DEF IsJoined
  <1> DEFINE w == s \o r
  <1>n. 1 .. n \subseteq 1 .. n + 1 /\ n + 1 \in 1 .. n + 1 OBVIOUS
  <1>4. ASSUME NEW k \in 1 .. Len(w)
        PROVE  \E j \in 1 .. n + 1 : \E i \in 0 .. ts[j].chunks - 1 :
                  w[k] = ReadStep(cmd, ts[j].name, i)
    <2>1. CASE k \in 1 .. m
      <3>1. w[k] = s[k] BY <1>3, <2>1
      <3>2. \E j \in 1 .. n : \E i \in 0 .. ts[j].chunks - 1 : s[k] = ReadStep(cmd, ts[j].name, i)
        BY <2>1 DEF ReadsUpTo
      <3> HIDE DEF w, table
      <3> QED BY <3>1, <3>2, <1>n
    <2>2. CASE ~ (k \in 1 .. m)
      <3>1. k \in m + 1 .. m + c /\ k - m \in 1 .. c /\ (k - m) - 1 \in 0 .. c - 1
        BY <1>1, <1>3, <2>2
      <3>2. w[k] = ReadStep(cmd, table.name, (k - m) - 1)
        <4>1. w[k] = r[k - m] BY <1>3, <3>1
        <4> HIDE DEF w, r, table
        <4> QED BY <4>1, <1>2, <3>1
      <3> HIDE DEF w
      <3> QED BY <3>1, <3>2, <1>n
    <2> QED BY <2>1, <2>2
  <1>5. ASSUME NEW j \in 1 .. n + 1, NEW i \in 0 .. ts[j].chunks - 1
        PROVE  \E k \in 1 .. Len(w) : w[k] = ReadStep(cmd, ts[j].name, i)
    <2>1. CASE j \in 1 .. n
      <3>1. PICK k \in 1 .. m : s[k] = ReadStep(cmd, ts[j].name, i) BY <2>1 DEF ReadsUpTo
      <3>2. k \in 1 .. Len(w) BY <1>1, <1>3
      <3>3. w[k] = s[k] BY <1>3
      <3> HIDE DEF w
      <3> QED BY <3>1, <3>2, <3>3
    <2>2. CASE ~ (j \in 1 .. n)
      <3>1. j = n + 1 BY <2>2
      <3>2. i \in 0 .. c - 1 BY <3>1
      <3>3. i + 1 \in 1 .. c /\ m + (i + 1) \in 1 .. Len(w) /\ (i + 1) - 1 = i
        BY <1>1, <1>3, <3>2
      <3>4. w[m + (i + 1)] = r[i + 1] BY <1>3, <3>3
      <3>5. r[i + 1] = ReadStep(cmd, table.name, (i + 1) - 1)
        <4> HIDE DEF r
        <4> QED BY <1>2, <3>3
      <3>6. w[m + (i + 1)] = ReadStep(cmd, ts[j].name, i) BY <3>1, <3>3, <3>4, <3>5
      <3> HIDE DEF w
      <3> QED BY <3>3, <3>6
    <2> QED BY <2>1, <2>2
  <1> HIDE DEF w
  <1> QED BY <1>4, <1>5 DEF ReadsUpTo, w

\* f[n] reads just the chunks of the first n tables, each with a plain step.
LEMMA PrefixesRead ==
    ASSUME NEW cmd \in Commands, NEW ts \in Seq(Tables), NEW f, Prefixes(f, cmd, ts)
    PROVE  \A n \in 0 .. Len(ts) : f[n] \in Seq(Steps) /\ ReadsUpTo(f[n], cmd, ts, n)
  <1> DEFINE P(n) == ReadsUpTo(f[n], cmd, ts, n)
             S == {n \in Nat : n <= Len(ts) => P(n)}
  <1>1. 0 \in S
    <2>1. Len(f[0]) = 0 BY DEF Prefixes
    <2>2. P(0) BY <2>1 DEF ReadsUpTo
    <2> QED BY <2>2
  <1> HIDE DEF P
  <1>2. ASSUME NEW n \in Nat, n \in S PROVE n + 1 \in S
    <2> SUFFICES ASSUME n + 1 <= Len(ts) PROVE P(n + 1) OBVIOUS
    <2>1. n \in 0 .. Len(ts) /\ n + 1 \in 1 .. Len(ts) /\ (n + 1) - 1 = n OBVIOUS
    <2>2. P(n) BY <1>2, <2>1
    <2>3. f[n] \in Seq(Steps) /\ f[n + 1] = f[n] \o Reads(cmd, ts[n + 1])
      BY <2>1 DEF Prefixes
    <2> HIDE DEF S
    <2> QED BY <2>2, <2>3, NextTable DEF P
  <1>3. Nat \subseteq S
    <2> HIDE DEF S
    <2> QED BY <1>1, <1>2, Induction
  <1>4. \A n \in 0 .. Len(ts) : n \in Nat /\ n <= Len(ts) OBVIOUS
  <1>5. \A n \in 0 .. Len(ts) : P(n) BY <1>3, <1>4
  <1> QED BY <1>5 DEF Prefixes, P

\* The reads of more tables begin with those of fewer.
LEMMA PrefixesGrow ==
    ASSUME NEW cmd \in Commands, NEW ts \in Seq(Tables), NEW f, Prefixes(f, cmd, ts),
           NEW m \in 0 .. Len(ts)
    PROVE  Len(f[m]) <= Len(f[Len(ts)]) /\ \A k \in 1 .. Len(f[m]) : f[Len(ts)][k] = f[m][k]
  <1> DEFINE P(n) == Len(f[m]) <= Len(f[n]) /\ \A k \in 1 .. Len(f[m]) : f[n][k] = f[m][k]
             S == {n \in Nat : m <= n /\ n <= Len(ts) => P(n)}
  <1>1. 0 \in S
    <2>1. ASSUME m <= 0 PROVE P(0)
      <3>1. m = 0 BY <2>1
      <3>2. f[m] \in Seq(Steps) BY DEF Prefixes
      <3> QED BY <3>1, <3>2
    <2> QED BY <2>1
  <1>2. ASSUME NEW n \in Nat, n \in S PROVE n + 1 \in S
    <2> SUFFICES ASSUME m <= n + 1, n + 1 <= Len(ts) PROVE P(n + 1) OBVIOUS
    <2>1. CASE m = n + 1
      <3>1. f[m] \in Seq(Steps) BY DEF Prefixes
      <3> QED BY <2>1, <3>1
    <2>2. CASE m # n + 1
      <3>1. m <= n /\ n \in 0 .. Len(ts) /\ n + 1 \in 1 .. Len(ts) /\ (n + 1) - 1 = n BY <2>2
      <3>2. P(n) BY <1>2, <3>1
      <3> DEFINE r == Reads(cmd, ts[n + 1])
      <3>3. f[n] \in Seq(Steps) /\ f[n + 1] = f[n] \o r /\ f[m] \in Seq(Steps)
        BY <3>1 DEF Prefixes
      <3>4. r \in Seq(Steps) BY <3>1, ReadsAre
      <3> HIDE DEF r
      <3>5. Len(f[n + 1]) = Len(f[n]) + Len(r) /\ \A k \in 1 .. Len(f[n]) : f[n + 1][k] = f[n][k]
        BY <3>3, <3>4, Joined DEF IsJoined
      <3>6. Len(f[m]) \in Nat /\ Len(f[n]) \in Nat /\ Len(r) \in Nat BY <3>3, <3>4
      <3>7. Len(f[m]) <= Len(f[n + 1]) BY <3>2, <3>5, <3>6
      <3>8. \A k \in 1 .. Len(f[m]) : k \in 1 .. Len(f[n]) BY <3>2, <3>6
      <3> QED BY <3>2, <3>5, <3>7, <3>8
    <2> QED BY <2>1, <2>2
  <1>3. Nat \subseteq S
    <2> HIDE DEF S
    <2> QED BY <1>1, <1>2, Induction
  <1>4. Len(ts) \in Nat /\ m <= Len(ts) OBVIOUS
  <1> HIDE DEF P
  <1>5. P(Len(ts)) BY <1>3, <1>4
  <1> QED BY <1>5 DEF P

\* The first m tables of two sequences are the same.
SameUpTo(ts, us, m) ==
    m <= Len(ts) /\ m <= Len(us) /\ \A n \in 1 .. m : ts[n] = us[n]
Agree(f, g, m) == f[m] = g[m]

\* The reads of the first m tables do not depend on the tables behind them.
LEMMA PrefixesAgree ==
    ASSUME NEW cmd \in Commands, NEW ts \in Seq(Tables), NEW us \in Seq(Tables), NEW f, NEW g,
           Prefixes(f, cmd, ts), Prefixes(g, cmd, us), NEW m \in Nat, SameUpTo(ts, us, m)
    PROVE  Agree(f, g, m)
  <1> DEFINE S == {n \in Nat : n <= m => f[n] = g[n]}
  <1>1. 0 \in S BY DEF Prefixes
  <1>2. ASSUME NEW n \in Nat, n \in S PROVE n + 1 \in S
    <2> SUFFICES ASSUME n + 1 <= m PROVE f[n + 1] = g[n + 1] OBVIOUS
    <2>1. n + 1 \in 1 .. m /\ n + 1 \in 1 .. Len(ts) /\ n + 1 \in 1 .. Len(us) /\ n <= m
          /\ (n + 1) - 1 = n
      BY DEF SameUpTo
    <2>2. f[n] = g[n] BY <1>2, <2>1
    <2>3. f[n + 1] = f[n] \o Reads(cmd, ts[n + 1]) BY <2>1 DEF Prefixes
    <2>4. g[n + 1] = g[n] \o Reads(cmd, us[n + 1]) BY <2>1 DEF Prefixes
    <2>5. ts[n + 1] = us[n + 1] BY <2>1 DEF SameUpTo
    <2> HIDE DEF S
    <2> QED BY <2>2, <2>3, <2>4, <2>5
  <1>3. Nat \subseteq S
    <2> HIDE DEF S
    <2> QED BY <1>1, <1>2, Induction
  <1> QED BY <1>3 DEF Agree

PartsOf(ts) == UNION {Chunks(ts[i]) : i \in 1 .. Len(ts)}

\* s reads the parts ps and nothing else; nothing of it quietly, or if it can.
Asks(s, cmd, ps) ==
    /\ \A k \in 1 .. Len(s) :
          ~ s[k].quiet /\ ~ s[k].optional /\ \E p \in ps : IsStep(s[k], cmd, p)
    /\ \A p \in ps : \E k \in 1 .. Len(s) : IsStep(s[k], cmd, p)

\* What reads n tables asks for their chunks and nothing else.
LEMMA ReadsUpToAsks ==
    ASSUME NEW cmd \in Commands, NEW ts \in Seq(Tables), NEW s, NEW n \in 0 .. Len(ts),
           ReadsUpTo(s, cmd, ts, n)
    PROVE  Asks(s, cmd, UNION {Chunks(ts[i]) : i \in 1 .. n})
  <1> DEFINE ps == UNION {Chunks(ts[i]) : i \in 1 .. n}
  <1>1. \A j \in 1 .. n : ts[j].name \in STRING /\ ts[j].chunks \in Nat
    <2>1. \A j \in 1 .. n : ts[j] \in Tables OBVIOUS
    <2> QED BY <2>1 DEF Tables
  <1>2. \A j \in 1 .. n : \A i \in 0 .. ts[j].chunks - 1 :
           LET r == ReadStep(cmd, ts[j].name, i)
           IN  r.cmd = cmd /\ r.table = ts[j].name /\ r.start = i /\ r.quiet = FALSE
               /\ r.optional = FALSE
    BY <1>1 DEF ReadStep
  <1>3. ASSUME NEW k \in 1 .. Len(s)
        PROVE  ~ s[k].quiet /\ ~ s[k].optional /\ \E p \in ps : IsStep(s[k], cmd, p)
    <2>1. PICK j \in 1 .. n : \E i \in 0 .. ts[j].chunks - 1 : s[k] = ReadStep(cmd, ts[j].name, i)
      BY DEF ReadsUpTo
    <2>2. PICK i \in 0 .. ts[j].chunks - 1 : s[k] = ReadStep(cmd, ts[j].name, i) BY <2>1
    <2>3. <<ts[j].name, i>> \in Chunks(ts[j]) BY DEF Chunks
    <2>4. <<ts[j].name, i>> \in ps BY <2>3
    <2>5. s[k].cmd = cmd /\ s[k].table = ts[j].name /\ s[k].start = i /\ s[k].quiet = FALSE
          /\ s[k].optional = FALSE
      BY <1>2, <2>2
    <2>6. IsStep(s[k], cmd, <<ts[j].name, i>>) BY <2>5 DEF IsStep
    <2> QED BY <2>4, <2>5, <2>6
  <1>4. ASSUME NEW p \in ps PROVE \E k \in 1 .. Len(s) : IsStep(s[k], cmd, p)
    <2>1. PICK j \in 1 .. n : p \in Chunks(ts[j]) OBVIOUS
    <2>2. PICK i \in 0 .. ts[j].chunks - 1 : p = <<ts[j].name, i>> BY <2>1 DEF Chunks
    <2>3. PICK k \in 1 .. Len(s) : s[k] = ReadStep(cmd, ts[j].name, i) BY DEF ReadsUpTo
    <2>5. s[k].cmd = cmd /\ s[k].table = ts[j].name /\ s[k].start = i
      BY <1>2, <2>3
    <2>6. IsStep(s[k], cmd, p) BY <2>2, <2>5 DEF IsStep
    <2> QED BY <2>6
  <1> HIDE DEF ps
  <1> QED BY <1>3, <1>4 DEF Asks, ps

\* AllReads asks for every chunk of the tables, and for nothing else.
LEMMA AllReadsAsk ==
    ASSUME NEW cmd \in Commands, NEW ts \in Seq(Tables)
    PROVE  AllReads(cmd, ts) \in Seq(Steps) /\ Asks(AllReads(cmd, ts), cmd, PartsOf(ts))
  <1>1. PICK f : Prefixes(f, cmd, ts) /\ AllReads(cmd, ts) = f[Len(ts)] BY AllReadsDef
  <1>2. Len(ts) \in 0 .. Len(ts) OBVIOUS
  <1>3. f[Len(ts)] \in Seq(Steps) /\ ReadsUpTo(f[Len(ts)], cmd, ts, Len(ts))
    BY <1>1, <1>2, PrefixesRead
  <1>4. Asks(f[Len(ts)], cmd, PartsOf(ts)) BY <1>2, <1>3, ReadsUpToAsks DEF PartsOf
  <1> QED BY <1>1, <1>3, <1>4

Begins(s, w) == Len(s) <= Len(w) /\ \A k \in 1 .. Len(s) : w[k] = s[k]

\* The reads of the first m tables come first in the reads of all of them.
LEMMA FirstReadsFirst ==
    ASSUME NEW cmd \in Commands, NEW ts \in Seq(Tables), NEW m \in Nat, m <= Len(ts)
    PROVE  /\ AllReads(cmd, SubSeq(ts, 1, m)) \in Seq(Steps)
           /\ Asks(AllReads(cmd, SubSeq(ts, 1, m)), cmd, UNION {Chunks(ts[i]) : i \in 1 .. m})
           /\ Begins(AllReads(cmd, SubSeq(ts, 1, m)), AllReads(cmd, ts))
  <1> DEFINE us == SubSeq(ts, 1, m)
  <1>1. us \in Seq(Tables) /\ Len(us) = m /\ \A n \in 1 .. m : us[n] = ts[n] OBVIOUS
  <1> HIDE DEF us
  <1>2. PICK f : Prefixes(f, cmd, ts) /\ AllReads(cmd, ts) = f[Len(ts)] BY AllReadsDef
  <1>3. PICK g : Prefixes(g, cmd, us) /\ AllReads(cmd, us) = g[m] BY <1>1, AllReadsDef
  <1>4. f[m] = g[m]
    <2>1. SameUpTo(ts, us, m) BY <1>1 DEF SameUpTo
    <2>2. Prefixes(f, cmd, ts) /\ Prefixes(g, cmd, us) /\ us \in Seq(Tables)
      BY <1>1, <1>2, <1>3
    <2>3. Agree(f, g, m) BY <2>1, <2>2, PrefixesAgree
    <2> QED BY <2>3 DEF Agree
  <1>5. m \in 0 .. Len(ts) OBVIOUS
  <1>6. f[m] \in Seq(Steps) /\ ReadsUpTo(f[m], cmd, ts, m) BY <1>2, <1>5, PrefixesRead
  <1>7. Asks(f[m], cmd, UNION {Chunks(ts[i]) : i \in 1 .. m}) BY <1>5, <1>6, ReadsUpToAsks
  <1>8. Len(f[m]) <= Len(f[Len(ts)]) /\ \A k \in 1 .. Len(f[m]) : f[Len(ts)][k] = f[m][k]
    BY <1>2, <1>5, PrefixesGrow
  <1>9. /\ AllReads(cmd, us) \in Seq(Steps)
        /\ Asks(AllReads(cmd, us), cmd, UNION {Chunks(ts[i]) : i \in 1 .. m})
        /\ Begins(AllReads(cmd, us), AllReads(cmd, ts))
    BY <1>2, <1>3, <1>4, <1>6, <1>7, <1>8 DEF Begins
  <1> QED BY <1>9 DEF us

\* OptionalFrom changes no step but for the flag, and none of the first n.
LEMMA OptionalFromIs ==
    ASSUME NEW n \in Nat, NEW s \in Seq(Steps)
    PROVE  /\ OptionalFrom(n, s) \in Seq(Steps) /\ Len(OptionalFrom(n, s)) = Len(s)
           /\ \A k \in 1 .. Len(s) :
                 /\ OptionalFrom(n, s)[k].cmd = s[k].cmd /\ OptionalFrom(n, s)[k].table = s[k].table
                 /\ OptionalFrom(n, s)[k].start = s[k].start
                 /\ OptionalFrom(n, s)[k].quiet = s[k].quiet
                 /\ k <= n => OptionalFrom(n, s)[k] = s[k]
  <1>1. DOMAIN s = 1 .. Len(s) /\ \A k \in 1 .. Len(s) : s[k] \in Steps OBVIOUS
  <1>2. \A e \in Steps : /\ MadeOptional(e) \in Steps /\ MadeOptional(e).cmd = e.cmd
                         /\ MadeOptional(e).table = e.table /\ MadeOptional(e).start = e.start
                         /\ MadeOptional(e).quiet = e.quiet
    BY DEF MadeOptional, Steps
  <1> DEFINE w == [k \in 1 .. Len(s) |-> IF k > n THEN MadeOptional(s[k]) ELSE s[k]]
  <1>3. OptionalFrom(n, s) = w BY <1>1 DEF OptionalFrom
  <1>4. w \in Seq(Steps) /\ Len(w) = Len(s)
    <2>1. \A k \in 1 .. Len(s) : w[k] \in Steps BY <1>1, <1>2
    <2> QED BY <2>1
  <1>5. \A k \in 1 .. Len(s) : /\ w[k].cmd = s[k].cmd /\ w[k].table = s[k].table
                               /\ w[k].start = s[k].start /\ w[k].quiet = s[k].quiet
                               /\ k <= n => w[k] = s[k]
    BY <1>1, <1>2
  <1> HIDE DEF w
  <1> QED BY <1>3, <1>4, <1>5

\* What a unit's tables, in TableReadSteps' order, come to as steps.
TableReads(T, u) ==
    /\ T \in Seq(Steps)
    /\ \A k \in 1 .. Len(T) :
          /\ ~ T[k].quiet
          /\ \/ \E p \in Records(u) : IsStep(T[k], "read", p)
             \/ \E p \in Names(u) : IsStep(T[k], "labels", p)
    /\ \A p \in Records(u) : \E k \in 1 .. Len(T) : IsStep(T[k], "read", p)
    /\ \A p \in Names(u) : \E k \in 1 .. Len(T) : IsStep(T[k], "labels", p)
    /\ \A i \in 1 .. RequiredTables : \A p \in Chunks(u.tables[i]) :
          \E k \in 1 .. Len(T) : IsStep(T[k], "read", p) /\ ~ T[k].optional

\* TableReadSteps asks for everything a unit holds in tables and names, and for
\* the tables a Get cannot do without by steps that are not optional.
LEMMA TableReadStepsAre ==
    ASSUME NEW u, u.tables \in Seq(Tables), u.labels \in Seq(Tables),
           RequiredTables <= Len(u.tables)
    PROVE  TableReads(TableReadSteps(u), u)
  <1> DEFINE ts == u.tables
             ls == u.labels
             q == AllReads("read", Required(ts))
             A == AllReads("read", ts)
             B == AllReads("labels", ls)
             n == Len(q)
             ps == UNION {Chunks(ts[i]) : i \in 1 .. RequiredTables}
             T == OptionalFrom(n, A \o B)
  <1>0. ts \in Seq(Tables) /\ ls \in Seq(Tables) /\ "read" \in Commands /\ "labels" \in Commands
    <2>1. "read" \in Commands /\ "labels" \in Commands BY DEF Commands
    <2>2. ts \in Seq(Tables) /\ ls \in Seq(Tables) OBVIOUS
    <2> QED BY <2>1, <2>2
  <1>1. A \in Seq(Steps) /\ Asks(A, "read", PartsOf(ts))
    <2> HIDE DEF ts
    <2> QED BY <1>0, AllReadsAsk
  <1>2. B \in Seq(Steps) /\ Asks(B, "labels", PartsOf(ls))
    <2> HIDE DEF ls
    <2> QED BY <1>0, AllReadsAsk
  <1>3. PartsOf(ts) = Records(u) BY DEF PartsOf, Records
  <1>4. PartsOf(ls) = Names(u) BY DEF PartsOf, Names
  <1>5. q \in Seq(Steps) /\ Asks(q, "read", ps) /\ Begins(q, A)
    <2>1. RequiredTables \in Nat /\ RequiredTables <= Len(ts) BY DEF RequiredTables
    <2> HIDE DEF ts
    <2> QED BY <1>0, <2>1, FirstReadsFirst DEF Required
  <1>7. TableReadSteps(u) = T BY DEF TableReadSteps
  <1> HIDE DEF q, A, B, ps
  <1> DEFINE w == A \o B
  <1>8. /\ w \in Seq(Steps) /\ Len(w) = Len(A) + Len(B)
        /\ \A k \in 1 .. Len(A) : w[k] = A[k]
        /\ \A k \in 1 .. Len(B) : w[Len(A) + k] = B[k]
        /\ \A k \in Len(A) + 1 .. Len(A) + Len(B) : w[k] = B[k - Len(A)]
    BY <1>1, <1>2
  <1>9. Len(A) \in Nat /\ Len(B) \in Nat /\ n \in Nat BY <1>1, <1>2, <1>5
  <1> HIDE DEF w
  <1>10. /\ T \in Seq(Steps) /\ Len(T) = Len(w)
         /\ \A k \in 1 .. Len(w) :
              /\ T[k].cmd = w[k].cmd /\ T[k].table = w[k].table /\ T[k].start = w[k].start
              /\ T[k].quiet = w[k].quiet
              /\ k <= n => T[k] = w[k]
    <2>1. T = OptionalFrom(n, w) BY DEF w
    <2> HIDE DEF n, T
    <2> QED BY <1>8, <1>9, <2>1, OptionalFromIs
  <1> HIDE DEF n, T
  <1>11. ASSUME NEW k \in 1 .. Len(w), NEW cmd, NEW p
         PROVE  IsStep(w[k], cmd, p) <=> IsStep(T[k], cmd, p)
    BY <1>10 DEF IsStep
  <1>12. ASSUME NEW k \in 1 .. Len(T)
         PROVE  /\ ~ T[k].quiet
                /\ \/ \E p \in Records(u) : IsStep(T[k], "read", p)
                   \/ \E p \in Names(u) : IsStep(T[k], "labels", p)
    <2>0. k \in 1 .. Len(w) BY <1>10
    <2>1. CASE k \in 1 .. Len(A)
      <3>1. w[k] = A[k] BY <1>8, <2>1
      <3>2. ~ A[k].quiet /\ \E p \in Records(u) : IsStep(A[k], "read", p)
        BY <1>1, <1>3, <2>1 DEF Asks
      <3> QED BY <2>0, <3>1, <3>2, <1>10, <1>11
    <2>2. CASE ~ (k \in 1 .. Len(A))
      <3>1. k \in Len(A) + 1 .. Len(A) + Len(B) /\ k - Len(A) \in 1 .. Len(B)
        BY <1>8, <1>9, <2>0, <2>2
      <3>2. w[k] = B[k - Len(A)] BY <1>8, <3>1
      <3>3. ~ B[k - Len(A)].quiet /\ \E p \in Names(u) : IsStep(B[k - Len(A)], "labels", p)
        BY <1>2, <1>4, <3>1 DEF Asks
      <3> QED BY <2>0, <3>2, <3>3, <1>10, <1>11
    <2> QED BY <2>1, <2>2
  <1>13. ASSUME NEW p \in Records(u) PROVE \E k \in 1 .. Len(T) : IsStep(T[k], "read", p)
    <2>1. PICK k \in 1 .. Len(A) : IsStep(A[k], "read", p) BY <1>1, <1>3 DEF Asks
    <2>2. k \in 1 .. Len(w) BY <1>8, <1>9
    <2>3. w[k] = A[k] BY <1>8
    <2> QED BY <2>1, <2>2, <2>3, <1>10, <1>11
  <1>14. ASSUME NEW p \in Names(u) PROVE \E k \in 1 .. Len(T) : IsStep(T[k], "labels", p)
    <2>1. PICK k \in 1 .. Len(B) : IsStep(B[k], "labels", p) BY <1>2, <1>4 DEF Asks
    <2>2. Len(A) + k \in 1 .. Len(w) BY <1>8, <1>9
    <2>3. w[Len(A) + k] = B[k] BY <1>8
    <2> QED BY <2>1, <2>2, <2>3, <1>10, <1>11
  <1>15. ASSUME NEW i \in 1 .. RequiredTables, NEW p \in Chunks(u.tables[i])
         PROVE  \E k \in 1 .. Len(T) : IsStep(T[k], "read", p) /\ ~ T[k].optional
    <2>1. p \in ps BY DEF ps
    <2>2. PICK k \in 1 .. Len(q) : IsStep(q[k], "read", p) BY <1>5, <2>1 DEF Asks
    <2>3. k \in 1 .. Len(A) /\ k \in 1 .. Len(w) /\ k <= n BY <1>5, <1>8, <1>9 DEF n, Begins
    <2>4. T[k] = q[k] BY <1>5, <1>8, <1>10, <2>3 DEF Begins
    <2>5. ~ q[k].optional BY <1>5 DEF Asks
    <2> QED BY <2>2, <2>3, <2>4, <2>5, <1>10
  <1>16. TableReads(T, u)
    <2> HIDE DEF ts, ls
    <2> QED BY <1>10, <1>12, <1>13, <1>14, <1>15 DEF TableReads
  <1> QED BY <1>7, <1>16

-----------------------------------------------------------------------------
(* The plan without the project *)

\* w is s without the project steps of the n behind place i.
Drops(w, s, i, n) ==
    /\ w \in Seq(Steps) /\ i <= Len(w)
    /\ \A k \in 1 .. Len(w) : \E j \in 1 .. Len(s) : w[k] = s[j]
    /\ \A k \in i + 1 .. Len(w) : w[k].cmd # "project"
    /\ \A j \in i + 1 .. i + n : s[j].cmd = "project" \/ \E k \in i + 1 .. Len(w) : w[k] = s[j]

\* One step more that is kept or, being the project's, dropped.
LEMMA NextDrop ==
    ASSUME NEW s \in Seq(Steps), NEW i \in 1 .. Len(s), NEW n \in Nat, i + (n + 1) <= Len(s),
           NEW w, Drops(w, s, i, n)
    PROVE  Drops(IF s[i + (n + 1)].cmd = "project" THEN w ELSE Append(w, s[i + (n + 1)]),
                 s, i, n + 1)
  <1> DEFINE e == s[i + (n + 1)]
             v == Append(w, e)
  <1>1. /\ i + (n + 1) \in 1 .. Len(s) /\ i + (n + 1) \in i + 1 .. i + (n + 1)
        /\ \A j \in i + 1 .. i + (n + 1) : j \in i + 1 .. i + n \/ j = i + (n + 1)
    OBVIOUS
  <1>2. e \in Steps BY <1>1
  <1>3. w \in Seq(Steps) /\ i <= Len(w) /\ Len(w) \in Nat BY DEF Drops
  <1>4. CASE e.cmd = "project"
    <2>1. \A j \in i + 1 .. i + (n + 1) :
             s[j].cmd = "project" \/ \E k \in i + 1 .. Len(w) : w[k] = s[j]
      BY <1>1, <1>4 DEF Drops
    <2>2. Drops(w, s, i, n + 1) BY <2>1 DEF Drops
    <2> QED BY <1>4, <2>2
  <1>5. CASE e.cmd # "project"
    <2>1. v \in Seq(Steps) /\ Len(v) = Len(w) + 1 /\ v[Len(w) + 1] = e
          /\ \A k \in 1 .. Len(w) : v[k] = w[k]
      <3> HIDE DEF e
      <3> QED BY <1>2, <1>3
    <2> HIDE DEF v
    <2>2. /\ i <= Len(v) /\ Len(w) + 1 \in i + 1 .. Len(v)
          /\ \A k \in 1 .. Len(v) : k \in 1 .. Len(w) \/ k = Len(w) + 1
          /\ \A k \in i + 1 .. Len(v) : k \in i + 1 .. Len(w) \/ k = Len(w) + 1
          /\ \A k \in i + 1 .. Len(w) : k \in 1 .. Len(w) /\ k \in i + 1 .. Len(v)
      BY <1>3, <2>1
    <2>3. \A k \in 1 .. Len(v) : \E j \in 1 .. Len(s) : v[k] = s[j]
      BY <1>1, <2>1, <2>2 DEF Drops
    <2>4. \A k \in i + 1 .. Len(v) : v[k].cmd # "project"
      BY <1>5, <2>1, <2>2 DEF Drops
    <2>5. \A j \in i + 1 .. i + (n + 1) :
             s[j].cmd = "project" \/ \E k \in i + 1 .. Len(v) : v[k] = s[j]
      BY <1>1, <2>1, <2>2 DEF Drops
    <2>6. Drops(v, s, i, n + 1) BY <2>1, <2>2, <2>3, <2>4, <2>5 DEF Drops
    <2> QED BY <1>5, <2>6 DEF v
  <1> QED BY <1>4, <1>5

\* WithoutProject keeps the steps up to the one in flight, and of the others all
\* but the project's.
LEMMA WithoutProjectIs ==
    ASSUME steps \in Seq(Steps), index \in 1 .. Len(steps)
    PROVE  Drops(WithoutProject, steps, index, Len(steps) - index)
  <1> DEFINE N == Len(steps) - index
             V == Seq(Steps)
             b == SubSeq(steps, 1, index)
             H(w, n) == IF steps[index + n].cmd = "project" THEN w ELSE Append(w, steps[index + n])
             R(w, n) == IF n \in 1 .. N THEN H(w, n) ELSE w
             G == [p \in V \X Nat |-> R(p[1], p[2])]
             Is(f) == f = [n \in 0 .. N |->
                              IF n = 0 THEN b
                              ELSE IF steps[index + n].cmd = "project" THEN f[n - 1]
                              ELSE Append(f[n - 1], steps[index + n])]
             f == CHOOSE g : Is(g)
  <1>1. N \in Nat /\ b \in V /\ Len(b) = index /\ \A k \in 1 .. index : b[k] = steps[k]
    OBVIOUS
  <1>2. \A w \in V, n \in 1 .. N : H(w, n) \in V
    <2>1. \A n \in 1 .. N : steps[index + n] \in Steps
      <3>1. \A n \in 1 .. N : index + n \in 1 .. Len(steps) OBVIOUS
      <3> QED BY <3>1
    <2> QED BY <2>1
  <1>3. G \in [V \X Nat -> V]
    <2>1. \A p \in V \X Nat : R(p[1], p[2]) \in V
      <3> HIDE DEF H, N, V
      <3> QED BY <1>2
    <2> HIDE DEF R
    <2> QED BY <2>1
  <1>4. PICK g \in [0 .. N -> V] : g[0] = b /\ \A m \in 1 .. N : g[m] = G[<<g[m - 1], m>>]
    <2>1. HasRecursion(V, b, N, G)
      <3> HIDE DEF G, V, N, b
      <3> QED BY <1>1, <1>3, Recursion
    <2> QED BY <2>1 DEF HasRecursion
  <1>5. ASSUME NEW n \in 1 .. N PROVE g[n] = H(g[n - 1], n)
    <2>1. n - 1 \in 0 .. N /\ n \in Nat BY <1>1
    <2>2. g[n - 1] \in V BY <2>1
    <2>3. <<g[n - 1], n>> \in V \X Nat BY <2>1, <2>2
    <2>4. G[<<g[n - 1], n>>] = H(g[n - 1], n)
      <3> HIDE DEF V, N, H
      <3> QED BY <2>3
    <2> HIDE DEF H, G
    <2> QED BY <1>4, <2>4
  <1>6. Is(g)
    <2> DEFINE h == [n \in 0 .. N |-> IF n = 0 THEN b ELSE H(g[n - 1], n)]
    <2>1. \A n \in 0 .. N : n # 0 => n \in 1 .. N BY <1>1
    <2>2. \A n \in 0 .. N : g[n] = h[n]
      <3> HIDE DEF G, N, V, H, b
      <3> QED BY <1>4, <1>5, <2>1
    <2>3. g = [n \in 0 .. N |-> g[n]]
      <3> HIDE DEF G, N, V, H, b
      <3> QED OBVIOUS
    <2>4. g = h
      <3> HIDE DEF H, b, N
      <3> QED BY <2>2, <2>3
    <2> HIDE DEF N, b
    <2> QED BY <2>4
  <1>7. Is(f)
    <2> HIDE DEF Is
    <2> QED BY <1>6
  <1>8. f[0] = b /\ \A n \in 1 .. N : f[n] = H(f[n - 1], n)
    <2> DEFINE J(h) == h[0] = b /\ \A n \in 1 .. N : h[n] = H(h[n - 1], n)
    <2>1. ASSUME NEW h, Is(h) PROVE J(h)
      <3>1. 0 \in 0 .. N /\ \A n \in 1 .. N : n \in 0 .. N /\ n # 0 BY <1>1
      <3> HIDE DEF f, N, b
      <3> QED BY <2>1, <3>1
    <2> HIDE DEF f, Is, J
    <2>2. J(f) BY <1>7, <2>1
    <2> QED BY <2>2 DEF J
  <1>9. WithoutProject = f[N] BY Zenon DEF WithoutProject
  <1>10. Drops(f[N], steps, index, N)
    <2> DEFINE P(n) == Drops(f[n], steps, index, n)
               S == {n \in Nat : n <= N => P(n)}
    <2> HIDE DEF f
    <2>1. 0 \in S
      <3>1. Drops(b, steps, index, 0)
        <4>1. \A k \in 1 .. Len(b) : k \in 1 .. Len(steps) /\ b[k] = steps[k] BY <1>1
        <4>2. ~ \E k : k \in index + 1 .. Len(b) BY <1>1
        <4>3. ~ \E j : j \in index + 1 .. index + 0 OBVIOUS
        <4> HIDE DEF b
        <4> QED BY <1>1, <4>1, <4>2, <4>3 DEF Drops
      <3> QED BY <1>8, <3>1
    <2> HIDE DEF P
    <2>2. ASSUME NEW n \in Nat, n \in S PROVE n + 1 \in S
      <3> SUFFICES ASSUME n + 1 <= N PROVE P(n + 1) OBVIOUS
      <3>1. n + 1 \in 1 .. N /\ (n + 1) - 1 = n /\ n <= N /\ index + (n + 1) <= Len(steps)
        BY <1>1
      <3>2. P(n) BY <2>2, <3>1
      <3>3. f[n + 1] = H(f[n], n + 1)
        <4> HIDE DEF H, N
        <4> QED BY <1>8, <3>1
      <3>4. Drops(H(f[n], n + 1), steps, index, n + 1)
        <4>1. Drops(f[n], steps, index, n) BY <3>2 DEF P
        <4> QED BY <3>1, <4>1, NextDrop
      <3> HIDE DEF S, H
      <3> QED BY <3>3, <3>4 DEF P
    <2>3. Nat \subseteq S
      <3> HIDE DEF S
      <3> QED BY <2>1, <2>2, Induction
    <2>4. P(N) BY <1>1, <2>3
    <2> QED BY <2>4 DEF P
  <1> HIDE DEF f
  <1> QED BY <1>9, <1>10

-----------------------------------------------------------------------------
(* The invariant *)

\* The steps still to be answered; a part is due when one of them reads it.
Ahead == {k \in 1 .. Len(steps) : index <= k}
Due(cmd, p) == \E k \in Ahead : IsStep(steps[k], cmd, p)
UsageDue == \E k \in Ahead : steps[k].cmd = "usage"
NoProjectDue == \A k \in Ahead : steps[k].cmd # "project"

\* A step reads a part the unit holds, and only what may be lacking is quiet.
Part(s) == <<s.table, s.start>>
Proper(s) ==
    /\ s.cmd = "usage" => ~ s.optional
    /\ s.cmd = "read" => ~ s.quiet /\ Part(s) \in Records(unit)
    /\ s.cmd = "labels" => ~ s.quiet /\ Part(s) \in Names(unit)
    /\ s.cmd = "single" => Part(s) \in Singles
    /\ s.cmd = "project" => ~ s.quiet /\ Part(s) \in Project(unit)

ProperPlan == steps \in Seq(Steps) /\ \A k \in 1 .. Len(steps) : Proper(steps[k])
PlanInv == unit \in Units /\ index \in Nat /\ ProperPlan
\* Success is reported behind the last step only.
EndInv == report = "ok" => Len(steps) < index

\* Chunk i of table t is where the unit has it, and is one it has.
InItsPlace(t, i) ==
    /\ <<t, i - 1>> \in Held(unit)
    /\ got[t][i] = i - 1 \/ (got[t][i] = Blank /\ <<t, i - 1>> \in Names(unit))
GotInv ==
    /\ got \in [Table(unit) -> Seq(Int)]
    /\ \A t \in Table(unit) : \A i \in 1 .. Len(got[t]) : InItsPlace(t, i)

\* A reply that was lost is remembered; only the project can be of no use.
NotesInv ==
    /\ replyLost \in BOOLEAN
    /\ \A s \in skipped : /\ s[3] = "lost" => replyLost
                          /\ s[3] = "no fit" => s[1] = "project"

\* Whatever the unit holds is read, named as missing, or due; GET_USAGE stands
\* for the tables it has yet to plan.
CoverInv ==
    /\ \A p \in Records(unit) : Has(p) \/ NotedWith(p, Why) \/ Due("read", p) \/ UsageDue
    /\ \A p \in Names(unit) : Has(p) \/ NotedWith(p, Why) \/ Due("labels", p) \/ UsageDue
    /\ \A p \in Singles :
          Has(p) \/ NotedWith(p, Why) \/ p[1] \in lacked \union unit.misfits \/ Due("single", p)
\* The first four tables are read or due, by steps that tolerate no failure.
RequiredInv ==
    \A i \in 1 .. RequiredTables : \A p \in Chunks(unit.tables[i]) :
        Has(p) \/ UsageDue \/ \E k \in Ahead : IsStep(steps[k], "read", p) /\ ~ steps[k].optional

\* The project: its header is the last step and nothing of it is here; or the
\* header is here, valid, and every piece of the body read or due; or the header
\* is here and stands alone; or all of it was dropped, and that was noted.
Header == <<"project", 0>>
HeaderAhead ==
    /\ got["project"] = <<>> /\ Len(steps) \in Ahead /\ IsStep(steps[Len(steps)], "project", Header)
    /\ \A k \in Ahead : steps[k].cmd = "project" => k = Len(steps)
BodyAhead ==
    unit.valid /\ Has(Header) /\ \A p \in Project(unit) : Has(p) \/ Due("project", p)
HeaderAlone == ~ unit.valid /\ got["project"] = <<0>> /\ NoProjectDue
Dropped ==
    got["project"] = <<>> /\ NoProjectDue /\ \E p \in Project(unit) : NotedWith(p, Why)
ProjectInv == unit.keeps => HeaderAhead \/ BodyAhead \/ HeaderAlone \/ Dropped

GetInv ==
    /\ PlanInv /\ EndInv /\ GotInv /\ NotesInv
    /\ CoverInv /\ RequiredInv /\ ProjectInv

-----------------------------------------------------------------------------
(* The units *)

\* What the proofs use of a unit's description.
Fits(u) ==
    /\ u.tables \in Seq(Tables) /\ RequiredTables <= Len(u.tables) /\ u.labels \in Seq(Tables)
    /\ \A i, j \in DOMAIN u.tables : u.tables[i].name = u.tables[j].name => i = j
    /\ \A i, j \in DOMAIN u.labels : u.labels[i].name = u.labels[j].name => i = j
    /\ \A i \in DOMAIN u.tables, j \in DOMAIN u.labels : u.tables[i].name # u.labels[j].name
    /\ \A i \in DOMAIN u.tables : u.tables[i].name \notin {"busSetup", "channelsExt", "project"}
    /\ \A i \in DOMAIN u.labels : u.labels[i].name \notin {"busSetup", "channelsExt", "project"}
    /\ u.plans \in BOOLEAN /\ u.keeps \in BOOLEAN /\ u.valid \in BOOLEAN /\ u.body \in Nat
    /\ \A t \in DOMAIN u.answers : u.answers[t] \in Considered

\* A unit considered is one as above.
LEMMA UnitFits == ASSUME NEW u \in Units PROVE Fits(u)
  <1>1. u.tables \in Seq(Tables) /\ RequiredTables <= Len(u.tables) /\ u.labels \in Seq(Tables)
    <2>1. u.tables \in Seq(Tables) /\ Len(u.tables) >= RequiredTables /\ u.labels \in Seq(Tables)
      BY UnitsAreWellFormed DEF Tables
    <2>2. Len(u.tables) \in Nat /\ RequiredTables \in Nat BY <2>1 DEF RequiredTables
    <2> QED BY <2>1, <2>2
  <1>2. /\ \A i, j \in DOMAIN u.tables : u.tables[i].name = u.tables[j].name => i = j
        /\ \A i, j \in DOMAIN u.labels : u.labels[i].name = u.labels[j].name => i = j
        /\ \A i \in DOMAIN u.tables, j \in DOMAIN u.labels : u.tables[i].name # u.labels[j].name
    BY UnitsAreWellFormed
  <1>3. \A t \in {u.tables[i].name : i \in DOMAIN u.tables}
                     \union {u.labels[i].name : i \in DOMAIN u.labels} :
              t \notin {"busSetup", "channelsExt", "project"}
    BY UnitsAreWellFormed
  <1>4. \A i \in DOMAIN u.tables : u.tables[i].name \notin {"busSetup", "channelsExt", "project"}
    BY <1>3
  <1>5. \A i \in DOMAIN u.labels : u.labels[i].name \notin {"busSetup", "channelsExt", "project"}
    BY <1>3
  <1>6. /\ u.plans \in BOOLEAN /\ u.keeps \in BOOLEAN /\ u.valid \in BOOLEAN /\ u.body \in Nat
        /\ \A t \in DOMAIN u.answers : u.answers[t] \in Considered
    BY UnitsAreWellFormed
  <1> QED BY <1>1, <1>2, <1>4, <1>5, <1>6 DEF Fits

-----------------------------------------------------------------------------
(* What happens to the plan *)

\* The steps behind the one in flight are still ahead, but for the project's.
OthersStayAhead ==
    \A k \in Ahead : \/ k = index \/ steps[k].cmd = "project"
                     \/ \E j \in Ahead' : steps'[j] = steps[k]
AllStayAhead == \A k \in Ahead : k = index \/ \E j \in Ahead' : steps'[j] = steps[k]

\* The plan unchanged, the next step begun.
LEMMA SamePlan ==
    ASSUME PlanInv, index \in 1 .. Len(steps), UNCHANGED <<unit, steps>>, index' = index + 1
    PROVE  /\ ProperPlan' /\ AllStayAhead
           /\ \A k \in Ahead' : k \in Ahead /\ k # index
  <1>1. \A k \in Ahead : k = index \/ k \in Ahead' BY DEF Ahead, PlanInv, ProperPlan
  <1>2. AllStayAhead BY <1>1 DEF AllStayAhead
  <1>3. ProperPlan' BY DEF ProperPlan, PlanInv, Proper, Part
  <1>4. \A k \in Ahead' : k \in Ahead /\ k # index BY DEF Ahead, PlanInv, ProperPlan
  <1> QED BY <1>2, <1>3, <1>4

\* Steps R came in behind the one in flight.
IsInserted(R) ==
    /\ ProperPlan' /\ AllStayAhead
    /\ \A k \in 1 .. Len(R) : \E j \in Ahead' : steps'[j] = R[k]
    /\ \A j \in Ahead' :
          \/ \E k \in 1 .. Len(R) : steps'[j] = R[k]
          \/ \E k \in Ahead : k # index /\ steps'[j] = steps[k] /\ j - Len(steps') = k - Len(steps)
    /\ index < Len(steps) => steps'[Len(steps')] = steps[Len(steps)] /\ Len(steps') \in Ahead'

\* The plan with steps R put in behind the one in flight (captureUsage).
LEMMA PlanInserted ==
    ASSUME PlanInv, index \in 1 .. Len(steps), UNCHANGED unit, index' = index + 1,
           NEW R \in Seq(Steps), \A k \in 1 .. Len(R) : Proper(R[k]),
           steps' = SubSeq(steps, 1, index) \o R \o SubSeq(steps, index + 1, Len(steps))
    PROVE  IsInserted(R)
  <1> DEFINE n == Len(steps)
             r == Len(R)
             A == SubSeq(steps, 1, index)
             B == SubSeq(steps, index + 1, n)
             w == A \o R \o B
  <1>1. steps \in Seq(Steps) /\ n \in Nat /\ index \in Nat /\ r \in Nat /\ index <= n
    BY DEF PlanInv, ProperPlan
  <1>2. /\ A \in Seq(Steps) /\ Len(A) = index /\ \A k \in 1 .. index : A[k] = steps[k]
        /\ B \in Seq(Steps) /\ Len(B) = n - index
        /\ \A k \in 1 .. n - index : B[k] = steps[index + k]
    BY <1>1
  <1> HIDE DEF A, B
  <1> DEFINE v == A \o R
  <1>3. v \in Seq(Steps) /\ IsJoined(v, A, R) BY <1>2, Joined
  <1>4. w = v \o B OBVIOUS
  <1> HIDE DEF v, w
  <1>5. w \in Seq(Steps) /\ IsJoined(w, v, B) BY <1>2, <1>3, <1>4, Joined
  <1>6. Len(v) = index + r /\ Len(w) = n + r BY <1>1, <1>2, <1>3, <1>5 DEF IsJoined
  <1>7. \A k \in 1 .. index : w[k] = steps[k]
    <2>1. \A k \in 1 .. index : k \in 1 .. Len(A) /\ k \in 1 .. Len(v) BY <1>1, <1>2, <1>6
    <2> QED BY <2>1, <1>2, <1>3, <1>5 DEF IsJoined
  <1>8. \A k \in 1 .. r : w[index + k] = R[k]
    <2>1. \A k \in 1 .. r : index + k \in 1 .. Len(v) BY <1>1, <1>6
    <2> QED BY <2>1, <1>2, <1>3, <1>5 DEF IsJoined
  <1>9. \A k \in 1 .. n - index : w[index + r + k] = steps[index + k]
    <2>1. \A k \in 1 .. n - index : k \in 1 .. Len(B) BY <1>2
    <2>2. \A k \in 1 .. n - index : w[index + r + k] = B[k] BY <1>5, <1>6, <2>1 DEF IsJoined
    <2> QED BY <1>2, <2>2
  <1>10. steps' = w BY DEF w, A, B
  <1>11. Ahead' = index + 1 .. n + r /\ Ahead = index .. n
    <2>1. Ahead' = {k \in 1 .. n + r : index + 1 <= k} BY <1>6, <1>10 DEF Ahead
    <2>2. Ahead' = index + 1 .. n + r BY <1>1, <2>1
    <2>3. Ahead = {k \in 1 .. n : index <= k} BY DEF Ahead
    <2>4. Ahead = index .. n BY <1>1, <2>3
    <2> QED BY <2>2, <2>4
  <1>12. ASSUME NEW k \in 1 .. n + r
         PROVE  \/ k \in 1 .. index
                \/ \E m \in 1 .. r : k = index + m
                \/ \E m \in 1 .. n - index : k = index + r + m
    <2>1. CASE k <= index BY <1>1, <2>1
    <2>2. CASE index < k /\ k <= index + r
      <3>1. k - index \in 1 .. r /\ k = index + (k - index) BY <1>1, <2>2
      <3> QED BY <3>1
    <2>3. CASE index + r < k
      <3>1. k - (index + r) \in 1 .. n - index /\ k = index + r + (k - (index + r)) BY <1>1, <2>3
      <3> QED BY <3>1
    <2> QED BY <1>1, <2>1, <2>2, <2>3
  <1>13. ProperPlan'
    <2>1. \A k \in 1 .. n + r : (\E j \in 1 .. n : w[k] = steps[j]) \/ \E j \in 1 .. r : w[k] = R[j]
      <3>1. \A k \in 1 .. index : k \in 1 .. n BY <1>1
      <3>2. \A k \in 1 .. n - index : index + k \in 1 .. n BY <1>1
      <3> QED BY <1>7, <1>8, <1>9, <1>12, <3>1, <3>2
    <2>2. \A k \in 1 .. n + r : Proper(w[k]) BY <2>1 DEF PlanInv, ProperPlan
    <2>3. \A s : Proper(s) <=> Proper(s)' BY DEF Proper, Part
    <2> QED BY <1>5, <1>6, <1>10, <2>2, <2>3 DEF ProperPlan
  <1>14. AllStayAhead
    <2> SUFFICES ASSUME NEW k \in index .. n, k # index
                 PROVE  \E j \in index + 1 .. n + r : w[j] = steps[k]
      BY <1>10, <1>11 DEF AllStayAhead
    <2>1. /\ k - index \in 1 .. n - index /\ index + (k - index) = k
          /\ index + r + (k - index) \in index + 1 .. n + r
      BY <1>1
    <2>2. w[index + r + (k - index)] = steps[index + (k - index)] BY <1>9, <2>1
    <2> QED BY <2>1, <2>2
  <1>15. \A k \in 1 .. r : \E j \in Ahead' : steps'[j] = R[k]
    <2>1. \A k \in 1 .. r : index + k \in index + 1 .. n + r BY <1>1
    <2> QED BY <1>8, <1>10, <1>11, <2>1
  <1>16. ASSUME NEW j \in Ahead'
         PROVE  \/ \E k \in 1 .. r : steps'[j] = R[k]
                \/ \E k \in Ahead : k # index /\ steps'[j] = steps[k] /\ j - Len(steps') = k - n
    <2>1. j \in index + 1 .. n + r /\ j \in 1 .. n + r /\ ~ (j \in 1 .. index) BY <1>1, <1>11
    <2>2. CASE \E m \in 1 .. r : j = index + m BY <1>8, <1>10, <2>2
    <2>3. CASE \E m \in 1 .. n - index : j = index + r + m
      <3>1. PICK m \in 1 .. n - index : j = index + r + m BY <2>3
      <3>2. /\ index + m \in index .. n /\ index + m # index
            /\ (index + r + m) - (n + r) = (index + m) - n
        BY <1>1
      <3>3. steps'[j] = steps[index + m] BY <1>9, <1>10, <3>1
      <3>4. j - Len(steps') = (index + m) - n BY <1>6, <1>10, <3>1, <3>2
      <3> QED BY <1>11, <3>2, <3>3, <3>4
    <2> QED BY <1>12, <2>1, <2>2, <2>3
  <1>17. ASSUME index < n PROVE steps'[Len(steps')] = steps[n] /\ Len(steps') \in Ahead'
    <2>1. n - index \in 1 .. n - index /\ index + r + (n - index) = n + r /\ index + (n - index) = n
          /\ n + r \in index + 1 .. n + r
      BY <1>1, <1>17
    <2>2. w[n + r] = steps[n] BY <1>9, <2>1
    <2> QED BY <1>6, <1>10, <1>11, <2>1, <2>2
  <1> QED BY <1>13, <1>14, <1>15, <1>16, <1>17 DEF IsInserted

\* The plan without the project's remaining reads (dropProject).
LEMMA PlanWithoutProject ==
    ASSUME PlanInv, index \in 1 .. Len(steps), UNCHANGED unit, index' = index + 1,
           steps' = WithoutProject
    PROVE  ProperPlan' /\ OthersStayAhead /\ NoProjectDue'
  <1> DEFINE n == Len(steps)
  <1>1. steps \in Seq(Steps) /\ n \in Nat /\ index \in Nat /\ index <= n
    BY DEF PlanInv, ProperPlan
  <1>2. Drops(steps', steps, index, n - index)
    BY <1>1, WithoutProjectIs
  <1>3. index + (n - index) = n BY <1>1
  <1>4. /\ steps' \in Seq(Steps)
        /\ \A k \in 1 .. Len(steps') : \E j \in 1 .. n : steps'[k] = steps[j]
        /\ \A k \in index + 1 .. Len(steps') : steps'[k].cmd # "project"
        /\ \A j \in index + 1 .. n :
              steps[j].cmd = "project" \/ \E k \in index + 1 .. Len(steps') : steps'[k] = steps[j]
    <2>1. Drops(steps', steps, index, n - index) <=>
            /\ steps' \in Seq(Steps) /\ index <= Len(steps')
            /\ \A k \in 1 .. Len(steps') : \E j \in 1 .. n : steps'[k] = steps[j]
            /\ \A k \in index + 1 .. Len(steps') : steps'[k].cmd # "project"
            /\ \A j \in index + 1 .. index + (n - index) :
                  steps[j].cmd = "project"
                  \/ \E k \in index + 1 .. Len(steps') : steps'[k] = steps[j]
      BY DEF Drops
    <2> HIDE DEF n
    <2> QED BY <1>2, <1>3, <2>1
  <1>5. Ahead' = index + 1 .. Len(steps') /\ Ahead = index .. n
    <2>0. Len(steps') \in Nat BY <1>4
    <2>1. Ahead' = {k \in 1 .. Len(steps') : index + 1 <= k} BY DEF Ahead
    <2>2. Ahead' = index + 1 .. Len(steps') BY <1>1, <2>0, <2>1
    <2>3. Ahead = {k \in 1 .. n : index <= k} BY DEF Ahead
    <2>4. Ahead = index .. n BY <1>1, <2>3
    <2> QED BY <2>2, <2>4
  <1>6. ProperPlan'
    <2>1. \A s : Proper(s) <=> Proper(s)' BY DEF Proper, Part
    <2>2. \A k \in 1 .. Len(steps') : Proper(steps'[k]) BY <1>4 DEF PlanInv, ProperPlan
    <2> QED BY <1>4, <2>1, <2>2 DEF ProperPlan
  <1>7. OthersStayAhead
    <2>1. \A k \in index .. n : k = index \/ k \in index + 1 .. n BY <1>1
    <2> QED BY <1>4, <1>5, <2>1 DEF OthersStayAhead
  <1>8. NoProjectDue' BY <1>4, <1>5 DEF NoProjectDue
  <1> QED BY <1>6, <1>7, <1>8

-----------------------------------------------------------------------------
(* What is there, noted or due *)

\* The parts that do not belong to the project.
Lasting(u) == Records(u) \union Names(u) \union Singles

\* A part is a pair of a table and a number; the project's are no others'.
LEMMA PartsAre ==
    ASSUME NEW u, Fits(u)
    PROVE  /\ \A p \in Held(u) : p = <<p[1], p[2]>> /\ p[1] \in Table(u) /\ p[2] \in Nat
           /\ \A p \in Lasting(u) : p \in Held(u) /\ p[1] # "project"
           /\ \A p \in Project(u) : p \in Held(u) /\ p[1] = "project" /\ u.keeps
           /\ \A i \in 1 .. RequiredTables : \A p \in Chunks(u.tables[i]) : p \in Records(u)
  <1>1. \A ts \in Seq(Tables) : \A i \in DOMAIN ts : ts[i].chunks \in Nat
    <2>1. \A ts \in Seq(Tables) : \A i \in DOMAIN ts : ts[i] \in Tables OBVIOUS
    <2> QED BY <2>1 DEF Tables
  <1>2. \A ts \in Seq(Tables) : \A i \in DOMAIN ts : \A p \in Chunks(ts[i]) :
           p = <<p[1], p[2]>> /\ p[2] \in Nat /\ p[1] = ts[i].name
    BY <1>1 DEF Chunks
  <1>3. \A p \in Records(u) : p = <<p[1], p[2]>> /\ p[2] \in Nat /\ p[1] # "project"
    <2> SUFFICES ASSUME NEW p \in Records(u)
                 PROVE  p = <<p[1], p[2]>> /\ p[2] \in Nat /\ p[1] # "project"
      OBVIOUS
    <2>1. PICK i \in DOMAIN u.tables : p \in Chunks(u.tables[i]) BY DEF Records
    <2>2. u.tables[i].name # "project" /\ u.tables \in Seq(Tables) BY DEF Fits
    <2> QED BY <1>2, <2>1, <2>2
  <1>4. \A p \in Names(u) : p = <<p[1], p[2]>> /\ p[2] \in Nat /\ p[1] # "project"
    <2> SUFFICES ASSUME NEW p \in Names(u)
                 PROVE  p = <<p[1], p[2]>> /\ p[2] \in Nat /\ p[1] # "project"
      OBVIOUS
    <2>1. PICK i \in DOMAIN u.labels : p \in Chunks(u.labels[i]) BY DEF Names
    <2>2. u.labels[i].name # "project" /\ u.labels \in Seq(Tables) BY DEF Fits
    <2> QED BY <1>2, <2>1, <2>2
  <1>5. \A p \in Singles : p = <<p[1], p[2]>> /\ p[2] \in Nat /\ p[1] # "project" BY DEF Singles
  <1>6. \A p \in Project(u) : p = <<p[1], p[2]>> /\ p[2] \in Nat /\ p[1] = "project" /\ u.keeps
    BY DEF Project, Fits
  <1>7. \A p \in Held(u) : p = <<p[1], p[2]>> /\ p[2] \in Nat BY <1>3, <1>4, <1>5, <1>6 DEF Held
  <1>8. \A p \in Held(u) : p[1] \in Table(u) BY DEF Table
  <1>9. \A p \in Lasting(u) : p \in Held(u) /\ p[1] # "project"
    BY <1>3, <1>4, <1>5 DEF Lasting, Held
  <1>10. \A p \in Project(u) : p \in Held(u) BY DEF Held
  <1>11. \A i \in 1 .. RequiredTables : \A p \in Chunks(u.tables[i]) : p \in Records(u)
    <2>1. \A i \in 1 .. RequiredTables : i \in DOMAIN u.tables BY DEF Fits, RequiredTables
    <2> QED BY <2>1 DEF Records
  <1> QED BY <1>6, <1>7, <1>8, <1>9, <1>10, <1>11

\* What is read, or noted, stays so.
NothingIsLost ==
    /\ \A p \in Lasting(unit) : Has(p) => Has(p)'
    /\ skipped \subseteq skipped' /\ lacked \subseteq lacked'

\* What the step in flight reads is there, or noted, or planned.
Settled ==
    /\ \A p \in Lasting(unit) :
         /\ IsStep(Current, "read", p) \/ IsStep(Current, "labels", p)
               => Has(p)' \/ NotedWith(p, Why)'
         /\ IsStep(Current, "read", p) /\ ~ Current.optional => Has(p)'
         /\ IsStep(Current, "single", p)
               => Has(p)' \/ NotedWith(p, Why)' \/ p[1] \in lacked' \union unit'.misfits
    /\ Current.cmd = "usage" =>
         /\ \A p \in Records(unit) : Due("read", p)'
         /\ \A p \in Names(unit) : Due("labels", p)'
         /\ \A i \in 1 .. RequiredTables : \A p \in Chunks(unit.tables[i]) :
               (\E k \in Ahead : IsStep(steps[k], "read", p) /\ ~ steps[k].optional)'

\* What was held, noted or planned still is, once the step in flight is settled.
LEMMA CoverStep ==
    ASSUME Fits(unit), CoverInv, RequiredInv, UNCHANGED unit, index' = index + 1,
           OthersStayAhead, NothingIsLost, Settled
    PROVE  CoverInv' /\ RequiredInv'
  <1>0. /\ \A p \in Records(unit) : p \in Lasting(unit)
        /\ \A p \in Names(unit) : p \in Lasting(unit)
        /\ \A p \in Singles : p \in Lasting(unit)
        /\ \A i \in 1 .. RequiredTables : \A p \in Chunks(unit.tables[i]) : p \in Records(unit)
    BY PartsAre DEF Lasting
  <1>1. \A p \in Lasting(unit) : Has(p) => Has(p)' BY DEF NothingIsLost
  <1>2. \A p : NotedWith(p, Why) => NotedWith(p, Why)' BY DEF NothingIsLost, NotedWith
  <1>3. ASSUME NEW k \in Ahead, k # index, steps[k].cmd # "project"
        PROVE  \E j \in Ahead' : steps'[j] = steps[k]
    BY <1>3 DEF OthersStayAhead
  <1>4. UsageDue => UsageDue' \/ Current.cmd = "usage" BY <1>3 DEF UsageDue, Current
  <1>5. ASSUME NEW cmd, cmd # "project", NEW p, Due(cmd, p)
        PROVE  IsStep(Current, cmd, p) \/ Due(cmd, p)'
    BY <1>3, <1>5 DEF Due, IsStep, Current
  <1>6. ASSUME NEW p \in Records(unit)
        PROVE  (Has(p) \/ NotedWith(p, Why) \/ Due("read", p) \/ UsageDue)'
    <2>1. Has(p) \/ NotedWith(p, Why) \/ Due("read", p) \/ UsageDue BY DEF CoverInv
    <2>2. IsStep(Current, "read", p) => Has(p)' \/ NotedWith(p, Why)' BY <1>0 DEF Settled
    <2>3. Current.cmd = "usage" => Due("read", p)' BY DEF Settled
    <2> QED BY <1>0, <1>1, <1>2, <1>4, <1>5, <2>1, <2>2, <2>3
  <1>7. ASSUME NEW p \in Names(unit)
        PROVE  (Has(p) \/ NotedWith(p, Why) \/ Due("labels", p) \/ UsageDue)'
    <2>1. Has(p) \/ NotedWith(p, Why) \/ Due("labels", p) \/ UsageDue BY DEF CoverInv
    <2>2. IsStep(Current, "labels", p) => Has(p)' \/ NotedWith(p, Why)' BY <1>0 DEF Settled
    <2>3. Current.cmd = "usage" => Due("labels", p)' BY DEF Settled
    <2> QED BY <1>0, <1>1, <1>2, <1>4, <1>5, <2>1, <2>2, <2>3
  <1>8. ASSUME NEW p \in Singles
        PROVE  (Has(p) \/ NotedWith(p, Why) \/ p[1] \in lacked \union unit.misfits
                  \/ Due("single", p))'
    <2>1. Has(p) \/ NotedWith(p, Why) \/ p[1] \in lacked \union unit.misfits \/ Due("single", p)
      BY DEF CoverInv
    <2>2. IsStep(Current, "single", p)
             => Has(p)' \/ NotedWith(p, Why)' \/ p[1] \in lacked' \union unit'.misfits
      BY <1>0 DEF Settled
    <2>3. p[1] \in lacked \union unit.misfits => p[1] \in lacked' \union unit'.misfits
      BY DEF NothingIsLost
    <2> QED BY <1>0, <1>1, <1>2, <1>5, <2>1, <2>2, <2>3
  <1>9. CoverInv' BY <1>6, <1>7, <1>8 DEF CoverInv
  <1>10. ASSUME NEW i \in 1 .. RequiredTables, NEW p \in Chunks(unit.tables[i])
         PROVE  (Has(p) \/ UsageDue
                  \/ \E k \in Ahead : IsStep(steps[k], "read", p) /\ ~ steps[k].optional)'
    <2>0. p \in Lasting(unit) BY <1>0
    <2>1. CASE Has(p) BY <1>1, <2>0, <2>1
    <2>2. CASE UsageDue
      <3>1. Current.cmd = "usage" =>
              (\E k \in Ahead : IsStep(steps[k], "read", p) /\ ~ steps[k].optional)'
        BY DEF Settled
      <3> QED BY <1>4, <2>2, <3>1
    <2>3. CASE \E k \in Ahead : IsStep(steps[k], "read", p) /\ ~ steps[k].optional
      <3>1. PICK k \in Ahead : IsStep(steps[k], "read", p) /\ ~ steps[k].optional BY <2>3
      <3>2. CASE k = index
        <4>1. Has(p)' BY <2>0, <3>1, <3>2 DEF Settled, Current
        <4> QED BY <4>1
      <3>3. CASE k # index
        <4>1. steps[k].cmd # "project" BY <3>1 DEF IsStep
        <4> QED BY <1>3, <3>1, <3>3, <4>1
      <3> QED BY <3>2, <3>3
    <2> QED BY <2>1, <2>2, <2>3 DEF RequiredInv
  <1>11. RequiredInv' BY <1>10 DEF RequiredInv
  <1> QED BY <1>9, <1>11

-----------------------------------------------------------------------------
(* A step done *)

\* The step in flight is one of the plan's.
LEMMA CurrentIs ==
    ASSUME PlanInv, InFlight
    PROVE  /\ index \in 1 .. Len(steps) /\ index \in Ahead /\ report = "none"
           /\ Current \in Steps /\ Proper(Current) /\ Fits(unit)
  <1>1. steps \in Seq(Steps) /\ index \in 1 .. Len(steps) BY DEF PlanInv, ProperPlan, InFlight
  <1>2. Current \in Steps /\ Proper(Current) BY <1>1 DEF PlanInv, ProperPlan, Current
  <1>3. index \in Ahead BY <1>1 DEF Ahead
  <1> QED BY <1>1, <1>2, <1>3, UnitFits DEF PlanInv, InFlight

\* Advance keeps the plan, and reports success behind its last step only.
LEMMA Advances ==
    ASSUME PlanInv, InFlight, UNCHANGED unit, Advance, ProperPlan'
    PROVE  PlanInv' /\ EndInv'
  <1>1. index' = index + 1 /\ index' \in Nat BY DEF Advance, PlanInv
  <1>2. Len(steps') \in Nat BY DEF ProperPlan
  <1>3. report = "none" BY DEF InFlight
  <1>4. report' = "ok" => index + 1 > Len(steps') BY <1>3 DEF Advance, RunFrom
  <1>5. EndInv'
    <2>1. index + 1 > Len(steps') => Len(steps') < index' BY <1>1, <1>2
    <2> QED BY <1>4, <2>1 DEF EndInv
  <1> QED BY <1>1, <1>5 DEF PlanInv

\* What is ahead of the project was ahead before, as far from the end.
ProjectAheadStays ==
    /\ \A k \in Ahead' : steps'[k].cmd = "project" =>
          \E j \in Ahead : /\ j # index /\ steps'[k] = steps[j]
                           /\ k - Len(steps') = j - Len(steps)
    /\ index < Len(steps) => steps'[Len(steps')] = steps[Len(steps)] /\ Len(steps') \in Ahead'

\* A step that is none of the project's leaves the project as it is.
LEMMA ProjectStays ==
    ASSUME PlanInv, Fits(unit), ProjectInv, index \in 1 .. Len(steps), Current.cmd # "project",
           ProperPlan', UNCHANGED unit, unit.keeps => got'["project"] = got["project"],
           skipped \subseteq skipped', AllStayAhead, ProjectAheadStays
    PROVE  ProjectInv'
  <1> SUFFICES ASSUME unit.keeps
               PROVE  HeaderAhead' \/ BodyAhead' \/ HeaderAlone' \/ Dropped'
    BY DEF ProjectInv
  <1>0. Len(steps) \in Nat /\ Len(steps') \in Nat BY DEF PlanInv, ProperPlan
  <1>1. NoProjectDue => NoProjectDue'
    BY DEF ProjectAheadStays, NoProjectDue
  <1>2. \A p \in Project(unit) : Has(p) => Has(p)'
    <2>1. \A p \in Project(unit) : p[1] = "project" BY PartsAre
    <2> QED BY <2>1 DEF Has
  <1>3. \A p : NotedWith(p, Why) => NotedWith(p, Why)' BY DEF NotedWith
  <1>4. \A p : Due("project", p) => Due("project", p)'
    BY DEF Due, AllStayAhead, Current, IsStep
  <1>5. CASE HeaderAhead
    <2>1. index < Len(steps)
      <3>1. steps[Len(steps)].cmd = "project" BY <1>5 DEF HeaderAhead, IsStep
      <3>2. index # Len(steps) BY <3>1 DEF Current
      <3> QED BY <1>0, <3>2
    <2>2. steps'[Len(steps')] = steps[Len(steps)] /\ Len(steps') \in Ahead'
      BY <2>1 DEF ProjectAheadStays
    <2>3. ASSUME NEW k \in Ahead', steps'[k].cmd = "project" PROVE k = Len(steps')
      <3>1. PICK j \in Ahead : steps'[k] = steps[j] /\ k - Len(steps') = j - Len(steps)
        BY <2>3 DEF ProjectAheadStays
      <3>2. j = Len(steps) BY <1>5, <2>3, <3>1 DEF HeaderAhead
      <3>3. k \in Nat BY DEF Ahead
      <3> QED BY <1>0, <3>1, <3>2, <3>3
    <2> QED BY <1>5, <2>2, <2>3 DEF HeaderAhead
  <1>6. CASE BodyAhead
    <2>1. Header \in Project(unit) BY DEF Header, Project, Fits
    <2> QED BY <1>2, <1>4, <1>6, <2>1 DEF BodyAhead
  <1>7. CASE HeaderAlone BY <1>1, <1>7 DEF HeaderAlone
  <1>8. CASE Dropped BY <1>1, <1>3, <1>8 DEF Dropped
  <1> QED BY <1>5, <1>6, <1>7, <1>8 DEF ProjectInv

\* SamePlan, as the other lemmas want it.
LEMMA SamePlanAhead ==
    ASSUME PlanInv, index \in 1 .. Len(steps), UNCHANGED <<unit, steps>>, index' = index + 1
    PROVE  ProperPlan' /\ AllStayAhead /\ OthersStayAhead /\ ProjectAheadStays
  <1>1. ProperPlan' /\ AllStayAhead /\ \A k \in Ahead' : k \in Ahead /\ k # index BY SamePlan
  <1>2. OthersStayAhead BY <1>1 DEF AllStayAhead, OthersStayAhead
  <1>3. Len(steps) \in Nat /\ \A k \in Ahead : k \in Nat BY DEF PlanInv, ProperPlan, Ahead
  <1>4. index < Len(steps) => Len(steps') \in Ahead' BY <1>3 DEF Ahead
  <1>5. ProjectAheadStays BY <1>1, <1>3, <1>4 DEF ProjectAheadStays
  <1> QED BY <1>1, <1>2, <1>5

-----------------------------------------------------------------------------
(* A step skipped *)

\* Without the project's chunks everything else is still in its place.
LEMMA GotWithoutProject ==
    ASSUME Fits(unit), GotInv, UNCHANGED unit, got' = [got EXCEPT !["project"] = <<>>]
    PROVE  GotInv' /\ (unit.keeps => got'["project"] = <<>>)
           /\ \A p \in Lasting(unit) : Has(p) => Has(p)'
  <1>1. got \in [Table(unit) -> Seq(Int)] BY DEF GotInv
  <1>2. got' \in [Table(unit) -> Seq(Int)]
    <2>1. <<>> \in Seq(Int) OBVIOUS
    <2> DEFINE Z == Seq(Int)
               e == <<>>
    <2>2. e \in Z /\ got \in [Table(unit) -> Z] /\ got' = [got EXCEPT !["project"] = e]
      BY <1>1, <2>1
    <2> HIDE DEF Z, e
    <2>3. got' \in [Table(unit) -> Z] BY <2>2
    <2> QED BY <2>3 DEF Z
  <1>3. \A t \in Table(unit) : t # "project" => got'[t] = got[t] BY <1>1
  <1>4. "project" \in Table(unit) => got'["project"] = <<>> BY <1>1
  <1>5. unit.keeps => "project" \in Table(unit)
    <2>1. unit.keeps => Header \in Project(unit) BY DEF Header, Project, Fits
    <2>2. Header[1] = "project" BY DEF Header
    <2> QED BY <2>1, <2>2, PartsAre
  <1>6. \A p \in Lasting(unit) : Has(p) => Has(p)'
    <2>1. \A p \in Lasting(unit) : p[1] # "project" /\ p[1] \in Table(unit) BY PartsAre
    <2> QED BY <1>3, <2>1 DEF Has
  <1>7. ASSUME NEW t \in Table(unit), NEW i \in 1 .. Len(got'[t]) PROVE InItsPlace(t, i)'
    <2>1. t # "project" BY <1>4
    <2>2. i \in 1 .. Len(got[t]) /\ got'[t] = got[t] BY <1>3, <2>1
    <2>3. InItsPlace(t, i) BY <2>2 DEF GotInv
    <2> QED BY <2>2, <2>3 DEF InItsPlace
  <1>8. GotInv' BY <1>2, <1>7 DEF GotInv
  <1> QED BY <1>4, <1>5, <1>6, <1>8

\* A step skipped, noted or lacked, keeps the invariant.
LEMMA SkipKeeps ==
    ASSUME GetInv, InFlight, NEW why \in {Answer(Current), "badline", "lost"} \ {"ok"}, Skip(why)
    PROVE  GetInv'
  <1>0. PlanInv /\ GotInv /\ NotesInv /\ CoverInv /\ RequiredInv /\ ProjectInv BY DEF GetInv
  <1>1. /\ index \in 1 .. Len(steps) /\ index \in Ahead
        /\ Current \in Steps /\ Proper(Current) /\ Fits(unit)
    BY <1>0, CurrentIs
  <1>2. why \in Why /\ why # "no fit"
    <2>1. Answer(Current) \in Considered \union {"ok"} BY <1>1 DEF Answer, Fits
    <2> QED BY <2>1 DEF Why, Considered
  <1>3. UNCHANGED unit /\ Advance /\ index' = index + 1 BY DEF Skip, Advance
  <1>4. Current.optional /\ Current.cmd # "usage"
    <2>1. Current.lenient = FALSE BY <1>1 DEF Steps
    <2>2. Current.optional BY <2>1 DEF Skip, Tolerates
    <2> QED BY <1>1, <2>2 DEF Proper
  <1>5. skipped \subseteq skipped' /\ lacked \subseteq lacked' BY DEF Skip, Skipping
  <1>6. \A p : p[1] = Current.table /\ p[2] = Current.start /\ ~ Current.quiet => NotedWith(p, Why)'
    BY <1>2 DEF Skip, Skipping, Quiet, NotedWith
  <1>7. \A p : p[1] = Current.table /\ p[2] = Current.start
                 => NotedWith(p, Why)' \/ p[1] \in lacked'
    BY <1>2 DEF Skip, Skipping, NotedWith
  <1>8. NotesInv'
    <2>1. replyLost' = (replyLost \/ why = "lost") BY DEF Skip, NotedAsLost
    <2>2. \A s \in skipped' : s \in skipped \/ s = <<Current.table, Current.start, why>>
      BY DEF Skip, Skipping
    <2>3. ASSUME NEW s \in skipped'
          PROVE  /\ s[3] = "lost" => replyLost'
                 /\ s[3] = "no fit" => s[1] = "project"
      <3>1. CASE s \in skipped BY <1>0, <2>1, <3>1 DEF NotesInv
      <3>2. CASE s = <<Current.table, Current.start, why>> BY <1>2, <2>1, <3>2
      <3> QED BY <2>2, <3>1, <3>2
    <2>4. replyLost' \in BOOLEAN BY <1>0, <2>1 DEF NotesInv
    <2> QED BY <2>3, <2>4 DEF NotesInv
  <1>9. Settled
    <2>1. \A p \in Lasting(unit) :
             IsStep(Current, "read", p) \/ IsStep(Current, "labels", p) => NotedWith(p, Why)'
      BY <1>1, <1>6 DEF IsStep, Proper
    <2>2. \A p \in Lasting(unit) :
             IsStep(Current, "single", p) => NotedWith(p, Why)' \/ p[1] \in lacked'
      BY <1>7 DEF IsStep
    <2> QED BY <1>4, <2>1, <2>2 DEF Settled
  <1>10. CASE Current.cmd = "project"
    <2>1. DropProject BY <1>10 DEF Skip
    <2>2. ProperPlan' /\ OthersStayAhead /\ NoProjectDue'
      BY <1>0, <1>1, <1>3, <2>1, PlanWithoutProject DEF DropProject
    <2>3. /\ GotInv' /\ (unit.keeps => got'["project"] = <<>>)
          /\ \A p \in Lasting(unit) : Has(p) => Has(p)'
      BY <1>0, <1>1, <1>3, <2>1, GotWithoutProject DEF DropProject
    <2>4. PlanInv' /\ EndInv' BY <1>0, <1>3, <2>2, Advances
    <2>5. NothingIsLost BY <1>5, <2>3 DEF NothingIsLost
    <2>6. CoverInv' /\ RequiredInv' BY <1>0, <1>1, <1>3, <1>9, <2>2, <2>5, CoverStep
    <2>7. ProjectInv'
      <3>1. Part(Current) \in Project(unit) /\ ~ Current.quiet BY <1>1, <1>10 DEF Proper
      <3>2. \E q \in Project(unit) : NotedWith(q, Why)'
        <4> DEFINE p == Part(Current)
        <4>1. p[1] = Current.table /\ p[2] = Current.start BY DEF Part
        <4> HIDE DEF p
        <4> QED BY <1>6, <3>1, <4>1 DEF p
      <3>3. unit'.keeps => Dropped' BY <1>3, <2>2, <2>3, <3>2 DEF Dropped
      <3> QED BY <3>3 DEF ProjectInv
    <2> QED BY <1>8, <2>3, <2>4, <2>6, <2>7 DEF GetInv
  <1>11. CASE Current.cmd # "project"
    <2>1. UNCHANGED <<unit, steps, got>> BY <1>11 DEF Skip
    <2>2. ProperPlan' /\ AllStayAhead /\ OthersStayAhead /\ ProjectAheadStays
      BY <1>0, <1>1, <1>3, <2>1, SamePlanAhead
    <2>3. GotInv' BY <1>0, <2>1 DEF GotInv, InItsPlace
    <2>4. PlanInv' /\ EndInv' BY <1>0, <1>3, <2>2, Advances
    <2>5. NothingIsLost BY <1>5, <2>1 DEF NothingIsLost, Has
    <2>6. CoverInv' /\ RequiredInv' BY <1>0, <1>1, <1>3, <1>9, <2>2, <2>5, CoverStep
    <2>7. ProjectInv' BY <1>0, <1>1, <1>5, <1>11, <2>1, <2>2, ProjectStays
    <2> QED BY <1>8, <2>3, <2>4, <2>6, <2>7 DEF GetInv
  <1> QED BY <1>10, <1>11

-----------------------------------------------------------------------------
(* A step answered *)

\* A step that neither moves the Get nor calls it a success keeps the invariant.
LEMMA Unmoved ==
    ASSUME GetInv, UNCHANGED <<plan, index, skipped, lacked, replyLost, got>>,
           report' = "ok" => report = "ok"
    PROVE  GetInv'
  <1>1. UNCHANGED <<unit, steps, index, skipped, lacked, replyLost, got>> BY DEF plan
  <1>2. PlanInv' BY <1>1 DEF GetInv, PlanInv, ProperPlan, Proper, Part
  <1>3. EndInv' BY <1>1 DEF GetInv, EndInv
  <1>4. GotInv' BY <1>1 DEF GetInv, GotInv, InItsPlace
  <1>5. NotesInv'
    <2>1. NotesInv BY DEF GetInv
    <2> QED BY <2>1 DEF NotesInv
  <1>6. /\ Ahead' = Ahead /\ \A cmd, p : (Due(cmd, p) <=> Due(cmd, p)')
        /\ (UsageDue <=> UsageDue') /\ (NoProjectDue <=> NoProjectDue')
    BY <1>1 DEF Ahead, Due, UsageDue, NoProjectDue
  <1>7. \A p : (Has(p) <=> Has(p)') /\ (NotedWith(p, Why) <=> NotedWith(p, Why)')
    BY <1>1 DEF Has, NotedWith
  <1>8. CoverInv' BY <1>1, <1>6, <1>7 DEF GetInv, CoverInv
  <1>9. RequiredInv' BY <1>1, <1>6, <1>7 DEF GetInv, RequiredInv
  <1>10. ProjectInv'
    BY <1>1, <1>6, <1>7
    DEF GetInv, ProjectInv, HeaderAhead, BodyAhead, HeaderAlone, Dropped
  <1> QED BY <1>2, <1>3, <1>4, <1>5, <1>8, <1>9, <1>10 DEF GetInv

\* A Get that fails keeps the invariant.
LEMMA AbortKeeps == ASSUME GetInv, Abort PROVE GetInv'
  <1>1. report' = "ok" => report = "ok" BY DEF Abort
  <1> QED BY <1>1, Unmoved DEF Abort

\* A step answered that leaves the plan as it is and is none of the project's.
LEMMA StepDone ==
    ASSUME GetInv, InFlight, UNCHANGED <<plan, skipped, lacked, replyLost>>, Advance,
           Current.cmd # "project", GotInv', \A p \in Lasting(unit) : Has(p) => Has(p)',
           unit.keeps => got'["project"] = got["project"], Settled
    PROVE  GetInv'
  <1>0. PlanInv /\ GotInv /\ NotesInv /\ CoverInv /\ RequiredInv /\ ProjectInv BY DEF GetInv
  <1>1. UNCHANGED <<unit, steps>> /\ index' = index + 1 BY DEF plan, Advance
  <1>2. index \in 1 .. Len(steps) /\ Fits(unit) BY <1>0, CurrentIs
  <1>3. ProperPlan' /\ AllStayAhead /\ OthersStayAhead /\ ProjectAheadStays
    BY <1>0, <1>1, <1>2, SamePlanAhead
  <1>4. PlanInv' /\ EndInv' BY <1>0, <1>1, <1>3, Advances
  <1>5. NothingIsLost BY DEF NothingIsLost
  <1>6. CoverInv' /\ RequiredInv' BY <1>0, <1>1, <1>2, <1>3, <1>5, CoverStep
  <1>7. skipped \subseteq skipped' OBVIOUS
  <1>8. ProjectInv' BY <1>0, <1>1, <1>2, <1>3, <1>7, ProjectStays
  <1>9. NotesInv' BY <1>0 DEF NotesInv
  <1> QED BY <1>4, <1>6, <1>8, <1>9 DEF GetInv

\* Chunks in their places behind those of table t.
Continues(w, t) ==
    /\ w \in Seq(Int) /\ Len(got[t]) <= Len(w)
    /\ \A i \in 1 .. Len(got[t]) : w[i] = got[t][i]
    /\ \A i \in Len(got[t]) + 1 .. Len(w) :
          /\ <<t, i - 1>> \in Held(unit)
          /\ w[i] = i - 1 \/ (w[i] = Blank /\ <<t, i - 1>> \in Names(unit))

\* Table t is w now, the others stay, and nothing is lost.
IsGrown(w, t) ==
    /\ GotInv' /\ \A s \in Table(unit) : s # t => got'[s] = got[s]
    /\ \A p : p[1] \in Table(unit) /\ Has(p) => Has(p)'
    /\ \A p : p[1] = t /\ (\E i \in 1 .. Len(w) : w[i] = p[2]) => Has(p)'

\* A table whose chunks are continued in their places leaves the others in theirs.
LEMMA Grown ==
    ASSUME Fits(unit), GotInv, UNCHANGED unit, NEW t \in Table(unit), NEW w, Continues(w, t),
           got' = [got EXCEPT ![t] = w]
    PROVE  IsGrown(w, t)
  <1> DEFINE Z == Seq(Int)
             m == Len(got[t])
             n == Len(w)
  <1>1. got \in [Table(unit) -> Z] /\ got[t] \in Z BY DEF GotInv
  <1>2. /\ w \in Z /\ m \in Nat /\ n \in Nat /\ m <= n
        /\ DOMAIN got[t] = 1 .. m /\ DOMAIN w = 1 .. n
        /\ \A i \in 1 .. m : w[i] = got[t][i]
    BY <1>1 DEF Continues
  <1> HIDE DEF Z
  <1>3. /\ got' \in [Table(unit) -> Z] /\ got'[t] = w
        /\ \A s \in Table(unit) : s # t => got'[s] = got[s]
    BY <1>1, <1>2
  <1> HIDE DEF m, n
  <1>4. ASSUME NEW s \in Table(unit), NEW i \in 1 .. Len(got'[s]) PROVE InItsPlace(s, i)'
    <2>1. CASE s # t
      <3>1. got'[s] = got[s] BY <1>3, <2>1
      <3>2. InItsPlace(s, i) BY <3>1 DEF GotInv
      <3> QED BY <3>1, <3>2 DEF InItsPlace
    <2>2. CASE s = t
      <3>0. i \in 1 .. n BY <1>3, <2>2 DEF n
      <3>1. i \in 1 .. m \/ i \in m + 1 .. n BY <1>2, <3>0
      <3>2. CASE i \in 1 .. m
        <4>1. InItsPlace(t, i) BY <3>2 DEF GotInv, m
        <4>2. got'[t][i] = got[t][i] BY <1>2, <1>3, <3>2
        <4> QED BY <2>2, <4>1, <4>2 DEF InItsPlace
      <3>3. CASE i \in m + 1 .. n
        <4>1. /\ <<t, i - 1>> \in Held(unit)
              /\ w[i] = i - 1 \/ (w[i] = Blank /\ <<t, i - 1>> \in Names(unit))
          BY <3>3 DEF Continues, m, n
        <4> QED BY <1>3, <2>2, <4>1 DEF InItsPlace
      <3> QED BY <3>1, <3>2, <3>3
    <2> QED BY <2>1, <2>2
  <1>5. GotInv' BY <1>3, <1>4 DEF GotInv, Z
  <1>7. \A i \in 1 .. m : i \in 1 .. n BY <1>2
  <1>8. ASSUME NEW p, p[1] \in Table(unit), Has(p) PROVE Has(p)'
    <2>1. CASE p[1] = t BY <1>2, <1>3, <1>7, <1>8, <2>1 DEF Has
    <2>2. CASE p[1] # t BY <1>3, <1>8, <2>2 DEF Has
    <2> QED BY <2>1, <2>2
  <1>9. \A p : p[1] = t /\ (\E i \in 1 .. n : w[i] = p[2]) => Has(p)' BY <1>2, <1>3 DEF Has
  <1> QED BY <1>3, <1>5, <1>8, <1>9 DEF n, IsGrown

\* The next chunk of table t continues it.
LEMMA NextContinues ==
    ASSUME Fits(unit), GotInv, NEW t \in Table(unit), NEW start \in Nat,
           start = Len(got[t]), <<t, start>> \in Held(unit)
    PROVE  /\ Continues(Append(got[t], start), t)
           /\ \E i \in 1 .. Len(Append(got[t], start)) : Append(got[t], start)[i] = start
  <1> DEFINE w == Append(got[t], start)
  <1>1. got[t] \in Seq(Int) BY DEF GotInv
  <1>2. /\ w \in Seq(Int) /\ Len(w) = start + 1 /\ w[start + 1] = start
        /\ \A i \in 1 .. start : w[i] = got[t][i]
    BY <1>1
  <1> HIDE DEF w
  <1>3. /\ \A i \in start + 1 .. start + 1 : i = start + 1 /\ i - 1 = start
        /\ start <= start + 1 /\ start + 1 \in 1 .. start + 1
    OBVIOUS
  <1>4. Continues(w, t) BY <1>2, <1>3 DEF Continues
  <1>5. \E i \in 1 .. Len(w) : w[i] = start BY <1>2, <1>3
  <1> QED BY <1>4, <1>5 DEF w

\* A reply whose chunks are kept.
LEMMA KeptKeeps ==
    ASSUME GetInv, InFlight, Current.cmd \notin {"project", "usage"},
           Part(Current) \in Lasting(unit),
           NEW w, Continues(w, Current.table), \E i \in 1 .. Len(w) : w[i] = Current.start,
           Received(w)
    PROVE  GetInv'
  <1>0. PlanInv /\ GotInv BY DEF GetInv
  <1>1. Current \in Steps /\ Fits(unit) BY <1>0, CurrentIs
  <1> DEFINE t == Current.table
             start == Current.start
  <1>2. UNCHANGED <<plan, skipped, lacked, replyLost>> /\ Advance /\ UNCHANGED unit
        /\ got' = [got EXCEPT ![t] = w]
    BY DEF Received, plan
  <1>3. t \in Table(unit) /\ t # "project"
    <2> DEFINE p == Part(Current)
    <2>1. p[1] = t BY DEF Part
    <2>2. p \in Lasting(unit) OBVIOUS
    <2> HIDE DEF p, t
    <2> QED BY <1>1, <2>1, <2>2, PartsAre
  <1>4. Continues(w, t) /\ \E i \in 1 .. Len(w) : w[i] = start OBVIOUS
  <1> HIDE DEF t, start
  <1>5. IsGrown(w, t)
    <2>1. Fits(unit) /\ GotInv /\ UNCHANGED unit /\ t \in Table(unit) /\ Continues(w, t)
      BY <1>0, <1>1, <1>2, <1>3, <1>4
    <2>2. got' = [got EXCEPT ![t] = w] BY <1>2
    <2> QED BY <2>1, <2>2, Grown
  <1>6. \A p : p[1] = t /\ p[2] = start => Has(p)' BY <1>4, <1>5 DEF IsGrown
  <1>7. \A p \in Lasting(unit) : Has(p) => Has(p)' BY <1>1, <1>5, PartsAre DEF IsGrown
  <1>8. unit.keeps => got'["project"] = got["project"]
    <2>1. unit.keeps => Header \in Project(unit) /\ Header[1] = "project"
      BY <1>1 DEF Header, Project, Fits
    <2>2. unit.keeps => "project" \in Table(unit) BY <1>1, <2>1, PartsAre
    <2> QED BY <1>3, <1>5, <2>2 DEF IsGrown
  <1>9. Settled BY <1>6 DEF Settled, IsStep, t, start
  <1>10. GotInv' BY <1>5 DEF IsGrown
  <1> QED BY <1>2, <1>7, <1>8, <1>9, <1>10, StepDone

\* Records received (appendItems) keep the invariant.
LEMMA ReceiveRecordsKeeps ==
    ASSUME GetInv, InFlight, ReceiveRecords PROVE GetInv'
  <1>0. PlanInv /\ GotInv BY DEF GetInv
  <1>1. /\ Current \in Steps /\ Proper(Current) /\ Fits(unit) /\ Current.cmd = "read"
        /\ Current.start \in Nat
    BY <1>0, CurrentIs DEF ReceiveRecords, Steps
  <1> DEFINE t == Current.table
             start == Current.start
             w == Append(got[t], start)
  <1>2. CASE ~ InPlace(t, start)
    BY <1>2, AbortKeeps DEF ReceiveRecords
  <1>3. CASE InPlace(t, start)
    <2>1. Received(w) BY <1>3 DEF ReceiveRecords
    <2>2. Part(Current) = <<t, start>> BY DEF Part
    <2>3. Part(Current) \in Records(unit) /\ Part(Current) \in Lasting(unit)
          /\ <<t, start>> \in Held(unit)
      BY <1>1, <2>2 DEF Proper, Lasting, Held
    <2>4. t \in Table(unit)
      <3> DEFINE p == <<t, start>>
      <3>1. p[1] = t OBVIOUS
      <3>2. p \in Held(unit) BY <2>3
      <3> HIDE DEF p, t
      <3> QED BY <1>1, <3>1, <3>2, PartsAre
    <2> HIDE DEF t, start
    <2>5. start = Len(got[t]) /\ start \in Nat BY <1>1, <1>3 DEF InPlace, start
    <2>6. Continues(w, t) /\ \E i \in 1 .. Len(w) : w[i] = start
      BY <1>0, <1>1, <2>3, <2>4, <2>5, NextContinues
    <2> HIDE DEF w
    <2>7. Continues(w, Current.table) /\ \E i \in 1 .. Len(w) : w[i] = Current.start
      BY <2>6 DEF t, start
    <2> QED BY <1>1, <2>1, <2>3, <2>7, KeptKeeps
  <1> QED BY <1>2, <1>3

\* A table of names that holds a chunk holds those before it.
LEMMA NamesBelow ==
    ASSUME NEW t, NEW s \in Nat, Fits(unit), <<t, s>> \in Names(unit), NEW i \in 0 .. s
    PROVE  <<t, i>> \in Names(unit)
  <1> DEFINE ls == unit.labels
  <1>1. PICK j \in DOMAIN ls : <<t, s>> \in Chunks(ls[j]) BY DEF Names
  <1>2. ls[j] \in Tables BY DEF Fits
  <1>3. ls[j].chunks \in Nat BY <1>2 DEF Tables
  <1>4. t = ls[j].name /\ s \in 0 .. ls[j].chunks - 1 BY <1>1 DEF Chunks
  <1>5. i \in 0 .. ls[j].chunks - 1 BY <1>3, <1>4
  <1> QED BY <1>4, <1>5 DEF Names, Chunks

\* Names received (captureLabels) keep the invariant: the holes behind those
\* received so far are names the unit has.
LEMMA ReceiveNamesKeeps ==
    ASSUME GetInv, InFlight, ReceiveNames PROVE GetInv'
  <1>0. PlanInv /\ GotInv BY DEF GetInv
  <1>1. /\ Current \in Steps /\ Proper(Current) /\ Fits(unit) /\ Current.cmd = "labels"
        /\ Current.start \in Nat
    BY <1>0, CurrentIs DEF ReceiveNames, Steps
  <1> DEFINE t == Current.table
             start == Current.start
             names == got[t]
             w == [i \in 1 .. start + 1 |->
                     IF i <= Len(names) THEN names[i] ELSE IF i = start + 1 THEN start ELSE Blank]
  <1>2. CASE start < Len(names)
    BY <1>2, AbortKeeps DEF ReceiveNames
  <1>3. CASE ~ (start < Len(names))
    <2>1. Received(w) BY <1>3 DEF ReceiveNames
    <2>2. Part(Current) = <<t, start>> BY DEF Part
    <2>3. Part(Current) \in Names(unit) /\ Part(Current) \in Lasting(unit)
          /\ <<t, start>> \in Held(unit) /\ <<t, start>> \in Names(unit)
      BY <1>1, <2>2 DEF Proper, Lasting, Held
    <2>4. t \in Table(unit)
      <3> DEFINE p == <<t, start>>
      <3>1. p[1] = t OBVIOUS
      <3>2. p \in Held(unit) BY <2>3
      <3> HIDE DEF p, t
      <3> QED BY <1>1, <3>1, <3>2, PartsAre
    <2> HIDE DEF t, start
    <2>5. names \in Seq(Int) /\ start \in Nat BY <1>0, <1>1, <2>4 DEF GotInv, start
    <2> HIDE DEF names
    <2>6. /\ w \in Seq(Int) /\ Len(w) = start + 1 /\ Len(names) <= start /\ Len(names) \in Nat
          /\ \A i \in 1 .. Len(names) : w[i] = names[i]
          /\ w[start + 1] = start
          /\ \A i \in Len(names) + 1 .. start + 1 : w[i] = i - 1 \/ w[i] = Blank
      <3>1. Len(names) \in Nat /\ Len(names) <= start /\ start + 1 \in 1 .. start + 1
            /\ \A i \in 1 .. Len(names) : i \in 1 .. start + 1
        BY <1>3, <2>5
      <3>2. \A i \in 1 .. Len(names) : names[i] \in Int BY <2>5
      <3>3. Blank \in Int BY DEF Blank
      <3>4. w \in Seq(Int) BY <2>5, <3>1, <3>2, <3>3
      <3>5. Len(w) = start + 1 BY <2>5
      <3> QED BY <2>5, <3>1, <3>4, <3>5
    <2> HIDE DEF w
    <2>7. \A i \in Len(names) + 1 .. start + 1 : i - 1 \in 0 .. start BY <2>5, <2>6
    <2>8. \A i \in 0 .. start : <<t, i>> \in Names(unit)
      BY <1>1, <2>3, <2>5, NamesBelow
    <2>9. Continues(w, t)
      <3>1. \A i \in Len(names) + 1 .. start + 1 :
              <<t, i - 1>> \in Names(unit) /\ <<t, i - 1>> \in Held(unit)
        BY <2>7, <2>8 DEF Held
      <3>2. Len(names) <= Len(w) BY <2>5, <2>6
      <3> QED BY <2>6, <3>1, <3>2 DEF Continues, names
    <2>10. start + 1 \in 1 .. Len(w) /\ w[start + 1] = start BY <2>5, <2>6
    <2>11. Continues(w, Current.table) /\ \E i \in 1 .. Len(w) : w[i] = Current.start
      BY <2>9, <2>10 DEF t, start
    <2> QED BY <1>1, <2>1, <2>3, <2>11, KeptKeeps
  <1> QED BY <1>2, <1>3

\* A record read on its own is the only chunk of its table.
LEMMA SinglePart ==
    ASSUME Fits(unit), NEW t \in {"busSetup", "channelsExt"}, NEW i, <<t, i>> \in Held(unit)
    PROVE  i = 0 /\ <<t, i>> \notin Names(unit)
  <1> DEFINE p == <<t, i>>
  <1>1. p[1] = t /\ p[2] = i OBVIOUS
  <1>2. p \notin Records(unit)
    <2> SUFFICES ASSUME NEW j \in DOMAIN unit.tables, p \in Chunks(unit.tables[j]) PROVE FALSE
      BY DEF Records
    <2>1. t = unit.tables[j].name BY DEF Chunks
    <2> QED BY <2>1 DEF Fits
  <1>3. p \notin Names(unit)
    <2> SUFFICES ASSUME NEW j \in DOMAIN unit.labels, p \in Chunks(unit.labels[j]) PROVE FALSE
      BY DEF Names
    <2>1. t = unit.labels[j].name BY DEF Chunks
    <2> QED BY <2>1 DEF Fits
  <1>4. p \notin Project(unit)
    <2>1. \A q \in Project(unit) : q[1] = "project" BY PartsAre
    <2> QED BY <1>1, <2>1
  <1>5. p \in Singles BY <1>2, <1>3, <1>4 DEF Held
  <1>6. i = 0 BY <1>5 DEF Singles
  <1> QED BY <1>3, <1>6

\* The ping's answer and a record read on its own keep the invariant.
LEMMA ReceiveSingleKeeps ==
    ASSUME GetInv, InFlight, ReceiveSingle PROVE GetInv'
  <1>0. PlanInv /\ GotInv BY DEF GetInv
  <1>1. /\ Current \in Steps /\ Proper(Current) /\ Fits(unit)
        /\ Current.cmd \in {"ping", "single"}
    BY <1>0, CurrentIs DEF ReceiveSingle
  <1>2. CASE Current.cmd = "ping" \/ Misfits(Current)
    <2>1. UNCHANGED <<plan, skipped, lacked, replyLost, got>> /\ Advance BY <1>2 DEF ReceiveSingle
    <2>2. UNCHANGED unit BY <2>1 DEF plan
    <2>3. GotInv' BY <1>0, <2>1, <2>2 DEF GotInv, InItsPlace
    <2>4. \A p : IsStep(Current, "single", p) => p[1] \in unit'.misfits
      BY <1>2, <2>2 DEF IsStep, Misfits
    <2>5. Settled BY <1>1, <2>4 DEF Settled, IsStep
    <2>6. \A p \in Lasting(unit) : Has(p) => Has(p)' BY <2>1 DEF Has
    <2> QED BY <1>1, <2>1, <2>3, <2>5, <2>6, StepDone
  <1>3. CASE ~ (Current.cmd = "ping" \/ Misfits(Current))
    <2> DEFINE t == Current.table
               w == <<0>>
    <2>1. Received(w) /\ Current.cmd = "single" BY <1>1, <1>3 DEF ReceiveSingle
    <2>2. Part(Current) = <<t, Current.start>> /\ Part(Current) \in Singles
      BY <1>1, <2>1 DEF Part, Proper
    <2>3. t \in {"busSetup", "channelsExt"} /\ Current.start = 0 BY <2>2 DEF Singles
    <2>4. Part(Current) \in Lasting(unit) /\ <<t, 0>> \in Held(unit)
      BY <2>2, <2>3 DEF Lasting, Held
    <2>5. t \in Table(unit)
      <3> DEFINE p == <<t, 0>>
      <3>1. p[1] = t OBVIOUS
      <3>2. p \in Held(unit) BY <2>4
      <3> HIDE DEF p, t
      <3> QED BY <1>1, <3>1, <3>2, PartsAre
    <2> HIDE DEF t
    <2>6. /\ w \in Seq(Int) /\ Len(w) = 1 /\ w[1] = 0 OBVIOUS
    <2> HIDE DEF w
    <2>7. got[t] \in Seq(Int) /\ \A i \in 1 .. Len(got[t]) : InItsPlace(t, i)
      BY <1>0, <2>5 DEF GotInv
    <2>8. \A i \in 1 .. Len(got[t]) : i - 1 = 0 /\ got[t][i] = i - 1
      BY <1>1, <2>3, <2>7, SinglePart DEF InItsPlace
    <2>9. Len(got[t]) \in Nat /\ Len(got[t]) <= 1
      <3>1. Len(got[t]) \in Nat BY <2>7
      <3>2. ASSUME Len(got[t]) > 1 PROVE FALSE
        <4>1. 2 \in 1 .. Len(got[t]) BY <3>1, <3>2
        <4> QED BY <2>8, <4>1
      <3> QED BY <3>1, <3>2
    <2>10. Continues(w, t)
      <3>1. \A i \in 1 .. Len(got[t]) : i = 1
        BY <2>9
      <3>2. \A i \in Len(got[t]) + 1 .. Len(w) : i = 1 /\ i - 1 = 0 BY <2>6, <2>9
      <3>3. Len(got[t]) <= Len(w) BY <2>6, <2>9
      <3>4. \A i \in 1 .. Len(got[t]) : w[i] = got[t][i]
        <4> TAKE i \in 1 .. Len(got[t])
        <4>1. i = 1 /\ i - 1 = 0 /\ got[t][i] = i - 1 BY <2>8, <3>1
        <4> QED BY <2>6, <4>1
      <3> QED BY <2>4, <2>6, <3>2, <3>3, <3>4 DEF Continues
    <2>11. 1 \in 1 .. Len(w) /\ w[1] = Current.start BY <2>3, <2>6
    <2>12. Continues(w, Current.table) /\ \E i \in 1 .. Len(w) : w[i] = Current.start
      BY <2>10, <2>11 DEF t
    <2> QED BY <2>1, <2>4, <2>12, KeptKeeps
  <1> QED BY <1>2, <1>3

-----------------------------------------------------------------------------
(* Steps planned while the Get runs *)

\* What GET_USAGE plans (captureUsage) keeps the invariant: everything its answer
\* stood for is due.
LEMMA ReceiveUsageKeeps ==
    ASSUME GetInv, InFlight, ReceiveUsage PROVE GetInv'
  <1>0. PlanInv /\ GotInv /\ NotesInv /\ CoverInv /\ RequiredInv /\ ProjectInv BY DEF GetInv
  <1>1. /\ index \in 1 .. Len(steps) /\ Fits(unit) /\ Current.cmd = "usage"
    BY <1>0, CurrentIs DEF ReceiveUsage
  <1>2. CASE Misfits(Current)
    BY <1>2, AbortKeeps DEF ReceiveUsage
  <1>3. CASE ~ Misfits(Current)
    <2> DEFINE R == TableReadSteps(unit)
    <2>1. /\ steps' = SubSeq(steps, 1, index) \o R \o SubSeq(steps, index + 1, Len(steps))
          /\ UNCHANGED <<unit, skipped, lacked, replyLost, got>> /\ Advance /\ index' = index + 1
      BY <1>3 DEF ReceiveUsage, Advance
    <2>2. TableReads(R, unit) BY <1>1, TableReadStepsAre DEF Fits
    <2> HIDE DEF R
    <2>3. ASSUME NEW k \in 1 .. Len(R) PROVE Proper(R[k]) /\ R[k].cmd # "project"
      <3>1. \A p \in Records(unit) \union Names(unit) : p = <<p[1], p[2]>>
        BY <1>1, PartsAre DEF Lasting
      <3>2. ~ R[k].quiet BY <2>2 DEF TableReads
      <3>3. CASE \E p \in Records(unit) : IsStep(R[k], "read", p)
        BY <3>1, <3>2, <3>3 DEF IsStep, Proper, Part
      <3>4. CASE \E p \in Names(unit) : IsStep(R[k], "labels", p)
        BY <3>1, <3>2, <3>4 DEF IsStep, Proper, Part
      <3> QED BY <2>2, <3>3, <3>4 DEF TableReads
    <2>4. R \in Seq(Steps) BY <2>2 DEF TableReads
    <2>5. IsInserted(R) BY <1>0, <1>1, <2>1, <2>3, <2>4, PlanInserted
    <2>6. ProperPlan' /\ AllStayAhead BY <2>5 DEF IsInserted
    <2>7. OthersStayAhead BY <2>6 DEF AllStayAhead, OthersStayAhead
    <2>8. ProjectAheadStays
      <3>1. \A k \in Ahead' : steps'[k].cmd = "project" =>
               \E j \in Ahead : /\ j # index /\ steps'[k] = steps[j]
                                /\ k - Len(steps') = j - Len(steps)
        BY <2>3, <2>5 DEF IsInserted
      <3> QED BY <2>5, <3>1 DEF IsInserted, ProjectAheadStays
    <2>9. GotInv' BY <1>0, <2>1 DEF GotInv, InItsPlace
    <2>10. PlanInv' /\ EndInv' BY <1>0, <2>1, <2>6, Advances
    <2>11. NothingIsLost BY <2>1 DEF NothingIsLost, Has
    <2>12. Settled
      <3>1. \A k \in 1 .. Len(R) : \E j \in Ahead' : steps'[j] = R[k] BY <2>5 DEF IsInserted
      <3>2. \A p \in Records(unit) : Due("read", p)' BY <2>2, <3>1 DEF TableReads, Due
      <3>3. \A p \in Names(unit) : Due("labels", p)' BY <2>2, <3>1 DEF TableReads, Due
      <3>4. \A i \in 1 .. RequiredTables : \A p \in Chunks(unit.tables[i]) :
               (\E k \in Ahead : IsStep(steps[k], "read", p) /\ ~ steps[k].optional)'
        BY <2>2, <3>1 DEF TableReads
      <3> QED BY <1>1, <3>2, <3>3, <3>4 DEF Settled, IsStep
    <2>13. CoverInv' /\ RequiredInv' BY <1>0, <1>1, <2>1, <2>7, <2>11, <2>12, CoverStep
    <2>14. ProjectInv' BY <1>0, <1>1, <2>1, <2>6, <2>8, ProjectStays
    <2>15. NotesInv' BY <1>0, <2>1 DEF NotesInv
    <2> QED BY <2>9, <2>10, <2>13, <2>14, <2>15 DEF GetInv
  <1> QED BY <1>2, <1>3

\* ProjectReads has a step for every chunk of the body.
LEMMA ProjectReadsAre ==
    ASSUME NEW u, u.body \in Nat, u.keeps
    PROVE  /\ ProjectReads(u) \in Seq(Steps) /\ Len(ProjectReads(u)) = u.body
           /\ \A k \in 1 .. u.body :
                 ProjectReads(u)[k].cmd = "project" /\ ProjectReads(u)[k].table = "project"
                 /\ ProjectReads(u)[k].start = k /\ ~ ProjectReads(u)[k].quiet
  <1> DEFINE F(i) == MadeOptional(ReadStep("project", "project", i))
  <1>1. \A k \in 1 .. u.body :
           /\ F(k) \in Steps /\ F(k).cmd = "project" /\ F(k).table = "project"
           /\ F(k).start = k /\ ~ F(k).quiet
    <2> SUFFICES ASSUME NEW k \in 1 .. u.body
                 PROVE  /\ F(k) \in Steps /\ F(k).cmd = "project" /\ F(k).table = "project"
                        /\ F(k).start = k /\ ~ F(k).quiet
      OBVIOUS
    <2> DEFINE c == "project"
               r == ReadStep(c, c, k)
    <2>1. k \in Nat /\ c \in Commands /\ c \in TableNames BY DEF Commands, TableNames
    <2>2. F(k) = MadeOptional(r) OBVIOUS
    <2> HIDE DEF c, F
    <2>3. r \in Steps /\ r.cmd = c /\ r.table = c /\ r.start = k /\ r.quiet = FALSE
      BY <2>1 DEF r, ReadStep, Steps
    <2> HIDE DEF r
    <2>4. MadeOptional(r) \in Steps /\ MadeOptional(r).cmd = c /\ MadeOptional(r).table = c
          /\ MadeOptional(r).start = k /\ MadeOptional(r).quiet = FALSE
      BY <2>3 DEF MadeOptional, Steps
    <2> QED BY <2>2, <2>4 DEF c
  <1>2. ProjectReads(u) = [i \in 1 .. u.body |-> F(i)] BY DEF ProjectReads
  <1> HIDE DEF F
  <1>3. ProjectReads(u) \in Seq(Steps) /\ Len(ProjectReads(u)) = u.body BY <1>1, <1>2
  <1> QED BY <1>1, <1>2, <1>3

\* The project's reads came in behind the last step.
IsAppended(R) ==
    /\ ProperPlan' /\ AllStayAhead
    /\ \A k \in 1 .. Len(R) : \E j \in Ahead' : steps'[j] = R[k]

\* The plan with steps R behind its last one (addProjectReads).
LEMMA PlanAppended ==
    ASSUME PlanInv, index \in 1 .. Len(steps), UNCHANGED unit, index' = index + 1,
           NEW R \in Seq(Steps), \A k \in 1 .. Len(R) : Proper(R[k]), steps' = steps \o R
    PROVE  IsAppended(R)
  <1> DEFINE n == Len(steps)
             w == steps \o R
  <1>1. steps \in Seq(Steps) /\ n \in Nat /\ index \in Nat /\ index <= n /\ Len(R) \in Nat
    BY DEF PlanInv, ProperPlan
  <1>2. w \in Seq(Steps) /\ IsJoined(w, steps, R) BY <1>1, Joined
  <1>3. steps' = w OBVIOUS
  <1> HIDE DEF w
  <1>4. /\ Len(w) = n + Len(R) /\ \A k \in 1 .. n : w[k] = steps[k]
        /\ \A k \in 1 .. Len(R) : w[n + k] = R[k]
    BY <1>2 DEF IsJoined
  <1> HIDE DEF n
  <1>5. Ahead' = {k \in 1 .. n + Len(R) : index + 1 <= k} /\ Ahead = {k \in 1 .. n : index <= k}
    BY <1>3, <1>4 DEF Ahead, n
  <1>6. ProperPlan'
    <2>1. ASSUME NEW k \in 1 .. n + Len(R)
          PROVE  (\E j \in 1 .. n : w[k] = steps[j]) \/ \E j \in 1 .. Len(R) : w[k] = R[j]
      <3>1. CASE k <= n BY <1>1, <1>4, <3>1
      <3>2. CASE n < k
        <4>1. k - n \in 1 .. Len(R) /\ n + (k - n) = k BY <1>1, <3>2
        <4>2. w[n + (k - n)] = R[k - n] BY <1>4, <4>1
        <4> QED BY <4>1, <4>2
      <3> QED BY <1>1, <3>1, <3>2
    <2>2. \A k \in 1 .. n + Len(R) : Proper(w[k]) BY <2>1 DEF PlanInv, ProperPlan, n
    <2>3. \A s : Proper(s) <=> Proper(s)' BY DEF Proper, Part
    <2> QED BY <1>2, <1>3, <1>4, <2>2, <2>3 DEF ProperPlan
  <1>7. AllStayAhead
    <2> SUFFICES ASSUME NEW k \in Ahead, k # index PROVE \E j \in Ahead' : steps'[j] = steps[k]
      BY DEF AllStayAhead
    <2>1. k \in 1 .. n + Len(R) /\ k \in 1 .. n /\ index + 1 <= k BY <1>1, <1>5
    <2> QED BY <1>3, <1>4, <1>5, <2>1
  <1>8. \A k \in 1 .. Len(R) : \E j \in Ahead' : steps'[j] = R[k]
    <2>1. \A k \in 1 .. Len(R) : n + k \in 1 .. n + Len(R) /\ index + 1 <= n + k BY <1>1
    <2> QED BY <1>3, <1>4, <1>5, <2>1
  <1> QED BY <1>6, <1>7, <1>8 DEF IsAppended

\* What a step of the project asks for, and that it is due.
LEMMA ProjectDue ==
    ASSUME PlanInv, InFlight, Current.cmd = "project"
    PROVE  /\ unit.keeps /\ Part(Current) \in Project(unit) /\ Current.table = "project"
           /\ Current.start \in 0 .. unit.body /\ ~ NoProjectDue /\ ~ Current.quiet
  <1>1. Current \in Steps /\ Proper(Current) /\ Fits(unit) /\ index \in Ahead BY CurrentIs
  <1>2. ~ Current.quiet /\ Part(Current) \in Project(unit) BY <1>1 DEF Proper
  <1>3. PICK i \in 0 .. unit.body : Part(Current) = <<"project", i>> /\ unit.keeps
    BY <1>2 DEF Project
  <1>4. Current.table = "project" /\ Current.start = i BY <1>3 DEF Part
  <1>5. ~ NoProjectDue BY <1>1 DEF NoProjectDue, Current
  <1> QED BY <1>2, <1>3, <1>4, <1>5

\* A piece of the project that does not fit: the project is dropped, and noted.
LEMMA ReceiveMisfitKeeps ==
    ASSUME GetInv, InFlight, Current.cmd = "project", UNCHANGED <<unit, lacked, replyLost>>,
           DropProject, skipped' = Skipping("no fit"), Advance
    PROVE  GetInv'
  <1>0. PlanInv /\ GotInv /\ NotesInv /\ CoverInv /\ RequiredInv /\ ProjectInv BY DEF GetInv
  <1>1. index \in 1 .. Len(steps) /\ Fits(unit) BY <1>0, CurrentIs
  <1>2. /\ unit.keeps /\ Part(Current) \in Project(unit) /\ Current.table = "project"
    BY <1>0, ProjectDue
  <1>3. index' = index + 1 /\ UNCHANGED unit BY DEF Advance
  <1>4. ProperPlan' /\ OthersStayAhead /\ NoProjectDue'
    BY <1>0, <1>1, <1>3, PlanWithoutProject DEF DropProject
  <1>5. /\ GotInv' /\ (unit.keeps => got'["project"] = <<>>)
        /\ \A p \in Lasting(unit) : Has(p) => Has(p)'
    BY <1>0, <1>1, <1>3, GotWithoutProject DEF DropProject
  <1>6. PlanInv' /\ EndInv' BY <1>0, <1>3, <1>4, Advances
  <1>7. skipped' = skipped \union {<<"project", Current.start, "no fit">>}
    BY <1>2 DEF Skipping
  <1>8. NothingIsLost BY <1>5, <1>7 DEF NothingIsLost
  <1>9. Settled BY DEF Settled, IsStep
  <1>10. CoverInv' /\ RequiredInv' BY <1>0, <1>1, <1>3, <1>4, <1>8, <1>9, CoverStep
  <1>11. \E p \in Project(unit) : NotedWith(p, Why)'
    <2> DEFINE q == Part(Current)
    <2>1. q[1] = "project" /\ q[2] = Current.start /\ q \in Project(unit) BY <1>2 DEF Part
    <2> HIDE DEF q
    <2>2. "no fit" \in Why BY DEF Why
    <2>3. \A p : p[1] = "project" /\ p[2] = Current.start => NotedWith(p, Why)'
      BY <1>7, <2>2 DEF NotedWith
    <2> QED BY <2>1, <2>3
  <1>12. ProjectInv'
    <2>1. Dropped' BY <1>2, <1>3, <1>4, <1>5, <1>11 DEF Dropped
    <2> QED BY <2>1 DEF ProjectInv
  <1>13. NotesInv'
    <2>1. replyLost' \in BOOLEAN BY <1>0 DEF NotesInv
    <2>2. ASSUME NEW s \in skipped'
          PROVE  (s[3] = "lost" => replyLost') /\ (s[3] = "no fit" => s[1] = "project")
      <3>1. CASE s \in skipped BY <1>0, <3>1 DEF NotesInv
      <3>2. CASE s = <<"project", Current.start, "no fit">> BY <3>2
      <3> QED BY <1>7, <3>1, <3>2
    <2> QED BY <2>1, <2>2 DEF NotesInv
  <1> QED BY <1>5, <1>6, <1>10, <1>12, <1>13 DEF GetInv

\* The next bytes of the project; with a valid header the body's reads.
LEMMA ReceivePieceKeeps ==
    ASSUME GetInv, InFlight, Current.cmd = "project",
           UNCHANGED <<unit, lacked, replyLost, skipped>>,
           InPlace("project", Current.start),
           got' = [got EXCEPT !["project"] = Append(got["project"], Current.start)],
           steps' = IF Current.start = 0 /\ unit.valid THEN steps \o ProjectReads(unit) ELSE steps,
           Advance
    PROVE  GetInv'
  <1>0. PlanInv /\ GotInv /\ NotesInv /\ CoverInv /\ RequiredInv /\ ProjectInv BY DEF GetInv
  <1>1. index \in 1 .. Len(steps) /\ index \in Ahead /\ Fits(unit) BY <1>0, CurrentIs
  <1>2. /\ unit.keeps /\ Part(Current) \in Project(unit) /\ Current.table = "project"
        /\ Current.start \in 0 .. unit.body /\ ~ NoProjectDue
    BY <1>0, ProjectDue
  <1>3. index' = index + 1 /\ UNCHANGED unit BY DEF Advance
  <1> DEFINE t == "project"
             start == Current.start
             w == Append(got[t], start)
  <1>4. /\ IsGrown(w, t) /\ start = Len(got[t]) /\ \E i \in 1 .. Len(w) : w[i] = start
        /\ t \in Table(unit)
    <2>1. Part(Current) = <<t, start>> BY <1>2 DEF Part
    <2>2. <<t, start>> \in Held(unit) BY <1>2, <2>1 DEF Held
    <2>3. t \in Table(unit)
      <3> DEFINE p == <<t, start>>
      <3>1. p[1] = t /\ p \in Held(unit) BY <2>2
      <3> HIDE DEF p, t
      <3> QED BY <1>1, <3>1, PartsAre
    <2>4. start = Len(got[t]) /\ start \in Nat BY <1>1, <1>2 DEF InPlace, Fits
    <2>5. got' = [got EXCEPT ![t] = w] OBVIOUS
    <2> HIDE DEF t, start
    <2>6. Continues(w, t) /\ \E i \in 1 .. Len(w) : w[i] = start
      BY <1>0, <1>1, <2>2, <2>3, <2>4, NextContinues
    <2> HIDE DEF w
    <2>7. Fits(unit) /\ GotInv /\ UNCHANGED unit /\ t \in Table(unit) /\ Continues(w, t)
      BY <1>0, <1>1, <2>3, <2>6
    <2>8. IsGrown(w, t) BY <2>5, <2>7, Grown
    <2> QED BY <2>3, <2>4, <2>6, <2>8
  <1>5. \A p \in Project(unit) : (Has(p) \/ p[2] = start) => Has(p)'
    <2>1. \A p \in Project(unit) : p[1] = t /\ p[1] \in Table(unit) BY <1>1, PartsAre
    <2> HIDE DEF t, w
    <2> QED BY <1>4, <2>1 DEF IsGrown
  <1>6. \A p \in Lasting(unit) : Has(p) => Has(p)' BY <1>1, <1>4, PartsAre DEF IsGrown
  <1>7. GotInv' BY <1>4 DEF IsGrown
  <1>8. NothingIsLost BY <1>6 DEF NothingIsLost
  <1>9. Settled BY DEF Settled, IsStep
  <1>10. NotesInv' BY <1>0 DEF NotesInv
  <1>11. ASSUME ProperPlan', AllStayAhead, ProjectInv' PROVE GetInv'
    <2>1. OthersStayAhead BY <1>11 DEF AllStayAhead, OthersStayAhead
    <2>2. PlanInv' /\ EndInv' BY <1>0, <1>3, <1>11, Advances
    <2>3. CoverInv' /\ RequiredInv' BY <1>0, <1>1, <1>3, <1>8, <1>9, <2>1, CoverStep
    <2> QED BY <1>7, <1>10, <1>11, <2>2, <2>3 DEF GetInv
  <1>12. Header \in Project(unit) /\ \A p \in Project(unit) : p[2] = 0 => p = Header
    <2>1. Header \in Project(unit) BY <1>1, <1>2 DEF Header, Project, Fits
    <2>2. \A p \in Project(unit) : p = <<p[1], p[2]>> /\ p[1] = "project" BY <1>1, PartsAre
    <2> QED BY <2>1, <2>2 DEF Header
  <1>13. CASE start = 0 /\ unit.valid
    <2> DEFINE R == ProjectReads(unit)
    <2>1. /\ R \in Seq(Steps) /\ Len(R) = unit.body
          /\ \A k \in 1 .. unit.body :
                 R[k].cmd = "project" /\ R[k].table = "project" /\ R[k].start = k /\ ~ R[k].quiet
      <3>1. unit.body \in Nat /\ unit.keeps BY <1>1, <1>2 DEF Fits
      <3> QED BY <3>1, ProjectReadsAre
    <2>2. steps' = steps \o R BY <1>13
    <2> HIDE DEF R
    <2>3. unit.body \in Nat /\ \A k \in 1 .. unit.body : <<"project", k>> \in Project(unit)
      BY <1>1, <1>2 DEF Fits, Project
    <2>4. \A k \in 1 .. Len(R) : Proper(R[k]) BY <2>1, <2>3 DEF Proper, Part
    <2>5. IsAppended(R) BY <1>0, <1>1, <1>3, <2>1, <2>2, <2>4, PlanAppended
    <2>6. ASSUME NEW p \in Project(unit) PROVE Has(p)' \/ Due("project", p)'
      <3>1. p[1] = "project" /\ p[2] \in 0 .. unit.body BY DEF Project
      <3>2. CASE p[2] = 0 BY <1>5, <1>13, <3>2
      <3>3. CASE p[2] # 0
        <4>1. p[2] \in 1 .. unit.body BY <2>3, <3>1, <3>3
        <4>2. PICK j \in Ahead' : steps'[j] = R[p[2]] BY <2>1, <2>5, <4>1 DEF IsAppended
        <4>3. IsStep(R[p[2]], "project", p) BY <2>1, <3>1, <4>1 DEF IsStep
        <4>4. Due("project", p)' BY <4>2, <4>3 DEF Due
        <4> QED BY <4>4
      <3> QED BY <3>2, <3>3
    <2>7. Has(Header)'
      <3>1. Header[2] = 0 BY DEF Header
      <3> QED BY <1>5, <1>12, <1>13, <3>1
    <2>8. BodyAhead' BY <1>3, <1>13, <2>6, <2>7 DEF BodyAhead
    <2> QED BY <1>11, <2>5, <2>8 DEF IsAppended, ProjectInv
  <1>14. CASE ~ (start = 0 /\ unit.valid)
    <2>1. steps' = steps BY <1>14
    <2>2. /\ ProperPlan' /\ AllStayAhead /\ \A k \in Ahead' : k \in Ahead /\ k # index
      BY <1>0, <1>1, <1>3, <2>1, SamePlan
    <2>3. CASE HeaderAhead
      <3>1. index = Len(steps) BY <1>1, <2>3 DEF HeaderAhead, Current
      <3>2. Current.start = 0
        <4>1. Header[2] = 0 BY DEF Header
        <4> QED BY <2>3, <3>1, <4>1 DEF HeaderAhead, IsStep, Current
      <3>3. ~ unit.valid BY <1>14, <3>2
      <3>4. got["project"] = <<>> BY <2>3 DEF HeaderAhead
      <3>5. got'["project"] = <<0>>
        <4>1. got'["project"] = w BY <1>4, <1>0 DEF GotInv
        <4> QED BY <3>2, <3>4, <4>1
      <3>6. NoProjectDue' BY <2>1, <2>2, <2>3, <3>1 DEF HeaderAhead, NoProjectDue
      <3>7. HeaderAlone' BY <1>3, <3>3, <3>5, <3>6 DEF HeaderAlone
      <3> QED BY <1>11, <2>2, <3>7 DEF ProjectInv
    <2>4. CASE BodyAhead
      <3>1. ASSUME NEW p \in Project(unit) PROVE Has(p)' \/ Due("project", p)'
        <4>1. CASE Has(p) BY <1>5, <4>1
        <4>2. CASE Due("project", p)
          <5>1. PICK k \in Ahead : IsStep(steps[k], "project", p) BY <4>2 DEF Due
          <5>2. CASE k = index
            <6>1. p[2] = start BY <5>1, <5>2 DEF IsStep, Current
            <6> QED BY <1>5, <6>1
          <5>3. CASE k # index
            <6>1. \E j \in Ahead' : steps'[j] = steps[k] BY <2>2, <5>3 DEF AllStayAhead
            <6>2. Due("project", p)' BY <5>1, <6>1 DEF Due
            <6> QED BY <6>2
          <5> QED BY <5>2, <5>3
        <4> QED BY <2>4, <4>1, <4>2 DEF BodyAhead
      <3>2. Has(Header)' BY <1>5, <1>12, <2>4 DEF BodyAhead
      <3>3. BodyAhead' BY <1>3, <2>4, <3>1, <3>2 DEF BodyAhead
      <3> QED BY <1>11, <2>2, <3>3 DEF ProjectInv
    <2>5. HeaderAhead \/ BodyAhead BY <1>0, <1>2 DEF ProjectInv, HeaderAlone, Dropped
    <2> QED BY <2>3, <2>4, <2>5
  <1> QED BY <1>13, <1>14

\* A piece of the project (captureProject) keeps the invariant.
LEMMA ReceiveProjectKeeps ==
    ASSUME GetInv, InFlight, ReceiveProject PROVE GetInv'
  <1>1. CASE ~ Misfits(Current) /\ InPlace("project", Current.start)
    BY <1>1, ReceivePieceKeeps DEF ReceiveProject
  <1>2. CASE ~ (~ Misfits(Current) /\ InPlace("project", Current.start))
    BY <1>2, ReceiveMisfitKeeps DEF ReceiveProject
  <1> QED BY <1>1, <1>2

-----------------------------------------------------------------------------
(* The first plan *)

\* The steps of the records read on their own, and the project's header.
OwnSteps(u) ==
    OptionalFrom(0, <<ReadStep("single", "busSetup", 0),
                      QuietRead(ReadStep("single", "channelsExt", 0))>>
                    \o (IF u.keeps THEN <<ReadStep("project", "project", 0)>> ELSE <<>>))
TheRequired(u) == IF u.plans THEN <<ReadStep("usage", "usage", 0)>> ELSE TableReadSteps(u)

\* buildGetSteps: the ping, the configuration and what is read on its own.
LEMMA PlanAsBuilt ==
    ASSUME NEW u
    PROVE  BuildGetSteps(u) = (<<ReadStep("ping", "none", 0)>> \o TheRequired(u)) \o OwnSteps(u)
  BY DEF BuildGetSteps, OwnSteps, TheRequired

OwnStepsOf(s, u) ==
    /\ s \in Seq(Steps) /\ Len(s) = IF u.keeps THEN 3 ELSE 2
    /\ IsStep(s[1], "single", <<"busSetup", 0>>) /\ IsStep(s[2], "single", <<"channelsExt", 0>>)
    /\ u.keeps => IsStep(s[3], "project", Header) /\ ~ s[3].quiet

\* The last steps ask for the two records and, if it keeps one, the project.
LEMMA OwnStepsAre == ASSUME NEW u PROVE OwnStepsOf(OwnSteps(u), u)
  <1> DEFINE a == ReadStep("single", "busSetup", 0)
             b == QuietRead(ReadStep("single", "channelsExt", 0))
             c == ReadStep("project", "project", 0)
             w == <<a, b>> \o (IF u.keeps THEN <<c>> ELSE <<>>)
  <1>1. a \in Steps /\ a.cmd = "single" /\ a.table = "busSetup" /\ a.start = 0
    BY DEF ReadStep, Steps, Commands, TableNames
  <1>2. b \in Steps /\ b.cmd = "single" /\ b.table = "channelsExt" /\ b.start = 0
    <2> DEFINE r == ReadStep("single", "channelsExt", 0)
    <2>1. r \in Steps /\ r.cmd = "single" /\ r.table = "channelsExt" /\ r.start = 0
      BY DEF ReadStep, Steps, Commands, TableNames
    <2>2. b = [r EXCEPT !.quiet = TRUE] BY DEF QuietRead
    <2> HIDE DEF b, r
    <2> QED BY <2>1, <2>2 DEF Steps
  <1>3. c \in Steps /\ c.cmd = "project" /\ c.table = "project" /\ c.start = 0 /\ c.quiet = FALSE
    BY DEF ReadStep, Steps, Commands, TableNames
  <1> HIDE DEF a, b, c
  <1>4. /\ w \in Seq(Steps) /\ Len(w) = IF u.keeps THEN 3 ELSE 2
        /\ w[1] = a /\ w[2] = b /\ (u.keeps => w[3] = c)
    <2>1. CASE u.keeps
      <3>1. w = <<a, b>> \o <<c>> BY <2>1, Zenon
      <3> QED BY <1>1, <1>2, <1>3, <2>1, <3>1
    <2>2. CASE ~ u.keeps
      <3>1. w = <<a, b>> \o <<>> BY <2>2, Zenon
      <3> QED BY <1>1, <1>2, <2>2, <3>1
    <2> QED BY <2>1, <2>2
  <1>5. OwnSteps(u) = OptionalFrom(0, w) BY DEF OwnSteps, a, b, c
  <1> HIDE DEF w
  <1> DEFINE s == OptionalFrom(0, w)
  <1>6. /\ s \in Seq(Steps) /\ Len(s) = Len(w)
        /\ \A k \in 1 .. Len(w) : /\ s[k].cmd = w[k].cmd /\ s[k].table = w[k].table
                                  /\ s[k].start = w[k].start /\ s[k].quiet = w[k].quiet
    BY <1>4, OptionalFromIs
  <1> HIDE DEF s
  <1>7. 1 \in 1 .. Len(w) /\ 2 \in 1 .. Len(w) /\ (u.keeps => 3 \in 1 .. Len(w)) BY <1>4
  <1>8. OwnStepsOf(s, u)
    BY <1>1, <1>2, <1>3, <1>4, <1>6, <1>7 DEF OwnStepsOf, IsStep, Header
  <1> QED BY <1>5, <1>8 DEF s

\* What the plan is made of, in its order.
MadeOf(w, p, c, s) ==
    /\ w \in Seq(Steps) /\ Len(w) = 1 + Len(c) + Len(s) /\ w[1] = p
    /\ \A k \in 1 .. Len(c) : w[1 + k] = c[k]
    /\ \A k \in 1 .. Len(s) : w[1 + Len(c) + k] = s[k]

\* Three parts in their order make up a plan.
LEMMA Made ==
    ASSUME NEW p \in Steps, NEW c \in Seq(Steps), NEW s \in Seq(Steps)
    PROVE  MadeOf((<<p>> \o c) \o s, p, c, s)
  <1> DEFINE q == <<p>>
             v == q \o c
             w == v \o s
  <1>1. q \in Seq(Steps) /\ Len(q) = 1 /\ q[1] = p OBVIOUS
  <1> HIDE DEF q
  <1>2. v \in Seq(Steps) /\ IsJoined(v, q, c) BY <1>1, Joined
  <1> HIDE DEF v
  <1>3. w \in Seq(Steps) /\ IsJoined(w, v, s) BY <1>2, Joined
  <1> HIDE DEF w
  <1>4. Len(c) \in Nat /\ Len(s) \in Nat OBVIOUS
  <1>5. Len(v) = 1 + Len(c) /\ v[1] = p /\ \A k \in 1 .. Len(c) : v[1 + k] = c[k]
    BY <1>1, <1>2 DEF IsJoined
  <1>6. Len(w) = 1 + Len(c) + Len(s) /\ w[1] = p
    <2>1. 1 \in 1 .. Len(v) BY <1>4, <1>5
    <2>2. w[1] = v[1] BY <1>3, <2>1 DEF IsJoined
    <2> QED BY <1>3, <1>5, <2>2 DEF IsJoined
  <1>7. \A k \in 1 .. Len(c) : w[1 + k] = c[k]
    <2>1. \A k \in 1 .. Len(c) : 1 + k \in 1 .. Len(v) BY <1>4, <1>5
    <2> QED BY <1>3, <1>5, <2>1 DEF IsJoined
  <1>8. \A k \in 1 .. Len(s) : w[1 + Len(c) + k] = s[k] BY <1>3, <1>5 DEF IsJoined
  <1>9. MadeOf(w, p, c, s) BY <1>3, <1>6, <1>7, <1>8 DEF MadeOf
  <1> QED BY <1>9 DEF w, v, q

\* A Get begins with everything due.
LEMMA InitHolds == ASSUME Init PROVE GetInv
  <1>1. /\ unit \in Units /\ Fits(unit) /\ index = 0 /\ report = "none" /\ skipped = {}
        /\ replyLost = FALSE /\ got = [t \in Table(unit) |-> <<>>]
    BY UnitFits DEF Init
  <1> DEFINE P == ReadStep("ping", "none", 0)
             C == TheRequired(unit)
             O == OwnSteps(unit)
             T == TableReadSteps(unit)
  <1>2. P \in Steps /\ P.cmd = "ping" /\ Proper(P)
    BY DEF ReadStep, Steps, Commands, TableNames, Proper
  <1>3. TableReads(T, unit) BY <1>1, TableReadStepsAre DEF Fits
  <1>4. ASSUME unit.plans
        PROVE  /\ C \in Seq(Steps) /\ Len(C) = 1 /\ C[1].cmd = "usage" /\ Proper(C[1])
    <2> DEFINE a == ReadStep("usage", "usage", 0)
    <2>1. a \in Steps /\ a.cmd = "usage" /\ Proper(a)
      BY DEF ReadStep, Steps, Commands, TableNames, Proper
    <2>2. C = <<a>> BY <1>4 DEF TheRequired
    <2> HIDE DEF a, C
    <2> QED BY <2>1, <2>2
  <1>5. ~ unit.plans => C = T BY DEF TheRequired
  <1>6. OwnStepsOf(O, unit) BY OwnStepsAre
  <1>7. steps = (<<P>> \o C) \o O BY PlanAsBuilt DEF Init
  <1> HIDE DEF P, C, O, T
  <1>8. C \in Seq(Steps) /\ O \in Seq(Steps) /\ T \in Seq(Steps)
    BY <1>3, <1>4, <1>5, <1>6 DEF TableReads, OwnStepsOf
  <1>9. MadeOf(steps, P, C, O) BY <1>2, <1>7, <1>8, Made
  <1> DEFINE n == Len(steps)
             m == Len(C)
             l == Len(O)
  <1>10. /\ steps \in Seq(Steps) /\ n = 1 + m + l /\ n \in Nat /\ m \in Nat /\ l \in Nat
         /\ steps[1] = P /\ \A k \in 1 .. m : steps[1 + k] = C[k]
         /\ \A k \in 1 .. l : steps[1 + m + k] = O[k]
    BY <1>8, <1>9 DEF MadeOf
  <1> HIDE DEF n, m, l
  <1>11. Ahead = 1 .. n BY <1>1, <1>10 DEF Ahead, n
  <1>12. ASSUME NEW k \in 1 .. n
         PROVE  \/ steps[k] = P \/ \E j \in 1 .. m : steps[k] = C[j]
                \/ \E j \in 1 .. l : steps[k] = O[j] /\ k = 1 + m + j
    <2>1. CASE k = 1 BY <1>10, <2>1
    <2>2. CASE 1 < k /\ k <= 1 + m
      <3>1. k - 1 \in 1 .. m /\ 1 + (k - 1) = k BY <1>10, <2>2
      <3>2. steps[1 + (k - 1)] = C[k - 1] BY <1>10, <3>1
      <3> QED BY <3>1, <3>2
    <2>3. CASE 1 + m < k
      <3>1. k - (1 + m) \in 1 .. l /\ 1 + m + (k - (1 + m)) = k BY <1>10, <2>3
      <3>2. steps[1 + m + (k - (1 + m))] = O[k - (1 + m)] BY <1>10, <3>1
      <3> QED BY <3>1, <3>2
    <2> QED BY <1>10, <2>1, <2>2, <2>3
  <1>13. /\ \A k \in 1 .. m : 1 + k \in 1 .. n
         /\ \A k \in 1 .. l : 1 + m + k \in 1 .. n
    BY <1>10
  <1>14. \A p \in Records(unit) \union Names(unit) : p = <<p[1], p[2]>>
    BY <1>1, PartsAre DEF Lasting
  <1>15. ASSUME NEW j \in 1 .. m PROVE Proper(C[j]) /\ C[j].cmd # "project"
    <2>1. CASE unit.plans
      <3>1. m = 1 /\ C[1].cmd = "usage" /\ Proper(C[1]) BY <1>4, <2>1 DEF m
      <3>2. j = 1 BY <3>1
      <3> QED BY <3>1, <3>2
    <2>2. CASE ~ unit.plans
      <3>1. C = T /\ j \in 1 .. Len(T) BY <1>5, <2>2 DEF m
      <3>2. ~ T[j].quiet BY <1>3, <3>1 DEF TableReads
      <3>3. CASE \E p \in Records(unit) : IsStep(T[j], "read", p)
        BY <1>14, <3>1, <3>2, <3>3 DEF IsStep, Proper, Part
      <3>4. CASE \E p \in Names(unit) : IsStep(T[j], "labels", p)
        BY <1>14, <3>1, <3>2, <3>4 DEF IsStep, Proper, Part
      <3> QED BY <1>3, <3>1, <3>3, <3>4 DEF TableReads
    <2> QED BY <2>1, <2>2
  <1>16. l = (IF unit.keeps THEN 3 ELSE 2) BY <1>6 DEF OwnStepsOf, l
  <1>17. ASSUME NEW j \in 1 .. l
         PROVE  j = 1 \/ j = 2 \/ (unit.keeps /\ j = 3)
    BY <1>16
  <1>18. /\ IsStep(O[1], "single", <<"busSetup", 0>>)
         /\ IsStep(O[2], "single", <<"channelsExt", 0>>)
         /\ unit.keeps => IsStep(O[3], "project", Header) /\ ~ O[3].quiet
    BY <1>6 DEF OwnStepsOf
  <1>19. ASSUME NEW j \in 1 .. l PROVE Proper(O[j]) /\ (O[j].cmd = "project" => j = 3 /\ unit.keeps)
    <2>1. CASE j = 1 BY <1>18, <2>1 DEF IsStep, Proper, Part, Singles
    <2>2. CASE j = 2 BY <1>18, <2>2 DEF IsStep, Proper, Part, Singles
    <2>3. CASE unit.keeps /\ j = 3
      <3>1. Header \in Project(unit) /\ Header = <<Header[1], Header[2]>>
        BY <1>1, <2>3 DEF Header, Project, Fits
      <3> QED BY <1>18, <2>3, <3>1 DEF IsStep, Proper, Part
    <2> QED BY <1>17, <2>1, <2>2, <2>3
  <1>20. \A k \in 1 .. n : Proper(steps[k]) BY <1>2, <1>12, <1>15, <1>19
  <1>21. PlanInv
    <2>1. index \in Nat BY <1>1
    <2> QED BY <1>1, <1>10, <1>20, <2>1 DEF PlanInv, ProperPlan, n
  <1>22. EndInv BY <1>1 DEF EndInv
  <1>23. GotInv
    <2> DEFINE Z == Seq(Int)
               e == <<>>
    <2>1. e \in Z /\ Len(e) = 0 OBVIOUS
    <2>2. got = [t \in Table(unit) |-> e] BY <1>1
    <2> HIDE DEF e, Z
    <2>3. got \in [Table(unit) -> Z] BY <2>1, <2>2
    <2>4. \A t \in Table(unit) : \A i \in 1 .. Len(got[t]) : InItsPlace(t, i) BY <2>1, <2>2
    <2> QED BY <2>3, <2>4 DEF GotInv, Z
  <1>24. NotesInv BY <1>1 DEF NotesInv
  <1>25. unit.plans => UsageDue
    <2> SUFFICES ASSUME unit.plans PROVE UsageDue OBVIOUS
    <2>1. m = 1 /\ C[1].cmd = "usage" BY <1>4 DEF m
    <2>2. 1 \in 1 .. m BY <2>1
    <2>3. steps[1 + 1] = C[1] /\ 1 + 1 \in 1 .. n BY <1>10, <1>13, <2>2
    <2> QED BY <1>11, <2>1, <2>3 DEF UsageDue
  <1>26. ~ unit.plans => \A j \in 1 .. Len(T) : \E k \in Ahead : steps[k] = T[j]
    <2> SUFFICES ASSUME ~ unit.plans, NEW j \in 1 .. Len(T)
                 PROVE  \E k \in Ahead : steps[k] = T[j]
      OBVIOUS
    <2>1. C = T /\ j \in 1 .. m BY <1>5 DEF m
    <2> QED BY <1>10, <1>11, <1>13, <2>1
  <1>27. \A p \in Singles : Due("single", p)
    <2>1. 1 \in 1 .. l /\ 2 \in 1 .. l BY <1>16
    <2>2. /\ 1 + m + 1 \in Ahead /\ steps[1 + m + 1] = O[1]
          /\ 1 + m + 2 \in Ahead /\ steps[1 + m + 2] = O[2]
      BY <1>10, <1>11, <1>13, <2>1
    <2> QED BY <1>18, <2>2 DEF Singles, Due
  <1>28. CoverInv BY <1>3, <1>25, <1>26, <1>27 DEF CoverInv, TableReads, Due
  <1>29. RequiredInv BY <1>3, <1>25, <1>26 DEF RequiredInv, TableReads
  <1>30. ProjectInv
    <2> SUFFICES ASSUME unit.keeps PROVE HeaderAhead BY DEF ProjectInv
    <2>1. l = 3 /\ 3 \in 1 .. l BY <1>16
    <2>2. steps[1 + m + 3] = O[3] /\ 1 + m + 3 = n BY <1>10, <2>1
    <2>3. n \in Ahead BY <1>11, <1>13, <2>1, <2>2
    <2>4. ASSUME NEW k \in Ahead, steps[k].cmd = "project" PROVE k = n
      <3>1. k \in 1 .. n BY <1>11
      <3>2. PICK j \in 1 .. l : steps[k] = O[j] /\ k = 1 + m + j
        BY <1>2, <1>12, <1>15, <2>4, <3>1
      <3>3. j = 3 BY <1>19, <2>4, <3>2
      <3> QED BY <2>2, <3>2, <3>3
    <2>5. got["project"] = <<>>
      <3>1. Header \in Project(unit) /\ Header[1] = "project" BY <1>1 DEF Header, Project, Fits
      <3>2. "project" \in Table(unit) BY <1>1, <3>1, PartsAre
      <3> QED BY <1>1, <3>2
    <2> QED BY <1>18, <2>2, <2>3, <2>4, <2>5 DEF HeaderAhead, n
  <1> QED BY <1>21, <1>22, <1>23, <1>24, <1>28, <1>29, <1>30 DEF GetInv

\* Every step of a Get keeps the invariant.
LEMMA NextKeeps == ASSUME GetInv, [Next]_vars PROVE GetInv'
  <1>1. CASE Begin
    <2>1. UNCHANGED <<unit, steps, skipped, lacked, replyLost, got>> /\ index = 0 /\ index' = 1
          /\ RunFrom(1) /\ report = "none"
      BY <1>1 DEF Begin, plan
    <2>2. PlanInv /\ GotInv /\ NotesInv /\ CoverInv /\ RequiredInv /\ ProjectInv BY DEF GetInv
    <2>3. Len(steps) \in Nat BY <2>2 DEF PlanInv, ProperPlan
    <2>4. PlanInv' BY <2>1, <2>2 DEF PlanInv, ProperPlan, Proper, Part
    <2>5. EndInv'
      <3>1. report' = "ok" => 1 > Len(steps') BY <2>1 DEF RunFrom
      <3>2. 1 > Len(steps') => Len(steps') < 1 BY <2>1, <2>3
      <3> QED BY <2>1, <3>1, <3>2 DEF EndInv
    <2>6. GotInv' BY <2>1, <2>2 DEF GotInv, InItsPlace
    <2>7. NotesInv' BY <2>1, <2>2 DEF NotesInv
    <2>8. Ahead' = Ahead
      <3>1. \A k \in 1 .. Len(steps) : 0 <= k /\ 1 <= k BY <2>3
      <3>2. Ahead = 1 .. Len(steps) BY <2>1, <3>1 DEF Ahead
      <3>3. Ahead' = 1 .. Len(steps) BY <2>1, <3>1 DEF Ahead
      <3> QED BY <3>2, <3>3
    <2>9. /\ \A cmd, p : (Due(cmd, p) <=> Due(cmd, p)')
          /\ (UsageDue <=> UsageDue') /\ (NoProjectDue <=> NoProjectDue')
      BY <2>1, <2>8 DEF Due, UsageDue, NoProjectDue
    <2>10. \A p : (Has(p) <=> Has(p)') /\ (NotedWith(p, Why) <=> NotedWith(p, Why)')
      BY <2>1 DEF Has, NotedWith
    <2>11. CoverInv' BY <2>1, <2>2, <2>9, <2>10 DEF CoverInv
    <2>12. RequiredInv' BY <2>1, <2>2, <2>8, <2>9, <2>10 DEF RequiredInv
    <2>13. ProjectInv'
      BY <2>1, <2>2, <2>8, <2>9, <2>10
      DEF ProjectInv, HeaderAhead, BodyAhead, HeaderAlone, Dropped
    <2> QED BY <2>4, <2>5, <2>6, <2>7, <2>11, <2>12, <2>13 DEF GetInv
  <1>2. CASE Handle
    <2>1. CASE Receive
      BY <1>2, <2>1, ReceiveSingleKeeps, ReceiveUsageKeeps, ReceiveRecordsKeeps,
         ReceiveNamesKeeps, ReceiveProjectKeeps
      DEF Handle, Receive
    <2>2. ASSUME NEW why \in {Answer(Current), "badline", "lost"} \ {"ok"}, Skip(why) PROVE GetInv'
      BY <1>2, <2>2, SkipKeeps DEF Handle
    <2>3. ASSUME NEW why, Fail(why) PROVE GetInv'
      BY <2>3, AbortKeeps DEF Fail
    <2> QED BY <1>2, <2>1, <2>2, <2>3 DEF Handle
  <1>3. CASE Cancel BY <1>3, Unmoved DEF Cancel
  <1>4. CASE OwnerDies
    <2>1. report' = "ok" => report = "ok" BY <1>4 DEF OwnerDies
    <2> QED BY <1>4, <2>1, Unmoved DEF OwnerDies
  <1>5. CASE Done BY <1>5, Unmoved DEF Done, vars
  <1>6. CASE UNCHANGED vars BY <1>6, Unmoved DEF vars
  <1> QED BY <1>1, <1>2, <1>3, <1>4, <1>5, <1>6 DEF Next

\* The inductive invariant of a Get: what the unit holds is held, noted or due, and
\* the project's header, its body or its absence is accounted for (runNext).
THEOREM GetInvariant == Spec => []GetInv
  <1>1. Init => GetInv BY InitHolds
  <1>2. GetInv /\ [Next]_vars => GetInv' BY NextKeeps
  <1> QED BY <1>1, <1>2, PTL DEF Spec

-----------------------------------------------------------------------------
(* What a Get that succeeded has read *)

\* When a Get has succeeded nothing is due any more.
LEMMA NothingDue ==
    ASSUME GetInv, report = "ok"
    PROVE  Ahead = {} /\ (\A cmd, p : ~ Due(cmd, p)) /\ ~ UsageDue
  <1>1. Len(steps) \in Nat /\ index \in Nat /\ Len(steps) < index
    BY DEF GetInv, PlanInv, ProperPlan, EndInv
  <1>2. Ahead = {} BY <1>1 DEF Ahead
  <1> QED BY <1>2 DEF Due, UsageDue

\* So everything is there or noted, and the first four tables are there.
LEMMA AllRead ==
    ASSUME GetInv, report = "ok"
    PROVE  /\ \A p \in Records(unit) \union Names(unit) : Has(p) \/ NotedWith(p, Why)
           /\ \A p \in Singles : Has(p) \/ NotedWith(p, Why) \/ p[1] \in lacked \union unit.misfits
           /\ \A i \in 1 .. RequiredTables : \A p \in Chunks(unit.tables[i]) : Has(p)
  BY NothingDue DEF GetInv, CoverInv, RequiredInv

\* The parts of table x are the only ones of that name.
LEMMA OfTable ==
    ASSUME NEW u, Fits(u),
           NEW x \in {u.tables[i] : i \in DOMAIN u.tables}
                     \union {u.labels[i] : i \in DOMAIN u.labels},
           NEW p \in Held(u), p[1] = x.name
    PROVE  p \in Chunks(x)
  <1>1. ASSUME NEW y, p \in Chunks(y) PROVE p[1] = y.name BY <1>1 DEF Chunks
  <1>2. CASE p \in Records(u)
    <2>1. PICK i \in DOMAIN u.tables : p \in Chunks(u.tables[i]) BY <1>2 DEF Records
    <2>2. u.tables[i].name = x.name BY <1>1, <2>1
    <2>3. u.tables[i] = x BY <2>2 DEF Fits
    <2> QED BY <2>1, <2>3
  <1>3. CASE p \in Names(u)
    <2>1. PICK i \in DOMAIN u.labels : p \in Chunks(u.labels[i]) BY <1>3 DEF Names
    <2>2. u.labels[i].name = x.name BY <1>1, <2>1
    <2>3. u.labels[i] = x BY <2>2 DEF Fits
    <2> QED BY <2>1, <2>3
  <1>4. x.name \notin {"busSetup", "channelsExt", "project"} BY DEF Fits
  <1>5. p \notin Singles BY <1>4 DEF Singles
  <1>6. p \notin Project(u) BY <1>4, PartsAre
  <1> QED BY <1>2, <1>3, <1>5, <1>6 DEF Held

\* The invariant gives RecordsInPlace.
LEMMA InPlaceHolds == ASSUME GetInv PROVE RecordsInPlace
  <1> SUFFICES ASSUME NEW p \in Held(unit), NEW i \in DOMAIN got[p[1]]
               PROVE  got[p[1]][i] = i - 1 \/ (got[p[1]][i] = Blank /\ p \in Names(unit))
    BY DEF RecordsInPlace
  <1> DEFINE t == p[1]
  <1>1. Fits(unit) BY UnitFits DEF GetInv, PlanInv
  <1>2. t \in Table(unit) BY <1>1, PartsAre
  <1>3. got[t] \in Seq(Int) BY <1>2 DEF GetInv, GotInv
  <1>4. i \in 1 .. Len(got[t]) BY <1>3
  <1>5. InItsPlace(t, i) BY <1>2, <1>4 DEF GetInv, GotInv
  <1>6. ASSUME <<t, i - 1>> \in Names(unit) PROVE p \in Names(unit)
    <2>1. PICK j \in DOMAIN unit.labels : <<t, i - 1>> \in Chunks(unit.labels[j])
      BY <1>6 DEF Names
    <2>2. t = unit.labels[j].name BY <2>1 DEF Chunks
    <2>3. p \in Chunks(unit.labels[j]) BY <1>1, <2>2, OfTable
    <2> QED BY <2>3 DEF Names
  <1> QED BY <1>5, <1>6 DEF InItsPlace

\* The invariant gives NothingIsMissingUnsaid.
LEMMA NothingMissingHolds == ASSUME GetInv PROVE NothingIsMissingUnsaid
  <1>1. \A p \in Held(unit) \ Project(unit) :
           p \in Records(unit) \union Names(unit) \/ p \in Singles
    BY DEF Held
  <1> QED BY <1>1, AllRead DEF NothingIsMissingUnsaid

\* The invariant gives ProjectIsWholeOrNone.
LEMMA ProjectHolds == ASSUME GetInv PROVE ProjectIsWholeOrNone
  <1> SUFFICES ASSUME report = "ok", unit.keeps
               PROVE  \/ unit.valid /\ \A p \in Project(unit) : Has(p)
                      \/ ~ unit.valid /\ got["project"] = <<0>>
                      \/ got["project"] = <<>> /\ \E p \in Project(unit) : NotedWith(p, Why)
    BY DEF ProjectIsWholeOrNone
  <1>1. Ahead = {} /\ \A cmd, p : ~ Due(cmd, p) BY NothingDue
  <1>2. ~ HeaderAhead BY <1>1 DEF HeaderAhead
  <1> QED BY <1>1, <1>2 DEF GetInv, ProjectInv, BodyAhead, HeaderAlone, Dropped

\* The invariant gives BackupKnowsItsGaps.
LEMMA BackupHolds == ASSUME GetInv PROVE BackupKnowsItsGaps
  <1> SUFFICES ASSUME report = "ok", ~ replyLost, NEW p \in Held(unit) \ Project(unit)
               PROVE  \/ Has(p) \/ NotedWith(p, Considered \union {"badline"})
                      \/ p[1] \in lacked \union unit.misfits
    BY DEF BackupKnowsItsGaps
  <1>1. Fits(unit) BY UnitFits DEF GetInv, PlanInv
  <1>2. p \in Lasting(unit) BY DEF Held, Lasting
  <1>3. p[1] # "project" BY <1>1, <1>2, PartsAre
  <1>4. ASSUME NotedWith(p, Why) PROVE NotedWith(p, Considered \union {"badline"})
    <2>1. PICK why \in Why : <<p[1], p[2], why>> \in skipped BY <1>4 DEF NotedWith
    <2> DEFINE s == <<p[1], p[2], why>>
    <2>2. s \in skipped /\ s[1] = p[1] /\ s[3] = why BY <2>1
    <2> HIDE DEF s
    <2>3. why # "lost" /\ why # "no fit" BY <1>3, <2>2 DEF GetInv, NotesInv
    <2>4. why \in Considered \union {"badline"} BY <2>3 DEF Why
    <2> QED BY <2>1, <2>4 DEF NotedWith
  <1>5. Has(p) \/ NotedWith(p, Why) \/ p[1] \in lacked \union unit.misfits
    BY <1>2, AllRead DEF Lasting
  <1> QED BY <1>4, <1>5

-----------------------------------------------------------------------------
(* What the user is told *)

\* Chunks in their places, none of n missing, are the whole table.
LEMMA WholeTable ==
    ASSUME NEW n \in Nat, NEW s \in Seq(Int),
           \A i \in 1 .. Len(s) : i <= n /\ (s[i] = i - 1 \/ s[i] = Blank),
           \A i \in 0 .. n - 1 : \E j \in 1 .. Len(s) : s[j] = i
    PROVE  s = [i \in 1 .. n |-> i - 1]
  <1>1. Len(s) \in Nat OBVIOUS
  <1>2. ASSUME NEW i \in 1 .. n PROVE i \in 1 .. Len(s) /\ s[i] = i - 1
    <2>1. i - 1 \in 0 .. n - 1 OBVIOUS
    <2>2. PICK j \in 1 .. Len(s) : s[j] = i - 1 BY <2>1
    <2>3. s[j] # Blank BY <2>1, <2>2 DEF Blank
    <2>4. i - 1 = j - 1 BY <2>2, <2>3
    <2>5. i = j BY <2>4
    <2> QED BY <2>2, <2>5
  <1>3. Len(s) = n
    <2>1. Len(s) <= n
      <3>1. CASE Len(s) = 0 BY <3>1
      <3>2. CASE Len(s) # 0
        <4>1. Len(s) \in 1 .. Len(s) BY <1>1, <3>2
        <4> QED BY <4>1
      <3> QED BY <3>1, <3>2
    <2>2. n <= Len(s)
      <3>1. CASE n = 0 BY <1>1, <3>1
      <3>2. CASE n # 0
        <4>1. n \in 1 .. n BY <3>2
        <4>2. n \in 1 .. Len(s) BY <1>2, <4>1
        <4> QED BY <1>1, <4>2
      <3> QED BY <3>1, <3>2
    <2> QED BY <1>1, <2>1, <2>2
  <1>4. DOMAIN s = 1 .. n BY <1>3
  <1>5. s = [i \in DOMAIN s |-> s[i]] OBVIOUS
  <1> QED BY <1>2, <1>4, <1>5

\* A table that was not skipped was read as the unit runs it.
LEMMA RunsAsRead ==
    ASSUME GetInv, report = "ok",
           NEW x \in {unit.tables[i] : i \in DOMAIN unit.tables}
                     \union {unit.labels[i] : i \in DOMAIN unit.labels},
           ~ Skipped(x.name)
    PROVE  Read(x.name) = [i \in 1 .. x.chunks |-> i - 1]
  <1> DEFINE t == x.name
             n == x.chunks
  <1>1. Fits(unit) /\ GotInv BY UnitFits DEF GetInv, PlanInv
  <1>2. n \in Nat
    <2>1. x \in Tables BY <1>1 DEF Fits
    <2> QED BY <2>1 DEF Tables
  <1>3. ASSUME NEW i \in 0 .. n - 1
        PROVE  <<t, i>> \in Held(unit) /\ \E j \in DOMAIN got[t] : got[t][j] = i
    <2> DEFINE p == <<t, i>>
    <2>1. p \in Chunks(x) BY DEF Chunks
    <2>2. p \in Records(unit) \union Names(unit) BY <2>1 DEF Records, Names
    <2>3. p[1] = t /\ p[2] = i OBVIOUS
    <2>4. p \in Held(unit) BY <2>2 DEF Held
    <2> HIDE DEF p, t
    <2>5. ~ NotedWith(p, Why)
      <3> SUFFICES ASSUME NEW why \in Why, <<p[1], p[2], why>> \in skipped PROVE FALSE
        BY DEF NotedWith
      <3> DEFINE s == <<p[1], p[2], why>>
      <3>1. s \in skipped /\ s[1] = t BY <2>3
      <3> HIDE DEF s
      <3> QED BY <3>1 DEF Skipped, t
    <2>6. Has(p) BY <2>2, <2>5, AllRead
    <2>7. \E j \in DOMAIN got[t] : got[t][j] = i BY <2>3, <2>6 DEF Has
    <2> QED BY <2>4, <2>7 DEF p
  <1>4. DOMAIN got = Table(unit) BY <1>1 DEF GotInv
  <1> HIDE DEF t, n
  <1>5. CASE t \in Table(unit)
    <2>1. got[t] \in Seq(Int) BY <1>1, <1>5 DEF GotInv
    <2>2. ASSUME NEW i \in 1 .. Len(got[t])
          PROVE  i <= n /\ (got[t][i] = i - 1 \/ got[t][i] = Blank)
      <3>1. InItsPlace(t, i) BY <1>1, <1>5 DEF GotInv
      <3> DEFINE p == <<t, i - 1>>
      <3>2. p \in Held(unit) /\ p[1] = x.name BY <3>1 DEF InItsPlace, t
      <3> HIDE DEF p
      <3>3. p \in Chunks(x) BY <1>1, <3>2, OfTable
      <3>4. i - 1 \in 0 .. n - 1
        <4>1. \E k \in 0 .. n - 1 : p = <<t, k>> BY <3>3 DEF Chunks, t, n
        <4> QED BY <4>1 DEF p
      <3>5. i <= n BY <1>2, <3>4
      <3> QED BY <3>1, <3>5 DEF InItsPlace
    <2>3. \A i \in 0 .. n - 1 : \E j \in 1 .. Len(got[t]) : got[t][j] = i
      <3>1. DOMAIN got[t] = 1 .. Len(got[t]) BY <2>1
      <3> QED BY <1>3, <3>1
    <2>4. Read(t) = got[t] BY <1>4, <1>5 DEF Read
    <2> DEFINE s == got[t]
    <2>5. /\ s \in Seq(Int) /\ \A i \in 1 .. Len(s) : i <= n /\ (s[i] = i - 1 \/ s[i] = Blank)
          /\ \A i \in 0 .. n - 1 : \E j \in 1 .. Len(s) : s[j] = i
      BY <2>1, <2>2, <2>3
    <2> HIDE DEF s
    <2>6. s = [i \in 1 .. n |-> i - 1] BY <1>2, <2>5, WholeTable
    <2> QED BY <2>4, <2>6 DEF s, t, n
  <1>6. CASE t \notin Table(unit)
    <2>1. n = 0
      <3> SUFFICES ASSUME n # 0 PROVE FALSE OBVIOUS
      <3>1. 0 \in 0 .. n - 1 BY <1>2
      <3> DEFINE p == <<t, 0>>
      <3>2. p \in Held(unit) /\ p[1] = t BY <1>3, <3>1
      <3> HIDE DEF p
      <3> QED BY <1>1, <1>6, <3>2, PartsAre
    <2>2. Read(t) = <<>> BY <1>4, <1>6 DEF Read
    <2>3. [i \in 1 .. n |-> i - 1] = <<>> BY <2>1
    <2> QED BY <2>2, <2>3 DEF t, n
  <1> QED BY <1>5, <1>6

\* Runs is the whole of the one table of that name.
LEMMA RunsIs ==
    ASSUME Fits(unit),
           NEW x \in {unit.tables[i] : i \in DOMAIN unit.tables}
                     \union {unit.labels[i] : i \in DOMAIN unit.labels}
    PROVE  Runs(x.name) = [i \in 1 .. x.chunks |-> i - 1]
  <1> DEFINE X == {unit.tables[i] : i \in DOMAIN unit.tables}
                  \union {unit.labels[i] : i \in DOMAIN unit.labels}
             y == CHOOSE z \in X : z.name = x.name
  <1>1. \A z \in X : z.name = x.name => z = x BY DEF Fits
  <1>2. y \in X /\ y.name = x.name OBVIOUS
  <1>3. y = x BY <1>1, <1>2
  <1> QED BY <1>3 DEF Runs

\* The invariant gives ToldIsSo.
LEMMA ToldHolds == ASSUME GetInv PROVE ToldIsSo
  <1> SUFFICES ASSUME report = "ok" PROVE ToldIsSo BY DEF ToldIsSo
  <1> DEFINE X == {unit.tables[i] : i \in DOMAIN unit.tables}
                  \union {unit.labels[i] : i \in DOMAIN unit.labels}
  <1>1. Fits(unit) /\ GotInv BY UnitFits DEF GetInv, PlanInv
  <1>2. \A x \in X : Read(x.name) = Runs(x.name) \/ Skipped(x.name)
    BY <1>1, RunsAsRead, RunsIs
  <1>3. \A t \in Covered(unit) : \E x \in X : t = x.name BY DEF Covered
  <1>4. \A t \in Covered(unit) : Read(t) = Runs(t) \/ Skipped(t) BY <1>2, <1>3
  <1>5. AsSent <=> \A t \in Covered(unit) : unit.sent[t] = Read(t)
    BY DEF AsSent, ConfigurationFingerprint
  <1>6. Told = "project" => \A t \in Covered(unit) : Runs(t) = unit.sent[t] \/ Skipped(t)
    <2>1. Told = "project" => AsSent BY DEF Told
    <2> QED BY <1>4, <1>5, <2>1
  <1>7. Told = "changed" => \E t \in Covered(unit) : Runs(t) # unit.sent[t] \/ Skipped(t)
    <2>1. Told = "changed" => ~ AsSent BY DEF Told
    <2> QED BY <1>4, <1>5, <2>1
  <1>8. ASSUME Told = "empty", NEW i \in DOMAIN unit.tables,
               unit.tables[i].name \notin NotAsked, ~ Skipped(unit.tables[i].name)
        PROVE  unit.tables[i].chunks = 0
    <2> DEFINE x == unit.tables[i]
    <2>1. Read(x.name) = <<>> BY <1>8 DEF Told, DeviceEmpty
    <2>2. x \in X BY DEF X
    <2>3. x.chunks \in Nat
      <3>1. x \in Tables BY <1>1 DEF Fits
      <3> QED BY <3>1 DEF Tables
    <2>4. Read(x.name) = [j \in 1 .. x.chunks |-> j - 1] BY <1>8, <2>2, RunsAsRead
    <2> DEFINE n == x.chunks
    <2>5. [j \in 1 .. n |-> j - 1] = <<>> BY <2>1, <2>4
    <2>6. n \in Nat BY <2>3
    <2> HIDE DEF n
    <2>7. 1 .. n = {} BY <2>5
    <2>8. n = 0
      <3>1. n # 0 => 1 \in 1 .. n BY <2>6
      <3> QED BY <2>7, <3>1
    <2> QED BY <2>8 DEF n
  <1>9. Told = "damaged" => ~ unit.keeps \/ ~ unit.valid \/ Skipped("project")
    <2> SUFFICES ASSUME unit.keeps, unit.valid, ~ Skipped("project") PROVE Told # "damaged"
      OBVIOUS
    <2>1. ASSUME NEW p \in Project(unit) PROVE Has(p)
      <3>1. \A q \in Project(unit) : q[1] = "project" BY <1>1, PartsAre
      <3>2. ASSUME NEW q \in Project(unit), NotedWith(q, Why) PROVE FALSE
        <4>1. PICK why \in Why : <<q[1], q[2], why>> \in skipped BY <3>2 DEF NotedWith
        <4> DEFINE s == <<q[1], q[2], why>>
        <4>2. s \in skipped /\ s[1] = "project" BY <3>1, <4>1
        <4> HIDE DEF s
        <4> QED BY <4>2 DEF Skipped
      <3> QED BY <3>2, ProjectHolds DEF ProjectIsWholeOrNone
    <2> DEFINE b == unit.body
               s == got["project"]
    <2>2. b \in Nat BY <1>1 DEF Fits
    <2>3. Header \in Project(unit) /\ Header[1] = "project" BY <2>2 DEF Header, Project
    <2>4. "project" \in Table(unit) BY <1>1, <2>3, PartsAre
    <2>5. s \in Seq(Int) /\ Read("project") = s BY <1>1, <2>4 DEF GotInv, Read
    <2>6. ASSUME NEW i \in 1 .. Len(s)
          PROVE  i <= b + 1 /\ (s[i] = i - 1 \/ s[i] = Blank)
      <3>1. InItsPlace("project", i) BY <1>1, <2>4 DEF GotInv
      <3> DEFINE p == <<"project", i - 1>>
      <3>2. p \in Held(unit) /\ p[1] = "project" /\ p[2] = i - 1 BY <3>1 DEF InItsPlace
      <3> HIDE DEF p
      <3>3. p \in Project(unit) BY <1>1, <3>2, PartsAre DEF Held, Lasting
      <3>4. p[2] \in 0 .. b BY <3>3 DEF Project
      <3>5. i - 1 \in 0 .. b BY <3>2, <3>4
      <3>6. i <= b + 1 BY <2>2, <3>5
      <3> QED BY <3>1, <3>6 DEF InItsPlace
    <2>7. ASSUME NEW i \in 0 .. (b + 1) - 1 PROVE \E j \in 1 .. Len(s) : s[j] = i
      <3>1. i \in 0 .. b BY <2>2
      <3> DEFINE p == <<"project", i>>
      <3>2. p \in Project(unit) /\ p[1] = "project" /\ p[2] = i BY <3>1 DEF Project
      <3> HIDE DEF p
      <3>3. Has(p) BY <2>1, <3>2
      <3> QED BY <2>5, <3>2, <3>3 DEF Has
    <2> HIDE DEF s, b
    <2>8. b + 1 \in Nat BY <2>2
    <2>9. s = [i \in 1 .. b + 1 |-> i - 1] BY <2>5, <2>6, <2>7, <2>8, WholeTable
    <2>10. Len(s) = b + 1 BY <2>8, <2>9
    <2>11. s # <<>> BY <2>2, <2>10
    <2>12. StoredProjectState \in {"none", "valid"}
      BY <2>5, <2>10, <2>11 DEF StoredProjectState, b
    <2> QED BY <2>12 DEF Told
  <1> QED BY <1>6, <1>7, <1>8, <1>9 DEF ToldIsSo

\* Of any units, records are read into the places the unit has them in, however
\* many reads are lost (appendItems, captureLabels).
THEOREM RecordsStayInPlace == Spec => []RecordsInPlace
  BY GetInvariant, InPlaceHolds, PTL

\* Of any units, a Get that succeeds names what it did not read (runNext).
THEOREM NothingMissing == Spec => []NothingIsMissingUnsaid
  BY GetInvariant, NothingMissingHolds, PTL

\* Of any units, a Get hands over a project that is whole, or none
\* (captureProject, dropProject).
THEOREM WholeOrNone == Spec => []ProjectIsWholeOrNone
  BY GetInvariant, ProjectHolds, PTL

\* Of any units, a Get that lost no reply is short only of what it can name
\* (anyReplyLost).
THEOREM GapsAreKnown == Spec => []BackupKnowsItsGaps
  BY GetInvariant, BackupHolds, PTL

\* Of any units, what the user is told of a unit that was read is so, but for the
\* tables named as skipped (onGetConfiguration, openStoredProject).
THEOREM ToldTheTruth == Spec => []ToldIsSo
  BY GetInvariant, ToldHolds, PTL
=============================================================================
