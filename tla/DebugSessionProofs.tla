-------------------------- MODULE DebugSessionProofs --------------------------
(***************************************************************************)
(* Theorems about DebugSession for all scopes, variables and fields, and   *)
(* for any number of keys, clicks and stops: what the presenter, its map   *)
(* and the view know of each other, of gdb and of what is on its way       *)
(* between them.                                                           *)
(***************************************************************************)
EXTENDS DebugSession, FiniteSetTheorems, SequenceTheorems, WellFoundedInduction, TLAPS

(* Numbers and sequences. *)

\* A set of numbers has a least element.
LEMMA LeastNat ==
  ASSUME NEW T \in SUBSET Nat, T # {}
  PROVE  \E m \in T : \A k \in T : m <= k
<1>1. PICK m \in T : \A k \in T : ~(<<k, m>> \in OpToRel(<, Nat))
  BY NatLessThanWellFounded, WFMin
<1>2. \A k \in T : ~(k < m)
  BY <1>1 DEF OpToRel
<1> QED  BY <1>2

\* Induction over the numbers, for a property given as a set.
LEMMA NatInd ==
  ASSUME NEW P, 0 \in P, \A n \in Nat : n \in P => n + 1 \in P
  PROVE  Nat \subseteq P
<1>1. SUFFICES ASSUME Nat \ P # {} PROVE FALSE
  OBVIOUS
<1>2. PICK m \in Nat \ P : \A k \in Nat \ P : m <= k
  BY <1>1, LeastNat
<1>3. m # 0 /\ m - 1 \in Nat
  BY <1>2
<1>4. m - 1 \in P
  BY <1>2, <1>3
<1> QED  BY <1>3, <1>4

\* What holds at the start of a loop and is kept by each round holds throughout.
LEMMA Rounds ==
  ASSUME NEW len \in Nat, NEW f, NEW W,
         f[0] \in W[0],
         \A i \in 1 .. len : f[i - 1] \in W[i - 1] => f[i] \in W[i]
  PROVE  \A i \in 0 .. len : f[i] \in W[i]
<1> DEFINE P == {n \in Nat : n <= len => f[n] \in W[n]}
<1>1. 0 \in P
  OBVIOUS
<1>2. \A n \in Nat : n \in P => n + 1 \in P
  <2> SUFFICES ASSUME NEW n \in Nat, n \in P, n + 1 <= len PROVE f[n + 1] \in W[n + 1]
    OBVIOUS
  <2>1. f[n] \in W[n] /\ n + 1 \in 1 .. len /\ (n + 1) - 1 = n
    OBVIOUS
  <2> QED  BY <2>1
<1>3. Nat \subseteq P
  <2> HIDE DEF P
  <2> QED  BY <1>1, <1>2, NatInd
<1> QED  BY <1>3

\* Round n of the loops of Chosen, RemoveNode and RemoveNodes, which start from c,
\* on what the rounds before left in g.
Round(loop, c, x, y, g, n) ==
  IF n = 0 THEN c
  ELSE IF loop = "Chosen" THEN IF n \in y THEN Append(g[n - 1], x[n]) ELSE g[n - 1]
  ELSE IF loop = "RemoveNode" THEN EraseChild(g[n - 1], x, n)
  ELSE RemoveNode(g[n - 1], x[n])

\* f is what the rounds of such a loop leave.
IsLoop(len, loop, c, x, y, f) == f = [n \in 0 .. len |-> Round(loop, c, x, y, f, n)]

\* Each of these loops has a result: the recursion has a solution.
LEMMA RoundsExist ==
  ASSUME NEW len \in Nat, NEW loop, NEW c, NEW x, NEW y
  PROVE  \E f : IsLoop(len, loop, c, x, y, f)
<1> DEFINE Step(g, n) == Round(loop, c, x, y, g, n)
           Solves(g, k) == \A n \in 0 .. len : n < k => g[n] = Step(g, n)
           P == {k \in Nat : \E g : Solves(g, k)}
<1>1. \A g, h, n : n \in 0 .. len /\ (n # 0 => g[n - 1] = h[n - 1]) => Step(g, n) = Step(h, n)
  BY DEF Round
<1>2. len \in Nat
  OBVIOUS
<1> HIDE DEF Step
<1>3. 0 \in P
  OBVIOUS
<1>4. ASSUME NEW k \in Nat, NEW g, Solves(g, k)
      PROVE  Solves([n \in 0 .. len |-> Step(g, n)], k + 1)
  <2> DEFINE h == [n \in 0 .. len |-> Step(g, n)]
  <2>1. \A n \in 0 .. len : h[n] = Step(g, n)
    OBVIOUS
  <2> HIDE DEF h
  <2>2. \A n \in 0 .. len : n < k => h[n] = g[n]
    BY <1>4, <2>1
  <2>3. ASSUME NEW n \in 0 .. len, n < k + 1
        PROVE  h[n] = Step(h, n)
    <3>1. n # 0 => n - 1 \in 0 .. len /\ n - 1 < k
      BY <1>2, <2>3
    <3> QED  BY <1>1, <2>1, <2>2, <3>1
  <2> QED  BY <2>3 DEF h
<1>5. \A k \in Nat : k \in P => k + 1 \in P
  <2> SUFFICES ASSUME NEW k \in Nat, k \in P PROVE k + 1 \in P
    OBVIOUS
  <2>1. PICK g : Solves(g, k)
    OBVIOUS
  <2> HIDE DEF Solves
  <2>2. Solves([n \in 0 .. len |-> Step(g, n)], k + 1)
    BY <1>4, <2>1
  <2> QED  BY <2>2
<1>6. Nat \subseteq P
  <2> HIDE DEF P
  <2> QED  BY <1>3, <1>5, NatInd
<1>7. PICK g : \A n \in 0 .. len : n < len + 1 => g[n] = Step(g, n)
  <2>1. len + 1 \in P
    <3> HIDE DEF P
    <3> QED  BY <1>2, <1>6
  <2> QED  BY <2>1
<1> DEFINE h == [n \in 0 .. len |-> Step(g, n)]
<1>8. \A n \in 0 .. len : h[n] = g[n]
  BY <1>2, <1>7
<1>9. \A n \in 0 .. len : Step(g, n) = Step(h, n)
  BY <1>1, <1>2, <1>8
<1>10. h = [n \in 0 .. len |-> Step(h, n)]
  BY <1>9, Zenon
<1> QED  BY <1>10 DEF Step, IsLoop

\* The rounds of Chosen.
LEMMA ChosenRounds ==
  ASSUME NEW S, NEW seq \in Seq(S), NEW positions
  PROVE  \E f : /\ f[0] = <<>>
                /\ \A n \in 1 .. Len(seq) :
                     f[n] = IF n \in positions THEN Append(f[n - 1], seq[n]) ELSE f[n - 1]
                /\ Chosen(seq, positions) = f[Len(seq)]
<1> DEFINE Pick(f, n) == IF n = 0 THEN <<>>
                         ELSE IF n \in positions THEN Append(f[n - 1], seq[n]) ELSE f[n - 1]
           F == CHOOSE f : f = [n \in 0 .. Len(seq) |-> Pick(f, n)]
<1>1. Len(seq) \in Nat
  OBVIOUS
<1>2. F = [n \in 0 .. Len(seq) |-> Pick(F, n)]
  <2> HIDE DEF Pick
  <2>1. PICK f : IsLoop(Len(seq), "Chosen", <<>>, seq, positions, f)
    BY <1>1, RoundsExist
  <2>2. \A n : Round("Chosen", <<>>, seq, positions, f, n) = Pick(f, n)
    BY DEF Round, Pick
  <2>3. f = [n \in 0 .. Len(seq) |-> Pick(f, n)]
    BY <2>1, <2>2 DEF IsLoop
  <2> QED  BY <2>3
<1>3. Chosen(seq, positions) = F[Len(seq)]
  BY Zenon DEF Chosen
<1> HIDE DEF F
<1>4. F[0] = <<>>
  BY <1>1, <1>2
<1>5. ASSUME NEW n \in 1 .. Len(seq)
      PROVE  F[n] = IF n \in positions THEN Append(F[n - 1], seq[n]) ELSE F[n - 1]
  <2>1. n \in 0 .. Len(seq) /\ n # 0
    BY <1>1
  <2>2. F[n] = Pick(F, n)
    BY <1>2, <2>1, Zenon
  <2> QED  BY <2>1, <2>2
<1> QED  BY <1>3, <1>4, <1>5

\* What Chosen chooses: the elements at the positions, no other ones, and each
\* once where they differ from each other.
LEMMA ChosenElements ==
  ASSUME NEW S, NEW seq \in Seq(S), NEW positions
  PROVE  /\ Chosen(seq, positions) \in Seq(S)
         /\ ToSet(Chosen(seq, positions)) = {seq[k] : k \in {j \in DOMAIN seq : j \in positions}}
         /\ (\A j, k \in DOMAIN seq : j \in positions /\ k \in positions /\ seq[j] = seq[k] => j = k)
              => IsInjective(Chosen(seq, positions))
<1> DEFINE Among(n) == {k \in 1 .. n : k \in positions}
           Apart(n) == \A j, k \in Among(n) : seq[j] = seq[k] => j = k
           Good(c, n) == /\ {c[k] : k \in 1 .. Len(c)} = {seq[k] : k \in Among(n)}
                         /\ Apart(n) => \A j, k \in 1 .. Len(c) : c[j] = c[k] => j = k
           W == [n \in 0 .. Len(seq) |-> {c \in Seq(S) : Good(c, n)}]
<1>1. Len(seq) \in Nat /\ DOMAIN seq = 1 .. Len(seq) /\ \A k \in 1 .. Len(seq) : seq[k] \in S
  OBVIOUS
<1>2. PICK f : /\ f[0] = <<>>
               /\ \A n \in 1 .. Len(seq) :
                    f[n] = IF n \in positions THEN Append(f[n - 1], seq[n]) ELSE f[n - 1]
               /\ Chosen(seq, positions) = f[Len(seq)]
  BY ChosenRounds
<1>3. f[0] \in W[0]
  <2>1. Good(<<>>, 0)
    OBVIOUS
  <2> QED  BY <1>1, <1>2, <2>1
<1>4. ASSUME NEW n \in 1 .. Len(seq), f[n - 1] \in W[n - 1]
      PROVE  f[n] \in W[n]
  <2> DEFINE c == f[n - 1]
  <2>1. c \in Seq(S) /\ Good(c, n - 1) /\ n - 1 \in 0 .. Len(seq) /\ n \in 0 .. Len(seq)
    BY <1>1, <1>4
  <2>2. CASE n \in positions
    <3> DEFINE d == Append(c, seq[n])
    <3>1. f[n] = d
      BY <1>2, <2>2
    <3>2. /\ d \in Seq(S) /\ Len(d) = Len(c) + 1 /\ Len(c) \in Nat /\ d[Len(c) + 1] = seq[n]
          /\ \A k \in 1 .. Len(c) : d[k] = c[k]
      BY <1>1, <2>1
    <3>3. Among(n) = Among(n - 1) \cup {n}
      BY <2>2
    <3> HIDE DEF d, c
    <3>4. {d[k] : k \in 1 .. Len(d)} = {c[k] : k \in 1 .. Len(c)} \cup {seq[n]}
      BY <3>2
    <3>5. {seq[k] : k \in Among(n)} = {seq[k] : k \in Among(n - 1)} \cup {seq[n]}
      BY <3>3
    <3>6. ASSUME Apart(n)
          PROVE  \A j, k \in 1 .. Len(d) : d[j] = d[k] => j = k
      <4>1. Apart(n - 1)
        BY <3>3, <3>6
      <4>2. \A j, k \in 1 .. Len(c) : c[j] = c[k] => j = k
        BY <2>1, <4>1
      <4>3. ASSUME NEW j \in 1 .. Len(c), c[j] = seq[n]
            PROVE FALSE
        <5>1. PICK i \in Among(n - 1) : c[j] = seq[i]
          BY <2>1
        <5>2. i = n
          BY <3>3, <3>6, <4>3, <5>1
        <5> QED  BY <5>2
      <4> QED  BY <3>2, <4>2, <4>3
    <3>7. Good(d, n)
      BY <2>1, <3>4, <3>5, <3>6
    <3> HIDE DEF Good
    <3> QED  BY <2>1, <3>1, <3>2, <3>7
  <2>3. CASE n \notin positions
    <3>1. f[n] = c
      BY <1>2, <2>3
    <3>2. Among(n) = Among(n - 1)
      BY <2>3
    <3>3. Good(c, n)
      BY <2>1, <3>2
    <3> HIDE DEF Good
    <3> QED  BY <2>1, <3>1, <3>3
  <2> QED  BY <2>2, <2>3
<1>5. Chosen(seq, positions) \in W[Len(seq)]
  <2> HIDE DEF W
  <2>1. \A i \in 0 .. Len(seq) : f[i] \in W[i]
    BY <1>1, <1>3, <1>4, Rounds
  <2> QED  BY <1>1, <1>2, <2>1
<1> DEFINE c == Chosen(seq, positions)
<1>6. c \in Seq(S) /\ Good(c, Len(seq)) /\ DOMAIN c = 1 .. Len(c)
  <2> HIDE DEF Good, c
  <2>1. c \in {d \in Seq(S) : Good(d, Len(seq))}
    BY <1>1, <1>5 DEF c
  <2> QED  BY <2>1
<1> HIDE DEF c
<1>7. ToSet(c) = {seq[k] : k \in {j \in DOMAIN seq : j \in positions}}
  BY <1>1, <1>6 DEF ToSet
<1>8. (\A j, k \in DOMAIN seq : j \in positions /\ k \in positions /\ seq[j] = seq[k] => j = k)
         => IsInjective(c)
  BY <1>1, <1>6 DEF IsInjective
<1> QED  BY <1>6, <1>7, <1>8 DEF c

\* The creations and deletions among some requests.
Watches(s) ==
  Chosen(s, {k \in DOMAIN s : s[k].method \in {"CreateWatch", "DeleteWatch"}})
IsWatch(r) == r.method \in {"CreateWatch", "DeleteWatch"}

\* The rounds that find them.
LEMMA WatchRounds ==
  ASSUME NEW S, NEW s \in Seq(S)
  PROVE  \E f : /\ f[0] = <<>>
                /\ \A n \in 1 .. Len(s) :
                     f[n] = IF IsWatch(s[n]) THEN Append(f[n - 1], s[n]) ELSE f[n - 1]
                /\ \A n \in 0 .. Len(s) : f[n] \in Seq(S)
                /\ Watches(s) = f[Len(s)]
<1>1. Len(s) \in Nat /\ DOMAIN s = 1 .. Len(s) /\ \A k \in 1 .. Len(s) : s[k] \in S
  OBVIOUS
<1> DEFINE K == {k \in DOMAIN s : s[k].method \in {"CreateWatch", "DeleteWatch"}}
<1>2. PICK f : /\ f[0] = <<>>
               /\ \A n \in 1 .. Len(s) :
                    f[n] = IF n \in K THEN Append(f[n - 1], s[n]) ELSE f[n - 1]
               /\ Chosen(s, K) = f[Len(s)]
  <2> HIDE DEF K
  <2> QED  BY ChosenRounds
<1>3. \A n \in 1 .. Len(s) : f[n] = IF IsWatch(s[n]) THEN Append(f[n - 1], s[n]) ELSE f[n - 1]
  BY <1>1, <1>2 DEF IsWatch
<1> DEFINE W == [n \in 0 .. Len(s) |-> Seq(S)]
<1>4. \A i \in 0 .. Len(s) : f[i] \in W[i]
  <2>1. f[0] \in W[0]
    BY <1>1, <1>2
  <2>2. \A i \in 1 .. Len(s) : f[i - 1] \in W[i - 1] => f[i] \in W[i]
    <3> SUFFICES ASSUME NEW i \in 1 .. Len(s), f[i - 1] \in W[i - 1] PROVE f[i] \in W[i]
      OBVIOUS
    <3>1. f[i - 1] \in Seq(S) /\ s[i] \in S /\ i \in 0 .. Len(s)
      BY <1>1
    <3>2. Append(f[i - 1], s[i]) \in Seq(S)
      BY <3>1
    <3>3. f[i] \in Seq(S)
      BY <1>3, <3>1, <3>2
    <3> QED  BY <3>1, <3>3
  <2> HIDE DEF W
  <2> QED  BY <1>1, <2>1, <2>2, Rounds
<1> QED  BY <1>2, <1>3, <1>4 DEF Watches

\* Those among two lists of requests are those of the first and those of the second.
LEMMA WatchesJoin ==
  ASSUME NEW S, NEW s \in Seq(S), NEW t \in Seq(S)
  PROVE  Watches(s \o t) = Watches(s) \o Watches(t)
<1> DEFINE u == s \o t
<1>1. /\ u \in Seq(S) /\ Len(u) = Len(s) + Len(t) /\ Len(s) \in Nat /\ Len(t) \in Nat
      /\ \A k \in 1 .. Len(s) : u[k] = s[k]
      /\ \A k \in 1 .. Len(t) : u[Len(s) + k] = t[k]
      /\ \A k \in 1 .. Len(t) : t[k] \in S
  OBVIOUS
<1> HIDE DEF u
<1>2. PICK f : /\ f[0] = <<>>
               /\ \A n \in 1 .. Len(u) :
                    f[n] = IF IsWatch(u[n]) THEN Append(f[n - 1], u[n]) ELSE f[n - 1]
               /\ Watches(u) = f[Len(u)]
  BY <1>1, WatchRounds
<1>3. PICK g : /\ g[0] = <<>>
               /\ \A n \in 1 .. Len(s) :
                    g[n] = IF IsWatch(s[n]) THEN Append(g[n - 1], s[n]) ELSE g[n - 1]
               /\ \A n \in 0 .. Len(s) : g[n] \in Seq(S)
               /\ Watches(s) = g[Len(s)]
  BY WatchRounds
<1>4. PICK h : /\ h[0] = <<>>
               /\ \A n \in 1 .. Len(t) :
                    h[n] = IF IsWatch(t[n]) THEN Append(h[n - 1], t[n]) ELSE h[n - 1]
               /\ \A n \in 0 .. Len(t) : h[n] \in Seq(S)
               /\ Watches(t) = h[Len(t)]
  BY WatchRounds
<1>5. \A i \in 0 .. Len(s) : f[i] = g[i]
  <2> DEFINE W == [n \in 0 .. Len(s) |-> {g[n]}]
  <2>1. f[0] \in W[0]
    BY <1>1, <1>2, <1>3
  <2>2. \A i \in 1 .. Len(s) : f[i - 1] \in W[i - 1] => f[i] \in W[i]
    <3> SUFFICES ASSUME NEW i \in 1 .. Len(s), f[i - 1] \in W[i - 1] PROVE f[i] \in W[i]
      OBVIOUS
    <3>1. f[i - 1] = g[i - 1] /\ i \in 1 .. Len(u) /\ u[i] = s[i] /\ i \in 0 .. Len(s)
      BY <1>1
    <3> QED  BY <1>2, <1>3, <3>1
  <2>3. \A i \in 0 .. Len(s) : f[i] \in W[i]
    <3> HIDE DEF W
    <3> QED  BY <1>1, <2>1, <2>2, Rounds
  <2> QED  BY <2>3
<1> DEFINE a == g[Len(s)]
<1>6. a \in Seq(S) /\ a \o <<>> = a
  BY <1>1, <1>3
<1>7. \A x \in Seq(S), y \in S : Append(a \o x, y) = a \o Append(x, y)
  <2> SUFFICES ASSUME NEW x \in Seq(S), NEW y \in S
               PROVE Append(a \o x, y) = a \o Append(x, y)
    OBVIOUS
  <2> DEFINE l == Append(a \o x, y)
             r == a \o Append(x, y)
  <2> HIDE DEF a
  <2>1. l \in Seq(S) /\ r \in Seq(S) /\ Len(l) = Len(a) + Len(x) + 1 /\ Len(r) = Len(l)
    BY <1>6
  <2>2. ASSUME NEW k \in 1 .. Len(a) + Len(x) + 1
        PROVE  l[k] = r[k]
    <3>1. CASE k \in 1 .. Len(a)
      BY <1>6, <3>1
    <3>2. CASE k = Len(a) + Len(x) + 1
      <4>1. l[k] = y
        BY <1>6, <3>2
      <4>2. r[k] = Append(x, y)[k - Len(a)] /\ k - Len(a) = Len(x) + 1
        BY <1>6, <3>2
      <4> QED  BY <4>1, <4>2
    <3>3. CASE k \in Len(a) + 1 .. Len(a) + Len(x)
      <4>1. l[k] = (a \o x)[k] /\ (a \o x)[k] = x[k - Len(a)]
        BY <1>6, <3>3
      <4>2. r[k] = Append(x, y)[k - Len(a)] /\ k - Len(a) \in 1 .. Len(x)
        BY <1>6, <3>3
      <4> QED  BY <4>1, <4>2
    <3> QED  BY <1>6, <3>1, <3>2, <3>3
  <2> HIDE DEF l, r
  <2>3. l = r
    BY <2>1, <2>2
  <2> QED  BY <2>3 DEF l, r
<1> HIDE DEF a
<1>8. \A j \in 0 .. Len(t) : f[Len(s) + j] = a \o h[j]
  <2> DEFINE F == [j \in 0 .. Len(t) |-> f[Len(s) + j]]
             W == [j \in 0 .. Len(t) |-> {a \o h[j]}]
  <2>1. F[0] \in W[0]
    <3>1. F[0] = f[Len(s)] /\ W[0] = {a \o h[0]}
      BY <1>1
    <3>2. f[Len(s)] = a /\ a \o h[0] = a
      BY <1>1, <1>4, <1>5, <1>6 DEF a
    <3> HIDE DEF F, W
    <3> QED  BY <3>1, <3>2
  <2>2. \A i \in 1 .. Len(t) : F[i - 1] \in W[i - 1] => F[i] \in W[i]
    <3> SUFFICES ASSUME NEW i \in 1 .. Len(t), F[i - 1] \in W[i - 1] PROVE F[i] \in W[i]
      OBVIOUS
    <3>1. /\ i \in 0 .. Len(t) /\ i - 1 \in 0 .. Len(t) /\ Len(s) + i \in 1 .. Len(u)
          /\ (Len(s) + i) - 1 = Len(s) + (i - 1) /\ u[Len(s) + i] = t[i] /\ t[i] \in S
      BY <1>1
    <3>2. f[Len(s) + (i - 1)] = a \o h[i - 1] /\ h[i - 1] \in Seq(S)
      BY <1>4, <3>1
    <3>3. f[Len(s) + i] = IF IsWatch(t[i]) THEN Append(a \o h[i - 1], t[i]) ELSE a \o h[i - 1]
      BY <1>2, <3>1, <3>2
    <3>4. h[i] = IF IsWatch(t[i]) THEN Append(h[i - 1], t[i]) ELSE h[i - 1]
      BY <1>4
    <3>5. f[Len(s) + i] = a \o h[i]
      BY <1>7, <3>1, <3>2, <3>3, <3>4
    <3> QED  BY <3>1, <3>5
  <2>3. \A i \in 0 .. Len(t) : F[i] \in W[i]
    <3> HIDE DEF F, W
    <3> QED  BY <1>1, <2>1, <2>2, Rounds
  <2> QED  BY <2>3
<1>9. f[Len(u)] = a \o h[Len(t)]
  BY <1>1, <1>8
<1> QED  BY <1>2, <1>3, <1>4, <1>9 DEF a, u

\* All or none of some requests may be creations and deletions.
LEMMA WatchesAll ==
  ASSUME NEW S, NEW s \in Seq(S)
  PROVE  /\ (\A k \in 1 .. Len(s) : IsWatch(s[k])) => Watches(s) = s
         /\ (\A k \in 1 .. Len(s) : ~IsWatch(s[k])) => Watches(s) = <<>>
<1>1. PICK f : /\ f[0] = <<>>
               /\ \A n \in 1 .. Len(s) :
                    f[n] = IF IsWatch(s[n]) THEN Append(f[n - 1], s[n]) ELSE f[n - 1]
               /\ Watches(s) = f[Len(s)]
  BY WatchRounds
<1>2. Len(s) \in Nat /\ \A k \in 1 .. Len(s) : s[k] \in S
  OBVIOUS
<1>3. ASSUME \A k \in 1 .. Len(s) : IsWatch(s[k])
      PROVE  Watches(s) = s
  <2> DEFINE W == [n \in 0 .. Len(s) |-> {SubSeq(s, 1, n)}]
  <2>1. f[0] \in W[0]
    BY <1>1, <1>2
  <2>2. \A i \in 1 .. Len(s) : f[i - 1] \in W[i - 1] => f[i] \in W[i]
    <3> SUFFICES ASSUME NEW i \in 1 .. Len(s), f[i - 1] \in W[i - 1] PROVE f[i] \in W[i]
      OBVIOUS
    <3>1. f[i - 1] = SubSeq(s, 1, i - 1) /\ i \in 0 .. Len(s)
      BY <1>2
    <3>2. Append(SubSeq(s, 1, i - 1), s[i]) = SubSeq(s, 1, i)
      BY <1>2
    <3> QED  BY <1>1, <1>3, <3>1, <3>2
  <2>3. \A i \in 0 .. Len(s) : f[i] \in W[i]
    <3> HIDE DEF W
    <3> QED  BY <1>2, <2>1, <2>2, Rounds
  <2>4. f[Len(s)] = SubSeq(s, 1, Len(s))
    BY <1>2, <2>3
  <2> QED  BY <1>1, <2>4
<1>4. ASSUME \A k \in 1 .. Len(s) : ~IsWatch(s[k])
      PROVE  Watches(s) = <<>>
  <2> DEFINE W == [n \in 0 .. Len(s) |-> {<<>>}]
  <2>1. f[0] \in W[0]
    BY <1>1, <1>2
  <2>2. \A i \in 1 .. Len(s) : f[i - 1] \in W[i - 1] => f[i] \in W[i]
    BY <1>1, <1>2, <1>4
  <2>3. \A i \in 0 .. Len(s) : f[i] \in W[i]
    <3> HIDE DEF W
    <3> QED  BY <1>2, <2>1, <2>2, Rounds
  <2>4. f[Len(s)] = <<>>
    BY <1>2, <2>3
  <2> QED  BY <1>1, <2>4
<1> QED  BY <1>3, <1>4

----------------------------------------------------------------------------
(* RemoveFirst, on sequences with and without repetitions. *)

\* The rest of a sequence, element by element.
LEMMA RestFacts ==
  ASSUME NEW S, NEW s \in Seq(S), NEW m \in 1 .. Len(s)
  PROVE  /\ Len(SubSeq(s, m + 1, Len(s))) = Len(s) - m
         /\ \A k \in 1 .. Len(s) - m : SubSeq(s, m + 1, Len(s))[k] = s[m + k]
OBVIOUS

\* What RemoveFirst removes.
LEMMA RemoveFirstFacts ==
  ASSUME NEW S, NEW s \in Seq(S), NEW x, Contains(s, x)
  PROVE  /\ RemoveFirst(s, x) \in Seq(S)
         /\ Len(RemoveFirst(s, x)) = Len(s) - 1
         /\ IsInjective(s) => /\ IsInjective(RemoveFirst(s, x))
                              /\ ToSet(RemoveFirst(s, x)) = ToSet(s) \ {x}
<1> DEFINE I == {i \in 1 .. Len(s) : s[i] = x}
           m == Min(I)
           r == SubSeq(s, 1, m - 1) \o SubSeq(s, m + 1, Len(s))
<1>1. Len(s) \in Nat /\ DOMAIN s = 1 .. Len(s) /\ \A k \in 1 .. Len(s) : s[k] \in S
  OBVIOUS
<1>2. I # {} /\ I \subseteq Nat
  BY <1>1 DEF Contains
<1>3. m \in I
  <2>1. \E y \in I : \A z \in I : y <= z
    BY <1>2, LeastNat
  <2> HIDE DEF I
  <2> QED  BY <2>1 DEF Min
<1>4. RemoveFirst(s, x) = r
  <2>1. SelectInSeq(s, LAMBDA v : v = x) = m
    BY <1>2 DEF SelectInSeq
  <2> HIDE DEF m
  <2> QED  BY <2>1 DEF RemoveFirst, RemoveAt, Contains
<1>5. m \in 1 .. Len(s) /\ s[m] = x
  BY <1>3
<1> HIDE DEF m, I
<1>6. /\ r \in Seq(S) /\ Len(r) = Len(s) - 1
      /\ \A k \in 1 .. m - 1 : r[k] = s[k]
      /\ \A k \in m .. Len(s) - 1 : r[k] = s[k + 1]
  <2> DEFINE a == SubSeq(s, 1, m - 1)
             b == SubSeq(s, m + 1, Len(s))
  <2>1. /\ a \in Seq(S) /\ Len(a) = m - 1 /\ \A k \in 1 .. m - 1 : a[k] = s[k]
    BY <1>1, <1>5
  <2>2. /\ b \in Seq(S) /\ Len(b) = Len(s) - m /\ \A k \in 1 .. Len(s) - m : b[k] = s[m + k]
    <3>1. b \in Seq(S)
      BY <1>1, <1>5
    <3>2. Len(b) = Len(s) - m
      BY <1>5, RestFacts
    <3>3. ASSUME NEW k \in 1 .. Len(s) - m
          PROVE  b[k] = s[m + k]
      <4> QED  BY <1>5, RestFacts
    <3> QED  BY <3>1, <3>2, <3>3
  <2>3. r = a \o b
    OBVIOUS
  <2> HIDE DEF a, b, r
  <2>4. r \in Seq(S) /\ Len(r) = Len(s) - 1
    <3>1. r \in Seq(S) /\ Len(r) = Len(a) + Len(b)
      BY <2>1, <2>2, <2>3
    <3> QED  BY <1>1, <1>5, <2>1, <2>2, <3>1
  <2>5. \A k \in 1 .. m - 1 : r[k] = s[k]
    BY <1>1, <1>5, <2>1, <2>2, <2>3
  <2>6. ASSUME NEW k \in m .. Len(s) - 1
        PROVE  r[k] = s[k + 1]
    <3>1. r[k] = b[k - (m - 1)] /\ k - (m - 1) \in 1 .. Len(s) - m
      BY <1>1, <1>5, <2>1, <2>2, <2>3
    <3> QED  BY <1>1, <1>5, <2>2, <3>1
  <2> QED  BY <2>4, <2>5, <2>6
<1> HIDE DEF r
<1>7. ASSUME IsInjective(s)
      PROVE  /\ IsInjective(r)
             /\ ToSet(r) = ToSet(s) \ {x}
  <2>1. DOMAIN r = 1 .. Len(s) - 1
    BY <1>1, <1>6
  <2>2. \A j, k \in 1 .. Len(s) : s[j] = s[k] => j = k
    BY <1>1, <1>7 DEF IsInjective
  <2>3. \A k \in 1 .. Len(s) - 1 :
          \/ k \in 1 .. m - 1 /\ r[k] = s[k] /\ k \in 1 .. Len(s)
          \/ k \in m .. Len(s) - 1 /\ r[k] = s[k + 1] /\ k + 1 \in 1 .. Len(s)
    BY <1>1, <1>5, <1>6
  <2>4. IsInjective(r)
    <3> SUFFICES ASSUME NEW j \in 1 .. Len(s) - 1, NEW k \in 1 .. Len(s) - 1, r[j] = r[k]
                 PROVE j = k
      BY <2>1 DEF IsInjective
    <3> QED  BY <1>1, <1>5, <2>2, <2>3
  <2>5. \A k \in 1 .. Len(s) - 1 : r[k] \in ToSet(s) \ {x}
    BY <1>1, <1>5, <2>2, <2>3 DEF ToSet
  <2>6. ASSUME NEW y \in ToSet(s) \ {x}
        PROVE  y \in ToSet(r)
    <3>1. PICK k \in 1 .. Len(s) : s[k] = y /\ k # m
      BY <1>1, <1>5, <2>6 DEF ToSet
    <3>2. CASE k < m
      <4>1. k \in 1 .. m - 1 /\ k \in 1 .. Len(s) - 1
        BY <1>1, <1>5, <3>2
      <4> QED  BY <1>6, <2>1, <3>1, <4>1 DEF ToSet
    <3>3. CASE k > m
      <4>1. k - 1 \in m .. Len(s) - 1 /\ k - 1 \in 1 .. Len(s) - 1 /\ (k - 1) + 1 = k
        BY <1>1, <1>5, <3>3
      <4> QED  BY <1>6, <2>1, <3>1, <4>1 DEF ToSet
    <3> QED  BY <1>5, <3>1, <3>2, <3>3
  <2>7. ToSet(r) \subseteq ToSet(s) \ {x}
    BY <2>1, <2>5 DEF ToSet
  <2> QED  BY <2>4, <2>6, <2>7
<1> QED  BY <1>4, <1>6, <1>7

----------------------------------------------------------------------------
(* Identifiers: those of variables, those of fields, and where they hang. *)

\* Append, element by element.
LEMMA AppendFacts ==
  ASSUME NEW S, NEW q \in Seq(S), NEW x \in S
  PROVE  /\ Append(q, x) \in Seq(S) /\ Len(q) \in Nat /\ Len(Append(q, x)) = Len(q) + 1
         /\ \A i \in 1 .. Len(q) : Append(q, x)[i] = q[i]
         /\ Append(q, x)[Len(q) + 1] = x
OBVIOUS

Tops   == {<<k>> : k \in Nat}
AllIds == Tops \cup {Append(id, f) : id \in Tops, f \in FieldNumbers}

\* The node below which a node belongs.
Up(id) == IF Len(id) = 1 THEN Root ELSE <<id[1]>>

\* Fields are numbered.
LEMMA FieldNumbersNat == FieldNumbers \subseteq Nat /\ NoId = Root
  BY SessionAssumption DEF FieldNumbers, NoId, Root

\* The two shapes of an identifier.
LEMMA IdShapes ==
  /\ \A id \in Tops : /\ id \in Seq(Nat) /\ Len(id) = 1 /\ id = <<id[1]>> /\ id[1] \in Nat
                      /\ id # Root /\ Up(id) = Root /\ id \in AllIds
  /\ \A id \in Tops, f \in FieldNumbers :
       /\ Append(id, f) \in Seq(Nat) /\ Len(Append(id, f)) = 2 /\ Append(id, f)[1] = id[1]
       /\ Append(id, f)[2] = f
       /\ Append(id, f) # Root /\ Up(Append(id, f)) = id /\ Append(id, f) \in AllIds
  /\ \A id \in AllIds : /\ id \in Seq(Nat) /\ Len(id) \in {1, 2} /\ id # Root /\ Up(id) # id
                        /\ Up(id) \in AllIds \cup {Root}
                        /\ Up(id) = Root <=> id \in Tops
                        /\ Len(id) = 1 <=> id \in Tops
<1>1. ASSUME NEW id \in Tops
      PROVE  /\ id \in Seq(Nat) /\ Len(id) = 1 /\ id = <<id[1]>> /\ id[1] \in Nat
             /\ id # Root /\ Up(id) = Root /\ id \in AllIds
  <2> PICK k \in Nat : id = <<k>>
    BY DEF Tops
  <2>1. id \in Seq(Nat) /\ Len(id) = 1 /\ id[1] = k
    OBVIOUS
  <2>2. id # Root /\ Up(id) = Root /\ id \in AllIds
    BY <2>1 DEF Up, Root, AllIds
  <2> QED  BY <2>1, <2>2
<1>2. ASSUME NEW id \in Tops, NEW f \in FieldNumbers
      PROVE  /\ Append(id, f) \in Seq(Nat) /\ Len(Append(id, f)) = 2 /\ Append(id, f)[1] = id[1]
             /\ Append(id, f)[2] = f
             /\ Append(id, f) # Root /\ Up(Append(id, f)) = id /\ Append(id, f) \in AllIds
  <2> DEFINE c == Append(id, f)
  <2>1. id \in Seq(Nat) /\ Len(id) = 1 /\ f \in Nat /\ <<id[1]>> = id
    BY <1>1, FieldNumbersNat
  <2>2. c \in Seq(Nat) /\ Len(c) = 2 /\ c[1] = id[1] /\ c[2] = f
    <3>1. id \in Seq(Nat) /\ f \in Nat
      BY <2>1
    <3>2. /\ c \in Seq(Nat) /\ Len(c) = Len(id) + 1
          /\ c[Len(id) + 1] = f /\ \A k \in 1 .. Len(id) : c[k] = id[k]
      BY ONLY <3>1, AppendFacts
    <3> HIDE DEF c
    <3> QED  BY <2>1, <3>2
  <2>3. c \in AllIds
    BY DEF AllIds
  <2> HIDE DEF c
  <2>4. c # Root
    BY <2>2 DEF Root
  <2>5. Up(c) = id
    BY <2>1, <2>2 DEF Up
  <2> QED  BY <2>2, <2>3, <2>4, <2>5 DEF c
<1>3. ASSUME NEW id \in AllIds
      PROVE  /\ id \in Seq(Nat) /\ Len(id) \in {1, 2} /\ id # Root /\ Up(id) # id
             /\ Up(id) \in AllIds \cup {Root}
             /\ Up(id) = Root <=> id \in Tops
             /\ Len(id) = 1 <=> id \in Tops
  <2>1. CASE id \in Tops
    BY <1>1, <2>1
  <2>2. CASE id \notin Tops
    <3>1. PICK top \in Tops, f \in FieldNumbers : id = Append(top, f)
      BY <2>2 DEF AllIds
    <3>2. Up(id) = top /\ Len(id) = 2 /\ Len(top) = 1 /\ top # Root /\ top \in AllIds /\ id # Root /\ id \in Seq(Nat)
      BY <1>1, <1>2, <3>1
    <3> QED  BY <2>2, <3>2
  <2> QED  BY <2>1, <2>2
<1> QED  BY <1>1, <1>2, <1>3

\* The identifiers below a counter.
TopsTo(n) == {id \in Tops : id[1] < n}
IdsTo(n)  == {id \in AllIds : id[1] < n}

\* The variables created so far, and some variables with their fields.
HandedOut(n)     == {<<k>> : k \in 0 .. (n - 1)}
WithFields(tops) == tops \cup {Append(id, f) : id \in tops, f \in FieldNumbers}

\* They are those of so many variables, and of their fields.
LEMMA IdsBelow ==
  ASSUME NEW n \in Nat
  PROVE  HandedOut(n) = TopsTo(n) /\ WithFields(TopsTo(n)) = IdsTo(n)
<1>1. {<<k>> : k \in 0 .. (n - 1)} = TopsTo(n)
  <2>1. ASSUME NEW k \in 0 .. (n - 1) PROVE <<k>> \in TopsTo(n)
    BY DEF TopsTo, Tops
  <2>2. ASSUME NEW id \in TopsTo(n) PROVE id \in {<<k>> : k \in 0 .. (n - 1)}
    <3>1. id = <<id[1]>> /\ id[1] \in 0 .. (n - 1)
      BY IdShapes DEF TopsTo
    <3> QED  BY <3>1
  <2> QED  BY <2>1, <2>2
<1>2. ASSUME NEW id \in TopsTo(n) PROVE id \in IdsTo(n)
  BY IdShapes DEF TopsTo, IdsTo
<1>3. ASSUME NEW id \in TopsTo(n), NEW f \in FieldNumbers PROVE Append(id, f) \in IdsTo(n)
  BY IdShapes DEF TopsTo, IdsTo
<1>4. ASSUME NEW id \in IdsTo(n), id \notin TopsTo(n)
      PROVE  \E top \in TopsTo(n), f \in FieldNumbers : id = Append(top, f)
  <2>1. id \notin Tops /\ id \in AllIds /\ id[1] < n
    BY <1>4 DEF TopsTo, IdsTo
  <2>2. PICK top \in Tops, f \in FieldNumbers : id = Append(top, f)
    BY <2>1 DEF AllIds
  <2>3. top \in TopsTo(n)
    BY <2>1, <2>2, IdShapes DEF TopsTo
  <2> QED  BY <2>2, <2>3
<1>5. TopsTo(n) \cup {Append(id, f) : id \in TopsTo(n), f \in FieldNumbers} = IdsTo(n)
  <2> DEFINE A == {Append(id, f) : id \in TopsTo(n), f \in FieldNumbers}
  <2>1. A \subseteq IdsTo(n)
    <3> SUFFICES ASSUME NEW x \in A PROVE x \in IdsTo(n)
      OBVIOUS
    <3>1. PICK id \in TopsTo(n), f \in FieldNumbers : x = Append(id, f)
      OBVIOUS
    <3> QED  BY <1>3, <3>1
  <2>2. \A id \in IdsTo(n) : id \notin TopsTo(n) => id \in A
    BY <1>4
  <2> HIDE DEF A
  <2>3. TopsTo(n) \cup A = IdsTo(n)
    BY <1>2, <2>1, <2>2
  <2> QED  BY <2>3 DEF A
<1>6. HandedOut(n) = TopsTo(n)
  BY <1>1 DEF HandedOut
<1>7. WithFields(TopsTo(n)) = IdsTo(n)
  BY <1>5 DEF WithFields
<1> QED  BY <1>6, <1>7

\* The identifiers in use are such.
LEMMA UsedShapes ==
  ASSUME nextVariable \in Nat
  PROVE  /\ UsedIds = TopsTo(nextVariable) /\ Ids = IdsTo(nextVariable)
         /\ UsedIds = {id \in Ids : Len(id) = 1}
         /\ \A id \in Ids : Up(id) \in Ids \cup {Root}
<1>1. UsedIds = TopsTo(nextVariable) /\ Ids = IdsTo(nextVariable)
  <2>1. UsedIds = HandedOut(nextVariable)
    BY DEF UsedIds, HandedOut
  <2>2. Ids = WithFields(UsedIds)
    BY DEF Ids, WithFields
  <2> QED  BY <2>1, <2>2, IdsBelow
<1>2. UsedIds = {id \in Ids : Len(id) = 1}
  BY <1>1, IdShapes DEF TopsTo, IdsTo
<1>3. ASSUME NEW id \in Ids PROVE Up(id) \in Ids \cup {Root}
  <2>1. CASE id \in Tops
    BY <2>1, IdShapes
  <2>2. CASE id \notin Tops
    <3>1. id \in AllIds /\ id[1] < nextVariable
      BY <1>1 DEF IdsTo
    <3>2. PICK top \in Tops, f \in FieldNumbers : id = Append(top, f)
      BY <2>2, <3>1 DEF AllIds
    <3>3. Up(id) = top /\ top[1] = id[1] /\ top \in AllIds
      BY <3>2, IdShapes
    <3> QED  BY <1>1, <3>1, <3>3 DEF IdsTo
  <2> QED  BY <2>1, <2>2
<1> QED  BY <1>1, <1>2, <1>3

----------------------------------------------------------------------------
(* Views: every node hangs where its identifier says, and the operations   *)
(* of LocalsView leave it there.                                           *)

Below(I, p) == {c \in I : Up(c) = p}

\* A view of nodes in I.
ViewIn(v, I) ==
  /\ v = [kids |-> v.kids, nodes |-> v.nodes]
  /\ DOMAIN v.kids \subseteq I \cup {Root}
  /\ \A id \in DOMAIN v.kids : v.kids[id] \in Seq(Below(I, id))
  /\ DOMAIN v.nodes \subseteq I
  /\ \A id \in DOMAIN v.nodes :
       /\ v.nodes[id] = [state |-> v.nodes[id].state, parent |-> Up(id)]
       /\ v.nodes[id].state \in ExpansionStates

\* Two views show the same lists.
SameKids(v, w) == \A q : Kids(w, q) = Kids(v, q)

\* The children of a node hang below it.
LEMMA KidsIn ==
  ASSUME NEW I, NEW v, ViewIn(v, I), NEW id
  PROVE  /\ Kids(v, id) \in Seq(Below(I, id))
         /\ Kids(v, id) \in Seq(I)
         /\ \A c \in ToSet(Kids(v, id)) : c \in I /\ Up(c) = id
<1>1. Kids(v, id) \in Seq(Below(I, id))
  <2>1. CASE id \in DOMAIN v.kids
    BY <2>1 DEF Kids, ViewIn
  <2>2. CASE id \notin DOMAIN v.kids
    BY <2>2 DEF Kids
  <2> QED  BY <2>1, <2>2
<1> DEFINE k == Kids(v, id)
<1> HIDE DEF k
<1>2. k \in Seq(Below(I, id))
  BY <1>1 DEF k
<1>3. \A i \in DOMAIN k : k[i] \in Below(I, id)
  BY <1>2
<1>4. k \in Seq(I)
  <2>1. Below(I, id) \subseteq I
    BY DEF Below
  <2> QED  BY <1>2, <2>1
<1> QED  BY <1>1, <1>3, <1>4 DEF Below, ToSet, k

\* A view stays one when there are more identifiers.
LEMMA ViewInMore ==
  ASSUME NEW I, NEW J, I \subseteq J, NEW v, ViewIn(v, I)
  PROVE  ViewIn(v, J)
<1>1. ASSUME NEW id \in DOMAIN v.kids PROVE v.kids[id] \in Seq(Below(J, id))
  <2>1. Below(I, id) \subseteq Below(J, id) /\ v.kids[id] \in Seq(Below(I, id))
    BY DEF Below, ViewIn
  <2> DEFINE k == v.kids[id]
  <2> HIDE DEF k
  <2>2. k \in Seq(Below(I, id)) => k \in Seq(Below(J, id))
    BY <2>1
  <2> QED  BY <2>1, <2>2 DEF k
<1> QED  BY <1>1 DEF ViewIn

\* Children that belong below parent are added at the end of its list.
LEMMA AddIn ==
  ASSUME NEW I, NEW v, ViewIn(v, I), NEW parent \in I \cup {Root},
         NEW children \in Seq(Below(I, parent))
  PROVE  /\ ViewIn(AddChildren(v, parent, children), I)
         /\ \A q : Kids(AddChildren(v, parent, children), q) =
              IF q = parent THEN Kids(v, parent) \o children ELSE Kids(v, q)
<1>1. CASE children = <<>>
  <2>1. AddChildren(v, parent, children) = v
    BY <1>1 DEF AddChildren
  <2>2. Kids(v, parent) \o children = Kids(v, parent)
    <3> DEFINE k == Kids(v, parent)
    <3>1. k \in Seq(I)
      BY KidsIn
    <3> HIDE DEF k
    <3>2. k \o <<>> = k
      BY <3>1
    <3> QED  BY <1>1, <3>2 DEF k
  <2> QED  BY <2>1, <2>2
<1>2. CASE children # <<>>
  <2> DEFINE w  == AddChildren(v, parent, children)
             wk == Put(v.kids, parent, Kids(v, parent) \o children)
             wn == [id \in DOMAIN v.nodes \cup ToSet(children) |->
                     IF id \in ToSet(children)
                     THEN [state |-> "NotExpandable", parent |-> parent]
                     ELSE v.nodes[id]]
  <2>1. w = [kids |-> wk, nodes |-> wn]
    BY <1>2 DEF AddChildren
  <2>2. \A c \in ToSet(children) : c \in I /\ Up(c) = parent
    BY DEF ToSet, Below
  <2>3. Kids(v, parent) \o children \in Seq(Below(I, parent))
    <3> DEFINE k == Kids(v, parent)
    <3>1. k \in Seq(Below(I, parent))
      BY KidsIn
    <3> HIDE DEF k
    <3>2. k \o children \in Seq(Below(I, parent))
      BY <3>1
    <3> QED  BY <3>2 DEF k
  <2>4. /\ DOMAIN wk = DOMAIN v.kids \cup {parent}
        /\ \A id \in DOMAIN wk : wk[id] = IF id = parent THEN Kids(v, parent) \o children ELSE v.kids[id]
    BY DEF Put
  <2>5. \A id \in DOMAIN wk : wk[id] \in Seq(Below(I, id))
    BY <2>3, <2>4 DEF ViewIn
  <2>6. /\ DOMAIN wn = DOMAIN v.nodes \cup ToSet(children)
        /\ \A id \in DOMAIN wn : wn[id] = IF id \in ToSet(children)
                                          THEN [state |-> "NotExpandable", parent |-> parent]
                                          ELSE v.nodes[id]
    OBVIOUS
  <2> HIDE DEF w, wk, wn
  <2>7. ASSUME NEW id \in DOMAIN wn
        PROVE  /\ wn[id] = [state |-> wn[id].state, parent |-> Up(id)]
               /\ wn[id].state \in ExpansionStates
    <3>1. CASE id \in ToSet(children)
      BY <2>2, <2>6, <3>1 DEF ExpansionStates
    <3>2. CASE id \notin ToSet(children)
      BY <2>6, <3>2 DEF ViewIn
    <3> QED  BY <3>1, <3>2
  <2>8. w.kids = wk /\ w.nodes = wn
    BY <2>1
  <2>9. ViewIn(w, I)
    BY <2>1, <2>2, <2>4, <2>5, <2>6, <2>7, <2>8 DEF ViewIn
  <2>10. ASSUME NEW q
         PROVE  Kids(w, q) = IF q = parent THEN Kids(v, parent) \o children ELSE Kids(v, q)
    BY <2>4, <2>8 DEF Kids
  <2> QED  BY <2>9, <2>10 DEF w
<1> QED  BY <1>1, <1>2

\* Setting data changes no list and no parent.
LEMMA SetIn ==
  ASSUME NEW I, NEW v, ViewIn(v, I), NEW items
  PROVE  /\ ViewIn(SetNodesData(v, items), I)
         /\ SameKids(v, SetNodesData(v, items))
<1> DEFINE w  == SetNodesData(v, items)
           wn == [id \in DOMAIN v.nodes |->
                    IF id \in DOMAIN items
                    THEN [v.nodes[id] EXCEPT !.state = IF items[id] THEN "Collapsed" ELSE "NotExpandable"]
                    ELSE v.nodes[id]]
<1>1. w = [kids |-> v.kids, nodes |-> wn]
  BY DEF SetNodesData, ViewIn
<1>2. ASSUME NEW id \in DOMAIN wn
      PROVE  /\ wn[id] = [state |-> wn[id].state, parent |-> Up(id)]
             /\ wn[id].state \in ExpansionStates
  <2> DEFINE n == v.nodes[id]
             s == IF items[id] THEN "Collapsed" ELSE "NotExpandable"
  <2>1. n = [state |-> n.state, parent |-> Up(id)] /\ n.state \in ExpansionStates
    BY DEF ViewIn
  <2>2. s \in ExpansionStates
    BY DEF ExpansionStates
  <2>3. wn[id] = IF id \in DOMAIN items THEN [n EXCEPT !.state = s] ELSE n
    OBVIOUS
  <2> HIDE DEF wn, n, s
  <2>4. [n EXCEPT !.state = s] = [state |-> s, parent |-> Up(id)]
    BY <2>1
  <2>5. CASE id \in DOMAIN items
    <3>1. wn[id] = [state |-> s, parent |-> Up(id)]
      BY <2>3, <2>4, <2>5
    <3> QED  BY <2>2, <3>1
  <2>6. CASE id \notin DOMAIN items
    BY <2>1, <2>3, <2>6
  <2> QED  BY <2>5, <2>6
<1>3. DOMAIN wn = DOMAIN v.nodes
  OBVIOUS
<1> HIDE DEF w, wn
<1>4. w.kids = v.kids /\ w.nodes = wn
  BY <1>1
<1>5. ViewIn(w, I)
  BY <1>1, <1>2, <1>3, <1>4 DEF ViewIn
<1>6. SameKids(v, w)
  BY <1>4 DEF SameKids, Kids
<1> QED  BY <1>5, <1>6 DEF w

\* Nor does expanding and collapsing a node that is there.
LEMMA ExpansionIn ==
  ASSUME NEW I, NEW v, ViewIn(v, I), NEW id \in DOMAIN v.nodes, NEW state \in ExpansionStates
  PROVE  /\ ViewIn(SetNodeExpansionState(v, id, state), I)
         /\ SameKids(v, SetNodeExpansionState(v, id, state))
<1> DEFINE w  == SetNodeExpansionState(v, id, state)
           wn == [v.nodes EXCEPT ![id].state = state]
<1>1. w = [kids |-> v.kids, nodes |-> wn]
  BY DEF SetNodeExpansionState, ViewIn
<1>2. DOMAIN wn = DOMAIN v.nodes
  OBVIOUS
<1>3. ASSUME NEW i \in DOMAIN wn
      PROVE  /\ wn[i] = [state |-> wn[i].state, parent |-> Up(i)]
             /\ wn[i].state \in ExpansionStates
  <2>1. v.nodes[i] = [state |-> v.nodes[i].state, parent |-> Up(i)] /\ v.nodes[i].state \in ExpansionStates
    BY DEF ViewIn
  <2>2. CASE i = id
    <3>1. wn[i] = [v.nodes[i] EXCEPT !.state = state]
      BY <2>2
    <3> HIDE DEF wn
    <3>2. wn[i] = [state |-> state, parent |-> Up(i)]
      BY <2>1, <3>1
    <3> QED  BY <3>2
  <2>3. CASE i # id
    <3>1. wn[i] = v.nodes[i]
      BY <2>3
    <3> QED  BY <2>1, <3>1
  <2> QED  BY <2>2, <2>3
<1> HIDE DEF w, wn
<1>4. w.kids = v.kids /\ w.nodes = wn
  BY <1>1
<1>5. ViewIn(w, I)
  BY <1>1, <1>2, <1>3, <1>4 DEF ViewIn
<1>6. SameKids(v, w)
  BY <1>4 DEF SameKids, Kids
<1> QED  BY <1>5, <1>6 DEF w

----------------------------------------------------------------------------
(* RemoveNode. *)

\* What RemoveNode works on.
ResultIn(r, I) == r = [view |-> r.view, ok |-> r.ok] /\ r.ok \in BOOLEAN /\ ViewIn(r.view, I)

\* In w, the list below which id belongs has lost it, and no other list of v has
\* changed.
Erased(v, w, id) ==
  \A q : q # id => Kids(w, q) = IF q = Up(id) THEN RemoveFirst(Kids(v, q), id) ELSE Kids(v, q)

\* A call that does not assert takes one identifier out of one list, that of the
\* node below which it belongs.
LEMMA EraseIn ==
  ASSUME NEW I, I \subseteq AllIds, NEW r, ResultIn(r, I), NEW id
  PROVE  /\ ResultIn(EraseNode(r, id), I)
         /\ EraseNode(r, id).ok =>
              /\ r.ok /\ id \in I /\ Contains(Kids(r.view, Up(id)), id)
              /\ Erased(r.view, EraseNode(r, id).view, id)
<1> DEFINE v == r.view
           p == Node(v, id).parent
           sib == Kids(v, p)
           e == EraseNode(r, id)
<1>1. CASE ~(r.ok /\ Contains(sib, id))
  <2>1. e = [r EXCEPT !.ok = FALSE]
    BY <1>1 DEF EraseNode
  <2>2. e = [view |-> v, ok |-> FALSE]
    BY <2>1 DEF ResultIn
  <2> HIDE DEF e
  <2>3. e.ok = FALSE /\ e.view = v
    BY <2>2
  <2>4. ResultIn(e, I)
    BY <2>2, <2>3 DEF ResultIn
  <2> QED  BY <2>3, <2>4 DEF e
<1>2. CASE r.ok /\ Contains(sib, id)
  <2> DEFINE put == Put(v.kids, p, RemoveFirst(sib, id))
             wk == Drop(put, id)
             wn == Drop(v.nodes, id)
             w == [kids |-> wk, nodes |-> wn]
  <2>1. e = [view |-> w, ok |-> TRUE]
    BY <1>2 DEF EraseNode
  <2>2. ViewIn(v, I)
    BY DEF ResultIn
  <2> HIDE DEF v
  <2>3. sib \in Seq(Below(I, p)) /\ \A c \in ToSet(sib) : c \in I /\ Up(c) = p
    BY <2>2, KidsIn
  <2>4. id \in I /\ Up(id) = p
    <3>1. id \in ToSet(sib)
      <4> HIDE DEF sib
      <4> QED  BY <1>2, <2>3 DEF Contains, ToSet
    <3> QED  BY <2>3, <3>1
  <2>5. p # id /\ id # Root
    BY <2>4, IdShapes
  <2>6. p \in DOMAIN v.kids
    <3>1. sib # <<>>
      <4> HIDE DEF sib
      <4> QED  BY <1>2, <2>3 DEF Contains
    <3> QED  BY <3>1 DEF Kids
  <2>7. RemoveFirst(sib, id) \in Seq(Below(I, p))
    <3> HIDE DEF sib
    <3> QED  BY <1>2, <2>3, RemoveFirstFacts
  <2> DEFINE rest == RemoveFirst(sib, id)
  <2> HIDE DEF rest, p, sib
  <2>8. /\ DOMAIN wk = (DOMAIN v.kids) \ {id}
        /\ \A q \in DOMAIN wk : wk[q] = IF q = p THEN rest ELSE v.kids[q]
    BY <2>6 DEF Put, Drop, rest
  <2>9. /\ DOMAIN wn = (DOMAIN v.nodes) \ {id}
        /\ \A q \in DOMAIN wn : wn[q] = v.nodes[q]
    BY DEF Drop
  <2> HIDE DEF wk, wn
  <2>10. w.kids = wk /\ w.nodes = wn /\ w = [kids |-> w.kids, nodes |-> w.nodes]
    OBVIOUS
  <2> HIDE DEF w
  <2>11. \A q \in DOMAIN wk : wk[q] \in Seq(Below(I, q))
    BY <2>2, <2>7, <2>8 DEF ViewIn, rest
  <2>12. \A q \in DOMAIN wn : wn[q] = [state |-> wn[q].state, parent |-> Up(q)] /\ wn[q].state \in ExpansionStates
    BY <2>2, <2>9 DEF ViewIn
  <2>13. ViewIn(w, I)
    BY <2>2, <2>8, <2>9, <2>10, <2>11, <2>12 DEF ViewIn
  <2>14. ASSUME NEW q, q # id
         PROVE  Kids(w, q) = IF q = Up(id) THEN RemoveFirst(Kids(v, q), id) ELSE Kids(v, q)
    <3>1. CASE q = p
      <4>1. Kids(w, q) = rest
        BY <2>5, <2>6, <2>8, <2>10, <3>1 DEF Kids
      <4> QED  BY <2>4, <3>1, <4>1 DEF rest, sib
    <3>2. CASE q # p
      BY <2>4, <2>8, <2>10, <2>14, <3>2 DEF Kids
    <3> QED  BY <3>1, <3>2
  <2> HIDE DEF e
  <2>15. e.view = w /\ e.ok = TRUE
    BY <2>1
  <2>16. ResultIn(e, I)
    BY <2>1, <2>13, <2>15 DEF ResultIn
  <2>17. Contains(Kids(v, Up(id)), id)
    BY <1>2, <2>4 DEF sib
  <2>18. Erased(v, w, id)
    BY <2>14 DEF Erased
  <2> QED  BY <1>2, <2>4, <2>15, <2>16, <2>17, <2>18 DEF e, v
<1> QED  BY <1>1, <1>2

\* The rounds of RemoveNode.
LEMMA RemoveNodeRounds ==
  ASSUME NEW r, NEW id, NEW half \in Nat, half = (Len(Kids(r.view, id)) + 1) \div 2
  PROVE  \E f : /\ f[0] = r
                /\ \A n \in 1 .. half : f[n] = EraseChild(f[n - 1], id, n)
                /\ RemoveNode(r, id) = EraseNode(f[half], id)
<1> DEFINE Pick(f, n) == IF n = 0 THEN r ELSE EraseChild(f[n - 1], id, n)
           F == CHOOSE f : f = [n \in 0 .. half |-> Pick(f, n)]
<1>1. F = [n \in 0 .. half |-> Pick(F, n)]
  <2> HIDE DEF Pick
  <2>1. PICK f : IsLoop(half, "RemoveNode", r, id, id, f)
    BY RoundsExist
  <2>2. \A n : Round("RemoveNode", r, id, id, f, n) = Pick(f, n)
    BY DEF Round, Pick
  <2>3. f = [n \in 0 .. half |-> Pick(f, n)]
    BY <2>1, <2>2 DEF IsLoop
  <2> QED  BY <2>3
<1>2. RemoveNode(r, id) = EraseNode(F[half], id)
  BY Zenon DEF RemoveNode
<1> HIDE DEF F
<1>3. F[0] = r
  BY <1>1
<1>4. ASSUME NEW n \in 1 .. half
      PROVE  F[n] = EraseChild(F[n - 1], id, n)
  <2>1. n \in 0 .. half /\ n # 0
    OBVIOUS
  <2>2. F[n] = Pick(F, n)
    BY <1>1, <2>1, Zenon
  <2> QED  BY <2>1, <2>2
<1> QED  BY <1>2, <1>3, <1>4

\* The rounds of RemoveNodes.
LEMMA RemoveNodesRounds ==
  ASSUME NEW v, NEW ids, Len(ids) \in Nat
  PROVE  \E f : /\ f[0] = [view |-> v, ok |-> TRUE]
                /\ \A n \in 1 .. Len(ids) : f[n] = RemoveNode(f[n - 1], ids[n])
                /\ RemoveNodes(v, ids) = f[Len(ids)]
<1> DEFINE c == [view |-> v, ok |-> TRUE]
           Pick(f, n) == IF n = 0 THEN c ELSE RemoveNode(f[n - 1], ids[n])
           F == CHOOSE f : f = [n \in 0 .. Len(ids) |-> Pick(f, n)]
<1>1. F = [n \in 0 .. Len(ids) |-> Pick(F, n)]
  <2> HIDE DEF Pick, c
  <2>1. PICK f : IsLoop(Len(ids), "RemoveNodes", c, ids, ids, f)
    BY RoundsExist
  <2>2. \A n : Round("RemoveNodes", c, ids, ids, f, n) = Pick(f, n)
    BY DEF Round, Pick
  <2>3. f = [n \in 0 .. Len(ids) |-> Pick(f, n)]
    BY <2>1, <2>2 DEF IsLoop
  <2> QED  BY <2>3
<1>2. RemoveNodes(v, ids) = F[Len(ids)]
  BY Zenon DEF RemoveNodes
<1> HIDE DEF F
<1>3. F[0] = c
  BY <1>1
<1>4. ASSUME NEW n \in 1 .. Len(ids)
      PROVE  F[n] = RemoveNode(F[n - 1], ids[n])
  <2>1. n \in 0 .. Len(ids) /\ n # 0
    OBVIOUS
  <2>2. F[n] = Pick(F, n)
    BY <1>1, <2>1, Zenon
  <2> QED  BY <2>1, <2>2
<1> QED  BY <1>2, <1>3, <1>4

\* The rows at the top of w are those of v without the removed ones.
Shrinks(v, w, removed) ==
  IsInjective(Kids(v, Root)) =>
    /\ IsInjective(Kids(w, Root))
    /\ ToSet(Kids(w, Root)) = ToSet(Kids(v, Root)) \ removed

\* Removing a node takes at most that row from the top; the loop over its children
\* leaves the top alone and stays inside the list it empties.
LEMMA RemoveNodeIn ==
  ASSUME NEW I, I \subseteq AllIds, NEW r, ResultIn(r, I), NEW id \in I
  PROVE  /\ ResultIn(RemoveNode(r, id), I)
         /\ RemoveNode(r, id).ok => r.ok /\ Shrinks(r.view, RemoveNode(r, id).view, {id})
<1> DEFINE L    == Len(Kids(r.view, id))
           half == (L + 1) \div 2
<1>1. L \in Nat /\ ViewIn(r.view, I)
  <2>1. ViewIn(r.view, I)
    BY DEF ResultIn
  <2>2. Kids(r.view, id) \in Seq(I)
    BY <2>1, KidsIn
  <2> QED  BY <2>1, <2>2
<1>2. half \in Nat /\ \A n \in 1 .. half : n <= L - (n - 1)
  <2> HIDE DEF L
  <2> QED  BY <1>1
<1>3. PICK f : /\ f[0] = r
               /\ \A n \in 1 .. half : f[n] = EraseChild(f[n - 1], id, n)
               /\ RemoveNode(r, id) = EraseNode(f[half], id)
  BY <1>2, RemoveNodeRounds
<1>4. id \in AllIds /\ id # Root
  BY IdShapes
<1> DEFINE Good(s, n) == /\ ResultIn(s, I)
                         /\ s.ok => /\ r.ok
                                    /\ Len(Kids(s.view, id)) >= L - n
                                    /\ Kids(s.view, Root) = Kids(r.view, Root)
           W == [n \in 0 .. half |-> {s \in {f[n]} : Good(s, n)}]
<1> HIDE DEF L, half
<1>5. f[0] \in W[0]
  <2>1. Good(r, 0)
    BY <1>1 DEF L
  <2> HIDE DEF Good
  <2> QED  BY <1>2, <1>3, <2>1
<1>6. ASSUME NEW n \in 1 .. half, f[n - 1] \in W[n - 1]
      PROVE  f[n] \in W[n]
  <2> DEFINE s == f[n - 1]
             x == Kids(s.view, id)[n]
             e == EraseNode(s, x)
  <2>1. n - 1 \in 0 .. half /\ n \in 0 .. half /\ n \in Nat /\ n - 1 \in Nat
    BY <1>2
  <2>2. Good(s, n - 1)
    BY <1>6, <2>1
  <2>3. f[n] = e
    BY <1>3 DEF EraseChild
  <2> HIDE DEF s, x
  <2>4. /\ ResultIn(e, I)
        /\ e.ok => /\ s.ok /\ x \in I /\ Contains(Kids(s.view, Up(x)), x)
                   /\ Erased(s.view, e.view, x)
    <3>1. ResultIn(s, I)
      BY <2>2
    <3> HIDE DEF Good
    <3> QED  BY <3>1, EraseIn
  <2>5. ASSUME e.ok
        PROVE  /\ r.ok
               /\ Len(Kids(e.view, id)) >= L - n
               /\ Kids(e.view, Root) = Kids(r.view, Root)
    <3> DEFINE k == Kids(s.view, id)
    <3>1. s.ok /\ r.ok /\ Len(k) >= L - (n - 1) /\ Kids(s.view, Root) = Kids(r.view, Root)
      BY <2>2, <2>4, <2>5
    <3>2. k \in Seq(I) /\ \A c \in ToSet(k) : Up(c) = id
      BY <2>2, KidsIn DEF ResultIn
    <3>3. n \in 1 .. Len(k)
      <4> HIDE DEF k
      <4> QED  BY <1>1, <1>2, <2>1, <3>1, <3>2
    <3>4. x \in ToSet(k) /\ Up(x) = id
      <4>1. x \in ToSet(k)
        BY <3>3 DEF ToSet, x
      <4> QED  BY <3>2, <4>1
    <3>5. x \in AllIds /\ x # id /\ x # Root
      BY <1>4, <2>4, <2>5, <3>4, IdShapes
    <3> HIDE DEF x, e
    <3>6. Kids(e.view, id) = RemoveFirst(k, x)
      BY <2>4, <2>5, <3>4, <3>5 DEF Erased
    <3>7. Kids(e.view, Root) = Kids(s.view, Root)
      BY <1>4, <2>4, <2>5, <3>4, <3>5 DEF Erased
    <3>8. Contains(k, x)
      BY <2>4, <2>5, <3>4
    <3> HIDE DEF k
    <3>9. Len(RemoveFirst(k, x)) = Len(k) - 1
      BY <3>2, <3>8, RemoveFirstFacts
    <3>10. Len(k) \in Nat
      BY <3>2
    <3>11. Len(Kids(e.view, id)) >= L - n
      BY <1>1, <2>1, <3>1, <3>6, <3>9, <3>10
    <3> QED  BY <3>1, <3>7, <3>11
  <2> HIDE DEF x, e
  <2>6. Good(e, n)
    BY <2>4, <2>5
  <2> HIDE DEF Good
  <2> QED  BY <2>1, <2>3, <2>6
<1>7. Good(f[half], half)
  <2>1. \A n \in 0 .. half : f[n] \in W[n]
    <3> HIDE DEF W
    <3> QED  BY <1>2, <1>5, <1>6, Rounds
  <2>2. f[half] \in W[half] /\ half \in 0 .. half
    BY <1>2, <2>1
  <2> HIDE DEF Good
  <2> QED  BY <2>2
<1> DEFINE s == f[half]
           e == EraseNode(s, id)
<1> HIDE DEF s
<1>8. /\ ResultIn(s, I) /\ ResultIn(e, I)
      /\ e.ok => /\ s.ok /\ id \in I /\ Contains(Kids(s.view, Up(id)), id)
                 /\ Erased(s.view, e.view, id)
  <2>1. ResultIn(s, I)
    BY <1>7 DEF s
  <2> HIDE DEF Good, W
  <2> QED  BY <2>1, EraseIn
<1> HIDE DEF e
<1>9. ASSUME e.ok
      PROVE  r.ok /\ Shrinks(r.view, e.view, {id})
  <2>1. s.ok /\ r.ok /\ Kids(s.view, Root) = Kids(r.view, Root)
    BY <1>7, <1>8, <1>9 DEF s
  <2> DEFINE k == Kids(r.view, Root)
  <2>2. Kids(e.view, Root) = IF Root = Up(id) THEN RemoveFirst(k, id) ELSE k
    BY <1>4, <1>8, <1>9, <2>1 DEF Erased
  <2>3. k \in Seq(I) /\ \A c \in ToSet(k) : Up(c) = Root
    BY <1>1, KidsIn
  <2>4. CASE Root = Up(id)
    <3>1. Contains(k, id)
      BY <1>8, <1>9, <2>1, <2>4
    <3> HIDE DEF k
    <3>2. IsInjective(k) => IsInjective(RemoveFirst(k, id)) /\ ToSet(RemoveFirst(k, id)) = ToSet(k) \ {id}
      BY <2>3, <3>1, RemoveFirstFacts
    <3> QED  BY <2>1, <2>2, <2>4, <3>2 DEF Shrinks, k
  <2>5. CASE Root # Up(id)
    <3>1. id \notin ToSet(k)
      BY <2>3, <2>5
    <3> HIDE DEF k
    <3>2. ToSet(k) = ToSet(k) \ {id}
      BY <3>1
    <3> QED  BY <2>1, <2>2, <2>5, <3>2 DEF Shrinks, k
  <2> QED  BY <2>4, <2>5
<1>10. RemoveNode(r, id) = e
  BY <1>3 DEF e, s
<1> QED  BY <1>8, <1>9, <1>10

\* Removing several nodes takes at most those rows from the top.
LEMMA RemoveNodesIn ==
  ASSUME NEW I, I \subseteq AllIds, NEW v, ViewIn(v, I), NEW ids \in Seq(I)
  PROVE  /\ ResultIn(RemoveNodes(v, ids), I)
         /\ RemoveNodes(v, ids).ok => Shrinks(v, RemoveNodes(v, ids).view, ToSet(ids))
<1> DEFINE First(n) == {ids[k] : k \in 1 .. n}
           Good(s, n) == ResultIn(s, I) /\ (s.ok => Shrinks(v, s.view, First(n)))
<1>1. Len(ids) \in Nat /\ DOMAIN ids = 1 .. Len(ids) /\ \A n \in 1 .. Len(ids) : ids[n] \in I
  OBVIOUS
<1>2. PICK f : /\ f[0] = [view |-> v, ok |-> TRUE]
               /\ \A n \in 1 .. Len(ids) : f[n] = RemoveNode(f[n - 1], ids[n])
               /\ RemoveNodes(v, ids) = f[Len(ids)]
  BY <1>1, RemoveNodesRounds
<1> DEFINE W == [n \in 0 .. Len(ids) |-> {s \in {f[n]} : Good(s, n)}]
<1>3. f[0] \in W[0]
  <2>1. f[0].view = v /\ f[0].ok = TRUE
    BY <1>2
  <2>2. ResultIn(f[0], I)
    BY <1>2, <2>1 DEF ResultIn
  <2>3. First(0) = {}
    OBVIOUS
  <2>4. Shrinks(v, v, {})
    BY DEF Shrinks
  <2>5. Good(f[0], 0)
    BY <2>1, <2>2, <2>3, <2>4
  <2> HIDE DEF Good
  <2> QED  BY <1>1, <2>5
<1>4. ASSUME NEW n \in 1 .. Len(ids), f[n - 1] \in W[n - 1]
      PROVE  f[n] \in W[n]
  <2> DEFINE s == f[n - 1]
             e == RemoveNode(s, ids[n])
  <2>1. n - 1 \in 0 .. Len(ids) /\ n \in 0 .. Len(ids) /\ ids[n] \in I
    BY <1>1
  <2>2. Good(s, n - 1)
    BY <1>4, <2>1
  <2>3. f[n] = e
    BY <1>2
  <2> HIDE DEF s
  <2>4. ResultIn(e, I) /\ (e.ok => s.ok /\ Shrinks(s.view, e.view, {ids[n]}))
    BY <2>1, <2>2, RemoveNodeIn
  <2> HIDE DEF e
  <2>5. First(n) = First(n - 1) \cup {ids[n]}
    <3>1. \A k : k \in 1 .. n <=> k \in 1 .. n - 1 \/ k = n
      BY <2>1
    <3> QED  BY <3>1
  <2>6. e.ok => Shrinks(v, e.view, First(n))
    <3> HIDE DEF First
    <3> QED  BY <2>2, <2>4, <2>5 DEF Shrinks
  <2>7. Good(e, n)
    BY <2>4, <2>6
  <2> HIDE DEF Good
  <2> QED  BY <2>1, <2>3, <2>7
<1>5. Good(f[Len(ids)], Len(ids))
  <2>1. \A n \in 0 .. Len(ids) : f[n] \in W[n]
    <3> HIDE DEF W
    <3> QED  BY <1>1, <1>3, <1>4, Rounds
  <2>2. f[Len(ids)] \in W[Len(ids)] /\ Len(ids) \in 0 .. Len(ids)
    <3> HIDE DEF W
    <3> QED  BY <1>1, <2>1
  <2> HIDE DEF Good
  <2> QED  BY <2>2
<1>6. First(Len(ids)) = ToSet(ids)
  BY <1>1 DEF ToSet
<1> QED  BY <1>2, <1>5, <1>6

----------------------------------------------------------------------------
(* Types: what is on its way, and the state. *)

WatchMethods == {"CreateWatch", "DeleteWatch", "ExpandWatch", "CollapseWatch"}
Stops        == {"OnStoppedAtBreakpoint", "OnStoppedAfterStepping"}

\* Requests about identifiers in I, of variables in T.
Requests(T, I) ==
  [method : Methods \ WatchMethods, id : {NoId}, name : {NoName}]
    \cup [method : {"ExpandWatch", "CollapseWatch"}, id : I, name : {NoName}]
    \cup [method : {"CreateWatch"}, id : T, name : LocalNames]
    \cup [method : {"DeleteWatch"}, id : T, name : {NoName}]

\* Notifications about identifiers in I and the first n stops.
Notifications(I, n) ==
  [event : Stops \cup {"OnRetrievedStack"}, at : 0 .. n]
    \cup [event : {"OnRetrievedLocals"}, names : Seq(LocalNames)]
    \cup [event : {"OnWatchCreated"}, id : I, hasChildren : BOOLEAN]
    \cup [event : {"OnWatchesUpdated"}, items : UNION {[X -> BOOLEAN] : X \in SUBSET I}]
    \cup UNION {[event : {"OnWatchChildList"}, parent : {id}, children : Seq(Below(I, id))] : id \in I}

\* The parts of TypeInv.
MapTyped ==
  /\ nextVariable \in Nat
  /\ localToBackend \in [DOMAIN localToBackend -> UsedIds]
  /\ DOMAIN localToBackend \subseteq LocalNames
ViewTyped == ViewIn(view, Ids) /\ buttons \subseteq Ids
ProgramTyped ==
  /\ program \in [state : {"none", "stopped"}, stops : Nat, scope : Seq(LocalNames), lastBreak : Nat]
  /\ program.lastBreak <= program.stops
  /\ objects \in [DOMAIN objects -> LocalNames] /\ DOMAIN objects \subseteq Ids
QueuesTyped ==
  /\ toGdb \in Seq(Requests(UsedIds, Ids))
  /\ toUI \in Seq(Notifications(Ids, program.stops))
  /\ loads \in Seq(StopNumbers)
FlagsTyped ==
  /\ connected \in BOOLEAN /\ running \in BOOLEAN
  /\ shown \in [{"line", "stack", "file"} -> StopNumbers]
  /\ failed \in {"none", "SetNodeData", "RemoveNode", "Button"}

\* The inductive invariant for TypeOK.
TypeInv == MapTyped /\ ViewTyped /\ ProgramTyped /\ QueuesTyped /\ FlagsTyped

----------------------------------------------------------------------------
\* The identifiers change with the counter only.
LEMMA SameIds ==
  ASSUME nextVariable' = nextVariable
  PROVE  UsedIds' = UsedIds /\ Ids' = Ids
BY DEF UsedIds, Ids

\* What each kind of request carries.
LEMMA Requested ==
  ASSUME NEW T, NEW I, NEW r \in Requests(T, I)
  PROVE  /\ r = [method |-> r.method, id |-> r.id, name |-> r.name]
         /\ r.method \in Methods
         /\ r.id \in T \cup I \cup {NoId}
         /\ r.method \in WatchMethods => r.id \in T \cup I
         /\ r.method \in {"ExpandWatch", "CollapseWatch"} => r.id \in I
         /\ r.method = "CreateWatch" => r.id \in T /\ r.name \in LocalNames
         /\ r.method = "DeleteWatch" => r.id \in T /\ r = WatchRequest("DeleteWatch", r.id)
<1>1. Methods = {"EnablePrettyPrinting", "SetDebugNotification", "LoadProcess", "RunToMain", "Continue",
                 "StepOver", "StepIn", "StepOut", "GetStack", "GetLocals", "UpdateWatches", "ExpandWatch",
                 "CollapseWatch", "CreateWatch", "DeleteWatch", "StopDebugging"}
  BY DEF Methods, Operations
<1>2. CASE r \in [method : Methods \ WatchMethods, id : {NoId}, name : {NoName}]
  BY <1>2 DEF WatchMethods
<1>3. CASE r \in [method : {"ExpandWatch", "CollapseWatch"}, id : I, name : {NoName}]
  BY <1>1, <1>3
<1>4. CASE r \in [method : {"CreateWatch"}, id : T, name : LocalNames]
  BY <1>1, <1>4
<1>5. CASE r \in [method : {"DeleteWatch"}, id : T, name : {NoName}]
  BY <1>1, <1>5 DEF WatchRequest, Request
<1> QED  BY <1>2, <1>3, <1>4, <1>5 DEF Requests

\* Requests are such.
LEMMA RequestShapes ==
  ASSUME NEW T, NEW I
  PROVE  /\ \A m \in Methods \ WatchMethods : Request(m) \in Requests(T, I)
         /\ \A id \in I, b \in BOOLEAN : SetWatchExpanded(id, b) \in Requests(T, I)
         /\ \A id \in T, n \in LocalNames : CreateWatch(id, n) \in Requests(T, I)
         /\ \A id \in T : WatchRequest("DeleteWatch", id) \in Requests(T, I)
<1>1. ASSUME NEW m \in Methods \ WatchMethods PROVE Request(m) \in Requests(T, I)
  BY DEF Requests, Request
<1>2. ASSUME NEW id \in I, NEW b \in BOOLEAN PROVE SetWatchExpanded(id, b) \in Requests(T, I)
  <2>1. SetWatchExpanded(id, b) = [method |-> IF b THEN "ExpandWatch" ELSE "CollapseWatch", id |-> id, name |-> NoName]
    BY DEF SetWatchExpanded, WatchRequest, Request
  <2> QED  BY <2>1 DEF Requests
<1>3. ASSUME NEW id \in T, NEW n \in LocalNames PROVE CreateWatch(id, n) \in Requests(T, I)
  <2> DEFINE w == WatchRequest("CreateWatch", id)
  <2>a. w = [method |-> "CreateWatch", id |-> id, name |-> NoName]
    BY DEF WatchRequest, Request
  <2> HIDE DEF w
  <2>b. [w EXCEPT !.name = n] = [method |-> "CreateWatch", id |-> id, name |-> n]
    BY <2>a
  <2>1. CreateWatch(id, n) = [method |-> "CreateWatch", id |-> id, name |-> n]
    BY <2>b DEF CreateWatch, w
  <2> QED  BY <2>1 DEF Requests
<1>4. ASSUME NEW id \in T PROVE WatchRequest("DeleteWatch", id) \in Requests(T, I)
  <2>1. WatchRequest("DeleteWatch", id) = [method |-> "DeleteWatch", id |-> id, name |-> NoName]
    BY DEF WatchRequest, Request
  <2> QED  BY <2>1 DEF Requests
<1> QED  BY <1>1, <1>2, <1>3, <1>4

\* What each kind of notification carries.
LEMMA Notified ==
  ASSUME NEW I, NEW n, NEW m \in Notifications(I, n)
  PROVE  /\ m.event \in Stops \cup {"OnRetrievedStack"} => m.at \in 0 .. n
         /\ m.event = "OnRetrievedLocals" => m.names \in Seq(LocalNames)
         /\ m.event = "OnWatchCreated" => m.id \in I /\ m.hasChildren \in BOOLEAN
         /\ m.event = "OnWatchChildList" => m.parent \in I /\ m.children \in Seq(Below(I, m.parent))
<1>1. CASE m \in [event : Stops \cup {"OnRetrievedStack"}, at : 0 .. n]
  BY <1>1 DEF Stops
<1>2. CASE m \in [event : {"OnRetrievedLocals"}, names : Seq(LocalNames)]
  BY <1>2 DEF Stops
<1>3. CASE m \in [event : {"OnWatchCreated"}, id : I, hasChildren : BOOLEAN]
  BY <1>3 DEF Stops
<1>4. CASE m \in [event : {"OnWatchesUpdated"}, items : UNION {[X -> BOOLEAN] : X \in SUBSET I}]
  BY <1>4 DEF Stops
<1>5. CASE \E id \in I : m \in [event : {"OnWatchChildList"}, parent : {id}, children : Seq(Below(I, id))]
  <2> PICK id \in I : m \in [event : {"OnWatchChildList"}, parent : {id}, children : Seq(Below(I, id))]
    BY <1>5
  <2> QED  BY DEF Stops
<1> QED  BY <1>1, <1>2, <1>3, <1>4, <1>5 DEF Notifications

\* With more identifiers, the requests on their way still fit.
LEMMA RequestsMore ==
  ASSUME NEW I, NEW J, I \subseteq J, NEW T, NEW U, T \subseteq U
  PROVE  /\ Requests(T, I) \subseteq Requests(U, J)
         /\ \A q \in Seq(Requests(T, I)) : q \in Seq(Requests(U, J))
<1>1. Requests(T, I) \subseteq Requests(U, J)
  BY DEF Requests
<1> QED  BY <1>1

\* With more identifiers or stops, so do the notifications.
LEMMA NotificationsMore ==
  ASSUME NEW I, NEW J, I \subseteq J, NEW n \in Nat, NEW k \in Nat, n <= k
  PROVE  /\ Notifications(I, n) \subseteq Notifications(J, k)
         /\ \A q \in Seq(Notifications(I, n)) : q \in Seq(Notifications(J, k))
<1>1. ASSUME NEW m \in Notifications(I, n)
      PROVE  m \in Notifications(J, k)
  <2>1. CASE m \in [event : Stops \cup {"OnRetrievedStack"}, at : 0 .. n]
    BY <2>1 DEF Notifications
  <2>2. CASE m \in [event : {"OnRetrievedLocals"}, names : Seq(LocalNames)]
    BY <2>2 DEF Notifications
  <2>3. CASE m \in [event : {"OnWatchCreated"}, id : I, hasChildren : BOOLEAN]
    BY <2>3 DEF Notifications
  <2>4. CASE m \in [event : {"OnWatchesUpdated"}, items : UNION {[X -> BOOLEAN] : X \in SUBSET I}]
    <3>1. UNION {[X -> BOOLEAN] : X \in SUBSET I} \subseteq UNION {[X -> BOOLEAN] : X \in SUBSET J}
      OBVIOUS
    <3> QED  BY <2>4, <3>1 DEF Notifications
  <2>5. CASE \E id \in I : m \in [event : {"OnWatchChildList"}, parent : {id}, children : Seq(Below(I, id))]
    <3> PICK id \in I : m \in [event : {"OnWatchChildList"}, parent : {id}, children : Seq(Below(I, id))]
      BY <2>5
    <3>1. Below(I, id) \subseteq Below(J, id) /\ id \in J
      BY DEF Below
    <3>2. Seq(Below(I, id)) \subseteq Seq(Below(J, id))
      BY <3>1
    <3>3. m \in [event : {"OnWatchChildList"}, parent : {id}, children : Seq(Below(J, id))]
      BY <3>2
    <3> QED  BY <3>1, <3>3 DEF Notifications
  <2> QED  BY <2>1, <2>2, <2>3, <2>4, <2>5 DEF Notifications
<1> QED  BY <1>1

----------------------------------------------------------------------------
(* OnRetrievedLocals, part by part. *)

Known(names) ==
  [n \in DOMAIN localToBackend \cup ToSet(FreshNames(names)) |->
     IF n \in DOMAIN localToBackend THEN localToBackend[n]
     ELSE NewIds(FreshNames(names))[CHOOSE k \in DOMAIN FreshNames(names) : FreshNames(names)[k] = n]]
Added(names)  == AddChildren(view, Root, NewIds(FreshNames(names)))
Active(names) == {Known(names)[n] : n \in ToSet(names)}
Gone(names)   == Inactive(Kids(Added(names), Root), Active(names))
Result(names) == RemoveNodes(Added(names), Gone(names))
Created(names) ==
  [k \in DOMAIN FreshNames(names) |-> CreateWatch(NewIds(FreshNames(names))[k], FreshNames(names)[k])]

\* The handler is made of these parts.
LEMMA LocalsAction ==
  ASSUME OnRetrievedLocals
  PROVE  /\ Receive("OnRetrievedLocals")
         /\ view' = Result(Head(toUI).names).view
         /\ failed' = IF Result(Head(toUI).names).ok THEN "none" ELSE "RemoveNode"
         /\ localToBackend' = Forget(Known(Head(toUI).names), Gone(Head(toUI).names))
         /\ nextVariable' = nextVariable + Len(FreshNames(Head(toUI).names))
         /\ Post(Created(Head(toUI).names) \o DeleteWatches(Gone(Head(toUI).names)))
         /\ UNCHANGED <<connected, running, shown, buttons, loads, gdbVars, inputVars>>
BY Zenon DEF OnRetrievedLocals, Known, Added, Active, Gone, Result, Created

\* The fresh names are those without a watch, each once.
LEMMA FreshFacts ==
  ASSUME NEW names \in Seq(LocalNames)
  PROVE  /\ FreshNames(names) \in Seq(LocalNames)
         /\ ToSet(FreshNames(names)) = ToSet(names) \ DOMAIN localToBackend
         /\ IsInjective(FreshNames(names))
<1> DEFINE P == {k \in DOMAIN names : /\ names[k] \notin DOMAIN localToBackend
                                      /\ \A j \in 1 .. (k - 1) : names[j] # names[k]}
<1>1. FreshNames(names) = Chosen(names, P)
  BY DEF FreshNames
<1>2. Len(names) \in Nat /\ DOMAIN names = 1 .. Len(names)
  OBVIOUS
<1>3. ASSUME NEW x \in ToSet(names) \ DOMAIN localToBackend
      PROVE  \E k \in P : names[k] = x
  <2> DEFINE T == {k \in DOMAIN names : names[k] = x}
  <2>1. T \in SUBSET Nat /\ T # {}
    BY <1>2 DEF ToSet
  <2>2. PICK k \in T : \A j \in T : k <= j
    <3> HIDE DEF T
    <3> QED  BY <2>1, LeastNat
  <2>3. \A j \in 1 .. (k - 1) : names[j] # names[k]
    BY <1>2, <2>2
  <2> QED  BY <2>2, <2>3
<1>4. \A j, k \in DOMAIN names : j \in P /\ k \in P /\ names[j] = names[k] => j = k
  BY <1>2
<1>5. {names[k] : k \in {j \in DOMAIN names : j \in P}} = ToSet(names) \ DOMAIN localToBackend
  <2>1. {names[k] : k \in {j \in DOMAIN names : j \in P}} \subseteq ToSet(names) \ DOMAIN localToBackend
    BY DEF ToSet
  <2> QED  BY <1>3, <2>1
<1> HIDE DEF P
<1> QED  BY <1>1, <1>4, <1>5, ChosenElements

\* Identifiers for them: new ones, each once.
LEMMA NewIdFacts ==
  ASSUME nextVariable \in Nat, NEW S, NEW fresh \in Seq(S)
  PROVE  /\ nextVariable + Len(fresh) \in Nat
         /\ NewIds(fresh) \in Seq(TopsTo(nextVariable + Len(fresh)))
         /\ DOMAIN NewIds(fresh) = DOMAIN fresh /\ DOMAIN fresh = 1 .. Len(fresh)
         /\ Len(NewIds(fresh)) = Len(fresh)
         /\ \A k \in DOMAIN fresh : NewIds(fresh)[k] = <<nextVariable + k - 1>> /\ NewIds(fresh)[k] \notin Ids
         /\ IsInjective(NewIds(fresh))
<1> DEFINE ids == NewIds(fresh)
           n   == Len(fresh)
<1>1. n \in Nat /\ DOMAIN fresh = 1 .. n
  OBVIOUS
<1> HIDE DEF n
<1>2. ids = [k \in 1 .. n |-> <<nextVariable + k - 1>>]
  BY <1>1 DEF NewIds
<1> HIDE DEF ids
<1>3. ASSUME NEW k \in 1 .. n
      PROVE  ids[k] \in TopsTo(nextVariable + n) /\ ids[k] \notin Ids /\ ids[k] = <<nextVariable + k - 1>>
             /\ ids[k][1] = nextVariable + k - 1
  <2>1. ids[k] = <<nextVariable + k - 1>> /\ nextVariable + k - 1 \in Nat
    BY <1>1, <1>2
  <2>2. ids[k][1] = nextVariable + k - 1
    BY <2>1
  <2>3. ids[k] \in Tops
    BY <2>1 DEF Tops
  <2>4. ids[k][1] < nextVariable + n /\ ~(ids[k][1] < nextVariable)
    BY <1>1, <2>2
  <2>5. ids[k] \notin Ids
    BY <2>4, UsedShapes DEF IdsTo
  <2> QED  BY <2>1, <2>2, <2>3, <2>4, <2>5 DEF TopsTo
<1>4. ids \in Seq(TopsTo(nextVariable + n)) /\ DOMAIN ids = 1 .. n /\ Len(ids) = n
  <2> DEFINE T == TopsTo(nextVariable + n)
  <2>1. \A k \in 1 .. n : ids[k] \in T
    BY <1>3
  <2> HIDE DEF T
  <2>2. ids \in [1 .. n -> T]
    BY <1>2, <2>1
  <2>3. ids \in Seq(T) /\ DOMAIN ids = 1 .. n /\ Len(ids) = n
    BY <1>1, <2>2
  <2> QED  BY <2>3 DEF T
<1>5. IsInjective(ids)
  <2> SUFFICES ASSUME NEW j \in 1 .. n, NEW k \in 1 .. n, ids[j] = ids[k] PROVE j = k
    BY <1>4 DEF IsInjective
  <2> QED  BY <1>1, <1>3
<1> QED  BY <1>1, <1>3, <1>4, <1>5 DEF ids, n

\* The map with the new names.
LEMMA KnownFacts ==
  ASSUME MapTyped, NEW names \in Seq(LocalNames)
  PROVE  /\ DOMAIN Known(names) = DOMAIN localToBackend \cup ToSet(names)
         /\ \A n \in DOMAIN localToBackend : Known(names)[n] = localToBackend[n]
         /\ \A k \in DOMAIN FreshNames(names) :
              Known(names)[FreshNames(names)[k]] = NewIds(FreshNames(names))[k]
         /\ Range(Known(names)) = Range(localToBackend) \cup ToSet(NewIds(FreshNames(names)))
         /\ IsInjective(localToBackend) => IsInjective(Known(names))
<1> DEFINE fresh == FreshNames(names)
           ids   == NewIds(fresh)
           known == Known(names)
<1>1. fresh \in Seq(LocalNames) /\ ToSet(fresh) = ToSet(names) \ DOMAIN localToBackend /\ IsInjective(fresh)
  BY FreshFacts
<1>2. /\ DOMAIN ids = DOMAIN fresh /\ IsInjective(ids)
      /\ \A k \in DOMAIN fresh : ids[k] \notin Ids
  <2> HIDE DEF fresh
  <2> QED  BY <1>1, NewIdFacts DEF MapTyped
<1>3. known = [n \in DOMAIN localToBackend \cup ToSet(fresh) |->
                 IF n \in DOMAIN localToBackend THEN localToBackend[n]
                 ELSE ids[CHOOSE k \in DOMAIN fresh : fresh[k] = n]]
  BY Zenon DEF Known
<1> HIDE DEF known, ids, fresh
<1>4. DOMAIN known = DOMAIN localToBackend \cup ToSet(fresh)
  BY <1>3
<1>5. \A n \in DOMAIN localToBackend : known[n] = localToBackend[n]
  BY <1>3
<1>6. ASSUME NEW k \in DOMAIN fresh
      PROVE  known[fresh[k]] = ids[k] /\ fresh[k] \in ToSet(fresh) /\ fresh[k] \notin DOMAIN localToBackend
  <2>1. fresh[k] \in ToSet(fresh)
    BY DEF ToSet
  <2>2. fresh[k] \notin DOMAIN localToBackend
    BY <1>1, <2>1
  <2>3. (CHOOSE j \in DOMAIN fresh : fresh[j] = fresh[k]) = k
    BY <1>1 DEF IsInjective
  <2>4. known[fresh[k]] = ids[CHOOSE j \in DOMAIN fresh : fresh[j] = fresh[k]]
    BY <1>3, <2>1, <2>2
  <2> QED  BY <2>1, <2>2, <2>3, <2>4
<1>7. \A n \in ToSet(fresh) : \E k \in DOMAIN fresh : n = fresh[k]
  BY DEF ToSet
<1>8. Range(known) = Range(localToBackend) \cup ToSet(ids)
  <2>1. ASSUME NEW y \in Range(known) PROVE y \in Range(localToBackend) \cup ToSet(ids)
    <3> PICK n \in DOMAIN known : y = known[n]
      BY DEF Range
    <3>1. CASE n \in DOMAIN localToBackend
      BY <1>5, <3>1 DEF Range
    <3>2. CASE n \in ToSet(fresh)
      <4> PICK k \in DOMAIN fresh : n = fresh[k]
        BY <1>7, <3>2
      <4> QED  BY <1>2, <1>6 DEF ToSet
    <3> QED  BY <1>4, <3>1, <3>2
  <2>2. ASSUME NEW y \in Range(localToBackend) PROVE y \in Range(known)
    BY <1>4, <1>5 DEF Range
  <2>3. ASSUME NEW y \in ToSet(ids) PROVE y \in Range(known)
    <3> PICK k \in DOMAIN fresh : y = ids[k]
      BY <1>2 DEF ToSet
    <3> QED  BY <1>4, <1>6 DEF Range
  <2> QED  BY <2>1, <2>2, <2>3
<1>9. ASSUME IsInjective(localToBackend)
      PROVE  IsInjective(known)
  <2> SUFFICES ASSUME NEW m \in DOMAIN known, NEW n \in DOMAIN known, known[m] = known[n]
               PROVE  m = n
    BY DEF IsInjective
  <2>1. \A x \in DOMAIN localToBackend : known[x] \in Ids
    BY <1>5 DEF MapTyped, Ids
  <2>2. \A x \in ToSet(fresh) : known[x] \notin Ids
    BY <1>2, <1>6, <1>7
  <2>3. CASE m \in DOMAIN localToBackend /\ n \in DOMAIN localToBackend
    BY <1>5, <1>9, <2>3 DEF IsInjective
  <2>4. CASE m \in ToSet(fresh) /\ n \in ToSet(fresh)
    <3> PICK j \in DOMAIN fresh : m = fresh[j]
      BY <1>7, <2>4
    <3> PICK k \in DOMAIN fresh : n = fresh[k]
      BY <1>7, <2>4
    <3>1. ids[j] = ids[k]
      BY <1>6
    <3> QED  BY <1>2, <3>1 DEF IsInjective
  <2> QED  BY <1>4, <2>1, <2>2, <2>3, <2>4
<1> QED  BY <1>1, <1>4, <1>5, <1>6, <1>8, <1>9 DEF known, ids, fresh

\* Joining sequences.
LEMMA JoinFacts ==
  ASSUME NEW S, NEW s \in Seq(S), NEW t \in Seq(S)
  PROVE  /\ s \o t \in Seq(S)
         /\ ToSet(s \o t) = ToSet(s) \cup ToSet(t)
         /\ IsInjective(s) /\ IsInjective(t) /\ ToSet(s) \cap ToSet(t) = {} => IsInjective(s \o t)
<1> DEFINE u == s \o t
<1>1. /\ u \in Seq(S) /\ Len(u) = Len(s) + Len(t) /\ Len(s) \in Nat /\ Len(t) \in Nat
      /\ DOMAIN u = 1 .. Len(s) + Len(t) /\ DOMAIN s = 1 .. Len(s) /\ DOMAIN t = 1 .. Len(t)
      /\ \A k \in 1 .. Len(s) : u[k] = s[k]
      /\ \A k \in 1 .. Len(t) : u[Len(s) + k] = t[k]
  OBVIOUS
<1> HIDE DEF u
<1>2. \A k \in DOMAIN u : \/ k \in 1 .. Len(s)
                          \/ \E j \in 1 .. Len(t) : k = Len(s) + j
  <2> SUFFICES ASSUME NEW k \in DOMAIN u, k \notin 1 .. Len(s)
               PROVE  \E j \in 1 .. Len(t) : k = Len(s) + j
    OBVIOUS
  <2>1. k - Len(s) \in 1 .. Len(t) /\ k = Len(s) + (k - Len(s))
    BY <1>1
  <2> QED  BY <2>1
<1>3. \A k \in 1 .. Len(s) : k \in DOMAIN u
  BY <1>1
<1>4. \A k \in 1 .. Len(t) : Len(s) + k \in DOMAIN u
  BY <1>1
<1>5. ToSet(u) \subseteq ToSet(s) \cup ToSet(t)
  <2> SUFFICES ASSUME NEW k \in DOMAIN u PROVE u[k] \in ToSet(s) \cup ToSet(t)
    BY DEF ToSet
  <2>1. CASE k \in 1 .. Len(s)
    BY <1>1, <2>1 DEF ToSet
  <2>2. CASE \E j \in 1 .. Len(t) : k = Len(s) + j
    BY <1>1, <2>2 DEF ToSet
  <2> QED  BY <1>2, <2>1, <2>2
<1>6. ToSet(s) \cup ToSet(t) \subseteq ToSet(u)
  BY <1>1, <1>3, <1>4 DEF ToSet
<1>7. ASSUME IsInjective(s), IsInjective(t), ToSet(s) \cap ToSet(t) = {}
      PROVE  IsInjective(u)
  <2> SUFFICES ASSUME NEW j \in DOMAIN u, NEW k \in DOMAIN u, u[j] = u[k] PROVE j = k
    BY DEF IsInjective
  <2>1. \A i \in 1 .. Len(s) : u[i] \in ToSet(s)
    BY <1>1 DEF ToSet
  <2>2. \A i \in 1 .. Len(t) : u[Len(s) + i] \in ToSet(t)
    BY <1>1 DEF ToSet
  <2>3. CASE j \in 1 .. Len(s) /\ k \in 1 .. Len(s)
    BY <1>1, <1>7, <2>3 DEF IsInjective
  <2>4. CASE j \notin 1 .. Len(s) /\ k \notin 1 .. Len(s)
    <3>1. PICK a \in 1 .. Len(t) : j = Len(s) + a
      BY <1>2, <2>4
    <3>2. PICK b \in 1 .. Len(t) : k = Len(s) + b
      BY <1>2, <2>4
    <3>3. t[a] = t[b]
      BY <1>1, <3>1, <3>2
    <3>4. a = b
      BY <1>1, <1>7, <3>3 DEF IsInjective
    <3> QED  BY <3>1, <3>2, <3>4
  <2> QED  BY <1>2, <1>7, <2>1, <2>2, <2>3, <2>4
<1> QED  BY <1>1, <1>5, <1>6, <1>7 DEF u

\* There are more of them when the counter grows.
LEMMA GrowingIds ==
  ASSUME NEW m \in Nat, NEW n \in Nat, m <= n
  PROVE  /\ TopsTo(m) \subseteq TopsTo(n) /\ IdsTo(m) \subseteq IdsTo(n)
         /\ TopsTo(n) = Below(IdsTo(n), Root)
         /\ TopsTo(n) \subseteq IdsTo(n) /\ IdsTo(n) \subseteq AllIds
<1>1. \A id \in AllIds : id[1] \in Nat
  <2> SUFFICES ASSUME NEW id \in AllIds PROVE id[1] \in Nat
    OBVIOUS
  <2>1. CASE id \in Tops
    BY <2>1, IdShapes
  <2>2. CASE id \notin Tops
    <3>1. PICK top \in Tops, f \in FieldNumbers : id = Append(top, f)
      BY <2>2 DEF AllIds
    <3> QED  BY <3>1, IdShapes
  <2> QED  BY <2>1, <2>2
<1>2. \A id \in AllIds : Up(id) = Root <=> id \in Tops
  BY IdShapes
<1>3. Tops \subseteq AllIds
  BY DEF AllIds
<1>4. TopsTo(m) \subseteq TopsTo(n)
  BY <1>1, <1>3 DEF TopsTo
<1>5. IdsTo(m) \subseteq IdsTo(n)
  BY <1>1 DEF IdsTo
<1>6. TopsTo(n) = Below(IdsTo(n), Root)
  BY <1>2, <1>3 DEF TopsTo, IdsTo, Below
<1>7. TopsTo(n) \subseteq IdsTo(n) /\ IdsTo(n) \subseteq AllIds
  BY <1>3 DEF TopsTo, IdsTo
<1> QED  BY <1>4, <1>5, <1>6, <1>7

\* The counter after the handler.
Counter(names) == nextVariable + Len(FreshNames(names))

\* The view with the new rows.
LEMMA AddedFacts ==
  ASSUME MapTyped, ViewIn(view, Ids), NEW names \in Seq(LocalNames)
  PROVE  /\ Counter(names) \in Nat /\ nextVariable <= Counter(names)
         /\ ViewIn(view, IdsTo(Counter(names)))
         /\ ViewIn(Added(names), IdsTo(Counter(names)))
         /\ Kids(Added(names), Root) = Kids(view, Root) \o NewIds(FreshNames(names))
         /\ NewIds(FreshNames(names)) \in Seq(TopsTo(Counter(names)))
         /\ Kids(view, Root) \in Seq(TopsTo(Counter(names)))
<1> DEFINE fresh == FreshNames(names)
           ids   == NewIds(fresh)
           m     == Counter(names)
<1>1. nextVariable \in Nat
  BY DEF MapTyped
<1>2. fresh \in Seq(LocalNames)
  BY FreshFacts
<1>3. m \in Nat /\ nextVariable <= m /\ ids \in Seq(TopsTo(m))
  <2>1. nextVariable + Len(fresh) \in Nat /\ ids \in Seq(TopsTo(nextVariable + Len(fresh)))
    <3> HIDE DEF fresh
    <3> QED  BY <1>1, <1>2, NewIdFacts
  <2>2. Len(fresh) \in Nat
    <3> HIDE DEF fresh
    <3> QED  BY <1>2
  <2> HIDE DEF ids
  <2> QED  BY <1>1, <2>1, <2>2 DEF Counter
<1> HIDE DEF m, ids
<1>4. ViewIn(view, IdsTo(m))
  <2>1. Ids \subseteq IdsTo(m)
    BY <1>1, <1>3, UsedShapes, GrowingIds
  <2> QED  BY <2>1, ViewInMore
<1>5. TopsTo(m) = Below(IdsTo(m), Root)
  BY <1>3, GrowingIds
<1>6. ids \in Seq(Below(IdsTo(m), Root)) /\ Kids(view, Root) \in Seq(TopsTo(m))
  BY <1>3, <1>4, <1>5, KidsIn
<1>7. /\ ViewIn(AddChildren(view, Root, ids), IdsTo(m))
      /\ \A q : Kids(AddChildren(view, Root, ids), q) =
           IF q = Root THEN Kids(view, Root) \o ids ELSE Kids(view, q)
  BY <1>4, <1>6, AddIn
<1>8. Added(names) = AddChildren(view, Root, ids)
  BY DEF Added, ids
<1>9. Kids(Added(names), Root) = Kids(view, Root) \o ids
  BY <1>7, <1>8
<1>10. ViewIn(Added(names), IdsTo(m))
  BY <1>7, <1>8
<1> QED  BY <1>3, <1>4, <1>6, <1>9, <1>10 DEF m, ids

\* The rows that go, and the view without them.
LEMMA GoneFacts ==
  ASSUME MapTyped, ViewIn(view, Ids), NEW names \in Seq(LocalNames)
  PROVE  /\ Gone(names) \in Seq(TopsTo(Counter(names)))
         /\ ToSet(Gone(names)) = ToSet(Kids(Added(names), Root)) \ Active(names)
         /\ IsInjective(Kids(Added(names), Root)) => IsInjective(Gone(names))
         /\ ResultIn(Result(names), IdsTo(Counter(names)))
         /\ Result(names).ok => Shrinks(Added(names), Result(names).view, ToSet(Gone(names)))
<1> DEFINE m     == Counter(names)
           added == Added(names)
           rows  == Kids(added, Root)
           act   == Active(names)
           P     == {k \in DOMAIN rows : rows[k] \notin act}
           gone  == Gone(names)
<1>1. m \in Nat /\ ViewIn(added, IdsTo(m))
  BY AddedFacts
<1>2. TopsTo(m) = Below(IdsTo(m), Root) /\ TopsTo(m) \subseteq IdsTo(m) /\ IdsTo(m) \subseteq AllIds
  <2> HIDE DEF m
  <2> QED  BY <1>1, GrowingIds
<1>3. rows \in Seq(TopsTo(m))
  <2> HIDE DEF m, added
  <2> QED  BY <1>1, <1>2, KidsIn
<1>4. gone = Chosen(rows, P)
  BY DEF Gone, Inactive
<1> HIDE DEF rows, act, gone, m
<1>5. /\ gone \in Seq(TopsTo(m))
      /\ ToSet(gone) = {rows[k] : k \in {j \in DOMAIN rows : j \in P}}
      /\ (\A j, k \in DOMAIN rows : j \in P /\ k \in P /\ rows[j] = rows[k] => j = k)
           => IsInjective(gone)
  <2> HIDE DEF P
  <2> QED  BY <1>3, <1>4, ChosenElements
<1>6. ToSet(gone) = ToSet(rows) \ act
  BY <1>5 DEF ToSet
<1>7. IsInjective(rows) => IsInjective(gone)
  BY <1>5 DEF IsInjective
<1>8. gone \in Seq(IdsTo(m))
  BY <1>2, <1>5
<1>9. Result(names) = RemoveNodes(added, gone)
  BY DEF Result, gone
<1> HIDE DEF added
<1>10. /\ ResultIn(RemoveNodes(added, gone), IdsTo(m))
       /\ RemoveNodes(added, gone).ok => Shrinks(added, RemoveNodes(added, gone).view, ToSet(gone))
  BY <1>1, <1>2, <1>8, RemoveNodesIn
<1>11. ResultIn(Result(names), IdsTo(m))
  BY <1>9, <1>10
<1>12. Result(names).ok => Shrinks(added, Result(names).view, ToSet(gone))
  BY <1>9, <1>10
<1> QED  BY <1>5, <1>6, <1>7, <1>11, <1>12 DEF rows, act, gone, m, added

\* Forgetting keeps the rest of the map.
LEMMA ForgetFacts ==
  ASSUME NEW map, NEW ids
  PROVE  /\ DOMAIN Forget(map, ids) = {n \in DOMAIN map : map[n] \notin ToSet(ids)}
         /\ \A n \in DOMAIN Forget(map, ids) : Forget(map, ids)[n] = map[n]
         /\ IsInjective(map) => IsInjective(Forget(map, ids))
<1>1. /\ DOMAIN Forget(map, ids) = {n \in DOMAIN map : map[n] \notin ToSet(ids)}
      /\ \A n \in DOMAIN Forget(map, ids) : Forget(map, ids)[n] = map[n]
  BY DEF Forget
<1> QED  BY <1>1 DEF IsInjective

\* The map and the rows at the top of the view agree.
MapAgrees ==
  /\ IsInjective(localToBackend)
  /\ IsInjective(Kids(view, Root))
  /\ ToSet(Kids(view, Root)) = Range(localToBackend)

\* When they agreed, they do after the handler, on the names of the notification.
LEMMA LocalsMap ==
  ASSUME MapTyped, ViewIn(view, Ids), MapAgrees, NEW names \in Seq(LocalNames)
  PROVE  /\ ToSet(Gone(names)) = Range(localToBackend) \ Active(names)
         /\ IsInjective(Gone(names))
         /\ DOMAIN Forget(Known(names), Gone(names)) = ToSet(names)
         /\ Range(Forget(Known(names), Gone(names))) = Active(names)
         /\ IsInjective(Forget(Known(names), Gone(names)))
         /\ Result(names).ok => /\ IsInjective(Kids(Result(names).view, Root))
                                /\ ToSet(Kids(Result(names).view, Root)) = Active(names)
<1> DEFINE fresh == FreshNames(names)
           ids   == NewIds(fresh)
           known == Known(names)
           old   == Kids(view, Root)
           rows  == Kids(Added(names), Root)
           act   == Active(names)
           gone  == Gone(names)
           map   == Forget(known, gone)
           m     == Counter(names)
<1>1. rows = old \o ids /\ ids \in Seq(TopsTo(m)) /\ old \in Seq(TopsTo(m)) /\ nextVariable \in Nat
  BY AddedFacts DEF MapTyped
<1>2. /\ DOMAIN known = DOMAIN localToBackend \cup ToSet(names)
      /\ \A n \in DOMAIN localToBackend : known[n] = localToBackend[n]
      /\ \A k \in DOMAIN fresh : known[fresh[k]] = ids[k]
      /\ Range(known) = Range(localToBackend) \cup ToSet(ids)
      /\ IsInjective(known)
  BY KnownFacts DEF MapAgrees
<1>3. /\ fresh \in Seq(LocalNames) /\ IsInjective(fresh)
      /\ ToSet(fresh) = ToSet(names) \ DOMAIN localToBackend
  BY FreshFacts
<1>4. IsInjective(ids) /\ DOMAIN ids = DOMAIN fresh /\ \A k \in DOMAIN fresh : ids[k] \notin Ids
  <2> HIDE DEF fresh
  <2> QED  BY <1>1, <1>3, NewIdFacts
<1>5. Range(localToBackend) \subseteq Ids
  BY DEF Range, MapTyped, Ids
<1>6. act = {known[n] : n \in ToSet(names)}
  BY DEF Active
<1>7. ToSet(gone) = ToSet(rows) \ act /\ (IsInjective(rows) => IsInjective(gone))
  BY GoneFacts
<1>8. Result(names).ok => Shrinks(Added(names), Result(names).view, ToSet(gone))
  BY GoneFacts
<1> HIDE DEF fresh, ids, known, old, rows, act, gone, m
<1>9. ToSet(ids) \cap Range(localToBackend) = {}
  BY <1>4, <1>5 DEF ToSet
<1>10. IsInjective(old) /\ ToSet(old) = Range(localToBackend)
  BY DEF MapAgrees, old
<1>11. IsInjective(rows) /\ ToSet(rows) = Range(known)
  BY <1>1, <1>2, <1>4, <1>9, <1>10, JoinFacts
<1>12. ToSet(ids) \subseteq act
  <2> SUFFICES ASSUME NEW k \in DOMAIN ids PROVE ids[k] \in act
    BY DEF ToSet
  <2>1. known[fresh[k]] = ids[k] /\ fresh[k] \in ToSet(fresh)
    BY <1>2, <1>4 DEF ToSet
  <2> QED  BY <1>3, <1>6, <2>1
<1>13. ToSet(gone) = Range(localToBackend) \ act
  BY <1>2, <1>7, <1>11, <1>12
<1>14. /\ DOMAIN map = {n \in DOMAIN known : known[n] \notin ToSet(gone)}
       /\ \A n \in DOMAIN map : map[n] = known[n]
       /\ IsInjective(map)
  <2>1. DOMAIN map = {n \in DOMAIN known : known[n] \notin ToSet(gone)}
    BY ForgetFacts
  <2>2. \A n \in DOMAIN map : map[n] = known[n]
    BY ForgetFacts
  <2>3. IsInjective(known) => IsInjective(map)
    BY ForgetFacts
  <2> HIDE DEF map
  <2> QED  BY <1>2, <2>1, <2>2, <2>3
<1> HIDE DEF map
<1>15. \A n \in DOMAIN known : known[n] \in act <=> n \in ToSet(names)
  <2>1. \A n \in DOMAIN known : n \in ToSet(names) => known[n] \in act
    BY <1>6
  <2>2. ASSUME NEW n \in DOMAIN known, known[n] \in act PROVE n \in ToSet(names)
    <3> PICK k \in ToSet(names) : known[n] = known[k]
      BY <1>6, <2>2
    <3>1. k \in DOMAIN known
      BY <1>2
    <3> QED  BY <1>2, <3>1 DEF IsInjective
  <2> QED  BY <2>1, <2>2
<1>16. \A n \in DOMAIN known : known[n] \in Range(known)
  BY DEF Range
<1>17. DOMAIN map = ToSet(names)
  BY <1>2, <1>7, <1>11, <1>14, <1>15, <1>16
<1>18. Range(map) = act
  BY <1>6, <1>14, <1>17 DEF Range
<1>19. ASSUME Result(names).ok
       PROVE  /\ IsInjective(Kids(Result(names).view, Root))
              /\ ToSet(Kids(Result(names).view, Root)) = act
  <2>1. act \subseteq Range(known)
    BY <1>2, <1>6 DEF Range
  <2>2. /\ IsInjective(Kids(Result(names).view, Root))
        /\ ToSet(Kids(Result(names).view, Root)) = ToSet(rows) \ ToSet(gone)
    BY <1>8, <1>11, <1>19 DEF Shrinks, rows
  <2> QED  BY <1>7, <1>11, <2>1, <2>2
<1>20. IsInjective(gone)
  BY <1>7, <1>11
<1> QED  BY <1>13, <1>14, <1>17, <1>18, <1>19, <1>20 DEF act, gone, map, known

----------------------------------------------------------------------------
(* Type correctness. *)

\* The parts of a queue.
LEMMA QueueFacts ==
  ASSUME NEW S, NEW q \in Seq(S), q # <<>>
  PROVE  /\ Head(q) \in S /\ Head(q) = q[1] /\ Tail(q) \in Seq(S)
         /\ Len(q) \in Nat \ {0} /\ Len(Tail(q)) = Len(q) - 1
         /\ \A k \in 1 .. Len(q) - 1 : Tail(q)[k] = q[k + 1]
OBVIOUS

\* What was on its way is well-typed, and so is its rest.
LEMMA Received ==
  ASSUME TypeInv, NEW event, Receive(event)
  PROVE  /\ Head(toUI) \in Notifications(Ids, program.stops)
         /\ Head(toUI).event = event
         /\ toUI' \in Seq(Notifications(Ids, program.stops))
         /\ toUI' = Tail(toUI) /\ Going
<1>1. toUI \in Seq(Notifications(Ids, program.stops)) /\ toUI # <<>>
  BY DEF TypeInv, QueuesTyped, Receive
<1>2. Head(toUI) \in Notifications(Ids, program.stops) /\ Tail(toUI) \in Seq(Notifications(Ids, program.stops))
  BY <1>1, QueueFacts
<1> QED  BY <1>2 DEF Receive

\* The same for requests.
LEMMA Performed ==
  ASSUME TypeInv, NEW methods, Perform(methods)
  PROVE  /\ Head(toGdb) \in Requests(UsedIds, Ids)
         /\ Head(toGdb).method \in methods
         /\ toGdb' \in Seq(Requests(UsedIds, Ids))
         /\ toGdb' = Tail(toGdb) /\ Going
         /\ UNCHANGED <<uiVars, buttons, failed, loads, inputVars>>
<1>1. toGdb \in Seq(Requests(UsedIds, Ids)) /\ toGdb # <<>>
  BY DEF TypeInv, QueuesTyped, Perform
<1>2. Head(toGdb) \in Requests(UsedIds, Ids) /\ Tail(toGdb) \in Seq(Requests(UsedIds, Ids))
  BY <1>1, QueueFacts
<1> QED  BY <1>2 DEF Perform

\* What is posted is well-typed if the requests are.
LEMMA Posted ==
  ASSUME TypeInv, NEW requests \in Seq(Requests(UsedIds, Ids)), Post(requests)
  PROVE  toGdb' \in Seq(Requests(UsedIds, Ids))
<1>1. toGdb \in Seq(Requests(UsedIds, Ids))
  BY DEF TypeInv, QueuesTyped
<1>2. toGdb \o requests \in Seq(Requests(UsedIds, Ids))
  BY <1>1
<1> QED  BY <1>2 DEF Post

\* The methods of a key and of a refresh carry no watch.
LEMMA PlainRequests ==
  /\ \A key \in HandledKeys :
       /\ KeyMethods(key) \in Seq(Methods \ WatchMethods)
       /\ \A T, I : [k \in DOMAIN KeyMethods(key) |-> Request(KeyMethods(key)[k])] \in Seq(Requests(T, I))
  /\ \A T, I : UpdatePassiveDisplays \in Seq(Requests(T, I))
  /\ \A T, I : <<Request("SetDebugNotification"), Request("LoadProcess")>> \in Seq(Requests(T, I))
<1>1. {"SetDebugNotification", "LoadProcess", "RunToMain", "Continue", "StepOver", "StepIn", "StepOut",
       "GetStack", "GetLocals", "UpdateWatches", "StopDebugging"} \subseteq Methods \ WatchMethods
  BY DEF Methods, WatchMethods, Operations
<1>2. ASSUME NEW T, NEW I
      PROVE  \A m \in Methods \ WatchMethods : Request(m) \in Requests(T, I)
  BY RequestShapes
<1>3. ASSUME NEW key \in HandledKeys
      PROVE  KeyMethods(key) \in Seq(Methods \ WatchMethods)
  <2> DEFINE S == Methods \ WatchMethods
  <2> HIDE DEF S
  <2>1. {"RunToMain", "Continue", "StepOver", "StepIn", "StepOut", "StopDebugging"} \subseteq S
    BY <1>1 DEF S
  <2>2. KeyMethods(key) \in Seq(S)
    BY <2>1 DEF HandledKeys, KeyMethods
  <2> QED  BY <2>2 DEF S
<1>4. ASSUME NEW key \in HandledKeys, NEW T, NEW I
      PROVE  [k \in DOMAIN KeyMethods(key) |-> Request(KeyMethods(key)[k])] \in Seq(Requests(T, I))
  <2> DEFINE ms == KeyMethods(key)
             S  == Methods \ WatchMethods
             R  == Requests(T, I)
  <2>1. ms \in Seq(S) /\ \A m \in S : Request(m) \in R
    BY <1>2, <1>3
  <2> HIDE DEF ms, S, R
  <2>2. [k \in DOMAIN ms |-> Request(ms[k])] \in Seq(R)
    BY <2>1
  <2> QED  BY <2>2 DEF ms, R
<1>5. ASSUME NEW T, NEW I
      PROVE  UpdatePassiveDisplays \in Seq(Requests(T, I))
  <2> DEFINE R == Requests(T, I)
  <2>1. Request("GetStack") \in R /\ Request("GetLocals") \in R /\ Request("UpdateWatches") \in R
    BY <1>1, <1>2
  <2> HIDE DEF R
  <2>2. UpdatePassiveDisplays \in Seq(R)
    BY <2>1 DEF UpdatePassiveDisplays
  <2> QED  BY <2>2 DEF R
<1>6. ASSUME NEW T, NEW I
      PROVE  <<Request("SetDebugNotification"), Request("LoadProcess")>> \in Seq(Requests(T, I))
  <2> DEFINE R == Requests(T, I)
  <2>1. Request("SetDebugNotification") \in R /\ Request("LoadProcess") \in R
    BY <1>1, <1>2
  <2> HIDE DEF R
  <2>2. <<Request("SetDebugNotification"), Request("LoadProcess")>> \in Seq(R)
    BY <2>1
  <2> QED  BY <2>2 DEF R
<1> QED  BY <1>3, <1>4, <1>5, <1>6

\* The rows at the top are the same, unless they already were not apart.
SameRows(v, w) == Shrinks(v, w, {})

\* A click leaves the rows at the top as they are.
LEMMA Clicked ==
  ASSUME ViewIn(view, Ids), buttons \subseteq Ids, Ids \subseteq AllIds, NEW id \in buttons, Click(id)
  PROVE  /\ ViewIn(view', Ids)
         /\ failed' \in {"none", "RemoveNode", "Button"}
         /\ failed' = "none" => SameRows(view, view')
         /\ \/ UNCHANGED toGdb
            \/ \E b \in BOOLEAN : Post(<<SetWatchExpanded(id, b)>>)
<1>1. CASE ClickAsserts(view, id)
  <2> DEFINE state == Toggled(view, id)
             v     == SetNodeExpansionState(view, id, state)
             r     == IF state = "Collapsed" THEN Collapse(v, id) ELSE [view |-> v, ok |-> TRUE]
  <2>1. /\ view' = r.view
        /\ failed' = IF r.ok THEN "none" ELSE "RemoveNode"
        /\ Post(<<SetWatchExpanded(id, state = "Expanded")>>)
    BY <1>1, Zenon DEF Click
  <2>2. id \in DOMAIN view.nodes /\ state \in ExpansionStates /\ id \in Ids
    BY <1>1 DEF ClickAsserts, Node, Toggled, ExpansionStates
  <2>3. ViewIn(v, Ids) /\ SameKids(view, v)
    <3> HIDE DEF state
    <3> QED  BY <2>2, ExpansionIn
  <2> DEFINE back == Reverse(Kids(v, id))
  <2> HIDE DEF v, state
  <2>4. back \in Seq(Ids) /\ \A c \in ToSet(back) : Up(c) = id
    <3> DEFINE k == Kids(v, id)
    <3>1. k \in Seq(Ids) /\ \A c \in ToSet(k) : Up(c) = id
      BY <2>3, KidsIn
    <3> HIDE DEF k
    <3>2. DOMAIN k = 1 .. Len(k) /\ Len(k) \in Nat /\ \A i \in 1 .. Len(k) : k[i] \in Ids /\ Up(k[i]) = id
      BY <3>1 DEF ToSet
    <3>3. Reverse(k) = [i \in 1 .. Len(k) |-> k[(Len(k) - i) + 1]]
      BY DEF Reverse
    <3>4. \A i \in 1 .. Len(k) : Reverse(k)[i] \in Ids /\ Up(Reverse(k)[i]) = id
      BY <3>2, <3>3
    <3>5. Reverse(k) \in Seq(Ids) /\ DOMAIN Reverse(k) = 1 .. Len(k)
      BY <3>2, <3>3, <3>4
    <3>6. \A c \in ToSet(Reverse(k)) : Up(c) = id
      BY <3>4, <3>5 DEF ToSet
    <3> QED  BY <3>5, <3>6 DEF k
  <2>5. Collapse(v, id) = RemoveNodes(v, back)
    BY DEF Collapse
  <2> HIDE DEF back
  <2>6. /\ ResultIn(Collapse(v, id), Ids)
        /\ Collapse(v, id).ok => Shrinks(v, Collapse(v, id).view, ToSet(back))
    BY <2>3, <2>4, <2>5, RemoveNodesIn
  <2> DEFINE c == Collapse(v, id)
  <2>7. c.ok \in BOOLEAN /\ ViewIn(c.view, Ids) /\ (c.ok => Shrinks(v, c.view, ToSet(back)))
    BY <2>6 DEF ResultIn
  <2>8. Kids(v, Root) = Kids(view, Root)
    BY <2>3 DEF SameKids
  <2>9. ToSet(back) \cap ToSet(Kids(v, Root)) = {}
    <3>1. \A x \in ToSet(Kids(v, Root)) : Up(x) = Root
      BY <2>3, KidsIn
    <3>2. id # Root
      BY <2>2, IdShapes
    <3> QED  BY <2>4, <3>1, <3>2
  <2> HIDE DEF c
  <2>10. CASE state = "Collapsed"
    <3>1. r = c
      BY <2>10 DEF c
    <3>2. failed' = "none" => c.ok
      BY <2>1, <3>1
    <3>3. c.ok => SameRows(view, c.view)
      BY <2>7, <2>8, <2>9 DEF SameRows, Shrinks
    <3> HIDE DEF r
    <3> QED  BY <2>1, <2>7, <3>1, <3>2, <3>3
  <2>11. CASE state # "Collapsed"
    <3>1. r = [view |-> v, ok |-> TRUE]
      BY <2>11
    <3> HIDE DEF r
    <3>2. r.view = v /\ r.ok = TRUE
      BY <3>1
    <3>3. SameRows(view, v)
      BY <2>8 DEF SameRows, Shrinks
    <3> QED  BY <2>1, <2>3, <3>2, <3>3
  <2> QED  BY <2>10, <2>11
<1>2. CASE ~ClickAsserts(view, id)
  <2>1. failed' = "Button" /\ UNCHANGED <<view, toGdb>>
    BY <1>2, Zenon DEF Click
  <2> QED  BY <2>1
<1> QED  BY <1>1, <1>2

\* A step that moves neither the counter nor the program is well-typed when what it
\* changes is.
LEMMA Typed ==
  ASSUME TypeInv, UNCHANGED <<nextVariable, localToBackend, program>>,
         ViewIn(view', Ids), buttons' \subseteq Ids,
         objects' \in [DOMAIN objects' -> LocalNames], DOMAIN objects' \subseteq Ids,
         toGdb' \in Seq(Requests(UsedIds, Ids)),
         toUI' \in Seq(Notifications(Ids, program.stops)),
         loads' \in Seq(StopNumbers),
         connected' \in BOOLEAN, running' \in BOOLEAN,
         shown' \in [{"line", "stack", "file"} -> StopNumbers],
         failed' \in {"none", "SetNodeData", "RemoveNode", "Button"}
  PROVE  TypeInv'
<1>1. UsedIds' = UsedIds /\ Ids' = Ids
  BY SameIds
<1>2. MapTyped'
  BY <1>1 DEF TypeInv, MapTyped
<1>3. ViewTyped'
  BY <1>1 DEF ViewTyped
<1>4. ProgramTyped'
  BY <1>1 DEF TypeInv, ProgramTyped
<1>5. StopNumbers' = StopNumbers /\ program.stops' = program.stops
  BY DEF StopNumbers
<1>6. QueuesTyped'
  BY <1>1, <1>5 DEF QueuesTyped
<1>7. FlagsTyped'
  BY <1>5 DEF FlagsTyped
<1> QED  BY <1>2, <1>3, <1>4, <1>6, <1>7 DEF TypeInv

\* What TypeInv says, part by part.
LEMMA TypedNow ==
  ASSUME TypeInv
  PROVE  /\ nextVariable \in Nat /\ Ids \subseteq AllIds /\ UsedIds \subseteq Ids
         /\ ViewIn(view, Ids) /\ buttons \subseteq Ids /\ DOMAIN view.nodes \subseteq Ids
         /\ objects \in [DOMAIN objects -> LocalNames] /\ DOMAIN objects \subseteq Ids
         /\ toGdb \in Seq(Requests(UsedIds, Ids))
         /\ toUI \in Seq(Notifications(Ids, program.stops))
         /\ loads \in Seq(StopNumbers)
         /\ connected \in BOOLEAN /\ running \in BOOLEAN
         /\ shown \in [{"line", "stack", "file"} -> StopNumbers]
         /\ failed \in {"none", "SetNodeData", "RemoveNode", "Button"}
         /\ program.stops \in Nat /\ program.scope \in Seq(LocalNames)
<1>1. nextVariable \in Nat
  BY DEF TypeInv, MapTyped
<1>2. Ids \subseteq AllIds /\ UsedIds \subseteq Ids
  BY <1>1, UsedShapes DEF IdsTo
<1> QED  BY <1>1, <1>2 DEF TypeInv, ViewTyped, ViewIn, ProgramTyped, QueuesTyped, FlagsTyped

\* A field of what is shown moves to a stop that has happened.
LEMMA ShownTyped ==
  ASSUME shown \in [{"line", "stack", "file"} -> StopNumbers], NEW n \in StopNumbers
  PROVE  /\ [shown EXCEPT !.line = n] \in [{"line", "stack", "file"} -> StopNumbers]
         /\ [shown EXCEPT !.stack = n] \in [{"line", "stack", "file"} -> StopNumbers]
         /\ [shown EXCEPT !.file = n] \in [{"line", "stack", "file"} -> StopNumbers]
OBVIOUS

\* The user's steps.
LEMMA TypedUser ==
  ASSUME TypeInv, UserStep
  PROVE  TypeInv'
<1>1. ASSUME NEW key \in Keys, NotifyKey(key) PROVE TypeInv'
  <2>1. UNCHANGED <<connected, nextVariable, localToBackend, view, shown, buttons, failed, toUI, loads, program, objects>>
    BY <1>1 DEF NotifyKey, gdbVars
  <2>2. running' \in BOOLEAN
    BY <1>1 DEF NotifyKey
  <2>3. toGdb' \in Seq(Requests(UsedIds, Ids))
    <3>1. CASE connected
      <4> DEFINE posted == [k \in DOMAIN KeyMethods(key) |-> Request(KeyMethods(key)[k])]
      <4>1. Post(posted)
        BY <1>1, <3>1 DEF NotifyKey
      <4>2. posted \in Seq(Requests(UsedIds, Ids))
        BY PlainRequests, SessionAssumption
      <4> HIDE DEF posted
      <4> QED  BY <4>1, <4>2, Posted
    <3>2. CASE ~connected
      <4>1. toGdb' = toGdb
        BY <1>1, <3>2 DEF NotifyKey
      <4> QED  BY <4>1, TypedNow
    <3> QED  BY <3>1, <3>2
  <2> QED  BY <2>1, <2>2, <2>3, Typed, TypedNow
<1>2. ASSUME NEW id \in buttons, Click(id) PROVE TypeInv'
  <2>1. UNCHANGED <<connected, running, nextVariable, localToBackend, shown, buttons, toUI, loads, program, objects>>
    BY <1>2 DEF Click, gdbVars
  <2>2. /\ ViewIn(view', Ids)
        /\ failed' \in {"none", "RemoveNode", "Button"}
        /\ \/ UNCHANGED toGdb
           \/ \E b \in BOOLEAN : Post(<<SetWatchExpanded(id, b)>>)
    BY <1>2, Clicked, TypedNow
  <2>3. toGdb' \in Seq(Requests(UsedIds, Ids))
    <3>1. CASE UNCHANGED toGdb
      BY <3>1, TypedNow
    <3>2. CASE \E b \in BOOLEAN : Post(<<SetWatchExpanded(id, b)>>)
      <4> PICK b \in BOOLEAN : Post(<<SetWatchExpanded(id, b)>>)
        BY <3>2
      <4>1. SetWatchExpanded(id, b) \in Requests(UsedIds, Ids)
        BY TypedNow, RequestShapes
      <4>2. <<SetWatchExpanded(id, b)>> \in Seq(Requests(UsedIds, Ids))
        BY <4>1
      <4> QED  BY <4>2, Posted
    <3> QED  BY <2>2, <3>1, <3>2
  <2> QED  BY <2>1, <2>2, <2>3, Typed, TypedNow
<1> QED  BY <1>1, <1>2 DEF UserStep

\* The steps that change neither the map nor the view.
LEMMA TypedDisplay ==
  ASSUME TypeInv,
         SetDebugCore \/ Paint \/ FileLoadCompleted \/ OnStoppedAtBreakpoint \/ OnStoppedAfterStepping \/ OnRetrievedStack
  PROVE  TypeInv'
<1>1. CASE SetDebugCore
  <2>1. UNCHANGED <<running, nextVariable, localToBackend, view, shown, buttons, failed, toUI, loads, program, objects>>
    BY <1>1 DEF SetDebugCore, gdbVars
  <2>2. connected' \in BOOLEAN /\ Post(<<Request("SetDebugNotification"), Request("LoadProcess")>>)
    BY <1>1 DEF SetDebugCore
  <2>3. toGdb' \in Seq(Requests(UsedIds, Ids))
    BY <2>2, PlainRequests, Posted
  <2> QED  BY <2>1, <2>2, <2>3, Typed, TypedNow
<1>2. CASE Paint
  <2>1. UNCHANGED <<connected, running, nextVariable, localToBackend, view, shown, failed, toGdb, toUI, loads, program, objects>>
    BY <1>2 DEF Paint, uiVars, queueVars, gdbVars
  <2>2. buttons' \subseteq DOMAIN view.nodes
    BY <1>2 DEF Paint, Buttons
  <2> QED  BY <2>1, <2>2, Typed, TypedNow
<1>3. CASE FileLoadCompleted
  <2>1. UNCHANGED <<connected, running, nextVariable, localToBackend, view, buttons, failed, toGdb, toUI, program, objects>>
    BY <1>3 DEF FileLoadCompleted, gdbVars
  <2>2. loads' = Tail(loads) /\ shown' = [shown EXCEPT !.file = Head(loads)] /\ loads # <<>>
    BY <1>3 DEF FileLoadCompleted
  <2>3. Head(loads) \in StopNumbers /\ Tail(loads) \in Seq(StopNumbers)
    BY <2>2, QueueFacts, TypedNow
  <2>4. shown' \in [{"line", "stack", "file"} -> StopNumbers]
    BY <2>2, <2>3, ShownTyped, TypedNow
  <2> QED  BY <2>1, <2>2, <2>3, <2>4, Typed, TypedNow
<1>4. CASE OnStoppedAtBreakpoint
  <2>1. UNCHANGED <<connected, running, nextVariable, localToBackend, view, buttons, failed, program, objects>>
    BY <1>4 DEF OnStoppedAtBreakpoint, gdbVars
  <2>2. /\ Receive("OnStoppedAtBreakpoint") /\ shown' = [shown EXCEPT !.line = Head(toUI).at]
        /\ loads' = Append(loads, Head(toUI).at) /\ Post(UpdatePassiveDisplays)
    BY <1>4 DEF OnStoppedAtBreakpoint
  <2>3. Head(toUI).at \in StopNumbers /\ toUI' \in Seq(Notifications(Ids, program.stops))
    BY <2>2, Received, Notified DEF StopNumbers, Stops
  <2>4. shown' \in [{"line", "stack", "file"} -> StopNumbers]
    BY <2>2, <2>3, ShownTyped, TypedNow
  <2>5. toGdb' \in Seq(Requests(UsedIds, Ids))
    BY <2>2, PlainRequests, Posted
  <2>6. loads' \in Seq(StopNumbers)
    BY <2>2, <2>3, AppendFacts, TypedNow
  <2> QED  BY <2>1, <2>3, <2>4, <2>5, <2>6, Typed, TypedNow
<1>5. CASE OnStoppedAfterStepping
  <2>1. UNCHANGED <<connected, running, nextVariable, localToBackend, view, buttons, failed, loads, program, objects>>
    BY <1>5 DEF OnStoppedAfterStepping, gdbVars
  <2>2. /\ Receive("OnStoppedAfterStepping") /\ shown' = [shown EXCEPT !.line = Head(toUI).at]
        /\ Post(UpdatePassiveDisplays)
    BY <1>5 DEF OnStoppedAfterStepping
  <2>3. Head(toUI).at \in StopNumbers /\ toUI' \in Seq(Notifications(Ids, program.stops))
    BY <2>2, Received, Notified DEF StopNumbers, Stops
  <2>4. shown' \in [{"line", "stack", "file"} -> StopNumbers]
    BY <2>2, <2>3, ShownTyped, TypedNow
  <2>5. toGdb' \in Seq(Requests(UsedIds, Ids))
    BY <2>2, PlainRequests, Posted
  <2> QED  BY <2>1, <2>3, <2>4, <2>5, Typed, TypedNow
<1>6. CASE OnRetrievedStack
  <2>1. UNCHANGED <<connected, running, nextVariable, localToBackend, view, buttons, failed, toGdb, loads, program, objects>>
    BY <1>6 DEF OnRetrievedStack, gdbVars
  <2>2. Receive("OnRetrievedStack") /\ shown' = [shown EXCEPT !.stack = Head(toUI).at]
    BY <1>6 DEF OnRetrievedStack
  <2>3. Head(toUI).at \in StopNumbers /\ toUI' \in Seq(Notifications(Ids, program.stops))
    BY <2>2, Received, Notified DEF StopNumbers
  <2>4. shown' \in [{"line", "stack", "file"} -> StopNumbers]
    BY <2>2, <2>3, ShownTyped, TypedNow
  <2> QED  BY <2>1, <2>3, <2>4, Typed, TypedNow
<1> QED  BY <1>1, <1>2, <1>3, <1>4, <1>5, <1>6

\* Notifications about watches leave the rows at the top as they are.
LEMMA WatchViews ==
  ASSUME TypeInv, OnWatchCreated \/ OnWatchesUpdated \/ OnWatchChildList
  PROVE  /\ ViewIn(view', Ids)
         /\ failed' \in {"none", "SetNodeData"}
         /\ Kids(view', Root) = Kids(view, Root)
<1>1. ViewIn(view, Ids) /\ failed \in {"none", "SetNodeData", "RemoveNode", "Button"}
  BY TypedNow
<1>2. ASSUME NEW items, view' = SetNodesData(view, items) PROVE ViewIn(view', Ids) /\ Kids(view', Root) = Kids(view, Root)
  <2>1. ViewIn(SetNodesData(view, items), Ids) /\ SameKids(view, SetNodesData(view, items))
    BY <1>1, SetIn
  <2> QED  BY <1>2, <2>1 DEF SameKids
<1>3. CASE OnWatchCreated
  <2>1. /\ Going
        /\ \/ view' = SetNodesData(view, [id \in {Head(toUI).id} |-> Head(toUI).hasChildren]) /\ UNCHANGED failed
           \/ failed' = "SetNodeData" /\ UNCHANGED view
    BY <1>3 DEF OnWatchCreated, Receive
  <2> QED  BY <1>1, <1>2, <2>1 DEF Going
<1>4. CASE OnWatchesUpdated
  <2>1. /\ Going
        /\ \/ view' = SetNodesData(view, Head(toUI).items) /\ UNCHANGED failed
           \/ failed' = "SetNodeData" /\ UNCHANGED view
    BY <1>4 DEF OnWatchesUpdated, Receive
  <2> QED  BY <1>1, <1>2, <2>1 DEF Going
<1>5. CASE OnWatchChildList
  <2> DEFINE n == Head(toUI)
             w == AddChildren(view, n.parent, n.children)
             z == SetNodesData(w, [id \in ToSet(n.children) |-> FALSE])
  <2>1. Receive("OnWatchChildList") /\ view' = z /\ UNCHANGED failed
    BY <1>5 DEF OnWatchChildList
  <2>2. n.parent \in Ids /\ n.children \in Seq(Below(Ids, n.parent)) /\ Going
    BY <2>1, Received, Notified
  <2>3. n.parent # Root
    BY <2>2, TypedNow, IdShapes
  <2>4. ViewIn(w, Ids) /\ Kids(w, Root) = Kids(view, Root)
    <3> HIDE DEF n
    <3> QED  BY <1>1, <2>2, <2>3, AddIn
  <2> HIDE DEF w
  <2>5. ViewIn(z, Ids) /\ SameKids(w, z)
    BY <2>4, SetIn
  <2> HIDE DEF z
  <2>6. Kids(z, Root) = Kids(w, Root)
    BY <2>5 DEF SameKids
  <2> QED  BY <2>1, <2>2, <2>4, <2>5, <2>6 DEF Going
<1> QED  BY <1>3, <1>4, <1>5

\* Answers about watches keep the types: they speak of identifiers handed out.
LEMMA TypedWatches ==
  ASSUME TypeInv, OnWatchCreated \/ OnWatchesUpdated \/ OnWatchChildList
  PROVE  TypeInv'
<1>1. UNCHANGED <<connected, running, nextVariable, localToBackend, shown, buttons, toGdb, loads, program, objects>>
  BY DEF OnWatchCreated, OnWatchesUpdated, OnWatchChildList, gdbVars
<1>2. toUI' \in Seq(Notifications(Ids, program.stops))
  BY Received DEF OnWatchCreated, OnWatchesUpdated, OnWatchChildList
<1>3. ViewIn(view', Ids) /\ failed' \in {"none", "SetNodeData"}
  BY WatchViews
<1> QED  BY <1>1, <1>2, <1>3, Typed, TypedNow

\* The requests that fit once the handler has handed out its identifiers.
RequestsAfter(names) == Requests(TopsTo(Counter(names)), IdsTo(Counter(names)))

\* What the handler posts, one by one.
LEMMA LocalsRequests ==
  ASSUME TypeInv, NEW names \in Seq(LocalNames)
  PROVE  /\ toGdb \in Seq(RequestsAfter(names))
         /\ Created(names) \in Seq(RequestsAfter(names))
         /\ Len(Created(names)) = Len(FreshNames(names)) /\ Len(FreshNames(names)) \in Nat
         /\ \A k \in 1 .. Len(FreshNames(names)) :
              Created(names)[k] = CreateWatch(NewIds(FreshNames(names))[k], FreshNames(names)[k])
         /\ DeleteWatches(Gone(names)) \in Seq(RequestsAfter(names))
         /\ Len(DeleteWatches(Gone(names))) = Len(Gone(names)) /\ Len(Gone(names)) \in Nat
         /\ \A k \in 1 .. Len(Gone(names)) :
              DeleteWatches(Gone(names))[k] = WatchRequest("DeleteWatch", Gone(names)[k])
         /\ Created(names) \o DeleteWatches(Gone(names)) \in Seq(RequestsAfter(names))
<1> DEFINE fresh == FreshNames(names)
           ids   == NewIds(fresh)
           gone  == Gone(names)
           m     == Counter(names)
           R     == RequestsAfter(names)
           c     == Created(names)
           d     == DeleteWatches(gone)
<1>1. MapTyped /\ ViewIn(view, Ids) /\ nextVariable \in Nat /\ toGdb \in Seq(Requests(UsedIds, Ids))
  BY TypedNow DEF TypeInv
<1>2. m \in Nat /\ nextVariable <= m /\ ids \in Seq(TopsTo(m))
  BY <1>1, AddedFacts
<1>3. gone \in Seq(TopsTo(m)) /\ fresh \in Seq(LocalNames)
  BY <1>1, GoneFacts, FreshFacts
<1>4. DOMAIN ids = DOMAIN fresh
  <2> HIDE DEF fresh
  <2> QED  BY <1>1, <1>3, NewIdFacts
<1>5. /\ c = [k \in DOMAIN fresh |-> CreateWatch(ids[k], fresh[k])]
      /\ d = [k \in DOMAIN gone |-> WatchRequest("DeleteWatch", gone[k])]
  BY Zenon DEF Created, DeleteWatches
<1> HIDE DEF fresh, ids, gone, c, d, m
<1>6. DOMAIN fresh = 1 .. Len(fresh) /\ DOMAIN gone = 1 .. Len(gone) /\ Len(fresh) \in Nat /\ Len(gone) \in Nat
  BY <1>3
<1>7. ASSUME NEW k \in 1 .. Len(fresh) PROVE CreateWatch(ids[k], fresh[k]) \in R
  <2>1. ids[k] \in TopsTo(m) /\ fresh[k] \in LocalNames
    BY <1>2, <1>3, <1>4, <1>6
  <2> QED  BY <2>1, RequestShapes DEF RequestsAfter, m
<1>8. ASSUME NEW k \in 1 .. Len(gone) PROVE WatchRequest("DeleteWatch", gone[k]) \in R
  <2>1. gone[k] \in TopsTo(m)
    BY <1>3, <1>6
  <2> QED  BY <2>1, RequestShapes DEF RequestsAfter, m
<1>9. toGdb \in Seq(R)
  <2>1. UsedIds \subseteq TopsTo(m) /\ Ids \subseteq IdsTo(m)
    BY <1>1, <1>2, UsedShapes, GrowingIds
  <2> QED  BY <1>1, <2>1, RequestsMore DEF RequestsAfter, m
<1> HIDE DEF R
<1>10. c \in Seq(R) /\ Len(c) = Len(fresh) /\ \A k \in 1 .. Len(fresh) : c[k] = CreateWatch(ids[k], fresh[k])
  <2>1. c \in [1 .. Len(fresh) -> R]
    BY <1>5, <1>6, <1>7
  <2> QED  BY <1>5, <1>6, <2>1
<1>11. d \in Seq(R) /\ Len(d) = Len(gone) /\ \A k \in 1 .. Len(gone) : d[k] = WatchRequest("DeleteWatch", gone[k])
  <2>1. d \in [1 .. Len(gone) -> R]
    BY <1>5, <1>6, <1>8
  <2> QED  BY <1>5, <1>6, <2>1
<1>12. c \o d \in Seq(R)
  BY <1>10, <1>11
<1> QED  BY <1>6, <1>9, <1>10, <1>11, <1>12 DEF fresh, ids, gone, c, d, R

\* The handler that creates and deletes watches hands out identifiers.
LEMMA TypedLocals ==
  ASSUME TypeInv, OnRetrievedLocals
  PROVE  TypeInv'
<1> DEFINE names == Head(toUI).names
           fresh == FreshNames(names)
           ids   == NewIds(fresh)
           gone  == Gone(names)
           m     == Counter(names)
           R     == Requests(TopsTo(m), IdsTo(m))
<1>1. /\ Receive("OnRetrievedLocals")
      /\ view' = Result(names).view
      /\ failed' = IF Result(names).ok THEN "none" ELSE "RemoveNode"
      /\ localToBackend' = Forget(Known(names), gone)
      /\ nextVariable' = m
      /\ Post(Created(names) \o DeleteWatches(gone))
      /\ UNCHANGED <<connected, running, shown, buttons, loads, program, objects>>
  BY LocalsAction DEF Counter, gdbVars
<1>2. names \in Seq(LocalNames) /\ toUI' \in Seq(Notifications(Ids, program.stops))
  BY <1>1, Received, Notified
<1> HIDE DEF names
<1>3. MapTyped /\ ViewIn(view, Ids) /\ nextVariable \in Nat
  BY TypedNow DEF TypeInv
<1>4. m \in Nat /\ nextVariable <= m /\ ids \in Seq(TopsTo(m))
  BY <1>2, <1>3, AddedFacts
<1>5. gone \in Seq(TopsTo(m)) /\ ResultIn(Result(names), IdsTo(m))
  BY <1>2, <1>3, GoneFacts
<1>6. fresh \in Seq(LocalNames)
  BY <1>2, FreshFacts
<1>7. /\ DOMAIN Known(names) = DOMAIN localToBackend \cup ToSet(names)
      /\ Range(Known(names)) = Range(localToBackend) \cup ToSet(ids)
  BY <1>2, <1>3, KnownFacts
<1>8. DOMAIN ids = DOMAIN fresh
  <2> HIDE DEF fresh
  <2> QED  BY <1>3, <1>6, NewIdFacts
<1> HIDE DEF fresh, ids, gone, m
<1>9. UsedIds' = TopsTo(m) /\ Ids' = IdsTo(m)
  <2>1. UsedIds' = HandedOut(m) /\ Ids' = WithFields(UsedIds')
    BY <1>1 DEF UsedIds, Ids, HandedOut, WithFields
  <2>2. UsedIds' = TopsTo(m)
    BY <1>4, <2>1, IdsBelow
  <2>3. WithFields(TopsTo(m)) = IdsTo(m)
    BY <1>4, IdsBelow
  <2> QED  BY <2>1, <2>2, <2>3
<1>10. UsedIds \subseteq TopsTo(m) /\ Ids \subseteq IdsTo(m) /\ TopsTo(m) \subseteq IdsTo(m)
  BY <1>3, <1>4, UsedShapes, GrowingIds
<1>11. MapTyped'
  <2>1. /\ DOMAIN localToBackend' \subseteq DOMAIN Known(names)
        /\ \A n \in DOMAIN localToBackend' : localToBackend'[n] = Known(names)[n]
    BY <1>1, ForgetFacts
  <2>2. DOMAIN Known(names) \subseteq LocalNames
    BY <1>2, <1>3, <1>7 DEF MapTyped, ToSet
  <2>3. Range(Known(names)) \subseteq TopsTo(m)
    <3>1. Range(localToBackend) \subseteq TopsTo(m)
      BY <1>3, <1>10 DEF MapTyped, Range
    <3>2. ToSet(ids) \subseteq TopsTo(m)
      BY <1>4 DEF ToSet
    <3> QED  BY <1>7, <3>1, <3>2
  <2>4. \A n \in DOMAIN Known(names) : Known(names)[n] \in Range(Known(names))
    BY DEF Range
  <2>5. localToBackend' = [n \in DOMAIN localToBackend' |-> localToBackend'[n]]
    BY <1>1 DEF Forget
  <2>6. \A n \in DOMAIN localToBackend' : localToBackend'[n] \in TopsTo(m)
    BY <2>1, <2>3, <2>4
  <2>7. localToBackend' \in [DOMAIN localToBackend' -> UsedIds']
    BY <1>9, <2>5, <2>6
  <2> QED  BY <1>1, <1>4, <2>1, <2>2, <2>7 DEF MapTyped
<1>12. ViewTyped'
  <2>1. ViewIn(view', IdsTo(m))
    BY <1>1, <1>5 DEF ResultIn
  <2>2. buttons' \subseteq IdsTo(m)
    BY <1>1, <1>10, TypedNow
  <2> QED  BY <1>9, <2>1, <2>2 DEF ViewTyped
<1>13. ProgramTyped'
  <2>1. DOMAIN objects \subseteq IdsTo(m)
    BY <1>10, TypedNow
  <2> QED  BY <1>1, <1>9, <2>1 DEF ProgramTyped, TypeInv
<1>14. QueuesTyped'
  <2>1. toGdb \in Seq(R) /\ toUI' \in Seq(Notifications(IdsTo(m), program.stops))
    <3>1. toUI' \in Seq(Notifications(Ids, program.stops)) /\ program.stops \in Nat
      BY <1>2, TypedNow
    <3>2. toGdb \in Seq(R)
      BY <1>2, LocalsRequests DEF RequestsAfter, m
    <3>3. toUI' \in Seq(Notifications(IdsTo(m), program.stops))
      BY <1>10, <3>1, NotificationsMore
    <3> QED  BY <3>2, <3>3
  <2> DEFINE c == Created(names)
             d == DeleteWatches(gone)
  <2>4. c \o d \in Seq(R)
    BY <1>2, LocalsRequests DEF RequestsAfter, gone, m
  <2> HIDE DEF R, c, d
  <2>5. toGdb \o (c \o d) \in Seq(R)
    BY <2>1, <2>4
  <2>6. toGdb' \in Seq(R)
    BY <1>1, <2>5 DEF Post, c, d
  <2>7. loads' \in Seq(StopNumbers) /\ StopNumbers' = StopNumbers /\ program.stops' = program.stops
    BY <1>1, TypedNow DEF StopNumbers
  <2> QED  BY <1>9, <2>1, <2>6, <2>7 DEF QueuesTyped, R
<1>15. FlagsTyped'
  <2>1. StopNumbers' = StopNumbers
    BY <1>1 DEF StopNumbers
  <2> QED  BY <1>1, <2>1, TypedNow DEF FlagsTyped
<1> QED  BY <1>11, <1>12, <1>13, <1>14, <1>15 DEF TypeInv

\* A program that ends keeps the number of its stops.
LEMMA ProgramEnds ==
  ASSUME TypeInv, program' = [program EXCEPT !.state = "none", !.scope = <<>>]
  PROVE  /\ program' = [state |-> "none", stops |-> program.stops, scope |-> <<>>, lastBreak |-> program.lastBreak]
         /\ program'.state = "none" /\ program'.stops = program.stops
         /\ program'.lastBreak = program.lastBreak /\ program'.scope = <<>>
<1> DEFINE p == program
<1>1. p \in [state : {"none", "stopped"}, stops : Nat, scope : Seq(LocalNames), lastBreak : Nat]
  BY DEF TypeInv, ProgramTyped
<1> HIDE DEF p
<1>2. [p EXCEPT !.state = "none", !.scope = <<>>] = [state |-> "none", stops |-> p.stops, scope |-> <<>>, lastBreak |-> p.lastBreak]
  <2> DEFINE q == [p EXCEPT !.state = "none"]
  <2>1. q = [state |-> "none", stops |-> p.stops, scope |-> p.scope, lastBreak |-> p.lastBreak]
    BY <1>1
  <2>2. [p EXCEPT !.state = "none", !.scope = <<>>] = [q EXCEPT !.scope = <<>>]
    BY Zenon
  <2> HIDE DEF q
  <2>3. [q EXCEPT !.scope = <<>>] = [state |-> "none", stops |-> p.stops, scope |-> <<>>, lastBreak |-> p.lastBreak]
    BY <2>1
  <2> QED  BY <2>2, <2>3
<1>3. program' = [state |-> "none", stops |-> p.stops, scope |-> <<>>, lastBreak |-> p.lastBreak]
  BY <1>2 DEF p
<1> QED  BY <1>3 DEF p

\* gdb's steps, on the program.
LEMMA TypedProgram ==
  ASSUME TypeInv, GdbExec \/ GdbAbort
  PROVE  TypeInv'
<1> DEFINE s == program.stops
<1>1. /\ toGdb' \in Seq(Requests(UsedIds, Ids))
      /\ UNCHANGED <<connected, running, nextVariable, localToBackend, view, shown, buttons, failed, loads, objects>>
  BY Performed DEF GdbExec, GdbAbort, uiVars
<1>2. UsedIds' = UsedIds /\ Ids' = Ids
  BY <1>1, SameIds
<1>3. /\ program \in [state : {"none", "stopped"}, stops : Nat, scope : Seq(LocalNames), lastBreak : Nat]
      /\ program.lastBreak <= s /\ s \in Nat /\ toUI \in Seq(Notifications(Ids, s))
  BY TypedNow DEF TypeInv, ProgramTyped
<1>4. MapTyped' /\ ViewTyped'
  BY <1>1, <1>2 DEF TypeInv, MapTyped, ViewTyped
<1>5. SUFFICES ASSUME s <= program'.stops, program'.stops \in Nat,
                      toUI' \in Seq(Notifications(Ids, program'.stops)),
                      program' \in [state : {"none", "stopped"}, stops : Nat, scope : Seq(LocalNames), lastBreak : Nat],
                      program'.lastBreak <= program'.stops
               PROVE  TypeInv'
  <2>1. CASE UNCHANGED <<program, toUI>>
    BY <1>3, <1>5, <2>1
  <2>2. CASE program' = [program EXCEPT !.state = "none", !.scope = <<>>] /\ UNCHANGED toUI
    <3>1. /\ program' = [state |-> "none", stops |-> s, scope |-> <<>>, lastBreak |-> program.lastBreak]
          /\ program'.stops = s /\ program'.lastBreak = program.lastBreak
      BY <2>2, ProgramEnds
    <3>2. program' \in [state : {"none", "stopped"}, stops : Nat, scope : Seq(LocalNames), lastBreak : Nat]
      BY <1>3, <3>1
    <3> QED  BY <1>3, <1>5, <2>2, <3>1, <3>2
  <2>3. ASSUME NEW scope \in Scopes, NEW b \in {s + 1, program.lastBreak}, NEW e \in Stops,
               program' = [state |-> "stopped", stops |-> s + 1, scope |-> scope, lastBreak |-> b],
               toUI' = Append(toUI, [event |-> e, at |-> s + 1])
        PROVE  TypeInv'
    <3>1. program' \in [state : {"none", "stopped"}, stops : Nat, scope : Seq(LocalNames), lastBreak : Nat]
      BY <1>3, <2>3, SessionAssumption
    <3>2. program'.stops = s + 1 /\ program'.lastBreak = b
      BY <2>3
    <3>3. [event |-> e, at |-> s + 1] \in Notifications(Ids, s + 1)
      BY <1>3 DEF Notifications
    <3>4. toUI \in Seq(Notifications(Ids, s + 1))
      BY <1>3, NotificationsMore
    <3>5. toUI' \in Seq(Notifications(Ids, s + 1))
      BY <2>3, <3>3, <3>4, AppendFacts
    <3> QED  BY <1>3, <1>5, <3>1, <3>2, <3>5
  <2>4. CASE GdbAbort
    BY <2>1, <2>2, <2>4 DEF GdbAbort
  <2>5. CASE GdbExec
    <3> DEFINE run == Head(toGdb).method \in RunMethods
               e   == IF run THEN "OnStoppedAtBreakpoint" ELSE "OnStoppedAfterStepping"
               b   == IF run THEN s + 1 ELSE program.lastBreak
    <3>1. \/ \E scope \in Scopes :
               /\ program' = [state |-> "stopped", stops |-> s + 1, scope |-> scope, lastBreak |-> b]
               /\ toUI' = Append(toUI, [event |-> e, at |-> s + 1])
          \/ program' = [program EXCEPT !.state = "none", !.scope = <<>>] /\ UNCHANGED toUI
          \/ UNCHANGED <<program, toUI>>
      BY <2>5 DEF GdbExec, Answer
    <3>2. e \in Stops /\ b \in {s + 1, program.lastBreak}
      BY DEF Stops
    <3> HIDE DEF e, b, run
    <3>3. CASE \E scope \in Scopes :
                 /\ program' = [state |-> "stopped", stops |-> s + 1, scope |-> scope, lastBreak |-> b]
                 /\ toUI' = Append(toUI, [event |-> e, at |-> s + 1])
      <4> PICK scope \in Scopes :
                 /\ program' = [state |-> "stopped", stops |-> s + 1, scope |-> scope, lastBreak |-> b]
                 /\ toUI' = Append(toUI, [event |-> e, at |-> s + 1])
        BY <3>3
      <4> QED  BY <2>3, <3>2
    <3> QED  BY <2>1, <2>2, <3>1, <3>3
  <2> QED  BY <2>4, <2>5
<1>6. ProgramTyped'
  BY <1>1, <1>2, <1>5, TypedNow DEF ProgramTyped
<1>7. StopNumbers \subseteq StopNumbers'
  BY <1>3, <1>5 DEF StopNumbers
<1>8. QueuesTyped'
  <2>1. loads' \in Seq(StopNumbers')
    <3>1. loads \in Seq(StopNumbers)
      BY TypedNow
    <3> QED  BY <1>1, <1>7, <3>1
  <2> QED  BY <1>1, <1>2, <1>5, <2>1 DEF QueuesTyped
<1>9. FlagsTyped'
  <2>1. shown' \in [{"line", "stack", "file"} -> StopNumbers']
    <3>1. shown \in [{"line", "stack", "file"} -> StopNumbers]
      BY TypedNow
    <3> QED  BY <1>1, <1>7, <3>1
  <2> QED  BY <1>1, <2>1, TypedNow DEF FlagsTyped
<1> QED  BY <1>4, <1>6, <1>8, <1>9 DEF TypeInv

\* gdb's answers to queries, and its variable objects.
LEMMA TypedObjects ==
  ASSUME TypeInv, GdbAccept \/ GdbQuery \/ GdbVarCreate \/ GdbVarUpdate \/ GdbVarListChildren \/ GdbVarDelete
  PROVE  TypeInv'
<1> DEFINE N == Notifications(Ids, program.stops)
<1>1. /\ toGdb' \in Seq(Requests(UsedIds, Ids)) /\ Head(toGdb) \in Requests(UsedIds, Ids)
      /\ UNCHANGED <<connected, running, nextVariable, localToBackend, view, shown, buttons, failed, loads>>
      /\ UNCHANGED program
  BY Performed DEF GdbAccept, GdbQuery, GdbVarCreate, GdbVarUpdate, GdbVarListChildren, GdbVarDelete, uiVars, gdbVars
<1>2. ASSUME NEW n \in N, Answer(n) PROVE toUI' \in Seq(N)
  <2>1. toUI \in Seq(N)
    BY TypedNow
  <2> HIDE DEF N
  <2> QED  BY <1>2, <2>1, AppendFacts DEF Answer
<1>3. toUI \in Seq(N) /\ objects \in [DOMAIN objects -> LocalNames] /\ DOMAIN objects \subseteq Ids
  BY TypedNow
<1>4. SUFFICES ASSUME toUI' \in Seq(N), objects' \in [DOMAIN objects' -> LocalNames], DOMAIN objects' \subseteq Ids
               PROVE  TypeInv'
  <2>1. CASE GdbAccept
    <3>1. UNCHANGED <<toUI, objects>>
      BY <2>1 DEF GdbAccept
    <3> HIDE DEF N
    <3> QED  BY <1>3, <1>4, <3>1
  <2>2. CASE GdbQuery
    <3>1. /\ UNCHANGED objects
          /\ \/ UNCHANGED toUI
             \/ Answer([event |-> "OnRetrievedStack", at |-> program.stops])
             \/ Answer([event |-> "OnRetrievedLocals", names |-> program.scope])
      BY <2>2 DEF GdbQuery
    <3>2. [event |-> "OnRetrievedStack", at |-> program.stops] \in N
      BY TypedNow DEF Notifications
    <3>3. [event |-> "OnRetrievedLocals", names |-> program.scope] \in N
      BY TypedNow DEF Notifications
    <3> HIDE DEF N
    <3> QED  BY <1>2, <1>3, <1>4, <3>1, <3>2, <3>3
  <2>3. CASE GdbVarCreate
    <3> DEFINE r == Head(toGdb)
               n == [event |-> "OnWatchCreated", id |-> r.id, hasChildren |-> Fields[r.name] > 0]
    <3>1. \/ UNCHANGED <<objects, toUI>>
          \/ objects' = Put(objects, r.id, r.name) /\ Answer(n)
      BY <2>3 DEF GdbVarCreate
    <3>2. r.id \in Ids /\ r.name \in LocalNames
      <4>1. r.method = "CreateWatch"
        BY <2>3 DEF GdbVarCreate, Perform
      <4> HIDE DEF r
      <4>2. r \in Requests(UsedIds, Ids)
        BY <1>1 DEF r
      <4> QED  BY <4>1, <4>2, Requested, TypedNow
    <3>3. n \in N
      <4>1. (Fields[r.name] > 0) \in BOOLEAN
        BY <3>2, SessionAssumption
      <4> HIDE DEF r
      <4> QED  BY <3>2, <4>1 DEF Notifications
    <3> HIDE DEF r, n, N
    <3>4. CASE objects' = Put(objects, r.id, r.name) /\ Answer(n)
      <4>1. objects' \in [DOMAIN objects' -> LocalNames] /\ DOMAIN objects' \subseteq Ids
        BY <1>3, <3>2, <3>4 DEF Put
      <4> QED  BY <1>2, <1>4, <3>3, <3>4, <4>1
    <3>5. CASE UNCHANGED <<objects, toUI>>
      BY <1>3, <1>4, <3>5
    <3> QED  BY <3>1, <3>4, <3>5
  <2>4. CASE GdbVarUpdate
    <3>1. UNCHANGED objects
      BY <2>4 DEF GdbVarUpdate, gdbVars
    <3> DEFINE Items(changed, more) == [id \in changed |-> id \in more]
               Update(changed, more) == [event |-> "OnWatchesUpdated", items |-> Items(changed, more)]
    <3>2. PICK changed \in SUBSET {id \in DOMAIN objects : InScope(objects[id])} :
            \E more \in SUBSET {id \in changed : Len(id) = 1 /\ Fields[objects[id]] > 0} :
              Answer(Update(changed, more))
      BY <2>4, Zenon DEF GdbVarUpdate
    <3>2a. PICK more \in SUBSET {id \in changed : Len(id) = 1 /\ Fields[objects[id]] > 0} :
             Answer(Update(changed, more))
      BY <3>2, Zenon
    <3> DEFINE items == Items(changed, more)
    <3>3. items \in [changed -> BOOLEAN]
      OBVIOUS
    <3>4. changed \subseteq Ids
      BY <1>3
    <3> HIDE DEF items
    <3>5. [event |-> "OnWatchesUpdated", items |-> items] \in N
      <4>1. items \in UNION {[X -> BOOLEAN] : X \in SUBSET Ids}
        BY <3>3, <3>4
      <4> QED  BY <4>1 DEF Notifications
    <3> HIDE DEF N
    <3>6. toUI' \in Seq(N)
      BY <1>2, <3>2a, <3>5 DEF items
    <3> QED  BY <1>3, <1>4, <3>1, <3>6
  <2>5. CASE GdbVarListChildren
    <3> DEFINE id       == Head(toGdb).id
               n        == IF Len(id) = 1 /\ id \in DOMAIN objects THEN Fields[objects[id]] ELSE 0
               children == [k \in 1 .. n |-> Append(id, k)]
               answer   == [event |-> "OnWatchChildList", parent |-> id, children |-> children]
    <3>1. \/ UNCHANGED <<objects, toUI>>
          \/ /\ id \in DOMAIN objects
             /\ objects' = [o \in DOMAIN objects \cup ToSet(children) |->
                              IF o \in DOMAIN objects THEN objects[o] ELSE objects[id]]
             /\ Answer(answer)
      BY <2>5 DEF GdbVarListChildren
    <3> HIDE DEF id
    <3>2. CASE id \in DOMAIN objects
      <4>1. n \in Nat /\ id \in Ids /\ objects[id] \in LocalNames
        BY <1>3, <3>2, SessionAssumption
      <4>2. ASSUME NEW k \in 1 .. n PROVE Append(id, k) \in Below(Ids, id)
        <5>1. Len(id) = 1 /\ k \in FieldNumbers
          <6>1. n # 0
            BY <4>1
          <6>2. Len(id) = 1 /\ n = Fields[objects[id]]
            BY <6>1
          <6> HIDE DEF n
          <6> QED  BY <4>1, <6>2 DEF FieldNumbers
        <5>2. id \in UsedIds
          BY <4>1, <5>1, UsedShapes, TypedNow
        <5>3. Append(id, k) \in Ids
          BY <5>1, <5>2 DEF Ids
        <5>4. Up(Append(id, k)) = id
          <6>1. id \in Tops
            BY <5>2, UsedShapes, TypedNow DEF TopsTo
          <6> QED  BY <5>1, <6>1, IdShapes
        <5> QED  BY <5>3, <5>4 DEF Below
      <4> HIDE DEF n
      <4>3. children \in Seq(Below(Ids, id)) /\ ToSet(children) \subseteq Ids
        <5> DEFINE B == Below(Ids, id)
        <5>1. \A k \in 1 .. n : Append(id, k) \in B
          BY <4>2
        <5>2. B \subseteq Ids
          BY DEF Below
        <5> HIDE DEF B
        <5>3. children \in [1 .. n -> B]
          BY <5>1
        <5> HIDE DEF children
        <5>4. children \in Seq(B)
          BY <4>1, <5>3
        <5>5. ToSet(children) \subseteq Ids
          BY <5>2, <5>3 DEF ToSet
        <5> QED  BY <5>4, <5>5 DEF B
      <4> HIDE DEF children
      <4>4. answer \in N
        BY <4>1, <4>3 DEF Notifications
      <4> HIDE DEF answer, N
      <4>5. CASE /\ objects' = [o \in DOMAIN objects \cup ToSet(children) |->
                                  IF o \in DOMAIN objects THEN objects[o] ELSE objects[id]]
                 /\ Answer(answer)
        <5>1. objects' \in [DOMAIN objects' -> LocalNames] /\ DOMAIN objects' \subseteq Ids
          BY <1>3, <4>1, <4>3, <4>5
        <5> QED  BY <1>2, <1>4, <4>4, <4>5, <5>1
      <4> QED  BY <1>3, <1>4, <3>1, <4>5
    <3>3. CASE id \notin DOMAIN objects
      <4>1. UNCHANGED <<objects, toUI>>
        BY <3>1, <3>3
      <4> HIDE DEF N
      <4> QED  BY <1>3, <1>4, <4>1
    <3> QED  BY <3>2, <3>3
  <2>6. CASE GdbVarDelete
    <3>1. /\ UNCHANGED toUI
          /\ objects' = [id \in {o \in DOMAIN objects : ~IsPrefix(Head(toGdb).id, o)} |-> objects[id]]
      BY <2>6 DEF GdbVarDelete
    <3>2. objects' \in [DOMAIN objects' -> LocalNames] /\ DOMAIN objects' \subseteq Ids
      BY <1>3, <3>1
    <3> HIDE DEF N
    <3> QED  BY <1>3, <1>4, <3>1, <3>2
  <2> QED  BY <2>1, <2>2, <2>3, <2>4, <2>5, <2>6
<1> QED  BY <1>1, <1>4, Typed, TypedNow

\* The session starts without identifiers, watches and requests.
LEMMA TypedInit == Init => TypeInv
<1> SUFFICES ASSUME Init PROVE TypeInv
  OBVIOUS
<1>1. MapTyped
  BY DEF Init, MapTyped
<1>2. ViewTyped
  <2>1. view = [kids |-> view.kids, nodes |-> view.nodes] /\ DOMAIN view.kids = {} /\ DOMAIN view.nodes = {}
    BY DEF Init, EmptyView
  <2> QED  BY <2>1 DEF Init, ViewTyped, ViewIn
<1>3. ProgramTyped
  <2>1. program = [state |-> "none", stops |-> 0, scope |-> <<>>, lastBreak |-> 0] /\ DOMAIN objects = {}
        /\ objects = [id \in {} |-> "-"]
    BY DEF Init
  <2>2. program.lastBreak <= program.stops
    BY <2>1
  <2>3. program \in [state : {"none", "stopped"}, stops : Nat, scope : Seq(LocalNames), lastBreak : Nat]
    BY <2>1
  <2>4. objects \in [DOMAIN objects -> LocalNames]
    BY <2>1
  <2> QED  BY <2>1, <2>2, <2>3, <2>4 DEF ProgramTyped
<1>4. QueuesTyped
  BY DEF Init, QueuesTyped
<1>5. FlagsTyped
  <2>1. 0 \in StopNumbers
    BY DEF Init, StopNumbers
  <2>2. shown = [field \in {"line", "stack", "file"} |-> 0]
    BY DEF Init
  <2>3. shown \in [{"line", "stack", "file"} -> StopNumbers]
    BY <2>1, <2>2
  <2> QED  BY <2>3 DEF Init, FlagsTyped
<1> QED  BY <1>1, <1>2, <1>3, <1>4, <1>5 DEF TypeInv

\* Every step keeps the types.
LEMMA TypedNext == TypeInv /\ [Next]_vars => TypeInv'
<1> SUFFICES ASSUME TypeInv, [Next]_vars PROVE TypeInv'
  OBVIOUS
<1>1. CASE UNCHANGED vars
  <2>1. UNCHANGED <<connected, running, nextVariable, localToBackend, view, shown, buttons, failed, toGdb, toUI, loads, program, objects>>
    BY <1>1 DEF vars, uiVars, queueVars, gdbVars
  <2> QED  BY <2>1, Typed, TypedNow
<1> QED  BY <1>1, TypedUser, TypedDisplay, TypedWatches, TypedLocals, TypedProgram, TypedObjects
         DEF Next, UIStep, GdbStep

\* TypeInv holds throughout.
LEMMA AlwaysTyped == Spec => []TypeInv
BY TypedInit, TypedNext, PTL DEF Spec

\* It contains the type invariant.
LEMMA TypedOK == TypeInv => TypeOK
<1> SUFFICES ASSUME TypeInv PROVE TypeOK
  OBVIOUS
<1>1. ASSUME NEW k \in DOMAIN toGdb PROVE toGdb[k].method \in Methods /\ toGdb[k].id \in Ids \cup {NoId}
  <2>1. toGdb[k] \in Requests(UsedIds, Ids)
    BY TypedNow
  <2> QED  BY <2>1, Requested, TypedNow
<1>2. /\ DOMAIN localToBackend \subseteq LocalNames
      /\ \A n \in DOMAIN localToBackend : localToBackend[n] \in UsedIds
  BY DEF TypeInv, MapTyped
<1>3. /\ DOMAIN view.nodes \subseteq Ids
      /\ \A id \in DOMAIN view.nodes : view.nodes[id].state \in ExpansionStates
      /\ DOMAIN view.kids \subseteq Ids \cup {Root}
  BY DEF TypeInv, ViewTyped, ViewIn
<1> QED  BY <1>1, <1>2, <1>3, TypedNow DEF TypeOK

\* Every identifier anywhere was handed out by GenerateNewVariableIdentifier or is a
\* field of such a one, for all scopes, fields, keys and bounds.
THEOREM SessionTyped == Spec => []TypeOK
BY AlwaysTyped, TypedOK, PTL

----------------------------------------------------------------------------
(* The locals view and the map agree. *)

MapInv == TypeInv /\ (Going => MapAgrees)

\* A list without repetitions is as long as its set is large.
LEMMA Counted ==
  ASSUME NEW S, NEW s \in Seq(S), IsInjective(s)
  PROVE  /\ Len(s) = Cardinality(ToSet(s)) /\ IsFiniteSet(ToSet(s))
         /\ s \in Seq(ToSet(s))
<1>1. Len(s) \in Nat /\ DOMAIN s = 1 .. Len(s) /\ s = [k \in 1 .. Len(s) |-> s[k]]
  OBVIOUS
<1>2. \A k \in 1 .. Len(s) : s[k] \in ToSet(s)
  BY <1>1 DEF ToSet
<1>3. s \in [1 .. Len(s) -> ToSet(s)]
  BY <1>1, <1>2
<1>4. s \in Seq(ToSet(s))
  BY <1>1, <1>3
<1>5. s \in Bijection(1 .. Len(s), ToSet(s))
  <2>1. \A a, b \in 1 .. Len(s) : s[a] = s[b] => a = b
    BY <1>1 DEF IsInjective
  <2>2. \A y \in ToSet(s) : \E k \in 1 .. Len(s) : s[k] = y
    BY <1>1 DEF ToSet
  <2> QED  BY <1>1, <1>3, <2>1, <2>2 DEF Bijection, Injection, Surjection, IsInjective
<1>6. ExistsBijection(1 .. Len(s), ToSet(s))
  BY <1>5 DEF ExistsBijection
<1>7. Len(s) = Cardinality(ToSet(s)) /\ IsFiniteSet(ToSet(s))
  BY <1>1, <1>6, FS_NatBijection, FS_CountingElements
<1> QED  BY <1>4, <1>7

\* A step that leaves the map and the rows at the top as they are keeps them agreed.
LEMMA StillAgrees ==
  ASSUME MapAgrees, UNCHANGED localToBackend, SameRows(view, view')
  PROVE  MapAgrees'
<1>1. IsInjective(Kids(view', Root)) /\ ToSet(Kids(view', Root)) = ToSet(Kids(view, Root))
  BY DEF MapAgrees, SameRows, Shrinks
<1> QED  BY <1>1 DEF MapAgrees

\* Every step keeps the map and the view agreed.
LEMMA AgreesNext == MapInv /\ [Next]_vars => MapInv'
<1> SUFFICES ASSUME MapInv, [Next]_vars PROVE MapInv'
  OBVIOUS
<1>1. TypeInv /\ TypeInv' /\ (Going => MapAgrees)
  BY TypedNext DEF MapInv
<1>2. SUFFICES ASSUME Going' PROVE MapAgrees'
  BY <1>1 DEF MapInv
<1>3. MapTyped /\ ViewIn(view, Ids) /\ buttons \subseteq Ids /\ Ids \subseteq AllIds
  BY <1>1, TypedNow DEF TypeInv
<1>4. ASSUME Kids(view', Root) = Kids(view, Root) PROVE SameRows(view, view')
  BY <1>4 DEF SameRows, Shrinks
<1>5. ASSUME UNCHANGED <<view, localToBackend, failed>> PROVE MapAgrees'
  BY <1>1, <1>2, <1>4, <1>5, StillAgrees DEF Going
<1>6. ASSUME NEW id \in buttons, Click(id) PROVE MapAgrees'
  <2>1. failed' = "none" => SameRows(view, view')
    BY <1>3, <1>6, Clicked
  <2>2. Going /\ UNCHANGED localToBackend
    BY <1>6 DEF Click
  <2> QED  BY <1>1, <1>2, <2>1, <2>2, StillAgrees DEF Going
<1>7. CASE OnWatchCreated \/ OnWatchesUpdated \/ OnWatchChildList
  <2>1. Kids(view', Root) = Kids(view, Root)
    BY <1>1, <1>7, WatchViews
  <2>2. Going /\ UNCHANGED localToBackend
    BY <1>7 DEF OnWatchCreated, OnWatchesUpdated, OnWatchChildList, Receive
  <2> QED  BY <1>1, <1>4, <2>1, <2>2, StillAgrees
<1>8. CASE OnRetrievedLocals
  <2> DEFINE names == Head(toUI).names
             map   == Forget(Known(names), Gone(names))
  <2>1. /\ Receive("OnRetrievedLocals")
        /\ view' = Result(names).view
        /\ failed' = IF Result(names).ok THEN "none" ELSE "RemoveNode"
        /\ localToBackend' = map
    BY <1>8, LocalsAction
  <2>2. names \in Seq(LocalNames) /\ Going
    BY <1>1, <2>1, Received, Notified
  <2>3. Result(names).ok
    BY <1>2, <2>1 DEF Going
  <2> HIDE DEF names
  <2>4. /\ Range(map) = Active(names) /\ IsInjective(map)
        /\ IsInjective(Kids(Result(names).view, Root))
        /\ ToSet(Kids(Result(names).view, Root)) = Active(names)
    BY <1>1, <1>3, <2>2, <2>3, LocalsMap
  <2> HIDE DEF map
  <2> QED  BY <2>1, <2>4 DEF MapAgrees
<1>9. ASSUME NEW key \in Keys, NotifyKey(key) PROVE MapAgrees'
  BY <1>5, <1>9 DEF NotifyKey
<1>10. CASE SetDebugCore \/ Paint \/ FileLoadCompleted \/ OnStoppedAtBreakpoint \/ OnStoppedAfterStepping \/ OnRetrievedStack
  BY <1>5, <1>10 DEF SetDebugCore, Paint, FileLoadCompleted, OnStoppedAtBreakpoint, OnStoppedAfterStepping, OnRetrievedStack, uiVars
<1>11. CASE GdbStep
  BY <1>5, <1>11 DEF GdbStep, GdbExec, GdbAbort, GdbAccept, GdbQuery, GdbVarCreate, GdbVarUpdate, GdbVarListChildren, GdbVarDelete, Perform, uiVars
<1>12. CASE UNCHANGED vars
  BY <1>5, <1>12 DEF vars, uiVars
<1> QED  BY <1>6, <1>7, <1>8, <1>9, <1>10, <1>11, <1>12 DEF Next, UserStep, UIStep

\* Both start empty.
LEMMA AgreesInit == Init => MapInv
<1> SUFFICES ASSUME Init PROVE MapAgrees
  BY TypedInit DEF MapInv
<1>1. DOMAIN localToBackend = {} /\ Kids(view, Root) = <<>>
  BY DEF Init, EmptyView, Kids
<1> QED  BY <1>1 DEF MapAgrees, IsInjective, ToSet, Range

\* So the map and the rows agree in every reachable state.
LEMMA AlwaysAgrees == Spec => []MapInv
BY AgreesInit, AgreesNext, PTL DEF Spec

\* That is ViewMatchesMap, with the rows counted.
LEMMA AgreesOK == MapInv => ViewMatchesMap
<1> SUFFICES ASSUME MapInv, Going PROVE ViewMatchesMap
  BY DEF ViewMatchesMap
<1>1. Kids(view, Root) \in Seq(Ids)
  BY TypedNow, KidsIn DEF MapInv
<1>2. MapAgrees
  BY DEF MapInv
<1> DEFINE rows == Kids(view, Root)
<1>3. IsInjective(rows) /\ ToSet(rows) = Range(localToBackend) /\ IsInjective(localToBackend)
  BY <1>2 DEF MapAgrees
<1> HIDE DEF rows
<1>4. Len(rows) = Cardinality(ToSet(rows)) /\ rows \in Seq(ToSet(rows))
  BY <1>1, <1>3, Counted DEF rows
<1>5. rows \in Seq(Range(localToBackend)) /\ Len(rows) = Cardinality(Range(localToBackend))
  BY <1>3, <1>4
<1> QED  BY <1>3, <1>5 DEF ViewMatchesMap, rows

\* The rows at the top level are the identifiers in local_to_backend_, each once, and
\* no two names share one, whatever is on its way and whatever the user clicks.
THEOREM RowsAreTheMap == Spec => []ViewMatchesMap
BY AlwaysAgrees, AgreesOK, PTL

----------------------------------------------------------------------------
(* No watch leaks: gdb creates and deletes in the order asked. *)

DeletionOf(id) == WatchRequest("DeleteWatch", id)

\* In q, every creation of an identifier outside r is followed by its deletion, and
\* the objects outside r have theirs.
Covered(q, objs, r) ==
  /\ \A k \in 1 .. Len(q) :
       q[k].method = "CreateWatch" /\ q[k].id \notin r =>
         \E j \in k + 1 .. Len(q) : q[j] = DeletionOf(q[k].id)
  /\ \A id \in objs : id \notin r => \E k \in 1 .. Len(q) : q[k] = DeletionOf(id)

\* gdb's objects that are variables.
Variables == {id \in DOMAIN objects : Len(id) = 1}

LeakInv == MapInv /\ (Going => Covered(toGdb, Variables, Range(localToBackend)))

\* More requests: creations of what is shown, and deletions of what is shown no longer.
LEMMA CoveredMore ==
  ASSUME NEW S, NEW q \in Seq(S), NEW t \in Seq(S), NEW objs, NEW r, NEW r2, Covered(q, objs, r),
         \A k \in 1 .. Len(t) : t[k].method = "CreateWatch" => t[k].id \in r2,
         \A id \in r \ r2 : \E k \in 1 .. Len(t) : t[k] = DeletionOf(id)
  PROVE  Covered(q \o t, objs, r2)
<1> DEFINE u == q \o t
           n == Len(q)
<1>1. /\ Len(u) = n + Len(t) /\ n \in Nat /\ Len(t) \in Nat
      /\ \A k \in 1 .. n : u[k] = q[k]
      /\ \A k \in 1 .. Len(t) : u[n + k] = t[k]
  OBVIOUS
<1> HIDE DEF u
<1>2. \A id \in r \ r2 : \E k \in n + 1 .. Len(u) : u[k] = DeletionOf(id)
  <2> SUFFICES ASSUME NEW id \in r \ r2 PROVE \E k \in n + 1 .. Len(u) : u[k] = DeletionOf(id)
    OBVIOUS
  <2>1. PICK k \in 1 .. Len(t) : t[k] = DeletionOf(id)
    OBVIOUS
  <2>2. n + k \in n + 1 .. Len(u) /\ u[n + k] = DeletionOf(id)
    BY <1>1, <2>1
  <2> QED  BY <2>2
<1>3. ASSUME NEW k \in 1 .. Len(u), u[k].method = "CreateWatch", u[k].id \notin r2
      PROVE  \E j \in k + 1 .. Len(u) : u[j] = DeletionOf(u[k].id)
  <2>1. k \in 1 .. n
    <3> SUFFICES ASSUME k \notin 1 .. n PROVE FALSE
      OBVIOUS
    <3>1. k - n \in 1 .. Len(t) /\ k = n + (k - n)
      BY <1>1
    <3>2. u[k] = t[k - n]
      BY <1>1, <3>1
    <3> QED  BY <1>3, <3>1, <3>2
  <2>2. u[k] = q[k]
    BY <1>1, <2>1
  <2>3. CASE u[k].id \in r
    <3>1. PICK j \in n + 1 .. Len(u) : u[j] = DeletionOf(u[k].id)
      BY <1>2, <1>3, <2>3
    <3>2. j \in k + 1 .. Len(u)
      BY <1>1, <2>1
    <3> QED  BY <3>1, <3>2
  <2>4. CASE u[k].id \notin r
    <3>1. PICK j \in k + 1 .. n : q[j] = DeletionOf(q[k].id)
      BY <1>3, <2>1, <2>2, <2>4 DEF Covered
    <3>2. j \in k + 1 .. Len(u) /\ u[j] = q[j]
      BY <1>1, <2>1
    <3> QED  BY <2>2, <3>1, <3>2
  <2> QED  BY <2>3, <2>4
<1>4. ASSUME NEW id \in objs, id \notin r2
      PROVE  \E k \in 1 .. Len(u) : u[k] = DeletionOf(id)
  <2>1. CASE id \in r
    <3>1. PICK j \in n + 1 .. Len(u) : u[j] = DeletionOf(id)
      BY <1>2, <1>4, <2>1
    <3>2. j \in 1 .. Len(u)
      BY <1>1
    <3> QED  BY <3>1, <3>2
  <2>2. CASE id \notin r
    <3>1. PICK j \in 1 .. n : q[j] = DeletionOf(id)
      BY <2>2 DEF Covered
    <3>2. j \in 1 .. Len(u) /\ u[j] = q[j]
      BY <1>1
    <3> QED  BY <3>1, <3>2
  <2> QED  BY <2>1, <2>2
<1>5. Covered(u, objs, r2)
  BY <1>3, <1>4 DEF Covered
<1> QED  BY <1>5 DEF u

\* The oldest request carried out: new objects are those it creates, and what it
\* deletes is gone.
LEMMA CoveredRest ==
  ASSUME NEW S, NEW q \in Seq(S), q # <<>>, NEW objs, NEW left, NEW r, Covered(q, objs, r),
         \A id \in left : \/ id \in objs /\ Head(q) # DeletionOf(id)
                          \/ Head(q).method = "CreateWatch" /\ Head(q).id = id
  PROVE  Covered(Tail(q), left, r)
<1> DEFINE u == Tail(q)
           n == Len(q)
<1>1. /\ n \in Nat \ {0} /\ Len(u) = n - 1 /\ Head(q) = q[1]
      /\ \A k \in 1 .. n - 1 : u[k] = q[k + 1]
  BY QueueFacts
<1> HIDE DEF u, n
<1>2. ASSUME NEW k \in 1 .. Len(u), u[k].method = "CreateWatch", u[k].id \notin r
      PROVE  \E j \in k + 1 .. Len(u) : u[j] = DeletionOf(u[k].id)
  <2>1. k + 1 \in 1 .. n /\ u[k] = q[k + 1]
    BY <1>1
  <2>2. PICK j \in (k + 1) + 1 .. n : q[j] = DeletionOf(u[k].id)
    BY <1>2, <2>1 DEF Covered, n
  <2>3. j - 1 \in k + 1 .. Len(u) /\ u[j - 1] = q[(j - 1) + 1] /\ (j - 1) + 1 = j
    BY <1>1, <2>1
  <2> QED  BY <2>2, <2>3
<1>3. ASSUME NEW id \in left, id \notin r
      PROVE  \E k \in 1 .. Len(u) : u[k] = DeletionOf(id)
  <2>1. PICK j \in 2 .. n : q[j] = DeletionOf(id)
    <3>1. CASE id \in objs /\ Head(q) # DeletionOf(id)
      <4>1. PICK j \in 1 .. n : q[j] = DeletionOf(id)
        BY <1>3, <3>1 DEF Covered, n
      <4>2. j # 1
        BY <1>1, <3>1, <4>1
      <4> QED  BY <1>1, <4>1, <4>2
    <3>2. CASE Head(q).method = "CreateWatch" /\ Head(q).id = id
      <4>1. \E j \in 1 + 1 .. n : q[j] = DeletionOf(id)
        BY <1>1, <1>3, <3>2 DEF Covered, n
      <4> QED  BY <4>1
    <3> QED  BY <3>1, <3>2
  <2>2. j - 1 \in 1 .. Len(u) /\ u[j - 1] = q[(j - 1) + 1] /\ (j - 1) + 1 = j
    BY <1>1
  <2> QED  BY <2>1, <2>2
<1> QED  BY <1>2, <1>3 DEF Covered, u

\* Requests that a key, a click and a refresh post neither create nor delete a watch.
LEMMA PlainMethods ==
  /\ \A key \in HandledKeys : \A k \in DOMAIN KeyMethods(key) : KeyMethods(key)[k] \notin {"CreateWatch", "DeleteWatch"}
  /\ \A m, id : m \notin {"CreateWatch", "DeleteWatch"} => Request(m).method \notin {"CreateWatch", "DeleteWatch"}
  /\ \A id, b : SetWatchExpanded(id, b).method \notin {"CreateWatch", "DeleteWatch"}
<1>1. \A key \in HandledKeys : \A k \in DOMAIN KeyMethods(key) : KeyMethods(key)[k] \notin {"CreateWatch", "DeleteWatch"}
  <2> SUFFICES ASSUME NEW key \in HandledKeys, NEW k \in DOMAIN KeyMethods(key)
               PROVE  KeyMethods(key)[k] \notin {"CreateWatch", "DeleteWatch"}
    OBVIOUS
  <2> DEFINE ms == KeyMethods(key)
  <2>1. ms \in Seq(Methods \ WatchMethods)
    BY PlainRequests
  <2> HIDE DEF ms
  <2>2. k \in DOMAIN ms => ms[k] \in Methods \ WatchMethods
    BY <2>1
  <2> QED  BY <2>2 DEF WatchMethods, ms
<1>2. \A m, id : m \notin {"CreateWatch", "DeleteWatch"} => Request(m).method \notin {"CreateWatch", "DeleteWatch"}
  BY DEF Request
<1>3. \A id, b : SetWatchExpanded(id, b).method \notin {"CreateWatch", "DeleteWatch"}
  BY DEF SetWatchExpanded, WatchRequest, Request
<1> QED  BY <1>1, <1>2, <1>3

\* Steps that post requests, none of which creates or deletes a watch, and leave the map and
\* gdb's objects alone.
PostsPlainly ==
  /\ UNCHANGED <<localToBackend, nextVariable, objects>>
  /\ \/ UNCHANGED toGdb
     \/ \E t \in Seq(Requests(UsedIds, Ids)) :
          /\ \A k \in DOMAIN t : t[k].method \notin {"CreateWatch", "DeleteWatch"}
          /\ Post(t)

\* All steps of the user and the UI thread but OnRetrievedLocals are such.
LEMMA PlainSteps ==
  ASSUME TypeInv,
         UserStep \/ SetDebugCore \/ Paint \/ FileLoadCompleted \/ OnStoppedAtBreakpoint \/ OnStoppedAfterStepping
           \/ OnRetrievedStack \/ OnWatchCreated \/ OnWatchesUpdated \/ OnWatchChildList
  PROVE  PostsPlainly /\ Going
<1> DEFINE R == Requests(UsedIds, Ids)
<1>1. ASSUME NEW key \in Keys, NotifyKey(key) PROVE PostsPlainly /\ Going
  <2> DEFINE t == [k \in DOMAIN KeyMethods(key) |-> Request(KeyMethods(key)[k])]
  <2>1. UNCHANGED <<localToBackend, nextVariable, objects>> /\ Going /\ (UNCHANGED toGdb \/ Post(t))
    BY <1>1 DEF NotifyKey, gdbVars
  <2>2. t \in Seq(R)
    BY PlainRequests, SessionAssumption
  <2>3. \A k \in DOMAIN t : t[k].method \notin {"CreateWatch", "DeleteWatch"}
    BY PlainMethods, SessionAssumption
  <2> HIDE DEF t, R
  <2> QED  BY <2>1, <2>2, <2>3 DEF PostsPlainly, R
<1>2. ASSUME NEW id \in buttons, Click(id) PROVE PostsPlainly /\ Going
  <2>1. UNCHANGED <<localToBackend, nextVariable, objects>> /\ Going
    BY <1>2 DEF Click, gdbVars
  <2>2. UNCHANGED toGdb \/ \E b \in BOOLEAN : Post(<<SetWatchExpanded(id, b)>>)
    BY <1>2, Clicked, TypedNow
  <2>3. ASSUME NEW b \in BOOLEAN, Post(<<SetWatchExpanded(id, b)>>)
        PROVE  PostsPlainly
    <3> DEFINE w == SetWatchExpanded(id, b)
    <3>1. w \in R /\ w.method \notin {"CreateWatch", "DeleteWatch"}
      BY PlainMethods, TypedNow, RequestShapes
    <3> HIDE DEF w, R
    <3>2. <<w>> \in Seq(R) /\ \A k \in DOMAIN <<w>> : <<w>>[k].method \notin {"CreateWatch", "DeleteWatch"}
      BY <3>1
    <3> QED  BY <2>1, <2>3, <3>2 DEF PostsPlainly, R, w
  <2> QED  BY <2>1, <2>2, <2>3 DEF PostsPlainly
<1>3. CASE SetDebugCore
  <2> DEFINE a == Request("SetDebugNotification")
             b == Request("LoadProcess")
  <2>1. UNCHANGED <<localToBackend, nextVariable, objects>> /\ Going /\ Post(<<a, b>>)
    BY <1>3 DEF SetDebugCore, gdbVars
  <2>2. <<a, b>> \in Seq(R) /\ a.method \notin {"CreateWatch", "DeleteWatch"} /\ b.method \notin {"CreateWatch", "DeleteWatch"}
    BY PlainRequests, PlainMethods
  <2> HIDE DEF a, b, R
  <2>3. \A k \in DOMAIN <<a, b>> : <<a, b>>[k].method \notin {"CreateWatch", "DeleteWatch"}
    BY <2>2
  <2> QED  BY <2>1, <2>2, <2>3 DEF PostsPlainly, R
<1>4. CASE OnStoppedAtBreakpoint \/ OnStoppedAfterStepping
  <2> DEFINE a == Request("GetStack")
             b == Request("GetLocals")
             c == Request("UpdateWatches")
  <2>1. UNCHANGED <<localToBackend, nextVariable, objects>> /\ Going /\ Post(<<a, b, c>>)
    BY <1>4 DEF OnStoppedAtBreakpoint, OnStoppedAfterStepping, Receive, UpdatePassiveDisplays, gdbVars
  <2>2. /\ <<a, b, c>> \in Seq(R)
        /\ a.method \notin {"CreateWatch", "DeleteWatch"} /\ b.method \notin {"CreateWatch", "DeleteWatch"} /\ c.method \notin {"CreateWatch", "DeleteWatch"}
    BY PlainRequests, PlainMethods DEF UpdatePassiveDisplays
  <2> HIDE DEF a, b, c, R
  <2>3. \A k \in DOMAIN <<a, b, c>> : <<a, b, c>>[k].method \notin {"CreateWatch", "DeleteWatch"}
    BY <2>2
  <2> QED  BY <2>1, <2>2, <2>3 DEF PostsPlainly, R
<1>5. CASE Paint \/ FileLoadCompleted \/ OnRetrievedStack \/ OnWatchCreated \/ OnWatchesUpdated \/ OnWatchChildList
  <2>1. UNCHANGED <<localToBackend, nextVariable, objects, toGdb>> /\ Going
    BY <1>5 DEF Paint, FileLoadCompleted, OnRetrievedStack, OnWatchCreated, OnWatchesUpdated, OnWatchChildList,
                Receive, uiVars, gdbVars, queueVars
  <2> QED  BY <2>1 DEF PostsPlainly
<1> QED  BY <1>1, <1>2, <1>3, <1>4, <1>5 DEF UserStep

\* Each of gdb's steps carries out the oldest request: the variables left are older
\* ones that it does not delete, or the one it creates.
LEMMA VariablesLeft ==
  ASSUME TypeInv, GdbStep
  PROVE  /\ toGdb # <<>> /\ toGdb' = Tail(toGdb) /\ Going
         /\ UNCHANGED <<localToBackend, nextVariable, failed>>
         /\ \/ /\ Head(toGdb).method = "CreateWatch"
               /\ Variables' \in {Variables, Variables \cup {Head(toGdb).id}}
            \/ /\ Head(toGdb).method = "DeleteWatch"
               /\ Variables' = Variables \ {Head(toGdb).id}
            \/ /\ Head(toGdb).method \notin {"CreateWatch", "DeleteWatch"}
               /\ Variables' = Variables
<1> DEFINE r == Head(toGdb)
<1>1. ASSUME NEW methods, Perform(methods)
      PROVE  /\ toGdb # <<>> /\ toGdb' = Tail(toGdb) /\ Going /\ r.method \in methods
             /\ r \in Requests(UsedIds, Ids)
             /\ UNCHANGED <<localToBackend, nextVariable, failed>>
  BY <1>1, Performed DEF uiVars, Perform
<1> HIDE DEF r
<1>2. ASSUME UNCHANGED objects PROVE Variables' = Variables
  BY <1>2 DEF Variables
<1>3. CASE GdbExec \/ GdbAbort \/ GdbAccept \/ GdbQuery \/ GdbVarUpdate
  <2>1. PICK methods \in {RunMethods \cup StepMethods, {"StopDebugging"}, {"GetStack", "GetLocals"}, {"UpdateWatches"},
                          {"SetDebugNotification", "LoadProcess", "CollapseWatch"}} : Perform(methods)
    BY <1>3 DEF GdbExec, GdbAbort, GdbAccept, GdbQuery, GdbVarUpdate
  <2>2. "CreateWatch" \notin methods /\ "DeleteWatch" \notin methods
    BY DEF RunMethods, StepMethods
  <2>3. UNCHANGED objects
    BY <1>3 DEF GdbExec, GdbAbort, GdbAccept, GdbQuery, GdbVarUpdate, gdbVars
  <2> QED  BY <1>1, <1>2, <2>1, <2>2, <2>3 DEF r
<1>4. CASE GdbVarCreate
  <2>1. Perform({"CreateWatch"}) /\ (objects' = Put(objects, r.id, r.name) \/ UNCHANGED objects)
    BY <1>4 DEF GdbVarCreate, r
  <2>2. r.method = "CreateWatch" /\ r.id \in UsedIds
    BY <1>1, <2>1, Requested
  <2>3. Len(r.id) = 1
    BY <2>2, UsedShapes, TypedNow
  <2>4. objects' = Put(objects, r.id, r.name) => Variables' = Variables \cup {r.id}
    BY <2>3 DEF Variables, Put
  <2> QED  BY <1>1, <1>2, <2>1, <2>2, <2>4 DEF r
<1>5. CASE GdbVarListChildren
  <2> DEFINE id       == r.id
             n        == IF Len(id) = 1 /\ id \in DOMAIN objects THEN Fields[objects[id]] ELSE 0
             children == [k \in 1 .. n |-> Append(id, k)]
  <2>1. /\ Perform({"ExpandWatch"})
        /\ \/ UNCHANGED objects
           \/ /\ id \in DOMAIN objects
              /\ objects' = [o \in DOMAIN objects \cup ToSet(children) |->
                               IF o \in DOMAIN objects THEN objects[o] ELSE objects[id]]
    BY <1>5 DEF GdbVarListChildren, r
  <2>2. \A c \in ToSet(children) : Len(c) # 1
    <3> SUFFICES ASSUME NEW k \in 1 .. n PROVE Len(Append(id, k)) # 1
      BY DEF ToSet
    <3>1. Len(id) = 1 /\ id \in DOMAIN objects
      OBVIOUS
    <3> HIDE DEF n, id
    <3>2. id \in Seq(Nat)
      BY <3>1, TypedNow, IdShapes
    <3>3. k \in Int
      OBVIOUS
    <3>4. id \in Seq(Int)
      BY <3>2
    <3>5. Len(Append(id, k)) = Len(id) + 1
      BY <3>3, <3>4, AppendFacts
    <3> QED  BY <3>1, <3>5
  <2> HIDE DEF children, id
  <2>3. Variables' = Variables
    <3>1. CASE UNCHANGED objects
      BY <1>2, <3>1
    <3>2. CASE objects' = [o \in DOMAIN objects \cup ToSet(children) |->
                               IF o \in DOMAIN objects THEN objects[o] ELSE objects[id]]
      BY <2>2, <3>2 DEF Variables
    <3> QED  BY <2>1, <3>1, <3>2
  <2> QED  BY <1>1, <2>1, <2>3 DEF r
<1>6. CASE GdbVarDelete
  <2>1. /\ Perform({"DeleteWatch"})
        /\ objects' = [id \in {o \in DOMAIN objects : ~IsPrefix(r.id, o)} |-> objects[id]]
    BY <1>6 DEF GdbVarDelete, r
  <2>2. r.method = "DeleteWatch" /\ r.id \in UsedIds
    BY <1>1, <2>1, Requested
  <2>3. r.id \in Tops
    BY <2>2, UsedShapes, TypedNow DEF TopsTo
  <2>4. ASSUME NEW o \in Variables PROVE IsPrefix(r.id, o) <=> o = r.id
    <3>1. o \in Tops
      BY TypedNow, IdShapes DEF Variables
    <3>2. r.id \in Seq(Nat) /\ o \in Seq(Nat) /\ Len(r.id) = 1 /\ Len(o) = 1
      BY <2>3, <3>1, IdShapes
    <3> DEFINE a == r.id
    <3> HIDE DEF a
    <3>3. a \in Seq(Nat) /\ Len(a) = 1 /\ a = <<a[1]>> /\ o = <<o[1]>>
      BY <2>3, <3>1, IdShapes DEF a
    <3>4. IsPrefix(a, o) <=> o = a
      BY <3>2, <3>3 DEF IsPrefix
    <3> QED  BY <3>4 DEF a
  <2>5. Variables' = Variables \ {r.id}
    BY <2>1, <2>4 DEF Variables
  <2> QED  BY <1>1, <2>1, <2>2, <2>5 DEF r
<1> QED  BY <1>3, <1>4, <1>5, <1>6 DEF GdbStep

\* Every step keeps the deletions of what is not shown on their way.
LEMMA LeakNext == LeakInv /\ [Next]_vars => LeakInv'
<1> SUFFICES ASSUME LeakInv, [Next]_vars PROVE LeakInv'
  OBVIOUS
<1>1. MapInv' /\ TypeInv /\ (Going => MapAgrees /\ Covered(toGdb, Variables, Range(localToBackend)))
  BY AgreesNext DEF LeakInv, MapInv
<1>2. SUFFICES ASSUME Going' PROVE Covered(toGdb', Variables', Range(localToBackend'))
  <2>1. Range(localToBackend)' = Range(localToBackend')
    BY DEF Range
  <2> QED  BY <1>1, <1>2, <2>1 DEF LeakInv
<1> DEFINE R == Requests(UsedIds, Ids)
           shownIds == Range(localToBackend)
<1>3. toGdb \in Seq(R)
  BY <1>1, TypedNow
<1>4. CASE UserStep \/ SetDebugCore \/ Paint \/ FileLoadCompleted \/ OnStoppedAtBreakpoint \/ OnStoppedAfterStepping
           \/ OnRetrievedStack \/ OnWatchCreated \/ OnWatchesUpdated \/ OnWatchChildList
  <2>1. PostsPlainly /\ Going
    BY <1>1, <1>4, PlainSteps
  <2>2. Variables' = Variables /\ localToBackend' = localToBackend
    BY <2>1 DEF PostsPlainly, Variables
  <2>3. Covered(toGdb, Variables, shownIds)
    BY <1>1, <2>1
  <2> HIDE DEF shownIds
  <2>4. ASSUME NEW t \in Seq(R), \A k \in DOMAIN t : t[k].method \notin {"CreateWatch", "DeleteWatch"}, Post(t)
        PROVE  Covered(toGdb', Variables, shownIds)
    <3>1. \A k \in 1 .. Len(t) : t[k].method = "CreateWatch" => t[k].id \in shownIds
      BY <2>4
    <3>2. \A id \in shownIds \ shownIds : \E k \in 1 .. Len(t) : t[k] = DeletionOf(id)
      OBVIOUS
    <3> HIDE DEF R
    <3>3. Covered(toGdb \o t, Variables, shownIds)
      BY <1>3, <2>3, <2>4, <3>1, <3>2, CoveredMore
    <3> QED  BY <2>4, <3>3 DEF Post
  <2>5. Covered(toGdb', Variables, shownIds)
    BY <2>1, <2>3, <2>4 DEF PostsPlainly
  <2> QED  BY <2>2, <2>5 DEF shownIds
<1>5. CASE OnRetrievedLocals
  <2> DEFINE names == Head(toUI).names
             fresh == FreshNames(names)
             ids   == NewIds(fresh)
             gone  == Gone(names)
             c     == Created(names)
             d     == DeleteWatches(gone)
             m     == Counter(names)
             M     == Requests(TopsTo(m), IdsTo(m))
             act   == Active(names)
  <2>1. /\ Receive("OnRetrievedLocals")
        /\ localToBackend' = Forget(Known(names), gone)
        /\ failed' = IF Result(names).ok THEN "none" ELSE "RemoveNode"
        /\ toGdb' = toGdb \o (c \o d)
        /\ UNCHANGED objects
    BY <1>5, LocalsAction DEF Post, gdbVars
  <2>2. names \in Seq(LocalNames) /\ Going
    BY <1>1, <2>1, Received, Notified
  <2> HIDE DEF names
  <2>3. MapTyped /\ ViewIn(view, Ids) /\ MapAgrees /\ nextVariable \in Nat
    BY <1>1, <2>2, TypedNow DEF TypeInv
  <2>4. ToSet(gone) = shownIds \ act /\ Range(Forget(Known(names), gone)) = act
    BY <2>2, <2>3, LocalsMap
  <2>5. /\ ids \in Seq(TopsTo(m)) /\ gone \in Seq(TopsTo(m)) /\ fresh \in Seq(LocalNames) /\ m \in Nat
        /\ nextVariable <= m
    BY <2>2, <2>3, AddedFacts, GoneFacts, FreshFacts
  <2>6. DOMAIN ids = DOMAIN fresh
    <3> HIDE DEF fresh
    <3> QED  BY <2>3, <2>5, NewIdFacts
  <2>7. \A k \in DOMAIN fresh : ids[k] \in act
    <3> SUFFICES ASSUME NEW k \in DOMAIN fresh PROVE ids[k] \in act
      OBVIOUS
    <3>1. Known(names)[fresh[k]] = ids[k]
      BY <2>2, <2>3, KnownFacts
    <3>2. fresh[k] \in ToSet(names)
      <4>1. fresh[k] \in ToSet(fresh) /\ ToSet(fresh) \subseteq ToSet(names)
        BY <2>2, FreshFacts DEF ToSet
      <4> QED  BY <4>1
    <3> QED  BY <3>1, <3>2 DEF Active
  <2> HIDE DEF fresh, ids, gone, act, m
  <2>8. /\ toGdb \in Seq(M) /\ c \in Seq(M) /\ d \in Seq(M)
        /\ Len(c) = Len(fresh) /\ Len(d) = Len(gone)
        /\ \A k \in 1 .. Len(c) : c[k] = CreateWatch(ids[k], fresh[k])
        /\ \A k \in 1 .. Len(d) : d[k] = DeletionOf(gone[k])
    BY <1>1, <2>2, LocalsRequests DEF RequestsAfter, DeletionOf, fresh, ids, gone, m
  <2>9. DOMAIN fresh = 1 .. Len(fresh) /\ DOMAIN gone = 1 .. Len(gone)
    BY <2>5
  <2> HIDE DEF c, d, M
  <2> DEFINE t == c \o d
  <2>14. /\ t \in Seq(M) /\ Len(t) = Len(c) + Len(d) /\ Len(c) \in Nat /\ Len(d) \in Nat
         /\ \A k \in 1 .. Len(c) : t[k] = c[k]
         /\ \A k \in 1 .. Len(d) : t[Len(c) + k] = d[k]
    <3>1. c \in Seq(M) /\ d \in Seq(M)
      BY <2>8
    <3> QED  BY <3>1
  <2> HIDE DEF t
  <2>15. ASSUME NEW k \in 1 .. Len(t), t[k].method = "CreateWatch"
         PROVE  t[k].id \in act
    <3>1. CASE k \in 1 .. Len(c)
      <4>1. t[k] = CreateWatch(ids[k], fresh[k]) /\ ids[k] \in act
        BY <2>7, <2>8, <2>9, <2>14, <3>1
      <4> DEFINE w == WatchRequest("CreateWatch", ids[k])
      <4>2. w = [method |-> "CreateWatch", id |-> ids[k], name |-> NoName]
        BY DEF WatchRequest, Request
      <4>3. CreateWatch(ids[k], fresh[k]) = [w EXCEPT !.name = fresh[k]]
        BY DEF CreateWatch
      <4> HIDE DEF w
      <4>4. CreateWatch(ids[k], fresh[k]).id = ids[k]
        BY <4>2, <4>3
      <4> QED  BY <4>1, <4>4
    <3>2. CASE k \notin 1 .. Len(c)
      <4>1. k - Len(c) \in 1 .. Len(d) /\ k = Len(c) + (k - Len(c))
        BY <2>14, <3>2
      <4>2. t[k] = d[k - Len(c)]
        BY <2>14, <4>1
      <4>3. t[k] = DeletionOf(gone[k - Len(c)])
        BY <2>8, <4>1, <4>2
      <4>4. t[k].method = "DeleteWatch"
        BY <4>3 DEF DeletionOf, WatchRequest, Request
      <4> QED  BY <2>15, <4>4
    <3> QED  BY <3>1, <3>2
  <2>16. \A id \in shownIds \ act : \E k \in 1 .. Len(t) : t[k] = DeletionOf(id)
    <3> SUFFICES ASSUME NEW id \in shownIds \ act PROVE \E k \in 1 .. Len(t) : t[k] = DeletionOf(id)
      OBVIOUS
    <3>1. PICK j \in 1 .. Len(gone) : gone[j] = id
      BY <2>4, <2>9 DEF ToSet
    <3>2. d[j] = DeletionOf(id) /\ j \in 1 .. Len(d)
      BY <2>8, <3>1
    <3>3. Len(c) + j \in 1 .. Len(t) /\ t[Len(c) + j] = DeletionOf(id)
      BY <2>14, <3>2
    <3> QED  BY <3>3
  <2>17. Covered(toGdb, Variables, shownIds)
    BY <1>1, <2>2
  <2> HIDE DEF shownIds
  <2>18. Covered(toGdb \o t, Variables, act)
    BY <2>8, <2>14, <2>15, <2>16, <2>17, CoveredMore
  <2>19. Variables' = Variables /\ toGdb' = toGdb \o t /\ Range(localToBackend') = act
    BY <2>1, <2>4 DEF Variables, t
  <2> QED  BY <2>18, <2>19
<1>6. CASE GdbStep
  <2> DEFINE r == Head(toGdb)
  <2>1. /\ toGdb # <<>> /\ toGdb' = Tail(toGdb) /\ Going /\ UNCHANGED localToBackend
        /\ \/ r.method = "CreateWatch" /\ Variables' \in {Variables, Variables \cup {r.id}}
           \/ r.method = "DeleteWatch" /\ Variables' = Variables \ {r.id}
           \/ r.method \notin {"CreateWatch", "DeleteWatch"} /\ Variables' = Variables
    BY <1>1, <1>6, VariablesLeft
  <2>2. \A id : DeletionOf(id).method = "DeleteWatch" /\ DeletionOf(id).id = id
    BY DEF DeletionOf, WatchRequest, Request
  <2> DEFINE left == Variables'
  <2>3. Covered(toGdb, Variables, shownIds)
    BY <1>1, <2>1
  <2> HIDE DEF r, left, R, shownIds
  <2>4. \A id \in left : \/ id \in Variables /\ r # DeletionOf(id)
                         \/ r.method = "CreateWatch" /\ r.id = id
    BY <2>1, <2>2 DEF left
  <2>5. Covered(Tail(toGdb), left, shownIds)
    BY <1>3, <2>1, <2>3, <2>4, CoveredRest DEF r
  <2> QED  BY <2>1, <2>5 DEF left, shownIds
<1>7. CASE UNCHANGED vars
  <2>1. UNCHANGED <<failed, toGdb, localToBackend, objects>>
    BY <1>7 DEF vars, uiVars, queueVars, gdbVars
  <2>2. Variables' = Variables
    BY <2>1 DEF Variables
  <2> QED  BY <1>1, <1>2, <2>1, <2>2 DEF Going
<1> QED  BY <1>4, <1>5, <1>6, <1>7 DEF Next, UIStep

\* Nothing has been created at the start.
LEMMA AlwaysCovered == Spec => []LeakInv
<1>1. Init => LeakInv
  <2> SUFFICES ASSUME Init PROVE Covered(toGdb, Variables, Range(localToBackend))
    BY AgreesInit DEF LeakInv
  <2> QED  BY DEF Init, Covered, Variables
<1> QED  BY <1>1, LeakNext, PTL DEF Spec

\* A variable object that the map does not know has its DeleteWatch on the way, even
\* when its creation was still on its way as the name left the scope.
THEOREM NoWatchLeaks == Spec => []NoWatchLeak
<1>1. LeakInv => NoWatchLeak
  <2> SUFFICES ASSUME LeakInv, Going, NEW id \in DOMAIN objects, ~(Len(id) > 1), id \notin Range(localToBackend)
               PROVE  \E k \in DOMAIN toGdb : toGdb[k] = WatchRequest("DeleteWatch", id)
    BY DEF NoWatchLeak
  <2>1. TypeInv /\ Covered(toGdb, Variables, Range(localToBackend))
    BY DEF LeakInv, MapInv
  <2>2. id \in Variables
    <3>1. id \in AllIds
      BY <2>1, TypedNow
    <3>2. Len(id) \in {1, 2}
      BY <3>1, IdShapes
    <3> QED  BY <3>2 DEF Variables
  <2>3. \E k \in 1 .. Len(toGdb) : toGdb[k] = DeletionOf(id)
    BY <2>1, <2>2 DEF Covered
  <2>4. DOMAIN toGdb = 1 .. Len(toGdb)
    BY <2>1, TypedNow
  <2> QED  BY <2>3, <2>4 DEF DeletionOf
<1> QED  BY <1>1, AlwaysCovered, PTL

----------------------------------------------------------------------------
(* What is displayed catches up with the last stop. *)

\* The last notification of a kind in E on its way is in good; when there is none,
\* now holds.
Latest(q, E, good, now) ==
  \/ \E k \in 1 .. Len(q) : /\ q[k] \in good /\ q[k].event \in E
                            /\ \A j \in k + 1 .. Len(q) : q[j].event \notin E
  \/ now /\ \A j \in 1 .. Len(q) : q[j].event \notin E

HasEvent(q, E)  == \E k \in 1 .. Len(q) : q[k].event \in E
HasMethod(q, m) == \E k \in 1 .. Len(q) : q[k].method = m

\* One more notification, of another kind or in good.
LEMMA LatestAppend ==
  ASSUME NEW S, NEW q \in Seq(S), NEW x \in S, NEW E, NEW good, NEW now
  PROVE  /\ x.event \notin E /\ Latest(q, E, good, now) => Latest(Append(q, x), E, good, now)
         /\ x.event \in E /\ x \in good => Latest(Append(q, x), E, good, now)
         /\ HasEvent(q, E) \/ x.event \in E => HasEvent(Append(q, x), E)
<1> DEFINE u == Append(q, x)
           n == Len(q)
<1>1. n \in Nat /\ Len(u) = n + 1 /\ u[n + 1] = x /\ \A k \in 1 .. n : u[k] = q[k]
  BY AppendFacts
<1> HIDE DEF u
<1>2. \A k \in 1 .. Len(u) : k \in 1 .. n \/ k = n + 1
  BY <1>1
<1>3. ASSUME x.event \notin E, Latest(q, E, good, now) PROVE Latest(u, E, good, now)
  <2>1. CASE \E k \in 1 .. n : /\ q[k] \in good /\ q[k].event \in E
                               /\ \A j \in k + 1 .. n : q[j].event \notin E
    <3>1. PICK k \in 1 .. n : /\ q[k] \in good /\ q[k].event \in E
                              /\ \A j \in k + 1 .. n : q[j].event \notin E
      BY <2>1
    <3>2. k \in 1 .. Len(u) /\ u[k] = q[k]
      BY <1>1
    <3>3. ASSUME NEW j \in k + 1 .. Len(u) PROVE u[j].event \notin E
      <4>1. CASE j = n + 1
        BY <1>1, <1>3, <4>1
      <4>2. CASE j # n + 1
        <5>1. j \in k + 1 .. n /\ u[j] = q[j]
          BY <1>1, <4>2
        <5> QED  BY <3>1, <5>1
      <4> QED  BY <4>1, <4>2
    <3> QED  BY <3>1, <3>2, <3>3 DEF Latest
  <2>2. CASE now /\ \A j \in 1 .. n : q[j].event \notin E
    <3>1. \A j \in 1 .. Len(u) : u[j].event \notin E
      BY <1>1, <1>2, <1>3, <2>2
    <3> QED  BY <2>2, <3>1 DEF Latest
  <2> QED  BY <1>3, <2>1, <2>2 DEF Latest
<1>4. ASSUME x.event \in E, x \in good PROVE Latest(u, E, good, now)
  <2>1. n + 1 \in 1 .. Len(u) /\ \A j \in (n + 1) + 1 .. Len(u) : u[j].event \notin E
    BY <1>1
  <2> QED  BY <1>1, <1>4, <2>1 DEF Latest
<1>5. ASSUME HasEvent(q, E) \/ x.event \in E PROVE HasEvent(u, E)
  BY <1>1, <1>5 DEF HasEvent
<1> QED  BY <1>3, <1>4, <1>5 DEF u

\* One notification less: if it was the last of its kind and good, then must hold.
LEMMA LatestTail ==
  ASSUME NEW S, NEW q \in Seq(S), q # <<>>, NEW E, NEW good, NEW now, NEW then
  PROVE  /\ (/\ Latest(q, E, good, now)
             /\ Head(q).event \in E /\ Head(q) \in good => then
             /\ Head(q).event \notin E /\ now => then)
              => Latest(Tail(q), E, good, then)
         /\ HasEvent(q, E) /\ Head(q).event \notin E => HasEvent(Tail(q), E)
<1> DEFINE u == Tail(q)
           n == Len(q)
<1>1. /\ n \in Nat \ {0} /\ Len(u) = n - 1 /\ Head(q) = q[1]
      /\ \A k \in 1 .. n - 1 : u[k] = q[k + 1]
  BY QueueFacts
<1> HIDE DEF u, n
<1>2. \A k \in 2 .. n : k - 1 \in 1 .. Len(u) /\ u[k - 1] = q[k]
  <2> SUFFICES ASSUME NEW k \in 2 .. n PROVE k - 1 \in 1 .. Len(u) /\ u[k - 1] = q[k]
    OBVIOUS
  <2>1. k - 1 \in 1 .. n - 1 /\ (k - 1) + 1 = k
    BY <1>1
  <2> QED  BY <1>1, <2>1
<1>3. ASSUME Latest(q, E, good, now),
             Head(q).event \in E /\ Head(q) \in good => then,
             Head(q).event \notin E /\ now => then
      PROVE  Latest(u, E, good, then)
  <2>1. CASE \E k \in 1 .. n : /\ q[k] \in good /\ q[k].event \in E
                               /\ \A j \in k + 1 .. n : q[j].event \notin E
    <3>1. PICK k \in 1 .. n : /\ q[k] \in good /\ q[k].event \in E
                              /\ \A j \in k + 1 .. n : q[j].event \notin E
      BY <2>1
    <3>2. CASE k = 1
      <4>1. \A j \in 1 .. Len(u) : u[j].event \notin E
        <5> SUFFICES ASSUME NEW j \in 1 .. Len(u) PROVE u[j].event \notin E
          OBVIOUS
        <5>1. j + 1 \in k + 1 .. n /\ u[j] = q[j + 1]
          BY <1>1, <3>2
        <5> QED  BY <3>1, <5>1
      <4>2. then
        BY <1>1, <1>3, <3>1, <3>2
      <4> QED  BY <4>1, <4>2 DEF Latest
    <3>3. CASE k # 1
      <4>1. k - 1 \in 1 .. Len(u) /\ u[k - 1] = q[k]
        BY <1>1, <1>2, <3>3
      <4>2. ASSUME NEW j \in (k - 1) + 1 .. Len(u) PROVE u[j].event \notin E
        <5>1. j + 1 \in k + 1 .. n /\ u[j] = q[j + 1]
          BY <1>1, <3>3
        <5> QED  BY <3>1, <5>1
      <4> QED  BY <3>1, <4>1, <4>2 DEF Latest
    <3> QED  BY <3>2, <3>3
  <2>2. CASE now /\ \A j \in 1 .. n : q[j].event \notin E
    <3>1. \A j \in 1 .. Len(u) : u[j].event \notin E
      <4> SUFFICES ASSUME NEW j \in 1 .. Len(u) PROVE u[j].event \notin E
        OBVIOUS
      <4>1. j + 1 \in 1 .. n /\ u[j] = q[j + 1]
        BY <1>1
      <4> QED  BY <2>2, <4>1
    <3>2. then
      BY <1>1, <1>3, <2>2
    <3> QED  BY <3>1, <3>2 DEF Latest
  <2> QED  BY <1>3, <2>1, <2>2 DEF Latest, n
<1>4. ASSUME HasEvent(q, E), Head(q).event \notin E PROVE HasEvent(u, E)
  <2>1. PICK k \in 1 .. n : q[k].event \in E
    BY <1>4 DEF HasEvent, n
  <2>2. k \in 2 .. n
    BY <1>1, <1>4, <2>1
  <2> QED  BY <1>2, <2>1, <2>2 DEF HasEvent
<1> QED  BY <1>3, <1>4 DEF u

\* Requests are added at the end and carried out from the front.
LEMMA HasMethodFacts ==
  ASSUME NEW S, NEW q \in Seq(S), NEW m
  PROVE  /\ \A t \in Seq(S) : HasMethod(q, m) \/ HasMethod(t, m) => HasMethod(q \o t, m)
         /\ q # <<>> /\ HasMethod(q, m) /\ Head(q).method # m => HasMethod(Tail(q), m)
<1>1. ASSUME NEW t \in Seq(S), HasMethod(q, m) \/ HasMethod(t, m) PROVE HasMethod(q \o t, m)
  <2> DEFINE u == q \o t
  <2>1. /\ Len(u) = Len(q) + Len(t) /\ Len(q) \in Nat /\ Len(t) \in Nat
        /\ \A k \in 1 .. Len(q) : u[k] = q[k] /\ k \in 1 .. Len(u)
        /\ \A k \in 1 .. Len(t) : u[Len(q) + k] = t[k] /\ Len(q) + k \in 1 .. Len(u)
    OBVIOUS
  <2> HIDE DEF u
  <2>2. HasMethod(u, m)
    BY <1>1, <2>1 DEF HasMethod
  <2> QED  BY <2>2 DEF u
<1>2. ASSUME q # <<>>, HasMethod(q, m), Head(q).method # m PROVE HasMethod(Tail(q), m)
  <2> DEFINE u == Tail(q)
  <2>1. /\ Len(q) \in Nat \ {0} /\ Len(u) = Len(q) - 1 /\ Head(q) = q[1]
        /\ \A k \in 1 .. Len(q) - 1 : u[k] = q[k + 1]
    BY <1>2, QueueFacts
  <2> HIDE DEF u
  <2>2. PICK k \in 1 .. Len(q) : q[k].method = m
    BY <1>2 DEF HasMethod
  <2>3. k # 1
    BY <1>2, <2>1, <2>2
  <2>4. k - 1 \in 1 .. Len(u) /\ (k - 1) + 1 = k
    BY <2>1, <2>3
  <2>5. u[k - 1].method = m
    BY <2>1, <2>2, <2>4
  <2> QED  BY <2>4, <2>5 DEF HasMethod, u
<1> QED  BY <1>1, <1>2

\* Stop notifications of stop n, and what is read at a stop.
At(E, n)     == [event : E, at : {n}]
Locals(scope) == [event : {"OnRetrievedLocals"}, names : {scope}]

\* The line is that of the last stop; the file that of the last breakpoint, after the
\* loads on their way.
LineFollows == Latest(toUI, Stops, At(Stops, program.stops), shown.line = program.stops)

FileRead == IF loads = <<>> THEN shown.file = program.lastBreak
            ELSE loads[Len(loads)] = program.lastBreak

FileFollows ==
  Latest(toUI, {"OnStoppedAtBreakpoint"}, At({"OnStoppedAtBreakpoint"}, program.lastBreak), FileRead)

\* The stack and the names are those of the last stop, or will be asked for.
Asked(method) == HasEvent(toUI, Stops) \/ HasMethod(toGdb, method)

StackFollows ==
  Stopped => \/ Asked("GetStack")
             \/ Latest(toUI, {"OnRetrievedStack"}, At({"OnRetrievedStack"}, program.stops),
                       shown.stack = program.stops)

NamesFollow ==
  Stopped => \/ Asked("GetLocals")
             \/ Latest(toUI, {"OnRetrievedLocals"}, Locals(program.scope),
                       DOMAIN localToBackend = ToSet(program.scope))

DisplayFollows == LineFollows /\ FileFollows /\ StackFollows /\ NamesFollow

DisplayInv == MapInv /\ (Going => DisplayFollows)

\* A step that changes nothing displayed and nothing on its way to the UI thread.
LEMMA DisplayKept ==
  ASSUME TypeInv, DisplayFollows, UNCHANGED <<toUI, loads, shown, program, localToBackend>>,
         \A m : HasMethod(toGdb, m) => HasMethod(toGdb', m)
  PROVE  DisplayFollows'
<1>1. LineFollows'
  BY DEF DisplayFollows, LineFollows
<1>2. FileFollows'
  BY DEF DisplayFollows, FileFollows, FileRead
<1>3. StackFollows'
  BY DEF DisplayFollows, StackFollows, Stopped, Asked
<1>4. NamesFollow'
  BY DEF DisplayFollows, NamesFollow, Stopped, Asked
<1> QED  BY <1>1, <1>2, <1>3, <1>4 DEF DisplayFollows

\* A file that has been loaded is displayed.
LEMMA DisplayLoaded ==
  ASSUME TypeInv, DisplayFollows, FileLoadCompleted
  PROVE  DisplayFollows'
<1>1. /\ UNCHANGED <<toUI, program, localToBackend, toGdb>> /\ loads # <<>>
      /\ loads' = Tail(loads) /\ shown' = [shown EXCEPT !.file = Head(loads)]
  BY DEF FileLoadCompleted, gdbVars
<1>2. shown'.line = shown.line /\ shown'.stack = shown.stack /\ shown'.file = Head(loads)
  BY <1>1, TypedNow
<1>3. LineFollows'
  BY <1>1, <1>2 DEF DisplayFollows, LineFollows
<1>4. FileRead => FileRead'
  <2> SUFFICES ASSUME FileRead PROVE FileRead'
    OBVIOUS
  <2>1. /\ Head(loads) = loads[1] /\ Len(loads) \in Nat \ {0} /\ Len(loads') = Len(loads) - 1
        /\ loads' \in Seq(StopNumbers) /\ \A k \in 1 .. Len(loads) - 1 : loads'[k] = loads[k + 1]
    BY <1>1, QueueFacts, TypedNow
  <2>2. loads[Len(loads)] = program.lastBreak
    BY <1>1 DEF FileRead
  <2>3. CASE loads' = <<>>
    <3>1. Len(loads) = 1
      BY <2>1, <2>3
    <3> QED  BY <1>1, <1>2, <2>1, <2>2, <2>3, <3>1 DEF FileRead
  <2>4. CASE loads' # <<>>
    <3>1. Len(loads') \in 1 .. Len(loads) - 1 /\ Len(loads') + 1 = Len(loads)
      BY <2>1, <2>4
    <3>2. loads'[Len(loads')] = loads[Len(loads)]
      BY <2>1, <3>1
    <3> QED  BY <1>1, <2>2, <2>4, <3>2 DEF FileRead
  <2> QED  BY <2>3, <2>4
<1>5. FileFollows'
  BY <1>1, <1>4 DEF DisplayFollows, FileFollows, Latest
<1>6. StackFollows'
  BY <1>1, <1>2 DEF DisplayFollows, StackFollows, Stopped, Asked
<1>7. NamesFollow'
  BY <1>1 DEF DisplayFollows, NamesFollow, Stopped, Asked
<1> QED  BY <1>3, <1>5, <1>6, <1>7 DEF DisplayFollows

\* What the handler of a notification does to what is displayed.
Handles(n) ==
  /\ shown'.line = IF n.event \in Stops THEN n.at ELSE shown.line
  /\ shown'.stack = IF n.event = "OnRetrievedStack" THEN n.at ELSE shown.stack
  /\ shown'.file = shown.file
  /\ loads' = IF n.event = "OnStoppedAtBreakpoint" THEN Append(loads, n.at) ELSE loads
  /\ DOMAIN localToBackend' = IF n.event = "OnRetrievedLocals" THEN ToSet(n.names) ELSE DOMAIN localToBackend
  /\ n.event \in Stops => HasMethod(toGdb', "GetStack") /\ HasMethod(toGdb', "GetLocals")
  /\ \A m : HasMethod(toGdb, m) => HasMethod(toGdb', m)

\* A handler that does that keeps up.
LEMMA DisplayHandled ==
  ASSUME TypeInv, DisplayFollows, toUI # <<>>, toUI' = Tail(toUI), UNCHANGED program, Handles(Head(toUI))
  PROVE  DisplayFollows'
<1> DEFINE n == Head(toUI)
           S == Notifications(Ids, program.stops)
<1>1. toUI \in Seq(S) /\ loads \in Seq(StopNumbers) /\ n \in S
  BY TypedNow, QueueFacts
<1>2. /\ n.event \in Stops \cup {"OnRetrievedStack"} => n.at \in StopNumbers
      /\ n.event \in Stops <=> n.event = "OnStoppedAtBreakpoint" \/ n.event = "OnStoppedAfterStepping"
  BY <1>1, Notified DEF Stops, StopNumbers
<1> HIDE DEF S
<1>3. LineFollows'
  <2> DEFINE now  == shown.line = program.stops
             then == shown'.line = program'.stops
             good == At(Stops, program.stops)
  <2>1. n \in good => n.at = program.stops
    BY DEF At
  <2>2. n.event \in Stops /\ n \in good => then
    BY <2>1 DEF Handles
  <2>3. n.event \notin Stops /\ now => then
    BY DEF Handles
  <2>4. Latest(toUI, Stops, good, now)
    BY DEF DisplayFollows, LineFollows
  <2> HIDE DEF now, then, good
  <2>5. Latest(Tail(toUI), Stops, good, then)
    BY <1>1, <2>2, <2>3, <2>4, LatestTail
  <2> QED  BY <2>5 DEF LineFollows, then, good
<1>4. FileFollows'
  <2> DEFINE E    == {"OnStoppedAtBreakpoint"}
             then == FileRead'
             good == At(E, program.lastBreak)
  <2>1. n.event \in E /\ n \in good => then
    <3> SUFFICES ASSUME n.event \in E, n \in good PROVE FileRead'
      OBVIOUS
    <3>1. n.at = program.lastBreak /\ n.at \in StopNumbers /\ loads' = Append(loads, n.at)
      BY <1>2 DEF At, Handles
    <3>2. loads' # <<>> /\ loads'[Len(loads')] = n.at
      BY <1>1, <3>1, AppendFacts
    <3> QED  BY <3>1, <3>2 DEF FileRead
  <2>2. n.event \notin E /\ FileRead => then
    BY DEF Handles, FileRead
  <2>3. Latest(toUI, E, good, FileRead)
    BY DEF DisplayFollows, FileFollows
  <2> HIDE DEF then, good, E
  <2>4. Latest(Tail(toUI), E, good, then)
    BY <1>1, <2>1, <2>2, <2>3, LatestTail
  <2> QED  BY <2>4 DEF FileFollows, then, good, E
<1>5. \A m : m \in {"GetStack", "GetLocals"} /\ Asked(m) => Asked(m)'
  <2> SUFFICES ASSUME NEW m \in {"GetStack", "GetLocals"}, Asked(m) PROVE HasEvent(toUI', Stops) \/ HasMethod(toGdb', m)
    BY DEF Asked
  <2>1. CASE HasEvent(toUI, Stops)
    <3>1. n.event \notin Stops => HasEvent(Tail(toUI), Stops)
      BY <1>1, <2>1, LatestTail
    <3> QED  BY <3>1 DEF Handles
  <2>2. CASE HasMethod(toGdb, m)
    BY <2>2 DEF Handles
  <2> QED  BY <2>1, <2>2 DEF Asked
<1>6. StackFollows'
  <2> SUFFICES ASSUME Stopped, ~Asked("GetStack")
               PROVE  Latest(toUI', {"OnRetrievedStack"}, At({"OnRetrievedStack"}, program.stops), shown'.stack = program.stops)
    BY <1>5 DEF StackFollows, Stopped
  <2> DEFINE E    == {"OnRetrievedStack"}
             now  == shown.stack = program.stops
             then == shown'.stack = program.stops
             good == At(E, program.stops)
  <2>1. n.event \in E /\ n \in good => then
    BY DEF At, Handles
  <2>2. n.event \notin E /\ now => then
    BY DEF Handles
  <2>3. Latest(toUI, E, good, now)
    BY DEF DisplayFollows, StackFollows
  <2> HIDE DEF now, then, good, E
  <2>4. Latest(Tail(toUI), E, good, then)
    BY <1>1, <2>1, <2>2, <2>3, LatestTail
  <2> QED  BY <2>4 DEF then, good, E
<1>7. NamesFollow'
  <2> SUFFICES ASSUME Stopped, ~Asked("GetLocals")
               PROVE  Latest(toUI', {"OnRetrievedLocals"}, Locals(program.scope), DOMAIN localToBackend' = ToSet(program.scope))
    BY <1>5 DEF NamesFollow, Stopped
  <2> DEFINE E    == {"OnRetrievedLocals"}
             now  == DOMAIN localToBackend = ToSet(program.scope)
             then == DOMAIN localToBackend' = ToSet(program.scope)
             good == Locals(program.scope)
  <2>1. n.event \in E /\ n \in good => then
    BY DEF Locals, Handles
  <2>2. n.event \notin E /\ now => then
    BY DEF Handles
  <2>3. Latest(toUI, E, good, now)
    BY DEF DisplayFollows, NamesFollow
  <2> HIDE DEF now, then, good, E
  <2>4. Latest(Tail(toUI), E, good, then)
    BY <1>1, <2>1, <2>2, <2>3, LatestTail
  <2> QED  BY <2>4 DEF then, good, E
<1> QED  BY <1>3, <1>4, <1>6, <1>7 DEF DisplayFollows

\* Posting keeps what was asked for.
LEMMA PostKeeps ==
  ASSUME TypeInv, PostsPlainly
  PROVE  \A m : HasMethod(toGdb, m) => HasMethod(toGdb', m)
<1>1. CASE UNCHANGED toGdb
  BY <1>1
<1>2. ASSUME NEW t \in Seq(Requests(UsedIds, Ids)), Post(t)
      PROVE  \A m : HasMethod(toGdb, m) => HasMethod(toGdb', m)
  <2>1. \A m : HasMethod(toGdb, m) => HasMethod(toGdb \o t, m)
    BY HasMethodFacts, TypedNow
  <2> QED  BY <1>2, <2>1 DEF Post
<1> QED  BY <1>1, <1>2 DEF PostsPlainly

\* The handlers do that.
LEMMA HandlersDisplay ==
  ASSUME TypeInv, Going => MapAgrees,
         \/ OnStoppedAtBreakpoint \/ OnStoppedAfterStepping \/ OnRetrievedStack
         \/ OnWatchCreated \/ OnWatchesUpdated \/ OnWatchChildList \/ OnRetrievedLocals
  PROVE  Handles(Head(toUI)) /\ toUI # <<>> /\ toUI' = Tail(toUI) /\ UNCHANGED program /\ Going
<1> DEFINE n == Head(toUI)
<1>1. shown = [field \in {"line", "stack", "file"} |-> shown[field]]
  BY TypedNow
<1>2. CASE OnStoppedAtBreakpoint \/ OnStoppedAfterStepping
  <2>1. /\ shown' = [shown EXCEPT !.line = n.at] /\ Post(UpdatePassiveDisplays)
        /\ toUI # <<>> /\ toUI' = Tail(toUI) /\ UNCHANGED <<program, localToBackend>> /\ Going
        /\ \/ n.event = "OnStoppedAtBreakpoint" /\ loads' = Append(loads, n.at)
           \/ n.event = "OnStoppedAfterStepping" /\ loads' = loads
    BY <1>2 DEF OnStoppedAtBreakpoint, OnStoppedAfterStepping, Receive, gdbVars
  <2>2. shown'.line = n.at /\ shown'.stack = shown.stack /\ shown'.file = shown.file
    BY <1>1, <2>1
  <2> DEFINE t == UpdatePassiveDisplays
  <2>3. t \in Seq(Requests(UsedIds, Ids))
    BY PlainRequests
  <2>4. HasMethod(t, "GetStack") /\ HasMethod(t, "GetLocals")
    <3> DEFINE a == Request("GetStack")
               b == Request("GetLocals")
               c == Request("UpdateWatches")
    <3>1. t = <<a, b, c>>
      BY DEF UpdatePassiveDisplays
    <3>2. a.method = "GetStack" /\ b.method = "GetLocals"
      BY DEF Request
    <3> HIDE DEF a, b, c, t
    <3>3. Len(t) = 3 /\ t[1] = a /\ t[2] = b
      BY <3>1
    <3> QED  BY <3>2, <3>3 DEF HasMethod
  <2> HIDE DEF t
  <2>5. \A m : HasMethod(toGdb, m) \/ HasMethod(t, m) => HasMethod(toGdb \o t, m)
    BY <2>3, HasMethodFacts, TypedNow
  <2>6. toGdb' = toGdb \o t
    BY <2>1 DEF Post, t
  <2>7. n.event \in Stops /\ n.event # "OnRetrievedStack" /\ n.event # "OnRetrievedLocals"
    BY <2>1 DEF Stops
  <2> HIDE DEF n
  <2>8. loads' = IF n.event = "OnStoppedAtBreakpoint" THEN Append(loads, n.at) ELSE loads
    BY <2>1
  <2>9. Handles(n)
    BY <2>1, <2>2, <2>4, <2>5, <2>6, <2>7, <2>8 DEF Handles
  <2> QED  BY <2>1, <2>9 DEF n
<1>3. CASE OnRetrievedStack \/ OnWatchCreated \/ OnWatchesUpdated \/ OnWatchChildList
  <2>1. /\ toUI # <<>> /\ toUI' = Tail(toUI) /\ UNCHANGED <<program, localToBackend, loads, toGdb>> /\ Going
        /\ n.event \in {"OnRetrievedStack", "OnWatchCreated", "OnWatchesUpdated", "OnWatchChildList"}
        /\ shown' = IF n.event = "OnRetrievedStack" THEN [shown EXCEPT !.stack = n.at] ELSE shown
    BY <1>3 DEF OnRetrievedStack, OnWatchCreated, OnWatchesUpdated, OnWatchChildList, Receive, gdbVars
  <2>2. /\ shown'.line = shown.line /\ shown'.file = shown.file
        /\ shown'.stack = IF n.event = "OnRetrievedStack" THEN n.at ELSE shown.stack
    BY <1>1, <2>1
  <2>3. n.event \notin Stops
    BY <2>1 DEF Stops
  <2> HIDE DEF n
  <2>4. n.event # "OnStoppedAtBreakpoint" /\ n.event # "OnRetrievedLocals"
    BY <2>1
  <2>5. Handles(n)
    BY <2>1, <2>2, <2>3, <2>4 DEF Handles
  <2> QED  BY <2>1, <2>5 DEF n
<1>4. CASE OnRetrievedLocals
  <2> DEFINE names == n.names
             t     == Created(names) \o DeleteWatches(Gone(names))
  <2>1. /\ Receive("OnRetrievedLocals")
        /\ localToBackend' = Forget(Known(names), Gone(names))
        /\ toGdb' = toGdb \o t
        /\ UNCHANGED <<shown, loads, program>>
    BY <1>4, LocalsAction DEF Post, gdbVars
  <2>2. names \in Seq(LocalNames) /\ Going /\ n.event = "OnRetrievedLocals" /\ toUI # <<>> /\ toUI' = Tail(toUI)
    BY <2>1, Received, Notified DEF Receive
  <2> HIDE DEF n
  <2>3. DOMAIN localToBackend' = ToSet(names)
    BY <2>1, <2>2, LocalsMap, TypedNow DEF TypeInv
  <2>4. \A m : HasMethod(toGdb, m) => HasMethod(toGdb', m)
    <3> DEFINE M == RequestsAfter(names)
    <3>1. t \in Seq(M) /\ toGdb \in Seq(M)
      BY <2>2, LocalsRequests
    <3> HIDE DEF M, t
    <3>2. \A m : HasMethod(toGdb, m) => HasMethod(toGdb \o t, m)
      BY <3>1, HasMethodFacts
    <3> QED  BY <2>1, <3>2
  <2>5. n.event \notin Stops
    BY <2>2 DEF Stops
  <2>6. n.event # "OnStoppedAtBreakpoint" /\ n.event # "OnRetrievedStack"
    BY <2>2
  <2>7. Handles(n)
    BY <2>1, <2>2, <2>3, <2>4, <2>5, <2>6 DEF Handles
  <2> QED  BY <2>1, <2>2, <2>7 DEF n
<1> QED  BY <1>2, <1>3, <1>4

\* One more notification on its way, and one request less.
LEMMA AnswerFacts ==
  ASSUME TypeInv, NEW x, NEW E, NEW good, NEW now, NEW m, toGdb # <<>>
  PROVE  /\ x.event \notin E /\ Latest(toUI, E, good, now) => Latest(Append(toUI, x), E, good, now)
         /\ x.event \in E /\ x \in good => Latest(Append(toUI, x), E, good, now)
         /\ HasEvent(toUI, E) \/ x.event \in E => HasEvent(Append(toUI, x), E)
         /\ HasMethod(toGdb, m) /\ Head(toGdb).method # m => HasMethod(Tail(toGdb), m)
<1> DEFINE N == Notifications(Ids, program.stops)
           S == N \cup {x}
<1>1. toUI \in Seq(N) /\ toGdb \in Seq(Requests(UsedIds, Ids))
  BY TypedNow
<1>2. N \subseteq S /\ x \in S
  OBVIOUS
<1> HIDE DEF N, S
<1>3. toUI \in Seq(S)
  BY <1>1, <1>2
<1>4. /\ x.event \notin E /\ Latest(toUI, E, good, now) => Latest(Append(toUI, x), E, good, now)
      /\ x.event \in E /\ x \in good => Latest(Append(toUI, x), E, good, now)
      /\ HasEvent(toUI, E) \/ x.event \in E => HasEvent(Append(toUI, x), E)
  BY <1>2, <1>3, LatestAppend
<1>5. HasMethod(toGdb, m) /\ Head(toGdb).method # m => HasMethod(Tail(toGdb), m)
  BY <1>1, HasMethodFacts
<1> QED  BY <1>4, <1>5

\* An answer says what the program is at; a request for the stack or the names of a
\* stopped program is answered.
Answers(x) ==
  /\ x.event \notin Stops
  /\ Stopped /\ x.event = "OnRetrievedStack" => x \in At({"OnRetrievedStack"}, program.stops)
  /\ Stopped /\ x.event = "OnRetrievedLocals" => x \in Locals(program.scope)
  /\ Stopped /\ Head(toGdb).method = "GetStack" => x.event = "OnRetrievedStack"
  /\ Stopped /\ Head(toGdb).method = "GetLocals" => x.event = "OnRetrievedLocals"

\* Such an answer keeps the display following.
LEMMA DisplayAnswered ==
  ASSUME TypeInv, DisplayFollows, UNCHANGED <<loads, shown, program, localToBackend>>,
         toGdb # <<>>, toGdb' = Tail(toGdb), NEW x, Answers(x), Answer(x)
  PROVE  DisplayFollows'
<1>1. toUI' = Append(toUI, x) /\ x.event \notin Stops
  BY DEF Answer, Answers
<1>2. LineFollows'
  BY <1>1, AnswerFacts DEF DisplayFollows, LineFollows
<1>3. FileFollows'
  <2> DEFINE good == At({"OnStoppedAtBreakpoint"}, program.lastBreak)
  <2>1. x.event \notin {"OnStoppedAtBreakpoint"}
    BY <1>1 DEF Stops
  <2>2. Latest(toUI, {"OnStoppedAtBreakpoint"}, good, FileRead)
    BY DEF DisplayFollows, FileFollows
  <2>3. FileRead' = FileRead
    BY DEF FileRead
  <2> HIDE DEF good
  <2>4. Latest(toUI', {"OnStoppedAtBreakpoint"}, good, FileRead)
    BY <1>1, <2>1, <2>2, AnswerFacts
  <2> QED  BY <2>3, <2>4 DEF FileFollows, good
<1>4. StackFollows'
  <2> SUFFICES ASSUME Stopped, ~Asked("GetStack")'
               PROVE  Latest(toUI', {"OnRetrievedStack"}, At({"OnRetrievedStack"}, program.stops), shown.stack = program.stops)
    BY DEF StackFollows, Stopped
  <2> DEFINE E    == {"OnRetrievedStack"}
             good == At(E, program.stops)
             now  == shown.stack = program.stops
  <2>1. x.event \in E => x \in good
    BY DEF Answers
  <2>2. CASE x.event \in E
    <3> HIDE DEF E, good, now
    <3>1. Latest(Append(toUI, x), E, good, now)
      BY <2>1, <2>2, AnswerFacts
    <3> QED  BY <1>1, <3>1 DEF E, good, now
  <2>3. CASE x.event \notin E
    <3>1. Head(toGdb).method # "GetStack"
      BY <2>3 DEF Answers
    <3>2. ~Asked("GetStack")
      BY <1>1, <3>1, AnswerFacts DEF Asked
    <3>3. Latest(toUI, E, good, now)
      BY <3>2 DEF DisplayFollows, StackFollows
    <3> HIDE DEF E, good, now
    <3>4. Latest(Append(toUI, x), E, good, now)
      BY <2>3, <3>3, AnswerFacts
    <3> QED  BY <1>1, <3>4 DEF E, good, now
  <2> QED  BY <2>2, <2>3
<1>5. NamesFollow'
  <2> SUFFICES ASSUME Stopped, ~Asked("GetLocals")'
               PROVE  Latest(toUI', {"OnRetrievedLocals"}, Locals(program.scope), DOMAIN localToBackend = ToSet(program.scope))
    BY DEF NamesFollow, Stopped
  <2> DEFINE E    == {"OnRetrievedLocals"}
             good == Locals(program.scope)
             now  == DOMAIN localToBackend = ToSet(program.scope)
  <2>1. x.event \in E => x \in good
    BY DEF Answers
  <2>2. CASE x.event \in E
    <3> HIDE DEF E, good, now
    <3>1. Latest(Append(toUI, x), E, good, now)
      BY <2>1, <2>2, AnswerFacts
    <3> QED  BY <1>1, <3>1 DEF E, good, now
  <2>3. CASE x.event \notin E
    <3>1. Head(toGdb).method # "GetLocals"
      BY <2>3 DEF Answers
    <3>2. ~Asked("GetLocals")
      BY <1>1, <3>1, AnswerFacts DEF Asked
    <3>3. Latest(toUI, E, good, now)
      BY <3>2 DEF DisplayFollows, NamesFollow
    <3> HIDE DEF E, good, now
    <3>4. Latest(Append(toUI, x), E, good, now)
      BY <2>3, <3>3, AnswerFacts
    <3> QED  BY <1>1, <3>4 DEF E, good, now
  <2> QED  BY <2>2, <2>3
<1> QED  BY <1>2, <1>3, <1>4, <1>5 DEF DisplayFollows

\* So does a request without an answer, which asked neither for the stack nor for
\* the names of a stopped program, and the end of the program.
LEMMA DisplaySilent ==
  ASSUME TypeInv, DisplayFollows, UNCHANGED <<toUI, loads, shown, localToBackend>>,
         toGdb # <<>>, toGdb' = Tail(toGdb),
         program'.stops = program.stops, program'.lastBreak = program.lastBreak,
         \/ ~Stopped'
         \/ UNCHANGED program /\ Head(toGdb).method \notin {"GetStack", "GetLocals"}
  PROVE  DisplayFollows'
<1>1. LineFollows'
  BY DEF DisplayFollows, LineFollows
<1>2. FileFollows'
  BY DEF DisplayFollows, FileFollows, FileRead
<1>3. \A m \in {"GetStack", "GetLocals"} : Stopped' /\ Asked(m) => HasEvent(toUI', Stops) \/ HasMethod(toGdb', m)
  BY AnswerFacts DEF Asked
<1>4. StackFollows'
  BY <1>3 DEF DisplayFollows, StackFollows, Stopped, Asked
<1>5. NamesFollow'
  BY <1>3 DEF DisplayFollows, NamesFollow, Stopped, Asked
<1> QED  BY <1>1, <1>2, <1>4, <1>5 DEF DisplayFollows

\* A stop is announced, and with it everything else has to be asked for.
LEMMA DisplayStopped ==
  ASSUME TypeInv, DisplayFollows, UNCHANGED <<loads, shown, localToBackend>>, toGdb # <<>>,
         NEW n, NEW e \in Stops, Answer([event |-> e, at |-> n]), program'.stops = n,
         program'.lastBreak = IF e = "OnStoppedAtBreakpoint" THEN n ELSE program.lastBreak
  PROVE  DisplayFollows'
<1> DEFINE x == [event |-> e, at |-> n]
<1>1. toUI' = Append(toUI, x) /\ x.event = e /\ x.at = n
  BY DEF Answer
<1>2. x \in At(Stops, n) /\ (e = "OnStoppedAtBreakpoint" => x \in At({"OnStoppedAtBreakpoint"}, n))
  BY DEF At
<1> HIDE DEF x
<1>3. LineFollows'
  <2>1. Latest(Append(toUI, x), Stops, At(Stops, n), shown'.line = n)
    BY <1>1, <1>2, AnswerFacts
  <2> QED  BY <1>1, <2>1 DEF LineFollows
<1>4. FileFollows'
  <2> DEFINE E    == {"OnStoppedAtBreakpoint"}
             good == At(E, program'.lastBreak)
             now  == FileRead'
  <2>1. CASE e = "OnStoppedAtBreakpoint"
    <3>1. x.event \in E /\ x \in good
      BY <1>1, <1>2, <2>1
    <3> HIDE DEF E, good, now
    <3>2. Latest(Append(toUI, x), E, good, now)
      BY <3>1, AnswerFacts
    <3> QED  BY <1>1, <3>2 DEF FileFollows, E, good, now
  <2>2. CASE e # "OnStoppedAtBreakpoint"
    <3>1. x.event \notin E /\ program'.lastBreak = program.lastBreak
      BY <1>1, <2>2
    <3>2. Latest(toUI, E, good, now)
      BY <3>1 DEF DisplayFollows, FileFollows, FileRead
    <3> HIDE DEF E, good, now
    <3>3. Latest(Append(toUI, x), E, good, now)
      BY <3>1, <3>2, AnswerFacts
    <3> QED  BY <1>1, <3>3 DEF FileFollows, E, good, now
  <2> QED  BY <2>1, <2>2
<1>5. HasEvent(toUI', Stops)
  BY <1>1, AnswerFacts
<1> QED  BY <1>3, <1>4, <1>5 DEF DisplayFollows, StackFollows, NamesFollow, Asked

\* gdb's steps.
LEMMA DisplayGdb ==
  ASSUME TypeInv, DisplayFollows, GdbStep
  PROVE  DisplayFollows'
<1> DEFINE r == Head(toGdb)
<1>1. ASSUME NEW methods, Perform(methods)
      PROVE  /\ toGdb # <<>> /\ toGdb' = Tail(toGdb) /\ r.method \in methods
             /\ UNCHANGED <<loads, shown, localToBackend>>
  BY <1>1 DEF uiVars, Perform
<1>2. CASE GdbExec
  <2> DEFINE run == r.method \in RunMethods
             e   == IF run THEN "OnStoppedAtBreakpoint" ELSE "OnStoppedAfterStepping"
             b   == IF run THEN program.stops + 1 ELSE program.lastBreak
  <2>1. Perform(RunMethods \cup StepMethods)
    BY <1>2 DEF GdbExec
  <2>2. r.method \notin {"GetStack", "GetLocals"}
    BY <1>1, <2>1 DEF RunMethods, StepMethods
  <2>3. \/ \E scope \in Scopes :
               /\ program' = [state |-> "stopped", stops |-> program.stops + 1, scope |-> scope, lastBreak |-> b]
               /\ Answer([event |-> e, at |-> program.stops + 1])
        \/ program' = [program EXCEPT !.state = "none", !.scope = <<>>] /\ UNCHANGED toUI
        \/ UNCHANGED <<program, toUI>>
    BY <1>2 DEF GdbExec
  <2>4. e \in Stops /\ b = IF e = "OnStoppedAtBreakpoint" THEN program.stops + 1 ELSE program.lastBreak
    BY DEF Stops
  <2> HIDE DEF e, b, run, r
  <2>5. CASE \E scope \in Scopes :
               /\ program' = [state |-> "stopped", stops |-> program.stops + 1, scope |-> scope, lastBreak |-> b]
               /\ Answer([event |-> e, at |-> program.stops + 1])
    <3>1. program'.stops = program.stops + 1 /\ program'.lastBreak = b /\ Answer([event |-> e, at |-> program.stops + 1])
      BY <2>5
    <3> QED  BY <1>1, <2>1, <2>4, <3>1, DisplayStopped
  <2>6. CASE program' = [program EXCEPT !.state = "none", !.scope = <<>>] /\ UNCHANGED toUI
    <3>1. /\ program'.state = "none" /\ program'.stops = program.stops
          /\ program'.lastBreak = program.lastBreak
      BY <2>6, ProgramEnds
    <3>2. ~Stopped'
      BY <3>1 DEF Stopped
    <3> QED  BY <1>1, <2>1, <2>6, <3>1, <3>2, DisplaySilent
  <2>7. CASE UNCHANGED <<program, toUI>>
    BY <1>1, <2>1, <2>2, <2>7, DisplaySilent DEF r
  <2> QED  BY <2>3, <2>5, <2>6, <2>7
<1>3. CASE GdbAbort
  <2>1. Perform({"StopDebugging"}) /\ UNCHANGED toUI
    BY <1>3 DEF GdbAbort
  <2>2. CASE program' = [program EXCEPT !.state = "none", !.scope = <<>>]
    <3>1. /\ program'.state = "none" /\ program'.stops = program.stops
          /\ program'.lastBreak = program.lastBreak
      BY <2>2, ProgramEnds
    <3>2. ~Stopped'
      BY <3>1 DEF Stopped
    <3> QED  BY <1>1, <2>1, <3>1, <3>2, DisplaySilent
  <2>3. CASE UNCHANGED program
    <3>1. r.method \notin {"GetStack", "GetLocals"}
      BY <1>1, <2>1
    <3> QED  BY <1>1, <2>1, <2>3, <3>1, DisplaySilent
  <2> QED  BY <1>3, <2>2, <2>3 DEF GdbAbort
<1>4. CASE GdbAccept \/ GdbVarDelete
  <2>1. PICK methods \in {{"SetDebugNotification", "LoadProcess", "CollapseWatch"}, {"DeleteWatch"}} : Perform(methods)
    BY <1>4 DEF GdbAccept, GdbVarDelete
  <2>2. r.method \notin {"GetStack", "GetLocals"}
    BY <1>1, <2>1
  <2>3. UNCHANGED <<toUI, program>>
    BY <1>4 DEF GdbAccept, GdbVarDelete
  <2> QED  BY <1>1, <2>1, <2>2, <2>3, DisplaySilent
<1>5. ASSUME NEW x, Answer(x), Answers(x), UNCHANGED program, NEW methods, Perform(methods)
      PROVE  DisplayFollows'
  BY <1>1, <1>5, DisplayAnswered
<1>6. ASSUME NEW methods, Perform(methods), UNCHANGED <<program, toUI>>,
             "GetStack" \notin methods, "GetLocals" \notin methods
      PROVE  DisplayFollows'
  <2>1. r.method \notin {"GetStack", "GetLocals"}
    BY <1>1, <1>6
  <2> QED  BY <1>1, <1>6, <2>1, DisplaySilent
<1>7. ASSUME NEW x, NEW methods, Perform(methods), x.event \in {"OnWatchCreated", "OnWatchesUpdated", "OnWatchChildList"},
             "GetStack" \notin methods, "GetLocals" \notin methods
      PROVE  Answers(x)
  <2>1. r.method \notin {"GetStack", "GetLocals"}
    BY <1>1, <1>7
  <2> QED  BY <1>7, <2>1 DEF Answers, Stops
<1>8. CASE GdbQuery
  <2> DEFINE a == [event |-> "OnRetrievedStack", at |-> program.stops]
             c == [event |-> "OnRetrievedLocals", names |-> program.scope]
  <2>1. /\ Perform({"GetStack", "GetLocals"}) /\ UNCHANGED program
        /\ \/ ~Stopped /\ UNCHANGED toUI
           \/ r.method = "GetStack" /\ Answer(a)
           \/ r.method # "GetStack" /\ Answer(c)
    BY <1>8 DEF GdbQuery
  <2>2. r.method \in {"GetStack", "GetLocals"}
    BY <1>1, <2>1
  <2>3. r.method = "GetStack" => Answers(a)
    BY DEF Answers, At, Stops
  <2>4. r.method = "GetLocals" => Answers(c)
    BY DEF Answers, Locals, Stops
  <2>5. CASE ~Stopped /\ UNCHANGED toUI
    <3>1. ~Stopped' /\ program'.stops = program.stops /\ program'.lastBreak = program.lastBreak
      BY <2>1, <2>5 DEF Stopped
    <3> QED  BY <1>1, <2>1, <2>5, <3>1, DisplaySilent
  <2> HIDE DEF a, c
  <2> QED  BY <1>5, <2>1, <2>2, <2>3, <2>4, <2>5
<1>9. CASE GdbVarCreate
  <2> DEFINE n == [event |-> "OnWatchCreated", id |-> r.id, hasChildren |-> Fields[r.name] > 0]
  <2>1. Perform({"CreateWatch"}) /\ UNCHANGED program /\ (UNCHANGED toUI \/ Answer(n))
    BY <1>9 DEF GdbVarCreate
  <2>2. n.event = "OnWatchCreated"
    OBVIOUS
  <2> HIDE DEF n
  <2>3. Answers(n)
    BY <1>7, <2>1, <2>2
  <2> QED  BY <1>5, <1>6, <2>1, <2>3
<1>10. CASE GdbVarUpdate
  <2> DEFINE Update(items) == [event |-> "OnWatchesUpdated", items |-> items]
  <2>1. Perform({"UpdateWatches"}) /\ UNCHANGED program
    BY <1>10 DEF GdbVarUpdate, gdbVars
  <2>2. \E items : Answer(Update(items))
    BY <1>10 DEF GdbVarUpdate
  <2>3. PICK items : Answer(Update(items))
    BY <2>2
  <2> DEFINE n == Update(items)
  <2>4. n.event = "OnWatchesUpdated" /\ Answer(n)
    BY <2>3
  <2> HIDE DEF n
  <2>5. Answers(n)
    BY <1>7, <2>1, <2>4
  <2> QED  BY <1>5, <2>1, <2>4, <2>5
<1>11. CASE GdbVarListChildren
  <2> DEFINE n(children) == [event |-> "OnWatchChildList", parent |-> r.id, children |-> children]
  <2>1. Perform({"ExpandWatch"}) /\ UNCHANGED program /\ (UNCHANGED toUI \/ \E children : Answer(n(children)))
    BY <1>11 DEF GdbVarListChildren
  <2>2. ASSUME NEW children, Answer(n(children)) PROVE DisplayFollows'
    <3>1. n(children).event = "OnWatchChildList"
      OBVIOUS
    <3> DEFINE x == n(children)
    <3> HIDE DEF x
    <3>2. Answers(x)
      BY <1>7, <2>1, <3>1 DEF x
    <3> QED  BY <1>5, <2>1, <2>2, <3>2 DEF x
  <2> QED  BY <1>6, <2>1, <2>2
<1> QED  BY <1>2, <1>3, <1>4, <1>8, <1>9, <1>10, <1>11 DEF GdbStep

\* Every step keeps the display following the program.
LEMMA DisplayNext == DisplayInv /\ [Next]_vars => DisplayInv'
<1> SUFFICES ASSUME DisplayInv, [Next]_vars PROVE DisplayInv'
  OBVIOUS
<1>1. MapInv' /\ TypeInv /\ (Going => MapAgrees /\ DisplayFollows)
  BY AgreesNext DEF DisplayInv, MapInv
<1>2. SUFFICES ASSUME Going' PROVE DisplayFollows'
  BY <1>1, <1>2 DEF DisplayInv
<1>3. CASE UserStep \/ SetDebugCore \/ Paint
  <2>1. PostsPlainly /\ Going
    BY <1>1, <1>3, PlainSteps
  <2>2. \A m : HasMethod(toGdb, m) => HasMethod(toGdb', m)
    BY <1>1, <2>1, PostKeeps
  <2>3. UNCHANGED <<toUI, loads, shown, program, localToBackend>>
    BY <1>3 DEF UserStep, NotifyKey, Click, SetDebugCore, Paint, uiVars, queueVars, gdbVars
  <2> QED  BY <1>1, <2>1, <2>2, <2>3, DisplayKept
<1>4. CASE FileLoadCompleted
  BY <1>1, <1>4, DisplayLoaded DEF FileLoadCompleted
<1>5. CASE \/ OnStoppedAtBreakpoint \/ OnStoppedAfterStepping \/ OnRetrievedStack
           \/ OnWatchCreated \/ OnWatchesUpdated \/ OnWatchChildList \/ OnRetrievedLocals
  <2>1. Handles(Head(toUI)) /\ toUI # <<>> /\ toUI' = Tail(toUI) /\ UNCHANGED program /\ Going
    BY <1>1, <1>5, HandlersDisplay
  <2> QED  BY <1>1, <2>1, DisplayHandled
<1>6. CASE GdbStep
  <2>1. Going
    BY <1>1, <1>6, VariablesLeft
  <2> QED  BY <1>1, <1>6, <2>1, DisplayGdb
<1>7. CASE UNCHANGED vars
  <2>1. UNCHANGED <<toUI, loads, shown, program, localToBackend, toGdb, failed>>
    BY <1>7 DEF vars, uiVars, queueVars, gdbVars
  <2>2. Going
    BY <1>2, <2>1 DEF Going
  <2> QED  BY <1>1, <2>1, <2>2, DisplayKept
<1> QED  BY <1>3, <1>4, <1>5, <1>6, <1>7 DEF Next, UIStep

\* Nothing is displayed and nothing has happened at the start.
LEMMA DisplayInit == Init => DisplayInv
<1> SUFFICES ASSUME Init PROVE DisplayFollows
  BY AgreesInit DEF DisplayInv
<1>1. /\ toUI = <<>> /\ loads = <<>> /\ program.stops = 0 /\ program.lastBreak = 0 /\ ~Stopped
      /\ shown.line = 0 /\ shown.file = 0
  BY DEF Init, Stopped
<1>2. LineFollows /\ FileFollows
  BY <1>1 DEF LineFollows, FileFollows, FileRead, Latest
<1> QED  BY <1>1, <1>2 DEF DisplayFollows, StackFollows, NamesFollow

\* When nothing is on its way and the program is stopped, the line, the stack, the
\* names and the file displayed are those of the last stop, however the answers of
\* several stops interleaved with the keys.
THEOREM DisplayCatchesUp == Spec => []QuiescentDisplay
<1>1. DisplayInv => QuiescentDisplay
  <2> SUFFICES ASSUME DisplayInv, Quiet, Stopped PROVE QuiescentDisplay
    BY DEF QuiescentDisplay
  <2>1. DisplayFollows /\ toGdb = <<>> /\ toUI = <<>> /\ loads = <<>>
    BY DEF DisplayInv, Quiet
  <2>2. shown.line = program.stops
    BY <2>1 DEF DisplayFollows, LineFollows, Latest
  <2>3. shown.file = program.lastBreak
    BY <2>1 DEF DisplayFollows, FileFollows, FileRead, Latest
  <2>4. shown.stack = program.stops
    BY <2>1 DEF DisplayFollows, StackFollows, Asked, HasEvent, HasMethod, Latest
  <2>5. DOMAIN localToBackend = ToSet(program.scope)
    BY <2>1 DEF DisplayFollows, NamesFollow, Asked, HasEvent, HasMethod, Latest
  <2> QED  BY <2>2, <2>3, <2>4, <2>5 DEF QuiescentDisplay
<1> QED  BY <1>1, DisplayInit, DisplayNext, PTL DEF Spec

----------------------------------------------------------------------------
(* The session implements WatchLedger. *)

\* The creations and deletions among requests are requests.
LEMMA WatchesIn ==
  ASSUME NEW S, NEW q \in Seq(S)
  PROVE  Watches(q) \in Seq(S)
<1> DEFINE P == {k \in DOMAIN q : q[k].method \in {"CreateWatch", "DeleteWatch"}}
<1> HIDE DEF P
<1>1. Chosen(q, P) \in Seq(S)
  BY ChosenElements
<1> QED  BY <1>1 DEF Watches, P

\* The requests that the ledger keeps.
LEMMA LedgerFacts ==
  ASSUME NEW S, NEW q \in Seq(S)
  PROVE  /\ LedgerRequests(q) = [k \in 1 .. Len(Watches(q)) |-> LedgerRequest(Watches(q)[k])]
         /\ LedgerRequests(q) \in Seq({LedgerRequest(r) : r \in S})
         /\ (\A k \in 1 .. Len(q) : IsWatch(q[k])) => LedgerRequests(q) = [k \in 1 .. Len(q) |-> LedgerRequest(q[k])]
         /\ (\A k \in 1 .. Len(q) : ~IsWatch(q[k])) => LedgerRequests(q) = <<>>
<1> DEFINE w == Watches(q)
           L == {LedgerRequest(r) : r \in S}
<1>1. w \in Seq(S)
  BY WatchesIn
<1>2. LedgerRequests(q) = [k \in DOMAIN w |-> LedgerRequest(w[k])]
  BY Zenon DEF LedgerRequests, Watches
<1>3. (\A k \in 1 .. Len(q) : IsWatch(q[k])) => w = q
  BY WatchesAll
<1>4. (\A k \in 1 .. Len(q) : ~IsWatch(q[k])) => w = <<>>
  BY WatchesAll
<1> HIDE DEF w
<1>5. DOMAIN w = 1 .. Len(w) /\ Len(w) \in Nat /\ \A k \in 1 .. Len(w) : w[k] \in S
  BY <1>1
<1>6. LedgerRequests(q) = [k \in 1 .. Len(w) |-> LedgerRequest(w[k])]
  BY <1>2, <1>5
<1>7. LedgerRequests(q) \in Seq(L)
  <2>1. \A k \in 1 .. Len(w) : LedgerRequest(w[k]) \in L
    BY <1>5
  <2> HIDE DEF L
  <2>2. LedgerRequests(q) \in [1 .. Len(w) -> L]
    BY <1>6, <2>1
  <2> QED  BY <1>5, <2>2
<1>8. w = <<>> => LedgerRequests(q) = <<>>
  BY <1>6
<1> QED  BY <1>3, <1>4, <1>6, <1>7, <1>8 DEF w

\* Those of two lists are those of the first and those of the second.
LEMMA LedgerJoin ==
  ASSUME NEW S, NEW q \in Seq(S), NEW t \in Seq(S)
  PROVE  LedgerRequests(q \o t) = LedgerRequests(q) \o LedgerRequests(t)
<1> DEFINE u == q \o t
           a == Watches(q)
           b == Watches(t)
           c == Watches(u)
           L == {LedgerRequest(r) : r \in S}
<1>1. u \in Seq(S)
  OBVIOUS
<1>2. c = a \o b
  BY WatchesJoin
<1>3. LedgerRequests(q) = [k \in 1 .. Len(a) |-> LedgerRequest(a[k])]
  BY LedgerFacts
<1>4. LedgerRequests(t) = [k \in 1 .. Len(b) |-> LedgerRequest(b[k])]
  BY LedgerFacts
<1> HIDE DEF u
<1>5. LedgerRequests(u) = [k \in 1 .. Len(c) |-> LedgerRequest(c[k])]
  BY <1>1, LedgerFacts
<1>6. a \in Seq(S) /\ b \in Seq(S)
  BY WatchesIn
<1> HIDE DEF a, b, c
<1>7. /\ Len(c) = Len(a) + Len(b) /\ Len(a) \in Nat /\ Len(b) \in Nat
      /\ \A k \in 1 .. Len(c) : c[k] = IF k <= Len(a) THEN a[k] ELSE b[k - Len(a)]
  BY <1>2, <1>6
<1> DEFINE x == LedgerRequests(q)
           y == LedgerRequests(t)
           z == LedgerRequests(u)
<1>8. x \in Seq(L) /\ y \in Seq(L)
  BY LedgerFacts
<1>9. Len(x) = Len(a) /\ Len(y) = Len(b)
  BY <1>3, <1>4, <1>7
<1>10. \A k \in 1 .. Len(a) : x[k] = LedgerRequest(a[k])
  BY <1>3
<1>11. \A k \in 1 .. Len(b) : y[k] = LedgerRequest(b[k])
  BY <1>4
<1> HIDE DEF x, y, L
<1> DEFINE v == x \o y
<1>12. /\ v \in Seq(L) /\ Len(v) = Len(c)
       /\ \A k \in 1 .. Len(c) : v[k] = IF k <= Len(a) THEN x[k] ELSE y[k - Len(a)]
  <2>1. v \in Seq(L) /\ Len(v) = Len(x) + Len(y)
    BY <1>8
  <2>2. \A k \in 1 .. Len(x) + Len(y) : v[k] = IF k <= Len(x) THEN x[k] ELSE y[k - Len(x)]
    BY <1>8, ConcatProperties
  <2> HIDE DEF v
  <2> QED  BY <1>7, <1>9, <2>1, <2>2
<1>13. ASSUME NEW k \in 1 .. Len(c) PROVE LedgerRequest(c[k]) = v[k]
  <2>1. CASE k <= Len(a)
    <3>1. k \in 1 .. Len(a) /\ c[k] = a[k] /\ v[k] = x[k]
      BY <1>7, <1>12, <2>1
    <3> QED  BY <1>10, <3>1
  <2>2. CASE ~(k <= Len(a))
    <3>1. k - Len(a) \in 1 .. Len(b) /\ c[k] = b[k - Len(a)] /\ v[k] = y[k - Len(a)]
      BY <1>7, <1>12, <2>2
    <3> QED  BY <1>11, <3>1
  <2> QED  BY <2>1, <2>2
<1> HIDE DEF v
<1>14. v = [k \in 1 .. Len(c) |-> v[k]]
  BY <1>12
<1>15. z = v
  BY <1>5, <1>13, <1>14
<1> QED  BY <1>15 DEF u, v, x, y, z

\* The oldest one, when the oldest request is for a watch.
LEMMA LedgerHead ==
  ASSUME NEW S, NEW q \in Seq(S), q # <<>>
  PROVE  /\ IsWatch(Head(q)) => /\ LedgerRequests(q) # <<>>
                                /\ Head(LedgerRequests(q)) = LedgerRequest(Head(q))
                                /\ LedgerRequests(Tail(q)) = Tail(LedgerRequests(q))
         /\ ~IsWatch(Head(q)) => LedgerRequests(Tail(q)) = LedgerRequests(q)
<1> DEFINE h == <<Head(q)>>
           t == Tail(q)
           L == {LedgerRequest(r) : r \in S}
           y == LedgerRequests(t)
<1>1. h \in Seq(S) /\ t \in Seq(S) /\ q = h \o t /\ Len(h) = 1 /\ h[1] = Head(q) /\ Head(q) \in S
  OBVIOUS
<1>2. y \in Seq(L)
  BY <1>1, LedgerFacts
<1>3. LedgerRequests(q) = LedgerRequests(h) \o y
  BY <1>1, LedgerJoin
<1> HIDE DEF h
<1>4. IsWatch(Head(q)) => LedgerRequests(h) = [k \in 1 .. Len(h) |-> LedgerRequest(h[k])]
  <2>1. (\A k \in 1 .. Len(h) : IsWatch(h[k])) => LedgerRequests(h) = [k \in 1 .. Len(h) |-> LedgerRequest(h[k])]
    BY <1>1, LedgerFacts
  <2> QED  BY <1>1, <2>1
<1>5. ~IsWatch(Head(q)) => LedgerRequests(h) = <<>>
  <2>1. (\A k \in 1 .. Len(h) : ~IsWatch(h[k])) => LedgerRequests(h) = <<>>
    BY <1>1, LedgerFacts
  <2> QED  BY <1>1, <2>1
<1>6. LedgerRequest(Head(q)) \in L
  BY <1>1
<1> DEFINE r == LedgerRequest(Head(q))
<1> HIDE DEF y, L, r
<1>7. IsWatch(Head(q)) => LedgerRequests(h) = <<r>>
  BY <1>1, <1>4 DEF r
<1>8. ~IsWatch(Head(q)) => LedgerRequests(q) = y
  BY <1>2, <1>3, <1>5
<1>9. r \in L => <<r>> \o y # <<>> /\ Head(<<r>> \o y) = r /\ Tail(<<r>> \o y) = y
  BY <1>2
<1> QED  BY <1>3, <1>6, <1>7, <1>8, <1>9 DEF r, y

\* The names of the rows that OnRetrievedLocals removes.
GoneNames(names) ==
  [k \in 1 .. Len(Gone(names)) |-> CHOOSE n \in DOMAIN localToBackend : localToBackend[n] = Gone(names)[k]]

\* They are names in the map, each once.
LEMMA GoneNamesFacts ==
  ASSUME TypeInv, MapAgrees, NEW names \in Seq(LocalNames)
  PROVE  /\ GoneNames(names) \in Seq(LocalNames) /\ Len(GoneNames(names)) = Len(Gone(names))
         /\ Len(Gone(names)) \in Nat
         /\ \A k \in 1 .. Len(Gone(names)) :
              /\ GoneNames(names)[k] \in DOMAIN localToBackend
              /\ localToBackend[GoneNames(names)[k]] = Gone(names)[k]
         /\ IsInjective(GoneNames(names))
         /\ ToSet(GoneNames(names)) = DOMAIN localToBackend \ ToSet(names)
<1> DEFINE gone  == Gone(names)
           g     == GoneNames(names)
           act   == Active(names)
           known == Known(names)
           D     == DOMAIN localToBackend
<1>1. MapTyped /\ ViewIn(view, Ids)
  BY DEF TypeInv, ViewTyped
<1>2. /\ ToSet(gone) = Range(localToBackend) \ act /\ IsInjective(gone)
      /\ DOMAIN Forget(known, gone) = ToSet(names)
  BY <1>1, LocalsMap
<1>3. DOMAIN Forget(known, gone) = {n \in DOMAIN known : known[n] \notin ToSet(gone)}
  BY ForgetFacts
<1>4. DOMAIN known = D \cup ToSet(names) /\ \A n \in D : known[n] = localToBackend[n]
  BY <1>1, KnownFacts
<1>5. Len(gone) \in Nat /\ DOMAIN gone = 1 .. Len(gone)
  <2>1. gone \in Seq(TopsTo(Counter(names)))
    BY <1>1, GoneFacts
  <2> HIDE DEF gone
  <2> QED  BY <2>1
<1>6. g = [k \in 1 .. Len(gone) |-> CHOOSE n \in D : localToBackend[n] = gone[k]]
  BY Zenon DEF GoneNames
<1>7. D \subseteq LocalNames
  BY <1>1 DEF MapTyped
<1> HIDE DEF gone, g, act, known, D
<1>8. ASSUME NEW k \in 1 .. Len(gone)
      PROVE  g[k] \in D /\ localToBackend[g[k]] = gone[k]
  <2>1. gone[k] \in Range(localToBackend)
    BY <1>2, <1>5 DEF ToSet
  <2>2. \E n \in D : localToBackend[n] = gone[k]
    BY <2>1 DEF Range, D
  <2> QED  BY <1>6, <2>2
<1>9. g \in Seq(LocalNames) /\ Len(g) = Len(gone) /\ DOMAIN g = 1 .. Len(gone)
  <2>1. \A k \in 1 .. Len(gone) : g[k] \in LocalNames
    BY <1>7, <1>8
  <2>2. g \in [1 .. Len(gone) -> LocalNames]
    BY <1>6, <2>1
  <2> QED  BY <1>5, <2>2
<1>10. IsInjective(g)
  <2> SUFFICES ASSUME NEW j \in 1 .. Len(gone), NEW k \in 1 .. Len(gone), g[j] = g[k] PROVE j = k
    BY <1>9 DEF IsInjective
  <2>1. gone[j] = gone[k]
    BY <1>8
  <2> QED  BY <1>2, <1>5, <2>1 DEF IsInjective
<1>11. \A n \in D : n \notin ToSet(names) <=> localToBackend[n] \in ToSet(gone)
  BY <1>2, <1>3, <1>4
<1>12. ToSet(g) = D \ ToSet(names)
  <2>1. ASSUME NEW n \in ToSet(g) PROVE n \in D \ ToSet(names)
    <3>1. PICK k \in 1 .. Len(gone) : n = g[k]
      BY <1>9 DEF ToSet
    <3>2. n \in D /\ localToBackend[n] \in ToSet(gone)
      BY <1>5, <1>8, <3>1 DEF ToSet
    <3> QED  BY <1>11, <3>2
  <2>2. ASSUME NEW n \in D \ ToSet(names) PROVE n \in ToSet(g)
    <3>1. PICK k \in 1 .. Len(gone) : gone[k] = localToBackend[n]
      BY <1>5, <1>11 DEF ToSet
    <3>2. localToBackend[g[k]] = localToBackend[n] /\ g[k] \in D
      BY <1>8, <3>1
    <3>3. g[k] = n
      BY <3>2 DEF MapAgrees, IsInjective, D
    <3> QED  BY <1>9, <3>3 DEF ToSet
  <2> QED  BY <2>1, <2>2
<1> QED  BY <1>5, <1>8, <1>9, <1>10, <1>12 DEF gone, g, D

\* The map afterwards.
LEMMA ShowMap ==
  ASSUME TypeInv, MapAgrees, NEW names \in Seq(LocalNames), NEW map, map = Forget(Known(names), Gone(names))
  PROVE  /\ DOMAIN map = (DOMAIN localToBackend \ ToSet(GoneNames(names))) \cup ToSet(FreshNames(names))
         /\ \A n \in DOMAIN localToBackend \ ToSet(GoneNames(names)) : map[n] = localToBackend[n]
         /\ \A k \in DOMAIN FreshNames(names) : map[FreshNames(names)[k]] = <<nextVariable + k - 1>>
         /\ \A n \in DOMAIN map : IdNumber(map[n]) \in Nat
<1> DEFINE fresh == FreshNames(names)
           ids   == NewIds(fresh)
           gone  == Gone(names)
           g     == GoneNames(names)
           known == Known(names)
           D     == DOMAIN localToBackend
<1>1. MapTyped /\ ViewIn(view, Ids) /\ nextVariable \in Nat
  BY DEF TypeInv, ViewTyped, MapTyped
<1>2. ToSet(g) = D \ ToSet(names)
  BY GoneNamesFacts
<1>3. ToSet(fresh) = ToSet(names) \ D /\ fresh \in Seq(LocalNames)
  BY FreshFacts
<1>4. DOMAIN map = ToSet(names) /\ Range(map) = Active(names)
  BY <1>1, LocalsMap
<1>5. \A n \in DOMAIN map : map[n] = known[n]
  BY ForgetFacts
<1>6. /\ \A n \in D : known[n] = localToBackend[n]
      /\ \A k \in DOMAIN fresh : known[fresh[k]] = ids[k]
      /\ Range(known) = Range(localToBackend) \cup ToSet(ids)
      /\ DOMAIN known = D \cup ToSet(names)
  BY <1>1, KnownFacts
<1>7. /\ \A k \in DOMAIN fresh : ids[k] = <<nextVariable + k - 1>>
      /\ ids \in Seq(TopsTo(nextVariable + Len(fresh)))
  <2> HIDE DEF fresh
  <2> QED  BY <1>1, <1>3, NewIdFacts
<1> HIDE DEF fresh, ids, g, known, D
<1>8. DOMAIN map = (D \ ToSet(g)) \cup ToSet(fresh)
  BY <1>2, <1>3, <1>4
<1>9. \A n \in D \ ToSet(g) : map[n] = localToBackend[n]
  BY <1>5, <1>6, <1>8
<1>10. \A k \in DOMAIN fresh : map[fresh[k]] = <<nextVariable + k - 1>>
  <2> SUFFICES ASSUME NEW k \in DOMAIN fresh PROVE map[fresh[k]] = <<nextVariable + k - 1>>
    OBVIOUS
  <2>1. fresh[k] \in DOMAIN map
    BY <1>8 DEF ToSet
  <2> QED  BY <1>5, <1>6, <1>7, <2>1
<1>11. ASSUME NEW n \in DOMAIN map PROVE IdNumber(map[n]) \in Nat
  <2>1. known[n] \in Range(known)
    BY <1>4, <1>6 DEF Range
  <2>2. Range(localToBackend) \subseteq Tops /\ ToSet(ids) \subseteq Tops
    <3>1. Range(localToBackend) \subseteq Tops
      BY <1>1, UsedShapes DEF MapTyped, Range, TopsTo
    <3>2. ToSet(ids) \subseteq Tops
      BY <1>7 DEF ToSet, TopsTo
    <3> QED  BY <3>1, <3>2
  <2>3. map[n] \in Tops
    BY <1>5, <1>6, <2>1, <2>2
  <2> QED  BY <2>3, IdShapes DEF IdNumber
<1> QED  BY <1>8, <1>9, <1>10, <1>11 DEF fresh, g, D

\* A creation and a deletion, as the ledger sees them.
LEMMA LedgerOf ==
  ASSUME NEW id, NEW name
  PROVE  /\ LedgerRequest(CreateWatch(id, name)) = Ledger!Create(IdNumber(id)) /\ IsWatch(CreateWatch(id, name))
         /\ LedgerRequest(DeletionOf(id)) = Ledger!Delete(IdNumber(id)) /\ IsWatch(DeletionOf(id))
<1> DEFINE w == WatchRequest("CreateWatch", id)
           d == DeletionOf(id)
           c == CreateWatch(id, name)
<1>1. w = [method |-> "CreateWatch", id |-> id, name |-> NoName]
  BY DEF WatchRequest, Request
<1>2. c = [w EXCEPT !.name = name]
  BY DEF CreateWatch
<1>3. d.method = "DeleteWatch" /\ d.id = id
  BY DEF DeletionOf, WatchRequest, Request
<1> HIDE DEF w, c, d
<1>4. c.method = "CreateWatch" /\ c.id = id
  BY <1>1, <1>2
<1>5. LedgerRequest(c) = [kind |-> "create", id |-> IdNumber(id)] /\ IsWatch(c)
  BY <1>4 DEF LedgerRequest, IsWatch
<1>6. LedgerRequest(d) = [kind |-> "delete", id |-> IdNumber(id)] /\ IsWatch(d)
  BY <1>3 DEF LedgerRequest, IsWatch
<1> QED  BY <1>5, <1>6 DEF Ledger!Create, Ledger!Delete, c, d

\* What the handler posts, as the ledger sees it.
LEMMA ShowPosted ==
  ASSUME TypeInv, MapAgrees, NEW names \in Seq(LocalNames)
  PROVE  LedgerRequests(toGdb \o (Created(names) \o DeleteWatches(Gone(names)))) =
           LedgerRequests(toGdb)
             \o [k \in 1 .. Len(FreshNames(names)) |-> Ledger!Create(nextVariable + k - 1)]
             \o [k \in 1 .. Len(GoneNames(names)) |-> Ledger!Delete(IdNumber(localToBackend[GoneNames(names)[k]]))]
<1> DEFINE fresh == FreshNames(names)
           ids   == NewIds(fresh)
           gone  == Gone(names)
           g     == GoneNames(names)
           c     == Created(names)
           d     == DeleteWatches(gone)
           M     == RequestsAfter(names)
           L     == {LedgerRequest(r) : r \in M}
           x     == LedgerRequests(toGdb)
           y     == LedgerRequests(c)
           z     == LedgerRequests(d)
<1>1. nextVariable \in Nat /\ fresh \in Seq(LocalNames)
  BY FreshFacts, TypedNow
<1>2. /\ toGdb \in Seq(M) /\ c \in Seq(M) /\ d \in Seq(M) /\ c \o d \in Seq(M)
      /\ Len(c) = Len(fresh) /\ Len(d) = Len(gone)
      /\ \A k \in 1 .. Len(fresh) : c[k] = CreateWatch(ids[k], fresh[k])
      /\ \A k \in 1 .. Len(gone) : d[k] = DeletionOf(gone[k])
  BY LocalsRequests DEF DeletionOf
<1>3. /\ Len(g) = Len(gone) /\ \A k \in 1 .. Len(gone) : localToBackend[g[k]] = gone[k]
  BY GoneNamesFacts
<1> HIDE DEF fresh
<1>4. DOMAIN fresh = 1 .. Len(fresh) /\ \A k \in DOMAIN fresh : ids[k] = <<nextVariable + k - 1>>
  BY <1>1, NewIdFacts
<1> HIDE DEF ids, gone, g, c, d, M
<1>5. LedgerRequests(toGdb \o (c \o d)) = x \o LedgerRequests(c \o d) /\ LedgerRequests(c \o d) = y \o z
  BY <1>2, LedgerJoin
<1>6. x \in Seq(L) /\ y \in Seq(L) /\ z \in Seq(L)
  BY <1>2, LedgerFacts
<1>7. y = [k \in 1 .. Len(fresh) |-> Ledger!Create(nextVariable + k - 1)]
  <2>1. \A k \in 1 .. Len(fresh) : LedgerRequest(c[k]) = Ledger!Create(nextVariable + k - 1) /\ IsWatch(c[k])
    <3> SUFFICES ASSUME NEW k \in 1 .. Len(fresh)
                 PROVE  LedgerRequest(c[k]) = Ledger!Create(nextVariable + k - 1) /\ IsWatch(c[k])
      OBVIOUS
    <3>1. c[k] = CreateWatch(ids[k], fresh[k]) /\ ids[k] = <<nextVariable + k - 1>>
      BY <1>2, <1>4
    <3>2. IdNumber(ids[k]) = nextVariable + k - 1
      BY <3>1 DEF IdNumber
    <3>3. LedgerRequest(CreateWatch(ids[k], fresh[k])) = Ledger!Create(IdNumber(ids[k])) /\ IsWatch(CreateWatch(ids[k], fresh[k]))
      BY LedgerOf
    <3> QED  BY <3>1, <3>2, <3>3
  <2>2. (\A k \in 1 .. Len(c) : IsWatch(c[k])) => y = [k \in 1 .. Len(c) |-> LedgerRequest(c[k])]
    BY <1>2, LedgerFacts
  <2> HIDE DEF y
  <2> QED  BY <1>2, <2>1, <2>2
<1>8. z = [k \in 1 .. Len(g) |-> Ledger!Delete(IdNumber(localToBackend[g[k]]))]
  <2>1. \A k \in 1 .. Len(g) : LedgerRequest(d[k]) = Ledger!Delete(IdNumber(localToBackend[g[k]])) /\ IsWatch(d[k])
    <3> SUFFICES ASSUME NEW k \in 1 .. Len(g)
                 PROVE  LedgerRequest(d[k]) = Ledger!Delete(IdNumber(localToBackend[g[k]])) /\ IsWatch(d[k])
      OBVIOUS
    <3>1. d[k] = DeletionOf(gone[k]) /\ localToBackend[g[k]] = gone[k]
      BY <1>2, <1>3
    <3>2. LedgerRequest(DeletionOf(gone[k])) = Ledger!Delete(IdNumber(gone[k])) /\ IsWatch(DeletionOf(gone[k]))
      BY LedgerOf
    <3> QED  BY <3>1, <3>2
  <2>2. (\A k \in 1 .. Len(d) : IsWatch(d[k])) => z = [k \in 1 .. Len(d) |-> LedgerRequest(d[k])]
    BY <1>2, LedgerFacts
  <2>3. Len(d) = Len(g)
    BY <1>2, <1>3
  <2> HIDE DEF z
  <2> QED  BY <2>1, <2>2, <2>3
<1> HIDE DEF x, y, z, L
<1>9. x \o (y \o z) = (x \o y) \o z
  BY <1>6, ConcatAssociative
<1>10. LedgerRequests(toGdb \o (c \o d)) = (x \o y) \o z
  BY <1>5, <1>9
<1> QED  BY <1>7, <1>8, <1>10 DEF x, fresh, gone, g, c, d

\* The ledger's variables, as the session sees them.
ShownNumbers(map)  == [n \in DOMAIN map |-> IdNumber(map[n])]
Numbers(variables) == {IdNumber(id) : id \in variables}

\* The ledger's sequences and sets are those of the session.
LEMMA SameOperators ==
  /\ \A s : Ledger!Distinct(s) <=> IsInjective(s)
  /\ \A s : Ledger!ToSet(s) = ToSet(s)
  /\ \A S : Ledger!Cardinality(S) = Cardinality(S)
  /\ \A S, n : Ledger!SeqOf(S, n) = SeqOf(S, n)
<1>1. \A s : Ledger!Distinct(s) <=> IsInjective(s)
  BY DEF Ledger!Distinct, Ledger!IsInjective, IsInjective
<1>2. \A s : Ledger!ToSet(s) = ToSet(s)
  BY DEF Ledger!ToSet, ToSet
<1>3. \A S : Ledger!Cardinality(S) = Cardinality(S)
  BY Zenon DEF Ledger!Cardinality, Cardinality
<1>4. \A S, n : Ledger!SeqOf(S, n) = SeqOf(S, n)
  BY DEF Ledger!SeqOf, SeqOf
<1> QED  BY <1>1, <1>2, <1>3, <1>4

\* OnRetrievedLocals shows the names of the notification and no others.
LEMMA LedgerShows ==
  ASSUME TypeInv, MapAgrees, OnRetrievedLocals
  PROVE  Ledger!Next
<1> DEFINE names == Head(toUI).names
           fresh == FreshNames(names)
           g     == GoneNames(names)
           map   == Forget(Known(names), Gone(names))
           D     == DOMAIN localToBackend
<1>1. /\ Receive("OnRetrievedLocals")
      /\ localToBackend' = map
      /\ nextVariable' = nextVariable + Len(fresh)
      /\ toGdb' = toGdb \o (Created(names) \o DeleteWatches(Gone(names)))
      /\ UNCHANGED objects
  BY LocalsAction DEF Post, gdbVars
<1>2. names \in Seq(LocalNames)
  BY <1>1, Received, Notified
<1> HIDE DEF names
<1>3. fresh \in Seq(LocalNames) /\ ToSet(fresh) = ToSet(names) \ D /\ IsInjective(fresh)
  BY <1>2, FreshFacts
<1>4. g \in Seq(LocalNames) /\ IsInjective(g) /\ ToSet(g) = D \ ToSet(names)
  BY <1>2, GoneNamesFacts
<1> HIDE DEF map
<1>5. /\ DOMAIN map = (D \ ToSet(g)) \cup ToSet(fresh)
      /\ \A n \in D \ ToSet(g) : map[n] = localToBackend[n]
      /\ \A k \in DOMAIN fresh : map[fresh[k]] = <<nextVariable + k - 1>>
      /\ \A n \in DOMAIN map : IdNumber(map[n]) \in Nat
  BY <1>2, ShowMap DEF map
<1>6. LedgerRequests(toGdb') = LedgerRequests(toGdb)
                                 \o [k \in 1 .. Len(fresh) |-> Ledger!Create(nextVariable + k - 1)]
                                 \o [k \in 1 .. Len(g) |-> Ledger!Delete(IdNumber(localToBackend[g[k]]))]
  BY <1>1, <1>2, ShowPosted
<1> DEFINE now  == ShownNumbers(localToBackend)
           then == ShownNumbers(map)
<1> HIDE DEF fresh, g
<1>7. /\ DOMAIN now = D /\ \A n \in D : now[n] = IdNumber(localToBackend[n])
      /\ then \in [(D \ ToSet(g)) \cup ToSet(fresh) -> Nat]
      /\ \A n \in D \ ToSet(g) : then[n] = now[n]
  BY <1>5 DEF ShownNumbers
<1>8. \A k \in DOMAIN fresh : then[fresh[k]] = nextVariable + k - 1
  <2> SUFFICES ASSUME NEW k \in DOMAIN fresh PROVE then[fresh[k]] = nextVariable + k - 1
    OBVIOUS
  <2>1. fresh[k] \in DOMAIN map
    BY <1>5 DEF ToSet
  <2>2. map[fresh[k]] = <<nextVariable + k - 1>>
    BY <1>5
  <2> QED  BY <2>1, <2>2 DEF ShownNumbers, IdNumber
<1>9. \A k \in 1 .. Len(g) : now[g[k]] = IdNumber(localToBackend[g[k]])
  <2> SUFFICES ASSUME NEW k \in 1 .. Len(g) PROVE now[g[k]] = IdNumber(localToBackend[g[k]])
    OBVIOUS
  <2>1. g[k] \in D
    BY <1>4 DEF ToSet
  <2> QED  BY <1>7, <2>1
<1> HIDE DEF now, then, D
<1>10. Ledger!Show(fresh, g)
  <2>1. Ledger!Distinct(fresh) /\ Ledger!Distinct(g)
    BY <1>3, <1>4, SameOperators
  <2>2. Ledger!ToSet(fresh) = ToSet(fresh) /\ Ledger!ToSet(g) = ToSet(g)
    BY SameOperators
  <2>3. ToSet(fresh) \cap D = {} /\ ToSet(g) \subseteq D
    BY <1>3, <1>4
  <2> DEFINE F == [n \in DOMAIN localToBackend |-> IdNumber(localToBackend[n])]
             O == {IdNumber(id) : id \in {o \in DOMAIN objects : Len(o) = 1}}
  <2>4. F = now
    BY DEF now, ShownNumbers
  <2>5. F' = then
    BY <1>1 DEF then, ShownNumbers
  <2>6. O' = O
    BY <1>1
  <2>7. LedgerRequests(toGdb)' = LedgerRequests(toGdb)
                                   \o [k \in 1 .. Len(fresh) |-> Ledger!Create(nextVariable + k - 1)]
                                   \o [k \in 1 .. Len(g) |-> Ledger!Delete(F[g[k]])]
    <3>1. [k \in 1 .. Len(g) |-> Ledger!Delete(IdNumber(localToBackend[g[k]]))]
            = [k \in 1 .. Len(g) |-> Ledger!Delete(F[g[k]])]
      BY <1>9, <2>4
    <3> HIDE DEF F
    <3> QED  BY <1>6, <3>1
  <2> HIDE DEF F, O
  <2>8. Ledger!ToSet(fresh) \cap DOMAIN F = {} /\ Ledger!ToSet(g) \subseteq DOMAIN F
    BY <1>7, <2>2, <2>3, <2>4
  <2>9. F' \in [(DOMAIN F \ Ledger!ToSet(g)) \cup Ledger!ToSet(fresh) -> Nat]
    BY <1>7, <2>2, <2>4, <2>5
  <2>10. \A n \in DOMAIN F \ Ledger!ToSet(g) : (F')[n] = F[n]
    BY <1>7, <2>2, <2>4, <2>5
  <2>11. \A k \in DOMAIN fresh : (F')[fresh[k]] = nextVariable + k - 1
    BY <1>8, <2>5
  <2> QED  BY <1>1, <2>1, <2>6, <2>7, <2>8, <2>9, <2>10, <2>11, Zenon DEF Ledger!Show, F, O
<1>11. fresh \in SeqOf(LocalNames, Cardinality(LocalNames)) /\ g \in SeqOf(LocalNames, Cardinality(LocalNames))
  <2> SUFFICES ASSUME NEW s \in Seq(LocalNames), IsInjective(s)
               PROVE  s \in SeqOf(LocalNames, Cardinality(LocalNames))
    BY <1>3, <1>4
  <2>1. Len(s) = Cardinality(ToSet(s)) /\ Len(s) \in Nat
    BY Counted
  <2>2. ToSet(s) \subseteq LocalNames
    BY DEF ToSet
  <2>3. Cardinality(ToSet(s)) <= Cardinality(LocalNames) /\ Cardinality(LocalNames) \in Nat
    BY <2>2, SessionAssumption, FS_Subset, FS_CardinalityType
  <2>4. Len(s) \in 0 .. Cardinality(LocalNames) /\ s \in [1 .. Len(s) -> LocalNames]
    BY <2>1, <2>3
  <2> QED  BY <2>4 DEF SeqOf
<1>12. Ledger!SeqOf(LocalNames, Ledger!Cardinality(LocalNames)) = SeqOf(LocalNames, Cardinality(LocalNames))
  BY SameOperators
<1> QED  BY <1>10, <1>11, <1>12 DEF Ledger!Next

\* gdb's steps carry out the oldest request of the ledger, or are no steps of it.
LEMMA LedgerExecutes ==
  ASSUME TypeInv, GdbStep
  PROVE  Ledger!Execute \/ UNCHANGED Ledger!ledgerVars
<1> DEFINE r == Head(toGdb)
           q == LedgerRequests(toGdb)
           t == LedgerRequests(Tail(toGdb))
           h == LedgerRequest(r)
<1>1. /\ toGdb # <<>> /\ toGdb' = Tail(toGdb)
      /\ UNCHANGED <<localToBackend, nextVariable>>
      /\ \/ r.method = "CreateWatch" /\ Variables' \in {Variables, Variables \cup {r.id}}
         \/ r.method = "DeleteWatch" /\ Variables' = Variables \ {r.id}
         \/ r.method \notin {"CreateWatch", "DeleteWatch"} /\ Variables' = Variables
  BY VariablesLeft
<1>2. /\ IsWatch(r) => q # <<>> /\ Head(q) = h /\ t = Tail(q)
      /\ ~IsWatch(r) => t = q
  BY <1>1, LedgerHead, TypedNow
<1>3. h.kind = (IF r.method = "CreateWatch" THEN "create" ELSE "delete") /\ h.id = IdNumber(r.id)
  BY DEF LedgerRequest
<1>4. IsWatch(r) => r.id \in Tops
  <2>1. r \in Requests(UsedIds, Ids)
    BY <1>1, QueueFacts, TypedNow
  <2> HIDE DEF r
  <2>2. IsWatch(r) => r.id \in UsedIds
    BY <2>1, Requested DEF IsWatch
  <2> QED  BY <2>2, UsedShapes, TypedNow DEF TopsTo
<1>5. \A id \in Variables : id \in Tops
  BY TypedNow, IdShapes DEF Variables
<1> DEFINE V == Variables
           W == Variables'
<1>6. \A i, j \in Tops : IdNumber(i) = IdNumber(j) => i = j
  BY IdShapes DEF IdNumber
<1> HIDE DEF r, q, t, h, V, W
<1>7. \/ Numbers(W) = Numbers(V) \cup {h.id} /\ h.kind = "create" /\ IsWatch(r)
      \/ Numbers(W) = Numbers(V) /\ h.kind = "create" /\ IsWatch(r)
      \/ Numbers(W) = Numbers(V) \ {h.id} /\ h.kind = "delete" /\ IsWatch(r)
      \/ Numbers(W) = Numbers(V) /\ ~IsWatch(r)
  <2>1. CASE r.method = "CreateWatch" /\ W = V \cup {r.id}
    BY <1>3, <2>1 DEF Numbers, IsWatch
  <2>2. CASE r.method = "CreateWatch" /\ W = V
    BY <1>3, <2>2 DEF IsWatch
  <2>3. CASE r.method = "DeleteWatch" /\ W = V \ {r.id}
    <3>1. Numbers(W) = Numbers(V) \ {IdNumber(r.id)}
      <4>1. \A id \in V : id \in Tops
        BY <1>5 DEF V
      <4>2. r.id \in Tops
        BY <1>4, <2>3 DEF IsWatch
      <4> QED  BY <1>6, <2>3, <4>1, <4>2 DEF Numbers
    <3> QED  BY <1>3, <2>3, <3>1 DEF IsWatch
  <2>4. CASE r.method \notin {"CreateWatch", "DeleteWatch"} /\ W = V
    BY <2>4 DEF IsWatch
  <2> QED  BY <1>1, <2>1, <2>2, <2>3, <2>4 DEF r, V, W
<1>8. LedgerRequests(toGdb') = t
  BY <1>1 DEF t
<1>9. CASE IsWatch(r)
  <2>1. Ledger!Execute
    BY <1>1, <1>2, <1>7, <1>8, <1>9 DEF Ledger!Execute, Numbers, Variables, V, W, q
  <2> QED  BY <2>1
<1>10. CASE ~IsWatch(r)
  BY <1>1, <1>2, <1>7, <1>8, <1>10 DEF Ledger!ledgerVars, Numbers, Variables, V, W, q
<1> QED  BY <1>9, <1>10

\* The other steps are no steps of the ledger.
LEMMA LedgerSame ==
  ASSUME TypeInv, PostsPlainly
  PROVE  UNCHANGED Ledger!ledgerVars
<1>1. LedgerRequests(toGdb') = LedgerRequests(toGdb)
  <2>1. ASSUME NEW t \in Seq(Requests(UsedIds, Ids)), \A k \in DOMAIN t : t[k].method \notin {"CreateWatch", "DeleteWatch"},
               Post(t)
        PROVE  LedgerRequests(toGdb') = LedgerRequests(toGdb)
    <3> DEFINE S == Requests(UsedIds, Ids)
               x == LedgerRequests(toGdb)
               L == {LedgerRequest(r) : r \in S}
    <3>1. toGdb \in Seq(S) /\ t \in Seq(S)
      BY TypedNow
    <3> HIDE DEF S
    <3>2. \A k \in 1 .. Len(t) : ~IsWatch(t[k])
      BY <2>1, <3>1 DEF IsWatch
    <3>3. LedgerRequests(t) = <<>>
      BY <3>1, <3>2, LedgerFacts
    <3>4. LedgerRequests(toGdb \o t) = x \o LedgerRequests(t)
      BY <3>1, LedgerJoin
    <3>5. x \in Seq(L)
      BY <3>1, LedgerFacts
    <3> HIDE DEF x, L
    <3>6. x \o <<>> = x
      BY <3>5
    <3> QED  BY <2>1, <3>3, <3>4, <3>6 DEF Post, x
  <2>2. CASE UNCHANGED toGdb
    BY <2>2
  <2> QED  BY <2>1, <2>2 DEF PostsPlainly
<1> QED  BY <1>1 DEF PostsPlainly, Ledger!ledgerVars

\* A step of the session is a step of the ledger, or none.
LEMMA LedgerStep == MapInv /\ Next => Ledger!Next \/ UNCHANGED Ledger!ledgerVars
<1> SUFFICES ASSUME MapInv, Next PROVE Ledger!Next \/ UNCHANGED Ledger!ledgerVars
  OBVIOUS
<1>1. TypeInv /\ (Going => MapAgrees)
  BY DEF MapInv
<1>2. CASE UserStep \/ SetDebugCore \/ Paint \/ FileLoadCompleted \/ OnStoppedAtBreakpoint \/ OnStoppedAfterStepping
           \/ OnRetrievedStack \/ OnWatchCreated \/ OnWatchesUpdated \/ OnWatchChildList
  BY <1>1, <1>2, PlainSteps, LedgerSame
<1>3. CASE OnRetrievedLocals
  BY <1>1, <1>3, LedgerShows DEF OnRetrievedLocals, Receive
<1>4. CASE GdbStep
  BY <1>1, <1>4, LedgerExecutes DEF Ledger!Next
<1> QED  BY <1>2, <1>3, <1>4 DEF Next, UIStep

\* Both start empty.
LEMMA LedgerStarts == Init => Ledger!Init
<1> SUFFICES ASSUME Init PROVE Ledger!Init
  OBVIOUS
<1>1. toGdb = <<>> /\ nextVariable = 0 /\ DOMAIN localToBackend = {} /\ DOMAIN objects = {}
  BY DEF Init
<1>2. toGdb \in Seq({}) /\ Len(toGdb) = 0
  BY <1>1
<1>3. LedgerRequests(toGdb) = <<>>
  <2>1. \A k \in 1 .. Len(toGdb) : ~IsWatch(toGdb[k])
    BY <1>2
  <2> QED  BY <1>2, <2>1, LedgerFacts
<1>4. [n \in DOMAIN localToBackend |-> IdNumber(localToBackend[n])] = [n \in {} |-> 0]
  BY <1>1
<1> QED  BY <1>1, <1>3, <1>4 DEF Ledger!Init

\* The map, the requests about watches and gdb's variable objects behave as
\* WatchLedger says: what is proved of it holds of the session.
THEOREM SessionKeepsTheLedger == Spec => WatchesAreALedger
<1>1. MapInv /\ [Next]_vars => [Ledger!Next]_Ledger!ledgerVars
  <2>1. UNCHANGED vars => UNCHANGED Ledger!ledgerVars
    BY DEF vars, uiVars, queueVars, gdbVars, Ledger!ledgerVars
  <2> QED  BY <2>1, LedgerStep
<1> QED  BY <1>1, LedgerStarts, AlwaysAgrees, PTL DEF Spec, WatchesAreALedger, Ledger!Spec

\* The theorems about the ledger, about the session.
LedgerTheorems == INSTANCE WatchLedgerProofs WITH
  Name     <- LocalNames,
  shown    <- [n \in DOMAIN localToBackend |-> IdNumber(localToBackend[n])],
  next     <- nextVariable,
  requests <- LedgerRequests(toGdb),
  objects  <- {IdNumber(id) : id \in {o \in DOMAIN objects : Len(o) = 1}}

\* No identifier is created twice, whatever keys, clicks and stops there are: gdb
\* cannot refuse a creation because its name is taken (GenerateNewVariableIdentifier,
\* debug_presenter.cc:162-164).
THEOREM IdentifiersAreUsedOnce == Spec => []Ledger!NoCollision
<1>1. Ledger!Init => LedgerTheorems!Init
  BY DEF Ledger!Init, LedgerTheorems!Init
<1>2. [Ledger!Next]_Ledger!ledgerVars => [LedgerTheorems!Next]_LedgerTheorems!ledgerVars
  BY Zenon DEF
              Ledger!Next, Ledger!Show, Ledger!Execute, Ledger!Create,
              Ledger!Delete, Ledger!Distinct, Ledger!ToSet, Ledger!IsInjective,
              Ledger!SeqOf, Ledger!Cardinality, Ledger!ledgerVars,
              LedgerTheorems!Next, LedgerTheorems!Show, LedgerTheorems!Execute, LedgerTheorems!Create,
              LedgerTheorems!Delete, LedgerTheorems!Distinct, LedgerTheorems!ToSet, LedgerTheorems!IsInjective,
              LedgerTheorems!SeqOf, LedgerTheorems!Cardinality, LedgerTheorems!ledgerVars
<1>3. LedgerTheorems!NoCollision => Ledger!NoCollision
  BY DEF Ledger!NoCollision, LedgerTheorems!NoCollision
<1>4. LedgerTheorems!Spec => []LedgerTheorems!NoCollision
  BY LedgerTheorems!NoCollisionHolds
<1> QED  BY <1>1, <1>2, <1>3, <1>4, SessionKeepsTheLedger, PTL
         DEF WatchesAreALedger, Ledger!Spec, LedgerTheorems!Spec
=============================================================================
