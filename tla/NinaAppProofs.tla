--------------------------- MODULE NinaAppProofs ---------------------------
(***************************************************************************)
(* Proofs about app_main of the NINA module, for every number of           *)
(* registers, every set of words and lags and whatever fpga_read has on    *)
(* its stack behind the word: the FPGA sees one request at a time, a whole *)
(* answer is decoded to the word it was made from, and fpga_read, unless   *)
(* what is behind the word misleads it, spoils exactly the words that hold *)
(* a byte that the SPI core escapes or in which it finds the head of a     *)
(* packet.                                                                 *)
(*                                                                         *)
(* The converters of AvalonSpi are folds over bytes.  A fold is told as    *)
(* Leads(g, st, s, tt), the steps of g over s lead from st to tt, which    *)
(* composes over concatenation; so each converter is followed over a       *)
(* heading, the pieces of the data and whatever comes behind them.         *)
(* Induction over the bytes is by the least counterexample (Minimum).      *)
(*                                                                         *)
(* IInv, in the last part, says why this goes on for ever: remains of      *)
(* older requests hold no byte that begins a packet or an escape, and what *)
(* is left of answers is shorter than the next transfer makes room for.    *)
(***************************************************************************)
EXTENDS NinaApp, TLAPS, SequenceTheorems, WellFoundedInduction

-----------------------------------------------------------------------------
(* Sequences that are parsed byte by byte.  A parser is a function g from a  *)
(* state and a byte to a state.                                              *)

\* A set of numbers that is not empty has a least one.
LEMMA Minimum ==
  ASSUME NEW B, B \subseteq Nat, B # {}
  PROVE  \E m \in B : \A y \in B : m <= y
PROOF
  <1> DEFINE R == {p \in Nat \X Nat : p[1] < p[2]}
  <1>1. IsWellFoundedOn(R, Nat)
    BY NatLessThanWellFounded DEF OpToRel
  <1>2. PICK m \in B : \A y \in B : ~ (<<y, m>> \in R)
    BY <1>1, WFMin
  <1>3. \A y \in B : m <= y
    <2>1. TAKE y \in B
    <2>2. m \in Nat /\ y \in Nat
      OBVIOUS
    <2>3. <<y, m>> \notin R
      BY <1>2
    <2>4. y < m => <<y, m>> \in R
      BY <2>2
    <2> HIDE DEF R
    <2> QED
      BY <2>2, <2>3, <2>4
  <1> QED
    BY <1>3

\* Induction up to n, told with a set, since a theorem with a predicate as
\* its parameter cannot be used by the provers.
LEMMA Induct ==
  ASSUME NEW n \in Nat, NEW T, 0 \in T, \A k \in 1 .. n : k - 1 \in T => k \in T
  PROVE  0 .. n \subseteq T
PROOF
  <1> DEFINE B == {k \in 0 .. n : k \notin T}
  <1>1. SUFFICES ASSUME B # {} PROVE FALSE
    OBVIOUS
  <1>2. PICK m \in B : \A y \in B : m <= y
    <2>1. B \subseteq Nat OBVIOUS
    <2> HIDE DEF B
    <2> QED BY <1>1, <2>1, Minimum
  <1>3. m \in 1 .. n /\ m - 1 \in 0 .. n /\ ~ (m <= m - 1)
    OBVIOUS
  <1>4. m - 1 \in T
    BY <1>2, <1>3
  <1> QED
    BY <1>3, <1>4

\* f takes n steps of g from start.
Folded(f, n, start, g) == f[0] = start /\ \A k \in 1 .. n : f[k] = g[<<f[k - 1], k>>]

\* Steps of g can be taken n times.
LEMMA FoldExists ==
  ASSUME NEW n \in Nat, NEW St, NEW start \in St, NEW g \in [St \X (1 .. n) -> St]
  PROVE  \E f \in [0 .. n -> St] : Folded(f, n, start, g)
PROOF
  <1> DEFINE Good(m) == \E f \in [0 .. m -> St] : f[0] = start /\ \A k \in 1 .. m : f[k] = g[<<f[k - 1], k>>]
             T == {m \in 0 .. n : Good(m)}
  <1>1. 0 \in T
    <2> DEFINE f == [k \in 0 .. 0 |-> start]
    <2>1. f \in [0 .. 0 -> St] /\ f[0] = start OBVIOUS
    <2>2. \A k \in 1 .. 0 : f[k] = g[<<f[k - 1], k>>] OBVIOUS
    <2> HIDE DEF f
    <2> QED BY <2>1, <2>2
  <1>2. ASSUME NEW m \in 1 .. n, m - 1 \in T
        PROVE  m \in T
    <2>1. PICK f \in [0 .. m - 1 -> St] : f[0] = start /\ \A k \in 1 .. m - 1 : f[k] = g[<<f[k - 1], k>>]
      BY <1>2
    <2>2. f[m - 1] \in St OBVIOUS
    <2>3. g[<<f[m - 1], m>>] \in St BY <2>2
    <2> DEFINE h == [k \in 0 .. m |-> IF k = m THEN g[<<f[m - 1], m>>] ELSE f[k]]
    <2>4. h \in [0 .. m -> St] BY <2>3
    <2>5. h[0] = start BY <2>1
    <2>6. ASSUME NEW k \in 1 .. m PROVE h[k] = g[<<h[k - 1], k>>]
      <3>1. CASE k = m
        <4>1. h[m] = g[<<f[m - 1], m>>] OBVIOUS
        <4>2. h[m - 1] = f[m - 1] OBVIOUS
        <4> QED BY <3>1, <4>1, <4>2
      <3>2. CASE k # m
        <4>1. k \in 1 .. m - 1 BY <3>2
        <4>2. h[k] = f[k] /\ h[k - 1] = f[k - 1] BY <4>1
        <4> QED BY <4>1, <4>2, <2>1
      <3> QED BY <3>1, <3>2
    <2>7. m \in 0 .. n OBVIOUS
    <2> HIDE DEF h
    <2> QED BY <2>4, <2>5, <2>6, <2>7
  <1> HIDE DEF T
  <1>3. 0 .. n \subseteq T BY <1>1, <1>2, Induct
  <1>4. n \in T BY <1>3
  <1> QED BY <1>4 DEF T, Folded

\* The states that g goes through over s, from st to tt.
Trace(g, st, s, f) == f[0] = st /\ \A k \in 1 .. Len(s) : f[k] = g[<<f[k - 1], s[k]>>]
Leads(g, st, s, tt) == \E f : Trace(g, st, s, f) /\ f[Len(s)] = tt

\* Over no bytes nothing happens.
LEMMA LeadsEmpty ==
  ASSUME NEW g, NEW st
  PROVE  Leads(g, st, <<>>, st)
PROOF
  <1> DEFINE f == [k \in {0} |-> st]
  <1>1. f[0] = st /\ f[Len(<<>>)] = st
    OBVIOUS
  <1>2. \A k \in 1 .. Len(<<>>) : f[k] = g[<<f[k - 1], <<>>[k]>>]
    OBVIOUS
  <1> HIDE DEF f
  <1> QED
    BY <1>1, <1>2 DEF Leads, Trace

\* Over one byte one step is taken.
LEMMA LeadsOne ==
  ASSUME NEW g, NEW st, NEW a
  PROVE  Leads(g, st, <<a>>, g[<<st, a>>])
PROOF
  <1> DEFINE f == [k \in 0 .. 1 |-> IF k = 0 THEN st ELSE g[<<st, a>>]]
             s == <<a>>
  <1>1. f[0] = st /\ f[1] = g[<<st, a>>]
    OBVIOUS
  <1>2. Len(s) = 1 /\ s[1] = a
    OBVIOUS
  <1> HIDE DEF f, s
  <1>3. \A k \in 1 .. Len(s) : f[k] = g[<<f[k - 1], s[k]>>]
    BY <1>1, <1>2
  <1>4. Leads(g, st, s, g[<<st, a>>])
    BY <1>1, <1>2, <1>3 DEF Leads, Trace
  <1> QED
    BY <1>4 DEF s

\* Over two sequences the second begins where the first one ended.
LEMMA LeadsConcat ==
  ASSUME NEW g, NEW st, NEW tt, NEW uu, NEW A, NEW s \in Seq(A), NEW t \in Seq(A),
         Leads(g, st, s, tt), Leads(g, tt, t, uu)
  PROVE  Leads(g, st, s \o t, uu)
PROOF
  <1> DEFINE m == Len(s)
             n == Len(t)
             w == s \o t
  <1>1. PICK e : e[0] = st /\ e[m] = tt /\ \A k \in 1 .. m : e[k] = g[<<e[k - 1], s[k]>>]
    BY DEF Leads, Trace
  <1>2. PICK f : f[0] = tt /\ f[n] = uu /\ \A k \in 1 .. n : f[k] = g[<<f[k - 1], t[k]>>]
    BY DEF Leads, Trace
  <1>3. /\ m \in Nat /\ n \in Nat /\ Len(w) = m + n
        /\ \A k \in 1 .. m : w[k] = s[k]
        /\ \A k \in m + 1 .. m + n : w[k] = t[k - m]
    OBVIOUS
  <1> HIDE DEF m, n, w
  <1> DEFINE h == [k \in 0 .. m + n |-> IF k <= m THEN e[k] ELSE f[k - m]]
  <1>4. h[0] = st /\ h[m] = tt
    BY <1>1, <1>3
  <1>5. h[m + n] = uu
    <2>1. CASE n = 0
      BY <2>1, <1>1, <1>2, <1>3
    <2>2. CASE n # 0
      BY <2>2, <1>2, <1>3
    <2> QED
      BY <2>1, <2>2
  <1>6. ASSUME NEW k \in 1 .. m + n
        PROVE  h[k] = g[<<h[k - 1], w[k]>>]
    <2>1. CASE k <= m
      <3>1. h[k] = e[k] /\ h[k - 1] = e[k - 1] /\ w[k] = s[k] /\ k \in 1 .. m
        BY <2>1, <1>3
      <3> QED
        BY <3>1, <1>1
    <2>2. CASE k = m + 1
      <3>1. k - 1 = m /\ k - m = 1 /\ 1 \in 1 .. n /\ ~ (k <= m) /\ k \in m + 1 .. m + n
        BY <2>2, <1>3
      <3>2. h[k] = f[k - m]
        BY <3>1, <1>3
      <3>3. h[k - 1] = f[0] /\ w[k] = t[k - m]
        BY <3>1, <1>2, <1>3, <1>4
      <3>4. f[1] = g[<<f[0], t[1]>>]
        BY <3>1, <1>2
      <3> QED
        BY <3>1, <3>2, <3>3, <3>4
    <2>3. CASE k > m + 1
      <3> DEFINE j == k - m
      <3>1. /\ j \in 1 .. n /\ ~ (k <= m) /\ ~ (k - 1 <= m)
            /\ k \in m + 1 .. m + n /\ k - 1 \in 0 .. m + n /\ (k - 1) - m = j - 1
        BY <2>3, <1>3
      <3>2. h[k] = f[j] /\ w[k] = t[j]
        BY <3>1, <1>3
      <3>3. h[k - 1] = f[(k - 1) - m]
        BY <3>1
      <3>4. f[j] = g[<<f[j - 1], t[j]>>]
        BY <3>1, <1>2
      <3> HIDE DEF j, h
      <3> QED
        BY <3>1, <3>2, <3>3, <3>4
    <2> QED
      BY <2>1, <2>2, <2>3, <1>3
  <1> HIDE DEF h
  <1>7. Leads(g, st, w, uu)
    BY <1>3, <1>4, <1>5, <1>6 DEF Leads, Trace
  <1> QED
    BY <1>7 DEF w

\* A parser is a function: it ends in one state only.
LEMMA LeadsUnique ==
  ASSUME NEW g, NEW st, NEW tt, NEW uu, NEW A, NEW s \in Seq(A),
         Leads(g, st, s, tt), Leads(g, st, s, uu)
  PROVE  tt = uu
PROOF
  <1> DEFINE n == Len(s)
  <1>1. PICK e : e[0] = st /\ e[n] = tt /\ \A k \in 1 .. n : e[k] = g[<<e[k - 1], s[k]>>]
    BY DEF Leads, Trace
  <1>2. PICK f : f[0] = st /\ f[n] = uu /\ \A k \in 1 .. n : f[k] = g[<<f[k - 1], s[k]>>]
    BY DEF Leads, Trace
  <1>3. n \in Nat
    OBVIOUS
  <1> HIDE DEF n
  <1> DEFINE T == {k \in 0 .. n : e[k] = f[k]}
  <1>4. 0 \in T
    BY <1>1, <1>2, <1>3
  <1>5. ASSUME NEW k \in 1 .. n, k - 1 \in T
        PROVE  k \in T
    <2>1. e[k - 1] = f[k - 1]
      BY <1>5
    <2>2. e[k] = f[k]
      BY <2>1, <1>1, <1>2
    <2>3. k \in 0 .. n
      BY <1>3
    <2> QED
      BY <2>2, <2>3
  <1> HIDE DEF T
  <1>6. 0 .. n \subseteq T
    BY <1>3, <1>4, <1>5, Induct
  <1>7. n \in T
    BY <1>3, <1>6
  <1> QED
    BY <1>1, <1>2, <1>7 DEF T

\* What every byte keeps holds at the end.
LEMMA LeadsKeeps ==
  ASSUME NEW g, NEW P, NEW A, NEW s \in Seq(A), NEW st \in P, NEW tt,
         Leads(g, st, s, tt), \A x \in P : \A a \in A : g[<<x, a>>] \in P
  PROVE  tt \in P
PROOF
  <1> DEFINE n == Len(s)
  <1>1. PICK f : f[0] = st /\ f[n] = tt /\ \A k \in 1 .. n : f[k] = g[<<f[k - 1], s[k]>>]
    BY DEF Leads, Trace
  <1>2. n \in Nat /\ \A k \in 1 .. n : s[k] \in A
    OBVIOUS
  <1> HIDE DEF n
  <1> DEFINE T == {k \in 0 .. n : f[k] \in P}
  <1>3. 0 \in T
    BY <1>1, <1>2
  <1>4. ASSUME NEW k \in 1 .. n, k - 1 \in T
        PROVE  k \in T
    <2>1. f[k - 1] \in P /\ s[k] \in A
      BY <1>2, <1>4
    <2>2. f[k] \in P
      BY <2>1, <1>1
    <2>3. k \in 0 .. n
      BY <1>2
    <2> QED
      BY <2>2, <2>3
  <1> HIDE DEF T
  <1>5. 0 .. n \subseteq T
    BY <1>2, <1>3, <1>4, Induct
  <1>6. n \in T
    BY <1>2, <1>5
  <1> QED
    BY <1>1, <1>6 DEF T

\* Every sequence can be gone through.
LEMMA TraceExists ==
  ASSUME NEW St, NEW A, NEW g \in [St \X A -> St], NEW s \in Seq(A), NEW st \in St
  PROVE  \E f \in [0 .. Len(s) -> St] : Trace(g, st, s, f)
PROOF
  <1> DEFINE n == Len(s)
             h == [p \in St \X (1 .. n) |-> g[<<p[1], s[p[2]]>>]]
  <1>1. n \in Nat /\ \A k \in 1 .. n : s[k] \in A
    OBVIOUS
  <1>2. h \in [St \X (1 .. n) -> St]
    OBVIOUS
  <1>3. \A x \in St : \A k \in 1 .. n : h[<<x, k>>] = g[<<x, s[k]>>]
    OBVIOUS
  <1> HIDE DEF n, h
  <1>4. PICK f \in [0 .. n -> St] : Folded(f, n, st, h)
    <2>1. n \in Nat
      BY <1>1
    <2> QED
      BY <2>1, <1>2, FoldExists, ZenonT(30)
  <1>5. ASSUME NEW k \in 1 .. n
        PROVE  f[k] = g[<<f[k - 1], s[k]>>]
    <2>1. f[k] = h[<<f[k - 1], k>>]
      BY <1>4 DEF Folded
    <2>2. f[k - 1] \in St
      BY <1>1
    <2> QED
      BY <1>3, <2>1, <2>2
  <1> QED
    BY <1>4, <1>5 DEF Trace, n, Folded

\* A parser always ends in one of its states.
LEMMA LeadsSome ==
  ASSUME NEW St, NEW A, NEW g \in [St \X A -> St], NEW s \in Seq(A), NEW st \in St
  PROVE  \E tt \in St : Leads(g, st, s, tt)
PROOF
  <1>1. PICK f \in [0 .. Len(s) -> St] : Trace(g, st, s, f)
    BY TraceExists
  <1>2. f[Len(s)] \in St
    OBVIOUS
  <1> QED
    BY <1>1, <1>2 DEF Leads

\* f is in St up to n.
Within(f, n, St) == \A k \in 0 .. n : f[k] \in St

\* A function that takes the steps of g from st, as long as it is in St.
LEMMA TraceTyped ==
  ASSUME NEW St, NEW A, NEW g \in [St \X A -> St], NEW s \in Seq(A), NEW st \in St,
         NEW f, f[0] = st,
         \A k \in 1 .. Len(s) : f[k - 1] \in St => f[k] = g[<<f[k - 1], s[k]>>]
  PROVE  Trace(g, st, s, f) /\ Within(f, Len(s), St)
PROOF
  <1> DEFINE n == Len(s)
             T == {k \in 0 .. n : f[k] \in St}
  <1>1. n \in Nat /\ \A k \in 1 .. n : s[k] \in A
    OBVIOUS
  <1> HIDE DEF n
  <1>2. 0 \in T
    BY <1>1
  <1>3. ASSUME NEW k \in 1 .. n, k - 1 \in T
        PROVE  k \in T
    <2>1. f[k - 1] \in St /\ s[k] \in A
      BY <1>1, <1>3
    <2>2. f[k] = g[<<f[k - 1], s[k]>>]
      BY <2>1 DEF n
    <2>3. k \in 0 .. n
      BY <1>1
    <2> QED
      BY <2>1, <2>2, <2>3
  <1> HIDE DEF T
  <1>4. 0 .. n \subseteq T
    BY <1>1, <1>2, <1>3, Induct
  <1>5. \A k \in 0 .. n : f[k] \in St
    BY <1>4 DEF T
  <1>6. ASSUME NEW k \in 1 .. n
        PROVE  f[k] = g[<<f[k - 1], s[k]>>]
    <2>1. k - 1 \in 0 .. n
      BY <1>1
    <2> QED
      BY <1>5, <2>1 DEF n
  <1> QED
    BY <1>5, <1>6 DEF Trace, n, Within

-----------------------------------------------------------------------------
(* FlattenSeq, by which Packet and Core join the pieces of a packet.         *)

\* FlattenSeq, whose definition in the library goes from the end, also goes
\* from the front, as the loops of SPIbus.cpp do.
LEMMA FlattenSteps ==
  ASSUME NEW S, NEW ss \in Seq(Seq(S))
  PROVE  \E h \in [0 .. Len(ss) -> Seq(S)] :
           /\ h[0] = <<>> /\ \A k \in 1 .. Len(ss) : h[k] = h[k - 1] \o ss[k]
           /\ FlattenSeq(ss) = h[Len(ss)]
PROOF
  <1> DEFINE n == Len(ss)
             g == [p \in Seq(S) \X Seq(S) |-> p[1] \o p[2]]
             eq(f) == f = [i \in 1 .. n |-> IF i = 1 THEN ss[i] ELSE f[i - 1] \o ss[i]]
             F == CHOOSE f : eq(f)
  <1>1. n \in Nat /\ \A k \in 1 .. n : ss[k] \in Seq(S)
    OBVIOUS
  <1>2. FlattenSeq(ss) = IF n = 0 THEN ss ELSE F[n]
    BY DEF FlattenSeq
  <1>3. n = 0 => ss = <<>>
    OBVIOUS
  <1>4. g \in [Seq(S) \X Seq(S) -> Seq(S)] /\ <<>> \in Seq(S)
    OBVIOUS
  <1>5. PICK h \in [0 .. n -> Seq(S)] : Trace(g, <<>>, ss, h)
    <2> HIDE DEF g, F, eq
    <2> QED
      BY <1>4, TraceExists
  <1> HIDE DEF n
  <1>6. h[0] = <<>> /\ \A k \in 1 .. n : h[k] = h[k - 1] \o ss[k]
    <2>1. h[0] = <<>> /\ \A k \in 1 .. n : h[k] = g[<<h[k - 1], ss[k]>>]
      BY <1>5 DEF Trace, n
    <2>2. ASSUME NEW k \in 1 .. n
          PROVE  h[k - 1] \in Seq(S) /\ ss[k] \in Seq(S)
      BY <1>1
    <2> QED
      BY <2>1, <2>2
  <1> DEFINE r == [i \in 1 .. n |-> h[i]]
  <1>7. eq(r)
    <2>1. ASSUME NEW i \in 1 .. n
          PROVE  h[i] = IF i = 1 THEN ss[i] ELSE r[i - 1] \o ss[i]
      <3>1. CASE i = 1
        <4>1. h[i] = h[i - 1] \o ss[i]
          BY <1>6
        <4>2. i - 1 = 0
          BY <3>1
        <4>3. h[i] = h[i - 1] \o ss[i] /\ i - 1 = 0
          BY <4>1, <4>2
        <4>4. h[i] = h[0] \o ss[i] /\ ss[i] \in Seq(S)
          BY <4>3, <1>1
        <4>5. h[i] = <<>> \o ss[i]
          BY <4>4, <1>6
        <4>6. <<>> \o ss[i] = ss[i]
          BY <4>4, ConcatEmptySeq
        <4> QED
          BY <3>1, <4>5, <4>6
      <3>2. CASE i # 1
        <4>1. i - 1 \in 1 .. n
          BY <3>2, <1>1
        <4> QED
          BY <3>2, <4>1, <1>6
      <3> QED
        BY <3>1, <3>2
    <2> QED
      BY <2>1
  <1>8. eq(F)
    <2> HIDE DEF eq, r
    <2> QED
      BY <1>7
  <1> HIDE DEF F
  <1> DEFINE T == {k \in 0 .. n : k = 0 \/ F[k] = h[k]}
  <1>9. 0 \in T
    BY <1>1
  <1>10. ASSUME NEW k \in 1 .. n, k - 1 \in T
         PROVE  k \in T
    <2>1. F[k] = IF k = 1 THEN ss[k] ELSE F[k - 1] \o ss[k]
      BY <1>8
    <2>2. h[k] = IF k = 1 THEN ss[k] ELSE h[k - 1] \o ss[k]
      <3>1. h[k] = IF k = 1 THEN ss[k] ELSE r[k - 1] \o ss[k]
        BY <1>7
      <3>2. k # 1 => k - 1 \in 1 .. n
        BY <1>1
      <3> QED
        BY <3>1, <3>2
    <2>3. k # 1 => F[k - 1] = h[k - 1]
      BY <1>10
    <2>4. k \in 0 .. n
      BY <1>1
    <2>5. F[k] = h[k]
      BY <2>1, <2>2, <2>3
    <2> QED
      BY <2>4, <2>5
  <1>11. n # 0 => F[n] = h[n]
    <2> HIDE DEF T
    <2>1. 0 .. n \subseteq T
      BY <1>1, <1>9, <1>10, Induct
    <2>2. n \in T
      BY <2>1, <1>1
    <2> QED
      BY <2>2 DEF T
  <1>12. FlattenSeq(ss) = h[n]
    BY <1>2, <1>3, <1>6, <1>11
  <1> QED
    BY <1>6, <1>12 DEF n

\* What is joined is a sequence over the same set.
LEMMA FlattenType ==
  ASSUME NEW S, NEW ss \in Seq(Seq(S))
  PROVE  FlattenSeq(ss) \in Seq(S)
PROOF
  <1>1. PICK h \in [0 .. Len(ss) -> Seq(S)] : FlattenSeq(ss) = h[Len(ss)]
    BY FlattenSteps
  <1>2. Len(ss) \in 0 .. Len(ss)
    OBVIOUS
  <1> QED
    BY <1>1, <1>2

\* g over the pieces one after the other.
LEMMA LeadsFlatten ==
  ASSUME NEW g, NEW S, NEW ss \in Seq(Seq(S)), NEW v,
         \A k \in 1 .. Len(ss) : Leads(g, v[k - 1], ss[k], v[k])
  PROVE  Leads(g, v[0], FlattenSeq(ss), v[Len(ss)])
PROOF
  <1> DEFINE n == Len(ss)
  <1>1. PICK h \in [0 .. n -> Seq(S)] :
           /\ h[0] = <<>> /\ \A k \in 1 .. n : h[k] = h[k - 1] \o ss[k]
           /\ FlattenSeq(ss) = h[n]
    BY FlattenSteps
  <1>2. n \in Nat /\ \A k \in 1 .. n : ss[k] \in Seq(S)
    OBVIOUS
  <1>3. \A k \in 1 .. n : Leads(g, v[k - 1], ss[k], v[k])
    OBVIOUS
  <1> HIDE DEF n
  <1> DEFINE T == {k \in 0 .. n : Leads(g, v[0], h[k], v[k])}
  <1>4. 0 \in T
    BY <1>1, <1>2, LeadsEmpty
  <1>5. ASSUME NEW k \in 1 .. n, k - 1 \in T
        PROVE  k \in T
    <2>1. Leads(g, v[0], h[k - 1], v[k - 1]) /\ h[k - 1] \in Seq(S) /\ ss[k] \in Seq(S)
      BY <1>2, <1>5
    <2>2. Leads(g, v[0], h[k - 1] \o ss[k], v[k])
      BY <2>1, <1>3, LeadsConcat
    <2>3. k \in 0 .. n
      BY <1>2
    <2> QED
      BY <2>2, <2>3, <1>1
  <1> HIDE DEF T
  <1>6. 0 .. n \subseteq T
    BY <1>2, <1>4, <1>5, Induct
  <1>7. n \in T
    BY <1>2, <1>6
  <1> QED
    BY <1>1, <1>7 DEF T, n

\* The length is the sum of those of the pieces.
LEMMA FlattenLen ==
  ASSUME NEW S, NEW ss \in Seq(Seq(S)), NEW v \in [0 .. Len(ss) -> Nat], v[0] = 0,
         \A k \in 1 .. Len(ss) : v[k] = v[k - 1] + Len(ss[k])
  PROVE  Len(FlattenSeq(ss)) = v[Len(ss)]
PROOF
  <1> DEFINE n == Len(ss)
  <1>1. PICK h \in [0 .. n -> Seq(S)] :
           /\ h[0] = <<>> /\ \A k \in 1 .. n : h[k] = h[k - 1] \o ss[k]
           /\ FlattenSeq(ss) = h[n]
    BY FlattenSteps
  <1>2. n \in Nat /\ \A k \in 1 .. n : ss[k] \in Seq(S)
    OBVIOUS
  <1>3. v[0] = 0 /\ \A k \in 1 .. n : v[k] = v[k - 1] + Len(ss[k])
    OBVIOUS
  <1> HIDE DEF n
  <1> DEFINE T == {k \in 0 .. n : Len(h[k]) = v[k]}
  <1>4. 0 \in T
    BY <1>1, <1>2, <1>3
  <1>5. ASSUME NEW k \in 1 .. n, k - 1 \in T
        PROVE  k \in T
    <2>1. Len(h[k - 1]) = v[k - 1] /\ h[k - 1] \in Seq(S) /\ ss[k] \in Seq(S)
      BY <1>2, <1>5
    <2>2. Len(h[k - 1] \o ss[k]) = v[k]
      <3>1. Len(h[k - 1] \o ss[k]) = Len(h[k - 1]) + Len(ss[k])
        BY <2>1, ConcatProperties
      <3> QED
        BY <3>1, <2>1, <1>3
    <2>3. k \in 0 .. n
      BY <1>2
    <2> QED
      BY <2>2, <2>3, <1>1
  <1> HIDE DEF T
  <1>6. 0 .. n \subseteq T
    BY <1>2, <1>4, <1>5, Induct
  <1>7. n \in T
    BY <1>2, <1>6
  <1> QED
    BY <1>1, <1>7 DEF T, n

-----------------------------------------------------------------------------
(* Sequences.                                                                *)

\* Appending to the second part appends to the whole.
LEMMA ConcatAppend ==
  ASSUME NEW S, NEW s \in Seq(S), NEW t \in Seq(S), NEW e \in S
  PROVE  /\ s \o Append(t, e) = Append(s \o t, e)
         /\ s \o t \in Seq(S) /\ Append(t, e) \in Seq(S)
OBVIOUS

\* Two bytes are one and one.
LEMMA Pair ==
  ASSUME NEW S, NEW a \in S, NEW b \in S
  PROVE  <<a, b>> = <<a>> \o <<b>> /\ <<a>> \in Seq(S) /\ <<b>> \in Seq(S) /\ <<a, b>> \in Seq(S)
PROOF
  <1>1. <<a>> \in Seq(S) /\ <<b>> \in Seq(S)
    OBVIOUS
  <1>2. Append(<<a>>, b) = <<a>> \o <<b>> /\ Append(<<a>>, b) \in Seq(S)
    BY <1>1, AppendIsConcat, AppendProperties
  <1>3. Append(<<a>>, b) = <<a, b>>
    <2> DEFINE p == Append(<<a>>, b)
               q == <<a, b>>
    <2>1. p \in Seq(S) /\ Len(p) = 2 /\ p[1] = a /\ p[2] = b
      BY AppendProperties
    <2>2. q \in Seq(S) /\ Len(q) = 2 /\ q[1] = a /\ q[2] = b
      OBVIOUS
    <2> HIDE DEF p, q
    <2>3. \A i \in 1 .. Len(p) : p[i] = q[i]
      BY <2>1, <2>2
    <2>4. p = q
      BY <2>1, <2>2, <2>3, SeqEqual
    <2> QED
      BY <2>4 DEF p, q
  <1> QED
    BY <1>1, <1>2, <1>3

-----------------------------------------------------------------------------
(* Escapes.                                                                  *)

\* XOR with 0x20 of a byte is a byte, and undoes itself.
LEMMA XorType ==
  ASSUME NEW b \in Byte
  PROVE  xor_20(b) \in Byte /\ xor_20(xor_20(b)) = b
BY DEF xor_20, Byte

-----------------------------------------------------------------------------
(* byte_to_core_convert and what undoes it.                                  *)

\* The states of FromCore, and those in which no escape has begun.
CoreState == [out : Seq(Byte), esc : BOOLEAN]
CoreStart == [out |-> <<>>, esc |-> FALSE]
CoreStep  == [p \in CoreState \X Byte |-> CoreTake(p[1], p[2])]
Got(o)    == [out |-> o, esc |-> FALSE]

\* Changes of one field.
LEMMA CoreFields ==
  ASSUME NEW o, NEW x
  PROVE  /\ [Got(o) EXCEPT !.out = x] = Got(x)
         /\ [Got(o) EXCEPT !.esc = x] = [out |-> o, esc |-> x]
PROOF
  <1> DEFINE e == FALSE
  <1>1. /\ [[out |-> o, esc |-> e] EXCEPT !.out = x] = [out |-> x, esc |-> e]
        /\ [[out |-> o, esc |-> e] EXCEPT !.esc = x] = [out |-> o, esc |-> x]
    <2> HIDE DEF e
    <2> QED
      OBVIOUS
  <1> QED
    BY <1>1 DEF Got

\* A step stays among the states.
LEMMA CoreTakeType ==
  ASSUME NEW st \in CoreState, NEW b \in Byte
  PROVE  CoreTake(st, b) \in CoreState /\ CoreStep[<<st, b>>] = CoreTake(st, b)
PROOF
  <1>1. xor_20(b) \in Byte
    BY XorType
  <1>2. st.out \in Seq(Byte)
    BY DEF CoreState
  <1>3. Append(st.out, b) \in Seq(Byte) /\ Append(st.out, xor_20(b)) \in Seq(Byte)
    BY <1>1, <1>2
  <1>4. CoreTake(st, b) \in CoreState
    BY <1>3 DEF CoreTake, CoreState
  <1> QED
    BY <1>4 DEF CoreStep

\* The steps are a function on the states.
LEMMA CoreStepType ==
  CoreStep \in [CoreState \X Byte -> CoreState]
BY CoreTakeType DEF CoreStep

\* A state without an escape begun is a state.
LEMMA GotType ==
  ASSUME NEW o \in Seq(Byte)
  PROVE  Got(o) \in CoreState /\ Got(o).out = o /\ Got(o).esc = FALSE /\ CoreStart \in CoreState
BY DEF Got, CoreState, CoreStart

\* FromCore is where the steps lead to.
LEMMA FromCoreLeads ==
  ASSUME NEW s \in Seq(Byte), NEW tt, Leads(CoreStep, CoreStart, s, tt)
  PROVE  FromCore(s) = tt.out
PROOF
  <1> DEFINE n == Len(s)
             eq(f) == f = [k \in 0 .. n |-> IF k = 0 THEN CoreStart ELSE CoreTake(f[k - 1], s[k])]
             F == CHOOSE f : eq(f)
  <1>1. n \in Nat /\ \A k \in 1 .. n : s[k] \in Byte
    OBVIOUS
  <1>2. CoreStart \in CoreState
    BY DEF CoreStart, CoreState
  <1>3. FromCore(s) = F[n].out
    BY DEF FromCore, Parse, CoreStart
  <1>4. PICK h \in [0 .. n -> CoreState] : Trace(CoreStep, CoreStart, s, h)
    <2> HIDE DEF F, eq
    <2> QED
      BY <1>2, CoreStepType, TraceExists
  <1> HIDE DEF n
  <1>5. h[0] = CoreStart /\ \A k \in 1 .. n : h[k] = CoreTake(h[k - 1], s[k])
    <2>1. h[0] = CoreStart /\ \A k \in 1 .. n : h[k] = CoreStep[<<h[k - 1], s[k]>>]
      BY <1>4 DEF Trace, n
    <2>2. ASSUME NEW k \in 1 .. n
          PROVE  h[k - 1] \in CoreState /\ s[k] \in Byte
      BY <1>1
    <2> QED
      BY <2>1, <2>2, CoreTakeType
  <1>6. eq(h)
    BY <1>1, <1>5
  <1>7. eq(F)
    <2> HIDE DEF eq
    <2> QED
      BY <1>6
  <1> HIDE DEF F
  <1>8. F[0] = CoreStart /\ \A k \in 1 .. n : F[k] = CoreTake(F[k - 1], s[k])
    BY <1>1, <1>7
  <1>9. Trace(CoreStep, CoreStart, s, F)
    <2>1. ASSUME NEW k \in 1 .. Len(s), F[k - 1] \in CoreState
          PROVE  F[k] = CoreStep[<<F[k - 1], s[k]>>]
      <3>1. k \in 1 .. n /\ s[k] \in Byte
        BY <1>1 DEF n
      <3>2. F[k] = CoreTake(F[k - 1], s[k])
        BY <1>8, <3>1
      <3> QED
        BY <2>1, <3>1, <3>2, CoreTakeType
    <2> QED
      BY <1>2, <1>8, <2>1, CoreStepType, TraceTyped
  <1>10. Leads(CoreStep, CoreStart, s, F[n])
    BY <1>9 DEF Leads, n
  <1>11. tt = F[n]
    BY <1>10, LeadsUnique
  <1> QED
    BY <1>3, <1>11

\* Idle bytes between two bytes change nothing.
LEMMA CoreIdle ==
  ASSUME NEW s \in Seq({BYTESIDLECHAR}), NEW o \in Seq(Byte)
  PROVE  Leads(CoreStep, Got(o), s, Got(o))
PROOF
  <1>1. s \in Seq(Byte)
    BY DEF BYTESIDLECHAR, Byte
  <1>2. PICK tt \in CoreState : Leads(CoreStep, Got(o), s, tt)
    BY <1>1, GotType, CoreStepType, LeadsSome
  <1>3. CoreStep[<<Got(o), BYTESIDLECHAR>>] = Got(o)
    <2>1. BYTESIDLECHAR \in Byte
      BY DEF BYTESIDLECHAR, Byte
    <2>2. CoreStep[<<Got(o), BYTESIDLECHAR>>] = CoreTake(Got(o), BYTESIDLECHAR)
      BY <2>1, GotType, CoreTakeType
    <2>3. CoreTake(Got(o), BYTESIDLECHAR) = Got(o)
      BY GotType DEF CoreTake
    <2> QED
      BY <2>2, <2>3
  <1> DEFINE P == {Got(o)}
             A == {BYTESIDLECHAR}
  <1>4. Got(o) \in P /\ s \in Seq(A) /\ \A x \in P : \A a \in A : CoreStep[<<x, a>>] \in P
    BY <1>3
  <1> HIDE DEF P, A
  <1>5. tt \in P
    BY <1>2, <1>4, LeadsKeeps
  <1> QED
    BY <1>2, <1>5 DEF P

\* One byte of a packet, escaped or not, is that byte.
LEMMA CorePiece ==
  ASSUME NEW o \in Seq(Byte), NEW b \in Byte
  PROVE  CoreByte(b) \in Seq(Byte) /\ Leads(CoreStep, Got(o), CoreByte(b), Got(Append(o, b)))
PROOF
  <1> DEFINE x == xor_20(b)
  <1>1. x \in Byte /\ xor_20(x) = b
    BY XorType
  <1>2. Got(o) \in CoreState /\ Got(o).out = o /\ ~ Got(o).esc
    BY GotType
  <1>3. CASE b \in {BYTESIDLECHAR, BYTESESCCHAR}
    <2> DEFINE e == [out |-> o, esc |-> TRUE]
    <2>1. e \in CoreState /\ BYTESESCCHAR \in Byte
      BY DEF CoreState, BYTESESCCHAR, Byte
    <2>2. CoreStep[<<Got(o), BYTESESCCHAR>>] = e
      <3>1. CoreStep[<<Got(o), BYTESESCCHAR>>] = CoreTake(Got(o), BYTESESCCHAR)
        BY <1>2, <2>1, CoreTakeType
      <3>2. CoreTake(Got(o), BYTESESCCHAR) = [Got(o) EXCEPT !.esc = TRUE]
        BY <1>2 DEF CoreTake, BYTESESCCHAR, BYTESIDLECHAR
      <3>3. [Got(o) EXCEPT !.esc = TRUE] = e
        BY CoreFields
      <3> QED
        BY <3>1, <3>2, <3>3
    <2> HIDE DEF x
    <2>3. CoreStep[<<e, x>>] = Got(Append(o, b))
      BY <1>1, <2>1, CoreTakeType DEF CoreTake, Got
    <2> HIDE DEF e
    <2>4. Leads(CoreStep, Got(o), <<BYTESESCCHAR>>, e) /\ Leads(CoreStep, e, <<x>>, Got(Append(o, b)))
      BY <2>2, <2>3, LeadsOne
    <2>5. <<BYTESESCCHAR>> \in Seq(Byte) /\ <<x>> \in Seq(Byte)
      BY <1>1, <2>1
    <2>6. <<BYTESESCCHAR>> \o <<x>> = <<BYTESESCCHAR, x>> /\ <<BYTESESCCHAR, x>> \in Seq(Byte)
      BY <1>1, <2>1, Pair
    <2>7. Leads(CoreStep, Got(o), <<BYTESESCCHAR>> \o <<x>>, Got(Append(o, b)))
      BY <2>4, <2>5, LeadsConcat
    <2>8. CoreByte(b) = <<BYTESESCCHAR, x>>
      BY <1>3 DEF CoreByte, x
    <2> QED
      BY <2>6, <2>7, <2>8
  <1>4. CASE b \notin {BYTESIDLECHAR, BYTESESCCHAR}
    <2>1. CoreStep[<<Got(o), b>>] = Got(Append(o, b))
      <3>1. CoreStep[<<Got(o), b>>] = CoreTake(Got(o), b)
        BY <1>2, CoreTakeType
      <3>2. CoreTake(Got(o), b) = [Got(o) EXCEPT !.out = Append(o, b)]
        BY <1>2, <1>4 DEF CoreTake
      <3>3. [Got(o) EXCEPT !.out = Append(o, b)] = Got(Append(o, b))
        BY CoreFields
      <3> QED
        BY <3>1, <3>2, <3>3
    <2>2. CoreByte(b) = <<b>>
      BY <1>4 DEF CoreByte
    <2>3. Leads(CoreStep, Got(o), <<b>>, Got(Append(o, b)))
      BY <2>1, LeadsOne
    <2> QED
      BY <2>2, <2>3
  <1> QED
    BY <1>3, <1>4

\* What was converted is got back.
LEMMA CoreRoundTrip ==
  ASSUME NEW o \in Seq(Byte), NEW x \in Seq(Byte)
  PROVE  Core(x) \in Seq(Byte) /\ Leads(CoreStep, Got(o), Core(x), Got(o \o x))
PROOF
  <1> DEFINE n == Len(x)
             ss == [k \in DOMAIN x |-> CoreByte(x[k])]
             v == [k \in 0 .. n |-> Got(o \o SubSeq(x, 1, k))]
  <1>1. n \in Nat /\ DOMAIN x = 1 .. n /\ \A k \in 1 .. n : x[k] \in Byte
    OBVIOUS
  <1>2. ss \in Seq(Seq(Byte)) /\ Len(ss) = n
    <2>1. \A k \in 1 .. n : CoreByte(x[k]) \in Seq(Byte)
      BY <1>1, CorePiece, EmptySeq
    <2> HIDE DEF n
    <2>2. ss \in [1 .. n -> Seq(Byte)]
      BY <1>1, <2>1
    <2> QED
      BY <1>1, <2>2
  <1>3. \A k \in 1 .. n : Leads(CoreStep, v[k - 1], ss[k], v[k])
    <2>1. TAKE k \in 1 .. n
    <2> DEFINE y == SubSeq(x, 1, k - 1)
    <2>2. y \in Seq(Byte) /\ SubSeq(x, 1, k) = Append(y, x[k]) /\ x[k] \in Byte
      OBVIOUS
    <2>3. v[k - 1] = Got(o \o y) /\ v[k] = Got(o \o SubSeq(x, 1, k)) /\ ss[k] = CoreByte(x[k])
      BY <1>1
    <2> HIDE DEF y, v, ss
    <2>4. o \o Append(y, x[k]) = Append(o \o y, x[k]) /\ o \o y \in Seq(Byte)
      BY <2>2
    <2>5. Leads(CoreStep, Got(o \o y), CoreByte(x[k]), Got(Append(o \o y, x[k])))
      BY <2>2, <2>4, CorePiece
    <2> QED
      BY <2>2, <2>3, <2>4, <2>5
  <1>4. Core(x) = FlattenSeq(ss)
    BY DEF Core
  <1>5. v[0] = Got(o) /\ v[n] = Got(o \o x)
    <2>1. SubSeq(x, 1, 0) = <<>> /\ SubSeq(x, 1, n) = x /\ o \o <<>> = o
      OBVIOUS
    <2>2. v[0] = Got(o \o SubSeq(x, 1, 0)) /\ v[n] = Got(o \o SubSeq(x, 1, n))
      BY <1>1
    <2> HIDE DEF v, n
    <2> QED
      BY <2>1, <2>2
  <1> HIDE DEF n, ss, v
  <1>6. Leads(CoreStep, v[0], FlattenSeq(ss), v[n])
    BY <1>2, <1>3, LeadsFlatten
  <1>7. FlattenSeq(ss) \in Seq(Byte)
    BY <1>2, FlattenType
  <1> QED
    BY <1>4, <1>5, <1>6, <1>7

\* Whatever comes is added behind.
LEMMA CoreAppends ==
  ASSUME NEW st \in CoreState, NEW s \in Seq(Byte), NEW tt, Leads(CoreStep, st, s, tt)
  PROVE  tt \in CoreState /\ \E y \in Seq(Byte) : tt.out = st.out \o y
PROOF
  <1> DEFINE P == {x \in CoreState : \E y \in Seq(Byte) : x.out = st.out \o y}
  <1>1. st.out \in Seq(Byte)
    BY DEF CoreState
  <1>2. st \in P
    <2>1. st.out = st.out \o <<>> /\ <<>> \in Seq(Byte)
      BY <1>1
    <2> QED
      BY <2>1
  <1>3. ASSUME NEW x \in P, NEW a \in Byte
        PROVE  CoreStep[<<x, a>>] \in P
    <2>1. x \in CoreState
      OBVIOUS
    <2>2. PICK y \in Seq(Byte) : x.out = st.out \o y
      OBVIOUS
    <2>3. CoreStep[<<x, a>>] = CoreTake(x, a) /\ CoreTake(x, a) \in CoreState
      BY <2>1, CoreTakeType
    <2>4. xor_20(a) \in Byte
      BY XorType
    <2>5. \A b \in Byte : Append(x.out, b) = st.out \o Append(y, b) /\ Append(y, b) \in Seq(Byte)
      <3>1. TAKE b \in Byte
      <3> DEFINE so == st.out
      <3>2. so \in Seq(Byte) /\ y \in Seq(Byte) /\ b \in Byte
        BY <1>1, <3>1
      <3> HIDE DEF so
      <3>3. so \o Append(y, b) = Append(so \o y, b) /\ Append(y, b) \in Seq(Byte)
        BY <3>2, ConcatAppend
      <3>4. Append(st.out \o y, b) = st.out \o Append(y, b) /\ Append(y, b) \in Seq(Byte)
        BY <3>3 DEF so
      <3> QED
        BY <3>4, <2>2
    <2>6. CoreTake(x, a).out \in {x.out, Append(x.out, a), Append(x.out, xor_20(a))}
      BY <2>1 DEF CoreTake, CoreState
    <2>7. \E z \in Seq(Byte) : CoreTake(x, a).out = st.out \o z
      BY <2>2, <2>4, <2>5, <2>6
    <2> QED
      BY <2>3, <2>7
  <1> HIDE DEF P
  <1>4. tt \in P
    BY <1>2, <1>3, LeadsKeeps
  <1> QED
    BY <1>4 DEF P

-----------------------------------------------------------------------------
(* What the SPI core makes of remains, of idle bytes and of plain ones.      *)

\* Bytes that begin neither a packet nor an escape of the core hold no
\* beginning of a packet.
NoSop == Byte \ {SOP}
Rest  == Byte \ {SOP, BYTESESCCHAR}

\* After such bytes nothing but bytes that begin no packet is got.
LEMMA CoreRest ==
  ASSUME NEW o \in Seq(Byte), NEW s \in Seq(Rest), NEW tt, Leads(CoreStep, Got(o), s, tt)
  PROVE  \E y \in Seq(NoSop) : tt = Got(o \o y)
PROOF
  <1> DEFINE P == {x \in CoreState : \E y \in Seq(NoSop) : x = Got(o \o y)}
  <1>1. Got(o) \in P
    <2>1. o = o \o <<>> /\ <<>> \in Seq(NoSop)
      OBVIOUS
    <2> QED
      BY <2>1, GotType
  <1>2. ASSUME NEW x \in P, NEW a \in Rest
        PROVE  CoreStep[<<x, a>>] \in P
    <2>1. PICK y \in Seq(NoSop) : x = Got(o \o y)
      OBVIOUS
    <2>2. y \in Seq(Byte) /\ a \in Byte /\ a \in NoSop
      BY DEF NoSop, Rest
    <2>3. /\ o \o Append(y, a) = Append(o \o y, a) /\ o \o y \in Seq(Byte) /\ Append(y, a) \in Seq(Byte)
      BY <2>2, ConcatAppend
    <2>4. Append(y, a) \in Seq(NoSop)
      BY <2>2
    <2> DEFINE z == o \o y
    <2>5. x \in CoreState /\ x.out = z /\ ~ x.esc
      BY <2>1, <2>3, GotType
    <2>6. CoreStep[<<x, a>>] = CoreTake(x, a)
      BY <2>2, <2>5, CoreTakeType
    <2>7. CASE a = BYTESIDLECHAR
      <3>1. CoreTake(x, a) = x
        BY <2>5, <2>7 DEF CoreTake
      <3> QED
        BY <3>1, <2>6
    <2>8. CASE a # BYTESIDLECHAR
      <3>1. CoreTake(x, a) = [Got(z) EXCEPT !.out = Append(z, a)]
        BY <2>1, <2>5, <2>8 DEF CoreTake, Rest
      <3>2. CoreTake(x, a) = Got(Append(z, a))
        BY <3>1, CoreFields
      <3>3. CoreTake(x, a) = Got(o \o Append(y, a)) /\ CoreTake(x, a) \in CoreState
        <4>1. Append(z, a) \in Seq(Byte)
          BY <2>2, <2>3
        <4> QED
          BY <3>2, <2>3, <4>1, GotType
      <3> QED
        BY <3>3, <2>4, <2>6
    <2> QED
      BY <2>7, <2>8
  <1> HIDE DEF P
  <1>3. tt \in P
    BY <1>1, <1>2, LeadsKeeps
  <1> QED
    BY <1>3 DEF P

\* A zero is always a byte, whatever precedes it.
LEMMA CoreZeros ==
  ASSUME NEW st \in CoreState, NEW n \in Nat, NEW tt, Leads(CoreStep, st, Zeros(n), tt)
  PROVE  Zeros(n) \in Seq(Byte) /\ Len(tt.out) = Len(st.out) + n
PROOF
  <1> DEFINE s == Zeros(n)
  <1>1. s \in Seq(Byte) /\ Len(s) = n /\ \A k \in 1 .. n : s[k] = 0
    <2>1. s \in [1 .. n -> Byte] /\ \A k \in 1 .. n : s[k] = 0
      BY DEF Zeros, Byte
    <2> HIDE DEF s
    <2> QED
      BY <2>1
  <1> HIDE DEF s
  <1>2. PICK f : f[0] = st /\ f[n] = tt /\ \A k \in 1 .. n : f[k] = CoreStep[<<f[k - 1], 0>>]
    <2>1. PICK f : Trace(CoreStep, st, s, f) /\ f[Len(s)] = tt
      BY DEF Leads, s
    <2> QED
      BY <2>1, <1>1 DEF Trace
  <1> DEFINE T == {k \in 0 .. n : f[k] \in CoreState /\ Len(f[k].out) = Len(st.out) + k}
  <1>3. 0 \in T
    <2>1. Len(st.out) \in Nat
      BY DEF CoreState
    <2> QED
      BY <1>2, <2>1
  <1>4. ASSUME NEW k \in 1 .. n, k - 1 \in T
        PROVE  k \in T
    <2> DEFINE x == f[k - 1]
    <2>1. x \in CoreState /\ Len(x.out) = Len(st.out) + k - 1
      <3>1. Len(st.out) \in Nat
        BY DEF CoreState
      <3> QED
        BY <1>4, <3>1
    <2>2. f[k] = CoreStep[<<x, 0>>]
      BY <1>2
    <2> HIDE DEF x
    <2>3. 0 \in Byte /\ xor_20(0) \in Byte
      BY XorType, SMTT(30) DEF Byte
    <2>4. f[k] = CoreTake(x, 0) /\ f[k] \in CoreState
      BY <2>1, <2>2, <2>3, CoreTakeType
    <2>5. x.out \in Seq(Byte)
      BY <2>1 DEF CoreState
    <2>6. CoreTake(x, 0).out \in {Append(x.out, 0), Append(x.out, xor_20(0))}
      BY <2>1 DEF CoreTake, CoreState, BYTESIDLECHAR, BYTESESCCHAR
    <2>7. Len(f[k].out) = Len(x.out) + 1
      BY <2>3, <2>4, <2>5, <2>6
    <2>8. Len(st.out) \in Nat /\ k \in 0 .. n
      BY DEF CoreState
    <2>9. Len(f[k].out) = Len(st.out) + k
      BY <2>1, <2>7, <2>8
    <2> QED
      BY <2>4, <2>8, <2>9
  <1>5. n \in T
    <2> HIDE DEF T
    <2>1. 0 .. n \subseteq T
      BY <1>3, <1>4, Induct
    <2> QED
      BY <2>1
  <1> QED
    BY <1>1, <1>2, <1>5 DEF s

\* The bytes that the SPI core sends as they are.
Literal == Byte \ {BYTESIDLECHAR, BYTESESCCHAR}

\* Bytes that need no escape are sent as they are.
LEMMA CorePlain ==
  ASSUME NEW x \in Seq(Literal)
  PROVE  Core(x) = x
PROOF
  <1> DEFINE n == Len(x)
             ss == [k \in DOMAIN x |-> CoreByte(x[k])]
  <1>1. n \in Nat /\ DOMAIN x = 1 .. n /\ \A k \in 1 .. n : x[k] \in Literal
    OBVIOUS
  <1>2. \A k \in 1 .. n : CoreByte(x[k]) = <<x[k]>>
    BY <1>1 DEF CoreByte, Literal
  <1>3. ss \in Seq(Seq(Literal)) /\ Len(ss) = n /\ \A k \in 1 .. n : ss[k] = <<x[k]>>
    <2>1. \A k \in 1 .. n : <<x[k]>> \in Seq(Literal)
      BY <1>1
    <2>2. ss = [k \in 1 .. n |-> <<x[k]>>]
      BY <1>1, <1>2
    <2> HIDE DEF n, ss
    <2>3. ss \in [1 .. n -> Seq(Literal)] /\ \A k \in 1 .. n : ss[k] = <<x[k]>>
      BY <2>1, <2>2
    <2> QED
      BY <1>1, <2>3
  <1>4. Core(x) = FlattenSeq(ss)
    BY DEF Core
  <1> HIDE DEF ss
  <1>5. PICK h \in [0 .. n -> Seq(Literal)] :
           /\ h[0] = <<>> /\ \A k \in 1 .. n : h[k] = h[k - 1] \o ss[k]
           /\ FlattenSeq(ss) = h[n]
    <2> HIDE DEF n
    <2>1. \E h \in [0 .. Len(ss) -> Seq(Literal)] :
            /\ h[0] = <<>> /\ \A k \in 1 .. Len(ss) : h[k] = h[k - 1] \o ss[k]
            /\ FlattenSeq(ss) = h[Len(ss)]
      BY <1>3, FlattenSteps
    <2> QED
      BY <1>3, <2>1
  <1> DEFINE T == {k \in 0 .. n : h[k] = SubSeq(x, 1, k)}
  <1>6. 0 \in T
    BY <1>1, <1>5
  <1>7. ASSUME NEW k \in 1 .. n, k - 1 \in T
        PROVE  k \in T
    <2> DEFINE y == SubSeq(x, 1, k - 1)
    <2>1. y \in Seq(Literal) /\ SubSeq(x, 1, k) = Append(y, x[k]) /\ x[k] \in Literal
      OBVIOUS
    <2>2. h[k - 1] = y /\ k \in 0 .. n
      BY <1>7
    <2> HIDE DEF y, n
    <2>3. h[k] = h[k - 1] \o ss[k] /\ ss[k] = <<x[k]>>
      BY <1>3, <1>5
    <2>4. y \o <<x[k]>> = Append(y, x[k])
      BY <2>1, AppendIsConcat
    <2> QED
      BY <2>1, <2>2, <2>3, <2>4
  <1>8. n \in T
    <2> HIDE DEF T, n
    <2>1. 0 .. n \subseteq T
      BY <1>1, <1>6, <1>7, Induct
    <2> QED
      BY <1>1, <2>1
  <1>9. SubSeq(x, 1, n) = x
    OBVIOUS
  <1> QED
    BY <1>4, <1>5, <1>8, <1>9

\* How many bytes were sent after each byte of a packet.
LenStep == [p \in Nat \X Byte |-> p[1] + Len(CoreByte(p[2]))]

\* The length of what is sent is counted byte by byte.
LEMMA CoreLen ==
  ASSUME NEW x \in Seq(Byte)
  PROVE  Leads(LenStep, 0, x, Len(Core(x)))
PROOF
  <1> DEFINE n == Len(x)
             ss == [k \in DOMAIN x |-> CoreByte(x[k])]
  <1>1. n \in Nat /\ DOMAIN x = 1 .. n /\ \A k \in 1 .. n : x[k] \in Byte
    OBVIOUS
  <1>2. ss \in Seq(Seq(Byte)) /\ Len(ss) = n /\ \A k \in 1 .. n : ss[k] = CoreByte(x[k]) /\ ss[k] \in Seq(Byte)
    <2>1. \A k \in 1 .. n : CoreByte(x[k]) \in Seq(Byte)
      BY <1>1, CorePiece, EmptySeq
    <2> HIDE DEF n
    <2>2. ss \in [1 .. n -> Seq(Byte)] /\ \A k \in 1 .. n : ss[k] = CoreByte(x[k])
      BY <1>1, <2>1
    <2> QED
      BY <1>1, <2>1, <2>2
  <1>3. Core(x) = FlattenSeq(ss)
    BY DEF Core
  <1> HIDE DEF ss
  <1>4. PICK h \in [0 .. n -> Seq(Byte)] :
           /\ h[0] = <<>> /\ \A k \in 1 .. n : h[k] = h[k - 1] \o ss[k]
           /\ FlattenSeq(ss) = h[n]
    <2> HIDE DEF n
    <2>1. \E h \in [0 .. Len(ss) -> Seq(Byte)] :
            /\ h[0] = <<>> /\ \A k \in 1 .. Len(ss) : h[k] = h[k - 1] \o ss[k]
            /\ FlattenSeq(ss) = h[Len(ss)]
      BY <1>2, FlattenSteps
    <2> QED
      BY <1>2, <2>1
  <1> HIDE DEF n
  <1> DEFINE f == [k \in 0 .. n |-> Len(h[k])]
  <1>5. f[0] = 0 /\ f[n] = Len(Core(x))
    BY <1>1, <1>3, <1>4
  <1>6. ASSUME NEW k \in 1 .. n
        PROVE  f[k] = LenStep[<<f[k - 1], x[k]>>]
    <2>1. h[k] = h[k - 1] \o ss[k] /\ h[k - 1] \in Seq(Byte) /\ ss[k] \in Seq(Byte) /\ ss[k] = CoreByte(x[k])
      <3>1. k - 1 \in 0 .. n
        BY <1>1
      <3>2. h[k] = h[k - 1] \o ss[k]
        BY <1>4
      <3> QED
        BY <1>2, <3>1, <3>2
    <2>2. Len(h[k]) = Len(h[k - 1]) + Len(ss[k]) /\ Len(h[k - 1]) \in Nat
      BY <2>1, ConcatProperties
    <2>3. f[k] = Len(h[k]) /\ f[k - 1] = Len(h[k - 1])
      BY <1>1
    <2> HIDE DEF f
    <2>4. x[k] \in Byte
      BY <1>1
    <2>5. LenStep[<<f[k - 1], x[k]>>] = f[k - 1] + Len(CoreByte(x[k]))
      BY <2>2, <2>3, <2>4 DEF LenStep
    <2> QED
      BY <2>1, <2>2, <2>3, <2>5
  <1> HIDE DEF f
  <1>7. Trace(LenStep, 0, x, f)
    BY <1>5, <1>6 DEF Trace, n
  <1> QED
    BY <1>5, <1>7 DEF Leads, n

-----------------------------------------------------------------------------
(* Packets.                                                                  *)

\* The bytes that stand for one in a packet.
LEMMA PacketByteType ==
  ASSUME NEW b \in Byte
  PROVE  /\ PacketByte(b) \in Seq(Byte)
         /\ PacketByte(b) = IF b \in {SOP, EOP, CHANNEL, ESC} THEN <<ESC>> \o <<xor_20(b)>> ELSE <<b>>
         /\ <<EOP>> \o PacketByte(b) \in Seq(Byte)
         /\ ESC \in Byte /\ SOP \in Byte /\ CHANNEL \in Byte /\ EOP \in Byte /\ <<EOP>> \in Seq(Byte)
PROOF
  <1>1. ESC \in Byte /\ SOP \in Byte /\ CHANNEL \in Byte /\ EOP \in Byte /\ xor_20(b) \in Byte
    <2>1. ESC \in Byte /\ SOP \in Byte /\ CHANNEL \in Byte /\ EOP \in Byte
      BY DEF ESC, SOP, CHANNEL, EOP, Byte
    <2> QED
      BY <2>1, XorType
  <1>2. <<ESC, xor_20(b)>> = <<ESC>> \o <<xor_20(b)>> /\ <<ESC, xor_20(b)>> \in Seq(Byte)
    BY <1>1, Pair
  <1>3. PacketByte(b) = IF b \in {SOP, EOP, CHANNEL, ESC} THEN <<ESC>> \o <<xor_20(b)>> ELSE <<b>>
    BY <1>2 DEF PacketByte
  <1>4. <<b>> \in Seq(Byte) /\ <<EOP>> \in Seq(Byte)
    BY <1>1
  <1>5. PacketByte(b) \in Seq(Byte)
    BY <1>2, <1>3, <1>4
  <1>6. <<EOP>> \o PacketByte(b) \in Seq(Byte)
    BY <1>4, <1>5, ConcatProperties
  <1> QED
    BY <1>1, <1>3, <1>4, <1>5, <1>6

\* What stands for the k-th byte in a packet.
Piece(data, k) == IF k = Len(data) THEN <<EOP>> \o PacketByte(data[k]) ELSE PacketByte(data[k])
Pieces(data)   == [k \in DOMAIN data |-> Piece(data, k)]

\* A packet is a heading and the pieces of its data.
LEMMA PacketPieces ==
  ASSUME NEW data \in Seq(Byte)
  PROVE  /\ Packet(data) = <<SOP, CHANNEL, 0>> \o FlattenSeq(Pieces(data))
         /\ Pieces(data) \in Seq(Seq(Byte)) /\ Len(Pieces(data)) = Len(data)
         /\ \A k \in 1 .. Len(data) : Pieces(data)[k] = Piece(data, k) /\ data[k] \in Byte
         /\ FlattenSeq(Pieces(data)) \in Seq(Byte)
         /\ <<SOP, CHANNEL, 0>> \in Seq(Byte)
PROOF
  <1> DEFINE n == Len(data)
             ss == Pieces(data)
  <1>1. Packet(data) = <<SOP, CHANNEL, 0>> \o FlattenSeq(ss)
    BY DEF Packet, Pieces, Piece
  <1>2. n \in Nat /\ DOMAIN data = 1 .. n /\ \A k \in 1 .. n : data[k] \in Byte
    OBVIOUS
  <1>3. \A k \in 1 .. n : Piece(data, k) \in Seq(Byte)
    BY <1>2, PacketByteType DEF Piece
  <1>4. ss \in [1 .. n -> Seq(Byte)] /\ \A k \in 1 .. n : ss[k] = Piece(data, k)
    <2>1. ss = [k \in 1 .. n |-> Piece(data, k)]
      BY <1>2 DEF Pieces
    <2> HIDE DEF n, ss
    <2> QED
      BY <1>3, <2>1
  <1>5. ss \in Seq(Seq(Byte)) /\ Len(ss) = n
    <2> HIDE DEF n, ss
    <2> QED
      BY <1>2, <1>4
  <1>6. FlattenSeq(ss) \in Seq(Byte)
    BY <1>5, FlattenType
  <1>7. <<SOP, CHANNEL, 0>> \in Seq(Byte)
    BY DEF SOP, CHANNEL, Byte
  <1> QED
    BY <1>1, <1>2, <1>4, <1>5, <1>6, <1>7

-----------------------------------------------------------------------------
(* What the FPGA makes of what it is sent.                                   *)

\* The states of Requests.
RequestModes == {"out", "in", "channel", "esc", "last", "lastesc"}
RequestState == [got : Seq(Seq(Byte)), mode : RequestModes, data : Seq(Byte)]
RequestStep  == [p \in RequestState \X Byte |-> RequestTake(p[1], p[2])]
Req(g, m, d) == [got |-> g, mode |-> m, data |-> d]

\* The fields of a state.
LEMMA ReqGet ==
  ASSUME NEW g, NEW m, NEW d
  PROVE  Req(g, m, d).got = g /\ Req(g, m, d).mode = m /\ Req(g, m, d).data = d
BY DEF Req

\* A change of the mode.
LEMMA ReqMode ==
  ASSUME NEW g, NEW m, NEW d, NEW x
  PROVE  [Req(g, m, d) EXCEPT !.mode = x] = Req(g, x, d)
PROOF
  <1>1. [[got |-> g, mode |-> m, data |-> d] EXCEPT !.mode = x] = [got |-> g, mode |-> x, data |-> d]
    OBVIOUS
  <1> QED
    BY <1>1 DEF Req

\* A change of the data.
LEMMA ReqData ==
  ASSUME NEW g, NEW m, NEW d, NEW y
  PROVE  [Req(g, m, d) EXCEPT !.data = y] = Req(g, m, y)
PROOF
  <1>1. [[got |-> g, mode |-> m, data |-> d] EXCEPT !.data = y] = [got |-> g, mode |-> m, data |-> y]
    OBVIOUS
  <1> QED
    BY <1>1 DEF Req

\* Such a record is a state.
LEMMA ReqType ==
  ASSUME NEW g \in Seq(Seq(Byte)), NEW m \in RequestModes, NEW d \in Seq(Byte)
  PROVE  Req(g, m, d) \in RequestState
BY DEF Req, RequestState

\* Every state is such a record.
LEMMA ReqState ==
  ASSUME NEW st \in RequestState
  PROVE  /\ st = Req(st.got, st.mode, st.data)
         /\ st.got \in Seq(Seq(Byte)) /\ st.mode \in RequestModes /\ st.data \in Seq(Byte)
BY DEF Req, RequestState

\* The step, from a state of known fields.
LEMMA ReqTake ==
  ASSUME NEW g \in Seq(Seq(Byte)), NEW m \in RequestModes, NEW d \in Seq(Byte), NEW b \in Byte
  PROVE  RequestTake(Req(g, m, d), b) =
           CASE m = "out"     -> IF b = SOP THEN Req(g, "in", <<>>) ELSE Req(g, m, d)
             [] m = "in"      -> IF b = CHANNEL THEN Req(g, "channel", d)
                                 ELSE IF b = ESC THEN Req(g, "esc", d)
                                 ELSE IF b = EOP THEN Req(g, "last", d)
                                 ELSE IF b = SOP THEN Req(g, m, <<>>)
                                 ELSE Req(g, m, Append(d, b))
             [] m = "channel" -> Req(g, "in", d)
             [] m = "esc"     -> Req(g, "in", Append(d, xor_20(b)))
             [] m = "last"    -> IF b = ESC THEN Req(g, "lastesc", d)
                                 ELSE Req(Append(g, Append(d, b)), "out", <<>>)
             [] OTHER         -> Req(Append(g, Append(d, xor_20(b))), "out", <<>>)
PROOF
  <1> DEFINE st == Req(g, m, d)
  <1>1. st.got = g /\ st.mode = m /\ st.data = d
    BY ReqGet
  <1>2. \A x : [st EXCEPT !.mode = x] = Req(g, x, d)
    BY ReqMode
  <1>3. \A y : [st EXCEPT !.data = y] = Req(g, m, y)
    BY ReqData
  <1>4. \A x, y : [st EXCEPT !.mode = x, !.data = y] = Req(g, x, y)
    <2>1. TAKE x, y
    <2>2. [st EXCEPT !.mode = x, !.data = y] = [[st EXCEPT !.mode = x] EXCEPT !.data = y]
      <3> HIDE DEF st
      <3> QED
        OBVIOUS
    <2>3. [Req(g, x, d) EXCEPT !.data = y] = Req(g, x, y)
      BY ReqData
    <2> HIDE DEF st
    <2> QED
      BY <1>2, <2>2, <2>3
  <1>5. \A z, w : [got |-> z, mode |-> "out", data |-> w] = Req(z, "out", w)
    BY DEF Req
  <1> HIDE DEF st
  <1> SUFFICES RequestTake(st, b) =
           CASE m = "out"     -> IF b = SOP THEN Req(g, "in", <<>>) ELSE st
             [] m = "in"      -> IF b = CHANNEL THEN Req(g, "channel", d)
                                 ELSE IF b = ESC THEN Req(g, "esc", d)
                                 ELSE IF b = EOP THEN Req(g, "last", d)
                                 ELSE IF b = SOP THEN Req(g, m, <<>>)
                                 ELSE Req(g, m, Append(d, b))
             [] m = "channel" -> Req(g, "in", d)
             [] m = "esc"     -> Req(g, "in", Append(d, xor_20(b)))
             [] m = "last"    -> IF b = ESC THEN Req(g, "lastesc", d)
                                 ELSE Req(Append(g, Append(d, b)), "out", <<>>)
             [] OTHER         -> Req(Append(g, Append(d, xor_20(b))), "out", <<>>)
    BY DEF st
  <1>6. CASE m = "out"
    BY <1>1, <1>4, <1>6 DEF RequestTake
  <1>7. CASE m = "in"
    BY <1>1, <1>2, <1>3, <1>7 DEF RequestTake
  <1>8. CASE m = "channel"
    BY <1>1, <1>2, <1>8 DEF RequestTake
  <1>9. CASE m = "esc"
    BY <1>1, <1>4, <1>9 DEF RequestTake
  <1>10. CASE m = "last"
    BY <1>1, <1>2, <1>5, <1>10 DEF RequestTake
  <1>11. CASE m = "lastesc"
    BY <1>1, <1>5, <1>11 DEF RequestTake
  <1> QED
    BY <1>6, <1>7, <1>8, <1>9, <1>10, <1>11 DEF RequestModes

\* Three bytes are two and one.
LEMMA Triple ==
  ASSUME NEW S, NEW a \in S, NEW b \in S, NEW c \in S
  PROVE  <<a, b, c>> = <<a, b>> \o <<c>> /\ <<a, b, c>> \in Seq(S)
PROOF
  <1> DEFINE p == Append(<<a, b>>, c)
             q == <<a, b, c>>
  <1>1. <<a, b>> \in Seq(S) /\ Len(<<a, b>>) = 2 /\ <<a, b>>[1] = a /\ <<a, b>>[2] = b
    OBVIOUS
  <1>2. p \in Seq(S) /\ Len(p) = 3 /\ p[1] = a /\ p[2] = b /\ p[3] = c
    <2> DEFINE t == <<a, b>>
    <2>1. t \in Seq(S) /\ Len(t) = 2 /\ t[1] = a /\ t[2] = b
      OBVIOUS
    <2> HIDE DEF t
    <2> QED
      BY <2>1, AppendProperties DEF t
  <1>3. q \in Seq(S) /\ Len(q) = 3 /\ q[1] = a /\ q[2] = b /\ q[3] = c
    OBVIOUS
  <1>4. <<a, b>> \o <<c>> = p
    BY <1>1, AppendIsConcat
  <1> HIDE DEF p, q
  <1>5. \A i \in 1 .. Len(p) : p[i] = q[i]
    BY <1>2, <1>3
  <1>6. p = q
    BY <1>2, <1>3, <1>5, SeqEqual
  <1> QED
    BY <1>3, <1>4, <1>6 DEF q

\* Where Requests begins.
ReqStart == Req(<<>>, "out", <<>>)

\* A step stays among the states.
LEMMA RequestTakeType ==
  ASSUME NEW st \in RequestState, NEW b \in Byte
  PROVE  RequestTake(st, b) \in RequestState /\ RequestStep[<<st, b>>] = RequestTake(st, b)
PROOF
  <1>1. PICK g \in Seq(Seq(Byte)), m \in RequestModes, d \in Seq(Byte) : st = Req(g, m, d)
    BY ReqState
  <1>2. xor_20(b) \in Byte /\ <<>> \in Seq(Byte)
    BY XorType
  <1>3. Append(d, b) \in Seq(Byte) /\ Append(d, xor_20(b)) \in Seq(Byte)
    BY <1>2
  <1>4. Append(g, Append(d, b)) \in Seq(Seq(Byte)) /\ Append(g, Append(d, xor_20(b))) \in Seq(Seq(Byte))
    BY <1>3
  <1>5. \A g1 \in Seq(Seq(Byte)), m1 \in RequestModes, d1 \in Seq(Byte) : Req(g1, m1, d1) \in RequestState
    BY ReqType
  <1>6. {"out", "in", "channel", "esc", "last", "lastesc"} = RequestModes
    BY DEF RequestModes
  <1>7. RequestTake(Req(g, m, d), b) \in RequestState
    <2> DEFINE r == RequestTake(Req(g, m, d), b)
    <2>1. CASE m = "out"
      <3>1. r \in {Req(g, "in", <<>>), Req(g, m, d)}
        BY <2>1, ReqTake
      <3> QED
        BY <3>1, <1>2, <1>5, <1>6
    <2>2. CASE m = "in"
      <3>1. r \in {Req(g, "channel", d), Req(g, "esc", d), Req(g, "last", d), Req(g, m, <<>>), Req(g, m, Append(d, b))}
        BY <2>2, ReqTake
      <3> QED
        BY <3>1, <1>2, <1>3, <1>5, <1>6
    <2>3. CASE m = "channel"
      <3>1. r = Req(g, "in", d)
        BY <2>3, ReqTake
      <3> QED
        BY <3>1, <1>5, <1>6
    <2>4. CASE m = "esc"
      <3>1. r = Req(g, "in", Append(d, xor_20(b)))
        BY <2>4, ReqTake
      <3> QED
        BY <3>1, <1>3, <1>5, <1>6
    <2>5. CASE m = "last"
      <3>1. r \in {Req(g, "lastesc", d), Req(Append(g, Append(d, b)), "out", <<>>)}
        BY <2>5, ReqTake
      <3> QED
        BY <3>1, <1>2, <1>4, <1>5, <1>6
    <2>6. CASE m = "lastesc"
      <3>1. r = Req(Append(g, Append(d, xor_20(b))), "out", <<>>)
        BY <2>6, ReqTake
      <3> QED
        BY <3>1, <1>2, <1>4, <1>5, <1>6
    <2> QED
      BY <2>1, <2>2, <2>3, <2>4, <2>5, <2>6, <1>6
  <1> QED
    BY <1>1, <1>7 DEF RequestStep

\* The steps are a function on the states.
LEMMA RequestStepType ==
  /\ RequestStep \in [RequestState \X Byte -> RequestState]
  /\ ReqStart \in RequestState
PROOF
  <1>1. RequestStep \in [RequestState \X Byte -> RequestState]
    BY RequestTakeType DEF RequestStep
  <1>2. <<>> \in Seq(Seq(Byte)) /\ <<>> \in Seq(Byte) /\ "out" \in RequestModes
    BY DEF RequestModes
  <1> QED
    BY <1>1, <1>2, ReqType DEF ReqStart

\* Requests is what is got where the steps lead to.
LEMMA RequestsLeads ==
  ASSUME NEW tx, FromCore(tx) \in Seq(Byte), NEW tt, Leads(RequestStep, ReqStart, FromCore(tx), tt)
  PROVE  Requests(tx) = tt.got
PROOF
  <1> DEFINE s == FromCore(tx)
             n == Len(s)
             eq(f) == f = [k \in 0 .. n |-> IF k = 0 THEN ReqStart ELSE RequestTake(f[k - 1], s[k])]
             F == CHOOSE f : eq(f)
  <1>1. n \in Nat /\ \A k \in 1 .. n : s[k] \in Byte
    OBVIOUS
  <1>2. Requests(tx) = F[n].got
    BY DEF Requests, Parse, ReqStart, Req
  <1>3. s \in Seq(Byte) /\ Leads(RequestStep, ReqStart, s, tt)
    OBVIOUS
  <1> HIDE DEF s
  <1>4. PICK h \in [0 .. n -> RequestState] : Trace(RequestStep, ReqStart, s, h)
    <2> HIDE DEF F, eq
    <2> QED
      BY <1>3, RequestStepType, TraceExists
  <1> HIDE DEF n
  <1>5. h[0] = ReqStart /\ \A k \in 1 .. n : h[k] = RequestTake(h[k - 1], s[k])
    <2>1. h[0] = ReqStart /\ \A k \in 1 .. n : h[k] = RequestStep[<<h[k - 1], s[k]>>]
      BY <1>4 DEF Trace, n
    <2>2. ASSUME NEW k \in 1 .. n
          PROVE  h[k - 1] \in RequestState /\ s[k] \in Byte
      BY <1>1
    <2> QED
      BY <2>1, <2>2, RequestTakeType
  <1>6. eq(h)
    BY <1>1, <1>5
  <1>7. eq(F)
    <2> HIDE DEF eq
    <2> QED
      BY <1>6
  <1> HIDE DEF F
  <1>8. F[0] = ReqStart /\ \A k \in 1 .. n : F[k] = RequestTake(F[k - 1], s[k])
    BY <1>1, <1>7
  <1>9. Trace(RequestStep, ReqStart, s, F)
    <2>1. ASSUME NEW k \in 1 .. Len(s), F[k - 1] \in RequestState
          PROVE  F[k] = RequestStep[<<F[k - 1], s[k]>>]
      <3>1. k \in 1 .. n /\ s[k] \in Byte
        BY <1>1 DEF n
      <3>2. F[k] = RequestTake(F[k - 1], s[k])
        BY <1>8, <3>1
      <3> QED
        BY <2>1, <3>1, <3>2, RequestTakeType
    <2> QED
      BY <1>3, <1>8, <2>1, RequestStepType, TraceTyped
  <1>10. Leads(RequestStep, ReqStart, s, F[n])
    BY <1>9 DEF Leads, n
  <1>11. tt = F[n]
    BY <1>10, <1>3, LeadsUnique
  <1> QED
    BY <1>2, <1>11

\* A byte that begins no packet changes nothing between two of them.
LEMMA RequestNone ==
  ASSUME NEW g \in Seq(Seq(Byte)), NEW s \in Seq(NoSop)
  PROVE  Leads(RequestStep, Req(g, "out", <<>>), s, Req(g, "out", <<>>))
PROOF
  <1> DEFINE st == Req(g, "out", <<>>)
             P == {st}
  <1>1. st \in RequestState /\ <<>> \in Seq(Byte) /\ "out" \in RequestModes
    <2>1. <<>> \in Seq(Byte) /\ "out" \in RequestModes
      BY DEF RequestModes
    <2> QED
      BY <2>1, ReqType
  <1>2. s \in Seq(Byte)
    BY DEF NoSop
  <1>3. PICK tt \in RequestState : Leads(RequestStep, st, s, tt)
    <2> HIDE DEF st
    <2> QED
      BY <1>1, <1>2, RequestStepType, LeadsSome
  <1>4. ASSUME NEW a \in NoSop
        PROVE  RequestStep[<<st, a>>] = st
    <2>1. a \in Byte /\ a # SOP
      BY DEF NoSop
    <2>2. RequestTake(st, a) = st
      BY <1>1, <2>1, ReqTake
    <2> QED
      BY <1>1, <2>1, <2>2, RequestTakeType
  <1>5. st \in P /\ \A x \in P : \A a \in NoSop : RequestStep[<<x, a>>] \in P
    BY <1>4
  <1> HIDE DEF P, st
  <1>6. tt \in P
    BY <1>3, <1>5, LeadsKeeps
  <1> QED
    BY <1>3, <1>6 DEF P, st

\* The head of a packet.
LEMMA RequestHead ==
  Leads(RequestStep, ReqStart, <<SOP, CHANNEL, 0>>, Req(<<>>, "in", <<>>))
PROOF
  <1>1. /\ <<>> \in Seq(Seq(Byte)) /\ <<>> \in Seq(Byte)
        /\ "out" \in RequestModes /\ "in" \in RequestModes /\ "channel" \in RequestModes
    BY DEF RequestModes
  <1>2. SOP \in Byte /\ CHANNEL \in Byte /\ 0 \in Byte
    BY DEF SOP, CHANNEL, Byte
  <1> DEFINE a == Req(<<>>, "in", <<>>)
             c == Req(<<>>, "channel", <<>>)
  <1>3. RequestTake(ReqStart, SOP) = a
    BY <1>1, <1>2, ReqTake DEF ReqStart
  <1>4. RequestTake(a, CHANNEL) = c
    BY <1>1, <1>2, ReqTake, ZenonT(30)
  <1>5. RequestTake(c, 0) = a
    BY <1>1, <1>2, ReqTake, ZenonT(30)
  <1>6. a \in RequestState /\ c \in RequestState /\ ReqStart \in RequestState
    BY <1>1, ReqType, RequestStepType
  <1> HIDE DEF a, c
  <1>7. /\ RequestStep[<<ReqStart, SOP>>] = a /\ RequestStep[<<a, CHANNEL>>] = c
        /\ RequestStep[<<c, 0>>] = a
    BY <1>2, <1>3, <1>4, <1>5, <1>6, RequestTakeType
  <1>8. /\ Leads(RequestStep, ReqStart, <<SOP>>, a)
        /\ Leads(RequestStep, a, <<CHANNEL>>, c) /\ Leads(RequestStep, c, <<0>>, a)
    BY <1>7, LeadsOne
  <1>9. <<SOP, CHANNEL>> = <<SOP>> \o <<CHANNEL>> /\ <<SOP, CHANNEL>> \in Seq(Byte)
        /\ <<SOP>> \in Seq(Byte) /\ <<CHANNEL>> \in Seq(Byte) /\ <<0>> \in Seq(Byte)
    BY <1>2, Pair
  <1>10. Leads(RequestStep, ReqStart, <<SOP, CHANNEL>>, c)
    BY <1>8, <1>9, LeadsConcat
  <1>11. Leads(RequestStep, ReqStart, <<SOP, CHANNEL>> \o <<0>>, a)
    BY <1>8, <1>9, <1>10, LeadsConcat
  <1>12. <<SOP, CHANNEL>> \o <<0>> = <<SOP, CHANNEL, 0>>
    BY <1>2, Triple
  <1> QED
    BY <1>11, <1>12 DEF a

\* A step of the FPGA as Leads over one byte.
LEMMA RequestOne ==
  ASSUME NEW g \in Seq(Seq(Byte)), NEW m \in RequestModes, NEW d \in Seq(Byte), NEW b \in Byte, NEW tt,
         RequestTake(Req(g, m, d), b) = tt
  PROVE  Leads(RequestStep, Req(g, m, d), <<b>>, tt) /\ <<b>> \in Seq(Byte)
PROOF
  <1>1. RequestStep[<<Req(g, m, d), b>>] = tt
    BY ReqType, RequestTakeType
  <1>2. Leads(RequestStep, Req(g, m, d), <<b>>, RequestStep[<<Req(g, m, d), b>>])
    BY LeadsOne
  <1> QED
    BY <1>1, <1>2

\* The step in the modes within a packet.
LEMMA ReqWithin ==
  ASSUME NEW g \in Seq(Seq(Byte)), NEW d \in Seq(Byte), NEW b \in Byte
  PROVE  /\ RequestTake(Req(g, "in", d), b) =
              IF b = CHANNEL THEN Req(g, "channel", d)
              ELSE IF b = ESC THEN Req(g, "esc", d)
              ELSE IF b = EOP THEN Req(g, "last", d)
              ELSE IF b = SOP THEN Req(g, "in", <<>>)
              ELSE Req(g, "in", Append(d, b))
         /\ RequestTake(Req(g, "esc", d), b) = Req(g, "in", Append(d, xor_20(b)))
         /\ RequestTake(Req(g, "last", d), b) =
              IF b = ESC THEN Req(g, "lastesc", d) ELSE Req(Append(g, Append(d, b)), "out", <<>>)
         /\ RequestTake(Req(g, "lastesc", d), b) = Req(Append(g, Append(d, xor_20(b))), "out", <<>>)
PROOF
  <1>1. "in" \in RequestModes /\ "esc" \in RequestModes /\ "last" \in RequestModes /\ "lastesc" \in RequestModes
    BY DEF RequestModes
  <1>2. ASSUME NEW m \in RequestModes, m = "in"
        PROVE  RequestTake(Req(g, m, d), b) =
                 IF b = CHANNEL THEN Req(g, "channel", d)
                 ELSE IF b = ESC THEN Req(g, "esc", d)
                 ELSE IF b = EOP THEN Req(g, "last", d)
                 ELSE IF b = SOP THEN Req(g, m, <<>>)
                 ELSE Req(g, m, Append(d, b))
    BY <1>2, ReqTake
  <1>3. ASSUME NEW m \in RequestModes, m = "esc"
        PROVE  RequestTake(Req(g, m, d), b) = Req(g, "in", Append(d, xor_20(b)))
    BY <1>3, ReqTake
  <1>4. ASSUME NEW m \in RequestModes, m = "last"
        PROVE  RequestTake(Req(g, m, d), b) =
                 IF b = ESC THEN Req(g, "lastesc", d) ELSE Req(Append(g, Append(d, b)), "out", <<>>)
    BY <1>4, ReqTake
  <1>5. ASSUME NEW m \in RequestModes, m = "lastesc"
        PROVE  RequestTake(Req(g, m, d), b) = Req(Append(g, Append(d, xor_20(b))), "out", <<>>)
    BY <1>5, ReqTake
  <1> QED
    BY <1>1, <1>2, <1>3, <1>4, <1>5

\* One byte within a packet, escaped or not, is that byte.
LEMMA RequestPiece ==
  ASSUME NEW d \in Seq(Byte), NEW b \in Byte
  PROVE  Leads(RequestStep, Req(<<>>, "in", d), PacketByte(b), Req(<<>>, "in", Append(d, b)))
PROOF
  <1> DEFINE x == xor_20(b)
  <1>1. x \in Byte /\ xor_20(x) = b
    BY XorType
  <1>2. <<>> \in Seq(Seq(Byte)) /\ "in" \in RequestModes /\ "esc" \in RequestModes
    BY DEF RequestModes
  <1>3. ESC \in Byte
    BY PacketByteType
  <1>4. CASE b \in {SOP, EOP, CHANNEL, ESC}
    <2> HIDE DEF x
    <2>1. RequestTake(Req(<<>>, "in", d), ESC) = Req(<<>>, "esc", d)
      <3>1. RequestTake(Req(<<>>, "in", d), ESC) =
              IF ESC = CHANNEL THEN Req(<<>>, "channel", d) ELSE Req(<<>>, "esc", d)
        BY <1>2, <1>3, ReqWithin
      <3> QED
        BY <3>1 DEF ESC, CHANNEL
    <2>2. RequestTake(Req(<<>>, "esc", d), x) = Req(<<>>, "in", Append(d, b))
      BY <1>1, <1>2, ReqWithin
    <2>3. /\ Leads(RequestStep, Req(<<>>, "in", d), <<ESC>>, Req(<<>>, "esc", d))
          /\ Leads(RequestStep, Req(<<>>, "esc", d), <<x>>, Req(<<>>, "in", Append(d, b)))
          /\ <<ESC>> \in Seq(Byte) /\ <<x>> \in Seq(Byte)
      BY <1>1, <1>2, <1>3, <2>1, <2>2, RequestOne
    <2>4. Leads(RequestStep, Req(<<>>, "in", d), <<ESC>> \o <<x>>, Req(<<>>, "in", Append(d, b)))
      BY <2>3, LeadsConcat
    <2>5. PacketByte(b) = <<ESC>> \o <<x>>
      BY <1>4, PacketByteType DEF x
    <2> QED
      BY <2>4, <2>5
  <1>5. CASE b \notin {SOP, EOP, CHANNEL, ESC}
    <2>1. RequestTake(Req(<<>>, "in", d), b) = Req(<<>>, "in", Append(d, b))
      BY <1>2, <1>5, ReqWithin
    <2>2. PacketByte(b) = <<b>>
      BY <1>5, PacketByteType
    <2> QED
      BY <1>2, <2>1, <2>2, RequestOne
  <1> QED
    BY <1>4, <1>5

\* The last byte, behind EOP, completes the request.
LEMMA RequestLast ==
  ASSUME NEW d \in Seq(Byte), NEW b \in Byte
  PROVE  Leads(RequestStep, Req(<<>>, "in", d), <<EOP>> \o PacketByte(b), Req(<<Append(d, b)>>, "out", <<>>))
PROOF
  <1> DEFINE x == xor_20(b)
             e == Append(d, b)
  <1>1. x \in Byte /\ xor_20(x) = b
    BY XorType
  <1>2. /\ <<>> \in Seq(Seq(Byte)) /\ "in" \in RequestModes /\ "last" \in RequestModes
        /\ "lastesc" \in RequestModes
    BY DEF RequestModes
  <1>3. ESC \in Byte /\ EOP \in Byte /\ <<EOP>> \in Seq(Byte) /\ PacketByte(b) \in Seq(Byte)
    BY PacketByteType
  <1>4. Append(<<>>, e) = <<e>>
    OBVIOUS
  <1>5. RequestTake(Req(<<>>, "in", d), EOP) = Req(<<>>, "last", d)
    <2>1. RequestTake(Req(<<>>, "in", d), EOP) =
            IF EOP = CHANNEL THEN Req(<<>>, "channel", d)
            ELSE IF EOP = ESC THEN Req(<<>>, "esc", d) ELSE Req(<<>>, "last", d)
      BY <1>2, <1>3, ReqWithin
    <2> QED
      BY <2>1 DEF EOP, ESC, CHANNEL
  <1>6. Leads(RequestStep, Req(<<>>, "in", d), <<EOP>>, Req(<<>>, "last", d))
    BY <1>2, <1>3, <1>5, RequestOne
  <1> SUFFICES Leads(RequestStep, Req(<<>>, "last", d), PacketByte(b), Req(<<e>>, "out", <<>>))
    BY <1>3, <1>6, LeadsConcat
  <1>7. CASE b \in {SOP, EOP, CHANNEL, ESC}
    <2>1. RequestTake(Req(<<>>, "last", d), ESC) = Req(<<>>, "lastesc", d)
      BY <1>2, <1>3, ReqWithin
    <2>2. RequestTake(Req(<<>>, "lastesc", d), x) = Req(<<e>>, "out", <<>>)
      <3> HIDE DEF x
      <3>1. RequestTake(Req(<<>>, "lastesc", d), x) = Req(Append(<<>>, Append(d, xor_20(x))), "out", <<>>)
        BY <1>1, <1>2, ReqWithin
      <3> QED
        BY <3>1, <1>1, <1>4
    <2> HIDE DEF x, e
    <2>3. /\ Leads(RequestStep, Req(<<>>, "last", d), <<ESC>>, Req(<<>>, "lastesc", d))
          /\ Leads(RequestStep, Req(<<>>, "lastesc", d), <<x>>, Req(<<e>>, "out", <<>>))
          /\ <<ESC>> \in Seq(Byte) /\ <<x>> \in Seq(Byte)
      BY <1>1, <1>2, <1>3, <2>1, <2>2, RequestOne
    <2>4. Leads(RequestStep, Req(<<>>, "last", d), <<ESC>> \o <<x>>, Req(<<e>>, "out", <<>>))
      BY <2>3, LeadsConcat
    <2>5. PacketByte(b) = <<ESC>> \o <<x>>
      BY <1>7, PacketByteType DEF x
    <2> QED
      BY <2>4, <2>5
  <1>8. CASE b \notin {SOP, EOP, CHANNEL, ESC}
    <2>1. RequestTake(Req(<<>>, "last", d), b) = Req(<<e>>, "out", <<>>)
      <3>1. RequestTake(Req(<<>>, "last", d), b) = Req(Append(<<>>, Append(d, b)), "out", <<>>)
        BY <1>2, <1>8, ReqWithin
      <3> QED
        BY <3>1, <1>4
    <2>2. PacketByte(b) = <<b>>
      BY <1>8, PacketByteType
    <2> HIDE DEF e
    <2> QED
      BY <1>2, <2>1, <2>2, RequestOne
  <1> QED
    BY <1>7, <1>8

\* A packet is one request, of the data it was made from.
LEMMA RequestWhole ==
  ASSUME NEW data \in Seq(Byte), data # <<>>
  PROVE  Leads(RequestStep, ReqStart, Packet(data), Req(<<data>>, "out", <<>>))
PROOF
  <1> DEFINE n == Len(data)
             ss == Pieces(data)
             v == [k \in 0 .. n |-> IF k < n THEN Req(<<>>, "in", SubSeq(data, 1, k))
                                    ELSE Req(<<data>>, "out", <<>>)]
  <1>1. n \in Nat /\ n > 0
    OBVIOUS
  <1>2. ss \in Seq(Seq(Byte)) /\ Len(ss) = n /\ \A k \in 1 .. n : ss[k] = Piece(data, k) /\ data[k] \in Byte
    BY PacketPieces
  <1>3. ASSUME NEW k \in 1 .. n
        PROVE  Leads(RequestStep, v[k - 1], ss[k], v[k])
    <2> DEFINE y == SubSeq(data, 1, k - 1)
    <2>1. y \in Seq(Byte) /\ SubSeq(data, 1, k) = Append(y, data[k]) /\ SubSeq(data, 1, n) = data
      OBVIOUS
    <2>2. v[k - 1] = Req(<<>>, "in", y)
      BY <1>1
    <2>3. k # n => v[k] = Req(<<>>, "in", SubSeq(data, 1, k))
      BY <1>1
    <2>4. v[n] = Req(<<data>>, "out", <<>>)
      BY <1>1
    <2> HIDE DEF y, v, ss
    <2>5. CASE k = n
      <3>1. ss[k] = <<EOP>> \o PacketByte(data[k])
        BY <2>5, <1>2 DEF Piece
      <3>2. Append(y, data[k]) = data
        BY <2>1, <2>5
      <3>3. Leads(RequestStep, Req(<<>>, "in", y), <<EOP>> \o PacketByte(data[k]), Req(<<Append(y, data[k])>>, "out", <<>>))
        BY <1>2, <2>1, RequestLast
      <3> QED
        BY <2>2, <2>4, <2>5, <3>1, <3>2, <3>3
    <2>6. CASE k # n
      <3>1. ss[k] = PacketByte(data[k])
        BY <2>6, <1>2 DEF Piece
      <3>2. Leads(RequestStep, Req(<<>>, "in", y), PacketByte(data[k]), Req(<<>>, "in", Append(y, data[k])))
        BY <1>2, <2>1, RequestPiece
      <3> QED
        BY <2>1, <2>2, <2>3, <2>6, <3>1, <3>2
    <2> QED
      BY <2>5, <2>6
  <1>4. v[0] = Req(<<>>, "in", <<>>) /\ v[n] = Req(<<data>>, "out", <<>>)
    <2>1. SubSeq(data, 1, 0) = <<>>
      OBVIOUS
    <2>2. v[0] = Req(<<>>, "in", SubSeq(data, 1, 0)) /\ v[n] = Req(<<data>>, "out", <<>>)
      BY <1>1
    <2> QED
      BY <2>1, <2>2
  <1> HIDE DEF n, ss, v
  <1>5. Leads(RequestStep, v[0], FlattenSeq(ss), v[n])
    BY <1>2, <1>3, LeadsFlatten
  <1>6. /\ Packet(data) = <<SOP, CHANNEL, 0>> \o FlattenSeq(ss)
        /\ FlattenSeq(ss) \in Seq(Byte) /\ <<SOP, CHANNEL, 0>> \in Seq(Byte)
    BY PacketPieces DEF ss
  <1> QED
    BY <1>4, <1>5, <1>6, RequestHead, LeadsConcat

\* The FPGA sees one request in the bytes of a packet that needs no escapes of
\* the core, whatever follows them that begins neither a packet nor an escape.
LEMMA OneRequestSeen ==
  ASSUME NEW data \in Seq(Byte), data # <<>>, Packet(data) \in Seq(Literal), NEW r \in Seq(Rest)
  PROVE  Requests(Packet(data) \o r) = <<data>>
PROOF
  <1> DEFINE p == Packet(data)
  <1>1. p \in Seq(Byte) /\ r \in Seq(Byte)
    BY DEF Literal, Rest
  <1>2. Leads(CoreStep, CoreStart, p, Got(p))
    <2>1. Core(p) = p
      BY CorePlain
    <2>2. <<>> \o p = p /\ <<>> \in Seq(Byte) /\ CoreStart = Got(<<>>)
      <3> HIDE DEF p
      <3> QED
        BY <1>1 DEF CoreStart, Got
    <2> HIDE DEF p
    <2>3. Leads(CoreStep, Got(<<>>), Core(p), Got(<<>> \o p))
      BY <1>1, <2>2, CoreRoundTrip
    <2> QED
      BY <2>1, <2>2, <2>3
  <1>3. Leads(RequestStep, ReqStart, p, Req(<<data>>, "out", <<>>))
    BY RequestWhole
  <1> HIDE DEF p
  <1>4. PICK tt \in CoreState : Leads(CoreStep, Got(p), r, tt)
    BY <1>1, GotType, CoreStepType, LeadsSome
  <1>5. PICK y \in Seq(NoSop) : tt = Got(p \o y)
    BY <1>1, <1>4, CoreRest
  <1>6. Leads(CoreStep, CoreStart, p \o r, tt) /\ p \o r \in Seq(Byte)
    BY <1>1, <1>2, <1>4, LeadsConcat, ConcatProperties
  <1>7. y \in Seq(Byte) /\ p \o y \in Seq(Byte)
    <2>1. y \in Seq(Byte)
      BY DEF NoSop
    <2> QED
      BY <1>1, <2>1, ConcatProperties
  <1>8. FromCore(p \o r) = p \o y
    BY <1>5, <1>6, <1>7, FromCoreLeads, GotType
  <1>9. <<data>> \in Seq(Seq(Byte))
    OBVIOUS
  <1>10. Leads(RequestStep, Req(<<data>>, "out", <<>>), y, Req(<<data>>, "out", <<>>))
    BY <1>9, RequestNone
  <1>11. Leads(RequestStep, ReqStart, p \o y, Req(<<data>>, "out", <<>>))
    BY <1>1, <1>7, <1>10, <1>3, LeadsConcat
  <1>12. Requests(p \o r) = Req(<<data>>, "out", <<>>).got
    BY <1>7, <1>8, <1>11, RequestsLeads
  <1> QED
    BY <1>12, ReqGet DEF p

-----------------------------------------------------------------------------
(* byte_to_packet_convert: the data of a packet.                             *)

\* The states of FromPacket.
PacketModes == {"seek", "in", "esc", "last", "lastesc", "done"}
PacketState == [out : Seq(Byte), mode : PacketModes]
PacketStep(p) == [q \in PacketState \X (1 .. 14) |-> PacketTake(p, q[1], q[2])]
Pk(o, m)    == [out |-> o, mode |-> m]

\* The fields of a state, and changes of one.
LEMMA PkFields ==
  ASSUME NEW o, NEW m, NEW x
  PROVE  /\ [Pk(o, m) EXCEPT !.mode = x] = Pk(o, x)
         /\ [Pk(o, m) EXCEPT !.out = x] = Pk(x, m)
         /\ Pk(o, m).out = o /\ Pk(o, m).mode = m
PROOF
  <1>1. [[out |-> o, mode |-> m] EXCEPT !.mode = x] = [out |-> o, mode |-> x]
    OBVIOUS
  <1>2. [[out |-> o, mode |-> m] EXCEPT !.out = x] = [out |-> x, mode |-> m]
    OBVIOUS
  <1>3. [Pk(o, m) EXCEPT !.mode = x] = Pk(o, x)
    BY <1>1 DEF Pk
  <1>4. [Pk(o, m) EXCEPT !.out = x] = Pk(x, m)
    BY <1>2 DEF Pk
  <1>5. Pk(o, m).out = o /\ Pk(o, m).mode = m
    BY DEF Pk
  <1> QED
    BY <1>3, <1>4, <1>5

\* Such records are the states.
LEMMA PkType ==
  /\ \A o \in Seq(Byte), m \in PacketModes : Pk(o, m) \in PacketState
  /\ \A st \in PacketState : st = Pk(st.out, st.mode) /\ st.out \in Seq(Byte) /\ st.mode \in PacketModes
  /\ <<>> \in Seq(Byte) /\ "seek" \in PacketModes /\ "in" \in PacketModes /\ "esc" \in PacketModes
  /\ "last" \in PacketModes /\ "lastesc" \in PacketModes /\ "done" \in PacketModes
BY DEF Pk, PacketState, PacketModes

\* The step in each mode.
LEMMA PkTake ==
  ASSUME NEW p, NEW o, NEW k
  PROVE  /\ PacketTake(p, Pk(o, "seek"), k) = IF p[k] = SOP /\ k <= 12 THEN Pk(o, "in") ELSE Pk(o, "seek")
         /\ PacketTake(p, Pk(o, "in"), k) =
              IF k > 12 THEN Pk(o, "done")
              ELSE IF p[k] \in {ESC, CHANNEL, SOP} THEN Pk(o, "esc")
              ELSE IF p[k] = EOP THEN Pk(o, "last")
              ELSE Pk(Append(o, p[k]), "in")
         /\ PacketTake(p, Pk(o, "esc"), k) = Pk(Append(o, xor_20(p[k])), "in")
         /\ PacketTake(p, Pk(o, "last"), k) =
              IF p[k] \in {ESC, CHANNEL, SOP} THEN Pk(o, "lastesc") ELSE Pk(Append(o, p[k]), "done")
         /\ PacketTake(p, Pk(o, "lastesc"), k) = Pk(Append(o, xor_20(p[k])), "done")
         /\ PacketTake(p, Pk(o, "done"), k) = Pk(o, "done")
PROOF
  <1>1. \A z, w : [out |-> z, mode |-> w] = Pk(z, w)
    BY DEF Pk
  <1>2. ASSUME NEW m, NEW st, st = Pk(o, m)
        PROVE  /\ st.out = o /\ st.mode = m
               /\ \A x : [st EXCEPT !.mode = x] = Pk(o, x)
               /\ \A x : [st EXCEPT !.out = x] = Pk(x, m)
    BY <1>2, PkFields
  <1>3. ASSUME NEW st, st = Pk(o, "seek")
        PROVE  PacketTake(p, st, k) = IF p[k] = SOP /\ k <= 12 THEN Pk(o, "in") ELSE st
    <2>1. st.mode = "seek" /\ [st EXCEPT !.mode = "in"] = Pk(o, "in")
      BY <1>2, <1>3
    <2> QED
      BY <2>1 DEF PacketTake, MaxLen
  <1>4. ASSUME NEW st, st = Pk(o, "in")
        PROVE  PacketTake(p, st, k) =
                 IF k > 12 THEN Pk(o, "done")
                 ELSE IF p[k] \in {ESC, CHANNEL, SOP} THEN Pk(o, "esc")
                 ELSE IF p[k] = EOP THEN Pk(o, "last")
                 ELSE Pk(Append(o, p[k]), "in")
    <2>1. /\ st.mode = "in" /\ st.out = o /\ \A x : [st EXCEPT !.mode = x] = Pk(o, x)
          /\ \A x : [st EXCEPT !.out = x] = Pk(x, "in")
      BY <1>2, <1>4
    <2> QED
      BY <2>1 DEF PacketTake, MaxLen
  <1>5. ASSUME NEW st, st = Pk(o, "esc")
        PROVE  PacketTake(p, st, k) = Pk(Append(o, xor_20(p[k])), "in")
    <2>1. st.mode = "esc" /\ st.out = o
      BY <1>2, <1>5
    <2> QED
      BY <2>1, <1>1 DEF PacketTake
  <1>6. ASSUME NEW st, st = Pk(o, "last")
        PROVE  PacketTake(p, st, k) =
                 IF p[k] \in {ESC, CHANNEL, SOP} THEN Pk(o, "lastesc") ELSE Pk(Append(o, p[k]), "done")
    <2>1. st.mode = "last" /\ st.out = o /\ [st EXCEPT !.mode = "lastesc"] = Pk(o, "lastesc")
      BY <1>2, <1>6
    <2> QED
      BY <2>1, <1>1 DEF PacketTake, LastByte
  <1>7. ASSUME NEW st, st = Pk(o, "lastesc")
        PROVE  PacketTake(p, st, k) = Pk(Append(o, xor_20(p[k])), "done")
    <2>1. st.mode = "lastesc" /\ st.out = o
      BY <1>2, <1>7
    <2> QED
      BY <2>1, <1>1 DEF PacketTake
  <1>8. ASSUME NEW st, st = Pk(o, "done")
        PROVE  PacketTake(p, st, k) = st
    <2>1. st.mode = "done"
      BY <1>2, <1>8
    <2> QED
      BY <2>1 DEF PacketTake
  <1> QED
    BY <1>3, <1>4, <1>5, <1>6, <1>7, <1>8

\* A step stays among the states: the byte after an escape is read even
\* beyond the end, but never beyond the fourteenth.
LEMMA PacketTakeType ==
  ASSUME NEW p \in Seq(Byte), Len(p) >= 14, NEW st \in PacketState, NEW k \in 1 .. 14
  PROVE  /\ PacketTake(p, st, k) \in PacketState
         /\ PacketStep(p)[<<st, k>>] = PacketTake(p, st, k)
PROOF
  <1>1. PICK o \in Seq(Byte), m \in PacketModes : st = Pk(o, m)
    BY PkType
  <1>2. p[k] \in Byte
    <2>1. k \in 1 .. Len(p)
      OBVIOUS
    <2> QED
      BY <2>1
  <1>3. xor_20(p[k]) \in Byte
    BY <1>2, XorType
  <1>4. Append(o, p[k]) \in Seq(Byte) /\ Append(o, xor_20(p[k])) \in Seq(Byte)
    BY <1>2, <1>3
  <1>5. PacketTake(p, st, k) \in {Pk(z, w) : z \in {o, Append(o, p[k]), Append(o, xor_20(p[k]))}, w \in PacketModes}
    <2>1. CASE m = "seek"
      BY <2>1, <1>1, PkTake, PkType
    <2>2. CASE m = "in"
      BY <2>2, <1>1, PkTake, PkType
    <2>3. CASE m = "esc"
      BY <2>3, <1>1, PkTake, PkType
    <2>4. CASE m = "last"
      BY <2>4, <1>1, PkTake, PkType
    <2>5. CASE m = "lastesc"
      BY <2>5, <1>1, PkTake, PkType
    <2>6. CASE m = "done"
      BY <2>6, <1>1, PkTake, PkType
    <2> QED
      BY <2>1, <2>2, <2>3, <2>4, <2>5, <2>6 DEF PacketModes
  <1>6. PacketTake(p, st, k) \in PacketState
    <2>1. PICK z \in {o, Append(o, p[k]), Append(o, xor_20(p[k]))}, w \in PacketModes :
             PacketTake(p, st, k) = Pk(z, w)
      BY <1>5
    <2>2. z \in Seq(Byte)
      BY <1>4
    <2> QED
      BY <2>1, <2>2, PkType
  <1> QED
    BY <1>6 DEF PacketStep

\* The states that FromPacket goes through.
LEMMA FromPacketTrace ==
  ASSUME NEW p \in Seq(Byte), Len(p) >= 14
  PROVE  \E f \in [0 .. 14 -> PacketState] :
           /\ f[0] = Pk(<<>>, "seek") /\ \A k \in 1 .. 14 : f[k] = PacketTake(p, f[k - 1], k)
           /\ FromPacket(p) = f[14].out
PROOF
  <1> DEFINE s == [k \in 1 .. 14 |-> k]
             g == PacketStep(p)
             st == Pk(<<>>, "seek")
             eq(f) == f = [k \in 0 .. 14 |-> IF k = 0 THEN st ELSE PacketTake(p, f[k - 1], s[k])]
             F == CHOOSE f : eq(f)
  <1>1. s \in Seq(1 .. 14) /\ Len(s) = 14 /\ \A k \in 1 .. 14 : s[k] = k
    OBVIOUS
  <1>2. FromPacket(p) = F[14].out
    <2>1. MaxLen + 2 = 14
      BY DEF MaxLen
    <2> DEFINE m == MaxLen + 2
               s1 == [k \in 1 .. m |-> k]
               F1 == CHOOSE f : f = [k \in 0 .. Len(s1) |-> IF k = 0 THEN st ELSE PacketTake(p, f[k - 1], s1[k])]
    <2>2. FromPacket(p) = F1[Len(s1)].out
      BY DEF FromPacket, Parse, Pk
    <2>3. s1 = s
      BY <2>1
    <2> HIDE DEF s1, s
    <2> QED
      BY <1>1, <2>2, <2>3
  <1>3. g \in [PacketState \X (1 .. 14) -> PacketState]
    BY PacketTakeType DEF PacketStep
  <1>4. st \in PacketState
    BY PkType
  <1>5. PICK h \in [0 .. 14 -> PacketState] : Trace(g, st, s, h)
    <2> HIDE DEF F, eq, s, g, st
    <2>1. \E h \in [0 .. Len(s) -> PacketState] : Trace(g, st, s, h)
      BY <1>1, <1>3, <1>4, TraceExists
    <2> QED
      BY <1>1, <2>1
  <1> HIDE DEF s, st
  <1>6. h[0] = st /\ \A k \in 1 .. 14 : h[k] = PacketTake(p, h[k - 1], k)
    <2>1. h[0] = st /\ \A k \in 1 .. 14 : h[k] = g[<<h[k - 1], k>>]
      BY <1>1, <1>5 DEF Trace
    <2>2. ASSUME NEW k \in 1 .. 14
          PROVE  h[k - 1] \in PacketState
      OBVIOUS
    <2> QED
      BY <2>1, <2>2, PacketTakeType
  <1>7. eq(h)
    BY <1>1, <1>6
  <1>8. eq(F)
    <2> HIDE DEF eq
    <2> QED
      BY <1>7
  <1> HIDE DEF F, g
  <1>9. F[0] = st /\ \A k \in 1 .. 14 : F[k] = PacketTake(p, F[k - 1], k)
    BY <1>1, <1>8
  <1>10. \A k \in 0 .. 14 : F[k] \in PacketState
    <2>1. ASSUME NEW k \in 1 .. Len(s), F[k - 1] \in PacketState
          PROVE  F[k] = g[<<F[k - 1], s[k]>>]
      <3>1. k \in 1 .. 14 /\ s[k] = k
        BY <1>1
      <3> QED
        BY <2>1, <3>1, <1>9, PacketTakeType DEF g
    <2>2. Within(F, Len(s), PacketState)
      BY <1>1, <1>3, <1>4, <1>9, <2>1, TraceTyped
    <2> QED
      BY <1>1, <2>2 DEF Within
  <1>11. F \in [0 .. 14 -> PacketState]
    BY <1>8, <1>10
  <1> QED
    BY <1>2, <1>9, <1>11 DEF st

\* The decoder has read the bytes of p up to the i-th, and is in state st.
At(p, f, i, st) == f \in [0 .. 14 -> PacketState] /\ (\A k \in 1 .. 14 : f[k] = PacketTake(p, f[k - 1], k)) /\ f[i] = st

\* One byte of the data.
LEMMA DecodePiece ==
  ASSUME NEW p \in Seq(Byte), NEW f, NEW i \in 0 .. 12, NEW o \in Seq(Byte), NEW b \in Byte,
         At(p, f, i, Pk(o, "in")), i + Len(PacketByte(b)) <= 12,
         \A j \in 1 .. Len(PacketByte(b)) : p[i + j] = PacketByte(b)[j]
  PROVE  At(p, f, i + Len(PacketByte(b)), Pk(Append(o, b), "in")) /\ Len(PacketByte(b)) \in 1 .. 2
PROOF
  <1> DEFINE x == xor_20(b)
             e == PacketByte(b)
  <1>1. x \in Byte /\ xor_20(x) = b
    BY XorType
  <1>2. \A k \in 1 .. 14 : f[k] = PacketTake(p, f[k - 1], k)
    BY DEF At
  <1>3. f[i] = Pk(o, "in")
    BY DEF At
  <1>4. CASE b \in {SOP, EOP, CHANNEL, ESC}
    <2>1. e = <<ESC, x>>
      BY <1>4 DEF PacketByte
    <2>2. Len(e) = 2 /\ e[1] = ESC /\ e[2] = x
      BY <2>1
    <2> HIDE DEF x, e
    <2>3. p[i + 1] = ESC /\ p[i + 2] = x /\ i + 2 <= 12 /\ i + 1 \in 1 .. 14 /\ i + 2 \in 1 .. 14
      BY <2>2 DEF e
    <2>4. f[i + 1] = PacketTake(p, Pk(o, "in"), i + 1)
      <3>1. f[i + 1] = PacketTake(p, f[(i + 1) - 1], i + 1)
        BY <1>2, <2>3
      <3>2. (i + 1) - 1 = i
        OBVIOUS
      <3> QED
        BY <3>1, <3>2, <1>3
    <2>5. f[i + 1] = Pk(o, "esc")
      BY <2>3, <2>4, PkTake
    <2>6. f[i + 2] = PacketTake(p, Pk(o, "esc"), i + 2)
      <3>1. f[i + 2] = PacketTake(p, f[(i + 2) - 1], i + 2)
        BY <1>2, <2>3
      <3>2. (i + 2) - 1 = i + 1
        OBVIOUS
      <3> QED
        BY <3>1, <3>2, <2>5
    <2>7. f[i + 2] = Pk(Append(o, b), "in")
      BY <1>1, <2>3, <2>6, PkTake
    <2> QED
      BY <2>2, <2>7 DEF At, e
  <1>5. CASE b \notin {SOP, EOP, CHANNEL, ESC}
    <2>1. e = <<b>>
      BY <1>5 DEF PacketByte
    <2>2. Len(e) = 1 /\ e[1] = b
      BY <2>1
    <2> HIDE DEF e
    <2>3. p[i + 1] = b /\ i + 1 <= 12 /\ i + 1 \in 1 .. 14
      BY <2>2 DEF e
    <2>4. f[i + 1] = PacketTake(p, Pk(o, "in"), i + 1)
      <3>1. f[i + 1] = PacketTake(p, f[(i + 1) - 1], i + 1)
        BY <1>2, <2>3
      <3>2. (i + 1) - 1 = i
        OBVIOUS
      <3> QED
        BY <3>1, <3>2, <1>3
    <2>5. f[i + 1] = Pk(Append(o, b), "in")
      BY <1>5, <2>3, <2>4, PkTake
    <2> QED
      BY <2>2, <2>5 DEF At, e
  <1> QED
    BY <1>4, <1>5

\* The bytes of b in a packet follow the n-th of p.
PieceAt(p, n, b) == \A j \in 1 .. Len(PacketByte(b)) : p[n + j] = PacketByte(b)[j]

\* EOP and the last byte.
LEMMA DecodeLast ==
  ASSUME NEW p \in Seq(Byte), NEW f, NEW i \in 0 .. 9, NEW o \in Seq(Byte), NEW b \in Byte,
         At(p, f, i, Pk(o, "in")), p[i + 1] = EOP, PieceAt(p, i + 1, b)
  PROVE  f[14] = Pk(Append(o, b), "done")
PROOF
  <1>0. \A j \in 1 .. Len(PacketByte(b)) : p[i + 1 + j] = PacketByte(b)[j]
    BY DEF PieceAt
  <1> DEFINE x == xor_20(b)
             e == PacketByte(b)
             d == Pk(Append(o, b), "done")
  <1>1. x \in Byte /\ xor_20(x) = b
    BY XorType
  <1>2. \A k \in 1 .. 14 : f[k] = PacketTake(p, f[k - 1], k)
    BY DEF At
  <1>3. \A k \in 0 .. 13 : f[k + 1] = PacketTake(p, f[k], k + 1)
    <2>1. TAKE k \in 0 .. 13
    <2>2. k + 1 \in 1 .. 14 /\ (k + 1) - 1 = k
      OBVIOUS
    <2> QED
      BY <1>2, <2>2
  <1>4. f[i] = Pk(o, "in")
    BY DEF At
  <1>5. f[i + 1] = Pk(o, "last")
    <2>1. f[i + 1] = PacketTake(p, Pk(o, "in"), i + 1)
      BY <1>3, <1>4, SMTT(30)
    <2>2. EOP \notin {ESC, CHANNEL, SOP} /\ ~ (i + 1 > 12)
      BY DEF EOP, ESC, CHANNEL, SOP
    <2> QED
      BY <2>1, <2>2, PkTake
  <1>6. f[i + 2] = d \/ f[i + 3] = d
    <2>1. CASE b \in {SOP, EOP, CHANNEL, ESC}
      <3>1. e = <<ESC, x>>
        BY <2>1 DEF PacketByte
      <3>2. Len(e) = 2 /\ e[1] = ESC /\ e[2] = x
        BY <3>1
      <3> HIDE DEF x, e, d
      <3>3. p[i + 2] = ESC /\ p[i + 3] = x
        <4>1. i + 1 + 1 = i + 2 /\ i + 1 + 2 = i + 3
          OBVIOUS
        <4> QED
          BY <1>0, <3>2, <4>1 DEF e
      <3>4. f[i + 2] = PacketTake(p, Pk(o, "last"), i + 2)
        <4>1. i + 1 \in 0 .. 13 /\ (i + 1) + 1 = i + 2
          OBVIOUS
        <4> QED
          BY <1>3, <1>5, <4>1
      <3>5. f[i + 2] = Pk(o, "lastesc")
        BY <3>3, <3>4, PkTake
      <3>6. f[i + 3] = PacketTake(p, Pk(o, "lastesc"), i + 3)
        <4>1. i + 2 \in 0 .. 13 /\ (i + 2) + 1 = i + 3
          OBVIOUS
        <4> QED
          BY <1>3, <3>5, <4>1
      <3>7. f[i + 3] = d
        BY <1>1, <3>3, <3>6, PkTake DEF d
      <3> QED
        BY <3>7
    <2>2. CASE b \notin {SOP, EOP, CHANNEL, ESC}
      <3>1. e = <<b>>
        BY <2>2 DEF PacketByte
      <3>2. Len(e) = 1 /\ e[1] = b
        BY <3>1
      <3> HIDE DEF e
      <3>3. p[i + 2] = b
        <4>1. i + 1 + 1 = i + 2
          OBVIOUS
        <4> QED
          BY <1>0, <3>2, <4>1 DEF e
      <3>4. f[i + 2] = PacketTake(p, Pk(o, "last"), i + 2)
        <4>1. i + 1 \in 0 .. 13 /\ (i + 1) + 1 = i + 2
          OBVIOUS
        <4> QED
          BY <1>3, <1>5, <4>1
      <3>5. f[i + 2] = d
        BY <2>2, <3>3, <3>4, PkTake
      <3> QED
        BY <3>5
    <2> QED
      BY <2>1, <2>2
  <1>7. PICK j \in {i + 2, i + 3} : f[j] = d
    BY <1>6
  <1>8. \A k \in 0 .. 13 : f[k] = d => f[k + 1] = d
    BY <1>3, PkTake, SMTT(30)
  <1> DEFINE T == {k \in 0 .. 14 : k >= j => f[k] = d}
  <1> HIDE DEF d
  <1>9. 0 \in T
    BY <1>7
  <1>10. ASSUME NEW k \in 1 .. 14, k - 1 \in T
         PROVE  k \in T
    <2>1. CASE k > j
      <3>1. k - 1 \in 0 .. 13 /\ k - 1 >= j /\ (k - 1) + 1 = k
        BY <2>1
      <3>2. f[k - 1] = d
        BY <1>10, <3>1
      <3>3. f[(k - 1) + 1] = d
        BY <1>8, <3>1, <3>2
      <3>4. f[k] = d
        BY <3>1, <3>3
      <3> QED
        BY <3>4
    <2>2. CASE ~ (k > j)
      BY <1>7, <2>2
    <2> QED
      BY <2>1, <2>2
  <1> HIDE DEF T
  <1>11. 0 .. 14 \subseteq T
    BY <1>9, <1>10, Induct
  <1>12. 14 \in T
    BY <1>11
  <1> QED
    BY <1>12 DEF T, d

\* p is a, of m elements, and behind it b, of n.
Joined(S, p, a, m, b, n) ==
  /\ p \in Seq(S) /\ Len(p) = m + n
  /\ \A i \in 1 .. m : p[i] = a[i]
  /\ \A j \in 1 .. n : p[m + j] = b[j]

\* Where the elements of a concatenation are.
LEMMA ConcatAt ==
  ASSUME NEW S, NEW a \in Seq(S), NEW b \in Seq(S), NEW m, NEW n
  PROVE  Len(a) = m /\ Len(b) = n => Joined(S, a \o b, a, m, b, n)
PROOF
  <1> DEFINE p == a \o b
  <1>1. /\ p \in Seq(S) /\ Len(p) = Len(a) + Len(b)
        /\ \A i \in 1 .. Len(a) : p[i] = a[i]
        /\ \A j \in 1 .. Len(b) : p[Len(a) + j] = b[j]
    OBVIOUS
  <1>2. Joined(S, p, a, Len(a), b, Len(b))
    <2> HIDE DEF p
    <2> QED
      BY <1>1 DEF Joined
  <1> HIDE DEF p
  <1>3. Len(a) = m /\ Len(b) = n => Joined(S, p, a, m, b, n)
    BY <1>2, Zenon
  <1> QED
    BY <1>3 DEF p

\* t is s and behind it e.
Longer(S, t, s, n, e) ==
  t \in Seq(S) /\ Len(t) = n + 1 /\ t[n + 1] = e /\ \A i \in 1 .. n : t[i] = s[i]

\* Where the elements are after Append.
LEMMA AppendAt ==
  ASSUME NEW S, NEW s \in Seq(S), NEW e \in S, NEW n
  PROVE  Len(s) = n => Longer(S, Append(s, e), s, n, e)
PROOF
  <1> DEFINE t == Append(s, e)
  <1>1. Longer(S, t, s, Len(s), e)
    BY AppendProperties DEF Longer
  <1> HIDE DEF t
  <1>2. Len(s) = n => Longer(S, t, s, n, e)
    BY <1>1, Zenon
  <1> QED
    BY <1>2 DEF t

\* A function on 1 .. n is a sequence.
LEMMA WordSeq ==
  ASSUME NEW n \in Nat, NEW w \in [1 .. n -> Byte]
  PROVE  w \in Seq(Byte) /\ Len(w) = n /\ \A k \in 1 .. n : w[k] \in Byte
OBVIOUS

\* Four pieces joined.
LEMMA FlattenFour ==
  ASSUME NEW S, NEW ss \in Seq(Seq(S)), Len(ss) = 4
  PROVE  FlattenSeq(ss) = ((ss[1] \o ss[2]) \o ss[3]) \o ss[4]
PROOF
  <1>1. PICK h \in [0 .. 4 -> Seq(S)] :
           /\ h[0] = <<>> /\ \A k \in 1 .. 4 : h[k] = h[k - 1] \o ss[k]
           /\ FlattenSeq(ss) = h[4]
    <2>1. \E h \in [0 .. Len(ss) -> Seq(S)] :
            /\ h[0] = <<>> /\ \A k \in 1 .. Len(ss) : h[k] = h[k - 1] \o ss[k]
            /\ FlattenSeq(ss) = h[Len(ss)]
      BY FlattenSteps
    <2> QED
      BY <2>1
  <1>2. \A k \in 1 .. 4 : ss[k] \in Seq(S)
    <2>1. \A k \in 1 .. Len(ss) : ss[k] \in Seq(S)
      BY ElementOfSeq
    <2> QED
      BY <2>1
  <1>3. h[1] = h[0] \o ss[1] /\ h[2] = h[1] \o ss[2] /\ h[3] = h[2] \o ss[3] /\ h[4] = h[3] \o ss[4]
    <2>1. 1 - 1 = 0 /\ 2 - 1 = 1 /\ 3 - 1 = 2 /\ 4 - 1 = 3
      OBVIOUS
    <2>2. 1 \in 1 .. 4 /\ 2 \in 1 .. 4 /\ 3 \in 1 .. 4 /\ 4 \in 1 .. 4
      OBVIOUS
    <2> QED
      BY <1>1, <2>1, <2>2
  <1>4. h[1] = ss[1]
    BY <1>1, <1>2, <1>3, ConcatEmptySeq
  <1> QED
    BY <1>1, <1>3, <1>4

\* The four bytes of a word in a packet.
Quad(w) == ((PacketByte(w[1]) \o PacketByte(w[2])) \o PacketByte(w[3])) \o (<<EOP>> \o PacketByte(w[4]))
\* What an answer begins with.
Heading == <<CHANNEL, 0, SOP>>

\* The answer with a word begins with the channel, which was behind the
\* beginning in the request.
LEMMA AnswerIs ==
  ASSUME NEW w \in [1 .. 4 -> Byte]
  PROVE  Answer(w) = Core(Heading \o Quad(w)) /\ Heading \in Seq(Byte) /\ Quad(w) \in Seq(Byte)
PROOF
  <1>1. w \in Seq(Byte) /\ Len(w) = 4
    BY WordSeq
  <1> DEFINE ss == Pieces(w)
             F == FlattenSeq(ss)
             hd == <<SOP, CHANNEL, 0>>
  <1>2. /\ Packet(w) = hd \o F /\ F \in Seq(Byte) /\ hd \in Seq(Byte)
        /\ ss \in Seq(Seq(Byte)) /\ Len(ss) = 4
        /\ \A k \in 1 .. 4 : ss[k] = Piece(w, k) /\ w[k] \in Byte
    BY <1>1, PacketPieces
  <1>3. Len(hd) = 3
    OBVIOUS
  <1>4. F = Quad(w)
    <2>1. /\ ss[1] = PacketByte(w[1]) /\ ss[2] = PacketByte(w[2]) /\ ss[3] = PacketByte(w[3])
          /\ ss[4] = <<EOP>> \o PacketByte(w[4])
      BY <1>1, <1>2 DEF Piece
    <2> HIDE DEF ss
    <2>2. F = ((ss[1] \o ss[2]) \o ss[3]) \o ss[4]
      BY <1>2, FlattenFour
    <2> QED
      BY <2>1, <2>2 DEF Quad
  <1> HIDE DEF F, hd, ss
  <1>5. SubSeq(Packet(w), 4, Len(Packet(w))) = F
    <2> DEFINE p == hd \o F
               q == SubSeq(p, 4, Len(p))
    <2>1. p \in Seq(Byte) /\ Len(p) = 3 + Len(F) /\ Len(F) \in Nat /\ \A j \in 1 .. Len(F) : p[3 + j] = F[j]
      <3>1. Joined(Byte, p, hd, 3, F, Len(F))
        BY <1>2, <1>3, ConcatAt, Zenon
      <3>2. Len(F) \in Nat
        BY <1>2
      <3> HIDE DEF p
      <3> QED
        BY <3>1, <3>2 DEF Joined
    <2> HIDE DEF p
    <2>2. q \in Seq(Byte) /\ Len(q) = Len(F) /\ \A j \in 1 .. Len(F) : q[j] = p[3 + j]
      <3>1. \A i \in 4 .. Len(p) : p[i] \in Byte
        BY <2>1
      <3>2. /\ q \in Seq(Byte) /\ Len(q) = (IF 4 <= Len(p) THEN Len(p) - 4 + 1 ELSE 0)
            /\ \A i \in 1 .. Len(p) - 4 + 1 : q[i] = p[4 + i - 1]
        BY <2>1, <3>1, SubSeqProperties
      <3>3. Len(q) = Len(F)
        BY <2>1, <3>2
      <3>4. ASSUME NEW j \in 1 .. Len(F)
            PROVE  q[j] = p[3 + j]
        <4>1. j \in 1 .. Len(p) - 4 + 1 /\ 4 + j - 1 = 3 + j
          BY <2>1
        <4> QED
          BY <3>2, <4>1
      <3> QED
        BY <3>2, <3>3, <3>4
    <2> HIDE DEF q
    <2>3. q = F
      BY <1>2, <2>1, <2>2, SeqEqual
    <2> QED
      BY <1>2, <2>3 DEF q, p
  <1>6. Heading \in Seq(Byte)
    BY DEF Heading, CHANNEL, SOP, Byte
  <1> QED
    BY <1>2, <1>4, <1>5, <1>6 DEF Answer, Heading

\* Of a whole answer the word is got back, whatever follows.
LEMMA Decoded ==
  ASSUME NEW w \in [1 .. 4 -> Byte], NEW y \in Seq(Byte), Len((Heading \o Quad(w)) \o y) >= 14
  PROVE  FromPacket((Heading \o Quad(w)) \o y) = w
PROOF
  <1> DEFINE a == PacketByte(w[1])
             b == PacketByte(w[2])
             c == PacketByte(w[3])
             d == PacketByte(w[4])
             ab == a \o b
             abc == ab \o c
             e == <<EOP>> \o d
             q == abc \o e
             x == Heading \o q
             p == x \o y
  <1>1. w[1] \in Byte /\ w[2] \in Byte /\ w[3] \in Byte /\ w[4] \in Byte
    OBVIOUS
  <1>2. a \in Seq(Byte) /\ b \in Seq(Byte) /\ c \in Seq(Byte) /\ d \in Seq(Byte) /\ <<EOP>> \in Seq(Byte)
    BY <1>1, PacketByteType
  <1>3. Heading \in Seq(Byte) /\ Len(Heading) = 3 /\ Heading[1] = CHANNEL /\ Heading[2] = 0 /\ Heading[3] = SOP
    BY DEF Heading, CHANNEL, SOP, Byte
  <1>4. Len(<<EOP>>) = 1 /\ <<EOP>>[1] = EOP
    OBVIOUS
  <1>5. Quad(w) = q
    BY DEF Quad
  <1> SUFFICES ASSUME Len(p) >= 14
               PROVE  FromPacket(p) = w
    BY <1>5
  <1> DEFINE la == Len(a)
             lb == Len(b)
             lc == Len(c)
             ld == Len(d)
  <1>6. la \in 1 .. 2 /\ lb \in 1 .. 2 /\ lc \in 1 .. 2 /\ ld \in 1 .. 2
    BY DEF PacketByte
  <1> HIDE DEF a, b, c, d
  <1> HIDE DEF la, lb, lc, ld
  <1>7. Len(a) = la /\ Len(b) = lb /\ Len(c) = lc /\ Len(d) = ld
    BY DEF la, lb, lc, ld
  <1>8. Joined(Byte, ab, a, la, b, lb)
    BY <1>2, <1>7, ConcatAt, Zenon
  <1> HIDE DEF ab
  <1>9. ab \in Seq(Byte) /\ Len(ab) = la + lb
    BY <1>8 DEF Joined
  <1>10. Joined(Byte, abc, ab, la + lb, c, lc)
    BY <1>2, <1>7, <1>9, ConcatAt, Zenon
  <1> HIDE DEF abc
  <1>11. abc \in Seq(Byte) /\ Len(abc) = la + lb + lc
    BY <1>10 DEF Joined
  <1>12. Joined(Byte, e, <<EOP>>, 1, d, ld)
    BY <1>2, <1>4, <1>7, ConcatAt, Zenon
  <1> HIDE DEF e
  <1>13. e \in Seq(Byte) /\ Len(e) = 1 + ld
    BY <1>12 DEF Joined
  <1>14. Joined(Byte, q, abc, la + lb + lc, e, 1 + ld)
    BY <1>11, <1>13, ConcatAt, Zenon
  <1> HIDE DEF q
  <1> DEFINE n == la + lb + lc + (1 + ld)
  <1>15. q \in Seq(Byte) /\ Len(q) = n
    BY <1>14 DEF Joined
  <1> HIDE DEF n
  <1>16. Joined(Byte, x, Heading, 3, q, n)
    BY <1>3, <1>15, ConcatAt, Zenon
  <1> HIDE DEF x
  <1>17. x \in Seq(Byte) /\ Len(x) = 3 + n
    BY <1>16 DEF Joined
  <1>18. Joined(Byte, p, x, 3 + n, y, Len(y))
    BY <1>17, ConcatAt, Zenon
  <1> HIDE DEF p
  <1>19. p \in Seq(Byte)
    BY <1>18 DEF Joined
  <1>20. /\ \A j \in 1 .. la : p[3 + j] = a[j]
         /\ \A j \in 1 .. lb : p[3 + la + j] = b[j]
         /\ \A j \in 1 .. lc : p[3 + la + lb + j] = c[j]
         /\ p[3 + la + lb + lc + 1] = EOP
         /\ \A j \in 1 .. ld : p[3 + la + lb + lc + 1 + j] = d[j]
         /\ p[1] = CHANNEL /\ p[2] = 0 /\ p[3] = SOP
    <2>1. n = la + lb + lc + (1 + ld)
      BY DEF n
    <2>2. n \in Nat
      BY <2>1, <1>6
    <2>3. \A j \in 1 .. n : p[3 + j] = q[j]
      <3>1. TAKE j \in 1 .. n
      <3>2. 3 + j \in 1 .. 3 + n
        BY <2>2
      <3>3. x[3 + j] = q[j]
        BY <1>16 DEF Joined
      <3>4. p[3 + j] = x[3 + j]
        BY <1>18, <3>2 DEF Joined
      <3> QED
        BY <3>3, <3>4
    <2>4. \A j \in 1 .. la : p[3 + j] = a[j]
      <3>1. TAKE j \in 1 .. la
      <3>2. j \in 1 .. n /\ j \in 1 .. la + lb + lc /\ j \in 1 .. la + lb
        BY <1>6, <2>1
      <3>3. p[3 + j] = q[j] /\ q[j] = abc[j] /\ abc[j] = ab[j] /\ ab[j] = a[j]
        BY <1>8, <1>10, <1>14, <2>3, <3>2 DEF Joined
      <3> QED
        BY <3>3
    <2>5. \A j \in 1 .. lb : p[3 + la + j] = b[j]
      <3>1. TAKE j \in 1 .. lb
      <3> DEFINE k == la + j
      <3>2. k \in 1 .. n /\ k \in 1 .. la + lb + lc /\ k \in 1 .. la + lb /\ 3 + la + j = 3 + k
        BY <1>6, <2>1
      <3>3. ab[k] = b[j]
        BY <1>8 DEF Joined
      <3> HIDE DEF k
      <3>4. p[3 + k] = q[k] /\ q[k] = abc[k] /\ abc[k] = ab[k]
        BY <1>10, <1>14, <2>3, <3>2 DEF Joined
      <3> QED
        BY <3>2, <3>3, <3>4
    <2>6. \A j \in 1 .. lc : p[3 + la + lb + j] = c[j]
      <3>1. TAKE j \in 1 .. lc
      <3> DEFINE k == la + lb + j
      <3>2. k \in 1 .. n /\ k \in 1 .. la + lb + lc /\ 3 + la + lb + j = 3 + k
        BY <1>6, <2>1
      <3>3. abc[k] = c[j]
        BY <1>10 DEF Joined
      <3> HIDE DEF k
      <3>4. p[3 + k] = q[k] /\ q[k] = abc[k]
        BY <1>14, <2>3, <3>2 DEF Joined
      <3> QED
        BY <3>2, <3>3, <3>4
    <2>7. \A i \in 1 .. 1 + ld : p[3 + la + lb + lc + i] = e[i]
      <3>1. TAKE i \in 1 .. 1 + ld
      <3> DEFINE k == la + lb + lc + i
      <3>2. k \in 1 .. n /\ 3 + la + lb + lc + i = 3 + k
        BY <1>6, <2>1
      <3>3. q[k] = e[i]
        BY <1>14 DEF Joined
      <3> HIDE DEF k
      <3> QED
        BY <2>3, <3>2, <3>3
    <2>8. p[3 + la + lb + lc + 1] = EOP
      <3>1. 1 \in 1 .. 1 + ld /\ 1 \in 1 .. 1
        BY <1>6
      <3>2. e[1] = EOP
        BY <1>12, <1>4, <3>1 DEF Joined
      <3> QED
        BY <2>7, <3>1, <3>2
    <2>9. \A j \in 1 .. ld : p[3 + la + lb + lc + 1 + j] = d[j]
      <3>1. TAKE j \in 1 .. ld
      <3>2. 1 + j \in 1 .. 1 + ld /\ 3 + la + lb + lc + 1 + j = 3 + la + lb + lc + (1 + j)
        BY <1>6
      <3>3. e[1 + j] = d[j]
        BY <1>12 DEF Joined
      <3> QED
        BY <2>7, <3>2, <3>3
    <2>10. p[1] = CHANNEL /\ p[2] = 0 /\ p[3] = SOP
      <3>1. \A i \in 1 .. 3 : i \in 1 .. 3 + n
        BY <2>2
      <3>2. \A i \in 1 .. 3 : x[i] = Heading[i] /\ p[i] = x[i]
        BY <1>16, <1>18, <3>1 DEF Joined
      <3>3. 1 \in 1 .. 3 /\ 2 \in 1 .. 3 /\ 3 \in 1 .. 3
        OBVIOUS
      <3> QED
        BY <1>3, <3>2, <3>3
    <2> QED
      BY <2>4, <2>5, <2>6, <2>8, <2>9, <2>10
  <1>21. PICK f \in [0 .. 14 -> PacketState] :
           /\ f[0] = Pk(<<>>, "seek") /\ \A k \in 1 .. 14 : f[k] = PacketTake(p, f[k - 1], k)
           /\ FromPacket(p) = f[14].out
    BY <1>19, FromPacketTrace
  <1>22. At(p, f, 3, Pk(<<>>, "in"))
    <2>1. f[1] = PacketTake(p, f[0], 1) /\ f[2] = PacketTake(p, f[1], 2) /\ f[3] = PacketTake(p, f[2], 3)
      <3>1. 1 \in 1 .. 14 /\ 2 \in 1 .. 14 /\ 3 \in 1 .. 14 /\ 1 - 1 = 0 /\ 2 - 1 = 1 /\ 3 - 1 = 2
        OBVIOUS
      <3> QED
        BY <1>21, <3>1
    <2>2. CHANNEL # SOP /\ 0 # SOP
      BY DEF CHANNEL, SOP
    <2>3. f[1] = Pk(<<>>, "seek")
      BY <1>20, <1>21, <2>1, <2>2, PkTake
    <2>4. f[2] = Pk(<<>>, "seek")
      BY <1>20, <2>1, <2>2, <2>3, PkTake
    <2>5. f[3] = Pk(<<>>, "in")
      BY <1>20, <2>1, <2>4, PkTake
    <2> QED
      BY <1>21, <2>5 DEF At
  <1> DEFINE o1 == Append(<<>>, w[1])
             o2 == Append(o1, w[2])
             o3 == Append(o2, w[3])
             o4 == Append(o3, w[4])
  <1>23. o1 \in Seq(Byte) /\ o2 \in Seq(Byte) /\ o3 \in Seq(Byte)
    BY <1>1
  <1>24. At(p, f, 3 + la, Pk(o1, "in"))
    <2>1. <<>> \in Seq(Byte) /\ 3 \in 0 .. 12 /\ 3 + la <= 12
      BY <1>6
    <2> QED
      BY <2>1, <1>1, <1>19, <1>20, <1>22, DecodePiece DEF a, la
  <1> HIDE DEF o1
  <1>25. At(p, f, 3 + la + lb, Pk(o2, "in"))
    <2>1. 3 + la \in 0 .. 12 /\ 3 + la + lb <= 12
      BY <1>6
    <2> QED
      BY <2>1, <1>1, <1>19, <1>20, <1>23, <1>24, DecodePiece DEF b, lb
  <1> HIDE DEF o2
  <1>26. At(p, f, 3 + la + lb + lc, Pk(o3, "in"))
    <2>1. 3 + la + lb \in 0 .. 12 /\ 3 + la + lb + lc <= 12
      BY <1>6
    <2> QED
      BY <2>1, <1>1, <1>19, <1>20, <1>23, <1>25, DecodePiece DEF c, lc
  <1> HIDE DEF o3
  <1>27. f[14] = Pk(o4, "done")
    <2> DEFINE i == 3 + la + lb + lc
    <2>1. i \in 0 .. 9
      BY <1>6
    <2>2. p[i + 1] = EOP /\ \A j \in 1 .. ld : p[i + 1 + j] = d[j]
      BY <1>20
    <2> HIDE DEF i
    <2> DEFINE u == w[4]
    <2>3. u \in Byte /\ PieceAt(p, i + 1, u)
      BY <1>1, <2>2 DEF d, ld, PieceAt
    <2>4. At(p, f, i, Pk(o3, "in"))
      BY <1>26 DEF i
    <2> HIDE DEF u
    <2>5. f[14] = Pk(Append(o3, u), "done")
      <3> HIDE DEF o4
      <3>1. p[i + 1] = EOP /\ u \in Byte /\ o3 \in Seq(Byte)
        BY <2>2, <2>3, <1>23
      <3>2. PieceAt(p, i + 1, u)
        BY <2>3
      <3> QED
        BY <2>1, <2>4, <3>1, <3>2, <1>19, DecodeLast
    <2> QED
      BY <2>5 DEF u
  <1>28. o4 = w
    <2>1. o4 \in Seq(Byte) /\ Len(o4) = 4 /\ o4[1] = w[1] /\ o4[2] = w[2] /\ o4[3] = w[3] /\ o4[4] = w[4]
      <3>1. o1 \in Seq(Byte) /\ Len(o1) = 1 /\ o1[1] = w[1]
        BY <1>1 DEF o1
      <3>2. Longer(Byte, o2, o1, 1, w[2])
        BY <1>1, <3>1, AppendAt, Zenon DEF o2
      <3>3. o2 \in Seq(Byte) /\ Len(o2) = 2
        BY <3>2 DEF Longer
      <3>4. Longer(Byte, o3, o2, 2, w[3])
        BY <1>1, <3>3, AppendAt, Zenon DEF o3
      <3>5. o3 \in Seq(Byte) /\ Len(o3) = 3
        BY <3>4 DEF Longer
      <3>6. Longer(Byte, o4, o3, 3, w[4])
        BY <1>1, <3>5, AppendAt, Zenon
      <3> HIDE DEF o4
      <3> QED
        BY <3>1, <3>2, <3>4, <3>6 DEF Longer
    <2>2. w \in Seq(Byte) /\ Len(w) = 4
      BY WordSeq
    <2> HIDE DEF o4
    <2>3. \A i \in 1 .. Len(o4) : o4[i] = w[i]
      BY <2>1
    <2> QED
      BY <2>1, <2>2, <2>3, SeqEqual
  <1> QED
    BY <1>21, <1>27, <1>28, PkFields

-----------------------------------------------------------------------------
(* How long answers are, and what do_transaction makes of them.              *)

\* Sent by byte_to_core_convert, x takes at most m bytes.
Takes(x, m) == x \in Seq(Byte) /\ \A n \in Nat : \E k \in 0 .. m : Leads(LenStep, n, x, n + k)

\* The bounds of two parts add up.
LEMMA TakesConcat ==
  ASSUME NEW x, NEW y, NEW m \in Nat, NEW l \in Nat, Takes(x, m), Takes(y, l)
  PROVE  Takes(x \o y, m + l)
PROOF
  <1>1. x \in Seq(Byte) /\ y \in Seq(Byte)
    BY DEF Takes
  <1>2. x \o y \in Seq(Byte)
    BY <1>1
  <1>3. ASSUME NEW n \in Nat
        PROVE  \E k \in 0 .. m + l : Leads(LenStep, n, x \o y, n + k)
    <2>1. PICK i \in 0 .. m : Leads(LenStep, n, x, n + i)
      BY DEF Takes
    <2>2. n + i \in Nat
      OBVIOUS
    <2>3. PICK j \in 0 .. l : Leads(LenStep, n + i, y, (n + i) + j)
      BY <2>2 DEF Takes
    <2>4. Leads(LenStep, n, x \o y, (n + i) + j)
      BY <1>1, <2>1, <2>3, LeadsConcat
    <2>5. (n + i) + j = n + (i + j) /\ i + j \in 0 .. m + l
      OBVIOUS
    <2> QED
      BY <2>4, <2>5
  <1> QED
    BY <1>2, <1>3 DEF Takes

\* One byte takes two bytes at most, and one if it needs no escape.
LEMMA TakesOne ==
  ASSUME NEW b \in Byte
  PROVE  /\ Takes(<<b>>, 2)
         /\ b \in Literal => Takes(<<b>>, 1)
PROOF
  <1>1. <<b>> \in Seq(Byte)
    OBVIOUS
  <1>2. Len(CoreByte(b)) \in 1 .. 2 /\ (b \in Literal => Len(CoreByte(b)) = 1)
    BY DEF CoreByte, Literal
  <1>3. ASSUME NEW n \in Nat
        PROVE  Leads(LenStep, n, <<b>>, n + Len(CoreByte(b)))
    <2>1. LenStep[<<n, b>>] = n + Len(CoreByte(b))
      BY DEF LenStep
    <2>2. Leads(LenStep, n, <<b>>, LenStep[<<n, b>>])
      BY LeadsOne
    <2> QED
      BY <2>1, <2>2
  <1> DEFINE m == Len(CoreByte(b))
  <1> HIDE DEF m
  <1>4. m \in 0 .. 2 /\ (b \in Literal => m \in 0 .. 1)
    BY <1>2 DEF m
  <1>5. \A n \in Nat : Leads(LenStep, n, <<b>>, n + m)
    BY <1>3 DEF m
  <1> QED
    BY <1>1, <1>4, <1>5 DEF Takes

\* One byte of a packet takes two bytes at most, because what an escape of
\* the packets yields is nothing that the SPI core escapes.
LEMMA TakesPiece ==
  ASSUME NEW b \in Byte
  PROVE  Takes(PacketByte(b), 2)
PROOF
  <1>1. CASE b \in {SOP, EOP, CHANNEL, ESC}
    <2>1. ESC \in Literal /\ xor_20(b) \in Literal /\ ESC \in Byte /\ xor_20(b) \in Byte
      <3>1. xor_20(b) \in {90, 91, 92, 93}
        BY <1>1 DEF SOP, EOP, CHANNEL, ESC, xor_20
      <3> QED
        BY <3>1 DEF Literal, Byte, ESC, BYTESIDLECHAR, BYTESESCCHAR
    <2>2. PacketByte(b) = <<ESC>> \o <<xor_20(b)>>
      BY <1>1, PacketByteType
    <2>3. Takes(<<ESC>>, 1) /\ Takes(<<xor_20(b)>>, 1)
      BY <2>1, TakesOne
    <2>4. Takes(<<ESC>> \o <<xor_20(b)>>, 1 + 1)
      BY <2>3, TakesConcat
    <2> QED
      BY <2>2, <2>4
  <1>2. CASE b \notin {SOP, EOP, CHANNEL, ESC}
    BY <1>2, PacketByteType, TakesOne
  <1> QED
    BY <1>1, <1>2

\* An answer is at most twelve bytes long.
LEMMA AnswerLen ==
  ASSUME NEW w \in [1 .. 4 -> Byte]
  PROVE  Answer(w) \in Seq(Byte) /\ Len(Answer(w)) \in 0 .. 12
PROOF
  <1>1. Answer(w) = Core(Heading \o Quad(w)) /\ Heading \in Seq(Byte) /\ Quad(w) \in Seq(Byte)
    BY AnswerIs
  <1>2. Takes(Heading, 3)
    <2>1. CHANNEL \in Byte /\ 0 \in Byte /\ SOP \in Byte /\ CHANNEL \in Literal /\ 0 \in Literal /\ SOP \in Literal
      BY DEF CHANNEL, SOP, Byte, Literal, BYTESIDLECHAR, BYTESESCCHAR
    <2>2. Takes(<<CHANNEL>>, 1) /\ Takes(<<0>>, 1) /\ Takes(<<SOP>>, 1)
      BY <2>1, TakesOne
    <2>3. Takes(<<CHANNEL>> \o <<0>>, 1 + 1)
      BY <2>2, TakesConcat
    <2>4. Takes((<<CHANNEL>> \o <<0>>) \o <<SOP>>, (1 + 1) + 1)
      BY <2>2, <2>3, TakesConcat
    <2>5. Heading = (<<CHANNEL>> \o <<0>>) \o <<SOP>>
      BY DEF Heading
    <2> QED
      BY <2>4, <2>5
  <1>3. Takes(Quad(w), 9)
    <2>1. w[1] \in Byte /\ w[2] \in Byte /\ w[3] \in Byte /\ w[4] \in Byte /\ EOP \in Byte /\ EOP \in Literal
      BY DEF EOP, Byte, Literal, BYTESIDLECHAR, BYTESESCCHAR
    <2> DEFINE a == PacketByte(w[1])
               b == PacketByte(w[2])
               c == PacketByte(w[3])
               d == PacketByte(w[4])
    <2>2. Takes(a, 2) /\ Takes(b, 2) /\ Takes(c, 2) /\ Takes(d, 2) /\ Takes(<<EOP>>, 1)
      BY <2>1, TakesPiece, TakesOne
    <2>3. Quad(w) = ((a \o b) \o c) \o (<<EOP>> \o d)
      BY DEF Quad
    <2> HIDE DEF a, b, c, d
    <2>4. Takes(a \o b, 2 + 2)
      BY <2>2, TakesConcat
    <2>5. Takes((a \o b) \o c, (2 + 2) + 2)
      BY <2>2, <2>4, TakesConcat
    <2>6. Takes(<<EOP>> \o d, 1 + 2)
      BY <2>2, TakesConcat
    <2>7. Takes(((a \o b) \o c) \o (<<EOP>> \o d), ((2 + 2) + 2) + (1 + 2))
      BY <2>5, <2>6, TakesConcat
    <2>8. ((2 + 2) + 2) + (1 + 2) = 9
      OBVIOUS
    <2> QED
      BY <2>3, <2>7, <2>8
  <1> DEFINE x == Heading \o Quad(w)
             a == Core(x)
  <1>4. Takes(x, 3 + 9)
    BY <1>2, <1>3, TakesConcat
  <1>5. x \in Seq(Byte)
    BY <1>1
  <1> HIDE DEF x
  <1>6. Leads(LenStep, 0, x, Len(a))
    BY <1>5, CoreLen
  <1>7. PICK k \in 0 .. 12 : Leads(LenStep, 0, x, k)
    <2>1. PICK k \in 0 .. 3 + 9 : Leads(LenStep, 0, x, 0 + k)
      BY <1>4 DEF Takes
    <2>2. k \in 0 .. 12 /\ 0 + k = k
      OBVIOUS
    <2> QED
      BY <2>1, <2>2
  <1>8. Len(a) = k
    BY <1>5, <1>6, <1>7, LeadsUnique
  <1>9. Core(x) \in Seq(Byte)
    BY <1>5, CoreRoundTrip, EmptySeq
  <1> QED
    BY <1>1, <1>8, <1>9 DEF x

\* A response is a word, whatever was received.
LEMMA ResponseType ==
  ASSUME NEW rx \in Seq(Byte), NEW old \in [1 .. 4 -> Byte]
  PROVE  Response(rx, old) \in [1 .. 4 -> Byte]
PROOF
  <1> DEFINE s == rx \o Zeros(14)
             c == FromCore(s)
             data == FromPacket(c)
  <1>1. Zeros(14) \in Seq(Byte)
    BY DEF Zeros, Byte
  <1>2. s \in Seq(Byte)
    BY <1>1
  <1>3. CoreStart \in CoreState /\ CoreStart = Got(<<>>) /\ <<>> \in Seq(Byte)
    BY GotType, EmptySeq DEF CoreStart, Got
  <1>4. PICK t1 \in CoreState : Leads(CoreStep, CoreStart, rx, t1)
    BY <1>3, CoreStepType, LeadsSome
  <1>5. PICK t2 \in CoreState : Leads(CoreStep, t1, Zeros(14), t2)
    BY <1>1, CoreStepType, LeadsSome
  <1>6. Leads(CoreStep, CoreStart, s, t2)
    BY <1>1, <1>4, <1>5, LeadsConcat
  <1>7. c = t2.out
    <2> HIDE DEF s
    <2> QED
      BY <1>2, <1>6, FromCoreLeads
  <1>8. c \in Seq(Byte) /\ Len(c) >= 14
    <2>1. Len(t2.out) = Len(t1.out) + 14
      BY <1>5, CoreZeros
    <2>2. t2.out \in Seq(Byte) /\ t1.out \in Seq(Byte)
      BY DEF CoreState
    <2>3. Len(t1.out) \in Nat
      BY <2>2
    <2> HIDE DEF c
    <2> QED
      BY <1>7, <2>1, <2>2, <2>3
  <1> HIDE DEF c
  <1>9. data \in Seq(Byte)
    <2>1. PICK f \in [0 .. 14 -> PacketState] : FromPacket(c) = f[14].out
      BY <1>8, FromPacketTrace
    <2>2. f[14] \in PacketState
      OBVIOUS
    <2> QED
      BY <2>1, <2>2, PkType
  <1> HIDE DEF data
  <1>10. Response(rx, old) = [k \in 1 .. 4 |-> IF k <= Len(data) THEN data[k] ELSE old[k]]
    BY DEF Response, c, s, data
  <1>11. ASSUME NEW k \in 1 .. 4
         PROVE  (IF k <= Len(data) THEN data[k] ELSE old[k]) \in Byte
    <2>1. old[k] \in Byte
      OBVIOUS
    <2>2. k <= Len(data) => data[k] \in Byte
      BY <1>9
    <2> QED
      BY <2>1, <2>2
  <1> QED
    BY <1>10, <1>11

\* An answer behind idle bytes is decoded, whatever follows it.
LEMMA ResponseDecoded ==
  ASSUME NEW w \in [1 .. 4 -> Byte], NEW s \in Seq({BYTESIDLECHAR}), NEW r \in Seq(Byte), NEW old
  PROVE  Response((s \o Answer(w)) \o r, old) = w
PROOF
  <1> DEFINE x == Heading \o Quad(w)
             a == Answer(w)
             b == r \o Zeros(14)
             rx == (s \o a) \o r
             z == rx \o Zeros(14)
             c == FromCore(z)
  <1>1. a = Core(x) /\ x \in Seq(Byte) /\ a \in Seq(Byte)
    BY AnswerIs, AnswerLen
  <1> HIDE DEF x, a
  <1>2. Zeros(14) \in Seq(Byte) /\ s \in Seq(Byte)
    BY DEF Zeros, Byte, BYTESIDLECHAR
  <1>3. <<>> \in Seq(Byte) /\ CoreStart = Got(<<>>) /\ <<>> \o x = x
    BY <1>1, EmptySeq, ConcatEmptySeq DEF CoreStart, Got
  <1>4. Leads(CoreStep, CoreStart, s, CoreStart)
    BY <1>3, CoreIdle
  <1>5. Leads(CoreStep, CoreStart, a, Got(x))
    BY <1>1, <1>3, CoreRoundTrip
  <1>6. Leads(CoreStep, CoreStart, s \o a, Got(x))
    BY <1>1, <1>2, <1>4, <1>5, LeadsConcat
  <1> DEFINE sa == s \o a
             g == Got(x)
  <1>7. g \in CoreState /\ g.out = x /\ sa \in Seq(Byte)
    <2>1. sa \in Seq(Byte)
      BY <1>1, <1>2
    <2> QED
      BY <1>1, <2>1, GotType
  <1> HIDE DEF sa, g
  <1>8. PICK t1 \in CoreState : Leads(CoreStep, g, r, t1)
    BY <1>7, CoreStepType, LeadsSome
  <1>9. Leads(CoreStep, CoreStart, rx, t1) /\ rx \in Seq(Byte)
    <2>1. Leads(CoreStep, CoreStart, sa, g)
      BY <1>6 DEF sa, g
    <2>2. Leads(CoreStep, CoreStart, sa \o r, t1) /\ sa \o r \in Seq(Byte)
      <3>1. Leads(CoreStep, CoreStart, sa \o r, t1)
        BY <1>7, <1>8, <2>1, LeadsConcat
      <3> QED
        BY <1>7, <3>1
    <2> QED
      BY <2>2 DEF sa
  <1> HIDE DEF rx
  <1>10. PICK t2 \in CoreState : Leads(CoreStep, t1, Zeros(14), t2)
    BY <1>2, CoreStepType, LeadsSome
  <1>11. Leads(CoreStep, CoreStart, z, t2) /\ z \in Seq(Byte)
    BY <1>2, <1>9, <1>10, LeadsConcat
  <1> HIDE DEF z
  <1>12. c = t2.out
    BY <1>11, FromCoreLeads
  <1>13. Len(t2.out) = Len(t1.out) + 14 /\ t1.out \in Seq(Byte) /\ t2.out \in Seq(Byte)
    BY <1>10, CoreZeros DEF CoreState
  <1>14. PICK y1 \in Seq(Byte) : t1.out = x \o y1
    BY <1>7, <1>8, CoreAppends
  <1>15. PICK y2 \in Seq(Byte) : t2.out = t1.out \o y2
    BY <1>2, <1>10, CoreAppends
  <1> DEFINE y == y1 \o y2
  <1>16. c = x \o y /\ y \in Seq(Byte)
    <2>1. (x \o y1) \o y2 = x \o (y1 \o y2)
      BY <1>1, ConcatAssociative, SMTT(30)
    <2> QED
      BY <1>12, <1>14, <1>15, <2>1
  <1> HIDE DEF y
  <1>17. Len(x \o y) >= 14
    <2>1. Len(t1.out) \in Nat
      BY <1>13
    <2>2. Len(c) >= 14
      <3> HIDE DEF c
      <3> QED
        BY <1>12, <1>13, <2>1
    <2> QED
      BY <1>16, <2>2
  <1>18. FromPacket(c) = w
    <2>1. FromPacket(x \o y) = w
      BY <1>16, <1>17, Decoded DEF x
    <2> QED
      BY <1>16, <2>1
  <1> HIDE DEF c
  <1>19. Response(rx, old) = [k \in 1 .. 4 |-> IF k <= Len(w) THEN w[k] ELSE old[k]]
    BY <1>18 DEF Response, c, z
  <1>20. Len(w) = 4
    BY WordSeq
  <1>21. Response(rx, old) = w
    BY <1>19, <1>20
  <1> QED
    BY <1>21 DEF rx, a

-----------------------------------------------------------------------------
(* Which bytes requests are made of, and how long they are.                  *)

\* What the SPI core and the packets let through as it is.
Safe == Byte \ {BYTESIDLECHAR, BYTESESCCHAR, SOP}

\* A packet of plain bytes is one of plain bytes, and only its first byte
\* begins a packet.
LEMMA PacketSafe ==
  ASSUME NEW data \in Seq(Literal)
  PROVE  /\ Packet(data) \in Seq(Literal)
         /\ Len(Packet(data)) \in Nat
         /\ \A k \in 2 .. Len(Packet(data)) : Packet(data)[k] \in Safe
PROOF
  <1> DEFINE ss == Pieces(data)
             F == FlattenSeq(ss)
             hd == <<SOP, CHANNEL, 0>>
             p == hd \o F
  <1>1. data \in Seq(Byte) /\ \A k \in 1 .. Len(data) : data[k] \in Literal
    BY DEF Literal
  <1>2. /\ Packet(data) = p /\ ss \in Seq(Seq(Byte)) /\ Len(ss) = Len(data)
        /\ \A k \in 1 .. Len(data) : ss[k] = Piece(data, k)
    BY <1>1, PacketPieces
  <1>3. Safe \subseteq Literal
    BY DEF Safe, Literal
  <1>4. SOP \in Literal /\ CHANNEL \in Safe /\ 0 \in Safe /\ EOP \in Safe /\ ESC \in Safe
    BY DEF Safe, Literal, SOP, CHANNEL, EOP, ESC, Byte, BYTESIDLECHAR, BYTESESCCHAR
  <1>5. ASSUME NEW b \in Literal
        PROVE  PacketByte(b) \in Seq(Safe)
    <2>1. CASE b \in {SOP, EOP, CHANNEL, ESC}
      <3>1. xor_20(b) \in {90, 91, 92, 93}
        BY <2>1 DEF SOP, EOP, CHANNEL, ESC, xor_20
      <3>2. xor_20(b) \in Safe
        BY <3>1 DEF Safe, Byte, BYTESIDLECHAR, BYTESESCCHAR, SOP
      <3>3. PacketByte(b) = <<ESC, xor_20(b)>>
        BY <2>1 DEF PacketByte
      <3> DEFINE x == xor_20(b)
      <3> HIDE DEF x
      <3>4. <<ESC, x>> \in Seq(Safe)
        BY <1>4, <3>2, Pair DEF x
      <3> QED
        BY <3>3, <3>4 DEF x
    <2>2. CASE b \notin {SOP, EOP, CHANNEL, ESC}
      <3>1. PacketByte(b) = <<b>> /\ b \in Safe
        BY <2>2 DEF PacketByte, Safe, Literal
      <3>2. <<b>> \in Seq(Safe)
        BY <3>1
      <3> QED
        BY <3>1, <3>2
    <2> QED
      BY <2>1, <2>2
  <1>6. ASSUME NEW k \in 1 .. Len(data)
        PROVE  ss[k] \in Seq(Safe)
    <2> DEFINE x == PacketByte(data[k])
    <2>1. x \in Seq(Safe)
      BY <1>1, <1>5
    <2> HIDE DEF x
    <2>2. <<EOP>> \o x \in Seq(Safe)
      BY <1>4, <2>1
    <2>3. ss[k] = IF k = Len(data) THEN <<EOP>> \o x ELSE x
      BY <1>2 DEF Piece, x
    <2> QED
      BY <2>1, <2>2, <2>3
  <1> HIDE DEF ss
  <1>7. ss \in Seq(Seq(Safe))
    <2>1. ss \in [1 .. Len(ss) -> Seq(Byte)] /\ Len(ss) \in Nat
      BY <1>2
    <2>2. \A k \in 1 .. Len(ss) : ss[k] \in Seq(Safe)
      BY <1>2, <1>6
    <2>3. ss \in [1 .. Len(ss) -> Seq(Safe)]
      BY <2>1, <2>2
    <2> QED
      BY <2>1, <2>3
  <1>8. F \in Seq(Safe)
    BY <1>7, FlattenType
  <1> HIDE DEF F
  <1>9. hd \in Seq(Literal) /\ Len(hd) = 3 /\ hd[2] \in Safe /\ hd[3] \in Safe
    <2>1. hd \in Seq(Literal)
      BY <1>3, <1>4, Triple
    <2>2. Len(hd) = 3 /\ hd[2] = CHANNEL /\ hd[3] = 0
      OBVIOUS
    <2> QED
      BY <1>4, <2>1, <2>2
  <1> HIDE DEF hd
  <1>10. F \in Seq(Literal) /\ Len(F) \in Nat
    BY <1>3, <1>8
  <1>11. Joined(Literal, p, hd, 3, F, Len(F))
    BY <1>9, <1>10, ConcatAt, Zenon
  <1> HIDE DEF p
  <1>12. p \in Seq(Literal) /\ Len(p) = 3 + Len(F)
    BY <1>11 DEF Joined
  <1>13. ASSUME NEW k \in 2 .. Len(p)
         PROVE  p[k] \in Safe
    <2>1. CASE k \in {2, 3}
      <3>1. k \in 1 .. 3 /\ hd[k] \in Safe
        BY <1>9, <2>1
      <3> QED
        BY <1>11, <3>1 DEF Joined
    <2>2. CASE k \notin {2, 3}
      <3> DEFINE j == k - 3
      <3>1. j \in 1 .. Len(F) /\ k = 3 + j
        BY <1>10, <1>12, <2>2
      <3> HIDE DEF j
      <3>2. p[3 + j] = F[j]
        BY <1>11, <3>1 DEF Joined
      <3>3. F[j] \in Safe
        BY <1>8, <3>1
      <3> QED
        BY <3>1, <3>2, <3>3
    <2> QED
      BY <2>1, <2>2
  <1> QED
    BY <1>2, <1>10, <1>12, <1>13

\* The length of a packet in which at most the j-th byte is escaped.
LEMMA PacketLen ==
  ASSUME NEW data \in Seq(Byte), NEW j \in 1 .. Len(data),
         \A k \in 1 .. Len(data) : k # j => data[k] \notin {SOP, EOP, CHANNEL, ESC}
  PROVE  Len(Packet(data)) = Len(data) + 3 + Len(PacketByte(data[j])) /\ Len(PacketByte(data[j])) \in 1 .. 2
PROOF
  <1> DEFINE ss == Pieces(data)
             F == FlattenSeq(ss)
             hd == <<SOP, CHANNEL, 0>>
             n == Len(data)
             e == Len(PacketByte(data[j]))
             v == [k \in 0 .. n |-> IF k = 0 THEN 0
                                    ELSE k + (IF k >= j THEN e - 1 ELSE 0) + (IF k = n THEN 1 ELSE 0)]
  <1>1. /\ Packet(data) = hd \o F /\ ss \in Seq(Seq(Byte)) /\ Len(ss) = n /\ F \in Seq(Byte) /\ hd \in Seq(Byte)
        /\ \A k \in 1 .. n : ss[k] = Piece(data, k) /\ data[k] \in Byte
    BY PacketPieces
  <1>2. n \in Nat /\ e \in 1 .. 2 /\ j \in 1 .. n /\ Len(hd) = 3
    BY DEF PacketByte
  <1>3. ASSUME NEW k \in 1 .. n
        PROVE  Len(ss[k]) = (IF k = j THEN e ELSE 1) + (IF k = n THEN 1 ELSE 0)
    <2> DEFINE x == PacketByte(data[k])
    <2>1. x \in Seq(Byte)
      BY <1>1, PacketByteType
    <2>2. Len(x) = IF k = j THEN e ELSE 1
      <3>1. CASE k = j
        BY <3>1
      <3>2. CASE k # j
        <4>1. x = <<data[k]>>
          BY <3>2 DEF PacketByte
        <4>2. Len(<<data[k]>>) = 1
          OBVIOUS
        <4> HIDE DEF e, n
        <4> QED
          BY <3>2, <4>1, <4>2
      <3> HIDE DEF x, e
      <3> QED
        BY <3>1, <3>2
    <2> HIDE DEF x, e
    <2>3. Len(<<EOP>> \o x) = 1 + Len(x)
      BY <2>1
    <2>4. ss[k] = IF k = n THEN <<EOP>> \o x ELSE x
      BY <1>1 DEF Piece, x
    <2>5. Len(x) \in Nat
      BY <2>1
    <2> HIDE DEF ss, n
    <2>6. CASE k = n
      <3>1. Len(ss[k]) = 1 + Len(x)
        BY <2>3, <2>4, <2>6
      <3> QED
        BY <2>2, <2>5, <2>6, <3>1
    <2>7. CASE k # n
      <3>1. Len(ss[k]) = Len(x)
        BY <2>4, <2>7
      <3> QED
        BY <2>2, <2>5, <2>7, <3>1
    <2> QED
      BY <2>6, <2>7
  <1> HIDE DEF ss, e, n, hd
  <1>4. v \in [0 .. n -> Nat] /\ v[0] = 0
    BY <1>2
  <1>5. ASSUME NEW k \in 1 .. n
        PROVE  v[k] = v[k - 1] + Len(ss[k])
    <2> DEFINE l == Len(ss[k])
    <2>1. l = (IF k = j THEN e ELSE 1) + (IF k = n THEN 1 ELSE 0)
      BY <1>3
    <2> HIDE DEF l
    <2>2. k \in 0 .. n /\ k - 1 \in 0 .. n
      BY <1>2
    <2>3. v[k] = k + (IF k >= j THEN e - 1 ELSE 0) + (IF k = n THEN 1 ELSE 0)
      BY <2>2
    <2>4. v[k - 1] = IF k = 1 THEN 0 ELSE (k - 1) + (IF k - 1 >= j THEN e - 1 ELSE 0)
      BY <1>2, <2>2
    <2> HIDE DEF v
    <2>5. v[k] = v[k - 1] + l
      BY <1>2, <2>1, <2>3, <2>4
    <2> QED
      BY <2>5 DEF l
  <1>6. v[n] = n + e
    BY <1>2
  <1> HIDE DEF v
  <1>7. Len(F) = v[n]
    <2>1. v \in [0 .. Len(ss) -> Nat] /\ \A k \in 1 .. Len(ss) : v[k] = v[k - 1] + Len(ss[k])
      BY <1>1, <1>4, <1>5
    <2>2. Len(FlattenSeq(ss)) = v[Len(ss)]
      BY <1>1, <1>4, <2>1, FlattenLen
    <2> QED
      BY <1>1, <2>2
  <1> HIDE DEF F
  <1>8. Len(hd \o F) = 3 + Len(F)
    <2>1. Joined(Byte, hd \o F, hd, 3, F, Len(F))
      BY <1>1, <1>2, ConcatAt, Zenon
    <2> QED
      BY <2>1 DEF Joined
  <1>9. Len(Packet(data)) = n + 3 + e
    <2>1. Len(Packet(data)) = 3 + Len(F)
      BY <1>1, <1>8
    <2> QED
      BY <1>2, <1>6, <1>7, <2>1
  <1> QED
    BY <1>2, <1>9 DEF n, e

\* What app_main sends: the requests to read, and those to write.
LEMMA ReadRequest ==
  ASSUME NEW a1 \in {0, 4}, NEW a2 \in 0 .. 62
  PROVE  LET q == Request(SEQUENTIAL_READ, <<a1, a2>>, <<>>)
         IN q \in Seq(Literal) /\ q # <<>> /\ Len(Packet(q)) \in 12 .. 13 /\ q[1] = SEQUENTIAL_READ
PROOF
  <1> DEFINE x == 4 * a2
             q == <<SEQUENTIAL_READ, 0, 0, 4, 0, a1, x, 0>>
  <1>1. x \in Byte /\ x # BYTESIDLECHAR /\ x # BYTESESCCHAR
    BY DEF Byte, BYTESIDLECHAR, BYTESESCCHAR
  <1>2. Request(SEQUENTIAL_READ, <<a1, a2>>, <<>>) = q
    <2>1. Header(SEQUENTIAL_READ, <<a1, a2>>) = q
      BY DEF Header
    <2>2. q \in Seq(Nat)
      BY DEF SEQUENTIAL_READ
    <2> HIDE DEF q
    <2> QED
      BY <2>1, <2>2, ConcatEmptySeq DEF Request
  <1> HIDE DEF x
  <1>3. {SEQUENTIAL_READ, 0, 4} \subseteq Literal /\ x \in Literal /\ a1 \in Literal
    BY <1>1 DEF Literal, Byte, SEQUENTIAL_READ, BYTESIDLECHAR, BYTESESCCHAR
  <1>4. q \in Seq(Literal) /\ Len(q) = 8 /\ q[1] = SEQUENTIAL_READ /\ q[7] = x
    <2> DEFINE r == SEQUENTIAL_READ
    <2>1. r \in Literal /\ 0 \in Literal /\ 4 \in Literal
      BY <1>3
    <2> HIDE DEF r
    <2>2. <<r, 0, 0, 4, 0, a1, x, 0>> \in Seq(Literal)
      BY <2>1, <1>3
    <2>3. q \in Seq(Literal)
      BY <2>2 DEF r
    <2> QED
      BY <2>3
  <1>5. q # <<>>
    OBVIOUS
  <1>6. \A k \in 1 .. 8 : k # 7 => q[k] \notin {SOP, EOP, CHANNEL, ESC}
    BY DEF SEQUENTIAL_READ, SOP, EOP, CHANNEL, ESC
  <1> HIDE DEF q
  <1>7. q \in Seq(Byte) /\ 7 \in 1 .. Len(q)
    BY <1>4 DEF Literal
  <1>8. Len(Packet(q)) \in 12 .. 13
    <2> DEFINE e == Len(PacketByte(q[7]))
    <2>1. Len(Packet(q)) = Len(q) + 3 + e /\ e \in 1 .. 2
      <3>1. \A k \in 1 .. Len(q) : k # 7 => q[k] \notin {SOP, EOP, CHANNEL, ESC}
        BY <1>4, <1>6
      <3> QED
        BY <1>7, <3>1, PacketLen
    <2> HIDE DEF e
    <2> QED
      BY <1>4, <2>1
  <1> QED
    BY <1>2, <1>4, <1>5, <1>8

\* So does a write of the setup, and its packet has 16 bytes.
LEMMA WriteRequest ==
  ASSUME NEW a1 \in {0, 4}, NEW a2 \in 0 .. 2, NEW b \in 0 .. 17
  PROVE  LET q == Request(SEQUENTIAL_WRITE, <<a1, a2>>, Word(b))
         IN q \in Seq(Literal) /\ q # <<>> /\ Len(Packet(q)) = 16 /\ q[1] = SEQUENTIAL_WRITE
PROOF
  <1> DEFINE x == 4 * a2
             q == <<SEQUENTIAL_WRITE, 0, 0, 4, 0, a1, x, 0, b, 0, 0, 0>>
  <1>1. x \in 0 .. 8
    OBVIOUS
  <1>2. Request(SEQUENTIAL_WRITE, <<a1, a2>>, Word(b)) = q
    <2> DEFINE h == <<SEQUENTIAL_WRITE, 0, 0, 4, 0, a1, x, 0>>
               t == <<b, 0, 0, 0>>
               p == h \o t
    <2>1. h \in Seq(Nat) /\ t \in Seq(Nat) /\ Len(h) = 8 /\ Len(t) = 4 /\ q \in Seq(Nat) /\ Len(q) = 12
      BY DEF SEQUENTIAL_WRITE
    <2>2. Joined(Nat, p, h, 8, t, 4)
      <3> HIDE DEF h, t
      <3> QED
        BY <2>1, ConcatAt, Zenon
    <2>3. /\ h[1] = q[1] /\ h[2] = q[2] /\ h[3] = q[3] /\ h[4] = q[4]
          /\ h[5] = q[5] /\ h[6] = q[6] /\ h[7] = q[7] /\ h[8] = q[8]
      OBVIOUS
    <2>4. t[1] = q[9] /\ t[2] = q[10] /\ t[3] = q[11] /\ t[4] = q[12]
      OBVIOUS
    <2>5. Request(SEQUENTIAL_WRITE, <<a1, a2>>, Word(b)) = p
      BY DEF Request, Header, Word
    <2> HIDE DEF p, h, t, q
    <2>6. p \in Seq(Nat) /\ Len(p) = 12 /\ (\A i \in 1 .. 8 : p[i] = h[i]) /\ \A j \in 1 .. 4 : p[8 + j] = t[j]
      BY <2>2 DEF Joined
    <2>7. \A i \in 1 .. 12 : p[i] = q[i]
      <3>1. TAKE i \in 1 .. 12
      <3>2. CASE i \in 1 .. 8
        <4>1. h[i] = q[i]
          BY <2>3, <3>2
        <4> QED
          BY <2>6, <3>2, <4>1
      <3>3. CASE i \notin 1 .. 8
        <4> DEFINE j == i - 8
        <4>1. j \in 1 .. 4 /\ i = 8 + j
          BY <3>3
        <4> HIDE DEF j
        <4>2. t[j] = q[8 + j]
          BY <2>4, <4>1
        <4> QED
          BY <2>6, <4>1, <4>2
      <3> QED
        BY <3>2, <3>3
    <2>8. p = q
      BY <2>1, <2>6, <2>7, SeqEqual
    <2> QED
      BY <2>5, <2>8
  <1> HIDE DEF x
  <1>3. {SEQUENTIAL_WRITE, 0, 4} \subseteq Literal /\ x \in Literal /\ a1 \in Literal /\ b \in Literal
    BY <1>1 DEF Literal, Byte, SEQUENTIAL_WRITE, BYTESIDLECHAR, BYTESESCCHAR
  <1>4. q \in Seq(Literal) /\ Len(q) = 12 /\ q[1] = SEQUENTIAL_WRITE
    <2> DEFINE r == SEQUENTIAL_WRITE
    <2>1. r \in Literal /\ 0 \in Literal /\ 4 \in Literal
      BY <1>3
    <2> HIDE DEF r
    <2>2. <<r, 0, 0, 4, 0, a1, x, 0, b, 0, 0, 0>> \in Seq(Literal)
      BY <2>1, <1>3
    <2>3. q \in Seq(Literal)
      BY <2>2 DEF r
    <2> QED
      BY <2>3
  <1>5. q # <<>>
    OBVIOUS
  <1>6. \A k \in 1 .. 12 : q[k] \notin {SOP, EOP, CHANNEL, ESC}
    BY <1>1 DEF SEQUENTIAL_WRITE, SOP, EOP, CHANNEL, ESC
  <1> HIDE DEF q
  <1>7. q \in Seq(Byte) /\ 1 \in 1 .. Len(q)
    BY <1>4 DEF Literal
  <1>8. Len(Packet(q)) = 16
    <2> DEFINE e == Len(PacketByte(q[1]))
    <2>1. Len(Packet(q)) = Len(q) + 3 + e
      <3>1. \A k \in 1 .. Len(q) : q[k] \notin {SOP, EOP, CHANNEL, ESC}
        BY <1>4, <1>6
      <3> QED
        BY <1>7, <3>1, PacketLen
    <2>2. e = 1
      <3>1. q[1] \notin {SOP, EOP, CHANNEL, ESC}
        BY <1>6
      <3>2. PacketByte(q[1]) = <<q[1]>>
        BY <3>1 DEF PacketByte
      <3> QED
        BY <3>2
    <2> HIDE DEF e
    <2> QED
      BY <1>4, <2>1, <2>2
  <1> QED
    BY <1>2, <1>4, <1>5, <1>8

-----------------------------------------------------------------------------
(* The buffers of the library, and what is received into them.               *)

\* q is the part of s behind the first m elements, of n elements.
Part(S, q, s, m, n) == q \in Seq(S) /\ Len(q) = n /\ \A i \in 1 .. n : q[i] = s[m + i]

\* Where the elements of a subsequence are.
LEMMA SubSeqAt ==
  ASSUME NEW S, NEW s \in Seq(S), NEW m \in Nat, NEW h \in Nat, h <= Len(s)
  PROVE  m <= h => Part(S, SubSeq(s, m + 1, h), s, m, h - m)
PROOF
  <1> SUFFICES ASSUME m <= h
               PROVE  Part(S, SubSeq(s, m + 1, h), s, m, h - m)
    OBVIOUS
  <1> DEFINE q == SubSeq(s, m + 1, h)
  <1>1. \A i \in m + 1 .. h : s[i] \in S
    OBVIOUS
  <1>2. /\ q \in Seq(S) /\ Len(q) = (IF m + 1 <= h THEN h - (m + 1) + 1 ELSE 0)
        /\ \A i \in 1 .. h - (m + 1) + 1 : q[i] = s[m + 1 + i - 1]
    BY <1>1, SubSeqProperties
  <1> HIDE DEF q
  <1>3. Len(q) = h - m
    BY <1>2
  <1>4. ASSUME NEW i \in 1 .. h - m
        PROVE  q[i] = s[m + i]
    <2>1. i \in 1 .. h - (m + 1) + 1 /\ m + 1 + i - 1 = m + i
      OBVIOUS
    <2> QED
      BY <1>2, <2>1
  <1>5. Part(S, q, s, m, h - m)
    BY <1>2, <1>3, <1>4 DEF Part
  <1> QED
    BY <1>5 DEF q

\* The beginning of a concatenation, beyond its first part.
LEMMA SubSeqConcat ==
  ASSUME NEW S, NEW a \in Seq(S), NEW b \in Seq(S), NEW h \in Nat,
         Len(a) <= h, h <= Len(a) + Len(b)
  PROVE  SubSeq(a \o b, 1, h) = a \o SubSeq(b, 1, h - Len(a)) /\ SubSeq(b, 1, h - Len(a)) \in Seq(S)
PROOF
  <1> DEFINE c == a \o b
             n == Len(a)
             m == h - n
             d == SubSeq(b, 1, m)
             l == SubSeq(c, 1, h)
             r == a \o d
  <1>1. n \in Nat /\ m \in Nat /\ Len(b) \in Nat /\ m <= Len(b) /\ h = n + m
    OBVIOUS
  <1>2. Joined(S, c, a, n, b, Len(b))
    BY ConcatAt, Zenon
  <1> HIDE DEF c
  <1>3. c \in Seq(S) /\ Len(c) = n + Len(b)
    BY <1>2 DEF Joined
  <1>4. Part(S, d, b, 0, m)
    <2> HIDE DEF n, m
    <2>1. Part(S, SubSeq(b, 0 + 1, m), b, 0, m - 0)
      BY <1>1, SubSeqAt
    <2>2. 0 + 1 = 1 /\ m - 0 = m
      BY <1>1
    <2> QED
      BY <2>1, <2>2
  <1>5. Part(S, l, c, 0, h)
    <2> HIDE DEF n, m
    <2>1. Part(S, SubSeq(c, 0 + 1, h), c, 0, h - 0)
      BY <1>1, <1>3, SubSeqAt
    <2>2. 0 + 1 = 1 /\ h - 0 = h
      OBVIOUS
    <2> QED
      BY <2>1, <2>2
  <1> HIDE DEF d, l
  <1>6. d \in Seq(S) /\ Len(d) = m
    BY <1>4 DEF Part
  <1>7. Joined(S, r, a, n, d, m)
    <2> HIDE DEF m
    <2> QED
      BY <1>6, ConcatAt, Zenon
  <1> HIDE DEF r, n, m
  <1>8. ASSUME NEW i \in 1 .. h
        PROVE  l[i] = r[i]
    <2>1. l[i] = c[i]
      <3>1. l[i] = c[0 + i]
        BY <1>5 DEF Part
      <3> QED
        BY <3>1
    <2>2. CASE i <= n
      <3>1. i \in 1 .. n
        BY <1>1, <2>2
      <3>2. c[i] = a[i] /\ r[i] = a[i]
        BY <1>2, <1>7, <3>1 DEF Joined
      <3> QED
        BY <2>1, <3>2
    <2>3. CASE ~ (i <= n)
      <3> DEFINE j == i - n
      <3>1. j \in 1 .. m /\ j \in 1 .. Len(b) /\ i = n + j
        BY <1>1, <2>3
      <3> HIDE DEF j
      <3>2. c[n + j] = b[j] /\ r[n + j] = d[j]
        BY <1>2, <1>7, <3>1 DEF Joined
      <3>3. d[j] = b[0 + j]
        BY <1>4, <3>1 DEF Part
      <3>4. b[0 + j] = b[j]
        BY <3>1
      <3> QED
        BY <2>1, <3>1, <3>2, <3>3, <3>4
    <2> QED
      BY <2>2, <2>3
  <1>9. l \in Seq(S) /\ Len(l) = h /\ r \in Seq(S) /\ Len(r) = n + m
    BY <1>5, <1>7 DEF Part, Joined
  <1>10. l = r
    <2>1. \A i \in 1 .. Len(l) : l[i] = r[i]
      BY <1>8, <1>9
    <2>2. Len(l) = Len(r)
      BY <1>1, <1>9
    <2> QED
      BY <1>9, <2>1, <2>2, SeqEqual
  <1> QED
    BY <1>6, <1>10 DEF l, r, c, d, m, n

\* n idle bytes.
Idle(n) == [k \in 1 .. n |-> BYTESIDLECHAR]

\* Idle bytes are bytes.
LEMMA IdleType ==
  ASSUME NEW n \in Nat
  PROVE  Idle(n) \in Seq({BYTESIDLECHAR}) /\ Idle(n) \in Seq(Byte) /\ Len(Idle(n)) = n
PROOF
  <1>1. Idle(n) \in [1 .. n -> {BYTESIDLECHAR}] /\ BYTESIDLECHAR \in Byte
    BY DEF Idle, BYTESIDLECHAR, Byte
  <1>2. Idle(n) \in [1 .. n -> Byte]
    BY <1>1
  <1> QED
    BY <1>1, <1>2

\* The bytes of a buffer after a call.
LEMMA BufferedIs ==
  ASSUME NEW bytes \in Seq(Byte), NEW old \in ByteSeq(Longest), Len(bytes) <= Longest
  PROVE  LET r == SubSeq(old, Len(bytes) + 1, Len(old))
         IN /\ Buffered(bytes, old) = bytes \o r
            /\ Part(Byte, r, old, Len(bytes), Longest - Len(bytes))
            /\ Joined(Byte, Buffered(bytes, old), bytes, Len(bytes), r, Longest - Len(bytes))
            /\ Buffered(bytes, old) \in ByteSeq(Longest)
PROOF
  <1> DEFINE m == Len(bytes)
             r == SubSeq(old, m + 1, Len(old))
             t == bytes \o r
  <1>1. old \in Seq(Byte) /\ Len(old) = 32 /\ m \in Nat /\ m <= 32
    <2>1. old \in [1 .. 32 -> Byte]
      BY DEF ByteSeq, Longest
    <2>2. old \in Seq(Byte) /\ Len(old) = 32
      BY <2>1, WordSeq
    <2> QED
      BY <2>2 DEF Longest
  <1>2. Part(Byte, r, old, m, 32 - m)
    <2> HIDE DEF m
    <2>1. 32 \in Nat /\ 32 <= Len(old)
      BY <1>1
    <2>2. Part(Byte, SubSeq(old, m + 1, 32), old, m, 32 - m)
      BY <1>1, <2>1, SubSeqAt
    <2> QED
      BY <1>1, <2>2
  <1> HIDE DEF r
  <1>3. r \in Seq(Byte) /\ Len(r) = 32 - m
    BY <1>2 DEF Part
  <1>4. Joined(Byte, t, bytes, m, r, 32 - m)
    BY <1>3, ConcatAt, Zenon
  <1> HIDE DEF t, m
  <1>5. t \in Seq(Byte) /\ Len(t) = m + (32 - m)
    BY <1>4 DEF Joined
  <1>6. Len(t) = 32
    BY <1>1, <1>5
  <1>7. t \in [1 .. 32 -> Byte]
    <2>1. t \in [1 .. Len(t) -> Byte]
      BY <1>5
    <2> QED
      BY <1>6, <2>1
  <1>8. Buffered(bytes, old) = t
    BY DEF Buffered, t, r, m
  <1> QED
    BY <1>2, <1>4, <1>7, <1>8 DEF r, m, t, Longest, ByteSeq

\* What is left of older requests begins no packet and escapes nothing.
Quiet(b) == b \in ByteSeq(Longest) /\ \A k \in 2 .. Longest : b[k] \in Rest

\* A request that is sent as it is is the only one that the FPGA sees in
\* twice its length, and leaves remains that disturb the next as little.
LEMMA SentOne ==
  ASSUME NEW q \in Seq(Literal), q # <<>>, NEW p, p = Packet(q), Len(p) \in 12 .. 16,
         NEW old, Quiet(old)
  PROVE  /\ Core(p) = p
         /\ Quiet(Buffered(p, old))
         /\ Requests(SubSeq(Buffered(p, old), 1, 2 * Len(p))) = <<q>>
PROOF
  <1> DEFINE l == Len(p)
             r == SubSeq(old, l + 1, Len(old))
             t == Buffered(p, old)
             u == SubSeq(r, 1, l)
  <1>1. p \in Seq(Literal) /\ \A k \in 2 .. Len(p) : p[k] \in Safe
    BY PacketSafe
  <1>2. p \in Seq(Byte) /\ q \in Seq(Byte)
    BY <1>1 DEF Literal
  <1>3. Core(p) = p
    BY <1>1, CorePlain
  <1>4. old \in ByteSeq(Longest) /\ Longest = 32 /\ \A k \in 2 .. 32 : old[k] \in Rest
    BY DEF Quiet, Longest
  <1>5. l \in 12 .. 16 /\ l <= Longest /\ Len(p) = l
    <2> DEFINE z == l
    <2>1. z \in 12 .. 16 /\ Len(p) = z
      OBVIOUS
    <2> HIDE DEF z
    <2>2. z <= 32
      BY <2>1
    <2>3. z <= Longest
      BY <1>4, <2>2
    <2> QED
      BY <2>1, <2>3 DEF z
  <1>6. /\ t = p \o r /\ Part(Byte, r, old, l, 32 - l) /\ Joined(Byte, t, p, l, r, 32 - l)
        /\ t \in ByteSeq(Longest)
    BY <1>2, <1>4, <1>5, BufferedIs
  <1> HIDE DEF r, t, l
  <1>7. \A i \in 1 .. 32 - l : r[i] \in Rest
    <2>1. TAKE i \in 1 .. 32 - l
    <2>2. r[i] = old[l + i]
      BY <1>6 DEF Part
    <2>3. l + i \in 2 .. 32
      BY <1>5
    <2> QED
      BY <1>4, <2>2, <2>3
  <1>8. r \in Seq(Byte) /\ Len(r) = 32 - l
    BY <1>6 DEF Part
  <1>9. r \in Seq(Rest)
    <2>1. r \in [1 .. 32 - l -> Byte]
      <3>1. r \in [1 .. Len(r) -> Byte]
        BY <1>8
      <3> QED
        BY <1>8, <3>1
    <2>2. r \in [1 .. 32 - l -> Rest]
      BY <1>7, <2>1
    <2>3. 32 - l \in Nat
      BY <1>5
    <2> HIDE DEF l
    <2> QED
      BY <2>2, <2>3
  <1>10. Safe \subseteq Rest
    BY DEF Safe, Rest
  <1>11. Quiet(t)
    <2>1. ASSUME NEW k \in 2 .. 32
          PROVE  t[k] \in Rest
      <3>1. CASE k <= l
        <4>1. k \in 1 .. l /\ k \in 2 .. Len(p)
          <5>1. k \in 1 .. l /\ k \in 2 .. l
            BY <1>5, <3>1
          <5> QED
            BY <1>5, <5>1
        <4>2. t[k] = p[k]
          BY <1>6, <4>1 DEF Joined
        <4> QED
          BY <1>1, <1>10, <4>1, <4>2
      <3>2. CASE ~ (k <= l)
        <4> DEFINE j == k - l
        <4>1. j \in 1 .. 32 - l /\ k = l + j
          BY <1>5, <3>2
        <4> HIDE DEF j
        <4>2. t[l + j] = r[j]
          BY <1>6, <4>1 DEF Joined
        <4> QED
          BY <1>7, <4>1, <4>2
      <3> QED
        BY <3>1, <3>2
    <2> QED
      BY <1>4, <1>6, <2>1 DEF Quiet
  <1>12. SubSeq(t, 1, 2 * l) = p \o u /\ u \in Seq(Rest)
    <2> DEFINE h == 2 * l
    <2>1. h \in Nat /\ l <= h /\ h <= l + (32 - l) /\ h - l = l
      BY <1>5
    <2>2. SubSeq(p \o r, 1, h) = p \o SubSeq(r, 1, h - l)
      <3> HIDE DEF h
      <3>1. Len(p) <= h /\ h <= Len(p) + Len(r)
        BY <1>5, <1>8, <2>1
      <3>2. SubSeq(p \o r, 1, h) = p \o SubSeq(r, 1, h - Len(p))
        BY <1>2, <1>8, <2>1, <3>1, SubSeqConcat
      <3> QED
        BY <1>5, <3>2
    <2>3. u \in Seq(Rest)
      <3>1. \A i \in 1 .. l : r[i] \in Rest
        <4>1. \A i \in 1 .. l : i \in 1 .. 32 - l
          BY <1>5
        <4> QED
          BY <1>7, <4>1
      <3>2. 1 \in Int /\ l \in Int
        BY <1>5
      <3> HIDE DEF l
      <3> QED
        BY <3>1, <3>2, SubSeqProperties
    <2>4. SubSeq(r, 1, h - l) = u
      <3> DEFINE m == h - l
      <3>1. m = l
        BY <2>1
      <3> HIDE DEF m, l
      <3>2. SubSeq(r, 1, m) = u
        BY <3>1
      <3> QED
        BY <3>2 DEF m
    <2>5. SubSeq(t, 1, h) = p \o u
      <3> HIDE DEF h, u
      <3> QED
        BY <1>6, <2>2, <2>4
    <2> QED
      BY <2>3, <2>5
  <1> HIDE DEF u
  <1>13. Requests(p \o u) = <<q>>
    BY <1>1, <1>2, <1>12, OneRequestSeen
  <1>14. Requests(SubSeq(t, 1, 2 * l)) = <<q>>
    BY <1>12, <1>13
  <1> QED
    BY <1>3, <1>5, <1>11, <1>14 DEF t

\* What the FPGA sends in a transfer of n bytes.
LEMMA StreamIs ==
  ASSUME out \in Seq(Byte), Len(out) <= 32, NEW lag \in Lags, NEW l \in 12 .. 16,
         NEW a \in Seq(Byte), Len(a) <= 12
  PROVE  \E b \in Seq(Byte) :
           /\ Stream(lag, 2 * l, a) = b \o Idle(2 * l)
           /\ lag = Silent => b = out
           /\ Len(b) <= 2 * l + 32
           /\ out = <<>> /\ lag # Silent => \E s \in Seq({BYTESIDLECHAR}) : b = s \o a
PROOF
  <1>1. CASE lag = Silent
    <2>1. Stream(lag, 2 * l, a) = out \o Idle(2 * l)
      BY <1>1 DEF Stream, Idle
    <2>2. Len(out) <= 2 * l + 32
      <3>1. Len(out) \in Nat
        OBVIOUS
      <3> QED
        BY <3>1
    <2> QED
      BY <1>1, <2>1, <2>2
  <1>2. CASE lag # Silent
    <2> DEFINE lo == Len(out)
               la == Len(a)
               pause == (2 * l) \div 2 + lag - lo
               m == IF pause < 0 THEN 0 ELSE pause
               o == out \o Idle(m)
               b == o \o a
    <2>1. lag \in 0 .. 32
      BY <1>2, LagsAssumption
    <2>2. (2 * l) \div 2 = l
      OBVIOUS
    <2>3. lo \in 0 .. 32 /\ la \in 0 .. 12
      <3>1. lo \in Nat /\ la \in Nat /\ lo <= 32 /\ la <= 12
        OBVIOUS
      <3> HIDE DEF lo, la
      <3> QED
        BY <3>1
    <2>4. m \in Nat /\ lo + m <= l + 32
      <3> HIDE DEF lo
      <3>1. pause = l + lag - lo /\ lo \in 0 .. 32
        BY <2>2, <2>3
      <3> QED
        BY <2>1, <3>1
    <2>5. Stream(lag, 2 * l, a) = b \o Idle(2 * l)
      BY <1>2 DEF Stream, Idle
    <2> HIDE DEF pause, m
    <2>6. o \in Seq(Byte) /\ Len(o) = lo + m
      <3> DEFINE i == Idle(m)
      <3>1. i \in Seq(Byte) /\ Len(i) = m
        BY <2>4, IdleType
      <3> HIDE DEF i
      <3>2. Joined(Byte, out \o i, out, Len(out), i, m)
        BY <3>1, ConcatAt, Zenon
      <3>3. out \o i \in Seq(Byte) /\ Len(out \o i) = lo + m
        BY <3>2 DEF Joined
      <3> QED
        BY <3>3 DEF i
    <2> HIDE DEF o
    <2>7. b \in Seq(Byte) /\ Len(b) = lo + m + la
      <3>1. Joined(Byte, b, o, lo + m, a, la)
        BY <2>6, ConcatAt, Zenon
      <3> HIDE DEF b
      <3> QED
        BY <3>1 DEF Joined
    <2> HIDE DEF b
    <2>8. Len(b) <= 2 * l + 32
      <3>1. la \in 0 .. 12 /\ lo \in 0 .. 32
        <4> HIDE DEF la, lo
        <4> QED
          BY <2>3
      <3> HIDE DEF la, lo
      <3> DEFINE n == Len(b)
      <3>2. n = lo + m + la
        BY <2>7
      <3> HIDE DEF n
      <3>3. n <= 2 * l + 32
        BY <2>4, <3>1, <3>2
      <3> QED
        BY <3>3 DEF n
    <2>9. out = <<>> => \E s \in Seq({BYTESIDLECHAR}) : b = s \o a
      <3>1. Idle(m) \in Seq({BYTESIDLECHAR})
        BY <2>4, IdleType
      <3>2. out = <<>> => o = Idle(m)
        <4> DEFINE i == Idle(m)
        <4> HIDE DEF i
        <4>1. <<>> \o i = i
          BY <3>1, ConcatEmptySeq DEF i
        <4> QED
          BY <4>1 DEF o, i
      <3> QED
        BY <3>1, <3>2 DEF b
    <2> QED
      BY <1>2, <2>5, <2>7, <2>8, <2>9
  <1> QED
    BY <1>1, <1>2

\* The bytes b and behind them only idle ones, received up to the h-th into
\* a buffer: all of b if it is not longer, and then no matter what.
LEMMA ReceivedWhole ==
  ASSUME NEW b \in Seq(Byte), NEW l \in 12 .. 16, NEW old \in ByteSeq(Longest)
  PROVE  LET rx == SubSeq(b \o Idle(2 * l), 1, 2 * l)
         IN /\ rx \in Seq(Byte) /\ Len(rx) = 2 * l
            /\ Len(b) <= 2 * l => \E r \in Seq(Byte) : Buffered(rx, old) = b \o r
PROOF
  <1> DEFINE h == 2 * l
             i == Idle(h)
             s == b \o i
             rx == SubSeq(s, 1, h)
             m == Len(b)
  <1>1. h \in Nat /\ h <= 32
    OBVIOUS
  <1>2. m \in Nat
    OBVIOUS
  <1> HIDE DEF h, m
  <1>3. i \in Seq(Byte) /\ Len(i) = h
    BY <1>1, IdleType
  <1>4. Joined(Byte, s, b, m, i, h)
    <2> HIDE DEF i
    <2> QED
      BY <1>3, ConcatAt, Zenon DEF m
  <1> HIDE DEF i
  <1>5. s \in Seq(Byte) /\ Len(s) = m + h
    BY <1>4 DEF Joined
  <1>6. Part(Byte, rx, s, 0, h)
    <2> HIDE DEF s
    <2>1. h <= Len(s)
      BY <1>1, <1>2, <1>5
    <2>2. Part(Byte, SubSeq(s, 0 + 1, h), s, 0, h - 0)
      BY <1>1, <1>5, <2>1, SubSeqAt
    <2>3. 0 + 1 = 1 /\ h - 0 = h
      BY <1>1
    <2> QED
      BY <2>2, <2>3
  <1> HIDE DEF rx
  <1>7. rx \in Seq(Byte) /\ Len(rx) = h
    BY <1>6 DEF Part
  <1>8. ASSUME m <= h
        PROVE  \E r \in Seq(Byte) : Buffered(rx, old) = b \o r
    <2> DEFINE c == SubSeq(i, 1, h - m)
    <2>1. rx = b \o c /\ c \in Seq(Byte)
      <3>1. Len(b) <= h /\ h <= Len(b) + Len(i)
        <4>1. m <= h /\ h <= m + h
          BY <1>1, <1>2, <1>8
        <4> QED
          BY <1>3, <4>1 DEF m
      <3>2. SubSeq(b \o i, 1, h) = b \o SubSeq(i, 1, h - Len(b)) /\ SubSeq(i, 1, h - Len(b)) \in Seq(Byte)
        BY <1>1, <1>3, <3>1, SubSeqConcat
      <3> QED
        BY <3>2 DEF rx, m
    <2> HIDE DEF c
    <2> DEFINE d == SubSeq(old, Len(rx) + 1, Len(old))
    <2>2. Buffered(rx, old) = rx \o d /\ d \in Seq(Byte)
      <3>1. Len(rx) <= Longest
        BY <1>1, <1>7 DEF Longest
      <3>2. Buffered(rx, old) = rx \o d /\ Part(Byte, d, old, Len(rx), Longest - Len(rx))
        BY <1>7, <3>1, BufferedIs
      <3> HIDE DEF d
      <3> QED
        BY <3>2 DEF Part
    <2> HIDE DEF d
    <2>3. (b \o c) \o d = b \o (c \o d) /\ c \o d \in Seq(Byte)
      BY <2>1, <2>2, ConcatAssociative
    <2> QED
      BY <2>1, <2>2, <2>3
  <1> QED
    BY <1>7, <1>8 DEF rx, h, m, i

\* What is left of the bytes b after h of them were sent.
LEMMA LeftBehind ==
  ASSUME NEW b \in Seq(Byte), NEW l \in 12 .. 16, Len(b) <= 2 * l + 32
  PROVE  LET o == SubSeq(b \o Idle(2 * l), 2 * l + 1, Len(b))
         IN o \in Seq(Byte) /\ Len(o) <= 32
PROOF
  <1> DEFINE h == 2 * l
             s == b \o Idle(h)
             m == Len(b)
             o == SubSeq(s, h + 1, m)
  <1>1. h \in Nat /\ h <= 32 /\ m \in Nat /\ m <= h + 32
    OBVIOUS
  <1>2. Idle(h) \in Seq(Byte) /\ Len(Idle(h)) = h
    BY IdleType
  <1> HIDE DEF h
  <1>3. Joined(Byte, s, b, m, Idle(h), h)
    <2> DEFINE i == Idle(h)
    <2> HIDE DEF i
    <2> QED
      BY <1>2, ConcatAt, Zenon DEF i
  <1> HIDE DEF s, m
  <1>4. s \in Seq(Byte) /\ Len(s) = m + h
    BY <1>3 DEF Joined
  <1>5. CASE h <= m
    <2>1. m <= Len(s)
      BY <1>1, <1>4
    <2>2. Part(Byte, o, s, h, m - h)
      BY <1>1, <1>4, <1>5, <2>1, SubSeqAt
    <2> HIDE DEF o
    <2>3. o \in Seq(Byte) /\ Len(o) = m - h
      BY <2>2 DEF Part
    <2> DEFINE n == Len(o)
    <2>4. n = m - h
      BY <2>3
    <2> HIDE DEF n
    <2>5. n <= 32
      BY <1>1, <2>4
    <2> QED
      BY <2>3, <2>5 DEF o, n, s, m, h
  <1>6. CASE ~ (h <= m)
    <2>1. o = <<>>
      <3>1. h + 1 \in Int /\ m \in Int /\ m < h + 1
        BY <1>1, <1>6
      <3> QED
        BY <3>1, SubSeqEmpty
    <2>2. o \in Seq(Byte) /\ Len(o) <= 32
      <3> HIDE DEF o
      <3>1. <<>> \in Seq(Byte) /\ Len(<<>>) <= 32
        OBVIOUS
      <3> QED
        BY <2>1, <3>1
    <2> QED
      BY <2>2 DEF o, s, m, h
  <1> QED
    BY <1>5, <1>6

\* One call of do_transaction, with a request that is sent as it is.
LEMMA Transfer ==
  ASSUME NEW type, NEW addr, NEW data, NEW w \in ByteSeq(4), NEW q, q = Request(type, addr, data),
         q \in Seq(Literal), q # <<>>, Len(Packet(q)) \in 12 .. 16,
         Quiet(send_byte_buffer), out \in Seq(Byte), Len(out) <= 32,
         response_byte_buffer \in ByteSeq(Longest), response_buffer \in ByteSeq(4),
         Transact(type, addr, data, Answer(w))
  PROVE  /\ Quiet(send_byte_buffer') /\ out' \in Seq(Byte) /\ Len(out') <= 32
         /\ response_byte_buffer' \in ByteSeq(Longest) /\ response_buffer' \in ByteSeq(4)
         /\ call' = q /\ seen' = <<q>>
         /\ whole' \in BOOLEAN /\ (whole' => response_buffer' = w)
         /\ mem' = mem \/ (type = SEQUENTIAL_WRITE /\ mem' = [mem EXCEPT ![addr] = data])
PROOF
  <1> DEFINE p == Packet(q)
             l == Len(p)
             a == Answer(w)
  <1>1. /\ Core(p) = p /\ Quiet(Buffered(p, send_byte_buffer))
        /\ Requests(SubSeq(Buffered(p, send_byte_buffer), 1, 2 * l)) = <<q>>
    BY SentOne
  <1>2. PICK lag \in Lags :
          LET stream == Stream(lag, 2 * l, a)
              sent   == IF lag = Silent THEN Len(out) ELSE Len(stream) - 2 * l
          IN /\ send_byte_buffer' = Buffered(p, send_byte_buffer)
             /\ response_byte_buffer' = Buffered(SubSeq(stream, 1, 2 * l), response_byte_buffer)
             /\ response_buffer' = Response(response_byte_buffer', response_buffer)
             /\ out' = SubSeq(stream, 2 * l + 1, sent)
             /\ whole' = (out = <<>> /\ lag # Silent /\ sent <= 2 * l)
             /\ call' = q
             /\ seen' = Requests(SubSeq(Buffered(p, send_byte_buffer), 1, 2 * l))
             /\ mem' = IF lag # Silent /\ type = SEQUENTIAL_WRITE THEN [mem EXCEPT ![addr] = data] ELSE mem
    BY <1>1 DEF Transact
  <1>3. w \in [1 .. 4 -> Byte] /\ a \in Seq(Byte) /\ Len(a) <= 12
    <2>1. w \in [1 .. 4 -> Byte]
      BY DEF ByteSeq
    <2>2. a \in Seq(Byte) /\ Len(a) \in 0 .. 12
      BY <2>1, AnswerLen
    <2>3. Len(a) <= 12
      <3> DEFINE n == Len(a)
      <3>1. n \in 0 .. 12
        BY <2>2
      <3> HIDE DEF n
      <3>2. n <= 12
        BY <3>1
      <3> QED
        BY <3>2 DEF n
    <2> QED
      BY <2>1, <2>2, <2>3
  <1>4. l \in 12 .. 16
    OBVIOUS
  <1> HIDE DEF p, l, a
  <1>5. PICK b \in Seq(Byte) :
           /\ Stream(lag, 2 * l, a) = b \o Idle(2 * l)
           /\ lag = Silent => b = out
           /\ Len(b) <= 2 * l + 32
           /\ out = <<>> /\ lag # Silent => \E s \in Seq({BYTESIDLECHAR}) : b = s \o a
    BY <1>3, <1>4, StreamIs
  <1> DEFINE st == b \o Idle(2 * l)
             sent == IF lag = Silent THEN Len(out) ELSE Len(st) - 2 * l
             rx == SubSeq(st, 1, 2 * l)
  <1>6. sent = Len(b)
    <2>1. CASE lag = Silent
      BY <1>5, <2>1
    <2>2. CASE lag # Silent
      <3> DEFINE i == Idle(2 * l)
                 n == 2 * l
                 m == Len(b)
      <3>1. n \in Nat /\ m \in Nat
        BY <1>4
      <3>2. i \in Seq(Byte) /\ Len(i) = n
        BY <3>1, IdleType
      <3> HIDE DEF i, n, m
      <3>3. Joined(Byte, b \o i, b, m, i, n)
        BY <3>2, ConcatAt, Zenon DEF m
      <3>4. Len(b \o i) = m + n
        BY <3>3 DEF Joined
      <3>5. (m + n) - n = m
        BY <3>1
      <3>6. Len(b \o i) - n = m
        BY <3>4, <3>5
      <3> QED
        BY <2>2, <3>6 DEF i, m, n
    <2> QED
      BY <2>1, <2>2
  <1>7. /\ rx \in Seq(Byte) /\ Len(rx) = 2 * l
        /\ Len(b) <= 2 * l => \E r \in Seq(Byte) : Buffered(rx, response_byte_buffer) = b \o r
    BY <1>4, ReceivedWhole
  <1>8. Stream(lag, 2 * l, a) = st
    BY <1>5
  <1> HIDE DEF st
  <1>9. /\ send_byte_buffer' = Buffered(p, send_byte_buffer)
        /\ response_byte_buffer' = Buffered(rx, response_byte_buffer)
        /\ response_buffer' = Response(response_byte_buffer', response_buffer)
        /\ out' = SubSeq(st, 2 * l + 1, Len(b))
        /\ whole' = (out = <<>> /\ lag # Silent /\ Len(b) <= 2 * l)
        /\ call' = q
        /\ seen' = <<q>>
        /\ mem' = IF lag # Silent /\ type = SEQUENTIAL_WRITE THEN [mem EXCEPT ![addr] = data] ELSE mem
    <2> HIDE DEF rx, sent
    <2>1. /\ send_byte_buffer' = Buffered(p, send_byte_buffer)
          /\ response_byte_buffer' = Buffered(rx, response_byte_buffer)
          /\ response_buffer' = Response(response_byte_buffer', response_buffer)
          /\ out' = SubSeq(st, 2 * l + 1, sent)
          /\ whole' = (out = <<>> /\ lag # Silent /\ sent <= 2 * l)
          /\ call' = q
          /\ seen' = Requests(SubSeq(Buffered(p, send_byte_buffer), 1, 2 * l))
          /\ mem' = IF lag # Silent /\ type = SEQUENTIAL_WRITE THEN [mem EXCEPT ![addr] = data] ELSE mem
      BY <1>2, <1>8, Zenon DEF rx, sent
    <2> QED
      BY <1>1, <1>6, <2>1 DEF p, l
  <1>10. out' \in Seq(Byte) /\ Len(out') <= 32
    BY <1>4, <1>5, <1>9, LeftBehind DEF st
  <1> HIDE DEF rx
  <1>11. response_byte_buffer' \in ByteSeq(Longest)
    <2>1. Len(rx) <= Longest
      <3>1. 2 * l <= 32
        BY <1>4
      <3> QED
        BY <1>7, <3>1 DEF Longest
    <2> QED
      BY <1>7, <1>9, <2>1, BufferedIs
  <1> PICK rb : rb = response_byte_buffer'
    OBVIOUS
  <1>12. response_buffer' \in ByteSeq(4)
    <2>1. rb \in Seq(Byte)
      <3>1. rb \in [1 .. 32 -> Byte]
        BY <1>11 DEF ByteSeq, Longest
      <3> QED
        BY <3>1, WordSeq
    <2>2. response_buffer \in [1 .. 4 -> Byte]
      BY DEF ByteSeq
    <2>3. Response(rb, response_buffer) \in [1 .. 4 -> Byte]
      BY <2>1, <2>2, ResponseType
    <2> QED
      BY <1>9, <2>3 DEF ByteSeq
  <1>13. ASSUME whole'
         PROVE  response_buffer' = w
    <2>1. out = <<>> /\ lag # Silent /\ Len(b) <= 2 * l
      BY <1>9, <1>13
    <2>2. PICK s \in Seq({BYTESIDLECHAR}) : b = s \o a
      BY <1>5, <2>1
    <2>3. PICK r \in Seq(Byte) : Buffered(rx, response_byte_buffer) = b \o r
      BY <1>7, <2>1
    <2>4. rb = (s \o a) \o r
      BY <1>9, <2>2, <2>3
    <2>5. Response((s \o Answer(w)) \o r, response_buffer) = w
      BY <1>3, ResponseDecoded, ZenonT(30)
    <2>6. Response(rb, response_buffer) = w
      BY <2>4, <2>5 DEF a
    <2> QED
      BY <1>9, <2>6
  <1>14. whole' \in BOOLEAN
    BY <1>9
  <1>15. Quiet(send_byte_buffer')
    BY <1>1, <1>9, Zenon
  <1>16. mem' = mem \/ (type = SEQUENTIAL_WRITE /\ mem' = [mem EXCEPT ![addr] = data])
    BY <1>9, Zenon
  <1>17. call' = q /\ seen' = <<q>>
    BY <1>9, Zenon
  <1> QED
    BY <1>10, <1>11, <1>12, <1>13, <1>14, <1>15, <1>16, <1>17, Zenon

-----------------------------------------------------------------------------
(* What fpga_read does with a word that is decoded already.                  *)

\* What fpga_read looks through, and where it is in it.
Memory    == [0 .. 44 -> Byte]
ScanState == [d : Memory, at : Nat, to : Nat, in : BOOLEAN]

\* A byte written over those that were read, wherever.
LEMMA ScanPutType ==
  ASSUME NEW s \in ScanState, NEW b \in Byte
  PROVE  /\ ScanPut(s, b) \in ScanState /\ ScanPut(s, b).at = s.at
         /\ ScanPut(s, b).d = [s.d EXCEPT ![s.to] = b]
         /\ ScanPut(s, b).to = s.to + 1 /\ ScanPut(s, b).in = s.in
PROOF
  <1>1. s.d \in Memory /\ s.at \in Nat /\ s.to \in Nat /\ s.in \in BOOLEAN
    BY DEF ScanState
  <1>2. [s.d EXCEPT ![s.to] = b] \in Memory
    BY <1>1 DEF Memory
  <1> DEFINE e == [s.d EXCEPT ![s.to] = b]
  <1>3. ScanPut(s, b) = [d |-> e, at |-> s.at, to |-> s.to + 1, in |-> s.in]
    <2>1. PICK d, a, t, i : s = [d |-> d, at |-> a, to |-> t, in |-> i]
      BY DEF ScanState
    <2>2. s.d = d /\ s.at = a /\ s.to = t /\ s.in = i
      BY <2>1
    <2> DEFINE z == [d |-> d, at |-> a, to |-> t, in |-> i]
               y == t + 1
    <2>3. ScanPut(s, b) = [z EXCEPT !.d[t] = b, !.to = y]
      BY <2>1, <2>2 DEF ScanPut
    <2> HIDE DEF y
    <2> DEFINE x == [d EXCEPT ![t] = b]
    <2>4. [z EXCEPT !.d[t] = b, !.to = y] = [d |-> x, at |-> a, to |-> y, in |-> i]
      <3>1. z.d = d
        OBVIOUS
      <3>2. [z EXCEPT !.d = x] = [d |-> x, at |-> a, to |-> t, in |-> i]
        <4> HIDE DEF x
        <4> QED
          OBVIOUS
      <3>3. [[d |-> x, at |-> a, to |-> t, in |-> i] EXCEPT !.to = y] = [d |-> x, at |-> a, to |-> y, in |-> i]
        <4> HIDE DEF x
        <4> QED
          OBVIOUS
      <3> HIDE DEF z
      <3>4. [z EXCEPT !.d[t] = b, !.to = y] = [[z EXCEPT !.d = [z.d EXCEPT ![t] = b]] EXCEPT !.to = y]
        OBVIOUS
      <3> QED
        BY <3>1, <3>2, <3>3, <3>4
    <2> QED
      BY <2>2, <2>3, <2>4 DEF y
  <1> HIDE DEF e
  <1>4. e \in Memory
    BY <1>2 DEF e
  <1>5. ScanPut(s, b).d = e /\ ScanPut(s, b).to = s.to + 1 /\ ScanPut(s, b).in = s.in
    BY <1>3
  <1>6. ScanPut(s, b) \in ScanState /\ ScanPut(s, b).at = s.at
    BY <1>1, <1>3, <1>4 DEF ScanState
  <1> QED
    BY <1>5, <1>6 DEF e

\* Changes of the place alone.
LEMMA ScanAtType ==
  ASSUME NEW s \in ScanState, NEW a \in Nat, NEW i \in BOOLEAN
  PROVE  /\ [s EXCEPT !.at = a] \in ScanState
         /\ [s EXCEPT !.at = a].at = a /\ [s EXCEPT !.at = a].d = s.d /\ [s EXCEPT !.at = a].in = s.in
         /\ [s EXCEPT !.at = a, !.in = i] \in ScanState
         /\ [s EXCEPT !.at = a, !.in = i].at = a /\ [s EXCEPT !.at = a, !.in = i].d = s.d
BY DEF ScanState

\* They leave the rest as it is.
LEMMA ScanAtRest ==
  ASSUME NEW s \in ScanState, NEW a \in Nat, NEW i \in BOOLEAN
  PROVE  /\ [s EXCEPT !.at = a].to = s.to
         /\ [s EXCEPT !.at = a, !.in = i].in = i /\ [s EXCEPT !.at = a, !.in = i].to = s.to
BY DEF ScanState

\* Up to the 44th what is looked at is a byte.
LEMMA ScanByte ==
  ASSUME NEW s \in ScanState, NEW a \in Nat, a <= 44
  PROVE  s.d[a] \in Byte
PROOF
  <1>1. s.d \in Memory /\ a \in 0 .. 44
    BY DEF ScanState
  <1> QED
    BY <1>1 DEF Memory

\* The beginning of a packet is at most two bytes further.
LEMMA ScanStartType ==
  ASSUME NEW s \in ScanState, s.at < 40
  PROVE  ScanStart(s) \in ScanState /\ ScanStart(s).at <= 42
PROOF
  <1>1. s.at \in Nat
    BY DEF ScanState
  <1> DEFINE a == s.at
  <1>2. a + 2 \in Nat /\ a + 3 \in Nat /\ a + 2 <= 42 /\ a + 3 <= 42 /\ a <= 42
    BY <1>1
  <1> DEFINE t == [s EXCEPT !.at = a + 2]
             u == [s EXCEPT !.at = a + 3, !.in = TRUE]
  <1>3. t \in ScanState /\ t.at = a + 2
    <2> HIDE DEF a
    <2> QED
      BY <1>2, ScanAtType
  <1>4. u \in ScanState /\ u.at = a + 3
    <2> HIDE DEF a
    <2> QED
      BY <1>2, ScanAtType
  <1>5. ScanStart(s) \in {s, t, u}
    <2> DEFINE c == s.d[s.at] # CHANNEL
               e == s.d[s.at + 2] # SOP
    <2>1. ScanStart(s) = IF c THEN s ELSE IF e THEN t ELSE u
      BY DEF ScanStart
    <2> HIDE DEF c, e, t, u
    <2> QED
      BY <2>1
  <1> HIDE DEF t, u
  <1> QED
    BY <1>2, <1>3, <1>4, <1>5

\* Its end is at most two bytes further again, still within the memory.
LEMMA ScanEndType ==
  ASSUME NEW s \in ScanState, s.at <= 42
  PROVE  ScanEnd(s) \in ScanState /\ ScanEnd(s).at <= 44
PROOF
  <1>1. s.at \in Nat
    BY DEF ScanState
  <1> DEFINE a == s.at
             t == [s EXCEPT !.at = a + 2, !.in = FALSE]
             b == s.d[a + 1]
             p == ScanPut(t, b)
  <1>2. a + 2 \in Nat /\ a + 2 <= 44 /\ a <= 44 /\ a + 1 \in Nat /\ a + 1 <= 44
    BY <1>1
  <1>3. t \in ScanState /\ t.at = a + 2
    <2> HIDE DEF a
    <2> QED
      BY <1>2, ScanAtType
  <1>4. b \in Byte
    BY <1>2, ScanByte
  <1>5. ScanEnd(s) = IF s.d[a] # EOP THEN s ELSE p
    BY DEF ScanEnd
  <1> HIDE DEF t, b
  <1>6. p \in ScanState /\ p.at = a + 2
    BY <1>3, <1>4, ScanPutType
  <1> HIDE DEF p
  <1>7. ScanEnd(s) = s \/ ScanEnd(s) = p
    BY <1>5
  <1> QED
    BY <1>2, <1>6, <1>7

\* Copying stays in memory.
LEMMA ScanCopyType ==
  ASSUME NEW s \in ScanState, s.at <= 42
  PROVE  ScanCopy(s) \in ScanState
PROOF
  <1> DEFINE l == ScanEnd(s)
             b == l.d[l.at]
             p == ScanPut(l, b)
  <1>1. l \in ScanState /\ l.at <= 44
    BY ScanEndType
  <1>2. ScanCopy(s) = IF ~s.in THEN s ELSE p
    BY DEF ScanCopy
  <1> HIDE DEF l
  <1>3. l.at \in Nat
    BY <1>1 DEF ScanState
  <1>4. b \in Byte
    BY <1>1, <1>3, ScanByte
  <1> HIDE DEF b
  <1>5. p \in ScanState
    BY <1>1, <1>4, ScanPutType
  <1> QED
    BY <1>2, <1>5

\* So does a round.
LEMMA ReparseRoundType ==
  ASSUME NEW s \in ScanState, NEW k
  PROVE  ReparseRound(s, k) \in ScanState
PROOF
  <1> DEFINE t == ScanStart(s)
             c == IF s.d[s.at] = BYTESIDLECHAR THEN s ELSE ScanCopy(t)
             e == [c EXCEPT !.at = c.at + 1]
  <1>1. s.at \in Nat
    BY DEF ScanState
  <1>2. ReparseRound(s, k) = IF s.at >= 40 THEN s ELSE e
    BY DEF ReparseRound, SCAN
  <1>3. CASE s.at >= 40
    BY <1>2, <1>3
  <1>4. CASE s.at < 40
    <2>1. t \in ScanState /\ t.at <= 42
      BY <1>4, ScanStartType
    <2> HIDE DEF t
    <2>2. c \in ScanState
      BY <2>1, ScanCopyType
    <2> HIDE DEF c
    <2>3. c.at + 1 \in Nat
      BY <2>2 DEF ScanState
    <2>4. e \in ScanState
      BY <2>2, <2>3, ScanAtType
    <2>5. ~ (s.at >= 40)
      BY <1>1, <1>4
    <2> QED
      BY <1>2, <2>4, <2>5
  <1> QED
    BY <1>1, <1>3, <1>4

\* Nothing is changed while no packet begins; behind a channel in the first
\* byte the second one is passed.
Still(m) == {s \in ScanState : s.d = m /\ s.in = FALSE /\ (m[0] = CHANNEL => s.at # 1)}

\* No packet begins where the scan looks for one.
NoHead(m) == \A j \in 0 .. 39 : (m[0] = CHANNEL /\ j = 1) \/ ~ (m[j] = CHANNEL /\ m[j + 2] = SOP)

\* A round changes nothing where no packet begins.
LEMMA ReparseRoundStill ==
  ASSUME NEW m \in Memory, NoHead(m), NEW s \in Still(m), NEW k
  PROVE  ReparseRound(s, k) \in Still(m)
PROOF
  <1>1. s \in ScanState /\ s.d = m /\ s.in = FALSE /\ s.at \in Nat /\ (m[0] = CHANNEL => s.at # 1)
    BY DEF Still, ScanState
  <1> DEFINE t == ScanStart(s)
             c == IF s.d[s.at] = BYTESIDLECHAR THEN s ELSE ScanCopy(t)
             e == [c EXCEPT !.at = c.at + 1]
  <1>2. ReparseRound(s, k) = IF s.at >= 40 THEN s ELSE e
    BY DEF ReparseRound, SCAN
  <1>3. CASE s.at >= 40
    BY <1>2, <1>3
  <1>4. CASE s.at < 40
    <2>1. s.at \in 0 .. 39 /\ s.at + 2 \in Nat
      BY <1>1, <1>4
    <2>2. /\ t \in ScanState /\ t.d = m /\ t.in = FALSE
          /\ t.at \in {s.at, s.at + 2} /\ (m[s.at] = CHANNEL => t.at = s.at + 2)
      <3> DEFINE u == [s EXCEPT !.at = s.at + 2]
                 v == [s EXCEPT !.at = s.at + 3, !.in = TRUE]
      <3>1. ~ (s.d[s.at] = CHANNEL /\ s.d[s.at + 2] = SOP)
        BY <1>1, <2>1 DEF NoHead
      <3>2. t = IF s.d[s.at] # CHANNEL THEN s ELSE IF s.d[s.at + 2] # SOP THEN u ELSE v
        BY DEF ScanStart
      <3>3. u \in ScanState /\ u.d = s.d /\ u.in = s.in /\ u.at = s.at + 2
        BY <1>1, <2>1, ScanAtType
      <3> HIDE DEF t, u, v
      <3>4. CASE s.d[s.at] = CHANNEL
        <4>1. t = u
          BY <3>1, <3>2, <3>4
        <4> QED
          BY <1>1, <3>3, <4>1
      <3>5. CASE s.d[s.at] # CHANNEL
        <4>1. t = s
          BY <3>2, <3>5
        <4> QED
          BY <1>1, <3>5, <4>1
      <3> QED
        BY <3>4, <3>5
    <2> HIDE DEF t
    <2>3. ScanCopy(t) = t
      BY <2>2 DEF ScanCopy
    <2>4. /\ c \in ScanState /\ c.d = m /\ c.in = FALSE /\ c.at \in {s.at, s.at + 2}
          /\ m[s.at] = CHANNEL => c.at = s.at + 2
      <3>1. CHANNEL # BYTESIDLECHAR
        BY DEF CHANNEL, BYTESIDLECHAR
      <3>2. CASE s.d[s.at] = BYTESIDLECHAR
        BY <1>1, <3>1, <3>2
      <3>3. CASE s.d[s.at] # BYTESIDLECHAR
        BY <2>2, <2>3, <3>3
      <3> QED
        BY <3>2, <3>3
    <2> HIDE DEF c
    <2>5. c.at + 1 \in Nat
      BY <2>1, <2>4
    <2>6. e \in ScanState /\ e.d = c.d /\ e.in = c.in /\ e.at = c.at + 1
      BY <2>4, <2>5, ScanAtType
    <2>7. ~ (s.at >= 40)
      BY <1>1, <1>4
    <2>8. m[0] = CHANNEL => c.at + 1 # 1
      <3>1. CASE s.at = 0
        BY <2>4, <3>1
      <3>2. CASE s.at # 0
        BY <2>1, <2>4, <3>2
      <3> QED
        BY <3>1, <3>2
    <2> HIDE DEF e
    <2>9. e \in Still(m)
      BY <2>4, <2>6, <2>8 DEF Still
    <2> QED
      BY <1>2, <2>7, <2>9
  <1> QED
    BY <1>1, <1>3, <1>4

\* The rounds of the scan as steps.
ReparseStep == [p \in ScanState \X (1 .. 40) |-> ReparseRound(p[1], p[2])]

\* Where the scan of the bytes m begins.
ScanBegin(m) == [d |-> m, at |-> 0, to |-> 0, in |-> FALSE]

\* The word and the garbage behind it, as fpga_read indexes them.
Behind(w, g) == [k \in 0 .. 44 |-> (w \o g)[k + 1]]

\* The word comes first, then the garbage.
LEMMA BehindType ==
  ASSUME NEW w \in ByteSeq(4), NEW g \in ByteSeq(Unread)
  PROVE  /\ Behind(w, g) \in Memory
         /\ Len(w \o g) = 45
         /\ \A k \in 1 .. 4 : Behind(w, g)[k - 1] = w[k] /\ w[k] \in Byte
         /\ \A j \in 1 .. 41 : Behind(w, g)[j + 3] = g[j]
         /\ Behind(w, g)[4] = g[1]
PROOF
  <1> DEFINE p == w \o g
  <1>1. w \in Seq(Byte) /\ Len(w) = 4 /\ \A k \in 1 .. 4 : w[k] \in Byte
    BY WordSeq DEF ByteSeq
  <1>2. g \in Seq(Byte) /\ Len(g) = 41
    <2>1. g \in [1 .. 41 -> Byte]
      BY DEF ByteSeq, Unread, SCAN
    <2> QED
      BY <2>1, WordSeq
  <1>3. Joined(Byte, p, w, 4, g, 41)
    BY <1>1, <1>2, ConcatAt, Zenon
  <1> HIDE DEF p
  <1>4. p \in Seq(Byte) /\ Len(p) = 45 /\ (\A i \in 1 .. 4 : p[i] = w[i]) /\ \A j \in 1 .. 41 : p[4 + j] = g[j]
    BY <1>3 DEF Joined
  <1>5. \A k \in 0 .. 44 : p[k + 1] \in Byte
    <2>1. \A k \in 1 .. Len(p) : p[k] \in Byte
      <3>1. p \in Seq(Byte)
        BY <1>4
      <3> QED
        BY <3>1, ElementOfSeq
    <2>2. \A k \in 0 .. 44 : k + 1 \in 1 .. 45
      OBVIOUS
    <2> QED
      BY <1>4, <2>1, <2>2
  <1>6. Behind(w, g) = [k \in 0 .. 44 |-> p[k + 1]]
    BY DEF Behind, p
  <1>7. Behind(w, g) \in Memory
    BY <1>5, <1>6 DEF Memory
  <1>8. ASSUME NEW k \in 1 .. 4
        PROVE  Behind(w, g)[k - 1] = w[k]
    <2>1. k - 1 \in 0 .. 44 /\ (k - 1) + 1 = k
      OBVIOUS
    <2>2. p[k] = w[k]
      BY <1>4
    <2> QED
      BY <1>6, <2>1, <2>2
  <1>9. ASSUME NEW j \in 1 .. 41
        PROVE  Behind(w, g)[j + 3] = g[j]
    <2>1. j + 3 \in 0 .. 44 /\ (j + 3) + 1 = 4 + j
      OBVIOUS
    <2>2. p[4 + j] = g[j]
      BY <1>4
    <2> QED
      BY <1>6, <2>1, <2>2
  <1>10. Behind(w, g)[4] = g[1]
    <2>1. 1 \in 1 .. 41 /\ 1 + 3 = 4
      OBVIOUS
    <2>2. Behind(w, g)[1 + 3] = g[1]
      BY <1>9, <2>1
    <2> QED
      BY <2>1, <2>2
  <1> QED
    BY <1>1, <1>4, <1>7, <1>8, <1>9, <1>10 DEF p

\* The word, byte by byte.
LEMMA WordBehind ==
  ASSUME NEW w \in ByteSeq(4), NEW g \in ByteSeq(Unread)
  PROVE  LET m == Behind(w, g) IN m[0] = w[1] /\ m[1] = w[2] /\ m[2] = w[3] /\ m[3] = w[4]
PROOF
  <1> DEFINE m == Behind(w, g)
  <1>1. \A k \in 1 .. 4 : m[k - 1] = w[k]
    BY BehindType
  <1> HIDE DEF m
  <1>2. m[1 - 1] = w[1] /\ m[2 - 1] = w[2] /\ m[3 - 1] = w[3] /\ m[4 - 1] = w[4]
    BY <1>1
  <1>3. m[0] = w[1] /\ m[1] = w[2] /\ m[2] = w[3] /\ m[3] = w[4]
    BY <1>2
  <1> QED
    BY <1>3 DEF m

\* The rounds of the scan lead to what it leaves.
LEMMA ReparsedLeads ==
  ASSUME NEW w \in ByteSeq(4), NEW g \in ByteSeq(Unread)
  PROVE  \E s \in Seq(1 .. 40), tt \in ScanState :
           /\ Len(s) = 40
           /\ Leads(ReparseStep, ScanBegin(Behind(w, g)), s, tt) /\ Reparsed(w, g) = tt.d
PROOF
  <1> DEFINE s == [k \in 1 .. 40 |-> k]
             st == ScanBegin(Behind(w, g))
             eq(f) == f = [k \in 0 .. 40 |-> IF k = 0 THEN st ELSE ReparseRound(f[k - 1], s[k])]
             F == CHOOSE f : eq(f)
  <1>1. s \in Seq(1 .. 40) /\ Len(s) = 40 /\ \A k \in 1 .. 40 : s[k] = k
    OBVIOUS
  <1>2. Reparsed(w, g) = F[40].d
    <2> DEFINE all == w \o g
               s1 == [k \in 1 .. SCAN |-> k]
               st1 == [d |-> [k \in 0 .. Len(all) - 1 |-> all[k + 1]], at |-> 0, to |-> 0, in |-> FALSE]
               F1 == CHOOSE f : f = [k \in 0 .. Len(s1) |-> IF k = 0 THEN st1 ELSE ReparseRound(f[k - 1], s1[k])]
    <2>1. Reparsed(w, g) = F1[Len(s1)].d
      BY DEF Reparsed, Parse
    <2>2. s1 = s
      BY DEF SCAN
    <2>3. st1 = st
      <3>1. Len(all) - 1 = 44
        BY BehindType
      <3>2. [k \in 0 .. Len(all) - 1 |-> all[k + 1]] = Behind(w, g)
        BY <3>1 DEF Behind
      <3> QED
        BY <3>2 DEF ScanBegin
    <2> HIDE DEF s1, s, st, st1
    <2>4. F1 = CHOOSE f : f = [k \in 0 .. Len(s) |-> IF k = 0 THEN st ELSE ReparseRound(f[k - 1], s[k])]
      BY <2>2, <2>3
    <2>5. F1 = F
      BY <1>1, <2>4
    <2> HIDE DEF F1, F
    <2> QED
      BY <1>1, <2>1, <2>2, <2>5
  <1>3. ReparseStep \in [ScanState \X (1 .. 40) -> ScanState]
    BY ReparseRoundType DEF ReparseStep
  <1>4. st \in ScanState
    BY BehindType DEF ScanBegin, ScanState
  <1> HIDE DEF st
  <1>5. PICK h \in [0 .. 40 -> ScanState] : Trace(ReparseStep, st, s, h)
    <2> HIDE DEF F, eq, s
    <2>1. \E h \in [0 .. Len(s) -> ScanState] : Trace(ReparseStep, st, s, h)
      BY <1>1, <1>3, <1>4, TraceExists
    <2> QED
      BY <1>1, <2>1
  <1> HIDE DEF s
  <1>6. \A x \in ScanState : \A k \in 1 .. 40 : ReparseStep[<<x, k>>] = ReparseRound(x, k)
    BY DEF ReparseStep
  <1>7. h[0] = st /\ \A k \in 1 .. 40 : h[k] = ReparseRound(h[k - 1], k)
    <2>1. h[0] = st /\ \A k \in 1 .. 40 : h[k] = ReparseStep[<<h[k - 1], k>>]
      BY <1>1, <1>5 DEF Trace
    <2>2. \A k \in 1 .. 40 : h[k - 1] \in ScanState
      OBVIOUS
    <2> QED
      BY <1>6, <2>1, <2>2
  <1>8. eq(h)
    BY <1>1, <1>7
  <1>9. eq(F)
    <2> HIDE DEF eq
    <2> QED
      BY <1>8
  <1> HIDE DEF F
  <1>10. F[0] = st /\ \A k \in 1 .. 40 : F[k] = ReparseRound(F[k - 1], k)
    BY <1>1, <1>9
  <1>11. Trace(ReparseStep, st, s, F) /\ \A k \in 0 .. 40 : F[k] \in ScanState
    <2>1. ASSUME NEW k \in 1 .. Len(s), F[k - 1] \in ScanState
          PROVE  F[k] = ReparseStep[<<F[k - 1], s[k]>>]
      <3>1. k \in 1 .. 40 /\ s[k] = k
        BY <1>1
      <3> QED
        BY <2>1, <3>1, <1>6, <1>10
    <2>2. Trace(ReparseStep, st, s, F)
      BY <1>1, <1>3, <1>4, <1>10, <2>1, TraceTyped
    <2>3. Within(F, Len(s), ScanState)
      BY <1>1, <1>3, <1>4, <1>10, <2>1, TraceTyped, ZenonT(30)
    <2> QED
      BY <1>1, <2>2, <2>3 DEF Within
  <1>12. Leads(ReparseStep, st, s, F[40]) /\ F[40] \in ScanState
    <2>1. Len(s) = 40 /\ 40 \in 0 .. 40
      BY <1>1
    <2> QED
      BY <1>11, <2>1 DEF Leads
  <1> QED
    BY <1>1, <1>2, <1>12 DEF st

\* What fpga_read finds no packet in it leaves as it is.
LEMMA ReparsedIs ==
  ASSUME NEW w \in ByteSeq(4), NEW g \in ByteSeq(Unread)
  PROVE  /\ Reparsed(w, g) \in Memory
         /\ ~ Misled(w, g) /\ ~ StartsIn(w) => Reparsed(w, g) = Behind(w, g) /\ g[1] # xor_20(BYTESESCCHAR)
PROOF
  <1> DEFINE m == Behind(w, g)
             st == ScanBegin(m)
  <1>1. PICK s \in Seq(1 .. 40), tt \in ScanState : Leads(ReparseStep, st, s, tt) /\ Reparsed(w, g) = tt.d
    BY ReparsedLeads
  <1>2. m \in Memory
    BY BehindType
  <1>3. Reparsed(w, g) \in Memory
    BY <1>1 DEF ScanState
  <1>4. ASSUME ~ Misled(w, g), ~ StartsIn(w)
        PROVE  Reparsed(w, g) = m /\ g[1] # xor_20(BYTESESCCHAR)
    <2> DEFINE p == w \o g
    <2>1. g[1] # xor_20(BYTESESCCHAR) /\ \A k \in 3 .. 40 : ~ (p[k] = CHANNEL /\ p[k + 2] = SOP)
      BY <1>4 DEF Misled, SCAN
    <2>2. NoHead(m)
      <3>1. ASSUME NEW j \in 2 .. 39
            PROVE  ~ (m[j] = CHANNEL /\ m[j + 2] = SOP)
        <4> HIDE DEF p
        <4>1. m = [k \in 0 .. 44 |-> p[k + 1]]
          BY DEF Behind, p
        <4>2. j \in 0 .. 44 /\ j + 2 \in 0 .. 44 /\ (j + 2) + 1 = (j + 1) + 2 /\ j + 1 \in 3 .. 40
          OBVIOUS
        <4> HIDE DEF m
        <4>3. m[j] = p[j + 1] /\ m[j + 2] = p[(j + 1) + 2]
          BY <4>1, <4>2
        <4>4. ~ (p[j + 1] = CHANNEL /\ p[(j + 1) + 2] = SOP)
          BY <2>1, <4>2
        <4> QED
          BY <4>3, <4>4
      <3>2. m[0] = w[1] /\ m[1] = w[2] /\ m[2] = w[3] /\ m[3] = w[4]
        BY WordBehind
      <3>3. ~ (m[0] = CHANNEL /\ m[2] = SOP) /\ (m[0] = CHANNEL \/ ~ (m[1] = CHANNEL /\ m[3] = SOP))
        BY <1>4, <3>2 DEF StartsIn
      <3> HIDE DEF m
      <3>4. ASSUME NEW j \in 0 .. 39
            PROVE  (m[0] = CHANNEL /\ j = 1) \/ ~ (m[j] = CHANNEL /\ m[j + 2] = SOP)
        <4>1. CASE j = 0
          BY <3>3, <4>1
        <4>2. CASE j = 1
          BY <3>3, <4>2
        <4>3. CASE j \in 2 .. 39
          BY <3>1, <4>3
        <4> QED
          BY <4>1, <4>2, <4>3
      <3> QED
        BY <3>4 DEF NoHead
    <2> HIDE DEF p
    <2> HIDE DEF m
    <2>3. st \in Still(m)
      BY <1>2 DEF Still, ScanState, ScanBegin
    <2>4. \A x \in Still(m) : \A k \in 1 .. 40 : ReparseStep[<<x, k>>] \in Still(m)
      <3>1. TAKE x \in Still(m)
      <3>2. TAKE k \in 1 .. 40
      <3>3. x \in ScanState
        BY DEF Still
      <3>4. ReparseStep[<<x, k>>] = ReparseRound(x, k)
        BY <3>3 DEF ReparseStep
      <3> QED
        BY <1>2, <2>2, <3>4, ReparseRoundStill
    <2> HIDE DEF st
    <2>5. tt \in Still(m)
      BY <1>1, <2>3, <2>4, LeadsKeeps
    <2> QED
      BY <1>1, <2>1, <2>5 DEF Still
  <1> QED
    BY <1>3, <1>4

\* Bytes that fpga_read does not look for, the end of a packet aside.
Ordinary == Byte \ {BYTESIDLECHAR, BYTESESCCHAR, SOP, CHANNEL}

\* All bytes behind the word are such, and so is the j-th of the word.
Plainly(d)     == \A i \in 4 .. 44 : d[i] \in Ordinary
Overwrites(j)  == {s \in ScanState : s.at >= 4 /\ Plainly(s.d) /\ s.d[j] \in Ordinary}

\* An ordinary byte that is written leaves ordinary bytes.
LEMMA PutOrdinary ==
  ASSUME NEW s \in ScanState, NEW b \in Ordinary, Plainly(s.d)
  PROVE  LET p == ScanPut(s, b) IN
         /\ p \in ScanState /\ Plainly(p.d) /\ p.at = s.at /\ p.to = s.to + 1 /\ p.in = s.in
         /\ \A j \in 0 .. 3 : s.d[j] \in Ordinary \/ j = s.to => p.d[j] \in Ordinary
PROOF
  <1> DEFINE p == ScanPut(s, b)
  <1>1. b \in Byte
    BY DEF Ordinary
  <1>2. p \in ScanState /\ p.at = s.at /\ p.to = s.to + 1 /\ p.in = s.in /\ p.d = [s.d EXCEPT ![s.to] = b]
    BY <1>1, ScanPutType
  <1>3. s.d \in [0 .. 44 -> Byte]
    BY DEF ScanState, Memory
  <1> HIDE DEF p
  <1>4. \A j \in 0 .. 44 : s.d[j] \in Ordinary \/ j = s.to => p.d[j] \in Ordinary
    BY <1>2, <1>3
  <1>5. \A j \in 4 .. 44 : j \in 0 .. 44
    OBVIOUS
  <1>6. Plainly(p.d)
    BY <1>4, <1>5 DEF Plainly
  <1>7. \A j \in 0 .. 3 : j \in 0 .. 44
    OBVIOUS
  <1>8. \A j \in 0 .. 3 : s.d[j] \in Ordinary \/ j = s.to => p.d[j] \in Ordinary
    BY <1>4, <1>7
  <1> QED
    BY <1>2, <1>6, <1>8 DEF p

\* Within a packet: a byte is copied.
LEMMA CopyByte ==
  ASSUME NEW s \in ScanState, s.in = TRUE, s.d[s.at] # EOP
  PROVE  ScanCopy(s) = ScanPut(s, s.d[s.at])
PROOF
  <1>1. ScanEnd(s) = s
    BY DEF ScanEnd
  <1> QED
    BY <1>1 DEF ScanCopy

\* At the end of one, two are.
Ended(s) == [s EXCEPT !.at = s.at + 2, !.in = FALSE]
LEMMA CopyEnd ==
  ASSUME NEW s \in ScanState, s.in = TRUE, s.d[s.at] = EOP
  PROVE  LET l == ScanPut(Ended(s), s.d[s.at + 1]) IN ScanCopy(s) = ScanPut(l, l.d[l.at])
PROOF
  <1> DEFINE l == ScanPut(Ended(s), s.d[s.at + 1])
  <1>1. ScanEnd(s) = l
    BY DEF ScanEnd, Ended
  <1> HIDE DEF l
  <1>2. ScanCopy(s) = ScanPut(l, l.d[l.at])
    BY <1>1 DEF ScanCopy
  <1> QED
    BY <1>2 DEF l

\* The bytes copied at the end of a packet are ordinary.
LEMMA CopyEndOrdinary ==
  ASSUME NEW s \in ScanState, s.at \in 3 .. 42, Plainly(s.d), s.in = TRUE, s.d[s.at] = EOP
  PROVE  LET c == ScanCopy(s) IN
         /\ c \in ScanState /\ Plainly(c.d) /\ c.at = s.at + 2
         /\ \A j \in 0 .. 3 : s.d[j] \in Ordinary \/ j = s.to \/ j = s.to + 1 => c.d[j] \in Ordinary
PROOF
  <1> DEFINE a == s.at
             e == Ended(s)
             b == s.d[a + 1]
             l == ScanPut(e, b)
             x == l.d[l.at]
             c == ScanCopy(s)
  <1>1. a + 2 \in Nat /\ a + 1 \in 4 .. 44 /\ a + 2 \in 4 .. 44 /\ s.to \in Nat
    BY DEF ScanState
  <1>2. e \in ScanState /\ e.at = a + 2 /\ e.d = s.d /\ e.to = s.to
    <2> HIDE DEF a
    <2> DEFINE n == a + 2
               no == FALSE
    <2>1. e = [s EXCEPT !.at = n, !.in = no]
      BY DEF Ended, a
    <2>2. n \in Nat /\ no \in BOOLEAN
      BY <1>1
    <2> HIDE DEF e, n, no
    <2>3. e \in ScanState /\ e.at = n /\ e.d = s.d
      BY <2>1, <2>2, ScanAtType
    <2>4. e.to = s.to
      BY <2>1, <2>2, ScanAtRest
    <2> QED
      BY <2>3, <2>4 DEF n
  <1>3. b \in Ordinary
    BY <1>1 DEF Plainly
  <1> HIDE DEF e, b
  <1>4. /\ l \in ScanState /\ Plainly(l.d) /\ l.at = e.at /\ l.to = e.to + 1
        /\ \A j \in 0 .. 3 : e.d[j] \in Ordinary \/ j = e.to => l.d[j] \in Ordinary
    BY <1>2, <1>3, PutOrdinary
  <1>5. c = ScanPut(l, x)
    BY CopyEnd DEF e, b
  <1> HIDE DEF l
  <1>6. x \in Ordinary
    BY <1>1, <1>2, <1>4 DEF Plainly
  <1> HIDE DEF x, c
  <1>7. /\ c \in ScanState /\ Plainly(c.d) /\ c.at = l.at
        /\ \A j \in 0 .. 3 : l.d[j] \in Ordinary \/ j = l.to => c.d[j] \in Ordinary
    BY <1>4, <1>5, <1>6, PutOrdinary
  <1>8. c.at = s.at + 2
    BY <1>2, <1>4, <1>7
  <1>9. \A j \in 0 .. 3 : s.d[j] \in Ordinary \/ j = s.to \/ j = s.to + 1 => c.d[j] \in Ordinary
    BY <1>2, <1>4, <1>7
  <1> QED
    BY <1>7, <1>8, <1>9 DEF c

\* Copying ordinary bytes.
LEMMA CopyOrdinary ==
  ASSUME NEW s \in ScanState, s.at \in 4 .. 42, Plainly(s.d)
  PROVE  LET c == ScanCopy(s) IN
         /\ c \in ScanState /\ Plainly(c.d) /\ c.at >= 4
         /\ \A j \in 0 .. 3 : s.d[j] \in Ordinary \/ (s.in = TRUE /\ j = s.to) => c.d[j] \in Ordinary
         /\ s.in = TRUE => \/ c.at = s.at /\ c.to = s.to + 1 /\ c.in = TRUE
                           \/ \A j \in 0 .. 3 : j = s.to + 1 => c.d[j] \in Ordinary
PROOF
  <1> DEFINE c == ScanCopy(s)
  <1>1. s.in \in BOOLEAN
    BY DEF ScanState
  <1>2. CASE s.in = FALSE
    <2>1. c = s
      BY <1>2 DEF ScanCopy
    <2> QED
      BY <1>2, <2>1
  <1>3. CASE s.in = TRUE /\ s.d[s.at] = EOP
    <2>1. s.at \in 3 .. 42
      OBVIOUS
    <2>2. /\ c \in ScanState /\ Plainly(c.d) /\ c.at = s.at + 2
          /\ \A j \in 0 .. 3 : s.d[j] \in Ordinary \/ j = s.to \/ j = s.to + 1 => c.d[j] \in Ordinary
      BY <1>3, <2>1, CopyEndOrdinary
    <2> HIDE DEF c
    <2>3. c.at >= 4
      BY <2>2
    <2> QED
      BY <2>2, <2>3 DEF c
  <1>4. CASE s.in = TRUE /\ s.d[s.at] # EOP
    <2> DEFINE b == s.d[s.at]
    <2>1. b \in Ordinary
      BY DEF Plainly
    <2>2. c = ScanPut(s, b)
      BY <1>4, CopyByte
    <2> HIDE DEF b, c
    <2>3. /\ c \in ScanState /\ Plainly(c.d) /\ c.at = s.at /\ c.to = s.to + 1 /\ c.in = s.in
          /\ \A j \in 0 .. 3 : s.d[j] \in Ordinary \/ j = s.to => c.d[j] \in Ordinary
      BY <2>1, <2>2, PutOrdinary
    <2>4. c.at >= 4
      BY <2>3
    <2> QED
      BY <1>4, <2>3, <2>4 DEF c
  <1> QED
    BY <1>1, <1>2, <1>3, <1>4

\* A round among ordinary bytes: copying, and a step on.
LEMMA OrdinaryRound ==
  ASSUME NEW s \in ScanState, s.at \in 4 .. 39, Plainly(s.d), NEW k
  PROVE  ReparseRound(s, k) = [ScanCopy(s) EXCEPT !.at = ScanCopy(s).at + 1]
PROOF
  <1>1. s.d[s.at] \in Ordinary
    BY DEF Plainly
  <1>2. s.d[s.at] # BYTESIDLECHAR /\ s.d[s.at] # CHANNEL
    BY <1>1 DEF Ordinary
  <1>3. ScanStart(s) = s
    BY <1>2 DEF ScanStart
  <1>4. ~ (s.at >= SCAN)
    BY DEF SCAN
  <1> QED
    BY <1>2, <1>3, <1>4 DEF ReparseRound

\* Once a byte of the word is overwritten, it stays so.
LEMMA OverwritesKept ==
  ASSUME NEW j \in 0 .. 3, NEW s \in Overwrites(j), NEW k
  PROVE  ReparseRound(s, k) \in Overwrites(j)
PROOF
  <1>1. s \in ScanState /\ s.at >= 4 /\ Plainly(s.d) /\ s.d[j] \in Ordinary /\ s.at \in Nat
    BY DEF Overwrites, ScanState
  <1>2. CASE s.at >= 40
    <2>1. ReparseRound(s, k) = s
      BY <1>2 DEF ReparseRound, SCAN
    <2> QED
      BY <2>1
  <1>3. CASE s.at < 40
    <2> DEFINE c == ScanCopy(s)
               e == [c EXCEPT !.at = c.at + 1]
    <2>1. s.at \in 4 .. 39 /\ s.at \in 4 .. 42
      BY <1>1, <1>3
    <2>2. ReparseRound(s, k) = e
      BY <1>1, <2>1, OrdinaryRound
    <2>3. c \in ScanState /\ Plainly(c.d) /\ c.at >= 4 /\ c.d[j] \in Ordinary
      BY <1>1, <2>1, CopyOrdinary
    <2> HIDE DEF c
    <2>4. c.at \in Nat /\ c.at + 1 \in Nat
      BY <2>3 DEF ScanState
    <2>5. e \in ScanState /\ e.at = c.at + 1 /\ e.d = c.d
      BY <2>3, <2>4, ScanAtType
    <2> HIDE DEF e
    <2>6. e \in Overwrites(j)
      BY <2>3, <2>4, <2>5 DEF Overwrites
    <2> QED
      BY <2>2, <2>6
  <1> QED
    BY <1>1, <1>2, <1>3

\* Within a packet that began in the word, with the t-th byte to be written.
Writing(t, a) == {s \in ScanState : s.in = TRUE /\ s.to = t /\ s.at = a /\ Plainly(s.d)}

\* A round within it overwrites that byte; then the packet goes on, or with
\* its end the next byte is overwritten too.
LEMMA WritingRound ==
  ASSUME NEW t \in 0 .. 2, NEW a \in 4 .. 30, NEW s \in Writing(t, a), NEW k
  PROVE  /\ ReparseRound(s, k) \in Overwrites(t)
         /\ ReparseRound(s, k) \in Writing(t + 1, a + 1) \cup Overwrites(t + 1)
PROOF
  <1>1. s \in ScanState /\ s.in = TRUE /\ s.to = t /\ s.at = a /\ Plainly(s.d)
    BY DEF Writing
  <1> DEFINE c == ScanCopy(s)
             e == [c EXCEPT !.at = c.at + 1]
  <1>2. s.at \in 4 .. 39 /\ s.at \in 4 .. 42 /\ t \in 0 .. 3 /\ t + 1 \in 0 .. 3
    BY <1>1
  <1>3. ReparseRound(s, k) = e
    BY <1>1, <1>2, OrdinaryRound
  <1>4. /\ c \in ScanState /\ Plainly(c.d) /\ c.at >= 4 /\ c.d[t] \in Ordinary
        /\ (c.at = a /\ c.to = t + 1 /\ c.in = TRUE) \/ c.d[t + 1] \in Ordinary
    BY <1>1, <1>2, CopyOrdinary
  <1> HIDE DEF c
  <1>5. c.at \in Nat /\ c.at + 1 \in Nat
    BY <1>4 DEF ScanState
  <1>6. e \in ScanState /\ e.at = c.at + 1 /\ e.d = c.d /\ e.in = c.in /\ e.to = c.to
    BY <1>4, <1>5, ScanAtType, ScanAtRest
  <1> HIDE DEF e
  <1>7. e \in Overwrites(t)
    BY <1>4, <1>5, <1>6 DEF Overwrites
  <1>8. e \in Writing(t + 1, a + 1) \cup Overwrites(t + 1)
    BY <1>4, <1>5, <1>6 DEF Overwrites, Writing
  <1> QED
    BY <1>3, <1>7, <1>8

\* Into a packet, and on to the next byte.
Entered(s) == [s EXCEPT !.at = s.at + 3, !.in = TRUE]
Stepped(s) == [s EXCEPT !.at = s.at + 1]

\* The head of a packet: its bytes are copied from the third byte behind it.
LEMMA HeadFound ==
  ASSUME NEW s \in ScanState, s.at \in 0 .. 1, s.d[s.at] = CHANNEL, s.d[s.at + 2] = SOP, NEW k
  PROVE  /\ ReparseRound(s, k) = Stepped(ScanCopy(Entered(s)))
         /\ Entered(s) \in ScanState /\ Entered(s).at = s.at + 3 /\ Entered(s).d = s.d
         /\ Entered(s).in = TRUE /\ Entered(s).to = s.to
PROOF
  <1> DEFINE n == s.at + 3
             yes == TRUE
             h == [s EXCEPT !.at = n, !.in = yes]
  <1>1. ScanStart(s) = h
    BY DEF ScanStart
  <1>2. s.d[s.at] # BYTESIDLECHAR /\ ~ (s.at >= SCAN)
    BY DEF CHANNEL, BYTESIDLECHAR, SCAN
  <1>3. n \in Nat /\ yes \in BOOLEAN
    OBVIOUS
  <1> HIDE DEF h
  <1>4. ReparseRound(s, k) = [ScanCopy(h) EXCEPT !.at = ScanCopy(h).at + 1]
    BY <1>1, <1>2 DEF ReparseRound
  <1> HIDE DEF n, yes
  <1>5. h \in ScanState /\ h.at = n /\ h.d = s.d
    BY <1>3, ScanAtType DEF h
  <1>6. h.in = yes /\ h.to = s.to
    BY <1>3, ScanAtRest DEF h
  <1> QED
    BY <1>4, <1>5, <1>6 DEF h, n, yes, Entered, Stepped

\* A head at the first byte: the fourth byte of the word, or what is behind
\* it, is copied to the first.
LEMMA FirstHead ==
  ASSUME NEW m \in Memory, Plainly(m), m[0] = CHANNEL, m[2] = SOP, NEW k
  PROVE  ReparseRound(ScanBegin(m), k) \in Overwrites(0) \cup Writing(1, 4)
PROOF
  <1> DEFINE s == ScanBegin(m)
             h == Entered(s)
             c == ScanCopy(h)
             e == Stepped(c)
  <1>1. s \in ScanState /\ s.d = m /\ s.at = 0 /\ s.to = 0
    BY DEF ScanBegin, ScanState
  <1> HIDE DEF s
  <1>2. /\ ReparseRound(s, k) = e
        /\ h \in ScanState /\ h.at = 3 /\ h.d = m /\ h.in = TRUE /\ h.to = 0
    <2>1. s.at \in 0 .. 1 /\ s.d[s.at] = CHANNEL /\ s.d[s.at + 2] = SOP
      BY <1>1
    <2>2. /\ ReparseRound(s, k) = e
          /\ h \in ScanState /\ h.at = s.at + 3 /\ h.d = s.d /\ h.in = TRUE /\ h.to = s.to
      BY <1>1, <2>1, HeadFound, Zenon
    <2> HIDE DEF h, c, e
    <2> QED
      BY <1>1, <2>2
  <1> HIDE DEF h
  <1>3. CASE h.d[h.at] = EOP
    <2>1. h.at \in 3 .. 42 /\ Plainly(h.d)
      BY <1>2
    <2>2. /\ c \in ScanState /\ Plainly(c.d) /\ c.at = h.at + 2
          /\ \A j \in 0 .. 3 : h.d[j] \in Ordinary \/ j = h.to \/ j = h.to + 1 => c.d[j] \in Ordinary
      BY <1>2, <1>3, <2>1, CopyEndOrdinary
    <2> HIDE DEF c
    <2>3. c.d[0] \in Ordinary /\ c.at = 5 /\ c.at + 1 = 6 /\ c.at + 1 \in Nat
      BY <1>2, <2>2
    <2>4. e \in ScanState /\ e.at = c.at + 1 /\ e.d = c.d
      BY <2>2, <2>3, ScanAtType DEF Stepped
    <2> HIDE DEF e
    <2>5. e \in Overwrites(0)
      BY <2>2, <2>3, <2>4 DEF Overwrites
    <2> QED
      BY <1>2, <2>5 DEF s
  <1>4. CASE h.d[h.at] # EOP
    <2> DEFINE b == h.d[h.at]
    <2>1. c = ScanPut(h, b)
      BY <1>2, <1>4, CopyByte
    <2>2. b \in Byte
      BY <1>2 DEF Memory
    <2> HIDE DEF b, c
    <2>3. /\ c \in ScanState /\ c.at = 3 /\ c.d = [m EXCEPT ![0] = b] /\ c.to = 1 /\ c.in = TRUE
      BY <1>2, <2>1, <2>2, ScanPutType
    <2>4. Plainly(c.d)
      <3>1. m \in [0 .. 44 -> Byte]
        BY DEF Memory
      <3>2. \A i \in 4 .. 44 : c.d[i] = m[i]
        BY <2>3, <3>1
      <3> QED
        BY <3>2 DEF Plainly
    <2>5. c.at + 1 = 4 /\ c.at + 1 \in Nat
      BY <2>3
    <2>6. e \in ScanState /\ e.at = c.at + 1 /\ e.d = c.d /\ e.in = c.in
      BY <2>3, <2>5, ScanAtType DEF Stepped
    <2>7. e.to = c.to
      BY <2>3, <2>5, ScanAtRest DEF Stepped
    <2> HIDE DEF e
    <2>8. e \in Writing(1, 4)
      BY <2>3, <2>4, <2>5, <2>6, <2>7 DEF Writing
    <2> QED
      BY <1>2, <2>8 DEF s
  <1> QED
    BY <1>3, <1>4

\* No head there: one byte further.
LEMMA FirstPassed ==
  ASSUME NEW m \in Memory, m[0] # CHANNEL, NEW k
  PROVE  LET e == ReparseRound(ScanBegin(m), k) IN
         e \in ScanState /\ e.d = m /\ e.at = 1 /\ e.to = 0
PROOF
  <1> DEFINE s == ScanBegin(m)
             n == s.at + 1
             e == [s EXCEPT !.at = n]
  <1>1. s \in ScanState /\ s.d = m /\ s.at = 0 /\ s.to = 0 /\ s.in = FALSE
    BY DEF ScanBegin, ScanState
  <1> HIDE DEF s
  <1>2. ScanCopy(ScanStart(s)) = s
    <2>1. ScanStart(s) = s
      BY <1>1 DEF ScanStart
    <2> QED
      BY <1>1, <2>1 DEF ScanCopy
  <1>3. ReparseRound(s, k) = e
    <2>1. ~ (s.at >= SCAN)
      BY <1>1 DEF SCAN
    <2> DEFINE t == ScanCopy(ScanStart(s))
    <2> HIDE DEF t
    <2>2. ReparseRound(s, k) = LET c == IF s.d[s.at] = BYTESIDLECHAR THEN s ELSE t IN [c EXCEPT !.at = c.at + 1]
      BY <2>1 DEF ReparseRound, t
    <2>3. t = s
      BY <1>2 DEF t
    <2> QED
      BY <2>2, <2>3
  <1>4. n \in Nat /\ n = 1
    BY <1>1
  <1> HIDE DEF n
  <1>5. e \in ScanState /\ e.at = n /\ e.d = s.d
    BY <1>1, <1>4, ScanAtType
  <1>6. e.to = s.to
    BY <1>1, <1>4, ScanAtRest
  <1> HIDE DEF e
  <1> QED
    BY <1>1, <1>3, <1>4, <1>5, <1>6 DEF s

\* A head at the second byte: what is behind the word is copied over it.
LEMMA SecondHead ==
  ASSUME NEW s \in ScanState, Plainly(s.d), s.at = 1, s.to = 0, s.d[1] = CHANNEL, s.d[3] = SOP, NEW k
  PROVE  ReparseRound(s, k) \in Writing(1, 5) \cup Overwrites(1)
PROOF
  <1> DEFINE h == Entered(s)
  <1>1. /\ ReparseRound(s, k) = Stepped(ScanCopy(h))
        /\ h \in ScanState /\ h.at = 4 /\ h.d = s.d /\ h.in = TRUE /\ h.to = 0
    <2>1. s.at \in 0 .. 1 /\ s.d[s.at] = CHANNEL /\ s.d[s.at + 2] = SOP
      OBVIOUS
    <2>2. /\ ReparseRound(s, k) = Stepped(ScanCopy(h))
          /\ h \in ScanState /\ h.at = s.at + 3 /\ h.d = s.d /\ h.in = TRUE /\ h.to = s.to
      BY <2>1, HeadFound, Zenon
    <2> HIDE DEF h
    <2> QED
      BY <2>2
  <1> HIDE DEF h
  <1>2. h \in Writing(0, 4)
    BY <1>1 DEF Writing
  <1>3. ReparseRound(h, k) = ReparseRound(s, k)
    <2>1. h.at \in 4 .. 39 /\ Plainly(h.d)
      BY <1>1
    <2> QED
      BY <1>1, <2>1, OrdinaryRound DEF Stepped
  <1>4. ReparseRound(h, k) \in Writing(0 + 1, 4 + 1) \cup Overwrites(0 + 1)
    <2>1. 0 \in 0 .. 2 /\ 4 \in 4 .. 30
      OBVIOUS
    <2> QED
      BY <1>2, <2>1, WritingRound
  <1> QED
    BY <1>3, <1>4

\* f goes through the scan of the bytes m.
Scans(f, m) ==
  /\ f[0] = ScanBegin(m) /\ \A k \in 0 .. 40 : f[k] \in ScanState
  /\ \A k \in 1 .. 40 : \E n : f[k] = ReparseRound(f[k - 1], n)

\* The scan can be gone through.
LEMMA ScansExist ==
  ASSUME NEW w \in ByteSeq(4), NEW g \in ByteSeq(Unread)
  PROVE  \E f : Scans(f, Behind(w, g)) /\ Reparsed(w, g) = f[40].d
PROOF
  <1> DEFINE m == Behind(w, g)
             st == ScanBegin(m)
  <1>1. PICK s \in Seq(1 .. 40), tt \in ScanState :
           Len(s) = 40 /\ Leads(ReparseStep, st, s, tt) /\ Reparsed(w, g) = tt.d
    BY ReparsedLeads
  <1>2. PICK f : f[0] = st /\ f[40] = tt /\ \A k \in 1 .. 40 : f[k] = ReparseStep[<<f[k - 1], s[k]>>]
    BY <1>1 DEF Leads, Trace
  <1>3. st \in ScanState
    BY BehindType DEF ScanBegin, ScanState
  <1>4. \A k \in 1 .. 40 : s[k] \in 1 .. 40
    <2>1. s \in Seq(1 .. 40) /\ Len(s) = 40
      BY <1>1
    <2>2. \A k \in 1 .. Len(s) : s[k] \in 1 .. 40
      BY <2>1, ElementOfSeq
    <2> QED
      BY <2>1, <2>2
  <1> HIDE DEF st
  <1>5. ASSUME NEW k \in 1 .. 40, f[k - 1] \in ScanState
        PROVE  f[k] = ReparseRound(f[k - 1], s[k]) /\ f[k] \in ScanState
    <2>1. f[k] = ReparseRound(f[k - 1], s[k])
      BY <1>2, <1>4, <1>5 DEF ReparseStep
    <2> QED
      BY <1>5, <2>1, ReparseRoundType
  <1> DEFINE T == {k \in 0 .. 40 : f[k] \in ScanState}
  <1>6. 0 \in T
    <2>1. 0 \in 0 .. 40
      OBVIOUS
    <2>2. f[0] \in ScanState
      BY <1>2, <1>3, Zenon
    <2> QED
      BY <2>1, <2>2
  <1>7. ASSUME NEW k \in 1 .. 40, k - 1 \in T
        PROVE  k \in T
    <2>1. f[k - 1] \in ScanState /\ k \in 0 .. 40
      BY <1>7
    <2> QED
      BY <1>5, <2>1
  <1> HIDE DEF T
  <1>8. 0 .. 40 \subseteq T
    BY <1>6, <1>7, Induct
  <1>9. \A k \in 0 .. 40 : f[k] \in ScanState
    BY <1>8 DEF T
  <1>10. ASSUME NEW k \in 1 .. 40
         PROVE  \E n : f[k] = ReparseRound(f[k - 1], n)
    <2>1. k - 1 \in 0 .. 40
      OBVIOUS
    <2> QED
      BY <1>5, <1>9, <2>1
  <1>11. Scans(f, m)
    BY <1>2, <1>9, <1>10 DEF Scans, st
  <1> QED
    BY <1>1, <1>2, <1>11

\* What is overwritten after three rounds is so at the end.
LEMMA OverwrittenAtLast ==
  ASSUME NEW f, NEW m, Scans(f, m), NEW j \in 0 .. 3, f[3] \in Overwrites(j)
  PROVE  f[40].d[j] \in Ordinary
PROOF
  <1> DEFINE T == {k \in 0 .. 40 : k >= 3 => f[k] \in Overwrites(j)}
  <1>1. 0 \in T
    OBVIOUS
  <1>2. ASSUME NEW k \in 1 .. 40, k - 1 \in T
        PROVE  k \in T
    <2>1. CASE k < 3
      BY <2>1
    <2>2. CASE k = 3
      BY <2>2
    <2>3. CASE k > 3
      <3>1. f[k - 1] \in Overwrites(j)
        BY <1>2, <2>3
      <3>2. PICK n : f[k] = ReparseRound(f[k - 1], n)
        BY DEF Scans
      <3>3. f[k] \in Overwrites(j)
        BY <3>1, <3>2, OverwritesKept
      <3> QED
        BY <3>3
    <2> QED
      BY <2>1, <2>2, <2>3
  <1> HIDE DEF T
  <1>3. 0 .. 40 \subseteq T
    BY <1>1, <1>2, Induct
  <1>4. f[40] \in Overwrites(j)
    BY <1>3 DEF T
  <1> QED
    BY <1>4 DEF Overwrites

\* A head at the first byte costs the first byte of the word or its third,
\* one at the second byte the second.
LEMMA HeadOverwritten ==
  ASSUME NEW f, NEW m \in Memory, Scans(f, m), Plainly(m)
  PROVE  /\ m[0] = CHANNEL /\ m[2] = SOP => f[40].d[0] \in Ordinary \/ f[40].d[2] \in Ordinary
         /\ m[0] # CHANNEL /\ m[1] = CHANNEL /\ m[3] = SOP => f[40].d[1] \in Ordinary
PROOF
  <1>1. /\ f[0] = ScanBegin(m)
        /\ \E n : f[1] = ReparseRound(f[0], n)
        /\ \E n : f[2] = ReparseRound(f[1], n)
        /\ \E n : f[3] = ReparseRound(f[2], n)
    <2>1. f[0] = ScanBegin(m) /\ \A k \in 1 .. 40 : \E n : f[k] = ReparseRound(f[k - 1], n)
      BY DEF Scans
    <2>2. 1 \in 1 .. 40 /\ 2 \in 1 .. 40 /\ 3 \in 1 .. 40 /\ 1 - 1 = 0 /\ 2 - 1 = 1 /\ 3 - 1 = 2
      OBVIOUS
    <2>3. (\E n : f[1] = ReparseRound(f[1 - 1], n)) /\ (\E n : f[2] = ReparseRound(f[2 - 1], n))
          /\ \E n : f[3] = ReparseRound(f[3 - 1], n)
      BY <2>1, <2>2, Zenon
    <2> QED
      BY <2>1, <2>2, <2>3
  <1>2. 0 \in 0 .. 3 /\ 1 \in 0 .. 3 /\ 2 \in 0 .. 3 /\ 1 \in 0 .. 2 /\ 2 \in 0 .. 2
        /\ 4 \in 4 .. 30 /\ 5 \in 4 .. 30 /\ 1 + 1 = 2 /\ 4 + 1 = 5
    OBVIOUS
  <1>3. CASE m[0] = CHANNEL /\ m[2] = SOP
    <2>1. f[1] \in Overwrites(0) \cup Writing(1, 4)
      BY <1>1, <1>3, FirstHead
    <2>2. CASE f[1] \in Overwrites(0)
      <3>1. f[2] \in Overwrites(0)
        BY <1>1, <1>2, <2>2, OverwritesKept
      <3>2. f[3] \in Overwrites(0)
        BY <1>1, <1>2, <3>1, OverwritesKept
      <3>3. f[40].d[0] \in Ordinary
        BY <1>2, <3>2, OverwrittenAtLast
      <3> QED
        BY <1>3, <3>3
    <2>3. CASE f[1] \in Writing(1, 4)
      <3>1. f[2] \in Writing(2, 5) \cup Overwrites(2)
        <4>1. f[2] \in Writing(1 + 1, 4 + 1) \cup Overwrites(1 + 1)
          BY <1>1, <1>2, <2>3, WritingRound
        <4> QED
          BY <1>2, <4>1
      <3>2. f[3] \in Overwrites(2)
        <4>1. CASE f[2] \in Writing(2, 5)
          BY <1>1, <1>2, <4>1, WritingRound
        <4>2. CASE f[2] \in Overwrites(2)
          BY <1>1, <1>2, <4>2, OverwritesKept
        <4> QED
          BY <3>1, <4>1, <4>2
      <3>3. f[40].d[2] \in Ordinary
        BY <1>2, <3>2, OverwrittenAtLast
      <3> QED
        BY <1>3, <3>3
    <2> QED
      BY <2>1, <2>2, <2>3
  <1>4. CASE m[0] # CHANNEL /\ m[1] = CHANNEL /\ m[3] = SOP
    <2>1. f[1] \in ScanState /\ f[1].d = m /\ f[1].at = 1 /\ f[1].to = 0
      BY <1>1, <1>4, FirstPassed
    <2>2. f[2] \in Writing(1, 5) \cup Overwrites(1)
      BY <1>1, <1>4, <2>1, SecondHead
    <2>3. f[3] \in Overwrites(1)
      <3>1. CASE f[2] \in Writing(1, 5)
        BY <1>1, <1>2, <3>1, WritingRound
      <3>2. CASE f[2] \in Overwrites(1)
        BY <1>1, <1>2, <3>2, OverwritesKept
      <3> QED
        BY <2>2, <3>1, <3>2
    <2>4. f[40].d[1] \in Ordinary
      BY <1>2, <2>3, OverwrittenAtLast
    <2> QED
      BY <1>4, <2>4
  <1> QED
    BY <1>3, <1>4

\* The states of Unescaped: the memory, and whether the next byte was taken
\* already.
UnescapeState == [d : Memory, skip : BOOLEAN]
Un(d, x) == [d |-> d, skip |-> x]

\* The k-th byte replaced by b, and the one behind it by 0.
Undone(d, k, b) == [d EXCEPT ![k] = b, ![k + 1] = 0]

\* The fields of a state, and changes of one.
LEMMA UnFields ==
  ASSUME NEW d, NEW x, NEW y
  PROVE  /\ Un(d, x).d = d /\ Un(d, x).skip = x
         /\ [Un(d, x) EXCEPT !.skip = y] = Un(d, y)
         /\ [Un(d, x) EXCEPT !.d = y] = Un(y, x)
PROOF
  <1>1. [[d |-> d, skip |-> x] EXCEPT !.skip = y] = [d |-> d, skip |-> y]
    OBVIOUS
  <1>2. [[d |-> d, skip |-> x] EXCEPT !.d = y] = [d |-> y, skip |-> x]
    OBVIOUS
  <1> QED
    BY <1>1, <1>2 DEF Un

\* Between two bytes, and within an escape.
Taken(d)    == Un(d, FALSE)
Skipping(d) == Un(d, TRUE)

\* Both states have the memory.
LEMMA UnGet ==
  ASSUME NEW d
  PROVE  Taken(d).d = d /\ Skipping(d).d = d
BY DEF Un, Taken, Skipping

\* What an escape undone leaves.
LEMMA UndoneIs ==
  ASSUME NEW d \in Memory, NEW k \in 0 .. 3, NEW b \in Byte
  PROVE  Undone(d, k, b) \in Memory /\ Undone(d, k, b)[k] = b /\ Undone(d, k, b)[k + 1] = 0
PROOF
  <1>1. 0 \in Byte /\ k \in 0 .. 44 /\ k + 1 \in 0 .. 44 /\ k # k + 1 /\ d \in [0 .. 44 -> Byte]
    BY SMTT(30) DEF Byte, Memory
  <1> DEFINE e == [d EXCEPT ![k] = b]
             u == [e EXCEPT ![k + 1] = 0]
  <1>2. Undone(d, k, b) = u
    BY DEF Undone
  <1>3. e \in Memory /\ e[k] = b
    BY <1>1 DEF Memory
  <1> HIDE DEF e
  <1>4. u \in Memory /\ u[k + 1] = 0 /\ u[k] = e[k]
    BY <1>1, <1>3 DEF Memory
  <1> HIDE DEF u
  <1> QED
    BY <1>2, <1>3, <1>4

\* It leaves alone what is before it.
LEMMA UndoneBefore ==
  ASSUME NEW d \in Memory, NEW k \in 0 .. 3, NEW b \in Byte, NEW j \in 0 .. 3, j < k
  PROVE  Undone(d, k, b)[j] = d[j]
PROOF
  <1>1. Undone(d, k, b) = [[d EXCEPT ![k] = b] EXCEPT ![k + 1] = 0]
    BY DEF Undone
  <1>2. d \in [0 .. 44 -> Byte] /\ j \in 0 .. 44 /\ j # k /\ j # k + 1
    BY DEF Memory
  <1> QED
    BY <1>1, <1>2

\* An idle byte is replaced by zero.
LEMMA ZeroedIs ==
  ASSUME NEW d \in Memory, NEW k \in 0 .. 3
  PROVE  /\ [d EXCEPT ![k] = 0] \in Memory /\ [d EXCEPT ![k] = 0][k] = 0
         /\ \A j \in 0 .. 3 : j < k => [d EXCEPT ![k] = 0][j] = d[j]
PROOF
  <1>1. 0 \in Byte /\ k \in 0 .. 44 /\ d \in [0 .. 44 -> Byte]
    BY SMTT(30) DEF Byte, Memory
  <1> QED
    BY <1>1 DEF Memory

\* The step in each case.
LEMMA UnescapeIs ==
  ASSUME NEW d \in Memory, NEW k \in 0 .. 3
  PROVE  /\ UnescapeRound(Skipping(d), k) = Taken(d)
         /\ UnescapeRound(Taken(d), k) =
              IF d[k] = BYTESESCCHAR THEN Skipping(Undone(d, k, xor_20(d[k + 1])))
              ELSE IF d[k] = BYTESIDLECHAR THEN Taken([d EXCEPT ![k] = 0])
              ELSE Taken(d)
         /\ xor_20(d[k + 1]) \in Byte
PROOF
  <1>1. k \in 0 .. 44 /\ k + 1 \in 0 .. 44
    OBVIOUS
  <1>2. xor_20(d[k + 1]) \in Byte
    <2>1. d[k + 1] \in Byte
      BY <1>1 DEF Memory
    <2> QED
      BY <2>1, XorType
  <1>3. UnescapeRound(Un(d, TRUE), k) = Un(d, FALSE)
    <2> DEFINE st == Un(d, TRUE)
    <2>1. st.skip = TRUE /\ [st EXCEPT !.skip = FALSE] = Un(d, FALSE)
      <3> DEFINE yes == TRUE
                 no == FALSE
      <3> HIDE DEF yes, no
      <3>1. Un(d, yes).skip = yes /\ [Un(d, yes) EXCEPT !.skip = no] = Un(d, no)
        BY UnFields
      <3> QED
        BY <3>1 DEF yes, no
    <2> HIDE DEF st
    <2>2. UnescapeRound(st, k) = [st EXCEPT !.skip = FALSE]
      BY <2>1 DEF UnescapeRound
    <2> QED
      BY <2>1, <2>2 DEF st
  <1>4. UnescapeRound(Un(d, FALSE), k) =
          IF d[k] = BYTESESCCHAR THEN Un(Undone(d, k, xor_20(d[k + 1])), TRUE)
          ELSE IF d[k] = BYTESIDLECHAR THEN Un([d EXCEPT ![k] = 0], FALSE)
          ELSE Un(d, FALSE)
    <2> DEFINE st == Un(d, FALSE)
    <2>1. st.skip = FALSE /\ st.d = d
      BY UnFields
    <2>2. [st EXCEPT !.d[k] = 0] = Un([d EXCEPT ![k] = 0], FALSE)
      <3> DEFINE e == [d EXCEPT ![k] = 0]
      <3>1. [st EXCEPT !.d = e] = Un(e, FALSE)
        <4> DEFINE no == FALSE
        <4> HIDE DEF e, no
        <4>1. [Un(d, no) EXCEPT !.d = e] = Un(e, no)
          BY UnFields
        <4> QED
          BY <4>1 DEF no
      <3> HIDE DEF st
      <3>2. [st EXCEPT !.d[k] = 0] = [st EXCEPT !.d = [st.d EXCEPT ![k] = 0]]
        OBVIOUS
      <3> QED
        BY <2>1, <3>1, <3>2
    <2> HIDE DEF st
    <2>3. UnescapeRound(st, k) =
            IF d[k] = BYTESESCCHAR THEN Un(Undone(d, k, xor_20(d[k + 1])), TRUE)
            ELSE IF d[k] = BYTESIDLECHAR THEN [st EXCEPT !.d[k] = 0]
            ELSE st
      BY <2>1 DEF UnescapeRound, Un, Undone
    <2> QED
      BY <2>2, <2>3 DEF st
  <1> QED
    BY <1>2, <1>3, <1>4 DEF Taken, Skipping

\* A round stays in memory, and does not touch what is before it; a round
\* that is skipped touches nothing.
LEMMA UnescapeKeeps ==
  ASSUME NEW st \in UnescapeState, NEW k \in 0 .. 3
  PROVE  /\ UnescapeRound(st, k) \in UnescapeState
         /\ \A j \in 0 .. 3 : j < k => UnescapeRound(st, k).d[j] = st.d[j]
PROOF
  <1>1. PICK d \in Memory, x \in BOOLEAN : st = Un(d, x)
    BY DEF UnescapeState, Un
  <1> DEFINE r == UnescapeRound(st, k)
  <1>2. \E e \in Memory, y \in BOOLEAN : r = Un(e, y) /\ \A j \in 0 .. 3 : j < k => e[j] = d[j]
    <2>1. CASE x = TRUE
      BY <1>1, <2>1, UnescapeIs DEF Taken, Skipping
    <2>2. CASE x = FALSE
      <3> DEFINE b == xor_20(d[k + 1])
                 u == Undone(d, k, b)
                 v == [d EXCEPT ![k] = 0]
      <3>1. r = IF d[k] = BYTESESCCHAR THEN Un(u, TRUE) ELSE IF d[k] = BYTESIDLECHAR THEN Un(v, FALSE) ELSE Un(d, FALSE)
        BY <1>1, <2>2, UnescapeIs DEF Taken, Skipping
      <3>2. b \in Byte /\ 0 \in Byte
        <4>1. xor_20(d[k + 1]) \in Byte
          BY UnescapeIs
        <4> QED
          BY <4>1 DEF Byte
      <3> HIDE DEF b
      <3>3. u \in Memory /\ \A j \in 0 .. 3 : j < k => u[j] = d[j]
        <4>1. u \in Memory
          BY <3>2, UndoneIs
        <4>2. ASSUME NEW j \in 0 .. 3, j < k
              PROVE  u[j] = d[j]
          BY <3>2, <4>2, UndoneBefore
        <4> QED
          BY <4>1, <4>2
      <3>4. v \in Memory /\ \A j \in 0 .. 3 : j < k => v[j] = d[j]
        BY ZeroedIs
      <3> HIDE DEF u, v, r
      <3>5. CASE d[k] = BYTESESCCHAR
        BY <3>1, <3>3, <3>5
      <3>6. CASE d[k] # BYTESESCCHAR /\ d[k] = BYTESIDLECHAR
        BY <3>1, <3>4, <3>6
      <3>7. CASE d[k] # BYTESESCCHAR /\ d[k] # BYTESIDLECHAR
        BY <3>1, <3>7
      <3> QED
        BY <3>5, <3>6, <3>7
    <2> QED
      BY <2>1, <2>2
  <1> HIDE DEF r
  <1>3. PICK e \in Memory, y \in BOOLEAN : r = Un(e, y) /\ \A j \in 0 .. 3 : j < k => e[j] = d[j]
    BY <1>2
  <1>4. r.d = e /\ st.d = d
    BY <1>1, <1>3, UnFields
  <1>5. r \in UnescapeState
    BY <1>3 DEF UnescapeState, Un
  <1> QED
    BY <1>3, <1>4, <1>5 DEF r

\* The rounds that fpga_read makes over the bytes m.
LEMMA UnescapedTrace ==
  ASSUME NEW m \in Memory
  PROVE  \E f \in [0 .. 4 -> UnescapeState] :
           /\ f[0] = Taken(m) /\ \A k \in 1 .. 4 : f[k] = UnescapeRound(f[k - 1], k - 1)
           /\ Unescaped(m) = [k \in 1 .. 4 |-> f[4].d[k - 1]]
PROOF
  <1> DEFINE s == <<0, 1, 2, 3>>
             st == Un(m, FALSE)
             g == [p \in UnescapeState \X (0 .. 3) |-> UnescapeRound(p[1], p[2])]
             eq(f) == f = [k \in 0 .. 4 |-> IF k = 0 THEN st ELSE UnescapeRound(f[k - 1], s[k])]
             F == CHOOSE f : eq(f)
  <1>1. s \in Seq(0 .. 3) /\ Len(s) = 4 /\ \A k \in 1 .. 4 : s[k] = k - 1 /\ s[k] \in 0 .. 3
    OBVIOUS
  <1>2. Unescaped(m) = [k \in 1 .. 4 |-> F[4].d[k - 1]]
    <2> DEFINE s1 == <<0, 1, 2, 3>>
               F1 == CHOOSE f : f = [k \in 0 .. Len(s1) |-> IF k = 0 THEN st ELSE UnescapeRound(f[k - 1], s1[k])]
    <2>1. Unescaped(m) = [k \in 1 .. 4 |-> F1[Len(s1)].d[k - 1]]
      BY DEF Unescaped, Parse, Un
    <2>2. F1[Len(s1)] = F[4]
      <3>1. s1 = s
        OBVIOUS
      <3> HIDE DEF s1, s
      <3> QED
        BY <1>1, <3>1
    <2> HIDE DEF F1, F, s1
    <2> QED
      BY <2>1, <2>2
  <1>3. g \in [UnescapeState \X (0 .. 3) -> UnescapeState]
    BY UnescapeKeeps
  <1>4. st \in UnescapeState
    BY DEF UnescapeState, Un
  <1>5. \A x \in UnescapeState : \A k \in 0 .. 3 : g[<<x, k>>] = UnescapeRound(x, k)
    OBVIOUS
  <1> HIDE DEF st, g
  <1>6. PICK h \in [0 .. 4 -> UnescapeState] : Trace(g, st, s, h)
    <2> HIDE DEF F, eq, s
    <2>1. \E h \in [0 .. Len(s) -> UnescapeState] : Trace(g, st, s, h)
      BY <1>1, <1>3, <1>4, TraceExists
    <2> QED
      BY <1>1, <2>1
  <1> HIDE DEF s
  <1>7. h[0] = st /\ \A k \in 1 .. 4 : h[k] = UnescapeRound(h[k - 1], s[k])
    <2>1. h[0] = st /\ \A k \in 1 .. 4 : h[k] = g[<<h[k - 1], s[k]>>]
      BY <1>1, <1>6 DEF Trace
    <2>2. \A k \in 1 .. 4 : h[k - 1] \in UnescapeState
      OBVIOUS
    <2> QED
      BY <1>1, <1>5, <2>1, <2>2
  <1>8. eq(h)
    BY <1>7
  <1>9. eq(F)
    <2> HIDE DEF eq
    <2> QED
      BY <1>8
  <1> HIDE DEF F
  <1>10. F[0] = st /\ \A k \in 1 .. 4 : F[k] = UnescapeRound(F[k - 1], s[k])
    BY <1>9
  <1>11. \A k \in 0 .. 4 : F[k] \in UnescapeState
    <2>1. ASSUME NEW k \in 1 .. Len(s), F[k - 1] \in UnescapeState
          PROVE  F[k] = g[<<F[k - 1], s[k]>>]
      <3>1. k \in 1 .. 4 /\ s[k] \in 0 .. 3
        BY <1>1
      <3> QED
        BY <2>1, <3>1, <1>5, <1>10
    <2>2. Within(F, Len(s), UnescapeState)
      BY <1>1, <1>3, <1>4, <1>10, <2>1, TraceTyped
    <2> QED
      BY <1>1, <2>2 DEF Within
  <1>12. F \in [0 .. 4 -> UnescapeState]
    BY <1>9, <1>11
  <1>13. \A k \in 1 .. 4 : F[k] = UnescapeRound(F[k - 1], k - 1)
    BY <1>1, <1>10
  <1> QED
    BY <1>2, <1>10, <1>12, <1>13 DEF st, Taken

\* f goes through the rounds over the bytes m.
Rounds(f, m) ==
  /\ f \in [0 .. 4 -> UnescapeState] /\ f[0] = Taken(m)
  /\ \A k \in 0 .. 3 : f[k + 1] = UnescapeRound(f[k], k)

\* The rounds can be gone through.
LEMMA RoundsExist ==
  ASSUME NEW m \in Memory
  PROVE  \E f : Rounds(f, m) /\ Unescaped(m) = [k \in 1 .. 4 |-> f[4].d[k - 1]]
PROOF
  <1>1. PICK f \in [0 .. 4 -> UnescapeState] :
           /\ f[0] = Taken(m) /\ \A k \in 1 .. 4 : f[k] = UnescapeRound(f[k - 1], k - 1)
           /\ Unescaped(m) = [k \in 1 .. 4 |-> f[4].d[k - 1]]
    BY UnescapedTrace
  <1>2. ASSUME NEW k \in 0 .. 3
        PROVE  f[k + 1] = UnescapeRound(f[k], k)
    <2>1. k + 1 \in 1 .. 4 /\ (k + 1) - 1 = k
      OBVIOUS
    <2>2. f[k + 1] = UnescapeRound(f[(k + 1) - 1], (k + 1) - 1)
      BY <1>1, <2>1
    <2> QED
      BY <2>1, <2>2
  <1> QED
    BY <1>1, <1>2 DEF Rounds

\* What was done to a byte is not touched by later rounds.
LEMMA RoundKept ==
  ASSUME NEW f, NEW m, Rounds(f, m), NEW j \in 0 .. 3, NEW b \in 0 .. 4, j < b
  PROVE  f[4].d[j] = f[b].d[j]
PROOF
  <1> DEFINE T == {k \in 0 .. 4 : k >= b => f[k].d[j] = f[b].d[j]}
  <1>1. 0 \in T
    OBVIOUS
  <1>2. ASSUME NEW k \in 1 .. 4, k - 1 \in T
        PROVE  k \in T
    <2>1. CASE k > b
      <3> DEFINE i == k - 1
      <3>1. i \in 0 .. 3 /\ i >= b /\ i + 1 = k /\ j < i
        BY <2>1
      <3>2. f[i].d[j] = f[b].d[j]
        BY <1>2, <3>1
      <3> HIDE DEF i
      <3>3. f[i] \in UnescapeState /\ f[i + 1] = UnescapeRound(f[i], i)
        BY <3>1 DEF Rounds
      <3>4. f[i + 1].d[j] = f[i].d[j]
        BY <3>1, <3>3, UnescapeKeeps
      <3> QED
        BY <3>1, <3>2, <3>4
    <2>2. CASE ~ (k > b)
      BY <2>2
    <2> QED
      BY <2>1, <2>2
  <1> HIDE DEF T
  <1>3. 0 .. 4 \subseteq T
    BY <1>1, <1>2, Induct
  <1>4. 4 \in T
    BY <1>3
  <1> QED
    BY <1>4 DEF T

\* The bytes that the SPI core escapes.
Special == {BYTESIDLECHAR, BYTESESCCHAR}

\* No byte before the n-th is one of those.
PlainTo(m, n) == \A j \in 0 .. 3 : j < n => m[j] \notin Special

\* Before the first byte that the SPI core escapes nothing happens.
LEMMA RoundsPlain ==
  ASSUME NEW f, NEW m \in Memory, Rounds(f, m), NEW n \in 0 .. 4, PlainTo(m, n)
  PROVE  f[n] = Taken(m)
PROOF
  <1> DEFINE T == {k \in 0 .. n : f[k] = Taken(m)}
  <1>1. 0 \in T
    <2>1. 0 \in 0 .. n /\ f[0] = Taken(m)
      BY DEF Rounds
    <2> QED
      BY <2>1
  <1>2. ASSUME NEW k \in 1 .. n, k - 1 \in T
        PROVE  k \in T
    <2> DEFINE i == k - 1
               z == Taken(m)
    <2>1. i \in 0 .. 3 /\ i + 1 = k /\ i < n /\ k \in 0 .. n
      OBVIOUS
    <2>2. f[i] = z
      BY <1>2
    <2> HIDE DEF i
    <2>3. f[i + 1] = UnescapeRound(z, i)
      BY <2>1, <2>2 DEF Rounds
    <2>4. m[i] # BYTESESCCHAR /\ m[i] # BYTESIDLECHAR
      BY <2>1 DEF Special, PlainTo
    <2>5. UnescapeRound(z, i) = z
      BY <2>1, <2>4, UnescapeIs
    <2> HIDE DEF z
    <2>6. f[k] = z
      BY <2>1, <2>3, <2>5
    <2> QED
      BY <2>1, <2>6 DEF z
  <1> HIDE DEF T
  <1>3. 0 .. n \subseteq T
    BY <1>1, <1>2, Induct
  <1>4. n \in T
    BY <1>3
  <1> QED
    BY <1>4 DEF T

\* The first byte that the SPI core escapes, or the one behind it, is changed.
LEMMA RoundsSpecial ==
  ASSUME NEW f, NEW m \in Memory, Rounds(f, m), m[4] # xor_20(BYTESESCCHAR),
         NEW k \in 0 .. 3, m[k] \in Special, PlainTo(m, k)
  PROVE  \E j \in 0 .. 3 : f[4].d[j] # m[j]
PROOF
  <1> DEFINE z == Taken(m)
             b == xor_20(m[k + 1])
             u == Undone(m, k, b)
             v == [m EXCEPT ![k] = 0]
  <1>1. f[k] = z
    <2>1. k \in 0 .. 4
      OBVIOUS
    <2> QED
      BY <2>1, RoundsPlain
  <1>2. k + 1 \in 0 .. 4 /\ k < k + 1
    OBVIOUS
  <1>3. f[k + 1] = UnescapeRound(z, k)
    BY <1>1 DEF Rounds
  <1>4. f[4].d[k] = f[k + 1].d[k]
    BY <1>2, RoundKept
  <1>5. UnescapeRound(z, k) = IF m[k] = BYTESESCCHAR THEN Skipping(u)
                              ELSE IF m[k] = BYTESIDLECHAR THEN Taken(v) ELSE z
    BY UnescapeIs
  <1>6. b \in Byte /\ 0 \in Byte
    <2>1. b \in Byte
      BY UnescapeIs
    <2> QED
      BY <2>1 DEF Byte
  <1>7. CASE m[k] = BYTESIDLECHAR
    <2>1. m[k] # BYTESESCCHAR /\ m[k] # 0
      BY <1>7 DEF BYTESIDLECHAR, BYTESESCCHAR
    <2>2. f[k + 1] = Taken(v)
      <3> HIDE DEF u, v, z
      <3> QED
        BY <1>3, <1>5, <1>7, <2>1
    <2>3. v[k] = 0
      BY ZeroedIs
    <2> HIDE DEF v
    <2>4. f[k + 1].d = v
      BY <2>2, UnGet
    <2> QED
      BY <1>4, <2>1, <2>3, <2>4
  <1>8. CASE m[k] = BYTESESCCHAR
    <2>1. f[k + 1] = Skipping(u)
      <3> HIDE DEF u, v, z
      <3> QED
        BY <1>3, <1>5, <1>8
    <2> HIDE DEF b
    <2>2. u \in Memory /\ u[k] = b /\ u[k + 1] = 0
      BY <1>6, UndoneIs
    <2> HIDE DEF u
    <2>3. f[k + 1].d = u
      BY <2>1, UnGet
    <2>4. CASE b # BYTESESCCHAR
      BY <1>4, <1>8, <2>2, <2>3, <2>4
    <2>5. CASE b = BYTESESCCHAR
      <3> DEFINE i == k + 1
      <3>1. m[i] = xor_20(BYTESESCCHAR)
        <4>1. i \in 0 .. 44
          OBVIOUS
        <4>2. m[i] \in Byte
          BY <4>1 DEF Memory
        <4> QED
          BY <2>5, <4>2, XorType DEF b
      <3>2. i \in 0 .. 3 /\ i + 1 \in 0 .. 4 /\ i < i + 1
        <4>1. i # 4
          BY <3>1
        <4> QED
          BY <4>1
      <3>3. f[i] = Skipping(u) /\ u[i] = 0
        BY <2>1, <2>2
      <3>4. m[i] # 0
        BY <3>1 DEF xor_20, BYTESESCCHAR
      <3> HIDE DEF i
      <3>5. f[i + 1] = UnescapeRound(Skipping(u), i)
        BY <3>2, <3>3 DEF Rounds
      <3>6. f[i + 1] = Taken(u)
        BY <2>2, <3>2, <3>5, UnescapeIs
      <3>7. f[i + 1].d = u
        BY <3>6, UnGet
      <3>8. f[4].d[i] = f[i + 1].d[i]
        BY <3>2, RoundKept
      <3> QED
        BY <3>2, <3>3, <3>4, <3>7, <3>8
    <2> QED
      BY <2>4, <2>5
  <1> QED
    BY <1>7, <1>8 DEF Special

\* Undoing the escapes of a word leaves it as it is exactly if nothing in it
\* is one of those bytes, unless the byte behind it completes an escape.
LEMMA UnescapedIs ==
  ASSUME NEW m \in Memory
  PROVE  /\ Unescaped(m) \in ByteSeq(4)
         /\ m[4] # xor_20(BYTESESCCHAR) =>
              ((\A k \in 1 .. 4 : Unescaped(m)[k] = m[k - 1]) <=> \A j \in 0 .. 3 : m[j] \notin Special)
PROOF
  <1>1. PICK f : Rounds(f, m) /\ Unescaped(m) = [k \in 1 .. 4 |-> f[4].d[k - 1]]
    BY RoundsExist
  <1> DEFINE u == f[4].d
  <1>2. u \in Memory
    <2>1. f[4] \in UnescapeState
      BY <1>1 DEF Rounds
    <2> QED
      BY <2>1 DEF UnescapeState
  <1>3. Unescaped(m) = [k \in 1 .. 4 |-> u[k - 1]]
    BY <1>1
  <1> HIDE DEF u
  <1>4. Unescaped(m) \in ByteSeq(4)
    <2>1. \A k \in 1 .. 4 : k - 1 \in 0 .. 44
      OBVIOUS
    <2>2. \A k \in 1 .. 4 : u[k - 1] \in Byte
      BY <1>2, <2>1 DEF Memory
    <2> QED
      BY <1>3, <2>2 DEF ByteSeq
  <1>5. (\A k \in 1 .. 4 : Unescaped(m)[k] = m[k - 1]) <=> (\A j \in 0 .. 3 : u[j] = m[j])
    <2>1. ASSUME \A k \in 1 .. 4 : Unescaped(m)[k] = m[k - 1], NEW j \in 0 .. 3
          PROVE  u[j] = m[j]
      <3>1. j + 1 \in 1 .. 4 /\ (j + 1) - 1 = j
        OBVIOUS
      <3>2. Unescaped(m)[j + 1] = m[(j + 1) - 1]
        BY <2>1, <3>1
      <3>3. Unescaped(m)[j + 1] = u[(j + 1) - 1]
        BY <1>3, <3>1
      <3> QED
        BY <3>1, <3>2, <3>3
    <2>2. ASSUME \A j \in 0 .. 3 : u[j] = m[j], NEW k \in 1 .. 4
          PROVE  Unescaped(m)[k] = m[k - 1]
      <3>1. k - 1 \in 0 .. 3
        OBVIOUS
      <3>2. Unescaped(m)[k] = u[k - 1]
        BY <1>3
      <3> QED
        BY <2>2, <3>1, <3>2
    <2> QED
      BY <2>1, <2>2
  <1>6. ASSUME m[4] # xor_20(BYTESESCCHAR)
        PROVE  (\A j \in 0 .. 3 : u[j] = m[j]) <=> \A j \in 0 .. 3 : m[j] \notin Special
    <2>1. ASSUME \A j \in 0 .. 3 : m[j] \notin Special
          PROVE  \A j \in 0 .. 3 : u[j] = m[j]
      <3>1. PlainTo(m, 4)
        BY <2>1 DEF PlainTo
      <3>2. f[4] = Taken(m)
        BY <1>1, <3>1, RoundsPlain
      <3>3. u = m
        BY <3>2, UnGet DEF u
      <3> QED
        BY <3>3
    <2>2. ASSUME NEW i \in 0 .. 3, m[i] \in Special
          PROVE  \E j \in 0 .. 3 : u[j] # m[j]
      <3> DEFINE B == {j \in 0 .. 3 : m[j] \in Special}
      <3>1. B \subseteq Nat /\ B # {}
        BY <2>2
      <3>2. PICK k \in B : \A y \in B : k <= y
        <4> HIDE DEF B
        <4> QED
          BY <3>1, Minimum
      <3>3. k \in 0 .. 3 /\ m[k] \in Special
        OBVIOUS
      <3>4. PlainTo(m, k)
        BY <3>2, <3>3 DEF PlainTo
      <3> QED
        BY <1>1, <1>6, <3>3, <3>4, RoundsSpecial DEF u
    <2> QED
      BY <2>1, <2>2
  <1> QED
    BY <1>4, <1>5, <1>6

\* A round leaves a byte that the SPI core does not escape, or makes it 0.
LEMMA RoundOrdinary ==
  ASSUME NEW st \in UnescapeState, NEW k \in 0 .. 3, NEW j \in 0 .. 3, st.d[j] \notin Special
  PROVE  UnescapeRound(st, k).d[j] \in {st.d[j], 0}
PROOF
  <1>1. PICK d \in Memory, x \in BOOLEAN : st = Un(d, x)
    BY DEF UnescapeState, Un
  <1>2. st.d = d
    BY <1>1, UnFields
  <1> DEFINE r == UnescapeRound(st, k)
  <1>3. CASE x = TRUE
    <2>1. r = Taken(d)
      BY <1>1, <1>3, UnescapeIs DEF Skipping
    <2>2. r.d = d
      BY <2>1, UnGet
    <2> QED
      BY <1>2, <2>2
  <1>4. CASE x = FALSE
    <2> DEFINE b == xor_20(d[k + 1])
               u == Undone(d, k, b)
               v == [d EXCEPT ![k] = 0]
    <2>1. /\ r = IF d[k] = BYTESESCCHAR THEN Skipping(u) ELSE IF d[k] = BYTESIDLECHAR THEN Taken(v) ELSE Taken(d)
          /\ b \in Byte
      BY <1>1, <1>4, UnescapeIs DEF Taken
    <2>2. d \in [0 .. 44 -> Byte] /\ j \in 0 .. 44 /\ k \in 0 .. 44 /\ k + 1 \in 0 .. 44
      BY DEF Memory
    <2>3. CASE d[k] = BYTESESCCHAR
      <3>1. j # k
        BY <1>2, <2>3 DEF Special
      <3>2. r = Skipping(u)
        BY <2>1, <2>3
      <3>3. r.d = u
        BY <3>2, UnGet
      <3>4. u = [[d EXCEPT ![k] = b] EXCEPT ![k + 1] = 0]
        BY DEF Undone
      <3> HIDE DEF b, u, r
      <3>5. u[j] \in {d[j], 0}
        BY <2>2, <3>1, <3>4
      <3> QED
        BY <1>2, <3>3, <3>5 DEF r
    <2>4. CASE d[k] # BYTESESCCHAR /\ d[k] = BYTESIDLECHAR
      <3>1. r = Taken(v)
        BY <2>1, <2>4
      <3>2. r.d = v
        BY <3>1, UnGet
      <3>3. v[j] \in {d[j], 0}
        BY <2>2
      <3> HIDE DEF v, r
      <3> QED
        BY <1>2, <3>2, <3>3 DEF r
    <2>5. CASE d[k] # BYTESESCCHAR /\ d[k] # BYTESIDLECHAR
      <3>1. r = Taken(d)
        BY <2>1, <2>5
      <3>2. r.d = d
        BY <3>1, UnGet
      <3> QED
        BY <1>2, <3>2
    <2> QED
      BY <2>3, <2>4, <2>5
  <1> QED
    BY <1>3, <1>4

\* So do all of them.
LEMMA UnescapedOrdinary ==
  ASSUME NEW m \in Memory, NEW j \in 0 .. 3, m[j] \in Ordinary
  PROVE  Unescaped(m)[j + 1] \in {m[j], 0}
PROOF
  <1>1. PICK f : Rounds(f, m) /\ Unescaped(m) = [k \in 1 .. 4 |-> f[4].d[k - 1]]
    BY RoundsExist
  <1>2. m[j] \notin Special /\ 0 \notin Special
    BY DEF Ordinary, Special, BYTESIDLECHAR, BYTESESCCHAR
  <1> DEFINE T == {k \in 0 .. 4 : f[k].d[j] \in {m[j], 0}}
  <1>3. 0 \in T
    <2>1. f[0].d = m
      BY <1>1, UnGet DEF Rounds
    <2> QED
      BY <2>1
  <1>4. ASSUME NEW k \in 1 .. 4, k - 1 \in T
        PROVE  k \in T
    <2> DEFINE i == k - 1
    <2>1. i \in 0 .. 3 /\ i \in 0 .. 4 /\ i + 1 = k /\ k \in 0 .. 4
      OBVIOUS
    <2>2. f[i].d[j] \in {m[j], 0}
      BY <1>4
    <2> HIDE DEF i
    <2>3. f[i] \in UnescapeState /\ f[i + 1] = UnescapeRound(f[i], i)
      BY <1>1, <2>1 DEF Rounds
    <2>4. f[i].d[j] \notin Special
      BY <1>2, <2>2
    <2>5. UnescapeRound(f[i], i).d[j] \in {f[i].d[j], 0}
      BY <2>1, <2>3, <2>4, RoundOrdinary
    <2>6. f[k].d[j] \in {m[j], 0}
      BY <2>1, <2>2, <2>3, <2>5
    <2> QED
      BY <2>1, <2>6
  <1> HIDE DEF T
  <1>5. 0 .. 4 \subseteq T
    BY <1>3, <1>4, Induct
  <1>6. f[4].d[j] \in {m[j], 0}
    BY <1>5 DEF T
  <1>7. j + 1 \in 1 .. 4 /\ (j + 1) - 1 = j
    OBVIOUS
  <1>8. Unescaped(m)[j + 1] = f[4].d[(j + 1) - 1]
    BY <1>1, <1>7
  <1> QED
    BY <1>6, <1>7, <1>8

\* A word in which the head of a packet is found is misread.
LEMMA HeadedMisread ==
  ASSUME NEW w \in ByteSeq(4), NEW g \in ByteSeq(Unread), ~ Misled(w, g), StartsIn(w)
  PROVE  Returned(w, g) # w
PROOF
  <1> DEFINE m == Behind(w, g)
             p == Reparsed(w, g)
             r == Returned(w, g)
  <1>1. m \in Memory /\ p \in Memory /\ r = Unescaped(p)
    BY BehindType, ReparsedIs DEF Returned
  <1>2. m[0] = w[1] /\ m[1] = w[2] /\ m[2] = w[3] /\ m[3] = w[4]
    BY WordBehind
  <1>3. Plainly(m)
    <2>1. \A k \in 1 .. 41 : g[k] \in Ordinary
      <3>1. \A k \in 1 .. 41 : g[k] \notin {BYTESIDLECHAR, BYTESESCCHAR, SOP, CHANNEL}
        <4>1. \A k \in 1 .. Unread : g[k] \notin {BYTESIDLECHAR, BYTESESCCHAR, SOP, CHANNEL}
          BY Zenon DEF Misled
        <4>2. Unread = 41
          BY DEF Unread, SCAN
        <4> QED
          BY <4>1, <4>2
      <3>2. \A k \in 1 .. 41 : g[k] \in Byte
        BY DEF ByteSeq, Unread, SCAN
      <3> QED
        BY <3>1, <3>2 DEF Ordinary
    <2>2. \A k \in 1 .. 41 : m[k + 3] = g[k]
      BY BehindType
    <2> HIDE DEF m
    <2>3. ASSUME NEW i \in 4 .. 44
          PROVE  m[i] \in Ordinary
      <3>1. i - 3 \in 1 .. 41 /\ (i - 3) + 3 = i
        OBVIOUS
      <3>2. m[(i - 3) + 3] = g[i - 3] /\ g[i - 3] \in Ordinary
        BY <2>1, <2>2, <3>1
      <3> QED
        BY <3>1, <3>2
    <2> QED
      BY <2>3 DEF Plainly
  <1>4. PICK f : Scans(f, m) /\ p = f[40].d
    BY ScansExist
  <1> HIDE DEF m, p, r
  <1>5. /\ m[0] = CHANNEL /\ m[2] = SOP => p[0] \in Ordinary \/ p[2] \in Ordinary
        /\ m[0] # CHANNEL /\ m[1] = CHANNEL /\ m[3] = SOP => p[1] \in Ordinary
    BY <1>1, <1>3, <1>4, HeadOverwritten
  <1>6. \/ w[1] = CHANNEL /\ w[3] = SOP /\ (p[0] \in Ordinary \/ p[2] \in Ordinary)
        \/ w[2] = CHANNEL /\ p[1] \in Ordinary
    BY <1>2, <1>5 DEF StartsIn
  <1>7. \A b \in Ordinary \cup {0} : b # CHANNEL /\ b # SOP
    BY DEF Ordinary, CHANNEL, SOP
  <1>8. /\ p[0] \in Ordinary => r[1] \in Ordinary \cup {0}
        /\ p[1] \in Ordinary => r[2] \in Ordinary \cup {0}
        /\ p[2] \in Ordinary => r[3] \in Ordinary \cup {0}
    <2>1. ASSUME NEW j \in 0 .. 3, p[j] \in Ordinary
          PROVE  r[j + 1] \in Ordinary \cup {0}
      <3>1. r[j + 1] \in {p[j], 0}
        BY <1>1, <2>1, UnescapedOrdinary
      <3> QED
        BY <2>1, <3>1
    <2>2. 0 \in 0 .. 3 /\ 1 \in 0 .. 3 /\ 2 \in 0 .. 3 /\ 0 + 1 = 1 /\ 1 + 1 = 2 /\ 2 + 1 = 3
      OBVIOUS
    <2>3. /\ p[0] \in Ordinary => r[0 + 1] \in Ordinary \cup {0}
          /\ p[1] \in Ordinary => r[1 + 1] \in Ordinary \cup {0}
          /\ p[2] \in Ordinary => r[2 + 1] \in Ordinary \cup {0}
      BY <2>1, <2>2
    <2> QED
      BY <2>2, <2>3
  <1>9. r # w
    BY <1>6, <1>7, <1>8
  <1> QED
    BY <1>9 DEF r

\* What fpga_read returns for a decoded word, if nothing misleads it.
LEMMA ReturnedIs ==
  ASSUME NEW w \in ByteSeq(4), NEW g \in ByteSeq(Unread)
  PROVE  /\ Returned(w, g) \in ByteSeq(4)
         /\ ~ Misled(w, g) => (Returned(w, g) = w <=> Plain(w))
PROOF
  <1> DEFINE m == Reparsed(w, g)
             r == Returned(w, g)
  <1>1. m \in Memory /\ r = Unescaped(m)
    BY ReparsedIs DEF Returned
  <1>2. r \in ByteSeq(4)
    BY <1>1, UnescapedIs
  <1>3. ASSUME ~ Misled(w, g), StartsIn(w)
        PROVE  r = w <=> Plain(w)
    <2>1. r # w
      BY <1>3, HeadedMisread
    <2>2. ~ Plain(w)
      BY <1>3 DEF Plain
    <2> QED
      BY <2>1, <2>2
  <1>4. ASSUME ~ Misled(w, g), ~ StartsIn(w)
        PROVE  r = w <=> Plain(w)
    <2>1. m = Behind(w, g) /\ g[1] # xor_20(BYTESESCCHAR)
      BY <1>4, ReparsedIs
    <2>2. (\A k \in 1 .. 4 : m[k - 1] = w[k]) /\ m[4] # xor_20(BYTESESCCHAR)
      <3> DEFINE b == Behind(w, g)
      <3>1. (\A k \in 1 .. 4 : b[k - 1] = w[k]) /\ b[4] = g[1]
        BY BehindType
      <3> HIDE DEF b, m
      <3>2. m = b
        BY <2>1 DEF b
      <3> QED
        BY <2>1, <3>1, <3>2
    <2> HIDE DEF m, r
    <2>3. (\A k \in 1 .. 4 : r[k] = m[k - 1]) <=> \A j \in 0 .. 3 : m[j] \notin Special
      BY <1>1, <2>2, UnescapedIs
    <2>4. r = w <=> \A k \in 1 .. 4 : r[k] = w[k]
      BY <1>2 DEF ByteSeq
    <2>5. (\A k \in 1 .. 4 : r[k] = w[k]) <=> \A k \in 1 .. 4 : r[k] = m[k - 1]
      BY <2>2
    <2>6. (\A j \in 0 .. 3 : m[j] \notin Special) <=> Plain(w)
      <3>1. ASSUME \A j \in 0 .. 3 : m[j] \notin Special, NEW k \in 1 .. 4
            PROVE  w[k] \notin Special
        <4>1. k - 1 \in 0 .. 3
          OBVIOUS
        <4> QED
          BY <2>2, <3>1, <4>1
      <3>2. ASSUME \A k \in 1 .. 4 : w[k] \notin Special, NEW j \in 0 .. 3
            PROVE  m[j] \notin Special
        <4>1. j + 1 \in 1 .. 4 /\ (j + 1) - 1 = j
          OBVIOUS
        <4>2. m[(j + 1) - 1] = w[j + 1]
          BY <2>2, <4>1
        <4> QED
          BY <3>2, <4>1, <4>2
      <3>3. Plain(w) <=> \A k \in 1 .. 4 : w[k] \notin Special
        BY <1>4 DEF Plain, Special
      <3> QED
        BY <3>1, <3>2, <3>3
    <2> QED
      BY <2>3, <2>4, <2>5, <2>6
  <1> QED
    BY <1>2, <1>3, <1>4 DEF r

-----------------------------------------------------------------------------
(* The steps of app_main, of the driver and of the FPGA.                     *)

\* Beside the properties: what is in out is bytes, no remains of requests
\* disturb the next one, and app_main goes through its six writes.
IInv ==
  /\ TypeOK
  /\ out \in Seq(Byte)
  /\ Quiet(send_byte_buffer)
  /\ pc # "read" => next \in 0 .. 5
  /\ OneRequest
  /\ AnswerDecoded
  /\ ReadExactIff

\* The six writes of app_main.
LEMMA SetupIs ==
  ASSUME NEW i \in 0 .. 5
  PROVE  \E a1 \in {0, 4}, a2 \in 0 .. 2, b \in 0 .. 17 : Setup[i + 1] = <<<<a1, a2>>, Word(b)>>
PROOF
  <1>1. /\ Setup[1] = <<<<0, 0>>, Word(16)>> /\ Setup[2] = <<<<0, 1>>, Word(0)>>
        /\ Setup[3] = <<<<0, 2>>, Word(14)>> /\ Setup[4] = <<<<4, 0>>, Word(17)>>
        /\ Setup[5] = <<<<4, 1>>, Word(0)>> /\ Setup[6] = <<<<4, 2>>, Word(13)>>
    <2> DEFINE w0 == Word(0)
               w13 == Word(13)
               w14 == Word(14)
               w16 == Word(16)
               w17 == Word(17)
    <2>1. Setup = << <<<<0, 0>>, w16>>, <<<<0, 1>>, w0>>, <<<<0, 2>>, w14>>,
                     <<<<4, 0>>, w17>>, <<<<4, 1>>, w0>>, <<<<4, 2>>, w13>> >>
      BY DEF Setup
    <2> HIDE DEF w0, w13, w14, w16, w17
    <2>2. /\ Setup[1] = <<<<0, 0>>, w16>> /\ Setup[2] = <<<<0, 1>>, w0>> /\ Setup[3] = <<<<0, 2>>, w14>>
          /\ Setup[4] = <<<<4, 0>>, w17>> /\ Setup[5] = <<<<4, 1>>, w0>> /\ Setup[6] = <<<<4, 2>>, w13>>
      BY <2>1
    <2> QED
      BY <2>2 DEF w0, w13, w14, w16, w17
  <1>2. i + 1 = 1 \/ i + 1 = 2 \/ i + 1 = 3 \/ i + 1 = 4 \/ i + 1 = 5 \/ i + 1 = 6
    OBVIOUS
  <1>3. CASE i + 1 = 1
    BY <1>1, <1>3
  <1>4. CASE i + 1 = 2
    BY <1>1, <1>4
  <1>5. CASE i + 1 = 3
    BY <1>1, <1>5
  <1>6. CASE i + 1 = 4
    BY <1>1, <1>6
  <1>7. CASE i + 1 = 5
    BY <1>1, <1>7
  <1>8. CASE i + 1 = 6
    BY <1>1, <1>8
  <1> QED
    BY <1>2, <1>3, <1>4, <1>5, <1>6, <1>7, <1>8

\* Words of one byte or two are words.
LEMMA WordType ==
  ASSUME NEW b \in Byte, NEW c \in Byte
  PROVE  Word(b) \in ByteSeq(4) /\ <<b, 0, 0, c>> \in ByteSeq(4)
PROOF
  <1>1. 0 \in Byte
    BY DEF Byte
  <1> QED
    BY <1>1 DEF Word, ByteSeq

\* Zeros are bytes.
LEMMA ZerosType ==
  ASSUME NEW n \in Nat
  PROVE  Zeros(n) \in ByteSeq(n) /\ \A k \in 1 .. n : Zeros(n)[k] = 0
PROOF
  <1>1. 0 \in Byte
    BY DEF Byte
  <1> QED
    BY <1>1 DEF Zeros, ByteSeq

\* IInv holds before app_main begins.
LEMMA Initially ==
  Init => IInv
PROOF
  <1> SUFFICES ASSUME Init
               PROVE  IInv
    OBVIOUS
  <1>1. Zeros(4) \in ByteSeq(4) /\ Zeros(Longest) \in ByteSeq(Longest) /\ \A k \in 1 .. Longest : Zeros(Longest)[k] = 0
    <2>1. 4 \in Nat /\ Longest \in Nat
      BY DEF Longest
    <2> QED
      BY <2>1, ZerosType
  <1>2. TypeOK
    <2>1. 0 \in 0 .. 2 * Registers - 1
      BY RegistersAssumption
    <2>2. mem \in [Addr -> ByteSeq(4)]
      BY <1>1 DEF Init
    <2>3. Len(out) <= Longest
      BY DEF Init, Longest
    <2> QED
      BY <1>1, <2>1, <2>2, <2>3 DEF Init, TypeOK
  <1>3. out \in Seq(Byte)
    BY DEF Init
  <1>4. Quiet(send_byte_buffer)
    <2>1. 0 \in Rest
      BY DEF Rest, Byte, SOP, BYTESESCCHAR
    <2>2. \A k \in 2 .. Longest : k \in 1 .. Longest
      BY DEF Longest
    <2> DEFINE z == Zeros(Longest)
    <2>3. z \in ByteSeq(Longest) /\ \A k \in 2 .. Longest : z[k] \in Rest
      BY <1>1, <2>1, <2>2
    <2> HIDE DEF z
    <2>4. send_byte_buffer = z
      BY DEF Init, z
    <2> QED
      BY <2>3, <2>4 DEF Quiet
  <1>5. next \in 0 .. 5 /\ OneRequest /\ AnswerDecoded /\ ReadExactIff
    BY DEF Init, OneRequest, AnswerDecoded, ReadExactIff
  <1> QED
    BY <1>2, <1>3, <1>4, <1>5 DEF IInv

\* Steps that leave the transfers alone.
LEMMA Elsewhere ==
  ASSUME IInv, UNCHANGED <<next, spi, last>>, out' = out,
         pc' \in {"boot", "start", "wait", "stuck", "write", "read"}, pc' = "read" => pc = "read",
         pc # "read" \/ pc' = "read",
         wifi_waitflag' \in {0, 1}, hoisted' \in BOOLEAN, link' \in {"off", "started", "connecting", "up"},
         mem' \in [Addr -> ByteSeq(4)]
  PROVE  IInv'
PROOF
  <1> USE DEF IInv, spi, last
  <1>1. TypeOK'
    BY DEF TypeOK
  <1>2. (out \in Seq(Byte))' /\ Quiet(send_byte_buffer)'
    BY DEF Quiet
  <1>3. (pc # "read" => next \in 0 .. 5)'
    OBVIOUS
  <1>4. OneRequest' /\ AnswerDecoded' /\ ReadExactIff'
    BY DEF OneRequest, AnswerDecoded, ReadExactIff
  <1> QED
    BY <1>1, <1>2, <1>3, <1>4

\* fpga_write keeps IInv.
LEMMA WriteStep ==
  ASSUME IInv, fpga_write
  PROVE  IInv'
PROOF
  <1>1. /\ TypeOK /\ out \in Seq(Byte) /\ Len(out) <= 32 /\ Quiet(send_byte_buffer) /\ pc = "write" /\ next \in 0 .. 5
        /\ response_byte_buffer \in ByteSeq(Longest) /\ response_buffer \in ByteSeq(4)
        /\ mem \in [Addr -> ByteSeq(4)]
    BY DEF IInv, TypeOK, fpga_write, Longest
  <1>2. PICK a1 \in {0, 4}, a2 \in 0 .. 2, b \in 0 .. 17 : Setup[next + 1] = <<<<a1, a2>>, Word(b)>>
    BY <1>1, SetupIs
  <1> DEFINE addr == <<a1, a2>>
             data == Word(b)
             w == <<SEQUENTIAL_WRITE + 128, 0, 0, 4>>
             q == Request(SEQUENTIAL_WRITE, addr, data)
  <1>3. Transact(SEQUENTIAL_WRITE, addr, data, Answer(w)) /\ want' = w
    <2> HIDE DEF w
    <2>1. Setup[next + 1][1] = addr /\ Setup[next + 1][2] = data
      BY <1>2
    <2> HIDE DEF addr, data
    <2> DEFINE s == Setup[next + 1]
    <2>2. Transact(SEQUENTIAL_WRITE, s[1], s[2], Answer(w)) /\ want' = w
      BY DEF fpga_write, w
    <2> HIDE DEF s
    <2>3. s[1] = addr /\ s[2] = data
      BY <2>1 DEF s
    <2> QED
      BY <2>2, <2>3
  <1>4. q \in Seq(Literal) /\ q # <<>> /\ Len(Packet(q)) = 16 /\ q[1] = SEQUENTIAL_WRITE
    BY WriteRequest
  <1>5. w \in ByteSeq(4) /\ data \in ByteSeq(4)
    <2>1. b \in Byte /\ SEQUENTIAL_WRITE + 128 \in Byte /\ 4 \in Byte
      BY DEF Byte, SEQUENTIAL_WRITE
    <2> QED
      BY <2>1, WordType
  <1>6. addr \in Addr
    BY RegistersAssumption DEF Addr, Base
  <1> HIDE DEF w, data, addr, q
  <1>7. /\ Quiet(send_byte_buffer') /\ out' \in Seq(Byte) /\ Len(out') <= 32
        /\ response_byte_buffer' \in ByteSeq(Longest) /\ response_buffer' \in ByteSeq(4)
        /\ call' = q /\ seen' = <<q>>
        /\ whole' \in BOOLEAN /\ (whole' => response_buffer' = w)
        /\ mem' = mem \/ (SEQUENTIAL_WRITE = SEQUENTIAL_WRITE /\ mem' = [mem EXCEPT ![addr] = data])
    <2>1. q = Request(SEQUENTIAL_WRITE, addr, data)
      BY DEF q
    <2>2. Len(Packet(q)) \in 12 .. 16
      BY <1>4
    <2> QED
      BY <1>1, <1>3, <1>4, <1>5, <2>1, <2>2, Transfer
  <1>8. next' \in 0 .. 5 /\ pc' \in {"read", "write"} /\ UNCHANGED <<wifi, value, clean>>
    <2>1. Len(Setup) = 6
      BY DEF Setup
    <2>2. next' = (next + 1) % 6
      BY <2>1 DEF fpga_write
    <2>3. (next + 1) % 6 \in 0 .. 5
      BY <1>1
    <2> QED
      BY <2>2, <2>3 DEF fpga_write
  <1>9. TypeOK'
    <2>1. mem' \in [Addr -> ByteSeq(4)]
      BY <1>1, <1>5, <1>6, <1>7
    <2>2. next' \in 0 .. 2 * Registers - 1
      BY <1>8, RegistersAssumption
    <2>3. send_byte_buffer' \in ByteSeq(Longest)
      BY <1>7 DEF Quiet
    <2>4. want' \in ByteSeq(4)
      BY <1>3, <1>5
    <2>5. Len(out') <= Longest
      BY <1>7 DEF Longest
    <2> QED
      BY <1>1, <1>7, <1>8, <2>1, <2>2, <2>3, <2>4, <2>5 DEF TypeOK, wifi
  <1>10. OneRequest'
    BY <1>7 DEF OneRequest
  <1>11. AnswerDecoded'
    BY <1>3, <1>7 DEF AnswerDecoded
  <1>12. ReadExactIff'
    <2>1. call'[1] # SEQUENTIAL_READ
      BY <1>4, <1>7 DEF SEQUENTIAL_READ, SEQUENTIAL_WRITE
    <2> QED
      BY <2>1 DEF ReadExactIff
  <1>13. Quiet(send_byte_buffer)'
    BY <1>7 DEF Quiet
  <1> QED
    BY <1>7, <1>8, <1>9, <1>10, <1>11, <1>12, <1>13 DEF IInv

\* fpga_read keeps IInv.
LEMMA ReadStep ==
  ASSUME IInv, fpga_read
  PROVE  IInv'
PROOF
  <1>1. /\ TypeOK /\ out \in Seq(Byte) /\ Len(out) <= 32 /\ Quiet(send_byte_buffer) /\ pc = "read"
        /\ next \in 0 .. 2 * Registers - 1
        /\ response_byte_buffer \in ByteSeq(Longest) /\ response_buffer \in ByteSeq(4)
        /\ mem \in [Addr -> ByteSeq(4)]
    BY DEF IInv, TypeOK, fpga_read, Longest
  <1> PICK a1 : a1 = IF next % 2 = 0 THEN 0 ELSE 4
    OBVIOUS
  <1> PICK a2 : a2 = next \div 2
    OBVIOUS
  <1>2. a1 \in {0, 4} /\ a2 \in 0 .. Registers - 1 /\ a2 \in 0 .. 62 /\ Registers \in 3 .. 63
    BY <1>1, RegistersAssumption
  <1> DEFINE addr == <<a1, a2>>
             q == Request(SEQUENTIAL_READ, addr, <<>>)
  <1>3. addr \in Addr
    BY <1>2 DEF Addr, Base
  <1> PICK w : w = mem[addr]
    OBVIOUS
  <1>4. Transact(SEQUENTIAL_READ, addr, <<>>, Answer(w)) /\ want' = w
    BY DEF fpga_read
  <1>5. w \in ByteSeq(4)
    BY <1>1, <1>3
  <1>6. q \in Seq(Literal) /\ q # <<>> /\ Len(Packet(q)) \in 12 .. 13 /\ q[1] = SEQUENTIAL_READ
    BY <1>2, ReadRequest
  <1> HIDE DEF addr, q
  <1>7. /\ Quiet(send_byte_buffer') /\ out' \in Seq(Byte) /\ Len(out') <= 32
        /\ response_byte_buffer' \in ByteSeq(Longest) /\ response_buffer' \in ByteSeq(4)
        /\ call' = q /\ seen' = <<q>>
        /\ whole' \in BOOLEAN /\ (whole' => response_buffer' = w)
        /\ mem' = mem \/ (SEQUENTIAL_READ = SEQUENTIAL_WRITE /\ mem' = [mem EXCEPT ![addr] = <<>>])
    <2>1. q = Request(SEQUENTIAL_READ, addr, <<>>)
      BY DEF q
    <2>2. Len(Packet(q)) \in 12 .. 16
      BY <1>6
    <2> QED
      BY <1>1, <1>4, <1>5, <1>6, <2>1, <2>2, Transfer
  <1>8. mem' = mem
    BY <1>7 DEF SEQUENTIAL_READ, SEQUENTIAL_WRITE
  <1>9. PICK g \in Garbage : value' = Returned(response_buffer', g) /\ clean' = ~Misled(response_buffer', g)
    BY DEF fpga_read
  <1> PICK rb : rb = response_buffer'
    OBVIOUS
  <1>10. rb \in ByteSeq(4) /\ g \in ByteSeq(Unread)
    BY <1>7, GarbageAssumption DEF ByteSeq
  <1>11. Returned(rb, g) \in ByteSeq(4) /\ (~ Misled(rb, g) => (Returned(rb, g) = rb <=> Plain(rb)))
    BY <1>10, ReturnedIs
  <1>12. value' \in ByteSeq(4) /\ clean' \in BOOLEAN
    BY <1>9, <1>11
  <1>13. next' \in 0 .. 2 * Registers - 1 /\ pc' = "read" /\ UNCHANGED wifi
    <2> DEFINE n == 2 * Registers
    <2>1. n \in Nat /\ n > 0
      BY <1>2
    <2> HIDE DEF n
    <2>2. (next + 1) % n \in 0 .. n - 1
      <3>1. next + 1 \in Nat
        BY <1>1
      <3> DEFINE m == next + 1
      <3> HIDE DEF m
      <3>2. m % n \in 0 .. n - 1
        BY <2>1, <3>1 DEF m
      <3> QED
        BY <3>2 DEF m
    <2> QED
      BY <1>1, <2>2 DEF fpga_read, n
  <1>14. TypeOK'
    <2>1. send_byte_buffer' \in ByteSeq(Longest)
      BY <1>7 DEF Quiet
    <2>2. want' \in ByteSeq(4)
      BY <1>4, <1>5
    <2>3. Len(out') <= Longest
      BY <1>7 DEF Longest
    <2> QED
      BY <1>1, <1>7, <1>8, <1>12, <1>13, <2>1, <2>2, <2>3 DEF TypeOK, wifi
  <1>15. OneRequest'
    BY <1>7 DEF OneRequest
  <1>16. AnswerDecoded'
    BY <1>4, <1>7 DEF AnswerDecoded
  <1>17. ReadExactIff'
    <2>1. ASSUME whole', clean'
          PROVE  value' = want' <=> Plain(want')
      <3>1. rb = w /\ want' = w
        BY <1>4, <1>7, <2>1
      <3>2. value' = Returned(rb, g) /\ ~ Misled(rb, g)
        BY <1>9, <2>1
      <3>3. Returned(rb, g) = rb <=> Plain(rb)
        BY <1>11, <3>2
      <3>4. Returned(rb, g) = w <=> Plain(w)
        BY <3>1, <3>3
      <3> QED
        BY <3>1, <3>2, <3>4
    <2> QED
      BY <2>1 DEF ReadExactIff, Plain
  <1>18. Quiet(send_byte_buffer)'
    BY <1>7 DEF Quiet
  <1> QED
    BY <1>7, <1>13, <1>14, <1>15, <1>16, <1>17, <1>18 DEF IInv

\* Every step keeps IInv.
LEMMA Inductive ==
  IInv /\ [Next]_vars => IInv'
PROOF
  <1> SUFFICES ASSUME IInv, [Next]_vars
               PROVE  IInv'
    OBVIOUS
  <1>1. /\ pc \in {"boot", "start", "wait", "stuck", "write", "read"} /\ wifi_waitflag \in {0, 1}
        /\ hoisted \in BOOLEAN /\ link \in {"off", "started", "connecting", "up"} /\ mem \in [Addr -> ByteSeq(4)]
    BY DEF IInv, TypeOK
  <1>2. CASE Boot
    BY <1>1, <1>2, Elsewhere DEF Boot, fpga
  <1>3. CASE Start
    BY <1>1, <1>3, Elsewhere DEF Start, fpga
  <1>4. CASE Wait
    BY <1>1, <1>4, Elsewhere DEF Wait, fpga, wifi
  <1>5. CASE StaStart
    BY <1>1, <1>5, Elsewhere DEF StaStart, fpga
  <1>6. CASE GotIp
    BY <1>1, <1>6, Elsewhere DEF GotIp, fpga
  <1>7. CASE Disconnected
    BY <1>1, <1>7, Elsewhere DEF Disconnected, fpga
  <1>8. CASE fpga_write
    BY <1>8, WriteStep
  <1>9. CASE fpga_read
    BY <1>9, ReadStep
  <1>10. CASE Count
    <2>1. PICK w \in Words : mem' = [mem EXCEPT ![<<0, Live>>] = w]
      BY <1>10 DEF Count
    <2>2. w \in ByteSeq(4)
      BY WordsAssumption DEF ByteSeq
    <2>3. mem' \in [Addr -> ByteSeq(4)]
      BY <1>1, <2>1, <2>2
    <2> QED
      BY <1>1, <1>10, <2>3, Elsewhere DEF Count, wifi
  <1>11. CASE UNCHANGED vars
    BY <1>1, <1>11, Elsewhere DEF vars, wifi, fpga
  <1> QED
    BY <1>2, <1>3, <1>4, <1>5, <1>6, <1>7, <1>8, <1>9, <1>10, <1>11 DEF Next

\* IInv holds always: whatever the lags, the words and what fpga_read
\* has on its stack behind them, the library stays in step with the FPGA.
THEOREM Invariance ==
  Spec => []IInv
PROOF
  <1>1. Init => IInv
    BY Initially
  <1>2. IInv /\ [Next]_vars => IInv'
    BY Inductive
  <1> QED
    BY <1>1, <1>2, PTL DEF Spec

\* TypeOK: the buffers of SPIbus keep their lengths, and what an answer that
\* came late leaves in the FPGA never grows beyond them.
THEOREM TypeCorrect ==
  Spec => []TypeOK
BY Invariance, PTL DEF IInv

\* OneRequest: do_transaction sends twice as many bytes as a request has,
\* from a buffer it does not clear; the FPGA sees this request and no other.
THEOREM RequestsCorrect ==
  Spec => []OneRequest
BY Invariance, PTL DEF IInv

\* AnswerDecoded: an answer that came whole and alone is decoded by
\* core_to_byte_convert and packet_to_byte_convert to what the FPGA sent.
THEOREM AnswersCorrect ==
  Spec => []AnswerDecoded
BY Invariance, PTL DEF IInv

\* ReadExactIff: what fpga_read returns of a whole answer is the register
\* exactly if neither 0x4a nor 0x4d is among its bytes and no head of a packet
\* is found in it, where nothing behind the word misleads it: no packet begins
\* there or with the word's last bytes, no escape is completed there, and a
\* packet that began in the word is not followed by a byte that could let the
\* copied bytes spell the word again.
THEOREM ReadsCorrect ==
  Spec => []ReadExactIff
BY Invariance, PTL DEF IInv
=============================================================================
