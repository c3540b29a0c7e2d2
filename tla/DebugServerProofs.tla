------------------------- MODULE DebugServerProofs -------------------------
(***************************************************************************)
(* The debugger and its two front ends keep their promises for any program, *)
(* any breakpoints and watchpoints, any requests of the editor and any number *)
(* of clients: execution stops where it was asked to and nowhere else, an  *)
(* editor that believes the program stopped can make it go on, and the answer *)
(* a client receives is the one to the request it sent.                    *)
(*                                                                         *)
(* An execution is a sequence of paired hook calls.  The invariant says that *)
(* the debugger's stack is what is being evaluated, that its state is what *)
(* remains of the last command, that the editor's view and its queue of    *)
(* requests fit the phase of the server, and that the requests of a client *)
(* are under way in their order.                                           *)
(***************************************************************************)
EXTENDS DebugServer, SequenceTheorems, WellFoundedInduction, TLAPS

\* A non-empty set of naturals has a least element.
LEMMA LeastNatural ==
    ASSUME NEW S \in SUBSET Nat, S # {}
    PROVE  \E m \in S : \A n \in S : m <= n
<1> DEFINE R == {ss \in Nat \X Nat : ss[1] < ss[2]}
<1>1. IsWellFoundedOn(R, Nat)
  BY NatLessThanWellFounded, Zenon DEF OpToRel
<1>2. PICK m \in S : \A n \in S : ~(<<n, m>> \in R)
  <2> HIDE DEF R
  <2> QED  BY <1>1, WFMin, Zenon
<1>3. \A n \in S : <<n, m>> \in Nat \X Nat /\ <<n, m>>[1] = n /\ <<n, m>>[2] = m
  OBVIOUS
<1>4. ASSUME NEW n \in S PROVE ~(n < m)
  BY <1>2, <1>3, Zenon
<1>5. QED  BY <1>4

\* Induction up to a bound, for a set in place of a predicate.
LEMMA Reaches ==
    ASSUME NEW N \in Nat, NEW S, 0 \in S, \A n \in 0..(N - 1) : n \in S => n + 1 \in S
    PROVE  \A n \in 0..N : n \in S
<1> DEFINE C == {n \in 0..N : n \notin S}
<1> SUFFICES ASSUME C # {} PROVE FALSE
  OBVIOUS
<1>1. PICK m \in C : \A n \in C : m <= n
  <2>1. C \in SUBSET Nat
    OBVIOUS
  <2> HIDE DEF C
  <2> QED  BY <2>1, LeastNatural
<1>2. m \in 0..N /\ m # 0 /\ m \notin S
  BY <1>1
<1>3. m - 1 \in 0..(N - 1) /\ m - 1 \in 0..N /\ (m - 1) + 1 = m /\ ~(m <= m - 1)
  BY <1>2
<1>4. m - 1 \in S
  BY <1>1, <1>3
<1>5. m \in S
  BY <1>3, <1>4
<1>6. QED  BY <1>2, <1>5

\* The front of a non-empty sequence.
LEMMA FrontIs ==
    ASSUME NEW S, NEW s \in Seq(S), s # <<>>
    PROVE  /\ SX!Front(s) \in Seq(S) /\ Len(SX!Front(s)) = Len(s) - 1
           /\ \A i \in 1..(Len(s) - 1) : SX!Front(s)[i] = s[i]
           /\ SX!Last(s) = s[Len(s)] /\ Len(s) \in Nat /\ Len(s) >= 1
<1>1. SX!Front(s) = SubSeq(s, 1, Len(s) - 1)
  BY DEF SX!Front
<1>2. Len(s) \in Nat /\ Len(s) # 0
  BY EmptySeq
<1>3. \A i \in 1..(Len(s) - 1) : s[i] \in S
  OBVIOUS
<1>4. 1 \in Int /\ Len(s) - 1 \in Int
  BY <1>2
<1>5. /\ SubSeq(s, 1, Len(s) - 1) \in Seq(S)
      /\ Len(SubSeq(s, 1, Len(s) - 1)) = IF 1 <= Len(s) - 1 THEN (Len(s) - 1) - 1 + 1 ELSE 0
      /\ \A i \in 1..((Len(s) - 1) - 1 + 1) : SubSeq(s, 1, Len(s) - 1)[i] = s[1 + i - 1]
  BY ONLY <1>3, <1>4, SubSeqProperties
<1>6. (Len(s) - 1) - 1 + 1 = Len(s) - 1 /\ \A i \in 1..(Len(s) - 1) : 1 + i - 1 = i
  BY <1>2
<1>7. SX!Last(s) = s[Len(s)]
  BY DEF SX!Last
<1>8. QED  BY <1>1, <1>2, <1>5, <1>6, <1>7

-----------------------------------------------------------------------------
(* The expressions that are being evaluated. *)

\* g says what is being evaluated after each of the first N calls.
Nested(g, calls, N) ==
    /\ g \in [0..N -> Seq(Nat)]
    /\ g[0] = <<>>
    /\ \A n \in 1..N : g[n] = IF calls[n].ev = "begin" THEN Append(g[n - 1], n) ELSE SX!Front(g[n - 1])

LEMMA FrontOfAny ==
    ASSUME NEW S, NEW s \in Seq(S)
    PROVE  SX!Front(s) \in Seq(S)
<1>1. CASE s # <<>>
  BY <1>1, FrontIs
<1>2. CASE s = <<>>
  <2>1. SX!Front(s) = SubSeq(s, 1, Len(s) - 1) /\ Len(s) = 0
    BY <1>2 DEF SX!Front
  <2>2. SubSeq(s, 1, Len(s) - 1) = <<>>
    BY <2>1, SubSeqEmpty
  <2>3. QED  BY <2>1, <2>2
<1>3. QED  BY <1>1, <1>2

LEMMA NestedExists ==
    ASSUME NEW calls, NEW N \in Nat
    PROVE  \E g : Nested(g, calls, N)
<1> DEFINE S == {n \in 0..N : \E g : Nested(g, calls, n)}
<1>1. 0 \in S
  <2>1. Nested([n \in 0..0 |-> <<>>], calls, 0)
    BY DEF Nested
  <2>2. QED  BY <2>1
<1>2. ASSUME NEW n \in 0..(N - 1), n \in S PROVE n + 1 \in S
  <2>1. PICK g : Nested(g, calls, n)
    BY <1>2
  <2> DEFINE last == IF calls[n + 1].ev = "begin" THEN Append(g[n], n + 1) ELSE SX!Front(g[n])
             h == [m \in 0..(n + 1) |-> IF m = n + 1 THEN last ELSE g[m]]
  <2>2. g[n] \in Seq(Nat)
    BY <2>1 DEF Nested
  <2>3. last \in Seq(Nat)
    BY <2>2, FrontOfAny
  <2> HIDE DEF last
  <2>4. h \in [0..(n + 1) -> Seq(Nat)]
    BY <2>1, <2>3 DEF Nested
  <2>5. h[0] = <<>> /\ h[n] = g[n] /\ h[n + 1] = last /\ \A m \in 0..n : h[m] = g[m]
    BY <2>1 DEF Nested
  <2>6. \A m \in 1..n : m - 1 \in 0..n /\ m \in 0..n
    OBVIOUS
  <2> HIDE DEF h
  <2>7. ASSUME NEW m \in 1..(n + 1)
        PROVE  h[m] = IF calls[m].ev = "begin" THEN Append(h[m - 1], m) ELSE SX!Front(h[m - 1])
    <3>1. CASE m = n + 1
      <4>1. m - 1 = n
        BY <3>1
      <4>2. QED  BY <3>1, <4>1, <2>5, Zenon DEF last
    <3>2. CASE m # n + 1
      <4>1. m \in 1..n
        BY <3>2
      <4>2. g[m] = IF calls[m].ev = "begin" THEN Append(g[m - 1], m) ELSE SX!Front(g[m - 1])
        BY <4>1, <2>1, Zenon DEF Nested
      <4>3. QED  BY <4>1, <4>2, <2>5, <2>6, Zenon
    <3>3. QED  BY <3>1, <3>2
  <2>8. Nested(h, calls, n + 1)
    BY <2>4, <2>5, <2>7, Zenon DEF Nested
  <2>9. n + 1 \in 0..N
    OBVIOUS
  <2>10. QED  BY <2>8, <2>9
<1>3. \A n \in 0..N : n \in S
  <2> HIDE DEF S
  <2> QED  BY <1>1, <1>2, Reaches
<1>4. QED  BY <1>3

\* FramesOf satisfies its recursive definition, for calls of any number.
LEMMA FramesAreNested ==
    ASSUME NEW calls, Len(calls) \in Nat
    PROVE  Nested(FramesOf(calls), calls, Len(calls))
<1> DEFINE N == Len(calls)
           Step(g) == [n \in 0..N |-> IF n = 0 THEN <<>>
                          ELSE IF calls[n].ev = "begin" THEN Append(g[n - 1], n) ELSE SX!Front(g[n - 1])]
           F == CHOOSE g : g = Step(g)
<1>1. FramesOf(calls) = F
  BY DEF FramesOf
<1>2. PICK g : Nested(g, calls, N)
  BY NestedExists
<1>3. \A n \in 0..N : n = 0 \/ n \in 1..N
  OBVIOUS
<1>3a. 0 \in 0..N /\ \A n \in 1..N : n \in 0..N /\ n # 0
  OBVIOUS
<1> HIDE DEF N
<1>4. g = Step(g)
  <2>1. \A n \in 0..N : g[n] = Step(g)[n]
    BY <1>2, <1>3, <1>3a DEF Nested
  <2>2. g \in [0..N -> Seq(Nat)]
    BY <1>2 DEF Nested
  <2>3. QED  BY <2>1, <2>2
<1>5. F = Step(F)
  <2> HIDE DEF Step
  <2> QED  BY <1>4, Zenon
<1> HIDE DEF F
<1>6. /\ DOMAIN F = 0..N
      /\ \A n \in 0..N : F[n] = IF n = 0 THEN <<>>
            ELSE IF calls[n].ev = "begin" THEN Append(F[n - 1], n) ELSE SX!Front(F[n - 1])
  BY <1>5
<1>7. F[0] = <<>> /\ \A n \in 1..N : F[n] = IF calls[n].ev = "begin" THEN Append(F[n - 1], n) ELSE SX!Front(F[n - 1])
  BY <1>6, <1>3a, Zenon
<1>8. \A n \in 0..N : F[n] \in Seq(Nat)
  <2> DEFINE S == {n \in 0..N : F[n] \in Seq(Nat)}
  <2>1. N \in Nat
    BY DEF N
  <2>2. 0 \in S
    <3>1. F[0] = <<>> /\ 0 \in 0..N
      BY <1>7, <1>3a, Zenon
    <3>2. <<>> \in Seq(Nat)
      OBVIOUS
    <3>3. QED  BY <3>1, <3>2
  <2>3. ASSUME NEW n \in 0..(N - 1), n \in S PROVE n + 1 \in S
    <3>1. n + 1 \in 1..N /\ (n + 1) - 1 = n /\ n + 1 \in 0..N /\ n + 1 \in Nat
      BY <2>1
    <3>2. F[n + 1] = IF calls[n + 1].ev = "begin" THEN Append(F[n], n + 1) ELSE SX!Front(F[n])
      BY <3>1, <1>7, Zenon
    <3>3. F[n] \in Seq(Nat)
      BY <2>3
    <3>4. F[n + 1] \in Seq(Nat)
      BY <3>1, <3>2, <3>3, FrontOfAny
    <3>5. QED  BY <3>1, <3>4
  <2>4. \A n \in 0..N : n \in S
    <3> HIDE DEF S
    <3> QED  BY <2>1, <2>2, <2>3, Reaches
  <2>5. QED  BY <2>4
<1>9. F \in [0..N -> Seq(Nat)]
  BY <1>5, <1>6, <1>8
<1>10. QED  BY <1>1, <1>7, <1>9, Zenon DEF Nested, N

\* The hook calls of an execution.
Trace(calls) ==
    /\ calls \in Seq(HookCall)
    /\ \A n \in 1..Len(calls) : calls[n].ev = "end" => FramesOf(calls)[n - 1] # <<>>

\* What is being evaluated after a "begin", and after an "end".
Grows(F, p, q) ==
    /\ Len(F[q]) = Len(F[p]) + 1 /\ F[q][Len(F[p]) + 1] = q
    /\ \A i \in 1..Len(F[p]) : F[q][i] = F[p][i]
Shrinks(F, p, q) ==
    /\ Len(F[p]) >= 1 /\ Len(F[q]) = Len(F[p]) - 1
    /\ \A i \in 1..(Len(F[p]) - 1) : F[q][i] = F[p][i]

\* What a hook call makes of what is being evaluated.
LEMMA FrameStep ==
    ASSUME NEW calls, Trace(calls), NEW F, F = FramesOf(calls), NEW p \in 0..(Len(calls) - 1), NEW q, q = p + 1
    PROVE  /\ q \in 1..Len(calls) /\ p \in 0..Len(calls) /\ q \in 0..Len(calls)
           /\ F[p] \in Seq(Nat) /\ F[q] \in Seq(Nat) /\ Len(F[p]) \in Nat
           /\ calls[q] \in HookCall /\ calls[q].ev \in {"begin", "end"}
           /\ calls[q].ev = "begin" => Grows(F, p, q)
           /\ calls[q].ev = "end" => Shrinks(F, p, q)
<1>1. calls \in Seq(HookCall) /\ Len(calls) \in Nat
  BY DEF Trace
<1>2. q \in 1..Len(calls) /\ p \in 0..Len(calls) /\ q \in 0..Len(calls) /\ q - 1 = p
  BY <1>1
<1>3. calls[q] \in HookCall /\ calls[q].ev \in {"begin", "end"}
  <2>1. calls[q] \in HookCall
    BY <1>1, <1>2
  <2>2. QED  BY <2>1 DEF HookCall
<1>4. Nested(F, calls, Len(calls))
  BY <1>1, FramesAreNested
<1>5. F[p] \in Seq(Nat) /\ F[q] \in Seq(Nat)
  BY <1>2, <1>4 DEF Nested
<1>6. F[q] = IF calls[q].ev = "begin" THEN Append(F[p], q) ELSE SX!Front(F[p])
  BY <1>2, <1>4, Zenon DEF Nested
<1>7. ASSUME calls[q].ev = "begin"
      PROVE  Grows(F, p, q)
  <2>1. F[q] = Append(F[p], q)
    BY <1>6, <1>7
  <2>2. q \in Nat
    BY <1>2
  <2>3. QED  BY <2>1, <2>2, <1>5 DEF Grows
<1>8. ASSUME calls[q].ev = "end"
      PROVE  Shrinks(F, p, q)
  <2>1. F[q] = SX!Front(F[p])
    BY <1>6, <1>8
  <2>2. F[p] # <<>>
    BY <1>2, <1>8, Zenon DEF Trace
  <2>3. PICK f : f = F[p]
    OBVIOUS
  <2>4. f \in Seq(Nat) /\ f # <<>>
    BY <1>5, <2>2, <2>3
  <2>5. /\ Len(SX!Front(f)) = Len(f) - 1 /\ Len(f) >= 1
        /\ \A i \in 1..(Len(f) - 1) : SX!Front(f)[i] = f[i]
    BY ONLY <2>4, FrontIs
  <2>6. QED  BY <2>1, <2>3, <2>5, Zenon DEF Shrinks
<1>9. Len(F[p]) \in Nat
  BY <1>5
<1>10. QED  BY <1>2, <1>3, <1>5, <1>7, <1>8, <1>9, Zenon

\* What is being evaluated, outermost first, has begun and in that order.
Sorted(calls, F, n) ==
    \A i \in 1..Len(F[n]) :
        /\ F[n][i] \in 1..n /\ calls[F[n][i]].ev = "begin"
        /\ \A j \in 1..Len(F[n]) : i < j => F[n][i] < F[n][j]

\* An expression that is evaluated inside another began after it.
LEMMA FramesSorted ==
    ASSUME NEW calls, Trace(calls)
    PROVE  \A n \in 0..Len(calls) : Sorted(calls, FramesOf(calls), n)
<1> DEFINE F == FramesOf(calls)
           S == {n \in 0..Len(calls) : Sorted(calls, F, n)}
<1> HIDE DEF F
<1>1. Len(calls) \in Nat /\ F = FramesOf(calls)
  BY DEF Trace, F
<1>2. 0 \in S
  <2>1. F[0] = <<>>
    BY <1>1, FramesAreNested DEF Nested
  <2>2. Len(F[0]) = 0
    BY <2>1
  <2>3. QED  BY <1>1, <2>2 DEF Sorted
<1>3. ASSUME NEW p \in 0..(Len(calls) - 1), p \in S PROVE p + 1 \in S
  <2>1. PICK q : q = p + 1
    OBVIOUS
  <2>2. /\ q \in 0..Len(calls) /\ Len(F[p]) \in Nat
        /\ calls[q].ev \in {"begin", "end"}
        /\ calls[q].ev = "begin" => Grows(F, p, q)
        /\ calls[q].ev = "end" => Shrinks(F, p, q)
    BY <1>1, <2>1, FrameStep
  <2>3. Sorted(calls, F, p)
    BY <1>3
  <2>4. p \in Nat /\ q = p + 1
    BY <2>1
  <2>5. CASE calls[q].ev = "begin"
    <3>1. Grows(F, p, q)
      BY <2>2, <2>5
    <3>2. ASSUME NEW i \in 1..Len(F[q])
          PROVE  /\ F[q][i] \in 1..q /\ calls[F[q][i]].ev = "begin"
                 /\ \A j \in 1..Len(F[q]) : i < j => F[q][i] < F[q][j]
      <4>1. CASE i = Len(F[p]) + 1
        <5>1. F[q][i] = q /\ Len(F[q]) = i /\ i \in Nat
          BY <2>2, <3>1, <4>1 DEF Grows
        <5>2. q \in 1..q /\ \A j \in 1..i : ~(i < j)
          BY <2>4, <5>1
        <5>3. QED  BY <2>5, <5>1, <5>2
      <4>2. CASE i # Len(F[p]) + 1
        <5>1. i \in 1..Len(F[p]) /\ F[q][i] = F[p][i] /\ F[p][i] \in 1..p /\ calls[F[p][i]].ev = "begin"
          BY <2>2, <2>3, <3>1, <4>2 DEF Grows, Sorted
        <5>2. \A j \in 1..Len(F[p]) : i < j => F[p][i] < F[p][j]
          BY <5>1, <2>3 DEF Sorted
        <5>3. ASSUME NEW j \in 1..Len(F[q]), i < j PROVE F[q][i] < F[q][j]
          <6>1. CASE j = Len(F[p]) + 1
            <7>1. F[q][j] = q
              BY <6>1, <3>1 DEF Grows
            <7>2. QED  BY <7>1, <5>1, <2>4
          <6>2. CASE j # Len(F[p]) + 1
            <7>1. j \in 1..Len(F[p]) /\ F[q][j] = F[p][j]
              BY <6>2, <3>1, <2>2 DEF Grows
            <7>2. QED  BY <7>1, <5>1, <5>2, <5>3
          <6>3. QED  BY <6>1, <6>2
        <5>4. F[q][i] \in 1..q /\ calls[F[q][i]].ev = "begin"
          BY <5>1, <2>4
        <5>5. QED  BY <5>3, <5>4, Zenon
      <4>3. QED  BY <4>1, <4>2
    <3>3. QED  BY <2>2, <2>4, <3>2 DEF Sorted
  <2>6. CASE calls[q].ev = "end"
    <3>1. Shrinks(F, p, q)
      BY <2>2, <2>6
    <3>2. ASSUME NEW i \in 1..Len(F[q])
          PROVE  /\ F[q][i] \in 1..q /\ calls[F[q][i]].ev = "begin"
                 /\ \A j \in 1..Len(F[q]) : i < j => F[q][i] < F[q][j]
      <4>1. i \in 1..Len(F[p]) /\ F[q][i] = F[p][i] /\ F[p][i] \in 1..p /\ calls[F[p][i]].ev = "begin"
        BY <2>2, <2>3, <3>1 DEF Shrinks, Sorted
      <4>2. \A j \in 1..Len(F[p]) : i < j => F[p][i] < F[p][j]
        BY <4>1, <2>3 DEF Sorted
      <4>3. QED  BY <2>2, <2>4, <3>1, <4>1, <4>2 DEF Shrinks
    <3>3. QED  BY <2>2, <2>4, <3>2 DEF Sorted
  <2>7. QED  BY <2>2, <2>4, <2>5, <2>6
<1>4. \A n \in 0..Len(calls) : n \in S
  <2> HIDE DEF S
  <2> QED  BY <1>1, <1>2, <1>3, Reaches
<1>5. QED  BY <1>4 DEF F

\* The expression that began with call a is being evaluated after n calls.
Opens(F, a, n) == \E i \in 1..Len(F[n]) : F[n][i] = a

\* A call that begins is what it opens; all else that is open was open before.
LEMMA OpensBegin ==
    ASSUME NEW F, NEW p, NEW q, Len(F[p]) \in Nat, Grows(F, p, q), NEW a
    PROVE  (Opens(F, a, p) => Opens(F, a, q)) /\ (Opens(F, a, q) => Opens(F, a, p) \/ a = q)
<1>1. PICK l : l = Len(F[p])
  OBVIOUS
<1>2. l \in Nat /\ Len(F[q]) = l + 1 /\ F[q][l + 1] = q /\ \A i \in 1..l : F[q][i] = F[p][i]
  BY <1>1 DEF Grows
<1>3. \A i \in 1..l : i \in 1..(l + 1)
  BY <1>2
<1>4. \A i \in 1..(l + 1) : i \in 1..l \/ i = l + 1
  BY <1>2
<1>5. ASSUME Opens(F, a, p) PROVE Opens(F, a, q)
  BY <1>1, <1>2, <1>3, <1>5, Zenon DEF Opens
<1>6. ASSUME Opens(F, a, q) PROVE Opens(F, a, p) \/ a = q
  BY <1>1, <1>2, <1>4, <1>6, Zenon DEF Opens
<1>7. QED  BY <1>5, <1>6

\* A call that ends opens nothing.
LEMMA OpensEnd ==
    ASSUME NEW F, NEW p, NEW q, Len(F[p]) \in Nat, Shrinks(F, p, q), NEW a
    PROVE  Opens(F, a, q) => Opens(F, a, p)
<1>1. PICK l : l = Len(F[p])
  OBVIOUS
<1>2. l \in Nat /\ Len(F[q]) = l - 1 /\ \A i \in 1..(l - 1) : F[q][i] = F[p][i]
  BY <1>1 DEF Shrinks
<1>3. \A i \in 1..(l - 1) : i \in 1..l
  BY <1>2
<1>4. QED  BY <1>1, <1>2, <1>3, Zenon DEF Opens

\* What is still being evaluated was being evaluated ever since it began.
LEMMA FramesLast ==
    ASSUME NEW calls, Trace(calls), NEW m \in 0..Len(calls)
    PROVE  \A n \in m..Len(calls) : \A a \in 1..m : Opens(FramesOf(calls), a, n) => Opens(FramesOf(calls), a, m)
<1> DEFINE F == FramesOf(calls)
           N == Len(calls) - m
           S == {k \in 0..N : \A a \in 1..m : Opens(F, a, m + k) => Opens(F, a, m)}
<1> HIDE DEF F
<1>1. Len(calls) \in Nat /\ F = FramesOf(calls) /\ N \in Nat
  BY DEF Trace, F
<1>2. 0 \in S
  <2>1. m + 0 = m
    OBVIOUS
  <2>2. QED  BY <1>1, <2>1
<1>3. ASSUME NEW k \in 0..(N - 1), k \in S PROVE k + 1 \in S
  <2>1. PICK p, q : p = m + k /\ q = p + 1
    OBVIOUS
  <2>2. p \in 0..(Len(calls) - 1) /\ p \in Nat /\ m <= p /\ q = m + (k + 1)
    BY <1>1, <2>1
  <2>3. /\ Len(F[p]) \in Nat
        /\ calls[q].ev \in {"begin", "end"}
        /\ calls[q].ev = "begin" => Grows(F, p, q)
        /\ calls[q].ev = "end" => Shrinks(F, p, q)
    BY <1>1, <2>1, <2>2, FrameStep
  <2>4. ASSUME NEW a \in 1..m, Opens(F, a, q) PROVE Opens(F, a, p)
    <3>1. a # q
      BY <2>1, <2>2
    <3>2. CASE calls[q].ev = "begin"
      BY <2>3, <2>4, <3>1, <3>2, OpensBegin
    <3>3. CASE calls[q].ev = "end"
      BY <2>3, <2>4, <3>3, OpensEnd
    <3>4. QED  BY <2>3, <3>2, <3>3
  <2>5. \A a \in 1..m : Opens(F, a, m + k) => Opens(F, a, m)
    BY <1>3
  <2>6. \A a \in 1..m : Opens(F, a, m + (k + 1)) => Opens(F, a, m)
    BY <2>1, <2>2, <2>4, <2>5
  <2>7. k + 1 \in 0..N
    BY <1>1
  <2>8. QED  BY <2>6, <2>7
<1>4. \A k \in 0..N : k \in S
  <2> HIDE DEF S, N
  <2> QED  BY <1>1, <1>2, <1>3, Reaches
<1>5. ASSUME NEW n \in m..Len(calls), NEW a \in 1..m, Opens(F, a, n) PROVE Opens(F, a, m)
  <2>1. n - m \in 0..N /\ m + (n - m) = n
    BY <1>1
  <2>2. n - m \in S
    BY <1>4, <2>1
  <2>3. QED  BY <2>1, <2>2, <1>5
<1>6. QED  BY <1>5 DEF F

-----------------------------------------------------------------------------
(* The types of the state. *)

\* A map from the numbers in use.
IsNumbered(f, S) == DOMAIN f \subseteq Nat /\ f \in [DOMAIN f -> S]

\* The state of the debugger, as a record and field by field.
StateNames == {"Start", "Continue", "StepOver", "StepIn", "Finish", "Finished", "Quit", "Pause", "Break", "DataBreak"}
StackFrames == [id: Nat, act: SUBSET Nat]
DebugRec(b, w, a, s, t, u) == [bps |-> b, wps |-> w, active |-> a, state |-> s, stack |-> t, unique |-> u]
IsDebugState(x) ==
    /\ x = DebugRec(x.bps, x.wps, x.active, x.state, x.stack, x.unique)
    /\ IsNumbered(x.bps, SourceLocations) /\ IsNumbered(x.wps, Variables)
    /\ x.active \subseteq Nat /\ x.state \in [k: StateNames, id: Nat] /\ x.stack \in Seq(StackFrames)
    /\ x.unique \in Nat /\ DOMAIN x.bps \cup DOMAIN x.wps \subseteq 1..x.unique

\* The requests an editor may send while it configures, once the program runs, and at all.
ConfigKinds == {"setBreakpoints", "configurationDone", "threads"}
LiveKinds == ConfigKinds \cup {"stepIn", "stepOut", "next", "continue", "evaluate", "stackTrace", "disconnect", "pause"}
AllKinds == {"initialize", "launch", "attach"} \cup LiveKinds
SaidSets == SUBSET AllKinds
PlainKinds ==
    {"initialize", "attach", "configurationDone", "threads", "stepIn", "stepOut", "next", "continue",
     "stackTrace", "disconnect", "pause"}
EditorRequests ==
    {Req(k) : k \in PlainKinds} \cup {[k |-> "launch", complete |-> b] : b \in BOOLEAN}
      \cup SetBreakpoints \cup Watch \cup Inspect

EditorViews == {"new", "init", "failed", "configuring", "stopped", "running", "gone"}
Numbers(c) == 1..Len(Scripts[c])
ClientStates(c) ==
    [sent: 0..Len(Scripts[c]), wire: Seq(Numbers(c)), back: Seq(Numbers(c)), pending: SUBSET Numbers(c),
     got: [Numbers(c) -> Int]]

\* Who has expressions run: a client of the server, or the only user there is.
Runners == Clients \cup {""}
RunType ==
    /\ mode \in {"cli", "launch", "attach"}
    /\ phase \in {"handshake", "idle", "running", "stopped", "ended"}
    /\ IsDebugState(d)
    /\ run \in [by: Runners, ks: Seq(DOMAIN Calls), pos: Nat]
    /\ goal = Goal(goal.from, goal.cmd, goal.born)
    /\ goal.from \in Nat /\ goal.cmd \in {"in", "go", "over", "out", "quit", "any"} /\ IsNumbered(goal.born, Nat)
EditorType ==
    /\ dap \in [launched: BOOLEAN, init: BOOLEAN, config: BOOLEAN]
    /\ inbox \in Seq(EditorRequests)
    /\ editor \in [view: EditorViews, said: SaidSets, owed: Int, open: BOOLEAN, extra: Nat]
SdkType ==
    sdk \in [Clients -> {sdk[c] : c \in Clients}] /\ \A c \in Clients : sdk[c] \in ClientStates(c)
TypeOK == RunType /\ EditorType /\ SdkType

-----------------------------------------------------------------------------
(* The clients. *)

Rising(s) == \A i, j \in 1..Len(s) : i < j => s[i] < s[j]
\* The requests of a client are answered in their order.
InOrder(s) ==
    /\ Rising(s.back) /\ Rising(s.wire)
    /\ \A i \in 1..Len(s.back), j \in 1..Len(s.wire) : s.back[i] < s.wire[j]
    /\ \A i \in 1..Len(s.back) : s.back[i] <= s.sent
    /\ \A i \in 1..Len(s.wire) : s.wire[i] <= s.sent
\* The blocking client has one request at a time.  Unless one timed out, no other is under way.
OneAtATime(s, all) ==
    /\ s.pending \subseteq {s.sent}
    /\ \A j \in all : j > s.sent \/ j \in s.pending => s.got[j] = -1
    /\ (\A j \in all : s.got[j] # 0) =>
          /\ \A i \in 1..Len(s.back) : s.back[i] \in s.pending
          /\ \A i \in 1..Len(s.wire) : s.wire[i] \in s.pending
\* The server executes for a client whose request it has not answered.
Busy ==
    mode = "attach" /\ phase \in {"running", "stopped"} => run.by \in Clients /\ sdk[run.by].wire # <<>>
\* The clients: what is executed is owed to one of them, and each is answered in order.
SdkInv ==
    /\ Busy
    /\ \A c \in Clients : InOrder(sdk[c]) /\ (c \in Blocking => OneAtATime(sdk[c], Numbers(c)))
    /\ AnswersBelong

-----------------------------------------------------------------------------
(* The editor. *)

Dap(l, i, c) == [launched |-> l, init |-> i, config |-> c]
\* The flags, kept folded: a Boolean inside a record is a sort of its own to the SMT backend.
Yes == TRUE
No == FALSE

\* What the requests that wait in the queue are.
Kinds(S) == \A i \in 1..Len(inbox) : inbox[i].k \in S
LastOnly(k) == \A i \in 1..Len(inbox) : inbox[i].k = k => i = Len(inbox)
Single(k) == Len(inbox) = 1 /\ inbox[1].k = k
StartKind == IF mode = "launch" THEN "launch" ELSE "attach"
Configuring ==
    /\ Kinds(ConfigKinds) /\ LastOnly("threads")
    /\ Said("threads") <=> \E i \in 1..Len(inbox) : inbox[i].k = "threads"

\* While the server waits for the editor to start the program, every request is owed an answer, and the
\* editor has asked for no more than its view allows.
HandshakeInv ==
    phase = "handshake" =>
        /\ mode # "cli" /\ dap = [launched |-> FALSE, init |-> FALSE, config |-> FALSE]
        /\ editor.owed = Len(inbox)
        /\ \/ /\ editor.view = "new"
              /\ \/ inbox = <<>> /\ editor.said = {}
                 \/ Single("initialize") /\ editor.said = {"initialize"}
           \/ /\ editor.view = "init"
              /\ \/ inbox = <<>> /\ editor.said = {"initialize"}
                 \/ Single(StartKind) /\ editor.said = {"initialize", StartKind}
           \/ editor.view = "failed" /\ inbox = <<>>
           \/ editor.view = "configuring" /\ mode = "attach" /\ Configuring
\* Once the program runs, nothing is left of the handshake, and nothing follows a "disconnect".
LiveInv ==
    phase # "handshake" => Kinds(LiveKinds) /\ LastOnly("disconnect")
\* What the editor takes the program to be doing, while it is connected.
Ready == IF mode = "attach" THEN Dap(No, No, Yes) ELSE Dap(Yes, Yes, No)
ViewInv ==
    phase # "handshake" /\ editor.open =>
        /\ mode # "cli"
        /\ \/ editor.view = "gone" /\ inbox = <<>>
           \/ /\ editor.view = "init" /\ mode = "launch" /\ dap = Dap(Yes, No, No) /\ phase \in {"running", "ended"}
              /\ inbox = <<>> /\ editor.said = {"initialize", "launch"} /\ editor.owed = 1
              /\ d.state.k = "Start" /\ DOMAIN d.bps = {} /\ DOMAIN d.wps = {}
           \/ /\ editor.view = "configuring" /\ mode = "launch" /\ dap = Dap(Yes, No, No) /\ phase = "stopped"
              /\ editor.owed = Len(inbox) + 1 /\ Configuring
           \/ /\ editor.view \in {"stopped", "running"} /\ dap = Ready
              /\ editor.owed = Len(inbox)
              /\ phase = "stopped" => editor.view = "stopped"
              /\ phase = "running" => d.state.k # "Start"
EditorInv == HandshakeInv /\ LiveInv /\ ViewInv

-----------------------------------------------------------------------------
(* Execution. *)

\* At, Hits and FirstList of the specification, for a sequence of calls and what is evaluated by them.
AtC(calls, bps, i, q) == calls[q].ev = "begin" /\ Matches(bps[i], calls[q])
HitsC(calls, F, bps, born, i, q) ==
    AtC(calls, bps, i, q) /\ \A j \in 1..Len(F[q]) : F[q][j] \in (born[i] + 1)..(q - 1) => ~ AtC(calls, bps, i, F[q][j])
FirstListC(calls, r, q) == \A a \in r..(q - 1) : calls[a].ev = "begin" => ~ calls[a].list
Parent(F, q) == IF Len(F[q]) >= 2 THEN F[q][Len(F[q]) - 1] ELSE 0

\* The debugger's stack and active breakpoints, after p hook calls.
Follows(calls, F, p, x, born) ==
    /\ Len(x.stack) = Len(F[p])
    /\ \A i \in 1..Len(F[p]) : x.stack[i].id = calls[F[p][i]].id
    /\ DOMAIN born = DOMAIN x.bps \cup DOMAIN x.wps
    /\ \A i \in DOMAIN born : born[i] <= p
    /\ x.active \subseteq 1..x.unique
    /\ \A i \in x.active : \E j \in 1..Len(F[p]) : i \in x.stack[j].act
    /\ \A j \in 1..Len(F[p]) :
          /\ x.stack[j].act \subseteq 1..x.unique
          /\ \A i \in x.stack[j].act \cap DOMAIN x.bps : AtC(calls, x.bps, i, F[p][j]) /\ born[i] < F[p][j]

\* A breakpoint was met since the last command, and no list began since then.
Broke(calls, p, bps, from) ==
    \E i \in DOMAIN bps, r \in (from + 1)..p : AtC(calls, bps, i, r) /\ FirstListC(calls, r, p + 1)
NoHit(calls, F, p, bps, g) ==
    \A i \in DOMAIN bps, r \in (g.from + 1)..p :
        FirstListC(calls, r, p + 1) => ~ HitsC(calls, F, bps, g.born, i, r)
\* The expression around the one where the last command was given has ended, or another of the same id has.
Left(calls, F, p, from) ==
    \E a \in {Parent(F, from), from} \cup (from + 1)..p :
        calls[a].ev = "begin" /\ ~ Opens(F, a, p) /\ calls[a].id = calls[Parent(F, from)].id
\* What remains of the last command, after p hook calls.
Remains(calls, F, p, state, g) ==
    CASE g.cmd = "in"   -> state.k \in {"Start", "StepIn", "Pause"}
      [] g.cmd = "go"   -> state.k = "Continue"
      [] g.cmd = "over" -> state = St("StepOver", calls[g.from].id)
      [] g.cmd = "out"  ->
           IF Parent(F, g.from) = 0 THEN state.k = "Continue"
           ELSE \/ state = St("Finish", calls[Parent(F, g.from)].id) /\ Opens(F, Parent(F, g.from), p)
                \/ state.k = "Finished" /\ Left(calls, F, p, g.from)
      [] g.cmd = "quit" -> state.k = "Quit"
      [] OTHER -> TRUE
\* What the debugger looks for is what the last command asked for, or a breakpoint it has met.
Pursues(calls, F, p, x, g) ==
    /\ g.from <= p
    /\ g.cmd \in {"over", "out"} => g.from >= 1 /\ calls[g.from].ev = "begin"
    /\ \/ g.cmd = "any"
       \/ Remains(calls, F, p, x.state, g) /\ (g.cmd = "quit" \/ NoHit(calls, F, p, x.bps, g))
       \/ g.cmd # "quit" /\ x.state.k = "Break" /\ Broke(calls, p, x.bps, g.from)

Fr == Executions[Head(run.ks)].frames
\* During an execution the stack follows the calls; while it runs, the last command is pursued.
RunInv ==
    phase \in {"running", "stopped"} =>
        /\ run.ks # <<>> /\ run.pos <= Len(T)
        /\ mode # "attach" => Len(run.ks) = 1
        /\ Follows(T, Fr, run.pos, d, goal.born)
        /\ phase = "stopped" => run.pos >= 1 /\ T[run.pos].ev = "begin"
        /\ phase = "running" => Pursues(T, Fr, run.pos, d, goal)

\* The inductive invariant.
IInv == TypeOK /\ SdkInv /\ EditorInv /\ RunInv

-----------------------------------------------------------------------------
(* What the requests of the editor do. *)

Ed(v, S, o, p, x) == [view |-> v, said |-> S, owed |-> o, open |-> p, extra |-> x]
Ses(a, b, e, g) == [d |-> a, dap |-> b, editor |-> e, go |-> g]

LEMMA NowIs ==
    ASSUME EditorType
    PROVE  /\ dap = Dap(dap.launched, dap.init, dap.config)
           /\ editor = Ed(editor.view, editor.said, editor.owed, editor.open, editor.extra)
           /\ Now = Ses(d, dap, editor, No)
BY DEF EditorType, Dap, Ed, Now, Ses, No

LEMMA AnsweredIs ==
    ASSUME NEW a, NEW b, NEW v, NEW S, NEW o, NEW p, NEW x, NEW g
    PROVE  Answered(Ses(a, b, Ed(v, S, o, p, x), g)) = Ses(a, b, Ed(v, S, o - 1, p, x), g)
BY DEF Answered, Ses, Ed

LEMMA ViewsIs ==
    ASSUME NEW v, NEW S, NEW o, NEW p, NEW x, NEW w
    PROVE  Views(Ed(v, S, o, p, x), w) = Ed(w, IF w \in {"stopped", "running", "gone"} THEN {} ELSE S, o, p, x)
<1>1. PICK T2 : T2 = IF w \in {"stopped", "running", "gone"} THEN {} ELSE S
  OBVIOUS
<1>2. Ed(v, S, o, p, x).said = S
  BY DEF Ed
<1>3. Views(Ed(v, S, o, p, x), w) = [Ed(v, S, o, p, x) EXCEPT !.view = w, !.said = T2]
  BY <1>1, <1>2, Zenon DEF Views
<1>4. [Ed(v, S, o, p, x) EXCEPT !.view = w, !.said = T2] = [[Ed(v, S, o, p, x) EXCEPT !.view = w] EXCEPT !.said = T2]
  BY Zenon
<1>5. [Ed(v, S, o, p, x) EXCEPT !.view = w] = Ed(w, S, o, p, x)
  BY DEF Ed
<1>6. [Ed(w, S, o, p, x) EXCEPT !.said = T2] = Ed(w, T2, o, p, x)
  BY DEF Ed
<1>7. QED  BY <1>1, <1>3, <1>4, <1>5, <1>6, Zenon

LEMMA SeesIs ==
    ASSUME NEW a, NEW b, NEW v, NEW S, NEW o, NEW p, NEW x, NEW g, NEW w
    PROVE  Sees(Ses(a, b, Ed(v, S, o, p, x), g), w)
           = Ses(a, b, Ed(w, IF w \in {"stopped", "running", "gone"} THEN {} ELSE S, o, p, x), g)
<1>1. PICK e : e = Ed(v, S, o, p, x)
  OBVIOUS
<1>2. Sees(Ses(a, b, e, g), w) = Ses(a, b, Views(e, w), g)
  BY DEF Sees, Ses
<1>3. Views(e, w) = Ed(w, IF w \in {"stopped", "running", "gone"} THEN {} ELSE S, o, p, x)
  BY <1>1, ViewsIs
<1>4. QED  BY <1>1, <1>2, <1>3, Zenon

LEMMA PartsAre ==
    ASSUME NEW a, NEW b, NEW e, NEW g, NEW z
    PROVE  /\ [Ses(a, b, e, g) EXCEPT !.d = z] = Ses(z, b, e, g)
           /\ [Ses(a, b, e, g) EXCEPT !.go = z] = Ses(a, b, e, z)
           /\ [Ses(a, b, e, g) EXCEPT !.dap = z] = Ses(a, z, e, g)
           /\ Ses(a, b, e, g).d = a /\ Ses(a, b, e, g).dap = b /\ Ses(a, b, e, g).editor = e /\ Ses(a, b, e, g).go = g
<1>1. [Ses(a, b, e, g) EXCEPT !.d = z] = Ses(z, b, e, g)
  BY DEF Ses
<1>2. [Ses(a, b, e, g) EXCEPT !.go = z] = Ses(a, b, e, z)
  BY DEF Ses
<1>3. [Ses(a, b, e, g) EXCEPT !.dap = z] = Ses(a, z, e, g)
  BY DEF Ses
<1>4. Ses(a, b, e, g).d = a /\ Ses(a, b, e, g).dap = b /\ Ses(a, b, e, g).editor = e /\ Ses(a, b, e, g).go = g
  BY DEF Ses
<1>5. QED  BY <1>1, <1>2, <1>3, <1>4, Zenon

LEMMA ProceedsIs ==
    ASSUME NEW a, NEW b, NEW e, NEW g
    PROVE  Proceeds(Ses(a, b, e, g)) = Ses(a, b, e, Yes)
<1>1. [Ses(a, b, e, g) EXCEPT !.go = Yes] = Ses(a, b, e, Yes)
  BY PartsAre
<1>2. QED  BY <1>1, Zenon DEF Proceeds, Yes

LEMMA DapLaunchedIs ==
    ASSUME NEW a, NEW l, NEW i, NEW c, NEW e, NEW g, NEW t
    PROVE  [Ses(a, Dap(l, i, c), e, g) EXCEPT !.dap.launched = t] = Ses(a, Dap(t, i, c), e, g)
<1>1. PICK s : s = Ses(a, Dap(l, i, c), e, g)
  OBVIOUS
<1>2. s.dap = Dap(l, i, c)
  BY <1>1, PartsAre
<1>3. PICK z : z = [s.dap EXCEPT !.launched = t]
  OBVIOUS
<1>4. z = Dap(t, i, c)
  <2>1. [Dap(l, i, c) EXCEPT !.launched = t] = Dap(t, i, c)
    BY DEF Dap
  <2>2. QED  BY <1>2, <1>3, <2>1, Zenon
<1>5. [s EXCEPT !.dap.launched = t] = [s EXCEPT !.dap = z]
  BY <1>3, Zenon
<1>6. [s EXCEPT !.dap = z] = Ses(a, z, e, g)
  BY <1>1, PartsAre
<1>7. QED  BY <1>1, <1>4, <1>5, <1>6, Zenon

LEMMA DapInitIs ==
    ASSUME NEW a, NEW l, NEW i, NEW c, NEW e, NEW g, NEW t
    PROVE  [Ses(a, Dap(l, i, c), e, g) EXCEPT !.dap.init = t] = Ses(a, Dap(l, t, c), e, g)
<1>1. PICK s : s = Ses(a, Dap(l, i, c), e, g)
  OBVIOUS
<1>2. s.dap = Dap(l, i, c)
  BY <1>1, PartsAre
<1>3. PICK z : z = [s.dap EXCEPT !.init = t]
  OBVIOUS
<1>4. z = Dap(l, t, c)
  <2>1. [Dap(l, i, c) EXCEPT !.init = t] = Dap(l, t, c)
    BY DEF Dap
  <2>2. QED  BY <1>2, <1>3, <2>1, Zenon
<1>5. [s EXCEPT !.dap.init = t] = [s EXCEPT !.dap = z]
  BY <1>3, Zenon
<1>6. [s EXCEPT !.dap = z] = Ses(a, z, e, g)
  BY <1>1, PartsAre
<1>7. QED  BY <1>1, <1>4, <1>5, <1>6, Zenon

LEMMA DapConfigIs ==
    ASSUME NEW a, NEW l, NEW i, NEW c, NEW e, NEW g, NEW t
    PROVE  [Ses(a, Dap(l, i, c), e, g) EXCEPT !.dap.config = t] = Ses(a, Dap(l, i, t), e, g)
<1>1. PICK s : s = Ses(a, Dap(l, i, c), e, g)
  OBVIOUS
<1>2. s.dap = Dap(l, i, c)
  BY <1>1, PartsAre
<1>3. PICK z : z = [s.dap EXCEPT !.config = t]
  OBVIOUS
<1>4. z = Dap(l, i, t)
  <2>1. [Dap(l, i, c) EXCEPT !.config = t] = Dap(l, i, t)
    BY DEF Dap
  <2>2. QED  BY <1>2, <1>3, <2>1, Zenon
<1>5. [s EXCEPT !.dap.config = t] = [s EXCEPT !.dap = z]
  BY <1>3, Zenon
<1>6. [s EXCEPT !.dap = z] = Ses(a, z, e, g)
  BY <1>1, PartsAre
<1>7. QED  BY <1>1, <1>4, <1>5, <1>6, Zenon

LEMMA DapFieldsAre ==
    ASSUME NEW l, NEW i, NEW c
    PROVE  Dap(l, i, c).launched = l /\ Dap(l, i, c).init = i /\ Dap(l, i, c).config = c
BY DEF Dap

LEMMA ResumesIs ==
    ASSUME NEW a, NEW b, NEW v, NEW S, NEW o, NEW p, NEW x, NEW g, NEW z
    PROVE  Resumes(Ses(a, b, Ed(v, S, o, p, x), g), z) = Ses(z, b, Ed("running", {}, o - 1, p, x), Yes)
<1>1. [Ses(a, b, Ed(v, S, o, p, x), g) EXCEPT !.d = z] = Ses(z, b, Ed(v, S, o, p, x), g)
  BY PartsAre
<1>2. Answered(Ses(z, b, Ed(v, S, o, p, x), g)) = Ses(z, b, Ed(v, S, o - 1, p, x), g)
  BY AnsweredIs
<1>3. Sees(Ses(z, b, Ed(v, S, o - 1, p, x), g), "running") = Ses(z, b, Ed("running", {}, o - 1, p, x), g)
  BY SeesIs
<1>4. Proceeds(Ses(z, b, Ed("running", {}, o - 1, p, x), g)) = Ses(z, b, Ed("running", {}, o - 1, p, x), Yes)
  BY ProceedsIs
<1>5. QED  BY <1>1, <1>2, <1>3, <1>4, Zenon DEF Resumes

LEMMA disconnectIs ==
    ASSUME NEW a, NEW b, NEW v, NEW S, NEW o, NEW p, NEW x, NEW g
    PROVE  disconnect(Ses(a, b, Ed(v, S, o, p, x), g)) = Ses(quit(a), b, Ed("gone", {}, o - 1, p, x), Yes)
<1>1. PICK s, z : s = Ses(a, b, Ed(v, S, o, p, x), g) /\ z = quit(a)
  OBVIOUS
<1>2. s.d = a /\ [s EXCEPT !.d = z] = Ses(z, b, Ed(v, S, o, p, x), g)
  BY <1>1, PartsAre
<1>3. Answered(Ses(z, b, Ed(v, S, o, p, x), g)) = Ses(z, b, Ed(v, S, o - 1, p, x), g)
  BY AnsweredIs
<1>4. Sees(Ses(z, b, Ed(v, S, o - 1, p, x), g), "gone") = Ses(z, b, Ed("gone", {}, o - 1, p, x), g)
  BY SeesIs
<1>5. Proceeds(Ses(z, b, Ed("gone", {}, o - 1, p, x), g)) = Ses(z, b, Ed("gone", {}, o - 1, p, x), Yes)
  BY ProceedsIs
<1>6. disconnect(s) = Proceeds(Sees(Answered([s EXCEPT !.d = quit(s.d)]), "gone"))
  BY Zenon DEF disconnect
<1>7. disconnect(s) = Proceeds(Sees(Answered(Ses(z, b, Ed(v, S, o, p, x), g)), "gone"))
  BY <1>1, <1>2, <1>6, Zenon
<1>8. disconnect(s) = Proceeds(Ses(z, b, Ed("gone", {}, o - 1, p, x), g))
  BY <1>3, <1>4, <1>7, Zenon
<1>9. QED  BY <1>1, <1>5, <1>8, Zenon

LEMMA pauseIs ==
    ASSUME NEW a, NEW b, NEW v, NEW S, NEW o, NEW p, NEW x, NEW g
    PROVE  pause_(Ses(a, b, Ed(v, S, o, p, x), g)) = Ses(pause(a), b, Ed(v, S, o - 1, p, x), Yes)
<1>1. PICK s, z : s = Ses(a, b, Ed(v, S, o, p, x), g) /\ z = pause(a)
  OBVIOUS
<1>2. s.d = a /\ [s EXCEPT !.d = z] = Ses(z, b, Ed(v, S, o, p, x), g)
  BY <1>1, PartsAre
<1>3. Answered(Ses(z, b, Ed(v, S, o, p, x), g)) = Ses(z, b, Ed(v, S, o - 1, p, x), g)
  BY AnsweredIs
<1>5. Proceeds(Ses(z, b, Ed(v, S, o - 1, p, x), g)) = Ses(z, b, Ed(v, S, o - 1, p, x), Yes)
  BY ProceedsIs
<1>6. pause_(s) = Proceeds(Answered([s EXCEPT !.d = pause(s.d)]))
  BY Zenon DEF pause_
<1>7. QED  BY <1>1, <1>2, <1>3, <1>5, <1>6, Zenon

LEMMA initializeIs ==
    ASSUME NEW a, NEW b, NEW v, NEW S, NEW o, NEW p, NEW x, NEW g
    PROVE  initialize(Ses(a, b, Ed(v, S, o, p, x), g)) = Ses(a, b, Ed("init", S, o - 1, p, x), g)
<1>1. Answered(Ses(a, b, Ed(v, S, o, p, x), g)) = Ses(a, b, Ed(v, S, o - 1, p, x), g)
  BY AnsweredIs
<1>2. Sees(Ses(a, b, Ed(v, S, o - 1, p, x), g), "init") = Ses(a, b, Ed("init", S, o - 1, p, x), g)
  BY SeesIs
<1>3. QED  BY <1>1, <1>2, Zenon DEF initialize

LEMMA launchIs ==
    ASSUME NEW a, NEW l, NEW i, NEW c, NEW v, NEW S, NEW o, NEW p, NEW x, NEW g, NEW r
    PROVE  \/ launch(Ses(a, Dap(l, i, c), Ed(v, S, o, p, x), g), r)
              = Ses(a, Dap(l, i, c), Ed("failed", S, o - 1, p, x), g)
           \/ launch(Ses(a, Dap(l, i, c), Ed(v, S, o, p, x), g), r)
              = Ses(NewDebugState, Dap(Yes, i, c), Ed(v, S, o, p, x), g)
<1>1. PICK s, b, e, z : s = Ses(a, b, e, g) /\ z = NewDebugState /\ b = Dap(l, i, c) /\ e = Ed(v, S, o, p, x)
  OBVIOUS
<1>2. Answered(s) = Ses(a, b, Ed(v, S, o - 1, p, x), g)
  BY <1>1, AnsweredIs
<1>3. Sees(Ses(a, b, Ed(v, S, o - 1, p, x), g), "failed") = Ses(a, b, Ed("failed", S, o - 1, p, x), g)
  BY SeesIs
<1>4. [s EXCEPT !.d = z] = Ses(z, b, e, g)
  BY <1>1, PartsAre
<1>5. [Ses(z, b, e, g) EXCEPT !.dap.launched = Yes] = Ses(z, Dap(Yes, i, c), e, g)
  BY <1>1, DapLaunchedIs
<1>6. [s EXCEPT !.d = NewDebugState, !.dap.launched = Yes] = [[s EXCEPT !.d = z] EXCEPT !.dap.launched = Yes]
  BY <1>1, Zenon
<1>7. \/ launch(s, r) = Sees(Answered(s), "failed")
      \/ launch(s, r) = [s EXCEPT !.d = NewDebugState, !.dap.launched = Yes]
  BY Zenon DEF launch, Yes
<1>8. QED  BY <1>1, <1>2, <1>3, <1>4, <1>5, <1>6, <1>7, Zenon

LEMMA attachIs ==
    ASSUME NEW a, NEW b, NEW v, NEW S, NEW o, NEW p, NEW x, NEW g
    PROVE  attach(Ses(a, b, Ed(v, S, o, p, x), g)) = Ses(NewDebugState, b, Ed("configuring", S, o - 1, p, x), g)
<1>1. PICK s, z : s = Ses(a, b, Ed(v, S, o, p, x), g) /\ z = NewDebugState
  OBVIOUS
<1>2. [s EXCEPT !.d = z] = Ses(z, b, Ed(v, S, o, p, x), g)
  BY <1>1, PartsAre
<1>3. Answered(Ses(z, b, Ed(v, S, o, p, x), g)) = Ses(z, b, Ed(v, S, o - 1, p, x), g)
  BY AnsweredIs
<1>4. Sees(Ses(z, b, Ed(v, S, o - 1, p, x), g), "configuring") = Ses(z, b, Ed("configuring", S, o - 1, p, x), g)
  BY SeesIs
<1>5. attach(s) = Sees(Answered([s EXCEPT !.d = z]), "configuring")
  BY <1>1, Zenon DEF attach
<1>6. QED  BY <1>1, <1>2, <1>3, <1>4, <1>5, Zenon

LEMMA ConfiguredYes ==
    ASSUME NEW a, NEW l, NEW i, NEW e, NEW g
    PROVE  Configured(Ses(a, Dap(l, i, Yes), e, g)) = Ses(a, Dap(l, i, Yes), e, g)
<1>1. PICK s : s = Ses(a, Dap(l, i, Yes), e, g)
  OBVIOUS
<1>2. s.dap = Dap(l, i, Yes)
  BY <1>1, PartsAre
<1>3. Dap(l, i, Yes).config = Yes
  BY DapFieldsAre
<1>4. QED  BY <1>1, <1>2, <1>3, Zenon DEF Configured, Yes

LEMMA ConfiguredNo ==
    ASSUME NEW a, NEW l, NEW i, NEW v, NEW S, NEW o, NEW p, NEW x, NEW g
    PROVE  Configured(Ses(a, Dap(l, i, No), Ed(v, S, o, p, x), g)) = Ses(a, Dap(l, i, Yes), Ed("running", {}, o, p, x), g)
<1>1. PICK s, e : s = Ses(a, Dap(l, i, No), e, g) /\ e = Ed(v, S, o, p, x)
  OBVIOUS
<1>2. s.dap = Dap(l, i, No)
  BY <1>1, PartsAre
<1>3. Dap(l, i, No).config = No
  BY DapFieldsAre
<1>4. [s EXCEPT !.dap.config = Yes] = Ses(a, Dap(l, i, Yes), e, g)
  BY <1>1, DapConfigIs
<1>5. Sees(Ses(a, Dap(l, i, Yes), e, g), "running") = Ses(a, Dap(l, i, Yes), Ed("running", {}, o, p, x), g)
  BY <1>1, SeesIs
<1>6. Configured(s) = Sees([s EXCEPT !.dap.config = Yes], "running")
  BY <1>2, <1>3, Zenon DEF Configured, Yes, No
<1>7. QED  BY <1>1, <1>4, <1>5, <1>6, Zenon

LEMMA threadsYes ==
    ASSUME NEW a, NEW l, NEW c, NEW v, NEW S, NEW o, NEW p, NEW x, NEW g, mode # "attach"
    PROVE  threads(Ses(a, Dap(l, Yes, c), Ed(v, S, o, p, x), g)) = Ses(a, Dap(l, Yes, c), Ed(v, S, o - 1, p, x), g)
<1>1. PICK s, b : s = Ses(a, b, Ed(v, S, o, p, x), g) /\ b = Dap(l, Yes, c)
  OBVIOUS
<1>2. s.dap = Dap(l, Yes, c)
  BY <1>1, PartsAre
<1>3. Dap(l, Yes, c).init = Yes
  BY DapFieldsAre
<1>4. Answered(s) = Ses(a, b, Ed(v, S, o - 1, p, x), g)
  BY <1>1, AnsweredIs
<1>5. QED  BY <1>1, <1>2, <1>3, <1>4, Zenon DEF threads, Yes

LEMMA threadsNo ==
    ASSUME NEW a, NEW l, NEW c, NEW v, NEW S, NEW o \in Int, NEW p, NEW x, NEW g, mode # "attach"
    PROVE  threads(Ses(a, Dap(l, No, c), Ed(v, S, o, p, x), g)) = Ses(a, Dap(l, Yes, c), Ed("stopped", {}, o - 2, p, x), g)
<1>1. PICK s, b : s = Ses(a, b, Ed(v, S, o, p, x), g) /\ b = Dap(l, No, c)
  OBVIOUS
<1>2. s.dap = Dap(l, No, c)
  BY <1>1, PartsAre
<1>3. Dap(l, No, c).init = No
  BY DapFieldsAre
<1>4. Answered(s) = Ses(a, b, Ed(v, S, o - 1, p, x), g)
  BY <1>1, AnsweredIs
<1>5. Answered(Answered(s)) = Ses(a, b, Ed(v, S, o - 2, p, x), g)
  <2>1. PICK o2 : o2 = o - 1
    OBVIOUS
  <2>2. Answered(Ses(a, b, Ed(v, S, o2, p, x), g)) = Ses(a, b, Ed(v, S, o2 - 1, p, x), g)
    BY AnsweredIs
  <2>3. o2 - 1 = o - 2
    BY <2>1
  <2>4. QED  BY <1>4, <2>1, <2>2, <2>3, Zenon
<1>6. [Answered(Answered(s)) EXCEPT !.dap.init = Yes] = Ses(a, Dap(l, Yes, c), Ed(v, S, o - 2, p, x), g)
  <2>1. [Ses(a, Dap(l, No, c), Ed(v, S, o - 2, p, x), g) EXCEPT !.dap.init = Yes]
        = Ses(a, Dap(l, Yes, c), Ed(v, S, o - 2, p, x), g)
    BY DapInitIs
  <2>2. QED  BY <1>1, <1>5, <2>1, Zenon
<1>7. Sees(Ses(a, Dap(l, Yes, c), Ed(v, S, o - 2, p, x), g), "stopped")
      = Ses(a, Dap(l, Yes, c), Ed("stopped", {}, o - 2, p, x), g)
  BY SeesIs
<1>8. threads(s) = Sees([Answered(Answered(s)) EXCEPT !.dap.init = Yes], "stopped")
  BY <1>2, <1>3, Zenon DEF threads, Yes, No
<1>9. QED  BY <1>1, <1>6, <1>7, <1>8, Zenon
\* The debug state with the breakpoints or the watchpoint of a request.
Marked(r, a, z) ==
    \/ z = a
    \/ r.k = "setBreakpoints" /\ z = add_breakpoints(a, r.bs)
    \/ r.k = "evaluate" /\ z = add_watchpoint(a, [r.w EXCEPT !.access = "write"])

LEMMA set_breakpointsIs ==
    ASSUME NEW a, NEW b, NEW v, NEW S, NEW o, NEW p, NEW x, NEW g, NEW r, r.k = "setBreakpoints"
    PROVE  \E z : Marked(r, a, z)
                  /\ set_breakpoints(Ses(a, b, Ed(v, S, o, p, x), g), r) = Ses(z, b, Ed(v, S, o - 1, p, x), g)
<1>1. PICK s, z : s = Ses(a, b, Ed(v, S, o, p, x), g) /\ z = add_breakpoints(a, r.bs)
  OBVIOUS
<1>2. s.d = a /\ [s EXCEPT !.d = z] = Ses(z, b, Ed(v, S, o, p, x), g)
  BY <1>1, PartsAre
<1>3. Answered(Ses(z, b, Ed(v, S, o, p, x), g)) = Ses(z, b, Ed(v, S, o - 1, p, x), g)
  BY AnsweredIs
<1>4. Answered(s) = Ses(a, b, Ed(v, S, o - 1, p, x), g)
  BY <1>1, AnsweredIs
<1>5. \/ set_breakpoints(s, r) = Answered(s)
      \/ set_breakpoints(s, r) = Answered([s EXCEPT !.d = add_breakpoints(s.d, r.bs)])
  BY Zenon DEF set_breakpoints
<1>6. Marked(r, a, a) /\ Marked(r, a, z)
  BY <1>1 DEF Marked
<1>7. CASE set_breakpoints(s, r) = Answered(s)
  BY <1>1, <1>4, <1>6, <1>7, Zenon
<1>8. CASE set_breakpoints(s, r) = Answered([s EXCEPT !.d = z])
  <2>1. set_breakpoints(s, r) = Ses(z, b, Ed(v, S, o - 1, p, x), g)
    BY <1>2, <1>3, <1>8, Zenon
  <2>2. QED  BY <1>1, <1>6, <2>1, Zenon
<1>9. QED  BY <1>1, <1>2, <1>5, <1>7, <1>8, Zenon

LEMMA evaluateIs ==
    ASSUME NEW a, NEW b, NEW v, NEW S, NEW o, NEW p, NEW x, NEW g, NEW r, r.k = "evaluate"
    PROVE  \E z : Marked(r, a, z)
                  /\ evaluate(Ses(a, b, Ed(v, S, o, p, x), g), r, Yes) = Ses(z, b, Ed(v, S, o - 1, p, x), g)
<1>1. PICK s, z : s = Ses(a, b, Ed(v, S, o, p, x), g) /\ z = add_watchpoint(a, [r.w EXCEPT !.access = "write"])
  OBVIOUS
<1>2. s.d = a /\ [s EXCEPT !.d = z] = Ses(z, b, Ed(v, S, o, p, x), g)
  BY <1>1, PartsAre
<1>3. Answered(Ses(z, b, Ed(v, S, o, p, x), g)) = Ses(z, b, Ed(v, S, o - 1, p, x), g)
  BY AnsweredIs
<1>4. Answered(s) = Ses(a, b, Ed(v, S, o - 1, p, x), g)
  BY <1>1, AnsweredIs
<1>5. \/ evaluate(s, r, Yes) = Answered(s)
      \/ evaluate(s, r, Yes) = Answered([s EXCEPT !.d = add_watchpoint(s.d, [r.w EXCEPT !.access = "write"])])
  BY Zenon DEF evaluate, Yes
<1>6. Marked(r, a, a) /\ Marked(r, a, z)
  BY <1>1 DEF Marked
<1>7. CASE evaluate(s, r, Yes) = Answered(s)
  BY <1>1, <1>4, <1>6, <1>7, Zenon
<1>8. CASE evaluate(s, r, Yes) = Answered([s EXCEPT !.d = z])
  <2>1. evaluate(s, r, Yes) = Ses(z, b, Ed(v, S, o - 1, p, x), g)
    BY <1>2, <1>3, <1>8, Zenon
  <2>2. QED  BY <1>1, <1>6, <2>1, Zenon
<1>9. QED  BY <1>1, <1>2, <1>5, <1>7, <1>8, Zenon

StepKinds == {"stepIn", "stepOut", "next", "continue"}
Stepped(k, a, here) ==
    CASE k = "stepIn"  -> step_in(a)
      [] k = "stepOut" -> finish(a)
      [] k = "next"    -> step_over(a, here)
      [] OTHER         -> continue_execution(a)

\* What a request does while execution is stopped.
Goes(t, r, a, b, o, p, x) ==
    r.k \in StepKinds /\ t = Ses(Stepped(r.k, a, Here.id), b, Ed("running", {}, o - 1, p, x), Yes)
Pauses(t, r, a, b, v, S, o, p, x) ==
    r.k = "pause" /\ t = Ses(pause(a), b, Ed(v, S, o - 1, p, x), Yes)
Leaves(t, r, a, b, o, p, x) ==
    r.k = "disconnect" /\ t = Ses(quit(a), b, Ed("gone", {}, o - 1, p, x), Yes)
Finishes(t, r, a, l, i, c, o, p, x) ==
    r.k = "threads" /\ mode # "attach" /\ i = No
    /\ t = Ses(a, Dap(l, Yes, c), Ed("stopped", {}, o - 2, p, x), No)
Configures(t, r, a, l, i, c, o, p, x) ==
    r.k \in {"threads", "configurationDone"} /\ mode = "attach" /\ c = No
    /\ t = Ses(a, Dap(l, i, Yes), Ed("running", {}, o - 1, p, x), No)
Answers(t, r, a, b, i, c, v, S, o, p, x) ==
    /\ r.k \notin StepKinds \cup {"pause", "disconnect"}
    /\ r.k = "threads" => mode = "attach" \/ i = Yes
    /\ r.k \in {"threads", "configurationDone"} /\ mode = "attach" => c = Yes
    /\ \E z : Marked(r, a, z) /\ t = Ses(z, b, Ed(v, S, o - 1, p, x), No)
LiveOutcome(t, r, a, l, i, c, v, S, o, p, x) ==
    \/ Goes(t, r, a, Dap(l, i, c), o, p, x)
    \/ Pauses(t, r, a, Dap(l, i, c), v, S, o, p, x)
    \/ Leaves(t, r, a, Dap(l, i, c), o, p, x)
    \/ Finishes(t, r, a, l, i, c, o, p, x)
    \/ Configures(t, r, a, l, i, c, o, p, x)
    \/ Answers(t, r, a, Dap(l, i, c), i, c, v, S, o, p, x)

\* Both threads and configurationDone end the handshake of an attached session.
LEMMA ConfiguredHandled ==
    ASSUME NEW a, NEW l, NEW i, NEW c, c = Yes \/ c = No, NEW v, NEW S, NEW o, NEW p, NEW x,
           NEW r, r.k \in {"threads", "configurationDone"}, mode = "attach",
           NEW s, s = Ses(a, Dap(l, i, c), Ed(v, S, o, p, x), No), NEW t, t = Configured(Answered(s))
    PROVE  \/ Configures(t, r, a, l, i, c, o, p, x)
           \/ Answers(t, r, a, Dap(l, i, c), i, c, v, S, o, p, x)
<1>1. Answered(s) = Ses(a, Dap(l, i, c), Ed(v, S, o - 1, p, x), No)
  BY AnsweredIs
<1>2. CASE c = Yes
  <2>1. t = Ses(a, Dap(l, i, c), Ed(v, S, o - 1, p, x), No)
    BY <1>1, <1>2, ConfiguredYes
  <2>2. Marked(r, a, a)
    BY DEF Marked
  <2>3. r.k \notin StepKinds \cup {"pause", "disconnect"}
    BY DEF StepKinds
  <2>4. QED  BY <1>2, <2>1, <2>2, <2>3, Zenon DEF Answers
<1>3. CASE c = No
  <2>1. t = Ses(a, Dap(l, i, Yes), Ed("running", {}, o - 1, p, x), No)
    BY <1>1, <1>3, ConfiguredNo
  <2>2. QED  BY <1>3, <2>1, Zenon DEF Configures
<1>4. QED  BY <1>2, <1>3

\* A request that is only answered.
LEMMA AnswersHandled ==
    ASSUME NEW a, NEW b, NEW i, NEW c, NEW v, NEW S, NEW o, NEW p, NEW x,
           NEW r, r.k \notin StepKinds \cup {"pause", "disconnect"},
           r.k = "threads" => mode = "attach" \/ i = Yes,
           r.k \in {"threads", "configurationDone"} /\ mode = "attach" => c = Yes,
           NEW s, s = Ses(a, b, Ed(v, S, o, p, x), No), NEW t, t = Answered(s)
    PROVE  Answers(t, r, a, b, i, c, v, S, o, p, x)
<1>1. t = Ses(a, b, Ed(v, S, o - 1, p, x), No)
  BY AnsweredIs
<1>2. Marked(r, a, a)
  BY DEF Marked
<1>3. QED  BY <1>1, <1>2, Zenon DEF Answers

\* Each request that is read while the program is stopped has one of six outcomes.
LEMMA LiveHandled ==
    ASSUME NEW a, NEW l, NEW i, i = Yes \/ i = No, NEW c, c = Yes \/ c = No, NEW v, NEW S, NEW o \in Int, NEW p, NEW x,
           NEW r, r.k \in LiveKinds,
           NEW s, s = Ses(a, Dap(l, i, c), Ed(v, S, o, p, x), No), NEW t, t = handle_request(s, r, Yes)
    PROVE  LiveOutcome(t, r, a, l, i, c, v, S, o, p, x)
<1>1. PICK b : b = Dap(l, i, c)
  OBVIOUS
<1>2. s = Ses(a, b, Ed(v, S, o, p, x), No) /\ s.d = a
  BY <1>1, PartsAre
<1>6. CASE r.k \in StepKinds
  <2>1. t = Resumes(s, Stepped(r.k, a, Here.id))
    BY <1>2, <1>6 DEF handle_request, Stepped, StepKinds
  <2>2. t = Ses(Stepped(r.k, a, Here.id), b, Ed("running", {}, o - 1, p, x), Yes)
    BY <1>2, <2>1, ResumesIs
  <2>4. QED  BY <1>1, <1>6, <2>2, Zenon DEF LiveOutcome, Goes
<1>7. CASE r.k = "pause"
  <2>1. t = pause_(s)
    BY <1>7 DEF handle_request
  <2>2. t = Ses(pause(a), b, Ed(v, S, o - 1, p, x), Yes)
    BY <1>2, <2>1, pauseIs
  <2>4. QED  BY <1>1, <1>7, <2>2, Zenon DEF LiveOutcome, Pauses
<1>8. CASE r.k = "disconnect"
  <2>1. t = disconnect(s)
    BY <1>8 DEF handle_request
  <2>2. t = Ses(quit(a), b, Ed("gone", {}, o - 1, p, x), Yes)
    BY <1>2, <2>1, disconnectIs
  <2>4. QED  BY <1>1, <1>8, <2>2, Zenon DEF LiveOutcome, Leaves
<1>9. CASE r.k = "threads"
  <2>1. t = threads(s)
    BY <1>9 DEF handle_request
  <2>2. r.k \notin StepKinds \cup {"pause", "disconnect"} /\ r.k \in {"threads", "configurationDone"}
    BY <1>9 DEF StepKinds
  <2>3. CASE mode = "attach"
    <3>1. t = Configured(Answered(s))
      BY <2>1, <2>3, Zenon DEF threads
    <3>2. QED  BY <2>2, <2>3, <3>1, ConfiguredHandled DEF LiveOutcome
  <2>4. CASE mode # "attach"
    <3>1. CASE i = Yes
      <4>1. t = Ses(a, b, Ed(v, S, o - 1, p, x), No)
        BY <1>1, <1>2, <2>1, <2>4, <3>1, threadsYes
      <4>2. Marked(r, a, a)
        BY DEF Marked
      <4>3. QED  BY <1>1, <2>2, <2>4, <3>1, <4>1, <4>2, Zenon DEF LiveOutcome, Answers
    <3>2. CASE i = No
      <4>1. t = Ses(a, Dap(l, Yes, c), Ed("stopped", {}, o - 2, p, x), No)
        BY <2>1, <2>4, <3>2, threadsNo
      <4>2. QED  BY <1>9, <2>4, <3>2, <4>1, Zenon DEF LiveOutcome, Finishes
    <3>3. QED  BY <3>1, <3>2
  <2>5. QED  BY <2>3, <2>4
<1>10. CASE r.k = "configurationDone"
  <2>1. t = configuration_done(s)
    BY <1>10 DEF handle_request
  <2>2. r.k \notin StepKinds \cup {"pause", "disconnect"} /\ r.k # "threads" /\ r.k \in {"threads", "configurationDone"}
    BY <1>10 DEF StepKinds
  <2>3. CASE mode = "attach"
    <3>1. t = Configured(Answered(s))
      BY <2>1, <2>3, Zenon DEF configuration_done
    <3>2. QED  BY <2>2, <2>3, <3>1, ConfiguredHandled DEF LiveOutcome
  <2>4. CASE mode # "attach"
    <3>1. t = Answered(s)
      BY <2>1, <2>4, Zenon DEF configuration_done
    <3>2. Answers(t, r, a, b, i, c, v, S, o, p, x)
      BY <1>2, <2>2, <2>4, <3>1, AnswersHandled
    <3>3. QED  BY <1>1, <3>2, Zenon DEF LiveOutcome
  <2>5. QED  BY <2>3, <2>4
<1>11. CASE r.k = "setBreakpoints"
  <2>1. t = set_breakpoints(s, r)
    BY <1>11 DEF handle_request
  <2>2. r.k \notin StepKinds \cup {"pause", "disconnect"} /\ r.k \notin {"threads", "configurationDone"}
    BY <1>11 DEF StepKinds
  <2>4. PICK z : Marked(r, a, z) /\ set_breakpoints(s, r) = Ses(z, b, Ed(v, S, o - 1, p, x), No)
    BY <1>2, <1>11, set_breakpointsIs
  <2>5. QED  BY <1>1, <2>1, <2>2, <2>4, Zenon DEF LiveOutcome, Answers
<1>12. CASE r.k = "evaluate"
  <2>1. t = evaluate(s, r, Yes)
    BY <1>12 DEF handle_request
  <2>2. r.k \notin StepKinds \cup {"pause", "disconnect"} /\ r.k \notin {"threads", "configurationDone"}
    BY <1>12 DEF StepKinds
  <2>4. PICK z : Marked(r, a, z) /\ evaluate(s, r, Yes) = Ses(z, b, Ed(v, S, o - 1, p, x), No)
    BY <1>2, <1>12, evaluateIs
  <2>5. QED  BY <1>1, <2>1, <2>2, <2>4, Zenon DEF LiveOutcome, Answers
<1>13. CASE r.k = "stackTrace"
  <2>1. t = Answered(s)
    BY <1>13 DEF handle_request, Informs
  <2>2. r.k \notin StepKinds \cup {"pause", "disconnect"} /\ r.k \notin {"threads", "configurationDone"}
    BY <1>13 DEF StepKinds
  <2>3. Answers(t, r, a, b, i, c, v, S, o, p, x)
    BY <1>2, <2>1, <2>2, AnswersHandled
  <2>4. QED  BY <1>1, <2>3, Zenon DEF LiveOutcome
<1>14. QED  BY <1>6, <1>7, <1>8, <1>9, <1>10, <1>11, <1>12, <1>13 DEF LiveKinds, ConfigKinds, StepKinds

\* What a request does during the handshake.
HandshakeOutcome(t, r, a, v, S, o, p, x) ==
    \/ r.k = "initialize" /\ t = Ses(a, Dap(No, No, No), Ed("init", S, o - 1, p, x), No)
    \/ r.k = "launch" /\ t = Ses(a, Dap(No, No, No), Ed("failed", S, o - 1, p, x), No)
    \/ r.k = "launch" /\ t = Ses(NewDebugState, Dap(Yes, No, No), Ed(v, S, o, p, x), No)
    \/ r.k = "attach" /\ t = Ses(NewDebugState, Dap(No, No, No), Ed("configuring", S, o - 1, p, x), No)
    \/ /\ r.k \in {"threads", "configurationDone"}
       /\ t = Ses(a, Dap(No, No, Yes), Ed("running", {}, o - 1, p, x), No)
    \/ /\ r.k = "setBreakpoints"
       /\ \E z : Marked(r, a, z) /\ t = Ses(z, Dap(No, No, No), Ed(v, S, o - 1, p, x), No)

\* Each request that is read during the handshake has one of its outcomes.
LEMMA HandshakeHandled ==
    ASSUME NEW a, NEW v, NEW S, NEW o, NEW p, NEW x,
           NEW r, r.k \in {"initialize", "launch", "attach"} \cup ConfigKinds, r.k \in ConfigKinds => mode = "attach",
           NEW s, s = Ses(a, Dap(No, No, No), Ed(v, S, o, p, x), No), NEW t, t = handle_request(s, r, No)
    PROVE  HandshakeOutcome(t, r, a, v, S, o, p, x)
<1>1. CASE r.k = "initialize"
  <2>1. t = initialize(s)
    BY <1>1 DEF handle_request
  <2>2. t = Ses(a, Dap(No, No, No), Ed("init", S, o - 1, p, x), No)
    BY <2>1, initializeIs
  <2>3. QED  BY <1>1, <2>2, Zenon DEF HandshakeOutcome
<1>2. CASE r.k = "launch"
  <2>1. t = launch(s, r)
    BY <1>2 DEF handle_request
  <2>2. \/ t = Ses(a, Dap(No, No, No), Ed("failed", S, o - 1, p, x), No)
        \/ t = Ses(NewDebugState, Dap(Yes, No, No), Ed(v, S, o, p, x), No)
    BY <2>1, launchIs
  <2>3. QED  BY <1>2, <2>2, Zenon DEF HandshakeOutcome
<1>3. CASE r.k = "attach"
  <2>1. t = attach(s)
    BY <1>3 DEF handle_request
  <2>2. t = Ses(NewDebugState, Dap(No, No, No), Ed("configuring", S, o - 1, p, x), No)
    BY <2>1, attachIs
  <2>3. QED  BY <1>3, <2>2, Zenon DEF HandshakeOutcome
<1>4. CASE r.k = "setBreakpoints"
  <2>1. t = set_breakpoints(s, r)
    BY <1>4 DEF handle_request
  <2>2. PICK z : Marked(r, a, z) /\ set_breakpoints(s, r) = Ses(z, Dap(No, No, No), Ed(v, S, o - 1, p, x), No)
    BY <1>4, set_breakpointsIs
  <2>3. QED  BY <1>4, <2>1, <2>2, Zenon DEF HandshakeOutcome
<1>5. CASE r.k \in {"threads", "configurationDone"}
  <2>1. mode = "attach"
    BY <1>5 DEF ConfigKinds
  <2>2. t = Configured(Answered(s))
    <3>1. CASE r.k = "threads"
      <4>1. t = threads(s)
        BY <3>1 DEF handle_request
      <4>2. QED  BY <2>1, <4>1, Zenon DEF threads
    <3>2. CASE r.k = "configurationDone"
      <4>1. t = configuration_done(s)
        BY <3>2 DEF handle_request
      <4>2. QED  BY <2>1, <4>1, Zenon DEF configuration_done
    <3>3. QED  BY <1>5, <3>1, <3>2
  <2>3. Answered(s) = Ses(a, Dap(No, No, No), Ed(v, S, o - 1, p, x), No)
    BY AnsweredIs
  <2>4. t = Ses(a, Dap(No, No, Yes), Ed("running", {}, o - 1, p, x), No)
    BY <2>2, <2>3, ConfiguredNo
  <2>5. QED  BY <1>5, <2>4, Zenon DEF HandshakeOutcome
<1>6. QED  BY <1>1, <1>2, <1>3, <1>4, <1>5 DEF ConfigKinds

-----------------------------------------------------------------------------
(* The steps in which the debugger reads a request. *)

Edits(v, S, o) == editor' = Ed(v, S, o, editor.open, editor.extra)
Waiting == phase' = "handshake" /\ UNCHANGED <<run, goal>>
HsInit == Head(inbox).k = "initialize" /\ d' = d /\ dap' = dap /\ Edits("init", editor.said, editor.owed - 1) /\ Waiting
HsFailed == Head(inbox).k = "launch" /\ d' = d /\ dap' = dap /\ Edits("failed", editor.said, editor.owed - 1) /\ Waiting
HsLaunched ==
    /\ Head(inbox).k = "launch" /\ d' = NewDebugState /\ dap' = Dap(Yes, No, No) /\ editor' = editor
    /\ phase' = "running" /\ goal' = Goal(0, "in", Unborn(NewDebugState))
    /\ \E k \in Debugged : run' = Executing("", <<k>>)
HsAttached ==
    Head(inbox).k = "attach" /\ d' = NewDebugState /\ dap' = dap /\ Edits("configuring", editor.said, editor.owed - 1) /\ Waiting
HsConfigured ==
    /\ Head(inbox).k \in {"threads", "configurationDone"} /\ d' = d /\ dap' = Dap(No, No, Yes)
    /\ Edits("running", {}, editor.owed - 1) /\ phase' = "idle" /\ UNCHANGED <<run, goal>>
HsMarked ==
    /\ Head(inbox).k = "setBreakpoints" /\ Marked(Head(inbox), d, d') /\ dap' = dap
    /\ Edits(editor.view, editor.said, editor.owed - 1) /\ Waiting
Reads == inbox # <<>> /\ inbox' = Tail(inbox) /\ mode' = mode /\ sdk' = sdk

LEMMA HeadKind ==
    ASSUME EditorType, HandshakeInv, phase = "handshake", inbox # <<>>
    PROVE  /\ Head(inbox).k \in {"initialize", "launch", "attach"} \cup ConfigKinds
           /\ Head(inbox).k \in ConfigKinds => mode = "attach" /\ editor.view = "configuring"
           /\ Head(inbox).k \in {"initialize", "launch", "attach"} => Len(inbox) = 1 /\ editor.owed = 1
           /\ Head(inbox).k = "initialize" => editor.view = "new" /\ editor.said = {"initialize"}
           /\ Head(inbox).k \in {"launch", "attach"} =>
                  /\ editor.view = "init" /\ Head(inbox).k = StartKind
                  /\ editor.said = {"initialize", StartKind}
<1>1. PICK r : r = Head(inbox)
  OBVIOUS
<1>2. inbox \in Seq(EditorRequests) /\ r = inbox[1] /\ 1 \in 1..Len(inbox) /\ Len(inbox) \in Nat
  <2>1. inbox \in Seq(EditorRequests)
    BY Zenon DEF EditorType
  <2>2. QED  BY <1>1, <2>1
<1>3. editor.owed = Len(inbox)
  BY DEF HandshakeInv
<1>4. \/ editor.view = "new" /\ Single("initialize") /\ editor.said = {"initialize"}
      \/ editor.view = "init" /\ Single(StartKind) /\ editor.said = {"initialize", StartKind}
      \/ editor.view = "configuring" /\ mode = "attach" /\ Configuring
  BY Zenon DEF HandshakeInv
<1>5. CASE editor.view = "new" /\ Single("initialize") /\ editor.said = {"initialize"}
  BY <1>1, <1>2, <1>3, <1>5 DEF Single, ConfigKinds
<1>6. CASE editor.view = "init" /\ Single(StartKind) /\ editor.said = {"initialize", StartKind}
  BY <1>1, <1>2, <1>3, <1>6 DEF Single, ConfigKinds, StartKind
<1>7. CASE editor.view = "configuring" /\ mode = "attach" /\ Configuring
  BY <1>1, <1>2, <1>7 DEF Configuring, Kinds, ConfigKinds
<1>8. QED  BY <1>4, <1>5, <1>6, <1>7

\* A step of the handshake, by its outcome.
LEMMA HandshakeStep ==
    ASSUME EditorType, HandshakeInv, Handshake
    PROVE  Reads /\ (HsInit \/ HsFailed \/ HsLaunched \/ HsAttached \/ HsConfigured \/ HsMarked)
<1>1. PICK r, s, t, u : r = Head(inbox) /\ s = Now /\ u = No /\ t = handle_request(s, r, u)
  OBVIOUS
<1>2. /\ d' = t.d /\ dap' = t.dap /\ editor' = t.editor
      /\ IF t.dap.launched
         THEN /\ phase' = "running"
              /\ \E k \in Debugged : run' = Executing("", <<k>>)
              /\ goal' = Goal(0, "in", Unborn(t.d))
         ELSE /\ phase' = IF t.dap.config THEN "idle" ELSE "handshake"
              /\ UNCHANGED <<run, goal>>
  BY <1>1, Zenon DEF Handshake, No
<1>3. Reads /\ phase = "handshake"
  BY Zenon DEF Handshake, Reads
<1>4. r.k \in {"initialize", "launch", "attach"} \cup ConfigKinds /\ (r.k \in ConfigKinds => mode = "attach")
  <2>1. inbox # <<>>
    BY <1>3, Zenon DEF Reads
  <2>2. QED  BY <1>1, <1>3, <2>1, HeadKind
<1>5. PICK v, S, o, p, x : v = editor.view /\ S = editor.said /\ o = editor.owed /\ p = editor.open /\ x = editor.extra
  OBVIOUS
<1>6. editor = Ed(v, S, o, p, x) /\ dap = Dap(No, No, No) /\ s = Ses(d, Dap(No, No, No), Ed(v, S, o, p, x), No)
  <2>1. dap = Dap(No, No, No)
    BY <1>3, Zenon DEF HandshakeInv, Dap, No
  <2>2. editor = Ed(v, S, o, p, x) /\ Now = Ses(d, dap, editor, No)
    BY <1>5, NowIs, Zenon
  <2>3. QED  BY <1>1, <2>1, <2>2, Zenon
<1>7. PICK a : a = d
  OBVIOUS
<1>8. HandshakeOutcome(t, r, a, v, S, o, p, x)
  <2>1. s = Ses(a, Dap(No, No, No), Ed(v, S, o, p, x), No) /\ t = handle_request(s, r, No)
    BY <1>1, <1>6, <1>7, Zenon
  <2>2. QED  BY <1>4, <2>1, HandshakeHandled
<1>9. ASSUME NEW z, NEW b, NEW e, t = Ses(z, b, e, No)
      PROVE  d' = z /\ dap' = b /\ editor' = e
  <2>1. Ses(z, b, e, No).d = z /\ Ses(z, b, e, No).dap = b /\ Ses(z, b, e, No).editor = e
    BY PartsAre
  <2>2. QED  BY <1>2, <1>9, <2>1, Zenon
<1>10. ASSUME NEW z, NEW e, t = Ses(z, Dap(No, No, No), e, No)
       PROVE  Waiting
  <2>1. t.dap.launched = No /\ t.dap.config = No
    BY <1>10, PartsAre, DapFieldsAre
  <2>2. ~ t.dap.launched /\ ~ t.dap.config
    BY <2>1, Zenon DEF No
  <2>3. QED  BY <1>2, <2>2, Zenon DEF Waiting
<1>11. CASE r.k = "initialize" /\ t = Ses(a, Dap(No, No, No), Ed("init", S, o - 1, p, x), No)
  BY <1>1, <1>3, <1>5, <1>6, <1>7, <1>9, <1>10, <1>11, Zenon DEF HsInit, Edits
<1>12. CASE r.k = "launch" /\ t = Ses(a, Dap(No, No, No), Ed("failed", S, o - 1, p, x), No)
  BY <1>1, <1>3, <1>5, <1>6, <1>7, <1>9, <1>10, <1>12, Zenon DEF HsFailed, Edits
<1>13. CASE r.k = "launch" /\ t = Ses(NewDebugState, Dap(Yes, No, No), Ed(v, S, o, p, x), No)
  <2>1. t.dap.launched = Yes
    BY <1>13, PartsAre, DapFieldsAre
  <2>2. t.dap.launched
    BY <2>1, Zenon DEF Yes
  <2>3. d' = NewDebugState /\ dap' = Dap(Yes, No, No) /\ editor' = editor
    BY <1>6, <1>9, <1>13, Zenon
  <2>4. /\ phase' = "running"
        /\ \E k \in Debugged : run' = Executing("", <<k>>)
        /\ goal' = Goal(0, "in", Unborn(t.d))
    BY <1>2, <2>2, Zenon
  <2>5. t.d = NewDebugState
    BY <1>2, <2>3, Zenon
  <2>6. QED  BY <1>1, <1>3, <1>13, <2>3, <2>4, <2>5, Zenon DEF HsLaunched
<1>14. CASE r.k = "attach" /\ t = Ses(NewDebugState, Dap(No, No, No), Ed("configuring", S, o - 1, p, x), No)
  BY <1>1, <1>3, <1>5, <1>6, <1>9, <1>10, <1>14, Zenon DEF HsAttached, Edits
<1>15. CASE r.k \in {"threads", "configurationDone"} /\ t = Ses(a, Dap(No, No, Yes), Ed("running", {}, o - 1, p, x), No)
  <2>1. t.dap.launched = No /\ t.dap.config = Yes
    BY <1>15, PartsAre, DapFieldsAre
  <2>2. ~ t.dap.launched /\ t.dap.config
    BY <2>1, Zenon DEF Yes, No
  <2>3. QED  BY <1>1, <1>2, <1>3, <1>5, <1>7, <1>9, <1>15, <2>2, Zenon DEF HsConfigured, Edits
<1>16. CASE r.k = "setBreakpoints" /\ \E z : Marked(r, a, z) /\ t = Ses(z, Dap(No, No, No), Ed(v, S, o - 1, p, x), No)
  <2>1. PICK z : Marked(r, a, z) /\ t = Ses(z, Dap(No, No, No), Ed(v, S, o - 1, p, x), No)
    BY <1>16
  <2>2. d' = z /\ dap' = dap /\ Edits(editor.view, editor.said, editor.owed - 1) /\ Waiting
    BY <1>5, <1>6, <1>9, <1>10, <2>1, Zenon DEF Edits
  <2>3. QED  BY <1>1, <1>3, <1>7, <1>16, <2>1, <2>2, Zenon DEF HsMarked
<1>17. QED  BY <1>8, <1>11, <1>12, <1>13, <1>14, <1>15, <1>16, Zenon DEF HandshakeOutcome

Resuming == phase' = "running" /\ goal' = Goal(run.pos, Asked(Head(inbox).k), Born(d', run.pos))
Staying == phase' = "stopped" /\ goal' = [goal EXCEPT !.born = Born(d', run.pos)]
CmGoes ==
    /\ Head(inbox).k \in StepKinds /\ d' = Stepped(Head(inbox).k, d, Here.id) /\ dap' = dap
    /\ Edits("running", {}, editor.owed - 1) /\ Resuming
CmPauses ==
    /\ Head(inbox).k = "pause" /\ d' = pause(d) /\ dap' = dap
    /\ Edits(editor.view, editor.said, editor.owed - 1) /\ Resuming
CmLeaves ==
    /\ Head(inbox).k = "disconnect" /\ d' = quit(d) /\ dap' = dap
    /\ Edits("gone", {}, editor.owed - 1) /\ Resuming
CmFinishes ==
    /\ Head(inbox).k = "threads" /\ mode # "attach" /\ dap.init = No /\ d' = d
    /\ dap' = Dap(dap.launched, Yes, dap.config)
    /\ Edits("stopped", {}, editor.owed - 2) /\ Staying
CmConfigures ==
    /\ Head(inbox).k \in {"threads", "configurationDone"} /\ mode = "attach" /\ dap.config = No /\ d' = d
    /\ dap' = Dap(dap.launched, dap.init, Yes)
    /\ Edits("running", {}, editor.owed - 1) /\ Staying
CmAnswers ==
    /\ Head(inbox).k \notin StepKinds \cup {"pause", "disconnect"}
    /\ Head(inbox).k = "threads" => mode = "attach" \/ dap.init = Yes
    /\ Head(inbox).k \in {"threads", "configurationDone"} /\ mode = "attach" => dap.config = Yes
    /\ Marked(Head(inbox), d, d') /\ dap' = dap
    /\ Edits(editor.view, editor.said, editor.owed - 1) /\ Staying

\* A request that is read while the program is stopped, by its outcome.
LEMMA CommandStep ==
    ASSUME EditorType, LiveInv, CommandRequest
    PROVE  /\ Reads /\ run' = run
           /\ CmGoes \/ CmPauses \/ CmLeaves \/ CmFinishes \/ CmConfigures \/ CmAnswers
<1>1. PICK r, s, t, u : r = Head(inbox) /\ s = Now /\ u = Yes /\ t = handle_request(s, r, u)
  OBVIOUS
<1>2. /\ d' = t.d /\ dap' = t.dap /\ editor' = t.editor
      /\ phase' = IF t.go THEN "running" ELSE "stopped"
      /\ goal' = IF t.go THEN Goal(run.pos, Asked(r.k), Born(t.d, run.pos))
                 ELSE [goal EXCEPT !.born = Born(t.d, run.pos)]
  BY <1>1, Zenon DEF CommandRequest, Yes
<1>3. Reads /\ run' = run /\ phase = "stopped"
  BY Zenon DEF CommandRequest, Reads
<1>4. r.k \in LiveKinds
  <2>1. inbox # <<>> /\ inbox \in Seq(EditorRequests)
    BY <1>3, Zenon DEF Reads, EditorType
  <2>2. r = inbox[1] /\ 1 \in 1..Len(inbox)
    BY <1>1, <2>1
  <2>3. Kinds(LiveKinds)
    BY <1>3 DEF LiveInv
  <2>4. QED  BY <2>2, <2>3, Zenon DEF Kinds
<1>5. PICK v, S, o, p, x : v = editor.view /\ S = editor.said /\ o = editor.owed /\ p = editor.open /\ x = editor.extra
  OBVIOUS
<1>6. PICK l, i, c : l = dap.launched /\ i = dap.init /\ c = dap.config
  OBVIOUS
<1>7. editor = Ed(v, S, o, p, x) /\ dap = Dap(l, i, c) /\ s = Ses(d, Dap(l, i, c), Ed(v, S, o, p, x), No)
  <2>1. dap = Dap(l, i, c)
    BY <1>6, NowIs, Zenon
  <2>2. editor = Ed(v, S, o, p, x) /\ Now = Ses(d, dap, editor, No)
    BY <1>5, NowIs, Zenon
  <2>3. QED  BY <1>1, <2>1, <2>2, Zenon
<1>8. (i = Yes \/ i = No) /\ (c = Yes \/ c = No) /\ o \in Int
  <2>1. o \in Int
    BY <1>5 DEF EditorType
  <2>2. dap.init \in BOOLEAN /\ dap.config \in BOOLEAN
    BY DEF EditorType
  <2>3. QED  BY <1>6, <2>1, <2>2, Zenon DEF Yes, No
<1>9. PICK a : a = d
  OBVIOUS
<1>10. LiveOutcome(t, r, a, l, i, c, v, S, o, p, x)
  <2>1. s = Ses(a, Dap(l, i, c), Ed(v, S, o, p, x), No) /\ t = handle_request(s, r, Yes)
    BY <1>1, <1>7, <1>9, Zenon
  <2>2. QED  BY <1>4, <1>8, <2>1, LiveHandled
<1>11. ASSUME NEW z, NEW b, NEW e, NEW g, t = Ses(z, b, e, g)
       PROVE  d' = z /\ dap' = b /\ editor' = e /\ t.go = g
  <2>1. Ses(z, b, e, g).d = z /\ Ses(z, b, e, g).dap = b /\ Ses(z, b, e, g).editor = e /\ Ses(z, b, e, g).go = g
    BY PartsAre
  <2>2. QED  BY <1>2, <1>11, <2>1, Zenon
<1>12. ASSUME t.go = Yes
       PROVE  Resuming
  BY <1>1, <1>2, <1>12, Zenon DEF Resuming, Yes
<1>13. ASSUME t.go = No
       PROVE  Staying
  BY <1>1, <1>2, <1>13, Zenon DEF Staying, No
<1>14. CASE Goes(t, r, a, Dap(l, i, c), o, p, x)
  <2>1. r.k \in StepKinds /\ t = Ses(Stepped(r.k, a, Here.id), Dap(l, i, c), Ed("running", {}, o - 1, p, x), Yes)
    BY <1>14, Zenon DEF Goes
  <2>2. d' = Stepped(r.k, a, Here.id) /\ dap' = Dap(l, i, c) /\ editor' = Ed("running", {}, o - 1, p, x) /\ t.go = Yes
    BY <1>11, <2>1, Zenon
  <2>3. CmGoes
    BY <1>1, <1>5, <1>7, <1>9, <1>12, <2>1, <2>2, Zenon DEF CmGoes, Edits
  <2>4. QED  BY <1>3, <2>3
<1>15. CASE Pauses(t, r, a, Dap(l, i, c), v, S, o, p, x)
  <2>1. r.k = "pause" /\ t = Ses(pause(a), Dap(l, i, c), Ed(v, S, o - 1, p, x), Yes)
    BY <1>15, Zenon DEF Pauses
  <2>2. d' = pause(a) /\ dap' = Dap(l, i, c) /\ editor' = Ed(v, S, o - 1, p, x) /\ t.go = Yes
    BY <1>11, <2>1, Zenon
  <2>3. CmPauses
    BY <1>1, <1>5, <1>7, <1>9, <1>12, <2>1, <2>2, Zenon DEF CmPauses, Edits
  <2>4. QED  BY <1>3, <2>3
<1>16. CASE Leaves(t, r, a, Dap(l, i, c), o, p, x)
  <2>1. r.k = "disconnect" /\ t = Ses(quit(a), Dap(l, i, c), Ed("gone", {}, o - 1, p, x), Yes)
    BY <1>16, Zenon DEF Leaves
  <2>2. d' = quit(a) /\ dap' = Dap(l, i, c) /\ editor' = Ed("gone", {}, o - 1, p, x) /\ t.go = Yes
    BY <1>11, <2>1, Zenon
  <2>3. CmLeaves
    BY <1>1, <1>5, <1>7, <1>9, <1>12, <2>1, <2>2, Zenon DEF CmLeaves, Edits
  <2>4. QED  BY <1>3, <2>3
<1>17. CASE Finishes(t, r, a, l, i, c, o, p, x)
  <2>1. /\ r.k = "threads" /\ mode # "attach" /\ i = No
        /\ t = Ses(a, Dap(l, Yes, c), Ed("stopped", {}, o - 2, p, x), No)
    BY <1>17, Zenon DEF Finishes
  <2>2. d' = a /\ dap' = Dap(l, Yes, c) /\ editor' = Ed("stopped", {}, o - 2, p, x) /\ t.go = No
    BY <1>11, <2>1, Zenon
  <2>3. CmFinishes
    BY <1>1, <1>5, <1>6, <1>9, <1>13, <2>1, <2>2, Zenon DEF CmFinishes, Edits
  <2>4. QED  BY <1>3, <2>3
<1>18. CASE Configures(t, r, a, l, i, c, o, p, x)
  <2>1. /\ r.k \in {"threads", "configurationDone"} /\ mode = "attach" /\ c = No
        /\ t = Ses(a, Dap(l, i, Yes), Ed("running", {}, o - 1, p, x), No)
    BY <1>18, Zenon DEF Configures
  <2>2. d' = a /\ dap' = Dap(l, i, Yes) /\ editor' = Ed("running", {}, o - 1, p, x) /\ t.go = No
    BY <1>11, <2>1, Zenon
  <2>3. CmConfigures
    BY <1>1, <1>5, <1>6, <1>9, <1>13, <2>1, <2>2, Zenon DEF CmConfigures, Edits
  <2>4. QED  BY <1>3, <2>3
<1>19. CASE Answers(t, r, a, Dap(l, i, c), i, c, v, S, o, p, x)
  <2>1. PICK z : Marked(r, a, z) /\ t = Ses(z, Dap(l, i, c), Ed(v, S, o - 1, p, x), No)
    BY <1>19, Zenon DEF Answers
  <2>2. d' = z /\ dap' = Dap(l, i, c) /\ editor' = Ed(v, S, o - 1, p, x) /\ t.go = No
    BY <1>11, <2>1, Zenon
  <2>3. Marked(Head(inbox), d, d') /\ dap' = dap /\ Edits(editor.view, editor.said, editor.owed - 1) /\ Staying
    BY <1>1, <1>5, <1>7, <1>9, <1>13, <2>1, <2>2, Zenon DEF Edits
  <2>4. CmAnswers
    BY <1>1, <1>6, <1>19, <2>3, Zenon DEF CmAnswers, Answers
  <2>5. QED  BY <1>3, <2>4
<1>20. QED  BY <1>10, <1>14, <1>15, <1>16, <1>17, <1>18, <1>19, Zenon DEF LiveOutcome

-----------------------------------------------------------------------------
(* What the operations of the debugger do to its state. *)

LEMMA DebugFields ==
    ASSUME NEW b, NEW w, NEW a, NEW s, NEW t, NEW u
    PROVE  /\ DebugRec(b, w, a, s, t, u).bps = b /\ DebugRec(b, w, a, s, t, u).wps = w
           /\ DebugRec(b, w, a, s, t, u).active = a /\ DebugRec(b, w, a, s, t, u).state = s
           /\ DebugRec(b, w, a, s, t, u).stack = t /\ DebugRec(b, w, a, s, t, u).unique = u
BY DEF DebugRec

LEMMA BpsIs ==
    ASSUME NEW b, NEW w, NEW a, NEW s, NEW t, NEW u, NEW z
    PROVE  [DebugRec(b, w, a, s, t, u) EXCEPT !.bps = z] = DebugRec(z, w, a, s, t, u)
BY DEF DebugRec

LEMMA WpsIs ==
    ASSUME NEW b, NEW w, NEW a, NEW s, NEW t, NEW u, NEW z
    PROVE  [DebugRec(b, w, a, s, t, u) EXCEPT !.wps = z] = DebugRec(b, z, a, s, t, u)
BY DEF DebugRec

LEMMA ActiveIs ==
    ASSUME NEW b, NEW w, NEW a, NEW s, NEW t, NEW u, NEW z
    PROVE  [DebugRec(b, w, a, s, t, u) EXCEPT !.active = z] = DebugRec(b, w, z, s, t, u)
BY DEF DebugRec

LEMMA StateIs ==
    ASSUME NEW b, NEW w, NEW a, NEW s, NEW t, NEW u, NEW z
    PROVE  [DebugRec(b, w, a, s, t, u) EXCEPT !.state = z] = DebugRec(b, w, a, z, t, u)
BY DEF DebugRec

LEMMA StackIs ==
    ASSUME NEW b, NEW w, NEW a, NEW s, NEW t, NEW u, NEW z
    PROVE  [DebugRec(b, w, a, s, t, u) EXCEPT !.stack = z] = DebugRec(b, w, a, s, z, u)
BY DEF DebugRec

LEMMA UniqueIs ==
    ASSUME NEW b, NEW w, NEW a, NEW s, NEW t, NEW u, NEW z
    PROVE  [DebugRec(b, w, a, s, t, u) EXCEPT !.unique = z] = DebugRec(b, w, a, s, t, z)
BY DEF DebugRec

LEMMA DebugStateMade ==
    ASSUME NEW b, NEW w, NEW a, NEW s, NEW t, NEW u,
           IsNumbered(b, SourceLocations), IsNumbered(w, Variables), a \subseteq Nat,
           s \in [k: StateNames, id: Nat], t \in Seq(StackFrames), u \in Nat,
           DOMAIN b \cup DOMAIN w \subseteq 1..u
    PROVE  IsDebugState(DebugRec(b, w, a, s, t, u))
<1>1. PICK x : x = DebugRec(b, w, a, s, t, u)
  OBVIOUS
<1>2. x.bps = b /\ x.wps = w /\ x.active = a /\ x.state = s /\ x.stack = t /\ x.unique = u
  BY <1>1, DebugFields
<1>3. QED  BY <1>1, <1>2, Zenon DEF IsDebugState

\* Everything but what is to be done next is as before.
OnlyState(x, y) ==
    y.bps = x.bps /\ y.wps = x.wps /\ y.active = x.active /\ y.stack = x.stack /\ y.unique = x.unique

LEMMA StateSet ==
    ASSUME NEW x, IsDebugState(x), NEW z, z \in [k: StateNames, id: Nat]
    PROVE  /\ IsDebugState([x EXCEPT !.state = z]) /\ OnlyState(x, [x EXCEPT !.state = z])
           /\ [x EXCEPT !.state = z].state = z
<1>1. PICK b, w, a, s, t, u : b = x.bps /\ w = x.wps /\ a = x.active /\ s = x.state /\ t = x.stack /\ u = x.unique
  OBVIOUS
<1>2. x = DebugRec(b, w, a, s, t, u)
  BY <1>1, Zenon DEF IsDebugState
<1>3. PICK y : y = [x EXCEPT !.state = z]
  OBVIOUS
<1>4. y = DebugRec(b, w, a, z, t, u)
  BY <1>2, <1>3, StateIs
<1>5. y.bps = b /\ y.wps = w /\ y.active = a /\ y.state = z /\ y.stack = t /\ y.unique = u
  BY <1>4, DebugFields
<1>6. IsDebugState(y)
  BY <1>1, <1>4, <1>5, Zenon DEF IsDebugState
<1>7. QED  BY <1>1, <1>3, <1>5, <1>6, Zenon DEF OnlyState

\* The commands, by the state that each of them leaves.
LEMMA CommandsSet ==
    ASSUME NEW x, IsDebugState(x), NEW n \in Nat, NEW y,
           NEW z, \/ y = continue_execution(x) /\ z = St("Continue", 0)
                  \/ y = step_over(x, n) /\ z = St("StepOver", n)
                  \/ y = step_in(x) /\ z = St("StepIn", 0)
                  \/ y = quit(x) /\ z = St("Quit", 0)
                  \/ y = pause(x) /\ z = St("Pause", 0)
    PROVE  IsDebugState(y) /\ OnlyState(x, y) /\ y.state = z
<1>1. z \in [k: StateNames, id: Nat]
  <2>1. /\ St("Continue", 0) \in [k: StateNames, id: Nat] /\ St("StepOver", n) \in [k: StateNames, id: Nat]
        /\ St("StepIn", 0) \in [k: StateNames, id: Nat] /\ St("Quit", 0) \in [k: StateNames, id: Nat]
        /\ St("Pause", 0) \in [k: StateNames, id: Nat]
    BY DEF StateNames, St
  <2>2. QED  BY <2>1, Zenon
<1>2. y = [x EXCEPT !.state = z]
  BY Zenon DEF continue_execution, step_over, step_in, quit, pause
<1>3. QED  BY <1>1, <1>2, StateSet, Zenon

LEMMA FinishSet ==
    ASSUME NEW x, IsDebugState(x), NEW y, y = finish(x)
    PROVE  /\ IsDebugState(y) /\ OnlyState(x, y)
           /\ Len(x.stack) >= 2 => y.state = St("Finish", x.stack[Len(x.stack) - 1].id)
           /\ Len(x.stack) < 2 => y.state = St("Continue", 0)
<1>1. x.stack \in Seq(StackFrames)
  BY Zenon DEF IsDebugState
<1>2. PICK z : z = IF Len(x.stack) >= 2 THEN St("Finish", x.stack[Len(x.stack) - 1].id) ELSE St("Continue", 0)
  OBVIOUS
<1>3. z \in [k: StateNames, id: Nat]
  <2>1. Len(x.stack) >= 2 => x.stack[Len(x.stack) - 1].id \in Nat
    <3>1. Len(x.stack) >= 2 => x.stack[Len(x.stack) - 1] \in StackFrames
      BY <1>1
    <3>2. QED  BY <3>1 DEF StackFrames
  <2>2. QED  BY <1>2, <2>1 DEF StateNames, St
<1>4. y = [x EXCEPT !.state = z]
  BY <1>2, Zenon DEF finish
<1>5. IsDebugState(y) /\ OnlyState(x, y) /\ y.state = z
  BY <1>3, <1>4, StateSet
<1>6. Len(x.stack) \in Nat
  BY <1>1
<1>7. QED  BY <1>2, <1>5, <1>6

LEMMA ResetSet ==
    ASSUME NEW x, IsDebugState(x), NEW y, y = reset_for_new_call(x)
    PROVE  /\ IsDebugState(y) /\ y.bps = x.bps /\ y.wps = x.wps /\ y.unique = x.unique
           /\ y.active = {} /\ y.stack = <<>> /\ y.state = St("Continue", 0)
<1>1. PICK b, w, a, s, t, u : b = x.bps /\ w = x.wps /\ a = x.active /\ s = x.state /\ t = x.stack /\ u = x.unique
  OBVIOUS
<1>2. x = DebugRec(b, w, a, s, t, u)
  BY <1>1, Zenon DEF IsDebugState
<1>3. PICK e, c, n : e = {} /\ c = St("Continue", 0) /\ n = <<>>
  OBVIOUS
<1>4. y = [[[x EXCEPT !.active = e] EXCEPT !.state = c] EXCEPT !.stack = n]
  BY <1>3, Zenon DEF reset_for_new_call
<1>5. [x EXCEPT !.active = e] = DebugRec(b, w, e, s, t, u)
  BY <1>2, ActiveIs
<1>6. [DebugRec(b, w, e, s, t, u) EXCEPT !.state = c] = DebugRec(b, w, e, c, t, u)
  BY StateIs
<1>7. [DebugRec(b, w, e, c, t, u) EXCEPT !.stack = n] = DebugRec(b, w, e, c, n, u)
  BY StackIs
<1>8. y = DebugRec(b, w, e, c, n, u)
  BY <1>4, <1>5, <1>6, <1>7, Zenon
<1>9. y.bps = b /\ y.wps = w /\ y.active = e /\ y.state = c /\ y.stack = n /\ y.unique = u
  BY <1>8, DebugFields
<1>10. c \in [k: StateNames, id: Nat] /\ n \in Seq(StackFrames) /\ e \subseteq Nat
  BY <1>3 DEF St, StateNames
<1>11. IsDebugState(y)
  BY <1>1, <1>8, <1>9, <1>10, Zenon DEF IsDebugState
<1>12. QED  BY <1>1, <1>3, <1>9, <1>11, Zenon

\* What is set may change at a stop; numbers are not used again.
Keeps(f, g, u) == \A i \in DOMAIN g : (i \in DOMAIN f /\ g[i] = f[i]) \/ i > u
Edited(x, y) ==
    /\ y.active = x.active /\ y.state = x.state /\ y.stack = x.stack /\ y.unique >= x.unique
    /\ Keeps(x.bps, y.bps, x.unique) /\ Keeps(x.wps, y.wps, x.unique)

LEMMA BreakpointsAdded ==
    ASSUME NEW x, IsDebugState(x), NEW bs \in Seq(SourceLocations), NEW y, y = add_breakpoints(x, bs)
    PROVE  IsDebugState(y) /\ Edited(x, y)
<1>1. PICK b, w, a, s, t, u : b = x.bps /\ w = x.wps /\ a = x.active /\ s = x.state /\ t = x.stack /\ u = x.unique
  OBVIOUS
<1>2. x = DebugRec(b, w, a, s, t, u)
  BY <1>1, Zenon DEF IsDebugState
<1>3. PICK n, f : /\ n = u + Len(bs)
                  /\ f = [i \in DOMAIN b \cup (u + 1)..(u + Len(bs)) |-> IF i > u THEN Breakpoint(bs[i - u]) ELSE b[i]]
  OBVIOUS
<1>4. y = [[x EXCEPT !.unique = n] EXCEPT !.bps = f]
  BY <1>1, <1>3, Zenon DEF add_breakpoints
<1>5. [x EXCEPT !.unique = n] = DebugRec(b, w, a, s, t, n)
  BY <1>2, UniqueIs
<1>6. [DebugRec(b, w, a, s, t, n) EXCEPT !.bps = f] = DebugRec(f, w, a, s, t, n)
  BY BpsIs
<1>7. y = DebugRec(f, w, a, s, t, n)
  BY <1>4, <1>5, <1>6, Zenon
<1>8. y.bps = f /\ y.wps = w /\ y.active = a /\ y.state = s /\ y.stack = t /\ y.unique = n
  BY <1>7, DebugFields
<1>9. /\ IsNumbered(b, SourceLocations) /\ IsNumbered(w, Variables) /\ u \in Nat
      /\ DOMAIN b \subseteq 1..u /\ DOMAIN w \subseteq 1..u
  BY <1>1, Zenon DEF IsDebugState
<1>10. n \in Nat /\ n >= u
  BY <1>3, <1>9
<1>11. DOMAIN f = DOMAIN b \cup (u + 1)..(u + Len(bs))
  BY <1>3
<1>12. ASSUME NEW i \in DOMAIN f
       PROVE  f[i] \in SourceLocations /\ ((i \in DOMAIN b /\ f[i] = b[i]) \/ i > u)
  <2>1. CASE i > u
    <3>1. i \in (u + 1)..(u + Len(bs))
      BY <1>9, <1>11, <1>12, <2>1
    <3>2. PICK e : e = bs[i - u]
      OBVIOUS
    <3>3. e \in SourceLocations
      BY <1>9, <3>1, <3>2
    <3>4. f[i] = Breakpoint(e)
      BY <1>3, <1>11, <1>12, <2>1, <3>2
    <3>5. Breakpoint(e) \in SourceLocations
      BY <3>3 DEF Breakpoint, SourceLocations
    <3>6. QED  BY <2>1, <3>4, <3>5
  <2>2. CASE ~ (i > u)
    <3>1. i \in DOMAIN b
      BY <1>9, <1>11, <1>12, <2>2
    <3>2. f[i] = b[i]
      BY <1>3, <1>11, <1>12, <2>2
    <3>3. QED  BY <1>9, <3>1, <3>2 DEF IsNumbered
  <2>3. QED  BY <2>1, <2>2
<1>13. IsNumbered(f, SourceLocations)
  <2>1. DOMAIN f \subseteq Nat
    BY <1>9, <1>11
  <2>2. f \in [DOMAIN f -> SourceLocations]
    BY <1>3, <1>11, <1>12
  <2>3. QED  BY <2>1, <2>2 DEF IsNumbered
<1>14. DOMAIN f \cup DOMAIN w \subseteq 1..n
  BY <1>3, <1>9, <1>10, <1>11
<1>15. IsDebugState(y)
  BY <1>1, <1>7, <1>8, <1>10, <1>13, <1>14, Zenon DEF IsDebugState
<1>16. Keeps(b, f, u) /\ Keeps(w, w, u)
  BY <1>12, Zenon DEF Keeps
<1>17. QED  BY <1>1, <1>8, <1>10, <1>15, <1>16, Zenon DEF Edited

LEMMA WatchpointAdded ==
    ASSUME NEW x, IsDebugState(x), NEW v \in Variables, NEW y, y = add_watchpoint(x, v)
    PROVE  IsDebugState(y) /\ Edited(x, y)
<1>1. PICK b, w, a, s, t, u : b = x.bps /\ w = x.wps /\ a = x.active /\ s = x.state /\ t = x.stack /\ u = x.unique
  OBVIOUS
<1>2. x = DebugRec(b, w, a, s, t, u)
  BY <1>1, Zenon DEF IsDebugState
<1>3. PICK n, f : n = u + 1 /\ f = [i \in DOMAIN w \cup {u + 1} |-> IF i > u THEN Watchpoint(v) ELSE w[i]]
  OBVIOUS
<1>4. y = [[x EXCEPT !.unique = n] EXCEPT !.wps = f]
  BY <1>1, <1>3, Zenon DEF add_watchpoint
<1>5. [x EXCEPT !.unique = n] = DebugRec(b, w, a, s, t, n)
  BY <1>2, UniqueIs
<1>6. [DebugRec(b, w, a, s, t, n) EXCEPT !.wps = f] = DebugRec(b, f, a, s, t, n)
  BY WpsIs
<1>7. y = DebugRec(b, f, a, s, t, n)
  BY <1>4, <1>5, <1>6, Zenon
<1>8. y.bps = b /\ y.wps = f /\ y.active = a /\ y.state = s /\ y.stack = t /\ y.unique = n
  BY <1>7, DebugFields
<1>9. /\ IsNumbered(b, SourceLocations) /\ IsNumbered(w, Variables) /\ u \in Nat
      /\ DOMAIN b \subseteq 1..u /\ DOMAIN w \subseteq 1..u
  BY <1>1, Zenon DEF IsDebugState
<1>10. n \in Nat /\ n >= u
  BY <1>3, <1>9
<1>11. DOMAIN f = DOMAIN w \cup {u + 1}
  BY <1>3
<1>12. Watchpoint(v) \in Variables
  BY DEF Watchpoint, Variables
<1>13. ASSUME NEW i \in DOMAIN f
       PROVE  f[i] \in Variables /\ ((i \in DOMAIN w /\ f[i] = w[i]) \/ i > u)
  <2>1. CASE i > u
    <3>1. f[i] = Watchpoint(v)
      BY <1>3, <1>11, <1>13, <2>1
    <3>2. QED  BY <1>12, <2>1, <3>1
  <2>2. CASE ~ (i > u)
    <3>1. i \in DOMAIN w
      BY <1>9, <1>11, <1>13, <2>2
    <3>2. f[i] = w[i]
      BY <1>3, <1>11, <1>13, <2>2
    <3>3. QED  BY <1>9, <3>1, <3>2 DEF IsNumbered
  <2>3. QED  BY <2>1, <2>2
<1>14. IsNumbered(f, Variables)
  <2>1. DOMAIN f \subseteq Nat
    BY <1>9, <1>11
  <2>2. f \in [DOMAIN f -> Variables]
    BY <1>3, <1>11, <1>13
  <2>3. QED  BY <2>1, <2>2 DEF IsNumbered
<1>15. DOMAIN b \cup DOMAIN f \subseteq 1..n
  BY <1>3, <1>9, <1>10, <1>11
<1>16. IsDebugState(y)
  BY <1>1, <1>7, <1>8, <1>10, <1>14, <1>15, Zenon DEF IsDebugState
<1>17. Keeps(b, b, u) /\ Keeps(w, f, u)
  BY <1>13, Zenon DEF Keeps
<1>18. QED  BY <1>1, <1>8, <1>10, <1>16, <1>17, Zenon DEF Edited

\* Fewer of either.
Fewer(f, g) == DOMAIN f \subseteq DOMAIN g /\ f \in [DOMAIN f -> {g[i] : i \in DOMAIN g}] /\ \A i \in DOMAIN f : f[i] = g[i]

LEMMA FewerIs ==
    ASSUME NEW g, NEW S, IsNumbered(g, S), NEW f, Fewer(f, g), NEW u
    PROVE  IsNumbered(f, S) /\ Keeps(g, f, u) /\ Keeps(g, g, u)
BY DEF IsNumbered, Fewer, Keeps

LEMMA FewerMade ==
    ASSUME NEW g, NEW f, f = <<>> \/ \E i : f = [j \in DOMAIN g \ {i} |-> g[j]]
    PROVE  Fewer(f, g)
<1>1. CASE f = <<>>
  <2>1. DOMAIN f = {}
    BY <1>1
  <2>2. f \in [DOMAIN f -> {g[i] : i \in DOMAIN g}]
    BY <1>1
  <2>3. QED  BY <2>1, <2>2, Zenon DEF Fewer
<1>2. CASE \E i : f = [j \in DOMAIN g \ {i} |-> g[j]]
  <2>1. PICK i : f = [j \in DOMAIN g \ {i} |-> g[j]]
    BY <1>2
  <2>2. QED  BY <2>1 DEF Fewer
<1>3. QED  BY <1>1, <1>2

\* Deleting breakpoints or watchpoints, in whichever way.
LEMMA PointsDeleted ==
    ASSUME NEW x, IsDebugState(x), NEW y,
           \/ \E f : Fewer(f, x.bps) /\ y = [x EXCEPT !.bps = f]
           \/ \E h : Fewer(h, x.wps) /\ y = [x EXCEPT !.wps = h]
    PROVE  IsDebugState(y) /\ Edited(x, y)
<1>1. PICK b, w, a, s, t, u : b = x.bps /\ w = x.wps /\ a = x.active /\ s = x.state /\ t = x.stack /\ u = x.unique
  OBVIOUS
<1>2. x = DebugRec(b, w, a, s, t, u)
  BY <1>1, Zenon DEF IsDebugState
<1>3. /\ IsNumbered(b, SourceLocations) /\ IsNumbered(w, Variables) /\ u \in Nat
      /\ DOMAIN b \subseteq 1..u /\ DOMAIN w \subseteq 1..u
  BY <1>1, Zenon DEF IsDebugState
<1>4. Keeps(b, b, u) /\ Keeps(w, w, u)
  BY DEF Keeps
<1>6. u >= u
  BY <1>3
<1>7. CASE \E f : Fewer(f, x.bps) /\ y = [x EXCEPT !.bps = f]
  <2>0. PICK f : Fewer(f, b) /\ y = [x EXCEPT !.bps = f]
    BY <1>1, <1>7
  <2>1. y = DebugRec(f, w, a, s, t, u)
    BY <1>2, <2>0, BpsIs
  <2>2. y.bps = f /\ y.wps = w /\ y.active = a /\ y.state = s /\ y.stack = t /\ y.unique = u
    BY <2>1, DebugFields
  <2>3. IsNumbered(f, SourceLocations) /\ Keeps(b, f, u)
    BY <1>3, <2>0, FewerIs
  <2>4. DOMAIN f \cup DOMAIN w \subseteq 1..u
    <3>1. DOMAIN f \subseteq DOMAIN b
      BY <2>0, Zenon DEF Fewer
    <3>2. QED  BY <1>3, <3>1, Zenon
  <2>5. IsDebugState(y)
    <3>1. y = DebugRec(y.bps, y.wps, y.active, y.state, y.stack, y.unique)
      BY <2>1, <2>2, Zenon
    <3>2. a \subseteq Nat /\ s \in [k: StateNames, id: Nat] /\ t \in Seq(StackFrames)
      BY <1>1, Zenon DEF IsDebugState
    <3>3. QED  BY <1>3, <2>2, <2>3, <2>4, <3>1, <3>2, Zenon DEF IsDebugState
  <2>6. QED  BY <1>1, <1>4, <1>6, <2>2, <2>3, <2>5, Zenon DEF Edited
<1>8. CASE \E h : Fewer(h, x.wps) /\ y = [x EXCEPT !.wps = h]
  <2>0. PICK h : Fewer(h, w) /\ y = [x EXCEPT !.wps = h]
    BY <1>1, <1>8
  <2>1. y = DebugRec(b, h, a, s, t, u)
    BY <1>2, <2>0, WpsIs
  <2>2. y.bps = b /\ y.wps = h /\ y.active = a /\ y.state = s /\ y.stack = t /\ y.unique = u
    BY <2>1, DebugFields
  <2>3. IsNumbered(h, Variables) /\ Keeps(w, h, u)
    BY <1>3, <2>0, FewerIs
  <2>4. DOMAIN b \cup DOMAIN h \subseteq 1..u
    BY <1>3, <2>0 DEF Fewer
  <2>5. IsDebugState(y)
    <3>1. y = DebugRec(y.bps, y.wps, y.active, y.state, y.stack, y.unique)
      BY <2>1, <2>2, Zenon
    <3>2. a \subseteq Nat /\ s \in [k: StateNames, id: Nat] /\ t \in Seq(StackFrames)
      BY <1>1, Zenon DEF IsDebugState
    <3>3. QED  BY <1>3, <2>2, <2>3, <2>4, <3>1, <3>2, Zenon DEF IsDebugState
  <2>6. QED  BY <1>1, <1>4, <1>6, <2>2, <2>3, <2>5, Zenon DEF Edited
<1>9. QED  BY <1>7, <1>8

LEMMA EditedItself ==
    ASSUME NEW x, IsDebugState(x)
    PROVE  Edited(x, x)
<1>1. x.unique \in Nat
  BY Zenon DEF IsDebugState
<1>2. x.unique >= x.unique
  BY <1>1
<1>3. QED  BY <1>2, Zenon DEF Edited, Keeps

\* A request carries places in sources and variables.
LEMMA MarkedIs ==
    ASSUME NEW x, IsDebugState(x), NEW r \in EditorRequests, NEW y, Marked(r, x, y)
    PROVE  IsDebugState(y) /\ Edited(x, y)
<1>1. CASE y = x
  BY <1>1, EditedItself
<1>2. CASE r.k = "setBreakpoints" /\ y = add_breakpoints(x, r.bs)
  <2>1. r.bs \in Breakpoints
    BY <1>2 DEF EditorRequests, Req, PlainKinds, SetBreakpoints, Watch, Inspect
  <2>2. r.bs \in Seq(SourceLocations)
    BY <2>1, ServerAssumption
  <2>3. QED  BY <1>2, <2>2, BreakpointsAdded
<1>3. CASE r.k = "evaluate" /\ y = add_watchpoint(x, [r.w EXCEPT !.access = "write"])
  <2>1. r.w \in Watchables
    BY <1>3 DEF EditorRequests, Req, PlainKinds, SetBreakpoints, Watch, Inspect
  <2>2. r.w \in Variables
    BY <2>1, ServerAssumption
  <2>3. [r.w EXCEPT !.access = "write"] \in Variables
    BY <2>2 DEF Variables
  <2>4. QED  BY <1>3, <2>3, WatchpointAdded
<1>4. QED  BY <1>1, <1>2, <1>3, Zenon DEF Marked

\* The console's commands that set and delete.
LEMMA CliEdits ==
    ASSUME IsDebugState(d), CliPoints
    PROVE  IsDebugState(d') /\ Edited(d, d')
<1>1. d' \in break_command \/ d' \in watch_command \/ d' \in delete_commands
  BY Zenon DEF CliPoints
<1>2. PICK x, y : x = d /\ y = d'
  OBVIOUS
<1>3. IsDebugState(x)
  BY <1>2, Zenon
<1>4. CASE d' \in break_command
  <2>1. PICK b \in SourceBreakpoints \cup FunctionBreakpoints : y = add_breakpoints(x, <<b>>)
    BY <1>2, <1>4, Zenon DEF break_command, add_breakpoint
  <2>2. b \in SourceLocations
    <3>1. CASE b \in FunctionBreakpoints
      BY <3>1, ServerAssumption
    <3>2. CASE b \in SourceBreakpoints
      <4>1. PICK bs \in Breakpoints : b \in SX!ToSet(bs)
        BY <3>2, Zenon DEF SourceBreakpoints
      <4>2. PICK i \in DOMAIN bs : b = bs[i]
        BY <4>1, Zenon DEF SX!ToSet
      <4>3. bs \in Seq(SourceLocations)
        BY <4>1, ServerAssumption
      <4>4. QED  BY <4>2, <4>3
    <3>3. QED  BY <2>1, <3>1, <3>2
  <2>3. <<b>> \in Seq(SourceLocations)
    BY <2>2
  <2>4. IsDebugState(y) /\ Edited(x, y)
    BY <1>3, <2>1, <2>3, BreakpointsAdded
  <2>5. QED  BY <1>2, <2>4, Zenon
<1>5. CASE d' \in watch_command
  <2>0. \E w \in Watchables, a \in {"read", "write", "both"} : d' = add_watchpoint(d, [w EXCEPT !.access = a])
    BY <1>5, Zenon DEF watch_command
  <2>1. PICK w \in Watchables, a \in {"read", "write", "both"} : y = add_watchpoint(x, [w EXCEPT !.access = a])
    BY <1>2, <2>0, Zenon
  <2>2. w \in Variables
    BY <2>1, ServerAssumption
  <2>3. [w EXCEPT !.access = a] \in Variables
    BY <2>1, <2>2 DEF Variables
  <2>4. IsDebugState(y) /\ Edited(x, y)
    BY <1>3, <2>1, <2>3, WatchpointAdded
  <2>5. QED  BY <1>2, <2>4, Zenon
<1>6. CASE d' \in delete_commands
  <2>1. \/ \E i : y = delete_breakpoint(x, i)
        \/ y = delete_all_breakpoints(x)
        \/ \E i : y = delete_watchpoint(x, i)
        \/ y = delete_all_watchpoints(x)
    BY <1>2, <1>6, Zenon DEF delete_commands
  <2>2. CASE \E i : y = delete_breakpoint(x, i)
    <3>1. PICK i, f : f = [j \in DOMAIN x.bps \ {i} |-> x.bps[j]] /\ y = [x EXCEPT !.bps = f]
      BY <2>2, Zenon DEF delete_breakpoint
    <3>2. PICK g : g = x.bps
      OBVIOUS
    <3>3. Fewer(f, g)
      BY <3>1, <3>2, FewerMade
    <3>4. \E h : Fewer(h, x.bps) /\ y = [x EXCEPT !.bps = h]
      BY <3>1, <3>2, <3>3, Zenon
    <3>5. IsDebugState(y) /\ Edited(x, y)
      BY <1>3, <3>4, PointsDeleted
    <3>6. QED  BY <1>2, <3>5, Zenon
  <2>3. CASE y = delete_all_breakpoints(x)
    <3>1. PICK f : f = <<>> /\ y = [x EXCEPT !.bps = f]
      BY <2>3, Zenon DEF delete_all_breakpoints
    <3>2. PICK g : g = x.bps
      OBVIOUS
    <3>3. Fewer(f, g)
      BY <3>1, FewerMade
    <3>4. \E h : Fewer(h, x.bps) /\ y = [x EXCEPT !.bps = h]
      BY <3>1, <3>2, <3>3, Zenon
    <3>5. IsDebugState(y) /\ Edited(x, y)
      BY <1>3, <3>4, PointsDeleted
    <3>6. QED  BY <1>2, <3>5, Zenon
  <2>4. CASE \E i : y = delete_watchpoint(x, i)
    <3>1. PICK i, f : f = [j \in DOMAIN x.wps \ {i} |-> x.wps[j]] /\ y = [x EXCEPT !.wps = f]
      BY <2>4, Zenon DEF delete_watchpoint
    <3>2. PICK g : g = x.wps
      OBVIOUS
    <3>3. Fewer(f, g)
      BY <3>1, <3>2, FewerMade
    <3>4. \E h : Fewer(h, x.wps) /\ y = [x EXCEPT !.wps = h]
      BY <3>1, <3>2, <3>3, Zenon
    <3>5. IsDebugState(y) /\ Edited(x, y)
      BY <1>3, <3>4, PointsDeleted
    <3>6. QED  BY <1>2, <3>5, Zenon
  <2>5. CASE y = delete_all_watchpoints(x)
    <3>1. PICK f : f = <<>> /\ y = [x EXCEPT !.wps = f]
      BY <2>5, Zenon DEF delete_all_watchpoints
    <3>2. PICK g : g = x.wps
      OBVIOUS
    <3>3. Fewer(f, g)
      BY <3>1, FewerMade
    <3>4. \E h : Fewer(h, x.wps) /\ y = [x EXCEPT !.wps = h]
      BY <3>1, <3>2, <3>3, Zenon
    <3>5. IsDebugState(y) /\ Edited(x, y)
      BY <1>3, <3>4, PointsDeleted
    <3>6. QED  BY <1>2, <3>5, Zenon
  <2>6. QED  BY <2>1, <2>2, <2>3, <2>4, <2>5
<1>7. QED  BY <1>1, <1>4, <1>5, <1>6

-----------------------------------------------------------------------------
(* What a hook call does to the state of the debugger. *)

ReplaceAt(t, k, m) == [t EXCEPT ![k] = m]

IsReplaced(S, t, k, m, h) ==
    h \in Seq(S) /\ Len(h) = Len(t) /\ \A j \in 1..Len(t) : h[j] = IF j = k THEN m ELSE t[j]

LEMMA ReplaceIs ==
    ASSUME NEW S, NEW t \in Seq(S), NEW k \in 1..Len(t), NEW m \in S
    PROVE  IsReplaced(S, t, k, m, ReplaceAt(t, k, m))
BY DEF ReplaceAt, IsReplaced

LEMMA TopIs ==
    ASSUME NEW S, NEW t0 \in Seq(S), NEW e \in S, NEW m \in S, NEW t, t = Append(t0, e)
    PROVE  t \in Seq(S) /\ Len(t) = Len(t0) + 1 /\ t[Len(t)] = e /\ [t EXCEPT ![Len(t)] = m] = Append(t0, m)
<1>1. t \in Seq(S) /\ Len(t) = Len(t0) + 1 /\ t[Len(t)] = e /\ Len(t0) \in Nat /\ \A j \in 1..Len(t0) : t[j] = t0[j]
  OBVIOUS
<1>2. PICK h, g : h = [t EXCEPT ![Len(t)] = m] /\ g = Append(t0, m)
  OBVIOUS
<1>3. h \in Seq(S) /\ Len(h) = Len(t0) + 1 /\ h[Len(t)] = m /\ \A j \in 1..Len(t0) : h[j] = t0[j]
  <2>1. Len(t) \in 1..Len(t) /\ \A j \in 1..Len(t0) : j \in 1..Len(t) /\ j # Len(t)
    BY <1>1
  <2>2. PICK k : k = Len(t)
    OBVIOUS
  <2>3. k \in 1..Len(t) /\ t \in Seq(S)
    BY <1>1, <2>1, <2>2
  <2>5. h = ReplaceAt(t, k, m)
    BY <1>2, <2>2, Zenon DEF ReplaceAt
  <2>6. h \in Seq(S) /\ Len(h) = Len(t) /\ \A j \in 1..Len(t) : h[j] = IF j = k THEN m ELSE t[j]
    <3>1. IsReplaced(S, t, k, m, ReplaceAt(t, k, m))
      BY <2>3, ReplaceIs
    <3>2. QED  BY <2>5, <3>1, Zenon DEF IsReplaced
  <2>7. QED  BY <1>1, <2>1, <2>2, <2>6
<1>4. g \in Seq(S) /\ Len(g) = Len(t0) + 1 /\ g[Len(t)] = m /\ \A j \in 1..Len(t0) : g[j] = t0[j]
  BY <1>1, <1>2
<1>5. \A j \in 1..Len(g) : h[j] = g[j]
  BY <1>1, <1>3, <1>4
<1>6. h = g
  <2>1. h \in Seq(S) /\ g \in Seq(S) /\ Len(h) = Len(g)
    BY <1>3, <1>4, Zenon
  <2>2. \A j \in 1..Len(h) : h[j] = g[j]
    BY <1>5, <2>1, Zenon
  <2>3. QED  BY ONLY <2>1, <2>2, SeqEqual
<1>7. QED  BY <1>1, <1>2, <1>6, Zenon

LEMMA FrameActs ==
    ASSUME NEW n, NEW A, NEW B
    PROVE  [id |-> n, act |-> A].act = A /\ [[id |-> n, act |-> A] EXCEPT !.act = B] = [id |-> n, act |-> B]
OBVIOUS

MarkTop(t, i) == [t EXCEPT ![Len(t)] = [t[Len(t)] EXCEPT !.act = t[Len(t)].act \cup {i}]]

LEMMA TopMarked ==
    ASSUME NEW t0 \in Seq(StackFrames), NEW n \in Nat, NEW i \in Nat, NEW e, e = [id |-> n, act |-> {}]
    PROVE  MarkTop(Append(t0, e), i) = Append(t0, [id |-> n, act |-> {i}])
<1>0. PICK t, m : t = Append(t0, e) /\ m = [t[Len(t)] EXCEPT !.act = t[Len(t)].act \cup {i}]
  OBVIOUS
<1>1. PICK f : f = [id |-> n, act |-> {i}]
  OBVIOUS
<1>2. e \in StackFrames
  BY DEF StackFrames
<1>3. f \in StackFrames
  BY <1>1 DEF StackFrames
<1>4. t[Len(t)] = e
  BY <1>0, <1>2, TopIs
<1>5. e.act = {} /\ [e EXCEPT !.act = {i}] = f
  BY <1>1, FrameActs
<1>6. {} \cup {i} = {i}
  OBVIOUS
<1>7. m = f
  BY <1>0, <1>4, <1>5, <1>6, Zenon
<1>8. [t EXCEPT ![Len(t)] = f] = Append(t0, f)
  <2>1. PICK S : S = StackFrames
    OBVIOUS
  <2>2. t0 \in Seq(S) /\ e \in S /\ f \in S /\ t = Append(t0, e)
    BY <1>0, <1>2, <1>3, <2>1, Zenon
  <2>3. QED  BY ONLY <2>2, TopIs
<1>9. QED  BY <1>0, <1>1, <1>7, <1>8, Zenon DEF MarkTop

\* The breakpoint that an expression is at, and the state that it leaves.
Strikes(x, e, A, z) ==
    \/ A = {} /\ z = x.state /\ (x.state.k = "Quit" \/ \A i \in DOMAIN x.bps \ x.active : ~ Matches(x.bps[i], e))
    \/ /\ x.state.k # "Quit"
       /\ \E i \in DOMAIN x.bps \ x.active : Matches(x.bps[i], e) /\ A = {i} /\ z = St("Break", i)
Looks(x, e, z, s) ==
    \/ s = z /\ (x.state.k = "Quit" \/ ~ e.list \/ \A i \in DOMAIN x.wps : ~ Watches(x.wps[i], e))
    \/ /\ x.state.k # "Quit" /\ e.list
       /\ \E i \in DOMAIN x.wps : Watches(x.wps[i], e) /\ s = St("DataBreak", i)
Begun(x, e, y, A, s) ==
    /\ y.bps = x.bps /\ y.wps = x.wps /\ y.unique = x.unique /\ y.active = x.active \cup A
    /\ y.stack = Append(x.stack, [id |-> e.id, act |-> A]) /\ y.state = s
Enters(x, e, o) ==
    /\ IsDebugState(o.d)
    /\ \E A, z, s : Strikes(x, e, A, z) /\ Looks(x, e, z, s) /\ Begun(x, e, o.d, A, s)
    /\ o.waits <=> (x.state.k # "Quit" /\ e.list /\ Waits(o.d))

LEMMA PushedIs ==
    ASSUME NEW b, NEW w, NEW a, NEW s, NEW t, NEW u, NEW e
    PROVE  Pushed(DebugRec(b, w, a, s, t, u), e) = DebugRec(b, w, a, s, Append(t, [id |-> e.id, act |-> {}]), u)
<1>1. PICK x : x = DebugRec(b, w, a, s, t, u)
  OBVIOUS
<1>2. PICK f : f = Append(t, [id |-> e.id, act |-> {}])
  OBVIOUS
<1>3. x.stack = t
  BY <1>1, DebugFields
<1>4. Pushed(x, e) = [x EXCEPT !.stack = f]
  BY <1>2, <1>3, Zenon DEF Pushed
<1>5. [x EXCEPT !.stack = f] = DebugRec(b, w, a, s, f, u)
  BY <1>1, StackIs
<1>6. QED  BY <1>1, <1>2, <1>4, <1>5, Zenon

Struck(b, w, a, t, u, e, p, y) ==
    \/ y = p /\ \A i \in DOMAIN b \ a : ~ Matches(b[i], e)
    \/ \E i \in DOMAIN b \ a :
          /\ Matches(b[i], e)
          /\ y = DebugRec(b, w, a \cup {i}, St("Break", i), Append(t, [id |-> e.id, act |-> {i}]), u)

LEMMA AtBreakpointIs ==
    ASSUME NEW b, NEW w, NEW a, NEW s, NEW t0 \in Seq(StackFrames), NEW u, NEW e \in HookCall, DOMAIN b \subseteq Nat,
           NEW p, p = DebugRec(b, w, a, s, Append(t0, [id |-> e.id, act |-> {}]), u),
           NEW y \in AtBreakpoint(p, e)
    PROVE  Struck(b, w, a, t0, u, e, p, y)
<1>1. PICK t, n, f : t = Append(t0, f) /\ f = [id |-> n, act |-> {}] /\ n = e.id
  OBVIOUS
<1>2. p = DebugRec(b, w, a, s, t, u)
  BY <1>1, Zenon
<1>3. p.bps = b /\ p.active = a /\ p.stack = t
  BY <1>2, DebugFields
<1>4. n \in Nat
  BY <1>1 DEF HookCall
<1>5. did_hit_source_breakpoint(p, e) = {i \in DOMAIN b \ a : Matches(b[i], e)}
  BY <1>3, Zenon DEF did_hit_source_breakpoint
<1>6. \/ did_hit_source_breakpoint(p, e) = {} /\ y = p
      \/ \E i \in did_hit_source_breakpoint(p, e) :
            y = [p EXCEPT !.active = p.active \cup {i}, !.stack[Len(p.stack)].act = p.stack[Len(p.stack)].act \cup {i},
                          !.state = St("Break", i)]
  BY Zenon DEF AtBreakpoint
<1>7. CASE did_hit_source_breakpoint(p, e) = {} /\ y = p
  BY <1>5, <1>7, Zenon DEF Struck
<1>8. CASE \E i \in did_hit_source_breakpoint(p, e) :
              y = [p EXCEPT !.active = p.active \cup {i}, !.stack[Len(p.stack)].act = p.stack[Len(p.stack)].act \cup {i},
                            !.state = St("Break", i)]
  <2>1. PICK i \in did_hit_source_breakpoint(p, e) :
              y = [p EXCEPT !.active = p.active \cup {i}, !.stack[Len(p.stack)].act = p.stack[Len(p.stack)].act \cup {i},
                            !.state = St("Break", i)]
    BY <1>8
  <2>2. i \in DOMAIN b \ a /\ Matches(b[i], e)
    BY <1>5, <2>1, Zenon
  <2>3. i \in Nat
    BY <2>2
  <2>4. PICK A, m, t2, z : /\ A = a \cup {i} /\ m = [t[Len(t)] EXCEPT !.act = t[Len(t)].act \cup {i}]
                           /\ t2 = [t EXCEPT ![Len(t)] = m] /\ z = St("Break", i)
    OBVIOUS
  <2>5. y = [[[p EXCEPT !.active = A] EXCEPT !.stack = t2] EXCEPT !.state = z]
    BY <1>3, <2>1, <2>4, Zenon
  <2>6. [DebugRec(b, w, a, s, t, u) EXCEPT !.active = A] = DebugRec(b, w, A, s, t, u)
    BY ActiveIs
  <2>7. [DebugRec(b, w, A, s, t, u) EXCEPT !.stack = t2] = DebugRec(b, w, A, s, t2, u)
    BY StackIs
  <2>8. [DebugRec(b, w, A, s, t2, u) EXCEPT !.state = z] = DebugRec(b, w, A, z, t2, u)
    BY StateIs
  <2>9. t2 = Append(t0, [id |-> n, act |-> {i}])
    <3>1. MarkTop(Append(t0, f), i) = Append(t0, [id |-> n, act |-> {i}])
      BY <1>1, <1>4, <2>3, TopMarked
    <3>2. QED  BY <1>1, <2>4, <3>1, Zenon DEF MarkTop
  <2>10. y = DebugRec(b, w, A, z, t2, u)
    BY <1>2, <2>5, <2>6, <2>7, <2>8, Zenon
  <2>11. y = DebugRec(b, w, a \cup {i}, St("Break", i), Append(t0, [id |-> e.id, act |-> {i}]), u)
    BY <1>1, <2>4, <2>9, <2>10, Zenon
  <2>12. QED  BY <2>2, <2>11, Zenon DEF Struck
<1>9. QED  BY <1>6, <1>7, <1>8

LEMMA AtWatchpointIs ==
    ASSUME NEW b, NEW w, NEW a, NEW s, NEW t, NEW u, NEW e, NEW y \in AtWatchpoint(DebugRec(b, w, a, s, t, u), e)
    PROVE  \/ y = DebugRec(b, w, a, s, t, u) /\ \A i \in DOMAIN w : ~ Watches(w[i], e)
           \/ \E i \in DOMAIN w : Watches(w[i], e) /\ y = DebugRec(b, w, a, St("DataBreak", i), t, u)
<1>1. PICK p : p = DebugRec(b, w, a, s, t, u)
  OBVIOUS
<1>2. p.wps = w
  BY <1>1, DebugFields
<1>3. did_hit_data_breakpoint(p, e) = {i \in DOMAIN w : Watches(w[i], e)}
  BY <1>2, Zenon DEF did_hit_data_breakpoint
<1>4. \/ did_hit_data_breakpoint(p, e) = {} /\ y = p
      \/ \E i \in did_hit_data_breakpoint(p, e) : y = [p EXCEPT !.state = St("DataBreak", i)]
  BY <1>1, Zenon DEF AtWatchpoint
<1>5. CASE did_hit_data_breakpoint(p, e) = {} /\ y = p
  BY <1>1, <1>3, <1>5
<1>6. CASE \E i \in did_hit_data_breakpoint(p, e) : y = [p EXCEPT !.state = St("DataBreak", i)]
  <2>1. PICK i \in did_hit_data_breakpoint(p, e) : y = [p EXCEPT !.state = St("DataBreak", i)]
    BY <1>6
  <2>2. i \in DOMAIN w /\ Watches(w[i], e)
    BY <1>3, <2>1, Zenon
  <2>3. [p EXCEPT !.state = St("DataBreak", i)] = DebugRec(b, w, a, St("DataBreak", i), t, u)
    BY <1>1, StateIs
  <2>4. QED  BY <2>1, <2>2, <2>3, Zenon
<1>7. QED  BY <1>4, <1>5, <1>6

Entered(x, e, A, z) ==
    DebugRec(x.bps, x.wps, x.active \cup A, z, Append(x.stack, [id |-> e.id, act |-> A]), x.unique)

LEMMA EnteredIs ==
    ASSUME NEW x, IsDebugState(x), NEW e \in HookCall, NEW A \in SUBSET Nat, NEW z \in [k: StateNames, id: Nat]
    PROVE  IsDebugState(Entered(x, e, A, z)) /\ Begun(x, e, Entered(x, e, A, z), A, z)
<1>1. PICK b, w, a, s, t, u : b = x.bps /\ w = x.wps /\ a = x.active /\ s = x.state /\ t = x.stack /\ u = x.unique
  OBVIOUS
<1>2. PICK B, f, t2 : B = a \cup A /\ f = [id |-> e.id, act |-> A] /\ t2 = Append(t, f)
  OBVIOUS
<1>3. /\ IsNumbered(b, SourceLocations) /\ IsNumbered(w, Variables) /\ a \subseteq Nat
      /\ t \in Seq(StackFrames) /\ u \in Nat /\ DOMAIN b \cup DOMAIN w \subseteq 1..u
  BY <1>1, Zenon DEF IsDebugState
<1>4. f \in StackFrames
  BY <1>2 DEF HookCall, StackFrames
<1>5. t2 \in Seq(StackFrames)
  BY <1>2, <1>3, <1>4
<1>6. B \subseteq Nat
  BY <1>2, <1>3
<1>7. Entered(x, e, A, z) = DebugRec(b, w, B, z, t2, u)
  BY <1>1, <1>2, Zenon DEF Entered
<1>8. IsDebugState(DebugRec(b, w, B, z, t2, u))
  BY <1>3, <1>5, <1>6, DebugStateMade
<1>9. PICK y : y = DebugRec(b, w, B, z, t2, u)
  OBVIOUS
<1>10. y.bps = b /\ y.wps = w /\ y.active = B /\ y.state = z /\ y.stack = t2 /\ y.unique = u
  BY <1>9, DebugFields
<1>11. QED  BY <1>1, <1>2, <1>7, <1>8, <1>9, <1>10, Zenon DEF Begun

LEMMA StrikesType ==
    ASSUME NEW x, IsDebugState(x), NEW e, NEW A, NEW z, Strikes(x, e, A, z)
    PROVE  A \in SUBSET Nat /\ z \in [k: StateNames, id: Nat]
<1>1. x.state \in [k: StateNames, id: Nat] /\ DOMAIN x.bps \subseteq Nat
  BY Zenon DEF IsDebugState, IsNumbered
<1>2. CASE A = {} /\ z = x.state
  BY <1>1, <1>2
<1>3. CASE \E i \in DOMAIN x.bps \ x.active : Matches(x.bps[i], e) /\ A = {i} /\ z = St("Break", i)
  BY <1>1, <1>3 DEF St, StateNames
<1>4. QED  BY <1>2, <1>3, Zenon DEF Strikes

LEMMA LooksType ==
    ASSUME NEW x, IsDebugState(x), NEW e, NEW z \in [k: StateNames, id: Nat], NEW s, Looks(x, e, z, s)
    PROVE  s \in [k: StateNames, id: Nat]
<1>1. DOMAIN x.wps \subseteq Nat
  BY Zenon DEF IsDebugState, IsNumbered
<1>2. CASE s = z
  BY <1>2
<1>3. CASE \E i \in DOMAIN x.wps : Watches(x.wps[i], e) /\ s = St("DataBreak", i)
  BY <1>1, <1>3 DEF St, StateNames
<1>4. QED  BY <1>2, <1>3, Zenon DEF Looks

LEMMA StruckIs ==
    ASSUME NEW x, IsDebugState(x), NEW e \in HookCall, x.state.k # "Quit", NEW y \in AtBreakpoint(Pushed(x, e), e)
    PROVE  \E A, z : Strikes(x, e, A, z) /\ y = Entered(x, e, A, z)
<1>1. PICK b, w, a, s, t, u : b = x.bps /\ w = x.wps /\ a = x.active /\ s = x.state /\ t = x.stack /\ u = x.unique
  OBVIOUS
<1>2. x = DebugRec(b, w, a, s, t, u)
  BY <1>1, Zenon DEF IsDebugState
<1>3. t \in Seq(StackFrames) /\ DOMAIN b \subseteq Nat
  BY <1>1, Zenon DEF IsDebugState, IsNumbered
<1>4. Pushed(DebugRec(b, w, a, s, t, u), e) = DebugRec(b, w, a, s, Append(t, [id |-> e.id, act |-> {}]), u)
  BY PushedIs
<1>5. PICK p : p = DebugRec(b, w, a, s, Append(t, [id |-> e.id, act |-> {}]), u)
  OBVIOUS
<1>6. p = Pushed(x, e)
  BY <1>2, <1>4, <1>5, Zenon
<1>7. \/ y = p /\ \A i \in DOMAIN b \ a : ~ Matches(b[i], e)
      \/ \E i \in DOMAIN b \ a :
            /\ Matches(b[i], e)
            /\ y = DebugRec(b, w, a \cup {i}, St("Break", i), Append(t, [id |-> e.id, act |-> {i}]), u)
  <2>1. y \in AtBreakpoint(p, e)
    BY <1>6, Zenon
  <2>2. Struck(b, w, a, t, u, e, p, y)
    BY <1>3, <1>5, <2>1, AtBreakpointIs
  <2>3. QED  BY <2>2, Zenon DEF Struck
<1>8. CASE y = p /\ \A i \in DOMAIN b \ a : ~ Matches(b[i], e)
  <2>1. PICK n : n = {}
    OBVIOUS
  <2>2. a = a \cup n
    BY <2>1
  <2>3. y = Entered(x, e, n, s)
    BY <1>1, <1>5, <1>8, <2>1, <2>2, Zenon DEF Entered
  <2>4. Strikes(x, e, n, s)
    BY <1>1, <1>8, <2>1, Zenon DEF Strikes
  <2>5. QED  BY <2>3, <2>4, Zenon
<1>9. CASE \E i \in DOMAIN b \ a :
              /\ Matches(b[i], e)
              /\ y = DebugRec(b, w, a \cup {i}, St("Break", i), Append(t, [id |-> e.id, act |-> {i}]), u)
  <2>1. PICK i \in DOMAIN b \ a :
              /\ Matches(b[i], e)
              /\ y = DebugRec(b, w, a \cup {i}, St("Break", i), Append(t, [id |-> e.id, act |-> {i}]), u)
    BY <1>9
  <2>2. y = Entered(x, e, {i}, St("Break", i))
    BY <1>1, <2>1, Zenon DEF Entered
  <2>3. Strikes(x, e, {i}, St("Break", i))
    BY <1>1, <2>1, Zenon DEF Strikes
  <2>4. QED  BY <2>2, <2>3, Zenon
<1>10. QED  BY <1>7, <1>8, <1>9

LEMMA OutcomeFields ==
    ASSUME NEW v, NEW q
    PROVE  [d |-> v, waits |-> q].d = v /\ [d |-> v, waits |-> q].waits = q
OBVIOUS

\* will_begin_eval, by what it leaves in each field.
LEMMA EntersIs ==
    ASSUME NEW x, IsDebugState(x), NEW e \in HookCall, NEW o \in will_begin_eval(x, e)
    PROVE  Enters(x, e, o)
<1>1. PICK p : p = Pushed(x, e)
  OBVIOUS
<1>2. PICK n : n = {}
  OBVIOUS
<1>3. p = Entered(x, e, n, x.state)
  <2>1. PICK b, w, a, s, t, u : b = x.bps /\ w = x.wps /\ a = x.active /\ s = x.state /\ t = x.stack /\ u = x.unique
    OBVIOUS
  <2>2. x = DebugRec(b, w, a, s, t, u)
    BY <2>1, Zenon DEF IsDebugState
  <2>3. Pushed(DebugRec(b, w, a, s, t, u), e) = DebugRec(b, w, a, s, Append(t, [id |-> e.id, act |-> {}]), u)
    BY PushedIs
  <2>4. a = a \cup n
    BY <1>2
  <2>5. QED  BY <1>1, <1>2, <2>1, <2>2, <2>3, <2>4, Zenon DEF Entered
<1>4. x.state \in [k: StateNames, id: Nat] /\ n \in SUBSET Nat
  BY <1>2, Zenon DEF IsDebugState
<1>5. IsDebugState(p) /\ Begun(x, e, p, n, x.state)
  BY <1>3, <1>4, EnteredIs
<1>6. p.state = x.state
  BY <1>5, Zenon DEF Begun
<1>7. CASE x.state.k = "Quit"
  <2>1. o = Runs(p)
    BY <1>1, <1>6, <1>7, Zenon DEF will_begin_eval
  <2>2. o.d = p /\ o.waits = No
    BY <2>1, OutcomeFields DEF Runs, No
  <2>3. Strikes(x, e, n, x.state) /\ Looks(x, e, x.state, x.state)
    BY <1>2, <1>7, Zenon DEF Strikes, Looks
  <2>4. QED  BY <1>5, <1>7, <2>2, <2>3, Zenon DEF Enters, No
<1>8. CASE x.state.k # "Quit" /\ ~ e.list
  <2>1. PICK y \in AtBreakpoint(p, e) : o = Runs(y)
    BY <1>1, <1>6, <1>8, Zenon DEF will_begin_eval
  <2>2. PICK A, z : Strikes(x, e, A, z) /\ y = Entered(x, e, A, z)
    BY <1>1, <1>8, <2>1, StruckIs
  <2>3. IsDebugState(y) /\ Begun(x, e, y, A, z)
    BY <2>2, EnteredIs, StrikesType
  <2>4. o.d = y /\ o.waits = No
    BY <2>1, OutcomeFields DEF Runs, No
  <2>5. Looks(x, e, z, z)
    BY <1>8, Zenon DEF Looks
  <2>6. QED  BY <1>8, <2>2, <2>3, <2>4, <2>5, Zenon DEF Enters, No
<1>9. CASE x.state.k # "Quit" /\ e.list
  <2>1. PICK v \in UNION {AtWatchpoint(b, e) : b \in AtBreakpoint(p, e)} : o = [d |-> v, waits |-> Waits(v)]
    BY <1>1, <1>6, <1>9, Zenon DEF will_begin_eval
  <2>2. PICK y \in AtBreakpoint(p, e) : v \in AtWatchpoint(y, e)
    BY <2>1, Zenon
  <2>3. PICK A, z : Strikes(x, e, A, z) /\ y = Entered(x, e, A, z)
    BY <1>1, <1>9, <2>2, StruckIs
  <2>4. A \in SUBSET Nat /\ z \in [k: StateNames, id: Nat]
    BY <2>3, StrikesType
  <2>5. PICK b, w, a, t, u : /\ b = x.bps /\ w = x.wps /\ a = x.active \cup A /\ u = x.unique
                             /\ t = Append(x.stack, [id |-> e.id, act |-> A])
    OBVIOUS
  <2>6. y = DebugRec(b, w, a, z, t, u)
    BY <2>3, <2>5, Zenon DEF Entered
  <2>7. \/ v = DebugRec(b, w, a, z, t, u) /\ \A i \in DOMAIN w : ~ Watches(w[i], e)
        \/ \E i \in DOMAIN w : Watches(w[i], e) /\ v = DebugRec(b, w, a, St("DataBreak", i), t, u)
    <3>1. v \in AtWatchpoint(DebugRec(b, w, a, z, t, u), e)
      BY <2>2, <2>6, Zenon
    <3>2. QED  BY <3>1, AtWatchpointIs
  <2>8. \E s : Looks(x, e, z, s) /\ v = Entered(x, e, A, s)
    <3>1. CASE v = DebugRec(b, w, a, z, t, u) /\ \A i \in DOMAIN w : ~ Watches(w[i], e)
      BY <2>5, <3>1, Zenon DEF Looks, Entered
    <3>2. CASE \E i \in DOMAIN w : Watches(w[i], e) /\ v = DebugRec(b, w, a, St("DataBreak", i), t, u)
      <4>1. PICK i \in DOMAIN w : Watches(w[i], e) /\ v = DebugRec(b, w, a, St("DataBreak", i), t, u)
        BY <3>2
      <4>2. v = Entered(x, e, A, St("DataBreak", i))
        BY <2>5, <4>1, Zenon DEF Entered
      <4>3. Looks(x, e, z, St("DataBreak", i))
        BY <1>9, <2>5, <4>1, Zenon DEF Looks
      <4>4. QED  BY <4>2, <4>3, Zenon
    <3>3. QED  BY <2>7, <3>1, <3>2
  <2>9. PICK s : Looks(x, e, z, s) /\ v = Entered(x, e, A, s)
    BY <2>8
  <2>10. s \in [k: StateNames, id: Nat]
    BY <2>4, <2>9, LooksType
  <2>11. IsDebugState(v) /\ Begun(x, e, v, A, s)
    BY <2>4, <2>9, <2>10, EnteredIs
  <2>12. o.d = v /\ o.waits = Waits(v)
    BY <2>1, OutcomeFields, Zenon
  <2>13. QED  BY <1>9, <2>3, <2>9, <2>11, <2>12, Zenon DEF Enters
<1>10. QED  BY <1>7, <1>8, <1>9

Ended(x, y) ==
    /\ y.bps = x.bps /\ y.wps = x.wps /\ y.unique = x.unique
    /\ y.stack = SubSeq(x.stack, 1, Len(x.stack) - 1) /\ y.active = x.active \ x.stack[Len(x.stack)].act
    /\ y.state = IF x.state = St("Finish", x.stack[Len(x.stack)].id) THEN St("Finished", 0) ELSE x.state

\* did_finish_eval, by what it leaves in each field.
LEMMA EndedIs ==
    ASSUME NEW x, IsDebugState(x), x.stack # <<>>, NEW e, NEW y, y = did_finish_eval(x, e)
    PROVE  IsDebugState(y) /\ Ended(x, y)
<1>1. PICK b, w, a, s, t, u : b = x.bps /\ w = x.wps /\ a = x.active /\ s = x.state /\ t = x.stack /\ u = x.unique
  OBVIOUS
<1>2. x = DebugRec(b, w, a, s, t, u)
  BY <1>1, Zenon DEF IsDebugState
<1>3. /\ IsNumbered(b, SourceLocations) /\ IsNumbered(w, Variables) /\ a \subseteq Nat
      /\ s \in [k: StateNames, id: Nat]
      /\ t \in Seq(StackFrames) /\ u \in Nat /\ DOMAIN b \cup DOMAIN w \subseteq 1..u /\ t # <<>>
  BY <1>1, Zenon DEF IsDebugState
<1>4. PICK t2, top : t2 = SubSeq(t, 1, Len(t) - 1) /\ top = t[Len(t)]
  OBVIOUS
<1>5. SX!Front(x.stack) = t2 /\ SX!Last(x.stack) = top
  BY <1>1, <1>4, Zenon DEF SX!Front, SX!Last
<1>6. t2 \in Seq(StackFrames)
  BY <1>3, <1>4
<1>7. PICK A : A = a \ top.act
  OBVIOUS
<1>8. PICK n : n = [[x EXCEPT !.stack = t2] EXCEPT !.active = A]
  OBVIOUS
<1>9. n = DebugRec(b, w, A, s, t2, u)
  <2>1. [DebugRec(b, w, a, s, t, u) EXCEPT !.stack = t2] = DebugRec(b, w, a, s, t2, u)
    BY StackIs
  <2>2. [DebugRec(b, w, a, s, t2, u) EXCEPT !.active = A] = DebugRec(b, w, A, s, t2, u)
    BY ActiveIs
  <2>3. QED  BY <1>2, <1>8, <2>1, <2>2, Zenon
<1>10. PICK z : z = IF s = St("Finish", top.id) THEN St("Finished", 0) ELSE s
  OBVIOUS
<1>11. y = IF s = St("Finish", top.id) THEN [n EXCEPT !.state = St("Finished", 0)] ELSE n
  BY <1>1, <1>5, <1>7, <1>8, Zenon DEF did_finish_eval
<1>12. y = DebugRec(b, w, A, z, t2, u)
  <2>1. CASE s = St("Finish", top.id)
    <3>1. PICK c : c = St("Finished", 0)
      OBVIOUS
    <3>2. [DebugRec(b, w, A, s, t2, u) EXCEPT !.state = c] = DebugRec(b, w, A, c, t2, u)
      BY StateIs
    <3>3. QED  BY <1>9, <1>10, <1>11, <2>1, <3>1, <3>2, Zenon
  <2>2. CASE s # St("Finish", top.id)
    BY <1>9, <1>10, <1>11, <2>2, Zenon
  <2>3. QED  BY <2>1, <2>2
<1>13. z \in [k: StateNames, id: Nat]
  <2>1. St("Finished", 0) \in [k: StateNames, id: Nat]
    BY DEF St, StateNames
  <2>2. QED  BY <1>3, <1>10, <2>1, Zenon
<1>14. A \subseteq Nat
  BY <1>3, <1>7
<1>15. IsDebugState(DebugRec(b, w, A, z, t2, u))
  BY <1>3, <1>6, <1>13, <1>14, DebugStateMade
<1>16. y.bps = b /\ y.wps = w /\ y.active = A /\ y.state = z /\ y.stack = t2 /\ y.unique = u
  BY <1>12, DebugFields
<1>17. QED  BY <1>1, <1>4, <1>7, <1>10, <1>12, <1>15, <1>16, Zenon DEF Ended

-----------------------------------------------------------------------------
(* The debugger's stack is what is being evaluated. *)

\* The parts of Follows.
Ids(calls, F, p, x) == Len(x.stack) = Len(F[p]) /\ \A i \in 1..Len(F[p]) : x.stack[i].id = calls[F[p][i]].id
Since(p, x, born) == DOMAIN born = DOMAIN x.bps \cup DOMAIN x.wps /\ \A i \in DOMAIN born : born[i] <= p
Active(F, p, x) == x.active \subseteq 1..x.unique /\ \A i \in x.active : \E j \in 1..Len(F[p]) : i \in x.stack[j].act
ActsAt(calls, F, p, x, born, j) ==
    /\ x.stack[j].act \subseteq 1..x.unique
    /\ \A i \in x.stack[j].act \cap DOMAIN x.bps : AtC(calls, x.bps, i, F[p][j]) /\ born[i] < F[p][j]

LEMMA FollowsIs ==
    ASSUME NEW calls, NEW F, NEW p, NEW x, NEW born
    PROVE  Follows(calls, F, p, x, born) <=>
              /\ Ids(calls, F, p, x) /\ Since(p, x, born) /\ Active(F, p, x)
              /\ \A j \in 1..Len(F[p]) : ActsAt(calls, F, p, x, born, j)
BY Zenon DEF Follows, Ids, Since, Active, ActsAt

\* A point between two hook calls.
Step(calls, F, p, q) == Trace(calls) /\ F = FramesOf(calls) /\ p \in 0..(Len(calls) - 1) /\ q = p + 1

LEMMA StackGrown ==
    ASSUME NEW t \in Seq(StackFrames), NEW f \in StackFrames, NEW u, u = Append(t, f)
    PROVE  Len(u) = Len(t) + 1 /\ u[Len(t) + 1] = f /\ Len(t) \in Nat /\ \A i \in 1..Len(t) : u[i] = t[i]
OBVIOUS

\* The stack follows the calls over a "begin", whatever breakpoints it meets.
LEMMA FollowsBegin ==
    ASSUME NEW calls, NEW F, NEW p, NEW q, Step(calls, F, p, q), calls[q].ev = "begin",
           NEW x, IsDebugState(x), NEW born, IsNumbered(born, Nat), Follows(calls, F, p, x, born),
           NEW A, NEW z, Strikes(x, calls[q], A, z), NEW y, NEW s, Begun(x, calls[q], y, A, s)
    PROVE  Follows(calls, F, q, y, born)
<1>1. /\ q \in 1..Len(calls) /\ Len(F[p]) \in Nat /\ calls[q] \in HookCall /\ Grows(F, p, q) /\ p \in Nat /\ q = p + 1
      /\ q \in Nat
  <2>1. p \in 0..(Len(calls) - 1) /\ q = p + 1 /\ F = FramesOf(calls) /\ Trace(calls)
    BY Zenon DEF Step
  <2>2. /\ q \in 1..Len(calls) /\ Len(F[p]) \in Nat /\ calls[q] \in HookCall
        /\ calls[q].ev = "begin" => Grows(F, p, q)
    BY <2>1, FrameStep
  <2>3. p \in Nat /\ q \in Nat
    BY <2>1
  <2>4. QED  BY <2>1, <2>2, <2>3, Zenon
<1>2. Ids(calls, F, p, x) /\ Since(p, x, born) /\ Active(F, p, x) /\ \A j \in 1..Len(F[p]) : ActsAt(calls, F, p, x, born, j)
  BY FollowsIs, Zenon
<1>3. PICK t, n, f, u : t = x.stack /\ n = calls[q].id /\ f = [id |-> n, act |-> A] /\ u = y.stack
  OBVIOUS
<1>4. t \in Seq(StackFrames) /\ x.unique \in Nat /\ DOMAIN x.bps \cup DOMAIN x.wps \subseteq 1..x.unique
  BY <1>3, Zenon DEF IsDebugState
<1>5. u = Append(t, f) /\ y.bps = x.bps /\ y.wps = x.wps /\ y.unique = x.unique /\ y.active = x.active \cup A
  BY <1>3, Zenon DEF Begun
<1>6. A \in SUBSET Nat
  BY StrikesType
<1>7. n \in Nat
  BY <1>1, <1>3 DEF HookCall
<1>8. f \in StackFrames /\ f.id = n /\ f.act = A
  BY <1>3, <1>6, <1>7 DEF StackFrames
<1>9. PICK l : l = Len(F[p])
  OBVIOUS
<1>10. /\ l \in Nat /\ Len(t) = l /\ Len(F[q]) = l + 1 /\ F[q][l + 1] = q /\ \A i \in 1..l : F[q][i] = F[p][i]
       /\ Len(u) = l + 1 /\ u[l + 1] = f /\ \A i \in 1..l : u[i] = t[i]
  <2>1. Len(u) = Len(t) + 1 /\ u[Len(t) + 1] = f /\ \A i \in 1..Len(t) : u[i] = t[i]
    BY <1>4, <1>5, <1>8, StackGrown
  <2>2. Len(t) = l
    BY <1>2, <1>3, <1>9, Zenon DEF Ids
  <2>3. l \in Nat /\ Len(F[q]) = l + 1 /\ F[q][l + 1] = q /\ \A i \in 1..l : F[q][i] = F[p][i]
    BY <1>1, <1>9, Zenon DEF Grows
  <2>4. QED  BY <2>1, <2>2, <2>3, Zenon
<1>11. \A i \in 1..(l + 1) : i = l + 1 \/ i \in 1..l
  BY <1>10
<1>12. Ids(calls, F, q, y)
  <2>1. ASSUME NEW i \in 1..(l + 1) PROVE u[i].id = calls[F[q][i]].id
    <3>1. CASE i = l + 1
      BY <1>3, <1>8, <1>10, <3>1, Zenon
    <3>2. CASE i \in 1..l
      <4>1. t[i].id = calls[F[p][i]].id
        BY <1>2, <1>3, <1>9, <3>2, Zenon DEF Ids
      <4>2. QED  BY <1>10, <3>2, <4>1, Zenon
    <3>3. QED  BY <1>11, <3>1, <3>2, Zenon
  <2>2. QED  BY <1>3, <1>10, <2>1, Zenon DEF Ids
<1>13. Since(q, y, born)
  <2>1. \A i \in DOMAIN born : born[i] \in Nat /\ born[i] <= p
    BY <1>2 DEF Since, IsNumbered
  <2>2. \A i \in DOMAIN born : born[i] <= q
    BY <1>1, <2>1
  <2>3. QED  BY <1>2, <1>5, <2>2, Zenon DEF Since
<1>14. A \subseteq 1..x.unique /\ \A i \in A : i \in DOMAIN x.bps /\ Matches(x.bps[i], calls[q])
  <2>1. A = {} \/ \E i \in DOMAIN x.bps : Matches(x.bps[i], calls[q]) /\ A = {i}
    BY DEF Strikes
  <2>2. QED  BY <1>4, <2>1
<1>15. Active(F, q, y)
  <2>1. y.active \subseteq 1..y.unique
    BY <1>2, <1>5, <1>14 DEF Active
  <2>2. ASSUME NEW i \in y.active PROVE \E j \in 1..(l + 1) : i \in u[j].act
    <3>1. CASE i \in A
      <4>1. l + 1 \in 1..(l + 1) /\ i \in u[l + 1].act
        BY <1>8, <1>10, <3>1
      <4>2. QED  BY <4>1, Zenon
    <3>2. CASE i \in x.active
      <4>1. PICK j \in 1..l : i \in t[j].act
        BY <1>2, <1>3, <1>9, <3>2, Zenon DEF Active
      <4>2. j \in 1..(l + 1) /\ u[j] = t[j]
        BY <1>10
      <4>3. QED  BY <4>1, <4>2, Zenon
    <3>3. QED  BY <1>5, <3>1, <3>2
  <2>3. QED  BY <1>3, <1>10, <2>1, <2>2, Zenon DEF Active
<1>16. ASSUME NEW j \in 1..(l + 1)
       PROVE  ActsAt(calls, F, q, y, born, j)
  <2>1. CASE j = l + 1
    <3>1. y.stack[j].act = A /\ F[q][j] = q
      BY <1>3, <1>8, <1>10, <2>1, Zenon
    <3>2. ASSUME NEW i \in A PROVE AtC(calls, y.bps, i, q) /\ born[i] < q
      <4>1. AtC(calls, y.bps, i, q)
        BY <1>5, <1>14, Zenon DEF AtC
      <4>2. i \in DOMAIN born
        BY <1>2, <1>14 DEF Since
      <4>3. born[i] \in Nat /\ born[i] <= p
        BY <1>2, <4>2 DEF Since, IsNumbered
      <4>4. QED  BY <1>1, <4>1, <4>3
    <3>3. A \subseteq 1..y.unique
      BY <1>5, <1>14, Zenon
    <3>4. QED  BY <3>1, <3>2, <3>3, Zenon DEF ActsAt
  <2>2. CASE j \in 1..l
    <3>1. y.stack[j] = x.stack[j] /\ F[q][j] = F[p][j] /\ ActsAt(calls, F, p, x, born, j)
      BY <1>2, <1>3, <1>9, <1>10, <2>2, Zenon
    <3>2. QED  BY <1>5, <3>1, Zenon DEF ActsAt
  <2>3. QED  BY <1>11, <2>1, <2>2, Zenon
<1>17. \A j \in 1..Len(F[q]) : ActsAt(calls, F, q, y, born, j)
  BY <1>10, <1>16, Zenon
<1>18. QED  BY <1>12, <1>13, <1>15, <1>17, FollowsIs, Zenon

LEMMA StackShrunk ==
    ASSUME NEW t \in Seq(StackFrames), NEW u, u = SubSeq(t, 1, Len(t) - 1), Len(t) >= 1
    PROVE  Len(u) = Len(t) - 1 /\ \A i \in 1..(Len(t) - 1) : u[i] = t[i]
<1>1. t # <<>>
  OBVIOUS
<1>2. SX!Front(t) = SubSeq(t, 1, Len(t) - 1)
  BY DEF SX!Front
<1>3. QED  BY <1>1, <1>2, FrontIs

\* The stack follows the calls over an "end".
LEMMA FollowsEnd ==
    ASSUME NEW calls, NEW F, NEW p, NEW q, Step(calls, F, p, q), calls[q].ev = "end",
           NEW x, IsDebugState(x), NEW born, IsNumbered(born, Nat), Follows(calls, F, p, x, born),
           NEW y, Ended(x, y)
    PROVE  Follows(calls, F, q, y, born)
<1>1. q \in 1..Len(calls) /\ Len(F[p]) \in Nat /\ Shrinks(F, p, q) /\ p \in Nat /\ q = p + 1 /\ q \in Nat
  <2>1. p \in 0..(Len(calls) - 1) /\ q = p + 1 /\ F = FramesOf(calls) /\ Trace(calls)
    BY Zenon DEF Step
  <2>2. QED  BY <2>1, FrameStep
<1>2. Ids(calls, F, p, x) /\ Since(p, x, born) /\ Active(F, p, x) /\ \A j \in 1..Len(F[p]) : ActsAt(calls, F, p, x, born, j)
  BY FollowsIs, Zenon
<1>3. PICK t, u, l, m : t = x.stack /\ u = y.stack /\ l = Len(F[p]) /\ m = l - 1
  OBVIOUS
<1>4. t \in Seq(StackFrames) /\ Len(t) = l
  BY <1>2, <1>3, Zenon DEF IsDebugState, Ids
<1>5. l \in Nat /\ l >= 1 /\ m \in Nat /\ l = m + 1
  BY <1>1, <1>3 DEF Shrinks
<1>6. /\ u = SubSeq(t, 1, m) /\ y.bps = x.bps /\ y.wps = x.wps /\ y.unique = x.unique /\ y.active = x.active \ t[l].act
  BY <1>3, <1>4, Zenon DEF Ended
<1>7. Len(u) = m /\ \A i \in 1..m : u[i] = t[i]
  <2>1. u = SubSeq(t, 1, Len(t) - 1) /\ Len(t) >= 1 /\ Len(t) - 1 = m
    BY <1>3, <1>4, <1>5, <1>6, Zenon
  <2>2. QED  BY <1>4, <2>1, StackShrunk
<1>8. Len(F[q]) = m /\ (\A i \in 1..m : F[q][i] = F[p][i]) /\ \A i \in 1..m : i \in 1..l
  <2>1. Len(F[q]) = m /\ \A i \in 1..m : F[q][i] = F[p][i]
    BY <1>1, <1>3, Zenon DEF Shrinks
  <2>2. QED  BY <1>5, <2>1
<1>9. Ids(calls, F, q, y)
  <2>1. ASSUME NEW i \in 1..m PROVE u[i].id = calls[F[q][i]].id
    <3>1. t[i].id = calls[F[p][i]].id
      BY <1>2, <1>3, <1>8, Zenon DEF Ids
    <3>2. QED  BY <1>7, <1>8, <3>1, Zenon
  <2>2. QED  BY <1>3, <1>7, <1>8, <2>1, Zenon DEF Ids
<1>10. Since(q, y, born)
  <2>1. \A i \in DOMAIN born : born[i] \in Nat /\ born[i] <= p
    BY <1>2 DEF Since, IsNumbered
  <2>2. \A i \in DOMAIN born : born[i] <= q
    BY <1>1, <2>1
  <2>3. QED  BY <1>2, <1>6, <2>2, Zenon DEF Since
<1>11. Active(F, q, y)
  <2>1. y.active \subseteq 1..y.unique
    BY <1>2, <1>6 DEF Active
  <2>2. ASSUME NEW i \in y.active PROVE \E j \in 1..m : i \in u[j].act
    <3>1. i \in x.active /\ i \notin t[l].act
      BY <1>6, <2>2
    <3>2. PICK j \in 1..l : i \in t[j].act
      BY <1>2, <1>3, <3>1, Zenon DEF Active
    <3>3. j # l
      BY <3>1, <3>2, Zenon
    <3>4. j \in 1..m
      BY <1>5, <3>2, <3>3
    <3>5. QED  BY <1>7, <3>2, <3>4, Zenon
  <2>3. QED  BY <1>3, <1>8, <2>1, <2>2, Zenon DEF Active
<1>12. ASSUME NEW j \in 1..m
       PROVE  ActsAt(calls, F, q, y, born, j)
  <2>1. y.stack[j] = x.stack[j] /\ F[q][j] = F[p][j] /\ ActsAt(calls, F, p, x, born, j)
    BY <1>2, <1>3, <1>7, <1>8, Zenon
  <2>2. QED  BY <1>6, <2>1, Zenon DEF ActsAt
<1>13. \A j \in 1..Len(F[q]) : ActsAt(calls, F, q, y, born, j)
  BY <1>8, <1>12, Zenon
<1>14. QED  BY <1>9, <1>10, <1>11, <1>13, FollowsIs, Zenon

-----------------------------------------------------------------------------
(* What remains of the last command. *)

\* In which states execution stops at a list.
LEMMA WaitsIs ==
    ASSUME NEW y
    PROVE  /\ y.state.k \in {"Continue", "Quit", "Finish"} => ~ Waits(y)
           /\ y.state.k = "StepOver" => (Waits(y) <=> ~ \E i \in 1..Len(y.stack) : y.stack[i].id = y.state.id)
           /\ y.state.k \notin {"Continue", "Quit", "Finish", "StepOver"} => Waits(y)
BY Zenon DEF Waits

LEMMA StepIs ==
    ASSUME NEW calls, NEW F, NEW p, NEW q, Step(calls, F, p, q)
    PROVE  /\ p \in Nat /\ q \in Nat /\ q = p + 1 /\ p < q /\ Len(calls) \in Nat /\ p <= Len(calls) /\ q <= Len(calls)
           /\ Len(F[p]) \in Nat /\ Len(F[q]) \in Nat /\ calls[q] \in HookCall /\ calls[q].ev \in {"begin", "end"}
           /\ calls[q].ev = "begin" => Grows(F, p, q)
           /\ calls[q].ev = "end" => Shrinks(F, p, q)
<1>1. p \in 0..(Len(calls) - 1) /\ q = p + 1 /\ F = FramesOf(calls) /\ Trace(calls)
  BY Zenon DEF Step
<1>2. Len(calls) \in Nat
  BY <1>1 DEF Trace
<1>3. /\ F[q] \in Seq(Nat) /\ Len(F[p]) \in Nat /\ calls[q] \in HookCall /\ calls[q].ev \in {"begin", "end"}
      /\ calls[q].ev = "begin" => Grows(F, p, q)
      /\ calls[q].ev = "end" => Shrinks(F, p, q)
  BY <1>1, FrameStep
<1>4. p \in Nat /\ q \in Nat /\ p < q /\ p <= Len(calls) /\ q <= Len(calls)
  BY <1>1, <1>2
<1>5. Len(F[q]) \in Nat
  BY <1>3
<1>6. QED  BY <1>1, <1>2, <1>3, <1>4, <1>5, Zenon

LEMMA SortedAt ==
    ASSUME NEW calls, NEW F, Trace(calls), F = FramesOf(calls), NEW n \in Nat, n <= Len(calls)
    PROVE  Sorted(calls, F, n) /\ Len(F[n]) \in Nat
<1>1. Len(calls) \in Nat
  BY DEF Trace
<1>2. n \in 0..Len(calls)
  BY <1>1
<1>3. Nested(F, calls, Len(calls))
  BY <1>1, FramesAreNested
<1>4. F[n] \in Seq(Nat)
  BY <1>2, <1>3 DEF Nested
<1>5. Sorted(calls, F, n)
  BY <1>2, FramesSorted
<1>6. QED  BY <1>4, <1>5

LEMMA OpensStep ==
    ASSUME NEW calls, NEW F, NEW p, NEW q, Step(calls, F, p, q), NEW a, a # q, ~ Opens(F, a, p)
    PROVE  ~ Opens(F, a, q)
BY StepIs, OpensBegin, OpensEnd

LEMMA FirstListStep ==
    ASSUME NEW calls, NEW p \in Nat, NEW q, q = p + 1, NEW r \in Nat
    PROVE  /\ FirstListC(calls, r, q + 1) => FirstListC(calls, r, q)
           /\ FirstListC(calls, r, q) /\ (calls[q].ev = "begin" => ~ calls[q].list) => FirstListC(calls, r, q + 1)
<1>1. (q + 1) - 1 = q /\ q - 1 = p /\ \A a \in r..q : a = q \/ a \in r..p
  OBVIOUS
<1>2. \A a \in r..p : a \in r..q
  OBVIOUS
<1>3. QED  BY <1>1, <1>2, Zenon DEF FirstListC

LEMMA BrokeStep ==
    ASSUME NEW calls, NEW p \in Nat, NEW q, q = p + 1, NEW bps, NEW from \in Nat, Broke(calls, p, bps, from),
           calls[q].ev = "begin" => ~ calls[q].list
    PROVE  Broke(calls, q, bps, from)
<1>1. PICK i \in DOMAIN bps, r \in (from + 1)..p : AtC(calls, bps, i, r) /\ FirstListC(calls, r, p + 1)
  BY Zenon DEF Broke
<1>2. r \in Nat /\ r \in (from + 1)..q
  OBVIOUS
<1>3. FirstListC(calls, r, q + 1)
  BY <1>1, <1>2, FirstListStep
<1>4. QED  BY <1>1, <1>2, <1>3, Zenon DEF Broke

LEMMA NoHitStep ==
    ASSUME NEW calls, NEW F, NEW p \in Nat, NEW q, q = p + 1, NEW bps, NEW g, g.from \in Nat, NoHit(calls, F, p, bps, g),
           \A i \in DOMAIN bps : ~ HitsC(calls, F, bps, g.born, i, q)
    PROVE  NoHit(calls, F, q, bps, g)
<1>1. SUFFICES ASSUME NEW i \in DOMAIN bps, NEW r \in (g.from + 1)..q, FirstListC(calls, r, q + 1)
               PROVE  ~ HitsC(calls, F, bps, g.born, i, r)
  BY Zenon DEF NoHit
<1>2. CASE r = q
  BY <1>2
<1>3. CASE r # q
  <2>1. r \in (g.from + 1)..p /\ r \in Nat
    BY <1>3
  <2>2. FirstListC(calls, r, p + 1)
    BY <1>1, <2>1, FirstListStep
  <2>3. QED  BY <2>1, <2>2, Zenon DEF NoHit
<1>4. QED  BY <1>2, <1>3

\* A breakpoint that is not hit is either elsewhere or around the expression already.
LEMMA NotStruck ==
    ASSUME NEW calls, NEW F, NEW p, NEW q, Step(calls, F, p, q), calls[q].ev = "begin",
           NEW x, IsDebugState(x), NEW born, IsNumbered(born, Nat), Follows(calls, F, p, x, born),
           \A i \in DOMAIN x.bps \ x.active : ~ Matches(x.bps[i], calls[q])
    PROVE  \A i \in DOMAIN x.bps : ~ HitsC(calls, F, x.bps, born, i, q)
<1>1. /\ p \in Nat /\ q \in Nat /\ q = p + 1 /\ Len(F[p]) \in Nat /\ Grows(F, p, q) /\ p <= Len(calls)
      /\ Trace(calls) /\ F = FramesOf(calls)
  <2>1. Trace(calls) /\ F = FramesOf(calls)
    BY Zenon DEF Step
  <2>2. QED  BY <2>1, StepIs
<1>2. Active(F, p, x) /\ Since(p, x, born) /\ \A j \in 1..Len(F[p]) : ActsAt(calls, F, p, x, born, j)
  BY FollowsIs, Zenon
<1>3. SUFFICES ASSUME NEW i \in DOMAIN x.bps, HitsC(calls, F, x.bps, born, i, q)
               PROVE  FALSE
  BY Zenon
<1>4. Matches(x.bps[i], calls[q])
  BY <1>3, Zenon DEF HitsC, AtC
<1>5. i \in x.active
  BY <1>4
<1>6. PICK j \in 1..Len(F[p]) : i \in x.stack[j].act
  BY <1>2, <1>5, Zenon DEF Active
<1>7. AtC(calls, x.bps, i, F[p][j]) /\ born[i] < F[p][j]
  <2>1. ActsAt(calls, F, p, x, born, j) /\ i \in x.stack[j].act \cap DOMAIN x.bps
    BY <1>2, <1>3, <1>6
  <2>2. QED  BY <2>1, Zenon DEF ActsAt
<1>8. F[p][j] \in 1..p
  <2>1. Sorted(calls, F, p)
    BY <1>1, SortedAt
  <2>2. QED  BY <1>6, <2>1, Zenon DEF Sorted
<1>9. born[i] \in Nat
  BY <1>2, <1>3 DEF Since, IsNumbered
<1>10. j \in 1..Len(F[q]) /\ F[q][j] = F[p][j]
  BY <1>1, <1>6 DEF Grows
<1>11. F[q][j] \in (born[i] + 1)..(q - 1)
  BY <1>1, <1>7, <1>8, <1>9, <1>10
<1>12. ~ AtC(calls, x.bps, i, F[q][j])
  BY <1>3, <1>10, <1>11, Zenon DEF HitsC
<1>13. QED  BY <1>7, <1>10, <1>12, Zenon

\* The expression around the one at which a command was given.
LEMMA ParentIs ==
    ASSUME NEW calls, NEW F, Trace(calls), F = FramesOf(calls), NEW n \in Nat, n >= 1, n <= Len(calls), calls[n].ev = "begin"
    PROVE  /\ Parent(F, n) \in 0..(n - 1) /\ Len(F[n]) \in Nat /\ Len(F[n]) >= 1 /\ F[n][Len(F[n])] = n
           /\ Parent(F, n) # 0 <=> Len(F[n]) >= 2
           /\ \A a : Opens(F, a, n) => a = n \/ a <= Parent(F, n)
           /\ Parent(F, n) # 0 => Opens(F, Parent(F, n), n) /\ calls[Parent(F, n)].ev = "begin"
<1>1. Len(calls) \in Nat
  BY DEF Trace
<1>2. PICK m : m = n - 1
  OBVIOUS
<1>3. m \in 0..(Len(calls) - 1) /\ n = m + 1
  BY <1>1, <1>2
<1>4. Grows(F, m, n) /\ Len(F[m]) \in Nat
  BY <1>3, FrameStep
<1>5. Sorted(calls, F, n) /\ Len(F[n]) \in Nat
  BY SortedAt
<1>6. PICK l : l = Len(F[n])
  OBVIOUS
<1>7. l \in Nat /\ l >= 1 /\ F[n][l] = n
  BY <1>4, <1>5, <1>6 DEF Grows
<1>8. \A i \in 1..l : F[n][i] \in 1..n /\ calls[F[n][i]].ev = "begin" /\ \A j \in 1..l : i < j => F[n][i] < F[n][j]
  BY <1>5, <1>6, Zenon DEF Sorted
<1>9. CASE l >= 2
  <2>1. Parent(F, n) = F[n][l - 1]
    BY <1>6, <1>9 DEF Parent
  <2>2. l - 1 \in 1..l /\ l - 1 < l /\ l \in 1..l
    BY <1>7, <1>9
  <2>3. F[n][l - 1] \in 1..n /\ F[n][l - 1] < n /\ calls[F[n][l - 1]].ev = "begin"
    BY <1>7, <1>8, <2>2
  <2>4. Opens(F, F[n][l - 1], n)
    BY <1>6, <2>2, Zenon DEF Opens
  <2>5. ASSUME NEW a, Opens(F, a, n) PROVE a = n \/ a <= F[n][l - 1]
    <3>1. PICK i \in 1..l : F[n][i] = a
      BY <1>6, <2>5, Zenon DEF Opens
    <3>2. i = l \/ i = l - 1 \/ i < l - 1
      BY <1>7, <3>1
    <3>3. CASE i = l
      BY <1>7, <3>1, <3>3
    <3>4. CASE i = l - 1
      BY <2>3, <3>1, <3>4
    <3>5. CASE i < l - 1
      BY <1>8, <2>2, <3>1, <3>5
    <3>6. QED  BY <3>2, <3>3, <3>4, <3>5
  <2>6. QED  BY <1>6, <1>7, <1>9, <2>1, <2>3, <2>4, <2>5
<1>10. CASE ~ (l >= 2)
  <2>1. Parent(F, n) = 0 /\ l = 1
    <3>1. Parent(F, n) = 0
      BY <1>6, <1>10, Zenon DEF Parent
    <3>2. l = 1
      BY <1>7, <1>10
    <3>3. QED  BY <3>1, <3>2
  <2>2. ASSUME NEW a, Opens(F, a, n) PROVE a = n
    <3>1. PICK i \in 1..l : F[n][i] = a
      BY <1>6, <2>2, Zenon DEF Opens
    <3>2. i = l
      BY <2>1, <3>1
    <3>3. QED  BY <1>7, <3>1, <3>2
  <2>3. QED  BY <1>6, <1>7, <1>10, <2>1, <2>2
<1>11. QED  BY <1>9, <1>10

LEMMA StKinds ==
    ASSUME NEW k, NEW n
    PROVE  St(k, n).k = k /\ St(k, n).id = n
BY DEF St

Commands == {"in", "go", "over", "out", "quit", "any"}
IsGoal(g) == g.from \in Nat /\ g.cmd \in Commands /\ IsNumbered(g.born, Nat)
\* The last command was given where an expression began.
Given(calls, p, g) == g.from <= p /\ (g.cmd \in {"over", "out"} => g.from >= 1 /\ calls[g.from].ev = "begin")

LEMMA PursuesIs ==
    ASSUME NEW calls, NEW F, NEW p, NEW x, NEW g
    PROVE  Pursues(calls, F, p, x, g) <=>
              /\ Given(calls, p, g)
              /\ \/ g.cmd = "any"
                 \/ Remains(calls, F, p, x.state, g) /\ (g.cmd = "quit" \/ NoHit(calls, F, p, x.bps, g))
                 \/ g.cmd # "quit" /\ x.state.k = "Break" /\ Broke(calls, p, x.bps, g.from)
BY Zenon DEF Pursues, Given

LEMMA LeftStep ==
    ASSUME NEW calls, NEW F, NEW p, NEW q, Step(calls, F, p, q), NEW from \in Nat, from <= p, from >= 1,
           calls[from].ev = "begin", Left(calls, F, p, from)
    PROVE  Left(calls, F, q, from)
<1>1. p \in Nat /\ q = p + 1 /\ Len(calls) \in Nat /\ p <= Len(calls) /\ Trace(calls) /\ F = FramesOf(calls)
  <2>1. Trace(calls) /\ F = FramesOf(calls)
    BY Zenon DEF Step
  <2>2. QED  BY <2>1, StepIs
<1>2. Parent(F, from) \in 0..(from - 1)
  <2>1. from <= Len(calls)
    BY <1>1
  <2>2. QED  BY <1>1, <2>1, ParentIs
<1>3. PICK a \in {Parent(F, from), from} \cup (from + 1)..p :
          calls[a].ev = "begin" /\ ~ Opens(F, a, p) /\ calls[a].id = calls[Parent(F, from)].id
  BY Zenon DEF Left
<1>4. a # q /\ a \in {Parent(F, from), from} \cup (from + 1)..q
  BY <1>1, <1>2
<1>5. ~ Opens(F, a, q)
  BY <1>3, <1>4, OpensStep
<1>6. QED  BY <1>3, <1>4, <1>5, Zenon DEF Left

\* A "begin" that stops nowhere leaves what remains of the last command.
LEMMA RemainsBegin ==
    ASSUME NEW calls, NEW F, NEW p, NEW q, Step(calls, F, p, q), calls[q].ev = "begin", NEW g, IsGoal(g), g.cmd # "any",
           Given(calls, p, g), NEW s, Remains(calls, F, p, s, g)
    PROVE  Remains(calls, F, q, s, g)
<1>1. g.from \in Nat /\ g.cmd \in Commands
  BY Zenon DEF IsGoal
<1>2. CASE g.cmd = "out"
  <2>1. g.from <= p /\ g.from >= 1 /\ calls[g.from].ev = "begin"
    BY <1>2 DEF Given
  <2>2. Left(calls, F, p, g.from) => Left(calls, F, q, g.from)
    BY <1>1, <2>1, LeftStep
  <2>3. Opens(F, Parent(F, g.from), p) => Opens(F, Parent(F, g.from), q)
    BY StepIs, OpensBegin
  <2>4. QED  BY <1>2, <2>2, <2>3 DEF Remains
<1>3. CASE g.cmd = "in"
  BY <1>3 DEF Remains
<1>4. CASE g.cmd = "go"
  BY <1>4 DEF Remains
<1>5. CASE g.cmd = "over"
  BY <1>5 DEF Remains
<1>6. CASE g.cmd = "quit"
  BY <1>6 DEF Remains
<1>7. QED  BY <1>1, <1>2, <1>3, <1>4, <1>5, <1>6 DEF Commands

LEMMA RemainsKind ==
    ASSUME NEW calls, NEW F, NEW p, NEW s, NEW g, IsGoal(g), g.cmd \notin {"any", "quit"}, Remains(calls, F, p, s, g)
    PROVE  s.k \notin {"Quit", "Break", "DataBreak"}
<1>1. g.cmd \in Commands
  BY Zenon DEF IsGoal
<1>2. CASE g.cmd = "in"
  BY <1>2 DEF Remains
<1>3. CASE g.cmd = "go"
  BY <1>3 DEF Remains
<1>4. CASE g.cmd = "over"
  <2>1. s = St("StepOver", calls[g.from].id)
    BY <1>4 DEF Remains
  <2>2. s.k = "StepOver"
    BY <2>1, StKinds
  <2>3. QED  BY <2>2
<1>5. CASE g.cmd = "out"
  <2>1. s.k = "Continue" \/ s = St("Finish", calls[Parent(F, g.from)].id) \/ s.k = "Finished"
    BY <1>5 DEF Remains
  <2>2. s.k \in {"Continue", "Finish", "Finished"}
    BY <2>1, StKinds
  <2>3. QED  BY <2>2
<1>6. QED  BY <1>1, <1>2, <1>3, <1>4, <1>5 DEF Commands

\* The outcome of a hook call at which an expression begins: a breakpoint or a watchpoint is hit, or the
\* state stays and none is.
LEMMA BeginState ==
    ASSUME NEW x, NEW e, NEW A, NEW z, NEW s, Strikes(x, e, A, z), Looks(x, e, z, s), x.state.k # "Quit"
    PROVE  \/ s.k = "DataBreak" /\ e.list /\ \E i \in DOMAIN x.wps : Watches(x.wps[i], e)
           \/ s.k = "Break" /\ \E i \in DOMAIN x.bps : Matches(x.bps[i], e)
           \/ /\ s = x.state /\ \A i \in DOMAIN x.bps \ x.active : ~ Matches(x.bps[i], e)
              /\ e.list => \A i \in DOMAIN x.wps : ~ Watches(x.wps[i], e)
<1>1. CASE e.list /\ \E i \in DOMAIN x.wps : Watches(x.wps[i], e) /\ s = St("DataBreak", i)
  BY <1>1, StKinds
<1>2. CASE s = z /\ (~ e.list \/ \A i \in DOMAIN x.wps : ~ Watches(x.wps[i], e))
  <2>1. CASE \E i \in DOMAIN x.bps \ x.active : Matches(x.bps[i], e) /\ A = {i} /\ z = St("Break", i)
    BY <1>2, <2>1, StKinds
  <2>2. CASE z = x.state /\ \A i \in DOMAIN x.bps \ x.active : ~ Matches(x.bps[i], e)
    BY <1>2, <2>2, Zenon
  <2>3. QED  BY <2>1, <2>2, Zenon DEF Strikes
<1>3. QED  BY <1>1, <1>2, Zenon DEF Looks

LEMMA GivenStep ==
    ASSUME NEW calls, NEW p \in Nat, NEW q, q = p + 1, NEW g, IsGoal(g), Given(calls, p, g)
    PROVE  Given(calls, q, g)
<1>1. g.from \in Nat /\ g.from <= p
  BY DEF IsGoal, Given
<1>2. g.from <= q
  BY <1>1
<1>3. QED  BY <1>2, Zenon DEF Given

\* The last command is pursued over a "begin" at which execution does not stop.
LEMMA PursuesBegin ==
    ASSUME NEW calls, NEW F, NEW p, NEW q, Step(calls, F, p, q), calls[q].ev = "begin",
           NEW x, IsDebugState(x), NEW g, IsGoal(g), Follows(calls, F, p, x, g.born), Pursues(calls, F, p, x, g),
           NEW A, NEW z, Strikes(x, calls[q], A, z), NEW s, Looks(x, calls[q], z, s),
           NEW y, Begun(x, calls[q], y, A, s), ~ (x.state.k # "Quit" /\ calls[q].list /\ Waits(y))
    PROVE  Pursues(calls, F, q, y, g)
<1>1. p \in Nat /\ q \in Nat /\ q = p + 1
  BY StepIs
<1>2. g.from \in Nat /\ IsNumbered(g.born, Nat) /\ y.bps = x.bps /\ y.state = s
  BY Zenon DEF IsGoal, Begun
<1>3. /\ Given(calls, p, g)
      /\ \/ g.cmd = "any"
         \/ Remains(calls, F, p, x.state, g) /\ (g.cmd = "quit" \/ NoHit(calls, F, p, x.bps, g))
         \/ g.cmd # "quit" /\ x.state.k = "Break" /\ Broke(calls, p, x.bps, g.from)
  BY PursuesIs, Zenon
<1>4. Given(calls, q, g)
  BY <1>1, <1>3, GivenStep
<1>5. CASE g.cmd = "any"
  BY <1>4, <1>5, PursuesIs, Zenon
<1>6. CASE g.cmd = "quit"
  <2>1. Remains(calls, F, p, x.state, g)
    BY <1>3, <1>6
  <2>2. x.state.k = "Quit"
    BY <1>6, <2>1 DEF Remains
  <2>3. s = x.state
    BY <2>2, Zenon DEF Strikes, Looks
  <2>4. Remains(calls, F, q, y.state, g)
    BY <1>2, <1>6, <2>2, <2>3 DEF Remains
  <2>5. QED  BY <1>4, <1>6, <2>4, PursuesIs, Zenon
<1>7. CASE g.cmd \notin {"any", "quit"}
  <2>1. x.state.k # "Quit"
    <3>1. CASE Remains(calls, F, p, x.state, g)
      BY <1>7, <3>1, RemainsKind
    <3>2. CASE x.state.k = "Break"
      BY <3>2
    <3>3. QED  BY <1>3, <1>7, <3>1, <3>2
  <2>2. ~ (calls[q].list /\ Waits(y))
    BY <2>1, Zenon
  <2>3. \/ s.k = "DataBreak" /\ calls[q].list
        \/ s.k = "Break" /\ \E i \in DOMAIN x.bps : Matches(x.bps[i], calls[q])
        \/ s = x.state /\ \A i \in DOMAIN x.bps \ x.active : ~ Matches(x.bps[i], calls[q])
    BY <2>1, BeginState, Zenon
  <2>4. s.k \in {"Break", "DataBreak"} => Waits(y)
    BY <1>2, WaitsIs
  <2>5. CASE s.k = "DataBreak" /\ calls[q].list
    BY <2>2, <2>4, <2>5
  <2>6. CASE s.k = "Break" /\ \E i \in DOMAIN x.bps : Matches(x.bps[i], calls[q])
    <3>1. PICK i \in DOMAIN x.bps : Matches(x.bps[i], calls[q])
      BY <2>6
    <3>2. ~ calls[q].list
      BY <2>2, <2>4, <2>6
    <3>3. FirstListC(calls, q, q + 1)
      <4>1. (q + 1) - 1 = q /\ \A a \in q..q : a = q
        BY <1>1
      <4>2. QED  BY <3>2, <4>1, Zenon DEF FirstListC
    <3>4. AtC(calls, x.bps, i, q)
      BY <3>1, Zenon DEF AtC
    <3>5. q \in (g.from + 1)..q
      BY <1>1, <1>2, <1>3 DEF Given
    <3>6. Broke(calls, q, y.bps, g.from)
      BY <1>2, <3>1, <3>3, <3>4, <3>5, Zenon DEF Broke
    <3>7. QED  BY <1>2, <1>4, <1>7, <2>6, <3>6, PursuesIs
  <2>7. CASE s = x.state /\ \A i \in DOMAIN x.bps \ x.active : ~ Matches(x.bps[i], calls[q])
    <3>1. CASE x.state.k = "Break" /\ Broke(calls, p, x.bps, g.from)
      <4>1. ~ calls[q].list
        BY <2>2, <2>4, <2>7, <3>1
      <4>2. Broke(calls, q, x.bps, g.from)
        BY <1>1, <1>2, <3>1, <4>1, BrokeStep
      <4>3. QED  BY <1>2, <1>4, <1>7, <2>7, <3>1, <4>2, PursuesIs
    <3>2. CASE Remains(calls, F, p, x.state, g) /\ NoHit(calls, F, p, x.bps, g)
      <4>1. \A i \in DOMAIN x.bps : ~ HitsC(calls, F, x.bps, g.born, i, q)
        BY <1>2, <2>7, NotStruck
      <4>2. NoHit(calls, F, q, x.bps, g)
        BY <1>1, <1>2, <3>2, <4>1, NoHitStep
      <4>3. Remains(calls, F, q, x.state, g)
        BY <1>3, <1>7, <3>2, RemainsBegin
      <4>4. QED  BY <1>2, <1>4, <2>7, <4>2, <4>3, PursuesIs, Zenon
    <3>3. QED  BY <1>3, <1>7, <3>1, <3>2
  <2>8. QED  BY <2>3, <2>5, <2>6, <2>7
<1>8. QED  BY <1>5, <1>6, <1>7

\* An expression ends: the parent of the one that is stepped out of is either still being evaluated, or
\* the frame that is left is taken for it.
LEMMA RemainsEnd ==
    ASSUME NEW calls, NEW F, NEW p, NEW q, Step(calls, F, p, q), calls[q].ev = "end", NEW g, IsGoal(g), g.cmd = "out",
           Given(calls, p, g), NEW x, Ids(calls, F, p, x), NEW y, Ended(x, y), Remains(calls, F, p, x.state, g)
    PROVE  Remains(calls, F, q, y.state, g)
<1>1. /\ p \in Nat /\ q = p + 1 /\ Len(calls) \in Nat /\ p <= Len(calls) /\ Trace(calls) /\ F = FramesOf(calls)
      /\ Shrinks(F, p, q) /\ Len(F[p]) \in Nat
  <2>1. Trace(calls) /\ F = FramesOf(calls)
    BY Zenon DEF Step
  <2>2. QED  BY <2>1, StepIs
<1>2. g.from \in Nat /\ g.from <= p /\ g.from >= 1 /\ calls[g.from].ev = "begin" /\ g.from <= Len(calls)
  BY <1>1 DEF IsGoal, Given
<1>3. PICK P, m, l, top : P = Parent(F, m) /\ m = g.from /\ l = Len(F[p]) /\ top = F[p][l]
  OBVIOUS
<1>4. /\ P \in 0..(m - 1) /\ (P # 0 => calls[P].ev = "begin")
      /\ \A a : Opens(F, a, m) => a = m \/ a <= P
  BY <1>1, <1>2, <1>3, ParentIs
<1>5. l \in Nat /\ l >= 1 /\ Len(x.stack) = l /\ x.stack[l].id = calls[top].id
  <2>1. l \in Nat /\ l >= 1
    BY <1>1, <1>3 DEF Shrinks
  <2>2. l \in 1..l
    BY <2>1
  <2>3. QED  BY <1>3, <2>1, <2>2, Zenon DEF Ids
<1>6. y.state = IF x.state = St("Finish", calls[top].id) THEN St("Finished", 0) ELSE x.state
  BY <1>5, Zenon DEF Ended
<1>7. Sorted(calls, F, p)
  BY <1>1, SortedAt
<1>8. /\ top \in 1..p /\ calls[top].ev = "begin" /\ Opens(F, top, p)
      /\ \A i \in 1..l : i < l => F[p][i] < top
  <2>1. l \in 1..l
    BY <1>5
  <2>2. F[p][l] \in 1..p /\ calls[F[p][l]].ev = "begin" /\ \A i \in 1..l : i < l => F[p][i] < F[p][l]
    BY <1>3, <1>7, <2>1, Zenon DEF Sorted
  <2>3. Opens(F, top, p)
    BY <1>3, <2>1, Zenon DEF Opens
  <2>4. QED  BY <1>3, <2>2, <2>3, Zenon
<1>9. CASE P = 0
  <2>1. x.state.k = "Continue"
    BY <1>3, <1>9 DEF Remains
  <2>2. St("Finish", calls[top].id).k = "Finish"
    BY StKinds
  <2>3. y.state = x.state
    BY <1>6, <2>1, <2>2
  <2>4. QED  BY <1>3, <1>9, <2>1, <2>3 DEF Remains
<1>10. CASE P # 0 /\ x.state = St("Finish", calls[P].id) /\ Opens(F, P, p)
  <2>1. CASE calls[top].id = calls[P].id
    <3>1. y.state = St("Finished", 0)
      BY <1>6, <1>10, <2>1, Zenon
    <3>2. y.state.k = "Finished"
      BY <3>1, StKinds
    <3>3. ~ Opens(F, top, q)
      <4>1. SUFFICES ASSUME Opens(F, top, q) PROVE FALSE
        OBVIOUS
      <4>2. PICK i \in 1..Len(F[q]) : F[q][i] = top
        BY <4>1, Zenon DEF Opens
      <4>3. i \in 1..l /\ i < l /\ F[q][i] = F[p][i]
        <5>1. Len(F[q]) = l - 1 /\ \A j \in 1..(l - 1) : F[q][j] = F[p][j]
          BY <1>1, <1>3, Zenon DEF Shrinks
        <5>2. i \in 1..(l - 1)
          BY <4>2, <5>1, Zenon
        <5>3. i \in 1..l /\ i < l
          BY <1>5, <5>2
        <5>4. QED  BY <5>1, <5>2, <5>3, Zenon
      <4>4. F[p][i] < top
        BY <1>8, <4>3
      <4>5. QED  BY <1>8, <4>2, <4>3, <4>4
    <3>4. top \in {P, m} \cup (m + 1)..q
      <4>1. P <= top
        <5>1. PICK i \in 1..l : F[p][i] = P
          BY <1>3, <1>10, Zenon DEF Opens
        <5>2. CASE i = l
          BY <1>3, <1>4, <5>1, <5>2
        <5>3. CASE i # l
          <6>1. i < l
            BY <1>5, <5>3
          <6>2. P < top
            BY <1>8, <5>1, <6>1
          <6>3. QED  BY <1>4, <1>8, <6>2
        <5>4. QED  BY <5>2, <5>3
      <4>2. CASE top <= m
        <5>1. Opens(F, top, m)
          <6>1. m \in 0..Len(calls) /\ p \in m..Len(calls) /\ top \in 1..m
            BY <1>1, <1>2, <1>3, <1>8, <4>2
          <6>2. QED  BY <1>1, <1>8, <6>1, FramesLast
        <5>2. top = m \/ top <= P
          BY <1>4, <5>1
        <5>3. QED  BY <1>4, <1>8, <4>1, <5>2
      <4>3. CASE ~ (top <= m)
        BY <1>1, <1>2, <1>3, <1>8, <4>3
      <4>4. QED  BY <4>2, <4>3
    <3>5. Left(calls, F, q, m)
      BY <1>3, <1>8, <2>1, <3>3, <3>4, Zenon DEF Left
    <3>6. QED  BY <1>3, <1>10, <3>2, <3>5 DEF Remains
  <2>2. CASE calls[top].id # calls[P].id
    <3>1. St("Finish", calls[top].id) # St("Finish", calls[P].id)
      BY <2>2 DEF St
    <3>2. y.state = x.state
      BY <1>6, <1>10, <3>1, Zenon
    <3>3. Opens(F, P, q)
      <4>1. PICK i \in 1..l : F[p][i] = P
        BY <1>3, <1>10, Zenon DEF Opens
      <4>2. i # l
        BY <1>3, <2>2, <4>1, Zenon
      <4>3. i \in 1..Len(F[q]) /\ F[q][i] = F[p][i]
        <5>1. i \in 1..(l - 1)
          BY <1>5, <4>1, <4>2
        <5>2. Len(F[q]) = l - 1 /\ \A j \in 1..(l - 1) : F[q][j] = F[p][j]
          BY <1>1, <1>3, Zenon DEF Shrinks
        <5>3. QED  BY <5>1, <5>2, Zenon
      <4>4. QED  BY <4>1, <4>3, Zenon DEF Opens
    <3>4. QED  BY <1>3, <1>10, <3>2, <3>3 DEF Remains
  <2>3. QED  BY <2>1, <2>2
<1>11. CASE P # 0 /\ x.state.k = "Finished" /\ Left(calls, F, p, m)
  <2>1. St("Finish", calls[top].id).k = "Finish"
    BY StKinds
  <2>2. y.state = x.state
    BY <1>6, <1>11, <2>1
  <2>3. Left(calls, F, q, m)
    BY <1>2, <1>3, <1>11, LeftStep
  <2>4. QED  BY <1>3, <1>11, <2>2, <2>3 DEF Remains
<1>12. QED  BY <1>3, <1>9, <1>10, <1>11 DEF Remains

\* The last command is pursued over an "end": leaving the expression finishes a "finish".
LEMMA PursuesEnd ==
    ASSUME NEW calls, NEW F, NEW p, NEW q, Step(calls, F, p, q), calls[q].ev = "end",
           NEW x, NEW g, IsGoal(g), Follows(calls, F, p, x, g.born), Pursues(calls, F, p, x, g),
           NEW y, Ended(x, y)
    PROVE  Pursues(calls, F, q, y, g)
<1>1. p \in Nat /\ q \in Nat /\ q = p + 1 /\ calls[q].ev # "begin"
  BY StepIs
<1>2. g.from \in Nat /\ g.cmd \in Commands
  BY Zenon DEF IsGoal
<1>3. /\ Given(calls, p, g)
      /\ \/ g.cmd = "any"
         \/ Remains(calls, F, p, x.state, g) /\ (g.cmd = "quit" \/ NoHit(calls, F, p, x.bps, g))
         \/ g.cmd # "quit" /\ x.state.k = "Break" /\ Broke(calls, p, x.bps, g.from)
  BY PursuesIs, Zenon
<1>4. Given(calls, q, g)
  BY <1>1, <1>3, GivenStep
<1>5. y.bps = x.bps
  BY Zenon DEF Ended
<1>6. x.state.k # "Finish" => y.state = x.state
  <2>1. SUFFICES ASSUME x.state.k # "Finish", y.state # x.state PROVE FALSE
    OBVIOUS
  <2>2. PICK n : x.state = St("Finish", n)
    BY <2>1, Zenon DEF Ended
  <2>3. QED  BY <2>1, <2>2, StKinds
<1>7. NoHit(calls, F, p, x.bps, g) => NoHit(calls, F, q, y.bps, g)
  <2>1. \A i \in DOMAIN x.bps : ~ HitsC(calls, F, x.bps, g.born, i, q)
    BY <1>1, Zenon DEF HitsC, AtC
  <2>2. QED  BY <1>1, <1>2, <1>5, <2>1, NoHitStep
<1>8. Broke(calls, p, x.bps, g.from) => Broke(calls, q, y.bps, g.from)
  BY <1>1, <1>2, <1>5, BrokeStep
<1>9. ASSUME g.cmd # "any", Remains(calls, F, p, x.state, g) PROVE Remains(calls, F, q, y.state, g)
  <2>1. CASE g.cmd = "out"
    <3>1. Ids(calls, F, p, x)
      BY FollowsIs, Zenon
    <3>2. QED  BY <1>3, <1>9, <2>1, <3>1, RemainsEnd
  <2>2. CASE g.cmd = "in"
    BY <1>6, <1>9, <2>2 DEF Remains
  <2>3. CASE g.cmd = "go"
    BY <1>6, <1>9, <2>3 DEF Remains
  <2>4. CASE g.cmd = "quit"
    BY <1>6, <1>9, <2>4 DEF Remains
  <2>5. CASE g.cmd = "over"
    <3>1. x.state = St("StepOver", calls[g.from].id)
      BY <1>9, <2>5 DEF Remains
    <3>2. y.state = x.state
      BY <1>6, <3>1, StKinds
    <3>3. QED  BY <2>5, <3>1, <3>2 DEF Remains
  <2>6. QED  BY <1>2, <1>9, <2>1, <2>2, <2>3, <2>4, <2>5 DEF Commands
<1>10. x.state.k = "Break" => y.state.k = "Break"
  BY <1>6
<1>11. QED  BY <1>3, <1>4, <1>7, <1>8, <1>9, <1>10, PursuesIs, Zenon

-----------------------------------------------------------------------------
(* Where execution stops. *)

MustC(calls, F, q, x, g) ==
    \/ \E i \in DOMAIN x.bps, r \in (g.from + 1)..q : HitsC(calls, F, x.bps, g.born, i, r) /\ FirstListC(calls, r, q)
    \/ \E i \in DOMAIN x.wps : Watches(x.wps[i], calls[q])
    \/ g.cmd = "in"
    \/ g.cmd = "over" /\ \A j \in 1..Len(F[q]) : calls[F[q][j]].id # calls[g.from].id
    \/ g.cmd = "out" /\ Parent(F, g.from) # 0 /\ ~ Opens(F, Parent(F, g.from), q)
MayC(calls, F, q, x, g) ==
    \/ g.cmd \in {"any", "in"}
    \/ \E i \in DOMAIN x.bps, r \in (g.from + 1)..q : AtC(calls, x.bps, i, r) /\ FirstListC(calls, r, q)
    \/ \E i \in DOMAIN x.wps : Watches(x.wps[i], calls[q])
    \/ g.cmd = "over" /\ ~ Opens(F, g.from, q)
    \/ /\ g.cmd = "out" /\ Parent(F, g.from) # 0
       /\ \E a \in {Parent(F, g.from), g.from} \cup (g.from + 1)..q :
             calls[a].ev = "begin" /\ ~ Opens(F, a, q) /\ calls[a].id = calls[Parent(F, g.from)].id

\* Where a breakpoint, a watchpoint or the last command asks for it, execution stops.
LEMMA StopMust ==
    ASSUME NEW calls, NEW F, NEW p, NEW q, Step(calls, F, p, q), calls[q].ev = "begin", calls[q].list,
           NEW x, IsDebugState(x), NEW g, IsGoal(g), Follows(calls, F, p, x, g.born), Pursues(calls, F, p, x, g),
           NEW A, NEW z, Strikes(x, calls[q], A, z), NEW s, Looks(x, calls[q], z, s),
           NEW y, Begun(x, calls[q], y, A, s), g.cmd \notin {"any", "quit"}, MustC(calls, F, q, x, g)
    PROVE  x.state.k # "Quit" /\ Waits(y)
<1>1. p \in Nat /\ q \in Nat /\ q = p + 1
  BY StepIs
<1>2. g.from \in Nat /\ IsNumbered(g.born, Nat) /\ y.bps = x.bps /\ y.state = s
  BY Zenon DEF IsGoal, Begun
<1>3. /\ Given(calls, p, g)
      /\ \/ Remains(calls, F, p, x.state, g) /\ NoHit(calls, F, p, x.bps, g)
         \/ x.state.k = "Break" /\ Broke(calls, p, x.bps, g.from)
  BY PursuesIs, Zenon
<1>4. x.state.k # "Quit"
  <2>1. CASE Remains(calls, F, p, x.state, g)
    BY <2>1, RemainsKind
  <2>2. CASE x.state.k = "Break"
    BY <2>2
  <2>3. QED  BY <1>3, <2>1, <2>2
<1>5. \/ s.k = "DataBreak"
      \/ s.k = "Break"
      \/ /\ s = x.state /\ \A i \in DOMAIN x.bps \ x.active : ~ Matches(x.bps[i], calls[q])
         /\ \A i \in DOMAIN x.wps : ~ Watches(x.wps[i], calls[q])
  BY <1>4, BeginState, Zenon
<1>6. s.k \in {"Break", "DataBreak"} => Waits(y)
  BY <1>2, WaitsIs
<1>7. CASE s.k \in {"Break", "DataBreak"}
  BY <1>4, <1>6, <1>7
<1>8. CASE /\ s = x.state /\ \A i \in DOMAIN x.bps \ x.active : ~ Matches(x.bps[i], calls[q])
           /\ \A i \in DOMAIN x.wps : ~ Watches(x.wps[i], calls[q])
  <2>1. CASE x.state.k = "Break"
    BY <1>7, <1>8, <2>1
  <2>2. CASE Remains(calls, F, p, x.state, g) /\ NoHit(calls, F, p, x.bps, g)
    <3>1. \A i \in DOMAIN x.bps : ~ HitsC(calls, F, x.bps, g.born, i, q)
      BY <1>2, <1>8, NotStruck
    <3>2. ASSUME NEW i \in DOMAIN x.bps, NEW r \in (g.from + 1)..q, FirstListC(calls, r, q)
          PROVE  ~ HitsC(calls, F, x.bps, g.born, i, r)
      <4>1. CASE r = q
        BY <3>1, <4>1
      <4>2. CASE r # q
        <5>1. r \in (g.from + 1)..p
          BY <1>1, <1>2, <4>2
        <5>2. FirstListC(calls, r, p + 1)
          BY <1>1, <3>2, Zenon
        <5>3. QED  BY <2>2, <5>1, <5>2, Zenon DEF NoHit
      <4>3. QED  BY <4>1, <4>2
    <3>3. Remains(calls, F, q, s, g)
      BY <1>3, <1>8, <2>2, RemainsBegin
    <3>4. Ids(calls, F, q, y)
      <4>1. Follows(calls, F, q, y, g.born)
        BY <1>2, FollowsBegin
      <4>2. QED  BY <4>1, FollowsIs, Zenon
    <3>5. CASE g.cmd = "in"
      <4>1. s.k \in {"Start", "StepIn", "Pause"}
        BY <3>3, <3>5 DEF Remains
      <4>2. Waits(y)
        BY <1>2, <4>1, WaitsIs
      <4>3. QED  BY <1>4, <4>2
    <3>6. CASE g.cmd = "over" /\ \A j \in 1..Len(F[q]) : calls[F[q][j]].id # calls[g.from].id
      <4>1. s = St("StepOver", calls[g.from].id)
        BY <3>3, <3>6 DEF Remains
      <4>2. y.state.k = "StepOver" /\ y.state.id = calls[g.from].id
        BY <1>2, <4>1, StKinds
      <4>3. ~ \E i \in 1..Len(y.stack) : y.stack[i].id = y.state.id
        <5>1. Len(y.stack) = Len(F[q]) /\ \A i \in 1..Len(F[q]) : y.stack[i].id = calls[F[q][i]].id
          BY <3>4, Zenon DEF Ids
        <5>2. \A i \in 1..Len(F[q]) : y.stack[i].id # y.state.id
          BY <3>6, <4>2, <5>1, Zenon
        <5>3. QED  BY <5>1, <5>2, Zenon
      <4>4. Waits(y)
        BY <4>2, <4>3, WaitsIs, Zenon
      <4>5. QED  BY <1>4, <4>4
    <3>7. CASE g.cmd = "out" /\ Parent(F, g.from) # 0 /\ ~ Opens(F, Parent(F, g.from), q)
      <4>1. s.k = "Finished"
        BY <3>3, <3>7 DEF Remains
      <4>2. Waits(y)
        BY <1>2, <4>1, WaitsIs
      <4>3. QED  BY <1>4, <4>2
    <3>8. QED  BY <1>8, <3>2, <3>5, <3>6, <3>7, Zenon DEF MustC
  <2>3. QED  BY <1>3, <2>1, <2>2
<1>9. QED  BY <1>5, <1>7, <1>8

\* Where execution stops, one of them asked for it.
LEMMA StopMay ==
    ASSUME NEW calls, NEW F, NEW p, NEW q, Step(calls, F, p, q), calls[q].ev = "begin", calls[q].list,
           NEW x, IsDebugState(x), NEW g, IsGoal(g), Follows(calls, F, p, x, g.born), Pursues(calls, F, p, x, g),
           NEW A, NEW z, Strikes(x, calls[q], A, z), NEW s, Looks(x, calls[q], z, s),
           NEW y, Begun(x, calls[q], y, A, s), x.state.k # "Quit", Waits(y)
    PROVE  g.cmd # "quit" /\ MayC(calls, F, q, x, g)
<1>1. p \in Nat /\ q \in Nat /\ q = p + 1
  BY StepIs
<1>2. g.from \in Nat /\ IsNumbered(g.born, Nat) /\ y.bps = x.bps /\ y.state = s /\ g.cmd \in Commands
  BY Zenon DEF IsGoal, Begun
<1>3. /\ Given(calls, p, g)
      /\ \/ g.cmd = "any"
         \/ Remains(calls, F, p, x.state, g)
         \/ g.cmd # "quit" /\ x.state.k = "Break" /\ Broke(calls, p, x.bps, g.from)
  BY PursuesIs, Zenon
<1>4. g.cmd # "quit"
  BY <1>3 DEF Remains
<1>5. \/ s.k = "DataBreak" /\ \E i \in DOMAIN x.wps : Watches(x.wps[i], calls[q])
      \/ s.k = "Break" /\ \E i \in DOMAIN x.bps : Matches(x.bps[i], calls[q])
      \/ s = x.state
  BY BeginState, Zenon
<1>6. CASE \E i \in DOMAIN x.wps : Watches(x.wps[i], calls[q])
  BY <1>4, <1>6, Zenon DEF MayC
<1>7. CASE \E i \in DOMAIN x.bps : Matches(x.bps[i], calls[q])
  <2>1. PICK i \in DOMAIN x.bps : Matches(x.bps[i], calls[q])
    BY <1>7
  <2>2. AtC(calls, x.bps, i, q)
    BY <2>1, Zenon DEF AtC
  <2>3. q \in (g.from + 1)..q
    BY <1>1, <1>2, <1>3 DEF Given
  <2>4. FirstListC(calls, q, q)
    <3>1. \A a \in q..(q - 1) : FALSE
      BY <1>1
    <3>2. QED  BY <3>1, Zenon DEF FirstListC
  <2>5. QED  BY <1>4, <2>1, <2>2, <2>3, <2>4, Zenon DEF MayC
<1>8. CASE s = x.state
  <2>1. CASE g.cmd = "any"
    BY <1>4, <2>1 DEF MayC
  <2>2. CASE Broke(calls, p, x.bps, g.from)
    <3>1. PICK i \in DOMAIN x.bps, r \in (g.from + 1)..p : AtC(calls, x.bps, i, r) /\ FirstListC(calls, r, p + 1)
      BY <2>2, Zenon DEF Broke
    <3>2. r \in (g.from + 1)..q
      BY <1>1, <1>2
    <3>3. QED  BY <1>1, <1>4, <3>1, <3>2, Zenon DEF MayC
  <2>3. CASE g.cmd # "any" /\ Remains(calls, F, p, x.state, g)
    <3>1. Remains(calls, F, q, s, g)
      BY <1>3, <1>8, <2>3, RemainsBegin
    <3>2. CASE g.cmd = "in"
      BY <1>4, <3>2 DEF MayC
    <3>3. CASE g.cmd = "go"
      <4>1. s.k = "Continue"
        BY <3>1, <3>3 DEF Remains
      <4>2. QED  BY <1>2, <4>1, WaitsIs
    <3>4. CASE g.cmd = "over"
      <4>1. s = St("StepOver", calls[g.from].id)
        BY <3>1, <3>4 DEF Remains
      <4>2. y.state.k = "StepOver" /\ y.state.id = calls[g.from].id
        BY <1>2, <4>1, StKinds
      <4>3. ~ \E i \in 1..Len(y.stack) : y.stack[i].id = y.state.id
        BY <4>2, WaitsIs, Zenon
      <4>4. Ids(calls, F, q, y)
        <5>1. Follows(calls, F, q, y, g.born)
          BY <1>2, FollowsBegin
        <5>2. QED  BY <5>1, FollowsIs, Zenon
      <4>5. ~ Opens(F, g.from, q)
        BY <4>2, <4>3, <4>4, Zenon DEF Opens, Ids
      <4>6. QED  BY <1>4, <3>4, <4>5, Zenon DEF MayC
    <3>5. CASE g.cmd = "out"
      <4>1. Parent(F, g.from) # 0 /\ Left(calls, F, q, g.from)
        <5>1. s.k \notin {"Continue", "Finish"}
          BY <1>2, WaitsIs
        <5>2. s # St("Finish", calls[Parent(F, g.from)].id)
          BY <5>1, StKinds
        <5>3. QED  BY <3>1, <3>5, <5>1, <5>2 DEF Remains
      <4>2. QED  BY <1>4, <3>5, <4>1, Zenon DEF MayC, Left
    <3>6. QED  BY <1>2, <1>4, <2>3, <3>2, <3>3, <3>4, <3>5 DEF Commands
  <2>4. QED  BY <1>3, <2>1, <2>2, <2>3
<1>9. QED  BY <1>5, <1>6, <1>7, <1>8

-----------------------------------------------------------------------------
(* Where an execution starts, and what is done while it is stopped. *)

\* When a point of y was set, at p unless it was there before.
Renewed(y, born, p) == [i \in DOMAIN y.bps \cup DOMAIN y.wps |-> IF i \in DOMAIN born THEN born[i] ELSE p]
\* The points are edited, or what is to be done next is set.
Altered(x, y) ==
    /\ y.active = x.active /\ y.stack = x.stack /\ y.unique >= x.unique
    /\ Keeps(x.bps, y.bps, x.unique) /\ Keeps(x.wps, y.wps, x.unique)

LEMMA AlteredIs ==
    ASSUME NEW x, IsDebugState(x), NEW y, Edited(x, y) \/ OnlyState(x, y)
    PROVE  Altered(x, y)
<1>1. CASE Edited(x, y)
  BY <1>1, Zenon DEF Edited, Altered
<1>2. CASE OnlyState(x, y)
  <2>1. Keeps(x.bps, x.bps, x.unique) /\ Keeps(x.wps, x.wps, x.unique)
    BY Zenon DEF Keeps
  <2>2. x.unique \in Nat
    BY Zenon DEF IsDebugState
  <2>3. x.unique >= x.unique
    BY <2>2
  <2>4. QED  BY <1>2, <2>1, <2>3, Zenon DEF OnlyState, Altered
<1>3. QED  BY <1>1, <1>2

BornAsBefore(y, born, f) == \A i \in DOMAIN y.bps : i \in DOMAIN born => f[i] = born[i]

LEMMA RenewedIs ==
    ASSUME NEW x, NEW y, IsDebugState(y), NEW born, IsNumbered(born, Nat), NEW p \in Nat, Since(p, x, born),
           NEW f, f = Renewed(y, born, p)
    PROVE  /\ IsNumbered(f, Nat) /\ Since(p, y, f)
           /\ BornAsBefore(y, born, f)
<1>1. DOMAIN y.bps \subseteq Nat /\ DOMAIN y.wps \subseteq Nat
  BY Zenon DEF IsDebugState, IsNumbered
<1>2. \A i \in DOMAIN born : born[i] \in Nat /\ born[i] <= p
  BY DEF IsNumbered, Since
<1>4. DOMAIN f = DOMAIN y.bps \cup DOMAIN y.wps
  BY DEF Renewed
<1>5. \A i \in DOMAIN f : f[i] = IF i \in DOMAIN born THEN born[i] ELSE p
  BY DEF Renewed
<1>6. f \in [DOMAIN f -> Nat]
  BY <1>2 DEF Renewed
<1>7. \A i \in DOMAIN f : f[i] <= p
  BY <1>2, <1>5
<1>8. QED  BY <1>1, <1>4, <1>5, <1>6, <1>7 DEF IsNumbered, Since, BornAsBefore

LEMMA AlteredFollows ==
    ASSUME NEW calls, NEW F, NEW p \in Nat, NEW x, IsDebugState(x), NEW y, IsDebugState(y), Altered(x, y),
           NEW born, IsNumbered(born, Nat), Follows(calls, F, p, x, born)
    PROVE  Follows(calls, F, p, y, Renewed(y, born, p))
<1>1. /\ Ids(calls, F, p, x) /\ Since(p, x, born) /\ Active(F, p, x)
      /\ \A j \in 1..Len(F[p]) : ActsAt(calls, F, p, x, born, j)
  BY FollowsIs, Zenon
<1>2. PICK b : b = Renewed(y, born, p)
  OBVIOUS
<1>3. Since(p, y, b) /\ BornAsBefore(y, born, b)
  BY <1>1, <1>2, RenewedIs
<1>4. y.active = x.active /\ y.stack = x.stack /\ Keeps(x.bps, y.bps, x.unique)
  BY Zenon DEF Altered
<1>5. Ids(calls, F, p, y)
  BY <1>1, <1>4, Zenon DEF Ids
<1>6. x.unique \in Nat /\ y.unique \in Nat /\ y.unique >= x.unique
  BY Zenon DEF IsDebugState, Altered
<1>7. \A i \in 1..x.unique : i \in 1..y.unique /\ ~ (i > x.unique)
  BY <1>6
<1>8. Active(F, p, y)
  BY <1>1, <1>4, <1>7, Zenon DEF Active
<1>9. ASSUME NEW j \in 1..Len(F[p]) PROVE ActsAt(calls, F, p, y, b, j)
  <2>1. /\ x.stack[j].act \subseteq 1..x.unique
        /\ \A i \in x.stack[j].act \cap DOMAIN x.bps : AtC(calls, x.bps, i, F[p][j]) /\ born[i] < F[p][j]
    BY <1>1, Zenon DEF ActsAt
  <2>2. ASSUME NEW i \in x.stack[j].act \cap DOMAIN y.bps
        PROVE  AtC(calls, y.bps, i, F[p][j]) /\ b[i] < F[p][j]
    <3>1. i \in 1..x.unique
      BY <2>1
    <3>2. i \in DOMAIN x.bps /\ y.bps[i] = x.bps[i]
      BY <1>4, <1>7, <3>1, Zenon DEF Keeps
    <3>3. AtC(calls, x.bps, i, F[p][j]) /\ born[i] < F[p][j]
      BY <2>1, <3>2, Zenon
    <3>4. AtC(calls, y.bps, i, F[p][j])
      BY <3>2, <3>3, Zenon DEF AtC
    <3>5. i \in DOMAIN born
      BY <1>1, <3>2, Zenon DEF Since
    <3>6. b[i] = born[i]
      BY <1>3, <3>5, Zenon DEF BornAsBefore
    <3>7. QED  BY <3>3, <3>4, <3>6, Zenon
  <2>3. y.stack[j].act \subseteq 1..y.unique
    BY <1>4, <1>7, <2>1, Zenon
  <2>4. QED  BY <1>4, <2>2, <2>3, Zenon DEF ActsAt
<1>10. QED  BY <1>2, <1>3, <1>5, <1>8, <1>9, FollowsIs, Zenon

\* An execution starts with its first command.
LEMMA StartPursues ==
    ASSUME NEW calls, NEW F, NEW x, NEW g, g.from = 0,
           (g.cmd = "in" /\ x.state.k = "Start") \/ (g.cmd = "go" /\ x.state.k = "Continue")
    PROVE  Pursues(calls, F, 0, x, g)
<1>1. \A r \in (0 + 1)..0 : FALSE
  OBVIOUS
<1>2. NoHit(calls, F, 0, x.bps, g)
  BY <1>1, Zenon DEF NoHit
<1>3. Remains(calls, F, 0, x.state, g)
  BY DEF Remains
<1>4. Given(calls, 0, g)
  BY DEF Given
<1>5. QED  BY <1>2, <1>3, <1>4, PursuesIs, Zenon

\* The debugger is told how to go on from the beginning of an expression.
Resumption(x, y, cmd, n) ==
    \/ cmd = "in" /\ y.state.k \in {"StepIn", "Pause"}
    \/ cmd = "go" /\ y.state.k = "Continue"
    \/ cmd = "over" /\ y.state = St("StepOver", n)
    \/ /\ cmd = "out"
       /\ Len(x.stack) >= 2 => y.state = St("Finish", x.stack[Len(x.stack) - 1].id)
       /\ Len(x.stack) < 2 => y.state = St("Continue", 0)
    \/ cmd = "quit" /\ y.state.k = "Quit"
    \/ cmd = "any"

\* A command given where execution stopped is pursued from there.
LEMMA ResumePursues ==
    ASSUME NEW calls, Trace(calls), NEW F, F = FramesOf(calls), NEW p \in Nat, p >= 1, p <= Len(calls), calls[p].ev = "begin",
           NEW x, NEW born, Follows(calls, F, p, x, born), NEW y, NEW g, g.from = p, Resumption(x, y, g.cmd, calls[p].id)
    PROVE  Pursues(calls, F, p, y, g)
<1>1. \A r \in (p + 1)..p : FALSE
  OBVIOUS
<1>2. NoHit(calls, F, p, y.bps, g)
  BY <1>1, Zenon DEF NoHit
<1>3. Given(calls, p, g)
  BY DEF Given
<1>4. Ids(calls, F, p, x)
  BY FollowsIs, Zenon
<1>5. PICK P, l : P = Parent(F, p) /\ l = Len(F[p])
  OBVIOUS
<1>6. /\ P \in 0..(p - 1) /\ l \in Nat /\ l >= 1
      /\ P # 0 <=> l >= 2
      /\ P # 0 => Opens(F, P, p)
  BY <1>5, ParentIs
<1>7. CASE g.cmd = "out" /\ l >= 2
  <2>1. l - 1 \in 1..l
    BY <1>6, <1>7
  <2>2. x.stack[l - 1].id = calls[F[p][l - 1]].id /\ Len(x.stack) = l
    BY <1>4, <1>5, <2>1, Zenon DEF Ids
  <2>3. P = F[p][l - 1]
    BY <1>5, <1>7 DEF Parent
  <2>4. Len(x.stack) >= 2 => y.state = St("Finish", x.stack[Len(x.stack) - 1].id)
    BY <1>7 DEF Resumption
  <2>5. y.state = St("Finish", calls[P].id)
    BY <1>7, <2>2, <2>3, <2>4, Zenon
  <2>6. Remains(calls, F, p, y.state, g)
    BY <1>5, <1>6, <1>7, <2>5 DEF Remains
  <2>7. QED  BY <1>2, <1>3, <2>6, PursuesIs, Zenon
<1>8. CASE g.cmd = "out" /\ ~ (l >= 2)
  <2>1. Len(x.stack) = l
    BY <1>4, <1>5, Zenon DEF Ids
  <2>2. Len(x.stack) < 2 => y.state = St("Continue", 0)
    BY <1>8 DEF Resumption
  <2>3. l < 2
    BY <1>6, <1>8
  <2>4. y.state.k = "Continue"
    BY <2>1, <2>2, <2>3, StKinds
  <2>5. Remains(calls, F, p, y.state, g)
    BY <1>5, <1>6, <1>8, <2>4 DEF Remains
  <2>6. QED  BY <1>2, <1>3, <2>5, PursuesIs, Zenon
<1>9. CASE g.cmd # "out"
  <2>1. CASE g.cmd = "any"
    BY <1>3, <2>1, PursuesIs, Zenon
  <2>2. CASE g.cmd # "any"
    <3>1. Remains(calls, F, p, y.state, g)
      BY <1>9, <2>2 DEF Remains, Resumption
    <3>2. QED  BY <1>2, <1>3, <3>1, PursuesIs, Zenon
  <2>3. QED  BY <2>1, <2>2
<1>10. QED  BY <1>7, <1>8, <1>9

-----------------------------------------------------------------------------
(* The steps of an execution. *)

LEMMA TraceAt ==
    ASSUME NEW k \in DOMAIN Calls
    PROVE  Trace(Executions[k].calls) /\ Executions[k].frames = FramesOf(Executions[k].calls)
<1>1. Executions[k] = [calls |-> Calls[k], frames |-> FramesOf(Calls[k])]
  BY Zenon DEF Executions
<1>2. Executions[k].calls = Calls[k] /\ Executions[k].frames = FramesOf(Calls[k])
  BY <1>1
<1>3. Trace(Calls[k])
  BY CallsAssumption, Zenon DEF Trace
<1>4. QED  BY <1>2, <1>3, Zenon

\* What RunInv says of an execution.
RunAt(ph, calls, F, p, x, g) ==
    /\ p <= Len(calls) /\ Follows(calls, F, p, x, g.born)
    /\ ph = "stopped" => p >= 1 /\ calls[p].ev = "begin"
    /\ ph = "running" => Pursues(calls, F, p, x, g)

LEMMA RunInvIs ==
    RunInv <=>
       (phase \in {"running", "stopped"} =>
          /\ run.ks # <<>> /\ (mode # "attach" => Len(run.ks) = 1)
          /\ RunAt(phase, T, Fr, run.pos, d, goal))
BY Zenon DEF RunInv, RunAt

LEMMA RunTypeIs ==
    ASSUME RunType
    PROVE  /\ run.by \in Runners /\ run.ks \in Seq(DOMAIN Calls) /\ run.pos \in Nat
           /\ IsDebugState(d) /\ IsGoal(goal)
<1>1. run.by \in Runners /\ run.ks \in Seq(DOMAIN Calls) /\ run.pos \in Nat
  BY DEF RunType
<1>2. IsDebugState(d) /\ IsGoal(goal)
  BY Zenon DEF RunType, IsGoal, Commands
<1>3. QED  BY <1>1, <1>2

LEMMA HeadIn ==
    ASSUME NEW S, NEW s \in Seq(S), s # <<>>
    PROVE  Head(s) \in S
OBVIOUS

LEMMA TraceIs ==
    ASSUME RunType, run.ks # <<>>
    PROVE  Head(run.ks) \in DOMAIN Calls /\ Trace(T) /\ Fr = FramesOf(T) /\ Len(T) \in Nat
<1>1. Head(run.ks) \in DOMAIN Calls
  <2>1. run.ks \in Seq(DOMAIN Calls)
    BY RunTypeIs
  <2>2. QED  BY <2>1, HeadIn, Zenon
<1>2. Trace(T) /\ Fr = FramesOf(T)
  BY <1>1, TraceAt, Zenon DEF T, Fr
<1>3. Len(T) \in Nat
  BY <1>2 DEF Trace
<1>4. QED  BY <1>1, <1>2, <1>3

LEMMA TraceKept ==
    ASSUME run'.ks = run.ks
    PROVE  T' = T /\ Fr' = Fr
BY Zenon DEF T, Fr

LEMMA PosSet ==
    ASSUME NEW B, NEW K, NEW b \in B, NEW k \in K, NEW p \in Nat, NEW u, u = [by |-> b, ks |-> k, pos |-> p],
           NEW q \in Nat, NEW r, r = [u EXCEPT !.pos = q]
    PROVE  r.by = b /\ r.ks = k /\ r.pos = q /\ r \in [by: B, ks: K, pos: Nat]
OBVIOUS

LEMMA Advanced ==
    ASSUME RunType, NEW r, r = [run EXCEPT !.pos = run.pos + 1]
    PROVE  /\ r.by = run.by /\ r.ks = run.ks /\ r.pos = run.pos + 1
           /\ r \in [by: Runners, ks: Seq(DOMAIN Calls), pos: Nat]
<1>1. PICK B, K : B = Runners /\ K = Seq(DOMAIN Calls)
  OBVIOUS
<1>2. run \in [by: B, ks: K, pos: Nat]
  BY <1>1, Zenon DEF RunType
<1>3. PICK b, k, p, q : b = run.by /\ k = run.ks /\ p = run.pos /\ q = p + 1
  OBVIOUS
<1>4. b \in B /\ k \in K /\ p \in Nat /\ q \in Nat /\ run = [by |-> b, ks |-> k, pos |-> p]
  BY <1>2, <1>3
<1>5. r = [run EXCEPT !.pos = q]
  BY <1>3, Zenon
<1>6. r.by = b /\ r.ks = k /\ r.pos = q /\ r \in [by: B, ks: K, pos: Nat]
  BY <1>4, <1>5, PosSet
<1>7. QED  BY <1>1, <1>3, <1>6, Zenon

\* One hook call of an execution that runs.
LEMMA StepTaken ==
    ASSUME RunType, RunInv, phase = "running", run.pos < Len(T)
    PROVE  /\ Step(T, Fr, run.pos, run.pos + 1) /\ Follows(T, Fr, run.pos, d, goal.born)
           /\ Pursues(T, Fr, run.pos, d, goal) /\ run.ks # <<>> /\ (mode # "attach" => Len(run.ks) = 1)
<1>1. run.ks # <<>> /\ (mode # "attach" => Len(run.ks) = 1) /\ RunAt(phase, T, Fr, run.pos, d, goal)
  BY RunInvIs, Zenon
<1>2. Trace(T) /\ Fr = FramesOf(T) /\ Len(T) \in Nat /\ run.pos \in Nat
  BY <1>1, TraceIs, RunTypeIs
<1>3. run.pos \in 0..(Len(T) - 1)
  BY <1>2
<1>4. QED  BY <1>1, <1>2, <1>3, Zenon DEF RunAt, Step

\* What the debugger makes of the beginning of an expression.
BeginOutcome ==
    \E x, y, A, z, s :
        /\ x = d /\ y = d' /\ IsDebugState(y) /\ Strikes(x, Here', A, z) /\ Looks(x, Here', z, s) /\ Begun(x, Here', y, A, s)
        /\ phase' = IF x.state.k # "Quit" /\ Here'.list /\ Waits(y) THEN "stopped" ELSE "running"

\* A step of Begin: one call further, and what it makes of the debugger.
LEMMA BeginIs ==
    ASSUME RunType, RunInv, Begin
    PROVE  /\ run'.ks = run.ks /\ run'.pos = run.pos + 1 /\ T' = T /\ Fr' = Fr /\ Here' = T[run.pos + 1]
           /\ run' \in [by: Runners, ks: Seq(DOMAIN Calls), pos: Nat] /\ BeginOutcome
<1>1. /\ phase = "running" /\ run.pos < Len(T) /\ T[run.pos + 1].ev = "begin"
      /\ run' = [run EXCEPT !.pos = run.pos + 1]
  BY Zenon DEF Begin
<1>2. /\ run'.ks = run.ks /\ run'.pos = run.pos + 1
      /\ run' \in [by: Runners, ks: Seq(DOMAIN Calls), pos: Nat]
  BY <1>1, Advanced
<1>3. T' = T /\ Fr' = Fr
  BY <1>2, TraceKept
<1>4. Here' = T[run.pos + 1]
  BY <1>2, <1>3, Zenon DEF Here
<1>5. PICK x, e : x = d /\ e = T[run.pos + 1]
  OBVIOUS
<1>6. PICK o : o \in will_begin_eval(x, e) /\ d' = o.d /\ phase' = IF o.waits THEN "stopped" ELSE "running"
  BY <1>5, Zenon DEF Begin
<1>7. IsDebugState(x) /\ e \in HookCall
  <2>1. Step(T, Fr, run.pos, run.pos + 1)
    BY <1>1, StepTaken
  <2>2. QED  BY <1>5, <2>1, StepIs, RunTypeIs
<1>8. Enters(x, e, o)
  BY <1>6, <1>7, EntersIs
<1>9. PICK A, z, s : Strikes(x, e, A, z) /\ Looks(x, e, z, s) /\ Begun(x, e, o.d, A, s)
  BY <1>8, Zenon DEF Enters
<1>10. IsDebugState(o.d) /\ (o.waits <=> (x.state.k # "Quit" /\ e.list /\ Waits(o.d)))
  BY <1>8, Zenon DEF Enters
<1>11. phase' = IF x.state.k # "Quit" /\ e.list /\ Waits(o.d) THEN "stopped" ELSE "running"
  BY <1>6, <1>10, Zenon
<1>12. BeginOutcome
  BY <1>4, <1>5, <1>6, <1>9, <1>10, <1>11, Zenon DEF BeginOutcome
<1>13. QED  BY <1>2, <1>3, <1>4, <1>12, Zenon

\* The invariant of the execution, one step of the server after the other.
LEMMA BeginRuns ==
    ASSUME RunType, RunInv, Begin
    PROVE  RunType' /\ RunInv'
<1>1. /\ run'.ks = run.ks /\ run'.pos = run.pos + 1 /\ T' = T /\ Fr' = Fr /\ Here' = T[run.pos + 1]
      /\ run' \in [by: Runners, ks: Seq(DOMAIN Calls), pos: Nat] /\ BeginOutcome
  BY BeginIs
<1>2. phase = "running" /\ run.pos < Len(T) /\ T[run.pos + 1].ev = "begin" /\ mode' = mode /\ goal' = goal
  BY Zenon DEF Begin
<1>3. /\ Step(T, Fr, run.pos, run.pos + 1) /\ Follows(T, Fr, run.pos, d, goal.born)
      /\ Pursues(T, Fr, run.pos, d, goal) /\ run.ks # <<>> /\ (mode # "attach" => Len(run.ks) = 1)
  BY <1>2, StepTaken
<1>4. PICK calls, F, p, q, g : calls = T /\ F = Fr /\ p = run.pos /\ q = run.pos + 1 /\ g = goal
  OBVIOUS
<1>5. PICK x, y, A, z, s :
        /\ x = d /\ y = d' /\ IsDebugState(y) /\ Strikes(x, calls[q], A, z) /\ Looks(x, calls[q], z, s) /\ Begun(x, calls[q], y, A, s)
        /\ phase' = IF x.state.k # "Quit" /\ calls[q].list /\ Waits(y) THEN "stopped" ELSE "running"
  BY <1>1, <1>4, Zenon DEF BeginOutcome
<1>6. IsDebugState(x) /\ IsGoal(g) /\ IsNumbered(g.born, Nat)
  BY <1>4, <1>5, RunTypeIs DEF IsGoal
<1>7. Step(calls, F, p, q) /\ calls[q].ev = "begin" /\ Follows(calls, F, p, x, g.born) /\ Pursues(calls, F, p, x, g)
  BY <1>2, <1>3, <1>4, <1>5, Zenon
<1>8. Follows(calls, F, q, y, g.born)
  BY <1>5, <1>6, <1>7, FollowsBegin
<1>9. q <= Len(calls) /\ q >= 1
  BY <1>7, StepIs
<1>10. phase' = "running" => Pursues(calls, F, q, y, g)
  <2>1. phase' = "running" => ~ (x.state.k # "Quit" /\ calls[q].list /\ Waits(y))
    BY <1>5
  <2>2. QED  BY <1>5, <1>6, <1>7, <2>1, PursuesBegin
<1>11. RunAt(phase', calls, F, q, y, g)
  BY <1>7, <1>8, <1>9, <1>10, Zenon DEF RunAt
<1>12. RunInv'
  <2>1. RunAt(phase', T', Fr', run'.pos, d', goal')
    BY <1>1, <1>2, <1>4, <1>5, <1>11, Zenon
  <2>2. run'.ks # <<>> /\ (mode' # "attach" => Len(run'.ks) = 1)
    BY <1>1, <1>2, <1>3, Zenon
  <2>3. QED  BY <2>1, <2>2, Zenon DEF RunInv, RunAt
<1>13. phase' \in {"running", "stopped"}
  BY <1>5
<1>14. RunType'
  BY <1>1, <1>2, <1>5, <1>13, Zenon DEF RunType
<1>15. QED  BY <1>12, <1>14

LEMMA GoalFields ==
    ASSUME NEW f, NEW c, NEW b
    PROVE  Goal(f, c, b).from = f /\ Goal(f, c, b).cmd = c /\ Goal(f, c, b).born = b
BY DEF Goal

LEMMA ExecutingIs ==
    ASSUME NEW B, NEW K, NEW b \in B, NEW k \in K, NEW u, u = Executing(b, k)
    PROVE  u.by = b /\ u.ks = k /\ u.pos = 0 /\ u \in [by: B, ks: K, pos: Nat]
BY DEF Executing

\* Nothing has been evaluated, and every point was set before.
Fresh(x, b) ==
    /\ IsDebugState(x) /\ x.stack = <<>> /\ x.active = {}
    /\ IsNumbered(b, Nat) /\ DOMAIN b = DOMAIN x.bps \cup DOMAIN x.wps /\ \A i \in DOMAIN b : b[i] = 0

LEMMA StartsAt ==
    ASSUME NEW calls, Trace(calls), NEW F, F = FramesOf(calls), NEW x, NEW g, Fresh(x, g.born), g.from = 0,
           (g.cmd = "in" /\ x.state.k = "Start") \/ (g.cmd = "go" /\ x.state.k = "Continue")
    PROVE  RunAt("running", calls, F, 0, x, g)
<1>1. Len(calls) \in Nat
  BY DEF Trace
<1>2. F[0] = <<>>
  BY <1>1, FramesAreNested, Zenon DEF Nested
<1>3. Len(F[0]) = 0 /\ \A j \in 1..Len(F[0]) : FALSE
  BY <1>2
<1>4. Since(0, x, g.born)
  BY DEF Since, Fresh
<1>5. Ids(calls, F, 0, x)
  BY <1>2, <1>3, Zenon DEF Ids, Fresh
<1>6. Active(F, 0, x)
  BY DEF Active, Fresh
<1>7. Follows(calls, F, 0, x, g.born)
  BY <1>3, <1>4, <1>5, <1>6, FollowsIs, Zenon
<1>8. Pursues(calls, F, 0, x, g)
  BY StartPursues
<1>9. 0 <= Len(calls)
  BY <1>1
<1>10. QED  BY <1>7, <1>8, <1>9 DEF RunAt

LEMMA FreshState ==
    /\ Fresh(NewDebugState, Unborn(NewDebugState)) /\ Fresh(NewDebugState, <<>>)
    /\ NewDebugState.state.k = "Start" /\ DOMAIN NewDebugState.bps = {} /\ DOMAIN NewDebugState.wps = {}
<1>1. PICK e, t, x : e = <<>> /\ t = St("Start", 0) /\ x = NewDebugState
  OBVIOUS
<1>2. x = DebugRec(e, e, {}, t, e, 0)
  BY <1>1, Zenon DEF NewDebugState, DebugRec
<1>3. x.bps = e /\ x.wps = e /\ x.active = {} /\ x.state = t /\ x.stack = e
  BY <1>2, DebugFields
<1>4. DOMAIN e = {} /\ e \in Seq(StackFrames)
  BY <1>1
<1>5. \A S : e \in [{} -> S]
  BY <1>4, <1>1
<1>6. IsNumbered(e, SourceLocations) /\ IsNumbered(e, Variables) /\ IsNumbered(e, Nat)
  BY <1>4, <1>5 DEF IsNumbered
<1>7. t \in [k: StateNames, id: Nat] /\ t.k = "Start"
  BY <1>1 DEF St, StateNames
<1>8. IsDebugState(x)
  BY <1>2, <1>4, <1>6, <1>7, DebugStateMade
<1>9. PICK b : b = Unborn(x)
  OBVIOUS
<1>10. DOMAIN b = {} /\ IsNumbered(b, Nat)
  BY <1>3, <1>4, <1>9 DEF Unborn, IsNumbered
<1>11. Fresh(x, b)
  BY <1>1, <1>3, <1>4, <1>8, <1>10 DEF Fresh
<1>12. Fresh(x, e)
  BY <1>1, <1>3, <1>4, <1>6, <1>8 DEF Fresh
<1>13. QED  BY <1>1, <1>3, <1>4, <1>7, <1>9, <1>11, <1>12, Zenon

LEMMA FreshReset ==
    ASSUME NEW x, IsDebugState(x), NEW y, y = reset_for_new_call(x), NEW b, b = Unborn(x)
    PROVE  Fresh(y, b) /\ y.state.k = "Continue"
<1>1. /\ IsDebugState(y) /\ y.bps = x.bps /\ y.wps = x.wps
      /\ y.active = {} /\ y.stack = <<>> /\ y.state = St("Continue", 0)
  BY ResetSet
<1>2. y.state.k = "Continue"
  BY <1>1, StKinds
<1>3. DOMAIN b = DOMAIN x.bps \cup DOMAIN x.wps /\ (\A i \in DOMAIN b : b[i] = 0) /\ b \in [DOMAIN b -> Nat]
  BY DEF Unborn
<1>4. DOMAIN b \subseteq Nat
  BY <1>3, Zenon DEF IsDebugState, IsNumbered
<1>5. QED  BY <1>1, <1>2, <1>3, <1>4, Zenon DEF Fresh, IsNumbered

LEMMA Launches ==
    ASSUME mode' \in {"cli", "launch", "attach"}, phase' = "running", NEW by \in Runners,
           NEW ks \in Seq(DOMAIN Calls), ks # <<>>, run' = Executing(by, ks), mode' # "attach" => Len(ks) = 1,
           NEW cmd, NEW b, goal' = Goal(0, cmd, b), Fresh(d', b),
           (cmd = "in" /\ d'.state.k = "Start") \/ (cmd = "go" /\ d'.state.k = "Continue")
    PROVE  RunType' /\ RunInv'
<1>1. PICK B, K : B = Runners /\ K = Seq(DOMAIN Calls)
  OBVIOUS
<1>2. run'.by = by /\ run'.ks = ks /\ run'.pos = 0 /\ run' \in [by: B, ks: K, pos: Nat]
  <2>1. PICK u : u = run' /\ u = Executing(by, ks)
    BY Zenon
  <2>2. u.by = by /\ u.ks = ks /\ u.pos = 0 /\ u \in [by: B, ks: K, pos: Nat]
    <3>1. by \in B /\ ks \in K
      BY <1>1, Zenon
    <3>2. QED  BY ONLY <2>1, <3>1, ExecutingIs
  <2>3. QED  BY <2>1, <2>2, Zenon
<1>3. goal'.from = 0 /\ goal'.cmd = cmd /\ goal'.born = b
  BY GoalFields
<1>4. Head(ks) \in DOMAIN Calls
  BY HeadIn
<1>5. Trace(T') /\ Fr' = FramesOf(T')
  BY <1>2, <1>4, TraceAt, Zenon DEF T, Fr
<1>6. PICK calls, F, x, g : calls = T' /\ F = Fr' /\ x = d' /\ g = goal'
  OBVIOUS
<1>7. RunAt("running", calls, F, 0, x, g)
  BY <1>3, <1>5, <1>6, StartsAt
<1>8. RunAt(phase', T', Fr', run'.pos, d', goal')
  BY <1>2, <1>6, <1>7, Zenon
<1>9. RunInv'
  BY <1>2, <1>8, Zenon DEF RunInv, RunAt
<1>10. IsDebugState(d') /\ IsNumbered(b, Nat)
  BY Zenon DEF Fresh
<1>11. goal' = Goal(goal'.from, goal'.cmd, goal'.born) /\ 0 \in Nat /\ goal'.cmd \in {"in", "go", "over", "out", "quit", "any"}
  BY <1>3
<1>12. phase' \in {"handshake", "idle", "running", "stopped", "ended"}
  OBVIOUS
<1>13. RunType'
  BY <1>1, <1>2, <1>3, <1>10, <1>11, <1>12, Zenon DEF RunType
<1>14. QED  BY <1>9, <1>13

\* Nothing is being executed.
LEMMA Rests ==
    ASSUME RunType, mode' = mode, phase' \in {"handshake", "idle", "ended"}, IsDebugState(d'), goal' = goal,
           run' = run \/ run' = NoRun
    PROVE  RunType' /\ RunInv'
<1>1. NoRun \in [by: Runners, ks: Seq(DOMAIN Calls), pos: Nat]
  <2>1. PICK e : e = <<>>
    OBVIOUS
  <2>2. e \in Seq(DOMAIN Calls)
    BY <2>1
  <2>3. PICK b : b \in Runners /\ NoRun = Executing(b, e)
    BY <2>1, Zenon DEF NoRun, Executing, Runners
  <2>4. QED  BY <2>2, <2>3, ExecutingIs
<1>2. run \in [by: Runners, ks: Seq(DOMAIN Calls), pos: Nat]
  BY Zenon DEF RunType
<1>3. phase' \in {"handshake", "idle", "running", "stopped", "ended"} /\ phase' \notin {"running", "stopped"}
  OBVIOUS
<1>4. RunType'
  BY <1>1, <1>2, <1>3, Zenon DEF RunType
<1>5. RunInv'
  BY <1>3, Zenon DEF RunInv
<1>6. QED  BY <1>4, <1>5

LEMMA RunKept ==
    ASSUME RunType, RunInv, UNCHANGED <<mode, phase, d, run, goal>>
    PROVE  RunType' /\ RunInv'
<1>1. T' = T /\ Fr' = Fr
  BY Zenon DEF T, Fr
<1>2. RunType'
  BY Zenon DEF RunType
<1>3. RunInv'
  BY <1>1, Zenon DEF RunInv
<1>4. QED  BY <1>2, <1>3

LEMMA EndRuns ==
    ASSUME RunType, RunInv, End
    PROVE  RunType' /\ RunInv'
<1>1. /\ phase = "running" /\ run.pos < Len(T) /\ T[run.pos + 1].ev = "end" /\ mode' = mode /\ goal' = goal /\ phase' = phase
      /\ run' = [run EXCEPT !.pos = run.pos + 1] /\ d' = did_finish_eval(d, T[run.pos + 1])
  BY Zenon DEF End
<1>2. /\ run'.ks = run.ks /\ run'.pos = run.pos + 1
      /\ run' \in [by: Runners, ks: Seq(DOMAIN Calls), pos: Nat]
  BY <1>1, Advanced
<1>3. /\ Step(T, Fr, run.pos, run.pos + 1) /\ Follows(T, Fr, run.pos, d, goal.born)
      /\ Pursues(T, Fr, run.pos, d, goal) /\ run.ks # <<>> /\ (mode # "attach" => Len(run.ks) = 1)
  BY <1>1, StepTaken
<1>4. T' = T /\ Fr' = Fr
  BY <1>2, TraceKept
<1>5. PICK calls, F, p, q, g, x, y :
        calls = T /\ F = Fr /\ p = run.pos /\ q = run.pos + 1 /\ g = goal /\ x = d /\ y = d'
  OBVIOUS
<1>6. IsDebugState(x) /\ IsGoal(g) /\ IsNumbered(g.born, Nat)
  BY <1>5, RunTypeIs DEF IsGoal
<1>7. Step(calls, F, p, q) /\ calls[q].ev = "end" /\ Follows(calls, F, p, x, g.born) /\ Pursues(calls, F, p, x, g)
  BY <1>1, <1>3, <1>5, Zenon
<1>8. x.stack # <<>>
  <2>1. Shrinks(F, p, q) /\ Len(F[p]) \in Nat
    BY <1>7, StepIs
  <2>2. Len(x.stack) = Len(F[p])
    BY <1>7, FollowsIs, Zenon DEF Ids
  <2>3. Len(x.stack) >= 1 /\ Len(<<>>) = 0
    BY <2>1, <2>2 DEF Shrinks
  <2>4. QED  BY <2>3
<1>9. IsDebugState(y) /\ Ended(x, y)
  <2>1. PICK e : e = calls[q]
    OBVIOUS
  <2>2. y = did_finish_eval(x, e)
    BY <1>1, <1>5, <2>1, Zenon
  <2>3. QED  BY <1>6, <1>8, <2>2, EndedIs
<1>10. Follows(calls, F, q, y, g.born)
  BY <1>6, <1>7, <1>9, FollowsEnd
<1>11. Pursues(calls, F, q, y, g)
  BY <1>6, <1>7, <1>9, PursuesEnd
<1>12. q <= Len(calls)
  BY <1>7, StepIs
<1>13. RunAt("running", calls, F, q, y, g)
  BY <1>10, <1>11, <1>12, Zenon DEF RunAt
<1>14. RunInv'
  <2>1. RunAt(phase', T', Fr', run'.pos, d', goal')
    BY <1>1, <1>2, <1>4, <1>5, <1>13, Zenon
  <2>2. run'.ks # <<>> /\ (mode' # "attach" => Len(run'.ks) = 1)
    BY <1>1, <1>2, <1>3, Zenon
  <2>3. QED  BY <2>1, <2>2, Zenon DEF RunInv, RunAt
<1>15. RunType'
  BY <1>1, <1>2, <1>5, <1>9, Zenon DEF RunType
<1>16. QED  BY <1>14, <1>15

LEMMA StoppedAt ==
    ASSUME RunType, RunInv, phase = "stopped"
    PROVE  /\ run.ks # <<>> /\ (mode # "attach" => Len(run.ks) = 1)
           /\ Trace(T) /\ Fr = FramesOf(T) /\ run.pos \in Nat /\ run.pos >= 1 /\ run.pos <= Len(T)
           /\ T[run.pos].ev = "begin" /\ Follows(T, Fr, run.pos, d, goal.born) /\ Here.id \in Nat
<1>1. run.ks # <<>> /\ (mode # "attach" => Len(run.ks) = 1) /\ RunAt(phase, T, Fr, run.pos, d, goal)
  BY RunInvIs, Zenon
<1>2. Trace(T) /\ Fr = FramesOf(T) /\ Len(T) \in Nat /\ run.pos \in Nat
  BY <1>1, TraceIs, RunTypeIs
<1>3. run.pos <= Len(T) /\ run.pos >= 1 /\ T[run.pos].ev = "begin" /\ Follows(T, Fr, run.pos, d, goal.born)
  BY <1>1, Zenon DEF RunAt
<1>4. Here.id \in Nat
  <2>1. PICK calls, p : calls = T /\ p = run.pos
    OBVIOUS
  <2>2. calls \in Seq(HookCall) /\ p \in 1..Len(calls)
    BY <1>2, <1>3, <2>1 DEF Trace
  <2>3. calls[p] \in HookCall
    BY <2>2
  <2>4. calls[p].id \in Nat
    BY <2>3 DEF HookCall
  <2>5. QED  BY <2>1, <2>4, Zenon DEF Here
<1>5. QED  BY <1>1, <1>2, <1>3, <1>4, Zenon

LEMMA BornIs ==
    ASSUME RunType, RunInv, phase = "stopped", IsDebugState(d'), Altered(d, d')
    PROVE  /\ IsNumbered(Born(d', run.pos), Nat)
           /\ Follows(T, Fr, run.pos, d', Born(d', run.pos))
<1>1. PICK calls, F, p, x, y, b : calls = T /\ F = Fr /\ p = run.pos /\ x = d /\ y = d' /\ b = goal.born
  OBVIOUS
<1>2. p \in Nat /\ Follows(calls, F, p, x, b) /\ IsNumbered(b, Nat) /\ IsDebugState(x)
  BY <1>1, StoppedAt, RunTypeIs DEF IsGoal
<1>3. Born(d', run.pos) = Renewed(y, b, p)
  BY <1>1, Zenon DEF Born, Renewed
<1>4. Follows(calls, F, p, y, Renewed(y, b, p))
  BY <1>1, <1>2, AlteredFollows
<1>5. Since(p, x, b)
  BY <1>2, FollowsIs, Zenon
<1>6. IsNumbered(Renewed(y, b, p), Nat)
  BY <1>1, <1>2, <1>5, RenewedIs
<1>7. QED  BY <1>1, <1>3, <1>4, <1>6, Zenon

LEMMA GoesOn ==
    ASSUME RunType, RunInv, phase = "stopped", mode' = mode, run' = run, phase' = "running", IsDebugState(d'),
           NEW b, IsNumbered(b, Nat), Follows(T, Fr, run.pos, d', b),
           NEW cmd \in Commands, goal' = Goal(run.pos, cmd, b), Resumption(d, d', cmd, Here.id)
    PROVE  RunType' /\ RunInv'
<1>1. /\ run.ks # <<>> /\ (mode # "attach" => Len(run.ks) = 1)
      /\ Trace(T) /\ Fr = FramesOf(T) /\ run.pos \in Nat /\ run.pos >= 1 /\ run.pos <= Len(T)
      /\ T[run.pos].ev = "begin" /\ Follows(T, Fr, run.pos, d, goal.born)
  BY StoppedAt
<1>2. PICK calls, F, p, x, y, g, a :
         calls = T /\ F = Fr /\ p = run.pos /\ x = d /\ y = d' /\ g = goal' /\ a = goal.born
  OBVIOUS
<1>3. g.from = p /\ g.cmd = cmd /\ g.born = b
  BY <1>2, GoalFields
<1>4. Resumption(x, y, g.cmd, calls[p].id)
  BY <1>2, <1>3, Zenon DEF Here
<1>5. Pursues(calls, F, p, y, g)
  BY <1>1, <1>2, <1>3, <1>4, ResumePursues
<1>6. RunAt("running", calls, F, p, y, g)
  BY <1>1, <1>2, <1>3, <1>5 DEF RunAt
<1>7. T' = T /\ Fr' = Fr
  BY TraceKept
<1>8. RunInv'
  <2>1. RunAt(phase', T', Fr', run'.pos, d', goal')
    BY <1>2, <1>6, <1>7, Zenon
  <2>2. QED  BY <1>1, <2>1, Zenon DEF RunInv, RunAt
<1>9. goal' = Goal(goal'.from, goal'.cmd, goal'.born) /\ goal'.from \in Nat /\ IsNumbered(goal'.born, Nat)
      /\ goal'.cmd \in {"in", "go", "over", "out", "quit", "any"}
  BY <1>1, <1>2, <1>3, Zenon DEF Commands
<1>10. phase' \in {"handshake", "idle", "running", "stopped", "ended"}
  OBVIOUS
<1>11. RunType'
  BY <1>9, <1>10, Zenon DEF RunType
<1>12. QED  BY <1>8, <1>11

LEMMA BornSet ==
    ASSUME NEW f, NEW c, NEW b, NEW g, g = Goal(f, c, b), NEW z
    PROVE  [g EXCEPT !.born = z] = Goal(f, c, z)
BY DEF Goal

LEMMA StaysPut ==
    ASSUME RunType, RunInv, phase = "stopped", mode' = mode, run' = run, phase' = "stopped", IsDebugState(d'), Altered(d, d'),
           goal' = [goal EXCEPT !.born = Born(d', run.pos)]
    PROVE  RunType' /\ RunInv'
<1>1. /\ run.ks # <<>> /\ (mode # "attach" => Len(run.ks) = 1)
      /\ run.pos >= 1 /\ run.pos <= Len(T) /\ T[run.pos].ev = "begin"
  BY StoppedAt
<1>2. PICK f, c, a, b : f = goal.from /\ c = goal.cmd /\ a = goal.born /\ b = Born(d', run.pos)
  OBVIOUS
<1>3. /\ goal = Goal(f, c, a) /\ f \in Nat /\ c \in {"in", "go", "over", "out", "quit", "any"}
  BY <1>2, Zenon DEF RunType
<1>4. IsNumbered(b, Nat) /\ Follows(T, Fr, run.pos, d', b)
  BY <1>2, BornIs
<1>5. goal' = Goal(f, c, b)
  <2>1. PICK g : g = goal
    OBVIOUS
  <2>2. goal' = [g EXCEPT !.born = b] /\ g = Goal(f, c, a)
    BY <1>2, <1>3, <2>1, Zenon
  <2>3. QED  BY <2>2, BornSet
<1>6. goal'.from = f /\ goal'.cmd = c /\ goal'.born = b
  <2>1. PICK h : h = goal' /\ h = Goal(f, c, b)
    BY <1>5, Zenon
  <2>2. h.from = f /\ h.cmd = c /\ h.born = b
    BY ONLY <2>1, GoalFields
  <2>3. QED  BY <2>1, <2>2, Zenon
<1>7. T' = T /\ Fr' = Fr
  BY TraceKept
<1>8. RunInv'
  BY <1>1, <1>4, <1>6, <1>7 DEF RunInv
<1>9. phase' \in {"handshake", "idle", "running", "stopped", "ended"}
  OBVIOUS
<1>10. RunType'
  BY <1>3, <1>4, <1>5, <1>6, <1>9, Zenon DEF RunType
<1>11. QED  BY <1>8, <1>10

\* Every way to go on is one that the commands ask for.
Proceeding(cmd, y) ==
    \/ cmd = "go" /\ y = continue_execution(d)
    \/ cmd = "over" /\ y = step_over(d, Here.id)
    \/ cmd = "in" /\ y \in {step_in(d), pause(d)}
    \/ cmd = "out" /\ y = finish(d)
    \/ cmd = "quit" /\ y = quit(d)

LEMMA ProceedingIs ==
    ASSUME RunType, RunInv, phase = "stopped", NEW cmd, Proceeding(cmd, d')
    PROVE  IsDebugState(d') /\ Altered(d, d') /\ Resumption(d, d', cmd, Here.id) /\ cmd \in Commands
<1>1. PICK x, y, n : x = d /\ y = d' /\ n = Here.id
  OBVIOUS
<1>2. IsDebugState(x) /\ n \in Nat
  BY <1>1, StoppedAt, RunTypeIs
<1>3. CASE cmd = "go" /\ y = continue_execution(x)
  <2>1. IsDebugState(y) /\ OnlyState(x, y) /\ y.state = St("Continue", 0)
    BY <1>2, <1>3, CommandsSet
  <2>2. Resumption(x, y, cmd, n)
    BY <1>3, <2>1, StKinds DEF Resumption
  <2>3. cmd \in Commands
    BY <1>3 DEF Commands
  <2>4. Altered(x, y)
    BY <1>2, <2>1, AlteredIs
  <2>5. QED  BY <1>1, <2>1, <2>2, <2>3, <2>4, Zenon
<1>4. CASE cmd = "over" /\ y = step_over(x, n)
  <2>1. IsDebugState(y) /\ OnlyState(x, y) /\ y.state = St("StepOver", n)
    BY <1>2, <1>4, CommandsSet
  <2>2. Resumption(x, y, cmd, n)
    BY <1>4, <2>1 DEF Resumption
  <2>3. cmd \in Commands
    BY <1>4 DEF Commands
  <2>4. Altered(x, y)
    BY <1>2, <2>1, AlteredIs
  <2>5. QED  BY <1>1, <2>1, <2>2, <2>3, <2>4, Zenon
<1>5. CASE cmd = "in" /\ y \in {step_in(x), pause(x)}
  <2>1. IsDebugState(y) /\ OnlyState(x, y) /\ (y.state = St("StepIn", 0) \/ y.state = St("Pause", 0))
    BY <1>2, <1>5, CommandsSet
  <2>2. Resumption(x, y, cmd, n)
    BY <1>5, <2>1, StKinds DEF Resumption
  <2>3. cmd \in Commands
    BY <1>5 DEF Commands
  <2>4. Altered(x, y)
    BY <1>2, <2>1, AlteredIs
  <2>5. QED  BY <1>1, <2>1, <2>2, <2>3, <2>4, Zenon
<1>6. CASE cmd = "out" /\ y = finish(x)
  <2>1. /\ IsDebugState(y) /\ OnlyState(x, y)
        /\ Len(x.stack) >= 2 => y.state = St("Finish", x.stack[Len(x.stack) - 1].id)
        /\ Len(x.stack) < 2 => y.state = St("Continue", 0)
    BY <1>2, <1>6, FinishSet
  <2>2. Resumption(x, y, cmd, n)
    BY <1>6, <2>1, Zenon DEF Resumption
  <2>3. cmd \in Commands
    BY <1>6 DEF Commands
  <2>4. Altered(x, y)
    BY <1>2, <2>1, AlteredIs
  <2>5. QED  BY <1>1, <2>1, <2>2, <2>3, <2>4, Zenon
<1>7. CASE cmd = "quit" /\ y = quit(x)
  <2>1. IsDebugState(y) /\ OnlyState(x, y) /\ y.state = St("Quit", 0)
    BY <1>2, <1>7, CommandsSet
  <2>2. Resumption(x, y, cmd, n)
    BY <1>7, <2>1, StKinds DEF Resumption
  <2>3. cmd \in Commands
    BY <1>7 DEF Commands
  <2>4. Altered(x, y)
    BY <1>2, <2>1, AlteredIs
  <2>5. QED  BY <1>1, <2>1, <2>2, <2>3, <2>4, Zenon
<1>8. QED  BY <1>1, <1>3, <1>4, <1>5, <1>6, <1>7, Zenon DEF Proceeding

LEMMA Proceeded ==
    ASSUME RunType, RunInv, phase = "stopped", mode' = mode, run' = run, phase' = "running",
           NEW cmd, Proceeding(cmd, d'), goal' = Goal(run.pos, cmd, Born(d', run.pos))
    PROVE  RunType' /\ RunInv'
<1>1. IsDebugState(d') /\ Altered(d, d') /\ Resumption(d, d', cmd, Here.id) /\ cmd \in Commands
  BY ProceedingIs
<1>2. PICK b : b = Born(d', run.pos)
  OBVIOUS
<1>3. IsNumbered(b, Nat) /\ Follows(T, Fr, run.pos, d', b)
  BY <1>1, <1>2, BornIs
<1>4. goal' = Goal(run.pos, cmd, b)
  BY <1>2, Zenon
<1>5. QED  BY <1>1, <1>3, <1>4, GoesOn

LEMMA CliResumeRuns ==
    ASSUME RunType, RunInv, CliResume
    PROVE  RunType' /\ RunInv'
<1>1. phase = "stopped" /\ mode' = mode /\ run' = run /\ phase' = "running"
  BY Zenon DEF CliResume, Console
<1>2. PICK o \in {<<"go", continue_execution(d)>>, <<"over", step_over(d, Here.id)>>, <<"in", step_in(d)>>,
                  <<"out", finish(d)>>, <<"quit", quit(d)>>} :
          d' = o[2] /\ goal' = Goal(run.pos, o[1], Born(o[2], run.pos))
  BY Zenon DEF CliResume
<1>3. PICK cmd : cmd = o[1]
  OBVIOUS
<1>4. ASSUME NEW k, NEW v, o = <<k, v>>
      PROVE  cmd = k /\ d' = v
  <2>1. o[1] = k /\ o[2] = v
    BY <1>4
  <2>2. QED  BY <1>2, <1>3, <2>1, Zenon
<1>5. Proceeding(cmd, d')
  BY <1>2, <1>4, Zenon DEF Proceeding
<1>6. goal' = Goal(run.pos, cmd, Born(d', run.pos))
  BY <1>2, <1>3, Zenon
<1>7. QED  BY <1>1, <1>5, <1>6, Proceeded

LEMMA CliPointsRuns ==
    ASSUME RunType, RunInv, CliPoints
    PROVE  RunType' /\ RunInv'
<1>1. /\ phase = "stopped" /\ mode' = mode /\ run' = run /\ phase' = "stopped"
      /\ goal' = [goal EXCEPT !.born = Born(d', run.pos)]
  BY Zenon DEF CliPoints, Console
<1>2. IsDebugState(d)
  BY RunTypeIs
<1>3. IsDebugState(d') /\ Edited(d, d')
  BY <1>2, CliEdits
<1>4. Altered(d, d')
  <2>1. PICK x, y : x = d /\ y = d'
    OBVIOUS
  <2>2. Altered(x, y)
    BY <1>2, <1>3, <2>1, AlteredIs
  <2>3. QED  BY <2>1, <2>2, Zenon
<1>5. QED  BY <1>1, <1>3, <1>4, StaysPut

LEMMA CommandEofRuns ==
    ASSUME RunType, RunInv, CommandEof
    PROVE  RunType' /\ RunInv'
<1>1. /\ phase = "stopped" /\ mode' = mode /\ run' = run /\ phase' = "running" /\ d' = d
      /\ goal' = Goal(run.pos, "any", goal.born)
  BY Zenon DEF CommandEof
<1>2. IsDebugState(d') /\ IsNumbered(goal.born, Nat)
  BY <1>1, RunTypeIs DEF IsGoal
<1>3. Follows(T, Fr, run.pos, d', goal.born)
  BY <1>1, StoppedAt
<1>4. "any" \in Commands /\ Resumption(d, d', "any", Here.id)
  BY DEF Commands, Resumption
<1>5. PICK b, cmd : b = goal.born /\ cmd = "any"
  OBVIOUS
<1>6. /\ IsNumbered(b, Nat) /\ Follows(T, Fr, run.pos, d', b) /\ cmd \in Commands
      /\ goal' = Goal(run.pos, cmd, b) /\ Resumption(d, d', cmd, Here.id)
  BY <1>1, <1>2, <1>3, <1>4, <1>5, Zenon
<1>7. QED  BY <1>1, <1>2, <1>6, GoesOn

LEMMA AltersRun ==
    ASSUME RunType, IsDebugState(d'), Edited(d, d') \/ d' = d
    PROVE  Altered(d, d')
<1>1. PICK x, y : x = d /\ y = d'
  OBVIOUS
<1>2. IsDebugState(x)
  BY <1>1, RunTypeIs
<1>3. Edited(x, y)
  <2>1. CASE y = x
    BY <1>2, <2>1, EditedItself
  <2>2. QED  BY <1>1, <2>1, Zenon
<1>4. Altered(x, y)
  BY <1>2, <1>3, AlteredIs
<1>5. QED  BY <1>1, <1>4, Zenon

LEMMA MarkedRun ==
    ASSUME RunType, EditorType, inbox # <<>>, Marked(Head(inbox), d, d')
    PROVE  IsDebugState(d') /\ Edited(d, d')
<1>1. PICK r, x, y : r = Head(inbox) /\ x = d /\ y = d'
  OBVIOUS
<1>2. inbox \in Seq(EditorRequests)
  BY Zenon DEF EditorType
<1>3. r \in EditorRequests
  BY <1>1, <1>2, HeadIn
<1>4. IsDebugState(x) /\ Marked(r, x, y)
  BY <1>1, RunTypeIs
<1>5. IsDebugState(y) /\ Edited(x, y)
  BY <1>3, <1>4, MarkedIs
<1>6. QED  BY <1>1, <1>5, Zenon

LEMMA CommandRuns ==
    ASSUME RunType, RunInv, EditorType, LiveInv, CommandRequest
    PROVE  RunType' /\ RunInv'
<1>1. /\ Reads /\ run' = run
      /\ CmGoes \/ CmPauses \/ CmLeaves \/ CmFinishes \/ CmConfigures \/ CmAnswers
  BY CommandStep
<1>2. phase = "stopped" /\ mode' = mode /\ inbox # <<>>
  BY <1>1, Zenon DEF Reads, CommandRequest
<1>3. ASSUME NEW cmd, cmd = Asked(Head(inbox).k), Proceeding(cmd, d'), Resuming
      PROVE  RunType' /\ RunInv'
  <2>1. phase' = "running" /\ goal' = Goal(run.pos, cmd, Born(d', run.pos))
    BY <1>3, Zenon DEF Resuming
  <2>2. QED  BY <1>1, <1>2, <1>3, <2>1, Proceeded
<1>4. ASSUME IsDebugState(d'), Edited(d, d') \/ d' = d, Staying
      PROVE  RunType' /\ RunInv'
  <2>1. phase' = "stopped" /\ goal' = [goal EXCEPT !.born = Born(d', run.pos)]
    BY <1>4, Zenon DEF Staying
  <2>2. Altered(d, d')
    BY <1>4, AltersRun
  <2>3. QED  BY <1>1, <1>2, <1>4, <2>1, <2>2, StaysPut
<1>5. PICK k, cmd : k = Head(inbox).k /\ cmd = Asked(Head(inbox).k)
  OBVIOUS
<1>6. CASE CmGoes
  <2>1. k \in StepKinds /\ d' = Stepped(k, d, Here.id) /\ Resuming
    BY <1>5, <1>6, Zenon DEF CmGoes
  <2>2. cmd = Asked(k)
    BY <1>5, Zenon
  <2>3. Proceeding(cmd, d')
    <3>1. CASE k = "stepIn"
      BY <2>1, <2>2, <3>1 DEF Asked, Stepped, Proceeding
    <3>2. CASE k = "stepOut"
      BY <2>1, <2>2, <3>2 DEF Asked, Stepped, Proceeding
    <3>3. CASE k = "next"
      BY <2>1, <2>2, <3>3 DEF Asked, Stepped, Proceeding
    <3>4. CASE k = "continue"
      BY <2>1, <2>2, <3>4 DEF Asked, Stepped, Proceeding
    <3>5. QED  BY <2>1, <3>1, <3>2, <3>3, <3>4 DEF StepKinds
  <2>4. QED  BY <1>3, <1>5, <2>1, <2>3, Zenon
<1>7. CASE CmPauses
  <2>1. k = "pause" /\ d' = pause(d) /\ Resuming
    BY <1>5, <1>7, Zenon DEF CmPauses
  <2>2. cmd = "in"
    BY <1>5, <2>1 DEF Asked
  <2>3. Proceeding(cmd, d')
    BY <2>1, <2>2, Zenon DEF Proceeding
  <2>4. QED  BY <1>3, <1>5, <2>1, <2>3, Zenon
<1>8. CASE CmLeaves
  <2>1. k = "disconnect" /\ d' = quit(d) /\ Resuming
    BY <1>5, <1>8, Zenon DEF CmLeaves
  <2>2. cmd = "quit"
    BY <1>5, <2>1 DEF Asked
  <2>3. Proceeding(cmd, d')
    BY <2>1, <2>2, Zenon DEF Proceeding
  <2>4. QED  BY <1>3, <1>5, <2>1, <2>3, Zenon
<1>9. CASE CmFinishes \/ CmConfigures
  <2>1. d' = d /\ Staying
    BY <1>9, Zenon DEF CmFinishes, CmConfigures
  <2>2. IsDebugState(d')
    BY <2>1, RunTypeIs
  <2>3. QED  BY <1>4, <2>1, <2>2, Zenon
<1>10. CASE CmAnswers
  <2>1. Marked(Head(inbox), d, d') /\ Staying
    BY <1>10, Zenon DEF CmAnswers
  <2>2. IsDebugState(d') /\ Edited(d, d')
    BY <1>2, <2>1, MarkedRun
  <2>3. QED  BY <1>4, <2>1, <2>2, Zenon
<1>11. QED  BY <1>1, <1>6, <1>7, <1>8, <1>9, <1>10

LEMMA HandshakeRuns ==
    ASSUME RunType, EditorType, HandshakeInv, Handshake
    PROVE  RunType' /\ RunInv'
<1>1. Reads /\ (HsInit \/ HsFailed \/ HsLaunched \/ HsAttached \/ HsConfigured \/ HsMarked)
  BY HandshakeStep
<1>2. mode' = mode /\ inbox # <<>>
  BY <1>1, Zenon DEF Reads
<1>3. IsDebugState(d) /\ IsDebugState(NewDebugState)
  BY RunTypeIs, FreshState DEF Fresh
<1>4. CASE HsInit \/ HsFailed \/ HsAttached \/ HsConfigured \/ HsMarked
  <2>1. phase' \in {"handshake", "idle", "ended"} /\ run' = run /\ goal' = goal
    <3>1. (phase' = "handshake" \/ phase' = "idle") /\ run' = run /\ goal' = goal
      BY <1>4, Zenon DEF HsInit, HsFailed, HsAttached, HsConfigured, HsMarked, Waiting
    <3>2. QED  BY <3>1
  <2>2. IsDebugState(d')
    <3>1. CASE HsMarked
      <4>1. Marked(Head(inbox), d, d')
        BY <3>1, Zenon DEF HsMarked
      <4>2. QED  BY <1>2, <4>1, MarkedRun
    <3>2. d' = d \/ d' = NewDebugState \/ HsMarked
      BY <1>4, Zenon DEF HsInit, HsFailed, HsAttached, HsConfigured
    <3>3. QED  BY <1>3, <3>1, <3>2, Zenon
  <2>3. QED  BY <1>2, <2>1, <2>2, Rests
<1>5. CASE HsLaunched
  <2>1. PICK x, b, cmd : x = NewDebugState /\ b = Unborn(x) /\ cmd = "in"
    OBVIOUS
  <2>2. d' = x /\ phase' = "running" /\ goal' = Goal(0, cmd, b) /\ \E k \in Debugged, h \in Runners : run' = Executing(h, <<k>>)
    BY <1>5, <2>1, Zenon DEF HsLaunched, Runners
  <2>3. PICK k \in Debugged, h \in Runners : run' = Executing(h, <<k>>)
    BY <2>2
  <2>4. PICK ks : ks = <<k>>
    OBVIOUS
  <2>5. k \in DOMAIN Calls
    BY ServerAssumption
  <2>6. ks \in Seq(DOMAIN Calls) /\ ks # <<>> /\ Len(ks) = 1
    BY <2>4, <2>5
  <2>7. Fresh(x, b) /\ x.state.k = "Start"
    BY <2>1, FreshState, Zenon
  <2>8. mode' \in {"cli", "launch", "attach"} /\ run' = Executing(h, ks) /\ Fresh(d', b) /\ d'.state.k = "Start"
    BY <1>2, <2>2, <2>3, <2>4, <2>7, Zenon DEF RunType
  <2>9. QED  BY <2>1, <2>2, <2>6, <2>8, Launches
<1>6. QED  BY <1>1, <1>4, <1>5

LEMMA HandshakeEofRuns ==
    ASSUME RunType, HandshakeEof
    PROVE  RunType' /\ RunInv'
<1>1. /\ mode' = mode /\ run' = run /\ goal' = goal /\ d' = NewDebugState
      /\ phase' = IF mode = "launch" THEN "ended" ELSE "idle"
  BY Zenon DEF HandshakeEof
<1>2. phase' \in {"handshake", "idle", "ended"}
  BY <1>1
<1>3. IsDebugState(d')
  BY <1>1, FreshState, Zenon DEF Fresh
<1>4. QED  BY <1>1, <1>2, <1>3, Rests

LEMMA TailIn ==
    ASSUME NEW S, NEW s \in Seq(S), s # <<>>
    PROVE  /\ Tail(s) \in Seq(S) /\ Len(s) \in Nat /\ Len(s) >= 1 /\ Len(Tail(s)) = Len(s) - 1
           /\ (Len(s) > 1 => Tail(s) # <<>>) /\ Head(s) = s[1]
           /\ \A i \in 1..Len(Tail(s)) : i + 1 \in 1..Len(s) /\ Tail(s)[i] = s[i + 1]
<1>1. Len(s) \in Nat /\ Len(s) >= 1
  BY EmptySeq
<1>2. Tail(s) \in Seq(S) /\ Len(Tail(s)) = Len(s) - 1 /\ Head(s) = s[1]
  OBVIOUS
<1>3. \A i \in 1..Len(Tail(s)) : Tail(s)[i] = s[i + 1]
  OBVIOUS
<1>4. \A i \in 1..Len(Tail(s)) : i + 1 \in 1..Len(s)
  BY <1>1, <1>2
<1>5. Len(s) > 1 => Tail(s) # <<>>
  <2>1. PICK t : t = Tail(s)
    OBVIOUS
  <2>2. t = <<>> => Len(t) = 0
    OBVIOUS
  <2>3. Len(t) = Len(s) - 1
    BY <1>2, <2>1
  <2>4. Len(s) > 1 => t # <<>>
    BY <1>1, <2>2, <2>3
  <2>5. QED  BY <2>1, <2>4, Zenon
<1>6. QED  BY <1>1, <1>2, <1>3, <1>4, <1>5

LEMMA CompleteRuns ==
    ASSUME RunType, RunInv, Complete
    PROVE  RunType' /\ RunInv'
<1>1. phase = "running" /\ mode' = mode
  BY Zenon DEF Complete
<1>2. run.ks # <<>> /\ (mode # "attach" => Len(run.ks) = 1)
  BY <1>1, RunInvIs, Zenon
<1>3. run.by \in Runners /\ run.ks \in Seq(DOMAIN Calls) /\ IsDebugState(d)
  BY RunTypeIs
<1>4. CASE Len(run.ks) > 1
  <2>1. PICK ks, b, by, cmd : ks = Tail(run.ks) /\ b = Unborn(d) /\ by = run.by /\ cmd = "go"
    OBVIOUS
  <2>2. run' = Executing(by, ks) /\ d' = reset_for_new_call(d) /\ goal' = Goal(0, cmd, b) /\ phase' = "running"
    BY <1>1, <1>4, <2>1, Zenon DEF Complete
  <2>3. ks \in Seq(DOMAIN Calls) /\ ks # <<>>
    BY <1>2, <1>3, <1>4, <2>1, TailIn
  <2>4. Fresh(d', b) /\ d'.state.k = "Continue"
    <3>1. PICK x, y : x = d /\ y = d'
      OBVIOUS
    <3>2. Fresh(y, b) /\ y.state.k = "Continue"
      BY <1>3, <2>1, <2>2, <3>1, FreshReset
    <3>3. QED  BY <3>1, <3>2, Zenon
  <2>5. mode' = "attach" /\ mode' \in {"cli", "launch", "attach"} /\ by \in Runners
    BY <1>1, <1>2, <1>3, <1>4, <2>1
  <2>6. QED  BY <2>1, <2>2, <2>3, <2>4, <2>5, Launches
<1>5. CASE ~ (Len(run.ks) > 1)
  <2>1. run' = NoRun /\ phase' = (IF mode = "attach" THEN "idle" ELSE "ended") /\ d' = d /\ goal' = goal
    BY <1>5, Zenon DEF Complete
  <2>2. phase' \in {"handshake", "idle", "ended"}
    BY <2>1
  <2>3. IsDebugState(d')
    BY <1>3, <2>1
  <2>4. QED  BY <1>1, <2>1, <2>2, <2>3, Rests
<1>6. QED  BY <1>4, <1>5

LEMMA RequestIs ==
    ASSUME SdkType, NEW c \in Clients, sdk[c].wire # <<>>
    PROVE  Request(c).ks \in Seq(DOMAIN Calls)
<1>1. PICK w, s, D : w = sdk[c].wire /\ s = Scripts[c] /\ D = DOMAIN Calls
  OBVIOUS
<1>2. w \in Seq(Numbers(c))
  BY <1>1 DEF SdkType, ClientStates
<1>3. Head(w) \in 1..Len(s)
  BY <1>1, <1>2, HeadIn DEF Numbers
<1>4. s \in Seq([m: STRING, ks: Seq(D)])
  BY <1>1, ServerAssumption, Zenon DEF Clients
<1>5. s[Head(w)] \in [m: STRING, ks: Seq(D)]
  <2>1. PICK R : R = [m: STRING, ks: Seq(D)]
    OBVIOUS
  <2>2. s \in Seq(R)
    BY <1>4, <2>1, Zenon
  <2>3. s[Head(w)] \in R
    BY <1>3, <2>2
  <2>4. QED  BY <2>1, <2>3, Zenon
<1>6. s[Head(w)].ks \in Seq(D)
  BY <1>5
<1>7. QED  BY <1>1, <1>6, Zenon DEF Request

LEMMA ServerStartRuns ==
    ASSUME RunType, SdkType, NEW c \in Clients, ServerStart(c)
    PROVE  RunType' /\ RunInv'
<1>1. PICK ks, b, cmd : ks = Request(c).ks /\ b = Unborn(d) /\ cmd = "go"
  OBVIOUS
<1>2. /\ mode = "attach" /\ mode' = mode /\ phase' = "running" /\ d' = reset_for_new_call(d)
      /\ run' = Executing(c, ks) /\ goal' = Goal(0, cmd, b) /\ sdk[c].wire # <<>> /\ Asks(c) = "call"
  BY <1>1, Zenon DEF ServerStart, Serves
<1>3. ks \in Seq(DOMAIN Calls)
  BY <1>1, <1>2, RequestIs
<1>4. ks # <<>>
  <2>1. "init" # "call"
    OBVIOUS
  <2>2. QED  BY <1>1, <1>2, <2>1, Zenon DEF Asks
<1>5. Fresh(d', b) /\ d'.state.k = "Continue"
  <2>1. PICK x, y : x = d /\ y = d'
    OBVIOUS
  <2>2. IsDebugState(x)
    BY <2>1, RunTypeIs
  <2>3. Fresh(y, b) /\ y.state.k = "Continue"
    BY <1>1, <1>2, <2>1, <2>2, FreshReset
  <2>4. QED  BY <2>1, <2>3, Zenon
<1>6. c \in Runners
  BY Zenon DEF Runners
<1>7. mode' = "attach" /\ mode' \in {"cli", "launch", "attach"}
  BY <1>2
<1>8. QED  BY <1>1, <1>2, <1>3, <1>4, <1>5, <1>6, <1>7, Launches

LEMMA StateLevel ==
    ASSUME NEW q
    PROVE  /\ Open(q) = Fr[q] /\ ParentOf(q) = Parent(Fr, q)
           /\ \A a : IsOpen(a, q) <=> Opens(Fr, a, q)
           /\ \A i : At(i, q) <=> AtC(T, d.bps, i, q)
           /\ \A i : Hits(i, q) <=> HitsC(T, Fr, d.bps, goal.born, i, q)
           /\ \A r : FirstList(r, q) <=> FirstListC(T, r, q)
           /\ Resumed(q) = (goal.from + 1)..q
           /\ \A a, b : SameId(a, b) <=> T[a].id = T[b].id
<1>1. Open(q) = Fr[q]
  BY Zenon DEF Open, Fr
<1>2. ParentOf(q) = Parent(Fr, q)
  BY <1>1, Zenon DEF ParentOf, Parent
<1>3. \A a : IsOpen(a, q) <=> Opens(Fr, a, q)
  BY <1>1, Zenon DEF IsOpen, Opens
<1>4. \A i, r : At(i, r) <=> AtC(T, d.bps, i, r)
  BY Zenon DEF At, AtC
<1>5. \A i : Hits(i, q) <=> HitsC(T, Fr, d.bps, goal.born, i, q)
  BY <1>1, <1>4, Zenon DEF Hits, HitsC
<1>6. \A r : FirstList(r, q) <=> FirstListC(T, r, q)
  BY Zenon DEF FirstList, FirstListC
<1>7. Resumed(q) = (goal.from + 1)..q
  BY Zenon DEF Resumed
<1>8. \A a, b : SameId(a, b) <=> T[a].id = T[b].id
  BY Zenon DEF SameId
<1>9. QED  BY <1>1, <1>2, <1>3, <1>4, <1>5, <1>6, <1>7, <1>8, Zenon

LEMMA MustStopIs ==
    ASSUME NEW q, MustStop(q)
    PROVE  goal.cmd \notin {"any", "quit"} /\ T[q].list /\ MustC(T, Fr, q, d, goal)
<1>1. goal.cmd \notin {"any", "quit"} /\ T[q].list
  BY Zenon DEF MustStop
<1>2. CASE \E i \in DOMAIN d.bps, r \in Resumed(q) : Hits(i, r) /\ FirstList(r, q)
  <2>1. PICK i \in DOMAIN d.bps, r \in Resumed(q) : Hits(i, r) /\ FirstList(r, q)
    BY <1>2
  <2>2. r \in (goal.from + 1)..q /\ HitsC(T, Fr, d.bps, goal.born, i, r) /\ FirstListC(T, r, q)
    BY <2>1, StateLevel, Zenon
  <2>3. QED  BY <1>1, <2>2, Zenon DEF MustC
<1>3. CASE Watched(q)
  BY <1>1, <1>3, Zenon DEF MustC, Watched
<1>4. CASE goal.cmd = "in"
  BY <1>1, <1>4, Zenon DEF MustC
<1>5. CASE goal.cmd = "over" /\ \A j \in 1..Len(Open(q)) : ~ SameId(Open(q)[j], goal.from)
  BY <1>1, <1>5, StateLevel, Zenon DEF MustC
<1>6. CASE goal.cmd = "out" /\ ParentOf(goal.from) # 0 /\ ~ IsOpen(ParentOf(goal.from), q)
  BY <1>1, <1>6, StateLevel, Zenon DEF MustC
<1>7. QED  BY <1>2, <1>3, <1>4, <1>5, <1>6, Zenon DEF MustStop

LEMMA MayStopIs ==
    ASSUME NEW q, goal.cmd # "quit", T[q].list, MayC(T, Fr, q, d, goal)
    PROVE  MayStop(q)
<1>1. CASE goal.cmd \in {"any", "in"}
  BY <1>1, Zenon DEF MayStop
<1>2. CASE \E i \in DOMAIN d.bps, r \in (goal.from + 1)..q : AtC(T, d.bps, i, r) /\ FirstListC(T, r, q)
  <2>1. PICK i \in DOMAIN d.bps, r \in (goal.from + 1)..q : AtC(T, d.bps, i, r) /\ FirstListC(T, r, q)
    BY <1>2
  <2>2. r \in Resumed(q) /\ At(i, r) /\ FirstList(r, q)
    BY <2>1, StateLevel, Zenon
  <2>3. QED  BY <2>2, Zenon DEF MayStop
<1>3. CASE \E i \in DOMAIN d.wps : Watches(d.wps[i], T[q])
  BY <1>3, Zenon DEF MayStop, Watched
<1>4. CASE goal.cmd = "over" /\ ~ Opens(Fr, goal.from, q)
  BY <1>4, StateLevel, Zenon DEF MayStop
<1>5. CASE /\ goal.cmd = "out" /\ Parent(Fr, goal.from) # 0
           /\ \E a \in {Parent(Fr, goal.from), goal.from} \cup (goal.from + 1)..q :
                 T[a].ev = "begin" /\ ~ Opens(Fr, a, q) /\ T[a].id = T[Parent(Fr, goal.from)].id
  <2>1. ParentOf(goal.from) = Parent(Fr, goal.from)
    BY StateLevel, Zenon
  <2>2. PICK a \in {Parent(Fr, goal.from), goal.from} \cup (goal.from + 1)..q :
              T[a].ev = "begin" /\ ~ Opens(Fr, a, q) /\ T[a].id = T[Parent(Fr, goal.from)].id
    BY <1>5
  <2>3. a \in {ParentOf(goal.from), goal.from} \cup Resumed(q)
    <3>1. Resumed(q) = (goal.from + 1)..q
      BY StateLevel, Zenon
    <3>2. QED  BY <2>1, <2>2, <3>1, Zenon
  <2>4. ~ IsOpen(a, q) /\ SameId(a, ParentOf(goal.from))
    BY <2>1, <2>2, StateLevel, Zenon
  <2>5. QED  BY <1>5, <2>1, <2>2, <2>3, <2>4, Zenon DEF MayStop
<1>6. QED  BY <1>1, <1>2, <1>3, <1>4, <1>5, Zenon DEF MayC

\* StopsWhereAsked, for the step in which an expression begins.
LEMMA BeginStops ==
    ASSUME RunType, RunInv, Begin
    PROVE  /\ MustStop(run.pos + 1) => phase' = "stopped"
           /\ phase' = "stopped" => MayStop(run.pos + 1)
<1>1. Here' = T[run.pos + 1] /\ BeginOutcome
  BY BeginIs
<1>2. phase = "running" /\ run.pos < Len(T) /\ T[run.pos + 1].ev = "begin"
  BY Zenon DEF Begin
<1>3. /\ Step(T, Fr, run.pos, run.pos + 1) /\ Follows(T, Fr, run.pos, d, goal.born) /\ Pursues(T, Fr, run.pos, d, goal)
  BY <1>2, StepTaken
<1>4. PICK calls, F, p, q, g : calls = T /\ F = Fr /\ p = run.pos /\ q = run.pos + 1 /\ g = goal
  OBVIOUS
<1>5. PICK x, y, A, z, s :
        /\ x = d /\ y = d' /\ IsDebugState(y) /\ Strikes(x, calls[q], A, z) /\ Looks(x, calls[q], z, s) /\ Begun(x, calls[q], y, A, s)
        /\ phase' = IF x.state.k # "Quit" /\ calls[q].list /\ Waits(y) THEN "stopped" ELSE "running"
  BY <1>1, <1>4, Zenon DEF BeginOutcome
<1>6. IsDebugState(x) /\ IsGoal(g)
  BY <1>4, <1>5, RunTypeIs
<1>7. Step(calls, F, p, q) /\ calls[q].ev = "begin" /\ Follows(calls, F, p, x, g.born) /\ Pursues(calls, F, p, x, g)
  BY <1>2, <1>3, <1>4, <1>5, Zenon
<1>8. ASSUME MustStop(q) PROVE phase' = "stopped"
  <2>1. g.cmd \notin {"any", "quit"} /\ calls[q].list /\ MustC(calls, F, q, x, g)
    BY <1>4, <1>5, <1>8, MustStopIs, Zenon
  <2>2. x.state.k # "Quit" /\ Waits(y)
    BY <1>5, <1>6, <1>7, <2>1, StopMust
  <2>3. QED  BY <1>5, <2>1, <2>2, Zenon
<1>9. ASSUME phase' = "stopped" PROVE MayStop(q)
  <2>1. x.state.k # "Quit" /\ calls[q].list /\ Waits(y)
    BY <1>5, <1>9
  <2>2. g.cmd # "quit" /\ MayC(calls, F, q, x, g)
    BY <1>5, <1>6, <1>7, <2>1, StopMay
  <2>3. QED  BY <1>4, <1>5, <2>1, <2>2, MayStopIs, Zenon
<1>10. QED  BY <1>4, <1>8, <1>9, Zenon

-----------------------------------------------------------------------------
(* The clients: what each step makes of the parts of one. *)

Ordered(n, w, b) ==
    /\ Rising(b) /\ Rising(w)
    /\ \A i \in 1..Len(b), j \in 1..Len(w) : b[i] < w[j]
    /\ \A i \in 1..Len(b) : b[i] <= n
    /\ \A i \in 1..Len(w) : w[i] <= n
Within(w, p) == \A i \in 1..Len(w) : w[i] \in p
NoTimeout(N, g) == \A j \in 1..N : g[j] # 0
Alone(N, n, w, b, p, g) ==
    /\ p \subseteq {n}
    /\ \A j \in 1..N : j > n \/ j \in p => g[j] = -1
    /\ NoTimeout(N, g) => Within(b, p) /\ Within(w, p)
Own(c, N, g) ==
    \A id \in 1..N :
        g[id] > 0 => g[id] = id \/ (c \in Blocking /\ g[id] < id /\ \E j \in 1..(id - 1) : g[j] = 0)
Parts(N, n, w, b, p, g) == n \in 0..N /\ w \in Seq(1..N) /\ b \in Seq(1..N) /\ p \subseteq 1..N /\ g \in [1..N -> Int]

LEMMA OrderedMoved ==
    ASSUME NEW S, S \subseteq Nat, NEW n \in Nat, NEW w \in Seq(S), NEW b \in Seq(S), Ordered(n, w, b), w # <<>>,
           NEW v, v = Tail(w), NEW a, a = Append(b, Head(w))
    PROVE  /\ Ordered(n, v, a) /\ v \in Seq(S) /\ a \in Seq(S)
           /\ \A p : Within(w, p) /\ Within(b, p) => Within(v, p) /\ Within(a, p)
<1>1. /\ v \in Seq(S) /\ Len(w) \in Nat /\ Len(w) >= 1 /\ Len(v) = Len(w) - 1 /\ Head(w) = w[1]
      /\ \A i \in 1..Len(v) : i + 1 \in 1..Len(w) /\ v[i] = w[i + 1]
  BY TailIn
<1>2. w[1] \in S
  BY <1>1
<1>3. a \in Seq(S) /\ Len(b) \in Nat /\ Len(a) = Len(b) + 1 /\ a[Len(b) + 1] = w[1] /\ \A i \in 1..Len(b) : a[i] = b[i]
  BY <1>1, <1>2
<1>4. 1 \in 1..Len(w)
  BY <1>1
<1>6. \A i \in 1..Len(a) : i \in 1..Len(b) \/ i = Len(b) + 1
  BY <1>3
<1>7. /\ \A i, j \in 1..Len(w) : i < j => w[i] < w[j]
      /\ \A i, j \in 1..Len(b) : i < j => b[i] < b[j]
      /\ \A i \in 1..Len(b), j \in 1..Len(w) : b[i] < w[j]
      /\ \A i \in 1..Len(b) : b[i] <= n
      /\ \A i \in 1..Len(w) : w[i] <= n
  BY Zenon DEF Ordered, Rising
<1>8. Rising(v)
  BY <1>1, <1>7 DEF Rising
<1>9. Rising(a)
  BY <1>3, <1>4, <1>6, <1>7 DEF Rising
<1>10. \A i \in 1..Len(a), j \in 1..Len(v) : a[i] < v[j]
  BY <1>1, <1>3, <1>4, <1>6, <1>7
<1>11. (\A i \in 1..Len(a) : a[i] <= n) /\ (\A i \in 1..Len(v) : v[i] <= n)
  BY <1>1, <1>3, <1>4, <1>6, <1>7
<1>12. ASSUME NEW p, Within(w, p), Within(b, p) PROVE Within(v, p) /\ Within(a, p)
  BY <1>1, <1>3, <1>4, <1>6, <1>12 DEF Within
<1>13. QED  BY <1>1, <1>3, <1>8, <1>9, <1>10, <1>11, <1>12, Zenon DEF Ordered

\* A line or more is dropped, or none.
LEMMA Dropped ==
    ASSUME NEW S, NEW b \in Seq(S), NEW k \in 1..(Len(b) + 1), NEW a, a = SubSeq(b, k, Len(b))
    PROVE  /\ a \in Seq(S) /\ Len(a) \in Nat
           /\ \A i \in 1..Len(a) : k + i - 1 \in 1..Len(b) /\ a[i] = b[k + i - 1]
<1>1. Len(b) \in Nat
  OBVIOUS
<1>2. \A i \in k..Len(b) : b[i] \in S
  BY <1>1
<1>3. k \in Int /\ Len(b) \in Int
  BY <1>1
<1>4. /\ a \in Seq(S) /\ Len(a) = (IF k <= Len(b) THEN Len(b) - k + 1 ELSE 0)
      /\ \A i \in 1..(Len(b) - k + 1) : a[i] = b[k + i - 1]
  BY ONLY a = SubSeq(b, k, Len(b)), <1>2, <1>3, SubSeqProperties
<1>5. QED  BY <1>1, <1>4

LEMMA OrderedDropped ==
    ASSUME NEW S, S \subseteq Nat, NEW n \in Nat, NEW w, NEW b \in Seq(S), Ordered(n, w, b),
           NEW k \in 1..(Len(b) + 1), NEW a, a = SubSeq(b, k, Len(b))
    PROVE  /\ Ordered(n, w, a) /\ a \in Seq(S)
           /\ \A p : Within(b, p) => Within(a, p)
<1>1. /\ a \in Seq(S) /\ Len(a) \in Nat /\ Len(b) \in Nat
      /\ \A i \in 1..Len(a) : k + i - 1 \in 1..Len(b) /\ a[i] = b[k + i - 1]
  BY Dropped
<1>2. /\ Rising(w) /\ \A i, j \in 1..Len(b) : i < j => b[i] < b[j]
      /\ \A i \in 1..Len(b), j \in 1..Len(w) : b[i] < w[j]
      /\ \A i \in 1..Len(b) : b[i] <= n
      /\ \A i \in 1..Len(w) : w[i] <= n
  BY Zenon DEF Ordered, Rising
<1>3. \A i, j \in 1..Len(a) : i < j => k + i - 1 < k + j - 1
  BY <1>1
<1>4. Rising(a)
  BY <1>1, <1>2, <1>3, Zenon DEF Rising
<1>5. \A i \in 1..Len(a), j \in 1..Len(w) : a[i] < w[j]
  BY <1>1, <1>2, Zenon
<1>6. \A i \in 1..Len(a) : a[i] <= n
  BY <1>1, <1>2, Zenon
<1>7. \A p : Within(b, p) => Within(a, p)
  BY <1>1, Zenon DEF Within
<1>8. QED  BY <1>1, <1>2, <1>4, <1>5, <1>6, <1>7, Zenon DEF Ordered

LEMMA OrderedSent ==
    ASSUME NEW S, S \subseteq Nat, NEW n \in Nat, NEW w \in Seq(S), NEW b \in Seq(S), Ordered(n, w, b),
           NEW m \in S, m = n + 1, NEW v, v = Append(w, m)
    PROVE  Ordered(m, v, b)
<1>1. Len(w) \in Nat /\ Len(v) = Len(w) + 1 /\ v[Len(w) + 1] = m /\ \A i \in 1..Len(w) : v[i] = w[i]
  OBVIOUS
<1>2. /\ Rising(b) /\ \A i, j \in 1..Len(w) : i < j => w[i] < w[j]
      /\ \A i \in 1..Len(b), j \in 1..Len(w) : b[i] < w[j]
      /\ \A i \in 1..Len(b) : b[i] <= n
      /\ \A i \in 1..Len(w) : w[i] <= n
  BY Zenon DEF Ordered, Rising
<1>3. (\A i \in 1..Len(w) : w[i] \in Nat) /\ (\A i \in 1..Len(b) : b[i] \in Nat)
  <2>1. (\A i \in 1..Len(w) : w[i] \in S) /\ (\A i \in 1..Len(b) : b[i] \in S)
    OBVIOUS
  <2>2. QED  BY <2>1
<1>4. \A i \in 1..Len(v) : i \in 1..Len(w) \/ i = Len(w) + 1
  BY <1>1
<1>5. Rising(v)
  BY <1>1, <1>2, <1>3, <1>4 DEF Rising
<1>6. \A i \in 1..Len(b), j \in 1..Len(v) : b[i] < v[j]
  BY <1>1, <1>2, <1>3, <1>4
<1>7. (\A i \in 1..Len(b) : b[i] <= m) /\ (\A i \in 1..Len(v) : v[i] <= m)
  BY <1>1, <1>2, <1>3, <1>4
<1>8. QED  BY <1>2, <1>5, <1>6, <1>7, Zenon DEF Ordered

\* The answer to a request leaves the server.
LEMMA MovedParts ==
    ASSUME NEW c, NEW N \in Nat, NEW n, NEW w, NEW b, NEW p, NEW g, Parts(N, n, w, b, p, g), Ordered(n, w, b),
           c \in Blocking => Alone(N, n, w, b, p, g), w # <<>>,
           NEW v, v = Tail(w), NEW a, a = Append(b, Head(w))
    PROVE  Parts(N, n, v, a, p, g) /\ Ordered(n, v, a) /\ (c \in Blocking => Alone(N, n, v, a, p, g))
<1>1. PICK S : S = 1..N
  OBVIOUS
<1>2. S \subseteq Nat /\ n \in Nat /\ w \in Seq(S) /\ b \in Seq(S)
  <2>1. n \in 0..N /\ w \in Seq(S) /\ b \in Seq(S)
    BY <1>1, Zenon DEF Parts
  <2>2. QED  BY <1>1, <2>1
<1>3. /\ Ordered(n, v, a) /\ v \in Seq(S) /\ a \in Seq(S)
      /\ Within(w, p) /\ Within(b, p) => Within(v, p) /\ Within(a, p)
  BY <1>2, OrderedMoved
<1>4. QED  BY <1>1, <1>3, Zenon DEF Parts, Alone

SendStep(n, w, b, p, m, v, a, q) ==
    m = n + 1 /\ v = Append(w, m) /\ (\E k \in 1..(Len(b) + 1) : a = SubSeq(b, k, Len(b))) /\ q = p \cup {m}
Sendable(c, N, n, w, b, p, g) ==
    Parts(N, n, w, b, p, g) /\ Ordered(n, w, b) /\ (c \in Blocking => Alone(N, n, w, b, p, g) /\ p = {}) /\ n < N
\* A request is sent; what has arrived by then may be dropped, by the blocking client.
LEMMA SentParts ==
    ASSUME NEW c, NEW N \in Nat, NEW n, NEW w, NEW b, NEW p, NEW g, Sendable(c, N, n, w, b, p, g),
           NEW m, NEW v, NEW a, NEW q, SendStep(n, w, b, p, m, v, a, q)
    PROVE  Parts(N, m, v, a, q, g) /\ Ordered(m, v, a) /\ (c \in Blocking => Alone(N, m, v, a, q, g)) /\ v # <<>>
<1>a. PICK k \in 1..(Len(b) + 1) : a = SubSeq(b, k, Len(b))
  BY DEF SendStep
<1>b. m = n + 1 /\ v = Append(w, m) /\ q = p \cup {m}
  BY Zenon DEF SendStep
<1>c. Parts(N, n, w, b, p, g) /\ Ordered(n, w, b) /\ (c \in Blocking => Alone(N, n, w, b, p, g) /\ p = {}) /\ n < N
  BY Zenon DEF Sendable
<1>1. PICK S : S = 1..N
  OBVIOUS
<1>2. n \in 0..N /\ w \in Seq(S) /\ b \in Seq(S) /\ p \subseteq S /\ g \in [S -> Int]
  BY <1>1, <1>c, Zenon DEF Parts
<1>3. S \subseteq Nat /\ n \in Nat /\ m \in S /\ m \in 0..N
  BY <1>1, <1>2, <1>b, <1>c
<1>4. /\ Ordered(n, w, a) /\ a \in Seq(S)
      /\ Within(b, p) => Within(a, p)
  BY <1>2, <1>3, <1>a, <1>c, OrderedDropped
<1>5. v \in Seq(S) /\ v # <<>> /\ Len(w) \in Nat /\ Len(v) = Len(w) + 1 /\ v[Len(w) + 1] = m /\ \A i \in 1..Len(w) : v[i] = w[i]
  BY <1>2, <1>3, <1>b
<1>6. Ordered(m, v, a)
  BY <1>2, <1>3, <1>4, <1>b, OrderedSent
<1>7. Parts(N, m, v, a, q, g)
  <2>1. q \subseteq S
    BY <1>2, <1>3, <1>b
  <2>2. QED  BY <1>1, <1>2, <1>3, <1>4, <1>5, <2>1, Zenon DEF Parts
<1>8. ASSUME c \in Blocking PROVE Alone(N, m, v, a, q, g)
  <2>1. p = {} /\ q = {m} /\ (\A j \in 1..N : j > n => g[j] = -1) /\ (NoTimeout(N, g) => Within(b, p) /\ Within(w, p))
    BY <1>8, <1>b, <1>c, Zenon DEF Alone
  <2>2. \A j \in 1..N : j > m \/ j \in q => j > n
    BY <1>3, <1>b, <2>1
  <2>3. \A j \in 1..N : j > m \/ j \in q => g[j] = -1
    BY <2>1, <2>2, Zenon
  <2>4. ASSUME NoTimeout(N, g) PROVE Within(a, q) /\ Within(v, q)
    <3>1. Within(a, p) /\ Within(w, p)
      BY <1>4, <2>1, <2>4
    <3>2. Within(a, q)
      BY <2>1, <3>1, Zenon DEF Within
    <3>3. \A i \in 1..Len(v) : i \in 1..Len(w) \/ i = Len(w) + 1
      BY <1>5
    <3>4. Within(v, q)
      BY <1>5, <2>1, <3>1, <3>3, Zenon DEF Within
    <3>5. QED  BY <3>2, <3>4
  <2>5. QED  BY <2>1, <2>3, <2>4, Zenon DEF Alone
<1>9. QED  BY <1>5, <1>6, <1>7, <1>8

AnswerStep(b, p, g, id, a, h) ==
    id \in p /\ (\E k \in 2..(Len(b) + 1) : a = SubSeq(b, k, Len(b))) /\ h = [g EXCEPT ![id] = Head(b)]
\* The blocking client takes the first line as the answer to the only request that it has.
LEMMA AnsweredParts ==
    ASSUME NEW c, c \in Blocking, NEW N \in Nat, NEW n, NEW w, NEW b, NEW p, NEW g, Parts(N, n, w, b, p, g), Ordered(n, w, b),
           Alone(N, n, w, b, p, g), Own(c, N, g), b # <<>>, NEW id, NEW a, NEW h, AnswerStep(b, p, g, id, a, h)
    PROVE  Parts(N, n, w, a, {}, h) /\ Ordered(n, w, a) /\ Alone(N, n, w, a, {}, h) /\ Own(c, N, h)
<1>a. PICK k \in 2..(Len(b) + 1) : a = SubSeq(b, k, Len(b))
  BY DEF AnswerStep
<1>b. id \in p /\ h = [g EXCEPT ![id] = Head(b)]
  BY Zenon DEF AnswerStep
<1>1. PICK S, e : S = 1..N /\ e = Head(b)
  OBVIOUS
<1>2. n \in 0..N /\ w \in Seq(S) /\ b \in Seq(S) /\ p \subseteq S /\ g \in [S -> Int]
  BY <1>1, Zenon DEF Parts
<1>3. S \subseteq Nat /\ n \in Nat /\ id = n /\ id \in S /\ p = {id}
  <2>1. p \subseteq {n}
    BY Zenon DEF Alone
  <2>2. id = n /\ id \in S /\ p = {id}
    BY <1>2, <1>b, <2>1
  <2>3. QED  BY <1>1, <1>2, <2>2
<1>4. Len(b) \in Nat /\ Len(b) >= 1 /\ e = b[1] /\ e \in S /\ 1 \in 1..Len(b)
  <2>1. Len(b) \in Nat /\ Len(b) >= 1 /\ e = b[1]
    BY <1>1, <1>2, TailIn
  <2>2. 1 \in 1..Len(b)
    BY <2>1
  <2>3. QED  BY <1>2, <2>1, <2>2
<1>5. k \in 1..(Len(b) + 1)
  BY <1>4
<1>6. Ordered(n, w, a) /\ a \in Seq(S)
  BY <1>2, <1>3, <1>5, <1>a, OrderedDropped
<1>7. h \in [S -> Int] /\ h[id] = e /\ \A j \in S : j # id => h[j] = g[j]
  <2>1. e \in Int
    BY <1>1, <1>4
  <2>2. QED  BY <1>1, <1>2, <1>3, <1>b, <2>1
<1>8. Parts(N, n, w, a, {}, h)
  BY <1>1, <1>2, <1>6, <1>7, Zenon DEF Parts
<1>9. /\ \A j \in S : j > n \/ j \in p => g[j] = -1
      /\ NoTimeout(N, g) => Within(b, p) /\ Within(w, p)
  BY <1>1, Zenon DEF Alone
<1>10. g[id] = -1
  BY <1>3, <1>9, Zenon
<1>11. Alone(N, n, w, a, {}, h)
  <2>1. \A j \in S : j > n => h[j] = -1
    BY <1>3, <1>7, <1>9
  <2>2. ASSUME NoTimeout(N, h) PROVE Within(a, {}) /\ Within(w, {})
    <3>1. NoTimeout(N, g)
      <4>1. -1 # 0
        OBVIOUS
      <4>2. QED  BY <1>1, <1>7, <1>10, <2>2, <4>1, Zenon DEF NoTimeout
    <3>2. (\A i \in 1..Len(b) : b[i] = id) /\ (\A i \in 1..Len(w) : w[i] = id)
      BY <1>3, <1>9, <3>1 DEF Within
    <3>3. \A i \in 1..Len(b), j \in 1..Len(w) : b[i] < w[j]
      BY Zenon DEF Ordered
    <3>4. ~ (id < id)
      BY <1>3
    <3>5. Within(w, {})
      BY <1>4, <3>2, <3>3, <3>4, Zenon DEF Within
    <3>6. \A i \in 1..Len(a) : k + i - 1 \in 1..Len(b)
      BY <1>2, <1>5, <1>a, Dropped
    <3>7. ASSUME NEW i \in 1..Len(a) PROVE FALSE
      <4>1. PICK m : m = k + i - 1
        OBVIOUS
      <4>2. m \in 1..Len(b) /\ 1 < m
        BY <1>4, <3>6, <4>1
      <4>3. b[1] < b[m]
        BY <1>4, <4>2, Zenon DEF Ordered, Rising
      <4>4. QED  BY <1>4, <3>2, <3>4, <4>2, <4>3, Zenon
    <3>8. Within(a, {})
      BY <3>7, Zenon DEF Within
    <3>9. QED  BY <3>5, <3>8
  <2>3. QED  BY <1>1, <2>1, <2>2, Zenon DEF Alone
<1>12. ASSUME NEW j \in S, g[j] = 0 PROVE j # id /\ h[j] = 0 /\ j < n
  <2>1. ~ (j > n) /\ j # id
    BY <1>3, <1>9, <1>12
  <2>2. QED  BY <1>3, <1>7, <1>12, <2>1
<1>13. Own(c, N, h)
  <2>1. SUFFICES ASSUME NEW i \in S, h[i] > 0, h[i] # i
                 PROVE  h[i] < i /\ \E j \in 1..(i - 1) : h[j] = 0
    BY <1>1, Zenon DEF Own
  <2>2. CASE i = id
    <3>1. e <= n /\ e < i
      <4>1. b[1] <= n
        BY <1>4, Zenon DEF Ordered
      <4>2. QED  BY <1>3, <1>4, <1>7, <2>1, <2>2, <4>1
    <3>2. ~ Within(b, p)
      BY <1>3, <1>4, <1>7, <2>1, <2>2, Zenon DEF Within
    <3>3. PICK j \in S : g[j] = 0
      BY <1>1, <1>9, <3>2, Zenon DEF NoTimeout
    <3>4. h[j] = 0 /\ j < n
      BY <1>12, <3>3
    <3>5. j \in 1..(i - 1)
      BY <1>1, <1>3, <2>2, <3>3, <3>4
    <3>6. QED  BY <1>7, <2>2, <3>1, <3>4, <3>5
  <2>3. CASE i # id
    <3>1. h[i] = g[i]
      BY <1>7, <2>3
    <3>2. g[i] < i /\ \E j \in 1..(i - 1) : g[j] = 0
      BY <1>1, <2>1, <3>1, Zenon DEF Own
    <3>3. PICK j \in 1..(i - 1) : g[j] = 0
      BY <3>2
    <3>4. j \in S
      BY <1>1
    <3>5. h[j] = 0
      BY <1>12, <3>3, <3>4
    <3>6. QED  BY <3>1, <3>2, <3>5
  <2>4. QED  BY <2>2, <2>3
<1>14. QED  BY <1>6, <1>8, <1>11, <1>13

\* The blocking client gives up.
LEMMA TimedOutParts ==
    ASSUME NEW c, NEW N \in Nat, NEW n, NEW w, NEW b, NEW p, NEW g, Parts(N, n, w, b, p, g),
           Alone(N, n, w, b, p, g), Own(c, N, g), NEW id \in p, NEW h, h = [g EXCEPT ![id] = 0]
    PROVE  Parts(N, n, w, b, {}, h) /\ Alone(N, n, w, b, {}, h) /\ Own(c, N, h)
<1>1. PICK S : S = 1..N
  OBVIOUS
<1>2. n \in 0..N /\ w \in Seq(S) /\ b \in Seq(S) /\ p \subseteq S /\ g \in [S -> Int]
  BY <1>1, Zenon DEF Parts
<1>3. n \in Nat /\ id = n /\ id \in S
  BY <1>1, <1>2 DEF Alone
<1>4. h \in [S -> Int] /\ h[id] = 0 /\ \A j \in S : j # id => h[j] = g[j]
  BY <1>1, <1>2, <1>3
<1>5. Parts(N, n, w, b, {}, h)
  BY <1>1, <1>2, <1>4, Zenon DEF Parts
<1>6. Alone(N, n, w, b, {}, h)
  <2>1. \A j \in S : j > n => g[j] = -1
    BY <1>1, Zenon DEF Alone
  <2>2. \A j \in S : j > n => h[j] = -1
    BY <1>1, <1>3, <1>4, <2>1
  <2>3. ~ NoTimeout(N, h)
    BY <1>1, <1>3, <1>4, Zenon DEF NoTimeout
  <2>4. QED  BY <1>1, <2>2, <2>3, Zenon DEF Alone
<1>7. Own(c, N, h)
  <2>1. SUFFICES ASSUME NEW i \in S, h[i] > 0, h[i] # i
                 PROVE  c \in Blocking /\ h[i] < i /\ \E j \in 1..(i - 1) : h[j] = 0
    BY <1>1, Zenon DEF Own
  <2>2. i # id
    BY <1>4, <2>1
  <2>3. h[i] = g[i]
    BY <1>4, <2>2
  <2>4. c \in Blocking /\ g[i] < i /\ \E j \in 1..(i - 1) : g[j] = 0
    BY <1>1, <2>1, <2>3, Zenon DEF Own
  <2>5. PICK j \in 1..(i - 1) : g[j] = 0
    BY <2>4
  <2>6. j \in S
    BY <1>1
  <2>7. h[j] = 0
    BY <1>4, <2>5, <2>6
  <2>8. QED  BY <2>3, <2>4, <2>7
<1>8. QED  BY <1>5, <1>6, <1>7

\* The other client looks the number of the answer up.
LEMMA LookedUpParts ==
    ASSUME NEW c, NEW N \in Nat, NEW n, NEW w, NEW b, NEW p, NEW g, Parts(N, n, w, b, p, g), Ordered(n, w, b),
           Own(c, N, g), c \notin Blocking, b # <<>>, NEW id, id = Head(b), NEW a, a = Tail(b), NEW h, h = [g EXCEPT ![id] = id]
    PROVE  Parts(N, n, w, a, p \ {id}, h) /\ Ordered(n, w, a) /\ Own(c, N, h)
<1>1. PICK S : S = 1..N
  OBVIOUS
<1>2. n \in 0..N /\ w \in Seq(S) /\ b \in Seq(S) /\ p \subseteq S /\ g \in [S -> Int]
  BY <1>1, Zenon DEF Parts
<1>3. /\ a \in Seq(S) /\ Len(b) \in Nat /\ Len(b) >= 1 /\ id = b[1]
      /\ \A i \in 1..Len(a) : i + 1 \in 1..Len(b) /\ a[i] = b[i + 1]
  BY <1>2, TailIn
<1>4. id \in S /\ id \in Int
  <2>1. 1 \in 1..Len(b)
    BY <1>3
  <2>2. id \in S
    BY <1>2, <1>3, <2>1
  <2>3. QED  BY <1>1, <2>2
<1>5. h \in [S -> Int] /\ h[id] = id /\ \A j \in S : j # id => h[j] = g[j]
  BY <1>2, <1>4
<1>6. Parts(N, n, w, a, p \ {id}, h)
  <2>1. p \ {id} \subseteq S
    BY <1>2
  <2>2. QED  BY <1>1, <1>2, <1>3, <1>5, <2>1, Zenon DEF Parts
<1>7. /\ Rising(w) /\ \A i, j \in 1..Len(b) : i < j => b[i] < b[j]
      /\ \A i \in 1..Len(b), j \in 1..Len(w) : b[i] < w[j]
      /\ \A i \in 1..Len(b) : b[i] <= n
      /\ \A i \in 1..Len(w) : w[i] <= n
  BY Zenon DEF Ordered, Rising
<1>8. \A i, j \in 1..Len(a) : i < j => i + 1 < j + 1
  BY <1>3
<1>9. Rising(a)
  BY <1>3, <1>7, <1>8, Zenon DEF Rising
<1>10. (\A i \in 1..Len(a), j \in 1..Len(w) : a[i] < w[j]) /\ (\A i \in 1..Len(a) : a[i] <= n)
  BY <1>3, <1>7, Zenon
<1>11. Ordered(n, w, a)
  BY <1>7, <1>9, <1>10, Zenon DEF Ordered
<1>12. Own(c, N, h)
  <2>1. SUFFICES ASSUME NEW i \in S, h[i] > 0 PROVE h[i] = i
    BY <1>1, Zenon DEF Own
  <2>2. CASE i = id
    BY <1>5, <2>2
  <2>3. CASE i # id
    BY <1>1, <1>5, <2>1, <2>3, Zenon DEF Own
  <2>4. QED  BY <2>2, <2>3
<1>13. QED  BY <1>6, <1>11, <1>12

Cl(n, w, b, p, g) == [sent |-> n, wire |-> w, back |-> b, pending |-> p, got |-> g]
Good(c, N, n, w, b, p, g) ==
    /\ Parts(N, n, w, b, p, g) /\ Ordered(n, w, b) /\ Own(c, N, g)
    /\ c \in Blocking => Alone(N, n, w, b, p, g)
ClientOK(c, s) ==
    /\ s \in ClientStates(c) /\ InOrder(s)
    /\ c \in Blocking => OneAtATime(s, Numbers(c))
    /\ Own(c, Len(Scripts[c]), s.got)
OnClients(f) == f = [o \in Clients |-> f[o]]
SdkOK == OnClients(sdk) /\ \A c \in Clients : ClientOK(c, sdk[c])

LEMMA ScriptLength ==
    ASSUME NEW c \in Clients
    PROVE  Len(Scripts[c]) \in Nat
<1>1. Scripts[c] \in Seq([m: STRING, ks: Seq(DOMAIN Calls)])
  BY ServerAssumption, Zenon DEF Clients
<1>2. QED  BY <1>1

LEMMA ClientIs ==
    ASSUME NEW c \in Clients, NEW s, ClientOK(c, s)
    PROVE  \E N, n, w, b, p, g : N \in Nat /\ N = Len(Scripts[c]) /\ s = Cl(n, w, b, p, g) /\ Good(c, N, n, w, b, p, g)
<1>1. PICK N \in Nat : N = Len(Scripts[c])
  BY ScriptLength
<1>2. PICK S : S = 1..N
  OBVIOUS
<1>3. s \in [sent: 0..N, wire: Seq(S), back: Seq(S), pending: SUBSET S, got: [S -> Int]]
  BY <1>1, <1>2, Zenon DEF ClientOK, ClientStates, Numbers
<1>4. PICK n, w, b, p, g : n = s.sent /\ w = s.wire /\ b = s.back /\ p = s.pending /\ g = s.got
  OBVIOUS
<1>5. s = Cl(n, w, b, p, g) /\ n \in 0..N /\ w \in Seq(S) /\ b \in Seq(S) /\ p \subseteq S /\ g \in [S -> Int]
  BY <1>3, <1>4 DEF Cl
<1>6. Parts(N, n, w, b, p, g)
  BY <1>2, <1>5, Zenon DEF Parts
<1>7. Ordered(n, w, b)
  BY <1>4, Zenon DEF ClientOK, InOrder, Ordered
<1>8. Own(c, N, g)
  BY <1>1, <1>4, Zenon DEF ClientOK
<1>9. ASSUME c \in Blocking PROVE Alone(N, n, w, b, p, g)
  BY <1>1, <1>4, <1>9, Zenon DEF ClientOK, OneAtATime, Alone, NoTimeout, Within, Numbers
<1>10. QED  BY <1>1, <1>5, <1>6, <1>7, <1>8, <1>9, Zenon DEF Good

LEMMA ClientFrom ==
    ASSUME NEW c \in Clients, NEW N, N = Len(Scripts[c]), NEW n, NEW w, NEW b, NEW p, NEW g, Good(c, N, n, w, b, p, g),
           NEW s, s = Cl(n, w, b, p, g)
    PROVE  ClientOK(c, s)
<1>1. PICK S : S = 1..N
  OBVIOUS
<1>2. n \in 0..N /\ w \in Seq(S) /\ b \in Seq(S) /\ p \subseteq S /\ g \in [S -> Int]
  BY <1>1, Zenon DEF Good, Parts
<1>3. n = s.sent /\ w = s.wire /\ b = s.back /\ p = s.pending /\ g = s.got
  BY DEF Cl
<1>4. s \in [sent: 0..N, wire: Seq(S), back: Seq(S), pending: SUBSET S, got: [S -> Int]]
  BY <1>2 DEF Cl
<1>5. s \in ClientStates(c)
  BY <1>1, <1>4, Zenon DEF ClientStates, Numbers
<1>6. InOrder(s)
  BY <1>3, Zenon DEF Good, InOrder, Ordered
<1>7. ASSUME c \in Blocking PROVE OneAtATime(s, Numbers(c))
  BY <1>3, <1>7, Zenon DEF Good, OneAtATime, Alone, NoTimeout, Within, Numbers
<1>8. QED  BY <1>3, <1>5, <1>6, <1>7, Zenon DEF Good, ClientOK

\* One client is another; the others are as they were.
Only(f, h, c, s) == OnClients(h) /\ h[c] = s /\ \A o \in Clients : o # c => h[o] = f[o]

LEMMA OneOnly ==
    ASSUME NEW f, OnClients(f), NEW c \in Clients, NEW s, NEW h, h = [f EXCEPT ![c] = s]
    PROVE  Only(f, h, c, s)
  BY DEF OnClients, Only
LEMMA OnlyTwice ==
    ASSUME NEW f, NEW h, NEW k, NEW c \in Clients, NEW s, NEW t, Only(f, h, c, s), Only(h, k, c, t)
    PROVE  Only(f, k, c, t)
  BY Zenon DEF Only
LEMMA FieldOnly ==
    ASSUME NEW f, OnClients(f), NEW c \in Clients, NEW n, NEW w, NEW b, NEW p, NEW g, f[c] = Cl(n, w, b, p, g), NEW v, NEW i
    PROVE  /\ Only(f, [f EXCEPT ![c].sent = v], c, Cl(v, w, b, p, g))
           /\ Only(f, [f EXCEPT ![c].wire = v], c, Cl(n, v, b, p, g))
           /\ Only(f, [f EXCEPT ![c].back = v], c, Cl(n, w, v, p, g))
           /\ Only(f, [f EXCEPT ![c].pending = v], c, Cl(n, w, b, v, g))
           /\ Only(f, [f EXCEPT ![c].got[i] = v], c, Cl(n, w, b, p, [g EXCEPT ![i] = v]))
<1>1. /\ [f[c] EXCEPT !.sent = v] = Cl(v, w, b, p, g)
      /\ [f[c] EXCEPT !.wire = v] = Cl(n, v, b, p, g)
      /\ [f[c] EXCEPT !.back = v] = Cl(n, w, v, p, g)
      /\ [f[c] EXCEPT !.pending = v] = Cl(n, w, b, v, g)
      /\ [f[c] EXCEPT !.got = [g EXCEPT ![i] = v]] = Cl(n, w, b, p, [g EXCEPT ![i] = v])
  BY DEF Cl
<1>2. f[c].got = g
  BY DEF Cl
<1>3. /\ [f EXCEPT ![c].sent = v] = [f EXCEPT ![c] = Cl(v, w, b, p, g)]
      /\ [f EXCEPT ![c].wire = v] = [f EXCEPT ![c] = Cl(n, v, b, p, g)]
      /\ [f EXCEPT ![c].back = v] = [f EXCEPT ![c] = Cl(n, w, v, p, g)]
      /\ [f EXCEPT ![c].pending = v] = [f EXCEPT ![c] = Cl(n, w, b, v, g)]
      /\ [f EXCEPT ![c].got[i] = v] = [f EXCEPT ![c] = Cl(n, w, b, p, [g EXCEPT ![i] = v])]
  BY <1>1, <1>2, Zenon
<1>4. QED  BY <1>3, OneOnly

LEMMA SetSentOnly ==
    ASSUME NEW f, OnClients(f), NEW c \in Clients, NEW n, NEW w, NEW b, NEW p, NEW g, f[c] = Cl(n, w, b, p, g), NEW v,
           NEW h, h = [f EXCEPT ![c].sent = v]
    PROVE  Only(f, h, c, Cl(v, w, b, p, g))
  BY FieldOnly
LEMMA SetWireOnly ==
    ASSUME NEW f, OnClients(f), NEW c \in Clients, NEW n, NEW w, NEW b, NEW p, NEW g, f[c] = Cl(n, w, b, p, g), NEW v,
           NEW h, h = [f EXCEPT ![c].wire = v]
    PROVE  Only(f, h, c, Cl(n, v, b, p, g))
  BY FieldOnly
LEMMA SetBackOnly ==
    ASSUME NEW f, OnClients(f), NEW c \in Clients, NEW n, NEW w, NEW b, NEW p, NEW g, f[c] = Cl(n, w, b, p, g), NEW v,
           NEW h, h = [f EXCEPT ![c].back = v]
    PROVE  Only(f, h, c, Cl(n, w, v, p, g))
  BY FieldOnly
LEMMA SetPendingOnly ==
    ASSUME NEW f, OnClients(f), NEW c \in Clients, NEW n, NEW w, NEW b, NEW p, NEW g, f[c] = Cl(n, w, b, p, g), NEW v,
           NEW h, h = [f EXCEPT ![c].pending = v]
    PROVE  Only(f, h, c, Cl(n, w, b, v, g))
  BY FieldOnly
LEMMA SetGotOnly ==
    ASSUME NEW f, OnClients(f), NEW c \in Clients, NEW n, NEW w, NEW b, NEW p, NEW g, f[c] = Cl(n, w, b, p, g), NEW v, NEW i,
           NEW h, h = [f EXCEPT ![c].got[i] = v]
    PROVE  Only(f, h, c, Cl(n, w, b, p, [g EXCEPT ![i] = v]))
  BY FieldOnly

LEMMA MovedOnly ==
    ASSUME NEW f, OnClients(f), NEW c \in Clients, NEW n, NEW w, NEW b, NEW p, NEW g, f[c] = Cl(n, w, b, p, g), NEW v, NEW a,
           NEW h, h = [f EXCEPT ![c].wire = v, ![c].back = a]
    PROVE  Only(f, h, c, Cl(n, v, a, p, g))
<1>1. PICK k : k = [f EXCEPT ![c].wire = v]
  OBVIOUS
<1>2. h = [k EXCEPT ![c].back = a]
  BY <1>1, Zenon
<1>3. Only(f, k, c, Cl(n, v, b, p, g))
  BY <1>1, SetWireOnly
<1>4. OnClients(k) /\ k[c] = Cl(n, v, b, p, g)
  BY <1>3, Zenon DEF Only
<1>5. Only(k, h, c, Cl(n, v, a, p, g))
  BY <1>2, <1>4, SetBackOnly
<1>6. QED  BY <1>3, <1>5, OnlyTwice
LEMMA TimedOutOnly ==
    ASSUME NEW f, OnClients(f), NEW c \in Clients, NEW n, NEW w, NEW b, NEW p, NEW g, f[c] = Cl(n, w, b, p, g),
           NEW q, NEW i, NEW e, NEW h, h = [f EXCEPT ![c].pending = q, ![c].got[i] = e]
    PROVE  Only(f, h, c, Cl(n, w, b, q, [g EXCEPT ![i] = e]))
<1>1. PICK k : k = [f EXCEPT ![c].pending = q]
  OBVIOUS
<1>2. h = [k EXCEPT ![c].got[i] = e]
  BY <1>1, Zenon
<1>3. Only(f, k, c, Cl(n, w, b, q, g))
  BY <1>1, SetPendingOnly
<1>4. OnClients(k) /\ k[c] = Cl(n, w, b, q, g)
  BY <1>3, Zenon DEF Only
<1>5. Only(k, h, c, Cl(n, w, b, q, [g EXCEPT ![i] = e]))
  BY <1>2, <1>4, SetGotOnly
<1>6. QED  BY <1>3, <1>5, OnlyTwice
LEMMA AnsweredOnly ==
    ASSUME NEW f, OnClients(f), NEW c \in Clients, NEW n, NEW w, NEW b, NEW p, NEW g, f[c] = Cl(n, w, b, p, g), NEW a,
           NEW q, NEW i, NEW e, NEW h, h = [f EXCEPT ![c].pending = q, ![c].got[i] = e, ![c].back = a]
    PROVE  Only(f, h, c, Cl(n, w, a, q, [g EXCEPT ![i] = e]))
<1>1. PICK k, x : k = [f EXCEPT ![c].pending = q, ![c].got[i] = e] /\ x = [g EXCEPT ![i] = e]
  OBVIOUS
<1>2. h = [k EXCEPT ![c].back = a]
  BY <1>1, Zenon
<1>3. Only(f, k, c, Cl(n, w, b, q, x))
  BY <1>1, TimedOutOnly
<1>4. OnClients(k) /\ k[c] = Cl(n, w, b, q, x)
  BY <1>3, Zenon DEF Only
<1>5. Only(k, h, c, Cl(n, w, a, q, x))
  BY <1>2, <1>4, SetBackOnly
<1>6. Only(f, h, c, Cl(n, w, a, q, x))
  BY <1>3, <1>5, OnlyTwice
<1>7. QED  BY <1>1, <1>6
LEMMA SentOnly ==
    ASSUME NEW f, OnClients(f), NEW c \in Clients, NEW n, NEW w, NEW b, NEW p, NEW g, f[c] = Cl(n, w, b, p, g), NEW v, NEW a,
           NEW m, NEW q, NEW h, h = [f EXCEPT ![c].sent = m, ![c].wire = v, ![c].pending = q, ![c].back = a]
    PROVE  Only(f, h, c, Cl(m, v, a, q, g))
<1>1. PICK x, y, z : x = [f EXCEPT ![c].sent = m] /\ y = [x EXCEPT ![c].wire = v] /\ z = [y EXCEPT ![c].pending = q]
  OBVIOUS
<1>2. h = [z EXCEPT ![c].back = a]
  BY <1>1, Zenon
<1>3. Only(f, x, c, Cl(m, w, b, p, g))
  BY <1>1, SetSentOnly
<1>4. OnClients(x) /\ x[c] = Cl(m, w, b, p, g)
  BY <1>3, Zenon DEF Only
<1>5. Only(x, y, c, Cl(m, v, b, p, g))
  BY <1>1, <1>4, SetWireOnly
<1>6. OnClients(y) /\ y[c] = Cl(m, v, b, p, g)
  BY <1>5, Zenon DEF Only
<1>7. Only(y, z, c, Cl(m, v, b, q, g))
  BY <1>1, <1>6, SetPendingOnly
<1>8. OnClients(z) /\ z[c] = Cl(m, v, b, q, g)
  BY <1>7, Zenon DEF Only
<1>9. Only(z, h, c, Cl(m, v, a, q, g))
  BY <1>2, <1>8, SetBackOnly
<1>10. QED  BY <1>3, <1>5, <1>7, <1>9, OnlyTwice

LEMMA OwnIs ==
    AnswersBelong <=> \A c \in Clients : Own(c, Len(Scripts[c]), sdk[c].got)
  BY Zenon DEF AnswersBelong, Own
LEMMA SdkIs ==
    ASSUME SdkType, SdkInv
    PROVE  SdkOK /\ Busy
<1>1. OnClients(sdk)
  BY DEF SdkType, OnClients
<1>2. \A c \in Clients : Own(c, Len(Scripts[c]), sdk[c].got)
  BY OwnIs, Zenon DEF SdkInv
<1>3. QED  BY <1>1, <1>2, Zenon DEF SdkType, SdkInv, SdkOK, ClientOK
LEMMA SdkFrom ==
    ASSUME SdkOK', Busy'
    PROVE  SdkType' /\ SdkInv'
<1>1. (sdk \in [Clients -> {sdk[c] : c \in Clients}])'
  BY DEF SdkOK, OnClients
<1>2. AnswersBelong'
  BY Zenon DEF SdkOK, ClientOK, AnswersBelong, Own
<1>3. QED  BY <1>1, <1>2, Zenon DEF SdkType, SdkInv, SdkOK, ClientOK

\* One client takes a step.
LEMMA SdkStep ==
    ASSUME SdkOK, NEW c \in Clients, NEW s, ClientOK(c, s), Only(sdk, sdk', c, s)
    PROVE  SdkOK'
<1>1. ASSUME NEW o \in Clients PROVE ClientOK(o, sdk'[o])
  <2>1. CASE o = c
    BY <2>1, Zenon DEF Only
  <2>2. CASE o # c
    BY <2>2, Zenon DEF Only, SdkOK
  <2>3. QED  BY <2>1, <2>2
<1>2. QED  BY <1>1, Zenon DEF Only, SdkOK

\* The requests that have not been answered.
StillWaits(f, h) == \A o \in Clients : f[o].wire # <<>> => h[o].wire # <<>>
LEMMA BusyKept ==
    ASSUME Busy, mode' = mode, phase' \in {"running", "stopped"} => phase \in {"running", "stopped"},
           run'.by = run.by, StillWaits(sdk, sdk')
    PROVE  Busy'
  BY Zenon DEF Busy, StillWaits
LEMMA SdkUnchanged ==
    ASSUME SdkOK, Busy, sdk' = sdk, mode' = mode, phase' \in {"running", "stopped"} => phase \in {"running", "stopped"},
           run'.by = run.by
    PROVE  SdkType' /\ SdkInv'
<1>1. SdkOK'
  BY Zenon DEF SdkOK
<1>2. StillWaits(sdk, sdk')
  BY Zenon DEF StillWaits
<1>3. Busy'
  BY <1>2, BusyKept
<1>4. QED  BY <1>1, <1>3, SdkFrom
\* The server is at rest.
LEMMA SdkRests ==
    ASSUME SdkOK, sdk' = sdk, phase' \notin {"running", "stopped"} \/ mode' # "attach"
    PROVE  SdkType' /\ SdkInv'
<1>1. SdkOK' /\ Busy'
  BY Zenon DEF SdkOK, Busy
<1>2. QED  BY <1>1, SdkFrom

ClientFields(s, n, w, b, p, g) == s.sent = n /\ s.wire = w /\ s.back = b /\ s.pending = p /\ s.got = g
LEMMA ClFields ==
    ASSUME NEW n, NEW w, NEW b, NEW p, NEW g
    PROVE  ClientFields(Cl(n, w, b, p, g), n, w, b, p, g)
  BY DEF Cl, ClientFields

\* A client, taken apart.
LEMMA ClientAt ==
    ASSUME SdkOK, NEW c \in Clients
    PROVE  \E f, N, n, w, b, p, g :
              /\ f = sdk /\ OnClients(f) /\ N \in Nat /\ N = Len(Scripts[c]) /\ f[c] = Cl(n, w, b, p, g)
              /\ ClientFields(f[c], n, w, b, p, g)
              /\ Parts(N, n, w, b, p, g) /\ Ordered(n, w, b) /\ Own(c, N, g)
              /\ (c \in Blocking => Alone(N, n, w, b, p, g))
<1>1. PICK f : f = sdk
  OBVIOUS
<1>2. OnClients(f) /\ ClientOK(c, f[c])
  BY <1>1, Zenon DEF SdkOK
<1>3. PICK s : s = f[c]
  OBVIOUS
<1>4. PICK N, n, w, b, p, g : N \in Nat /\ N = Len(Scripts[c]) /\ s = Cl(n, w, b, p, g) /\ Good(c, N, n, w, b, p, g)
  BY <1>2, <1>3, ClientIs
<1>5. ClientFields(s, n, w, b, p, g)
  BY <1>4, ClFields
<1>6. f[c] = Cl(n, w, b, p, g) /\ ClientFields(f[c], n, w, b, p, g)
  BY <1>3, <1>4, <1>5, Zenon
<1>7. QED  BY <1>1, <1>2, <1>4, <1>6, Zenon DEF Good

\* An answer leaves: through the server's loop, or at the end of a call.
LEMMA AnswerLeaves ==
    ASSUME SdkOK, NEW c \in Clients, sdk[c].wire # <<>>,
           sdk' = [sdk EXCEPT ![c].wire = Tail(@), ![c].back = Append(@, Head(sdk[c].wire))]
    PROVE  SdkOK' /\ \A o \in Clients : o # c => sdk'[o] = sdk[o]
<1>1. PICK f, N, n, w, b, p, g :
              /\ f = sdk /\ OnClients(f) /\ N \in Nat /\ N = Len(Scripts[c]) /\ f[c] = Cl(n, w, b, p, g)
              /\ ClientFields(f[c], n, w, b, p, g)
              /\ Parts(N, n, w, b, p, g) /\ Ordered(n, w, b) /\ Own(c, N, g)
              /\ (c \in Blocking => Alone(N, n, w, b, p, g))
  BY ClientAt
<1>2. PICK v, a, h : v = Tail(w) /\ a = Append(b, Head(w)) /\ h = sdk'
  OBVIOUS
<1>3. f[c].wire = w /\ f[c].back = b
  BY <1>1, Zenon DEF ClientFields
<1>4. h = [f EXCEPT ![c].wire = v, ![c].back = a]
  BY <1>1, <1>2, <1>3, Zenon
<1>5. Only(f, h, c, Cl(n, v, a, p, g))
  BY ONLY <1>1, <1>4, MovedOnly, c \in Clients
<1>6. w # <<>>
  BY <1>1, <1>3, Zenon
<1>7. Parts(N, n, v, a, p, g) /\ Ordered(n, v, a) /\ (c \in Blocking => Alone(N, n, v, a, p, g))
  BY ONLY <1>1, <1>2, <1>6, MovedParts
<1>8. Good(c, N, n, v, a, p, g)
  BY <1>1, <1>7, Zenon DEF Good
<1>9. PICK s : s = Cl(n, v, a, p, g)
  OBVIOUS
<1>10. ClientOK(c, s)
  BY ONLY <1>1, <1>8, <1>9, ClientFrom, c \in Clients
<1>11. Only(sdk, sdk', c, s)
  BY <1>1, <1>2, <1>5, <1>9, Zenon
<1>12. SdkOK'
  BY <1>10, <1>11, SdkStep
<1>13. QED  BY <1>11, <1>12, Zenon DEF Only

LEMMA RunBy ==
    ASSUME NEW b, NEW k, NEW u, u = Executing(b, k)
    PROVE  u.by = b
  BY DEF Executing

\* The invariant of the clients, one step after the other.
LEMMA ServerTakeSdk ==
    ASSUME SdkOK, Busy, NEW c \in Clients, ServerTake(c)
    PROVE  SdkType' /\ SdkInv'
<1>1. /\ sdk[c].wire # <<>> /\ run.by # c /\ mode' = mode /\ phase' = phase /\ run' = run
      /\ sdk' = [sdk EXCEPT ![c].wire = Tail(@), ![c].back = Append(@, Head(sdk[c].wire))]
  BY Zenon DEF ServerTake, Serves
<1>2. SdkOK' /\ \A o \in Clients : o # c => sdk'[o] = sdk[o]
  BY <1>1, AnswerLeaves
<1>3. Busy'
  BY <1>1, <1>2, Zenon DEF Busy
<1>4. QED  BY <1>2, <1>3, SdkFrom

LEMMA ServerStartSdk ==
    ASSUME SdkOK, NEW c \in Clients, ServerStart(c)
    PROVE  SdkType' /\ SdkInv'
<1>1. sdk' = sdk /\ sdk[c].wire # <<>> /\ run' = Executing(c, Request(c).ks)
  BY Zenon DEF ServerStart, Serves
<1>2. run'.by = c
  BY <1>1, RunBy
<1>3. SdkOK' /\ Busy'
  BY <1>1, <1>2, Zenon DEF SdkOK, Busy
<1>4. QED  BY <1>3, SdkFrom

LEMMA CompleteSdk ==
    ASSUME SdkOK, Busy, Complete
    PROVE  SdkType' /\ SdkInv'
<1>1. phase = "running" /\ mode' = mode
  BY Zenon DEF Complete
<1>2. CASE Len(run.ks) > 1
  <2>1. run' = Executing(run.by, Tail(run.ks)) /\ phase' = phase /\ sdk' = sdk
    BY <1>2, Zenon DEF Complete
  <2>2. run'.by = run.by
    BY <2>1, RunBy
  <2>3. QED  BY <1>1, <2>1, <2>2, SdkUnchanged
<1>3. CASE ~ (Len(run.ks) > 1)
  <2>1. /\ phase' = (IF mode = "attach" THEN "idle" ELSE "ended")
        /\ sdk' = (IF mode # "attach" THEN sdk
                   ELSE [sdk EXCEPT ![run.by].wire = Tail(@), ![run.by].back = Append(@, Head(sdk[run.by].wire))])
    BY <1>3, Zenon DEF Complete
  <2>2. CASE mode # "attach"
    BY <1>1, <2>1, <2>2, SdkRests
  <2>3. CASE mode = "attach"
    <3>1. PICK c : c = run.by
      OBVIOUS
    <3>2. c \in Clients /\ sdk[c].wire # <<>>
      BY <1>1, <2>3, <3>1 DEF Busy
    <3>3. sdk' = [sdk EXCEPT ![c].wire = Tail(@), ![c].back = Append(@, Head(sdk[c].wire))]
      BY <2>1, <2>3, <3>1, Zenon
    <3>4. SdkOK'
      BY <3>2, <3>3, AnswerLeaves
    <3>5. Busy'
      BY <2>1, <2>3 DEF Busy
    <3>6. QED  BY <3>4, <3>5, SdkFrom
  <2>4. QED  BY <2>2, <2>3
<1>4. QED  BY <1>2, <1>3

\* The steps of a client leave the server alone.
Aside(c, s) ==
    /\ mode' = mode /\ phase' = phase /\ run' = run /\ Only(sdk, sdk', c, s) /\ ClientOK(c, s)
    /\ sdk[c].wire # <<>> => s.wire # <<>>
LEMMA AsideSdk ==
    ASSUME SdkOK, Busy, NEW c \in Clients, NEW s, Aside(c, s)
    PROVE  SdkType' /\ SdkInv'
<1>1. SdkOK'
  BY SdkStep, Zenon DEF Aside
<1>2. StillWaits(sdk, sdk')
  BY Zenon DEF Aside, Only, StillWaits
<1>3. mode' = mode /\ run'.by = run.by /\ phase' = phase
  BY Zenon DEF Aside
<1>4. Busy'
  BY <1>2, <1>3, BusyKept
<1>5. QED  BY <1>1, <1>4, SdkFrom

LEMMA SdkSendSdk ==
    ASSUME SdkOK, Busy, NEW c \in Clients, SdkSend(c)
    PROVE  SdkType' /\ SdkInv'
<1>1. PICK f, N, n, w, b, p, g :
              /\ f = sdk /\ OnClients(f) /\ N \in Nat /\ N = Len(Scripts[c]) /\ f[c] = Cl(n, w, b, p, g)
              /\ ClientFields(f[c], n, w, b, p, g)
              /\ Parts(N, n, w, b, p, g) /\ Ordered(n, w, b) /\ Own(c, N, g)
              /\ (c \in Blocking => Alone(N, n, w, b, p, g))
  BY ClientAt
<1>2. f[c].sent = n /\ f[c].wire = w /\ f[c].back = b /\ f[c].pending = p
  BY <1>1, Zenon DEF ClientFields
<1>3. /\ n < N /\ (c \in Blocking => p = {}) /\ mode' = mode /\ phase' = phase /\ run' = run
      /\ \E k \in IF c \in Blocking THEN 1..(Len(b) + 1) ELSE {1} :
            sdk' = [f EXCEPT ![c].sent = n + 1, ![c].wire = Append(w, n + 1), ![c].pending = p \cup {n + 1},
                             ![c].back = SubSeq(b, k, Len(b))]
  BY <1>1, <1>2, Zenon DEF SdkSend
<1>4. PICK k \in IF c \in Blocking THEN 1..(Len(b) + 1) ELSE {1} :
            sdk' = [f EXCEPT ![c].sent = n + 1, ![c].wire = Append(w, n + 1), ![c].pending = p \cup {n + 1},
                             ![c].back = SubSeq(b, k, Len(b))]
  BY <1>3
<1>5. k \in 1..(Len(b) + 1)
  <2>1. b \in Seq(1..N)
    BY <1>1, Zenon DEF Parts
  <2>2. Len(b) \in Nat
    BY <2>1
  <2>3. QED  BY <1>4, <2>2
<1>5a. PICK j \in 1..(Len(b) + 1) : j = k
  BY <1>5
<1>6. PICK m, v, a, q, h : m = n + 1 /\ v = Append(w, m) /\ a = SubSeq(b, j, Len(b)) /\ q = p \cup {m} /\ h = sdk'
  OBVIOUS
<1>7. h = [f EXCEPT ![c].sent = m, ![c].wire = v, ![c].pending = q, ![c].back = a]
  BY <1>4, <1>5a, <1>6, Zenon
<1>8. Only(f, h, c, Cl(m, v, a, q, g))
  BY ONLY <1>1, <1>7, SentOnly, c \in Clients
<1>9. Parts(N, m, v, a, q, g) /\ Ordered(m, v, a) /\ (c \in Blocking => Alone(N, m, v, a, q, g)) /\ v # <<>>
  <2>1. c \in Blocking => Alone(N, n, w, b, p, g) /\ p = {}
    BY <1>1, <1>3, Zenon
  <2>2. n < N
    BY <1>3
  <2>3. Sendable(c, N, n, w, b, p, g)
    BY <1>1, <2>1, <2>2, Zenon DEF Sendable
  <2>4. SendStep(n, w, b, p, m, v, a, q)
    BY <1>6, Zenon DEF SendStep
  <2>5. QED  BY ONLY <1>1, <2>3, <2>4, SentParts
<1>10. Good(c, N, m, v, a, q, g)
  BY <1>1, <1>9, Zenon DEF Good
<1>11. PICK s : s = Cl(m, v, a, q, g)
  OBVIOUS
<1>12. ClientOK(c, s)
  BY ONLY <1>1, <1>10, <1>11, ClientFrom, c \in Clients
<1>13. s.wire = v
  BY ONLY <1>11 DEF Cl
<1>14. Aside(c, s)
  BY <1>1, <1>3, <1>6, <1>8, <1>9, <1>11, <1>12, <1>13, Zenon DEF Aside
<1>15. QED  BY <1>14, AsideSdk

LEMMA BlockingReceiveSdk ==
    ASSUME SdkOK, Busy, NEW c \in Clients, BlockingReceive(c)
    PROVE  SdkType' /\ SdkInv'
<1>1. PICK f, N, n, w, b, p, g :
              /\ f = sdk /\ OnClients(f) /\ N \in Nat /\ N = Len(Scripts[c]) /\ f[c] = Cl(n, w, b, p, g)
              /\ ClientFields(f[c], n, w, b, p, g)
              /\ Parts(N, n, w, b, p, g) /\ Ordered(n, w, b) /\ Own(c, N, g)
              /\ (c \in Blocking => Alone(N, n, w, b, p, g))
  BY ClientAt
<1>2. f[c].wire = w /\ f[c].back = b /\ f[c].pending = p /\ f[c].got = g
  BY <1>1, Zenon DEF ClientFields
<1>3. /\ c \in Blocking /\ b # <<>> /\ mode' = mode /\ phase' = phase /\ run' = run
  BY <1>1, <1>2, Zenon DEF BlockingReceive
<1>3a. PICK id \in sdk[c].pending, k \in 2..(Len(sdk[c].back) + 1) :
            sdk' = [sdk EXCEPT ![c].pending = {}, ![c].got[id] = Head(sdk[c].back), ![c].back = SubSeq(@, k, Len(@))]
  BY Zenon DEF BlockingReceive
<1>4. id \in p /\ k \in 2..(Len(b) + 1)
  BY <1>1, <1>2, <1>3a, Zenon
<1>5. PICK e, a, q, h, y : e = Head(b) /\ a = SubSeq(b, k, Len(b)) /\ q = {} /\ h = sdk' /\ y = [g EXCEPT ![id] = e]
  OBVIOUS
<1>6. h = [f EXCEPT ![c].pending = q, ![c].got[id] = e, ![c].back = a]
  <2>1. PICK y1 : y1 = [f EXCEPT ![c].pending = q, ![c].got[id] = e]
    OBVIOUS
  <2>2. Only(f, y1, c, Cl(n, w, b, q, y))
    BY ONLY <1>1, <1>5, <2>1, TimedOutOnly, c \in Clients
  <2>3. ClientFields(Cl(n, w, b, q, y), n, w, b, q, y)
    BY ClFields
  <2>4. y1[c].back = b
    BY <2>2, <2>3, Zenon DEF Only, ClientFields
  <2>5. h = [y1 EXCEPT ![c].back = SubSeq(@, k, Len(@))]
    BY <1>1, <1>2, <1>3a, <1>5, <2>1, Zenon
  <2>6. h = [y1 EXCEPT ![c].back = a]
    BY <1>5, <2>4, <2>5, Zenon
  <2>7. QED  BY <2>1, <2>6, Zenon
<1>7. Only(f, h, c, Cl(n, w, a, q, [g EXCEPT ![id] = e]))
  BY ONLY <1>1, <1>6, AnsweredOnly, c \in Clients
<1>8. Parts(N, n, w, a, {}, y) /\ Ordered(n, w, a) /\ Alone(N, n, w, a, {}, y) /\ Own(c, N, y)
  <2>1. Alone(N, n, w, b, p, g) /\ c \in Blocking /\ b # <<>>
    BY <1>1, <1>3, Zenon
  <2>2. y = [g EXCEPT ![id] = Head(b)]
    BY <1>5, Zenon
  <2>3. AnswerStep(b, p, g, id, a, y)
    BY <1>4, <1>5, <2>2, Zenon DEF AnswerStep
  <2>4. QED  BY ONLY <1>1, <2>1, <2>3, AnsweredParts
<1>10. Good(c, N, n, w, a, q, y)
  BY <1>5, <1>8, Zenon DEF Good
<1>11. PICK s : s = Cl(n, w, a, q, y)
  OBVIOUS
<1>12. ClientOK(c, s)
  BY ONLY <1>1, <1>10, <1>11, ClientFrom, c \in Clients
<1>13. s.wire = w
  BY ONLY <1>11 DEF Cl
<1>14. Aside(c, s)
  BY <1>1, <1>2, <1>3, <1>5, <1>7, <1>11, <1>12, <1>13, Zenon DEF Aside
<1>15. QED  BY <1>14, AsideSdk

LEMMA BlockingTimeoutSdk ==
    ASSUME SdkOK, Busy, NEW c \in Clients, BlockingTimeout(c)
    PROVE  SdkType' /\ SdkInv'
<1>1. PICK f, N, n, w, b, p, g :
              /\ f = sdk /\ OnClients(f) /\ N \in Nat /\ N = Len(Scripts[c]) /\ f[c] = Cl(n, w, b, p, g)
              /\ ClientFields(f[c], n, w, b, p, g)
              /\ Parts(N, n, w, b, p, g) /\ Ordered(n, w, b) /\ Own(c, N, g)
              /\ (c \in Blocking => Alone(N, n, w, b, p, g))
  BY ClientAt
<1>2. f[c].wire = w /\ f[c].pending = p /\ f[c].got = g
  BY <1>1, Zenon DEF ClientFields
<1>3. /\ c \in Blocking /\ mode' = mode /\ phase' = phase /\ run' = run
      /\ \E id \in p : sdk' = [f EXCEPT ![c].pending = {}, ![c].got[id] = 0]
  BY <1>1, <1>2, Zenon DEF BlockingTimeout
<1>4. PICK id \in p : sdk' = [f EXCEPT ![c].pending = {}, ![c].got[id] = 0]
  BY <1>3
<1>5. PICK e, q, h, y : e = 0 /\ q = {} /\ h = sdk' /\ y = [g EXCEPT ![id] = e]
  OBVIOUS
<1>6. h = [f EXCEPT ![c].pending = q, ![c].got[id] = e]
  BY <1>4, <1>5, Zenon
<1>7. Only(f, h, c, Cl(n, w, b, q, [g EXCEPT ![id] = e]))
  BY ONLY <1>1, <1>6, TimedOutOnly, c \in Clients
<1>8. Parts(N, n, w, b, {}, y) /\ Alone(N, n, w, b, {}, y) /\ Own(c, N, y)
  <2>1. Alone(N, n, w, b, p, g)
    BY <1>1, <1>3, Zenon
  <2>2. y = [g EXCEPT ![id] = 0]
    BY <1>5, Zenon
  <2>3. QED  BY ONLY <1>1, <1>4, <2>1, <2>2, TimedOutParts
<1>10. Good(c, N, n, w, b, q, y)
  BY <1>1, <1>5, <1>8, Zenon DEF Good
<1>11. PICK s : s = Cl(n, w, b, q, y)
  OBVIOUS
<1>12. ClientOK(c, s)
  BY ONLY <1>1, <1>10, <1>11, ClientFrom, c \in Clients
<1>13. s.wire = w
  BY ONLY <1>11 DEF Cl
<1>14. Aside(c, s)
  BY <1>1, <1>2, <1>3, <1>5, <1>7, <1>11, <1>12, <1>13, Zenon DEF Aside
<1>15. QED  BY <1>14, AsideSdk

LEMMA AsyncReceiveSdk ==
    ASSUME SdkOK, Busy, NEW c \in Clients, AsyncReceive(c)
    PROVE  SdkType' /\ SdkInv'
<1>1. PICK f, N, n, w, b, p, g :
              /\ f = sdk /\ OnClients(f) /\ N \in Nat /\ N = Len(Scripts[c]) /\ f[c] = Cl(n, w, b, p, g)
              /\ ClientFields(f[c], n, w, b, p, g)
              /\ Parts(N, n, w, b, p, g) /\ Ordered(n, w, b) /\ Own(c, N, g)
              /\ (c \in Blocking => Alone(N, n, w, b, p, g))
  BY ClientAt
<1>2. f[c].wire = w /\ f[c].back = b /\ f[c].pending = p /\ f[c].got = g
  BY <1>1, Zenon DEF ClientFields
<1>3. /\ c \notin Blocking /\ b # <<>> /\ mode' = mode /\ phase' = phase /\ run' = run
      /\ sdk' = [f EXCEPT ![c].pending = p \ {Head(b)}, ![c].got[Head(b)] = Head(b), ![c].back = Tail(b)]
  BY <1>1, <1>2, Zenon DEF AsyncReceive, Pending
<1>5. PICK e, i, a, q, h, y : i = e /\ e = Head(b) /\ a = Tail(b) /\ q = p \ {e} /\ h = sdk' /\ y = [g EXCEPT ![e] = e]
  OBVIOUS
<1>6. h = [f EXCEPT ![c].pending = q, ![c].got[i] = e, ![c].back = a]
  BY <1>3, <1>5, Zenon
<1>7. Only(f, h, c, Cl(n, w, a, q, [g EXCEPT ![i] = e]))
  BY ONLY <1>1, <1>6, AnsweredOnly, c \in Clients
<1>8. Parts(N, n, w, a, p \ {e}, y) /\ Ordered(n, w, a) /\ Own(c, N, y)
  <2>1. c \notin Blocking /\ b # <<>>
    BY <1>3
  <2>2. N \in Nat /\ Parts(N, n, w, b, p, g) /\ Ordered(n, w, b) /\ Own(c, N, g)
    BY <1>1, Zenon
  <2>3. e = Head(b) /\ a = Tail(b) /\ y = [g EXCEPT ![e] = e]
    BY <1>5, Zenon
  <2>4. QED  BY ONLY <2>1, <2>2, <2>3, LookedUpParts, ZenonT(30)
<1>10. Good(c, N, n, w, a, q, y)
  BY <1>3, <1>5, <1>8, Zenon DEF Good
<1>11. PICK s : s = Cl(n, w, a, q, y)
  OBVIOUS
<1>12. ClientOK(c, s)
  BY ONLY <1>1, <1>10, <1>11, ClientFrom, c \in Clients
<1>13. s.wire = w
  BY ONLY <1>11 DEF Cl
<1>14. Aside(c, s)
  BY <1>1, <1>2, <1>3, <1>5, <1>7, <1>11, <1>12, <1>13, Zenon DEF Aside
<1>15. QED  BY <1>14, AsideSdk

-----------------------------------------------------------------------------
(* The editor: its queue of requests. *)

KindsC(q, S) == \A i \in 1..Len(q) : q[i].k \in S
LastC(q, k) == \A i \in 1..Len(q) : q[i].k = k => i = Len(q)
SingleC(q, k) == Len(q) = 1 /\ q[1].k = k
Has(q, k) == \E i \in 1..Len(q) : q[i].k = k
ConfC(q, S) == KindsC(q, ConfigKinds) /\ LastC(q, "threads") /\ ("threads" \in S <=> Has(q, "threads"))
LiveC(q) == KindsC(q, LiveKinds) /\ LastC(q, "disconnect")

LEMMA QueueTail ==
    ASSUME NEW R, NEW q \in Seq(R), q # <<>>, NEW t, t = Tail(q)
    PROVE  /\ t \in Seq(R) /\ Len(q) \in Nat /\ Len(t) \in Nat /\ Len(t) = Len(q) - 1 /\ (Len(q) = 1 => t = <<>>)
           /\ \A S : KindsC(q, S) => KindsC(t, S) /\ Head(q).k \in S
           /\ \A k : LastC(q, k) => LastC(t, k) /\ (Head(q).k = k => t = <<>>)
           /\ \A k : Has(t, k) => Has(q, k)
           /\ \A k : Has(q, k) => Has(t, k) \/ Head(q).k = k
<1>1. /\ t \in Seq(R) /\ Len(q) \in Nat /\ Len(q) >= 1 /\ Len(t) = Len(q) - 1 /\ Head(q) = q[1]
      /\ \A i \in 1..Len(t) : i + 1 \in 1..Len(q) /\ t[i] = q[i + 1]
  BY TailIn
<1>2. Len(t) \in Nat /\ 1 \in 1..Len(q)
  BY <1>1
<1>3. Len(q) = 1 => t = <<>>
  <2>1. Len(q) = 1 => Len(t) = 0
    BY <1>1
  <2>2. QED  BY <1>1, <2>1, EmptySeq
<1>4. ASSUME NEW S, KindsC(q, S) PROVE KindsC(t, S) /\ Head(q).k \in S
  BY <1>1, <1>2, <1>4, Zenon DEF KindsC
<1>5. ASSUME NEW k, LastC(q, k) PROVE LastC(t, k) /\ (Head(q).k = k => t = <<>>)
  <2>1. ASSUME NEW i \in 1..Len(t), t[i].k = k PROVE i = Len(t)
    <3>1. i + 1 \in 1..Len(q) /\ q[i + 1].k = k
      BY <1>1, <2>1, Zenon
    <3>2. i + 1 = Len(q)
      BY <1>5, <3>1, Zenon DEF LastC
    <3>3. Len(t) = Len(q) - 1 /\ Len(q) \in Nat /\ i \in Nat
      BY <1>1, <1>2
    <3>4. QED  BY ONLY <3>2, <3>3
  <2>2. ASSUME Head(q).k = k PROVE t = <<>>
    <3>1. 1 = Len(q)
      BY <1>1, <1>2, <1>5, <2>2, Zenon DEF LastC
    <3>2. QED  BY <1>3, <3>1
  <2>3. QED  BY <2>1, <2>2, Zenon DEF LastC
<1>6. ASSUME NEW k, Has(t, k) PROVE Has(q, k)
  BY <1>1, <1>6, Zenon DEF Has
<1>7. ASSUME NEW k, Has(q, k), Head(q).k # k PROVE Has(t, k)
  <2>1. PICK i \in 1..Len(q) : q[i].k = k
    BY <1>7 DEF Has
  <2>2. i # 1
    BY <1>1, <1>7, <2>1, Zenon
  <2>3. i - 1 \in 1..Len(t) /\ (i - 1) + 1 = i
    BY <1>1, <2>2
  <2>4. t[i - 1] = q[i]
    BY <1>1, <2>3, Zenon
  <2>5. QED  BY <2>1, <2>3, <2>4, Zenon DEF Has
<1>8. QED  BY <1>1, <1>2, <1>3, <1>4, <1>5, <1>6, <1>7, Zenon

LEMMA ConfTail ==
    ASSUME NEW R, NEW q \in Seq(R), q # <<>>, NEW t, t = Tail(q), NEW S, ConfC(q, S), Head(q).k # "threads"
    PROVE  ConfC(t, S)
<1>1. KindsC(q, ConfigKinds) /\ LastC(q, "threads") /\ ("threads" \in S <=> Has(q, "threads"))
  BY Zenon DEF ConfC
<1>2. KindsC(t, ConfigKinds)
  BY <1>1, QueueTail
<1>3. LastC(t, "threads")
  BY <1>1, QueueTail
<1>4. Has(t, "threads") <=> Has(q, "threads")
  BY QueueTail
<1>5. QED  BY <1>1, <1>2, <1>3, <1>4, Zenon DEF ConfC

LEMMA LiveTail ==
    ASSUME NEW R, NEW q \in Seq(R), q # <<>>, NEW t, t = Tail(q), LiveC(q)
    PROVE  LiveC(t) /\ (Head(q).k = "disconnect" => t = <<>>) /\ Head(q).k \in LiveKinds
<1>1. KindsC(q, LiveKinds) /\ LastC(q, "disconnect")
  BY Zenon DEF LiveC
<1>2. KindsC(t, LiveKinds) /\ Head(q).k \in LiveKinds
  BY <1>1, QueueTail
<1>3. LastC(t, "disconnect") /\ (Head(q).k = "disconnect" => t = <<>>)
  BY <1>1, QueueTail
<1>4. QED  BY <1>2, <1>3, Zenon DEF LiveC

LEMMA ConfLive ==
    ASSUME NEW q, NEW S, ConfC(q, S)
    PROVE  LiveC(q)
<1>1. KindsC(q, ConfigKinds)
  BY Zenon DEF ConfC
<1>2. KindsC(q, LiveKinds)
  BY <1>1, Zenon DEF KindsC, LiveKinds
<1>3. ASSUME NEW i \in 1..Len(q) PROVE q[i].k # "disconnect"
  <2>1. q[i].k \in ConfigKinds
    BY <1>1, Zenon DEF KindsC
  <2>2. QED  BY <2>1 DEF ConfigKinds
<1>4. LastC(q, "disconnect")
  BY <1>3, Zenon DEF LastC
<1>5. QED  BY <1>2, <1>4, Zenon DEF LiveC

LEMMA EmptyQueue ==
    ASSUME NEW q, q = <<>>
    PROVE  LiveC(q) /\ Len(q) = 0 /\ \A S : "threads" \notin S => ConfC(q, S)
  BY DEF LiveC, ConfC, KindsC, LastC, Has

LEMMA QueueAppend ==
    ASSUME NEW R, NEW q \in Seq(R), NEW r \in R, NEW t, t = Append(q, r)
    PROVE  /\ t \in Seq(R) /\ Len(q) \in Nat /\ Len(t) = Len(q) + 1
           /\ \A S : KindsC(q, S) /\ r.k \in S => KindsC(t, S)
           /\ \A k : ~ Has(q, k) => LastC(t, k)
           /\ \A k : Has(t, k) <=> Has(q, k) \/ r.k = k
           /\ q = <<>> => SingleC(t, r.k)
<1>1. /\ t \in Seq(R) /\ Len(q) \in Nat /\ Len(t) = Len(q) + 1 /\ t[Len(q) + 1] = r
      /\ \A i \in 1..Len(q) : t[i] = q[i]
  OBVIOUS
<1>2. \A i \in 1..Len(t) : i \in 1..Len(q) \/ i = Len(q) + 1
  BY <1>1
<1>3. Len(q) + 1 \in 1..Len(t) /\ \A i \in 1..Len(q) : i \in 1..Len(t)
  BY <1>1
<1>4. ASSUME NEW S, KindsC(q, S), r.k \in S PROVE KindsC(t, S)
  BY <1>1, <1>2, <1>4, Zenon DEF KindsC
<1>5. ASSUME NEW k, ~ Has(q, k) PROVE LastC(t, k)
  BY <1>1, <1>2, <1>5, Zenon DEF LastC, Has
<1>6. ASSUME NEW k PROVE Has(t, k) <=> Has(q, k) \/ r.k = k
  BY <1>1, <1>2, <1>3, Zenon DEF Has
<1>7. ASSUME q = <<>> PROVE SingleC(t, r.k)
  BY <1>1, <1>7 DEF SingleC
<1>8. QED  BY <1>1, <1>4, <1>5, <1>6, <1>7, Zenon

Starting(m) == IF m = "launch" THEN "launch" ELSE "attach"
Shake(m, dp, v, S, o, q) ==
    /\ m # "cli" /\ dp = Dap(No, No, No) /\ o = Len(q)
    /\ \/ v = "new" /\ q = <<>> /\ S = {}
       \/ v = "new" /\ SingleC(q, "initialize") /\ S = {"initialize"}
       \/ v = "init" /\ q = <<>> /\ S = {"initialize"}
       \/ v = "init" /\ SingleC(q, Starting(m)) /\ S = {"initialize", Starting(m)}
       \/ v = "failed" /\ q = <<>>
       \/ v = "configuring" /\ m = "attach" /\ ConfC(q, S)
ReadyC(m) == IF m = "attach" THEN Dap(No, No, Yes) ELSE Dap(Yes, Yes, No)
Gone(v, q) == v = "gone" /\ q = <<>>
Loading(m, ph, dp, v, S, o, q, x) ==
    /\ v = "init" /\ m = "launch" /\ dp = Dap(Yes, No, No) /\ ph \in {"running", "ended"}
    /\ q = <<>> /\ S = {"initialize", "launch"} /\ o = 1
    /\ x.state.k = "Start" /\ DOMAIN x.bps = {} /\ DOMAIN x.wps = {}
Preparing(m, ph, dp, v, S, o, q) ==
    /\ v = "configuring" /\ m = "launch" /\ dp = Dap(Yes, No, No) /\ ph = "stopped"
    /\ o = Len(q) + 1 /\ ConfC(q, S)
Debugging(m, ph, dp, v, o, q, x) ==
    /\ v \in {"stopped", "running"} /\ dp = ReadyC(m) /\ o = Len(q)
    /\ ph = "stopped" => v = "stopped"
    /\ ph = "running" => x.state.k # "Start"
Seen(m, ph, dp, v, S, o, q, x) ==
    /\ m # "cli"
    /\ \/ Gone(v, q) \/ Loading(m, ph, dp, v, S, o, q, x) \/ Preparing(m, ph, dp, v, S, o, q)
       \/ Debugging(m, ph, dp, v, o, q, x)

LEMMA QueueIs ==
    /\ \A S : Kinds(S) <=> KindsC(inbox, S)
    /\ \A k : LastOnly(k) <=> LastC(inbox, k)
    /\ \A k : Single(k) <=> SingleC(inbox, k)
    /\ Configuring <=> ConfC(inbox, editor.said)
    /\ StartKind = Starting(mode) /\ Ready = ReadyC(mode)
    /\ LiveInv <=> (phase # "handshake" => LiveC(inbox))
  BY Zenon DEF Kinds, KindsC, LastOnly, LastC, Single, SingleC, Configuring, ConfC, Has, Said, StartKind, Starting,
               Ready, ReadyC, LiveInv, LiveC
LEMMA QueueIsNext ==
    /\ \A S : Kinds(S)' <=> KindsC(inbox', S)
    /\ \A k : LastOnly(k)' <=> LastC(inbox', k)
    /\ \A k : Single(k)' <=> SingleC(inbox', k)
    /\ Configuring' <=> ConfC(inbox', editor'.said)
    /\ StartKind' = Starting(mode') /\ Ready' = ReadyC(mode')
    /\ LiveInv' <=> (phase' # "handshake" => LiveC(inbox'))
  BY Zenon DEF Kinds, KindsC, LastOnly, LastC, Single, SingleC, Configuring, ConfC, Has, Said, StartKind, Starting,
               Ready, ReadyC, LiveInv, LiveC

LEMMA EditorIs ==
    ASSUME EditorInv
    PROVE  /\ phase = "handshake" => Shake(mode, dap, editor.view, editor.said, editor.owed, inbox)
           /\ phase # "handshake" => LiveC(inbox)
           /\ phase # "handshake" /\ editor.open =>
                 Seen(mode, phase, dap, editor.view, editor.said, editor.owed, inbox, d)
<1>1. phase = "handshake" => Shake(mode, dap, editor.view, editor.said, editor.owed, inbox)
  <2> SUFFICES ASSUME phase = "handshake" PROVE Shake(mode, dap, editor.view, editor.said, editor.owed, inbox)
    OBVIOUS
  <2>1. HandshakeInv
    BY DEF EditorInv
  <2>2. /\ mode # "cli" /\ dap = Dap(No, No, No) /\ editor.owed = Len(inbox)
        /\ \/ /\ editor.view = "new"
              /\ \/ inbox = <<>> /\ editor.said = {}
                 \/ Single("initialize") /\ editor.said = {"initialize"}
           \/ /\ editor.view = "init"
              /\ \/ inbox = <<>> /\ editor.said = {"initialize"}
                 \/ Single(StartKind) /\ editor.said = {"initialize", StartKind}
           \/ editor.view = "failed" /\ inbox = <<>>
           \/ editor.view = "configuring" /\ mode = "attach" /\ Configuring
    BY <2>1, Zenon DEF HandshakeInv, Dap, No
  <2>3. QED  BY <2>2, QueueIs, Zenon DEF Shake
<1>2. phase # "handshake" => LiveC(inbox)
  BY QueueIs, Zenon DEF EditorInv
<1>3. ASSUME phase # "handshake", editor.open
      PROVE  Seen(mode, phase, dap, editor.view, editor.said, editor.owed, inbox, d)
  BY <1>3, QueueIs, Zenon DEF EditorInv, ViewInv, Seen, Gone, Loading, Preparing, Debugging
<1>4. QED  BY <1>1, <1>2, <1>3, Zenon

LEMMA EditorFrom ==
    ASSUME phase' = "handshake" => Shake(mode', dap', editor'.view, editor'.said, editor'.owed, inbox'),
           phase' # "handshake" => LiveC(inbox'),
           phase' # "handshake" /\ editor'.open =>
                 Seen(mode', phase', dap', editor'.view, editor'.said, editor'.owed, inbox', d')
    PROVE  EditorInv'
<1>1. HandshakeInv'
  <2> SUFFICES ASSUME phase' = "handshake"
               PROVE  /\ mode' # "cli" /\ dap' = Dap(No, No, No) /\ editor'.owed = Len(inbox')
                      /\ \/ /\ editor'.view = "new"
                            /\ \/ inbox' = <<>> /\ editor'.said = {}
                               \/ Single("initialize")' /\ editor'.said = {"initialize"}
                         \/ /\ editor'.view = "init"
                            /\ \/ inbox' = <<>> /\ editor'.said = {"initialize"}
                               \/ Single(StartKind)' /\ editor'.said = {"initialize", StartKind'}
                         \/ editor'.view = "failed" /\ inbox' = <<>>
                         \/ editor'.view = "configuring" /\ mode' = "attach" /\ Configuring'
    BY Zenon DEF HandshakeInv, Dap, No
  <2>1. Single(StartKind)' <=> SingleC(inbox', StartKind')
    BY Zenon DEF Single, SingleC
  <2>2. QED  BY <2>1, QueueIsNext, Zenon DEF Shake
<1>2. LiveInv'
  BY QueueIsNext, Zenon
<1>3. ViewInv'
  BY QueueIsNext, Zenon DEF ViewInv, Seen, Gone, Loading, Preparing, Debugging
<1>4. QED  BY <1>1, <1>2, <1>3 DEF EditorInv

\* The editor and its connection, named apart.
LEMMA EditorAt ==
    ASSUME EditorType
    PROVE  /\ dap = Dap(dap.launched, dap.init, dap.config)
           /\ editor = Ed(editor.view, editor.said, editor.owed, editor.open, editor.extra)
           /\ inbox \in Seq(EditorRequests) /\ editor.owed \in Int /\ editor.extra \in Nat
           /\ editor.view \in EditorViews /\ editor.said \in SaidSets /\ editor.open \in BOOLEAN
           /\ dap.launched \in BOOLEAN /\ dap.init \in BOOLEAN /\ dap.config \in BOOLEAN
  BY DEF EditorType, Dap, Ed

LEMMA EditorMade ==
    ASSUME NEW v \in EditorViews, NEW S \in SaidSets, NEW o \in Int, NEW p \in BOOLEAN, NEW x \in Nat, NEW e,
           e = Ed(v, S, o, p, x)
    PROVE  /\ e \in [view: EditorViews, said: SaidSets, owed: Int, open: BOOLEAN, extra: Nat]
           /\ e.view = v /\ e.said = S /\ e.owed = o /\ e.open = p /\ e.extra = x
  BY DEF Ed
LEMMA DapMade ==
    ASSUME NEW l \in BOOLEAN, NEW i \in BOOLEAN, NEW c \in BOOLEAN
    PROVE  Dap(l, i, c) \in [launched: BOOLEAN, init: BOOLEAN, config: BOOLEAN]
  BY DEF Dap

LEMMA EditorKept ==
    ASSUME EditorType, EditorInv, UNCHANGED <<mode, phase, d, dap, inbox, editor>>
    PROVE  EditorType' /\ EditorInv'
  BY Zenon DEF EditorType, EditorInv, HandshakeInv, LiveInv, ViewInv, Kinds, LastOnly, Single, Configuring, Said,
               StartKind, Ready

\* The editor has no part in the step.
LEMMA EditorAside ==
    ASSUME EditorType, EditorInv, UNCHANGED <<mode, dap, inbox, editor>>, phase # "handshake", phase' # "handshake",
           editor.open => Seen(mode, phase', dap, editor.view, editor.said, editor.owed, inbox, d')
    PROVE  EditorType' /\ EditorInv'
<1>1. EditorType'
  BY Zenon DEF EditorType
<1>2. LiveC(inbox')
  BY EditorIs, Zenon
<1>3. editor'.open => Seen(mode', phase', dap', editor'.view, editor'.said, editor'.owed, inbox', d')
  BY Zenon
<1>4. EditorInv'
  BY <1>2, <1>3, EditorFrom, Zenon
<1>5. QED  BY <1>1, <1>4

\* The invariant of the editor, for the steps that do not read a request.
LEMMA EndEdits ==
    ASSUME RunType, RunInv, EditorType, EditorInv, End
    PROVE  EditorType' /\ EditorInv'
<1>1. phase = "running" /\ phase' = phase /\ UNCHANGED <<mode, dap, inbox, editor>> /\ run.pos < Len(T) /\ d' = did_finish_eval(d, T[run.pos + 1])
      /\ T[run.pos + 1].ev = "end"
  BY Zenon DEF End
<1>2. PICK x, y, e, st : x = d /\ y = d' /\ e = T[run.pos + 1] /\ st = x.state
  OBVIOUS
<1>3. IsDebugState(x) /\ Step(T, Fr, run.pos, run.pos + 1) /\ Follows(T, Fr, run.pos, d, goal.born)
  BY <1>1, <1>2, RunTypeIs, StepTaken
<1>4. x.stack # <<>>
  <2>1. Shrinks(Fr, run.pos, run.pos + 1)
    BY <1>1, <1>3, StepIs
  <2>2. Len(x.stack) = Len(Fr[run.pos])
    BY <1>2, <1>3, Zenon DEF Follows
  <2>3. x.stack \in Seq(StackFrames)
    BY <1>3, Zenon DEF IsDebugState
  <2>4. Len(x.stack) >= 1
    BY <2>1, <2>2 DEF Shrinks
  <2>5. x.stack = <<>> => Len(x.stack) = 0
    BY <2>3, EmptySeq, Zenon
  <2>6. QED  BY <2>4, <2>5
<1>5. Ended(x, y)
  BY ONLY <1>3, <1>4, <1>2, <1>1, EndedIs
<1>6. y.bps = x.bps /\ y.wps = x.wps /\ (y.state = st \/ (st.k = "Finish" /\ y.state = St("Finished", 0)))
  <2>1. /\ y.bps = x.bps /\ y.wps = x.wps
        /\ y.state = IF x.state = St("Finish", x.stack[Len(x.stack)].id) THEN St("Finished", 0) ELSE x.state
    BY <1>5, Zenon DEF Ended
  <2>2. PICK n : n = x.stack[Len(x.stack)].id
    OBVIOUS
  <2>3. St("Finish", n).k = "Finish"
    BY StKinds
  <2>4. QED  BY <1>2, <2>1, <2>2, <2>3, Zenon
<1>7. St("Finished", 0).k = "Finished"
  BY StKinds
<1>8. (x.state.k = "Start" => y.state.k = "Start") /\ (x.state.k # "Start" => y.state.k # "Start")
  <2>1. CASE y.state = st
    BY <1>2, <2>1, Zenon
  <2>2. CASE st.k = "Finish" /\ y.state = St("Finished", 0)
    BY <1>2, <1>7, <2>2
  <2>3. QED  BY <1>6, <2>1, <2>2
<1>9. editor.open => Seen(mode, phase', dap, editor.view, editor.said, editor.owed, inbox, d')
  <2> SUFFICES ASSUME editor.open PROVE Seen(mode, phase', dap, editor.view, editor.said, editor.owed, inbox, d')
    OBVIOUS
  <2>1. phase # "handshake"
    BY <1>1
  <2>2. Seen(mode, phase, dap, editor.view, editor.said, editor.owed, inbox, x)
    BY <1>2, <2>1, EditorIs, Zenon
  <2>3. PICK m, ph, dp, v, S, o, q : m = mode /\ ph = phase /\ dp = dap /\ v = editor.view /\ S = editor.said /\ o = editor.owed /\ q = inbox
    OBVIOUS
  <2>4. Seen(m, ph, dp, v, S, o, q, x)
    BY <2>2, <2>3, Zenon
  <2>5. Seen(m, ph, dp, v, S, o, q, y)
    BY <1>6, <1>8, <2>4, Zenon DEF Seen, Loading, Debugging
  <2>6. QED  BY <1>1, <1>2, <2>3, <2>5, Zenon
<1>10. phase # "handshake" /\ phase' # "handshake"
  BY <1>1
<1>11. QED  BY <1>1, <1>9, <1>10, EditorAside

LEMMA BeginKinds ==
    ASSUME NEW x, NEW e, NEW A, NEW z, NEW s, NEW y, Strikes(x, e, A, z), Looks(x, e, z, s), Begun(x, e, y, A, s)
    PROVE  /\ y.bps = x.bps /\ y.wps = x.wps
           /\ DOMAIN x.bps = {} /\ DOMAIN x.wps = {} => y.state = x.state
           /\ x.state.k # "Start" => y.state.k # "Start"
<1>1. y.bps = x.bps /\ y.wps = x.wps /\ y.state = s
  BY Zenon DEF Begun
<1>2. z = x.state \/ \E i \in DOMAIN x.bps : z = St("Break", i)
  BY Zenon DEF Strikes
<1>3. s = z \/ \E i \in DOMAIN x.wps : s = St("DataBreak", i)
  BY Zenon DEF Looks
<1>4. ASSUME NEW i, s = St("Break", i) \/ s = St("DataBreak", i) PROVE s.k # "Start"
  <2>1. St("Break", i).k = "Break" /\ St("DataBreak", i).k = "DataBreak"
    BY StKinds
  <2>2. s.k = "Break" \/ s.k = "DataBreak"
    BY <1>4, <2>1, Zenon
  <2>3. QED  BY <2>2
<1>5. QED  BY <1>1, <1>2, <1>3, <1>4, Zenon

LEMMA BeginTells ==
    ASSUME Begin
    PROVE  /\ phase = "running" /\ UNCHANGED <<mode, dap, inbox, sdk, goal>>
           /\ \/ phase' = "running" /\ editor' = editor
              \/ phase' = "stopped" /\ mode = "cli" /\ editor' = editor
              \/ phase' = "stopped" /\ editor' = Told(editor, IF d'.state.k = "Start" THEN "configuring" ELSE "stopped")
  BY Zenon DEF Begin

LEMMA ToldIs ==
    ASSUME EditorType, NEW v, editor' = Told(editor, v)
    PROVE  \/ editor' = editor /\ (editor.view = "gone" \/ ~ editor.open)
           \/ /\ editor.view # "gone"
              /\ editor' = Ed(v, IF v \in {"stopped", "running", "gone"} THEN {} ELSE editor.said, editor.owed, editor.open, editor.extra)
<1>1. editor = Ed(editor.view, editor.said, editor.owed, editor.open, editor.extra)
  BY EditorAt
<1>2. PICK e, w, S, o, p, x : e = editor /\ w = editor.view /\ S = editor.said /\ o = editor.owed /\ p = editor.open /\ x = editor.extra
  OBVIOUS
<1>3. e = Ed(w, S, o, p, x)
  BY <1>1, <1>2, Zenon
<1>4. Views(e, v) = Ed(v, IF v \in {"stopped", "running", "gone"} THEN {} ELSE S, o, p, x)
  BY <1>3, ViewsIs
<1>5. QED  BY <1>2, <1>4, Zenon DEF Told

SameStart(x, y) ==
    /\ y.bps = x.bps /\ y.wps = x.wps
    /\ DOMAIN x.bps = {} /\ DOMAIN x.wps = {} => y.state = x.state
    /\ x.state.k # "Start" => y.state.k # "Start"

\* The editor is told of a stop.
LEMMA ToldSeen ==
    ASSUME NEW m, NEW dp, NEW v, NEW S, NEW o, NEW q, NEW x, NEW y, Seen(m, "running", dp, v, S, o, q, x), v # "gone",
           SameStart(x, y), NEW w, w = (IF y.state.k = "Start" THEN "configuring" ELSE "stopped"),
           NEW S2, S2 = IF w \in {"stopped", "running", "gone"} THEN {} ELSE S
    PROVE  Seen(m, "stopped", dp, w, S2, o, q, y)
<1>1. m # "cli"
  BY Zenon DEF Seen
<1>2. CASE Loading(m, "running", dp, v, S, o, q, x)
  <2>1. /\ m = "launch" /\ dp = Dap(Yes, No, No) /\ q = <<>> /\ S = {"initialize", "launch"} /\ o = 1 /\ y.state = x.state
        /\ x.state.k = "Start"
    BY <1>2, Zenon DEF Loading, SameStart
  <2>2. w = "configuring"
    BY <2>1, Zenon
  <2>3. S2 = S
    BY <2>2
  <2>4. "threads" \notin S
    BY <2>1
  <2>5. ConfC(q, S) /\ Len(q) = 0
    BY <2>1, <2>4, EmptyQueue
  <2>6. o = Len(q) + 1
    BY <2>1, <2>5
  <2>7. Preparing(m, "stopped", dp, w, S2, o, q)
    BY <2>1, <2>2, <2>3, <2>5, <2>6, Zenon DEF Preparing
  <2>8. QED  BY <1>1, <2>7, Zenon DEF Seen
<1>3. CASE Debugging(m, "running", dp, v, o, q, x)
  <2>1. dp = ReadyC(m) /\ o = Len(q) /\ y.state.k # "Start"
    BY <1>3, Zenon DEF Debugging, SameStart
  <2>2. w = "stopped"
    BY <2>1, Zenon
  <2>3. w \in {"stopped", "running"} /\ "stopped" # "running"
    BY <2>2
  <2>4. Debugging(m, "stopped", dp, w, o, q, y)
    BY <2>1, <2>2, <2>3, Zenon DEF Debugging
  <2>5. QED  BY <1>1, <2>4, Zenon DEF Seen
<1>4. "running" # "stopped"
  OBVIOUS
<1>5. QED  BY <1>2, <1>3, <1>4, Zenon DEF Seen, Gone, Preparing

LEMMA StillSeen ==
    ASSUME NEW m, NEW dp, NEW v, NEW S, NEW o, NEW q, NEW x, NEW y, Seen(m, "running", dp, v, S, o, q, x), SameStart(x, y)
    PROVE  Seen(m, "running", dp, v, S, o, q, y)
<1>1. "running" # "stopped"
  OBVIOUS
<1>2. QED  BY <1>1, Zenon DEF Seen, Loading, Preparing, Debugging, SameStart

LEMMA GoneSeen ==
    ASSUME NEW m, NEW ph, NEW dp, NEW v, NEW S, NEW o, NEW q, NEW x, Seen(m, ph, dp, v, S, o, q, x), v = "gone"
    PROVE  q = <<>> /\ \A h, e, y : Seen(m, h, e, v, S, o, q, y)
<1>1. v # "init" /\ v # "configuring" /\ v \notin {"stopped", "running"}
  OBVIOUS
<1>2. QED  BY <1>1, Zenon DEF Seen, Gone, Loading, Preparing, Debugging

LEMMA BeginEdits ==
    ASSUME RunType, RunInv, EditorType, EditorInv, Begin
    PROVE  EditorType' /\ EditorInv'
<1>1. /\ phase = "running" /\ UNCHANGED <<mode, dap, inbox>>
      /\ \/ phase' = "running" /\ editor' = editor
         \/ phase' = "stopped" /\ mode = "cli" /\ editor' = editor
         \/ phase' = "stopped" /\ editor' = Told(editor, IF d'.state.k = "Start" THEN "configuring" ELSE "stopped")
  BY BeginTells
<1>2. PICK x, y, m, dp, v, S, o, q :
          x = d /\ y = d' /\ m = mode /\ dp = dap /\ v = editor.view /\ S = editor.said /\ o = editor.owed /\ q = inbox
  OBVIOUS
<1>3. SameStart(x, y)
  <2>1. BeginOutcome
    BY BeginIs
  <2>2. PICK e : e = Here'
    OBVIOUS
  <2>3. PICK x1, y1, A, z, s : x1 = d /\ y1 = d' /\ Strikes(x1, e, A, z) /\ Looks(x1, e, z, s) /\ Begun(x1, e, y1, A, s)
    BY <2>1, <2>2, Zenon DEF BeginOutcome
  <2>4. SameStart(x1, y1)
    BY ONLY <2>3, BeginKinds DEF SameStart
  <2>5. QED  BY <1>2, <2>3, <2>4, Zenon
<1>4. phase # "handshake" /\ phase' # "handshake"
  BY <1>1
<1>5. editor.open => Seen(m, "running", dp, v, S, o, q, x)
  BY <1>1, <1>2, <1>4, EditorIs, Zenon
<1>6. CASE phase' = "running" /\ editor' = editor
  <2>1. ASSUME editor.open PROVE Seen(m, "running", dp, v, S, o, q, y)
    BY <1>3, <1>5, <2>1, StillSeen
  <2>2. editor.open => Seen(mode, phase', dap, editor.view, editor.said, editor.owed, inbox, d')
    BY <1>2, <1>6, <2>1, Zenon
  <2>3. QED  BY <1>1, <1>4, <1>6, <2>2, EditorAside
<1>7. CASE phase' = "stopped" /\ mode = "cli" /\ editor' = editor
  <2>1. ~ editor.open
    BY <1>2, <1>5, <1>7, Zenon DEF Seen
  <2>2. QED  BY <1>1, <1>4, <1>7, <2>1, EditorAside
<1>8. CASE phase' = "stopped" /\ editor' = editor /\ (editor.view = "gone" \/ ~ editor.open)
  <2>1. ASSUME editor.open PROVE Seen(m, "stopped", dp, v, S, o, q, y)
    <3>1. v = "gone" /\ Seen(m, "running", dp, v, S, o, q, x)
      BY <1>2, <1>5, <1>8, <2>1, Zenon
    <3>2. QED  BY <3>1, GoneSeen
  <2>2. editor.open => Seen(mode, phase', dap, editor.view, editor.said, editor.owed, inbox, d')
    BY <1>2, <1>8, <2>1, Zenon
  <2>3. QED  BY <1>1, <1>4, <1>8, <2>2, EditorAside
<1>9. ASSUME NEW w, w = (IF y.state.k = "Start" THEN "configuring" ELSE "stopped"), phase' = "stopped", editor.view # "gone",
             editor' = Ed(w, IF w \in {"stopped", "running", "gone"} THEN {} ELSE editor.said, editor.owed, editor.open, editor.extra)
      PROVE  EditorType' /\ EditorInv'
  <2>1. PICK S2, p, u, e : S2 = (IF w \in {"stopped", "running", "gone"} THEN {} ELSE S) /\ p = editor.open /\ u = editor.extra /\ e = editor'
    OBVIOUS
  <2>2. e = Ed(w, S2, o, p, u)
    BY <1>2, <1>9, <2>1, Zenon
  <2>3. w \in EditorViews /\ S2 \in SaidSets /\ o \in Int /\ p \in BOOLEAN /\ u \in Nat
    <3>1. S \in SaidSets /\ o \in Int /\ p \in BOOLEAN /\ u \in Nat
      BY <1>2, <2>1, EditorAt, Zenon
    <3>2. w \in EditorViews
      BY <1>9 DEF EditorViews
    <3>3. S2 \in SaidSets
      BY <2>1, <3>1 DEF SaidSets
    <3>4. QED  BY <3>1, <3>2, <3>3, Zenon
  <2>4. /\ e \in [view: EditorViews, said: SaidSets, owed: Int, open: BOOLEAN, extra: Nat]
        /\ e.view = w /\ e.said = S2 /\ e.owed = o /\ e.open = p
    BY ONLY <2>2, <2>3, EditorMade
  <2>5. EditorType'
    BY <1>1, <2>1, <2>4, Zenon DEF EditorType
  <2>6. ASSUME editor.open PROVE Seen(m, "stopped", dp, w, S2, o, q, y)
    <3>1. Seen(m, "running", dp, v, S, o, q, x) /\ v # "gone"
      BY <1>2, <1>5, <1>9, <2>6, Zenon
    <3>2. QED  BY ONLY <3>1, <1>3, <1>9, <2>1, ToldSeen
  <2>7. editor'.open => Seen(mode', phase', dap', editor'.view, editor'.said, editor'.owed, inbox', d')
    BY <1>1, <1>2, <1>9, <2>1, <2>4, <2>6, Zenon
  <2>8. LiveC(inbox')
    BY <1>1, <1>4, EditorIs, Zenon
  <2>9. EditorInv'
    BY <1>4, <2>7, <2>8, EditorFrom, Zenon
  <2>10. QED  BY <2>5, <2>9
<1>10. CASE phase' = "stopped" /\ editor' = Told(editor, IF d'.state.k = "Start" THEN "configuring" ELSE "stopped")
  <2>1. PICK w : w = IF y.state.k = "Start" THEN "configuring" ELSE "stopped"
    OBVIOUS
  <2>2. editor' = Told(editor, w)
    BY <1>2, <1>10, <2>1, Zenon
  <2>3. \/ editor' = editor /\ (editor.view = "gone" \/ ~ editor.open)
        \/ /\ editor.view # "gone"
           /\ editor' = Ed(w, IF w \in {"stopped", "running", "gone"} THEN {} ELSE editor.said, editor.owed, editor.open, editor.extra)
    BY <2>2, ToldIs, Zenon
  <2>4. QED  BY <1>8, <1>9, <1>10, <2>1, <2>3, Zenon
<1>11. QED  BY <1>1, <1>6, <1>7, <1>10, Zenon

LEMMA EditorBecomes ==
    ASSUME EditorType, NEW w, w \in EditorViews, NEW S2, S2 \in SaidSets, NEW o2, o2 \in Int, Edits(w, S2, o2),
           NEW q2, q2 \in Seq(EditorRequests), inbox' = q2,
           NEW dp2, dp2 \in [launched: BOOLEAN, init: BOOLEAN, config: BOOLEAN], dap' = dp2,
           phase' = "handshake" => Shake(mode', dp2, w, S2, o2, q2),
           phase' # "handshake" => LiveC(q2),
           phase' # "handshake" /\ editor.open => Seen(mode', phase', dp2, w, S2, o2, q2, d')
    PROVE  EditorType' /\ EditorInv'
<1>1. PICK p, u, e : p = editor.open /\ u = editor.extra /\ e = editor'
  OBVIOUS
<1>2. e = Ed(w, S2, o2, p, u)
  BY <1>1, Zenon DEF Edits
<1>3. w \in EditorViews /\ S2 \in SaidSets /\ o2 \in Int /\ p \in BOOLEAN /\ u \in Nat
  BY <1>1, EditorAt, Zenon
<1>4. /\ e \in [view: EditorViews, said: SaidSets, owed: Int, open: BOOLEAN, extra: Nat]
      /\ e.view = w /\ e.said = S2 /\ e.owed = o2 /\ e.open = p
  BY ONLY <1>2, <1>3, EditorMade
<1>5. EditorType'
  BY <1>1, <1>4, Zenon DEF EditorType
<1>6. phase' = "handshake" => Shake(mode', dap', editor'.view, editor'.said, editor'.owed, inbox')
  BY <1>1, <1>4, Zenon
<1>7. phase' # "handshake" => LiveC(inbox')
  BY Zenon
<1>8. phase' # "handshake" /\ editor'.open => Seen(mode', phase', dap', editor'.view, editor'.said, editor'.owed, inbox', d')
  BY <1>1, <1>4, Zenon
<1>9. EditorInv'
  BY <1>6, <1>7, <1>8, EditorFrom
<1>10. QED  BY <1>5, <1>9

LEMMA DapValues ==
    /\ Dap(No, No, No) \in [launched: BOOLEAN, init: BOOLEAN, config: BOOLEAN]
    /\ Dap(No, No, Yes) \in [launched: BOOLEAN, init: BOOLEAN, config: BOOLEAN]
    /\ Dap(Yes, No, No) \in [launched: BOOLEAN, init: BOOLEAN, config: BOOLEAN]
    /\ Dap(Yes, Yes, No) \in [launched: BOOLEAN, init: BOOLEAN, config: BOOLEAN]
<1>1. Yes \in BOOLEAN /\ No \in BOOLEAN
  BY Zenon DEF Yes, No
<1>2. QED  BY <1>1, DapMade

LEMMA ShakeConf ==
    ASSUME NEW m, NEW dp, NEW v, NEW S, NEW o, NEW q, Shake(m, dp, v, S, o, q), v = "configuring"
    PROVE  m = "attach" /\ dp = Dap(No, No, No) /\ o = Len(q) /\ ConfC(q, S)
<1>1. v # "new" /\ v # "init" /\ v # "failed"
  OBVIOUS
<1>2. QED  BY <1>1, Zenon DEF Shake

\* The invariant of the editor, for the steps of the handshake.
LEMMA HandshakeEdits ==
    ASSUME RunType, EditorType, EditorInv, Handshake
    PROVE  EditorType' /\ EditorInv'
<1>1. HandshakeInv /\ phase = "handshake"
  BY Zenon DEF EditorInv, Handshake
<1>2. Reads /\ (HsInit \/ HsFailed \/ HsLaunched \/ HsAttached \/ HsConfigured \/ HsMarked)
  BY <1>1, HandshakeStep
<1>3. PICK m, dp, v, S, o, q, t, k : m = mode /\ dp = dap /\ v = editor.view /\ S = editor.said /\ o = editor.owed /\ q = inbox
                                     /\ t = Tail(q) /\ k = Head(q).k
  OBVIOUS
<1>4. Shake(m, dp, v, S, o, q) /\ mode' = m /\ inbox' = t /\ q # <<>>
  BY <1>1, <1>2, <1>3, EditorIs, Zenon DEF Reads
<1>5. q \in Seq(EditorRequests) /\ S \in SaidSets /\ o \in Int /\ v \in EditorViews
  BY <1>3, EditorAt, Zenon
<1>6. t \in Seq(EditorRequests) /\ Len(q) \in Nat /\ Len(t) = Len(q) - 1 /\ (Len(q) = 1 => t = <<>>)
  BY <1>3, <1>4, <1>5, QueueTail
<1>7. dp = Dap(No, No, No) /\ o = Len(q) /\ m # "cli"
  BY <1>4, Zenon DEF Shake
<1>8. o - 1 = Len(t) /\ o - 1 \in Int
  BY <1>6, <1>7
<1>9. /\ k \in ConfigKinds => m = "attach" /\ v = "configuring"
      /\ k \in {"initialize", "launch", "attach"} => Len(q) = 1 /\ o = 1
      /\ k = "initialize" => v = "new" /\ S = {"initialize"}
      /\ k \in {"launch", "attach"} => v = "init" /\ k = Starting(m) /\ S = {"initialize", Starting(m)}
  BY <1>1, <1>2, <1>3, <1>4, HeadKind, QueueIs, Zenon
<1>10. PICK y : y = d'
  OBVIOUS
<1>11. CASE HsInit
  <2>1. k = "initialize" /\ dap' = dp /\ Edits("init", S, o - 1) /\ phase' = "handshake"
    BY <1>3, <1>11, Zenon DEF HsInit, Waiting
  <2>2. S = {"initialize"} /\ t = <<>>
    BY <1>6, <1>9, <2>1
  <2>3. PICK w, o2 : w = "init" /\ o2 = o - 1
    OBVIOUS
  <2>4. w \in EditorViews /\ o2 \in Int /\ dp \in [launched: BOOLEAN, init: BOOLEAN, config: BOOLEAN] /\ Edits(w, S, o2) /\ o2 = Len(t)
    BY <1>7, <1>8, <2>1, <2>3, DapValues DEF EditorViews
  <2>5. Shake(mode', dp, w, S, o2, t)
    BY <1>4, <1>7, <2>2, <2>3, <2>4, Zenon DEF Shake
  <2>6. QED  BY <1>4, <1>5, <1>6, <2>1, <2>4, <2>5, EditorBecomes
<1>12. CASE HsFailed
  <2>1. k = "launch" /\ dap' = dp /\ Edits("failed", S, o - 1) /\ phase' = "handshake"
    BY <1>3, <1>12, Zenon DEF HsFailed, Waiting
  <2>2. t = <<>>
    BY <1>6, <1>9, <2>1
  <2>3. PICK w, o2 : w = "failed" /\ o2 = o - 1
    OBVIOUS
  <2>4. w \in EditorViews /\ o2 \in Int /\ dp \in [launched: BOOLEAN, init: BOOLEAN, config: BOOLEAN] /\ Edits(w, S, o2) /\ o2 = Len(t)
    BY <1>7, <1>8, <2>1, <2>3, DapValues DEF EditorViews
  <2>5. Shake(mode', dp, w, S, o2, t)
    BY <1>4, <1>7, <2>2, <2>3, <2>4, Zenon DEF Shake
  <2>6. QED  BY <1>4, <1>5, <1>6, <2>1, <2>4, <2>5, EditorBecomes
<1>13. CASE HsLaunched
  <2>1. k = "launch" /\ d' = NewDebugState /\ dap' = Dap(Yes, No, No) /\ editor' = editor /\ phase' = "running"
    BY <1>3, <1>13, Zenon DEF HsLaunched
  <2>2. t = <<>> /\ o = 1 /\ v = "init" /\ k = Starting(m) /\ S = {"initialize", Starting(m)}
    BY <1>6, <1>9, <2>1
  <2>3. m = "launch"
    BY <2>1, <2>2 DEF Starting
  <2>4. S = {"initialize", "launch"}
    BY <2>1, <2>2, Zenon
  <2>5. y.state.k = "Start" /\ DOMAIN y.bps = {} /\ DOMAIN y.wps = {}
    BY <1>10, <2>1, FreshState, Zenon
  <2>6. PICK ph, e2 : ph = "running" /\ e2 = Dap(Yes, No, No)
    OBVIOUS
  <2>7. ph \in {"running", "ended"} /\ phase' = ph /\ ph # "handshake" /\ m # "cli" /\ e2 \in [launched: BOOLEAN, init: BOOLEAN, config: BOOLEAN]
    BY <2>1, <2>3, <2>6, DapValues
  <2>8. Seen(m, ph, e2, v, S, o, t, y)
    BY <2>2, <2>3, <2>4, <2>5, <2>6, <2>7, Zenon DEF Seen, Loading
  <2>9. LiveC(t)
    BY <2>2, EmptyQueue
  <2>10. Edits(v, S, o)
    BY <1>3, <2>1, EditorAt, Zenon DEF Edits
  <2>11. dap' = e2 /\ (phase' = "handshake" => Shake(mode', e2, v, S, o, t)) /\ Seen(mode', phase', e2, v, S, o, t, d')
    BY <1>4, <1>10, <2>1, <2>6, <2>7, <2>8, Zenon
  <2>12. QED  BY <1>4, <1>5, <1>6, <2>7, <2>9, <2>10, <2>11, EditorBecomes
<1>14. CASE HsAttached
  <2>1. k = "attach" /\ dap' = dp /\ Edits("configuring", S, o - 1) /\ phase' = "handshake"
    BY <1>3, <1>14, Zenon DEF HsAttached, Waiting
  <2>2. t = <<>> /\ k = Starting(m) /\ S = {"initialize", Starting(m)}
    BY <1>6, <1>9, <2>1
  <2>3. PICK w, o2 : w = "configuring" /\ o2 = o - 1
    OBVIOUS
  <2>4. w \in EditorViews /\ o2 \in Int /\ dp \in [launched: BOOLEAN, init: BOOLEAN, config: BOOLEAN] /\ Edits(w, S, o2) /\ o2 = Len(t)
    BY <1>7, <1>8, <2>1, <2>3, DapValues DEF EditorViews
  <2>5. "threads" \notin S
    BY <2>1, <2>2
  <2>6. ConfC(t, S)
    BY <2>2, <2>5, EmptyQueue
  <2>7. m = "attach"
    <3>1. m \in {"cli", "launch", "attach"}
      BY <1>3, Zenon DEF RunType
    <3>2. "attach" # "launch"
      OBVIOUS
    <3>3. QED  BY <1>7, <2>1, <2>2, <3>1, <3>2 DEF Starting
  <2>8. Shake(mode', dp, w, S, o2, t)
    BY <1>4, <1>7, <2>3, <2>4, <2>6, <2>7, Zenon DEF Shake
  <2>9. QED  BY <1>4, <1>5, <1>6, <2>1, <2>4, <2>8, EditorBecomes
<1>15. CASE HsConfigured
  <2>1. k \in {"threads", "configurationDone"} /\ dap' = Dap(No, No, Yes) /\ Edits("running", {}, o - 1) /\ phase' = "idle"
    BY <1>3, <1>15, Zenon DEF HsConfigured
  <2>2. m = "attach" /\ v = "configuring"
    BY <1>9, <2>1 DEF ConfigKinds
  <2>3. ConfC(q, S)
    BY <1>4, <2>2, ShakeConf
  <2>4. LiveC(t)
    <3>1. LiveC(q)
      BY <2>3, ConfLive
    <3>2. QED  BY <1>3, <1>4, <1>5, <3>1, LiveTail
  <2>5. PICK w, S2, o2, ph, e2 : w = "running" /\ S2 = {} /\ o2 = o - 1 /\ ph = "idle" /\ e2 = Dap(No, No, Yes)
    OBVIOUS
  <2>6. /\ w \in EditorViews /\ S2 \in SaidSets /\ o2 \in Int /\ e2 \in [launched: BOOLEAN, init: BOOLEAN, config: BOOLEAN]
        /\ o2 = Len(t) /\ w \in {"stopped", "running"} /\ phase' = ph /\ ph # "stopped" /\ ph # "running" /\ ph # "handshake"
    BY <1>8, <2>1, <2>5, DapValues DEF EditorViews, SaidSets
  <2>7. Edits(w, S2, o2) /\ dap' = e2
    BY <2>1, <2>5, Zenon
  <2>8. Seen(m, ph, e2, w, S2, o2, t, y)
    BY <1>7, <2>2, <2>5, <2>6, Zenon DEF Seen, Debugging, ReadyC
  <2>9. (phase' = "handshake" => Shake(mode', e2, w, S2, o2, t)) /\ Seen(mode', phase', e2, w, S2, o2, t, d')
    BY <1>4, <1>10, <2>6, <2>8, Zenon
  <2>10. QED  BY <1>4, <1>6, <2>4, <2>6, <2>7, <2>9, EditorBecomes
<1>16. CASE HsMarked
  <2>1. k = "setBreakpoints" /\ dap' = dp /\ Edits(v, S, o - 1) /\ phase' = "handshake"
    BY <1>3, <1>16, Zenon DEF HsMarked, Waiting
  <2>2. m = "attach" /\ v = "configuring"
    BY <1>9, <2>1 DEF ConfigKinds
  <2>3. ConfC(q, S)
    BY <1>4, <2>2, ShakeConf
  <2>4. ConfC(t, S)
    BY <1>3, <1>4, <1>5, <2>1, <2>3, ConfTail
  <2>5. PICK o2 : o2 = o - 1
    OBVIOUS
  <2>6. o2 \in Int /\ dp \in [launched: BOOLEAN, init: BOOLEAN, config: BOOLEAN] /\ Edits(v, S, o2) /\ o2 = Len(t)
    BY <1>7, <1>8, <2>1, <2>5, DapValues
  <2>7. Shake(mode', dp, v, S, o2, t)
    BY <1>4, <1>7, <2>2, <2>4, <2>6, Zenon DEF Shake
  <2>8. QED  BY <1>4, <1>5, <1>6, <2>1, <2>6, <2>7, EditorBecomes
<1>17. QED  BY <1>2, <1>11, <1>12, <1>13, <1>14, <1>15, <1>16

AtStop(m, dp, v, o, q) == v = "stopped" /\ dp = ReadyC(m) /\ o = Len(q)
LEMMA StoppedSeen ==
    ASSUME NEW m, NEW dp, NEW v, NEW S, NEW o, NEW q, NEW x, Seen(m, "stopped", dp, v, S, o, q, x), q # <<>>
    PROVE  m # "cli" /\ (Preparing(m, "stopped", dp, v, S, o, q) \/ AtStop(m, dp, v, o, q))
<1>1. "stopped" \notin {"running", "ended"}
  OBVIOUS
<1>2. QED  BY <1>1, Zenon DEF Seen, Gone, Loading, Debugging, AtStop

LEMMA ReadyConfig ==
    ASSUME NEW m, NEW dp, dp = ReadyC(m)
    PROVE  (m # "attach" => dp.init = Yes) /\ (m = "attach" => dp.config = Yes)
<1>1. CASE m = "attach"
  <2>1. dp = Dap(No, No, Yes)
    BY <1>1, Zenon DEF ReadyC
  <2>2. dp.config = Yes
    BY <2>1, DapFieldsAre
  <2>3. QED  BY <1>1, <2>2
<1>2. CASE m # "attach"
  <2>1. dp = Dap(Yes, Yes, No)
    BY <1>2, Zenon DEF ReadyC
  <2>2. dp.init = Yes
    BY <2>1, DapFieldsAre
  <2>3. QED  BY <1>2, <2>2
<1>3. QED  BY <1>1, <1>2

\* A resumed program is not at its start.
LEMMA ResumedState ==
    ASSUME RunType, RunInv, phase = "stopped", NEW cmd, cmd # "any", Proceeding(cmd, d')
    PROVE  d'.state.k # "Start"
<1>1. PICK x, y, n : x = d /\ y = d' /\ n = Here.id
  OBVIOUS
<1>2. IsDebugState(x) /\ n \in Nat
  BY <1>1, RunTypeIs, StoppedAt
<1>3. Resumption(x, y, cmd, n)
  BY <1>1, ProceedingIs, Zenon
<1>4. ASSUME NEW k, NEW i, k # "Start", y.state = St(k, i) PROVE y.state.k # "Start"
  BY <1>4, StKinds
<1>5. ASSUME cmd = "out" PROVE y.state.k # "Start"
  <2>1. /\ Len(x.stack) >= 2 => y.state = St("Finish", x.stack[Len(x.stack) - 1].id)
        /\ Len(x.stack) < 2 => y.state = St("Continue", 0)
    <3>1. cmd # "in" /\ cmd # "go" /\ cmd # "over" /\ cmd # "quit"
      BY <1>5
    <3>2. QED  BY <1>3, <3>1, Zenon DEF Resumption
  <2>2. Len(x.stack) \in Nat
    <3>1. x.stack \in Seq(StackFrames)
      BY <1>2, Zenon DEF IsDebugState
    <3>2. QED  BY <3>1
  <2>3. Len(x.stack) >= 2 \/ Len(x.stack) < 2
    BY <2>2
  <2>4. "Finish" # "Start" /\ "Continue" # "Start"
    OBVIOUS
  <2>5. CASE Len(x.stack) >= 2
    <3>1. PICK i : i = x.stack[Len(x.stack) - 1].id
      OBVIOUS
    <3>2. y.state = St("Finish", i)
      BY <2>1, <2>5, <3>1, Zenon
    <3>3. QED  BY <3>2, StKinds
  <2>6. CASE Len(x.stack) < 2
    <3>1. y.state = St("Continue", 0)
      BY <2>1, <2>6, Zenon
    <3>2. QED  BY <3>1, StKinds
  <2>7. QED  BY <2>3, <2>5, <2>6, Zenon
<1>6. ASSUME cmd = "over" PROVE y.state.k # "Start"
  <2>1. cmd # "in" /\ cmd # "go" /\ cmd # "out" /\ cmd # "quit" /\ "StepOver" # "Start"
    BY <1>6
  <2>2. y.state = St("StepOver", n)
    BY <1>3, <1>6, <2>1, Zenon DEF Resumption
  <2>3. QED  BY <2>2, StKinds
<1>7. ASSUME cmd # "out" /\ cmd # "over" PROVE y.state.k # "Start"
  <2>1. y.state.k \in {"StepIn", "Pause"} \/ y.state.k = "Continue" \/ y.state.k = "Quit"
    BY <1>3, <1>7, Zenon DEF Resumption
  <2>2. QED  BY <2>1
<1>8. QED  BY <1>1, <1>5, <1>6, <1>7, Zenon

\* The invariant of the editor, for the steps in which a stopped debugger reads a request.
LEMMA CommandEdits ==
    ASSUME RunType, RunInv, EditorType, EditorInv, CommandRequest
    PROVE  EditorType' /\ EditorInv'
<1>1. LiveInv /\ phase = "stopped" /\ mode # "cli"
  BY Zenon DEF EditorInv, CommandRequest
<1>2. Reads /\ (CmGoes \/ CmPauses \/ CmLeaves \/ CmFinishes \/ CmConfigures \/ CmAnswers)
  BY <1>1, CommandStep, Zenon
<1>3. PICK m, dp, v, S, o, q, t, k : m = mode /\ dp = dap /\ v = editor.view /\ S = editor.said /\ o = editor.owed /\ q = inbox
                                     /\ t = Tail(q) /\ k = Head(q).k
  OBVIOUS
<1>4. mode' = m /\ inbox' = t /\ q # <<>> /\ m # "cli"
  BY <1>1, <1>2, <1>3, Zenon DEF Reads
<1>5. /\ q \in Seq(EditorRequests) /\ S \in SaidSets /\ o \in Int /\ v \in EditorViews
      /\ dp \in [launched: BOOLEAN, init: BOOLEAN, config: BOOLEAN]
  BY <1>3, EditorAt, Zenon DEF EditorType
<1>6. t \in Seq(EditorRequests) /\ Len(q) \in Nat /\ Len(t) = Len(q) - 1
  BY <1>3, <1>4, <1>5, QueueTail
<1>7. LiveC(t) /\ (k = "disconnect" => t = <<>>)
  <2>1. phase # "handshake"
    BY <1>1
  <2>2. LiveC(q)
    BY <1>3, <2>1, EditorIs, Zenon
  <2>3. QED  BY <1>3, <1>4, <1>5, <2>2, LiveTail
<1>8. editor.open => Preparing(m, "stopped", dp, v, S, o, q) \/ AtStop(m, dp, v, o, q)
  <2> SUFFICES ASSUME editor.open PROVE Preparing(m, "stopped", dp, v, S, o, q) \/ AtStop(m, dp, v, o, q)
    OBVIOUS
  <2>1. phase # "handshake"
    BY <1>1
  <2>2. PICK x : x = d
    OBVIOUS
  <2>3. Seen(m, "stopped", dp, v, S, o, q, x)
    BY <1>1, <1>3, <2>1, <2>2, EditorIs, Zenon
  <2>4. QED  BY <1>4, <2>3, StoppedSeen
<1>9. ASSUME Preparing(m, "stopped", dp, v, S, o, q)
      PROVE  /\ v = "configuring" /\ m = "launch" /\ dp = Dap(Yes, No, No) /\ o = Len(q) + 1 /\ ConfC(q, S)
             /\ k \in ConfigKinds /\ (k = "threads" => t = <<>>) /\ (k # "threads" => ConfC(t, S))
  <2>1. v = "configuring" /\ m = "launch" /\ dp = Dap(Yes, No, No) /\ o = Len(q) + 1 /\ ConfC(q, S)
    BY <1>9, Zenon DEF Preparing
  <2>2. KindsC(q, ConfigKinds) /\ LastC(q, "threads")
    BY <2>1, Zenon DEF ConfC
  <2>3. k \in ConfigKinds
    BY <1>3, <1>4, <1>5, <2>2, QueueTail
  <2>4. k = "threads" => t = <<>>
    BY <1>3, <1>4, <1>5, <2>2, QueueTail
  <2>5. k # "threads" => ConfC(t, S)
    BY <1>3, <1>4, <1>5, <2>1, ConfTail
  <2>6. QED  BY <2>1, <2>3, <2>4, <2>5, Zenon
<1>10. ASSUME AtStop(m, dp, v, o, q)
       PROVE  v = "stopped" /\ dp = ReadyC(m) /\ o - 1 = Len(t)
  <2>1. v = "stopped" /\ dp = ReadyC(m) /\ o = Len(q)
    BY <1>10, Zenon DEF AtStop
  <2>2. o - 1 = Len(t)
    BY <1>6, <2>1
  <2>3. QED  BY <2>1, <2>2
<1>11. PICK y, o2 : y = d' /\ o2 = o - 1
  OBVIOUS
<1>12. o2 \in Int /\ o - 2 \in Int
  BY <1>5, <1>11
<1>13. ASSUME NEW w, NEW S2, w \in {"stopped", "running"}, S2 = S \/ S2 = {}, Edits(w, S2, o2), dap' = dp, phase' = "running",
              k \notin ConfigKinds, y.state.k # "Start"
       PROVE  EditorType' /\ EditorInv'
  <2>1. w \in EditorViews
    BY <1>13 DEF EditorViews
  <2>2. PICK ph : ph = "running"
    OBVIOUS
  <2>3. ph # "stopped" /\ ph # "handshake" /\ phase' = ph
    BY <1>13, <2>2
  <2>4. ASSUME editor.open PROVE Seen(m, ph, dp, w, S2, o2, t, y)
    <3>1. AtStop(m, dp, v, o, q)
      BY <1>8, <1>9, <1>13, <2>4, Zenon
    <3>2. QED  BY <1>4, <1>10, <1>11, <1>13, <2>3, <3>1, Zenon DEF Seen, Debugging
  <2>5. editor.open => Seen(mode', phase', dp, w, S2, o2, t, d')
    BY <1>4, <1>11, <2>3, <2>4, Zenon
  <2>6. phase' # "handshake"
    BY <2>3, Zenon
  <2>7. S2 \in SaidSets
    BY <1>5, <1>13 DEF SaidSets
  <2>8. QED  BY <1>4, <1>5, <1>6, <1>7, <1>12, <1>13, <2>1, <2>5, <2>6, <2>7, EditorBecomes
<1>14. CASE CmGoes
  <2>1. /\ k \in StepKinds /\ d' = Stepped(k, d, Here.id) /\ dap' = dp /\ Edits("running", {}, o2) /\ phase' = "running"
    BY <1>3, <1>11, <1>14, Zenon DEF CmGoes, Resuming
  <2>2. k \notin ConfigKinds
    BY <2>1 DEF StepKinds, ConfigKinds
  <2>3. y.state.k # "Start"
    <3>1. PICK cmd : cmd = Asked(k)
      OBVIOUS
    <3>2. Proceeding(cmd, d') /\ cmd # "any"
      <4>1. CASE k = "stepIn"
        BY <2>1, <3>1, <4>1 DEF Asked, Stepped, Proceeding
      <4>2. CASE k = "stepOut"
        BY <2>1, <3>1, <4>2 DEF Asked, Stepped, Proceeding
      <4>3. CASE k = "next"
        BY <2>1, <3>1, <4>3 DEF Asked, Stepped, Proceeding
      <4>4. CASE k = "continue"
        BY <2>1, <3>1, <4>4 DEF Asked, Stepped, Proceeding
      <4>5. QED  BY <2>1, <4>1, <4>2, <4>3, <4>4 DEF StepKinds
    <3>3. d'.state.k # "Start"
      BY <1>1, <3>2, ResumedState
    <3>4. QED  BY <1>11, <3>3, Zenon
  <2>4. PICK w, S2 : w = "running" /\ S2 = {}
    OBVIOUS
  <2>5. w \in {"stopped", "running"} /\ (S2 = S \/ S2 = {})
    BY <2>4
  <2>6. Edits(w, S2, o2)
    BY <2>1, <2>4, Zenon
  <2>7. QED  BY <1>13, <2>1, <2>2, <2>3, <2>5, <2>6
<1>15. CASE CmPauses
  <2>1. k = "pause" /\ d' = pause(d) /\ dap' = dp /\ Edits(v, S, o2) /\ phase' = "running"
    BY <1>3, <1>11, <1>15, Zenon DEF CmPauses, Resuming
  <2>2. k \notin ConfigKinds
    BY <2>1 DEF ConfigKinds
  <2>3. y.state.k # "Start"
    <3>1. PICK cmd : cmd = "in"
      OBVIOUS
    <3>2. Proceeding(cmd, d')
      BY <2>1, <3>1, Zenon DEF Proceeding
    <3>3. cmd # "any"
      BY <3>1
    <3>4. d'.state.k # "Start"
      BY <1>1, <3>2, <3>3, ResumedState
    <3>5. QED  BY <1>11, <3>4, Zenon
  <2>4. CASE v \in {"stopped", "running"}
    <3>1. PICK w, S2 : w = v /\ S2 = S
      OBVIOUS
    <3>2. w \in {"stopped", "running"} /\ (S2 = S \/ S2 = {})
      BY <2>4, <3>1
    <3>3. Edits(w, S2, o2) /\ dap' = dp /\ phase' = "running"
      BY <2>1, <3>1, Zenon
    <3>4. QED  BY <1>13, <2>2, <2>3, <3>2, <3>3
  <2>5. CASE v \notin {"stopped", "running"}
    <3>1. ~ editor.open
      <4>1. ~ AtStop(m, dp, v, o, q)
        BY <2>5 DEF AtStop
      <4>2. QED  BY <1>8, <1>9, <2>2, <4>1, Zenon
    <3>2. phase' # "handshake"
      BY <2>1
    <3>3. QED  BY <1>4, <1>5, <1>6, <1>7, <1>12, <2>1, <3>1, <3>2, EditorBecomes
  <2>6. QED  BY <2>4, <2>5
<1>16. CASE CmLeaves
  <2>1. k = "disconnect" /\ dap' = dp /\ Edits("gone", {}, o2) /\ phase' = "running"
    BY <1>3, <1>11, <1>16, Zenon DEF CmLeaves, Resuming
  <2>2. t = <<>>
    BY <1>7, <2>1
  <2>3. PICK w, S2 : w = "gone" /\ S2 = {}
    OBVIOUS
  <2>4. w \in EditorViews /\ S2 \in SaidSets /\ phase' # "handshake"
    BY <2>1, <2>3 DEF EditorViews, SaidSets
  <2>5. Seen(mode', phase', dp, w, S2, o2, t, d') /\ Edits(w, S2, o2)
    BY <1>4, <2>1, <2>2, <2>3, Zenon DEF Seen, Gone
  <2>6. QED  BY <1>4, <1>5, <1>6, <1>7, <1>12, <2>1, <2>4, <2>5, EditorBecomes
<1>17. CASE CmFinishes
  <2>1. /\ k = "threads" /\ m # "attach" /\ dp.init = No /\ dap' = Dap(dp.launched, Yes, dp.config)
        /\ Edits("stopped", {}, o - 2) /\ phase' = "stopped"
    BY <1>3, <1>17, Zenon DEF CmFinishes, Staying
  <2>2. PICK w, S2, o3, ph, e2 : w = "stopped" /\ S2 = {} /\ o3 = o - 2 /\ ph = "stopped" /\ e2 = Dap(dp.launched, Yes, dp.config)
    OBVIOUS
  <2>3. /\ w \in EditorViews /\ S2 \in SaidSets /\ o3 \in Int /\ w \in {"stopped", "running"} /\ phase' = ph
        /\ ph # "handshake" /\ ph # "running"
    BY <1>12, <2>1, <2>2 DEF EditorViews, SaidSets
  <2>4. Edits(w, S2, o3) /\ dap' = e2
    BY <2>1, <2>2, Zenon
  <2>5. e2 \in [launched: BOOLEAN, init: BOOLEAN, config: BOOLEAN]
    <3>1. dp.launched \in BOOLEAN /\ dp.config \in BOOLEAN /\ Yes \in BOOLEAN
      BY <1>3, EditorAt, Zenon DEF Yes
    <3>2. QED  BY <2>2, <3>1, DapMade
  <2>6. ASSUME editor.open PROVE Seen(m, ph, e2, w, S2, o3, t, y)
    <3>1. Yes # No
      BY Zenon DEF Yes, No
    <3>2. ~ AtStop(m, dp, v, o, q)
      <4>1. AtStop(m, dp, v, o, q) => dp.init = Yes
        BY <1>10, <2>1, ReadyConfig
      <4>2. QED  BY <2>1, <3>1, <4>1, Zenon
    <3>3. m = "launch" /\ dp = Dap(Yes, No, No) /\ o = Len(q) + 1
      BY <1>8, <1>9, <2>6, <3>2, Zenon
    <3>4. dp.launched = Yes /\ dp.config = No
      BY <3>3, DapFieldsAre
    <3>5. e2 = Dap(Yes, Yes, No)
      BY <2>2, <3>4, Zenon
    <3>6. e2 = ReadyC(m)
      BY <2>1, <3>5, Zenon DEF ReadyC
    <3>7. o3 = Len(t)
      BY <1>6, <2>2, <3>3
    <3>8. QED  BY <1>4, <2>2, <2>3, <3>6, <3>7, Zenon DEF Seen, Debugging
  <2>7. editor.open => Seen(mode', phase', e2, w, S2, o3, t, d')
    BY <1>4, <1>11, <2>3, <2>6, Zenon
  <2>8. phase' # "handshake"
    BY <2>3, Zenon
  <2>9. QED  BY <1>4, <1>6, <1>7, <2>3, <2>4, <2>5, <2>7, <2>8, EditorBecomes
<1>18. CASE CmConfigures
  <2>1. /\ m = "attach" /\ dp.config = No /\ dap' = Dap(dp.launched, dp.init, Yes)
        /\ Edits("running", {}, o2) /\ phase' = "stopped"
    BY <1>3, <1>11, <1>18, Zenon DEF CmConfigures, Staying
  <2>2. PICK w, S2, e2 : w = "running" /\ S2 = {} /\ e2 = Dap(dp.launched, dp.init, Yes)
    OBVIOUS
  <2>3. /\ w \in EditorViews /\ S2 \in SaidSets /\ phase' # "handshake"
    BY <2>1, <2>2 DEF EditorViews, SaidSets
  <2>4. Edits(w, S2, o2) /\ dap' = e2
    BY <2>1, <2>2, Zenon
  <2>5. e2 \in [launched: BOOLEAN, init: BOOLEAN, config: BOOLEAN]
    <3>1. dp.launched \in BOOLEAN /\ dp.init \in BOOLEAN /\ Yes \in BOOLEAN
      BY <1>3, EditorAt, Zenon DEF Yes
    <3>2. QED  BY <2>2, <3>1, DapMade
  <2>6. ~ editor.open
    <3>1. Yes # No
      BY Zenon DEF Yes, No
    <3>2. ~ AtStop(m, dp, v, o, q)
      <4>1. AtStop(m, dp, v, o, q) => dp.config = Yes
        BY <1>10, <2>1, ReadyConfig
      <4>2. QED  BY <2>1, <3>1, <4>1, Zenon
    <3>3. ~ Preparing(m, "stopped", dp, v, S, o, q)
      <4>1. "attach" # "launch"
        OBVIOUS
      <4>2. QED  BY <1>9, <2>1, <4>1, Zenon
    <3>4. QED  BY <1>8, <3>2, <3>3, Zenon
  <2>7. QED  BY <1>4, <1>6, <1>7, <1>12, <2>3, <2>4, <2>5, <2>6, EditorBecomes
<1>19. CASE CmAnswers
  <2>1. /\ k = "threads" => m = "attach" \/ dp.init = Yes
        /\ dap' = dp /\ Edits(v, S, o2) /\ phase' = "stopped"
    BY <1>3, <1>11, <1>19, Zenon DEF CmAnswers, Staying
  <2>2. PICK ph : ph = "stopped"
    OBVIOUS
  <2>3. ph # "handshake" /\ ph # "running" /\ phase' = ph
    BY <2>1, <2>2
  <2>4. ASSUME editor.open PROVE Seen(m, ph, dp, v, S, o2, t, y)
    <3>1. CASE Preparing(m, "stopped", dp, v, S, o, q)
      <4>1. v = "configuring" /\ m = "launch" /\ dp = Dap(Yes, No, No) /\ o = Len(q) + 1
        BY <1>9, <3>1, Zenon
      <4>2. Yes # No /\ "launch" # "attach"
        <5>1. Yes # No
          BY Zenon DEF Yes, No
        <5>2. QED  BY <5>1
      <4>3. dp.init = No
        BY <4>1, DapFieldsAre
      <4>4. k # "threads"
        BY <2>1, <4>1, <4>2, <4>3, Zenon
      <4>5. ConfC(t, S)
        BY <1>9, <3>1, <4>4, Zenon
      <4>6. o2 = Len(t) + 1
        BY <1>6, <1>11, <4>1
      <4>7. QED  BY <1>4, <2>2, <4>1, <4>5, <4>6, Zenon DEF Seen, Preparing
    <3>2. CASE AtStop(m, dp, v, o, q)
      <4>1. v = "stopped" /\ dp = ReadyC(m) /\ o2 = Len(t)
        BY <1>10, <1>11, <3>2, Zenon
      <4>2. v \in {"stopped", "running"}
        BY <4>1
      <4>3. QED  BY <1>4, <2>3, <4>1, <4>2, Zenon DEF Seen, Debugging
    <3>3. QED  BY <1>8, <2>4, <3>1, <3>2, Zenon
  <2>5. editor.open => Seen(mode', phase', dp, v, S, o2, t, d')
    BY <1>4, <1>11, <2>3, <2>4, Zenon
  <2>6. phase' # "handshake"
    BY <2>3, Zenon
  <2>7. QED  BY <1>4, <1>5, <1>6, <1>7, <1>12, <2>1, <2>5, <2>6, EditorBecomes
<1>20. QED  BY <1>2, <1>14, <1>15, <1>16, <1>17, <1>18, <1>19

\* The connection has ended, or there is none.
LEMMA ClosedAside ==
    ASSUME EditorType, EditorInv, UNCHANGED <<mode, dap, inbox, editor>>, ~ editor.open, phase' # "handshake",
           phase # "handshake" \/ inbox = <<>>
    PROVE  EditorType' /\ EditorInv'
<1>1. EditorType'
  BY Zenon DEF EditorType
<1>2. LiveC(inbox)
  <2>1. CASE phase # "handshake"
    BY <2>1, EditorIs, Zenon
  <2>2. CASE inbox = <<>>
    <3>1. PICK q : q = inbox
      OBVIOUS
    <3>2. LiveC(q)
      BY <2>2, <3>1, EmptyQueue
    <3>3. QED  BY <3>1, <3>2, Zenon
  <2>3. QED  BY <2>1, <2>2
<1>3. LiveC(inbox')
  BY <1>2, Zenon
<1>4. EditorInv'
  BY <1>3, EditorFrom, Zenon
<1>5. QED  BY <1>1, <1>4

LEMMA CommandEofEdits ==
    ASSUME EditorType, EditorInv, CommandEof
    PROVE  EditorType' /\ EditorInv'
<1>1. phase = "stopped" /\ phase' = "running" /\ ~ editor.open /\ UNCHANGED <<mode, dap, inbox, editor>>
  BY Zenon DEF CommandEof
<1>2. phase # "handshake" /\ phase' # "handshake"
  BY <1>1
<1>3. QED  BY <1>1, <1>2, ClosedAside

LEMMA HandshakeEofEdits ==
    ASSUME EditorType, EditorInv, HandshakeEof
    PROVE  EditorType' /\ EditorInv'
<1>1. (phase' = "ended" \/ phase' = "idle") /\ inbox = <<>> /\ ~ editor.open /\ UNCHANGED <<mode, dap, inbox, editor>>
  BY Zenon DEF HandshakeEof
<1>2. phase' # "handshake"
  BY <1>1
<1>3. QED  BY <1>1, <1>2, ClosedAside

LEMMA ConsoleEdits ==
    ASSUME EditorType, EditorInv, phase = "stopped", mode = "cli", phase' = "stopped" \/ phase' = "running",
           UNCHANGED <<mode, dap, inbox, editor>>
    PROVE  EditorType' /\ EditorInv'
<1>1. phase # "handshake" /\ phase' # "handshake"
  OBVIOUS
<1>2. ~ editor.open
  BY <1>1, EditorIs, Zenon DEF Seen
<1>3. QED  BY <1>1, <1>2, ClosedAside

LEMMA CloseEdits ==
    ASSUME EditorType, EditorInv, Close
    PROVE  EditorType' /\ EditorInv'
<1>1. editor' = [editor EXCEPT !.open = FALSE] /\ UNCHANGED <<mode, phase, d, dap, inbox>>
  BY Zenon DEF Close
<1>2. PICK v, S, o, p, u, e, f : v = editor.view /\ S = editor.said /\ o = editor.owed /\ p = editor.open /\ u = editor.extra
                              /\ e = editor' /\ f = editor
  OBVIOUS
<1>3. v \in EditorViews /\ S \in SaidSets /\ o \in Int /\ u \in Nat /\ f = Ed(v, S, o, p, u)
  BY <1>2, EditorAt, Zenon
<1>4. No \in BOOLEAN /\ ~ No
  BY Zenon DEF No
<1>5. e = Ed(v, S, o, No, u)
  <2>1. e = [f EXCEPT !.open = No]
    BY <1>1, <1>2, Zenon DEF No
  <2>2. QED  BY ONLY <1>3, <2>1 DEF Ed
<1>6. /\ e \in [view: EditorViews, said: SaidSets, owed: Int, open: BOOLEAN, extra: Nat]
      /\ e.view = v /\ e.said = S /\ e.owed = o /\ e.open = No
  BY ONLY <1>3, <1>4, <1>5, EditorMade
<1>7. EditorType'
  BY <1>1, <1>2, <1>6, Zenon DEF EditorType
<1>8. phase' = "handshake" => Shake(mode', dap', editor'.view, editor'.said, editor'.owed, inbox')
  BY <1>1, <1>2, <1>6, EditorIs, Zenon
<1>9. phase' # "handshake" => LiveC(inbox')
  BY <1>1, EditorIs, Zenon
<1>10. ~ editor'.open
  BY <1>2, <1>4, <1>6, Zenon
<1>11. EditorInv'
  BY <1>8, <1>9, <1>10, EditorFrom, Zenon
<1>12. QED  BY <1>7, <1>11

\* A call starts, or the next of a block.
LEMMA CallEdits ==
    ASSUME RunType, EditorType, EditorInv, mode = "attach", phase = "idle" \/ phase = "running", phase' = "running",
           d' = reset_for_new_call(d), UNCHANGED <<mode, dap, inbox, editor>>
    PROVE  EditorType' /\ EditorInv'
<1>1. phase # "handshake" /\ phase' # "handshake" /\ phase # "stopped"
  OBVIOUS
<1>2. PICK m, ph, dp, v, S, o, q, x, y : m = mode /\ ph = phase /\ dp = dap /\ v = editor.view /\ S = editor.said /\ o = editor.owed
                                      /\ q = inbox /\ x = d /\ y = d'
  OBVIOUS
<1>3. y.state.k # "Start"
  <2>1. IsDebugState(x)
    BY <1>2, RunTypeIs
  <2>2. y = reset_for_new_call(x)
    BY <1>2, Zenon
  <2>3. PICK b : b = Unborn(x)
    OBVIOUS
  <2>4. y.state.k = "Continue"
    BY ONLY <2>1, <2>2, <2>3, FreshReset
  <2>5. QED  BY <2>4
<1>4. ASSUME editor.open PROVE Seen(m, "running", dp, v, S, o, q, y)
  <2>1. Seen(m, ph, dp, v, S, o, q, x) /\ ph # "stopped"
    BY <1>1, <1>2, <1>4, EditorIs, Zenon
  <2>2. m # "launch" /\ m # "cli" /\ "running" # "stopped"
    BY <1>2
  <2>3. QED  BY <1>3, <2>1, <2>2, Zenon DEF Seen, Loading, Preparing, Debugging
<1>5. editor.open => Seen(mode, phase', dap, editor.view, editor.said, editor.owed, inbox, d')
  BY <1>2, <1>4, Zenon
<1>6. QED  BY <1>1, <1>5, EditorAside

LEMMA CompleteEdits ==
    ASSUME RunType, RunInv, EditorType, EditorInv, Complete
    PROVE  EditorType' /\ EditorInv'
<1>1. phase = "running" /\ UNCHANGED <<mode, dap, inbox, editor>>
  BY Zenon DEF Complete
<1>2. CASE Len(run.ks) > 1
  <2>1. phase' = phase /\ d' = reset_for_new_call(d)
    BY <1>2, Zenon DEF Complete
  <2>2. mode = "attach"
    <3>1. mode # "attach" => Len(run.ks) = 1
      BY <1>1 DEF RunInv
    <3>2. ~(1 > 1)
      OBVIOUS
    <3>3. QED  BY <1>2, <3>1, <3>2, Zenon
  <2>3. QED  BY <1>1, <2>1, <2>2, CallEdits
<1>3. CASE ~(Len(run.ks) > 1)
  <2>1. phase' = (IF mode = "attach" THEN "idle" ELSE "ended") /\ d' = d
    BY <1>3, Zenon DEF Complete
  <2>2. PICK m, ph, dp, v, S, o, q, x : m = mode /\ ph = phase' /\ dp = dap /\ v = editor.view /\ S = editor.said /\ o = editor.owed
                                      /\ q = inbox /\ x = d
    OBVIOUS
  <2>3. phase # "handshake" /\ phase' # "handshake" /\ ph # "stopped" /\ ph # "running" /\ (m = "launch" => ph \in {"running", "ended"})
    BY <1>1, <2>1, <2>2
  <2>4. ASSUME editor.open PROVE Seen(m, ph, dp, v, S, o, q, x)
    <3>1. Seen(m, "running", dp, v, S, o, q, x) /\ "running" # "stopped"
      BY <1>1, <2>2, <2>3, <2>4, EditorIs, Zenon
    <3>2. QED  BY <2>3, <3>1, Zenon DEF Seen, Loading, Preparing, Debugging
  <2>5. editor.open => Seen(mode, phase', dap, editor.view, editor.said, editor.owed, inbox, d')
    BY <2>1, <2>2, <2>4, Zenon
  <2>6. QED  BY <1>1, <2>3, <2>5, EditorAside
<1>4. QED  BY <1>2, <1>3

-----------------------------------------------------------------------------
(* The editor sends a request. *)

Says(v, S, m, r) ==
    \/ v = "new" /\ "initialize" \notin S /\ r.k = "initialize"
    \/ v = "init" /\ "launch" \notin S /\ "attach" \notin S /\ r.k = Starting(m)
    \/ v = "configuring" /\ "threads" \notin S /\ r.k \in ConfigKinds
    \/ v \in {"stopped", "running"} /\ r.k \in LiveKinds

LEMMA PlainRequest ==
    ASSUME NEW k, k \in PlainKinds, NEW r, r = Req(k)
    PROVE  r \in EditorRequests /\ r.k = k
<1>1. r \in {Req(j) : j \in PlainKinds}
  BY Zenon
<1>2. r \in EditorRequests
  BY <1>1, Zenon DEF EditorRequests
<1>3. r.k = k
  BY DEF Req
<1>4. QED  BY <1>2, <1>3
LEMMA BreakRequest ==
    ASSUME NEW r, r \in SetBreakpoints
    PROVE  r \in EditorRequests /\ r.k = "setBreakpoints"
<1>1. r \in EditorRequests
  BY Zenon DEF EditorRequests
<1>2. r.k = "setBreakpoints"
  BY DEF SetBreakpoints
<1>3. QED  BY <1>1, <1>2
LEMMA EvaluateRequest ==
    ASSUME NEW r, r \in Watch \/ r \in Inspect
    PROVE  r \in EditorRequests /\ r.k = "evaluate"
<1>1. r \in EditorRequests
  BY Zenon DEF EditorRequests
<1>2. CASE r \in Watch
  <2>0. \E b \in BOOLEAN : \E w \in Watchables : r = [k |-> "evaluate", watch |-> TRUE, qualified |-> b, w |-> w]
    BY <1>2 DEF Watch
  <2>1. PICK t, b, w : r = [k |-> "evaluate", watch |-> t, qualified |-> b, w |-> w]
    BY <2>0, Zenon
  <2>2. r.k = "evaluate"
    BY <2>1
  <2>3. QED  BY <1>1, <2>2
<1>3. CASE r \in Inspect
  <2>1. PICK t, b, w : r = [k |-> "evaluate", watch |-> t, qualified |-> b, w |-> w]
    BY <1>3, Zenon DEF Inspect
  <2>2. r.k = "evaluate"
    BY <2>1
  <2>3. QED  BY <1>1, <2>2
<1>4. QED  BY <1>2, <1>3
LEMMA StepRequest ==
    ASSUME NEW r, r \in Steps4
    PROVE  r \in EditorRequests /\ r.k \in {"stepIn", "stepOut", "next", "continue"}
<1>1. PICK k \in {"stepIn", "stepOut", "next", "continue"} : r = Req(k)
  BY Zenon DEF Steps4
<1>2. k \in PlainKinds
  BY DEF PlainKinds
<1>3. r \in EditorRequests /\ r.k = k
  BY <1>1, <1>2, PlainRequest
<1>4. QED  BY <1>3
LEMMA StartRequest ==
    ASSUME NEW r, r \in Starts
    PROVE  r \in EditorRequests /\ r.k = Starting(mode)
<1>1. CASE mode = "launch"
  <2>1. r \in {[k |-> "launch", complete |-> b] : b \in BOOLEAN}
    BY <1>1, Zenon DEF Starts
  <2>2. r \in EditorRequests
    BY <2>1, Zenon DEF EditorRequests
  <2>3. PICK b : r = [k |-> "launch", complete |-> b]
    BY <2>1, Zenon
  <2>4. r.k = "launch"
    BY <2>3
  <2>5. Starting(mode) = "launch"
    BY <1>1, Zenon DEF Starting
  <2>6. QED  BY <2>2, <2>4, <2>5
<1>2. CASE mode # "launch"
  <2>1. r = Req("attach") /\ Starting(mode) = "attach"
    BY <1>2, Zenon DEF Starts, Starting
  <2>2. PICK k : k = "attach"
    OBVIOUS
  <2>3. k \in PlainKinds
    BY <2>2 DEF PlainKinds
  <2>4. r \in EditorRequests /\ r.k = k
    BY <2>1, <2>2, <2>3, PlainRequest
  <2>5. QED  BY <2>1, <2>2, <2>4
<1>3. QED  BY <1>1, <1>2
LEMMA OtherRequest ==
    ASSUME NEW k, NEW r, r = Req(k), k \in {"initialize", "configurationDone", "threads", "stackTrace", "disconnect", "pause"}
    PROVE  r \in EditorRequests /\ r.k = k
<1>1. k \in PlainKinds
  BY DEF PlainKinds
<1>2. QED  BY <1>1, PlainRequest

LEMMA SayableIs ==
    ASSUME NEW r, r \in Sayable, EditorType
    PROVE  r \in EditorRequests /\ Says(editor.view, editor.said, mode, r)
<1>1. PICK v, S, m : v = editor.view /\ S = editor.said /\ m = mode
  OBVIOUS
<1>2. \A k : Said(k) <=> k \in S
  BY <1>1, Zenon DEF Said
<1>3. v \in EditorViews
  BY <1>1, EditorAt, Zenon
<1>4. CASE v = "new"
  <2>1. ~ Said("initialize") /\ r = Req("initialize")
    BY <1>1, <1>4 DEF Sayable
  <2>2. r \in EditorRequests /\ r.k = "initialize"
    BY <2>1, OtherRequest
  <2>3. QED  BY <1>1, <1>2, <1>4, <2>1, <2>2, Zenon DEF Says
<1>5. CASE v = "init"
  <2>1. ~ Said("launch") /\ ~ Said("attach") /\ r \in Starts
    BY <1>1, <1>5 DEF Sayable
  <2>2. r \in EditorRequests /\ r.k = Starting(mode)
    BY <2>1, StartRequest
  <2>3. QED  BY <1>1, <1>2, <1>5, <2>1, <2>2, Zenon DEF Says
<1>6. CASE v = "configuring"
  <2>1. ~ Said("threads") /\ (r \in SetBreakpoints \/ r = Req("configurationDone") \/ r = Req("threads"))
    BY <1>1, <1>6 DEF Sayable
  <2>2. r \in EditorRequests /\ r.k \in {"setBreakpoints", "configurationDone", "threads"}
    BY <2>1, BreakRequest, OtherRequest
  <2>3. QED  BY <1>1, <1>2, <1>6, <2>1, <2>2, Zenon DEF Says, ConfigKinds
<1>7. CASE v = "stopped"
  <2>1. r \in Steps4 \/ r \in SetBreakpoints \/ r \in Watch \/ r \in Inspect \/ r = Req("stackTrace") \/ r = Req("disconnect")
    BY <1>1, <1>7 DEF Sayable
  <2>2. r \in EditorRequests
    BY <2>1, StepRequest, BreakRequest, EvaluateRequest, OtherRequest
  <2>3. r.k \in {"stepIn", "stepOut", "next", "continue", "setBreakpoints", "evaluate", "stackTrace", "disconnect"}
    BY <2>1, StepRequest, BreakRequest, EvaluateRequest, OtherRequest
  <2>4. r.k \in LiveKinds
    BY <2>3 DEF LiveKinds, ConfigKinds
  <2>5. v \in {"stopped", "running"}
    BY <1>7
  <2>6. QED  BY <1>1, <2>2, <2>4, <2>5, Zenon DEF Says
<1>8. CASE v = "running"
  <2>1. r \in SetBreakpoints \/ r = Req("pause") \/ r = Req("disconnect") \/ r = Req("threads")
    BY <1>1, <1>8 DEF Sayable
  <2>2. r \in EditorRequests
    BY <2>1, BreakRequest, OtherRequest
  <2>3. r.k \in {"setBreakpoints", "pause", "disconnect", "threads"}
    BY <2>1, BreakRequest, OtherRequest
  <2>4. r.k \in LiveKinds
    BY <2>3 DEF LiveKinds, ConfigKinds
  <2>5. v \in {"stopped", "running"}
    BY <1>8
  <2>6. QED  BY <1>1, <2>2, <2>4, <2>5, Zenon DEF Says
<1>9. CASE v \in {"failed", "gone"}
  <2>1. Sayable = {}
    BY <1>1, <1>9 DEF Sayable
  <2>2. QED  BY <2>1
<1>10. QED  BY <1>3, <1>4, <1>5, <1>6, <1>7, <1>8, <1>9 DEF EditorViews

Saying(v, S, r) == IF v \in {"stopped", "running"} THEN S ELSE S \cup {r.k}

\* The request takes its place in the connection.
LEMMA SaidShakes ==
    ASSUME NEW R, NEW q, q \in Seq(R), NEW r, r \in R, NEW t, t = Append(q, r), NEW m, NEW dp, NEW v, NEW S, NEW o,
           Shake(m, dp, v, S, o, q), Says(v, S, m, r), NEW S2, S2 = Saying(v, S, r),
           NEW o2, o2 = o + 1
    PROVE  Shake(m, dp, v, S2, o2, t)
<1>1. m # "cli" /\ dp = Dap(No, No, No) /\ o = Len(q)
  BY Zenon DEF Shake
<1>2. o2 = Len(t) /\ (q = <<>> => SingleC(t, r.k))
  BY <1>1, QueueAppend
<1>3. CASE v = "new"
  <2>1. "initialize" \notin S /\ r.k = "initialize"
    <3>1. v # "init" /\ v # "configuring" /\ v \notin {"stopped", "running"}
      BY <1>3
    <3>2. QED  BY <3>1, Zenon DEF Says
  <2>2. q = <<>> /\ S = {}
    <3>1. v # "init" /\ v # "configuring" /\ v # "failed" /\ "initialize" \in {"initialize"}
      BY <1>3
    <3>2. QED  BY <2>1, <3>1, Zenon DEF Shake
  <2>3. S2 = {"initialize"}
    BY <1>3, <2>1, <2>2 DEF Saying
  <2>4. QED  BY <1>1, <1>2, <1>3, <2>1, <2>2, <2>3, Zenon DEF Shake
<1>4. CASE v = "init"
  <2>1. "launch" \notin S /\ "attach" \notin S /\ r.k = Starting(m)
    <3>1. v # "new" /\ v # "configuring" /\ v \notin {"stopped", "running"}
      BY <1>4
    <3>2. QED  BY <3>1, Zenon DEF Says
  <2>2. q = <<>> /\ S = {"initialize"}
    <3>1. v # "new" /\ v # "configuring" /\ v # "failed" /\ Starting(m) \in {"initialize", Starting(m)}
      BY <1>4
    <3>2. Starting(m) \notin S
      BY <2>1, Zenon DEF Starting
    <3>3. QED  BY <3>1, <3>2, Zenon DEF Shake
  <2>3. S2 = {"initialize", Starting(m)}
    BY <1>4, <2>1, <2>2 DEF Saying
  <2>4. QED  BY <1>1, <1>2, <1>4, <2>1, <2>2, <2>3, Zenon DEF Shake
<1>5. CASE v = "configuring"
  <2>1. "threads" \notin S /\ r.k \in ConfigKinds
    <3>1. v # "new" /\ v # "init" /\ v \notin {"stopped", "running"}
      BY <1>5
    <3>2. QED  BY <3>1, Zenon DEF Says
  <2>2. m = "attach" /\ ConfC(q, S)
    BY <1>5, ShakeConf
  <2>3. KindsC(q, ConfigKinds) /\ ~ Has(q, "threads")
    BY <2>1, <2>2, Zenon DEF ConfC
  <2>4. KindsC(t, ConfigKinds)
    BY <2>1, <2>3, QueueAppend
  <2>5. LastC(t, "threads") /\ (Has(t, "threads") <=> r.k = "threads")
    BY <2>3, QueueAppend
  <2>6. "threads" \in S2 <=> r.k = "threads"
    BY <1>5, <2>1 DEF Saying
  <2>7. ConfC(t, S2)
    BY <2>4, <2>5, <2>6, Zenon DEF ConfC
  <2>8. QED  BY <1>1, <1>2, <1>5, <2>2, <2>7, Zenon DEF Shake
<1>6. CASE v \notin {"new", "init", "configuring"}
  <2>1. v = "failed"
    BY <1>6, Zenon DEF Shake
  <2>2. v # "new" /\ v # "init" /\ v # "configuring" /\ v \notin {"stopped", "running"}
    BY <2>1
  <2>3. QED  BY <2>2, Zenon DEF Says
<1>7. QED  BY <1>3, <1>4, <1>5, <1>6

SeenLive(m, ph, dp, v, S, o, q, x) == Seen(m, ph, dp, v, S, o, q, x) /\ LiveC(q)
LEMMA SaidSeen ==
    ASSUME NEW R, NEW q, q \in Seq(R), NEW r, r \in R, NEW t, t = Append(q, r), NEW m, NEW ph, NEW dp, NEW v, NEW S, NEW o, NEW x,
           Seen(m, ph, dp, v, S, o, q, x), Says(v, S, m, r), v # "gone", LiveC(q), ~ Has(q, "disconnect"),
           NEW S2, S2 = Saying(v, S, r), NEW o2, o2 = o + 1
    PROVE  SeenLive(m, ph, dp, v, S2, o2, t, x)
<1>1. m # "cli" /\ Len(t) = Len(q) + 1 /\ Len(q) \in Nat /\ LastC(t, "disconnect")
  <2>1. m # "cli"
    BY Zenon DEF Seen
  <2>2. Len(t) = Len(q) + 1 /\ Len(q) \in Nat /\ LastC(t, "disconnect")
    BY QueueAppend
  <2>3. QED  BY <2>1, <2>2
<1>2. KindsC(q, LiveKinds)
  BY Zenon DEF LiveC
<1>3. r.k \in LiveKinds => LiveC(t)
  <2>1. r.k \in LiveKinds => KindsC(t, LiveKinds)
    BY <1>2, QueueAppend
  <2>2. QED  BY <1>1, <2>1, Zenon DEF LiveC
<1>4. CASE Loading(m, ph, dp, v, S, o, q, x)
  <2>1. v = "init" /\ S = {"initialize", "launch"}
    BY <1>4, Zenon DEF Loading
  <2>2. v # "new" /\ v # "configuring" /\ v \notin {"stopped", "running"} /\ "launch" \in S
    BY <2>1
  <2>3. QED  BY <2>2, Zenon DEF Says
<1>5. CASE Preparing(m, ph, dp, v, S, o, q)
  <2>1. v = "configuring" /\ m = "launch" /\ dp = Dap(Yes, No, No) /\ ph = "stopped" /\ o = Len(q) + 1 /\ ConfC(q, S)
    BY <1>5, Zenon DEF Preparing
  <2>2. "threads" \notin S /\ r.k \in ConfigKinds
    <3>1. v # "new" /\ v # "init" /\ v \notin {"stopped", "running"}
      BY <2>1
    <3>2. QED  BY <3>1, Zenon DEF Says
  <2>3. KindsC(q, ConfigKinds) /\ ~ Has(q, "threads")
    BY <2>1, <2>2, Zenon DEF ConfC
  <2>4. KindsC(t, ConfigKinds)
    BY <2>2, <2>3, QueueAppend
  <2>5. LastC(t, "threads") /\ (Has(t, "threads") <=> r.k = "threads")
    BY <2>3, QueueAppend
  <2>6. "threads" \in S2 <=> r.k = "threads"
    BY <2>1, <2>2 DEF Saying
  <2>7. ConfC(t, S2)
    BY <2>4, <2>5, <2>6, Zenon DEF ConfC
  <2>8. o2 = Len(t) + 1
    BY <1>1, <2>1
  <2>9. r.k \in LiveKinds
    BY <2>2, Zenon DEF LiveKinds
  <2>10. QED  BY <1>1, <1>3, <2>1, <2>7, <2>8, <2>9, Zenon DEF SeenLive, Seen, Preparing
<1>6. CASE Debugging(m, ph, dp, v, o, q, x)
  <2>1. v \in {"stopped", "running"} /\ o = Len(q)
    BY <1>6, Zenon DEF Debugging
  <2>2. o2 = Len(t)
    BY <1>1, <2>1
  <2>3. r.k \in LiveKinds
    <3>1. v # "new" /\ v # "init" /\ v # "configuring"
      BY <2>1
    <3>2. QED  BY <3>1, Zenon DEF Says
  <2>4. Debugging(m, ph, dp, v, o2, t, x)
    BY <1>6, <2>2, Zenon DEF Debugging
  <2>5. QED  BY <1>1, <1>3, <2>3, <2>4, Zenon DEF SeenLive, Seen
<1>7. QED  BY <1>4, <1>5, <1>6, Zenon DEF Seen, Gone

\* The invariant of the editor, when it sends a request.
LEMMA SendEdits ==
    ASSUME EditorType, EditorInv, Send
    PROVE  EditorType' /\ EditorInv'
<1>1. editor.open /\ editor.view # "gone" /\ ~ Has(inbox, "disconnect") /\ UNCHANGED <<mode, phase, d, dap>>
  BY Zenon DEF Send, Has
<1>2. PICK r : /\ r \in Sayable /\ inbox' = Append(inbox, r)
               /\ editor' = [editor EXCEPT !.said = IF editor.view \in {"stopped", "running"} THEN @ ELSE @ \cup {r.k},
                                           !.owed = @ + 1, !.extra = IF Free(r) THEN @ ELSE @ + 1]
  BY Zenon DEF Send
<1>3. PICK v, S, o, p, u, e, f, q, t, m, dp, ph, x :
          /\ v = editor.view /\ S = editor.said /\ o = editor.owed /\ p = editor.open /\ u = editor.extra
          /\ e = editor' /\ f = editor /\ q = inbox /\ t = inbox' /\ m = mode /\ dp = dap /\ ph = phase /\ x = d
  OBVIOUS
<1>4. PICK S2, o2 : S2 = Saying(v, S, r) /\ o2 = o + 1
  OBVIOUS
<1>4a. PICK u2 : u2 = IF Free(r) THEN u ELSE u + 1
  OBVIOUS
<1>5. /\ v \in EditorViews /\ S \in SaidSets /\ o \in Int /\ p \in BOOLEAN /\ u \in Nat /\ f = Ed(v, S, o, p, u)
      /\ q \in Seq(EditorRequests)
  BY <1>3, EditorAt, Zenon
<1>6. r \in EditorRequests /\ Says(v, S, m, r) /\ t = Append(q, r) /\ v # "gone"
  BY <1>1, <1>2, <1>3, SayableIs, Zenon
<1>6a. PICK R : R = EditorRequests
  OBVIOUS
<1>6b. q \in Seq(R) /\ r \in R /\ t = Append(q, r)
  BY <1>5, <1>6, <1>6a, Zenon
<1>6c. Says(v, S, m, r) /\ v # "gone"
  BY <1>6, Zenon
<1>7. e = Ed(v, S2, o2, p, u2)
  <2>1. e = [[[f EXCEPT !.said = S2] EXCEPT !.owed = o2] EXCEPT !.extra = u2]
    BY <1>2, <1>3, <1>4, <1>4a, Zenon DEF Saying
  <2>2. QED  BY ONLY <1>5, <2>1 DEF Ed
<1>8. S2 \in SaidSets /\ o2 \in Int /\ u2 \in Nat
  <2>1. r.k \in AllKinds
    <3>1. Starting(m) \in {"launch", "attach"}
      BY DEF Starting
    <3>2. QED  BY <1>6, <3>1 DEF Says, AllKinds, LiveKinds
  <2>2. S2 \in SaidSets
    BY ONLY <1>4, <1>5, <2>1 DEF Saying, SaidSets
  <2>3. o2 \in Int
    BY ONLY <1>4, <1>5
  <2>4. u2 \in Nat
    <3>1. u \in Nat /\ u + 1 \in Nat
      BY <1>5
    <3>2. QED  BY <1>4a, <3>1, Zenon
  <2>5. QED  BY <2>2, <2>3, <2>4
<1>9. /\ e \in [view: EditorViews, said: SaidSets, owed: Int, open: BOOLEAN, extra: Nat]
      /\ e.view = v /\ e.said = S2 /\ e.owed = o2 /\ e.open = p
  <2>1. v \in EditorViews /\ S2 \in SaidSets /\ o2 \in Int /\ p \in BOOLEAN /\ u2 \in Nat
    BY <1>5, <1>8, Zenon
  <2>2. QED  BY ONLY <1>7, <2>1, EditorMade
<1>10. t \in Seq(EditorRequests)
  BY <1>5, <1>6, QueueAppend
<1>11. EditorType'
  BY <1>1, <1>3, <1>9, <1>10, Zenon DEF EditorType
<1>12. ASSUME phase = "handshake" PROVE Shake(m, dp, v, S2, o2, t)
  <2>1. Shake(m, dp, v, S, o, q)
    BY <1>3, <1>12, EditorIs, Zenon
  <2>2. QED  BY ONLY <2>1, <1>4, <1>6b, <1>6c, SaidShakes
<1>13. ASSUME phase # "handshake" PROVE Seen(m, ph, dp, v, S2, o2, t, x) /\ LiveC(t)
  <2>1. Seen(m, ph, dp, v, S, o, q, x) /\ LiveC(q) /\ ~ Has(q, "disconnect")
    BY <1>1, <1>3, <1>13, EditorIs, Zenon
  <2>2. SeenLive(m, ph, dp, v, S2, o2, t, x)
    BY ONLY <2>1, <1>4, <1>6b, <1>6c, SaidSeen
  <2>3. QED  BY <2>2, Zenon DEF SeenLive
<1>13a. p
  BY <1>1, <1>3, Zenon
<1>14. phase' = "handshake" => Shake(mode', dap', editor'.view, editor'.said, editor'.owed, inbox')
  BY <1>1, <1>3, <1>9, <1>12, Zenon
<1>15. phase' # "handshake" => LiveC(inbox')
  BY <1>1, <1>3, <1>13, Zenon
<1>16. phase' # "handshake" /\ editor'.open => Seen(mode', phase', dap', editor'.view, editor'.said, editor'.owed, inbox', d')
  BY <1>1, <1>3, <1>9, <1>13, Zenon
<1>17. EditorInv'
  BY <1>14, <1>15, <1>16, EditorFrom
<1>18. QED  BY <1>11, <1>17

-----------------------------------------------------------------------------
(* The invariant holds initially. *)

LEMMA InitRuns ==
    ASSUME Init
    PROVE  RunType /\ RunInv
<1>1. /\ mode \in Modes /\ d = NewDebugState
      /\ \/ mode = "cli" /\ phase = "running" /\ goal = Goal(0, "in", <<>>) /\ \E k \in Debugged, h \in Runners : run = Executing(h, <<k>>)
         \/ phase = "handshake" /\ run = NoRun /\ goal = Goal(0, "go", <<>>)
  BY Zenon DEF Init, Runners
<1>2. mode \in {"cli", "launch", "attach"}
  BY <1>1, ServerAssumption
<1>3. PICK b, x : b = <<>> /\ x = d
  OBVIOUS
<1>4. Fresh(x, b) /\ x.state.k = "Start"
  BY <1>1, <1>3, FreshState, Zenon
<1>5. IsDebugState(d) /\ IsNumbered(b, Nat)
  BY <1>3, <1>4, Zenon DEF Fresh
<1>6. ASSUME NEW cmd, cmd \in {"in", "go"}, goal = Goal(0, cmd, b)
      PROVE  /\ goal.from = 0 /\ goal.cmd = cmd /\ goal.born = b /\ goal = Goal(goal.from, goal.cmd, goal.born)
             /\ goal.from \in Nat /\ goal.cmd \in {"in", "go", "over", "out", "quit", "any"} /\ IsNumbered(goal.born, Nat)
  <2>1. goal.from = 0 /\ goal.cmd = cmd /\ goal.born = b
    BY <1>6, GoalFields
  <2>2. 0 \in Nat /\ cmd \in {"in", "go", "over", "out", "quit", "any"}
    BY <1>6
  <2>3. QED  BY <1>5, <1>6, <2>1, <2>2, Zenon
<1>7. CASE mode = "cli" /\ phase = "running" /\ goal = Goal(0, "in", <<>>) /\ \E k \in Debugged, h \in Runners : run = Executing(h, <<k>>)
  <2>1. PICK k, h : k \in Debugged /\ h \in Runners /\ run = Executing(h, <<k>>)
    BY <1>7, Zenon
  <2>2. PICK ks, B, K, u, cmd : ks = <<k>> /\ B = Runners /\ K = Seq(DOMAIN Calls) /\ u = run /\ cmd = "in"
    OBVIOUS
  <2>3. k \in DOMAIN Calls
    BY <2>1, ServerAssumption
  <2>4. ks \in Seq(DOMAIN Calls) /\ ks # <<>> /\ Len(ks) = 1
    BY <2>2, <2>3
  <2>5. u.by = h /\ u.ks = ks /\ u.pos = 0 /\ u \in [by: B, ks: K, pos: Nat]
    <3>1. h \in B /\ ks \in K /\ u = Executing(h, ks)
      BY <2>1, <2>2, <2>4, Zenon
    <3>2. QED  BY ONLY <3>1, ExecutingIs
  <2>6. goal = Goal(0, cmd, b) /\ cmd \in {"in", "go"}
    BY <1>3, <1>7, <2>2
  <2>7. /\ goal.from = 0 /\ goal.cmd = cmd /\ goal.born = b /\ goal = Goal(goal.from, goal.cmd, goal.born)
        /\ goal.from \in Nat /\ goal.cmd \in {"in", "go", "over", "out", "quit", "any"} /\ IsNumbered(goal.born, Nat)
    BY <1>6, <2>6
  <2>8. phase \in {"handshake", "idle", "running", "stopped", "ended"}
    BY <1>7
  <2>9. RunType
    BY <1>2, <1>5, <2>2, <2>5, <2>7, <2>8, Zenon DEF RunType
  <2>10. Head(ks) \in DOMAIN Calls
    BY <2>4, HeadIn
  <2>11. Trace(T) /\ Fr = FramesOf(T)
    BY <2>2, <2>5, <2>10, TraceAt, Zenon DEF T, Fr
  <2>12. PICK calls, F, g : calls = T /\ F = Fr /\ g = goal
    OBVIOUS
  <2>13. Trace(calls) /\ F = FramesOf(calls) /\ Fresh(x, g.born) /\ g.from = 0 /\ g.cmd = "in"
    BY <1>4, <2>2, <2>7, <2>11, <2>12, Zenon
  <2>14. RunAt("running", calls, F, 0, x, g)
    BY ONLY <1>4, <2>13, StartsAt
  <2>15. RunAt(phase, T, Fr, run.pos, d, goal)
    BY <1>3, <1>7, <2>2, <2>5, <2>12, <2>14, Zenon
  <2>16. RunInv
    BY <2>2, <2>4, <2>5, <2>15, Zenon DEF RunInv, RunAt
  <2>17. QED  BY <2>9, <2>16
<1>8. CASE phase = "handshake" /\ run = NoRun /\ goal = Goal(0, "go", <<>>)
  <2>1. PICK cmd : cmd = "go"
    OBVIOUS
  <2>2. goal = Goal(0, cmd, b) /\ cmd \in {"in", "go"}
    BY <1>3, <1>8, <2>1
  <2>3. /\ goal = Goal(goal.from, goal.cmd, goal.born)
        /\ goal.from \in Nat /\ goal.cmd \in {"in", "go", "over", "out", "quit", "any"} /\ IsNumbered(goal.born, Nat)
    BY <1>6, <2>2
  <2>4. NoRun \in [by: Runners, ks: Seq(DOMAIN Calls), pos: Nat]
    <3>1. PICK e : e = <<>>
      OBVIOUS
    <3>2. e \in Seq(DOMAIN Calls)
      BY <3>1
    <3>3. PICK h : h \in Runners /\ NoRun = Executing(h, e)
      BY <3>1, Zenon DEF NoRun, Executing, Runners
    <3>4. QED  BY <3>2, <3>3, ExecutingIs
  <2>5. phase \in {"handshake", "idle", "running", "stopped", "ended"} /\ phase \notin {"running", "stopped"}
    BY <1>8
  <2>6. RunType
    BY <1>2, <1>5, <1>8, <2>3, <2>4, <2>5, Zenon DEF RunType
  <2>7. RunInv
    BY <2>5, Zenon DEF RunInv
  <2>8. QED  BY <2>6, <2>7
<1>9. QED  BY <1>1, <1>7, <1>8

LEMMA InitEdits ==
    ASSUME Init
    PROVE  EditorType /\ EditorInv
<1>1. /\ dap = Dap(No, No, No) /\ inbox = <<>> /\ (mode = "cli" => phase = "running") /\ (mode # "cli" => phase = "handshake")
      /\ editor = Ed("new", {}, 0, mode # "cli", 0)
  BY Zenon DEF Init, Dap, No, Ed
<1>2. PICK v, S, p, e, q : v = "new" /\ S = {} /\ p = (mode # "cli") /\ e = editor /\ q = inbox
  OBVIOUS
<1>3. p \in BOOLEAN
  BY <1>2, Zenon
<1>4. v \in EditorViews /\ S \in SaidSets /\ q \in Seq(EditorRequests) /\ 0 \in Int /\ 0 \in Nat /\ q = <<>>
  BY <1>1, <1>2 DEF EditorViews, SaidSets
<1>5. e = Ed(v, S, 0, p, 0)
  BY <1>1, <1>2, Zenon
<1>6. /\ e \in [view: EditorViews, said: SaidSets, owed: Int, open: BOOLEAN, extra: Nat]
      /\ e.view = v /\ e.said = S /\ e.owed = 0 /\ e.open = p
  BY ONLY <1>3, <1>4, <1>5, EditorMade
<1>7. EditorType
  BY <1>1, <1>2, <1>4, <1>6, DapValues, Zenon DEF EditorType
<1>8. LiveC(q) /\ Len(q) = 0
  BY <1>4, EmptyQueue
<1>9. "running" # "handshake"
  OBVIOUS
<1>10. HandshakeInv
  BY <1>1, <1>2, <1>6, <1>8, <1>9, Zenon DEF HandshakeInv, Dap, No
<1>11. LiveInv
  BY <1>2, <1>8, QueueIs, Zenon
<1>12. ViewInv
  <2>1. phase # "handshake" => ~ editor.open
    BY <1>1, <1>2, <1>6, Zenon
  <2>2. QED  BY <2>1, Zenon DEF ViewInv
<1>13. QED  BY <1>7, <1>10, <1>11, <1>12 DEF EditorInv

LEMMA InitSdk ==
    ASSUME Init
    PROVE  SdkType /\ SdkInv
<1>1. sdk = [c \in Clients |-> NewClient(c)]
  BY Zenon DEF Init
<1>2. ASSUME NEW c \in Clients
      PROVE  sdk[c] \in ClientStates(c) /\ InOrder(sdk[c]) /\ OneAtATime(sdk[c], Numbers(c)) /\ \A i \in Numbers(c) : sdk[c].got[i] = -1
  <2>1. PICK s, N, I, e, g : s = sdk[c] /\ N = Len(Scripts[c]) /\ I = Numbers(c) /\ e = <<>> /\ g = [i \in I |-> -1]
    OBVIOUS
  <2>2. N \in Nat /\ I = 1..N
    BY <2>1, ScriptLength DEF Numbers
  <2>3. s = [sent |-> 0, wire |-> e, back |-> e, pending |-> {}, got |-> g]
    BY <1>1, <2>1, Zenon DEF NewClient, Numbers
  <2>4. s.sent = 0 /\ s.wire = e /\ s.back = e /\ s.pending = {} /\ s.got = g
    BY <2>3
  <2>5. Len(e) = 0 /\ e \in Seq(I)
    BY <2>1
  <2>6. g \in [I -> Int] /\ \A i \in I : g[i] = -1
    BY <2>1
  <2>7. 0 \in 0..N /\ {} \in SUBSET I
    BY <2>2
  <2>8. s \in [sent: 0..N, wire: Seq(I), back: Seq(I), pending: SUBSET I, got: [I -> Int]]
    BY ONLY <2>3, <2>5, <2>6, <2>7
  <2>9. InOrder(s)
    BY <2>4, <2>5 DEF InOrder, Rising
  <2>10. OneAtATime(s, I)
    BY <2>4, <2>5, <2>6 DEF OneAtATime
  <2>11. QED  BY <2>1, <2>4, <2>6, <2>8, <2>9, <2>10, Zenon DEF ClientStates
<1>3. sdk \in [Clients -> {sdk[c] : c \in Clients}]
  BY <1>1
<1>4. SdkType
  BY <1>2, <1>3, Zenon DEF SdkType
<1>5. AnswersBelong
  <2>1. ~(-1 > 0)
    OBVIOUS
  <2>2. QED  BY <1>2, <2>1, Zenon DEF AnswersBelong, Numbers
<1>6. Busy
  <2>1. mode = "attach" => phase \notin {"running", "stopped"}
    <3>1. mode # "cli" => phase = "handshake"
      BY Zenon DEF Init
    <3>2. QED  BY <3>1
  <2>2. QED  BY <2>1, Zenon DEF Busy
<1>7. QED  BY <1>2, <1>4, <1>5, <1>6, Zenon DEF SdkInv

-----------------------------------------------------------------------------
(* Every step preserves the invariant. *)

LEMMA HandshakeSdk ==
    ASSUME SdkOK, EditorType, EditorInv, Handshake
    PROVE  SdkType' /\ SdkInv'
<1>1. HandshakeInv /\ phase = "handshake"
  BY Zenon DEF EditorInv, Handshake
<1>2. Reads /\ (HsInit \/ HsFailed \/ HsLaunched \/ HsAttached \/ HsConfigured \/ HsMarked)
  BY <1>1, HandshakeStep
<1>3. mode' = mode /\ sdk' = sdk /\ inbox # <<>>
  BY <1>2, Zenon DEF Reads
<1>4. CASE HsLaunched
  <2>1. Head(inbox).k = "launch"
    BY <1>4, Zenon DEF HsLaunched
  <2>2. Head(inbox).k \in {"launch", "attach"}
    BY <2>1
  <2>3. Head(inbox).k = StartKind
    BY <1>1, <1>3, <2>2, HeadKind
  <2>4. mode' # "attach"
    BY <1>3, <2>1, <2>3 DEF StartKind
  <2>5. QED  BY <1>3, <2>4, SdkRests
<1>5. CASE HsInit \/ HsFailed \/ HsAttached \/ HsConfigured \/ HsMarked
  <2>1. phase' = "handshake" \/ phase' = "idle"
    BY <1>5, Zenon DEF HsInit, HsFailed, HsAttached, HsConfigured, HsMarked, Waiting
  <2>2. phase' \notin {"running", "stopped"}
    BY <2>1
  <2>3. QED  BY <1>3, <2>2, SdkRests
<1>6. QED  BY <1>2, <1>4, <1>5

\* The server's and the clients' part in a step that is not theirs.
LEMMA SdkAside ==
    ASSUME SdkOK, Busy, RunType, Send \/ Close \/ HandshakeEof \/ Begin \/ End \/ CommandRequest \/ CommandEof \/ CliResume \/ CliPoints
    PROVE  SdkType' /\ SdkInv'
<1>1. sdk' = sdk /\ mode' = mode
  BY Zenon DEF Send, Close, HandshakeEof, Begin, End, CommandRequest, CommandEof, CliResume, CliPoints
<1>2. CASE HandshakeEof
  <2>1. phase' = "ended" \/ phase' = "idle"
    BY <1>2, Zenon DEF HandshakeEof
  <2>2. phase' \notin {"running", "stopped"}
    BY <2>1
  <2>3. QED  BY <1>1, <2>2, SdkRests
<1>3. CASE Begin \/ End
  <2>1. phase = "running" /\ run' = [run EXCEPT !.pos = run.pos + 1]
    BY <1>3, Zenon DEF Begin, End
  <2>2. run'.by = run.by
    BY <2>1, Advanced
  <2>3. phase \in {"running", "stopped"}
    BY <2>1
  <2>4. QED  BY <1>1, <2>2, <2>3, SdkUnchanged
<1>4. CASE Send \/ Close \/ CommandRequest \/ CommandEof \/ CliResume \/ CliPoints
  <2>1. run' = run /\ (phase' = phase \/ phase = "stopped")
    BY <1>4, Zenon DEF Send, Close, CommandRequest, CommandEof, CliResume, CliPoints, Console
  <2>2. run'.by = run.by
    BY <2>1, Zenon
  <2>3. phase' \in {"running", "stopped"} => phase \in {"running", "stopped"}
    BY <2>1
  <2>4. QED  BY <1>1, <2>2, <2>3, SdkUnchanged
<1>5. QED  BY <1>2, <1>3, <1>4

Kept == RunType' /\ RunInv' /\ EditorType' /\ EditorInv' /\ SdkType' /\ SdkInv'

\* The invariant, for the steps of the server, of the editor and of the clients.
LEMMA ServerStep ==
    ASSUME RunType, RunInv, EditorType, EditorInv, SdkOK, Busy, Server
    PROVE  Kept
<1>1. HandshakeInv /\ LiveInv
  BY DEF EditorInv
<1>2. CASE Handshake
  BY <1>1, <1>2, HandshakeRuns, HandshakeEdits, HandshakeSdk DEF Kept
<1>3. CASE HandshakeEof
  BY <1>3, HandshakeEofRuns, HandshakeEofEdits, SdkAside DEF Kept
<1>4. CASE Begin
  BY <1>4, BeginRuns, BeginEdits, SdkAside DEF Kept
<1>5. CASE End
  BY <1>5, EndRuns, EndEdits, SdkAside DEF Kept
<1>6. CASE CommandRequest
  BY <1>1, <1>6, CommandRuns, CommandEdits, SdkAside DEF Kept
<1>7. CASE CommandEof
  BY <1>7, CommandEofRuns, CommandEofEdits, SdkAside DEF Kept
<1>8. CASE Complete
  BY <1>8, CompleteRuns, CompleteEdits, CompleteSdk DEF Kept
<1>9. QED  BY <1>2, <1>3, <1>4, <1>5, <1>6, <1>7, <1>8 DEF Server

LEMMA OthersStep ==
    ASSUME RunType, RunInv, EditorType, EditorInv, SdkOK, Busy, Send \/ Close \/ CliResume \/ CliPoints
    PROVE  Kept
<1>1. CASE Send
  <2>1. UNCHANGED <<mode, phase, d, run, goal>>
    BY <1>1, Zenon DEF Send
  <2>2. QED  BY <1>1, <2>1, RunKept, SendEdits, SdkAside DEF Kept
<1>2. CASE Close
  <2>1. UNCHANGED <<mode, phase, d, run, goal>>
    BY <1>2, Zenon DEF Close
  <2>2. QED  BY <1>2, <2>1, RunKept, CloseEdits, SdkAside DEF Kept
<1>3. CASE CliResume
  <2>1. phase = "stopped" /\ mode = "cli" /\ phase' = "running" /\ UNCHANGED <<mode, dap, inbox, editor>>
    BY <1>3, Zenon DEF CliResume, Console
  <2>2. EditorType' /\ EditorInv'
    BY <2>1, ConsoleEdits
  <2>3. QED  BY <1>3, <2>2, CliResumeRuns, SdkAside DEF Kept
<1>4. CASE CliPoints
  <2>1. phase = "stopped" /\ mode = "cli" /\ phase' = "stopped" /\ UNCHANGED <<mode, dap, inbox, editor>>
    BY <1>4, Zenon DEF CliPoints, Console
  <2>2. EditorType' /\ EditorInv'
    BY <2>1, ConsoleEdits
  <2>3. QED  BY <1>4, <2>2, CliPointsRuns, SdkAside DEF Kept
<1>5. QED  BY <1>1, <1>2, <1>3, <1>4

LEMMA ClientStep ==
    ASSUME RunType, RunInv, EditorType, EditorInv, SdkType, SdkOK, Busy, NEW c \in Clients, Sdk(c)
    PROVE  Kept
<1>1. CASE ServerStart(c)
  <2>1. /\ mode = "attach" /\ phase = "idle" /\ phase' = "running" /\ d' = reset_for_new_call(d)
        /\ UNCHANGED <<mode, dap, inbox, editor>>
    BY <1>1, Zenon DEF ServerStart, Serves
  <2>2. EditorType' /\ EditorInv'
    BY <2>1, CallEdits
  <2>3. QED  BY <1>1, <2>2, ServerStartRuns, ServerStartSdk DEF Kept
<1>2. ASSUME ServerTake(c) \/ SdkSend(c) \/ BlockingReceive(c) \/ BlockingTimeout(c) \/ AsyncReceive(c) PROVE Kept
  <2>1. UNCHANGED <<mode, phase, d, run, goal>> /\ UNCHANGED <<mode, phase, d, dap, inbox, editor>>
    BY <1>2, Zenon DEF ServerTake, SdkSend, BlockingReceive, BlockingTimeout, AsyncReceive
  <2>2. RunType' /\ RunInv'
    BY <2>1, RunKept
  <2>3. EditorType' /\ EditorInv'
    BY <2>1, EditorKept
  <2>4. SdkType' /\ SdkInv'
    BY <1>2, ServerTakeSdk, SdkSendSdk, BlockingReceiveSdk, BlockingTimeoutSdk, AsyncReceiveSdk
  <2>5. QED  BY <2>2, <2>3, <2>4 DEF Kept
<1>3. QED  BY <1>1, <1>2 DEF Sdk

LEMMA Stutter ==
    ASSUME RunType, RunInv, EditorType, EditorInv, SdkOK, Busy, UNCHANGED vars
    PROVE  Kept
<1>1. UNCHANGED <<mode, phase, d, dap, run, inbox, editor, sdk, goal>>
  BY DEF vars
<1>2. RunType' /\ RunInv'
  BY <1>1, RunKept
<1>3. EditorType' /\ EditorInv'
  BY <1>1, EditorKept
<1>4. SdkType' /\ SdkInv'
  <2>1. run'.by = run.by
    BY <1>1, Zenon
  <2>2. QED  BY <1>1, <2>1, SdkUnchanged
<1>5. QED  BY <1>2, <1>3, <1>4 DEF Kept

\* The invariant is inductive.
LEMMA InvariantHolds ==
    Spec => []IInv
<1>1. Init => IInv
  BY InitRuns, InitEdits, InitSdk DEF IInv, TypeOK
<1>2. IInv /\ [Next]_vars => IInv'
  <2> SUFFICES ASSUME IInv, [Next]_vars PROVE IInv'
    OBVIOUS
  <2>1. RunType /\ RunInv /\ EditorType /\ EditorInv /\ SdkType /\ SdkInv
    BY DEF IInv, TypeOK
  <2>2. SdkOK /\ Busy
    BY <2>1, SdkIs
  <2>3. Kept
    <3>1. CASE Server
      BY <2>1, <2>2, <3>1, ServerStep
    <3>2. CASE Send \/ Close \/ CliResume \/ CliPoints
      BY <2>1, <2>2, <3>2, OthersStep
    <3>3. CASE \E c \in Clients : Sdk(c)
      BY <2>1, <2>2, <3>3, ClientStep
    <3>4. CASE UNCHANGED vars
      BY <2>1, <2>2, <3>4, Stutter
    <3>5. QED  BY <3>1, <3>2, <3>3, <3>4, Zenon DEF Next
  <2>4. QED  BY <2>3 DEF Kept, IInv, TypeOK
<1>3. QED  BY <1>1, <1>2, PTL DEF Spec

-----------------------------------------------------------------------------

\* The state of a debug session has its types: every breakpoint and watchpoint has a number that was
\* given out, the stack is one of frames, requests and answers are those that were sent.
THEOREM TypeCorrect ==
    Spec => []TypeOK
<1>1. IInv => TypeOK
  BY DEF IInv
<1>2. QED  BY <1>1, InvariantHolds, PTL

\* A test runner is given the answers to its own requests (frontend/dap.rs, the clients of
\* clarinet-sdk/node), for every number of clients, whatever they send and however they time out.
THEOREM AnswersAreOwn ==
    Spec => []AnswersBelong
<1>1. IInv => AnswersBelong
  BY DEF IInv, SdkInv
<1>2. QED  BY <1>1, InvariantHolds, PTL

\* An editor that believes the program stopped, or still configures, has something to say.
LEMMA CanSpeak ==
    ASSUME editor.view = "stopped" \/ (editor.view = "configuring" /\ ~ Said("threads"))
    PROVE  Sayable # {}
<1>1. CASE editor.view = "stopped"
  <2>1. Req("disconnect") \in Sayable
    BY <1>1 DEF Sayable
  <2>2. QED  BY <2>1
<1>2. CASE editor.view = "configuring" /\ ~ Said("threads")
  <2>1. Req("threads") \in Sayable
    BY <1>2 DEF Sayable
  <2>2. QED  BY <2>1
<1>3. QED  BY <1>1, <1>2

\* An editor whose requests were all read knows that the program is stopped.
LEMMA StoppedView ==
    ASSUME EditorInv, phase = "stopped", inbox = <<>>, editor.open, editor.view # "gone"
    PROVE  \/ editor.view = "configuring" /\ mode = "launch" /\ dap = Dap(Yes, No, No) /\ editor.owed = 1 /\ ~ Said("threads")
           \/ editor.view = "stopped" /\ dap = ReadyC(mode) /\ editor.owed = 0
<1>1. PICK m, dp, v, S, o, q, x : m = mode /\ dp = dap /\ v = editor.view /\ S = editor.said /\ o = editor.owed /\ q = inbox /\ x = d
  OBVIOUS
<1>2. phase # "handshake"
  OBVIOUS
<1>3. Seen(m, "stopped", dp, v, S, o, q, x) /\ q = <<>> /\ v # "gone"
  BY <1>1, <1>2, EditorIs, Zenon
<1>4. Len(q) = 0 /\ ~ Has(q, "threads")
  BY <1>3 DEF Has
<1>5. "stopped" \notin {"running", "ended"}
  OBVIOUS
<1>6. Preparing(m, "stopped", dp, v, S, o, q) \/ Debugging(m, "stopped", dp, v, o, q, x)
  BY <1>3, <1>5, Zenon DEF Seen, Gone, Loading
<1>7. CASE Preparing(m, "stopped", dp, v, S, o, q)
  <2>1. v = "configuring" /\ m = "launch" /\ dp = Dap(Yes, No, No) /\ o = Len(q) + 1 /\ "threads" \notin S
    BY <1>4, <1>7, Zenon DEF Preparing, ConfC
  <2>2. o = 1
    BY <1>4, <2>1
  <2>3. QED  BY <1>1, <2>1, <2>2, Zenon DEF Said
<1>8. CASE Debugging(m, "stopped", dp, v, o, q, x)
  <2>1. v = "stopped" /\ dp = ReadyC(m) /\ o = Len(q)
    BY <1>8, Zenon DEF Debugging
  <2>2. QED  BY <1>1, <1>4, <2>1, Zenon
<1>9. QED  BY <1>6, <1>7, <1>8

\* While execution is stopped and every request has been read, the editor knows it, is owed nothing but
\* the answer to a launch that it is still configuring, and has something to say (wait_for_command).
THEOREM EditorGoesOn ==
    Spec => []EditorIsNotStuck
<1>1. IInv => EditorIsNotStuck
  <2> SUFFICES ASSUME IInv, phase = "stopped" /\ mode # "cli" /\ inbox = <<>> /\ editor.open /\ editor.view # "gone"
               PROVE  /\ Sayable # {}
                      /\ editor.view = IF mode = "attach" \/ dap.init THEN "stopped" ELSE "configuring"
                      /\ editor.owed = IF mode = "attach" \/ dap.init THEN 0 ELSE 1
    BY Zenon DEF EditorIsNotStuck
  <2>1. EditorInv
    BY DEF IInv
  <2>2. \/ editor.view = "configuring" /\ mode = "launch" /\ dap = Dap(Yes, No, No) /\ editor.owed = 1 /\ ~ Said("threads")
        \/ editor.view = "stopped" /\ dap = ReadyC(mode) /\ editor.owed = 0
    BY <2>1, StoppedView
  <2>3. Sayable # {}
    BY <2>2, CanSpeak
  <2>4. PICK dp, m : dp = dap /\ m = mode
    OBVIOUS
  <2>5. CASE editor.view = "configuring" /\ mode = "launch" /\ dap = Dap(Yes, No, No) /\ editor.owed = 1
    <3>1. dp = Dap(Yes, No, No)
      BY <2>4, <2>5, Zenon
    <3>2. dp.init = No
      BY <3>1, DapFieldsAre
    <3>3. ~ dap.init
      BY <2>4, <3>2, Zenon DEF No
    <3>4. mode # "attach"
      BY <2>5
    <3>5. QED  BY <2>3, <2>5, <3>3, <3>4, Zenon
  <2>6. CASE editor.view = "stopped" /\ dap = ReadyC(mode) /\ editor.owed = 0
    <3>1. m # "attach" => dp.init = Yes
      BY <2>4, <2>6, ReadyConfig
    <3>2. mode = "attach" \/ dap.init
      BY <2>4, <3>1, Zenon DEF Yes
    <3>3. QED  BY <2>3, <2>6, <3>2, Zenon
  <2>7. QED  BY <2>2, <2>5, <2>6, Zenon
<1>2. QED  BY <1>1, InvariantHolds, PTL

\* Only an expression that begins advances an execution over a "begin".
LEMMA BeginsThere ==
    ASSUME RunType, RunInv, [Next]_vars, phase = "running", run' = [run EXCEPT !.pos = run.pos + 1], T[run.pos + 1].ev = "begin"
    PROVE  Begin
<1>1. run'.pos = run.pos + 1 /\ run.pos \in Nat
  BY Advanced, RunTypeIs
<1>2. run' # run /\ run'.pos # 0
  <2>1. PICK n : n = run.pos
    OBVIOUS
  <2>2. n + 1 # n /\ n + 1 # 0
    BY <1>1, <2>1
  <2>3. QED  BY <1>1, <2>1, <2>2, Zenon
<1>3. ~ End
  <2>1. "begin" # "end"
    OBVIOUS
  <2>2. QED  BY <2>1, Zenon DEF End
<1>4. ~ Complete
  <2>1. Complete => run'.pos = 0
    <3>1. Complete => run' = Executing(run.by, Tail(run.ks)) \/ run' = NoRun
      BY Zenon DEF Complete
    <3>2. Executing(run.by, Tail(run.ks)).pos = 0 /\ NoRun.pos = 0
      BY Zenon DEF Executing, NoRun
    <3>3. QED  BY <3>1, <3>2, Zenon
  <2>2. QED  BY <1>2, <2>1
<1>5. "running" # "handshake" /\ "running" # "stopped" /\ "running" # "idle"
  OBVIOUS
<1>6. ~ Handshake /\ ~ HandshakeEof /\ ~ CommandRequest /\ ~ CommandEof /\ ~ CliResume /\ ~ CliPoints
  BY <1>5, Zenon DEF Handshake, HandshakeEof, CommandRequest, CommandEof, CliResume, CliPoints, Console
<1>7. ~ Send /\ ~ Close /\ ~ UNCHANGED vars
  BY <1>2, Zenon DEF Send, Close, vars
<1>8. ASSUME NEW c \in Clients PROVE ~ Sdk(c)
  <2>1. ~ ServerStart(c)
    BY <1>5, Zenon DEF ServerStart
  <2>2. ~ ServerTake(c) /\ ~ SdkSend(c) /\ ~ BlockingReceive(c) /\ ~ BlockingTimeout(c) /\ ~ AsyncReceive(c)
    BY <1>2, Zenon DEF ServerTake, SdkSend, BlockingReceive, BlockingTimeout, AsyncReceive
  <2>3. QED  BY <2>1, <2>2 DEF Sdk
<1>9. QED  BY <1>3, <1>4, <1>6, <1>7, <1>8, Zenon DEF Next, Server

\* Execution stops where a breakpoint, a watchpoint or the last command asks for it and nowhere else
\* (will_begin_eval, did_finish_eval), for every program, every nesting of its expressions and every
\* sequence of commands.
THEOREM StopsAreAsked ==
    Spec => StopsWhereAsked
<1>1. ASSUME IInv, [Next]_vars, phase = "running", run' = [run EXCEPT !.pos = run.pos + 1], T[run.pos + 1].ev = "begin"
      PROVE  /\ MustStop(run.pos + 1) => phase' = "stopped"
             /\ phase' = "stopped" => MayStop(run.pos + 1)
  <2>1. RunType /\ RunInv
    BY <1>1 DEF IInv, TypeOK
  <2>2. Begin
    BY <1>1, <2>1, BeginsThere
  <2>3. QED  BY <2>1, <2>2, BeginStops
<1>2. IInv /\ [Next]_vars =>
         [LET q == run.pos + 1
          IN phase = "running" /\ run' = [run EXCEPT !.pos = q] /\ T[q].ev = "begin" =>
                /\ MustStop(q) => phase' = "stopped"
                /\ phase' = "stopped" => MayStop(q)]_vars
  BY <1>1, Zenon
<1>3. QED  BY <1>2, InvariantHolds, PTL DEF Spec, StopsWhereAsked
=============================================================================
