----------------------------- MODULE StoreProofs -----------------------------
(***************************************************************************)
(* What is kept in files: the session store, for every number of entries,  *)
(* files and kills, and the settings, which stay saved and which nobody    *)
(* reads half written, for any number of processes, settings and groups.   *)
(***************************************************************************)
EXTENDS TreeNavigation, SettingsFile, FiniteSetTheorems, WellFoundedInduction, TLAPS

-----------------------------------------------------------------------------
(* Recursion.  The provers know nothing of a function that is defined by     *)
(* itself: that there is one is shown here.                                  *)
Less == {ss \in Nat \X Nat : ss[1] < ss[2]}

LEMMA LessWellFounded == IsWellFoundedOn(Less, Nat)
  BY NatLessThanWellFounded, Zenon DEF OpToRel, Less

\* Every set of naturals with a member has a least one.
LEMMA LeastExists ==
    ASSUME NEW S \in SUBSET Nat, S # {}
    PROVE  \E x \in S : \A y \in S : x <= y
<1>1. PICK x \in S : \A y \in S : ~(<<y, x>> \in Less)
  BY WFMin, LessWellFounded, Zenon
<1>2. ASSUME NEW y \in S PROVE x =< y
  <2>1. <<y, x>> \in Nat \X Nat /\ <<y, x>>[1] = y /\ <<y, x>>[2] = x
    OBVIOUS
  <2>2. ~(y < x)
    BY <1>1, <2>1, Zenon DEF Less
  <2> QED BY <2>2
<1> QED BY <1>2

\* Every set of naturals below a bound has a greatest one.
LEMMA GreatestExists ==
    ASSUME NEW n \in Nat, NEW S \in SUBSET (1..n), S # {}
    PROVE  /\ Max(S) \in S
           /\ \A y \in S : Max(S) >= y
<1> DEFINE T == {m \in Nat : \E x \in S : m = n - x}
<1>1. T \in SUBSET Nat /\ T # {}
  <2>1. PICK z \in S : TRUE
    OBVIOUS
  <2>2. n - z \in T
    OBVIOUS
  <2> QED BY <2>2
<1>2. PICK m \in T : \A y \in T : m <= y
  <2> HIDE DEF T
  <2> QED BY <1>1, LeastExists
<1>3. PICK x \in S : m = n - x
  BY <1>2
<1>4. ASSUME NEW y \in S PROVE x >= y
  <2>1. n - y \in T
    OBVIOUS
  <2>2. m <= n - y
    BY <1>2, <2>1
  <2> QED BY <1>3, <2>2
<1> QED BY <1>4 DEF Max

\* What holds of 0 and, if of n, of n + 1, holds up to any bound.
LEMMA UpTo ==
    ASSUME NEW K \in Nat, NEW S, 0 \in S, \A n \in 0..(K - 1) : n \in S => n + 1 \in S
    PROVE  \A n \in 0..K : n \in S
<1> DEFINE T == {n \in 0..K : n \notin S}
<1>1. SUFFICES ASSUME T # {} PROVE FALSE
  BY DEF T
<1>2. PICK x \in T : \A y \in T : x <= y
  <2>1. T \in SUBSET Nat
    OBVIOUS
  <2> HIDE DEF T
  <2> QED BY <1>1, <2>1, LeastExists
<1>3. x \in 1..K /\ x - 1 \in 0..(K - 1)
  OBVIOUS
<1>4. x - 1 \in S
  BY <1>2, <1>3
<1> QED BY <1>3, <1>4

\* A function is defined by its first value and a step from each value to the next.
IsRun(f, K, X, a, step) ==
    /\ f \in [0..K -> X] /\ f[0] = a
    /\ \A n \in 1..K : f[n] = step[<<f[n - 1], n>>]
LEMMA RunExists ==
    ASSUME NEW K \in Nat, NEW X, NEW a \in X, NEW step \in [X \X Nat -> X]
    PROVE  \E f : IsRun(f, K, X, a, step)
<1> DEFINE S == {k \in 0..K : \E f : IsRun(f, k, X, a, step)}
<1>1. 0 \in S
  <2> DEFINE f == [n \in 0..0 |-> a]
  <2>1. IsRun(f, 0, X, a, step)
    BY DEF IsRun
  <2> QED BY <2>1
<1>2. ASSUME NEW k \in 0..(K - 1), k \in S PROVE k + 1 \in S
  <2>1. PICK f : IsRun(f, k, X, a, step)
    BY <1>2
  <2> DEFINE g == [n \in 0..(k + 1) |-> IF n = k + 1 THEN step[<<f[k], k + 1>>] ELSE f[n]]
  <2>2. f[k] \in X
    BY <2>1 DEF IsRun
  <2>3. step[<<f[k], k + 1>>] \in X
    BY <2>2
  <2>4. g \in [0..(k + 1) -> X] /\ g[0] = a
    BY <2>1, <2>3 DEF IsRun
  <2>5. ASSUME NEW n \in 1..(k + 1) PROVE g[n] = step[<<g[n - 1], n>>]
    <3>1. CASE n = k + 1
      <4>1. n - 1 = k /\ k \in 0..(k + 1) /\ k # k + 1
        BY <3>1
      <4>2. g[n - 1] = f[k] /\ g[n] = step[<<f[k], k + 1>>]
        BY <3>1, <4>1
      <4> QED BY <3>1, <4>2
    <3>2. CASE n \in 1..k
      <4>1. n \in 0..(k + 1) /\ n - 1 \in 0..(k + 1) /\ n # k + 1 /\ n - 1 # k + 1
        BY <3>2
      <4>2. g[n] = f[n] /\ g[n - 1] = f[n - 1]
        BY <4>1
      <4> QED BY <2>1, <3>2, <4>2 DEF IsRun
    <3> QED BY <3>1, <3>2
  <2>6. IsRun(g, k + 1, X, a, step)
    <3> HIDE DEF g
    <3> QED BY <2>4, <2>5 DEF IsRun
  <2> QED BY <2>6
<1>3. K \in S
  <2> HIDE DEF S
  <2> QED BY <1>1, <1>2, UpTo
<1> QED BY <1>3

-----------------------------------------------------------------------------
(* Leaving out.                                                              *)
Kept1(s, D, f) ==
    /\ f[0] = <<>>
    /\ \A n \in 1..Len(s) :
          f[n] = IF s[n] \in D THEN f[n - 1] ELSE Append(f[n - 1], s[n])
LEMMA WithoutRun ==
    ASSUME NEW S, NEW s \in Seq(S), NEW D
    PROVE  \E f \in [0..Len(s) -> Seq(S \ D)] : Kept1(s, D, f) /\ Without(s, D) = f[Len(s)]
<1> DEFINE X == Seq(S \ D)
           step == [xn \in X \X Nat |->
                      IF xn[2] \in 1..Len(s) /\ s[xn[2]] \notin D
                      THEN Append(xn[1], s[xn[2]]) ELSE xn[1]]
           kept == CHOOSE kept : kept = [n \in 0..Len(s) |->
                      IF n = 0 THEN <<>>
                      ELSE IF s[n] \in D THEN kept[n - 1] ELSE Append(kept[n - 1], s[n])]
<1>1. Len(s) \in Nat /\ <<>> \in X /\ \A n \in 1..Len(s) : s[n] \in S
  OBVIOUS
<1>2. step \in [X \X Nat -> X]
  <2>1. ASSUME NEW xn \in X \X Nat
        PROVE  (IF xn[2] \in 1..Len(s) /\ s[xn[2]] \notin D
                THEN Append(xn[1], s[xn[2]]) ELSE xn[1]) \in X
    BY <1>1
  <2> QED BY <2>1
<1>3. PICK f : IsRun(f, Len(s), X, <<>>, step)
  <2> HIDE DEF step, X
  <2> QED BY <1>1, <1>2, RunExists
<1>4. f \in [0..Len(s) -> X] /\ f[0] = <<>>
  BY <1>3 DEF IsRun
<1>5. ASSUME NEW n \in 1..Len(s)
      PROVE  f[n] = IF s[n] \in D THEN f[n - 1] ELSE Append(f[n - 1], s[n])
  <2>1. <<f[n - 1], n>> \in X \X Nat
    BY <1>4
  <2>2. step[<<f[n - 1], n>>] = IF s[n] \in D THEN f[n - 1] ELSE Append(f[n - 1], s[n])
    <3> HIDE DEF X
    <3> QED BY <2>1
  <2> HIDE DEF step, X
  <2> QED BY <1>3, <2>2 DEF IsRun
<1>6. f = [n \in 0..Len(s) |->
             IF n = 0 THEN <<>>
             ELSE IF s[n] \in D THEN f[n - 1] ELSE Append(f[n - 1], s[n])]
  <2> HIDE DEF step, X
  <2>1. ASSUME NEW n \in 0..Len(s)
        PROVE  f[n] = IF n = 0 THEN <<>>
                      ELSE IF s[n] \in D THEN f[n - 1] ELSE Append(f[n - 1], s[n])
    <3>1. CASE n = 0
      BY <3>1, <1>4
    <3>2. CASE n \in 1..Len(s)
      <4>1. n # 0
        BY <3>2, <1>1
      <4> QED BY <3>2, <4>1, <1>5
    <3> QED BY <1>1, <3>1, <3>2
  <2> QED BY <1>4, <2>1
<1>7. kept = [n \in 0..Len(s) |->
                IF n = 0 THEN <<>>
                ELSE IF s[n] \in D THEN kept[n - 1] ELSE Append(kept[n - 1], s[n])]
  <2> HIDE DEF step, X
  <2> QED BY <1>6
<1>8. \A n \in 0..Len(s) : kept[n] = f[n]
  <2> HIDE DEF step, X, kept
  <2> DEFINE T == {n \in 0..Len(s) : kept[n] = f[n]}
  <2>1. 0 \in T
    BY <1>1, <1>4, <1>7
  <2>2. ASSUME NEW n \in 0..(Len(s) - 1), n \in T PROVE n + 1 \in T
    <3>1. kept[n] = f[n] /\ n + 1 \in 1..Len(s) /\ n + 1 # 0 /\ (n + 1) - 1 = n
      BY <1>1, <2>2
    <3>2. ASSUME NEW m \in 1..Len(s)
          PROVE  kept[m] = IF s[m] \in D THEN kept[m - 1] ELSE Append(kept[m - 1], s[m])
      <4>1. m \in 0..Len(s) /\ m # 0
        BY <1>1
      <4> QED BY <1>7, <4>1
    <3>4. kept[n + 1] = IF s[n + 1] \in D THEN kept[n] ELSE Append(kept[n], s[n + 1])
      BY <3>1, <3>2
    <3>5. f[n + 1] = IF s[n + 1] \in D THEN f[n] ELSE Append(f[n], s[n + 1])
      BY <1>5, <3>1
    <3>6. kept[n + 1] = f[n + 1]
      BY <3>1, <3>4, <3>5
    <3> QED BY <1>1, <3>1, <3>6
  <2>3. \A n \in 0..Len(s) : n \in T
    <3> HIDE DEF T
    <3> QED BY <1>1, <2>1, <2>2, UpTo
  <2> QED BY <2>3
<1>9. Without(s, D) = f[Len(s)]
  <2>1. Without(s, D) = kept[Len(s)]
    BY DEF Without
  <2> HIDE DEF step, X, kept
  <2> QED BY <1>1, <1>8, <2>1
<1> QED
  <2> HIDE DEF step, kept
  <2> QED BY <1>4, <1>5, <1>9 DEF Kept1

LEMMA WithoutType ==
    ASSUME NEW S, NEW s \in Seq(S), NEW D
    PROVE  Without(s, D) \in Seq(S \ D)
  BY WithoutRun

LEMMA WithoutUnique ==
    ASSUME NEW S, NEW s \in Seq(S), NEW D, NEW g, Kept1(s, D, g)
    PROVE  Without(s, D) = g[Len(s)]
<1>1. PICK f \in [0..Len(s) -> Seq(S \ D)] : Kept1(s, D, f) /\ Without(s, D) = f[Len(s)]
  BY WithoutRun
<1> DEFINE T == {n \in 0..Len(s) : g[n] = f[n]}
<1>2. Len(s) \in Nat
  OBVIOUS
<1>3. 0 \in T
  BY <1>1, <1>2 DEF Kept1
<1>4. ASSUME NEW n \in 0..(Len(s) - 1), n \in T PROVE n + 1 \in T
  <2>1. n + 1 \in 1..Len(s) /\ (n + 1) - 1 = n /\ g[n] = f[n]
    BY <1>2, <1>4
  <2>2. f[n + 1] = IF s[n + 1] \in D THEN f[n] ELSE Append(f[n], s[n + 1])
    BY <1>1, <2>1 DEF Kept1
  <2>3. g[n + 1] = IF s[n + 1] \in D THEN g[n] ELSE Append(g[n], s[n + 1])
    BY <2>1 DEF Kept1
  <2>4. g[n + 1] = f[n + 1]
    BY <2>1, <2>2, <2>3
  <2> QED BY <2>1, <2>4, <1>2
<1>5. Len(s) \in T
  <2>1. \A n \in 0..Len(s) : n \in T
    <3> HIDE DEF T
    <3> QED BY <1>2, <1>3, <1>4, UpTo
  <2> QED BY <2>1, <1>2
<1> QED BY <1>1, <1>5

LEMMA ConcatRange ==
    ASSUME NEW S, NEW p \in Seq(S), NEW q \in Seq(S)
    PROVE  Range(p \o q) = Range(p) \cup Range(q) /\ p \o q \in Seq(S)
<1>1. /\ Len(p) \in Nat /\ Len(q) \in Nat
      /\ DOMAIN p = 1..Len(p) /\ DOMAIN q = 1..Len(q)
      /\ DOMAIN (p \o q) = 1..(Len(p) + Len(q))
      /\ \A n \in 1..Len(p) : n \in 1..(Len(p) + Len(q)) /\ (p \o q)[n] = p[n]
      /\ \A n \in 1..Len(q) :
            n + Len(p) \in 1..(Len(p) + Len(q)) /\ (p \o q)[n + Len(p)] = q[n]
  OBVIOUS
<1>2. ASSUME NEW n \in 1..(Len(p) + Len(q))
      PROVE  n \in 1..Len(p) \/ \E k \in 1..Len(q) : n = k + Len(p)
  <2>1. CASE n <= Len(p)
    BY <1>1, <2>1
  <2>2. CASE n > Len(p)
    <3>1. n - Len(p) \in 1..Len(q) /\ n = (n - Len(p)) + Len(p)
      BY <1>1, <2>2
    <3> QED BY <3>1
  <2> QED BY <1>1, <2>1, <2>2
<1>3. Range(p) \cup Range(q) \subseteq Range(p \o q)
  <2>1. ASSUME NEW n \in DOMAIN p PROVE p[n] \in Range(p \o q)
    BY <1>1 DEF Range
  <2>2. ASSUME NEW n \in DOMAIN q PROVE q[n] \in Range(p \o q)
    BY <1>1 DEF Range
  <2> QED BY <2>1, <2>2 DEF Range
<1>4. Range(p \o q) \subseteq Range(p) \cup Range(q)
  <2>1. ASSUME NEW n \in DOMAIN (p \o q) PROVE (p \o q)[n] \in Range(p) \cup Range(q)
    <3>1. CASE n \in 1..Len(p)
      BY <1>1, <3>1 DEF Range
    <3>2. CASE \E k \in 1..Len(q) : n = k + Len(p)
      BY <1>1, <3>2 DEF Range
    <3> QED BY <1>1, <1>2, <2>1, <3>1, <3>2
  <2> QED BY <2>1 DEF Range
<1> QED BY <1>3, <1>4

LEMMA ConcatAppend ==
    ASSUME NEW S, NEW p \in Seq(S), NEW q \in Seq(S), NEW x \in S
    PROVE  p \o Append(q, x) = Append(p \o q, x)
  OBVIOUS

LEMMA AppendRange ==
    ASSUME NEW S, NEW p \in Seq(S), NEW x \in S
    PROVE  Range(Append(p, x)) = Range(p) \cup {x} /\ Append(p, x) \in Seq(S)
<1>1. /\ Len(p) \in Nat /\ Len(p) + 1 \in 1..(Len(p) + 1) /\ DOMAIN p = 1..Len(p)
      /\ DOMAIN Append(p, x) = 1..(Len(p) + 1) /\ Append(p, x)[Len(p) + 1] = x
      /\ \A n \in 1..Len(p) : n \in 1..(Len(p) + 1) /\ Append(p, x)[n] = p[n]
  OBVIOUS
<1>2. \A n \in 1..(Len(p) + 1) : n = Len(p) + 1 \/ n \in 1..Len(p)
  BY <1>1
<1> QED BY <1>1, <1>2 DEF Range

\* What is left of two sequences is what is left of each.
LEMMA WithoutConcat ==
    ASSUME NEW S, NEW s \in Seq(S), NEW t \in Seq(S), NEW D
    PROVE  Without(s \o t, D) = Without(s, D) \o Without(t, D)
<1>1. PICK f \in [0..Len(s) -> Seq(S \ D)] : Kept1(s, D, f) /\ Without(s, D) = f[Len(s)]
  BY WithoutRun
<1>2. PICK g \in [0..Len(t) -> Seq(S \ D)] : Kept1(t, D, g) /\ Without(t, D) = g[Len(t)]
  BY WithoutRun
<1>3. /\ Len(s) \in Nat /\ Len(t) \in Nat /\ s \o t \in Seq(S)
      /\ Len(s \o t) = Len(s) + Len(t)
  OBVIOUS
<1>9. /\ \A n \in 0..Len(s) : f[n] \in Seq(S \ D)
      /\ \A n \in 0..Len(t) : g[n] \in Seq(S \ D)
  BY <1>1, <1>2, Zenon
<1>10. f[Len(s)] \in Seq(S \ D)
  BY <1>3, <1>9
<1> DEFINE h == [n \in 0..(Len(s) + Len(t)) |->
                   IF n <= Len(s) THEN f[n] ELSE f[Len(s)] \o g[n - Len(s)]]
<1>4. h[0] = <<>>
  BY <1>1, <1>3 DEF Kept1
<1>5. ASSUME NEW n \in 1..(Len(s) + Len(t))
      PROVE  h[n] = IF (s \o t)[n] \in D THEN h[n - 1] ELSE Append(h[n - 1], (s \o t)[n])
  <2>1. CASE n <= Len(s)
    <3>1. n \in 1..Len(s) /\ (s \o t)[n] = s[n]
      BY <1>3, <2>1
    <3>2. h[n] = f[n] /\ h[n - 1] = f[n - 1]
      BY <1>3, <2>1
    <3> QED BY <1>1, <3>1, <3>2 DEF Kept1
  <2>2. CASE n > Len(s)
    <3> DEFINE m == n - Len(s)
    <3>1. m \in 1..Len(t) /\ (s \o t)[n] = t[m] /\ m \in 0..Len(t) /\ m - 1 \in 0..Len(t)
      BY <1>3, <2>2
    <3>2. h[n] = f[Len(s)] \o g[m]
      BY <1>3, <2>2
    <3>3. h[n - 1] = f[Len(s)] \o g[m - 1]
      <4>1. CASE n - 1 = Len(s)
        <5>1. g[m - 1] = <<>> /\ h[n - 1] = f[Len(s)]
          BY <1>2, <1>3, <4>1 DEF Kept1
        <5> QED BY <1>10, <5>1
      <4>2. CASE n - 1 > Len(s)
        <5>1. /\ n - 1 \in 0..(Len(s) + Len(t)) /\ ~(n - 1 <= Len(s))
              /\ (n - 1) - Len(s) = m - 1
          BY <1>3, <4>2
        <5>2. h[n - 1] = f[Len(s)] \o g[(n - 1) - Len(s)]
          BY <5>1, Zenon
        <5> HIDE DEF m, h
        <5> QED BY <5>1, <5>2
      <4>3. n - 1 = Len(s) \/ n - 1 > Len(s)
        BY <1>3, <2>2
      <4> HIDE DEF m, h
      <4> QED BY <4>1, <4>2, <4>3
    <3>4. g[m] = IF t[m] \in D THEN g[m - 1] ELSE Append(g[m - 1], t[m])
      BY <1>2, <3>1 DEF Kept1
    <3>5. /\ f[Len(s)] \in Seq(S \ D) /\ g[m - 1] \in Seq(S \ D) /\ t[m] \in S
      <4>1. m - 1 \in 0..Len(t) /\ m \in 1..Len(t)
        BY <3>1
      <4> HIDE DEF m
      <4>2. t[m] \in S
        BY <4>1
      <4> QED BY <1>9, <1>10, <4>1, <4>2
    <3>6. ASSUME t[m] \notin D
          PROVE  f[Len(s)] \o Append(g[m - 1], t[m]) = Append(f[Len(s)] \o g[m - 1], t[m])
      <4>1. t[m] \in S \ D
        BY <3>5, <3>6
      <4> DEFINE p == f[Len(s)]
                 q == g[m - 1]
                 y == t[m]
                 X == S \ D
      <4>2. p \in Seq(X) /\ q \in Seq(X) /\ y \in X
        BY <3>5, <4>1
      <4> HIDE DEF p, q, y, X
      <4>3. p \o Append(q, y) = Append(p \o q, y)
        BY <4>2, ConcatAppend
      <4> QED BY <4>3 DEF p, q, y
    <3> HIDE DEF h, m
    <3> QED BY <3>1, <3>2, <3>3, <3>4, <3>6
  <2> QED BY <1>3, <2>1, <2>2
<1>6. Kept1(s \o t, D, h)
  <2> HIDE DEF h
  <2> QED BY <1>3, <1>4, <1>5 DEF Kept1
<1>7. Without(s \o t, D) = h[Len(s) + Len(t)]
  <2> HIDE DEF h
  <2> QED BY <1>3, <1>6, WithoutUnique
<1>8. h[Len(s) + Len(t)] = f[Len(s)] \o g[Len(t)]
  <2>1. CASE Len(t) = 0
    <3>1. g[Len(t)] = <<>>
      BY <1>2, <2>1 DEF Kept1
    <3>2. h[Len(s) + Len(t)] = f[Len(s)]
      BY <1>3, <2>1
    <3> QED BY <1>10, <3>1, <3>2
  <2>2. CASE Len(t) # 0
    BY <1>3, <2>2
  <2> QED BY <2>1, <2>2
<1> QED
  <2> HIDE DEF h
  <2> QED BY <1>1, <1>2, <1>7, <1>8

LEMMA WithoutOne ==
    ASSUME NEW x, NEW D
    PROVE  Without(<<x>>, D) = IF x \in D THEN <<>> ELSE <<x>>
<1> DEFINE g == [n \in 0..1 |-> IF n = 1 /\ x \notin D THEN <<x>> ELSE <<>>]
<1>1. <<x>> \in Seq({x}) /\ Len(<<x>>) = 1 /\ <<x>>[1] = x
  OBVIOUS
<1>2. g[0] = <<>> /\ g[1] = IF x \in D THEN <<>> ELSE <<x>>
  OBVIOUS
<1>3. Append(<<>>, x) = <<x>>
  OBVIOUS
<1>4. Kept1(<<x>>, D, g)
  <2> HIDE DEF g
  <2>1. ASSUME NEW n \in 1..1
        PROVE  g[n] = IF <<x>>[n] \in D THEN g[n - 1] ELSE Append(g[n - 1], <<x>>[n])
    <3>1. n = 1 /\ n - 1 = 0
      OBVIOUS
    <3> QED BY <1>1, <1>2, <1>3, <3>1
  <2> QED BY <1>1, <1>2, <2>1 DEF Kept1
<1> QED
  <2> HIDE DEF g
  <2> QED BY <1>1, <1>2, <1>4, WithoutUnique

LEMMA WithoutAppend ==
    ASSUME NEW S, NEW s \in Seq(S), NEW x \in S, NEW D
    PROVE  Without(Append(s, x), D) =
               IF x \in D THEN Without(s, D) ELSE Append(Without(s, D), x)
<1>1. Append(s, x) = s \o <<x>> /\ <<x>> \in Seq(S)
  OBVIOUS
<1>2. Without(s \o <<x>>, D) = Without(s, D) \o Without(<<x>>, D)
  <2> DEFINE t == <<x>>
  <2>1. t \in Seq(S)
    BY <1>1
  <2> HIDE DEF t
  <2>2. Without(s \o t, D) = Without(s, D) \o Without(t, D)
    BY <2>1, WithoutConcat
  <2> QED BY <2>2 DEF t
<1>3. Without(s, D) \in Seq(S \ D)
  BY WithoutType
<1>4. CASE x \in D
  <2>1. Without(<<x>>, D) = <<>>
    BY <1>4, WithoutOne
  <2>2. Without(s, D) \o <<>> = Without(s, D)
    BY <1>3
  <2> QED BY <1>1, <1>2, <1>4, <2>1, <2>2
<1>5. CASE x \notin D
  <2>1. Without(<<x>>, D) = <<x>> /\ x \in S \ D
    BY <1>5, WithoutOne
  <2>2. Without(s, D) \o <<x>> = Append(Without(s, D), x)
    BY <1>3, <2>1
  <2> QED BY <1>1, <1>2, <1>5, <2>1, <2>2
<1> QED BY <1>4, <1>5

\* What is left is what is not left out.
LEMMA WithoutRange ==
    ASSUME NEW S, NEW s \in Seq(S), NEW D
    PROVE  Range(Without(s, D)) = Range(s) \ D
<1>1. PICK f \in [0..Len(s) -> Seq(S \ D)] : Kept1(s, D, f) /\ Without(s, D) = f[Len(s)]
  BY WithoutRun
<1> DEFINE T == {n \in 0..Len(s) : Range(f[n]) = {s[m] : m \in 1..n} \ D}
<1>2. Len(s) \in Nat /\ \A n \in 1..Len(s) : s[n] \in S
  OBVIOUS
<1>3. 0 \in T
  <2>1. f[0] = <<>> /\ Range(<<>>) = {}
    BY <1>1 DEF Kept1, Range
  <2> QED BY <1>2, <2>1
<1>4. ASSUME NEW n \in 0..(Len(s) - 1), n \in T PROVE n + 1 \in T
  <2>0. n + 1 \in 1..Len(s) /\ (n + 1) - 1 = n /\ n \in 0..Len(s) /\ n + 1 \in 0..Len(s)
    <3> HIDE DEF T
    <3> QED BY <1>2
  <2>1. /\ n + 1 \in 1..Len(s) /\ (n + 1) - 1 = n /\ n \in 0..Len(s) /\ n + 1 \in 0..Len(s)
        /\ Range(f[n]) = {s[m] : m \in 1..n} \ D
    BY <1>4, <2>0
  <2>2. f[n + 1] = IF s[n + 1] \in D THEN f[n] ELSE Append(f[n], s[n + 1])
    BY <1>1, <2>1 DEF Kept1
  <2>3. {s[m] : m \in 1..(n + 1)} = {s[m] : m \in 1..n} \cup {s[n + 1]}
    <3>1. 1..(n + 1) = (1..n) \cup {n + 1}
      BY <2>0
    <3> QED BY <3>1
  <2>5. f[n] \in Seq(S \ D)
    BY <2>1
  <2>6. Range(f[n + 1]) = {s[m] : m \in 1..(n + 1)} \ D
    <3>1. CASE s[n + 1] \in D
      BY <2>1, <2>2, <2>3, <3>1
    <3>2. CASE s[n + 1] \notin D
      <4>0. s[n + 1] \in S \ D
        BY <1>2, <2>1, <3>2
      <4>1. Range(f[n + 1]) = Range(f[n]) \cup {s[n + 1]}
        <5>1. Range(Append(f[n], s[n + 1])) = Range(f[n]) \cup {s[n + 1]}
          <6> DEFINE q == f[n]
                     y == s[n + 1]
                     X == S \ D
          <6>1. q \in Seq(X) /\ y \in X
            BY <2>5, <4>0
          <6> HIDE DEF q, y, X
          <6>2. Range(Append(q, y)) = Range(q) \cup {y}
            BY <6>1, AppendRange
          <6> QED BY <6>2 DEF q, y
        <5> QED BY <2>2, <3>2, <5>1
      <4> QED BY <2>1, <2>3, <3>2, <4>1
    <3> QED BY <3>1, <3>2
  <2> QED BY <2>1, <2>6
<1>5. Len(s) \in T
  <2>1. \A n \in 0..Len(s) : n \in T
    <3> HIDE DEF T
    <3> QED BY <1>2, <1>3, <1>4, UpTo
  <2> QED BY <2>1, <1>2
<1>6. Range(s) = {s[m] : m \in 1..Len(s)}
  BY DEF Range
<1> QED BY <1>1, <1>5, <1>6

-----------------------------------------------------------------------------
(* Files.                                                                    *)
Lines == SessionEntry \cup {Header, Junk}
FileContents == [lines : Seq(Lines), cut : BOOLEAN]

LEMMA EntriesAreNoMarks ==
    ASSUME NEW e \in SessionEntry
    PROVE  e # Header /\ e # Junk /\ Header # Junk
<1>1. e.kind \in {"user", "assistant", "other", "label"}
  BY DEF SessionEntry
<1>2. Header.kind = "session" /\ Junk.kind = "malformed"
  BY DEF Header, Junk
<1> QED BY <1>1, <1>2

LEMMA MarksDiffer == Header # Junk
<1>1. Header.kind = "session" /\ Junk.kind = "malformed"
  BY DEF Header, Junk
<1> QED BY <1>1

\* Loading yields the entries among the lines, if the file is a session's.
LEMMA LoadFacts ==
    ASSUME NEW c \in FileContents
    PROVE  /\ Load(c) \in Seq(SessionEntry)
           /\ Range(Load(c)) = IF Valid(c) THEN Range(c.lines) \ {Header, Junk} ELSE {}
           /\ Parsed(c) \in Seq(Lines)
<1>1. c.lines \in Seq(Lines)
  BY DEF FileContents
<1>2. Parsed(c) \in Seq(Lines \ {Junk}) /\ Range(Parsed(c)) = Range(c.lines) \ {Junk}
  BY <1>1, WithoutType, WithoutRange DEF Parsed
<1>3. /\ Without(Parsed(c), {Header}) \in Seq((Lines \ {Junk}) \ {Header})
      /\ Range(Without(Parsed(c), {Header})) = Range(Parsed(c)) \ {Header}
  BY <1>2, WithoutType, WithoutRange
<1>4. (Lines \ {Junk}) \ {Header} = SessionEntry
  BY EntriesAreNoMarks DEF Lines
<1>5. Range(<<>>) = {} /\ <<>> \in Seq(SessionEntry)
  BY DEF Range
<1>6. Range(Without(Parsed(c), {Header})) = Range(c.lines) \ {Header, Junk}
  BY <1>2, <1>3
<1>7. Parsed(c) \in Seq(Lines)
  BY <1>2
<1>8. Without(Parsed(c), {Header}) \in Seq(SessionEntry)
  BY <1>3, <1>4
<1>9. CASE Valid(c)
  BY <1>6, <1>7, <1>8, <1>9 DEF Load
<1>10. CASE ~Valid(c)
  BY <1>5, <1>7, <1>10 DEF Load
<1> QED BY <1>9, <1>10

\* A session's file stays one whatever is appended to it.
LEMMA ValidExtends ==
    ASSUME NEW c \in FileContents, NEW d \in FileContents, NEW more \in Seq(Lines),
           d.lines = c.lines \o more, Valid(c)
    PROVE  Valid(d)
<1>1. c.lines \in Seq(Lines)
  BY DEF FileContents
<1> DEFINE p == Parsed(c)
           q == Without(more, {Junk})
<1>2. Parsed(d) = p \o q
  <2> DEFINE l == c.lines
  <2>1. l \in Seq(Lines)
    BY <1>1
  <2> HIDE DEF l
  <2>2. Without(l \o more, {Junk}) = Without(l, {Junk}) \o Without(more, {Junk})
    BY <2>1, WithoutConcat
  <2> QED BY <2>2 DEF Parsed, l
<1>3. p \in Seq(Lines) /\ q \in Seq(Lines \ {Junk})
  BY LoadFacts, WithoutType
<1>4. p # <<>> /\ Head(p) = Header
  BY DEF Valid
<1>5. q \in Seq(Lines)
  BY <1>3
<1>6. p \o q # <<>> /\ Head(p \o q) = Head(p)
  <2> HIDE DEF p, q
  <2> QED BY <1>3, <1>4, <1>5
<1> QED BY <1>2, <1>4, <1>6 DEF Valid

\* What begins with a header is a session's file.
LEMMA HeaderFirst ==
    ASSUME NEW c \in FileContents, NEW es \in Seq(Lines), c.lines = <<Header>> \o es
    PROVE  Valid(c)
<1> DEFINE d == File(<<Header>>, FALSE)
<1>1. d \in FileContents /\ d.lines = <<Header>>
  BY DEF File, FileContents, Lines
<1>2. Without(<<Header>>, {Junk}) = <<Header>>
  BY WithoutOne, MarksDiffer
<1>3. Valid(d)
  <2>1. Parsed(d) = <<Header>>
    BY <1>1, <1>2 DEF Parsed
  <2>2. <<Header>> # <<>> /\ Head(<<Header>>) = Header
    OBVIOUS
  <2> HIDE DEF d
  <2> QED BY <2>1, <2>2 DEF Valid
<1> QED
  <2> HIDE DEF d
  <2> QED BY <1>1, <1>3, ValidExtends

\* The lines of a file that is appended to, and what becomes of them.
LEMMA AddedFacts ==
    ASSUME NEW old \in FileContents, NEW new \in Seq(Lines), new # <<>>
    PROVE  /\ Added(old, new) \in FileContents /\ ~Added(old, new).cut
           /\ old.cut => Junk \in Range(Added(old, new).lines)
           /\ ~old.cut => Added(old, new).lines = old.lines \o new
           /\ Range(Added(old, new).lines) \subseteq Range(old.lines) \cup Range(new) \cup {Junk}
           /\ Kept(old) \in FileContents
           /\ \E more \in Seq(Lines) : Added(old, new).lines = Kept(old).lines \o more
<1>1. old.lines \in Seq(Lines) /\ old.cut \in BOOLEAN
  BY DEF FileContents
<1>2. CASE ~old.cut
  <2>1. Added(old, new) = [lines |-> old.lines \o new, cut |-> FALSE] /\ Kept(old) = old
    BY <1>2 DEF Added, File, Kept
  <2>2. old.lines \o new \in Seq(Lines)
    BY <1>1
  <2>3. Range(old.lines \o new) = Range(old.lines) \cup Range(new)
    BY <1>1, ConcatRange
  <2>4. Added(old, new).lines = old.lines \o new /\ ~Added(old, new).cut
    BY <2>1
  <2>5. Added(old, new) \in FileContents
    BY <2>1, <2>2 DEF FileContents
  <2> QED BY <1>2, <2>1, <2>3, <2>4, <2>5
<1>3. CASE old.cut
  <2> DEFINE f == Front(old.lines)
             more == <<Junk>> \o Tail(new)
  <2>1. f \in Seq(Lines) /\ Range(f) \subseteq Range(old.lines)
    BY <1>1 DEF Front, Range
  <2>2. Tail(new) \in Seq(Lines) /\ Range(Tail(new)) \subseteq Range(new) /\ <<Junk>> \in Seq(Lines)
    BY DEF Range, Lines
  <2>3. more \in Seq(Lines) /\ Range(more) = {Junk} \cup Range(Tail(new))
    <3> DEFINE t == Tail(new)
               u == <<Junk>>
    <3>2. t \in Seq(Lines) /\ u \in Seq(Lines)
      BY <2>2
    <3>3. Range(u) = {Junk}
      BY DEF Range
    <3> HIDE DEF t, u
    <3>4. Range(u \o t) = Range(u) \cup Range(t) /\ u \o t \in Seq(Lines)
      BY <3>2, ConcatRange
    <3> QED BY <3>3, <3>4 DEF t, u
  <2>4. Added(old, new) = [lines |-> f \o more, cut |-> FALSE]
        /\ Kept(old) = [lines |-> f, cut |-> FALSE]
    <3>1. (f \o <<Junk>>) \o Tail(new) = f \o more
      BY <2>1, <2>2
    <3> HIDE DEF more
    <3> QED BY <1>3, <3>1 DEF Added, File, Kept
  <2>5. Range(f \o more) = Range(f) \cup Range(more) /\ f \o more \in Seq(Lines)
    <3> HIDE DEF f, more
    <3> QED BY <2>1, <2>3, ConcatRange
  <2> HIDE DEF f, more
  <2>6. /\ Added(old, new).lines = f \o more /\ ~Added(old, new).cut
        /\ Kept(old).lines = f
    BY <2>4
  <2>7. Added(old, new) \in FileContents /\ Kept(old) \in FileContents
    BY <2>1, <2>4, <2>5 DEF FileContents
  <2>8. Junk \in Range(f \o more)
    BY <2>3, <2>5
  <2>9. Range(f \o more) \subseteq Range(old.lines) \cup Range(new) \cup {Junk}
    BY <2>1, <2>2, <2>3, <2>5
  <2> QED BY <1>3, <2>3, <2>6, <2>7, <2>8, <2>9
<1> QED BY <1>1, <1>2, <1>3

LEMMA LoadGrows ==
    ASSUME NEW c \in FileContents, NEW d \in FileContents,
           \E more \in Seq(Lines) : d.lines = c.lines \o more
    PROVE  Range(Load(c)) \subseteq Range(Load(d))
<1>1. PICK more \in Seq(Lines) : d.lines = c.lines \o more
  OBVIOUS
<1>2. CASE Valid(c)
  <2>1. Valid(d)
    BY <1>1, <1>2, ValidExtends
  <2>2. Range(d.lines) = Range(c.lines) \cup Range(more)
    BY <1>1, ConcatRange DEF FileContents
  <2> QED BY <1>2, <2>1, <2>2, LoadFacts
<1>3. CASE ~Valid(c)
  BY <1>3, LoadFacts
<1> QED BY <1>2, <1>3

\* A write that a kill cuts short leaves what was there, but for a line without newline.
LEMMA TornFacts ==
    ASSUME NEW old \in FileContents, NEW new \in Seq(Lines), NEW c \in Torn(old, new)
    PROVE  /\ c \in FileContents
           /\ \E more \in Seq(Lines) : c.lines = Kept(old).lines \o more
           /\ Range(c.lines) \subseteq Range(old.lines) \cup Range(new) \cup {Junk}
<1> DEFINE Result(d) ==
             /\ d \in FileContents
             /\ \E more \in Seq(Lines) : d.lines = Kept(old).lines \o more
             /\ Range(d.lines) \subseteq Range(old.lines) \cup Range(new) \cup {Junk}
<1>1. old.lines \in Seq(Lines) /\ old.cut \in BOOLEAN
  BY DEF FileContents
<1>2. Result(old)
  <2>1. CASE ~old.cut
    <3>1. Kept(old).lines = old.lines /\ old.lines = old.lines \o <<>> /\ <<>> \in Seq(Lines)
      BY <1>1, <2>1 DEF Kept
    <3> QED BY <3>1
  <2>2. CASE old.cut /\ old.lines = <<>>
    <3>1. Kept(old).lines = <<>> /\ <<>> \o <<>> = <<>> /\ <<>> \in Seq(Lines)
      <4>1. Kept(old).lines = Front(<<>>)
        BY <2>2 DEF Kept, File
      <4>2. Front(<<>>) = <<>>
        BY DEF Front
      <4> QED BY <4>1, <4>2
    <3>2. old.lines = Kept(old).lines \o <<>>
      BY <2>2, <3>1
    <3> QED BY <3>1, <3>2
  <2>3. CASE old.cut /\ old.lines # <<>>
    <3> DEFINE l == old.lines
    <3>1. l \in Seq(Lines) /\ l # <<>>
      BY <1>1, <2>3
    <3>2. Kept(old).lines = SubSeq(l, 1, Len(l) - 1)
      BY <2>3 DEF Kept, File, Front
    <3> HIDE DEF l
    <3>3. Len(l) \in Nat \ {0} /\ l[Len(l)] \in Lines
      BY <3>1
    <3>4. l = SubSeq(l, 1, Len(l) - 1) \o <<l[Len(l)]>>
      BY <3>1, <3>3
    <3>5. <<l[Len(l)]>> \in Seq(Lines)
      BY <3>3
    <3>6. old.lines = Kept(old).lines \o <<l[Len(l)]>>
      BY <3>2, <3>4 DEF l
    <3> QED BY <3>5, <3>6
  <2> QED BY <1>1, <2>1, <2>2, <2>3
<1>3. ASSUME NEW n \in Seq(Lines), n # <<>>, Range(n) \subseteq Range(new) \cup {Junk}
      PROVE  Result(Added(old, n)) /\ Result(File(Added(old, n).lines, TRUE))
  <2> DEFINE a == Added(old, n)
  <2>1. /\ a \in FileContents
        /\ Range(a.lines) \subseteq Range(old.lines) \cup Range(n) \cup {Junk}
        /\ \E more \in Seq(Lines) : a.lines = Kept(old).lines \o more
    BY <1>3, AddedFacts
  <2> HIDE DEF a
  <2>2. File(a.lines, TRUE) \in FileContents /\ File(a.lines, TRUE).lines = a.lines
    BY <2>1 DEF File, FileContents
  <2> QED BY <1>3, <2>1, <2>2 DEF a
<1>4. ASSUME NEW k \in 1..Len(new)
      PROVE  /\ SubSeq(new, 1, k) \in Seq(Lines) /\ SubSeq(new, 1, k) # <<>>
             /\ Range(SubSeq(new, 1, k)) \subseteq Range(new)
  <2>1. /\ Len(new) \in Nat /\ SubSeq(new, 1, k) \in Seq(Lines) /\ Len(SubSeq(new, 1, k)) = k
        /\ DOMAIN SubSeq(new, 1, k) = 1..k /\ \A m \in 1..k : SubSeq(new, 1, k)[m] = new[m]
        /\ DOMAIN new = 1..Len(new)
    OBVIOUS
  <2>2. SubSeq(new, 1, k) # <<>>
    BY <2>1
  <2> QED BY <2>1, <2>2 DEF Range
<1>5. ASSUME NEW k \in 1..Len(new)
      PROVE  LET n == Append(SubSeq(new, 1, k - 1), Junk)
             IN  /\ n \in Seq(Lines) /\ n # <<>> /\ Range(n) \subseteq Range(new) \cup {Junk}
  <2> DEFINE q == SubSeq(new, 1, k - 1)
  <2>1. /\ Len(new) \in Nat /\ q \in Seq(Lines)
        /\ DOMAIN q = 1..(k - 1) /\ \A m \in 1..(k - 1) : q[m] = new[m]
        /\ DOMAIN new = 1..Len(new)
    OBVIOUS
  <2>2. Range(q) \subseteq Range(new)
    <3> HIDE DEF q
    <3> QED BY <2>1 DEF Range
  <2>3. Junk \in Lines
    BY DEF Lines
  <2> HIDE DEF q
  <2>4. Range(Append(q, Junk)) = Range(q) \cup {Junk}
    <3> DEFINE x == Junk
    <3>1. x \in Lines
      BY <2>3
    <3> HIDE DEF x
    <3>2. Range(Append(q, x)) = Range(q) \cup {x}
      BY <2>1, <3>1, AppendRange
    <3> QED BY <3>2 DEF x
  <2>5. Append(q, Junk) \in Seq(Lines) /\ Append(q, Junk) # <<>>
    BY <2>1, <2>3
  <2> QED BY <2>2, <2>4, <2>5 DEF q
<1> DEFINE cuts == {k \in 1..Len(new) : new[k] # Header}
<1>6. \/ c = old
      \/ \E k \in 1..Len(new) :
            \/ c = Added(old, SubSeq(new, 1, k))
            \/ c = File(Added(old, SubSeq(new, 1, k)).lines, TRUE)
            \/ c = File(Added(old, Append(SubSeq(new, 1, k - 1), Junk)).lines, TRUE)
  <2>1. Len(new) \in Nat /\ \A k \in 1..(Len(new) - 1) : k \in 1..Len(new)
    OBVIOUS
  <2> QED BY <2>1 DEF Torn
<1>7. Result(c)
  <2>1. CASE c = old
    BY <1>2, <2>1
  <2>2. ASSUME NEW k \in 1..Len(new), c = Added(old, SubSeq(new, 1, k)) PROVE Result(c)
    <3> HIDE DEF Result
    <3>1. Result(Added(old, SubSeq(new, 1, k)))
      BY <1>3, <1>4
    <3> QED BY <2>2, <3>1
  <2>3. ASSUME NEW k \in 1..Len(new), c = File(Added(old, SubSeq(new, 1, k)).lines, TRUE)
        PROVE  Result(c)
    <3> HIDE DEF Result
    <3>1. Result(File(Added(old, SubSeq(new, 1, k)).lines, TRUE))
      BY <1>3, <1>4
    <3> QED BY <2>3, <3>1
  <2>4. ASSUME NEW k \in 1..Len(new),
               c = File(Added(old, Append(SubSeq(new, 1, k - 1), Junk)).lines, TRUE)
        PROVE  Result(c)
    <3> DEFINE n == Append(SubSeq(new, 1, k - 1), Junk)
    <3>1. n \in Seq(Lines) /\ n # <<>> /\ Range(n) \subseteq Range(new) \cup {Junk}
      BY <1>5
    <3> HIDE DEF Result, n
    <3>2. Result(File(Added(old, n).lines, TRUE))
      BY <1>3, <3>1
    <3> QED BY <2>4, <3>2 DEF n
  <2> HIDE DEF Result
  <2> QED BY <1>6, <2>1, <2>2, <2>3, <2>4
<1> QED BY <1>7

-----------------------------------------------------------------------------
(* Walking towards the root.                                                 *)
\* Each of the entries has an id up to n, and its parent a lower one.
Rooted(S, n) ==
    \A e \in S : e \in SessionEntry => e.id <= n /\ (e.parent # None => e.parent < e.id)

\* An entry that is known is found.
LEMMA LookupFinds ==
    ASSUME NEW es \in Seq(SessionEntry), NEW i \in Known(es)
    PROVE  Lookup(es, i) \in Range(es) /\ Lookup(es, i).id = i
<1> DEFINE found == {k \in 1..Len(es) : es[k].id = i}
<1>1. found \in SUBSET (1..Len(es)) /\ Len(es) \in Nat
  OBVIOUS
<1>2. PICK e \in Range(es) : e.id = i
  BY DEF Known
<1>3. PICK k \in 1..Len(es) : e = es[k]
  BY DEF Range
<1>4. found # {}
  BY <1>2, <1>3
<1>5. Max(found) \in found
  <2> HIDE DEF found
  <2> QED BY <1>1, <1>4, GreatestExists
<1>6. Lookup(es, i) = es[Max(found)]
  <2>1. SelectLastInSeq(es, LAMBDA x : x.id = i) = Max(found)
    BY <1>4 DEF SelectLastInSeq
  <2> HIDE DEF found
  <2> QED BY <2>1 DEF Lookup
<1>7. DOMAIN es = 1..Len(es) /\ Max(found) \in 1..Len(es) /\ es[Max(found)].id = i
  BY <1>5
<1> HIDE DEF found
<1> QED BY <1>6, <1>7 DEF Range

LEMMA KnownFacts ==
    ASSUME NEW es \in Seq(SessionEntry)
    PROVE  /\ Known(es) \subseteq Ids /\ Ids \subseteq Nat /\ None \notin Ids
           /\ Range(es) \subseteq SessionEntry
           /\ \A i : ParentOf(es, i) \in Known(es) \cup {None}
<1>1. Range(es) \subseteq SessionEntry
  BY DEF Range
<1>2. Ids \subseteq Nat /\ None \notin Ids
  BY StoreAssumption DEF Ids
<1>3. \A e \in SessionEntry : e.id \in Ids
  BY DEF SessionEntry
<1> QED BY <1>1, <1>2, <1>3 DEF Known, ParentOf

IsWalk(es, i, up) ==
    /\ up \in [0..MaxIds -> Known(es) \cup {None, i}] /\ up[0] = i
    /\ \A n \in 1..MaxIds :
          up[n] = IF up[n - 1] = None THEN None ELSE ParentOf(es, up[n - 1])

LEMMA UpIsWalk ==
    ASSUME NEW es \in Seq(SessionEntry), NEW i
    PROVE  IsWalk(es, i, Up(es, i))
<1> DEFINE X == Known(es) \cup {None, i}
           step == [xn \in X \X Nat |-> IF xn[1] = None THEN None ELSE ParentOf(es, xn[1])]
           up == CHOOSE up : up = [n \in 0..MaxIds |->
                    IF n = 0 THEN i
                    ELSE IF up[n - 1] = None THEN None ELSE ParentOf(es, up[n - 1])]
<1>1. MaxIds \in Nat /\ i \in X /\ step \in [X \X Nat -> X]
  BY StoreAssumption, KnownFacts
<1>2. PICK f : IsRun(f, MaxIds, X, i, step)
  <2> HIDE DEF X, step
  <2> QED BY <1>1, RunExists
<1>3. f \in [0..MaxIds -> X] /\ f[0] = i
  BY <1>2 DEF IsRun
<1>4. ASSUME NEW n \in 1..MaxIds
      PROVE  f[n] = IF f[n - 1] = None THEN None ELSE ParentOf(es, f[n - 1])
  <2>1. n - 1 \in 0..MaxIds /\ n \in Nat
    BY <1>1
  <2>2. <<f[n - 1], n>> \in X \X Nat
    BY <1>3, <2>1
  <2>3. step[<<f[n - 1], n>>] = IF f[n - 1] = None THEN None ELSE ParentOf(es, f[n - 1])
    <3> HIDE DEF X
    <3> QED BY <2>2
  <2> HIDE DEF X, step
  <2> QED BY <1>2, <2>3 DEF IsRun
<1>5. f = [n \in 0..MaxIds |->
             IF n = 0 THEN i ELSE IF f[n - 1] = None THEN None ELSE ParentOf(es, f[n - 1])]
  <2> HIDE DEF X, step
  <2>1. ASSUME NEW n \in 0..MaxIds
        PROVE  f[n] = IF n = 0 THEN i
                      ELSE IF f[n - 1] = None THEN None ELSE ParentOf(es, f[n - 1])
    <3>1. CASE n = 0
      BY <3>1, <1>3
    <3>2. CASE n \in 1..MaxIds
      <4>1. n # 0
        BY <3>2
      <4> QED BY <3>2, <4>1, <1>4
    <3> QED BY <1>1, <3>1, <3>2
  <2> QED BY <1>3, <2>1
<1>6. up = [n \in 0..MaxIds |->
              IF n = 0 THEN i ELSE IF up[n - 1] = None THEN None ELSE ParentOf(es, up[n - 1])]
  <2> HIDE DEF X, step
  <2> QED BY <1>5
<1>7. \A n \in 0..MaxIds : up[n] = f[n]
  <2> HIDE DEF step, X, up
  <2> DEFINE T == {n \in 0..MaxIds : up[n] = f[n]}
  <2>1. 0 \in T
    BY <1>1, <1>3, <1>6
  <2>2. ASSUME NEW n \in 0..(MaxIds - 1), n \in T PROVE n + 1 \in T
    <3>1. up[n] = f[n] /\ n + 1 \in 1..MaxIds /\ n + 1 \in 0..MaxIds /\ (n + 1) - 1 = n
      BY <1>1, <2>2
    <3>2. ASSUME NEW m \in 1..MaxIds
          PROVE  up[m] = IF up[m - 1] = None THEN None ELSE ParentOf(es, up[m - 1])
      <4>1. m \in 0..MaxIds /\ m # 0
        BY <1>1
      <4> QED BY <1>6, <4>1
    <3>3. up[n + 1] = IF up[n] = None THEN None ELSE ParentOf(es, up[n])
      BY <3>1, <3>2
    <3>4. f[n + 1] = IF f[n] = None THEN None ELSE ParentOf(es, f[n])
      BY <1>4, <3>1
    <3>5. up[n + 1] = f[n + 1]
      BY <3>1, <3>3, <3>4
    <3> QED BY <3>1, <3>5
  <2>3. \A n \in 0..MaxIds : n \in T
    <3> HIDE DEF T
    <3> QED BY <1>1, <2>1, <2>2, UpTo
  <2> QED BY <2>3
<1>8. up = f
  <2> HIDE DEF step, X
  <2>1. DOMAIN up = 0..MaxIds /\ up = [n \in 0..MaxIds |-> up[n]]
    <3> HIDE DEF up
    <3>1. DOMAIN up = 0..MaxIds
      BY <1>6
    <3>2. up = [n \in DOMAIN up |-> up[n]]
      BY <1>6
    <3> QED BY <3>1, <3>2
  <2> HIDE DEF up
  <2> QED BY <1>3, <1>7, <2>1
<1>9. Up(es, i) = f
  BY <1>8 DEF Up
<1> QED
  <2> HIDE DEF step, up
  <2> QED BY <1>3, <1>4, <1>9 DEF IsWalk

LEMMA ParentIsLower ==
    ASSUME NEW es \in Seq(SessionEntry), Rooted(Range(es), MaxIds), NEW i \in Known(es)
    PROVE  ParentOf(es, i) # None => ParentOf(es, i) \in Known(es) /\ ParentOf(es, i) < i
<1>1. Lookup(es, i) \in Range(es) /\ Lookup(es, i).id = i
  BY LookupFinds
<1>2. Lookup(es, i) \in SessionEntry
  BY <1>1, KnownFacts
<1>3. Lookup(es, i).parent # None => Lookup(es, i).parent < i
  BY <1>1, <1>2 DEF Rooted
<1>4. CASE Lookup(es, i).parent \in Known(es)
  <2>1. ParentOf(es, i) = Lookup(es, i).parent
    BY <1>4 DEF ParentOf
  <2>2. Lookup(es, i).parent # None
    BY <1>4, KnownFacts
  <2> QED BY <1>3, <1>4, <2>1, <2>2
<1>5. CASE Lookup(es, i).parent \notin Known(es)
  <2>1. ParentOf(es, i) = None
    BY <1>5 DEF ParentOf
  <2> QED BY <2>1
<1> QED BY <1>4, <1>5

\* With every step the id is lower, so that the walk is over after as many as there are ids.
LEMMA WalkDescends ==
    ASSUME NEW es \in Seq(SessionEntry), Rooted(Range(es), MaxIds),
           NEW i \in Known(es) \cup {None}, NEW up, IsWalk(es, i, up)
    PROVE  /\ \A n \in 0..MaxIds : up[n] # None => up[n] \in Known(es) /\ up[n] <= MaxIds - n
           /\ up[MaxIds] = None
<1> DEFINE T == {n \in 0..MaxIds :
                   up[n] # None => up[n] \in Known(es) /\ up[n] <= MaxIds - n}
<1>1. MaxIds \in Nat /\ \A k \in Known(es) : k \in 1..MaxIds
  BY StoreAssumption, KnownFacts DEF Ids
<1>2. 0 \in T
  <2>1. up[0] = i
    BY DEF IsWalk
  <2> QED BY <1>1, <2>1
<1>3. ASSUME NEW n \in 0..(MaxIds - 1), n \in T PROVE n + 1 \in T
  <2>1. /\ n + 1 \in 1..MaxIds /\ (n + 1) - 1 = n /\ n + 1 \in 0..MaxIds
        /\ up[n] # None => up[n] \in Known(es) /\ up[n] <= MaxIds - n
    BY <1>1, <1>3
  <2>2. up[n + 1] = IF up[n] = None THEN None ELSE ParentOf(es, up[n])
    BY <2>1 DEF IsWalk
  <2>3. CASE up[n] = None
    BY <2>1, <2>2, <2>3
  <2>4. CASE up[n] # None
    <3>1. up[n + 1] # None => up[n + 1] \in Known(es) /\ up[n + 1] < up[n]
      BY <2>1, <2>2, <2>4, ParentIsLower
    <3>2. up[n + 1] # None => up[n + 1] \in Known(es) /\ up[n + 1] <= MaxIds - (n + 1)
      BY <1>1, <2>1, <2>4, <3>1
    <3> QED BY <2>1, <3>2
  <2> QED BY <2>3, <2>4
<1>4. \A n \in 0..MaxIds : n \in T
  <2> HIDE DEF T
  <2> QED BY <1>1, <1>2, <1>3, UpTo
<1> QED BY <1>1, <1>4

\* The depth of an entry, and its branch: entries of the list, one for each step.
IsDepth(up, d) == d \in 0..MaxIds /\ up[d] = None /\ \A m \in 0..(d - 1) : up[m] # None

LEMMA DepthIsUnique ==
    ASSUME NEW up, NEW d, IsDepth(up, d)
    PROVE  d = CHOOSE n \in 0..MaxIds : up[n] = None /\ \A m \in 0..(n - 1) : up[m] # None
<1> DEFINE c == CHOOSE n \in 0..MaxIds : up[n] = None /\ \A m \in 0..(n - 1) : up[m] # None
<1>1. c \in 0..MaxIds /\ up[c] = None /\ \A m \in 0..(c - 1) : up[m] # None
  BY DEF IsDepth
<1> HIDE DEF c
<1>2. ~(c < d) /\ ~(d < c)
  BY <1>1, StoreAssumption DEF IsDepth
<1>3. c = d
  BY <1>1, <1>2, StoreAssumption DEF IsDepth
<1> QED BY <1>3 DEF c

LEMMA BranchIs ==
    ASSUME NEW es \in Seq(SessionEntry), NEW i \in Known(es), NEW d, IsDepth(Up(es, i), d)
    PROVE  Branch(es, i) = [k \in 1..d |-> Lookup(es, Up(es, i)[d - k])]
<1> DEFINE up == Up(es, i)
<1>1. i # None
  BY KnownFacts
<1>2. d = CHOOSE n \in 0..MaxIds : up[n] = None /\ \A m \in 0..(n - 1) : up[m] # None
  BY DepthIsUnique
<1> QED BY <1>1, <1>2 DEF Branch

LEMMA DepthExists ==
    ASSUME NEW es \in Seq(SessionEntry), Rooted(Range(es), MaxIds), NEW i \in Known(es)
    PROVE  \E d \in 1..MaxIds : IsDepth(Up(es, i), d)
<1> DEFINE up == Up(es, i)
           T == {n \in 0..MaxIds : up[n] = None}
<1>1. IsWalk(es, i, up)
  BY UpIsWalk
<1>2. MaxIds \in Nat /\ MaxIds \in T /\ T \in SUBSET Nat
  <2>1. up[MaxIds] = None
    <3> HIDE DEF up
    <3> QED BY <1>1, WalkDescends
  <2> QED BY <2>1, StoreAssumption
<1>3. PICK d \in T : \A n \in T : d <= n
  <2> HIDE DEF T
  <2> QED BY <1>2, LeastExists
<1>4. up[0] = i /\ i # None
  BY <1>1, KnownFacts DEF IsWalk
<1>5. d \in 1..MaxIds /\ up[d] = None /\ \A m \in 0..(d - 1) : up[m] # None
  <2> HIDE DEF up
  <2>1. d # 0
    BY <1>3, <1>4
  <2>2. ASSUME NEW m \in 0..(d - 1), up[m] = None PROVE FALSE
    <3>1. m \in T
      BY <1>2, <1>3, <2>2
    <3> QED BY <1>2, <1>3, <3>1
  <2> QED BY <1>2, <1>3, <2>1, <2>2
<1> QED
  <2> HIDE DEF up, T
  <2>1. IsDepth(up, d)
    BY <1>5 DEF IsDepth
  <2> QED BY <1>5, <2>1 DEF up

LEMMA BranchType ==
    ASSUME NEW es \in Seq(SessionEntry), Rooted(Range(es), MaxIds), NEW i
    PROVE  Branch(es, i) \in Seq(Range(es))
<1>1. CASE i = None \/ i \notin Known(es)
  BY <1>1 DEF Branch
<1>2. CASE i \in Known(es)
  <2>1. PICK d \in 1..MaxIds : IsDepth(Up(es, i), d)
    BY <1>2, DepthExists
  <2>2. Branch(es, i) = [k \in 1..d |-> Lookup(es, Up(es, i)[d - k])]
    BY <1>2, <2>1, BranchIs
  <2> DEFINE up == Up(es, i)
  <2>3. IsWalk(es, i, up)
    BY UpIsWalk
  <2> HIDE DEF up
  <2>4. ASSUME NEW k \in 1..d PROVE Lookup(es, up[d - k]) \in Range(es)
    <3>1. d - k \in 0..(d - 1) /\ d - k \in 0..MaxIds
      BY <2>1, StoreAssumption
    <3>2. up[d - k] # None
      BY <2>1, <3>1 DEF IsDepth, up
    <3>3. up[d - k] \in Known(es)
      BY <1>2, <2>3, <3>1, <3>2, WalkDescends
    <3> QED BY <3>3, LookupFinds
  <2>5. d \in Nat
    BY StoreAssumption
  <2> QED BY <2>2, <2>4, <2>5 DEF up
<1> QED BY <1>1, <1>2

-----------------------------------------------------------------------------
(* The invariant.                                                            *)
StoreTypeOK ==
    /\ DOMAIN disk \subseteq 1..named /\ \A f \in DOMAIN disk : disk[f] \in FileContents
    /\ named \in Nat /\ issued \in 0..MaxIds
    /\ running \in BOOLEAN /\ flushed \in BOOLEAN
    /\ entries \in Seq(SessionEntry) /\ leaf \in Known(entries) \cup {None}
    /\ running => sessionFile \in 1..named

\* Whatever is in memory or in a file leads to a root.
AllRooted ==
    /\ Rooted(Range(entries), issued)
    /\ \A f \in DOMAIN disk : Rooted(Range(disk[f].lines), issued)

\* The file is never ahead of the memory; it is not behind once flushed, and flushed it is
\* as soon as there is an answer.
FileFollows ==
    running =>
      /\ sessionFile \in DOMAIN disk =>
            \/ Damaged(disk[sessionFile])
            \/ /\ Valid(disk[sessionFile])
               /\ Range(Load(disk[sessionFile])) \subseteq Range(entries)
      /\ flushed =>
            /\ sessionFile \in DOMAIN disk
            /\ \/ Damaged(disk[sessionFile])
               \/ Range(entries) \subseteq Range(Load(disk[sessionFile]))
      /\ HasAssistant(entries) => flushed

StoreInv == StoreTypeOK /\ AllRooted /\ FileFollows

-----------------------------------------------------------------------------
(* What is appended to a file.                                               *)
LEMMA MarksAreNoEntries ==
    Header \notin SessionEntry /\ Junk \notin SessionEntry /\ Header \in Lines /\ Junk \in Lines
  BY EntriesAreNoMarks DEF Lines

LEMMA RootedKept ==
    ASSUME NEW S, NEW R, NEW n \in Nat, NEW m \in Nat, n <= m, Rooted(S, n), Rooted(R, m),
           NEW T, T \subseteq S \cup R \cup {Header, Junk}
    PROVE  Rooted(T, m)
<1> SUFFICES ASSUME NEW e \in T, e \in SessionEntry
             PROVE  e.id <= m /\ (e.parent # None => e.parent < e.id)
  BY DEF Rooted
<1>1. e \in S \/ e \in R
  BY MarksAreNoEntries
<1>2. e.id \in Nat
  BY KnownFacts, StoreAssumption DEF SessionEntry, Ids
<1>3. CASE e \in S
  BY <1>2, <1>3 DEF Rooted
<1>4. CASE e \in R
  BY <1>4 DEF Rooted
<1> QED BY <1>1, <1>3, <1>4

LEMMA AddedDamaged ==
    ASSUME NEW old \in FileContents, NEW new \in Seq(Lines), new # <<>>, Damaged(old)
    PROVE  Damaged(Added(old, new))
<1>1. CASE old.cut
  BY <1>1, AddedFacts DEF Damaged
<1>2. CASE ~old.cut
  <2>1. Junk \in Range(old.lines) /\ Added(old, new).lines = old.lines \o new
    BY <1>2, AddedFacts DEF Damaged
  <2>2. Range(old.lines \o new) = Range(old.lines) \cup Range(new)
    BY ConcatRange DEF FileContents
  <2> QED BY <2>1, <2>2 DEF Damaged
<1> QED BY <1>1, <1>2

LEMMA AddedLoad ==
    ASSUME NEW old \in FileContents, NEW new \in Seq(Lines), new # <<>>,
           ~Damaged(old), Valid(old)
    PROVE  /\ Valid(Added(old, new))
           /\ Range(Load(Added(old, new))) = Range(Load(old)) \cup (Range(new) \ {Header, Junk})
<1> DEFINE a == Added(old, new)
<1>1. a \in FileContents /\ a.lines = old.lines \o new
  BY AddedFacts DEF Damaged
<1>2. Range(a.lines) = Range(old.lines) \cup Range(new)
  BY <1>1, ConcatRange DEF FileContents
<1> HIDE DEF a
<1>3. Valid(a)
  BY <1>1, ValidExtends
<1>4. Range(Load(a)) = Range(a.lines) \ {Header, Junk}
  BY <1>1, <1>3, LoadFacts
<1>5. Range(Load(old)) = Range(old.lines) \ {Header, Junk}
  BY LoadFacts
<1> QED BY <1>2, <1>3, <1>4, <1>5 DEF a

\* A file that is a header and entries yields those entries.
LEMMA FreshLoad ==
    ASSUME NEW es \in Seq(SessionEntry), NEW c \in FileContents, c.lines = <<Header>> \o es
    PROVE  Valid(c) /\ Range(Load(c)) = Range(es)
<1>1. es \in Seq(Lines) /\ <<Header>> \in Seq(Lines)
  BY MarksAreNoEntries DEF Lines
<1>2. Valid(c)
  BY <1>1, HeaderFirst
<1> DEFINE h == <<Header>>
<1>3. Range(h) = {Header}
  BY DEF Range
<1>4. h \in Seq(Lines) /\ c.lines = h \o es
  BY <1>1
<1> HIDE DEF h
<1>5. Range(c.lines) = Range(h) \cup Range(es)
  <2>1. Range(h \o es) = Range(h) \cup Range(es)
    BY <1>1, <1>4, ConcatRange
  <2> QED BY <1>4, <2>1
<1>6. Header \notin Range(es) /\ Junk \notin Range(es)
  BY KnownFacts, MarksAreNoEntries
<1>7. Range(Load(c)) = Range(c.lines) \ {Header, Junk}
  BY <1>2, LoadFacts
<1> QED BY <1>2, <1>3, <1>5, <1>6, <1>7

LEMMA NoLinesFacts ==
    /\ NoLines \in FileContents /\ NoLines.lines = <<>> /\ ~NoLines.cut /\ ~Damaged(NoLines)
    /\ \A new \in Seq(Lines) : Added(NoLines, new) = File(new, FALSE)
<1>1. NoLines = [lines |-> <<>>, cut |-> FALSE] /\ <<>> \in Seq(Lines) /\ Range(<<>>) = {}
  BY DEF NoLines, File, Range
<1>2. \A new \in Seq(Lines) : <<>> \o new = new
  OBVIOUS
<1> QED BY <1>1, <1>2 DEF FileContents, Damaged, Added, File

LEMMA PersistedFacts ==
    ASSUME StoreTypeOK, NEW e \in SessionEntry
    PROVE  /\ Persisted(e) \in Seq(Lines)
           /\ Range(Persisted(e)) \subseteq Range(entries) \cup {e, Header}
           /\ Append(entries, e) \in Seq(SessionEntry)
           /\ Range(Append(entries, e)) = Range(entries) \cup {e}
<1>1. /\ Append(entries, e) \in Seq(SessionEntry)
      /\ Range(Append(entries, e)) = Range(entries) \cup {e}
  BY AppendRange DEF StoreTypeOK
<1> DEFINE h == <<Header>>
           a == Append(entries, e)
<1>2. a \in Seq(Lines) /\ h \in Seq(Lines) /\ Range(h) = {Header}
  BY <1>1, MarksAreNoEntries DEF Range, Lines
<1>3. <<e>> \in Seq(Lines) /\ <<>> \in Seq(Lines) /\ Range(<<>>) = {} /\ Range(<<e>>) = {e}
  BY DEF Lines, Range
<1>4. Range(h \o a) = {Header} \cup Range(a) /\ h \o a \in Seq(Lines)
  <2> HIDE DEF h, a
  <2> QED BY <1>2, ConcatRange
<1>5. \/ Persisted(e) = <<>>
      \/ Persisted(e) = <<e>>
      \/ Persisted(e) = h \o a
  BY DEF Persisted
<1>6. Persisted(e) \in Seq(Lines)
  <2> HIDE DEF h, a
  <2> QED BY <1>3, <1>4, <1>5
<1>7. Range(Persisted(e)) \subseteq Range(entries) \cup {e, Header}
  <2> HIDE DEF h
  <2> QED BY <1>1, <1>3, <1>4, <1>5
<1> QED BY <1>1, <1>6, <1>7
\* An entry that is appended to the list, to the file, or to both.
LEMMA AppendKeeps ==
    ASSUME StoreInv, CanIssue, NEW e \in SessionEntry, e.id = issued + 1,
           e.parent \in Known(entries) \cup {None}, AppendEntry(e)
    PROVE  StoreInv'
<1> DEFINE new == Persisted(e)
           old == Content(sessionFile)
<1>1. /\ StoreTypeOK /\ running /\ running' = running /\ sessionFile' = sessionFile
      /\ named' = named /\ issued' = issued + 1 /\ entries' = Append(entries, e)
      /\ leaf' = issued + 1 /\ flushed' = HasAssistant(entries')
      /\ disk' = IF new = <<>> THEN disk ELSE PutFile(disk, sessionFile, Added(old, new))
  BY DEF StoreInv, CanIssue, AppendEntry, Persist
<1>2. /\ issued \in Nat /\ issued + 1 \in 0..MaxIds /\ sessionFile \in 1..named
      /\ \A k \in Known(entries) : k \in Nat /\ k <= issued
  <2>1. issued \in Nat /\ issued + 1 \in 0..MaxIds /\ sessionFile \in 1..named
    BY <1>1, StoreAssumption DEF StoreTypeOK, CanIssue
  <2>2. ASSUME NEW k \in Known(entries) PROVE k \in Nat /\ k <= issued
    <3>1. PICK x \in Range(entries) : x.id = k
      BY DEF Known
    <3>2. x \in SessionEntry
      BY <1>1, KnownFacts DEF StoreTypeOK
    <3> QED BY <1>1, <3>1, <3>2, KnownFacts, StoreAssumption DEF StoreInv, AllRooted, Rooted, StoreTypeOK
  <2> QED BY <2>1, <2>2
<1>3. /\ new \in Seq(Lines) /\ Range(new) \subseteq Range(entries) \cup {e, Header}
      /\ entries' \in Seq(SessionEntry) /\ Range(entries') = Range(entries) \cup {e}
  BY <1>1, PersistedFacts
<1>4. old \in FileContents /\ (sessionFile \notin DOMAIN disk => old = NoLines)
      /\ (sessionFile \in DOMAIN disk => old = disk[sessionFile])
  BY <1>1, NoLinesFacts DEF Content, StoreTypeOK
<1>5. new # <<>> => /\ DOMAIN disk' = DOMAIN disk \cup {sessionFile}
                    /\ disk'[sessionFile] = Added(old, new)
                    /\ \A f \in DOMAIN disk \ {sessionFile} : disk'[f] = disk[f]
  <2> HIDE DEF new, old
  <2> QED BY <1>1 DEF PutFile
<1> HIDE DEF new, old
<1>6. Rooted(Range(entries'), issued')
  <2>1. Rooted({e}, issued + 1)
    BY <1>2 DEF Rooted
  <2>2. Rooted(Range(entries), issued)
    BY DEF StoreInv, AllRooted
  <2> QED BY <1>1, <1>2, <1>3, <2>1, <2>2, RootedKept
<1>7. StoreTypeOK'
  <2>1. DOMAIN disk' \subseteq 1..named' /\ \A f \in DOMAIN disk' : disk'[f] \in FileContents
    <3>1. CASE new = <<>>
      BY <1>1, <3>1 DEF StoreTypeOK
    <3>2. CASE new # <<>>
      <4>1. Added(old, new) \in FileContents
        BY <1>3, <1>4, <3>2, AddedFacts
      <4> QED BY <1>1, <1>2, <1>5, <3>2, <4>1 DEF StoreTypeOK
    <3> QED BY <3>1, <3>2
  <2>2. leaf' \in Known(entries')
    BY <1>1, <1>3 DEF Known
  <2>3. flushed' \in BOOLEAN
    BY <1>1 DEF HasAssistant
  <2> QED BY <1>1, <1>2, <1>3, <2>1, <2>2, <2>3 DEF StoreTypeOK
<1>8. \A f \in DOMAIN disk' : Rooted(Range(disk'[f].lines), issued')
  <2> SUFFICES ASSUME NEW f \in DOMAIN disk' PROVE Rooted(Range(disk'[f].lines), issued')
    OBVIOUS
  <2>1. Rooted(Range(entries'), issued + 1) /\ issued + 1 \in Nat /\ issued <= issued + 1
    BY <1>1, <1>2, <1>6
  <2>2. \A g \in DOMAIN disk : Rooted(Range(disk[g].lines), issued)
    BY DEF StoreInv, AllRooted
  <2>3. CASE new # <<>> /\ f = sessionFile
    <3>1. Rooted(Range(old.lines), issued)
      <4>1. CASE sessionFile \in DOMAIN disk
        BY <1>4, <2>2, <4>1
      <4>2. CASE sessionFile \notin DOMAIN disk
        BY <1>4, <4>2, NoLinesFacts DEF Rooted, Range
      <4> QED BY <4>1, <4>2
    <3>2. Range(Added(old, new).lines) \subseteq Range(old.lines) \cup Range(entries') \cup {Header, Junk}
      BY <1>3, <1>4, <2>3, AddedFacts
    <3>3. Rooted(Range(Added(old, new).lines), issued + 1)
      BY <1>2, <2>1, <3>1, <3>2, RootedKept
    <3> QED BY <1>1, <1>5, <2>3, <3>3
  <2>4. CASE new = <<>> \/ f # sessionFile
    <3>1. f \in DOMAIN disk /\ disk'[f] = disk[f]
      BY <1>1, <1>5, <2>4
    <3>2. Rooted(Range(disk[f].lines), issued)
      BY <2>2, <3>1
    <3>3. Rooted(Range(disk[f].lines), issued + 1)
      BY <1>2, <2>1, <3>2, RootedKept
    <3> QED BY <1>1, <3>1, <3>3
  <2> QED BY <2>3, <2>4
<1>9. FileFollows'
  <2>1. /\ HasAssistant(entries) => flushed
        /\ flushed => /\ sessionFile \in DOMAIN disk
                      /\ Damaged(old) \/ Range(entries) \subseteq Range(Load(old))
        /\ sessionFile \in DOMAIN disk =>
              Damaged(old) \/ (Valid(old) /\ Range(Load(old)) \subseteq Range(entries))
    BY <1>1, <1>4 DEF StoreInv, FileFollows
  <2>2. CASE ~HasAssistant(entries')
    <3>1. new = <<>>
      BY <1>1, <2>2 DEF Persisted, new
    <3>2. disk' = disk /\ ~flushed'
      BY <1>1, <2>2, <3>1
    <3> QED BY <1>1, <1>3, <1>4, <2>1, <2>2, <3>2 DEF FileFollows
  <2>3. CASE HasAssistant(entries')
    <3>0. new = IF flushed THEN <<e>> ELSE <<Header>> \o entries'
      BY <1>1, <2>3 DEF Persisted, new
    <3>1. new # <<>> /\ (Range(new) \ {Header, Junk}) = IF flushed THEN {e} ELSE Range(entries')
      <4>1. CASE flushed
        <5>1. new = <<e>> /\ Range(<<e>>) = {e}
          BY <3>0, <4>1 DEF Range
        <5> QED BY <4>1, <5>1, EntriesAreNoMarks
      <4>2. CASE ~flushed
        <5> DEFINE h == <<Header>>
        <5>1. h \in Seq(Lines) /\ Range(h) = {Header} /\ entries' \in Seq(Lines) /\ h # <<>>
          BY <1>3, MarksAreNoEntries DEF Range, Lines
        <5>2. new = h \o entries'
          BY <3>0, <4>2
        <5> HIDE DEF h
        <5>3. Range(new) = Range(h) \cup Range(entries') /\ new # <<>>
          BY <5>1, <5>2, ConcatRange
        <5>4. Header \notin Range(entries') /\ Junk \notin Range(entries')
          BY <1>3, KnownFacts, MarksAreNoEntries
        <5> QED BY <4>2, <5>1, <5>3, <5>4
      <4> QED BY <4>1, <4>2
    <3> DEFINE a == Added(old, new)
    <3>2. Damaged(a) \/ (Valid(a) /\ Range(Load(a)) = Range(entries'))
      <4>1. CASE Damaged(old)
        BY <1>3, <1>4, <3>1, <4>1, AddedDamaged
      <4>2. CASE ~Damaged(old) /\ sessionFile \in DOMAIN disk
        <5>1. Valid(a) /\ Range(Load(a)) = Range(Load(old)) \cup (Range(new) \ {Header, Junk})
          BY <1>3, <1>4, <2>1, <3>1, <4>2, AddedLoad
        <5>2. CASE flushed
          <6>1. Range(Load(old)) = Range(entries)
            BY <2>1, <4>2, <5>2
          <6> QED BY <1>3, <3>1, <5>1, <5>2, <6>1
        <5>3. CASE ~flushed
          BY <1>3, <2>1, <3>1, <4>2, <5>1, <5>3
        <5> QED BY <5>2, <5>3
      <4>3. CASE sessionFile \notin DOMAIN disk
        <5>1. ~flushed /\ new = <<Header>> \o entries' /\ old = NoLines
          BY <1>4, <2>1, <3>0, <4>3
        <5>2. a \in FileContents /\ a.lines = old.lines \o new
          BY <1>3, <1>4, <3>1, <5>1, AddedFacts, NoLinesFacts
        <5>3. old.lines = <<>>
          BY <5>1, NoLinesFacts
        <5>4. <<>> \o new = new
          BY <1>3
        <5> HIDE DEF a
        <5>5. a.lines = new
          BY <5>2, <5>3, <5>4
        <5>6. a.lines = <<Header>> \o entries'
          BY <5>1, <5>5
        <5> QED BY <1>3, <5>2, <5>6, FreshLoad
      <4> QED BY <4>1, <4>2, <4>3
    <3>3. disk'[sessionFile] = a /\ sessionFile \in DOMAIN disk'
      BY <1>5, <3>1
    <3> HIDE DEF a
    <3> QED BY <1>1, <2>3, <3>2, <3>3 DEF FileFollows
  <2> QED BY <2>2, <2>3
<1> QED BY <1>6, <1>7, <1>8, <1>9 DEF StoreInv, AllRooted

-----------------------------------------------------------------------------
(* Opening, copying and being killed.                                        *)

\* Whatever the files are, as long as what is in them leads to a root, the state after one
\* of them is opened is as StoreInv wants it: a file with no header is written anew, and
\* memory is what the lines parse to.
LEMMA OpenKeeps ==
    ASSUME NEW d, NEW f, named' \in Nat, issued' \in 0..MaxIds, f \in 1..named',
           DOMAIN d \subseteq 1..named', OpenIn(d, f),
           \A g \in DOMAIN d : d[g] \in FileContents /\ Rooted(Range(d[g].lines), issued')
    PROVE  StoreInv'
<1>1. CASE f \notin DOMAIN d
  <2>1. /\ running' = TRUE /\ sessionFile' = f /\ entries' = <<>> /\ leaf' = None
        /\ flushed' = FALSE /\ disk' = d
    BY <1>1 DEF OpenIn, Blank
  <2>2. Range(entries') = {} /\ ~HasAssistant(entries') /\ entries' \in Seq(SessionEntry)
    BY <2>1 DEF Range, HasAssistant
  <2>3. StoreTypeOK'
    BY <2>1, <2>2 DEF StoreTypeOK
  <2>4. AllRooted'
    BY <2>1, <2>2 DEF AllRooted, Rooted
  <2>5. FileFollows'
    BY <1>1, <2>1, <2>2 DEF FileFollows
  <2> QED BY <2>3, <2>4, <2>5 DEF StoreInv
<1>2. CASE f \in DOMAIN d
  <2> DEFINE c == d[f]
             h == File(<<Header>>, FALSE)
  <2>1. /\ running' = TRUE /\ sessionFile' = f /\ entries' = Load(c)
        /\ leaf' = LastId(Load(c)) /\ flushed' = TRUE
        /\ disk' = IF Valid(c) THEN d ELSE PutFile(d, f, h)
    BY <1>2 DEF OpenIn
  <2>2. c \in FileContents /\ Rooted(Range(c.lines), issued')
    BY <1>2
  <2>3. Load(c) \in Seq(SessionEntry) /\ Range(Load(c)) \subseteq Range(c.lines)
    BY <2>2, LoadFacts
  <2>4. LastId(Load(c)) \in Known(Load(c)) \cup {None}
    <3>1. CASE Load(c) = <<>>
      BY <3>1 DEF LastId
    <3>2. CASE Load(c) # <<>>
      <4>1. Len(Load(c)) \in DOMAIN Load(c) /\ Last(Load(c)) = Load(c)[Len(Load(c))]
        BY <2>3, <3>2 DEF Last
      <4> QED BY <3>2, <4>1 DEF LastId, Known, Range
    <3> QED BY <3>1, <3>2
  <2>5. h \in FileContents /\ Valid(h) /\ Rooted(Range(h.lines), issued') /\ Range(Load(h)) = {}
    <3> DEFINE none == <<>>
    <3>1. none \in Seq(SessionEntry) /\ <<Header>> \o none = <<Header>> /\ Range(none) = {}
      BY DEF Range
    <3>2. h \in FileContents /\ h.lines = <<Header>>
      <4> DEFINE line == <<Header>>
      <4>1. line \in Seq(Lines)
        BY MarksAreNoEntries
      <4> HIDE DEF line
      <4>2. File(line, FALSE) \in FileContents /\ File(line, FALSE).lines = line
        BY <4>1 DEF File, FileContents
      <4> QED BY <4>2 DEF line
    <3> HIDE DEF h, none
    <3>3. Valid(h) /\ Range(Load(h)) = {}
      BY <3>1, <3>2, FreshLoad
    <3>4. Range(<<Header>>) = {Header}
      BY DEF Range
    <3>5. Rooted(Range(h.lines), issued')
      BY <3>2, <3>4, MarksAreNoEntries DEF Rooted
    <3> QED BY <3>2, <3>3, <3>5
  <2> HIDE DEF c, h
  <2>6. ~Valid(c) => /\ DOMAIN disk' = DOMAIN d /\ disk'[f] = h
                     /\ \A g \in DOMAIN d \ {f} : disk'[g] = d[g]
    BY <1>2, <2>1 DEF PutFile
  <2>7. StoreTypeOK'
    <3>1. DOMAIN disk' \subseteq 1..named' /\ \A g \in DOMAIN disk' : disk'[g] \in FileContents
      BY <2>1, <2>5, <2>6
    <3> QED BY <2>1, <2>3, <2>4, <3>1 DEF StoreTypeOK
  <2>8. Rooted(Range(entries'), issued')
    BY <2>1, <2>2, <2>3 DEF Rooted
  <2>9. \A g \in DOMAIN disk' : Rooted(Range(disk'[g].lines), issued')
    BY <2>1, <2>5, <2>6
  <2>10. FileFollows'
    <3>1. Valid(c) => disk'[f] = c /\ f \in DOMAIN disk'
      BY <1>2, <2>1 DEF c
    <3>2. ~Valid(c) => disk'[f] = h /\ f \in DOMAIN disk' /\ Range(entries') = {}
      BY <1>2, <2>1, <2>2, <2>6, LoadFacts
    <3>3. /\ f \in DOMAIN disk' /\ Valid(disk'[f])
          /\ Range(Load(disk'[f])) = Range(entries')
      BY <2>1, <2>5, <3>1, <3>2
    <3> QED BY <2>1, <3>3 DEF FileFollows
  <2> QED BY <2>7, <2>8, <2>9, <2>10 DEF StoreInv, AllRooted
<1> QED BY <1>1, <1>2

\* A kill leaves whatever the interrupted write had got to, and nothing in memory.
LEMMA DownKeeps ==
    ASSUME StoreInv, Down, NEW f, NEW content, f \in 1..named', content \in FileContents,
           named' \in Nat, named <= named', issued' \in 0..MaxIds, issued <= issued',
           Rooted(Range(content.lines), issued'), disk' = PutFile(disk, f, content)
    PROVE  StoreInv'
<1>1. /\ running' = FALSE /\ entries' = <<>> /\ leaf' = None /\ flushed' = FALSE
  BY DEF Down
<1>2. /\ DOMAIN disk' = DOMAIN disk \cup {f} /\ disk'[f] = content
      /\ \A g \in DOMAIN disk \ {f} : disk'[g] = disk[g]
  BY DEF PutFile
<1>3. /\ DOMAIN disk \subseteq 1..named /\ named \in Nat /\ issued \in Nat /\ issued' \in Nat
      /\ \A g \in DOMAIN disk : disk[g] \in FileContents /\ Rooted(Range(disk[g].lines), issued)
  BY StoreAssumption DEF StoreInv, StoreTypeOK, AllRooted
<1>4. \A g \in DOMAIN disk : Rooted(Range(disk[g].lines), issued')
  <2> SUFFICES ASSUME NEW g \in DOMAIN disk PROVE Rooted(Range(disk[g].lines), issued')
    OBVIOUS
  <2>1. Rooted(Range(disk[g].lines), issued) /\ Rooted({}, issued')
    BY <1>3 DEF Rooted
  <2> QED BY <1>3, <2>1, RootedKept
<1>5. Range(entries') = {} /\ entries' \in Seq(SessionEntry)
  BY <1>1 DEF Range
<1>6. StoreTypeOK'
  <2>1. DOMAIN disk' \subseteq 1..named' /\ \A g \in DOMAIN disk' : disk'[g] \in FileContents
    BY <1>2, <1>3
  <2> QED BY <1>1, <1>5, <2>1 DEF StoreTypeOK
<1>7. AllRooted'
  BY <1>2, <1>4, <1>5 DEF AllRooted, Rooted
<1> QED BY <1>1, <1>6, <1>7 DEF StoreInv, FileFollows

\* The entries the operations append: the next id, under something that is in the list.
LEMMA EntriesMade ==
    ASSUME StoreInv, CanIssue, NEW e \in MessageEntry \cup LabelEntry \cup SummaryEntry
    PROVE  e \in SessionEntry /\ e.id = issued + 1 /\ e.parent \in Known(entries) \cup {None}
<1>1. /\ issued + 1 \in Ids /\ leaf \in Known(entries) \cup {None}
      /\ Known(entries) \subseteq Ids
  BY KnownFacts, StoreAssumption DEF StoreInv, StoreTypeOK, CanIssue, Ids
<1>5. ASSUME NEW k \in {"user", "assistant", "other", "label"}, NEW b \in BOOLEAN,
             NEW p \in Known(entries) \cup {None}, NEW t \in Ids \cup {None},
             e = New(k, p, t, b)
      PROVE  e \in SessionEntry /\ e.id = issued + 1 /\ e.parent \in Known(entries) \cup {None}
  <2>1. p \in Ids \cup {None}
    BY <1>1
  <2>2. e = [id |-> issued + 1, parent |-> p, kind |-> k, target |-> t, set |-> b]
    BY <1>5 DEF New
  <2> QED BY <1>1, <2>1, <2>2 DEF SessionEntry
<1>2. CASE e \in MessageEntry
  <2>1. PICK k \in AppendedKinds : e = New(k, leaf, None, FALSE)
    BY <1>2 DEF MessageEntry
  <2> QED BY <1>1, <1>5, <2>1, StoreAssumption
<1>3. CASE e \in LabelEntry
  <2>1. \E t \in Known(entries) \cup Labelled(entries), b \in BOOLEAN :
           e = New("label", leaf, t, b)
    BY <1>3 DEF LabelEntry
  <2>2. Labelled(entries) \subseteq Ids
    BY DEF Labelled
  <2> QED BY <1>1, <1>5, <2>1, <2>2
<1>4. CASE e \in SummaryEntry
  <2>1. PICK p \in Known(entries) \cup {None} : e = New("other", p, None, FALSE)
    BY <1>4 DEF SummaryEntry
  <2> QED BY <1>1, <1>5, <2>1
<1> QED BY <1>2, <1>3, <1>4

\* What fork writes: the branch without its labels, and a new entry for each label set on it.
LEMMA CopyFacts ==
    ASSUME StoreInv, NEW es \in Seq(SessionEntry), Rooted(Range(es), issued), NEW i,
           issued + Cardinality(Labelled(es)) <= MaxIds
    PROVE  LET copy == Branched(es, i)
               n == Cardinality({e \in Range(copy) : e.kind = "label"})
               path == Unlabelled(Branch(es, i))
           IN /\ copy \in Seq(SessionEntry)
              /\ n \in Nat /\ issued + n \in 0..MaxIds
              /\ Rooted(Range(copy), issued + n)
              /\ path \in Seq(SessionEntry) /\ Range(path) \subseteq Range(es)
              /\ \E labels \in Seq(SessionEntry) :
                    copy = path \o labels /\ \A e \in Range(labels) : e.kind = "label"
<1> DEFINE path == Unlabelled(Branch(es, i))
           targets == Labelled(es) \cap Known(path)
           N == Cardinality(targets)
           order == SetToSeq(targets)
           last == LastId(path)
           labels == Relabel(path, targets)
           copy == Branched(es, i)
<1>1. issued \in Nat /\ MaxIds \in Nat /\ Rooted(Range(es), MaxIds)
  <2>1. issued \in Nat /\ MaxIds \in Nat /\ issued <= MaxIds
    BY StoreAssumption DEF StoreInv, StoreTypeOK
  <2>2. Rooted({}, MaxIds)
    BY DEF Rooted
  <2> QED BY <2>1, <2>2, RootedKept
<1>2. /\ path \in Seq(SessionEntry) /\ Range(path) \subseteq Range(es)
      /\ \A e \in Range(path) : e.kind # "label"
  <2> DEFINE b == Branch(es, i)
             drop == {e \in Range(b) : e.kind = "label"}
  <2>1. b \in Seq(Range(es)) /\ Range(es) \subseteq SessionEntry
    BY <1>1, BranchType, KnownFacts
  <2>2. path = Without(b, drop)
    BY DEF Unlabelled
  <2> HIDE DEF b, path
  <2>3. Range(b) \subseteq Range(es) /\ b \in Seq(SessionEntry)
    BY <2>1 DEF Range
  <2>4. path \in Seq(SessionEntry) /\ Range(path) = Range(b) \ drop
    <3> HIDE DEF drop
    <3>1. Without(b, drop) \in Seq(SessionEntry \ drop)
      BY <2>3, WithoutType
    <3>2. Range(Without(b, drop)) = Range(b) \ drop
      BY <2>3, WithoutRange
    <3> QED BY <2>2, <3>1, <3>2
  <2> QED BY <2>3, <2>4
<1>3. copy = path \o labels
  BY DEF Branched
<1>4. /\ IsFiniteSet(targets) /\ N \in Nat /\ issued + N <= MaxIds /\ targets \subseteq Ids
  <2>1. IsFiniteSet(Ids) /\ Labelled(es) \subseteq Ids
    <3>1. IsFiniteSet(1..MaxIds)
      BY <1>1, FS_Interval
    <3> QED BY <3>1 DEF Ids, Labelled
  <2>2. IsFiniteSet(Labelled(es)) /\ Cardinality(Labelled(es)) \in Nat
    BY <2>1, FS_Subset, FS_CardinalityType
  <2>3. /\ IsFiniteSet(targets) /\ N \in Nat /\ N <= Cardinality(Labelled(es))
        /\ targets \subseteq Ids
    BY <2>1, <2>2, FS_Subset, FS_CardinalityType
  <2> QED BY <1>1, <2>2, <2>3
<1> HIDE DEF path, targets
<1>5. order \in [1..N -> targets]
  <2>1. \E f : f \in Bijection(1..N, targets)
    BY <1>4, FS_CardinalityType DEF ExistsBijection
  <2>2. \E f \in [1..N -> targets] : IsInjective(f)
    BY <2>1 DEF Bijection, Injection
  <2> QED BY <2>2 DEF SetToSeq
<1>6. Len(order) = N
  BY <1>4, <1>5
<1>7. labels = [k \in 1..N |->
                  [id |-> issued + k, parent |-> IF k = 1 THEN last ELSE issued + k - 1,
                   kind |-> "label", target |-> order[k], set |-> TRUE]]
  BY <1>6 DEF Relabel
<1>8. last \in Known(path) \cup {None} /\ Known(path) \subseteq Ids
      /\ \A k \in Known(path) : k \in Nat /\ k <= issued
  <2>1. Known(path) \subseteq Ids /\ Range(path) \subseteq SessionEntry
    BY <1>2, KnownFacts
  <2>2. CASE path = <<>>
    BY <2>1, <2>2 DEF LastId, Known, Range
  <2>3. CASE path # <<>>
    <3>1. Len(path) \in DOMAIN path /\ Last(path) = path[Len(path)]
      BY <1>2, <2>3 DEF Last
    <3>2. last \in Known(path)
      BY <2>3, <3>1 DEF LastId, Known, Range
    <3> QED BY <1>1, <1>2, <2>1, <3>2 DEF Known, Rooted, Ids
  <2> QED BY <2>2, <2>3
<1> HIDE DEF order, last, labels
<1>9. ASSUME NEW k \in 1..N
      PROVE  /\ labels[k] \in SessionEntry /\ labels[k].id = issued + k
             /\ labels[k].kind = "label"
             /\ labels[k].parent # None => labels[k].parent < issued + k
  <2> DEFINE p == IF k = 1 THEN last ELSE issued + k - 1
  <2>1. labels[k] = [id |-> issued + k, parent |-> p, kind |-> "label",
                     target |-> order[k], set |-> TRUE]
    BY <1>7
  <2>2. issued + k \in Ids /\ order[k] \in Ids
    <3>1. order[k] \in targets
      BY <1>5
    <3>2. issued + k \in 1..MaxIds
      BY <1>1, <1>4
    <3> QED BY <1>4, <3>1, <3>2 DEF Ids
  <2>3. p \in Ids \cup {None} /\ (p # None => p < issued + k)
    <3>1. CASE k = 1
      BY <1>1, <1>8, <3>1
    <3>2. CASE k # 1
      BY <1>1, <1>4, <3>2 DEF Ids
    <3> QED BY <3>1, <3>2
  <2> HIDE DEF p
  <2> QED BY <2>1, <2>2, <2>3 DEF SessionEntry
<1>10. /\ labels \in Seq(SessionEntry) /\ Len(labels) = N
       /\ Range(labels) = {labels[k] : k \in 1..N}
  <2>1. DOMAIN labels = 1..N /\ labels = [k \in 1..N |-> labels[k]]
    BY <1>7
  <2>2. labels \in [1..N -> SessionEntry]
    BY <1>9, <2>1
  <2> QED BY <1>4, <2>1, <2>2 DEF Range
<1>11. copy \in Seq(SessionEntry) /\ Range(copy) = Range(path) \cup Range(labels)
  BY <1>2, <1>3, <1>10, ConcatRange
<1>12. {e \in Range(copy) : e.kind = "label"} = Range(labels)
  BY <1>2, <1>9, <1>10, <1>11
<1>13. Cardinality(Range(labels)) = N
  <2>1. labels \in [1..N -> Range(labels)]
    BY <1>7, <1>10
  <2>2. \A a, b \in 1..N : labels[a] = labels[b] => a = b
    <3> SUFFICES ASSUME NEW a \in 1..N, NEW b \in 1..N, labels[a] = labels[b] PROVE a = b
      OBVIOUS
    <3>1. issued + a = issued + b
      BY <1>9
    <3> QED BY <1>1, <3>1
  <2>3. labels \in Bijection(1..N, Range(labels))
    BY <1>10, <2>1, <2>2 DEF Bijection, Injection, Surjection, IsInjective
  <2>4. IsFiniteSet(1..N) /\ Cardinality(1..N) = N
    BY <1>4, FS_Interval
  <2> QED BY <2>3, <2>4, FS_Bijection DEF ExistsBijection
<1>14. Rooted(Range(copy), issued + N)
  <2>1. Rooted(Range(labels), issued + N)
    BY <1>1, <1>4, <1>9, <1>10 DEF Rooted
  <2> QED BY <1>1, <1>2, <1>4, <1>11, <2>1, RootedKept
<1>15. /\ Cardinality({e \in Range(copy) : e.kind = "label"}) = N
       /\ \A e \in Range(labels) : e.kind = "label"
  BY <1>9, <1>10, <1>12, <1>13
<1> HIDE DEF copy
<1>16. N \in Nat /\ issued + N \in 0..MaxIds
  BY <1>1, <1>4
<1>17. \E rest \in Seq(SessionEntry) :
          copy = path \o rest /\ \A e \in Range(rest) : e.kind = "label"
  BY <1>3, <1>10, <1>15
<1> HIDE DEF N
<1> QED BY <1>2, <1>11, <1>14, <1>15, <1>16, <1>17 DEF copy, path

\* A copy as it is written: a header and the entries, or nothing.
LEMMA WritesFacts ==
    ASSUME NEW copy \in Seq(SessionEntry), NEW n \in Nat, Rooted(Range(copy), n)
    PROVE  /\ ForkWrites(copy) \in Seq(Lines)
           /\ ForkWrites(copy) # <<>> => ForkWrites(copy) = <<Header>> \o copy
           /\ Rooted(Range(ForkWrites(copy)), n)
           /\ File(ForkWrites(copy), FALSE) \in FileContents
           /\ File(ForkWrites(copy), FALSE).lines = ForkWrites(copy)
<1> DEFINE h == <<Header>>
           w == ForkWrites(copy)
<1>1. h \in Seq(Lines) /\ Range(h) = {Header} /\ copy \in Seq(Lines)
  BY MarksAreNoEntries DEF Range, Lines
<1>2. w = IF HasAssistant(copy) THEN h \o copy ELSE <<>>
  BY DEF ForkWrites
<1> HIDE DEF h
<1>3. w \in Seq(Lines) /\ Range(w) \subseteq Range(copy) \cup {Header}
  <2>1. CASE HasAssistant(copy)
    BY <1>1, <1>2, <2>1, ConcatRange
  <2>2. CASE ~HasAssistant(copy)
    BY <1>2, <2>2 DEF Range
  <2> QED BY <2>1, <2>2
<1>4. w # <<>> => w = h \o copy
  BY <1>2
<1> HIDE DEF w
<1>5. Rooted(Range(w), n)
  BY <1>3, RootedKept
<1>6. File(w, FALSE) \in FileContents /\ File(w, FALSE).lines = w
  BY <1>3 DEF File, FileContents
<1> QED BY <1>3, <1>4, <1>5, <1>6 DEF w, h

\* What is read back from a file leads to a root.
LEMMA SourceFacts ==
    ASSUME StoreInv, NEW f \in DOMAIN disk
    PROVE  Load(disk[f]) \in Seq(SessionEntry) /\ Rooted(Range(Load(disk[f])), issued)
<1>1. disk[f] \in FileContents /\ Rooted(Range(disk[f].lines), issued)
  BY DEF StoreInv, StoreTypeOK, AllRooted
<1>2. Load(disk[f]) \in Seq(SessionEntry) /\ Range(Load(disk[f])) \subseteq Range(disk[f].lines)
  BY <1>1, LoadFacts
<1> QED BY <1>1, <1>2 DEF Rooted

\* A set of rooted entries stays one when more ids are issued.
LEMMA RootedLater ==
    ASSUME NEW S, NEW n \in Nat, NEW m \in Nat, n <= m, Rooted(S, n)
    PROVE  Rooted(S, m)
<1>1. Rooted({}, m)
  BY DEF Rooted
<1> QED BY <1>1, RootedKept

LEMMA ForkKeeps ==
    ASSUME StoreInv, NEW i, Fork(i)
    PROVE  StoreInv'
<1> DEFINE source == Load(disk[sessionFile])
<1>1. PICK copy : copy = Branched(source, i)
  OBVIOUS
<1>2. PICK n : n = Cardinality({e \in Range(copy) : e.kind = "label"})
  OBVIOUS
<1>3. PICK d : d = IF ForkWrites(copy) = <<>> THEN disk
                   ELSE PutFile(disk, named + 1, File(ForkWrites(copy), FALSE))
  OBVIOUS
<1>4. /\ OpenIn(d, named + 1) /\ named' = named + 1 /\ issued' = issued + n
      /\ sessionFile \in DOMAIN disk /\ issued + Cardinality(Labelled(source)) <= MaxIds
  BY <1>1, <1>2, <1>3 DEF Fork, CanFork
<1>5. source \in Seq(SessionEntry) /\ Rooted(Range(source), issued)
  BY <1>4, SourceFacts
<1> HIDE DEF source
<1>6. copy \in Seq(SessionEntry) /\ n \in Nat /\ issued + n \in 0..MaxIds
      /\ Rooted(Range(copy), issued + n)
  BY <1>1, <1>2, <1>4, <1>5, CopyFacts
<1>7. /\ DOMAIN disk \subseteq 1..named /\ named \in Nat /\ issued \in Nat
      /\ issued + n \in Nat /\ issued <= issued + n
      /\ \A g \in DOMAIN disk : disk[g] \in FileContents /\ Rooted(Range(disk[g].lines), issued)
  BY <1>6, StoreAssumption DEF StoreInv, StoreTypeOK, AllRooted
<1>8. \A g \in DOMAIN disk : Rooted(Range(disk[g].lines), issued + n)
  BY <1>7, RootedLater
<1>9. PICK w : w = File(ForkWrites(copy), FALSE)
  OBVIOUS
<1>10. w \in FileContents /\ Rooted(Range(w.lines), issued + n)
  BY <1>6, <1>7, <1>9, WritesFacts
<1>11. /\ DOMAIN d \subseteq 1..(named + 1)
       /\ \A g \in DOMAIN d : d[g] \in FileContents /\ Rooted(Range(d[g].lines), issued + n)
  <2>1. CASE d = disk
    BY <1>7, <1>8, <2>1
  <2>2. CASE d = PutFile(disk, named + 1, w)
    BY <1>7, <1>8, <1>10, <2>2 DEF PutFile
  <2> QED BY <1>3, <1>9, <2>1, <2>2
<1>12. named' \in Nat /\ issued' \in 0..MaxIds /\ named + 1 \in 1..named'
       /\ DOMAIN d \subseteq 1..named'
  BY <1>4, <1>6, <1>7, <1>11
<1>13. \A g \in DOMAIN d : d[g] \in FileContents /\ Rooted(Range(d[g].lines), issued')
  BY <1>4, <1>11
<1> QED BY <1>4, <1>12, <1>13, OpenKeeps

LEMMA CrashForkingKeeps ==
    ASSUME StoreInv, CrashForking
    PROVE  StoreInv'
<1> DEFINE source == Load(disk[sessionFile])
<1>1. PICK i \in ForkTargets :
         /\ CanFork(i)
         /\ ForkWrites(Branched(source, i)) # <<>>
         /\ \E c \in Torn(NoLines, ForkWrites(Branched(source, i))) :
               disk' = PutFile(disk, named + 1, c)
         /\ issued' = issued +
               Cardinality({e \in Range(Branched(source, i)) : e.kind = "label"})
  BY DEF CrashForking
<1>2. PICK copy : copy = Branched(source, i)
  OBVIOUS
<1>3. PICK n : n = Cardinality({e \in Range(copy) : e.kind = "label"})
  OBVIOUS
<1>4. PICK c \in Torn(NoLines, ForkWrites(copy)) : disk' = PutFile(disk, named + 1, c)
  BY <1>1, <1>2
<1>5. /\ issued' = issued + n /\ named' = named + 1 /\ Down
      /\ sessionFile \in DOMAIN disk /\ issued + Cardinality(Labelled(source)) <= MaxIds
  BY <1>1, <1>2, <1>3 DEF CrashForking, CanFork
<1>6. source \in Seq(SessionEntry) /\ Rooted(Range(source), issued)
  BY <1>5, SourceFacts
<1> HIDE DEF source
<1>7. copy \in Seq(SessionEntry) /\ n \in Nat /\ issued + n \in 0..MaxIds
      /\ Rooted(Range(copy), issued + n)
  BY <1>2, <1>3, <1>5, <1>6, CopyFacts
<1>8. named \in Nat /\ issued \in Nat /\ issued + n \in Nat
  BY <1>7, StoreAssumption DEF StoreInv, StoreTypeOK
<1>9. PICK w : w = ForkWrites(copy)
  OBVIOUS
<1>10. w \in Seq(Lines) /\ Rooted(Range(w), issued + n)
  BY <1>7, <1>8, <1>9, WritesFacts
<1>11. c \in FileContents /\ Range(c.lines) \subseteq Range(NoLines.lines) \cup Range(w) \cup {Junk}
  BY <1>4, <1>9, <1>10, NoLinesFacts, TornFacts
<1>12. Range(NoLines.lines) = {}
  BY NoLinesFacts DEF Range
<1>13. Rooted(Range(c.lines), issued + n)
  <2>1. Range(c.lines) \subseteq Range(w) \cup Range(w) \cup {Header, Junk}
    BY <1>11, <1>12
  <2> QED BY <1>8, <1>10, <2>1, RootedKept
<1>14. /\ named + 1 \in 1..named' /\ named' \in Nat /\ named <= named' /\ issued' \in 0..MaxIds
       /\ issued <= issued' /\ Rooted(Range(c.lines), issued')
  BY <1>5, <1>7, <1>8, <1>13
<1> QED BY <1>4, <1>5, <1>11, <1>14, DownKeeps

LEMMA CrashAppendingKeeps ==
    ASSUME StoreInv, CrashAppending
    PROVE  StoreInv'
<1>1. PICK e \in MessageEntry \cup LabelEntry \cup SummaryEntry :
         /\ \E c \in Torn(Content(sessionFile), Persisted(e)) :
               disk' = PutFile(disk, sessionFile, c)
         /\ issued' = e.id
  BY DEF CrashAppending
<1>2. CanIssue /\ Down /\ named' = named
  BY DEF CrashAppending
<1>3. e \in SessionEntry /\ e.id = issued + 1 /\ e.parent \in Known(entries) \cup {None}
  BY <1>1, <1>2, EntriesMade
<1>4. PICK w : w = Persisted(e)
  OBVIOUS
<1>5. PICK old : old = Content(sessionFile)
  OBVIOUS
<1>6. PICK c \in Torn(old, w) : disk' = PutFile(disk, sessionFile, c)
  BY <1>1, <1>4, <1>5
<1>7. w \in Seq(Lines) /\ Range(w) \subseteq Range(entries) \cup {e, Header}
  BY <1>3, <1>4, PersistedFacts DEF StoreInv
<1>8. /\ named \in Nat /\ issued \in Nat /\ issued + 1 \in 0..MaxIds /\ sessionFile \in 1..named
      /\ entries \in Seq(SessionEntry) /\ Rooted(Range(entries), issued)
      /\ \A g \in DOMAIN disk : disk[g] \in FileContents /\ Rooted(Range(disk[g].lines), issued)
  BY <1>2, StoreAssumption DEF StoreInv, StoreTypeOK, AllRooted, CanIssue
<1>9. old \in FileContents /\ Rooted(Range(old.lines), issued)
  <2>1. CASE sessionFile \in DOMAIN disk
    BY <1>5, <1>8, <2>1 DEF Content
  <2>2. CASE sessionFile \notin DOMAIN disk
    BY <1>5, <2>2, NoLinesFacts DEF Content, Rooted, Range
  <2> QED BY <2>1, <2>2
<1>10. Rooted({e}, issued + 1)
  <2>1. e.parent # None => e.parent \in Nat /\ e.parent <= issued
    <3>1. SUFFICES ASSUME e.parent # None PROVE e.parent \in Nat /\ e.parent <= issued
      OBVIOUS
    <3>2. PICK x \in Range(entries) : x.id = e.parent
      BY <1>3, <3>1 DEF Known
    <3>3. x \in SessionEntry /\ e.parent \in Nat
      BY <1>3, <1>8, <3>1, KnownFacts
    <3> QED BY <1>8, <3>2, <3>3 DEF Rooted
  <2> QED BY <1>3, <1>8, <2>1 DEF Rooted
<1>11. Rooted(Range(entries) \cup {e}, issued + 1)
  BY <1>8, <1>10, RootedKept
<1>12. c \in FileContents /\ Range(c.lines) \subseteq Range(old.lines) \cup Range(w) \cup {Junk}
  BY <1>6, <1>7, <1>9, TornFacts
<1>13. Rooted(Range(c.lines), issued + 1)
  <2>1. Range(c.lines) \subseteq Range(old.lines) \cup (Range(entries) \cup {e}) \cup {Header, Junk}
    BY <1>7, <1>12
  <2>2. issued + 1 \in Nat /\ issued <= issued + 1
    BY <1>8
  <2> QED BY <1>8, <1>9, <1>11, <2>1, <2>2, RootedKept
<1>14. /\ sessionFile \in 1..named' /\ named' \in Nat /\ named <= named'
       /\ issued' \in 0..MaxIds /\ issued <= issued' /\ Rooted(Range(c.lines), issued')
  BY <1>1, <1>2, <1>3, <1>8, <1>13
<1> QED BY <1>2, <1>6, <1>12, <1>14, DownKeeps

-----------------------------------------------------------------------------
(* The store.                                                                *)

\* Whatever is appended, branched, forked, opened and killed, and in whichever order:
\* parents are known or older than the entries that name them, and file and memory are
\* as FileFollows has them.
THEOREM StoreInvariance == StoreSpec => []StoreInv
<1>1. StoreInit => StoreInv
  <2> SUFFICES ASSUME StoreInit PROVE StoreInv
    OBVIOUS
  <2>1. /\ DOMAIN disk = {} /\ entries = <<>> /\ Range(entries) = {} /\ sessionFile = 1
        /\ named = 1 /\ issued = 0 /\ leaf = None /\ running = TRUE /\ flushed = FALSE
    BY DEF StoreInit, Range
  <2>2. StoreTypeOK
    <3>1. entries \in Seq(SessionEntry) /\ leaf \in Known(entries) \cup {None}
      BY <2>1
    <3>2. issued \in 0..MaxIds /\ named \in Nat /\ sessionFile \in 1..named
      BY <2>1, StoreAssumption
    <3> QED BY <2>1, <3>1, <3>2 DEF StoreTypeOK
  <2> QED BY <2>1, <2>2 DEF StoreInv, AllRooted, Rooted, FileFollows, HasAssistant
<1>2. StoreInv /\ [StoreNext]_storeVars => StoreInv'
  <2> SUFFICES ASSUME StoreInv, [StoreNext]_storeVars PROVE StoreInv'
    OBVIOUS
  <2>0. /\ StoreTypeOK /\ named \in Nat /\ issued \in Nat /\ issued \in 0..MaxIds
        /\ DOMAIN disk \subseteq 1..named
        /\ \A g \in DOMAIN disk : disk[g] \in FileContents /\ Rooted(Range(disk[g].lines), issued)
    BY StoreAssumption DEF StoreInv, StoreTypeOK, AllRooted
  <2>1. CASE AddMessage \/ AddLabel \/ BranchWithSummary
    <3>1. PICK e \in MessageEntry \cup LabelEntry \cup SummaryEntry : AppendEntry(e)
      BY <2>1 DEF AddMessage, AddLabel, BranchWithSummary
    <3>2. CanIssue
      BY <2>1 DEF AddMessage, AddLabel, BranchWithSummary
    <3>3. e \in SessionEntry /\ e.id = issued + 1 /\ e.parent \in Known(entries) \cup {None}
      BY <3>2, EntriesMade
    <3> QED BY <3>1, <3>2, <3>3, AppendKeeps
  <2>2. CASE (\E i \in Ids : MoveLeaf(i)) \/ ResetLeaf
    <3>1. leaf' \in Known(entries) \cup {None}
      BY <2>2 DEF MoveLeaf, ResetLeaf
    <3>2. UNCHANGED <<disk, named, issued, running, sessionFile, entries, flushed>>
      BY <2>2 DEF MoveLeaf, ResetLeaf
    <3>3. Known(entries)' = Known(entries)
      BY <3>2 DEF Known
    <3> QED BY <2>0, <3>1, <3>2, <3>3
            DEF StoreInv, StoreTypeOK, AllRooted, FileFollows
  <2>3. CASE \E i \in Ids : Fork(i)
    BY <2>3, ForkKeeps
  <2>4. CASE NewSession \/ StartAgain
    <3>1. PICK f \in Files : Start(f)
      BY <2>4 DEF NewSession, StartAgain
    <3>2. /\ f = named + 1 /\ named' = f /\ issued' = issued /\ disk' = disk
      BY <2>4, <3>1 DEF NewSession, StartAgain, Start
    <3>3. OpenIn(disk, f)
      <4>1. f \notin DOMAIN disk /\ Blank(f)
        BY <2>0, <3>1, <3>2 DEF Start
      <4> QED BY <3>2, <4>1 DEF OpenIn
    <3>4. /\ named' \in Nat /\ f \in 1..named' /\ DOMAIN disk \subseteq 1..named'
          /\ issued' \in 0..MaxIds
      BY <2>0, <3>2
    <3>5. \A g \in DOMAIN disk : disk[g] \in FileContents /\ Rooted(Range(disk[g].lines), issued')
      BY <2>0, <3>2
    <3> QED BY <3>3, <3>4, <3>5, OpenKeeps
  <2>5. CASE \E f \in Files : Open(f)
    <3>1. PICK f \in Files : Open(f)
      BY <2>5
    <3>2. f \in 1..named /\ OpenIn(disk, f) /\ named' = named /\ issued' = issued
      BY <3>1 DEF Open
    <3>3. /\ named' \in Nat /\ f \in 1..named' /\ DOMAIN disk \subseteq 1..named'
          /\ issued' \in 0..MaxIds
      BY <2>0, <3>2
    <3>4. \A g \in DOMAIN disk : disk[g] \in FileContents /\ Rooted(Range(disk[g].lines), issued')
      BY <2>0, <3>2
    <3> QED BY <3>2, <3>3, <3>4, OpenKeeps
  <2>6. CASE CrashIdle
    <3>1. /\ running' = FALSE /\ entries' = <<>> /\ leaf' = None /\ flushed' = FALSE
          /\ disk' = disk /\ named' = named /\ issued' = issued
      BY <2>6 DEF CrashIdle, Down
    <3>2. Range(entries') = {} /\ entries' \in Seq(SessionEntry)
      BY <3>1 DEF Range
    <3> QED BY <2>0, <3>1, <3>2 DEF StoreInv, StoreTypeOK, AllRooted, FileFollows, Rooted
  <2>7. CASE CrashAppending
    BY <2>7, CrashAppendingKeeps
  <2>8. CASE CrashForking
    BY <2>8, CrashForkingKeeps
  <2>9. CASE UNCHANGED storeVars
    <3>1. UNCHANGED <<disk, named, issued, running, sessionFile, entries, leaf, flushed>>
      BY <2>9 DEF storeVars
    <3>2. Known(entries)' = Known(entries)
      BY <3>1 DEF Known
    <3> QED BY <2>0, <3>1, <3>2 DEF StoreInv, StoreTypeOK, AllRooted, FileFollows
  <2> QED BY <2>1, <2>2, <2>3, <2>4, <2>5, <2>6, <2>7, <2>8, <2>9 DEF StoreNext
<1> QED BY <1>1, <1>2, PTL DEF StoreSpec

\* Every walk towards the root ends.
THEOREM WalksAlwaysEnd == StoreSpec => []WalksEnd
<1>1. StoreInv => WalksEnd
  <2> SUFFICES ASSUME StoreInv, NEW e \in Range(entries) PROVE Ends(entries, e.id)
    BY DEF WalksEnd
  <2>1. entries \in Seq(SessionEntry) /\ e.id \in Known(entries)
    BY DEF StoreInv, StoreTypeOK, Known
  <2>2. issued \in Nat /\ MaxIds \in Nat /\ issued <= MaxIds /\ Rooted(Range(entries), issued)
    BY StoreAssumption DEF StoreInv, StoreTypeOK, AllRooted
  <2>3. Rooted(Range(entries), MaxIds)
    BY <2>2, RootedLater
  <2>4. IsWalk(entries, e.id, Up(entries, e.id))
    BY <2>1, UpIsWalk
  <2>5. Up(entries, e.id)[MaxIds] = None
    BY <2>1, <2>3, <2>4, WalkDescends
  <2>6. MaxIds \in 0..MaxIds
    BY <2>2
  <2> QED BY <2>5, <2>6 DEF Ends
<1> QED BY <1>1, StoreInvariance, PTL

\* Once an answer is in memory the file says what memory does.
THEOREM AnsweredIsSaved == StoreSpec => []SavedOnceAnswered
<1>1. StoreInv => SavedOnceAnswered
  BY DEF StoreInv, FileFollows, SavedOnceAnswered
<1> QED BY <1>1, StoreInvariance, PTL

-----------------------------------------------------------------------------
(* What was saved.                                                           *)
Stays(c, d) == Range(Load(Kept(c))) \subseteq Range(Load(d))

\* A file that is left alone keeps what it had.
LEMMA KeptExtends ==
    ASSUME NEW c \in FileContents
    PROVE  /\ Kept(c) \in FileContents /\ Stays(c, c)
           /\ \E more \in Seq(Lines) : c.lines = Kept(c).lines \o more
<1>0. c.lines \in Seq(Lines)
  BY DEF FileContents
<1>1. CASE ~c.cut
  <2>1. Kept(c) = c
    BY <1>1 DEF Kept
  <2>2. c.lines = c.lines \o <<>> /\ <<>> \in Seq(Lines)
    BY <1>0
  <2>3. \E more \in Seq(Lines) : c.lines = Kept(c).lines \o more
    BY <2>1, <2>2
  <2> QED BY <2>1, <2>3, LoadGrows DEF Stays
<1>2. CASE c.cut /\ c.lines # <<>>
  <2> DEFINE last == <<c.lines[Len(c.lines)]>>
  <2>1. Kept(c) = [lines |-> Front(c.lines), cut |-> FALSE] /\ Front(c.lines) \in Seq(Lines)
    BY <1>0, <1>2 DEF Kept, File, Front
  <2>2. c.lines = Front(c.lines) \o last /\ last \in Seq(Lines)
    BY <1>0, <1>2 DEF Front
  <2>3. Kept(c) \in FileContents /\ Kept(c).lines = Front(c.lines)
    <3>1. PICK front : front = Front(c.lines)
      OBVIOUS
    <3>2. [lines |-> front, cut |-> FALSE] \in FileContents
      BY <2>1, <3>1 DEF FileContents
    <3> QED BY <2>1, <3>1, <3>2
  <2> HIDE DEF last
  <2>4. \E more \in Seq(Lines) : c.lines = Kept(c).lines \o more
    BY <2>2, <2>3
  <2> QED BY <2>3, <2>4, LoadGrows DEF Stays
<1>3. CASE c.cut /\ c.lines = <<>>
  <2> DEFINE none == <<>>
  <2>1. Front(c.lines) = none /\ none \in Seq(Lines) /\ none \o none = none /\ c.lines = none
    BY <1>3 DEF Front
  <2> HIDE DEF none
  <2>2. Kept(c) = [lines |-> none, cut |-> FALSE]
    BY <1>3, <2>1 DEF Kept, File
  <2>3. Kept(c) \in FileContents /\ Kept(c).lines = none
    BY <2>1, <2>2 DEF FileContents
  <2>4. \E more \in Seq(Lines) : c.lines = Kept(c).lines \o more
    BY <2>1, <2>3
  <2> QED BY <2>3, <2>4, LoadGrows DEF Stays
<1> QED BY <1>1, <1>2, <1>3

LEMMA PutStays ==
    ASSUME \A g \in DOMAIN disk : disk[g] \in FileContents, NEW f, NEW c \in FileContents,
           f \in DOMAIN disk => \E more \in Seq(Lines) : c.lines = Kept(disk[f]).lines \o more,
           disk' = PutFile(disk, f, c), NEW g \in DOMAIN disk
    PROVE  g \in DOMAIN disk' /\ Stays(disk[g], disk'[g])
<1>1. g \in DOMAIN disk' /\ disk'[g] = IF g = f THEN c ELSE disk[g]
  BY DEF PutFile
<1>2. CASE g = f
  <2>1. Kept(disk[f]) \in FileContents
    BY <1>2, KeptExtends
  <2>2. Range(Load(Kept(disk[f]))) \subseteq Range(Load(c))
    BY <1>2, <2>1, LoadGrows
  <2> QED BY <1>1, <1>2, <2>2 DEF Stays
<1>3. CASE g # f
  BY <1>1, <1>3, KeptExtends
<1> QED BY <1>2, <1>3

\* Opening a file rewrites it only if nothing could be read from it.
LEMMA OpenStays ==
    ASSUME NEW d, NEW f, \A g \in DOMAIN d : d[g] \in FileContents, OpenIn(d, f),
           NEW g \in DOMAIN d
    PROVE  g \in DOMAIN disk' /\ Stays(d[g], disk'[g])
<1>1. CASE disk' = d
  BY <1>1, KeptExtends
<1>2. CASE disk' # d
  <2>1. /\ f \in DOMAIN d /\ ~Valid(d[f])
        /\ disk' = PutFile(d, f, File(<<Header>>, FALSE))
    BY <1>2 DEF OpenIn
  <2>2. g \in DOMAIN disk' /\ (g # f => disk'[g] = d[g])
    BY <2>1 DEF PutFile
  <2>3. CASE g # f
    BY <2>2, <2>3, KeptExtends
  <2>4. CASE g = f
    <3>1. /\ Kept(d[f]) \in FileContents /\ d[f] \in FileContents
          /\ \E more \in Seq(Lines) : d[f].lines = Kept(d[f]).lines \o more
      BY <2>1, KeptExtends
    <3>2. ~Valid(Kept(d[f]))
      BY <2>1, <3>1, ValidExtends
    <3>3. Range(Load(Kept(d[f]))) = {}
      BY <3>1, <3>2, LoadFacts
    <3> QED BY <2>2, <2>4, <3>3 DEF Stays
  <2> QED BY <2>3, <2>4
<1> QED BY <1>1, <1>2

\* The saved entries are there to stay, in every file and whatever is done to any.
THEOREM SavedForGood == StoreSpec => SavedStaysSaved
<1> DEFINE Saved == disk' # disk => \A f \in DOMAIN disk :
        f \in DOMAIN disk' /\ Range(Load(Kept(disk[f]))) \subseteq Range(Load(disk'[f]))
<1>1. StoreInv /\ [StoreNext]_storeVars => [Saved]_storeVars
  <2> SUFFICES ASSUME StoreInv, StoreNext, disk' # disk, NEW g \in DOMAIN disk
               PROVE  g \in DOMAIN disk' /\ Stays(disk[g], disk'[g])
    BY DEF Stays, storeVars
  <2>1. /\ \A h \in DOMAIN disk : disk[h] \in FileContents
        /\ DOMAIN disk \subseteq 1..named /\ named \in Nat /\ entries \in Seq(SessionEntry)
        /\ issued \in Nat /\ Rooted(Range(entries), issued)
    BY StoreAssumption DEF StoreInv, StoreTypeOK, AllRooted
  <2>2. named + 1 \notin DOMAIN disk
    BY <2>1
  <2>3. CASE AddMessage \/ AddLabel \/ BranchWithSummary
    <3>1. PICK e \in MessageEntry \cup LabelEntry \cup SummaryEntry : AppendEntry(e)
      BY <2>3 DEF AddMessage, AddLabel, BranchWithSummary
    <3>2. e \in SessionEntry
      BY <2>3, EntriesMade DEF AddMessage, AddLabel, BranchWithSummary
    <3>3. PICK w : w = Persisted(e)
      OBVIOUS
    <3>4. PICK old : old = Content(sessionFile)
      OBVIOUS
    <3>5. w # <<>> /\ disk' = PutFile(disk, sessionFile, Added(old, w))
      BY <3>1, <3>3, <3>4 DEF AppendEntry, Persist
    <3>6. w \in Seq(Lines)
      BY <3>2, <3>3, PersistedFacts DEF StoreInv
    <3>7. old \in FileContents /\ (sessionFile \in DOMAIN disk => old = disk[sessionFile])
      BY <2>1, <3>4, NoLinesFacts DEF Content
    <3>8. PICK c : c = Added(old, w)
      OBVIOUS
    <3>9. c \in FileContents /\ \E more \in Seq(Lines) : c.lines = Kept(old).lines \o more
      BY <3>5, <3>6, <3>7, <3>8, AddedFacts
    <3> QED BY <2>1, <3>5, <3>7, <3>8, <3>9, PutStays
  <2>4. CASE \E i \in Ids : Fork(i)
    <3>1. PICK i \in Ids : Fork(i)
      BY <2>4
    <3>2. PICK copy : copy = Branched(Load(disk[sessionFile]), i)
      OBVIOUS
    <3>3. PICK d : d = IF ForkWrites(copy) = <<>> THEN disk
                       ELSE PutFile(disk, named + 1, File(ForkWrites(copy), FALSE))
      OBVIOUS
    <3>4. /\ OpenIn(d, named + 1) /\ sessionFile \in DOMAIN disk
          /\ issued + Cardinality(Labelled(Load(disk[sessionFile]))) <= MaxIds
      BY <3>1, <3>2, <3>3 DEF Fork, CanFork
    <3>5. PICK n \in Nat : copy \in Seq(SessionEntry) /\ Rooted(Range(copy), issued + n)
      BY <3>2, <3>4, CopyFacts, SourceFacts
    <3>6. PICK w : w = File(ForkWrites(copy), FALSE)
      OBVIOUS
    <3>7. w \in FileContents
      <4>1. issued + n \in Nat
        BY <2>1, <3>5
      <4> QED BY <3>5, <3>6, <4>1, WritesFacts
    <3>8. /\ \A h \in DOMAIN d : d[h] \in FileContents
          /\ g \in DOMAIN d /\ d[g] = disk[g]
      BY <2>1, <2>2, <3>3, <3>6, <3>7 DEF PutFile
    <3>9. g \in DOMAIN disk' /\ Stays(d[g], disk'[g])
      BY <3>4, <3>8, OpenStays
    <3> QED BY <3>8, <3>9
  <2>5. CASE \E f \in Files : Open(f)
    <3>1. PICK f \in Files : OpenIn(disk, f)
      BY <2>5 DEF Open
    <3> QED BY <2>1, <3>1, OpenStays
  <2>6. CASE CrashAppending
    <3>1. PICK e \in MessageEntry \cup LabelEntry \cup SummaryEntry :
             \E c \in Torn(Content(sessionFile), Persisted(e)) :
                disk' = PutFile(disk, sessionFile, c)
      BY <2>6 DEF CrashAppending
    <3>2. e \in SessionEntry
      BY <2>6, EntriesMade DEF CrashAppending
    <3>3. PICK w : w = Persisted(e)
      OBVIOUS
    <3>4. PICK old : old = Content(sessionFile)
      OBVIOUS
    <3>5. PICK c \in Torn(old, w) : disk' = PutFile(disk, sessionFile, c)
      BY <3>1, <3>3, <3>4
    <3>6. w \in Seq(Lines)
      BY <3>2, <3>3, PersistedFacts DEF StoreInv
    <3>7. old \in FileContents /\ (sessionFile \in DOMAIN disk => old = disk[sessionFile])
      BY <2>1, <3>4, NoLinesFacts DEF Content
    <3>8. c \in FileContents /\ \E more \in Seq(Lines) : c.lines = Kept(old).lines \o more
      BY <3>5, <3>6, <3>7, TornFacts
    <3> QED BY <2>1, <3>5, <3>7, <3>8, PutStays
  <2>7. CASE CrashForking
    <3>1. PICK i \in ForkTargets :
            /\ CanFork(i)
            /\ \E c \in Torn(NoLines, ForkWrites(Branched(Load(disk[sessionFile]), i))) :
                  disk' = PutFile(disk, named + 1, c)
      BY <2>7 DEF CrashForking
    <3>2. \E c : disk' = PutFile(disk, named + 1, c)
      BY <3>1
    <3>3. g \in DOMAIN disk' /\ disk'[g] = disk[g]
      BY <2>2, <3>2 DEF PutFile
    <3> QED BY <2>1, <3>3, KeptExtends
  <2>8. CASE (\E i \in Ids : MoveLeaf(i)) \/ ResetLeaf \/ NewSession \/ StartAgain \/ CrashIdle
    BY <2>8 DEF MoveLeaf, ResetLeaf, NewSession, StartAgain, CrashIdle
  <2> QED BY <2>3, <2>4, <2>5, <2>6, <2>7, <2>8 DEF StoreNext
<1>2. StoreSpec => [][Saved]_storeVars
  BY <1>1, StoreInvariance, PTL DEF StoreSpec
<1> QED BY <1>2 DEF SavedStaysSaved

-----------------------------------------------------------------------------
(* One more entry.                                                           *)
LEMMA LookupAppend ==
    ASSUME NEW es \in Seq(SessionEntry), NEW e \in SessionEntry, e.id \notin Known(es)
    PROVE  /\ Append(es, e) \in Seq(SessionEntry)
           /\ Known(Append(es, e)) = Known(es) \cup {e.id}
           /\ Lookup(Append(es, e), e.id) = e
           /\ \A j \in Known(es) : Lookup(Append(es, e), j) = Lookup(es, j)
<1> DEFINE more == Append(es, e)
           n == Len(es)
<1>1. /\ more \in Seq(SessionEntry) /\ Range(more) = Range(es) \cup {e}
      /\ Len(more) = n + 1 /\ n \in Nat /\ \A k \in 1..n : more[k] = es[k] /\ more[n + 1] = e
  BY AppendRange
<1>2. more[n + 1] = e
  OBVIOUS
<1> HIDE DEF more
<1>3. Known(more) = Known(es) \cup {e.id}
  BY <1>1 DEF Known
<1>4. Lookup(more, e.id) = e
  <2>1. Lookup(more, e.id) \in Range(more) /\ Lookup(more, e.id).id = e.id
    BY <1>1, <1>3, LookupFinds
  <2> QED BY <1>1, <2>1 DEF Known
<1>5. ASSUME NEW j \in Known(es) PROVE Lookup(more, j) = Lookup(es, j)
  <2> DEFINE found == {k \in 1..Len(es) : es[k].id = j}
  <2>1. {k \in 1..Len(more) : more[k].id = j} = found
    <3>1. e.id # j
      OBVIOUS
    <3>2. ASSUME NEW k \in 1..(n + 1) PROVE k \in 1..n \/ k = n + 1
      BY <1>1
    <3>3. 1..n \subseteq 1..(n + 1)
      BY <1>1
    <3> QED BY <1>1, <1>2, <3>1, <3>2, <3>3
  <2>2. PICK x \in Range(es) : x.id = j
    BY DEF Known
  <2>3. found # {} /\ found \in SUBSET (1..n)
    BY <2>2 DEF Range
  <2>4. Max(found) \in 1..n
    <3> HIDE DEF found
    <3> QED BY <1>1, <2>3, GreatestExists
  <2>5. SelectLastInSeq(more, LAMBDA y : y.id = j) = Max(found)
    BY <2>1, <2>3 DEF SelectLastInSeq
  <2>6. SelectLastInSeq(es, LAMBDA y : y.id = j) = Max(found)
    BY <2>3 DEF SelectLastInSeq
  <2> HIDE DEF found
  <2> QED BY <1>1, <2>4, <2>5, <2>6 DEF Lookup
<1> QED BY <1>1, <1>3, <1>4, <1>5 DEF more

\* The branch of a new entry is that of its parent, and the entry.
LEMMA BranchAppend ==
    ASSUME NEW es \in Seq(SessionEntry), NEW n \in 0..(MaxIds - 1), Rooted(Range(es), n),
           NEW e \in SessionEntry, e.id = n + 1, e.parent # None => e.parent <= n
    PROVE  Branch(Append(es, e), n + 1) = Append(Branch(es, e.parent), e)
<1> DEFINE more == Append(es, e)
           i == n + 1
           q == ParentOf(more, i)
           up == Up(es, q)
           up2 == Up(more, i)
<1>0. MaxIds \in Nat /\ n \in Nat /\ i \in Nat /\ i <= MaxIds
  BY StoreAssumption
<1>1. \A k \in Known(es) : k \in Nat /\ k <= n
  <2> SUFFICES ASSUME NEW k \in Known(es) PROVE k \in Nat /\ k <= n
    OBVIOUS
  <2>1. PICK x \in Range(es) : x.id = k
    BY DEF Known
  <2>2. x \in SessionEntry
    BY <2>1, KnownFacts
  <2> QED BY <2>1, <2>2, KnownFacts DEF Rooted
<1>2. e.id \notin Known(es)
  BY <1>0, <1>1
<1>3. /\ more \in Seq(SessionEntry) /\ Known(more) = Known(es) \cup {i}
      /\ Lookup(more, i) = e /\ \A j \in Known(es) : Lookup(more, j) = Lookup(es, j)
  BY <1>2, LookupAppend
<1>4. Rooted(Range(more), MaxIds) /\ Rooted(Range(es), MaxIds)
  <2>1. Range(more) = Range(es) \cup {e}
    BY AppendRange
  <2>2. e.parent # None => e.parent \in Nat
    BY StoreAssumption DEF SessionEntry, Ids
  <2>3. Rooted({e}, MaxIds)
    BY <1>0, <2>2 DEF Rooted
  <2>4. Rooted(Range(es), MaxIds)
    BY <1>0, RootedLater
  <2> QED BY <1>0, <2>1, <2>3, <2>4, RootedKept
<1> HIDE DEF more
<1>5. q = IF e.parent \in Known(es) THEN e.parent ELSE None
  <2>1. e.parent # i
    BY <1>0, StoreAssumption
  <2> QED BY <1>3, <2>1 DEF ParentOf
<1>6. ASSUME NEW j \in Known(es) PROVE ParentOf(more, j) = ParentOf(es, j)
  <2>1. Lookup(es, j) \in Range(es) /\ Lookup(es, j).id = j /\ Lookup(es, j) \in SessionEntry
    BY LookupFinds, KnownFacts
  <2>2. Lookup(es, j).parent # i
    BY <1>0, <1>1, <2>1, StoreAssumption DEF Rooted
  <2> QED BY <1>3, <2>2 DEF ParentOf
<1>7. IsWalk(es, q, up) /\ IsWalk(more, i, up2)
  BY <1>3, UpIsWalk
<1>8. PICK d \in 1..MaxIds : IsDepth(up2, d)
  <2>1. i \in Known(more)
    BY <1>3
  <2> QED BY <1>3, <1>4, <2>1, DepthExists
<1>9. Branch(more, i) = [k \in 1..d |-> Lookup(more, up2[d - k])]
  <2>1. PICK j : j = i
    OBVIOUS
  <2>2. j \in Known(more) /\ more \in Seq(SessionEntry) /\ IsDepth(Up(more, j), d)
    BY <1>3, <1>8, <2>1
  <2>3. Branch(more, j) = [k \in 1..d |-> Lookup(more, Up(more, j)[d - k])]
    BY <2>2, BranchIs
  <2> QED BY <2>1, <2>3
<1>10. up2[0] = i /\ up[0] = q /\ up2[1] = q
  <2>1. 1 \in 1..MaxIds /\ 1 - 1 = 0
    BY <1>0
  <2>2. i # None /\ up2[0] = i
    BY <1>0, <1>7, StoreAssumption DEF IsWalk
  <2>3. up2[1] = IF up2[0] = None THEN None ELSE ParentOf(more, up2[0])
    BY <1>7, <2>1 DEF IsWalk
  <2> QED BY <1>7, <2>2, <2>3 DEF IsWalk
<1> HIDE DEF up, up2, q
\* from the parent on, the two walks are one
<1>11. \A m \in 0..(MaxIds - 1) : up2[m + 1] = up[m] /\ (up[m] # None => up[m] \in Known(es))
  <2> DEFINE T == {m \in 0..(MaxIds - 1) :
                     up2[m + 1] = up[m] /\ (up[m] # None => up[m] \in Known(es))}
  <2>1. 0 \in T
    BY <1>0, <1>5, <1>10
  <2>2. ASSUME NEW m \in 0..(MaxIds - 1 - 1), m \in T PROVE m + 1 \in T
    <3>1. /\ m + 1 \in 1..MaxIds /\ (m + 1) - 1 = m /\ m + 2 \in 1..MaxIds /\ (m + 2) - 1 = m + 1
          /\ m + 1 \in 0..(MaxIds - 1) /\ (m + 1) + 1 = m + 2
      BY <1>0
    <3>2. up[m + 1] = IF up[m] = None THEN None ELSE ParentOf(es, up[m])
      BY <1>7, <3>1 DEF IsWalk
    <3>3. up2[m + 2] = IF up2[m + 1] = None THEN None ELSE ParentOf(more, up2[m + 1])
      BY <1>7, <3>1 DEF IsWalk
    <3>4. up2[m + 1] = up[m] /\ (up[m] # None => up[m] \in Known(es))
      BY <2>2
    <3>5. up2[m + 2] = up[m + 1]
      BY <1>6, <3>2, <3>3, <3>4
    <3>6. up[m + 1] # None => up[m + 1] \in Known(es)
      BY <3>2, KnownFacts
    <3> QED BY <3>1, <3>5, <3>6
  <2>3. \A m \in 0..(MaxIds - 1) : m \in T
    <3> HIDE DEF T
    <3>1. MaxIds - 1 \in Nat
      BY <1>0
    <3> QED BY <2>1, <2>2, <3>1, UpTo
  <2> QED BY <2>3
<1>12. CASE q = None
  <2>1. d = 1
    <3>1. ~(1 < d)
      BY <1>0, <1>8, <1>10, <1>12 DEF IsDepth
    <3> QED BY <1>0, <3>1
  <2>2. Branch(es, e.parent) = <<>>
    BY <1>5, <1>12, KnownFacts DEF Branch
  <2>3. Branch(more, i) = [k \in 1..1 |-> e]
    BY <1>3, <1>9, <1>10, <2>1
  <2>4. Append(<<>>, e) = [k \in 1..1 |-> e]
    OBVIOUS
  <2> QED BY <2>2, <2>3, <2>4 DEF more
<1>13. CASE q # None
  <2>1. q = e.parent /\ q \in Known(es)
    BY <1>5, <1>13
  <2>2. d # 1
    BY <1>8, <1>10, <1>13 DEF IsDepth
  <2>3. d - 1 \in 1..(MaxIds - 1) /\ d - 1 \in 0..(MaxIds - 1) /\ d - 1 \in 0..MaxIds
        /\ (d - 1) + 1 = d /\ d \in Nat
    BY <1>0, <2>2
  <2>4. IsDepth(up, d - 1)
    <3>1. up[d - 1] = None
      BY <1>8, <1>11, <2>3 DEF IsDepth
    <3>2. ASSUME NEW m \in 0..((d - 1) - 1) PROVE up[m] # None
      <4>1. m \in 0..(MaxIds - 1) /\ m + 1 \in 0..(d - 1)
        BY <1>0, <2>3
      <4>2. up2[m + 1] # None
        BY <1>8, <4>1 DEF IsDepth
      <4> QED BY <1>11, <4>1, <4>2
    <3> QED BY <2>3, <3>1, <3>2 DEF IsDepth
  <2>5. Branch(es, q) = [k \in 1..(d - 1) |-> Lookup(es, up[(d - 1) - k])]
    BY <2>1, <2>4, BranchIs DEF up
  <2>6. ASSUME NEW k \in 1..(d - 1)
        PROVE  Lookup(more, up2[d - k]) = Lookup(es, up[(d - 1) - k])
    <3>1. /\ (d - 1) - k \in 0..((d - 1) - 1) /\ (d - 1) - k \in 0..(MaxIds - 1)
          /\ ((d - 1) - k) + 1 = d - k
      BY <1>0, <2>3
    <3>2. up2[d - k] = up[(d - 1) - k] /\ up[(d - 1) - k] \in Known(es)
      BY <1>11, <2>4, <3>1 DEF IsDepth
    <3> QED BY <1>3, <3>2
  <2>7. Lookup(more, up2[d - d]) = e
    <3>1. d - d = 0
      BY <1>0
    <3> QED BY <1>3, <1>10, <3>1
  <2>8. Append(Branch(es, q), e) = Branch(more, i)
    <3> DEFINE b == [k \in 1..(d - 1) |-> Lookup(es, up[(d - 1) - k])]
               c == [k \in 1..d |-> Lookup(more, up2[d - k])]
    <3>1. Len(b) = d - 1 /\ Append(b, e) = [k \in 1..d |-> IF k = d THEN e ELSE b[k]]
      BY <2>3
    <3>2. ASSUME NEW k \in 1..d PROVE c[k] = IF k = d THEN e ELSE b[k]
      <4>1. CASE k = d
        BY <2>7, <4>1
      <4>2. CASE k # d
        <5>1. k \in 1..(d - 1)
          BY <2>3, <4>2
        <5> QED BY <2>6, <4>2, <5>1
      <4> QED BY <4>1, <4>2
    <3>3. c = [k \in 1..d |-> IF k = d THEN e ELSE b[k]]
      BY <3>2
    <3> QED BY <1>9, <2>5, <3>1, <3>3
  <2> QED BY <2>1, <2>8 DEF more
<1> QED BY <1>12, <1>13

-----------------------------------------------------------------------------
(* Navigation.                                                               *)

\* The messages on the branch of a new message: those on the branch of its parent, and it.
LEMMA MessagesAppend ==
    ASSUME NEW es \in Seq(SessionEntry), NEW n \in 0..(MaxIds - 1), Rooted(Range(es), n),
           NEW e \in SessionEntry, e.id = n + 1, e.parent # None => e.parent <= n,
           e.kind # "label"
    PROVE  Messages(Append(es, e), n + 1) = Append(Messages(es, e.parent), n + 1)
<1> DEFINE b == Branch(es, e.parent)
           drop == {x \in Range(b) : x.kind = "label"}
           path == Without(b, drop)
<1>1. b \in Seq(SessionEntry)
  <2>1. n \in Nat /\ MaxIds \in Nat /\ n <= MaxIds
    BY StoreAssumption
  <2>2. Rooted(Range(es), MaxIds)
    BY <2>1, RootedLater
  <2>3. b \in Seq(Range(es)) /\ Range(es) \subseteq SessionEntry
    BY <2>2, BranchType, KnownFacts
  <2> QED BY <2>3
<1>2. Branch(Append(es, e), n + 1) = Append(b, e)
  BY BranchAppend
<1>3. {x \in Range(Append(b, e)) : x.kind = "label"} = drop
  <2>1. Range(Append(b, e)) = Range(b) \cup {e}
    <3> HIDE DEF b
    <3> QED BY <1>1, AppendRange
  <2> QED BY <2>1
<1>4. Unlabelled(Append(b, e)) = Without(Append(b, e), drop) /\ Unlabelled(b) = path
  BY <1>3 DEF Unlabelled
<1>5. e \notin drop
  OBVIOUS
<1> HIDE DEF b, drop
<1>6. path \in Seq(SessionEntry)
  <2>1. path \in Seq(SessionEntry \ drop)
    BY <1>1, WithoutType
  <2> QED BY <2>1
<1>7. Without(Append(b, e), drop) = Append(path, e)
  BY <1>1, <1>5, WithoutAppend
<1>8. Messages(Append(es, e), n + 1) =
        [k \in 1..Len(Append(path, e)) |-> Append(path, e)[k].id]
  BY <1>2, <1>4, <1>7 DEF Messages
<1>9. Messages(es, e.parent) = [k \in 1..Len(path) |-> path[k].id]
  BY <1>4 DEF Messages, b
<1> HIDE DEF path
<1>10. [k \in 1..Len(Append(path, e)) |-> Append(path, e)[k].id]
         = Append([k \in 1..Len(path) |-> path[k].id], n + 1)
  BY <1>6
<1> QED BY <1>8, <1>9, <1>10

\* What the appends and navigations keep: nothing names an id that was not issued, and a
\* navigation that awaits its credentials still has its target.
NavigationInv ==
    /\ entries \in Seq(SessionEntry) /\ issued \in 0..MaxIds
    /\ Rooted(Range(entries), issued)
    /\ leaf \in Ids \cup {None} /\ (leaf # None => leaf <= issued)
    /\ \A s \in summaries : s.target \in Known(entries) /\ s.label \in BOOLEAN
    /\ ContextIsBranch

LEMMA NewLeafFacts ==
    ASSUME NavigationInv, NEW target \in Known(entries)
    PROVE  /\ NewLeaf(target) \in Ids \cup {None}
           /\ NewLeaf(target) # None => NewLeaf(target) <= issued
<1>1. entries \in Seq(SessionEntry) /\ Rooted(Range(entries), issued) /\ issued \in Nat
  BY StoreAssumption DEF NavigationInv
<1>2. PICK x \in Range(entries) : x = Lookup(entries, target) /\ x.id = target
  BY <1>1, LookupFinds
<1>3. /\ x \in SessionEntry /\ x.id \in Ids /\ x.parent \in Ids \cup {None}
      /\ Ids \subseteq Nat /\ None \notin Ids
  BY <1>1, KnownFacts DEF SessionEntry
<1>4. x.id <= issued /\ (x.parent # None => x.parent < x.id)
  BY <1>1, <1>3 DEF Rooted
<1>5. x.parent # None => x.parent <= issued
  <2>1. x.id \in Nat /\ (x.parent # None => x.parent \in Nat)
    BY <1>3
  <2> QED BY <1>1, <1>4, <2>1
<1> QED BY <1>2, <1>3, <1>4, <1>5 DEF NewLeaf

\* A navigation that may be made: below the new leaf, entries that lead to it.
LEMMA SwitchKeeps ==
    ASSUME NavigationInv, NEW new \in Ids \cup {None}, new # None => new <= issued,
           NEW appended \in Seq(SessionEntry), issued + Len(appended) <= MaxIds,
           Rooted(Range(appended), issued + Len(appended)), Switch(new, appended),
           \A s \in summaries' : s \in summaries
    PROVE  NavigationInv'
<1>1. /\ entries' = entries \o appended /\ issued' = issued + Len(appended)
      /\ leaf' = (IF appended = <<>> THEN new ELSE Last(appended).id)
      /\ context' = Messages(entries', leaf')
      /\ sends' = sends /\ left' = (sends # None)
  BY DEF Switch
<1>2. /\ entries \in Seq(SessionEntry) /\ issued \in Nat /\ issued' \in 0..MaxIds
      /\ issued' \in Nat /\ issued <= issued' /\ Rooted(Range(entries), issued)
  BY <1>1, StoreAssumption DEF NavigationInv
<1>3. entries' \in Seq(SessionEntry) /\ Range(entries') = Range(entries) \cup Range(appended)
  BY <1>1, <1>2, ConcatRange
<1>4. Rooted(Range(entries'), issued')
  BY <1>1, <1>2, <1>3, RootedKept
<1>5. leaf' \in Ids \cup {None} /\ (leaf' # None => leaf' <= issued')
  <2>1. CASE appended = <<>>
    <3>1. new # None => new \in Nat
      BY StoreAssumption DEF Ids
    <3> QED BY <1>1, <1>2, <2>1, <3>1
  <2>2. CASE appended # <<>>
    <3>1. PICK x \in Range(appended) : x = Last(appended)
      BY <2>2 DEF Last, Range
    <3>2. x \in SessionEntry /\ x.id \in Ids
      BY KnownFacts DEF SessionEntry
    <3> QED BY <1>1, <2>2, <3>1, <3>2 DEF Rooted
  <2> QED BY <2>1, <2>2
<1>6. \A s \in summaries' : s.target \in Known(entries') /\ s.label \in BOOLEAN
  BY <1>3 DEF NavigationInv, Known
<1> QED BY <1>1, <1>2, <1>3, <1>4, <1>5, <1>6 DEF NavigationInv, ContextIsBranch

\* A new entry under the new leaf.
LEMMA UnderLeaf ==
    ASSUME NEW n \in Nat, n + 1 \in Ids, NEW p \in Ids \cup {None}, p # None => p <= n,
           NEW t \in Ids \cup {None}, NEW k \in {"user", "assistant", "other", "label"},
           NEW b \in BOOLEAN, NEW x,
           x = [id |-> n + 1, parent |-> p, kind |-> k, target |-> t, set |-> b]
    PROVE  x \in SessionEntry /\ Rooted({x}, n + 1)
<1>1. x \in SessionEntry /\ x.id = n + 1 /\ x.parent = p
  BY DEF SessionEntry
<1>2. p # None => p \in Nat
  BY StoreAssumption DEF Ids
<1> QED BY <1>1, <1>2 DEF Rooted

\* Whatever is appended, moved to and summarised in the meantime, the agent has the messages
\* of the branch its session is at, and so has its run unless it was navigated away from.
THEOREM ContextFollowsLeaf == NavigationSpec => []ContextIsBranch
<1>1. NavigationInit => NavigationInv
  <2> SUFFICES ASSUME NavigationInit PROVE NavigationInv
    OBVIOUS
  <2>1. entries = <<>> /\ issued = 0 /\ leaf = None /\ context = <<>> /\ summaries = {}
      /\ sends = None
    BY DEF NavigationInit, StoreInit
  <2>2. entries \in Seq(SessionEntry) /\ Range(entries) = {} /\ issued \in 0..MaxIds
    BY <2>1, StoreAssumption DEF Range
  <2>3. Messages(entries, leaf) = <<>>
    <3> DEFINE none == <<>>
    <3>1. Branch(entries, leaf) = none
      BY <2>1 DEF Branch
    <3>2. none \in Seq({}) /\ Range(none) = {}
      BY DEF Range
    <3> HIDE DEF none
    <3>3. Unlabelled(none) \in Seq({} \ {e \in Range(none) : e.kind = "label"})
      BY <3>2, WithoutType DEF Unlabelled
    <3>4. PICK path \in Seq({}) : path = Unlabelled(none)
      BY <3>3
    <3>5. path = <<>>
      BY <3>4
    <3> QED BY <3>1, <3>4, <3>5 DEF Messages
  <2> QED BY <2>1, <2>2, <2>3 DEF NavigationInv, ContextIsBranch, Rooted
<1>2. NavigationInv /\ [NavigationNext]_navigationVars => NavigationInv'
  <2> SUFFICES ASSUME NavigationInv, [NavigationNext]_navigationVars PROVE NavigationInv'
    OBVIOUS
  <2>0. /\ entries \in Seq(SessionEntry) /\ issued \in Nat /\ issued \in 0..MaxIds
        /\ MaxIds \in Nat /\ Rooted(Range(entries), issued)
        /\ Known(entries) \subseteq Ids
    BY StoreAssumption, KnownFacts DEF NavigationInv
  <2>1. CASE MessageEnds
    <3>1. PICK k \in AppendedKinds : AppendEntry(New(k, leaf, None, FALSE))
      BY <2>1 DEF MessageEnds, AddMessage, MessageEntry
    <3>2. PICK e : e = New(k, leaf, None, FALSE)
      OBVIOUS
    <3>3. /\ entries' = Append(entries, e) /\ leaf' = e.id /\ issued' = e.id
          /\ context' = Append(context, leaf') /\ summaries' = summaries /\ issued < MaxIds
          /\ sends' = (IF sends = None THEN None ELSE Append(sends, leaf')) /\ left' = left
      BY <2>1, <3>1, <3>2 DEF MessageEnds, AddMessage, AppendEntry, CanIssue
    <3>4. issued + 1 \in Ids /\ issued \in 0..(MaxIds - 1)
          /\ leaf \in Ids \cup {None} /\ (leaf # None => leaf <= issued)
      BY <2>0, <3>3 DEF NavigationInv, Ids
    <3>5. e \in SessionEntry /\ Rooted({e}, issued + 1)
          /\ e.id = issued + 1 /\ e.parent = leaf /\ e.kind # "label"
      <4>1. e = [id |-> issued + 1, parent |-> leaf, kind |-> k, target |-> None, set |-> FALSE]
        BY <3>2 DEF New
      <4>2. k \in {"user", "assistant", "other", "label"} /\ k # "label"
        BY StoreAssumption
      <4>3. e \in SessionEntry /\ Rooted({e}, issued + 1)
        BY <2>0, <3>4, <4>1, <4>2, UnderLeaf
      <4> QED BY <4>1, <4>2, <4>3
    <3>6. entries' \in Seq(SessionEntry) /\ Range(entries') = Range(entries) \cup {e}
      BY <2>0, <3>3, <3>5, AppendRange
    <3>7. Rooted(Range(entries'), issued + 1)
      BY <2>0, <3>5, <3>6, RootedKept
    <3>8. Messages(entries', issued + 1) = Append(Messages(entries, leaf), issued + 1)
      BY <2>0, <3>3, <3>4, <3>5, MessagesAppend
    <3>9. \A s \in summaries' : s.target \in Known(entries') /\ s.label \in BOOLEAN
      BY <3>3, <3>6 DEF NavigationInv, Known
    <3>10. leaf' = issued + 1 /\ issued' = issued + 1
      BY <3>3, <3>5
    <3>11. context' = Messages(entries', leaf')
      BY <3>3, <3>8, <3>10 DEF NavigationInv, ContextIsBranch
    <3>13. sends' \in {None, context'} \/ left'
      BY <3>3 DEF NavigationInv, ContextIsBranch
    <3>12. issued + 1 \in 0..MaxIds
      BY <2>0, <3>3
    <3> QED BY <2>0, <3>4, <3>6, <3>7, <3>9, <3>10, <3>11, <3>12, <3>13
            DEF NavigationInv, ContextIsBranch
  <2>2. ASSUME NEW target \in Ids, NEW label \in BOOLEAN, NavigateTree(target, label)
        PROVE  NavigationInv'
    <3>1. PICK new : new = NewLeaf(target)
      OBVIOUS
    <3>2. new \in Ids \cup {None} /\ (new # None => new <= issued)
      BY <2>2, <3>1, NewLeafFacts DEF NavigateTree
    <3>3. PICK x : x = LabelOn(target, new, issued + 1)
      OBVIOUS
    <3>4. PICK appended : appended = IF label THEN <<x>> ELSE <<>>
      OBVIOUS
    <3>5. Switch(new, appended) /\ summaries' = summaries /\ (label => issued < MaxIds)
      BY <2>2, <3>1, <3>3, <3>4 DEF NavigateTree, CanIssue
    <3>6. CASE label
      <4>1. issued + 1 \in Ids /\ issued + 1 <= MaxIds
        BY <2>0, <3>5, <3>6 DEF Ids
      <4>2. x = [id |-> issued + 1, parent |-> new, kind |-> "label", target |-> target,
                 set |-> TRUE]
        BY <3>3 DEF LabelOn
      <4>3. x \in SessionEntry /\ Rooted({x}, issued + 1)
        BY <2>0, <3>2, <4>1, <4>2, UnderLeaf
      <4>4. appended \in Seq(SessionEntry) /\ Len(appended) = 1 /\ Range(appended) = {x}
        BY <3>4, <3>6, <4>3 DEF Range
      <4> QED BY <3>2, <3>5, <4>1, <4>3, <4>4, SwitchKeeps
    <3>7. CASE ~label
      <4>1. appended \in Seq(SessionEntry) /\ Len(appended) = 0 /\ Range(appended) = {}
        BY <3>4, <3>7 DEF Range
      <4>2. issued + Len(appended) <= MaxIds /\ Rooted(Range(appended), issued + Len(appended))
        BY <2>0, <4>1 DEF Rooted
      <4> QED BY <3>2, <3>5, <4>1, <4>2, SwitchKeeps
    <3> QED BY <3>6, <3>7
  <2>3. ASSUME NEW target \in Ids, NEW label \in BOOLEAN, AskSummary(target, label)
        PROVE  NavigationInv'
    <3>1. /\ target \in Known(entries)
          /\ summaries' = summaries \cup
                {[target |-> target, label |-> label, covers |-> Collected(target)]}
          /\ UNCHANGED <<storeVars, context, sends, left>>
      BY <2>3 DEF AskSummary
    <3>2. /\ entries' = entries /\ issued' = issued /\ leaf' = leaf /\ context' = context
          /\ sends' = sends /\ left' = left
      BY <3>1 DEF storeVars
    <3>3. \A s \in summaries' : s.target \in Known(entries) /\ s.label \in BOOLEAN
      BY <3>1 DEF NavigationInv
    <3> QED BY <3>2, <3>3 DEF NavigationInv, ContextIsBranch
  <2>4. ASSUME NEW s \in summaries, Summarise(s)
        PROVE  NavigationInv'
    <3>1. PICK new : new = NewLeaf(s.target)
      OBVIOUS
    <3>2. new \in Ids \cup {None} /\ (new # None => new <= issued)
      BY <3>1, NewLeafFacts DEF NavigationInv
    <3>3. PICK x : x = SummaryUnder(new)
      OBVIOUS
    <3>4. PICK y : y = LabelOn(x.id, x.id, issued + 2)
      OBVIOUS
    <3>5. PICK appended : appended = IF s.label THEN <<x, y>> ELSE <<x>>
      OBVIOUS
    <3>6. /\ Switch(new, appended) /\ (\A r \in summaries' : r \in summaries)
          /\ issued + 2 <= MaxIds
      BY <2>4, <3>1, <3>3, <3>4, <3>5 DEF Summarise
    <3>7. issued + 1 \in Ids /\ (issued + 1) + 1 \in Ids /\ issued + 1 \in Nat
          /\ (issued + 1) + 1 = issued + 2 /\ issued + 2 \in Nat
      BY <2>0, <3>6 DEF Ids
    <3>8. /\ x = [id |-> issued + 1, parent |-> new, kind |-> "other", target |-> None,
                  set |-> FALSE]
          /\ x.id = issued + 1
      BY <3>3 DEF SummaryUnder, New
    <3>9. x \in SessionEntry /\ Rooted({x}, issued + 1)
      BY <2>0, <3>2, <3>7, <3>8, UnderLeaf
    <3>10. CASE s.label
      <4>1. y = [id |-> (issued + 1) + 1, parent |-> issued + 1, kind |-> "label",
                 target |-> issued + 1, set |-> TRUE]
        BY <3>4, <3>7, <3>8 DEF LabelOn
      <4>2. y \in SessionEntry /\ Rooted({y}, issued + 2)
        <5>1. issued + 1 <= issued + 1
          BY <3>7
        <5>2. PICK n \in Nat : n = issued + 1
          BY <3>7
        <5>3. y \in SessionEntry /\ Rooted({y}, n + 1)
          <6>1. y = [id |-> n + 1, parent |-> n, kind |-> "label", target |-> n, set |-> TRUE]
            BY <4>1, <5>2
          <6>2. n + 1 \in Ids /\ n \in Ids \cup {None} /\ n <= n
            BY <3>7, <5>2
          <6> QED BY <6>1, <6>2, UnderLeaf
        <5> QED BY <3>7, <5>2, <5>3
      <4>3. appended \in Seq(SessionEntry) /\ Len(appended) = 2 /\ Range(appended) = {x, y}
        BY <3>5, <3>9, <3>10, <4>2 DEF Range
      <4>4. Rooted({x, y}, issued + 2)
        <5>1. issued + 1 <= issued + 2
          BY <3>7
        <5> QED BY <3>7, <3>9, <4>2, <5>1, RootedKept
      <4> QED BY <3>2, <3>6, <4>3, <4>4, SwitchKeeps
    <3>11. CASE ~s.label
      <4>1. appended \in Seq(SessionEntry) /\ Len(appended) = 1 /\ Range(appended) = {x}
        BY <3>5, <3>9, <3>11 DEF Range
      <4>2. issued + 1 <= MaxIds
        BY <2>0, <3>6
      <4> QED BY <3>2, <3>6, <3>9, <4>1, <4>2, SwitchKeeps
    <3> QED BY <3>10, <3>11
  <2>5. ASSUME NEW s \in summaries, SummaryFails(s)
        PROVE  NavigationInv'
    <3>1. entries' = entries /\ issued' = issued /\ leaf' = leaf /\ context' = context
          /\ sends' = sends /\ left' = left /\ summaries' \subseteq summaries
      BY <2>5 DEF SummaryFails, storeVars
    <3> QED BY <3>1 DEF NavigationInv, ContextIsBranch
  <2>6. CASE UNCHANGED navigationVars
    <3>1. entries' = entries /\ issued' = issued /\ leaf' = leaf /\ context' = context
          /\ sends' = sends /\ left' = left /\ summaries' = summaries
      BY <2>6 DEF navigationVars, storeVars
    <3> QED BY <3>1 DEF NavigationInv, ContextIsBranch
  <2>7. CASE RunBegins \/ RunEnds
    <3>1. entries' = entries /\ issued' = issued /\ leaf' = leaf /\ context' = context
          /\ summaries' = summaries /\ sends' \in {None, context'}
      BY <2>7 DEF RunBegins, RunEnds, storeVars
    <3> QED BY <3>1 DEF NavigationInv, ContextIsBranch
  <2> QED BY <2>1, <2>2, <2>3, <2>4, <2>5, <2>6, <2>7 DEF NavigationNext
<1>3. NavigationInv => ContextIsBranch
  BY DEF NavigationInv
<1> QED BY <1>1, <1>2, <1>3, PTL DEF NavigationSpec

-----------------------------------------------------------------------------
(* Entries in order.  A first flush that is repeated after a restart leaves  *)
(* some entries in the file twice; what is in memory is its end.             *)
Stripped(s) == Without(Without(s, {Junk}), {Header})

LEMMA WithoutNone ==
    ASSUME NEW S, NEW s \in Seq(S), NEW D, S \cap D = {}
    PROVE  Without(s, D) = s
<1> DEFINE g == [n \in 0..Len(s) |-> SubSeq(s, 1, n)]
<1>1. Len(s) \in Nat /\ g[Len(s)] = s
  OBVIOUS
<1>2. g[0] = <<>>
  OBVIOUS
<1>3. ASSUME NEW n \in 1..Len(s) PROVE s[n] \notin D /\ g[n] = Append(g[n - 1], s[n])
  <2>1. s[n] \in S /\ n - 1 \in 0..Len(s) /\ n \in 0..Len(s)
    OBVIOUS
  <2>2. SubSeq(s, 1, n) = Append(SubSeq(s, 1, n - 1), s[n])
    OBVIOUS
  <2> QED BY <2>1, <2>2
<1> HIDE DEF g
<1>4. Kept1(s, D, g)
  BY <1>2, <1>3 DEF Kept1
<1> QED BY <1>1, <1>4, WithoutUnique

LEMMA StrippedFacts ==
    /\ \A s, t \in Seq(Lines) : Stripped(s \o t) = Stripped(s) \o Stripped(t)
    /\ \A s \in Seq(Lines) : Stripped(s) \in Seq(SessionEntry)
    /\ \A es \in Seq(SessionEntry) : Stripped(es) = es
    /\ Stripped(<<Header>>) = <<>>
<1>1. ASSUME NEW s \in Seq(Lines)
      PROVE  /\ Without(s, {Junk}) \in Seq(Lines \ {Junk})
             /\ Stripped(s) \in Seq(SessionEntry)
  <2>1. Without(s, {Junk}) \in Seq(Lines \ {Junk})
    BY WithoutType
  <2>2. Stripped(s) \in Seq((Lines \ {Junk}) \ {Header})
    BY <2>1, WithoutType DEF Stripped
  <2>3. (Lines \ {Junk}) \ {Header} = SessionEntry
    BY EntriesAreNoMarks DEF Lines
  <2> QED BY <2>1, <2>2, <2>3
<1>2. ASSUME NEW s \in Seq(Lines), NEW t \in Seq(Lines)
      PROVE  Stripped(s \o t) = Stripped(s) \o Stripped(t)
  <2>1. Without(s \o t, {Junk}) = Without(s, {Junk}) \o Without(t, {Junk})
    BY WithoutConcat
  <2>2. Without(s, {Junk}) \in Seq(Lines \ {Junk}) /\ Without(t, {Junk}) \in Seq(Lines \ {Junk})
    BY <1>1
  <2>3. Without(Without(s, {Junk}) \o Without(t, {Junk}), {Header}) = Stripped(s) \o Stripped(t)
    <3> DEFINE u == Without(s, {Junk})
               v == Without(t, {Junk})
               X == Lines \ {Junk}
    <3>1. u \in Seq(X) /\ v \in Seq(X)
      BY <2>2
    <3> HIDE DEF u, v, X
    <3>2. Without(u \o v, {Header}) = Without(u, {Header}) \o Without(v, {Header})
      BY <3>1, WithoutConcat
    <3> QED BY <3>2 DEF Stripped, u, v
  <2> QED BY <2>1, <2>3 DEF Stripped
<1>3. ASSUME NEW es \in Seq(SessionEntry) PROVE Stripped(es) = es
  <2>1. SessionEntry \cap {Junk} = {} /\ SessionEntry \cap {Header} = {}
    BY MarksAreNoEntries
  <2>2. Without(es, {Junk}) = es /\ Without(es, {Header}) = es
    BY <2>1, WithoutNone
  <2> QED BY <2>2 DEF Stripped
<1>4. Stripped(<<Header>>) = <<>>
  <2>1. Without(<<Header>>, {Junk}) = <<Header>> /\ Without(<<Header>>, {Header}) = <<>>
    BY WithoutOne, MarksDiffer
  <2> QED BY <2>1 DEF Stripped
<1> QED BY <1>1, <1>2, <1>3, <1>4

LEMMA LoadIsStripped ==
    ASSUME NEW c, Valid(c)
    PROVE  Load(c) = Stripped(c.lines)
  BY DEF Load, Parsed, Stripped

\* What a whole file yields after an append, in order.
LEMMA AddedLoadIs ==
    ASSUME NEW old \in FileContents, NEW new \in Seq(Lines), new # <<>>,
           ~Damaged(old), Valid(old)
    PROVE  Load(Added(old, new)) = Load(old) \o Stripped(new)
<1> DEFINE a == Added(old, new)
           l == old.lines
<1>1. a \in FileContents /\ a.lines = l \o new /\ l \in Seq(Lines)
  BY AddedFacts DEF Damaged, FileContents
<1>2. Valid(a)
  BY AddedLoad
<1> HIDE DEF a
<1>3. Load(a) = Stripped(l \o new) /\ Load(old) = Stripped(l)
  BY <1>1, <1>2, LoadIsStripped
<1> HIDE DEF l
<1>4. Stripped(l \o new) = Stripped(l) \o Stripped(new)
  BY <1>1, StrippedFacts
<1> QED BY <1>3, <1>4 DEF a

LEMMA FreshLoadIs ==
    ASSUME NEW es \in Seq(SessionEntry), NEW c \in FileContents, c.lines = <<Header>> \o es
    PROVE  Load(c) = es
<1> DEFINE h == <<Header>>
<1>1. h \in Seq(Lines) /\ es \in Seq(Lines) /\ Stripped(h) = <<>>
  BY MarksAreNoEntries, StrippedFacts DEF Lines
<1>2. Load(c) = Stripped(h \o es)
  BY FreshLoad, LoadIsStripped
<1> HIDE DEF h
<1>3. Stripped(h \o es) = Stripped(h) \o es
  BY <1>1, StrippedFacts
<1>4. <<>> \o es = es
  OBVIOUS
<1>5. Load(c) = Stripped(h) \o es
  BY <1>2, <1>3
<1>6. Stripped(h) = <<>>
  BY <1>1
<1>7. Load(c) = <<>> \o es
  BY <1>5, <1>6
<1> QED BY <1>4, <1>7, Zenon

\* The place of the last member of a set, and what comes before a list that has it already.
LastAt(s, W) == LET I == {k \in 1..Len(s) : s[k] \in W} IN IF I # {} THEN Max(I) ELSE 0

LEMMA LastAtConcat ==
    ASSUME NEW S, NEW p \in Seq(S), NEW es \in Seq(S), Range(p) \subseteq Range(es), NEW W
    PROVE  /\ LastAt(es, W) = 0 => LastAt(p \o es, W) = 0
           /\ LastAt(es, W) # 0 => /\ LastAt(es, W) \in DOMAIN es
                                   /\ es[LastAt(es, W)] \in W
                                   /\ LastAt(p \o es, W) # 0
                                   /\ (p \o es)[LastAt(p \o es, W)] = es[LastAt(es, W)]
<1> DEFINE more == p \o es
           a == Len(p)
           n == Len(es)
           I == {k \in 1..Len(es) : es[k] \in W}
           J == {k \in 1..Len(more) : more[k] \in W}
<1>1. /\ a \in Nat /\ n \in Nat /\ Len(more) = a + n
      /\ \A k \in 1..a : more[k] = p[k] /\ p[k] \in Range(p)
      /\ \A k \in 1..n : more[a + k] = es[k] /\ a + k \in 1..(a + n)
  BY DEF Range
<1>2. \A k \in 1..(a + n) : k \in 1..a \/ \E j \in 1..n : k = a + j
  <2> SUFFICES ASSUME NEW k \in 1..(a + n), k \notin 1..a PROVE \E j \in 1..n : k = a + j
    OBVIOUS
  <2>1. k - a \in 1..n /\ k = a + (k - a)
    BY <1>1
  <2> QED BY <2>1
<1> HIDE DEF more, a, n
<1>3. CASE I = {}
  <2>1. \A x \in Range(es) : x \notin W
    BY <1>3 DEF Range, n
  <2>2. ASSUME NEW k \in 1..(a + n) PROVE more[k] \notin W
    <3>1. CASE k \in 1..a
      BY <1>1, <2>1, <3>1
    <3>2. CASE \E j \in 1..n : k = a + j
      BY <1>1, <1>3, <3>2 DEF n
    <3> QED BY <1>2, <3>1, <3>2
  <2>3. J = {}
    BY <1>1, <2>2
  <2> QED BY <1>3, <2>3 DEF LastAt, more
<1>4. CASE I # {}
  <2> DEFINE last == Max(I)
  <2>1. last \in I /\ \A y \in I : last >= y
    <3>1. I \in SUBSET (1..n)
      BY DEF n
    <3> HIDE DEF I
    <3> QED BY <1>1, <1>4, <3>1, GreatestExists
  <2>2. last \in 1..n /\ es[last] \in W
    BY <2>1 DEF n
  <2> HIDE DEF last
  <2>3. a + last \in J
    BY <1>1, <2>2
  <2>4. J # {} /\ J \in SUBSET (1..(a + n)) /\ a + n \in Nat
    BY <1>1, <2>3
  <2>5. Max(J) \in J /\ \A y \in J : Max(J) >= y
    <3> HIDE DEF J
    <3> QED BY <2>4, GreatestExists
  <2>6. Max(J) = a + last
    <3> DEFINE top == Max(J)
    <3>1. top \in 1..(a + n) /\ top >= a + last /\ more[top] \in W
      BY <1>1, <2>3, <2>5
    <3> HIDE DEF top, J
    <3>2. PICK j \in 1..n : top = a + j
      BY <1>1, <1>2, <2>2, <3>1
    <3>3. j \in I
      BY <1>1, <3>1, <3>2 DEF n
    <3>4. last >= j
      BY <2>1, <3>3
    <3>5. top = a + last
      BY <1>1, <2>2, <3>1, <3>2, <3>4
    <3> QED BY <3>5 DEF top
  <2>7. LastAt(es, W) = last
    BY <1>4 DEF LastAt, last
  <2>8. LastAt(more, W) = a + last
    BY <2>4, <2>6 DEF LastAt
  <2>9. more[a + last] = es[last] /\ a + last # 0 /\ last # 0 /\ last \in DOMAIN es
    BY <1>1, <2>2 DEF n
  <2> QED BY <2>2, <2>7, <2>8, <2>9 DEF more
<1> QED BY <1>3, <1>4

\* A list says the same with entries in front of it that it has already.
LEMMA SameAfter ==
    ASSUME NEW p \in Seq(SessionEntry), NEW es \in Seq(SessionEntry),
           Range(p) \subseteq Range(es)
    PROVE  /\ p \o es \in Seq(SessionEntry) /\ Range(p \o es) = Range(es)
           /\ Known(p \o es) = Known(es)
           /\ \A j \in Known(es) : Lookup(p \o es, j) = Lookup(es, j)
           /\ Labelled(p \o es) = Labelled(es)
<1> DEFINE more == p \o es
<1>1. more \in Seq(SessionEntry) /\ Range(more) = Range(es)
  <2>1. Range(p \o es) = Range(p) \cup Range(es) /\ p \o es \in Seq(SessionEntry)
    BY ConcatRange
  <2> QED BY <2>1
<1>2. Known(more) = Known(es)
  BY <1>1 DEF Known
<1>3. ASSUME NEW s \in Seq(SessionEntry), NEW j
      PROVE  /\ SelectLastInSeq(s, LAMBDA e : e.id = j) = LastAt(s, {e \in SessionEntry : e.id = j})
             /\ SelectLastInSeq(s, LAMBDA e : e.kind = "label" /\ e.target = j)
                  = LastAt(s, {e \in SessionEntry : e.kind = "label" /\ e.target = j})
  <2>1. \A k \in 1..Len(s) : s[k] \in SessionEntry
    OBVIOUS
  <2>2. {k \in 1..Len(s) : s[k].id = j} = {k \in 1..Len(s) : s[k] \in {e \in SessionEntry : e.id = j}}
    BY <2>1
  <2>3. {k \in 1..Len(s) : s[k].kind = "label" /\ s[k].target = j} =
          {k \in 1..Len(s) : s[k] \in {e \in SessionEntry : e.kind = "label" /\ e.target = j}}
    BY <2>1
  <2>4. SelectLastInSeq(s, LAMBDA e : e.id = j) = LastAt(s, {e \in SessionEntry : e.id = j})
    BY <2>2 DEF SelectLastInSeq, LastAt
  <2>5. SelectLastInSeq(s, LAMBDA e : e.kind = "label" /\ e.target = j)
          = LastAt(s, {e \in SessionEntry : e.kind = "label" /\ e.target = j})
    BY <2>3 DEF SelectLastInSeq, LastAt
  <2> QED BY <2>4, <2>5
<1>4. ASSUME NEW j \in Known(es) PROVE Lookup(more, j) = Lookup(es, j)
  <2> DEFINE W == {e \in SessionEntry : e.id = j}
  <2>1. Lookup(more, j) = more[LastAt(more, W)] /\ Lookup(es, j) = es[LastAt(es, W)]
    BY <1>1, <1>3 DEF Lookup
  <2>2. LastAt(es, W) # 0
    <3>1. PICK x \in Range(es) : x.id = j
      BY DEF Known
    <3>2. PICK k \in 1..Len(es) : es[k] \in W
      BY <3>1, KnownFacts DEF Range
    <3> DEFINE I == {m \in 1..Len(es) : es[m] \in W}
    <3>3. I # {} /\ I \in SUBSET (1..Len(es)) /\ Len(es) \in Nat
      BY <3>2
    <3>4. LastAt(es, W) = Max(I)
      BY <3>3 DEF LastAt
    <3> HIDE DEF I, W
    <3>5. Max(I) \in I
      BY <3>3, GreatestExists
    <3> QED BY <3>3, <3>4, <3>5
  <2> HIDE DEF W
  <2> QED BY <2>1, <2>2, LastAtConcat
<1>5. Labelled(more) = Labelled(es)
  <2> SUFFICES ASSUME NEW i \in Ids PROVE i \in Labelled(more) <=> i \in Labelled(es)
    BY DEF Labelled
  <2> DEFINE W == {e \in SessionEntry : e.kind = "label" /\ e.target = i}
             k == LastAt(es, W)
             m == LastAt(more, W)
  <2>1. i \in Labelled(es) <=> k # 0 /\ es[k].set
    BY <1>3 DEF Labelled
  <2>2. i \in Labelled(more) <=> m # 0 /\ more[m].set
    BY <1>1, <1>3 DEF Labelled
  <2>3. (k = 0 => m = 0) /\ (k # 0 => m # 0 /\ more[m] = es[k])
    <3>1. PICK w : w = W
      OBVIOUS
    <3>2. LastAt(es, w) = 0 => LastAt(p \o es, w) = 0
      BY LastAtConcat
    <3>3. LastAt(es, w) # 0 => LastAt(p \o es, w) # 0
      BY LastAtConcat
    <3>4. LastAt(es, w) # 0 => (p \o es)[LastAt(p \o es, w)] = es[LastAt(es, w)]
      BY LastAtConcat
    <3> QED BY <3>1, <3>2, <3>3, <3>4
  <2> HIDE DEF k, m, more, W
  <2> QED BY <2>1, <2>2, <2>3
<1> HIDE DEF more
<1> QED BY <1>1, <1>2, <1>4, <1>5 DEF more

\* Lists in which the same entries are found have the same branches.
LEMMA BranchSame ==
    ASSUME NEW es \in Seq(SessionEntry), NEW more \in Seq(SessionEntry),
           Rooted(Range(es), MaxIds), Range(more) = Range(es), Known(more) = Known(es),
           \A j \in Known(es) : Lookup(more, j) = Lookup(es, j), NEW i \in Known(es)
    PROVE  Branch(more, i) = Branch(es, i)
<1> DEFINE up == Up(es, i)
           up2 == Up(more, i)
<1>1. MaxIds \in Nat
  BY StoreAssumption
<1>2. IsWalk(es, i, up) /\ IsWalk(more, i, up2)
  BY UpIsWalk
<1>3. \A j \in Known(es) : ParentOf(more, j) = ParentOf(es, j)
  BY DEF ParentOf
<1> HIDE DEF up, up2
<1>4. \A n \in 0..MaxIds : up2[n] = up[n] /\ up[n] \in Known(es) \cup {None}
  <2> DEFINE T == {n \in 0..MaxIds : up2[n] = up[n] /\ up[n] \in Known(es) \cup {None}}
  <2>1. 0 \in T
    BY <1>1, <1>2 DEF IsWalk
  <2>2. ASSUME NEW n \in 0..(MaxIds - 1), n \in T PROVE n + 1 \in T
    <3>1. n + 1 \in 1..MaxIds /\ (n + 1) - 1 = n /\ n + 1 \in 0..MaxIds
      BY <1>1
    <3>2. up2[n] = up[n] /\ up[n] \in Known(es) \cup {None}
      BY <2>2
    <3>3. up[n + 1] = IF up[n] = None THEN None ELSE ParentOf(es, up[n])
      BY <1>2, <3>1 DEF IsWalk
    <3>4. up2[n + 1] = IF up2[n] = None THEN None ELSE ParentOf(more, up2[n])
      BY <1>2, <3>1 DEF IsWalk
    <3>5. up2[n + 1] = up[n + 1]
      BY <1>3, <3>2, <3>3, <3>4
    <3>6. up[n + 1] \in Known(es) \cup {None}
      BY <3>3, KnownFacts
    <3> QED BY <3>1, <3>5, <3>6
  <2>3. \A n \in 0..MaxIds : n \in T
    <3> HIDE DEF T
    <3> QED BY <1>1, <2>1, <2>2, UpTo
  <2> QED BY <2>3
<1>5. PICK d \in 1..MaxIds : IsDepth(up, d)
  BY DepthExists DEF up
<1>6. IsDepth(up2, d)
  <2>1. \A m \in 0..(d - 1) : m \in 0..MaxIds
    BY <1>1, <1>5
  <2> QED BY <1>4, <1>5, <2>1 DEF IsDepth
<1>7. Branch(es, i) = [k \in 1..d |-> Lookup(es, up[d - k])]
  BY <1>5, BranchIs DEF up
<1>8. Branch(more, i) = [k \in 1..d |-> Lookup(more, up2[d - k])]
  BY <1>6, BranchIs DEF up2
<1>9. ASSUME NEW k \in 1..d PROVE Lookup(more, up2[d - k]) = Lookup(es, up[d - k])
  <2>1. d - k \in 0..(d - 1) /\ d - k \in 0..MaxIds
    BY <1>1
  <2>2. up2[d - k] = up[d - k] /\ up[d - k] \in Known(es)
    BY <1>4, <1>5, <2>1 DEF IsDepth
  <2> QED BY <2>2
<1> QED BY <1>7, <1>8, <1>9

\* A copy's labels are those that are set on what it copies.
LEMMA CopyLabels ==
    ASSUME StoreInv, NEW es \in Seq(SessionEntry), Rooted(Range(es), issued), NEW i,
           issued + Cardinality(Labelled(es)) <= MaxIds
    PROVE  LET path == Unlabelled(Branch(es, i))
           IN /\ Unlabelled(Branched(es, i)) = path
              /\ Labelled(Branched(es, i)) = Labelled(es) \cap Known(path)
<1> DEFINE path == Unlabelled(Branch(es, i))
           targets == Labelled(es) \cap Known(path)
           N == Cardinality(targets)
           order == SetToSeq(targets)
           labels == Relabel(path, targets)
           copy == Branched(es, i)
<1>1. /\ copy \in Seq(SessionEntry) /\ path \in Seq(SessionEntry)
      /\ \E rest \in Seq(SessionEntry) :
            copy = path \o rest /\ \A e \in Range(rest) : e.kind = "label"
  BY CopyFacts
<1>2. copy = path \o labels
  BY DEF Branched
<1>3. /\ IsFiniteSet(targets) /\ N \in Nat /\ targets \subseteq Ids
  <2>1. IsFiniteSet(Ids) /\ Labelled(es) \subseteq Ids
    <3>1. IsFiniteSet(1..MaxIds)
      BY StoreAssumption, FS_Interval
    <3> QED BY <3>1 DEF Ids, Labelled
  <2>2. IsFiniteSet(targets) /\ targets \subseteq Ids
    BY <2>1, FS_Subset
  <2> QED BY <2>2, FS_CardinalityType
<1>4. \A e \in Range(path) : e.kind # "label"
  <2> DEFINE b == Branch(es, i)
             drop == {e \in Range(b) : e.kind = "label"}
  <2>1. b \in Seq(SessionEntry)
    <3>1. issued \in Nat /\ MaxIds \in Nat /\ issued <= MaxIds
      BY StoreAssumption DEF StoreInv, StoreTypeOK
    <3>2. Rooted(Range(es), MaxIds)
      BY <3>1, RootedLater
    <3>3. b \in Seq(Range(es)) /\ Range(es) \subseteq SessionEntry
      BY <3>2, BranchType, KnownFacts
    <3> QED BY <3>3
  <2>2. path = Without(b, drop)
    BY DEF Unlabelled
  <2> HIDE DEF b, path
  <2>3. Range(path) = Range(b) \ drop
    <3>1. PICK w : w = drop
      OBVIOUS
    <3>2. Range(Without(b, w)) = Range(b) \ w
      BY <2>1, WithoutRange
    <3> QED BY <2>2, <3>1, <3>2
  <2> QED BY <2>3
<1> HIDE DEF path, targets
<1>5. order \in [1..N -> targets] /\ \A t \in targets : \E k \in 1..N : order[k] = t
  <2>1. \E f : f \in Bijection(1..N, targets)
    BY <1>3, FS_CardinalityType DEF ExistsBijection
  <2>2. \E f \in [1..N -> targets] : IsInjective(f)
    BY <2>1 DEF Bijection, Injection
  <2>3. order \in Injection(1..N, targets)
    BY <2>2 DEF SetToSeq, Injection
  <2>4. IsFiniteSet(1..N) /\ Cardinality(1..N) = N
    BY <1>3, FS_Interval
  <2>5. order \in Surjection(1..N, targets)
    <3> HIDE DEF order
    <3> QED BY <1>3, <2>3, <2>4, FS_Injection
  <2> QED BY <2>3, <2>5 DEF Injection, Surjection
<1>6. Len(order) = N
  BY <1>3, <1>5
<1>7. /\ DOMAIN labels = 1..N
      /\ \A k \in 1..N : /\ labels[k].kind = "label" /\ labels[k].target = order[k]
                         /\ labels[k].set = TRUE
  BY <1>6 DEF Relabel
<1> HIDE DEF order
<1>8. labels \in Seq(SessionEntry)
  <2>1. PICK rest \in Seq(SessionEntry) : path \o labels = path \o rest
    BY <1>1, <1>2
  <2>2. labels = rest
    <3>1. labels = [k \in 1..N |-> labels[k]]
      BY <1>7, <1>6 DEF Relabel
    <3>2. labels \in Seq(Range(labels)) /\ Len(labels) = N
      BY <1>3, <1>7, <3>1 DEF Range
    <3>3. path \in Seq(SessionEntry \cup Range(labels)) /\ rest \in Seq(SessionEntry \cup Range(labels))
          /\ labels \in Seq(SessionEntry \cup Range(labels))
      BY <1>1, <3>2
    <3> HIDE DEF labels
    <3>4. Len(labels) = Len(rest)
      <4>1. Len(path \o labels) = Len(path) + Len(labels)
        BY <3>3
      <4>2. Len(path \o rest) = Len(path) + Len(rest)
        BY <3>3
      <4> QED BY <2>1, <3>3, <4>1, <4>2
    <3>5. ASSUME NEW k \in 1..Len(rest) PROVE labels[k] = rest[k]
      <4>1. (path \o labels)[Len(path) + k] = labels[k]
        BY <3>3, <3>4
      <4>2. (path \o rest)[Len(path) + k] = rest[k]
        BY <3>3
      <4> QED BY <2>1, <4>1, <4>2
    <3> QED BY <3>3, <3>4, <3>5
  <2> QED BY <2>2
<1>9. Len(labels) = N /\ \A e \in Range(labels) : e.kind = "label"
  BY <1>3, <1>7, <1>8 DEF Range
<1> HIDE DEF labels, copy
<1>10. Range(copy) = Range(path) \cup Range(labels)
  BY <1>1, <1>2, <1>8, ConcatRange
<1>11. Unlabelled(copy) = path
  <2>1. PICK drop : drop = {e \in Range(copy) : e.kind = "label"}
    OBVIOUS
  <2>2. drop = Range(labels)
    BY <1>4, <1>9, <1>10, <2>1
  <2>7. path \in Seq(SessionEntry) /\ labels \in Seq(SessionEntry)
    BY <1>1, <1>8
  <2>3. Without(path \o labels, drop) = Without(path, drop) \o Without(labels, drop)
    BY <2>7, WithoutConcat
  <2>4. Without(path, drop) = path
    <3>1. Range(path) \cap drop = {}
      BY <1>4, <1>9, <2>2
    <3>2. path \in Seq(Range(path))
      BY <2>7 DEF Range
    <3> QED BY <3>1, <3>2, WithoutNone
  <2>5. Without(labels, drop) = <<>>
    <3>1. labels \in Seq(Range(labels))
      BY <1>8 DEF Range
    <3>2. Without(labels, drop) \in Seq(Range(labels) \ drop)
      BY <3>1, WithoutType
    <3>3. Without(labels, drop) \in Seq({})
      BY <2>2, <3>2
    <3> QED BY <3>3
  <2>6. path \o <<>> = path
    BY <1>1
  <2> QED BY <1>2, <2>1, <2>3, <2>4, <2>5, <2>6 DEF Unlabelled
<1>12. Labelled(copy) = targets
  <2> SUFFICES ASSUME NEW t \in Ids PROVE t \in Labelled(copy) <=> t \in targets
    BY <1>3 DEF Labelled
  <2> DEFINE I == {k \in 1..Len(copy) : copy[k].kind = "label" /\ copy[k].target = t}
             k == SelectLastInSeq(copy, LAMBDA e : e.kind = "label" /\ e.target = t)
  <2>1. t \in Labelled(copy) <=> k # 0 /\ copy[k].set
    BY DEF Labelled
  <2>2. k = IF I # {} THEN Max(I) ELSE 0
    BY DEF SelectLastInSeq
  <2>3. Len(copy) \in Nat /\ \A n \in 1..Len(copy) : copy[n] \in Range(copy)
    <3> HIDE DEF I, k
    <3>1. copy \in Seq(SessionEntry)
      BY <1>1
    <3> QED BY <3>1 DEF Range
  <2>4. I # {} => Max(I) \in I /\ Max(I) # 0
    <3> SUFFICES ASSUME I # {} PROVE Max(I) \in I /\ Max(I) # 0
      OBVIOUS
    <3>1. I \in SUBSET (1..Len(copy))
      OBVIOUS
    <3>2. PICK n \in Nat : n = Len(copy)
      BY <2>3
    <3> HIDE DEF I
    <3>3. Max(I) \in I
      BY <3>1, <3>2, GreatestExists
    <3> QED BY <3>1, <3>2, <3>3
  <2>5. \A x \in Range(labels) : \E m \in 1..N : x = labels[m]
    BY <1>7 DEF Range
  <2>6. I # {} => copy[k].set = TRUE /\ t \in targets
    <3> SUFFICES ASSUME I # {} PROVE copy[k].set = TRUE /\ t \in targets
      OBVIOUS
    <3>1. k \in I
      BY <2>2, <2>4
    <3> HIDE DEF k
    <3>2. copy[k] \in Range(copy) /\ copy[k].kind = "label" /\ copy[k].target = t
      BY <2>3, <3>1
    <3>3. copy[k] \in Range(labels)
      BY <1>4, <1>10, <3>2
    <3>4. PICK m \in 1..N : copy[k] = labels[m]
      BY <2>5, <3>3
    <3> QED BY <1>5, <1>7, <3>2, <3>4
  <2>7. t \in targets => I # {}
    <3> SUFFICES ASSUME t \in targets PROVE I # {}
      OBVIOUS
    <3>1. PICK m \in 1..N : order[m] = t
      BY <1>5
    <3>2. labels[m] \in Range(copy) /\ labels[m].kind = "label" /\ labels[m].target = t
      BY <1>7, <1>10, <3>1 DEF Range
    <3>3. PICK n \in 1..Len(copy) : copy[n] = labels[m]
      BY <1>1, <3>2 DEF Range
    <3> QED BY <3>2, <3>3
  <2>8. k # 0 <=> I # {}
    BY <2>2, <2>4
  <2> HIDE DEF k, I
  <2> QED BY <2>1, <2>6, <2>7, <2>8
<1> QED BY <1>11, <1>12 DEF copy, targets, path

\* What is in memory is what its file ends in, once it is flushed.
TailIsMemory ==
    running /\ flushed /\ ~Damaged(disk[sessionFile]) =>
      \E p \in Seq(Range(entries)) : Load(disk[sessionFile]) = p \o entries

LEMMA OpenTail ==
    ASSUME NEW d, NEW f, f \in DOMAIN d => d[f] \in FileContents, OpenIn(d, f)
    PROVE  TailIsMemory'
<1>1. CASE f \notin DOMAIN d
  BY <1>1 DEF OpenIn, Blank, TailIsMemory
<1>2. CASE f \in DOMAIN d
  <2> DEFINE h == File(<<Header>>, FALSE)
             none == <<>>
  <2>1. /\ sessionFile' = f /\ entries' = Load(d[f])
        /\ disk' = IF Valid(d[f]) THEN d ELSE PutFile(d, f, h)
    BY <1>2 DEF OpenIn
  <2>2. Load(disk'[f]) = Load(d[f])
    <3>1. CASE Valid(d[f])
      BY <2>1, <3>1
    <3>2. CASE ~Valid(d[f])
      <4>1. disk'[f] = h /\ Load(d[f]) = none
        BY <1>2, <2>1, <3>2 DEF PutFile, Load
      <4>2. h \in FileContents /\ h.lines = <<Header>>
        <5>1. PICK l : l = <<Header>>
          OBVIOUS
        <5>2. l \in Seq(Lines)
          BY <5>1, MarksAreNoEntries
        <5>3. File(l, FALSE) \in FileContents /\ File(l, FALSE).lines = l
          BY <5>2 DEF File, FileContents
        <5> QED BY <5>1, <5>3
      <4>3. none \in Seq(SessionEntry) /\ <<Header>> \o none = <<Header>>
        OBVIOUS
      <4> HIDE DEF h, none
      <4>4. Load(h) = none
        BY <4>2, <4>3, FreshLoadIs
      <4> QED BY <4>1, <4>4
    <3> QED BY <3>1, <3>2
  <2>3. Load(d[f]) \in Seq(SessionEntry)
    BY <1>2, LoadFacts
  <2>4. none \in Seq(Range(entries')) /\ none \o entries' = entries'
    BY <2>1, <2>3
  <2>5. Load(disk'[sessionFile']) = none \o entries'
    BY <2>1, <2>2, <2>4
  <2> HIDE DEF none
  <2> QED BY <2>4, <2>5 DEF TailIsMemory
<1> QED BY <1>1, <1>2

LEMMA AppendTail ==
    ASSUME StoreInv, TailIsMemory, CanIssue, NEW e \in SessionEntry, AppendEntry(e)
    PROVE  TailIsMemory'
<1>1. PICK new : new = Persisted(e)
  OBVIOUS
<1>2. PICK old : old = Content(sessionFile)
  OBVIOUS
<1>3. PICK more : more = Append(entries, e)
  OBVIOUS
<1>4. PICK a : a = Added(old, new)
  OBVIOUS
<1>5. /\ running /\ sessionFile' = sessionFile /\ entries' = more
      /\ flushed' = HasAssistant(more)
      /\ disk' = IF new = <<>> THEN disk ELSE PutFile(disk, sessionFile, a)
      /\ new = IF ~HasAssistant(more) THEN <<>>
               ELSE IF flushed THEN <<e>> ELSE <<Header>> \o more
  BY <1>1, <1>2, <1>3, <1>4 DEF CanIssue, AppendEntry, Persist, Persisted
<1>6. /\ entries \in Seq(SessionEntry) /\ new \in Seq(Lines) /\ more \in Seq(SessionEntry)
      /\ Range(more) = Range(entries) \cup {e}
      /\ old \in FileContents
  <2>1. old \in FileContents
    BY <1>2, NoLinesFacts DEF Content, StoreInv, StoreTypeOK
  <2> QED BY <1>1, <1>3, <2>1, PersistedFacts DEF StoreInv, StoreTypeOK
<1>7. SUFFICES ASSUME HasAssistant(more), ~Damaged(disk'[sessionFile])
               PROVE  \E p \in Seq(Range(more)) : Load(disk'[sessionFile]) = p \o more
  BY <1>5 DEF TailIsMemory
<1>8. new # <<>> /\ disk'[sessionFile] = a
  <2>1. new # <<>>
    <3>1. CASE flushed
      BY <1>5, <1>7, <3>1
    <3>2. CASE ~flushed
      <4>1. PICK h : h = <<Header>>
        OBVIOUS
      <4>2. h \in Seq(Lines) /\ h # <<>> /\ more \in Seq(Lines)
        BY <1>6, <4>1, MarksAreNoEntries DEF Lines
      <4>3. h \o more # <<>>
        BY <4>2
      <4> QED BY <1>5, <1>7, <3>2, <4>1, <4>3
    <3> QED BY <3>1, <3>2
  <2> QED BY <1>5, <2>1 DEF PutFile
<1>9. ~Damaged(old)
  BY <1>4, <1>6, <1>7, <1>8, AddedDamaged
<1>10. sessionFile \in DOMAIN disk =>
         old = disk[sessionFile] /\ Valid(old) /\ Range(Load(old)) \subseteq Range(entries)
  BY <1>2, <1>5, <1>9 DEF StoreInv, FileFollows, Content
<1>11. CASE flushed
  <2>1. sessionFile \in DOMAIN disk
    BY <1>5, <1>11 DEF StoreInv, FileFollows
  <2>2. PICK p \in Seq(Range(entries)) : Load(old) = p \o entries
    BY <1>5, <1>9, <1>10, <1>11, <2>1 DEF TailIsMemory
  <2>3. Load(a) = Load(old) \o Stripped(new)
    BY <1>4, <1>6, <1>8, <1>9, <1>10, <2>1, AddedLoadIs
  <2>4. Stripped(new) = <<e>>
    <3>1. PICK l : l = <<e>>
      OBVIOUS
    <3>2. l \in Seq(SessionEntry) /\ new = l
      BY <1>5, <1>7, <1>11, <3>1
    <3> QED BY <3>1, <3>2, StrippedFacts
  <2>5. p \in Seq(SessionEntry) /\ p \in Seq(Range(more))
    <3>1. Range(entries) \subseteq SessionEntry
      BY <1>6, KnownFacts
    <3> QED BY <1>6, <2>2, <3>1
  <2>6. (p \o entries) \o <<e>> = p \o Append(entries, e)
    <3>1. PICK q : q = entries
      OBVIOUS
    <3>2. q \in Seq(SessionEntry) /\ p \in Seq(SessionEntry) /\ e \in SessionEntry
      BY <1>6, <2>5, <3>1
    <3>3. p \o Append(q, e) = Append(p \o q, e)
      BY <3>2, ConcatAppend
    <3>4. PICK r : r = p \o q
      OBVIOUS
    <3>5. r \in Seq(SessionEntry)
      BY <3>2, <3>4
    <3>6. r \o <<e>> = Append(r, e)
      BY <3>2, <3>5
    <3> QED BY <3>1, <3>3, <3>4, <3>6
  <2> QED BY <1>3, <1>8, <2>2, <2>3, <2>4, <2>5, <2>6
<1>12. CASE ~flushed
  <2>1. PICK h : h = <<Header>>
    OBVIOUS
  <2>2. new = h \o more /\ h \in Seq(Lines) /\ more \in Seq(Lines)
    BY <1>5, <1>6, <1>7, <1>12, <2>1, MarksAreNoEntries DEF Lines
  <2>3. Stripped(new) = more
    <3>1. Stripped(h \o more) = Stripped(h) \o Stripped(more)
      BY <2>2, StrippedFacts
    <3>2. Stripped(h) = <<>> /\ Stripped(more) = more
      BY <1>6, <2>1, StrippedFacts
    <3>3. <<>> \o more = more
      BY <1>6
    <3> QED BY <2>2, <3>1, <3>2, <3>3
  <2>4. CASE sessionFile \in DOMAIN disk
    <3>1. Load(a) = Load(old) \o more
      BY <1>4, <1>6, <1>8, <1>9, <1>10, <2>3, <2>4, AddedLoadIs
    <3>2. Load(old) \in Seq(SessionEntry) /\ Range(Load(old)) \subseteq Range(more)
      BY <1>6, <1>10, <2>4, LoadFacts
    <3>3. Load(old) \in Seq(Range(more))
      <4>1. PICK l \in Seq(SessionEntry) : l = Load(old)
        BY <3>2
      <4>2. l \in Seq(Range(l))
        BY <4>1 DEF Range
      <4>3. Range(l) \subseteq Range(more)
        BY <3>2, <4>1
      <4>4. l \in Seq(Range(more))
        BY <4>2, <4>3
      <4> QED BY <4>1, <4>4
    <3> QED BY <1>8, <3>1, <3>3
  <2>5. CASE sessionFile \notin DOMAIN disk
    <3>1. a \in FileContents /\ a.lines = old.lines \o new
      BY <1>4, <1>6, <1>8, <1>9, AddedFacts DEF Damaged
    <3>2. old.lines = <<>> /\ <<>> \o new = new
      BY <1>2, <1>6, <2>5, NoLinesFacts DEF Content
    <3>3. a.lines = <<Header>> \o more
      BY <2>1, <2>2, <3>1, <3>2
    <3>4. Load(a) = more
      BY <1>6, <3>1, <3>3, FreshLoadIs
    <3>5. <<>> \in Seq(Range(more)) /\ <<>> \o more = more
      BY <1>6
    <3> QED BY <1>8, <3>4, <3>5
  <2> QED BY <2>4, <2>5
<1> QED BY <1>11, <1>12

LEMMA TailInvariance == StoreSpec => []TailIsMemory
<1>1. StoreInit => TailIsMemory
  BY DEF StoreInit, TailIsMemory
<1>2. StoreInv /\ TailIsMemory /\ [StoreNext]_storeVars => TailIsMemory'
  <2> SUFFICES ASSUME StoreInv, TailIsMemory, [StoreNext]_storeVars PROVE TailIsMemory'
    OBVIOUS
  <2>0. /\ named \in Nat /\ issued \in Nat /\ DOMAIN disk \subseteq 1..named
        /\ \A g \in DOMAIN disk : disk[g] \in FileContents
    BY StoreAssumption DEF StoreInv, StoreTypeOK
  <2>1. CASE AddMessage \/ AddLabel \/ BranchWithSummary
    <3>1. PICK e \in MessageEntry \cup LabelEntry \cup SummaryEntry : AppendEntry(e)
      BY <2>1 DEF AddMessage, AddLabel, BranchWithSummary
    <3>2. CanIssue
      BY <2>1 DEF AddMessage, AddLabel, BranchWithSummary
    <3> QED BY <3>1, <3>2, EntriesMade, AppendTail
  <2>2. CASE (\E i \in Ids : MoveLeaf(i)) \/ ResetLeaf \/ UNCHANGED storeVars
    <3>1. UNCHANGED <<disk, running, sessionFile, entries, flushed>>
      BY <2>2 DEF MoveLeaf, ResetLeaf, storeVars
    <3> QED BY <3>1 DEF TailIsMemory
  <2>3. CASE \E i \in Ids : Fork(i)
    <3>1. PICK i \in Ids : Fork(i)
      BY <2>3
    <3>2. PICK copy : copy = Branched(Load(disk[sessionFile]), i)
      OBVIOUS
    <3>3. PICK d : d = IF ForkWrites(copy) = <<>> THEN disk
                       ELSE PutFile(disk, named + 1, File(ForkWrites(copy), FALSE))
      OBVIOUS
    <3>4. /\ OpenIn(d, named + 1) /\ sessionFile \in DOMAIN disk
          /\ issued + Cardinality(Labelled(Load(disk[sessionFile]))) <= MaxIds
      BY <3>1, <3>2, <3>3 DEF Fork, CanFork
    <3>5. PICK n \in Nat : copy \in Seq(SessionEntry) /\ Rooted(Range(copy), issued + n)
      BY <3>2, <3>4, CopyFacts, SourceFacts
    <3>6. PICK w : w = File(ForkWrites(copy), FALSE)
      OBVIOUS
    <3>7. w \in FileContents
      <4>1. issued + n \in Nat
        BY <2>0, <3>5
      <4> QED BY <3>5, <3>6, <4>1, WritesFacts
    <3>8. \A h \in DOMAIN d : d[h] \in FileContents
      BY <2>0, <3>3, <3>6, <3>7 DEF PutFile
    <3> QED BY <3>4, <3>8, OpenTail
  <2>4. CASE NewSession \/ StartAgain
    BY <2>4 DEF NewSession, StartAgain, Start, Blank, TailIsMemory
  <2>5. CASE \E f \in Files : Open(f)
    <3>1. PICK f \in Files : OpenIn(disk, f)
      BY <2>5 DEF Open
    <3> QED BY <2>0, <3>1, OpenTail
  <2>6. CASE CrashIdle \/ CrashAppending \/ CrashForking
    BY <2>6 DEF CrashIdle, CrashAppending, CrashForking, Down, TailIsMemory
  <2> QED BY <2>1, <2>2, <2>3, <2>4, <2>5, <2>6 DEF StoreNext
<1> QED BY <1>1, <1>2, StoreInvariance, PTL DEF StoreSpec

\* A fork carries its branch, and the labels that are set on it, whatever was written
\* twice, labelled or branched before.
THEOREM ForkCarries == StoreSpec => ForkCarriesEntries
<1>1. StoreInv /\ TailIsMemory /\ [StoreNext]_storeVars => [Carried]_storeVars
  <2> SUFFICES ASSUME StoreInv, TailIsMemory, NEW i \in Ids, Fork(i),
                      HasAssistant(Branch(entries, i)), ~Damaged(disk[sessionFile])
               PROVE  /\ Unlabelled(entries') = Unlabelled(Branch(entries, i))
                      /\ Labelled(entries') =
                           Labelled(entries) \cap Known(Unlabelled(entries'))
    BY DEF Carried
  <2>1. PICK source : source = Load(disk[sessionFile])
    OBVIOUS
  <2>2. PICK copy : copy = Branched(source, i)
    OBVIOUS
  <2>3. PICK d : d = IF ForkWrites(copy) = <<>> THEN disk
                     ELSE PutFile(disk, named + 1, File(ForkWrites(copy), FALSE))
    OBVIOUS
  <2>4. /\ OpenIn(d, named + 1) /\ sessionFile \in DOMAIN disk /\ running
        /\ issued + Cardinality(Labelled(source)) <= MaxIds
    BY <2>1, <2>2, <2>3 DEF Fork, CanFork
  <2>5. source \in Seq(SessionEntry) /\ Rooted(Range(source), issued)
    BY <2>1, <2>4, SourceFacts
  <2>6. /\ entries \in Seq(SessionEntry) /\ issued \in Nat /\ MaxIds \in Nat /\ issued <= MaxIds
        /\ Rooted(Range(entries), issued)
    BY StoreAssumption DEF StoreInv, StoreTypeOK, AllRooted
  <2>7. Rooted(Range(entries), MaxIds)
    BY <2>6, RootedLater
  \* the branch in memory
  <2>8. i \in Known(entries) /\ Branch(entries, i) \in Seq(Range(entries))
    <3>1. Range(<<>>) = {}
      BY DEF Range
    <3>2. i \in Known(entries)
      BY <3>1 DEF Branch, HasAssistant
    <3> QED BY <2>6, <2>7, <3>2, BranchType
  <2>9. HasAssistant(entries)
    <3>1. Range(Branch(entries, i)) \subseteq Range(entries)
      <4>1. PICK b \in Seq(Range(entries)) : b = Branch(entries, i)
        BY <2>8
      <4> QED BY <4>1 DEF Range
    <3> QED BY <3>1 DEF HasAssistant
  <2>10. PICK p \in Seq(Range(entries)) : source = p \o entries
    BY <2>1, <2>4, <2>9 DEF StoreInv, FileFollows, TailIsMemory
  \* is the branch in the file
  <2>11. p \in Seq(SessionEntry) /\ Range(p) \subseteq Range(entries)
    <3>1. Range(entries) \subseteq SessionEntry
      BY <2>6, KnownFacts
    <3> QED BY <2>10, <3>1 DEF Range
  <2>12. /\ Range(source) = Range(entries) /\ Known(source) = Known(entries)
         /\ \A j \in Known(entries) : Lookup(source, j) = Lookup(entries, j)
         /\ Labelled(source) = Labelled(entries)
    BY <2>6, <2>10, <2>11, SameAfter
  <2>13. Branch(source, i) = Branch(entries, i)
    BY <2>5, <2>6, <2>7, <2>8, <2>12, BranchSame
  <2>14. PICK path : path = Unlabelled(Branch(entries, i))
    OBVIOUS
  <2>15. /\ copy \in Seq(SessionEntry) /\ Unlabelled(copy) = path
         /\ Labelled(copy) = Labelled(entries) \cap Known(path)
    BY <2>2, <2>4, <2>5, <2>12, <2>13, <2>14, CopyFacts, CopyLabels
  <2>16. PICK n \in Nat : Rooted(Range(copy), n)
    <3>1. PICK n \in Nat : issued + n \in 0..MaxIds /\ Rooted(Range(copy), issued + n)
      BY <2>2, <2>4, <2>5, CopyFacts
    <3>2. issued + n \in Nat
      BY <2>6, <3>1
    <3> QED BY <3>1, <3>2
  \* and has an answer, so that the copy is written and read back
  <2>17. HasAssistant(copy)
    <3>1. PICK b \in Seq(Range(entries)) : b = Branch(entries, i)
      BY <2>8
    <3>2. PICK x \in Range(b) : x.kind = "assistant"
      BY <3>1 DEF HasAssistant
    <3>3. PICK drop : drop = {y \in Range(b) : y.kind = "label"}
      OBVIOUS
    <3>4. path = Without(b, drop) /\ x \notin drop
      BY <2>14, <3>1, <3>2, <3>3 DEF Unlabelled
    <3>5. x \in Range(path)
      BY <3>1, <3>2, <3>4, WithoutRange
    <3>6. PICK gone : gone = {y \in Range(copy) : y.kind = "label"}
      OBVIOUS
    <3>7. path = Without(copy, gone)
      BY <2>15, <3>6 DEF Unlabelled
    <3>8. Range(path) \subseteq Range(copy)
      BY <2>15, <3>7, WithoutRange
    <3> QED BY <3>2, <3>5, <3>8 DEF HasAssistant
  <2>18. PICK w : w = File(ForkWrites(copy), FALSE)
    OBVIOUS
  <2>19. /\ ForkWrites(copy) # <<>> /\ w \in FileContents /\ w.lines = <<Header>> \o copy
    <3>1. PICK h : h = <<Header>>
      OBVIOUS
    <3>2. h \in Seq(Lines) /\ h # <<>> /\ copy \in Seq(Lines)
      BY <2>15, <3>1, MarksAreNoEntries DEF Lines
    <3>3. ForkWrites(copy) = h \o copy /\ h \o copy # <<>>
      BY <2>17, <3>1, <3>2 DEF ForkWrites
    <3> QED BY <2>15, <2>16, <2>18, <3>3, WritesFacts
  <2>20. Valid(w) /\ Load(w) = copy
    BY <2>15, <2>19, FreshLoad, FreshLoadIs
  <2>21. d = PutFile(disk, named + 1, w)
    BY <2>3, <2>18, <2>19
  <2>22. named + 1 \in DOMAIN d /\ d[named + 1] = w
    BY <2>21 DEF PutFile
  <2>23. entries' = copy
    BY <2>4, <2>20, <2>22 DEF OpenIn
  <2> QED BY <2>14, <2>15, <2>23
<1> QED BY <1>1, StoreInvariance, TailInvariance, PTL DEF StoreSpec, ForkCarriesEntries

-----------------------------------------------------------------------------
(* Settings.                                                                 *)

Steps == {"idle", "lockToLoad", "lockToFlush", "lockToCreate",
          "breakToLoad", "breakToFlush", "breakToCreate", "load", "flush", "write", "writing",
          "written", "release", "dead"}
SettingsTypeOK ==
    /\ file \in Contents \cup {Missing, HalfWritten} /\ lock \in Procs \cup {Nobody}
    /\ loaded \in [Procs -> Contents] /\ modified \in [Procs -> SUBSET Settings]
    /\ at \in [Procs -> Steps] /\ current \in [Procs -> Contents \cup {Missing}]
    /\ saved \in Contents /\ spoiled \subseteq Settings
    /\ createdTwice \in BOOLEAN /\ usurped \in BOOLEAN /\ seized \in BOOLEAN

(* Who is in with_lock has the lock file, until one is unlinked that its    *)
(* maker still needs: else only a dead process's is taken for stale, and    *)
(* who releases it has made it.                                             *)
Holding == {"load", "flush", "write", "writing", "written", "release"}
HoldInv == ~seized => \A p \in Procs : at[p] \in Holding => lock = p

(* A file that was there when with_lock looked for it is there ever after,  *)
(* and what a flush starts from are settings.                               *)
ThereInv == \A p \in Procs :
    /\ at[p] \in {"lockToLoad", "lockToFlush", "breakToLoad", "breakToFlush", "load", "flush"} =>
          file # Missing
    /\ at[p] \in {"lockToFlush", "lockToCreate", "breakToFlush", "breakToCreate",
                  "flush", "write", "writing"} => current[p] \in Contents
    /\ at[p] \in {"lockToCreate", "breakToCreate"} => current[p] = AllDefault

(* A file is empty only while it is being written.                          *)
TornInv == file = HalfWritten => usurped \/ \E p \in Procs : at[p] = "writing"

(* What a process is about to write carries what the others saved.          *)
Carries(settings) == \A s \in Settings \ spoiled : settings[s] = saved[s]
CarriedInv ==
    /\ file = Missing => saved = AllDefault
    /\ ~usurped /\ ~createdTwice /\ ~seized =>
          /\ Readable => Carries(file)
          /\ \A p \in Procs : at[p] \in {"write", "writing"} => Carries(current[p])

SettingsInv == SettingsTypeOK /\ HoldInv /\ ThereInv /\ TornInv /\ CarriedInv

-----------------------------------------------------------------------------
LEMMA DefaultsAreContents == AllDefault \in Contents
BY DEF AllDefault, Contents

\* The invariant holds at first.
LEMMA SettingsInvInit == SettingsInit => SettingsInv
<1>. SUFFICES ASSUME SettingsInit PROVE SettingsInv
  OBVIOUS
<1>1. SettingsTypeOK
  BY DefaultsAreContents DEF SettingsInit, SettingsTypeOK, Steps
<1>2. HoldInv /\ ThereInv
  BY DEF SettingsInit, HoldInv, ThereInv, Holding
<1>3. TornInv
  BY SettingsAssumption, DefaultsAreContents DEF SettingsInit, TornInv
<1>4. file # Missing => file = AllDefault
  BY DEF SettingsInit
<1>5. CarriedInv
  BY <1>4 DEF SettingsInit, CarriedInv, Carries, Readable
<1>. QED BY <1>1, <1>2, <1>3, <1>5 DEF SettingsInv

\* What is merged are settings.
LEMMA MergedIsContents ==
    ASSUME SettingsTypeOK, NEW p \in Procs, current[p] \in Contents
    PROVE  Merged(p) \in Contents
BY DEF SettingsTypeOK, Merged, Contents

LEMMA SettingsTypes ==
    ASSUME SettingsTypeOK, ThereInv, [SettingsNext]_settingsVars
    PROVE  SettingsTypeOK'
<1>1. CASE UNCHANGED settingsVars
  BY <1>1 DEF settingsVars, historyVars, countVars, SettingsTypeOK
<1>. SUFFICES ASSUME NEW p \in Procs,
                     \/ \E s \in Settings, v \in Values : Change(p, s, v)
                     \/ BeginLoad(p) \/ BeginFlush(p) \/ Acquire(p)
                     \/ FindStale(p) \/ BreakStale(p) \/ GiveUp(p) \/ ReadToLoad(p)
                     \/ ReadToFlush(p) \/ Truncate(p) \/ WriteText(p) \/ Release(p) \/ Crash(p)
     PROVE  SettingsTypeOK'
  BY <1>1 DEF SettingsNext
<1>. USE DEF historyVars, countVars, SettingsTypeOK, Goes
<1>2. ASSUME NEW s \in Settings, NEW v \in Values, Change(p, s, v) PROVE SettingsTypeOK'
  <2>1. [loaded[p] EXCEPT ![s] = v] \in Contents
    BY DEF Contents
  <2>2. loaded' = [loaded EXCEPT ![p] = [loaded[p] EXCEPT ![s] = v]]
    BY <1>2 DEF Change
  <2>. QED BY <1>2, <2>1, <2>2 DEF Change
<1>3. CASE BeginLoad(p)
  BY <1>3, DefaultsAreContents DEF BeginLoad, Steps
<1>4. CASE BeginFlush(p)
  BY <1>4, DefaultsAreContents DEF BeginFlush, Steps
<1>5. CASE Acquire(p)
  <2>1. PICK to \in {"load", "flush", "write"} : at' = [at EXCEPT ![p] = to]
    BY <1>5 DEF Acquire, Waits
  <2>. QED BY <1>5, <2>1 DEF Acquire, Steps
<1>6. CASE GiveUp(p) \/ Truncate(p) \/ Release(p) \/ Crash(p)
  BY <1>6 DEF GiveUp, Truncate, Release, Crash, Steps
<1>10. CASE FindStale(p)
  <2>1. PICK to \in {"breakToLoad", "breakToFlush", "breakToCreate"} : at' = [at EXCEPT ![p] = to]
    BY <1>10 DEF FindStale, Waits
  <2>. QED BY <1>10, <2>1 DEF FindStale, Steps
<1>11. CASE BreakStale(p)
  <2>1. PICK to \in {"lockToLoad", "lockToFlush", "lockToCreate", "idle"} :
           at' = [at EXCEPT ![p] = to]
    BY <1>11 DEF BreakStale, Breaks
  <2>. QED BY <1>11, <2>1 DEF BreakStale, Steps
<1>7. CASE ReadToLoad(p)
  <2>1. file \in Contents \cup {HalfWritten}
    BY <1>7 DEF ReadToLoad, ThereInv
  <2>. QED BY <1>7, <2>1, DefaultsAreContents DEF ReadToLoad, Steps
<1>8. CASE ReadToFlush(p)
  <2>1. file \in Contents \cup {HalfWritten}
    BY <1>8 DEF ReadToFlush, ThereInv
  <2>. QED BY <1>8, <2>1, DefaultsAreContents DEF ReadToFlush, Steps
<1>9. CASE WriteText(p)
  <2>1. Merged(p) \in Contents
    BY <1>9, MergedIsContents DEF WriteText, ThereInv
  <2>2. [s \in Settings |-> IF s \in modified[p] THEN loaded[p][s] ELSE saved[s]] \in Contents
    BY DEF Contents
  <2>. QED BY <1>9, <2>1, <2>2 DEF WriteText, Steps
<1>. QED BY <1>2, <1>3, <1>4, <1>5, <1>6, <1>7, <1>8, <1>9, <1>10, <1>11

\* The lock excludes, files do not go, and what is flushed starts from settings.
LEMMA SettingsHolds ==
    ASSUME SettingsTypeOK, HoldInv, ThereInv, [SettingsNext]_settingsVars
    PROVE  HoldInv' /\ ThereInv'
<1>1. CASE UNCHANGED settingsVars
  BY <1>1 DEF settingsVars, HoldInv, ThereInv
<1>. SUFFICES ASSUME NEW p \in Procs,
                     \/ \E s \in Settings, v \in Values : Change(p, s, v)
                     \/ BeginLoad(p) \/ BeginFlush(p) \/ Acquire(p)
                     \/ FindStale(p) \/ BreakStale(p) \/ GiveUp(p) \/ ReadToLoad(p)
                     \/ ReadToFlush(p) \/ Truncate(p) \/ WriteText(p) \/ Release(p) \/ Crash(p)
     PROVE  HoldInv' /\ ThereInv'
  BY <1>1 DEF SettingsNext
<1>. USE DEF Goes
<1>2. ASSUME NEW s \in Settings, NEW v \in Values, Change(p, s, v) PROVE HoldInv' /\ ThereInv'
  BY <1>2 DEF Change, HoldInv, ThereInv
<1>3. CASE BeginLoad(p)
  BY <1>3 DEF BeginLoad, SettingsTypeOK, HoldInv, ThereInv, Holding
<1>4. CASE BeginFlush(p)
  BY <1>4, DefaultsAreContents DEF BeginFlush, SettingsTypeOK, HoldInv, ThereInv, Holding
<1>5. CASE Acquire(p)
  <2>1. PICK to \in {"load", "flush", "write"} :
           /\ at' = [at EXCEPT ![p] = to]
           /\ to = "load" => at[p] = "lockToLoad"
           /\ to = "flush" => at[p] = "lockToFlush"
           /\ to = "write" => at[p] = "lockToCreate"
    BY <1>5 DEF Acquire, Waits
  <2>2. /\ at'[p] = to /\ \A q \in Procs : q # p => at'[q] = at[q]
        /\ lock' = p /\ UNCHANGED <<file, current, seized>>
    BY <1>5, <2>1 DEF Acquire, SettingsTypeOK
  <2>3. ~seized => \A q \in Procs : at[q] \notin Holding
    BY <1>5, SettingsAssumption DEF Acquire, HoldInv
  <2>4. HoldInv'
    BY <2>2, <2>3 DEF HoldInv
  <2>5. ThereInv'
    BY <2>1, <2>2 DEF ThereInv
  <2>. QED BY <2>4, <2>5
<1>6. CASE FindStale(p)
  <2>1. PICK to \in {"breakToLoad", "breakToFlush", "breakToCreate"} :
           /\ at' = [at EXCEPT ![p] = to]
           /\ to = "breakToLoad" => at[p] = "lockToLoad"
           /\ to = "breakToFlush" => at[p] = "lockToFlush"
           /\ to = "breakToCreate" => at[p] = "lockToCreate"
    BY <1>6 DEF FindStale, Waits
  <2>2. /\ at'[p] = to /\ \A q \in Procs : q # p => at'[q] = at[q]
        /\ UNCHANGED <<file, lock, current, seized>>
    BY <1>6, <2>1 DEF FindStale, SettingsTypeOK
  <2>3. HoldInv'
    BY <2>2 DEF HoldInv, Holding
  <2>4. ThereInv'
    BY <2>1, <2>2 DEF ThereInv
  <2>. QED BY <2>3, <2>4
<1>13. CASE BreakStale(p)
  <2>1. PICK to \in {"lockToLoad", "lockToFlush", "lockToCreate", "idle"} :
           /\ at' = [at EXCEPT ![p] = to]
           /\ to = "lockToLoad" => at[p] = "breakToLoad"
           /\ to = "lockToFlush" => at[p] = "breakToFlush"
           /\ to = "lockToCreate" => at[p] = "breakToCreate"
    BY <1>13 DEF BreakStale, Breaks
  <2>2. /\ at'[p] = to /\ \A q \in Procs : q # p => at'[q] = at[q]
        /\ UNCHANGED <<file, current>>
    BY <1>13, <2>1 DEF BreakStale, SettingsTypeOK
  <2>3. ~seized' => ~seized /\ (lock = Nobody \/ at[lock] = "dead")
    BY <1>13 DEF BreakStale, SettingsTypeOK
  <2>4. ~seized' => \A q \in Procs : at[q] \notin Holding
    BY <2>3, SettingsAssumption DEF HoldInv, Holding
  <2>5. HoldInv'
    BY <2>2, <2>4 DEF HoldInv, Holding
  <2>6. ThereInv'
    BY <2>1, <2>2 DEF ThereInv
  <2>. QED BY <2>5, <2>6
<1>7. CASE GiveUp(p) \/ Crash(p)
  BY <1>7 DEF GiveUp, Crash, SettingsTypeOK, HoldInv, ThereInv, Holding
<1>8. CASE ReadToLoad(p)
  BY <1>8 DEF ReadToLoad, SettingsTypeOK, HoldInv, ThereInv, Holding
<1>9. CASE ReadToFlush(p)
  <2>1. file \in Contents \cup {HalfWritten}
    BY <1>9 DEF ReadToFlush, SettingsTypeOK, ThereInv
  <2>. QED BY <1>9, <2>1, DefaultsAreContents
           DEF ReadToFlush, SettingsTypeOK, HoldInv, ThereInv, Holding
<1>10. CASE Truncate(p)
  BY <1>10, SettingsAssumption DEF Truncate, SettingsTypeOK, HoldInv, ThereInv, Holding
<1>11. CASE WriteText(p)
  <2>1. Merged(p) # Missing
    BY <1>11, MergedIsContents, SettingsAssumption DEF WriteText, ThereInv
  <2>. QED BY <1>11, <2>1 DEF WriteText, SettingsTypeOK, HoldInv, ThereInv, Holding
<1>12. CASE Release(p)
  <2>1. /\ at'[p] = "idle" /\ \A q \in Procs : q # p => at'[q] = at[q]
        /\ UNCHANGED <<file, current, seized>> /\ (~seized => lock = p)
    BY <1>12 DEF Release, SettingsTypeOK, HoldInv, Holding
  <2>2. ~seized => \A q \in Procs : q # p => at[q] \notin Holding
    BY <2>1 DEF HoldInv
  <2>. QED BY <2>1, <2>2 DEF HoldInv, ThereInv, Holding
<1>. QED BY <1>2, <1>3, <1>4, <1>5, <1>6, <1>7, <1>8, <1>9, <1>10, <1>11, <1>12,
             <1>13

\* A file that is empty is being written, or its writer is dead.
LEMMA SettingsTorn ==
    ASSUME SettingsTypeOK, ThereInv, TornInv, [SettingsNext]_settingsVars
    PROVE  TornInv'
<1>1. CASE UNCHANGED settingsVars
  BY <1>1 DEF settingsVars, TornInv
<1>. SUFFICES ASSUME NEW p \in Procs,
                     \/ \E s \in Settings, v \in Values : Change(p, s, v)
                     \/ BeginLoad(p) \/ BeginFlush(p) \/ Acquire(p)
                     \/ FindStale(p) \/ BreakStale(p) \/ GiveUp(p) \/ ReadToLoad(p)
                     \/ ReadToFlush(p) \/ Truncate(p) \/ WriteText(p) \/ Release(p) \/ Crash(p)
     PROVE  TornInv'
  BY <1>1 DEF SettingsNext
<1>2. CASE Truncate(p)
  BY <1>2 DEF Truncate, Goes, SettingsTypeOK, TornInv
<1>3. CASE WriteText(p)
  <2>1. file' # HalfWritten
    BY <1>3, MergedIsContents, SettingsAssumption DEF WriteText, ThereInv
  <2>. QED BY <2>1 DEF TornInv
<1>4. CASE Crash(p)
  <2>1. /\ \A q \in Procs : q # p => at'[q] = at[q]
        /\ file' = file /\ usurped' = (usurped \/ at[p] = "writing")
    BY <1>4 DEF Crash, Goes, SettingsTypeOK
  <2>. QED BY <2>1 DEF TornInv
<1>5. CASE \/ \E s \in Settings, v \in Values : Change(p, s, v)
           \/ BeginLoad(p) \/ BeginFlush(p) \/ Acquire(p) \/ FindStale(p) \/ BreakStale(p)
           \/ GiveUp(p) \/ ReadToLoad(p) \/ ReadToFlush(p) \/ Release(p)
  <2>1. /\ file' = file /\ usurped' = usurped
        /\ at[p] # "writing" \/ at' = at
        /\ \A q \in Procs : q # p => at'[q] = at[q]
    BY <1>5 DEF Change, BeginLoad, BeginFlush, Acquire, Waits, FindStale, BreakStale, Breaks,
                GiveUp, ReadToLoad, ReadToFlush, Release, Goes, SettingsTypeOK
  <2>. QED BY <2>1 DEF TornInv
<1>. QED BY <1>2, <1>3, <1>4, <1>5

\* What is in the file, or about to be, carries what was saved.
LEMMA SettingsCarried ==
    ASSUME SettingsInv, [SettingsNext]_settingsVars
    PROVE  CarriedInv'
<1>. USE DEF SettingsInv
<1>0. AllDefault \in Contents
  BY DefaultsAreContents
<1>1. CASE UNCHANGED settingsVars
  BY <1>1 DEF settingsVars, historyVars, CarriedInv, Carries, Readable
<1>. SUFFICES ASSUME NEW p \in Procs,
                     \/ \E s \in Settings, v \in Values : Change(p, s, v)
                     \/ BeginLoad(p) \/ BeginFlush(p) \/ Acquire(p)
                     \/ FindStale(p) \/ BreakStale(p) \/ GiveUp(p) \/ ReadToLoad(p)
                     \/ ReadToFlush(p) \/ Truncate(p) \/ WriteText(p) \/ Release(p) \/ Crash(p)
     PROVE  CarriedInv'
  BY <1>1 DEF SettingsNext
<1>8. CASE FindStale(p)
  <2>1. UNCHANGED <<file, saved, spoiled, createdTwice, usurped, seized, current>>
    BY <1>8 DEF FindStale, historyVars
  <2>2. \E to \in {"breakToLoad", "breakToFlush", "breakToCreate"} : at' = [at EXCEPT ![p] = to]
    BY <1>8 DEF FindStale, Waits, Goes
  <2>3. \A q \in Procs : at'[q] \in {"write", "writing"} => at[q] \in {"write", "writing"}
    BY <2>2 DEF SettingsTypeOK
  <2>. QED BY <2>1, <2>3 DEF CarriedInv, Carries, Readable
<1>2. CASE \/ \E s \in Settings, v \in Values : Change(p, s, v)
           \/ BeginLoad(p) \/ BeginFlush(p) \/ GiveUp(p)
           \/ ReadToLoad(p) \/ Release(p) \/ Crash(p)
  <2>1. /\ UNCHANGED <<file, saved, spoiled, createdTwice, seized>> /\ (usurped => usurped')
        /\ \A q \in Procs : at'[q] \in {"write", "writing"} =>
              at[q] \in {"write", "writing"} /\ current'[q] = current[q]
    BY <1>2 DEF Change, BeginLoad, BeginFlush, GiveUp, ReadToLoad, Release, Crash,
                Goes, SettingsTypeOK, historyVars
  <2>. QED BY <2>1 DEF CarriedInv, Carries, Readable
<1>7. CASE BreakStale(p)
  <2>1. /\ UNCHANGED <<file, saved, spoiled, createdTwice, usurped, current>>
        /\ (seized => seized')
    BY <1>7 DEF BreakStale, historyVars
  <2>2. \E to \in {"lockToLoad", "lockToFlush", "lockToCreate", "idle"} :
           at' = [at EXCEPT ![p] = to]
    BY <1>7 DEF BreakStale, Breaks, Goes
  <2>3. \A q \in Procs : at'[q] \in {"write", "writing"} => at[q] \in {"write", "writing"}
    BY <2>2 DEF SettingsTypeOK
  <2>. QED BY <2>1, <2>3 DEF CarriedInv, Carries, Readable
<1>3. CASE Acquire(p)
  <2>1. /\ UNCHANGED <<file, saved, spoiled, usurped, seized, current>>
        /\ \A q \in Procs : q # p => at'[q] = at[q]
        /\ at'[p] = "write" \/ at'[p] \notin {"write", "writing"}
        /\ at'[p] = "write" => at[p] = "lockToCreate"
        /\ createdTwice' = (createdTwice \/ (at[p] = "lockToCreate" /\ file # Missing))
    BY <1>3 DEF Acquire, Waits, Goes, SettingsTypeOK
  <2>2. at'[p] = "write" /\ ~createdTwice' => Carries(current[p])
    BY <2>1 DEF ThereInv, CarriedInv, Carries
  <2>. QED BY <2>1, <2>2 DEF CarriedInv, Carries, Readable
<1>4. CASE ReadToFlush(p)
  <2>1. /\ UNCHANGED <<file, saved, spoiled, usurped, seized, createdTwice>>
        /\ at[p] = "flush" /\ file # Missing
        /\ \A q \in Procs : q # p => at'[q] = at[q] /\ current'[q] = current[q]
        /\ file # HalfWritten => current'[p] = file
    BY <1>4 DEF ReadToFlush, ThereInv, Goes, SettingsTypeOK, historyVars
  <2>2. ~seized => (file = HalfWritten => usurped)
    BY <2>1 DEF TornInv, HoldInv, Holding
  <2>3. ~usurped /\ ~createdTwice /\ ~seized => Carries(current'[p])
    BY <2>1, <2>2 DEF CarriedInv, Carries, Readable
  <2>. QED BY <2>1, <2>3 DEF CarriedInv, Carries, Readable
<1>5. CASE Truncate(p)
  <2>1. /\ UNCHANGED <<saved, spoiled, usurped, seized, createdTwice, current>>
        /\ file' = HalfWritten
        /\ \A q \in Procs : at'[q] \in {"write", "writing"} => at[q] \in {"write", "writing"}
    BY <1>5 DEF Truncate, Goes, SettingsTypeOK, historyVars
  <2>. QED BY <2>1, SettingsAssumption DEF CarriedInv, Carries, Readable
<1>6. CASE WriteText(p)
  <2>1. /\ at[p] = "writing" /\ file' = Merged(p)
        /\ UNCHANGED <<usurped, seized, createdTwice, current>>
        /\ saved' = [s \in Settings |-> IF s \in modified[p] THEN loaded[p][s] ELSE saved[s]]
        /\ spoiled' = {s \in Settings \ modified[p] : s \in spoiled \/ Written(p, s)}
        /\ at'[p] = "written" /\ \A q \in Procs : q # p => at'[q] = at[q]
        /\ modified[p] \subseteq Settings
    BY <1>6 DEF WriteText, Goes, SettingsTypeOK
  <2>2. ~seized => \A q \in Procs : at'[q] \notin {"write", "writing"}
    BY <2>1 DEF HoldInv, Holding
  <2>3. file' # Missing
    BY <2>1, MergedIsContents, SettingsAssumption DEF ThereInv
  <2>4. ASSUME ~usurped, ~createdTwice, ~seized, NEW s \in Settings \ spoiled'
        PROVE  file'[s] = saved'[s]
    <3>1. file'[s] = IF Written(p, s) THEN loaded[p][s] ELSE current[p][s]
      BY <2>1 DEF Merged
    <3>2. CASE s \in modified[p]
      BY <2>1, <3>1, <3>2 DEF Written
    <3>3. CASE s \notin modified[p]
      <4>1. s \notin spoiled /\ ~Written(p, s)
        BY <2>1, <2>4, <3>3
      <4>2. current[p][s] = saved[s]
        BY <2>1, <2>4, <4>1 DEF CarriedInv, Carries
      <4>. QED BY <2>1, <3>1, <3>3, <4>1, <4>2
    <3>. QED BY <3>2, <3>3
  <2>. QED BY <2>1, <2>2, <2>3, <2>4 DEF CarriedInv, Carries
<1>. QED BY <1>2, <1>3, <1>4, <1>5, <1>6, <1>7, <1>8

\* The inductive invariant: the lock excludes, whoever dies, until a lock file is unlinked
\* that its maker still needs, and till then what a process is about to write carries what
\* the others saved.
THEOREM SettingsInvariance == SettingsSpec => []SettingsInv
<1>1. SettingsInv /\ [SettingsNext]_settingsVars => SettingsInv'
  BY SettingsTypes, SettingsHolds, SettingsTorn, SettingsCarried DEF SettingsInv
<1>. QED BY <1>1, SettingsInvInit, PTL DEF SettingsSpec

\* A setting that was saved stays saved, and nobody reads a file half written, whatever
\* other processes load, change and save, with the exceptions of SavedStays.
THEOREM SettingsStaySaved == SettingsSpec => []SavedStays
<1>1. SettingsInv => SavedStays
  <2>. SUFFICES ASSUME SettingsInv PROVE SavedStays
    OBVIOUS
  <2>1. ~seized => NobodyReadsTorn
    BY DEF SettingsInv, TornInv, HoldInv, Holding, NobodyReadsTorn
  <2>. QED BY <2>1 DEF SettingsInv, CarriedInv, Carries, SavedStays
<1>. QED BY <1>1, SettingsInvariance, PTL
=============================================================================
