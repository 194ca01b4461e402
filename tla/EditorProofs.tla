---------------------------- MODULE EditorProofs ----------------------------
(***************************************************************************)
(* The editor: what is edited can be undone, what is killed comes back as  *)
(* it was, and the cursor keeps its place in the text, out of the markers  *)
(* of pastes, and its column on the way up and down, for any texts,        *)
(* history and kill ring and any widths of the terminal, and whatever the  *)
(* bounds are.                                                             *)
(***************************************************************************)
EXTENDS Editor, ScreenProofs

-----------------------------------------------------------------------------
(* Three parts of a sequence.                                                *)
LEMMA TwoParts ==
    ASSUME NEW S, NEW a \in Seq(S), NEW b \in Seq(S)
    PROVE  /\ SubSeq(a \o b, 1, Len(a)) = a
           /\ SubSeq(a \o b, Len(a) + 1, Len(a \o b)) = b
<1> DEFINE t == a \o b
           K == Len(a)
           M == Len(b)
<1>1. /\ K \in Nat /\ M \in Nat /\ t \in Seq(S) /\ Len(t) = K + M
      /\ \A i \in 1..K : t[i] = a[i]
      /\ \A i \in 1..M : t[K + i] = b[i]
  BY TwoPlaces
<1>2. K \in 0..Len(t)
  <2> HIDE DEF K, M, t
  <2> QED BY <1>1
<1>3. /\ After(t, K) \in Seq(S) /\ Len(After(t, K)) = Len(t) - K
      /\ \A i \in 1..(Len(t) - K) : After(t, K)[i] = t[K + i]
      /\ SubSeq(t, 1, K) \in Seq(S) /\ Len(SubSeq(t, 1, K)) = K
      /\ \A i \in 1..K : SubSeq(t, 1, K)[i] = t[i]
  BY <1>1, <1>2, AfterFacts
<1>4. SubSeq(t, 1, K) = a
  <2> HIDE DEF t
  <2>1. \A i \in 1..Len(a) : SubSeq(t, 1, K)[i] = a[i]
    BY <1>1, <1>3
  <2> QED BY <1>3, <2>1, SeqEqual
<1>5. After(t, K) = b
  <2>1. Len(t) - K = M
    <3> HIDE DEF t, K, M
    <3> QED BY <1>1
  <2>2. Len(After(t, K)) = Len(b) /\ \A i \in 1..Len(b) : After(t, K)[i] = b[i]
    BY <1>1, <1>3, <2>1
  <2> HIDE DEF t, K, M
  <2> QED BY <1>3, <2>2, SeqEqual
<1> QED BY <1>4, <1>5 DEF After

LEMMA ThreeParts ==
    ASSUME NEW S, NEW a \in Seq(S), NEW b \in Seq(S), NEW c \in Seq(S),
           NEW t, t = (a \o b) \o c
    PROVE  /\ t \in Seq(S) /\ Len(t) = Len(a) + Len(b) + Len(c)
           /\ SubSeq(t, 1, Len(a)) = a
           /\ SubSeq(t, Len(a) + 1, Len(a) + Len(b)) = b
           /\ SubSeq(t, Len(a) + Len(b) + 1, Len(t)) = c
           /\ SubSeq(t, 1, Len(a) + Len(b)) = a \o b
           /\ SubSeq(t, Len(a) + 1, Len(t)) = b \o c
<1>1. PICK K \in Nat, M \in Nat, N \in Nat : K = Len(a) /\ M = Len(b) /\ N = Len(c)
  OBVIOUS
<1>2. PICK ab \in Seq(S), bc \in Seq(S) : ab = a \o b /\ bc = b \o c
  BY TwoPlaces
<1>3. Len(ab) = K + M
  BY <1>1, <1>2, TwoPlaces
<1>4. t = ab \o c
  BY <1>2
<1>5. t = a \o bc
  <2>1. a \o (b \o c) = (a \o b) \o c
    BY ConcatAssoc, SMTT(30)
  <2>2. t = a \o (b \o c)
    BY <2>1, Zenon
  <2> QED BY <1>2, <2>2, Zenon
<1>6. t \in Seq(S) /\ Len(t) = Len(ab) + Len(c) /\ \A i \in 1..Len(ab) : t[i] = ab[i]
  <2>1. /\ ab \o c \in Seq(S) /\ Len(ab \o c) = Len(ab) + Len(c)
        /\ \A i \in 1..Len(ab) : (ab \o c)[i] = ab[i]
    BY TwoPlaces
  <2> QED BY <1>4, <2>1
<1>7. SubSeq(t, 1, K) = a /\ SubSeq(t, K + 1, Len(t)) = bc
  <2>1. SubSeq(a \o bc, 1, Len(a)) = a /\ SubSeq(a \o bc, Len(a) + 1, Len(a \o bc)) = bc
    BY TwoParts
  <2> QED BY <1>1, <1>5, <2>1
<1>8. SubSeq(t, 1, K + M) = ab /\ SubSeq(t, K + M + 1, Len(t)) = c
  <2>1. SubSeq(ab \o c, 1, Len(ab)) = ab /\ SubSeq(ab \o c, Len(ab) + 1, Len(ab \o c)) = c
    BY TwoParts
  <2> QED BY <1>3, <1>4, <2>1
<1>9. SubSeq(t, K + 1, K + M) = b
  <2>1. CASE M = 0
    <3>1. b = <<>>
      BY <1>1, <2>1, EmptySeq
    <3>2. K + M < K + 1 /\ K + 1 \in Int /\ K + M \in Int
      BY <2>1
    <3> QED BY <3>1, <3>2, SubSeqEmpty
  <2>2. CASE M # 0
    <3>0. K + 1 \in 1..Len(ab) /\ K + M \in 1..Len(ab)
      BY <1>3, <2>2
    <3>1. PICK m \in 1..Len(ab), n \in 1..Len(ab) : m = K + 1 /\ n = K + M
      BY <3>0, Zenon
    <3>2. SubSeq(ab \o c, m, n) = SubSeq(ab, m, n)
      BY SubSeqOfConcat1
    <3>3. SubSeq(a \o b, Len(a) + 1, Len(a \o b)) = b
      BY TwoParts
    <3> QED BY <1>1, <1>2, <1>3, <1>4, <3>1, <3>2, <3>3
  <2> QED BY <2>1, <2>2
<1> QED BY <1>1, <1>2, <1>3, <1>6, <1>7, <1>8, <1>9

LEMMA ThreeSubs ==
    ASSUME NEW S, NEW a \in Seq(S), NEW b \in Seq(S), NEW c \in Seq(S)
    PROVE  /\ (a \o b) \o c \in Seq(S) /\ Len((a \o b) \o c) = Len(a) + Len(b) + Len(c)
           /\ SubSeq((a \o b) \o c, 1, Len(a)) = a
           /\ SubSeq((a \o b) \o c, Len(a) + 1, Len(a) + Len(b)) = b
           /\ SubSeq((a \o b) \o c, Len(a) + Len(b) + 1, Len((a \o b) \o c)) = c
<1>1. PICK t : t = (a \o b) \o c
  OBVIOUS
<1> QED BY <1>1, ThreeParts

\* A sequence is its parts before, between and after two places.
LEMMA PartsOf ==
    ASSUME NEW S, NEW s \in Seq(S), NEW i \in 0..Len(s), NEW j \in i..Len(s)
    PROVE  /\ SubSeq(s, 1, i) \in Seq(S) /\ Len(SubSeq(s, 1, i)) = i
           /\ SubSeq(s, i + 1, j) \in Seq(S) /\ i + Len(SubSeq(s, i + 1, j)) = j
           /\ SubSeq(s, j + 1, Len(s)) \in Seq(S)
           /\ s = (SubSeq(s, 1, i) \o SubSeq(s, i + 1, j)) \o SubSeq(s, j + 1, Len(s))
<1>1. PICK p \in Seq(S), c \in Seq(S) : /\ p = SubSeq(s, 1, j) /\ c = After(s, j)
                                        /\ Len(p) = j /\ p \o c = s
  <2>1. j \in 0..Len(s)
    OBVIOUS
  <2>2. /\ SubSeq(s, 1, j) \in Seq(S) /\ After(s, j) \in Seq(S)
        /\ Len(SubSeq(s, 1, j)) = j /\ SubSeq(s, 1, j) \o After(s, j) = s
    BY <2>1, AfterFacts
  <2> QED BY <2>2, Zenon
<1>2. PICK a \in Seq(S), b \in Seq(S) : /\ a = SubSeq(p, 1, i) /\ b = After(p, i)
                                        /\ Len(a) = i /\ Len(b) = j - i /\ a \o b = p
  <2>1. i \in 0..Len(p)
    <3>1. Len(s) \in Nat
      OBVIOUS
    <3> QED BY <1>1, <3>1
  <2>2. /\ SubSeq(p, 1, i) \in Seq(S) /\ After(p, i) \in Seq(S)
        /\ Len(SubSeq(p, 1, i)) = i /\ SubSeq(p, 1, i) \o After(p, i) = p
        /\ Len(After(p, i)) = Len(p) - i
    BY <2>1, AfterFacts
  <2> QED BY <1>1, <2>2, Zenon
<1>3. s = (a \o b) \o c
  BY <1>1, <1>2
<1>4. /\ SubSeq(s, 1, Len(a)) = a /\ SubSeq(s, Len(a) + 1, Len(a) + Len(b)) = b
  <2>1. /\ SubSeq((a \o b) \o c, 1, Len(a)) = a
        /\ SubSeq((a \o b) \o c, Len(a) + 1, Len(a) + Len(b)) = b
    BY ThreeSubs
  <2> QED BY <1>3, <2>1
<1>5. Len(a) + Len(b) = j
  BY <1>2
<1>6. SubSeq(s, 1, i) = a /\ SubSeq(s, i + 1, j) = b
  BY <1>2, <1>4, <1>5
<1>7. SubSeq(s, j + 1, Len(s)) = c
  BY <1>1 DEF After
<1> QED BY <1>1, <1>2, <1>3, <1>5, <1>6, <1>7
(* Places in the text.                                                       *)
LEMMA MinOf ==
    ASSUME NEW S \in SUBSET Nat, S # {}
    PROVE  Min(S) \in S /\ \A y \in S : Min(S) <= y
  BY LeastOf DEF Min

LEMMA MaxOf ==
    ASSUME NEW n \in Nat, NEW S \in SUBSET (0..n), S # {}
    PROVE  Max(S) \in S /\ \A y \in S : y <= Max(S)
<1> DEFINE T == {m \in Nat : n - m \in S}
<1>1. T \in SUBSET Nat /\ T # {}
  <2>1. PICK z \in S : TRUE
    OBVIOUS
  <2>2. n - z \in Nat /\ n - (n - z) = z
    BY <2>1
  <2>3. n - z \in T
    BY <2>1, <2>2
  <2> QED BY <2>3
<1>2. PICK m \in T : \A y \in T : m <= y
  <2> HIDE DEF T
  <2> QED BY <1>1, LeastOf
<1>3. n - m \in S
  OBVIOUS
<1>4. ASSUME NEW y \in S PROVE y <= n - m
  <2>1. y \in 0..n /\ n - y \in Nat /\ n - (n - y) = y
    OBVIOUS
  <2>2. n - y \in T
    BY <2>1
  <2>3. m <= n - y /\ m \in Nat
    BY <1>2, <2>2
  <2> QED BY <2>1, <2>3
<1> QED BY <1>3, <1>4 DEF Max

LEMMA LineFacts ==
    ASSUME draft \in Texts, NEW c \in 0..Len(draft)
    PROVE  LineAt(c) \in 0..c /\ LineTo(c) \in c..Len(draft)
<1>1. PICK L \in Nat : L = Len(draft)
  BY DEF Texts
<1>2. LineStarts \subseteq 0..L /\ 0 \in LineStarts
  BY <1>1 DEF LineStarts, Texts
<1>3. LineAt(c) \in 0..c
  <2> DEFINE S == {l \in LineStarts : l <= c}
  <2>1. c \in Nat /\ 0 <= c
    BY <1>1
  <2>2. 0 \in S
    BY <1>2, <2>1
  <2>3. S \subseteq 0..c
    <3>1. ASSUME NEW l \in LineStarts, l <= c PROVE l \in 0..c
      <4>1. l \in 0..L
        BY <1>2
      <4> QED BY <2>1, <3>1, <4>1
    <3> QED BY <3>1
  <2>4. Max(S) \in S
    <3> HIDE DEF S
    <3> QED BY <2>1, <2>2, <2>3, MaxOf
  <2>5. Max(S) \in 0..c
    <3> HIDE DEF S
    <3> QED BY <2>3, <2>4
  <2> QED BY <2>5 DEF LineAt
<1>4. LineTo(c) \in c..Len(draft)
  <2> DEFINE S == {Len(draft)} \cup {l - 1 : l \in {k \in LineStarts : k > c}}
  <2>1. S \subseteq c..L
    BY <1>1, <1>2
  <2>2. S \in SUBSET Nat /\ S # {}
    <3>1. c..L \subseteq Nat
      OBVIOUS
    <3>2. Len(draft) \in S
      OBVIOUS
    <3> HIDE DEF S
    <3> QED BY <2>1, <3>1, <3>2
  <2>3. Min(S) \in S
    <3> HIDE DEF S
    <3> QED BY <2>2, MinOf
  <2>4. Min(S) \in c..L
    <3> HIDE DEF S
    <3> QED BY <2>1, <2>3
  <2> QED BY <1>1, <2>4 DEF LineTo
<1> QED BY <1>3, <1>4

LEMMA MarkerInside ==
    ASSUME draft \in Texts, NEW i, MarkerAt(i)
    PROVE  i \in 1..Len(draft) /\ i + 1 \in 1..Len(draft)
  BY DEF MarkerAt, Texts

LEMMA SegmentIn ==
    ASSUME draft \in Texts, cursor \in 0..Len(draft)
    PROVE  /\ cursor > 0 => Back \in 1..cursor
           /\ cursor < Len(draft) => Ahead \in 1..(Len(draft) - cursor)
<1>1. PICK L \in Nat : L = Len(draft)
  BY DEF Texts
<1>2. MarkerAt(cursor - 1) => cursor - 1 \in 1..L
  BY <1>1, MarkerInside
<1>3. MarkerAt(cursor + 1) => (cursor + 1) + 1 \in 1..L
  BY <1>1, MarkerInside
<1> QED BY <1>1, <1>2, <1>3 DEF Back, Ahead

LEMMA WordBackIn ==
    ASSUME draft \in Texts, cursor \in 1..Len(draft)
    PROVE  WordBack \in 0..(cursor - 1)
<1>1. PICK L \in Nat : L = Len(draft)
  BY DEF Texts
<1>2. PICK l \in 0..cursor : l = LineStart
  <2>1. cursor \in 0..Len(draft)
    BY <1>1
  <2> QED BY <2>1, LineFacts DEF LineStart
<1> DEFINE S == {i \in l..cursor : \A j \in (i + 1)..cursor : draft[j] = Space}
<1>3. PICK stop \in l..cursor : stop = Min(S)
  <2>1. S \in SUBSET Nat
    BY <1>1
  <2>2. cursor \in S
    BY <1>1, <1>2
  <2>3. Min(S) \in S
    <3> HIDE DEF S
    <3> QED BY <2>1, <2>2, MinOf
  <2> QED BY <2>3
<1> HIDE DEF S
<1> DEFINE T == {i \in l..(stop - 1) : OneRun(i, stop)}
<1>4. WordBack = IF cursor = l THEN cursor - 1
                 ELSE IF stop = l THEN stop
                 ELSE IF MarkerAt(stop - 1) THEN stop - 2
                 ELSE Min(T)
  BY <1>2, <1>3 DEF WordBack, S
<1>5. MarkerAt(stop - 1) => stop - 1 \in 1..L
  BY <1>1, MarkerInside
<1>6. ASSUME stop # l, ~MarkerAt(stop - 1) PROVE Min(T) \in l..(stop - 1)
  <2>1. T \in SUBSET Nat
    BY <1>2
  <2>2. OneRun(stop - 1, stop)
    <3>1. /\ \A i, j \in ((stop - 1) + 1)..stop : i = j
          /\ \A i \in (stop - 1)..(stop - 1) : i = stop - 1
      BY <1>1, <1>2
    <3> QED BY <1>6, <3>1 DEF OneRun
  <2>3. stop - 1 \in l..(stop - 1)
    BY <1>1, <1>2, <1>6
  <2>4. stop - 1 \in T
    BY <2>2, <2>3
  <2>5. Min(T) \in T
    <3> HIDE DEF T
    <3> QED BY <2>1, <2>4, MinOf
  <2> QED BY <2>5
<1> HIDE DEF T
<1> QED BY <1>1, <1>2, <1>4, <1>5, <1>6

LEMMA WordAheadIn ==
    ASSUME draft \in Texts, cursor \in 0..Len(draft), cursor < Len(draft)
    PROVE  WordAhead \in cursor..Len(draft)
<1>1. PICK L \in Nat : L = Len(draft)
  BY DEF Texts
<1>2. PICK e \in cursor..L : e = LineEnd
  BY <1>1, LineFacts DEF LineEnd
<1> DEFINE S == {i \in cursor..e : \A j \in (cursor + 1)..i : draft[j] = Space}
<1>3. PICK stop \in cursor..e : stop = Max(S)
  <2>1. S \in SUBSET (0..L)
    BY <1>1, <1>2
  <2>2. cursor \in S
    BY <1>1, <1>2
  <2>3. Max(S) \in S
    <3> HIDE DEF S
    <3> QED BY <2>1, <2>2, MaxOf
  <2> QED BY <2>3
<1> HIDE DEF S
<1> DEFINE run(to) == /\ \A i \in (stop + 1)..to : Class(draft[i]) = Class(draft[stop + 1])
                      /\ \A i \in (stop + 1)..to : ~MarkerAt(i)
           T == {i \in (stop + 1)..e : run(i)}
<1>4. WordAhead = IF cursor = e THEN cursor + 1
                  ELSE IF stop = e THEN stop
                  ELSE IF MarkerAt(stop + 1) THEN stop + 2
                  ELSE Max(T)
  BY <1>2, <1>3 DEF WordAhead, S
<1>5. MarkerAt(stop + 1) => (stop + 1) + 1 \in 1..L
  BY <1>1, MarkerInside
<1>6. ASSUME stop # e, ~MarkerAt(stop + 1) PROVE Max(T) \in (stop + 1)..e
  <2>1. T \in SUBSET (0..L)
    BY <1>1, <1>2
  <2>2. run(stop + 1)
    <3>1. \A i \in (stop + 1)..(stop + 1) : i = stop + 1
      BY <1>1, <1>2
    <3> QED BY <1>6, <3>1
  <2>3. stop + 1 \in (stop + 1)..e
    BY <1>1, <1>2, <1>6
  <2>4. stop + 1 \in T
    BY <2>2, <2>3
  <2>5. Max(T) \in T
    <3> HIDE DEF T
    <3> QED BY <2>1, <2>4, MaxOf
  <2> QED BY <2>5
<1> HIDE DEF T
<1> QED BY <1>1, <1>2, <1>4, <1>5, <1>6

-----------------------------------------------------------------------------
(* Visual lines.                                                             *)
Wraps == {s \in [breaks : Seq(Int), width : Int, chance : Int, chanceWidth : Int] : s.breaks # <<>>}
Visual == [line : 0..Len(draft), start : Int, last : BOOLEAN, length : Int]

LEMMA SegmentType ==
    ASSUME width \in Nat, NEW s \in Wraps, NEW i \in Int, NEW end \in Int
    PROVE  Segment(s, i, end) \in Wraps
<1>1. /\ s.breaks \in Seq(Int) /\ s.breaks # <<>> /\ s.width \in Int /\ s.chance \in Int
      /\ s.chanceWidth \in Int
  BY DEF Wraps
<1>2. PICK g \in {1, 2} : g = IF MarkerAt(i + 1) THEN 2 ELSE 1
  OBVIOUS
<1> DEFINE over == s.width + g > width
           back == over /\ s.chance # NoColumn /\ s.width - s.chanceWidth + g <= width
           force == over /\ ~back /\ Last(s.breaks) < i
           used == g + (IF back THEN s.width - s.chanceWidth ELSE IF force THEN 0 ELSE s.width)
           next == i + g
           opens == draft[next] = Space /\ next < end /\ draft[next + 1] # Space
           breaks == IF back THEN Append(s.breaks, s.chance)
                     ELSE IF force THEN Append(s.breaks, i) ELSE s.breaks
           chance == IF opens THEN next ELSE IF over THEN NoColumn ELSE s.chance
           chanceWidth == IF opens THEN used ELSE s.chanceWidth
           w == [breaks |-> breaks, width |-> used, chance |-> chance,
                 chanceWidth |-> chanceWidth]
<1>3. breaks \in Seq(Int) /\ breaks # <<>>
  <2>1. Append(s.breaks, s.chance) \in Seq(Int) /\ Append(s.breaks, s.chance) # <<>>
    BY <1>1, AppendProperties
  <2>2. Append(s.breaks, i) \in Seq(Int) /\ Append(s.breaks, i) # <<>>
    BY <1>1, AppendProperties
  <2> HIDE DEF back, force
  <2> QED BY <1>1, <2>1, <2>2
<1>4. used \in Int /\ next \in Int
  <2>1. g \in Int
    BY <1>2
  <2>2. s.width - s.chanceWidth \in Int
    BY <1>1
  <2> HIDE DEF back, force
  <2>3. used \in Int
    BY <1>1, <2>1, <2>2
  <2> QED BY <2>1, <2>3
<1>5. chance \in Int /\ chanceWidth \in Int
  <2> HIDE DEF opens, over, used, next
  <2> QED BY <1>1, <1>4 DEF NoColumn
<1>6. w \in Wraps
  <2> HIDE DEF breaks, used, chance, chanceWidth
  <2> QED BY <1>3, <1>4, <1>5 DEF Wraps
<1>7. Wrap(s, i, g, end) = w
  BY DEF Wrap
<1> QED BY <1>2, <1>6, <1>7 DEF Segment

\* The breaks of a line are those of the last wrap of its segments.
LEMMA BreaksRun ==
    ASSUME draft \in Texts, width \in Nat, NEW l \in 0..Len(draft)
    PROVE  \E wrap :
              /\ \A n \in 0..(LineTo(l) - l) : wrap[n] \in Wraps
              /\ wrap[0] = Unbroken(l)
              /\ \A n \in 1..(LineTo(l) - l) :
                    wrap[n] = Segment(wrap[n - 1], l + n - 1, LineTo(l))
              /\ Breaks(l) = IF LineTo(l) - l <= width THEN <<l>>
                             ELSE wrap[LineTo(l) - l].breaks
<1>0. l \in Int /\ <<l>> \in Seq(Int) /\ <<l>> # <<>>
  OBVIOUS
<1>1. PICK end \in Int : end = LineTo(l) /\ end - l \in Nat
  <2>1. LineTo(l) \in l..Len(draft)
    BY LineFacts
  <2> QED BY <2>1
<1>2. PICK K \in Nat : K = end - l
  BY <1>1
<1> DEFINE step == [xn \in Wraps \X Nat |-> Segment(xn[1], l + xn[2] - 1, end)]
           wrap == CHOOSE wrap : wrap = [n \in 0..(end - l) |->
                      IF n = 0 THEN Unbroken(l) ELSE Segment(wrap[n - 1], l + n - 1, end)]
<1>3. Unbroken(l) \in Wraps
  <2>1. PICK b \in Seq(Int) : b = <<l>> /\ b # <<>>
    BY <1>0
  <2>2. [breaks |-> b, width |-> 0, chance |-> NoColumn, chanceWidth |-> 0] \in Wraps
    BY <2>1 DEF Wraps, NoColumn
  <2> QED BY <2>1, <2>2 DEF Unbroken
<1>4. step \in [Wraps \X Nat -> Wraps]
  <2>1. ASSUME NEW xn \in Wraps \X Nat PROVE Segment(xn[1], l + xn[2] - 1, end) \in Wraps
    <3>1. xn[1] \in Wraps /\ l + xn[2] - 1 \in Int
      OBVIOUS
    <3> QED BY <3>1, SegmentType
  <2> QED BY <2>1
<1>5. PICK f : IsRun(f, K, Wraps, Unbroken(l), step)
  <2> HIDE DEF step
  <2> QED BY <1>3, <1>4, RunExists
<1>6. ASSUME NEW n \in 1..K PROVE f[n] = Segment(f[n - 1], l + n - 1, end)
  <2>1. <<f[n - 1], n>> \in Wraps \X Nat
    <3>1. n - 1 \in 0..K /\ n \in Nat
      OBVIOUS
    <3> QED BY <1>5, <3>1 DEF IsRun
  <2>2. step[<<f[n - 1], n>>] = Segment(f[n - 1], l + n - 1, end)
    BY <2>1
  <2> HIDE DEF step
  <2> QED BY <1>5, <2>2 DEF IsRun
<1> HIDE DEF step
<1>7. f = [n \in 0..(end - l) |->
              IF n = 0 THEN Unbroken(l) ELSE Segment(f[n - 1], l + n - 1, end)]
  <2>1. f \in [0..K -> Wraps] /\ f[0] = Unbroken(l)
    BY <1>5 DEF IsRun
  <2>2. ASSUME NEW n \in 0..K
        PROVE  f[n] = IF n = 0 THEN Unbroken(l) ELSE Segment(f[n - 1], l + n - 1, end)
    <3>1. n # 0 => n \in 1..K
      OBVIOUS
    <3> QED BY <1>6, <2>1, <3>1
  <2> QED BY <1>2, <2>1, <2>2
<1>8. wrap = [n \in 0..(end - l) |->
                 IF n = 0 THEN Unbroken(l) ELSE Segment(wrap[n - 1], l + n - 1, end)]
  BY <1>7
<1> HIDE DEF wrap
<1>9. \A n \in 0..K : n \in {m \in 0..K : wrap[m] \in Wraps}
  <2> DEFINE T == {m \in 0..K : wrap[m] \in Wraps}
  <2>1. 0 \in T
    BY <1>2, <1>3, <1>8
  <2>2. ASSUME NEW n \in 0..(K - 1), n \in T PROVE n + 1 \in T
    <3>1. n + 1 \in 0..K /\ n + 1 # 0 /\ (n + 1) - 1 = n /\ l + (n + 1) - 1 \in Int
      OBVIOUS
    <3>2. wrap[n + 1] = Segment(wrap[n], l + (n + 1) - 1, end)
      BY <1>2, <1>8, <3>1
    <3>3. wrap[n] \in Wraps
      BY <2>2
    <3>4. wrap[n + 1] \in Wraps
      BY <3>1, <3>2, <3>3, SegmentType
    <3> QED BY <3>1, <3>4
  <2>3. \A n \in 0..K : n \in T
    <3> HIDE DEF T
    <3> QED BY <2>1, <2>2, UpTo
  <2> QED BY <2>3
<1>10. Breaks(l) = IF end - l <= width THEN <<l>> ELSE wrap[end - l].breaks
  BY <1>1 DEF Breaks, wrap
<1>11. \A n \in 0..K : wrap[n] \in Wraps
  BY <1>9
<1>12. wrap[0] = Unbroken(l)
  BY <1>2, <1>8
<1>13. ASSUME NEW n \in 1..K PROVE wrap[n] = Segment(wrap[n - 1], l + n - 1, end)
  <2>1. n \in 0..(end - l) /\ n # 0
    BY <1>2
  <2> QED BY <1>8, <2>1
<1> QED BY <1>1, <1>2, <1>10, <1>11, <1>12, <1>13

LEMMA BreaksType ==
    ASSUME draft \in Texts, width \in Nat, NEW l \in 0..Len(draft)
    PROVE  Breaks(l) \in Seq(Int) /\ Breaks(l) # <<>>
<1>1. PICK K \in Nat : K = LineTo(l) - l
  <2>1. LineTo(l) \in l..Len(draft)
    BY LineFacts
  <2> QED BY <2>1
<1>2. PICK wrap : /\ wrap[K] \in Wraps
                  /\ Breaks(l) = IF K <= width THEN <<l>> ELSE wrap[K].breaks
  BY <1>1, BreaksRun
<1>3. l \in Int /\ <<l>> \in Seq(Int) /\ <<l>> # <<>>
  OBVIOUS
<1> QED BY <1>2, <1>3 DEF Wraps

LEMMA WrappedType ==
    ASSUME draft \in Texts, width \in Nat, NEW l \in 0..Len(draft)
    PROVE  Wrapped(l) \in Seq(Visual) /\ Wrapped(l) # <<>>
<1>1. PICK b \in Seq(Int) : b = Breaks(l) /\ b # <<>>
  BY BreaksType
<1>2. PICK K \in Nat : K = Len(b) /\ DOMAIN b = 1..K /\ K # 0
  BY <1>1, EmptySeq
<1>3. PICK end \in Int : end = LineTo(l)
  <2>1. LineTo(l) \in l..Len(draft)
    BY LineFacts
  <2> QED BY <2>1
<1> DEFINE w == [n \in 1..K |->
                   [line |-> l, start |-> b[n], last |-> n = K,
                    length |-> (IF n = K THEN end ELSE b[n + 1]) - b[n]]]
<1>4. Wrapped(l) = w
  BY <1>1, <1>2, <1>3 DEF Wrapped
<1>5. ASSUME NEW n \in 1..K PROVE w[n] \in Visual
  <2>1. b[n] \in Int /\ (n # K => b[n + 1] \in Int)
    <3>1. n # K => n + 1 \in 1..K
      OBVIOUS
    <3> QED BY <1>2, <3>1, ElementOfSeq
  <2>2. (IF n = K THEN end ELSE b[n + 1]) - b[n] \in Int
    BY <2>1
  <2> QED BY <2>1, <2>2 DEF Visual
<1>6. w \in Seq(Visual) /\ Len(w) = K
  <2>1. w \in [1..K -> Visual]
    BY <1>5
  <2> HIDE DEF w
  <2> QED BY <2>1
<1>7. w # <<>>
  <2> HIDE DEF w
  <2> QED BY <1>2, <1>6, EmptySeq
<1> QED BY <1>4, <1>6, <1>7

\* The visual lines of the text are put together line by line.
VisualRun(lines) ==
    /\ \A n \in 0..Len(draft) : lines[n] \in Seq(Visual) /\ lines[n] # <<>>
    /\ lines[0] = Wrapped(0)
    /\ \A n \in 1..Len(draft) :
          lines[n] = lines[n - 1] \o (IF n \in LineStarts THEN Wrapped(n) ELSE <<>>)
    /\ VisualLines = lines[Len(draft)]
LEMMA VisualRuns ==
    ASSUME draft \in Texts, width \in Nat
    PROVE  \E lines : VisualRun(lines)
<1>1. PICK K \in Nat : K = Len(draft)
  BY DEF Texts
<1> DEFINE X == {s \in Seq(Visual) : s # <<>>}
           part(n) == IF n \in LineStarts THEN Wrapped(n) ELSE <<>>
           step == [xn \in X \X Nat |-> IF xn[2] \in 1..K THEN xn[1] \o part(xn[2]) ELSE xn[1]]
           lines == CHOOSE lines : lines = [n \in 0..Len(draft) |->
                       IF n = 0 THEN Wrapped(0) ELSE lines[n - 1] \o part(n)]
<1>2. Wrapped(0) \in X
  <2>1. 0 \in 0..Len(draft)
    BY <1>1
  <2> QED BY <2>1, WrappedType
<1>3. ASSUME NEW s \in X, NEW n \in 1..K PROVE s \o part(n) \in X
  <2>1. part(n) \in Seq(Visual)
    <3>1. n \in 0..Len(draft)
      BY <1>1
    <3>2. Wrapped(n) \in Seq(Visual)
      BY <3>1, WrappedType
    <3>3. <<>> \in Seq(Visual)
      BY EmptySeq
    <3> QED BY <3>2, <3>3
  <2> HIDE DEF part
  <2>2. s \o part(n) \in Seq(Visual)
    BY <2>1, ConcatProperties
  <2>3. s \o part(n) # <<>>
    <3>1. s \in Seq(Visual) /\ s # <<>>
      OBVIOUS
    <3> QED BY <2>1, <3>1, ConcatEqualIffEmpty, ConcatSimplifications
  <2> QED BY <2>2, <2>3
<1> HIDE DEF X, part
<1>4. step \in [X \X Nat -> X]
  <2>1. ASSUME NEW xn \in X \X Nat
        PROVE  (IF xn[2] \in 1..K THEN xn[1] \o part(xn[2]) ELSE xn[1]) \in X
    BY <1>3
  <2> QED BY <2>1
<1>5. PICK f : IsRun(f, K, X, Wrapped(0), step)
  <2> HIDE DEF step
  <2> QED BY <1>2, <1>4, RunExists
<1>6. ASSUME NEW n \in 1..K PROVE f[n] = f[n - 1] \o part(n)
  <2>1. <<f[n - 1], n>> \in X \X Nat
    <3>1. n - 1 \in 0..K /\ n \in Nat
      OBVIOUS
    <3> QED BY <1>5, <3>1 DEF IsRun
  <2>2. step[<<f[n - 1], n>>] = f[n - 1] \o part(n)
    BY <2>1
  <2> HIDE DEF step
  <2> QED BY <1>5, <2>2 DEF IsRun
<1> HIDE DEF step
<1>7. f = [n \in 0..Len(draft) |-> IF n = 0 THEN Wrapped(0) ELSE f[n - 1] \o part(n)]
  <2>1. f \in [0..K -> X] /\ f[0] = Wrapped(0)
    BY <1>5 DEF IsRun
  <2>2. ASSUME NEW n \in 0..K
        PROVE  f[n] = IF n = 0 THEN Wrapped(0) ELSE f[n - 1] \o part(n)
    <3>1. n # 0 => n \in 1..K
      OBVIOUS
    <3> QED BY <1>6, <2>1, <3>1
  <2> QED BY <1>1, <2>1, <2>2
<1>8. lines = [n \in 0..Len(draft) |->
                  IF n = 0 THEN Wrapped(0) ELSE lines[n - 1] \o part(n)]
  BY <1>7
<1> HIDE DEF lines
<1>9. \A n \in 0..K : n \in {m \in 0..K : lines[m] \in X}
  <2> DEFINE T == {m \in 0..K : lines[m] \in X}
  <2>1. 0 \in T
    BY <1>1, <1>2, <1>8
  <2>2. ASSUME NEW n \in 0..(K - 1), n \in T PROVE n + 1 \in T
    <3>1. n + 1 \in 0..K /\ n + 1 \in 1..K /\ n + 1 # 0 /\ (n + 1) - 1 = n
      OBVIOUS
    <3>2. lines[n + 1] = lines[n] \o part(n + 1)
      BY <1>1, <1>8, <3>1
    <3>3. lines[n] \in X
      BY <2>2
    <3>4. lines[n + 1] \in X
      BY <1>3, <3>1, <3>2, <3>3
    <3> QED BY <3>1, <3>4
  <2>3. \A n \in 0..K : n \in T
    <3> HIDE DEF T
    <3> QED BY <2>1, <2>2, UpTo
  <2> QED BY <2>3
<1>10. \A n \in 0..K : lines[n] \in Seq(Visual) /\ lines[n] # <<>>
  BY <1>9 DEF X
<1>11. VisualLines = lines[Len(draft)]
  BY DEF VisualLines, lines, part
<1>12. lines[0] = Wrapped(0)
  BY <1>1, <1>8
<1>13. ASSUME NEW n \in 1..K PROVE lines[n] = lines[n - 1] \o part(n)
  <2>1. n \in 0..Len(draft) /\ n # 0
    BY <1>1
  <2> QED BY <1>8, <2>1
<1>14. VisualRun(lines)
  BY <1>1, <1>10, <1>11, <1>12, <1>13 DEF VisualRun, part
<1> QED BY <1>14

LEMMA VisualType ==
    ASSUME draft \in Texts, width \in Nat
    PROVE  VisualLines \in Seq(Visual) /\ VisualLines # <<>>
<1>1. PICK lines : VisualRun(lines)
  BY VisualRuns
<1>2. Len(draft) \in 0..Len(draft)
  BY DEF Texts
<1> QED BY <1>1, <1>2 DEF VisualRun

\* The visual line of a place, and the place of a vertical move, are there.
LEMMA FindLineIn ==
    ASSUME NEW S, NEW lines \in Seq(S), lines # <<>>, NEW l, NEW col
    PROVE  FindLine(lines, l, col) \in DOMAIN lines
<1>1. PICK K \in Nat : K = Len(lines) /\ K # 0 /\ DOMAIN lines = 1..K
  BY EmptySeq
<1> DEFINE offset(n) == l + col - lines[n].start
           holds == {n \in DOMAIN lines :
                        /\ lines[n].line = l /\ offset(n) >= 0
                        /\ \/ offset(n) < lines[n].length
                           \/ lines[n].last /\ offset(n) = lines[n].length}
<1>2. FindLine(lines, l, col) = IF holds = {} THEN K ELSE Min(holds)
  BY <1>1 DEF FindLine
<1>3. holds \subseteq DOMAIN lines
  OBVIOUS
<1> HIDE DEF holds
<1>4. holds # {} => Min(holds) \in holds
  <2>1. holds \in SUBSET Nat
    BY <1>1, <1>3
  <2> QED BY <2>1, MinOf
<1>5. K \in 1..K
  BY <1>1
<1> QED BY <1>1, <1>2, <1>3, <1>4, <1>5

-----------------------------------------------------------------------------
(* The editor.                                                               *)
Snapshots == {s \in [text : Texts, cursor : Int] : s.cursor \in {Astray} \cup (0..Len(s.text))}
EditTypes ==
    /\ draft \in Texts /\ cursor \in {Astray} \cup (0..Len(draft)) /\ width \in Nat
    /\ preferred \in Int /\ snapped \in Int /\ pastes \in Seq(Nat) /\ serial \in Nat
    /\ ring \in Seq(Texts) /\ lastAction \in {"none", "word", "kill", "yank"} /\ before \in Texts
    /\ undoStack \in Seq(Snapshots) /\ history \in Seq(Texts) /\ browsing \in Nat

LEMMA CharTypes ==
    /\ \A kind \in Kinds : Char(kind) \in Chars /\ <<Char(kind)>> \in Texts
    /\ NL \in Chars /\ <<NL>> \in Texts /\ <<>> \in Texts /\ <<NL, NL>> \in Texts
    /\ Open \in Chars
    /\ \A id, n \in Nat : MarkerTail(id, n) \in Chars /\ Long(n) \in Chars
    /\ \A d \in Drafts : d \in Texts
<1>1. \A kind \in Kinds : Char(kind) \in Chars
  BY KindsAssumption DEF Char, Chars, TypedKinds
<1>2. NL \in Chars /\ Open \in Chars
  BY DEF NL, Open, Char, Chars, TypedKinds
<1>3. \A id, n \in Nat : MarkerTail(id, n) \in Chars /\ Long(n) \in Chars
  BY DEF MarkerTail, Long, Chars, TypedKinds
<1>4. \A c \in Chars : <<c>> \in Seq(Chars)
  OBVIOUS
<1>5. <<>> \in Seq(Chars) /\ <<NL, NL>> \in Seq(Chars)
  BY <1>2
<1> QED BY <1>1, <1>2, <1>3, <1>4, <1>5, TextsAssumption DEF Texts

LEMMA SplicedIs ==
    ASSUME draft \in Texts, NEW c \in 0..Len(draft), NEW more \in Texts
    PROVE  \E a, b \in Texts :
              /\ draft = a \o b /\ Len(a) = c /\ Spliced(c, more) = (a \o more) \o b
              /\ Len(draft) = Len(a) + Len(b)
              /\ Spliced(c, more) \in Texts /\ Len(Spliced(c, more)) = c + Len(more) + Len(b)
<1>1. draft \in Seq(Chars) /\ more \in Seq(Chars)
  BY DEF Texts
<1>2. PICK a \in Texts, b \in Texts : /\ a = SubSeq(draft, 1, c) /\ b = After(draft, c)
                                      /\ Len(a) = c /\ a \o b = draft
  <2>1. /\ SubSeq(draft, 1, c) \in Seq(Chars) /\ After(draft, c) \in Seq(Chars)
        /\ Len(SubSeq(draft, 1, c)) = c /\ SubSeq(draft, 1, c) \o After(draft, c) = draft
    BY <1>1, AfterFacts
  <2> QED BY <2>1, Zenon DEF Texts
<1>3. Spliced(c, more) = (a \o more) \o b
  BY <1>2 DEF Spliced, After
<1>4. a \in Seq(Chars) /\ b \in Seq(Chars)
  BY DEF Texts
<1>5. /\ (a \o more) \o b \in Seq(Chars)
      /\ Len((a \o more) \o b) = Len(a) + Len(more) + Len(b)
  BY <1>1, <1>4, ThreeSubs
<1>6. Len(draft) = Len(a) + Len(b)
  BY <1>2, <1>4, TwoPlaces
<1> QED BY <1>2, <1>3, <1>5, <1>6 DEF Texts

LEMMA WithoutIs ==
    ASSUME draft \in Texts, NEW from \in 0..Len(draft), NEW to \in from..Len(draft)
    PROVE  \E a, b, c \in Texts :
              /\ draft = (a \o b) \o c /\ Len(a) = from /\ Len(a) + Len(b) = to
              /\ Len(draft) = Len(a) + Len(b) + Len(c)
              /\ SubSeq(draft, from + 1, to) = b
              /\ Without(from, to) = a \o c /\ Without(from, to) \in Texts
              /\ Len(Without(from, to)) = Len(a) + Len(c)
<1>1. PICK s \in Seq(Chars) : s = draft
  BY DEF Texts
<1>2. PICK a \in Seq(Chars), b \in Seq(Chars), c \in Seq(Chars) :
          /\ a = SubSeq(s, 1, from) /\ b = SubSeq(s, from + 1, to)
          /\ c = SubSeq(s, to + 1, Len(s))
          /\ Len(a) = from /\ Len(a) + Len(b) = to /\ s = (a \o b) \o c
  <2>1. from \in 0..Len(s) /\ to \in from..Len(s)
    BY <1>1
  <2>2. /\ SubSeq(s, 1, from) \in Seq(Chars) /\ Len(SubSeq(s, 1, from)) = from
        /\ SubSeq(s, from + 1, to) \in Seq(Chars) /\ from + Len(SubSeq(s, from + 1, to)) = to
        /\ SubSeq(s, to + 1, Len(s)) \in Seq(Chars)
        /\ s = (SubSeq(s, 1, from) \o SubSeq(s, from + 1, to)) \o SubSeq(s, to + 1, Len(s))
    BY <2>1, PartsOf, ZenonT(40)
  <2> QED BY <2>2, Zenon
<1>3. Len(s) = Len(a) + Len(b) + Len(c)
  <2>1. Len((a \o b) \o c) = Len(a) + Len(b) + Len(c)
    BY ThreeSubs
  <2> QED BY <1>2, <2>1
<1>4. Without(from, to) = a \o c
  BY <1>1, <1>2 DEF Without
<1>5. a \o c \in Seq(Chars) /\ Len(a \o c) = Len(a) + Len(c)
  BY TwoPlaces
<1>6. SubSeq(draft, from + 1, to) = b
  BY <1>1, <1>2
<1> HIDE DEF Without
<1>7. a \in Texts /\ b \in Texts /\ c \in Texts /\ a \o c \in Texts
  BY <1>5 DEF Texts
<1>8. Len(draft) = Len(a) + Len(b) + Len(c) /\ draft = (a \o b) \o c
  BY <1>1, <1>2, <1>3
<1>9. /\ draft = (a \o b) \o c /\ Len(a) = from /\ Len(a) + Len(b) = to
      /\ Len(draft) = Len(a) + Len(b) + Len(c)
  BY <1>2, <1>8, Zenon
<1>10. /\ Without(from, to) = a \o c /\ Without(from, to) \in Texts
       /\ Len(Without(from, to)) = Len(a) + Len(c)
  BY <1>4, <1>5, <1>7, Zenon
<1> QED BY <1>6, <1>7, <1>9, <1>10, Zenon

LEMMA SplicedType ==
    ASSUME draft \in Texts, NEW c \in 0..Len(draft), NEW more \in Texts
    PROVE  Spliced(c, more) \in Texts /\ c + Len(more) \in 0..Len(Spliced(c, more))
<1>1. \E a, b \in Texts :
              /\ draft = a \o b /\ Len(a) = c /\ Spliced(c, more) = (a \o more) \o b
              /\ Len(draft) = Len(a) + Len(b)
              /\ Spliced(c, more) \in Texts /\ Len(Spliced(c, more)) = c + Len(more) + Len(b)
  BY SplicedIs, Zenon
<1>2. PICK b \in Texts :
          Spliced(c, more) \in Texts /\ Len(Spliced(c, more)) = c + Len(more) + Len(b)
  BY <1>1, Zenon
<1>3. Len(b) \in Nat /\ Len(more) \in Nat /\ c \in Nat
  BY DEF Texts
<1> QED BY <1>2, <1>3

LEMMA WithoutType ==
    ASSUME draft \in Texts, NEW from \in 0..Len(draft), NEW to \in from..Len(draft)
    PROVE  Without(from, to) \in Texts /\ from \in 0..Len(Without(from, to))
<1>1. \E a, b, c \in Texts :
              /\ draft = (a \o b) \o c /\ Len(a) = from /\ Len(a) + Len(b) = to
              /\ Len(draft) = Len(a) + Len(b) + Len(c)
              /\ SubSeq(draft, from + 1, to) = b
              /\ Without(from, to) = a \o c /\ Without(from, to) \in Texts
              /\ Len(Without(from, to)) = Len(a) + Len(c)
  BY WithoutIs, Zenon
<1>2. PICK c \in Texts :
          Without(from, to) \in Texts /\ Len(Without(from, to)) = from + Len(c)
  BY <1>1, Zenon
<1>3. Len(c) \in Nat /\ from \in Nat
  BY DEF Texts
<1> QED BY <1>2, <1>3

LEMMA HereIs ==
    ASSUME EditTypes
    PROVE  /\ Here \in Snapshots /\ Here.text = draft /\ Here.cursor = cursor
           /\ Append(undoStack, Here) \in Seq(Snapshots) /\ Append(undoStack, Here) # <<>>
           /\ Last(Append(undoStack, Here)) = Here
           /\ Here \in Range(Append(undoStack, Here))
<1>1. Here \in Snapshots /\ Here.text = draft /\ Here.cursor = cursor
  <2>1. cursor \in Int
    BY DEF EditTypes, Texts, Astray
  <2> QED BY <2>1 DEF EditTypes, Here, Snapshots
<1>2. undoStack \in Seq(Snapshots)
  BY DEF EditTypes
<1> DEFINE s == Append(undoStack, Here)
<1>3. /\ s \in Seq(Snapshots) /\ s # <<>> /\ Len(s) = Len(undoStack) + 1
      /\ s[Len(undoStack) + 1] = Here
  BY <1>1, <1>2, AppendProperties
<1>4. Len(undoStack) \in Nat /\ DOMAIN s = 1..Len(s)
  BY <1>2, <1>3
<1> HIDE DEF s
<1>5. Last(s) = Here
  BY <1>3 DEF Last
<1>6. Len(undoStack) + 1 \in DOMAIN s
  BY <1>3, <1>4
<1>7. Here \in Range(s)
  BY <1>3, <1>6 DEF Range
<1> QED BY <1>1, <1>3, <1>5, <1>7 DEF s

\* The last entry of the kill ring, and the one a pop would bring.
LEMMA EntryTypes ==
    ASSUME EditTypes, ring # <<>>
    PROVE  /\ Last(ring) \in Texts /\ Front(ring) \in Seq(Texts)
           /\ Len(ring) \in Nat \ {0}
           /\ Len(ring) > 1 => Front(ring) # <<>> /\ Last(Front(ring)) = ring[Len(ring) - 1]
<1>1. ring \in Seq(Texts)
  BY DEF EditTypes
<1>2. PICK K \in Nat : K = Len(ring) /\ K # 0
  BY <1>1, EmptySeq
<1>3. ring[K] \in Texts
  <2>1. K \in 1..Len(ring)
    BY <1>2
  <2> QED BY <1>1, <2>1, ElementOfSeq
<1>4. /\ Front(ring) = SubSeq(ring, 1, K - 1) /\ Last(ring) = ring[K]
  BY <1>2 DEF Front, Last
<1>5. PICK n \in 0..K : n = K - 1
  BY <1>2
<1>6. /\ SubSeq(ring, 1, n) \in Seq(Texts) /\ Len(SubSeq(ring, 1, n)) = n
      /\ \A i \in 1..n : SubSeq(ring, 1, n)[i] = ring[i]
  BY <1>1, <1>2, AfterFacts
<1>7. ASSUME K > 1 PROVE Front(ring) # <<>> /\ Last(Front(ring)) = ring[K - 1]
  <2>1. n \in 1..n /\ n # 0
    BY <1>5, <1>7
  <2>2. Front(ring) # <<>>
    BY <1>4, <1>5, <1>6, <2>1, EmptySeq
  <2>3. Last(Front(ring)) = Front(ring)[n]
    BY <1>4, <1>5, <1>6 DEF Last
  <2> QED BY <1>4, <1>5, <1>6, <2>1, <2>2, <2>3
<1> QED BY <1>2, <1>3, <1>4, <1>5, <1>6, <1>7

-----------------------------------------------------------------------------
(* What an insertion and a deletion leave of the types.                      *)
LEMMA Snapped ==
    ASSUME EditTypes, Snapshot
    PROVE  undoStack' \in Seq(Snapshots)
  BY HereIs DEF Snapshot

LEMMA InsertType ==
    ASSUME EditTypes, cursor # Astray, NEW more \in Texts,
           draft' = Spliced(cursor, more), cursor' = cursor + Len(more)
    PROVE  draft' \in Texts /\ cursor' \in 0..Len(draft')
<1>1. PICK c \in 0..Len(draft) : c = cursor
  BY DEF EditTypes
<1>2. draft \in Texts
  BY DEF EditTypes
<1>3. Spliced(c, more) \in Texts /\ c + Len(more) \in 0..Len(Spliced(c, more))
  BY <1>2, SplicedType
<1> HIDE DEF Spliced
<1> QED BY <1>1, <1>3

LEMMA CutType ==
    ASSUME EditTypes, NEW from \in 0..Len(draft), NEW to \in from..Len(draft),
           draft' = Without(from, to)
    PROVE  draft' \in Texts /\ from \in 0..Len(draft')
<1>1. draft \in Texts
  BY DEF EditTypes
<1>2. Without(from, to) \in Texts /\ from \in 0..Len(Without(from, to))
  BY <1>1, WithoutType
<1> QED BY <1>2

\* What an edit leaves of the types when the text, the cursor and the kill ring have theirs.
LEMMA EditedTypes ==
    ASSUME EditTypes, draft' \in Texts, cursor' \in {Astray} \cup (0..Len(draft')),
           undoStack' \in Seq(Snapshots), UNCHANGED <<width, history>>,
           preferred' \in {NoColumn, preferred}, snapped' \in {NoColumn, snapped},
           browsing' \in {0, browsing}, pastes' \in Seq(Nat), serial' \in Nat,
           \/ Forgets
           \/ /\ ring' \in Seq(Texts) /\ before' \in Texts
              /\ lastAction' \in {"none", "word", "kill", "yank"}
    PROVE  EditTypes'
<1>1. preferred' \in Int /\ snapped' \in Int /\ browsing' \in Nat
  BY DEF EditTypes, NoColumn
<1>2. width' \in Nat /\ history' \in Seq(Texts)
  BY DEF EditTypes
<1>3. ring' \in Seq(Texts) /\ before' \in Texts /\ lastAction' \in {"none", "word", "kill", "yank"}
  BY DEF EditTypes, Forgets
<1> QED BY <1>1, <1>2, <1>3 DEF EditTypes

LEMMA MarkersKept ==
    ASSUME EditTypes, UNCHANGED markerVars
    PROVE  pastes' \in Seq(Nat) /\ serial' \in Nat
  BY DEF EditTypes, markerVars

LEMMA PlaceColumns ==
    ASSUME NEW c, Place(c)
    PROVE  cursor' = c /\ preferred' \in {NoColumn, preferred} /\ snapped' \in {NoColumn, snapped}
  BY DEF Place

LEMMA StayColumns ==
    ASSUME Stay
    PROVE  /\ cursor' = cursor
           /\ preferred' \in {NoColumn, preferred} /\ snapped' \in {NoColumn, snapped}
  BY DEF Stay

LEMMA EditKeeps ==
    ASSUME NEW n, Edit(n)
    PROVE  /\ cursor # Astray /\ UNCHANGED <<width, history>>
           /\ browsing' \in {0, browsing} /\ browsing' = 0
  BY DEF Edit

LEMMA TypeTypes ==
    ASSUME EditTypes, NEW c \in Chars, Type(c)
    PROVE  EditTypes'
<1>1. /\ draft' = Spliced(cursor, <<c>>) /\ Edit(1) /\ Place(cursor + 1)
      /\ UNCHANGED undoStack \/ Snapshot
      /\ lastAction' = "word" /\ UNCHANGED markerVars /\ UNCHANGED <<ring, before>>
  BY DEF Type
<1>2. <<c>> \in Texts /\ Len(<<c>>) = 1
  BY DEF Texts
<1>3. draft' \in Texts /\ cursor' \in 0..Len(draft')
  BY <1>1, <1>2, PlaceColumns, EditKeeps, InsertType
<1>4. undoStack' \in Seq(Snapshots)
  BY <1>1, Snapped DEF EditTypes
<1>5. ring' \in Seq(Texts) /\ before' \in Texts
  BY <1>1 DEF EditTypes
<1> QED BY <1>1, <1>3, <1>4, <1>5, PlaceColumns, EditKeeps, MarkersKept, EditedTypes

LEMMA InsertTypes ==
    ASSUME EditTypes, NEW more \in Texts, Insert(more), pastes' \in Seq(Nat), serial' \in Nat
    PROVE  EditTypes'
<1>1. /\ draft' = Spliced(cursor, more) /\ Edit(Len(more)) /\ Place(cursor + Len(more))
      /\ Snapshot /\ Forgets
  BY DEF Insert
<1>3. draft' \in Texts /\ cursor' \in 0..Len(draft')
  BY <1>1, PlaceColumns, EditKeeps, InsertType
<1> QED BY <1>1, <1>3, Snapped, PlaceColumns, EditKeeps, EditedTypes

LEMMA PasteTypes ==
    ASSUME EditTypes, NEW more \in Texts, Paste(more)
    PROVE  EditTypes'
  BY MarkersKept, InsertTypes DEF Paste

LEMMA PasteLongTypes ==
    ASSUME EditTypes, PasteLong
    PROVE  EditTypes'
<1>1. PICK more : more = <<Open, MarkerTail(Len(pastes) + 1, serial + 1)>>
  OBVIOUS
<1>2. pastes \in Seq(Nat) /\ serial \in Nat /\ Len(pastes) + 1 \in Nat /\ serial + 1 \in Nat
  BY DEF EditTypes
<1>3. more \in Texts
  <2>1. Open \in Chars /\ MarkerTail(Len(pastes) + 1, serial + 1) \in Chars
    BY <1>2, CharTypes
  <2> QED BY <1>1, <2>1 DEF Texts
<1>4. Insert(more) /\ pastes' = Append(pastes, serial + 1) /\ serial' = serial + 1
  BY <1>1 DEF PasteLong
<1>5. pastes' \in Seq(Nat) /\ serial' \in Nat
  BY <1>2, <1>4, AppendProperties
<1> QED BY <1>3, <1>4, <1>5, InsertTypes

LEMMA CompletionTypes ==
    ASSUME EditTypes, NEW c \in Chars, ApplyCompletion(c)
    PROVE  EditTypes'
<1>1. /\ draft' = Spliced(cursor, <<c>>) /\ Place(cursor + 1) /\ cursor # Astray
      /\ Snapshot /\ Forgets /\ UNCHANGED markerVars /\ UNCHANGED <<width, history>>
      /\ browsing' = browsing
  BY DEF ApplyCompletion
<1>2. <<c>> \in Texts /\ Len(<<c>>) = 1
  BY DEF Texts
<1>3. draft' \in Texts /\ cursor' \in 0..Len(draft')
  BY <1>1, <1>2, PlaceColumns, InsertType
<1> QED BY <1>1, <1>3, Snapped, PlaceColumns, MarkersKept, EditedTypes

LEMMA BackspaceTypes ==
    ASSUME EditTypes, Backspace
    PROVE  EditTypes'
<1>1. /\ draft' = Without(cursor - Back, cursor) /\ Edit(0) /\ Place(cursor - Back)
      /\ cursor > 0 /\ Snapshot /\ Forgets /\ UNCHANGED markerVars
  BY DEF Backspace
<1>2. cursor \in 0..Len(draft) /\ draft \in Texts /\ Len(draft) \in Nat
  BY <1>1, EditKeeps DEF EditTypes, Texts
<1>3. PICK from \in 0..cursor : from = cursor - Back
  <2>1. Back \in 1..cursor
    BY <1>1, <1>2, SegmentIn
  <2> QED BY <1>2, <2>1
<1>4. from \in 0..Len(draft) /\ cursor \in from..Len(draft)
  BY <1>2
<1>5. draft' \in Texts /\ cursor' \in 0..Len(draft')
  BY <1>1, <1>3, <1>4, PlaceColumns, CutType
<1> QED BY <1>1, <1>5, Snapped, PlaceColumns, EditKeeps, MarkersKept, EditedTypes

LEMMA DeleteTypes ==
    ASSUME EditTypes, Delete
    PROVE  EditTypes'
<1>1. /\ draft' = Without(cursor, cursor + Ahead) /\ Edit(0) /\ Stay
      /\ cursor < Len(draft) /\ Snapshot /\ Forgets /\ UNCHANGED markerVars
  BY DEF Delete
<1>2. cursor \in 0..Len(draft) /\ draft \in Texts /\ Len(draft) \in Nat
  BY <1>1, EditKeeps DEF EditTypes, Texts
<1>3. PICK to \in cursor..Len(draft) : to = cursor + Ahead
  <2>1. Ahead \in 1..(Len(draft) - cursor)
    BY <1>1, <1>2, SegmentIn
  <2> QED BY <1>2, <2>1
<1>5. draft' \in Texts /\ cursor' \in 0..Len(draft')
  BY <1>1, <1>2, <1>3, StayColumns, CutType
<1> QED BY <1>1, <1>5, Snapped, StayColumns, EditKeeps, MarkersKept, EditedTypes

-----------------------------------------------------------------------------
(* A broken line, an undo, a whole new text, a submission.                   *)
LEMMA BreakLineTypes ==
    ASSUME EditTypes, BreakLine
    PROVE  EditTypes' /\ Here \in Range(undoStack')
<1>1. /\ draft' = [draft EXCEPT ![cursor] = NL] /\ Edit(0) /\ Place(cursor) /\ cursor > 0
      /\ undoStack' = undoStack \o <<Here, [text |-> Without(cursor - 1, cursor),
                                             cursor |-> cursor - 1]>>
      /\ Forgets /\ UNCHANGED markerVars
  BY DEF BreakLine
<1>2. draft \in Texts /\ cursor \in 1..Len(draft) /\ undoStack \in Seq(Snapshots)
  BY <1>1, EditKeeps DEF EditTypes, Texts
<1>3. draft' \in Texts /\ cursor' \in 0..Len(draft')
  <2>1. NL \in Chars
    BY CharTypes
  <2>2. /\ [draft EXCEPT ![cursor] = NL] \in Seq(Chars)
        /\ Len([draft EXCEPT ![cursor] = NL]) = Len(draft)
    BY <1>2, <2>1, ExceptSeq DEF Texts
  <2>3. cursor' = cursor
    BY <1>1, PlaceColumns
  <2> QED BY <1>1, <1>2, <2>2, <2>3 DEF Texts
<1>4. PICK from \in 0..Len(draft) : from = cursor - 1 /\ cursor \in from..Len(draft)
  BY <1>2
<1>11. PICK to \in from..Len(draft) : to = cursor
  BY <1>4
<1>5. PICK next \in Snapshots : next = [text |-> Without(cursor - 1, cursor), cursor |-> cursor - 1]
  <2>1. Without(from, to) \in Texts /\ from \in 0..Len(Without(from, to))
    BY <1>2, WithoutType
  <2>2. PICK t \in Texts : t = Without(from, to) /\ from \in 0..Len(t)
    BY <2>1, Zenon
  <2>3. [text |-> t, cursor |-> from] \in Snapshots
    BY <2>2 DEF Snapshots
  <2> QED BY <1>4, <1>11, <2>2, <2>3
<1>6. PICK here \in Snapshots : here = Here
  BY HereIs
<1>7. PICK two \in Seq(Snapshots) : two = <<here, next>> /\ Len(two) = 2 /\ two[1] = here
  <2>1. <<here, next>> \in Seq(Snapshots) /\ Len(<<here, next>>) = 2 /\ <<here, next>>[1] = here
    OBVIOUS
  <2> QED BY <2>1, Zenon
<1>8. undoStack' = undoStack \o two
  BY <1>1, <1>5, <1>6, <1>7
<1>9. /\ undoStack' \in Seq(Snapshots) /\ Len(undoStack') = Len(undoStack) + 2
      /\ undoStack'[Len(undoStack) + 1] = Here
  BY <1>2, <1>6, <1>7, <1>8, TwoPlaces
<1>10. Here \in Range(undoStack')
  <2>1. Len(undoStack) + 1 \in DOMAIN undoStack'
    BY <1>2, <1>9
  <2> QED BY <1>9, <2>1 DEF Range
<1> QED BY <1>1, <1>3, <1>9, <1>10, PlaceColumns, EditKeeps, MarkersKept, EditedTypes

LEMMA NothingTypes ==
    ASSUME EditTypes, NothingToTake
    PROVE  EditTypes'
<1>1. /\ browsing' = 0 /\ (Forgets \/ UNCHANGED killVars)
      /\ UNCHANGED <<draft, cursor, width, columnVars, markerVars, undoStack, history>>
  BY DEF NothingToTake
<1>2. /\ draft' \in Texts /\ cursor' \in {Astray} \cup (0..Len(draft'))
      /\ undoStack' \in Seq(Snapshots)
  BY <1>1 DEF EditTypes
<1>3. preferred' = preferred /\ snapped' = snapped
  BY <1>1 DEF columnVars
<1>4. \/ Forgets
      \/ /\ ring' \in Seq(Texts) /\ before' \in Texts
         /\ lastAction' \in {"none", "word", "kill", "yank"}
  BY <1>1 DEF killVars, EditTypes
<1> QED BY <1>1, <1>2, <1>3, <1>4, MarkersKept, EditedTypes

LEMMA StrippedType ==
    ASSUME NEW t \in Texts
    PROVE  Stripped(t) \in Texts
<1> DEFINE kept == {i \in DOMAIN t : t[i] \notin {Space, NL}}
<1>1. PICK K \in Nat : K = Len(t) /\ DOMAIN t = 1..K
  BY DEF Texts
<1>2. kept \in SUBSET Nat /\ kept \in SUBSET (0..K)
  BY <1>1
<1>3. <<>> \in Texts
  BY CharTypes
<1>4. ASSUME kept # {} PROVE SubSeq(t, Min(kept), Max(kept)) \in Texts
  <2>1. Min(kept) \in kept /\ Max(kept) \in kept
    <3> HIDE DEF kept
    <3> QED BY <1>2, <1>4, MinOf, MaxOf
  <2>2. PICK m \in 1..K, n \in 1..K : m = Min(kept) /\ n = Max(kept)
    BY <1>1, <2>1
  <2>3. \A i \in m..n : t[i] \in Chars
    BY <1>1 DEF Texts
  <2>4. SubSeq(t, m, n) \in Seq(Chars)
    BY <2>3, SubSeqProperties
  <2> HIDE DEF kept
  <2> QED BY <2>2, <2>4 DEF Texts
<1> QED BY <1>3, <1>4 DEF Stripped

LEMMA ExpandedType ==
    ASSUME draft \in Texts, pastes \in Seq(Nat)
    PROVE  Expanded \in Texts
<1> DEFINE part(i) == IF MarkerAt(i) THEN <<>>
                      ELSE IF MarkerAt(i - 1) THEN <<Long(pastes[draft[i].id])>> ELSE <<draft[i]>>
           parts == [i \in DOMAIN draft |-> part(i)]
<1>1. PICK K \in Nat : K = Len(draft) /\ DOMAIN draft = 1..K
  BY DEF Texts
<1>2. ASSUME NEW i \in 1..K PROVE part(i) \in Seq(Chars)
  <2>1. CASE MarkerAt(i)
    BY <2>1
  <2>2. CASE MarkerAt(i - 1)
    <3>1. (i - 1) + 1 = i
      OBVIOUS
    <3>2. draft[i].id \in DOMAIN pastes
      BY <2>2, <3>1 DEF MarkerAt
    <3>3. pastes[draft[i].id] \in Nat
      BY <3>2
    <3>4. Long(pastes[draft[i].id]) \in Chars
      BY <3>3, CharTypes
    <3> QED BY <2>2, <3>4
  <2>3. CASE ~MarkerAt(i) /\ ~MarkerAt(i - 1)
    <3>1. draft[i] \in Chars
      BY <1>1 DEF Texts
    <3> QED BY <2>3, <3>1
  <2>4. <<>> \in Seq(Chars)
    OBVIOUS
  <2> QED BY <2>1, <2>2, <2>3, <2>4
<1>3. parts \in Seq(Seq(Chars))
  <2>1. parts = [i \in 1..K |-> part(i)]
    BY <1>1
  <2> HIDE DEF part
  <2>2. [i \in 1..K |-> part(i)] \in Seq(Seq(Chars))
    BY <1>2
  <2> QED BY <2>1, <2>2
<1>4. Expanded = FlattenSeq(parts)
  BY DEF Expanded
<1> HIDE DEF parts
<1> QED BY <1>3, <1>4, FlatType DEF Texts

LEMMA UndoTypes ==
    ASSUME EditTypes, Undo
    PROVE  EditTypes'
<1>1. /\ undoStack # <<>> /\ draft' = Last(undoStack).text /\ cursor' = Last(undoStack).cursor
      /\ undoStack' = Front(undoStack) /\ preferred' = NoColumn /\ browsing' = 0
      /\ snapped' = snapped
      /\ Forgets /\ UNCHANGED markerVars /\ UNCHANGED <<width, history>>
  BY DEF Undo
<1>2. PICK s \in Seq(Snapshots) : s = undoStack /\ s # <<>>
  BY <1>1 DEF EditTypes
<1>3. PICK K \in Nat : K = Len(s) /\ K # 0
  BY <1>2, EmptySeq
<1>4. Last(undoStack) \in Snapshots
  <2>1. K \in 1..Len(s)
    BY <1>3
  <2>2. s[K] \in Snapshots
    BY <2>1, ElementOfSeq
  <2> QED BY <1>2, <1>3, <2>2 DEF Last
<1>5. undoStack' \in Seq(Snapshots)
  <2>1. PICK n \in 0..Len(s) : n = K - 1
    BY <1>3
  <2>2. SubSeq(s, 1, n) \in Seq(Snapshots)
    BY AfterFacts
  <2> QED BY <1>1, <1>2, <1>3, <2>1, <2>2 DEF Front
<1>6. draft' \in Texts /\ cursor' \in {Astray} \cup (0..Len(draft'))
  BY <1>1, <1>4 DEF Snapshots
<1> QED BY <1>1, <1>5, <1>6, MarkersKept, EditedTypes

LEMMA SetTextTypes ==
    ASSUME EditTypes, NEW t \in Texts, SetText(t)
    PROVE  EditTypes'
<1>1. /\ draft' = t /\ Place(Len(t)) /\ browsing' = 0
      /\ UNCHANGED undoStack \/ Snapshot
      /\ Forgets /\ UNCHANGED markerVars /\ UNCHANGED <<width, history>>
  BY DEF SetText
<1>2. draft' \in Texts /\ cursor' \in 0..Len(draft')
  BY <1>1, PlaceColumns DEF Texts
<1>3. undoStack' \in Seq(Snapshots)
  BY <1>1, Snapped DEF EditTypes
<1> QED BY <1>1, <1>2, <1>3, PlaceColumns, MarkersKept, EditedTypes

LEMMA GiveBackTypes ==
    ASSUME EditTypes, NEW d \in Texts, GiveBack(d)
    PROVE  EditTypes'
<1>1. draft \in Seq(Chars) /\ d \in Seq(Chars) /\ <<NL, NL>> \in Seq(Chars)
  BY CharTypes DEF EditTypes, Texts
<1>2. d \o <<NL, NL>> \o draft \in Seq(Chars)
  BY <1>1, TwoPlaces
<1>3. (IF Stripped(draft) = <<>> THEN d ELSE d \o <<NL, NL>> \o draft) \in Texts
  BY <1>2 DEF Texts
<1> QED BY <1>3, SetTextTypes DEF GiveBack

LEMMA BrowseTypes ==
    ASSUME EditTypes, NEW n \in Int, Browse(n)
    PROVE  EditTypes'
<1>1. Forgets /\ UNCHANGED markerVars /\ UNCHANGED <<width, history>>
  BY DEF Browse
<1>2. CASE n \in 0..Len(history)
  <2>1. /\ browsing' = n /\ draft' = IF n = 0 THEN <<>> ELSE history[n]
        /\ Place(Len(draft')) /\ (UNCHANGED undoStack \/ Snapshot)
    BY <1>2 DEF Browse
  <2>2. PICK K \in Nat : K = Len(history) /\ history \in Seq(Texts)
    BY DEF EditTypes
  <2>3. draft' \in Texts
    <3>1. n # 0 => n \in 1..Len(history)
      BY <1>2, <2>2
    <3>2. n # 0 => history[n] \in Texts
      BY <2>2, <3>1, ElementOfSeq
    <3> QED BY <2>1, <3>2, CharTypes
  <2>4. cursor' \in 0..Len(draft')
    <3>1. cursor' = Len(draft')
      BY <2>1, PlaceColumns
    <3>2. \A t \in Texts : Len(t) \in 0..Len(t)
      BY DEF Texts
    <3> QED BY <2>3, <3>1, <3>2
  <2>5. undoStack' \in Seq(Snapshots)
    BY <2>1, Snapped DEF EditTypes
  <2>6. /\ preferred' \in Int /\ snapped' \in Int
    BY <2>1 DEF Place, NoColumn
  <2>7. browsing' \in Nat
    BY <1>2, <2>1, <2>2
  <2>8. EditTypes
    OBVIOUS
  <2> QED BY <1>1, <2>3, <2>4, <2>5, <2>6, <2>7, <2>8, MarkersKept DEF EditTypes, Forgets
<1>3. CASE n \notin 0..Len(history)
  <2>1. UNCHANGED <<draft, cursor, columnVars, undoStack, browsing>>
    BY <1>3 DEF Browse
  <2> QED BY <1>1, <2>1 DEF EditTypes, Forgets, markerVars, columnVars
<1> QED BY <1>2, <1>3

LEMMA SubmitTypes ==
    ASSUME EditTypes, Submit
    PROVE  EditTypes'
<1>1. PICK prompt \in Texts : prompt = Stripped(Expanded)
  BY ExpandedType, StrippedType DEF EditTypes
<1>2. /\ history' \in {history, <<prompt>> \o history}
      /\ draft' = <<>> /\ cursor' = 0 /\ UNCHANGED <<preferred, snapped>>
      /\ pastes' = <<>> /\ undoStack' = <<>> /\ browsing' = 0
      /\ Forgets /\ UNCHANGED <<width, serial>>
  BY <1>1 DEF Submit
<1>3. history' \in Seq(Texts)
  <2>1. history \in Seq(Texts) /\ <<prompt>> \in Seq(Texts)
    BY DEF EditTypes
  <2>2. <<prompt>> \o history \in Seq(Texts)
    BY <2>1, TwoPlaces
  <2> QED BY <1>2, <2>1, <2>2
<1>4. draft' \in Texts /\ cursor' \in 0..Len(draft')
  BY <1>2, CharTypes
<1> QED BY <1>2, <1>3, <1>4 DEF EditTypes, Forgets

-----------------------------------------------------------------------------
(* Moves.                                                                    *)
\* What a move leaves of the types.
LEMMA MovedTypes ==
    ASSUME EditTypes, Moved, cursor' \in {Astray} \cup (0..Len(draft)),
           preferred' \in Int, snapped' \in Int
    PROVE  EditTypes'
  BY DEF EditTypes, Moved, Forgets, markerVars

LEMMA GoTypes ==
    ASSUME EditTypes, NEW c, Go(c)
    PROVE  EditTypes'
<1>1. cursor' \in 0..Len(draft) /\ preferred' \in Int /\ snapped' \in Int /\ Moved
  BY DEF Go, Place, NoColumn
<1> QED BY <1>1, MovedTypes

LEMMA StepTypes ==
    ASSUME EditTypes, Step
    PROVE  EditTypes'
  BY GoTypes DEF Step

\* Where a jump goes.
LEMMA JumpIs ==
    ASSUME draft \in Texts, NEW kind, Jump(kind)
    PROVE  \E p \in 0..Len(draft) : Place(p) /\ loose' = (loose \/ MarkerAt(p)) /\ Moved
<1> DEFINE found == {p \in 0..(Len(draft) - 1) : draft[p + 1].kind = kind}
           next == {p \in found : p > cursor}
           previous == {p \in found : p < cursor \/ (p = cursor /\ p = LineStart)}
<1>1. PICK K \in Nat : K = Len(draft)
  BY DEF Texts
<1>2. /\ next \in SUBSET Nat /\ next \in SUBSET (0..K)
      /\ previous \in SUBSET Nat /\ previous \in SUBSET (0..K)
  BY <1>1
<1>3. PICK p : /\ p \in (IF next = {} THEN {} ELSE {Min(next)})
                           \cup (IF previous = {} THEN {} ELSE {Max(previous)})
               /\ Place(p) /\ loose' = (loose \/ MarkerAt(p)) /\ Moved
  BY DEF Jump
<1> HIDE DEF next, previous
<1>4. next # {} => Min(next) \in next
  BY <1>2, MinOf
<1>5. previous # {} => Max(previous) \in previous
  BY <1>1, <1>2, MaxOf
<1>6. p \in next \cup previous
  BY <1>3, <1>4, <1>5
<1> QED BY <1>1, <1>2, <1>3, <1>6

LEMMA JumpTypes ==
    ASSUME EditTypes, NEW kind, Jump(kind)
    PROVE  EditTypes'
<1>1. PICK p \in 0..Len(draft) : Place(p) /\ Moved
  BY JumpIs DEF EditTypes
<1>2. cursor' \in 0..Len(draft) /\ preferred' \in Int /\ snapped' \in Int
  BY <1>1 DEF Place, NoColumn
<1> QED BY <1>1, <1>2, MovedTypes

LEMMA CurrentLineIn ==
    ASSUME draft \in Texts, width \in Nat, NEW lines, lines = VisualLines
    PROVE  /\ lines \in Seq(Visual) /\ lines # <<>> /\ Len(lines) \in Nat
           /\ CurrentLine(lines) \in 1..Len(lines)
           /\ lines[CurrentLine(lines)] \in Visual
           /\ \A l, col : lines[FindLine(lines, l, col)] \in Visual
<1>1. lines \in Seq(Visual) /\ lines # <<>>
  BY VisualType
<1>2. PICK s \in Seq(Visual) : s = lines /\ s # <<>>
  BY <1>1
<1>3. \A l, col : FindLine(s, l, col) \in DOMAIN s
  BY <1>2, FindLineIn
<1>4. DOMAIN s = 1..Len(s) /\ Len(s) \in Nat
  OBVIOUS
<1>5. \A n \in 1..Len(s) : s[n] \in Visual
  BY ElementOfSeq
<1>6. CurrentLine(s) \in DOMAIN s
  BY <1>3 DEF CurrentLine
<1> QED BY <1>1, <1>2, <1>3, <1>4, <1>5, <1>6

LEMMA StepAtEndTypes ==
    ASSUME EditTypes, StepAtEnd
    PROVE  EditTypes'
<1>1. PICK lines : lines = VisualLines
  OBVIOUS
<1>2. /\ cursor = Len(draft) /\ preferred' = cursor - lines[CurrentLine(lines)].start
      /\ Moved /\ UNCHANGED <<cursor, snapped>>
  BY <1>1 DEF StepAtEnd
<1>3. lines[CurrentLine(lines)].start \in Int
  <2>1. lines[CurrentLine(lines)] \in Visual
    BY <1>1, CurrentLineIn DEF EditTypes
  <2> QED BY <2>1 DEF Visual
<1>4. cursor \in 0..Len(draft) /\ cursor \in Int /\ snapped \in Int
  BY <1>2 DEF EditTypes, Texts
<1>5. preferred' \in Int /\ snapped' \in Int /\ cursor' \in 0..Len(draft)
  BY <1>2, <1>3, <1>4
<1> QED BY <1>2, <1>5, MovedTypes

LEMMA MinOfTwo ==
    ASSUME NEW a \in Int, NEW b \in Int
    PROVE  Min({a, b}) \in Int /\ Min({a, b}) <= a /\ Min({a, b}) <= b
<1>1. \E x \in {a, b} : \A y \in {a, b} : x <= y
  <2>1. CASE a <= b
    BY <2>1
  <2>2. CASE b <= a
    BY <2>2
  <2> QED BY <2>1, <2>2
<1>2. Min({a, b}) \in {a, b} /\ \A y \in {a, b} : Min({a, b}) <= y
  BY <1>1 DEF Min
<1> QED BY <1>2

LEMMA VerticalTypes ==
    ASSUME EditTypes, NEW lines, lines = VisualLines, NEW target \in 1..Len(lines),
           Vertical(lines, target), cursor # Astray
    PROVE  EditTypes'
<1> DEFINE goal == lines[target]
           column == Column(lines)
           middle == column < Furthest(lines[CurrentLine(lines)])
           short == Furthest(goal) < column
           fresh == preferred = NoColumn \/ middle
           clamped == IF fresh THEN short ELSE short \/ Furthest(goal) < preferred
           found == goal.start + (IF clamped THEN Furthest(goal)
                                  ELSE IF fresh THEN column ELSE preferred)
           place == Min({found, LineTo(goal.line)})
           inside == MarkerAt(place)
           drawn == place >= goal.line /\ (MarkerAt(place) \/ MarkerAt(place + 1))
<1>1. /\ preferred' = IF clamped THEN (IF fresh THEN column ELSE preferred) ELSE NoColumn
      /\ cursor' = IF place < goal.line THEN Astray ELSE IF inside THEN place - 1 ELSE place
      /\ snapped' = IF drawn THEN place - goal.line ELSE NoColumn
      /\ Moved
  BY DEF Vertical
<1>2. /\ lines \in Seq(Visual) /\ lines[CurrentLine(lines)] \in Visual
      /\ \A l, col : lines[FindLine(lines, l, col)] \in Visual
      /\ draft \in Texts /\ cursor \in Int /\ snapped \in Int /\ preferred \in Int
  <2>1. draft \in Texts /\ width \in Nat /\ snapped \in Int /\ preferred \in Int
    BY DEF EditTypes
  <2>2. cursor \in Int
    BY DEF EditTypes, Astray, Texts
  <2> QED BY <2>1, <2>2, CurrentLineIn
<1>3. PICK K \in Nat : K = Len(draft)
  BY <1>2 DEF Texts
<1>4. goal \in Visual
  <2>1. lines[target] \in Visual
    BY <1>2, ElementOfSeq
  <2> QED BY <2>1
<1>5. goal.line \in 0..K /\ goal.start \in Int /\ goal.length \in Int /\ goal.last \in BOOLEAN
  BY <1>3, <1>4 DEF Visual
<1>6. column \in Int
  <2>1. \A l \in Visual : l.start \in Int /\ l.line \in Int
    BY <1>3 DEF Visual
  <2>2. lines[CurrentLine(lines)].start \in Int
    BY <1>2, <2>1
  <2>3. PICK goes : goes = lines[FindLine(lines, LineStart, snapped)]
    OBVIOUS
  <2>4. goes.start \in Int /\ goes.line \in Int
    BY <1>2, <2>1, <2>3
  <2>5. column = IF snapped = NoColumn THEN cursor - lines[CurrentLine(lines)].start
                 ELSE snapped - (goes.start - goes.line)
    BY <2>3 DEF Column
  <2> QED BY <1>2, <2>2, <2>4, <2>5
<1>7. Furthest(goal) \in Int
  BY <1>5 DEF Furthest
<1> HIDE DEF column, goal, middle
<1>8. found \in Int
  BY <1>2, <1>5, <1>6, <1>7
<1>9. LineTo(goal.line) \in 0..K
  <2>1. PICK l \in 0..Len(draft) : l = goal.line
    BY <1>3, <1>5
  <2>2. LineTo(l) \in l..Len(draft)
    BY <1>2, LineFacts
  <2> QED BY <1>3, <2>1, <2>2
<1> HIDE DEF found
<1>10. place \in Int /\ place <= K
  <2>1. PICK b \in Int : b = LineTo(goal.line) /\ b <= K
    BY <1>9
  <2>2. Min({found, b}) \in Int /\ Min({found, b}) <= b
    BY <1>8, MinOfTwo
  <2> QED BY <2>1, <2>2
<1>11. inside => place \in 1..K
  BY <1>2, <1>3, MarkerInside
<1> HIDE DEF place, inside, drawn
<1>12. cursor' \in {Astray} \cup (0..Len(draft))
  BY <1>1, <1>3, <1>5, <1>10, <1>11
<1>13. preferred' \in Int /\ snapped' \in Int
  <2> HIDE DEF clamped, fresh
  <2> QED BY <1>1, <1>2, <1>5, <1>6, <1>10 DEF NoColumn
<1> QED BY <1>1, <1>12, <1>13, MovedTypes

\* What a key up or down does.
LEMMA UpOrDownIs ==
    ASSUME EditTypes, UpOrDown, NEW lines, lines = VisualLines
    PROVE  /\ cursor # Astray
           /\ \/ \E n \in Int : Browse(n)
              \/ Go(LineStart) \/ Go(LineEnd)
              \/ \E target \in 1..Len(lines) : Vertical(lines, target)
<1>2. PICK n : n = CurrentLine(lines)
  OBVIOUS
<1>3. draft \in Texts /\ width \in Nat /\ browsing \in Nat
  BY DEF EditTypes
<1>4. PICK K \in Nat : K = Len(lines) /\ K >= 1 /\ n \in 1..K
  <2>1. Len(lines) \in Nat /\ n \in 1..Len(lines)
    BY <1>2, <1>3, CurrentLineIn
  <2> QED BY <2>1
<1>5. cursor # Astray
  BY DEF UpOrDown
<1>6. \/ Browse(browsing + 1) \/ Browse(browsing - 1) \/ Go(LineStart) \/ Go(LineEnd)
      \/ n # 1 /\ Vertical(lines, n - 1)
      \/ n # Len(lines) /\ Vertical(lines, n + 1)
      \/ Vertical(lines, Max({1, n - Page})) \/ Vertical(lines, Min({Len(lines), n + Page}))
  BY <1>2 DEF UpOrDown
<1>7. browsing + 1 \in Int /\ browsing - 1 \in Int
  BY <1>3
<1>8. n # 1 => n - 1 \in 1..K
  BY <1>4
<1>9. n # Len(lines) => n + 1 \in 1..K
  BY <1>4
<1>10. Max({1, n - Page}) \in 1..K
  <2>1. PICK m \in Int : m = n - Page /\ m <= K
    BY <1>4 DEF Page
  <2>2. \E x \in {1, m} : \A y \in {1, m} : x >= y
    <3>1. CASE m <= 1
      BY <3>1
    <3>2. CASE 1 <= m
      BY <3>2
    <3> QED BY <3>1, <3>2
  <2>3. Max({1, m}) \in {1, m} /\ Max({1, m}) >= 1
    BY <2>2 DEF Max
  <2> QED BY <1>4, <2>1, <2>3
<1>11. Min({Len(lines), n + Page}) \in 1..K
  <2>1. PICK m \in 1..(K + Page) : m = n + Page
    BY <1>4 DEF Page
  <2>2. \E x \in {K, m} : \A y \in {K, m} : x <= y
    <3>1. CASE m <= K
      BY <2>1, <3>1
    <3>2. CASE K <= m
      BY <3>2
    <3>3. m \in Int
      BY <2>1
    <3> QED BY <3>1, <3>2, <3>3
  <2>3. Min({K, m}) \in {K, m} /\ Min({K, m}) <= K
    BY <2>2 DEF Min
  <2> QED BY <1>4, <2>1, <2>3
<1>12. CASE Browse(browsing + 1) \/ Browse(browsing - 1)
  BY <1>5, <1>7, <1>12
<1>13. CASE Go(LineStart) \/ Go(LineEnd)
  BY <1>5, <1>13
<1>14. CASE \/ n # 1 /\ Vertical(lines, n - 1)
            \/ n # Len(lines) /\ Vertical(lines, n + 1)
            \/ Vertical(lines, Max({1, n - Page})) \/ Vertical(lines, Min({Len(lines), n + Page}))
  BY <1>4, <1>5, <1>8, <1>9, <1>10, <1>11, <1>14
<1> QED BY <1>6, <1>12, <1>13, <1>14

LEMMA UpOrDownTypes ==
    ASSUME EditTypes, UpOrDown
    PROVE  EditTypes'
<1>1. PICK lines : lines = VisualLines
  OBVIOUS
<1>2. /\ cursor # Astray
      /\ \/ \E n \in Int : Browse(n)
         \/ Go(LineStart) \/ Go(LineEnd)
         \/ \E target \in 1..Len(lines) : Vertical(lines, target)
  BY <1>1, UpOrDownIs
<1> QED BY <1>1, <1>2, BrowseTypes, GoTypes, VerticalTypes

LEMMA ResizeTypes ==
    ASSUME EditTypes, Resize
    PROVE  EditTypes'
<1>1. width' \in Nat
  BY WidthsAssumption DEF Resize
<1> QED BY <1>1 DEF EditTypes, Resize, markerVars, killVars

-----------------------------------------------------------------------------
(* What the kill ring and the last of the undo stack are, from key to key.   *)
WordInv ==
    lastAction = "word" =>
        /\ undoStack # <<>> /\ cursor # Astray
        /\ Last(undoStack).cursor \in 0..cursor
        /\ Last(undoStack).text = Without(Last(undoStack).cursor, cursor)
        /\ \A i \in (Last(undoStack).cursor + 2)..cursor : draft[i] # Space
RingInv ==
    lastAction \in {"kill", "yank"} =>
        /\ cursor # Astray /\ ring # <<>>
        /\ lastAction = "yank" => Len(Last(ring)) <= cursor
JoinInv == WordInv /\ RingInv /\ RingRestores

LEMMA JoinForgets ==
    ASSUME Forgets
    PROVE  JoinInv'
  BY DEF Forgets, JoinInv, WordInv, RingInv, RingRestores

LEMMA JoinKept ==
    ASSUME JoinInv, UNCHANGED <<draft, cursor, killVars, undoStack>>
    PROVE  JoinInv'
<1>1. /\ draft' = draft /\ cursor' = cursor /\ undoStack' = undoStack /\ ring' = ring
      /\ lastAction' = lastAction /\ before' = before
  BY DEF killVars
<1>2. WordInv'
  BY <1>1 DEF JoinInv, WordInv, Without
<1>3. RingInv'
  BY <1>1 DEF JoinInv, RingInv
<1>4. RingRestores'
  BY <1>1 DEF JoinInv, RingRestores, Spliced, Without
<1> QED BY <1>2, <1>3, <1>4 DEF JoinInv

\* Texts one after another; a part taken out of a text, and put in.
LEMMA TextsJoin ==
    ASSUME NEW a \in Texts, NEW b \in Texts
    PROVE  /\ a \o b \in Texts /\ Len(a \o b) = Len(a) + Len(b)
           /\ Len(a) \in Nat /\ Len(b) \in Nat
           /\ \A i \in 1..Len(a) : (a \o b)[i] = a[i]
           /\ \A i \in 1..Len(b) : (a \o b)[Len(a) + i] = b[i]
  BY TwoPlaces DEF Texts

LEMMA TextsGroup == \A x, y, z \in Texts : x \o (y \o z) = (x \o y) \o z
  BY ConcatAssoc DEF Texts

LEMMA TextsRegroup ==
    \A x, y, z, w \in Texts : (x \o (y \o z)) \o w = (x \o y) \o (z \o w)
<1>1. ASSUME NEW x \in Texts, NEW y \in Texts, NEW z \in Texts, NEW w \in Texts
      PROVE  (x \o (y \o z)) \o w = (x \o y) \o (z \o w)
  <2>1. PICK xy \in Texts : xy = x \o y
    <3>1. x \o y \in Texts
      BY TextsJoin
    <3> QED BY <3>1, Zenon
  <2>2. x \o (y \o z) = xy \o z
    <3>1. \A v, u \in Texts : x \o (v \o u) = (x \o v) \o u
      BY TextsGroup, Zenon
    <3>2. x \o (y \o z) = (x \o y) \o z
      BY <3>1, Zenon
    <3> QED BY <2>1, <3>2, Zenon
  <2>3. xy \o (z \o w) = (xy \o z) \o w
    <3>1. \A v, u \in Texts : xy \o (v \o u) = (xy \o v) \o u
      BY TextsGroup, Zenon
    <3> QED BY <3>1, Zenon
  <2> QED BY <2>1, <2>2, <2>3, Zenon
<1> QED BY <1>1, Zenon

LEMMA TakenOut ==
    ASSUME NEW a \in Texts, NEW b \in Texts, NEW c \in Texts
    PROVE  /\ SubSeq((a \o b) \o c, 1, Len(a))
                 \o SubSeq((a \o b) \o c, Len(a) + Len(b) + 1, Len((a \o b) \o c)) = a \o c
           /\ SubSeq((a \o b) \o c, Len(a) + 1, Len(a) + Len(b)) = b
<1>1. a \in Seq(Chars) /\ b \in Seq(Chars) /\ c \in Seq(Chars)
  BY DEF Texts
<1>2. /\ SubSeq((a \o b) \o c, 1, Len(a)) = a
      /\ SubSeq((a \o b) \o c, Len(a) + 1, Len(a) + Len(b)) = b
      /\ SubSeq((a \o b) \o c, Len(a) + Len(b) + 1, Len((a \o b) \o c)) = c
  BY <1>1, ThreeSubs
<1> QED BY <1>2, Zenon

LEMMA AroundIsLeft ==
    \A a, b, c \in Texts :
        SubSeq((a \o b) \o c, 1, Len(a))
            \o SubSeq((a \o b) \o c, Len(a) + Len(b) + 1, Len((a \o b) \o c)) = a \o c
  BY TakenOut, ZenonT(40)

LEMMA PutIn ==
    ASSUME NEW a \in Texts, NEW b \in Texts, NEW more \in Texts
    PROVE  SubSeq(a \o b, 1, Len(a)) \o more \o SubSeq(a \o b, Len(a) + 1, Len(a \o b))
              = (a \o more) \o b
<1>1. a \in Seq(Chars) /\ b \in Seq(Chars)
  BY DEF Texts
<1>2. SubSeq(a \o b, 1, Len(a)) = a /\ SubSeq(a \o b, Len(a) + 1, Len(a \o b)) = b
  BY <1>1, TwoParts
<1> QED BY <1>2, Zenon

\* Three parts of the text, around what is taken out.
LEMMA PartsAround ==
    ASSUME draft \in Texts, NEW from \in 0..Len(draft), NEW to \in from..Len(draft)
    PROVE  \E a, b, c \in Texts :
              /\ draft = (a \o b) \o c /\ Len(a) = from /\ Len(a) + Len(b) = to
              /\ SubSeq(draft, from + 1, to) = b /\ Without(from, to) = a \o c
<1>1. \E a, b, c \in Texts :
              /\ draft = (a \o b) \o c /\ Len(a) = from /\ Len(a) + Len(b) = to
              /\ Len(draft) = Len(a) + Len(b) + Len(c)
              /\ SubSeq(draft, from + 1, to) = b
              /\ Without(from, to) = a \o c /\ Without(from, to) \in Texts
              /\ Len(Without(from, to)) = Len(a) + Len(c)
  BY WithoutIs, Zenon
<1> QED BY <1>1, Zenon

LEMMA PartsAt ==
    ASSUME draft \in Texts, NEW c \in 0..Len(draft), NEW more \in Texts
    PROVE  \E a, b \in Texts :
              draft = a \o b /\ Len(a) = c /\ Spliced(c, more) = (a \o more) \o b
<1>1. \E a, b \in Texts :
            /\ draft = a \o b /\ Len(a) = c /\ Spliced(c, more) = (a \o more) \o b
            /\ Len(draft) = Len(a) + Len(b)
            /\ Spliced(c, more) \in Texts /\ Len(Spliced(c, more)) = c + Len(more) + Len(b)
  BY SplicedIs, Zenon
<1> QED BY <1>1, Zenon

LEMMA TypeJoins ==
    ASSUME EditTypes, JoinInv, NEW ch \in Chars, Type(ch)
    PROVE  JoinInv'
<1>1. /\ draft' = Spliced(cursor, <<ch>>) /\ cursor' = cursor + 1 /\ lastAction' = "word"
      /\ IF Coalesces(ch) THEN undoStack' = undoStack ELSE Snapshot
      /\ cursor # Astray
  BY DEF Type, Place, Edit
<1>2. RingInv' /\ RingRestores'
  BY <1>1 DEF RingInv, RingRestores
<1>3. draft \in Texts /\ cursor \in 0..Len(draft) /\ Len(draft) \in Nat
  BY <1>1 DEF EditTypes, Texts
<1>4. PICK typed \in Texts : typed = <<ch>> /\ Len(typed) = 1 /\ typed[1] = ch
  <2>1. <<ch>> \in Texts /\ Len(<<ch>>) = 1 /\ <<ch>>[1] = ch
    BY DEF Texts
  <2> QED BY <2>1, Zenon
<1>5. CASE ~Coalesces(ch)
  <2>1. undoStack' # <<>> /\ Last(undoStack').text = draft /\ Last(undoStack').cursor = cursor
    BY <1>1, <1>5, HereIs DEF Snapshot
  <2>2. PICK c \in 0..Len(draft) : c = cursor
    BY <1>3
  <2>4. PICK a \in Texts, b \in Texts :
            draft = a \o b /\ Len(a) = c /\ Spliced(c, typed) = (a \o typed) \o b
    BY <1>3, PartsAt, Zenon
  <2>6. PICK t : t = (a \o typed) \o b
    OBVIOUS
  <2>14. draft' = t
    BY <1>1, <1>4, <2>2, <2>4, <2>6
  <2>7. SubSeq(t, 1, Len(a)) \o SubSeq(t, Len(a) + Len(typed) + 1, Len(t)) = a \o b
    <3>1. SubSeq((a \o typed) \o b, 1, Len(a))
              \o SubSeq((a \o typed) \o b, Len(a) + Len(typed) + 1, Len((a \o typed) \o b))
              = a \o b
      BY TakenOut, ZenonT(40)
    <3> QED BY <2>6, <3>1, Zenon
  <2>12. Len(a) = cursor /\ Len(a) + Len(typed) = cursor'
    BY <1>1, <1>4, <2>2, <2>4
  <2>13. SubSeq(draft', 1, cursor) \o SubSeq(draft', cursor' + 1, Len(draft')) = draft
    BY <2>4, <2>7, <2>12, <2>14
  <2>8. Last(undoStack').text = SubSeq(draft', 1, Last(undoStack').cursor)
                                    \o SubSeq(draft', cursor' + 1, Len(draft'))
    BY <2>1, <2>13
  <2>9. cursor' # Astray /\ Last(undoStack').cursor \in 0..cursor'
    BY <1>1, <1>3, <2>1 DEF Astray
  <2>10. \A i \in (Last(undoStack').cursor + 2)..cursor' : draft'[i] # Space
    <3>1. (cursor + 2)..cursor' = {}
      BY <1>1, <1>3
    <3> QED BY <2>1, <3>1
  <2>11. WordInv'
    BY <2>1, <2>8, <2>9, <2>10, Zenon DEF WordInv, Without
  <2> QED BY <1>2, <2>11 DEF JoinInv
<1>6. CASE Coalesces(ch)
  <2>1. lastAction = "word" /\ ch # Space /\ undoStack' = undoStack
    BY <1>1, <1>6 DEF Coalesces
  <2>2. PICK u : u = Last(undoStack)
    OBVIOUS
  <2>3. /\ undoStack # <<>> /\ u.cursor \in 0..cursor /\ u.text = Without(u.cursor, cursor)
        /\ \A i \in (u.cursor + 2)..cursor : draft[i] # Space
    BY <2>1, <2>2 DEF JoinInv, WordInv
  <2>4. PICK from \in 0..Len(draft) : from = u.cursor /\ cursor \in from..Len(draft)
    BY <1>3, <2>3
  <2>5. PICK to \in from..Len(draft) : to = cursor
    BY <2>4
  <2>6. PICK a \in Texts, b \in Texts, c \in Texts :
            /\ draft = (a \o b) \o c /\ Len(a) = from /\ Len(a) + Len(b) = to
            /\ SubSeq(draft, from + 1, to) = b /\ Without(from, to) = a \o c
    BY <1>3, PartsAround, Zenon
  <2>8. PICK ab \in Texts : /\ ab = a \o b /\ Len(ab) = cursor
                            /\ ab \o c = draft /\ \A k \in 1..cursor : draft[k] = ab[k]
    <3>1. a \o b \in Texts /\ Len(a \o b) = Len(a) + Len(b)
      BY TextsJoin
    <3>2. \A k \in 1..Len(a \o b) : ((a \o b) \o c)[k] = (a \o b)[k]
      BY <3>1, TextsJoin
    <3> QED BY <2>5, <2>6, <3>1, <3>2
  <2>9. draft' = (ab \o typed) \o c
    <3>1. PICK t : t = ab \o c
      OBVIOUS
    <3>2. SubSeq(t, 1, Len(ab)) \o typed \o SubSeq(t, Len(ab) + 1, Len(t)) = (ab \o typed) \o c
      <4>1. SubSeq(ab \o c, 1, Len(ab)) \o typed
                \o SubSeq(ab \o c, Len(ab) + 1, Len(ab \o c))
                = (ab \o typed) \o c
        BY PutIn, Zenon
      <4> QED BY <3>1, <4>1, Zenon
    <3> QED BY <1>1, <1>4, <2>8, <3>1, <3>2 DEF Spliced
  <2>10. PICK bt \in Texts : bt = b \o typed /\ Len(bt) = Len(b) + 1
    <3>1. b \o typed \in Texts /\ Len(b \o typed) = Len(b) + Len(typed)
      BY TextsJoin
    <3> QED BY <1>4, <3>1, Zenon
  <2>11. (ab \o typed) \o c = (a \o bt) \o c
    <3>1. a \o (b \o typed) = (a \o b) \o typed
      <4>1. \A v, w \in Texts : a \o (v \o w) = (a \o v) \o w
        BY TextsGroup, Zenon
      <4>2. \A w \in Texts : a \o (b \o w) = (a \o b) \o w
        BY <4>1, Zenon
      <4> QED BY <4>2, Zenon
    <3> QED BY <2>8, <2>10, <3>1
  <2>12. cursor' = Len(a) + Len(bt)
    <3>1. PICK m \in Nat, n \in Nat : m = Len(a) /\ n = Len(b)
      <4>1. Len(a) \in Nat /\ Len(b) \in Nat
        BY TextsJoin
      <4> QED BY <4>1, Zenon
    <3>2. m + n = cursor /\ Len(bt) = n + 1 /\ cursor' = cursor + 1
      BY <1>1, <2>5, <2>6, <2>10, <3>1
    <3>3. cursor' = m + (n + 1)
      BY <3>2
    <3> QED BY <3>1, <3>2, <3>3
  <2>13. SubSeq(draft', 1, from) \o SubSeq(draft', cursor' + 1, Len(draft')) = a \o c
    <3>1. PICK t : t = (a \o bt) \o c
      OBVIOUS
    <3>2. SubSeq(t, 1, Len(a)) \o SubSeq(t, Len(a) + Len(bt) + 1, Len(t)) = a \o c
      <4>1. \A y, z \in Texts :
                SubSeq((a \o y) \o z, 1, Len(a))
                    \o SubSeq((a \o y) \o z, Len(a) + Len(y) + 1, Len((a \o y) \o z)) = a \o z
        BY AroundIsLeft, Zenon
      <4>2. SubSeq((a \o bt) \o c, 1, Len(a))
                \o SubSeq((a \o bt) \o c, Len(a) + Len(bt) + 1, Len((a \o bt) \o c)) = a \o c
        BY <4>1, Zenon
      <4> QED BY <3>1, <4>2, Zenon
    <3>3. draft' = t
      BY <2>9, <2>11, <3>1
    <3> QED BY <2>6, <2>12, <3>2, <3>3
  <2>14. u.text = SubSeq(draft', 1, u.cursor) \o SubSeq(draft', cursor' + 1, Len(draft'))
    <3>1. Without(u.cursor, cursor) = a \o c
      BY <2>4, <2>5, <2>6
    <3> QED BY <2>3, <2>4, <2>13, <3>1
  <2>15. ASSUME NEW i \in (u.cursor + 2)..cursor' PROVE draft'[i] # Space
    <3>1. PICK abt \in Texts : /\ abt = ab \o typed /\ Len(abt) = cursor + 1
                               /\ \A k \in 1..cursor : abt[k] = ab[k]
                               /\ abt[cursor + 1] = ch
      <4>1. /\ ab \o typed \in Texts /\ Len(ab \o typed) = Len(ab) + Len(typed)
            /\ \A k \in 1..Len(ab) : (ab \o typed)[k] = ab[k]
            /\ \A k \in 1..Len(typed) : (ab \o typed)[Len(ab) + k] = typed[k]
        BY TextsJoin
      <4>2. 1 \in 1..Len(typed)
        BY <1>4
      <4>3. (ab \o typed)[cursor + 1] = ch
        BY <1>4, <2>8, <4>1, <4>2
      <4> QED BY <1>4, <2>8, <4>1, <4>3
    <3>2. i \in 1..(cursor + 1)
      BY <1>1, <1>3, <2>4
    <3>3. draft'[i] = abt[i]
      <4>1. \A k \in 1..Len(abt) : (abt \o c)[k] = abt[k]
        BY TextsJoin
      <4>2. draft' = abt \o c
        BY <2>9, <3>1
      <4> QED BY <3>1, <3>2, <4>1, <4>2
    <3>4. CASE i = cursor + 1
      BY <2>1, <3>1, <3>3, <3>4
    <3>5. CASE i # cursor + 1
      <4>1. i \in 1..cursor /\ i \in (u.cursor + 2)..cursor
        BY <1>1, <1>3, <2>4, <3>2, <3>5
      <4>2. draft'[i] = draft[i]
        BY <2>8, <3>1, <3>3, <4>1
      <4> QED BY <2>3, <4>1, <4>2
    <3> QED BY <3>4, <3>5
  <2>16. cursor' # Astray /\ u.cursor \in 0..cursor'
    BY <1>1, <1>3, <2>3 DEF Astray
  <2>17. WordInv'
    BY <2>1, <2>2, <2>3, <2>14, <2>15, <2>16, Zenon DEF WordInv, Without
  <2> QED BY <1>2, <2>17 DEF JoinInv
<1> QED BY <1>5, <1>6

-----------------------------------------------------------------------------
(* Kills.                                                                    *)
LEMMA AppendLast ==
    ASSUME NEW s \in Seq(Texts), NEW e \in Texts
    PROVE  Append(s, e) \in Seq(Texts) /\ Append(s, e) # <<>> /\ Last(Append(s, e)) = e
<1>1. /\ Append(s, e) \in Seq(Texts) /\ Append(s, e) # <<>>
      /\ Len(Append(s, e)) = Len(s) + 1 /\ Append(s, e)[Len(s) + 1] = e
  BY AppendProperties
<1> QED BY <1>1 DEF Last

LEMMA KillJoins ==
    ASSUME EditTypes, JoinInv, NEW from \in 0..Len(draft), NEW to \in from..Len(draft),
           NEW prepend \in BOOLEAN, Kill(from, to, prepend), cursor' = from,
           cursor = IF prepend THEN to ELSE from,
           preferred' \in {NoColumn, preferred}, snapped' \in {NoColumn, snapped}
    PROVE  EditTypes' /\ JoinInv'
<1>1. /\ draft' = Without(from, to) /\ Edit(0) /\ Snapshot /\ UNCHANGED markerVars
      /\ lastAction' = "kill"
      /\ ring' = IF lastAction = "kill"
                 THEN Append(Front(ring), Merged(SubSeq(draft, from + 1, to), prepend))
                 ELSE Append(ring, SubSeq(draft, from + 1, to))
      /\ before' = IF lastAction = "kill" THEN before ELSE draft
  BY DEF Kill
<1>2. draft \in Texts /\ before \in Texts /\ ring \in Seq(Texts)
  BY DEF EditTypes
<1>3. PICK a \in Texts, b \in Texts, c \in Texts :
          /\ draft = (a \o b) \o c /\ Len(a) = from /\ Len(a) + Len(b) = to
          /\ SubSeq(draft, from + 1, to) = b /\ Without(from, to) = a \o c
  BY <1>2, PartsAround, Zenon
<1>4. SUFFICES ASSUME TRUE
               PROVE  /\ ring' \in Seq(Texts) /\ ring' # <<>> /\ Last(ring') \in Texts
                      /\ before' \in Texts /\ (a \o Last(ring')) \o c = before'
  <2>1. ring' \in Seq(Texts) /\ ring' # <<>> /\ Last(ring') \in Texts
        /\ before' \in Texts /\ (a \o Last(ring')) \o c = before'
    BY <1>4
  <2>2. draft' \in Texts /\ cursor' \in 0..Len(draft')
    BY <1>1, CutType
  <2>3. EditTypes'
    BY <1>1, <2>1, <2>2, Snapped, EditKeeps, MarkersKept, EditedTypes
  <2>4. PICK t : t = a \o c
    OBVIOUS
  <2>5. PICK more \in Texts : more = Last(ring')
    BY <2>1, Zenon
  <2>6. SubSeq(t, 1, Len(a)) \o more \o SubSeq(t, Len(a) + 1, Len(t)) = (a \o more) \o c
    <3>1. SubSeq(a \o c, 1, Len(a)) \o more \o SubSeq(a \o c, Len(a) + 1, Len(a \o c))
              = (a \o more) \o c
      BY PutIn, ZenonT(40)
    <3> QED BY <2>4, <3>1, Zenon
  <2>7. SubSeq(draft', 1, cursor') \o Last(ring') \o SubSeq(draft', cursor' + 1, Len(draft'))
            = before'
    <3>1. draft' = t /\ cursor' = Len(a)
      BY <1>1, <1>3, <2>4
    <3> QED BY <2>1, <2>5, <2>6, <3>1
  <2>8. RingRestores'
    BY <1>1, <2>7, Zenon DEF RingRestores, Spliced
  <2>9. RingInv'
    <3>1. cursor' # Astray
      BY <2>2 DEF Astray
    <3> QED BY <1>1, <2>1, <3>1 DEF RingInv
  <2>10. WordInv'
    BY <1>1 DEF WordInv
  <2> QED BY <2>3, <2>8, <2>9, <2>10 DEF JoinInv
<1>5. CASE lastAction # "kill"
  <2>1. ring' = Append(ring, b) /\ before' = draft
    BY <1>1, <1>3, <1>5
  <2>2. ring' \in Seq(Texts) /\ ring' # <<>> /\ Last(ring') = b
    BY <1>2, <2>1, AppendLast
  <2> QED BY <1>2, <1>3, <2>1, <2>2
<1>6. CASE lastAction = "kill"
  <2>1. ring # <<>> /\ cursor # Astray /\ Spliced(cursor, Last(ring)) = before
    BY <1>6 DEF JoinInv, RingInv, RingRestores
  <2>2. PICK entry \in Texts : entry = Last(ring)
    BY <2>1, EntryTypes, Zenon
  <2>3. PICK m \in Texts : m = IF prepend THEN b \o entry ELSE entry \o b
    <3>1. b \o entry \in Texts /\ entry \o b \in Texts
      BY TextsJoin
    <3> QED BY <3>1
  <2>4. ring' = Append(Front(ring), m) /\ before' = before
    BY <1>1, <1>3, <1>6, <2>2, <2>3 DEF Merged
  <2>5. Front(ring) \in Seq(Texts)
    BY <2>1, EntryTypes
  <2>6. ring' \in Seq(Texts) /\ ring' # <<>> /\ Last(ring') = m
    BY <2>4, <2>5, AppendLast
  <2>7. (a \o m) \o c = before
    <3>1. CASE prepend
      <4>1. PICK ab \in Texts : ab = a \o b /\ Len(ab) = cursor
        <5>1. a \o b \in Texts /\ Len(a \o b) = Len(a) + Len(b)
          BY TextsJoin
        <5> QED BY <1>3, <3>1, <5>1
      <4>2. PICK t : t = ab \o c
        OBVIOUS
      <4>3. SubSeq(t, 1, Len(ab)) \o entry \o SubSeq(t, Len(ab) + 1, Len(t)) = (ab \o entry) \o c
        <5>1. SubSeq(ab \o c, 1, Len(ab)) \o entry
                  \o SubSeq(ab \o c, Len(ab) + 1, Len(ab \o c))
                  = (ab \o entry) \o c
          BY PutIn, Zenon
        <5> QED BY <4>2, <5>1, Zenon
      <4>4. draft = t
        BY <1>3, <4>1, <4>2
      <4>5. before = (ab \o entry) \o c
        BY <2>1, <2>2, <4>1, <4>3, <4>4 DEF Spliced
      <4>6. a \o (b \o entry) = (a \o b) \o entry
        <5>1. \A v, w \in Texts : a \o (v \o w) = (a \o v) \o w
          BY TextsGroup, Zenon
        <5>2. \A w \in Texts : a \o (b \o w) = (a \o b) \o w
          BY <5>1, Zenon
        <5> QED BY <5>2, Zenon
      <4>7. m = b \o entry
        BY <2>3, <3>1
      <4> QED BY <4>1, <4>5, <4>6, <4>7, Zenon
    <3>2. CASE ~prepend
      <4>1. PICK bc \in Texts : bc = b \o c
        <5>1. b \o c \in Texts
          BY TextsJoin
        <5> QED BY <5>1, Zenon
      <4>2. PICK t : t = a \o bc
        OBVIOUS
      <4>3. SubSeq(t, 1, Len(a)) \o entry \o SubSeq(t, Len(a) + 1, Len(t)) = (a \o entry) \o bc
        <5>1. \A y, more \in Texts :
                  SubSeq(a \o y, 1, Len(a)) \o more \o SubSeq(a \o y, Len(a) + 1, Len(a \o y))
                      = (a \o more) \o y
          BY PutIn, Zenon
        <5>2. SubSeq(a \o bc, 1, Len(a)) \o entry \o SubSeq(a \o bc, Len(a) + 1, Len(a \o bc))
                  = (a \o entry) \o bc
          BY <5>1, Zenon
        <5> QED BY <4>2, <5>2, Zenon
      <4>4. draft = t
        <5>1. a \o (b \o c) = (a \o b) \o c
          <6>1. \A v, w \in Texts : a \o (v \o w) = (a \o v) \o w
            BY TextsGroup, Zenon
          <6>2. \A w \in Texts : a \o (b \o w) = (a \o b) \o w
            BY <6>1, Zenon
          <6> QED BY <6>2, Zenon
        <5> QED BY <1>3, <4>1, <4>2, <5>1
      <4>5. before = (a \o entry) \o bc
        BY <1>3, <2>1, <2>2, <3>2, <4>3, <4>4 DEF Spliced
      <4>6. (a \o (entry \o b)) \o c = (a \o entry) \o (b \o c)
        <5>1. \A y, z, w \in Texts : (a \o (y \o z)) \o w = (a \o y) \o (z \o w)
          BY TextsRegroup, Zenon
        <5>2. \A z, w \in Texts : (a \o (entry \o z)) \o w = (a \o entry) \o (z \o w)
          BY <5>1, Zenon
        <5> QED BY <5>2, Zenon
      <4>7. m = entry \o b
        BY <2>3, <3>2
      <4> QED BY <4>1, <4>5, <4>6, <4>7, Zenon
    <3> QED BY <3>1, <3>2
  <2> QED BY <1>2, <2>4, <2>6, <2>7
<1> QED BY <1>5, <1>6

LEMMA KillBackJoins ==
    ASSUME EditTypes, JoinInv, KillBack
    PROVE  EditTypes' /\ JoinInv'
<1>1. PICK from : /\ from \in {WordBack, IF cursor > LineStart THEN LineStart ELSE cursor - 1}
                  /\ Kill(from, cursor, TRUE) /\ Place(from) /\ cursor > 0
  BY DEF KillBack
<1>2. draft \in Texts /\ cursor \in 1..Len(draft) /\ Len(draft) \in Nat
  <2>1. cursor # Astray
    BY <1>1 DEF Kill, Edit
  <2> QED BY <1>1, <2>1 DEF EditTypes, Texts
<1>3. from \in 0..(cursor - 1)
  <2>1. WordBack \in 0..(cursor - 1)
    BY <1>2, WordBackIn
  <2>2. PICK l \in 0..cursor : l = LineStart
    BY <1>2, LineFacts DEF LineStart
  <2>3. (IF cursor > LineStart THEN LineStart ELSE cursor - 1) \in 0..(cursor - 1)
    BY <1>2, <2>2
  <2> QED BY <1>1, <2>1, <2>3
<1>4. from \in 0..Len(draft) /\ cursor \in from..Len(draft)
  BY <1>2, <1>3
<1>5. PICK to \in from..Len(draft), prepend \in BOOLEAN : to = cursor /\ prepend = TRUE
  BY <1>4
<1>6. Kill(from, to, prepend) /\ cursor' = from /\ cursor = IF prepend THEN to ELSE from
  BY <1>1, <1>5, PlaceColumns
<1> QED BY <1>1, <1>4, <1>6, PlaceColumns, KillJoins

LEMMA KillAheadJoins ==
    ASSUME EditTypes, JoinInv, KillLineAhead \/ KillWordAhead
    PROVE  EditTypes' /\ JoinInv'
<1>1. PICK to : /\ to \in {WordAhead, IF cursor < LineEnd THEN LineEnd ELSE cursor + 1}
                /\ Kill(cursor, to, FALSE) /\ (Place(cursor) \/ Stay)
                /\ cursor # Astray /\ cursor < Len(draft)
  BY DEF KillLineAhead, KillWordAhead
<1>2. draft \in Texts /\ cursor \in 0..Len(draft) /\ Len(draft) \in Nat
  BY <1>1 DEF EditTypes, Texts
<1>3. to \in cursor..Len(draft)
  <2>1. WordAhead \in cursor..Len(draft)
    BY <1>1, <1>2, WordAheadIn
  <2>2. PICK l \in cursor..Len(draft) : l = LineEnd
    BY <1>2, LineFacts DEF LineEnd
  <2>3. (IF cursor < LineEnd THEN LineEnd ELSE cursor + 1) \in cursor..Len(draft)
    BY <1>1, <1>2, <2>2
  <2> QED BY <1>1, <2>1, <2>3
<1>4. PICK from \in 0..Len(draft) : from = cursor /\ to \in from..Len(draft)
  BY <1>2, <1>3
<1>5. PICK prepend \in BOOLEAN : prepend = FALSE
  OBVIOUS
<1>6. /\ cursor' = from
      /\ preferred' \in {NoColumn, preferred} /\ snapped' \in {NoColumn, snapped}
  BY <1>1, <1>4, PlaceColumns, StayColumns
<1>7. Kill(from, to, prepend) /\ cursor = IF prepend THEN to ELSE from
  BY <1>1, <1>4, <1>5
<1> QED BY <1>4, <1>6, <1>7, KillJoins

-----------------------------------------------------------------------------
(* Yanks.                                                                    *)
\* After a yank: the text is the one before with an entry of the ring in it.
LEMMA YankedJoins ==
    ASSUME NEW a \in Texts, NEW m \in Texts, NEW c \in Texts,
           draft' = (a \o m) \o c, cursor' = Len(a) + Len(m), ring' # <<>>, Last(ring') = m,
           before' = a \o c, lastAction' = "yank"
    PROVE  JoinInv' /\ cursor' \in 0..Len(draft') /\ draft' \in Texts
<1>1. PICK i \in Nat, j \in Nat, k \in Nat : i = Len(a) /\ j = Len(m) /\ k = Len(c)
  <2>1. Len(a) \in Nat /\ Len(m) \in Nat /\ Len(c) \in Nat
    BY DEF Texts
  <2> QED BY <2>1, Zenon
<1>2. (a \o m) \o c \in Texts /\ Len((a \o m) \o c) = i + j + k
  <2>1. PICK am \in Texts : am = a \o m /\ Len(am) = i + j
    <3>1. a \o m \in Texts /\ Len(a \o m) = Len(a) + Len(m)
      BY TextsJoin
    <3> QED BY <1>1, <3>1, Zenon
  <2>2. am \o c \in Texts /\ Len(am \o c) = Len(am) + Len(c)
    BY TextsJoin
  <2> QED BY <1>1, <2>1, <2>2, Zenon
<1>3. cursor' = i + j /\ Len(draft') = i + j + k
  BY <1>1, <1>2
<1>4. cursor' \in 0..Len(draft') /\ cursor' # Astray /\ cursor' - j = i /\ j <= cursor'
  BY <1>3 DEF Astray
<1>5. PICK t : t = (a \o m) \o c
  OBVIOUS
<1>6. /\ SubSeq(t, 1, Len(a)) \o SubSeq(t, Len(a) + Len(m) + 1, Len(t)) = a \o c
      /\ SubSeq(t, Len(a) + 1, Len(a) + Len(m)) = m
  <2>1. /\ SubSeq((a \o m) \o c, 1, Len(a))
               \o SubSeq((a \o m) \o c, Len(a) + Len(m) + 1, Len((a \o m) \o c))
               = a \o c
        /\ SubSeq((a \o m) \o c, Len(a) + 1, Len(a) + Len(m)) = m
    BY TakenOut, Zenon
  <2> QED BY <1>5, <2>1, Zenon
<1>7. /\ SubSeq(draft', 1, i) \o SubSeq(draft', cursor' + 1, Len(draft')) = before'
      /\ SubSeq(draft', i + 1, cursor') = Last(ring')
  <2>1. draft' = t
    BY <1>5
  <2> QED BY <1>1, <1>6, <2>1, Zenon
<1>8. Len(Last(ring')) = j /\ cursor' - Len(Last(ring')) = i
  BY <1>1, <1>4
<1>9. RingRestores'
  BY <1>7, <1>8, Zenon DEF RingRestores, Without
<1>10. RingInv'
  BY <1>4, <1>8 DEF RingInv
<1>11. WordInv'
  BY DEF WordInv
<1> QED BY <1>2, <1>4, <1>9, <1>10, <1>11 DEF JoinInv

LEMMA YankJoins ==
    ASSUME EditTypes, JoinInv, Yank
    PROVE  EditTypes' /\ JoinInv'
<1>1. /\ ring # <<>> /\ Edit(Len(Last(ring))) /\ draft' = Spliced(cursor, Last(ring))
      /\ Place(cursor + Len(Last(ring))) /\ Snapshot /\ lastAction' = "yank"
      /\ before' = draft /\ ring' = ring /\ UNCHANGED markerVars
  BY DEF Yank
<1>2. PICK entry \in Texts : entry = Last(ring)
  BY <1>1, EntryTypes, Zenon
<1>3. draft \in Texts /\ ring \in Seq(Texts)
  BY DEF EditTypes
<1>4. PICK i \in 0..Len(draft) : i = cursor
  BY <1>1, EditKeeps DEF EditTypes
<1>5. PICK a \in Texts, c \in Texts :
          draft = a \o c /\ Len(a) = i /\ Spliced(i, entry) = (a \o entry) \o c
  BY <1>3, PartsAt, Zenon
<1>6. draft' = (a \o entry) \o c /\ cursor' = Len(a) + Len(entry)
  BY <1>1, <1>2, <1>4, <1>5, PlaceColumns
<1>7. JoinInv' /\ cursor' \in 0..Len(draft') /\ draft' \in Texts
  <2>1. ring' # <<>> /\ Last(ring') = entry /\ before' = a \o c /\ lastAction' = "yank"
    BY <1>1, <1>2, <1>5
  <2> QED BY <1>6, <2>1, YankedJoins
<1>8. EditTypes'
  BY <1>1, <1>3, <1>7, Snapped, PlaceColumns, EditKeeps, MarkersKept, EditedTypes
<1> QED BY <1>7, <1>8

LEMMA RotatedIs ==
    ASSUME ring \in Seq(Texts), Len(ring) > 1
    PROVE  /\ Rotated \in Seq(Texts) /\ Rotated # <<>> /\ Last(Front(ring)) \in Texts
           /\ Last(Rotated) = Last(Front(ring)) /\ Last(ring) \in Texts
<1>1. PICK K \in Nat : K = Len(ring) /\ K > 1
  OBVIOUS
<1>2. ring[K] \in Texts /\ ring[K - 1] \in Texts
  <2>1. K \in 1..Len(ring) /\ K - 1 \in 1..Len(ring)
    BY <1>1
  <2> QED BY <2>1, ElementOfSeq
<1>3. PICK n \in 0..Len(ring) : n = K - 1 /\ n \in Nat /\ n # 0
  BY <1>1
<1>4. PICK f \in Seq(Texts) : f = Front(ring) /\ Len(f) = n /\ f[n] = ring[K - 1]
  <2>1. /\ SubSeq(ring, 1, n) \in Seq(Texts) /\ Len(SubSeq(ring, 1, n)) = n
        /\ \A i \in 1..n : SubSeq(ring, 1, n)[i] = ring[i]
    BY AfterFacts
  <2>2. n \in 1..n
    BY <1>3
  <2>3. Front(ring) = SubSeq(ring, 1, n)
    BY <1>1, <1>3 DEF Front
  <2> QED BY <1>3, <2>1, <2>2, <2>3
<1>5. Last(ring) = ring[K] /\ Last(f) = f[n]
  BY <1>1, <1>4 DEF Last
<1>6. PICK one \in Seq(Texts) : one = <<Last(ring)>> /\ Len(one) = 1
  <2>1. Last(ring) \in Texts
    BY <1>2, <1>5
  <2>2. PICK e \in Texts : e = Last(ring)
    BY <2>1, Zenon
  <2>3. <<e>> \in Seq(Texts) /\ Len(<<e>>) = 1
    OBVIOUS
  <2> QED BY <2>2, <2>3, Zenon
<1>7. /\ one \o f \in Seq(Texts) /\ Len(one \o f) = 1 + n
      /\ \A i \in 1..Len(f) : (one \o f)[1 + i] = f[i]
  BY <1>4, <1>6, TwoPlaces
<1>8. PICK r \in Seq(Texts) : r = Rotated /\ r = one \o f
  BY <1>4, <1>6, <1>7 DEF Rotated
<1>9. Len(r) = 1 + n /\ r[1 + n] = f[n] /\ r # <<>>
  <2>1. n \in 1..Len(f)
    BY <1>3, <1>4
  <2>2. Len(r) = 1 + n /\ r[1 + n] = f[n]
    BY <1>7, <1>8, <2>1
  <2>3. r # <<>>
    BY <1>3, <2>2, EmptySeq
  <2> QED BY <2>2, <2>3
<1>10. Last(r) = f[n]
  BY <1>9 DEF Last
<1> QED BY <1>2, <1>4, <1>5, <1>8, <1>9, <1>10

LEMMA YankPopJoins ==
    ASSUME EditTypes, JoinInv, YankPop
    PROVE  EditTypes' /\ JoinInv'
<1>1. PICK from : from = cursor - Len(Last(ring))
  OBVIOUS
<1>2. PICK next : next = Last(Front(ring))
  OBVIOUS
<1>3. /\ lastAction = "yank" /\ Len(ring) > 1 /\ Edit(Len(next))
      /\ draft' = SubSeq(draft, 1, from) \o next \o SubSeq(draft, cursor + 1, Len(draft))
      /\ Place(from + Len(next)) /\ ring' = Rotated /\ Snapshot
      /\ lastAction' = lastAction /\ before' = before /\ UNCHANGED markerVars
  BY <1>1, <1>2 DEF YankPop
<1>4. draft \in Texts /\ ring \in Seq(Texts) /\ cursor \in 0..Len(draft) /\ before \in Texts
  BY <1>3, EditKeeps DEF EditTypes
<1>5. /\ Rotated \in Seq(Texts) /\ Rotated # <<>> /\ next \in Texts
      /\ Last(Rotated) = next /\ Last(ring) \in Texts
  BY <1>2, <1>3, <1>4, RotatedIs
<1>6. /\ Len(Last(ring)) <= cursor /\ SubSeq(draft, from + 1, cursor) = Last(ring)
      /\ Without(from, cursor) = before
  BY <1>1, <1>3 DEF JoinInv, RingInv, RingRestores
<1>7. PICK i \in 0..Len(draft) : i = from /\ cursor \in i..Len(draft)
  <2>1. Len(Last(ring)) \in Nat /\ Len(draft) \in Nat
    BY <1>4, <1>5 DEF Texts
  <2> QED BY <1>1, <1>4, <1>6, <2>1
<1>8. PICK j \in i..Len(draft) : j = cursor
  BY <1>7
<1>9. PICK a \in Texts, b \in Texts, c \in Texts :
          /\ draft = (a \o b) \o c /\ Len(a) = i /\ Len(a) + Len(b) = j
          /\ SubSeq(draft, i + 1, j) = b /\ Without(i, j) = a \o c
  BY <1>4, PartsAround, Zenon
<1>10. SubSeq(draft, 1, from) = a /\ SubSeq(draft, cursor + 1, Len(draft)) = c
  <2>1. a \in Seq(Chars) /\ b \in Seq(Chars) /\ c \in Seq(Chars)
    BY DEF Texts
  <2>2. /\ SubSeq((a \o b) \o c, 1, Len(a)) = a
        /\ SubSeq((a \o b) \o c, Len(a) + Len(b) + 1, Len((a \o b) \o c)) = c
    BY <2>1, ThreeSubs
  <2> QED BY <1>7, <1>8, <1>9, <2>2
<1>11. draft' = (a \o next) \o c /\ cursor' = Len(a) + Len(next)
  BY <1>3, <1>7, <1>9, <1>10, PlaceColumns
<1>12. JoinInv' /\ cursor' \in 0..Len(draft') /\ draft' \in Texts
  <2>1. ring' # <<>> /\ Last(ring') = next /\ before' = a \o c /\ lastAction' = "yank"
    BY <1>3, <1>5, <1>6, <1>7, <1>8, <1>9
  <2> QED BY <1>5, <1>11, <2>1, YankedJoins
<1>13. EditTypes'
  <2>1. ring' \in Seq(Texts) /\ before' \in Texts /\ lastAction' \in {"none", "word", "kill", "yank"}
    BY <1>3, <1>4, <1>5
  <2> QED BY <1>3, <1>12, <2>1, Snapped, PlaceColumns, EditKeeps, MarkersKept, EditedTypes
<1> QED BY <1>12, <1>13

-----------------------------------------------------------------------------
(* Every step of the editor.                                                 *)
EditInv == EditTypes /\ JoinInv

LEMMA EditorStarts ==
    ASSUME EditorInit
    PROVE  EditInv
<1>1. PICK start \in Starts :
          /\ draft = Last(start)
          /\ undoStack = [n \in 1..(Len(start) - 1) |->
                             [text |-> start[n], cursor |-> Len(start[n])]]
  BY DEF EditorInit
<1>2. PICK s \in Seq(Texts) : s = start /\ s # <<>>
  BY TextsAssumption
<1>3. PICK K \in Nat : K = Len(s) /\ K # 0
  BY <1>2, EmptySeq
<1>4. \A n \in 1..K : s[n] \in Texts
  BY <1>3, ElementOfSeq
<1>5. draft \in Texts
  <2>1. draft = s[K]
    BY <1>1, <1>2, <1>3 DEF Last
  <2> QED BY <1>3, <1>4, <2>1
<1>6. undoStack \in Seq(Snapshots)
  <2>1. PICK n \in Nat : n = K - 1
    BY <1>3
  <2>2. ASSUME NEW i \in 1..n PROVE [text |-> s[i], cursor |-> Len(s[i])] \in Snapshots
    <3>1. PICK t \in Texts : t = s[i]
      BY <1>4, <2>1
    <3>2. Len(t) \in 0..Len(t) /\ Len(t) \in Int
      BY DEF Texts
    <3>3. [text |-> t, cursor |-> Len(t)] \in Snapshots
      BY <3>2 DEF Snapshots
    <3> QED BY <3>1, <3>3
  <2>3. [i \in 1..n |-> [text |-> s[i], cursor |-> Len(s[i])]] \in Seq(Snapshots)
    BY <2>2
  <2> QED BY <1>1, <1>2, <1>3, <2>1, <2>3
<1>7. serial \in Nat
  <2>1. PICK L \in Nat : L = Len(draft) /\ DOMAIN draft = 1..L
    BY <1>5 DEF Texts
  <2>2. IsFiniteSet(1..L)
    BY FS_Interval
  <2> DEFINE tails == {i \in DOMAIN draft : draft[i].kind = "tail"}
  <2>3. tails \subseteq 1..L
    BY <2>1
  <2>4. serial = Cardinality(tails)
    BY DEF EditorInit, Tails
  <2> HIDE DEF tails
  <2> QED BY <2>2, <2>3, <2>4, FS_Subset, FS_CardinalityType
<1>8. pastes \in Seq(Nat)
  <2>1. pastes = [id \in 1..serial |-> id]
    BY DEF EditorInit
  <2> QED BY <1>7, <2>1
<1>9. cursor \in 0..Len(draft)
  BY <1>5 DEF EditorInit, Texts
<1>10. /\ width \in Nat /\ preferred \in Int /\ snapped \in Int /\ browsing \in Nat
       /\ ring \in Seq(Texts) /\ history \in Seq(Texts)
       /\ before \in Texts /\ lastAction = "none"
  BY WidthsAssumption, TextsAssumption, CharTypes DEF EditorInit, NoColumn
<1>11. EditTypes
  BY <1>5, <1>6, <1>7, <1>8, <1>9, <1>10 DEF EditTypes
<1>12. JoinInv
  BY <1>10 DEF JoinInv, WordInv, RingInv, RingRestores
<1> QED BY <1>11, <1>12 DEF EditInv

LEMMA EditorStep ==
    ASSUME EditInv, EditorNext
    PROVE  EditInv'
<1>0. EditTypes /\ JoinInv
  BY DEF EditInv
<1>1. \A kind \in Kinds : Char(kind) \in Chars
  BY CharTypes
<1>2. ASSUME NEW kind \in Kinds, Type(Char(kind)) PROVE EditInv'
  BY <1>0, <1>1, <1>2, TypeTypes, TypeJoins DEF EditInv
<1>3. ASSUME NEW kind \in Kinds, ApplyCompletion(Char(kind)) PROVE EditInv'
  <2>1. Forgets
    BY <1>3 DEF ApplyCompletion
  <2> QED BY <1>0, <1>1, <1>3, <2>1, CompletionTypes, JoinForgets DEF EditInv
<1>4. ASSUME NEW more \in Texts, Paste(more) PROVE EditInv'
  <2>1. Forgets
    BY <1>4 DEF Paste, Insert
  <2> QED BY <1>0, <1>4, <2>1, PasteTypes, JoinForgets DEF EditInv
<1>5. ASSUME NEW d \in Texts, GiveBack(d) PROVE EditInv'
  <2>1. Forgets
    BY <1>5 DEF GiveBack, SetText
  <2> QED BY <1>0, <1>5, <2>1, GiveBackTypes, JoinForgets DEF EditInv
<1>6. CASE PasteLong
  <2>1. Forgets
    BY <1>6 DEF PasteLong, Insert
  <2> QED BY <1>0, <1>6, <2>1, PasteLongTypes, JoinForgets DEF EditInv
<1>7. CASE BreakLine
  <2>1. Forgets
    BY <1>7 DEF BreakLine
  <2> QED BY <1>0, <1>7, <2>1, BreakLineTypes, JoinForgets DEF EditInv
<1>8. CASE SetText(<<>>)
  <2>1. Forgets
    BY <1>8 DEF SetText
  <2>2. <<>> \in Texts
    BY CharTypes
  <2> QED BY <1>0, <1>8, <2>1, <2>2, SetTextTypes, JoinForgets DEF EditInv
<1>9. CASE Backspace
  <2>1. Forgets
    BY <1>9 DEF Backspace
  <2> QED BY <1>0, <1>9, <2>1, BackspaceTypes, JoinForgets DEF EditInv
<1>10. CASE Delete
  <2>1. Forgets
    BY <1>10 DEF Delete
  <2> QED BY <1>0, <1>10, <2>1, DeleteTypes, JoinForgets DEF EditInv
<1>11. CASE NothingToTake
  <2>1. EditTypes'
    BY <1>0, <1>11, NothingTypes
  <2>2. JoinInv'
    <3>1. Forgets \/ UNCHANGED <<draft, cursor, killVars, undoStack>>
      BY <1>11 DEF NothingToTake
    <3> QED BY <1>0, <3>1, JoinForgets, JoinKept
  <2> QED BY <2>1, <2>2 DEF EditInv
<1>12. CASE KillBack \/ KillLineAhead \/ KillWordAhead
  BY <1>0, <1>12, KillBackJoins, KillAheadJoins DEF EditInv
<1>13. CASE Yank \/ YankPop
  BY <1>0, <1>13, YankJoins, YankPopJoins DEF EditInv
<1>14. CASE Undo
  <2>1. Forgets
    BY <1>14 DEF Undo
  <2> QED BY <1>0, <1>14, <2>1, UndoTypes, JoinForgets DEF EditInv
<1>15. CASE Submit
  <2>1. Forgets
    BY <1>15 DEF Submit
  <2> QED BY <1>0, <1>15, <2>1, SubmitTypes, JoinForgets DEF EditInv
<1>16. CASE Step
  <2>1. Forgets
    BY <1>16 DEF Step, Go, Moved
  <2> QED BY <1>0, <1>16, <2>1, StepTypes, JoinForgets DEF EditInv
<1>17. CASE StepAtEnd
  <2>1. Forgets
    BY <1>17 DEF StepAtEnd, Moved
  <2> QED BY <1>0, <1>17, <2>1, StepAtEndTypes, JoinForgets DEF EditInv
<1>18. ASSUME NEW kind, Jump(kind) PROVE EditInv'
  <2>1. Forgets
    BY <1>18 DEF Jump, Moved
  <2> QED BY <1>0, <1>18, <2>1, JumpTypes, JoinForgets DEF EditInv
<1>19. CASE UpOrDown
  <2>1. Forgets
    BY <1>19 DEF UpOrDown, Browse, Go, Vertical, Moved
  <2> QED BY <1>0, <1>19, <2>1, UpOrDownTypes, JoinForgets DEF EditInv
<1>20. CASE Resize
  <2>1. UNCHANGED <<draft, cursor, killVars, undoStack>>
    BY <1>20 DEF Resize
  <2> QED BY <1>0, <1>20, <2>1, ResizeTypes, JoinKept DEF EditInv
<1>21. <<NL>> \in Texts /\ \A d \in Drafts : d \in Texts
  BY CharTypes
<1> QED BY <1>2, <1>3, <1>4, <1>5, <1>6, <1>7, <1>8, <1>9, <1>10, <1>11, <1>12, <1>13, <1>14,
           <1>15, <1>16, <1>17, <1>18, <1>19, <1>20, <1>21 DEF EditorNext

LEMMA EditorInvariant == EditorSpec => []EditInv
<1>1. EditorInit => EditInv
  BY EditorStarts
<1>2. EditInv /\ [EditorNext]_editorVars => EditInv'
  <2> SUFFICES ASSUME EditInv, [EditorNext]_editorVars PROVE EditInv'
    OBVIOUS
  <2>1. CASE UNCHANGED editorVars
    <3>1. /\ draft' = draft /\ cursor' = cursor /\ width' = width /\ undoStack' = undoStack
          /\ history' = history /\ browsing' = browsing
          /\ preferred' = preferred /\ snapped' = snapped
          /\ pastes' = pastes /\ serial' = serial /\ UNCHANGED killVars
      BY <2>1 DEF editorVars, columnVars, markerVars
    <3>2. EditTypes'
      BY <3>1 DEF EditInv, EditTypes, killVars
    <3>3. JoinInv'
      BY <3>1, JoinKept DEF EditInv
    <3> QED BY <3>2, <3>3 DEF EditInv
  <2> QED BY <2>1, EditorStep
<1> QED BY <1>1, <1>2, PTL DEF EditorSpec

\* What a run of kills took restores the text where it is put back, and a yank, popped or
\* not, is one entry of the kill ring in the text before it: whatever else a key does, it
\* ends the run, or the text it would be put back into is the one it was taken from.
THEOREM KillsRestore == EditorSpec => []RingRestores
<1>1. EditInv => RingRestores
  BY DEF EditInv, JoinInv
<1> QED BY <1>1, EditorInvariant, PTL

-----------------------------------------------------------------------------
(* What an undo brings back.                                                 *)
LEMMA Recorded ==
    ASSUME EditTypes, Snapshot
    PROVE  Here \in Range(undoStack')
  BY HereIs DEF Snapshot

\* An undo after typing takes one word, with the space before it.
LEMMA UndoesWord ==
    ASSUME EditTypes, WordInv, Undo, lastAction = "word"
    PROVE  LET typed == SubSeq(draft, cursor' + 1, cursor)
           IN  /\ Without(cursor', cursor) = draft'
               /\ \A i \in 2..Len(typed) : typed[i] # Space
<1>1. PICK u : u = Last(undoStack)
  OBVIOUS
<1>2. draft' = u.text /\ cursor' = u.cursor /\ cursor # Astray
  BY <1>1 DEF Undo
<1>3. /\ u.cursor \in 0..cursor /\ u.text = Without(u.cursor, cursor)
      /\ \A i \in (u.cursor + 2)..cursor : draft[i] # Space
  BY <1>1 DEF WordInv
<1>4. PICK K \in Nat : K = Len(draft) /\ draft \in Seq(Chars)
  BY DEF EditTypes, Texts
<1>5. cursor \in 0..K
  BY <1>2, <1>4 DEF EditTypes
<1>6. PICK from \in 0..cursor : from = u.cursor
  BY <1>3
<1>7. \A i \in (from + 1)..cursor : draft[i] \in Chars
  BY <1>4, <1>5
<1>8. PICK typed \in Seq(Chars) :
          /\ typed = SubSeq(draft, from + 1, cursor)
          /\ Len(typed) = IF from + 1 <= cursor THEN cursor - (from + 1) + 1 ELSE 0
          /\ \A i \in 1..(cursor - (from + 1) + 1) : typed[i] = draft[from + 1 + i - 1]
  <2>1. from + 1 \in Int /\ cursor \in Int
    BY <1>5
  <2>2. /\ SubSeq(draft, from + 1, cursor) \in Seq(Chars)
        /\ Len(SubSeq(draft, from + 1, cursor))
              = IF from + 1 <= cursor THEN cursor - (from + 1) + 1 ELSE 0
        /\ \A i \in 1..(cursor - (from + 1) + 1) :
              SubSeq(draft, from + 1, cursor)[i] = draft[from + 1 + i - 1]
    BY <1>7, <2>1, SubSeqProperties
  <2> QED BY <2>2, Zenon
<1>9. ASSUME NEW i \in 2..Len(typed) PROVE typed[i] # Space
  <2>1. from + 1 + i - 1 \in (from + 2)..cursor /\ i \in 1..(cursor - (from + 1) + 1)
    BY <1>5, <1>8
  <2>2. typed[i] = draft[from + 1 + i - 1]
    BY <1>8, <2>1
  <2> QED BY <1>3, <1>6, <2>1, <2>2
<1>10. cursor' = from /\ Without(from, cursor) = draft'
  BY <1>2, <1>3, <1>6
<1> QED BY <1>8, <1>9, <1>10

\* A text that an edit replaces is on the undo stack, or typing goes on with a word.
LEMMA EditRecords ==
    ASSUME EditTypes, EditorNext, draft' # draft, ~Undo, ~Submit, browsing = 0
    PROVE  \/ Here \in Range(undoStack')
           \/ lastAction = "word" /\ lastAction' = "word" /\ undoStack' = undoStack
<1>1. ASSUME NEW kind \in Kinds, Type(Char(kind)) PROVE
          \/ Here \in Range(undoStack')
          \/ lastAction = "word" /\ lastAction' = "word" /\ undoStack' = undoStack
  BY <1>1, Recorded DEF Type, Coalesces
<1>2. ASSUME NEW kind \in Kinds, ApplyCompletion(Char(kind)) PROVE Here \in Range(undoStack')
  BY <1>2, Recorded DEF ApplyCompletion
<1>3. ASSUME NEW more, Paste(more) PROVE Here \in Range(undoStack')
  BY <1>3, Recorded DEF Paste, Insert
<1>4. ASSUME NEW t, SetText(t) PROVE Here \in Range(undoStack')
  BY <1>4, Recorded DEF SetText
<1>5. ASSUME NEW d, GiveBack(d) PROVE Here \in Range(undoStack')
  BY <1>4, <1>5 DEF GiveBack
<1>6. CASE PasteLong
  BY <1>6, Recorded DEF PasteLong, Insert
<1>7. CASE BreakLine
  BY <1>7, BreakLineTypes
<1>8. CASE Backspace
  BY <1>8, Recorded DEF Backspace
<1>9. CASE Delete
  BY <1>9, Recorded DEF Delete
<1>10. CASE NothingToTake
  BY <1>10 DEF NothingToTake
<1>11. CASE KillBack \/ KillLineAhead \/ KillWordAhead
  <2>1. Snapshot
    BY <1>11 DEF KillBack, KillLineAhead, KillWordAhead, Kill
  <2> QED BY <2>1, Recorded
<1>12. CASE Yank \/ YankPop
  <2>1. Snapshot
    BY <1>12 DEF Yank, YankPop
  <2> QED BY <2>1, Recorded
<1>13. ASSUME NEW c, Go(c) PROVE FALSE
  BY <1>13 DEF Go, Moved
<1>14. CASE Step \/ StepAtEnd \/ Resize \/ \E kind \in {"word", "space", "tail"} : Jump(kind)
  BY <1>13, <1>14 DEF Step, StepAtEnd, Resize, Jump, Moved
<1>15. CASE UpOrDown
  <2>1. ASSUME NEW n, Browse(n) PROVE Here \in Range(undoStack')
    <3>1. Snapshot
      BY <2>1 DEF Browse
    <3> QED BY <3>1, Recorded
  <2>2. ASSUME NEW lines, NEW n, Vertical(lines, n) PROVE FALSE
    BY <2>2 DEF Vertical, Moved
  <2> QED BY <1>13, <1>15, <2>1, <2>2 DEF UpOrDown
<1> QED BY <1>1, <1>2, <1>3, <1>4, <1>5, <1>6, <1>7, <1>8, <1>9, <1>10, <1>11, <1>12, <1>14,
           <1>15 DEF EditorNext

\* No key, paste, completion or given back message replaces a text that an undo does not
\* bring back, other than one taken from the history; and after typing an undo takes back
\* one word with the space before it, and nothing else.
THEOREM EditsUndone == EditorSpec => EditsCanBeUndone
<1>1. EditInv /\ [EditorNext]_editorVars => [Undoable]_editorVars
  <2> SUFFICES ASSUME EditInv, EditorNext PROVE Undoable
    OBVIOUS
  <2>1. EditTypes /\ WordInv
    BY DEF EditInv, JoinInv
  <2>2. undoStack' = undoStack => IsPrefix(undoStack, undoStack')
    <3>1. undoStack \in Seq(Snapshots)
      BY <2>1 DEF EditTypes
    <3>2. Len(undoStack) <= Len(undoStack)
      BY <3>1
    <3> QED BY <3>2 DEF IsPrefix
  <2>3. draft' # draft /\ ~Undo /\ ~Submit /\ browsing = 0 =>
          \/ Here \in Range(undoStack')
          \/ lastAction = "word" /\ lastAction' = "word" /\ IsPrefix(undoStack, undoStack')
    BY <2>1, <2>2, EditRecords
  <2>4. Undo /\ lastAction = "word" =>
          LET typed == SubSeq(draft, cursor' + 1, cursor)
          IN  /\ Without(cursor', cursor) = draft'
              /\ \A i \in 2..Len(typed) : typed[i] # Space
    BY <2>1, UndoesWord
  <2> QED BY <2>3, <2>4 DEF Undoable
<1> QED BY <1>1, EditorInvariant, PTL DEF EditorSpec, EditsCanBeUndone

-----------------------------------------------------------------------------
(* Markers stay whole.                                                       *)
\* Texts in which the tails of pastes after the number lo follow their brackets, have one of
\* n ids and are none after the number hi.
LateTail(ch, lo) == ch.kind = "tail" /\ ch.serial > lo
Wholes(n, lo, hi) ==
    {t \in Texts : \A i \in 1..Len(t) : LateTail(t[i], lo) =>
        /\ i > 1 /\ t[i - 1] = Open /\ t[i].id \in 1..n /\ t[i].serial <= hi}
BetweenMarkers(t, c, lo) == c + 1 \in 1..Len(t) => ~LateTail(t[c + 1], lo)
Outsiders(n, lo, hi) ==
    {s \in Snapshots : s.text \in Wholes(n, lo, hi) /\ BetweenMarkers(s.text, s.cursor, lo)}

LEMMA WholeParts ==
    ASSUME NEW n, NEW lo, NEW hi, NEW x \in Texts, NEW y \in Texts,
           x \o y \in Wholes(n, lo, hi)
    PROVE  /\ x \in Wholes(n, lo, hi)
           /\ BetweenMarkers(x \o y, Len(x), lo) => y \in Wholes(n, lo, hi)
<1>1. PICK t \in Texts : t = x \o y
  BY DEF Wholes
<1>2. PICK K \in Nat, M \in Nat : /\ K = Len(x) /\ M = Len(y) /\ Len(t) = K + M
                                  /\ \A i \in 1..K : t[i] = x[i]
                                  /\ \A i \in 1..M : t[K + i] = y[i]
  <2>1. /\ Len(x \o y) = Len(x) + Len(y) /\ Len(x) \in Nat /\ Len(y) \in Nat
        /\ \A i \in 1..Len(x) : (x \o y)[i] = x[i]
        /\ \A i \in 1..Len(y) : (x \o y)[Len(x) + i] = y[i]
    BY TextsJoin
  <2> QED BY <1>1, <2>1
<1>3. ASSUME NEW i \in 1..(K + M), LateTail(t[i], lo)
      PROVE  i > 1 /\ t[i - 1] = Open /\ t[i].id \in 1..n /\ t[i].serial <= hi
  BY <1>1, <1>2, <1>3 DEF Wholes
<1>4. ASSUME NEW i \in 1..K, LateTail(x[i], lo)
      PROVE  i > 1 /\ x[i - 1] = Open /\ x[i].id \in 1..n /\ x[i].serial <= hi
  <2>1. i \in 1..(K + M) /\ t[i] = x[i]
    BY <1>2
  <2>2. i > 1 /\ t[i - 1] = Open /\ x[i].id \in 1..n /\ x[i].serial <= hi
    BY <1>3, <1>4, <2>1
  <2>3. i - 1 \in 1..K
    BY <2>2
  <2>4. t[i - 1] = x[i - 1]
    BY <1>2, <2>3
  <2> QED BY <2>2, <2>4
<1>5. ASSUME ~LateTail(t[K + 1], lo) \/ M = 0, NEW i \in 1..M, LateTail(y[i], lo)
      PROVE  i > 1 /\ y[i - 1] = Open /\ y[i].id \in 1..n /\ y[i].serial <= hi
  <2>1. K + i \in 1..(K + M) /\ t[K + i] = y[i]
    BY <1>2
  <2>2. t[(K + i) - 1] = Open /\ y[i].id \in 1..n /\ y[i].serial <= hi
    BY <1>3, <1>5, <2>1
  <2>3. i # 1
    BY <1>5, <2>1
  <2>4. i > 1 /\ i - 1 \in 1..M /\ (K + i) - 1 = K + (i - 1)
    BY <2>3
  <2>5. t[K + (i - 1)] = y[i - 1]
    BY <1>2, <2>4
  <2> QED BY <2>2, <2>4, <2>5
<1>6. x \in Wholes(n, lo, hi)
  BY <1>2, <1>4 DEF Wholes
<1>7. ASSUME BetweenMarkers(t, K, lo) PROVE y \in Wholes(n, lo, hi)
  <2>1. ~LateTail(t[K + 1], lo) \/ M = 0
    BY <1>2, <1>7 DEF BetweenMarkers
  <2> QED BY <1>2, <1>5, <2>1 DEF Wholes
<1> QED BY <1>1, <1>2, <1>6, <1>7

LEMMA WholeJoin ==
    ASSUME NEW n, NEW lo, NEW hi, NEW x \in Wholes(n, lo, hi), NEW y \in Wholes(n, lo, hi)
    PROVE  x \o y \in Wholes(n, lo, hi) /\ BetweenMarkers(x \o y, Len(x), lo)
<1>1. x \in Texts /\ y \in Texts
  BY DEF Wholes
<1>2. PICK t \in Texts : t = x \o y
  BY <1>1, TextsJoin
<1>3. PICK K \in Nat, M \in Nat : /\ K = Len(x) /\ M = Len(y) /\ Len(t) = K + M
                                  /\ \A i \in 1..K : t[i] = x[i]
                                  /\ \A i \in 1..M : t[K + i] = y[i]
  <2>1. /\ Len(x \o y) = Len(x) + Len(y) /\ Len(x) \in Nat /\ Len(y) \in Nat
        /\ \A i \in 1..Len(x) : (x \o y)[i] = x[i]
        /\ \A i \in 1..Len(y) : (x \o y)[Len(x) + i] = y[i]
    BY <1>1, TextsJoin
  <2> QED BY <1>2, <2>1
<1>4. ASSUME NEW i \in 1..K, LateTail(x[i], lo)
      PROVE  i > 1 /\ x[i - 1] = Open /\ x[i].id \in 1..n /\ x[i].serial <= hi
  BY <1>3, <1>4 DEF Wholes
<1>5. ASSUME NEW i \in 1..M, LateTail(y[i], lo)
      PROVE  i > 1 /\ y[i - 1] = Open /\ y[i].id \in 1..n /\ y[i].serial <= hi
  BY <1>3, <1>5 DEF Wholes
<1>6. ASSUME NEW i \in 1..(K + M), LateTail(t[i], lo)
      PROVE  i > 1 /\ t[i - 1] = Open /\ t[i].id \in 1..n /\ t[i].serial <= hi
  <2>1. CASE i <= K
    <3>1. i \in 1..K /\ t[i] = x[i]
      BY <1>3, <2>1
    <3>2. i > 1 /\ x[i - 1] = Open /\ x[i].id \in 1..n /\ x[i].serial <= hi
      BY <1>4, <1>6, <3>1
    <3>3. i - 1 \in 1..K
      BY <3>1, <3>2
    <3> QED BY <1>3, <3>1, <3>2, <3>3
  <2>2. CASE i > K
    <3>1. PICK j \in 1..M : i = K + j
      <4>1. i - K \in 1..M /\ i = K + (i - K)
        BY <2>2
      <4> QED BY <4>1
    <3>2. t[i] = y[j]
      BY <1>3, <3>1
    <3>3. j > 1 /\ y[j - 1] = Open /\ y[j].id \in 1..n /\ y[j].serial <= hi
      BY <1>5, <1>6, <3>2
    <3>4. j - 1 \in 1..M /\ i - 1 = K + (j - 1) /\ i > 1
      BY <3>1, <3>3
    <3>5. t[i - 1] = y[j - 1]
      BY <1>3, <3>4
    <3> QED BY <3>2, <3>3, <3>4, <3>5
  <2> QED BY <2>1, <2>2
<1>7. t \in Wholes(n, lo, hi)
  BY <1>3, <1>6 DEF Wholes
<1>8. BetweenMarkers(t, K, lo)
  <2>1. ASSUME K + 1 \in 1..(K + M) PROVE ~LateTail(t[K + 1], lo)
    <3>1. 1 \in 1..M
      BY <2>1
    <3>2. t[K + 1] = y[1]
      BY <1>3, <3>1
    <3> QED BY <1>5, <3>1, <3>2
  <2> QED BY <1>3, <2>1 DEF BetweenMarkers
<1> QED BY <1>2, <1>3, <1>7, <1>8

\* The parts before, between and after two places.
LEMMA WholeSubs ==
    ASSUME NEW n, NEW lo, NEW hi, NEW t \in Wholes(n, lo, hi),
           NEW i \in 0..Len(t), NEW j \in i..Len(t)
    PROVE  /\ SubSeq(t, 1, i) \in Wholes(n, lo, hi)
           /\ BetweenMarkers(t, i, lo) => SubSeq(t, i + 1, j) \in Wholes(n, lo, hi)
           /\ BetweenMarkers(t, j, lo) => SubSeq(t, j + 1, Len(t)) \in Wholes(n, lo, hi)
<1>1. PICK s \in Seq(Chars) : s = t
  BY DEF Wholes, Texts
<1>2. PICK a \in Texts, b \in Texts, c \in Texts :
          /\ a = SubSeq(t, 1, i) /\ b = SubSeq(t, i + 1, j) /\ c = SubSeq(t, j + 1, Len(t))
          /\ Len(a) = i /\ i + Len(b) = j /\ t = (a \o b) \o c
  <2>1. i \in 0..Len(s) /\ j \in i..Len(s)
    BY <1>1
  <2>2. /\ SubSeq(s, 1, i) \in Seq(Chars) /\ Len(SubSeq(s, 1, i)) = i
        /\ SubSeq(s, i + 1, j) \in Seq(Chars) /\ i + Len(SubSeq(s, i + 1, j)) = j
        /\ SubSeq(s, j + 1, Len(s)) \in Seq(Chars)
        /\ s = (SubSeq(s, 1, i) \o SubSeq(s, i + 1, j)) \o SubSeq(s, j + 1, Len(s))
    BY <2>1, PartsOf, ZenonT(40)
  <2>3. Seq(Chars) = Texts
    BY DEF Texts
  <2> QED BY <1>1, <2>2, <2>3, Zenon
<1>3. PICK ab \in Texts : ab = a \o b /\ Len(ab) = Len(a) + Len(b)
  <2>1. a \o b \in Texts /\ Len(a \o b) = Len(a) + Len(b)
    BY TextsJoin
  <2> QED BY <2>1, Zenon
<1>4. PICK bc \in Texts : bc = b \o c
  <2>1. b \o c \in Texts
    BY TextsJoin
  <2> QED BY <2>1, Zenon
<1>5. t = a \o bc /\ t = ab \o c
  <2>1. \A v, w \in Texts : a \o (v \o w) = (a \o v) \o w
    BY TextsGroup, Zenon
  <2>2. a \o (b \o c) = (a \o b) \o c
    BY <2>1, Zenon
  <2> QED BY <1>2, <1>3, <1>4, <2>2
<1>6. a \in Wholes(n, lo, hi) /\ (BetweenMarkers(t, i, lo) => bc \in Wholes(n, lo, hi))
  <2>1. a \o bc \in Wholes(n, lo, hi)
    BY <1>5
  <2>2. /\ a \in Wholes(n, lo, hi)
        /\ BetweenMarkers(a \o bc, Len(a), lo) => bc \in Wholes(n, lo, hi)
    BY <2>1, WholeParts
  <2> QED BY <1>2, <1>5, <2>2
<1>7. BetweenMarkers(t, j, lo) => c \in Wholes(n, lo, hi)
  <2>1. ab \o c \in Wholes(n, lo, hi) /\ Len(ab) = j
    BY <1>2, <1>3, <1>5
  <2>2. BetweenMarkers(ab \o c, Len(ab), lo) => c \in Wholes(n, lo, hi)
    BY <2>1, WholeParts
  <2> QED BY <1>5, <2>1, <2>2
<1>8. bc \in Wholes(n, lo, hi) => b \in Wholes(n, lo, hi)
  <2>1. b \o c \in Wholes(n, lo, hi) => b \in Wholes(n, lo, hi)
    BY WholeParts
  <2> QED BY <1>4, <2>1
<1> QED BY <1>2, <1>6, <1>7, <1>8

\* What is between two places gives way to another whole text.
LEMMA WholeReplaced ==
    ASSUME NEW n, NEW lo, NEW hi, NEW t \in Wholes(n, lo, hi), NEW more \in Wholes(n, lo, hi),
           NEW i \in 0..Len(t), NEW j \in i..Len(t), BetweenMarkers(t, j, lo)
    PROVE  /\ (SubSeq(t, 1, i) \o more) \o SubSeq(t, j + 1, Len(t)) \in Wholes(n, lo, hi)
           /\ BetweenMarkers((SubSeq(t, 1, i) \o more) \o SubSeq(t, j + 1, Len(t)), i + Len(more), lo)
           /\ SubSeq(t, 1, i) \o SubSeq(t, j + 1, Len(t)) \in Wholes(n, lo, hi)
           /\ BetweenMarkers(SubSeq(t, 1, i) \o SubSeq(t, j + 1, Len(t)), i, lo)
<1>1. PICK a \in Wholes(n, lo, hi), c \in Wholes(n, lo, hi) :
          a = SubSeq(t, 1, i) /\ c = SubSeq(t, j + 1, Len(t)) /\ Len(a) = i
  <2>1. t \in Seq(Chars)
    BY DEF Wholes, Texts
  <2>2. Len(SubSeq(t, 1, i)) = i
    BY <2>1, PartsOf
  <2> QED BY <2>2, WholeSubs
<1>2. PICK am \in Wholes(n, lo, hi) : am = a \o more /\ Len(am) = i + Len(more)
  <2>1. a \in Texts /\ more \in Texts
    BY DEF Wholes
  <2>2. Len(a \o more) = Len(a) + Len(more)
    BY <2>1, TextsJoin
  <2> QED BY <1>1, <2>2, WholeJoin
<1>3. am \o c \in Wholes(n, lo, hi) /\ BetweenMarkers(am \o c, Len(am), lo)
  BY WholeJoin
<1>4. a \o c \in Wholes(n, lo, hi) /\ BetweenMarkers(a \o c, Len(a), lo)
  BY WholeJoin
<1> QED BY <1>1, <1>2, <1>3, <1>4

LEMMA WholeMore ==
    ASSUME NEW n \in Nat, NEW m \in Nat, NEW lo, NEW hi \in Nat, NEW top \in Nat,
           n <= m, hi <= top
    PROVE  Wholes(n, lo, hi) \subseteq Wholes(m, lo, top)
<1>1. ASSUME NEW t \in Wholes(n, lo, hi), NEW i \in 1..Len(t), LateTail(t[i], lo)
      PROVE  i > 1 /\ t[i - 1] = Open /\ t[i].id \in 1..m /\ t[i].serial <= top
  <2>1. i > 1 /\ t[i - 1] = Open /\ t[i].id \in 1..n /\ t[i].serial <= hi /\ t \in Seq(Chars)
    BY <1>1 DEF Wholes, Texts
  <2>2. t[i] \in Chars
    BY <2>1, ElementOfSeq
  <2>3. t[i].serial \in Nat
    BY <2>2 DEF Chars
  <2> QED BY <2>1, <2>3
<1> QED BY <1>1 DEF Wholes

\* Texts without such tails, and places at their ends.
LEMMA NoTails ==
    ASSUME NEW n, NEW lo, NEW hi, NEW t \in Texts, \A i \in 1..Len(t) : ~LateTail(t[i], lo)
    PROVE  t \in Wholes(n, lo, hi) /\ \A c \in Int : BetweenMarkers(t, c, lo)
<1>1. \A c \in Int : BetweenMarkers(t, c, lo)
  BY DEF BetweenMarkers
<1> QED BY <1>1 DEF Wholes

LEMMA OutsideEnds ==
    ASSUME NEW n, NEW lo, NEW hi, NEW t \in Wholes(n, lo, hi)
    PROVE  BetweenMarkers(t, 0, lo) /\ BetweenMarkers(t, Len(t), lo) /\ BetweenMarkers(t, Astray, lo)
<1>1. Len(t) \in Nat
  BY DEF Wholes, Texts
<1>2. BetweenMarkers(t, 0, lo)
  <2>1. 1 \in 1..Len(t) /\ LateTail(t[1], lo) => 1 > 1
    BY DEF Wholes
  <2> QED BY <2>1 DEF BetweenMarkers
<1> QED BY <1>1, <1>2 DEF BetweenMarkers, Astray

\* The two ends of a sequence.
LEMMA SeqEnds ==
    ASSUME NEW S, NEW s \in Seq(S), s # <<>>
    PROVE  Last(s) \in S /\ Front(s) \in Seq(S)
<1>1. PICK K \in Nat : K = Len(s) /\ K # 0
  BY EmptySeq
<1>2. s[K] \in S
  <2>1. K \in 1..Len(s)
    BY <1>1
  <2> QED BY <2>1, ElementOfSeq
<1>3. SubSeq(s, 1, K - 1) \in Seq(S)
  <2>1. K - 1 \in 0..Len(s)
    BY <1>1
  <2>2. PICK k \in 0..Len(s) : k = K - 1
    BY <2>1
  <2>3. SubSeq(s, 1, k) \in Seq(S)
    BY AfterFacts
  <2> QED BY <2>2, <2>3
<1> QED BY <1>1, <1>2, <1>3 DEF Last, Front

-----------------------------------------------------------------------------
(* The places the keys go to are in no marker.                               *)
LEMMA LineStartsAre ==
    ASSUME draft \in Texts, NEW c \in 0..Len(draft)
    PROVE  /\ LineAt(c) \in LineStarts
           /\ LineTo(c) = Len(draft) \/ LineTo(c) + 1 \in LineStarts \ {0}
<1>1. PICK L \in Nat : L = Len(draft)
  BY DEF Texts
<1>2. LineStarts \subseteq 0..L /\ 0 \in LineStarts
  BY <1>1 DEF LineStarts, Texts
<1>3. LineAt(c) \in LineStarts
  <2> DEFINE S == {l \in LineStarts : l <= c}
  <2>1. S \in SUBSET (0..L) /\ 0 \in S
    <3>1. c \in Nat /\ 0 <= c
      BY <1>1
    <3> QED BY <1>2, <3>1
  <2>2. Max(S) \in S
    <3> HIDE DEF S
    <3> QED BY <2>1, MaxOf
  <2> QED BY <2>2 DEF LineAt
<1>4. LineTo(c) = L \/ LineTo(c) + 1 \in LineStarts \ {0}
  <2> DEFINE S == {Len(draft)} \cup {l - 1 : l \in {k \in LineStarts : k > c}}
  <2>1. S \in SUBSET Nat
    BY <1>1, <1>2
  <2>2. Len(draft) \in S
    OBVIOUS
  <2>3. Min(S) \in S
    <3> HIDE DEF S
    <3> QED BY <2>1, <2>2, MinOf
  <2>4. Min(S) = L \/ \E l \in LineStarts : l > c /\ Min(S) = l - 1
    BY <1>1, <2>3
  <2>5. \A l \in LineStarts : l > c => (l - 1) + 1 \in LineStarts \ {0}
    BY <1>1, <1>2
  <2> HIDE DEF S
  <2>6. Min(S) = L \/ Min(S) + 1 \in LineStarts \ {0}
    BY <2>4, <2>5
  <2> QED BY <1>1, <2>6 DEF LineTo, S
<1> QED BY <1>1, <1>3, <1>4

\* The start and the end of a line are in none.
LEMMA LineEndsClear ==
    ASSUME draft \in Texts, NEW c \in 0..Len(draft)
    PROVE  /\ ~MarkerAt(LineAt(c)) /\ ~MarkerAt(LineTo(c))
           /\ LineAt(c) > 0 => draft[LineAt(c)] = NL
           /\ LineTo(c) < Len(draft) => draft[LineTo(c) + 1] = NL
<1>1. PICK L \in Nat : L = Len(draft) /\ DOMAIN draft = 1..L
  BY DEF Texts
<1>2. /\ LineAt(c) \in LineStarts /\ LineAt(c) \in 0..L
      /\ LineTo(c) = L \/ LineTo(c) + 1 \in LineStarts \ {0}
      /\ LineTo(c) \in 0..L
  <2>1. LineAt(c) \in 0..c /\ LineTo(c) \in c..Len(draft)
    BY LineFacts
  <2> QED BY <1>1, <2>1, LineStartsAre
<1>3. NL # Open /\ NL.kind # "tail"
  BY DEF NL, Open, Char
<1>4. \A l \in LineStarts : l # 0 => draft[l] = NL
  BY DEF LineStarts
<1>5. /\ LineAt(c) > 0 => draft[LineAt(c)] = NL
      /\ LineTo(c) < L => draft[LineTo(c) + 1] = NL
  BY <1>2, <1>4
<1>6. ~MarkerAt(LineAt(c))
  BY <1>1, <1>2, <1>3, <1>5 DEF MarkerAt
<1>7. ~MarkerAt(LineTo(c))
  BY <1>1, <1>2, <1>3, <1>5 DEF MarkerAt
<1> QED BY <1>1, <1>5, <1>6, <1>7

LEMMA StepsClear ==
    ASSUME draft \in Texts, NEW i \in Int
    PROVE  /\ MarkerAt(i) => ~MarkerAt(i - 1) /\ ~MarkerAt(i + 1)
           /\ i + 1 \in 1..Len(draft) /\ draft[i + 1] \in {NL, Open, Space} => ~MarkerAt(i)
           /\ i \in 1..Len(draft) /\ draft[i] \in {NL, Space} => ~MarkerAt(i)
<1>1. Open.kind # "tail" /\ NL.kind # "tail" /\ Space.kind # "tail" /\ NL # Open /\ Space # Open
  BY DEF NL, Open, Space, Char
<1> QED BY <1>1 DEF MarkerAt

LEMMA BackClear ==
    ASSUME draft \in Texts, cursor \in 1..Len(draft)
    PROVE  ~MarkerAt(cursor - Back)
<1>1. PICK L \in Nat : L = Len(draft)
  BY DEF Texts
<1>2. CASE MarkerAt(cursor - 1)
  <2>1. (cursor - 1) - 1 \in Int /\ cursor - 1 \in Int /\ cursor - 2 = (cursor - 1) - 1
    BY <1>1
  <2>2. ~MarkerAt((cursor - 1) - 1)
    BY <1>2, <2>1, StepsClear
  <2> QED BY <1>2, <2>1, <2>2 DEF Back
<1>3. CASE ~MarkerAt(cursor - 1)
  BY <1>3 DEF Back
<1> QED BY <1>2, <1>3

LEMMA AheadClear ==
    ASSUME draft \in Texts, cursor \in 0..Len(draft)
    PROVE  ~MarkerAt(cursor + Ahead)
<1>1. PICK L \in Nat : L = Len(draft)
  BY DEF Texts
<1>2. CASE MarkerAt(cursor + 1)
  <2>1. cursor + 1 \in Int /\ cursor + 2 = (cursor + 1) + 1
    BY <1>1
  <2>2. ~MarkerAt((cursor + 1) + 1)
    BY <1>2, <2>1, StepsClear
  <2> QED BY <1>2, <2>1, <2>2 DEF Ahead
<1>3. CASE ~MarkerAt(cursor + 1)
  BY <1>3 DEF Ahead
<1> QED BY <1>2, <1>3

LEMMA WordBackClear ==
    ASSUME draft \in Texts, cursor \in 1..Len(draft)
    PROVE  ~MarkerAt(WordBack)
<1>1. PICK L \in Nat : L = Len(draft)
  BY DEF Texts
<1>2. PICK l \in 0..cursor : /\ l = LineStart /\ ~MarkerAt(l)
                             /\ l > 0 => draft[l] = NL
  <2>1. PICK c \in 0..Len(draft) : c = cursor
    BY <1>1
  <2>2. LineAt(c) \in 0..c /\ ~MarkerAt(LineAt(c)) /\ (LineAt(c) > 0 => draft[LineAt(c)] = NL)
    BY LineFacts, LineEndsClear
  <2> QED BY <2>1, <2>2 DEF LineStart
<1> DEFINE S == {i \in l..cursor : \A j \in (i + 1)..cursor : draft[j] = Space}
<1>3. PICK stop \in l..cursor : stop = Min(S)
  <2>1. S \in SUBSET Nat
    BY <1>1
  <2>2. cursor \in S
    BY <1>1, <1>2
  <2>3. Min(S) \in S
    <3> HIDE DEF S
    <3> QED BY <2>1, <2>2, MinOf
  <2> QED BY <2>3
<1> HIDE DEF S
<1> DEFINE T == {i \in l..(stop - 1) : OneRun(i, stop)}
<1>4. WordBack = IF cursor = l THEN cursor - 1
                 ELSE IF stop = l THEN stop
                 ELSE IF MarkerAt(stop - 1) THEN stop - 2
                 ELSE Min(T)
  BY <1>2, <1>3 DEF WordBack, S
<1>5. ASSUME stop # l, ~MarkerAt(stop - 1) PROVE ~MarkerAt(Min(T))
  <2>1. T \in SUBSET Nat
    BY <1>2
  <2>2. OneRun(stop - 1, stop)
    <3>1. /\ \A i, j \in ((stop - 1) + 1)..stop : i = j
          /\ \A i \in (stop - 1)..(stop - 1) : i = stop - 1
      BY <1>1, <1>2
    <3> QED BY <1>5, <3>1 DEF OneRun
  <2>3. stop - 1 \in l..(stop - 1)
    BY <1>1, <1>2, <1>5
  <2>4. stop - 1 \in T
    BY <2>2, <2>3
  <2>5. Min(T) \in T
    <3> HIDE DEF T
    <3> QED BY <2>1, <2>4, MinOf
  <2>6. PICK m \in l..(stop - 1) : m = Min(T) /\ OneRun(m, stop)
    BY <2>5
  <2>7. m \in m..(stop - 1)
    BY <1>1, <1>2, <2>6
  <2>8. ~MarkerAt(m)
    BY <2>6, <2>7 DEF OneRun
  <2> QED BY <2>6, <2>8
<1> HIDE DEF T
<1>6. CASE cursor = l
  <2>1. cursor - 1 \in Int /\ (cursor - 1) + 1 \in 1..Len(draft) /\ draft[(cursor - 1) + 1] = NL
    BY <1>1, <1>2, <1>6
  <2>2. ~MarkerAt(cursor - 1)
    BY <2>1, StepsClear
  <2> QED BY <1>4, <1>6, <2>2
<1>7. CASE MarkerAt(stop - 1)
  <2>1. stop - 1 \in Int /\ (stop - 1) - 1 = stop - 2
    BY <1>1, <1>2
  <2>2. ~MarkerAt((stop - 1) - 1)
    BY <1>7, <2>1, StepsClear
  <2> QED BY <1>2, <1>4, <1>6, <1>7, <2>1, <2>2
<1> QED BY <1>2, <1>4, <1>5, <1>6, <1>7

LEMMA WordAheadClear ==
    ASSUME draft \in Texts, cursor \in 0..Len(draft), cursor < Len(draft)
    PROVE  ~MarkerAt(WordAhead)
<1>1. PICK L \in Nat : L = Len(draft)
  BY DEF Texts
<1>2. PICK e \in cursor..L : e = LineEnd /\ ~MarkerAt(e) /\ (e < L => draft[e + 1] = NL)
  <2>1. PICK c \in 0..Len(draft) : c = cursor
    BY <1>1
  <2>2. /\ LineTo(c) \in c..Len(draft) /\ ~MarkerAt(LineTo(c))
        /\ LineTo(c) < Len(draft) => draft[LineTo(c) + 1] = NL
    BY LineFacts, LineEndsClear
  <2> QED BY <1>1, <2>1, <2>2 DEF LineEnd
<1> DEFINE S == {i \in cursor..e : \A j \in (cursor + 1)..i : draft[j] = Space}
<1>3. PICK stop \in cursor..e : stop = Max(S)
  <2>1. S \in SUBSET (0..L)
    BY <1>1, <1>2
  <2>2. cursor \in S
    BY <1>1, <1>2
  <2>3. Max(S) \in S
    <3> HIDE DEF S
    <3> QED BY <2>1, <2>2, MaxOf
  <2> QED BY <2>3
<1> HIDE DEF S
<1> DEFINE run(to) == /\ \A i \in (stop + 1)..to : Class(draft[i]) = Class(draft[stop + 1])
                      /\ \A i \in (stop + 1)..to : ~MarkerAt(i)
           T == {i \in (stop + 1)..e : run(i)}
<1>4. WordAhead = IF cursor = e THEN cursor + 1
                  ELSE IF stop = e THEN stop
                  ELSE IF MarkerAt(stop + 1) THEN stop + 2
                  ELSE Max(T)
  BY <1>2, <1>3 DEF WordAhead, S
<1>5. ASSUME stop # e, ~MarkerAt(stop + 1) PROVE ~MarkerAt(Max(T))
  <2>1. T \in SUBSET (0..L)
    BY <1>1, <1>2
  <2>2. run(stop + 1)
    <3>1. \A i \in (stop + 1)..(stop + 1) : i = stop + 1
      BY <1>1, <1>2
    <3> QED BY <1>5, <3>1
  <2>3. stop + 1 \in (stop + 1)..e
    BY <1>1, <1>2, <1>5
  <2>4. stop + 1 \in T
    BY <2>2, <2>3
  <2>5. Max(T) \in T
    <3> HIDE DEF T
    <3> QED BY <2>1, <2>4, MaxOf
  <2>6. PICK m \in (stop + 1)..e : m = Max(T) /\ \A i \in (stop + 1)..m : ~MarkerAt(i)
    BY <2>5
  <2>7. m \in (stop + 1)..m
    BY <1>1, <1>2, <2>6
  <2>8. ~MarkerAt(m)
    BY <2>6, <2>7
  <2> QED BY <2>6, <2>8
<1> HIDE DEF T
<1>6. CASE cursor = e
  <2>1. cursor + 1 \in Int /\ cursor + 1 \in 1..Len(draft) /\ draft[cursor + 1] = NL
    BY <1>1, <1>2, <1>6
  <2>2. ~MarkerAt(cursor + 1)
    BY <2>1, StepsClear
  <2> QED BY <1>4, <1>6, <2>2
<1>7. CASE MarkerAt(stop + 1)
  <2>1. stop + 1 \in Int /\ (stop + 1) + 1 = stop + 2
    BY <1>1, <1>2
  <2>2. ~MarkerAt((stop + 1) + 1)
    BY <1>7, <2>1, StepsClear
  <2> QED BY <1>2, <1>4, <1>6, <1>7, <2>1, <2>2
<1> QED BY <1>2, <1>4, <1>5, <1>6, <1>7

-----------------------------------------------------------------------------
(* The markers of the message being written.                                 *)
Now == Wholes(Len(pastes), since, serial)
NowSnapshots == Outsiders(Len(pastes), since, serial)
MarkersInv ==
    /\ since \in 0..serial
    /\ ~loose =>
          /\ draft \in Now /\ BetweenMarkers(draft, cursor, since)
          /\ undoStack \in Seq(NowSnapshots) /\ ring \in Seq(Now) /\ history \in Seq(Now)

LEMMA NowKept ==
    ASSUME UNCHANGED markerVars
    PROVE  Now' = Now /\ NowSnapshots' = NowSnapshots
  BY DEF Now, NowSnapshots, markerVars

LEMMA EmptyWhole ==
    ASSUME NEW n, NEW lo, NEW hi
    PROVE  <<>> \in Wholes(n, lo, hi)
<1>1. <<>> \in Texts /\ \A i \in 1..Len(<<>>) : FALSE
  BY CharTypes
<1> QED BY <1>1, NoTails

\* A place that is in no marker is outside those of the message.
LEMMA ClearOutside ==
    ASSUME EditTypes, draft \in Now, NEW c \in Int, ~MarkerAt(c)
    PROVE  BetweenMarkers(draft, c, since)
<1>1. PICK L \in Nat : L = Len(draft) /\ DOMAIN draft = 1..L
  BY DEF EditTypes, Texts
<1>2. DOMAIN pastes = 1..Len(pastes)
  BY DEF EditTypes
<1>3. ASSUME c + 1 \in 1..Len(draft), LateTail(draft[c + 1], since) PROVE FALSE
  <2>1. c + 1 > 1 /\ draft[(c + 1) - 1] = Open /\ draft[c + 1].id \in 1..Len(pastes)
    BY <1>3 DEF Now, Wholes
  <2>2. (c + 1) - 1 = c /\ c \in 1..L
    BY <1>1, <1>3, <2>1
  <2>3. draft[c] = Open /\ draft[c + 1].kind = "tail" /\ draft[c + 1].id \in DOMAIN pastes
    BY <1>2, <1>3, <2>1, <2>2 DEF LateTail
  <2>4. {c, c + 1} \subseteq DOMAIN draft
    BY <1>1, <1>3, <2>2
  <2> QED BY <2>3, <2>4 DEF MarkerAt
<1> QED BY <1>3 DEF BetweenMarkers

LEMMA WholeSnapped ==
    ASSUME EditTypes, MarkersInv, ~loose, UNCHANGED undoStack \/ Snapshot
    PROVE  undoStack' \in Seq(NowSnapshots)
<1>1. undoStack \in Seq(NowSnapshots)
  BY DEF MarkersInv
<1>2. Here \in NowSnapshots
  <2>1. Here \in Snapshots /\ Here.text = draft /\ Here.cursor = cursor
    BY HereIs
  <2>2. draft \in Now /\ BetweenMarkers(draft, cursor, since)
    BY DEF MarkersInv
  <2> QED BY <2>1, <2>2 DEF Now, NowSnapshots, Outsiders
<1>3. Append(undoStack, Here) \in Seq(NowSnapshots)
  BY <1>1, <1>2, AppendProperties
<1> QED BY <1>1, <1>3 DEF Snapshot

\* What a step with the same pastes has to keep.
LEMMA MarkersStay ==
    ASSUME EditTypes, MarkersInv, UNCHANGED markerVars, loose => loose',
           ~loose' => /\ draft' \in Now /\ BetweenMarkers(draft', cursor', since)
                      /\ undoStack' \in Seq(NowSnapshots)
                      /\ ring' \in Seq(Now) /\ history' \in Seq(Now)
    PROVE  MarkersInv'
<1>1. since' = since /\ serial' = serial /\ Now' = Now /\ NowSnapshots' = NowSnapshots
  BY NowKept DEF markerVars
<1> QED BY <1>1 DEF MarkersInv

\* An insertion at the cursor, and what is between two places taken out.
LEMMA WholeSpliced ==
    ASSUME NEW n, NEW lo, NEW hi, draft \in Wholes(n, lo, hi), NEW c \in 0..Len(draft),
           NEW more \in Wholes(n, lo, hi), BetweenMarkers(draft, c, lo)
    PROVE  /\ Spliced(c, more) \in Wholes(n, lo, hi)
           /\ BetweenMarkers(Spliced(c, more), c + Len(more), lo)
<1>1. PICK t \in Wholes(n, lo, hi) : t = draft
  OBVIOUS
<1>2. PICK j \in c..Len(t) : j = c
  <2>1. Len(t) \in Nat
    BY DEF Wholes, Texts
  <2>2. c \in c..Len(t)
    BY <1>1, <2>1
  <2> QED BY <2>2, Zenon
<1>3. /\ (SubSeq(t, 1, c) \o more) \o SubSeq(t, j + 1, Len(t)) \in Wholes(n, lo, hi)
      /\ BetweenMarkers((SubSeq(t, 1, c) \o more) \o SubSeq(t, j + 1, Len(t)), c + Len(more), lo)
  BY <1>1, <1>2, WholeReplaced
<1> QED BY <1>1, <1>2, <1>3 DEF Spliced

LEMMA WholeWithout ==
    ASSUME NEW n, NEW lo, NEW hi, draft \in Wholes(n, lo, hi), NEW from \in 0..Len(draft),
           NEW to \in from..Len(draft), BetweenMarkers(draft, to, lo)
    PROVE  /\ Without(from, to) \in Wholes(n, lo, hi)
           /\ BetweenMarkers(Without(from, to), from, lo)
<1>1. PICK t \in Wholes(n, lo, hi) : t = draft
  OBVIOUS
<1>2. <<>> \in Wholes(n, lo, hi)
  BY EmptyWhole
<1>3. /\ SubSeq(t, 1, from) \o SubSeq(t, to + 1, Len(t)) \in Wholes(n, lo, hi)
      /\ BetweenMarkers(SubSeq(t, 1, from) \o SubSeq(t, to + 1, Len(t)), from, lo)
  BY <1>1, <1>2, WholeReplaced
<1> QED BY <1>1, <1>3 DEF Without

LEMMA InsertWhole ==
    ASSUME EditTypes, MarkersInv, cursor # Astray, NEW more \in Texts, ~loose => more \in Now,
           draft' = Spliced(cursor, more), cursor' = cursor + Len(more),
           UNCHANGED markerVars, UNCHANGED <<history, loose, ring>>,
           UNCHANGED undoStack \/ Snapshot
    PROVE  MarkersInv'
<1>1. cursor \in 0..Len(draft)
  BY DEF EditTypes
<1>2. ASSUME ~loose PROVE draft' \in Now /\ BetweenMarkers(draft', cursor', since)
  <2>1. draft \in Now /\ BetweenMarkers(draft, cursor, since) /\ more \in Now
    BY <1>2 DEF MarkersInv
  <2> QED BY <1>1, <2>1, WholeSpliced DEF Now
<1>3. ~loose => ring' \in Seq(Now) /\ history' \in Seq(Now)
  BY DEF MarkersInv
<1> QED BY <1>2, <1>3, WholeSnapped, MarkersStay

LEMMA CutWhole ==
    ASSUME EditTypes, MarkersInv, NEW from \in 0..Len(draft), NEW to \in from..Len(draft),
           ~loose => BetweenMarkers(draft, to, since) /\ ring' \in Seq(Now),
           draft' = Without(from, to), cursor' = from, Snapshot,
           UNCHANGED markerVars, UNCHANGED <<history, loose>>
    PROVE  MarkersInv'
<1>1. ASSUME ~loose PROVE draft' \in Now /\ BetweenMarkers(draft', cursor', since)
  <2>1. draft \in Now /\ BetweenMarkers(draft, to, since)
    BY <1>1 DEF MarkersInv
  <2> QED BY <2>1, WholeWithout DEF Now
<1>2. ~loose => history' \in Seq(Now)
  BY DEF MarkersInv
<1> QED BY <1>1, <1>2, WholeSnapped, MarkersStay

\* Typed characters and texts of no paste.
LEMMA PlainWhole ==
    ASSUME EditTypes, since \in Nat
    PROVE  /\ \A kind \in Kinds : <<Char(kind)>> \in Now
           /\ <<NL>> \in Now /\ <<NL, NL>> \in Now /\ <<>> \in Now
           /\ \A d \in Drafts : d \in Now
<1>1. NL.kind # "tail" /\ \A kind \in Kinds : Char(kind).kind # "tail"
  BY KindsAssumption DEF NL, Char, TypedKinds
<1>2. ASSUME NEW kind \in Kinds PROVE <<Char(kind)>> \in Now
  <2>1. <<Char(kind)>> \in Texts /\ \A i \in 1..Len(<<Char(kind)>>) : ~LateTail(<<Char(kind)>>[i], since)
    BY <1>1, CharTypes DEF LateTail
  <2> QED BY <2>1, NoTails DEF Now
<1>3. <<NL>> \in Now /\ <<NL, NL>> \in Now
  <2>1. /\ <<NL>> \in Texts /\ \A i \in 1..Len(<<NL>>) : ~LateTail(<<NL>>[i], since)
        /\ <<NL, NL>> \in Texts /\ \A i \in 1..Len(<<NL, NL>>) : ~LateTail(<<NL, NL>>[i], since)
    BY <1>1, CharTypes DEF LateTail
  <2> QED BY <2>1, NoTails DEF Now
<1>4. ASSUME NEW d \in Drafts PROVE d \in Now
  <2>1. d \in Texts /\ DOMAIN d = 1..Len(d)
    BY CharTypes DEF Texts
  <2>2. \A i \in 1..Len(d) : d[i].kind = "tail" => d[i].serial = 0
    BY <2>1, PastesAssumption DEF Tails
  <2>3. \A i \in 1..Len(d) : ~LateTail(d[i], since)
    BY <2>2 DEF LateTail
  <2> QED BY <2>1, <2>3, NoTails DEF Now
<1> QED BY <1>2, <1>3, <1>4, EmptyWhole DEF Now

LEMMA TypeWhole ==
    ASSUME EditTypes, MarkersInv, NEW kind \in Kinds,
           Type(Char(kind)) \/ ApplyCompletion(Char(kind))
    PROVE  MarkersInv'
<1>1. PICK more \in Texts : more = <<Char(kind)>> /\ Len(more) = 1 /\ more \in Now
  <2>1. <<Char(kind)>> \in Texts /\ Len(<<Char(kind)>>) = 1
    BY CharTypes
  <2>2. <<Char(kind)>> \in Now
    BY PlainWhole DEF MarkersInv
  <2> QED BY <2>1, <2>2, Zenon
<1>2. /\ draft' = Spliced(cursor, more) /\ cursor' = cursor + Len(more) /\ cursor # Astray
      /\ UNCHANGED markerVars /\ UNCHANGED <<history, loose, ring>>
      /\ UNCHANGED undoStack \/ Snapshot
  BY <1>1 DEF Type, ApplyCompletion, Place, Edit, Forgets
<1> QED BY <1>1, <1>2, InsertWhole

LEMMA PasteWhole ==
    ASSUME EditTypes, MarkersInv, NEW more \in Texts, more \in Now, Paste(more)
    PROVE  MarkersInv'
<1>1. /\ draft' = Spliced(cursor, more) /\ cursor' = cursor + Len(more) /\ cursor # Astray
      /\ UNCHANGED markerVars /\ UNCHANGED <<history, loose, ring>>
      /\ UNCHANGED undoStack \/ Snapshot
  BY DEF Paste, Insert, Place, Edit, Forgets
<1> QED BY <1>1, InsertWhole

LEMMA PasteLongWhole ==
    ASSUME EditTypes, MarkersInv, PasteLong
    PROVE  MarkersInv'
<1>1. PICK n \in Nat, hi \in Nat : n = Len(pastes) /\ hi = serial
  BY DEF EditTypes
<1>2. PICK more : more = <<Open, MarkerTail(n + 1, hi + 1)>>
  OBVIOUS
<1>3. /\ Insert(more) /\ pastes' = Append(pastes, serial + 1) /\ serial' = hi + 1
      /\ since' = since
  BY <1>1, <1>2 DEF PasteLong
<1>4. Len(pastes') = n + 1
  BY <1>1, <1>3, AppendProperties DEF EditTypes
<1>5. /\ draft' = Spliced(cursor, more) /\ cursor' = cursor + Len(more) /\ cursor # Astray
      /\ UNCHANGED <<history, loose, ring>> /\ Snapshot
  BY <1>3 DEF Insert, Place, Edit, Forgets
<1>6. Now \subseteq Now' /\ NowSnapshots \subseteq NowSnapshots'
  <2>1. Now' = Wholes(n + 1, since, hi + 1) /\ Now = Wholes(n, since, hi)
    BY <1>1, <1>3, <1>4 DEF Now
  <2>2. Now \subseteq Now'
    BY <2>1, WholeMore
  <2> QED BY <1>1, <1>3, <1>4, <2>1, <2>2 DEF NowSnapshots, Outsiders
<1>7. more \in Now'
  <2>1. Open \in Chars /\ MarkerTail(n + 1, hi + 1) \in Chars
    BY CharTypes
  <2>2. /\ more \in Texts /\ Len(more) = 2 /\ more[1] = Open /\ more[2] = MarkerTail(n + 1, hi + 1)
    BY <1>2, <2>1 DEF Texts
  <2>3. ~LateTail(Open, since)
    BY DEF LateTail, Open, Char
  <2>4. MarkerTail(n + 1, hi + 1).id \in 1..(n + 1) /\ MarkerTail(n + 1, hi + 1).serial <= hi + 1
    BY DEF MarkerTail
  <2>5. ASSUME NEW i \in 1..Len(more), LateTail(more[i], since)
        PROVE  i > 1 /\ more[i - 1] = Open /\ more[i].id \in 1..(n + 1) /\ more[i].serial <= hi + 1
    <3>1. i = 2 /\ i - 1 = 1
      BY <2>2, <2>3, <2>5
    <3> QED BY <2>2, <2>4, <3>1
  <2>6. more \in Wholes(n + 1, since, hi + 1)
    BY <2>2, <2>5 DEF Wholes
  <2> QED BY <1>1, <1>3, <1>4, <2>6 DEF Now
<1>8. since' \in 0..serial'
  BY <1>1, <1>3 DEF MarkersInv
<1>9. ASSUME ~loose
      PROVE  /\ draft' \in Now' /\ BetweenMarkers(draft', cursor', since')
             /\ undoStack' \in Seq(NowSnapshots') /\ ring' \in Seq(Now') /\ history' \in Seq(Now')
  <2>1. /\ draft \in Now /\ BetweenMarkers(draft, cursor, since)
        /\ ring \in Seq(Now) /\ history \in Seq(Now)
    BY <1>9 DEF MarkersInv
  <2>2. undoStack' \in Seq(NowSnapshots)
    BY <1>5, <1>9, WholeSnapped
  <2>3. cursor \in 0..Len(draft)
    BY <1>5 DEF EditTypes
  <2>4. draft \in Wholes(n + 1, since, hi + 1) /\ more \in Wholes(n + 1, since, hi + 1)
    BY <1>1, <1>3, <1>4, <1>6, <1>7, <2>1 DEF Now
  <2>5. /\ Spliced(cursor, more) \in Wholes(n + 1, since, hi + 1)
        /\ BetweenMarkers(Spliced(cursor, more), cursor + Len(more), since)
    BY <2>1, <2>3, <2>4, WholeSpliced
  <2>6. draft' \in Now' /\ BetweenMarkers(draft', cursor', since')
    BY <1>1, <1>3, <1>4, <1>5, <2>5 DEF Now
  <2>7. ring' \in Seq(Now') /\ history' \in Seq(Now') /\ undoStack' \in Seq(NowSnapshots')
    BY <1>5, <1>6, <2>1, <2>2
  <2> QED BY <2>6, <2>7
<1> QED BY <1>5, <1>8, <1>9 DEF MarkersInv

LEMMA BreakLineWhole ==
    ASSUME EditTypes, MarkersInv, BreakLine
    PROVE  MarkersInv'
<1>1. /\ draft' = [draft EXCEPT ![cursor] = NL] /\ cursor' = cursor /\ cursor # Astray
      /\ cursor > 0 /\ draft[cursor] = Backslash
      /\ undoStack' = undoStack \o <<Here, [text |-> Without(cursor - 1, cursor),
                                             cursor |-> cursor - 1]>>
      /\ UNCHANGED markerVars /\ UNCHANGED <<history, loose, ring>>
  BY DEF BreakLine, Place, Edit, Forgets
<1>2. PICK L \in Nat : L = Len(draft) /\ DOMAIN draft = 1..L /\ draft \in Seq(Chars)
  BY DEF EditTypes, Texts
<1>3. cursor \in 1..L
  BY <1>1, <1>2 DEF EditTypes
<1>4. /\ draft' \in Seq(Chars) /\ Len(draft') = L /\ draft'[cursor] = NL
      /\ \A i \in 1..L : i # cursor => draft'[i] = draft[i]
  <2>1. NL \in Chars
    BY CharTypes
  <2> QED BY <1>1, <1>2, <1>3, <2>1, ExceptSeq
<1>5. NL.kind # "tail" /\ Backslash # Open
  BY DEF NL, Backslash, Open, Char
<1>6. ASSUME ~loose
      PROVE  /\ draft' \in Now /\ BetweenMarkers(draft', cursor', since)
             /\ undoStack' \in Seq(NowSnapshots) /\ ring' \in Seq(Now) /\ history' \in Seq(Now)
  <2>1. /\ draft \in Now /\ BetweenMarkers(draft, cursor, since) /\ undoStack \in Seq(NowSnapshots)
        /\ ring \in Seq(Now) /\ history \in Seq(Now)
    BY <1>6 DEF MarkersInv
  <2>2. ASSUME NEW i \in 1..L, LateTail(draft'[i], since)
        PROVE  /\ i > 1 /\ draft'[i - 1] = Open
               /\ draft'[i].id \in 1..Len(pastes) /\ draft'[i].serial <= serial
    <3>1. i # cursor /\ draft'[i] = draft[i]
      BY <1>4, <1>5, <2>2 DEF LateTail
    <3>2. /\ i > 1 /\ draft[i - 1] = Open
          /\ draft[i].id \in 1..Len(pastes) /\ draft[i].serial <= serial
      BY <1>2, <2>1, <2>2, <3>1 DEF Now, Wholes
    <3>3. i - 1 \in 1..L /\ i - 1 # cursor
      BY <1>1, <1>5, <3>2
    <3>4. draft'[i - 1] = Open
      BY <1>4, <3>2, <3>3
    <3> QED BY <3>1, <3>2, <3>4
  <2>3. draft' \in Now
    BY <1>4, <2>2 DEF Now, Wholes, Texts
  <2>4. BetweenMarkers(draft', cursor', since)
    <3>1. ASSUME cursor + 1 \in 1..L PROVE draft'[cursor + 1] = draft[cursor + 1]
      BY <1>3, <1>4, <3>1
    <3> QED BY <1>1, <1>2, <1>4, <2>1, <3>1 DEF BetweenMarkers
  <2>5. PICK next : next = [text |-> Without(cursor - 1, cursor), cursor |-> cursor - 1]
    OBVIOUS
  <2>6. PICK from \in 0..Len(draft) : from = cursor - 1 /\ cursor \in from..Len(draft)
    BY <1>2, <1>3
  <2>7. PICK to \in from..Len(draft) : to = cursor
    BY <2>6
  <2>8. PICK t \in Texts : /\ t = Without(from, to) /\ t \in Now /\ BetweenMarkers(t, from, since)
                           /\ from \in 0..Len(t)
    <3>1. Without(from, to) \in Now /\ BetweenMarkers(Without(from, to), from, since)
      BY <2>1, <2>7, WholeWithout DEF Now
    <3>2. Without(from, to) \in Texts /\ from \in 0..Len(Without(from, to))
      BY WithoutType DEF EditTypes
    <3> QED BY <3>1, <3>2, Zenon
  <2>9. next \in NowSnapshots
    <3>1. [text |-> t, cursor |-> from] \in Snapshots
      BY <2>8 DEF Snapshots
    <3>2. [text |-> t, cursor |-> from] \in NowSnapshots
      BY <2>8, <3>1 DEF Now, NowSnapshots, Outsiders
    <3> QED BY <2>5, <2>6, <2>7, <2>8, <3>2
  <2>10. Here \in NowSnapshots
    BY <2>1, HereIs DEF Now, NowSnapshots, Outsiders
  <2>11. <<Here, next>> \in Seq(NowSnapshots)
    BY <2>9, <2>10
  <2>12. undoStack \o <<Here, next>> \in Seq(NowSnapshots)
    BY <2>1, <2>11, ConcatProperties
  <2> QED BY <1>1, <2>1, <2>3, <2>4, <2>5, <2>12
<1> QED BY <1>1, <1>6, MarkersStay

LEMMA DeletesWhole ==
    ASSUME EditTypes, MarkersInv, Backspace \/ Delete
    PROVE  MarkersInv'
<1>1. /\ cursor \in 0..Len(draft) /\ draft \in Texts /\ Len(draft) \in Nat
      /\ UNCHANGED markerVars /\ UNCHANGED <<history, loose, ring>> /\ Snapshot
  BY DEF Backspace, Delete, Edit, Forgets, EditTypes, Texts
<1>2. ~loose => ring' \in Seq(Now) /\ draft \in Now /\ BetweenMarkers(draft, cursor, since)
  BY <1>1 DEF MarkersInv
<1>3. CASE Backspace
  <2>1. cursor > 0 /\ draft' = Without(cursor - Back, cursor) /\ cursor' = cursor - Back
    BY <1>3 DEF Backspace, Place
  <2>2. PICK from \in 0..Len(draft) : from = cursor - Back /\ cursor \in from..Len(draft)
    <3>1. Back \in 1..cursor
      BY <1>1, <2>1, SegmentIn
    <3> QED BY <1>1, <3>1
  <2>3. PICK to \in from..Len(draft) : to = cursor
    BY <2>2
  <2> QED BY <1>1, <1>2, <2>1, <2>2, <2>3, CutWhole
<1>4. CASE Delete
  <2>1. cursor < Len(draft) /\ draft' = Without(cursor, cursor + Ahead) /\ cursor' = cursor
    BY <1>4 DEF Delete, Stay
  <2>2. PICK from \in 0..Len(draft) : from = cursor
    BY <1>1
  <2>3. PICK to \in from..Len(draft) : to = cursor + Ahead
    <3>1. Ahead \in 1..(Len(draft) - cursor)
      BY <1>1, <2>1, SegmentIn
    <3> QED BY <1>1, <2>2, <3>1
  <2>4. ~loose => BetweenMarkers(draft, to, since)
    <3>1. to \in Int /\ ~MarkerAt(to)
      BY <1>1, <2>3, AheadClear
    <3> QED BY <1>2, <3>1, ClearOutside
  <2> QED BY <1>1, <1>2, <2>1, <2>2, <2>3, <2>4, CutWhole
<1> QED BY <1>3, <1>4

LEMMA KillWhole ==
    ASSUME EditTypes, JoinInv, MarkersInv, NEW from \in 0..Len(draft), NEW to \in from..Len(draft),
           NEW prepend \in BOOLEAN, Kill(from, to, prepend), cursor' = from,
           ~loose => BetweenMarkers(draft, from, since) /\ BetweenMarkers(draft, to, since)
    PROVE  MarkersInv'
<1>1. /\ draft' = Without(from, to) /\ Snapshot /\ UNCHANGED markerVars
      /\ UNCHANGED <<history, loose>>
      /\ ring' = IF lastAction = "kill"
                 THEN Append(Front(ring), Merged(SubSeq(draft, from + 1, to), prepend))
                 ELSE Append(ring, SubSeq(draft, from + 1, to))
  BY DEF Kill, Edit
<1>2. ASSUME ~loose PROVE ring' \in Seq(Now)
  <2>1. ring \in Seq(Now) /\ draft \in Now
    BY <1>2 DEF MarkersInv
  <2>2. PICK killed \in Now : killed = SubSeq(draft, from + 1, to)
    <3>1. SubSeq(draft, from + 1, to) \in Now
      BY <1>2, <2>1, WholeSubs DEF Now
    <3> QED BY <3>1, Zenon
  <2>3. CASE lastAction # "kill"
    <3>1. Append(ring, killed) \in Seq(Now)
      BY <2>1, AppendProperties
    <3> QED BY <1>1, <2>2, <2>3, <3>1
  <2>4. CASE lastAction = "kill"
    <3>1. Last(ring) \in Now /\ Front(ring) \in Seq(Now)
      <4>1. ring # <<>>
        BY <2>4 DEF JoinInv, RingInv
      <4> QED BY <2>1, <4>1, SeqEnds
    <3>2. PICK entry \in Now : entry = Last(ring)
      BY <3>1, Zenon
    <3>3. killed \o entry \in Now /\ entry \o killed \in Now
      BY WholeJoin DEF Now
    <3>4. Merged(killed, prepend) \in Now
      BY <3>2, <3>3 DEF Merged
    <3>5. Append(Front(ring), Merged(killed, prepend)) \in Seq(Now)
      BY <3>1, <3>4, AppendProperties
    <3> QED BY <1>1, <2>2, <2>4, <3>5
  <2> QED BY <2>3, <2>4
<1> QED BY <1>1, <1>2, CutWhole

LEMMA LineEndsOutside ==
    ASSUME EditTypes, cursor # Astray
    PROVE  /\ LineStart \in 0..cursor /\ LineEnd \in cursor..Len(draft)
           /\ ~MarkerAt(LineStart) /\ ~MarkerAt(LineEnd)
           /\ cursor > 0 /\ cursor = LineStart => ~MarkerAt(cursor - 1)
           /\ cursor < Len(draft) /\ cursor = LineEnd => ~MarkerAt(cursor + 1)
<1>1. PICK L \in Nat : L = Len(draft) /\ draft \in Texts /\ cursor \in 0..L
  BY DEF EditTypes, Texts
<1>2. PICK c \in 0..Len(draft) : c = cursor
  BY <1>1
<1>3. /\ LineStart \in 0..cursor /\ LineEnd \in cursor..L
      /\ ~MarkerAt(LineStart) /\ ~MarkerAt(LineEnd)
      /\ LineStart > 0 => draft[LineStart] = NL
      /\ LineEnd < L => draft[LineEnd + 1] = NL
  BY <1>1, <1>2, LineFacts, LineEndsClear DEF LineStart, LineEnd
<1>4. ASSUME cursor > 0, cursor = LineStart PROVE ~MarkerAt(cursor - 1)
  <2>1. cursor - 1 \in Int /\ (cursor - 1) + 1 \in 1..Len(draft) /\ draft[(cursor - 1) + 1] = NL
    BY <1>1, <1>3, <1>4
  <2> QED BY <1>1, <2>1, StepsClear
<1>5. ASSUME cursor < L, cursor = LineEnd PROVE ~MarkerAt(cursor + 1)
  <2>1. cursor + 1 \in Int /\ cursor + 1 \in 1..Len(draft) /\ draft[cursor + 1] = NL
    BY <1>1, <1>3, <1>5
  <2> QED BY <1>1, <2>1, StepsClear
<1> QED BY <1>1, <1>3, <1>4, <1>5

LEMMA KillBackWhole ==
    ASSUME EditTypes, JoinInv, MarkersInv, KillBack
    PROVE  MarkersInv'
<1>1. PICK from : /\ from \in {WordBack, IF cursor > LineStart THEN LineStart ELSE cursor - 1}
                  /\ Kill(from, cursor, TRUE) /\ cursor' = from /\ cursor > 0
  BY DEF KillBack, Place
<1>2. cursor # Astray /\ draft \in Texts /\ cursor \in 1..Len(draft) /\ Len(draft) \in Nat
  <2>1. cursor # Astray
    BY <1>1 DEF Kill, Edit
  <2> QED BY <1>1, <2>1 DEF EditTypes, Texts
<1>3. from \in 0..(cursor - 1) /\ ~MarkerAt(from)
  <2>1. WordBack \in 0..(cursor - 1) /\ ~MarkerAt(WordBack)
    BY <1>2, WordBackIn, WordBackClear
  <2>2. /\ LineStart \in 0..cursor /\ ~MarkerAt(LineStart)
        /\ cursor = LineStart => ~MarkerAt(cursor - 1)
    BY <1>1, <1>2, LineEndsOutside
  <2>3. PICK l \in 0..cursor : l = LineStart
    BY <2>2
  <2>4. CASE cursor > l
    BY <1>1, <1>2, <2>1, <2>2, <2>3, <2>4
  <2>5. CASE cursor = l
    BY <1>1, <1>2, <2>1, <2>2, <2>3, <2>5
  <2> QED BY <1>2, <2>3, <2>4, <2>5
<1>4. from \in 0..Len(draft) /\ cursor \in from..Len(draft) /\ from \in Int
  BY <1>2, <1>3
<1>5. PICK to \in from..Len(draft), prepend \in BOOLEAN : to = cursor /\ prepend = TRUE
  BY <1>4
<1>6. ~loose => BetweenMarkers(draft, from, since) /\ BetweenMarkers(draft, to, since)
  BY <1>3, <1>4, <1>5, ClearOutside DEF MarkersInv
<1> QED BY <1>1, <1>4, <1>5, <1>6, KillWhole

LEMMA KillAheadWhole ==
    ASSUME EditTypes, JoinInv, MarkersInv, KillLineAhead \/ KillWordAhead
    PROVE  MarkersInv'
<1>1. PICK to : /\ to \in {WordAhead, IF cursor < LineEnd THEN LineEnd ELSE cursor + 1}
                /\ Kill(cursor, to, FALSE) /\ cursor' = cursor
                /\ cursor # Astray /\ cursor < Len(draft)
  BY DEF KillLineAhead, KillWordAhead, Place, Stay
<1>2. draft \in Texts /\ cursor \in 0..Len(draft) /\ Len(draft) \in Nat
  BY <1>1 DEF EditTypes, Texts
<1>3. to \in cursor..Len(draft) /\ ~MarkerAt(to)
  <2>1. WordAhead \in cursor..Len(draft) /\ ~MarkerAt(WordAhead)
    BY <1>1, <1>2, WordAheadIn, WordAheadClear
  <2>2. /\ LineEnd \in cursor..Len(draft) /\ ~MarkerAt(LineEnd)
        /\ cursor = LineEnd => ~MarkerAt(cursor + 1)
    BY <1>1, <1>2, LineEndsOutside
  <2>3. PICK l \in cursor..Len(draft) : l = LineEnd
    BY <2>2
  <2>4. CASE cursor < l
    BY <1>1, <1>2, <2>1, <2>2, <2>3, <2>4
  <2>5. CASE cursor = l
    BY <1>1, <1>2, <2>1, <2>2, <2>3, <2>5
  <2> QED BY <1>2, <2>3, <2>4, <2>5
<1>4. PICK from \in 0..Len(draft) : from = cursor /\ to \in from..Len(draft)
  BY <1>2, <1>3
<1>5. PICK prepend \in BOOLEAN : prepend = FALSE
  OBVIOUS
<1>6. ~loose => BetweenMarkers(draft, from, since) /\ BetweenMarkers(draft, to, since)
  <2>1. to \in Int
    BY <1>2, <1>3
  <2> QED BY <1>3, <1>4, <2>1, ClearOutside DEF MarkersInv
<1> QED BY <1>1, <1>4, <1>5, <1>6, KillWhole

LEMMA YankWhole ==
    ASSUME EditTypes, MarkersInv, Yank
    PROVE  MarkersInv'
<1>1. /\ ring # <<>> /\ draft' = Spliced(cursor, Last(ring)) /\ cursor # Astray
      /\ cursor' = cursor + Len(Last(ring)) /\ Snapshot /\ ring' = ring /\ UNCHANGED markerVars
      /\ UNCHANGED <<history, loose, ring>>
  BY DEF Yank, Edit, Place
<1>2. Last(ring) \in Texts /\ (~loose => Last(ring) \in Now)
  BY <1>1, SeqEnds DEF EditTypes, MarkersInv
<1>3. PICK entry \in Texts : entry = Last(ring) /\ (~loose => entry \in Now)
  BY <1>2, Zenon
<1> QED BY <1>1, <1>3, InsertWhole

\* The kill ring turned round.
LEMMA TurnedRound ==
    ASSUME NEW S, NEW s \in Seq(S), s # <<>>
    PROVE  <<Last(s)>> \o Front(s) \in Seq(S)
<1>1. PICK e \in S, f \in Seq(S) : e = Last(s) /\ f = Front(s)
  BY SeqEnds, Zenon
<1>2. <<e>> \in Seq(S)
  OBVIOUS
<1>3. <<e>> \o f \in Seq(S)
  BY <1>2, ConcatProperties
<1> QED BY <1>1, <1>3

LEMMA YankPopWhole ==
    ASSUME EditTypes, JoinInv, MarkersInv, YankPop
    PROVE  MarkersInv'
<1>1. PICK from : from = cursor - Len(Last(ring))
  OBVIOUS
<1>2. PICK next : next = Last(Front(ring))
  OBVIOUS
<1>3. /\ lastAction = "yank" /\ Len(ring) > 1 /\ cursor # Astray
      /\ draft' = SubSeq(draft, 1, from) \o next \o SubSeq(draft, cursor + 1, Len(draft))
      /\ cursor' = from + Len(next) /\ ring' = Rotated /\ Snapshot
      /\ UNCHANGED markerVars /\ UNCHANGED <<history, loose>>
  BY <1>1, <1>2 DEF YankPop, Edit, Place
<1>4. ring # <<>> /\ Len(Last(ring)) <= cursor
  BY <1>3 DEF JoinInv, RingInv
<1>5. Last(ring) \in Texts /\ cursor \in 0..Len(draft) /\ Len(draft) \in Nat
  <2>1. Last(ring) \in Texts
    BY <1>4, SeqEnds DEF EditTypes
  <2>2. cursor \in 0..Len(draft) /\ Len(draft) \in Nat
    BY <1>3 DEF EditTypes, Texts
  <2> QED BY <2>1, <2>2
<1>6. PICK i \in 0..Len(draft) : i = from /\ cursor \in i..Len(draft)
  <2>1. Len(Last(ring)) \in Nat
    BY <1>5 DEF Texts
  <2> QED BY <1>1, <1>4, <1>5, <2>1
<1>7. PICK j \in i..Len(draft) : j = cursor
  BY <1>6
<1>8. ASSUME ~loose
      PROVE  /\ draft' \in Now /\ BetweenMarkers(draft', cursor', since)
             /\ undoStack' \in Seq(NowSnapshots) /\ ring' \in Seq(Now) /\ history' \in Seq(Now)
  <2>1. /\ draft \in Now /\ BetweenMarkers(draft, j, since) /\ ring \in Seq(Now)
        /\ history \in Seq(Now)
    BY <1>7, <1>8 DEF MarkersInv
  <2>2. ring' \in Seq(Now)
    BY <1>3, <1>4, <2>1, TurnedRound DEF Rotated
  <2>3. PICK more \in Now : more = next
    <3>1. Front(ring) \in Seq(Now)
      BY <1>4, <2>1, SeqEnds
    <3>2. Front(ring) # <<>>
      BY <1>3, <1>4, EntryTypes
    <3>3. Last(Front(ring)) \in Now
      BY <3>1, <3>2, SeqEnds
    <3> QED BY <1>2, <3>3, Zenon
  <2>4. PICK t \in Now : t = draft
    BY <2>1
  <2>5. /\ (SubSeq(t, 1, i) \o more) \o SubSeq(t, j + 1, Len(t)) \in Now
        /\ BetweenMarkers((SubSeq(t, 1, i) \o more) \o SubSeq(t, j + 1, Len(t)), i + Len(more), since)
    BY <2>1, <2>4, WholeReplaced DEF Now
  <2>6. draft' \in Now /\ BetweenMarkers(draft', cursor', since)
    BY <1>3, <1>6, <1>7, <2>3, <2>4, <2>5
  <2>7. undoStack' \in Seq(NowSnapshots)
    BY <1>3, <1>8, WholeSnapped
  <2> QED BY <1>3, <2>1, <2>2, <2>6, <2>7
<1> QED BY <1>3, <1>8, MarkersStay

LEMMA UndoWhole ==
    ASSUME EditTypes, MarkersInv, Undo
    PROVE  MarkersInv'
<1>1. /\ undoStack # <<>> /\ draft' = Last(undoStack).text /\ cursor' = Last(undoStack).cursor
      /\ undoStack' = Front(undoStack) /\ UNCHANGED markerVars
      /\ UNCHANGED <<history, loose, ring>>
  BY DEF Undo, Forgets
<1>2. ASSUME ~loose
      PROVE  /\ draft' \in Now /\ BetweenMarkers(draft', cursor', since)
             /\ undoStack' \in Seq(NowSnapshots) /\ ring' \in Seq(Now) /\ history' \in Seq(Now)
  <2>1. undoStack \in Seq(NowSnapshots) /\ ring \in Seq(Now) /\ history \in Seq(Now)
    BY <1>2 DEF MarkersInv
  <2>2. Last(undoStack) \in NowSnapshots /\ Front(undoStack) \in Seq(NowSnapshots)
    BY <1>1, <2>1, SeqEnds
  <2>3. /\ Last(undoStack).text \in Now
        /\ BetweenMarkers(Last(undoStack).text, Last(undoStack).cursor, since)
    BY <2>2 DEF NowSnapshots, Outsiders, Now
  <2> QED BY <1>1, <2>1, <2>2, <2>3
<1> QED BY <1>1, <1>2, MarkersStay

\* A whole text in the place of all of it, with the cursor at its end.
LEMMA ReplacedWhole ==
    ASSUME EditTypes, MarkersInv, ~loose => draft' \in Now, cursor' = Len(draft'),
           UNCHANGED undoStack \/ Snapshot, UNCHANGED markerVars, UNCHANGED <<history, loose, ring>>
    PROVE  MarkersInv'
<1>1. ~loose => draft' \in Now /\ BetweenMarkers(draft', cursor', since)
  BY OutsideEnds DEF Now
<1>2. ~loose => ring' \in Seq(Now) /\ history' \in Seq(Now)
  BY DEF MarkersInv
<1> QED BY <1>1, <1>2, WholeSnapped, MarkersStay

LEMMA SetTextWhole ==
    ASSUME EditTypes, MarkersInv, NEW t, ~loose => t \in Now, SetText(t)
    PROVE  MarkersInv'
<1>1. /\ draft' = t /\ cursor' = Len(draft') /\ (UNCHANGED undoStack \/ Snapshot)
      /\ UNCHANGED markerVars /\ UNCHANGED <<history, loose, ring>>
  BY DEF SetText, Place, Forgets
<1> QED BY <1>1, ReplacedWhole

LEMMA GiveBackWhole ==
    ASSUME EditTypes, MarkersInv, NEW d \in Drafts, GiveBack(d)
    PROVE  MarkersInv'
<1>1. d \in Now /\ <<NL, NL>> \in Now
  BY PlainWhole DEF MarkersInv
<1>2. ASSUME ~loose PROVE d \o <<NL, NL>> \o draft \in Now
  <2>1. PICK e \in Now : e = d \o <<NL, NL>>
    <3>1. d \o <<NL, NL>> \in Now
      BY <1>1, WholeJoin DEF Now
    <3> QED BY <3>1, Zenon
  <2>2. e \o draft \in Now
    BY <1>2, WholeJoin DEF MarkersInv, Now
  <2> QED BY <2>1, <2>2
<1>3. ~loose => (IF Stripped(draft) = <<>> THEN d ELSE d \o <<NL, NL>> \o draft) \in Now
  BY <1>1, <1>2
<1> QED BY <1>3, SetTextWhole DEF GiveBack

LEMMA BrowseWhole ==
    ASSUME EditTypes, MarkersInv, NEW n \in Int, Browse(n)
    PROVE  MarkersInv'
<1>1. UNCHANGED markerVars /\ UNCHANGED <<history, loose, ring>>
  BY DEF Browse, Forgets
<1>2. CASE n \in 0..Len(history)
  <2>1. /\ draft' = IF n = 0 THEN <<>> ELSE history[n]
        /\ cursor' = Len(draft') /\ (UNCHANGED undoStack \/ Snapshot)
    BY <1>2 DEF Browse, Place
  <2>2. ASSUME ~loose PROVE draft' \in Now
    <3>1. history \in Seq(Now) /\ Len(history) \in Nat
      BY <2>2 DEF MarkersInv
    <3>2. n # 0 => n \in 1..Len(history)
      BY <1>2, <3>1
    <3>3. n # 0 => history[n] \in Now
      BY <3>1, <3>2, ElementOfSeq
    <3> QED BY <2>1, <3>3, EmptyWhole DEF Now
  <2> QED BY <1>1, <2>1, <2>2, ReplacedWhole
<1>3. CASE n \notin 0..Len(history)
  <2>1. UNCHANGED <<draft, cursor, undoStack>>
    BY <1>3 DEF Browse
  <2>2. ~loose => /\ draft' \in Now /\ BetweenMarkers(draft', cursor', since)
                  /\ undoStack' \in Seq(NowSnapshots)
                  /\ ring' \in Seq(Now) /\ history' \in Seq(Now)
    BY <1>1, <2>1 DEF MarkersInv
  <2> QED BY <1>1, <2>2, MarkersStay
<1> QED BY <1>2, <1>3

-----------------------------------------------------------------------------
(* A submission, after which no marker in a text is one of the message.      *)
LEMMA StrippedFrom ==
    ASSUME NEW S, S \subseteq Chars, NEW t \in Seq(S)
    PROVE  Stripped(t) \in Seq(S)
<1> DEFINE kept == {i \in DOMAIN t : t[i] \notin {Space, NL}}
<1>1. PICK K \in Nat : K = Len(t) /\ DOMAIN t = 1..K
  OBVIOUS
<1>2. kept \in SUBSET Nat /\ kept \in SUBSET (0..K)
  BY <1>1
<1>3. <<>> \in Seq(S)
  OBVIOUS
<1>4. ASSUME kept # {} PROVE SubSeq(t, Min(kept), Max(kept)) \in Seq(S)
  <2>1. Min(kept) \in kept /\ Max(kept) \in kept
    <3> HIDE DEF kept
    <3> QED BY <1>2, <1>4, MinOf, MaxOf
  <2>2. PICK m \in 1..K, n \in 1..K : m = Min(kept) /\ n = Max(kept)
    BY <1>1, <2>1
  <2>3. \A i \in m..n : t[i] \in S
    BY <1>1
  <2>4. SubSeq(t, m, n) \in Seq(S)
    BY <2>3, SubSeqProperties
  <2> HIDE DEF kept
  <2> QED BY <2>2, <2>4
<1> QED BY <1>3, <1>4 DEF Stripped

Spent == {ch \in Chars : ~LateTail(ch, serial)}
LEMMA SpentIs ==
    ASSUME EditTypes, MarkersInv, NEW t \in Now
    PROVE  t \in Seq(Spent)
<1>1. t \in Seq(Chars) /\ since \in Nat /\ serial \in Nat /\ since <= serial
  BY DEF Now, Wholes, Texts, MarkersInv, EditTypes
<1>2. ASSUME NEW i \in 1..Len(t) PROVE t[i] \in Spent
  <2>1. t[i] \in Chars
    BY <1>1, ElementOfSeq
  <2>2. t[i].serial \in Nat
    BY <2>1 DEF Chars
  <2>3. ASSUME LateTail(t[i], serial) PROVE FALSE
    <3>1. t[i].serial > serial /\ LateTail(t[i], since)
      BY <1>1, <2>2, <2>3 DEF LateTail
    <3>2. t[i].serial <= serial
      BY <3>1 DEF Now, Wholes
    <3> QED BY <1>1, <2>2, <3>1, <3>2
  <2> QED BY <2>1, <2>3 DEF Spent
<1>3. t = [i \in 1..Len(t) |-> t[i]] /\ Len(t) \in Nat
  BY <1>1
<1>4. [i \in 1..Len(t) |-> t[i]] \in Seq(Spent)
  BY <1>2, <1>3
<1> QED BY <1>3, <1>4

LEMMA SpentWhole ==
    ASSUME NEW n, NEW hi, NEW t \in Seq(Spent)
    PROVE  t \in Wholes(n, serial, hi)
<1>1. t \in Texts
  BY DEF Spent, Texts
<1>2. \A i \in 1..Len(t) : ~LateTail(t[i], serial)
  BY DEF Spent
<1> QED BY <1>1, <1>2, NoTails

LEMMA ExpandedSpent ==
    ASSUME EditTypes, MarkersInv, draft \in Now
    PROVE  Expanded \in Seq(Spent)
<1> DEFINE part(i) == IF MarkerAt(i) THEN <<>>
                      ELSE IF MarkerAt(i - 1) THEN <<Long(pastes[draft[i].id])>> ELSE <<draft[i]>>
           parts == [i \in DOMAIN draft |-> part(i)]
<1>1. PICK K \in Nat : K = Len(draft) /\ DOMAIN draft = 1..K
  BY DEF EditTypes, Texts
<1>2. ASSUME NEW i \in 1..K PROVE part(i) \in Seq(Spent)
  <2>1. CASE MarkerAt(i)
    BY <2>1
  <2>2. CASE MarkerAt(i - 1)
    <3>1. (i - 1) + 1 = i
      OBVIOUS
    <3>2. draft[i].id \in DOMAIN pastes
      BY <2>2, <3>1 DEF MarkerAt
    <3>3. pastes[draft[i].id] \in Nat
      BY <3>2 DEF EditTypes
    <3>4. Long(pastes[draft[i].id]) \in Spent
      BY <3>3, CharTypes DEF Spent, LateTail, Long
    <3> QED BY <2>2, <3>4
  <2>3. CASE ~MarkerAt(i) /\ ~MarkerAt(i - 1)
    <3>1. draft \in Seq(Spent)
      BY SpentIs
    <3>2. draft[i] \in Spent
      BY <1>1, <3>1, ElementOfSeq
    <3> QED BY <2>3, <3>2
  <2> QED BY <2>1, <2>2, <2>3
<1>3. parts \in Seq(Seq(Spent))
  <2>1. parts = [i \in 1..K |-> part(i)]
    BY <1>1
  <2> HIDE DEF part
  <2>2. [i \in 1..K |-> part(i)] \in Seq(Seq(Spent))
    BY <1>2
  <2> QED BY <2>1, <2>2
<1>4. Expanded = FlattenSeq(parts)
  BY DEF Expanded
<1> HIDE DEF parts
<1> QED BY <1>3, <1>4, FlatType

LEMMA SubmitWhole ==
    ASSUME EditTypes, MarkersInv, Submit
    PROVE  MarkersInv'
<1>1. PICK prompt : prompt = Stripped(Expanded)
  OBVIOUS
<1>2. /\ history' \in {history, <<prompt>> \o history}
      /\ draft' = <<>> /\ cursor' = 0 /\ pastes' = <<>> /\ since' = serial /\ undoStack' = <<>>
      /\ UNCHANGED <<ring, serial, loose>>
  BY <1>1 DEF Submit, Forgets
<1>3. since' \in 0..serial'
  BY <1>2 DEF EditTypes
<1>4. ASSUME ~loose
      PROVE  /\ draft' \in Now' /\ BetweenMarkers(draft', cursor', since')
             /\ undoStack' \in Seq(NowSnapshots') /\ ring' \in Seq(Now') /\ history' \in Seq(Now')
  <2>1. draft \in Now /\ ring \in Seq(Now) /\ history \in Seq(Now)
    BY <1>4 DEF MarkersInv
  <2>2. Now' = Wholes(Len(pastes'), serial, serial')
    BY <1>2 DEF Now
  <2>3. \A t \in Seq(Spent) : t \in Now'
    BY <2>2, SpentWhole
  <2>4. Now \subseteq Now'
    BY <2>3, SpentIs
  <2>5. prompt \in Now'
    <3>1. Expanded \in Seq(Spent)
      BY <2>1, ExpandedSpent
    <3>2. Spent \subseteq Chars
      BY DEF Spent
    <3>3. Stripped(Expanded) \in Seq(Spent)
      BY <3>1, <3>2, StrippedFrom
    <3> QED BY <1>1, <2>3, <3>3
  <2>6. <<prompt>> \o history \in Seq(Now')
    <3>1. <<prompt>> \in Seq(Now') /\ history \in Seq(Now')
      BY <2>1, <2>4, <2>5
    <3> QED BY <3>1, ConcatProperties
  <2>7. history' \in Seq(Now') /\ ring' \in Seq(Now') /\ undoStack' \in Seq(NowSnapshots')
    BY <1>2, <2>1, <2>4, <2>6, SMTT(30)
  <2>8. draft' \in Now' /\ BetweenMarkers(draft', cursor', since')
    <3>1. <<>> \in Wholes(Len(pastes'), serial, serial')
      BY EmptyWhole
    <3>2. BetweenMarkers(<<>>, 0, serial)
      BY <3>1, OutsideEnds
    <3> QED BY <1>2, <2>2, <3>1, <3>2
  <2> QED BY <2>7, <2>8
<1> QED BY <1>2, <1>3, <1>4 DEF MarkersInv

-----------------------------------------------------------------------------
(* Moves, and every step.                                                    *)
LEMMA MovedWhole ==
    ASSUME EditTypes, MarkersInv, Moved, loose => loose',
           ~loose' => cursor' = cursor \/ cursor' = Astray \/ (cursor' \in Int /\ ~MarkerAt(cursor'))
    PROVE  MarkersInv'
<1>1. UNCHANGED markerVars /\ UNCHANGED <<draft, undoStack, history, ring>>
  BY DEF Moved, Forgets
<1>2. ASSUME ~loose'
      PROVE  /\ draft' \in Now /\ BetweenMarkers(draft', cursor', since)
             /\ undoStack' \in Seq(NowSnapshots) /\ ring' \in Seq(Now) /\ history' \in Seq(Now)
  <2>1. /\ draft \in Now /\ BetweenMarkers(draft, cursor, since) /\ undoStack \in Seq(NowSnapshots)
        /\ ring \in Seq(Now) /\ history \in Seq(Now)
    BY <1>2 DEF MarkersInv
  <2>2. BetweenMarkers(draft, Astray, since)
    BY <2>1, OutsideEnds DEF Now
  <2>3. cursor' \in Int /\ ~MarkerAt(cursor') => BetweenMarkers(draft, cursor', since)
    BY <2>1, ClearOutside
  <2> QED BY <1>1, <1>2, <2>1, <2>2, <2>3
<1> QED BY <1>1, <1>2, MarkersStay

LEMMA StepWhole ==
    ASSUME EditTypes, MarkersInv, cursor # Astray,
           NEW c \in {cursor - Back, cursor + Ahead, WordBack, WordAhead, LineStart, LineEnd}, Go(c)
    PROVE  MarkersInv'
<1>1. PICK L \in Nat : L = Len(draft) /\ draft \in Texts /\ cursor \in 0..L
  BY DEF EditTypes, Texts
<1>2. c \in 0..L /\ cursor' = c /\ loose' = loose /\ Moved
  BY <1>1 DEF Go, Place
<1>3. /\ LineStart \in 0..cursor /\ LineEnd \in cursor..L
      /\ ~MarkerAt(LineStart) /\ ~MarkerAt(LineEnd)
  BY <1>1, LineEndsOutside
<1>4. CASE c = cursor - Back
  <2>1. cursor \in 1..Len(draft)
    BY <1>1, <1>2, <1>4 DEF Back
  <2> QED BY <1>1, <1>2, <1>4, <2>1, BackClear, MovedWhole
<1>5. CASE c = cursor + Ahead
  BY <1>1, <1>2, <1>5, AheadClear, MovedWhole
<1>6. CASE c = WordBack
  <2>1. cursor \in 1..Len(draft)
    <3>1. cursor = 0 => LineStart = 0
      BY <1>3
    <3>2. cursor = 0 => WordBack = -1
      BY <3>1 DEF WordBack
    <3> QED BY <1>1, <1>2, <1>6, <3>2
  <2> QED BY <1>1, <1>2, <1>6, <2>1, WordBackClear, MovedWhole
<1>7. CASE c = WordAhead
  <2>1. cursor < Len(draft)
    <3>1. cursor = L => LineEnd = L
      BY <1>1, <1>3
    <3>2. cursor = L => WordAhead = L + 1
      BY <3>1 DEF WordAhead
    <3> QED BY <1>1, <1>2, <1>7, <3>2
  <2> QED BY <1>1, <1>2, <1>7, <2>1, WordAheadClear, MovedWhole
<1>8. CASE c = LineStart \/ c = LineEnd
  <2>1. ~MarkerAt(c) /\ c \in Int
    BY <1>2, <1>3, <1>8
  <2> QED BY <1>2, <2>1, MovedWhole
<1> QED BY <1>4, <1>5, <1>6, <1>7, <1>8

LEMMA JumpWhole ==
    ASSUME EditTypes, MarkersInv, NEW kind, Jump(kind)
    PROVE  MarkersInv'
<1>1. PICK p \in 0..Len(draft) : Place(p) /\ loose' = (loose \/ MarkerAt(p)) /\ Moved
  BY JumpIs DEF EditTypes
<1>2. loose => loose'
  BY <1>1
<1>3. ~loose' => ~MarkerAt(p)
  BY <1>1
<1>4. cursor' = p /\ p \in Int
  BY <1>1 DEF Place, EditTypes, Texts
<1> QED BY <1>1, <1>2, <1>3, <1>4, MovedWhole

LEMMA VerticalWhole ==
    ASSUME EditTypes, MarkersInv, NEW lines, NEW target, Vertical(lines, target), EditTypes'
    PROVE  MarkersInv'
<1>1. PICK place : /\ cursor' \in {Astray, IF MarkerAt(place) THEN place - 1 ELSE place}
                   /\ Moved /\ loose' = loose
  <2> DEFINE goal == lines[target]
             column == Column(lines)
             middle == column < Furthest(lines[CurrentLine(lines)])
             short == Furthest(goal) < column
             fresh == preferred = NoColumn \/ middle
             clamped == IF fresh THEN short ELSE short \/ Furthest(goal) < preferred
             spot == Min({goal.start + (IF clamped THEN Furthest(goal)
                                        ELSE IF fresh THEN column ELSE preferred),
                          LineTo(goal.line)})
  <2>1. /\ cursor' = IF spot < goal.line THEN Astray
                     ELSE IF MarkerAt(spot) THEN spot - 1 ELSE spot
        /\ Moved /\ loose' = loose
    BY DEF Vertical
  <2> HIDE DEF spot, goal
  <2> QED BY <2>1
<1>2. PICK L \in Nat : L = Len(draft) /\ draft \in Texts
  BY DEF EditTypes, Texts
<1>3. cursor' \in Int
  <2>1. Len(draft') \in Nat
    BY DEF EditTypes, Texts
  <2> QED BY <2>1 DEF EditTypes, Astray
<1>4. CASE cursor' = Astray
  BY <1>1, <1>4, MovedWhole
<1>5. CASE cursor' = IF MarkerAt(place) THEN place - 1 ELSE place
  <2>1. ASSUME MarkerAt(place) PROVE ~MarkerAt(place - 1)
    <3>1. place \in Int
      BY <1>2, <2>1, MarkerInside
    <3> QED BY <1>2, <2>1, <3>1, StepsClear
  <2>2. ~MarkerAt(cursor')
    BY <1>5, <2>1
  <2> QED BY <1>1, <1>3, <2>2, MovedWhole
<1> QED BY <1>1, <1>4, <1>5

LEMMA UnmovedWhole ==
    ASSUME EditTypes, MarkersInv, UNCHANGED <<draft, cursor, undoStack, history, ring, loose>>,
           UNCHANGED markerVars
    PROVE  MarkersInv'
<1>1. ~loose' => /\ draft' \in Now /\ BetweenMarkers(draft', cursor', since)
                 /\ undoStack' \in Seq(NowSnapshots) /\ ring' \in Seq(Now) /\ history' \in Seq(Now)
  BY DEF MarkersInv
<1> QED BY <1>1, MarkersStay

LEMMA MarkersStart ==
    ASSUME EditorInit
    PROVE  MarkersInv
<1>1. PICK start \in Starts :
          /\ draft = Last(start)
          /\ undoStack = [n \in 1..(Len(start) - 1) |->
                             [text |-> start[n], cursor |-> Len(start[n])]]
  BY DEF EditorInit
<1>2. PICK s \in Seq(Texts) : s = start /\ s # <<>>
  BY <1>1, TextsAssumption
<1>3. PICK K \in Nat : K = Len(s) /\ K # 0 /\ DOMAIN s = 1..K
  BY <1>2, EmptySeq
<1>4. serial \in Nat /\ serial = Cardinality(Tails(draft)) /\ since = 0 /\ Len(pastes) = serial
  <2>1. EditTypes
    BY EditorStarts DEF EditInv
  <2> QED BY <2>1 DEF EditTypes, EditorInit
<1>5. Now = Wholes(serial, 0, serial)
  BY <1>4 DEF Now
<1>6. ASSUME NEW n \in 1..K PROVE s[n] \in Now
  <2>1. s[n] \in Texts
    BY <1>3, ElementOfSeq
  <2>2. PICK t \in Texts : t = s[n] /\ DOMAIN t = 1..Len(t)
    BY <2>1 DEF Texts
  <2>3. \A i \in Tails(t) : /\ i > 1 /\ t[i - 1] = Open
                            /\ {t[i].id, t[i].serial} \subseteq 1..serial
    BY <1>1, <1>2, <1>3, <1>4, <2>2, PastesAssumption
  <2>4. ASSUME NEW i \in 1..Len(t), LateTail(t[i], 0)
        PROVE  i > 1 /\ t[i - 1] = Open /\ t[i].id \in 1..serial /\ t[i].serial <= serial
    <3>1. i \in Tails(t)
      BY <2>2, <2>4 DEF LateTail, Tails
    <3> QED BY <1>4, <2>3, <3>1
  <2> QED BY <1>5, <2>2, <2>4 DEF Wholes
<1>7. ASSUME NEW t \in Texts, \A i \in Tails(t) : t[i].serial = 0 PROVE t \in Now
  <2>1. DOMAIN t = 1..Len(t)
    BY DEF Texts
  <2>2. \A i \in 1..Len(t) : ~LateTail(t[i], 0)
    BY <1>7, <2>1 DEF LateTail, Tails
  <2> QED BY <1>5, <2>2, NoTails
<1>8. ring \in Seq(Now) /\ history \in Seq(Now)
  <2>1. ASSUME NEW q \in Seq(Texts), Range(q) \subseteq Range(Past) \cup Range(Killed) PROVE q \in Seq(Now)
    <3>1. ASSUME NEW i \in 1..Len(q) PROVE q[i] \in Now
      <4>1. q[i] \in Texts /\ q[i] \in Range(Past) \cup Range(Killed)
        BY <2>1 DEF Range
      <4>2. \A k \in Tails(q[i]) : q[i][k].serial = 0
        BY <4>1, PastesAssumption
      <4> QED BY <1>7, <4>1, <4>2
    <3>2. q = [i \in 1..Len(q) |-> q[i]] /\ Len(q) \in Nat
      OBVIOUS
    <3>3. [i \in 1..Len(q) |-> q[i]] \in Seq(Now)
      BY <3>1, <3>2
    <3> QED BY <3>2, <3>3
  <2>2. ring = Killed /\ history = Past
    BY DEF EditorInit
  <2> QED BY <2>1, <2>2, TextsAssumption
<1>9. draft \in Now /\ cursor = Len(draft)
  <2>1. draft = s[K] /\ K \in 1..K
    BY <1>1, <1>2, <1>3 DEF Last
  <2>2. cursor = Len(draft)
    BY DEF EditorInit
  <2> QED BY <1>6, <2>1, <2>2
<1>10. BetweenMarkers(draft, cursor, since)
  BY <1>4, <1>5, <1>9, OutsideEnds
<1>11. undoStack \in Seq(NowSnapshots)
  <2>1. PICK m \in Nat : m = K - 1
    BY <1>3
  <2>2. ASSUME NEW i \in 1..m PROVE [text |-> s[i], cursor |-> Len(s[i])] \in NowSnapshots
    <3>1. i \in 1..K
      BY <2>1, <2>2
    <3>2. PICK t \in Now : t = s[i] /\ t \in Texts
      BY <1>3, <1>6, <3>1, ElementOfSeq
    <3>3. Len(t) \in 0..Len(t) /\ Len(t) \in Int
      BY <3>2 DEF Texts
    <3>4. [text |-> t, cursor |-> Len(t)] \in Snapshots
      BY <3>2, <3>3 DEF Snapshots
    <3>5. BetweenMarkers(t, Len(t), since)
      BY <1>4, <1>5, <3>2, OutsideEnds
    <3>6. [text |-> t, cursor |-> Len(t)] \in NowSnapshots
      BY <3>2, <3>4, <3>5 DEF Now, NowSnapshots, Outsiders
    <3> QED BY <3>2, <3>6
  <2>3. [i \in 1..m |-> [text |-> s[i], cursor |-> Len(s[i])]] \in Seq(NowSnapshots)
    BY <2>2
  <2> QED BY <1>1, <1>2, <1>3, <2>1, <2>3
<1> QED BY <1>4, <1>8, <1>9, <1>10, <1>11 DEF MarkersInv

LEMMA MarkersStep ==
    ASSUME EditInv, EditInv', MarkersInv, EditorNext
    PROVE  MarkersInv'
<1>0. EditTypes /\ JoinInv /\ EditTypes' /\ since \in Nat
  BY DEF EditInv, MarkersInv
<1>1. ASSUME NEW kind \in Kinds, Type(Char(kind)) \/ ApplyCompletion(Char(kind))
      PROVE  MarkersInv'
  BY <1>0, <1>1, TypeWhole
<1>2. ASSUME NEW more \in {<<NL>>} \cup Drafts, Paste(more) PROVE MarkersInv'
  <2>1. more \in Texts /\ more \in Now
    BY <1>0, CharTypes, PlainWhole
  <2> QED BY <1>0, <1>2, <2>1, PasteWhole
<1>3. ASSUME NEW d \in Drafts, GiveBack(d) PROVE MarkersInv'
  BY <1>0, <1>3, GiveBackWhole
<1>4. CASE PasteLong \/ BreakLine
  BY <1>0, <1>4, PasteLongWhole, BreakLineWhole
<1>5. CASE SetText(<<>>)
  <2>1. <<>> \in Now
    BY EmptyWhole DEF Now
  <2> QED BY <1>0, <1>5, <2>1, SetTextWhole
<1>6. CASE Backspace \/ Delete
  BY <1>0, <1>6, DeletesWhole
<1>7. CASE NothingToTake \/ Resize
  <2>1. UNCHANGED <<draft, cursor, undoStack, history, ring, loose>> /\ UNCHANGED markerVars
    BY <1>7 DEF NothingToTake, Resize, Forgets, killVars
  <2> QED BY <1>0, <2>1, UnmovedWhole
<1>8. CASE KillBack \/ KillLineAhead \/ KillWordAhead
  BY <1>0, <1>8, KillBackWhole, KillAheadWhole
<1>9. CASE Yank \/ YankPop
  BY <1>0, <1>9, YankWhole, YankPopWhole
<1>10. CASE Undo \/ Submit
  BY <1>0, <1>10, UndoWhole, SubmitWhole
<1>11. CASE Step
  BY <1>0, <1>11, StepWhole DEF Step
<1>12. CASE StepAtEnd
  <2>1. Moved /\ cursor' = cursor /\ loose' = loose
    BY <1>12 DEF StepAtEnd
  <2> QED BY <1>0, <2>1, MovedWhole
<1>13. ASSUME NEW kind, Jump(kind) PROVE MarkersInv'
  BY <1>0, <1>13, JumpWhole
<1>14. CASE UpOrDown
  <2>1. PICK lines : lines = VisualLines
    OBVIOUS
  <2>2. /\ cursor # Astray
        /\ \/ \E n \in Int : Browse(n)
           \/ Go(LineStart) \/ Go(LineEnd)
           \/ \E target \in 1..Len(lines) : Vertical(lines, target)
    BY <1>0, <1>14, <2>1, UpOrDownIs
  <2> QED BY <1>0, <2>2, BrowseWhole, StepWhole, VerticalWhole
<1> QED BY <1>1, <1>2, <1>3, <1>4, <1>5, <1>6, <1>7, <1>8, <1>9, <1>10, <1>11, <1>12, <1>13,
           <1>14 DEF EditorNext

LEMMA MarkersInvariant == EditorSpec => []MarkersInv
<1>1. EditorInit => MarkersInv
  BY MarkersStart
<1>2. EditInv /\ EditInv' /\ MarkersInv /\ [EditorNext]_editorVars => MarkersInv'
  <2>1. ASSUME EditInv, MarkersInv, UNCHANGED editorVars PROVE MarkersInv'
    <3>1. UNCHANGED <<draft, cursor, undoStack, history, ring, loose>> /\ UNCHANGED markerVars
      BY <2>1 DEF editorVars, killVars
    <3> QED BY <2>1, <3>1, UnmovedWhole DEF EditInv
  <2> QED BY <2>1, MarkersStep
<1> QED BY <1>1, <1>2, EditorInvariant, PTL DEF EditorSpec

\* The cursor is in no marker of the message, unless a jump has gone into one.
LEMMA CursorOutside ==
    ASSUME EditTypes, MarkersInv, cursor # Astray, MarkerAt(cursor),
           draft[cursor + 1].serial > since
    PROVE  loose
<1>1. cursor + 1 \in 1..Len(draft) /\ draft[cursor + 1].kind = "tail"
  BY DEF MarkerAt, EditTypes, Texts
<1> QED BY <1>1 DEF MarkersInv, BetweenMarkers, LateTail

-----------------------------------------------------------------------------
(* Where the visual lines of a line begin and end.                           *)
\* The places a line is broken at, and the wraps of its segments up to place j.
Cuts(l, end) ==
    {b \in Seq(Int) :
        /\ b # <<>> /\ b[1] = l /\ \A m, n \in 1..Len(b) : m < n => b[m] < b[n]
        /\ \A n \in 1..Len(b) : b[n] \in l..end /\ ~MarkerAt(b[n]) /\ (n > 1 => b[n] < end)}
Wrapping(l, end, j) ==
    {s \in Wraps :
        /\ s.breaks \in Cuts(l, end) /\ Last(s.breaks) <= j
        /\ \/ s.chance = NoColumn
           \/ Last(s.breaks) < s.chance /\ s.chance <= j /\ s.chance < end /\ ~MarkerAt(s.chance)}

LEMMA CutAppend ==
    ASSUME NEW l \in Int, NEW end \in Int, NEW b \in Cuts(l, end), NEW x \in Int,
           Last(b) < x, x < end, ~MarkerAt(x)
    PROVE  Append(b, x) \in Cuts(l, end) /\ Last(Append(b, x)) = x
<1>1. PICK s \in Seq(Int) : s = b /\ s # <<>>
  BY DEF Cuts
<1>2. PICK K \in Nat : K = Len(s) /\ K # 0
  BY <1>1, EmptySeq
<1>3. PICK a \in Seq(Int) : a = Append(s, x)
  BY <1>1, AppendProperties
<1>4. /\ Len(a) = K + 1 /\ a[K + 1] = x /\ a # <<>> /\ \A n \in 1..K : a[n] = s[n]
  BY <1>1, <1>2, <1>3, AppendProperties
<1>5. \A n \in 1..K : s[n] \in Int
  BY <1>1, <1>2, ElementOfSeq
<1>6. /\ s[1] = l /\ \A m, n \in 1..K : m < n => s[m] < s[n]
      /\ \A n \in 1..K : s[n] \in l..end /\ ~MarkerAt(s[n]) /\ (n > 1 => s[n] < end)
      /\ s[K] < x
  BY <1>1, <1>2 DEF Cuts, Last
<1>7. \A n \in 1..K : s[n] <= s[K]
  <2>1. K \in 1..K
    BY <1>2
  <2>2. ASSUME NEW n \in 1..K PROVE s[n] <= s[K]
    <3>1. CASE n = K
      BY <1>5, <2>1, <3>1
    <3>2. CASE n < K
      <4>1. s[n] < s[K]
        BY <1>6, <2>1, <3>2
      <4> QED BY <1>5, <2>1, <4>1
    <3> QED BY <1>2, <3>1, <3>2
  <2> QED BY <2>2
<1>8. x \in l..end
  <2>1. K \in 1..K
    BY <1>2
  <2>2. PICK y \in l..end : y = s[K]
    BY <1>6, <2>1
  <2>3. y < x
    BY <1>6, <2>2
  <2> QED BY <2>3
<1>9. ASSUME NEW m \in 1..(K + 1), NEW n \in 1..(K + 1), m < n PROVE a[m] < a[n]
  <2>1. m \in 1..K /\ a[m] = s[m]
    BY <1>2, <1>4, <1>9, SMTT(30)
  <2>2. CASE n = K + 1
    <3>1. s[m] <= s[K] /\ s[m] \in Int /\ s[K] \in Int
      BY <1>2, <1>5, <1>7, <2>1
    <3> QED BY <1>4, <1>6, <2>1, <2>2, <3>1
  <2>3. CASE n # K + 1
    <3>1. n \in 1..K /\ a[n] = s[n]
      BY <1>2, <1>4, <2>3
    <3> QED BY <1>6, <1>9, <2>1, <3>1
  <2> QED BY <2>2, <2>3
<1>10. ASSUME NEW n \in 1..(K + 1)
       PROVE  a[n] \in l..end /\ ~MarkerAt(a[n]) /\ (n > 1 => a[n] < end)
  <2>1. CASE n = K + 1
    BY <1>4, <1>8, <2>1
  <2>2. CASE n # K + 1
    <3>1. n \in 1..K /\ a[n] = s[n]
      BY <1>2, <1>4, <2>2
    <3> QED BY <1>6, <3>1
  <2> QED BY <2>1, <2>2
<1>11. a[1] = l
  <2>1. 1 \in 1..K
    BY <1>2
  <2> QED BY <1>4, <1>6, <2>1
<1>12. a \in Cuts(l, end)
  BY <1>2, <1>4, <1>9, <1>10, <1>11 DEF Cuts
<1> QED BY <1>1, <1>3, <1>4, <1>12 DEF Last

LEMMA SegmentCuts ==
    ASSUME draft \in Texts, width \in Nat, NEW l \in 0..Len(draft), NEW end \in l..Len(draft),
           NEW j \in l..(end - 1), NEW s \in Wrapping(l, end, j)
    PROVE  Segment(s, j, end) \in Wrapping(l, end, j + 1)
<1>1. PICK L \in Nat : L = Len(draft) /\ DOMAIN draft = 1..L
  BY DEF Texts
<1>2. l \in Int /\ end \in Int /\ j \in Int /\ j < end
  BY <1>1
<1>3. /\ s \in Wraps /\ s.breaks \in Cuts(l, end) /\ Last(s.breaks) <= j
      /\ \/ s.chance = NoColumn
         \/ Last(s.breaks) < s.chance /\ s.chance <= j /\ s.chance < end /\ ~MarkerAt(s.chance)
  BY DEF Wrapping
<1>4. /\ s.breaks \in Seq(Int) /\ s.breaks # <<>> /\ s.width \in Int /\ s.chance \in Int
      /\ s.chanceWidth \in Int
  BY <1>3 DEF Wraps
<1>5. Last(s.breaks) \in Int
  BY <1>4, SeqEnds
<1>6. CASE MarkerAt(j)
  <2>1. Segment(s, j, end) = s
    BY <1>6 DEF Segment
  <2> QED BY <1>2, <1>3, <1>4, <1>5, <2>1 DEF Wrapping
<1>7. CASE ~MarkerAt(j)
  <2>1. PICK g \in {1, 2} : g = IF MarkerAt(j + 1) THEN 2 ELSE 1
    OBVIOUS
  <2>2. PICK w : w = Segment(s, j, end)
    OBVIOUS
  <2>3. w = Wrap(s, j, g, end) /\ w \in Wraps
    BY <1>2, <1>3, <1>7, <2>1, <2>2, SegmentType DEF Segment
  <2> DEFINE over == s.width + g > width
             back == over /\ s.chance # NoColumn /\ s.width - s.chanceWidth + g <= width
             force == over /\ ~back /\ Last(s.breaks) < j
             next == j + g
             opens == draft[next] = Space /\ next < end /\ draft[next + 1] # Space
  <2>4. /\ w.breaks = IF back THEN Append(s.breaks, s.chance)
                      ELSE IF force THEN Append(s.breaks, j) ELSE s.breaks
        /\ w.chance = IF opens THEN next ELSE IF over THEN NoColumn ELSE s.chance
    BY <2>3 DEF Wrap
  <2>5. back => over
    OBVIOUS
  <2>6. opens => next = j + 1 /\ j + 1 < end /\ ~MarkerAt(j + 1)
    <3>1. ASSUME opens PROVE next = j + 1 /\ j + 1 < end /\ ~MarkerAt(j + 1)
      <4>1. next \in 1..L /\ draft[next] = Space
        BY <1>1, <1>2, <2>1, <3>1
      <4>2. g # 2
        <5>1. MarkerAt(j + 1) => draft[(j + 1) + 1].kind = "tail"
          BY DEF MarkerAt
        <5>2. Space.kind # "tail"
          BY DEF Space, Char
        <5>3. g = 2 => MarkerAt(j + 1) /\ next = (j + 1) + 1
          BY <1>2, <2>1
        <5> QED BY <4>1, <5>1, <5>2, <5>3
      <4>3. g = 1 /\ ~MarkerAt(j + 1)
        BY <2>1, <4>2
      <4> QED BY <3>1, <4>3
    <3> QED BY <3>1
  <2>7. w.breaks \in Cuts(l, end) /\ Last(w.breaks) <= j
    <3>1. CASE back
      <4>1. Last(s.breaks) < s.chance /\ s.chance <= j /\ s.chance < end /\ ~MarkerAt(s.chance)
        BY <1>3, <3>1
      <4>2. /\ Append(s.breaks, s.chance) \in Cuts(l, end)
            /\ Last(Append(s.breaks, s.chance)) = s.chance
        BY <1>2, <1>3, <1>4, <4>1, CutAppend
      <4> QED BY <2>4, <3>1, <4>1, <4>2
    <3>2. CASE ~back /\ force
      <4>1. Last(s.breaks) < j
        BY <3>2
      <4>2. Append(s.breaks, j) \in Cuts(l, end) /\ Last(Append(s.breaks, j)) = j
        BY <1>2, <1>3, <1>7, <4>1, CutAppend
      <4> HIDE DEF back, force
      <4> QED BY <1>2, <2>4, <3>2, <4>2
    <3>3. CASE ~back /\ ~force
      <4> HIDE DEF back, force
      <4> QED BY <1>3, <2>4, <3>3
    <3> QED BY <3>1, <3>2, <3>3
  <2>8. over \/ w.breaks = s.breaks
    <3>1. ~over => ~back /\ ~force
      OBVIOUS
    <3> HIDE DEF over, back, force
    <3> QED BY <2>4, <3>1
  <2>9. \/ w.chance = NoColumn
        \/ /\ Last(w.breaks) < w.chance /\ w.chance <= j + 1 /\ w.chance < end
           /\ ~MarkerAt(w.chance)
    <3>1. Last(w.breaks) \in Int
      <4>1. w.breaks \in Seq(Int) /\ w.breaks # <<>>
        BY <2>3 DEF Wraps
      <4> QED BY <4>1, SeqEnds
    <3> HIDE DEF over, back, force, opens, next
    <3>2. CASE opens
      BY <1>2, <2>4, <2>6, <2>7, <3>1, <3>2
    <3>3. CASE ~opens /\ over
      BY <2>4, <3>3
    <3>4. CASE ~opens /\ ~over
      <4>1. w.chance = s.chance /\ w.breaks = s.breaks
        BY <2>4, <2>8, <3>4
      <4> QED BY <1>2, <1>3, <1>4, <4>1
    <3> QED BY <3>2, <3>3, <3>4
  <2>10. Last(w.breaks) <= j + 1
    <3>1. w.breaks \in Seq(Int) /\ w.breaks # <<>>
      BY <2>3 DEF Wraps
    <3>2. Last(w.breaks) \in Int
      BY <3>1, SeqEnds
    <3> QED BY <1>2, <2>7, <3>2
  <2> QED BY <2>2, <2>3, <2>7, <2>9, <2>10 DEF Wrapping
<1> QED BY <1>6, <1>7

\* A line that begins at place l is the line of each of its places.
LEMMA LineOf ==
    ASSUME draft \in Texts, NEW l \in LineStarts
    PROVE  /\ l \in 0..Len(draft) /\ ~MarkerAt(l) /\ LineAt(l) = l /\ LineTo(l) \in l..Len(draft)
           /\ \A c \in l..LineTo(l) : LineAt(c) = l /\ LineTo(c) = LineTo(l)
<1>1. PICK L \in Nat : L = Len(draft) /\ DOMAIN draft = 1..L
  BY DEF Texts
<1>2. LineStarts \subseteq 0..L /\ 0 \in LineStarts
  BY <1>1 DEF LineStarts
<1>3. l \in 0..L /\ LineTo(l) \in l..Len(draft)
  <2>1. l \in 0..Len(draft)
    BY <1>1, <1>2
  <2> QED BY <1>1, <2>1, LineFacts
<1> DEFINE E(c) == {L} \cup {k - 1 : k \in {m \in LineStarts : m > c}}
<1>4. \A c \in 0..L : E(c) \in SUBSET Nat /\ E(c) # {} /\ LineTo(c) = Min(E(c))
  <2>1. ASSUME NEW c \in 0..L PROVE E(c) \in SUBSET Nat /\ E(c) # {} /\ LineTo(c) = Min(E(c))
    <3>1. E(c) \in SUBSET Nat /\ E(c) # {}
      BY <1>2
    <3>2. LineTo(c) = Min(E(c))
      BY <1>1 DEF LineTo
    <3> QED BY <3>1, <3>2
  <2> QED BY <2>1
<1>5. ASSUME NEW m \in LineStarts, m > l PROVE LineTo(l) < m
  <2>1. m - 1 \in E(l)
    BY <1>5
  <2>2. m \in 0..L
    BY <1>2
  <2>3. Min(E(l)) <= m - 1
    <3>1. E(l) \in SUBSET Nat /\ E(l) # {}
      BY <1>3, <1>4
    <3> HIDE DEF E
    <3> QED BY <2>1, <3>1, MinOf
  <2>4. LineTo(l) <= m - 1
    BY <1>3, <1>4, <2>3
  <2> QED BY <1>1, <1>3, <2>2, <2>4
<1>6. ASSUME NEW c \in l..LineTo(l) PROVE LineAt(c) = l /\ LineTo(c) = LineTo(l)
  <2>1. c \in 0..L /\ c >= l
    BY <1>1, <1>3
  <2>2. {m \in LineStarts : m > c} = {m \in LineStarts : m > l}
    <3>1. ASSUME NEW m \in LineStarts PROVE m > c <=> m > l
      <4>1. m \in 0..L
        BY <1>2
      <4>2. m > l => LineTo(l) < m
        BY <1>5
      <4> QED BY <1>1, <1>3, <2>1, <4>1, <4>2
    <3> QED BY <3>1
  <2>3. LineTo(c) = LineTo(l)
    BY <2>2 DEF LineTo
  <2> DEFINE S == {m \in LineStarts : m <= c}
  <2>4. S \in SUBSET (0..L) /\ l \in S
    BY <1>2, <2>1
  <2>5. LineAt(c) = Max(S)
    BY DEF LineAt
  <2>6. Max(S) \in S /\ \A y \in S : y <= Max(S)
    <3> HIDE DEF S
    <3> QED BY <2>4, MaxOf
  <2>7. Max(S) \in 0..L /\ Max(S) <= c /\ Max(S) \in LineStarts
    <3>1. Max(S) \in 0..L
      <4> HIDE DEF S
      <4> QED BY <2>4, <2>6
    <3> QED BY <2>6, <3>1
  <2>8. l <= Max(S)
    <3> HIDE DEF S
    <3> QED BY <2>4, <2>6
  <2>9. ~(Max(S) > l)
    <3>1. PICK x \in 0..L : x = Max(S) /\ x <= c /\ x \in LineStarts
      <4> HIDE DEF S
      <4> QED BY <2>7
    <3>2. x > l => LineTo(l) < x
      BY <1>5, <3>1
    <3>3. ~(x > l)
      BY <1>1, <1>3, <2>1, <3>1, <3>2
    <3> HIDE DEF S
    <3> QED BY <3>1, <3>3
  <2>10. Max(S) = l
    <3> HIDE DEF S
    <3> QED BY <1>3, <2>7, <2>8, <2>9
  <2> HIDE DEF S
  <2> QED BY <2>3, <2>5, <2>10
<1>7. LineAt(l) = l
  <2>1. l \in l..LineTo(l)
    BY <1>1, <1>3
  <2> QED BY <1>6, <2>1
<1>8. ~MarkerAt(l)
  <2>1. l \in 0..Len(draft)
    BY <1>1, <1>3
  <2> QED BY <1>7, <2>1, LineEndsClear
<1> QED BY <1>1, <1>3, <1>6, <1>7, <1>8

LEMMA BreaksCuts ==
    ASSUME draft \in Texts, width \in Nat, NEW l \in LineStarts
    PROVE  Breaks(l) \in Cuts(l, LineTo(l))
<1>1. PICK L \in Nat : L = Len(draft)
  BY DEF Texts
<1>2. /\ l \in 0..Len(draft) /\ ~MarkerAt(l) /\ LineTo(l) \in l..Len(draft)
  BY LineOf
<1>3. PICK end \in l..Len(draft) : end = LineTo(l)
  BY <1>2
<1>4. PICK K \in Nat : K = end - l
  BY <1>1, <1>2, <1>3
<1>5. PICK wrap :
          /\ \A n \in 0..K : wrap[n] \in Wraps
          /\ wrap[0] = Unbroken(l)
          /\ \A n \in 1..K : wrap[n] = Segment(wrap[n - 1], l + n - 1, end)
          /\ Breaks(l) = IF K <= width THEN <<l>> ELSE wrap[K].breaks
  BY <1>2, <1>3, <1>4, BreaksRun
<1>6. <<l>> \in Cuts(l, end) /\ Last(<<l>>) = l
  <2>1. PICK b \in Seq(Int) : b = <<l>> /\ Len(b) = 1 /\ b[1] = l /\ b # <<>>
    <3>1. l \in Int
      BY <1>1, <1>2
    <3>2. <<l>> \in Seq(Int) /\ Len(<<l>>) = 1 /\ <<l>>[1] = l /\ <<l>> # <<>>
      BY <3>1
    <3> QED BY <3>2
  <2>2. l \in l..end
    BY <1>1, <1>2, <1>3
  <2> QED BY <1>2, <2>1, <2>2 DEF Cuts, Last
<1>7. Unbroken(l) \in Wrapping(l, end, l)
  <2>1. PICK s : s = Unbroken(l)
    OBVIOUS
  <2>2. s \in Wraps /\ s.breaks = <<l>> /\ s.chance = NoColumn
    <3>1. 0 \in 0..K
      BY <1>4
    <3> QED BY <1>5, <2>1, <3>1 DEF Unbroken
  <2>3. l <= l
    BY <1>1, <1>2
  <2> QED BY <1>6, <2>1, <2>2, <2>3 DEF Wrapping
<1>8. \A n \in 0..K : n \in {m \in 0..K : wrap[m] \in Wrapping(l, end, l + m)}
  <2> DEFINE T == {m \in 0..K : wrap[m] \in Wrapping(l, end, l + m)}
  <2>1. 0 \in T
    <3>1. l + 0 = l /\ 0 \in 0..K
      BY <1>1, <1>2, <1>4
    <3> QED BY <1>5, <1>7, <3>1
  <2>2. ASSUME NEW n \in 0..(K - 1), n \in T PROVE n + 1 \in T
    <3>1. /\ n + 1 \in 1..K /\ n + 1 \in 0..K /\ (n + 1) - 1 = n /\ l + (n + 1) - 1 = l + n
          /\ l + (n + 1) = (l + n) + 1 /\ l + n \in l..(end - 1)
      BY <1>1, <1>2, <1>3, <1>4
    <3>2. wrap[n + 1] = Segment(wrap[n], l + n, end)
      BY <1>5, <3>1
    <3>3. wrap[n] \in Wrapping(l, end, l + n)
      BY <2>2
    <3>4. wrap[n + 1] \in Wrapping(l, end, (l + n) + 1)
      BY <1>2, <3>1, <3>2, <3>3, SegmentCuts
    <3> QED BY <3>1, <3>4
  <2> HIDE DEF T
  <2>3. \A n \in 0..K : n \in T
    BY <2>1, <2>2, UpTo
  <2> QED BY <2>3 DEF T
<1>9. wrap[K].breaks \in Cuts(l, end)
  <2>1. K \in 0..K
    BY <1>4
  <2> QED BY <1>8, <2>1 DEF Wrapping
<1> QED BY <1>3, <1>5, <1>6, <1>9

-----------------------------------------------------------------------------
(* The visual lines of the text.                                             *)
\* A visual line is a piece of a line; it holds its places, and the last one the line's end.
Piece(v) ==
    /\ v.line \in LineStarts /\ v.start \in v.line..LineTo(v.line) /\ ~MarkerAt(v.start)
    /\ v.length \in Nat /\ v.last \in BOOLEAN
    /\ IF v.last THEN v.start + v.length = LineTo(v.line)
       ELSE v.length > 0 /\ v.start + v.length < LineTo(v.line)
Holds(v, l, c) ==
    v.line = l /\ v.start <= c /\ (c < v.start + v.length \/ (v.last /\ c = v.start + v.length))
RowsInOrder(s) ==
    \A j, k \in 1..Len(s) : j < k /\ s[j].line = s[k].line =>
        ~s[j].last /\ s[j].start + s[j].length <= s[k].start
Covers(s, l) == \A c \in l..LineTo(l) : \E k \in 1..Len(s) : Holds(s[k], l, c)
\* What sets out the lines that begin at place n or before it.
Rows(n) ==
    {s \in Seq(Visual) :
        /\ RowsInOrder(s) /\ \A k \in 1..Len(s) : Piece(s[k]) /\ s[k].line <= n
        /\ \A l \in LineStarts : l <= n => Covers(s, l)}

LEMMA WrappedRow ==
    ASSUME draft \in Texts, width \in Nat, NEW l \in LineStarts
    PROVE  /\ Wrapped(l) \in Seq(Visual) /\ RowsInOrder(Wrapped(l)) /\ Covers(Wrapped(l), l)
           /\ \A k \in 1..Len(Wrapped(l)) : Piece(Wrapped(l)[k]) /\ Wrapped(l)[k].line = l
<1>1. PICK L \in Nat : L = Len(draft)
  BY DEF Texts
<1>2. l \in 0..Len(draft) /\ LineTo(l) \in l..Len(draft)
  BY LineOf
<1>3. PICK end \in Int : end = LineTo(l) /\ l <= end /\ l \in Nat
  BY <1>1, <1>2
<1>4. PICK b \in Seq(Int) : b = Breaks(l) /\ b \in Cuts(l, end) /\ b # <<>>
  <2>1. Breaks(l) \in Cuts(l, end)
    BY <1>3, BreaksCuts
  <2> QED BY <2>1 DEF Cuts
<1>5. PICK K \in Nat : K = Len(b) /\ DOMAIN b = 1..K /\ K # 0
  BY <1>4, EmptySeq
<1>6. \A n \in 1..K : b[n] \in Int
  BY <1>5, ElementOfSeq
<1>7. /\ b[1] = l /\ \A m, n \in 1..K : m < n => b[m] < b[n]
      /\ \A n \in 1..K : b[n] \in l..end /\ ~MarkerAt(b[n]) /\ (n > 1 => b[n] < end)
  BY <1>4, <1>5 DEF Cuts
<1> DEFINE until(n) == IF n = K THEN end ELSE b[n + 1]
           piece(n) == [line |-> l, start |-> b[n], last |-> n = K, length |-> until(n) - b[n]]
<1>8. PICK w \in Seq(Visual) : w = Wrapped(l)
  BY <1>2, WrappedType
<1>9. Len(w) = K /\ \A n \in 1..K : w[n] = piece(n)
  <2>1. w = [n \in 1..K |-> piece(n)]
    BY <1>3, <1>4, <1>5, <1>8 DEF Wrapped
  <2>2. DOMAIN w = 1..K
    BY <2>1
  <2>3. Len(w) \in Nat /\ DOMAIN w = 1..Len(w)
    OBVIOUS
  <2>4. Len(w) = K
    BY <1>5, <2>2, <2>3
  <2> QED BY <2>1, <2>4
<1>10. ASSUME NEW n \in 1..K
       PROVE  /\ until(n) \in Int
              /\ n = K => until(n) = end
              /\ n # K => n + 1 \in 1..K /\ until(n) = b[n + 1] /\ b[n] < until(n) /\ until(n) < end
  <2>1. n # K => n + 1 \in 1..K /\ n + 1 > 1 /\ n < n + 1
    BY <1>5
  <2>2. n # K => b[n + 1] < end /\ b[n] < b[n + 1] /\ b[n + 1] \in Int
    BY <1>6, <1>7, <2>1
  <2> QED BY <1>3, <2>1, <2>2
<1>11. ASSUME NEW n \in 1..K PROVE Piece(w[n]) /\ w[n].line = l
  <2>1. w[n].line = l /\ w[n].start = b[n] /\ w[n].last = (n = K) /\ w[n].length = until(n) - b[n]
    BY <1>9
  <2>2. b[n] \in Int /\ b[n] \in l..end /\ ~MarkerAt(b[n])
    BY <1>6, <1>7
  <2>3. PICK u \in Int : /\ u = until(n) /\ (n = K => u = end)
                         /\ (n # K => b[n] < u /\ u < end)
    BY <1>3, <1>10
  <2>4. u - b[n] \in Nat /\ b[n] + (u - b[n]) = u /\ (n # K => u - b[n] > 0)
    <3>1. PICK k \in Int : k = b[n] /\ k <= end
      BY <1>3, <2>2
    <3>2. u - k \in Nat /\ k + (u - k) = u /\ (n # K => u - k > 0)
      BY <1>3, <2>3, <3>1, SMTT(30)
    <3> QED BY <3>1, <3>2
  <2> HIDE DEF until, piece
  <2>5. CASE n = K
    <3>1. w[n].last = TRUE
      BY <2>1, <2>5
    <3> QED BY <1>3, <2>1, <2>2, <2>3, <2>4, <2>5, <3>1 DEF Piece
  <2>6. CASE n # K
    <3>1. w[n].last = FALSE
      BY <2>1, <2>6
    <3> QED BY <1>3, <2>1, <2>2, <2>3, <2>4, <2>6, <3>1 DEF Piece
  <2> QED BY <2>5, <2>6
<1>12. ASSUME NEW j \in 1..K, NEW k \in 1..K, j < k
       PROVE  ~w[j].last /\ w[j].start + w[j].length <= w[k].start
  <2>1. j # K /\ j + 1 \in 1..K /\ until(j) = b[j + 1]
    BY <1>5, <1>12
  <2>2. w[j].last = FALSE /\ w[j].start = b[j] /\ w[j].length = b[j + 1] - b[j] /\ w[k].start = b[k]
    <3>1. w[j].last = (j = K) /\ w[j].start = b[j] /\ w[j].length = until(j) - b[j]
          /\ w[k].start = b[k]
      BY <1>9
    <3> HIDE DEF until, piece
    <3> QED BY <2>1, <3>1
  <2>3. b[j] \in Int /\ b[j + 1] \in Int /\ b[k] \in Int
    BY <1>6, <2>1
  <2>4. b[j + 1] <= b[k]
    <3>1. CASE k = j + 1
      BY <2>3, <3>1
    <3>2. CASE j + 1 < k
      <4>1. b[j + 1] < b[k]
        BY <1>7, <2>1, <3>2
      <4> QED BY <2>3, <4>1
    <3> QED BY <1>12, <3>1, <3>2
  <2> QED BY <2>2, <2>3, <2>4
<1>13. ASSUME NEW c \in l..end PROVE \E k \in 1..K : Holds(w[k], l, c)
  <2> DEFINE S == {n \in 1..K : b[n] <= c}
  <2>1. c \in Int /\ l <= c /\ c <= end
    BY <1>3
  <2>2. 1 \in S
    BY <1>5, <1>7, <2>1
  <2>3. S \in SUBSET (0..K)
    BY <1>5
  <2>4. PICK n \in 1..K : n \in S /\ \A m \in S : m <= n
    <3>1. Max(S) \in S /\ \A m \in S : m <= Max(S)
      <4> HIDE DEF S
      <4> QED BY <2>2, <2>3, MaxOf
    <3>2. Max(S) \in 1..K
      BY <3>1
    <3> HIDE DEF S
    <3> QED BY <3>1, <3>2
  <2>5. b[n] \in Int /\ b[n] <= c
    BY <1>6, <2>4
  <2>6. w[n].line = l /\ w[n].start = b[n] /\ w[n].last = (n = K) /\ w[n].length = until(n) - b[n]
    BY <1>9
  <2>7. PICK u \in Int : /\ u = until(n) /\ (n = K => u = end)
                         /\ (n # K => n + 1 \in 1..K /\ u = b[n + 1])
    BY <1>3, <1>10
  <2>8. b[n] + (u - b[n]) = u
    BY <2>5, <2>7
  <2>9. CASE n = K
    <3>1. w[n].last
      BY <2>6, <2>9
    <3>2. c < u \/ c = u
      BY <1>3, <2>1, <2>7, <2>9
    <3> HIDE DEF until, piece, S
    <3> QED BY <2>5, <2>6, <2>7, <2>8, <3>1, <3>2 DEF Holds
  <2>10. CASE n # K
    <3>1. ~(b[n + 1] <= c)
      <4>1. n + 1 \in 1..K /\ ~(n + 1 <= n)
        BY <2>7, <2>10
      <4>2. n + 1 \notin S
        BY <2>4, <4>1
      <4> QED BY <4>1, <4>2
    <3>2. c < u
      BY <1>6, <2>1, <2>7, <2>10, <3>1
    <3> HIDE DEF until, piece, S
    <3> QED BY <2>5, <2>6, <2>7, <2>8, <3>2 DEF Holds
  <2> QED BY <2>9, <2>10
<1>14. RowsInOrder(w)
  BY <1>9, <1>12 DEF RowsInOrder
<1>15. Covers(w, l)
  BY <1>3, <1>9, <1>13 DEF Covers
<1> HIDE DEF until, piece
<1>16. \A k \in 1..Len(w) : Piece(w[k]) /\ w[k].line = l
  BY <1>9, <1>11
<1> QED BY <1>8, <1>14, <1>15, <1>16

LEMMA RowsJoin ==
    ASSUME draft \in Texts, width \in Nat, NEW n \in LineStarts, n > 0, NEW s \in Rows(n - 1)
    PROVE  s \o Wrapped(n) \in Rows(n)
<1>1. /\ s \in Seq(Visual) /\ RowsInOrder(s) /\ \A k \in 1..Len(s) : Piece(s[k]) /\ s[k].line <= n - 1
      /\ \A l \in LineStarts : l <= n - 1 => Covers(s, l)
  BY DEF Rows
<1>2. PICK w : w = Wrapped(n)
  OBVIOUS
<1>3. /\ w \in Seq(Visual) /\ RowsInOrder(w) /\ Covers(w, n)
      /\ \A k \in 1..Len(w) : Piece(w[k]) /\ w[k].line = n
  BY <1>2, WrappedRow
<1>4. LineStarts \subseteq Nat
  BY DEF LineStarts, Texts
<1>5. PICK t \in Seq(Visual) : t = s \o w
  BY <1>1, <1>3, ConcatProperties
<1>6. PICK K \in Nat, M \in Nat : /\ K = Len(s) /\ M = Len(w) /\ Len(t) = K + M
                                  /\ \A i \in 1..K : t[i] = s[i]
                                  /\ \A i \in 1..M : t[K + i] = w[i]
  <2>1. /\ Len(s \o w) = Len(s) + Len(w) /\ Len(s) \in Nat /\ Len(w) \in Nat
        /\ \A i \in 1..Len(s) : (s \o w)[i] = s[i]
        /\ \A i \in 1..Len(w) : (s \o w)[Len(s) + i] = w[i]
    BY <1>1, <1>3, TwoPlaces
  <2> QED BY <1>5, <2>1
<1>7. \A i \in 1..(K + M) : i \in 1..K \/ \E m \in 1..M : i = K + m
  <2>1. ASSUME NEW i \in 1..(K + M), i \notin 1..K PROVE \E m \in 1..M : i = K + m
    <3>1. i - K \in 1..M /\ i = K + (i - K)
      BY <2>1
    <3> QED BY <3>1
  <2> QED BY <2>1
<1>8. n \in Nat /\ n <= n
  BY <1>4
<1>9. ASSUME NEW i \in 1..(K + M) PROVE Piece(t[i]) /\ t[i].line <= n
  <2>1. CASE i \in 1..K
    <3>1. t[i] = s[i] /\ Piece(s[i]) /\ s[i].line <= n - 1
      BY <1>1, <1>6, <2>1
    <3>2. s[i].line \in Nat
      BY <1>4, <3>1 DEF Piece
    <3> QED BY <1>8, <3>1, <3>2
  <2>2. ASSUME NEW m \in 1..M, i = K + m PROVE Piece(t[i]) /\ t[i].line <= n
    <3>1. t[i] = w[m]
      BY <1>6, <2>2
    <3> QED BY <1>3, <1>6, <1>8, <3>1
  <2> QED BY <1>7, <2>1, <2>2
<1>10. ASSUME NEW i \in 1..(K + M), NEW j \in 1..(K + M), i < j, t[i].line = t[j].line
       PROVE  ~t[i].last /\ t[i].start + t[i].length <= t[j].start
  <2>1. CASE i \in 1..K /\ j \in 1..K
    <3>1. t[i] = s[i] /\ t[j] = s[j]
      BY <1>6, <2>1
    <3> QED BY <1>1, <1>6, <1>10, <2>1, <3>1 DEF RowsInOrder
  <2>2. ASSUME i \in 1..K, NEW m \in 1..M, j = K + m PROVE FALSE
    <3>1. t[i] = s[i] /\ Piece(s[i]) /\ s[i].line <= n - 1 /\ t[j] = w[m] /\ w[m].line = n
      BY <1>1, <1>3, <1>6, <2>2
    <3>2. s[i].line \in Nat /\ s[i].line = n
      BY <1>4, <1>10, <3>1 DEF Piece
    <3> QED BY <3>1, <3>2
  <2>3. ASSUME NEW m \in 1..M, i = K + m, NEW k \in 1..M, j = K + k
        PROVE  ~t[i].last /\ t[i].start + t[i].length <= t[j].start
    <3>1. t[i] = w[m] /\ t[j] = w[k] /\ m < k
      BY <1>6, <1>10, <2>3
    <3> QED BY <1>3, <1>6, <1>10, <3>1 DEF RowsInOrder
  <2>4. ASSUME NEW m \in 1..M, i = K + m, j \in 1..K PROVE FALSE
    BY <1>10, <2>4
  <2> QED BY <1>7, <2>1, <2>2, <2>3, <2>4
<1>11. ASSUME NEW l \in LineStarts, l <= n PROVE Covers(t, l)
  <2>1. CASE l = n
    <3>1. ASSUME NEW c \in l..LineTo(l) PROVE \E k \in 1..(K + M) : Holds(t[k], l, c)
      <4>1. PICK m \in 1..M : Holds(w[m], l, c)
        BY <1>3, <1>6, <2>1 DEF Covers
      <4>2. K + m \in 1..(K + M) /\ t[K + m] = w[m]
        BY <1>6
      <4> QED BY <4>1, <4>2
    <3> QED BY <1>6, <3>1 DEF Covers
  <2>2. CASE l # n
    <3>1. l <= n - 1
      BY <1>4, <1>8, <1>11, <2>2
    <3>2. Covers(s, l)
      BY <1>1, <3>1
    <3>3. ASSUME NEW c \in l..LineTo(l) PROVE \E k \in 1..(K + M) : Holds(t[k], l, c)
      <4>1. PICK m \in 1..K : Holds(s[m], l, c)
        BY <1>6, <3>2 DEF Covers
      <4>2. m \in 1..(K + M) /\ t[m] = s[m]
        BY <1>6
      <4> QED BY <4>1, <4>2
    <3> QED BY <1>6, <3>3 DEF Covers
  <2> QED BY <2>1, <2>2
<1>12. RowsInOrder(t)
  BY <1>6, <1>10 DEF RowsInOrder
<1>13. t \in Rows(n)
  BY <1>6, <1>9, <1>11, <1>12 DEF Rows
<1> QED BY <1>2, <1>5, <1>13

LEMMA VisualRows ==
    ASSUME draft \in Texts, width \in Nat
    PROVE  VisualLines \in Rows(Len(draft))
<1>1. PICK L \in Nat : L = Len(draft) /\ DOMAIN draft = 1..L
  BY DEF Texts
<1>2. LineStarts \subseteq 0..L /\ 0 \in LineStarts
  BY <1>1 DEF LineStarts
<1>3. PICK lines : VisualRun(lines)
  BY VisualRuns
<1>4. lines[0] \in Rows(0)
  <2>1. PICK w : w = Wrapped(0)
    OBVIOUS
  <2>2. /\ w \in Seq(Visual) /\ RowsInOrder(w) /\ Covers(w, 0)
        /\ \A k \in 1..Len(w) : Piece(w[k]) /\ w[k].line = 0
    BY <1>2, <2>1, WrappedRow
  <2>3. \A l \in LineStarts : l <= 0 => l = 0
    BY <1>2
  <2>4. \A k \in 1..Len(w) : Piece(w[k]) /\ w[k].line <= 0
    BY <2>2
  <2>5. \A l \in LineStarts : l <= 0 => Covers(w, l)
    BY <2>2, <2>3
  <2> QED BY <1>3, <2>1, <2>2, <2>4, <2>5 DEF Rows, VisualRun
<1>5. \A n \in 0..L : n \in {m \in 0..L : lines[m] \in Rows(m)}
  <2> DEFINE T == {m \in 0..L : lines[m] \in Rows(m)}
  <2>1. 0 \in T
    BY <1>1, <1>4
  <2>2. ASSUME NEW n \in 0..(L - 1), n \in T PROVE n + 1 \in T
    <3>1. n + 1 \in 1..L /\ n + 1 \in 0..L /\ (n + 1) - 1 = n /\ n + 1 > 0
      BY <1>1
    <3>2. PICK k \in 1..L : k = n + 1 /\ k - 1 = n /\ k > 0 /\ k \in 0..L
      BY <3>1
    <3>3. lines[n] \in Rows(n)
      BY <2>2
    <3>4. lines[k] = lines[n] \o (IF k \in LineStarts THEN Wrapped(k) ELSE <<>>)
      BY <1>1, <1>3, <3>2 DEF VisualRun
    <3>5. CASE k \in LineStarts
      <4>1. lines[n] \in Rows(k - 1)
        BY <3>2, <3>3
      <4>2. lines[n] \o Wrapped(k) \in Rows(k)
        BY <3>2, <3>5, <4>1, RowsJoin
      <4> QED BY <3>2, <3>4, <3>5, <4>2
    <3>6. CASE k \notin LineStarts
      <4>1. PICK s \in Seq(Visual) : s = lines[n]
        BY <3>3 DEF Rows
      <4>2. s \o <<>> = s
        BY ConcatSimplifications
      <4>3. lines[k] = s
        BY <3>4, <3>6, <4>1, <4>2
      <4>4. \A l \in LineStarts : l <= k => l <= n
        BY <1>2, <3>2, <3>6
      <4>5. \A i \in 1..Len(s) : s[i].line <= n /\ Piece(s[i]) => s[i].line <= k
        <5>1. ASSUME NEW i \in 1..Len(s), s[i].line <= n, Piece(s[i]) PROVE s[i].line <= k
          <6>1. s[i].line \in 0..L
            BY <1>2, <5>1 DEF Piece
          <6> QED BY <3>2, <5>1, <6>1
        <5> QED BY <5>1
      <4>6. s \in Rows(k)
        BY <3>3, <4>1, <4>4, <4>5 DEF Rows
      <4> QED BY <3>2, <4>3, <4>6
    <3> QED BY <3>5, <3>6
  <2> HIDE DEF T
  <2>3. \A n \in 0..L : n \in T
    BY <1>1, <2>1, <2>2, UpTo
  <2> QED BY <2>3 DEF T
<1>6. lines[L] \in Rows(L)
  <2>1. L \in 0..L
    BY <1>1
  <2> QED BY <1>5, <2>1
<1> QED BY <1>1, <1>3, <1>6 DEF VisualRun

-----------------------------------------------------------------------------
(* The visual line of a place.                                               *)
LEMMA FindLineIs ==
    ASSUME NEW s \in Seq(Visual), draft \in Texts, RowsInOrder(s),
           \A k \in 1..Len(s) : Piece(s[k]),
           NEW l \in LineStarts, NEW c \in l..LineTo(l), NEW n \in 1..Len(s), Holds(s[n], l, c)
    PROVE  FindLine(s, l, c - l) = n
<1>1. PICK K \in Nat : K = Len(s) /\ DOMAIN s = 1..K
  OBVIOUS
<1>2. l \in Nat /\ c \in Nat
  <2>1. l \in 0..Len(draft) /\ LineTo(l) \in l..Len(draft) /\ Len(draft) \in Nat
    BY LineOf DEF Texts
  <2> QED BY <2>1
<1>3. \A k \in 1..K : s[k].start \in Int /\ s[k].length \in Int
  <2>1. ASSUME NEW k \in 1..K PROVE s[k].start \in Int /\ s[k].length \in Int
    <3>1. s[k] \in Visual
      BY <1>1, <2>1, ElementOfSeq
    <3> QED BY <3>1 DEF Visual
  <2> QED BY <2>1
<1> DEFINE offset(k) == l + (c - l) - s[k].start
           holds == {k \in DOMAIN s :
                        /\ s[k].line = l /\ offset(k) >= 0
                        /\ \/ offset(k) < s[k].length
                           \/ s[k].last /\ offset(k) = s[k].length}
<1>4. \A k \in 1..K : k \in holds <=> Holds(s[k], l, c)
  <2>1. ASSUME NEW k \in 1..K PROVE k \in holds <=> Holds(s[k], l, c)
    <3>1. PICK a \in Int, b \in Int : a = s[k].start /\ b = s[k].length
      BY <1>3
    <3>2. l + (c - l) - a = c - a
      BY <1>2
    <3>3. /\ c - a >= 0 <=> a <= c
          /\ c - a < b <=> c < a + b
          /\ c - a = b <=> c = a + b
      BY <1>2
    <3> QED BY <1>1, <3>1, <3>2, <3>3 DEF Holds
  <2> QED BY <2>1
<1>5. \A k \in 1..K : Holds(s[k], l, c) => k = n
  <2>1. ASSUME NEW j \in 1..K, NEW k \in 1..K, j < k, Holds(s[j], l, c), Holds(s[k], l, c)
        PROVE  FALSE
    <3>1. ~s[j].last /\ s[j].start + s[j].length <= s[k].start
      BY <1>1, <2>1 DEF RowsInOrder, Holds
    <3>2. c < s[j].start + s[j].length /\ s[k].start <= c
      BY <2>1, <3>1 DEF Holds
    <3>3. PICK a \in Int, b \in Int : a = s[j].start + s[j].length /\ b = s[k].start
      BY <1>3, SMTT(30)
    <3>4. c < a /\ a <= b /\ b <= c
      BY <3>1, <3>2, <3>3
    <3> QED BY <1>2, <3>3, <3>4
  <2>2. \A k \in 1..K : k < n \/ n < k \/ k = n
    BY <1>1
  <2> QED BY <1>1, <2>1, <2>2
<1>6. holds = {n}
  BY <1>1, <1>4, <1>5
<1>7. FindLine(s, l, c - l) = IF holds = {} THEN Len(s) ELSE Min(holds)
  BY DEF FindLine
<1> HIDE DEF holds
<1>8. Min(holds) = n
  <2>1. holds \in SUBSET Nat /\ holds # {}
    BY <1>1, <1>6
  <2>2. Min(holds) \in holds
    BY <2>1, MinOf
  <2> QED BY <1>6, <2>2
<1> QED BY <1>6, <1>7, <1>8

\* What a visual line holds, as far as the cursor goes on it.
LEMMA GoalPlace ==
    ASSUME draft \in Texts, NEW v \in Visual, Piece(v), NEW x \in 0..Furthest(v),
           NEW p \in Int, p = v.start + x, NEW l, l = v.line
    PROVE  /\ p \in l..LineTo(l) /\ Holds(v, l, p)
           /\ MarkerAt(p) => p - 1 \in l..LineTo(l) /\ Holds(v, l, p - 1)
<1>1. l \in LineStarts
  BY DEF Piece
<1>2. PICK end \in Nat : end = LineTo(l) /\ l \in Nat
  <2>1. l \in 0..Len(draft) /\ LineTo(l) \in l..Len(draft) /\ Len(draft) \in Nat
    BY <1>1, LineOf DEF Texts
  <2> QED BY <2>1
<1>3. PICK a \in Int, b \in Nat : a = v.start /\ b = v.length
  BY DEF Visual, Piece
<1>4. /\ l <= a /\ a <= end /\ ~MarkerAt(a)
      /\ v.last => a + b = end
      /\ ~v.last => b > 0 /\ a + b < end
  BY <1>1, <1>2, <1>3 DEF Piece
<1>5. v.last \in BOOLEAN
  BY DEF Piece
<1>6. x \in Nat /\ (v.last => x <= b) /\ (~v.last => x <= b - 1)
  <2>1. Furthest(v) = IF v.last \/ b = 0 THEN b ELSE b - 1
    BY <1>3 DEF Furthest
  <2>2. Furthest(v) \in Int
    BY <1>3, <2>1
  <2> QED BY <1>3, <1>4, <1>5, <2>1, <2>2
<1>7. p = a + x /\ l <= p /\ p <= end
  <2>1. p = a + x
    BY <1>3
  <2>2. x <= b /\ a + b <= end
    BY <1>2, <1>3, <1>4, <1>5, <1>6
  <2> QED BY <1>2, <1>3, <1>4, <1>6, <2>1, <2>2
<1>8. Holds(v, l, p)
  <2>1. a <= p /\ (p < a + b \/ (v.last /\ p = a + b))
    BY <1>3, <1>4, <1>5, <1>6, <1>7
  <2> QED BY <1>1, <1>3, <2>1 DEF Holds
<1>9. ASSUME MarkerAt(p) PROVE p - 1 \in l..end /\ Holds(v, l, p - 1)
  <2>1. p # a
    BY <1>4, <1>9
  <2>2. a <= p - 1 /\ p - 1 < a + b /\ l <= p - 1 /\ p - 1 <= end
    <3>1. x <= b /\ x # 0
      BY <1>3, <1>5, <1>6, <1>7, <2>1
    <3> QED BY <1>2, <1>3, <1>4, <1>6, <1>7, <3>1
  <2>3. Holds(v, l, p - 1)
    BY <1>1, <1>3, <2>2 DEF Holds
  <2> QED BY <1>2, <1>7, <2>2, <2>3
<1> QED BY <1>1, <1>2, <1>3, <1>7, <1>8, <1>9

\* The visual lines stay as they are while the text, the width and the pastes do.
LEMMA RunNow == draft \in Texts /\ width \in Nat => \E lines : VisualRun(lines)
  BY VisualRuns
LEMMA LinesKept ==
    ASSUME draft \in Texts, width \in Nat, UNCHANGED <<draft, width, pastes>>
    PROVE  VisualLines' = VisualLines
<1>1. draft' = draft /\ width' = width /\ pastes' = pastes
  OBVIOUS
<1>2. PICK L \in Nat : L = Len(draft)
  BY DEF Texts
<1>3. LineStarts' = LineStarts
  BY <1>1 DEF LineStarts
<1>4. ASSUME NEW l PROVE Wrapped(l)' = Wrapped(l)
  <2>1. Breaks(l)' = Breaks(l)
    BY <1>1, SMT DEF Breaks, Segment, Wrap, MarkerAt, LineTo, LineStarts
  <2>2. LineTo(l)' = LineTo(l)
    BY <1>1 DEF LineTo, LineStarts
  <2> QED BY <2>1, <2>2, SMT DEF Wrapped
<1>5. PICK f : VisualRun(f)
  BY VisualRuns
<1>6. (draft \in Texts /\ width \in Nat => \E lines : VisualRun(lines))'
  BY RunNow, PTL
<1>7. PICK g : VisualRun(g)'
  BY <1>1, <1>6
<1>8. f[0] = Wrapped(0) /\ g[0] = Wrapped(0)
  BY <1>4, <1>5, <1>7 DEF VisualRun
<1>9. ASSUME NEW n \in 1..L
      PROVE  /\ f[n] = f[n - 1] \o (IF n \in LineStarts THEN Wrapped(n) ELSE <<>>)
             /\ g[n] = g[n - 1] \o (IF n \in LineStarts THEN Wrapped(n) ELSE <<>>)
  BY <1>1, <1>2, <1>3, <1>4, <1>5, <1>7 DEF VisualRun
<1>10. \A n \in 0..L : n \in {m \in 0..L : f[m] = g[m]}
  <2> DEFINE T == {m \in 0..L : f[m] = g[m]}
  <2>1. 0 \in T
    BY <1>2, <1>8
  <2>2. ASSUME NEW n \in 0..(L - 1), n \in T PROVE n + 1 \in T
    <3>1. n + 1 \in 1..L /\ n + 1 \in 0..L /\ (n + 1) - 1 = n
      BY <1>2
    <3>2. PICK k \in 1..L : k = n + 1 /\ k - 1 = n /\ k \in 0..L
      BY <3>1
    <3>3. f[k - 1] = g[k - 1]
      BY <2>2, <3>2
    <3>4. f[k] = g[k]
      BY <1>9, <3>3
    <3> QED BY <3>2, <3>4
  <2> HIDE DEF T
  <2>3. \A n \in 0..L : n \in T
    BY <1>2, <2>1, <2>2, UpTo
  <2> QED BY <2>3 DEF T
<1>11. f[L] = g[L]
  <2>1. L \in 0..L
    BY <1>2
  <2> QED BY <1>10, <2>1
<1>12. VisualLines = f[L] /\ VisualLines' = g[L]
  BY <1>1, <1>2, <1>5, <1>7 DEF VisualRun
<1> QED BY <1>11, <1>12

-----------------------------------------------------------------------------
(* The column of vertical moves.                                             *)
\* The cursor is where visual line v keeps the column of the moves.
KeepsAim(v) ==
    LET place == v.start + Min({aim, Furthest(v)})
    IN  /\ v.line = LineStart
        /\ preferred = IF Furthest(v) < aim THEN aim ELSE NoColumn
        /\ IF MarkerAt(place) THEN cursor = place - 1 /\ snapped = place - LineStart
           ELSE /\ cursor = place
                /\ snapped = IF MarkerAt(place + 1) THEN place - LineStart ELSE NoColumn
EndKept == cursor = Len(draft) /\ preferred = cursor - VisualLines[CurrentLine(VisualLines)].start
ColumnsInv ==
    /\ aim \in {Lost, NoColumn} \cup Nat
    /\ aim # Lost => cursor # Astray
    /\ aim = NoColumn => snapped = NoColumn /\ (preferred = NoColumn \/ EndKept)
    /\ aim >= 0 => \E n \in 1..Len(VisualLines) : KeepsAim(VisualLines[n])

LEMMA MinIs ==
    ASSUME NEW a \in Int, NEW b \in Int
    PROVE  (a <= b => Min({a, b}) = a) /\ (b <= a => Min({a, b}) = b)
<1>1. \E x \in {a, b} : \A y \in {a, b} : x <= y
  <2>1. CASE a <= b
    BY <2>1
  <2>2. CASE b <= a
    BY <2>2
  <2> QED BY <2>1, <2>2
<1>2. Min({a, b}) \in {a, b} /\ \A y \in {a, b} : Min({a, b}) <= y
  BY <1>1 DEF Min
<1> QED BY <1>2

\* A place is on its line.
LEMMA OwnLine ==
    ASSUME draft \in Texts, NEW c \in 0..Len(draft)
    PROVE  LineAt(c) \in LineStarts /\ c \in LineAt(c)..LineTo(LineAt(c))
<1>1. PICK L \in Nat : L = Len(draft) /\ DOMAIN draft = 1..L
  BY DEF Texts
<1>2. PICK l \in LineStarts : l = LineAt(c) /\ l \in 0..c
  BY LineStartsAre, LineFacts
<1>3. LineStarts \subseteq 0..L
  BY <1>1 DEF LineStarts
<1>4. PICK end \in Int : end = LineTo(l) /\ l <= end
  <2>1. LineTo(l) \in l..Len(draft) /\ l \in 0..Len(draft)
    BY LineOf
  <2> QED BY <1>1, <2>1
<1>5. end = L \/ end + 1 \in LineStarts
  <2>1. l \in 0..Len(draft)
    BY <1>1, <1>3
  <2> QED BY <1>1, <1>4, <2>1, LineStartsAre
<1>6. \A m \in LineStarts : m <= c => m <= l
  <2> DEFINE S == {m \in LineStarts : m <= c}
  <2>1. S \in SUBSET (0..L) /\ l \in S
    <3>1. l <= c
      BY <1>1, <1>2
    <3> QED BY <1>2, <1>3, <3>1
  <2>2. \A m \in S : m <= Max(S)
    <3> HIDE DEF S
    <3> QED BY <1>1, <2>1, MaxOf
  <2> QED BY <1>2, <2>2 DEF LineAt
<1>7. c <= end
  <2>1. ASSUME end < c PROVE FALSE
    <3>1. end # L
      BY <1>1, <2>1
    <3>2. end + 1 \in LineStarts /\ end + 1 <= c
      BY <1>4, <1>5, <2>1, <3>1
    <3>3. end + 1 <= l
      BY <1>6, <3>2
    <3>4. l \in Int
      BY <1>2
    <3> QED BY <1>4, <3>3, <3>4
  <2>2. c \in Int
    BY <1>1
  <2> QED BY <1>4, <2>1, <2>2
<1>8. c \in l..end
  BY <1>2, <1>4, <1>7
<1> QED BY <1>2, <1>4, <1>8

\* The visual lines of the text, and the one the cursor is on.
LEMMA RowFacts ==
    ASSUME draft \in Texts, width \in Nat, NEW lines, lines = VisualLines
    PROVE  /\ lines \in Seq(Visual) /\ RowsInOrder(lines) /\ Len(lines) \in Nat
           /\ \A n \in 1..Len(lines) : lines[n] \in Visual /\ Piece(lines[n])
           /\ \A l \in LineStarts : Covers(lines, l)
<1>1. lines \in Rows(Len(draft))
  BY VisualRows
<1>2. PICK s \in Seq(Visual) : s = lines
  BY <1>1 DEF Rows
<1>3. \A n \in 1..Len(s) : s[n] \in Visual
  BY ElementOfSeq
<1>4. Len(s) \in Nat
  OBVIOUS
<1>5. \A l \in LineStarts : l <= Len(draft)
  BY DEF LineStarts, Texts
<1> QED BY <1>1, <1>2, <1>3, <1>4, <1>5 DEF Rows

LEMMA CurrentHolds ==
    ASSUME draft \in Texts, width \in Nat, cursor \in 0..Len(draft), NEW lines, lines = VisualLines
    PROVE  /\ CurrentLine(lines) \in 1..Len(lines) /\ LineStart \in LineStarts
           /\ cursor \in LineStart..LineTo(LineStart)
           /\ Holds(lines[CurrentLine(lines)], LineStart, cursor)
<1>1. LineStart \in LineStarts /\ cursor \in LineStart..LineTo(LineStart)
  BY OwnLine DEF LineStart
<1>2. /\ lines \in Seq(Visual) /\ RowsInOrder(lines)
      /\ \A n \in 1..Len(lines) : lines[n] \in Visual /\ Piece(lines[n])
      /\ \A l \in LineStarts : Covers(lines, l)
  BY RowFacts
<1>3. PICK n \in 1..Len(lines) : Holds(lines[n], LineStart, cursor)
  BY <1>1, <1>2 DEF Covers
<1>4. PICK l \in LineStarts : l = LineStart
  BY <1>1
<1>5. PICK c \in l..LineTo(l) : c = cursor
  BY <1>1, <1>4
<1>6. FindLine(lines, l, c - l) = n
  BY <1>2, <1>3, <1>4, <1>5, FindLineIs
<1>7. CurrentLine(lines) = n
  BY <1>4, <1>5, <1>6 DEF CurrentLine
<1> QED BY <1>1, <1>3, <1>7

LEMMA FurthestIn ==
    ASSUME NEW v \in Visual, Piece(v)
    PROVE  Furthest(v) \in Nat /\ v.start \in Int
  BY DEF Furthest, Piece, Visual

\* Where the column of vertical moves is kept, that is where the cursor is.
LEMMA KeptPlace ==
    ASSUME draft \in Texts, width \in Nat, aim \in Nat, NEW lines, lines = VisualLines,
           NEW n \in 1..Len(lines), KeepsAim(lines[n]), NEW x, x = Min({aim, Furthest(lines[n])})
    PROVE  /\ x \in 0..Furthest(lines[n]) /\ Furthest(lines[n]) \in Nat
           /\ x = IF Furthest(lines[n]) < aim THEN Furthest(lines[n]) ELSE aim
           /\ CurrentLine(lines) = n /\ Column(lines) = x
           /\ LET place == IF snapped = NoColumn THEN cursor ELSE LineStart + snapped
              IN  /\ lines[n].start \in Int /\ place = lines[n].start + x
                  /\ FindLine(lines, LineStart, place - LineStart) = n
<1>1. /\ lines \in Seq(Visual) /\ RowsInOrder(lines)
      /\ \A m \in 1..Len(lines) : lines[m] \in Visual /\ Piece(lines[m])
  BY RowFacts
<1>2. PICK v \in Visual : v = lines[n] /\ Piece(v)
  BY <1>1
<1>3. PICK f \in Nat : f = Furthest(v) /\ v.start \in Int
  BY <1>2, FurthestIn
<1>4. PICK a \in Nat : a = aim
  OBVIOUS
<1>5. x \in 0..f /\ x = IF f < a THEN f ELSE a
  <2>1. x = Min({a, f})
    BY <1>2, <1>3, <1>4
  <2> QED BY <2>1, MinIs
<1>6. PICK p \in Int : p = v.start + x
  BY <1>3, <1>5
<1>7. PICK l \in LineStarts : l = v.line /\ l = LineStart
  BY <1>2 DEF KeepsAim, Piece
<1>8. l \in Nat
  BY DEF LineStarts, Texts
<1>9. /\ p \in l..LineTo(l) /\ Holds(v, l, p)
      /\ MarkerAt(p) => p - 1 \in l..LineTo(l) /\ Holds(v, l, p - 1)
  <2>1. x \in 0..Furthest(v)
    BY <1>3, <1>5
  <2> QED BY <1>2, <1>6, <1>7, <2>1, GoalPlace
<1>10. IF MarkerAt(p) THEN cursor = p - 1 /\ snapped = p - l
       ELSE cursor = p /\ snapped \in {p - l, NoColumn}
  BY <1>2, <1>6, <1>7 DEF KeepsAim
<1>11. FindLine(lines, l, p - l) = n
  BY <1>1, <1>2, <1>9, FindLineIs
<1>12. p - l >= 0
  BY <1>8, <1>9
<1>13. snapped = NoColumn \/ (snapped = p - l /\ p - l # NoColumn)
  BY <1>10, <1>12 DEF NoColumn
<1>14. CurrentLine(lines) = n
  <2>1. CASE MarkerAt(p)
    <3>1. FindLine(lines, l, (p - 1) - l) = n
      BY <1>1, <1>2, <1>9, <2>1, FindLineIs
    <3> QED BY <1>7, <1>10, <2>1, <3>1 DEF CurrentLine
  <2>2. CASE ~MarkerAt(p)
    BY <1>7, <1>10, <1>11, <2>2 DEF CurrentLine
  <2> QED BY <2>1, <2>2
<1>15. (IF snapped = NoColumn THEN cursor ELSE LineStart + snapped) = p
  BY <1>7, <1>8, <1>10, <1>12 DEF NoColumn
<1>16. Column(lines) = x
  <2>1. CASE snapped = NoColumn
    <3>1. cursor = p
      BY <1>10, <1>12, <2>1 DEF NoColumn
    <3>2. Column(lines) = p - v.start
      BY <1>2, <1>14, <2>1, <3>1 DEF Column
    <3> QED BY <1>3, <1>5, <1>6, <3>2
  <2>2. CASE snapped # NoColumn
    <3>1. snapped = p - l
      BY <1>13, <2>2
    <3>2. lines[FindLine(lines, LineStart, snapped)] = v
      BY <1>2, <1>7, <1>11, <3>1
    <3>3. PICK b \in Int : b = v.start /\ p = b + x
      BY <1>3, <1>6
    <3>4. Column(lines) = (p - l) - (b - l)
      BY <1>7, <2>2, <3>1, <3>2, <3>3 DEF Column
    <3>5. x \in Int
      BY <1>5
    <3>6. (p - l) - (b - l) = x
      BY <1>8, <3>3, <3>5
    <3> QED BY <3>4, <3>6
  <2> QED BY <2>1, <2>2
<1> QED BY <1>2, <1>3, <1>4, <1>5, <1>6, <1>7, <1>11, <1>14, <1>15, <1>16

LEMMA VerticalColumns ==
    ASSUME EditTypes, EditTypes', ColumnsInv, cursor # Astray, NEW lines, lines = VisualLines,
           NEW target \in 1..Len(lines), Vertical(lines, target)
    PROVE  ColumnsInv'
<1> DEFINE column == Column(lines)
           middle == column < Furthest(lines[CurrentLine(lines)])
           fresh == preferred = NoColumn \/ middle
           wanted == IF fresh THEN column ELSE preferred
<1>1. draft \in Texts /\ width \in Nat /\ preferred \in Int /\ cursor \in 0..Len(draft)
  BY DEF EditTypes
<1>2. PICK L \in Nat : L = Len(draft)
  BY <1>1 DEF Texts
<1>3. /\ lines \in Seq(Visual) /\ RowsInOrder(lines)
      /\ \A n \in 1..Len(lines) : lines[n] \in Visual /\ Piece(lines[n])
  BY <1>1, RowFacts
<1>4. PICK goal \in Visual : goal = lines[target] /\ Piece(goal)
  BY <1>3
<1>5. PICK f \in Nat : f = Furthest(goal) /\ goal.start \in Int
  BY <1>4, FurthestIn
<1>6. UNCHANGED <<draft, width, pastes>> /\ aim' = IF aim = NoColumn THEN column ELSE aim
  BY DEF Vertical, Moved, markerVars
<1>7. VisualLines' = lines
  BY <1>1, <1>6, LinesKept
<1>8. CASE aim = Lost
  BY <1>6, <1>8 DEF ColumnsInv, Lost, NoColumn
<1>9. ASSUME aim # Lost
      PROVE  /\ aim' \in Nat /\ wanted = aim'
             /\ (IF fresh THEN f < column ELSE f < column \/ f < preferred) <=> f < aim'
  <2>1. CASE aim = NoColumn
    <3>1. PICK v \in Visual :
              v = lines[CurrentLine(lines)] /\ Piece(v) /\ Holds(v, LineStart, cursor)
      BY <1>1, <1>3, CurrentHolds
    <3>2. PICK g \in Nat : g = Furthest(v) /\ v.start \in Int
      BY <3>1, FurthestIn
    <3>3. snapped = NoColumn /\ (preferred = NoColumn \/ EndKept)
      BY <2>1 DEF ColumnsInv
    <3>4. column = cursor - v.start
      BY <3>1, <3>3 DEF Column
    <3>5. /\ v.length \in Nat /\ v.last \in BOOLEAN
          /\ g = IF v.last \/ v.length = 0 THEN v.length ELSE v.length - 1
      BY <3>1, <3>2 DEF Furthest, Piece
    <3>6. /\ v.start <= cursor
          /\ cursor < v.start + v.length \/ (v.last /\ cursor = v.start + v.length)
      BY <3>1 DEF Holds
    <3>7. column \in 0..g
      <4>1. PICK b \in Int, m \in Nat : b = v.start /\ m = v.length
        BY <3>2, <3>5
      <4>2. b <= cursor /\ cursor <= b + g /\ cursor \in Int
        <5>1. v.last => g = m
          BY <3>5, <4>1
        <5>2. ~v.last => g = IF m = 0 THEN m ELSE m - 1
          BY <3>5, <4>1
        <5>3. cursor \in Int
          BY <1>1, <1>2
        <5> QED BY <3>5, <3>6, <4>1, <5>1, <5>2, <5>3, SMTT(30)
      <4>3. cursor - b \in 0..g
        BY <4>2
      <4> QED BY <3>4, <4>1, <4>3
    <3>8. aim' = column /\ aim' \in Nat
      BY <1>6, <2>1, <3>7
    <3>9. CASE preferred = NoColumn
      BY <1>5, <3>7, <3>8, <3>9
    <3>10. CASE EndKept /\ preferred # NoColumn
      <4>1. cursor = L /\ preferred = column
        BY <1>2, <3>1, <3>4, <3>10 DEF EndKept
      <4>2. v.start + v.length <= L
        <5>1. PICK l \in LineStarts : l = v.line
          BY <3>1 DEF Piece
        <5>2. LineTo(l) \in l..L /\ l \in 0..L
          BY <1>1, <1>2, <5>1, LineOf
        <5>3. v.start + v.length <= LineTo(l)
          BY <3>1, <3>2, <3>5, <5>1, <5>2 DEF Piece
        <5> QED BY <1>2, <3>2, <3>5, <5>2, <5>3
      <4>3. column = g
        BY <1>2, <3>2, <3>4, <3>5, <3>6, <4>1, <4>2
      <4>4. ~middle
        BY <3>1, <3>2, <4>3
      <4> HIDE DEF column, middle
      <4> QED BY <1>5, <3>7, <3>8, <3>10, <4>1, <4>4
    <3> QED BY <3>3, <3>9, <3>10
  <2>2. CASE aim \in Nat
    <3>1. PICK n \in 1..Len(lines) : KeepsAim(lines[n])
      BY <2>2 DEF ColumnsInv
    <3>2. PICK x : x = Min({aim, Furthest(lines[n])})
      OBVIOUS
    <3>3. /\ x \in 0..Furthest(lines[n]) /\ Furthest(lines[n]) \in Nat
          /\ x = IF Furthest(lines[n]) < aim THEN Furthest(lines[n]) ELSE aim
          /\ CurrentLine(lines) = n /\ column = x
      BY <1>1, <2>2, <3>1, <3>2, KeptPlace
    <3>4. preferred = IF Furthest(lines[n]) < aim THEN aim ELSE NoColumn
      BY <3>1 DEF KeepsAim
    <3>5. aim' = aim
      BY <1>6, <2>2 DEF NoColumn
    <3>6. PICK g \in Nat : g = Furthest(lines[n]) /\ g = Furthest(lines[CurrentLine(lines)])
      BY <3>3
    <3>7. CASE g < aim
      <4>1. preferred = aim /\ column = g /\ preferred # NoColumn /\ ~middle
        BY <2>2, <3>3, <3>4, <3>6, <3>7 DEF NoColumn
      <4> HIDE DEF column, middle
      <4> QED BY <1>5, <2>2, <3>5, <3>6, <3>7, <4>1
    <3>8. CASE ~(g < aim)
      <4>1. preferred = NoColumn /\ column = aim
        BY <3>3, <3>4, <3>6, <3>8
      <4> HIDE DEF column, middle
      <4> QED BY <2>2, <3>5, <4>1
    <3> QED BY <3>7, <3>8
  <2> QED BY <1>9, <2>1, <2>2 DEF ColumnsInv
<1>10. CASE aim # Lost
  <2>1. PICK a \in Nat : a = aim' /\ wanted = a
    BY <1>9, <1>10
  <2>2. PICK x : x = Min({a, f})
    OBVIOUS
  <2>3. x \in 0..f /\ x = IF f < a THEN f ELSE a
    BY <2>2, MinIs
  <2>4. PICK p \in Int : p = goal.start + x
    BY <1>5, <2>3
  <2>5. PICK l \in LineStarts : l = goal.line
    BY <1>4 DEF Piece
  <2>6. PICK end \in Nat : end = LineTo(l) /\ l \in 0..L
    BY <1>1, <1>2, <2>5, LineOf
  <2>7. p \in l..end /\ (MarkerAt(p) => p - 1 \in l..end)
    <3>1. x \in 0..Furthest(goal)
      BY <1>5, <2>3
    <3>2. p \in l..LineTo(l) /\ (MarkerAt(p) => p - 1 \in l..LineTo(l))
      BY <1>1, <1>4, <2>4, <2>5, <3>1, GoalPlace
    <3> QED BY <2>6, <3>2
  <2>8. /\ preferred' = IF f < a THEN a ELSE NoColumn
        /\ cursor' = IF MarkerAt(p) THEN p - 1 ELSE p
        /\ snapped' = IF MarkerAt(p) \/ MarkerAt(p + 1) THEN p - l ELSE NoColumn
    <3> DEFINE short == Furthest(goal) < column
               clamped == IF fresh THEN short ELSE short \/ Furthest(goal) < preferred
               spot == Min({goal.start + (IF clamped THEN Furthest(goal)
                                          ELSE IF fresh THEN column ELSE preferred),
                            LineTo(goal.line)})
    <3>1. /\ preferred' = IF clamped THEN (IF fresh THEN column ELSE preferred) ELSE NoColumn
          /\ cursor' = IF spot < goal.line THEN Astray
                       ELSE IF MarkerAt(spot) THEN spot - 1 ELSE spot
          /\ snapped' = IF spot >= goal.line /\ (MarkerAt(spot) \/ MarkerAt(spot + 1))
                        THEN spot - goal.line ELSE NoColumn
      BY <1>4 DEF Vertical
    <3>2. clamped <=> f < a
      <4>1. clamped <=> (IF fresh THEN f < column ELSE f < column \/ f < preferred)
        BY <1>5
      <4> HIDE DEF clamped, fresh, column
      <4> QED BY <1>9, <1>10, <2>1, <4>1
    <3>3. (IF fresh THEN column ELSE preferred) = a
      BY <2>1
    <3> HIDE DEF fresh, column, clamped
    <3>4. spot = Min({goal.start + x, end})
      BY <1>5, <2>3, <2>5, <2>6, <3>2, <3>3
    <3>5. spot = p
      <4>1. p <= end
        BY <2>6, <2>7
      <4> QED BY <2>4, <2>6, <3>4, <4>1, MinIs
    <3>6. ~(p < l) /\ p >= l
      BY <2>6, <2>7
    <3> HIDE DEF spot
    <3> QED BY <2>5, <3>1, <3>2, <3>3, <3>5, <3>6
  <2>9. cursor' \in l..end
    BY <2>7, <2>8
  <2>10. LineAt(cursor') = l
    BY <1>1, <2>6, <2>9, LineOf
  <2>11. LineStart' = l
    BY <1>6, <2>10 DEF LineStart, LineAt, LineStarts
  <2>12. \A i : MarkerAt(i)' <=> MarkerAt(i)
    BY <1>6 DEF MarkerAt
  <2>13. KeepsAim(goal)'
    BY <1>5, <2>1, <2>2, <2>4, <2>5, <2>8, <2>11, <2>12 DEF KeepsAim
  <2>14. cursor' # Astray
    BY <2>6, <2>9 DEF Astray
  <2> QED BY <1>4, <1>7, <2>1, <2>13, <2>14 DEF ColumnsInv, NoColumn, Lost
<1> QED BY <1>8, <1>10

\* What sets the column anew, what leaves it as it is under a change, and what changes nothing.
LEMMA PlacedColumns ==
    ASSUME NEW c \in Nat, Place(c)
    PROVE  ColumnsInv'
  BY DEF Place, ColumnsInv, NoColumn, Lost, Astray

LEMMA UnresolvedColumns ==
    ASSUME ColumnsInv, Unresolved, UNCHANGED <<preferred, snapped>>, cursor' # Astray
    PROVE  ColumnsInv'
  BY DEF Unresolved, ColumnsInv, NoColumn, Lost

LEMMA ColumnsKept ==
    ASSUME EditTypes, ColumnsInv, UNCHANGED <<draft, cursor, width, pastes, columnVars>>
    PROVE  ColumnsInv'
<1>1. /\ draft' = draft /\ cursor' = cursor /\ width' = width /\ pastes' = pastes
      /\ preferred' = preferred /\ snapped' = snapped /\ aim' = aim
  BY DEF columnVars
<1>2. VisualLines' = VisualLines
  BY <1>1, LinesKept DEF EditTypes
<1>3. LineStart' = LineStart
  BY <1>1 DEF LineStart, LineAt, LineStarts
<1>4. EndKept => EndKept'
  BY <1>1, <1>2, <1>3 DEF EndKept, CurrentLine, FindLine
<1>5. \A v : KeepsAim(v) => KeepsAim(v)'
  BY <1>1, <1>3 DEF KeepsAim, MarkerAt
<1> QED BY <1>1, <1>2, <1>4, <1>5 DEF ColumnsInv

LEMMA UndoColumns ==
    ASSUME Undo
    PROVE  ColumnsInv'
  BY DEF Undo, ColumnsInv, NoColumn, Lost

LEMMA EndColumns ==
    ASSUME EditTypes, StepAtEnd
    PROVE  ColumnsInv'
<1>1. PICK lines : lines = VisualLines
  OBVIOUS
<1>2. /\ cursor = Len(draft) /\ preferred' = cursor - lines[CurrentLine(lines)].start
      /\ aim' = IF snapped = NoColumn THEN NoColumn ELSE Lost
      /\ draft' = draft /\ width' = width /\ pastes' = pastes
      /\ cursor' = cursor /\ snapped' = snapped
  BY <1>1 DEF StepAtEnd, Moved, markerVars
<1>3. VisualLines' = lines
  BY <1>1, <1>2, LinesKept DEF EditTypes
<1>4. LineStart' = LineStart
  BY <1>2 DEF LineStart, LineAt, LineStarts
<1>5. EndKept'
  BY <1>2, <1>3, <1>4 DEF EndKept, CurrentLine, FindLine
<1>6. cursor' # Astray
  BY <1>2 DEF EditTypes, Texts, Astray
<1> QED BY <1>2, <1>5, <1>6 DEF ColumnsInv, NoColumn, Lost

\* The column of vertical moves, action by action.
LEMMA EditColumns ==
    ASSUME EditTypes, ColumnsInv,
           \/ \E c \in Chars : Type(c) \/ ApplyCompletion(c)
           \/ \E t \in Texts : Paste(t) \/ GiveBack(t)
           \/ PasteLong \/ BreakLine \/ SetText(<<>>)
    PROVE  ColumnsInv'
<1>1. PICK L \in Nat : L = Len(draft) /\ draft \in Texts
  BY DEF EditTypes, Texts
<1>2. cursor # Astray => cursor \in Nat
  BY <1>1 DEF EditTypes
<1>3. \A t \in Texts : Len(t) \in Nat
  BY DEF Texts
<1>4. ASSUME NEW c \in Chars, Type(c) \/ ApplyCompletion(c) PROVE ColumnsInv'
  <2>1. cursor # Astray /\ Place(cursor + 1)
    BY <1>4 DEF Type, ApplyCompletion, Edit
  <2>2. cursor + 1 \in Nat
    BY <1>2, <2>1
  <2> QED BY <2>1, <2>2, PlacedColumns
<1>5. ASSUME NEW t \in Texts, Insert(t) PROVE ColumnsInv'
  <2>1. cursor # Astray /\ Place(cursor + Len(t))
    BY <1>5 DEF Insert, Edit
  <2>2. cursor + Len(t) \in Nat
    BY <1>2, <1>3, <2>1
  <2> QED BY <2>1, <2>2, PlacedColumns
<1>6. ASSUME NEW t \in Texts, SetText(t) PROVE ColumnsInv'
  BY <1>3, <1>6, PlacedColumns DEF SetText
<1>7. ASSUME NEW t \in Texts, GiveBack(t) PROVE ColumnsInv'
  <2>1. t \o <<NL, NL>> \o draft \in Texts
    BY <1>1, CharTypes, TextsJoin
  <2> QED BY <1>6, <1>7, <2>1 DEF GiveBack
<1>8. CASE PasteLong
  <2>1. <<Open, MarkerTail(Len(pastes) + 1, serial + 1)>> \in Texts
    <3>1. Len(pastes) + 1 \in Nat /\ serial + 1 \in Nat
      BY DEF EditTypes
    <3>2. MarkerTail(Len(pastes) + 1, serial + 1) \in Chars /\ Open \in Chars
      BY <3>1, CharTypes
    <3> QED BY <3>2 DEF Texts
  <2> QED BY <1>5, <1>8, <2>1 DEF PasteLong
<1>9. CASE BreakLine
  BY <1>2, <1>9, PlacedColumns DEF BreakLine, Edit
<1>10. CASE SetText(<<>>)
  BY <1>6, <1>10, CharTypes
<1> QED BY <1>4, <1>5, <1>7, <1>8, <1>9, <1>10 DEF Paste

LEMMA CutColumns ==
    ASSUME EditTypes, ColumnsInv, Backspace \/ Delete \/ KillBack \/ KillLineAhead \/ KillWordAhead
    PROVE  ColumnsInv'
<1>1. PICK L \in Nat : L = Len(draft) /\ draft \in Texts
  BY DEF EditTypes, Texts
<1>2. cursor # Astray => cursor \in 0..L /\ cursor \in Nat
  BY <1>1 DEF EditTypes
<1>3. CASE Backspace
  <2>1. cursor # Astray /\ cursor > 0 /\ Place(cursor - Back)
    BY <1>3 DEF Backspace, Edit
  <2>2. Back \in 1..cursor
    BY <1>1, <1>2, <2>1, SegmentIn
  <2>3. cursor - Back \in Nat
    BY <1>2, <2>1, <2>2
  <2> QED BY <2>1, <2>3, PlacedColumns
<1>4. ASSUME Stay, cursor # Astray PROVE ColumnsInv'
  <2>1. Unresolved /\ UNCHANGED <<preferred, snapped>> /\ cursor' # Astray
    BY <1>4 DEF Stay
  <2> QED BY <2>1, UnresolvedColumns
<1>5. CASE Delete \/ KillLineAhead
  BY <1>4, <1>5 DEF Delete, KillLineAhead, Edit
<1>6. CASE KillWordAhead
  BY <1>2, <1>4, <1>6, PlacedColumns DEF KillWordAhead
<1>7. CASE KillBack
  <2>1. cursor > 0 /\ cursor # Astray
    BY <1>7 DEF KillBack, Kill, Edit
  <2>2. PICK from \in {WordBack, IF cursor > LineStart THEN LineStart ELSE cursor - 1} : Place(from)
    BY <1>7 DEF KillBack
  <2>3. LineStart \in 0..cursor
    BY <1>1, <1>2, <2>1, LineFacts DEF LineStart
  <2>4. WordBack \in Nat
    BY <1>1, <1>2, <2>1, WordBackIn
  <2>5. from \in Nat
    BY <1>2, <2>1, <2>2, <2>3, <2>4
  <2> QED BY <2>2, <2>5, PlacedColumns
<1> QED BY <1>3, <1>5, <1>6, <1>7

LEMMA YankColumns ==
    ASSUME EditTypes, RingInv, ColumnsInv, Yank \/ YankPop
    PROVE  ColumnsInv'
<1>1. cursor # Astray => cursor \in Nat
  BY DEF EditTypes, Texts
<1>2. \A s \in Texts : Len(s) \in Nat
  BY DEF Texts
<1>3. PICK r \in Seq(Texts) : r = ring
  BY DEF EditTypes
<1>4. CASE Yank
  <2>1. r # <<>> /\ cursor # Astray /\ Place(cursor + Len(Last(r)))
    BY <1>3, <1>4 DEF Yank, Edit
  <2>2. Len(Last(r)) \in Nat
    BY <1>2, <2>1, SeqEnds
  <2>3. cursor + Len(Last(r)) \in Nat
    BY <1>1, <2>1, <2>2
  <2> QED BY <2>1, <2>3, PlacedColumns
<1>5. CASE YankPop
  <2>1. /\ lastAction = "yank" /\ Len(r) > 1
        /\ Place((cursor - Len(Last(r))) + Len(Last(Front(r)))) /\ cursor # Astray
    BY <1>3, <1>5 DEF YankPop, Edit
  <2>2. r # <<>> /\ Len(Last(r)) <= cursor
    BY <1>3, <2>1 DEF RingInv
  <2>3. Last(r) \in Texts /\ Front(r) \in Seq(Texts)
    BY <2>2, SeqEnds
  <2>4. Front(r) # <<>>
    <3>1. PICK m \in Nat : m = Len(r)
      OBVIOUS
    <3>2. m - 1 \in 0..Len(r) /\ m - 1 # 0
      BY <2>1, <3>1
    <3>3. PICK n \in 0..Len(r) : n = m - 1
      BY <3>2
    <3>4. Len(SubSeq(r, 1, n)) = n
      BY AfterFacts
    <3>5. Len(Front(r)) # 0
      BY <3>1, <3>2, <3>3, <3>4 DEF Front
    <3> QED BY <2>3, <3>5, EmptySeq
  <2>5. Last(Front(r)) \in Texts
    BY <2>3, <2>4, SeqEnds
  <2>6. (cursor - Len(Last(r))) + Len(Last(Front(r))) \in Nat
    BY <1>1, <1>2, <2>1, <2>2, <2>3, <2>5
  <2> QED BY <2>1, <2>6, PlacedColumns
<1> QED BY <1>4, <1>5

LEMMA BrowseColumns ==
    ASSUME EditTypes, EditTypes', ColumnsInv, NEW n \in Int, Browse(n)
    PROVE  ColumnsInv'
<1>1. CASE n \in 0..Len(history)
  <2>1. Place(Len(draft'))
    BY <1>1 DEF Browse
  <2>2. Len(draft') \in Nat
    BY DEF EditTypes, Texts
  <2> QED BY <2>1, <2>2, PlacedColumns
<1>2. CASE n \notin 0..Len(history)
  <2>1. UNCHANGED <<draft, cursor, width, pastes, columnVars>>
    BY <1>2 DEF Browse, markerVars
  <2> QED BY <2>1, ColumnsKept
<1> QED BY <1>1, <1>2

LEMMA MoveColumns ==
    ASSUME EditTypes, NEW c, Go(c)
    PROVE  ColumnsInv'
<1>1. c \in Nat
  BY DEF Go, EditTypes, Texts
<1> QED BY <1>1, PlacedColumns DEF Go

LEMMA JumpColumns ==
    ASSUME EditTypes, NEW kind, Jump(kind)
    PROVE  ColumnsInv'
<1>1. PICK p \in 0..Len(draft) : Place(p)
  BY JumpIs DEF EditTypes
<1>2. p \in Nat
  BY DEF EditTypes, Texts
<1> QED BY <1>1, <1>2, PlacedColumns

LEMMA ColumnsStart ==
    ASSUME EditorInit
    PROVE  ColumnsInv
<1>1. cursor # Astray
  <2>1. EditTypes /\ cursor = Len(draft)
    BY EditorStarts DEF EditInv, EditorInit
  <2> QED BY <2>1 DEF EditTypes, Texts, Astray
<1> QED BY <1>1 DEF EditorInit, ColumnsInv, NoColumn, Lost

LEMMA ColumnsStep ==
    ASSUME EditInv, EditInv', ColumnsInv, EditorNext
    PROVE  ColumnsInv'
<1>1. EditTypes /\ RingInv /\ EditTypes'
  BY DEF EditInv, JoinInv
<1>2. ASSUME \/ \E kind \in Kinds : Type(Char(kind)) \/ ApplyCompletion(Char(kind))
             \/ Paste(<<NL>>) \/ \E d \in Drafts : Paste(d) \/ GiveBack(d)
             \/ PasteLong \/ BreakLine \/ SetText(<<>>)
      PROVE  ColumnsInv'
  BY <1>1, <1>2, CharTypes, EditColumns
<1>3. CASE Backspace \/ Delete \/ KillBack \/ KillLineAhead \/ KillWordAhead
  BY <1>1, <1>3, CutColumns
<1>4. CASE NothingToTake
  <2>1. UNCHANGED <<draft, cursor, width, pastes, columnVars>>
    BY <1>4 DEF NothingToTake, markerVars
  <2> QED BY <1>1, <2>1, ColumnsKept
<1>5. CASE Yank \/ YankPop
  BY <1>1, <1>5, YankColumns
<1>6. CASE Undo \/ StepAtEnd
  BY <1>1, <1>6, UndoColumns, EndColumns
<1>7. CASE Submit
  <2>1. Unresolved /\ UNCHANGED <<preferred, snapped>> /\ cursor' # Astray
    BY <1>7 DEF Submit, Astray
  <2> QED BY <2>1, UnresolvedColumns
<1>8. CASE Resize
  <2>1. Unresolved /\ UNCHANGED <<preferred, snapped>> /\ cursor' # Astray
    BY <1>8 DEF Resize
  <2> QED BY <2>1, UnresolvedColumns
<1>9. CASE Step
  BY <1>1, <1>9, MoveColumns DEF Step
<1>10. ASSUME NEW kind, Jump(kind) PROVE ColumnsInv'
  BY <1>1, <1>10, JumpColumns
<1>11. CASE UpOrDown
  <2>1. PICK lines : lines = VisualLines
    OBVIOUS
  <2>2. /\ cursor # Astray
        /\ \/ \E n \in Int : Browse(n)
           \/ Go(LineStart) \/ Go(LineEnd)
           \/ \E target \in 1..Len(lines) : Vertical(lines, target)
    BY <1>1, <1>11, <2>1, UpOrDownIs
  <2> QED BY <1>1, <2>1, <2>2, BrowseColumns, MoveColumns, VerticalColumns
<1> QED BY <1>2, <1>3, <1>4, <1>5, <1>6, <1>7, <1>8, <1>9, <1>10, <1>11 DEF EditorNext

LEMMA ColumnsInvariant == EditorSpec => []ColumnsInv
<1>1. EditorInit => ColumnsInv
  BY ColumnsStart
<1>2. EditInv /\ EditInv' /\ ColumnsInv /\ [EditorNext]_editorVars => ColumnsInv'
  <2>1. ASSUME EditInv, ColumnsInv, UNCHANGED editorVars PROVE ColumnsInv'
    <3>1. UNCHANGED <<draft, cursor, width, pastes, columnVars>>
      BY <2>1 DEF editorVars, markerVars
    <3> QED BY <2>1, <3>1, ColumnsKept DEF EditInv
  <2> QED BY <2>1, ColumnsStep
<1> QED BY <1>1, <1>2, EditorInvariant, PTL DEF EditorSpec

\* The cursor is in the text and in no marker of the message being written, and while it
\* goes up and down it keeps the column it started from.
THEOREM CursorKept == EditorSpec => []CursorInPlace
<1>1. EditInv /\ MarkersInv /\ ColumnsInv => CursorInPlace
  <2> SUFFICES ASSUME EditInv, MarkersInv, ColumnsInv PROVE CursorInPlace
    OBVIOUS
  <2>1. EditTypes
    BY DEF EditInv
  <2>2. cursor = Astray => aim = Lost
    BY DEF ColumnsInv
  <2>3. cursor # Astray /\ MarkerAt(cursor) /\ draft[cursor + 1].serial > since => loose
    BY <2>1, CursorOutside
  <2>4. ASSUME aim >= 0
        PROVE  LET lines == VisualLines
                   place == IF snapped = NoColumn THEN cursor ELSE LineStart + snapped
                   line == lines[FindLine(lines, LineStart, place - LineStart)]
               IN  place - line.start = Min({aim, Furthest(line)})
    <3>1. aim \in Nat
      BY <2>4 DEF ColumnsInv, Lost, NoColumn
    <3>2. PICK lines : lines = VisualLines
      OBVIOUS
    <3>3. PICK n \in 1..Len(lines) : KeepsAim(lines[n])
      BY <2>4, <3>2 DEF ColumnsInv
    <3>4. PICK x : x = Min({aim, Furthest(lines[n])})
      OBVIOUS
    <3>5. PICK place : place = IF snapped = NoColumn THEN cursor ELSE LineStart + snapped
      OBVIOUS
    <3>6. /\ x \in 0..Furthest(lines[n]) /\ Furthest(lines[n]) \in Nat
          /\ lines[n].start \in Int /\ place = lines[n].start + x
          /\ FindLine(lines, LineStart, place - LineStart) = n
      BY <2>1, <3>1, <3>2, <3>3, <3>4, <3>5, KeptPlace DEF EditTypes
    <3>7. place - lines[n].start = x
      BY <3>6
    <3> QED BY <3>2, <3>4, <3>5, <3>6, <3>7
  <2> QED BY <2>2, <2>3, <2>4 DEF CursorInPlace
<1> QED BY <1>1, EditorInvariant, MarkersInvariant, ColumnsInvariant, PTL
=============================================================================
