----------------------------- MODULE ScreenProofs -----------------------------
(***************************************************************************)
(* What the user sees and types: where the keys go, the branch in the      *)
(* footer, the completion menu, what arrives of the input and what is kept *)
(* of a shell command's output, for any overlays, repositories, texts,     *)
(* inputs and outputs, and whatever the bounds are.                        *)
(***************************************************************************)
EXTENDS Overlays, FooterBranch, Completion, StdinBuffer, ShellOutput,
        WellFoundedInduction, FiniteSetTheorems, SequenceTheorems, TLAPS

-----------------------------------------------------------------------------
(* Least and greatest.                                                       *)
Less == {ss \in Nat \X Nat : ss[1] < ss[2]}

LEMMA LessWellFounded == IsWellFoundedOn(Less, Nat)
  BY NatLessThanWellFounded, Zenon DEF OpToRel, Less

\* Every set of naturals with a member has a least one.
LEMMA LeastOf ==
    ASSUME NEW S \in SUBSET Nat, S # {}
    PROVE  \E x \in S : \A y \in S : x <= y
<1>1. PICK x \in S : \A y \in S : ~(<<y, x>> \in Less)
  BY WFMin, LessWellFounded, Zenon
<1>2. ASSUME NEW y \in S PROVE x =< y
  <2>1. <<y, x>> \in Nat \X Nat /\ <<y, x>>[1] = y /\ <<y, x>>[2] = x
    OBVIOUS
  <2>2. ~(y < x)
    BY <1>1, <2>1, Zenon DEF Less
  <2> QED BY <2>2
<1> QED BY <1>2

LEMMA LeastExists ==
    ASSUME NEW S \in SUBSET Nat, S # {}
    PROVE  Min(S) \in S
  BY LeastOf DEF Min

\* Every set of naturals below a bound has a greatest one.
LEMMA GreatestExists ==
    ASSUME NEW n \in Nat, NEW S \in SUBSET (1..n), S # {}
    PROVE  Max(S) \in S
<1> DEFINE T == {m \in Nat : \E x \in S : m = n - x}
<1>1. T \in SUBSET Nat /\ T # {}
  <2>1. PICK z \in S : TRUE
    OBVIOUS
  <2>2. n - z \in T
    OBVIOUS
  <2> QED BY <2>2
<1>2. Min(T) \in T
  <2> HIDE DEF T
  <2> QED BY <1>1, LeastExists
<1>3. PICK m \in T : \A y \in T : m <= y
  <2>1. PICK x \in T : \A y \in T : ~(<<y, x>> \in Less)
    BY <1>1, WFMin, LessWellFounded, Zenon
  <2>2. ASSUME NEW y \in T PROVE x <= y
    <3>1. <<y, x>> \in Nat \X Nat /\ <<y, x>>[1] = y /\ <<y, x>>[2] = x
      OBVIOUS
    <3>2. ~(y < x)
      BY <2>1, <3>1, Zenon DEF Less
    <3> QED BY <3>2
  <2> QED BY <2>2
<1>4. PICK x \in S : m = n - x
  BY <1>3
<1>5. ASSUME NEW y \in S PROVE x >= y
  <2>1. n - y \in T
    OBVIOUS
  <2>2. m <= n - y
    BY <1>3, <2>1
  <2> QED BY <1>4, <2>2
<1> QED BY <1>5 DEF Max

-----------------------------------------------------------------------------
(* The stack of overlays.                                                    *)
\* What is on top of a stack is on it.
LEMMA TopOrAmong ==
    ASSUME NEW s \in Seq(Overlays), NEW otherwise
    PROVE  \/ TopOr(s, otherwise) = otherwise
           \/ \E i \in 1..Len(s) : TopOr(s, otherwise) = s[i]
<1> DEFINE I == {i \in 1..Len(s) : s[i] \notin NonCapturing /\ Visible(s[i])}
           top == IF I # {} THEN Max(I) ELSE 0
<1>1. TopOr(s, otherwise) = IF top = 0 THEN otherwise ELSE s[top]
  BY DEF TopOr, SelectLastInSeq
<1>2. CASE I = {}
  BY <1>1, <1>2
<1>3. CASE I # {}
  <2>1. Max(I) \in I
    <3>1. I \in SUBSET (1..Len(s)) /\ Len(s) \in Nat
      OBVIOUS
    <3> HIDE DEF I
    <3> QED BY <1>3, <3>1, GreatestExists
  <2> QED BY <1>1, <1>3, <2>1
<1> QED BY <1>2, <1>3

\* Only what was on a stack is on it after a removal.
LEMMA RemovedAmong ==
    ASSUME NEW s \in Seq(Overlays), NEW o
    PROVE  /\ RemoveFirst(s, o) \in Seq(Overlays)
           /\ \A i \in 1..Len(RemoveFirst(s, o)) : \E j \in 1..Len(s) : RemoveFirst(s, o)[i] = s[j]
<1> DEFINE I == {i \in 1..Len(s) : s[i] = o}
<1>1. CASE I = {}
  <2>1. RemoveFirst(s, o) = s
    BY <1>1 DEF RemoveFirst
  <2> QED BY <2>1
<1>2. CASE I # {}
  <2>1. Min(I) \in 1..Len(s)
    <3>1. I \in SUBSET Nat /\ I \in SUBSET (1..Len(s))
      OBVIOUS
    <3> HIDE DEF I
    <3> QED BY <1>2, <3>1, LeastExists
  <2>2. RemoveFirst(s, o) = RemoveAt(s, Min(I))
    BY <1>2 DEF RemoveFirst, SelectInSeq
  <2> DEFINE k == Min(I)
  <2> HIDE DEF I, k
  <2>3. RemoveFirst(s, o) = SubSeq(s, 1, k - 1) \o SubSeq(s, k + 1, Len(s)) /\ k \in 1..Len(s)
    BY <2>1, <2>2 DEF RemoveAt, k
  <2> DEFINE a == SubSeq(s, 1, k - 1)
             b == SubSeq(s, k + 1, Len(s))
  <2>4. /\ a \in Seq(Overlays) /\ Len(a) = k - 1
        /\ \A i \in 1..(k - 1) : a[i] = s[i]
    BY <2>3
  <2>5. /\ b \in Seq(Overlays) /\ Len(b) = Len(s) - k
        /\ \A i \in 1..(Len(s) - k) : b[i] = s[i + k]
    BY <2>3
  <2> HIDE DEF a, b
  <2>6. /\ a \o b \in Seq(Overlays) /\ Len(a \o b) = Len(a) + Len(b)
        /\ \A i \in 1..Len(a) : (a \o b)[i] = a[i]
        /\ \A i \in (Len(a) + 1)..(Len(a) + Len(b)) : (a \o b)[i] = b[i - Len(a)]
    <3>1. /\ a \o b \in Seq(Overlays) /\ Len(a \o b) = Len(a) + Len(b)
          /\ \A i \in 1..(Len(a) + Len(b)) :
                (a \o b)[i] = IF i <= Len(a) THEN a[i] ELSE b[i - Len(a)]
      BY <2>4, <2>5, ConcatProperties
    <3>2. Len(a) \in Nat /\ Len(b) \in Nat
      BY <2>4, <2>5
    <3> QED BY <3>1, <3>2
  <2>7. RemoveFirst(s, o) = a \o b
    BY <2>3 DEF a, b
  <2>8. ASSUME NEW i \in 1..Len(a \o b) PROVE \E j \in 1..Len(s) : (a \o b)[i] = s[j]
    <3>1. CASE i <= k - 1
      BY <2>3, <2>4, <2>6, <3>1
    <3>2. CASE i > k - 1
      <4>1. i - Len(a) \in 1..(Len(s) - k) /\ i + 1 \in 1..Len(s)
        BY <2>3, <2>4, <2>5, <2>6, <3>2
      <4>2. (a \o b)[i] = b[i - Len(a)] /\ b[i - Len(a)] = s[i - Len(a) + k]
        BY <2>3, <2>4, <2>5, <2>6, <3>2, <4>1
      <4>3. i - Len(a) + k = i + 1
        BY <2>3, <2>4
      <4> QED BY <4>1, <4>2, <4>3
    <3> QED BY <2>3, <3>1, <3>2
  <2> QED BY <2>6, <2>7, <2>8
<1> QED BY <1>1, <1>2

\* What is last on a stack goes from its end.
LEMMA LastRemoved ==
    ASSUME NEW s \in Seq(Overlays), s # <<>>,
           \A i, j \in 1..Len(s) : s[i] = s[j] => i = j
    PROVE  RemoveFirst(s, Last(s)) = SubSeq(s, 1, Len(s) - 1)
<1>1. Len(s) \in 1..Len(s)
  OBVIOUS
<1> DEFINE I == {i \in 1..Len(s) : s[i] = Last(s)}
<1>2. I = {Len(s)}
  BY <1>1 DEF Last
<1>3. Min(I) = Len(s)
  BY <1>2 DEF Min
<1>4. RemoveFirst(s, Last(s)) = RemoveAt(s, Min(I))
  BY <1>2 DEF RemoveFirst, SelectInSeq
<1> HIDE DEF I
<1>5. RemoveFirst(s, Last(s)) = SubSeq(s, 1, Len(s) - 1) \o SubSeq(s, Len(s) + 1, Len(s))
  BY <1>3, <1>4 DEF RemoveAt
<1> QED BY <1>5

\* As long as overlays go in order: each overlay hands the focus back to one below it or
\* to the base, and the focus is on the stack or with the base.
OnStack(c) == c = Base \/ Shown(c)
HandsBackDown ==
    \A i \in 1..Len(stack) : \/ preFocus[stack[i]] = Base
                             \/ \E j \in 1..(i - 1) : preFocus[stack[i]] = stack[j]
InOrder ==
    /\ stack \in Seq(Overlays) /\ preFocus \in [Overlays -> Overlays \cup {Base}]
    /\ \A i, j \in 1..Len(stack) : stack[i] = stack[j] => i = j
    /\ HandsBackDown
    /\ OnStack(focused)
FocusInv == outOfOrder \in BOOLEAN /\ (~outOfOrder => InOrder)

LEMMA FocusInvInit == OverlaysInit => FocusInv
<1> SUFFICES ASSUME OverlaysInit PROVE FocusInv
  OBVIOUS
<1>1. stack = <<>> /\ Len(stack) = 0 /\ stack \in Seq(Overlays)
  BY DEF OverlaysInit
<1>2. preFocus \in [Overlays -> Overlays \cup {Base}] /\ focused = Base /\ outOfOrder = FALSE
  BY DEF OverlaysInit
<1>3. HandsBackDown /\ \A i, j \in 1..Len(stack) : stack[i] = stack[j] => i = j
  BY <1>1 DEF HandsBackDown
<1> QED BY <1>1, <1>2, <1>3 DEF FocusInv, InOrder, OnStack

LEMMA ShownInOrder ==
    ASSUME InOrder, NEW o \in Overlays, ShowOverlay(o) PROVE InOrder'
<1> USE DEF InOrder, HandsBackDown, OnStack, Shown, Contains
<1>1. /\ stack' = Append(stack, o) /\ preFocus' = [preFocus EXCEPT ![o] = focused]
      /\ focused' = o \/ focused' = focused
      /\ \A i \in 1..Len(stack) : stack[i] # o
  BY DEF ShowOverlay
<1>2. /\ Len(stack') = Len(stack) + 1 /\ stack'[Len(stack) + 1] = o
      /\ \A i \in 1..Len(stack) : stack'[i] = stack[i]
      /\ stack' \in Seq(Overlays)
  BY <1>1
<1>3. focused \in Overlays \cup {Base}
  OBVIOUS
<1>4. preFocus' \in [Overlays -> Overlays \cup {Base}]
  BY <1>1, <1>3
<1>5. \A i, j \in 1..Len(stack') : stack'[i] = stack'[j] => i = j
  BY <1>1, <1>2
<1>6. HandsBackDown'
  <2>1. TAKE i \in 1..Len(stack')
  <2>2. CASE i = Len(stack) + 1
    <3>1. preFocus'[stack'[i]] = focused
      BY <1>1, <1>2, <2>2
    <3> QED BY <1>2, <2>2, <3>1
  <2>3. CASE i \in 1..Len(stack)
    <3>1. stack[i] \in Overlays /\ stack[i] # o
      BY <1>1, <2>3
    <3>2. preFocus'[stack'[i]] = preFocus[stack[i]]
      BY <1>1, <1>2, <2>3, <3>1
    <3>3. \A j \in 1..(i - 1) : stack'[j] = stack[j]
      BY <1>2, <2>3
    <3> QED BY <2>3, <3>2, <3>3
  <2> QED BY <1>2, <2>2, <2>3
<1>7. OnStack(focused)'
  BY <1>1, <1>2
<1> HIDE DEF HandsBackDown, OnStack, Shown, Contains
<1> QED BY <1>2, <1>4, <1>5, <1>6, <1>7

LEMMA HiddenInOrder ==
    ASSUME InOrder, NEW o \in Overlays, Hide(o), Last(stack) = o PROVE InOrder'
<1> USE DEF InOrder, HandsBackDown, OnStack, Shown, Contains
<1>1. stack # <<>> /\ Len(stack) \in Nat /\ Len(stack) > 0
  BY DEF Hide
<1>2. stack' = SubSeq(stack, 1, Len(stack) - 1)
  BY <1>1, LastRemoved DEF Hide
<1>3. /\ Len(stack') = Len(stack) - 1 /\ stack' \in Seq(Overlays)
      /\ \A i \in 1..(Len(stack) - 1) : stack'[i] = stack[i]
      /\ stack[Len(stack)] = o /\ preFocus' = preFocus
  <2>1. stack \in Seq(Overlays) /\ Len(stack) \in Nat /\ Len(stack) > 0
    BY <1>1
  <2>2. /\ Len(stack') = Len(stack) - 1 /\ stack' \in Seq(Overlays)
        /\ \A i \in 1..(Len(stack) - 1) : stack'[i] = stack[i]
    <3> DEFINE n == Len(stack) - 1
    <3>1. n \in Nat /\ \A i \in 1..n : stack[i] \in Overlays
      BY <2>1
    <3>2. /\ SubSeq(stack, 1, n) \in Seq(Overlays)
          /\ Len(SubSeq(stack, 1, n)) = IF 1 <= n THEN n - 1 + 1 ELSE 0
          /\ \A i \in 1..(n - 1 + 1) : SubSeq(stack, 1, n)[i] = stack[1 + i - 1]
      BY <3>1, SubSeqProperties
    <3> HIDE DEF n
    <3> DEFINE t == SubSeq(stack, 1, n)
    <3>3. t \in Seq(Overlays) /\ Len(t) = n /\ \A i \in 1..n : t[i] = stack[i]
      BY <3>1, <3>2
    <3>4. stack' = t
      BY <1>2 DEF n
    <3> HIDE DEF t
    <3>5. Len(stack') = n /\ stack' \in Seq(Overlays) /\ \A i \in 1..n : stack'[i] = stack[i]
      BY <3>3, <3>4
    <3> QED BY <3>5 DEF n
  <2>3. stack[Len(stack)] = o /\ preFocus' = preFocus
    BY DEF Hide, Last
  <2> QED BY <2>2, <2>3
<1>4. HandsBackDown'
  <2>1. TAKE i \in 1..Len(stack')
  <2>2. i \in 1..Len(stack) /\ preFocus'[stack'[i]] = preFocus[stack[i]]
    BY <1>1, <1>3
  <2>3. \A j \in 1..(i - 1) : stack'[j] = stack[j]
    BY <1>1, <1>3
  <2> QED BY <2>2, <2>3
<1>5. OnStack(focused)'
  <2>1. CASE focused = o
    <3>1. focused' = TopOr(stack', preFocus[o])
      BY <2>1 DEF Hide
    <3>2. CASE \E i \in 1..Len(stack') : focused' = stack'[i]
      BY <3>2
    <3>3. CASE focused' = preFocus[o]
      <4>1. Len(stack) \in 1..Len(stack) /\ preFocus[o] = preFocus[stack[Len(stack)]]
        BY <1>1, <1>3
      <4>2. \/ preFocus[o] = Base
            \/ \E j \in 1..(Len(stack) - 1) : preFocus[o] = stack[j]
        BY <4>1
      <4>3. focused' = Base \/ \E j \in 1..Len(stack') : focused' = stack'[j]
        BY <1>1, <1>3, <3>3, <4>2
      <4> QED BY <4>3
    <3> QED BY <1>3, <3>1, <3>2, <3>3, TopOrAmong
  <2>2. CASE focused # o
    <3>1. focused' = focused
      BY <2>2 DEF Hide
    <3> QED BY <1>1, <1>3, <2>2, <3>1
  <2> QED BY <2>1, <2>2
<1>6. \A i, j \in 1..Len(stack') : stack'[i] = stack'[j] => i = j
  BY <1>1, <1>3
<1>7. preFocus' \in [Overlays -> Overlays \cup {Base}]
  BY <1>3
<1> HIDE DEF HandsBackDown, OnStack, Shown, Contains
<1> QED BY <1>3, <1>4, <1>5, <1>6, <1>7

\* The other steps leave the stack alone and give the focus to a member or to what had it.
LEMMA FocusMoves ==
    ASSUME InOrder, NEW o, UNCHANGED <<stack, preFocus>>,
           \/ focused' = focused
           \/ OnStack(focused')
           \/ focused = o /\ o # Base /\ focused' = preFocus[o]
           \/ \E i \in 1..Len(stack) : stack[i] = o /\ focused' = preFocus[o]
    PROVE  InOrder'
BY DEF InOrder, HandsBackDown, OnStack, Shown, Contains

LEMMA FocusInvStep == FocusInv /\ [OverlaysNext]_overlayVars => FocusInv'
<1> SUFFICES ASSUME FocusInv, [OverlaysNext]_overlayVars PROVE FocusInv'
  OBVIOUS
<1>1. outOfOrder' \in BOOLEAN /\ (outOfOrder => outOfOrder')
  BY DEF FocusInv, OverlaysNext, overlayVars, ShowOverlay, Hide, SetHidden, Focus, Unfocus,
         ResizeTerminal, HandleInput
<1>2. SUFFICES ASSUME ~outOfOrder' PROVE InOrder'
  BY <1>1 DEF FocusInv
<1>3. InOrder /\ ~outOfOrder
  BY <1>1, <1>2 DEF FocusInv
<1>4. stack \in Seq(Overlays) /\ OnStack(focused)
  BY <1>3 DEF InOrder
<1>5. ASSUME NEW c, \E i \in 1..Len(stack) : c = stack[i] PROVE OnStack(c)
  BY <1>5 DEF OnStack, Shown, Contains
<1>6. CASE HandleInput
  <2>1. CASE focused' = focused
    BY <1>3, <2>1, <1>6, FocusMoves DEF HandleInput
  <2>2. CASE focused' = TopOr(stack, preFocus[focused]) /\ Shown(focused)
    <3>1. (\E i \in 1..Len(stack) : focused' = stack[i]) \/ focused' = preFocus[focused]
      BY <1>4, <2>2, TopOrAmong
    <3>2. \E i \in 1..Len(stack) : stack[i] = focused
      BY <2>2 DEF Shown, Contains
    <3>3. UNCHANGED <<stack, preFocus>>
      BY <1>6 DEF HandleInput
    <3> QED BY <1>3, <1>5, <3>1, <3>2, <3>3, FocusMoves
  <2> QED BY <1>6, <2>1, <2>2 DEF HandleInput
<1>7. ASSUME NEW o \in Overlays, ShowOverlay(o) PROVE InOrder'
  BY <1>3, <1>7, ShownInOrder
<1>8. ASSUME NEW o \in Overlays, Hide(o) PROVE InOrder'
  <2>1. Last(stack) = o
    BY <1>2, <1>8 DEF Hide
  <2> QED BY <1>3, <1>8, <2>1, HiddenInOrder
<1>9. ASSUME NEW o \in Overlays, SetHidden(o) PROVE InOrder'
  <2>1. Shown(o) /\ UNCHANGED <<stack, preFocus>>
    BY <1>9 DEF SetHidden
  <2>2. CASE focused' = focused \/ focused' = o
    BY <1>3, <2>1, <2>2, FocusMoves DEF OnStack
  <2>3. CASE focused' = TopOr(RemoveFirst(stack, o), preFocus[o])
    <3>1. \/ focused' = preFocus[o]
          \/ \E i \in 1..Len(RemoveFirst(stack, o)) : focused' = RemoveFirst(stack, o)[i]
      BY <1>4, <2>3, RemovedAmong, TopOrAmong
    <3>2. focused' = preFocus[o] \/ \E i \in 1..Len(stack) : focused' = stack[i]
      BY <1>4, <3>1, RemovedAmong
    <3>3. \E i \in 1..Len(stack) : stack[i] = o
      BY <2>1 DEF Shown, Contains
    <3> QED BY <1>3, <1>5, <2>1, <3>2, <3>3, FocusMoves
  <2> QED BY <1>9, <2>2, <2>3 DEF SetHidden
<1>10. ASSUME NEW o \in Overlays, Focus(o) PROVE InOrder'
  BY <1>3, <1>10, FocusMoves DEF Focus, OnStack
<1>11. ASSUME NEW o \in Overlays, Unfocus(o) PROVE InOrder'
  <2>1. focused = o /\ o # Base /\ UNCHANGED <<stack, preFocus>>
    BY <1>11, OverlaysAssumption DEF Unfocus
  <2>2. CASE focused' = preFocus[o]
    BY <1>3, <2>1, <2>2, FocusMoves
  <2>3. CASE focused' = TopOr(stack, o) /\ TopOr(stack, o) # o
    BY <1>3, <1>4, <1>5, <2>1, <2>3, TopOrAmong, FocusMoves
  <2> QED BY <1>11, <2>2, <2>3 DEF Unfocus
<1>12. ASSUME NEW o \in Overlays, ResizeTerminal(o) PROVE InOrder'
  BY <1>3, <1>12, FocusMoves DEF ResizeTerminal
<1>13. CASE UNCHANGED overlayVars
  BY <1>3, <1>13, FocusMoves DEF overlayVars
<1> QED BY <1>6, <1>7, <1>8, <1>9, <1>10, <1>11, <1>12, <1>13 DEF OverlaysNext

\* FocusOnStack, for any overlays: keys never go to a component that has left the stack,
\* as long as overlays go in the order opposite to their coming.
THEOREM FocusStaysOnStack == OverlaysSpec => []FocusOnStack
<1>1. FocusInv => FocusOnStack
  BY DEF FocusInv, InOrder, OnStack, FocusOnStack
<1> QED BY FocusInvInit, FocusInvStep, <1>1, PTL DEF OverlaysSpec

-----------------------------------------------------------------------------
(* The branch in the footer.                                                 *)
Phases  == {"idle", "begun", "paths", "read", "notify", "ending"}
Stamped == [branch : Branches, stamp : Nat]
FooterTypes ==
    /\ head \in [Repos -> Stamped] /\ repo \in Repos /\ fired \in Nat
    /\ moving \in BOOLEAN /\ refreshTimer \in BOOLEAN /\ again \in BOOLEAN
    /\ repaint \in BOOLEAN /\ overtaken \in BOOLEAN
    /\ cached \in Branches \cup {Unset} /\ shown \in Branches \cup {Unset}
    /\ refresh \in [at : Phases, repo : Repos \cup {Unset}, value : Branches \cup {Unset}]
    /\ refresh.at \in {"paths", "read"} => refresh.repo \in Repos
    /\ refresh.at = "read" => refresh.value \in Branches

\* The watcher's last sample is of the session's repository, and not of its future; a
\* refresh is told to go again only while it runs.
WatcherInv ==
    /\ watcher # Unset => /\ watcher.repo = repo /\ watcher.seen \in Stamped
                          /\ watcher.seen.stamp <= head[repo].stamp
    /\ again => InFlight

\* What the last frame showed is what is cached, or another frame is on its way.
ViewInv ==
    ~moving => \/ repaint \/ refresh.at = "notify"
               \/ cached # Unset /\ shown = cached

\* A reading of HEAD is still to begin, or there is no watcher to ask for one.
ToBeRead == \/ refreshTimer \/ fired > 0 \/ again
            \/ watcher = Unset \/ watcher.seen # head[repo]

\* What is cached, and what the refresh has read, is what HEAD names, or HEAD will be read
\* again; while the application moves nothing is cached.
FreshInv ==
    ~overtaken =>
        /\ refresh.at \in {"paths", "read"} => refresh.repo = repo
        /\ moving => cached = Unset
        /\ ~moving /\ refresh.at = "read" => refresh.value = head[repo].branch \/ ToBeRead
        /\ ~moving => \/ cached \in {Unset, head[repo].branch} \/ ToBeRead
                      \/ refresh.at \in {"begun", "paths", "read"}

FooterInv == FooterTypes /\ WatcherInv /\ ViewInv /\ FreshInv

LEMMA FooterInvInit == FooterInit => FooterInv
<1> SUFFICES ASSUME FooterInit PROVE FooterInv
  OBVIOUS
<1>1. FooterTypes
  <2>1. head \in [Repos -> Stamped]
    BY DEF FooterInit, Stamped
  <2>2. refresh = [at |-> "idle", repo |-> Unset, value |-> Unset]
    BY DEF FooterInit, Idle
  <2>3. refresh \in [at : Phases, repo : Repos \cup {Unset}, value : Branches \cup {Unset}]
    BY <2>2 DEF Phases
  <2>4. refresh.at = "idle"
    BY <2>2
  <2>5. /\ repo \in Repos /\ fired = 0 /\ moving = FALSE /\ refreshTimer = FALSE /\ again = FALSE
        /\ repaint = TRUE /\ overtaken = FALSE /\ cached = Unset /\ shown = Unset
    BY DEF FooterInit
  <2> QED BY <2>1, <2>3, <2>4, <2>5 DEF FooterTypes
<1>2. WatcherInv
  <2>1. head[repo] \in Stamped
    BY <1>1 DEF FooterTypes
  <2> QED BY <2>1 DEF FooterInit, WatcherInv, Stamped
<1> QED BY <1>1, <1>2 DEF FooterInit, FooterInv, ViewInv, FreshInv, Idle

LEMMA FooterTypesStep == FooterTypes /\ WatcherInv /\ [FooterNext]_footerVars => FooterTypes'
<1> SUFFICES ASSUME FooterTypes, WatcherInv, [FooterNext]_footerVars PROVE FooterTypes'
  OBVIOUS
<1> USE DEF FooterTypes, Stamped, Phases
<1>1. CASE Sample
  BY <1>1 DEF Sample, Schedule, InFlight, viewVars
<1>2. CASE Retry
  BY <1>2 DEF Retry, threadVars, viewVars
<1>3. CASE TimerFires
  <2>1. fired' \in Nat
    BY <1>3 DEF TimerFires
  <2>2. /\ refreshTimer' = FALSE
        /\ UNCHANGED <<head, repo, moving, cached, refresh, again, repaint, shown, overtaken>>
    BY <1>3 DEF TimerFires, viewVars
  <2>3. /\ head' \in [Repos -> Stamped] /\ repo' \in Repos
        /\ cached' \in Branches \cup {Unset} /\ shown' \in Branches \cup {Unset}
    BY <2>2
  <2>4. /\ refresh' \in [at : Phases, repo : Repos \cup {Unset}, value : Branches \cup {Unset}]
        /\ refresh'.at \in {"paths", "read"} => refresh'.repo \in Repos
        /\ refresh'.at = "read" => refresh'.value \in Branches
    BY <2>2
  <2>5. /\ moving' \in BOOLEAN /\ refreshTimer' \in BOOLEAN /\ again' \in BOOLEAN
        /\ repaint' \in BOOLEAN /\ overtaken' \in BOOLEAN
    BY <2>2
  <2> HIDE DEF Stamped, Phases
  <2> QED BY <2>1, <2>3, <2>4, <2>5
<1>4. CASE BeginRefresh
  <2>1. fired' \in Nat
    BY <1>4 DEF BeginRefresh
  <2>2. /\ refresh' = refresh \/ refresh' = [at |-> "begun", repo |-> Unset, value |-> Unset]
        /\ again' \in BOOLEAN
        /\ UNCHANGED <<head, repo, moving, cached, refreshTimer, repaint, shown, overtaken>>
    BY <1>4 DEF BeginRefresh, viewVars, Idle
  <2>3. /\ refresh' \in [at : Phases, repo : Repos \cup {Unset}, value : Branches \cup {Unset}]
        /\ refresh'.at \in {"paths", "read"} => refresh'.repo \in Repos
        /\ refresh'.at = "read" => refresh'.value \in Branches
    BY <2>2
  <2> QED BY <2>1, <2>2, <2>3
<1>5. CASE TakePaths
  BY <1>5 DEF TakePaths, viewVars
<1>6. CASE ReadHead
  BY <1>6 DEF ReadHead, viewVars
<1>7. CASE Store
  BY <1>7 DEF Store, viewVars
<1>8. CASE NotifyBranchChange
  BY <1>8 DEF NotifyBranchChange
<1>9. CASE EndRefresh
  BY <1>9 DEF EndRefresh, Idle, viewVars
<1>10. CASE Paint
  BY <1>10 DEF Paint, threadVars
<1>11. CASE EnterDirectory
  BY <1>11 DEF EnterDirectory, InFlight, threadVars
<1>12. CASE WatchFails
  BY <1>12 DEF WatchFails, threadVars, viewVars
<1>13. ASSUME NEW r \in Repos, LeaveDirectory(r) PROVE FooterTypes'
  BY <1>13 DEF LeaveDirectory, InFlight, viewVars
<1>14. ASSUME NEW r \in Repos, NEW b \in Branches, Checkout(r, b) PROVE FooterTypes'
  BY <1>14 DEF Checkout, threadVars, viewVars
<1>15. CASE UNCHANGED footerVars
  BY <1>15 DEF footerVars, threadVars, viewVars
<1> QED BY <1>1, <1>2, <1>3, <1>4, <1>5, <1>6, <1>7, <1>8, <1>9, <1>10, <1>11, <1>12, <1>13,
           <1>14, <1>15 DEF FooterNext, Provider

LEMMA WatcherInvStep == FooterTypes /\ WatcherInv /\ [FooterNext]_footerVars => WatcherInv'
<1> SUFFICES ASSUME FooterTypes, WatcherInv, [FooterNext]_footerVars PROVE WatcherInv'
  OBVIOUS
<1>a. head[repo] \in Stamped /\ head[repo].stamp \in Nat
  BY DEF FooterTypes, Stamped
<1>b. head[repo].stamp <= head[repo].stamp
  BY <1>a
<1>c. refresh = [at |-> refresh.at, repo |-> refresh.repo, value |-> refresh.value]
  BY DEF FooterTypes
<1> USE DEF WatcherInv, InFlight
<1>1. CASE Sample
  BY <1>1, <1>a, <1>b DEF Sample, Schedule, Watching
<1>2. CASE Retry
  BY <1>2, <1>a, <1>b DEF Retry, Watching, threadVars
<1>3. CASE TimerFires
  BY <1>3 DEF TimerFires
<1>4. CASE BeginRefresh
  BY <1>4 DEF BeginRefresh, Idle
<1>5. CASE TakePaths
  BY <1>5, <1>c DEF TakePaths
<1>6. CASE ReadHead
  BY <1>6, <1>c DEF ReadHead
<1>7. CASE Store
  BY <1>7, <1>c DEF Store
<1>8. CASE NotifyBranchChange
  BY <1>8, <1>c DEF NotifyBranchChange
<1>9. CASE EndRefresh
  BY <1>9 DEF EndRefresh
<1>10. CASE Paint
  BY <1>10 DEF Paint, threadVars
<1>11. CASE EnterDirectory
  BY <1>11, <1>a, <1>b DEF EnterDirectory, Watching, threadVars
<1>12. CASE WatchFails
  BY <1>12 DEF WatchFails, threadVars
<1>13. ASSUME NEW r \in Repos, LeaveDirectory(r) PROVE WatcherInv'
  BY <1>13 DEF LeaveDirectory
<1>14. ASSUME NEW r \in Repos, NEW b \in Branches, Checkout(r, b) PROVE WatcherInv'
  <2>1. head'[repo].stamp = head[repo].stamp \/ head'[repo].stamp = head[repo].stamp + 1
    BY <1>14 DEF Checkout, FooterTypes, Stamped
  <2> QED BY <1>14, <1>a, <2>1 DEF Checkout, threadVars, Stamped
<1>15. CASE UNCHANGED footerVars
  BY <1>15 DEF footerVars, threadVars
<1> QED BY <1>1, <1>2, <1>3, <1>4, <1>5, <1>6, <1>7, <1>8, <1>9, <1>10, <1>11, <1>12, <1>13,
           <1>14, <1>15 DEF FooterNext, Provider

LEMMA ViewInvStep == FooterTypes /\ ViewInv /\ [FooterNext]_footerVars => ViewInv'
<1> SUFFICES ASSUME FooterTypes, ViewInv, [FooterNext]_footerVars PROVE ViewInv'
  OBVIOUS
<1>a. refresh = [at |-> refresh.at, repo |-> refresh.repo, value |-> refresh.value]
  BY DEF FooterTypes
<1> USE DEF ViewInv, InFlight
<1>1. CASE Sample
  BY <1>1 DEF Sample, Schedule, viewVars
<1>2. CASE Retry
  BY <1>2 DEF Retry, threadVars, viewVars
<1>3. CASE TimerFires
  BY <1>3 DEF TimerFires, viewVars
<1>4. CASE BeginRefresh
  BY <1>4 DEF BeginRefresh, Idle, viewVars
<1>5. CASE TakePaths
  BY <1>5, <1>a DEF TakePaths, viewVars
<1>6. CASE ReadHead
  BY <1>6, <1>a DEF ReadHead, viewVars
<1>7. CASE Store
  <2>1. refresh.value \in Branches /\ refresh.value # Unset
    BY <1>7, FooterAssumption DEF Store, FooterTypes
  <2> QED BY <1>7, <1>a, <2>1 DEF Store, viewVars
<1>8. CASE NotifyBranchChange
  BY <1>8 DEF NotifyBranchChange
<1>9. CASE EndRefresh
  BY <1>9 DEF EndRefresh, viewVars
<1>10. CASE Paint
  BY <1>10, FooterAssumption DEF Paint, FooterTypes, Stamped
<1>11. CASE EnterDirectory
  BY <1>11 DEF EnterDirectory
<1>12. CASE WatchFails
  BY <1>12 DEF WatchFails, threadVars, viewVars
<1>13. ASSUME NEW r \in Repos, LeaveDirectory(r) PROVE ViewInv'
  BY <1>13 DEF LeaveDirectory
<1>14. ASSUME NEW r \in Repos, NEW b \in Branches, Checkout(r, b) PROVE ViewInv'
  BY <1>14 DEF Checkout, threadVars, viewVars
<1>15. CASE UNCHANGED footerVars
  BY <1>15 DEF footerVars, threadVars, viewVars
<1> QED BY <1>1, <1>2, <1>3, <1>4, <1>5, <1>6, <1>7, <1>8, <1>9, <1>10, <1>11, <1>12, <1>13,
           <1>14, <1>15 DEF FooterNext, Provider

LEMMA FreshInvStep ==
    FooterTypes /\ WatcherInv /\ FreshInv /\ [FooterNext]_footerVars => FreshInv'
<1> SUFFICES ASSUME FooterTypes, WatcherInv, FreshInv, [FooterNext]_footerVars PROVE FreshInv'
  OBVIOUS
<1>a. refresh = [at |-> refresh.at, repo |-> refresh.repo, value |-> refresh.value]
  BY DEF FooterTypes
<1>b. fired \in Nat
  BY DEF FooterTypes
<1> USE DEF FreshInv, ToBeRead, InFlight
<1>1. CASE Sample
  BY <1>1 DEF Sample, Schedule, Watching
<1>2. CASE Retry
  BY <1>2 DEF Retry
<1>3. CASE TimerFires
  BY <1>3, <1>b DEF TimerFires
<1>4. CASE BeginRefresh
  BY <1>4, <1>b DEF BeginRefresh, Idle
<1>5. CASE TakePaths
  BY <1>5, <1>a DEF TakePaths
<1>6. CASE ReadHead
  BY <1>6, <1>a DEF ReadHead
<1>7. CASE Store
  BY <1>7, <1>a DEF Store
<1>8. CASE NotifyBranchChange
  BY <1>8, <1>a DEF NotifyBranchChange
<1>9. CASE EndRefresh
  BY <1>9 DEF EndRefresh, Idle
<1>10. CASE Paint
  BY <1>10 DEF Paint, threadVars
<1>11. CASE EnterDirectory
  BY <1>11 DEF EnterDirectory, threadVars
<1>12. CASE WatchFails
  BY <1>12 DEF WatchFails, threadVars
<1>13. ASSUME NEW r \in Repos, LeaveDirectory(r) PROVE FreshInv'
  BY <1>13 DEF LeaveDirectory
<1>14. ASSUME NEW r \in Repos, NEW b \in Branches, Checkout(r, b) PROVE FreshInv'
  <2>1. CASE r = repo
    <3>1. head'[repo].stamp = head[repo].stamp + 1 /\ head[repo].stamp \in Nat
      BY <1>14, <2>1 DEF Checkout, FooterTypes, Stamped
    <3>2. watcher # Unset => watcher.seen # head'[repo]
      BY <3>1 DEF WatcherInv, Stamped
    <3> QED BY <1>14, <3>2 DEF Checkout, threadVars
  <2>2. CASE r # repo
    <3>1. head'[repo] = head[repo]
      BY <1>14, <2>2 DEF Checkout, FooterTypes
    <3> QED BY <1>14, <3>1 DEF Checkout, threadVars
  <2> QED BY <2>1, <2>2
<1>15. CASE UNCHANGED footerVars
  BY <1>15 DEF footerVars, threadVars
<1> QED BY <1>1, <1>2, <1>3, <1>4, <1>5, <1>6, <1>7, <1>8, <1>9, <1>10, <1>11, <1>12, <1>13,
           <1>14, <1>15 DEF FooterNext, Provider

\* ShownBranchSettles, for any number of checkouts, moves and failures: once nothing is on
\* its way any more the footer shows the branch HEAD names, unless a move overtook a
\* reading or the watcher was blind for a time.
THEOREM FooterSettles == FooterSpec => []ShownBranchSettles
<1>1. FooterInv /\ [FooterNext]_footerVars => FooterInv'
  BY FooterTypesStep, WatcherInvStep, ViewInvStep, FreshInvStep DEF FooterInv
<1>2. FooterInv => ShownBranchSettles
  <2> SUFFICES ASSUME FooterInv, Settled, ~overtaken PROVE shown = head[repo].branch
    BY DEF ShownBranchSettles
  <2>1. ~ToBeRead
    BY DEF Settled, FooterInv, WatcherInv, ToBeRead
  <2>2. cached \in {Unset, head[repo].branch}
    BY <2>1 DEF Settled, FooterInv, FreshInv, InFlight
  <2>3. cached # Unset /\ shown = cached
    BY DEF Settled, FooterInv, ViewInv, InFlight
  <2> QED BY <2>2, <2>3
<1> QED BY FooterInvInit, <1>1, <1>2, PTL DEF FooterSpec

-----------------------------------------------------------------------------
(* The completion menu.                                                      *)
TaskType == [force : BOOLEAN, tab : BOOLEAN, live : BOOLEAN, asking : BOOLEAN,
             aborted : BOOLEAN, place : Spots \cup {NoPlace}]
Dead(t)   == ~t.live /\ (t.asking => t.aborted)
AllDead(ts) == \A i \in 1..Len(ts) : Dead(ts[i])

\* A task can do something to the menu only if none comes after it.
Chain ==
    /\ tasks \in Seq(TaskType) /\ \A i \in 1..(Len(tasks) - 1) : Dead(tasks[i])
    /\ \A i \in 1..Len(tasks) : tasks[i].aborted => tasks[i].asking
    /\ debounce # NoTimer => AllDead(tasks)
    /\ debounce = NoTimer \/ \E f \in BOOLEAN : debounce = <<Task(f, FALSE)>>

\* The answer to a request is still to come, and will be one for the text at the cursor.
ToCome(t) == IF t.asking THEN ~t.aborted /\ t.place = at ELSE t.live
Pending   == debounce # NoTimer \/ (tasks # <<>> /\ ToCome(tasks[Len(tasks)]))

MenuInv ==
    /\ at \in Spots /\ menu \in [place : Spots \cup {NoPlace}, force : BOOLEAN]
    /\ Chain
    /\ menu # Closed /\ ~strayed => menu.place = at \/ Pending
    /\ asked # NoPlace => asked = at /\ Pending
    /\ tasks # <<>> /\ ~Dead(tasks[Len(tasks)]) /\ tasks[Len(tasks)].tab => menu = Closed

LEMMA RevokedDead ==
    ASSUME NEW ts \in Seq(TaskType)
    PROVE  /\ Revoked(ts) \in Seq(TaskType) /\ Len(Revoked(ts)) = Len(ts)
           /\ \A i \in 1..Len(ts) : /\ Revoked(ts)[i].aborted => Revoked(ts)[i].asking
                                    /\ Dead(Revoked(ts)[i])
<1>1. DOMAIN ts = 1..Len(ts) /\ Len(ts) \in Nat
  OBVIOUS
<1>2. ASSUME NEW i \in 1..Len(ts)
      PROVE  /\ Revoked(ts)[i] \in TaskType /\ Dead(Revoked(ts)[i])
             /\ Revoked(ts)[i].aborted => Revoked(ts)[i].asking
  <2>1. ts[i] \in TaskType
    OBVIOUS
  <2>2. Revoked(ts)[i] = [ts[i] EXCEPT !.live = FALSE, !.aborted = ts[i].asking]
    BY <1>1 DEF Revoked
  <2> QED BY <2>1, <2>2 DEF TaskType, Dead
<1>3. Revoked(ts) = [i \in 1..Len(ts) |-> Revoked(ts)[i]]
  BY <1>1 DEF Revoked
<1> DEFINE r == Revoked(ts)
<1> HIDE DEF r
<1>4. r \in [1..Len(ts) -> TaskType]
  BY <1>2, <1>3 DEF r
<1>5. r \in Seq(TaskType) /\ Len(r) = Len(ts)
  BY <1>1, <1>4
<1> QED BY <1>2, <1>5 DEF r

\* The first of a sequence is its only one, or comes before the last.
LEMMA FirstOf ==
    ASSUME NEW S, NEW s \in Seq(S), s # <<>>
    PROVE  /\ 1 \in 1..Len(s) /\ (Len(s) = 1 \/ 1 \in 1..(Len(s) - 1))
           /\ Tail(s) = <<>> => Len(s) = 1
           /\ s[1] \in S
<1> DEFINE n == Len(s)
<1>1. n \in Nat /\ n # 0 /\ Len(Tail(s)) = n - 1
  BY EmptySeq, HeadTailProperties
<1> HIDE DEF n
<1>2. 1 \in 1..n /\ (n = 1 \/ 1 \in 1..(n - 1))
  BY <1>1
<1>3. ASSUME Tail(s) = <<>> PROVE n = 1
  <2>1. Len(<<>>) = 0
    OBVIOUS
  <2>2. n - 1 = 0
    BY <1>1, <1>3, <2>1, Zenon
  <2> QED BY <1>1, <2>2
<1>4. \A i \in 1..n : s[i] \in S
  BY ElementOfSeq DEF n
<1> QED BY <1>2, <1>3, <1>4, Zenon DEF n

LEMMA TaskFresh ==
    ASSUME NEW f \in BOOLEAN, NEW t \in BOOLEAN
    PROVE  /\ Task(f, t) \in TaskType /\ Task(f, t).live /\ ~Task(f, t).asking
           /\ ~Task(f, t).aborted /\ Task(f, t).tab = t
BY DEF Task, TaskType

\* A new task goes behind tasks that can do nothing any more.
LEMMA ChainAppends ==
    ASSUME NEW ts \in Seq(TaskType), AllDead(ts), NEW f \in BOOLEAN, NEW t \in BOOLEAN,
           \A i \in 1..Len(ts) : ts[i].aborted => ts[i].asking,
           tasks' = Append(ts, Task(f, t)), debounce' = NoTimer
    PROVE  /\ Chain' /\ Pending' /\ tasks' # <<>>
           /\ tasks'[Len(tasks')].tab = t
<1> DEFINE new == Task(f, t)
<1>1. /\ new \in TaskType /\ new.live /\ ~new.asking /\ ~new.aborted /\ new.tab = t
  BY TaskFresh
<1> HIDE DEF new
<1>2. tasks' = Append(ts, new)
  BY DEF new
<1>3. /\ tasks' \in Seq(TaskType) /\ Len(tasks') = Len(ts) + 1 /\ tasks'[Len(ts) + 1] = new
      /\ \A i \in 1..Len(ts) : tasks'[i] = ts[i]
      /\ Len(ts) \in Nat
  BY <1>1, <1>2
<1>4. Chain'
  BY <1>1, <1>3 DEF Chain, AllDead
<1> QED BY <1>1, <1>3, <1>4 DEF Pending, ToCome

LEMMA CancelSettles ==
    ASSUME NEW ts \in Seq(TaskType), Cancel(ts), at' \in Spots
    PROVE  MenuInv'
<1>1. /\ tasks' \in Seq(TaskType) /\ AllDead(tasks') /\ Len(tasks') \in Nat
      /\ \A i \in 1..Len(tasks') : tasks'[i].aborted => tasks'[i].asking
  BY RevokedDead DEF Cancel, AllDead
<1>2. Chain'
  BY <1>1 DEF Chain, AllDead, Cancel
<1>3. /\ menu' \in [place : Spots \cup {NoPlace}, force : BOOLEAN]
      /\ menu' = Closed /\ asked' = NoPlace
  BY DEF Cancel, Closed
<1>4. tasks' # <<>> => Dead(tasks'[Len(tasks')])
  BY <1>1 DEF AllDead
<1> QED BY <1>2, <1>3, <1>4 DEF MenuInv

LEMMA RequestPending ==
    ASSUME MenuInv, NEW place \in Spots, NEW f \in BOOLEAN, NEW t \in BOOLEAN,
           Request(place, f, t), at' = place, t => menu = Closed
    PROVE  MenuInv'
<1>1. tasks \in Seq(TaskType)
  BY DEF MenuInv, Chain
<1> DEFINE r == Revoked(tasks)
<1>2. /\ r \in Seq(TaskType) /\ AllDead(r) /\ \A i \in 1..Len(r) : r[i].aborted => r[i].asking
  BY <1>1, RevokedDead DEF AllDead
<1>3. UNCHANGED <<menu, strayed>> /\ asked' = place
  BY DEF Request
<1>4. CASE debounce' = <<Task(f, t)>> /\ tasks' = r /\ ~t
  <2>1. t = FALSE /\ debounce' # NoTimer
    BY <1>4 DEF NoTimer
  <2> HIDE DEF r
  <2>2. Chain'
    <3>1. tasks' \in Seq(TaskType) /\ AllDead(tasks') /\ Len(tasks') \in Nat
      BY <1>2, <1>4
    <3>2. \A i \in 1..Len(tasks') : tasks'[i].aborted => tasks'[i].asking
      BY <1>2, <1>4
    <3>3. \A i \in 1..(Len(tasks') - 1) : Dead(tasks'[i])
      BY <3>1 DEF AllDead
    <3>4. \E g \in BOOLEAN : debounce' = <<Task(g, FALSE)>>
      BY <1>4, <2>1
    <3> QED BY <3>1, <3>2, <3>3, <3>4 DEF Chain
  <2>3. Pending'
    BY <2>1 DEF Pending
  <2>4. tasks' # <<>> => Dead(tasks'[Len(tasks')])
    BY <1>2, <1>4 DEF AllDead
  <2> QED BY <1>3, <2>2, <2>3, <2>4 DEF MenuInv
<1>5. CASE debounce' = NoTimer /\ tasks' = Append(r, Task(f, t))
  <2> HIDE DEF r
  <2>1. Chain' /\ Pending' /\ tasks'[Len(tasks')].tab = t
    BY <1>2, <1>5, ChainAppends
  <2> QED BY <1>3, <2>1 DEF MenuInv
<1> QED BY <1>4, <1>5 DEF Request

\* The oldest task goes: one that could still come to something was the only one.
LEMMA TailChain ==
    ASSUME MenuInv, tasks # <<>>, tasks' = Tail(tasks), UNCHANGED debounce
    PROVE  /\ Chain'
           /\ tasks' # <<>> => /\ tasks'[Len(tasks')] = tasks[Len(tasks)]
                               /\ Dead(tasks[1])
           /\ ~Dead(tasks[1]) => tasks' = <<>> /\ debounce = NoTimer /\ Len(tasks) = 1
<1>1. /\ tasks \in Seq(TaskType) /\ Len(tasks) \in Nat /\ Len(tasks) > 0
  BY DEF MenuInv, Chain
<1>2. /\ tasks' \in Seq(TaskType) /\ Len(tasks') = Len(tasks) - 1
      /\ \A i \in 1..(Len(tasks) - 1) : tasks'[i] = tasks[i + 1]
  BY <1>1
<1>3. tasks' # <<>> => Len(tasks) - 1 > 0
  BY <1>2
<1>a. /\ \A i \in 1..(Len(tasks) - 1) : Dead(tasks[i])
      /\ \A i \in 1..Len(tasks) : tasks[i].aborted => tasks[i].asking
      /\ debounce # NoTimer => \A i \in 1..Len(tasks) : Dead(tasks[i])
  BY DEF MenuInv, Chain, AllDead
<1>b. 1 \in 1..Len(tasks) /\ (Len(tasks) = 1 \/ 1 \in 1..(Len(tasks) - 1))
  BY <1>1, FirstOf
<1>4. ~Dead(tasks[1]) => Len(tasks) = 1 /\ debounce = NoTimer
  BY <1>a, <1>b, Zenon
<1>5. Chain'
  <2>1. \A i \in 1..(Len(tasks') - 1) : Dead(tasks'[i])
    BY <1>1, <1>2, <1>a
  <2>2. \A i \in 1..Len(tasks') : tasks'[i].aborted => tasks'[i].asking
    BY <1>1, <1>2, <1>a
  <2>3. debounce # NoTimer => AllDead(tasks')
    BY <1>1, <1>2, <1>a DEF AllDead
  <2>4. debounce' = NoTimer \/ \E f \in BOOLEAN : debounce' = <<Task(f, FALSE)>>
    BY DEF MenuInv, Chain
  <2> QED BY <1>2, <2>1, <2>2, <2>3, <2>4 DEF Chain
<1> QED BY <1>1, <1>2, <1>3, <1>4, <1>5

LEMMA MenuInvStep == MenuInv /\ [CompletionNext]_completionVars => MenuInv'
<1> SUFFICES ASSUME MenuInv, [CompletionNext]_completionVars PROVE MenuInv'
  OBVIOUS
<1>a. tasks \in Seq(TaskType) /\ at \in Spots /\ menu.force \in BOOLEAN
  BY DEF MenuInv, Chain
<1>b. ASSUME UNCHANGED <<at, menu, debounce, tasks, strayed>>, asked' \in {asked, NoPlace}
      PROVE  MenuInv'
  BY <1>b DEF MenuInv, Chain, Pending, ToCome
<1>c. ASSUME NEW place \in Spots, at' = place, Unasked(place) PROVE MenuInv'
  <2>1. CASE place = at
    BY <1>c, <2>1 DEF Unasked, MenuInv, Chain, Pending, ToCome
  <2>2. CASE place # at
    BY <1>c, <2>2 DEF Unasked, MenuInv, Chain
  <2> QED BY <2>1, <2>2
<1>1. ASSUME NEW place \in Spots, Edited(place) PROVE MenuInv'
  <2>1. CASE Request(place, menu.force, FALSE)
    BY <1>1, <1>a, <2>1, RequestPending DEF Edited
  <2>2. CASE Request(place, FALSE, FALSE)
    BY <1>1, <2>2, RequestPending DEF Edited
  <2>3. CASE Unasked(place)
    BY <1>1, <1>c, <2>3 DEF Edited
  <2> QED BY <1>1, <2>1, <2>2, <2>3 DEF Edited
<1>2. ASSUME NEW place \in Spots, Strayed(place) PROVE MenuInv'
  BY <1>2, <1>c DEF Strayed
<1>3. ASSUME NEW place \in Spots, Left(place) PROVE MenuInv'
  BY <1>3, <1>a, CancelSettles DEF Left
<1>4. CASE Tab
  <2>1. CASE at' \in Spots /\ Cancel(tasks)
    BY <2>1, <1>a, CancelSettles
  <2>2. CASE menu = Closed /\ UNCHANGED at /\ Request(at, FALSE, TRUE)
    BY <2>2, <1>a, RequestPending
  <2>3. CASE menu = Closed /\ UNCHANGED at /\ Request(at, TRUE, TRUE)
    BY <2>3, <1>a, RequestPending
  <2>4. CASE UNCHANGED at /\ Unasked(at)
    BY <2>4, <1>a, <1>c
  <2> QED BY <1>4, <2>1, <2>2, <2>3, <2>4 DEF Tab
<1>5. CASE Fire
  <2>1. PICK f \in BOOLEAN : debounce = <<Task(f, FALSE)>>
    BY <1>5 DEF Fire, MenuInv, Chain
  <2>2. tasks' = Append(tasks, Task(f, FALSE)) /\ debounce' = NoTimer
    BY <1>5, <2>1 DEF Fire
  <2>3. AllDead(tasks) /\ \A i \in 1..Len(tasks) : tasks[i].aborted => tasks[i].asking
    BY <1>5 DEF Fire, MenuInv, Chain
  <2>4. Chain' /\ Pending' /\ ~tasks'[Len(tasks')].tab
    BY <1>a, <2>2, <2>3, ChainAppends
  <2> QED BY <1>5, <2>4 DEF Fire, MenuInv
<1>6. CASE Begin
  <2>1. CASE tasks[1].live
    <3>1. /\ tasks' = [tasks EXCEPT ![1].asking = TRUE, ![1].place = at]
          /\ UNCHANGED <<at, menu, debounce, strayed, asked>> /\ ~tasks[1].asking
      BY <1>6, <2>1 DEF Begin
    <3>2. Len(tasks) = 1 /\ debounce = NoTimer
      <4>1. ~Dead(tasks[1]) /\ tasks # <<>>
        BY <1>6, <2>1 DEF Begin, Dead
      <4>3. /\ \A i \in 1..(Len(tasks) - 1) : Dead(tasks[i])
            /\ debounce # NoTimer => \A i \in 1..Len(tasks) : Dead(tasks[i])
        BY DEF MenuInv, Chain, AllDead
      <4>4. 1 \in 1..Len(tasks) /\ (Len(tasks) = 1 \/ 1 \in 1..(Len(tasks) - 1))
        BY <1>a, <4>1, FirstOf
      <4> QED BY <4>1, <4>3, <4>4, Zenon
    <3> DEFINE t == [tasks[1] EXCEPT !.asking = TRUE, !.place = at]
    <3>3. tasks[1] \in TaskType
      BY <1>6, <1>a, FirstOf DEF Begin
    <3>4. /\ t \in TaskType /\ t.live /\ t.asking /\ t.place = at
          /\ t.aborted = tasks[1].aborted /\ t.tab = tasks[1].tab
      BY <1>a, <2>1, <3>3 DEF TaskType
    <3> HIDE DEF t
    <3>5. tasks' \in Seq(TaskType) /\ Len(tasks') = 1 /\ tasks'[1] = t
      <4>1. tasks' = [tasks EXCEPT ![1] = t]
        BY <3>1 DEF t
      <4>2. 1 \in 1..Len(tasks)
        BY <3>2
      <4>3. /\ tasks' \in Seq(TaskType) /\ Len(tasks') = Len(tasks)
            /\ \A i \in 1..Len(tasks) : tasks'[i] = IF i = 1 THEN t ELSE tasks[i]
        BY <1>a, <3>4, <4>1, <4>2, ExceptSeq
      <4> QED BY <3>2, <4>2, <4>3
    <3>6. ~tasks[1].aborted
      BY <3>1, <3>2 DEF MenuInv, Chain
    <3>7. Chain'
      <4>1. \A i \in 1..(Len(tasks') - 1) : Dead(tasks'[i])
        BY <3>5
      <4>2. \A i \in 1..Len(tasks') : tasks'[i].aborted => tasks'[i].asking
        BY <3>4, <3>5
      <4>3. debounce' = NoTimer
        BY <3>1, <3>2
      <4> QED BY <3>5, <4>1, <4>2, <4>3 DEF Chain
    <3>8. Pending' /\ tasks # <<>> /\ ~Dead(tasks[1])
      BY <2>1, <3>1, <3>2, <3>4, <3>5, <3>6 DEF Pending, ToCome, Dead
    <3> QED BY <3>1, <3>2, <3>4, <3>5, <3>7, <3>8 DEF MenuInv
  <2>2. CASE ~tasks[1].live
    <3>1. /\ tasks # <<>> /\ tasks' = Tail(tasks) /\ ~tasks[1].asking
          /\ UNCHANGED <<at, menu, debounce, strayed, asked>>
      BY <1>6, <2>2 DEF Begin
    <3>2. CASE tasks' # <<>>
      BY <3>1, <3>2, TailChain DEF MenuInv, Pending, ToCome
    <3>3. CASE tasks' = <<>>
      <4>1. Len(tasks) = 1
        <5>1. Tail(tasks) = <<>>
          BY <3>1, <3>3
        <5> QED BY <1>a, <3>1, <5>1, FirstOf, Zenon
      <4>2. Pending => debounce # NoTimer
        BY <2>2, <3>1, <4>1 DEF Pending, ToCome
      <4> QED BY <3>1, <3>3, <4>2, TailChain DEF MenuInv, Pending
    <3> QED BY <3>2, <3>3
  <2> QED BY <2>1, <2>2
<1>7. CASE Answer
  <2> DEFINE task == tasks[1]
  <2>0. tasks # <<>> /\ task.asking /\ Tail(tasks) \in Seq(TaskType)
    BY <1>7, <1>a DEF Answer
  <2>1. CASE /\ ~Current(task) /\ tasks' = Tail(tasks)
             /\ UNCHANGED <<at, menu, debounce, strayed, asked>>
    <3>1. CASE tasks' # <<>>
      BY <2>0, <2>1, <3>1, TailChain DEF MenuInv, Pending, ToCome
    <3>2. CASE tasks' = <<>>
      <4>1. Len(tasks) = 1
        <5>1. Tail(tasks) = <<>>
          BY <2>1, <3>2
        <5> QED BY <1>a, <2>0, <5>1, FirstOf, Zenon
      <4>2. Pending => debounce # NoTimer
        BY <2>0, <2>1, <4>1 DEF Pending, ToCome, Current
      <4> QED BY <2>0, <2>1, <3>2, <4>2, TailChain DEF MenuInv, Pending
    <3> QED BY <3>1, <3>2
  <2>2. CASE Cancel(Tail(tasks)) /\ UNCHANGED at
    BY <1>a, <2>0, <2>2, CancelSettles
  <2>3. CASE /\ Current(task) /\ task.tab /\ at' \in Spots /\ tasks' = Tail(tasks)
             /\ asked' = NoPlace /\ UNCHANGED <<menu, debounce, strayed>>
    <3>1. ~Dead(tasks[1])
      BY <2>0, <2>3 DEF Dead, Current
    <3>2. Chain' /\ tasks' = <<>> /\ Len(tasks) = 1
      BY <2>0, <2>3, <3>1, TailChain
    <3>3. menu = Closed
      BY <2>0, <2>3, <3>1, <3>2 DEF MenuInv
    <3> QED BY <2>3, <3>2, <3>3 DEF MenuInv
  <2>4. CASE /\ Current(task) /\ menu' = [place |-> task.place, force |-> task.force]
             /\ tasks' = Tail(tasks) /\ asked' = NoPlace /\ UNCHANGED <<at, debounce>>
    <3>1. ~Dead(tasks[1])
      BY <2>0, <2>4 DEF Dead, Current
    <3>2. Chain' /\ tasks' = <<>> /\ Len(tasks) = 1
      BY <2>0, <2>4, <3>1, TailChain
    <3>3. tasks[1] \in TaskType
      BY <1>a, <2>0, FirstOf
    <3>4. menu' \in [place : Spots \cup {NoPlace}, force : BOOLEAN] /\ menu'.place = at'
      BY <2>4, <3>3 DEF TaskType, Current
    <3> QED BY <1>a, <2>4, <3>2, <3>4 DEF MenuInv
  <2> QED BY <1>7, <2>1, <2>2, <2>3, <2>4 DEF Answer
<1>8. CASE UNCHANGED completionVars
  BY <1>8, <1>b DEF completionVars
<1> QED BY <1>1, <1>2, <1>3, <1>4, <1>5, <1>6, <1>7, <1>8 DEF CompletionNext

\* MenuSettles, for any texts and suggestions and any number of tasks: once no request is
\* under way, an open menu is for the text at the cursor, and what was asked for has been
\* answered, unless the text has changed under the menu without a request, as MenuSettles
\* has it.
THEOREM CompletionSettles == CompletionSpec => []MenuSettles
<1>1. CompletionInit => MenuInv
  <2> SUFFICES ASSUME CompletionInit PROVE MenuInv
    OBVIOUS
  <2>1. tasks = <<>> /\ tasks \in Seq(TaskType) /\ Len(tasks) = 0 /\ debounce = NoTimer
    BY DEF CompletionInit
  <2>2. Chain
    BY <2>1 DEF Chain
  <2> QED BY <2>1, <2>2 DEF CompletionInit, MenuInv, Closed
<1>2. MenuInv => MenuSettles
  BY DEF MenuInv, MenuSettles, Pending
<1> QED BY <1>1, <1>2, MenuInvStep, PTL DEF CompletionSpec

-----------------------------------------------------------------------------
(* Terminal input.                                                           *)
Expected == readTimer \/ \E t \in Timers : flusher[t].at \in {"fired", "cancelled"}
RestInv ==
    /\ reader = [at |-> reader.at, keys |-> reader.keys, rest |-> reader.rest]
    /\ flusher = [t \in Timers |-> [at |-> flusher[t].at, keys |-> flusher[t].keys]]
    /\ reader.at = "paste" => pasteMode /\ buffer = <<>>
    /\ ~ReaderBusy /\ ~pasteMode /\ buffer # <<>> => Expected

LEMMA RestInvInit == StdinInit => RestInv
  BY DEF StdinInit, RestInv, Reading, ReaderBusy, Waiting

LEMMA RestInvStep == RestInv /\ [StdinNext]_stdinVars => RestInv'
<1> SUFFICES ASSUME RestInv, [StdinNext]_stdinVars PROVE RestInv'
  OBVIOUS
<1> USE DEF RestInv, ReaderBusy
<1>1. ASSUME NEW chunk, Take(chunk) PROVE RestInv'
  BY <1>1 DEF Take, Reading, Expected
<1>2. CASE LookForPasteEnd
  <2>1. pasteMode /\ buffer = <<>> /\ UNCHANGED <<buffer, flusher, readTimer>>
    BY <1>2 DEF LookForPasteEnd
  <2>2. \/ reader' = Reading
        \/ \E left : reader' = [at |-> "again", keys |-> <<>>, rest |-> left]
    BY <1>2 DEF LookForPasteEnd, Reading
  <2>3. /\ reader' = [at |-> reader'.at, keys |-> reader'.keys, rest |-> reader'.rest]
        /\ reader'.at # "paste"
    BY <2>2 DEF Reading
  <2> QED BY <2>1, <2>3
<1>3. CASE Split
  <2>1. reader'.at \in {"assign", "before"} /\ UNCHANGED <<buffer, pasteMode, flusher, readTimer>>
    BY <1>3 DEF Split, pasteVars
  <2>2. reader' = [at |-> reader'.at, keys |-> reader'.keys, rest |-> reader'.rest]
    BY <1>3 DEF Split
  <2> QED BY <2>1, <2>2
<1>4. CASE Assign
  BY <1>4 DEF Assign
<1>5. CASE EmitKey
  BY <1>5 DEF EmitKey, pasteVars
<1>6. CASE EndReading
  BY <1>6 DEF EndReading, Reading, Expected
<1>7. CASE BeginPaste
  BY <1>7 DEF BeginPaste, Reading
<1>8. ASSUME NEW t \in Timers, FlushTimerFires(t) PROVE RestInv'
  <2>1. /\ flusher'[t].at = "fired" /\ UNCHANGED <<reader, buffer, pasteMode>>
        /\ flusher' = [u \in Timers |-> [at |-> flusher'[u].at, keys |-> flusher'[u].keys]]
    BY <1>8 DEF FlushTimerFires, pasteVars
  <2> QED BY <2>1 DEF Expected
<1>9. ASSUME NEW t \in Timers, CancelTimer(t) PROVE RestInv'
  <2>1. /\ flusher'[t].at = "cancelled" /\ UNCHANGED <<reader, buffer, pasteMode>>
        /\ flusher' = [u \in Timers |-> [at |-> flusher'[u].at, keys |-> flusher'[u].keys]]
    BY <1>9 DEF CancelTimer, pasteVars
  <2> QED BY <2>1 DEF Expected
<1>10. ASSUME NEW t \in Timers, TakeBuffer(t) PROVE RestInv'
  <2>1. /\ buffer' = <<>> /\ UNCHANGED <<reader, pasteMode>>
        /\ flusher' = [u \in Timers |-> [at |-> flusher'[u].at, keys |-> flusher'[u].keys]]
    BY <1>10 DEF TakeBuffer, pasteVars, Over
  <2> QED BY <2>1
<1>11. ASSUME NEW t \in Timers, EmitFlushed(t) PROVE RestInv'
  <2>1. /\ UNCHANGED <<reader, buffer, pasteMode, readTimer>> /\ flusher[t].at = "took"
        /\ flusher' = [u \in Timers |-> [at |-> flusher'[u].at, keys |-> flusher'[u].keys]]
        /\ \A u \in Timers \ {t} : flusher'[u] = flusher[u]
    BY <1>11 DEF EmitFlushed, pasteVars, Over
  <2>2. Expected => Expected'
    BY <2>1 DEF Expected
  <2> QED BY <2>1, <2>2
<1>12. CASE UNCHANGED stdinVars
  BY <1>12 DEF stdinVars, pasteVars, Expected
<1>13. CASE Reader
  BY <1>1, <1>2, <1>3, <1>4, <1>5, <1>6, <1>7, <1>13 DEF Reader, ReadOn, Read
<1> QED BY <1>8, <1>9, <1>10, <1>11, <1>12, <1>13 DEF StdinNext, Flush

\* RestHasTimer, for any input, however it is cut into reads, and any number of timers:
\* an incomplete sequence never stays behind with nothing to flush it.
THEOREM RestIsFlushed == StdinSpec => []RestHasTimer
<1>1. RestInv => RestHasTimer
  BY DEF RestInv, RestHasTimer, Expected
<1> QED BY RestInvInit, RestInvStep, <1>1, PTL DEF StdinSpec

-----------------------------------------------------------------------------
(* Recursion over a sequence.  The provers know nothing of a function that is *)
(* defined by itself: that there is one is shown here.                       *)

\* What holds of 0 and, if of n, of n + 1, holds up to any bound.
LEMMA UpTo ==
    ASSUME NEW K \in Nat, NEW S, 0 \in S, \A n \in 0..(K - 1) : n \in S => n + 1 \in S
    PROVE  \A n \in 0..K : n \in S
<1> DEFINE T == {n \in 0..K : n \notin S}
<1>1. SUFFICES ASSUME T # {} PROVE FALSE
  BY DEF T
<1>2. PICK x \in T : \A y \in T : x <= y
  <2>1. T \in SUBSET Nat
    OBVIOUS
  <2> HIDE DEF T
  <2> QED BY <1>1, <2>1, LeastOf
<1>3. x \in 1..K /\ x - 1 \in 0..(K - 1)
  OBVIOUS
<1>4. x - 1 \in S
  BY <1>2, <1>3
<1> QED BY <1>3, <1>4

\* A function is defined by its first value and a step from each value to the next.
IsRun(f, K, X, a, step) ==
    /\ f \in [0..K -> X] /\ f[0] = a
    /\ \A n \in 1..K : f[n] = step[<<f[n - 1], n>>]
LEMMA RunExists ==
    ASSUME NEW K \in Nat, NEW X, NEW a \in X, NEW step \in [X \X Nat -> X]
    PROVE  \E f : IsRun(f, K, X, a, step)
<1> DEFINE S == {k \in 0..K : \E f : IsRun(f, k, X, a, step)}
<1>1. 0 \in S
  <2> DEFINE f == [n \in 0..0 |-> a]
  <2>1. IsRun(f, 0, X, a, step)
    BY DEF IsRun
  <2> QED BY <2>1
<1>2. ASSUME NEW k \in 0..(K - 1), k \in S PROVE k + 1 \in S
  <2>1. PICK f : IsRun(f, k, X, a, step)
    BY <1>2
  <2> DEFINE g == [n \in 0..(k + 1) |-> IF n = k + 1 THEN step[<<f[k], k + 1>>] ELSE f[n]]
  <2>2. f[k] \in X
    BY <2>1 DEF IsRun
  <2>3. step[<<f[k], k + 1>>] \in X
    BY <2>2
  <2>4. g \in [0..(k + 1) -> X] /\ g[0] = a
    BY <2>1, <2>3 DEF IsRun
  <2>5. ASSUME NEW n \in 1..(k + 1) PROVE g[n] = step[<<g[n - 1], n>>]
    <3>1. CASE n = k + 1
      <4>1. n - 1 = k /\ k \in 0..(k + 1) /\ k # k + 1
        BY <3>1
      <4>2. g[n - 1] = f[k] /\ g[n] = step[<<f[k], k + 1>>]
        BY <3>1, <4>1
      <4> QED BY <3>1, <4>2
    <3>2. CASE n \in 1..k
      <4>1. n \in 0..(k + 1) /\ n - 1 \in 0..(k + 1) /\ n # k + 1 /\ n - 1 # k + 1
        BY <3>2
      <4>2. g[n] = f[n] /\ g[n - 1] = f[n - 1]
        BY <4>1
      <4> QED BY <2>1, <3>2, <4>2 DEF IsRun
    <3> QED BY <3>1, <3>2
  <2>6. IsRun(g, k + 1, X, a, step)
    <3> HIDE DEF g
    <3> QED BY <2>4, <2>5 DEF IsRun
  <2> QED BY <2>6
<1>3. K \in S
  <2> HIDE DEF S
  <2> QED BY <1>1, <1>2, UpTo
<1> QED BY <1>3

-----------------------------------------------------------------------------
(* Flattening.                                                               *)
\* FlattenSeq goes through the sequence from its first member.
IsFlat(ss, f) ==
    /\ f[1] = ss[1]
    /\ \A n \in 2..Len(ss) : f[n] = f[n - 1] \o ss[n]
LEMMA FlatRun ==
    ASSUME NEW S, NEW ss \in Seq(Seq(S)), ss # <<>>
    PROVE  \E f \in [1..Len(ss) -> Seq(S)] : IsFlat(ss, f) /\ FlattenSeq(ss) = f[Len(ss)]
<1> DEFINE X == Seq(S)
           K == Len(ss)
           step == [xn \in X \X Nat |-> IF xn[2] \in 1..K THEN xn[1] \o ss[xn[2]] ELSE xn[1]]
           flatten == CHOOSE flatten : flatten = [i \in 1..Len(ss) |->
                        IF i = 1 THEN ss[i] ELSE flatten[i - 1] \o ss[i]]
<1>1. K \in Nat /\ K # 0 /\ 1 \in 1..K /\ K \in 1..K /\ <<>> \in X /\ \A n \in 1..K : ss[n] \in X
  <2>1. K \in Nat /\ K # 0 /\ \A n \in 1..K : ss[n] \in X
    BY EmptySeq, ElementOfSeq
  <2> HIDE DEF K
  <2> QED BY <2>1
<1>2. step \in [X \X Nat -> X]
  <2>1. ASSUME NEW xn \in X \X Nat
        PROVE  (IF xn[2] \in 1..K THEN xn[1] \o ss[xn[2]] ELSE xn[1]) \in X
    <3>1. CASE xn[2] \in 1..K
      <4>1. xn[1] \in Seq(S) /\ ss[xn[2]] \in Seq(S)
        BY <1>1, <3>1
      <4> QED BY <4>1, <3>1, ConcatProperties
    <3> QED BY <3>1
  <2> QED BY <2>1
<1>3. PICK g : IsRun(g, K, X, <<>>, step)
  <2> HIDE DEF step, X, K
  <2> QED BY <1>1, <1>2, RunExists
<1> DEFINE f == [n \in 1..K |-> g[n]]
<1>4. g \in [0..K -> X] /\ g[0] = <<>>
  BY <1>3 DEF IsRun
<1>5. ASSUME NEW n \in 1..K PROVE g[n] = g[n - 1] \o ss[n]
  <2>1. <<g[n - 1], n>> \in X \X Nat
    <3>1. n \in Nat /\ n - 1 \in 0..K
      <4> HIDE DEF K
      <4> QED BY <1>1
    <3> HIDE DEF X, K
    <3> QED BY <3>1, <1>4
  <2>2. step[<<g[n - 1], n>>] = g[n - 1] \o ss[n]
    <3> HIDE DEF X, K
    <3> QED BY <2>1
  <2> HIDE DEF step, X, K
  <2> QED BY <1>3, <2>2 DEF IsRun
<1> HIDE DEF step
<1>6. f \in [1..K -> X] /\ f[1] = ss[1] /\ \A n \in 2..K : f[n] = f[n - 1] \o ss[n]
  <2>1. g[1] = <<>> \o ss[1]
    <3>1. g[1] = g[1 - 1] \o ss[1]
      BY <1>1, <1>5, Zenon
    <3>2. 1 - 1 = 0
      OBVIOUS
    <3> QED BY <3>1, <3>2, <1>4, Zenon
  <2>2. g[1] = ss[1]
    BY <1>1, <2>1, ConcatEmptySeq
  <2> HIDE DEF K, X
  <2>3. \A n \in 1..K : n \in 0..K
    BY <1>1
  <2>4. ASSUME NEW n \in 2..K PROVE f[n] = f[n - 1] \o ss[n]
    <3>1. n \in 1..K /\ n - 1 \in 1..K
      BY <1>1
    <3> QED BY <3>1, <1>5
  <2> QED BY <1>1, <1>4, <2>2, <2>3, <2>4
<1>7. f = [i \in 1..Len(ss) |-> IF i = 1 THEN ss[i] ELSE f[i - 1] \o ss[i]]
  <2>1. ASSUME NEW i \in 1..K PROVE f[i] = IF i = 1 THEN ss[i] ELSE f[i - 1] \o ss[i]
    <3>1. i = 1 \/ i \in 2..K
      <4> HIDE DEF K
      <4> QED BY <1>1
    <3> HIDE DEF K, X, f
    <3> QED BY <1>6, <3>1
  <2> HIDE DEF X
  <2> QED BY <2>1, <1>6
<1>8. flatten = [i \in 1..Len(ss) |-> IF i = 1 THEN ss[i] ELSE flatten[i - 1] \o ss[i]]
  <2> HIDE DEF f
  <2> QED BY <1>7
<1>9. \A n \in 1..K : flatten[n] = f[n]
  <2> HIDE DEF X, flatten, f
  <2> DEFINE T == {n \in 0..K : n = 0 \/ flatten[n] = f[n]}
  <2>1. 0 \in T
    BY <1>1
  <2>2. ASSUME NEW n \in 0..(K - 1), n \in T PROVE n + 1 \in T
    <3>1. n + 1 \in 1..K /\ n + 1 \in 0..K /\ (n + 1) - 1 = n /\ n \in Nat
      <4> HIDE DEF K
      <4> QED BY <1>1, <2>2
    <3>2. flatten[n + 1] = IF n + 1 = 1 THEN ss[n + 1] ELSE flatten[n] \o ss[n + 1]
      <4>1. \A i \in 1..Len(ss) :
                flatten[i] = IF i = 1 THEN ss[i] ELSE flatten[i - 1] \o ss[i]
        BY <1>8
      <4> QED BY <4>1, <3>1
    <3>3. CASE n = 0
      <4> HIDE DEF K
      <4> QED BY <3>1, <3>2, <3>3, <1>6
    <3>4. CASE n # 0
      <4>1. n + 1 # 1 /\ n + 1 \in 2..K /\ flatten[n] = f[n]
        BY <3>1, <3>4, <2>2
      <4>2. f[n + 1] = f[n] \o ss[n + 1]
        BY <4>1, <3>1, <1>6
      <4>3. flatten[n + 1] = f[n + 1]
        BY <4>1, <4>2, <3>2
      <4> QED BY <4>3, <3>1
    <3> QED BY <3>3, <3>4
  <2>3. \A n \in 0..K : n \in T
    <3> HIDE DEF T, K
    <3> QED BY <1>1, <2>1, <2>2, UpTo
  <2>4. \A n \in 1..K : n \in 0..K /\ n # 0
    <3> HIDE DEF K
    <3> QED BY <1>1
  <2> QED BY <2>3, <2>4
<1>10. FlattenSeq(ss) = f[K]
  <2>1. FlattenSeq(ss) = flatten[Len(ss)]
    BY <1>1 DEF FlattenSeq
  <2> HIDE DEF X, flatten, f
  <2> QED BY <1>1, <1>9, <2>1
<1> QED
  <2> HIDE DEF f, flatten
  <2>1. IsFlat(ss, f)
    BY <1>6 DEF IsFlat
  <2> QED BY <1>6, <1>10, <2>1

\* FlattenSeq is what such a function ends in.
LEMMA FlatUnique ==
    ASSUME NEW S, NEW ss \in Seq(Seq(S)), ss # <<>>, NEW g, IsFlat(ss, g)
    PROVE  FlattenSeq(ss) = g[Len(ss)]
<1>1. PICK f \in [1..Len(ss) -> Seq(S)] : IsFlat(ss, f) /\ FlattenSeq(ss) = f[Len(ss)]
  BY FlatRun
<1> DEFINE K == Len(ss)
           T == {n \in 0..K : n = 0 \/ g[n] = f[n]}
<1>2. K \in Nat /\ K # 0 /\ K \in 0..K
  <2>1. K \in Nat /\ K # 0
    BY EmptySeq
  <2> HIDE DEF K
  <2> QED BY <2>1
<1>3. 0 \in T
  BY <1>2
<1>4. ASSUME NEW n \in 0..(K - 1), n \in T PROVE n + 1 \in T
  <2>1. n + 1 \in 1..K /\ n + 1 \in 0..K /\ (n + 1) - 1 = n /\ n \in Nat
    <3> HIDE DEF K
    <3> QED BY <1>2, <1>4
  <2>2. CASE n = 0
    <3>1. g[n + 1] = f[n + 1]
      BY <1>1, <2>2 DEF IsFlat
    <3> QED BY <3>1, <2>1
  <2>3. CASE n # 0
    <3>1. n + 1 \in 2..K /\ g[n] = f[n]
      BY <2>1, <2>3, <1>4
    <3>2. f[n + 1] = f[n] \o ss[n + 1] /\ g[n + 1] = g[n] \o ss[n + 1]
      BY <1>1, <2>1, <3>1 DEF IsFlat
    <3>3. g[n + 1] = f[n + 1]
      BY <3>1, <3>2
    <3> QED BY <3>3, <2>1
  <2> QED BY <2>2, <2>3
<1>5. K \in T
  <2>1. \A n \in 0..K : n \in T
    <3> HIDE DEF T, K
    <3> QED BY <1>2, <1>3, <1>4, UpTo
  <2> HIDE DEF T, K
  <2> QED BY <2>1, <1>2
<1> QED BY <1>1, <1>2, <1>5

LEMMA FlatEmpty == FlattenSeq(<<>>) = <<>>
  BY DEF FlattenSeq

LEMMA FlatType ==
    ASSUME NEW S, NEW ss \in Seq(Seq(S))
    PROVE  FlattenSeq(ss) \in Seq(S)
<1>1. CASE ss = <<>>
  <2>1. <<>> \in Seq(S)
    OBVIOUS
  <2> QED BY <1>1, <2>1, FlatEmpty
<1>2. CASE ss # <<>>
  <2>1. PICK f \in [1..Len(ss) -> Seq(S)] : FlattenSeq(ss) = f[Len(ss)]
    BY <1>2, FlatRun
  <2>2. Len(ss) \in 1..Len(ss)
    <3> DEFINE K == Len(ss)
    <3>1. K \in Nat /\ K # 0
      BY <1>2, EmptySeq
    <3> HIDE DEF K
    <3>2. K \in 1..K
      BY <3>1
    <3> QED BY <3>2 DEF K
  <2> QED BY <2>1, <2>2
<1> QED BY <1>1, <1>2

\* Flattening of one more at the end.
LEMMA FlatAppend ==
    ASSUME NEW S, NEW ss \in Seq(Seq(S)), NEW s \in Seq(S)
    PROVE  FlattenSeq(Append(ss, s)) = FlattenSeq(ss) \o s
<1> DEFINE K == Len(ss)
           tt == Append(ss, s)
<1>1. /\ tt \in Seq(Seq(S)) /\ tt # <<>> /\ Len(tt) = K + 1 /\ K \in Nat
      /\ \A n \in 1..K : tt[n] = ss[n]
      /\ tt[K + 1] = s
  BY AppendProperties
<1>2. CASE ss = <<>>
  <2>1. K = 0
    BY <1>2
  <2>2. IsFlat(tt, [n \in 1..1 |-> s])
    <3> HIDE DEF tt, K
    <3> QED BY <1>1, <2>1 DEF IsFlat
  <2>3. FlattenSeq(tt) = s
    <3> HIDE DEF tt, K
    <3>1. FlattenSeq(tt) = [n \in 1..1 |-> s][Len(tt)]
      BY <1>1, <2>2, FlatUnique
    <3> QED BY <1>1, <2>1, <3>1
  <2> QED BY <1>2, <2>3, FlatEmpty, ConcatEmptySeq
<1>3. CASE ss # <<>>
  <2>1. PICK f \in [1..K -> Seq(S)] : IsFlat(ss, f) /\ FlattenSeq(ss) = f[K]
    BY <1>3, FlatRun
  <2>2. K # 0
    BY <1>3, EmptySeq
  <2> DEFINE g == [n \in 1..(K + 1) |-> IF n = K + 1 THEN f[K] \o s ELSE f[n]]
  <2> HIDE DEF K, tt
  <2>3. IsFlat(tt, g)
    <3>1. g[1] = tt[1]
      <4>1. 1 \in 1..K /\ 1 # K + 1 /\ 1 \in 1..(K + 1)
        BY <1>1, <2>2
      <4>2. f[1] = ss[1]
        BY <2>1 DEF IsFlat
      <4> QED BY <4>1, <4>2, <1>1
    <3>2. ASSUME NEW n \in 2..(K + 1) PROVE g[n] = g[n - 1] \o tt[n]
      <4>1. CASE n = K + 1
        <5>1. n - 1 = K /\ K \in 1..(K + 1) /\ K # K + 1 /\ K + 1 \in 1..(K + 1)
          BY <1>1, <2>2, <4>1
        <5> QED BY <5>1, <4>1, <1>1
      <4>2. CASE n # K + 1
        <5>1. n \in 2..K /\ n \in 1..K /\ n - 1 \in 1..(K + 1) /\ n - 1 # K + 1 /\ n \in 1..(K + 1)
          BY <1>1, <4>2
        <5>2. f[n] = f[n - 1] \o ss[n]
          BY <2>1, <5>1 DEF IsFlat, K
        <5> QED BY <5>1, <5>2, <4>2, <1>1
      <4> QED BY <4>1, <4>2
    <3> HIDE DEF g
    <3> QED BY <1>1, <3>1, <3>2 DEF IsFlat
  <2>4. FlattenSeq(tt) = g[K + 1]
    <3> HIDE DEF g
    <3> QED BY <1>1, <2>3, FlatUnique
  <2>5. K + 1 \in 1..(K + 1)
    BY <1>1
  <2> QED BY <2>1, <2>4, <2>5 DEF tt
<1> QED BY <1>2, <1>3

\* Flattening of what comes after the first.
LEMMA FlatTail ==
    ASSUME NEW S, NEW ss \in Seq(Seq(S)), ss # <<>>
    PROVE  FlattenSeq(ss) = Head(ss) \o FlattenSeq(Tail(ss))
<1> DEFINE K == Len(ss)
           tt == Tail(ss)
<1>1. /\ K \in Nat /\ K # 0 /\ tt \in Seq(Seq(S)) /\ Len(tt) = K - 1
      /\ \A n \in 1..(K - 1) : tt[n] = ss[n + 1]
      /\ Head(ss) = ss[1] /\ ss[1] \in Seq(S) /\ \A n \in 1..K : ss[n] \in Seq(S)
  <2>1. K \in Nat /\ K # 0 /\ Head(ss) = ss[1] /\ \A n \in 1..K : ss[n] \in Seq(S)
    BY EmptySeq, ElementOfSeq
  <2>2. 1 \in 1..K
    <3> HIDE DEF K
    <3> QED BY <2>1
  <2> QED BY <2>1, <2>2, HeadTailProperties
<1>2. CASE K = 1
  <2>1. tt = <<>>
    <3>1. Len(tt) = 0
      BY <1>1, <1>2
    <3> HIDE DEF tt
    <3> QED BY <1>1, <3>1, EmptySeq
  <2>2. IsFlat(ss, [n \in 1..1 |-> ss[1]])
    BY <1>2 DEF IsFlat
  <2>3. FlattenSeq(ss) = ss[1]
    <3>1. FlattenSeq(ss) = [n \in 1..1 |-> ss[1]][Len(ss)]
      BY <2>2, FlatUnique
    <3> QED BY <1>2, <3>1
  <2> QED BY <1>1, <2>1, <2>3, FlatEmpty, ConcatEmptySeq
<1>3. CASE K # 1
  <2>0. tt # <<>>
    <3>1. Len(tt) # 0
      <4> HIDE DEF K, tt
      <4> QED BY <1>1, <1>3
    <3> HIDE DEF tt
    <3> QED BY <3>1, EmptySeq
  <2>1. PICK f \in [1..(K - 1) -> Seq(S)] : IsFlat(tt, f) /\ FlattenSeq(tt) = f[K - 1]
    <3>1. PICK f \in [1..Len(tt) -> Seq(S)] : IsFlat(tt, f) /\ FlattenSeq(tt) = f[Len(tt)]
      BY <2>0, <1>1, FlatRun
    <3> QED BY <3>1, <1>1
  <2> DEFINE g == [n \in 1..K |-> IF n = 1 THEN ss[1] ELSE ss[1] \o f[n - 1]]
  <2> HIDE DEF K, tt
  <2>2. ASSUME NEW n \in 2..K PROVE g[n] = g[n - 1] \o ss[n]
    <3>1. n \in 1..K /\ n # 1 /\ n - 1 \in 1..K /\ n - 1 \in 1..(K - 1)
      BY <1>1
    <3>2. CASE n = 2
      <4>1. n - 1 = 1 /\ 1 \in 1..(K - 1) /\ f[1] = tt[1] /\ tt[1] = ss[2]
        BY <1>1, <1>3, <2>1, <3>2 DEF IsFlat
      <4> QED BY <3>1, <3>2, <4>1
    <3>3. CASE n # 2
      <4>1. n - 1 # 1 /\ n - 2 \in 1..(K - 1) /\ n - 1 \in 2..Len(tt) /\ (n - 1) - 1 = n - 2
        BY <1>1, <3>1, <3>3
      <4>2. f[n - 1] = f[n - 2] \o tt[n - 1]
        BY <2>1, <4>1 DEF IsFlat
      <4>3. tt[n - 1] = ss[n]
        BY <1>1, <3>1
      <4>4. ss[1] \o (f[n - 2] \o ss[n]) = (ss[1] \o f[n - 2]) \o ss[n]
        <5>1. f[n - 2] \in Seq(S) /\ ss[n] \in Seq(S)
          BY <1>1, <2>1, <3>1, <4>1
        <5>2. ss[1] \in Seq(S)
          BY <1>1
        <5> DEFINE a == ss[1]  b == f[n - 2]  c == ss[n]
        <5>3. a \in Seq(S) /\ b \in Seq(S) /\ c \in Seq(S)
          BY <5>1, <5>2
        <5> HIDE DEF a, b, c
        <5>4. a \o (b \o c) = (a \o b) \o c
          BY <5>3
        <5> QED BY <5>4 DEF a, b, c
      <4>5. g[n] = ss[1] \o f[n - 1] /\ g[n - 1] = ss[1] \o f[n - 2]
        BY <3>1, <4>1
      <4> QED BY <4>2, <4>3, <4>4, <4>5
    <3> QED BY <3>2, <3>3
  <2>3. IsFlat(ss, g)
    <3>1. g[1] = ss[1]
      BY <1>1
    <3> HIDE DEF g
    <3> QED BY <2>2, <3>1 DEF IsFlat, K
  <2>4. FlattenSeq(ss) = g[K]
    <3> HIDE DEF g
    <3> QED BY <2>3, FlatUnique DEF K
  <2>5. K \in 1..K /\ K # 1
    BY <1>1, <1>3
  <2> QED BY <1>1, <2>1, <2>4, <2>5 DEF tt
<1> QED BY <1>2, <1>3
-----------------------------------------------------------------------------
(* Splitting.                                                                *)
States(S) == [keys : Seq(Seq(S)), rest : Seq(S)]
Start0 == [keys |-> <<>>, rest |-> <<>>]
SplitStep(st, x) ==
    LET s == Append(st.rest, x)
    IN  IF s[1] # ESC \/ Complete(s) THEN [keys |-> Append(st.keys, s), rest |-> <<>>]
        ELSE [keys |-> st.keys, rest |-> s]
IsSplit(atoms, f) ==
    /\ f[0] = Start0
    /\ \A n \in 1..Len(atoms) : f[n] = SplitStep(f[n - 1], atoms[n])

LEMMA SplitStepType ==
    ASSUME NEW S, NEW st \in States(S), NEW x \in S
    PROVE  SplitStep(st, x) \in States(S)
<1> DEFINE s == Append(st.rest, x)
<1>1. st.rest \in Seq(S) /\ st.keys \in Seq(Seq(S))
  BY DEF States
<1>2. s \in Seq(S)
  BY <1>1, AppendProperties
<1> HIDE DEF s
<1>3. Append(st.keys, s) \in Seq(Seq(S)) /\ <<>> \in Seq(S)
  BY <1>1, <1>2, AppendProperties
<1>4. /\ [keys |-> Append(st.keys, s), rest |-> <<>>] \in States(S)
      /\ [keys |-> st.keys, rest |-> s] \in States(S)
  BY <1>1, <1>2, <1>3 DEF States
<1> QED BY <1>4 DEF SplitStep, s

LEMMA SplitRun ==
    ASSUME NEW S, NEW atoms \in Seq(S)
    PROVE  \E f \in [0..Len(atoms) -> States(S)] :
              IsSplit(atoms, f) /\ Extract(atoms) = f[Len(atoms)]
<1> DEFINE X == States(S)
           K == Len(atoms)
           step == [xn \in X \X Nat |->
                      IF xn[2] \in 1..K THEN SplitStep(xn[1], atoms[xn[2]]) ELSE xn[1]]
           split == CHOOSE split : split = [n \in 0..Len(atoms) |->
                      IF n = 0 THEN [keys |-> <<>>, rest |-> <<>>]
                      ELSE LET s == Append(split[n - 1].rest, atoms[n])
                           IN  IF s[1] # ESC \/ Complete(s)
                               THEN [keys |-> Append(split[n - 1].keys, s), rest |-> <<>>]
                               ELSE [keys |-> split[n - 1].keys, rest |-> s]]
<1>1. K \in Nat /\ K \in 0..K /\ Start0 \in X /\ \A n \in 1..K : atoms[n] \in S
  <2>1. K \in Nat /\ \A n \in 1..K : atoms[n] \in S
    BY ElementOfSeq
  <2>2. Start0 \in X
    BY DEF Start0, States
  <2> HIDE DEF K, X
  <2> QED BY <2>1, <2>2
<1>2. step \in [X \X Nat -> X]
  <2>1. ASSUME NEW xn \in X \X Nat
        PROVE  (IF xn[2] \in 1..K THEN SplitStep(xn[1], atoms[xn[2]]) ELSE xn[1]) \in X
    <3>1. CASE xn[2] \in 1..K
      <4>1. xn[1] \in States(S) /\ atoms[xn[2]] \in S
        BY <1>1, <3>1
      <4>2. SplitStep(xn[1], atoms[xn[2]]) \in X
        BY <4>1, SplitStepType
      <4> QED BY <4>2, <3>1
    <3>2. CASE xn[2] \notin 1..K
      BY <3>2
    <3> QED BY <3>1, <3>2
  <2> HIDE DEF X, K
  <2> QED BY <2>1
<1>3. PICK f : IsRun(f, K, X, Start0, step)
  <2> HIDE DEF step, X, K
  <2> QED BY <1>1, <1>2, RunExists
<1>4. f \in [0..K -> X] /\ f[0] = Start0
  BY <1>3 DEF IsRun
<1>5. ASSUME NEW n \in 1..K PROVE f[n] = SplitStep(f[n - 1], atoms[n])
  <2>1. <<f[n - 1], n>> \in X \X Nat
    <3>1. n \in Nat /\ n - 1 \in 0..K
      <4> HIDE DEF K
      <4> QED BY <1>1
    <3> HIDE DEF X, K
    <3> QED BY <3>1, <1>4
  <2>2. step[<<f[n - 1], n>>] = SplitStep(f[n - 1], atoms[n])
    <3> HIDE DEF X, K
    <3> QED BY <2>1
  <2> HIDE DEF step, X, K
  <2> QED BY <1>3, <2>2 DEF IsRun
<1> HIDE DEF step
<1>6. f = [n \in 0..Len(atoms) |->
             IF n = 0 THEN [keys |-> <<>>, rest |-> <<>>]
             ELSE LET s == Append(f[n - 1].rest, atoms[n])
                  IN  IF s[1] # ESC \/ Complete(s)
                      THEN [keys |-> Append(f[n - 1].keys, s), rest |-> <<>>]
                      ELSE [keys |-> f[n - 1].keys, rest |-> s]]
  <2>1. ASSUME NEW n \in 0..K
        PROVE  f[n] = IF n = 0 THEN [keys |-> <<>>, rest |-> <<>>]
                      ELSE LET s == Append(f[n - 1].rest, atoms[n])
                           IN  IF s[1] # ESC \/ Complete(s)
                               THEN [keys |-> Append(f[n - 1].keys, s), rest |-> <<>>]
                               ELSE [keys |-> f[n - 1].keys, rest |-> s]
    <3>1. CASE n = 0
      BY <3>1, <1>4 DEF Start0
    <3>2. CASE n # 0
      <4>1. n \in 1..K
        <5> HIDE DEF K
        <5> QED BY <1>1, <3>2
      <4>2. f[n] = SplitStep(f[n - 1], atoms[n])
        BY <4>1, <1>5
      <4> HIDE DEF K, X
      <4> QED BY <3>2, <4>2 DEF SplitStep
    <3> QED BY <3>1, <3>2
  <2> HIDE DEF X
  <2> QED BY <2>1, <1>4
<1>7. split = [n \in 0..Len(atoms) |->
             IF n = 0 THEN [keys |-> <<>>, rest |-> <<>>]
             ELSE LET s == Append(split[n - 1].rest, atoms[n])
                  IN  IF s[1] # ESC \/ Complete(s)
                      THEN [keys |-> Append(split[n - 1].keys, s), rest |-> <<>>]
                      ELSE [keys |-> split[n - 1].keys, rest |-> s]]
  BY <1>6
<1>8. \A n \in 0..K : split[n] = f[n]
  <2> HIDE DEF X, split
  <2> DEFINE T == {n \in 0..K : split[n] = f[n]}
  <2>0. \A n \in 0..K : split[n] = IF n = 0 THEN Start0 ELSE SplitStep(split[n - 1], atoms[n])
    <3>1. \A n \in 0..Len(atoms) :
             split[n] = IF n = 0 THEN [keys |-> <<>>, rest |-> <<>>]
             ELSE LET s == Append(split[n - 1].rest, atoms[n])
                  IN  IF s[1] # ESC \/ Complete(s)
                      THEN [keys |-> Append(split[n - 1].keys, s), rest |-> <<>>]
                      ELSE [keys |-> split[n - 1].keys, rest |-> s]
      BY <1>7
    <3> QED BY <3>1 DEF SplitStep, Start0
  <2>1. 0 \in T
    <3>1. 0 \in 0..K
      <4> HIDE DEF K
      <4> QED BY <1>1
    <3> HIDE DEF K
    <3>2. split[0] = f[0]
      BY <2>0, <3>1, <1>4
    <3> QED BY <3>1, <3>2
  <2>2. ASSUME NEW n \in 0..(K - 1), n \in T PROVE n + 1 \in T
    <3>1. n + 1 \in 1..K /\ n + 1 \in 0..K /\ (n + 1) - 1 = n /\ n + 1 # 0
      <4> HIDE DEF K
      <4> QED BY <1>1, <2>2
    <3>2. split[n + 1] = SplitStep(split[n], atoms[n + 1])
      BY <2>0, <3>1
    <3>3. f[n + 1] = SplitStep(f[n], atoms[n + 1])
      BY <1>5, <3>1
    <3>4. split[n] = f[n]
      BY <2>2
    <3>5. split[n + 1] = f[n + 1]
      BY <3>2, <3>3, <3>4
    <3> QED BY <3>1, <3>5
  <2>3. \A n \in 0..K : n \in T
    <3> HIDE DEF T, K
    <3> QED BY <1>1, <2>1, <2>2, UpTo
  <2> QED BY <2>3
<1>9. Extract(atoms) = f[K]
  <2>1. Extract(atoms) = split[Len(atoms)]
    BY DEF Extract
  <2> HIDE DEF X, split
  <2> QED BY <1>1, <1>8, <2>1
<1> HIDE DEF split
<1>10. IsSplit(atoms, f)
  BY <1>4, <1>5 DEF IsSplit
<1> QED BY <1>4, <1>9, <1>10

\* At every point the keys and the rest are what came before it, and a rest is the
\* beginning of a key.
Beginning(s) == s # <<>> => s[1] = ESC /\ ~Complete(s)
LEMMA SplitSoFar ==
    ASSUME NEW S, NEW atoms \in Seq(S), NEW f \in [0..Len(atoms) -> States(S)],
           IsSplit(atoms, f)
    PROVE  \A n \in 0..Len(atoms) :
              /\ FlattenSeq(f[n].keys) \o f[n].rest = SubSeq(atoms, 1, n)
              /\ Beginning(f[n].rest)
<1> DEFINE K == Len(atoms)
           Good(n) == /\ FlattenSeq(f[n].keys) \o f[n].rest = SubSeq(atoms, 1, n)
                      /\ Beginning(f[n].rest)
           T == {n \in 0..K : Good(n)}
<1>1. K \in Nat /\ \A n \in 1..K : atoms[n] \in S
  BY ElementOfSeq
<1>2. 0 \in T
  <2>1. f[0].keys = <<>> /\ f[0].rest = <<>>
    BY DEF IsSplit, Start0
  <2>2. SubSeq(atoms, 1, 0) = <<>>
    BY SubSeqEmpty
  <2>3. <<>> \o <<>> = <<>>
    BY ConcatEmptySeq
  <2>4. Good(0)
    BY <2>1, <2>2, <2>3, FlatEmpty DEF Beginning
  <2> HIDE DEF K, Good
  <2> QED BY <1>1, <2>4
<1>3. ASSUME NEW n \in 0..(K - 1), n \in T PROVE n + 1 \in T
  <2>1. n + 1 \in 1..K /\ n + 1 \in 0..K /\ (n + 1) - 1 = n /\ n \in Nat /\ n \in 0..K
    <3> HIDE DEF K, T
    <3> QED BY <1>1, <1>3
  <2> DEFINE x == atoms[n + 1]
             s == Append(f[n].rest, x)
             keys == f[n].keys
             left == f[n].rest
  <2>2. keys \in Seq(Seq(S)) /\ left \in Seq(S) /\ x \in S
    <3>1. f[n] \in States(S)
      BY <2>1
    <3> QED BY <3>1, <2>1, <1>1 DEF States
  <2>3. f[n + 1] = SplitStep(f[n], x)
    BY <2>1 DEF IsSplit
  <2>4. Good(n)
    BY <1>3
  <2>5. SubSeq(atoms, 1, n + 1) = SubSeq(atoms, 1, n) \o <<x>>
    <3>1. 1 \in 1..Len(atoms) /\ n + 1 \in 1..Len(atoms)
      BY <2>1
    <3>2. SubSeq(atoms, 1, n + 1) = SubSeq(atoms, 1, (n + 1) - 1) \o <<atoms[n + 1]>>
      BY <3>1, SubSeqRecursiveSecond
    <3> QED BY <3>2, <2>1
  <2>6. s \in Seq(S) /\ s = left \o <<x>> /\ s # <<>>
    BY <2>2, AppendProperties, AppendIsConcat
  <2>7. FlattenSeq(keys) \in Seq(S)
    BY <2>2, FlatType
  <2>8. (FlattenSeq(keys) \o left) \o <<x>> = FlattenSeq(keys) \o s
    <3> DEFINE k == FlattenSeq(keys)  c == <<x>>
    <3>1. c \in Seq(S)
      BY <2>2
    <3> HIDE DEF k, c, left, s
    <3>2. (k \o left) \o c = k \o (left \o c)
      BY <2>2, <2>7, <3>1 DEF k
    <3> QED BY <3>2, <2>6 DEF k, c
  <2>9. SubSeq(atoms, 1, n + 1) = FlattenSeq(keys) \o s
    BY <2>4, <2>5, <2>8
  <2>10. CASE s[1] # ESC \/ Complete(s)
    <3>1. f[n + 1] = [keys |-> Append(keys, s), rest |-> <<>>]
      BY <2>3, <2>10 DEF SplitStep
    <3>2. FlattenSeq(Append(keys, s)) = FlattenSeq(keys) \o s
      <4> HIDE DEF s, keys
      <4> QED BY <2>2, <2>6, FlatAppend
    <3>3. (FlattenSeq(keys) \o s) \o <<>> = FlattenSeq(keys) \o s
      <4> HIDE DEF s, keys
      <4> QED BY <2>6, <2>7, ConcatEmptySeq, ConcatProperties
    <3>4. f[n + 1].keys = Append(keys, s) /\ f[n + 1].rest = <<>>
      BY <3>1
    <3>5. Good(n + 1)
      BY <3>2, <3>3, <3>4, <2>9 DEF Beginning
    <3> HIDE DEF Good
    <3> QED BY <3>5, <2>1
  <2>11. CASE ~(s[1] # ESC \/ Complete(s))
    <3>1. f[n + 1] = [keys |-> keys, rest |-> s]
      BY <2>3, <2>11 DEF SplitStep
    <3>2. f[n + 1].keys = keys /\ f[n + 1].rest = s
      BY <3>1
    <3>3. Good(n + 1)
      BY <3>2, <2>9, <2>11 DEF Beginning
    <3> HIDE DEF Good
    <3> QED BY <3>3, <2>1
  <2> QED BY <2>10, <2>11
<1>4. \A n \in 0..K : n \in T
  <2> HIDE DEF T, K
  <2> QED BY <1>1, <1>2, <1>3, UpTo
<1> QED BY <1>4

LEMMA ExtractType ==
    ASSUME NEW S, NEW atoms \in Seq(S)
    PROVE  /\ Extract(atoms).keys \in Seq(Seq(S)) /\ Extract(atoms).rest \in Seq(S)
           /\ FlattenSeq(Extract(atoms).keys) \o Extract(atoms).rest = atoms
<1>1. PICK f \in [0..Len(atoms) -> States(S)] :
          IsSplit(atoms, f) /\ Extract(atoms) = f[Len(atoms)]
  BY SplitRun
<1>2. Len(atoms) \in 0..Len(atoms)
  OBVIOUS
<1>3. Extract(atoms) \in States(S)
  BY <1>1, <1>2
<1>4. FlattenSeq(Extract(atoms).keys) \o Extract(atoms).rest = SubSeq(atoms, 1, Len(atoms))
  BY <1>1, <1>2, SplitSoFar
<1> QED BY <1>3, <1>4, SubSeqFull DEF States

\* Where no Escape or Alt+[ ends a key begins.
Clear(atoms, k) ==
    /\ k >= 1 => atoms[k] # ESC
    /\ k >= 2 => ~(atoms[k - 1] = ESC /\ atoms[k] = Bracket)
LEMMA KeyBegins ==
    ASSUME NEW S, NEW atoms \in Seq(S), NEW f \in [0..Len(atoms) -> States(S)],
           IsSplit(atoms, f), NEW k \in 0..Len(atoms), Clear(atoms, k)
    PROVE  f[k].rest = <<>>
<1> DEFINE r == f[k].rest
           l == Len(r)
           q == FlattenSeq(f[k].keys)
<1> SUFFICES ASSUME r # <<>> PROVE FALSE
  OBVIOUS
<1>1. r \in Seq(S) /\ f[k].keys \in Seq(Seq(S))
  BY DEF States
<1>2. q \in Seq(S)
  BY <1>1, FlatType
<1>3. q \o r = SubSeq(atoms, 1, k) /\ r[1] = ESC /\ ~Complete(r)
  BY SplitSoFar DEF Beginning
<1>4. l \in Nat /\ l # 0 /\ Len(q) \in Nat /\ k \in Nat
  <2> HIDE DEF q
  <2> QED BY <1>1, <1>2, EmptySeq
<1>5. Len(SubSeq(atoms, 1, k)) = k /\ \A i \in 1..k : SubSeq(atoms, 1, k)[i] = atoms[i]
  BY SubSeqProperties
<1>6. Len(q) + l = k /\ \A i \in 1..l : (q \o r)[Len(q) + i] = r[i]
  <2> HIDE DEF q, r
  <2>1. Len(q \o r) = Len(q) + Len(r)
    BY <1>1, <1>2 DEF r
  <2>2. \A i \in 1..Len(r) : (q \o r)[Len(q) + i] = r[i]
    BY <1>1, <1>2 DEF r
  <2> QED BY <2>1, <2>2, <1>3, <1>5 DEF r
<1>7. r[l] = atoms[k]
  <2> HIDE DEF q, r, l
  <2>1. l \in 1..l /\ k \in 1..k /\ Len(q) + l = k
    BY <1>4, <1>6
  <2>2. (q \o r)[k] = atoms[k]
    BY <2>1, <1>3, <1>5
  <2>3. (q \o r)[Len(q) + l] = r[l]
    BY <2>1, <1>6
  <2> QED BY <2>1, <2>2, <2>3
<1>8. CASE l = 1
  <2>1. atoms[k] = ESC /\ k >= 1
    <3> HIDE DEF q, r, l
    <3> QED BY <1>3, <1>4, <1>6, <1>7, <1>8
  <2> QED BY <2>1 DEF Clear
<1>9. CASE l > 1
  <2>1. r[2] = Bracket /\ (l > 2 => r[l] = ESC)
    <3> HIDE DEF r
    <3> QED BY <1>3, <1>9 DEF Complete, Last
  <2>2. CASE l > 2
    <3>1. atoms[k] = ESC /\ k >= 1
      <4> HIDE DEF q, r, l
      <4> QED BY <1>4, <1>6, <1>7, <2>1, <2>2
    <3> QED BY <3>1 DEF Clear
  <2>3. CASE l = 2
    <3> HIDE DEF q, r, l
    <3>1. k >= 2 /\ atoms[k] = Bracket
      BY <1>4, <1>6, <1>7, <2>1, <2>3
    <3>2. atoms[k - 1] = ESC
      <4>1. 1 \in 1..l /\ Len(q) + 1 = k - 1 /\ k - 1 \in 1..k
        BY <1>4, <1>6, <2>3, <3>1
      <4>2. (q \o r)[Len(q) + 1] = r[1]
        BY <4>1, <1>6
      <4>3. (q \o r)[k - 1] = atoms[k - 1]
        BY <4>1, <1>3, <1>5
      <4> QED BY <4>1, <4>2, <4>3, <1>3
    <3> QED BY <3>1, <3>2 DEF Clear
  <2> HIDE DEF q, r, l
  <2> QED BY <1>4, <1>9, <2>2, <2>3
<1> HIDE DEF q, r, l
<1> QED BY <1>4, <1>8, <1>9

\* A mark cut after its ESC or its "[" is kept for the rest.
LEMMA ExtractKeeps ==
    ASSUME NEW S, NEW atoms \in Seq(S), NEW k \in 0..Len(atoms), Clear(atoms, k),
           Len(atoms) = k \/ (Len(atoms) = k + 1 /\ atoms[k + 1] = ESC)
             \/ (Len(atoms) = k + 2 /\ atoms[k + 1] = ESC /\ atoms[k + 2] = Bracket)
    PROVE  /\ Len(Extract(atoms).rest) = Len(atoms) - k
           /\ Len(FlattenSeq(Extract(atoms).keys)) = k
<1>1. PICK f \in [0..Len(atoms) -> States(S)] :
          IsSplit(atoms, f) /\ Extract(atoms) = f[Len(atoms)]
  BY SplitRun
<1> DEFINE K == Len(atoms)
<1>2. f[k].rest = <<>>
  BY <1>1, KeyBegins
<1>3. K \in Nat /\ k \in Nat
  OBVIOUS
<1>4. ASSUME K \in {k + 1, k + 2}, atoms[k + 1] = ESC PROVE f[k + 1].rest = <<ESC>>
  <2>1. k + 1 \in 1..K /\ (k + 1) - 1 = k
    <3> HIDE DEF K
    <3> QED BY <1>3, <1>4
  <2>2. f[k + 1] = SplitStep(f[k], ESC)
    BY <2>1, <1>1, <1>4 DEF IsSplit
  <2>3. Append(<<>>, ESC) = <<ESC>> /\ <<ESC>>[1] = ESC /\ Len(<<ESC>>) = 1
    OBVIOUS
  <2>4. ~Complete(<<ESC>>)
    BY <2>3 DEF Complete
  <2> QED BY <2>2, <2>3, <2>4, <1>2 DEF SplitStep
<1>5. ASSUME K = k + 2, atoms[k + 1] = ESC, atoms[k + 2] = Bracket
      PROVE  Len(f[k + 2].rest) = 2
  <2>1. k + 2 \in 1..K /\ (k + 2) - 1 = k + 1
    <3> HIDE DEF K
    <3> QED BY <1>3, <1>5
  <2>2. f[k + 2] = SplitStep(f[k + 1], Bracket)
    BY <2>1, <1>1, <1>5 DEF IsSplit
  <2> DEFINE r == Append(<<ESC>>, Bracket)
  <2>3. Len(r) = 2 /\ r[1] = ESC /\ r[2] = Bracket
    <3>1. <<ESC>> \in Seq({ESC, Bracket}) /\ Len(<<ESC>>) = 1 /\ <<ESC>>[1] = ESC
      OBVIOUS
    <3>2. /\ Len(r) = Len(<<ESC>>) + 1 /\ r[Len(<<ESC>>) + 1] = Bracket
          /\ \A i \in 1..Len(<<ESC>>) : r[i] = <<ESC>>[i]
      BY <3>1, AppendProperties
    <3> HIDE DEF r
    <3> QED BY <3>1, <3>2
  <2> HIDE DEF r
  <2>4. ~Complete(r)
    BY <2>3 DEF Complete
  <2>5. f[k + 1].rest = <<ESC>>
    BY <1>4, <1>5
  <2>6. f[k + 2].rest = r
    BY <2>2, <2>3, <2>4, <2>5 DEF SplitStep, r
  <2> QED BY <2>3, <2>6
<1>6. Len(f[K].rest) = K - k
  <2>1. CASE K = k
    BY <2>1, <1>2, <1>3
  <2>2. CASE K = k + 1
    <3>1. f[k + 1].rest = <<ESC>>
      BY <1>3, <1>4, <2>2
    <3>2. f[K].rest = <<ESC>>
      BY <3>1, <2>2
    <3> HIDE DEF K
    <3> QED BY <3>2, <1>3, <2>2
  <2>3. CASE K = k + 2
    <3>1. Len(f[k + 2].rest) = 2
      BY <1>3, <1>5, <2>3
    <3>2. Len(f[K].rest) = 2
      BY <3>1, <2>3
    <3> HIDE DEF K
    <3> QED BY <3>2, <1>3, <2>3
  <2> QED BY <2>1, <2>2, <2>3
<1>7. Len(FlattenSeq(Extract(atoms).keys)) + Len(Extract(atoms).rest) = K
  <2> DEFINE e == Extract(atoms)  q == FlattenSeq(e.keys)  r == e.rest
  <2>1. e.keys \in Seq(Seq(S)) /\ r \in Seq(S) /\ q \o r = atoms
    BY ExtractType
  <2>2. q \in Seq(S)
    BY <2>1, FlatType
  <2>3. Len(q \o r) = Len(q) + Len(r)
    <3> HIDE DEF q, r
    <3> QED BY <2>1, <2>2
  <2> QED BY <2>1, <2>3
<1>8. Len(FlattenSeq(Extract(atoms).keys)) \in Nat
  <2>1. Extract(atoms).keys \in Seq(Seq(S))
    BY ExtractType
  <2>2. FlattenSeq(Extract(atoms).keys) \in Seq(S)
    BY <2>1, FlatType
  <2> QED BY <2>2
<1> DEFINE a == Len(FlattenSeq(Extract(atoms).keys))  b == Len(Extract(atoms).rest)
<1>9. b = K - k
  BY <1>1, <1>6
<1> HIDE DEF a, b, K
<1>10. a = k
  BY <1>3, <1>7, <1>8, <1>9 DEF a, b
<1> QED BY <1>9, <1>10 DEF a, b, K

-----------------------------------------------------------------------------
(* Marks.                                                                    *)
Atoms == {ESC, Bracket, PasteOn, PasteOff} \cup UNION {Range(s) : s \in Inputs}

LEMMA ConcatAssoc ==
    ASSUME NEW S, NEW a \in Seq(S), NEW b \in Seq(S), NEW c \in Seq(S)
    PROVE  a \o (b \o c) = (a \o b) \o c
  OBVIOUS

LEMMA InputType ==
    ASSUME NEW s \in Inputs
    PROVE  s \in Seq(Atoms)
<1>1. s \in Seq(Range(s))
  BY InputsAssumption
<1>2. Range(s) \subseteq Atoms
  BY DEF Atoms
<1> QED BY <1>1, <1>2, SeqMonotonic

\* What is left after n atoms.
LEMMA AfterFacts ==
    ASSUME NEW S, NEW s \in Seq(S), NEW n \in 0..Len(s)
    PROVE  /\ After(s, n) \in Seq(S) /\ Len(After(s, n)) = Len(s) - n
           /\ \A i \in 1..(Len(s) - n) : After(s, n)[i] = s[n + i]
           /\ SubSeq(s, 1, n) \in Seq(S) /\ Len(SubSeq(s, 1, n)) = n
           /\ \A i \in 1..n : SubSeq(s, 1, n)[i] = s[i]
           /\ SubSeq(s, 1, n) \o After(s, n) = s
<1> DEFINE L == Len(s)
           a == After(s, n)
           p == SubSeq(s, 1, n)
<1>1. L \in Nat /\ n \in Nat /\ n <= L /\ \A i \in 1..L : s[i] \in S
  BY ElementOfSeq
<1>2. /\ a \in Seq(S) /\ Len(a) = (IF n + 1 <= L THEN L - (n + 1) + 1 ELSE 0)
      /\ \A i \in 1..(L - (n + 1) + 1) : a[i] = s[(n + 1) + i - 1]
  <2>1. \A i \in (n + 1)..L : s[i] \in S
    <3> HIDE DEF L
    <3> QED BY <1>1
  <2> QED BY <2>1, <1>1, SubSeqProperties DEF After
<1>3. p \in Seq(S) /\ Len(p) = (IF 1 <= n THEN n - 1 + 1 ELSE 0)
      /\ \A i \in 1..(n - 1 + 1) : p[i] = s[1 + i - 1]
  <2>1. \A i \in 1..n : s[i] \in S
    <3> HIDE DEF L
    <3> QED BY <1>1
  <2> QED BY <2>1, <1>1, SubSeqProperties
<1>4. Len(a) = L - n /\ (\A i \in 1..(L - n) : a[i] = s[n + i])
      /\ Len(p) = n /\ (\A i \in 1..n : p[i] = s[i])
  <2> HIDE DEF L, a, p
  <2>1. Len(a) = L - n /\ Len(p) = n
    BY <1>1, <1>2, <1>3
  <2>2. ASSUME NEW i \in 1..(L - n) PROVE a[i] = s[n + i]
    <3>1. i \in 1..(L - (n + 1) + 1) /\ (n + 1) + i - 1 = n + i
      BY <1>1
    <3> QED BY <3>1, <1>2
  <2>3. ASSUME NEW i \in 1..n PROVE p[i] = s[i]
    <3>1. i \in 1..(n - 1 + 1) /\ 1 + i - 1 = i
      BY <1>1
    <3> QED BY <3>1, <1>3
  <2> QED BY <2>1, <2>2, <2>3
<1>5. p \o a = s
  <2> HIDE DEF a, p
  <2>0. /\ p \o a \in Seq(S) /\ Len(p \o a) = Len(p) + Len(a)
        /\ \A i \in 1..(Len(p) + Len(a)) :
              (p \o a)[i] = IF i <= Len(p) THEN p[i] ELSE a[i - Len(p)]
    BY <1>2, <1>3, ConcatProperties
  <2>1. /\ p \o a \in Seq(S) /\ Len(p \o a) = n + (L - n)
        /\ \A i \in 1..(n + (L - n)) : (p \o a)[i] = IF i <= n THEN p[i] ELSE a[i - n]
    BY <2>0, <1>4
  <2> HIDE DEF L
  <2>2. Len(p \o a) = L
    BY <1>1, <2>1
  <2>3. ASSUME NEW i \in 1..L PROVE (p \o a)[i] = s[i]
    <3>1. i \in 1..(n + (L - n)) /\ (i <= n => i \in 1..n)
          /\ (~(i <= n) => i - n \in 1..(L - n) /\ n + (i - n) = i)
      BY <1>1
    <3>2. CASE i <= n
      BY <3>1, <3>2, <2>1, <1>4
    <3>3. CASE ~(i <= n)
      <4>1. a[i - n] = s[n + (i - n)]
        BY <3>1, <3>3, <1>4
      <4>2. a[i - n] = s[i]
        BY <3>1, <3>3, <4>1
      <4> QED BY <3>1, <3>3, <4>2, <2>1
    <3> QED BY <3>2, <3>3
  <2> QED BY <2>1, <2>2, <2>3, SeqEqual DEF L
<1> QED BY <1>2, <1>3, <1>4, <1>5

\* A mark, atom by atom.
Three(s, a, b, c, n) ==
    n \in 0..(Len(s) - 3) /\ s[n + 1] = a /\ s[n + 2] = b /\ s[n + 3] = c
LEMMA OccursIs ==
    ASSUME NEW S, NEW s \in Seq(S), NEW a, NEW b, NEW c, NEW n
    PROVE  Occurs(s, <<a, b, c>>, n) <=> Three(s, a, b, c, n)
<1> DEFINE L == Len(s)
           mark == <<a, b, c>>
           sub == SubSeq(s, n + 1, n + 3)
<1>1. L \in Nat /\ Len(mark) = 3 /\ mark[1] = a /\ mark[2] = b /\ mark[3] = c
      /\ \A i \in 1..L : s[i] \in S
  BY ElementOfSeq
<1>2. ASSUME n \in 0..(L - 3)
      PROVE  /\ Len(sub) = 3 /\ sub[1] = s[n + 1] /\ sub[2] = s[n + 2] /\ sub[3] = s[n + 3]
             /\ sub \in Seq(S)
  <2>1. n + 1 \in Int /\ n + 3 \in Int /\ \A i \in (n + 1)..(n + 3) : s[i] \in S
    <3> HIDE DEF L
    <3> QED BY <1>1, <1>2
  <2>2. /\ sub \in Seq(S)
        /\ Len(sub) = (IF n + 1 <= n + 3 THEN (n + 3) - (n + 1) + 1 ELSE 0)
        /\ \A i \in 1..((n + 3) - (n + 1) + 1) : sub[i] = s[(n + 1) + i - 1]
    BY <2>1, SubSeqProperties
  <2>3. (n + 3) - (n + 1) + 1 = 3 /\ n + 1 <= n + 3 /\ n \in Int
    BY <1>1, <1>2
  <2>4. Len(sub) = 3 /\ \A i \in 1..3 : sub[i] = s[(n + 1) + i - 1]
    <3> HIDE DEF sub
    <3> QED BY <2>2, <2>3
  <2>5. (n + 1) + 1 - 1 = n + 1 /\ (n + 1) + 2 - 1 = n + 2 /\ (n + 1) + 3 - 1 = n + 3
    BY <2>3
  <2> HIDE DEF sub
  <2>6. /\ sub[1] = s[(n + 1) + 1 - 1] /\ sub[2] = s[(n + 1) + 2 - 1]
        /\ sub[3] = s[(n + 1) + 3 - 1]
    BY <2>4
  <2>7. sub[1] = s[n + 1] /\ sub[2] = s[n + 2] /\ sub[3] = s[n + 3]
    BY <2>5, <2>6
  <2> QED BY <2>2, <2>4, <2>7
<1>3. ASSUME n \in 0..(L - 3), s[n + 1] = a, s[n + 2] = b, s[n + 3] = c PROVE sub = mark
  <2>1. a \in S /\ b \in S /\ c \in S
    <3>1. n + 1 \in 1..L /\ n + 2 \in 1..L /\ n + 3 \in 1..L
      <4> HIDE DEF L
      <4> QED BY <1>1, <1>3
    <3> HIDE DEF L
    <3> QED BY <1>1, <1>3, <3>1
  <2>2. mark \in Seq(S)
    BY <2>1
  <2>3. \A i \in 1..3 : sub[i] = mark[i]
    <3> HIDE DEF sub, mark
    <3> QED BY <1>1, <1>2, <1>3
  <2> HIDE DEF sub, mark
  <2> QED BY <1>1, <1>2, <1>3, <2>2, <2>3, SeqEqual
<1>4. ASSUME n \in 0..(L - 3), sub = mark
      PROVE  s[n + 1] = a /\ s[n + 2] = b /\ s[n + 3] = c
  <2> HIDE DEF sub, mark
  <2> QED BY <1>1, <1>2, <1>4
<1>5. Occurs(s, mark, n) <=> n \in 0..(L - 3) /\ sub = mark
  BY DEF Occurs
<1> HIDE DEF sub, mark
<1> QED BY <1>3, <1>4, <1>5 DEF Three, mark

\* str.find.
LEMMA FindFacts ==
    ASSUME NEW s, NEW mark, Len(s) \in Nat, Len(mark) \in Nat
    PROVE  /\ Find(s, mark) = None <=> \A n : ~Occurs(s, mark, n)
           /\ Find(s, mark) # None =>
                 /\ Find(s, mark) \in Nat /\ Occurs(s, mark, Find(s, mark))
                 /\ \A n : Occurs(s, mark, n) => Find(s, mark) <= n
<1> DEFINE places == {n \in 0..Len(s) : Occurs(s, mark, n)}
<1>1. \A n : Occurs(s, mark, n) => n \in places
  BY DEF Occurs
<1>2. places \in SUBSET Nat
  OBVIOUS
<1>3. CASE places = {}
  <2>1. Find(s, mark) = None
    BY <1>3 DEF Find
  <2> QED BY <2>1, <1>1, <1>3
<1>4. CASE places # {}
  <2>1. Find(s, mark) = CHOOSE n \in places : \A m \in places : n <= m
    BY <1>4 DEF Find
  <2>2. \E n \in places : \A m \in places : n <= m
    <3> HIDE DEF places
    <3> QED BY <1>2, <1>4, LeastOf
  <2>3. Find(s, mark) \in places /\ \A m \in places : Find(s, mark) <= m
    <3> HIDE DEF places
    <3> QED BY <2>1, <2>2, Zenon
  <2>4. Find(s, mark) # None
    BY <2>3, NoneAssumption
  <2> QED BY <2>3, <2>4, <1>1
<1> QED BY <1>3, <1>4

-----------------------------------------------------------------------------
(* Everything that was sent is somewhere: delivered, in the hands of one of  *)
(* the threads, in the buffer or unread.                                     *)
Event == [kind : {"key", "echo", "paste"}, data : Seq(Atoms)]
Readers == [at : {"idle", "paste", "again", "split", "assign", "emit", "before"},
            keys : Seq(Seq(Atoms)), rest : Seq(Atoms)]
Flushers == [at : {"none", "fired", "cancelled", "took", "over"}, keys : Seq(Atoms)]
Took(t) == flusher[t].at = "took"
Busy(t) == flusher[t].at \in {"fired", "cancelled", "took"}
InputTypes ==
    /\ sent \in Inputs /\ sent \in Seq(Atoms) /\ unread \in Seq(Atoms)
    /\ buffer \in Seq(Atoms) /\ pasteBuffer \in Seq(Atoms)
    /\ pasteMode \in BOOLEAN /\ tornMark \in BOOLEAN /\ raced \in BOOLEAN
    /\ out \in Seq(Event)
    /\ reader \in Readers /\ (~ReaderBusy => reader = Reading)
    /\ flusher \in [Timers -> Flushers]
    /\ \A t \in Timers : flusher[t].keys # <<>> => Took(t)

\* Unless two threads have overlapped there is one at a time, and who reads knows the mode.
AloneInv ==
    ~raced =>
       /\ \A t \in Timers : Busy(t) => ~ReaderBusy /\ ~readTimer /\ ~pasteMode
       /\ \A t, u \in Timers : Busy(t) /\ Busy(u) => t = u
       /\ \A t \in Timers : Took(t) => buffer = <<>>
       /\ ReaderBusy => ~readTimer
       /\ pasteMode => buffer = <<>> /\ ~readTimer /\ reader.at \in {"idle", "paste"}
       /\ reader.at = "paste" => pasteMode
       /\ reader.at = "again" => buffer = <<>>

Emits(events) == FlattenSeq([i \in DOMAIN events |-> Bytes(events[i])])
Emitted == Emits(out)
Sums(middle) == sent = Emitted \o (middle \o unread)
Keys == FlattenSeq(reader.keys)
Whole ==
    /\ ~ReaderBusy /\ (\A t \in Timers : ~Took(t)) =>
          Sums(IF pasteMode THEN PasteStart \o pasteBuffer ELSE buffer)
    /\ \A t \in Timers : Took(t) => Sums(flusher[t].keys)
    /\ reader.at = "paste" => Sums(PasteStart \o pasteBuffer)
    /\ reader.at = "again" => Sums(reader.rest)
    /\ reader.at = "split" => Sums(buffer)
    /\ reader.at = "assign" => Sums(Keys \o reader.rest)
    /\ reader.at = "emit" => Sums(Keys \o buffer)
    /\ reader.at = "before" =>
          /\ Find(buffer, PasteStart) # None
          /\ Sums(Keys \o After(buffer, Find(buffer, PasteStart)))
WholeInv == ~raced /\ ~EscapeBeforePaste => Whole

\* A paste that began in what was delivered has ended there; and none begins in the
\* keys that are on their way.
PasteBegins(s, n) == Three(s, ESC, Bracket, PasteOn, n)
PasteEnds(s, n) == Three(s, ESC, Bracket, PasteOff, n)
Ended(s, c) ==
    \A n \in Nat : n < c /\ PasteBegins(s, n) =>
        \E m \in Nat : n + 3 <= m /\ m + 3 <= c /\ PasteEnds(s, m)
NoneBegins(s, c, d) == \A n \in Nat : c <= n /\ n < d => ~PasteBegins(s, n)
MarksAhead(key) == NoneBegins(sent, Len(Emitted), Len(Emitted) + Len(key))
Unmarked(s) == \A n : ~Occurs(s, PasteStart, n)
Marks ==
    /\ Ended(sent, Len(Emitted))
    /\ \A t \in Timers : Took(t) => MarksAhead(flusher[t].keys)
    /\ reader.at \in {"assign", "emit", "before"} => MarksAhead(Keys)
    /\ reader.at \in {"idle", "emit"} /\ ~pasteMode => Unmarked(buffer)
    /\ reader.at = "assign" => Unmarked(reader.rest)
    /\ \A i \in DOMAIN out : out[i].kind = "key" => ~Contains(out[i].data, Pasted)
MarksInv == ~raced /\ ~EscapeBeforePaste /\ ~tornMark => Marks
InputInv == InputTypes /\ AloneInv /\ WholeInv /\ MarksInv

LEMMA MarkType ==
    /\ PasteStart \in Seq(Atoms) /\ Len(PasteStart) = 3
    /\ PasteStart[1] = ESC /\ PasteStart[2] = Bracket /\ PasteStart[3] = PasteOn
    /\ PasteEnd \in Seq(Atoms) /\ Len(PasteEnd) = 3
    /\ PasteEnd[1] = ESC /\ PasteEnd[2] = Bracket /\ PasteEnd[3] = PasteOff
<1>1. ESC \in Atoms /\ Bracket \in Atoms /\ PasteOn \in Atoms /\ PasteOff \in Atoms
  BY DEF Atoms
<1> QED BY <1>1 DEF PasteStart, PasteEnd

LEMMA StartOccurs ==
    ASSUME NEW S, NEW s \in Seq(S), NEW n
    PROVE  Occurs(s, PasteStart, n) <=> PasteBegins(s, n)
  BY OccursIs DEF PasteStart, PasteBegins
LEMMA EndOccurs ==
    ASSUME NEW S, NEW s \in Seq(S), NEW n
    PROVE  Occurs(s, PasteEnd, n) <=> PasteEnds(s, n)
  BY OccursIs DEF PasteEnd, PasteEnds

\* Where the members of three sequences are in the whole.
LEMMA ThreePlaces ==
    ASSUME NEW S, NEW e \in Seq(S), NEW m \in Seq(S), NEW u \in Seq(S)
    PROVE  /\ e \o (m \o u) \in Seq(S)
           /\ Len(e \o (m \o u)) = Len(e) + Len(m) + Len(u)
           /\ \A i \in 1..Len(e) : (e \o (m \o u))[i] = e[i]
           /\ \A i \in 1..Len(m) : (e \o (m \o u))[Len(e) + i] = m[i]
           /\ \A i \in 1..Len(u) : (e \o (m \o u))[Len(e) + Len(m) + i] = u[i]
  OBVIOUS

\* No key that a mark follows is unfinished.
Undisturbed(s) ==
    \A key \in {<<ESC>>, <<ESC, Bracket>>}, n \in 0..Len(s) : ~Occurs(s, key \o PasteStart, n)
LEMMA MarkClear ==
    ASSUME NEW s \in Seq(Atoms), Undisturbed(s), NEW n \in Nat, PasteBegins(s, n)
    PROVE  Clear(s, n)
<1> DEFINE L == Len(s)
<1>1. /\ L \in Nat /\ n + 3 <= L /\ s[n + 1] = ESC /\ s[n + 2] = Bracket /\ s[n + 3] = PasteOn
      /\ \A i \in 1..L : s[i] \in Atoms
  <2>1. L \in Nat /\ \A i \in 1..L : s[i] \in Atoms
    BY ElementOfSeq
  <2>2. n \in 0..(L - 3) /\ s[n + 1] = ESC /\ s[n + 2] = Bracket /\ s[n + 3] = PasteOn
    BY DEF PasteBegins, Three
  <2> HIDE DEF L
  <2> QED BY <2>1, <2>2
<1>2. ASSUME n >= 1, s[n] = ESC PROVE FALSE
  <2> DEFINE key == <<ESC>>
             mark == key \o PasteStart
             sub == SubSeq(s, (n - 1) + 1, (n - 1) + 4)
  <2>1. mark \in Seq(Atoms) /\ Len(mark) = 4 /\ mark[1] = ESC /\ mark[2] = ESC
        /\ mark[3] = Bracket /\ mark[4] = PasteOn
    <3>1. key \in Seq(Atoms) /\ Len(key) = 1 /\ key[1] = ESC
      BY DEF Atoms
    <3>2. Len(mark) = 4 /\ mark \in Seq(Atoms)
          /\ \A i \in 1..4 : mark[i] = IF i <= 1 THEN key[i] ELSE PasteStart[i - 1]
      <4> HIDE DEF key
      <4>1. /\ mark \in Seq(Atoms) /\ Len(mark) = Len(key) + Len(PasteStart)
            /\ \A i \in 1..(Len(key) + Len(PasteStart)) :
                 mark[i] = IF i <= Len(key) THEN key[i] ELSE PasteStart[i - Len(key)]
        BY <3>1, MarkType, ConcatProperties
      <4> QED BY <4>1, <3>1, MarkType
    <3>3. mark[1] = key[1] /\ mark[2] = PasteStart[2 - 1] /\ mark[3] = PasteStart[3 - 1]
          /\ mark[4] = PasteStart[4 - 1]
      <4> HIDE DEF mark, key
      <4> QED BY <3>2
    <3> HIDE DEF mark, key
    <3> QED BY <3>1, <3>2, <3>3, MarkType
  <2>2. sub \in Seq(Atoms) /\ Len(sub) = 4 /\ sub[1] = s[n] /\ sub[2] = s[n + 1]
        /\ sub[3] = s[n + 2] /\ sub[4] = s[n + 3]
    <3>1. /\ (n - 1) + 1 \in Int /\ (n - 1) + 4 \in Int
          /\ \A i \in ((n - 1) + 1)..((n - 1) + 4) : s[i] \in Atoms
      <4> HIDE DEF L
      <4> QED BY <1>1, <1>2
    <3>2. /\ sub \in Seq(Atoms)
          /\ Len(sub) = (IF (n - 1) + 1 <= (n - 1) + 4 THEN ((n - 1) + 4) - ((n - 1) + 1) + 1 ELSE 0)
          /\ \A i \in 1..(((n - 1) + 4) - ((n - 1) + 1) + 1) : sub[i] = s[((n - 1) + 1) + i - 1]
      BY <3>1, SubSeqProperties
    <3> HIDE DEF sub
    <3>3. Len(sub) = 4 /\ \A i \in 1..4 : sub[i] = s[((n - 1) + 1) + i - 1]
      BY <3>2, <1>2
    <3>4. /\ ((n - 1) + 1) + 1 - 1 = n /\ ((n - 1) + 1) + 2 - 1 = n + 1
          /\ ((n - 1) + 1) + 3 - 1 = n + 2 /\ ((n - 1) + 1) + 4 - 1 = n + 3
      OBVIOUS
    <3>5. /\ sub[1] = s[((n - 1) + 1) + 1 - 1] /\ sub[2] = s[((n - 1) + 1) + 2 - 1]
          /\ sub[3] = s[((n - 1) + 1) + 3 - 1] /\ sub[4] = s[((n - 1) + 1) + 4 - 1]
      BY <3>3
    <3>6. sub[1] = s[n] /\ sub[2] = s[n + 1] /\ sub[3] = s[n + 2] /\ sub[4] = s[n + 3]
      BY <3>4, <3>5
    <3> QED BY <3>2, <3>3, <3>6
  <2>3. sub = mark
    <3> HIDE DEF sub, mark
    <3>1. \A i \in 1..4 : sub[i] = mark[i]
      BY <1>1, <1>2, <2>1, <2>2
    <3> QED BY <2>1, <2>2, <3>1, SeqEqual
  <2>4. n - 1 \in 0..(L - 4) /\ n - 1 \in 0..L
    <3> HIDE DEF L
    <3> QED BY <1>1, <1>2
  <2>5. Occurs(s, mark, n - 1)
    <3> HIDE DEF mark
    <3> QED BY <2>1, <2>3, <2>4 DEF Occurs
  <2> QED BY <2>4, <2>5 DEF Undisturbed
<1>3. ASSUME n >= 2, s[n - 1] = ESC, s[n] = Bracket PROVE FALSE
  <2> DEFINE key == <<ESC, Bracket>>
             mark == key \o PasteStart
             sub == SubSeq(s, (n - 2) + 1, (n - 2) + 5)
  <2>1. mark \in Seq(Atoms) /\ Len(mark) = 5 /\ mark[1] = ESC /\ mark[2] = Bracket
        /\ mark[3] = ESC /\ mark[4] = Bracket /\ mark[5] = PasteOn
    <3>1. key \in Seq(Atoms) /\ Len(key) = 2 /\ key[1] = ESC /\ key[2] = Bracket
      BY DEF Atoms
    <3>2. Len(mark) = 5 /\ mark \in Seq(Atoms)
          /\ \A i \in 1..5 : mark[i] = IF i <= 2 THEN key[i] ELSE PasteStart[i - 2]
      <4> HIDE DEF key
      <4>1. /\ mark \in Seq(Atoms) /\ Len(mark) = Len(key) + Len(PasteStart)
            /\ \A i \in 1..(Len(key) + Len(PasteStart)) :
                 mark[i] = IF i <= Len(key) THEN key[i] ELSE PasteStart[i - Len(key)]
        BY <3>1, MarkType, ConcatProperties
      <4> QED BY <4>1, <3>1, MarkType
    <3>3. mark[1] = key[1] /\ mark[2] = key[2] /\ mark[3] = PasteStart[3 - 2]
          /\ mark[4] = PasteStart[4 - 2] /\ mark[5] = PasteStart[5 - 2]
      <4> HIDE DEF mark, key
      <4> QED BY <3>2
    <3> HIDE DEF mark, key
    <3> QED BY <3>1, <3>2, <3>3, MarkType
  <2>2. sub \in Seq(Atoms) /\ Len(sub) = 5 /\ sub[1] = s[n - 1] /\ sub[2] = s[n]
        /\ sub[3] = s[n + 1] /\ sub[4] = s[n + 2] /\ sub[5] = s[n + 3]
    <3>1. /\ (n - 2) + 1 \in Int /\ (n - 2) + 5 \in Int
          /\ \A i \in ((n - 2) + 1)..((n - 2) + 5) : s[i] \in Atoms
      <4> HIDE DEF L
      <4> QED BY <1>1, <1>3
    <3>2. /\ sub \in Seq(Atoms)
          /\ Len(sub) = (IF (n - 2) + 1 <= (n - 2) + 5 THEN ((n - 2) + 5) - ((n - 2) + 1) + 1 ELSE 0)
          /\ \A i \in 1..(((n - 2) + 5) - ((n - 2) + 1) + 1) : sub[i] = s[((n - 2) + 1) + i - 1]
      BY <3>1, SubSeqProperties
    <3> HIDE DEF sub
    <3>0. ((n - 2) + 5) - ((n - 2) + 1) + 1 = 5 /\ (n - 2) + 1 <= (n - 2) + 5
      OBVIOUS
    <3>3. Len(sub) = 5 /\ \A i \in 1..5 : sub[i] = s[((n - 2) + 1) + i - 1]
      BY <3>2, <3>0
    <3>4. /\ ((n - 2) + 1) + 1 - 1 = n - 1 /\ ((n - 2) + 1) + 2 - 1 = n
          /\ ((n - 2) + 1) + 3 - 1 = n + 1 /\ ((n - 2) + 1) + 4 - 1 = n + 2
          /\ ((n - 2) + 1) + 5 - 1 = n + 3
      OBVIOUS
    <3>5. /\ sub[1] = s[((n - 2) + 1) + 1 - 1] /\ sub[2] = s[((n - 2) + 1) + 2 - 1]
          /\ sub[3] = s[((n - 2) + 1) + 3 - 1] /\ sub[4] = s[((n - 2) + 1) + 4 - 1]
          /\ sub[5] = s[((n - 2) + 1) + 5 - 1]
      BY <3>3
    <3>6. /\ sub[1] = s[n - 1] /\ sub[2] = s[n] /\ sub[3] = s[n + 1] /\ sub[4] = s[n + 2]
          /\ sub[5] = s[n + 3]
      BY <3>4, <3>5
    <3> QED BY <3>2, <3>3, <3>6
  <2>3. sub = mark
    <3> HIDE DEF sub, mark
    <3>1. \A i \in 1..5 : sub[i] = mark[i]
      BY <1>1, <1>3, <2>1, <2>2
    <3> QED BY <2>1, <2>2, <3>1, SeqEqual
  <2>4. n - 2 \in 0..(L - 5) /\ n - 2 \in 0..L
    <3> HIDE DEF L
    <3> QED BY <1>1, <1>3
  <2>5. Occurs(s, mark, n - 2)
    <3> HIDE DEF mark
    <3> QED BY <2>1, <2>3, <2>4 DEF Occurs
  <2> QED BY <2>4, <2>5 DEF Undisturbed
<1> QED BY <1>2, <1>3 DEF Clear

-----------------------------------------------------------------------------
(* The whole of the input is e, what was delivered, b, what a thread has, and *)
(* u, what is unread.                                                         *)

\* A mark in the middle is a mark of the whole.
LEMMA ThreeAt ==
    ASSUME NEW S, NEW e \in Seq(S), NEW b \in Seq(S), NEW u \in Seq(S),
           NEW j \in Nat, j + 3 <= Len(b), NEW x, NEW y, NEW z
    PROVE  Three(e \o (b \o u), x, y, z, Len(e) + j) <=> Three(b, x, y, z, j)
<1> DEFINE s == e \o (b \o u)
           c == Len(e)
           L == Len(b)
           U == Len(u)
<1>1. c \in Nat /\ L \in Nat /\ U \in Nat
  OBVIOUS
<1>2. Len(s) = c + L + U /\ \A i \in 1..L : s[c + i] = b[i]
  BY ThreePlaces
<1> HIDE DEF s, c, L, U
<1>3. /\ j + 1 \in 1..L /\ j + 2 \in 1..L /\ j + 3 \in 1..L /\ j \in 0..(L - 3)
      /\ c + j \in 0..((c + L + U) - 3)
      /\ c + (j + 1) = (c + j) + 1 /\ c + (j + 2) = (c + j) + 2 /\ c + (j + 3) = (c + j) + 3
  <2>1. j + 3 <= L
    BY DEF L
  <2> QED BY <1>1, <2>1
<1>4. s[(c + j) + 1] = b[j + 1] /\ s[(c + j) + 2] = b[j + 2] /\ s[(c + j) + 3] = b[j + 3]
  <2>1. s[c + (j + 1)] = b[j + 1] /\ s[c + (j + 2)] = b[j + 2] /\ s[c + (j + 3)] = b[j + 3]
    BY <1>2, <1>3, Zenon
  <2> QED BY <2>1, <1>3
<1>5. c + j \in 0..(Len(s) - 3)
  BY <1>2, <1>3
<1> QED BY <1>3, <1>4, <1>5 DEF Three, s, c, L

\* No mark begins in a sequence without one, but for one whose ESC, or ESC "[", it ends in.
LEMMA MarkAcross ==
    ASSUME NEW e \in Seq(Atoms), NEW b \in Seq(Atoms), NEW u \in Seq(Atoms),
           Unmarked(b), NEW n \in Nat, Len(e) <= n, n < Len(e) + Len(b),
           PasteBegins(e \o (b \o u), n)
    PROVE  \E j \in 0..Len(b) :
              /\ n = Len(e) + j /\ b[j + 1] = ESC
              /\ Len(b) = j + 1 \/ (Len(b) = j + 2 /\ b[j + 2] = Bracket)
<1> DEFINE s == e \o (b \o u)
           c == Len(e)
           L == Len(b)
           U == Len(u)
           j == n - c
<1>1. c \in Nat /\ L \in Nat /\ U \in Nat
  OBVIOUS
<1>2. Len(s) = c + L + U /\ \A i \in 1..L : s[c + i] = b[i]
  BY ThreePlaces
<1>3. s[n + 1] = ESC /\ s[n + 2] = Bracket
  BY DEF PasteBegins, Three
<1>4. c <= n /\ n < c + L
  OBVIOUS
<1>5. ~(j \in Nat /\ j + 3 <= L)
  <2> SUFFICES ASSUME j \in Nat, j + 3 <= L PROVE FALSE
    OBVIOUS
  <2>1. n = Len(e) + j
    BY <1>1
  <2> HIDE DEF j
  <2>2. Three(s, ESC, Bracket, PasteOn, Len(e) + j)
    BY <2>1 DEF PasteBegins
  <2>3. Three(b, ESC, Bracket, PasteOn, j)
    <3> HIDE DEF c
    <3> QED BY <2>2, ThreeAt
  <2>4. Occurs(b, PasteStart, j)
    BY <2>3, StartOccurs DEF PasteBegins
  <2> QED BY <2>4 DEF Unmarked
<1> HIDE DEF s, c, L, U
<1>6. j \in Nat /\ n = c + j /\ j + 1 \in 1..L /\ j \in 0..L /\ n + 1 = c + (j + 1)
      /\ (L = j + 1 \/ L = j + 2)
  BY <1>1, <1>4, <1>5
<1>7. b[j + 1] = ESC
  BY <1>2, <1>3, <1>6
<1>8. ASSUME L = j + 2 PROVE b[j + 2] = Bracket
  <2>1. j + 2 \in 1..L /\ n + 2 = c + (j + 2)
    BY <1>1, <1>6, <1>8
  <2> QED BY <1>2, <1>3, <2>1
<1> QED BY <1>6, <1>7, <1>8 DEF c, L

\* Keys are split off up to a mark, and no further.
LEMMA ClearInside ==
    ASSUME NEW e \in Seq(Atoms), NEW b \in Seq(Atoms), NEW u \in Seq(Atoms),
           Undisturbed(e \o (b \o u)), NEW j \in 0..Len(b),
           PasteBegins(e \o (b \o u), Len(e) + j)
    PROVE  Clear(b, j)
<1> DEFINE s == e \o (b \o u)
           c == Len(e)
           L == Len(b)
<1>1. c \in Nat /\ L \in Nat /\ j \in 0..L
  OBVIOUS
<1>2. s \in Seq(Atoms) /\ \A i \in 1..L : s[c + i] = b[i]
  BY ThreePlaces
<1>3. Clear(s, c + j)
  <2>1. c + j \in Nat
    BY <1>1
  <2>2. PasteBegins(s, c + j) /\ Undisturbed(s)
    OBVIOUS
  <2> HIDE DEF s, c
  <2> QED BY <1>2, <2>1, <2>2, MarkClear
<1> HIDE DEF s, c, L
<1>4. ASSUME j >= 1 PROVE b[j] # ESC
  <2>1. j \in 1..L /\ c + j >= 1
    BY <1>1, <1>4
  <2> QED BY <2>1, <1>2, <1>3 DEF Clear
<1>5. ASSUME j >= 2 PROVE ~(b[j - 1] = ESC /\ b[j] = Bracket)
  <2>1. j \in 1..L /\ j - 1 \in 1..L /\ c + j >= 2 /\ c + (j - 1) = (c + j) - 1
    BY <1>1, <1>5
  <2> QED BY <2>1, <1>2, <1>3 DEF Clear
<1> QED BY <1>4, <1>5 DEF Clear

LEMMA SplitAhead ==
    ASSUME NEW e \in Seq(Atoms), NEW b \in Seq(Atoms), NEW u \in Seq(Atoms),
           Undisturbed(e \o (b \o u)), Unmarked(b)
    PROVE  /\ NoneBegins(e \o (b \o u), Len(e),
                         Len(e) + Len(FlattenSeq(Extract(b).keys)))
           /\ Unmarked(Extract(b).rest)
<1> DEFINE s == e \o (b \o u)
           q == FlattenSeq(Extract(b).keys)
           r == Extract(b).rest
           L == Len(b)
<1>1. q \in Seq(Atoms) /\ r \in Seq(Atoms) /\ q \o r = b
  BY ExtractType, FlatType
<1>2. Len(q) \in Nat /\ Len(q) <= L /\ Len(e) \in Nat /\ L \in Nat
  <2> HIDE DEF q, r
  <2>1. Len(q \o r) = Len(q) + Len(r) /\ Len(q) \in Nat /\ Len(r) \in Nat
    BY <1>1
  <2>2. Len(q) + Len(r) = L
    BY <1>1, <2>1
  <2> DEFINE x == Len(q)  y == Len(r)
  <2>3. x \in Nat /\ y \in Nat /\ x + y = L
    BY <2>1, <2>2
  <2> HIDE DEF x, y, L
  <2>4. x <= L
    BY <2>3
  <2> QED BY <2>1, <2>4 DEF x, L
<1>3. ASSUME NEW n \in Nat, Len(e) <= n, n < Len(e) + Len(q), PasteBegins(s, n)
      PROVE  FALSE
  <2>1. n < Len(e) + L
    <3> DEFINE c == Len(e)  x == Len(q)
    <3>1. c \in Nat /\ x \in Nat /\ x <= L /\ n < c + x /\ L \in Nat
      BY <1>2, <1>3
    <3> HIDE DEF c, x, L
    <3>2. n < c + L
      BY <3>1
    <3> QED BY <3>2 DEF c
  <2>2. PICK j \in 0..L :
           /\ n = Len(e) + j /\ b[j + 1] = ESC
           /\ L = j + 1 \/ (L = j + 2 /\ b[j + 2] = Bracket)
    <3> HIDE DEF q
    <3> QED BY <1>3, <2>1, MarkAcross
  <2>3. Clear(b, j)
    BY <1>3, <2>2, ClearInside
  <2>4. Len(q) = j
    <3>1. L = j \/ (L = j + 1 /\ b[j + 1] = ESC)
             \/ (L = j + 2 /\ b[j + 1] = ESC /\ b[j + 2] = Bracket)
      BY <2>2
    <3> QED BY <2>3, <3>1, ExtractKeeps
  <2> HIDE DEF q
  <2> QED BY <1>2, <1>3, <2>2, <2>4
<1>4. ASSUME NEW n, Occurs(r, PasteStart, n) PROVE FALSE
  <2>1. PasteBegins(r, n)
    <3> HIDE DEF r
    <3> QED BY <1>1, <1>4, StartOccurs
  <2>2. n \in Nat /\ n + 3 <= Len(r)
    <3>1. n \in 0..(Len(r) - 3)
      BY <2>1 DEF PasteBegins, Three
    <3>2. Len(r) \in Nat
      <4> HIDE DEF r
      <4> QED BY <1>1
    <3> HIDE DEF r
    <3> QED BY <3>1, <3>2
  <2>3. <<>> \in Seq(Atoms) /\ q \o (r \o <<>>) = b
    <3> HIDE DEF q, r
    <3> QED BY <1>1, ConcatEmptySeq
  <2>4. Three(q \o (r \o <<>>), ESC, Bracket, PasteOn, Len(q) + n)
    <3> HIDE DEF q, r
    <3> QED BY <1>1, <2>1, <2>2, <2>3, ThreeAt DEF PasteBegins
  <2>5. Occurs(b, PasteStart, Len(q) + n)
    <3> HIDE DEF q, r
    <3> QED BY <2>3, <2>4, StartOccurs DEF PasteBegins
  <2> QED BY <2>5 DEF Unmarked
<1>5. NoneBegins(s, Len(e), Len(e) + Len(q))
  <2> HIDE DEF s, q
  <2> QED BY <1>3 DEF NoneBegins
<1> HIDE DEF r
<1>6. Unmarked(r)
  BY <1>4 DEF Unmarked
<1> QED BY <1>5, <1>6 DEF r

LEMMA SplitBefore ==
    ASSUME NEW e \in Seq(Atoms), NEW b \in Seq(Atoms), NEW u \in Seq(Atoms),
           Undisturbed(e \o (b \o u)), NEW k, k = Find(b, PasteStart), k # None
    PROVE  LET some == Extract(SubSeq(b, 1, k))
           IN  /\ some.keys \in Seq(Seq(Atoms)) /\ some.rest = <<>>
               /\ FlattenSeq(some.keys) \o After(b, k) = b
               /\ NoneBegins(e \o (b \o u), Len(e), Len(e) + Len(FlattenSeq(some.keys)))
<1> DEFINE s == e \o (b \o u)
           p == SubSeq(b, 1, k)
           q == FlattenSeq(Extract(p).keys)
           r == Extract(p).rest
           L == Len(b)
<1>1. Len(b) \in Nat /\ Len(PasteStart) \in Nat /\ Len(e) \in Nat
  BY MarkType
<1>2. k \in Nat /\ Occurs(b, PasteStart, k) /\ \A n : Occurs(b, PasteStart, n) => k <= n
  BY <1>1, FindFacts
<1>3. PasteBegins(b, k) /\ k + 3 <= L /\ k \in 0..L
  <2>1. PasteBegins(b, k)
    BY <1>2, StartOccurs
  <2>2. k \in 0..(L - 3)
    BY <2>1 DEF PasteBegins, Three
  <2> HIDE DEF L
  <2>3. L \in Nat
    BY <1>1 DEF L
  <2> QED BY <2>1, <2>2, <2>3
<1>4. PasteBegins(s, Len(e) + k)
  BY <1>2, <1>3, ThreeAt DEF PasteBegins
<1>5. Clear(b, k)
  BY <1>3, <1>4, ClearInside
<1>6. p \in Seq(Atoms) /\ Len(p) = k /\ p \o After(b, k) = b /\ \A i \in 1..k : p[i] = b[i]
  BY <1>3, AfterFacts
<1>7. Clear(p, k)
  <2> HIDE DEF p
  <2>1. k >= 1 => k \in 1..k
    BY <1>2
  <2>2. k >= 2 => k - 1 \in 1..k /\ k \in 1..k
    BY <1>2
  <2> QED BY <1>5, <1>6, <2>1, <2>2 DEF Clear
<1>8. q \in Seq(Atoms) /\ r \in Seq(Atoms) /\ q \o r = p /\ Extract(p).keys \in Seq(Seq(Atoms))
  <2> HIDE DEF p
  <2> QED BY <1>6, ExtractType, FlatType
<1>9. Len(r) = k - k /\ Len(q) = k
  <2> HIDE DEF p
  <2>1. k \in 0..Len(p) /\ Len(p) = k
    BY <1>2, <1>6
  <2> QED BY <1>6, <1>7, <2>1, ExtractKeeps
<1>10. r = <<>> /\ q = p
  <2> HIDE DEF q, r, p
  <2>1. k - k = 0
    BY <1>2
  <2>2. r = <<>>
    BY <1>8, <1>9, <2>1, EmptySeq
  <2> QED BY <2>2, <1>8, ConcatEmptySeq
<1>11. ASSUME NEW n \in Nat, Len(e) <= n, n < Len(e) + Len(q), PasteBegins(s, n)
       PROVE  FALSE
  <2> DEFINE c == Len(e)
             j == n - c
  <2>1. j \in Nat /\ j < k /\ n = c + j
    <3>1. c <= n /\ n < c + k /\ c \in Nat
      BY <1>1, <1>9, <1>11
    <3> HIDE DEF c
    <3> QED BY <3>1, <1>2
  <2>2. j + 3 <= L
    <3>1. L \in Nat
      BY <1>1
    <3> HIDE DEF L, j
    <3> QED BY <1>2, <1>3, <2>1, <3>1
  <2>3. PasteBegins(s, Len(e) + j)
    BY <1>11, <2>1
  <2>4. PasteBegins(b, j)
    <3> HIDE DEF j
    <3> QED BY <2>1, <2>2, <2>3, ThreeAt DEF PasteBegins
  <2>5. k <= j
    <3> HIDE DEF j
    <3> QED BY <1>2, <2>4, StartOccurs
  <2> HIDE DEF j
  <2> QED BY <1>2, <2>1, <2>5
<1>12. NoneBegins(s, Len(e), Len(e) + Len(q))
  <2> HIDE DEF s, q
  <2> QED BY <1>11 DEF NoneBegins
<1> HIDE DEF s
<1> QED BY <1>6, <1>8, <1>10, <1>12 DEF s

-----------------------------------------------------------------------------
(* A mark that a time out cuts in two.                                       *)
LEMMA PrefixIs ==
    ASSUME NEW S, NEW a \in Seq(S), NEW u \in Seq(S), Len(a) <= Len(u),
           \A i \in 1..Len(a) : a[i] = u[i]
    PROVE  IsPrefix(a, u)
<1> DEFINE l == Len(a)
           p == SubSeq(u, 1, l)
<1>1. l \in Nat /\ Len(u) \in Nat /\ l \in 0..Len(u) /\ SubSeq(a, 1, l) = a
  <2>1. l \in Nat /\ Len(u) \in Nat /\ l <= Len(u)
    OBVIOUS
  <2>2. SubSeq(a, 1, Len(a)) = a
    BY SubSeqFull
  <2> DEFINE m == Len(u)
  <2>3. m \in Nat /\ l <= m
    BY <2>1
  <2>4. SubSeq(a, 1, l) = a
    BY <2>2
  <2> HIDE DEF l, m
  <2>5. l \in 0..m
    BY <2>1, <2>3
  <2> QED BY <2>1, <2>4, <2>5 DEF m
<1>2. p \in Seq(S) /\ Len(p) = l /\ \A i \in 1..l : p[i] = u[i]
  BY <1>1, AfterFacts
<1>3. p = a
  <2>1. \A i \in 1..l : a[i] = u[i]
    OBVIOUS
  <2>2. Len(a) = l
    OBVIOUS
  <2> HIDE DEF l, p
  <2>3. \A i \in 1..Len(a) : a[i] = p[i]
    BY <1>2, <2>1, <2>2
  <2> QED BY <1>2, <2>2, <2>3, SeqEqual
<1> HIDE DEF p
<1> QED BY <1>1, <1>3 DEF IsPrefix, p

LEMMA ReverseFacts ==
    ASSUME NEW S, NEW a \in Seq(S)
    PROVE  /\ Reverse(a) \in Seq(S) /\ Len(Reverse(a)) = Len(a)
           /\ \A i \in 1..Len(a) : Reverse(a)[i] = a[(Len(a) - i) + 1]
<1> DEFINE l == Len(a)
           r == [i \in 1..l |-> a[(l - i) + 1]]
<1>1. l \in Nat /\ \A i \in 1..l : a[i] \in S
  BY ElementOfSeq
<1>2. \A i \in 1..l : (l - i) + 1 \in 1..l
  <2> HIDE DEF l
  <2> QED BY <1>1
<1> HIDE DEF l
<1>3. \A i \in 1..l : a[(l - i) + 1] \in S
  BY <1>1, <1>2
<1>4. r \in Seq(S) /\ Len(r) = l /\ \A i \in 1..l : r[i] = a[(l - i) + 1]
  BY <1>1, <1>3, IsASeq
<1> QED BY <1>4 DEF Reverse, l

LEMMA SuffixIs ==
    ASSUME NEW S, NEW a \in Seq(S), NEW b \in Seq(S), NEW d \in Nat, Len(b) = d + Len(a),
           \A i \in 1..Len(a) : a[i] = b[d + i]
    PROVE  IsSuffix(a, b)
<1> DEFINE l == Len(a)
           m == Len(b)
           ra == Reverse(a)
           rb == Reverse(b)
<1>1. l \in Nat /\ m \in Nat /\ m = d + l /\ \A i \in 1..l : a[i] = b[d + i]
  OBVIOUS
<1>2. /\ ra \in Seq(S) /\ Len(ra) = l /\ \A i \in 1..l : ra[i] = a[(l - i) + 1]
      /\ rb \in Seq(S) /\ Len(rb) = m /\ \A i \in 1..m : rb[i] = b[(m - i) + 1]
  BY ReverseFacts
<1> HIDE DEF l, m, ra, rb
<1>3. ASSUME NEW i \in 1..l PROVE ra[i] = rb[i]
  <2>1. i \in 1..m /\ (l - i) + 1 \in 1..l /\ d + ((l - i) + 1) = (m - i) + 1
    BY <1>1
  <2> QED BY <1>1, <1>2, <2>1
<1>4. Len(ra) <= Len(rb)
  BY <1>1, <1>2
<1>5. IsPrefix(ra, rb)
  BY <1>2, <1>3, <1>4, PrefixIs
<1> QED BY <1>5 DEF IsSuffix, ra, rb

LEMMA TornAhead ==
    ASSUME NEW e \in Seq(Atoms), NEW b \in Seq(Atoms), NEW u \in Seq(Atoms), Unmarked(b),
           ~\E i \in 1..(Len(PasteStart) - 1) :
               IsSuffix(SubSeq(PasteStart, 1, i), b) /\ IsPrefix(After(PasteStart, i), u)
    PROVE  NoneBegins(e \o (b \o u), Len(e), Len(e) + Len(b))
<1> DEFINE s == e \o (b \o u)
           c == Len(e)
           L == Len(b)
           U == Len(u)
           m == PasteStart
<1>1. c \in Nat /\ L \in Nat /\ U \in Nat
  OBVIOUS
<1>2. Len(s) = c + L + U /\ \A i \in 1..U : s[c + L + i] = u[i]
  BY ThreePlaces
<1> SUFFICES ASSUME NEW n \in Nat, c <= n, n < c + L, PasteBegins(s, n) PROVE FALSE
  BY DEF NoneBegins
<1>3. PICK j \in 0..L : /\ n = c + j /\ b[j + 1] = ESC
                        /\ L = j + 1 \/ (L = j + 2 /\ b[j + 2] = Bracket)
  BY MarkAcross
<1>4. s[n + 2] = Bracket /\ s[n + 3] = PasteOn /\ n + 3 <= c + L + U
  <2>1. n \in 0..(Len(s) - 3) /\ s[n + 2] = Bracket /\ s[n + 3] = PasteOn
    BY DEF PasteBegins, Three
  <2>2. n \in 0..((c + L + U) - 3)
    BY <1>2, <2>1
  <2> HIDE DEF s, c, L, U
  <2> QED BY <1>1, <2>1, <2>2
<1>5. ASSUME NEW i \in 1..2,
             \A k \in 1..i : PasteStart[k] = b[(L - i) + k], L - i \in Nat,
             \A k \in 1..(3 - i) : PasteStart[i + k] = u[k], 3 - i <= U
      PROVE  FALSE
  <2> DEFINE x == SubSeq(m, 1, i)
             y == After(m, i)
  <2>1. i \in 0..Len(m) /\ Len(m) = 3 /\ m \in Seq(Atoms) /\ i \in 1..(Len(m) - 1)
    BY MarkType
  <2>2. /\ x \in Seq(Atoms) /\ Len(x) = i /\ \A k \in 1..i : x[k] = m[k]
        /\ y \in Seq(Atoms) /\ Len(y) = 3 - i /\ \A k \in 1..(3 - i) : y[k] = m[i + k]
    <3> HIDE DEF m
    <3>1. /\ After(m, i) \in Seq(Atoms) /\ Len(After(m, i)) = Len(m) - i
          /\ \A k \in 1..(Len(m) - i) : After(m, i)[k] = m[i + k]
          /\ SubSeq(m, 1, i) \in Seq(Atoms) /\ Len(SubSeq(m, 1, i)) = i
          /\ \A k \in 1..i : SubSeq(m, 1, i)[k] = m[k]
      BY <2>1, AfterFacts
    <3> HIDE DEF x, y
    <3> QED BY <2>1, <3>1 DEF x, y
  <2> HIDE DEF x, y
  <2>3. IsSuffix(x, b)
    <3> DEFINE d == L - i
    <3>1. d \in Nat /\ L = d + i /\ L = Len(b) /\ \A k \in 1..i : x[k] = b[d + k]
      <4>1. d \in Nat /\ \A k \in 1..i : x[k] = b[d + k]
        BY <1>5, <2>2
      <4>2. L = d + i
        <5> HIDE DEF L
        <5> QED BY <1>1
      <4> QED BY <4>1, <4>2
    <3> HIDE DEF d, L
    <3> QED BY <3>1, <2>2, SuffixIs
  <2>4. IsPrefix(y, u)
    <3>1. Len(y) <= Len(u) /\ \A k \in 1..Len(y) : y[k] = u[k]
      BY <1>5, <2>2
    <3> QED BY <3>1, <2>2, PrefixIs
  <2> QED BY <2>1, <2>3, <2>4 DEF x, y
<1> HIDE DEF s, c, L, U, m
<1>6. CASE L = j + 1
  <2>1. L - 1 = j /\ L - 1 \in Nat /\ j + 1 = (L - 1) + 1 /\ 3 - 1 = 2 /\ 2 <= U
        /\ 1 \in 1..U /\ 2 \in 1..U /\ n + 2 = c + L + 1 /\ n + 3 = c + L + 2
    BY <1>1, <1>3, <1>4, <1>6
  <2>2. u[1] = Bracket /\ u[2] = PasteOn
    BY <1>2, <1>4, <2>1
  <2>3. \A k \in 1..1 : PasteStart[k] = b[(L - 1) + k]
    BY <1>3, <2>1, MarkType
  <2>4. \A k \in 1..2 : PasteStart[1 + k] = u[k]
    BY <2>2, MarkType
  <2> QED BY <1>5, <2>1, <2>3, <2>4
<1>7. CASE L = j + 2
  <2>1. L - 2 = j /\ L - 2 \in Nat /\ 3 - 2 = 1 /\ 1 <= U /\ 1 \in 1..U /\ n + 3 = c + L + 1
        /\ (L - 2) + 1 = j + 1 /\ (L - 2) + 2 = j + 2
    BY <1>1, <1>3, <1>4, <1>7
  <2>2. u[1] = PasteOn
    BY <1>2, <1>4, <2>1
  <2>3. b[j + 2] = Bracket /\ b[j + 1] = ESC
    <3>1. L # j + 1
      BY <1>7
    <3> QED BY <1>3, <3>1
  <2>4. \A k \in 1..2 : PasteStart[k] = b[(L - 2) + k]
    BY <2>1, <2>3, MarkType
  <2>5. \A k \in 1..1 : PasteStart[2 + k] = u[k]
    BY <2>2, MarkType
  <2> QED BY <1>5, <2>1, <2>4, <2>5
<1> QED BY <1>3, <1>6, <1>7

-----------------------------------------------------------------------------
(* What has been delivered holds no paste that is open.                      *)
LEMMA EndedOn ==
    ASSUME NEW s, NEW c \in Nat, NEW d \in Nat, c <= d, Ended(s, c), NoneBegins(s, c, d)
    PROVE  Ended(s, d)
<1> SUFFICES ASSUME NEW n \in Nat, n < d, PasteBegins(s, n)
             PROVE  \E m \in Nat : n + 3 <= m /\ m + 3 <= d /\ PasteEnds(s, m)
  BY DEF Ended
<1>1. n < c
  BY DEF NoneBegins
<1>2. PICK m \in Nat : n + 3 <= m /\ m + 3 <= c /\ PasteEnds(s, m)
  BY <1>1 DEF Ended
<1> QED BY <1>2

\* A paste that is delivered has ended.
LEMMA EndedPaste ==
    ASSUME NEW s, NEW c \in Nat, NEW k \in Nat, Ended(s, c), PasteEnds(s, c + 3 + k)
    PROVE  Ended(s, c + (k + 6))
<1> DEFINE f == c + 3 + k
<1>1. s[f + 1] = ESC /\ s[f + 2] = Bracket /\ s[f + 3] = PasteOff
  BY DEF PasteEnds, Three
<1> SUFFICES ASSUME NEW n \in Nat, n < c + (k + 6), PasteBegins(s, n)
             PROVE  \E m \in Nat : n + 3 <= m /\ m + 3 <= c + (k + 6) /\ PasteEnds(s, m)
  BY DEF Ended
<1>2. s[n + 1] = ESC /\ s[n + 2] = Bracket /\ s[n + 3] = PasteOn
  BY DEF PasteBegins, Three
<1>3. CASE n < c
  <2>1. PICK m \in Nat : n + 3 <= m /\ m + 3 <= c /\ PasteEnds(s, m)
    BY <1>3 DEF Ended
  <2> QED BY <2>1
<1>4. CASE n \in c..(c + k)
  <2>1. f \in Nat /\ n + 3 <= f /\ f + 3 <= c + (k + 6)
    BY <1>4
  <2> QED BY <2>1
<1>5. CASE n = c + k + 1
  <2>1. n + 3 = f + 1
    BY <1>5
  <2> QED BY <1>1, <1>2, <2>1, AtomsAssumption
<1>6. CASE n = c + k + 2
  <2>1. n + 2 = f + 1
    BY <1>6
  <2> QED BY <1>1, <1>2, <2>1, AtomsAssumption
<1>7. CASE n = c + k + 3
  <2>1. n + 3 = f + 3
    BY <1>7
  <2> QED BY <1>1, <1>2, <2>1, AtomsAssumption
<1>8. CASE n = c + k + 4
  <2>1. n + 1 = f + 2
    BY <1>8
  <2> QED BY <1>1, <1>2, <2>1, AtomsAssumption
<1>9. CASE n = c + k + 5
  <2>1. n + 1 = f + 3
    BY <1>9
  <2> QED BY <1>1, <1>2, <2>1, AtomsAssumption
<1> HIDE DEF f
<1>10. n < c \/ n \in c..(c + k) \/ n = c + k + 1 \/ n = c + k + 2 \/ n = c + k + 3
       \/ n = c + k + 4 \/ n = c + k + 5
  OBVIOUS
<1> QED BY <1>3, <1>4, <1>5, <1>6, <1>7, <1>8, <1>9, <1>10

\* So a key that comes next is not part of one.
LEMMA NoPasted ==
    ASSUME NEW e \in Seq(Atoms), NEW key \in Seq(Atoms), NEW u \in Seq(Atoms),
           e \o (key \o u) \in Inputs, Ended(e \o (key \o u), Len(e)),
           NoneBegins(e \o (key \o u), Len(e), Len(e) + Len(key))
    PROVE  ~Contains(key, Pasted)
<1> DEFINE s == e \o (key \o u)
           c == Len(e)
           L == Len(key)
           U == Len(u)
<1>1. c \in Nat /\ L \in Nat /\ U \in Nat
  OBVIOUS
<1>2. s \in Seq(Atoms) /\ Len(s) = c + L + U /\ \A i \in 1..L : s[c + i] = key[i]
  BY ThreePlaces
<1>3. s \in Inputs /\ Ended(s, c) /\ NoneBegins(s, c, c + L)
  OBVIOUS
<1> SUFFICES ASSUME Contains(key, Pasted) PROVE FALSE
  OBVIOUS
<1>4. PICK i \in 1..L : key[i] = Pasted
  BY DEF Contains
<1> HIDE DEF s, c, L, U
<1>5. c + i \in 1..Len(s) /\ DOMAIN s = 1..Len(s) /\ s[c + i] = Pasted
  <2>1. DOMAIN s = 1..Len(s)
    BY <1>2
  <2> QED BY <1>1, <1>2, <1>4, <2>1
<1>6. InPaste(s, c + i)
  BY <1>3, <1>5, InputsAssumption
<1>7. PICK n \in 0..((c + i) - 4) :
         /\ SubSeq(s, n + 1, n + 3) = PasteStart
         /\ \A m \in (n + 3)..((c + i) - 4) : SubSeq(s, m + 1, m + 3) # PasteEnd
  BY <1>6 DEF InPaste
<1>8. n \in Nat /\ n < c + L /\ n \in 0..(Len(s) - 3) /\ i \in Nat /\ i >= 1
  BY <1>1, <1>2, <1>7
<1>9. PasteBegins(s, n)
  <2>1. Occurs(s, PasteStart, n)
    BY <1>7, <1>8, MarkType DEF Occurs
  <2> QED BY <2>1, <1>2, StartOccurs
<1>10. n < c
  <2>1. ~(c <= n)
    BY <1>3, <1>8, <1>9 DEF NoneBegins
  <2> QED BY <2>1, <1>1, <1>8
<1>11. PICK m \in Nat : n + 3 <= m /\ m + 3 <= c /\ PasteEnds(s, m)
  BY <1>3, <1>8, <1>9, <1>10 DEF Ended
<1>12. Occurs(s, PasteEnd, m)
  BY <1>2, <1>11, EndOccurs
<1>13. SubSeq(s, m + 1, m + 3) = PasteEnd
  BY <1>12, MarkType DEF Occurs
<1>14. m \in (n + 3)..((c + i) - 4)
  BY <1>1, <1>8, <1>11
<1> QED BY <1>7, <1>13, <1>14

-----------------------------------------------------------------------------
(* Moving what is under way.                                                 *)
Shifted(e, h, u) ==
    /\ e \o ((<<>> \o h) \o u) = e \o (h \o u)
    /\ e \o (h \o u) = (e \o h) \o (<<>> \o u)
    /\ ((e \o h) \o <<>>) \o u = e \o (h \o u)
    /\ ((e \o <<>>) \o h) \o u = e \o (h \o u)
MovedOn(e, h, m, u) == e \o ((h \o m) \o u) = (e \o h) \o (m \o u)
KeyMoved(e, h, t, b, u) == e \o (((h \o t) \o b) \o u) = (e \o h) \o ((t \o b) \o u)
PasteMoved(e, i, p, f, l, u) ==
    e \o ((i \o (p \o (f \o l))) \o u) = (e \o ((i \o p) \o f)) \o (l \o u)

Grouped(e, h, u) == e \o (h \o u) = (e \o h) \o u
LEMMA Groups ==
    ASSUME NEW S, NEW e \in Seq(S), NEW h \in Seq(S), NEW u \in Seq(S)
    PROVE  Grouped(e, h, u)
  BY DEF Grouped
LEMMA Moves ==
    ASSUME NEW S, NEW e \in Seq(S), NEW h \in Seq(S), NEW u \in Seq(S)
    PROVE  Shifted(e, h, u)
<1>1. <<>> \o u = u /\ <<>> \o h = h /\ e \o <<>> = e /\ (e \o h) \o <<>> = e \o h
  <2>1. e \o h \in Seq(S)
    OBVIOUS
  <2> DEFINE x == e \o h
  <2> HIDE DEF x
  <2>2. x \in Seq(S)
    BY <2>1 DEF x
  <2>3. x \o <<>> = x
    BY <2>2, ConcatEmptySeq
  <2> QED BY <2>3, ConcatEmptySeq DEF x
<1>2. e \o (h \o u) = (e \o h) \o u
  OBVIOUS
<1> QED BY <1>1, <1>2, Zenon DEF Shifted

\* The first of what is under way is delivered.
LEMMA MovesOn ==
    ASSUME NEW S, NEW e \in Seq(S), NEW h \in Seq(S), NEW m \in Seq(S), NEW u \in Seq(S)
    PROVE  MovedOn(e, h, m, u)
<1>1. (h \o m) \o u = h \o (m \o u) /\ m \o u \in Seq(S)
  OBVIOUS
<1> DEFINE x == m \o u
<1> HIDE DEF x
<1>2. x \in Seq(S)
  BY <1>1 DEF x
<1>3. e \o (h \o x) = (e \o h) \o x
  BY <1>2
<1>4. (h \o m) \o u = h \o x
  BY <1>1 DEF x
<1> QED BY <1>3, <1>4, Zenon DEF x, MovedOn
LEMMA KeyMoves ==
    ASSUME NEW S, NEW e \in Seq(S), NEW h \in Seq(S), NEW t \in Seq(S), NEW b \in Seq(S),
           NEW u \in Seq(S)
    PROVE  KeyMoved(e, h, t, b, u)
<1>1. (h \o t) \o b = h \o (t \o b) /\ t \o b \in Seq(S)
  OBVIOUS
<1> DEFINE x == t \o b
<1> HIDE DEF x
<1>2. x \in Seq(S)
  BY <1>1 DEF x
<1>3. e \o ((h \o x) \o u) = (e \o h) \o (x \o u)
  <2> DEFINE y == x \o u
  <2>1. (h \o x) \o u = h \o y /\ y \in Seq(S)
    BY <1>2
  <2> HIDE DEF y
  <2>2. e \o (h \o y) = (e \o h) \o y
    BY <2>1
  <2> QED BY <2>1, <2>2, Zenon DEF y
<1>4. (h \o t) \o b = h \o x
  BY <1>1 DEF x
<1> QED BY <1>3, <1>4, Zenon DEF x, KeyMoved
LEMMA PasteMoves ==
    ASSUME NEW S, NEW e \in Seq(S), NEW i \in Seq(S), NEW p \in Seq(S), NEW f \in Seq(S),
           NEW l \in Seq(S), NEW u \in Seq(S)
    PROVE  PasteMoved(e, i, p, f, l, u)
<1> DEFINE x == (i \o p) \o f
<1>1. x \in Seq(S)
  OBVIOUS
<1>2. i \o (p \o (f \o l)) = x \o l
  <2>01. p \o (f \o l) = (p \o f) \o l
    OBVIOUS
  <2>02. i \o (p \o f) = (i \o p) \o f
    OBVIOUS
  <2>03. p \o f \in Seq(S)
    OBVIOUS
  <2>1. p \o (f \o l) = (p \o f) \o l /\ p \o f \in Seq(S) /\ i \o (p \o f) = (i \o p) \o f
    BY <2>01, <2>02, <2>03, Zenon
  <2> DEFINE y == p \o f
  <2> HIDE DEF y
  <2>2. y \in Seq(S)
    BY <2>1 DEF y
  <2>3. i \o (y \o l) = (i \o y) \o l
    BY <2>2
  <2> QED BY <2>1, <2>3, Zenon DEF x, y
<1> HIDE DEF x
<1>3. e \o ((x \o l) \o u) = (e \o x) \o (l \o u)
  <2> DEFINE y == l \o u
  <2>1. (x \o l) \o u = x \o y
    BY <1>1
  <2>2. y \in Seq(S)
    OBVIOUS
  <2> HIDE DEF y
  <2>3. e \o (x \o y) = (e \o x) \o y
    BY <1>1, <2>2
  <2> QED BY <2>1, <2>3, Zenon DEF y
<1> QED BY <1>2, <1>3, Zenon DEF x, PasteMoved

\* What a mark is followed by.
LEMMA AfterMark ==
    ASSUME NEW S, NEW b \in Seq(S), NEW mark \in Seq(S), Len(mark) = 3, NEW k,
           Occurs(b, mark, k)
    PROVE  /\ k \in 0..Len(b) /\ k + 3 \in 0..Len(b)
           /\ After(b, k) = mark \o After(b, k + 3)
<1> DEFINE L == Len(b)
           a == After(b, k)
           x == SubSeq(a, 1, 3)
           y == After(a, 3)
           z == After(b, k + 3)
           w == SubSeq(b, k + 1, k + 3)
<1>1. L \in Nat /\ k \in 0..(L - 3) /\ w = mark /\ \A i \in 1..L : b[i] \in S
  <2>1. L \in Nat /\ \A i \in 1..L : b[i] \in S
    BY ElementOfSeq
  <2> QED BY <2>1 DEF Occurs
<1> HIDE DEF L
<1>2. /\ k \in Nat /\ k \in 0..L /\ k + 3 \in 0..L /\ 3 \in 0..(L - k)
      /\ (L - k) - 3 = L - (k + 3)
  BY <1>1
<1>3. a \in Seq(S) /\ Len(a) = L - k /\ \A i \in 1..(L - k) : a[i] = b[k + i]
  BY <1>2, AfterFacts DEF L
<1>4. z \in Seq(S) /\ Len(z) = L - (k + 3) /\ \A i \in 1..(L - (k + 3)) : z[i] = b[(k + 3) + i]
  BY <1>2, AfterFacts DEF L
<1> HIDE DEF a, z
<1>5. /\ x \in Seq(S) /\ Len(x) = 3 /\ \A i \in 1..3 : x[i] = a[i]
      /\ y \in Seq(S) /\ Len(y) = Len(a) - 3 /\ \A i \in 1..(Len(a) - 3) : y[i] = a[3 + i]
      /\ x \o y = a
  <2>1. 3 \in 0..Len(a)
    BY <1>2, <1>3
  <2> QED BY <2>1, <1>3, AfterFacts
<1> HIDE DEF x, y, w
<1>6. Len(w) = 3 /\ \A i \in 1..3 : w[i] = b[k + i]
  <2>1. k + 1 \in Int /\ k + 3 \in Int /\ \A i \in (k + 1)..(k + 3) : b[i] \in S
    BY <1>1, <1>2
  <2>2. /\ Len(w) = (IF k + 1 <= k + 3 THEN (k + 3) - (k + 1) + 1 ELSE 0)
        /\ \A i \in 1..((k + 3) - (k + 1) + 1) : w[i] = b[(k + 1) + i - 1]
    BY <2>1, SubSeqProperties DEF w
  <2>3. (k + 3) - (k + 1) + 1 = 3 /\ k + 1 <= k + 3
    BY <1>2
  <2>4. \A i \in 1..3 : (k + 1) + i - 1 = k + i
    BY <1>2
  <2> QED BY <2>2, <2>3, <2>4
<1>7. x = mark
  <2>1. \A i \in 1..3 : i \in 1..(L - k)
    BY <1>1, <1>2
  <2>2. \A i \in 1..3 : x[i] = mark[i]
    BY <2>1, <1>1, <1>3, <1>5, <1>6
  <2> QED BY <2>2, <1>5, SeqEqual
<1>8. y = z
  <2>1. Len(y) = Len(z) /\ Len(z) = L - (k + 3) /\ Len(a) - 3 = L - (k + 3)
    BY <1>2, <1>3, <1>4, <1>5
  <2>2. ASSUME NEW i \in 1..(L - (k + 3)) PROVE y[i] = z[i]
    <3>1. 3 + i \in 1..(L - k) /\ k + (3 + i) = (k + 3) + i
      BY <1>1, <1>2
    <3>2. y[i] = a[3 + i]
      BY <1>5, <2>1
    <3>3. z[i] = b[(k + 3) + i]
      BY <1>4
    <3> QED BY <3>1, <3>2, <3>3, <1>3
  <2> QED BY <2>1, <2>2, <1>4, <1>5, SeqEqual
<1> QED BY <1>2, <1>5, <1>7, <1>8 DEF a, z, L

-----------------------------------------------------------------------------
(* What is delivered.                                                        *)
LEMMA BytesType ==
    ASSUME NEW event \in Event
    PROVE  /\ Bytes(event) \in Seq(Atoms)
           /\ event.kind # "paste" => Bytes(event) = event.data
<1>1. event.data \in Seq(Atoms)
  BY DEF Event
<1>2. (PasteStart \o event.data) \o PasteEnd \in Seq(Atoms)
  <2> DEFINE d == event.data
  <2>1. d \in Seq(Atoms)
    BY <1>1
  <2> HIDE DEF d
  <2>2. (PasteStart \o d) \o PasteEnd \in Seq(Atoms)
    BY <2>1, MarkType
  <2> QED BY <2>2 DEF d
<1> QED BY <1>1, <1>2 DEF Bytes

LEMMA EmitsType ==
    ASSUME NEW events \in Seq(Event)
    PROVE  /\ [i \in DOMAIN events |-> Bytes(events[i])] \in Seq(Seq(Atoms))
           /\ Emits(events) \in Seq(Atoms)
<1> DEFINE l == Len(events)
           f == [i \in 1..l |-> Bytes(events[i])]
<1>1. DOMAIN events = 1..l /\ l \in Nat /\ \A i \in 1..l : events[i] \in Event
  BY ElementOfSeq
<1>2. \A i \in 1..l : Bytes(events[i]) \in Seq(Atoms)
  BY <1>1, BytesType
<1> HIDE DEF l
<1>3. f \in Seq(Seq(Atoms))
  BY <1>1, <1>2, IsASeq
<1>4. FlattenSeq(f) \in Seq(Atoms)
  <2> HIDE DEF f
  <2> QED BY <1>3, FlatType
<1> QED BY <1>1, <1>3, <1>4 DEF Emits

LEMMA EmitsAppend ==
    ASSUME NEW events \in Seq(Event), NEW event \in Event
    PROVE  Emits(Append(events, event)) = Emits(events) \o Bytes(event)
<1> DEFINE l == Len(events)
           more == Append(events, event)
           f == [i \in DOMAIN events |-> Bytes(events[i])]
           g == [i \in DOMAIN more |-> Bytes(more[i])]
<1>1. l \in Nat /\ DOMAIN events = 1..l
  OBVIOUS
<1>2. /\ more \in Seq(Event) /\ Len(more) = l + 1 /\ more[l + 1] = event
      /\ \A i \in 1..l : more[i] = events[i]
  BY AppendProperties
<1>3. DOMAIN more = 1..(l + 1)
  <2>1. DOMAIN more = 1..Len(more)
    BY <1>2
  <2> HIDE DEF more
  <2> QED BY <1>2, <2>1
<1>4. f \in Seq(Seq(Atoms)) /\ g \in Seq(Seq(Atoms)) /\ Bytes(event) \in Seq(Atoms)
  <2> HIDE DEF more
  <2> QED BY <1>2, EmitsType, BytesType
<1>5. /\ Len(f) = l /\ Len(g) = l + 1 /\ \A i \in 1..l : f[i] = Bytes(events[i])
      /\ \A i \in 1..(l + 1) : g[i] = Bytes(more[i])
  <2>1. DOMAIN f = 1..l /\ DOMAIN g = 1..(l + 1)
    BY <1>1, <1>3
  <2>2. DOMAIN f = 1..Len(f) /\ DOMAIN g = 1..Len(g) /\ Len(f) \in Nat /\ Len(g) \in Nat
    <3> HIDE DEF f, g
    <3> QED BY <1>4
  <2>3. (\A i \in 1..l : f[i] = Bytes(events[i])) /\ \A i \in 1..(l + 1) : g[i] = Bytes(more[i])
    BY <1>1, <1>3
  <2> HIDE DEF f, g, l, more
  <2>4. Len(f) = l
    BY <2>1, <2>2, <1>1, <1>4, LenProperties
  <2>5. Len(g) = l + 1
    BY <2>1, <2>2, <1>1, <1>4, LenProperties
  <2> QED BY <2>3, <2>4, <2>5
<1> HIDE DEF f, g, l, more
<1>6. g = Append(f, Bytes(event))
  <2> DEFINE h == Append(f, Bytes(event))
  <2>1. /\ h \in Seq(Seq(Atoms)) /\ Len(h) = l + 1 /\ h[l + 1] = Bytes(event)
        /\ \A i \in 1..l : h[i] = f[i]
    BY <1>4, <1>5, AppendProperties
  <2> HIDE DEF h
  <2>2. \A i \in 1..(l + 1) : i \in 1..l \/ i = l + 1
    BY <1>1
  <2>3. \A i \in 1..(l + 1) : g[i] = h[i]
    BY <2>1, <2>2, <1>2, <1>5
  <2> QED BY <2>1, <2>3, <1>4, <1>5, SeqEqual DEF h
<1>7. FlattenSeq(Append(f, Bytes(event))) = FlattenSeq(f) \o Bytes(event)
  BY <1>4, FlatAppend
<1> QED BY <1>6, <1>7 DEF Emits, f, g, more

-----------------------------------------------------------------------------
(* The invariant: types, and one thread at a time.                           *)
LEMMA InputTypesInit == StdinInit => InputTypes
<1> SUFFICES ASSUME StdinInit PROVE InputTypes
  OBVIOUS
<1>0. <<>> \in Seq(Atoms) /\ <<>> \in Seq(Event) /\ <<>> \in Seq(Seq(Atoms))
  OBVIOUS
<1>1. sent \in Inputs /\ sent \in Seq(Atoms) /\ unread \in Seq(Atoms)
  BY InputType DEF StdinInit
<1>2. /\ buffer \in Seq(Atoms) /\ pasteBuffer \in Seq(Atoms) /\ pasteMode \in BOOLEAN
      /\ tornMark \in BOOLEAN /\ raced \in BOOLEAN /\ out \in Seq(Event)
  BY <1>0 DEF StdinInit
<1>3. reader \in Readers /\ reader = Reading
  BY <1>0 DEF StdinInit, Reading, Readers
<1>4. flusher \in [Timers -> Flushers] /\ \A t \in Timers : flusher[t].keys = <<>>
  BY <1>0 DEF StdinInit, Waiting, Flushers
<1> QED BY <1>1, <1>2, <1>3, <1>4 DEF InputTypes

LEMMA TakeTypes ==
    ASSUME InputTypes, NEW chunk \in Seq(Atoms), Take(chunk), unread' \in Seq(Atoms)
    PROVE  InputTypes'
<1>1. buffer \in Seq(Atoms) /\ pasteBuffer \in Seq(Atoms) /\ pasteMode \in BOOLEAN
  BY DEF InputTypes
<1>2. /\ (pasteBuffer \o buffer) \o chunk \in Seq(Atoms) /\ buffer \o chunk \in Seq(Atoms)
      /\ <<>> \in Seq(Atoms) /\ <<>> \in Seq(Seq(Atoms))
  BY <1>1
<1>3. buffer' \in Seq(Atoms) /\ pasteBuffer' \in Seq(Atoms)
  BY <1>1, <1>2 DEF Take
<1>4. reader' \in Readers /\ reader'.at \in {"paste", "split"}
  <2>1. /\ reader' = [at |-> "paste", keys |-> <<>>, rest |-> <<>>]
           \/ reader' = [at |-> "split", keys |-> <<>>, rest |-> <<>>]
    BY DEF Take, Reading
  <2>2. ASSUME NEW x \in Seq(Seq(Atoms)), NEW y \in Seq(Atoms)
        PROVE  /\ [at |-> "paste", keys |-> x, rest |-> y] \in Readers
               /\ [at |-> "split", keys |-> x, rest |-> y] \in Readers
    BY DEF Readers
  <2>3. /\ [at |-> "paste", keys |-> <<>>, rest |-> <<>>] \in Readers
        /\ [at |-> "split", keys |-> <<>>, rest |-> <<>>] \in Readers
    BY <1>2, <2>2
  <2> QED BY <2>1, <2>3
<1>5. raced' \in BOOLEAN
  BY DEF Take, InputTypes, FlusherBusy
<1>6. UNCHANGED <<sent, pasteMode, flusher, out, tornMark>>
  BY DEF Take
<1> QED BY <1>3, <1>4, <1>5, <1>6 DEF InputTypes, Took, ReaderBusy

LEMMA DeliverTypes ==
    ASSUME out \in Seq(Event), NEW key \in Seq(Atoms), Deliver(key)
    PROVE  /\ out' \in Seq(Event) /\ Emits(out) \in Seq(Atoms)
           /\ Emits(out') = Emits(out) \o key
           /\ \E event \in Event : /\ out' = Append(out, event) /\ event.data = key
                                   /\ event.kind \in {"key", "echo"}
<1> DEFINE event == [kind |-> IF key = <<CharA>> /\ kittyPending = CharA THEN "echo" ELSE "key",
                     data |-> key]
<1>1. event \in Event /\ event.data = key /\ event.kind \in {"key", "echo"}
  BY DEF Event
<1>2. out' = Append(out, event)
  BY DEF Deliver
<1> HIDE DEF event
<1>3. Bytes(event) = key
  BY <1>1, BytesType
<1>4. Emits(Append(out, event)) = Emits(out) \o Bytes(event)
  BY <1>1, EmitsAppend
<1>5. Append(out, event) \in Seq(Event)
  BY <1>1, AppendProperties
<1>6. Emits(out) \in Seq(Atoms)
  BY EmitsType
<1>7. Emits(out') = Emits(out) \o key
  BY <1>2, <1>3, <1>4, Zenon
<1> QED BY <1>1, <1>2, <1>5, <1>6, <1>7

LEMMA InputTypesStep ==
    ASSUME InputTypes, [StdinNext]_stdinVars
    PROVE  InputTypes'
<1>0. /\ unread \in Seq(Atoms) /\ buffer \in Seq(Atoms) /\ pasteBuffer \in Seq(Atoms)
      /\ out \in Seq(Event) /\ reader \in Readers /\ flusher \in [Timers -> Flushers]
      /\ <<>> \in Seq(Atoms) /\ reader.keys \in Seq(Seq(Atoms)) /\ reader.rest \in Seq(Atoms)
      /\ Reading \in Readers /\ <<>> \in Seq(Seq(Atoms))
      /\ Len(buffer) \in Nat /\ Len(pasteBuffer) \in Nat
  <2>1. <<>> \in Seq(Atoms) /\ <<>> \in Seq(Seq(Atoms))
    OBVIOUS
  <2>2. buffer \in Seq(Atoms) /\ pasteBuffer \in Seq(Atoms)
    BY DEF InputTypes
  <2>3. Len(buffer) \in Nat /\ Len(pasteBuffer) \in Nat
    BY <2>2
  <2> QED BY <2>1, <2>3 DEF InputTypes, Readers, Reading
<1>1. CASE \E n \in 1..Len(unread) : Read(n)
  <2>1. PICK n \in 1..Len(unread) : Read(n)
    BY <1>1
  <2>2. n \in 0..Len(unread)
    <3> DEFINE U == Len(unread)
    <3>1. U \in Nat /\ n \in 1..U
      BY <1>0
    <3> HIDE DEF U
    <3>2. n \in 0..U
      BY <3>1
    <3> QED BY <3>2 DEF U
  <2>3. SubSeq(unread, 1, n) \in Seq(Atoms) /\ After(unread, n) \in Seq(Atoms)
    BY <1>0, <2>2, AfterFacts
  <2>4. Take(SubSeq(unread, 1, n)) /\ unread' \in Seq(Atoms)
    BY <2>1, <2>3 DEF Read
  <2> QED BY <2>3, <2>4, TakeTypes
<1>2. CASE ReadOn
  <2>1. Take(reader.rest) /\ unread' \in Seq(Atoms)
    BY <1>0, <1>2 DEF ReadOn
  <2> QED BY <1>0, <2>1, TakeTypes
<1>3. CASE LookForPasteEnd
  <2> DEFINE end == Find(pasteBuffer, PasteEnd)
             left == After(pasteBuffer, end + Len(PasteEnd))
             event == [kind |-> "paste", data |-> SubSeq(pasteBuffer, 1, end)]
  <2>1. CASE end = None
    <3>1. UNCHANGED <<sent, unread, buffer, pasteVars, flusher, out, tornMark, raced>>
          /\ reader' = Reading
      BY <1>3, <2>1 DEF LookForPasteEnd
    <3> QED BY <1>0, <3>1 DEF InputTypes, Took, ReaderBusy, pasteVars
  <2>2. CASE end # None
    <3>1. /\ out' = Append(out, event) /\ pasteMode' = FALSE /\ pasteBuffer' = <<>>
          /\ reader' = IF left = <<>> THEN Reading ELSE [Reading EXCEPT !.at = "again", !.rest = left]
          /\ UNCHANGED <<sent, unread, buffer, flusher, tornMark, raced>>
      BY <1>3, <2>2 DEF LookForPasteEnd
    <3>2. Occurs(pasteBuffer, PasteEnd, end)
      <4>1. Len(pasteBuffer) \in Nat /\ Len(PasteEnd) \in Nat
        BY <1>0, MarkType
      <4> QED BY <2>2, <4>1, FindFacts
    <3>3. end \in 0..Len(pasteBuffer) /\ end + Len(PasteEnd) \in 0..Len(pasteBuffer)
      BY <1>0, <3>2, MarkType, AfterMark
    <3>4. left \in Seq(Atoms) /\ SubSeq(pasteBuffer, 1, end) \in Seq(Atoms)
      BY <1>0, <3>3, AfterFacts
    <3>5. event \in Event
      BY <3>4 DEF Event
    <3>6. reader' \in Readers /\ (reader'.at = "idle" => reader' = Reading)
      <4> HIDE DEF left
      <4>1. \/ reader' = Reading
            \/ reader' = [at |-> "again", keys |-> <<>>, rest |-> left]
        BY <3>1 DEF Reading
      <4>2. ASSUME NEW x \in Seq(Seq(Atoms)), NEW y \in Seq(Atoms)
            PROVE  [at |-> "again", keys |-> x, rest |-> y] \in Readers
        BY DEF Readers
      <4>3. [at |-> "again", keys |-> <<>>, rest |-> left] \in Readers
        BY <1>0, <3>4, <4>2
      <4> QED BY <1>0, <4>1, <4>3
    <3>7. out' \in Seq(Event)
      BY <1>0, <3>1, <3>5, AppendProperties
    <3> QED BY <1>0, <3>1, <3>6, <3>7 DEF InputTypes, Took, ReaderBusy
  <2> QED BY <2>1, <2>2
<1>4. CASE Split
  <2> DEFINE start == Find(buffer, PasteStart)
             from == IF start = None THEN buffer ELSE SubSeq(buffer, 1, start)
  <2>1. from \in Seq(Atoms)
    <3>1. CASE start # None
      <4>1. Occurs(buffer, PasteStart, start)
        <5>1. Len(buffer) \in Nat /\ Len(PasteStart) \in Nat
          BY <1>0, MarkType
        <5> QED BY <3>1, <5>1, FindFacts
      <4>2. start \in 0..Len(buffer)
        BY <1>0, <4>1, MarkType, AfterMark
      <4>3. SubSeq(buffer, 1, start) \in Seq(Atoms)
        BY <1>0, <4>2, AfterFacts
      <4> QED BY <3>1, <4>3
    <3> QED BY <1>0, <3>1
  <2> HIDE DEF from
  <2>2. Extract(from).keys \in Seq(Seq(Atoms)) /\ Extract(from).rest \in Seq(Atoms)
    BY <2>1, ExtractType
  <2>3. /\ \/ reader' = [at |-> "assign", keys |-> Extract(from).keys, rest |-> Extract(from).rest]
           \/ reader' = [at |-> "before", keys |-> Extract(from).keys, rest |-> Extract(from).rest]
        /\ UNCHANGED <<sent, unread, buffer, pasteVars, flusher, out, tornMark, raced>>
    BY <1>4 DEF Split, from
  <2>4. reader' \in Readers /\ reader'.at # "idle"
    BY <2>2, <2>3 DEF Readers
  <2> QED BY <2>3, <2>4 DEF InputTypes, Took, ReaderBusy, pasteVars
<1>5. CASE Assign
  <2>1. /\ buffer' = reader.rest
        /\ reader' = [reader EXCEPT !.at = "emit", !.rest = <<>>]
        /\ UNCHANGED <<sent, unread, pasteVars, flusher, out, tornMark, raced>>
    BY <1>5 DEF Assign
  <2>2. reader' \in Readers /\ reader'.at # "idle"
    BY <1>0, <2>1 DEF Readers
  <2> QED BY <1>0, <2>1, <2>2 DEF InputTypes, Took, ReaderBusy, pasteVars
<1>6. CASE EmitKey
  <2>1. /\ reader.at \in {"emit", "before"} /\ reader.keys # <<>> /\ Deliver(Head(reader.keys))
        /\ reader' = [reader EXCEPT !.keys = Tail(reader.keys)]
        /\ UNCHANGED <<sent, unread, buffer, pasteVars, flusher, tornMark, raced>>
    BY <1>6 DEF EmitKey
  <2>2. Head(reader.keys) \in Seq(Atoms) /\ Tail(reader.keys) \in Seq(Seq(Atoms))
    BY <1>0, <2>1, HeadTailProperties
  <2>3. out' \in Seq(Event)
    BY <1>0, <2>1, <2>2, DeliverTypes
  <2>4. reader' \in Readers /\ reader'.at # "idle"
    BY <1>0, <2>1, <2>2 DEF Readers
  <2> QED BY <1>0, <2>1, <2>3, <2>4 DEF InputTypes, Took, ReaderBusy, pasteVars
<1>7. CASE EndReading
  BY <1>0, <1>7 DEF EndReading, InputTypes, Took, ReaderBusy, pasteVars
<1>8. CASE BeginPaste
  <2> DEFINE start == Find(buffer, PasteStart)
             more == After(buffer, start + Len(PasteStart))
  <2>1. /\ pasteBuffer' = IF start = None THEN <<>> ELSE more
        /\ pasteMode' = TRUE /\ buffer' = <<>> /\ reader' = [Reading EXCEPT !.at = "paste"]
        /\ UNCHANGED <<sent, unread, flusher, out, tornMark, raced>>
    BY <1>8 DEF BeginPaste
  <2>2. pasteBuffer' \in Seq(Atoms)
    <3>1. CASE start # None
      <4>1. Occurs(buffer, PasteStart, start)
        <5>1. Len(buffer) \in Nat /\ Len(PasteStart) \in Nat
          BY <1>0, MarkType
        <5> QED BY <3>1, <5>1, FindFacts
      <4>2. start + Len(PasteStart) \in 0..Len(buffer)
        BY <1>0, <4>1, MarkType, AfterMark
      <4>3. more \in Seq(Atoms)
        BY <1>0, <4>2, AfterFacts
      <4> QED BY <2>1, <3>1, <4>3
    <3> QED BY <1>0, <2>1, <3>1
  <2>3. reader' \in Readers /\ reader'.at # "idle"
    BY <1>0, <2>1 DEF Readers, Reading
  <2> QED BY <1>0, <2>1, <2>2, <2>3 DEF InputTypes, Took, ReaderBusy
<1>9. ASSUME NEW t \in Timers, FlushTimerFires(t) \/ CancelTimer(t) PROVE InputTypes'
  <2>1. UNCHANGED <<sent, unread, buffer, pasteVars, reader, out, tornMark>>
    BY <1>9 DEF FlushTimerFires, CancelTimer
  <2>2. raced' \in BOOLEAN
    BY <1>9 DEF FlushTimerFires, CancelTimer, InputTypes, ReaderBusy
  <2>3. \/ flusher' = [flusher EXCEPT ![t].at = "fired"]
        \/ flusher' = [flusher EXCEPT ![t].at = "cancelled"]
    BY <1>9 DEF FlushTimerFires, CancelTimer
  <2>4. flusher[t].keys = <<>>
    <3>1. flusher[t].at # "took"
      BY <1>9 DEF FlushTimerFires, CancelTimer, Waiting
    <3> QED BY <3>1 DEF InputTypes, Took
  <2>5. flusher' \in [Timers -> Flushers]
    BY <1>0, <2>3 DEF Flushers
  <2>6. \A u \in Timers : flusher'[u].keys # <<>> => flusher'[u].at = "took"
    <3> SUFFICES ASSUME NEW u \in Timers, flusher'[u].keys # <<>> PROVE flusher'[u].at = "took"
      OBVIOUS
    <3>1. flusher'[u].keys = flusher[u].keys
      <4>1. flusher[u] \in Flushers /\ flusher[t] \in Flushers
        BY <1>0
      <4>2. flusher'[t] \in {[flusher[t] EXCEPT !.at = "fired"], [flusher[t] EXCEPT !.at = "cancelled"]}
        BY <1>0, <2>3
      <4>3. u # t => flusher'[u] = flusher[u]
        BY <1>0, <2>3
      <4> QED BY <4>1, <4>2, <4>3 DEF Flushers
    <3>2. u # t
      BY <2>4, <3>1
    <3>3. flusher'[u] = flusher[u]
      BY <1>0, <2>3, <3>2
    <3> QED BY <3>3 DEF InputTypes, Took
  <2> QED BY <2>1, <2>2, <2>5, <2>6 DEF InputTypes, Took, ReaderBusy, pasteVars
<1>10. ASSUME NEW t \in Timers, TakeBuffer(t) \/ EmitFlushed(t) PROVE InputTypes'
  <2>1. UNCHANGED <<sent, unread, pasteVars, reader, raced>> /\ buffer' \in Seq(Atoms)
        /\ tornMark' \in BOOLEAN
    <3>1. UNCHANGED <<sent, unread, pasteVars, reader, raced>> /\ buffer' \in Seq(Atoms)
      BY <1>0, <1>10 DEF TakeBuffer, EmitFlushed
    <3>2. tornMark' \in BOOLEAN
      BY <1>10 DEF TakeBuffer, EmitFlushed, InputTypes, Torn
    <3> QED BY <3>1, <3>2
  <2>2. out' \in Seq(Event)
    <3>1. CASE EmitFlushed(t)
      <4>1. flusher[t].keys \in Seq(Atoms) /\ Deliver(flusher[t].keys)
        BY <1>0, <3>1 DEF EmitFlushed, Flushers
      <4> QED BY <1>0, <4>1, DeliverTypes
    <3> QED BY <1>0, <1>10, <3>1 DEF TakeBuffer
  <2>3. \/ flusher' = [flusher EXCEPT ![t] = Over]
        \/ flusher' = [flusher EXCEPT ![t] = [at |-> "took", keys |-> buffer]]
    BY <1>10 DEF TakeBuffer, EmitFlushed
  <2>4. Over \in Flushers /\ [at |-> "took", keys |-> buffer] \in Flushers /\ Over.keys = <<>>
    BY <1>0 DEF Over, Flushers
  <2>5. flusher' \in [Timers -> Flushers]
    BY <1>0, <2>3, <2>4
  <2>6. \A u \in Timers : flusher'[u].keys # <<>> => flusher'[u].at = "took"
    <3> SUFFICES ASSUME NEW u \in Timers, flusher'[u].keys # <<>> PROVE flusher'[u].at = "took"
      OBVIOUS
    <3>1. CASE u = t
      BY <1>0, <2>3, <2>4, <3>1
    <3>2. CASE u # t
      <4>1. flusher'[u] = flusher[u]
        BY <1>0, <2>3, <3>2
      <4> QED BY <4>1 DEF InputTypes, Took
    <3> QED BY <3>1, <3>2
  <2> QED BY <2>1, <2>2, <2>5, <2>6 DEF InputTypes, Took, ReaderBusy, pasteVars
<1>11. CASE UNCHANGED stdinVars
  BY <1>11 DEF stdinVars, pasteVars, InputTypes, Took, ReaderBusy
<1> QED BY <1>1, <1>2, <1>3, <1>4, <1>5, <1>6, <1>7, <1>8, <1>9, <1>10, <1>11
        DEF StdinNext, Reader, Flush

LEMMA AloneInit == StdinInit => AloneInv
  BY DEF StdinInit, AloneInv, Busy, Took, ReaderBusy, Reading, Waiting

LEMMA FlusherBusyIs == InputTypes => (FlusherBusy <=> \E t \in Timers : Busy(t))
<1> SUFFICES ASSUME InputTypes, NEW t \in Timers
             PROVE  flusher[t] \notin {Waiting, Over} <=> Busy(t)
  BY DEF FlusherBusy
<1>1. flusher[t] \in Flushers /\ (flusher[t].keys # <<>> => flusher[t].at = "took")
  BY DEF InputTypes, Took
<1>2. flusher[t] = [at |-> flusher[t].at, keys |-> flusher[t].keys]
      /\ flusher[t].at \in {"none", "fired", "cancelled", "took", "over"}
  BY <1>1 DEF Flushers
<1> QED BY <1>1, <1>2 DEF Busy, Waiting, Over

LEMMA AloneStep ==
    ASSUME InputTypes, AloneInv, [StdinNext]_stdinVars
    PROVE  AloneInv'
<1> SUFFICES ASSUME ~raced'
             PROVE  /\ \A t \in Timers : Busy(t)' => ~ReaderBusy' /\ ~readTimer' /\ ~pasteMode'
                    /\ \A t, u \in Timers : Busy(t)' /\ Busy(u)' => t = u
                    /\ \A t \in Timers : Took(t)' => buffer' = <<>>
                    /\ ReaderBusy' => ~readTimer'
                    /\ pasteMode' => /\ buffer' = <<>> /\ ~readTimer'
                                     /\ reader'.at \in {"idle", "paste"}
                    /\ reader'.at = "paste" => pasteMode'
                    /\ reader'.at = "again" => buffer' = <<>>
  BY DEF AloneInv
<1>0. ~raced
  BY DEF StdinNext, Reader, Flush, Read, ReadOn, Take, LookForPasteEnd, Split, Assign, EmitKey,
         EndReading, BeginPaste, FlushTimerFires, CancelTimer, TakeBuffer, EmitFlushed, stdinVars
<1>01. /\ \A t \in Timers : Busy(t) => ~ReaderBusy /\ ~readTimer /\ ~pasteMode
       /\ \A t, u \in Timers : Busy(t) /\ Busy(u) => t = u
       /\ \A t \in Timers : Took(t) => buffer = <<>>
       /\ ReaderBusy => ~readTimer
       /\ pasteMode => buffer = <<>> /\ ~readTimer /\ reader.at \in {"idle", "paste"}
       /\ reader.at = "paste" => pasteMode
       /\ reader.at = "again" => buffer = <<>>
  BY <1>0 DEF AloneInv
<1>02. reader \in Readers /\ flusher \in [Timers -> Flushers] /\ \A t \in Timers : Took(t) => Busy(t)
  BY DEF InputTypes, Took, Busy
<1>1. CASE \E chunk : Take(chunk)
  <2>1. /\ readTimer' = FALSE /\ flusher' = flusher /\ pasteMode' = pasteMode
        /\ reader'.at = IF pasteMode THEN "paste" ELSE "split"
        /\ pasteMode => buffer' = <<>>
        /\ ~FlusherBusy
    BY <1>1 DEF Take, Reading
  <2>2. \A t \in Timers : ~Busy(t)' /\ ~Took(t)'
    BY <2>1, <1>02, FlusherBusyIs DEF Busy, Took
  <2> QED BY <2>1, <2>2
<1>2. CASE ReaderBusy /\ flusher' = flusher /\ ReaderBusy' /\ UNCHANGED <<readTimer, pasteMode>>
           /\ reader'.at \notin {"paste", "again"} /\ reader.at # "paste"
  <2>1. \A t \in Timers : ~Busy(t)' /\ ~Took(t)'
    BY <1>2, <1>01, <1>02 DEF Busy, Took
  <2>2. ~pasteMode
    BY <1>2, <1>01 DEF ReaderBusy
  <2> QED BY <2>1, <2>2, <1>2, <1>01
<1>3. CASE LookForPasteEnd
  <2>1. \A t \in Timers : ~Busy(t)' /\ ~Took(t)'
    BY <1>3, <1>01, <1>02 DEF LookForPasteEnd, Busy, Took, ReaderBusy
  <2>2. /\ pasteMode /\ buffer' = <<>> /\ ~readTimer'
    BY <1>3, <1>01 DEF LookForPasteEnd
  <2>3. /\ reader'.at \in {"idle", "again"}
        /\ reader'.at = "again" => ~pasteMode'
    <3> DEFINE left == After(pasteBuffer, Find(pasteBuffer, PasteEnd) + Len(PasteEnd))
    <3>1. \/ reader' = Reading
          \/ /\ pasteMode' = FALSE
             /\ reader' = IF left = <<>> THEN Reading
                          ELSE [Reading EXCEPT !.at = "again", !.rest = left]
      BY <1>3 DEF LookForPasteEnd
    <3> HIDE DEF left
    <3>2. \/ reader' = Reading
          \/ /\ pasteMode' = FALSE
             /\ reader' = [Reading EXCEPT !.at = "again", !.rest = left]
      BY <3>1
    <3>3. Reading.at = "idle" /\ [Reading EXCEPT !.at = "again", !.rest = left].at = "again"
      BY DEF Reading
    <3> QED BY <3>2, <3>3
  <2> QED BY <2>1, <2>2, <2>3
<1>4. CASE Split
  <2>1. reader'.at \in {"assign", "before"}
    BY <1>4 DEF Split
  <2> QED BY <1>2, <1>4, <2>1 DEF Split, ReaderBusy, pasteVars
<1>5. CASE Assign
  <2>1. reader'.at = "emit"
    BY <1>5, <1>02 DEF Assign, Readers
  <2> QED BY <1>2, <1>5, <2>1 DEF Assign, ReaderBusy, pasteVars
<1>6. CASE EmitKey
  <2>1. reader'.at = reader.at
    BY <1>6, <1>02 DEF EmitKey, Readers
  <2> QED BY <1>2, <1>6, <2>1 DEF EmitKey, ReaderBusy, pasteVars
<1>7. CASE EndReading
  <2>1. \A t \in Timers : ~Busy(t)' /\ ~Took(t)'
    BY <1>7, <1>01, <1>02 DEF EndReading, Busy, Took, ReaderBusy
  <2>2. ~pasteMode' /\ reader'.at = "idle"
    BY <1>7, <1>01 DEF EndReading, Reading, pasteVars
  <2> QED BY <2>1, <2>2 DEF ReaderBusy
<1>8. CASE BeginPaste
  <2>1. \A t \in Timers : ~Busy(t)' /\ ~Took(t)'
    BY <1>8, <1>01, <1>02 DEF BeginPaste, Busy, Took, ReaderBusy
  <2>2. pasteMode' /\ reader'.at = "paste" /\ buffer' = <<>> /\ ~readTimer'
    BY <1>8, <1>01 DEF BeginPaste, Reading, ReaderBusy
  <2> QED BY <2>1, <2>2
<1>9. ASSUME NEW t \in Timers, FlushTimerFires(t) PROVE AloneInv'
  <2>1. /\ ~ReaderBusy /\ readTimer /\ readTimer' = FALSE
        /\ flusher' = [flusher EXCEPT ![t].at = "fired"]
        /\ UNCHANGED <<buffer, pasteMode, reader>>
    BY <1>9 DEF FlushTimerFires, pasteVars
  <2>2. ~pasteMode /\ \A u \in Timers : ~Busy(u) /\ ~Took(u)
    BY <2>1, <1>01, <1>02
  <2>3. \A u \in Timers : (Busy(u)' => u = t) /\ ~Took(u)'
    <3> SUFFICES ASSUME NEW u \in Timers PROVE (Busy(u)' => u = t) /\ ~Took(u)'
      OBVIOUS
    <3>1. CASE u = t
      <4>1. flusher'[u].at = "fired"
        BY <1>02, <2>1, <3>1 DEF Flushers
      <4> QED BY <4>1, <3>1 DEF Took
    <3>2. CASE u # t
      <4>1. flusher'[u] = flusher[u]
        BY <1>02, <2>1, <3>2
      <4> QED BY <4>1, <2>2 DEF Busy, Took
    <3> QED BY <3>1, <3>2
  <2> QED BY <2>1, <2>2, <2>3, <1>01 DEF ReaderBusy, AloneInv
<1>10. ASSUME NEW t \in Timers, CancelTimer(t) \/ TakeBuffer(t) \/ EmitFlushed(t) PROVE AloneInv'
  <2>1. /\ Busy(t) /\ UNCHANGED <<pasteMode, reader>> /\ (readTimer' => readTimer)
        /\ buffer' \in {<<>>, buffer} /\ (CancelTimer(t) \/ buffer' = <<>> \/ EmitFlushed(t))
    BY <1>10 DEF CancelTimer, TakeBuffer, EmitFlushed, Busy, pasteVars
  <2>2. /\ ~ReaderBusy' /\ ~readTimer' /\ ~pasteMode'
    BY <2>1, <1>01 DEF ReaderBusy
  <2>3. \A u \in Timers : u # t => ~Busy(u)' /\ ~Took(u)'
    <3> SUFFICES ASSUME NEW u \in Timers, u # t PROVE ~Busy(u)' /\ ~Took(u)'
      OBVIOUS
    <3>1. flusher'[u] = flusher[u]
      BY <1>02, <1>10 DEF CancelTimer, TakeBuffer, EmitFlushed
    <3>2. ~Busy(u)
      BY <2>1, <1>01
    <3> QED BY <3>1, <3>2 DEF Busy, Took
  <2>4. Took(t)' => buffer' = <<>>
    <3>1. CASE CancelTimer(t)
      <4>1. flusher'[t].at = "cancelled"
        BY <1>02, <3>1 DEF CancelTimer, Flushers
      <4> QED BY <4>1 DEF Took
    <3>2. CASE EmitFlushed(t)
      <4>1. flusher'[t].at = "over"
        BY <1>02, <3>2 DEF EmitFlushed, Over
      <4> QED BY <4>1 DEF Took
    <3> QED BY <2>1, <3>1, <3>2
  <2>5. \A u \in Timers : (Busy(u)' => u = t) /\ (Took(u)' => buffer' = <<>>)
    BY <2>3, <2>4
  <2>6. reader'.at = "idle"
    BY <2>2 DEF ReaderBusy
  <2> QED BY <2>2, <2>5, <2>6 DEF ReaderBusy, AloneInv
<1>11. CASE UNCHANGED stdinVars
  BY <1>11, <1>01 DEF stdinVars, pasteVars, Busy, Took, ReaderBusy
<1> QED BY <1>1, <1>3, <1>4, <1>5, <1>6, <1>7, <1>8, <1>9, <1>10, <1>11
        DEF StdinNext, Reader, Flush, Read, ReadOn, AloneInv

-----------------------------------------------------------------------------
(* The invariant: nothing is lost, and it stays in order.                    *)
LEMMA WholeInit == StdinInit => WholeInv
<1> SUFFICES ASSUME StdinInit PROVE Whole
  BY DEF WholeInv
<1>1. unread = sent /\ buffer = <<>> /\ pasteMode = FALSE /\ out = <<>> /\ reader = Reading
      /\ \A t \in Timers : flusher[t] = Waiting
  BY DEF StdinInit
<1>2. reader.at = "idle" /\ \A t \in Timers : ~Took(t)
  BY <1>1 DEF Reading, Took, Waiting
<1>3. Emitted = <<>>
  <2>1. [i \in DOMAIN <<>> |-> Bytes(<<>>[i])] = <<>>
    OBVIOUS
  <2> QED BY <1>1, <2>1, FlatEmpty DEF Emitted, Emits
<1>4. <<>> \o (<<>> \o sent) = sent
  <2>1. sent \in Seq(Atoms)
    BY InputType DEF StdinInit
  <2>2. <<>> \o sent = sent
    BY <2>1, ConcatEmptySeq
  <2> QED BY <2>2
<1>5. Sums(IF pasteMode THEN PasteStart \o pasteBuffer ELSE buffer)
  BY <1>1, <1>3, <1>4 DEF Sums
<1> QED BY <1>2, <1>5 DEF Whole

LEMMA SentStays == [StdinNext]_stdinVars => sent' = sent
<1>1. ASSUME NEW chunk, Take(chunk) PROVE sent' = sent
  BY <1>1 DEF Take
<1>2. ASSUME NEW t \in Timers, Flush(t) PROVE sent' = sent
  BY <1>2 DEF Flush, FlushTimerFires, CancelTimer, TakeBuffer, EmitFlushed
<1>3. LookForPasteEnd \/ Split \/ Assign \/ EmitKey \/ EndReading \/ BeginPaste => sent' = sent
  BY DEF LookForPasteEnd, Split, Assign, EmitKey, EndReading, BeginPaste
<1>4. UNCHANGED stdinVars => sent' = sent
  BY DEF stdinVars
<1> QED BY <1>1, <1>2, <1>3, <1>4 DEF StdinNext, Reader, Read, ReadOn
LEMMA RacedStays == [StdinNext]_stdinVars /\ ~raced' => ~raced
<1>1. ASSUME NEW chunk, Take(chunk), ~raced' PROVE ~raced
  BY <1>1 DEF Take
<1>2. ASSUME NEW t \in Timers, Flush(t), ~raced' PROVE ~raced
  BY <1>2 DEF Flush, FlushTimerFires, CancelTimer, TakeBuffer, EmitFlushed
<1>3. (LookForPasteEnd \/ Split \/ Assign \/ EmitKey \/ EndReading \/ BeginPaste) /\ ~raced' => ~raced
  BY DEF LookForPasteEnd, Split, Assign, EmitKey, EndReading, BeginPaste
<1>4. UNCHANGED stdinVars /\ ~raced' => ~raced
  BY DEF stdinVars
<1> QED BY <1>1, <1>2, <1>3, <1>4 DEF StdinNext, Reader, Read, ReadOn
LEMMA Undistracted == ~EscapeBeforePaste => Undisturbed(sent)
  BY DEF EscapeBeforePaste, Undisturbed

\* One thread is at work, and what it holds is the rest of what was sent.
LEMMA WholeStep ==
    ASSUME InputTypes, AloneInv, WholeInv, [StdinNext]_stdinVars
    PROVE  WholeInv'
<1> SUFFICES ASSUME ~raced', ~EscapeBeforePaste' PROVE Whole'
  BY DEF WholeInv
<1>0. ~raced /\ sent' = sent
  BY SentStays, RacedStays
<1>a. ~EscapeBeforePaste
  BY <1>0 DEF EscapeBeforePaste
<1>b. Whole /\ Undisturbed(sent)
  BY <1>0, <1>a, Undistracted DEF WholeInv
<1>c. /\ \A t \in Timers : Busy(t) => ~ReaderBusy /\ ~readTimer /\ ~pasteMode
      /\ \A t, u \in Timers : Busy(t) /\ Busy(u) => t = u
      /\ \A t \in Timers : Took(t) => buffer = <<>>
      /\ ReaderBusy => ~readTimer
      /\ pasteMode => buffer = <<>> /\ ~readTimer /\ reader.at \in {"idle", "paste"}
      /\ reader.at = "paste" => pasteMode
      /\ reader.at = "again" => buffer = <<>>
  BY <1>0 DEF AloneInv
<1>d. /\ unread \in Seq(Atoms) /\ buffer \in Seq(Atoms) /\ pasteBuffer \in Seq(Atoms)
      /\ out \in Seq(Event) /\ reader \in Readers /\ flusher \in [Timers -> Flushers]
      /\ <<>> \in Seq(Atoms) /\ reader.keys \in Seq(Seq(Atoms)) /\ reader.rest \in Seq(Atoms)
      /\ \A t \in Timers : Took(t) => Busy(t)
      /\ Emitted \in Seq(Atoms) /\ Keys \in Seq(Atoms)
      /\ (~ReaderBusy => reader = Reading)
      /\ PasteStart \in Seq(Atoms) /\ PasteStart \o pasteBuffer \in Seq(Atoms)
      /\ Len(buffer) \in Nat /\ Len(pasteBuffer) \in Nat
  <2>1. <<>> \in Seq(Atoms)
    OBVIOUS
  <2>2. /\ unread \in Seq(Atoms) /\ buffer \in Seq(Atoms) /\ pasteBuffer \in Seq(Atoms)
        /\ out \in Seq(Event) /\ reader \in Readers /\ flusher \in [Timers -> Flushers]
        /\ reader.keys \in Seq(Seq(Atoms)) /\ reader.rest \in Seq(Atoms)
        /\ \A t \in Timers : Took(t) => Busy(t)
        /\ (~ReaderBusy => reader = Reading)
    BY DEF InputTypes, Readers, Took, Busy
  <2>3. Emitted \in Seq(Atoms) /\ Keys \in Seq(Atoms)
    BY <2>2, EmitsType, FlatType DEF Emitted, Keys
  <2>4. PasteStart \o pasteBuffer \in Seq(Atoms)
    BY <2>2, MarkType, ConcatProperties
  <2>5. Len(buffer) \in Nat /\ Len(pasteBuffer) \in Nat
    BY <2>2
  <2> QED BY <2>1, <2>2, <2>3, <2>4, <2>5, MarkType
<1>1. ASSUME NEW n \in 1..Len(unread), Read(n) PROVE Whole'
  <2> DEFINE chunk == SubSeq(unread, 1, n)
             left == After(unread, n)
             inHand == IF pasteMode THEN PasteStart \o pasteBuffer ELSE buffer
  <2>1. chunk \in Seq(Atoms) /\ left \in Seq(Atoms) /\ chunk \o left = unread
    <3>1. n \in 0..Len(unread)
      <4> DEFINE U == Len(unread)
      <4>1. U \in Nat /\ n \in 1..U
        BY <1>d
      <4> HIDE DEF U
      <4>2. n \in 0..U
        BY <4>1
      <4> QED BY <4>2 DEF U
    <3> QED BY <1>d, <3>1, AfterFacts
  <2>2. ~FlusherBusy /\ ~ReaderBusy
    BY <1>1 DEF Read, Take
  <2>3. \A t \in Timers : ~Busy(t) /\ ~Took(t)
    BY <1>d, <2>2, FlusherBusyIs
  <2>4. Sums(inHand)
    BY <1>b, <2>2, <2>3 DEF Whole
  <2>5. inHand \in Seq(Atoms)
    BY <1>d
  <2>6. /\ unread' = left /\ Emitted' = Emitted /\ flusher' = flusher
        /\ reader'.at = IF pasteMode THEN "paste" ELSE "split"
        /\ IF pasteMode THEN pasteBuffer' = (pasteBuffer \o buffer) \o chunk
           ELSE buffer' = buffer \o chunk
    BY <1>1 DEF Read, Take, Reading, Emitted
  <2> HIDE DEF chunk, left, inHand
  <2>7. sent = Emitted \o ((inHand \o chunk) \o left)
    <3>1. inHand \o unread = inHand \o (chunk \o left)
      BY <2>1
    <3>2. inHand \o (chunk \o left) = (inHand \o chunk) \o left
      <4>1. chunk \in Seq(Atoms) /\ left \in Seq(Atoms)
        BY <2>1
      <4> QED BY <2>5, <4>1
    <3> QED BY <2>4, <3>1, <3>2 DEF Sums
  <2>8. CASE pasteMode
    <3>1. pasteBuffer \o buffer = pasteBuffer
      BY <1>c, <1>d, <2>8, ConcatEmptySeq
    <3>2. inHand \o chunk = PasteStart \o pasteBuffer'
      <4>1. inHand = PasteStart \o pasteBuffer
        BY <2>8 DEF inHand
      <4>2. (PasteStart \o pasteBuffer) \o chunk = PasteStart \o (pasteBuffer \o chunk)
        <5>1. PasteStart \in Seq(Atoms) /\ pasteBuffer \in Seq(Atoms) /\ chunk \in Seq(Atoms)
          BY <1>d, <2>1
        <5> QED BY <5>1
      <4> QED BY <2>6, <2>8, <3>1, <4>1, <4>2
    <3>3. Sums(PasteStart \o pasteBuffer)'
      BY <2>6, <2>7, <3>2, <1>0 DEF Sums
    <3> QED BY <2>3, <2>6, <2>8, <3>3 DEF Whole, Took, ReaderBusy
  <2>9. CASE ~pasteMode
    <3>1. inHand \o chunk = buffer'
      BY <2>6, <2>9 DEF inHand
    <3>2. Sums(buffer)'
      BY <2>6, <2>7, <3>1, <1>0 DEF Sums
    <3> QED BY <2>3, <2>6, <2>9, <3>2 DEF Whole, Took, ReaderBusy
  <2> QED BY <2>8, <2>9
<1>2. CASE ReadOn
  <2>1. reader.at = "again" /\ buffer = <<>> /\ ~pasteMode /\ ReaderBusy
    BY <1>2, <1>c DEF ReadOn, ReaderBusy
  <2>2. \A t \in Timers : ~Took(t)
    BY <2>1, <1>c, <1>d
  <2>3. Sums(reader.rest)
    BY <1>b, <2>1 DEF Whole
  <2>4. buffer \o reader.rest = reader.rest
    BY <1>d, <2>1, ConcatEmptySeq
  <2>5. /\ unread' = unread /\ Emitted' = Emitted /\ flusher' = flusher
        /\ reader'.at = "split" /\ buffer' = buffer \o reader.rest
    BY <1>2, <2>1 DEF ReadOn, Take, Reading, Emitted
  <2>6. Sums(buffer)'
    BY <1>0, <2>3, <2>4, <2>5 DEF Sums
  <2> QED BY <2>2, <2>5, <2>6 DEF Whole, Took, ReaderBusy
<1>3. CASE LookForPasteEnd
  <2> DEFINE end == Find(pasteBuffer, PasteEnd)
             left == After(pasteBuffer, end + Len(PasteEnd))
             pasted == SubSeq(pasteBuffer, 1, end)
             event == [kind |-> "paste", data |-> pasted]
  <2>1. reader.at = "paste" /\ ReaderBusy /\ pasteMode /\ buffer = <<>>
        /\ \A t \in Timers : ~Took(t)
    <3>1. reader.at = "paste" /\ ReaderBusy
      BY <1>3 DEF LookForPasteEnd, ReaderBusy
    <3> QED BY <3>1, <1>c, <1>d
  <2>2. Sums(PasteStart \o pasteBuffer)
    BY <1>b, <2>1 DEF Whole
  <2>3. CASE end = None
    <3>1. UNCHANGED <<unread, pasteMode, pasteBuffer, out, flusher>> /\ reader' = Reading
      BY <1>3, <2>3 DEF LookForPasteEnd, pasteVars
    <3>2. Sums(PasteStart \o pasteBuffer)'
      BY <1>0, <2>2, <3>1 DEF Sums, Emitted
    <3>3. reader'.at = "idle" /\ \A t \in Timers : ~Took(t)'
      BY <2>1, <3>1 DEF Reading, Took
    <3> QED BY <2>1, <3>1, <3>2, <3>3 DEF Whole
  <2>4. CASE end # None
    <3>1. /\ out' = Append(out, event) /\ pasteMode' = FALSE
          /\ reader' = IF left = <<>> THEN Reading ELSE [Reading EXCEPT !.at = "again", !.rest = left]
          /\ UNCHANGED <<unread, buffer, flusher>>
      BY <1>3, <2>4 DEF LookForPasteEnd
    <3>2. Occurs(pasteBuffer, PasteEnd, end)
      <4>1. Len(pasteBuffer) \in Nat /\ Len(PasteEnd) \in Nat
        BY <1>d, MarkType
      <4> QED BY <2>4, <4>1, FindFacts
    <3>3. /\ end \in 0..Len(pasteBuffer) /\ end + Len(PasteEnd) \in 0..Len(pasteBuffer)
          /\ After(pasteBuffer, end) = PasteEnd \o left
      <4>1. PasteEnd \in Seq(Atoms) /\ Len(PasteEnd) = 3 /\ pasteBuffer \in Seq(Atoms)
        BY <1>d, MarkType
      <4> HIDE DEF end
      <4>2. /\ end \in 0..Len(pasteBuffer) /\ end + 3 \in 0..Len(pasteBuffer)
            /\ After(pasteBuffer, end) = PasteEnd \o After(pasteBuffer, end + 3)
        BY <3>2, <4>1, AfterMark
      <4> QED BY <4>1, <4>2
    <3>4. /\ left \in Seq(Atoms) /\ pasted \in Seq(Atoms)
          /\ pasted \o After(pasteBuffer, end) = pasteBuffer
      BY <1>d, <3>3, AfterFacts
    <3>5. event \in Event /\ Bytes(event) = (PasteStart \o pasted) \o PasteEnd
      BY <3>4 DEF Event, Bytes
    <3> HIDE DEF pasted, left
    <3>6. Emitted' = Emitted \o ((PasteStart \o pasted) \o PasteEnd)
      <4>1. Emits(Append(out, event)) = Emits(out) \o Bytes(event)
        BY <1>d, <3>5, EmitsAppend
      <4> QED BY <3>1, <3>5, <4>1 DEF Emitted
    <3>7. sent = Emitted' \o (left \o unread)
      <4>1. pasteBuffer = pasted \o (PasteEnd \o left)
        BY <3>3, <3>4
      <4>2. Emitted \o ((PasteStart \o (pasted \o (PasteEnd \o left))) \o unread)
              = (Emitted \o ((PasteStart \o pasted) \o PasteEnd)) \o (left \o unread)
        <5>1. /\ PasteEnd \in Seq(Atoms) /\ PasteStart \in Seq(Atoms) /\ Emitted \in Seq(Atoms)
              /\ left \in Seq(Atoms) /\ pasted \in Seq(Atoms) /\ unread \in Seq(Atoms)
          BY <1>d, <3>4, MarkType
        <5>2. PasteMoved(Emitted, PasteStart, pasted, PasteEnd, left, unread)
          BY <5>1, PasteMoves
        <5> QED BY <5>2 DEF PasteMoved
      <4> QED BY <2>2, <3>6, <4>1, <4>2 DEF Sums
    <3>8. CASE left = <<>>
      <4>1. reader'.at = "idle" /\ \A t \in Timers : ~Took(t)'
        BY <2>1, <3>1, <3>8 DEF Reading, Took
      <4>2. Sums(buffer)'
        BY <1>0, <2>1, <3>1, <3>7, <3>8 DEF Sums
      <4> QED BY <3>1, <4>1, <4>2 DEF Whole
    <3>9. CASE left # <<>>
      <4>1. reader' = [at |-> "again", keys |-> <<>>, rest |-> left]
        BY <3>1, <3>9 DEF Reading
      <4>2. reader'.at = "again" /\ reader'.rest = left /\ \A t \in Timers : ~Took(t)'
        BY <2>1, <3>1, <4>1 DEF Took
      <4>3. Sums(reader.rest)'
        BY <1>0, <3>1, <3>7, <4>2 DEF Sums
      <4> QED BY <4>2, <4>3 DEF Whole, ReaderBusy
    <3> QED BY <3>8, <3>9
  <2> QED BY <2>3, <2>4
<1>e. ASSUME ReaderBusy PROVE (\A t \in Timers : ~Took(t)) /\ (reader.at # "paste" => ~pasteMode)
  BY <1>e, <1>c, <1>d DEF ReaderBusy
<1>4. CASE Split
  <2> DEFINE start == Find(buffer, PasteStart)
             from == IF start = None THEN buffer ELSE SubSeq(buffer, 1, start)
             some == Extract(from)
  <2>1. /\ reader.at = "split" /\ ReaderBusy
        /\ reader' = [at |-> IF start = None THEN "assign" ELSE "before",
                      keys |-> some.keys, rest |-> some.rest]
        /\ UNCHANGED <<unread, buffer, flusher, out>>
    BY <1>4 DEF Split, ReaderBusy
  <2>2. Sums(buffer) /\ sent = Emitted \o (buffer \o unread)
    BY <1>b, <2>1 DEF Whole, Sums
  <2>3. Emitted' = Emitted /\ Keys' = FlattenSeq(some.keys) /\ reader'.rest = some.rest
        /\ \A t \in Timers : ~Took(t)'
    BY <1>e, <2>1 DEF Emitted, Keys, Took
  <2>4. CASE start = None
    <3>1. FlattenSeq(some.keys) \o some.rest = buffer
      BY <1>d, <2>4, ExtractType
    <3>2. reader'.at = "assign"
      BY <2>1, <2>4
    <3> HIDE DEF some
    <3>3. Sums(Keys \o reader.rest)'
      BY <1>0, <2>1, <2>2, <2>3, <3>1 DEF Sums
    <3> QED BY <2>3, <3>2, <3>3 DEF Whole, ReaderBusy
  <2>5. CASE start # None
    <3>1. FlattenSeq(some.keys) \o After(buffer, start) = buffer
      <4>1. from = SubSeq(buffer, 1, start)
        BY <2>5
      <4>2. Undisturbed(Emitted \o (buffer \o unread))
        BY <1>b, <2>2
      <4> QED BY <1>d, <2>5, <4>1, <4>2, SplitBefore
    <3>2. reader'.at = "before"
      BY <2>1, <2>5
    <3> HIDE DEF some
    <3>3. buffer' = buffer /\ Find(buffer', PasteStart) = start
      BY <2>1
    <3>4. Sums(Keys \o After(buffer, Find(buffer, PasteStart)))'
      BY <1>0, <2>1, <2>2, <2>3, <3>1, <3>3 DEF Sums
    <3> QED BY <2>3, <2>5, <3>2, <3>3, <3>4 DEF Whole, ReaderBusy
  <2> QED BY <2>4, <2>5
<1>5. CASE Assign
  <2>1. /\ reader.at = "assign" /\ ReaderBusy /\ buffer' = reader.rest
        /\ reader' = [reader EXCEPT !.at = "emit", !.rest = <<>>]
        /\ UNCHANGED <<unread, flusher, out>>
    BY <1>5 DEF Assign, ReaderBusy
  <2>2. reader'.at = "emit" /\ reader'.keys = reader.keys
    BY <1>d, <2>1 DEF Readers
  <2>3. Sums(Keys \o reader.rest)
    BY <1>b, <2>1 DEF Whole
  <2>4. Sums(Keys \o buffer)' /\ \A t \in Timers : ~Took(t)'
    BY <1>0, <1>e, <2>1, <2>2, <2>3 DEF Sums, Keys, Emitted, Took
  <2> QED BY <2>2, <2>4 DEF Whole, ReaderBusy
<1>6. CASE EmitKey
  <2> DEFINE h == Head(reader.keys)
             t == FlattenSeq(Tail(reader.keys))
             inHand == IF reader.at = "emit" THEN buffer
                     ELSE After(buffer, Find(buffer, PasteStart))
  <2>1. /\ reader.at \in {"emit", "before"} /\ ReaderBusy /\ reader.keys # <<>> /\ Deliver(h)
        /\ reader' = [reader EXCEPT !.keys = Tail(reader.keys)]
        /\ UNCHANGED <<unread, buffer, flusher>>
    BY <1>6 DEF EmitKey, ReaderBusy
  <2>2. /\ h \in Seq(Atoms) /\ t \in Seq(Atoms) /\ Keys = h \o t
    <3>1. h \in Seq(Atoms) /\ Tail(reader.keys) \in Seq(Seq(Atoms))
      BY <1>d, <2>1, HeadTailProperties
    <3> QED BY <1>d, <2>1, <3>1, FlatType, FlatTail DEF Keys
  <2>3. reader'.at = reader.at /\ Keys' = t
    <3>1. reader'.at = reader.at /\ reader'.keys = Tail(reader.keys)
      BY <1>d, <2>1 DEF Readers
    <3> QED BY <3>1 DEF Keys
  <2> HIDE DEF h, t
  <2>4. Emitted' = Emitted \o h
    BY <1>d, <2>1, <2>2, DeliverTypes DEF Emitted
  <2>5. /\ inHand \in Seq(Atoms) /\ Sums(Keys \o inHand)
        /\ (reader.at = "before" => Find(buffer, PasteStart) # None)
    <3>1. CASE reader.at = "emit"
      BY <1>b, <1>d, <3>1 DEF Whole
    <3>2. CASE reader.at = "before"
      <4>1. /\ Sums(Keys \o After(buffer, Find(buffer, PasteStart)))
            /\ Find(buffer, PasteStart) # None
        BY <1>b, <3>2 DEF Whole
      <4>2. Occurs(buffer, PasteStart, Find(buffer, PasteStart))
        <5>1. Len(buffer) \in Nat /\ Len(PasteStart) \in Nat
          BY <1>d, MarkType
        <5> QED BY <4>1, <5>1, FindFacts
      <4>3. Find(buffer, PasteStart) \in 0..Len(buffer)
        BY <1>d, <4>2, MarkType, AfterMark
      <4>4. After(buffer, Find(buffer, PasteStart)) \in Seq(Atoms)
        BY <1>d, <4>3, AfterFacts
      <4> QED BY <3>2, <4>1, <4>4
    <3> QED BY <2>1, <3>1, <3>2
  <2>6. inHand' = inHand
    BY <2>1, <2>3
  <2> HIDE DEF inHand
  <2>7. sent = (Emitted \o h) \o ((t \o inHand) \o unread)
    <3>1. KeyMoved(Emitted, h, t, inHand, unread)
      BY <1>d, <2>2, <2>5, KeyMoves
    <3> QED BY <2>2, <2>5, <3>1 DEF KeyMoved, Sums
  <2>8. Sums(Keys \o inHand)' /\ \A u \in Timers : ~Took(u)'
    <3>1. Sums(Keys \o inHand)'
      BY <1>0, <2>1, <2>3, <2>4, <2>6, <2>7 DEF Sums
    <3> QED BY <1>e, <2>1, <3>1 DEF Took
  <2> QED BY <2>1, <2>3, <2>5, <2>8 DEF Whole, ReaderBusy, inHand
<1>7. CASE EndReading
  <2>1. /\ reader.at = "emit" /\ ReaderBusy /\ reader.keys = <<>> /\ reader' = Reading
        /\ UNCHANGED <<unread, buffer, pasteMode, flusher, out>>
    BY <1>7 DEF EndReading, ReaderBusy, pasteVars
  <2>2. Sums(Keys \o buffer) /\ Keys = <<>>
    BY <1>b, <2>1, FlatEmpty DEF Whole, Keys
  <2>3. Sums(buffer)
    BY <1>d, <2>2, ConcatEmptySeq DEF Sums
  <2>4. Sums(buffer)' /\ ~pasteMode' /\ reader'.at = "idle" /\ \A t \in Timers : ~Took(t)'
    BY <1>0, <1>e, <2>1, <2>3 DEF Sums, Emitted, Took, Reading
  <2> QED BY <2>4 DEF Whole
<1>8. CASE BeginPaste
  <2> DEFINE start == Find(buffer, PasteStart)
             more == After(buffer, start + Len(PasteStart))
  <2>1. /\ reader.at = "before" /\ ReaderBusy /\ reader.keys = <<>>
        /\ pasteBuffer' = IF start = None THEN <<>> ELSE more
        /\ reader' = [Reading EXCEPT !.at = "paste"]
        /\ UNCHANGED <<unread, flusher, out>>
    BY <1>8 DEF BeginPaste, ReaderBusy
  <2>2. start # None /\ Sums(Keys \o After(buffer, start)) /\ Keys = <<>>
    BY <1>b, <2>1, FlatEmpty DEF Whole, Keys
  <2>3. Occurs(buffer, PasteStart, start)
    <3>1. Len(buffer) \in Nat /\ Len(PasteStart) \in Nat
      BY <1>d, MarkType
    <3> QED BY <2>2, <3>1, FindFacts
  <2>4. start \in 0..Len(buffer) /\ After(buffer, start) = PasteStart \o more
    <3>1. /\ start \in 0..Len(buffer)
          /\ After(buffer, start) = PasteStart \o After(buffer, start + 3)
      <4>1. PasteStart \in Seq(Atoms) /\ Len(PasteStart) = 3 /\ buffer \in Seq(Atoms)
        BY <1>d, MarkType
      <4> HIDE DEF start
      <4> QED BY <2>3, <4>1, AfterMark
    <3> QED BY <3>1, MarkType
  <2>5. After(buffer, start) \in Seq(Atoms)
    BY <1>d, <2>4, AfterFacts
  <2>6. Sums(PasteStart \o more)
    <3>1. <<>> \o After(buffer, start) = After(buffer, start)
      <4> DEFINE x == After(buffer, start)
      <4> HIDE DEF x
      <4>1. x \in Seq(Atoms)
        BY <2>5 DEF x
      <4>2. <<>> \o x = x
        BY <4>1, ConcatEmptySeq
      <4> QED BY <4>2 DEF x
    <3> QED BY <2>2, <2>4, <3>1
  <2>7. reader'.at = "paste" /\ pasteBuffer' = more /\ \A t \in Timers : ~Took(t)'
    BY <1>e, <2>1, <2>2 DEF Reading, Took
  <2> HIDE DEF more
  <2>8. Sums(PasteStart \o pasteBuffer)'
    BY <1>0, <2>1, <2>6, <2>7 DEF Sums, Emitted
  <2> QED BY <2>7, <2>8 DEF Whole, ReaderBusy
<1>9. ASSUME NEW t \in Timers, FlushTimerFires(t) \/ CancelTimer(t) PROVE Whole'
  <2>1. /\ UNCHANGED <<unread, buffer, pasteMode, pasteBuffer, reader, out>> /\ ~Took(t)
        /\ ~ReaderBusy
    <3>1. UNCHANGED <<unread, buffer, pasteMode, pasteBuffer, reader, out>> /\ ~Took(t)
      BY <1>9 DEF FlushTimerFires, CancelTimer, pasteVars, Took, Waiting
    <3>2. ~ReaderBusy
      <4>1. CASE FlushTimerFires(t)
        BY <4>1 DEF FlushTimerFires
      <4>2. CASE CancelTimer(t)
        BY <4>2, <1>c DEF CancelTimer, Busy
      <4> QED BY <4>1, <4>2, <1>9
    <3> QED BY <3>1, <3>2
  <2>2. ASSUME NEW u \in Timers
        PROVE  /\ Took(u)' <=> Took(u)
               /\ Took(u) => flusher'[u] = flusher[u]
    <3>1. CASE u = t
      <4>1. flusher'[t].at \in {"fired", "cancelled"}
        BY <1>9, <1>d DEF FlushTimerFires, CancelTimer, Flushers
      <4> QED BY <2>1, <3>1, <4>1 DEF Took
    <3>2. CASE u # t
      <4>1. flusher'[u] = flusher[u]
        BY <1>9, <1>d, <3>2 DEF FlushTimerFires, CancelTimer
      <4> QED BY <4>1 DEF Took
    <3> QED BY <3>1, <3>2
  <2>3. Emitted' = Emitted
    BY <2>1 DEF Emitted
  <2>4. reader.at = "idle"
    BY <2>1 DEF ReaderBusy
  <2> QED BY <1>0, <1>b, <2>1, <2>2, <2>3, <2>4 DEF Whole, Sums, ReaderBusy
<1>10. ASSUME NEW t \in Timers, TakeBuffer(t) PROVE Whole'
  <2>1. /\ flusher[t].at = "cancelled" /\ Busy(t) /\ ~ReaderBusy /\ ~pasteMode
        /\ \A u \in Timers : ~Took(u)
    <3>1. flusher[t].at = "cancelled" /\ Busy(t) /\ ~Took(t)
      BY <1>10 DEF TakeBuffer, Busy, Took
    <3> QED BY <3>1, <1>c, <1>d
  <2>2. Sums(buffer)
    BY <1>b, <2>1 DEF Whole
  <2>3. /\ buffer' = <<>> /\ UNCHANGED <<unread, pasteMode, pasteBuffer, reader, out>>
        /\ flusher' = [flusher EXCEPT ![t] = IF buffer = <<>> THEN Over
                                             ELSE [at |-> "took", keys |-> buffer]]
    BY <1>10 DEF TakeBuffer, pasteVars
  <2>4. \A u \in Timers : u # t => ~Took(u)'
    <3> SUFFICES ASSUME NEW u \in Timers, u # t PROVE ~Took(u)'
      OBVIOUS
    <3>1. flusher'[u] = flusher[u]
      BY <1>d, <2>3
    <3> QED BY <2>1, <3>1 DEF Took
  <2>5. reader'.at = "idle" /\ ~pasteMode'
    BY <2>1, <2>3 DEF ReaderBusy
  <2>6. CASE buffer = <<>>
    <3>1. Sums(buffer)'
      BY <1>0, <2>2, <2>3, <2>6 DEF Sums, Emitted
    <3>2. ~Took(t)'
      BY <1>d, <2>3, <2>6 DEF Took, Over
    <3> QED BY <2>4, <2>5, <3>1, <3>2 DEF Whole
  <2>7. CASE buffer # <<>>
    <3>1. flusher'[t] = [at |-> "took", keys |-> buffer]
      BY <1>d, <2>3, <2>7
    <3>2. Took(t)' /\ flusher'[t].keys = buffer
      BY <3>1 DEF Took
    <3>3. Sums(flusher[t].keys)'
      BY <1>0, <2>2, <2>3, <3>2 DEF Sums, Emitted
    <3> QED BY <2>4, <2>5, <3>2, <3>3 DEF Whole
  <2> QED BY <2>6, <2>7
<1>11. ASSUME NEW t \in Timers, EmitFlushed(t) PROVE Whole'
  <2> DEFINE key == flusher[t].keys
  <2>1. Took(t) /\ Busy(t) /\ ~ReaderBusy /\ ~pasteMode /\ buffer = <<>> /\ key \in Seq(Atoms)
    <3>1. Took(t)
      BY <1>11 DEF EmitFlushed, Took
    <3> QED BY <3>1, <1>c, <1>d DEF Flushers
  <2>2. Sums(key)
    BY <1>b, <2>1 DEF Whole
  <2>3. /\ UNCHANGED <<unread, buffer, pasteMode, reader>> /\ Deliver(key)
        /\ flusher' = [flusher EXCEPT ![t] = Over]
    BY <1>11 DEF EmitFlushed, pasteVars
  <2> HIDE DEF key
  <2>4. Emitted' = Emitted \o key
    BY <1>d, <2>1, <2>3, DeliverTypes DEF Emitted
  <2>5. sent = (Emitted \o key) \o (<<>> \o unread)
    <3>1. Shifted(Emitted, key, unread)
      BY <1>d, <2>1, Moves
    <3> QED BY <2>2, <3>1 DEF Shifted, Sums
  <2>6. Sums(buffer)'
    BY <1>0, <2>1, <2>3, <2>4, <2>5 DEF Sums
  <2>7. \A u \in Timers : ~Took(u)'
    <3> SUFFICES ASSUME NEW u \in Timers PROVE ~Took(u)'
      OBVIOUS
    <3>1. CASE u = t
      BY <1>d, <2>3, <3>1 DEF Took, Over
    <3>2. CASE u # t
      <4>1. flusher'[u] = flusher[u]
        BY <1>d, <2>3, <3>2
      <4>2. ~Took(u)
        BY <1>c, <1>d, <2>1, <3>2
      <4> QED BY <4>1, <4>2 DEF Took
    <3> QED BY <3>1, <3>2
  <2>8. reader'.at = "idle" /\ ~pasteMode'
    BY <2>1, <2>3 DEF ReaderBusy
  <2> QED BY <2>6, <2>7, <2>8 DEF Whole
<1>12. CASE UNCHANGED stdinVars
  BY <1>12, <1>b DEF stdinVars, pasteVars, Whole, Sums, Emitted, Keys, Took, ReaderBusy
<1> QED BY <1>1, <1>2, <1>3, <1>4, <1>5, <1>6, <1>7, <1>8, <1>9, <1>10, <1>11, <1>12
        DEF StdinNext, Reader, Flush

-----------------------------------------------------------------------------
(* The invariant: what is on its way as keys is no part of a paste.           *)
LEMMA MarksInit == StdinInit => MarksInv
<1> SUFFICES ASSUME StdinInit PROVE Marks
  BY DEF MarksInv
<1>1. buffer = <<>> /\ pasteMode = FALSE /\ out = <<>> /\ reader = Reading
      /\ \A t \in Timers : flusher[t] = Waiting
  BY DEF StdinInit
<1>2. reader.at = "idle" /\ \A t \in Timers : ~Took(t)
  BY <1>1 DEF Reading, Took, Waiting
<1>3. Emitted = <<>>
  <2>1. [i \in DOMAIN <<>> |-> Bytes(<<>>[i])] = <<>>
    OBVIOUS
  <2> QED BY <1>1, <2>1, FlatEmpty DEF Emitted, Emits
<1>4. Ended(sent, Len(Emitted))
  BY <1>3 DEF Ended
<1>5. Unmarked(buffer)
  <2>1. Len(buffer) = 0
    BY <1>1
  <2> QED BY <2>1, MarkType DEF Unmarked, Occurs
<1>6. \A i \in DOMAIN out : out[i].kind = "key" => ~Contains(out[i].data, Pasted)
  BY <1>1
<1> QED BY <1>2, <1>4, <1>5, <1>6 DEF Marks

LEMMA TornStays == [StdinNext]_stdinVars /\ ~tornMark' => ~tornMark
<1>1. ASSUME NEW chunk, Take(chunk), ~tornMark' PROVE ~tornMark
  BY <1>1 DEF Take
<1>2. ASSUME NEW t \in Timers, Flush(t), ~tornMark' PROVE ~tornMark
  BY <1>2 DEF Flush, FlushTimerFires, CancelTimer, TakeBuffer, EmitFlushed
<1>3. /\ LookForPasteEnd \/ Split \/ Assign \/ EmitKey \/ EndReading \/ BeginPaste
      /\ ~tornMark'
      => ~tornMark
  BY DEF LookForPasteEnd, Split, Assign, EmitKey, EndReading, BeginPaste
<1>4. UNCHANGED stdinVars /\ ~tornMark' => ~tornMark
  BY DEF stdinVars
<1> QED BY <1>1, <1>2, <1>3, <1>4 DEF StdinNext, Reader, Read, ReadOn

\* A key that is delivered, with more to come.
NoKeyPasted == \A i \in DOMAIN out : out[i].kind = "key" => ~Contains(out[i].data, Pasted)
LEMMA KeyDelivered ==
    ASSUME out \in Seq(Event), sent \in Inputs, sent' = sent, NEW key \in Seq(Atoms),
           NEW t \in Seq(Atoms), NEW inHand \in Seq(Atoms), unread \in Seq(Atoms),
           sent = Emitted \o (((key \o t) \o inHand) \o unread),
           Ended(sent, Len(Emitted)), MarksAhead(key \o t), Deliver(key), NoKeyPasted
    PROVE  /\ Ended(sent, Len(Emitted)) ' /\ NoKeyPasted'
           /\ NoneBegins(sent', Len(Emitted'), Len(Emitted') + Len(t))
<1>1. /\ out' \in Seq(Event) /\ Emitted \in Seq(Atoms) /\ Emitted' = Emitted \o key
      /\ \E event \in Event : /\ out' = Append(out, event) /\ event.data = key
                              /\ event.kind \in {"key", "echo"}
  BY DeliverTypes DEF Emitted
<1> DEFINE c == Len(Emitted)
           k == Len(key)
           l == Len(t)
<1>2. c \in Nat /\ k \in Nat /\ l \in Nat /\ Len(key \o t) = k + l
  BY <1>1
<1>3. Len(Emitted') = c + k
  <2> DEFINE e == Emitted
  <2>1. e \in Seq(Atoms)
    BY <1>1
  <2> HIDE DEF e
  <2>2. Len(e \o key) = Len(e) + Len(key)
    BY <2>1
  <2> QED BY <1>1, <2>2 DEF e
<1>4. NoneBegins(sent, c, c + (k + l))
  BY <1>2 DEF MarksAhead
<1> HIDE DEF c, k, l
<1>5. NoneBegins(sent, c, c + k) /\ NoneBegins(sent, c + k, (c + k) + l)
  <2>1. ASSUME NEW n \in Nat, c <= n, n < c + k PROVE ~PasteBegins(sent, n)
    <3>1. n < c + (k + l)
      BY <1>2, <2>1
    <3> QED BY <2>1, <3>1, <1>4 DEF NoneBegins
  <2>2. ASSUME NEW n \in Nat, c + k <= n, n < (c + k) + l PROVE ~PasteBegins(sent, n)
    <3>1. c <= n /\ n < c + (k + l)
      BY <1>2, <2>2
    <3> QED BY <3>1, <1>4 DEF NoneBegins
  <2> QED BY <2>1, <2>2 DEF NoneBegins
<1>6. Ended(sent, c + k)
  <2>1. c + k \in Nat /\ c <= c + k /\ Ended(sent, c)
    BY <1>2 DEF c
  <2> QED BY <2>1, <1>2, <1>5, EndedOn
<1>7. ~Contains(key, Pasted)
  <2> DEFINE u == (t \o inHand) \o unread
             e == Emitted
  <2>1. u \in Seq(Atoms) /\ e \in Seq(Atoms)
    BY <1>1
  <2>2. sent = e \o (key \o u)
    <3>1. sent = (e \o key) \o u
      <4>1. KeyMoved(Emitted, key, t, inHand, unread)
        BY <1>1, KeyMoves
      <4> QED BY <4>1 DEF KeyMoved
    <3> HIDE DEF u, e
    <3>2. (e \o key) \o u = e \o (key \o u)
      <4>1. Grouped(e, key, u)
        BY <2>1, Groups
      <4> QED BY <4>1 DEF Grouped
    <3> QED BY <3>1, <3>2
  <2> HIDE DEF u
  <2>3. /\ e \o (key \o u) \in Inputs /\ Ended(e \o (key \o u), Len(e))
        /\ NoneBegins(e \o (key \o u), Len(e), Len(e) + Len(key))
    <3>1. Ended(sent, Len(e)) /\ NoneBegins(sent, Len(e), Len(e) + Len(key))
      BY <1>5 DEF c, k
    <3> HIDE DEF e
    <3> QED BY <2>2, <3>1
  <2> HIDE DEF e
  <2> QED BY <2>1, <2>3, NoPasted
<1>8. NoKeyPasted'
  <2>1. PICK event \in Event : /\ out' = Append(out, event) /\ event.data = key
                               /\ event.kind \in {"key", "echo"}
    BY <1>1
  <2> DEFINE o == Len(out)
  <2>2. o \in Nat /\ DOMAIN out = 1..o /\ Len(out') = o + 1 /\ out'[o + 1] = event
        /\ \A i \in 1..o : out'[i] = out[i]
    BY <2>1, AppendProperties
  <2>3. DOMAIN out' = 1..Len(out')
    BY <1>1
  <2> HIDE DEF o
  <2>4. ASSUME NEW i \in DOMAIN out', out'[i].kind = "key" PROVE ~Contains(out'[i].data, Pasted)
    <3>1. i \in 1..o \/ i = o + 1
      <4>1. o \in Nat
        BY <2>2
      <4>2. Len(out') = o + 1
        BY <2>2
      <4>3. i \in 1..(o + 1)
        BY <2>3, <2>4, <4>2, Zenon
      <4> QED BY <4>1, <4>3
    <3>2. CASE i \in 1..o
      BY <2>2, <2>4, <3>2 DEF NoKeyPasted
    <3>3. CASE i = o + 1
      BY <1>7, <2>1, <2>2, <3>3
    <3> QED BY <3>1, <3>2, <3>3
  <2> QED BY <2>4 DEF NoKeyPasted
<1>9. Ended(sent', Len(Emitted')) /\ NoneBegins(sent', Len(Emitted'), Len(Emitted') + Len(t))
  BY <1>3, <1>5, <1>6 DEF l
<1> QED BY <1>8, <1>9

LEMMA MarksStep ==
    ASSUME InputTypes, AloneInv, WholeInv, MarksInv, [StdinNext]_stdinVars
    PROVE  MarksInv'
<1> SUFFICES ASSUME ~raced', ~EscapeBeforePaste', ~tornMark' PROVE Marks'
  BY DEF MarksInv
<1>0. ~raced /\ ~tornMark /\ sent' = sent
  BY SentStays, RacedStays, TornStays
<1>a. ~EscapeBeforePaste
  BY <1>0 DEF EscapeBeforePaste
<1>b. Whole /\ Marks /\ Undisturbed(sent)
  BY <1>0, <1>a, Undistracted DEF WholeInv, MarksInv
<1>c. /\ \A t \in Timers : Busy(t) => ~ReaderBusy /\ ~readTimer /\ ~pasteMode
      /\ \A t, u \in Timers : Busy(t) /\ Busy(u) => t = u
      /\ \A t \in Timers : Took(t) => buffer = <<>>
      /\ pasteMode => buffer = <<>> /\ ~readTimer /\ reader.at \in {"idle", "paste"}
      /\ reader.at = "paste" => pasteMode
  BY <1>0 DEF AloneInv
<1>d. /\ unread \in Seq(Atoms) /\ buffer \in Seq(Atoms) /\ pasteBuffer \in Seq(Atoms)
      /\ sent \in Inputs
      /\ out \in Seq(Event) /\ reader \in Readers /\ flusher \in [Timers -> Flushers]
      /\ <<>> \in Seq(Atoms) /\ reader.keys \in Seq(Seq(Atoms)) /\ reader.rest \in Seq(Atoms)
      /\ \A t \in Timers : Took(t) => Busy(t)
      /\ Emitted \in Seq(Atoms) /\ Keys \in Seq(Atoms)
      /\ (~ReaderBusy => reader = Reading)
      /\ Len(buffer) \in Nat /\ Len(pasteBuffer) \in Nat
  <2>1. <<>> \in Seq(Atoms)
    OBVIOUS
  <2>2. /\ unread \in Seq(Atoms) /\ buffer \in Seq(Atoms) /\ pasteBuffer \in Seq(Atoms)
        /\ sent \in Inputs
        /\ out \in Seq(Event) /\ reader \in Readers /\ flusher \in [Timers -> Flushers]
        /\ reader.keys \in Seq(Seq(Atoms)) /\ reader.rest \in Seq(Atoms)
        /\ \A t \in Timers : Took(t) => Busy(t)
        /\ (~ReaderBusy => reader = Reading)
    BY DEF InputTypes, Readers, Took, Busy
  <2>3. Emitted \in Seq(Atoms) /\ Keys \in Seq(Atoms)
    BY <2>2, EmitsType, FlatType DEF Emitted, Keys
  <2>4. Len(buffer) \in Nat /\ Len(pasteBuffer) \in Nat
    BY <2>2
  <2> QED BY <2>1, <2>2, <2>3, <2>4
<1>e. ASSUME ReaderBusy PROVE (\A t \in Timers : ~Took(t)) /\ (reader.at # "paste" => ~pasteMode)
  BY <1>e, <1>c, <1>d DEF ReaderBusy
<1>f. Ended(sent, Len(Emitted)) /\ NoKeyPasted
  BY <1>b DEF Marks, NoKeyPasted
<1>g. ASSUME out' = out PROVE Ended(sent', Len(Emitted')) /\ NoKeyPasted' /\ Emitted' = Emitted
  <2>1. Emitted' = Emitted /\ NoKeyPasted'
    BY <1>f, <1>g DEF Emitted, NoKeyPasted
  <2> QED BY <1>0, <1>f, <2>1
<1>h. ASSUME (~ReaderBusy /\ ~FlusherBusy) \/ ReaderBusy, flusher' = flusher
      PROVE  \A t \in Timers : ~Took(t)'
  <2>1. \A t \in Timers : ~Took(t)
    BY <1>c, <1>d, <1>h, FlusherBusyIs
  <2> QED BY <1>h, <2>1 DEF Took
<1>1. CASE (\E n \in 1..Len(unread) : Read(n)) \/ ReadOn
  <2>1. /\ out' = out /\ flusher' = flusher /\ reader'.at \in {"paste", "split"}
        /\ (~ReaderBusy /\ ~FlusherBusy) \/ ReaderBusy
    BY <1>1 DEF Read, ReadOn, Take, Reading, ReaderBusy
  <2>2. \A t \in Timers : ~Took(t)'
    BY <1>h, <2>1
  <2> QED BY <1>g, <2>1, <2>2 DEF Marks, NoKeyPasted
<1>3. CASE LookForPasteEnd
  <2> DEFINE end == Find(pasteBuffer, PasteEnd)
             left == After(pasteBuffer, end + Len(PasteEnd))
             pasted == SubSeq(pasteBuffer, 1, end)
             event == [kind |-> "paste", data |-> pasted]
  <2>1. reader.at = "paste" /\ ReaderBusy /\ pasteMode /\ buffer = <<>> /\ flusher' = flusher
    BY <1>3, <1>c DEF LookForPasteEnd, ReaderBusy
  <2>2. (\A t \in Timers : ~Took(t)') /\ Sums(PasteStart \o pasteBuffer) /\ buffer' = <<>>
    BY <1>b, <1>h, <1>3, <2>1 DEF Whole, LookForPasteEnd
  <2>3. CASE end = None
    <3>1. out' = out /\ pasteMode' /\ reader'.at = "idle"
      BY <1>3, <2>1, <2>3 DEF LookForPasteEnd, pasteVars, Reading
    <3> QED BY <1>g, <2>2, <3>1 DEF Marks, NoKeyPasted
  <2>4. CASE end # None
    <3>1. /\ out' = Append(out, event)
          /\ reader' = IF left = <<>> THEN Reading ELSE [Reading EXCEPT !.at = "again", !.rest = left]
      BY <1>3, <2>4 DEF LookForPasteEnd
    <3>2. Occurs(pasteBuffer, PasteEnd, end)
      <4>1. Len(pasteBuffer) \in Nat /\ Len(PasteEnd) \in Nat
        BY <1>d, MarkType
      <4> QED BY <2>4, <4>1, FindFacts
    <3>3. end \in 0..Len(pasteBuffer)
      <4>1. PasteEnd \in Seq(Atoms) /\ Len(PasteEnd) = 3 /\ pasteBuffer \in Seq(Atoms)
        BY <1>d, MarkType
      <4> HIDE DEF end
      <4> QED BY <3>2, <4>1, AfterMark
    <3>4. pasted \in Seq(Atoms) /\ Len(pasted) = end
      BY <1>d, <3>3, AfterFacts
    <3>5. event \in Event /\ event.kind = "paste" /\ Bytes(event) = (PasteStart \o pasted) \o PasteEnd
      BY <3>4 DEF Event, Bytes
    <3>6. reader'.at \in {"idle", "again"}
      <4> HIDE DEF left
      <4>1. reader' = Reading \/ reader' = [Reading EXCEPT !.at = "again", !.rest = left]
        BY <3>1
      <4>2. Reading.at = "idle" /\ [Reading EXCEPT !.at = "again", !.rest = left].at = "again"
        BY DEF Reading
      <4> QED BY <4>1, <4>2
    <3> DEFINE c == Len(Emitted)
    <3> HIDE DEF pasted
    <3>7. Emitted' = Emitted \o ((PasteStart \o pasted) \o PasteEnd) /\ c \in Nat /\ end \in Nat
      <4>1. Emits(Append(out, event)) = Emits(out) \o Bytes(event)
        BY <1>d, <3>5, EmitsAppend
      <4>2. c \in Nat
        BY <1>d
      <4>3. end \in Nat
        BY <3>3
      <4> QED BY <3>1, <3>5, <4>1, <4>2, <4>3 DEF Emitted
    <3>8. Len(Emitted') = c + (end + 6)
      <4>1. /\ (PasteStart \o pasted) \o PasteEnd \in Seq(Atoms)
            /\ Len((PasteStart \o pasted) \o PasteEnd) = 3 + Len(pasted) + 3
        <5> DEFINE i == PasteStart  f == PasteEnd
        <5>1. i \in Seq(Atoms) /\ f \in Seq(Atoms) /\ Len(i) = 3 /\ Len(f) = 3
          BY MarkType
        <5> HIDE DEF i, f
        <5>t. pasted \in Seq(Atoms)
          BY <3>4
        <5>u. i \o pasted \in Seq(Atoms) /\ Len(i \o pasted) = Len(i) + Len(pasted)
          BY <5>t, <5>1, ConcatProperties
        <5>2. i \o pasted \in Seq(Atoms) /\ Len(i \o pasted) = 3 + Len(pasted)
          BY <5>u, <5>1
        <5>3. /\ (i \o pasted) \o f \in Seq(Atoms)
              /\ Len((i \o pasted) \o f) = Len(i \o pasted) + Len(f)
          BY <5>1, <5>2, ConcatProperties
        <5> QED BY <5>1, <5>2, <5>3 DEF i, f
      <4> DEFINE x == (PasteStart \o pasted) \o PasteEnd
      <4>2. x \in Seq(Atoms) /\ Len(x) = 3 + Len(pasted) + 3
        BY <4>1
      <4>3. Emitted' = Emitted \o x
        BY <3>7
      <4> HIDE DEF x
      <4>4. Len(Emitted \o x) = Len(Emitted) + Len(x)
        BY <1>d, <4>2, ConcatProperties
      <4>5. 3 + Len(pasted) + 3 = end + 6
        <5> HIDE DEF end
        <5>1. 3 + end + 3 = end + 6
          BY <3>7
        <5> QED BY <3>4, <5>1
      <4> QED BY <4>2, <4>3, <4>4, <4>5
    <3>9. PasteEnds(sent, c + 3 + end)
      <4>1. PasteEnds(pasteBuffer, end) /\ end + 3 <= Len(pasteBuffer)
        <5>1. PasteEnds(pasteBuffer, end)
          <6> HIDE DEF end
          <6> QED BY <1>d, <3>2, EndOccurs
        <5>2. end \in 0..(Len(pasteBuffer) - 3)
          BY <5>1 DEF PasteEnds, Three
        <5> DEFINE P == Len(pasteBuffer)
        <5>3. P \in Nat /\ end \in 0..(P - 3)
          BY <1>d, <5>2
        <5> HIDE DEF P, end
        <5>4. end + 3 <= P
          BY <5>3
        <5> QED BY <5>1, <5>4 DEF P
      <4> DEFINE e == Emitted \o PasteStart
                 p == pasteBuffer
      <4>2. e \in Seq(Atoms) /\ Len(e) = c + 3
        <5> DEFINE i == PasteStart  m == Emitted
        <5>1. i \in Seq(Atoms) /\ m \in Seq(Atoms) /\ Len(i) = 3
          BY <1>d, MarkType
        <5> HIDE DEF i, m
        <5>u. m \o i \in Seq(Atoms) /\ Len(m \o i) = Len(m) + Len(i)
          BY <5>1, ConcatProperties
        <5>2. m \o i \in Seq(Atoms) /\ Len(m \o i) = Len(m) + 3
          BY <5>u, <5>1
        <5> QED BY <5>2 DEF i, m
      <4>3. sent = e \o (p \o unread)
        <5>1. MovedOn(Emitted, PasteStart, pasteBuffer, unread)
          BY <1>d, MarkType, MovesOn
        <5> QED BY <2>2, <5>1 DEF MovedOn, Sums
      <4> HIDE DEF e, end, c
      <4>4. Three(e \o (p \o unread), ESC, Bracket, PasteOff, Len(e) + end)
        BY <1>d, <3>7, <4>1, <4>2, ThreeAt DEF PasteEnds
      <4> QED BY <4>2, <4>3, <4>4 DEF PasteEnds
    <3>10. Ended(sent', Len(Emitted'))
      <4>1. Ended(sent, c)
        BY <1>f
      <4> HIDE DEF c, end
      <4>2. Ended(sent, c + (end + 6))
        BY <3>7, <3>9, <4>1, EndedPaste
      <4> QED BY <1>0, <3>8, <4>2
    <3>11. NoKeyPasted'
      <4> HIDE DEF event
      <4> DEFINE o == Len(out)
      <4>1. /\ o \in Nat /\ DOMAIN out = 1..o /\ Len(out') = o + 1 /\ out'[o + 1] = event
            /\ \A i \in 1..o : out'[i] = out[i]
        BY <1>d, <3>1, <3>5, AppendProperties
      <4>2. DOMAIN out' = 1..Len(out')
        <5>1. out' \in Seq(Event)
          BY <1>d, <3>1, <3>5, AppendProperties
        <5> QED BY <5>1
      <4> HIDE DEF o
      <4>3. ASSUME NEW i \in DOMAIN out', out'[i].kind = "key" PROVE ~Contains(out'[i].data, Pasted)
        <5>1. i \in 1..o \/ i = o + 1
          <6>1. o \in Nat
            BY <4>1
          <6>2. Len(out') = o + 1
            BY <4>1
          <6>3. i \in 1..(o + 1)
            BY <4>2, <4>3, <6>2, Zenon
          <6> QED BY <6>1, <6>3
        <5>2. i # o + 1
          BY <3>5, <4>1, <4>3
        <5>3. i \in 1..o /\ out'[i] = out[i]
          BY <4>1, <5>1, <5>2
        <5> QED BY <1>f, <4>1, <4>3, <5>3 DEF NoKeyPasted
      <4> QED BY <4>3 DEF NoKeyPasted
    <3>12. Unmarked(buffer')
      <4>1. Len(buffer') = 0
        BY <2>2
      <4> QED BY <4>1, MarkType DEF Unmarked, Occurs
    <3> QED BY <2>2, <3>6, <3>10, <3>11, <3>12 DEF Marks, NoKeyPasted
  <2> QED BY <2>3, <2>4
<1>4. CASE Split
  <2> DEFINE start == Find(buffer, PasteStart)
             from == IF start = None THEN buffer ELSE SubSeq(buffer, 1, start)
             some == Extract(from)
  <2>1. /\ reader.at = "split" /\ ReaderBusy
        /\ reader' = [at |-> IF start = None THEN "assign" ELSE "before",
                      keys |-> some.keys, rest |-> some.rest]
        /\ flusher' = flusher /\ out' = out
    BY <1>4 DEF Split, ReaderBusy
  <2>2. sent = Emitted \o (buffer \o unread) /\ Undisturbed(Emitted \o (buffer \o unread))
    <3>1. sent = Emitted \o (buffer \o unread)
      BY <1>b, <2>1 DEF Whole, Sums
    <3> QED BY <1>b, <3>1
  <2>3. /\ Emitted' = Emitted /\ Keys' = FlattenSeq(some.keys) /\ reader'.rest = some.rest
        /\ \A t \in Timers : ~Took(t)'
    BY <1>h, <2>1 DEF Emitted, Keys
  <2>4. CASE start = None
    <3>1. Unmarked(buffer)
      <4>1. Len(buffer) \in Nat /\ Len(PasteStart) \in Nat
        BY <1>d, MarkType
      <4> QED BY <2>4, <4>1, FindFacts DEF Unmarked
    <3>2. /\ NoneBegins(Emitted \o (buffer \o unread), Len(Emitted),
                        Len(Emitted) + Len(FlattenSeq(some.keys)))
          /\ Unmarked(some.rest)
      <4>1. some = Extract(buffer)
        BY <2>4
      <4> HIDE DEF some
      <4> QED BY <1>d, <2>2, <3>1, <4>1, SplitAhead
    <3> HIDE DEF some
    <3>3. reader'.at = "assign"
      BY <2>1, <2>4
    <3>4. MarksAhead(Keys)' /\ Unmarked(reader'.rest)
      BY <1>0, <2>2, <2>3, <3>2 DEF MarksAhead
    <3> QED BY <1>g, <2>1, <2>3, <3>3, <3>4 DEF Marks, NoKeyPasted
  <2>5. CASE start # None
    <3>1. NoneBegins(Emitted \o (buffer \o unread), Len(Emitted),
                     Len(Emitted) + Len(FlattenSeq(some.keys)))
      <4>1. from = SubSeq(buffer, 1, start)
        BY <2>5
      <4> QED BY <1>d, <2>2, <2>5, <4>1, SplitBefore
    <3> HIDE DEF some
    <3>3. reader'.at = "before"
      BY <2>1, <2>5
    <3>4. MarksAhead(Keys)'
      BY <1>0, <2>2, <2>3, <3>1 DEF MarksAhead
    <3> QED BY <1>g, <2>1, <2>3, <3>3, <3>4 DEF Marks, NoKeyPasted
  <2> QED BY <2>4, <2>5
<1>5. CASE Assign
  <2>1. /\ reader.at = "assign" /\ ReaderBusy /\ buffer' = reader.rest
        /\ reader' = [reader EXCEPT !.at = "emit", !.rest = <<>>]
        /\ flusher' = flusher /\ out' = out
    BY <1>5 DEF Assign, ReaderBusy
  <2>2. reader'.at = "emit" /\ reader'.keys = reader.keys
    BY <1>d, <2>1 DEF Readers
  <2>3. MarksAhead(Keys) /\ Unmarked(reader.rest)
    BY <1>b, <2>1 DEF Marks
  <2>4. MarksAhead(Keys)' /\ Unmarked(buffer')
    BY <1>0, <1>g, <2>1, <2>2, <2>3 DEF MarksAhead, Keys
  <2>5. \A t \in Timers : ~Took(t)'
    BY <1>h, <2>1
  <2> QED BY <1>g, <2>1, <2>2, <2>4, <2>5 DEF Marks, NoKeyPasted
<1>6. CASE EmitKey
  <2> DEFINE h == Head(reader.keys)
             t == FlattenSeq(Tail(reader.keys))
             inHand == IF reader.at = "emit" THEN buffer
                     ELSE After(buffer, Find(buffer, PasteStart))
  <2>1. /\ reader.at \in {"emit", "before"} /\ ReaderBusy /\ reader.keys # <<>> /\ Deliver(h)
        /\ reader' = [reader EXCEPT !.keys = Tail(reader.keys)]
        /\ UNCHANGED <<buffer, pasteMode, flusher>>
    BY <1>6 DEF EmitKey, ReaderBusy, pasteVars
  <2>2. /\ h \in Seq(Atoms) /\ t \in Seq(Atoms) /\ Keys = h \o t
    <3>1. h \in Seq(Atoms) /\ Tail(reader.keys) \in Seq(Seq(Atoms))
      BY <1>d, <2>1, HeadTailProperties
    <3> QED BY <1>d, <2>1, <3>1, FlatType, FlatTail DEF Keys
  <2>3. reader'.at = reader.at /\ Keys' = t
    <3>1. reader'.at = reader.at /\ reader'.keys = Tail(reader.keys)
      BY <1>d, <2>1 DEF Readers
    <3> QED BY <3>1 DEF Keys
  <2>4. inHand \in Seq(Atoms) /\ Sums(Keys \o inHand)
    <3>1. CASE reader.at = "emit"
      BY <1>b, <1>d, <3>1 DEF Whole
    <3>2. CASE reader.at = "before"
      <4>1. /\ Sums(Keys \o After(buffer, Find(buffer, PasteStart)))
            /\ Find(buffer, PasteStart) # None
        BY <1>b, <3>2 DEF Whole
      <4>2. Occurs(buffer, PasteStart, Find(buffer, PasteStart))
        <5>1. Len(buffer) \in Nat /\ Len(PasteStart) \in Nat
          BY <1>d, MarkType
        <5> QED BY <4>1, <5>1, FindFacts
      <4>3. Find(buffer, PasteStart) \in 0..Len(buffer)
        BY <1>d, <4>2, MarkType, AfterMark
      <4>4. After(buffer, Find(buffer, PasteStart)) \in Seq(Atoms)
        BY <1>d, <4>3, AfterFacts
      <4> QED BY <3>2, <4>1, <4>4
    <3> QED BY <2>1, <3>1, <3>2
  <2> HIDE DEF h, t, inHand
  <2>5. sent = Emitted \o (((h \o t) \o inHand) \o unread) /\ MarksAhead(h \o t)
    <3>1. MarksAhead(Keys)
      BY <1>b, <2>1 DEF Marks
    <3> QED BY <2>2, <2>4, <3>1 DEF Sums
  <2>6. /\ Ended(sent, Len(Emitted)) ' /\ NoKeyPasted'
        /\ NoneBegins(sent', Len(Emitted'), Len(Emitted') + Len(t))
    BY <1>0, <1>d, <1>f, <2>1, <2>2, <2>4, <2>5, KeyDelivered
  <2>7. MarksAhead(Keys)' /\ \A u \in Timers : ~Took(u)'
    BY <1>h, <2>1, <2>3, <2>6 DEF MarksAhead
  <2>8. reader'.at \in {"emit", "before"}
    BY <2>1, <2>3
  <2>9. reader.at = "emit" /\ ~pasteMode => Unmarked(buffer)
    BY <1>b DEF Marks
  <2> QED BY <2>1, <2>3, <2>6, <2>7, <2>8, <2>9 DEF Marks, NoKeyPasted
<1>7. CASE EndReading
  <2>1. /\ reader.at = "emit" /\ ReaderBusy /\ reader' = Reading
        /\ UNCHANGED <<buffer, pasteMode, flusher, out>>
    BY <1>7 DEF EndReading, ReaderBusy, pasteVars
  <2>2. reader'.at = "idle" /\ \A t \in Timers : ~Took(t)'
    BY <1>h, <2>1 DEF Reading
  <2>3. ~pasteMode => Unmarked(buffer')
    BY <1>b, <2>1 DEF Marks
  <2> QED BY <1>g, <2>1, <2>2, <2>3 DEF Marks, NoKeyPasted
<1>8. CASE BeginPaste
  <2>1. ReaderBusy /\ reader'.at = "paste" /\ UNCHANGED <<flusher, out>>
    BY <1>8 DEF BeginPaste, ReaderBusy, Reading
  <2>2. \A t \in Timers : ~Took(t)'
    BY <1>h, <2>1
  <2> QED BY <1>g, <2>1, <2>2 DEF Marks, NoKeyPasted
<1>9. ASSUME NEW t \in Timers, FlushTimerFires(t) \/ CancelTimer(t) PROVE Marks'
  <2>1. /\ UNCHANGED <<buffer, pasteMode, reader, out>> /\ ~Took(t) /\ ~ReaderBusy
    <3>1. UNCHANGED <<buffer, pasteMode, reader, out>> /\ ~Took(t)
      BY <1>9 DEF FlushTimerFires, CancelTimer, pasteVars, Took, Waiting
    <3>2. ~ReaderBusy
      <4>1. CASE FlushTimerFires(t)
        BY <4>1 DEF FlushTimerFires
      <4>2. CASE CancelTimer(t)
        BY <4>2, <1>c DEF CancelTimer, Busy
      <4> QED BY <4>1, <4>2, <1>9
    <3> QED BY <3>1, <3>2
  <2>2. ASSUME NEW u \in Timers
        PROVE  /\ Took(u)' <=> Took(u)
               /\ Took(u) => flusher'[u] = flusher[u]
    <3>1. CASE u = t
      <4>1. flusher'[t].at \in {"fired", "cancelled"}
        BY <1>9, <1>d DEF FlushTimerFires, CancelTimer, Flushers
      <4> QED BY <2>1, <3>1, <4>1 DEF Took
    <3>2. CASE u # t
      <4>1. flusher'[u] = flusher[u]
        BY <1>9, <1>d, <3>2 DEF FlushTimerFires, CancelTimer
      <4> QED BY <4>1 DEF Took
    <3> QED BY <3>1, <3>2
  <2>3. reader'.at = "idle"
    BY <2>1 DEF ReaderBusy
  <2>4. \A u \in Timers : Took(u)' => MarksAhead(flusher[u].keys)'
    BY <1>0, <1>b, <1>g, <2>1, <2>2 DEF Marks, MarksAhead
  <2>5. ~pasteMode' => Unmarked(buffer')
    BY <1>b, <2>1, <2>3 DEF Marks
  <2> QED BY <1>g, <2>1, <2>3, <2>4, <2>5 DEF Marks, NoKeyPasted
<1>10. ASSUME NEW t \in Timers, TakeBuffer(t) PROVE Marks'
  <2>1. /\ flusher[t].at = "cancelled" /\ Busy(t) /\ ~ReaderBusy /\ ~pasteMode
        /\ \A u \in Timers : ~Took(u)
    <3>1. flusher[t].at = "cancelled" /\ Busy(t) /\ ~Took(t)
      BY <1>10 DEF TakeBuffer, Busy, Took
    <3> QED BY <3>1, <1>c, <1>d
  <2>2. /\ buffer' = <<>> /\ UNCHANGED <<pasteMode, reader, out>>
        /\ flusher' = [flusher EXCEPT ![t] = IF buffer = <<>> THEN Over
                                             ELSE [at |-> "took", keys |-> buffer]]
        /\ ~Torn(PasteStart)
    BY <1>10 DEF TakeBuffer, pasteVars
  <2>3. Sums(buffer) /\ Unmarked(buffer)
    <3>1. reader.at = "idle"
      BY <2>1 DEF ReaderBusy
    <3> QED BY <1>b, <2>1, <3>1 DEF Whole, Marks
  <2>4. NoneBegins(sent, Len(Emitted), Len(Emitted) + Len(buffer))
    <3>1. ~\E i \in 1..(Len(PasteStart) - 1) :
               IsSuffix(SubSeq(PasteStart, 1, i), buffer) /\ IsPrefix(After(PasteStart, i), unread)
      BY <2>2 DEF Torn
    <3>2. NoneBegins(Emitted \o (buffer \o unread), Len(Emitted), Len(Emitted) + Len(buffer))
      BY <1>d, <2>3, <3>1, TornAhead
    <3> QED BY <2>3, <3>2 DEF Sums
  <2>5. \A u \in Timers : Took(u)' => u = t /\ flusher'[u].keys = buffer
    <3> SUFFICES ASSUME NEW u \in Timers, Took(u)' PROVE u = t /\ flusher'[u].keys = buffer
      OBVIOUS
    <3>1. u = t
      <4> SUFFICES ASSUME u # t PROVE FALSE
        OBVIOUS
      <4>1. flusher'[u] = flusher[u]
        BY <1>d, <2>2
      <4> QED BY <2>1, <4>1 DEF Took
    <3>2. flusher'[t] = IF buffer = <<>> THEN Over ELSE [at |-> "took", keys |-> buffer]
      BY <1>d, <2>2
    <3>3. flusher'[t] = [at |-> "took", keys |-> buffer]
      BY <3>1, <3>2 DEF Took, Over
    <3> QED BY <3>1, <3>3
  <2>6. \A u \in Timers : Took(u)' => MarksAhead(flusher[u].keys)'
    BY <1>0, <1>g, <2>2, <2>4, <2>5 DEF MarksAhead
  <2>7. Unmarked(buffer')
    <3>1. Len(buffer') = 0
      BY <2>2
    <3> QED BY <3>1, MarkType DEF Unmarked, Occurs
  <2>8. reader'.at = "idle"
    BY <2>1, <2>2 DEF ReaderBusy
  <2> QED BY <1>g, <2>2, <2>6, <2>7, <2>8 DEF Marks, NoKeyPasted
<1>11. ASSUME NEW t \in Timers, EmitFlushed(t) PROVE Marks'
  <2> DEFINE key == flusher[t].keys
  <2>1. Took(t) /\ Busy(t) /\ ~ReaderBusy /\ ~pasteMode /\ buffer = <<>> /\ key \in Seq(Atoms)
    <3>1. Took(t)
      BY <1>11 DEF EmitFlushed, Took
    <3> QED BY <3>1, <1>c, <1>d DEF Flushers
  <2>2. Sums(key) /\ MarksAhead(key)
    BY <1>b, <2>1 DEF Whole, Marks
  <2>3. /\ UNCHANGED <<buffer, pasteMode, reader>> /\ Deliver(key)
        /\ flusher' = [flusher EXCEPT ![t] = Over]
    BY <1>11 DEF EmitFlushed, pasteVars
  <2> HIDE DEF key
  <2>4. key \o <<>> = key
    BY <2>1, ConcatEmptySeq
  <2>5. sent = Emitted \o (((key \o <<>>) \o <<>>) \o unread) /\ MarksAhead(key \o <<>>)
    BY <2>2, <2>4 DEF Sums
  <2>6. Ended(sent, Len(Emitted)) ' /\ NoKeyPasted'
    BY <1>0, <1>d, <1>f, <2>1, <2>3, <2>5, KeyDelivered
  <2>7. \A u \in Timers : ~Took(u)'
    <3> SUFFICES ASSUME NEW u \in Timers PROVE ~Took(u)'
      OBVIOUS
    <3>1. CASE u = t
      BY <1>d, <2>3, <3>1 DEF Took, Over
    <3>2. CASE u # t
      <4>1. flusher'[u] = flusher[u]
        BY <1>d, <2>3, <3>2
      <4>2. ~Took(u)
        BY <1>c, <1>d, <2>1, <3>2
      <4> QED BY <4>1, <4>2 DEF Took
    <3> QED BY <3>1, <3>2
  <2>8. Unmarked(buffer')
    <3>1. Len(buffer') = 0
      BY <2>1, <2>3
    <3> QED BY <3>1, MarkType DEF Unmarked, Occurs
  <2>9. reader'.at = "idle"
    BY <2>1, <2>3 DEF ReaderBusy
  <2> QED BY <2>6, <2>7, <2>8, <2>9 DEF Marks, NoKeyPasted
<1>12. CASE UNCHANGED stdinVars
  BY <1>12, <1>b DEF stdinVars, pasteVars, Marks, MarksAhead, Emitted, Keys, Took
<1> QED BY <1>1, <1>3, <1>4, <1>5, <1>6, <1>7, <1>8, <1>9, <1>10, <1>11, <1>12
        DEF StdinNext, Reader, Flush

-----------------------------------------------------------------------------
(* Input arrives.                                                            *)
LEMMA InputInvHolds == StdinSpec => []InputInv
<1>1. StdinInit => InputInv
  BY InputTypesInit, AloneInit, WholeInit, MarksInit DEF InputInv
<1>2. InputInv /\ [StdinNext]_stdinVars => InputInv'
  BY InputTypesStep, AloneStep, WholeStep, MarksStep DEF InputInv
<1> QED BY <1>1, <1>2, PTL DEF StdinSpec

LEMMA InputInvSays == InputInv => InputAccounted
<1> SUFFICES ASSUME InputInv PROVE InputAccounted
  OBVIOUS
<1>1. ASSUME Quiet, ~EscapeBeforePaste, ~raced PROVE Accounted = sent
  <2>1. ~ReaderBusy /\ \A t \in Timers : ~Took(t)
    <3>1. InputTypes /\ ~ReaderBusy /\ ~FlusherBusy
      BY <1>1 DEF InputInv, Quiet
    <3> QED BY <3>1, FlusherBusyIs DEF Took, Busy
  <2>2. Sums(IF pasteMode THEN PasteStart \o pasteBuffer ELSE buffer)
    BY <1>1, <2>1 DEF InputInv, WholeInv, Whole
  <2>3. pasteMode => buffer = <<>>
    BY <1>1 DEF InputInv, AloneInv
  <2>4. Accounted = ((Emitted \o (IF pasteMode THEN PasteStart \o pasteBuffer ELSE <<>>))
                       \o buffer) \o unread
    BY DEF Accounted, Emitted, Emits
  <2>5. /\ Emitted \in Seq(Atoms) /\ unread \in Seq(Atoms) /\ buffer \in Seq(Atoms)
        /\ PasteStart \o pasteBuffer \in Seq(Atoms)
    <3>1. out \in Seq(Event) /\ unread \in Seq(Atoms) /\ buffer \in Seq(Atoms)
          /\ pasteBuffer \in Seq(Atoms)
      BY DEF InputInv, InputTypes
    <3> QED BY <3>1, EmitsType, MarkType, ConcatProperties DEF Emitted
  <2>6. CASE pasteMode
    <3>1. Shifted(Emitted, PasteStart \o pasteBuffer, unread)
      BY <2>5, Moves
    <3> QED BY <2>2, <2>3, <2>4, <2>6, <3>1 DEF Shifted, Sums
  <2>7. CASE ~pasteMode
    <3>1. Shifted(Emitted, buffer, unread)
      BY <2>5, Moves
    <3> QED BY <2>2, <2>4, <2>7, <3>1 DEF Shifted, Sums
  <2> QED BY <2>6, <2>7
<1>2. PastedTextIsNoKey
  BY DEF InputInv, MarksInv, Marks, PastedTextIsNoKey
<1> QED BY <1>1, <1>2 DEF InputAccounted

\* However the input is cut into reads and whenever the time out comes, what the handlers
\* got and what is still buffered is what the terminal sent, once and in order, and pasted
\* text comes as a paste: for every input, whatever the number of timers.
THEOREM InputArrives == StdinSpec => []InputAccounted
  BY InputInvHolds, InputInvSays, PTL

-----------------------------------------------------------------------------
(* What a shell command wrote.                                               *)

\* The prefix that is text has n bytes.
TextEnds(a, n) ==
    /\ n \in 0..Len(a)
    /\ \A i \in 1..n : Fits(a, i)
    /\ n < Len(a) => ~Fits(a, n + 1)

LEMMA TextEndsSomewhere ==
    ASSUME NEW a \in Seq(Octets)
    PROVE  \E n \in Nat : TextEnds(a, n)
<1> DEFINE K == Len(a)
           bad == {i \in 1..K : ~Fits(a, i)}
<1>1. K \in Nat /\ bad \in SUBSET Nat
  OBVIOUS
<1>2. CASE bad = {}
  <2>1. \A i \in 1..K : Fits(a, i)
    BY <1>2
  <2> HIDE DEF bad
  <2>2. TextEnds(a, K)
    <3>1. K \in 0..Len(a) /\ ~(K < Len(a))
      BY <1>1
    <3> QED BY <2>1, <3>1 DEF TextEnds
  <2> QED BY <1>1, <2>2
<1>3. CASE bad # {}
  <2> HIDE DEF bad
  <2>1. PICK x \in bad : \A y \in bad : x <= y
    BY <1>1, <1>3, LeastOf
  <2> USE DEF bad
  <2>2. x \in 1..K /\ ~Fits(a, x) /\ \A i \in 1..K : ~Fits(a, i) => x <= i
    BY <2>1
  <2>3. TextEnds(a, x - 1)
    <3>1. x - 1 \in 0..Len(a) /\ (x - 1) + 1 = x
      BY <1>1, <2>2
    <3>2. ASSUME NEW i \in 1..(x - 1) PROVE Fits(a, i)
      <4>1. i \in 1..K /\ ~(x <= i)
        BY <1>1, <2>2
      <4> QED BY <2>2, <4>1
    <3> QED BY <2>2, <3>1, <3>2 DEF TextEnds
  <2>4. x - 1 \in Nat
    BY <1>1, <2>2
  <2> QED BY <2>3, <2>4
<1> QED BY <1>2, <1>3

LEMMA DecodedTo ==
    ASSUME NEW a \in Seq(Octets), NEW n, TextEnds(a, n)
    PROVE  Decoded(a) = SubSeq(a, 1, n)
<1> DEFINE K == Len(a)
           bad == {i \in DOMAIN a : ~Fits(a, i)}
<1>1. K \in Nat /\ DOMAIN a = 1..K /\ n \in 0..K
  BY DEF TextEnds
<1>2. CASE n = K
  <2>1. bad = {}
    BY <1>1, <1>2 DEF TextEnds
  <2>2. Decoded(a) = a
    BY <2>1 DEF Decoded
  <2>3. SubSeq(a, 1, K) = a
    BY SubSeqFull
  <2> QED BY <1>2, <2>2, <2>3
<1>3. CASE n # K
  <2>1. n + 1 \in bad /\ \A j \in bad : n + 1 <= j
    <3>1. n < K /\ n + 1 \in 1..K
      <4> HIDE DEF K, bad
      <4> QED BY <1>1, <1>3
    <3>2. ~Fits(a, n + 1)
      BY <3>1 DEF TextEnds
    <3>3. ASSUME NEW j \in 1..K, ~Fits(a, j) PROVE n + 1 <= j
      <4>1. ~(j \in 1..n)
        BY <3>3 DEF TextEnds
      <4> QED BY <4>1, <1>1
    <3> QED BY <1>1, <3>1, <3>2, <3>3
  <2>2. Decoded(a) = SubSeq(a, 1, (CHOOSE i \in bad : \A j \in bad : i <= j) - 1)
    BY <2>1 DEF Decoded
  <2>3. bad \subseteq Nat
    BY <1>1
  <2> HIDE DEF bad, K
  <2>4. (CHOOSE i \in bad : \A j \in bad : i <= j) = n + 1
    <3>1. \A i \in bad : (\A j \in bad : i <= j) => i = n + 1
      BY <1>1, <2>1, <2>3
    <3> QED BY <2>1, <3>1
  <2>5. (n + 1) - 1 = n
    BY <1>1
  <2> QED BY <2>2, <2>4, <2>5
<1> QED BY <1>2, <1>3

\* The places of two sequences one behind the other.
LEMMA TwoPlaces ==
    ASSUME NEW S, NEW a \in Seq(S), NEW b \in Seq(S)
    PROVE  /\ a \o b \in Seq(S) /\ Len(a \o b) = Len(a) + Len(b)
           /\ Len(a) \in Nat /\ Len(b) \in Nat
           /\ \A i \in 1..Len(a) : (a \o b)[i] = a[i]
           /\ \A i \in 1..Len(b) : (a \o b)[Len(a) + i] = b[i]
  OBVIOUS

\* A byte fits in a sequence as it fits in the part it is in, if what is in front is text.
LEMMA FitsInFront ==
    ASSUME NEW a \in Seq(Octets), NEW b \in Seq(Octets), NEW i \in 1..Len(a), Fits(a, i)
    PROVE  Fits(a \o b, i)
<1> DEFINE c == a \o b
           K == Len(a)
           M == Len(b)
<1>1. K \in Nat /\ M \in Nat /\ Len(c) = K + M /\ (\A j \in 1..K : c[j] = a[j]) /\ i \in 1..K
  BY TwoPlaces
<1> HIDE DEF c
<1>2. \/ a[i] = "x"
      \/ a[i] = "lead" /\ i < K /\ a[i + 1] = "cont"
      \/ a[i] = "cont" /\ i > 1 /\ a[i - 1] = "lead"
  BY DEF Fits
<1> HIDE DEF K, M
<1>3. /\ i < K => i + 1 \in 1..K /\ i < K + M
      /\ i > 1 => i - 1 \in 1..K
  BY <1>1
<1>4. \/ c[i] = "x"
      \/ c[i] = "lead" /\ i < Len(c) /\ c[i + 1] = "cont"
      \/ c[i] = "cont" /\ i > 1 /\ c[i - 1] = "lead"
  BY <1>1, <1>2, <1>3
<1>5. Fits(c, i)
  BY <1>4 DEF Fits
<1> QED BY <1>5 DEF c

LEMMA FitsBehind ==
    ASSUME NEW a \in Seq(Octets), NEW b \in Seq(Octets), TextEnds(a, Len(a)), NEW i \in 1..Len(b)
    PROVE  Fits(b, i) <=> Fits(a \o b, Len(a) + i)
<1> DEFINE c == a \o b
           K == Len(a)
           M == Len(b)
<1>1. /\ K \in Nat /\ M \in Nat /\ Len(c) = K + M /\ i \in 1..M
      /\ \A j \in 1..K : c[j] = a[j]
      /\ \A j \in 1..M : c[K + j] = b[j]
  BY TwoPlaces
<1>2. \A j \in 1..K : Fits(a, j)
  BY DEF TextEnds
<1>3. K > 0 => a[K] # "lead"
  <2>1. K > 0 => K \in 1..K /\ ~(K < K)
    BY <1>1
  <2>2. K > 0 => Fits(a, K)
    BY <1>2, <2>1
  <2> QED BY <2>1, <2>2 DEF Fits
<1> HIDE DEF c, K, M
<1>4. /\ c[K + i] = b[i] /\ K + i \in Nat /\ i \in Nat /\ i >= 1 /\ i <= M
      /\ (K + i < K + M) = (i < M)
  BY <1>1
<1>5. i < M => c[(K + i) + 1] = b[i + 1]
  <2>1. (K + i) + 1 = K + (i + 1) /\ (i < M => i + 1 \in 1..M)
    BY <1>1
  <2> QED BY <1>1, <2>1
<1>6. i > 1 => c[(K + i) - 1] = b[i - 1] /\ K + i > 1
  <2>1. (K + i) - 1 = K + (i - 1) /\ (i > 1 => i - 1 \in 1..M /\ K + i > 1)
    BY <1>1
  <2> QED BY <1>1, <2>1
<1>7. i = 1 => ~(K + i > 1 /\ c[(K + i) - 1] = "lead")
  <2>1. i = 1 => (K + i) - 1 = K /\ (K + i > 1 => K > 0 /\ K \in 1..K)
    BY <1>1
  <2> QED BY <1>1, <1>3, <2>1
<1>8. (i > 1 /\ b[i - 1] = "lead") = (K + i > 1 /\ c[(K + i) - 1] = "lead")
  <2>1. i = 1 \/ i > 1
    BY <1>4
  <2>2. i = 1 => ~(i > 1)
    OBVIOUS
  <2> QED BY <1>6, <1>7, <2>1, <2>2
<1>9. (i < M /\ b[i + 1] = "cont") = (K + i < Len(c) /\ c[(K + i) + 1] = "cont")
  BY <1>1, <1>4, <1>5
<1>10. Fits(c, K + i) <=>
          \/ c[K + i] = "x"
          \/ c[K + i] = "lead" /\ K + i < Len(c) /\ c[(K + i) + 1] = "cont"
          \/ c[K + i] = "cont" /\ K + i > 1 /\ c[(K + i) - 1] = "lead"
  BY DEF Fits
<1>11. Fits(b, i) <=>
          \/ b[i] = "x"
          \/ b[i] = "lead" /\ i < M /\ b[i + 1] = "cont"
          \/ b[i] = "cont" /\ i > 1 /\ b[i - 1] = "lead"
  BY DEF Fits, M
<1> QED BY <1>4, <1>8, <1>9, <1>10, <1>11 DEF c, K

Text(a) == TextEnds(a, Len(a))

LEMMA TextDecoded ==
    ASSUME NEW a \in Seq(Octets)
    PROVE  Text(a) <=> Decoded(a) = a
<1>1. PICK n \in Nat : TextEnds(a, n)
  BY TextEndsSomewhere
<1>2. Decoded(a) = SubSeq(a, 1, n) /\ n \in 0..Len(a)
  BY <1>1, DecodedTo DEF TextEnds
<1>3. Len(SubSeq(a, 1, n)) = n
  BY <1>2
<1>4. ASSUME Decoded(a) = a PROVE Text(a)
  BY <1>1, <1>2, <1>3, <1>4 DEF Text
<1>5. ASSUME Text(a) PROVE Decoded(a) = a
  <2>1. Decoded(a) = SubSeq(a, 1, Len(a))
    BY <1>5, DecodedTo DEF Text
  <2> QED BY <2>1, SubSeqFull
<1> QED BY <1>4, <1>5

\* Text in front decodes to itself.
LEMMA TextFirst ==
    ASSUME NEW a \in Seq(Octets), NEW b \in Seq(Octets), Text(a)
    PROVE  Decoded(a \o b) = a \o Decoded(b)
<1> DEFINE c == a \o b
           K == Len(a)
           M == Len(b)
<1>1. /\ c \in Seq(Octets) /\ K \in Nat /\ M \in Nat /\ Len(c) = K + M
  BY TwoPlaces
<1>2. PICK n \in Nat : TextEnds(b, n)
  BY TextEndsSomewhere
<1>3. n \in 0..M /\ (\A i \in 1..n : Fits(b, i)) /\ (n < M => ~Fits(b, n + 1))
  BY <1>2 DEF TextEnds
<1>4. \A i \in 1..K : Fits(c, i)
  <2>1. \A i \in 1..K : Fits(a, i)
    BY DEF Text, TextEnds
  <2> QED BY <2>1, FitsInFront
<1>5. \A i \in 1..M : Fits(b, i) <=> Fits(c, K + i)
  BY FitsBehind DEF Text
<1>6. Decoded(b) = SubSeq(b, 1, n)
  BY <1>2, DecodedTo
<1>7. SubSeq(a \o b, 1, K + n) = a \o SubSeq(b, 1, n)
  <2> DEFINE l == SubSeq(a \o b, 1, K + n)
             r == a \o SubSeq(b, 1, n)
  <2>1. /\ l \in Seq(Octets) /\ Len(l) = K + n /\ \A i \in 1..(K + n) : l[i] = c[i]
    <3> HIDE DEF K, M, c
    <3>1. 1 \in 1..(Len(c) + 1) /\ K + n \in 0..Len(c)
      BY <1>1, <1>3
    <3>2. SubSeq(c, 1, K + n) \in Seq(Octets) /\ Len(SubSeq(c, 1, K + n)) = K + n
      BY <1>1, <1>3
    <3>3. \A i \in 1..(K + n) : SubSeq(c, 1, K + n)[i] = c[i]
      BY <1>1, <1>3
    <3> QED BY <3>2, <3>3 DEF c
  <2>2. SubSeq(b, 1, n) \in Seq(Octets) /\ Len(SubSeq(b, 1, n)) = n
        /\ \A i \in 1..n : SubSeq(b, 1, n)[i] = b[i]
    BY <1>3
  <2>3. /\ r \in Seq(Octets) /\ Len(r) = K + n
        /\ \A i \in 1..K : r[i] = a[i]
        /\ \A i \in 1..n : r[K + i] = b[i]
    <3> DEFINE q == SubSeq(b, 1, n)
    <3> HIDE DEF q
    <3>1. /\ a \o q \in Seq(Octets) /\ Len(a \o q) = K + n
          /\ \A i \in 1..K : (a \o q)[i] = a[i]
          /\ \A i \in 1..n : (a \o q)[K + i] = q[i]
      BY <2>2, TwoPlaces DEF q
    <3> QED BY <2>2, <3>1 DEF q
  <2>4. \A i \in 1..K : c[i] = a[i]
    BY TwoPlaces
  <2>5. \A i \in 1..M : c[K + i] = b[i]
    BY TwoPlaces
  <2> HIDE DEF l, r, c, K, M
  <2>6. ASSUME NEW i \in 1..(K + n) PROVE l[i] = r[i]
    <3>1. CASE i <= K
      <4>1. i \in 1..K
        BY <3>1, <1>1
      <4> QED BY <4>1, <2>1, <2>3, <2>4
    <3>2. CASE ~(i <= K)
      <4>1. i - K \in 1..n /\ i - K \in 1..M /\ i = K + (i - K)
        BY <3>2, <1>1, <1>3
      <4>2. c[K + (i - K)] = b[i - K] /\ r[K + (i - K)] = b[i - K]
        BY <4>1, <2>3, <2>5
      <4> QED BY <4>1, <4>2, <2>1
    <3> QED BY <3>1, <3>2
  <2>7. l = r
    BY <2>1, <2>3, <2>6, SeqEqual
  <2> QED BY <2>7 DEF l, r
<1> HIDE DEF c, K, M
<1>8. TextEnds(c, K + n)
  <2>1. K + n \in 0..Len(c)
    BY <1>1, <1>3
  <2>2. ASSUME NEW i \in 1..(K + n) PROVE Fits(c, i)
    <3>1. i \in 1..K \/ (i - K \in 1..n /\ i - K \in 1..M /\ i = K + (i - K))
      BY <1>1, <1>3
    <3> QED BY <3>1, <1>3, <1>4, <1>5
  <2>3. K + n < Len(c) => ~Fits(c, (K + n) + 1)
    <3>1. K + n < Len(c) => n < M /\ n + 1 \in 1..M /\ (K + n) + 1 = K + (n + 1)
      BY <1>1, <1>3
    <3> QED BY <3>1, <1>3, <1>5
  <2> QED BY <2>1, <2>2, <2>3 DEF TextEnds
<1>9. Decoded(c) = SubSeq(c, 1, K + n)
  BY <1>1, <1>8, DecodedTo
<1> QED BY <1>6, <1>7, <1>9 DEF c

\* What is decoded is text, and of the rest nothing can be.
LEMMA DecodedParts ==
    ASSUME NEW a \in Seq(Octets)
    PROVE  LET p == Decoded(a)
               r == SubSeq(a, Len(p) + 1, Len(a))
           IN  /\ p \in Seq(Octets) /\ r \in Seq(Octets) /\ a = p \o r
               /\ Text(p) /\ Decoded(r) = <<>> /\ Len(p) <= Len(a)
<1> DEFINE K == Len(a)
<1>1. PICK n \in Nat : TextEnds(a, n)
  BY TextEndsSomewhere
<1>2. /\ n \in 0..K /\ K \in Nat /\ (\A i \in 1..n : Fits(a, i))
      /\ (n < K => ~Fits(a, n + 1))
  BY <1>1 DEF TextEnds
<1> DEFINE p == SubSeq(a, 1, n)
           r == SubSeq(a, n + 1, K)
<1>3. Decoded(a) = p
  BY <1>1, DecodedTo
<1>4. p \in Seq(Octets) /\ Len(p) = n /\ \A i \in 1..n : p[i] = a[i]
  BY <1>2
<1>5. r \in Seq(Octets)
  BY <1>2
<1>6. a = p \o r
  <2>1. 1 \in 1..(K + 1) /\ n \in (1 - 1)..K /\ K \in n..K
    BY <1>2
  <2>2. p \o r = SubSeq(a, 1, K)
    BY <2>1, ConcatAdjacentSubSeq
  <2> QED BY <2>2, SubSeqFull
<1> HIDE DEF p, r, K
<1>7. Text(p)
  <2>1. ASSUME NEW i \in 1..n PROVE Fits(p, i)
    <3>1. Fits(a, i) /\ p[i] = a[i] /\ i \in 1..K
      BY <1>2, <1>4
    <3>2. CASE a[i] = "x"
      BY <3>1, <3>2 DEF Fits
    <3>3. CASE a[i] = "lead" /\ i < Len(a) /\ a[i + 1] = "cont"
      <4>1. i # n
        <5>1. SUFFICES ASSUME i = n PROVE FALSE
          OBVIOUS
        <5>2. n < K /\ n + 1 > 1 /\ (n + 1) - 1 = n
          BY <1>2, <3>3, <5>1 DEF K
        <5>3. Fits(a, n + 1)
          BY <3>3, <5>1, <5>2 DEF Fits
        <5> QED BY <1>2, <5>2, <5>3
      <4>2. i + 1 \in 1..n /\ i < n
        BY <1>2, <4>1
      <4> QED BY <1>4, <3>1, <3>3, <4>2 DEF Fits
    <3>4. CASE a[i] = "cont" /\ i > 1 /\ a[i - 1] = "lead"
      <4>1. i - 1 \in 1..n
        BY <1>2, <3>4
      <4> QED BY <1>4, <3>1, <3>4, <4>1 DEF Fits
    <3> QED BY <3>1, <3>2, <3>3, <3>4 DEF Fits
  <2>2. n \in 0..Len(p) /\ ~(n < Len(p))
    BY <1>2, <1>4
  <2> QED BY <1>4, <2>1, <2>2 DEF Text, TextEnds
<1>8. Decoded(r) = <<>>
  <2>1. p = p \o Decoded(r)
    BY <1>3, <1>4, <1>5, <1>6, <1>7, TextFirst
  <2>2. PICK m \in Nat : TextEnds(r, m)
    BY <1>5, TextEndsSomewhere
  <2>3. Decoded(r) = SubSeq(r, 1, m)
    BY <1>5, <2>2, DecodedTo
  <2>4. Decoded(r) \in Seq(Octets)
    BY <1>5, <2>3, <2>2 DEF TextEnds
  <2>5. Len(p) = Len(p) + Len(Decoded(r)) /\ Len(p) \in Nat /\ Len(Decoded(r)) \in Nat
    BY <1>4, <2>1, <2>4, TwoPlaces
  <2>6. Len(Decoded(r)) = 0
    BY <2>5
  <2> QED BY <2>4, <2>6, EmptySeq
<1>9. n <= K
  BY <1>2
<1>10. r = SubSeq(a, Len(p) + 1, Len(a))
  BY <1>4 DEF r, K
<1> QED BY <1>3, <1>4, <1>5, <1>6, <1>7, <1>8, <1>9, <1>10 DEF K

LEMMA DecodedType ==
    ASSUME NEW a \in Seq(Octets)
    PROVE  Decoded(a) \in Seq(Octets)
  BY DecodedParts

\* What nothing could be decoded of, and something can once more comes, is half a character.
LEMMA HalfCarried ==
    ASSUME NEW c \in Seq(Octets), NEW h \in Seq(Octets), Decoded(c) = <<>>, Decoded(c \o h) # <<>>
    PROVE  Len(Decoded(c \o h)) <= Len(h) + 1
<1> DEFINE K == Len(c)
           d == c \o h
<1>1. /\ d \in Seq(Octets) /\ K \in Nat /\ Len(h) \in Nat /\ Len(d) = K + Len(h)
      /\ \A i \in 1..K : d[i] = c[i]
  BY TwoPlaces
<1>2. PICK n \in Nat : TextEnds(d, n)
  BY <1>1, TextEndsSomewhere
<1>3. Decoded(d) = SubSeq(d, 1, n) /\ n \in 0..Len(d)
  BY <1>1, <1>2, DecodedTo DEF TextEnds
<1>4. n # 0
  <2>1. SubSeq(d, 1, 0) = <<>>
    BY <1>1
  <2> QED BY <1>3, <2>1
<1>5. Fits(d, 1)
  <2>1. 1 \in 1..n
    BY <1>4
  <2> QED BY <1>2, <2>1 DEF TextEnds
<1>6. K > 0 => ~Fits(c, 1)
  <2>1. PICK m \in Nat : TextEnds(c, m)
    BY TextEndsSomewhere
  <2>2. Decoded(c) = SubSeq(c, 1, m) /\ m \in 0..K
    BY <2>1, DecodedTo DEF TextEnds
  <2>3. Len(SubSeq(c, 1, m)) = m
    BY <2>2
  <2>4. m = 0
    BY <2>2, <2>3
  <2> QED BY <2>1, <2>4 DEF TextEnds
<1>7. K <= 1
  <2>1. SUFFICES ASSUME K > 1 PROVE FALSE
    BY <1>1
  <2> HIDE DEF K, d
  <2>2. 1 \in 1..K /\ 2 \in 1..K /\ 1 + 1 = 2 /\ 1 < K /\ ~(1 > 1)
    BY <1>1, <2>1
  <2>3. d[1] = c[1] /\ d[2] = c[2]
    BY <1>1, <2>2
  <2>4. d[1] = "x" \/ (d[1] = "lead" /\ d[2] = "cont")
    BY <1>5, <2>2 DEF Fits
  <2>5. Fits(c, 1)
    <3>1. c[1] = "x" \/ (c[1] = "lead" /\ 1 < Len(c) /\ c[1 + 1] = "cont")
      BY <2>2, <2>3, <2>4 DEF K
    <3> HIDE <2>2
    <3> QED BY <3>1 DEF Fits
  <2>6. K > 0
    BY <1>1, <2>1
  <2> QED BY <1>6, <2>5, <2>6
<1>8. Len(Decoded(d)) <= Len(d)
  BY <1>1, DecodedParts
<1>9. Len(Decoded(d)) \in Nat
  BY <1>1, DecodedType
<1> HIDE DEF K, d
<1>10. Len(Decoded(d)) <= Len(h) + 1
  BY <1>1, <1>7, <1>8, <1>9
<1> QED BY <1>10 DEF d

\* Chunks are dropped only when more is kept than the file takes over at.
LEMMA RolledFacts ==
    ASSUME NEW cs \in Seq(Seq(Octets)), cs # <<>>
    PROVE  /\ Rolled(cs) \in Seq(Seq(Octets))
           /\ Len(FlattenSeq(cs)) <= 2 * MaxBytes => Rolled(cs) = cs
<1> DEFINE K == Len(cs)
           enough == {i \in DOMAIN cs :
                         i = Len(cs) \/ Characters(SubSeq(cs, i, Len(cs))) <= 2 * MaxBytes}
           i0 == CHOOSE i \in enough : \A j \in enough : i <= j
<1>1. K \in Nat /\ K >= 1 /\ DOMAIN cs = 1..K
  <2>1. K \in Nat /\ DOMAIN cs = 1..K /\ K # 0
    BY EmptySeq
  <2> HIDE DEF K
  <2> QED BY <2>1
<1>2. Rolled(cs) = SubSeq(cs, i0, K)
  BY DEF Rolled
<1>3. K \in enough /\ enough \subseteq 1..K
  <2> HIDE DEF K
  <2>1. K \in 1..K
    BY <1>1
  <2> QED BY <1>1, <2>1 DEF K
<1>4. SubSeq(cs, 1, K) = cs
  BY SubSeqFull
<1>5. \A i \in 1..K : SubSeq(cs, i, K) \in Seq(Seq(Octets))
  <2>1. \A i \in 1..K : SubSeq(cs, i, Len(cs)) \in Seq(Seq(Octets))
    OBVIOUS
  <2> QED BY <2>1
<1>6. ASSUME Len(FlattenSeq(cs)) <= 2 * MaxBytes PROVE 1 \in enough
  <2> DEFINE all == FlattenSeq(cs)
             whole == {i \in DOMAIN all : all[i] # "cont"}
  <2>1. all \in Seq(Octets)
    BY FlatType
  <2>2. Len(all) \in Nat /\ DOMAIN all = 1..Len(all)
    BY <2>1
  <2>3. IsFiniteSet(1..Len(all)) /\ Cardinality(1..Len(all)) = Len(all)
    <3> DEFINE n == Len(all)
    <3>0. n \in Nat
      BY <2>2
    <3> HIDE DEF n
    <3>1. IsFiniteSet(1..n) /\ Cardinality(1..n) = IF 1 > n THEN 0 ELSE n - 1 + 1
      BY <3>0, FS_Interval
    <3>2. Cardinality(1..n) = n
      BY <3>0, <3>1
    <3> QED BY <3>1, <3>2 DEF n
  <2>4. Cardinality(whole) <= Len(all) /\ IsFiniteSet(whole)
    <3>1. whole \in SUBSET (1..Len(all))
      BY <2>2
    <3> HIDE DEF whole, all
    <3> QED BY <2>3, <3>1, FS_Subset
  <2>5. Characters(cs) = Cardinality(whole)
    BY DEF Characters
  <2>6. Cardinality(whole) \in Nat
    BY <2>4, FS_CardinalityType
  <2>7. Characters(cs) <= 2 * MaxBytes
    <3> HIDE DEF whole
    <3> QED BY <1>6, <2>2, <2>4, <2>5, <2>6, MaxBytesAssumption
  <2>8. 1 \in DOMAIN cs
    <3> HIDE DEF K
    <3> QED BY <1>1
  <2> HIDE DEF all, whole
  <2> QED BY <1>4, <2>7, <2>8
<1> HIDE DEF enough, K
<1>7. i0 \in enough /\ \A j \in enough : i0 <= j
  <2>1. enough \in SUBSET Nat /\ enough # {}
    BY <1>1, <1>3
  <2>2. \E i \in enough : \A j \in enough : i <= j
    BY <2>1, LeastOf
  <2> QED BY <2>2
<1> HIDE DEF i0
<1>8. Rolled(cs) \in Seq(Seq(Octets))
  BY <1>2, <1>3, <1>5, <1>7
<1>9. 1 \in enough => i0 = 1
  <2>1. i0 \in 1..K
    BY <1>3, <1>7
  <2> QED BY <1>1, <1>7, <2>1
<1> QED BY <1>2, <1>4, <1>6, <1>8, <1>9

Chunks == Seq(Octets) \ {<<>>}
PumpPlaces ==
    {"off", "read", "extend", "decode", "clear", "delete", "count", "keep", "post", "over"}
Sinks ==
    [chunks : Seq(Seq(Octets)), total : Nat, path : BOOLEAN, open : BOOLEAN, file : Seq(Octets)]
ShellTypes ==
    /\ unwritten \in [Streams -> Seq(Chunks)] /\ pipe \in [Streams -> Seq(Chunks)]
    /\ pump \in [Streams -> PumpPlaces]
    /\ held \in [Streams -> Seq(Octets)] /\ text \in [Streams -> Seq(Octets)]
    /\ rest \in Seq(Octets) /\ taken \in Seq(Octets)
    /\ sink \in Sinks /\ (sink.open => sink.path)
    /\ posted \in Seq([text : Seq(Octets) \cup {Nothing}, raised : BOOLEAN])
    /\ stdioDone \in BOOLEAN /\ allRead \in BOOLEAN

\* The end comes last: of the worker, of what the loop is told, and of the pumps.
EndInv ==
    /\ exec = "called" => \A s \in Streams : pump[s] = "off"
    /\ \A s \in Streams : pump[s] = "over" => holders = {} /\ exec # "called"
    /\ stdioDone => exec = "ended"
    /\ allRead => stdioDone /\ \A s \in Streams : pump[s] = "over"
    /\ exec = "ended" /\ ~stdioDone => \A s \in Streams : pump[s] = "off"
    /\ \A i \in DOMAIN posted : posted[i].text = Nothing => exec = "ended"
    /\ outcome # Nothing => exec = "ended"

\* What has reached the file or, without one, is kept.
Sunk == IF sink.path THEN sink.file ELSE FlattenSeq(sink.chunks)
Silent(s) == unwritten[s] = <<>> /\ pipe[s] = <<>> /\ held[s] = <<>>
Carried(r, h) == \E c \in Seq(Octets) : r = c \o h /\ Decoded(c) = <<>>
\* Where the bytes taken are while only the other stream is used.
Flow(s, t) ==
    /\ pump[s] \in {"off", "read", "over"}
    /\ pump[t] \in {"extend", "decode", "clear", "delete", "count"} => held[t] # <<>>
    /\ Text(Sunk)
    /\ pump[t] \in {"off", "read", "over", "post"} => taken = Sunk \o rest /\ Decoded(rest) = <<>>
    /\ pump[t] = "extend" => taken = Sunk \o (rest \o held[t]) /\ Decoded(rest) = <<>>
    /\ pump[t] \in {"decode", "clear", "delete"} => taken = Sunk \o rest /\ Carried(rest, held[t])
    /\ pump[t] \in {"clear", "delete"} => text[t] = Decoded(rest)
    /\ pump[t] = "clear" => rest = text[t]
    /\ pump[t] \in {"count", "keep"} => Text(text[t]) /\ Decoded(rest) = <<>>
    /\ pump[t] = "count" => taken = Sunk \o (text[t] \o rest) /\ Len(text[t]) <= Len(held[t]) + 1
    /\ pump[t] = "keep" => taken = (IF sink.path THEN Sunk ELSE Sunk \o text[t]) \o rest
    /\ sink.path => sink.open \/ exec = "ended"
    /\ ~sink.path => /\ sink.total <= MaxBytes /\ Len(Sunk) <= 2 * sink.total
                     /\ pump[t] = "keep" => Len(Sunk) + Len(text[t]) <= 2 * sink.total
InTime == allRead \/ ~stdioDone
FlowInv == InTime => \A s, t \in Streams : s # t /\ Silent(s) => Flow(s, t)
ShellInv == ShellTypes /\ EndInv /\ FlowInv /\ NothingDropped

LEMMA SunkType ==
    ASSUME ShellTypes
    PROVE  /\ Sunk \in Seq(Octets) /\ Len(Sunk) \in Nat
           /\ FlattenSeq(sink.chunks) \in Seq(Octets)
<1>1. sink.chunks \in Seq(Seq(Octets)) /\ sink.file \in Seq(Octets)
  BY DEF ShellTypes, Sinks
<1>2. FlattenSeq(sink.chunks) \in Seq(Octets)
  BY <1>1, FlatType
<1>3. Sunk \in Seq(Octets)
  BY <1>1, <1>2 DEF Sunk
<1> QED BY <1>2, <1>3

LEMMA NilText == Text(<<>>) /\ Decoded(<<>>) = <<>>
<1>1. <<>> \in Seq(Octets)
  OBVIOUS
<1>2. TextEnds(<<>>, 0)
  BY DEF TextEnds
<1>3. Text(<<>>)
  BY <1>2 DEF Text
<1> QED BY <1>1, <1>3, TextDecoded

LEMMA ShellInvInit == ShellInit => ShellInv
<1> SUFFICES ASSUME ShellInit PROVE ShellInv
  OBVIOUS
<1>1. sink = [chunks |-> <<>>, total |-> 0, path |-> FALSE, open |-> FALSE, file |-> <<>>]
  BY DEF ShellInit
<1>2. <<>> \in Seq(Octets) /\ <<>> \in Seq(Seq(Octets)) /\ <<>> \in Seq(Chunks)
  OBVIOUS
<1>3. ShellTypes
  <2>1. unwritten \in [Streams -> Seq(Chunks)]
    BY OutputsAssumption DEF ShellInit, Chunks
  <2>2. sink \in Sinks /\ ~sink.open
    BY <1>1, <1>2 DEF Sinks
  <2>3. posted \in Seq([text : Seq(Octets) \cup {Nothing}, raised : BOOLEAN])
    BY DEF ShellInit
  <2>4. /\ pump \in [Streams -> PumpPlaces] /\ held \in [Streams -> Seq(Octets)]
        /\ text \in [Streams -> Seq(Octets)] /\ pipe \in [Streams -> Seq(Chunks)]
    BY <1>2 DEF ShellInit, PumpPlaces
  <2> QED BY <1>2, <2>1, <2>2, <2>3, <2>4 DEF ShellInit, ShellTypes
<1>4. EndInv
  BY DEF ShellInit, EndInv
<1>5. Sunk = <<>>
  BY <1>1, FlatEmpty DEF Sunk
<1>6. FlowInv
  <2> SUFFICES ASSUME NEW s \in Streams, NEW t \in Streams PROVE Flow(s, t)
    BY DEF FlowInv
  <2>1. pump[s] = "off" /\ pump[t] = "off" /\ rest = <<>> /\ taken = <<>>
    BY DEF ShellInit
  <2>2. sink.path = FALSE /\ sink.total = 0
    BY <1>1
  <2>3. Len(Sunk) = 0 /\ <<>> \o <<>> = <<>>
    BY <1>5
  <2> QED BY <1>5, <2>1, <2>2, <2>3, NilText, MaxBytesAssumption DEF Flow
<1>7. NothingDropped
  BY DEF ShellInit, NothingDropped
<1> QED BY <1>3, <1>4, <1>6, <1>7 DEF ShellInv

LEMMA FinishedSink ==
    ASSUME ShellTypes, Finished
    PROVE  /\ sink' \in Sinks /\ ~sink'.open
           /\ sink'.path => sink'.file = Sunk
           /\ ~sink'.path => ~sink.path /\ sink'.chunks = sink.chunks /\ sink'.total = sink.total
           /\ ~outcome'.raised
           /\ outcome'.whole = Sunk \/ (~outcome'.saved /\ Len(Sunk) >= MinSize)
<1> DEFINE all == FlattenSeq(sink.chunks)
<1>a. PICK recorded \in Compressed(all) :
         LET k == IF Len(recorded) > MaxBytes THEN WithFile(sink) ELSE sink
         IN  /\ outcome' = [raised |-> FALSE, cancelled |-> aborting, saved |-> k.path,
                            whole |-> IF k.path THEN k.file ELSE recorded]
             /\ sink' = [k EXCEPT !.open = FALSE]
  BY DEF Finished
<1> DEFINE k == IF Len(recorded) > MaxBytes THEN WithFile(sink) ELSE sink
<1>1. sink \in Sinks /\ all \in Seq(Octets)
  BY SunkType DEF ShellTypes
<1>2. /\ sink' = [k EXCEPT !.open = FALSE]
      /\ outcome' = [raised |-> FALSE, cancelled |-> aborting, saved |-> k.path,
                     whole |-> IF k.path THEN k.file ELSE recorded]
  BY <1>a
<1>b. recorded = all \/ Len(all) >= MinSize
  <2>1. Len(all) < MinSize => Compressed(all) = {all}
    BY DEF Compressed
  <2>2. Len(all) \in Nat /\ MinSize \in Nat
    BY <1>1, MinSizeAssumption
  <2> HIDE DEF all
  <2> QED BY <1>a, <2>1, <2>2
<1>3. /\ k \in Sinks /\ (k.path => k.file = Sunk)
      /\ ~k.path => ~sink.path /\ k = sink
  <2>1. WithFile(sink) = IF sink.path THEN sink
                         ELSE [sink EXCEPT !.path = TRUE, !.open = TRUE, !.file = all]
    BY DEF WithFile
  <2> HIDE DEF all
  <2>2. ASSUME ~sink.path PROVE WithFile(sink) \in Sinks /\ WithFile(sink).path
                                /\ WithFile(sink).file = all
    BY <1>1, <2>1, <2>2 DEF Sinks
  <2>3. Sunk = IF sink.path THEN sink.file ELSE all
    BY DEF Sunk, all
  <2>4. k = sink \/ k = WithFile(sink)
    OBVIOUS
  <2>5. CASE k = sink
    BY <1>1, <2>3, <2>5
  <2>6. CASE k = WithFile(sink) /\ ~sink.path
    BY <2>2, <2>3, <2>6
  <2>7. CASE k = WithFile(sink) /\ sink.path
    BY <1>1, <2>1, <2>3, <2>7
  <2> QED BY <2>4, <2>5, <2>6, <2>7
<1>4. Sunk = IF k.path THEN k.file ELSE all
  BY <1>3 DEF Sunk
<1> HIDE DEF k
<1>5. /\ sink' \in Sinks /\ sink'.open = FALSE /\ sink'.path = k.path /\ sink'.file = k.file
      /\ sink'.chunks = k.chunks /\ sink'.total = k.total
  BY <1>2, <1>3 DEF Sinks
<1>6. ~outcome'.raised /\ outcome'.saved = k.path
      /\ outcome'.whole = IF k.path THEN k.file ELSE recorded
  BY <1>2
<1>7. outcome'.whole = Sunk \/ (~outcome'.saved /\ Len(Sunk) >= MinSize)
  <2> HIDE DEF all
  <2> QED BY <1>4, <1>6, <1>b
<1> QED BY <1>3, <1>5, <1>6, <1>7

\* What a sink is when a text has been counted.
LEMMA CountFacts ==
    ASSUME ShellTypes, NEW s \in Streams, Count(s)
    PROVE  /\ sink' \in Sinks /\ (sink'.open => sink'.path)
           /\ sink'.total = sink.total + Len(held[s]) /\ sink'.chunks = sink.chunks
           /\ sink.path => sink'.path /\ sink'.open = sink.open
           /\ ~sink.path /\ sink'.path => sink'.open
           /\ sink'.path /\ sink'.open => sink'.file = Sunk \o text[s]
           /\ ~sink'.path => sink'.total <= MaxBytes
<1> DEFINE counted == [sink EXCEPT !.total = @ + Len(held[s])]
           opened == IF counted.total > MaxBytes THEN WithFile(counted) ELSE counted
           all == FlattenSeq(sink.chunks)
<1>1. /\ sink \in Sinks /\ all \in Seq(Octets) /\ held[s] \in Seq(Octets)
      /\ text[s] \in Seq(Octets) /\ Len(held[s]) \in Nat /\ (sink.open => sink.path)
  BY SunkType DEF ShellTypes
<1>2. sink' = IF opened.open THEN [opened EXCEPT !.file = @ \o text[s]] ELSE opened
  BY DEF Count
<1>3. /\ counted \in Sinks /\ counted.total = sink.total + Len(held[s])
      /\ counted.chunks = sink.chunks /\ counted.path = sink.path
      /\ counted.open = sink.open /\ counted.file = sink.file
  <2> DEFINE n == Len(held[s])
  <2>1. n \in Nat
    BY <1>1
  <2> HIDE DEF n
  <2>2. sink.total + n \in Nat
    BY <1>1, <2>1 DEF Sinks
  <2>3. counted = [sink EXCEPT !.total = sink.total + n]
    BY DEF n
  <2> HIDE DEF counted
  <2> QED BY <1>1, <2>2, <2>3 DEF Sinks, n
<1>4. Sunk = IF sink.path THEN sink.file ELSE all
  BY DEF Sunk
<1>5. WithFile(counted) = IF counted.path THEN counted
                          ELSE [counted EXCEPT !.path = TRUE, !.open = TRUE, !.file = all]
  BY <1>3 DEF WithFile
<1>6. opened = counted \/ opened = WithFile(counted)
  OBVIOUS
<1>7. counted.total > MaxBytes => opened = WithFile(counted)
  OBVIOUS
<1> HIDE DEF counted, opened, all
<1>8. /\ opened \in Sinks /\ opened.total = sink.total + Len(held[s])
      /\ opened.chunks = sink.chunks
      /\ sink.path => opened.path /\ opened.open = sink.open
      /\ ~sink.path /\ opened.path => opened.open
      /\ opened.open => opened.path /\ opened.file = Sunk
      /\ ~opened.path => opened.total <= MaxBytes
  <2>1. CASE opened = counted /\ ~(counted.total > MaxBytes)
    <3>1. opened.total <= MaxBytes
      <4>1. opened.total \in Nat
        BY <1>3, <2>1 DEF Sinks
      <4> QED BY <2>1, <4>1, MaxBytesAssumption
    <3> QED BY <1>1, <1>3, <1>4, <2>1, <3>1
  <2>2. CASE opened = WithFile(counted) /\ sink.path
    BY <1>1, <1>3, <1>4, <1>5, <2>2
  <2>3. CASE opened = WithFile(counted) /\ ~sink.path
    <3>1. opened = [counted EXCEPT !.path = TRUE, !.open = TRUE, !.file = all]
      BY <1>3, <1>5, <2>3
    <3>2. /\ opened \in Sinks /\ opened.path /\ opened.open /\ opened.file = all
          /\ opened.total = counted.total /\ opened.chunks = counted.chunks
      BY <1>1, <1>3, <3>1 DEF Sinks
    <3> QED BY <1>3, <1>4, <2>3, <3>2
  <2> QED BY <1>6, <1>7, <2>1, <2>2, <2>3
<1>9. CASE opened.open
  <2>1. sink' = [opened EXCEPT !.file = @ \o text[s]]
    BY <1>2, <1>9
  <2>2. Sunk \o text[s] \in Seq(Octets)
    BY <1>1, SunkType, TwoPlaces
  <2>3. /\ sink' \in Sinks /\ sink'.file = Sunk \o text[s] /\ sink'.path = opened.path
        /\ sink'.open = opened.open /\ sink'.total = opened.total /\ sink'.chunks = opened.chunks
    BY <1>8, <1>9, <2>1, <2>2 DEF Sinks
  <2> QED BY <1>8, <1>9, <2>3
<1>10. CASE ~opened.open
  BY <1>2, <1>8, <1>10
<1> QED BY <1>9, <1>10

LEMMA KeepFacts ==
    ASSUME ShellTypes, NEW s \in Streams, KeepText(s)
    PROVE  /\ sink' \in Sinks /\ sink'.path = sink.path /\ sink'.open = sink.open
           /\ sink'.total = sink.total /\ sink'.file = sink.file
           /\ Len(FlattenSeq(sink.chunks)) + Len(text[s]) <= 2 * MaxBytes =>
                 FlattenSeq(sink'.chunks) = FlattenSeq(sink.chunks) \o text[s]
<1> DEFINE cs == Append(sink.chunks, text[s])
<1>1. sink \in Sinks /\ sink.chunks \in Seq(Seq(Octets)) /\ text[s] \in Seq(Octets)
  BY DEF ShellTypes, Sinks
<1>2. cs \in Seq(Seq(Octets)) /\ cs # <<>>
  BY <1>1, AppendProperties
<1>3. FlattenSeq(cs) = FlattenSeq(sink.chunks) \o text[s]
  BY <1>1, FlatAppend
<1>4. sink' = [sink EXCEPT !.chunks = Rolled(cs)]
  BY DEF KeepText
<1> HIDE DEF cs
<1>5. Rolled(cs) \in Seq(Seq(Octets)) /\ (Len(FlattenSeq(cs)) <= 2 * MaxBytes => Rolled(cs) = cs)
  BY <1>2, RolledFacts
<1>6. /\ sink' \in Sinks /\ sink'.path = sink.path /\ sink'.open = sink.open
      /\ sink'.total = sink.total /\ sink'.file = sink.file /\ sink'.chunks = Rolled(cs)
  BY <1>1, <1>4, <1>5 DEF Sinks
<1>7. Len(FlattenSeq(cs)) = Len(FlattenSeq(sink.chunks)) + Len(text[s])
  BY <1>1, <1>3, SunkType, TwoPlaces
<1> QED BY <1>3, <1>5, <1>6, <1>7

Postings == [text : Seq(Octets) \cup {Nothing}, raised : BOOLEAN]
LEMMA ShellTypesStep == ShellTypes /\ [ShellNext]_shellVars => ShellTypes'
<1> SUFFICES ASSUME ShellTypes, [ShellNext]_shellVars PROVE ShellTypes'
  OBVIOUS
<1>1. /\ unwritten \in [Streams -> Seq(Chunks)] /\ pipe \in [Streams -> Seq(Chunks)]
      /\ pump \in [Streams -> PumpPlaces]
      /\ held \in [Streams -> Seq(Octets)] /\ text \in [Streams -> Seq(Octets)]
      /\ rest \in Seq(Octets) /\ taken \in Seq(Octets)
      /\ sink \in Sinks /\ (sink.open => sink.path) /\ posted \in Seq(Postings)
      /\ stdioDone \in BOOLEAN /\ allRead \in BOOLEAN
  BY DEF ShellTypes, Postings
<1>2. ASSUME Start PROVE ShellTypes'
  BY <1>1, <1>2 DEF Start, ShellTypes, Postings, PumpPlaces
<1>3. ASSUME SpawnFails PROVE ShellTypes'
  <2>1. [text |-> Nothing, raised |-> TRUE] \in Postings
    BY DEF Postings
  <2>2. posted' \in Seq(Postings)
    BY <1>1, <1>3, <2>1, AppendProperties DEF SpawnFails
  <2> QED BY <1>1, <1>3, <2>2 DEF SpawnFails, ShellTypes, processVars, pumpVars, Postings
<1>4. ASSUME Reaped \/ Poll \/ AbortBash PROVE ShellTypes'
  BY <1>1, <1>4 DEF Reaped, Poll, AbortBash, ShellTypes, processVars, pumpVars, Postings
<1>5. ASSUME Joined PROVE ShellTypes'
  <2>1. [text |-> Nothing, raised |-> FALSE] \in Postings
    BY DEF Postings
  <2>2. posted' \in Seq(Postings)
    BY <1>1, <1>5, <2>1, AppendProperties DEF Joined
  <2>3. stdioDone' \in BOOLEAN /\ allRead' \in BOOLEAN
    BY <1>5 DEF Joined
  <2> QED BY <1>1, <1>5, <2>2, <2>3 DEF Joined, ShellTypes, processVars, pumpVars, Postings
<1>6. ASSUME LoopStep PROVE ShellTypes'
  <2>1. posted' \in Seq(Postings)
    BY <1>1, <1>6, HeadTailProperties DEF LoopStep
  <2>2. sink' = sink \/ sink' = [sink EXCEPT !.open = FALSE] \/ Finished
    BY <1>6 DEF LoopStep
  <2>3. sink' \in Sinks /\ (sink'.open => sink'.path)
    <3>1. CASE sink' = sink
      BY <1>1, <3>1
    <3>2. CASE sink' = [sink EXCEPT !.open = FALSE]
      BY <1>1, <3>2 DEF Sinks
    <3>3. CASE Finished
      BY <3>3, FinishedSink
    <3> QED BY <2>2, <3>1, <3>2, <3>3
  <2> QED BY <1>1, <1>6, <2>1, <2>3 DEF LoopStep, ShellTypes, processVars, Postings
<1>7. ASSUME NEW s \in Streams, Writes(s) PROVE ShellTypes'
  <2>1. unwritten[s] \in Seq(Chunks) /\ unwritten[s] # <<>> /\ pipe[s] \in Seq(Chunks)
    BY <1>1, <1>7 DEF Writes
  <2>2. Tail(unwritten[s]) \in Seq(Chunks) /\ Append(pipe[s], Head(unwritten[s])) \in Seq(Chunks)
    BY <2>1, HeadTailProperties, AppendProperties
  <2>3. unwritten' \in [Streams -> Seq(Chunks)] /\ pipe' \in [Streams -> Seq(Chunks)]
    BY <1>1, <1>7, <2>2 DEF Writes
  <2> QED BY <1>1, <1>7, <2>3 DEF Writes, ShellTypes, pumpVars, Postings
<1>8. ASSUME NEW p, Exits(p) PROVE ShellTypes'
  BY <1>1, <1>8 DEF Exits, ShellTypes, pumpVars, Postings
<1>9. ASSUME NEW s \in Streams, Pumps(s) PROVE ShellTypes'
  <2>1. \A to \in PumpPlaces : [pump EXCEPT ![s] = to] \in [Streams -> PumpPlaces]
    BY <1>1
  <2>2. ASSUME ReadPipe(s) PROVE ShellTypes'
    <3>1. pump' \in [Streams -> PumpPlaces]
      <4>1. pump' = pump \/ Goes(s, "extend") \/ Goes(s, "over")
        BY <2>2 DEF ReadPipe
      <4>2. "extend" \in PumpPlaces /\ "over" \in PumpPlaces
        BY DEF PumpPlaces
      <4> QED BY <1>1, <2>1, <4>1, <4>2 DEF Goes
    <3>2. ASSUME pipe[s] # <<>> PROVE Tail(pipe[s]) \in Seq(Chunks) /\ Head(pipe[s]) \in Seq(Octets)
      <4>1. pipe[s] \in Seq(Chunks)
        BY <1>1
      <4>2. Head(pipe[s]) \in Chunks /\ Tail(pipe[s]) \in Seq(Chunks)
        BY <3>2, <4>1, HeadTailProperties
      <4> QED BY <4>2 DEF Chunks
    <3>3. /\ pipe' \in [Streams -> Seq(Chunks)] /\ held' \in [Streams -> Seq(Octets)]
          /\ taken' \in Seq(Octets)
      <4>1. CASE pipe[s] # <<>>
        <5>1. taken \o Head(pipe[s]) \in Seq(Octets)
          BY <1>1, <3>2, <4>1, TwoPlaces
        <5> QED BY <1>1, <2>2, <3>2, <4>1, <5>1 DEF ReadPipe
      <4>2. CASE pipe[s] = <<>>
        BY <1>1, <2>2, <4>2 DEF ReadPipe
      <4> QED BY <4>1, <4>2
    <3> QED BY <1>1, <2>2, <3>1, <3>3 DEF ReadPipe, ShellTypes, Postings
  <2>3. ASSUME Extend(s) PROVE ShellTypes'
    <3>1. rest' \in Seq(Octets)
      BY <1>1, <2>3, TwoPlaces DEF Extend
    <3> QED BY <1>1, <2>1, <2>3, <3>1 DEF Extend, elsewhere, processVars, ShellTypes, Goes,
                                           PumpPlaces, Postings
  <2>4. ASSUME Decode(s) PROVE ShellTypes'
    <3>1. Decoded(rest) \in Seq(Octets)
      BY <1>1, DecodedType
    <3>2. text' \in [Streams -> Seq(Octets)]
      BY <1>1, <2>4, <3>1 DEF Decode
    <3>3. pump' \in [Streams -> PumpPlaces]
      BY <2>1, <2>4 DEF Decode, Goes, PumpPlaces
    <3> QED BY <1>1, <2>4, <3>2, <3>3 DEF Decode, elsewhere, processVars, ShellTypes, Postings
  <2>5. ASSUME Consume(s) PROVE ShellTypes'
    <3>1. SubSeq(rest, Len(text[s]) + 1, Len(rest)) \in Seq(Octets)
      <4>1. Len(text[s]) + 1 \in Nat /\ Len(text[s]) + 1 >= 1
        <5>1. Len(text[s]) \in Nat
          BY <1>1
        <5> QED BY <5>1
      <4>2. \A m \in Nat : m >= 1 => SubSeq(rest, m, Len(rest)) \in Seq(Octets)
        BY <1>1
      <4> QED BY <4>1, <4>2
    <3>2. rest' \in Seq(Octets)
      BY <2>5, <3>1 DEF Consume
    <3>3. pump' \in [Streams -> PumpPlaces]
      BY <2>1, <2>5 DEF Consume, Goes, PumpPlaces
    <3> QED BY <1>1, <2>5, <3>2, <3>3 DEF Consume, elsewhere, processVars, ShellTypes, Postings
  <2>6. ASSUME Count(s) PROVE ShellTypes'
    <3>1. sink' \in Sinks /\ (sink'.open => sink'.path)
      BY <2>6, CountFacts
    <3>2. pump' \in [Streams -> PumpPlaces]
      BY <2>1, <2>6 DEF Count, Goes, PumpPlaces
    <3> QED BY <1>1, <2>6, <3>1, <3>2 DEF Count, elsewhere, processVars, ShellTypes, Postings
  <2>7. ASSUME KeepText(s) PROVE ShellTypes'
    <3>1. sink' \in Sinks /\ (sink'.open => sink'.path)
      BY <1>1, <2>7, KeepFacts
    <3>2. pump' \in [Streams -> PumpPlaces]
      BY <2>1, <2>7 DEF KeepText, Goes, PumpPlaces
    <3> QED BY <1>1, <2>7, <3>1, <3>2 DEF KeepText, elsewhere, processVars, ShellTypes, Postings
  <2>8. ASSUME Post(s) PROVE ShellTypes'
    <3>1. [text |-> text[s], raised |-> FALSE] \in Postings
      BY <1>1 DEF Postings
    <3>2. posted' \in Seq(Postings)
      BY <1>1, <2>8, <3>1, AppendProperties DEF Post
    <3>3. pump' \in [Streams -> PumpPlaces]
      BY <2>1, <2>8 DEF Post, Goes, PumpPlaces
    <3> QED BY <1>1, <2>8, <3>2, <3>3 DEF Post, elsewhere, processVars, ShellTypes, Postings
  <2> QED BY <1>9, <2>2, <2>3, <2>4, <2>5, <2>6, <2>7, <2>8 DEF Pumps
<1>10. ASSUME UNCHANGED shellVars PROVE ShellTypes'
  BY <1>1, <1>10 DEF shellVars, processVars, pumpVars, ShellTypes, Postings
<1> QED BY <1>2, <1>3, <1>4, <1>5, <1>6, <1>7, <1>8, <1>9, <1>10 DEF ShellNext

LEMMA EndInvStep == ShellTypes /\ EndInv /\ [ShellNext]_shellVars => EndInv'
<1> SUFFICES ASSUME ShellTypes, EndInv, [ShellNext]_shellVars PROVE EndInv'
  OBVIOUS
<1> USE DEF EndInv
<1>1. pump \in [Streams -> PumpPlaces] /\ posted \in Seq(Postings)
  BY DEF ShellTypes, Postings
<1>2. ASSUME Start PROVE EndInv'
  BY <1>2 DEF Start
<1>3. ASSUME NEW e \in Postings, posted' = Append(posted, e),
             e.text = Nothing => exec' = "ended", exec = "ended" => exec' = "ended"
      PROVE  \A i \in DOMAIN posted' : posted'[i].text = Nothing => exec' = "ended"
  <2> DEFINE n == Len(posted)
  <2>1. /\ DOMAIN posted = 1..n /\ n \in Nat /\ DOMAIN posted' = 1..(n + 1)
        /\ \A i \in 1..n : posted'[i] = posted[i]
        /\ posted'[n + 1] = e
    BY <1>1, <1>3, AppendProperties
  <2> HIDE DEF n
  <2>2. SUFFICES ASSUME NEW i \in 1..(n + 1), posted'[i].text = Nothing PROVE exec' = "ended"
    BY <2>1
  <2>3. CASE i = n + 1
    BY <1>3, <2>1, <2>2, <2>3
  <2>4. CASE i # n + 1
    <3>1. i \in 1..n
      BY <2>1, <2>4
    <3>2. posted[i].text = Nothing
      BY <2>1, <2>2, <3>1
    <3> QED BY <1>3, <2>1, <3>1, <3>2
  <2> QED BY <2>3, <2>4
<1>4. ASSUME SpawnFails PROVE EndInv'
  <2>1. [text |-> Nothing, raised |-> TRUE] \in Postings /\ exec' = "ended" /\ exec = "called"
    BY <1>4 DEF SpawnFails, Postings
  <2>2. \A i \in DOMAIN posted' : posted'[i].text = Nothing => exec' = "ended"
    BY <1>3, <1>4, <2>1 DEF SpawnFails
  <2> QED BY <1>4, <2>1, <2>2 DEF SpawnFails, processVars, pumpVars
<1>5. ASSUME Reaped PROVE EndInv'
  BY <1>5 DEF Reaped, processVars, pumpVars
<1>6. ASSUME Joined PROVE EndInv'
  <2>1. [text |-> Nothing, raised |-> FALSE] \in Postings /\ exec' = "ended" /\ exec = "joining"
    BY <1>6 DEF Joined, Postings
  <2>2. \A i \in DOMAIN posted' : posted'[i].text = Nothing => exec' = "ended"
    BY <1>3, <1>6, <2>1 DEF Joined
  <2> QED BY <1>6, <2>1, <2>2 DEF Joined, processVars, pumpVars
<1>7. ASSUME Poll PROVE EndInv'
  BY <1>7 DEF Poll, pumpVars, Outside
<1>8. ASSUME LoopStep PROVE EndInv'
  <2> DEFINE n == Len(posted)
  <2>1. posted # <<>> /\ posted' = Tail(posted)
    BY <1>8 DEF LoopStep
  <2>2. /\ n \in Nat /\ DOMAIN posted = 1..n /\ n >= 1
        /\ DOMAIN posted' = 1..(n - 1) /\ \A i \in 1..(n - 1) : posted'[i] = posted[i + 1]
        /\ Head(posted) = posted[1]
    <3>1. n \in Nat /\ n # 0 /\ DOMAIN posted = 1..n
      BY <1>1, <2>1, EmptySeq
    <3>2. posted' \in Seq(Postings) /\ Len(posted') = n - 1
          /\ \A i \in 1..(n - 1) : posted'[i] = posted[i + 1]
      BY <1>1, <2>1, HeadTailProperties
    <3>3. Head(posted) = posted[1] /\ DOMAIN posted' = 1..Len(posted')
      BY <1>1, <2>1, <3>2
    <3> HIDE DEF n
    <3> QED BY <3>1, <3>2, <3>3
  <2> HIDE DEF n
  <2>3. ASSUME NEW i \in DOMAIN posted', posted'[i].text = Nothing PROVE exec = "ended"
    <3>1. i \in 1..(n - 1) /\ i + 1 \in 1..n
      BY <2>2, <2>3
    <3> QED BY <2>2, <2>3, <3>1
  <2>4. Head(posted).text = Nothing => exec = "ended"
    <3>1. 1 \in 1..n
      BY <2>2
    <3> QED BY <2>2, <3>1
  <2>5. Head(posted).text # Nothing => outcome' = outcome
    BY <1>8 DEF LoopStep
  <2> QED BY <1>8, <2>3, <2>4, <2>5 DEF LoopStep, processVars
<1>9. ASSUME AbortBash PROVE EndInv'
  BY <1>9 DEF AbortBash, pumpVars
<1>10. ASSUME NEW s \in Streams, Writes(s) PROVE EndInv'
  BY <1>10 DEF Writes, pumpVars
<1>11. ASSUME NEW p, Exits(p) PROVE EndInv'
  BY <1>11 DEF Exits, pumpVars
<1>12. ASSUME NEW s \in Streams, Pumps(s) PROVE EndInv'
  <2>1. pump[s] \notin {"off", "over"}
    BY <1>12 DEF Pumps, ReadPipe, Extend, Decode, Consume, Count, KeepText, Post
  <2>2. \E to \in PumpPlaces \ {"off"} : pump' = pump \/ pump' = [pump EXCEPT ![s] = to]
    BY <1>12 DEF Pumps, ReadPipe, Extend, Decode, Consume, Count, KeepText, Post, Goes, PumpPlaces
  <2>3. \A r \in Streams : pump[r] = "over" => pump'[r] = "over"
    BY <1>1, <2>1, <2>2
  <2>4. \A r \in Streams : pump'[r] = "over" /\ pump[r] # "over" => holders = {}
    <3>1. ReadPipe(s) \/ ~Goes(s, "over")
      BY <1>1, <1>12 DEF Pumps, Extend, Decode, Consume, Count, KeepText, Post, Goes
    <3>2. ReadPipe(s) => pump' = pump \/ Goes(s, "extend") \/ holders = {}
      BY DEF ReadPipe
    <3>3. CASE ReadPipe(s)
      BY <1>1, <2>1, <3>2, <3>3 DEF Goes
    <3>4. CASE ~ReadPipe(s)
      <4>1. \E to \in PumpPlaces \ {"over"} : pump' = [pump EXCEPT ![s] = to]
        BY <1>12, <3>4 DEF Pumps, Extend, Decode, Consume, Count, KeepText, Post, Goes, PumpPlaces
      <4> QED BY <1>1, <4>1
    <3> QED BY <3>3, <3>4
  <2>5. /\ UNCHANGED <<holders, exec, stdioDone, allRead, outcome>>
        /\ exec # "called" /\ ~allRead /\ (exec = "ended" => stdioDone)
    <3>1. UNCHANGED <<holders, exec, stdioDone, allRead, outcome>>
      BY <1>12 DEF Pumps, ReadPipe, Extend, Decode, Consume, Count, KeepText, Post,
                   elsewhere, processVars
    <3> QED BY <2>1, <3>1
  <2>6. \A i \in DOMAIN posted' : posted'[i].text = Nothing => exec' = "ended"
    <3>1. CASE posted' = posted
      BY <2>5, <3>1
    <3>2. CASE Post(s)
      <4>1. /\ posted' = Append(posted, [text |-> text[s], raised |-> FALSE])
            /\ [text |-> text[s], raised |-> FALSE] \in Postings
            /\ text[s] # Nothing
        BY <3>2, NothingAssumption DEF Post, Postings, ShellTypes
      <4> QED BY <1>3, <2>5, <4>1
    <3>3. posted' = posted \/ Post(s)
      BY <1>12 DEF Pumps, ReadPipe, Extend, Decode, Consume, Count, KeepText, elsewhere
    <3> QED BY <3>1, <3>2, <3>3
  <2> QED BY <2>3, <2>4, <2>5, <2>6
<1>13. ASSUME UNCHANGED shellVars PROVE EndInv'
  BY <1>13 DEF shellVars, processVars, pumpVars
<1> QED BY <1>2, <1>4, <1>5, <1>6, <1>7, <1>8, <1>9, <1>10, <1>11, <1>12, <1>13 DEF ShellNext

\* A stream that is not used has not been used, unless something was dropped.
LEMMA SilentBefore ==
    ASSUME ShellTypes, EndInv, [ShellNext]_shellVars, InTime'
    PROVE  /\ InTime
           /\ \A s \in Streams : Silent(s)' => Silent(s)
           /\ allRead => taken' = taken
<1>1. /\ pipe \in [Streams -> Seq(Chunks)] /\ unwritten \in [Streams -> Seq(Chunks)]
      /\ held \in [Streams -> Seq(Octets)] /\ stdioDone \in BOOLEAN
  BY DEF ShellTypes
<1>2. CASE Joined
  <2>1. ~stdioDone /\ ~allRead
    BY <1>1, <1>2 DEF EndInv, Joined
  <2> QED BY <1>2, <2>1 DEF InTime, Silent, Joined, processVars, pumpVars
<1>3. ASSUME UNCHANGED <<unwritten, pipe, held, stdioDone, allRead>>, allRead => taken' = taken
      PROVE  /\ InTime
             /\ \A s \in Streams : Silent(s)' => Silent(s)
             /\ allRead => taken' = taken
  BY <1>3 DEF InTime, Silent
<1>4. CASE Start \/ SpawnFails \/ Reaped \/ Poll \/ AbortBash \/ UNCHANGED shellVars
  BY <1>3, <1>4 DEF Start, SpawnFails, Reaped, Poll, AbortBash, processVars, pumpVars, shellVars
<1>5. CASE LoopStep
  BY <1>3, <1>5 DEF LoopStep, processVars
<1>6. ASSUME NEW p, Exits(p)
      PROVE  UNCHANGED <<unwritten, pipe, held, stdioDone, allRead>> /\ taken' = taken
  BY <1>6 DEF Exits, pumpVars
<1>7. ASSUME NEW r \in Streams, Writes(r)
      PROVE  /\ InTime
             /\ \A s \in Streams : Silent(s)' => Silent(s)
             /\ allRead => taken' = taken
  <2>1. pipe'[r] # <<>>
    <3>1. pipe[r] \in Seq(Chunks) /\ pipe'[r] = Append(pipe[r], Head(unwritten[r]))
      BY <1>1, <1>7 DEF Writes
    <3>2. Head(unwritten[r]) \in Chunks
      BY <1>1, <1>7, HeadTailProperties DEF Writes
    <3> QED BY <3>1, <3>2, AppendProperties
  <2>2. \A s \in Streams : s # r => unwritten'[s] = unwritten[s] /\ pipe'[s] = pipe[s]
    BY <1>1, <1>7 DEF Writes
  <2>3. UNCHANGED <<held, stdioDone, allRead, taken>>
    BY <1>7 DEF Writes, pumpVars
  <2> QED BY <2>1, <2>2, <2>3 DEF InTime, Silent
<1>8. ASSUME NEW r \in Streams, ReadPipe(r)
      PROVE  /\ InTime
             /\ \A s \in Streams : Silent(s)' => Silent(s)
             /\ allRead => taken' = taken
  <2>1. UNCHANGED <<unwritten, stdioDone, allRead>> /\ pump[r] = "read"
    BY <1>8 DEF ReadPipe
  <2>2. ~allRead /\ ~stdioDone
    BY <1>1, <2>1 DEF EndInv, InTime
  <2>3. CASE pipe[r] # <<>>
    <3>1. held' = [held EXCEPT ![r] = Head(pipe[r])] /\ pipe' = [pipe EXCEPT ![r] = Tail(@)]
      BY <1>8, <2>2, <2>3 DEF ReadPipe
    <3>2. Head(pipe[r]) \in Chunks
      BY <1>1, <2>3, HeadTailProperties
    <3>3. held'[r] # <<>>
      BY <1>1, <3>1, <3>2 DEF Chunks
    <3>4. \A s \in Streams : s # r => held'[s] = held[s] /\ pipe'[s] = pipe[s]
      BY <1>1, <3>1
    <3> QED BY <2>1, <2>2, <3>3, <3>4 DEF InTime, Silent
  <2>4. CASE pipe[r] = <<>>
    BY <1>8, <2>1, <2>2, <2>4 DEF ReadPipe, InTime, Silent
  <2> QED BY <2>3, <2>4
<1>9. ASSUME NEW r \in Streams, Pumps(r)
      PROVE  ReadPipe(r) \/ (UNCHANGED <<unwritten, pipe, held, stdioDone, allRead, taken>>)
  BY <1>9 DEF Pumps, Extend, Decode, Consume, Count, KeepText, Post, elsewhere, processVars
<1>10. \/ Start \/ SpawnFails \/ Reaped \/ Poll \/ AbortBash \/ UNCHANGED shellVars \/ LoopStep
       \/ Joined \/ (\E p : Exits(p)) \/ \E r \in Streams : Writes(r) \/ Pumps(r)
  BY DEF ShellNext
<1>11. CASE \E p : Exits(p)
  BY <1>3, <1>6, <1>11
<1>12. CASE \E r \in Streams : Pumps(r)
  <2>1. PICK r \in Streams : Pumps(r)
    BY <1>12
  <2>2. CASE ReadPipe(r)
    BY <1>8, <2>2
  <2>3. CASE ~ReadPipe(r)
    BY <1>3, <1>9, <2>1, <2>3
  <2> QED BY <2>2, <2>3
<1>13. CASE \E r \in Streams : Writes(r)
  BY <1>7, <1>13
<1> QED BY <1>2, <1>4, <1>5, <1>10, <1>11, <1>12, <1>13

LEMMA TextJoin ==
    ASSUME NEW a \in Seq(Octets), NEW b \in Seq(Octets), Text(a), Text(b)
    PROVE  Text(a \o b)
<1>1. Decoded(a \o b) = a \o b
  BY TextFirst, TextDecoded
<1> QED BY <1>1, TwoPlaces, TextDecoded

\* What a pump does to the bytes taken, while only its stream is used.
LEMMA FlowRead ==
    ASSUME ShellTypes, EndInv, NEW s \in Streams, NEW t \in Streams, s # t, Flow(s, t),
           ReadPipe(t), ~stdioDone
    PROVE  Flow(s, t)'
<1>1. /\ pump \in [Streams -> PumpPlaces] /\ pump[t] = "read" /\ rest \in Seq(Octets)
      /\ held \in [Streams -> Seq(Octets)] /\ pipe \in [Streams -> Seq(Chunks)]
      /\ Sunk \in Seq(Octets)
  BY SunkType DEF ShellTypes, ReadPipe
<1>2. UNCHANGED <<sink, Sunk, rest, text, exec>>
  BY DEF ReadPipe, Sunk
<1>3. CASE pipe[t] # <<>>
  <2> DEFINE h == Head(pipe[t])
  <2>1. h \in Chunks /\ h \in Seq(Octets) /\ h # <<>>
    BY <1>1, <1>3, HeadTailProperties DEF Chunks
  <2>2. /\ pump' = [pump EXCEPT ![t] = "extend"] /\ held' = [held EXCEPT ![t] = h]
        /\ taken' = taken \o h
    BY <1>3 DEF ReadPipe, Goes
  <2> HIDE DEF h
  <2>3. pump'[t] = "extend" /\ pump'[s] = pump[s] /\ held'[t] = h
    BY <1>1, <2>2
  <2>4. taken = Sunk \o rest /\ Decoded(rest) = <<>>
    BY <1>1 DEF Flow
  <2>5. taken' = Sunk \o (rest \o h)
    <3>1. (Sunk \o rest) \o h = Sunk \o (rest \o h)
      <4>1. Sunk \in Seq(Octets) /\ rest \in Seq(Octets) /\ h \in Seq(Octets)
        BY <1>1, <2>1
      <4>2. Grouped(Sunk, rest, h)
        BY <4>1, Groups
      <4> QED BY <4>2 DEF Grouped
    <3> QED BY <2>2, <2>4, <3>1
  <2> QED BY <1>2, <2>1, <2>3, <2>4, <2>5, <1>1 DEF Flow
<1>4. CASE pipe[t] = <<>>
  <2>1. pump' = [pump EXCEPT ![t] = "over"] /\ UNCHANGED <<held, taken>>
    BY <1>4 DEF ReadPipe, Goes
  <2>2. pump'[t] = "over" /\ pump'[s] = pump[s]
    BY <1>1, <2>1
  <2> QED BY <1>1, <1>2, <2>1, <2>2 DEF Flow
<1> QED BY <1>3, <1>4

LEMMA FlowExtend ==
    ASSUME ShellTypes, EndInv, NEW s \in Streams, NEW t \in Streams, s # t, Flow(s, t),
           Extend(t)
    PROVE  Flow(s, t)'
<1>1. /\ pump \in [Streams -> PumpPlaces] /\ pump[t] = "extend" /\ rest \in Seq(Octets)
  BY DEF ShellTypes, Extend
<1>2. UNCHANGED <<sink, Sunk, text, held, taken, exec>> /\ rest' = rest \o held[t]
  BY DEF Extend, Sunk, elsewhere
<1>3. pump'[t] = "decode" /\ pump'[s] = pump[s]
  BY <1>1 DEF Extend, Goes
<1>4. Carried(rest', held'[t])
  BY <1>1, <1>2 DEF Carried, Flow
<1> QED BY <1>1, <1>2, <1>3, <1>4 DEF Flow

LEMMA FlowDecode ==
    ASSUME ShellTypes, EndInv, NEW s \in Streams, NEW t \in Streams, s # t, Flow(s, t),
           Decode(t)
    PROVE  Flow(s, t)'
<1>1. pump \in [Streams -> PumpPlaces] /\ pump[t] = "decode" /\ text \in [Streams -> Seq(Octets)]
  BY DEF ShellTypes, Decode
<1>2. /\ UNCHANGED <<sink, Sunk, held, rest, taken, exec>>
      /\ text' = [text EXCEPT ![t] = Decoded(rest)]
  BY DEF Decode, Sunk, elsewhere
<1>3. /\ pump'[t] \in {"clear", "delete"} /\ pump'[s] = pump[s] /\ text'[t] = Decoded(rest)
      /\ pump'[t] = "clear" => Decoded(rest) = rest
  BY <1>1, <1>2 DEF Decode, Goes
<1>4. Carried(rest', held'[t]) /\ taken' = Sunk' \o rest'
  BY <1>1, <1>2 DEF Flow, Carried
<1> QED BY <1>1, <1>2, <1>3, <1>4 DEF Flow

LEMMA FlowConsume ==
    ASSUME ShellTypes, EndInv, NEW s \in Streams, NEW t \in Streams, s # t, Flow(s, t),
           Consume(t)
    PROVE  Flow(s, t)'
<1> DEFINE T == text[t]
<1>1. /\ pump \in [Streams -> PumpPlaces] /\ pump[t] \in {"clear", "delete"} /\ rest \in Seq(Octets)
      /\ Sunk \in Seq(Octets) /\ held[t] \in Seq(Octets) /\ T \in Seq(Octets)
  BY SunkType DEF ShellTypes, Consume
<1>2. UNCHANGED <<sink, Sunk, held, text, taken, exec>>
  BY DEF Consume, Sunk, elsewhere
<1>3. /\ T = Decoded(rest) /\ (pump[t] = "clear" => rest = T)
      /\ taken = Sunk \o rest /\ Carried(rest, held[t]) /\ held[t] # <<>>
  BY <1>1 DEF Flow
<1>4. Text(T) /\ rest' \in Seq(Octets) /\ rest = T \o rest' /\ Decoded(rest') = <<>>
  <2>1. LET r == SubSeq(rest, Len(T) + 1, Len(rest))
        IN  r \in Seq(Octets) /\ rest = T \o r /\ Text(T) /\ Decoded(r) = <<>>
    BY <1>1, <1>3, DecodedParts
  <2>2. CASE pump[t] = "clear"
    <3>1. rest' = <<>> /\ rest = T
      BY <1>3, <2>2 DEF Consume
    <3>2. T \o <<>> = T /\ <<>> \in Seq(Octets)
      BY <1>1, ConcatEmptySeq
    <3> QED BY <2>1, <3>1, <3>2, NilText
  <2>3. CASE pump[t] # "clear"
    <3>1. rest' = SubSeq(rest, Len(T) + 1, Len(rest))
      BY <2>3 DEF Consume
    <3> QED BY <2>1, <3>1
  <2> QED BY <2>2, <2>3
<1>5. pump'[t] = (IF T = <<>> THEN "read" ELSE "count") /\ pump'[s] = pump[s]
  BY <1>1 DEF Consume, Goes
<1>6. CASE T = <<>>
  <2>1. rest = rest'
    <3>1. <<>> \o rest' = rest'
      BY <1>4, ConcatEmptySeq
    <3> QED BY <1>4, <1>6, <3>1
  <2> HIDE DEF T
  <2> QED BY <1>1, <1>2, <1>3, <1>4, <1>5, <1>6, <2>1 DEF Flow
<1>7. CASE T # <<>>
  <2>1. Len(T) <= Len(held[t]) + 1
    <3>1. PICK c \in Seq(Octets) : rest = c \o held[t] /\ Decoded(c) = <<>>
      BY <1>3 DEF Carried
    <3> QED BY <1>1, <1>3, <1>7, <3>1, HalfCarried
  <2>2. taken' = Sunk' \o (text'[t] \o rest')
    BY <1>2, <1>3, <1>4
  <2>3. pump'[t] = "count"
    BY <1>5, <1>7
  <2>4. Text(text'[t]) /\ Len(text'[t]) <= Len(held'[t]) + 1 /\ held'[t] # <<>>
    BY <1>2, <1>3, <1>4, <2>1
  <2> HIDE DEF T
  <2> QED BY <1>1, <1>2, <1>4, <1>5, <2>2, <2>3, <2>4 DEF Flow
<1> QED BY <1>6, <1>7

LEMMA FlowCount ==
    ASSUME ShellTypes, EndInv, NEW s \in Streams, NEW t \in Streams, s # t, Flow(s, t),
           Count(t), exec # "ended"
    PROVE  Flow(s, t)'
<1> DEFINE T == text[t]
<1>1. /\ pump \in [Streams -> PumpPlaces] /\ pump[t] = "count" /\ rest \in Seq(Octets)
      /\ Sunk \in Seq(Octets) /\ held[t] \in Seq(Octets) /\ T \in Seq(Octets)
      /\ sink.total \in Nat
  BY SunkType DEF ShellTypes, Count, Sinks
<1>2. UNCHANGED <<held, text, rest, taken, exec>>
  BY DEF Count, elsewhere
<1>3. /\ Text(Sunk) /\ Text(T) /\ Decoded(rest) = <<>> /\ held[t] # <<>>
      /\ taken = Sunk \o (T \o rest) /\ Len(T) <= Len(held[t]) + 1
      /\ sink.path => sink.open
      /\ ~sink.path => Len(Sunk) <= 2 * sink.total
  BY <1>1 DEF Flow
<1>4. pump'[t] = "keep" /\ pump'[s] = pump[s]
  BY <1>1 DEF Count, Goes
<1>5. /\ sink'.total = sink.total + Len(held[t]) /\ sink'.chunks = sink.chunks
      /\ sink.path => sink'.path /\ sink'.open = sink.open
      /\ ~sink.path /\ sink'.path => sink'.open
      /\ sink'.path /\ sink'.open => sink'.file = Sunk \o T
      /\ ~sink'.path => sink'.total <= MaxBytes
  BY CountFacts
<1>6. taken = (Sunk \o T) \o rest
  <2>1. Sunk \in Seq(Octets) /\ T \in Seq(Octets) /\ rest \in Seq(Octets)
    BY <1>1
  <2>2. Grouped(Sunk, T, rest)
    BY <2>1, Groups
  <2> QED BY <1>3, <2>2 DEF Grouped
<1> HIDE DEF T
<1>7. CASE sink'.path
  <2>1. Sunk' = Sunk \o T /\ sink'.open
    BY <1>3, <1>5, <1>7 DEF Sunk
  <2>2. Text(Sunk \o T)
    BY <1>1, <1>3, TextJoin
  <2>3. Text(text'[t])
    BY <1>2, <1>3 DEF T
  <2> QED BY <1>1, <1>2, <1>3, <1>4, <1>6, <1>7, <2>1, <2>2, <2>3 DEF Flow
<1>8. CASE ~sink'.path
  <2>1. ~sink.path /\ Sunk' = Sunk
    BY <1>5, <1>8 DEF Sunk
  <2>2. Len(Sunk) \in Nat /\ Len(held[t]) \in Nat /\ Len(T) \in Nat /\ Len(held[t]) # 0
    BY <1>1, <1>3, EmptySeq, SunkType
  <2>3. Len(Sunk) + Len(T) <= 2 * sink'.total /\ Len(Sunk) <= 2 * sink'.total
    <3> DEFINE a == Len(Sunk)
               b == Len(T)
               h == Len(held[t])
               u == sink.total
    <3>1. a \in Nat /\ b \in Nat /\ h \in Nat /\ h # 0 /\ u \in Nat /\ a <= 2 * u /\ b <= h + 1
      BY <1>1, <1>3, <2>1, <2>2
    <3>2. sink'.total = u + h
      BY <1>5
    <3> HIDE DEF a, b, h, u
    <3>3. a + b <= 2 * (u + h) /\ a <= 2 * (u + h)
      BY <3>1
    <3> QED BY <3>2, <3>3 DEF a, b
  <2>4. taken' = (Sunk' \o text'[t]) \o rest' /\ Text(text'[t])
    BY <1>2, <1>3, <1>6, <2>1 DEF T
  <2>5. Len(Sunk') + Len(text'[t]) <= 2 * sink'.total
    BY <1>2, <2>1, <2>3 DEF T
  <2> QED BY <1>1, <1>2, <1>3, <1>4, <1>5, <1>8, <2>1, <2>3, <2>4, <2>5 DEF Flow
<1> QED BY <1>7, <1>8

LEMMA FlowKeep ==
    ASSUME ShellTypes, EndInv, NEW s \in Streams, NEW t \in Streams, s # t, Flow(s, t),
           KeepText(t)
    PROVE  Flow(s, t)'
<1> DEFINE T == text[t]
<1>1. /\ pump \in [Streams -> PumpPlaces] /\ pump[t] = "keep" /\ rest \in Seq(Octets)
      /\ Sunk \in Seq(Octets) /\ T \in Seq(Octets) /\ sink.total \in Nat
  BY SunkType DEF ShellTypes, KeepText, Sinks
<1>2. UNCHANGED <<held, text, rest, taken, exec>>
  BY DEF KeepText, elsewhere
<1>3. /\ Text(Sunk) /\ Text(T) /\ Decoded(rest) = <<>>
      /\ taken = (IF sink.path THEN Sunk ELSE Sunk \o T) \o rest
      /\ sink.path => sink.open \/ exec = "ended"
      /\ ~sink.path => /\ sink.total <= MaxBytes
                       /\ Len(Sunk) + Len(T) <= 2 * sink.total
  BY <1>1 DEF Flow
<1>4. pump'[t] = "post" /\ pump'[s] = pump[s]
  BY <1>1 DEF KeepText, Goes
<1>5. /\ sink'.path = sink.path /\ sink'.open = sink.open
      /\ sink'.total = sink.total /\ sink'.file = sink.file
      /\ Len(FlattenSeq(sink.chunks)) + Len(T) <= 2 * MaxBytes =>
            FlattenSeq(sink'.chunks) = FlattenSeq(sink.chunks) \o T
  BY KeepFacts
<1> HIDE DEF T
<1>6. CASE sink.path
  <2>1. Sunk' = Sunk
    BY <1>5, <1>6 DEF Sunk
  <2> QED BY <1>1, <1>2, <1>3, <1>4, <1>5, <1>6, <2>1 DEF Flow
<1>7. CASE ~sink.path
  <2>1. Sunk = FlattenSeq(sink.chunks) /\ Sunk' = FlattenSeq(sink'.chunks)
    BY <1>5, <1>7 DEF Sunk
  <2>2. Len(Sunk) \in Nat /\ Len(T) \in Nat
    BY <1>1, SunkType
  <2>3. Len(Sunk) + Len(T) <= 2 * MaxBytes
    <3> DEFINE a == Len(Sunk)
               b == Len(T)
    <3>1. a \in Nat /\ b \in Nat /\ a + b <= 2 * sink.total /\ sink.total <= MaxBytes
      BY <1>3, <1>7, <2>2
    <3> HIDE DEF a, b
    <3>2. a + b <= 2 * MaxBytes
      BY <1>1, <3>1, MaxBytesAssumption
    <3> QED BY <3>2 DEF a, b
  <2>4. Sunk' = Sunk \o T
    BY <1>5, <2>1, <2>3
  <2>5. Text(Sunk') /\ Len(Sunk') <= 2 * sink'.total
    <3>1. Text(Sunk \o T)
      BY <1>1, <1>3, TextJoin
    <3>2. Len(Sunk \o T) = Len(Sunk) + Len(T)
      BY <1>1, TwoPlaces
    <3> QED BY <1>3, <1>5, <1>7, <2>4, <3>1, <3>2
  <2> QED BY <1>1, <1>2, <1>3, <1>4, <1>5, <1>7, <2>4, <2>5 DEF Flow
<1> QED BY <1>6, <1>7

LEMMA FlowPost ==
    ASSUME ShellTypes, EndInv, NEW s \in Streams, NEW t \in Streams, s # t, Flow(s, t),
           Post(t)
    PROVE  Flow(s, t)'
<1>1. pump \in [Streams -> PumpPlaces] /\ pump[t] = "post"
  BY DEF ShellTypes, Post
<1>2. UNCHANGED <<sink, Sunk, held, text, rest, taken, exec>>
  BY DEF Post, Sunk, elsewhere
<1>3. pump'[t] = "read" /\ pump'[s] = pump[s]
  BY <1>1 DEF Post, Goes
<1> QED BY <1>1, <1>2, <1>3 DEF Flow

\* The rest leaves what was taken where it is.
LEMMA FlowSame ==
    ASSUME NEW s \in Streams, NEW t \in Streams, Flow(s, t),
           UNCHANGED <<pumpVars>>, exec = "ended" => exec' = "ended"
    PROVE  Flow(s, t)'
<1>1. UNCHANGED <<pump, held, text, rest, sink, Sunk, taken>>
  BY DEF pumpVars, Sunk
<1> QED BY <1>1 DEF Flow

LEMMA FlowLoop ==
    ASSUME ShellTypes, EndInv, InTime, NEW s \in Streams, NEW t \in Streams, Flow(s, t), LoopStep
    PROVE  Flow(s, t)'
<1>1. UNCHANGED <<pump, held, text, rest, taken, exec>>
  BY DEF LoopStep
<1>2. posted \in Seq(Postings) /\ posted # <<>>
  BY DEF ShellTypes, LoopStep, Postings
<1>3. CASE Head(posted).text # Nothing
  <2>1. sink' = sink /\ Sunk' = Sunk
    BY <1>3 DEF LoopStep, Sunk
  <2> QED BY <1>1, <2>1 DEF Flow
<1>4. CASE Head(posted).text = Nothing
  <2>1. exec = "ended"
    <3>1. 1 \in DOMAIN posted /\ Head(posted) = posted[1]
      <4> DEFINE n == Len(posted)
      <4>1. n \in Nat /\ n # 0 /\ DOMAIN posted = 1..n /\ Head(posted) = posted[1]
        BY <1>2, EmptySeq
      <4> HIDE DEF n
      <4>2. 1 \in 1..n
        BY <4>1
      <4> QED BY <4>1, <4>2
    <3> QED BY <1>4, <3>1 DEF EndInv
  <2>2. /\ Sunk' = Sunk
        /\ ~sink'.path => ~sink.path /\ sink'.total = sink.total
    <3>1. sink' = [sink EXCEPT !.open = FALSE] \/ Finished
      BY <1>4 DEF LoopStep
    <3>2. CASE sink' = [sink EXCEPT !.open = FALSE]
      <4>1. /\ sink'.path = sink.path /\ sink'.total = sink.total /\ sink'.file = sink.file
            /\ sink'.chunks = sink.chunks
        BY <3>2 DEF ShellTypes, Sinks
      <4> QED BY <4>1 DEF Sunk
    <3>3. CASE Finished
      <4>1. /\ sink'.path => sink'.file = Sunk
            /\ ~sink'.path => ~sink.path /\ sink'.chunks = sink.chunks /\ sink'.total = sink.total
        BY <3>3, FinishedSink
      <4>2. CASE sink'.path
        BY <4>1, <4>2 DEF Sunk
      <4>3. CASE ~sink'.path
        BY <4>1, <4>3 DEF Sunk
      <4> QED BY <4>1, <4>2, <4>3
    <3> QED BY <3>1, <3>2, <3>3
  <2>3. pump[t] # "keep"
    BY <2>1 DEF EndInv, InTime
  <2> QED BY <1>1, <2>1, <2>2, <2>3 DEF Flow
<1> QED BY <1>3, <1>4

LEMMA FlowInvStep == ShellTypes /\ EndInv /\ FlowInv /\ [ShellNext]_shellVars => FlowInv'
<1> SUFFICES ASSUME ShellTypes, EndInv, FlowInv, [ShellNext]_shellVars, InTime',
                    NEW s \in Streams, NEW t \in Streams, s # t, Silent(s)'
             PROVE  Flow(s, t)'
  BY DEF FlowInv
<1>1. InTime /\ Silent(s)
  BY SilentBefore
<1>2. Flow(s, t)
  BY <1>1 DEF FlowInv
<1>3. CASE Start
  <2>1. pump[t] = "off" /\ pump[s] = "off" /\ exec # "ended"
    BY <1>3 DEF Start, EndInv
  <2>2. UNCHANGED <<held, text, rest, sink, Sunk, taken>> /\ pump' = [r \in Streams |-> "read"]
    BY <1>3 DEF Start, Sunk
  <2>3. pump'[s] = "read" /\ pump'[t] = "read"
    BY <2>2
  <2> QED BY <1>2, <2>1, <2>2, <2>3 DEF Flow
<1>4. CASE SpawnFails \/ Reaped \/ Joined \/ Poll \/ AbortBash \/ UNCHANGED shellVars
  <2>1. UNCHANGED <<pumpVars>> /\ (exec = "ended" => exec' = "ended")
    BY <1>4 DEF SpawnFails, Reaped, Joined, Poll, AbortBash, shellVars
  <2> QED BY <1>2, <2>1, FlowSame
<1>5. CASE LoopStep
  BY <1>1, <1>2, <1>5, FlowLoop
<1>6. ASSUME NEW p, Exits(p) PROVE Flow(s, t)'
  BY <1>2, <1>6, FlowSame DEF Exits
<1>7. ASSUME NEW r \in Streams, Writes(r) PROVE Flow(s, t)'
  BY <1>2, <1>7, FlowSame DEF Writes
<1>8. CASE Pumps(t)
  <2>1. pump[t] \notin {"off", "over"}
    BY <1>8 DEF Pumps, ReadPipe, Extend, Decode, Consume, Count, KeepText, Post
  <2>2. ~stdioDone /\ exec # "ended"
    BY <1>1, <2>1 DEF InTime, EndInv
  <2> QED BY <1>2, <1>8, <2>2, FlowRead, FlowExtend, FlowDecode, FlowConsume, FlowCount, FlowKeep,
             FlowPost DEF Pumps
<1>9. CASE Pumps(s)
  <2>1. ReadPipe(s) /\ pipe[s] = <<>>
    BY <1>1, <1>2, <1>9 DEF Flow, Silent, Pumps, Extend, Decode, Consume, Count, KeepText, Post
  <2>2. /\ UNCHANGED <<held, text, rest, sink, Sunk, taken, exec>>
        /\ pump' = [pump EXCEPT ![s] = "over"]
    BY <2>1 DEF ReadPipe, Goes, Sunk
  <2>3. pump'[s] = "over" /\ pump'[t] = pump[t]
    BY <2>2 DEF ShellTypes
  <2> QED BY <1>2, <2>2, <2>3 DEF Flow
<1>10. \A r \in Streams : r = s \/ r = t
  BY DEF Streams
<1> QED BY <1>3, <1>4, <1>5, <1>6, <1>7, <1>8, <1>9, <1>10 DEF ShellNext

\* What was read to its end has been decoded.
LEMMA FlowDone ==
    ASSUME ShellTypes, NEW s \in Streams, NEW t \in Streams, Flow(s, t), pump[t] = "over"
    PROVE  Decoded(taken) = Sunk
<1>1. Text(Sunk) /\ taken = Sunk \o rest /\ Decoded(rest) = <<>>
  BY DEF Flow
<1>2. Sunk \in Seq(Octets) /\ rest \in Seq(Octets)
  BY SunkType DEF ShellTypes
<1>3. Decoded(Sunk \o rest) = Sunk \o Decoded(rest)
  BY <1>1, <1>2, TextFirst
<1>4. Sunk \o <<>> = Sunk
  BY <1>2, ConcatEmptySeq
<1> QED BY <1>1, <1>3, <1>4

LEMMA NothingDroppedStep ==
    ShellInv /\ ShellTypes' /\ FlowInv' /\ [ShellNext]_shellVars => NothingDropped'
<1> SUFFICES ASSUME ShellTypes, EndInv, FlowInv, NothingDropped, FlowInv', [ShellNext]_shellVars,
                    outcome' # Nothing, ~outcome'.raised, allRead', OneStream'
             PROVE  \/ outcome'.whole = Decoded(taken)'
                    \/ ~outcome'.saved /\ Len(Decoded(taken)') >= MinSize
  BY DEF ShellInv, NothingDropped
<1>1. PICK s \in Streams : Silent(s)'
  BY DEF OneStream, Silent
<1>2. PICK t \in Streams : s # t
  BY DEF Streams
<1>3. InTime /\ Silent(s) /\ (allRead => taken' = taken) /\ InTime'
  <2>1. InTime'
    BY DEF InTime
  <2> QED BY <1>1, <2>1, SilentBefore
<1>4. CASE outcome' = outcome
  <2>1. exec = "ended"
    BY <1>4 DEF EndInv
  <2>2. allRead
    <3>1. ~Joined
      BY <2>1 DEF Joined
    <3>2. allRead' = allRead
      BY <3>1 DEF ShellNext, Start, SpawnFails, Reaped, Poll, LoopStep, AbortBash, Writes, Exits,
                  Pumps, ReadPipe, Extend, Decode, Consume, Count, KeepText, Post, elsewhere, shellVars
    <3> QED BY <3>2
  <2>3. OneStream
    BY <1>3 DEF OneStream, Silent
  <2> QED BY <1>3, <1>4, <2>2, <2>3 DEF NothingDropped
<1>5. CASE outcome' # outcome
  <2>1. LoopStep
    BY <1>5 DEF ShellNext, Start, SpawnFails, Reaped, Joined, Poll, AbortBash, Writes, Exits, Pumps,
                ReadPipe, Extend, Decode, Consume, Count, KeepText, Post, elsewhere, shellVars
  <2>2. Finished /\ taken' = taken /\ allRead
    BY <1>5, <2>1 DEF LoopStep
  <2>3. Flow(s, t) /\ pump[t] = "over"
    BY <1>2, <1>3, <2>2 DEF FlowInv, EndInv
  <2>4. Decoded(taken) = Sunk
    BY <2>3, FlowDone
  <2>5. outcome'.whole = Sunk \/ (~outcome'.saved /\ Len(Sunk) >= MinSize)
    BY <2>2, FinishedSink
  <2> QED BY <2>2, <2>4, <2>5
<1> QED BY <1>4, <1>5

\* All that a command wrote to one stream, up to the first byte that is no text, is in its
\* record or in the file the record names, unless it was compressed and given no file, for
\* any output, any cut into chunks, any order of the threads, any ceiling and any size that
\* is compressed, and whatever is aborted, left behind or fails to start.
THEOREM OutputKept == ShellSpec => []NothingDropped
<1>1. ShellInv /\ [ShellNext]_shellVars => ShellInv'
  BY ShellTypesStep, EndInvStep, FlowInvStep, NothingDroppedStep DEF ShellInv
<1>2. ShellInv => NothingDropped
  BY DEF ShellInv
<1> QED BY ShellInvInit, <1>1, <1>2, PTL DEF ShellSpec
=============================================================================
