----------------------------- MODULE EventFold -----------------------------
(***************************************************************************)
(* What a log of events amounts to: the fold of a transition over it, from *)
(* the left.  Every projection of the mission journal is one; what proofs  *)
(* need of it is the value of the empty log and what one more event does.  *)
(***************************************************************************)
EXTENDS Naturals, Sequences, SequencesExt, SequenceTheorems, FiniteSetTheorems, TLAPS

CONSTANTS
  Transition(_, _),   \* the state after an event
  Initial             \* the state before the first event

Value(events) == FoldLeft(Transition, Initial, events)

\* f maps each set of places among the first n to the fold of the events there.
IsFold(f, events, n) ==
  f = [S \in SUBSET (1 .. n) |->
         IF S = {} THEN Initial ELSE Transition(f[S \ {Max(S)}], events[Max(S)])]

-----------------------------------------------------------------------------
\* Every non-empty set of natural numbers has a least element: the intervals below its
\* elements are finite sets, and strict inclusion is well-founded on those.
LEMMA LeastNatural ==
  ASSUME NEW N \in SUBSET Nat, N # {}
  PROVE  \E n \in N : \A k \in N : n <= k
<1> DEFINE Below == {1 .. k : k \in N}
<1>1. Below \subseteq FiniteSubsetsOf(Nat) /\ Below # {}
  <2>1. \A k \in N : 1 .. k \subseteq Nat /\ IsFiniteSet(1 .. k) BY FS_Interval
  <2> QED BY <2>1 DEF FiniteSubsetsOf
<1>2. PICK b \in Below : \A c \in Below : ~ (<<c, b>> \in StrictSubsetOrdering(Nat))
  BY <1>1, WFMin, FS_StrictSubsetOrderingWellFounded
<1>3. PICK n \in N : b = 1 .. n OBVIOUS
<1>4. ASSUME NEW k \in N PROVE n <= k
  <2>1. SUFFICES ASSUME k < n PROVE FALSE OBVIOUS
  <2>2. 1 .. k \in Below /\ 1 .. k \subseteq 1 .. n /\ n \in 1 .. n /\ n \notin 1 .. k
    BY <2>1
  <2>3. <<1 .. k, 1 .. n>> \in StrictSubsetOrdering(Nat)
    BY <2>2 DEF StrictSubsetOrdering
  <2> QED BY <1>2, <1>3, <2>2, <2>3
<1> QED BY <1>4

\* The greatest of some of the first n numbers is one of them, and n when n is among them.
LEMMA GreatestPlace ==
  ASSUME NEW n \in Nat, NEW S \in SUBSET (1 .. n), S # {}
  PROVE  /\ Max(S) \in S /\ \A k \in S : k <= Max(S)
         /\ n \in S => Max(S) = n
<1> DEFINE Distances == {n - k : k \in S}
<1>1. Distances \in SUBSET Nat /\ Distances # {}
  <2>1. \A k \in S : n - k \in Nat OBVIOUS
  <2> QED BY <2>1
<1>2. PICK d \in Distances : \A e \in Distances : d <= e BY <1>1, LeastNatural
<1>3. PICK m \in S : d = n - m OBVIOUS
<1>4. \A k \in S : m >= k BY <1>2, <1>3
<1>5. Max(S) \in S /\ \A k \in S : Max(S) >= k BY <1>4 DEF Max
<1>6. Max(S) \in 1 .. n BY <1>5
<1>7. n \in S => Max(S) = n
  <2>1. \A x \in 1 .. n : x >= n => x = n OBVIOUS
  <2> QED BY <1>5, <1>6, <2>1
<1>8. \A k \in S : k <= Max(S)
  <2>1. \A x, k \in 1 .. n : x >= k => k <= x OBVIOUS
  <2> QED BY <1>5, <1>6, <2>1
<1> QED BY <1>5, <1>7, <1>8

\* The last of the first n places is the n-th.
LEMMA LastPlace ==
  ASSUME NEW n \in Nat, n # 0
  PROVE  1 .. n # {} /\ Max(1 .. n) = n /\ (1 .. n) \ {n} = 1 .. n - 1
<1>1. 1 .. n # {} /\ n \in 1 .. n /\ 1 .. n \in SUBSET (1 .. n) OBVIOUS
<1>2. Max(1 .. n) = n BY <1>1, GreatestPlace
<1>3. (1 .. n) \ {n} = 1 .. n - 1 OBVIOUS
<1> QED BY <1>1, <1>2, <1>3

\* There is such a function for every n: one place more is the last of the sets it is in.
LEMMA FoldExists ==
  ASSUME NEW events, NEW n \in Nat
  PROVE  \E f : IsFold(f, events, n)
<1> DEFINE Missing == {k \in Nat : ~ \E f : IsFold(f, events, k)}
<1>1. SUFFICES ASSUME Missing # {} PROVE FALSE OBVIOUS
<1>2. PICK k \in Missing : \A i \in Missing : k <= i
  <2> HIDE DEF Missing
  <2>1. Missing \subseteq Nat BY DEF Missing
  <2> QED BY <1>1, <2>1, LeastNatural
<1>3. CASE k = 0
  <2> DEFINE f == [S \in SUBSET (1 .. 0) |-> Initial]
  <2>1. IsFold(f, events, 0) BY DEF IsFold
  <2> QED BY <1>2, <1>3, <2>1
<1>4. CASE k # 0
  <2>1. k - 1 \in Nat /\ k - 1 \notin Missing BY <1>2, <1>4
  <2>2. PICK f : IsFold(f, events, k - 1) BY <2>1
  <2> DEFINE g == [S \in SUBSET (1 .. k) |->
                     IF k \in S THEN Transition(f[S \ {k}], events[k]) ELSE f[S]]
  <2>3. ASSUME NEW S \in SUBSET (1 .. k)
        PROVE  g[S] = IF S = {} THEN Initial ELSE Transition(g[S \ {Max(S)}], events[Max(S)])
    <3>1. CASE k \in S
      <4>1. Max(S) = k BY <1>2, <3>1, GreatestPlace
      <4>2. S \ {k} \in SUBSET (1 .. k) /\ k \notin S \ {k} OBVIOUS
      <4>3. g[S \ {k}] = f[S \ {k}] BY <4>2
      <4> QED BY <3>1, <4>1, <4>3
    <3>2. CASE k \notin S
      <4>1. S \in SUBSET (1 .. k - 1) BY <1>2, <3>2
      <4>2. g[S] = f[S] BY <3>2
      <4>3. f[S] = IF S = {} THEN Initial ELSE Transition(f[S \ {Max(S)}], events[Max(S)])
        BY <2>2, <4>1 DEF IsFold
      <4>4. S \ {Max(S)} \in SUBSET (1 .. k) /\ k \notin S \ {Max(S)} BY <3>2
      <4>5. g[S \ {Max(S)}] = f[S \ {Max(S)}] BY <4>4
      <4> QED BY <4>2, <4>3, <4>5
    <3> QED BY <3>1, <3>2
  <2>4. IsFold(g, events, k)
    <3>1. g = [S \in SUBSET (1 .. k) |-> g[S]] OBVIOUS
    <3> HIDE DEF g
    <3> QED BY <2>3, <3>1 DEF IsFold
  <2> QED BY <1>2, <2>4
<1> QED BY <1>2, <1>3, <1>4

\* The fold of the first k events does not depend on what comes after them.
LEMMA FoldsAgree ==
  ASSUME NEW s, NEW t, NEW n \in Nat, NEW m \in Nat, NEW f, NEW g,
         IsFold(f, s, n), IsFold(g, t, m), n <= m, \A i \in 1 .. n : s[i] = t[i]
  PROVE  f[1 .. n] = g[1 .. n]
<1> DEFINE Wrong == {k \in 0 .. n : f[1 .. k] # g[1 .. k]}
<1>1. SUFFICES ASSUME Wrong # {} PROVE FALSE OBVIOUS
<1>2. PICK k \in Wrong : \A i \in Wrong : k <= i
  <2> HIDE DEF Wrong
  <2>1. Wrong \subseteq Nat BY DEF Wrong
  <2> QED BY <1>1, <2>1, LeastNatural
<1>3. 1 .. k \in SUBSET (1 .. n) /\ 1 .. k \in SUBSET (1 .. m) BY <1>2
<1>4. CASE k = 0
  <2>1. 1 .. k = {} BY <1>4
  <2>2. f[{}] = Initial /\ g[{}] = Initial BY DEF IsFold
  <2> QED BY <1>2, <2>1, <2>2
<1>5. CASE k # 0
  <2>1. k \in Nat /\ 1 .. k # {} /\ Max(1 .. k) = k /\ (1 .. k) \ {k} = 1 .. k - 1
    <3>1. k \in Nat /\ k # 0 BY <1>2, <1>5
    <3> QED BY <3>1, LastPlace
  <2> DEFINE S == 1 .. k
  <2>2. /\ f[S] = Transition(f[S \ {Max(S)}], s[Max(S)])
        /\ g[S] = Transition(g[S \ {Max(S)}], t[Max(S)])
    <3>1. S \in SUBSET (1 .. n) /\ S \in SUBSET (1 .. m) /\ S # {} BY <1>3, <2>1
    <3> HIDE DEF S
    <3> QED BY <3>1 DEF IsFold
  <2>3. f[1 .. k] = Transition(f[1 .. k - 1], s[k]) BY <2>1, <2>2
  <2>4. g[1 .. k] = Transition(g[1 .. k - 1], t[k]) BY <2>1, <2>2
  <2>5. k - 1 \in 0 .. n /\ k - 1 \notin Wrong BY <1>2, <1>5
  <2>6. f[1 .. k - 1] = g[1 .. k - 1] BY <2>5
  <2>7. s[k] = t[k] BY <1>2, <1>5
  <2> QED BY <1>2, <2>3, <2>4, <2>6, <2>7
<1> QED BY <1>2, <1>4, <1>5

\* The fold of a log is the value of such a function.
LEMMA ValueIsFold ==
  ASSUME NEW D, NEW events \in Seq(D)
  PROVE  \E f : IsFold(f, events, Len(events)) /\ Value(events) = f[1 .. Len(events)]
<1>1. DOMAIN events = 1 .. Len(events) /\ Len(events) \in Nat BY LenProperties
<1> DEFINE R(f) == f = [S \in SUBSET (DOMAIN events) |->
                      IF S = {} THEN Initial ELSE Transition(f[S \ {Max(S)}], events[Max(S)])]
<1>2. \A f : R(f) <=> IsFold(f, events, Len(events)) BY <1>1 DEF IsFold
<1>3. \E f : R(f) BY <1>1, <1>2, FoldExists
<1>4. Value(events) = (CHOOSE f : R(f))[DOMAIN events]
  BY DEF Value, FoldLeft, MapThenFoldSet
<1> HIDE DEF R
<1>5. PICK f : f = CHOOSE g : R(g) OBVIOUS
<1>6. R(f) BY <1>3, <1>5
<1> QED BY <1>1, <1>2, <1>4, <1>5, <1>6

\* The states a log passes through, one for each of its beginnings.
LEMMA StateByState ==
  ASSUME NEW D, NEW events \in Seq(D)
  PROVE  \E v : /\ v[0] = Initial /\ v[Len(events)] = Value(events)
               /\ \A i \in 1 .. Len(events) : v[i] = Transition(v[i - 1], events[i])
<1>1. PICK f : IsFold(f, events, Len(events)) /\ Value(events) = f[1 .. Len(events)]
  BY ValueIsFold
<1>2. Len(events) \in Nat BY LenProperties
<1> DEFINE v == [i \in 0 .. Len(events) |-> f[1 .. i]]
<1>3. v[0] = Initial
  <2>1. f[{}] = Initial BY <1>1 DEF IsFold
  <2>2. 1 .. 0 = {} OBVIOUS
  <2> QED BY <1>2, <2>1, <2>2
<1>4. v[Len(events)] = Value(events) BY <1>1, <1>2
<1>5. ASSUME NEW i \in 1 .. Len(events) PROVE v[i] = Transition(v[i - 1], events[i])
  <2>1. i \in Nat /\ i # 0 /\ i \in 0 .. Len(events) /\ i - 1 \in 0 .. Len(events) BY <1>2
  <2>2. 1 .. i # {} /\ Max(1 .. i) = i /\ (1 .. i) \ {i} = 1 .. i - 1 BY <2>1, LastPlace
  <2> DEFINE S == 1 .. i
  <2>3. f[S] = Transition(f[S \ {Max(S)}], events[Max(S)])
    <3>1. S \in SUBSET (1 .. Len(events)) /\ S # {} BY <1>2, <2>2
    <3> HIDE DEF S
    <3> QED BY <1>1, <3>1 DEF IsFold
  <2>4. v[i] = f[1 .. i] /\ v[i - 1] = f[1 .. i - 1] BY <2>1
  <2> QED BY <2>2, <2>3, <2>4
<1> QED BY <1>3, <1>4, <1>5

\* The empty log amounts to the initial state.
LEMMA NothingHappened == Value(<<>>) = Initial
<1>1. <<>> \in Seq({}) /\ Len(<<>>) = 0 /\ 1 .. 0 = {} BY EmptySeq
<1>2. PICK f : IsFold(f, <<>>, Len(<<>>)) /\ Value(<<>>) = f[1 .. Len(<<>>)] BY <1>1, ValueIsFold
<1> QED BY <1>1, <1>2 DEF IsFold

\* One event more is one transition more.
LEMMA OneEventMore ==
  ASSUME NEW D, NEW events \in Seq(D), NEW e \in D
  PROVE  Value(Append(events, e)) = Transition(Value(events), e)
<1> DEFINE more == Append(events, e)
           n == Len(events)
<1>1. /\ n \in Nat /\ more \in Seq(D) /\ Len(more) = n + 1 /\ more[n + 1] = e
      /\ \A i \in 1 .. n : more[i] = events[i]
  BY AppendProperties, LenProperties
<1>2. PICK f : IsFold(f, events, n) /\ Value(events) = f[1 .. n] BY ValueIsFold
<1>3. PICK g : IsFold(g, more, n + 1) /\ Value(more) = g[1 .. n + 1] BY <1>1, ValueIsFold
<1> HIDE DEF more, n
<1>4. f[1 .. n] = g[1 .. n] BY <1>1, <1>2, <1>3, FoldsAgree
<1>5. /\ 1 .. n + 1 # {} /\ Max(1 .. n + 1) = n + 1
      /\ (1 .. n + 1) \ {n + 1} = 1 .. (n + 1) - 1 /\ n + 1 \in Nat
  <2>1. n + 1 \in Nat /\ n + 1 # 0 BY <1>1
  <2> QED BY <2>1, LastPlace
<1>6. (n + 1) - 1 = n BY <1>1
<1>7. g[1 .. n + 1] = Transition(g[1 .. n], more[n + 1])
  <2> DEFINE S == 1 .. n + 1
  <2>1. S \in SUBSET (1 .. n + 1) /\ S # {} BY <1>5
  <2>2. g[S] = Transition(g[S \ {Max(S)}], more[Max(S)])
    <3> HIDE DEF S
    <3> QED BY <1>3, <2>1 DEF IsFold
  <2> QED BY <1>5, <1>6, <2>2
<1> QED BY <1>1, <1>2, <1>3, <1>4, <1>7 DEF more
=============================================================================
