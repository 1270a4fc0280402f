--------------------------- MODULE EtcHostsProofs ---------------------------
(***************************************************************************)
(* Theorems about the hosts file: its types, that names nobody asked to    *)
(* change keep their address, that one of the commands that overlap has    *)
(* its effect, and that a command that runs alone does.                    *)
(*                                                                         *)
(* The operators on entries fold over sequences.  What a fold computes is  *)
(* proved by induction, and induction from the least number principle,     *)
(* which the library has as the well-foundedness of < on the naturals.     *)
(***************************************************************************)
EXTENDS EtcHosts, WellFoundedInduction, TLAPS

(***************************************************************************)
(* Induction.                                                              *)
(***************************************************************************)

Before == OpToRel(<, Nat)

LEMMA BeforeIsWellFounded == IsWellFoundedOn(Before, Nat)
BY NatLessThanWellFounded DEF Before

LEMMA BeforeIsLess == \A x, y \in Nat : <<y, x>> \in Before <=> y < x
BY DEF Before, OpToRel

\* A set of numbers has a least one.
LEMMA Least ==
  ASSUME NEW S, S \subseteq Nat, S # {}
  PROVE  \E n \in S : \A m \in S : n <= m
<1>1. PICK x \in S : \A y \in S : ~ (<<y, x>> \in Before)
  BY BeforeIsWellFounded, WFMin
<1>2. \A y \in S : ~ (y < x)
  BY <1>1, BeforeIsLess
<1>3. \A y \in S : x <= y
  BY <1>2
<1> QED BY <1>3

\* What holds of 0 and of the successor of whatever it holds of.
LEMMA Climb ==
  ASSUME NEW n \in Nat, NEW S, 0 \in S, \A k \in 0..(n-1) : k \in S => k + 1 \in S
  PROVE  \A k \in 0..n : k \in S
<1> SUFFICES ASSUME NEW k \in 0..n, k \notin S PROVE FALSE
  OBVIOUS
<1> DEFINE Missed == {m \in 0..n : m \notin S}
<1>1. PICK m \in Missed : \A j \in Missed : m <= j
  <2>1. Missed \subseteq Nat /\ Missed # {}
    OBVIOUS
  <2> HIDE DEF Missed
  <2> QED BY <2>1, Least
<1>2. m \in 1..n
  BY <1>1
<1>3. m - 1 \in 0..(n-1) /\ m - 1 \notin Missed
  BY <1>1, <1>2
<1>4. m - 1 \in S
  BY <1>3
<1>5. (m - 1) + 1 \in S
  BY <1>3, <1>4
<1>6. (m - 1) + 1 = m
  BY <1>2
<1> QED BY <1>1, <1>5, <1>6

-----------------------------------------------------------------------------
(***************************************************************************)
(* Folds.                                                                  *)
(***************************************************************************)

LEMMA MaxIs ==
  ASSUME NEW n \in Nat, NEW S, S \subseteq 1..n, S # {}
  PROVE  Max(S) \in S /\ \A m \in S : Max(S) >= m
<1> DEFINE Down == {k \in 0..n : n - k \in S}
<1>1. Down \subseteq Nat /\ Down # {}
  <2>1. PICK m \in S : TRUE
    OBVIOUS
  <2>2. n - m \in 0..n /\ n - (n - m) = m
    BY <2>1
  <2>3. n - m \in 0..n /\ n - (n - m) \in S
    BY <2>1, <2>2
  <2>4. n - m \in Down
    BY <2>3
  <2>5. Down \subseteq Nat
    OBVIOUS
  <2> QED BY <2>4, <2>5
<1>2. PICK k \in Down : \A j \in Down : k <= j
  <2> HIDE DEF Down
  <2> QED BY <1>1, Least
<1>3. n - k \in S
  BY <1>2
<1>4. ASSUME NEW m \in S PROVE n - k >= m
  <2>1. n - m \in Down
    <3>1. n - m \in 0..n /\ n - (n - m) = m
      OBVIOUS
    <3> QED BY <3>1
  <2>2. k <= n - m
    BY <1>2, <2>1
  <2> QED BY <1>2, <2>2
<1>5. \E x \in S : \A y \in S : x >= y
  BY <1>3, <1>4
<1> QED BY <1>5 DEF Max

LEMMA MaxOfInterval ==
  ASSUME NEW n \in Nat, n # 0
  PROVE  Max(1..n) = n
<1>1. Max(1..n) \in 1..n /\ \A m \in 1..n : Max(1..n) >= m
  BY MaxIs
<1> QED BY <1>1

\* A step of a fold over 1..n to values V, and what such a fold is defined by.
IsStep(V, n, step) == step \in [V \X (1..n) -> V]
IsFold(f, V, n, base, step) ==
  /\ f \in [SUBSET (1..n) -> V]
  /\ \A S \in SUBSET (1..n) :
       f[S] = IF S = {} THEN base ELSE step[<<f[S \ {Max(S)}], Max(S)>>]

LEMMA FoldExists ==
  ASSUME NEW V, NEW n \in Nat, NEW base \in V, NEW step, IsStep(V, n, step)
  PROVE  \E f : IsFold(f, V, n, base, step)
<1> USE DEF IsStep
<1> DEFINE Folds(f, i) ==
      /\ f \in [SUBSET (1..i) -> V]
      /\ \A S \in SUBSET (1..i) :
           f[S] = IF S = {} THEN base ELSE step[<<f[S \ {Max(S)}], Max(S)>>]
    Good == {i \in 0..n : \E f : Folds(f, i)}
<1>1. 0 \in Good
  <2>1. 1..0 = {}
    OBVIOUS
  <2>2. \A S \in SUBSET (1..0) : S = {}
    BY <2>1
  <2>3. Folds([S \in SUBSET (1..0) |-> base], 0)
    BY <2>2
  <2> HIDE DEF Folds
  <2> QED BY <2>3
<1>2. ASSUME NEW i \in 0..(n-1), i \in Good PROVE i + 1 \in Good
  <2>1. PICK f : Folds(f, i)
    BY <1>2
  <2> DEFINE g == [S \in SUBSET (1..(i+1)) |->
                     IF i + 1 \notin S THEN f[S] ELSE step[<<f[S \ {i+1}], i+1>>]]
  <2>2. i \in Nat /\ i + 1 \in 1..n /\ 1..(i+1) = (1..i) \union {i+1} /\ i + 1 \notin 1..i
    OBVIOUS
  <2>3. \A S \in SUBSET (1..i) : g[S] = f[S] /\ g[S] \in V
    BY <2>1, <2>2
  <2>4. ASSUME NEW S \in SUBSET (1..(i+1)), i + 1 \in S
        PROVE  g[S] = step[<<g[S \ {i+1}], i+1>>] /\ g[S] \in V /\ Max(S) = i + 1
    <3>1. S \ {i+1} \in SUBSET (1..i)
      BY <2>2
    <3>2. g[S] = step[<<g[S \ {i+1}], i+1>>]
      BY <2>3, <2>4, <3>1
    <3>3. g[S] \in V
      <4>1. g[S \ {i+1}] \in V
        BY <2>3, <3>1
      <4>2. <<g[S \ {i+1}], i+1>> \in V \X (1..n)
        BY <2>2, <4>1
      <4> HIDE DEF g
      <4> QED BY <3>2, <4>2
    <3>4. Max(S) \in S /\ \A m \in S : Max(S) >= m
      <4>1. S \subseteq 1..(i+1) /\ S # {} /\ i + 1 \in Nat
        BY <2>2, <2>4
      <4> QED BY <4>1, MaxIs
    <3>5. Max(S) = i + 1
      <4>1. Max(S) \in 1..(i+1) /\ Max(S) >= i + 1
        BY <2>4, <3>4
      <4> QED BY <2>2, <4>1
    <3> QED BY <3>2, <3>3, <3>5
  <2>5. ASSUME NEW S \in SUBSET (1..(i+1))
        PROVE  g[S] = IF S = {} THEN base ELSE step[<<g[S \ {Max(S)}], Max(S)>>]
    <3>1. CASE i + 1 \in S
      BY <2>4, <3>1
    <3>2. CASE i + 1 \notin S
      <4>1. S \in SUBSET (1..i) /\ S \ {Max(S)} \in SUBSET (1..i)
        BY <2>2, <3>2
      <4>2. f[S] = IF S = {} THEN base ELSE step[<<f[S \ {Max(S)}], Max(S)>>]
        BY <2>1, <4>1
      <4>3. g[S] = f[S] /\ g[S \ {Max(S)}] = f[S \ {Max(S)}]
        BY <2>3, <4>1
      <4> HIDE DEF g
      <4> QED BY <4>2, <4>3
    <3> QED BY <3>1, <3>2
  <2>6. g \in [SUBSET (1..(i+1)) -> V]
    <3>1. \A S \in SUBSET (1..(i+1)) : g[S] \in V
      <4>1. \A S \in SUBSET (1..(i+1)) : i + 1 \notin S => S \in SUBSET (1..i)
        BY <2>2
      <4> HIDE DEF g
      <4> QED BY <2>3, <2>4, <4>1
    <3>2. g = [S \in SUBSET (1..(i+1)) |-> g[S]]
      OBVIOUS
    <3> HIDE DEF g
    <3> QED BY <3>1, <3>2
  <2>7. Folds(g, i + 1)
    <3> HIDE DEF g
    <3> QED BY <2>5, <2>6
  <2> HIDE DEF g, Folds
  <2> QED BY <2>2, <2>7
<1>3. n \in Good
  <2> HIDE DEF Good
  <2> QED BY <1>1, <1>2, Climb
<1> QED BY <1>3 DEF IsFold

\* An interval and the intervals it begins with.
LEMMA Intervals ==
  ASSUME NEW n \in Nat
  PROVE  /\ 1..0 = {}
         /\ \A i \in 0..n : 1..i \in SUBSET (1..n)
         /\ \A i \in 1..n : 1..i # {} /\ Max(1..i) = i /\ (1..i) \ {i} = 1..(i-1)
<1>1. ASSUME NEW i \in 1..n PROVE 1..i # {} /\ Max(1..i) = i /\ (1..i) \ {i} = 1..(i-1)
  <2>1. i \in Nat /\ i # 0 /\ i \in 1..i
    OBVIOUS
  <2>2. Max(1..i) = i
    BY <2>1, MaxOfInterval
  <2>3. (1..i) \ {i} = 1..(i-1)
    OBVIOUS
  <2> QED BY <2>1, <2>2, <2>3
<1> QED BY <1>1

\* What has been selected of each beginning of a sequence.
Selects(h, s, K, T) ==
  /\ h \in [0..Len(s) -> Seq(T)]
  /\ h[0] = << >> /\ Selected(s, K) = h[Len(s)]
  /\ \A i \in 1..Len(s) : h[i] = IF i \in K THEN Append(h[i-1], s[i]) ELSE h[i-1]

LEMMA SelectedSteps ==
  ASSUME NEW T, NEW s \in Seq(T), NEW K
  PROVE  \E h : Selects(h, s, K, T)
<1> DEFINE n == Len(s)
           at == [k \in DOMAIN s |-> k]
           step == [a \in Seq(T) \X (1..n) |->
                      IF a[2] \in K THEN Append(a[1], s[a[2]]) ELSE a[1]]
           Iter == CHOOSE f : f = [S \in SUBSET (DOMAIN at) |->
                     IF S = {} THEN << >>
                     ELSE IF at[Max(S)] \in K
                          THEN Append(f[S \ {Max(S)}], s[at[Max(S)]])
                          ELSE f[S \ {Max(S)}]]
<1>1. /\ n \in Nat /\ DOMAIN s = 1..n /\ DOMAIN at = 1..n /\ \A k \in 1..n : at[k] = k
      /\ \A k \in 1..n : s[k] \in T
  OBVIOUS
<1>2. step \in [Seq(T) \X (1..n) -> Seq(T)]
  BY <1>1
<1>3. \E f : f = [S \in SUBSET (DOMAIN at) |->
                    IF S = {} THEN << >>
                    ELSE IF at[Max(S)] \in K
                         THEN Append(f[S \ {Max(S)}], s[at[Max(S)]])
                         ELSE f[S \ {Max(S)}]]
  <2>1. << >> \in Seq(T)
    OBVIOUS
  <2>2. PICK f \in [SUBSET (1..n) -> Seq(T)] : \A S \in SUBSET (1..n) :
          f[S] = IF S = {} THEN << >> ELSE step[<<f[S \ {Max(S)}], Max(S)>>]
    <3>1. IsStep(Seq(T), n, step)
      BY <1>2 DEF IsStep
    <3> HIDE DEF n, step
    <3>2. PICK f : IsFold(f, Seq(T), n, << >>, step)
      BY <1>1, <2>1, <3>1, FoldExists
    <3> QED BY <3>2 DEF IsFold
  <2>3. ASSUME NEW S \in SUBSET (1..n), S # {}
        PROVE  f[S] = IF at[Max(S)] \in K
                      THEN Append(f[S \ {Max(S)}], s[at[Max(S)]])
                      ELSE f[S \ {Max(S)}]
    <3>1. Max(S) \in 1..n
      <4> HIDE DEF n
      <4> QED BY <1>1, <2>3, MaxIs
    <3>2. f[S \ {Max(S)}] \in Seq(T)
      OBVIOUS
    <3>3. step[<<f[S \ {Max(S)}], Max(S)>>] =
            IF Max(S) \in K THEN Append(f[S \ {Max(S)}], s[Max(S)]) ELSE f[S \ {Max(S)}]
      <4> HIDE DEF n
      <4> QED BY <3>1, <3>2
    <3> HIDE DEF step, at, n
    <3> QED BY <1>1, <2>2, <2>3, <3>1, <3>3
  <2>4. f = [S \in SUBSET (1..n) |-> f[S]]
    OBVIOUS
  <2>5. f = [S \in SUBSET (1..n) |->
               IF S = {} THEN << >>
               ELSE IF at[Max(S)] \in K
                    THEN Append(f[S \ {Max(S)}], s[at[Max(S)]])
                    ELSE f[S \ {Max(S)}]]
    <3> HIDE DEF step, at, n
    <3>1. \A S \in SUBSET (1..n) :
            f[S] = IF S = {} THEN << >>
                   ELSE IF at[Max(S)] \in K
                        THEN Append(f[S \ {Max(S)}], s[at[Max(S)]])
                        ELSE f[S \ {Max(S)}]
      BY <2>2, <2>3
    <3> QED BY <2>4, <3>1
  <2> HIDE DEF at, n
  <2> QED BY <1>1, <2>5
<1>4. Iter = [S \in SUBSET (DOMAIN at) |->
                IF S = {} THEN << >>
                ELSE IF at[Max(S)] \in K
                     THEN Append(Iter[S \ {Max(S)}], s[at[Max(S)]])
                     ELSE Iter[S \ {Max(S)}]]
  <2> HIDE DEF at
  <2> QED BY <1>3
<1>5. Selected(s, K) = Iter[DOMAIN at]
  BY DEF Selected, FoldLeft, MapThenFoldSet
<1> DEFINE h == [i \in 0..n |-> Iter[1..i]]
<1>6. Iter[1..0] = << >>
  <2> HIDE DEF Iter, at, n
  <2> QED BY <1>1, <1>4, Intervals
<1>7. ASSUME NEW i \in 1..n
      PROVE  Iter[1..i] = IF i \in K THEN Append(Iter[1..(i-1)], s[i]) ELSE Iter[1..(i-1)]
  <2>1. 1..i \in SUBSET (1..n) /\ 1..i # {} /\ Max(1..i) = i /\ (1..i) \ {i} = 1..(i-1)
    <3> HIDE DEF n
    <3> QED BY <1>1, Intervals
  <2> HIDE DEF Iter, at, n
  <2>2. Iter[1..i] = IF at[i] \in K THEN Append(Iter[(1..i) \ {i}], s[at[i]])
                     ELSE Iter[(1..i) \ {i}]
    BY <1>1, <1>4, <2>1
  <2> QED BY <1>1, <2>1, <2>2
<1>8. h[0] = << >> /\ h[n] = Iter[DOMAIN at] /\ \A i \in 1..n :
        h[i] = IF i \in K THEN Append(h[i-1], s[i]) ELSE h[i-1]
  <2>1. 0 \in 0..n /\ n \in 0..n /\ \A i \in 1..n : i \in 0..n /\ i - 1 \in 0..n
    BY <1>1
  <2> HIDE DEF Iter, at, n
  <2> QED BY <1>1, <1>6, <1>7, <2>1
<1>9. \A i \in 0..n : h[i] \in Seq(T)
  <2> DEFINE Good == {i \in 0..n : h[i] \in Seq(T)}
  <2>1. 0 \in Good
    <3>1. 0 \in 0..n /\ h[0] = << >> /\ << >> \in Seq(T)
      BY <1>1, <1>8
    <3> HIDE DEF h, n
    <3> QED BY <3>1
  <2>2. ASSUME NEW i \in 0..(n-1), i \in Good PROVE i + 1 \in Good
    <3>1. i + 1 \in 1..n /\ (i + 1) - 1 = i /\ s[i+1] \in T
      BY <1>1
    <3>2. h[i + 1] = IF i + 1 \in K THEN Append(h[i], s[i+1]) ELSE h[i]
      <4> HIDE DEF h, n
      <4> QED BY <1>8, <3>1
    <3>3. h[i] \in Seq(T) /\ i + 1 \in 0..n
      BY <2>2, <1>1
    <3> HIDE DEF h, n
    <3>4. Append(h[i], s[i+1]) \in Seq(T)
      BY <3>1, <3>3
    <3>5. h[i+1] \in Seq(T)
      BY <3>2, <3>3, <3>4
    <3> QED BY <3>3, <3>5
  <2> HIDE DEF Good, n
  <2>3. \A i \in 0..n : i \in Good
    BY <1>1, <2>1, <2>2, Climb
  <2> QED BY <2>3 DEF Good
<1>10. h \in [0..n -> Seq(T)]
  <2>1. h = [i \in 0..n |-> h[i]]
    OBVIOUS
  <2> HIDE DEF h, n
  <2> QED BY <1>9, <2>1
<1>11. Selects(h, s, K, T)
  <2> HIDE DEF h
  <2> QED BY <1>5, <1>8, <1>10 DEF Selects
<1> QED BY <1>11


-----------------------------------------------------------------------------
(***************************************************************************)
(* Entries.                                                                *)
(***************************************************************************)

\* The position of the line that is looked up, and is there one.
FirstOf(s, n) == FirstWhere(s, LAMBDA line : Hostname(line) = n)
Has(s, n) == \E k \in DOMAIN s : Hostname(s[k]) = n

LEMMA LookupIs ==
  ASSUME NEW s \in Seq(Line), NEW n
  PROVE  /\ Lookup(s, n) = {s[k].ip : k \in FirstOf(s, n)}
         /\ FirstOf(s, n) = {k \in DOMAIN s : Hostname(s[k]) = n
                               /\ \A j \in 1..(k-1) : Hostname(s[j]) # n}
<1>1. Entries(s) = s
  BY ContentAssumption DEF Entries
<1> QED BY <1>1 DEF Lookup, AddressIn, FirstOf, FirstWhere

\* Where there is a line of a name there is a first one, and only one.
LEMMA HasFirst ==
  ASSUME NEW s \in Seq(Line), NEW n, NEW k \in DOMAIN s, Hostname(s[k]) = n
  PROVE  \E f \in FirstOf(s, n) : f <= k
<1> DEFINE S == {j \in DOMAIN s : Hostname(s[j]) = n}
<1>1. DOMAIN s = 1..Len(s) /\ Len(s) \in Nat
  OBVIOUS
<1>2. S \subseteq Nat /\ S # {}
  BY <1>1
<1>3. PICK f \in S : \A j \in S : f <= j
  <2> HIDE DEF S
  <2> QED BY <1>2, Least
<1>4. f \in 1..Len(s) /\ f <= k /\ Hostname(s[f]) = n
  BY <1>1, <1>3
<1>5. \A j \in 1..(f-1) : Hostname(s[j]) # n
  <2> SUFFICES ASSUME NEW j \in 1..(f-1), Hostname(s[j]) = n PROVE FALSE
    OBVIOUS
  <2>1. j \in DOMAIN s /\ ~(f <= j)
    BY <1>1, <1>4
  <2> QED BY <1>3, <2>1
<1> QED BY <1>1, <1>4, <1>5, LookupIs

LEMMA OneFirst ==
  ASSUME NEW s \in Seq(Line), NEW n, NEW j \in FirstOf(s, n), NEW k \in FirstOf(s, n)
  PROVE  j = k
<1>1. /\ j \in 1..Len(s) /\ k \in 1..Len(s) /\ Hostname(s[j]) = n /\ Hostname(s[k]) = n
      /\ \A i \in 1..(k-1) : Hostname(s[i]) # n
      /\ \A i \in 1..(j-1) : Hostname(s[i]) # n
  BY LookupIs
<1>2. j \notin 1..(k-1) /\ k \notin 1..(j-1)
  BY <1>1
<1> QED BY <1>1, <1>2

LEMMA NothingToLookUp ==
  ASSUME NEW s \in Seq(Line), NEW n
  PROVE  ~Has(s, n) <=> Lookup(s, n) = {}
<1>1. ASSUME NEW k \in DOMAIN s, Hostname(s[k]) = n PROVE FirstOf(s, n) # {}
  BY <1>1, HasFirst
<1>2. Has(s, n) => FirstOf(s, n) # {}
  BY <1>1 DEF Has
<1>3. FirstOf(s, n) # {} => Has(s, n)
  BY LookupIs DEF Has
<1>4. Lookup(s, n) = {s[k].ip : k \in FirstOf(s, n)}
  BY LookupIs
<1>5. Lookup(s, n) = {} <=> FirstOf(s, n) = {}
  BY <1>4
<1> QED BY <1>2, <1>3, <1>5

LEMMA AppendLine ==
  ASSUME NEW t \in Seq(Line), NEW l \in Line, NEW n
  PROVE  /\ Append(t, l) \in Seq(Line)
         /\ Has(Append(t, l), n) <=> Has(t, n) \/ Hostname(l) = n
         /\ Lookup(Append(t, l), n) =
              IF Has(t, n) THEN Lookup(t, n) ELSE IF Hostname(l) = n THEN {l.ip} ELSE {}
<1> DEFINE a == Append(t, l)
           e == Len(t) + 1
<1>1. /\ a \in Seq(Line) /\ DOMAIN a = 1..e /\ DOMAIN t = 1..Len(t) /\ Len(t) \in Nat
      /\ \A k \in 1..Len(t) : a[k] = t[k]
      /\ a[e] = l
  OBVIOUS
<1>2. 1..e = (1..Len(t)) \union {e} /\ e \notin 1..Len(t)
  BY <1>1
<1>3. Has(a, n) <=> Has(t, n) \/ Hostname(l) = n
  <2> HIDE DEF a, e
  <2> QED BY <1>1, <1>2 DEF Has
<1>a. /\ Lookup(a, n) = {a[k].ip : k \in FirstOf(a, n)}
      /\ FirstOf(a, n) = {k \in 1..e : Hostname(a[k]) = n
                               /\ \A j \in 1..(k-1) : Hostname(a[j]) # n}
  <2> HIDE DEF a, e
  <2> QED BY <1>1, LookupIs
<1>b. /\ Lookup(t, n) = {t[k].ip : k \in FirstOf(t, n)}
      /\ FirstOf(t, n) = {k \in 1..Len(t) : Hostname(t[k]) = n
                               /\ \A j \in 1..(k-1) : Hostname(t[j]) # n}
  BY <1>1, LookupIs
<1>4. ASSUME NEW k \in 1..Len(t) PROVE k \in FirstOf(a, n) <=> k \in FirstOf(t, n)
  <2>1. k \in 1..e /\ \A j \in 1..(k-1) : j \in 1..Len(t)
    BY <1>1, <1>2
  <2> HIDE DEF a, e
  <2>2. \A j \in 1..(k-1) : a[j] = t[j]
    BY <1>1, <2>1
  <2>3. a[k] = t[k]
    BY <1>1
  <2> QED BY <1>a, <1>b, <2>1, <2>2, <2>3
<1>5. e \in FirstOf(a, n) <=> Hostname(l) = n /\ ~Has(t, n)
  <2>1. e - 1 = Len(t) /\ e \in 1..e
    BY <1>1
  <2> HIDE DEF a, e
  <2>2. e \in FirstOf(a, n) <=>
          Hostname(a[e]) = n /\ \A j \in 1..Len(t) : Hostname(a[j]) # n
    BY <1>a, <2>1
  <2>3. e \in FirstOf(a, n) <=>
          Hostname(l) = n /\ \A j \in 1..Len(t) : Hostname(t[j]) # n
    BY <1>1, <2>2
  <2> QED BY <1>1, <2>3 DEF Has
<1>6. FirstOf(a, n) \subseteq 1..e /\ FirstOf(t, n) \subseteq 1..Len(t)
  <2> HIDE DEF a, e
  <2> QED BY <1>a, <1>b
<1>7. CASE Has(t, n)
  <2>1. FirstOf(a, n) = FirstOf(t, n)
    <3> HIDE DEF a, e
    <3> QED BY <1>2, <1>4, <1>5, <1>6, <1>7
  <2>2. Lookup(a, n) = Lookup(t, n)
    <3> HIDE DEF a, e
    <3>1. \A k \in FirstOf(t, n) : a[k] = t[k]
      BY <1>1, <1>6
    <3>2. {a[k].ip : k \in FirstOf(t, n)} = {t[k].ip : k \in FirstOf(t, n)}
      BY <3>1
    <3> QED BY <1>a, <1>b, <2>1, <3>2
  <2> QED BY <1>1, <1>3, <1>7, <2>2
<1>8. CASE ~Has(t, n)
  <2>1. FirstOf(t, n) = {}
    BY <1>b, <1>8, <1>1 DEF Has
  <2>2. FirstOf(a, n) = IF Hostname(l) = n THEN {e} ELSE {}
    <3> HIDE DEF a, e
    <3> QED BY <1>2, <1>4, <1>5, <1>6, <1>8, <2>1
  <2>3. Lookup(a, n) = IF Hostname(l) = n THEN {l.ip} ELSE {}
    <3> HIDE DEF a, e
    <3> QED BY <1>1, <1>a, <2>2
  <2> QED BY <1>1, <1>3, <1>8, <2>3
<1> QED BY <1>7, <1>8


\* Of the positions K, those of the first line of a name.
FirstIn(s, K, n) == {k \in DOMAIN s : k \in K /\ Hostname(s[k]) = n
                       /\ \A j \in 1..(k-1) : j \in K => Hostname(s[j]) # n}

LEMMA SelectedLookup ==
  ASSUME NEW s \in Seq(Line), NEW K, NEW n
  PROVE  /\ Selected(s, K) \in Seq(Line)
         /\ Lookup(Selected(s, K), n) = {s[k].ip : k \in FirstIn(s, K, n)}
<1> DEFINE N == Len(s)
           F(i) == {k \in FirstIn(s, K, n) : k <= i}
           Seen(i) == \E k \in 1..i : k \in K /\ Hostname(s[k]) = n
<1>1. N \in Nat /\ DOMAIN s = 1..N /\ \A k \in 1..N : s[k] \in Line
  OBVIOUS
<1>2. PICK h \in [0..N -> Seq(Line)] :
        /\ h[0] = << >> /\ Selected(s, K) = h[N]
        /\ \A i \in 1..N : h[i] = IF i \in K THEN Append(h[i-1], s[i]) ELSE h[i-1]
  <2>1. \E h : Selects(h, s, K, Line)
    BY SelectedSteps
  <2> QED BY <2>1 DEF Selects
<1>3. FirstIn(s, K, n) = {k \in 1..N : k \in K /\ Hostname(s[k]) = n
                            /\ \A j \in 1..(k-1) : j \in K => Hostname(s[j]) # n}
  BY <1>1 DEF FirstIn
<1> HIDE DEF N
<1> DEFINE Good == {i \in 0..N : /\ Has(h[i], n) <=> Seen(i)
                                 /\ Lookup(h[i], n) = {s[k].ip : k \in F(i)}}
<1>4. 0 \in Good
  <2>1. 0 \in 0..N /\ h[0] = << >> /\ << >> \in Seq(Line) /\ DOMAIN << >> = {}
    BY <1>1, <1>2
  <2>2. ~Has(<< >>, n)
    BY <2>1 DEF Has
  <2>3. Lookup(<< >>, n) = {}
    BY <2>1, <2>2, NothingToLookUp
  <2>4. ~Seen(0) /\ F(0) = {}
    BY <1>1, <1>3
  <2> QED BY <2>1, <2>2, <2>3, <2>4
<1>5. ASSUME NEW i \in 0..(N-1), i \in Good PROVE i + 1 \in Good
  <2> DEFINE j == i + 1
  <2>1. /\ j \in 1..N /\ j \in 0..N /\ j - 1 = i /\ i \in 0..N /\ i \in Nat
        /\ 1..j = (1..i) \union {j} /\ j \notin 1..i
    BY <1>1
  <2>2. h[i] \in Seq(Line) /\ s[j] \in Line
    BY <1>1, <1>2, <2>1
  <2>3. Has(h[i], n) <=> Seen(i)
    BY <1>5
  <2>4. Lookup(h[i], n) = {s[k].ip : k \in F(i)}
    BY <1>5
  <2>5. h[j] = IF j \in K THEN Append(h[i], s[j]) ELSE h[i]
    BY <1>2, <2>1
  <2>6. Seen(j) <=> Seen(i) \/ (j \in K /\ Hostname(s[j]) = n)
    BY <2>1
  <2>7. j \in FirstIn(s, K, n) <=> j \in K /\ Hostname(s[j]) = n /\ ~Seen(i)
    BY <1>3, <2>1
  <2>8. F(j) = F(i) \union (IF j \in FirstIn(s, K, n) THEN {j} ELSE {})
    <3>1. \A k \in FirstIn(s, K, n) : k \in 1..N /\ (k <= j <=> k <= i \/ k = j)
      BY <1>1, <1>3, <2>1
    <3> QED BY <2>1, <3>1
  <2>9. ~Seen(i) => F(i) = {}
    BY <1>3, <2>1
  <2> HIDE DEF j, F, Seen
  <2>10. Has(h[j], n) <=> Seen(j)
    <3>1. CASE j \in K
      BY <2>2, <2>3, <2>5, <2>6, <3>1, AppendLine
    <3>2. CASE j \notin K
      BY <2>3, <2>5, <2>6, <3>2
    <3> QED BY <3>1, <3>2
  <2>11. Lookup(h[j], n) = {s[k].ip : k \in F(j)}
    <3>1. CASE j \in FirstIn(s, K, n)
      <4>1. F(j) = {j}
        BY <2>7, <2>8, <2>9, <3>1
      <4>2. Lookup(h[j], n) = {s[j].ip}
        BY <2>2, <2>3, <2>5, <2>7, <3>1, AppendLine
      <4> QED BY <4>1, <4>2
    <3>2. CASE j \notin FirstIn(s, K, n)
      <4>1. F(j) = F(i)
        BY <2>8, <3>2
      <4>2. Lookup(h[j], n) = Lookup(h[i], n)
        <5>1. CASE j \in K /\ Seen(i)
          BY <2>2, <2>3, <2>5, <5>1, AppendLine
        <5>2. CASE j \in K /\ ~Seen(i)
          <6>1. Lookup(h[i], n) = {}
            BY <2>4, <2>9, <5>2
          <6>2. Lookup(h[j], n) = {}
            BY <2>2, <2>3, <2>5, <2>7, <3>2, <5>2, AppendLine
          <6> QED BY <6>1, <6>2
        <5>3. CASE j \notin K
          BY <2>5, <5>3
        <5> QED BY <5>1, <5>2, <5>3
      <4> QED BY <2>4, <4>1, <4>2
    <3> QED BY <3>1, <3>2
  <2>12. j \in Good
    BY <2>1, <2>10, <2>11
  <2> QED BY <2>12 DEF j
<1>6. N \in Good
  <2> HIDE DEF Good
  <2>1. \A i \in 0..N : i \in Good
    BY <1>1, <1>4, <1>5, Climb
  <2> QED BY <1>1, <2>1
<1>7. F(N) = FirstIn(s, K, n)
  BY <1>1, <1>3
<1>8. h[N] \in Seq(Line)
  BY <1>1, <1>2
<1> HIDE DEF F
<1> QED BY <1>2, <1>6, <1>7, <1>8

\* The elements selected are elements of the sequence.
LEMMA SelectedFrom ==
  ASSUME NEW T, NEW s \in Seq(T), NEW K
  PROVE  Selected(s, K) \in Seq(T) /\ ToSet(Selected(s, K)) \subseteq ToSet(s)
<1>1. Selected(s, K) \in Seq(T)
  <2>1. PICK h \in [0..Len(s) -> Seq(T)] : Selected(s, K) = h[Len(s)]
    BY SelectedSteps DEF Selects
  <2>2. Len(s) \in 0..Len(s)
    OBVIOUS
  <2> QED BY <2>1, <2>2
<1>2. s \in Seq(ToSet(s))
  BY DEF ToSet
<1>3. Selected(s, K) \in Seq(ToSet(s))
  <2>1. PICK h \in [0..Len(s) -> Seq(ToSet(s))] : Selected(s, K) = h[Len(s)]
    BY <1>2, SelectedSteps DEF Selects
  <2>2. Len(s) \in 0..Len(s)
    OBVIOUS
  <2> QED BY <2>1, <2>2
<1>4. \A t \in Seq(ToSet(s)) : \A k \in DOMAIN t : t[k] \in ToSet(s)
  OBVIOUS
<1>5. ToSet(Selected(s, K)) = {Selected(s, K)[k] : k \in DOMAIN Selected(s, K)}
  BY DEF ToSet
<1> QED BY <1>1, <1>3, <1>4, <1>5


\* Dropping the duplicates changes no address.
LEMMA FormatKeeps ==
  ASSUME NEW s \in Seq(Line)
  PROVE  /\ FormatHostsFile(s) \in Seq(Line)
         /\ \A n : Lookup(FormatHostsFile(s), n) = Lookup(s, n)
<1> DEFINE K == {k \in DOMAIN s : \A j \in 1..(k-1) : Hostname(s[j]) # Hostname(s[k])}
<1>1. FormatHostsFile(s) = Selected(s, K)
  BY DEF FormatHostsFile
<1>2. ASSUME NEW n PROVE FirstIn(s, K, n) = FirstOf(s, n)
  <2>1. FirstOf(s, n) \subseteq FirstIn(s, K, n)
    BY LookupIs DEF FirstIn
  <2>2. ASSUME NEW k \in FirstIn(s, K, n) PROVE k \in FirstOf(s, n)
    BY LookupIs DEF FirstIn
  <2> QED BY <2>1, <2>2
<1> HIDE DEF K
<1>3. ASSUME NEW n PROVE Lookup(Selected(s, K), n) = Lookup(s, n)
  <2>1. Lookup(Selected(s, K), n) = {s[k].ip : k \in FirstIn(s, K, n)}
    BY SelectedLookup
  <2>2. Lookup(s, n) = {s[k].ip : k \in FirstOf(s, n)}
    BY LookupIs
  <2> QED BY <1>2, <2>1, <2>2
<1> QED BY <1>1, <1>3, SelectedLookup

\* A name that is removed is gone with all its lines, the others stay.
LEMMA RemoveHostDoes ==
  ASSUME NEW s \in Seq(Line), NEW n
  PROVE  /\ RemoveHost(s, n) \in Seq(Line)
         /\ Lookup(RemoveHost(s, n), n) = {}
         /\ \A m : m # n => Lookup(RemoveHost(s, n), m) = Lookup(s, m)
<1>0. DOMAIN s = 1..Len(s) /\ \A k \in 1..Len(s) : \A j \in 1..(k-1) : j \in 1..Len(s)
  OBVIOUS
<1> DEFINE K == {k \in DOMAIN s : Hostname(s[k]) # n}
<1>1. RemoveHost(s, n) = Selected(s, K)
  BY DEF RemoveHost
<1>2. FirstIn(s, K, n) = {}
  BY DEF FirstIn
<1>3. ASSUME NEW m, m # n PROVE FirstIn(s, K, m) = FirstOf(s, m)
  <2> HIDE DEF K
  <2>1. \A k \in 1..Len(s) : Hostname(s[k]) = m => k \in K
    BY <1>3, <1>0 DEF K
  <2>2. FirstOf(s, m) = {k \in 1..Len(s) : Hostname(s[k]) = m
                          /\ \A j \in 1..(k-1) : Hostname(s[j]) # m}
    BY <1>0, LookupIs
  <2>3. FirstIn(s, K, m) = {k \in 1..Len(s) : k \in K /\ Hostname(s[k]) = m
                             /\ \A j \in 1..(k-1) : j \in K => Hostname(s[j]) # m}
    BY <1>0 DEF FirstIn
  <2> QED BY <1>0, <2>1, <2>2, <2>3
<1> HIDE DEF K
<1>4. Lookup(Selected(s, K), n) = {}
  <2>1. Lookup(Selected(s, K), n) = {s[k].ip : k \in FirstIn(s, K, n)}
    BY SelectedLookup
  <2> QED BY <1>2, <2>1
<1>5. ASSUME NEW m, m # n PROVE Lookup(Selected(s, K), m) = Lookup(s, m)
  <2>1. Lookup(Selected(s, K), m) = {s[k].ip : k \in FirstIn(s, K, m)}
    BY SelectedLookup
  <2>2. Lookup(s, m) = {s[k].ip : k \in FirstOf(s, m)}
    BY LookupIs
  <2> QED BY <1>3, <1>5, <2>1, <2>2
<1> QED BY <1>1, <1>4, <1>5, SelectedLookup

\* A name that is set has the address, the others keep theirs.
LEMMA SetHostDoes ==
  ASSUME NEW s \in Seq(Line), NEW n \in Name, NEW ip \in Ip
  PROVE  /\ SetHost(s, n, ip) \in Seq(Line)
         /\ Lookup(SetHost(s, n, ip), n) = {ip}
         /\ \A m : m # n => Lookup(SetHost(s, n, ip), m) = Lookup(s, m)
<1>1. CASE FirstOf(s, n) = {}
  <2> DEFINE l == [ip |-> ip, names |-> <<n>>]
  <2>1. SetHost(s, n, ip) = Append(s, l)
    BY <1>1 DEF SetHost, FirstOf
  <2>2. l \in Line /\ Hostname(l) = n /\ l.ip = ip
    BY DEF Line, Hostname
  <2> HIDE DEF l
  <2>3. ~Has(s, n)
    BY <1>1, NothingToLookUp, LookupIs
  <2>4. Append(s, l) \in Seq(Line) /\ Lookup(Append(s, l), n) = {ip}
    BY <2>2, <2>3, AppendLine
  <2>5. ASSUME NEW m, m # n PROVE Lookup(Append(s, l), m) = Lookup(s, m)
    <3>1. Has(s, m) => Lookup(Append(s, l), m) = Lookup(s, m)
      BY <2>2, AppendLine
    <3>2. ~Has(s, m) => Lookup(Append(s, l), m) = {} /\ Lookup(s, m) = {}
      BY <2>2, <2>5, AppendLine, NothingToLookUp
    <3> QED BY <3>1, <3>2
  <2> QED BY <2>1, <2>4, <2>5
<1>2. CASE FirstOf(s, n) # {}
  <2> DEFINE F == FirstOf(s, n)
             t == [k \in DOMAIN s |-> IF k \in F THEN [s[k] EXCEPT !.ip = ip] ELSE s[k]]
  <2>1. SetHost(s, n, ip) = t
    BY <1>2 DEF SetHost, FirstOf
  <2>2. DOMAIN s = 1..Len(s) /\ Len(s) \in Nat /\ \A k \in 1..Len(s) : s[k] \in Line
    OBVIOUS
  <2>3. ASSUME NEW k \in 1..Len(s)
        PROVE  /\ t[k] \in Line /\ Hostname(t[k]) = Hostname(s[k])
               /\ t[k].ip = IF k \in F THEN ip ELSE s[k].ip
    <3>1. t[k] = IF k \in F THEN [s[k] EXCEPT !.ip = ip] ELSE s[k]
      BY <2>2
    <3>2. \A l \in Line :
            [l EXCEPT !.ip = ip] \in Line /\ [l EXCEPT !.ip = ip].names = l.names
            /\ [l EXCEPT !.ip = ip].ip = ip
      BY DEF Line
    <3> HIDE DEF t, F
    <3> QED BY <2>2, <3>1, <3>2 DEF Hostname
  <2>4. DOMAIN t = 1..Len(s)
    BY <2>2
  <2>5. t \in Seq(Line)
    <3>1. t = [k \in 1..Len(s) |-> t[k]]
      BY <2>4
    <3> HIDE DEF t
    <3> QED BY <2>2, <2>3, <3>1
  <2>6. ASSUME NEW m PROVE FirstOf(t, m) = FirstOf(s, m)
    <3> HIDE DEF t
    <3>1. \A k \in 1..Len(s) : \A j \in 1..(k-1) : j \in 1..Len(s)
      BY <2>2
    <3>2. FirstOf(s, m) = {k \in 1..Len(s) : Hostname(s[k]) = m
                            /\ \A j \in 1..(k-1) : Hostname(s[j]) # m}
      BY <2>2, LookupIs
    <3>3. FirstOf(t, m) = {k \in 1..Len(s) : Hostname(t[k]) = m
                            /\ \A j \in 1..(k-1) : Hostname(t[j]) # m}
      BY <2>4, <2>5, LookupIs
    <3> QED BY <2>3, <3>1, <3>2, <3>3
  <2>7. \A m : FirstOf(s, m) \subseteq 1..Len(s) /\ \A k \in FirstOf(s, m) : Hostname(s[k]) = m
    BY <2>2, LookupIs
  <2>8. \A m : Lookup(t, m) = {t[k].ip : k \in FirstOf(s, m)}
    <3> HIDE DEF t
    <3>1. \A m : Lookup(t, m) = {t[k].ip : k \in FirstOf(t, m)}
      BY <2>5, LookupIs
    <3> QED BY <2>6, <3>1
  <2>9. Lookup(t, n) = {ip}
    <3> HIDE DEF t
    <3>1. \A k \in F : t[k].ip = ip
      BY <2>3, <2>7
    <3> QED BY <1>2, <2>8, <3>1
  <2>10. ASSUME NEW m, m # n PROVE Lookup(t, m) = Lookup(s, m)
    <3>1. \A k \in FirstOf(s, m) : k \notin F /\ k \in 1..Len(s)
      BY <2>7, <2>10
    <3> HIDE DEF t, F
    <3>2. \A k \in FirstOf(s, m) : t[k].ip = s[k].ip
      BY <2>3, <3>1
    <3>3. Lookup(s, m) = {s[k].ip : k \in FirstOf(s, m)}
      BY LookupIs
    <3> QED BY <2>8, <3>2, <3>3
  <2> QED BY <2>1, <2>5, <2>9, <2>10
<1> QED BY <1>1, <1>2


\* What has been set after each of the names.
SetsUp(h, s, names, ip) ==
  /\ h \in [0..Len(names) -> Seq(Line)]
  /\ h[0] = s /\ SetHosts(s, names, ip) = h[Len(names)]
  /\ \A i \in 1..Len(names) : h[i] = SetHost(h[i-1], names[i], ip)

LEMMA SetHostsSteps ==
  ASSUME NEW s \in Seq(Line), NEW names \in Seq(Name), NEW ip \in Ip
  PROVE  \E h : SetsUp(h, s, names, ip)
<1> DEFINE n == Len(names)
           V == Seq(Line)
           step == [a \in V \X (1..n) |-> SetHost(a[1], names[a[2]], ip)]
           Iter == CHOOSE f : f = [S \in SUBSET (DOMAIN names) |->
                     IF S = {} THEN s ELSE SetHost(f[S \ {Max(S)}], names[Max(S)], ip)]
<1>1. n \in Nat /\ DOMAIN names = 1..n /\ \A k \in 1..n : names[k] \in Name
  OBVIOUS
<1>2. step \in [V \X (1..n) -> V]
  <2>1. \A a \in V \X (1..n) : a[1] \in Seq(Line) /\ names[a[2]] \in Name
    BY <1>1
  <2>2. \A a \in V \X (1..n) : SetHost(a[1], names[a[2]], ip) \in V
    BY <2>1, SetHostDoes
  <2> QED BY <2>2
<1>3. \E f : f = [S \in SUBSET (DOMAIN names) |->
                    IF S = {} THEN s ELSE SetHost(f[S \ {Max(S)}], names[Max(S)], ip)]
  <2>1. PICK f \in [SUBSET (1..n) -> V] : \A S \in SUBSET (1..n) :
          f[S] = IF S = {} THEN s ELSE step[<<f[S \ {Max(S)}], Max(S)>>]
    <3>1. IsStep(V, n, step)
      BY <1>2 DEF IsStep
    <3>2. s \in V
      OBVIOUS
    <3> HIDE DEF n, V, step
    <3>3. PICK f : IsFold(f, V, n, s, step)
      BY <1>1, <3>1, <3>2, FoldExists
    <3> QED BY <3>3 DEF IsFold
  <2>2. ASSUME NEW S \in SUBSET (1..n), S # {}
        PROVE  f[S] = SetHost(f[S \ {Max(S)}], names[Max(S)], ip)
    <3>1. Max(S) \in 1..n
      <4> HIDE DEF n
      <4> QED BY <1>1, <2>2, MaxIs
    <3>2. f[S \ {Max(S)}] \in V
      OBVIOUS
    <3>3. step[<<f[S \ {Max(S)}], Max(S)>>] = SetHost(f[S \ {Max(S)}], names[Max(S)], ip)
      <4> HIDE DEF n, V
      <4> QED BY <3>1, <3>2
    <3> HIDE DEF step, n, V
    <3> QED BY <2>1, <2>2, <3>3
  <2>3. f = [S \in SUBSET (1..n) |-> f[S]]
    OBVIOUS
  <2>4. f = [S \in SUBSET (1..n) |->
               IF S = {} THEN s ELSE SetHost(f[S \ {Max(S)}], names[Max(S)], ip)]
    <3> HIDE DEF step, n, V
    <3>1. \A S \in SUBSET (1..n) :
            f[S] = IF S = {} THEN s ELSE SetHost(f[S \ {Max(S)}], names[Max(S)], ip)
      BY <2>1, <2>2
    <3> QED BY <2>3, <3>1
  <2> HIDE DEF n, V, step
  <2> QED BY <1>1, <2>4
<1>4. Iter = [S \in SUBSET (DOMAIN names) |->
                IF S = {} THEN s ELSE SetHost(Iter[S \ {Max(S)}], names[Max(S)], ip)]
  BY <1>3
<1>5. SetHosts(s, names, ip) = Iter[DOMAIN names]
  BY DEF SetHosts, FoldLeft, MapThenFoldSet
<1> DEFINE h == [i \in 0..n |-> Iter[1..i]]
<1>6. Iter[1..0] = s
  <2> HIDE DEF Iter, n
  <2> QED BY <1>1, <1>4, Intervals
<1>7. ASSUME NEW i \in 1..n PROVE Iter[1..i] = SetHost(Iter[1..(i-1)], names[i], ip)
  <2>1. 1..i \in SUBSET (1..n) /\ 1..i # {} /\ Max(1..i) = i /\ (1..i) \ {i} = 1..(i-1)
    <3> HIDE DEF n
    <3> QED BY <1>1, Intervals
  <2> HIDE DEF Iter, n
  <2>2. Iter[1..i] = SetHost(Iter[(1..i) \ {i}], names[i], ip)
    BY <1>1, <1>4, <2>1
  <2> QED BY <2>1, <2>2
<1>8. h[0] = s /\ h[n] = Iter[DOMAIN names] /\ \A i \in 1..n :
        h[i] = SetHost(h[i-1], names[i], ip)
  <2>1. 0 \in 0..n /\ n \in 0..n /\ \A i \in 1..n : i \in 0..n /\ i - 1 \in 0..n
    BY <1>1
  <2> HIDE DEF Iter, n
  <2> QED BY <1>1, <1>6, <1>7, <2>1
<1>9. \A i \in 0..n : h[i] \in V
  <2> DEFINE Good == {i \in 0..n : h[i] \in V}
  <2>1. 0 \in Good
    <3>1. 0 \in 0..n /\ h[0] = s
      BY <1>1, <1>8
    <3> HIDE DEF h, n
    <3> QED BY <3>1
  <2>2. ASSUME NEW i \in 0..(n-1), i \in Good PROVE i + 1 \in Good
    <3>1. i + 1 \in 1..n /\ (i + 1) - 1 = i /\ names[i+1] \in Name /\ i + 1 \in 0..n
      BY <1>1
    <3>2. h[i + 1] = SetHost(h[i], names[i+1], ip)
      <4> HIDE DEF h, n
      <4> QED BY <1>8, <3>1
    <3>3. h[i] \in Seq(Line)
      BY <2>2
    <3> HIDE DEF h, n
    <3>4. h[i+1] \in V
      BY <3>1, <3>2, <3>3, SetHostDoes
    <3> QED BY <3>1, <3>4
  <2> HIDE DEF Good, n
  <2>3. \A i \in 0..n : i \in Good
    BY <1>1, <2>1, <2>2, Climb
  <2> QED BY <2>3 DEF Good
<1>10. h \in [0..n -> Seq(Line)]
  <2>1. h = [i \in 0..n |-> h[i]]
    OBVIOUS
  <2> HIDE DEF h, n
  <2> QED BY <1>9, <2>1
<1>11. SetsUp(h, s, names, ip)
  <2> HIDE DEF h
  <2> QED BY <1>5, <1>8, <1>10 DEF SetsUp
<1> QED BY <1>11

\* Each of the names that are set has the address, the others keep theirs.
LEMMA SetHostsDoes ==
  ASSUME NEW s \in Seq(Line), NEW names \in Seq(Name), NEW ip \in Ip
  PROVE  /\ SetHosts(s, names, ip) \in Seq(Line)
         /\ \A n \in ToSet(names) : Lookup(SetHosts(s, names, ip), n) = {ip}
         /\ \A n : n \notin ToSet(names) =>
              Lookup(SetHosts(s, names, ip), n) = Lookup(s, n)
<1>0. \A es \in Seq(Line), n \in Name : Lookup(SetHost(es, n, ip), n) = {ip}
  BY SetHostDoes
<1> DEFINE N == Len(names)
<1>1. N \in Nat /\ DOMAIN names = 1..N /\ \A k \in 1..N : names[k] \in Name
  OBVIOUS
<1>2. PICK h : SetsUp(h, s, names, ip)
  BY SetHostsSteps
<1>3. /\ h \in [0..N -> Seq(Line)] /\ h[0] = s /\ SetHosts(s, names, ip) = h[N]
      /\ \A i \in 1..N : h[i] = SetHost(h[i-1], names[i], ip)
  BY <1>2 DEF SetsUp
<1>4. ToSet(names) = {names[k] : k \in 1..N}
  BY <1>1 DEF ToSet
<1> HIDE DEF N
<1>5. ASSUME NEW n
      PROVE  Lookup(h[N], n) = IF n \in ToSet(names) THEN {ip} ELSE Lookup(s, n)
  <2> DEFINE Seen(i) == \E k \in 1..i : names[k] = n
             Good == {i \in 0..N :
                        Lookup(h[i], n) = IF Seen(i) THEN {ip} ELSE Lookup(s, n)}
  <2>1. 0 \in Good
    <3>1. 0 \in 0..N /\ ~Seen(0)
      BY <1>1
    <3> QED BY <1>3, <3>1
  <2>2. ASSUME NEW i \in 0..(N-1), i \in Good PROVE i + 1 \in Good
    <3> DEFINE j == i + 1
    <3>1. /\ j \in 1..N /\ j \in 0..N /\ j - 1 = i /\ i \in 0..N
          /\ 1..j = (1..i) \union {j}
      BY <1>1
    <3>2. Seen(j) <=> Seen(i) \/ names[j] = n
      BY <3>1
    <3>3. Lookup(h[i], n) = IF Seen(i) THEN {ip} ELSE Lookup(s, n)
      BY <2>2
    <3> HIDE DEF j, Seen
    <3>4. h[j] = SetHost(h[i], names[j], ip) /\ h[i] \in Seq(Line) /\ names[j] \in Name
      BY <1>1, <1>3, <3>1
    <3>5. Lookup(h[j], n) = IF Seen(j) THEN {ip} ELSE Lookup(s, n)
      <4>1. CASE names[j] = n
        <5>1. Lookup(SetHost(h[i], names[j], ip), names[j]) = {ip}
          BY <1>0, <3>4
        <5>2. Lookup(h[j], n) = {ip}
          BY <3>4, <4>1, <5>1
        <5> QED BY <3>2, <4>1, <5>2
      <4>2. CASE names[j] # n
        <5>1. Lookup(h[j], n) = Lookup(h[i], n)
          BY <3>4, <4>2, SetHostDoes
        <5> QED BY <3>2, <3>3, <4>2, <5>1
      <4> QED BY <4>1, <4>2
    <3>6. j \in Good
      BY <3>1, <3>5
    <3> QED BY <3>6 DEF j
  <2>3. N \in Good
    <3> HIDE DEF Good
    <3>1. \A i \in 0..N : i \in Good
      BY <1>1, <2>1, <2>2, Climb
    <3> QED BY <1>1, <3>1
  <2>4. Seen(N) <=> n \in ToSet(names)
    BY <1>4
  <2> HIDE DEF Seen
  <2> QED BY <2>3, <2>4
<1>6. h[N] \in Seq(Line)
  BY <1>1, <1>3
<1> QED BY <1>3, <1>5, <1>6


-----------------------------------------------------------------------------
(***************************************************************************)
(* What stays behind a shorter text.                                       *)
(***************************************************************************)

LEMMA CutTypes ==
  ASSUME NEW line \in Line
  PROVE  Cut(line) \subseteq Seq(Line)
<1> DEFINE Rest(j) == SubSeq(line.names, j, Len(line.names))
<1>1. ASSUME NEW j \in DOMAIN line.names PROVE [ip |-> Scrap, names |-> Rest(j)] \in Line
  <2>1. line.names \in Seq(Name) /\ line.names # << >> /\ Scrap \in Ip
    BY FileAssumption DEF Line
  <2>2. \A t \in Seq(Name) : \A k \in DOMAIN t :
          /\ SubSeq(t, k, Len(t)) \in Seq(Name)
          /\ Len(SubSeq(t, k, Len(t))) = Len(t) - k + 1
          /\ Len(t) - k + 1 # 0 /\ Len(<< >>) = 0
    OBVIOUS
  <2>3. Rest(j) \in Seq(Name) /\ Rest(j) # << >>
    BY <2>1, <2>2
  <2> HIDE DEF Rest
  <2> QED BY <2>1, <2>3 DEF Line
<1> HIDE DEF Rest
<1>2. \A l \in Line : <<l>> \in Seq(Line)
  OBVIOUS
<1>3. Cut(line) = {<<[ip |-> Scrap, names |-> Rest(j)]>> : j \in DOMAIN line.names}
  BY DEF Cut, Rest
<1> QED BY <1>1, <1>2, <1>3

LEMMA EndsTypes ==
  ASSUME NEW content \in Content
  PROVE  Ends(content) \subseteq Seq(Line)
<1> DEFINE lines == Entries(content)
           After(k) == SubSeq(lines, k + 1, Len(lines))
<1>1. lines \in Seq(Line)
  BY DEF Entries, Content
<1> HIDE DEF lines
<1>2. \A k \in 0..Len(lines) : After(k) \in Seq(Line)
  BY <1>1
<1>3. \A k \in DOMAIN lines : k \in 0..Len(lines) /\ lines[k] \in Line
  BY <1>1
<1> HIDE DEF After
<1>4. \A k \in DOMAIN lines : \A rest \in Cut(lines[k]) : rest \o After(k) \in Seq(Line)
  <2> SUFFICES ASSUME NEW k \in DOMAIN lines, NEW rest \in Cut(lines[k])
               PROVE  rest \o After(k) \in Seq(Line)
    OBVIOUS
  <2>1. rest \in Seq(Line) /\ After(k) \in Seq(Line)
    BY <1>2, <1>3, CutTypes
  <2> QED BY <2>1
<1>5. Ends(content) = {After(k) : k \in 0..Len(lines)}
        \union UNION {{rest \o After(k) : rest \in Cut(lines[k])} : k \in DOMAIN lines}
  BY DEF Ends, lines, After
<1>6. \A x \in Ends(content) :
        \/ \E k \in 0..Len(lines) : x = After(k)
        \/ \E k \in DOMAIN lines : \E rest \in Cut(lines[k]) : x = rest \o After(k)
  BY <1>5
<1> QED BY <1>2, <1>4, <1>6

\* Behind nothing nothing stays.
LEMMA EndsOfEmpty == Ends(Empty) = {<< >>}
<1> DEFINE After(k) == SubSeq(<< >>, k + 1, Len(<< >>))
<1>1. Entries(Empty) = << >>
  BY DEF Entries
<1>2. Len(<< >>) = 0 /\ DOMAIN << >> = {} /\ 0..0 = {0} /\ After(0) = << >>
  OBVIOUS
<1>3. Ends(Empty) = {After(k) : k \in 0..Len(<< >>)}
        \union UNION {{rest \o After(k) : rest \in Cut(<< >>[k])} : k \in DOMAIN << >>}
  BY <1>1 DEF Ends
<1> HIDE DEF After
<1>4. {After(k) : k \in 0..Len(<< >>)} = {<< >>}
  BY <1>2
<1>5. UNION {{rest \o After(k) : rest \in Cut(<< >>[k])} : k \in DOMAIN << >>} = {}
  BY <1>2
<1> QED BY <1>3, <1>4, <1>5

\* A content is b, with the end of another one behind it only if m.
Overlays(content, b, m) ==
  \E rest \in Seq(Line) : content = b \o rest /\ (rest # << >> => m)

\* A line that is found in the text in front is found.
LEMMA FrontWins ==
  ASSUME NEW s \in Seq(Line), NEW rest \in Seq(Line), NEW n, Lookup(s, n) # {}
  PROVE  Lookup(s \o rest, n) = Lookup(s, n)
<1> DEFINE t == s \o rest
<1>1. /\ t \in Seq(Line) /\ DOMAIN s = 1..Len(s) /\ DOMAIN s \subseteq DOMAIN t
      /\ Len(s) \in Nat /\ \A k \in DOMAIN s : t[k] = s[k]
  OBVIOUS
<1> HIDE DEF t
<1>2. PICK f \in FirstOf(s, n) : TRUE
  BY LookupIs
<1>3. f \in 1..Len(s) /\ Hostname(s[f]) = n /\ \A j \in 1..(f-1) : Hostname(s[j]) # n
  BY <1>1, <1>2, LookupIs
<1>4. \A j \in 1..(f-1) : j \in DOMAIN s
  BY <1>1, <1>3
<1>5. f \in DOMAIN t /\ Hostname(t[f]) = n /\ \A j \in 1..(f-1) : Hostname(t[j]) # n
  BY <1>1, <1>3, <1>4 DEF Hostname
<1>6. f \in FirstOf(t, n)
  BY <1>1, <1>5, LookupIs
<1>7. FirstOf(s, n) = {f} /\ FirstOf(t, n) = {f}
  BY <1>1, <1>2, <1>6, OneFirst
<1>8. Lookup(s, n) = {s[f].ip} /\ Lookup(t, n) = {t[f].ip}
  BY <1>1, <1>7, LookupIs
<1> QED BY <1>1, <1>3, <1>8 DEF t

LEMMA OverlayOf ==
  ASSUME NEW b \in Seq(Line), NEW m
  PROVE  b \o << >> = b /\ Overlays(b, b, m)
<1>1. b \o << >> = b /\ << >> \in Seq(Line)
  OBVIOUS
<1> QED BY <1>1 DEF Overlays

-----------------------------------------------------------------------------
(***************************************************************************)
(* What is so of a command by where it is.                                 *)
(***************************************************************************)

Checking == {"check", "choose", "recheck", "verify"}
Writing == {"open", "flush", "tmpOpen", "tmpFlush", "sudo", "rm"}

PlaceOf(p) ==
  /\ pc[p] # "idle" => cmd[p] \in Commands
  /\ pc[p] \in {"read", "recover"} \union Writing => Changes(p)
  /\ pc[p] \in Checking => cmd[p].kind = "ensure"
  /\ pc[p] \in {"list", "backup", "restore"} => cmd[p].kind = pc[p]
  /\ left[p] # << >> => cmd[p].kind = "ensure" /\ pc[p] \in {"check", "recheck", "failed"}
  /\ pc[p] = "idle" \/ cmd[p].kind # "ensure" => missing[p] = {}

Placed ==
  /\ \A p \in Proc : PlaceOf(p)
  /\ \A p \in attached : pc[p] = "tmpFlush"

Typed == TypeOK /\ Placed

LEMMA CommandFields ==
  /\ Commands \subseteq Command
  /\ \A c \in Command :
       /\ c.names \in Seq(Name) /\ c.ip \in Ip
       /\ c.kind \in {"set", "remove", "list", "backup", "restore", "ensure"}
       /\ c.kind = "ensure" => c.ports \in BOOLEAN /\ c.mode \in Mode
  /\ \A c \in Commands :
       c.kind \in {"set", "remove"} =>
         c.names # << >> /\ c.names[1] \in Name /\ c.names[1] \in ToSet(c.names)
<1>1. Commands \subseteq Command
  BY CommandAssumption
<1>2. \A c \in Command :
       /\ c.names \in Seq(Name) /\ c.ip \in Ip
       /\ c.kind \in {"set", "remove", "list", "backup", "restore", "ensure"}
       /\ c.kind = "ensure" => c.ports \in BOOLEAN /\ c.mode \in Mode
  BY DEF Command
<1>3. \A s \in Seq(Name) : s # << >> => s[1] \in Name /\ s[1] \in ToSet(s)
  BY DEF ToSet
<1> QED BY <1>1, <1>2, <1>3, CommandAssumption

LEMMA NoNames == ToSet(<< >>) = {}
BY DEF ToSet

\* What a command makes of a file is of the type of one and changes no name that
\* it was not given.
LEMMA EditedDoes ==
  ASSUME NEW p \in Proc, NEW s \in Seq(Line), cmd[p] \in Commands, Changes(p)
  PROVE  /\ Edited(p, s) \in Seq(Line) /\ FormatHostsFile(Edited(p, s)) \in Seq(Line)
         /\ \A n : Lookup(FormatHostsFile(Edited(p, s)), n) = Lookup(Edited(p, s), n)
         /\ \A n : n \notin ToSet(cmd[p].names) => Lookup(Edited(p, s), n) = Lookup(s, n)
         /\ cmd[p].kind # "ensure" => Shows(p, Edited(p, s))
<1> DEFINE c == cmd[p]
<1>1. /\ c.names \in Seq(Name) /\ c.ip \in Ip /\ c.kind \in {"set", "remove", "ensure"}
      /\ c.kind # "ensure" => c.names[1] \in Name /\ c.names[1] \in ToSet(c.names)
  BY CommandFields DEF Changes
<1>2. NamesToSet(p) \in Seq(Name) /\ ToSet(NamesToSet(p)) \subseteq ToSet(c.names)
  BY <1>1, SelectedFrom DEF NamesToSet
<1>3. c.kind # "ensure" => NamesToSet(p) = c.names
  BY DEF NamesToSet
<1> HIDE DEF c
<1>4. CASE c.kind = "remove"
  <2>1. Edited(p, s) = RemoveHost(s, c.names[1])
    BY <1>4 DEF Edited, c
  <2>2. Edited(p, s) \in Seq(Line) /\ Lookup(Edited(p, s), c.names[1]) = {}
    BY <2>1, RemoveHostDoes
  <2>3. \A n : n \notin ToSet(c.names) => Lookup(Edited(p, s), n) = Lookup(s, n)
    BY <1>1, <1>4, <2>1, RemoveHostDoes
  <2>4. Shows(p, Edited(p, s))
    BY <1>4, <2>2 DEF Shows, c
  <2> QED BY <2>2, <2>3, <2>4, FormatKeeps DEF c
<1>5. CASE c.kind # "remove"
  <2>1. Edited(p, s) = SetHosts(s, NamesToSet(p), c.ip)
    BY <1>5 DEF Edited, c
  <2>2. /\ Edited(p, s) \in Seq(Line)
        /\ \A n \in ToSet(NamesToSet(p)) : Lookup(Edited(p, s), n) = {c.ip}
        /\ \A n : n \notin ToSet(NamesToSet(p)) => Lookup(Edited(p, s), n) = Lookup(s, n)
    BY <1>1, <1>2, <2>1, SetHostsDoes
  <2>3. \A n : n \notin ToSet(c.names) => Lookup(Edited(p, s), n) = Lookup(s, n)
    BY <1>2, <2>2
  <2>4. c.kind # "ensure" => Shows(p, Edited(p, s))
    BY <1>1, <1>3, <1>5, <2>2 DEF Shows, c
  <2> QED BY <2>2, <2>3, <2>4, FormatKeeps DEF c
<1> QED BY <1>4, <1>5


-----------------------------------------------------------------------------
(***************************************************************************)
(* Types.                                                                  *)
(***************************************************************************)

LEMMA LaunchTypes ==
  ASSUME Typed, NEW p \in Proc, Launch(p)
  PROVE  Typed'
<1> PICK c \in Commands :
      /\ GoTo(p, FirstStep(c))
      /\ cmd' = [cmd EXCEPT ![p] = c]
      /\ left' = [left EXCEPT ![p] = IF c.kind = "ensure" THEN c.names ELSE << >>]
  BY DEF Launch
<1>1. c \in Command /\ c.names \in Seq(Name)
      /\ c.kind \in {"set", "remove", "list", "backup", "restore", "ensure"}
  BY CommandFields
<1>2. /\ pc[p] = "idle" /\ UNCHANGED <<fileVars, missing, buf, faults>>
      /\ direct' \in [Proc -> BOOLEAN] /\ solo' \in [Proc -> BOOLEAN]
  BY DEF Launch, Typed, TypeOK, Running
<1>3. /\ pc' = [pc EXCEPT ![p] = FirstStep(c)]
      /\ FirstStep(c) = IF c.kind = "ensure" THEN "check"
                        ELSE IF c.kind \in {"set", "remove"} THEN "read" ELSE c.kind
  BY DEF GoTo, FirstStep
<1>4. TypeOK'
  BY <1>1, <1>2, <1>3 DEF Typed, TypeOK, Steps, fileVars
<1>5. ASSUME NEW q \in Proc PROVE PlaceOf(q)'
  BY <1>1, <1>2, <1>3 DEF Typed, TypeOK, Placed, PlaceOf, Changes, Checking, Writing, fileVars
<1>6. Placed'
  BY <1>2, <1>3, <1>5 DEF Typed, TypeOK, Placed, fileVars
<1> QED BY <1>4, <1>6 DEF Typed

LEMMA EnsureTypes ==
  ASSUME Typed, NEW p \in Proc, Ensure(p)
  PROVE  Typed'
<1> USE DEF fileVars, runVars, GoTo
<1>1. CASE CheckName(p)
  <2>1. TypeOK'
    BY <1>1 DEF CheckName, Typed, TypeOK
  <2>2. Placed'
    BY <1>1 DEF CheckName, Typed, TypeOK, Placed, PlaceOf, Changes, Checking, Writing
  <2> QED BY <2>1, <2>2 DEF Typed
<1> USE DEF checkVars
<1>2. CASE Checked(p)
  <2>1. TypeOK'
    BY <1>2 DEF Checked, AfterEnsure, Typed, TypeOK, Steps, Resting
  <2>2. Placed'
    BY <1>2 DEF Checked, AfterEnsure, Typed, TypeOK, Placed, PlaceOf, Changes, Checking, Writing
  <2> QED BY <2>1, <2>2 DEF Typed
<1>3. CASE ChooseMode(p)
  <2>1. TypeOK'
    BY <1>3 DEF ChooseMode, AfterEnsure, Typed, TypeOK, Steps, Resting
  <2>2. Placed'
    BY <1>3 DEF ChooseMode, AfterEnsure, Typed, TypeOK, Placed, PlaceOf, Changes, Checking, Writing
  <2> QED BY <2>1, <2>2 DEF Typed
<1>4. CASE Rechecked(p)
  <2>1. TypeOK'
    BY <1>4 DEF Rechecked, AfterEnsure, Typed, TypeOK, Steps, Resting
  <2>2. Placed'
    BY <1>4 DEF Rechecked, AfterEnsure, Typed, TypeOK, Placed, PlaceOf, Changes, Checking, Writing
  <2> QED BY <2>1, <2>2 DEF Typed
<1>5. CASE Verify(p)
  <2>1. TypeOK'
    BY <1>5 DEF Verify, Typed, TypeOK, Resting
  <2>2. Placed'
    BY <1>5 DEF Verify, Typed, TypeOK, Placed, PlaceOf, Changes, Checking, Writing
  <2> QED BY <2>1, <2>2 DEF Typed
<1> QED BY <1>1, <1>2, <1>3, <1>4, <1>5 DEF Ensure

\* After the edit the command has a new place and the names to look at again.
LEMMA AfterWriteTypes ==
  ASSUME Typed, NEW p \in Proc, AfterWrite(p), UNCHANGED cmd,
         Changes(p), cmd[p] \in Commands, pc[p] \in {"read", "flush", "rm"}
  PROVE  /\ pc' \in [Proc -> Steps \union Resting]
         /\ left' \in [Proc -> Seq(Name)] /\ missing' \in [Proc -> SUBSET Name]
         /\ \A q \in Proc : PlaceOf(q)'
         /\ \A q \in Proc : q # p => pc'[q] = pc[q]
<1>1. cmd[p].names \in Seq(Name)
  BY CommandFields
<1>2. CASE cmd[p].kind = "ensure"
  <2>1. /\ pc' = [pc EXCEPT ![p] = "recheck"]
        /\ left' = [left EXCEPT ![p] = cmd[p].names]
        /\ missing' = [missing EXCEPT ![p] = {}]
    BY <1>2 DEF AfterWrite, GoTo
  <2> QED BY <1>1, <1>2, <2>1 DEF Typed, TypeOK, Steps, Placed, PlaceOf, Changes, Checking, Writing
<1>3. CASE cmd[p].kind # "ensure"
  <2>1. pc' = [pc EXCEPT ![p] = "done"] /\ left' = left /\ missing' = missing
    BY <1>3 DEF AfterWrite, GoTo, checkVars
  <2> QED BY <1>3, <2>1 DEF Typed, TypeOK, Resting, Placed, PlaceOf, Changes, Checking, Writing
<1> QED BY <1>2, <1>3

\* What the two writes put into a file, behind which the end of another may stay.
LEMMA WriteHostsFileDoes ==
  ASSUME Typed, NEW p \in Proc, WriteHostsFile(p)
  PROVE  /\ file' \in Seq(Line) /\ mixed' \in BOOLEAN /\ (mixed => mixed')
         /\ buf[p] \in Seq(Line) /\ Overlays(file', buf[p], mixed')
         /\ file = Empty => file' = buf[p] /\ mixed' = mixed
<1>1. PICK rest \in Ends(file) : file' = buf[p] \o rest /\ mixed' = (mixed \/ rest # << >>)
  BY DEF WriteHostsFile
<1>2. rest \in Seq(Line) /\ buf[p] \in Seq(Line) /\ mixed \in BOOLEAN
  BY EndsTypes DEF Typed, TypeOK
<1>3. file' \in Seq(Line)
  BY <1>1, <1>2
<1>4. file = Empty => rest = << >>
  BY EndsOfEmpty
<1>5. buf[p] \o << >> = buf[p]
  BY <1>2, OverlayOf
<1> QED BY <1>1, <1>2, <1>3, <1>4, <1>5 DEF Overlays

LEMMA WriteTempFileDoes ==
  ASSUME Typed, NEW p \in Proc, WriteTempFile(p)
  PROVE  /\ mixed' \in BOOLEAN /\ (mixed => mixed') /\ buf[p] \in Seq(Line)
         /\ p \notin attached => tmp' = tmp /\ mixed' = mixed
         /\ p \in attached => tmp' \in Seq(Line) /\ Overlays(tmp', buf[p], mixed')
         /\ p \in attached /\ tmp = Empty => tmp' = buf[p] /\ mixed' = mixed
<1>1. buf[p] \in Seq(Line) /\ mixed \in BOOLEAN
  BY DEF Typed, TypeOK
<1>2. CASE p \notin attached
  BY <1>1, <1>2 DEF WriteTempFile
<1>3. CASE p \in attached
  <2>1. PICK rest \in Ends(tmp) : tmp' = buf[p] \o rest /\ mixed' = (mixed \/ rest # << >>)
    BY <1>3 DEF WriteTempFile
  <2>2. tmp \in Content
    BY <1>3 DEF Typed, TypeOK
  <2>3. rest \in Seq(Line)
    BY <2>2, EndsTypes
  <2>4. tmp' \in Seq(Line)
    BY <1>1, <2>1, <2>3
  <2>5. tmp = Empty => rest = << >>
    BY EndsOfEmpty
  <2>6. buf[p] \o << >> = buf[p]
    BY <1>1, OverlayOf
  <2> QED BY <1>1, <1>3, <2>1, <2>3, <2>4, <2>5, <2>6 DEF Overlays
<1> QED BY <1>2, <1>3

LEMMA WriteTypes ==
  ASSUME Typed, NEW p \in Proc, Write(p)
  PROVE  Typed'
<1> USE DEF fileVars, runVars
<1>1. CASE OpenHostsFile(p)
  <2>1. TypeOK'
    BY <1>1 DEF OpenHostsFile, GoTo, checkVars, Typed, TypeOK, Steps, Content
  <2>2. Placed'
    BY <1>1 DEF OpenHostsFile, GoTo, checkVars, Typed, TypeOK, Placed, PlaceOf, Changes, Checking, Writing
  <2> QED BY <2>1, <2>2 DEF Typed
<1>2. CASE WriteHostsFile(p)
  <2>1. Changes(p) /\ cmd[p] \in Commands
    BY <1>2 DEF WriteHostsFile, Typed, Placed, PlaceOf, Writing
  <2>2. /\ pc' \in [Proc -> Steps \union Resting]
        /\ left' \in [Proc -> Seq(Name)] /\ missing' \in [Proc -> SUBSET Name]
        /\ \A q \in Proc : PlaceOf(q)'
        /\ \A q \in Proc : q # p => pc'[q] = pc[q]
    BY <1>2, <2>1, AfterWriteTypes DEF WriteHostsFile
  <2>3. TypeOK'
    BY <1>2, <2>2, WriteHostsFileDoes DEF WriteHostsFile, Typed, TypeOK, Content
  <2>4. Placed'
    BY <1>2, <2>2 DEF WriteHostsFile, Typed, TypeOK, Placed
  <2> QED BY <2>3, <2>4 DEF Typed
<1>3. CASE WriteFails(p)
  <2>1. TypeOK'
    BY <1>3, FaultAssumption DEF WriteFails, GoTo, Fault, checkVars, Typed, TypeOK, Steps
  <2>2. Placed'
    BY <1>3 DEF WriteFails, GoTo, checkVars, Typed, TypeOK, Placed, PlaceOf, Changes, Checking, Writing
  <2> QED BY <2>1, <2>2 DEF Typed
<1>4. CASE OpenTempFile(p)
  <2>1. TypeOK'
    BY <1>4, ContentAssumption DEF OpenTempFile, GoTo, checkVars, Typed, TypeOK, Steps, Content
  <2>2. Placed'
    BY <1>4 DEF OpenTempFile, GoTo, checkVars, Typed, TypeOK, Placed, PlaceOf, Changes, Checking, Writing
  <2> QED BY <2>1, <2>2 DEF Typed
<1>5. CASE WriteTempFile(p)
  <2>1. /\ tmp' \in Content \union {NoFile} /\ mixed' \in BOOLEAN
        /\ tmp' = NoFile => attached' = {}
    <3>1. CASE p \in attached
      BY <1>5, <3>1, WriteTempFileDoes, ContentAssumption DEF Content
    <3>2. CASE p \notin attached
      BY <1>5, <3>2, WriteTempFileDoes DEF WriteTempFile, Typed, TypeOK
    <3> QED BY <3>1, <3>2
  <2>3. TypeOK'
    BY <1>5, <2>1 DEF WriteTempFile, GoTo, checkVars, Typed, TypeOK, Steps
  <2>2. Placed'
    BY <1>5 DEF WriteTempFile, GoTo, checkVars, Typed, TypeOK, Placed, PlaceOf, Changes, Checking, Writing
  <2> QED BY <2>2, <2>3 DEF Typed
<1>6. CASE SudoCopies(p)
  <2>1. TypeOK'
    BY <1>6 DEF SudoCopies, GoTo, checkVars, Typed, TypeOK, Steps
  <2>2. Placed'
    BY <1>6 DEF SudoCopies, GoTo, checkVars, Typed, TypeOK, Placed, PlaceOf, Changes, Checking, Writing
  <2> QED BY <2>1, <2>2 DEF Typed
<1>7. CASE SudoFails(p)
  <2>1. TypeOK'
    BY <1>7, FaultAssumption DEF SudoFails, GoTo, Fault, checkVars, Typed, TypeOK, Steps
  <2>2. Placed'
    BY <1>7 DEF SudoFails, GoTo, checkVars, Typed, TypeOK, Placed, PlaceOf, Changes, Checking, Writing
  <2> QED BY <2>1, <2>2 DEF Typed
<1>8. CASE RemoveTempFile(p)
  <2>1. Changes(p) /\ cmd[p] \in Commands
    BY <1>8 DEF RemoveTempFile, Typed, Placed, PlaceOf, Writing
  <2>2. /\ pc' \in [Proc -> Steps \union Resting]
        /\ left' \in [Proc -> Seq(Name)] /\ missing' \in [Proc -> SUBSET Name]
        /\ \A q \in Proc : PlaceOf(q)'
    <3>1. CASE tmp = NoFile
      BY <1>8, <3>1 DEF RemoveTempFile, GoTo, checkVars, Typed, TypeOK, Steps,
                        Placed, PlaceOf, Changes, Checking, Writing
    <3>2. CASE tmp # NoFile
      BY <1>8, <2>1, <3>2, AfterWriteTypes DEF RemoveTempFile
    <3> QED BY <3>1, <3>2
  <2>3. TypeOK'
    BY <1>8, <2>2 DEF RemoveTempFile, Typed, TypeOK
  <2>4. Placed'
    BY <1>8, <2>2 DEF RemoveTempFile, Placed
  <2> QED BY <2>3, <2>4 DEF Typed
<1>9. CASE Recover(p)
  <2>1. TypeOK'
    BY <1>9, FaultAssumption DEF Recover, GoTo, Fault, checkVars, Typed, TypeOK, Resting
  <2>2. Placed'
    BY <1>9 DEF Recover, GoTo, checkVars, Typed, TypeOK, Placed, PlaceOf, Changes, Checking, Writing
  <2> QED BY <2>1, <2>2 DEF Typed
<1> QED BY <1>1, <1>2, <1>3, <1>4, <1>5, <1>6, <1>7, <1>8, <1>9 DEF Write

\* What a command that reads the file makes of it, if the file is not empty.
LEMMA ReadDoes ==
  ASSUME Typed, NEW p \in Proc, pc[p] = "read", file # Empty
  PROVE  /\ file \in Seq(Line) /\ Changes(p) /\ cmd[p] \in Commands
         /\ Edited(p, file) \in Seq(Line) /\ FormatHostsFile(Edited(p, file)) \in Seq(Line)
         /\ \A n : Lookup(FormatHostsFile(Edited(p, file)), n) = Lookup(Edited(p, file), n)
         /\ \A n : n \notin ToSet(cmd[p].names) => Lookup(Edited(p, file), n) = Lookup(file, n)
         /\ cmd[p].kind # "ensure" => Shows(p, Edited(p, file))
<1>1. file \in Seq(Line) /\ Changes(p) /\ cmd[p] \in Commands
  BY DEF Typed, TypeOK, Content, Placed, PlaceOf
<1> QED BY <1>1, EditedDoes

LEMMA ReadTypes ==
  ASSUME Typed, NEW p \in Proc, ReadAndEdit(p)
  PROVE  Typed'
<1> DEFINE new == FormatHostsFile(Edited(p, file))
<1>1. pc[p] = "read" /\ UNCHANGED <<fileVars, runVars, faults>>
  BY DEF ReadAndEdit
<1>2. CASE file = Empty
  <2>1. pc' = [pc EXCEPT ![p] = "failed"] /\ UNCHANGED <<buf, checkVars>>
    BY <1>2 DEF ReadAndEdit, Refused, GoTo
  <2>2. TypeOK'
    BY <1>1, <2>1 DEF Typed, TypeOK, Resting, fileVars, runVars, checkVars
  <2>3. Placed'
    BY <1>1, <2>1 DEF Typed, TypeOK, Placed, PlaceOf, Changes, Checking, Writing,
                      fileVars, runVars, checkVars
  <2> QED BY <2>2, <2>3 DEF Typed
<1>3. CASE file # Empty /\ Edited(p, file) = file
  <2>1. AfterWrite(p) /\ UNCHANGED buf
    BY <1>3 DEF ReadAndEdit, Refused
  <2>2. Changes(p) /\ cmd[p] \in Commands
    BY <1>1, <1>3, ReadDoes
  <2>3. /\ pc' \in [Proc -> Steps \union Resting]
        /\ left' \in [Proc -> Seq(Name)] /\ missing' \in [Proc -> SUBSET Name]
        /\ \A q \in Proc : PlaceOf(q)'
        /\ \A q \in Proc : q # p => pc'[q] = pc[q]
    BY <1>1, <2>1, <2>2, AfterWriteTypes DEF runVars
  <2>4. TypeOK'
    BY <1>1, <2>1, <2>3 DEF Typed, TypeOK, fileVars, runVars
  <2>5. Placed'
    BY <1>1, <2>3 DEF Typed, TypeOK, Placed, fileVars
  <2> QED BY <2>4, <2>5 DEF Typed
<1>4. CASE file # Empty /\ Edited(p, file) # file
  <2>1. /\ buf' = [buf EXCEPT ![p] = new]
        /\ pc' = [pc EXCEPT ![p] = IF direct[p] THEN "open" ELSE "tmpOpen"]
        /\ UNCHANGED checkVars
    BY <1>4 DEF ReadAndEdit, Refused, GoTo
  <2>2. new \in Seq(Line)
    BY <1>1, <1>4, ReadDoes
  <2> HIDE DEF new
  <2>3. TypeOK'
    BY <1>1, <2>1, <2>2 DEF Typed, TypeOK, Steps, fileVars, runVars, checkVars
  <2>4. Placed'
    BY <1>1, <2>1 DEF Typed, TypeOK, Placed, PlaceOf, Changes, Checking, Writing,
                      fileVars, runVars, checkVars
  <2> QED BY <2>3, <2>4 DEF Typed
<1> QED BY <1>2, <1>3, <1>4

LEMMA OtherTypes ==
  ASSUME Typed, NEW p \in Proc,
         ReadAndList(p) \/ BackupHostsFile(p) \/ RestoreHostsFile(p) \/ Kill(p)
  PROVE  Typed'
<1> USE DEF fileVars, runVars, checkVars, GoTo
<1>1. CASE ReadAndList(p)
  <2>1. TypeOK'
    BY <1>1 DEF ReadAndList, Typed, TypeOK, Resting
  <2>2. Placed'
    BY <1>1 DEF ReadAndList, Typed, TypeOK, Placed, PlaceOf, Changes, Checking, Writing
  <2> QED BY <2>1, <2>2 DEF Typed
<1>2. CASE BackupHostsFile(p)
  <2>1. TypeOK'
    BY <1>2 DEF BackupHostsFile, Typed, TypeOK, Resting
  <2>2. Placed'
    BY <1>2 DEF BackupHostsFile, Typed, TypeOK, Placed, PlaceOf, Changes, Checking, Writing
  <2> QED BY <2>1, <2>2 DEF Typed
<1>3. CASE RestoreHostsFile(p)
  <2>1. TypeOK'
    BY <1>3 DEF RestoreHostsFile, Typed, TypeOK, Resting
  <2>2. Placed'
    BY <1>3 DEF RestoreHostsFile, Typed, TypeOK, Placed, PlaceOf, Changes, Checking, Writing
  <2> QED BY <2>1, <2>2 DEF Typed
<1>4. CASE Kill(p)
  <2>1. TypeOK'
    BY <1>4, FaultAssumption DEF Kill, Fault, Typed, TypeOK, Resting
  <2>2. Placed'
    BY <1>4 DEF Kill, Running, Resting, Typed, TypeOK, Placed, PlaceOf, Changes, Checking, Writing
  <2> QED BY <2>1, <2>2 DEF Typed
<1> QED BY <1>1, <1>2, <1>3, <1>4

LEMMA InitTyped == Init => Typed
<1> SUFFICES ASSUME Init PROVE Typed
  OBVIOUS
<1> DEFINE c == CHOOSE x \in Commands : TRUE
<1>1. c \in Command
  BY CommandFields, CommandAssumption
<1> HIDE DEF c
<1>2. TypeOK
  <2>1. cmd \in [Proc -> Command]
    BY <1>1 DEF Init, c
  <2>2. left \in [Proc -> Seq(Name)] /\ buf \in [Proc -> Seq(Line)]
    BY DEF Init
  <2>3. file \in Content /\ backup = NoFile /\ tmp = NoFile /\ attached = {}
    BY FileAssumption DEF Init, Content
  <2>6. mixed \in BOOLEAN
    BY DEF Init
  <2>4. pc \in [Proc -> Steps \union Resting] /\ missing \in [Proc -> SUBSET Name]
    BY DEF Init, Resting
  <2>5. direct \in [Proc -> BOOLEAN] /\ solo \in [Proc -> BOOLEAN] /\ faults \in 0..MaxFaults
    BY FaultAssumption DEF Init
  <2> QED BY <2>1, <2>2, <2>3, <2>4, <2>5, <2>6 DEF TypeOK
<1>3. Placed
  BY DEF Init, Placed, PlaceOf, Changes, Checking, Writing
<1> QED BY <1>2, <1>3 DEF Typed

LEMMA StepTyped == Typed /\ [Next]_vars => Typed'
<1> SUFFICES ASSUME Typed, [Next]_vars PROVE Typed'
  OBVIOUS
<1>1. CASE UNCHANGED vars
  BY <1>1 DEF vars, Typed, TypeOK, Placed, PlaceOf, Changes
<1>2. CASE Next
  BY <1>2, LaunchTypes, EnsureTypes, WriteTypes, ReadTypes, OtherTypes DEF Next
<1> QED BY <1>1, <1>2

\* The hosts file is never missing, and all variables have their types.
THEOREM TypeCorrect == Spec => []TypeOK
<1>1. Spec => []Typed
  BY InitTyped, StepTyped, PTL DEF Spec
<1>2. Typed => TypeOK
  BY DEF Typed
<1> QED BY <1>1, <1>2, PTL


-----------------------------------------------------------------------------
(***************************************************************************)
(* What is written.                                                        *)
(***************************************************************************)

\* A command writes what it made of the file when it read it.
LEMMA WritingStays ==
  ASSUME Typed, [Next]_vars, NEW q \in Proc, pc'[q] \in Writing
  PROVE  /\ cmd'[q] = cmd[q]
         /\ \/ pc[q] \in Writing /\ buf'[q] = buf[q]
            \/ /\ pc[q] = "read" /\ file # Empty
               /\ buf'[q] = FormatHostsFile(Edited(q, file))
<1> USE DEF fileVars, runVars, checkVars, GoTo
<1>1. CASE UNCHANGED vars
  BY <1>1 DEF vars
<1>2. ASSUME NEW p \in Proc, Launch(p) PROVE pc[q] \in Writing /\ buf'[q] = buf[q] /\ cmd'[q] = cmd[q]
  <2>1. PICK c \in Commands : GoTo(p, FirstStep(c)) /\ cmd' = [cmd EXCEPT ![p] = c]
    BY <1>2 DEF Launch
  <2>2. c.kind \in {"set", "remove", "list", "backup", "restore", "ensure"}
    BY CommandFields
  <2>3. FirstStep(c) \notin Writing
    BY <2>2 DEF FirstStep, Writing
  <2> QED BY <1>2, <2>1, <2>3 DEF Launch, Typed, TypeOK
<1>3. ASSUME NEW p \in Proc, Ensure(p) \/ Kill(p) \/ ReadAndList(p) \/ BackupHostsFile(p) \/ RestoreHostsFile(p)
      PROVE  pc[q] \in Writing /\ buf'[q] = buf[q] /\ cmd'[q] = cmd[q]
  BY <1>3 DEF Ensure, CheckName, Checked, ChooseMode, Rechecked, Verify, AfterEnsure, Kill,
              ReadAndList, BackupHostsFile, RestoreHostsFile, Writing, Typed, TypeOK
<1>4. ASSUME NEW p \in Proc, Write(p)
      PROVE  pc[q] \in Writing /\ buf'[q] = buf[q] /\ cmd'[q] = cmd[q]
  BY <1>4 DEF Write, OpenHostsFile, WriteHostsFile, WriteFails, OpenTempFile, WriteTempFile,
              SudoCopies, SudoFails, RemoveTempFile, Recover, AfterWrite, Writing, Typed, TypeOK
<1>5. ASSUME NEW p \in Proc, ReadAndEdit(p)
      PROVE  /\ cmd'[q] = cmd[q]
             /\ \/ pc[q] \in Writing /\ buf'[q] = buf[q]
                \/ /\ pc[q] = "read" /\ file # Empty
                   /\ buf'[q] = FormatHostsFile(Edited(q, file))
  BY <1>5 DEF ReadAndEdit, Refused, AfterWrite, Writing, Typed, TypeOK
<1> QED BY <1>1, <1>2, <1>3, <1>4, <1>5 DEF Next

\* What a command writes is what it was asked for; what an ensure was asked for
\* it finds out when it looks again.
Made == \A p \in Proc : pc[p] \in Writing /\ cmd[p].kind # "ensure" => Shows(p, buf[p])

LEMMA InitMade == Init => Made
BY DEF Init, Made, Writing

LEMMA StepMade == Typed /\ Made /\ [Next]_vars => Made'
<1> SUFFICES ASSUME Typed, Made, [Next]_vars,
                    NEW q \in Proc, pc'[q] \in Writing, cmd'[q].kind # "ensure"
             PROVE  Shows(q, buf[q])'
  BY DEF Made
<1>1. cmd'[q] = cmd[q]
  BY WritingStays
<1>2. ASSUME Shows(q, buf'[q]) PROVE Shows(q, buf[q])'
  BY <1>1, <1>2 DEF Shows
<1>3. CASE pc[q] \in Writing /\ buf'[q] = buf[q]
  BY <1>1, <1>2, <1>3 DEF Made
<1>4. CASE /\ pc[q] = "read" /\ file # Empty
           /\ buf'[q] = FormatHostsFile(Edited(q, file))
  <2>1. Shows(q, Edited(q, file)) /\ Changes(q)
    BY <1>1, <1>4, ReadDoes
  <2>2. \A n : Lookup(buf'[q], n) = Lookup(Edited(q, file), n)
    BY <1>4, ReadDoes
  <2>3. Shows(q, buf'[q])
    BY <1>1, <2>1, <2>2 DEF Shows, Changes
  <2> QED BY <1>2, <2>3
<1> QED BY <1>3, <1>4, WritingStays

-----------------------------------------------------------------------------
(***************************************************************************)
(* Names that nobody asked to change.                                      *)
(***************************************************************************)

\* A name that nobody asked to change, and that is not one a cut line may have
\* made a host name.
Untouched(n) == ~Touched(n) /\ (mixed => Lookup(FirstFile, n) # {})

\* Wherever there is a file, the untouched names have their first address.
Keeps(content) ==
  content \in Seq(Line) =>
    \A n \in Name : Untouched(n) => Lookup(content, n) = Lookup(FirstFile, n)

KeptInv ==
  /\ Keeps(file) /\ Keeps(tmp) /\ Keeps(backup)
  /\ \A p \in Proc : pc[p] \in Writing => Keeps(buf[p])

\* A command that was started stays started, with the order it was given.
LEMMA StartedStays ==
  ASSUME Typed, [Next]_vars, NEW q \in Proc, pc[q] # "idle"
  PROVE  pc'[q] # "idle" /\ cmd'[q] = cmd[q]
<1> USE DEF fileVars, runVars, checkVars, GoTo
<1>1. CASE UNCHANGED vars
  BY <1>1 DEF vars
<1>2. ASSUME NEW p \in Proc, Launch(p) PROVE pc'[q] # "idle" /\ cmd'[q] = cmd[q]
  BY <1>2 DEF Launch, Typed, TypeOK
<1>3. ASSUME NEW p \in Proc, Ensure(p) \/ Kill(p) \/ ReadAndList(p) \/ BackupHostsFile(p) \/ RestoreHostsFile(p)
      PROVE  pc'[q] # "idle" /\ cmd'[q] = cmd[q]
  BY <1>3 DEF Ensure, CheckName, Checked, ChooseMode, Rechecked, Verify, AfterEnsure, Kill,
              ReadAndList, BackupHostsFile, RestoreHostsFile, Typed, TypeOK
<1>4. ASSUME NEW p \in Proc, Write(p) \/ ReadAndEdit(p)
      PROVE  pc'[q] # "idle" /\ cmd'[q] = cmd[q]
  BY <1>4 DEF Write, OpenHostsFile, WriteHostsFile, WriteFails, OpenTempFile, WriteTempFile,
              SudoCopies, SudoFails, RemoveTempFile, Recover, ReadAndEdit, AfterWrite, Typed, TypeOK
<1> QED BY <1>1, <1>2, <1>3, <1>4 DEF Next

\* Once writes have been mixed they stay so, and then both steps that write did it.
LEMMA MixedStays ==
  ASSUME Typed, [Next]_vars
  PROVE  mixed => mixed'
<1> USE DEF fileVars
<1>1. CASE UNCHANGED vars
  BY <1>1 DEF vars
<1>2. ASSUME NEW p \in Proc,
             \/ Launch(p) \/ Ensure(p) \/ Kill(p) \/ ReadAndList(p) \/ ReadAndEdit(p)
             \/ BackupHostsFile(p) \/ RestoreHostsFile(p)
      PROVE  mixed' = mixed
  BY <1>2 DEF Launch, Ensure, CheckName, Checked, ChooseMode, Rechecked, Verify, Kill,
              ReadAndList, ReadAndEdit, BackupHostsFile, RestoreHostsFile
<1>3. ASSUME NEW p \in Proc, Write(p), ~WriteHostsFile(p), ~WriteTempFile(p)
      PROVE  mixed' = mixed
  BY <1>3 DEF Write, OpenHostsFile, WriteFails, OpenTempFile, SudoCopies, SudoFails,
              RemoveTempFile, Recover
<1> QED BY <1>1, <1>2, <1>3, WriteHostsFileDoes, WriteTempFileDoes DEF Next

\* What is in a file has been in another one or was to be written.
LEMMA ContentComesFrom ==
  ASSUME Typed, [Next]_vars
  PROVE  /\ \/ file' \in {file, Empty, backup}
            \/ file' = tmp /\ tmp # NoFile
            \/ \E p \in Proc : pc[p] = "flush" /\ Overlays(file', buf[p], mixed')
         /\ \/ tmp' \in {tmp, Empty, NoFile}
            \/ \E p \in Proc : pc[p] = "tmpFlush" /\ Overlays(tmp', buf[p], mixed')
         /\ backup' \in {backup, file}
<1> USE DEF fileVars
<1>1. CASE UNCHANGED vars
  BY <1>1 DEF vars
<1>2. ASSUME NEW p \in Proc,
             \/ Launch(p) \/ Ensure(p) \/ Kill(p) \/ ReadAndList(p) \/ ReadAndEdit(p)
             \/ BackupHostsFile(p) \/ RestoreHostsFile(p)
      PROVE  file' \in {file, backup} /\ tmp' = tmp /\ backup' \in {backup, file}
  BY <1>2 DEF Launch, Ensure, CheckName, Checked, ChooseMode, Rechecked, Verify, Kill,
              ReadAndList, ReadAndEdit, BackupHostsFile, RestoreHostsFile
<1>3. ASSUME NEW p \in Proc, Write(p), ~WriteHostsFile(p), ~WriteTempFile(p)
      PROVE  /\ \/ file' \in {file, Empty, backup}
                \/ file' = tmp /\ tmp # NoFile
             /\ tmp' \in {tmp, Empty, NoFile}
             /\ backup' \in {backup, file}
  BY <1>3 DEF Write, OpenHostsFile, WriteFails, OpenTempFile, SudoCopies, SudoFails,
              RemoveTempFile, Recover
<1>4. ASSUME NEW p \in Proc, WriteHostsFile(p)
      PROVE  /\ pc[p] = "flush" /\ Overlays(file', buf[p], mixed')
             /\ tmp' = tmp /\ backup' = backup
  BY <1>4, WriteHostsFileDoes DEF WriteHostsFile
<1>5. ASSUME NEW p \in Proc, WriteTempFile(p)
      PROVE  /\ pc[p] = "tmpFlush" /\ (tmp' = tmp \/ Overlays(tmp', buf[p], mixed'))
             /\ file' = file /\ backup' = backup
  BY <1>5, WriteTempFileDoes DEF WriteTempFile
<1> QED BY <1>1, <1>2, <1>3, <1>4, <1>5 DEF Next

LEMMA InitKept == Init => KeptInv
<1> SUFFICES ASSUME Init PROVE KeptInv
  OBVIOUS
<1>1. file = FirstFile /\ tmp = NoFile /\ backup = NoFile /\ \A p \in Proc : pc[p] = "idle"
  BY DEF Init
<1> QED BY <1>1, ContentAssumption DEF KeptInv, Keeps, Writing

LEMMA StepKept == Typed /\ KeptInv /\ [Next]_vars => KeptInv'
<1> SUFFICES ASSUME Typed, KeptInv, [Next]_vars PROVE KeptInv'
  OBVIOUS
<1>1. /\ \A n \in Name : Touched(n) => Touched(n)'
      /\ \A n \in Name : Untouched(n)' => Untouched(n)
  <2>1. ASSUME NEW n \in Name, Touched(n) PROVE Touched(n)'
    BY <2>1, StartedStays DEF Touched, Changes
  <2> QED BY <2>1, MixedStays DEF Untouched
\* The files before the step are files that keep what is untouched after it.
<1> DEFINE Good(content) ==
      content \in Seq(Line) =>
        \A n \in Name : Untouched(n)' => Lookup(content, n) = Lookup(FirstFile, n)
<1>2. ASSUME NEW content, Keeps(content) PROVE Good(content)
  BY <1>1, <1>2 DEF Keeps
<1>3. Good(file) /\ Good(tmp) /\ Good(backup) /\ Good(Empty) /\ Good(NoFile)
  <2>1. Keeps(file) /\ Keeps(tmp) /\ Keeps(backup) /\ Keeps(Empty) /\ Keeps(NoFile)
    BY ContentAssumption DEF KeptInv, Keeps
  <2> QED BY <1>2, <2>1
<1>4. ASSUME NEW p \in Proc, pc[p] \in Writing PROVE Good(buf[p])
  BY <1>2, <1>4 DEF KeptInv
<1>5. Good(file') /\ Good(tmp') /\ Good(backup')
  <2> HIDE DEF Good
  <2>1. \A p \in Proc : pc[p] \in {"flush", "tmpFlush"} => Good(buf[p]) /\ buf[p] \in Seq(Line)
    BY <1>4 DEF Writing, Typed, TypeOK
  <2>2. ASSUME NEW b \in Seq(Line), Good(b), NEW content, Overlays(content, b, mixed')
        PROVE  Good(content)
    <3>1. PICK rest \in Seq(Line) : content = b \o rest /\ (rest # << >> => mixed')
      BY <2>2 DEF Overlays
    <3>2. CASE rest = << >>
      BY <2>2, <3>1, <3>2, OverlayOf
    <3>3. CASE rest # << >>
      <4>1. ASSUME NEW n \in Name, Untouched(n)' PROVE Lookup(content, n) = Lookup(FirstFile, n)
        <5>1. Lookup(FirstFile, n) # {}
          BY <3>1, <3>3, <4>1 DEF Untouched
        <5>2. Lookup(b, n) = Lookup(FirstFile, n)
          BY <2>2, <4>1 DEF Good
        <5> QED BY <3>1, <5>1, <5>2, FrontWins
      <4> QED BY <4>1 DEF Good
    <3> QED BY <3>2, <3>3
  <2> QED BY <1>3, <2>1, <2>2, ContentComesFrom
<1>6. ASSUME NEW q \in Proc, pc'[q] \in Writing PROVE Good(buf'[q])
  <2>1. CASE pc[q] \in Writing /\ buf'[q] = buf[q]
    BY <1>4, <2>1
  <2>2. CASE /\ pc[q] = "read" /\ file # Empty
             /\ buf'[q] = FormatHostsFile(Edited(q, file))
    <3>1. Changes(q) /\ file \in Seq(Line)
      BY <2>2, ReadDoes
    <3>2. ASSUME NEW n \in Name, Untouched(n)' PROVE n \notin ToSet(cmd[q].names)
      <4>1. pc[q] # "idle"
        BY <2>2
      <4> QED BY <1>1, <3>1, <3>2, <4>1 DEF Touched, Untouched
    <3>3. ASSUME NEW n \in Name, Untouched(n)' PROVE Lookup(buf'[q], n) = Lookup(FirstFile, n)
      <4>1. Lookup(buf'[q], n) = Lookup(Edited(q, file), n)
        BY <2>2, ReadDoes
      <4>2. Lookup(Edited(q, file), n) = Lookup(file, n)
        BY <2>2, <3>2, <3>3, ReadDoes
      <4>3. Lookup(file, n) = Lookup(FirstFile, n)
        BY <1>3, <3>1, <3>3
      <4> QED BY <4>1, <4>2, <4>3
    <3> QED BY <3>3
  <2> QED BY <1>6, <2>1, <2>2, WritingStays
<1> QED BY <1>5, <1>6 DEF KeptInv, Keeps


-----------------------------------------------------------------------------
(***************************************************************************)
(* Who has written what is in the files, as long as nothing fails.         *)
(***************************************************************************)

Smooth == ~RestoreUsed /\ \A p \in Proc : pc[p] \notin {"recover", "failed"}

Found(c, content, n) ==
  IF c.ports THEN Resolve(content, n) = {LoopbackIp} ELSE Resolve(content, n) # {}

\* Of every name an ensure has looked for it knows whether it was there.
Knows(p, content) ==
  /\ cmd[p].kind = "ensure" /\ pc[p] \in Checking \union {"done"} =>
       \A n \in ToSet(cmd[p].names) :
         n \in ToSet(left[p]) \/ n \in missing[p] \/ Found(cmd[p], content, n)
  /\ Changes(p) /\ cmd[p].kind # "ensure" /\ pc[p] = "done" => Shows(p, content)

\* What a command wrote shows through the end of another text behind it, but not
\* that it removed a name.
Clear == mixed => ~RemoveUsed

\* Nobody has written the file yet.
Unwritten == file = FirstFile /\ \A p \in Proc : pc[p] # "rm" /\ Knows(p, file)

\* The file begins with what command p made of it; if it has looked at it since, it knows.
WrittenBy(p) ==
  /\ Overlays(file, buf[p], mixed) /\ Knows(p, file) /\ Changes(p)
  /\ pc[p] \in {"sudo", "rm", "recheck", "verify", "done"}
  /\ pc[p] \in {"verify", "done"} => missing[p] = {}
  /\ cmd[p].kind # "ensure" => Shows(p, buf[p])

\* The temporary file is going to be written or is there to be copied.
TmpSettled ==
  /\ tmp = Empty => attached # {}
  /\ tmp \in Seq(Line) =>
       \E p \in Proc : pc[p] \in {"sudo", "rm"} /\ Overlays(tmp, buf[p], mixed)

\* A file that is empty is going to be written.
Awaited == file = Empty => \E p \in Proc : pc[p] \in {"flush", "tmpOpen", "tmpFlush", "sudo"}

\* One that is not is the first one or has been made by one command.
Authored == file # Empty /\ Clear => Unwritten \/ \E p \in Proc : WrittenBy(p)

Settled == TmpSettled /\ Awaited /\ Authored

SettledInv == Smooth => Settled

\* Everything this command is about is as before.
Same(q) == /\ pc'[q] = pc[q] /\ cmd'[q] = cmd[q] /\ left'[q] = left[q]
           /\ missing'[q] = missing[q] /\ buf'[q] = buf[q]

LEMMA SmoothStays ==
  ASSUME Typed, [Next]_vars, Smooth'
  PROVE  Smooth
<1> USE DEF fileVars, runVars, checkVars, GoTo
<1>1. ASSUME NEW q \in Proc, pc[q] \in {"recover", "failed"} PROVE FALSE
  <2>1. pc'[q] \in {"recover", "failed"}
    <3>1. CASE UNCHANGED vars
      BY <1>1, <3>1 DEF vars
    <3>2. ASSUME NEW p \in Proc,
                 \/ Launch(p) \/ Ensure(p) \/ Kill(p) \/ ReadAndList(p)
                 \/ BackupHostsFile(p) \/ RestoreHostsFile(p)
          PROVE  pc'[q] \in {"recover", "failed"}
      BY <1>1, <3>2 DEF Launch, Ensure, CheckName, Checked, ChooseMode, Rechecked, Verify, Kill,
              ReadAndList, BackupHostsFile, RestoreHostsFile, Typed, TypeOK
    <3>3. ASSUME NEW p \in Proc, Write(p) \/ ReadAndEdit(p)
          PROVE  pc'[q] \in {"recover", "failed"}
      BY <1>1, <3>3 DEF Write, OpenHostsFile, WriteHostsFile, WriteFails, OpenTempFile,
              WriteTempFile, SudoCopies, SudoFails, RemoveTempFile, Recover, ReadAndEdit,
              AfterWrite, Typed, TypeOK
    <3> QED BY <3>1, <3>2, <3>3 DEF Next
  <2> QED BY <2>1 DEF Smooth
<1>2. ~RestoreUsed
  BY StartedStays DEF Smooth, RestoreUsed
<1> QED BY <1>1, <1>2 DEF Smooth

\* What is clear was so before: mixtures stay, and so do commands.
LEMMA ClearStays ==
  ASSUME Typed, [Next]_vars
  PROVE  Clear' => Clear
<1>1. RemoveUsed => RemoveUsed'
  BY StartedStays DEF RemoveUsed
<1> QED BY <1>1, MixedStays DEF Clear

LEMMA OverlayStays ==
  ASSUME NEW content, NEW b, NEW m, NEW k, Overlays(content, b, m), m => k
  PROVE  Overlays(content, b, k)
BY DEF Overlays

\* What a command was asked for is shown by what lies over the end of another text.
LEMMA OverlayShows ==
  ASSUME Typed, NEW p \in Proc, Changes(p), cmd[p].kind # "ensure", pc[p] # "idle",
         NEW content, NEW b \in Seq(Line), NEW m, Overlays(content, b, m),
         m => ~RemoveUsed, Shows(p, b)
  PROVE  Shows(p, content)
<1>1. PICK rest \in Seq(Line) : content = b \o rest /\ (rest # << >> => m)
  BY DEF Overlays
<1>2. CASE cmd[p].kind = "set"
  <2>1. Lookup(b, cmd[p].names[1]) = {cmd[p].ip}
    BY <1>2 DEF Shows
  <2>2. Lookup(content, cmd[p].names[1]) = {cmd[p].ip}
    BY <1>1, <2>1, FrontWins
  <2> QED BY <1>2, <2>2 DEF Shows
<1>3. CASE cmd[p].kind = "remove"
  <2>1. rest = << >>
    BY <1>1, <1>3 DEF RemoveUsed
  <2>2. content = b
    BY <1>1, <2>1, OverlayOf
  <2> QED BY <2>2
<1> QED BY <1>2, <1>3 DEF Changes

\* A step of one command that leaves the hosts file alone.
LEMMA AuthoredStays ==
  ASSUME Authored, NEW p \in Proc, \A q \in Proc \ {p} : Same(q), file' = file,
         mixed => mixed', Clear' => Clear,
         pc'[p] = "rm" => pc[p] = "rm",
         Knows(p, file) => Knows(p, file)',
         WrittenBy(p) => WrittenBy(p)'
  PROVE  Authored'
<1>1. ASSUME NEW q \in Proc, Knows(q, file) PROVE Knows(q, file)'
  <2>1. CASE q = p
    BY <1>1, <2>1
  <2>2. CASE q # p
    BY <1>1, <2>2 DEF Knows, Same, Changes, Shows, Checking
  <2> QED BY <2>1, <2>2
<1>2. Unwritten => Unwritten'
  <2>1. \A q \in Proc : pc'[q] = "rm" => pc[q] = "rm"
    BY DEF Same
  <2> QED BY <1>1, <2>1 DEF Unwritten
<1>3. ASSUME NEW q \in Proc, WrittenBy(q) PROVE WrittenBy(q)'
  <2>1. CASE q = p
    BY <1>3, <2>1
  <2>2. CASE q # p
    <3>1. Same(q) /\ Knows(q, file)'
      BY <1>1, <1>3, <2>2 DEF WrittenBy
    <3>2. Overlays(file, buf[q], mixed)'
      BY <1>3, <3>1, OverlayStays DEF WrittenBy, Same
    <3> QED BY <1>3, <3>1, <3>2 DEF WrittenBy, Same, Changes, Shows
  <2> QED BY <2>1, <2>2
<1> QED BY <1>2, <1>3 DEF Authored

\* A step of one command that leaves all files alone.
LEMMA SettledStays ==
  ASSUME Settled, NEW p \in Proc, \A q \in Proc \ {p} : Same(q),
         file' = file, tmp' = tmp, attached' = attached, mixed' = mixed, Clear' => Clear,
         pc[p] \notin {"sudo", "rm"}, pc'[p] # "rm",
         pc[p] \in {"flush", "tmpOpen", "tmpFlush"} => pc'[p] \in {"tmpOpen", "tmpFlush"},
         Knows(p, file) => Knows(p, file)',
         WrittenBy(p) => WrittenBy(p)'
  PROVE  Settled'
<1>1. TmpSettled'
  BY DEF Settled, TmpSettled, Same
<1>2. Awaited'
  BY DEF Settled, Awaited, Same
<1>3. Authored'
  BY AuthoredStays DEF Settled
<1> QED BY <1>1, <1>2, <1>3 DEF Settled


LEMMA LaunchSettled ==
  ASSUME Typed, Settled, NEW p \in Proc, Launch(p), Clear' => Clear
  PROVE  Settled'
<1>1. PICK c \in Commands :
        /\ GoTo(p, FirstStep(c))
        /\ cmd' = [cmd EXCEPT ![p] = c]
        /\ left' = [left EXCEPT ![p] = IF c.kind = "ensure" THEN c.names ELSE << >>]
  BY DEF Launch
<1>2. /\ pc[p] = "idle" /\ UNCHANGED <<fileVars, missing, buf>>
      /\ pc' = [pc EXCEPT ![p] = FirstStep(c)]
  BY <1>1 DEF Launch, GoTo
<1>3. c.kind \in {"set", "remove", "list", "backup", "restore", "ensure"}
  BY CommandFields
<1>4. FirstStep(c) = IF c.kind = "ensure" THEN "check"
                     ELSE IF c.kind \in {"set", "remove"} THEN "read" ELSE c.kind
  BY <1>3 DEF FirstStep
<1>5. \A q \in Proc \ {p} : Same(q)
  BY <1>1, <1>2 DEF Same, Typed, TypeOK
<1>6. /\ pc'[p] \in {"check", "read", "list", "backup", "restore"}
      /\ cmd'[p].kind = "ensure" => left'[p] = cmd'[p].names
  BY <1>1, <1>2, <1>3, <1>4 DEF Typed, TypeOK
<1>7. Knows(p, file)'
  BY <1>6 DEF Knows, Checking
<1>8. ~WrittenBy(p)
  BY <1>2 DEF WrittenBy
<1> QED BY <1>2, <1>5, <1>6, <1>7, <1>8, SettledStays DEF fileVars

\* A name that is tried is found missing or is there.
LEMMA CheckNameKnows ==
  ASSUME Typed, NEW p \in Proc, CheckName(p), Knows(p, file)
  PROVE  Knows(p, file)'
<1> DEFINE n == Head(left[p])
<1>1. /\ pc[p] \in {"check", "recheck"} /\ left[p] # << >>
      /\ pc' = pc /\ cmd' = cmd /\ file' = file
      /\ left'[p] = Tail(left[p])
      /\ missing'[p] = IF NeedsEntry(cmd[p], n) THEN missing[p] \union {n} ELSE missing[p]
  BY DEF CheckName, fileVars, runVars, Typed, TypeOK
<1>2. cmd[p].kind = "ensure"
  BY <1>1 DEF Typed, Placed, PlaceOf, Checking
<1>3. ToSet(left[p]) = {n} \union ToSet(Tail(left[p]))
  <2>1. left[p] \in Seq(Name)
    BY DEF Typed, TypeOK
  <2>2. \A s \in Seq(Name) : s # << >> => ToSet(s) = {Head(s)} \union ToSet(Tail(s))
    <3> SUFFICES ASSUME NEW s \in Seq(Name), s # << >>
                 PROVE  ToSet(s) = {Head(s)} \union ToSet(Tail(s))
      OBVIOUS
    <3>1. /\ Len(s) \in Nat /\ Len(s) >= 1 /\ DOMAIN s = 1..Len(s) /\ Head(s) = s[1]
          /\ DOMAIN Tail(s) = 1..(Len(s)-1) /\ \A k \in 1..(Len(s)-1) : Tail(s)[k] = s[k+1]
      OBVIOUS
    <3>2. ASSUME NEW k \in 1..Len(s) PROVE s[k] = s[1] \/ \E j \in 1..(Len(s)-1) : Tail(s)[j] = s[k]
      <4>1. CASE k # 1
        <5>1. k - 1 \in 1..(Len(s)-1) /\ (k - 1) + 1 = k
          BY <3>1, <4>1
        <5>2. Tail(s)[k-1] = s[k]
          BY <3>1, <5>1
        <5> QED BY <5>1, <5>2
      <4> QED BY <4>1
    <3>3. \A j \in 1..(Len(s)-1) : j + 1 \in 1..Len(s)
      BY <3>1
    <3>4. 1 \in 1..Len(s)
      BY <3>1
    <3>5. /\ ToSet(s) = {s[k] : k \in 1..Len(s)}
          /\ ToSet(Tail(s)) = {Tail(s)[j] : j \in 1..(Len(s)-1)}
      BY <3>1 DEF ToSet
    <3>6. \A x \in ToSet(s) : x = Head(s) \/ x \in ToSet(Tail(s))
      BY <3>1, <3>2, <3>5
    <3>7. \A x \in ToSet(Tail(s)) : x \in ToSet(s)
      BY <3>1, <3>3, <3>5
    <3>8. Head(s) \in ToSet(s)
      BY <3>1, <3>4, <3>5
    <3> QED BY <3>6, <3>7, <3>8
  <2> QED BY <1>1, <2>1, <2>2
<1>4. ~NeedsEntry(cmd[p], n) => Found(cmd[p], file, n)
  BY DEF NeedsEntry, CanReachTcpPort, Found
<1> HIDE DEF n
<1>5. \A m \in ToSet(cmd[p].names) :
        m \in ToSet(left'[p]) \/ m \in missing'[p] \/ Found(cmd[p], file, m)
  <2>1. \A m \in ToSet(cmd[p].names) :
          m \in ToSet(left[p]) \/ m \in missing[p] \/ Found(cmd[p], file, m)
    BY <1>1, <1>2 DEF Knows, Checking
  <2> QED BY <1>1, <1>3, <1>4, <2>1
<1> QED BY <1>1, <1>2, <1>5 DEF Knows

LEMMA EnsureKnows ==
  ASSUME Typed, NEW p \in Proc, Ensure(p), Knows(p, file)
  PROVE  Knows(p, file)'
<1>1. CASE CheckName(p)
  BY <1>1, CheckNameKnows
<1>2. CASE Checked(p) \/ ChooseMode(p) \/ Rechecked(p) \/ Verify(p)
  <2>1. /\ pc[p] \in Checking /\ file' = file /\ UNCHANGED <<cmd, left, missing>>
    BY <1>2 DEF Checked, ChooseMode, Rechecked, Verify, Checking, fileVars, checkVars, runVars
  <2>2. cmd[p].kind = "ensure"
    BY <2>1 DEF Typed, Placed, PlaceOf
  <2> QED BY <2>1, <2>2 DEF Knows, Found
<1> QED BY <1>1, <1>2 DEF Ensure

LEMMA EnsureSettled ==
  ASSUME Typed, Settled, NEW p \in Proc, Ensure(p), Smooth', Clear' => Clear
  PROVE  Settled'
<1> USE DEF fileVars, runVars, checkVars, GoTo
<1>1. \A q \in Proc \ {p} : Same(q)
  BY DEF Ensure, CheckName, Checked, ChooseMode, Rechecked, Verify, Same, Typed, TypeOK
<1>2. /\ UNCHANGED <<file, tmp, attached, mixed, cmd, buf>>
      /\ pc[p] \in {"check", "choose", "recheck", "verify"}
  BY DEF Ensure, CheckName, Checked, ChooseMode, Rechecked, Verify
<1>3. pc'[p] \in {"check", "choose", "recheck", "verify", "read", "done"}
  <2>1. pc'[p] \in {"check", "choose", "recheck", "verify", "read", "done", "failed"}
    BY <1>2 DEF Ensure, CheckName, Checked, ChooseMode, Rechecked, Verify, AfterEnsure, Typed, TypeOK
  <2> QED BY <2>1 DEF Smooth
<1>4. Knows(p, file) => Knows(p, file)'
  BY EnsureKnows
<1>5. WrittenBy(p) => WrittenBy(p)'
  <2> SUFFICES ASSUME WrittenBy(p) PROVE WrittenBy(p)'
    OBVIOUS
  <2>1. pc[p] \in {"recheck", "verify"}
    BY <1>2 DEF WrittenBy
  <2>2. pc'[p] \in {"recheck", "verify", "done"}
    BY <2>1, <1>3 DEF Ensure, CheckName, Checked, ChooseMode, Rechecked, Verify, AfterEnsure, Typed, TypeOK
  <2>3. pc'[p] \in {"verify", "done"} => missing'[p] = {}
    BY <2>1, <2>2 DEF Ensure, CheckName, Checked, ChooseMode, Rechecked, Verify, WrittenBy, Smooth, Typed, TypeOK
  <2>4. Knows(p, file)' /\ Changes(p)'
    BY <1>2, <1>4 DEF WrittenBy, Changes
  <2>5. cmd'[p].kind # "ensure" => Shows(p, buf[p])'
    BY <1>2 DEF WrittenBy, Shows
  <2>6. Overlays(file, buf[p], mixed)'
    BY <1>2 DEF WrittenBy
  <2> QED BY <2>2, <2>3, <2>4, <2>5, <2>6 DEF WrittenBy
<1> QED BY <1>1, <1>2, <1>3, <1>4, <1>5, SettledStays

\* Without a failure the commands that only read the hosts file change nothing of this.
LEMMA OtherSettled ==
  ASSUME Typed, Settled, NEW p \in Proc, Smooth', Clear' => Clear,
         ReadAndList(p) \/ BackupHostsFile(p) \/ RestoreHostsFile(p) \/ Kill(p)
  PROVE  Settled'
<1> USE DEF fileVars, runVars, checkVars, GoTo
<1>1. CASE Kill(p)
  <2>1. pc'[p] = "failed"
    BY <1>1 DEF Kill, Typed, TypeOK
  <2> QED BY <2>1 DEF Smooth
<1>2. CASE RestoreHostsFile(p)
  <2>1. cmd[p].kind = "restore" /\ cmd' = cmd /\ pc'[p] \in {"done", "failed"}
    BY <1>2 DEF RestoreHostsFile, Typed, TypeOK, Placed, PlaceOf
  <2> QED BY <2>1 DEF Smooth, RestoreUsed
<1>3. CASE ReadAndList(p) \/ BackupHostsFile(p)
  <2>1. /\ pc[p] \in {"list", "backup"} /\ pc'[p] \in {"done", "failed"}
        /\ UNCHANGED <<file, tmp, attached, mixed, cmd, left, missing, buf>>
        /\ \A q \in Proc \ {p} : Same(q)
    BY <1>3 DEF ReadAndList, BackupHostsFile, Same, Typed, TypeOK
  <2>2. cmd[p].kind \in {"list", "backup"}
    BY <2>1 DEF Typed, Placed, PlaceOf
  <2>3. Knows(p, file)'
    BY <2>1, <2>2 DEF Knows, Changes
  <2>4. ~WrittenBy(p)
    BY <2>1 DEF WrittenBy
  <2> QED BY <2>1, <2>3, <2>4, SettledStays
<1> QED BY <1>1, <1>2, <1>3

\* What a command knows when it has written, or found that it need not.
LEMMA AfterWriteKnows ==
  ASSUME Typed, NEW p \in Proc, AfterWrite(p), UNCHANGED cmd, Changes(p)
  PROVE  /\ Changes(p)' /\ ((cmd[p].kind # "ensure" => Shows(p, file')) => Knows(p, file)')
         /\ pc'[p] \in {"recheck", "done"}
         /\ pc'[p] = "done" => missing'[p] = {}
         /\ cmd'[p].kind = "ensure" => pc'[p] = "recheck"
         /\ \A q \in Proc \ {p} : /\ pc'[q] = pc[q] /\ cmd'[q] = cmd[q] /\ left'[q] = left[q]
                                  /\ missing'[q] = missing[q]
<1>1. CASE cmd[p].kind = "ensure"
  <2>1. /\ pc' = [pc EXCEPT ![p] = "recheck"]
        /\ left' = [left EXCEPT ![p] = cmd[p].names]
        /\ missing' = [missing EXCEPT ![p] = {}]
    BY <1>1 DEF AfterWrite, GoTo
  <2> QED BY <1>1, <2>1 DEF Typed, TypeOK, Knows, Changes
<1>2. CASE cmd[p].kind # "ensure"
  <2>1. pc' = [pc EXCEPT ![p] = "done"] /\ left' = left /\ missing' = missing
    BY <1>2 DEF AfterWrite, GoTo, checkVars
  <2>2. missing[p] = {}
    BY <1>2 DEF Typed, Placed, PlaceOf
  <2>3. Shows(p, file') => Knows(p, file)'
    BY <1>2 DEF Knows, Shows
  <2> QED BY <1>2, <2>1, <2>2, <2>3 DEF Typed, TypeOK, Changes
<1> QED BY <1>1, <1>2

LEMMA ReadSettled ==
  ASSUME Typed, Settled, NEW p \in Proc, ReadAndEdit(p), Smooth', Clear' => Clear
  PROVE  Settled'
<1>1. pc[p] = "read" /\ UNCHANGED <<fileVars, cmd>>
  BY DEF ReadAndEdit, runVars
<1>2. ~WrittenBy(p)
  BY <1>1 DEF WrittenBy
<1>3. CASE file = Empty
  <2>1. pc'[p] = "failed"
    BY <1>3 DEF ReadAndEdit, Refused, GoTo, Typed, TypeOK
  <2> QED BY <2>1 DEF Smooth
<1>4. CASE file # Empty /\ Edited(p, file) = file
  <2>1. AfterWrite(p) /\ UNCHANGED buf
    BY <1>4 DEF ReadAndEdit, Refused
  <2>2. Changes(p) /\ (cmd[p].kind # "ensure" => Shows(p, file))
    BY <1>1, <1>4, ReadDoes
  <2>3. /\ Knows(p, file)' /\ pc'[p] \in {"recheck", "done"}
        /\ \A q \in Proc \ {p} : /\ pc'[q] = pc[q] /\ cmd'[q] = cmd[q] /\ left'[q] = left[q]
                                 /\ missing'[q] = missing[q]
    BY <1>1, <2>1, <2>2, AfterWriteKnows DEF fileVars
  <2>4. \A q \in Proc \ {p} : Same(q)
    BY <2>1, <2>3 DEF Same
  <2> QED BY <1>1, <1>2, <2>3, <2>4, SettledStays DEF fileVars
<1>5. CASE file # Empty /\ Edited(p, file) # file
  <2>1. /\ \E b : buf' = [buf EXCEPT ![p] = b]
        /\ pc' = [pc EXCEPT ![p] = IF direct[p] THEN "open" ELSE "tmpOpen"]
        /\ UNCHANGED checkVars
    BY <1>5 DEF ReadAndEdit, Refused, GoTo
  <2>2. pc'[p] \in {"open", "tmpOpen"} /\ \A q \in Proc \ {p} : Same(q)
    BY <1>1, <2>1 DEF Same, checkVars, Typed, TypeOK
  <2>3. Knows(p, file)'
    BY <2>2 DEF Knows, Checking
  <2> QED BY <1>1, <1>2, <2>2, <2>3, SettledStays DEF fileVars
<1> QED BY <1>3, <1>4, <1>5


LEMMA OpenHostsFileSettled ==
  ASSUME Typed, Settled, NEW p \in Proc, OpenHostsFile(p)
  PROVE  Settled'
<1>1. /\ pc[p] = "open" /\ pc' = [pc EXCEPT ![p] = "flush"] /\ file' = Empty
      /\ UNCHANGED <<tmp, attached, mixed, buf>>
  BY DEF OpenHostsFile, GoTo
<1>2. pc'[p] = "flush" /\ \A q \in Proc : pc[q] \in {"sudo", "rm"} => pc'[q] = pc[q]
  BY <1>1 DEF Typed, TypeOK
<1>3. TmpSettled'
  BY <1>1, <1>2 DEF Settled, TmpSettled
<1>4. Awaited'
  BY <1>2 DEF Awaited
<1>5. Authored'
  BY <1>1 DEF Authored
<1> QED BY <1>3, <1>4, <1>5 DEF Settled

LEMMA WriteHostsFileSettled ==
  ASSUME Typed, Made, Settled, NEW p \in Proc, WriteHostsFile(p)
  PROVE  Settled'
<1>1. /\ pc[p] = "flush" /\ AfterWrite(p) /\ UNCHANGED <<tmp, attached, buf, cmd>>
      /\ file' \in Seq(Line) /\ buf[p] \in Seq(Line) /\ (mixed => mixed')
      /\ Overlays(file', buf[p], mixed')
  BY WriteHostsFileDoes DEF WriteHostsFile, runVars
<1>2. /\ Changes(p) /\ (cmd[p].kind # "ensure" => Shows(p, buf[p]))
      /\ pc[p] # "idle"
  BY <1>1 DEF Typed, Placed, PlaceOf, Writing, Made
<1>3. /\ (cmd[p].kind # "ensure" => Shows(p, file')) => Knows(p, file)'
      /\ Changes(p)'
      /\ pc'[p] \in {"recheck", "done"}
      /\ pc'[p] = "done" => missing'[p] = {}
      /\ \A q \in Proc \ {p} : pc'[q] = pc[q]
  BY <1>1, <1>2, AfterWriteKnows
<1>4. TmpSettled'
  <2>1. \A q \in Proc : pc[q] \in {"sudo", "rm"} => pc'[q] = pc[q]
    BY <1>1, <1>3
  <2>2. ASSUME NEW q \in Proc, pc[q] \in {"sudo", "rm"}, Overlays(tmp, buf[q], mixed)
        PROVE  pc'[q] \in {"sudo", "rm"} /\ Overlays(tmp, buf[q], mixed)'
    BY <1>1, <2>1, <2>2, OverlayStays
  <2> QED BY <1>1, <2>2 DEF Settled, TmpSettled
<1>5. Awaited'
  BY <1>1, ContentAssumption DEF Awaited
<1>6. ASSUME Clear' PROVE WrittenBy(p)'
  <2>1. cmd'[p].kind # "ensure" => Shows(p, buf[p])'
    BY <1>1, <1>2 DEF Shows
  <2>2. Overlays(file, buf[p], mixed)'
    BY <1>1
  <2>3. mixed' => ~RemoveUsed
    <3>1. \A q \in Proc : pc[q] # "idle" => pc'[q] # "idle" /\ cmd'[q] = cmd[q]
      BY <1>1, <1>3
    <3> QED BY <1>6, <3>1 DEF Clear, RemoveUsed
  <2>4. cmd[p].kind # "ensure" => Shows(p, file')
    BY <1>1, <1>2, <2>3, OverlayShows
  <2> QED BY <1>3, <2>1, <2>2, <2>4 DEF WrittenBy
<1> QED BY <1>4, <1>5, <1>6 DEF Settled, Authored

\* What is so of the steps that open or write the temporary file, or begin to.
LEMMA TempWriterAuthored ==
  ASSUME Typed, Authored, NEW p \in Proc,
         pc[p] \in {"flush", "tmpOpen", "tmpFlush"},
         pc'[p] \in {"tmpOpen", "tmpFlush", "sudo"},
         \A q \in Proc \ {p} : Same(q), file' = file, mixed => mixed', Clear' => Clear
  PROVE  Authored'
<1>1. Knows(p, file)'
  BY DEF Knows, Checking
<1>2. ~WrittenBy(p)
  BY DEF WrittenBy
<1> QED BY <1>1, <1>2, AuthoredStays

LEMMA WriteFailsSettled ==
  ASSUME Typed, Settled, NEW p \in Proc, WriteFails(p), Clear' => Clear
  PROVE  Settled'
<1>1. /\ pc[p] = "flush" /\ pc'[p] = "tmpOpen"
      /\ UNCHANGED <<file, tmp, attached, mixed>> /\ \A q \in Proc \ {p} : Same(q)
  BY DEF WriteFails, GoTo, fileVars, checkVars, runVars, Same, Typed, TypeOK
<1>2. Knows(p, file)' /\ ~WrittenBy(p)
  BY <1>1 DEF Knows, Checking, WrittenBy
<1> QED BY <1>1, <1>2, SettledStays

LEMMA OpenTempFileSettled ==
  ASSUME Typed, Settled, NEW p \in Proc, OpenTempFile(p), Clear' => Clear
  PROVE  Settled'
<1>1. /\ pc[p] = "tmpOpen" /\ pc'[p] = "tmpFlush" /\ file' = file /\ mixed' = mixed
      /\ tmp' = Empty /\ attached' = attached \union {p} /\ \A q \in Proc \ {p} : Same(q)
  BY DEF OpenTempFile, GoTo, checkVars, runVars, Same, Typed, TypeOK
<1>2. TmpSettled'
  BY <1>1, ContentAssumption DEF TmpSettled
<1>3. Awaited'
  BY <1>1 DEF Awaited
<1>4. Authored'
  BY <1>1, TempWriterAuthored DEF Settled
<1> QED BY <1>2, <1>3, <1>4 DEF Settled

LEMMA WriteTempFileSettled ==
  ASSUME Typed, Settled, NEW p \in Proc, WriteTempFile(p), Clear' => Clear
  PROVE  Settled'
<1>1. /\ pc[p] = "tmpFlush" /\ pc'[p] = "sudo" /\ file' = file /\ buf' = buf
      /\ attached' = attached \ {p} /\ (mixed => mixed') /\ buf[p] \in Seq(Line)
      /\ \A q \in Proc \ {p} : Same(q)
  BY WriteTempFileDoes DEF WriteTempFile, GoTo, checkVars, runVars, Same, Typed, TypeOK
<1>3. TmpSettled'
  <2>1. CASE p \in attached
    <3>1. tmp' \in Seq(Line) /\ tmp' # Empty /\ Overlays(tmp', buf[p], mixed')
      BY <2>1, WriteTempFileDoes, ContentAssumption
    <3> QED BY <1>1, <3>1 DEF TmpSettled
  <2>2. CASE p \notin attached
    <3>1. tmp' = tmp /\ attached' = attached /\ mixed' = mixed
      BY <1>1, <2>2, WriteTempFileDoes
    <3> QED BY <1>1, <3>1 DEF Settled, TmpSettled, Same
  <2> QED BY <2>1, <2>2
<1>4. Awaited'
  BY <1>1 DEF Awaited
<1>5. Authored'
  BY <1>1, TempWriterAuthored DEF Settled
<1> QED BY <1>3, <1>4, <1>5 DEF Settled

\* Whoever copies the temporary file, the hosts file is what one command made, or
\* some command is still to write.
LEMMA SudoCopiesSettled ==
  ASSUME Typed, Made, Settled, NEW p \in Proc, SudoCopies(p), Clear' => Clear
  PROVE  Settled'
<1>1. /\ pc[p] = "sudo" /\ tmp # NoFile /\ file' = tmp
      /\ pc' = [pc EXCEPT ![p] = "rm"]
      /\ UNCHANGED <<tmp, attached, mixed, cmd, left, missing, buf>>
  BY DEF SudoCopies, GoTo, checkVars, runVars
<1>2. pc'[p] = "rm" /\ \A q \in Proc \ {p} : pc'[q] = pc[q]
  BY <1>1 DEF Typed, TypeOK
<1>3. TmpSettled'
  <2>1. ASSUME NEW q \in Proc, pc[q] \in {"sudo", "rm"} PROVE pc'[q] \in {"sudo", "rm"}
    BY <1>2, <2>1
  <2>2. UNCHANGED <<tmp, attached, mixed, buf>>
    BY <1>1
  <2> QED BY <2>1, <2>2 DEF Settled, TmpSettled
<1>4. Awaited'
  <2> SUFFICES ASSUME tmp = Empty PROVE \E q \in Proc : pc'[q] = "tmpFlush"
    BY <1>1 DEF Awaited
  <2>1. PICK q \in attached : pc[q] = "tmpFlush"
    BY DEF Settled, TmpSettled, Typed, Placed
  <2>2. q \in Proc /\ q # p
    BY <1>1, <2>1 DEF Typed, TypeOK
  <2> QED BY <1>2, <2>1, <2>2
<1>5. Authored'
  <2> SUFFICES ASSUME tmp # Empty PROVE \E q \in Proc : WrittenBy(q)'
    BY <1>1 DEF Authored
  <2>1. tmp \in Seq(Line)
    BY <1>1 DEF Typed, TypeOK, Content
  <2>2. PICK q \in Proc : pc[q] \in {"sudo", "rm"} /\ Overlays(tmp, buf[q], mixed)
    BY <2>1 DEF Settled, TmpSettled
  <2>3. Changes(q) /\ (cmd[q].kind # "ensure" => Shows(q, buf[q]))
    BY <2>2 DEF Typed, Placed, PlaceOf, Writing, Made
  <2>4. pc'[q] \in {"sudo", "rm"} /\ Overlays(file, buf[q], mixed)'
    BY <1>1, <1>2, <2>2
  <2>5. Knows(q, file)'
    BY <2>4 DEF Knows, Checking
  <2>6. Changes(q)' /\ (cmd'[q].kind # "ensure" => Shows(q, buf[q])')
    BY <1>1, <2>3 DEF Changes, Shows
  <2> QED BY <2>4, <2>5, <2>6 DEF WrittenBy
<1> QED BY <1>3, <1>4, <1>5 DEF Settled

LEMMA RemoveTempFileSettled ==
  ASSUME Typed, Settled, NEW p \in Proc, RemoveTempFile(p), Smooth', Clear' => Clear
  PROVE  Settled'
<1>1. /\ pc[p] = "rm" /\ tmp' = NoFile /\ UNCHANGED <<file, mixed, cmd, buf>>
  BY DEF RemoveTempFile, runVars
<1>2. AfterWrite(p)
  <2>1. tmp = NoFile => pc'[p] = "recover"
    BY DEF RemoveTempFile, GoTo, Typed, TypeOK
  <2> QED BY <2>1 DEF RemoveTempFile, Smooth
<1>3. Changes(p)
  BY <1>1 DEF Typed, Placed, PlaceOf, Writing
<1>4. \A q \in Proc \ {p} : /\ pc'[q] = pc[q] /\ cmd'[q] = cmd[q] /\ left'[q] = left[q]
                            /\ missing'[q] = missing[q]
  BY <1>1, <1>2 DEF AfterWrite, GoTo, checkVars, Typed, TypeOK
<1>5. \A q \in Proc \ {p} : Same(q)
  BY <1>1, <1>4 DEF Same
<1>6. TmpSettled'
  BY <1>1, ContentAssumption DEF TmpSettled
<1>7. Awaited'
  BY <1>1, <1>5 DEF Settled, Awaited, Same
<1>8. ASSUME WrittenBy(p), Clear PROVE WrittenBy(p)'
  <2>1. Overlays(file, buf[p], mixed) /\ (cmd[p].kind # "ensure" => Shows(p, buf[p]))
    BY <1>8 DEF WrittenBy
  <2>2. buf[p] \in Seq(Line) /\ pc[p] # "idle" /\ (mixed => ~RemoveUsed)
    BY <1>1, <1>8 DEF Typed, TypeOK, Clear
  <2>3. cmd[p].kind # "ensure" => Shows(p, file')
    BY <1>1, <1>3, <2>1, <2>2, OverlayShows
  <2>4. /\ Knows(p, file)' /\ Changes(p)'
        /\ pc'[p] \in {"recheck", "done"}
        /\ pc'[p] = "done" => missing'[p] = {}
    BY <1>1, <1>2, <1>3, <2>3, AfterWriteKnows
  <2>5. Overlays(file, buf[p], mixed)' /\ (cmd'[p].kind # "ensure" => Shows(p, buf[p])')
    BY <1>1, <2>1 DEF Shows
  <2> QED BY <2>4, <2>5 DEF WrittenBy
<1>9. Authored'
  <2> SUFFICES ASSUME file # Empty, Clear' PROVE \E q \in Proc : WrittenBy(q)'
    BY <1>1 DEF Authored
  <2>1. PICK q \in Proc : WrittenBy(q)
    BY <1>1 DEF Settled, Authored, Unwritten
  <2>2. CASE q = p
    BY <1>8, <2>1, <2>2
  <2>3. CASE q # p
    <3>1. Same(q) /\ file' = file /\ mixed' = mixed
      BY <1>1, <1>5, <2>3
    <3> QED BY <2>1, <3>1 DEF WrittenBy, Knows, Same, Changes, Shows, Checking
  <2> QED BY <2>2, <2>3
<1> QED BY <1>6, <1>7, <1>9 DEF Settled

LEMMA WriteSettled ==
  ASSUME Typed, Made, Settled, NEW p \in Proc, Write(p), Smooth', Clear' => Clear
  PROVE  Settled'
<1>1. ~SudoFails(p) /\ ~Recover(p)
  <2>1. SudoFails(p) \/ Recover(p) => pc'[p] \in {"recover", "failed"}
    BY DEF SudoFails, Recover, GoTo, Typed, TypeOK
  <2> QED BY <2>1 DEF Smooth
<1> QED BY <1>1, OpenHostsFileSettled, WriteHostsFileSettled, WriteFailsSettled,
           OpenTempFileSettled, WriteTempFileSettled, SudoCopiesSettled,
           RemoveTempFileSettled DEF Write

LEMMA InitSettled == Init => SettledInv
<1> SUFFICES ASSUME Init PROVE Settled
  BY DEF SettledInv
<1>1. /\ file = FirstFile /\ tmp = NoFile /\ \A p \in Proc : pc[p] = "idle"
  BY DEF Init
<1>2. \A p \in Proc : Knows(p, file)
  BY <1>1 DEF Knows, Checking
<1>3. TmpSettled /\ Awaited
  BY <1>1, FileAssumption, ContentAssumption DEF TmpSettled, Awaited
<1>4. Authored
  BY <1>1, <1>2 DEF Authored, Unwritten
<1> QED BY <1>3, <1>4 DEF Settled

LEMMA StepSettled == Typed /\ Made /\ SettledInv /\ [Next]_vars => SettledInv'
<1> SUFFICES ASSUME Typed, Made, SettledInv, [Next]_vars, Smooth' PROVE Settled'
  BY DEF SettledInv
<1>1. Settled /\ (Clear' => Clear)
  BY SmoothStays, ClearStays DEF SettledInv
<1>2. CASE UNCHANGED vars
  <2>1. UNCHANGED <<file, tmp, attached, mixed, pc, cmd, left, missing, buf>>
    BY <1>2 DEF vars
  <2>2. TmpSettled' /\ Awaited'
    BY <1>1, <2>1 DEF Settled, TmpSettled, Awaited
  <2>3. \A q \in Proc : Knows(q, file) => Knows(q, file)'
    BY <2>1 DEF Knows, Changes, Shows
  <2>4. \A q \in Proc : WrittenBy(q) => WrittenBy(q)'
    BY <2>1, <2>3 DEF WrittenBy, Changes, Shows
  <2>5. Unwritten => Unwritten'
    BY <2>1, <2>3 DEF Unwritten
  <2> QED BY <1>1, <2>1, <2>2, <2>4, <2>5 DEF Settled, Authored
<1>3. CASE Next
  BY <1>1, <1>3, LaunchSettled, EnsureSettled, OtherSettled, ReadSettled, WriteSettled DEF Next
<1> QED BY <1>2, <1>3

LEMMA QuietIsSettled ==
  ASSUME Typed, SettledInv, Quiet, ~RestoreUsed
  PROVE  file \in Seq(Line) /\ (Clear => Unwritten \/ \E p \in Proc : WrittenBy(p))
<1>1. Settled
  BY DEF SettledInv, Smooth, Quiet
<1>2. file # Empty
  BY <1>1 DEF Settled, Awaited, Quiet
<1> QED BY <1>1, <1>2 DEF Settled, Authored, Typed, TypeOK, Content

\* However commands overlap and their writes mix, when all report success no name
\* that nobody asked to change has lost its address.
THEOREM NothingLostSilently == Spec => []NoSilentLoss
<1>1. Spec => [](Typed /\ Made /\ KeptInv /\ SettledInv)
  <2>1. Init => Typed /\ Made /\ KeptInv /\ SettledInv
    BY InitTyped, InitMade, InitKept, InitSettled
  <2>2. Typed /\ Made /\ KeptInv /\ SettledInv /\ [Next]_vars
          => Typed' /\ Made' /\ KeptInv' /\ SettledInv'
    BY StepTyped, StepMade, StepKept, StepSettled
  <2> QED BY <2>1, <2>2, PTL DEF Spec
<1>2. Typed /\ KeptInv /\ SettledInv => NoSilentLoss
  BY QuietIsSettled DEF NoSilentLoss, KeptInv, Keeps, Untouched
<1> QED BY <1>1, <1>2, PTL

\* When all commands report success, the effect of one of them is there, unless a
\* remove was among commands whose writes were mixed.
THEOREM OneWins == Spec => []WinnerShows
<1>1. Spec => [](Typed /\ Made /\ SettledInv)
  <2>1. Init => Typed /\ Made /\ SettledInv
    BY InitTyped, InitMade, InitSettled
  <2>2. Typed /\ Made /\ SettledInv /\ [Next]_vars => Typed' /\ Made' /\ SettledInv'
    BY StepTyped, StepMade, StepSettled
  <2> QED BY <2>1, <2>2, PTL DEF Spec
<1>2. ASSUME Typed, NEW p \in Proc, Succeeded(p), Knows(p, file) PROVE Shows(p, file)
  <2>1. pc[p] = "done" /\ Changes(p) /\ missing[p] = {}
    BY <1>2 DEF Succeeded
  <2>2. left[p] = << >>
    BY <1>2, <2>1 DEF Typed, Placed, PlaceOf
  <2>3. CASE cmd[p].kind = "ensure"
    <3>1. \A n \in ToSet(cmd[p].names) : Found(cmd[p], file, n)
      BY <1>2, <2>1, <2>2, <2>3, NoNames DEF Knows
    <3> QED BY <2>3, <3>1 DEF Shows, Found
  <2>4. CASE cmd[p].kind # "ensure"
    BY <1>2, <2>1, <2>4 DEF Knows
  <2> QED BY <2>3, <2>4
<1>3. ASSUME Typed, SettledInv, Quiet, ~RestoreUsed, Clear, NEW p \in Proc, Succeeded(p)
      PROVE  \E q \in Proc : Succeeded(q) /\ Shows(q, file)
  <2>1. CASE Unwritten
    BY <1>2, <1>3, <2>1 DEF Unwritten
  <2>2. ASSUME NEW q \in Proc, WrittenBy(q) PROVE Succeeded(q) /\ Shows(q, file)
    <3>1. pc[q] = "done"
      BY <1>3, <2>2 DEF Quiet, WrittenBy
    <3>2. Succeeded(q) /\ Knows(q, file)
      BY <2>2, <3>1 DEF WrittenBy, Succeeded
    <3> QED BY <1>2, <1>3, <3>2
  <2> QED BY <1>3, <2>1, <2>2, QuietIsSettled
<1>4. Typed /\ SettledInv => WinnerShows
  BY <1>3 DEF WinnerShows, Clear
<1> QED BY <1>1, <1>4, PTL


-----------------------------------------------------------------------------
(***************************************************************************)
(* A command that runs alone.                                              *)
(***************************************************************************)

AloneOf(p) ==
  solo[p] /\ Running(p) =>
    /\ \A q \in Proc \ {p} : ~Running(q)
    /\ Knows(p, file)
    /\ pc[p] = "flush" => file = Empty
    /\ pc[p] = "tmpFlush" => p \in attached /\ tmp = Empty
    /\ pc[p] \in {"sudo", "rm"} => tmp = buf[p]
    /\ pc[p] = "rm" => file = buf[p]

Alone == \A p \in Proc : AloneOf(p)

\* Everything a command does but its start.
Act(p) == Ensure(p) \/ ReadAndEdit(p) \/ Write(p) \/ ReadAndList(p)
            \/ BackupHostsFile(p) \/ RestoreHostsFile(p)

LEMMA ActIsOwn ==
  ASSUME Typed, NEW p \in Proc, Act(p) \/ Kill(p)
  PROVE  /\ Running(p) /\ UNCHANGED runVars
         /\ \A q \in Proc \ {p} : pc'[q] = pc[q]
<1> USE DEF GoTo, checkVars, runVars, Typed, TypeOK, Running, Resting
<1>1. CASE Ensure(p)
  BY <1>1 DEF Ensure, CheckName, Checked, ChooseMode, Rechecked, Verify
<1>2. CASE Write(p)
  BY <1>2 DEF Write, OpenHostsFile, WriteHostsFile, WriteFails, OpenTempFile, WriteTempFile,
              SudoCopies, SudoFails, RemoveTempFile, Recover, AfterWrite
<1>3. CASE ReadAndEdit(p)
  BY <1>3 DEF ReadAndEdit, AfterWrite
<1>4. CASE ReadAndList(p) \/ BackupHostsFile(p) \/ RestoreHostsFile(p) \/ Kill(p)
  BY <1>4 DEF ReadAndList, BackupHostsFile, RestoreHostsFile, Kill
<1> QED BY <1>1, <1>2, <1>3, <1>4 DEF Act

\* What it knows of itself after a step of its own.
LEMMA ActAlone ==
  ASSUME Typed, Made, NEW p \in Proc, Act(p), AloneOf(p), solo[p], Running(p)'
  PROVE  /\ Knows(p, file)'
         /\ pc'[p] = "flush" => file' = Empty
         /\ pc'[p] = "tmpFlush" => p \in attached' /\ tmp' = Empty
         /\ pc'[p] \in {"sudo", "rm"} => tmp' = buf'[p]
         /\ pc'[p] = "rm" => file' = buf'[p]
<1> USE DEF GoTo, fileVars, checkVars, runVars
<1>0. /\ Knows(p, file)
      /\ pc[p] = "tmpFlush" => p \in attached /\ tmp = Empty
      /\ pc[p] \in {"sudo", "rm"} => tmp = buf[p]
  BY ActIsOwn DEF AloneOf
<1>1. CASE Ensure(p)
  <2>1. Knows(p, file)'
    BY <1>0, <1>1, EnsureKnows
  <2>2. pc'[p] \in {"check", "choose", "recheck", "verify", "read", "done", "failed"}
    BY <1>1 DEF Ensure, CheckName, Checked, ChooseMode, Rechecked, Verify, AfterEnsure, Typed, TypeOK
  <2> QED BY <2>1, <2>2
<1>2. CASE AfterWrite(p) /\ UNCHANGED cmd
  <2>1. pc'[p] = "recheck" /\ cmd[p].kind = "ensure" /\ left'[p] = cmd[p].names
    BY <1>2 DEF AfterWrite, Running, Resting, Typed, TypeOK
  <2> QED BY <1>2, <2>1 DEF Knows
<1>3. CASE ReadAndEdit(p) /\ ~AfterWrite(p)
  <2>1. pc'[p] \in {"open", "tmpOpen", "failed"}
    BY <1>3 DEF ReadAndEdit, Typed, TypeOK
  <2> QED BY <2>1 DEF Knows, Checking
<1>4. CASE OpenHostsFile(p) \/ WriteFails(p)
  <2>1. pc'[p] \in {"flush", "tmpOpen"} /\ (pc'[p] = "flush" => file' = Empty)
    BY <1>4 DEF OpenHostsFile, WriteFails, Typed, TypeOK
  <2> QED BY <2>1 DEF Knows, Checking
<1>5. CASE OpenTempFile(p)
  <2>1. pc'[p] = "tmpFlush" /\ p \in attached' /\ tmp' = Empty
    BY <1>5 DEF OpenTempFile, Typed, TypeOK
  <2> QED BY <2>1 DEF Knows, Checking
<1>6. CASE WriteTempFile(p)
  <2>1. pc'[p] = "sudo" /\ tmp' = buf[p] /\ buf' = buf
    BY <1>0, <1>6, WriteTempFileDoes DEF WriteTempFile, Typed, TypeOK
  <2> QED BY <2>1 DEF Knows, Checking
<1>7. CASE SudoCopies(p)
  <2>1. pc'[p] = "rm" /\ tmp' = tmp /\ file' = tmp /\ tmp = buf[p] /\ buf' = buf
    BY <1>0, <1>7 DEF SudoCopies, Typed, TypeOK
  <2> QED BY <2>1 DEF Knows, Checking
<1>8. CASE (SudoFails(p) \/ Recover(p) \/ RemoveTempFile(p)) /\ ~AfterWrite(p)
  <2>1. pc'[p] \in {"recover", "failed"}
    BY <1>8 DEF SudoFails, Recover, RemoveTempFile, Typed, TypeOK
  <2> QED BY <2>1 DEF Knows, Checking
<1>9. CASE ReadAndList(p) \/ BackupHostsFile(p) \/ RestoreHostsFile(p)
  <2>1. pc'[p] \in {"done", "failed"}
    BY <1>9 DEF ReadAndList, BackupHostsFile, RestoreHostsFile, Typed, TypeOK
  <2> QED BY <2>1 DEF Running, Resting
<1>10. cmd' = cmd
  BY ActIsOwn
<1>11. WriteHostsFile(p) => AfterWrite(p)
  BY DEF WriteHostsFile
<1> QED BY <1>1, <1>2, <1>3, <1>4, <1>5, <1>6, <1>7, <1>8, <1>9, <1>10, <1>11 DEF Act, Write

LEMMA InitAlone == Init => Alone
BY DEF Init, Alone, AloneOf, Running, Resting

LEMMA StepAlone == Typed /\ Made /\ Alone /\ [Next]_vars => Alone'
<1> SUFFICES ASSUME Typed, Made, Alone, [Next]_vars,
                    NEW p \in Proc, solo'[p], Running(p)'
             PROVE  /\ \A q \in Proc \ {p} : ~Running(q)'
                    /\ Knows(p, file)'
                    /\ pc'[p] = "flush" => file' = Empty
                    /\ pc'[p] = "tmpFlush" => p \in attached' /\ tmp' = Empty
                    /\ pc'[p] \in {"sudo", "rm"} => tmp' = buf'[p]
                    /\ pc'[p] = "rm" => file' = buf'[p]
  BY DEF Alone, AloneOf
<1>1. CASE UNCHANGED vars
  <2>1. /\ UNCHANGED <<file, tmp, attached, pc, cmd, left, missing, buf>>
        /\ solo[p] /\ Running(p)
    BY <1>1 DEF vars, Running
  <2>2. Knows(p, file) => Knows(p, file)'
    BY <2>1 DEF Knows, Changes, Shows
  <2> QED BY <2>1, <2>2 DEF Alone, AloneOf, Running
<1>2. ASSUME Launch(p)
      PROVE  /\ \A q \in Proc \ {p} : ~Running(q)'
             /\ Knows(p, file)'
             /\ pc'[p] \notin {"flush", "tmpFlush", "sudo", "rm"}
  <2>1. PICK c \in Commands :
          /\ pc' = [pc EXCEPT ![p] = FirstStep(c)]
          /\ cmd' = [cmd EXCEPT ![p] = c]
          /\ left' = [left EXCEPT ![p] = IF c.kind = "ensure" THEN c.names ELSE << >>]
    BY <1>2 DEF Launch, GoTo
  <2>2. c.kind \in {"set", "remove", "list", "backup", "restore", "ensure"}
    BY CommandFields
  <2>3. FirstStep(c) = IF c.kind = "ensure" THEN "check"
                       ELSE IF c.kind \in {"set", "remove"} THEN "read" ELSE c.kind
    BY <2>2 DEF FirstStep
  <2>4. /\ pc'[p] \in {"check", "read", "list", "backup", "restore"}
        /\ cmd'[p].kind = "ensure" => left'[p] = cmd'[p].names
    BY <2>1, <2>2, <2>3 DEF Typed, TypeOK
  <2>5. Knows(p, file)'
    BY <2>4 DEF Knows, Checking
  <2>6. \A q \in Proc \ {p} : ~Running(q) /\ pc'[q] = pc[q]
    BY <1>2, <2>1 DEF Launch, Typed, TypeOK
  <2>7. \A q \in Proc \ {p} : ~Running(q)'
    BY <2>6 DEF Running
  <2> QED BY <2>4, <2>5, <2>7
<1>3. ASSUME NEW r \in Proc, r # p, Launch(r) PROVE FALSE
  <2>1. solo'[p] => ~Running(p)
    BY <1>3 DEF Launch
  <2>2. pc'[p] = pc[p]
    BY <1>3 DEF Launch, GoTo, Typed, TypeOK
  <2> QED BY <2>1, <2>2 DEF Running
<1>4. ASSUME NEW r \in Proc, r # p, Act(r) \/ Kill(r) PROVE FALSE
  <2>1. Running(r) /\ solo[p] /\ pc'[p] = pc[p]
    BY <1>4, ActIsOwn DEF runVars
  <2>2. Running(p)
    BY <2>1 DEF Running
  <2> QED BY <1>4, <2>1, <2>2 DEF Alone, AloneOf
<1>5. ~Kill(p)
  BY DEF Kill, GoTo, Running, Resting, Typed, TypeOK
<1>6. ASSUME Act(p)
      PROVE  /\ \A q \in Proc \ {p} : ~Running(q)'
             /\ Knows(p, file)'
             /\ pc'[p] = "flush" => file' = Empty
             /\ pc'[p] = "tmpFlush" => p \in attached' /\ tmp' = Empty
             /\ pc'[p] \in {"sudo", "rm"} => tmp' = buf'[p]
             /\ pc'[p] = "rm" => file' = buf'[p]
  <2>1. solo[p] /\ Running(p) /\ \A q \in Proc \ {p} : pc'[q] = pc[q]
    BY <1>6, ActIsOwn DEF runVars
  <2>2. \A q \in Proc \ {p} : ~Running(q)
    BY <2>1 DEF Alone, AloneOf
  <2>3. \A q \in Proc \ {p} : ~Running(q)'
    BY <2>1, <2>2 DEF Running
  <2> QED BY <1>6, <2>1, <2>3, ActAlone DEF Alone
<1> QED BY <1>1, <1>2, <1>3, <1>4, <1>5, <1>6 DEF Next, Act

\* What a step to success shows.
LEMMA SuccessShows ==
  ASSUME Typed, Made, Alone, [Next]_vars,
         NEW p \in Proc, solo[p], pc[p] # "done", Succeeded(p)'
  PROVE  Shows(p, file')
<1> USE DEF GoTo, fileVars, checkVars, runVars
<1>1. pc'[p] = "done" /\ missing'[p] = {}
  BY DEF Succeeded
<1>2. Act(p)
  <2>1. ~UNCHANGED vars
    BY <1>1 DEF vars
  <2>2. ~Launch(p)
    <3> SUFFICES ASSUME Launch(p) PROVE FALSE
      OBVIOUS
    <3>1. PICK c \in Commands : pc' = [pc EXCEPT ![p] = FirstStep(c)]
      BY DEF Launch
    <3>2. c.kind \in {"set", "remove", "list", "backup", "restore", "ensure"}
      BY CommandFields
    <3> QED BY <1>1, <3>1, <3>2 DEF FirstStep, Typed, TypeOK
  <2>3. ~Kill(p)
    BY <1>1 DEF Kill, Typed, TypeOK
  <2>4. ASSUME NEW r \in Proc, r # p, Launch(r) PROVE FALSE
    BY <1>1, <2>4 DEF Launch, Typed, TypeOK
  <2>5. ASSUME NEW r \in Proc, r # p, Act(r) \/ Kill(r) PROVE FALSE
    BY <1>1, <2>5, ActIsOwn
  <2> QED BY <2>1, <2>2, <2>3, <2>4, <2>5 DEF Next, Act
<1>3. /\ Running(p) /\ cmd' = cmd /\ Changes(p)
  BY <1>2, ActIsOwn DEF Succeeded, Changes
<1>4. /\ Knows(p, file) /\ (pc[p] \in {"sudo", "rm"} => tmp = buf[p])
      /\ pc[p] = "rm" => file = buf[p]
      /\ pc[p] = "flush" => file = Empty
  BY <1>3 DEF Alone, AloneOf
<1>5. CASE Ensure(p)
  <2>1. /\ pc[p] \in Checking /\ file' = file /\ cmd[p].kind = "ensure"
        /\ left' = left /\ missing' = missing
    BY <1>1, <1>5 DEF Ensure, CheckName, Checked, ChooseMode, Rechecked, Verify, Checking,
                      Typed, TypeOK, Placed, PlaceOf
  <2>2. left[p] = << >>
    <3>1. left'[p] = << >>
      BY <1>1, StepTyped DEF Typed, Placed, PlaceOf
    <3> QED BY <2>1, <3>1
  <2>3. \A n \in ToSet(cmd[p].names) : Found(cmd[p], file, n)
    BY <1>1, <1>4, <2>1, <2>2, NoNames DEF Knows
  <2> QED BY <2>1, <2>3 DEF Shows, Found
<1>6. CASE WriteHostsFile(p) \/ RemoveTempFile(p)
  <2>1. /\ pc[p] \in Writing /\ AfterWrite(p) /\ file' = buf[p]
    BY <1>1, <1>4, <1>6, WriteHostsFileDoes DEF WriteHostsFile, RemoveTempFile, Writing, Typed, TypeOK
  <2>2. cmd[p].kind # "ensure"
    BY <1>1, <2>1 DEF AfterWrite, Typed, TypeOK
  <2> QED BY <2>1, <2>2 DEF Made
<1>7. CASE ReadAndEdit(p)
  <2>1. /\ pc[p] = "read" /\ file # Empty /\ Edited(p, file) = file /\ AfterWrite(p) /\ file' = file
    BY <1>1, <1>7 DEF ReadAndEdit, Refused, Typed, TypeOK
  <2>2. cmd[p].kind # "ensure"
    BY <1>1, <2>1 DEF AfterWrite, Typed, TypeOK
  <2>3. Shows(p, Edited(p, file))
    BY <2>1, <2>2, ReadDoes
  <2> QED BY <2>1, <2>3
<1>8. ~(ReadAndList(p) \/ BackupHostsFile(p) \/ RestoreHostsFile(p))
  <2>1. ReadAndList(p) \/ BackupHostsFile(p) \/ RestoreHostsFile(p)
          => cmd[p].kind \in {"list", "backup", "restore"}
    BY DEF ReadAndList, BackupHostsFile, RestoreHostsFile, Typed, Placed, PlaceOf
  <2> QED BY <1>3, <2>1 DEF Changes
<1>9. ~(OpenHostsFile(p) \/ WriteFails(p) \/ OpenTempFile(p) \/ WriteTempFile(p)
          \/ SudoCopies(p) \/ SudoFails(p) \/ Recover(p))
  BY <1>1 DEF OpenHostsFile, WriteFails, OpenTempFile, WriteTempFile, SudoCopies, SudoFails,
              Recover, Typed, TypeOK
<1> QED BY <1>2, <1>5, <1>6, <1>7, <1>8, <1>9 DEF Act, Write

\* A command that ran alone and reports success has done what it was asked.
THEOREM AloneHasEffect == Spec => EffectShows
<1>1. Spec => [](Typed /\ Made /\ Alone)
  <2>1. Init => Typed /\ Made /\ Alone
    BY InitTyped, InitMade, InitAlone
  <2>2. Typed /\ Made /\ Alone /\ [Next]_vars => Typed' /\ Made' /\ Alone'
    BY StepTyped, StepMade, StepAlone
  <2> QED BY <2>1, <2>2, PTL DEF Spec
<1>2. Typed /\ Made /\ Alone /\ [Next]_vars =>
        [\A p \in Proc :
           solo[p] /\ pc[p] # "done" /\ Succeeded(p)' => Shows(p, file')]_vars
  BY SuccessShows
<1> QED BY <1>1, <1>2, PTL DEF Spec, EffectShows

=============================================================================
