---------------------------- MODULE SequenceFolds ----------------------------
(***************************************************************************)
(* What FoldLeft of the community modules computes, for any operator Op: the *)
(* last value of a sequence of values, each of which comes from the one       *)
(* before it and the next element.  p stands for what the operator depends on *)
(* beside these.  FoldLeft is written out, because an instance of this module *)
(* would have a FoldLeft of its own.                                        *)
(***************************************************************************)
EXTENDS Integers, Sequences, SequenceTheorems, WellFoundedInduction, TLAPS

CONSTANT Op(_, _, _)

Greatest(s) == CHOOSE x \in s : \A y \in s : x >= y

\* Induction over the natural numbers up to n, stated with a set.
LEMMA UpTo ==
    ASSUME NEW n \in Nat, NEW T, 0 \in T, \A i \in 0 .. (n - 1) : i \in T => i + 1 \in T
    PROVE  0 .. n \subseteq T
<1> DEFINE R == OpToRel(<, Nat)
           U == (0 .. n) \ T
<1> SUFFICES ASSUME U # {} PROVE FALSE
    OBVIOUS
<1>1. PICK x \in U : \A y \in U : ~(<<y, x>> \in R)
  <2>1. IsWellFoundedOn(R, Nat)
    BY NatLessThanWellFounded DEF R
  <2>2. U \subseteq Nat
    OBVIOUS
  <2> QED BY <2>1, <2>2, WFMin
<1>2. x # 0 /\ x - 1 \in 0 .. n
    OBVIOUS
<1>3. x - 1 \notin U
  <2>1. <<x - 1, x>> \in R
    BY <1>2 DEF R, OpToRel
  <2> QED BY <1>1, <2>1
<1> QED BY <1>2, <1>3


\* The beginnings of a sequence.
LEMMA Prefixes ==
    ASSUME NEW S, NEW seq \in Seq(S)
    PROVE  /\ SubSeq(seq, 1, 0) = << >>
           /\ SubSeq(seq, 1, Len(seq)) = seq
           /\ \A i \in 1 .. Len(seq) :
                 /\ SubSeq(seq, 1, i) = Append(SubSeq(seq, 1, i - 1), seq[i])
                 /\ SubSeq(seq, 1, i - 1) \in Seq(S) /\ Len(SubSeq(seq, 1, i - 1)) = i - 1
                 /\ \A j \in 1 .. (i - 1) : SubSeq(seq, 1, i - 1)[j] = seq[j]
<1>1. ASSUME NEW i \in 0 .. Len(seq)
      PROVE  /\ SubSeq(seq, 1, i) \in Seq(S) /\ Len(SubSeq(seq, 1, i)) = i
             /\ \A j \in 1 .. i : SubSeq(seq, 1, i)[j] = seq[j]
  <2>1. \A j \in 1 .. i : seq[j] \in S
    BY ElementOfSeq
  <2> QED BY <2>1, SubSeqProperties
<1>2. ASSUME NEW i \in 1 .. Len(seq)
      PROVE  SubSeq(seq, 1, i) = Append(SubSeq(seq, 1, i - 1), seq[i])
  <2> DEFINE a == SubSeq(seq, 1, i)  b == SubSeq(seq, 1, i - 1)
  <2>1. a \in Seq(S) /\ Len(a) = i /\ (\A j \in 1 .. i : a[j] = seq[j])
    BY <1>1
  <2>2. b \in Seq(S) /\ Len(b) = i - 1 /\ (\A j \in 1 .. (i - 1) : b[j] = seq[j]) /\ seq[i] \in S
    BY <1>1, ElementOfSeq
  <2> HIDE DEF a, b
  <2>3. Append(b, seq[i]) \in Seq(S) /\ Len(Append(b, seq[i])) = i
        /\ \A j \in 1 .. i : Append(b, seq[i])[j] = seq[j]
    BY <2>2, AppendProperties
  <2>4. a = Append(b, seq[i])
    <3> DEFINE c == Append(b, seq[i])
    <3> HIDE DEF c
    <3> QED BY <2>1, <2>3, SeqEqual DEF c
  <2> QED BY <2>4 DEF a, b
<1>3. SubSeq(seq, 1, 0) = << >>
  BY SubSeqEmpty
<1>4. SubSeq(seq, 1, Len(seq)) = seq
  BY SubSeqFull
<1>5. \A i \in 1 .. Len(seq) : i - 1 \in 0 .. Len(seq)
  BY LenProperties
<1> QED BY <1>1, <1>2, <1>3, <1>4, <1>5

\* A finite set of positions has a greatest one.
LEMMA HasGreatest ==
    ASSUME NEW n \in Nat, NEW s \in SUBSET (1 .. n), s # {}
    PROVE  Greatest(s) \in s /\ \A y \in s : Greatest(s) >= y
<1> DEFINE P(m) == (\E z \in s : z <= m) =>
                      \E x \in s : x <= m /\ \A y \in s : y <= m => x >= y
           T == {m \in 0 .. n : P(m)}
<1>1. 0 \in T
  OBVIOUS
<1>2. ASSUME NEW m \in 0 .. (n - 1), m \in T PROVE m + 1 \in T
  <2>1. CASE m + 1 \in s
    <3>1. \A y \in s : y <= m + 1 => m + 1 >= y
      OBVIOUS
    <3> QED BY <2>1, <3>1
  <2>2. CASE m + 1 \notin s
    <3>1. \A y \in s : y <= m + 1 <=> y <= m
      BY <2>2
    <3> QED BY <1>2, <3>1
  <2> QED BY <2>1, <2>2
<1>3. 0 .. n \subseteq T
  <2> HIDE DEF T
  <2> QED BY <1>1, <1>2, UpTo
<1>4. P(n)
  <2> HIDE DEF P
  <2> QED BY <1>3
<1>5. \E x \in s : \A y \in s : x >= y
  <2>1. \A y \in s : y \in Nat /\ y <= n
    OBVIOUS
  <2> QED BY <1>4, <2>1
<1> QED BY <1>5 DEF Greatest

FoldOn(V, base, n, F) ==
    \E g \in [SUBSET (1 .. n) -> V] :
       \A s \in SUBSET (1 .. n) :
          g[s] = IF s = {} THEN base ELSE F[Greatest(s)][g[s \ {Greatest(s)}]]

\* The fold over all subsets of the positions of a sequence exists.
LEMMA FoldExists ==
    ASSUME NEW V, NEW base \in V, NEW n \in Nat, NEW F \in [1 .. n -> [V -> V]]
    PROVE  FoldOn(V, base, n, F)
<1> DEFINE P(k) == \E g \in [SUBSET (1 .. k) -> V] :
                      \A s \in SUBSET (1 .. k) :
                         g[s] = IF s = {} THEN base ELSE F[Greatest(s)][g[s \ {Greatest(s)}]]
           T == {k \in 0 .. n : P(k)}
<1>1. P(0)
  <2> DEFINE g == [s \in SUBSET (1 .. 0) |-> base]
  <2>1. g \in [SUBSET (1 .. 0) -> V]
    OBVIOUS
  <2>2. \A s \in SUBSET (1 .. 0) : s = {} /\ g[s] = base
    OBVIOUS
  <2> QED BY <2>1, <2>2
<1>2. ASSUME NEW k \in 0 .. (n - 1), P(k) PROVE P(k + 1)
  <2>1. PICK g \in [SUBSET (1 .. k) -> V] :
           \A s \in SUBSET (1 .. k) :
              g[s] = IF s = {} THEN base ELSE F[Greatest(s)][g[s \ {Greatest(s)}]]
    BY <1>2
  <2> DEFINE h == [s \in SUBSET (1 .. (k + 1)) |->
                      IF k + 1 \in s THEN F[k + 1][g[s \ {k + 1}]] ELSE g[s]]
  <2>2. k + 1 \in 1 .. n /\ F[k + 1] \in [V -> V]
    OBVIOUS
  <2>3. ASSUME NEW s \in SUBSET (1 .. (k + 1)), k + 1 \in s
        PROVE  s \ {k + 1} \in SUBSET (1 .. k) /\ Greatest(s) = k + 1
    <3>1. s \ {k + 1} \in SUBSET (1 .. k)
      OBVIOUS
    <3>2. \A y \in s : k + 1 >= y
      OBVIOUS
    <3>3. \A x \in s : (\A y \in s : x >= y) => x = k + 1
      BY <2>3
    <3> QED BY <2>3, <3>1, <3>2, <3>3 DEF Greatest
  <2>4. ASSUME NEW s \in SUBSET (1 .. (k + 1)), k + 1 \notin s
        PROVE  s \in SUBSET (1 .. k)
    BY <2>4
  <2>5. h \in [SUBSET (1 .. (k + 1)) -> V]
    BY <2>2, <2>3, <2>4
  <2>6. ASSUME NEW s \in SUBSET (1 .. (k + 1)), s # {}
        PROVE  h[s] = F[Greatest(s)][h[s \ {Greatest(s)}]]
    <3>1. CASE k + 1 \in s
      <4>1. h[s] = F[k + 1][g[s \ {k + 1}]]
        BY <3>1
      <4>2. s \ {k + 1} \in SUBSET (1 .. (k + 1)) /\ k + 1 \notin s \ {k + 1}
        OBVIOUS
      <4>3. h[s \ {k + 1}] = g[s \ {k + 1}]
        BY <4>2
      <4> QED BY <3>1, <4>1, <4>3, <2>3
    <3>2. CASE k + 1 \notin s
      <4>1. s \in SUBSET (1 .. k) /\ h[s] = g[s]
        BY <3>2, <2>4
      <4>2. s \ {Greatest(s)} \in SUBSET (1 .. (k + 1)) /\ k + 1 \notin s \ {Greatest(s)}
        BY <3>2
      <4>3. h[s \ {Greatest(s)}] = g[s \ {Greatest(s)}]
        BY <4>2
      <4> QED BY <2>1, <2>6, <4>1, <4>3
    <3> QED BY <3>1, <3>2
  <2>7. h[{}] = base
    BY <2>1
  <2> QED BY <2>5, <2>6, <2>7
<1>3. 0 .. n \subseteq T
  <2> HIDE DEF P
  <2>1. 0 \in T
    BY <1>1
  <2>2. \A k \in 0 .. (n - 1) : k \in T => k + 1 \in T
    BY <1>2
  <2> HIDE DEF T
  <2> QED BY <2>1, <2>2, UpTo
<1>4. P(n)
  <2> HIDE DEF P
  <2> QED BY <1>3
<1> QED BY <1>4 DEF FoldOn

\* FoldLeft(Op(p, _, _), base, seq), written out.
FoldValue(p, base, seq) ==
    LET iter[s \in SUBSET (DOMAIN seq)] ==
            IF s = {} THEN base
            ELSE LET i == Greatest(s) IN Op(p, iter[s \ {i}], seq[i])
    IN  iter[DOMAIN seq]

\* The value of a fold, and the values on the way to it.
IsTrace(t, p, base, seq) ==
    /\ t[0] = base
    /\ \A i \in 1 .. Len(seq) : t[i] = Op(p, t[i - 1], seq[i])
    /\ t[Len(seq)] = FoldValue(p, base, seq)

Trace(p, V, base, seq) == \E t \in [0 .. Len(seq) -> V] : IsTrace(t, p, base, seq)

\* The fold of any sequence, if its values stay in V, has a value in V after each element.
THEOREM FoldTrace ==
    ASSUME NEW p, NEW X, NEW V, NEW base \in V, NEW seq \in Seq(X),
           \A v \in V, x \in X : Op(p, v, x) \in V
    PROVE  Trace(p, V, base, seq)
<1> DEFINE n == Len(seq)
           D == DOMAIN seq
           F == [i \in 1 .. n |-> [v \in V |-> Op(p, v, seq[i])]]
           E(g) == [s \in SUBSET D |->
                       IF s = {} THEN base
                       ELSE LET i == Greatest(s) IN Op(p, g[s \ {i}], seq[i])]
           iter == CHOOSE g : g = E(g)
<1>1. n \in Nat /\ D = 1 .. n /\ \A i \in D : seq[i] \in X
  OBVIOUS
<1>2. F \in [1 .. n -> [V -> V]]
  BY <1>1
<1>3. PICK g \in [SUBSET (1 .. n) -> V] :
         \A s \in SUBSET (1 .. n) :
            g[s] = IF s = {} THEN base ELSE F[Greatest(s)][g[s \ {Greatest(s)}]]
  <2> HIDE DEF F, n
  <2>1. n \in Nat /\ base \in V
    BY <1>1
  <2>2. FoldOn(V, base, n, F)
    BY <1>2, <2>1, FoldExists
  <2> QED BY <2>2 DEF FoldOn
<1>4. \A s \in SUBSET D : s # {} => Greatest(s) \in s
  BY <1>1, HasGreatest
<1>5. g = E(g)
  <2>1. ASSUME NEW s \in SUBSET D, s # {}
        PROVE  g[s] = Op(p, g[s \ {Greatest(s)}], seq[Greatest(s)])
    <3>1. Greatest(s) \in D /\ g[s \ {Greatest(s)}] \in V
      BY <1>4, <2>1
    <3>2. F[Greatest(s)][g[s \ {Greatest(s)}]] = Op(p, g[s \ {Greatest(s)}], seq[Greatest(s)])
      BY <3>1
    <3>3. g[s] = F[Greatest(s)][g[s \ {Greatest(s)}]]
      <4> HIDE DEF F, n, D
      <4> QED BY <1>1, <1>3, <2>1
    <3> QED BY <3>2, <3>3
  <2>2. g[{}] = base
    BY <1>3
  <2>3. g \in [SUBSET D -> V]
    BY <1>1
  <2>4. \A s \in SUBSET D : g[s] = E(g)[s]
    BY <2>1, <2>2
  <2> HIDE DEF D
  <2> QED BY <2>3, <2>4
<1>6. iter = E(iter)
  BY <1>5
<1> HIDE DEF iter
<1> DEFINE t == [i \in 0 .. n |-> iter[1 .. i]]
<1>7. t[0] = base
  BY <1>6, <1>1
<1>8. ASSUME NEW i \in 1 .. n PROVE t[i] = Op(p, t[i - 1], seq[i])
  <2>1. 1 .. i \in SUBSET D /\ i \in 1 .. i /\ (1 .. i) \ {i} = 1 .. (i - 1)
    <3> HIDE DEF n, D
    <3> QED BY <1>1
  <2>2. Greatest(1 .. i) = i
    BY <1>1 DEF Greatest
  <2>3. iter[1 .. i] = Op(p, iter[1 .. (i - 1)], seq[i])
    BY <1>6, <2>1, <2>2
  <2> QED BY <1>1, <2>3
<1>9. t \in [0 .. n -> V]
  <2> DEFINE T == {i \in 0 .. n : t[i] \in V}
  <2> HIDE DEF t
  <2>1. 0 \in T
    BY <1>1, <1>7
  <2>2. \A i \in 0 .. (n - 1) : i \in T => i + 1 \in T
    BY <1>1, <1>8
  <2>3. 0 .. n \subseteq T
    <3> HIDE DEF T
    <3> QED BY <1>1, <2>1, <2>2, UpTo
  <2> QED BY <2>3 DEF t
<1>10. t[n] = iter[DOMAIN seq]
  BY <1>1
<1>11. t[n] = FoldValue(p, base, seq)
  BY <1>10 DEF iter, FoldValue
<1> HIDE DEF t
<1> QED BY <1>7, <1>8, <1>9, <1>11 DEF Trace, IsTrace

\* The fold of a sequence, one element at a time.
FoldsOn(p, V, base, seq, x) ==
    /\ FoldValue(p, base, << >>) = base
    /\ FoldValue(p, base, seq) \in V
    /\ FoldValue(p, base, Append(seq, x)) = Op(p, FoldValue(p, base, seq), x)

\* One more element applies the operator once more.
THEOREM FoldAppend ==
    ASSUME NEW p, NEW X, NEW V, NEW base \in V, NEW seq \in Seq(X), NEW x \in X,
           \A v \in V, y \in X : Op(p, v, y) \in V
    PROVE  FoldsOn(p, V, base, seq, x)
<1> DEFINE n == Len(seq)
           longer == Append(seq, x)
<1>1. longer \in Seq(X) /\ Len(longer) = n + 1 /\ n \in Nat
      /\ (\A i \in 1 .. n : longer[i] = seq[i]) /\ longer[n + 1] = x
  BY AppendProperties
<1> HIDE DEF longer
<1>2. PICK t \in [0 .. n -> V] : IsTrace(t, p, base, seq)
  BY FoldTrace DEF Trace
<1>3. PICK r \in [0 .. (n + 1) -> V] : IsTrace(r, p, base, longer)
  <2>1. Trace(p, V, base, longer)
    BY <1>1, FoldTrace
  <2> QED BY <1>1, <2>1 DEF Trace
<1>4. t[n] = r[n]
  <2> DEFINE T == {i \in 0 .. n : t[i] = r[i]}
  <2>1. 0 \in T
    BY <1>1, <1>2, <1>3 DEF IsTrace
  <2>2. ASSUME NEW i \in 0 .. (n - 1), i \in T PROVE i + 1 \in T
    <3>1. i + 1 \in 1 .. n /\ i + 1 \in 1 .. (n + 1) /\ (i + 1) - 1 = i
      BY <1>1
    <3>2. t[i + 1] = Op(p, t[i], seq[i + 1]) /\ r[i + 1] = Op(p, r[i], longer[i + 1])
      BY <1>1, <1>2, <1>3, <3>1 DEF IsTrace
    <3> QED BY <1>1, <2>2, <3>1, <3>2
  <2>3. 0 .. n \subseteq T
    <3> HIDE DEF T, n
    <3> QED BY <1>1, <2>1, <2>2, UpTo
  <2> QED BY <1>1, <2>3
<1>5. FoldValue(p, base, seq) = t[n] /\ t[n] \in V
  BY <1>1, <1>2 DEF IsTrace
<1>6. FoldValue(p, base, longer) = Op(p, r[n], x)
  <2>1. n + 1 \in 1 .. (n + 1) /\ (n + 1) - 1 = n
    BY <1>1
  <2> QED BY <1>1, <1>3, <2>1 DEF IsTrace
<1>7. FoldValue(p, base, << >>) = base
  <2>1. << >> \in Seq(X) /\ Len(<< >>) = 0
    BY EmptySeq
  <2>2. PICK e \in [0 .. 0 -> V] : IsTrace(e, p, base, << >>)
    BY <2>1, FoldTrace DEF Trace
  <2> QED BY <2>1, <2>2 DEF IsTrace
<1> QED BY <1>4, <1>5, <1>6, <1>7 DEF longer, FoldsOn

\* The fold of two sequences in a row is that of the second, from what the first has made.
FoldsInARow(p, V, base, s, r) ==
    /\ FoldValue(p, base, s) \in V
    /\ FoldValue(p, base, s \o r) = FoldValue(p, FoldValue(p, base, s), r)

THEOREM FoldConcat ==
    ASSUME NEW p, NEW X, NEW V, NEW base \in V, NEW s \in Seq(X), NEW r \in Seq(X),
           \A v \in V, y \in X : Op(p, v, y) \in V
    PROVE  FoldsInARow(p, V, base, s, r)
<1> DEFINE n == Len(s)
           k == Len(r)
           c == s \o r
           mid == FoldValue(p, base, s)
<1>1. n \in Nat /\ k \in Nat /\ c \in Seq(X) /\ Len(c) = n + k
      /\ \A i \in 1 .. (n + k) : c[i] = IF i <= n THEN s[i] ELSE r[i - n]
  BY ConcatProperties, LenProperties
<1> HIDE DEF c
<1>2. PICK t \in [0 .. n -> V] : IsTrace(t, p, base, s)
  BY FoldTrace DEF Trace
<1>3. mid = t[n] /\ mid \in V
  <2>1. n \in 0 .. n
    BY <1>1
  <2>2. mid = t[n]
    BY <1>2 DEF IsTrace
  <2> HIDE DEF n, mid
  <2> QED BY <2>1, <2>2
<1> HIDE DEF mid
<1>4. PICK u \in [0 .. k -> V] : IsTrace(u, p, mid, r)
  BY <1>3, FoldTrace DEF Trace
<1>5. PICK w \in [0 .. (n + k) -> V] : IsTrace(w, p, base, c)
  <2>1. Trace(p, V, base, c)
    BY <1>1, FoldTrace
  <2> QED BY <1>1, <2>1 DEF Trace
<1>6. w[n] = mid
  <2> DEFINE T == {i \in 0 .. n : w[i] = t[i]}
  <2>1. 0 \in T
    BY <1>1, <1>2, <1>5 DEF IsTrace
  <2>2. ASSUME NEW i \in 0 .. (n - 1), i \in T PROVE i + 1 \in T
    <3>1. i + 1 \in 1 .. n /\ i + 1 \in 1 .. (n + k) /\ (i + 1) - 1 = i /\ i + 1 <= n
      BY <1>1
    <3>2. t[i + 1] = Op(p, t[i], s[i + 1]) /\ w[i + 1] = Op(p, w[i], c[i + 1])
      BY <1>1, <1>2, <1>5, <3>1 DEF IsTrace
    <3> QED BY <1>1, <2>2, <3>1, <3>2
  <2>3. 0 .. n \subseteq T
    <3> HIDE DEF T, n
    <3> QED BY <1>1, <2>1, <2>2, UpTo
  <2>4. n \in 0 .. n
    BY <1>1
  <2> QED BY <1>3, <2>3, <2>4
<1>7. w[n + k] = u[k]
  <2> DEFINE T == {i \in 0 .. k : w[n + i] = u[i]}
  <2>1. 0 \in T
    BY <1>1, <1>4, <1>6 DEF IsTrace
  <2>2. ASSUME NEW i \in 0 .. (k - 1), i \in T PROVE i + 1 \in T
    <3>1. i + 1 \in 1 .. k /\ n + (i + 1) \in 1 .. (n + k) /\ (i + 1) - 1 = i
          /\ ~(n + (i + 1) <= n) /\ (n + (i + 1)) - n = i + 1 /\ (n + (i + 1)) - 1 = n + i
      <4>1. n \in Nat /\ k \in Nat /\ i \in 0 .. (k - 1)
        BY <1>1
      <4> HIDE DEF n, k
      <4> QED BY <4>1
    <3>2. u[i + 1] = Op(p, u[i], r[i + 1]) /\ w[n + (i + 1)] = Op(p, w[n + i], c[n + (i + 1)])
      BY <1>1, <1>4, <1>5, <3>1 DEF IsTrace
    <3>3. c[n + (i + 1)] = r[i + 1]
      BY <1>1, <3>1
    <3> QED BY <2>2, <3>1, <3>2, <3>3
  <2>3. 0 .. k \subseteq T
    <3> HIDE DEF T, k
    <3> QED BY <1>1, <2>1, <2>2, UpTo
  <2>4. k \in 0 .. k
    BY <1>1
  <2> QED BY <2>3, <2>4
<1>8. FoldValue(p, base, c) = w[n + k] /\ FoldValue(p, mid, r) = u[k]
  BY <1>1, <1>4, <1>5 DEF IsTrace
<1> QED BY <1>3, <1>7, <1>8 DEF FoldsInARow, mid, c

\* What holds of the base, and after each element if before it, holds of the fold: T[i] is
\* the set of values it may have after i elements.
THEOREM FoldInduction ==
    ASSUME NEW p, NEW X, NEW V, NEW base \in V, NEW seq \in Seq(X),
           \A v \in V, x \in X : Op(p, v, x) \in V,
           NEW T \in [0 .. Len(seq) -> SUBSET V], base \in T[0],
           \A i \in 0 .. (Len(seq) - 1) : \A v \in T[i] : Op(p, v, seq[i + 1]) \in T[i + 1]
    PROVE  FoldValue(p, base, seq) \in V /\ FoldValue(p, base, seq) \in T[Len(seq)]
<1> DEFINE n == Len(seq)
<1>1. n \in Nat
  OBVIOUS
<1>2. PICK t \in [0 .. n -> V] : IsTrace(t, p, base, seq)
  BY FoldTrace DEF Trace
<1> DEFINE U == {i \in 0 .. n : t[i] \in T[i]}
<1>3. 0 \in U
  BY <1>1, <1>2 DEF IsTrace
<1>4. ASSUME NEW i \in 0 .. (n - 1), i \in U PROVE i + 1 \in U
  <2>1. i + 1 \in 1 .. n /\ i + 1 \in 0 .. n /\ (i + 1) - 1 = i
    BY <1>1
  <2>2. t[i + 1] = Op(p, t[i], seq[i + 1])
    BY <1>2, <2>1 DEF IsTrace
  <2> QED BY <1>4, <2>1, <2>2
<1>5. n \in U
  <2> HIDE DEF U
  <2>1. 0 .. n \subseteq U
    BY <1>1, <1>3, <1>4, UpTo
  <2> QED BY <1>1, <2>1
<1> QED BY <1>1, <1>2, <1>5 DEF IsTrace

\* Two parameters for which the operator is the same have the same fold.
THEOREM FoldSame ==
    ASSUME NEW p, NEW q, NEW X, NEW V, NEW base \in V, NEW seq \in Seq(X),
           \A v \in V, x \in X : Op(p, v, x) \in V /\ Op(q, v, x) = Op(p, v, x)
    PROVE  FoldValue(p, base, seq) = FoldValue(q, base, seq)
<1> DEFINE n == Len(seq)
<1>1. n \in Nat /\ \A i \in 1 .. n : seq[i] \in X
  BY ElementOfSeq
<1>2. PICK t \in [0 .. n -> V] : IsTrace(t, p, base, seq)
  BY FoldTrace DEF Trace
<1> DEFINE T == [i \in 0 .. n |-> {t[i]}]
<1>3. T \in [0 .. n -> SUBSET V] /\ base \in T[0]
  BY <1>1, <1>2 DEF IsTrace
<1>4. ASSUME NEW i \in 0 .. (n - 1), NEW v \in T[i] PROVE Op(q, v, seq[i + 1]) \in T[i + 1]
  <2>1. i + 1 \in 1 .. n /\ i + 1 \in 0 .. n /\ (i + 1) - 1 = i /\ i \in 0 .. n
    BY <1>1
  <2>2. t[i + 1] = Op(p, t[i], seq[i + 1])
    BY <1>2, <2>1 DEF IsTrace
  <2>3. v = t[i] /\ v \in V
    BY <2>1
  <2> QED BY <1>1, <2>1, <2>2, <2>3
<1>5. T[n] = {FoldValue(p, base, seq)}
  BY <1>1, <1>2 DEF IsTrace
<1>6. FoldValue(q, base, seq) \in T[n]
  <2> HIDE DEF T, n
  <2>1. \A v \in V, x \in X : Op(q, v, x) \in V
    OBVIOUS
  <2> QED BY <1>3, <1>4, <2>1, FoldInduction DEF n
<1> QED BY <1>5, <1>6

-----------------------------------------------------------------------------
(* Functions that are defined by recursion: Op(p, f, k) is the value at k, and *)
(* depends on f below k only.                                                 *)

RecursiveValue(p, n) == CHOOSE f : f = [k \in 1 .. n |-> Op(p, f, k)]

Recursive(p, V, n) ==
    \A k \in 1 .. n : \A f \in [1 .. (k - 1) -> V] :
        /\ Op(p, f, k) \in V
        /\ \A g : (\A j \in 1 .. (k - 1) : g[j] = f[j]) => Op(p, g, k) = Op(p, f, k)

\* The value at k depends on those below it only.
LEMMA SameBelow ==
    ASSUME NEW n \in Nat, NEW V, NEW p, Recursive(p, V, n), NEW k \in 1 .. n, NEW f, NEW g,
           \A j \in 1 .. (k - 1) : f[j] \in V /\ g[j] = f[j]
    PROVE  Op(p, f, k) = Op(p, g, k) /\ Op(p, f, k) \in V
<1> DEFINE r == [j \in 1 .. (k - 1) |-> f[j]]
<1>1. r \in [1 .. (k - 1) -> V]
      /\ (\A j \in 1 .. (k - 1) : f[j] = r[j]) /\ (\A j \in 1 .. (k - 1) : g[j] = r[j])
  OBVIOUS
<1> HIDE DEF r
<1>2. Op(p, r, k) \in V /\ Op(p, f, k) = Op(p, r, k) /\ Op(p, g, k) = Op(p, r, k)
  BY <1>1 DEF Recursive
<1> QED BY <1>2

\* There is a function of the first n values.
LEMMA RecursionExists ==
    ASSUME NEW n \in Nat, NEW V, NEW p,
           Recursive(p, V, n)
    PROVE  \E f \in [1 .. n -> V] : \A k \in 1 .. n : f[k] = Op(p, f, k)
<1> DEFINE P(m) == \E f \in [1 .. m -> V] : \A k \in 1 .. m : f[k] = Op(p, f, k)
           T == {m \in 0 .. n : P(m)}
<1>1. 0 \in T
  <2> DEFINE e == [k \in 1 .. 0 |-> k]
  <2>1. 1 .. 0 = {}
    OBVIOUS
  <2>2. e \in [1 .. 0 -> V]
    BY <2>1
  <2>3. \A k \in 1 .. 0 : e[k] = Op(p, e, k)
    BY <2>1
  <2>4. P(0)
    <3> HIDE DEF e
    <3> QED BY <2>2, <2>3
  <2> HIDE DEF P
  <2> QED BY <2>4
<1>2. ASSUME NEW m \in 0 .. (n - 1), m \in T PROVE m + 1 \in T
  <2>1. PICK f \in [1 .. m -> V] : \A k \in 1 .. m : f[k] = Op(p, f, k)
    BY <1>2
  <2> DEFINE x == Op(p, f, m + 1)
             g == [k \in 1 .. (m + 1) |-> IF k = m + 1 THEN x ELSE f[k]]
  <2>2. m + 1 \in 1 .. n /\ (m + 1) - 1 = m /\ m + 1 \in 0 .. n
    OBVIOUS
  <2>3. x \in V
    BY <2>2 DEF Recursive
  <2> HIDE DEF x
  <2>4. \A k \in 1 .. m : k \in 1 .. (m + 1) /\ k # m + 1 /\ k \in 1 .. n
    OBVIOUS
  <2>5. g \in [1 .. (m + 1) -> V]
    BY <2>3
  <2>6. (\A k \in 1 .. m : g[k] = f[k]) /\ g[m + 1] = x
    BY <2>4
  <2> HIDE DEF g
  <2>7. ASSUME NEW k \in 1 .. (m + 1) PROVE g[k] = Op(p, g, k)
    <3>1. CASE k = m + 1
      <4>1. Op(p, g, m + 1) = Op(p, f, m + 1)
        BY <2>2, <2>6, SameBelow
      <4> QED BY <2>6, <3>1, <4>1 DEF x
    <3>2. CASE k # m + 1
      <4>1. k \in 1 .. m /\ \A j \in 1 .. (k - 1) : j \in 1 .. m
        BY <3>2
      <4>2. Op(p, g, k) = Op(p, f, k)
        BY <2>4, <2>6, <4>1, SameBelow
      <4> QED BY <2>1, <2>6, <4>1, <4>2
    <3> QED BY <3>1, <3>2
  <2>8. P(m + 1)
    BY <2>5, <2>7
  <2> QED BY <2>2, <2>8
<1>3. n \in T
  <2> HIDE DEF T
  <2>1. 0 .. n \subseteq T
    BY <1>1, <1>2, UpTo
  <2> QED BY <2>1
<1> QED BY <1>3

\* The recursive function is what its definition says.
THEOREM Recursion ==
    ASSUME NEW n \in Nat, NEW V, NEW p,
           Recursive(p, V, n)
    PROVE  /\ RecursiveValue(p, n) \in [1 .. n -> V]
           /\ \A k \in 1 .. n : RecursiveValue(p, n)[k] = Op(p, RecursiveValue(p, n), k)
<1> DEFINE f == RecursiveValue(p, n)
<1>1. f = [k \in 1 .. n |-> Op(p, f, k)]
  <2>1. PICK g \in [1 .. n -> V] : \A k \in 1 .. n : g[k] = Op(p, g, k)
    BY RecursionExists
  <2>2. g = [k \in 1 .. n |-> Op(p, g, k)]
    BY <2>1
  <2> QED BY <2>2 DEF RecursiveValue
<1> HIDE DEF f
<1>2. DOMAIN f = 1 .. n /\ \A k \in 1 .. n : f[k] = Op(p, f, k)
  BY <1>1
<1> DEFINE T == {m \in 0 .. n : \A k \in 1 .. m : f[k] \in V}
<1>3. 0 \in T
  OBVIOUS
<1>4. ASSUME NEW m \in 0 .. (n - 1), m \in T PROVE m + 1 \in T
  <2> DEFINE r == [k \in 1 .. m |-> f[k]]
  <2>1. r \in [1 .. m -> V] /\ \A k \in 1 .. m : r[k] = f[k]
    BY <1>4
  <2>2. m + 1 \in 1 .. n /\ (m + 1) - 1 = m /\ m + 1 \in 0 .. n
    OBVIOUS
  <2> HIDE DEF r
  <2>3. Op(p, r, m + 1) \in V /\ Op(p, f, m + 1) = Op(p, r, m + 1)
    BY <2>1, <2>2 DEF Recursive
  <2>4. f[m + 1] \in V
    BY <1>2, <2>2, <2>3
  <2>5. \A k \in 1 .. (m + 1) : k = m + 1 \/ k \in 1 .. m
    OBVIOUS
  <2> QED BY <1>4, <2>2, <2>4, <2>5
<1>5. n \in T
  <2> HIDE DEF T
  <2>1. 0 .. n \subseteq T
    BY <1>3, <1>4, UpTo
  <2> QED BY <2>1
<1>6. f \in [1 .. n -> V]
  BY <1>1, <1>2, <1>5
<1> QED BY <1>2, <1>6 DEF f
=============================================================================
