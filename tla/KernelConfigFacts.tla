-------------------------- MODULE KernelConfigFacts --------------------------
(*****************************************************************************)
(* What the operators of KernelConfig do to files and lists of files of any   *)
(* length: merging, listing, sorting, parsing, checking, what Kconfig makes   *)
(* of a file, and depsets.  Its folds and recursive functions are unrolled by *)
(* SequenceFolds, one instance for each.                                      *)
(*****************************************************************************)
EXTENDS KernelConfig, SequenceTheorems, TLAPS

AnyFold == INSTANCE SequenceFolds WITH Op <- LAMBDA p, a, x : a
KeepFold == INSTANCE SequenceFolds WITH Op <- LAMBDA ks, kept, l : KeepOther(ks, kept, l)
ListFold == INSTANCE SequenceFolds WITH Op <- LAMBDA p, lines, k : List(p.val, p.ks, lines, k)
ListedFold == INSTANCE SequenceFolds WITH Op <- LAMBDA p, done, f : Listed(done, f)
DepFold == INSTANCE SequenceFolds WITH Op <- LAMBDA files, done, d : ListAll(done, files[d])
SortFold == INSTANCE SequenceFolds WITH Op <- LAMBDA p, sorted, l : SortIn(sorted, l)
JoinFold == INSTANCE SequenceFolds WITH Op <- LAMBDA p, lines, f : lines \o f
ParseFold == INSTANCE SequenceFolds WITH Op <- LAMBDA p, m, f : ParseOver(m, f)
MergeFold == INSTANCE SequenceFolds WITH Op <- LAMBDA p, lines, f : MergeOne(lines, f)

\* l is the last line of option k.
Ends(lines, k, l) ==
    \E i \in 1 .. Len(lines) :
        lines[i] = l /\ l.key = k /\ \A j \in (i + 1) .. Len(lines) : lines[j].key # k

\* The kinds of lines, and which of them name an option.
LEMMA LineTypes ==
    /\ \A l \in OptionLines : l.key \in Option /\ l.key # 0 /\ l.key \in Nat
                              /\ l.val \in {"y", "n"} /\ l.nocheck \in BOOLEAN
                              /\ l = OptionLine(l.key, l.val, l.nocheck) /\ l \in Lines
    /\ Remarks.key = 0 /\ BadLine.key = 0 /\ Remarks \in Lines /\ BadLine \in Lines
    /\ \A l \in Lines : l \in OptionLines \/ l.key = 0
    /\ \A l \in Lines : l.key \in Nat
BY KernelConfigAssumption DEF Lines, OptionLines, OptionLine, Option, Remarks, BadLine

\* The line of an option is one.
LEMMA LineIn ==
    ASSUME NEW k \in Option, NEW v \in {"y", "n"}, NEW c \in BOOLEAN
    PROVE  OptionLine(k, v, c) \in OptionLines
BY DEF OptionLines, OptionLine

\* The options of a file are those of its lines.
LEMMA KeysTyped ==
    ASSUME NEW lines \in Seq(Lines)
    PROVE  /\ KeysIn(lines) \in SUBSET Option
           /\ \A k : k \in KeysIn(lines) <=> k \in Option /\ \E i \in 1 .. Len(lines) : lines[i].key = k
           /\ \A i \in 1 .. Len(lines) : lines[i] \in Lines
           /\ 0 \notin KeysIn(lines)
<1>1. \A i \in 1 .. Len(lines) : lines[i] \in Lines
  BY ElementOfSeq
<1>2. DOMAIN lines = 1 .. Len(lines)
  OBVIOUS
<1>3. 0 \notin Option
  BY KernelConfigAssumption DEF Option
<1>4. \A k : k \in KeysIn(lines) <=> k # 0 /\ \E i \in 1 .. Len(lines) : lines[i].key = k
  BY <1>2 DEF KeysIn, ToSet
<1> QED BY <1>1, <1>3, <1>4, LineTypes

\* A last line of an option is what LastOf finds.
LEMMA EndIs ==
    ASSUME NEW lines \in Seq(Lines), NEW k \in Option, NEW l, Ends(lines, k, l)
    PROVE  LastOf(lines, k) = l /\ k \in KeysIn(lines)
<1> DEFINE n == Len(lines)
           s == {i \in 1 .. n : lines[i].key = k}
<1>1. PICK i \in 1 .. n : lines[i] = l /\ l.key = k /\ \A j \in (i + 1) .. n : lines[j].key # k
  BY DEF Ends
<1>2. n \in Nat
  OBVIOUS
<1>3. s \in SUBSET (1 .. n) /\ i \in s
  BY <1>1
<1>4. \A y \in s : i >= y
  <2> HIDE DEF n
  <2> QED BY <1>1, <1>2
<1>5. \A x \in s : (\A y \in s : x >= y) => x = i
  <2> HIDE DEF n
  <2> QED BY <1>2, <1>3, <1>4
<1>6. (CHOOSE x \in s : \A y \in s : x >= y) = i
  <2> HIDE DEF s, n
  <2> QED BY <1>3, <1>4, <1>5
<1>7. LastOf(lines, k) = lines[i]
  BY <1>3, <1>6 DEF LastOf, SelectLastInSeq, Max
<1> QED BY <1>1, <1>7, KeysTyped

\* An option of a file has a last line, and LastOf finds it.
LEMMA LastEnds ==
    ASSUME NEW lines \in Seq(Lines), NEW k \in KeysIn(lines)
    PROVE  /\ Ends(lines, k, LastOf(lines, k)) /\ LastOf(lines, k) \in OptionLines
           /\ LastOf(lines, k).key = k /\ LastOf(lines, k) \in ToSet(lines)
           /\ LastOf(lines, k).val \in {"y", "n"} /\ LastOf(lines, k).nocheck \in BOOLEAN
<1> DEFINE n == Len(lines)
           s == {i \in 1 .. n : lines[i].key = k}
           g == AnyFold!Greatest(s)
<1>1. n \in Nat /\ s \in SUBSET (1 .. n) /\ s # {}
  BY KeysTyped
<1>2. g \in s /\ \A y \in s : g >= y
  <2> HIDE DEF s, n
  <2> QED BY <1>1, AnyFold!HasGreatest
<1>3. LastOf(lines, k) = lines[g]
  BY <1>1 DEF LastOf, SelectLastInSeq, Max, AnyFold!Greatest
<1> HIDE DEF g
<1>4. \A j \in (g + 1) .. n : lines[j].key # k
  BY <1>1, <1>2
<1>5. Ends(lines, k, LastOf(lines, k))
  BY <1>2, <1>3, <1>4 DEF Ends
<1>6. lines[g] \in Lines /\ lines[g].key = k /\ k # 0
  BY <1>2, KeysTyped
<1>7. lines[g] \in ToSet(lines)
  BY <1>2 DEF ToSet
<1> QED BY <1>3, <1>5, <1>6, <1>7, LineTypes

\* Of two files one after the other, the second counts.
LEMMA JoinFacts ==
    ASSUME NEW a \in Seq(Lines), NEW b \in Seq(Lines)
    PROVE  /\ a \o b \in Seq(Lines)
           /\ KeysIn(a \o b) = KeysIn(a) \cup KeysIn(b)
           /\ \A k \in KeysIn(b) : LastOf(a \o b, k) = LastOf(b, k)
           /\ \A k \in KeysIn(a) \ KeysIn(b) : LastOf(a \o b, k) = LastOf(a, k)
           /\ ToSet(a \o b) = ToSet(a) \cup ToSet(b)
<1> DEFINE c == a \o b
           m == Len(a)
           n == Len(b)
<1>1. /\ c \in Seq(Lines) /\ Len(c) = m + n /\ m \in Nat /\ n \in Nat
      /\ (\A i \in 1 .. m : c[i] = a[i]) /\ (\A i \in (m + 1) .. (m + n) : c[i] = b[i - m])
  BY ConcatProperties
<1>2. \A j \in 1 .. n : m + j \in 1 .. (m + n) /\ c[m + j] = b[j]
  <2> HIDE DEF m, n, c
  <2>1. ASSUME NEW j \in 1 .. n PROVE m + j \in (m + 1) .. (m + n) /\ (m + j) - m = j /\ m + j \in 1 .. (m + n)
    BY <1>1
  <2> QED BY <1>1, <2>1
<1> HIDE DEF c
<1>3. \A x : (\E i \in 1 .. (m + n) : c[i] = x)
             <=> (\E i \in 1 .. m : a[i] = x) \/ (\E i \in 1 .. n : b[i] = x)
  <2> HIDE DEF m, n
  <2>1. \A i \in 1 .. (m + n) : i \in 1 .. m \/ (i \in (m + 1) .. (m + n) /\ i - m \in 1 .. n)
    BY <1>1
  <2>2. \A i \in 1 .. m : i \in 1 .. (m + n)
    BY <1>1
  <2> QED BY <1>1, <1>2, <2>1, <2>2
<1>4. ToSet(c) = ToSet(a) \cup ToSet(b)
  <2>1. DOMAIN c = 1 .. (m + n) /\ DOMAIN a = 1 .. m /\ DOMAIN b = 1 .. n
    BY <1>1
  <2>2. /\ \A x : x \in ToSet(c) <=> \E i \in 1 .. (m + n) : c[i] = x
        /\ \A x : x \in ToSet(a) <=> \E i \in 1 .. m : a[i] = x
        /\ \A x : x \in ToSet(b) <=> \E i \in 1 .. n : b[i] = x
    BY <2>1 DEF ToSet
  <2> HIDE DEF m, n
  <2> QED BY <1>3, <2>2
<1>5. KeysIn(c) = KeysIn(a) \cup KeysIn(b)
  BY <1>4 DEF KeysIn
<1>6. ASSUME NEW k \in KeysIn(b) PROVE LastOf(c, k) = LastOf(b, k)
  <2>1. PICK i \in 1 .. n : LastOf(b, k) = b[i] /\ b[i].key = k /\ \A j \in (i + 1) .. n : b[j].key # k
    BY LastEnds DEF Ends
  <2>2. \A j \in (m + i + 1) .. (m + n) : c[j].key # k
    <3> HIDE DEF m, n
    <3>1. \A j \in (m + i + 1) .. (m + n) : j \in (m + 1) .. (m + n) /\ j - m \in (i + 1) .. n
      BY <1>1
    <3> QED BY <1>1, <2>1, <3>1
  <2>3. Ends(c, k, b[i])
    BY <1>1, <1>2, <2>1, <2>2 DEF Ends
  <2>4. k \in Option
    BY KeysTyped
  <2> QED BY <1>1, <2>1, <2>3, <2>4, EndIs
<1>7. ASSUME NEW k \in KeysIn(a) \ KeysIn(b) PROVE LastOf(c, k) = LastOf(a, k)
  <2>1. PICK i \in 1 .. m : LastOf(a, k) = a[i] /\ a[i].key = k /\ \A j \in (i + 1) .. m : a[j].key # k
    BY LastEnds DEF Ends
  <2>2. k \in Option /\ \A j \in 1 .. n : b[j].key # k
    BY KeysTyped
  <2>3. \A j \in (i + 1) .. (m + n) : c[j].key # k
    <3> HIDE DEF m, n
    <3>1. \A j \in (i + 1) .. (m + n) : \/ j \in (i + 1) .. m /\ j \in 1 .. m
                                       \/ (j \in (m + 1) .. (m + n) /\ j - m \in 1 .. n)
      BY <1>1
    <3> QED BY <1>1, <2>1, <2>2, <3>1
  <2>4. i \in 1 .. Len(c)
    BY <1>1
  <2>5. c[i] = a[i]
    BY <1>1
  <2>6. Ends(c, k, a[i])
    BY <1>1, <2>1, <2>3, <2>4, <2>5 DEF Ends
  <2> QED BY <1>1, <2>1, <2>2, <2>6, EndIs
<1> QED BY <1>1, <1>4, <1>5, <1>6, <1>7 DEF c

\* A line at the end of a file is the last of its option.
LEMMA AppendFacts ==
    ASSUME NEW a \in Seq(Lines), NEW l \in Lines
    PROVE  /\ Append(a, l) \in Seq(Lines)
           /\ KeysIn(Append(a, l)) = KeysIn(a) \cup ({l.key} \ {0})
           /\ l.key # 0 => LastOf(Append(a, l), l.key) = l
           /\ \A k \in KeysIn(a) \ {l.key} : LastOf(Append(a, l), k) = LastOf(a, k)
           /\ ToSet(Append(a, l)) = ToSet(a) \cup {l}
<1> DEFINE b == <<l>>
<1>1. b \in Seq(Lines) /\ Len(b) = 1 /\ b[1] = l /\ DOMAIN b = {1}
  OBVIOUS
<1>2. Append(a, l) = a \o b
  BY AppendIsConcat
<1> HIDE DEF b
<1>3. ToSet(b) = {l} /\ KeysIn(b) = {l.key} \ {0}
  BY <1>1 DEF KeysIn, ToSet
<1>4. l.key # 0 => LastOf(b, l.key) = l
  <2>1. ASSUME l.key # 0 PROVE LastOf(b, l.key) = l
    <3>1. l.key \in Option
      BY <2>1, LineTypes
    <3>2. Ends(b, l.key, l)
      BY <1>1 DEF Ends
    <3> QED BY <1>1, <3>1, <3>2, EndIs
  <2> QED BY <2>1
<1> QED BY <1>1, <1>2, <1>3, <1>4, JoinFacts

\* The empty file has no options.
LEMMA EmptyFacts ==
    /\ <<>> \in Seq(Lines) /\ KeysIn(<<>>) = {} /\ ToSet(<<>>) = {}
<1>1. DOMAIN <<>> = {}
  OBVIOUS
<1> QED BY <1>1, EmptySeq DEF KeysIn, ToSet

-----------------------------------------------------------------------------
(* Without *)

\* w has the lines of s but those of ks.
IsWithout(w, s, ks) ==
    /\ KeysIn(w) = KeysIn(s) \ ks
    /\ \A k \in KeysIn(w) : LastOf(w, k) = LastOf(s, k)
    /\ ToSet(w) = {l \in ToSet(s) : l.key \notin ks}

\* Leaving options out of a file leaves the others as they are.
LEMMA WithoutFacts ==
    ASSUME NEW lines \in Seq(Lines), NEW ks
    PROVE  Without(lines, ks) \in Seq(Lines) /\ IsWithout(Without(lines, ks), lines, ks)
<1> DEFINE V == Seq(Lines)
           n == Len(lines)
           P(i) == SubSeq(lines, 1, i)
           T == [i \in 0 .. n |-> {w \in V : IsWithout(w, P(i), ks)}]
<1>1. n \in Nat /\ <<>> \in V
  BY EmptyFacts
<1>2. \A w \in V, l \in Lines : KeepOther(ks, w, l) \in V
  BY AppendFacts DEF KeepOther
<1>3. /\ P(0) = <<>> /\ P(n) = lines
      /\ \A i \in 1 .. n : P(i) = Append(P(i - 1), lines[i]) /\ P(i - 1) \in V
  BY AnyFold!Prefixes
<1>4. IsWithout(<<>>, <<>>, ks)
  BY EmptyFacts DEF IsWithout
<1> HIDE DEF V, P
<1>5. ASSUME NEW i \in 0 .. (n - 1), NEW w \in T[i]
      PROVE  KeepOther(ks, w, lines[i + 1]) \in T[i + 1]
  <2> DEFINE l == lines[i + 1]
             s == P(i)
  <2>1. i + 1 \in 1 .. n /\ (i + 1) - 1 = i /\ i \in 0 .. n /\ i + 1 \in 0 .. n
    BY <1>1
  <2>2. w \in V /\ IsWithout(w, s, ks)
    BY <2>1
  <2>3. P(i + 1) = Append(s, l) /\ s \in V /\ l \in Lines
    BY <1>3, <2>1, ElementOfSeq
  <2> HIDE DEF s, l
  <2>4. w \in Seq(Lines) /\ s \in Seq(Lines)
    BY <2>2, <2>3 DEF V
  <2>5. /\ KeysIn(Append(s, l)) = KeysIn(s) \cup ({l.key} \ {0})
        /\ l.key # 0 => LastOf(Append(s, l), l.key) = l
        /\ \A k \in KeysIn(s) \ {l.key} : LastOf(Append(s, l), k) = LastOf(s, k)
        /\ ToSet(Append(s, l)) = ToSet(s) \cup {l}
    BY <2>3, <2>4, AppendFacts
  <2>6. CASE l.key \in ks
    <3>1. IsWithout(w, Append(s, l), ks)
      BY <2>2, <2>5, <2>6 DEF IsWithout
    <3>2. KeepOther(ks, w, l) = w
      BY <2>6 DEF KeepOther
    <3> QED BY <2>1, <2>2, <2>3, <3>1, <3>2 DEF l
  <2>7. CASE l.key \notin ks
    <3>1. /\ KeysIn(Append(w, l)) = KeysIn(w) \cup ({l.key} \ {0})
          /\ l.key # 0 => LastOf(Append(w, l), l.key) = l
          /\ \A k \in KeysIn(w) \ {l.key} : LastOf(Append(w, l), k) = LastOf(w, k)
          /\ ToSet(Append(w, l)) = ToSet(w) \cup {l} /\ Append(w, l) \in Seq(Lines)
      BY <2>3, <2>4, AppendFacts
    <3>2. KeysIn(Append(w, l)) = KeysIn(Append(s, l)) \ ks
      BY <2>2, <2>5, <2>7, <3>1 DEF IsWithout
    <3>3. ASSUME NEW k \in KeysIn(Append(w, l))
          PROVE  LastOf(Append(w, l), k) = LastOf(Append(s, l), k)
      <4>1. 0 \notin KeysIn(Append(w, l))
        BY <3>1, KeysTyped
      <4>2. CASE k = l.key
        BY <2>5, <3>1, <3>3, <4>1, <4>2
      <4>3. CASE k # l.key
        <5>1. k \in KeysIn(w) /\ k \in KeysIn(s)
          BY <2>2, <3>1, <3>3, <4>3 DEF IsWithout
        <5> QED BY <2>2, <2>5, <3>1, <4>3, <5>1 DEF IsWithout
      <4> QED BY <4>2, <4>3
    <3>4. ToSet(Append(w, l)) = {x \in ToSet(Append(s, l)) : x.key \notin ks}
      BY <2>2, <2>5, <2>7, <3>1 DEF IsWithout
    <3>5. IsWithout(Append(w, l), Append(s, l), ks)
      BY <3>2, <3>3, <3>4 DEF IsWithout
    <3>6. KeepOther(ks, w, l) = Append(w, l)
      BY <2>7 DEF KeepOther
    <3> QED BY <2>1, <2>3, <3>1, <3>5, <3>6 DEF l, V
  <2> QED BY <2>6, <2>7
<1>6. T \in [0 .. n -> SUBSET V] /\ <<>> \in T[0]
  BY <1>1, <1>3, <1>4
<1>7. T[n] = {w \in V : IsWithout(w, lines, ks)}
  BY <1>1, <1>3
<1> HIDE DEF T
<1>8. KeepFold!FoldValue(ks, <<>>, lines) \in T[n]
  BY <1>1, <1>2, <1>5, <1>6, KeepFold!FoldInduction
<1>9. Without(lines, ks) = KeepFold!FoldValue(ks, <<>>, lines)
  BY DEF Without, FoldLeft, MapThenFoldSet, Max, KeepFold!FoldValue, KeepFold!Greatest
<1> QED BY <1>7, <1>8, <1>9 DEF V
-----------------------------------------------------------------------------
(* Merging and listing *)

\* A fragment overrides the file it is merged into, which has none of its old lines.
LEMMA MergeOneFacts ==
    ASSUME NEW a \in Seq(Lines), NEW f \in Seq(Lines)
    PROVE  /\ MergeOne(a, f) \in Seq(Lines)
           /\ KeysIn(MergeOne(a, f)) = KeysIn(a) \cup KeysIn(f)
           /\ \A k \in KeysIn(f) : LastOf(MergeOne(a, f), k) = LastOf(f, k)
           /\ \A k \in KeysIn(a) \ KeysIn(f) : LastOf(MergeOne(a, f), k) = LastOf(a, k)
           /\ \A l \in ToSet(MergeOne(a, f)) : l.key \in KeysIn(f) => l \in ToSet(f)
<1> DEFINE w == Without(a, KeysIn(f))
<1>1. w \in Seq(Lines) /\ IsWithout(w, a, KeysIn(f))
  BY WithoutFacts
<1> HIDE DEF w
<1>2. MergeOne(a, f) = w \o f
  BY DEF MergeOne, w
<1> QED BY <1>1, <1>2, JoinFacts DEF IsWithout

\* The lines that say the value of the options of ks, and nothing else.
Lists(lines, val, ks) ==
    /\ KeysIn(lines) = ks
    /\ \A k \in ks : LastOf(lines, k) = OptionLine(k, val[k], FALSE)
    /\ \A l \in ToSet(lines) : l.key \in ks /\ l = OptionLine(l.key, val[l.key], FALSE)

\* A listing has one line for each option that is listed, with its value.
LEMMA ListingFacts ==
    ASSUME NEW val, NEW ks \in SUBSET Option, \A k \in ks : val[k] \in {"y", "n"}
    PROVE  Listing(val, ks) \in Seq(Lines) /\ Lists(Listing(val, ks), val, ks)
<1> DEFINE V == Seq(Lines)
           o == [k \in Option |-> k]
           n == Options
           p == [val |-> val, ks |-> ks]
           T == [i \in 0 .. n |-> {w \in V : Lists(w, val, ks \cap (1 .. i))}]
<1>1. n \in Nat /\ o \in Seq(Option) /\ Len(o) = n /\ Option = 1 .. n
  BY KernelConfigAssumption DEF Option
<1>2. ASSUME NEW k \in ks PROVE OptionLine(k, val[k], FALSE) \in Lines
  <2>1. k \in Option /\ val[k] \in {"y", "n"} /\ FALSE \in BOOLEAN
    OBVIOUS
  <2> QED BY <2>1, LineIn, LineTypes
<1>3. p.val = val /\ p.ks = ks
  OBVIOUS
<1> HIDE DEF p
<1>4. \A w \in V, k \in Option : List(p.val, p.ks, w, k) \in V
  BY <1>2, <1>3, AppendFacts DEF List
<1>5. Lists(<<>>, val, {}) /\ <<>> \in V
  BY EmptyFacts DEF Lists
<1> HIDE DEF V
<1>6. ASSUME NEW i \in 0 .. (n - 1), NEW w \in T[i]
      PROVE  List(p.val, p.ks, w, o[i + 1]) \in T[i + 1]
  <2> DEFINE k == i + 1
             s == ks \cap (1 .. i)
             l == OptionLine(k, val[k], FALSE)
  <2>1. k \in 1 .. n /\ i \in 0 .. n /\ k \in 0 .. n /\ k # 0 /\ k \notin s /\ k \in Option
        /\ ks \cap (1 .. k) = IF k \in ks THEN s \cup {k} ELSE s
    BY <1>1
  <2>2. w \in V /\ Lists(w, val, s)
    BY <2>1
  <2>3. o[i + 1] = k
    BY <1>1, <2>1
  <2> HIDE DEF k, s, l
  <2>4. CASE k \in ks
    <3>1. l \in Lines /\ l.key = k /\ w \in Seq(Lines)
      BY <1>2, <2>2, <2>4 DEF V, l, OptionLine
    <3>2. /\ Append(w, l) \in V
          /\ KeysIn(Append(w, l)) = KeysIn(w) \cup ({l.key} \ {0})
          /\ l.key # 0 => LastOf(Append(w, l), l.key) = l
          /\ \A j \in KeysIn(w) \ {l.key} : LastOf(Append(w, l), j) = LastOf(w, j)
          /\ ToSet(Append(w, l)) = ToSet(w) \cup {l}
      BY <3>1, AppendFacts DEF V
    <3>3. KeysIn(Append(w, l)) = s \cup {k}
      BY <2>1, <2>2, <3>1, <3>2 DEF Lists
    <3>4. \A j \in s \cup {k} : LastOf(Append(w, l), j) = OptionLine(j, val[j], FALSE)
      BY <2>1, <2>2, <3>1, <3>2 DEF Lists, l
    <3>5. \A x \in ToSet(Append(w, l)) :
             x.key \in s \cup {k} /\ x = OptionLine(x.key, val[x.key], FALSE)
      BY <2>1, <2>2, <3>1, <3>2 DEF Lists, l
    <3>6. Lists(Append(w, l), val, s \cup {k})
      BY <3>3, <3>4, <3>5 DEF Lists
    <3>7. List(p.val, p.ks, w, k) = Append(w, l)
      BY <1>3, <2>4 DEF List, l
    <3> QED BY <2>1, <2>3, <2>4, <3>2, <3>6, <3>7 DEF k
  <2>5. CASE k \notin ks
    <3>1. List(p.val, p.ks, w, k) = w
      BY <1>3, <2>5 DEF List
    <3> QED BY <2>1, <2>2, <2>3, <2>5, <3>1 DEF k
  <2> QED BY <2>4, <2>5
<1>7. T \in [0 .. n -> SUBSET V] /\ <<>> \in T[0]
  <2>1. ks \cap (1 .. 0) = {} /\ 0 \in 0 .. n
    BY <1>1
  <2> QED BY <1>5, <2>1
<1>8. T[n] = {w \in V : Lists(w, val, ks)}
  <2>1. ks \cap (1 .. n) = ks /\ n \in 0 .. n
    <3> HIDE DEF n
    <3>1. n \in 0 .. n /\ ks \subseteq 1 .. n
      BY <1>1
    <3> QED BY <3>1
  <2> QED BY <2>1
<1> HIDE DEF T, o
<1>9. ListFold!FoldValue(p, <<>>, o) \in T[n]
  BY <1>1, <1>4, <1>5, <1>6, <1>7, ListFold!FoldInduction
<1>10. Listing(val, ks) = ListFold!FoldValue(p, <<>>, o)
  BY <1>3 DEF o, Listing, FoldLeft, MapThenFoldSet, Max, ListFold!FoldValue, ListFold!Greatest
<1> QED BY <1>8, <1>9, <1>10 DEF V

-----------------------------------------------------------------------------
(* What Kconfig makes of the lines of a file *)

Kconfigs == [declared : SUBSET Option, needs : Earlier, follows : Earlier]
Values == {"y", "n", "absent"}

\* The value of option k, given those of the options before it.
ValueOf(p, val, k) ==
    IF ~Visible(p.kconfig, val, k) THEN "absent"
    ELSE IF k \in KeysIn(p.lines) THEN LastOf(p.lines, k).val
    ELSE DefaultOf(p.kconfig, val, k)

ConfigRec == INSTANCE SequenceFolds WITH Op <- LAMBDA p, val, k : ValueOf(p, val, k)

IsConfigured(val, kconfig, lines) ==
    /\ val \in [Option -> Values]
    /\ \A k \in Option : val[k] = ValueOf([kconfig |-> kconfig, lines |-> lines], val, k)

\* An option needs and follows options before it.
LEMMA EarlierFacts ==
    ASSUME NEW kc \in Kconfigs, NEW k \in Option
    PROVE  /\ kc.needs[k] # 0 => kc.needs[k] \in 1 .. (k - 1) /\ kc.needs[k] \in Option
           /\ kc.follows[k] # 0 => kc.follows[k] \in 1 .. (k - 1) /\ kc.follows[k] \in Option
<1>1. ASSUME NEW f \in Earlier, f[k] # 0 PROVE f[k] \in 1 .. (k - 1) /\ f[k] \in Option
  <2>1. f[k] \in 0 .. Options /\ f[k] < k /\ k \in 1 .. Options /\ Options \in Nat
    BY KernelConfigAssumption DEF Earlier, Option
  <2> QED BY <1>1, <2>1 DEF Option
<1>2. kc.needs \in Earlier /\ kc.follows \in Earlier
  BY DEF Kconfigs
<1> QED BY <1>1, <1>2

\* The value of an option is determined by those of the options before it.
LEMMA ValuesDetermined ==
    ASSUME NEW kc \in Kconfigs, NEW lines \in Seq(Lines)
    PROVE  ConfigRec!Recursive([kconfig |-> kc, lines |-> lines], Values, Options)
<1> DEFINE p == [kconfig |-> kc, lines |-> lines]
<1>1. p.kconfig = kc /\ p.lines = lines
  OBVIOUS
<1> HIDE DEF p
<1>2. \A k \in KeysIn(lines) : LastOf(lines, k).val \in Values
  BY LastEnds DEF Values
<1>3. ASSUME NEW k \in 1 .. Options, NEW f \in [1 .. (k - 1) -> Values]
      PROVE  ValueOf(p, f, k) \in Values
  <2>1. k \in Option
    BY DEF Option
  <2>2. DefaultOf(kc, f, k) \in Values
    <3>1. kc.follows[k] # 0 => f[kc.follows[k]] \in Values
      BY <2>1, EarlierFacts
    <3> QED BY <3>1 DEF DefaultOf, Values
  <2> QED BY <1>1, <1>2, <2>2 DEF ValueOf, Values
<1>4. ASSUME NEW k \in 1 .. Options, NEW f, NEW g, \A j \in 1 .. (k - 1) : g[j] = f[j]
      PROVE  ValueOf(p, g, k) = ValueOf(p, f, k)
  <2>1. k \in Option
    BY DEF Option
  <2>2. /\ kc.needs[k] # 0 => f[kc.needs[k]] = g[kc.needs[k]]
        /\ kc.follows[k] # 0 => f[kc.follows[k]] = g[kc.follows[k]]
    BY <1>4, <2>1, EarlierFacts
  <2>3. Visible(kc, f, k) <=> Visible(kc, g, k)
    BY <2>2 DEF Visible
  <2>4. DefaultOf(kc, f, k) = DefaultOf(kc, g, k)
    BY <2>2 DEF DefaultOf
  <2> QED BY <1>1, <2>3, <2>4 DEF ValueOf
<1> QED BY <1>3, <1>4 DEF p, ConfigRec!Recursive

\* What Kconfig makes of a file has, for each option, the value that follows from the others.
LEMMA ConfiguredFacts ==
    ASSUME NEW kc \in Kconfigs, NEW lines \in Seq(Lines)
    PROVE  IsConfigured(Configured(kc, lines), kc, lines)
<1> DEFINE p == [kconfig |-> kc, lines |-> lines]
           val == ConfigRec!RecursiveValue(p, Options)
<1>1. Options \in Nat /\ Option = 1 .. Options
  BY KernelConfigAssumption DEF Option
<1>2. p.kconfig = kc /\ p.lines = lines
  OBVIOUS
<1>3. val \in [1 .. Options -> Values] /\ \A k \in 1 .. Options : val[k] = ValueOf(p, val, k)
  <2>1. ConfigRec!Recursive(p, Values, Options)
    BY ValuesDetermined
  <2> HIDE DEF p
  <2> QED BY <1>1, <2>1, ConfigRec!Recursion
<1>4. Configured(kc, lines) = val
  BY <1>1, <1>2 DEF Configured, ConfigRec!RecursiveValue, ValueOf
<1> QED BY <1>1, <1>3, <1>4 DEF IsConfigured

\* Nothing else does: options are in the order of what they depend on.
LEMMA ConfiguredIs ==
    ASSUME NEW kc \in Kconfigs, NEW lines \in Seq(Lines), NEW val, IsConfigured(val, kc, lines)
    PROVE  Configured(kc, lines) = val
<1> DEFINE p == [kconfig |-> kc, lines |-> lines]
           c == Configured(kc, lines)
           T == {i \in 0 .. Options : \A k \in 1 .. i : c[k] = val[k]}
<1>1. Options \in Nat /\ Option = 1 .. Options
  BY KernelConfigAssumption DEF Option
<1>2. /\ c \in [Option -> Values] /\ \A k \in Option : c[k] = ValueOf(p, c, k)
      /\ val \in [Option -> Values] /\ \A k \in Option : val[k] = ValueOf(p, val, k)
  BY ConfiguredFacts DEF IsConfigured
<1>3. ConfigRec!Recursive(p, Values, Options)
  BY ValuesDetermined
<1> HIDE DEF p, c
<1>4. 0 \in T
  BY <1>1
<1>5. ASSUME NEW i \in 0 .. (Options - 1), i \in T PROVE i + 1 \in T
  <2>1. i + 1 \in 1 .. Options /\ (i + 1) - 1 = i /\ i + 1 \in 0 .. Options
    BY <1>1
  <2>2. ValueOf(p, c, i + 1) = ValueOf(p, val, i + 1)
    <3>1. \A j \in 1 .. i : c[j] \in Values /\ val[j] = c[j]
      BY <1>1, <1>2, <1>5
    <3> QED BY <1>1, <1>3, <2>1, <3>1, ConfigRec!SameBelow
  <2>3. c[i + 1] = val[i + 1]
    BY <1>1, <1>2, <2>1, <2>2
  <2>4. \A k \in 1 .. (i + 1) : k = i + 1 \/ k \in 1 .. i
    BY <1>1
  <2> QED BY <1>5, <2>1, <2>3, <2>4
<1>6. Options \in T
  <2> HIDE DEF T
  <2>1. 0 .. Options \subseteq T
    BY <1>1, <1>4, <1>5, AnyFold!UpTo
  <2> QED BY <1>1, <2>1
<1>7. \A k \in Option : c[k] = val[k]
  BY <1>1, <1>6
<1> QED BY <1>2, <1>7 DEF c

\* A default is a value that can be written.
LEMMA DefaultIsSet ==
    ASSUME NEW kc \in Kconfigs, NEW val \in [Option -> Values], NEW k \in Option
    PROVE  DefaultOf(kc, val, k) \in {"y", "n"}
<1>1. kc.follows[k] # 0 => val[kc.follows[k]] \in Values
  BY EarlierFacts
<1> QED BY <1>1 DEF DefaultOf, Values

\* An option is absent from what make writes if and only if it is not visible.
LEMMA VisibleIsSet ==
    ASSUME NEW kc \in Kconfigs, NEW lines \in Seq(Lines), NEW val, IsConfigured(val, kc, lines),
           NEW k \in Option
    PROVE  /\ Visible(kc, val, k) => val[k] \in {"y", "n"}
           /\ ~Visible(kc, val, k) => val[k] = "absent"
           /\ Visible(kc, val, k) /\ k \in KeysIn(lines) => val[k] = LastOf(lines, k).val
           /\ Visible(kc, val, k) /\ k \notin KeysIn(lines) => val[k] = DefaultOf(kc, val, k)
<1> DEFINE p == [kconfig |-> kc, lines |-> lines]
<1>1. p.kconfig = kc /\ p.lines = lines
  OBVIOUS
<1>2. val \in [Option -> Values] /\ val[k] = ValueOf(p, val, k)
  BY DEF IsConfigured
<1> HIDE DEF p
<1>3. k \in KeysIn(lines) => LastOf(lines, k).val \in {"y", "n"}
  BY LastEnds
<1>4. DefaultOf(kc, val, k) \in {"y", "n"}
  BY <1>2, DefaultIsSet
<1> QED BY <1>1, <1>2, <1>3, <1>4 DEF ValueOf

\* The lines of a .config that make wrote.
LEMMA DotConfigFacts ==
    ASSUME NEW val \in [Option -> Values]
    PROVE  /\ DotConfig(val) \in Seq(Lines)
           /\ KeysIn(DotConfig(val)) = {k \in Option : val[k] # "absent"}
           /\ \A k \in Option : val[k] # "absent" =>
                 LastOf(DotConfig(val), k) = OptionLine(k, val[k], FALSE)
                 /\ ValueIn(DotConfig(val), k) = val[k]
           /\ \A k \in Option : val[k] = "absent" => ValueIn(DotConfig(val), k) = "n"
           /\ BadLine \notin ToSet(DotConfig(val))
<1> DEFINE ks == {k \in Option : val[k] # "absent"}
<1>1. \A k \in ks : val[k] \in {"y", "n"}
  BY DEF Values
<1>2. DotConfig(val) = Listing(val, ks)
  BY DEF DotConfig
<1>3. DotConfig(val) \in Seq(Lines) /\ Lists(DotConfig(val), val, ks)
  BY <1>1, <1>2, ListingFacts
<1>4. BadLine.key \notin ks
  BY LineTypes, KernelConfigAssumption DEF Option
<1> QED BY <1>3, <1>4 DEF Lists, ValueIn, OptionLine

\* make olddefconfig leaves what make wrote as it is.
LEMMA ConfiguredAgain ==
    ASSUME NEW kc \in Kconfigs, NEW lines \in Seq(Lines), NEW val, IsConfigured(val, kc, lines)
    PROVE  IsConfigured(val, kc, DotConfig(val)) /\ Configured(kc, DotConfig(val)) = val
<1>1. val \in [Option -> Values]
  BY DEF IsConfigured
<1> DEFINE d == DotConfig(val)
           p == [kconfig |-> kc, lines |-> d]
<1>2. p.kconfig = kc /\ p.lines = d
  OBVIOUS
<1>3. /\ d \in Seq(Lines) /\ KeysIn(d) = {k \in Option : val[k] # "absent"}
      /\ \A k \in Option : val[k] # "absent" => LastOf(d, k) = OptionLine(k, val[k], FALSE)
  BY <1>1, DotConfigFacts
<1> HIDE DEF d, p
<1>4. ASSUME NEW k \in Option PROVE val[k] = ValueOf(p, val, k)
  <2>1. CASE Visible(kc, val, k)
    <3>1. val[k] \in {"y", "n"}
      BY <2>1, VisibleIsSet
    <3>2. k \in KeysIn(d) /\ LastOf(d, k).val = val[k]
      BY <1>3, <3>1 DEF OptionLine
    <3> QED BY <1>2, <2>1, <3>2 DEF ValueOf
  <2>2. CASE ~Visible(kc, val, k)
    <3>1. val[k] = "absent"
      BY <2>2, VisibleIsSet
    <3> QED BY <1>2, <2>2, <3>1 DEF ValueOf
  <2> QED BY <2>1, <2>2
<1>5. IsConfigured(val, kc, d)
  BY <1>1, <1>4 DEF IsConfigured, p
<1> QED BY <1>3, <1>5, ConfiguredIs DEF d

\* make X_defconfig makes of what make savedefconfig wrote what it was written from.
LEMMA SavedIsRestored ==
    ASSUME NEW kc \in Kconfigs, NEW lines \in Seq(Lines), NEW val, IsConfigured(val, kc, lines)
    PROVE  /\ SavedDefconfig(kc, val) \in Seq(Lines)
           /\ Configured(kc, SavedDefconfig(kc, val)) = val
           /\ \A k \in KeysIn(SavedDefconfig(kc, val)) :
                 val[k] # "absent" /\ LastOf(SavedDefconfig(kc, val), k) = OptionLine(k, val[k], FALSE)
           /\ BadLine \notin ToSet(SavedDefconfig(kc, val))
<1>1. val \in [Option -> Values]
  BY DEF IsConfigured
<1> DEFINE d == SavedDefconfig(kc, val)
           p == [kconfig |-> kc, lines |-> d]
           ks == {k \in Option : val[k] \notin {"absent", DefaultOf(kc, val, k)}}
<1>2. p.kconfig = kc /\ p.lines = d
  OBVIOUS
<1>3. d \in Seq(Lines) /\ Lists(d, val, ks)
  <2>1. \A k \in ks : val[k] \in {"y", "n"}
    BY <1>1 DEF Values
  <2>2. d = Listing(val, ks)
    BY DEF SavedDefconfig
  <2>3. ks \in SUBSET Option
    OBVIOUS
  <2> HIDE DEF d, ks
  <2> QED BY <2>1, <2>2, <2>3, ListingFacts
<1>4. BadLine.key \notin ks
  BY LineTypes, KernelConfigAssumption DEF Option
<1> HIDE DEF d, p
<1>5. ASSUME NEW k \in Option PROVE val[k] = ValueOf(p, val, k)
  <2>1. CASE Visible(kc, val, k)
    <3>1. val[k] \in {"y", "n"}
      BY <2>1, VisibleIsSet
    <3>2. CASE k \in ks
      BY <1>2, <1>3, <2>1, <3>2 DEF Lists, OptionLine, ValueOf
    <3>3. CASE k \notin ks
      BY <1>2, <1>3, <2>1, <3>1, <3>3 DEF Lists, ValueOf
    <3> QED BY <3>2, <3>3
  <2>2. CASE ~Visible(kc, val, k)
    <3>1. val[k] = "absent"
      BY <2>2, VisibleIsSet
    <3> QED BY <1>2, <2>2, <3>1 DEF ValueOf
  <2> QED BY <2>1, <2>2
<1>6. IsConfigured(val, kc, d)
  BY <1>1, <1>5 DEF IsConfigured, p
<1>7. Configured(kc, d) = val
  BY <1>3, <1>6, ConfiguredIs
<1>8. \A k \in KeysIn(d) : val[k] # "absent" /\ LastOf(d, k) = OptionLine(k, val[k], FALSE)
  BY <1>3 DEF Lists
<1>9. BadLine \notin ToSet(d)
  BY <1>3, <1>4 DEF Lists
<1> QED BY <1>3, <1>7, <1>8, <1>9 DEF d

-----------------------------------------------------------------------------
(* Who overrides whom *)

Fragments == Seq(Seq(Lines))

\* The files after which fragments have been merged, one after the other.
MergesTo(t, base, fragments) ==
    /\ t \in [0 .. Len(fragments) -> Seq(Lines)]
    /\ t[0] = base /\ t[Len(fragments)] = MergeConfig(base, fragments)
    /\ \A i \in 1 .. Len(fragments) : t[i] = MergeOne(t[i - 1], fragments[i])

\* Merging goes through one file after each fragment.
LEMMA MergeTrace ==
    ASSUME NEW base \in Seq(Lines), NEW fragments \in Fragments
    PROVE  \E t : MergesTo(t, base, fragments)
<1> DEFINE n == Len(fragments)
<1>1. \A v \in Seq(Lines), f \in Seq(Lines) : MergeOne(v, f) \in Seq(Lines)
  BY MergeOneFacts
<1>2. MergeFold!Trace(0, Seq(Lines), base, fragments)
  <2>1. fragments \in Seq(Seq(Lines))
    BY DEF Fragments
  <2> QED BY <1>1, <2>1, MergeFold!FoldTrace
<1>3. PICK t \in [0 .. n -> Seq(Lines)] : MergeFold!IsTrace(t, 0, base, fragments)
  BY <1>2 DEF MergeFold!Trace
<1>4. MergeConfig(base, fragments) = MergeFold!FoldValue(0, base, fragments)
  BY DEF MergeConfig, FoldLeft, MapThenFoldSet, Max, MergeFold!FoldValue, MergeFold!Greatest
<1>5. MergesTo(t, base, fragments)
  BY <1>3, <1>4 DEF MergeFold!IsTrace, MergesTo
<1> QED BY <1>5

\* After n fragments the last that speaks of an option counts, and base if none does.
Merged(lines, base, fragments, n) ==
    /\ KeysIn(base) \subseteq KeysIn(lines)
    /\ \A i \in 1 .. n : KeysIn(fragments[i]) \subseteq KeysIn(lines)
    /\ \A k \in KeysIn(lines) :
          \/ /\ k \in KeysIn(base) /\ LastOf(lines, k) = LastOf(base, k)
             /\ \A i \in 1 .. n : k \notin KeysIn(fragments[i])
          \/ \E i \in 1 .. n :
                /\ k \in KeysIn(fragments[i]) /\ LastOf(lines, k) = LastOf(fragments[i], k)
                /\ \A j \in (i + 1) .. n : k \notin KeysIn(fragments[j])

\* One more fragment is merged.
LEMMA MergedStep ==
    ASSUME NEW base \in Seq(Lines), NEW fragments \in Fragments, NEW n \in 0 .. (Len(fragments) - 1),
           NEW lines \in Seq(Lines), Merged(lines, base, fragments, n)
    PROVE  Merged(MergeOne(lines, fragments[n + 1]), base, fragments, n + 1)
<1> DEFINE f == fragments[n + 1]
           next == MergeOne(lines, f)
<1>1. n \in Nat /\ n + 1 \in 1 .. Len(fragments)
  OBVIOUS
<1>2. f \in Seq(Lines)
  BY <1>1, ElementOfSeq DEF Fragments
<1>3. /\ KeysIn(next) = KeysIn(lines) \cup KeysIn(f)
      /\ \A k \in KeysIn(f) : LastOf(next, k) = LastOf(f, k)
      /\ \A k \in KeysIn(lines) \ KeysIn(f) : LastOf(next, k) = LastOf(lines, k)
  BY <1>2, MergeOneFacts
<1> HIDE DEF next
<1>4. \A i \in 1 .. (n + 1) : i = n + 1 \/ i \in 1 .. n
  BY <1>1
<1>5. n + 1 \in 1 .. (n + 1) /\ (\A i \in 1 .. n : i \in 1 .. (n + 1)) /\ (n + 1 + 1) .. (n + 1) = {}
  BY <1>1
<1>6. ASSUME NEW k \in KeysIn(next)
      PROVE  \/ /\ k \in KeysIn(base) /\ LastOf(next, k) = LastOf(base, k)
                /\ \A i \in 1 .. (n + 1) : k \notin KeysIn(fragments[i])
             \/ \E i \in 1 .. (n + 1) :
                   /\ k \in KeysIn(fragments[i]) /\ LastOf(next, k) = LastOf(fragments[i], k)
                   /\ \A j \in (i + 1) .. (n + 1) : k \notin KeysIn(fragments[j])
  <2>1. CASE k \in KeysIn(f)
    <3>1. LastOf(next, k) = LastOf(f, k)
      BY <1>3, <2>1
    <3> QED BY <1>5, <2>1, <3>1
  <2>2. CASE k \notin KeysIn(f)
    <3>1. k \in KeysIn(lines) /\ LastOf(next, k) = LastOf(lines, k)
      BY <1>3, <1>6, <2>2
    <3>2. CASE /\ k \in KeysIn(base) /\ LastOf(lines, k) = LastOf(base, k)
               /\ \A i \in 1 .. n : k \notin KeysIn(fragments[i])
      BY <1>4, <2>2, <3>1, <3>2
    <3>3. CASE \E i \in 1 .. n :
                  /\ k \in KeysIn(fragments[i]) /\ LastOf(lines, k) = LastOf(fragments[i], k)
                  /\ \A j \in (i + 1) .. n : k \notin KeysIn(fragments[j])
      <4>1. PICK i \in 1 .. n :
                  /\ k \in KeysIn(fragments[i]) /\ LastOf(lines, k) = LastOf(fragments[i], k)
                  /\ \A j \in (i + 1) .. n : k \notin KeysIn(fragments[j])
        BY <3>3
      <4>2. \A j \in (i + 1) .. (n + 1) : j = n + 1 \/ j \in (i + 1) .. n
        BY <1>1
      <4>3. \A j \in (i + 1) .. (n + 1) : k \notin KeysIn(fragments[j])
        BY <2>2, <4>1, <4>2
      <4> QED BY <1>5, <3>1, <4>1, <4>3
    <3> QED BY <3>1, <3>2, <3>3 DEF Merged
  <2> QED BY <2>1, <2>2
<1>7. KeysIn(base) \subseteq KeysIn(next) /\ \A i \in 1 .. (n + 1) : KeysIn(fragments[i]) \subseteq KeysIn(next)
  BY <1>3, <1>4 DEF Merged
<1> QED BY <1>6, <1>7 DEF Merged, next

\* Of the fragments that are merged, the last that speaks of an option counts.
LEMMA MergeFacts ==
    ASSUME NEW base \in Seq(Lines), NEW fragments \in Fragments
    PROVE  /\ MergeConfig(base, fragments) \in Seq(Lines)
           /\ Merged(MergeConfig(base, fragments), base, fragments, Len(fragments))
<1> DEFINE n == Len(fragments)
<1>1. n \in Nat
  BY DEF Fragments
<1>2. PICK t : MergesTo(t, base, fragments)
  BY MergeTrace
<1> DEFINE T == {i \in 0 .. n : Merged(t[i], base, fragments, i)}
<1>3. 0 \in T
  <2>1. 1 .. 0 = {} /\ 0 \in 0 .. n
    BY <1>1
  <2>2. Merged(base, base, fragments, 0)
    BY <2>1 DEF Merged
  <2> QED BY <1>2, <2>1, <2>2 DEF MergesTo
<1>4. ASSUME NEW i \in 0 .. (n - 1), i \in T PROVE i + 1 \in T
  <2>1. i + 1 \in 1 .. n /\ i + 1 \in 0 .. n /\ (i + 1) - 1 = i /\ i \in 0 .. n
    BY <1>1
  <2>2. t[i + 1] = MergeOne(t[i], fragments[i + 1]) /\ t[i] \in Seq(Lines)
    BY <1>2, <2>1 DEF MergesTo
  <2>3. Merged(t[i], base, fragments, i)
    BY <1>4
  <2> QED BY <2>1, <2>2, <2>3, MergedStep
<1>5. n \in T
  <2> HIDE DEF T
  <2>1. 0 .. n \subseteq T
    BY <1>1, <1>3, <1>4, AnyFold!UpTo
  <2> QED BY <1>1, <2>1
<1> QED BY <1>1, <1>2, <1>5 DEF MergesTo

\* Nothing to merge, and one fragment.
LEMMA MergeFew ==
    ASSUME NEW base \in Seq(Lines)
    PROVE  /\ MergeConfig(base, <<>>) = base
           /\ \A f \in Seq(Lines) : MergeConfig(base, <<f>>) = MergeOne(base, f)
<1>1. MergeConfig(base, <<>>) = base
  <2>1. <<>> \in Fragments /\ Len(<<>>) = 0
    BY EmptySeq DEF Fragments
  <2>2. PICK t : MergesTo(t, base, <<>>)
    BY <2>1, MergeTrace
  <2> QED BY <2>1, <2>2 DEF MergesTo
<1>2. ASSUME NEW f \in Seq(Lines) PROVE MergeConfig(base, <<f>>) = MergeOne(base, f)
  <2>1. <<f>> \in Fragments /\ Len(<<f>>) = 1 /\ <<f>>[1] = f
    BY DEF Fragments
  <2>2. PICK t : MergesTo(t, base, <<f>>)
    BY <2>1, MergeTrace
  <2>3. t[0] = base /\ t[1] = MergeConfig(base, <<f>>) /\ t[1] = MergeOne(t[1 - 1], f)
    BY <2>1, <2>2 DEF MergesTo
  <2> QED BY <2>3
<1> QED BY <1>1, <1>2

-----------------------------------------------------------------------------
(* merge_config.sh, check_config.py and the text of the files agree *)

\* Two files say the same, and a parsed file says what a file does.
Agree(a, b) == KeysIn(a) = KeysIn(b) /\ \A k \in KeysIn(a) : LastOf(a, k) = LastOf(b, k)
Means(m, lines) == DOMAIN m = KeysIn(lines) /\ \A k \in KeysIn(lines) : m[k] = LastOf(lines, k)

Parsed == UNION {[ks -> OptionLines] : ks \in SUBSET Option}

\* What ParsedConfig.update does.
LEMMA ParseFacts ==
    ASSUME NEW m \in Parsed, NEW f \in Seq(Lines)
    PROVE  /\ ParseOver(m, f) \in Parsed
           /\ DOMAIN ParseOver(m, f) = DOMAIN m \cup KeysIn(f)
           /\ \A k \in KeysIn(f) : ParseOver(m, f)[k] = LastOf(f, k)
           /\ \A k \in DOMAIN m \ KeysIn(f) : ParseOver(m, f)[k] = m[k]
<1>1. PICK ks \in SUBSET Option : m \in [ks -> OptionLines]
  BY DEF Parsed
<1>2. \A k \in KeysIn(f) : ParseConfig(f)[k] = LastOf(f, k) /\ LastOf(f, k) \in OptionLines
  BY LastEnds DEF ParseConfig
<1>3. ParseOver(m, f) \in [ks \cup KeysIn(f) -> OptionLines]
  BY <1>1, <1>2 DEF ParseOver
<1>4. ks \cup KeysIn(f) \in SUBSET Option
  BY KeysTyped
<1> QED BY <1>1, <1>2, <1>3, <1>4 DEF ParseOver, Parsed

\* The values of a fold over <<base>> \o pre: the base, then what each fragment makes of it.
LEMMA WithBase ==
    ASSUME NEW base \in Seq(Lines), NEW pre \in Fragments
    PROVE  LET q == <<base>> \o pre IN
           /\ q \in Seq(Seq(Lines)) /\ Len(q) = Len(pre) + 1 /\ q[1] = base /\ Len(pre) \in Nat
           /\ \A i \in 1 .. Len(pre) : q[i + 1] = pre[i] /\ pre[i] \in Seq(Lines)
           /\ ToSet(q) = {base} \cup ToSet(pre)
<1> DEFINE q == <<base>> \o pre
           b == <<base>>
           n == Len(pre)
<1>1. b \in Seq(Seq(Lines)) /\ Len(b) = 1 /\ b[1] = base /\ pre \in Seq(Seq(Lines)) /\ n \in Nat
  BY DEF Fragments
<1>2. q = b \o pre
  OBVIOUS
<1> HIDE DEF b, q
<1>3. /\ q \in Seq(Seq(Lines)) /\ Len(q) = 1 + n
      /\ (\A i \in 1 .. 1 : q[i] = b[i]) /\ (\A i \in (1 + 1) .. (1 + n) : q[i] = pre[i - 1])
  <2>1. /\ q \in Seq(Seq(Lines)) /\ Len(q) = Len(b) + Len(pre)
        /\ (\A i \in 1 .. Len(b) : q[i] = b[i])
        /\ (\A i \in (Len(b) + 1) .. (Len(b) + Len(pre)) : q[i] = pre[i - Len(b)])
    <3>1. b \in Seq(Seq(Lines)) /\ pre \in Seq(Seq(Lines))
      BY <1>1
    <3> HIDE DEF n
    <3> QED BY <1>2, <3>1, ConcatProperties
  <2> QED BY <1>1, <2>1
<1>4. ASSUME NEW i \in 1 .. n PROVE q[i + 1] = pre[i] /\ pre[i] \in Seq(Lines)
  <2>1. i + 1 \in 2 .. (1 + n) /\ (i + 1) - 1 = i
    BY <1>1
  <2>2. pre[i] \in Seq(Lines)
    BY <1>1, ElementOfSeq
  <2> QED BY <1>3, <2>1, <2>2
<1>5. ToSet(q) = {base} \cup ToSet(pre)
  <2>1. DOMAIN q = 1 .. (1 + n) /\ DOMAIN pre = 1 .. n
    BY <1>1, <1>3
  <2>2. \A i \in 1 .. (1 + n) : i = 1 \/ (i - 1 \in 1 .. n /\ (i - 1) + 1 = i)
    BY <1>1
  <2>3. 1 \in 1 .. (1 + n) /\ \A i \in 1 .. n : i + 1 \in 1 .. (1 + n)
    BY <1>1
  <2>4. q[1] = base
    BY <1>1, <1>3
  <2> HIDE DEF n
  <2>5. ToSet(q) = {q[i] : i \in 1 .. (1 + n)} /\ ToSet(pre) = {pre[i] : i \in 1 .. n}
    BY <2>1 DEF ToSet
  <2> QED BY <1>4, <2>2, <2>3, <2>4, <2>5
<1>6. Len(q) = n + 1 /\ q[1] = base
  BY <1>1, <1>3
<1> QED BY <1>1, <1>3, <1>4, <1>5, <1>6 DEF q

\* What merge_config.sh writes has the last word of the text of the files on every option.
LEMMA AllAgree ==
    ASSUME NEW base \in Seq(Lines), NEW pre \in Fragments
    PROVE  LET lines == AllLines(<<base>> \o pre) IN
           lines \in Seq(Lines) /\ Agree(lines, MergeConfig(base, pre))
<1> DEFINE q == <<base>> \o pre
           n == Len(pre)
           V == Seq(Lines)
<1>1. /\ q \in Seq(Seq(Lines)) /\ Len(q) = n + 1 /\ q[1] = base /\ n \in Nat
      /\ \A i \in 1 .. n : q[i + 1] = pre[i] /\ pre[i] \in Seq(Lines)
  BY WithBase
<1>2. PICK t : MergesTo(t, base, pre)
  BY MergeTrace
<1>3. /\ t \in [0 .. n -> Seq(Lines)] /\ t[0] = base /\ t[n] = MergeConfig(base, pre)
      /\ \A i \in 1 .. n : t[i] = MergeOne(t[i - 1], pre[i])
  BY <1>2 DEF MergesTo
<1> DEFINE T == [i \in 0 .. (n + 1) |-> IF i = 0 THEN {<<>>} ELSE {w \in V : Agree(w, t[i - 1])}]
<1> HIDE DEF q, n
<1>4. <<>> \in V /\ \A v \in V, x \in Seq(Lines) : v \o x \in V
  BY EmptyFacts, JoinFacts
<1>5. ASSUME NEW i \in 0 .. n, NEW w \in T[i] PROVE w \o q[i + 1] \in T[i + 1]
  <2>1. i + 1 \in 0 .. (n + 1) /\ i \in 0 .. (n + 1) /\ i + 1 # 0 /\ (i + 1) - 1 = i
    BY <1>1
  <2>2. CASE i = 0
    <3>1. w = <<>> /\ w \o q[i + 1] = base
      BY <1>1, <2>1, <2>2, ConcatEmptySeq
    <3> QED BY <1>3, <2>1, <2>2, <3>1 DEF Agree
  <2>3. CASE i # 0
    <3>1. i \in 1 .. n /\ i - 1 \in 0 .. n
      BY <1>1, <2>3
    <3> DEFINE a == t[i - 1]
               f == pre[i]
    <3>2. w \in V /\ Agree(w, a) /\ a \in Seq(Lines) /\ f \in Seq(Lines) /\ q[i + 1] = f
      BY <1>1, <1>3, <2>1, <2>3, <3>1
    <3>3. t[i] = MergeOne(a, f)
      BY <1>3, <3>1
    <3> HIDE DEF a, f
    <3>4. Agree(w \o f, MergeOne(a, f))
      <4>1. /\ KeysIn(w \o f) = KeysIn(w) \cup KeysIn(f)
            /\ \A k \in KeysIn(f) : LastOf(w \o f, k) = LastOf(f, k)
            /\ \A k \in KeysIn(w) \ KeysIn(f) : LastOf(w \o f, k) = LastOf(w, k)
        BY <3>2, JoinFacts
      <4>2. /\ KeysIn(MergeOne(a, f)) = KeysIn(a) \cup KeysIn(f)
            /\ \A k \in KeysIn(f) : LastOf(MergeOne(a, f), k) = LastOf(f, k)
            /\ \A k \in KeysIn(a) \ KeysIn(f) : LastOf(MergeOne(a, f), k) = LastOf(a, k)
        BY <3>2, MergeOneFacts
      <4> QED BY <3>2, <4>1, <4>2 DEF Agree
    <3> QED BY <1>4, <2>1, <3>2, <3>3, <3>4
  <2> QED BY <2>2, <2>3
<1>6. T \in [0 .. (n + 1) -> SUBSET V] /\ <<>> \in T[0]
  BY <1>1, <1>4
<1>7. T[n + 1] = {w \in V : Agree(w, MergeConfig(base, pre))}
  <2>1. n + 1 \in 0 .. (n + 1) /\ n + 1 # 0 /\ (n + 1) - 1 = n
    BY <1>1
  <2> QED BY <1>3, <2>1
<1> HIDE DEF T, V
<1>8. JoinFold!FoldValue(0, <<>>, q) \in T[n + 1]
  <2>1. Len(q) = n + 1 /\ (n + 1) - 1 = n
    BY <1>1
  <2> QED BY <1>1, <1>4, <1>5, <1>6, <2>1, JoinFold!FoldInduction
<1>9. AllLines(q) = JoinFold!FoldValue(0, <<>>, q)
  BY DEF AllLines, FoldLeft, MapThenFoldSet, Max, JoinFold!FoldValue, JoinFold!Greatest
<1> QED BY <1>7, <1>8, <1>9 DEF q, V

\* What check_config.py parses has the same.
LEMMA ParsedMeans ==
    ASSUME NEW base \in Seq(Lines), NEW pre \in Fragments
    PROVE  Means(FoldLeft(ParseOver, <<>>, <<base>> \o pre), MergeConfig(base, pre))
<1> DEFINE q == <<base>> \o pre
           n == Len(pre)
<1>1. /\ q \in Seq(Seq(Lines)) /\ Len(q) = n + 1 /\ q[1] = base /\ n \in Nat
      /\ \A i \in 1 .. n : q[i + 1] = pre[i] /\ pre[i] \in Seq(Lines)
  BY WithBase
<1>2. PICK t : MergesTo(t, base, pre)
  BY MergeTrace
<1>3. /\ t \in [0 .. n -> Seq(Lines)] /\ t[0] = base /\ t[n] = MergeConfig(base, pre)
      /\ \A i \in 1 .. n : t[i] = MergeOne(t[i - 1], pre[i])
  BY <1>2 DEF MergesTo
<1> DEFINE T == [i \in 0 .. (n + 1) |->
                    IF i = 0 THEN {<<>>} ELSE {m \in Parsed : Means(m, t[i - 1])}]
<1> HIDE DEF q, n
<1>4. <<>> \in Parsed /\ DOMAIN <<>> = {}
  <2>1. <<>> \in [{} -> OptionLines] /\ {} \in SUBSET Option
    OBVIOUS
  <2> QED BY <2>1 DEF Parsed
<1>5. \A v \in Parsed, x \in Seq(Lines) : ParseOver(v, x) \in Parsed
  BY ParseFacts
<1>6. ASSUME NEW i \in 0 .. n, NEW w \in T[i] PROVE ParseOver(w, q[i + 1]) \in T[i + 1]
  <2>1. i + 1 \in 0 .. (n + 1) /\ i \in 0 .. (n + 1) /\ i + 1 # 0 /\ (i + 1) - 1 = i
    BY <1>1
  <2>2. CASE i = 0
    <3>1. w = <<>> /\ q[i + 1] = base
      BY <1>1, <2>1, <2>2
    <3>2. ParseOver(<<>>, base) \in Parsed /\ Means(ParseOver(<<>>, base), base)
      BY <1>4, ParseFacts DEF Means
    <3> QED BY <1>3, <2>1, <2>2, <3>1, <3>2
  <2>3. CASE i # 0
    <3>1. i \in 1 .. n /\ i - 1 \in 0 .. n
      BY <1>1, <2>3
    <3> DEFINE a == t[i - 1]
               f == pre[i]
    <3>2. w \in Parsed /\ Means(w, a) /\ a \in Seq(Lines) /\ f \in Seq(Lines) /\ q[i + 1] = f
      BY <1>1, <1>3, <2>1, <2>3, <3>1
    <3>3. t[i] = MergeOne(a, f)
      BY <1>3, <3>1
    <3> HIDE DEF a, f
    <3>4. Means(ParseOver(w, f), MergeOne(a, f))
      <4>1. /\ DOMAIN ParseOver(w, f) = DOMAIN w \cup KeysIn(f)
            /\ \A k \in KeysIn(f) : ParseOver(w, f)[k] = LastOf(f, k)
            /\ \A k \in DOMAIN w \ KeysIn(f) : ParseOver(w, f)[k] = w[k]
        BY <3>2, ParseFacts
      <4>2. /\ KeysIn(MergeOne(a, f)) = KeysIn(a) \cup KeysIn(f)
            /\ \A k \in KeysIn(f) : LastOf(MergeOne(a, f), k) = LastOf(f, k)
            /\ \A k \in KeysIn(a) \ KeysIn(f) : LastOf(MergeOne(a, f), k) = LastOf(a, k)
        BY <3>2, MergeOneFacts
      <4> QED BY <3>2, <4>1, <4>2 DEF Means
    <3> QED BY <1>5, <2>1, <3>2, <3>3, <3>4
  <2> QED BY <2>2, <2>3
<1>7. T \in [0 .. (n + 1) -> SUBSET Parsed] /\ <<>> \in T[0]
  BY <1>1, <1>4
<1>8. T[n + 1] = {m \in Parsed : Means(m, MergeConfig(base, pre))}
  <2>1. n + 1 \in 0 .. (n + 1) /\ n + 1 # 0 /\ (n + 1) - 1 = n
    BY <1>1
  <2> QED BY <1>3, <2>1
<1> HIDE DEF T
<1>9. ParseFold!FoldValue(0, <<>>, q) \in T[n + 1]
  <2>1. Len(q) = n + 1 /\ (n + 1) - 1 = n /\ q \in Seq(Seq(Lines)) /\ <<>> \in Parsed
    BY <1>1, <1>4
  <2> QED BY <1>5, <1>6, <1>7, <2>1, ParseFold!FoldInduction
<1>10. FoldLeft(ParseOver, <<>>, q) = ParseFold!FoldValue(0, <<>>, q)
  BY DEF FoldLeft, MapThenFoldSet, Max, ParseFold!FoldValue, ParseFold!Greatest
<1> QED BY <1>8, <1>9, <1>10 DEF q

-----------------------------------------------------------------------------
(* The check of a .config *)

\* The elements of two sequences, one after the other.
LEMMA JoinSet ==
    ASSUME NEW S, NEW a \in Seq(S), NEW b \in Seq(S)
    PROVE  a \o b \in Seq(S) /\ ToSet(a \o b) = ToSet(a) \cup ToSet(b)
<1> DEFINE c == a \o b
           m == Len(a)
           n == Len(b)
<1>1. /\ c \in Seq(S) /\ Len(c) = m + n /\ m \in Nat /\ n \in Nat
      /\ \A i \in 1 .. (m + n) : c[i] = IF i <= m THEN a[i] ELSE b[i - m]
  BY ConcatProperties
<1>2. DOMAIN c = 1 .. (m + n) /\ DOMAIN a = 1 .. m /\ DOMAIN b = 1 .. n
  BY <1>1
<1>3. ToSet(c) = {c[i] : i \in 1 .. (m + n)} /\ ToSet(a) = {a[i] : i \in 1 .. m}
      /\ ToSet(b) = {b[i] : i \in 1 .. n}
  BY <1>2 DEF ToSet
<1> HIDE DEF c, m, n
<1>4. ASSUME NEW i \in 1 .. (m + n) PROVE c[i] \in ToSet(a) \cup ToSet(b)
  <2>1. CASE i <= m
    <3>1. i \in 1 .. m /\ c[i] = a[i]
      BY <1>1, <2>1
    <3> QED BY <1>3, <3>1
  <2>2. CASE ~(i <= m)
    <3>1. i - m \in 1 .. n /\ c[i] = b[i - m]
      BY <1>1, <2>2
    <3> QED BY <1>3, <3>1
  <2> QED BY <2>1, <2>2
<1>5. \A i \in 1 .. m : i \in 1 .. (m + n) /\ c[i] = a[i]
  BY <1>1
<1>6. ASSUME NEW i \in 1 .. n PROVE m + i \in 1 .. (m + n) /\ c[m + i] = b[i]
  <2>1. m + i \in 1 .. (m + n) /\ ~(m + i <= m) /\ (m + i) - m = i
    BY <1>1
  <2> QED BY <1>1, <2>1
<1>7. ToSet(c) = ToSet(a) \cup ToSet(b)
  BY <1>3, <1>4, <1>5, <1>6
<1> QED BY <1>1, <1>7 DEF c

\* A list of files is unreadable if one of them is.
LEMMA UnreadableIs ==
    ASSUME NEW base \in Seq(Lines), NEW pre \in Fragments, NEW post \in Fragments
    PROVE  Unreadable(<<base>> \o pre \o post) <=>
              BadLine \in ToSet(base) \/ \E f \in ToSet(pre) \cup ToSet(post) : BadLine \in ToSet(f)
<1> DEFINE q == <<base>> \o pre
<1>1. q \in Seq(Seq(Lines)) /\ ToSet(q) = {base} \cup ToSet(pre)
  BY WithBase
<1>2. post \in Seq(Seq(Lines))
  BY DEF Fragments
<1> HIDE DEF q
<1>3. ToSet(q \o post) = {base} \cup ToSet(pre) \cup ToSet(post)
  BY <1>1, <1>2, JoinSet
<1> QED BY <1>3 DEF Unreadable, q

\* No fragments are fragments.
LEMMA NoFragments ==
    <<>> \in Fragments /\ ToSet(<<>>) = {}
BY EmptySeq, EmptyFacts DEF Fragments

\* The option l of a check has its value in the .config.
Holds(actual, l) == l.nocheck \/ ValueIn(actual, l.key) = l.val

\* The check after `make defconfig` compares with what merge_config.sh writes.
LEMMA CheckBefore ==
    ASSUME NEW actual, NEW base \in Seq(Lines), NEW pre \in Fragments
    PROVE  CheckPasses(actual, base, pre, <<>>) <=>
              /\ BadLine \notin ToSet(base) /\ \A f \in ToSet(pre) : BadLine \notin ToSet(f)
              /\ \A k \in KeysIn(MergeConfig(base, pre)) :
                    Holds(actual, LastOf(MergeConfig(base, pre), k))
<1> DEFINE m == FoldLeft(ParseOver, <<>>, <<base>> \o pre)
           M == MergeConfig(base, pre)
<1>1. Means(m, M)
  BY ParsedMeans
<1>2. MergeDefconfig(base, pre, <<>>) = Range(m)
  <2>1. UNION {Range(ParseConfig(f)) : f \in ToSet(<<>>)} = {}
    BY NoFragments
  <2> HIDE DEF m
  <2>2. {l \in Range(m) : \A r \in {} : r.key # l.key} \cup {} = Range(m)
    OBVIOUS
  <2> QED BY <2>1, <2>2 DEF MergeDefconfig, m
<1> HIDE DEF m, M
<1>3. Range(m) = {LastOf(M, k) : k \in KeysIn(M)}
  BY <1>1 DEF Means, Range
<1>4. Unreadable(<<base>> \o pre \o <<>>) <=>
         BadLine \in ToSet(base) \/ \E f \in ToSet(pre) : BadLine \in ToSet(f)
  BY UnreadableIs, NoFragments
<1>5. \A l : Holds(actual, l) <=>
         l.nocheck \/ l.val = IF l.key \in KeysIn(actual) THEN LastOf(actual, l.key).val ELSE "n"
  BY DEF Holds, ValueIn
<1> QED BY <1>2, <1>3, <1>4, <1>5 DEF CheckPasses, M

\* The check of post fragments compares with each of them.
LEMMA CheckAfter ==
    ASSUME NEW actual, NEW post \in Fragments
    PROVE  CheckPasses(actual, <<>>, <<>>, post) <=>
              /\ \A f \in ToSet(post) : BadLine \notin ToSet(f)
              /\ \A f \in ToSet(post) : \A k \in KeysIn(f) : Holds(actual, LastOf(f, k))
<1> DEFINE m == FoldLeft(ParseOver, <<>>, <<<<>>>> \o <<>>)
           after == UNION {Range(ParseConfig(f)) : f \in ToSet(post)}
<1>1. Range(m) = {}
  <2>1. Means(m, MergeConfig(<<>>, <<>>)) /\ MergeConfig(<<>>, <<>>) = <<>>
    BY ParsedMeans, NoFragments, EmptyFacts, MergeFew
  <2> HIDE DEF m
  <2>2. DOMAIN m = {}
    BY <2>1, EmptyFacts DEF Means
  <2> QED BY <2>2 DEF Range
<1>2. MergeDefconfig(<<>>, <<>>, post) = after
  <2> HIDE DEF m
  <2>1. MergeDefconfig(<<>>, <<>>, post) =
           {l \in Range(m) : \A r \in after : r.key # l.key} \cup after
    BY DEF MergeDefconfig, m
  <2> HIDE DEF after
  <2> QED BY <1>1, <2>1
<1>3. \A f \in ToSet(post) : Range(ParseConfig(f)) = {LastOf(f, k) : k \in KeysIn(f)}
  BY DEF Range, ParseConfig
<1>4. \A l : l \in after <=> \E f \in ToSet(post) : \E k \in KeysIn(f) : l = LastOf(f, k)
  BY <1>3
<1> HIDE DEF after
<1>5. Unreadable(<<<<>>>> \o <<>> \o post) <=> \E f \in ToSet(post) : BadLine \in ToSet(f)
  BY UnreadableIs, NoFragments, EmptyFacts
<1>6. \A l : Holds(actual, l) <=>
         l.nocheck \/ l.val = IF l.key \in KeysIn(actual) THEN LastOf(actual, l.key).val ELSE "n"
  BY DEF Holds, ValueIn
<1> QED BY <1>2, <1>4, <1>5, <1>6 DEF CheckPasses

\* What the check of X_defconfig says of the text of the files.
LEMMA CheckedText ==
    ASSUME NEW actual, NEW base \in Seq(Lines), NEW pre \in Fragments,
           \A k \in KeysIn(MergeConfig(base, pre)) :
              Holds(actual, LastOf(MergeConfig(base, pre), k))
    PROVE  LET lines == AllLines(<<base>> \o pre) IN
           \A k \in KeysIn(lines) :
               LastOf(lines, k).nocheck \/ ValueIn(actual, k) = LastOf(lines, k).val
<1> DEFINE lines == AllLines(<<base>> \o pre)
           M == MergeConfig(base, pre)
<1>1. lines \in Seq(Lines) /\ Agree(lines, M)
  BY AllAgree
<1> HIDE DEF lines
<1>2. \A k \in KeysIn(M) : Holds(actual, LastOf(M, k))
  OBVIOUS
<1> HIDE DEF M
<1>3. ASSUME NEW k \in KeysIn(lines)
      PROVE  LastOf(lines, k).nocheck \/ ValueIn(actual, k) = LastOf(lines, k).val
  <2>1. LastOf(lines, k) = LastOf(M, k) /\ k \in KeysIn(M)
    BY <1>1 DEF Agree
  <2>2. LastOf(lines, k).key = k
    BY <1>1, LastEnds
  <2> QED BY <1>2, <2>1, <2>2 DEF Holds
<1> QED BY <1>3 DEF lines

-----------------------------------------------------------------------------
(* Sorting *)

\* InsertAt adds one element.
LEMMA InsertFacts ==
    ASSUME NEW S, NEW s \in Seq(S), NEW i \in 1 .. (Len(s) + 1), NEW e \in S
    PROVE  InsertAt(s, i, e) \in Seq(S) /\ ToSet(InsertAt(s, i, e)) = ToSet(s) \cup {e}
<1> DEFINE n == Len(s)
           a == SubSeq(s, 1, i - 1)
           b == SubSeq(s, i, n)
           x == <<e>>
<1>1. n \in Nat /\ DOMAIN s = 1 .. n /\ \A j \in 1 .. n : s[j] \in S
  BY ElementOfSeq
<1>2. a \in Seq(S) /\ Len(a) = i - 1 /\ \A j \in 1 .. (i - 1) : a[j] = s[j]
  <2>1. 1 \in Int /\ i - 1 \in Int /\ \A j \in 1 .. (i - 1) : s[j] \in S
    BY <1>1
  <2>2. /\ a \in Seq(S) /\ Len(a) = (IF 1 <= i - 1 THEN (i - 1) - 1 + 1 ELSE 0)
        /\ \A j \in 1 .. ((i - 1) - 1 + 1) : a[j] = s[1 + j - 1]
    BY <2>1, SubSeqProperties
  <2>3. \A j \in 1 .. (i - 1) : 1 + j - 1 = j
    BY <1>1
  <2> HIDE DEF a
  <2> QED BY <1>1, <2>2, <2>3
<1>3. b \in Seq(S) /\ Len(b) = n - i + 1 /\ \A j \in 1 .. (n - i + 1) : b[j] = s[i + j - 1]
  <2>1. i \in Int /\ n \in Int /\ \A j \in i .. n : s[j] \in S
    BY <1>1
  <2>2. /\ b \in Seq(S) /\ Len(b) = (IF i <= n THEN n - i + 1 ELSE 0)
        /\ \A j \in 1 .. (n - i + 1) : b[j] = s[i + j - 1]
    BY <2>1, SubSeqProperties
  <2> HIDE DEF b
  <2> QED BY <1>1, <2>2
<1>4. x \in Seq(S) /\ DOMAIN x = {1} /\ x[1] = e
  OBVIOUS
<1> HIDE DEF a, b, x
<1>5. ToSet(x) = {e}
  BY <1>4 DEF ToSet
<1>6. (a \o x) \o b \in Seq(S) /\ ToSet((a \o x) \o b) = ToSet(a) \cup {e} \cup ToSet(b)
  <2> DEFINE c == a \o x
  <2>1. c \in Seq(S) /\ ToSet(c) = ToSet(a) \cup {e}
    BY <1>2, <1>4, <1>5, JoinSet
  <2> HIDE DEF c
  <2>2. c \o b \in Seq(S) /\ ToSet(c \o b) = ToSet(c) \cup ToSet(b)
    BY <1>3, <2>1, JoinSet
  <2> QED BY <2>1, <2>2 DEF c
<1>7. ToSet(a) \cup ToSet(b) = ToSet(s)
  <2>1. DOMAIN a = 1 .. (i - 1) /\ DOMAIN b = 1 .. (n - i + 1)
    BY <1>2, <1>3
  <2>2. /\ ToSet(a) = {a[j] : j \in 1 .. (i - 1)} /\ ToSet(b) = {b[j] : j \in 1 .. (n - i + 1)}
        /\ ToSet(s) = {s[j] : j \in 1 .. n}
    BY <1>1, <2>1 DEF ToSet
  <2> HIDE DEF n
  <2>3. \A j \in 1 .. (i - 1) : j \in 1 .. n
    BY <1>1 DEF n
  <2>4. \A j \in 1 .. (n - i + 1) : i + j - 1 \in 1 .. n
    BY <1>1 DEF n
  <2>5. ASSUME NEW j \in 1 .. n PROVE s[j] \in ToSet(a) \cup ToSet(b)
    <3>1. CASE j <= i - 1
      <4>1. j \in 1 .. (i - 1)
        BY <3>1
      <4> QED BY <1>2, <2>2, <4>1
    <3>2. CASE ~(j <= i - 1)
      <4>1. (j - i + 1) \in 1 .. (n - i + 1) /\ i + (j - i + 1) - 1 = j
        BY <1>1, <3>2 DEF n
      <4> QED BY <1>3, <2>2, <4>1
    <3> QED BY <3>1, <3>2
  <2> QED BY <1>2, <1>3, <2>2, <2>3, <2>4, <2>5
<1>8. InsertAt(s, i, e) = (a \o x) \o b
  BY DEF InsertAt, a, b, x, n
<1> QED BY <1>6, <1>7, <1>8

\* Sorting keeps the lines of options, and adds at most an unreadable line.
KeepsOptions(sorted, lines) ==
    /\ \A l \in ToSet(sorted) : l = BadLine \/ l \in ToSet(lines)
    /\ \A l \in ToSet(lines) : l.key # 0 => l \in ToSet(sorted)

\* Sorting a line in adds it, as a bad line if it is a remark.
LEMMA SortInFacts ==
    ASSUME NEW sorted \in Seq(Lines), NEW line \in Lines
    PROVE  LET l == IF line.key = 0 THEN BadLine ELSE line IN
           SortIn(sorted, line) \in Seq(Lines) /\ ToSet(SortIn(sorted, line)) = ToSet(sorted) \cup {l}
<1> DEFINE l == IF line.key = 0 THEN BadLine ELSE line
           n == Len(sorted)
           s == {i \in 1 .. n : ~Sorts(l, sorted[i])}
           j == SelectLastInSeq(sorted, LAMBDA x : ~Sorts(l, x))
<1>1. l \in Lines /\ n \in Nat /\ s \in SUBSET (1 .. n)
  BY LineTypes
<1> HIDE DEF l
<1>2. j = IF s # {} THEN AnyFold!Greatest(s) ELSE 0
  BY DEF SelectLastInSeq, Max, AnyFold!Greatest
<1> HIDE DEF s, j
<1>3. s # {} => AnyFold!Greatest(s) \in s
  <2> HIDE DEF n
  <2> QED BY <1>1, AnyFold!HasGreatest
<1>4. j + 1 \in 1 .. (n + 1)
  <2> DEFINE g == AnyFold!Greatest(s)
  <2>1. s # {} => g \in 1 .. n
    BY <1>1, <1>3
  <2>2. j \in 0 .. n
    <3> HIDE DEF g, n
    <3>1. CASE s = {}
      BY <1>1, <1>2, <3>1
    <3>2. CASE s # {}
      BY <1>1, <1>2, <2>1, <3>2 DEF g
    <3> QED BY <3>1, <3>2
  <2> HIDE DEF n
  <2> QED BY <1>1, <2>2
<1>5. InsertAt(sorted, j + 1, l) \in Seq(Lines)
      /\ ToSet(InsertAt(sorted, j + 1, l)) = ToSet(sorted) \cup {l}
  BY <1>1, <1>4, InsertFacts
<1>6. SortIn(sorted, line) = InsertAt(sorted, j + 1, l)
  BY DEF SortIn, j, l
<1> QED BY <1>5, <1>6 DEF l

\* Sorting a file keeps the lines of its options.
LEMMA SortFacts ==
    ASSUME NEW lines \in Seq(Lines)
    PROVE  SortConfig(lines) \in Seq(Lines) /\ KeepsOptions(SortConfig(lines), lines)
<1> DEFINE V == Seq(Lines)
           n == Len(lines)
           P(i) == SubSeq(lines, 1, i)
           T == [i \in 0 .. n |-> {w \in V : KeepsOptions(w, P(i))}]
<1>1. n \in Nat /\ <<>> \in V
  BY EmptyFacts
<1>2. \A w \in V, l \in Lines : SortIn(w, l) \in V
  BY SortInFacts
<1>3. /\ P(0) = <<>> /\ P(n) = lines
      /\ \A i \in 1 .. n : P(i) = Append(P(i - 1), lines[i]) /\ P(i - 1) \in V
  BY AnyFold!Prefixes
<1>4. KeepsOptions(<<>>, <<>>)
  BY EmptyFacts DEF KeepsOptions
<1> HIDE DEF V, P
<1>5. ASSUME NEW i \in 0 .. (n - 1), NEW w \in T[i] PROVE SortIn(w, lines[i + 1]) \in T[i + 1]
  <2> DEFINE l == lines[i + 1]
             s == P(i)
             x == IF l.key = 0 THEN BadLine ELSE l
  <2>1. i + 1 \in 1 .. n /\ (i + 1) - 1 = i /\ i \in 0 .. n /\ i + 1 \in 0 .. n
    BY <1>1
  <2>2. w \in V /\ KeepsOptions(w, s)
    BY <2>1
  <2>3. P(i + 1) = Append(s, l) /\ s \in V /\ l \in Lines
    BY <1>3, <2>1, ElementOfSeq
  <2> HIDE DEF s, l
  <2>4. ToSet(Append(s, l)) = ToSet(s) \cup {l}
    BY <2>3, AppendFacts DEF V
  <2>5. SortIn(w, l) \in V /\ ToSet(SortIn(w, l)) = ToSet(w) \cup {x}
    BY <2>2, <2>3, SortInFacts DEF V
  <2>6. KeepsOptions(SortIn(w, l), Append(s, l))
    BY <2>2, <2>4, <2>5 DEF KeepsOptions
  <2> QED BY <2>1, <2>3, <2>5, <2>6 DEF l
<1>6. T \in [0 .. n -> SUBSET V] /\ <<>> \in T[0]
  BY <1>1, <1>3, <1>4
<1>7. T[n] = {w \in V : KeepsOptions(w, lines)}
  BY <1>1, <1>3
<1> HIDE DEF T
<1>8. SortFold!FoldValue(0, <<>>, lines) \in T[n]
  BY <1>1, <1>2, <1>5, <1>6, SortFold!FoldInduction
<1>9. SortConfig(lines) = SortFold!FoldValue(0, <<>>, lines)
  BY DEF SortConfig, FoldLeft, MapThenFoldSet, Max, SortFold!FoldValue, SortFold!Greatest
<1> QED BY <1>7, <1>8, <1>9 DEF V

\* After a menu the fragment has one value for an option that was changed: the new one.
LEMMA UpdatedFacts ==
    ASSUME NEW f \in Seq(Lines), NEW old \in [Option -> Values], NEW new \in [Option -> Values]
    PROVE  LET u == UpdatedFragment(<<f>>, old, new) IN
           /\ u \in Seq(Lines)
           /\ \A k \in Option : new[k] \notin {"absent", old[k]} =>
                 k \in KeysIn(u) /\ LastOf(u, k) = OptionLine(k, new[k], FALSE)
<1> DEFINE ks == {k \in Option : new[k] \notin {"absent", old[k]}}
           d == DiffConfig(old, new)
           M == MergeOne(f, d)
           u == SortConfig(M)
<1>1. d \in Seq(Lines) /\ Lists(d, new, ks)
  <2>1. \A k \in ks : new[k] \in {"y", "n"}
    BY DEF Values
  <2>2. d = Listing(new, ks)
    BY DEF DiffConfig
  <2>3. ks \in SUBSET Option
    OBVIOUS
  <2> HIDE DEF d, ks
  <2> QED BY <2>1, <2>2, <2>3, ListingFacts
<1>2. UpdatedFragment(<<f>>, old, new) = u
  <2> HIDE DEF d
  <2>1. <<f>> \in Seq(Seq(Lines)) /\ Head(<<f>>) = f /\ Tail(<<f>>) = <<>>
    OBVIOUS
  <2>2. <<>> \o <<d>> = <<d>>
    BY <1>1
  <2>3. MergeConfig(Head(<<f>>), Tail(<<f>>) \o <<d>>) = MergeOne(f, d)
    BY <1>1, <2>1, <2>2, MergeFew
  <2> QED BY <2>3 DEF UpdatedFragment, d
<1> HIDE DEF d
<1>3. /\ M \in Seq(Lines) /\ KeysIn(M) = KeysIn(f) \cup KeysIn(d)
      /\ \A l \in ToSet(M) : l.key \in KeysIn(d) => l \in ToSet(d)
      /\ \A k \in KeysIn(d) : LastOf(M, k) = LastOf(d, k)
  BY <1>1, MergeOneFacts
<1> HIDE DEF M
<1>4. u \in Seq(Lines) /\ KeepsOptions(u, M)
  BY <1>3, SortFacts
<1> HIDE DEF u
<1>5. ASSUME NEW k \in ks PROVE k \in KeysIn(u) /\ LastOf(u, k) = OptionLine(k, new[k], FALSE)
  <2>1. k \in KeysIn(d) /\ k \in KeysIn(M) /\ k # 0
    BY <1>1, <1>3, KernelConfigAssumption DEF Lists, Option
  <2>2. LastOf(M, k) \in ToSet(M) /\ LastOf(M, k).key = k
    BY <1>3, <2>1, LastEnds
  <2>3. LastOf(M, k) \in ToSet(u)
    BY <1>4, <2>1, <2>2 DEF KeepsOptions
  <2>4. k \in KeysIn(u)
    BY <2>1, <2>2, <2>3 DEF KeysIn
  <2>5. LastOf(u, k) \in ToSet(u) /\ LastOf(u, k).key = k
    BY <1>4, <2>4, LastEnds
  <2>6. LastOf(u, k) \in ToSet(d)
    BY <1>3, <1>4, <2>1, <2>5, LineTypes DEF KeepsOptions
  <2> QED BY <1>1, <2>4, <2>5, <2>6 DEF Lists
<1> QED BY <1>2, <1>4, <1>5

\* Fragments by their number and as a set.
LEMMA FragmentIn ==
    ASSUME NEW fragments \in Fragments
    PROVE  /\ Len(fragments) \in Nat
           /\ \A f : f \in ToSet(fragments) <=> \E i \in 1 .. Len(fragments) : f = fragments[i]
           /\ \A f \in ToSet(fragments) : f \in Seq(Lines)
<1>1. Len(fragments) \in Nat /\ DOMAIN fragments = 1 .. Len(fragments)
  BY DEF Fragments
<1>2. \A i \in 1 .. Len(fragments) : fragments[i] \in Seq(Lines)
  BY ElementOfSeq DEF Fragments
<1> QED BY <1>1, <1>2 DEF ToSet

\* An option of a fragment has, once all are merged, the last line of one of them.
LEMMA MergedSays ==
    ASSUME NEW lines \in Seq(Lines), NEW fragments \in Fragments, NEW f \in ToSet(fragments),
           NEW k \in KeysIn(f)
    PROVE  /\ k \in KeysIn(MergeConfig(lines, fragments))
           /\ \E g \in ToSet(fragments) : /\ k \in KeysIn(g)
                                          /\ LastOf(MergeConfig(lines, fragments), k) = LastOf(g, k)
<1> DEFINE M == MergeConfig(lines, fragments)
           n == Len(fragments)
<1>1. Merged(M, lines, fragments, n)
  BY MergeFacts
<1>2. PICK i \in 1 .. n : f = fragments[i]
  BY FragmentIn
<1>3. \A j \in 1 .. n : fragments[j] \in ToSet(fragments)
  BY FragmentIn
<1> HIDE DEF M, n
<1>4. k \in KeysIn(M)
  BY <1>1, <1>2 DEF Merged
<1>5. \E j \in 1 .. n : k \in KeysIn(fragments[j]) /\ LastOf(M, k) = LastOf(fragments[j], k)
  BY <1>1, <1>2, <1>4 DEF Merged
<1> QED BY <1>3, <1>4, <1>5 DEF M

-----------------------------------------------------------------------------
(* Configurations as the options of one of them *)

\* Leaving options out of a file, line by line.
LEMMA WithoutNext ==
    ASSUME NEW lines \in Seq(Lines), NEW l \in Lines, NEW ks
    PROVE  Without(Append(lines, l), ks) = KeepOther(ks, Without(lines, ks), l)
<1>1. \A w \in Seq(Lines), x \in Lines : KeepOther(ks, w, x) \in Seq(Lines)
  BY AppendFacts DEF KeepOther
<1>2. <<>> \in Seq(Lines)
  BY EmptyFacts
<1>3. KeepFold!FoldsOn(ks, Seq(Lines), <<>>, lines, l)
  BY <1>1, <1>2, KeepFold!FoldAppend
<1>4. \A s : Without(s, ks) = KeepFold!FoldValue(ks, <<>>, s)
  BY DEF Without, FoldLeft, MapThenFoldSet, Max, KeepFold!FoldValue, KeepFold!Greatest
<1> QED BY <1>3, <1>4 DEF KeepFold!FoldsOn

\* Nothing can be left out of the empty file.
LEMMA WithoutNone ==
    ASSUME NEW ks
    PROVE  Without(<<>>, ks) = <<>>
<1>1. Without(<<>>, ks) \in Seq(Lines) /\ ToSet(Without(<<>>, ks)) = {}
  BY EmptyFacts, WithoutFacts DEF IsWithout
<1> DEFINE w == Without(<<>>, ks)
<1> HIDE DEF w
<1>2. w \in Seq(Lines) /\ ToSet(w) = {}
  BY <1>1 DEF w
<1>3. DOMAIN w = {}
  BY <1>2 DEF ToSet
<1>4. w = <<>>
  BY <1>2, <1>3
<1> QED BY <1>4 DEF w

\* Leaving options out of a list is not listing them.
LEMMA WithoutListing ==
    ASSUME NEW val, NEW ks \in SUBSET Option, \A k \in ks : val[k] \in {"y", "n"}, NEW js
    PROVE  Without(Listing(val, ks), js) = Listing(val, ks \ js)
<1> DEFINE V == Seq(Lines)
           o == [k \in Option |-> k]
           n == Options
           p == [val |-> val, ks |-> ks]
           q == [val |-> val, ks |-> ks \ js]
           L(k) == OptionLine(k, val[k], FALSE)
<1>1. n \in Nat /\ o \in Seq(Option) /\ Len(o) = n /\ Option = 1 .. n
  BY KernelConfigAssumption DEF Option
<1>2. ASSUME NEW k \in ks PROVE L(k) \in Lines /\ L(k).key = k
  <2>1. k \in Option /\ val[k] \in {"y", "n"} /\ FALSE \in BOOLEAN
    OBVIOUS
  <2> QED BY <2>1, LineIn, LineTypes DEF OptionLine
<1>3. p.val = val /\ p.ks = ks /\ q.val = val /\ q.ks = ks \ js
  OBVIOUS
<1> HIDE DEF p, q
<1>4. <<>> \in V /\ \A w \in V, k \in Option : List(p.val, p.ks, w, k) \in V
                                               /\ List(q.val, q.ks, w, k) \in V
  BY <1>2, <1>3, AppendFacts, EmptyFacts DEF List
<1> HIDE DEF V, o
<1>5. PICK t \in [0 .. Len(o) -> V] : ListFold!IsTrace(t, p, <<>>, o)
  <2>1. ListFold!Trace(p, V, <<>>, o)
    BY <1>1, <1>4, ListFold!FoldTrace
  <2> QED BY <2>1 DEF ListFold!Trace
<1>6. PICK u \in [0 .. Len(o) -> V] : ListFold!IsTrace(u, q, <<>>, o)
  <2>1. ListFold!Trace(q, V, <<>>, o)
    BY <1>1, <1>4, ListFold!FoldTrace
  <2> QED BY <2>1 DEF ListFold!Trace
<1>7. /\ t[0] = <<>> /\ u[0] = <<>>
      /\ \A i \in 1 .. n : /\ t[i] = List(val, ks, t[i - 1], o[i])
                           /\ u[i] = List(val, ks \ js, u[i - 1], o[i])
      /\ t[n] = ListFold!FoldValue(p, <<>>, o) /\ u[n] = ListFold!FoldValue(q, <<>>, o)
  BY <1>1, <1>3, <1>5, <1>6 DEF ListFold!IsTrace
<1> DEFINE T == {i \in 0 .. n : Without(t[i], js) = u[i]}
<1>8. 0 \in T
  BY <1>1, <1>7, WithoutNone
<1>9. ASSUME NEW i \in 0 .. (n - 1), i \in T PROVE i + 1 \in T
  <2> DEFINE k == i + 1
  <2>1. k \in 1 .. n /\ k - 1 = i /\ k \in 0 .. n /\ i \in 0 .. n
    BY <1>1
  <2>2. o[k] = k
    BY <1>1, <2>1 DEF o
  <2> HIDE DEF k
  <2>3. t[k] = List(val, ks, t[i], k) /\ u[k] = List(val, ks \ js, u[i], k)
        /\ t[i] \in V /\ Without(t[i], js) = u[i]
    BY <1>1, <1>5, <1>7, <1>9, <2>1, <2>2
  <2>4. CASE k \notin ks
    BY <2>1, <2>3, <2>4 DEF List, k
  <2>5. CASE k \in ks
    <3>1. t[k] = Append(t[i], L(k)) /\ L(k) \in Lines /\ L(k).key = k
      BY <1>2, <2>3, <2>5 DEF List
    <3>2. Without(t[k], js) = KeepOther(js, u[i], L(k))
      BY <2>3, <3>1, WithoutNext DEF V
    <3>3. Without(t[k], js) = u[k]
      BY <2>3, <2>5, <3>1, <3>2 DEF KeepOther, List
    <3> QED BY <2>1, <3>3 DEF k
  <2> QED BY <2>4, <2>5
<1>10. n \in T
  <2> HIDE DEF T
  <2>1. 0 .. n \subseteq T
    BY <1>1, <1>8, <1>9, AnyFold!UpTo
  <2> QED BY <1>1, <2>1
<1>11. Listing(val, ks) = t[n]
  BY <1>3, <1>7 DEF o, Listing, FoldLeft, MapThenFoldSet, Max, ListFold!FoldValue, ListFold!Greatest
<1>12. Listing(val, ks \ js) = u[n]
  BY <1>3, <1>7 DEF o, Listing, FoldLeft, MapThenFoldSet, Max, ListFold!FoldValue, ListFold!Greatest
<1> QED BY <1>10, <1>11, <1>12

\* Two configurations that agree on the options listed have one listing.
LEMMA SameListing ==
    ASSUME NEW val, NEW new, NEW ks \in SUBSET Option,
           \A k \in ks : val[k] \in {"y", "n"} /\ new[k] = val[k]
    PROVE  Listing(val, ks) = Listing(new, ks)
<1> DEFINE V == Seq(Lines)
           o == [k \in Option |-> k]
           p == [val |-> val, ks |-> ks]
           q == [val |-> new, ks |-> ks]
<1>1. o \in Seq(Option)
  BY KernelConfigAssumption DEF Option
<1>2. ASSUME NEW k \in ks
      PROVE  OptionLine(k, val[k], FALSE) \in Lines /\ new[k] = val[k]
  <2>1. k \in Option /\ val[k] \in {"y", "n"} /\ FALSE \in BOOLEAN
    OBVIOUS
  <2> QED BY <2>1, LineIn, LineTypes
<1>3. p.val = val /\ p.ks = ks /\ q.val = new /\ q.ks = ks
  OBVIOUS
<1> HIDE DEF p, q
<1>4. \A w \in V, k \in Option : List(p.val, p.ks, w, k) \in V
                                 /\ List(q.val, q.ks, w, k) = List(p.val, p.ks, w, k)
  BY <1>2, <1>3, AppendFacts DEF List
<1>5. <<>> \in V
  BY EmptyFacts
<1> HIDE DEF V, o
<1>6. ListFold!FoldValue(p, <<>>, o) = ListFold!FoldValue(q, <<>>, o)
  BY <1>1, <1>4, <1>5, ListFold!FoldSame
<1>7. Listing(val, ks) = ListFold!FoldValue(p, <<>>, o)
  BY <1>3 DEF o, Listing, FoldLeft, MapThenFoldSet, Max, ListFold!FoldValue, ListFold!Greatest
<1>8. Listing(new, ks) = ListFold!FoldValue(q, <<>>, o)
  BY <1>3 DEF o, Listing, FoldLeft, MapThenFoldSet, Max, ListFold!FoldValue, ListFold!Greatest
<1> QED BY <1>6, <1>7, <1>8

\* Two .config files with the same values of the options of a set say the same of them.
LEMMA SameSeen ==
    ASSUME NEW val \in [Option -> Values], NEW new \in [Option -> Values], NEW ks,
           \A k \in Option \cap ks : new[k] = val[k]
    PROVE  Without(DotConfig(val), Option \ ks) = Without(DotConfig(new), Option \ ks)
<1> DEFINE S(v) == {k \in Option : v[k] # "absent"}
<1>1. ASSUME NEW v \in [Option -> Values]
      PROVE  /\ \A k \in S(v) : v[k] \in {"y", "n"}
             /\ Without(DotConfig(v), Option \ ks) = Listing(v, S(v) \ (Option \ ks))
  <2>1. \A k \in S(v) : v[k] \in {"y", "n"}
    BY DEF Values
  <2>2. DotConfig(v) = Listing(v, S(v)) /\ S(v) \in SUBSET Option
    BY DEF DotConfig
  <2> HIDE DEF S
  <2> QED BY <2>1, <2>2, WithoutListing
<1>2. S(val) \ (Option \ ks) = S(new) \ (Option \ ks)
  OBVIOUS
<1>3. \A k \in S(val) \ (Option \ ks) : val[k] \in {"y", "n"} /\ new[k] = val[k]
  BY <1>1
<1>4. S(val) \ (Option \ ks) \in SUBSET Option
  OBVIOUS
<1> HIDE DEF S
<1>5. Listing(val, S(val) \ (Option \ ks)) = Listing(new, S(val) \ (Option \ ks))
  BY <1>3, <1>4, SameListing
<1> QED BY <1>1, <1>2, <1>5

-----------------------------------------------------------------------------
(* Depsets *)

\* w is base and then files of S that are not there, each of S is in it.
Grown(w, base, S) ==
    /\ Len(base) <= Len(w) /\ \A i \in 1 .. Len(base) : w[i] = base[i]
    /\ \A i \in (Len(base) + 1) .. Len(w) : w[i] \in S \ ToSet(base)
    /\ ToSet(w) = ToSet(base) \cup S

\* A list that grew twice grew by the files of both times.
LEMMA GrownTwice ==
    ASSUME NEW a \in Seq(Files), NEW b \in Seq(Files), NEW c \in Seq(Files), NEW S, NEW T,
           Grown(b, a, S), Grown(c, b, T)
    PROVE  Grown(c, a, S \cup T)
<1> DEFINE l == Len(a)
           m == Len(b)
           n == Len(c)
<1>1. l \in Nat /\ m \in Nat /\ n \in Nat /\ l <= m /\ m <= n
  BY DEF Grown
<1>2. /\ \A i \in 1 .. l : b[i] = a[i]
      /\ \A i \in (l + 1) .. m : b[i] \in S \ ToSet(a)
      /\ ToSet(b) = ToSet(a) \cup S
      /\ \A i \in 1 .. m : c[i] = b[i]
      /\ \A i \in (m + 1) .. n : c[i] \in T \ ToSet(b)
      /\ ToSet(c) = ToSet(b) \cup T
  BY DEF Grown
<1> HIDE DEF l, m, n
<1>3. \A i \in 1 .. l : i \in 1 .. m
  BY <1>1
<1>4. \A i \in (l + 1) .. n : (i \in (l + 1) .. m /\ i \in 1 .. m) \/ i \in (m + 1) .. n
  BY <1>1
<1>5. \A i \in 1 .. l : c[i] = a[i]
  BY <1>2, <1>3
<1>6. \A i \in (l + 1) .. n : c[i] \in (S \cup T) \ ToSet(a)
  BY <1>2, <1>4
<1>7. l <= n /\ ToSet(c) = ToSet(a) \cup (S \cup T)
  BY <1>1, <1>2
<1> QED BY <1>5, <1>6, <1>7 DEF Grown, l, n

\* A list as it was has not grown.
LEMMA GrownNot ==
    ASSUME NEW a \in Seq(Files)
    PROVE  Grown(a, a, {})
<1> DEFINE n == Len(a)
<1>1. n \in Nat
  OBVIOUS
<1>2. (n + 1) .. n = {} /\ n <= n
  <2> HIDE DEF n
  <2> QED BY <1>1
<1> QED BY <1>2 DEF Grown

\* A file that is listed is in the list, at its end if it was not there.
LEMMA ListedFacts ==
    ASSUME NEW a \in Seq(Files), NEW f \in Files
    PROVE  /\ Listed(a, f) \in Seq(Files) /\ Grown(Listed(a, f), a, {f})
           /\ f \notin ToSet(a) => Listed(a, f)[Len(Listed(a, f))] = f
<1>1. CASE f \in ToSet(a)
  <2>1. Listed(a, f) = a
    BY <1>1 DEF Listed
  <2>2. Grown(a, a, {})
    BY GrownNot
  <2>3. Grown(a, a, {f})
    <3>1. ToSet(a) = ToSet(a) \cup {f}
      BY <1>1
    <3>2. \A i \in (Len(a) + 1) .. Len(a) : FALSE
      BY LenProperties
    <3> QED BY <2>2, <3>1, <3>2 DEF Grown
  <2> QED BY <1>1, <2>1, <2>3
<1>2. CASE f \notin ToSet(a)
  <2> DEFINE n == Len(a)
             w == Append(a, f)
             x == <<f>>
  <2>1. Listed(a, f) = w
    BY <1>2 DEF Listed
  <2>2. w \in Seq(Files) /\ Len(w) = n + 1 /\ w[n + 1] = f /\ (\A i \in 1 .. n : w[i] = a[i])
        /\ n \in Nat
    BY AppendProperties
  <2>3. ToSet(w) = ToSet(a) \cup {f}
    <3>1. x \in Seq(Files) /\ DOMAIN x = {1} /\ x[1] = f /\ w = a \o x
      BY AppendIsConcat
    <3> HIDE DEF x, w
    <3>2. ToSet(x) = {f}
      BY <3>1 DEF ToSet
    <3> QED BY <3>1, <3>2, JoinSet
  <2> HIDE DEF w, n
  <2>4. \A i \in (n + 1) .. (n + 1) : i = n + 1
    BY <2>2
  <2>5. n <= n + 1
    BY <2>2
  <2>6. Grown(w, a, {f})
    BY <1>2, <2>2, <2>3, <2>4, <2>5 DEF Grown, n
  <2> QED BY <2>1, <2>2, <2>6
<1> QED BY <1>1, <1>2

\* All files that are listed are in the list.
LEMMA ListAllFacts ==
    ASSUME NEW base \in Seq(Files), NEW files \in Seq(Files)
    PROVE  ListAll(base, files) \in Seq(Files) /\ Grown(ListAll(base, files), base, ToSet(files))
<1> DEFINE n == Len(files)
           S(i) == {files[j] : j \in 1 .. i}
           V == Seq(Files)
           T == [i \in 0 .. n |-> {w \in V : Grown(w, base, S(i))}]
<1>1. n \in Nat /\ \A i \in 1 .. n : files[i] \in Files
  BY ElementOfSeq
<1>2. S(0) = {} /\ S(n) = ToSet(files)
  BY <1>1 DEF ToSet
<1>3. \A i \in 0 .. (n - 1) : S(i + 1) = S(i) \cup {files[i + 1]}
  <2> HIDE DEF n
  <2>1. \A i \in 0 .. (n - 1) : 1 .. (i + 1) = (1 .. i) \cup {i + 1}
    BY <1>1
  <2> QED BY <2>1
<1> HIDE DEF S
<1>4. \A w \in V, f \in Files : Listed(w, f) \in V
  BY ListedFacts
<1>5. ASSUME NEW i \in 0 .. (n - 1), NEW w \in T[i] PROVE Listed(w, files[i + 1]) \in T[i + 1]
  <2> DEFINE f == files[i + 1]
  <2>1. i + 1 \in 1 .. n /\ i \in 0 .. n /\ i + 1 \in 0 .. n
    BY <1>1
  <2>2. f \in Files /\ w \in V /\ Grown(w, base, S(i))
    BY <1>1, <2>1
  <2> HIDE DEF f
  <2>3. Listed(w, f) \in V /\ Grown(Listed(w, f), w, {f})
    BY <2>2, ListedFacts
  <2>4. Grown(Listed(w, f), base, S(i) \cup {f})
    BY <2>2, <2>3, GrownTwice
  <2> QED BY <1>3, <2>1, <2>3, <2>4 DEF f
<1>6. T \in [0 .. n -> SUBSET V] /\ base \in T[0]
  <2>1. Grown(base, base, S(0)) /\ base \in V /\ 0 \in 0 .. n
    <3>1. Grown(base, base, {})
      BY GrownNot
    <3>2. S(0) = {}
      BY <1>2
    <3>3. Grown(base, base, S(0))
      BY <3>1, <3>2
    <3>4. 0 \in 0 .. n
      BY <1>1
    <3> QED BY <3>3, <3>4
  <2> HIDE DEF V, n
  <2> QED BY <2>1
<1>7. T[n] = {w \in V : Grown(w, base, ToSet(files))}
  BY <1>1, <1>2
<1> HIDE DEF T, V
<1>8. ListedFold!FoldValue(0, base, files) \in T[n]
  <2>1. base \in V
    BY DEF V
  <2> QED BY <1>1, <1>4, <1>5, <1>6, <2>1, ListedFold!FoldInduction
<1>9. ListAll(base, files) = ListedFold!FoldValue(0, base, files)
  BY DEF ListAll, FoldLeft, MapThenFoldSet, Max, ListedFold!FoldValue, ListedFold!Greatest
<1> QED BY <1>7, <1>8, <1>9 DEF V

AllOf(files, deps) == UNION {ToSet(files[d]) : d \in ToSet(deps)}

\* The files of all dependencies are in the list.
LEMMA DepFilesFacts ==
    ASSUME NEW base \in Seq(Files), NEW D, NEW files, \A d \in D : files[d] \in Seq(Files),
           NEW deps \in Seq(D)
    PROVE  /\ DepFiles(base, files, deps) \in Seq(Files)
           /\ Grown(DepFiles(base, files, deps), base, AllOf(files, deps))
<1> DEFINE n == Len(deps)
           S(i) == UNION {ToSet(files[deps[j]]) : j \in 1 .. i}
           V == Seq(Files)
           T == [i \in 0 .. n |-> {w \in V : Grown(w, base, S(i))}]
<1>1. n \in Nat /\ DOMAIN deps = 1 .. n /\ \A i \in 1 .. n : deps[i] \in D
  BY ElementOfSeq
<1>2. S(0) = {} /\ S(n) = UNION {ToSet(files[d]) : d \in ToSet(deps)}
  <2>1. ToSet(deps) = {deps[j] : j \in 1 .. n}
    BY <1>1 DEF ToSet
  <2>2. 1 .. 0 = {}
    OBVIOUS
  <2> HIDE DEF n
  <2> QED BY <2>1, <2>2
<1>3. \A i \in 0 .. (n - 1) : S(i + 1) = S(i) \cup ToSet(files[deps[i + 1]])
  <2> HIDE DEF n
  <2>1. \A i \in 0 .. (n - 1) : 1 .. (i + 1) = (1 .. i) \cup {i + 1}
    BY <1>1
  <2> QED BY <2>1
<1> HIDE DEF S
<1>4. \A w \in V, d \in D : ListAll(w, files[d]) \in V
  BY ListAllFacts
<1>5. ASSUME NEW i \in 0 .. (n - 1), NEW w \in T[i]
      PROVE  ListAll(w, files[deps[i + 1]]) \in T[i + 1]
  <2> DEFINE f == files[deps[i + 1]]
  <2>1. i + 1 \in 1 .. n /\ i \in 0 .. n /\ i + 1 \in 0 .. n
    BY <1>1
  <2>2. f \in Seq(Files) /\ w \in V /\ Grown(w, base, S(i))
    BY <1>1, <2>1
  <2> HIDE DEF f
  <2>3. ListAll(w, f) \in V /\ Grown(ListAll(w, f), w, ToSet(f))
    BY <2>2, ListAllFacts
  <2>4. Grown(ListAll(w, f), base, S(i) \cup ToSet(f))
    BY <2>2, <2>3, GrownTwice
  <2> QED BY <1>3, <2>1, <2>3, <2>4 DEF f
<1>6. T \in [0 .. n -> SUBSET V] /\ base \in T[0]
  <2>1. Grown(base, base, S(0)) /\ base \in V /\ 0 \in 0 .. n
    <3>1. Grown(base, base, {})
      BY GrownNot
    <3>2. S(0) = {}
      BY <1>2
    <3>3. Grown(base, base, S(0))
      BY <3>1, <3>2
    <3>4. 0 \in 0 .. n
      BY <1>1
    <3> QED BY <3>3, <3>4
  <2> HIDE DEF V, n
  <2> QED BY <2>1
<1>7. T[n] = {w \in V : Grown(w, base, UNION {ToSet(files[d]) : d \in ToSet(deps)})}
  <2>1. n \in 0 .. n
    BY <1>1
  <2> HIDE DEF V, n
  <2>2. T[n] = {w \in V : Grown(w, base, S(n))}
    BY <2>1
  <2> QED BY <1>2, <2>2
<1> HIDE DEF T, V
<1>8. DepFold!FoldValue(files, base, deps) \in T[n]
  <2>1. base \in V
    BY DEF V
  <2> QED BY <1>1, <1>4, <1>5, <1>6, <2>1, DepFold!FoldInduction
<1>9. DepFiles(base, files, deps) = DepFold!FoldValue(files, base, deps)
  BY DEF DepFiles, FoldLeft, MapThenFoldSet, Max, DepFold!FoldValue, DepFold!Greatest
<1> QED BY <1>7, <1>8, <1>9 DEF V, AllOf

\* By which files a list grew matters only for those it did not have.
LEMMA GrownBy ==
    ASSUME NEW w, NEW base, NEW S, NEW T, Grown(w, base, S), S \ ToSet(base) = T \ ToSet(base)
    PROVE  Grown(w, base, T)
BY DEF Grown
=============================================================================
