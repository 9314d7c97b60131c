-------------------------- MODULE SourceFileProofs --------------------------
(*****************************************************************************)
(* Theorems about the files of the source tree that programs edit: the copy  *)
(* loop of _update_file keeps the user's text; the picture that the          *)
(* BuildozerCommandBuilder has of the BUILD files is what they are after its *)
(* commands, for any file and any edits of a script; no run of a script      *)
(* loses what a user has put in the place of a FIXME; build_cleaner.py gives *)
(* every module exactly the dependencies it misses; and make links the       *)
(* modules of a Kbuild that gen_makefiles.py has merged from their own       *)
(* sources.                                                                  *)
(*****************************************************************************)
EXTENDS UpdateFile, BuildCleaner, GenMakefiles, FiniteSetTheorems, SequenceTheorems, TLAPS

-----------------------------------------------------------------------------
(* UpdateFile: files line by line *)

\* Folds of the module: the copy loop, what is written, what is outside.
CopyFold == INSTANCE SequenceFolds WITH Op <- LAMBDA u, acc, l : CopyLine(acc, l, u)
WriteFold == INSTANCE SequenceFolds WITH Op <- LAMBDA p, out, l : Write(out, l)
OutsideFold == INSTANCE SequenceFolds WITH Op <- LAMBDA f, kept, i : KeepOutside(f, kept, i)

\* Lines that end in a newline.
Texts == UserText \cup Update
Lines == {Begin, End} \cup {User(t) : t \in Texts}

\* The last section of a file is open at its end.
InSection(f) ==
    \E b \in 1 .. Len(f) :
        f[b].mark = "begin" /\ \A e \in (b + 1) .. Len(f) : f[e].mark # "end"

\* What a line is, by its mark.
LEMMA LineFields ==
    ASSUME NEW l \in Lines
    PROVE  /\ l.mark \in {"", "begin", "end"} /\ l.nl = TRUE
           /\ l.mark = "begin" <=> l = Begin
           /\ l.mark = "end" <=> l = End
           /\ l.mark # "" => l.text = ""
           /\ l.mark = "" => l.text \in Texts /\ l.text # "" /\ l = User(l.text)
<1>1. Begin = [text |-> "", mark |-> "begin", nl |-> TRUE]
      /\ End = [text |-> "", mark |-> "end", nl |-> TRUE]
  BY DEF Begin, End, Line
<1>2. CASE l = Begin
  BY <1>1, <1>2
<1>3. CASE l = End
  BY <1>1, <1>3
<1>4. ASSUME NEW t \in Texts, l = User(t)
      PROVE  l.mark = "" /\ l.nl = TRUE /\ l.text = t /\ t # "" /\ l # Begin /\ l # End
  <2>1. l.mark = "" /\ l.nl = TRUE /\ l.text = t
    BY <1>4 DEF User, Line
  <2>2. Begin.mark = "begin" /\ End.mark = "end"
    BY <1>1
  <2>3. l # Begin /\ l # End
    BY <2>1, <2>2
  <2> QED BY <2>1, <2>3, UpdateFileAssumption DEF Texts
<1> QED BY <1>2, <1>3, <1>4 DEF Lines

\* Markers and user lines are lines.
LEMMA SomeLines ==
    /\ Begin \in Lines /\ Begin.mark = "begin"
    /\ End \in Lines /\ End.mark = "end"
    /\ \A t \in Texts : User(t) \in Lines /\ User(t).mark = "" /\ User(t).text = t
BY DEF Lines, Begin, End, User, Line

\* A sequence with one more element.
LEMMA Longer ==
    ASSUME NEW S, NEW g \in Seq(S), NEW l \in S, NEW h, h = Append(g, l)
    PROVE  /\ h \in Seq(S) /\ Len(g) \in Nat /\ Len(h) = Len(g) + 1 /\ h[Len(g) + 1] = l
           /\ \A i \in 1 .. Len(g) : h[i] = g[i]
BY AppendProperties

\* To lines that end in a newline, writing adds a line.
LEMMA WriteIsAppend ==
    ASSUME NEW out \in Seq(Lines), NEW l \in Lines
    PROVE  Write(out, l) = Append(out, l) /\ Append(out, l) \in Seq(Lines)
<1>1. ASSUME out # <<>> PROVE Last(out) \in Lines
  <2>1. Len(out) \in 1 .. Len(out)
    BY <1>1, EmptySeq
  <2> QED BY <2>1, ElementOfSeq DEF Last
<1>2. out # <<>> => Last(out).nl
  BY <1>1, LineFields
<1> QED BY <1>2, AppendProperties DEF Write

\* Writing a section.
LEMMA WriteSection ==
    ASSUME NEW out \in Seq(Lines), NEW u \in Texts
    PROVE  /\ WriteAll(out, Section(u)) = Append(Append(out, Begin), User(u))
           /\ WriteAll(out, Append(Section(u), End)) =
                  Append(Append(Append(out, Begin), User(u)), End)
<1>1. Begin \in Lines /\ User(u) \in Lines /\ End \in Lines
  BY SomeLines
<1>2. \A o \in Seq(Lines), l \in Lines : Write(o, l) \in Seq(Lines) /\ Write(o, l) = Append(o, l)
  BY WriteIsAppend
<1> DEFINE s0 == <<Begin>>
           s == <<Begin, User(u)>>
           s3 == Append(s, End)
           W(q) == WriteFold!FoldValue(0, out, q)
<1>3. Section(u) = s
  BY DEF Section, User
<1>4. <<>> \in Seq(Lines) /\ s0 \in Seq(Lines) /\ s \in Seq(Lines)
  BY <1>1
<1>5. s0 = Append(<<>>, Begin) /\ s = Append(s0, User(u))
  BY <1>1
<1> HIDE DEF s0, s
<1>6. ASSUME NEW q \in Seq(Lines), NEW l \in Lines
      PROVE  /\ W(<<>>) = out
             /\ W(q) \in Seq(Lines) /\ W(Append(q, l)) = Append(W(q), l)
  <2>1. \A o \in Seq(Lines), y \in Lines : Write(o, y) \in Seq(Lines)
    BY <1>2
  <2>2. /\ WriteFold!FoldValue(0, out, <<>>) = out
        /\ WriteFold!FoldValue(0, out, q) \in Seq(Lines)
        /\ WriteFold!FoldValue(0, out, Append(q, l)) = Write(WriteFold!FoldValue(0, out, q), l)
    <3>1. WriteFold!FoldsOn(0, Seq(Lines), out, q, l)
      BY <2>1, WriteFold!FoldAppend
    <3> QED BY <3>1 DEF WriteFold!FoldsOn
  <2> QED BY <1>2, <2>2
<1> HIDE DEF W
<1>7. W(s) = Append(Append(out, Begin), User(u))
  <2>1. W(<<>>) = out /\ W(s0) = Append(W(<<>>), Begin)
    BY <1>1, <1>4, <1>5, <1>6
  <2>2. W(s) = Append(W(s0), User(u))
    BY <1>1, <1>4, <1>5, <1>6
  <2> QED BY <2>1, <2>2
<1>8. W(s3) = Append(W(s), End)
  BY <1>1, <1>4, <1>6
<1>9. \A q : WriteAll(out, q) = W(q)
  BY DEF W, WriteAll, FoldLeft, MapThenFoldSet, Max, WriteFold!FoldValue, WriteFold!Greatest
<1> QED BY <1>3, <1>7, <1>8, <1>9

-----------------------------------------------------------------------------
(* What is outside of the sections, line by line *)

Positions(f) == [i \in DOMAIN f |-> i]

\* What is outside of the sections, line after line.
LEMMA OutsideSteps ==
    ASSUME NEW f \in Seq(Lines)
    PROVE  \E k \in [0 .. Len(f) -> Seq(Texts)] :
              /\ k[0] = <<>> /\ k[Len(f)] = Outside(f)
              /\ \A i \in 1 .. Len(f) : k[i] = KeepOutside(f, k[i - 1], i)
<1> DEFINE pos == Positions(f)
           n == Len(f)
<1>1. pos \in Seq(1 .. n) /\ Len(pos) = n /\ n \in Nat /\ \A i \in 1 .. n : pos[i] = i
  BY DEF Positions
<1>2. ASSUME NEW kept \in Seq(Texts), NEW i \in 1 .. n
      PROVE  KeepOutside(f, kept, i) \in Seq(Texts)
  <2>1. f[i] \in Lines
    BY ElementOfSeq
  <2>2. f[i].text # "" => f[i].text \in Texts
    BY <2>1, LineFields
  <2> QED BY <2>2, AppendProperties DEF KeepOutside
<1>3. <<>> \in Seq(Texts)
  BY EmptySeq
<1>4. Outside(f) = OutsideFold!FoldValue(f, <<>>, pos)
  BY DEF Outside, FoldLeftDomain, Positions, FoldLeft, MapThenFoldSet, Max,
         OutsideFold!FoldValue, OutsideFold!Greatest
<1> HIDE DEF pos
<1>5. OutsideFold!Trace(f, Seq(Texts), <<>>, pos)
  BY <1>1, <1>2, <1>3, OutsideFold!FoldTrace
<1>6. PICK k \in [0 .. n -> Seq(Texts)] : OutsideFold!IsTrace(k, f, <<>>, pos)
  BY <1>1, <1>5 DEF OutsideFold!Trace
<1>7. k[0] = <<>> /\ k[n] = Outside(f) /\ \A i \in 1 .. n : k[i] = KeepOutside(f, k[i - 1], i)
  BY <1>1, <1>4, <1>6 DEF OutsideFold!IsTrace
<1> QED BY <1>7

\* What one more line adds to what is outside, and whether a section is then open.
LEMMA AppendLine ==
    ASSUME NEW g \in Seq(Lines), NEW l \in Lines
    PROVE  /\ Append(g, l) \in Seq(Lines)
           /\ Outside(g) \in Seq(Texts)
           /\ Outside(Append(g, l)) =
                IF l.mark # "" \/ InSection(g) THEN Outside(g) ELSE Append(Outside(g), l.text)
           /\ InSection(Append(g, l)) <=> l.mark = "begin" \/ (InSection(g) /\ l.mark # "end")
<1> DEFINE n == Len(g)
           h == Append(g, l)
<1>1. h \in Seq(Lines) /\ Len(h) = n + 1 /\ n \in Nat /\ h[n + 1] = l
      /\ \A i \in 1 .. n : h[i] = g[i]
  BY AppendProperties
<1> HIDE DEF h
<1>2. InSection(h) <=> l.mark = "begin" \/ (InSection(g) /\ l.mark # "end")
  <2>1. ASSUME l.mark = "begin" PROVE InSection(h)
    BY <1>1, <2>1 DEF InSection
  <2>2. ASSUME InSection(g), l.mark # "end" PROVE InSection(h)
    <3>1. PICK b \in 1 .. n : g[b].mark = "begin" /\ \A e \in (b + 1) .. n : g[e].mark # "end"
      BY <2>2 DEF InSection
    <3>2. b \in 1 .. (n + 1) /\ h[b].mark = "begin"
      BY <1>1, <3>1
    <3>3. ASSUME NEW e \in (b + 1) .. (n + 1) PROVE h[e].mark # "end"
      <4>1. e = n + 1 \/ e \in (b + 1) .. n
        BY <1>1
      <4> QED BY <1>1, <2>2, <3>1, <4>1
    <3> QED BY <1>1, <3>2, <3>3 DEF InSection
  <2>3. ASSUME InSection(h), l.mark # "begin" PROVE InSection(g) /\ l.mark # "end"
    <3>1. PICK b \in 1 .. (n + 1) : h[b].mark = "begin" /\ \A e \in (b + 1) .. (n + 1) : h[e].mark # "end"
      BY <1>1, <2>3 DEF InSection
    <3>2. b \in 1 .. n
      BY <1>1, <2>3, <3>1
    <3>3. l.mark # "end"
      BY <1>1, <3>1, <3>2
    <3>4. g[b].mark = "begin" /\ \A e \in (b + 1) .. n : g[e].mark # "end"
      BY <1>1, <3>1, <3>2
    <3> QED BY <3>2, <3>3, <3>4 DEF InSection
  <2> QED BY <2>1, <2>2, <2>3
<1>3. ASSUME NEW i \in 1 .. n PROVE Inside(h, i) <=> Inside(g, i)
  BY <1>1 DEF Inside
<1>4. Inside(h, n + 1) <=> InSection(g) /\ l.mark # "end"
  <2>1. ASSUME Inside(h, n + 1) PROVE InSection(g) /\ l.mark # "end"
    <3>1. PICK b \in 1 .. n : h[b].mark = "begin" /\ \A e \in (b + 1) .. (n + 1) : h[e].mark # "end"
      BY <1>1, <2>1 DEF Inside
    <3>2. g[b].mark = "begin" /\ \A e \in (b + 1) .. n : g[e].mark # "end"
      BY <1>1, <3>1
    <3> QED BY <1>1, <3>1, <3>2 DEF InSection
  <2>2. ASSUME InSection(g), l.mark # "end" PROVE Inside(h, n + 1)
    <3>1. PICK b \in 1 .. n : g[b].mark = "begin" /\ \A e \in (b + 1) .. n : g[e].mark # "end"
      BY <2>2 DEF InSection
    <3>2. ASSUME NEW e \in (b + 1) .. (n + 1) PROVE h[e].mark # "end"
      <4>1. e = n + 1 \/ e \in (b + 1) .. n
        BY <1>1
      <4> QED BY <1>1, <2>2, <3>1, <4>1
    <3> QED BY <1>1, <3>1, <3>2 DEF Inside
  <2> QED BY <2>1, <2>2
<1>5. PICK k \in [0 .. n -> Seq(Texts)] :
         /\ k[0] = <<>> /\ k[n] = Outside(g)
         /\ \A i \in 1 .. n : k[i] = KeepOutside(g, k[i - 1], i)
  BY OutsideSteps
<1>6. PICK m \in [0 .. (n + 1) -> Seq(Texts)] :
         /\ m[0] = <<>> /\ m[n + 1] = Outside(h)
         /\ \A i \in 1 .. (n + 1) : m[i] = KeepOutside(h, m[i - 1], i)
  BY <1>1, OutsideSteps
<1>7. m[n] = k[n]
  <2> DEFINE T == {i \in 0 .. n : m[i] = k[i]}
  <2>1. 0 \in T
    BY <1>1, <1>5, <1>6
  <2>2. ASSUME NEW i \in 0 .. (n - 1), i \in T PROVE i + 1 \in T
    <3>1. i + 1 \in 1 .. n /\ i + 1 \in 1 .. (n + 1) /\ (i + 1) - 1 = i /\ m[i] = k[i]
      BY <1>1, <2>2
    <3>2. k[i + 1] = KeepOutside(g, k[i], i + 1) /\ m[i + 1] = KeepOutside(h, m[i], i + 1)
      BY <1>5, <1>6, <3>1
    <3>3. h[i + 1] = g[i + 1] /\ (Inside(h, i + 1) <=> Inside(g, i + 1))
      BY <1>1, <1>3, <3>1
    <3>4. m[i + 1] = k[i + 1]
      BY <3>1, <3>2, <3>3 DEF KeepOutside
    <3> QED BY <1>1, <3>4
  <2>3. 0 .. n \subseteq T
    <3> HIDE DEF T, n
    <3> QED BY <1>1, <2>1, <2>2, OutsideFold!UpTo
  <2> QED BY <1>1, <2>3
<1>8. Outside(h) = KeepOutside(h, Outside(g), n + 1)
  <2>1. n + 1 \in 1 .. (n + 1) /\ (n + 1) - 1 = n
    BY <1>1
  <2> QED BY <1>5, <1>6, <1>7, <2>1
<1>9. Outside(h) = IF l.mark # "" \/ InSection(g) THEN Outside(g) ELSE Append(Outside(g), l.text)
  BY <1>1, <1>4, <1>8, LineFields DEF KeepOutside
<1>10. Outside(g) \in Seq(Texts)
  <2>1. n \in 0 .. n
    BY <1>1
  <2> HIDE DEF n
  <2> QED BY <1>5, <2>1
<1> QED BY <1>1, <1>2, <1>9, <1>10 DEF h

\* The empty file.
LEMMA NoLines == Outside(<<>>) = <<>> /\ ~InSection(<<>>)
<1>1. <<>> \in Seq(Lines) /\ Len(<<>>) = 0
  BY EmptySeq
<1>2. PICK k \in [0 .. 0 -> Seq(Texts)] : k[0] = <<>> /\ k[0] = Outside(<<>>)
  BY <1>1, OutsideSteps
<1> QED BY <1>1, <1>2 DEF InSection

-----------------------------------------------------------------------------
(* The copy loop *)

\* Every section of g is the update, up to the next marker.
Normal(g, u) ==
    \A b \in 1 .. Len(g) : g[b].mark = "begin" =>
        /\ b + 1 <= Len(g) /\ g[b + 1] = User(u)
        /\ b + 2 <= Len(g) => g[b + 2].mark # ""

HasBegin(g) == \E b \in 1 .. Len(g) : g[b].mark = "begin"

\* A line after normal sections, which is not inside of one.
LEMMA AppendNormal ==
    ASSUME NEW g \in Seq(Lines), NEW l \in Lines, NEW u \in Texts, Normal(g, u),
           l.mark # "begin", l.mark = "end" \/ ~InSection(g)
    PROVE  Normal(Append(g, l), u)
<1> DEFINE n == Len(g)
           h == Append(g, l)
<1>1. h \in Seq(Lines) /\ Len(h) = n + 1 /\ n \in Nat /\ h[n + 1] = l
      /\ \A i \in 1 .. n : h[i] = g[i]
  BY AppendProperties
<1> HIDE DEF h
<1>2. ASSUME NEW b \in 1 .. (n + 1), h[b].mark = "begin"
      PROVE  /\ b + 1 <= n + 1 /\ h[b + 1] = User(u)
             /\ b + 2 <= n + 1 => h[b + 2].mark # ""
  <2>1. b \in 1 .. n /\ g[b].mark = "begin"
    BY <1>1, <1>2
  <2>2. b + 1 <= n /\ g[b + 1] = User(u) /\ (b + 2 <= n => g[b + 2].mark # "")
    BY <2>1 DEF Normal
  <2>3. ASSUME b + 2 = n + 1 PROVE l.mark = "end"
    <3>1. User(u).mark # "end"
      BY SomeLines
    <3>2. \A e \in (b + 1) .. n : e = b + 1
      BY <1>1, <2>1, <2>3
    <3>3. InSection(g)
      BY <2>1, <2>2, <3>1, <3>2 DEF InSection
    <3> QED BY <3>3
  <2>0. n \in Nat /\ b + 1 <= n
    BY <1>1, <2>2
  <2>7. b + 1 \in 1 .. n /\ (b + 2 <= n => b + 2 \in 1 .. n)
    BY <2>0, <2>1
  <2>4. h[b + 1] = g[b + 1] /\ (b + 2 <= n => h[b + 2] = g[b + 2])
    BY <1>1, <2>7
  <2>5. b + 2 = n + 1 => h[b + 2].mark # ""
    BY <1>1, <2>3
  <2>6. b + 2 <= n + 1 => b + 2 <= n \/ b + 2 = n + 1
    BY <2>0
  <2>8. b + 1 <= n + 1
    BY <2>0
  <2>9. b + 2 <= n + 1 => h[b + 2].mark # ""
    BY <2>2, <2>4, <2>5, <2>6
  <2> QED BY <2>2, <2>4, <2>8, <2>9, Zenon
<1>3. Normal(h, u)
  BY <1>1, <1>2 DEF Normal
<1> QED BY <1>3 DEF h

\* A section at the end of the file.
LEMMA AppendSection ==
    ASSUME NEW g \in Seq(Lines), NEW u \in Texts, Normal(g, u)
    PROVE  LET h == Append(Append(g, Begin), User(u)) IN
           /\ h \in Seq(Lines) /\ Normal(h, u) /\ HasBegin(h)
           /\ Outside(h) = Outside(g) /\ InSection(h)
<1> DEFINE n == Len(g)
           m == Append(g, Begin)
           h == Append(m, User(u))
<1>1. Begin.mark = "begin" /\ User(u).mark = ""
  BY SomeLines
<1>2. Begin \in Lines /\ User(u) \in Lines
  BY SomeLines
<1>3. m \in Seq(Lines) /\ n \in Nat /\ Len(m) = n + 1 /\ m[n + 1] = Begin
      /\ \A i \in 1 .. n : m[i] = g[i]
  BY <1>2, Longer
<1>4. Outside(m) = Outside(g) /\ InSection(m)
  BY <1>1, <1>2, AppendLine
<1> HIDE DEF m
<1>5. h \in Seq(Lines) /\ Len(h) = Len(m) + 1 /\ h[Len(m) + 1] = User(u)
      /\ \A i \in 1 .. Len(m) : h[i] = m[i]
  BY <1>2, <1>3, Longer
<1>6. Outside(h) = Outside(g) /\ InSection(h)
  BY <1>1, <1>2, <1>3, <1>4, AppendLine
<1> HIDE DEF h
<1>7. Len(h) = n + 2 /\ h[n + 1] = Begin /\ h[n + 2] = User(u) /\ \A i \in 1 .. n : h[i] = g[i]
  BY <1>3, <1>5
<1>8. ASSUME NEW b \in 1 .. (n + 2), h[b].mark = "begin"
      PROVE  /\ b + 1 <= n + 2 /\ h[b + 1] = User(u)
             /\ b + 2 <= n + 2 => h[b + 2].mark # ""
  <2>1. CASE b \in 1 .. n
    <3>1. g[b].mark = "begin"
      BY <1>7, <1>8, <2>1
    <3>2. b + 1 <= n /\ g[b + 1] = User(u) /\ (b + 2 <= n => g[b + 2].mark # "")
      BY <2>1, <3>1 DEF Normal
    <3>0. n \in Nat /\ b + 1 <= n
      BY <1>3, <3>2
    <3>3. b + 1 \in 1 .. n /\ (b + 2 <= n => b + 2 \in 1 .. n)
      BY <3>0, <2>1
    <3>4. h[b + 1] = User(u) /\ (b + 2 <= n => h[b + 2].mark # "")
      BY <1>7, <3>2, <3>3
    <3>5. b + 2 <= n \/ b + 2 = n + 1
      BY <3>0
    <3>6. b + 2 = n + 1 => h[b + 2].mark # ""
      BY <1>1, <1>7
    <3>7. b + 1 <= n + 2
      BY <3>0
    <3>8. b + 2 <= n + 2 => h[b + 2].mark # ""
      BY <3>4, <3>5, <3>6, Zenon
    <3> QED BY <3>4, <3>7, <3>8, Zenon
  <2>2. CASE b = n + 1
    <3>1. b + 1 = n + 2 /\ b + 2 = n + 3 /\ ~(n + 3 <= n + 2) /\ n + 2 <= n + 2
      BY <1>3, <2>2
    <3> QED BY <1>7, <3>1
  <2>3. CASE b = n + 2
    BY <1>1, <1>7, <1>8, <2>3
  <2>4. b \in 1 .. n \/ b = n + 1 \/ b = n + 2
    BY <1>3
  <2> QED BY <2>1, <2>2, <2>3, <2>4
<1>9. Normal(h, u)
  BY <1>7, <1>8 DEF Normal
<1>10. HasBegin(h)
  <2>1. n + 1 \in 1 .. Len(h)
    BY <1>3, <1>7
  <2> QED BY <1>1, <1>7, <2>1 DEF HasBegin
<1> QED BY <1>5, <1>6, <1>9, <1>10 DEF h, m

Accs == [out : Seq(Lines), add : BOOLEAN, skip : BOOLEAN, written : BOOLEAN]
NoAcc == [out |-> <<>>, add |-> FALSE, skip |-> FALSE, written |-> FALSE]

\* One turn of the loop.
LEMMA CopyLineCases ==
    ASSUME NEW acc \in Accs, NEW l \in Lines, NEW u \in Update
    PROVE  LET next == CopyLine(acc, l, u)
               added == IF acc.add THEN Append(Append(acc.out, Begin), User(u)) ELSE acc.out IN
           /\ next \in Accs /\ added \in Seq(Lines)
           /\ next.skip <=> l.mark = "begin" \/ (acc.skip /\ l.mark # "end")
           /\ next.add <=> l.mark = "begin"
           /\ next.written <=> acc.written \/ acc.add
           /\ next.out = IF next.skip THEN added ELSE Append(added, l)
<1> DEFINE added == IF acc.add THEN Append(Append(acc.out, Begin), User(u)) ELSE acc.out
<1>1. acc.out \in Seq(Lines) /\ acc.add \in BOOLEAN /\ acc.skip \in BOOLEAN /\ acc.written \in BOOLEAN
  BY DEF Accs
<1>2. u \in Texts /\ Begin \in Lines /\ User(u) \in Lines
  BY SomeLines DEF Texts
<1>3. added \in Seq(Lines)
  BY <1>1, <1>2, AppendProperties
<1>4. added = IF acc.add THEN WriteAll(acc.out, Section(u)) ELSE acc.out
  BY <1>1, <1>2, WriteSection
<1> HIDE DEF added
<1>5. Write(added, l) = Append(added, l) /\ Append(added, l) \in Seq(Lines)
  BY <1>3, WriteIsAppend
<1> DEFINE skip == l.mark = "begin" \/ (acc.skip /\ l.mark # "end")
<1>6. CopyLine(acc, l, u) =
        [out |-> IF skip THEN added ELSE Append(added, l), add |-> l.mark = "begin",
         skip |-> skip, written |-> acc.written \/ acc.add]
  BY <1>4, <1>5 DEF CopyLine
<1>7. CopyLine(acc, l, u) \in Accs
  <2>1. (IF skip THEN added ELSE Append(added, l)) \in Seq(Lines)
    BY <1>3, <1>5
  <2> HIDE DEF skip
  <2>2. skip \in BOOLEAN
    BY <1>1 DEF skip
  <2> QED BY <1>1, <1>6, <2>1, <2>2 DEF Accs
<1> HIDE DEF skip
<1>8. /\ CopyLine(acc, l, u).skip = skip
      /\ CopyLine(acc, l, u).add = (l.mark = "begin")
      /\ CopyLine(acc, l, u).written = (acc.written \/ acc.add)
      /\ CopyLine(acc, l, u).out = IF skip THEN added ELSE Append(added, l)
  BY <1>6
<1> QED BY <1>3, <1>7, <1>8 DEF added, skip

\* The turns of the loop over a file.
LEMMA CopySteps ==
    ASSUME NEW f \in Seq(Lines), NEW u \in Update
    PROVE  \E a \in [0 .. Len(f) -> Accs] :
              /\ a[0] = NoAcc
              /\ \A i \in 1 .. Len(f) : a[i] = CopyLine(a[i - 1], f[i], u)
              /\ Updated(f, u) = IF a[Len(f)].written THEN a[Len(f)].out
                                 ELSE Append(Append(Append(a[Len(f)].out, Begin), User(u)), End)
<1>1. NoAcc \in Accs
  BY EmptySeq DEF NoAcc, Accs
<1>2. \A acc \in Accs, l \in Lines : CopyLine(acc, l, u) \in Accs
  BY CopyLineCases
<1>3. CopyFold!Trace(u, Accs, NoAcc, f)
  BY <1>1, <1>2, CopyFold!FoldTrace
<1>4. PICK a \in [0 .. Len(f) -> Accs] : CopyFold!IsTrace(a, u, NoAcc, f)
  BY <1>3 DEF CopyFold!Trace
<1> DEFINE acc == CopyFold!FoldValue(u, NoAcc, f)
<1>5. acc = a[Len(f)] /\ Len(f) \in 0 .. Len(f)
  BY <1>4, LenProperties DEF CopyFold!IsTrace
<1>6. Updated(f, u) = IF AddsSection(acc) THEN WriteAll(acc.out, Append(Section(u), End)) ELSE acc.out
  BY DEF Updated, NoAcc, FoldLeft, MapThenFoldSet, Max, CopyFold!FoldValue, CopyFold!Greatest
<1> HIDE DEF acc
<1>7. acc \in Accs /\ acc.out \in Seq(Lines) /\ u \in Texts
  BY <1>5 DEF Accs, Texts
<1>8. Updated(f, u) = IF acc.written THEN acc.out
                      ELSE Append(Append(Append(acc.out, Begin), User(u)), End)
  BY <1>6, <1>7, WriteSection DEF AddsSection
<1>9. a[0] = NoAcc /\ \A i \in 1 .. Len(f) : a[i] = CopyLine(a[i - 1], f[i], u)
  BY <1>4 DEF CopyFold!IsTrace
<1> QED BY <1>5, <1>8, <1>9

\* After the lines g, with nothing lost: the output has the user's text so far, and
\* all its sections are the update.
CopyInv(acc, g, u) ==
    /\ Outside(acc.out) = Outside(g)
    /\ acc.skip <=> InSection(g)
    /\ acc.add => acc.skip
    /\ ~acc.add => (InSection(acc.out) <=> acc.skip)
    /\ Normal(acc.out, u)
    /\ acc.written => HasBegin(acc.out)

\* A beginning stays one.
LEMMA HasBeginStays ==
    ASSUME NEW g \in Seq(Lines), NEW l \in Lines, HasBegin(g)
    PROVE  HasBegin(Append(g, l))
<1>1. PICK b \in 1 .. Len(g) : g[b].mark = "begin"
  BY DEF HasBegin
<1> DEFINE h == Append(g, l)
<1>2. Len(h) = Len(g) + 1 /\ h[b] = g[b] /\ Len(g) \in Nat
  BY Longer
<1> HIDE DEF h
<1>3. b \in 1 .. Len(h)
  BY <1>2
<1>4. HasBegin(h)
  BY <1>1, <1>2, <1>3 DEF HasBegin
<1> QED BY <1>4 DEF h

\* A turn of the loop keeps the invariant of the loop.
LEMMA CopyStepKeeps ==
    ASSUME NEW g \in Seq(Lines), NEW l \in Lines, NEW u \in Update, NEW acc \in Accs,
           CopyInv(acc, g, u)
    PROVE  CopyInv(CopyLine(acc, l, u), Append(g, l), u)
<1> DEFINE next == CopyLine(acc, l, u)
           added == IF acc.add THEN Append(Append(acc.out, Begin), User(u)) ELSE acc.out
           h == Append(g, l)
<1>1. acc.out \in Seq(Lines) /\ acc.add \in BOOLEAN /\ acc.skip \in BOOLEAN /\ u \in Texts
  BY DEF Accs, Texts
<1>2. /\ next \in Accs /\ added \in Seq(Lines)
      /\ next.skip <=> l.mark = "begin" \/ (acc.skip /\ l.mark # "end")
      /\ next.add <=> l.mark = "begin"
      /\ next.written <=> acc.written \/ acc.add
      /\ next.out = IF next.skip THEN added ELSE Append(added, l)
  BY CopyLineCases
<1>3. /\ Outside(h) = IF l.mark # "" \/ InSection(g) THEN Outside(g) ELSE Append(Outside(g), l.text)
      /\ InSection(h) <=> l.mark = "begin" \/ (InSection(g) /\ l.mark # "end")
  BY AppendLine
<1>4. /\ Outside(acc.out) = Outside(g) /\ (acc.skip <=> InSection(g)) /\ (acc.add => acc.skip)
      /\ ~acc.add => (InSection(acc.out) <=> acc.skip)
      /\ Normal(acc.out, u) /\ (acc.written => HasBegin(acc.out))
  BY DEF CopyInv
<1>5. /\ Outside(added) = Outside(g) /\ (InSection(added) <=> acc.skip) /\ Normal(added, u)
      /\ acc.written \/ acc.add => HasBegin(added)
  <2>1. CASE acc.add
    BY <1>1, <1>4, <2>1, AppendSection
  <2>2. CASE ~acc.add
    BY <1>4, <2>2
  <2> QED BY <2>1, <2>2
<1> HIDE DEF added, next, h
<1>6. CASE next.skip
  <2>1. Outside(h) = Outside(g)
    BY <1>2, <1>3, <1>4, <1>6
  <2>2. ~next.add => acc.skip
    BY <1>2, <1>6
  <2> QED BY <1>2, <1>3, <1>4, <1>5, <1>6, <2>1, <2>2 DEF CopyInv, next, h
<1>7. CASE ~next.skip
  <2>1. l.mark # "begin" /\ (l.mark = "end" \/ ~InSection(added))
    BY <1>2, <1>5, <1>7
  <2>2. Normal(Append(added, l), u)
    BY <1>1, <1>2, <1>5, <2>1, AppendNormal
  <2>3. /\ Outside(Append(added, l)) =
             IF l.mark # "" \/ InSection(added) THEN Outside(added) ELSE Append(Outside(added), l.text)
        /\ InSection(Append(added, l)) <=> l.mark = "begin" \/ (InSection(added) /\ l.mark # "end")
    BY <1>2, AppendLine
  <2>4. Outside(Append(added, l)) = Outside(h)
    <3>1. InSection(added) <=> InSection(g)
      BY <1>4, <1>5
    <3>2. CASE l.mark # "" \/ InSection(g)
      BY <1>3, <1>5, <2>3, <3>1, <3>2
    <3>3. CASE ~(l.mark # "" \/ InSection(g))
      BY <1>3, <1>5, <2>3, <3>1, <3>3
    <3> QED BY <3>2, <3>3
  <2>5. ~InSection(Append(added, l)) /\ ~InSection(h) /\ ~next.add
    BY <1>2, <1>3, <1>4, <1>5, <2>1, <2>3
  <2>6. next.written => HasBegin(Append(added, l))
    BY <1>2, <1>5, HasBeginStays
  <2>7. next.out = Append(added, l)
    BY <1>2, <1>7
  <2> QED BY <1>7, <2>2, <2>4, <2>5, <2>6, <2>7 DEF CopyInv, next, h
<1> QED BY <1>6, <1>7

\* What a run makes of a file: the user's text is what it was, and every section is
\* the update.
LEMMA UpdatedKeeps ==
    ASSUME NEW f \in Seq(Lines), NEW u \in Update
    PROVE  LET g == Updated(f, u) IN
           /\ g \in Seq(Lines) /\ Outside(g) = Outside(f)
           /\ Normal(g, u) /\ HasBegin(g)
<1> DEFINE n == Len(f)
           P(i) == SubSeq(f, 1, i)
<1>1. PICK a \in [0 .. n -> Accs] :
         /\ a[0] = NoAcc
         /\ \A i \in 1 .. n : a[i] = CopyLine(a[i - 1], f[i], u)
         /\ Updated(f, u) = IF a[n].written THEN a[n].out
                            ELSE Append(Append(Append(a[n].out, Begin), User(u)), End)
  BY CopySteps
<1>2. n \in Nat /\ u \in Texts
  BY DEF Texts
<1>3. /\ P(0) = <<>> /\ P(n) = f
      /\ \A i \in 1 .. n : P(i) = Append(P(i - 1), f[i]) /\ P(i - 1) \in Seq(Lines) /\ f[i] \in Lines
  BY CopyFold!Prefixes, ElementOfSeq
<1> HIDE DEF P, n
<1>4. CopyInv(a[n], f, u)
  <2> DEFINE T == {i \in 0 .. n : CopyInv(a[i], P(i), u)}
  <2>1. 0 \in T
    <3>1. NoAcc.out = <<>> /\ NoAcc.skip = FALSE /\ NoAcc.add = FALSE /\ NoAcc.written = FALSE
      BY DEF NoAcc
    <3>2. Normal(<<>>, u)
      <4> DEFINE e == <<>>
      <4>1. Len(e) = 0
        BY EmptySeq
      <4> HIDE DEF e
      <4>2. \A b \in 1 .. Len(e) : FALSE
        BY <4>1
      <4>3. Normal(e, u)
        BY <4>2, Zenon DEF Normal
      <4> QED BY <4>3 DEF e
    <3>3. CopyInv(NoAcc, <<>>, u)
      BY <3>1, <3>2, NoLines DEF CopyInv
    <3> QED BY <1>1, <1>2, <1>3, <3>3
  <2>2. ASSUME NEW i \in 0 .. (n - 1), i \in T PROVE i + 1 \in T
    <3>1. i + 1 \in 1 .. n /\ (i + 1) - 1 = i /\ i \in 0 .. n /\ i + 1 \in 0 .. n
      BY <1>2
    <3>2. a[i + 1] = CopyLine(a[i], f[i + 1], u) /\ a[i] \in Accs
      BY <1>1, <3>1
    <3>3. P(i + 1) = Append(P(i), f[i + 1]) /\ P(i) \in Seq(Lines) /\ f[i + 1] \in Lines
      BY <1>3, <3>1
    <3>4. CopyInv(a[i], P(i), u)
      BY <2>2
    <3>5. CopyInv(a[i + 1], P(i + 1), u)
      BY <3>2, <3>3, <3>4, CopyStepKeeps
    <3> QED BY <3>1, <3>5
  <2>3. 0 .. n \subseteq T
    <3> HIDE DEF T
    <3> QED BY <1>2, <2>1, <2>2, CopyFold!UpTo
  <2>4. n \in T
    BY <1>2, <2>3
  <2> QED BY <1>3, <2>4
<1> DEFINE o == a[n].out
           m == Append(Append(o, Begin), User(u))
<1>5. o \in Seq(Lines) /\ a[n] \in Accs
  BY <1>1, <1>2 DEF Accs
<1>6. Outside(o) = Outside(f) /\ Normal(o, u) /\ (a[n].written => HasBegin(o))
  BY <1>4 DEF CopyInv
<1>7. CASE a[n].written
  BY <1>1, <1>5, <1>6, <1>7
<1>8. CASE ~a[n].written
  <2>1. m \in Seq(Lines) /\ Normal(m, u) /\ HasBegin(m) /\ Outside(m) = Outside(o)
    BY <1>2, <1>5, <1>6, AppendSection
  <2>2. Updated(f, u) = Append(m, End)
    BY <1>1, <1>8
  <2> HIDE DEF m
  <2>3. End \in Lines /\ End.mark = "end"
    BY SomeLines
  <2>4. Append(m, End) \in Seq(Lines) /\ Outside(Append(m, End)) = Outside(m)
    BY <2>1, <2>3, AppendLine
  <2>5. Normal(Append(m, End), u)
    BY <1>2, <2>1, <2>3, AppendNormal
  <2>6. HasBegin(Append(m, End))
    BY <2>1, <2>3, HasBeginStays
  <2> QED BY <1>6, <2>1, <2>2, <2>4, <2>5, <2>6
<1> QED BY <1>7, <1>8

-----------------------------------------------------------------------------
(* Running again *)

\* After i lines of a file that already has the update, the output is the file so far,
\* but for the beginning of a section, which is written with the line after it.
AgainInv(acc, g, i) ==
    /\ acc.add <=> i > 0 /\ g[i].mark = "begin"
    /\ acc.skip => i > 0 /\ (g[i].mark = "begin" \/ (i > 1 /\ g[i - 1].mark = "begin"))
    /\ acc.add => acc.skip
    /\ acc.out = SubSeq(g, 1, IF acc.add THEN i - 1 ELSE i)
    /\ (\E b \in 1 .. (i - 1) : g[b].mark = "begin") => acc.written

\* A turn over a file that has the update keeps the invariant of the second run.
LEMMA AgainStep ==
    ASSUME NEW g \in Seq(Lines), NEW u \in Update, Normal(g, u),
           NEW i \in 0 .. (Len(g) - 1), NEW acc \in Accs, AgainInv(acc, g, i)
    PROVE  AgainInv(CopyLine(acc, g[i + 1], u), g, i + 1)
<1> DEFINE n == Len(g)
           l == g[i + 1]
           next == CopyLine(acc, l, u)
           added == IF acc.add THEN Append(Append(acc.out, Begin), User(u)) ELSE acc.out
           P(j) == SubSeq(g, 1, j)
<1>1. n \in Nat /\ i + 1 \in 1 .. n /\ l \in Lines /\ u \in Texts
  BY ElementOfSeq DEF Texts
<1>2. \A j \in 1 .. n : P(j) = Append(P(j - 1), g[j])
  BY CopyFold!Prefixes
<1>3. /\ next.skip <=> l.mark = "begin" \/ (acc.skip /\ l.mark # "end")
      /\ next.add <=> l.mark = "begin"
      /\ next.written <=> acc.written \/ acc.add
      /\ next.out = IF next.skip THEN added ELSE Append(added, l)
  BY <1>1, CopyLineCases
<1>4. /\ acc.add <=> i > 0 /\ g[i].mark = "begin"
      /\ acc.skip => i > 0 /\ (g[i].mark = "begin" \/ (i > 1 /\ g[i - 1].mark = "begin"))
      /\ acc.add => acc.skip
      /\ acc.out = P(IF acc.add THEN i - 1 ELSE i)
      /\ (\E b \in 1 .. (i - 1) : g[b].mark = "begin") => acc.written
  BY DEF AgainInv
<1> HIDE DEF next, added, P, l, n
<1>5. (\E b \in 1 .. ((i + 1) - 1) : g[b].mark = "begin") => next.written
  <2>1. SUFFICES ASSUME NEW b \in 1 .. i, g[b].mark = "begin" PROVE next.written
    BY <1>1
  <2>2. CASE b = i
    BY <1>1, <1>3, <1>4, <2>1, <2>2
  <2>3. CASE b # i
    <3>1. b \in 1 .. (i - 1)
      BY <1>1, <2>3
    <3> QED BY <1>3, <1>4, <2>1, <3>1
  <2> QED BY <2>2, <2>3
<1>6. CASE acc.add
  <2>1. i > 0 /\ i \in 1 .. n /\ g[i].mark = "begin" /\ g[i] = Begin
    <3>1. i > 0 /\ i \in 1 .. n /\ g[i].mark = "begin"
      BY <1>1, <1>4, <1>6
    <3>2. g[i] \in Lines
      BY <3>1, ElementOfSeq DEF n
    <3> QED BY <3>1, <3>2, LineFields
  <2>2. l = User(u)
    BY <2>1 DEF Normal, n, l
  <2>3. l.mark = ""
    BY <1>1, <2>2, SomeLines
  <2>4. next.skip /\ ~next.add
    BY <1>3, <1>4, <1>6, <2>3
  <2>5. P(i + 1) = Append(Append(P(i - 1), Begin), User(u))
    <3>1. P(i) = Append(P(i - 1), g[i])
      BY <1>2, <2>1
    <3>2. P(i + 1) = Append(P((i + 1) - 1), g[i + 1]) /\ (i + 1) - 1 = i
      BY <1>1, <1>2
    <3> QED BY <2>1, <2>2, <3>1, <3>2 DEF l
  <2>6. next.out = P(i + 1)
    BY <1>3, <1>4, <1>6, <2>4, <2>5 DEF added
  <2>7. (i + 1) - 1 = i /\ i + 1 > 1 /\ i + 1 > 0
    BY <1>1, <2>1
  <2>8. g[i + 1].mark # "begin"
    BY <2>3 DEF l
  <2> QED BY <1>5, <2>1, <2>4, <2>6, <2>7, <2>8 DEF AgainInv, next, l, P
<1>7. CASE ~acc.add
  <2>1. ASSUME acc.skip PROVE l.mark # ""
    <3>1. i > 1 /\ g[i - 1].mark = "begin"
      BY <1>1, <1>4, <1>7, <2>1
    <3>2. i - 1 \in 1 .. Len(g) /\ (i - 1) + 2 = i + 1 /\ i + 1 <= Len(g)
      BY <1>1, <3>1 DEF n
    <3> QED BY <3>1, <3>2 DEF Normal, l
  <2>2. l.mark \in {"", "begin", "end"}
    BY <1>1, LineFields
  <2>3. next.skip <=> l.mark = "begin"
    BY <1>3, <2>1, <2>2
  <2>4. added = P(i) /\ acc.out = P(i)
    BY <1>4, <1>7 DEF added
  <2>5. P(i + 1) = Append(P(i), l) /\ (i + 1) - 1 = i
    BY <1>1, <1>2 DEF l
  <2>6. next.out = P(IF next.add THEN (i + 1) - 1 ELSE i + 1)
    BY <1>3, <2>3, <2>4, <2>5
  <2>7. i + 1 > 0 /\ (next.add <=> next.skip) /\ (next.add <=> g[i + 1].mark = "begin")
    BY <1>1, <1>3, <2>3 DEF l
  <2> QED BY <1>5, <2>6, <2>7 DEF AgainInv, next, l, P
<1> QED BY <1>6, <1>7

\* A file that has the update is what a run with the same update makes of it.
LEMMA UpdatedAgain ==
    ASSUME NEW g \in Seq(Lines), NEW u \in Update, Normal(g, u), HasBegin(g)
    PROVE  Updated(g, u) = g
<1> DEFINE n == Len(g)
<1>1. PICK a \in [0 .. n -> Accs] :
         /\ a[0] = NoAcc
         /\ \A i \in 1 .. n : a[i] = CopyLine(a[i - 1], g[i], u)
         /\ Updated(g, u) = IF a[n].written THEN a[n].out
                            ELSE Append(Append(Append(a[n].out, Begin), User(u)), End)
  BY CopySteps
<1>2. n \in Nat /\ SubSeq(g, 1, 0) = <<>> /\ SubSeq(g, 1, n) = g
  BY CopyFold!Prefixes
<1> HIDE DEF n
<1>3. AgainInv(a[n], g, n)
  <2> DEFINE T == {i \in 0 .. n : AgainInv(a[i], g, i)}
  <2>1. 0 \in T
    <3>1. NoAcc.out = <<>> /\ NoAcc.skip = FALSE /\ NoAcc.add = FALSE /\ NoAcc.written = FALSE
      BY DEF NoAcc
    <3>2. ~ \E b \in 1 .. (0 - 1) : g[b].mark = "begin"
      OBVIOUS
    <3>3. AgainInv(NoAcc, g, 0)
      BY <1>2, <3>1, <3>2 DEF AgainInv
    <3> QED BY <1>1, <1>2, <3>3
  <2>2. ASSUME NEW i \in 0 .. (n - 1), i \in T PROVE i + 1 \in T
    <3>1. i + 1 \in 1 .. n /\ (i + 1) - 1 = i /\ i \in 0 .. n /\ i + 1 \in 0 .. n
      BY <1>2
    <3>2. a[i + 1] = CopyLine(a[i], g[i + 1], u) /\ a[i] \in Accs
      BY <1>1, <3>1
    <3>3. AgainInv(a[i], g, i)
      BY <2>2
    <3>4. AgainInv(CopyLine(a[i], g[i + 1], u), g, i + 1)
      BY <3>2, <3>3, AgainStep DEF n
    <3> QED BY <3>1, <3>2, <3>4
  <2>3. 0 .. n \subseteq T
    <3> HIDE DEF T
    <3> QED BY <1>2, <2>1, <2>2, CopyFold!UpTo
  <2> QED BY <1>2, <2>3
<1>4. PICK b \in 1 .. n : g[b].mark = "begin"
  BY DEF HasBegin, n
<1>5. b + 1 <= n
  BY <1>4 DEF Normal, n
<1>6. a[n].written
  <2>1. b \in 1 .. (n - 1)
    BY <1>2, <1>5
  <2> QED BY <1>3, <1>4, <2>1 DEF AgainInv
<1>7. ~a[n].add
  <2>1. ASSUME n > 0, g[n].mark = "begin" PROVE FALSE
    <3>1. n \in 1 .. Len(g) /\ ~(n + 1 <= Len(g))
      BY <1>2, <2>1 DEF n
    <3> QED BY <2>1, <3>1 DEF Normal
  <2> QED BY <1>3, <2>1 DEF AgainInv
<1>8. a[n].out = g
  BY <1>2, <1>3, <1>7 DEF AgainInv
<1> QED BY <1>1, <1>6, <1>8

-----------------------------------------------------------------------------
(* The runs of init_ddk.py *)

\* No kill can have caught the file half written.
Unbroken == sameFs \/ kills = 0

FileInv ==
    /\ file \in Seq(Lines) /\ tmp \in Seq(Lines) /\ update \in Update /\ kills \in Nat
    /\ pc \in {"idle", "copy", "move", "moving"}
    /\ pc = "moving" => ~sameFs
    /\ Unbroken /\ pc # "moving" => Outside(file) = mine
    /\ Unbroken /\ pc \in {"move", "moving"} => Outside(tmp) = mine
    /\ pc \in {"move", "moving"} => Normal(tmp, update) /\ HasBegin(tmp)

\* The file of the user has no open last line.
LEMMA FileInvInit ==
    ASSUME OpenLine = FALSE
    PROVE  Init => FileInv
<1> SUFFICES ASSUME Init PROVE FileInv
    OBVIOUS
<1>1. AnyLine \subseteq Lines
  BY DEF AnyLine, Lines, Texts
<1>2. <<>> \in Seq(Lines)
  BY EmptySeq
<1>3. UserFiles \subseteq Seq(Lines)
  <2>1. ASSUME NEW f \in UserFiles PROVE f \in Seq(Lines)
    <3>1. PICK n \in 0 .. MaxLine : f \in [1 .. n -> AnyLine]
      BY DEF UserFiles
    <3>2. f \in [1 .. n -> Lines]
      BY <1>1, <3>1
    <3>3. n \in Nat
      <4>1. MaxLine \in Nat
        BY UpdateFileAssumption
      <4> QED BY <4>1
    <3> QED BY <3>2, <3>3, SeqDef
  <2> QED BY <2>1
<1>4. file \in Seq(Lines) /\ tmp \in Seq(Lines)
  BY <1>2, <1>3 DEF Init
<1> QED BY <1>4 DEF Init, FileInv

\* Every step of the runs keeps the invariant.
LEMMA FileInvNext == FileInv /\ [Next]_vars => FileInv'
<1> SUFFICES ASSUME FileInv, [Next]_vars PROVE FileInv'
    OBVIOUS
<1> USE DEF FileInv, Unbroken
<1>1. ASSUME NEW u \in Update, Start(u) PROVE FileInv'
  BY <1>1, EmptySeq DEF Start
<1>2. CASE Copy
  <2>1. LET g == Updated(file, update) IN
        g \in Seq(Lines) /\ Outside(g) = Outside(file) /\ Normal(g, update) /\ HasBegin(g)
    BY UpdatedKeeps
  <2> QED BY <1>2, <2>1 DEF Copy
<1>3. CASE Move
  BY <1>3 DEF Move
<1>4. CASE MoveBegins
  BY <1>4, EmptySeq DEF MoveBegins
<1>5. CASE MoveEnds
  BY <1>5 DEF MoveEnds
<1>6. CASE Kill
  BY <1>6 DEF Kill
<1>7. CASE UNCHANGED vars
  BY <1>7 DEF vars
<1> QED BY <1>1, <1>2, <1>3, <1>4, <1>5, <1>6, <1>7 DEF Next

\* The invariant of all runs.
LEMMA FileInvAlways ==
    ASSUME OpenLine = FALSE
    PROVE  Spec => []FileInv
<1>1. Init => FileInv
  BY FileInvInit
<1> QED BY <1>1, FileInvNext, PTL DEF Spec

\* Whatever sections the user's file has, and however many runs follow each other,
\* _update_file keeps every line outside of the markers, if the last line ends in a
\* newline (the run of a file that ends in an open line finds what happens otherwise).
THEOREM UpdateKeepsUserText ==
    ASSUME OpenLine = FALSE
    PROVE  Spec => []OutsideKept
<1>1. FileInv => OutsideKept
  BY DEF FileInv, OutsideKept, Unbroken
<1>2. Spec => []FileInv
  BY FileInvAlways
<1> QED BY <1>1, <1>2, PTL

\* A run of _update_file with the content of the run before changes nothing.
THEOREM UpdateIsIdempotent ==
    ASSUME OpenLine = FALSE
    PROVE  Spec => []Idempotent
<1>1. FileInv => Idempotent
  BY UpdatedAgain DEF FileInv, Idempotent
<1>2. Spec => []FileInv
  BY FileInvAlways
<1> QED BY <1>1, <1>2, PTL

\* After a run of _update_file every section of the file is the update, and there is one.
THEOREM UpdateReachesTheFile ==
    ASSUME OpenLine = FALSE
    PROVE  Spec => SectionUpdated
<1> DEFINE Ends == pc \in {"move", "moving"} /\ pc' = "idle" /\ kills' = kills
           Good == /\ \E b \in DOMAIN file' : file'[b].mark = "begin"
                   /\ \A b \in DOMAIN file' : file'[b].mark = "begin" =>
                        /\ b < Len(file') /\ file'[b + 1].text = update
                        /\ b + 1 < Len(file') => file'[b + 2].mark # ""
<1>1. ASSUME FileInv, [Next]_vars PROVE [Ends => Good]_vars
  <2>1. SUFFICES ASSUME Next, Ends PROVE Good
    BY <1>1
  <2>2. file' = tmp
    BY <1>1, <2>1 DEF FileInv, Next, Start, Copy, Move, MoveBegins, MoveEnds, Kill
  <2>3. tmp \in Seq(Lines) /\ Normal(tmp, update) /\ HasBegin(tmp)
    BY <1>1, <2>1 DEF FileInv
  <2>4. DOMAIN tmp = 1 .. Len(tmp) /\ Len(tmp) \in Nat
    BY <2>3, LenProperties
  <2>5. update \in Texts
    BY <1>1 DEF FileInv, Texts
  <2>6. User(update).text = update
    BY <2>5, SomeLines
  <2>7. ASSUME NEW b \in 1 .. Len(tmp), tmp[b].mark = "begin"
        PROVE  /\ b < Len(tmp) /\ tmp[b + 1].text = update
               /\ b + 1 < Len(tmp) => tmp[b + 2].mark # ""
    <3>1. b + 1 <= Len(tmp) /\ tmp[b + 1] = User(update) /\ (b + 2 <= Len(tmp) => tmp[b + 2].mark # "")
      BY <2>3, <2>7 DEF Normal
    <3>2. Len(tmp) \in Nat /\ b + 1 <= Len(tmp)
      BY <2>4, <3>1
    <3>3. b < Len(tmp) /\ (b + 1 < Len(tmp) => b + 2 <= Len(tmp))
      BY <3>2
    <3> QED BY <2>6, <3>1, <3>3
  <2> QED BY <2>2, <2>3, <2>4, <2>7 DEF HasBegin
<1>2. Spec => []FileInv
  BY FileInvAlways
<1> QED BY <1>1, <1>2, PTL DEF Spec, SectionUpdated

-----------------------------------------------------------------------------
(* Buildozer: the folds of the module *)

PerformFold == INSTANCE SequenceFolds WITH Op <- LAMBDA x, p, o : Perform(p, o)
OutcomeFold == INSTANCE SequenceFolds WITH Op <- LAMBDA x, m, c : Edit(m, c)
RewriteFold == INSTANCE SequenceFolds WITH Op <- LAMBDA pkg, r, c : EditOwn(pkg, r, c)

-----------------------------------------------------------------------------
(* Types *)

Requests == UNION {Request(tool) : tool \in Tool}

\* Everything that a script or a BUILD file may write.
EditWords(r) == {r.ops[i].v : i \in DOMAIN r.ops}
EntryWords(e) == {e.comment} \cup ToSet(e.val)
FileWords(r) == UNION {UNION {EntryWords(m[k]) : k \in DOMAIN m} : m \in OldFile(r)}
WordsOf(r) == EditWords(r) \cup FileWords(r)
Word == {None, "user", ""} \cup UNION {WordsOf(r) : r \in Requests}

Places == Targets \X Names
Entry == [val : Seq(Word), comment : Word]
Maps == UNION {[D -> Entry] : D \in SUBSET Places}
Pictures == [seen : Maps, cmds : Seq(Edits(Word))]

\* What the type of an edit says of its parts.
LEMMA EditParts ==
    ASSUME NEW W, NEW o \in Edits(W)
    PROVE  /\ o.op \in {"set", "set_if_absent", "add", "comment", "new", "note", "rename"}
           /\ o.t \in Targets /\ o.a \in Names /\ <<o.t, o.a>> \in Places
           /\ o.op # "rename" => o.v \in W
           /\ o.op = "rename" => o.v \in Attrs /\ o.a \in Attrs /\ <<o.t, o.v>> \in Places
           /\ o.op \in {"new", "note"} => o.a = "kind"
           /\ o.op = "comment" => o.when \in {"always", "unset", "not gki"}
<1>1. CASE o \in [op : {"set", "set_if_absent", "add"}, t : Targets, a : Names, v : W]
  BY <1>1 DEF Places, Names, Attrs
<1>2. CASE o \in [op : {"comment"}, t : Targets, a : Names, v : W, when : {"always", "unset", "not gki"}]
  BY <1>2 DEF Places, Names, Attrs
<1>3. CASE o \in [op : {"new", "note"}, t : Targets, a : {"kind"}, v : W]
  <2>1. o.op \in {"new", "note"} /\ o.t \in Targets /\ o.a = "kind" /\ o.v \in W
    BY <1>3
  <2> QED BY <2>1 DEF Places, Names
<1>4. CASE o \in [op : {"rename"}, t : Targets, a : Attrs, v : Attrs]
  BY <1>4 DEF Places, Names, Attrs
<1> QED BY <1>1, <1>2, <1>3, <1>4 DEF Edits

\* The edits that the builder makes of those of the script.
LEMMA MadeEdits ==
    ASSUME NEW W, NEW t \in Targets, NEW a \in Names, NEW v \in W
    PROVE  Set(t, a, v) \in Edits(W) /\ SetIfAbsent(t, a, v) \in Edits(W)
BY DEF Set, SetIfAbsent, Edits

\* An edit with words of its own is one with words of a larger set.
LEMMA EditsGrow ==
    ASSUME NEW W, NEW o, o \in Edits({o.v}), o.v \in W
    PROVE  o \in Edits(W)
BY DEF Edits

\* Entries and maps.
LEMMA NoEntryIsEntry == NoEntry \in Entry
<1>1. <<>> \in Seq(Word) /\ "" \in Word
  BY DEF Word
<1> QED BY <1>1 DEF NoEntry, Entry

\* The files of a workspace, as functions with a domain of places.
LEMMA MapsAre ==
    ASSUME NEW m
    PROVE  m \in Maps <=> /\ m = [k \in DOMAIN m |-> m[k]] /\ DOMAIN m \in SUBSET Places
                          /\ \A k \in DOMAIN m : m[k] \in Entry
<1>1. ASSUME m \in Maps
      PROVE  /\ m = [k \in DOMAIN m |-> m[k]] /\ DOMAIN m \in SUBSET Places
             /\ \A k \in DOMAIN m : m[k] \in Entry
  <2>1. PICK D \in SUBSET Places : m \in [D -> Entry]
    BY <1>1 DEF Maps
  <2> HIDE DEF Places, Entry
  <2> QED BY <2>1
<1>2. ASSUME m = [k \in DOMAIN m |-> m[k]], DOMAIN m \in SUBSET Places, \A k \in DOMAIN m : m[k] \in Entry
      PROVE  m \in Maps
  <2> DEFINE D == DOMAIN m
  <2>1. D \in SUBSET Places /\ m = [k \in D |-> m[k]] /\ \A k \in D : m[k] \in Entry
    BY <1>2
  <2> HIDE DEF D
  <2>2. m \in [D -> Entry]
    BY <2>1
  <2> QED BY <2>1, <2>2 DEF Maps
<1> QED BY <1>1, <1>2

\* An entry that is looked up is one.
LEMMA EntryAtIsEntry ==
    ASSUME NEW m \in Maps, NEW k
    PROVE  EntryAt(m, k) \in Entry
BY MapsAre, NoEntryIsEntry DEF EntryAt

\* One entry is replaced, the others are as they were.
LEMMA WithFacts ==
    ASSUME NEW m \in Maps, NEW k \in Places, NEW e \in Entry
    PROVE  /\ With(m, k, e) \in Maps /\ DOMAIN With(m, k, e) = DOMAIN m \cup {k}
           /\ EntryAt(With(m, k, e), k) = e
           /\ \A x : x # k => EntryAt(With(m, k, e), x) = EntryAt(m, x)
<1> DEFINE D == DOMAIN m \cup {k}
           w == [x \in D |-> IF x = k THEN e ELSE m[x]]
<1>1. w = With(m, k, e)
  BY DEF With
<1>2. DOMAIN m \in SUBSET Places /\ \A x \in DOMAIN m : m[x] \in Entry
  BY MapsAre
<1>3. DOMAIN w = D /\ w = [x \in DOMAIN w |-> w[x]] /\ \A x \in D : w[x] = IF x = k THEN e ELSE m[x]
  OBVIOUS
<1> HIDE DEF w
<1>4. w \in Maps
  <2>1. \A x \in D : w[x] \in Entry /\ x \in Places
    BY <1>2, <1>3
  <2> QED BY <1>3, <2>1, MapsAre
<1>5. EntryAt(w, k) = e /\ \A x : x # k => EntryAt(w, x) = EntryAt(m, x)
  BY <1>3 DEF EntryAt
<1> QED BY <1>1, <1>3, <1>4, <1>5

\* An entry with other values, or another comment.
LEMMA EntryParts ==
    ASSUME NEW e \in Entry, NEW s \in Seq(Word), NEW w \in Word
    PROVE  /\ e.val \in Seq(Word) /\ e.comment \in Word
           /\ [e EXCEPT !.val = s] \in Entry /\ [e EXCEPT !.val = s].val = s
           /\ [e EXCEPT !.val = s].comment = e.comment
           /\ [e EXCEPT !.comment = w] \in Entry /\ [e EXCEPT !.comment = w].val = e.val
           /\ [e EXCEPT !.comment = w].comment = w
           /\ [val |-> s, comment |-> e.comment] \in Entry
BY DEF Entry

\* The values of an entry.
LEMMA ValueFacts ==
    ASSUME NEW v \in Word, NEW s \in Seq(Word), NEW c
    PROVE  /\ <<v>> \in Seq(Word) /\ Append(s, v) \in Seq(Word)
           /\ ToSet(<<v>>) = {v} /\ ToSet(Append(s, v)) = ToSet(s) \cup {v}
           /\ (s = <<>> <=> ToSet(s) = {})
           /\ (Contains(s, v) <=> v \in ToSet(s))
<1>1. <<v>> \in Seq(Word) /\ ToSet(<<v>>) = {v}
  BY DEF ToSet
<1>2. Append(s, v) \in Seq(Word) /\ Len(Append(s, v)) = Len(s) + 1 /\ Append(s, v)[Len(s) + 1] = v
      /\ \A i \in 1 .. Len(s) : Append(s, v)[i] = s[i]
  BY AppendProperties
<1>3. DOMAIN s = 1 .. Len(s) /\ Len(s) \in Nat
  BY LenProperties
<1> DEFINE a == Append(s, v)
<1>4. DOMAIN a = 1 .. (Len(s) + 1)
  BY <1>2, LenProperties
<1> HIDE DEF a
<1>5. ToSet(a) = ToSet(s) \cup {v}
  BY <1>2, <1>3, <1>4 DEF ToSet, a
<1>6. s = <<>> <=> ToSet(s) = {}
  <2>1. ASSUME s # <<>> PROVE ToSet(s) # {}
    <3>1. Len(s) # 0
      BY <2>1, EmptySeq
    <3>2. 1 \in DOMAIN s
      BY <1>3, <3>1
    <3> QED BY <3>2 DEF ToSet
  <2>2. ASSUME s = <<>> PROVE ToSet(s) = {}
    BY <2>2 DEF ToSet
  <2> QED BY <2>1, <2>2
<1>7. Contains(s, v) <=> v \in ToSet(s)
  BY <1>3 DEF Contains, ToSet
<1> QED BY <1>1, <1>2, <1>5, <1>6, <1>7 DEF a

-----------------------------------------------------------------------------
(* buildozer, one command after the other *)

\* What a command makes of the entry at a place.
After(m, c, k) ==
    LET e == EntryAt(m, k)
        here == k = <<c.t, c.a>>
    IN  CASE c.op \in {"new", "set"} /\ here -> [e EXCEPT !.val = <<c.v>>]
          [] c.op = "set_if_absent" /\ here /\ e.val = <<>> -> [e EXCEPT !.val = <<c.v>>]
          [] c.op = "add" /\ here /\ ~Contains(e.val, c.v) -> [e EXCEPT !.val = Append(@, c.v)]
          [] c.op \in {"comment", "note"} /\ here -> [e EXCEPT !.comment = c.v]
          [] c.op = "rename" /\ here -> NoEntry
          [] c.op = "rename" /\ ~here /\ k = <<c.t, c.v>> -> EntryAt(m, <<c.t, c.a>>)
          [] OTHER -> e

\* buildozer's command, place by place.
LEMMA EditFacts ==
    ASSUME NEW m \in Maps, NEW c \in Edits(Word)
    PROVE  /\ Edit(m, c) \in Maps
           /\ \A x : EntryAt(Edit(m, c), x) = After(m, c, x)
<1> DEFINE k == <<c.t, c.a>>
           e == EntryAt(m, k)
<1>1. k \in Places /\ e \in Entry
  BY EditParts, EntryAtIsEntry
<1>2. /\ e.val \in Seq(Word)
      /\ c.v \in Word => /\ [e EXCEPT !.val = <<c.v>>] \in Entry
                         /\ [e EXCEPT !.val = Append(@, c.v)] \in Entry
                         /\ [e EXCEPT !.comment = c.v] \in Entry
  <2>1. e.val \in Seq(Word)
    BY <1>1 DEF Entry
  <2>2. ASSUME c.v \in Word
        PROVE  <<c.v>> \in Seq(Word) /\ Append(e.val, c.v) \in Seq(Word)
    BY <2>1, <2>2, ValueFacts
  <2> HIDE DEF e
  <2>3. ASSUME NEW s \in Seq(Word) PROVE [e EXCEPT !.val = s] \in Entry
    BY <1>1 DEF Entry
  <2>4. ASSUME NEW w \in Word PROVE [e EXCEPT !.comment = w] \in Entry
    BY <1>1 DEF Entry
  <2> QED BY <2>1, <2>2, <2>3, <2>4
<1> HIDE DEF k, e
<1>3. ASSUME NEW f \in Entry, Edit(m, c) = With(m, k, f), After(m, c, k) = f,
             \A x : x # k => After(m, c, x) = EntryAt(m, x)
      PROVE  Edit(m, c) \in Maps /\ \A x : EntryAt(Edit(m, c), x) = After(m, c, x)
  <2>1. With(m, k, f) \in Maps /\ EntryAt(With(m, k, f), k) = f
        /\ \A x : x # k => EntryAt(With(m, k, f), x) = EntryAt(m, x)
    BY ZenonT(40), <1>1, WithFacts
  <2> QED BY <1>3, <2>1
<1>4. ASSUME Edit(m, c) = m, \A x : After(m, c, x) = EntryAt(m, x)
      PROVE  Edit(m, c) \in Maps /\ \A x : EntryAt(Edit(m, c), x) = After(m, c, x)
  BY <1>4
<1>5. CASE c.op \in {"new", "set"}
  <2> DEFINE f == [e EXCEPT !.val = <<c.v>>]
  <2>1. f \in Entry
    BY <1>2, <1>5, EditParts
  <2>2. Edit(m, c) = With(m, k, f)
    BY <1>5 DEF Edit, k, e
  <2>3. After(m, c, k) = f /\ \A x : x # k => After(m, c, x) = EntryAt(m, x)
    BY <1>5 DEF After, k, e
  <2> HIDE DEF f
  <2> QED BY <1>3, <2>1, <2>2, <2>3
<1>6. CASE c.op = "set_if_absent" /\ e.val = <<>>
  <2> DEFINE f == [e EXCEPT !.val = <<c.v>>]
  <2>1. f \in Entry
    BY <1>2, <1>6, EditParts
  <2>2. Edit(m, c) = With(m, k, f)
    BY <1>6 DEF Edit, k, e
  <2>3. After(m, c, k) = f /\ \A x : x # k => After(m, c, x) = EntryAt(m, x)
    BY <1>6 DEF After, k, e
  <2> HIDE DEF f
  <2> QED BY <1>3, <2>1, <2>2, <2>3
<1>7. CASE c.op = "set_if_absent" /\ e.val # <<>>
  <2>1. Edit(m, c) = m
    BY <1>7 DEF Edit, k, e
  <2>2. \A x : After(m, c, x) = EntryAt(m, x)
    BY <1>7 DEF After, k, e
  <2> QED BY <1>4, <2>1, <2>2
<1>8. CASE c.op = "add" /\ ~Contains(e.val, c.v)
  <2> DEFINE f == [e EXCEPT !.val = Append(@, c.v)]
  <2>1. f \in Entry
    BY <1>2, <1>8, EditParts
  <2>2. Edit(m, c) = With(m, k, f)
    BY <1>8 DEF Edit, k, e
  <2>3. After(m, c, k) = f /\ \A x : x # k => After(m, c, x) = EntryAt(m, x)
    BY <1>8 DEF After, k, e
  <2> HIDE DEF f
  <2> QED BY <1>3, <2>1, <2>2, <2>3
<1>9. CASE c.op = "add" /\ Contains(e.val, c.v)
  <2>1. Edit(m, c) = m
    BY <1>9 DEF Edit, k, e
  <2>2. \A x : After(m, c, x) = EntryAt(m, x)
    BY <1>9 DEF After, k, e
  <2> QED BY <1>4, <2>1, <2>2
<1>10. CASE c.op \in {"comment", "note"}
  <2> DEFINE f == [e EXCEPT !.comment = c.v]
  <2>1. f \in Entry
    BY <1>2, <1>10, EditParts
  <2>2. Edit(m, c) = With(m, k, f)
    BY <1>10 DEF Edit, k, e
  <2>3. After(m, c, k) = f /\ \A x : x # k => After(m, c, x) = EntryAt(m, x)
    BY <1>10 DEF After, k, e
  <2> HIDE DEF f
  <2> QED BY <1>3, <2>1, <2>2, <2>3
<1>11. CASE c.op = "rename"
  <2> DEFINE to == <<c.t, c.v>>
             n == With(m, to, e)
  <2>1. to \in Places
    BY <1>11, EditParts
  <2> HIDE DEF to
  <2>2. n \in Maps /\ EntryAt(n, to) = e /\ \A x : x # to => EntryAt(n, x) = EntryAt(m, x)
    BY ZenonT(40), <1>1, <2>1, WithFacts
  <2>3. Edit(m, c) = With(n, k, NoEntry)
    BY <1>11 DEF Edit, k, e, to
  <2> HIDE DEF n
  <2>4. With(n, k, NoEntry) \in Maps /\ EntryAt(With(n, k, NoEntry), k) = NoEntry
        /\ \A x : x # k => EntryAt(With(n, k, NoEntry), x) = EntryAt(n, x)
    BY <1>1, <2>2, NoEntryIsEntry, WithFacts
  <2>5. \A x : After(m, c, x) = IF x = k THEN NoEntry ELSE IF x = to THEN e ELSE EntryAt(m, x)
    BY <1>11 DEF After, k, e, to
  <2> QED BY <2>2, <2>3, <2>4, <2>5
<1> QED BY <1>5, <1>6, <1>7, <1>8, <1>9, <1>10, <1>11, EditParts

\* The files after all commands, where none fails.
Outcome(m, cmds) == OutcomeFold!FoldValue(0, m, cmds)

\* Without a command nothing changes.
LEMMA OutcomeEmpty ==
    ASSUME NEW m \in Maps
    PROVE  Outcome(m, <<>>) = m
<1>1. \A v \in Maps, x \in Edits(Word) : Edit(v, x) \in Maps
  BY EditFacts
<1> DEFINE none == <<>>
<1>2. none \in Seq(Edits(Word)) /\ Len(none) = 0
  OBVIOUS
<1> HIDE DEF none
<1>3. OutcomeFold!Trace(0, Maps, m, none)
  BY <1>1, <1>2, OutcomeFold!FoldTrace
<1> QED BY <1>2, <1>3 DEF Outcome, OutcomeFold!Trace, OutcomeFold!IsTrace, none

\* The outcome of one command more.
LEMMA OutcomeFacts ==
    ASSUME NEW m \in Maps, NEW cmds \in Seq(Edits(Word)), NEW c \in Edits(Word)
    PROVE  /\ Outcome(m, <<>>) = m /\ Outcome(m, cmds) \in Maps
           /\ Outcome(m, Append(cmds, c)) = Edit(Outcome(m, cmds), c)
<1>1. \A v \in Maps, x \in Edits(Word) : Edit(v, x) \in Maps
  BY EditFacts
<1>2. OutcomeFold!FoldsOn(0, Maps, m, cmds, c)
  BY <1>1, OutcomeFold!FoldAppend
<1> QED BY <1>2 DEF Outcome, OutcomeFold!FoldsOn

-----------------------------------------------------------------------------
(* The picture and the commands *)

\* Two entries that the builder need not tell apart: values are a set, and the comment of
\* a target is not looked at.
SameEntry(k, e, f) == Values(e) = Values(f) /\ (k[2] # "kind" => e.comment = f.comment)

Belief(seen, m) == \A k \in DOMAIN seen : SameEntry(k, EntryAt(seen, k), EntryAt(m, k))

\* The picture is what the commands so far make of the file.
InStep(tree, p) == Belief(p.seen, Outcome(tree, p.cmds))

\* The same edit of two such entries.
LEMMA SameEdits ==
    ASSUME NEW e \in Entry, NEW f \in Entry, NEW v \in Word, NEW k, SameEntry(k, e, f)
    PROVE  /\ SameEntry(k, [e EXCEPT !.val = <<v>>], [f EXCEPT !.val = <<v>>])
           /\ SameEntry(k, [val |-> <<v>>, comment |-> e.comment], [f EXCEPT !.val = <<v>>])
           /\ e.val = <<>> <=> f.val = <<>>
           /\ SameEntry(k, [e EXCEPT !.val = Append(@, v)], [f EXCEPT !.val = Append(@, v)])
           /\ Contains(f.val, v) => SameEntry(k, [e EXCEPT !.val = Append(@, v)], f)
           /\ SameEntry(k, [e EXCEPT !.comment = v], [f EXCEPT !.comment = v])
<1>1. ToSet(e.val) = ToSet(f.val) /\ (k[2] # "kind" => e.comment = f.comment)
  BY DEF SameEntry, Values
<1>2. /\ e = [val |-> e.val, comment |-> e.comment] /\ e.val \in Seq(Word)
      /\ f = [val |-> f.val, comment |-> f.comment] /\ f.val \in Seq(Word)
  BY DEF Entry
<1>3. /\ ToSet(Append(e.val, v)) = ToSet(e.val) \cup {v}
      /\ ToSet(Append(f.val, v)) = ToSet(f.val) \cup {v}
      /\ (e.val = <<>> <=> ToSet(e.val) = {}) /\ (f.val = <<>> <=> ToSet(f.val) = {})
      /\ (Contains(f.val, v) => v \in ToSet(f.val))
  BY <1>2, ValueFacts
<1>4. ASSUME NEW a, NEW b
      PROVE  /\ [e EXCEPT !.val = a] = [val |-> a, comment |-> e.comment]
             /\ [f EXCEPT !.val = b] = [val |-> b, comment |-> f.comment]
             /\ [e EXCEPT !.comment = a] = [val |-> e.val, comment |-> a]
             /\ [f EXCEPT !.comment = a] = [val |-> f.val, comment |-> a]
  BY <1>2
<1>5. ASSUME NEW a, NEW b, ToSet(a) = ToSet(b)
      PROVE  SameEntry(k, [val |-> a, comment |-> e.comment], [val |-> b, comment |-> f.comment])
  BY <1>1, <1>5 DEF SameEntry, Values
<1>6. SameEntry(k, [e EXCEPT !.val = <<v>>], [f EXCEPT !.val = <<v>>])
      /\ SameEntry(k, [val |-> <<v>>, comment |-> e.comment], [f EXCEPT !.val = <<v>>])
  <2> DEFINE a == <<v>>
  <2> HIDE DEF a
  <2>1. SameEntry(k, [val |-> a, comment |-> e.comment], [val |-> a, comment |-> f.comment])
    BY <1>5
  <2>2. /\ [e EXCEPT !.val = a] = [val |-> a, comment |-> e.comment]
        /\ [f EXCEPT !.val = a] = [val |-> a, comment |-> f.comment]
    BY <1>2
  <2> QED BY <2>1, <2>2 DEF a
<1>7. SameEntry(k, [e EXCEPT !.val = Append(@, v)], [f EXCEPT !.val = Append(@, v)])
  <2> DEFINE a == Append(e.val, v)
             b == Append(f.val, v)
  <2>1. ToSet(a) = ToSet(b)
    BY <1>1, <1>3
  <2> HIDE DEF a, b
  <2>2. SameEntry(k, [val |-> a, comment |-> e.comment], [val |-> b, comment |-> f.comment])
    BY <1>5, <2>1
  <2>3. /\ [e EXCEPT !.val = a] = [val |-> a, comment |-> e.comment]
        /\ [f EXCEPT !.val = b] = [val |-> b, comment |-> f.comment]
    BY <1>2
  <2> QED BY <2>2, <2>3 DEF a, b
<1>8. Contains(f.val, v) => SameEntry(k, [e EXCEPT !.val = Append(@, v)], f)
  <2> DEFINE a == Append(e.val, v)
  <2> SUFFICES ASSUME Contains(f.val, v) PROVE SameEntry(k, [e EXCEPT !.val = a], f)
      OBVIOUS
  <2>1. ToSet(a) = ToSet(f.val)
    BY <1>1, <1>3
  <2> HIDE DEF a
  <2>2. SameEntry(k, [val |-> a, comment |-> e.comment], [val |-> f.val, comment |-> f.comment])
    BY <1>5, <2>1
  <2>3. [e EXCEPT !.val = a] = [val |-> a, comment |-> e.comment]
    BY <1>2
  <2> QED BY <1>2, <2>2, <2>3
<1>9. SameEntry(k, [e EXCEPT !.comment = v], [f EXCEPT !.comment = v])
  BY <1>1, <1>4 DEF SameEntry, Values
<1> QED BY <1>1, <1>3, <1>6, <1>7, <1>8, <1>9

\* Emit and Believe are about one field each.
LEMMA EmitIs ==
    ASSUME NEW s, NEW d, NEW c, NEW x, x = [seen |-> s, cmds |-> d]
    PROVE  Emit(x, c) = [seen |-> s, cmds |-> Append(d, c)]
BY DEF Emit

\* Believing replaces an entry of the picture and writes no command.
LEMMA BelieveIs ==
    ASSUME NEW s, NEW d, NEW k, NEW e, NEW x, x = [seen |-> s, cmds |-> d]
    PROVE  Believe(x, k, e) = [seen |-> With(s, k, e), cmds |-> d]
BY DEF Believe

\* A picture after a command is written and an entry is believed.
Told(p, c, k, e) == [seen |-> With(p.seen, k, e), cmds |-> Append(p.cmds, c)]

\* A command and the entry it leads to: the picture stays the outcome of the commands if
\* the entry is what buildozer makes of the place.
LEMMA ToldFacts ==
    ASSUME NEW tree \in Maps, NEW p \in Pictures, NEW c \in Edits(Word), NEW k \in Places,
           NEW e \in Entry
    PROVE  /\ Believe(Emit(p, c), k, e) = Told(p, c, k, e)
           /\ Emit(Believe(p, k, e), c) = Told(p, c, k, e)
           /\ Told(p, c, k, e) \in Pictures
           /\ DOMAIN Told(p, c, k, e).seen = DOMAIN p.seen \cup {k}
           /\ EntryAt(Told(p, c, k, e).seen, k) = e
           /\ InStep(tree, p) /\ k = <<c.t, c.a>> /\ c.op # "rename"
              /\ SameEntry(k, e, After(Outcome(tree, p.cmds), c, k))
              => InStep(tree, Told(p, c, k, e))
<1> DEFINE q == Told(p, c, k, e)
           m == Outcome(tree, p.cmds)
           n == Outcome(tree, Append(p.cmds, c))
<1>1. p = [seen |-> p.seen, cmds |-> p.cmds] /\ p.seen \in Maps /\ p.cmds \in Seq(Edits(Word))
  BY DEF Pictures
<1>2. Believe(Emit(p, c), k, e) = q /\ Emit(Believe(p, k, e), c) = q
  <2> DEFINE s == p.seen
             d == p.cmds
  <2>1. p = [seen |-> s, cmds |-> d]
    BY <1>1
  <2> HIDE DEF s, d
  <2> DEFINE x == Emit(p, c)
             y == Believe(p, k, e)
             w == With(s, k, e)
             a == Append(d, c)
  <2>2. x = [seen |-> s, cmds |-> a] /\ y = [seen |-> w, cmds |-> d]
    <3>1. x = [seen |-> s, cmds |-> a]
      BY <2>1, EmitIs
    <3>2. y = [seen |-> w, cmds |-> d]
      BY <2>1, BelieveIs
    <3> QED BY <3>1, <3>2
  <2> HIDE DEF x, y, w, a
  <2>3. Believe(x, k, e) = [seen |-> With(s, k, e), cmds |-> a]
    BY <2>2, BelieveIs
  <2>4. Emit(y, c) = [seen |-> w, cmds |-> Append(d, c)]
    BY <2>2, EmitIs
  <2> QED BY <2>3, <2>4 DEF Told, s, d, x, y, w, a
<1>3. q.seen = With(p.seen, k, e) /\ q.cmds = Append(p.cmds, c)
  BY DEF Told
<1>4. With(p.seen, k, e) \in Maps /\ DOMAIN With(p.seen, k, e) = DOMAIN p.seen \cup {k}
      /\ EntryAt(With(p.seen, k, e), k) = e
      /\ \A x : x # k => EntryAt(With(p.seen, k, e), x) = EntryAt(p.seen, x)
  BY ZenonT(40), <1>1, WithFacts
<1>5. q \in Pictures
  <2>1. Append(p.cmds, c) \in Seq(Edits(Word))
    BY <1>1, AppendProperties
  <2> QED BY <1>4, <2>1 DEF Told, Pictures
<1>6. m \in Maps /\ n = Edit(m, c)
  BY <1>1, OutcomeFacts
<1> HIDE DEF m, n
<1>7. \A x : EntryAt(n, x) = After(m, c, x)
  BY <1>6, EditFacts
<1>8. ASSUME InStep(tree, p), k = <<c.t, c.a>>, c.op # "rename", SameEntry(k, e, After(m, c, k))
      PROVE  InStep(tree, q)
  <2>1. ASSUME NEW x \in DOMAIN q.seen PROVE SameEntry(x, EntryAt(q.seen, x), EntryAt(n, x))
    <3>1. CASE x = k
      BY <1>3, <1>4, <1>7, <1>8, <3>1
    <3>2. CASE x # k
      <4>1. x \in DOMAIN p.seen /\ EntryAt(q.seen, x) = EntryAt(p.seen, x)
        BY <1>3, <1>4, <3>2
      <4>2. After(m, c, x) = EntryAt(m, x)
        BY <1>8, <3>2 DEF After
      <4>3. SameEntry(x, EntryAt(p.seen, x), EntryAt(m, x))
        BY <1>8, <4>1 DEF InStep, Belief, m
      <4> QED BY <1>7, <4>1, <4>2, <4>3
    <3> QED BY <3>1, <3>2
  <2> QED BY <1>3, <2>1 DEF InStep, Belief, n
<1> QED BY <1>2, <1>3, <1>4, <1>5, <1>8 DEF m

\* The places an edit of the script is about.
KeysOf(o) ==
    CASE o.op = "note" -> {}
      [] o.op = "rename" -> {<<o.t, o.a>>, <<o.t, o.v>>}
      [] OTHER -> {<<o.t, o.a>>}

\* What performing an edit keeps: the types, the places, and the truth of the picture.
Performed(tree, p, keys, q) ==
    /\ q \in Pictures /\ DOMAIN q.seen = DOMAIN p.seen \cup keys
    /\ keys \subseteq DOMAIN p.seen /\ InStep(tree, p) => InStep(tree, q)

\* One of the picture's entries and that of the file.
LEMMA OneBelief ==
    ASSUME NEW tree \in Maps, NEW p \in Pictures, NEW k
    PROVE  LET m == Outcome(tree, p.cmds) IN
           /\ EntryAt(p.seen, k) \in Entry /\ EntryAt(m, k) \in Entry
           /\ k \in DOMAIN p.seen /\ InStep(tree, p) => SameEntry(k, EntryAt(p.seen, k), EntryAt(m, k))
<1>1. p.seen \in Maps /\ p.cmds \in Seq(Edits(Word))
  BY DEF Pictures
<1>2. Outcome(tree, p.cmds) \in Maps
  <2>1. \A v \in Maps, x \in Edits(Word) : Edit(v, x) \in Maps
    BY EditFacts
  <2>2. OutcomeFold!Trace(0, Maps, tree, p.cmds)
    BY <1>1, <2>1, OutcomeFold!FoldTrace
  <2>3. PICK t \in [0 .. Len(p.cmds) -> Maps] : OutcomeFold!IsTrace(t, 0, tree, p.cmds)
    BY <2>2 DEF OutcomeFold!Trace
  <2>4. Len(p.cmds) \in 0 .. Len(p.cmds)
    BY <1>1, LenProperties
  <2> QED BY <2>3, <2>4 DEF OutcomeFold!IsTrace, Outcome
<1> QED BY <1>1, <1>2, EntryAtIsEntry DEF InStep, Belief

\* Setting a value, whether it was there or not.
LEMMA SetPerformed ==
    ASSUME NEW tree \in Maps, NEW p \in Pictures, NEW o \in Edits(Word),
           o.op \in {"set", "set_if_absent"}
    PROVE  Performed(tree, p, {<<o.t, o.a>>}, DoSet(p, o))
<1> DEFINE k == <<o.t, o.a>>
           e == EntryAt(p.seen, k)
           m == Outcome(tree, p.cmds)
           f == EntryAt(m, k)
           g == IF o.op = "set" \/ e.val = <<>> THEN [e EXCEPT !.val = <<o.v>>] ELSE e
           q == DoSet(p, o)
<1>1. k \in Places /\ o.v \in Word
  BY EditParts
<1>2. e \in Entry /\ f \in Entry /\ (k \in DOMAIN p.seen /\ InStep(tree, p) => SameEntry(k, e, f))
  BY OneBelief
<1>3. <<o.v>> \in Seq(Word)
  BY <1>1, ValueFacts
<1>4. g \in Entry
  <2> HIDE DEF e
  <2> QED BY <1>2, <1>3 DEF Entry
<1>5. q = Believe(Emit(p, o), k, g)
  BY DEF DoSet
<1>6. After(m, o, k) = IF o.op = "set" \/ f.val = <<>> THEN [f EXCEPT !.val = <<o.v>>] ELSE f
  BY DEF After
<1> HIDE DEF k, e, m, f, q
<1>7. SameEntry(k, e, f) => SameEntry(k, g, After(m, o, k))
  <2> SUFFICES ASSUME SameEntry(k, e, f) PROVE SameEntry(k, g, After(m, o, k))
      OBVIOUS
  <2>1. (e.val = <<>> <=> f.val = <<>>)
        /\ SameEntry(k, [e EXCEPT !.val = <<o.v>>], [f EXCEPT !.val = <<o.v>>])
    BY <1>1, <1>2, SameEdits
  <2> QED BY <1>6, <2>1
<1> HIDE DEF g
<1>8. /\ q = Told(p, o, k, g) /\ Told(p, o, k, g) \in Pictures
      /\ DOMAIN Told(p, o, k, g).seen = DOMAIN p.seen \cup {k}
      /\ InStep(tree, p) /\ k = <<o.t, o.a>> /\ o.op # "rename"
         /\ SameEntry(k, g, After(m, o, k)) => InStep(tree, Told(p, o, k, g))
  BY <1>1, <1>4, <1>5, ToldFacts DEF m
<1>9. o.op # "rename" /\ k = <<o.t, o.a>>
  BY DEF k
<1>10. Performed(tree, p, {k}, q)
  BY <1>2, <1>7, <1>8, <1>9 DEF Performed
<1> QED BY <1>10 DEF k, q

\* A new target, whether it was there or not.
LEMMA NewPerformed ==
    ASSUME NEW tree \in Maps, NEW p \in Pictures, NEW o \in Edits(Word), o.op = "new"
    PROVE  Performed(tree, p, {<<o.t, o.a>>}, DoNew(p, o))
<1> DEFINE k == <<o.t, o.a>>
           e == EntryAt(p.seen, k)
           m == Outcome(tree, p.cmds)
           f == EntryAt(m, k)
           g == [val |-> <<o.v>>, comment |-> e.comment]
           c == Set(o.t, "kind", o.v)
           q == DoNew(p, o)
<1>1. k \in Places /\ o.v \in Word /\ o.a = "kind" /\ o.t \in Targets
  BY EditParts
<1>2. e \in Entry /\ f \in Entry /\ (k \in DOMAIN p.seen /\ InStep(tree, p) => SameEntry(k, e, f))
  BY OneBelief
<1>3. <<o.v>> \in Seq(Word)
  BY <1>1, ValueFacts
<1>4. g \in Entry
  <2> HIDE DEF e
  <2> QED BY <1>2, <1>3 DEF Entry
<1>5. c \in Edits(Word) /\ c.op = "set" /\ c.t = o.t /\ c.a = o.a /\ c.v = o.v
  <2>1. c \in Edits(Word)
    BY <1>1, MadeEdits, EditParts
  <2>2. c.op = "set" /\ c.t = o.t /\ c.a = "kind" /\ c.v = o.v
    BY DEF Set
  <2> QED BY <1>1, <2>1, <2>2
<1>6. After(m, o, k) = [f EXCEPT !.val = <<o.v>>]
  BY DEF After
<1>7. /\ e.val = <<>> => q = Emit(Believe(p, k, g), o)
      /\ e.val # <<>> /\ e.val # <<o.v>> => q = Emit(Believe(p, k, g), c)
      /\ e.val = <<o.v>> => q = p
  <2>1. <<o.v>> # <<>>
    OBVIOUS
  <2> QED BY <1>1, <2>1 DEF DoNew
<1> HIDE DEF k, e, m, f, c, q
<1>8. After(m, c, k) = [f EXCEPT !.val = <<o.v>>]
  BY <1>1, <1>5 DEF After, k, f
<1>9. SameEntry(k, e, f) => SameEntry(k, g, [f EXCEPT !.val = <<o.v>>])
  BY <1>1, <1>2, SameEdits
<1> HIDE DEF g
<1>10. ASSUME NEW d \in {o, c}, q = Emit(Believe(p, k, g), d) PROVE Performed(tree, p, {k}, q)
  <2>1. d \in Edits(Word) /\ k = <<d.t, d.a>> /\ d.op # "rename" /\ After(m, d, k) = [f EXCEPT !.val = <<o.v>>]
    BY <1>5, <1>6, <1>8 DEF k
  <2>2. /\ q = Told(p, d, k, g) /\ Told(p, d, k, g) \in Pictures
        /\ DOMAIN Told(p, d, k, g).seen = DOMAIN p.seen \cup {k}
        /\ InStep(tree, p) /\ k = <<d.t, d.a>> /\ d.op # "rename"
           /\ SameEntry(k, g, After(m, d, k)) => InStep(tree, Told(p, d, k, g))
    BY <1>1, <1>4, <1>10, <2>1, ToldFacts DEF m
  <2> QED BY <1>2, <1>9, <2>1, <2>2 DEF Performed
<1>11. ASSUME e.val = <<o.v>>, q = p PROVE Performed(tree, p, {k}, q)
  <2>1. k \in DOMAIN p.seen
    <3>1. <<o.v>> # <<>>
      OBVIOUS
    <3> QED BY <1>11, <3>1 DEF e, EntryAt, NoEntry
  <2> QED BY <1>11, <2>1 DEF Performed
<1>12. Performed(tree, p, {k}, q)
  BY <1>7, <1>10, <1>11
<1> QED BY <1>12 DEF k, q

\* Adding to a list.
LEMMA AddPerformed ==
    ASSUME NEW tree \in Maps, NEW p \in Pictures, NEW o \in Edits(Word), o.op = "add"
    PROVE  Performed(tree, p, {<<o.t, o.a>>}, DoAdd(p, o))
<1> DEFINE k == <<o.t, o.a>>
           e == EntryAt(p.seen, k)
           m == Outcome(tree, p.cmds)
           f == EntryAt(m, k)
           g == [e EXCEPT !.val = Append(@, o.v)]
           q == DoAdd(p, o)
<1>1. k \in Places /\ o.v \in Word
  BY EditParts
<1>2. e \in Entry /\ f \in Entry /\ (k \in DOMAIN p.seen /\ InStep(tree, p) => SameEntry(k, e, f))
  BY OneBelief
<1>3. g \in Entry
  <2> HIDE DEF e
  <2>1. e.val \in Seq(Word)
    BY <1>2 DEF Entry
  <2>2. Append(e.val, o.v) \in Seq(Word)
    BY <1>1, <2>1, ValueFacts
  <2> QED BY <1>2, <2>2 DEF Entry
<1>4. q = Believe(Emit(p, o), k, g)
  BY DEF DoAdd
<1>5. After(m, o, k) = IF Contains(f.val, o.v) THEN f ELSE [f EXCEPT !.val = Append(@, o.v)]
  BY DEF After
<1> HIDE DEF k, e, m, f, q
<1>6. SameEntry(k, e, f) => SameEntry(k, g, After(m, o, k))
  <2> SUFFICES ASSUME SameEntry(k, e, f) PROVE SameEntry(k, g, After(m, o, k))
      OBVIOUS
  <2>1. /\ SameEntry(k, g, [f EXCEPT !.val = Append(@, o.v)])
        /\ Contains(f.val, o.v) => SameEntry(k, g, f)
    BY <1>1, <1>2, SameEdits
  <2> QED BY <1>5, <2>1
<1> HIDE DEF g
<1>7. /\ q = Told(p, o, k, g) /\ Told(p, o, k, g) \in Pictures
      /\ DOMAIN Told(p, o, k, g).seen = DOMAIN p.seen \cup {k}
      /\ InStep(tree, p) /\ k = <<o.t, o.a>> /\ o.op # "rename"
         /\ SameEntry(k, g, After(m, o, k)) => InStep(tree, Told(p, o, k, g))
  BY <1>1, <1>3, <1>4, ToldFacts DEF m
<1>8. o.op # "rename" /\ k = <<o.t, o.a>>
  BY DEF k
<1>9. Performed(tree, p, {k}, q)
  BY <1>2, <1>6, <1>7, <1>8 DEF Performed
<1> QED BY <1>9 DEF k, q

\* A comment comes after a set_if_absent.
LEMMA CommentPerformed ==
    ASSUME NEW tree \in Maps, NEW p \in Pictures, NEW o \in Edits(Word), o.op = "comment"
    PROVE  Performed(tree, p, {<<o.t, o.a>>}, DoComment(p, o))
<1> DEFINE k == <<o.t, o.a>>
           s == SetIfAbsent(o.t, o.a, None)
           r == DoSet(p, s)
           e == EntryAt(r.seen, k)
           m == Outcome(tree, r.cmds)
           f == EntryAt(m, k)
           g == [e EXCEPT !.comment = o.v]
           q == DoComment(p, o)
<1>1. k \in Places /\ o.v \in Word /\ o.t \in Targets
  BY EditParts
<1>2. s \in Edits(Word) /\ s.op = "set_if_absent" /\ <<s.t, s.a>> = k
  <2>1. None \in Word
    BY DEF Word
  <2> QED BY <1>1, <2>1, MadeEdits, EditParts DEF SetIfAbsent
<1> HIDE DEF s
<1>3. Performed(tree, p, {k}, r)
  BY <1>2, SetPerformed
<1>4. q = IF Wanted(o.when, e) /\ e.comment # o.v THEN Believe(Emit(r, o), k, g) ELSE r
  BY DEF DoComment, s
<1> HIDE DEF r
<1>5. r \in Pictures
  BY <1>3 DEF Performed
<1>6. e \in Entry /\ f \in Entry /\ (k \in DOMAIN r.seen /\ InStep(tree, r) => SameEntry(k, e, f))
  BY <1>5, OneBelief
<1>7. g \in Entry
  <2> HIDE DEF e
  <2> QED BY <1>1, <1>6 DEF Entry
<1>8. After(m, o, k) = [f EXCEPT !.comment = o.v]
  BY DEF After
<1> HIDE DEF k, e, m, f, q
<1>9. SameEntry(k, e, f) => SameEntry(k, g, After(m, o, k))
  <2> SUFFICES ASSUME SameEntry(k, e, f) PROVE SameEntry(k, g, After(m, o, k))
      OBVIOUS
  <2>1. SameEntry(k, [e EXCEPT !.comment = o.v], [f EXCEPT !.comment = o.v])
    BY <1>1, <1>6, SameEdits
  <2> QED BY <1>8, <2>1
<1> HIDE DEF g
<1>10. ASSUME q = r PROVE Performed(tree, p, {k}, q)
  BY <1>3, <1>10
<1>11. ASSUME q = Believe(Emit(r, o), k, g) PROVE Performed(tree, p, {k}, q)
  <2>1. /\ q = Told(r, o, k, g) /\ Told(r, o, k, g) \in Pictures
        /\ DOMAIN Told(r, o, k, g).seen = DOMAIN r.seen \cup {k}
        /\ InStep(tree, r) /\ k = <<o.t, o.a>> /\ o.op # "rename"
           /\ SameEntry(k, g, After(m, o, k)) => InStep(tree, Told(r, o, k, g))
    BY <1>1, <1>5, <1>7, <1>11, ToldFacts DEF m
  <2>2. o.op # "rename" /\ k = <<o.t, o.a>>
    BY DEF k
  <2> QED BY <1>3, <1>6, <1>9, <2>1, <2>2 DEF Performed
<1>12. Performed(tree, p, {k}, q)
  BY <1>4, <1>10, <1>11
<1> QED BY <1>12 DEF k, q

\* A rename moves the picture's entry as buildozer moves the file's.
LEMMA RenamePerformed ==
    ASSUME NEW tree \in Maps, NEW p \in Pictures, NEW o \in Edits(Word), o.op = "rename"
    PROVE  Performed(tree, p, {<<o.t, o.a>>, <<o.t, o.v>>}, DoRename(p, o))
<1> DEFINE k == <<o.t, o.a>>
           to == <<o.t, o.v>>
           e == EntryAt(p.seen, k)
           m == Outcome(tree, p.cmds)
           n == Outcome(tree, Append(p.cmds, o))
           r == Told(p, o, to, e)
           q == DoRename(p, o)
<1>1. k \in Places /\ to \in Places /\ k[2] # "kind" /\ to[2] # "kind"
  BY EditParts DEF Attrs
<1>2. /\ p.seen \in Maps /\ p.cmds \in Seq(Edits(Word)) /\ e \in Entry
      /\ k \in DOMAIN p.seen /\ InStep(tree, p) => SameEntry(k, e, EntryAt(m, k))
  BY OneBelief DEF Pictures
<1>3. /\ Believe(Emit(p, o), to, e) = r /\ r \in Pictures /\ r.seen = With(p.seen, to, e)
      /\ r.cmds = Append(p.cmds, o)
  <2> HIDE DEF to, e, r
  <2>1. Believe(Emit(p, o), to, e) = Told(p, o, to, e) /\ Told(p, o, to, e) \in Pictures
    BY <1>1, <1>2, ToldFacts
  <2>2. Told(p, o, to, e).seen = With(p.seen, to, e) /\ Told(p, o, to, e).cmds = Append(p.cmds, o)
    BY DEF Told
  <2> QED BY <2>1, <2>2 DEF r
<1>4. q = Believe(r, k, NoEntry)
  BY <1>3 DEF DoRename
<1>5. m \in Maps /\ n = Edit(m, o)
  BY <1>2, OutcomeFacts
<1>6. \A x : EntryAt(n, x) = IF x = k THEN NoEntry ELSE IF x = to THEN EntryAt(m, k) ELSE EntryAt(m, x)
  <2>1. \A x : EntryAt(n, x) = After(m, o, x)
    <3> HIDE DEF m, n
    <3> QED BY <1>5, EditFacts
  <2>2. \A x : After(m, o, x) = IF x = k THEN NoEntry ELSE IF x = to THEN EntryAt(m, k) ELSE EntryAt(m, x)
    BY DEF After
  <2> HIDE DEF m, n, k, to
  <2> QED BY <2>1, <2>2
<1> HIDE DEF k, to, e, m, n, r, q
<1>7. q = [seen |-> With(r.seen, k, NoEntry), cmds |-> r.cmds]
  <2> DEFINE s == r.seen
             d == r.cmds
  <2>1. r = [seen |-> s, cmds |-> d]
    BY <1>3 DEF Pictures
  <2> HIDE DEF s, d
  <2>2. Believe(r, k, NoEntry) = [seen |-> With(s, k, NoEntry), cmds |-> d]
    BY <2>1, BelieveIs
  <2> QED BY <1>4, <2>2 DEF s, d
<1>8. /\ r.seen \in Maps /\ DOMAIN r.seen = DOMAIN p.seen \cup {to} /\ EntryAt(r.seen, to) = e
      /\ \A x : x # to => EntryAt(r.seen, x) = EntryAt(p.seen, x)
  <2>1. /\ With(p.seen, to, e) \in Maps /\ DOMAIN With(p.seen, to, e) = DOMAIN p.seen \cup {to}
        /\ EntryAt(With(p.seen, to, e), to) = e
        /\ \A x : x # to => EntryAt(With(p.seen, to, e), x) = EntryAt(p.seen, x)
    BY ZenonT(40), <1>1, <1>2, WithFacts
  <2> QED BY <1>3, <2>1
<1>9. /\ q.seen \in Maps /\ DOMAIN q.seen = DOMAIN r.seen \cup {k} /\ EntryAt(q.seen, k) = NoEntry
      /\ \A x : x # k => EntryAt(q.seen, x) = EntryAt(r.seen, x)
      /\ q.cmds = Append(p.cmds, o)
  <2>1. q.seen = With(r.seen, k, NoEntry) /\ q.cmds = r.cmds
    BY <1>7
  <2>2. LET w == With(r.seen, k, NoEntry) IN
        /\ w \in Maps /\ DOMAIN w = DOMAIN r.seen \cup {k} /\ EntryAt(w, k) = NoEntry
        /\ \A x : x # k => EntryAt(w, x) = EntryAt(r.seen, x)
    BY ZenonT(40), <1>1, <1>8, NoEntryIsEntry, WithFacts
  <2> QED BY <1>3, <2>1, <2>2
<1>10. q \in Pictures
  <2>1. q.cmds \in Seq(Edits(Word))
    BY <1>3, <1>9 DEF Pictures
  <2>2. q = [seen |-> q.seen, cmds |-> q.cmds]
    BY <1>7
  <2> QED BY <1>9, <2>1, <2>2 DEF Pictures
<1>11. ASSUME k \in DOMAIN p.seen, InStep(tree, p) PROVE InStep(tree, q)
  <2>1. ASSUME NEW x \in DOMAIN q.seen PROVE SameEntry(x, EntryAt(q.seen, x), EntryAt(n, x))
    <3>1. CASE x = k
      BY <1>6, <1>9, <3>1 DEF SameEntry
    <3>2. CASE x # k /\ x = to
      <4>1. SameEntry(k, e, EntryAt(m, k))
        BY <1>2, <1>11
      <4> QED BY <1>1, <1>6, <1>8, <1>9, <3>2, <4>1 DEF SameEntry
    <3>3. CASE x # k /\ x # to
      <4>1. x \in DOMAIN p.seen /\ EntryAt(q.seen, x) = EntryAt(p.seen, x) /\ EntryAt(n, x) = EntryAt(m, x)
        BY <1>6, <1>8, <1>9, <3>3
      <4>2. SameEntry(x, EntryAt(p.seen, x), EntryAt(m, x))
        BY <1>11, <4>1 DEF InStep, Belief, m
      <4> QED BY <4>1, <4>2
    <3> QED BY <3>1, <3>2, <3>3
  <2> QED BY <1>9, <2>1 DEF InStep, Belief, n
<1>12. Performed(tree, p, {k, to}, q)
  BY <1>8, <1>9, <1>10, <1>11 DEF Performed
<1> QED BY <1>12 DEF k, to, q

\* A note is about nothing the picture holds.
LEMMA NotePerformed ==
    ASSUME NEW tree \in Maps, NEW p \in Pictures, NEW o \in Edits(Word), o.op = "note"
    PROVE  Performed(tree, p, {}, Emit(p, o))
<1> DEFINE s == p.seen
           d == p.cmds
           a == Append(d, o)
           q == Emit(p, o)
           m == Outcome(tree, d)
<1>1. p = [seen |-> s, cmds |-> d] /\ s \in Maps /\ d \in Seq(Edits(Word))
  BY DEF Pictures
<1> HIDE DEF s, d
<1>2. q = [seen |-> s, cmds |-> a] /\ a \in Seq(Edits(Word))
  BY <1>1, EmitIs, AppendProperties
<1>3. q \in Pictures
  BY <1>1, <1>2 DEF Pictures
<1>4. m \in Maps /\ Outcome(tree, a) = Edit(m, o)
  BY <1>1, OutcomeFacts
<1> HIDE DEF m, a
<1>5. \A x : EntryAt(Outcome(tree, a), x) = After(m, o, x)
  BY <1>4, EditFacts
<1>6. o.a = "kind"
  BY EditParts
<1>7. ASSUME InStep(tree, p) PROVE InStep(tree, q)
  <2>1. ASSUME NEW x \in DOMAIN s PROVE SameEntry(x, EntryAt(s, x), EntryAt(Outcome(tree, a), x))
    <3>1. SameEntry(x, EntryAt(s, x), EntryAt(m, x))
      BY <1>1, <1>7 DEF InStep, Belief, m, s, d
    <3>2. CASE x = <<o.t, o.a>>
      <4>1. After(m, o, x) = [EntryAt(m, x) EXCEPT !.comment = o.v]
        BY <3>2 DEF After
      <4>2. EntryAt(m, x) \in Entry
        BY <1>4, EntryAtIsEntry
      <4>3. After(m, o, x).val = EntryAt(m, x).val
        <5> DEFINE f == EntryAt(m, x)
        <5> HIDE DEF f
        <5>1. [f EXCEPT !.comment = o.v].val = f.val
          BY <4>2 DEF Entry, f
        <5> QED BY <4>1, <5>1 DEF f
      <4> QED BY <1>5, <1>6, <3>1, <3>2, <4>3 DEF SameEntry, Values
    <3>3. CASE x # <<o.t, o.a>>
      <4>1. After(m, o, x) = EntryAt(m, x)
        BY <3>3 DEF After
      <4> QED BY <1>5, <3>1, <4>1
    <3> QED BY <3>2, <3>3
  <2>2. q.seen = s /\ q.cmds = a
    BY <1>2
  <2> HIDE DEF q
  <2> QED BY <2>1, <2>2 DEF InStep, Belief
<1>8. DOMAIN q.seen = DOMAIN p.seen \cup {}
  BY <1>1, <1>2
<1> QED BY <1>3, <1>7, <1>8 DEF Performed

\* Every edit keeps the picture true.
LEMMA PerformFacts ==
    ASSUME NEW tree \in Maps, NEW p \in Pictures, NEW o \in Edits(Word)
    PROVE  Performed(tree, p, KeysOf(o), Perform(p, o))
<1>1. CASE o.op = "new"
  <2>1. Perform(p, o) = DoNew(p, o) /\ KeysOf(o) = {<<o.t, o.a>>}
    BY <1>1 DEF Perform, KeysOf
  <2> QED BY <1>1, <2>1, NewPerformed
<1>2. CASE o.op \in {"set", "set_if_absent"}
  <2>1. Perform(p, o) = DoSet(p, o) /\ KeysOf(o) = {<<o.t, o.a>>}
    BY <1>2 DEF Perform, KeysOf
  <2> QED BY <1>2, <2>1, SetPerformed
<1>3. CASE o.op = "add"
  <2>1. Perform(p, o) = DoAdd(p, o) /\ KeysOf(o) = {<<o.t, o.a>>}
    BY <1>3 DEF Perform, KeysOf
  <2> QED BY <1>3, <2>1, AddPerformed
<1>4. CASE o.op = "comment"
  <2>1. Perform(p, o) = DoComment(p, o) /\ KeysOf(o) = {<<o.t, o.a>>}
    BY <1>4 DEF Perform, KeysOf
  <2> QED BY <1>4, <2>1, CommentPerformed
<1>5. CASE o.op = "rename"
  <2>1. Perform(p, o) = DoRename(p, o) /\ KeysOf(o) = {<<o.t, o.a>>, <<o.t, o.v>>}
    BY <1>5 DEF Perform, KeysOf
  <2> QED BY <1>5, <2>1, RenamePerformed
<1>6. CASE o.op = "note"
  <2>1. Perform(p, o) = Emit(p, o) /\ KeysOf(o) = {}
    BY <1>6 DEF Perform, KeysOf
  <2> QED BY <1>6, <2>1, NotePerformed
<1> QED BY <1>1, <1>2, <1>3, <1>4, <1>5, <1>6, EditParts

\* What a pass over the edits makes of a picture that has been true to begin with.
Passed(tree, seen, ops, p) ==
    /\ p \in Pictures
    /\ \A i \in 1 .. Len(ops) : KeysOf(ops[i]) \subseteq DOMAIN p.seen
    /\ (\A i \in 1 .. Len(ops) : KeysOf(ops[i]) \subseteq DOMAIN seen) /\ Belief(seen, tree)
       => InStep(tree, p)

\* The second pass, over all edits of the script.
LEMMA PassFacts ==
    ASSUME NEW tree \in Maps, NEW seen \in Maps, NEW ops \in Seq(Edits(Word))
    PROVE  Passed(tree, seen, ops, CreateCommands(seen, ops))
<1> DEFINE n == Len(ops)
           base == [seen |-> seen, cmds |-> <<>>]
           last == CreateCommands(seen, ops)
           H == (\A i \in 1 .. n : KeysOf(ops[i]) \subseteq DOMAIN seen) /\ Belief(seen, tree)
<1>1. n \in Nat /\ \A i \in 1 .. n : ops[i] \in Edits(Word)
  BY LenProperties, ElementOfSeq
<1>2. base \in Pictures /\ base.seen = seen /\ base.cmds = <<>>
  <2>1. <<>> \in Seq(Edits(Word))
    OBVIOUS
  <2> QED BY <2>1 DEF Pictures
<1>3. last = PerformFold!FoldValue(0, base, ops)
  BY DEF CreateCommands, FoldLeft, MapThenFoldSet, Max, PerformFold!FoldValue, PerformFold!Greatest
<1> HIDE DEF last, base
<1>4. \A v \in Pictures, x \in Edits(Word) : Perform(v, x) \in Pictures
  BY PerformFacts DEF Performed
<1>5. PerformFold!Trace(0, Pictures, base, ops)
  BY <1>2, <1>4, PerformFold!FoldTrace
<1>6. PICK t \in [0 .. n -> Pictures] : PerformFold!IsTrace(t, 0, base, ops)
  BY <1>5 DEF PerformFold!Trace
<1>7. t[0] = base /\ t[n] = last /\ \A i \in 1 .. n : t[i] = Perform(t[i - 1], ops[i])
  BY <1>3, <1>6 DEF PerformFold!IsTrace
<1> DEFINE P(j) == /\ \A i \in 1 .. j : KeysOf(ops[i]) \subseteq DOMAIN t[j].seen
                   /\ DOMAIN seen \subseteq DOMAIN t[j].seen
                   /\ H => InStep(tree, t[j])
           T == {j \in 0 .. n : P(j)}
<1>8. 0 \in T
  <2>1. H => InStep(tree, base)
    BY <1>2, OutcomeEmpty DEF InStep
  <2> QED BY <1>1, <1>2, <1>7, <2>1
<1>9. ASSUME NEW j \in 0 .. (n - 1), j \in T PROVE j + 1 \in T
  <2> DEFINE p == t[j]
             o == ops[j + 1]
             q == t[j + 1]
  <2>1. p \in Pictures /\ o \in Edits(Word) /\ q = Perform(p, o) /\ j + 1 \in 1 .. n /\ j \in Nat
    <3>1. j \in 0 .. n /\ j + 1 \in 1 .. n /\ (j + 1) - 1 = j /\ j \in Nat
      BY <1>1
    <3> QED BY <1>1, <1>7, <3>1
  <2>2. P(j)
    BY <1>9
  <2>3. Performed(tree, p, KeysOf(o), q)
    BY <2>1, PerformFacts
  <2> HIDE DEF H
  <2>4. DOMAIN q.seen = DOMAIN p.seen \cup KeysOf(o)
        /\ (KeysOf(o) \subseteq DOMAIN p.seen /\ InStep(tree, p) => InStep(tree, q))
    BY <2>3 DEF Performed
  <2>5. \A i \in 1 .. (j + 1) : KeysOf(ops[i]) \subseteq DOMAIN q.seen
    <3>1. \A i \in 1 .. (j + 1) : i = j + 1 \/ i \in 1 .. j
      BY <2>1
    <3> QED BY <2>2, <2>4, <3>1
  <2>6. H => KeysOf(o) \subseteq DOMAIN p.seen
    BY <2>1, <2>2 DEF H
  <2>7. P(j + 1)
    BY <2>2, <2>4, <2>5, <2>6
  <2>8. j + 1 \in 0 .. n
    BY <1>1, <2>1
  <2> QED BY <2>7, <2>8
<1>10. n \in T
  <2> HIDE DEF T
  <2>1. 0 .. n \subseteq T
    BY <1>1, <1>8, <1>9, PerformFold!UpTo
  <2> QED BY <1>1, <2>1
<1>11. last \in Pictures
  BY <1>1, <1>6, <1>7
<1> QED BY <1>7, <1>10, <1>11 DEF Passed, last

-----------------------------------------------------------------------------
(* buildozer, file by file *)

\* A command is about one target.
LEMMA AfterElsewhere ==
    ASSUME NEW m, NEW c, NEW k \in Places, k[1] # c.t
    PROVE  After(m, c, k) = EntryAt(m, k)
<1>1. k # <<c.t, c.a>> /\ k # <<c.t, c.v>>
  OBVIOUS
<1> QED BY <1>1 DEF After

\* What it makes of it depends on that target alone.
LEMMA AfterSame ==
    ASSUME NEW m, NEW n, NEW c, NEW k, EntryAt(m, k) = EntryAt(n, k),
           EntryAt(m, <<c.t, c.a>>) = EntryAt(n, <<c.t, c.a>>)
    PROVE  After(m, c, k) = After(n, c, k)
BY DEF After

Rewrites == [file : Maps, failed : BOOLEAN]

\* The commands before the i-th, file by file and one after the other.
LEMMA OutcomeTrace ==
    ASSUME NEW m \in Maps, NEW cmds \in Seq(Edits(Word))
    PROVE  \E t \in [0 .. Len(cmds) -> Maps] :
              /\ t[0] = m /\ t[Len(cmds)] = Outcome(m, cmds)
              /\ \A i \in 1 .. Len(cmds) : t[i] = Edit(t[i - 1], cmds[i])
<1>1. \A v \in Maps, x \in Edits(Word) : Edit(v, x) \in Maps
  BY EditFacts
<1>2. OutcomeFold!Trace(0, Maps, m, cmds)
  BY <1>1, OutcomeFold!FoldTrace
<1> QED BY <1>2 DEF OutcomeFold!Trace, OutcomeFold!IsTrace, Outcome

\* One command for the file of a package.
LEMMA EditOwnFacts ==
    ASSUME NEW pkg, NEW r \in Rewrites, NEW c \in Edits(Word)
    PROVE  /\ EditOwn(pkg, r, c) \in Rewrites
           /\ c.t[1] # pkg => EditOwn(pkg, r, c) = r
           /\ c.t[1] = pkg /\ ~EditOwn(pkg, r, c).failed => EditOwn(pkg, r, c).file = Edit(r.file, c)
           /\ EditOwn(pkg, r, c).file \in {r.file, Edit(r.file, c)}
           /\ r.failed => EditOwn(pkg, r, c).failed
<1> DEFINE f == r.file
           b == r.failed
           q == EditOwn(pkg, r, c)
<1>1. r = [file |-> f, failed |-> b] /\ f \in Maps /\ b \in BOOLEAN /\ Edit(f, c) \in Maps
  BY EditFacts DEF Rewrites
<1>2. CASE c.t[1] # pkg
  BY <1>2 DEF EditOwn
<1>3. CASE c.t[1] = pkg /\ Fails(f, c)
  <2>1. q = [r EXCEPT !.failed = TRUE]
    BY <1>3 DEF EditOwn
  <2> HIDE DEF f, b, q
  <2>2. q = [file |-> f, failed |-> TRUE]
    BY <1>1, <2>1
  <2>3. q \in Rewrites /\ q.failed /\ q.file = f
    BY <1>1, <2>2 DEF Rewrites
  <2> QED BY <1>3, <2>3, <2>2 DEF f, b, q
<1>4. CASE c.t[1] = pkg /\ ~Fails(f, c)
  <2>1. q = [r EXCEPT !.file = Edit(f, c)]
    BY <1>4 DEF EditOwn
  <2> DEFINE g == Edit(f, c)
  <2> HIDE DEF f, b, q, g
  <2>2. q = [file |-> g, failed |-> b]
    BY <1>1, <2>1 DEF g
  <2>3. q \in Rewrites /\ q.failed = b /\ q.file = g
    BY <1>1, <2>2 DEF Rewrites, g
  <2> QED BY <1>4, <2>2, <2>3 DEF f, b, q, g
<1> QED BY <1>2, <1>3, <1>4

\* Without an error the new file of a package has what all commands make of its places.
LEMMA RewriteFacts ==
    ASSUME NEW m \in Maps, NEW cmds \in Seq(Edits(Word)), NEW pkg
    PROVE  LET r == Rewrite(m, cmds, pkg) IN
           /\ r \in Rewrites
           /\ ~r.failed => \A k \in Places : k[1][1] = pkg =>
                              EntryAt(r.file, k) = EntryAt(Outcome(m, cmds), k)
<1> DEFINE n == Len(cmds)
           base == [file |-> m, failed |-> FALSE]
           last == FoldLeft(LAMBDA q, c : EditOwn(pkg, q, c), base, cmds)
           r == Rewrite(m, cmds, pkg)
<1>1. n \in Nat /\ \A i \in 1 .. n : cmds[i] \in Edits(Word)
  BY LenProperties, ElementOfSeq
<1>2. base \in Rewrites /\ base.file = m
  BY DEF Rewrites
<1>3. last = RewriteFold!FoldValue(pkg, base, cmds)
  BY DEF FoldLeft, MapThenFoldSet, Max, RewriteFold!FoldValue, RewriteFold!Greatest
<1>4. \A v \in Rewrites, x \in Edits(Word) : EditOwn(pkg, v, x) \in Rewrites
  BY EditOwnFacts
<1>5. r = IF last.failed /\ ~keepGoing THEN [file |-> m, failed |-> TRUE] ELSE last
  BY DEF Rewrite
<1> HIDE DEF last, base, r
<1>6. RewriteFold!Trace(pkg, Rewrites, base, cmds)
  BY <1>2, <1>4, RewriteFold!FoldTrace
<1>7. PICK t \in [0 .. n -> Rewrites] : RewriteFold!IsTrace(t, pkg, base, cmds)
  BY <1>6 DEF RewriteFold!Trace
<1>8. t[0] = base /\ t[n] = last /\ \A i \in 1 .. n : t[i] = EditOwn(pkg, t[i - 1], cmds[i])
  BY <1>3, <1>7 DEF RewriteFold!IsTrace
<1>9. PICK e \in [0 .. n -> Maps] :
            e[0] = m /\ e[n] = Outcome(m, cmds) /\ \A i \in 1 .. n : e[i] = Edit(e[i - 1], cmds[i])
  BY OutcomeTrace
<1> DEFINE P(j) == ~t[j].failed => \A k \in Places : k[1][1] = pkg => EntryAt(t[j].file, k) = EntryAt(e[j], k)
           T == {j \in 0 .. n : P(j)}
<1>10. 0 \in T
  BY <1>1, <1>2, <1>8, <1>9
<1>11. ASSUME NEW j \in 0 .. (n - 1), j \in T PROVE j + 1 \in T
  <2> DEFINE a == t[j]
             b == t[j + 1]
             c == cmds[j + 1]
             f == e[j]
             g == e[j + 1]
  <2>1. /\ a \in Rewrites /\ b = EditOwn(pkg, a, c) /\ f \in Maps /\ g = Edit(f, c)
        /\ c \in Edits(Word) /\ j + 1 \in 0 .. n
    <3>1. j \in 0 .. n /\ j + 1 \in 1 .. n /\ (j + 1) - 1 = j /\ j + 1 \in 0 .. n
      BY <1>1
    <3> QED BY <1>1, <1>7, <1>8, <1>9, <3>1
  <2>2. P(j)
    BY <1>11
  <2> HIDE DEF a, b, c, f, g
  <2>3. /\ c.t[1] # pkg => b = a
        /\ c.t[1] = pkg /\ ~b.failed => b.file = Edit(a.file, c)
        /\ a.failed => b.failed
    BY <2>1, EditOwnFacts
  <2>4. ~a.failed => \A k \in Places : k[1][1] = pkg => EntryAt(a.file, k) = EntryAt(f, k)
    BY <2>2 DEF a, f
  <2>5. a.file \in Maps /\ \A k : EntryAt(g, k) = After(f, c, k)
    BY <2>1, EditFacts DEF Rewrites
  <2>6. ASSUME ~b.failed, NEW k \in Places, k[1][1] = pkg PROVE EntryAt(b.file, k) = EntryAt(g, k)
    <3>1. EntryAt(a.file, k) = EntryAt(f, k)
      BY <2>3, <2>4, <2>6
    <3>2. CASE c.t[1] # pkg
      <4>1. After(f, c, k) = EntryAt(f, k)
        BY <2>6, <3>2, AfterElsewhere
      <4> QED BY <2>3, <2>5, <3>1, <3>2, <4>1
    <3>3. CASE c.t[1] = pkg
      <4> DEFINE here == <<c.t, c.a>>
      <4>1. here \in Places /\ here[1][1] = pkg
        BY <2>1, <3>3, EditParts
      <4> HIDE DEF here
      <4>2. EntryAt(a.file, here) = EntryAt(f, here)
        BY <2>3, <2>4, <2>6, <4>1
      <4>3. After(a.file, c, k) = After(f, c, k)
        BY <3>1, <4>2, AfterSame DEF here
      <4>4. EntryAt(Edit(a.file, c), k) = After(a.file, c, k)
        BY <2>1, <2>5, EditFacts
      <4> QED BY <2>3, <2>5, <2>6, <3>3, <4>3, <4>4
    <3> QED BY <3>2, <3>3
  <2>7. P(j + 1)
    BY <2>6 DEF b, g
  <2> QED BY <2>1, <2>7
<1>12. n \in T
  <2> HIDE DEF T
  <2>1. 0 .. n \subseteq T
    BY <1>1, <1>10, <1>11, RewriteFold!UpTo
  <2> QED BY <1>1, <2>1
<1>13. last \in Rewrites
  BY <1>1, <1>7, <1>8
<1>14. r \in Rewrites
  BY <1>5, <1>13 DEF Rewrites
<1>15. ASSUME ~r.failed, NEW k \in Places, k[1][1] = pkg
       PROVE  EntryAt(r.file, k) = EntryAt(Outcome(m, cmds), k)
  <2>1. r = last
    BY <1>5, <1>15
  <2> QED BY <1>8, <1>9, <1>12, <1>15, <2>1
<1> QED BY <1>14, <1>15 DEF r

\* Commands for other packages leave a place as it is.
LEMMA OutcomeElsewhere ==
    ASSUME NEW m \in Maps, NEW cmds \in Seq(Edits(Word)), NEW k \in Places,
           \A i \in 1 .. Len(cmds) : cmds[i].t[1] # k[1][1]
    PROVE  EntryAt(Outcome(m, cmds), k) = EntryAt(m, k)
<1> DEFINE n == Len(cmds)
<1>1. n \in Nat /\ \A i \in 1 .. n : cmds[i] \in Edits(Word)
  BY LenProperties, ElementOfSeq
<1>2. PICK e \in [0 .. n -> Maps] :
            e[0] = m /\ e[n] = Outcome(m, cmds) /\ \A i \in 1 .. n : e[i] = Edit(e[i - 1], cmds[i])
  BY OutcomeTrace
<1> DEFINE T == {j \in 0 .. n : EntryAt(e[j], k) = EntryAt(m, k)}
<1>3. 0 \in T
  BY <1>1, <1>2
<1>4. ASSUME NEW j \in 0 .. (n - 1), j \in T PROVE j + 1 \in T
  <2>1. j \in 0 .. n /\ j + 1 \in 1 .. n /\ (j + 1) - 1 = j /\ j + 1 \in 0 .. n
    BY <1>1
  <2>2. e[j] \in Maps /\ cmds[j + 1] \in Edits(Word) /\ e[j + 1] = Edit(e[j], cmds[j + 1])
    BY <1>1, <1>2, <2>1
  <2>3. EntryAt(e[j + 1], k) = After(e[j], cmds[j + 1], k)
    BY <2>2, EditFacts
  <2>4. k[1] # cmds[j + 1].t
    BY <2>1
  <2>5. After(e[j], cmds[j + 1], k) = EntryAt(e[j], k)
    BY <2>4, AfterElsewhere
  <2> QED BY <1>4, <2>1, <2>3, <2>5
<1>5. n \in T
  <2> HIDE DEF T
  <2>1. 0 .. n \subseteq T
    BY <1>1, <1>3, <1>4, OutcomeFold!UpTo
  <2> QED BY <1>1, <2>1
<1> QED BY <1>2, <1>5

\* The packages that commands are for.
PackagesOf(cmds) == {cmds[i].t[1] : i \in DOMAIN cmds}

\* The file of each place comes from the commands for its package.
LEMMA RunFacts ==
    ASSUME NEW m \in Maps, NEW cmds \in Seq(Edits(Word))
    PROVE  LET r == RunBuildozerOn(m, cmds) IN
           /\ r.file \in Maps
           /\ \A k \in Places :
                 EntryAt(r.file, k) =
                    EntryAt(IF k[1][1] \in PackagesOf(cmds) THEN Rewrite(m, cmds, k[1][1]).file ELSE m, k)
           /\ ~r.failed => \A k \in Places : EntryAt(r.file, k) = EntryAt(Outcome(m, cmds), k)
<1> DEFINE pkgs == PackagesOf(cmds)
           new == [pkg \in pkgs |-> Rewrite(m, cmds, pkg)]
           FileOf(pkg) == IF pkg \in DOMAIN new THEN new[pkg].file ELSE m
           D == DOMAIN m \cup UNION {DOMAIN new[pkg].file : pkg \in DOMAIN new}
           w == [k \in D |-> EntryAt(FileOf(k[1][1]), k)]
           r == RunBuildozerOn(m, cmds)
<1>1. r.file = w /\ r.failed = \E pkg \in DOMAIN new : new[pkg].failed
  BY DEF RunBuildozerOn, PackagesOf
<1>2. DOMAIN new = pkgs /\ \A pkg \in pkgs : new[pkg] = Rewrite(m, cmds, pkg)
  OBVIOUS
<1> HIDE DEF pkgs, new, r
<1>3. \A pkg \in pkgs :
         /\ new[pkg] \in Rewrites
         /\ ~new[pkg].failed => \A k \in Places : k[1][1] = pkg =>
                                   EntryAt(new[pkg].file, k) = EntryAt(Outcome(m, cmds), k)
  BY <1>2, RewriteFacts
<1>4. \A pkg : FileOf(pkg) \in Maps
  BY <1>2, <1>3 DEF Rewrites
<1>5. D \in SUBSET Places
  <2>1. DOMAIN m \in SUBSET Places
    BY MapsAre
  <2>2. \A pkg \in pkgs : DOMAIN new[pkg].file \in SUBSET Places
    BY <1>3, MapsAre DEF Rewrites
  <2> QED BY <1>2, <2>1, <2>2
<1>6. \A pkg, k : k \notin D => EntryAt(FileOf(pkg), k) = NoEntry
  BY DEF EntryAt
<1> HIDE DEF D
<1>7. \A k \in D : EntryAt(FileOf(k[1][1]), k) \in Entry
  <2> HIDE DEF FileOf
  <2> QED BY <1>4, EntryAtIsEntry
<1>8. DOMAIN w = D /\ w = [k \in DOMAIN w |-> w[k]] /\ \A k \in D : w[k] = EntryAt(FileOf(k[1][1]), k)
  OBVIOUS
<1> HIDE DEF w
<1>9. w \in Maps
  <2> HIDE DEF FileOf
  <2>1. \A k \in DOMAIN w : w[k] \in Entry
    BY <1>7, <1>8
  <2> QED BY <1>5, <1>8, <2>1, MapsAre
<1>10. \A k : EntryAt(w, k) = EntryAt(FileOf(k[1][1]), k)
  <2> HIDE DEF FileOf
  <2>1. \A k : EntryAt(w, k) = IF k \in D THEN w[k] ELSE NoEntry
    BY <1>8 DEF EntryAt
  <2> QED BY <1>6, <1>8, <2>1
<1>11. ASSUME ~r.failed, NEW k \in Places PROVE EntryAt(w, k) = EntryAt(Outcome(m, cmds), k)
  <2>1. CASE k[1][1] \in pkgs
    <3>1. ~new[k[1][1]].failed /\ FileOf(k[1][1]) = new[k[1][1]].file
      BY <1>1, <1>2, <1>11, <2>1
    <3>2. EntryAt(new[k[1][1]].file, k) = EntryAt(Outcome(m, cmds), k)
      BY <1>3, <2>1, <3>1
    <3> QED BY <1>10, <3>1, <3>2
  <2>2. CASE k[1][1] \notin pkgs
    <3>1. \A i \in 1 .. Len(cmds) : cmds[i].t[1] # k[1][1]
      BY <2>2, LenProperties DEF pkgs, PackagesOf
    <3>2. EntryAt(Outcome(m, cmds), k) = EntryAt(m, k)
      BY <3>1, OutcomeElsewhere
    <3>3. FileOf(k[1][1]) = m
      BY <1>2, <2>2
    <3> QED BY <1>10, <3>2, <3>3
  <2> QED BY <2>1, <2>2
<1>12. \A k \in Places : EntryAt(w, k) = EntryAt(IF k[1][1] \in pkgs THEN Rewrite(m, cmds, k[1][1]).file ELSE m, k)
  BY <1>2, <1>10
<1> QED BY <1>1, <1>9, <1>11, <1>12 DEF r, pkgs

-----------------------------------------------------------------------------
(* The run *)

\* The script's edits and the BUILD files it may meet are of these types.
LEMMA RequestFacts ==
    ASSUME NEW tool \in Tool, NEW r \in Request(tool)
    PROVE  r \in Requests /\ r.ops \in Seq(Edits(Word)) /\ OldFile(r) \subseteq Maps
<1>1. r \in Requests
  BY DEF Requests
<1>2. r.ops \in Seq(Edits(Word))
  <2> DEFINE ops == r.ops
             n == Len(ops)
  <2>1. n \in Nat /\ ops = [i \in 1 .. n |-> ops[i]] /\ \A i \in DOMAIN ops : ops[i] \in Edits({ops[i].v})
    BY BuildozerAssumption DEF IsSeq
  <2>2. \A i \in DOMAIN ops : ops[i].v \in Word
    <3>1. \A i \in DOMAIN ops : ops[i].v \in EditWords(r)
      BY DEF EditWords
    <3>2. WordsOf(r) \subseteq Word
      BY <1>1 DEF Word
    <3> QED BY <3>1, <3>2 DEF WordsOf
  <2> HIDE DEF ops, n
  <2>3. DOMAIN ops = 1 .. n
    BY <2>1
  <2>4. \A i \in 1 .. n : ops[i] \in Edits(Word)
    BY <2>1, <2>2, <2>3, EditsGrow
  <2>5. ops \in [1 .. n -> Edits(Word)]
    BY <2>1, <2>4
  <2>6. ops \in Seq(Edits(Word))
    BY <2>1, <2>5, SeqDef
  <2> QED BY <2>6 DEF ops
<1>3. ASSUME NEW m \in OldFile(r) PROVE m \in Maps
  <2>1. m = [k \in DOMAIN m |-> m[k]] /\ \A k \in DOMAIN m : k \in Targets \X Names /\ IsEntry(m[k])
    BY BuildozerAssumption
  <2>2. ASSUME NEW k \in DOMAIN m PROVE k \in Places /\ m[k] \in Entry
    <3> DEFINE e == m[k]
               s == e.val
               n == Len(s)
    <3>1. e = [val |-> s, comment |-> e.comment] /\ n \in Nat /\ s = [i \in 1 .. n |-> s[i]]
      BY <2>1 DEF IsEntry, IsSeq
    <3>2. {e.comment} \cup ToSet(s) \subseteq Word
      <4>1. EntryWords(e) \subseteq FileWords(r)
        BY DEF FileWords
      <4>2. WordsOf(r) \subseteq Word
        BY <1>1 DEF Word
      <4> QED BY <4>1, <4>2 DEF EntryWords, WordsOf
    <3> HIDE DEF e, s, n
    <3>3. DOMAIN s = 1 .. n
      BY <3>1
    <3>4. \A i \in 1 .. n : s[i] \in Word
      BY <3>2, <3>3 DEF ToSet
    <3>5. s \in [1 .. n -> Word]
      BY <3>1, <3>4
    <3>6. s \in Seq(Word)
      BY <3>1, <3>5, SeqDef
    <3>7. e \in Entry
      BY SMTT(20), <3>1, <3>2, <3>6 DEF Entry
    <3> QED BY <2>1, <3>7 DEF Places, e
  <2>3. DOMAIN m \in SUBSET Places
    BY <2>2
  <2> QED BY <2>1, <2>2, <2>3, MapsAre
<1> QED BY <1>1, <1>2, <1>3

BzTypeOK ==
    /\ request.ops \in Seq(Edits(Word))
    /\ buildFile \in Maps /\ existing \in Maps /\ commands \in Seq(Edits(Word))

\* The dry pass has learned of every place the edits are about.
KeysKnown ==
    bzAt \in {"dry", "queried"} =>
        \A i \in 1 .. Len(request.ops) : KeysOf(request.ops[i]) \subseteq DOMAIN existing

QueriedOK ==
    bzAt = "queried" => \A k \in DOMAIN existing : existing[k] = EntryAt(buildFile, k)

WrittenOK == bzAt = "written" => Belief(existing, Outcome(buildFile, commands))

DoneOK == bzAt = "done" => Belief(existing, buildFile)

BzInv == BzTypeOK /\ KeysKnown /\ QueriedOK /\ WrittenOK /\ DoneOK

\* A picture of no places.
LEMMA NoMapFacts == NoMap \in Maps /\ DOMAIN NoMap = {} /\ \A m : Belief(NoMap, m)
<1>1. NoMap = [k \in DOMAIN NoMap |-> NoMap[k]] /\ DOMAIN NoMap = {}
  BY DEF NoMap
<1>2. NoMap \in Maps
  BY <1>1, MapsAre
<1> QED BY <1>1, <1>2 DEF Belief

\* At first there is no picture.
LEMMA BzInvInit == BzInit => BzInv
<1> SUFFICES ASSUME BzInit PROVE BzInv
    OBVIOUS
<1>1. PICK tool \in Tool : request \in Request(tool)
  BY DEF BzInit
<1>2. <<>> \in Seq(Edits(Word))
  OBVIOUS
<1>3. BzTypeOK
  BY <1>1, <1>2, RequestFacts, NoMapFacts DEF BzInit, BzTypeOK
<1> QED BY <1>3 DEF BzInit, BzInv, KeysKnown, QueriedOK, WrittenOK, DoneOK

\* The first pass learns of all places.
LEMMA DryRunKeeps == BzInv /\ DryRun => BzInv'
<1> SUFFICES ASSUME BzInv, DryRun PROVE BzInv'
    OBVIOUS
<1>1. BzTypeOK /\ UNCHANGED <<request, keepGoing, buildFile, commands, edited>>
  BY DEF BzInv, DryRun
<1>2. CASE Dies
  <2>1. bzAt' = "raised" /\ UNCHANGED existing
    BY <1>2 DEF DryRun
  <2> QED BY <1>1, <2>1 DEF BzInv, BzTypeOK, KeysKnown, QueriedOK, WrittenOK, DoneOK
<1>3. CASE ~Dies
  <2> DEFINE p == CreateCommands(NoMap, request.ops)
  <2>1. bzAt' = "dry" /\ existing' = p.seen
    BY <1>3 DEF DryRun
  <2>2. Passed(buildFile, NoMap, request.ops, p)
    BY <1>1, NoMapFacts, PassFacts DEF BzTypeOK
  <2> HIDE DEF p
  <2>3. p.seen \in Maps /\ \A i \in 1 .. Len(request.ops) : KeysOf(request.ops[i]) \subseteq DOMAIN p.seen
    BY <2>2 DEF Passed, Pictures
  <2> QED BY <1>1, <2>1, <2>3 DEF BzInv, BzTypeOK, KeysKnown, QueriedOK, WrittenOK, DoneOK
<1> QED BY <1>2, <1>3

\* Asking buildozer makes the picture true.
LEMMA GetAllInfoKeeps == BzInv /\ GetAllInfo => BzInv'
<1> SUFFICES ASSUME BzInv, GetAllInfo PROVE BzInv'
    OBVIOUS
<1> DEFINE D == DOMAIN existing
           w == [k \in D |-> EntryAt(buildFile, k)]
<1>1. /\ bzAt = "dry" /\ bzAt' = "queried" /\ existing' = w
      /\ UNCHANGED <<request, keepGoing, buildFile, packages, commands, bzRuns, edited>>
  BY DEF GetAllInfo
<1>2. BzTypeOK /\ \A i \in 1 .. Len(request.ops) : KeysOf(request.ops[i]) \subseteq D
  BY <1>1 DEF BzInv, KeysKnown
<1>3. D \in SUBSET Places
  BY <1>2, MapsAre DEF BzTypeOK
<1> HIDE DEF D
<1>4. DOMAIN w = D /\ w = [k \in DOMAIN w |-> w[k]] /\ \A k \in D : w[k] = EntryAt(buildFile, k)
  OBVIOUS
<1>5. \A k \in D : EntryAt(buildFile, k) \in Entry
  BY <1>2, EntryAtIsEntry DEF BzTypeOK
<1> HIDE DEF w
<1>6. w \in Maps
  BY <1>3, <1>4, <1>5, MapsAre
<1> QED BY <1>1, <1>2, <1>4, <1>6 DEF BzInv, BzTypeOK, KeysKnown, QueriedOK, WrittenOK, DoneOK

\* Performing the edits keeps it true of what the commands will make.
LEMMA WriteCommandsKeeps == BzInv /\ WriteCommands => BzInv'
<1> SUFFICES ASSUME BzInv, WriteCommands PROVE BzInv'
    OBVIOUS
<1> DEFINE p == CreateCommands(existing, request.ops)
<1>1. /\ bzAt = "queried" /\ bzAt' = "written" /\ existing' = p.seen /\ commands' = p.cmds
      /\ UNCHANGED <<request, keepGoing, buildFile, packages, bzRuns, edited>>
  BY DEF WriteCommands
<1>2. /\ BzTypeOK /\ \A i \in 1 .. Len(request.ops) : KeysOf(request.ops[i]) \subseteq DOMAIN existing
      /\ \A k \in DOMAIN existing : existing[k] = EntryAt(buildFile, k)
  BY <1>1 DEF BzInv, KeysKnown, QueriedOK
<1>3. Passed(buildFile, existing, request.ops, p)
  BY <1>2, PassFacts DEF BzTypeOK
<1>4. Belief(existing, buildFile)
  BY <1>2 DEF Belief, SameEntry, EntryAt
<1> HIDE DEF p
<1>5. p.seen \in Maps /\ p.cmds \in Seq(Edits(Word)) /\ Belief(p.seen, Outcome(buildFile, p.cmds))
  BY <1>2, <1>3, <1>4 DEF Passed, Pictures, InStep
<1> QED BY <1>1, <1>2, <1>5 DEF BzInv, BzTypeOK, KeysKnown, QueriedOK, WrittenOK, DoneOK

\* Running buildozer makes that the file.
LEMMA RunBuildozerKeeps == BzInv /\ RunBuildozer => BzInv'
<1> SUFFICES ASSUME BzInv, RunBuildozer PROVE BzInv'
    OBVIOUS
<1> DEFINE r == RunBuildozerOn(buildFile, commands)
<1>1. /\ bzAt = "written" /\ buildFile' = r.file /\ bzAt' = (IF r.failed THEN "raised" ELSE "done")
      /\ UNCHANGED <<request, keepGoing, packages, existing, commands, bzRuns, edited>>
  BY DEF RunBuildozer
<1>2. BzTypeOK /\ Belief(existing, Outcome(buildFile, commands))
  BY <1>1 DEF BzInv, WrittenOK
<1>3. /\ r.file \in Maps
      /\ ~r.failed => \A k \in Places : EntryAt(r.file, k) = EntryAt(Outcome(buildFile, commands), k)
  BY <1>2, RunFacts DEF BzTypeOK
<1> HIDE DEF r
<1>4. ~r.failed => Belief(existing, r.file)
  <2>1. DOMAIN existing \in SUBSET Places
    BY <1>2, MapsAre DEF BzTypeOK
  <2> QED BY <1>2, <1>3, <2>1 DEF Belief
<1> QED BY <1>1, <1>2, <1>3, <1>4 DEF BzInv, BzTypeOK, KeysKnown, QueriedOK, WrittenOK, DoneOK

\* The user edits between two runs, when there is no picture.
LEMMA UserEditsKeeps == BzInv /\ UserEdits => BzInv'
<1> SUFFICES ASSUME BzInv, UserEdits PROVE BzInv'
    OBVIOUS
<1>1. PICK k \in DOMAIN buildFile : buildFile' = [buildFile EXCEPT ![k] = [val |-> <<"user">>, comment |-> ""]]
  BY DEF UserEdits
<1>2. bzAt' = "idle" /\ UNCHANGED <<request, keepGoing, packages, existing, commands, bzRuns>>
  BY DEF UserEdits
<1>3. BzTypeOK
  BY DEF BzInv
<1> DEFINE u == [val |-> <<"user">>, comment |-> ""]
<1>4. u \in Entry
  <2>1. "user" \in Word /\ "" \in Word
    BY DEF Word
  <2>2. \A w \in Word : <<w>> \in Seq(Word)
    OBVIOUS
  <2> QED BY <2>1, <2>2 DEF Entry
<1> HIDE DEF u
<1>5. buildFile' \in Maps
  <2>1. buildFile = [x \in DOMAIN buildFile |-> buildFile[x]] /\ DOMAIN buildFile \in SUBSET Places
        /\ \A x \in DOMAIN buildFile : buildFile[x] \in Entry
    BY <1>3, MapsAre DEF BzTypeOK
  <2> DEFINE w == buildFile'
  <2>2. w = [buildFile EXCEPT ![k] = u]
    BY <1>1 DEF u
  <2> HIDE DEF w
  <2>3. DOMAIN w = DOMAIN buildFile /\ w = [x \in DOMAIN w |-> w[x]] /\ \A x \in DOMAIN w : w[x] \in Entry
    BY <1>4, <2>1, <2>2
  <2>4. w \in Maps
    BY <2>1, <2>3, MapsAre
  <2> QED BY <2>4 DEF w
<1> QED BY <1>2, <1>3, <1>5 DEF BzInv, BzTypeOK, KeysKnown, QueriedOK, WrittenOK, DoneOK

\* Every step keeps the invariant.
LEMMA BzInvStep == BzInv /\ [BzNext]_bzVars => BzInv'
<1>1. BzInv /\ UNCHANGED bzVars => BzInv'
  BY DEF bzVars, BzInv, BzTypeOK, KeysKnown, QueriedOK, WrittenOK, DoneOK
<1> QED BY <1>1, DryRunKeeps, GetAllInfoKeeps, WriteCommandsKeeps, RunBuildozerKeeps, UserEditsKeeps DEF BzNext

\* After a run without an error the picture is the BUILD files.
THEOREM PictureIsTrue == BzSpec => []BeliefIsTrue
<1>1. BzInv => BeliefIsTrue
  <2> SUFFICES ASSUME BzInv, bzAt = "done", NEW k \in DOMAIN existing
               PROVE  /\ Values(existing[k]) = Values(EntryAt(buildFile, k))
                      /\ k[2] # "kind" => existing[k].comment = EntryAt(buildFile, k).comment
      BY DEF BeliefIsTrue
  <2>1. SameEntry(k, EntryAt(existing, k), EntryAt(buildFile, k)) /\ EntryAt(existing, k) = existing[k]
    BY DEF BzInv, DoneOK, Belief, EntryAt
  <2> QED BY <2>1 DEF SameEntry
<1> QED BY <1>1, BzInvInit, BzInvStep, PTL DEF BzSpec

-----------------------------------------------------------------------------
(* What the user has written *)

\* What a script does with renames.
Orderly(ops) ==
    \A o \in Renames(ops) :
        /\ \A other \in Renames(ops) : To(o) # From(other)
        /\ \A i \in 1 .. Len(ops) : From(ops[i]) = From(o) => \E j \in i .. Len(ops) : ops[j] = o

\* The commands that the builder may write for an edit.
CommandsOf(o) ==
    {c \in Edits(Word) : /\ From(c) = From(o)
                         /\ c.op = "set" => c.a = "kind" \/ o.op = "set"
                         /\ "rename" \in {c.op, o.op} => c = o}

\* To the commands d those for an edit have been added.
Extends(d, e, o) ==
    /\ e \in Seq(Edits(Word)) /\ Len(d) <= Len(e)
    /\ \A i \in 1 .. Len(d) : e[i] = d[i]
    /\ \A i \in (Len(d) + 1) .. Len(e) : e[i] \in CommandsOf(o)
    /\ o.op = "rename" => Len(e) = Len(d) + 1

\* An edit need not write a command.
LEMMA NothingWritten ==
    ASSUME NEW d \in Seq(Edits(Word)), NEW o, o.op # "rename"
    PROVE  Extends(d, d, o)
<1>1. Len(d) \in Nat
  BY LenProperties
<1> QED BY <1>1 DEF Extends

\* It may write one.
LEMMA OneWritten ==
    ASSUME NEW d \in Seq(Edits(Word)), NEW o, NEW c \in CommandsOf(o)
    PROVE  Extends(d, Append(d, c), o)
<1> DEFINE e == Append(d, c)
<1>1. c \in Edits(Word)
  BY DEF CommandsOf
<1>2. /\ e \in Seq(Edits(Word)) /\ Len(d) \in Nat /\ Len(e) = Len(d) + 1 /\ e[Len(d) + 1] = c
      /\ \A i \in 1 .. Len(d) : e[i] = d[i]
  BY <1>1, Longer
<1> HIDE DEF e
<1> QED BY <1>2 DEF Extends, e

\* Or two.
LEMMA TwoWritten ==
    ASSUME NEW d \in Seq(Edits(Word)), NEW o, o.op # "rename", NEW b \in CommandsOf(o), NEW c \in CommandsOf(o)
    PROVE  Extends(d, Append(Append(d, b), c), o)
<1> DEFINE e == Append(d, b)
           f == Append(e, c)
<1>1. b \in Edits(Word) /\ c \in Edits(Word)
  BY DEF CommandsOf
<1>2. /\ e \in Seq(Edits(Word)) /\ Len(d) \in Nat /\ Len(e) = Len(d) + 1 /\ e[Len(d) + 1] = b
      /\ \A i \in 1 .. Len(d) : e[i] = d[i]
  BY <1>1, Longer
<1> HIDE DEF e
<1>3. /\ f \in Seq(Edits(Word)) /\ Len(f) = Len(e) + 1 /\ f[Len(e) + 1] = c
      /\ \A i \in 1 .. Len(e) : f[i] = e[i]
  BY <1>1, <1>2, Longer
<1> HIDE DEF f
<1>4. \A i \in 1 .. Len(d) : i \in 1 .. Len(e)
  BY <1>2
<1>5. \A i \in (Len(d) + 1) .. Len(f) : i = Len(d) + 1 \/ i = Len(e) + 1
  BY <1>2, <1>3
<1>6. f[Len(d) + 1] = b
  BY <1>2, <1>3
<1>7. Len(d) <= Len(f)
  BY <1>2, <1>3
<1> QED BY <1>2, <1>3, <1>4, <1>5, <1>6, <1>7 DEF Extends, e, f

\* Commands that are the edit, or a Set or SetIfAbsent in its place.
LEMMA Commands ==
    ASSUME NEW o \in Edits(Word)
    PROVE  /\ o \in CommandsOf(o)
           /\ o.op = "new" => Set(o.t, "kind", o.v) \in CommandsOf(o)
           /\ o.op = "comment" => SetIfAbsent(o.t, o.a, None) \in CommandsOf(o)
<1>1. o.op = "new" => o.a = "kind" /\ o.t \in Targets /\ o.v \in Word
  BY EditParts
<1>2. o.op = "comment" => o.a \in Names /\ o.t \in Targets
  BY EditParts
<1>3. "kind" \in Names /\ None \in Word
  BY DEF Names, Word
<1>4. o.op = "new" => Set(o.t, "kind", o.v) \in CommandsOf(o)
  <2> SUFFICES ASSUME o.op = "new" PROVE Set(o.t, "kind", o.v) \in CommandsOf(o)
    OBVIOUS
  <2> DEFINE c == Set(o.t, "kind", o.v)
  <2>1. c \in Edits(Word)
    BY <1>1, <1>3, MadeEdits
  <2>2. c.op = "set" /\ c.t = o.t /\ c.a = "kind"
    BY DEF Set
  <2> HIDE DEF c
  <2>3. c \in CommandsOf(o)
    BY <1>1, <2>1, <2>2 DEF CommandsOf, From
  <2> QED BY <2>3 DEF c
<1>5. o.op = "comment" => SetIfAbsent(o.t, o.a, None) \in CommandsOf(o)
  <2> SUFFICES ASSUME o.op = "comment" PROVE SetIfAbsent(o.t, o.a, None) \in CommandsOf(o)
    OBVIOUS
  <2> DEFINE c == SetIfAbsent(o.t, o.a, None)
  <2>1. c \in Edits(Word)
    BY <1>2, <1>3, MadeEdits
  <2>2. c.op = "set_if_absent" /\ c.t = o.t /\ c.a = o.a
    BY DEF SetIfAbsent
  <2> HIDE DEF c
  <2>3. c \in CommandsOf(o)
    BY <2>1, <2>2 DEF CommandsOf, From
  <2> QED BY <2>3 DEF c
<1> QED BY <1>4, <1>5 DEF CommandsOf

\* A picture with the commands d.
HasCmds(x, d) == \E s : x = [seen |-> s, cmds |-> d]

\* Only what is emitted changes the commands.
LEMMA CmdsFacts ==
    ASSUME NEW x, NEW d, HasCmds(x, d), NEW c, NEW k, NEW e
    PROVE  x.cmds = d /\ HasCmds(Emit(x, c), Append(d, c)) /\ HasCmds(Believe(x, k, e), d)
<1>1. PICK s : x = [seen |-> s, cmds |-> d]
  BY DEF HasCmds
<1>2. Emit(x, c) = [seen |-> s, cmds |-> Append(d, c)]
  BY <1>1, EmitIs
<1>3. Believe(x, k, e) = [seen |-> With(s, k, e), cmds |-> d]
  BY <1>1, BelieveIs
<1> QED BY <1>1, <1>2, <1>3 DEF HasCmds

\* Setting, which comments do as well.
LEMMA SetWrites ==
    ASSUME NEW p, NEW d, HasCmds(p, d), NEW o
    PROVE  HasCmds(DoSet(p, o), Append(d, o))
<1> DEFINE x == Emit(p, o)
<1>1. HasCmds(x, Append(d, o))
  BY CmdsFacts
<1>2. \E e : DoSet(p, o) = Believe(x, <<o.t, o.a>>, e)
  BY DEF DoSet
<1> HIDE DEF x
<1> QED BY <1>1, <1>2, CmdsFacts

\* What performing an edit writes.
LEMMA PerformWrites ==
    ASSUME NEW p \in Pictures, NEW o \in Edits(Word)
    PROVE  Extends(p.cmds, Perform(p, o).cmds, o)
<1> DEFINE d == p.cmds
           q == Perform(p, o)
<1>1. d \in Seq(Edits(Word)) /\ HasCmds(p, d)
  BY DEF Pictures, HasCmds
<1> HIDE DEF d
<1>2. o \in CommandsOf(o)
  BY Commands
<1>3. Extends(d, Append(d, o), o)
  BY <1>1, <1>2, OneWritten
<1>4. CASE o.op = "new"
  <2> DEFINE s == Set(o.t, "kind", o.v)
  <2>1. \E k, e : q \in {p, Emit(Believe(p, k, e), o), Emit(Believe(p, k, e), s)}
    BY <1>4 DEF Perform, DoNew
  <2>2. s \in CommandsOf(o)
    BY <1>4, Commands
  <2> HIDE DEF s, q
  <2>3. PICK k, e : q \in {p, Emit(Believe(p, k, e), o), Emit(Believe(p, k, e), s)}
    BY <2>1
  <2> DEFINE x == Believe(p, k, e)
  <2>4. HasCmds(x, d)
    BY <1>1, CmdsFacts
  <2> HIDE DEF x
  <2>5. HasCmds(Emit(x, o), Append(d, o)) /\ HasCmds(Emit(x, s), Append(d, s))
    BY <2>4, CmdsFacts
  <2>6. q.cmds \in {d, Append(d, o), Append(d, s)}
    <3>1. Emit(x, o).cmds = Append(d, o)
      BY <2>5, CmdsFacts
    <3>2. Emit(x, s).cmds = Append(d, s)
      BY <2>5, CmdsFacts
    <3>3. q \in {p, Emit(x, o), Emit(x, s)}
      BY <2>3 DEF x
    <3> QED BY <3>1, <3>2, <3>3 DEF d
  <2>7. Extends(d, d, o) /\ Extends(d, Append(d, s), o)
    BY <1>1, <1>4, <2>2, NothingWritten, OneWritten
  <2>8. Extends(d, q.cmds, o)
    BY <1>3, <2>6, <2>7
  <2> QED BY <2>8 DEF d, q
<1>5. CASE o.op \in {"set", "set_if_absent"}
  <2>1. q = DoSet(p, o)
    BY <1>5 DEF Perform
  <2>2. q.cmds = Append(d, o)
    BY <1>1, <2>1, SetWrites, CmdsFacts
  <2> QED BY <1>3, <2>2 DEF d
<1>6. CASE o.op = "add"
  <2> DEFINE x == Emit(p, o)
  <2>1. \E k, e : q = Believe(x, k, e)
    BY <1>6 DEF Perform, DoAdd
  <2>2. HasCmds(x, Append(d, o))
    BY <1>1, CmdsFacts
  <2> HIDE DEF x, q
  <2>3. q.cmds = Append(d, o)
    <3>1. HasCmds(q, Append(d, o))
      BY <2>1, <2>2, CmdsFacts
    <3> QED BY <3>1, CmdsFacts
  <2> QED BY <1>3, <2>3 DEF d, q
<1>7. CASE o.op = "comment"
  <2> DEFINE s == SetIfAbsent(o.t, o.a, None)
             x == DoSet(p, s)
             a == Append(d, s)
  <2>1. s \in CommandsOf(o)
    BY <1>7, Commands
  <2>2. HasCmds(x, a)
    BY <1>1, SetWrites
  <2>3. q = x \/ \E k, e : q = Believe(Emit(x, o), k, e)
    BY <1>7 DEF Perform, DoComment
  <2> HIDE DEF s, x, a, q
  <2>4. q.cmds = a \/ q.cmds = Append(a, o)
    <3>1. CASE q = x
      BY <2>2, <3>1, CmdsFacts
    <3>2. ASSUME NEW k, NEW e, q = Believe(Emit(x, o), k, e) PROVE q.cmds = Append(a, o)
      <4> DEFINE y == Emit(x, o)
      <4>1. HasCmds(y, Append(a, o))
        BY <2>2, CmdsFacts
      <4> HIDE DEF y
      <4>2. HasCmds(Believe(y, k, e), Append(a, o))
        BY <4>1, CmdsFacts
      <4> QED BY <3>2, <4>2, CmdsFacts DEF y
    <3> QED BY <2>3, <3>1, <3>2
  <2>5. Extends(d, a, o) /\ Extends(d, Append(a, o), o)
    BY <1>1, <1>2, <1>7, <2>1, OneWritten, TwoWritten DEF a
  <2>6. Extends(d, q.cmds, o)
    BY <2>4, <2>5
  <2> QED BY <2>6 DEF d, q
<1>8. CASE o.op = "rename"
  <2> DEFINE x == Emit(p, o)
  <2>1. \E k, e, l, f : q = Believe(Believe(x, k, e), l, f)
    BY <1>8 DEF Perform, DoRename
  <2>2. HasCmds(x, Append(d, o))
    BY <1>1, CmdsFacts
  <2> HIDE DEF x, q
  <2>3. q.cmds = Append(d, o)
    <3>1. PICK k, e, l, f : q = Believe(Believe(x, k, e), l, f)
      BY <2>1
    <3> DEFINE y == Believe(x, k, e)
    <3>2. HasCmds(y, Append(d, o))
      BY <2>2, CmdsFacts
    <3> HIDE DEF y
    <3>3. HasCmds(Believe(y, l, f), Append(d, o))
      BY <3>2, CmdsFacts
    <3> QED BY <3>1, <3>3, CmdsFacts DEF y
  <2> QED BY <1>3, <2>3 DEF d, q
<1>9. CASE o.op = "note"
  <2>1. q = Emit(p, o)
    BY <1>9 DEF Perform
  <2>2. q.cmds = Append(d, o)
    <3>1. HasCmds(q, Append(d, o))
      BY <1>1, <2>1, CmdsFacts
    <3> QED BY <3>1, CmdsFacts
  <2> QED BY <1>3, <2>2 DEF d
<1> QED BY <1>4, <1>5, <1>6, <1>7, <1>8, <1>9, EditParts

\* The commands of a script: only what it sets is set, and only what it renames renamed,
\* after whatever else is done to it.
FromScript(c, ops) ==
    /\ c.op = "set" => c.a = "kind" \/ \E j \in 1 .. Len(ops) : ops[j].op = "set" /\ From(ops[j]) = From(c)
    /\ c.op = "rename" => c \in Renames(ops)

Follows(cmds, ops) ==
    \A i \in 1 .. Len(cmds) :
        /\ FromScript(cmds[i], ops)
        /\ \A o \in Renames(ops) : From(cmds[i]) = From(o) => \E j \in i .. Len(cmds) : cmds[j] = o

\* One edit more: an edit before it that has been renamed, or will be.
FollowsTo(cmds, ops, k) ==
    \A i \in 1 .. Len(cmds) :
        /\ FromScript(cmds[i], ops)
        /\ \A o \in Renames(ops) : From(cmds[i]) = From(o) =>
              \/ \E j \in i .. Len(cmds) : cmds[j] = o
              \/ \E j \in (k + 1) .. Len(ops) : ops[j] = o

\* Performing one edit keeps what was written for those before it.
LEMMA FollowsStep ==
    ASSUME NEW ops \in Seq(Edits(Word)), Orderly(ops), NEW k \in 0 .. (Len(ops) - 1),
           NEW d \in Seq(Edits(Word)), NEW e, Extends(d, e, ops[k + 1]), FollowsTo(d, ops, k)
    PROVE  FollowsTo(e, ops, k + 1)
<1> DEFINE n == Len(ops)
           o == ops[k + 1]
<1>1. /\ n \in Nat /\ k \in Nat /\ k + 1 \in 1 .. n /\ Len(d) \in Nat /\ Len(e) \in Nat
      /\ Len(d) <= Len(e) /\ e \in Seq(Edits(Word)) /\ o \in Edits(Word)
  <2>1. e \in Seq(Edits(Word)) /\ Len(d) <= Len(e)
    BY DEF Extends
  <2>2. n \in Nat /\ Len(d) \in Nat /\ Len(e) \in Nat
    BY <2>1, LenProperties
  <2>3. k \in Nat /\ k + 1 \in 1 .. n
    BY <2>2
  <2>4. o \in Edits(Word)
    BY <2>3, ElementOfSeq
  <2> QED BY <2>1, <2>2, <2>3, <2>4
<1>2. /\ \A i \in 1 .. Len(d) : e[i] = d[i]
      /\ \A i \in (Len(d) + 1) .. Len(e) : e[i] \in CommandsOf(o)
      /\ o.op = "rename" => Len(e) = Len(d) + 1
  BY DEF Extends
<1>3. o.op = "rename" <=> o \in Renames(ops)
  BY <1>1, LenProperties DEF Renames
<1>4. \A x \in Renames(ops) : x.op = "rename" /\ \E i \in 1 .. n : ops[i] = x
  BY LenProperties DEF Renames
<1>5. ASSUME o.op = "rename" PROVE Len(e) = Len(d) + 1 /\ e[Len(e)] = o
  <2>1. Len(e) = Len(d) + 1
    BY <1>2, <1>5
  <2>2. e[Len(e)] \in CommandsOf(o)
    BY <1>1, <1>2, <2>1
  <2> QED BY <1>5, <2>1, <2>2 DEF CommandsOf
<1> SUFFICES ASSUME NEW i \in 1 .. Len(e)
             PROVE  /\ FromScript(e[i], ops)
                    /\ \A x \in Renames(ops) : From(e[i]) = From(x) =>
                          \/ \E j \in i .. Len(e) : e[j] = x
                          \/ \E j \in ((k + 1) + 1) .. n : ops[j] = x
    BY <1>1 DEF FollowsTo
<1> HIDE DEF n, o
<1>6. CASE i \in 1 .. Len(d)
  <2>1. e[i] = d[i]
    BY <1>2, <1>6
  <2>2. FromScript(d[i], ops)
    BY <1>6 DEF FollowsTo
  <2>3. ASSUME NEW x \in Renames(ops), From(d[i]) = From(x)
        PROVE  \/ \E j \in i .. Len(e) : e[j] = x
               \/ \E j \in ((k + 1) + 1) .. n : ops[j] = x
    <3>1. \/ \E j \in i .. Len(d) : d[j] = x
          \/ \E j \in (k + 1) .. n : ops[j] = x
      BY <1>6, <2>3 DEF FollowsTo, n
    <3>2. ASSUME NEW j \in i .. Len(d), d[j] = x PROVE j \in i .. Len(e) /\ e[j] = x
      <4>1. j \in 1 .. Len(d) /\ j \in i .. Len(e)
        BY <1>1, <3>2
      <4> QED BY <1>2, <3>2, <4>1
    <3>3. ASSUME NEW j \in (k + 1) .. n, ops[j] = x, j = k + 1
          PROVE  Len(e) \in i .. Len(e) /\ e[Len(e)] = x
      <4>1. o = x /\ o.op = "rename"
        BY <1>4, <3>3 DEF o
      <4> QED BY <1>1, <1>5, <4>1
    <3>4. ASSUME NEW j \in (k + 1) .. n, j # k + 1 PROVE j \in ((k + 1) + 1) .. n
      BY <1>1, <3>4
    <3> QED BY <3>1, <3>2, <3>3, <3>4
  <2> QED BY <2>1, <2>2, <2>3
<1>7. CASE i \in (Len(d) + 1) .. Len(e)
  <2> DEFINE c == e[i]
  <2>1. c \in CommandsOf(o)
    BY <1>2, <1>7
  <2> HIDE DEF c
  <2>2. /\ From(c) = From(o) /\ (c.op = "set" => c.a = "kind" \/ o.op = "set")
        /\ "rename" \in {c.op, o.op} => c = o
    BY <2>1 DEF CommandsOf
  <2>3. FromScript(c, ops)
    <3>1. c.op = "set" => c.a = "kind" \/ \E j \in 1 .. n : ops[j].op = "set" /\ From(ops[j]) = From(c)
      BY <1>1, <2>2 DEF o
    <3>2. c.op = "rename" => c \in Renames(ops)
      BY <1>3, <2>2
    <3> QED BY <3>1, <3>2 DEF FromScript, n
  <2>4. ASSUME NEW x \in Renames(ops), From(c) = From(x)
        PROVE  \/ \E j \in i .. Len(e) : e[j] = x
               \/ \E j \in ((k + 1) + 1) .. n : ops[j] = x
    <3>1. PICK j \in (k + 1) .. n : ops[j] = x
      <4>1. From(ops[k + 1]) = From(x)
        BY <2>2, <2>4 DEF o
      <4> QED BY <1>1, <4>1 DEF Orderly, n
    <3>2. CASE j = k + 1
      <4>1. o = x /\ o.op = "rename"
        BY <1>4, <3>1, <3>2 DEF o
      <4>2. Len(e) \in i .. Len(e) /\ e[Len(e)] = x
        BY <1>1, <1>5, <4>1
      <4> QED BY <4>2
    <3>3. CASE j # k + 1
      <4>1. j \in ((k + 1) + 1) .. n
        BY <1>1, <3>3
      <4> QED BY <3>1, <4>1
    <3> QED BY <3>2, <3>3
  <2> QED BY <2>3, <2>4 DEF c
<1> QED BY <1>1, <1>6, <1>7 DEF n

\* So do the commands of a whole pass.
LEMMA PassFollows ==
    ASSUME NEW seen \in Maps, NEW ops \in Seq(Edits(Word)), Orderly(ops)
    PROVE  Follows(CreateCommands(seen, ops).cmds, ops)
<1> DEFINE n == Len(ops)
           base == [seen |-> seen, cmds |-> <<>>]
           last == CreateCommands(seen, ops)
<1>1. n \in Nat /\ \A i \in 1 .. n : ops[i] \in Edits(Word)
  BY LenProperties, ElementOfSeq
<1>2. base \in Pictures /\ base.cmds = <<>>
  <2>1. <<>> \in Seq(Edits(Word))
    OBVIOUS
  <2> QED BY <2>1 DEF Pictures
<1>3. last = PerformFold!FoldValue(0, base, ops)
  BY DEF CreateCommands, FoldLeft, MapThenFoldSet, Max, PerformFold!FoldValue, PerformFold!Greatest
<1> HIDE DEF last, base
<1>4. \A v \in Pictures, x \in Edits(Word) : Perform(v, x) \in Pictures
  <2>1. NoMap \in Maps
    BY NoMapFacts
  <2> QED BY <2>1, PerformFacts DEF Performed
<1>5. PerformFold!Trace(0, Pictures, base, ops)
  BY <1>2, <1>4, PerformFold!FoldTrace
<1>6. PICK t \in [0 .. n -> Pictures] : PerformFold!IsTrace(t, 0, base, ops)
  BY <1>5 DEF PerformFold!Trace
<1>7. t[0] = base /\ t[n] = last /\ \A i \in 1 .. n : t[i] = Perform(t[i - 1], ops[i])
  BY <1>3, <1>6 DEF PerformFold!IsTrace
<1> DEFINE T == {j \in 0 .. n : FollowsTo(t[j].cmds, ops, j)}
<1>8. 0 \in T
  <2>1. FollowsTo(base.cmds, ops, 0)
    BY <1>2 DEF FollowsTo
  <2> QED BY <1>1, <1>7, <2>1
<1>9. ASSUME NEW j \in 0 .. (n - 1), j \in T PROVE j + 1 \in T
  <2> DEFINE p == t[j]
             q == t[j + 1]
  <2>1. p \in Pictures /\ ops[j + 1] \in Edits(Word) /\ q = Perform(p, ops[j + 1]) /\ j + 1 \in 0 .. n
    <3>1. j \in 0 .. n /\ j + 1 \in 1 .. n /\ (j + 1) - 1 = j /\ j + 1 \in 0 .. n
      BY <1>1
    <3> QED BY <1>1, <1>7, <3>1
  <2>2. FollowsTo(p.cmds, ops, j)
    BY <1>9
  <2> HIDE DEF p, q
  <2>3. Extends(p.cmds, q.cmds, ops[j + 1]) /\ p.cmds \in Seq(Edits(Word))
    BY <2>1, PerformWrites DEF Pictures
  <2>4. FollowsTo(q.cmds, ops, j + 1)
    BY <2>2, <2>3, FollowsStep
  <2> QED BY <2>1, <2>4 DEF q
<1>10. n \in T
  <2> HIDE DEF T
  <2>1. 0 .. n \subseteq T
    BY <1>1, <1>8, <1>9, PerformFold!UpTo
  <2> QED BY <1>1, <2>1
<1>11. FollowsTo(last.cmds, ops, n)
  BY <1>7, <1>10
<1>12. \A j \in (n + 1) .. n : FALSE
  BY <1>1
<1> QED BY <1>11, <1>12 DEF FollowsTo, Follows, last

\* An entry whose values are replaced or added to.
LEMMA NewValues ==
    ASSUME NEW e \in Entry, NEW v \in Word
    PROVE  /\ [e EXCEPT !.val = <<v>>].val # <<>>
           /\ [e EXCEPT !.val = Append(@, v)].val # <<>>
           /\ ToSet([e EXCEPT !.val = Append(@, v)].val) = ToSet(e.val) \cup {v}
<1>1. e.val \in Seq(Word)
  BY DEF Entry
<1>2. /\ ToSet(Append(e.val, v)) = ToSet(e.val) \cup {v} /\ ToSet(<<v>>) = {v}
      /\ <<v>> \in Seq(Word) /\ Append(e.val, v) \in Seq(Word)
  BY <1>1, ValueFacts
<1>3. \A s \in Seq(Word) : s = <<>> <=> ToSet(s) = {}
  BY ValueFacts
<1>4. <<v>> # <<>> /\ Append(e.val, v) # <<>>
  BY <1>2, <1>3
<1>5. [e EXCEPT !.val = <<v>>].val = <<v>> /\ [e EXCEPT !.val = Append(@, v)].val = Append(e.val, v)
  BY DEF Entry
<1> QED BY <1>2, <1>4, <1>5

\* What is there after a command that does not fail.
LEMMA EditPresence ==
    ASSUME NEW m \in Maps, NEW c \in Edits(Word), NEW k \in Places, ~Fails(m, c)
    PROVE  LET n == Edit(m, c) IN
           /\ Present(m, k) /\ ~(c.op = "rename" /\ k = From(c)) => Present(n, k)
           /\ Present(n, k) /\ ~Present(m, k) => k = From(c) \/ (c.op = "rename" /\ k = To(c))
           /\ c.op = "rename" => ~Present(n, From(c))
<1> DEFINE n == Edit(m, c)
           e == EntryAt(m, k)
           f == After(m, c, k)
<1>1. EntryAt(n, k) = f /\ EntryAt(n, From(c)) = After(m, c, From(c))
  BY EditFacts
<1>2. e \in Entry /\ (c.op # "rename" => c.v \in Word) /\ NoEntry.val = <<>>
  BY EntryAtIsEntry, EditParts DEF NoEntry
<1>3. c.op = "rename" => Present(m, From(c))
  BY DEF Fails, From
<1>4. c.op = "rename" => After(m, c, From(c)) = NoEntry
  BY DEF After, From
<1> HIDE DEF n, e, f
<1>5. /\ k = From(c) /\ c.op = "rename" => f = NoEntry
      /\ k = To(c) /\ k # From(c) /\ c.op = "rename" => f = EntryAt(m, From(c))
      /\ k # From(c) /\ ~(c.op = "rename" /\ k = To(c)) => f = e
      /\ k = From(c) /\ c.op # "rename" =>
            f \in {e, [e EXCEPT !.comment = c.v], [e EXCEPT !.val = <<c.v>>], [e EXCEPT !.val = Append(@, c.v)]}
  BY DEF After, From, To, e, f
<1>6. k = From(c) /\ c.op # "rename" => f.val = e.val \/ f.val # <<>>
  <2> SUFFICES ASSUME k = From(c), c.op # "rename" PROVE f.val = e.val \/ f.val # <<>>
    OBVIOUS
  <2>1. [e EXCEPT !.comment = c.v].val = e.val
    BY <1>2 DEF Entry
  <2>2. [e EXCEPT !.val = <<c.v>>].val # <<>> /\ [e EXCEPT !.val = Append(@, c.v)].val # <<>>
    BY <1>2, NewValues
  <2> QED BY <1>5, <2>1, <2>2
<1>7. Present(m, k) <=> e.val # <<>>
  BY DEF Present, e
<1>8. Present(n, k) <=> f.val # <<>>
  BY <1>1 DEF Present
<1>9. Present(m, From(c)) <=> EntryAt(m, From(c)).val # <<>>
  BY DEF Present
<1>10. c.op = "rename" => ~Present(n, From(c))
  BY <1>1, <1>2, <1>4 DEF Present
<1>11. Present(m, k) /\ ~(c.op = "rename" /\ k = From(c)) => Present(n, k)
  BY <1>2, <1>3, <1>5, <1>6, <1>7, <1>8, <1>9
<1>12. Present(n, k) /\ ~Present(m, k) => k = From(c) \/ (c.op = "rename" /\ k = To(c))
  BY <1>5, <1>7, <1>8
<1> QED BY <1>10, <1>11, <1>12 DEF n

\* A value outlives every command but a set, a rename, or a new target.
LEMMA EditKeepsValue ==
    ASSUME NEW m \in Maps, NEW c \in Edits(Word), NEW k \in Places, k[2] # "kind",
           NEW v, v \in Values(EntryAt(m, k)),
           k = From(c) => c.op \notin {"set", "rename"}, c.op = "rename" => k # To(c)
    PROVE  v \in Values(EntryAt(Edit(m, c), k))
<1> DEFINE e == EntryAt(m, k)
           f == After(m, c, k)
<1>1. EntryAt(Edit(m, c), k) = f
  BY EditFacts
<1>2. e \in Entry /\ (c.op # "rename" => c.v \in Word)
  BY EntryAtIsEntry, EditParts
<1>3. e.val # <<>>
  <2>1. e.val \in Seq(Word) /\ v \in ToSet(e.val)
    BY <1>2 DEF Entry, Values
  <2>2. v \in Word
    BY <1>2 DEF Entry, Values, ToSet
  <2> QED BY <2>1, <2>2, ValueFacts
<1>4. c.op = "new" => k # From(c)
  <2>1. c.op = "new" => c.a = "kind"
    BY EditParts
  <2>2. From(c)[2] = c.a
    BY DEF From
  <2> QED BY <2>1, <2>2
<1> HIDE DEF e, f
<1>5. f \in {e, [e EXCEPT !.comment = c.v]} \/ (c.op = "add" /\ f = [e EXCEPT !.val = Append(@, c.v)])
  <2>1. CASE k # From(c)
    BY <2>1 DEF After, From, To, e, f
  <2>2. CASE k = From(c) /\ c.op \in {"comment", "note"}
    BY <2>2 DEF After, From, To, e, f
  <2>3. CASE k = From(c) /\ c.op = "set_if_absent"
    BY <1>3, <2>3 DEF After, From, To, e, f
  <2>4. CASE k = From(c) /\ c.op = "add"
    BY <2>4 DEF After, From, To, e, f
  <2> QED BY <1>4, <2>1, <2>2, <2>3, <2>4, EditParts
<1>6. [e EXCEPT !.comment = c.v].val = e.val
  BY <1>2 DEF Entry
<1>7. c.op = "add" => ToSet([e EXCEPT !.val = Append(@, c.v)].val) = ToSet(e.val) \cup {c.v}
  BY <1>2, NewValues
<1> QED BY <1>1, <1>5, <1>6, <1>7 DEF Values, e

\* What a command makes of the file of a package.
Turns(pkg, a, c, b) ==
    \/ (c.t[1] # pkg \/ Fails(a, c)) /\ b = a
    \/ c.t[1] = pkg /\ ~Fails(a, c) /\ b = Edit(a, c)

\* A command fails, is for another package, or makes its edit.
LEMMA EditOwnTurns ==
    ASSUME NEW pkg, NEW r \in Rewrites, NEW c \in Edits(Word)
    PROVE  Turns(pkg, r.file, c, EditOwn(pkg, r, c).file)
<1>1. CASE c.t[1] # pkg
  BY <1>1, EditOwnFacts DEF Turns
<1>2. CASE c.t[1] = pkg /\ Fails(r.file, c)
  <2>1. EditOwn(pkg, r, c) = [r EXCEPT !.failed = TRUE]
    BY <1>2 DEF EditOwn
  <2>2. [r EXCEPT !.failed = TRUE].file = r.file
    BY DEF Rewrites
  <2> QED BY <1>2, <2>1, <2>2 DEF Turns
<1>3. CASE c.t[1] = pkg /\ ~Fails(r.file, c)
  <2>1. EditOwn(pkg, r, c) = [r EXCEPT !.file = Edit(r.file, c)]
    BY <1>3 DEF EditOwn
  <2>2. \A f : [r EXCEPT !.file = f].file = f
    BY DEF Rewrites
  <2> QED BY <1>3, <2>1, <2>2 DEF Turns
<1> QED BY <1>1, <1>2, <1>3

\* A rename that is still to come, among the commands after the j-th.
ToCome(o, cmds, j) == \E i \in (j + 1) .. Len(cmds) : cmds[i] = o

\* An attribute that is renamed has its final one, or the rename is still to come.
LEMMA FinalStep ==
    ASSUME NEW pkg, NEW cmds \in Seq(Edits(Word)), NEW ops, Orderly(ops), Follows(cmds, ops),
           NEW o \in Renames(ops), o \in Edits(Word), o.op = "rename", o.t[1] = pkg,
           NEW j \in 0 .. (Len(cmds) - 1), NEW a \in Maps, NEW b, Turns(pkg, a, cmds[j + 1], b),
           HasFinal(a, o) \/ ToCome(o, cmds, j)
    PROVE  HasFinal(b, o) \/ ToCome(o, cmds, j + 1)
<1> DEFINE c == cmds[j + 1]
           n == Len(cmds)
<1>1. n \in Nat /\ j \in Nat /\ j + 1 \in 1 .. n /\ c \in Edits(Word)
  <2>1. n \in Nat
    BY LenProperties
  <2>2. j + 1 \in 1 .. n /\ j \in Nat
    BY <2>1
  <2> QED BY <2>1, <2>2, ElementOfSeq
<1>2. /\ c.op = "rename" => c \in Renames(ops)
      /\ From(c) = From(o) => \E i \in (j + 1) .. n : cmds[i] = o
  BY <1>1 DEF Follows, FromScript
<1>3. Turns(pkg, a, c, b) /\ From(o) \in Places /\ To(o) \in Places
  BY EditParts DEF From, To
<1>4. \A i \in (j + 1) .. n : i = j + 1 \/ i \in ((j + 1) + 1) .. n
  BY <1>1
<1>5. \A x \in Renames(ops) : To(o) # From(x) /\ To(x) # From(o)
  BY DEF Orderly
<1> HIDE DEF c
<1>6. CASE c = o
  <2>1. CASE Fails(a, c)
    <3>1. ~Present(a, From(o)) \/ Present(a, To(o))
      BY <1>6, <2>1 DEF Fails, From, To
    <3>2. b = a
      BY <1>3, <2>1 DEF Turns
    <3> QED BY <3>1, <3>2 DEF HasFinal
  <2>2. CASE ~Fails(a, c)
    <3>1. b = Edit(a, c)
      BY <1>3, <1>6, <2>2 DEF Turns
    <3>2. ~Present(b, From(o))
      BY <1>1, <1>3, <1>6, <2>2, <3>1, EditPresence
    <3> QED BY <3>2 DEF HasFinal
  <2> QED BY <2>1, <2>2
<1>7. CASE c # o
  <2>1. CASE ToCome(o, cmds, j)
    <3>1. PICK i \in (j + 1) .. n : cmds[i] = o
      BY <2>1 DEF ToCome
    <3>2. i # j + 1
      BY <1>7, <3>1 DEF c
    <3> QED BY <1>4, <3>1, <3>2 DEF ToCome
  <2>2. CASE ~ToCome(o, cmds, j) /\ b = a
    BY <2>2
  <2>3. CASE ~ToCome(o, cmds, j) /\ ~Fails(a, c) /\ b = Edit(a, c)
    <3>1. From(c) # From(o)
      BY <1>2, <2>3 DEF ToCome
    <3>2. HasFinal(a, o)
      BY <2>3
    <3>3. c.op = "rename" => To(c) # From(o) /\ From(c) # To(o)
      BY <1>2, <1>5
    <3>4. Present(b, From(o)) => Present(a, From(o))
      BY <1>1, <1>3, <2>3, <3>1, <3>3, EditPresence
    <3>5. Present(a, To(o)) => Present(b, To(o))
      BY <1>1, <1>3, <2>3, <3>3, EditPresence
    <3> QED BY <3>2, <3>4, <3>5 DEF HasFinal
  <2> QED BY <1>3, <2>1, <2>2, <2>3 DEF Turns
<1> QED BY <1>6, <1>7

\* The user's value is there, and an attribute that it would be renamed to.
Kept(m, k, ops) ==
    /\ "user" \in Values(EntryAt(m, k))
    /\ \A o \in Renames(ops) : From(o) = k => Present(m, To(o))

\* A command of the script loses neither.
LEMMA KeptStep ==
    ASSUME NEW pkg, NEW c \in Edits(Word), NEW ops \in Seq(Edits(Word)), Orderly(ops), FromScript(c, ops),
           NEW k \in Places, k[2] # "kind", k \notin Owned(ops),
           NEW a \in Maps, NEW b, Turns(pkg, a, c, b), Kept(a, k, ops)
    PROVE  Kept(b, k, ops)
<1>1. CASE b = a
  BY <1>1
<1>2. CASE ~Fails(a, c) /\ b = Edit(a, c)
  <2>1. \A i \in 1 .. Len(ops) : i \in DOMAIN ops /\ ops[i] \in Edits(Word)
    BY LenProperties, ElementOfSeq
  <2>2. \A o \in Renames(ops) : o \in Edits(Word) /\ o.op = "rename" /\ To(o) \in Owned(ops)
    <3>1. ASSUME NEW o \in Renames(ops) PROVE o \in Edits(Word) /\ o.op = "rename" /\ To(o) \in Owned(ops)
      <4>1. PICK i \in DOMAIN ops : ops[i].op = "rename" /\ o = ops[i]
        BY <3>1 DEF Renames
      <4>2. o \in Edits(Word)
        BY <4>1, ElementOfSeq, LenProperties
      <4>3. To(o) \in Owned(ops)
        BY <4>1 DEF Owned, To
      <4> QED BY <4>1, <4>2, <4>3
    <3> QED BY <3>1
  <2>3. c.op = "set" => From(c) # k
    <3> SUFFICES ASSUME c.op = "set", From(c) = k PROVE FALSE
      OBVIOUS
    <3>1. c.a # "kind"
      BY DEF From
    <3>2. PICK i \in 1 .. Len(ops) : ops[i].op = "set" /\ From(ops[i]) = k
      BY <3>1 DEF FromScript
    <3>3. k \in Owned(ops)
      BY <2>1, <3>2 DEF Owned, From
    <3> QED BY <3>3
  <2>4. c.op = "rename" => From(c) # k /\ To(c) # k
    <3> SUFFICES ASSUME c.op = "rename" PROVE From(c) # k /\ To(c) # k
      OBVIOUS
    <3>1. c \in Renames(ops)
      BY DEF FromScript
    <3>2. To(c) # k
      BY <2>2, <3>1
    <3>3. ~Present(a, To(c))
      BY <1>2 DEF Fails, To
    <3> QED BY <3>1, <3>2, <3>3 DEF Kept
  <2>5. "user" \in Values(EntryAt(b, k))
    BY <1>2, <2>3, <2>4, EditKeepsValue DEF Kept
  <2>6. ASSUME NEW o \in Renames(ops), From(o) = k PROVE Present(b, To(o))
    <3>1. Present(a, To(o)) /\ To(o) \in Places
      BY <2>2, <2>6, EditParts DEF Kept, To
    <3>2. c.op = "rename" => From(c) # To(o)
      BY <2>6 DEF Orderly, FromScript
    <3> QED BY <1>2, <3>1, <3>2, EditPresence
  <2> QED BY <2>5, <2>6 DEF Kept
<1> QED BY <1>1, <1>2 DEF Turns

\* The commands for a package lose no value of the user's, and rename as far as was meant.
LEMMA RewriteKeeps ==
    ASSUME NEW m \in Maps, NEW cmds \in Seq(Edits(Word)), NEW ops \in Seq(Edits(Word)),
           Orderly(ops), Follows(cmds, ops), \A o \in Renames(ops) : HasFinal(m, o), NEW pkg
    PROVE  LET w == Rewrite(m, cmds, pkg).file IN
           /\ \A o \in Renames(ops) : o.t[1] = pkg => HasFinal(w, o)
           /\ \A k \in Places \ Owned(ops) :
                 k[2] # "kind" /\ "user" \in Values(EntryAt(m, k)) => "user" \in Values(EntryAt(w, k))
<1> DEFINE n == Len(cmds)
           base == [file |-> m, failed |-> FALSE]
           last == FoldLeft(LAMBDA q, c : EditOwn(pkg, q, c), base, cmds)
           r == Rewrite(m, cmds, pkg)
<1>1. n \in Nat /\ \A i \in 1 .. n : cmds[i] \in Edits(Word)
  BY LenProperties, ElementOfSeq
<1>2. base \in Rewrites /\ base.file = m
  BY DEF Rewrites
<1>3. last = RewriteFold!FoldValue(pkg, base, cmds)
  BY DEF FoldLeft, MapThenFoldSet, Max, RewriteFold!FoldValue, RewriteFold!Greatest
<1>4. \A v \in Rewrites, x \in Edits(Word) : EditOwn(pkg, v, x) \in Rewrites
  BY EditOwnFacts
<1>5. r.file \in {m, last.file}
  <2>1. r = IF last.failed /\ ~keepGoing THEN [file |-> m, failed |-> TRUE] ELSE last
    BY DEF Rewrite
  <2> HIDE DEF last, r
  <2> QED BY <2>1
<1> HIDE DEF last, base, r
<1>6. RewriteFold!Trace(pkg, Rewrites, base, cmds)
  BY <1>2, <1>4, RewriteFold!FoldTrace
<1>7. PICK t \in [0 .. n -> Rewrites] : RewriteFold!IsTrace(t, pkg, base, cmds)
  BY <1>6 DEF RewriteFold!Trace
<1>8. t[0] = base /\ t[n] = last /\ \A i \in 1 .. n : t[i] = EditOwn(pkg, t[i - 1], cmds[i])
  BY <1>3, <1>7 DEF RewriteFold!IsTrace
<1>9. ASSUME NEW j \in 0 .. (n - 1)
      PROVE  /\ t[j].file \in Maps /\ j + 1 \in 0 .. n /\ cmds[j + 1] \in Edits(Word)
             /\ FromScript(cmds[j + 1], ops) /\ Turns(pkg, t[j].file, cmds[j + 1], t[j + 1].file)
  <2>1. j \in 0 .. n /\ j + 1 \in 1 .. n /\ (j + 1) - 1 = j /\ j + 1 \in 0 .. n
    BY <1>1
  <2>2. t[j] \in Rewrites /\ cmds[j + 1] \in Edits(Word) /\ t[j + 1] = EditOwn(pkg, t[j], cmds[j + 1])
    BY <1>1, <1>7, <1>8, <2>1
  <2>3. t[j].file \in Maps
    BY <2>2 DEF Rewrites
  <2>4. Turns(pkg, t[j].file, cmds[j + 1], t[j + 1].file)
    BY <2>2, EditOwnTurns
  <2>5. FromScript(cmds[j + 1], ops)
    BY <2>1 DEF Follows
  <2> QED BY <2>1, <2>2, <2>3, <2>4, <2>5
<1>10. \A o \in Renames(ops) : o \in Edits(Word) /\ o.op = "rename"
  BY LenProperties, ElementOfSeq DEF Renames
<1>11. ASSUME NEW o \in Renames(ops), o.t[1] = pkg PROVE HasFinal(last.file, o)
  <2> DEFINE T == {j \in 0 .. n : HasFinal(t[j].file, o) \/ ToCome(o, cmds, j)}
  <2>1. 0 \in T
    BY <1>1, <1>2, <1>8
  <2>2. ASSUME NEW j \in 0 .. (n - 1), j \in T PROVE j + 1 \in T
    <3>1. HasFinal(t[j].file, o) \/ ToCome(o, cmds, j)
      BY <2>2
    <3> HIDE DEF T
    <3>2. HasFinal(t[j + 1].file, o) \/ ToCome(o, cmds, j + 1)
      BY <1>9, <1>10, <1>11, <3>1, FinalStep DEF n
    <3> QED BY <1>9, <3>2 DEF T
  <2>3. n \in T
    <3> HIDE DEF T
    <3>1. 0 .. n \subseteq T
      BY <1>1, <2>1, <2>2, PerformFold!UpTo
    <3> QED BY <1>1, <3>1
  <2>4. ~ToCome(o, cmds, n)
    BY <1>1 DEF ToCome
  <2> QED BY <1>8, <2>3, <2>4
<1>12. ASSUME NEW k \in Places \ Owned(ops), k[2] # "kind", "user" \in Values(EntryAt(m, k))
       PROVE  "user" \in Values(EntryAt(last.file, k))
  <2> DEFINE T == {j \in 0 .. n : Kept(t[j].file, k, ops)}
  <2>1. 0 \in T
    <3>1. Present(m, k)
      <4>1. EntryAt(m, k).val \in Seq(Word) /\ "user" \in ToSet(EntryAt(m, k).val) /\ "user" \in Word
        BY <1>12, EntryAtIsEntry DEF Entry, Values, Word
      <4> QED BY <4>1, ValueFacts DEF Present
    <3>2. Kept(m, k, ops)
      BY <1>12, <3>1 DEF Kept, HasFinal
    <3> QED BY <1>1, <1>2, <1>8, <3>2
  <2>2. ASSUME NEW j \in 0 .. (n - 1), j \in T PROVE j + 1 \in T
    <3>1. Kept(t[j].file, k, ops)
      BY <2>2
    <3> HIDE DEF T
    <3>2. Kept(t[j + 1].file, k, ops)
      BY <1>9, <1>12, <3>1, KeptStep
    <3> QED BY <1>9, <3>2 DEF T
  <2>3. n \in T
    <3> HIDE DEF T
    <3>1. 0 .. n \subseteq T
      BY <1>1, <2>1, <2>2, PerformFold!UpTo
    <3> QED BY <1>1, <3>1
  <2>4. Kept(last.file, k, ops)
    BY <1>8, <2>3
  <2> QED BY <2>4 DEF Kept
<1> QED BY <1>5, <1>11, <1>12 DEF r

\* So does a run of buildozer.
LEMMA RunKeeps ==
    ASSUME NEW m \in Maps, NEW cmds \in Seq(Edits(Word)), NEW ops \in Seq(Edits(Word)),
           Orderly(ops), Follows(cmds, ops), \A o \in Renames(ops) : HasFinal(m, o)
    PROVE  LET w == RunBuildozerOn(m, cmds).file IN
           /\ \A o \in Renames(ops) : HasFinal(w, o)
           /\ \A k \in Places \ Owned(ops) :
                 k[2] # "kind" /\ "user" \in Values(EntryAt(m, k)) => "user" \in Values(EntryAt(w, k))
<1> DEFINE w == RunBuildozerOn(m, cmds).file
           FileOf(pkg) == IF pkg \in PackagesOf(cmds) THEN Rewrite(m, cmds, pkg).file ELSE m
<1>1. \A k \in Places : EntryAt(w, k) = EntryAt(FileOf(k[1][1]), k)
  BY RunFacts
<1>2. \A pkg : /\ \A o \in Renames(ops) : o.t[1] = pkg => HasFinal(FileOf(pkg), o)
               /\ \A k \in Places \ Owned(ops) :
                     k[2] # "kind" /\ "user" \in Values(EntryAt(m, k)) => "user" \in Values(EntryAt(FileOf(pkg), k))
  BY RewriteKeeps
<1> HIDE DEF w, FileOf
<1>3. ASSUME NEW o \in Renames(ops) PROVE HasFinal(w, o)
  <2>1. o \in Edits(Word) /\ o.op = "rename"
    BY LenProperties, ElementOfSeq DEF Renames
  <2>2. From(o) \in Places /\ To(o) \in Places /\ From(o)[1][1] = o.t[1] /\ To(o)[1][1] = o.t[1]
    BY <2>1, EditParts DEF From, To
  <2> QED BY <1>1, <1>2, <2>2 DEF HasFinal, Present
<1>4. \A k \in Places \ Owned(ops) :
         k[2] # "kind" /\ "user" \in Values(EntryAt(m, k)) => "user" \in Values(EntryAt(w, k))
  BY <1>1, <1>2
<1> QED BY <1>3, <1>4 DEF w

\* What the runs of a script and the user's edit keep: no temporary attribute is left
\* without its final one, and the commands in the file are those of the script.
KeptInv ==
    /\ Orderly(request.ops)
    /\ \A o \in Renames(request.ops) : HasFinal(buildFile, o)
    /\ bzAt = "written" => Follows(commands, request.ops)
    /\ \A k \in edited : k \in Places /\ k[2] # "kind"
    /\ UserValueKept

\* A script begins with no edit of the user's.
LEMMA KeptInvInit == BzInit => KeptInv
<1> SUFFICES ASSUME BzInit PROVE KeptInv
    OBVIOUS
<1>1. PICK tool \in Tool : request \in Request(tool)
  BY DEF BzInit
<1>2. request.ops \in Seq(Edits(Word)) /\ buildFile \in OldFile(request)
  BY <1>1, RequestFacts DEF BzInit
<1>3. \A o \in Renames(request.ops) :
        /\ \A other \in Renames(request.ops) : To(o) # From(other)
        /\ \A i \in DOMAIN request.ops : From(request.ops[i]) = From(o) =>
               \E j \in DOMAIN request.ops : j >= i /\ request.ops[j] = o
        /\ HasFinal(buildFile, o)
  BY <1>1, <1>2, RenameAssumption
<1>4. DOMAIN request.ops = 1 .. Len(request.ops) /\ Len(request.ops) \in Nat
  BY <1>2, LenProperties
<1>5. \A i \in 1 .. Len(request.ops), j \in 1 .. Len(request.ops) : j >= i => j \in i .. Len(request.ops)
  BY <1>4
<1>6. Orderly(request.ops)
  BY <1>3, <1>4, <1>5 DEF Orderly
<1> QED BY <1>3, <1>6 DEF BzInit, KeptInv, UserValueKept

\* A step that leaves the BUILD files alone and has written no commands.
LEMMA KeptElsewhere ==
    ASSUME KeptInv, UNCHANGED <<request, buildFile, edited>>, bzAt' # "written"
    PROVE  KeptInv'
BY DEF KeptInv, UserValueKept

\* The commands of the builder are those of the script.
LEMMA WriteCommandsKept == BzInv /\ KeptInv /\ WriteCommands => KeptInv'
<1> SUFFICES ASSUME BzInv, KeptInv, WriteCommands PROVE KeptInv'
    OBVIOUS
<1>1. commands' = CreateCommands(existing, request.ops).cmds /\ UNCHANGED <<request, buildFile, edited>>
  BY DEF WriteCommands
<1>2. request.ops \in Seq(Edits(Word)) /\ existing \in Maps /\ Orderly(request.ops)
  BY DEF BzInv, BzTypeOK, KeptInv
<1>3. Follows(commands', request.ops)
  BY <1>1, <1>2, PassFollows
<1> QED BY <1>1, <1>3 DEF KeptInv, UserValueKept

\* They lose nothing of the user's.
LEMMA RunBuildozerKept == BzInv /\ KeptInv /\ RunBuildozer => KeptInv'
<1> SUFFICES ASSUME BzInv, KeptInv, RunBuildozer PROVE KeptInv'
    OBVIOUS
<1> DEFINE w == RunBuildozerOn(buildFile, commands).file
           ops == request.ops
<1>1. buildFile' = w /\ bzAt = "written" /\ bzAt' # "written" /\ UNCHANGED <<request, edited>>
  BY DEF RunBuildozer
<1>2. buildFile \in Maps /\ commands \in Seq(Edits(Word)) /\ ops \in Seq(Edits(Word))
  BY DEF BzInv, BzTypeOK
<1>3. Orderly(ops) /\ Follows(commands, ops) /\ \A o \in Renames(ops) : HasFinal(buildFile, o)
  BY <1>1 DEF KeptInv
<1>4. /\ \A o \in Renames(ops) : HasFinal(w, o)
      /\ \A k \in Places \ Owned(ops) :
            k[2] # "kind" /\ "user" \in Values(EntryAt(buildFile, k)) => "user" \in Values(EntryAt(w, k))
  BY <1>2, <1>3, RunKeeps
<1> HIDE DEF w
<1>5. \A k \in edited \ Owned(ops) : k \in Places /\ k[2] # "kind" /\ "user" \in Values(EntryAt(buildFile, k))
  BY DEF KeptInv, UserValueKept
<1> QED BY <1>1, <1>3, <1>4, <1>5 DEF KeptInv, UserValueKept

\* The user gives a value to what is there.
LEMMA UserEditsKept == BzInv /\ KeptInv /\ UserEdits => KeptInv'
<1> SUFFICES ASSUME BzInv, KeptInv, UserEdits PROVE KeptInv'
    OBVIOUS
<1> DEFINE u == [val |-> <<"user">>, comment |-> ""]
<1>1. PICK k \in DOMAIN buildFile : /\ k[2] # "kind" /\ Present(buildFile, k)
                                    /\ buildFile' = [buildFile EXCEPT ![k] = u] /\ edited' = {k}
  BY DEF UserEdits
<1>2. bzAt' = "idle" /\ UNCHANGED request
  BY DEF UserEdits
<1>3. buildFile = [x \in DOMAIN buildFile |-> buildFile[x]] /\ k \in Places
  BY MapsAre DEF BzInv, BzTypeOK
<1>4. u.val = <<"user">> /\ u.val # <<>> /\ "user" \in ToSet(u.val)
  <2>1. "user" \in Word /\ u.val = <<"user">>
    BY DEF Word
  <2> HIDE DEF u
  <2>2. "user" \in Word
    BY <2>1
  <2>3. \A v \in Word : ToSet(<<v>>) = {v} /\ <<v>> \in Seq(Word)
    <3>1. <<>> \in Seq(Word)
      OBVIOUS
    <3> QED BY <3>1, ValueFacts
  <2>4. ToSet(<<"user">>) = {"user"} /\ <<"user">> \in Seq(Word)
    BY <2>2, <2>3
  <2>5. <<"user">> # <<>>
    BY <2>4, ValueFacts
  <2> QED BY <2>1, <2>4, <2>5
<1> HIDE DEF u
<1>5. DOMAIN buildFile' = DOMAIN buildFile /\ buildFile'[k] = u /\ \A x \in DOMAIN buildFile \ {k} : buildFile'[x] = buildFile[x]
  BY <1>1, <1>3
<1>6. EntryAt(buildFile', k) = u /\ \A x : x # k => EntryAt(buildFile', x) = EntryAt(buildFile, x)
  BY <1>5 DEF EntryAt
<1>7. \A x : Present(buildFile', x) <=> Present(buildFile, x)
  BY <1>1, <1>4, <1>6 DEF Present
<1>8. \A o \in Renames(request.ops) : HasFinal(buildFile', o)
  BY <1>7 DEF KeptInv, HasFinal
<1>9. "user" \in Values(EntryAt(buildFile', k))
  BY <1>4, <1>6 DEF Values
<1> QED BY <1>1, <1>2, <1>3, <1>8, <1>9 DEF KeptInv, UserValueKept

\* Every step keeps what the user wrote.
LEMMA KeptInvStep == BzInv /\ KeptInv /\ [BzNext]_bzVars => KeptInv'
<1> SUFFICES ASSUME BzInv, KeptInv, [BzNext]_bzVars PROVE KeptInv'
    OBVIOUS
<1>1. CASE DryRun
  <2>1. UNCHANGED <<request, buildFile, edited>> /\ bzAt' # "written"
    BY <1>1 DEF DryRun
  <2> QED BY <2>1, KeptElsewhere
<1>2. CASE GetAllInfo
  <2>1. UNCHANGED <<request, buildFile, edited>> /\ bzAt' # "written"
    BY <1>2 DEF GetAllInfo
  <2> QED BY <2>1, KeptElsewhere
<1>3. CASE UNCHANGED bzVars
  BY <1>3 DEF bzVars, KeptInv, UserValueKept
<1> QED BY <1>1, <1>2, <1>3, WriteCommandsKept, RunBuildozerKept, UserEditsKept DEF BzNext

\* What the user wrote in the place of a FIXME survives every later run of the script.
THEOREM UserValueSurvives == BzSpec => []UserValueKept
<1>1. BzInv /\ KeptInv => UserValueKept
  BY DEF KeptInv
<1> QED BY <1>1, BzInvInit, BzInvStep, KeptInvInit, KeptInvStep, PTL DEF BzSpec

-----------------------------------------------------------------------------
(* Sequences that a script is made of *)

FlattenRec == INSTANCE SequenceFolds WITH
    Op <- LAMBDA seqs, f, k : IF k = 1 THEN seqs[k] ELSE f[k - 1] \o seqs[k]
LocateFold == INSTANCE SequenceFolds WITH Op <- LAMBDA ms, locs, m : Locate(ms, locs, m)

\* The elements of a sequence with one more.
LEMMA AppendSet ==
    ASSUME NEW X, NEW s \in Seq(X), NEW v \in X
    PROVE  Append(s, v) \in Seq(X) /\ ToSet(Append(s, v)) = ToSet(s) \cup {v}
<1> DEFINE a == Append(s, v)
<1>1. DOMAIN s = 1 .. Len(s) /\ Len(s) \in Nat
  BY LenProperties
<1>2. a \in Seq(X) /\ Len(a) = Len(s) + 1 /\ a[Len(s) + 1] = v /\ \A i \in 1 .. Len(s) : a[i] = s[i]
  BY AppendProperties
<1>3. DOMAIN a = 1 .. (Len(s) + 1)
  BY <1>2, LenProperties
<1> HIDE DEF a
<1>4. ToSet(a) = ToSet(s) \cup {v}
  BY <1>1, <1>2, <1>3 DEF ToSet
<1> QED BY <1>2, <1>4 DEF a

\* The elements of two sequences in a row.
LEMMA ConcatSet ==
    ASSUME NEW X, NEW s \in Seq(X), NEW r \in Seq(X)
    PROVE  ToSet(s \o r) = ToSet(s) \cup ToSet(r)
<1> DEFINE c == s \o r
<1>1. DOMAIN s = 1 .. Len(s) /\ Len(s) \in Nat /\ DOMAIN r = 1 .. Len(r) /\ Len(r) \in Nat
  BY LenProperties
<1>2. c \in Seq(X) /\ Len(c) = Len(s) + Len(r)
      /\ \A i \in 1 .. (Len(s) + Len(r)) : c[i] = IF i <= Len(s) THEN s[i] ELSE r[i - Len(s)]
  BY ConcatProperties
<1>3. DOMAIN c = 1 .. (Len(s) + Len(r))
  BY <1>2, LenProperties
<1> HIDE DEF c
<1>4. ASSUME NEW x \in ToSet(c) PROVE x \in ToSet(s) \cup ToSet(r)
  <2>1. PICK i \in 1 .. (Len(s) + Len(r)) : x = c[i]
    BY <1>3, <1>4 DEF ToSet
  <2>2. CASE i <= Len(s)
    <3>1. i \in 1 .. Len(s) /\ x = s[i]
      BY <1>1, <1>2, <2>1, <2>2
    <3> QED BY <1>1, <3>1 DEF ToSet
  <2>3. CASE ~(i <= Len(s))
    <3>1. i - Len(s) \in 1 .. Len(r) /\ x = r[i - Len(s)]
      BY <1>1, <1>2, <2>1, <2>3
    <3> QED BY <1>1, <3>1 DEF ToSet
  <2> QED BY <2>2, <2>3
<1>5. ASSUME NEW x \in ToSet(s) PROVE x \in ToSet(c)
  <2>1. PICK i \in 1 .. Len(s) : x = s[i]
    BY <1>1, <1>5 DEF ToSet
  <2>2. i \in 1 .. (Len(s) + Len(r)) /\ i <= Len(s)
    BY <1>1
  <2>3. c[i] = x
    BY <1>2, <2>1, <2>2
  <2> QED BY <1>3, <2>2, <2>3 DEF ToSet
<1>6. ASSUME NEW x \in ToSet(r) PROVE x \in ToSet(c)
  <2>1. PICK i \in 1 .. Len(r) : x = r[i]
    BY <1>1, <1>6 DEF ToSet
  <2> DEFINE j == i + Len(s)
  <2>2. j \in 1 .. (Len(s) + Len(r)) /\ ~(j <= Len(s)) /\ j - Len(s) = i
    BY <1>1
  <2>3. c[j] = x
    BY <1>2, <2>1, <2>2
  <2> QED BY <1>3, <2>2, <2>3 DEF ToSet
<1>7. ToSet(c) = ToSet(s) \cup ToSet(r)
  BY <1>4, <1>5, <1>6
<1> QED BY <1>7 DEF c

\* A sequence is one of its own elements.
LEMMA OwnElements ==
    ASSUME NEW X, NEW s \in Seq(X)
    PROVE  s \in Seq(ToSet(s))
  BY LenProperties DEF ToSet

\* A finite set as a sequence has all of its elements.
LEMMA SetToSeqFacts ==
    ASSUME NEW S, IsFiniteSet(S)
    PROVE  SetToSeq(S) \in Seq(S) /\ ToSet(SetToSeq(S)) = S
<1> DEFINE n == Cardinality(S)
           q == SetToSeq(S)
<1>1. n \in Nat /\ ExistsBijection(1 .. n, S)
  BY FS_CardinalityType
<1>2. \E f \in [1 .. n -> S] : IsInjective(f)
  <2>1. PICK f : f \in Bijection(1 .. n, S)
    BY <1>1 DEF ExistsBijection
  <2>2. f \in [1 .. n -> S] /\ IsInjective(f)
    BY <2>1 DEF Bijection, Injection, IsInjective
  <2> QED BY <2>2
<1>3. q \in [1 .. n -> S] /\ IsInjective(q)
  BY <1>2 DEF SetToSeq
<1> HIDE DEF q
<1>4. q \in Injection(1 .. n, S)
  BY <1>3 DEF Injection, IsInjective
<1>5. Cardinality(1 .. n) = n
  <2>1. 1 \in Int /\ n \in Int
    BY <1>1
  <2>2. Cardinality(1 .. n) = IF 1 > n THEN 0 ELSE n - 1 + 1
    BY <2>1, FS_Interval
  <2> HIDE DEF n
  <2> QED BY <1>1, <2>2
<1>6. q \in Surjection(1 .. n, S)
  BY <1>4, <1>5, FS_Injection
<1>7. ToSet(q) = S
  BY <1>3, <1>6 DEF Surjection, ToSet
<1>8. q \in Seq(S)
  BY <1>1, <1>3
<1> QED BY <1>7, <1>8 DEF q

\* Sequences put together one after the other.
FlattenSteps(seqs, X, f) ==
    LET n == Len(seqs) IN
    /\ f \in [1 .. n -> Seq(X)]
    /\ f[1] = seqs[1] /\ f[n] = FlattenSeq(seqs)
    /\ \A k \in 1 .. (n - 1) : f[k + 1] = f[k] \o seqs[k + 1]

LEMMA FlattenTrace ==
    ASSUME NEW X, NEW seqs \in Seq(Seq(X))
    PROVE  /\ seqs = <<>> => FlattenSeq(seqs) = <<>>
           /\ seqs # <<>> => \E f : FlattenSteps(seqs, X, f)
<1> DEFINE n == Len(seqs)
           F == FlattenRec!RecursiveValue(seqs, n)
<1>1. n \in Nat /\ DOMAIN seqs = 1 .. n /\ \A i \in 1 .. n : seqs[i] \in Seq(X)
  BY LenProperties, ElementOfSeq
<1>2. FlattenSeq(seqs) = IF n = 0 THEN seqs ELSE F[n]
  BY Zenon DEF FlattenSeq, FlattenRec!RecursiveValue
<1>3. n = 0 <=> seqs = <<>>
  BY EmptySeq
<1>4. ASSUME seqs # <<>> PROVE FlattenSteps(seqs, X, F)
  <2>1. FlattenRec!Recursive(seqs, Seq(X), n)
    <3> SUFFICES ASSUME NEW k \in 1 .. n, NEW f \in [1 .. (k - 1) -> Seq(X)]
                 PROVE  /\ (IF k = 1 THEN seqs[k] ELSE f[k - 1] \o seqs[k]) \in Seq(X)
                        /\ \A g : (\A j \in 1 .. (k - 1) : g[j] = f[j]) =>
                              (IF k = 1 THEN seqs[k] ELSE g[k - 1] \o seqs[k]) =
                              (IF k = 1 THEN seqs[k] ELSE f[k - 1] \o seqs[k])
      BY DEF FlattenRec!Recursive
    <3>1. k # 1 => k - 1 \in 1 .. (k - 1)
      BY <1>1
    <3>2. k # 1 => f[k - 1] \in Seq(X)
      BY <3>1
    <3>3. k # 1 => f[k - 1] \o seqs[k] \in Seq(X)
      BY <1>1, <3>2, ConcatProperties
    <3> QED BY <1>1, <3>1, <3>3
  <2>2. /\ F \in [1 .. n -> Seq(X)]
        /\ \A k \in 1 .. n : F[k] = IF k = 1 THEN seqs[k] ELSE F[k - 1] \o seqs[k]
    <3> HIDE DEF n
    <3> QED BY <1>1, <2>1, FlattenRec!Recursion
  <2> HIDE DEF F
  <2>3. n # 0 /\ 1 \in 1 .. n
    BY <1>1, <1>3, <1>4
  <2>4. ASSUME NEW k \in 1 .. (n - 1) PROVE F[k + 1] = F[k] \o seqs[k + 1]
    <3>1. k + 1 \in 1 .. n /\ (k + 1) - 1 = k /\ k + 1 # 1
      BY <1>1
    <3> QED BY <2>2, <3>1
  <2> HIDE DEF n
  <2>5. F[1] = seqs[1] /\ F[n] = FlattenSeq(seqs)
    BY <1>2, <2>2, <2>3
  <2> QED BY <2>2, <2>4, <2>5 DEF FlattenSteps, n
<1> HIDE DEF F
<1> QED BY <1>2, <1>3, <1>4

\* They have the elements of all of them.
LEMMA FlattenFacts ==
    ASSUME NEW X, NEW seqs \in Seq(Seq(X))
    PROVE  /\ FlattenSeq(seqs) \in Seq(X)
           /\ ToSet(FlattenSeq(seqs)) = UNION {ToSet(seqs[i]) : i \in DOMAIN seqs}
<1> DEFINE n == Len(seqs)
<1>1. n \in Nat /\ DOMAIN seqs = 1 .. n /\ \A i \in 1 .. n : seqs[i] \in Seq(X)
  BY LenProperties, ElementOfSeq
<1>2. CASE seqs = <<>>
  <2>1. FlattenSeq(seqs) = <<>>
    BY <1>2, FlattenTrace
  <2>2. <<>> \in Seq(X) /\ ToSet(<<>>) = {} /\ DOMAIN seqs = {}
    BY <1>2 DEF ToSet
  <2> QED BY <2>1, <2>2
<1>3. CASE seqs # <<>>
  <2>1. PICK F : FlattenSteps(seqs, X, F)
    BY <1>3, FlattenTrace
  <2>2. /\ F \in [1 .. n -> Seq(X)] /\ F[1] = seqs[1] /\ F[n] = FlattenSeq(seqs)
        /\ \A k \in 1 .. (n - 1) : F[k + 1] = F[k] \o seqs[k + 1]
    BY <2>1 DEF FlattenSteps
  <2>3. n # 0
    BY <1>3, EmptySeq
  <2> HIDE DEF n
  <2> DEFINE All(k) == UNION {ToSet(seqs[i]) : i \in 1 .. k}
             T == {k \in 0 .. n : k # 0 => ToSet(F[k]) = All(k)}
  <2>4. 0 \in T
    BY <1>1
  <2>5. ASSUME NEW k \in 0 .. (n - 1), k \in T PROVE k + 1 \in T
    <3>1. k + 1 \in 1 .. n /\ k + 1 \in 0 .. n
      BY <1>1
    <3>2. \A i : i \in 1 .. (k + 1) <=> i \in 1 .. k \/ i = k + 1
      BY <3>1
    <3>3. All(k + 1) = All(k) \cup ToSet(seqs[k + 1])
      BY <3>2
    <3>4. CASE k = 0
      <4>1. All(k) = {}
        BY <3>4
      <4>2. k + 1 = 1 /\ F[k + 1] = seqs[k + 1]
        BY <2>2, <3>4
      <4> HIDE DEF All
      <4> QED BY <3>1, <3>3, <4>1, <4>2
    <3>5. CASE k # 0
      <4>1. k \in 1 .. n /\ k \in 1 .. (n - 1)
        BY <1>1, <3>5
      <4>2. F[k + 1] = F[k] \o seqs[k + 1] /\ F[k] \in Seq(X) /\ seqs[k + 1] \in Seq(X)
        BY <1>1, <2>2, <3>1, <4>1
      <4>3. ToSet(F[k + 1]) = ToSet(F[k]) \cup ToSet(seqs[k + 1])
        BY <4>2, ConcatSet
      <4> HIDE DEF All
      <4> QED BY <2>5, <3>1, <3>3, <3>5, <4>3
    <3> QED BY <3>4, <3>5
  <2>6. n \in T
    <3> HIDE DEF T
    <3>1. 0 .. n \subseteq T
      BY <1>1, <2>4, <2>5, FlattenRec!UpTo
    <3> QED BY <1>1, <3>1
  <2>7. n \in 1 .. n
    BY <1>1, <2>3
  <2> QED BY <1>1, <2>2, <2>3, <2>6, <2>7
<1> QED BY <1>2, <1>3

\* The locations of a symbol are the modules that export it.
LEMMA LocatedFacts ==
    ASSUME NEW M, NEW in, in.closure \in Seq(M), NEW i, NEW s
    PROVE  Located(in, i, s) \in Seq(M) /\ ToSet(Located(in, i, s)) = Exporting(in, s)
<1> DEFINE c == in.closure
           n == Len(c)
           ms == Exporting(in, s)
           none == <<>>
           T == [j \in 0 .. n |-> {l \in Seq(M) : ToSet(l) = {c[k] : k \in 1 .. j} \cap ms}]
           locs == LocateFold!FoldValue(ms, none, c)
<1>1. n \in Nat /\ DOMAIN c = 1 .. n /\ \A j \in 1 .. n : c[j] \in M
  BY LenProperties, ElementOfSeq
<1>2. Located(in, i, s) = locs
  BY DEF Located, FoldLeft, MapThenFoldSet, Max, LocateFold!FoldValue, LocateFold!Greatest
<1>3. ms \subseteq ToSet(c) /\ ToSet(c) = {c[k] : k \in 1 .. n}
  BY <1>1 DEF Exporting, ToSet
<1> HIDE DEF ms
<1>4. none \in Seq(M) /\ ToSet(none) = {}
  BY DEF ToSet
<1> HIDE DEF none
<1>5. \A l \in Seq(M), m \in M :
         Locate(ms, l, m) \in Seq(M) /\ ToSet(Locate(ms, l, m)) = ToSet(l) \cup ({m} \cap ms)
  BY AppendSet DEF Locate
<1> DEFINE F(j) == {c[k] : k \in 1 .. j} \cap ms
<1>6. T \in [0 .. n -> SUBSET Seq(M)] /\ \A j \in 0 .. n : T[j] = {l \in Seq(M) : ToSet(l) = F(j)}
  OBVIOUS
<1> HIDE DEF T
<1>7. none \in T[0]
  <2>1. 0 \in 0 .. n /\ F(0) = {}
    BY <1>1
  <2> QED BY <1>4, <1>6, <2>1
<1>8. ASSUME NEW j \in 0 .. (n - 1), NEW l \in T[j] PROVE Locate(ms, l, c[j + 1]) \in T[j + 1]
  <2>1. j \in 0 .. n /\ j + 1 \in 1 .. n /\ j + 1 \in 0 .. n
    BY <1>1
  <2>2. l \in Seq(M) /\ ToSet(l) = F(j)
    BY <1>6, <1>8, <2>1
  <2>3. F(j + 1) = F(j) \cup ({c[j + 1]} \cap ms)
    <3>1. \A k : k \in 1 .. (j + 1) <=> k \in 1 .. j \/ k = j + 1
      BY <2>1
    <3> QED BY <3>1
  <2> HIDE DEF F
  <2>4. ToSet(Locate(ms, l, c[j + 1])) = F(j + 1) /\ Locate(ms, l, c[j + 1]) \in Seq(M)
    BY <1>1, <1>5, <2>1, <2>2, <2>3
  <2> QED BY <1>6, <2>1, <2>4
<1>9. locs \in Seq(M) /\ locs \in T[n]
  <2> HIDE DEF F
  <2>1. \A l \in Seq(M), m \in M : Locate(ms, l, m) \in Seq(M)
    BY <1>5
  <2>2. T \in [0 .. Len(c) -> SUBSET Seq(M)]
    BY <1>6
  <2> HIDE DEF n, locs
  <2>3. \A j \in 0 .. (Len(c) - 1) : \A l \in T[j] : Locate(ms, l, c[j + 1]) \in T[j + 1]
    BY <1>8 DEF n
  <2> HIDE DEF c
  <2>4. c \in Seq(M)
    BY DEF c
  <2>5. LocateFold!FoldValue(ms, none, c) \in Seq(M) /\ LocateFold!FoldValue(ms, none, c) \in T[Len(c)]
    BY <1>4, <1>7, <2>1, <2>2, <2>3, <2>4, LocateFold!FoldInduction
  <2> QED BY <2>5 DEF n, locs
<1>10. n \in 0 .. n
  BY <1>1
<1>11. ToSet(locs) = F(n)
  <2> HIDE DEF F, locs
  <2> QED BY <1>6, <1>9, <1>10
<1>12. F(n) = ms
  BY <1>3
<1> QED BY <1>2, <1>9, <1>11, <1>12 DEF ms

\* A dependency that the script adds.
DepOf(m, p) == Add(<<"own", m>>, "deps", p)
DepEdits(M) == {DepOf(m, p) : m \in M, p \in M}
DepsNeeded(in, m) == {DepOf(m, p) : p \in Needed(in, m)}

\* What the script adds to one module, each location of each of its missing symbols.
LEMMA DepsOfFacts ==
    ASSUME NEW M, NEW in, in.closure \in Seq(M), NEW i \in DOMAIN in.closure,
           IsFiniteSet(in.undefined[in.closure[i]])
    PROVE  LET m == in.closure[i] IN
           m \in M => /\ DepsOf(in, i) \in Seq(DepEdits(M))
                      /\ ToSet(DepsOf(in, i)) = DepsNeeded(in, m)
<1> SUFFICES ASSUME in.closure[i] \in M
             PROVE  /\ DepsOf(in, i) \in Seq(DepEdits(M))
                    /\ ToSet(DepsOf(in, i)) = DepsNeeded(in, in.closure[i])
    OBVIOUS
<1> DEFINE m == in.closure[i]
           X == DepEdits(M)
           syms == SymbolsOf(in, i)
           Adds(s) == [j \in DOMAIN Located(in, i, s) |-> DepOf(m, Located(in, i, s)[j])]
           seqs == [j \in DOMAIN syms |-> Adds(syms[j])]
<1>1. DepsOf(in, i) = FlattenSeq(seqs)
  BY DEF DepsOf, DepOf
<1>2. syms \in Seq(in.undefined[m]) /\ ToSet(syms) = in.undefined[m]
  BY SetToSeqFacts DEF SymbolsOf
<1>3. ASSUME NEW s PROVE Adds(s) \in Seq(X) /\ ToSet(Adds(s)) = {DepOf(m, p) : p \in Exporting(in, s)}
  <2> DEFINE l == Located(in, i, s)
  <2>1. l \in Seq(M) /\ ToSet(l) = Exporting(in, s)
    BY LocatedFacts
  <2>2. DOMAIN l = 1 .. Len(l) /\ Len(l) \in Nat /\ \A j \in 1 .. Len(l) : l[j] \in M
    BY <2>1, LenProperties, ElementOfSeq
  <2> HIDE DEF l
  <2> DEFINE a == [j \in 1 .. Len(l) |-> DepOf(m, l[j])]
  <2>3. \A j \in 1 .. Len(l) : DepOf(m, l[j]) \in X
    BY <2>2 DEF DepEdits
  <2> HIDE DEF X
  <2>4. a \in Seq(X)
    BY <2>2, <2>3
  <2>5. ToSet(a) = {DepOf(m, p) : p \in ToSet(l)}
    BY <2>2 DEF ToSet
  <2>6. Adds(s) = a
    BY <2>2 DEF l
  <2> HIDE DEF a, Adds
  <2> QED BY <2>1, <2>4, <2>5, <2>6
<1> HIDE DEF Adds, X, syms
<1>4. DOMAIN syms = 1 .. Len(syms) /\ Len(syms) \in Nat
  BY <1>2, LenProperties
<1>5. seqs \in Seq(Seq(X)) /\ DOMAIN seqs = DOMAIN syms /\ \A j \in DOMAIN syms : seqs[j] = Adds(syms[j])
  BY <1>3, <1>4
<1> HIDE DEF seqs
<1>6. FlattenSeq(seqs) \in Seq(X) /\ ToSet(FlattenSeq(seqs)) = UNION {ToSet(seqs[j]) : j \in DOMAIN seqs}
  BY <1>5, FlattenFacts
<1>7. UNION {ToSet(seqs[j]) : j \in DOMAIN seqs} = UNION {{DepOf(m, p) : p \in Exporting(in, s)} : s \in ToSet(syms)}
  <2>1. \A j \in DOMAIN syms : ToSet(seqs[j]) = {DepOf(m, p) : p \in Exporting(in, syms[j])}
    BY <1>3, <1>5
  <2>2. ToSet(syms) = {syms[j] : j \in DOMAIN syms}
    BY DEF ToSet
  <2> QED BY <1>5, <2>1, <2>2
<1>8. \A p : p \in Needed(in, m) <=> \E s \in in.undefined[m] : p \in Exporting(in, s)
  BY DEF Needed, Exporting
<1>9. UNION {{DepOf(m, p) : p \in Exporting(in, s)} : s \in in.undefined[m]} = {DepOf(m, p) : p \in Needed(in, m)}
  BY <1>8
<1> QED BY <1>1, <1>2, <1>6, <1>7, <1>9 DEF X, m, DepsNeeded

-----------------------------------------------------------------------------
(* BuildCleaner: scripts that only add *)

OnlyAdds(ops) == \A i \in 1 .. Len(ops) : ops[i].op = "add"

\* What the edits add at a place.
Added(ops, k) == {ops[i].v : i \in {j \in 1 .. Len(ops) : From(ops[j]) = k}}

\* The commands of build_cleaner.py add what its modules need.
LEMMA CleanerOps ==
    ASSUME NEW tool \in Tool, NEW r \in Request(tool), r.tool = "cleaner"
    PROVE  /\ OnlyAdds(r.ops)
           /\ \A m \in ToSet(r.in.closure) : Added(r.ops, <<<<"own", m>>, "deps">>) = Needed(r.in, m)
<1> DEFINE in == r.in
           c == in.closure
           M == ToSet(c)
           n == Len(c)
           X == DepEdits(M)
           parts == [i \in DOMAIN c |-> DepsOf(in, i)]
           ops == r.ops
<1>1. /\ r = CleanerRequest(in) /\ n \in Nat /\ c = [i \in 1 .. n |-> c[i]]
      /\ \A m \in M : IsFiniteSet(in.undefined[m])
  BY CleanerAssumption DEF IsSeq
<1>2. ops = FlattenSeq(parts)
  <2>1. CleanerRequest(in).ops = FlattenSeq(parts)
    BY DEF CleanerRequest
  <2> QED BY <1>1, <2>1
<1>3. DOMAIN c = 1 .. n
  BY <1>1
<1>4. M = {c[i] : i \in 1 .. n}
  BY <1>3 DEF ToSet
<1> HIDE DEF M, in, ops
<1>5. c \in Seq(M)
  BY <1>1, <1>3, <1>4
<1>6. ASSUME NEW i \in 1 .. n
      PROVE  DepsOf(in, i) \in Seq(X) /\ ToSet(DepsOf(in, i)) = DepsNeeded(in, c[i])
  <2>1. c[i] \in M /\ i \in DOMAIN c /\ IsFiniteSet(in.undefined[c[i]])
    BY <1>1, <1>3, <1>4
  <2> QED BY <1>5, <2>1, DepsOfFacts
<1> HIDE DEF X, c
<1>7. parts \in Seq(Seq(X)) /\ DOMAIN parts = 1 .. n /\ \A i \in 1 .. n : parts[i] = DepsOf(in, i)
  BY <1>1, <1>3, <1>6
<1> HIDE DEF parts
<1>8. ops \in Seq(X) /\ ToSet(ops) = UNION {ToSet(parts[i]) : i \in DOMAIN parts}
  BY <1>2, <1>7, FlattenFacts
<1>9. \A o : o \in ToSet(ops) <=> \E m \in M : \E p \in Needed(in, m) : o = DepOf(m, p)
  <2>1. \A i \in 1 .. n : ToSet(parts[i]) = DepsNeeded(in, c[i])
    BY <1>6, <1>7
  <2>2. \A o : o \in ToSet(ops) <=> \E i \in 1 .. n : o \in DepsNeeded(in, c[i])
    BY <1>7, <1>8, <2>1
  <2>3. \A o : o \in ToSet(ops) <=> \E m \in M : o \in DepsNeeded(in, m)
    BY <1>4, <2>2
  <2> QED BY <2>3 DEF DepsNeeded
<1>10. \A o : o \in ToSet(ops) <=> \E i \in 1 .. Len(ops) : o = ops[i]
  BY <1>8, LenProperties DEF ToSet
<1>11. \A m, p : /\ DepOf(m, p).op = "add" /\ DepOf(m, p).v = p
                 /\ From(DepOf(m, p)) = <<<<"own", m>>, "deps">>
  BY DEF DepOf, Add, From
<1>12. OnlyAdds(ops)
  <2>1. ASSUME NEW i \in 1 .. Len(ops) PROVE ops[i].op = "add"
    <3>1. PICK m \in M : \E p \in Needed(in, m) : ops[i] = DepOf(m, p)
      BY <1>9, <1>10
    <3> QED BY <1>11, <3>1
  <2> QED BY <2>1 DEF OnlyAdds
<1>13. ASSUME NEW m \in M
       PROVE  Added(ops, <<<<"own", m>>, "deps">>) = Needed(in, m)
  <2> DEFINE k == <<<<"own", m>>, "deps">>
  <2>1. \A q, p : From(DepOf(q, p)) = k => q = m
    BY <1>11
  <2> HIDE DEF k
  <2>2. ASSUME NEW v \in Added(ops, k) PROVE v \in Needed(in, m)
    <3>1. PICK i \in 1 .. Len(ops) : From(ops[i]) = k /\ v = ops[i].v
      BY <2>2 DEF Added
    <3>2. PICK q \in M : \E p \in Needed(in, q) : ops[i] = DepOf(q, p)
      BY <1>9, <1>10
    <3> QED BY <1>11, <2>1, <3>1, <3>2
  <2>3. ASSUME NEW v \in Needed(in, m) PROVE v \in Added(ops, k)
    <3>1. PICK i \in 1 .. Len(ops) : ops[i] = DepOf(m, v)
      BY <1>9, <1>10, <2>3
    <3>2. From(ops[i]) = k /\ ops[i].v = v
      BY <1>11, <3>1 DEF k
    <3> QED BY <3>2 DEF Added
  <2>4. Added(ops, k) = Needed(in, m)
    BY <2>2, <2>3
  <2> QED BY <2>4 DEF k
<1> QED BY <1>12, <1>13 DEF M, c, in, ops

\* An addition to a file, which is nothing where the value is there.
LEMMA AddValues ==
    ASSUME NEW m \in Maps, NEW c \in Edits(Word), c.op = "add", NEW k
    PROVE  Values(EntryAt(Edit(m, c), k)) = Values(EntryAt(m, k)) \cup (IF k = From(c) THEN {c.v} ELSE {})
<1> DEFINE e == EntryAt(m, k)
           f == After(m, c, k)
<1>1. EntryAt(Edit(m, c), k) = f
  BY EditFacts
<1>2. e \in Entry /\ c.v \in Word /\ e.val \in Seq(Word)
  BY EntryAtIsEntry, EditParts DEF Entry
<1>3. CASE k # From(c)
  <2>1. f = e
    BY <1>3 DEF After, From
  <2> QED BY <1>1, <1>3, <2>1
<1>4. CASE k = From(c) /\ Contains(e.val, c.v)
  <2>1. f = e
    BY <1>4 DEF After, From
  <2>2. c.v \in ToSet(e.val)
    BY <1>2, <1>4, ValueFacts
  <2> QED BY <1>1, <1>4, <2>1, <2>2 DEF Values
<1>5. CASE k = From(c) /\ ~Contains(e.val, c.v)
  <2>1. f = [e EXCEPT !.val = Append(@, c.v)]
    BY <1>5 DEF After, From
  <2>2. ToSet([e EXCEPT !.val = Append(@, c.v)].val) = ToSet(e.val) \cup {c.v}
    BY <1>2, NewValues
  <2> HIDE DEF e, f
  <2> QED BY <1>1, <1>5, <2>1, <2>2 DEF Values, e
<1> QED BY <1>3, <1>4, <1>5

\* What the first edits of a script add at a place.
AddedTo(ops, k, j) == {ops[i].v : i \in {x \in 1 .. j : From(ops[x]) = k}}

\* One edit more.
LEMMA AddedStep ==
    ASSUME NEW ops, NEW k, NEW j \in Nat, NEW i, i = j + 1
    PROVE  AddedTo(ops, k, i) = AddedTo(ops, k, j) \cup (IF k = From(ops[i]) THEN {ops[i].v} ELSE {})
<1>1. \A x : x \in 1 .. i <=> x \in 1 .. j \/ x = i
  OBVIOUS
<1> QED BY <1>1 DEF AddedTo

\* The builder writes the edits as they are.
LEMMA AddsWritten ==
    ASSUME NEW seen \in Maps, NEW ops \in Seq(Edits(Word)), OnlyAdds(ops)
    PROVE  CreateCommands(seen, ops).cmds = ops
<1> DEFINE n == Len(ops)
           base == [seen |-> seen, cmds |-> <<>>]
           last == CreateCommands(seen, ops)
<1>1. n \in Nat /\ \A i \in 1 .. n : ops[i] \in Edits(Word)
  BY LenProperties, ElementOfSeq
<1>2. base \in Pictures /\ HasCmds(base, <<>>)
  <2>1. <<>> \in Seq(Edits(Word))
    OBVIOUS
  <2> QED BY <2>1 DEF Pictures, HasCmds
<1>3. last = PerformFold!FoldValue(0, base, ops)
  BY DEF CreateCommands, FoldLeft, MapThenFoldSet, Max, PerformFold!FoldValue, PerformFold!Greatest
<1> HIDE DEF last, base
<1>4. \A v \in Pictures, x \in Edits(Word) : Perform(v, x) \in Pictures
  <2>1. NoMap \in Maps
    BY NoMapFacts
  <2> QED BY <2>1, PerformFacts DEF Performed
<1>5. PerformFold!Trace(0, Pictures, base, ops)
  BY <1>2, <1>4, PerformFold!FoldTrace
<1>6. PICK t \in [0 .. n -> Pictures] : PerformFold!IsTrace(t, 0, base, ops)
  BY <1>5 DEF PerformFold!Trace
<1>7. t[0] = base /\ t[n] = last /\ \A i \in 1 .. n : t[i] = Perform(t[i - 1], ops[i])
  BY <1>3, <1>6 DEF PerformFold!IsTrace
<1> DEFINE First(j) == SubSeq(ops, 1, j)
<1>8. First(0) = <<>> /\ First(n) = ops /\ \A i \in 1 .. n : First(i) = Append(First(i - 1), ops[i])
  BY PerformFold!Prefixes
<1> HIDE DEF First
<1> DEFINE T == {j \in 0 .. n : HasCmds(t[j], First(j))}
<1>9. 0 \in T
  <2>1. HasCmds(t[0], First(0))
    BY <1>2, <1>7, <1>8
  <2> QED BY <1>1, <2>1
<1>10. ASSUME NEW j \in 0 .. (n - 1), j \in T PROVE j + 1 \in T
  <2> DEFINE d == First(j)
             o == ops[j + 1]
             p == t[j]
  <2>1. j + 1 \in 1 .. n /\ (j + 1) - 1 = j /\ j + 1 \in 0 .. n
    BY <1>1
  <2>2. t[j + 1] = Perform(p, o) /\ First(j + 1) = Append(d, o) /\ o.op = "add"
    BY <1>7, <1>8, <2>1 DEF OnlyAdds
  <2>3. HasCmds(p, d)
    BY <1>10
  <2> HIDE DEF p, d, o
  <2>4. Perform(p, o) = DoAdd(p, o)
    BY <2>2 DEF Perform
  <2>5. HasCmds(Emit(p, o), Append(d, o))
    BY <2>3, CmdsFacts
  <2>6. \E e : DoAdd(p, o) = Believe(Emit(p, o), <<o.t, o.a>>, e)
    BY DEF DoAdd
  <2>7. HasCmds(DoAdd(p, o), Append(d, o))
    BY <2>5, <2>6, CmdsFacts
  <2> QED BY <2>1, <2>2, <2>4, <2>7
<1>11. n \in T
  <2> HIDE DEF T
  <2>1. 0 .. n \subseteq T
    BY <1>1, <1>9, <1>10, PerformFold!UpTo
  <2> QED BY <1>1, <2>1
<1>12. HasCmds(last, ops)
  BY <1>7, <1>8, <1>11
<1> QED BY <1>12, CmdsFacts DEF last

\* The outcome is the file and what is added.
LEMMA AddsOutcome ==
    ASSUME NEW m \in Maps, NEW ops \in Seq(Edits(Word)), OnlyAdds(ops), NEW k
    PROVE  Values(EntryAt(Outcome(m, ops), k)) = Values(EntryAt(m, k)) \cup Added(ops, k)
<1> DEFINE n == Len(ops)
<1>1. n \in Nat /\ \A i \in 1 .. n : ops[i] \in Edits(Word)
  BY LenProperties, ElementOfSeq
<1>2. PICK e \in [0 .. n -> Maps] :
            e[0] = m /\ e[n] = Outcome(m, ops) /\ \A i \in 1 .. n : e[i] = Edit(e[i - 1], ops[i])
  BY OutcomeTrace
<1> DEFINE Vals(x) == Values(EntryAt(x, k))
           T == {j \in 0 .. n : Vals(e[j]) = Vals(m) \cup AddedTo(ops, k, j)}
<1> HIDE DEF Vals
<1>3. 0 \in T
  <2>1. AddedTo(ops, k, 0) = {}
    BY DEF AddedTo
  <2> QED BY <1>1, <1>2, <2>1
<1>4. ASSUME NEW j \in 0 .. (n - 1), j \in T PROVE j + 1 \in T
  <2> DEFINE c == ops[j + 1]
  <2>1. j \in 0 .. n /\ j + 1 \in 1 .. n /\ (j + 1) - 1 = j /\ j + 1 \in 0 .. n /\ j \in Nat
    BY <1>1
  <2>2. e[j] \in Maps /\ c \in Edits(Word) /\ e[j + 1] = Edit(e[j], c) /\ c.op = "add"
    BY <1>1, <1>2, <2>1 DEF OnlyAdds
  <2>3. Vals(e[j + 1]) = Vals(e[j]) \cup (IF k = From(c) THEN {c.v} ELSE {})
    BY <2>2, AddValues DEF Vals
  <2>4. AddedTo(ops, k, j + 1) = AddedTo(ops, k, j) \cup (IF k = From(c) THEN {c.v} ELSE {})
    BY <2>1, AddedStep
  <2> HIDE DEF c
  <2>5. Vals(e[j + 1]) = Vals(m) \cup AddedTo(ops, k, j + 1)
    BY <1>4, <2>3, <2>4
  <2> QED BY <2>1, <2>5
<1>5. n \in T
  <2> HIDE DEF T
  <2>1. 0 .. n \subseteq T
    BY <1>1, <1>3, <1>4, OutcomeFold!UpTo
  <2> QED BY <1>1, <2>1
<1>6. Vals(Outcome(m, ops)) = Vals(m) \cup AddedTo(ops, k, n)
  BY <1>2, <1>5
<1>7. AddedTo(ops, k, n) = Added(ops, k)
  BY DEF AddedTo, Added
<1> QED BY <1>6, <1>7 DEF Vals

\* A run that stops on the way, or goes on after an error, has added some of it.
LEMMA AddsRewrite ==
    ASSUME NEW m \in Maps, NEW ops \in Seq(Edits(Word)), OnlyAdds(ops), NEW pkg, NEW k
    PROVE  LET w == Rewrite(m, ops, pkg).file IN
           /\ Values(EntryAt(m, k)) \subseteq Values(EntryAt(w, k))
           /\ Values(EntryAt(w, k)) \subseteq Values(EntryAt(m, k)) \cup Added(ops, k)
<1> DEFINE n == Len(ops)
           base == [file |-> m, failed |-> FALSE]
           last == FoldLeft(LAMBDA q, c : EditOwn(pkg, q, c), base, ops)
           r == Rewrite(m, ops, pkg)
           Vals(x) == Values(EntryAt(x, k))
           Between(x, j) == Vals(m) \subseteq Vals(x) /\ Vals(x) \subseteq Vals(m) \cup AddedTo(ops, k, j)
<1>1. n \in Nat /\ \A i \in 1 .. n : ops[i] \in Edits(Word)
  BY LenProperties, ElementOfSeq
<1>2. base \in Rewrites /\ base.file = m
  BY DEF Rewrites
<1>3. last = RewriteFold!FoldValue(pkg, base, ops)
  BY DEF FoldLeft, MapThenFoldSet, Max, RewriteFold!FoldValue, RewriteFold!Greatest
<1>4. \A v \in Rewrites, x \in Edits(Word) : EditOwn(pkg, v, x) \in Rewrites
  BY EditOwnFacts
<1>5. r.file \in {m, last.file}
  <2>1. r = IF last.failed /\ ~keepGoing THEN [file |-> m, failed |-> TRUE] ELSE last
    BY DEF Rewrite
  <2> HIDE DEF last, r
  <2> QED BY <2>1
<1> HIDE DEF last, base, r, Vals
<1>6. RewriteFold!Trace(pkg, Rewrites, base, ops)
  BY <1>2, <1>4, RewriteFold!FoldTrace
<1>7. PICK t \in [0 .. n -> Rewrites] : RewriteFold!IsTrace(t, pkg, base, ops)
  BY <1>6 DEF RewriteFold!Trace
<1>8. t[0] = base /\ t[n] = last /\ \A i \in 1 .. n : t[i] = EditOwn(pkg, t[i - 1], ops[i])
  BY <1>3, <1>7 DEF RewriteFold!IsTrace
<1> DEFINE T == {j \in 0 .. n : Between(t[j].file, j)}
<1>9. 0 \in T
  <2>1. Between(m, 0)
    BY DEF AddedTo
  <2> QED BY <1>1, <1>2, <1>8, <2>1
<1>10. ASSUME NEW j \in 0 .. (n - 1), j \in T PROVE j + 1 \in T
  <2> DEFINE c == ops[j + 1]
             a == t[j].file
             b == t[j + 1].file
             more == IF k = From(c) THEN {c.v} ELSE {}
  <2>1. j \in 0 .. n /\ j + 1 \in 1 .. n /\ (j + 1) - 1 = j /\ j + 1 \in 0 .. n /\ j \in Nat
    BY <1>1
  <2>2. t[j] \in Rewrites /\ c \in Edits(Word) /\ t[j + 1] = EditOwn(pkg, t[j], c) /\ c.op = "add"
    BY <1>1, <1>7, <1>8, <2>1 DEF OnlyAdds
  <2>3. a \in Maps /\ b \in {a, Edit(a, c)}
    BY <2>2, EditOwnFacts DEF Rewrites
  <2>4. Vals(Edit(a, c)) = Vals(a) \cup more
    BY <2>2, <2>3, AddValues DEF Vals
  <2>5. AddedTo(ops, k, j + 1) = AddedTo(ops, k, j) \cup more
    BY <2>1, AddedStep
  <2>6. Between(a, j)
    BY <1>10
  <2> HIDE DEF a, b, c, more
  <2>7. Between(b, j + 1)
    BY <2>3, <2>4, <2>5, <2>6
  <2> QED BY <2>1, <2>7 DEF b
<1>11. n \in T
  <2> HIDE DEF T
  <2>1. 0 .. n \subseteq T
    BY <1>1, <1>9, <1>10, RewriteFold!UpTo
  <2> QED BY <1>1, <2>1
<1>12. AddedTo(ops, k, n) = Added(ops, k)
  BY DEF AddedTo, Added
<1>13. Between(last.file, n)
  BY <1>8, <1>11
<1> QED BY <1>5, <1>12, <1>13 DEF r, Vals

\* A run of buildozer: what is there, and what is added.
LEMMA AddsRun ==
    ASSUME NEW m \in Maps, NEW ops \in Seq(Edits(Word)), OnlyAdds(ops), NEW k
    PROVE  LET r == RunBuildozerOn(m, ops)
               old == Values(EntryAt(m, k))
               new == Values(EntryAt(r.file, k)) IN
           /\ old \subseteq new /\ new \subseteq old \cup Added(ops, k)
           /\ ~r.failed => new = old \cup Added(ops, k)
<1> DEFINE r == RunBuildozerOn(m, ops)
           w == Rewrite(m, ops, k[1][1]).file
           old == Values(EntryAt(m, k))
           new == Values(EntryAt(r.file, k))
<1>1. k \in Places =>
         /\ EntryAt(r.file, k) = EntryAt(IF k[1][1] \in PackagesOf(ops) THEN w ELSE m, k)
         /\ ~r.failed => EntryAt(r.file, k) = EntryAt(Outcome(m, ops), k)
  BY RunFacts
<1>4. CASE k \notin Places
  <2>1. r.file \in Maps
    BY RunFacts
  <2>2. k \notin DOMAIN m /\ k \notin DOMAIN r.file
    BY <1>4, <2>1, MapsAre
  <2>3. EntryAt(m, k) = EntryAt(r.file, k)
    BY <2>2 DEF EntryAt
  <2>4. \A i \in 1 .. Len(ops) : From(ops[i]) \in Places
    BY EditParts, ElementOfSeq DEF From
  <2>5. Added(ops, k) = {}
    BY <1>4, <2>4 DEF Added
  <2> HIDE DEF r
  <2> QED BY <2>3, <2>5 DEF r
<1>2. old \subseteq Values(EntryAt(w, k)) /\ Values(EntryAt(w, k)) \subseteq old \cup Added(ops, k)
  BY AddsRewrite
<1>3. Values(EntryAt(Outcome(m, ops), k)) = old \cup Added(ops, k)
  BY AddsOutcome
<1> HIDE DEF r, w
<1> QED BY <1>1, <1>2, <1>3, <1>4 DEF r

-----------------------------------------------------------------------------
(* BuildCleaner: the runs of the script *)

DepsKey(m) == <<<<"own", m>>, "deps">>
DepsIn(f, m) == Values(EntryAt(f, DepsKey(m)))

\* What the script may rely on, as long as the user has edited nothing: a module never has
\* a dependency less than at first, nor one that nobody asked for.
CleanerInv ==
    request.tool = "cleaner" =>
        /\ OnlyAdds(request.ops)
        /\ \A m \in ToSet(request.in.closure) : Added(request.ops, DepsKey(m)) = Needed(request.in, m)
        /\ bzAt = "written" => commands = request.ops
        /\ edited = {} => \A m \in ToSet(request.in.closure) :
              /\ request.in.deps[m] \subseteq DepsIn(buildFile, m)
              /\ DepsIn(buildFile, m) \subseteq request.in.deps[m] \cup Needed(request.in, m)
        /\ DepsResolved

\* At first the BUILD files have what they have.
LEMMA CleanerInvInit == BzInit => CleanerInv
<1> SUFFICES ASSUME BzInit, request.tool = "cleaner" PROVE CleanerInv
    BY DEF CleanerInv
<1>1. PICK tool \in Tool : request \in Request(tool)
  BY DEF BzInit
<1>2. OnlyAdds(request.ops)
      /\ \A m \in ToSet(request.in.closure) : Added(request.ops, DepsKey(m)) = Needed(request.in, m)
  BY <1>1, CleanerOps DEF DepsKey
<1>3. buildFile \in OldFile(request) /\ bzAt = "idle"
  BY DEF BzInit
<1>4. \A m \in ToSet(request.in.closure) : DepsIn(buildFile, m) = request.in.deps[m]
  BY <1>1, <1>3, CleanerAssumption DEF DepsIn, DepsKey
<1> QED BY <1>2, <1>3, <1>4 DEF CleanerInv, DepsResolved

\* A step that leaves the BUILD files alone, and ends no run.
LEMMA CleanerElsewhere ==
    ASSUME CleanerInv, UNCHANGED <<request, buildFile, edited>>, bzAt' \notin {"written", "done"}
    PROVE  CleanerInv'
BY DEF CleanerInv, DepsResolved

\* The commands are the additions.
LEMMA WriteCommandsCleaner == BzInv /\ CleanerInv /\ WriteCommands => CleanerInv'
<1> SUFFICES ASSUME BzInv, CleanerInv, WriteCommands PROVE CleanerInv'
    OBVIOUS
<1>1. commands' = CreateCommands(existing, request.ops).cmds /\ UNCHANGED <<request, buildFile, edited>>
      /\ bzAt' = "written"
  BY DEF WriteCommands
<1>2. request.ops \in Seq(Edits(Word)) /\ existing \in Maps
  BY DEF BzInv, BzTypeOK
<1>3. request.tool = "cleaner" => commands' = request.ops
  BY <1>1, <1>2, AddsWritten DEF CleanerInv
<1> QED BY <1>1, <1>3 DEF CleanerInv, DepsResolved

\* They add what is needed, all of it if none fails.
LEMMA RunBuildozerCleaner == BzInv /\ CleanerInv /\ RunBuildozer => CleanerInv'
<1> SUFFICES ASSUME BzInv, CleanerInv, RunBuildozer, request.tool = "cleaner" PROVE CleanerInv'
    BY DEF CleanerInv, RunBuildozer
<1> DEFINE r == RunBuildozerOn(buildFile, commands)
           ops == request.ops
           in == request.in
<1>1. /\ bzAt = "written" /\ buildFile' = r.file /\ bzAt' = (IF r.failed THEN "raised" ELSE "done")
      /\ UNCHANGED <<request, commands, edited>>
  BY DEF RunBuildozer
<1>2. buildFile \in Maps /\ ops \in Seq(Edits(Word))
  BY DEF BzInv, BzTypeOK
<1>3. /\ OnlyAdds(ops) /\ commands = ops
      /\ \A m \in ToSet(in.closure) : Added(ops, DepsKey(m)) = Needed(in, m)
      /\ edited = {} => \A m \in ToSet(in.closure) :
            in.deps[m] \subseteq DepsIn(buildFile, m) /\ DepsIn(buildFile, m) \subseteq in.deps[m] \cup Needed(in, m)
  BY <1>1 DEF CleanerInv
<1>4. \A m \in ToSet(in.closure) :
         /\ DepsIn(buildFile, m) \subseteq DepsIn(r.file, m)
         /\ DepsIn(r.file, m) \subseteq DepsIn(buildFile, m) \cup Needed(in, m)
         /\ ~r.failed => DepsIn(r.file, m) = DepsIn(buildFile, m) \cup Needed(in, m)
  BY <1>2, <1>3, AddsRun DEF DepsIn
<1> HIDE DEF r
<1>5. edited = {} => \A m \in ToSet(in.closure) :
         /\ in.deps[m] \subseteq DepsIn(buildFile', m)
         /\ DepsIn(buildFile', m) \subseteq in.deps[m] \cup Needed(in, m)
         /\ bzAt' = "done" => DepsIn(buildFile', m) = in.deps[m] \cup Needed(in, m)
  BY <1>1, <1>3, <1>4
<1>6. DepsResolved'
  BY <1>1, <1>5 DEF DepsResolved, DepsIn, DepsKey
<1> QED BY <1>1, <1>3, <1>5, <1>6 DEF CleanerInv

\* Each step.
LEMMA CleanerInvStep == BzInv /\ CleanerInv /\ [BzNext]_bzVars => CleanerInv'
<1> SUFFICES ASSUME BzInv, CleanerInv, [BzNext]_bzVars PROVE CleanerInv'
    OBVIOUS
<1>1. CASE DryRun
  <2>1. UNCHANGED <<request, buildFile, edited>> /\ bzAt' \in {"raised", "dry"}
    BY <1>1 DEF DryRun
  <2> QED BY <2>1, CleanerElsewhere
<1>2. CASE GetAllInfo
  <2>1. UNCHANGED <<request, buildFile, edited>> /\ bzAt' = "queried"
    BY <1>2 DEF GetAllInfo
  <2> QED BY <2>1, CleanerElsewhere
<1>3. CASE WriteCommands
  BY <1>3, WriteCommandsCleaner
<1>4. CASE RunBuildozer
  BY <1>4, RunBuildozerCleaner
<1>5. CASE UserEdits
  <2>1. edited' # {} /\ bzAt' = "idle" /\ UNCHANGED request
    BY <1>5 DEF UserEdits
  <2> QED BY <2>1 DEF CleanerInv, DepsResolved
<1>6. CASE UNCHANGED bzVars
  BY <1>6 DEF CleanerInv, DepsResolved, bzVars
<1> QED BY <1>1, <1>2, <1>3, <1>4, <1>5, <1>6 DEF BzNext

\* build_cleaner.py adds to every module of the closure exactly the modules that export
\* what modpost misses, after failed runs too, whatever the files had.
THEOREM DepsAreResolved == BzSpec => []DepsResolved
<1>1. CleanerInv => DepsResolved
  BY DEF CleanerInv, DepsResolved
<1>2. BzInit => BzInv /\ CleanerInv
  BY BzInvInit, CleanerInvInit
<1>3. BzInv /\ CleanerInv /\ [BzNext]_bzVars => (BzInv /\ CleanerInv)'
  BY BzInvStep, CleanerInvStep
<1> QED BY <1>1, <1>2, <1>3, PTL DEF BzSpec

-----------------------------------------------------------------------------
(* GenMakefiles: what make reads *)

ReadFold == INSTANCE SequenceFolds WITH Op <- LAMBDA c, r, l : Read(c, r, l)
KeepFold == INSTANCE SequenceFolds WITH Op <- LAMBDA p, kept, f : KeepSource(kept, f)
SrcFold == INSTANCE SequenceFolds WITH Op <- LAMBDA p, lines, f : HandleSrc(p[1], p[2], lines, f)

State(b, O, F) == [on |-> b, objects |-> O, flags |-> F]

\* The pairs of a module and an object that lines speak of.
Pairs(X) == {<<l.of, l.o>> : l \in X} \cup {<<l.o, l.of>> : l \in X}
States(X, O, F) ==
    {State(b, o, f) : b \in BOOLEAN, o \in SUBSET (O \cup Pairs(X)), f \in SUBSET (F \cup Pairs(X))}

IsPlain(l) == l.k \notin {"ifeq", "endif"}
IsPart(c, l) == l.k = "object" /\ (l.suffix = "y" \/ c[l.suffix] \in {"y", "m"})
ObjectsIn(c, X) == {<<l.of, l.o>> : l \in {x \in X : IsPart(c, x)}}
FlagsIn(X) == {<<l.o, l.of>> : l \in {x \in X : x.k = "cflags"}}

\* A line that is no condition adds what it says where the lines are on, and nothing elsewhere.
PlainRead(c, l, O, F) ==
    /\ Read(c, State(TRUE, O, F), l) =
           State(TRUE, O \cup ObjectsIn(c, {l}), F \cup FlagsIn({l}))
    /\ Read(c, State(FALSE, O, F), l) = State(FALSE, O, F)

LEMMA ReadPlainLine ==
    ASSUME NEW c, NEW l, IsPlain(l), NEW O, NEW F
    PROVE  PlainRead(c, l, O, F)
<1>1. l.k # "ifeq" /\ l.k # "endif"
  BY DEF IsPlain
<1>2. Read(c, State(FALSE, O, F), l) = State(FALSE, O, F)
  BY <1>1 DEF Read, State
<1>3. CASE l.k = "object"
  <2>1. FlagsIn({l}) = {}
    BY <1>3 DEF FlagsIn
  <2>2. CASE IsPart(c, l)
    <3>1. ObjectsIn(c, {l}) = {<<l.of, l.o>>}
      BY <2>2 DEF ObjectsIn
    <3>2. Read(c, State(TRUE, O, F), l) = State(TRUE, O \cup {<<l.of, l.o>>}, F)
      BY <1>3, <2>2 DEF Read, State, IsPart
    <3> QED BY <1>2, <2>1, <3>1, <3>2 DEF PlainRead
  <2>3. CASE ~IsPart(c, l)
    <3>1. ObjectsIn(c, {l}) = {}
      BY <2>3 DEF ObjectsIn
    <3>2. Read(c, State(TRUE, O, F), l) = State(TRUE, O, F)
      BY <1>3, <2>3 DEF Read, State, IsPart
    <3> QED BY <1>2, <2>1, <3>1, <3>2 DEF PlainRead
  <2> QED BY <2>2, <2>3
<1>4. CASE l.k # "object"
  <2>1. ObjectsIn(c, {l}) = {}
    BY <1>4 DEF ObjectsIn, IsPart
  <2>2. CASE l.k = "cflags"
    <3>1. FlagsIn({l}) = {<<l.o, l.of>>}
      BY <2>2 DEF FlagsIn
    <3>2. Read(c, State(TRUE, O, F), l) = State(TRUE, O, F \cup {<<l.o, l.of>>})
      BY <2>2 DEF Read, State
    <3> QED BY <1>2, <2>1, <3>1, <3>2 DEF PlainRead
  <2>3. CASE l.k # "cflags"
    <3>1. FlagsIn({l}) = {}
      BY <2>3 DEF FlagsIn
    <3>2. Read(c, State(TRUE, O, F), l) = State(TRUE, O, F)
      BY <1>1, <1>4, <2>3 DEF Read, State
    <3> QED BY <1>2, <2>1, <3>1, <3>2 DEF PlainRead
  <2> QED BY <2>2, <2>3
<1> QED BY <1>3, <1>4

\* Reading stays among the pairs that the lines speak of.
LEMMA ReadTyped ==
    ASSUME NEW c, NEW X, NEW O, NEW F
    PROVE  /\ \A r \in States(X, O, F), l \in X : Read(c, r, l) \in States(X, O, F)
           /\ \A b \in BOOLEAN : State(b, O, F) \in States(X, O, F)
<1> DEFINE A == SUBSET (O \cup Pairs(X))
           B == SUBSET (F \cup Pairs(X))
<1>1. States(X, O, F) = {State(b, o, f) : b \in BOOLEAN, o \in A, f \in B}
  BY DEF States
<1>2. \A l \in X : <<l.of, l.o>> \in Pairs(X) /\ <<l.o, l.of>> \in Pairs(X)
  BY DEF Pairs
<1>3. O \in A /\ F \in B
  OBVIOUS
<1>4. \A o \in A, f \in B, Q \in SUBSET Pairs(X) : o \cup Q \in A /\ f \cup Q \in B
  OBVIOUS
<1> HIDE DEF A, B
<1>5. \A b \in BOOLEAN, o \in A, f \in B : State(b, o, f) \in States(X, O, F)
  BY <1>1
<1>6. ASSUME NEW r \in States(X, O, F), NEW l \in X
      PROVE  Read(c, r, l) \in States(X, O, F)
  <2>1. PICK b \in BOOLEAN, o \in A, f \in B : r = State(b, o, f)
    BY <1>1
  <2>2. CASE l.k = "ifeq"
    <3>1. Read(c, r, l) = State(c[l.config] = l.value, o, f)
      BY <2>1, <2>2 DEF Read, State
    <3> DEFINE on == c[l.config] = l.value
    <3>2. on \in BOOLEAN
      OBVIOUS
    <3> HIDE DEF on
    <3>3. State(on, o, f) \in States(X, O, F)
      BY <1>5, <3>2
    <3> QED BY <3>1, <3>3 DEF on
  <2>3. CASE l.k = "endif"
    <3>1. Read(c, r, l) = State(TRUE, o, f)
      BY <2>1, <2>3 DEF Read, State
    <3> QED BY <1>5, <3>1
  <2>4. CASE IsPlain(l)
    <3>1. ObjectsIn(c, {l}) \in SUBSET Pairs(X) /\ FlagsIn({l}) \in SUBSET Pairs(X)
      BY <1>2 DEF ObjectsIn, FlagsIn
    <3>2. PlainRead(c, l, o, f)
      BY <2>4, ReadPlainLine
    <3>3. o \cup ObjectsIn(c, {l}) \in A /\ f \cup FlagsIn({l}) \in B
      BY <1>4, <3>1
    <3>4. CASE b = TRUE
      BY <1>5, <2>1, <3>2, <3>3, <3>4 DEF PlainRead
    <3>5. CASE b = FALSE
      BY <1>5, <2>1, <3>2, <3>5 DEF PlainRead
    <3> QED BY <3>4, <3>5
  <2> QED BY <2>2, <2>3, <2>4 DEF IsPlain
<1> QED BY <1>3, <1>5, <1>6

Result(c, r, lines) == ReadFold!FoldValue(c, r, lines)

\* No line, one line, and lines in a row.
ResultsAre(c, base) ==
    /\ Result(c, base, <<>>) = base
    /\ \A l : Result(c, base, <<l>>) = Read(c, base, l)
    /\ \A X : \A s, r \in Seq(X) : Result(c, base, s \o r) = Result(c, Result(c, base, s), r)

LEMMA ResultFacts ==
    ASSUME NEW c, NEW O, NEW F, NEW b \in BOOLEAN
    PROVE  ResultsAre(c, State(b, O, F))
<1> DEFINE base == State(b, O, F)
<1>1. ASSUME NEW l
      PROVE  Result(c, base, <<>>) = base /\ Result(c, base, <<l>>) = Read(c, base, l)
  <2> DEFINE V == States({l}, O, F)
             none == <<>>
  <2>1. base \in V /\ \A r \in V, x \in {l} : Read(c, r, x) \in V
    BY ReadTyped
  <2>2. none \in Seq({l}) /\ l \in {l} /\ Append(none, l) = <<l>>
    OBVIOUS
  <2> HIDE DEF V, base, none
  <2>3. ReadFold!FoldsOn(c, V, base, none, l)
    BY <2>1, <2>2, ReadFold!FoldAppend
  <2> QED BY <2>2, <2>3 DEF ReadFold!FoldsOn, Result, none
<1>2. ASSUME NEW X, NEW s \in Seq(X), NEW r \in Seq(X)
      PROVE  Result(c, base, s \o r) = Result(c, Result(c, base, s), r)
  <2> DEFINE V == States(X, O, F)
  <2>1. base \in V /\ \A q \in V, x \in X : Read(c, q, x) \in V
    BY ReadTyped
  <2> HIDE DEF V, base
  <2>2. ReadFold!FoldsInARow(c, V, base, s, r)
    BY <2>1, ReadFold!FoldConcat
  <2> QED BY <2>2 DEF ReadFold!FoldsInARow, Result
<1> QED BY <1>1, <1>2 DEF ResultsAre

\* Lines that are no conditions add what they say, whatever their order.
PlainResult(c, lines, O, F) ==
    /\ Result(c, State(TRUE, O, F), lines) =
           State(TRUE, O \cup ObjectsIn(c, ToSet(lines)), F \cup FlagsIn(ToSet(lines)))
    /\ Result(c, State(FALSE, O, F), lines) = State(FALSE, O, F)

LEMMA ReadPlain ==
    ASSUME NEW c, NEW X, NEW lines \in Seq(X), \A l \in ToSet(lines) : IsPlain(l), NEW O, NEW F
    PROVE  PlainResult(c, lines, O, F)
<1> DEFINE n == Len(lines)
           Y == ToSet(lines)
           V == States(Y, O, F)
           P(i) == {lines[j] : j \in 1 .. i}
           At(i) == State(TRUE, O \cup ObjectsIn(c, P(i)), F \cup FlagsIn(P(i)))
           off == State(FALSE, O, F)
           on == State(TRUE, O, F)
<1>1. n \in Nat /\ DOMAIN lines = 1 .. n
  BY LenProperties
<1>2. lines \in Seq(Y) /\ \A i \in 1 .. n : lines[i] \in Y
  BY <1>1, LenProperties DEF ToSet
<1>3. P(n) = Y
  BY <1>1 DEF ToSet
<1>4. on \in V /\ off \in V /\ \A r \in V, l \in Y : Read(c, r, l) \in V
  BY ReadTyped
<1>5. on = At(0)
  <2>1. P(0) = {}
    OBVIOUS
  <2>2. ObjectsIn(c, {}) = {} /\ FlagsIn({}) = {}
    BY DEF ObjectsIn, FlagsIn
  <2> HIDE DEF P
  <2> QED BY <2>1, <2>2
<1>6. ASSUME NEW i \in 1 .. n
      PROVE  Read(c, At(i - 1), lines[i]) = At(i) /\ Read(c, off, lines[i]) = off
  <2> DEFINE l == lines[i]
  <2>1. IsPlain(l)
    BY <1>2
  <2>2. \A j : j \in 1 .. i <=> j \in 1 .. (i - 1) \/ j = i
    BY <1>1
  <2>3. P(i) = P(i - 1) \cup {l}
    BY <2>2
  <2> HIDE DEF P, l
  <2>4. ObjectsIn(c, P(i)) = ObjectsIn(c, P(i - 1)) \cup ObjectsIn(c, {l})
    BY <2>3 DEF ObjectsIn
  <2>5. FlagsIn(P(i)) = FlagsIn(P(i - 1)) \cup FlagsIn({l})
    BY <2>3 DEF FlagsIn
  <2> DEFINE a == O \cup ObjectsIn(c, P(i - 1))
             b == F \cup FlagsIn(P(i - 1))
  <2>6. PlainRead(c, l, a, b) /\ PlainRead(c, l, O, F)
    BY <2>1, ReadPlainLine
  <2>7. a \cup ObjectsIn(c, {l}) = O \cup ObjectsIn(c, P(i)) /\ b \cup FlagsIn({l}) = F \cup FlagsIn(P(i))
    BY <2>4, <2>5
  <2> HIDE DEF a, b
  <2>8. Read(c, State(TRUE, a, b), l) = At(i) /\ Read(c, off, l) = off
    BY <2>6, <2>7 DEF PlainRead
  <2> QED BY <2>8 DEF a, b, l
<1> HIDE DEF V, on, off, At, P
<1>7. Result(c, on, lines) = At(n)
  <2>1. PICK t \in [0 .. n -> V] : ReadFold!IsTrace(t, c, on, lines)
    BY <1>2, <1>4, ReadFold!FoldTrace DEF ReadFold!Trace
  <2> DEFINE T == {i \in 0 .. n : t[i] = At(i)}
  <2>2. 0 \in T
    BY <1>1, <1>5, <2>1 DEF ReadFold!IsTrace
  <2>3. ASSUME NEW i \in 0 .. (n - 1), i \in T PROVE i + 1 \in T
    <3>1. i + 1 \in 1 .. n /\ i + 1 \in 0 .. n /\ (i + 1) - 1 = i
      BY <1>1
    <3>2. t[i + 1] = Read(c, t[i], lines[i + 1])
      BY <2>1, <3>1 DEF ReadFold!IsTrace
    <3> QED BY <1>6, <2>3, <3>1, <3>2
  <2>4. 0 .. n \subseteq T
    <3> HIDE DEF T, n
    <3> QED BY <1>1, <2>2, <2>3, ReadFold!UpTo
  <2>5. n \in 0 .. n
    BY <1>1
  <2>6. t[n] = Result(c, on, lines)
    BY <2>1 DEF ReadFold!IsTrace, Result
  <2> QED BY <2>4, <2>5, <2>6
<1>8. Result(c, off, lines) = off
  <2>1. PICK t \in [0 .. n -> V] : ReadFold!IsTrace(t, c, off, lines)
    BY <1>2, <1>4, ReadFold!FoldTrace DEF ReadFold!Trace
  <2> DEFINE T == {i \in 0 .. n : t[i] = off}
  <2>2. 0 \in T
    BY <1>1, <2>1 DEF ReadFold!IsTrace
  <2>3. ASSUME NEW i \in 0 .. (n - 1), i \in T PROVE i + 1 \in T
    <3>1. i + 1 \in 1 .. n /\ i + 1 \in 0 .. n /\ (i + 1) - 1 = i
      BY <1>1
    <3>2. t[i + 1] = Read(c, t[i], lines[i + 1])
      BY <2>1, <3>1 DEF ReadFold!IsTrace
    <3> QED BY <1>6, <2>3, <3>1, <3>2
  <2>4. 0 .. n \subseteq T
    <3> HIDE DEF T, n
    <3> QED BY <1>1, <2>2, <2>3, ReadFold!UpTo
  <2>5. n \in 0 .. n
    BY <1>1
  <2>6. t[n] = Result(c, off, lines)
    BY <2>1 DEF ReadFold!IsTrace, Result
  <2> QED BY <2>4, <2>5, <2>6
<1> QED BY <1>3, <1>7, <1>8 DEF PlainResult, At, on, off

\* Lines that add these objects and flags, and leave what comes after them on.
Reads(c, lines, A, B) ==
    /\ lines \in Seq(ToSet(lines))
    /\ \A O, F : Result(c, State(TRUE, O, F), lines) = State(TRUE, O \cup A, F \cup B)

LEMMA ReadsPlain ==
    ASSUME NEW c, NEW X, NEW lines \in Seq(X), \A l \in ToSet(lines) : IsPlain(l)
    PROVE  Reads(c, lines, ObjectsIn(c, ToSet(lines)), FlagsIn(ToSet(lines)))
<1>1. lines \in Seq(ToSet(lines))
  BY OwnElements
<1>2. \A O, F : PlainResult(c, lines, O, F)
  BY ReadPlain
<1> QED BY <1>1, <1>2 DEF PlainResult, Reads

\* Two sets of lines, one after the other.
LEMMA ReadsInARow ==
    ASSUME NEW c, NEW s, NEW r, NEW A, NEW B, NEW C, NEW D, Reads(c, s, A, B), Reads(c, r, C, D)
    PROVE  Reads(c, s \o r, A \cup C, B \cup D)
<1> DEFINE X == ToSet(s) \cup ToSet(r)
<1>1. s \in Seq(X) /\ r \in Seq(X)
  <2>1. s \in Seq(ToSet(s)) /\ r \in Seq(ToSet(r))
    BY DEF Reads
  <2>2. ToSet(s) \subseteq X /\ ToSet(r) \subseteq X
    OBVIOUS
  <2> HIDE DEF X
  <2> QED BY <2>1, <2>2, SeqMonotonic
<1>2. s \o r \in Seq(X) /\ ToSet(s \o r) = X
  BY <1>1, ConcatProperties, ConcatSet
<1> HIDE DEF X
<1>3. ASSUME NEW O, NEW F
      PROVE  Result(c, State(TRUE, O, F), s \o r) = State(TRUE, O \cup (A \cup C), F \cup (B \cup D))
  <2>1. Result(c, State(TRUE, O, F), s \o r) = Result(c, Result(c, State(TRUE, O, F), s), r)
    <3>1. ResultsAre(c, State(TRUE, O, F))
      BY ResultFacts
    <3> QED BY <1>1, <3>1 DEF ResultsAre
  <2>2. Result(c, State(TRUE, O, F), s) = State(TRUE, O \cup A, F \cup B)
    BY DEF Reads
  <2>3. Result(c, State(TRUE, O \cup A, F \cup B), r) = State(TRUE, (O \cup A) \cup C, (F \cup B) \cup D)
    BY DEF Reads
  <2>4. (O \cup A) \cup C = O \cup (A \cup C) /\ (F \cup B) \cup D = F \cup (B \cup D)
    OBVIOUS
  <2> QED BY <2>1, <2>2, <2>3, <2>4
<1> QED BY <1>2, <1>3 DEF Reads

\* An item whose lines make reads.
Holds(item, c) == Conditional(item) => c[item.config] = item.value

LEMMA ReadsGuarded ==
    ASSUME NEW c, NEW X, NEW item, NEW lines \in Seq(X), \A l \in ToSet(lines) : IsPlain(l)
    PROVE  Reads(c, Guarded(item, lines),
                 IF Holds(item, c) THEN ObjectsIn(c, ToSet(lines)) ELSE {},
                 IF Holds(item, c) THEN FlagsIn(ToSet(lines)) ELSE {})
<1> DEFINE A == ObjectsIn(c, ToSet(lines))
           B == FlagsIn(ToSet(lines))
<1>1. CASE ~Conditional(item)
  <2>1. Guarded(item, lines) = lines /\ Holds(item, c)
    BY <1>1 DEF Guarded, Holds
  <2> QED BY <2>1, ReadsPlain
<1>2. CASE Conditional(item)
  <2> DEFINE ifeq == [k |-> "ifeq", config |-> item.config, value |-> item.value]
             endif == [k |-> "endif"]
             Y == ToSet(lines) \cup {ifeq, endif}
             start == <<ifeq>> \o lines
             all == start \o <<endif>>
  <2>1. Guarded(item, lines) = all
    BY <1>2 DEF Guarded
  <2>2. <<ifeq>> \in Seq(Y) /\ <<endif>> \in Seq(Y)
    BY <2>1
  <2>3. lines \in Seq(Y)
    <3>1. lines \in Seq(ToSet(lines)) /\ ToSet(lines) \subseteq Y
      BY OwnElements
    <3> HIDE DEF Y
    <3> QED BY <3>1, SeqMonotonic
  <2>4. ifeq.k = "ifeq" /\ ifeq.config = item.config /\ ifeq.value = item.value /\ endif.k = "endif"
    OBVIOUS
  <2> HIDE DEF Y, ifeq, endif
  <2>5. start \in Seq(Y) /\ all \in Seq(Y)
    BY <2>2, <2>3, ConcatProperties
  <2>6. all \in Seq(ToSet(all))
    BY <2>5, OwnElements
  <2> DEFINE on == c[item.config] = item.value
  <2>7. on \in BOOLEAN /\ (on <=> Holds(item, c))
    BY <1>2 DEF Holds
  <2>8. ASSUME NEW O, NEW F
        PROVE  Result(c, State(TRUE, O, F), all) =
                   State(TRUE, O \cup (IF on THEN A ELSE {}), F \cup (IF on THEN B ELSE {}))
    <3>1. ResultsAre(c, State(TRUE, O, F))
      BY ResultFacts
    <3>2. Result(c, State(TRUE, O, F), all) =
              Result(c, Result(c, Result(c, State(TRUE, O, F), <<ifeq>>), lines), <<endif>>)
      BY <2>2, <2>3, <2>5, <3>1 DEF ResultsAre
    <3>3. Result(c, State(TRUE, O, F), <<ifeq>>) = Read(c, State(TRUE, O, F), ifeq)
      BY <3>1 DEF ResultsAre
    <3>4. Read(c, State(TRUE, O, F), ifeq) = State(on, O, F)
      BY <2>4 DEF Read, State
    <3>5. PlainResult(c, lines, O, F)
      BY ReadPlain
    <3>6. ASSUME NEW b \in BOOLEAN, NEW o, NEW f
          PROVE  Result(c, State(b, o, f), <<endif>>) = State(TRUE, o, f)
      <4>1. ResultsAre(c, State(b, o, f))
        BY ResultFacts
      <4>2. Read(c, State(b, o, f), endif) = State(TRUE, o, f)
        BY <2>4 DEF Read, State
      <4> QED BY <4>1, <4>2 DEF ResultsAre
    <3>7. CASE on
      <4>1. on = TRUE
        BY <2>7, <3>7
      <4> HIDE DEF on, start, all
      <4>2. Result(c, Result(c, State(TRUE, O, F), <<ifeq>>), lines) = State(TRUE, O \cup A, F \cup B)
        BY <3>3, <3>4, <3>5, <4>1 DEF PlainResult
      <4> QED BY <3>2, <3>6, <3>7, <4>2
    <3>8. CASE ~on
      <4>1. on = FALSE
        BY <2>7, <3>8
      <4> HIDE DEF on, start, all
      <4>2. Result(c, Result(c, State(TRUE, O, F), <<ifeq>>), lines) = State(FALSE, O, F)
        BY <3>3, <3>4, <3>5, <4>1 DEF PlainResult
      <4>3. O \cup {} = O /\ F \cup {} = F
        OBVIOUS
      <4>4. Result(c, State(FALSE, O, F), <<endif>>) = State(TRUE, O, F)
        BY <3>6
      <4>5. Result(c, State(TRUE, O, F), all) = State(TRUE, O, F)
        BY <3>2, <4>2, <4>4
      <4> QED BY <3>8, <4>3, <4>5
    <3> QED BY <3>7, <3>8
  <2> HIDE DEF all, on, A, B
  <2>9. Reads(c, all, IF on THEN A ELSE {}, IF on THEN B ELSE {})
    BY <2>6, <2>8 DEF Reads
  <2>10. (IF on THEN A ELSE {}) = (IF Holds(item, c) THEN A ELSE {})
         /\ (IF on THEN B ELSE {}) = (IF Holds(item, c) THEN B ELSE {})
    BY <2>7
  <2> QED BY <2>1, <2>9, <2>10 DEF A, B
<1> QED BY <1>1, <1>2

\* No line at all.
LEMMA ReadsNothing == \A c : Reads(c, <<>>, {}, {})
<1> SUFFICES ASSUME NEW c PROVE Reads(c, <<>>, {}, {})
    OBVIOUS
<1>1. <<>> \in Seq(ToSet(<<>>))
  OBVIOUS
<1>2. \A O, F : Result(c, State(TRUE, O, F), <<>>) = State(TRUE, O \cup {}, F \cup {})
  <2> TAKE O, F
  <2>1. ResultsAre(c, State(TRUE, O, F))
    BY ResultFacts
  <2>2. O \cup {} = O /\ F \cup {} = F
    OBVIOUS
  <2> QED BY <2>1, <2>2 DEF ResultsAre
<1> QED BY <1>1, <1>2 DEF Reads

\* The lines of several items add what each of them adds.
Upto(A, k) == UNION {A[i] : i \in 1 .. k}
EachReads(c, n, seqs, A, B) ==
    seqs = [i \in 1 .. n |-> seqs[i]] /\ \A i \in 1 .. n : Reads(c, seqs[i], A[i], B[i])

LEMMA ReadsFlatten ==
    ASSUME NEW c, NEW n \in Nat, NEW seqs, NEW A, NEW B, EachReads(c, n, seqs, A, B)
    PROVE  Reads(c, FlattenSeq(seqs), Upto(A, n), Upto(B, n))
<1> DEFINE X == UNION {ToSet(seqs[i]) : i \in 1 .. n}
<1>0. seqs = [i \in 1 .. n |-> seqs[i]] /\ \A i \in 1 .. n : Reads(c, seqs[i], A[i], B[i])
  BY DEF EachReads
<1>1. \A i \in 1 .. n : seqs[i] \in Seq(X)
  <2> SUFFICES ASSUME NEW i \in 1 .. n PROVE seqs[i] \in Seq(X)
      OBVIOUS
  <2>1. seqs[i] \in Seq(ToSet(seqs[i])) /\ ToSet(seqs[i]) \subseteq X
    BY <1>0 DEF Reads
  <2> HIDE DEF X
  <2> QED BY <2>1, SeqMonotonic
<1> HIDE DEF X
<1>2. seqs \in Seq(Seq(X)) /\ Len(seqs) = n
  BY <1>0, <1>1
<1>3. CASE n = 0
  <2>1. seqs = <<>>
    BY <1>2, <1>3, EmptySeq
  <2>2. FlattenSeq(seqs) = <<>>
    BY <1>2, <2>1, FlattenTrace
  <2>3. Upto(A, n) = {} /\ Upto(B, n) = {}
    BY <1>3 DEF Upto
  <2> QED BY <2>2, <2>3, ReadsNothing
<1>4. CASE n # 0
  <2>1. seqs # <<>>
    BY <1>2, <1>4, EmptySeq
  <2>2. PICK f : FlattenSteps(seqs, X, f)
    BY <1>2, <2>1, FlattenTrace
  <2>3. /\ f[1] = seqs[1] /\ f[n] = FlattenSeq(seqs)
        /\ \A k \in 1 .. (n - 1) : f[k + 1] = f[k] \o seqs[k + 1]
    BY <1>2, <2>2 DEF FlattenSteps
  <2> DEFINE T == {k \in 0 .. n : k # 0 => Reads(c, f[k], Upto(A, k), Upto(B, k))}
  <2>4. 0 \in T
    OBVIOUS
  <2>5. ASSUME NEW k \in 0 .. (n - 1), k \in T PROVE k + 1 \in T
    <3>1. k + 1 \in 1 .. n /\ k + 1 \in 0 .. n
      OBVIOUS
    <3>2. \A i : i \in 1 .. (k + 1) <=> i \in 1 .. k \/ i = k + 1
      BY <3>1
    <3>3. Upto(A, k + 1) = Upto(A, k) \cup A[k + 1] /\ Upto(B, k + 1) = Upto(B, k) \cup B[k + 1]
      BY <3>2 DEF Upto
    <3>4. Reads(c, seqs[k + 1], A[k + 1], B[k + 1])
      BY <1>0, <3>1
    <3>5. CASE k = 0
      <4>1. Upto(A, k) = {} /\ Upto(B, k) = {} /\ k + 1 = 1
        BY <3>5 DEF Upto
      <4>2. Upto(A, k + 1) = A[k + 1] /\ Upto(B, k + 1) = B[k + 1] /\ f[k + 1] = seqs[k + 1]
        BY <2>3, <3>3, <4>1
      <4> QED BY <3>1, <3>4, <4>2
    <3>6. CASE k # 0
      <4>1. k \in 1 .. (n - 1) /\ Reads(c, f[k], Upto(A, k), Upto(B, k))
        BY <2>5, <3>6
      <4>2. f[k + 1] = f[k] \o seqs[k + 1]
        BY <2>3, <4>1
      <4>3. Reads(c, f[k] \o seqs[k + 1], Upto(A, k) \cup A[k + 1], Upto(B, k) \cup B[k + 1])
        BY <3>4, <4>1, ReadsInARow
      <4> QED BY <3>1, <3>3, <4>2, <4>3
    <3> QED BY <3>5, <3>6
  <2>6. 0 .. n \subseteq T
    <3> HIDE DEF T
    <3> QED BY <2>4, <2>5, FlattenRec!UpTo
  <2>7. n \in 0 .. n
    OBVIOUS
  <2>8. Reads(c, f[n], Upto(A, n), Upto(B, n))
    <3> QED BY <1>4, <2>6, <2>7
  <2> QED BY <2>3, <2>8
<1> QED BY <1>3, <1>4

-----------------------------------------------------------------------------
(* GenMakefiles: the lines of one module *)

IsItem(item) == item.config # "y" /\ item.files \in Seq(ToSet(item.files))
IsModule(m) ==
    /\ m.out \notin {"Kbuild", "ddk_marker.c"} /\ m.items \in Seq(ToSet(m.items))
    /\ \A item \in ToSet(m.items) : IsItem(item)

\* A source that gets a line, and the line.
Mine(m, f) == IsSource(f) /\ Obj(f) # Own(m)
ObjectLine(m, suffix, f) == [k |-> "object", of |-> m.out, suffix |-> suffix, o |-> Obj(f)]
FlagLine(m, f) == [k |-> "cflags", o |-> Obj(f), of |-> m.out]
Suffix(item) == IF item.config # NoConfig /\ item.value = IsOn THEN item.config ELSE "y"

\* Every source but the one of the module's name gets a line.
LEMMA ObjectLinesFacts ==
    ASSUME NEW m, NEW item, item.files \in Seq(ToSet(item.files))
    PROVE  LET own == {ObjectLine(m, Suffix(item), f) : f \in {g \in ToSet(item.files) : Mine(m, g)}} IN
           ObjectLines(m, item) \in Seq(own) /\ ToSet(ObjectLines(m, item)) = own
<1> DEFINE files == item.files
           n == Len(files)
           suffix == Suffix(item)
           own == {ObjectLine(m, suffix, f) : f \in {g \in ToSet(files) : Mine(m, g)}}
           none == <<>>
           lines == SrcFold!FoldValue(<<m, suffix>>, none, files)
           Of == [i \in 0 .. n |-> {ObjectLine(m, suffix, f) : f \in {g \in {files[j] : j \in 1 .. i} : Mine(m, g)}}]
<1>1. n \in Nat /\ DOMAIN files = 1 .. n /\ ToSet(files) = {files[j] : j \in 1 .. n}
      /\ \A i \in 1 .. n : files[i] \in ToSet(files)
  BY LenProperties DEF ToSet
<1>2. ObjectLines(m, item) = lines
  BY DEF ObjectLines, Suffix, FoldLeft, MapThenFoldSet, Max, SrcFold!FoldValue, SrcFold!Greatest
<1>3. ASSUME NEW s \in Seq(own), NEW f \in ToSet(files)
      PROVE  /\ HandleSrc(m, suffix, s, f) \in Seq(own)
             /\ ToSet(HandleSrc(m, suffix, s, f)) =
                    ToSet(s) \cup (IF Mine(m, f) THEN {ObjectLine(m, suffix, f)} ELSE {})
  <2> HIDE DEF suffix
  <2>1. CASE Mine(m, f)
    <3>1. HandleSrc(m, suffix, s, f) = Append(s, ObjectLine(m, suffix, f))
      BY <2>1 DEF Mine, HandleSrc, ObjectLine
    <3>2. ObjectLine(m, suffix, f) \in own
      BY <2>1
    <3> HIDE DEF own
    <3> QED BY <2>1, <3>1, <3>2, AppendSet
  <2>2. CASE ~Mine(m, f)
    <3>1. HandleSrc(m, suffix, s, f) = s
      BY <2>2 DEF Mine, HandleSrc
    <3> QED BY <2>2, <3>1
  <2> QED BY <2>1, <2>2
<1>4. none \in Seq(own) /\ ToSet(none) = {}
  BY DEF ToSet
<1> HIDE DEF own, none, lines, suffix
<1>5. PICK t \in [0 .. n -> Seq(own)] : SrcFold!IsTrace(t, <<m, suffix>>, none, files)
  <2>1. \A s \in Seq(own), f \in ToSet(files) : HandleSrc(<<m, suffix>>[1], <<m, suffix>>[2], s, f) \in Seq(own)
    BY <1>3
  <2>2. SrcFold!Trace(<<m, suffix>>, Seq(own), none, files)
    BY <1>4, <2>1, SrcFold!FoldTrace
  <2> QED BY <2>2 DEF SrcFold!Trace
<1> DEFINE T == {i \in 0 .. n : ToSet(t[i]) = Of[i]}
<1>6. 0 \in T
  <2>1. 0 \in 0 .. n /\ Of[0] = {}
    BY <1>1
  <2>2. t[0] = none
    BY <1>5, Zenon DEF SrcFold!IsTrace
  <2> HIDE DEF Of
  <2> QED BY <1>1, <1>4, <2>1, <2>2
<1>7. ASSUME NEW i \in 0 .. (n - 1), i \in T PROVE i + 1 \in T
  <2> DEFINE f == files[i + 1]
             one == IF Mine(m, f) THEN {ObjectLine(m, suffix, f)} ELSE {}
  <2>1. i + 1 \in 1 .. n /\ i + 1 \in 0 .. n /\ (i + 1) - 1 = i /\ i \in 0 .. n
    BY <1>1
  <2>2. t[i + 1] = HandleSrc(m, suffix, t[i], f)
    BY <1>5, <2>1 DEF SrcFold!IsTrace
  <2>3. t[i] \in Seq(own) /\ f \in ToSet(files)
    BY <1>1, <1>5, <2>1
  <2>4. \A j : j \in 1 .. (i + 1) <=> j \in 1 .. i \/ j = i + 1
    BY <2>1
  <2>5. Of[i + 1] = Of[i] \cup one
    <3>1. {files[j] : j \in 1 .. (i + 1)} = {files[j] : j \in 1 .. i} \cup {f}
      BY <2>4
    <3> HIDE DEF f
    <3> QED BY <2>1, <3>1
  <2> HIDE DEF f, Of
  <2>6. ToSet(t[i + 1]) = ToSet(t[i]) \cup one
    BY <1>3, <2>2, <2>3
  <2> QED BY <1>7, <2>1, <2>5, <2>6
<1>8. n \in T
  <2> HIDE DEF T, n
  <2>1. 0 .. n \subseteq T
    BY <1>1, <1>6, <1>7, SrcFold!UpTo
  <2> QED BY <1>1, <2>1
<1>9. Of[n] = own
  <2>1. n \in 0 .. n
    BY <1>1
  <2>2. Of[n] = {ObjectLine(m, suffix, f) : f \in {g \in {files[j] : j \in 1 .. n} : Mine(m, g)}}
    <3> HIDE DEF n, files
    <3> QED BY <2>1
  <2>3. {files[j] : j \in 1 .. n} = ToSet(files)
    BY <1>1
  <2> HIDE DEF Of, n, files
  <2> QED BY <2>2, <2>3 DEF own
<1>10. lines = t[n] /\ n \in 0 .. n
  BY <1>1, <1>5 DEF SrcFold!IsTrace, lines
<1> HIDE DEF Of
<1>11. lines \in Seq(own) /\ ToSet(lines) = own
  BY <1>5, <1>8, <1>9, <1>10
<1> QED BY <1>2, <1>11 DEF own, suffix

\* Every file of an item has a line for its flags.
LEMMA FlagLinesFacts ==
    ASSUME NEW m, NEW item, item.files \in Seq(ToSet(item.files))
    PROVE  LET own == {FlagLine(m, f) : f \in ToSet(item.files)} IN
           FlagLines(m, item) \in Seq(own) /\ ToSet(FlagLines(m, item)) = own
<1> DEFINE files == item.files
           n == Len(files)
           own == {FlagLine(m, f) : f \in ToSet(files)}
           lines == [i \in 1 .. n |-> FlagLine(m, files[i])]
<1>1. n \in Nat /\ DOMAIN files = 1 .. n
  BY LenProperties
<1>2. FlagLines(m, item) = lines
  BY <1>1 DEF FlagLines, FlagLine
<1>3. \A i \in 1 .. n : FlagLine(m, files[i]) \in own
  BY <1>1 DEF ToSet
<1>4. ToSet(lines) = own
  BY <1>1 DEF ToSet
<1> HIDE DEF own
<1>5. lines \in Seq(own)
  BY <1>1, <1>3
<1> QED BY <1>2, <1>4, <1>5 DEF own

\* What the lines of an item add under a configuration.
PartsOf(m, item, c) ==
    IF Active(item, c) THEN {<<m.out, Obj(f)>> : f \in {g \in ToSet(item.files) : Mine(m, g)}} ELSE {}
FlagsOf(m, item, c) ==
    IF Holds(item, c) THEN {<<Obj(f), m.out>> : f \in ToSet(item.files)} ELSE {}

LEMMA ItemReads ==
    ASSUME NEW m, NEW item, IsItem(item), NEW c
    PROVE  /\ Reads(c, Guarded(item, ObjectLines(m, item)), PartsOf(m, item, c), {})
           /\ Reads(c, Guarded(item, FlagLines(m, item)), {}, FlagsOf(m, item, c))
<1>1. item.files \in Seq(ToSet(item.files)) /\ item.config # "y"
  BY DEF IsItem
<1>2. Reads(c, Guarded(item, ObjectLines(m, item)), PartsOf(m, item, c), {})
  <2> DEFINE lines == ObjectLines(m, item)
             suffix == Suffix(item)
             files == {g \in ToSet(item.files) : Mine(m, g)}
             own == {ObjectLine(m, suffix, f) : f \in files}
  <2>1. lines \in Seq(own) /\ ToSet(lines) = own
    BY <1>1, ObjectLinesFacts
  <2>2. \A l \in own : IsPlain(l) /\ l.k # "cflags"
    BY DEF IsPlain, ObjectLine
  <2>3. FlagsIn(own) = {}
    BY <2>2 DEF FlagsIn
  <2>4. Holds(item, c) /\ (suffix = "y" \/ c[suffix] \in {"y", "m"}) <=> Active(item, c)
    BY <1>1 DEF Holds, Suffix, Conditional, Active
  <2> HIDE DEF suffix
  <2>5. ObjectsIn(c, own) =
            IF suffix = "y" \/ c[suffix] \in {"y", "m"} THEN {<<m.out, Obj(f)>> : f \in files} ELSE {}
    <3>1. CASE suffix = "y" \/ c[suffix] \in {"y", "m"}
      <4>1. \A l \in own : IsPart(c, l)
        BY <3>1 DEF IsPart, ObjectLine
      <4>2. ObjectsIn(c, own) = {<<l.of, l.o>> : l \in own}
        BY <4>1 DEF ObjectsIn
      <4>3. {<<l.of, l.o>> : l \in own} = {<<m.out, Obj(f)>> : f \in files}
        <5>1. \A f : ObjectLine(m, suffix, f).of = m.out /\ ObjectLine(m, suffix, f).o = Obj(f)
          BY DEF ObjectLine
        <5> HIDE DEF files
        <5> QED BY <5>1
      <4> QED BY <3>1, <4>2, <4>3
    <3>2. CASE ~(suffix = "y" \/ c[suffix] \in {"y", "m"})
      <4>1. \A l \in own : ~IsPart(c, l)
        BY <3>2 DEF IsPart, ObjectLine
      <4> QED BY <3>2, <4>1 DEF ObjectsIn
    <3> QED BY <3>1, <3>2
  <2>6. (IF Holds(item, c) THEN ObjectsIn(c, own) ELSE {}) = PartsOf(m, item, c)
    BY <2>4, <2>5 DEF PartsOf
  <2> HIDE DEF lines, own
  <2>7. Reads(c, Guarded(item, lines), IF Holds(item, c) THEN ObjectsIn(c, ToSet(lines)) ELSE {},
                 IF Holds(item, c) THEN FlagsIn(ToSet(lines)) ELSE {})
    BY <2>1, <2>2, ReadsGuarded
  <2>8. (IF Holds(item, c) THEN FlagsIn(own) ELSE {}) = {}
    BY <2>3
  <2> QED BY <2>1, <2>6, <2>7, <2>8 DEF lines
<1>3. Reads(c, Guarded(item, FlagLines(m, item)), {}, FlagsOf(m, item, c))
  <2> DEFINE lines == FlagLines(m, item)
             own == {FlagLine(m, f) : f \in ToSet(item.files)}
  <2>1. lines \in Seq(own) /\ ToSet(lines) = own
    BY <1>1, FlagLinesFacts
  <2>2. \A l \in own : IsPlain(l) /\ l.k = "cflags"
    BY DEF IsPlain, FlagLine
  <2>3. ObjectsIn(c, own) = {}
    BY <2>2 DEF ObjectsIn, IsPart
  <2>4. FlagsIn(own) = {<<Obj(f), m.out>> : f \in ToSet(item.files)}
    <3>1. FlagsIn(own) = {<<l.o, l.of>> : l \in own}
      BY <2>2 DEF FlagsIn
    <3>2. \A f : FlagLine(m, f).of = m.out /\ FlagLine(m, f).o = Obj(f)
      BY DEF FlagLine
    <3> QED BY <3>1, <3>2
  <2>5. (IF Holds(item, c) THEN FlagsIn(own) ELSE {}) = FlagsOf(m, item, c)
    BY <2>4 DEF FlagsOf
  <2> HIDE DEF lines, own
  <2>6. Reads(c, Guarded(item, lines), IF Holds(item, c) THEN ObjectsIn(c, ToSet(lines)) ELSE {},
                 IF Holds(item, c) THEN FlagsIn(ToSet(lines)) ELSE {})
    BY <2>1, <2>2, ReadsGuarded
  <2>7. (IF Holds(item, c) THEN ObjectsIn(c, own) ELSE {}) = {}
    BY <2>3
  <2> QED BY <2>1, <2>5, <2>6, <2>7 DEF lines
<1> QED BY <1>2, <1>3

\* The items of a module and the marker's.
LEMMA TaggedFacts ==
    ASSUME NEW m, IsModule(m)
    PROVE  LET marker == [files |-> <<Marker(m)>>, config |-> NoConfig, value |-> ""] IN
           /\ Tagged(m) \in Seq(ToSet(Tagged(m)))
           /\ ToSet(Tagged(m)) =
                  ToSet(m.items) \cup (IF Len(Flat(m.items)) > 1 THEN {marker} ELSE {})
           /\ \A item \in ToSet(Tagged(m)) : IsItem(item)
<1> DEFINE marker == [files |-> <<Marker(m)>>, config |-> NoConfig, value |-> ""]
           X == ToSet(m.items) \cup {marker}
<1>1. m.items \in Seq(ToSet(m.items)) /\ \A item \in ToSet(m.items) : IsItem(item)
  BY DEF IsModule
<1>2. IsItem(marker)
  <2>1. marker.files = <<Marker(m)>> /\ marker.config = "none"
    BY DEF NoConfig
  <2> DEFINE s == <<Marker(m)>>
  <2>2. s \in Seq({Marker(m)})
    OBVIOUS
  <2> HIDE DEF s
  <2>3. s \in Seq(ToSet(s))
    BY <2>2, OwnElements
  <2> QED BY <2>1, <2>3 DEF IsItem, s
<1> HIDE DEF marker
<1>3. m.items \in Seq(X)
  <2>1. ToSet(m.items) \subseteq X
    OBVIOUS
  <2> HIDE DEF X
  <2> QED BY <1>1, <2>1, SeqMonotonic
<1>4. Append(m.items, marker) \in Seq(X) /\ ToSet(Append(m.items, marker)) = ToSet(m.items) \cup {marker}
  BY <1>3, AppendSet
<1>5. Tagged(m) = IF Len(Flat(m.items)) > 1 THEN Append(m.items, marker) ELSE m.items
  BY DEF Tagged, marker
<1> HIDE DEF X
<1>6. /\ Tagged(m) \in Seq(X)
      /\ ToSet(Tagged(m)) = ToSet(m.items) \cup (IF Len(Flat(m.items)) > 1 THEN {marker} ELSE {})
  BY <1>3, <1>4, <1>5
<1>7. Tagged(m) \in Seq(ToSet(Tagged(m)))
  BY <1>6, OwnElements
<1>8. \A item \in ToSet(Tagged(m)) : IsItem(item)
  BY <1>1, <1>2, <1>6
<1> QED BY <1>6, <1>7, <1>8 DEF marker

\* What the Kbuild of a module adds under a configuration.
KbuildParts(m, c) == UNION {PartsOf(m, item, c) : item \in ToSet(Tagged(m))}
KbuildFlags(m, c) == UNION {FlagsOf(m, item, c) : item \in ToSet(Tagged(m))}

LEMMA KbuildReads ==
    ASSUME NEW m, IsModule(m), NEW c
    PROVE  Reads(c, KbuildLines(m), KbuildParts(m, c), KbuildFlags(m, c))
<1> DEFINE items == Tagged(m)
           n == Len(items)
           A == [i \in 1 .. n |-> PartsOf(m, items[i], c)]
           B == [i \in 1 .. n |-> FlagsOf(m, items[i], c)]
           Z == [i \in 1 .. n |-> {}]
           objects == [i \in 1 .. n |-> Guarded(items[i], ObjectLines(m, items[i]))]
           flags == [i \in 1 .. n |-> Guarded(items[i], FlagLines(m, items[i]))]
           head == [k |-> "module", of |-> m.out]
<1>1. /\ n \in Nat /\ DOMAIN items = 1 .. n /\ ToSet(items) = {items[i] : i \in 1 .. n}
      /\ \A i \in 1 .. n : IsItem(items[i])
  <2>1. items \in Seq(ToSet(items)) /\ \A item \in ToSet(items) : IsItem(item)
    BY TaggedFacts
  <2> HIDE DEF items
  <2> QED BY <2>1, LenProperties DEF ToSet
<1>2. KbuildLines(m) = <<head>> \o FlattenSeq(objects) \o FlattenSeq(flags)
  BY <1>1 DEF KbuildLines
<1> HIDE DEF items, n, head
<1>3. Reads(c, FlattenSeq(objects), Upto(A, n), Upto(Z, n))
  <2>1. \A i \in 1 .. n : Reads(c, objects[i], A[i], Z[i])
    BY <1>1, ItemReads
  <2>2. objects = [i \in 1 .. n |-> objects[i]]
    OBVIOUS
  <2> HIDE DEF objects, A, Z
  <2>3. EachReads(c, n, objects, A, Z)
    BY <2>1, <2>2 DEF EachReads
  <2> QED BY <1>1, <2>3, ReadsFlatten
<1>4. Reads(c, FlattenSeq(flags), Upto(Z, n), Upto(B, n))
  <2>1. \A i \in 1 .. n : Reads(c, flags[i], Z[i], B[i])
    BY <1>1, ItemReads
  <2>2. flags = [i \in 1 .. n |-> flags[i]]
    OBVIOUS
  <2> HIDE DEF flags, B, Z
  <2>3. EachReads(c, n, flags, Z, B)
    BY <2>1, <2>2 DEF EachReads
  <2> QED BY <1>1, <2>3, ReadsFlatten
<1>5. Reads(c, <<head>>, {}, {})
  <2>1. <<head>> \in Seq({head}) /\ ToSet(<<head>>) = {head} /\ head.k = "module"
    BY DEF ToSet, head
  <2>2. \A l \in ToSet(<<head>>) : IsPlain(l)
    BY <2>1 DEF IsPlain
  <2>3. ObjectsIn(c, {head}) = {} /\ FlagsIn({head}) = {}
    BY <2>1 DEF ObjectsIn, FlagsIn, IsPart
  <2> QED BY <2>1, <2>2, <2>3, ReadsPlain
<1>6. Upto(Z, n) = {}
  BY DEF Upto
<1>7. Upto(A, n) = KbuildParts(m, c) /\ Upto(B, n) = KbuildFlags(m, c)
  BY <1>1 DEF KbuildParts, KbuildFlags, items, Upto
<1> HIDE DEF objects, flags, A, B, Z
<1>8. Reads(c, <<head>> \o FlattenSeq(objects), {} \cup KbuildParts(m, c), {} \cup {})
  BY <1>3, <1>5, <1>6, <1>7, ReadsInARow
<1>9. Reads(c, (<<head>> \o FlattenSeq(objects)) \o FlattenSeq(flags),
            ({} \cup KbuildParts(m, c)) \cup {}, ({} \cup {}) \cup KbuildFlags(m, c))
  BY <1>4, <1>6, <1>7, <1>8, ReadsInARow
<1>10. ({} \cup KbuildParts(m, c)) \cup {} = KbuildParts(m, c)
       /\ ({} \cup {}) \cup KbuildFlags(m, c) = KbuildFlags(m, c)
  OBVIOUS
<1> QED BY <1>2, <1>9, <1>10

\* The sources of a list of files.
LEMMA SourcesFacts ==
    ASSUME NEW X, NEW files \in Seq(X)
    PROVE  LET kept == FoldLeft(KeepSource, <<>>, files) IN
           kept \in Seq(X) /\ ToSet(kept) = {f \in ToSet(files) : IsSource(f)}
<1> DEFINE n == Len(files)
           none == <<>>
           kept == KeepFold!FoldValue(0, none, files)
           First(i) == {files[j] : j \in 1 .. i}
           Of == [i \in 0 .. n |-> {f \in First(i) : IsSource(f)}]
<1>1. n \in Nat /\ ToSet(files) = First(n) /\ \A i \in 1 .. n : files[i] \in X
  BY LenProperties, ElementOfSeq DEF ToSet
<1>2. FoldLeft(KeepSource, <<>>, files) = kept
  BY DEF FoldLeft, MapThenFoldSet, Max, KeepFold!FoldValue, KeepFold!Greatest
<1>3. ASSUME NEW s \in Seq(X), NEW f \in X
      PROVE  /\ KeepSource(s, f) \in Seq(X)
             /\ ToSet(KeepSource(s, f)) = ToSet(s) \cup (IF IsSource(f) THEN {f} ELSE {})
  BY AppendSet DEF KeepSource
<1>4. none \in Seq(X) /\ ToSet(none) = {}
  BY DEF ToSet
<1>5. \A i \in 0 .. n : Of[i] = {f \in First(i) : IsSource(f)}
  OBVIOUS
<1> HIDE DEF none, kept, Of
<1>6. PICK t \in [0 .. n -> Seq(X)] : KeepFold!IsTrace(t, 0, none, files)
  <2>1. KeepFold!Trace(0, Seq(X), none, files)
    BY <1>3, <1>4, KeepFold!FoldTrace
  <2> QED BY <2>1 DEF KeepFold!Trace
<1> DEFINE T == {i \in 0 .. n : ToSet(t[i]) = Of[i]}
<1>7. 0 \in T
  <2>1. 0 \in 0 .. n
    BY <1>1
  <2>2. First(0) = {}
    OBVIOUS
  <2> HIDE DEF First
  <2>3. Of[0] = {}
    BY <1>5, <2>1, <2>2
  <2>4. t[0] = none
    BY <1>6, Zenon DEF KeepFold!IsTrace
  <2> QED BY <1>4, <2>1, <2>3, <2>4
<1>8. ASSUME NEW i \in 0 .. (n - 1), i \in T PROVE i + 1 \in T
  <2> DEFINE f == files[i + 1]
             one == IF IsSource(f) THEN {f} ELSE {}
  <2>1. i + 1 \in 1 .. n /\ i + 1 \in 0 .. n /\ (i + 1) - 1 = i /\ i \in 0 .. n
    BY <1>1
  <2>2. t[i + 1] = KeepSource(t[i], f)
    BY <1>6, <2>1 DEF KeepFold!IsTrace
  <2>3. \A j : j \in 1 .. (i + 1) <=> j \in 1 .. i \/ j = i + 1
    BY <2>1
  <2>4. First(i + 1) = First(i) \cup {f}
    BY <2>3
  <2>5. t[i] \in Seq(X) /\ f \in X
    BY <1>1, <1>6, <2>1
  <2> HIDE DEF f, First
  <2>6. Of[i + 1] = Of[i] \cup one
    BY <1>5, <2>1, <2>4
  <2>7. ToSet(t[i + 1]) = ToSet(t[i]) \cup one
    BY <1>3, <2>2, <2>5
  <2> QED BY <1>8, <2>1, <2>6, <2>7
<1>9. n \in T
  <2> HIDE DEF T, n
  <2>1. 0 .. n \subseteq T
    BY <1>1, <1>7, <1>8, KeepFold!UpTo
  <2> QED BY <1>1, <2>1
<1>10. kept = t[n] /\ n \in 0 .. n
  BY <1>1, <1>6 DEF KeepFold!IsTrace, kept
<1> HIDE DEF First
<1>11. kept \in Seq(X) /\ ToSet(kept) = {f \in ToSet(files) : IsSource(f)}
  BY <1>1, <1>5, <1>6, <1>9, <1>10
<1> QED BY <1>2, <1>11

\* All sources of a module.
AllSources(m) == SourcesOf(ToSet(m.items))

LEMMA SourceOfItems ==
    ASSUME NEW items, NEW f
    PROVE  f \in SourcesOf(items) <=> \E item \in items : f \in ToSet(item.files) /\ IsSource(f)
<1> DEFINE Sources(item) == {g \in ToSet(item.files) : IsSource(g)}
<1>1. SourcesOf(items) = UNION {Sources(item) : item \in items}
  BY Zenon DEF SourcesOf
<1>2. \A item : f \in Sources(item) <=> f \in ToSet(item.files) /\ IsSource(f)
  OBVIOUS
<1> HIDE DEF Sources
<1> QED BY <1>1, <1>2

LEMMA FlatFacts ==
    ASSUME NEW m, IsModule(m)
    PROVE  Flat(m.items) \in Seq(AllSources(m)) /\ ToSet(Flat(m.items)) = AllSources(m)
<1> DEFINE items == m.items
           n == Len(items)
           X == UNION {ToSet(item.files) : item \in ToSet(items)}
           seqs == [i \in 1 .. n |-> FoldLeft(KeepSource, <<>>, items[i].files)]
<1>1. /\ n \in Nat /\ DOMAIN items = 1 .. n /\ ToSet(items) = {items[i] : i \in 1 .. n}
      /\ \A i \in 1 .. n : IsItem(items[i])
  <2>1. items \in Seq(ToSet(items)) /\ \A item \in ToSet(items) : IsItem(item)
    BY DEF IsModule
  <2> HIDE DEF items
  <2> QED BY <2>1, LenProperties DEF ToSet
<1>2. Flat(items) = FlattenSeq(seqs)
  BY <1>1 DEF Flat
<1>3. ASSUME NEW i \in 1 .. n
      PROVE  seqs[i] \in Seq(X) /\ ToSet(seqs[i]) = {f \in ToSet(items[i].files) : IsSource(f)}
  <2> DEFINE files == items[i].files
  <2>1. files \in Seq(ToSet(files)) /\ ToSet(files) \subseteq X
    BY <1>1 DEF IsItem
  <2>2. seqs[i] = FoldLeft(KeepSource, <<>>, files)
    OBVIOUS
  <2> HIDE DEF files, X, seqs
  <2>3. files \in Seq(X)
    BY <2>1, SeqMonotonic
  <2> QED BY <2>2, <2>3, SourcesFacts DEF files
<1>4. seqs = [i \in 1 .. n |-> seqs[i]] /\ DOMAIN seqs = 1 .. n
  OBVIOUS
<1> HIDE DEF X, seqs, items, n
<1>5. seqs \in Seq(Seq(X))
  BY <1>1, <1>3, <1>4
<1>6. FlattenSeq(seqs) \in Seq(X) /\ ToSet(FlattenSeq(seqs)) = UNION {ToSet(seqs[i]) : i \in DOMAIN seqs}
  BY <1>5, FlattenFacts
<1>7. UNION {ToSet(seqs[i]) : i \in 1 .. n} = AllSources(m)
  <2> DEFINE Sources(item) == {f \in ToSet(item.files) : IsSource(f)}
  <2>1. \A i \in 1 .. n : ToSet(seqs[i]) = Sources(items[i])
    BY <1>3
  <2>2. AllSources(m) = UNION {Sources(item) : item \in ToSet(items)}
    BY Zenon DEF AllSources, SourcesOf, items
  <2> HIDE DEF Sources
  <2>3. UNION {ToSet(seqs[i]) : i \in 1 .. n} = UNION {Sources(items[i]) : i \in 1 .. n}
    BY <2>1
  <2>4. UNION {Sources(item) : item \in ToSet(items)} = UNION {Sources(items[i]) : i \in 1 .. n}
    BY <1>1
  <2> QED BY <2>2, <2>3, <2>4
<1>8. ToSet(FlattenSeq(seqs)) = AllSources(m)
  BY <1>4, <1>6, <1>7
<1> QED BY <1>2, <1>6, <1>8, OwnElements DEF items

\* The objects of a module mean what its items say.
Meant(m, c) ==
    LET parts == {x[2] : x \in KbuildParts(m, c)}
    IN  /\ Wants(m, c) = parts \/ (parts = {} /\ Wants(m, c) = {Own(m)})
        /\ \A o \in Wants(m, c) : <<o, m.out>> \in KbuildFlags(m, c)
        /\ \A x \in KbuildParts(m, c) : x[1] = m.out

LEMMA ModuleMeaning ==
    ASSUME NEW m, IsModule(m), ~SameName(m), m.out # "ddk_marker", NEW c
    PROVE  Meant(m, c)
<1> DEFINE flat == Flat(m.items)
           alone == Len(flat) <= 1
           marker == [files |-> <<Marker(m)>>, config |-> NoConfig, value |-> ""]
           parts == {x[2] : x \in KbuildParts(m, c)}
           want == Wants(m, c)
           tag == Obj(Marker(m))
           Has(item, f) == item \in ToSet(m.items) /\ f \in ToSet(item.files) /\ Active(item, c)
<1>1. flat \in Seq(AllSources(m)) /\ ToSet(flat) = AllSources(m)
  BY FlatFacts
<1>2. Len(flat) \in Nat /\ DOMAIN flat = 1 .. Len(flat)
  BY <1>1, LenProperties
<1>3. ToSet(Tagged(m)) = ToSet(m.items) \cup (IF alone THEN {} ELSE {marker})
  <2>1. ~alone <=> Len(flat) > 1
    BY <1>2
  <2> QED BY <2>1, TaggedFacts
<1>4. \A f : f \in AllSources(m) <=> \E item \in ToSet(m.items) : f \in ToSet(item.files) /\ IsSource(f)
  BY SourceOfItems DEF AllSources
<1>5. \A x : x \in want <=> \/ \E item, f : Has(item, f) /\ IsSource(f) /\ x = Obj(f)
                            \/ ~alone /\ x = tag
  <2> DEFINE on == {item \in ToSet(m.items) : Active(item, c)}
             some == {Obj(f) : f \in SourcesOf(on)}
  <2>1. want = some \cup (IF alone THEN {} ELSE {tag})
    BY DEF Wants
  <2>2. \A f : f \in SourcesOf(on) <=> \E item : Has(item, f) /\ IsSource(f)
    BY DEF SourcesOf
  <2> HIDE DEF alone, want, tag, on, Has
  <2>3. \A x : x \in some <=> \E item, f : Has(item, f) /\ IsSource(f) /\ x = Obj(f)
    BY <2>2
  <2> HIDE DEF some
  <2> QED BY <2>1, <2>3
<1>6. /\ ToSet(marker.files) = {Marker(m)} /\ IsSource(Marker(m))
      /\ Mine(m, Marker(m)) /\ Active(marker, c) /\ Holds(marker, c)
  BY DEF ToSet, Marker, IsSource, Mine, Active, Holds, Conditional, Obj, Own
<1> HIDE DEF marker, Has, tag
<1>7. \A item : Active(item, c) => Holds(item, c)
  BY DEF Active, Holds, Conditional
<1>8. \A x : x \in KbuildParts(m, c) <=>
          \/ \E item, f : Has(item, f) /\ Mine(m, f) /\ x = <<m.out, Obj(f)>>
          \/ ~alone /\ x = <<m.out, tag>>
  <2>1. \A x : x \in KbuildParts(m, c) <=>
            \/ \E item \in ToSet(m.items) : x \in PartsOf(m, item, c)
            \/ ~alone /\ x \in PartsOf(m, marker, c)
    BY <1>3 DEF KbuildParts
  <2>2. PartsOf(m, marker, c) = {<<m.out, tag>>}
    BY <1>6 DEF PartsOf, tag
  <2>3. ASSUME NEW item \in ToSet(m.items), NEW x
        PROVE  x \in PartsOf(m, item, c) <=> \E f : Has(item, f) /\ Mine(m, f) /\ x = <<m.out, Obj(f)>>
    BY DEF PartsOf, Has
  <2>4. \A item, f : Has(item, f) => item \in ToSet(m.items)
    BY DEF Has
  <2> HIDE DEF alone
  <2> QED BY <2>1, <2>2, <2>3, <2>4
<1>9. \A x \in KbuildParts(m, c) : x[1] = m.out
  BY <1>8
<1>10. \A o : o \in parts <=>
           \/ \E item, f : Has(item, f) /\ Mine(m, f) /\ o = Obj(f)
           \/ ~alone /\ o = tag
  <2> HIDE DEF alone
  <2>1. ASSUME NEW o, o \in parts
        PROVE  \/ \E item, f : Has(item, f) /\ Mine(m, f) /\ o = Obj(f)
               \/ ~alone /\ o = tag
    <3>1. PICK x \in KbuildParts(m, c) : o = x[2]
      BY <2>1
    <3> QED BY <1>8, <3>1
  <2>2. ASSUME NEW item, NEW f, Has(item, f), Mine(m, f) PROVE Obj(f) \in parts
    <3>1. <<m.out, Obj(f)>> \in KbuildParts(m, c)
      BY <1>8, <2>2
    <3> QED BY <3>1
  <2>3. ASSUME ~alone PROVE tag \in parts
    <3>1. <<m.out, tag>> \in KbuildParts(m, c)
      BY <1>8, <2>3
    <3> QED BY <3>1
  <2> QED BY <2>1, <2>2, <2>3
<1>11. \A f : Mine(m, f) => IsSource(f)
  BY DEF Mine
<1>12. \A item, f : Has(item, f) /\ IsSource(f) => f \in ToSet(flat)
  BY <1>1, <1>4 DEF Has
<1>13. \A o \in want : <<o, m.out>> \in KbuildFlags(m, c)
  <2>1. ASSUME NEW item, NEW f, Has(item, f) PROVE <<Obj(f), m.out>> \in KbuildFlags(m, c)
    <3>1. item \in ToSet(Tagged(m)) /\ <<Obj(f), m.out>> \in FlagsOf(m, item, c)
      BY <1>3, <1>7, <2>1 DEF FlagsOf, Has
    <3> QED BY <3>1 DEF KbuildFlags
  <2>2. ASSUME ~alone PROVE <<tag, m.out>> \in KbuildFlags(m, c)
    <3>1. marker \in ToSet(Tagged(m)) /\ <<tag, m.out>> \in FlagsOf(m, marker, c)
      BY <1>3, <1>6, <2>2 DEF FlagsOf, tag
    <3> QED BY <3>1 DEF KbuildFlags
  <2> HIDE DEF alone
  <2> QED BY <1>5, <2>1, <2>2
<1>14. CASE \A item, f : Has(item, f) /\ IsSource(f) => Mine(m, f)
  <2> HIDE DEF alone, parts, want
  <2>1. \A o : o \in want <=> o \in parts
    BY <1>5, <1>10, <1>11, <1>14
  <2>2. want = parts
    BY <2>1
  <2> QED BY <1>9, <1>13, <2>2 DEF Meant, parts, want
<1>15. CASE ~\A item, f : Has(item, f) /\ IsSource(f) => Mine(m, f)
  <2>1. PICK g, f : Has(g, f) /\ IsSource(f) /\ ~Mine(m, f)
    BY <1>15
  <2>2. Obj(f) = Own(m)
    BY <2>1 DEF Mine
  <2>3. PICK i \in DOMAIN flat : flat[i] = f
    BY <1>12, <2>1 DEF ToSet
  <2>4. alone /\ i = 1
    BY <1>2, <2>2, <2>3 DEF SameName
  <2>5. \A h \in ToSet(flat) : h = f
    <3>1. DOMAIN flat = {1}
      BY <1>2, <2>3, <2>4
    <3> HIDE DEF flat
    <3> QED BY <2>3, <2>4, <3>1 DEF ToSet
  <2> HIDE DEF flat, parts, want
  <2>6. parts = {}
    <3>1. \A o : o \notin parts
      BY <1>10, <1>11, <1>12, <2>1, <2>4, <2>5
    <3> QED BY <3>1
  <2>7. want = {Own(m)}
    <3>1. \A o : o \in want <=> o = Own(m)
      BY <1>5, <1>12, <2>1, <2>2, <2>4, <2>5
    <3> QED BY <3>1
  <2> QED BY <1>9, <1>13, <2>6, <2>7 DEF Meant, parts, want
<1> QED BY <1>14, <1>15

-----------------------------------------------------------------------------
(* GenMakefiles: the merge of submodules *)

PathsOf(m) ==
    {In(m.dir, "Kbuild"), In(m.dir, m.out), In(m.dir, "ddk_marker.c")}
    \cup IF m.dir = <<>> THEN {} ELSE {In(<<>>, "Kbuild")}
MarkerLines == <<[k |-> "marker"]>>
DirectoryLines(m) == <<[k |-> "directory", of |-> m.dir]>>

LEMMA GeneratedFacts ==
    ASSUME NEW m, IsModule(m)
    PROVE  LET g == Generated(m) IN
           /\ DOMAIN g = PathsOf(m)
           /\ g[In(m.dir, "Kbuild")] = KbuildLines(m)
           /\ g[In(m.dir, m.out)] = CflagsLines(m)
           /\ g[In(m.dir, "ddk_marker.c")] = MarkerLines
           /\ m.dir # <<>> => g[In(<<>>, "Kbuild")] = DirectoryLines(m)
<1>1. m.out # "Kbuild" /\ m.out # "ddk_marker.c"
  BY DEF IsModule
<1> DEFINE g == [p \in PathsOf(m) |->
                    CASE p = In(m.dir, "Kbuild") -> KbuildLines(m)
                      [] p = In(m.dir, m.out) -> CflagsLines(m)
                      [] p = In(m.dir, "ddk_marker.c") -> MarkerLines
                      [] OTHER -> DirectoryLines(m)]
<1>2. Generated(m) = g
  BY DEF Generated, PathsOf, MarkerLines, DirectoryLines
<1>3. /\ In(m.dir, "Kbuild") # In(m.dir, m.out) /\ In(m.dir, "Kbuild") # In(m.dir, "ddk_marker.c")
      /\ In(m.dir, m.out) # In(m.dir, "ddk_marker.c")
      /\ m.dir # <<>> => \A x : In(<<>>, "Kbuild") # In(m.dir, x)
  BY <1>1 DEF In
<1>4. /\ In(m.dir, "Kbuild") \in PathsOf(m) /\ In(m.dir, m.out) \in PathsOf(m)
      /\ In(m.dir, "ddk_marker.c") \in PathsOf(m)
      /\ m.dir # <<>> => In(<<>>, "Kbuild") \in PathsOf(m)
  BY DEF PathsOf
<1> QED BY <1>2, <1>3, <1>4

\* A line that make skips.
LEMMA ReadsNoEffect ==
    ASSUME NEW c, NEW l, l.k \notin {"ifeq", "endif", "object", "cflags"}
    PROVE  Reads(c, <<l>>, {}, {})
<1>1. <<l>> \in Seq({l}) /\ ToSet(<<l>>) = {l}
  BY DEF ToSet
<1>2. \A x \in ToSet(<<l>>) : IsPlain(x)
  BY <1>1 DEF IsPlain
<1>3. ObjectsIn(c, {l}) = {} /\ FlagsIn({l}) = {}
  BY DEF ObjectsIn, FlagsIn, IsPart
<1> QED BY <1>1, <1>2, <1>3, ReadsPlain

\* The modules merged so far and those left are, in order, those of the invocation.
SplitOK ==
    \E ms \in ModuleSet :
        /\ mkMods \in Seq(ToSet(ms)) /\ subs \in Seq(ToSet(ms))
        /\ Len(mkMods) + Len(subs) = Len(ms)
        /\ \A i \in 1 .. Len(mkMods) : mkMods[i] = ms[i]
        /\ \A i \in 1 .. Len(subs) : subs[i] = ms[Len(mkMods) + i]

\* What the Kbuild of a directory has of the modules merged so far.
PartsAmong(M, d, c) == UNION {KbuildParts(m, c) : m \in {x \in M : x.dir = d}}
FlagsAmong(M, d, c) == UNION {KbuildFlags(m, c) : m \in {x \in M : x.dir = d}}

PathsOK == DOMAIN outDir = UNION {PathsOf(m) : m \in ToSet(mkMods)}
CflagsOK == \A m \in ToSet(mkMods) : outDir[In(m.dir, m.out)] = CflagsLines(m)
MarkersOK ==
    /\ markers = {In(m.dir, "ddk_marker.c") : m \in ToSet(mkMods)}
    /\ \A p \in markers : outDir[p] = MarkerLines
KbuildOK ==
    \A d, c : In(d, "Kbuild") \in DOMAIN outDir =>
        Reads(c, outDir[In(d, "Kbuild")],
              PartsAmong(ToSet(mkMods), d, c), FlagsAmong(ToSet(mkMods), d, c))

MkInv ==
    /\ SplitOK /\ PathsOK /\ CflagsOK /\ MarkersOK /\ KbuildOK
    /\ \A m \in ToSet(mkMods) : ~ModuleDies(m)

\* No two modules share a file of flags, which is no other file either.
LEMMA SplitFacts ==
    ASSUME SplitOK
    PROVE  /\ \A m \in ToSet(mkMods) : IsModule(m)
           /\ \A x, y \in ToSet(mkMods) : x.dir = y.dir /\ x.out = y.out => x = y
           /\ subs # <<>> =>
                 /\ IsModule(Head(subs))
                 /\ \A x \in ToSet(mkMods) : ~(x.dir = Head(subs).dir /\ x.out = Head(subs).out)
<1>1. PICK ms \in ModuleSet :
        /\ mkMods \in Seq(ToSet(ms)) /\ subs \in Seq(ToSet(ms))
        /\ Len(mkMods) + Len(subs) = Len(ms)
        /\ \A i \in 1 .. Len(mkMods) : mkMods[i] = ms[i]
        /\ \A i \in 1 .. Len(subs) : subs[i] = ms[Len(mkMods) + i]
  BY DEF SplitOK
<1>2. /\ ms \in Seq(ToSet(ms))
      /\ \A i, j \in DOMAIN ms : ms[i].dir = ms[j].dir /\ ms[i].out = ms[j].out => i = j
      /\ \A m \in ToSet(ms) : IsModule(m)
  BY GenMakefilesAssumption DEF IsModule, IsItem
<1>3. /\ DOMAIN ms = 1 .. Len(ms) /\ Len(ms) \in Nat
      /\ DOMAIN mkMods = 1 .. Len(mkMods) /\ Len(mkMods) \in Nat /\ Len(subs) \in Nat
  BY <1>1, <1>2, LenProperties
<1>4. \A m \in ToSet(mkMods) : m \in ToSet(ms) /\ \E i \in 1 .. Len(mkMods) : i \in DOMAIN ms /\ m = ms[i]
  <2> SUFFICES ASSUME NEW m \in ToSet(mkMods)
               PROVE  m \in ToSet(ms) /\ \E i \in 1 .. Len(mkMods) : i \in DOMAIN ms /\ m = ms[i]
      OBVIOUS
  <2>1. PICK i \in 1 .. Len(mkMods) : m = mkMods[i]
    BY <1>3 DEF ToSet
  <2>2. i \in DOMAIN ms /\ m = ms[i]
    BY <1>1, <1>3, <2>1
  <2> QED BY <2>2 DEF ToSet
<1>5. ASSUME subs # <<>>
      PROVE  /\ Head(subs) \in ToSet(ms)
             /\ \A x \in ToSet(mkMods) : ~(x.dir = Head(subs).dir /\ x.out = Head(subs).out)
  <2> DEFINE k == Len(mkMods) + 1
  <2>1. Len(subs) # 0 /\ Head(subs) = subs[1]
    BY <1>1, <1>5, EmptySeq
  <2>2. k \in DOMAIN ms /\ Head(subs) = ms[k] /\ \A i \in 1 .. Len(mkMods) : i # k
    BY <1>1, <1>3, <2>1
  <2> HIDE DEF k
  <2>3. Head(subs) \in ToSet(ms)
    BY <2>2 DEF ToSet
  <2>4. ASSUME NEW x \in ToSet(mkMods), x.dir = Head(subs).dir, x.out = Head(subs).out PROVE FALSE
    <3>1. PICK i \in 1 .. Len(mkMods) : i \in DOMAIN ms /\ x = ms[i]
      BY <1>4
    <3>2. i = k
      BY <1>2, <2>2, <2>4, <3>1
    <3> QED BY <2>2, <3>2
  <2> QED BY <2>3, <2>4
<1> QED BY <1>2, <1>4, <1>5

\* At first nothing has been merged.
LEMMA MkInvInit == MkInit => MkInv
<1> SUFFICES ASSUME MkInit PROVE MkInv
    OBVIOUS
<1>1. /\ subs \in ModuleSet /\ DOMAIN outDir = {} /\ markers = {} /\ mkMods = <<>>
  BY DEF MkInit
<1>2. ToSet(mkMods) = {} /\ Len(mkMods) = 0
  BY <1>1 DEF ToSet
<1>3. SplitOK
  <2>1. subs \in Seq(ToSet(subs))
    BY <1>1, GenMakefilesAssumption
  <2>2. Len(subs) \in Nat /\ mkMods \in Seq(ToSet(subs))
    BY <1>1, <2>1, LenProperties
  <2>3. \A i \in 1 .. Len(subs) : subs[i] = subs[0 + i]
    BY <2>2
  <2> QED BY <1>1, <1>2, <2>1, <2>2, <2>3 DEF SplitOK
<1> QED BY <1>1, <1>2, <1>3 DEF MkInv, PathsOK, CflagsOK, MarkersOK, KbuildOK

\* A module more, and what the Kbuild of its directory has of it.
LEMMA OneMoreModule ==
    ASSUME NEW M, NEW m, NEW d, NEW c
    PROVE  /\ PartsAmong(M \cup {m}, d, c) =
                  PartsAmong(M, d, c) \cup (IF m.dir = d THEN KbuildParts(m, c) ELSE {})
           /\ FlagsAmong(M \cup {m}, d, c) =
                  FlagsAmong(M, d, c) \cup (IF m.dir = d THEN KbuildFlags(m, c) ELSE {})
<1>1. {x \in M \cup {m} : x.dir = d} =
          {x \in M : x.dir = d} \cup (IF m.dir = d THEN {m} ELSE {})
  OBVIOUS
<1>2. CASE m.dir = d
  <2>1. {x \in M \cup {m} : x.dir = d} = {x \in M : x.dir = d} \cup {m}
    BY <1>1, <1>2
  <2> QED BY <1>2, <2>1 DEF PartsAmong, FlagsAmong
<1>3. CASE m.dir # d
  <2>1. {x \in M \cup {m} : x.dir = d} = {x \in M : x.dir = d}
    BY <1>1, <1>3
  <2> QED BY <1>3, <2>1 DEF PartsAmong, FlagsAmong
<1> QED BY <1>2, <1>3

\* The submodule that is merged comes off the front of those left.
LEMMA SplitStep ==
    ASSUME SplitOK, subs # <<>>, mkMods' = Append(mkMods, Head(subs)), subs' = Tail(subs)
    PROVE  SplitOK' /\ ToSet(mkMods') = ToSet(mkMods) \cup {Head(subs)}
<1>1. PICK ms \in ModuleSet :
        /\ mkMods \in Seq(ToSet(ms)) /\ subs \in Seq(ToSet(ms))
        /\ Len(mkMods) + Len(subs) = Len(ms)
        /\ \A i \in 1 .. Len(mkMods) : mkMods[i] = ms[i]
        /\ \A i \in 1 .. Len(subs) : subs[i] = ms[Len(mkMods) + i]
  BY DEF SplitOK
<1> DEFINE X == ToSet(ms)
           n == Len(mkMods)
           k == Len(subs)
<1>2. n \in Nat /\ k \in Nat /\ k # 0
  BY <1>1, LenProperties, EmptySeq
<1> HIDE DEF X, n, k
<1>3. Head(subs) = subs[1] /\ Head(subs) \in X
  BY <1>1, <1>2, HeadTailProperties DEF X, k
<1>4. /\ Tail(subs) \in Seq(X) /\ Len(Tail(subs)) = k - 1
      /\ \A i \in 1 .. (k - 1) : Tail(subs)[i] = subs[i + 1]
  BY <1>1, HeadTailProperties DEF X, k
<1>5. /\ mkMods' \in Seq(X) /\ Len(mkMods') = n + 1 /\ mkMods'[n + 1] = Head(subs)
      /\ \A i \in 1 .. n : mkMods'[i] = mkMods[i]
  BY <1>1, <1>3, AppendProperties DEF X, n
<1>6. \A i \in 1 .. (n + 1) : mkMods'[i] = ms[i]
  BY <1>1, <1>2, <1>3, <1>5 DEF n, k
<1>7. \A i \in 1 .. (k - 1) : subs'[i] = ms[(n + 1) + i]
  <2> TAKE i \in 1 .. (k - 1)
  <2>1. i + 1 \in 1 .. k /\ n + (i + 1) = (n + 1) + i
    BY <1>2
  <2>2. subs[i + 1] = ms[n + (i + 1)]
    BY <1>1, <2>1 DEF n, k
  <2> QED BY <1>4, <2>1, <2>2
<1>8. Len(mkMods') + Len(subs') = Len(ms)
  BY <1>1, <1>2, <1>4, <1>5 DEF n, k
<1>9. SplitOK'
  BY <1>1, <1>4, <1>5, <1>6, <1>7, <1>8 DEF SplitOK, X
<1>10. ToSet(mkMods') = ToSet(mkMods) \cup {Head(subs)}
  BY <1>1, <1>3, AppendSet DEF X
<1> QED BY <1>9, <1>10

\* Which files an invocation for a module leaves.
LEMMA PathFacts ==
    ASSUME NEW x, IsModule(x)
    PROVE  /\ \A d : In(d, "Kbuild") \in PathsOf(x) <=> d = x.dir \/ d = <<>>
           /\ \A p : p \in PathsOf(x) /\ p[2] = "ddk_marker.c" <=> p = In(x.dir, "ddk_marker.c")
           /\ \A y : IsModule(y) => (In(y.dir, y.out) \in PathsOf(x) <=> y.dir = x.dir /\ y.out = x.out)
<1>1. \A y : IsModule(y) => y.out # "Kbuild" /\ y.out # "ddk_marker.c"
  BY DEF IsModule
<1>2. \A p : p \in PathsOf(x) <=>
          \/ p = In(x.dir, "Kbuild") \/ p = In(x.dir, x.out) \/ p = In(x.dir, "ddk_marker.c")
          \/ p = In(<<>>, "Kbuild")
  BY DEF PathsOf
<1>3. \A d, f, e, g : In(d, f) = In(e, g) => d = e /\ f = g
  BY DEF In
<1>4. \A d, f : In(d, f)[2] = f
  BY DEF In
<1>5. "Kbuild" # "ddk_marker.c"
  OBVIOUS
<1>6. ASSUME NEW d PROVE In(d, "Kbuild") \in PathsOf(x) <=> d = x.dir \/ d = <<>>
  <2>1. In(d, "Kbuild") # In(x.dir, x.out) /\ In(d, "Kbuild") # In(x.dir, "ddk_marker.c")
    BY <1>1, <1>3, <1>5
  <2>2. In(d, "Kbuild") \in PathsOf(x) <=> In(d, "Kbuild") = In(x.dir, "Kbuild") \/ In(d, "Kbuild") = In(<<>>, "Kbuild")
    BY <1>2, <2>1, Zenon
  <2> QED BY <1>3, <2>2
<1>7. ASSUME NEW p PROVE p \in PathsOf(x) /\ p[2] = "ddk_marker.c" <=> p = In(x.dir, "ddk_marker.c")
  <2>1. In(x.dir, x.out)[2] = x.out /\ In(x.dir, "Kbuild")[2] = "Kbuild" /\ In(<<>>, "Kbuild")[2] = "Kbuild"
        /\ In(x.dir, "ddk_marker.c")[2] = "ddk_marker.c" /\ x.out # "ddk_marker.c"
    BY <1>1, <1>4, Zenon
  <2>2. ASSUME p \in PathsOf(x), p[2] = "ddk_marker.c" PROVE p = In(x.dir, "ddk_marker.c")
    <3>1. \/ p = In(x.dir, "Kbuild") \/ p = In(x.dir, x.out) \/ p = In(x.dir, "ddk_marker.c")
          \/ p = In(<<>>, "Kbuild")
      BY <1>2, <2>2, Zenon
    <3>2. CASE p = In(x.dir, "Kbuild") \/ p = In(<<>>, "Kbuild")
      BY <1>5, <2>1, <2>2, <3>2
    <3>3. CASE p = In(x.dir, x.out)
      BY <2>1, <2>2, <3>3
    <3> QED BY <3>1, <3>2, <3>3
  <2>3. ASSUME p = In(x.dir, "ddk_marker.c") PROVE p \in PathsOf(x) /\ p[2] = "ddk_marker.c"
    BY <1>2, <2>1, <2>3, Zenon
  <2> QED BY <2>2, <2>3
<1>8. ASSUME NEW y, IsModule(y)
      PROVE  In(y.dir, y.out) \in PathsOf(x) <=> y.dir = x.dir /\ y.out = x.out
  <2>1. y.out # "Kbuild" /\ y.out # "ddk_marker.c"
    BY <1>1, <1>8
  <2>2. \A d : In(y.dir, y.out) # In(d, "Kbuild") /\ In(y.dir, y.out) # In(d, "ddk_marker.c")
    BY <2>1 DEF In
  <2> DEFINE p == In(y.dir, y.out)
  <2> HIDE DEF p
  <2>3. p \in PathsOf(x) <=> p = In(x.dir, x.out)
    <3>1. p # In(x.dir, "Kbuild") /\ p # In(x.dir, "ddk_marker.c") /\ p # In(<<>>, "Kbuild")
      BY <2>2 DEF p
    <3> QED BY <1>2, <3>1, Zenon
  <2>4. ASSUME y.dir = x.dir, y.out = x.out PROVE In(y.dir, y.out) = In(x.dir, x.out)
    BY <2>4
  <2>5. ASSUME In(y.dir, y.out) = In(x.dir, x.out) PROVE y.dir = x.dir /\ y.out = x.out
    BY <2>5 DEF In
  <2> QED BY <2>3, <2>4, <2>5 DEF p
<1> QED BY <1>6, <1>7, <1>8

\* Lines of flags and the marker's are sequences.
LEMMA LinesAreSequences ==
    ASSUME NEW m
    PROVE  /\ CflagsLines(m) \in Seq(ToSet(CflagsLines(m)))
           /\ MarkerLines \in Seq(ToSet(MarkerLines))
           /\ CflagsLines(m) \o <<>> = CflagsLines(m) /\ <<>> \o CflagsLines(m) = CflagsLines(m)
           /\ MarkerLines \o <<>> = MarkerLines /\ <<>> \o MarkerLines = MarkerLines
<1> DEFINE X == {[k |-> "include marker"], [k |-> "flags", of |-> m.out]}
           a == IF Len(Flat(m.items)) > 1 THEN <<>> ELSE <<[k |-> "include marker"]>>
           b == <<[k |-> "flags", of |-> m.out]>>
<1>1. a \in Seq(X)
  <2>1. <<>> \in Seq(X) /\ <<[k |-> "include marker"]>> \in Seq(X)
    OBVIOUS
  <2> QED BY <2>1
<1>2. b \in Seq(X)
  OBVIOUS
<1>3. CflagsLines(m) = a \o b
  BY DEF CflagsLines
<1> HIDE DEF X, a, b
<1>4. CflagsLines(m) \in Seq(X)
  BY <1>1, <1>2, <1>3, ConcatProperties
<1>5. MarkerLines \in Seq({[k |-> "marker"]})
  BY DEF MarkerLines
<1> QED BY <1>4, <1>5, OwnElements, ConcatEmptySeq

\* What is merged is a sequence of lines too.
MergeOf(new, p) ==
    (IF p \in DOMAIN outDir THEN outDir[p] ELSE <<>>)
    \o (IF p \in DOMAIN new /\ ~SkipMarker(p) THEN new[p] ELSE <<>>)

MergeTo(m) ==
    /\ subs # <<>> /\ m = Head(subs) /\ ~ModuleDies(m)
    /\ mkMods' = Append(mkMods, m) /\ subs' = Tail(subs)
    /\ DOMAIN outDir' = DOMAIN outDir \cup PathsOf(m)
    /\ \A p \in DOMAIN outDir' : outDir'[p] = MergeOf(Generated(m), p)
    /\ markers' = markers \cup {p \in PathsOf(m) : p[2] = "ddk_marker.c"}

LEMMA MergeFacts == MkInv /\ MergeDirectories => MergeTo(Head(subs)) /\ IsModule(Head(subs))
<1> SUFFICES ASSUME MkInv, MergeDirectories PROVE MergeTo(Head(subs)) /\ IsModule(Head(subs))
    OBVIOUS
<1> DEFINE m == Head(subs)
           new == Generated(m)
<1>1. subs # <<>> /\ ~ModuleDies(m) /\ mkMods' = Append(mkMods, m) /\ subs' = Tail(subs)
  BY DEF MergeDirectories
<1>2. IsModule(m)
  BY <1>1, SplitFacts DEF MkInv
<1>3. DOMAIN new = PathsOf(m)
  BY <1>2, GeneratedFacts
<1>4. /\ outDir' = [p \in DOMAIN outDir \cup DOMAIN new |-> MergeOf(new, p)]
      /\ markers' = markers \cup {p \in DOMAIN new : p[2] = "ddk_marker.c"}
  BY DEF MergeDirectories, MergeOf
<1> HIDE DEF new, m
<1>5. DOMAIN outDir' = DOMAIN outDir \cup PathsOf(m)
      /\ \A p \in DOMAIN outDir' : outDir'[p] = MergeOf(new, p)
  BY <1>3, <1>4
<1> QED BY <1>1, <1>2, <1>3, <1>4, <1>5 DEF MergeTo, m, new

\* A file of flags is written once, by its module.
LEMMA MergeKeepsFlags ==
    ASSUME MkInv, NEW m, IsModule(m), MergeTo(m)
    PROVE  CflagsOK'
<1>1. SplitOK /\ PathsOK /\ CflagsOK
  BY DEF MkInv
<1>2. ToSet(mkMods') = ToSet(mkMods) \cup {m}
  BY <1>1, SplitStep DEF MergeTo
<1>3. /\ \A x \in ToSet(mkMods) : IsModule(x)
      /\ \A x \in ToSet(mkMods) : ~(x.dir = m.dir /\ x.out = m.out)
  BY <1>1, SplitFacts DEF MergeTo
<1>4. \A p : p \in DOMAIN outDir <=> \E x \in ToSet(mkMods) : p \in PathsOf(x)
  BY <1>1 DEF PathsOK
<1>5. /\ DOMAIN outDir' = DOMAIN outDir \cup PathsOf(m)
      /\ \A p \in DOMAIN outDir' : outDir'[p] = MergeOf(Generated(m), p)
  BY DEF MergeTo
<1>6. DOMAIN Generated(m) = PathsOf(m) /\ Generated(m)[In(m.dir, m.out)] = CflagsLines(m)
  BY GeneratedFacts
<1>7. ASSUME NEW x \in ToSet(mkMods) PROVE outDir'[In(x.dir, x.out)] = CflagsLines(x)
  <2> DEFINE p == In(x.dir, x.out)
  <2>1. p \in PathsOf(x) /\ p \notin PathsOf(m)
    BY <1>3, PathFacts
  <2>2. p \in DOMAIN outDir /\ p \in DOMAIN outDir' /\ p \notin DOMAIN Generated(m)
    BY <1>4, <1>5, <1>6, <2>1
  <2>3. outDir[p] = CflagsLines(x)
    BY <1>1 DEF CflagsOK
  <2> HIDE DEF p
  <2>4. outDir'[p] = CflagsLines(x) \o <<>>
    BY <1>5, <2>2, <2>3 DEF MergeOf
  <2> QED BY <2>4, LinesAreSequences DEF p
<1>8. outDir'[In(m.dir, m.out)] = CflagsLines(m)
  <2> DEFINE p == In(m.dir, m.out)
  <2>1. p \in PathsOf(m) /\ \A x \in ToSet(mkMods) : p \notin PathsOf(x)
    BY <1>3, PathFacts
  <2>2. p \notin DOMAIN outDir /\ p \in DOMAIN outDir' /\ p \in DOMAIN Generated(m)
    BY <1>4, <1>5, <1>6, <2>1
  <2>3. p[2] # "ddk_marker.c"
    BY DEF IsModule, In
  <2>4. ~SkipMarker(p) /\ Generated(m)[p] = CflagsLines(m)
    BY <1>6, <2>3 DEF SkipMarker
  <2> HIDE DEF p
  <2>5. outDir'[p] = <<>> \o CflagsLines(m)
    BY <1>5, <2>2, <2>4 DEF MergeOf
  <2> QED BY <2>5, LinesAreSequences DEF p
<1> QED BY <1>2, <1>7, <1>8 DEF CflagsOK

\* A marker is copied for the first module of its directory only.
LEMMA MergeKeepsMarkers ==
    ASSUME MkInv, NEW m, IsModule(m), MergeTo(m)
    PROVE  MarkersOK'
<1>1. SplitOK /\ PathsOK /\ MarkersOK
  BY DEF MkInv
<1>2. ToSet(mkMods') = ToSet(mkMods) \cup {m}
  BY <1>1, SplitStep DEF MergeTo
<1>3. \A x \in ToSet(mkMods) : IsModule(x)
  BY <1>1, SplitFacts
<1> DEFINE marker == In(m.dir, "ddk_marker.c")
<1>4. {p \in PathsOf(m) : p[2] = "ddk_marker.c"} = {marker}
  <2>1. \A p : p \in PathsOf(m) /\ p[2] = "ddk_marker.c" <=> p = marker
    BY PathFacts
  <2> HIDE DEF marker
  <2> QED BY <2>1
<1>5. markers' = markers \cup {marker}
  BY <1>4 DEF MergeTo
<1>6. markers' = {In(x.dir, "ddk_marker.c") : x \in ToSet(mkMods')}
  <2>1. markers = {In(x.dir, "ddk_marker.c") : x \in ToSet(mkMods)}
    BY <1>1 DEF MarkersOK
  <2> QED BY <1>2, <1>5, <2>1
<1>7. \A p : p \in DOMAIN outDir <=> \E x \in ToSet(mkMods) : p \in PathsOf(x)
  BY <1>1 DEF PathsOK
<1>8. marker \in PathsOf(m) /\ marker[2] = "ddk_marker.c" /\ Generated(m)[marker] = MarkerLines
      /\ DOMAIN Generated(m) = PathsOf(m)
  BY PathFacts, GeneratedFacts
<1>9. \A p \in markers : p \in DOMAIN outDir /\ outDir[p] = MarkerLines /\ p[2] = "ddk_marker.c"
  <2> TAKE p \in markers
  <2>1. PICK x \in ToSet(mkMods) : p = In(x.dir, "ddk_marker.c")
    BY <1>1 DEF MarkersOK
  <2>2. p \in PathsOf(x) /\ p[2] = "ddk_marker.c"
    BY <1>3, <2>1, PathFacts
  <2> QED BY <1>1, <1>7, <2>2 DEF MarkersOK
<1>10. marker \notin markers => marker \notin DOMAIN outDir
  <2> SUFFICES ASSUME marker \in DOMAIN outDir PROVE marker \in markers
      OBVIOUS
  <2>1. PICK x \in ToSet(mkMods) : marker \in PathsOf(x)
    BY <1>7
  <2>2. marker = In(x.dir, "ddk_marker.c")
    BY <1>3, <1>8, <2>1, PathFacts
  <2> QED BY <1>1, <2>2 DEF MarkersOK
<1>11. /\ DOMAIN outDir' = DOMAIN outDir \cup PathsOf(m)
       /\ \A p \in DOMAIN outDir' : outDir'[p] = MergeOf(Generated(m), p)
  BY DEF MergeTo
<1> HIDE DEF marker
<1>12. ASSUME NEW p \in markers' PROVE outDir'[p] = MarkerLines
  <2>1. CASE p \in markers
    <3>1. SkipMarker(p) /\ p \in DOMAIN outDir /\ p \in DOMAIN outDir' /\ outDir[p] = MarkerLines
      BY <1>9, <1>11, <2>1 DEF SkipMarker
    <3>2. outDir'[p] = MarkerLines \o <<>>
      BY <1>11, <3>1 DEF MergeOf
    <3> QED BY <3>2, LinesAreSequences
  <2>2. CASE p \notin markers
    <3>1. p = marker /\ ~SkipMarker(p) /\ p \notin DOMAIN outDir /\ p \in DOMAIN outDir'
          /\ p \in DOMAIN Generated(m) /\ Generated(m)[p] = MarkerLines
      BY <1>5, <1>8, <1>10, <1>11, <1>12, <2>2 DEF SkipMarker
    <3>2. outDir'[p] = <<>> \o MarkerLines
      BY <1>11, <3>1 DEF MergeOf
    <3> QED BY <3>2, LinesAreSequences
  <2> QED BY <2>1, <2>2
<1> QED BY <1>6, <1>12 DEF MarkersOK

\* The Kbuild of a directory has one module more to read.
LEMMA MergeKeepsKbuild ==
    ASSUME MkInv, NEW m, IsModule(m), MergeTo(m)
    PROVE  KbuildOK'
<1>1. SplitOK /\ PathsOK /\ KbuildOK
  BY DEF MkInv
<1>2. ToSet(mkMods') = ToSet(mkMods) \cup {m}
  BY <1>1, SplitStep DEF MergeTo
<1>3. \A x \in ToSet(mkMods) : IsModule(x)
  BY <1>1, SplitFacts
<1>4. \A p : p \in DOMAIN outDir <=> \E x \in ToSet(mkMods) : p \in PathsOf(x)
  BY <1>1 DEF PathsOK
<1>5. /\ DOMAIN outDir' = DOMAIN outDir \cup PathsOf(m)
      /\ \A p \in DOMAIN outDir' : outDir'[p] = MergeOf(Generated(m), p)
  BY DEF MergeTo
<1> DEFINE new == Generated(m)
           M == ToSet(mkMods)
<1>6. /\ DOMAIN new = PathsOf(m) /\ new[In(m.dir, "Kbuild")] = KbuildLines(m)
      /\ m.dir # <<>> => new[In(<<>>, "Kbuild")] = DirectoryLines(m)
  BY GeneratedFacts
<1> HIDE DEF new, M
<1>7. ASSUME NEW d, NEW c, In(d, "Kbuild") \in DOMAIN outDir'
      PROVE  Reads(c, outDir'[In(d, "Kbuild")], PartsAmong(ToSet(mkMods'), d, c), FlagsAmong(ToSet(mkMods'), d, c))
  <2> DEFINE p == In(d, "Kbuild")
             Before == IF p \in DOMAIN outDir THEN outDir[p] ELSE <<>>
             Extra == IF p \in DOMAIN new /\ ~SkipMarker(p) THEN new[p] ELSE <<>>
             A == IF m.dir = d THEN KbuildParts(m, c) ELSE {}
             B == IF m.dir = d THEN KbuildFlags(m, c) ELSE {}
  <2>1. Reads(c, Before, PartsAmong(M, d, c), FlagsAmong(M, d, c))
    <3>1. CASE p \in DOMAIN outDir
      BY <1>1, <3>1 DEF KbuildOK, M
    <3>2. CASE p \notin DOMAIN outDir
      <4>1. {x \in M : x.dir = d} = {}
        <5> SUFFICES ASSUME NEW x \in M, x.dir = d PROVE FALSE
            OBVIOUS
        <5>1. p \in PathsOf(x)
          BY <1>3, PathFacts DEF M
        <5> QED BY <1>4, <3>2, <5>1 DEF M
      <4>2. PartsAmong(M, d, c) = {} /\ FlagsAmong(M, d, c) = {}
        BY <4>1 DEF PartsAmong, FlagsAmong
      <4> QED BY <3>2, <4>2, ReadsNothing
    <3> QED BY <3>1, <3>2
  <2>2. ~SkipMarker(p)
    BY DEF SkipMarker, In
  <2>3. Reads(c, Extra, A, B)
    <3>1. CASE m.dir = d
      <4>1. p \in DOMAIN new /\ new[p] = KbuildLines(m)
        BY <1>6, <3>1, PathFacts
      <4> HIDE DEF p
      <4> QED BY <2>2, <3>1, <4>1, KbuildReads
    <3>2. CASE m.dir # d /\ d = <<>>
      <4>1. p \in DOMAIN new /\ new[p] = DirectoryLines(m)
        BY <1>6, <3>2, PathFacts
      <4> DEFINE l == [k |-> "directory", of |-> m.dir]
      <4>2. l.k = "directory"
        OBVIOUS
      <4> HIDE DEF l, p
      <4>3. Reads(c, <<l>>, {}, {})
        BY <4>2, ReadsNoEffect
      <4>4. Extra = <<l>>
        BY <2>2, <4>1 DEF DirectoryLines, l
      <4> QED BY <3>2, <4>3, <4>4
    <3>3. CASE m.dir # d /\ d # <<>>
      <4>1. p \notin PathsOf(m)
        <5>1. \A e : In(e, "Kbuild") \in PathsOf(m) <=> e = m.dir \/ e = <<>>
          BY PathFacts, Zenon
        <5> QED BY <3>3, <5>1
      <4>2. p \notin DOMAIN new
        BY <1>6, <4>1
      <4> QED BY <3>3, <4>2, ReadsNothing
    <3> QED BY <3>1, <3>2, <3>3
  <2>4. outDir'[p] = Before \o Extra
    BY <1>5, <1>7 DEF MergeOf, new
  <2>5. PartsAmong(ToSet(mkMods'), d, c) = PartsAmong(M, d, c) \cup A
        /\ FlagsAmong(ToSet(mkMods'), d, c) = FlagsAmong(M, d, c) \cup B
    <3>1. ToSet(mkMods') = M \cup {m}
      BY <1>2 DEF M
    <3>2. /\ PartsAmong(M \cup {m}, d, c) = PartsAmong(M, d, c) \cup A
          /\ FlagsAmong(M \cup {m}, d, c) = FlagsAmong(M, d, c) \cup B
      BY OneMoreModule
    <3> QED BY <3>1, <3>2
  <2> HIDE DEF Before, Extra, A, B
  <2>6. Reads(c, Before \o Extra, PartsAmong(M, d, c) \cup A, FlagsAmong(M, d, c) \cup B)
    BY <2>1, <2>3, ReadsInARow
  <2> QED BY <2>4, <2>5, <2>6
<1> QED BY <1>7 DEF KbuildOK

LEMMA MergeDirectoriesMk == MkInv /\ MergeDirectories => MkInv'
<1> SUFFICES ASSUME MkInv, MergeDirectories PROVE MkInv'
    OBVIOUS
<1> DEFINE m == Head(subs)
<1>1. MergeTo(m) /\ IsModule(m)
  BY MergeFacts
<1> HIDE DEF m
<1>2. SplitOK' /\ ToSet(mkMods') = ToSet(mkMods) \cup {m}
  BY <1>1, SplitStep DEF MkInv, MergeTo
<1>3. CflagsOK' /\ MarkersOK' /\ KbuildOK'
  BY <1>1, MergeKeepsFlags, MergeKeepsMarkers, MergeKeepsKbuild
<1>4. PathsOK'
  BY <1>1, <1>2 DEF MkInv, MergeTo, PathsOK
<1>5. \A x \in ToSet(mkMods') : ~ModuleDies(x)
  BY <1>1, <1>2 DEF MkInv, MergeTo
<1> QED BY <1>2, <1>3, <1>4, <1>5 DEF MkInv

\* A line for the include directories, which make does not read an object or a flag from.
LEMMA AppendLinuxIncludesMk == MkInv /\ AppendLinuxIncludes => MkInv'
<1> SUFFICES ASSUME MkInv, AppendLinuxIncludes PROVE MkInv'
    OBVIOUS
<1> DEFINE l == [k |-> "linux includes"]
           dirs == {mkMods[i].dir : i \in DOMAIN mkMods}
<1>1. SplitOK /\ PathsOK /\ CflagsOK /\ MarkersOK /\ KbuildOK /\ \A m \in ToSet(mkMods) : ~ModuleDies(m)
  BY DEF MkInv
<1>2. /\ subs' = subs /\ markers' = markers /\ mkMods' = mkMods
      /\ outDir' = [p \in DOMAIN outDir |->
                       IF p[2] = "Kbuild" /\ p[1] \in dirs THEN Append(outDir[p], l) ELSE outDir[p]]
  BY DEF AppendLinuxIncludes
<1>3. l.k = "linux includes"
  OBVIOUS
<1> HIDE DEF l, dirs
<1>4. DOMAIN outDir' = DOMAIN outDir
      /\ \A p \in DOMAIN outDir : p[2] # "Kbuild" => outDir'[p] = outDir[p]
  BY <1>2
<1>5. \A m \in ToSet(mkMods) : IsModule(m)
  BY <1>1, SplitFacts
<1>6. \A p : p \in DOMAIN outDir <=> \E x \in ToSet(mkMods) : p \in PathsOf(x)
  BY <1>1 DEF PathsOK
<1>7. CflagsOK'
  <2>1. ASSUME NEW m \in ToSet(mkMods) PROVE outDir'[In(m.dir, m.out)] = CflagsLines(m)
    <3> DEFINE p == In(m.dir, m.out)
    <3>1. p[2] # "Kbuild"
      BY <1>5 DEF In, IsModule
    <3>2. p \in PathsOf(m)
      BY <1>5, PathFacts
    <3>3. outDir[p] = CflagsLines(m)
      BY <1>1 DEF CflagsOK
    <3> HIDE DEF p
    <3>4. outDir'[p] = outDir[p]
      BY <1>4, <1>6, <3>1, <3>2
    <3> QED BY <3>3, <3>4 DEF p
  <2> QED BY <1>2, <2>1 DEF CflagsOK
<1>8. MarkersOK'
  <2>1. ASSUME NEW p \in markers PROVE outDir'[p] = MarkerLines
    <3>1. PICK m \in ToSet(mkMods) : p = In(m.dir, "ddk_marker.c")
      BY <1>1 DEF MarkersOK
    <3>2. p \in PathsOf(m) /\ p[2] = "ddk_marker.c"
      BY <1>5, <3>1, PathFacts
    <3>3. p[2] # "Kbuild" /\ p \in DOMAIN outDir
      BY <1>6, <3>2
    <3> QED BY <1>1, <1>4, <3>3 DEF MarkersOK
  <2> QED BY <1>1, <1>2, <2>1 DEF MarkersOK
<1>9. KbuildOK'
  <2>1. ASSUME NEW d, NEW c, In(d, "Kbuild") \in DOMAIN outDir
        PROVE  Reads(c, outDir'[In(d, "Kbuild")], PartsAmong(ToSet(mkMods), d, c), FlagsAmong(ToSet(mkMods), d, c))
    <3> DEFINE p == In(d, "Kbuild")
               s == outDir[p]
               P == PartsAmong(ToSet(mkMods), d, c)
               F == FlagsAmong(ToSet(mkMods), d, c)
    <3>1. Reads(c, s, P, F)
      BY <1>1, <2>1 DEF KbuildOK
    <3>2. outDir'[p] = s \/ outDir'[p] = Append(s, l)
      BY <1>2, <2>1
    <3> HIDE DEF p, s, P, F
    <3>3. CASE outDir'[p] = Append(s, l)
      <4>1. Reads(c, <<l>>, {}, {})
        BY <1>3, ReadsNoEffect
      <4>2. Reads(c, s \o <<l>>, P \cup {}, F \cup {})
        BY <3>1, <4>1, ReadsInARow
      <4>3. Append(s, l) = s \o <<l>>
        <5>1. s \in Seq(ToSet(s) \cup {l}) /\ l \in ToSet(s) \cup {l}
          BY <3>1, SeqMonotonic DEF Reads
        <5> QED BY <5>1, AppendIsConcat
      <4>4. P \cup {} = P /\ F \cup {} = F
        OBVIOUS
      <4> QED BY <3>3, <4>2, <4>3, <4>4 DEF p, P, F
    <3>4. CASE outDir'[p] = s
      BY <3>1, <3>4 DEF p, P, F
    <3> QED BY <3>2, <3>3, <3>4
  <2> QED BY <1>2, <1>4, <2>1 DEF KbuildOK
<1> QED BY <1>1, <1>2, <1>4, <1>7, <1>8, <1>9 DEF MkInv, SplitOK, PathsOK

LEMMA MkInvStep == MkInv /\ [MkNext]_mkVars => MkInv'
<1> SUFFICES ASSUME MkInv, [MkNext]_mkVars PROVE MkInv'
    OBVIOUS
<1>1. ASSUME UNCHANGED <<subs, outDir, markers, mkMods>> PROVE MkInv'
  BY <1>1 DEF MkInv, SplitOK, PathsOK, CflagsOK, MarkersOK, KbuildOK
<1>2. CASE SubmoduleDies
  BY <1>1, <1>2 DEF SubmoduleDies
<1>3. CASE UNCHANGED mkVars
  BY <1>1, <1>3 DEF mkVars
<1> QED BY <1>2, <1>3, MergeDirectoriesMk, AppendLinuxIncludesMk DEF MkNext

-----------------------------------------------------------------------------
(* GenMakefiles: make links a module from the sources whose conditions hold *)

\* The reading of a file from its first line.
LEMMA EvaluateReads ==
    ASSUME NEW c, NEW lines, NEW P, NEW F, Reads(c, lines, P, F)
    PROVE  Evaluate(lines, c).objects = P /\ Evaluate(lines, c).flags = F
<1>1. Evaluate(lines, c) = Result(c, State(TRUE, {}, {}), lines)
  BY DEF Evaluate, Result, FoldLeft, MapThenFoldSet, Max, ReadFold!FoldValue, ReadFold!Greatest, State
<1>2. Result(c, State(TRUE, {}, {}), lines) = State(TRUE, {} \cup P, {} \cup F)
  BY DEF Reads
<1>3. {} \cup P = P /\ {} \cup F = F
  OBVIOUS
<1> QED BY <1>1, <1>2, <1>3 DEF State

\* The objects of a module are listed under its name.
LEMMA PartsOwner ==
    ASSUME NEW m, NEW c, NEW x \in KbuildParts(m, c)
    PROVE  x[1] = m.out
<1>1. PICK item \in ToSet(Tagged(m)) : x \in PartsOf(m, item, c)
  BY DEF KbuildParts
<1> QED BY <1>1 DEF PartsOf

\* What a module is to be built from is there.
LEMMA WantedIsThere ==
    ASSUME NEW m \in ToSet(mkMods), NEW c, Own(m) \in Wants(m, c), m.out # "ddk_marker"
    PROVE  Own(m) \in InTree
<1> DEFINE on == {item \in ToSet(m.items) : Active(item, c)}
<1>1. Own(m) # Obj(Marker(m))
  BY DEF Own, Obj, Marker
<1>2. PICK f \in SourcesOf(on) : Own(m) = Obj(f)
  BY <1>1 DEF Wants
<1>3. f \in SourcesOf(ToSet(m.items))
  BY DEF SourcesOf
<1>4. f \in UNION {SourcesOf(ToSet(x.items)) : x \in ToSet(mkMods)}
  BY <1>3
<1> QED BY <1>2, <1>4 DEF InTree

LEMMA MkInvMeaning == MkInv => KbuildMeaning
<1> SUFFICES ASSUME MkInv, NEW i \in DOMAIN mkMods, NEW c \in Configs,
                    mkMods[i].out # Marker(mkMods[i]).stem
             PROVE  LET m == mkMods[i]
                        r == Evaluate(outDir[In(m.dir, "Kbuild")], c)
                    IN  /\ Linked(r, m) = Wants(m, c) \/ Stray(m, c)
                        /\ \A o \in Wants(m, c) : <<o, m.out>> \in r.flags
                        /\ Contains(outDir[In(m.dir, m.out)], [k |-> "include marker"])
                               <=> Len(Flat(m.items)) <= 1
                        /\ outDir[In(m.dir, "ddk_marker.c")] = <<[k |-> "marker"]>>
    BY DEF KbuildMeaning
<1> DEFINE m == mkMods[i]
           M == ToSet(mkMods)
           r == Evaluate(outDir[In(m.dir, "Kbuild")], c)
           alone == Len(Flat(m.items)) <= 1
           want == Wants(m, c)
<1>1. /\ m \in M /\ IsModule(m) /\ ~SameName(m) /\ m.out # "ddk_marker"
      /\ \A x \in M : x.dir = m.dir /\ x.out = m.out => x = m
  <2>1. SplitOK /\ m \in M
    BY DEF MkInv, ToSet
  <2>2. ~SameName(m)
    BY <2>1 DEF MkInv, ModuleDies
  <2> QED BY <2>1, <2>2, SplitFacts DEF Marker
<1>2. /\ \A p : p \in DOMAIN outDir <=> \E x \in M : p \in PathsOf(x)
      /\ CflagsOK /\ MarkersOK /\ KbuildOK
  BY DEF MkInv, PathsOK
<1> HIDE DEF m, M
<1>3. In(m.dir, "Kbuild") \in PathsOf(m)
  BY DEF PathsOf
<1>4. r.objects = PartsAmong(M, m.dir, c) /\ r.flags = FlagsAmong(M, m.dir, c)
  <2>1. Reads(c, outDir[In(m.dir, "Kbuild")], PartsAmong(M, m.dir, c), FlagsAmong(M, m.dir, c))
    BY <1>1, <1>2, <1>3 DEF KbuildOK, M
  <2> QED BY <2>1, EvaluateReads
<1> HIDE DEF r
<1>5. Meant(m, c)
  BY <1>1, ModuleMeaning
<1>6. {y \in r.objects : y[1] = m.out} = KbuildParts(m, c)
  <2>1. ASSUME NEW y \in KbuildParts(m, c) PROVE y \in r.objects /\ y[1] = m.out
    BY <1>1, <1>4, <2>1, PartsOwner DEF PartsAmong
  <2>2. ASSUME NEW y \in r.objects, y[1] = m.out PROVE y \in KbuildParts(m, c)
    <3>1. PICK x \in M : x.dir = m.dir /\ y \in KbuildParts(x, c)
      BY <1>4, <2>2 DEF PartsAmong
    <3>2. x.out = m.out
      BY <2>2, <3>1, PartsOwner
    <3> QED BY <1>1, <3>1, <3>2
  <2> QED BY <2>1, <2>2
<1>7. Linked(r, m) = want \/ Stray(m, c)
  <2> DEFINE parts == {x[2] : x \in KbuildParts(m, c)}
  <2>1. want = parts \/ (parts = {} /\ want = {Own(m)})
    BY <1>5 DEF Meant
  <2>2. Linked(r, m) = IF parts = {} THEN {Own(m)} \cap InTree ELSE parts
    BY <1>6 DEF Linked
  <2>3. Stray(m, c) <=> want = {} /\ Own(m) \in InTree
    BY DEF Stray
  <2>4. Own(m) \in want => Own(m) \in InTree
    BY <1>1, WantedIsThere DEF M
  <2> HIDE DEF want, parts
  <2> QED BY <2>1, <2>2, <2>3, <2>4
<1>8. \A o \in want : <<o, m.out>> \in r.flags
  <2>1. \A o \in want : <<o, m.out>> \in KbuildFlags(m, c)
    BY <1>1, <1>5 DEF Meant
  <2>2. KbuildFlags(m, c) \subseteq r.flags
    BY <1>1, <1>4 DEF FlagsAmong
  <2> QED BY <2>1, <2>2
<1>9. Contains(outDir[In(m.dir, m.out)], [k |-> "include marker"]) <=> alone
  <2>1. outDir[In(m.dir, m.out)] = CflagsLines(m)
    BY <1>1, <1>2 DEF CflagsOK, M
  <2>2. Len(Flat(m.items)) \in Nat
    BY <1>1, FlatFacts, LenProperties
  <2> DEFINE l == [k |-> "include marker"]
             f == [k |-> "flags", of |-> m.out]
  <2>3. f # l
    OBVIOUS
  <2>4. CflagsLines(m) = (IF alone THEN <<l>> ELSE <<>>) \o <<f>>
    <3>1. ~alone <=> Len(Flat(m.items)) > 1
      BY <2>2
    <3>2. CflagsLines(m) = (IF Len(Flat(m.items)) > 1 THEN <<>> ELSE <<l>>) \o <<f>>
      BY DEF CflagsLines
    <3> HIDE DEF alone, l, f
    <3>3. CASE alone
      BY <3>1, <3>2, <3>3
    <3>4. CASE ~alone
      BY <3>1, <3>2, <3>4
    <3> QED BY <3>3, <3>4
  <2> HIDE DEF l, f
  <2> DEFINE X == {l, f}
             one == <<l>>
             last == <<f>>
  <2>5. one \in Seq(X) /\ Len(one) = 1 /\ one[1] = l
    OBVIOUS
  <2>6. last \in Seq(X) /\ Len(last) = 1 /\ last[1] = f
    OBVIOUS
  <2> HIDE DEF X, one, last
  <2>7. CASE alone
    <3>1. CflagsLines(m) = one \o last
      BY <2>4, <2>7 DEF one, last
    <3>2. /\ Len(one \o last) = Len(one) + Len(last)
          /\ \A j \in 1 .. (Len(one) + Len(last)) :
                (one \o last)[j] = IF j <= Len(one) THEN one[j] ELSE last[j - Len(one)]
      <4>1. one \in Seq(X) /\ last \in Seq(X)
        BY <2>5, <2>6
      <4> QED BY <4>1, ConcatProperties
    <3> DEFINE both == one \o last
    <3>3. Len(both) = 2 /\ both[1] = l
      <4> HIDE DEF both
      <4>1. Len(both) = 1 + 1 /\ \A j \in 1 .. (1 + 1) : both[j] = IF j <= 1 THEN one[j] ELSE last[j - 1]
        BY <2>5, <2>6, <3>2 DEF both
      <4> QED BY <2>5, <4>1
    <3> HIDE DEF both
    <3>4. Contains(CflagsLines(m), l)
      BY <3>1, <3>3 DEF Contains, both
    <3> QED BY <2>1, <2>7, <3>4 DEF l
  <2>8. CASE ~alone
    <3>1. CflagsLines(m) = <<>> \o last
      BY <2>4, <2>8 DEF one, last
    <3>2. CflagsLines(m) = last
      BY <2>6, <3>1, ConcatEmptySeq
    <3>3. ~Contains(CflagsLines(m), l)
      <4>1. \A j \in 1 .. 1 : last[j] # l
        BY <2>3, <2>6
      <4> QED BY <2>6, <3>2, <4>1 DEF Contains
    <3> QED BY <2>1, <2>8, <3>3 DEF l
  <2> QED BY <2>7, <2>8
<1>10. outDir[In(m.dir, "ddk_marker.c")] = <<[k |-> "marker"]>>
  BY <1>1, <1>2 DEF MarkersOK, MarkerLines, M
<1> QED BY <1>7, <1>8, <1>9, <1>10 DEF m, r

\* gen_makefiles.py: whatever the submodules, their conditions and the .config, make links each
\* module from the sources whose conditions hold and from nothing of another module of the same
\* directory, with its own flags for each, and with the marker once; but for a module that its
\* conditions leave without sources beside a source of its name, and one named ddk_marker.
THEOREM KbuildIsRead == MkSpec => []KbuildMeaning
<1>1. MkInit => MkInv
  BY MkInvInit
<1>2. MkInv /\ [MkNext]_mkVars => MkInv'
  BY MkInvStep
<1>3. MkInv => KbuildMeaning
  BY MkInvMeaning
<1> QED BY <1>1, <1>2, <1>3, PTL DEF MkSpec
=============================================================================
