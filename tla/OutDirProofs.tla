---------------------------- MODULE OutDirProofs ----------------------------
(*****************************************************************************)
(* Theorems about $OUT_DIR.  Of CacheDir, for any number of actions, tags,   *)
(* directories and symlinks and for every bound: type correctness, the        *)
(* exclusive use of an $OUT_DIR, what the tags file keeps, and the refinement *)
(* of ExclusiveDir.  Of KernelOutputs: search_and_cp_output.py puts every     *)
(* output where it is declared, and a kernel_build that succeeds delivers     *)
(* what its own make made, whatever $OUT_DIR and the staging directory        *)
(* inherited.                                                                 *)
(*****************************************************************************)
EXTENDS CacheDir, KernelOutputs, SequenceTheorems, TLAPS

-----------------------------------------------------------------------------
(* CacheDir *)

LEMMA InitType == Init => TypeOK
<1> SUFFICES ASSUME Init PROVE TypeOK
  OBVIOUS
<1>1. pc \in [Action -> Label]
  BY DEF Init, Label
<1>2. file \in [Dir -> File \cup {NoFile}] /\ fd \in [Action -> File \cup {NoFile}]
  BY DEF Init
<1>3. content \in [File -> Content]
  BY DEF Init, Content
<1>4. last \in [Name -> Dir \cup {NoDir}]
  BY DEF Init
<1>5. nfile \in 0 .. MaxFile /\ runs \in Nat /\ kills \in Nat /\ cleans \in Nat
  BY CacheDirAssumption DEF Init
<1>6. root \in BOOLEAN /\ dirs \subseteq Dir /\ locked \subseteq File
  BY DEF Init
<1> QED
  BY <1>1, <1>2, <1>3, <1>4, <1>5, <1>6 DEF TypeOK

-----------------------------------------------------------------------------
(* Three kinds of steps and what they keep of the invariant *)

\* What the invariant says about descriptors, locks and files.
Descriptors == FdOK /\ OpenOK /\ LockOK /\ FileOK /\ NameOK

\* Neither holding nor opening a tags file.
Outside == Label \ (InSection \cup {"write", "lock"})

\* A step that moves action a within the section or outside of it.
LEMMA MovePreserves ==
  ASSUME IInv, NEW a \in Action, NEW label \in Label, Goto(a, label),
         UNCHANGED <<file, fd, locked, nfile, cleans>>,
         \/ pc[a] \in InSection /\ label \in InSection
         \/ /\ pc[a] \in Outside /\ label \in Outside
            /\ label = "open" => Mode # "none"
         \/ Mode = "none" /\ pc[a] = "enter" /\ label = "build"
  PROVE  pc' \in [Action -> Label] /\ Descriptors'
<1>1. pc \in [Action -> Label] /\ pc' = [pc EXCEPT ![a] = label]
  BY DEF IInv, TypeOK, Goto
<1>2. \A b \in Action : pc'[b] = IF b = a THEN label ELSE pc[b]
  BY <1>1
<1>3. FdOK'
  BY <1>2 DEF IInv, FdOK, Outside, InSection, Label, Working
<1>4. LockOK'
  BY <1>2 DEF IInv, LockOK, Outside, InSection, Label, Working
<1>5. FileOK' /\ NameOK'
  BY DEF IInv, FileOK, NameOK, DirOf
<1>6. OpenOK'
  BY <1>2 DEF IInv, OpenOK, Outside, InSection
<1> QED BY <1>1, <1>3, <1>4, <1>5, <1>6 DEF Descriptors

\* A step at which the processes of action a end.
LEMMA ClosePreserves ==
  ASSUME IInv, NEW a \in Action, NEW label \in {"done", "failed"}, Goto(a, label), Close(a),
         UNCHANGED <<file, nfile, cleans>>
  PROVE  /\ pc' \in [Action -> Label]
         /\ fd' \in [Action -> File \cup {NoFile}]
         /\ locked' \subseteq File
         /\ Descriptors'
<1>1. /\ pc \in [Action -> Label] /\ pc' = [pc EXCEPT ![a] = label]
      /\ fd \in [Action -> File \cup {NoFile}] /\ fd' = [fd EXCEPT ![a] = NoFile]
      /\ locked \subseteq File
      /\ locked' = IF pc[a] \in InSection THEN locked \ {fd[a]} ELSE locked
  BY DEF IInv, TypeOK, Goto, Close
<1>2. \A b \in Action : /\ pc'[b] = IF b = a THEN label ELSE pc[b]
                        /\ fd'[b] = IF b = a THEN NoFile ELSE fd[b]
  BY <1>1
<1>3. FdOK'
  <2> SUFFICES ASSUME NEW b \in Action
               PROVE  /\ pc'[b] \in {"write", "lock"} => fd'[b] \in File
                      /\ pc'[b] \in InSection /\ Mode # "none" => fd'[b] \in File /\ fd'[b] \in locked'
                      /\ pc'[b] \in InSection /\ Mode = "none" => fd'[b] = NoFile
                      /\ pc'[b] \notin InSection \cup {"write", "lock"} => fd'[b] = NoFile
    BY DEF FdOK
  <2>1. CASE b = a
    BY <2>1, <1>2 DEF InSection
  <2>2. CASE b # a
    BY <2>2, <1>1, <1>2 DEF IInv, FdOK, LockOK
  <2> QED BY <2>1, <2>2
<1>4. LockOK'
  BY <1>2 DEF IInv, LockOK, InSection
<1>5. FileOK'
  <2>1. \A b \in Action : fd'[b] <= nfile
    BY <1>2 DEF IInv, FileOK, TypeOK, NoFile
  <2> QED BY <2>1 DEF IInv, FileOK
<1>6. NameOK'
  BY <1>2 DEF IInv, NameOK, DirOf
<1>7. pc' \in [Action -> Label] /\ fd' \in [Action -> File \cup {NoFile}] /\ locked' \subseteq File
  BY <1>1 DEF Label
<1>8. OpenOK'
  BY <1>2 DEF IInv, OpenOK
<1> QED BY <1>3, <1>4, <1>5, <1>6, <1>7, <1>8 DEF Descriptors

\* A step that fails action a.
LEMMA FailPreserves ==
  ASSUME IInv, NEW a \in Action, Fail(a), UNCHANGED <<file, nfile, cleans>>
  PROVE  /\ pc' \in [Action -> Label]
         /\ fd' \in [Action -> File \cup {NoFile}]
         /\ locked' \subseteq File
         /\ Descriptors'
BY ClosePreserves DEF Fail

-----------------------------------------------------------------------------
(* The invariant is inductive *)

LEMMA InitInv == Init => IInv
<1> SUFFICES ASSUME Init PROVE IInv
  OBVIOUS
<1>1. /\ \A a \in Action : pc[a] = "prepare" /\ fd[a] = NoFile
      /\ \A d \in Dir : file[d] = NoFile
      /\ nfile = 0
  BY DEF Init
<1>2. FdOK
  BY <1>1 DEF FdOK, InSection
<1>3. LockOK
  BY <1>1 DEF LockOK, InSection
<1>4. FileOK
  BY <1>1 DEF FileOK, NoFile
<1>5. NameOK
  BY <1>1 DEF NameOK
<1>6. OpenOK
  BY <1>1 DEF OpenOK
<1> QED BY <1>2, <1>3, <1>4, <1>5, <1>6, InitType DEF IInv

LEMMA CreatePreserves ==
  ASSUME IInv, NEW a \in Action, CreateDest(a)
  PROVE  IInv'
<1> DEFINE d == DirOf(a)
           f == IF file[d] = NoFile THEN nfile + 1 ELSE file[d]
<1>1. CASE d \notin dirs
  <2>1. Fail(a) /\ UNCHANGED <<root, dirs, file, content, last, nfile, runs, kills, cleans>>
    BY <1>1 DEF CreateDest
  <2> QED BY <2>1, FailPreserves DEF IInv, TypeOK, Descriptors
<1>2. CASE d \in dirs
  <2>1. /\ pc[a] = "create" /\ f <= MaxFile /\ Goto(a, "write")
        /\ file' = [file EXCEPT ![d] = f]
        /\ content' = [content EXCEPT ![f] = Empty]
        /\ fd' = [fd EXCEPT ![a] = f]
        /\ nfile' = IF file[d] = NoFile THEN f ELSE nfile
        /\ UNCHANGED <<locked, root, dirs, last, runs, kills, cleans>>
    BY <1>2 DEF CreateDest
  <2>2. d \in Dir /\ file[d] \in File \cup {NoFile} /\ nfile \in Nat
    BY <1>2 DEF IInv, TypeOK
  <2>3. f \in File /\ nfile' \in 0 .. MaxFile /\ nfile' >= nfile /\ f <= nfile'
    BY <2>1, <2>2, CacheDirAssumption DEF IInv, TypeOK, FileOK, File, NoFile
  <2>4. f = file[d] \/ f > nfile
    BY <2>2
  <2>5. file[d] # NoFile => f = file[d]
    OBVIOUS
  <2> HIDE DEF f
  <2>6. /\ \A b \in Action : /\ pc'[b] = IF b = a THEN "write" ELSE pc[b]
                             /\ fd'[b] = IF b = a THEN f ELSE fd[b]
        /\ \A e \in Dir : file'[e] = IF e = d THEN f ELSE file[e]
    BY <2>1 DEF Goto, IInv, TypeOK
  <2>7. TypeOK'
    <3>1. pc' \in [Action -> Label]
      BY <2>1 DEF IInv, TypeOK, Goto, Label, Working
    <3>2. /\ file' \in [Dir -> File \cup {NoFile}]
          /\ content' \in [File -> Content]
          /\ fd' \in [Action -> File \cup {NoFile}]
      BY <2>1, <2>3 DEF IInv, TypeOK, Content
    <3> QED BY <2>1, <2>3, <3>1, <3>2 DEF IInv, TypeOK
  <2>8. FdOK'
    BY <2>1, <2>3, <2>6 DEF IInv, FdOK, InSection
  <2>9. LockOK'
    BY <2>1, <2>6 DEF IInv, LockOK, InSection
  <2>10. fd[a] = NoFile
    BY <2>1 DEF IInv, FdOK, InSection
  <2>11. FileOK'
    <3>1. \A e \in Dir : file'[e] <= nfile'
      BY <2>2, <2>3, <2>6 DEF IInv, FileOK, TypeOK, File, NoFile
    <3>2. \A b \in Action : fd'[b] <= nfile'
      BY <2>2, <2>3, <2>6 DEF IInv, FileOK, TypeOK, File, NoFile
    <3>3. ASSUME NEW e \in Dir, NEW g \in Dir, file'[e] = file'[g], file'[e] # NoFile
          PROVE e = g
      <4>1. \A h \in Dir : h # d => file[h] # f
        BY <2>2, <2>3, <2>4 DEF IInv, FileOK, TypeOK, File, NoFile
      <4> QED BY <3>3, <4>1, <2>6 DEF IInv, FileOK
    <3> QED BY <3>1, <3>2, <3>3 DEF FileOK
  <2>12. NameOK'
    <3>1. ASSUME NEW b \in Action, cleans' = 0, fd'[b] # NoFile PROVE fd'[b] = file'[DirOf(b)]
      <4>1. CASE b = a
        BY <4>1, <2>2, <2>6
      <4>2. CASE b # a
        <5>1. fd[b] # NoFile /\ fd[b] = file[DirOf(b)] /\ fd'[b] = fd[b]
          BY <4>2, <3>1, <2>1, <2>6 DEF IInv, NameOK
        <5>2. DirOf(b) \in Dir
          BY CacheDirAssumption DEF DirOf
        <5> QED BY <5>1, <5>2, <2>5, <2>6
      <4> QED BY <4>1, <4>2
    <3>2. ASSUME NEW b \in Action, NEW e \in Dir, fd'[b] # NoFile, fd'[b] = file'[e]
          PROVE e = DirOf(b)
      <4>1. CASE b = a
        <5>1. file'[e] = file'[d] /\ file'[e] # NoFile
          BY <4>1, <3>2, <2>2, <2>6
        <5> QED BY <5>1, <2>2, <2>11, <4>1 DEF FileOK
      <4>2. CASE b # a
        <5>1. fd[b] # NoFile /\ fd[b] = fd'[b] /\ fd[b] <= nfile /\ fd[b] \in Nat
          BY <4>2, <3>2, <2>6 DEF IInv, FileOK, TypeOK, File, NoFile
        <5>2. CASE e # d
          BY <5>1, <5>2, <3>2, <2>6 DEF IInv, NameOK
        <5>3. CASE e = d
          <6>1. fd[b] = f
            BY <5>1, <5>3, <3>2, <2>6
          <6>2. f = file[d]
            BY <6>1, <5>1, <2>2, <2>4
          <6> QED BY <6>1, <6>2, <5>1, <5>3, <2>2 DEF IInv, NameOK
        <5> QED BY <5>2, <5>3
      <4> QED BY <4>1, <4>2
    <3> QED BY <3>1, <3>2 DEF NameOK
  <2>13. OpenOK'
    BY <2>6 DEF IInv, OpenOK
  <2> QED BY <2>7, <2>8, <2>9, <2>11, <2>12, <2>13 DEF IInv
<1> QED BY <1>1, <1>2

LEMMA OpenPreserves ==
  ASSUME IInv, NEW a \in Action, OpenTags(a)
  PROVE  IInv'
<1> DEFINE d == DirOf(a)
<1>1. d \in Dir
  BY CacheDirAssumption DEF DirOf
<1>2. CASE file[d] = NoFile
  <2>1. Fail(a) /\ UNCHANGED <<root, dirs, file, content, last, nfile, runs, kills, cleans>>
    BY <1>2 DEF OpenTags
  <2> QED BY <2>1, FailPreserves DEF IInv, TypeOK, Descriptors
<1>3. CASE file[d] # NoFile
  <2>1. /\ pc[a] = "open" /\ Goto(a, "lock") /\ fd' = [fd EXCEPT ![a] = file[d]]
        /\ UNCHANGED <<locked, root, dirs, file, content, last, nfile, runs, kills, cleans>>
    BY <1>3 DEF OpenTags
  <2>2. file[d] \in File /\ file[d] <= nfile
    BY <1>1, <1>3 DEF IInv, TypeOK, FileOK
  <2>3. \A b \in Action : /\ pc'[b] = IF b = a THEN "lock" ELSE pc[b]
                          /\ fd'[b] = IF b = a THEN file[d] ELSE fd[b]
    BY <2>1 DEF Goto, IInv, TypeOK
  <2>4. TypeOK'
    <3>1. pc' \in [Action -> Label] /\ fd' \in [Action -> File \cup {NoFile}]
      BY <2>1, <2>2 DEF IInv, TypeOK, Goto, Label, Working
    <3> QED BY <2>1, <3>1 DEF IInv, TypeOK
  <2>5. Mode # "none"
    BY <2>1 DEF IInv, OpenOK
  <2>6. FdOK' /\ OpenOK'
    BY <2>1, <2>2, <2>3, <2>5 DEF IInv, FdOK, OpenOK, InSection
  <2>7. LockOK'
    BY <2>3 DEF IInv, LockOK, InSection
  <2>8. FileOK' 
    BY <2>1, <2>2, <2>3 DEF IInv, FileOK
  <2>9. NameOK'
    BY <1>1, <2>1, <2>2, <2>3 DEF IInv, NameOK, FileOK, DirOf
  <2> QED BY <2>4, <2>6, <2>7, <2>8, <2>9 DEF IInv
<1> QED BY <1>2, <1>3

LEMMA FlockPreserves ==
  ASSUME IInv, NEW a \in Action, Flock(a)
  PROVE  IInv'
<1>1. /\ pc[a] = "lock" /\ fd[a] \notin locked /\ Goto(a, "build")
      /\ locked' = locked \cup {fd[a]}
      /\ UNCHANGED <<root, dirs, file, content, fd, last, nfile, runs, kills, cleans>>
  BY DEF Flock
<1>2. fd[a] \in File /\ Mode # "none"
  BY <1>1 DEF IInv, FdOK, OpenOK
<1>3. \A b \in Action : pc'[b] = IF b = a THEN "build" ELSE pc[b]
  BY <1>1 DEF Goto, IInv, TypeOK
<1>4. TypeOK'
  <2>1. pc' \in [Action -> Label]
    BY <1>1 DEF IInv, TypeOK, Goto, Label, Working
  <2> QED BY <1>1, <1>2, <2>1 DEF IInv, TypeOK
<1>5. FdOK' /\ OpenOK'
  BY <1>1, <1>2, <1>3 DEF IInv, FdOK, OpenOK, InSection
<1>6. LockOK'
  BY <1>1, <1>3 DEF IInv, FdOK, LockOK, InSection
<1>7. FileOK' /\ NameOK'
  BY <1>1 DEF IInv, FileOK, NameOK, DirOf
<1> QED BY <1>4, <1>5, <1>6, <1>7 DEF IInv

LEMMA WritePreserves ==
  ASSUME IInv, NEW a \in Action, WriteDest(a)
  PROVE  IInv'
<1>1. /\ pc[a] = "write" /\ Goto(a, "enter") /\ fd' = [fd EXCEPT ![a] = NoFile]
      /\ UNCHANGED <<root, dirs, file, locked, last, nfile, runs, kills, cleans>>
  BY DEF WriteDest
<1>2. PICK c \in Written(fd[a], TagOf[a]) : content' = [content EXCEPT ![fd[a]] = c]
  BY DEF WriteDest
<1>3. c \in Content
  BY <1>2, CacheDirAssumption DEF Written, Content
<1>4. \A b \in Action : /\ pc'[b] = IF b = a THEN "enter" ELSE pc[b]
                        /\ fd'[b] = IF b = a THEN NoFile ELSE fd[b]
  BY <1>1 DEF Goto, IInv, TypeOK
<1>5. TypeOK'
  <2>1. pc' \in [Action -> Label]
    BY <1>1 DEF IInv, TypeOK, Goto, Label, Working
  <2>2. fd' \in [Action -> File \cup {NoFile}] /\ content' \in [File -> Content]
    BY <1>1, <1>2, <1>3 DEF IInv, TypeOK
  <2> QED BY <1>1, <2>1, <2>2 DEF IInv, TypeOK
<1>6. FdOK' /\ OpenOK'
  BY <1>1, <1>4 DEF IInv, FdOK, OpenOK, InSection
<1>7. LockOK'
  BY <1>4 DEF IInv, LockOK, InSection
<1>8. FileOK'
  <2>1. \A b \in Action : fd'[b] <= nfile
    BY <1>4 DEF IInv, FileOK, TypeOK, NoFile
  <2> QED BY <1>1, <2>1 DEF IInv, FileOK
<1>9. NameOK'
  BY <1>1, <1>4 DEF IInv, NameOK, DirOf
<1> QED BY <1>5, <1>6, <1>7, <1>8, <1>9 DEF IInv

\* The steps that only move an action, or that end it.
LEMMA LocalPreserves ==
  ASSUME IInv, NEW a \in Action,
         \/ Prepare(a) \/ CheckDest(a) \/ CompareDest(a) \/ EnterSection(a)
         \/ FlockRefused(a) \/ BuildSucceeds(a) \/ BuildFails(a) \/ LinkLast(a)
         \/ Unlock(a) \/ Rerun(a) \/ Kill(a)
  PROVE  IInv'
<1> USE DEF Label, Working, Outside, InSection
<1>1. CASE Prepare(a)
  <2>1. pc' \in [Action -> Label] /\ Descriptors'
    BY <1>1, MovePreserves DEF Prepare
  <2>2. dirs' \subseteq Dir /\ root' \in BOOLEAN
    BY <1>1, CacheDirAssumption DEF Prepare, IInv, TypeOK, DirOf
  <2> QED BY <1>1, <2>1, <2>2 DEF Prepare, IInv, TypeOK, Descriptors
<1>2. CASE CheckDest(a)
  <2>1. pc' \in [Action -> Label] /\ Descriptors'
    BY <1>2, MovePreserves DEF CheckDest
  <2> QED BY <1>2, <2>1 DEF CheckDest, IInv, TypeOK, Descriptors
<1>3. CASE CompareDest(a)
  <2>1. CASE Fail(a)
    BY <1>3, <2>1, FailPreserves DEF CompareDest, IInv, TypeOK, Descriptors
  <2>2. CASE Goto(a, "enter") /\ UNCHANGED <<fd, locked>>
    <3>1. pc' \in [Action -> Label] /\ Descriptors'
      BY <1>3, <2>2, MovePreserves DEF CompareDest
    <3> QED BY <1>3, <2>2, <3>1 DEF CompareDest, IInv, TypeOK, Descriptors
  <2> QED BY <1>3, <2>1, <2>2 DEF CompareDest
<1>4. CASE EnterSection(a)
  <2>1. CASE Fail(a)
    BY <1>4, <2>1, FailPreserves DEF EnterSection, IInv, TypeOK, Descriptors
  <2>2. CASE /\ Goto(a, IF Mode = "none" THEN "build" ELSE "open")
             /\ UNCHANGED <<fd, locked>>
    <3>1. pc' \in [Action -> Label] /\ Descriptors'
      <4>1. CASE Mode = "none"
        BY <1>4, <2>2, <4>1, MovePreserves DEF EnterSection
      <4>2. CASE Mode # "none"
        BY <1>4, <2>2, <4>2, MovePreserves DEF EnterSection
      <4> QED BY <4>1, <4>2
    <3> QED BY <1>4, <2>2, <3>1 DEF EnterSection, IInv, TypeOK, Descriptors
  <2> QED BY <1>4, <2>1, <2>2 DEF EnterSection
<1>5. CASE FlockRefused(a) \/ BuildFails(a)
  BY <1>5, FailPreserves DEF FlockRefused, BuildFails, IInv, TypeOK, Descriptors
<1>6. CASE BuildSucceeds(a)
  <2>1. pc' \in [Action -> Label] /\ Descriptors'
    BY <1>6, MovePreserves DEF BuildSucceeds
  <2> QED BY <1>6, <2>1 DEF BuildSucceeds, IInv, TypeOK, Descriptors
<1>7. CASE LinkLast(a)
  <2>1. CASE Fail(a) /\ UNCHANGED last
    BY <1>7, <2>1, FailPreserves DEF LinkLast, IInv, TypeOK, Descriptors
  <2>2. CASE /\ Goto(a, "unlock") /\ last' = [last EXCEPT ![NameOf[a]] = DirOf(a)]
             /\ UNCHANGED <<fd, locked>>
    <3>1. pc' \in [Action -> Label] /\ Descriptors'
      BY <1>7, <2>2, MovePreserves DEF LinkLast
    <3>2. last' \in [Name -> Dir \cup {NoDir}]
      BY <2>2, CacheDirAssumption DEF IInv, TypeOK, DirOf
    <3> QED BY <1>7, <2>2, <3>1, <3>2 DEF LinkLast, IInv, TypeOK, Descriptors
  <2> QED BY <1>7, <2>1, <2>2 DEF LinkLast
<1>8. CASE Unlock(a)
  BY <1>8, ClosePreserves DEF Unlock, IInv, TypeOK, Descriptors
<1>9. CASE Rerun(a)
  <2>1. pc' \in [Action -> Label] /\ Descriptors'
    BY <1>9, MovePreserves DEF Rerun
  <2> QED BY <1>9, <2>1 DEF Rerun, IInv, TypeOK, Descriptors
<1>10. CASE Kill(a)
  BY <1>10, FailPreserves DEF Kill, IInv, TypeOK, Descriptors
<1> QED
  BY <1>1, <1>2, <1>3, <1>4, <1>5, <1>6, <1>7, <1>8, <1>9, <1>10

LEMMA NextInv == IInv /\ [Next]_vars => IInv'
<1> SUFFICES ASSUME IInv, [Next]_vars PROVE IInv'
  OBVIOUS
<1>1. CASE Clean
  <2>1. TypeOK'
    <3>1. file' \in [Dir -> File \cup {NoFile}]
      BY <1>1 DEF Clean
    <3>2. last' \in [Name -> Dir \cup {NoDir}]
      BY <1>1 DEF Clean
    <3>3. root' \in BOOLEAN /\ dirs' \subseteq Dir
      BY <1>1 DEF Clean
    <3>4. cleans' \in Nat
      <4>1. cleans' = cleans + 1 /\ cleans \in Nat
        BY <1>1 DEF Clean, IInv, TypeOK
      <4> QED BY <4>1
    <3> QED BY <1>1, <3>1, <3>2, <3>3, <3>4 DEF Clean, IInv, TypeOK
  <2>2. FdOK' /\ LockOK' /\ OpenOK'
    BY <1>1 DEF Clean, IInv, FdOK, LockOK, OpenOK
  <2>3. \A d \in Dir : file'[d] = NoFile
    BY <1>1 DEF Clean
  <2>4. FileOK'
    BY <1>1, <2>3 DEF Clean, IInv, FileOK, TypeOK, NoFile
  <2>5. NameOK'
    BY <1>1, <2>3 DEF Clean, IInv, NameOK, TypeOK, DirOf
  <2> QED BY <2>1, <2>2, <2>4, <2>5 DEF IInv
<1>2. CASE MakeRoot \/ UNCHANGED vars
  <2>1. /\ UNCHANGED <<pc, dirs, file, content, fd, locked, last, nfile, runs, kills, cleans>>
        /\ root' \in BOOLEAN
    BY <1>2 DEF MakeRoot, vars, IInv, TypeOK
  <2>2. TypeOK'
    BY <2>1 DEF IInv, TypeOK
  <2>3. FdOK' /\ OpenOK' /\ LockOK'
    BY <2>1 DEF IInv, FdOK, OpenOK, LockOK
  <2>4. FileOK' /\ NameOK'
    BY <2>1 DEF IInv, FileOK, NameOK, DirOf
  <2> QED BY <2>2, <2>3, <2>4 DEF IInv
<1>3. ASSUME NEW a \in Action, Step(a) \/ Rerun(a) \/ Kill(a) PROVE IInv'
  BY <1>3, LocalPreserves, CreatePreserves, OpenPreserves, FlockPreserves, WritePreserves
  DEF Step
<1> QED BY <1>1, <1>2, <1>3 DEF Next

\* The invariant holds in every reachable state.
THEOREM Invariant == Spec => []IInv
<1> QED BY InitInv, NextInv, PTL DEF Spec

\* The type invariant of the shared $OUT_DIR holds in every reachable state.
THEOREM TypeCorrect == Spec => []TypeOK
<1>1. IInv => TypeOK
  BY DEF IInv
<1> QED BY <1>1, Invariant, PTL

-----------------------------------------------------------------------------
(* Exclusive use *)

LEMMA InvExclusive == IInv => Exclusive
<1> SUFFICES ASSUME IInv, Mode # "none", cleans = 0,
                    NEW a \in Action, NEW b \in Action,
                    a # b, DirOf(a) = DirOf(b), pc[a] \in InSection, pc[b] \in InSection
             PROVE  FALSE
  BY DEF Exclusive
<1>1. fd[a] \in File /\ fd[b] \in File
  BY DEF IInv, FdOK
<1>2. fd[a] = file[DirOf(a)] /\ fd[b] = file[DirOf(b)]
  BY <1>1 DEF IInv, NameOK, File, NoFile
<1> QED BY <1>2 DEF IInv, LockOK

\* While nobody cleans the cache, the flock on kleaf_config_tags.json keeps the
\* rules' commands of two actions from running in one $OUT_DIR at the same time.
THEOREM ExclusiveUse == Spec => []Exclusive
<1> QED BY InvExclusive, Invariant, PTL

-----------------------------------------------------------------------------
(* The tags file *)

LEMMA InvSettledStays ==
  ASSUME IInv, [Next]_vars, NEW d \in Dir, Settled(d), cleans' = cleans
  PROVE  file'[d] = file[d] /\ content'[file[d]] = content[file[d]]
<1>1. /\ file[d] # NoFile /\ content[file[d]] # Empty
      /\ \A a \in Action : DirOf(a) = d => pc[a] \notin {"create", "write"}
  BY DEF Settled
<1>2. CASE UNCHANGED <<file, content>>
  BY <1>2
<1>3. ASSUME NEW a \in Action, CreateDest(a), DirOf(a) \in dirs
      PROVE  file'[d] = file[d] /\ content'[file[d]] = content[file[d]]
  <2> DEFINE e == DirOf(a)
             f == IF file[e] = NoFile THEN nfile + 1 ELSE file[e]
  <2>1. /\ file' = [file EXCEPT ![e] = f] /\ content' = [content EXCEPT ![f] = Empty]
        /\ pc[a] = "create"
    BY <1>3 DEF CreateDest
  <2>2. e # d /\ e \in Dir
    BY <1>1, <1>3, <2>1 DEF IInv, TypeOK
  <2>3. f # file[d]
    BY <1>1, <2>2 DEF IInv, FileOK, TypeOK, File, NoFile
  <2> HIDE DEF e, f
  <2> QED BY <2>1, <2>2, <2>3 DEF IInv, TypeOK
<1>4. ASSUME NEW a \in Action, WriteDest(a)
      PROVE  file'[d] = file[d] /\ content'[file[d]] = content[file[d]]
  <2>1. PICK c \in Written(fd[a], TagOf[a]) : content' = [content EXCEPT ![fd[a]] = c]
    BY <1>4 DEF WriteDest
  <2>2. pc[a] = "write" /\ UNCHANGED file
    BY <1>4 DEF WriteDest
  <2>3. DirOf(a) # d
    BY <1>1, <2>2
  <2>4. fd[a] # file[d]
    BY <1>1, <2>3 DEF IInv, NameOK
  <2> QED BY <2>1, <2>2, <2>4 DEF IInv, TypeOK
<1>5. ASSUME NEW a \in Action, Step(a) \/ Rerun(a) \/ Kill(a)
      PROVE  \/ UNCHANGED <<file, content>> \/ WriteDest(a)
             \/ CreateDest(a) /\ DirOf(a) \in dirs
  BY <1>5 DEF Step, Prepare, CheckDest, CompareDest, CreateDest, EnterSection, OpenTags, Flock,
              FlockRefused, BuildSucceeds, BuildFails, LinkLast, Unlock, Rerun, Kill
<1>6. CASE Clean
  BY <1>6 DEF Clean, IInv, TypeOK
<1>7. CASE MakeRoot \/ UNCHANGED vars
  BY <1>7 DEF MakeRoot, vars
<1> QED BY <1>2, <1>3, <1>4, <1>5, <1>6, <1>7 DEF Next

\* No action begins to write the tags file of a settled directory.
LEMMA NoNewWriter ==
  ASSUME IInv, [Next]_vars, NEW d \in Dir, Settled(d), NEW b \in Action, DirOf(b) = d
  PROVE  pc'[b] \notin {"create", "write"}
<1>1. file[d] # NoFile /\ pc[b] \notin {"create", "write"}
  BY DEF Settled
<1>2. CASE UNCHANGED pc
  BY <1>1, <1>2
<1>3. ASSUME NEW a \in Action, NEW label \in Label, Goto(a, label),
             a = b => label \notin {"create", "write"}
      PROVE  pc'[b] \notin {"create", "write"}
  BY <1>1, <1>3 DEF Goto, IInv, TypeOK
<1>4. ASSUME NEW a \in Action, Step(a) \/ Rerun(a) \/ Kill(a)
      PROVE  pc'[b] \notin {"create", "write"}
  <2> USE DEF Label, Working
  <2>1. CASE CheckDest(a)
    <3>1. a = b => Goto(a, "compare")
      BY <1>1, <2>1 DEF CheckDest
    <3>2. Goto(a, "create") \/ Goto(a, "compare")
      BY <2>1 DEF CheckDest
    <3> QED BY <1>1, <3>1, <3>2 DEF Goto, IInv, TypeOK
  <2>2. CASE CreateDest(a)
    <3>1. a # b
      BY <1>1, <2>2 DEF CreateDest
    <3>2. Goto(a, "write") \/ Goto(a, "failed")
      BY <2>2 DEF CreateDest, Fail
    <3> QED BY <1>1, <3>1, <3>2 DEF Goto, IInv, TypeOK
  <2>3. CASE Prepare(a) \/ CompareDest(a) \/ WriteDest(a) \/ EnterSection(a)
    <3>1. \/ Goto(a, "check") \/ Goto(a, "enter") \/ Goto(a, "failed")
          \/ Goto(a, "build") \/ Goto(a, "open")
      BY <2>3 DEF Prepare, CompareDest, WriteDest, EnterSection, Fail
    <3> QED BY <1>3, <3>1
  <2>4. CASE OpenTags(a) \/ Flock(a) \/ FlockRefused(a) \/ BuildSucceeds(a)
    <3>1. Goto(a, "lock") \/ Goto(a, "failed") \/ Goto(a, "build") \/ Goto(a, "link")
      BY <2>4 DEF OpenTags, Flock, FlockRefused, BuildSucceeds, Fail
    <3> QED BY <1>3, <3>1
  <2>5. CASE BuildFails(a) \/ LinkLast(a) \/ Unlock(a) \/ Rerun(a) \/ Kill(a)
    <3>1. Goto(a, "failed") \/ Goto(a, "unlock") \/ Goto(a, "done") \/ Goto(a, "prepare")
      BY <2>5 DEF BuildFails, LinkLast, Unlock, Rerun, Kill, Fail
    <3> QED BY <1>3, <3>1
  <2> QED BY <1>4, <2>1, <2>2, <2>3, <2>4, <2>5 DEF Step
<1>5. CASE Clean \/ MakeRoot \/ UNCHANGED vars
  BY <1>2, <1>5 DEF Clean, MakeRoot, vars
<1> QED BY <1>4, <1>5 DEF Next

LEMMA SettledStep ==
  ASSUME IInv, [Next]_vars, NEW d \in Dir, Settled(d), cleans' = cleans
  PROVE  /\ Settled(d)'
         /\ file'[d] = file[d] /\ content'[file[d]] = content[file[d]]
<1>1. file'[d] = file[d] /\ content'[file[d]] = content[file[d]]
  BY InvSettledStays
<1>2. \A b \in Action : DirOf(b) = d => pc'[b] \notin {"create", "write"}
  BY NoNewWriter
<1>3. file[d] # NoFile /\ content[file[d]] # Empty
  BY DEF Settled
<1> QED BY <1>1, <1>2, <1>3 DEF Settled, DirOf

\* A directory's complete tags file, with no writer pending, is never changed by a
\* later action, nor is a writer let in: only a clean removes it.
THEOREM TagsFileStays == Spec => SettledStays
<1>1. IInv /\ [Next]_vars =>
        \A d \in Dir : Settled(d) /\ cleans' = cleans =>
            /\ Settled(d)'
            /\ file'[d] = file[d] /\ content'[file[d]] = content[file[d]]
  BY SettledStep
<1> QED BY <1>1, Invariant, PTL DEF Spec, SettledStays

-----------------------------------------------------------------------------
(* What a tags file says *)

\* An action gets past the reconciliation of a settled directory by the comparison only.
LEMMA OnlyEqualTagsPass ==
  ASSUME IInv, [Next]_vars, NEW d \in Dir, Settled(d),
         NEW b \in Action, DirOf(b) = d, Reconciled(b)'
  PROVE  Reconciled(b) \/ TagOf[b] = content[file[d]]
<1>1. pc'[b] \in {"enter", "open", "lock", "build", "link", "unlock"}
  BY DEF Reconciled, InSection
<1>2. CASE UNCHANGED pc
  BY <1>2 DEF Reconciled
<1>3. ASSUME NEW a \in Action, a # b, Step(a) \/ Rerun(a) \/ Kill(a)
      PROVE  Reconciled(b)
  <2>1. \E label \in Label : Goto(a, label)
    BY <1>3 DEF Step, Prepare, CheckDest, CompareDest, CreateDest, WriteDest, EnterSection,
                OpenTags, Flock, FlockRefused, BuildSucceeds, BuildFails, LinkLast, Unlock,
                Rerun, Kill, Fail, Label, Working
  <2>2. pc'[b] = pc[b]
    BY <1>3, <2>1 DEF Goto, IInv, TypeOK
  <2> QED BY <1>1, <2>2 DEF Reconciled, InSection
<1>4. ASSUME Step(b) \/ Rerun(b) \/ Kill(b)
      PROVE  Reconciled(b) \/ TagOf[b] = content[file[d]]
  <2>1. CASE CompareDest(b)
    BY <1>1, <2>1 DEF CompareDest, Fail, Goto, IInv, TypeOK
  <2>2. CASE Prepare(b) \/ CheckDest(b) \/ CreateDest(b) \/ Rerun(b) \/ Kill(b)
    <3>1. \/ Goto(b, "check") \/ Goto(b, "create") \/ Goto(b, "compare") \/ Goto(b, "write")
          \/ Goto(b, "failed") \/ Goto(b, "prepare")
      BY <2>2 DEF Prepare, CheckDest, CreateDest, Rerun, Kill, Fail
    <3> QED BY <1>1, <3>1 DEF Goto, IInv, TypeOK
  <2>3. CASE WriteDest(b)
    BY <2>3 DEF WriteDest, Settled
  <2>4. CASE \/ EnterSection(b) \/ OpenTags(b) \/ Flock(b) \/ FlockRefused(b)
             \/ BuildSucceeds(b) \/ BuildFails(b) \/ LinkLast(b) \/ Unlock(b)
    BY <2>4 DEF EnterSection, OpenTags, Flock, FlockRefused, BuildSucceeds, BuildFails, LinkLast,
                Unlock, Reconciled, InSection
  <2> QED BY <1>4, <2>1, <2>2, <2>3, <2>4 DEF Step
<1>5. CASE Clean \/ MakeRoot \/ UNCHANGED vars
  BY <1>2, <1>5 DEF Clean, MakeRoot, vars
<1> QED BY <1>3, <1>4, <1>5 DEF Next

\* Where the settled tags of a directory are those of the actions that build in it,
\* they stay so until a clean, however many other tags have the same directory.
THEOREM TagsDescribeBuild == Spec => TagsKept
<1>1. ASSUME IInv, [Next]_vars, NEW d \in Dir, TrueToTags(d), cleans' = cleans
      PROVE  TrueToTags(d)'
  <2>1. Settled(d)
    BY <1>1 DEF TrueToTags
  <2>2. Settled(d)' /\ file'[d] = file[d] /\ content'[file[d]] = content[file[d]]
    BY <1>1, <2>1, SettledStep
  <2>3. ASSUME NEW b \in Action, DirOf(b) = d, Reconciled(b)'
        PROVE  TagOf[b] = content'[file'[d]]
    BY <1>1, <2>1, <2>2, <2>3, OnlyEqualTagsPass DEF TrueToTags
  <2> QED BY <2>2, <2>3 DEF TrueToTags, DirOf
<1>2. IInv /\ [Next]_vars =>
        \A d \in Dir : TrueToTags(d) /\ cleans' = cleans => TrueToTags(d)'
  BY <1>1
<1> QED BY <1>2, Invariant, PTL DEF Spec, TagsKept

\* Besides a clean, two steps change a file or what a file holds.
LEMMA FileSteps ==
  ASSUME [Next]_vars
  PROVE  \/ UNCHANGED <<file, content>>
         \/ Clean
         \/ \E a \in Action : WriteDest(a) \/ (CreateDest(a) /\ DirOf(a) \in dirs)
<1>1. ASSUME NEW a \in Action, Step(a) \/ Rerun(a) \/ Kill(a)
      PROVE  \/ UNCHANGED <<file, content>> \/ WriteDest(a)
             \/ CreateDest(a) /\ DirOf(a) \in dirs
  BY <1>1 DEF Step, Prepare, CheckDest, CompareDest, CreateDest, EnterSection, OpenTags, Flock,
              FlockRefused, BuildSucceeds, BuildFails, LinkLast, Unlock, Rerun, Kill
<1>2. CASE MakeRoot \/ UNCHANGED vars
  BY <1>2 DEF MakeRoot, vars
<1> QED BY <1>1, <1>2 DEF Next

-----------------------------------------------------------------------------
(* Truncated tags files *)

\* A step that takes action a out of "write" completes the file, unless it kills it.
LEMMA WriterStays ==
  ASSUME IInv, [Next]_vars, kills' = 0, NEW b \in Action, pc[b] = "write", ~WriteDest(b)
  PROVE  pc'[b] = "write" /\ fd'[b] = fd[b]
<1>1. CASE Clean \/ MakeRoot \/ UNCHANGED vars
  BY <1>1 DEF Clean, MakeRoot, vars
<1>2. ASSUME NEW a \in Action, Step(a) \/ Rerun(a) \/ Kill(a)
      PROVE  pc'[b] = "write" /\ fd'[b] = fd[b]
  <2>1. a # b
    <3>1. ~Kill(a)
      BY DEF Kill, IInv, TypeOK
    <3> QED
      BY <1>2, <3>1 DEF Step, Prepare, CheckDest, CompareDest, CreateDest, EnterSection, OpenTags,
                        Flock, FlockRefused, BuildSucceeds, BuildFails, LinkLast, Unlock, Rerun
  <2>2. \E label \in Label : Goto(a, label)
    BY <1>2 DEF Step, Prepare, CheckDest, CompareDest, CreateDest, WriteDest, EnterSection,
                OpenTags, Flock, FlockRefused, BuildSucceeds, BuildFails, LinkLast, Unlock,
                Rerun, Kill, Fail, Label, Working
  <2>3. fd' = [fd EXCEPT ![a] = fd'[a]]
    <3>1. \/ UNCHANGED fd
          \/ \E f \in File \cup {NoFile} : fd' = [fd EXCEPT ![a] = f]
      <4>1. CASE CreateDest(a)
        <5>1. \/ Fail(a)
              \/ \E f \in Nat : f <= MaxFile /\ f \in File /\ fd' = [fd EXCEPT ![a] = f]
          <6>1. DirOf(a) \in Dir
            BY CacheDirAssumption DEF DirOf
          <6>2. nfile \in 0 .. MaxFile /\ file[DirOf(a)] \in File \cup {NoFile}
            BY <6>1 DEF IInv, TypeOK
          <6>3. nfile + 1 <= MaxFile => nfile + 1 \in File
            BY <6>2, CacheDirAssumption DEF File
          <6> QED BY <4>1, <6>2, <6>3 DEF CreateDest, File, NoFile
        <5> QED BY <5>1 DEF Fail, Close
      <4>2. CASE OpenTags(a)
        <5>1. DirOf(a) \in Dir
          BY CacheDirAssumption DEF DirOf
        <5> QED BY <4>2, <5>1 DEF OpenTags, Fail, Close, IInv, TypeOK
      <4> QED
        BY <1>2, <4>1, <4>2
        DEF Step, Prepare, CheckDest, CompareDest, WriteDest, EnterSection, Flock, FlockRefused,
            BuildSucceeds, BuildFails, LinkLast, Unlock, Rerun, Kill, Fail, Close
    <3> QED BY <3>1 DEF IInv, TypeOK
  <2> QED BY <2>1, <2>2, <2>3 DEF Goto, IInv, TypeOK
<1> QED BY <1>1, <1>2 DEF Next

LEMMA OrphanNext == IInv /\ NoOrphanEmpty /\ [Next]_vars => NoOrphanEmpty'
<1> SUFFICES ASSUME IInv, NoOrphanEmpty, [Next]_vars, kills' = 0,
                    NEW d \in Dir, file'[d] # NoFile, content'[file'[d]] = Empty
             PROVE  \E b \in Action : pc'[b] = "write" /\ fd'[b] = file'[d]
  BY DEF NoOrphanEmpty
<1>1. kills = 0
  BY DEF Next, Step, vars, Prepare, CheckDest, CompareDest, CreateDest, WriteDest, EnterSection,
         OpenTags, Flock, FlockRefused, BuildSucceeds, BuildFails, LinkLast, Unlock, Rerun, Kill,
         Clean, MakeRoot, IInv, TypeOK
<1>2. ASSUME file[d] = file'[d], content[file[d]] = Empty,
             \A a \in Action : fd[a] = file[d] => ~WriteDest(a)
      PROVE  \E b \in Action : pc'[b] = "write" /\ fd'[b] = file'[d]
  <2>1. PICK b \in Action : pc[b] = "write" /\ fd[b] = file[d]
    BY <1>1, <1>2 DEF NoOrphanEmpty
  <2> QED BY <1>2, <2>1, WriterStays
<1>3. CASE UNCHANGED <<file, content>> /\ \A a \in Action : ~WriteDest(a)
  BY <1>2, <1>3
<1>4. CASE Clean
  BY <1>4 DEF Clean
<1>5. ASSUME NEW a \in Action, CreateDest(a), DirOf(a) \in dirs
      PROVE  \E b \in Action : pc'[b] = "write" /\ fd'[b] = file'[d]
  <2> DEFINE e == DirOf(a)
             f == IF file[e] = NoFile THEN nfile + 1 ELSE file[e]
  <2>1. /\ file' = [file EXCEPT ![e] = f] /\ content' = [content EXCEPT ![f] = Empty]
        /\ Goto(a, "write") /\ fd' = [fd EXCEPT ![a] = f]
    BY <1>5 DEF CreateDest
  <2>2. \A b \in Action : ~WriteDest(b)
    <3>1. ASSUME NEW b \in Action, WriteDest(b) PROVE FALSE
      BY <1>5, <2>1, <3>1 DEF CreateDest, WriteDest, Goto, IInv, TypeOK
    <3> QED BY <3>1
  <2> HIDE DEF e, f
  <2>3. CASE file'[d] = f
    BY <2>1, <2>3 DEF Goto, IInv, TypeOK
  <2>4. CASE file'[d] # f
    <3>1. file'[d] = file[d] /\ content'[file[d]] = content[file[d]]
      BY <2>1, <2>4 DEF IInv, TypeOK
    <3> QED BY <1>2, <2>2, <3>1
  <2> QED BY <2>3, <2>4
<1>6. ASSUME NEW a \in Action, WriteDest(a)
      PROVE  \E b \in Action : pc'[b] = "write" /\ fd'[b] = file'[d]
  <2>1. PICK c \in Written(fd[a], TagOf[a]) : content' = [content EXCEPT ![fd[a]] = c]
    BY <1>6 DEF WriteDest
  <2>2. c # Empty
    BY <2>1, CacheDirAssumption, ContentAssumption DEF Written, Garbled, Empty
  <2>3. pc[a] = "write" /\ UNCHANGED file /\ Goto(a, "enter")
    BY <1>6 DEF WriteDest
  <2>4. fd[a] \in File /\ file[d] \in File
    BY <2>3 DEF IInv, FdOK, TypeOK
  <2>5. fd[a] # file[d] /\ content[file[d]] = Empty
    BY <2>1, <2>2, <2>3, <2>4 DEF IInv, TypeOK
  <2>6. \A b \in Action : WriteDest(b) => b = a
    BY <2>3 DEF WriteDest, Goto, IInv, TypeOK
  <2> QED BY <1>2, <2>3, <2>5, <2>6
<1> QED BY <1>3, <1>4, <1>5, <1>6, FileSteps

\* Only a kill leaves an empty tags file without the writer that completes it; what a
\* file of several writers holds that is not empty, the theorem does not say.
THEOREM NoOrphan == Spec => []NoOrphanEmpty
<1>1. Init => NoOrphanEmpty
  BY DEF Init, NoOrphanEmpty
<1> QED BY <1>1, OrphanNext, Invariant, PTL DEF Spec

-----------------------------------------------------------------------------
(* Refinement *)

\* How an action's label shows in ExclusiveDir.
Image(label) == CASE label \in InSection -> "using"
                  [] label \in Working \ InSection -> "trying"
                  [] OTHER -> "idle"

LEMMA ImageOfMove ==
  ASSUME IInv, NEW a \in Action, NEW label \in Label, Goto(a, label)
  PROVE  /\ phase' = [phase EXCEPT ![a] = Image(label)]
         /\ phase[a] = Image(pc[a])
<1>1. \A b \in Action : pc'[b] = IF b = a THEN label ELSE pc[b]
  BY DEF IInv, TypeOK, Goto
<1>2. /\ phase = [b \in Action |-> Image(pc[b])]
      /\ phase' = [b \in Action |-> Image(pc'[b])]
  BY DEF phase, Image
<1> HIDE DEF phase
<1> QED BY <1>1, <1>2

\* An action that enters the section finds its directory free.
LEMMA SectionFree ==
  ASSUME Mode # "none", IInv, cleans = 0, NEW a \in Action, Flock(a)
  PROVE  Excl!Free(DirOf(a))
<1> SUFFICES ASSUME NEW b \in Action, DirOf(b) = DirOf(a), phase[b] = "using"
             PROVE  FALSE
  BY DEF Excl!Free
<1>1. pc[b] \in InSection
  BY DEF phase
<1>2. fd[b] \in locked /\ fd[b] = file[DirOf(b)]
  BY <1>1 DEF IInv, FdOK, NameOK, File, NoFile
<1>3. fd[a] \notin locked /\ fd[a] = file[DirOf(a)]
  BY DEF Flock, IInv, FdOK, NameOK, File, NoFile
<1> QED BY <1>2, <1>3

\* As long as nobody cleans the cache, every step with a lock mode is a step of
\* ExclusiveDir or leaves its state alone.
LEMMA StepRefines ==
  ASSUME Mode # "none", IInv, cleans = 0, [Next]_vars
  PROVE  [Excl!Next]_phase
<1> USE DEF Label, Working, InSection
<1>1. ASSUME NEW a \in Action, Prepare(a) PROVE Excl!Try(a)
  BY <1>1, ImageOfMove DEF Prepare, Excl!Try, Image
<1>2. ASSUME NEW a \in Action, Flock(a) PROVE Excl!Enter(a)
  BY <1>2, ImageOfMove, SectionFree DEF Flock, Excl!Enter, Image
<1>3. ASSUME NEW a \in Action, pc[a] \in Working, Goto(a, "failed")
      PROVE  Excl!GiveUp(a) \/ Excl!Leave(a)
  BY <1>3, ImageOfMove DEF Excl!GiveUp, Excl!Leave, Image
<1>4. ASSUME NEW a \in Action, Unlock(a) PROVE Excl!Leave(a)
  BY <1>4, ImageOfMove DEF Unlock, Excl!Leave, Image
<1>5. ASSUME NEW a \in Action, NEW label \in Label, Goto(a, label),
             Image(label) = Image(pc[a])
      PROVE  UNCHANGED phase
  <2>1. phase' = [phase EXCEPT ![a] = phase[a]]
    BY <1>5, ImageOfMove
  <2>2. phase \in [Action -> {"idle", "trying", "using"}]
    BY DEF phase
  <2> QED BY <2>1, <2>2
<1>6. ASSUME NEW a \in Action, CheckDest(a) \/ WriteDest(a) \/ BuildSucceeds(a) \/ Rerun(a)
      PROVE  UNCHANGED phase
  BY <1>5, <1>6 DEF CheckDest, WriteDest, BuildSucceeds, Rerun, Image
<1>7. ASSUME NEW a \in Action,
             CompareDest(a) \/ CreateDest(a) \/ EnterSection(a) \/ OpenTags(a) \/ LinkLast(a)
      PROVE  Excl!GiveUp(a) \/ Excl!Leave(a) \/ UNCHANGED phase
  <2>1. pc[a] \in Working
    BY <1>7 DEF CompareDest, CreateDest, EnterSection, OpenTags, LinkLast
  <2>2. CASE Goto(a, "failed")
    BY <1>3, <2>1, <2>2
  <2>3. CASE ~Goto(a, "failed")
    <3>1. \E label \in Label : Goto(a, label) /\ Image(label) = Image(pc[a])
      BY <1>7, <2>3 DEF CompareDest, CreateDest, EnterSection, OpenTags, LinkLast, Fail, Image
    <3> QED BY <3>1, <1>5
  <2> QED BY <2>2, <2>3
<1>8. ASSUME NEW a \in Action, FlockRefused(a) \/ BuildFails(a) \/ Kill(a)
      PROVE  Excl!GiveUp(a) \/ Excl!Leave(a)
  BY <1>3, <1>8 DEF FlockRefused, BuildFails, Kill, Fail
<1>9. CASE Clean \/ MakeRoot \/ UNCHANGED vars
  BY <1>9 DEF Clean, MakeRoot, vars, phase
<1> QED
  BY <1>1, <1>2, <1>4, <1>6, <1>7, <1>8, <1>9 DEF Next, Step, Excl!Next

\* No clean has happened while none is allowed.
LEMMA NoClean ==
  ASSUME MaxClean = 0
  PROVE  Spec => [](cleans = 0)
<1>1. Init => cleans = 0
  BY DEF Init
<1>2. cleans = 0 /\ [Next]_vars => (cleans = 0)'
  BY DEF Next, Step, vars, Prepare, CheckDest, CompareDest, CreateDest, WriteDest, EnterSection,
         OpenTags, Flock, FlockRefused, BuildSucceeds, BuildFails, LinkLast, Unlock, Rerun, Kill,
         Clean, MakeRoot
<1> QED BY <1>1, <1>2, PTL DEF Spec

\* With `detect` or `resolve` and no clean, the actions implement the exclusive use of
\* their directories (the safety part of ImplementsExclusiveDir).
THEOREM Refinement ==
  ASSUME Mode # "none", MaxClean = 0
  PROVE  Spec => Excl!SafeSpec
<1>1. Init => Excl!Init
  BY DEF Init, Excl!Init, phase, Working, InSection
<1>2. IInv /\ cleans = 0 /\ [Next]_vars => [Excl!Next]_phase
  BY StepRefines
<1>3. Spec => [](cleans = 0)
  BY NoClean
<1> QED BY <1>1, <1>2, <1>3, Invariant, PTL DEF Spec, Excl!SafeSpec

-----------------------------------------------------------------------------
(* KernelOutputs: its folds *)

TakeFold == INSTANCE SequenceFolds WITH Op <- LAMBDA slash, taken, out : Take(slash, taken, out)
CopyFold == INSTANCE SequenceFolds WITH Op <- LAMBDA homes, r, out : CopyOne(homes, r, out)

\* The last part of a path, as a path.
LEMMA BaseNames ==
    ASSUME NEW p \in Paths
    PROVE  /\ BaseName(p) \in Paths /\ ~HasSlash(BaseName(p)) /\ Last(BaseName(p)) = Last(p)
           /\ Last(p) = p[Len(p)] /\ Len(p) \in Nat \ {0}
           /\ ~HasSlash(p) => BaseName(p) = p
<1>1. p \in Seq(STRING) /\ Len(p) \in Nat \ {0}
  BY EmptySeq DEF Paths
<1>2. Last(p) = p[Len(p)] /\ Last(p) \in STRING
  <2>1. Len(p) \in 1 .. Len(p)
    BY <1>1
  <2> QED BY <1>1, <2>1, ElementOfSeq DEF Last
<1> DEFINE x == Last(p)
           b == <<x>>
<1> HIDE DEF x
<1>3. b \in Seq(STRING) /\ Len(b) = 1 /\ b[1] = x /\ b # <<>>
  BY <1>2 DEF x
<1> HIDE DEF b
<1>4. Last(b) = x
  BY <1>3 DEF Last
<1>5. ~HasSlash(p) => b = p
  <2>1. ASSUME ~HasSlash(p) PROVE b = p
    <3>1. Len(p) = 1
      <4>1. ~(Len(p) > 1)
        BY <2>1 DEF HasSlash
      <4>2. Len(p) \in Nat /\ Len(p) # 0
        BY <1>1
      <4> DEFINE n == Len(p)
      <4> HIDE DEF n
      <4>3. n \in Nat /\ n # 0 /\ ~(n > 1)
        BY <4>1, <4>2 DEF n
      <4>4. n = 1
        BY <4>3
      <4> QED BY <4>4 DEF n
    <3>2. p[1] = x
      BY <1>2, <3>1 DEF x
    <3>3. \A i \in 1 .. Len(b) : b[i] = p[i]
      BY <1>3, <3>1, <3>2
    <3> QED BY <1>1, <1>3, <3>1, <3>3, SeqEqual
  <2> QED BY <2>1
<1>6. ~HasSlash(b) /\ b \in Paths
  BY <1>3 DEF HasSlash, Paths
<1> QED BY <1>1, <1>2, <1>4, <1>5, <1>6 DEF BaseName, x, b

-----------------------------------------------------------------------------
(* The order in which outputs are taken *)

\* After the first k outputs: what was there before is, and of these outputs those with
\* a slash, or those without, follow.
TakenInv(slash, base, outs, taken, k) ==
    /\ Len(base) <= Len(taken)
    /\ \A j \in 1 .. Len(base) : taken[j] = base[j]
    /\ \A j \in (Len(base) + 1) .. Len(taken) :
          HasSlash(taken[j]) = slash /\ \E i \in 1 .. k : taken[j] = outs[i]
    /\ \A i \in 1 .. k : HasSlash(outs[i]) = slash => \E j \in 1 .. Len(taken) : taken[j] = outs[i]

\* One output more.
LEMMA TakeStep ==
    ASSUME NEW slash \in BOOLEAN, NEW base \in Seq(Paths), NEW outs \in Seq(Paths),
           NEW k \in 0 .. (Len(outs) - 1), NEW taken \in Seq(Paths),
           TakenInv(slash, base, outs, taken, k)
    PROVE  TakenInv(slash, base, outs, Take(slash, taken, outs[k + 1]), k + 1)
<1> DEFINE out == outs[k + 1]
           next == Append(taken, out)
<1>1. Len(base) \in Nat /\ Len(taken) \in Nat /\ k \in Nat /\ k + 1 \in 1 .. Len(outs) /\ out \in Paths
  BY ElementOfSeq
<1>2. /\ Len(base) <= Len(taken)
      /\ \A j \in 1 .. Len(base) : taken[j] = base[j]
      /\ \A j \in (Len(base) + 1) .. Len(taken) :
            HasSlash(taken[j]) = slash /\ \E i \in 1 .. k : taken[j] = outs[i]
      /\ \A i \in 1 .. k : HasSlash(outs[i]) = slash => \E j \in 1 .. Len(taken) : taken[j] = outs[i]
  BY DEF TakenInv
<1>3. CASE HasSlash(out) = slash
  <2>1. Len(next) = Len(taken) + 1 /\ next[Len(taken) + 1] = out
        /\ \A j \in 1 .. Len(taken) : next[j] = taken[j]
    BY <1>1, AppendProperties
  <2> HIDE DEF next, out
  <2>2. Len(base) <= Len(next) /\ \A j \in 1 .. Len(base) : next[j] = base[j]
    BY <1>1, <1>2, <2>1
  <2>3. ASSUME NEW j \in (Len(base) + 1) .. Len(next)
        PROVE  HasSlash(next[j]) = slash /\ \E i \in 1 .. (k + 1) : next[j] = outs[i]
    <3>1. CASE j = Len(taken) + 1
      BY <1>1, <1>3, <2>1, <3>1 DEF out
    <3>2. CASE j # Len(taken) + 1
      <4>1. j \in (Len(base) + 1) .. Len(taken) /\ j \in 1 .. Len(taken)
        BY <1>1, <2>1, <3>2
      <4> QED BY <1>1, <1>2, <2>1, <4>1
    <3> QED BY <3>1, <3>2
  <2>4. ASSUME NEW i \in 1 .. (k + 1), HasSlash(outs[i]) = slash
        PROVE  \E j \in 1 .. Len(next) : next[j] = outs[i]
    <3>1. CASE i = k + 1
      BY <1>1, <2>1, <3>1 DEF out
    <3>2. CASE i # k + 1
      <4>1. i \in 1 .. k
        BY <1>1, <3>2
      <4>2. PICK j \in 1 .. Len(taken) : taken[j] = outs[i]
        BY <1>2, <2>4, <4>1
      <4> QED BY <1>1, <2>1, <4>2
    <3> QED BY <3>1, <3>2
  <2>5. TakenInv(slash, base, outs, next, k + 1)
    BY <2>2, <2>3, <2>4 DEF TakenInv
  <2> QED BY <1>3, <2>5 DEF Take, next, out
<1>4. CASE HasSlash(out) # slash
  <2> HIDE DEF out
  <2>1. ASSUME NEW i \in 1 .. (k + 1), HasSlash(outs[i]) = slash
        PROVE  \E j \in 1 .. Len(taken) : taken[j] = outs[i]
    <3>1. i \in 1 .. k
      BY <1>1, <1>4, <2>1 DEF out
    <3> QED BY <1>2, <2>1, <3>1
  <2>2. \A i \in 1 .. k : i \in 1 .. (k + 1)
    BY <1>1
  <2>3. TakenInv(slash, base, outs, taken, k + 1)
    BY <1>2, <2>1, <2>2 DEF TakenInv
  <2> QED BY <1>4, <2>3 DEF Take, out
<1> QED BY <1>3, <1>4

\* All outputs of one kind, after what was taken before.
LEMMA Taken ==
    ASSUME NEW slash \in BOOLEAN, NEW base \in Seq(Paths), NEW outs \in Seq(Paths)
    PROVE  /\ TakeAll(slash, base, outs) \in Seq(Paths)
           /\ TakenInv(slash, base, outs, TakeAll(slash, base, outs), Len(outs))
<1> DEFINE n == Len(outs)
<1>1. \A t \in Seq(Paths), out \in Paths : Take(slash, t, out) \in Seq(Paths)
  BY AppendProperties DEF Take
<1>2. TakeFold!Trace(slash, Seq(Paths), base, outs)
  BY <1>1, TakeFold!FoldTrace
<1>3. PICK t \in [0 .. n -> Seq(Paths)] : TakeFold!IsTrace(t, slash, base, outs)
  BY <1>2 DEF TakeFold!Trace
<1>4. TakeAll(slash, base, outs) = TakeFold!FoldValue(slash, base, outs)
  BY DEF TakeAll, FoldLeft, MapThenFoldSet, Max, TakeFold!FoldValue, TakeFold!Greatest
<1>5. n \in Nat
  OBVIOUS
<1>6. /\ t[0] = base /\ t[n] = TakeAll(slash, base, outs)
      /\ \A i \in 1 .. n : t[i] = Take(slash, t[i - 1], outs[i])
  BY <1>3, <1>4 DEF TakeFold!IsTrace
<1> DEFINE T == {i \in 0 .. n : TakenInv(slash, base, outs, t[i], i)}
<1> HIDE DEF n
<1>7. 0 \in T
  <2>1. Len(base) \in Nat
    OBVIOUS
  <2>2. TakenInv(slash, base, outs, base, 0)
    BY <2>1 DEF TakenInv
  <2> QED BY <1>5, <1>6, <2>2
<1>8. ASSUME NEW i \in 0 .. (n - 1), i \in T PROVE i + 1 \in T
  <2>1. i + 1 \in 1 .. n /\ (i + 1) - 1 = i /\ i \in 0 .. n /\ i + 1 \in 0 .. n
    BY <1>5
  <2>2. t[i + 1] = Take(slash, t[i], outs[i + 1]) /\ t[i] \in Seq(Paths)
    BY <1>6, <2>1
  <2>3. TakenInv(slash, base, outs, t[i], i)
    BY <1>8
  <2>4. TakenInv(slash, base, outs, Take(slash, t[i], outs[i + 1]), i + 1)
    BY <2>2, <2>3, TakeStep DEF n
  <2> QED BY <2>1, <2>2, <2>4
<1>9. 0 .. n \subseteq T
  <2> HIDE DEF T
  <2> QED BY <1>5, <1>7, <1>8, TakeFold!UpTo
<1>10. n \in T /\ t[n] \in Seq(Paths)
  BY <1>5, <1>9
<1> QED BY <1>6, <1>10 DEF n

\* SlashFirst only reorders the outputs, and none with a slash follows one without.
LEMMA SlashFirstOrders ==
    ASSUME NEW outs \in Seq(Paths)
    PROVE  LET s == SlashFirst(outs) IN
           /\ s \in Seq(Paths)
           /\ \A j \in 1 .. Len(s) : \E i \in 1 .. Len(outs) : s[j] = outs[i]
           /\ \A i \in 1 .. Len(outs) : \E j \in 1 .. Len(s) : s[j] = outs[i]
           /\ \A i \in 1 .. Len(s) : \A j \in 1 .. i : HasSlash(s[i]) => HasSlash(s[j])
<1> DEFINE a == TakeAll(TRUE, <<>>, outs)
           s == SlashFirst(outs)
<1>1. <<>> \in Seq(Paths) /\ Len(<<>>) = 0
  BY EmptySeq
<1>2. a \in Seq(Paths) /\ TakenInv(TRUE, <<>>, outs, a, Len(outs))
  BY <1>1, Taken
<1> HIDE DEF a
<1>3. s \in Seq(Paths) /\ TakenInv(FALSE, a, outs, s, Len(outs))
  BY <1>2, Taken DEF SlashFirst, a
<1> HIDE DEF s
<1>4. /\ \A j \in 1 .. Len(a) : HasSlash(a[j]) = TRUE /\ \E i \in 1 .. Len(outs) : a[j] = outs[i]
      /\ \A i \in 1 .. Len(outs) : HasSlash(outs[i]) = TRUE => \E j \in 1 .. Len(a) : a[j] = outs[i]
  BY <1>1, <1>2 DEF TakenInv
<1>5. /\ Len(a) <= Len(s) /\ Len(a) \in Nat /\ Len(s) \in Nat
      /\ \A j \in 1 .. Len(a) : s[j] = a[j]
      /\ \A j \in (Len(a) + 1) .. Len(s) : HasSlash(s[j]) = FALSE /\ \E i \in 1 .. Len(outs) : s[j] = outs[i]
      /\ \A i \in 1 .. Len(outs) : HasSlash(outs[i]) = FALSE => \E j \in 1 .. Len(s) : s[j] = outs[i]
  BY <1>2, <1>3 DEF TakenInv
<1>6. ASSUME NEW j \in 1 .. Len(s) PROVE \E i \in 1 .. Len(outs) : s[j] = outs[i]
  <2>1. j \in 1 .. Len(a) \/ j \in (Len(a) + 1) .. Len(s)
    BY <1>5
  <2> QED BY <1>4, <1>5, <2>1
<1>7. ASSUME NEW i \in 1 .. Len(outs) PROVE \E j \in 1 .. Len(s) : s[j] = outs[i]
  <2>1. HasSlash(outs[i]) = TRUE \/ HasSlash(outs[i]) = FALSE
    BY DEF HasSlash
  <2>2. ASSUME HasSlash(outs[i]) = TRUE PROVE \E j \in 1 .. Len(s) : s[j] = outs[i]
    <3>1. PICK j \in 1 .. Len(a) : a[j] = outs[i]
      BY <1>4, <2>2
    <3>2. j \in 1 .. Len(s) /\ s[j] = outs[i]
      BY <1>5, <3>1
    <3> QED BY <3>2
  <2> QED BY <1>5, <2>1, <2>2
<1>8. ASSUME NEW i \in 1 .. Len(s), NEW j \in 1 .. i, HasSlash(s[i]) PROVE HasSlash(s[j])
  <2>1. i \in 1 .. Len(a)
    BY <1>5, <1>8
  <2>2. j \in 1 .. Len(a)
    BY <1>5, <2>1
  <2> QED BY <1>4, <1>5, <2>2
<1> QED BY <1>3, <1>6, <1>7, <1>8 DEF s

-----------------------------------------------------------------------------
(* Searching and copying *)

Dirs == UNION {[D -> Contents] : D \in SUBSET Paths}

\* Directories as functions.
LEMMA DirsAreDirs ==
    ASSUME NEW f
    PROVE  f \in Dirs <=> IsDir(f)
<1>1. ASSUME f \in Dirs PROVE IsDir(f)
  <2>1. PICK D \in SUBSET Paths : f \in [D -> Contents]
    BY <1>1 DEF Dirs
  <2> HIDE DEF Contents, Paths
  <2> QED BY <2>1 DEF IsDir
<1>2. ASSUME IsDir(f) PROVE f \in Dirs
  <2> DEFINE D == DOMAIN f
  <2> HIDE DEF Contents, Paths
  <2>1. f = [p \in D |-> f[p]] /\ \A p \in D : p \in Paths /\ f[p] \in Contents
    BY <1>2 DEF IsDir
  <2> HIDE DEF D
  <2>2. D \in SUBSET Paths /\ f \in [D -> Contents]
    BY <2>1
  <2> QED BY <2>2 DEF Dirs
<1> QED BY <1>1, <1>2

\* Files copied onto a directory.
LEMMA OntoFacts ==
    ASSUME NEW f, NEW g, IsDir(f), IsDir(g)
    PROVE  /\ IsDir(Onto(f, g)) /\ DOMAIN Onto(f, g) = DOMAIN f \cup DOMAIN g
           /\ \A p \in DOMAIN f : Onto(f, g)[p] = f[p]
           /\ \A p \in DOMAIN g : p \notin DOMAIN f => Onto(f, g)[p] = g[p]
<1> DEFINE D == DOMAIN f \cup DOMAIN g
           h == [p \in D |-> IF p \in DOMAIN f THEN f[p] ELSE g[p]]
<1> HIDE DEF Paths, Contents
<1>1. DOMAIN h = D /\ \A p \in D : h[p] = IF p \in DOMAIN f THEN f[p] ELSE g[p]
  OBVIOUS
<1>2. h = [p \in DOMAIN h |-> h[p]]
  BY <1>1
<1>3. \A p \in D : p \in Paths /\ h[p] \in Contents
  BY <1>1 DEF IsDir
<1>4. Onto(f, g) = h
  BY DEF Onto
<1> HIDE DEF h
<1> QED BY <1>1, <1>2, <1>3, <1>4 DEF IsDir

\* One content, at every one of some paths.
LEMMA SpreadIsDir ==
    ASSUME NEW S \in SUBSET Paths, NEW c \in Contents
    PROVE  IsDir([p \in S |-> c])
BY DEF IsDir

Results == [files : Dirs, ok : BOOLEAN]

\* One output: it is copied to all its destinations, or the search has failed.
LEMMA CopyStep ==
    ASSUME NEW homes, NEW r \in Results, NEW out \in Paths,
           FirstMatches(homes, out) \subseteq Contents
    PROVE  LET next == CopyOne(homes, r, out) IN
           /\ next \in Results
           /\ next.ok => /\ r.ok
                         /\ \E c \in Contents :
                              /\ FirstMatches(homes, out) = {c}
                              /\ next.files = Onto([p \in Destinations(out) |-> c], r.files)
           /\ next.files = r.files \/ \E c \in Contents :
                next.files = Onto([p \in Destinations(out) |-> c], r.files)
<1> DEFINE found == FirstMatches(homes, out)
           next == CopyOne(homes, r, out)
<1>1. r.files \in Dirs /\ r.ok \in BOOLEAN /\ r = [files |-> r.files, ok |-> r.ok]
  BY DEF Results
<1>2. Destinations(out) \in SUBSET Paths
  BY BaseNames DEF Destinations
<1>3. CASE \E c \in found : found = {c}
  <2>1. PICK c \in found : found = {c}
    BY <1>3
  <2>2. c \in Contents /\ (CHOOSE x \in found : TRUE) = c
    BY <2>1
  <2> DEFINE new == Onto([p \in Destinations(out) |-> c], r.files)
  <2>3. next = [r EXCEPT !.files = new]
    BY <1>3, <2>2 DEF CopyOne
  <2>4. new \in Dirs
    BY <1>1, <1>2, <2>2, DirsAreDirs, SpreadIsDir, OntoFacts
  <2> HIDE DEF new, next
  <2>5. next = [files |-> new, ok |-> r.ok]
    BY <1>1, <2>3
  <2>6. next.files = new /\ next.ok = r.ok
    BY <2>5
  <2>7. next \in Results
    BY <1>1, <2>4, <2>5 DEF Results
  <2> QED BY <2>1, <2>2, <2>6, <2>7 DEF new, next
<1>4. CASE ~ \E c \in found : found = {c}
  <2>1. next = [r EXCEPT !.ok = FALSE]
    BY <1>4 DEF CopyOne
  <2> HIDE DEF next
  <2>2. next = [files |-> r.files, ok |-> FALSE]
    BY <1>1, <2>1
  <2>3. next \in Results /\ next.ok = FALSE /\ next.files = r.files
    BY <1>1, <2>2 DEF Results
  <2> QED BY <2>3 DEF next
<1> QED BY <1>3, <1>4

\* What a search without an error has done: every output is there, from the first
\* directory that has it, and no file is touched that is not a destination.
Copied(homes, outs, dest, r) ==
    /\ IsDir(r.files) /\ r.ok \in BOOLEAN
    /\ r.ok => \A i \in 1 .. Len(outs) : \E c \in Contents :
                  /\ FirstMatches(homes, outs[i]) = {c}
                  /\ outs[i] \in DOMAIN r.files /\ r.files[outs[i]] = c
    /\ \A p \in DOMAIN dest : (\A i \in 1 .. Len(outs) : p \notin Destinations(outs[i])) =>
          p \in DOMAIN r.files /\ r.files[p] = dest[p]

CopiedInv(homes, s, dest, r, k) ==
    /\ r.ok => \A i \in 1 .. k : \E c \in Contents :
                  /\ FirstMatches(homes, s[i]) = {c}
                  /\ s[i] \in DOMAIN r.files /\ r.files[s[i]] = c
    /\ \A p \in DOMAIN dest : (\A i \in 1 .. k : p \notin Destinations(s[i])) =>
          p \in DOMAIN r.files /\ r.files[p] = dest[p]

\* One output more keeps the invariant of the search, because of the order: a later output
\* has no destination of an earlier one with a slash.
LEMMA CopyStepKeeps ==
    ASSUME NEW homes, NEW s \in Seq(Paths), NEW dest, NEW k \in 0 .. (Len(s) - 1),
           \A out \in Paths : FirstMatches(homes, out) \subseteq Contents,
           \A i \in 1 .. Len(s) : \A j \in 1 .. i : HasSlash(s[i]) => HasSlash(s[j]),
           NEW r \in Results, CopiedInv(homes, s, dest, r, k)
    PROVE  CopiedInv(homes, s, dest, CopyOne(homes, r, s[k + 1]), k + 1)
<1> DEFINE out == s[k + 1]
           next == CopyOne(homes, r, out)
           N(c) == [p \in Destinations(out) |-> c]
<1>1. k \in Nat /\ k + 1 \in 1 .. Len(s) /\ out \in Paths
  BY ElementOfSeq
<1>2. /\ next \in Results
      /\ next.ok => r.ok /\ \E c \in Contents : FirstMatches(homes, out) = {c} /\ next.files = Onto(N(c), r.files)
      /\ next.files = r.files \/ \E c \in Contents : next.files = Onto(N(c), r.files)
  BY <1>1, CopyStep
<1>3. IsDir(r.files) /\ Destinations(out) = {out, BaseName(out)} /\ Destinations(out) \in SUBSET Paths
  BY <1>1, BaseNames, DirsAreDirs DEF Results, Destinations
<1>4. ASSUME NEW c \in Contents
      PROVE  /\ DOMAIN Onto(N(c), r.files) = Destinations(out) \cup DOMAIN r.files
             /\ \A p \in Destinations(out) : Onto(N(c), r.files)[p] = c
             /\ \A p \in DOMAIN r.files : p \notin Destinations(out) => Onto(N(c), r.files)[p] = r.files[p]
  <2>1. IsDir(N(c)) /\ DOMAIN N(c) = Destinations(out) /\ \A p \in Destinations(out) : N(c)[p] = c
    BY <1>3, SpreadIsDir
  <2> DEFINE m == N(c)
             g == r.files
  <2> HIDE DEF m, g
  <2>2. IsDir(m) /\ IsDir(g)
    BY <1>3, <2>1 DEF m, g
  <2>3. /\ DOMAIN Onto(m, g) = DOMAIN m \cup DOMAIN g
        /\ \A p \in DOMAIN m : Onto(m, g)[p] = m[p]
        /\ \A p \in DOMAIN g : p \notin DOMAIN m => Onto(m, g)[p] = g[p]
    BY <2>2, OntoFacts
  <2>4. DOMAIN m = Destinations(out) /\ \A p \in Destinations(out) : m[p] = c
    BY <2>1 DEF m
  <2>5. /\ DOMAIN Onto(m, g) = Destinations(out) \cup DOMAIN g
        /\ \A p \in Destinations(out) : Onto(m, g)[p] = c
        /\ \A p \in DOMAIN g : p \notin Destinations(out) => Onto(m, g)[p] = g[p]
    BY <2>3, <2>4
  <2> QED BY <2>5 DEF m, g
<1> HIDE DEF next, N
<1>5. ASSUME next.ok, NEW i \in 1 .. (k + 1)
      PROVE  \E c \in Contents :
                /\ FirstMatches(homes, s[i]) = {c}
                /\ s[i] \in DOMAIN next.files /\ next.files[s[i]] = c
  <2>1. r.ok
    BY <1>2, <1>5
  <2>2. PICK c \in Contents : FirstMatches(homes, out) = {c} /\ next.files = Onto(N(c), r.files)
    BY <1>2, <1>5
  <2>3. CASE i = k + 1
    BY <1>3, <1>4, <2>2, <2>3 DEF out
  <2>4. CASE i # k + 1
    <3>1. i \in 1 .. k /\ i \in 1 .. (k + 1) /\ i \in 1 .. Len(s)
      BY <1>1, <2>4
    <3>2. PICK d \in Contents : FirstMatches(homes, s[i]) = {d} /\ s[i] \in DOMAIN r.files /\ r.files[s[i]] = d
      BY <2>1, <3>1 DEF CopiedInv
    <3>3. CASE s[i] = out
      BY <1>3, <1>4, <2>2, <3>3
    <3>4. CASE s[i] # out
      <4>1. s[i] # BaseName(out)
        <5>1. ASSUME s[i] = BaseName(out) PROVE FALSE
          <6>1. ~HasSlash(s[i])
            BY <1>1, <5>1, BaseNames
          <6>2. ~HasSlash(out)
            BY <1>1, <3>1, <6>1 DEF out
          <6> QED BY <1>1, <3>4, <5>1, <6>2, BaseNames
        <5> QED BY <5>1
      <4>2. s[i] \notin Destinations(out)
        BY <1>3, <3>4, <4>1
      <4> QED BY <1>4, <2>2, <3>2, <4>2
    <3> QED BY <3>3, <3>4
  <2> QED BY <2>3, <2>4
<1>6. ASSUME NEW p \in DOMAIN dest, \A i \in 1 .. (k + 1) : p \notin Destinations(s[i])
      PROVE  p \in DOMAIN next.files /\ next.files[p] = dest[p]
  <2>1. p \notin Destinations(out)
    BY <1>1, <1>6 DEF out
  <2>2. \A i \in 1 .. k : i \in 1 .. (k + 1)
    BY <1>1
  <2>3. p \in DOMAIN r.files /\ r.files[p] = dest[p]
    BY <1>6, <2>2 DEF CopiedInv
  <2> QED BY <1>2, <1>4, <2>1, <2>3
<1> QED BY <1>5, <1>6 DEF CopiedInv, next

\* A whole search.
LEMMA SearchCopies ==
    ASSUME NEW homes, NEW outs \in Seq(Paths), NEW dest, IsDir(dest),
           \A out \in Paths : FirstMatches(homes, out) \subseteq Contents
    PROVE  Copied(homes, outs, dest, SearchAndCp(homes, outs, dest))
<1> DEFINE s == SlashFirst(outs)
           n == Len(s)
           base == [files |-> dest, ok |-> TRUE]
           r == SearchAndCp(homes, outs, dest)
<1>1. /\ s \in Seq(Paths)
      /\ \A j \in 1 .. Len(s) : \E i \in 1 .. Len(outs) : s[j] = outs[i]
      /\ \A i \in 1 .. Len(outs) : \E j \in 1 .. Len(s) : s[j] = outs[i]
      /\ \A i \in 1 .. Len(s) : \A j \in 1 .. i : HasSlash(s[i]) => HasSlash(s[j])
  BY SlashFirstOrders
<1>2. base \in Results
  BY DirsAreDirs DEF Results
<1>3. \A v \in Results, out \in Paths : CopyOne(homes, v, out) \in Results
  BY CopyStep
<1>4. r = CopyFold!FoldValue(homes, base, s)
  BY DEF SearchAndCp, FoldLeft, MapThenFoldSet, Max, CopyFold!FoldValue, CopyFold!Greatest
<1> HIDE DEF s, base, r
<1>5. CopyFold!Trace(homes, Results, base, s)
  BY <1>1, <1>2, <1>3, CopyFold!FoldTrace
<1>6. PICK t \in [0 .. n -> Results] : CopyFold!IsTrace(t, homes, base, s)
  BY <1>5 DEF CopyFold!Trace
<1>7. t[0] = base /\ t[n] = r /\ \A i \in 1 .. n : t[i] = CopyOne(homes, t[i - 1], s[i])
  BY <1>4, <1>6 DEF CopyFold!IsTrace
<1>8. n \in Nat
  BY <1>1
<1> DEFINE T == {i \in 0 .. n : CopiedInv(homes, s, dest, t[i], i)}
<1> HIDE DEF n
<1>9. 0 \in T
  <2>1. base.files = dest
    BY DEF base
  <2>2. CopiedInv(homes, s, dest, base, 0)
    BY <2>1 DEF CopiedInv
  <2> QED BY <1>7, <1>8, <2>2
<1>10. ASSUME NEW i \in 0 .. (n - 1), i \in T PROVE i + 1 \in T
  <2>1. i + 1 \in 1 .. n /\ (i + 1) - 1 = i /\ i \in 0 .. n /\ i + 1 \in 0 .. n
    BY <1>8
  <2>2. t[i + 1] = CopyOne(homes, t[i], s[i + 1]) /\ t[i] \in Results
    BY <1>7, <2>1
  <2>3. CopiedInv(homes, s, dest, t[i], i)
    BY <1>10
  <2>4. CopiedInv(homes, s, dest, CopyOne(homes, t[i], s[i + 1]), i + 1)
    BY <1>1, <2>2, <2>3, CopyStepKeeps DEF n
  <2> QED BY <2>1, <2>2, <2>4
<1>11. 0 .. n \subseteq T
  <2> HIDE DEF T
  <2> QED BY <1>8, <1>9, <1>10, CopyFold!UpTo
<1>12. CopiedInv(homes, s, dest, r, n) /\ r \in Results
  BY <1>7, <1>8, <1>11
<1>13. IsDir(r.files) /\ r.ok \in BOOLEAN
  BY <1>12, DirsAreDirs DEF Results
<1>14. ASSUME r.ok, NEW i \in 1 .. Len(outs)
       PROVE  \E c \in Contents :
                 /\ FirstMatches(homes, outs[i]) = {c}
                 /\ outs[i] \in DOMAIN r.files /\ r.files[outs[i]] = c
  <2>1. PICK j \in 1 .. n : s[j] = outs[i]
    BY <1>1 DEF n
  <2>2. \A k \in 1 .. n : \E c \in Contents :
           FirstMatches(homes, s[k]) = {c} /\ s[k] \in DOMAIN r.files /\ r.files[s[k]] = c
    BY <1>12, <1>14 DEF CopiedInv
  <2> HIDE DEF n
  <2>3. PICK c \in Contents :
           FirstMatches(homes, s[j]) = {c} /\ s[j] \in DOMAIN r.files /\ r.files[s[j]] = c
    BY <2>1, <2>2
  <2> QED BY <2>1, <2>3
<1>15. ASSUME NEW p \in DOMAIN dest, \A i \in 1 .. Len(outs) : p \notin Destinations(outs[i])
       PROVE  p \in DOMAIN r.files /\ r.files[p] = dest[p]
  <2>1. \A j \in 1 .. n : p \notin Destinations(s[j])
    BY <1>1, <1>15 DEF n
  <2> QED BY <1>12, <2>1 DEF CopiedInv
<1> QED BY <1>13, <1>14, <1>15 DEF Copied, r

-----------------------------------------------------------------------------
(* What a search finds *)

\* What a directory offers for an output has its name.
LEMMA MatchesFacts ==
    ASSUME NEW dir, IsDir(dir), NEW out \in Paths
    PROVE  /\ Matches(dir, out) \subseteq Contents
           /\ out \in DOMAIN dir => Matches(dir, out) = {dir[out]}
           /\ \A c \in Matches(dir, out) : \E p \in DOMAIN dir : dir[p] = c /\ Last(p) = Last(out)
           /\ out \notin DOMAIN dir /\ ~HasSlash(out) =>
                 \A p \in DOMAIN dir : BaseName(p) = out => dir[p] \in Matches(dir, out)
<1>1. \A p \in DOMAIN dir : p \in Paths /\ dir[p] \in Contents
  BY DEF IsDir
<1> HIDE DEF Paths, Contents, HasSlash
<1>2. CASE out \in DOMAIN dir
  <2>1. Matches(dir, out) = {dir[out]}
    BY <1>2 DEF Matches
  <2> QED BY <1>1, <1>2, <2>1
<1>3. CASE out \notin DOMAIN dir /\ ~HasSlash(out)
  <2>1. Matches(dir, out) = {dir[p] : p \in {q \in DOMAIN dir : BaseName(q) = out}}
    BY <1>3 DEF Matches
  <2>2. \A p \in DOMAIN dir : BaseName(p) = out => Last(p) = Last(out)
    BY <1>1, BaseNames
  <2>3. \A c \in Matches(dir, out) : \E p \in DOMAIN dir : dir[p] = c /\ BaseName(p) = out
    BY <2>1
  <2>4. \A p \in DOMAIN dir : BaseName(p) = out => dir[p] \in Matches(dir, out)
    BY <2>1
  <2>5. \A c \in Matches(dir, out) : c \in Contents
    BY <1>1, <2>3
  <2>6. \A c \in Matches(dir, out) : \E p \in DOMAIN dir : dir[p] = c /\ Last(p) = Last(out)
    BY <2>2, <2>3
  <2> QED BY <1>3, <2>4, <2>5, <2>6
<1>4. CASE out \notin DOMAIN dir /\ HasSlash(out)
  <2>1. Matches(dir, out) = {}
    BY <1>4 DEF Matches
  <2> QED BY <1>4, <2>1
<1> QED BY <1>2, <1>3, <1>4

\* Searching one directory.
LEMMA FirstOfOne ==
    ASSUME NEW d, NEW out
    PROVE  FirstMatches(<<d>>, out) = Matches(d, out)
<1> DEFINE s == <<d>>
           I == {i \in 1 .. Len(s) : Matches(s[i], out) # {}}
<1>1. Len(s) = 1 /\ s[1] = d
  OBVIOUS
<1>2. FirstMatches(s, out) = LET i == IF I # {} THEN Min(I) ELSE 0
                             IN  IF i = 0 THEN {} ELSE Matches(s[i], out)
  BY DEF FirstMatches, SelectInSeq
<1> HIDE DEF s
<1>3. I # {} => Min(I) = 1
  BY <1>1 DEF Min
<1>4. I # {} <=> Matches(d, out) # {}
  BY <1>1
<1>5. FirstMatches(s, out) = Matches(d, out)
  BY <1>1, <1>2, <1>3, <1>4
<1> QED BY <1>5 DEF s

\* Searching two: the second one counts only if the first has nothing.
LEMMA FirstOfTwo ==
    ASSUME NEW d, NEW e, NEW out
    PROVE  /\ Matches(d, out) # {} => FirstMatches(<<d, e>>, out) = Matches(d, out)
           /\ Matches(d, out) = {} => FirstMatches(<<d, e>>, out) = Matches(e, out)
<1> DEFINE s == <<d, e>>
           I == {i \in 1 .. Len(s) : Matches(s[i], out) # {}}
<1>1. Len(s) = 2 /\ s[1] = d /\ s[2] = e
  OBVIOUS
<1>2. FirstMatches(s, out) = LET i == IF I # {} THEN Min(I) ELSE 0
                             IN  IF i = 0 THEN {} ELSE Matches(s[i], out)
  BY DEF FirstMatches, SelectInSeq
<1> HIDE DEF s
<1>3. CASE Matches(d, out) # {}
  <2>1. 1 \in I /\ \A i \in I : 1 <= i
    BY <1>1, <1>3
  <2>2. Min(I) = 1
    <3>1. \A x \in I : (\A y \in I : x <= y) => x = 1
      <4>1. \A x \in I : x \in Nat
        BY <1>1
      <4> HIDE DEF I
      <4> QED BY <2>1, <4>1
    <3> HIDE DEF I
    <3> QED BY <2>1, <3>1 DEF Min
  <2> HIDE DEF I
  <2>3. FirstMatches(s, out) = Matches(d, out)
    BY <1>1, <1>2, <2>1, <2>2
  <2> QED BY <1>3, <2>3 DEF s
<1>4. CASE Matches(d, out) = {} /\ Matches(e, out) # {}
  <2>1. I = {2}
    BY <1>1, <1>4
  <2>2. Min(I) = 2
    <3> HIDE DEF I
    <3> QED BY <2>1 DEF Min
  <2> HIDE DEF I
  <2>3. FirstMatches(s, out) = Matches(e, out)
    BY <1>1, <1>2, <2>1, <2>2
  <2> QED BY <1>4, <2>3 DEF s
<1>5. CASE Matches(d, out) = {} /\ Matches(e, out) = {}
  <2>1. I = {}
    BY <1>1, <1>5
  <2> HIDE DEF I
  <2>2. FirstMatches(s, out) = {}
    BY <1>2, <2>1
  <2> QED BY <1>5, <2>2 DEF s
<1> QED BY <1>3, <1>4, <1>5

\* A release in front of a path.
LEMMA Longer ==
    ASSUME NEW S, NEW n \in S, NEW p \in Seq(S), p # <<>>
    PROVE  LET q == <<n>> \o p IN
           q \in Seq(S) /\ q # <<>> /\ Len(q) > 1 /\ q[1] = n /\ Tail(q) = p /\ q[Len(q)] = p[Len(p)]
<1> DEFINE b == <<n>>
           q == b \o p
<1>1. b \in Seq(S) /\ Len(b) = 1 /\ b[1] = n
  OBVIOUS
<1>2. Len(p) \in Nat /\ Len(p) > 0
  BY EmptySeq
<1> HIDE DEF b
<1>3. q \in Seq(S) /\ Len(q) = 1 + Len(p)
      /\ \A i \in 1 .. (1 + Len(p)) : q[i] = IF i <= 1 THEN b[i] ELSE p[i - 1]
  <2>1. b \in Seq(S)
    BY <1>1
  <2>2. q \in Seq(S) /\ Len(q) = Len(b) + Len(p)
        /\ \A i \in 1 .. (Len(b) + Len(p)) : q[i] = IF i <= Len(b) THEN b[i] ELSE p[i - Len(b)]
    BY <2>1, ConcatProperties
  <2> HIDE DEF q
  <2> QED BY <1>1, <2>2
<1> HIDE DEF q
<1>4. Len(q) > 1 /\ q[1] = n /\ q[Len(q)] = p[Len(p)]
  BY <1>1, <1>2, <1>3
<1>5. q # <<>>
  BY <1>4, EmptySeq
<1>6. Tail(q) \in Seq(S) /\ Len(Tail(q)) = Len(p) /\ \A i \in 1 .. Len(p) : Tail(q)[i] = q[i + 1]
  BY <1>2, <1>3, <1>5, HeadTailProperties
<1>7. \A i \in 1 .. Len(p) : i + 1 \in 1 .. (1 + Len(p)) /\ ~(i + 1 <= 1) /\ (i + 1) - 1 = i
  BY <1>2
<1>8. Tail(q) = p
  BY <1>2, <1>3, <1>6, <1>7, SeqEqual
<1> QED BY <1>3, <1>4, <1>5, <1>8 DEF q, b

\* A path of several parts is its first and the rest.
LEMMA Split ==
    ASSUME NEW S, NEW q \in Seq(S), Len(q) > 1
    PROVE  q[1] \in S /\ Tail(q) \in Seq(S) /\ Tail(q) # <<>> /\ <<q[1]>> \o Tail(q) = q
<1> DEFINE n == q[1]
           t == Tail(q)
<1>1. q # <<>> /\ Len(q) \in Nat
  BY EmptySeq
<1>2. n \in S
  BY <1>1, ElementOfSeq
<1>3. t \in Seq(S) /\ Len(t) = Len(q) - 1 /\ \A i \in 1 .. (Len(q) - 1) : t[i] = q[i + 1]
  BY <1>1, HeadTailProperties
<1> HIDE DEF n, t
<1>4. t # <<>>
  BY <1>1, <1>3, EmptySeq
<1> DEFINE b == <<n>>
           c == b \o t
<1>5. b \in Seq(S) /\ Len(b) = 1 /\ b[1] = n
  BY <1>2
<1> HIDE DEF b
<1>6. c \in Seq(S) /\ Len(c) = Len(b) + Len(t)
      /\ \A i \in 1 .. (Len(b) + Len(t)) : c[i] = IF i <= Len(b) THEN b[i] ELSE t[i - Len(b)]
  <2>1. b \in Seq(S) /\ t \in Seq(S)
    BY <1>3, <1>5
  <2> QED BY <2>1, ConcatProperties
<1> HIDE DEF c
<1>7. Len(c) = Len(q)
  BY <1>1, <1>3, <1>5, <1>6
<1>8. ASSUME NEW i \in 1 .. Len(c) PROVE c[i] = q[i]
  <2>1. CASE i = 1
    BY <1>1, <1>5, <1>6, <1>7, <2>1 DEF n
  <2>2. CASE i # 1
    <3>1. i - 1 \in 1 .. (Len(q) - 1) /\ (i - 1) + 1 = i /\ ~(i <= 1)
      BY <1>1, <1>7, <2>2
    <3> QED BY <1>3, <1>5, <1>6, <1>7, <3>1
  <2> QED BY <2>1, <2>2
<1>9. c = q
  BY <1>1, <1>6, <1>7, <1>8, SeqEqual
<1> QED BY <1>2, <1>3, <1>4, <1>9 DEF n, t, b, c

\* The same of paths.
LEMMA ReleasePaths ==
    ASSUME NEW n \in STRING, NEW p \in Paths
    PROVE  LET q == <<n>> \o p IN
           q \in Paths /\ HasSlash(q) /\ q[1] = n /\ Tail(q) = p
BY ZenonT(40), Longer DEF Paths, HasSlash

\* A path of several parts, as a path below another.
LEMMA ReleaseSplit ==
    ASSUME NEW q \in Paths, HasSlash(q)
    PROVE  q[1] \in STRING /\ Tail(q) \in Paths /\ <<q[1]>> \o Tail(q) = q
BY Split DEF Paths, HasSlash

\* What is below a name is there with the rest of its path.
LEMMA BelowFacts ==
    ASSUME NEW dir, IsDir(dir), \A p \in DOMAIN dir : HasSlash(p), NEW n
    PROVE  /\ IsDir(Below(dir, n))
           /\ \A p \in DOMAIN Below(dir, n) : \E q \in DOMAIN dir :
                 q[1] = n /\ p = Tail(q) /\ Below(dir, n)[p] = dir[q]
<1> DEFINE S == {Tail(q) : q \in {r \in DOMAIN dir : r[1] = n}}
           b == [p \in S |-> dir[<<n>> \o p]]
<1>1. Below(dir, n) = b
  BY DEF Below
<1>2. ASSUME NEW p \in S
      PROVE  p \in Paths /\ \E q \in DOMAIN dir : q[1] = n /\ p = Tail(q) /\ b[p] = dir[q]
  <2>1. PICK q \in DOMAIN dir : q[1] = n /\ p = Tail(q)
    OBVIOUS
  <2>2. q \in Paths /\ HasSlash(q)
    BY DEF IsDir
  <2>3. p \in Paths /\ <<n>> \o p = q
    BY <2>1, <2>2, ReleaseSplit
  <2>4. b[p] = dir[<<n>> \o p]
    OBVIOUS
  <2> HIDE DEF b
  <2> QED BY <2>1, <2>3, <2>4
<1>3. DOMAIN b = S /\ b = [p \in DOMAIN b |-> b[p]]
  OBVIOUS
<1> HIDE DEF b, S, Paths, Contents
<1>4. \A p \in S : p \in Paths /\ b[p] \in Contents
  BY <1>2 DEF IsDir
<1> QED BY <1>1, <1>2, <1>3, <1>4 DEF IsDir

-----------------------------------------------------------------------------
(* The main action *)

AfterUnstripped == {"check", "cleanup", "done"}
AfterModules == {"unstripped"} \cup AfterUnstripped
AfterArchive == {"modules"} \cup AfterModules
AfterOutputs == {"archive"} \cup AfterArchive
AfterInstall == {"outputs"} \cup AfterOutputs
AfterMake == {"install"} \cup AfterInstall
Steps == {"make", "failed"} \cup AfterMake

OutputTypeOK ==
    /\ buildIn \in BuildRequest /\ buildNo \in Nat /\ buildAt \in Steps
    /\ IsDir(outTree) /\ IsDir(staging) /\ IsDir(ruleDir) /\ IsDir(unstripped) /\ IsDir(archive)

\* The modules of $OUT_DIR and of the staging directory are where a build puts modules.
TreesInv ==
    /\ \A p \in DOMAIN outTree : Last(p) \in ModuleName => HasSlash(p)
    /\ \A p \in DOMAIN staging : HasSlash(p)
    /\ buildAt = "done" => DOMAIN staging = {}
    /\ buildAt \in {"make", "install"} => Releases(staging) \subseteq left

\* Only this build's release, if any, was staged by builds that failed.
OwnStaging == left \subseteq (IF Installs THEN {buildIn.release} ELSE {})

MadeInv == \A p \in buildIn.makes : p \in DOMAIN outTree /\ outTree[p] = Made(p)

DeliveredInv ==
    \A out \in ToSet(buildIn.outs) \cap buildIn.makes :
        out \in DOMAIN ruleDir /\ ruleDir[out] = Made(out)

StagedInv ==
    \A p \in DOMAIN staging :
        /\ p[1] = buildIn.release /\ Tail(p) \in buildIn.makes
        /\ Last(Tail(p)) \in ModuleName /\ staging[p] = Made(Tail(p))

PackedInv == \A p \in DOMAIN archive : archive[p].by = buildNo

\* Where a module was delivered from.
GrabbedInv ==
    \A i \in 1 .. Len(buildIn.modules) :
        \E q \in buildIn.makes :
            /\ Last(q) = Last(buildIn.modules[i]) /\ ruleDir[buildIn.modules[i]] = Made(q)

UnstrippedInv ==
    \A i \in 1 .. Len(buildIn.modules) :
        unstripped[BaseName(buildIn.modules[i])] = ruleDir[buildIn.modules[i]]

OutputInv ==
    /\ OutputTypeOK /\ TreesInv
    /\ buildAt \in AfterMake => MadeInv
    /\ buildAt \in AfterOutputs => DeliveredInv
    /\ OwnStaging => /\ buildAt \in AfterInstall => StagedInv
                     /\ buildAt \in AfterArchive => PackedInv
                     /\ buildAt \in AfterModules => GrabbedInv
                     /\ buildAt \in AfterUnstripped => UnstrippedInv

\* The assumption, for one build.
LEMMA RequestFacts ==
    ASSUME NEW b \in BuildRequest
    PROVE  /\ b.outs \in Seq(Paths) /\ b.modules \in Seq(Paths)
           /\ b.release \in STRING /\ IsDir(b.mixed)
           /\ \A i \in 1 .. Len(b.outs) : b.outs[i] \in Paths /\ Last(b.outs[i]) \notin ModuleName
           /\ \A i \in 1 .. Len(b.modules) : b.modules[i] \in Paths /\ Last(b.modules[i]) \in ModuleName
           /\ \A p \in b.makes : p \in Paths /\ (Last(p) \in ModuleName => HasSlash(p))
<1> HIDE DEF Paths
<1>1. /\ b.outs \in Seq(Paths) /\ b.modules \in Seq(Paths)
      /\ b.release \in STRING /\ IsDir(b.mixed)
      /\ \A i \in DOMAIN b.outs : b.outs[i][Len(b.outs[i])] \notin ModuleName
      /\ \A i \in DOMAIN b.modules : b.modules[i][Len(b.modules[i])] \in ModuleName
      /\ \A p \in b.makes : p \in Paths /\ (p[Len(p)] \in ModuleName => Len(p) > 1)
  BY KernelOutputsAssumption
<1>2. ASSUME NEW s \in Seq(Paths), NEW i \in 1 .. Len(s)
      PROVE  s[i] \in Paths /\ Last(s[i]) = s[i][Len(s[i])] /\ i \in DOMAIN s
  BY ElementOfSeq, LenProperties, BaseNames
<1>3. \A p \in b.makes : Last(p) = p[Len(p)]
  BY <1>1, BaseNames
<1>4. ASSUME NEW i \in 1 .. Len(b.outs)
      PROVE  b.outs[i] \in Paths /\ Last(b.outs[i]) \notin ModuleName
  BY <1>1, <1>2
<1>5. ASSUME NEW i \in 1 .. Len(b.modules)
      PROVE  b.modules[i] \in Paths /\ Last(b.modules[i]) \in ModuleName
  BY <1>1, <1>2
<1>6. ASSUME NEW p \in b.makes PROVE p \in Paths /\ (Last(p) \in ModuleName => HasSlash(p))
  BY <1>1, <1>3 DEF HasSlash
<1> QED BY <1>1, <1>4, <1>5, <1>6

\* The empty directory.
LEMMA NoFilesIsDir == IsDir(NoFiles) /\ DOMAIN NoFiles = {} /\ Releases(NoFiles) = {}
BY DEF NoFiles, IsDir, Releases

\* What make makes is a content, of this build.
LEMMA MadeIsContents ==
    ASSUME buildNo \in Nat, NEW p \in Paths
    PROVE  Made(p) \in Contents /\ Made(p).by = buildNo
BY DEF Made, Contents

\* At first nothing is there.
LEMMA OutputInvInit == OutputInit => OutputInv
BY NoFilesIsDir DEF OutputInit, OutputInv, OutputTypeOK, TreesInv, Steps, AfterMake, AfterInstall,
   AfterOutputs, AfterArchive, AfterModules, AfterUnstripped

\* The next build inherits both directories, or has fresh ones.
LEMMA NextBuildKeeps == OutputInv /\ NextBuild => OutputInv'
<1> SUFFICES ASSUME OutputInv, NextBuild PROVE OutputInv'
    OBVIOUS
<1>1. OutputTypeOK /\ TreesInv
  BY DEF OutputInv
<1>2. /\ buildAt \in {"done", "failed"} /\ buildNo' = buildNo + 1 /\ buildAt' = "make"
      /\ buildIn' \in BuildRequest
      /\ UNCHANGED <<outTree, staging>> \/ (outTree' = NoFiles /\ staging' = NoFiles)
      /\ left' = IF buildAt = "failed" THEN Releases(staging') ELSE {}
      /\ ruleDir' = NoFiles /\ unstripped' = NoFiles /\ archive' = NoFiles
  BY DEF NextBuild
<1>3. OutputTypeOK'
  BY <1>1, <1>2, NoFilesIsDir DEF OutputTypeOK, Steps
<1>4. Releases(staging') \subseteq left'
  <2>1. CASE buildAt = "failed"
    BY <1>2, <2>1
  <2>2. CASE buildAt = "done"
    <3>1. DOMAIN staging' = {}
      BY <1>1, <1>2, <2>2, NoFilesIsDir DEF TreesInv
    <3> QED BY <3>1 DEF Releases
  <2> QED BY <1>2, <2>1, <2>2
<1>5. TreesInv'
  BY <1>1, <1>2, <1>4, NoFilesIsDir DEF TreesInv
<1> QED BY <1>2, <1>3, <1>5 DEF OutputInv, AfterMake, AfterInstall, AfterOutputs, AfterArchive,
           AfterModules, AfterUnstripped

\* make leaves files of this build, or fails.
LEMMA MakeKeeps == OutputInv /\ Make => OutputInv'
<1> SUFFICES ASSUME OutputInv, Make PROVE OutputInv'
    OBVIOUS
<1>1. OutputTypeOK /\ TreesInv
  BY DEF OutputInv
<1>2. PICK made \in SUBSET buildIn.makes :
         /\ outTree' = Onto([p \in made |-> Made(p)], outTree)
         /\ buildAt' = IF made = buildIn.makes THEN "install" ELSE "failed"
  BY DEF Make, Goes
<1>3. buildAt = "make" /\ UNCHANGED <<buildIn, buildNo, staging, ruleDir, unstripped, archive, left>>
  BY DEF Make
<1> DEFINE new == [p \in made |-> Made(p)]
<1>4. \A p \in buildIn.makes : p \in Paths /\ (Last(p) \in ModuleName => HasSlash(p)) /\ Made(p) \in Contents
  BY <1>1, RequestFacts, MadeIsContents DEF OutputTypeOK
<1>5. IsDir(new) /\ DOMAIN new = made /\ \A p \in made : new[p] = Made(p)
  BY <1>4 DEF IsDir
<1> HIDE DEF new
<1>6. /\ IsDir(outTree') /\ DOMAIN outTree' = made \cup DOMAIN outTree
      /\ \A p \in made : outTree'[p] = Made(p)
  BY ZenonT(40), <1>1, <1>2, <1>5, OntoFacts DEF OutputTypeOK, new
<1>7. OutputTypeOK'
  BY <1>1, <1>2, <1>3, <1>6 DEF OutputTypeOK, Steps, AfterMake
<1>8. TreesInv'
  BY <1>1, <1>2, <1>3, <1>4, <1>6 DEF TreesInv, Releases
<1>9. buildAt' \in AfterMake => MadeInv'
  <2>1. buildAt' \in AfterMake => made = buildIn.makes
    BY <1>2 DEF AfterMake, AfterInstall, AfterOutputs, AfterArchive, AfterModules, AfterUnstripped
  <2> QED BY <1>3, <1>6, <2>1 DEF MadeInv, Made
<1> QED BY <1>2, <1>7, <1>8, <1>9 DEF OutputInv, AfterInstall, AfterOutputs, AfterArchive,
           AfterModules, AfterUnstripped

\* modules_install replaces what is staged of its release.
LEMMA InstallModulesKeeps == OutputInv /\ InstallModules => OutputInv'
<1> SUFFICES ASSUME OutputInv, InstallModules PROVE OutputInv'
    OBVIOUS
<1> DEFINE r == buildIn.release
           new == [p \in Installed |-> Made(Tail(p))]
           others == {q \in DOMAIN staging : q[1] # r}
           kept == [p \in others |-> staging[p]]
<1>1. OutputTypeOK /\ TreesInv /\ MadeInv
  BY DEF OutputInv, InstallModules, AfterMake
<1>2. /\ buildAt = "install" /\ buildAt' = "outputs"
      /\ staging' = IF Installs THEN Onto(new, kept) ELSE staging
      /\ UNCHANGED <<buildIn, buildNo, outTree, ruleDir, unstripped, archive, left>>
  BY DEF InstallModules, Goes
<1>3. ASSUME NEW p \in Installed
      PROVE  /\ p \in Paths /\ HasSlash(p) /\ p[1] = r
             /\ Tail(p) \in buildIn.makes /\ Last(Tail(p)) \in ModuleName
             /\ Made(Tail(p)) \in Contents
  <2>1. PICK q \in buildIn.makes : Last(q) \in ModuleName /\ p = <<r>> \o q
    BY DEF Installed
  <2>2. q \in Paths /\ r \in STRING
    BY <1>1, RequestFacts DEF OutputTypeOK
  <2>3. p \in Paths /\ HasSlash(p) /\ p[1] = r /\ Tail(p) = q
    BY <2>1, <2>2, ReleasePaths
  <2> QED BY <1>1, <2>1, <2>2, <2>3, MadeIsContents DEF OutputTypeOK
<1>4. IsDir(new) /\ DOMAIN new = Installed /\ \A p \in Installed : new[p] = Made(Tail(p))
  BY <1>3 DEF IsDir
<1>5. IsDir(kept) /\ DOMAIN kept = others
  BY <1>1 DEF IsDir, OutputTypeOK
<1> HIDE DEF new, kept, others
<1>6. /\ IsDir(Onto(new, kept)) /\ DOMAIN Onto(new, kept) = Installed \cup others
      /\ \A p \in Installed : Onto(new, kept)[p] = Made(Tail(p))
  <2>1. IsDir(new) /\ IsDir(kept)
    BY <1>4, <1>5
  <2>2. /\ IsDir(Onto(new, kept)) /\ DOMAIN Onto(new, kept) = DOMAIN new \cup DOMAIN kept
        /\ \A p \in DOMAIN new : Onto(new, kept)[p] = new[p]
    BY <2>1, OntoFacts
  <2> QED BY <1>4, <1>5, <2>2
<1> USE DEF others
<1>7. OutputTypeOK'
  BY <1>1, <1>2, <1>6 DEF OutputTypeOK, Steps, AfterMake, AfterInstall
<1>8. TreesInv'
  BY <1>1, <1>2, <1>3, <1>6 DEF TreesInv
<1>9. MadeInv'
  BY <1>1, <1>2 DEF MadeInv, Made
<1>10. ASSUME OwnStaging' PROVE StagedInv'
  <2>1. left \subseteq (IF Installs THEN {r} ELSE {}) /\ Releases(staging) \subseteq left
    BY <1>1, <1>2, <1>10 DEF OwnStaging, Installs, TreesInv
  <2>2. CASE Installs
    <3>1. others = {}
      BY <2>1, <2>2 DEF Releases
    <3> QED BY <1>2, <1>3, <1>6, <2>2, <3>1 DEF StagedInv, Made
  <2>3. CASE ~Installs
    <3>1. DOMAIN staging = {}
      BY <2>1, <2>3 DEF Releases
    <3> QED BY <1>2, <2>3, <3>1 DEF StagedInv
  <2> QED BY <2>2, <2>3
<1> QED BY <1>2, <1>7, <1>8, <1>9, <1>10 DEF OutputInv, AfterInstall, AfterOutputs, AfterArchive,
           AfterModules, AfterUnstripped

\* The search of outputs prefers what make left.
LEMMA GrabOutputsKeeps == OutputInv /\ GrabOutputs => OutputInv'
<1> SUFFICES ASSUME OutputInv, GrabOutputs PROVE OutputInv'
    OBVIOUS
<1> DEFINE homes == <<outTree, buildIn.mixed>>
           outs == buildIn.outs
           r == SearchAndCp(homes, outs, ruleDir)
<1>1. OutputTypeOK /\ TreesInv /\ MadeInv /\ (OwnStaging => StagedInv)
  BY DEF OutputInv, GrabOutputs, AfterMake, AfterInstall
<1>2. /\ buildAt = "outputs" /\ ruleDir' = r.files /\ buildAt' = (IF r.ok THEN "archive" ELSE "failed")
      /\ UNCHANGED <<buildIn, buildNo, outTree, staging, unstripped, archive, left>>
  BY DEF GrabOutputs, Goes
<1>3. outs \in Seq(Paths) /\ IsDir(outTree) /\ IsDir(buildIn.mixed) /\ IsDir(ruleDir)
      /\ \A p \in buildIn.makes : p \in Paths
  BY <1>1, RequestFacts DEF OutputTypeOK
<1>4. \A out \in Paths : FirstMatches(homes, out) \subseteq Contents
  BY <1>3, FirstOfTwo, MatchesFacts
<1>5. \A out \in buildIn.makes : FirstMatches(homes, out) = {Made(out)}
  BY <1>1, <1>3, FirstOfTwo, MatchesFacts DEF MadeInv
<1> HIDE DEF homes
<1>6. Copied(homes, outs, ruleDir, r)
  BY <1>3, <1>4, SearchCopies
<1> HIDE DEF r
<1>7. IsDir(r.files) /\ r.ok \in BOOLEAN
  BY <1>6 DEF Copied
<1>8. OutputTypeOK'
  BY <1>1, <1>2, <1>7 DEF OutputTypeOK, Steps, AfterMake, AfterInstall, AfterOutputs
<1>9. TreesInv' /\ MadeInv' /\ (OwnStaging' => StagedInv')
  BY <1>1, <1>2, <1>7 DEF TreesInv, MadeInv, StagedInv, OwnStaging, Installs, Made
<1>10. ASSUME r.ok PROVE DeliveredInv'
  <2>1. ASSUME NEW out \in ToSet(outs) \cap buildIn.makes
        PROVE  out \in DOMAIN r.files /\ r.files[out] = Made(out)
    <3>1. PICK i \in 1 .. Len(outs) : out = outs[i]
      BY <1>3 DEF ToSet
    <3>2. PICK c \in Contents : FirstMatches(homes, outs[i]) = {c} /\ outs[i] \in DOMAIN r.files /\ r.files[outs[i]] = c
      BY <1>6, <1>10 DEF Copied
    <3> QED BY <1>5, <3>1, <3>2
  <2> QED BY <1>2, <2>1 DEF DeliveredInv, Made
<1> QED BY <1>2, <1>7, <1>8, <1>9, <1>10 DEF OutputInv, AfterMake, AfterInstall, AfterOutputs, AfterArchive,
           AfterModules, AfterUnstripped

\* The archive is the staging directory.
LEMMA ArchiveKeeps == OutputInv /\ ArchiveStaging => OutputInv'
<1> SUFFICES ASSUME OutputInv, ArchiveStaging PROVE OutputInv'
    OBVIOUS
<1>1. OutputTypeOK /\ TreesInv /\ MadeInv /\ DeliveredInv /\ (OwnStaging => StagedInv)
  BY DEF OutputInv, ArchiveStaging, AfterMake, AfterInstall, AfterOutputs
<1>2. /\ buildAt = "archive" /\ buildAt' = "modules" /\ archive' = staging
      /\ UNCHANGED <<buildIn, buildNo, outTree, staging, ruleDir, unstripped, left>>
  BY DEF ArchiveStaging, Goes
<1>3. OutputTypeOK' /\ TreesInv' /\ MadeInv' /\ DeliveredInv'
  BY <1>1, <1>2 DEF OutputTypeOK, TreesInv, MadeInv, DeliveredInv, Made, Steps, AfterMake, AfterInstall,
     AfterOutputs, AfterArchive
<1>4. OwnStaging' => StagedInv' /\ PackedInv'
  <2>1. \A p : Made(p).by = buildNo
    BY DEF Made
  <2> QED BY <1>1, <1>2, <2>1 DEF OwnStaging, StagedInv, PackedInv, Installs, Made
<1> QED BY <1>2, <1>3, <1>4 DEF OutputInv, AfterModules, AfterUnstripped

\* Modules come from the release that is staged, one if the grab succeeds.
LEMMA GrabModulesKeeps == OutputInv /\ GrabModules => OutputInv'
<1> SUFFICES ASSUME OutputInv, GrabModules PROVE OutputInv'
    OBVIOUS
<1> DEFINE mods == buildIn.modules
<1>1. OutputTypeOK /\ TreesInv /\ MadeInv /\ DeliveredInv /\ (OwnStaging => StagedInv /\ PackedInv)
  BY DEF OutputInv, GrabModules, AfterMake, AfterInstall, AfterOutputs, AfterArchive
<1>2. buildAt = "modules" /\ UNCHANGED <<buildIn, buildNo, outTree, staging, unstripped, archive, left>>
  BY DEF GrabModules
<1>3. /\ mods \in Seq(Paths) /\ buildIn.outs \in Seq(Paths)
      /\ \A i \in 1 .. Len(mods) : mods[i] \in Paths /\ Last(mods[i]) \in ModuleName
      /\ \A i \in 1 .. Len(buildIn.outs) : buildIn.outs[i] \in Paths /\ Last(buildIn.outs[i]) \notin ModuleName
  BY <1>1, RequestFacts DEF OutputTypeOK
<1>4. MadeInv' /\ (OwnStaging' <=> OwnStaging) /\ (StagedInv => StagedInv') /\ (PackedInv => PackedInv')
  BY <1>1, <1>2 DEF MadeInv, OwnStaging, Installs, StagedInv, PackedInv, Made
<1>5. ASSUME UNCHANGED ruleDir, buildAt' = "unstripped", mods = <<>> PROVE OutputInv'
  <2>1. OutputTypeOK' /\ TreesInv' /\ DeliveredInv'
    BY <1>1, <1>2, <1>5 DEF OutputTypeOK, TreesInv, DeliveredInv, Made, Steps, AfterMake, AfterInstall,
       AfterOutputs, AfterArchive, AfterModules
  <2>2. GrabbedInv'
    <3>1. Len(mods) = 0
      BY <1>5, EmptySeq
    <3> QED BY <1>2, <3>1 DEF GrabbedInv
  <2> QED BY <1>1, <1>4, <1>5, <2>1, <2>2 DEF OutputInv, AfterUnstripped
<1>6. ASSUME UNCHANGED ruleDir, buildAt' = "failed" PROVE OutputInv'
  <2>1. OutputTypeOK' /\ TreesInv'
    BY <1>1, <1>2, <1>6 DEF OutputTypeOK, TreesInv, Steps
  <2> QED BY <1>6, <2>1 DEF OutputInv, AfterMake, AfterInstall, AfterOutputs, AfterArchive,
          AfterModules, AfterUnstripped
<1>7. ASSUME NEW n, LET r == SearchAndCp(<<Below(staging, n)>>, mods, ruleDir)
                    IN  ruleDir' = r.files /\ buildAt' = (IF r.ok THEN "unstripped" ELSE "failed")
      PROVE OutputInv'
  <2> DEFINE dir == Below(staging, n)
             homes == <<dir>>
             r == SearchAndCp(homes, mods, ruleDir)
  <2>1. ruleDir' = r.files /\ buildAt' = (IF r.ok THEN "unstripped" ELSE "failed")
    BY <1>7
  <2>2. /\ IsDir(dir)
        /\ \A p \in DOMAIN dir : \E q \in DOMAIN staging : p = Tail(q) /\ dir[p] = staging[q]
    BY <1>1, BelowFacts DEF OutputTypeOK, TreesInv
  <2> HIDE DEF dir
  <2>3. \A out : FirstMatches(homes, out) = Matches(dir, out)
    BY FirstOfOne
  <2>4. \A out \in Paths : FirstMatches(homes, out) \subseteq Contents
    BY <2>2, <2>3, MatchesFacts
  <2> HIDE DEF homes
  <2>5. Copied(homes, mods, ruleDir, r)
    BY <1>1, <1>3, <2>4, SearchCopies DEF OutputTypeOK
  <2> HIDE DEF r
  <2>6. IsDir(r.files) /\ r.ok \in BOOLEAN
    BY <2>5 DEF Copied
  <2>7. OutputTypeOK' /\ TreesInv'
    BY <1>1, <1>2, <2>1, <2>6 DEF OutputTypeOK, TreesInv, Steps, AfterMake, AfterInstall, AfterOutputs,
       AfterArchive, AfterModules
  <2>8. DeliveredInv'
    <3>1. ASSUME NEW out \in ToSet(buildIn.outs) \cap buildIn.makes
          PROVE  out \in DOMAIN r.files /\ r.files[out] = Made(out)
      <4>1. out \in Paths /\ Last(out) \notin ModuleName
        BY <1>3 DEF ToSet
      <4>2. \A i \in 1 .. Len(mods) : out \notin Destinations(mods[i])
        BY <1>3, <4>1, BaseNames DEF Destinations
      <4>3. out \in DOMAIN ruleDir /\ ruleDir[out] = Made(out)
        BY <1>1, <3>1 DEF DeliveredInv
      <4> QED BY <2>5, <4>2, <4>3 DEF Copied
    <3> QED BY <1>2, <2>1, <3>1 DEF DeliveredInv, Made
  <2>9. ASSUME r.ok, OwnStaging PROVE GrabbedInv'
    <3>1. ASSUME NEW i \in 1 .. Len(mods)
          PROVE  \E q \in buildIn.makes : Last(q) = Last(mods[i]) /\ r.files[mods[i]] = Made(q)
      <4>1. PICK c \in Contents : FirstMatches(homes, mods[i]) = {c} /\ r.files[mods[i]] = c
        BY <2>5, <2>9 DEF Copied
      <4>2. PICK p \in DOMAIN dir : dir[p] = c /\ Last(p) = Last(mods[i])
        <5>1. IsDir(dir) /\ mods[i] \in Paths /\ c \in Matches(dir, mods[i])
          BY <1>3, <2>2, <2>3, <4>1
        <5>2. \A d \in Matches(dir, mods[i]) : \E p \in DOMAIN dir : dir[p] = d /\ Last(p) = Last(mods[i])
          BY <5>1, MatchesFacts
        <5> QED BY <5>1, <5>2
      <4>3. PICK q \in DOMAIN staging : p = Tail(q) /\ dir[p] = staging[q]
        BY <2>2
      <4>4. Tail(q) \in buildIn.makes /\ staging[q] = Made(Tail(q))
        BY <1>1, <2>9 DEF StagedInv
      <4> QED BY <4>1, <4>2, <4>3, <4>4
    <3> QED BY <1>2, <2>1, <3>1 DEF GrabbedInv, Made
  <2> QED BY <1>1, <1>4, <2>1, <2>6, <2>7, <2>8, <2>9 DEF OutputInv, AfterMake, AfterInstall,
          AfterOutputs, AfterArchive, AfterModules, AfterUnstripped
<1> QED BY <1>5, <1>6, <1>7 DEF GrabModules, Goes

\* Unstripped modules come from $OUT_DIR.
LEMMA GrabUnstrippedKeeps == OutputInv /\ GrabUnstripped => OutputInv'
<1> SUFFICES ASSUME OutputInv, GrabUnstripped PROVE OutputInv'
    OBVIOUS
<1> DEFINE mods == buildIn.modules
           names == [i \in DOMAIN mods |-> BaseName(mods[i])]
           homes == <<outTree>>
           r == SearchAndCp(homes, names, NoFiles)
<1>1. OutputTypeOK /\ TreesInv /\ MadeInv /\ DeliveredInv
      /\ (OwnStaging => StagedInv /\ PackedInv /\ GrabbedInv)
  BY DEF OutputInv, GrabUnstripped, AfterMake, AfterInstall, AfterOutputs, AfterArchive, AfterModules
<1>2. /\ buildAt = "unstripped" /\ unstripped' = r.files
      /\ buildAt' = (IF r.ok THEN "check" ELSE "failed")
      /\ UNCHANGED <<buildIn, buildNo, outTree, staging, ruleDir, archive, left>>
  BY DEF GrabUnstripped, Goes
<1>3. /\ mods \in Seq(Paths) /\ IsDir(outTree)
      /\ \A i \in 1 .. Len(mods) : mods[i] \in Paths /\ Last(mods[i]) \in ModuleName
      /\ \A p \in buildIn.makes : p \in Paths /\ (Last(p) \in ModuleName => HasSlash(p))
  BY <1>1, RequestFacts DEF OutputTypeOK
<1>4. names \in Seq(Paths) /\ Len(names) = Len(mods) /\ \A i \in 1 .. Len(mods) : names[i] = BaseName(mods[i])
  <2>1. \A i \in 1 .. Len(mods) : BaseName(mods[i]) \in Paths
    BY <1>3, BaseNames
  <2>2. DOMAIN mods = 1 .. Len(mods) /\ Len(mods) \in Nat
    BY <1>3, LenProperties
  <2>3. names \in [1 .. Len(mods) -> Paths]
    BY <2>1, <2>2
  <2>4. names \in Seq(Paths)
    BY <2>2, <2>3, SeqDef
  <2> QED BY <2>2, <2>3, <2>4
<1> HIDE DEF names
<1>5. \A out : FirstMatches(homes, out) = Matches(outTree, out)
  BY FirstOfOne
<1>6. \A out \in Paths : FirstMatches(homes, out) \subseteq Contents
  BY <1>3, <1>5, MatchesFacts
<1> HIDE DEF homes
<1>7. Copied(homes, names, NoFiles, r)
  BY <1>4, <1>6, NoFilesIsDir, SearchCopies
<1> HIDE DEF r
<1>8. IsDir(r.files) /\ r.ok \in BOOLEAN
  BY <1>7 DEF Copied
<1>9. OutputTypeOK' /\ TreesInv' /\ MadeInv' /\ DeliveredInv'
  BY <1>1, <1>2, <1>8 DEF OutputTypeOK, TreesInv, MadeInv, DeliveredInv, Made, Steps, AfterMake,
     AfterInstall, AfterOutputs, AfterArchive, AfterModules, AfterUnstripped
<1>10. OwnStaging' => OwnStaging /\ StagedInv' /\ PackedInv' /\ GrabbedInv'
  BY <1>1, <1>2 DEF OwnStaging, Installs, StagedInv, PackedInv, GrabbedInv, Made
<1>11. ASSUME OwnStaging, r.ok PROVE UnstrippedInv'
  <2>1. ASSUME NEW i \in 1 .. Len(mods) PROVE r.files[BaseName(mods[i])] = ruleDir[mods[i]]
    <3> DEFINE b == BaseName(mods[i])
    <3>1. b \in Paths /\ ~HasSlash(b) /\ Last(b) = Last(mods[i]) /\ Last(mods[i]) \in ModuleName
      BY <1>3, BaseNames
    <3>2. b \notin DOMAIN outTree
      BY <1>1, <3>1 DEF TreesInv
    <3>3. PICK q \in buildIn.makes : Last(q) = Last(mods[i]) /\ ruleDir[mods[i]] = Made(q)
      BY <1>1, <1>11 DEF GrabbedInv
    <3>4. q \in DOMAIN outTree /\ outTree[q] = Made(q)
      BY <1>1 DEF MadeInv
    <3>5. BaseName(q) = b
      BY <3>3 DEF BaseName
    <3>6. Made(q) \in Matches(outTree, b)
      <4> HIDE DEF b
      <4> QED BY <1>3, <3>1, <3>2, <3>4, <3>5, MatchesFacts
    <3>7. PICK c \in Contents : FirstMatches(homes, names[i]) = {c} /\ r.files[names[i]] = c
      BY <1>4, <1>7, <1>11 DEF Copied
    <3>8. names[i] = b
      BY <1>4
    <3> QED BY <1>5, <3>3, <3>6, <3>7, <3>8
  <2> QED BY <1>2, <2>1 DEF UnstrippedInv
<1> QED BY <1>2, <1>8, <1>9, <1>10, <1>11 DEF OutputInv, AfterMake, AfterInstall, AfterOutputs,
           AfterArchive, AfterModules, AfterUnstripped

\* The steps that only move on, and those that end a build.
LEMMA OtherStepsKeep ==
    OutputInv /\ (CheckRemainingModules \/ CleanUp \/ KillBuild \/ UNCHANGED outputVars) => OutputInv'
<1> USE DEF OutputTypeOK, TreesInv, MadeInv, DeliveredInv, StagedInv, PackedInv, GrabbedInv, UnstrippedInv,
            OwnStaging, Installs, Made, Steps, AfterMake, AfterInstall, AfterOutputs, AfterArchive,
            AfterModules, AfterUnstripped
<1>1. OutputInv /\ CheckRemainingModules => OutputInv'
  <2> SUFFICES ASSUME OutputInv, CheckRemainingModules PROVE OutputInv'
      OBVIOUS
  <2>1. /\ buildAt = "check" /\ buildAt' \in {"cleanup", "failed"}
        /\ UNCHANGED <<buildIn, buildNo, outTree, staging, ruleDir, unstripped, archive, left>>
    BY DEF CheckRemainingModules, Goes
  <2> QED BY <2>1 DEF OutputInv
<1>2. OutputInv /\ CleanUp => OutputInv'
  BY NoFilesIsDir DEF OutputInv, CleanUp
<1>3. OutputInv /\ KillBuild => OutputInv'
  BY DEF OutputInv, KillBuild
<1>4. OutputInv /\ UNCHANGED outputVars => OutputInv'
  BY DEF OutputInv, outputVars
<1> QED BY <1>1, <1>2, <1>3, <1>4

\* The invariant of all builds.
LEMMA OutputInvAlways == OutputSpec => []OutputInv
<1>1. OutputInv /\ [OutputNext]_outputVars => OutputInv'
  BY NextBuildKeeps, MakeKeeps, InstallModulesKeeps, GrabOutputsKeeps, ArchiveKeeps, GrabModulesKeeps,
     GrabUnstrippedKeeps, OtherStepsKeep DEF OutputNext
<1> QED BY <1>1, OutputInvInit, PTL DEF OutputSpec

\* A build that succeeds delivers its own file for every output that its make made under
\* the path the output is declared with, whatever earlier builds left in $OUT_DIR and
\* whatever a base kernel has (search_and_cp_output.py, the main action).
THEOREM OwnOutputsAreDelivered == OutputSpec => []OwnOutputWins
<1>1. OutputInv => OwnOutputWins
  BY DEF OutputInv, OwnOutputWins, DeliveredInv, AfterOutputs, AfterArchive, AfterModules, AfterUnstripped
<1> QED BY <1>1, OutputInvAlways, PTL

\* Unless another release was left staged, a build that succeeds packs and delivers its
\* own modules, and the unstripped ones beside them are theirs.
THEOREM OwnModulesAreDelivered == OutputSpec => []ModulesOfThisBuild
<1>1. OutputInv => ModulesOfThisBuild
  <2> SUFFICES ASSUME OutputInv, buildAt = "done", OwnStaging
               PROVE  /\ \A p \in DOMAIN archive : archive[p].by = buildNo
                      /\ \A m \in ToSet(buildIn.modules) :
                            ruleDir[m].by = buildNo /\ unstripped[BaseName(m)] = ruleDir[m]
    BY DEF ModulesOfThisBuild, OwnStaging
  <2>1. PackedInv /\ GrabbedInv /\ UnstrippedInv /\ OutputTypeOK
    BY DEF OutputInv, AfterArchive, AfterModules, AfterUnstripped
  <2>2. DOMAIN buildIn.modules = 1 .. Len(buildIn.modules)
    BY <2>1, RequestFacts, LenProperties DEF OutputTypeOK
  <2>3. \A p : Made(p).by = buildNo
    BY DEF Made
  <2>4. ASSUME NEW m \in ToSet(buildIn.modules)
        PROVE  ruleDir[m].by = buildNo /\ unstripped[BaseName(m)] = ruleDir[m]
    <3>1. PICK i \in 1 .. Len(buildIn.modules) : m = buildIn.modules[i]
      BY <2>2 DEF ToSet
    <3> QED BY <2>1, <2>3, <3>1 DEF GrabbedInv, UnstrippedInv
  <2> QED BY <2>1, <2>4 DEF PackedInv
<1> QED BY <1>1, OutputInvAlways, PTL
=============================================================================
