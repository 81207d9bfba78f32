------------------------------ MODULE TextProofs ------------------------------
(***************************************************************************)
(* Proofs about CommandText, for every directory tree, every set of lines  *)
(* and arguments and any number of lines sent ahead.                       *)
(*                                                                         *)
(*   WholeLines   a server that receives whole lines does not die of them  *)
(*   InDirectory  a session stays in a directory under its root            *)
(***************************************************************************)
EXTENDS CommandText, SequenceTheorems, WellFoundedInduction, TLAPS

(***************************************************************************)
(* Helpers.                                                                *)
(***************************************************************************)

(* A set of natural numbers with a member has a least one, and Min is it. *)
LEMMA MinIsLeast ==
  ASSUME NEW S \in SUBSET Nat, S # {}
  PROVE  Min(S) \in S /\ \A y \in S : Min(S) <= y
<1> DEFINE R == {p \in Nat \X Nat : p[1] < p[2]}
<1>1. R = OpToRel(<, Nat)
  BY Zenon DEF OpToRel
<1>2. IsWellFoundedOn(R, Nat)
  BY <1>1, NatLessThanWellFounded, Zenon
<1> HIDE DEF R
<1>3. PICK x \in S : \A y \in S : ~(<<y, x>> \in R)
  BY <1>2, WFMin, Zenon
<1>4. ASSUME NEW y \in S
      PROVE  x <= y
  <2>1. x \in Nat /\ y \in Nat
    OBVIOUS
  <2>2. y < x => <<y, x>> \in R
    BY <2>1 DEF R
  <2>3. QED
    BY <1>3, <2>1, <2>2
<1>5. QED
  BY <1>4, Zenon DEF Min

(***************************************************************************)
(* Whole lines.  A text is whole when it consists of lines with their ends *)
(* and every line has a word in it.                                        *)
(***************************************************************************)

IsWhole(text) ==
  /\ text \in Seq(Word)
  /\ \A i \in 1 .. Len(text) :
       /\ text[i] = "LF" => i > 2 /\ text[i - 1] = "CR" /\ text[i - 2] \notin {"CR", "LF"}
       /\ text[i] = "CR" => i < Len(text) /\ text[i + 1] = "LF"
       /\ i = Len(text) => text[i] = "LF"

LEMMA JoinedIsWhole ==
  ASSUME NEW s, NEW t, IsWhole(s), IsWhole(t)
  PROVE  IsWhole(s \o t)
BY DEF IsWhole

LEMMA LineIsWhole ==
  ASSUME NEW line \in Lines
  PROVE  IsWhole(line \o EndOfLine)
<1> DEFINE text == line \o EndOfLine
           n    == Len(line)
<1>1. /\ line \in Seq(Word) /\ n \in Nat /\ n > 0
      /\ \A i \in 1 .. n : line[i] \notin {"CR", "LF"}
  <2>1. line \in Seq(STRING) /\ n \in Nat /\ n > 0
    BY TextAssumption
  <2>2. \A i \in 1 .. n : line[i] \in Word /\ line[i] \notin {"CR", "LF"}
    BY TextAssumption, <2>1 DEF Word, ToSet
  <2>3. line \in Seq(Word)
    BY <2>1, <2>2
  <2>4. QED
    BY <2>1, <2>2, <2>3
<1>2. /\ text \in Seq(Word) /\ Len(text) = n + 2
      /\ \A i \in 1 .. n : text[i] = line[i]
      /\ text[n + 1] = "CR" /\ text[n + 2] = "LF"
  <2>1. /\ EndOfLine \in Seq(Word) /\ Len(EndOfLine) = 2
        /\ EndOfLine[1] = "CR" /\ EndOfLine[2] = "LF"
    BY DEF EndOfLine, Word
  <2>2. /\ text \in Seq(Word) /\ Len(text) = n + 2
        /\ \A i \in 1 .. Len(text) :
             text[i] = IF i <= n THEN line[i] ELSE EndOfLine[i - n]
    <3>1. /\ text \in Seq(Word) /\ Len(text) = n + Len(EndOfLine)
          /\ \A i \in 1 .. n + Len(EndOfLine) :
               text[i] = IF i <= n THEN line[i] ELSE EndOfLine[i - n]
      BY <1>1, <2>1, ConcatProperties, Zenon
    <3> HIDE DEF text, n
    <3>2. QED
      BY <2>1, <3>1
  <2> HIDE DEF text, n
  <2>3. QED
    BY <1>1, <2>1, <2>2
<1> HIDE DEF text, n
<1>3. \A i \in 1 .. Len(text) : i \in 1 .. n \/ i = n + 1 \/ i = n + 2
  BY <1>1, <1>2
<1>4. IsWhole(text)
  BY <1>1, <1>2, <1>3 DEF IsWhole
<1>5. QED
  BY <1>4 DEF text

LEMMA CutIsWhole ==
  ASSUME NEW t, IsWhole(t), NEW n \in 1 .. Len(t), t[n] = "LF"
  PROVE  IsWhole(SubSeq(t, 1, n)) /\ IsWhole(SubSeq(t, n + 1, Len(t)))
BY DEF IsWhole

(* The first command of a whole text is complete.                          *)
LEMMA FirstIsComplete ==
  ASSUME NEW t, IsWhole(t), t # <<>>
  PROVE  DealLen(t) \in 1 .. Len(t) - 2
<1> DEFINE S == {Len(t)} \cup
      {i \in 1 .. Len(t) - 1 : t[i] \notin {"CR", "LF"} /\ t[i + 1] \in {"CR", "LF"}}
<1>1. Len(t) \in Nat /\ Len(t) > 2
  <2>1. Len(t) \in Nat /\ Len(t) > 0
    BY DEF IsWhole
  <2>2. QED
    BY <2>1 DEF IsWhole
<1>2. Len(t) - 2 \in S /\ S \in SUBSET (1 .. Len(t))
  BY <1>1 DEF IsWhole
<1>3. DealLen(t) = Min(S)
  BY DEF DealLen
<1> HIDE DEF S
<1>4. Min(S) \in S /\ \A y \in S : Min(S) <= y
  <2>1. S \in SUBSET Nat /\ S # {}
    BY <1>1, <1>2
  <2>2. QED
    BY <2>1, MinIsLeast
<1>5. DealLen(t) <= Len(t) - 2 /\ DealLen(t) \in 1 .. Len(t)
  BY <1>2, <1>3, <1>4
<1>6. QED
  BY <1>1, <1>5

(* What stands behind the first line of a whole text is whole.             *)
LEMMA LeftIsWhole ==
  ASSUME NEW t, IsWhole(t), t # <<>>
  PROVE  IsWhole(Left(t))
<1> DEFINE S == {i \in 1 .. Len(t) - 1 : t[i] = "CR" /\ t[i + 1] = "LF"}
<1>1. Len(t) - 1 \in S /\ S \in SUBSET Nat
  BY DEF IsWhole
<1>2. Min(S) \in S
  BY <1>1, MinIsLeast
<1>3. PICK n \in 1 .. Len(t) : t[n] = "LF" /\ n = Min(S) + 1
  <2>1. \A i \in S : i \in Nat /\ i + 1 \in 1 .. Len(t) /\ t[i + 1] = "LF"
    BY DEF IsWhole
  <2> HIDE DEF S
  <2>2. QED
    BY <1>2, <2>1
<1>4. Behind(t) = SubSeq(t, n + 1, Len(t))
  <2>1. Behind(t) = SubSeq(t, Min(S) + 2, Len(t))
    BY DEF Behind
  <2>2. Min(S) + 2 = n + 1
    BY <1>2, <1>3
  <2>3. QED
    BY <2>1, <2>2
<1>5. IsWhole(<<>>)
  BY DEF IsWhole
<1>6. QED
  BY <1>3, <1>4, <1>5, CutIsWhole DEF Left

(* While the network keeps what was sent together together, every text is  *)
(* whole wherever it waits.                                                *)
TextIsWhole ==
  whole => /\ IsWhole(net) /\ IsWhole(recv_command)
           /\ reads \in Seq(Seq(Word))
           /\ \A i \in 1 .. Len(reads) : IsWhole(reads[i]) /\ reads[i] # <<>>
           /\ fault = "none"

LEMMA WholeInit == TextInit => TextIsWhole
BY DEF TextInit, TextIsWhole, IsWhole

LEMMA WholeSend == TextIsWhole /\ SendLine => TextIsWhole'
<1> SUFFICES ASSUME TextIsWhole, SendLine, whole
             PROVE  TextIsWhole'
  BY DEF TextIsWhole, SendLine
<1>1. PICK line \in Lines : net' = net \o line \o EndOfLine
  BY DEF SendLine
<1>2. net' = net \o (line \o EndOfLine)
  BY <1>1, TextAssumption DEF TextIsWhole, IsWhole, EndOfLine
<1>3. IsWhole(net')
  BY <1>2, LineIsWhole, JoinedIsWhole DEF TextIsWhole
<1>4. QED
  BY <1>3 DEF TextIsWhole, SendLine

LEMMA WholeRead == TextIsWhole /\ OnRead => TextIsWhole'
<1> SUFFICES ASSUME TextIsWhole, OnRead, whole
             PROVE  TextIsWhole'
  BY DEF TextIsWhole, OnRead
<1>1. PICK n \in 1 .. Len(net) :
        /\ net[n] = "LF"
        /\ reads' = Append(reads, SubSeq(net, 1, n))
        /\ net' = SubSeq(net, n + 1, Len(net))
  BY DEF OnRead
<1>2. IsWhole(SubSeq(net, 1, n)) /\ IsWhole(net')
  BY <1>1, CutIsWhole DEF TextIsWhole
<1>3. SubSeq(net, 1, n) \in Seq(Word) /\ SubSeq(net, 1, n) # <<>>
  <2>1. net \in Seq(Word)
    BY DEF TextIsWhole, IsWhole
  <2>2. Len(SubSeq(net, 1, n)) = n
    BY <2>1
  <2>3. QED
    BY <1>2, <2>2 DEF IsWhole
<1>4. /\ reads' \in Seq(Seq(Word))
      /\ \A i \in 1 .. Len(reads') : IsWhole(reads'[i]) /\ reads'[i] # <<>>
  <2> DEFINE piece == SubSeq(net, 1, n)
  <2> HIDE DEF piece
  <2>1. IsWhole(piece) /\ piece \in Seq(Word) /\ piece # <<>> /\ reads' = Append(reads, piece)
    BY <1>1, <1>2, <1>3 DEF piece
  <2>2. reads \in Seq(Seq(Word))
    BY DEF TextIsWhole
  <2>3. /\ reads' \in Seq(Seq(Word)) /\ Len(reads') = Len(reads) + 1
        /\ \A i \in 1 .. Len(reads) : reads'[i] = reads[i]
        /\ reads'[Len(reads) + 1] = piece
    BY <2>1, <2>2
  <2>4. \A i \in 1 .. Len(reads') : i \in 1 .. Len(reads) \/ i = Len(reads) + 1
    BY <2>2, <2>3
  <2>5. QED
    BY <2>1, <2>3, <2>4 DEF TextIsWhole
<1>5. QED
  BY <1>2, <1>4 DEF TextIsWhole, OnRead

LEMMA WholeExecuted == TextIsWhole /\ SessionRead => TextIsWhole'
<1> SUFFICES ASSUME TextIsWhole, SessionRead, whole
             PROVE  TextIsWhole'
  BY DEF TextIsWhole, SessionRead
<1> DEFINE text == recv_command \o Head(reads)
<1>1. Head(reads) = reads[1] /\ 1 \in 1 .. Len(reads)
  BY DEF TextIsWhole, SessionRead, TakeRead
<1>2. IsWhole(text) /\ text # <<>>
  <2>1. IsWhole(Head(reads)) /\ Head(reads) # <<>>
    BY <1>1 DEF TextIsWhole
  <2>2. IsWhole(text)
    BY <2>1, JoinedIsWhole DEF TextIsWhole
  <2>3. text # <<>>
    BY <2>1 DEF TextIsWhole, IsWhole
  <2>4. QED
    BY <2>2, <2>3
<1>3. DealLen(text) \in 1 .. Len(text) - 2
  BY <1>2, FirstIsComplete
<1>4. DealLen(text) # Len(text) /\ Complete(text)
  BY <1>2, <1>3 DEF Complete, IsWhole
<1>5. recv_command' = Left(text) /\ fault' = fault
  BY <1>4 DEF SessionRead
<1>6. IsWhole(recv_command')
  BY <1>2, <1>5, LeftIsWhole
<1>7. /\ reads' \in Seq(Seq(Word))
      /\ \A i \in 1 .. Len(reads') : IsWhole(reads'[i]) /\ reads'[i] # <<>>
  BY DEF TextIsWhole, SessionRead, TakeRead
<1>8. QED
  BY <1>5, <1>6, <1>7 DEF TextIsWhole, SessionRead

(* A server that receives whole lines is not killed by them: run_fsm_command *)
(* always finds the end of a line behind a word, also when a read brings     *)
(* several lines and all but the first wait in recv_command.                 *)
THEOREM WholeLines == TextSpec => []WholeLinesNeverCrash
<1>1. TextInit => TextIsWhole
  BY WholeInit
<1>2. TextIsWhole /\ [TextNext]_textVars => TextIsWhole'
  <2>1. CASE SendLine
    BY <2>1, WholeSend
  <2>2. CASE OnRead
    BY <2>2, WholeRead
  <2>3. CASE SessionRead
    BY <2>3, WholeExecuted
  <2>4. CASE UNCHANGED textVars
    BY <2>4 DEF textVars, TextIsWhole
  <2>5. QED
    BY <2>1, <2>2, <2>3, <2>4 DEF TextNext
<1>3. TextIsWhole => WholeLinesNeverCrash
  BY DEF TextIsWhole, WholeLinesNeverCrash
<1>4. QED
  BY <1>1, <1>2, <1>3, PTL DEF TextSpec

(***************************************************************************)
(* The working directory.                                                  *)
(***************************************************************************)

(* A path whose ends are both e: cutting e off and adding it again.        *)
LEMMA EndsAreEqual ==
  ASSUME NEW S, NEW s \in Seq(S), Len(s) > 1, NEW e, s[1] = e, s[Len(s)] = e
  PROVE  /\ Append(Front(s), e) = s
         /\ Len(s) = 2 => s = <<e, e>>
<1> DEFINE t == Append(Front(s), e)
<1>1. /\ Len(s) \in Nat /\ e \in S
  OBVIOUS
<1>2. /\ Front(s) \in Seq(S) /\ Len(Front(s)) = Len(s) - 1
      /\ \A i \in 1 .. Len(s) - 1 : Front(s)[i] = s[i]
  BY <1>1 DEF Front
<1>3. t \in Seq(S) /\ Len(t) = Len(s) /\ \A i \in 1 .. Len(s) : t[i] = s[i]
  BY <1>1, <1>2
<1>4. t = s
  BY <1>3, SeqEqual
<1>5. /\ <<e, e>> \in Seq(S) /\ Len(<<e, e>>) = 2
      /\ <<e, e>>[1] = e /\ <<e, e>>[2] = e
  BY <1>1
<1>6. ASSUME Len(s) = 2
      PROVE  s = <<e, e>>
  <2>1. \A i \in 1 .. Len(s) : s[i] = <<e, e>>[i]
    BY <1>5, <1>6
  <2>2. QED
    BY <1>5, <1>6, <2>1, SeqEqual
<1>7. QED
  BY <1>4, <1>6

LEMMA DirIsSequence ==
  /\ root_path \in Dirs
  /\ \A dir \in Dirs : dir \in Seq(STRING) /\ Len(dir) > 1
BY RootAssumption, Zenon

(* What com_CWD lets a session enter is a directory under its root.        *)
LEMMA EnteredIsDirectory ==
  ASSUME NEW path, NEW a_path, path \in Dirs, Below(path)
  PROVE  Enter(path, a_path).cur_path \in Dirs /\ Below(Enter(path, a_path).cur_path)
<1>1. CASE a_path # NULL /\ Exists(a_path) /\ UnderRoot(a_path) /\ IsDir(a_path)
  <2>1. PICK dir \in Dirs : a_path = dir \/ (a_path = Front(dir) /\ dir # <<"", "">>)
    BY <1>1 DEF IsDir
  <2>2. dir \in Seq(STRING) /\ Len(dir) > 1
    BY DirIsSequence
  <2> DEFINE n == Len(dir)
  <2> HIDE DEF n
  <2>3. n \in Nat /\ n > 1 /\ n = Len(dir)
    BY <2>2 DEF n
  <2>4. PICK empty : empty = ""
    BY Zenon
  <2>5. \A i \in 1 .. n : dir[i] = empty <=> i \in {1, n}
    BY <2>4, RootAssumption, Zenon DEF n
  <2>6. dir[1] = empty /\ dir[n] = empty /\ empty \in STRING
    BY <2>2, <2>3, <2>5
  <2>7. /\ Front(dir) \in Seq(STRING) /\ Len(Front(dir)) = n - 1
        /\ \A i \in 1 .. n - 1 : Front(dir)[i] = dir[i]
    BY <2>2, <2>3 DEF Front
  <2>8. Slashed(a_path) = dir
    <3>1. Slashed(a_path) = IF Last(a_path) = empty THEN a_path ELSE Append(a_path, empty)
      BY <2>4, Zenon DEF Slashed
    <3>2. CASE a_path = dir
      BY <2>3, <2>6, <3>1, <3>2 DEF Last
    <3>3. CASE a_path = Front(dir) /\ dir # <<"", "">>
      <4>1. n = 2 => dir = <<empty, empty>>
        BY <2>2, <2>3, <2>6, EndsAreEqual, Zenon
      <4>2. n # 2
        BY <2>4, <3>3, <4>1, Zenon
      <4>3. Last(a_path) # empty /\ Append(Front(dir), empty) = dir
        <5>1. Front(dir)[n - 1] # empty
          BY <2>3, <2>5, <2>7, <4>2
        <5>2. Append(Front(dir), empty) = dir
          BY <2>2, <2>3, <2>6, EndsAreEqual, Zenon
        <5>3. Last(Front(dir)) = Front(dir)[n - 1]
          BY <2>7 DEF Last
        <5>4. QED
          BY <3>3, <5>1, <5>2, <5>3, Zenon
      <4>4. QED
        BY <3>1, <3>3, <4>3, Zenon
    <3>4. QED
      BY <2>1, <3>2, <3>3, Zenon
  <2>9. UnderRoot(dir)
    <3>1. Len(a_path) \in {n - 1, n} /\ \A i \in 1 .. Len(a_path) : a_path[i] = dir[i]
      <4>1. CASE a_path = dir
        BY <2>3, <4>1
      <4>2. CASE a_path = Front(dir)
        BY <2>3, <2>7, <4>2
      <4>3. QED
        BY <2>1, <4>1, <4>2, Zenon
    <3>2. Len(root_path) \in Nat /\ Len(root_path) > 1
      BY DirIsSequence
    <3>3. PICK i \in 0 .. Len(a_path) - Len(root_path) :
            \A k \in 2 .. Len(root_path) - 1 : a_path[i + k] = root_path[k]
      BY <1>1 DEF UnderRoot
    <3>4. i \in 0 .. n - Len(root_path)
      BY <2>3, <3>1, <3>2
    <3>5. ASSUME NEW k \in 2 .. Len(root_path) - 1
          PROVE  dir[i + k] = root_path[k]
      <4>1. i + k \in 1 .. Len(a_path)
        BY <2>3, <3>1, <3>2
      <4>2. QED
        BY <3>1, <3>3, <4>1
    <3>6. QED
      BY <2>3, <3>4, <3>5, Zenon DEF UnderRoot
  <2>10. Enter(path, a_path).cur_path = dir
    BY <1>1, <2>8, Zenon DEF Enter, Answered
  <2>11. QED
    BY <2>9, <2>10, RootOccursOnce
<1>2. CASE ~(a_path # NULL /\ Exists(a_path) /\ UnderRoot(a_path) /\ IsDir(a_path))
  BY <1>2 DEF Enter, Answered
<1>3. QED
  BY <1>1, <1>2

LEMMA RootIsBelow == root_path \in Dirs /\ Below(root_path)
<1>1. UnderRoot(root_path)
  <2>1. Len(root_path) \in Nat
    BY DirIsSequence
  <2>2. 0 \in 0 .. Len(root_path) - Len(root_path)
    BY <2>1
  <2>3. \A k \in 2 .. Len(root_path) - 1 : root_path[0 + k] = root_path[k]
    BY <2>1
  <2>4. QED
    BY <2>2, <2>3 DEF UnderRoot
<1>2. QED
  BY <1>1, DirIsSequence, RootOccursOnce

LEMMA ExecutedStays ==
  ASSUME NEW line, CurPathIsDirectory, Execute(line)
  PROVE  CurPathIsDirectory'
<1>1. cur_path' = Result(line).cur_path
  BY DEF Execute
<1>2. Result(line).cur_path \in Dirs /\ Below(Result(line).cur_path)
  BY RootIsBelow, EnteredIsDirectory
  DEF CurPathIsDirectory, Result, com_CWD, CwdResult, com_PWD, com_BAD, Answered
<1>3. QED
  BY <1>1, <1>2 DEF CurPathIsDirectory

(* Whatever a client sends and however it is cut, its session is in a        *)
(* directory that exists and lies under its root, with a slash at the end.   *)
THEOREM InDirectory == TextSpec => []CurPathIsDirectory
<1>1. TextInit => CurPathIsDirectory
  BY RootIsBelow DEF TextInit, CurPathIsDirectory
<1>2. CurPathIsDirectory /\ [TextNext]_textVars => CurPathIsDirectory'
  <2> SUFFICES ASSUME CurPathIsDirectory, [TextNext]_textVars
               PROVE  CurPathIsDirectory'
    OBVIOUS
  <2>1. CASE cur_path' = cur_path
    BY <2>1 DEF CurPathIsDirectory
  <2>2. CASE \E line : Execute(line)
    BY <2>2, ExecutedStays
  <2>3. cur_path' = cur_path \/ \E line : Execute(line)
    BY DEF TextNext, SendLine, OnRead, SessionRead, NullCommand, Incomplete, textVars
  <2>4. QED
    BY <2>1, <2>2, <2>3
<1>3. QED
  BY <1>1, <1>2, PTL DEF TextSpec
=============================================================================
