---------------------------- MODULE LogFileProofs ----------------------------
(***************************************************************************)
(* Proofs about the files of AsyncLog, for any roll size and lines of any  *)
(* length: a file is rolled in time, and the open one holds the last lines *)
(* that were printed.                                                      *)
(*                                                                         *)
(* How long a file is comes from a recursive function.  What it computes   *)
(* is shown by induction over sets of numbers (SetInduction), which the    *)
(* well-foundedness of < gives.                                            *)
(***************************************************************************)
EXTENDS AsyncLogProofs, WellFoundedInduction

-----------------------------------------------------------------------------
(* The bytes and the ends of sequences of lines.                           *)

\* Induction over the natural numbers, for a set in the place of a predicate.
LEMMA SetInduction ==
  ASSUME NEW T, T \subseteq Nat, 0 \in T, \A n \in T : n + 1 \in T
  PROVE  T = Nat
<1> DEFINE R == OpToRel(<, Nat)
<1>1. SUFFICES ASSUME Nat \ T # {} PROVE FALSE
  OBVIOUS
<1>2. PICK x \in Nat \ T : \A y \in Nat \ T : <<y, x>> \notin R
  <2>1. IsWellFoundedOn(R, Nat)
    BY NatLessThanWellFounded
  <2> HIDE DEF R
  <2> QED BY <1>1, <2>1, WFMin
<1>3. x - 1 \in Nat /\ x - 1 \notin T
  <2>1. x \in Nat /\ x \notin T /\ x # 0
    OBVIOUS
  <2>2. x - 1 \in Nat /\ (x - 1) + 1 = x
    BY <2>1
  <2> QED BY <2>1, <2>2
<1>4. <<x - 1, x>> \in R
  BY <1>3 DEF OpToRel
<1> QED BY <1>2, <1>3, <1>4

\* f[n] is the length of the first n lines, up to m.
Sums(f, lines, m) == /\ DOMAIN f = 0..m
                     /\ f[0] = 0
                     /\ \A n \in 1..m : f[n] = f[n - 1] + lines[n].len
                     /\ \A n \in 0..m : f[n] \in Nat

LEMMA LineLen == \A line \in Piece : line.len \in Nat
BY DEF Piece

LEMMA LinesArePieces == Line \subseteq Piece /\ Seq(Line) \subseteq Seq(Piece)
<1>1. Line \subseteq Piece
  BY LineIsPiece
<1> QED BY <1>1

\* There is such a function, so that the recursion of Size defines something.
LEMMA SumsExist ==
  ASSUME NEW lines \in Seq(Piece)
  PROVE  \E f : f = [n \in 0..Len(lines) |->
                       IF n = 0 THEN 0 ELSE f[n - 1] + lines[n].len]
<1> DEFINE T == {m \in Nat : m <= Len(lines) => \E f : Sums(f, lines, m)}
<1>1. 0 \in T
  <2>1. Sums([n \in 0..0 |-> 0], lines, 0)
    BY DEF Sums
  <2> QED BY <2>1
<1>2. ASSUME NEW m \in T PROVE m + 1 \in T
  <2>1. SUFFICES ASSUME m + 1 <= Len(lines) PROVE \E f : Sums(f, lines, m + 1)
    BY DEF T
  <2>2. m \in Nat /\ Len(lines) \in Nat /\ lines[m + 1].len \in Nat
    BY <2>1, LineLen
  <2>3. PICK f : Sums(f, lines, m)
    BY <2>1, <2>2
  <2> DEFINE g == [n \in 0..(m + 1) |->
                     IF n = m + 1 THEN f[m] + lines[m + 1].len ELSE f[n]]
  <2>4. /\ f[0] = 0 /\ \A n \in 0..m : f[n] \in Nat
        /\ \A n \in 1..m : f[n] = f[n - 1] + lines[n].len
    BY <2>3 DEF Sums
  <2>5. /\ g[m + 1] = f[m] + lines[m + 1].len /\ \A n \in 0..m : g[n] = f[n]
        /\ DOMAIN g = 0..(m + 1)
    BY <2>2
  <2> HIDE DEF g
  <2>6. \A n \in 0..(m + 1) : g[n] \in Nat
    <3>1. m \in 0..m /\ f[m] \in Nat /\ g[m + 1] \in Nat
      BY <2>2, <2>4, <2>5
    <3>2. \A n \in 0..(m + 1) : n \in 0..m \/ n = m + 1
      BY <2>2
    <3> QED BY <2>4, <2>5, <3>1, <3>2
  <2>7. \A n \in 1..(m + 1) : g[n] = g[n - 1] + lines[n].len
    <3>1. ASSUME NEW n \in 1..m PROVE g[n] = g[n - 1] + lines[n].len
      BY <2>2, <2>4, <2>5
    <3>2. g[m + 1] = g[(m + 1) - 1] + lines[m + 1].len
      <4>1. (m + 1) - 1 = m /\ m \in 0..m
        BY <2>2
      <4> QED BY <2>5, <4>1
    <3>3. \A n \in 1..(m + 1) : n \in 1..m \/ n = m + 1
      BY <2>2
    <3> QED BY <3>1, <3>2, <3>3
  <2>8. Sums(g, lines, m + 1)
    BY <2>2, <2>4, <2>5, <2>6, <2>7 DEF Sums
  <2> QED BY <2>8
<1>3. T = Nat
  <2>1. T \subseteq Nat
    BY DEF T
  <2> HIDE DEF T
  <2> QED BY <1>1, <1>2, <2>1, SetInduction
<1>4. Len(lines) \in T
  BY <1>3, LenProperties
<1>5. PICK f : Sums(f, lines, Len(lines))
  BY <1>4
<1>6. f = [n \in 0..Len(lines) |-> IF n = 0 THEN 0 ELSE f[n - 1] + lines[n].len]
  <2> DEFINE g == [n \in 0..Len(lines) |-> IF n = 0 THEN 0 ELSE f[n - 1] + lines[n].len]
  <2>1. Len(lines) \in Nat
    BY LenProperties
  <2>2. \A n \in 0..Len(lines) : f[n] = g[n]
    BY <1>5, <2>1 DEF Sums
  <2>4. f = [n \in 0..Len(lines) |-> f[n]]
    BY <1>5 DEF Sums
  <2> QED BY <2>2, <2>4
<1> QED BY <1>6

LEMMA SizeSums ==
  ASSUME NEW lines \in Seq(Piece)
  PROVE  \E f : Sums(f, lines, Len(lines)) /\ Size(lines) = f[Len(lines)]
<1> DEFINE Adds(f) == f = [n \in 0..Len(lines) |->
                             IF n = 0 THEN 0 ELSE f[n - 1] + lines[n].len]
           sum == CHOOSE f : Adds(f)
<1>1. Adds(sum)
  BY SumsExist
<1>2. Size(lines) = sum[Len(lines)]
  BY DEF Size
<1> HIDE DEF sum
<1>3. Len(lines) \in Nat
  BY LenProperties
<1>4. /\ DOMAIN sum = 0..Len(lines) /\ sum[0] = 0
      /\ \A n \in 1..Len(lines) : sum[n] = sum[n - 1] + lines[n].len
  BY <1>1, <1>3
<1> DEFINE T == {m \in Nat : m <= Len(lines) => sum[m] \in Nat}
<1>5. T = Nat
  <2>1. 0 \in T
    BY <1>4
  <2>2. ASSUME NEW m \in T PROVE m + 1 \in T
    <3>1. SUFFICES ASSUME m + 1 <= Len(lines) PROVE sum[m + 1] \in Nat
      BY DEF T
    <3>2. m \in Nat /\ lines[m + 1].len \in Nat /\ sum[m] \in Nat
      BY <1>3, <3>1, LineLen
    <3> QED BY <1>3, <1>4, <3>1, <3>2
  <2>3. T \subseteq Nat
    BY DEF T
  <2> HIDE DEF T
  <2> QED BY <2>1, <2>2, <2>3, SetInduction
<1>6. Sums(sum, lines, Len(lines))
  BY <1>3, <1>4, <1>5 DEF Sums
<1> QED BY <1>2, <1>6

\* Two functions that add up the same lines agree.
LEMMA SumsUnique ==
  ASSUME NEW s, NEW t, NEW k \in Nat, NEW l \in Nat, k <= l,
         NEW f, NEW g, Sums(f, s, k), Sums(g, t, l),
         \A n \in 1..k : s[n] = t[n]
  PROVE  f[k] = g[k]
<1> DEFINE T == {m \in Nat : m <= k => f[m] = g[m]}
<1>1. 0 \in T
  BY DEF Sums
<1>2. ASSUME NEW m \in T PROVE m + 1 \in T
  <2>1. SUFFICES ASSUME m + 1 <= k PROVE f[m + 1] = g[m + 1]
    OBVIOUS
  <2>2. m \in Nat /\ f[m] = g[m] /\ m + 1 \in 1..k /\ m + 1 \in 1..l
    BY <2>1
  <2>3. f[m + 1] = f[(m + 1) - 1] + s[m + 1].len
    BY <2>2 DEF Sums
  <2>4. g[m + 1] = g[(m + 1) - 1] + t[m + 1].len
    BY <2>2 DEF Sums
  <2> QED BY <2>2, <2>3, <2>4
<1>3. T \subseteq Nat
  BY DEF T
<1>4. T = Nat
  <2> HIDE DEF T
  <2> QED BY <1>1, <1>2, <1>3, SetInduction
<1> QED BY <1>4

LEMMA SizeEmpty == Size(<<>>) = 0
<1>1. PICK f : Sums(f, <<>>, Len(<<>>)) /\ Size(<<>>) = f[Len(<<>>)]
  <2>1. <<>> \in Seq(Piece)
    OBVIOUS
  <2> QED BY <2>1, SizeSums
<1> QED BY <1>1 DEF Sums

LEMMA SizeAppend ==
  ASSUME NEW lines \in Seq(Piece), NEW line \in Piece
  PROVE  Size(Append(lines, line)) = Size(lines) + line.len
<1> DEFINE more == Append(lines, line)
<1>1. /\ more \in Seq(Piece) /\ Len(lines) \in Nat /\ Len(more) = Len(lines) + 1
      /\ more[Len(more)] = line /\ \A n \in 1..Len(lines) : lines[n] = more[n]
  BY AppendProperties, LenProperties
<1>2. PICK f : Sums(f, lines, Len(lines)) /\ Size(lines) = f[Len(lines)]
  BY SizeSums
<1> HIDE DEF more
<1>3. PICK g : Sums(g, more, Len(more)) /\ Size(more) = g[Len(more)]
  BY <1>1, SizeSums
<1>4. f[Len(lines)] = g[Len(lines)]
  BY <1>1, <1>2, <1>3, SumsUnique
<1>5. g[Len(more)] = g[Len(lines)] + line.len
  BY <1>1, <1>3 DEF Sums
<1> QED BY <1>2, <1>3, <1>4, <1>5 DEF more

LEMMA SizeNat == ASSUME NEW lines \in Seq(Piece) PROVE Size(lines) \in Nat
<1>1. PICK f : Sums(f, lines, Len(lines)) /\ Size(lines) = f[Len(lines)]
  BY SizeSums
<1> QED BY <1>1, LenProperties DEF Sums

\* A line at the end of a file.
LEMMA FrontAppend ==
  ASSUME NEW lines \in Seq(Piece), NEW line \in Piece
  PROVE  Front(Append(lines, line)) = lines /\ Last(Append(lines, line)) = line
<1>1. Append(lines, line) = lines \o <<line>> /\ Len(lines) \in Nat
  BY AppendIsConcat, LenProperties
<1>2. Len(Append(lines, line)) = Len(lines) + 1 /\ Append(lines, line)[Len(lines) + 1] = line
  BY AppendProperties
<1>3. SubSeq(Append(lines, line), 1, Len(lines)) = lines
  OBVIOUS
<1> QED BY <1>1, <1>2, <1>3 DEF Front, Last

\* A suffix, by its elements.
LEMMA SuffixIs ==
  ASSUME NEW s \in Seq(Piece), NEW t \in Seq(Piece)
  PROVE  IsSuffix(s, t) <=> /\ Len(s) <= Len(t)
                            /\ \A i \in 1..Len(s) : s[Len(s) - i + 1] = t[Len(t) - i + 1]
<1>1. Len(s) \in Nat /\ Len(t) \in Nat
  BY LenProperties
<1>2. ASSUME NEW u \in Seq(Piece)
      PROVE  /\ Reverse(u) \in Seq(Piece) /\ Len(Reverse(u)) = Len(u)
             /\ \A i \in 1..Len(u) : Reverse(u)[i] = u[(Len(u) - i) + 1]
  BY LenProperties DEF Reverse
<1>3. ASSUME Len(s) <= Len(t)
      PROVE  /\ SubSeq(Reverse(s), 1, Len(s)) = [i \in 1..Len(s) |-> Reverse(s)[i]]
             /\ SubSeq(Reverse(t), 1, Len(s)) = [i \in 1..Len(s) |-> Reverse(t)[i]]
  BY <1>1, <1>2, <1>3
<1>4. ASSUME Len(s) <= Len(t)
      PROVE  SubSeq(Reverse(s), 1, Len(s)) = SubSeq(Reverse(t), 1, Len(s))
               <=> \A i \in 1..Len(s) : Reverse(s)[i] = Reverse(t)[i]
  BY <1>3, <1>4
<1>5. ASSUME Len(s) <= Len(t), NEW i \in 1..Len(s)
      PROVE  /\ Reverse(s)[i] = s[Len(s) - i + 1]
             /\ Reverse(t)[i] = t[Len(t) - i + 1]
  BY <1>1, <1>2, <1>5
<1>6. IsSuffix(s, t) <=> /\ Len(s) <= Len(t)
                         /\ SubSeq(Reverse(s), 1, Len(s)) = SubSeq(Reverse(t), 1, Len(s))
  BY <1>2 DEF IsSuffix, IsPrefix
<1>7. CASE Len(s) <= Len(t)
  <2>1. SubSeq(Reverse(s), 1, Len(s)) = SubSeq(Reverse(t), 1, Len(s))
          <=> \A i \in 1..Len(s) : s[Len(s) - i + 1] = t[Len(t) - i + 1]
    BY <1>4, <1>5, <1>7
  <2> QED BY <1>6, <1>7, <2>1
<1>8. CASE ~(Len(s) <= Len(t))
  BY <1>6, <1>8
<1> QED BY <1>7, <1>8

LEMMA SuffixAppend ==
  ASSUME NEW s \in Seq(Piece), NEW t \in Seq(Piece), NEW line \in Piece, IsSuffix(s, t)
  PROVE  IsSuffix(Append(s, line), Append(t, line))
<1> DEFINE u == Append(s, line)
           v == Append(t, line)
<1>1. /\ u \in Seq(Piece) /\ Len(u) = Len(s) + 1 /\ u[Len(s) + 1] = line
      /\ v \in Seq(Piece) /\ Len(v) = Len(t) + 1 /\ v[Len(t) + 1] = line
      /\ \A i \in 1..Len(s) : u[i] = s[i]
      /\ \A i \in 1..Len(t) : v[i] = t[i]
      /\ Len(s) \in Nat /\ Len(t) \in Nat
  BY AppendProperties, LenProperties
<1>2. /\ Len(s) <= Len(t)
      /\ \A i \in 1..Len(s) : s[Len(s) - i + 1] = t[Len(t) - i + 1]
  BY SuffixIs
<1> HIDE DEF u, v
<1>3. ASSUME NEW i \in 1..Len(u) PROVE u[Len(u) - i + 1] = v[Len(v) - i + 1]
  <2>1. CASE i = 1
    BY <1>1, <2>1
  <2>2. CASE i # 1
    <3>1. i - 1 \in 1..Len(s) /\ Len(s) - (i - 1) + 1 \in 1..Len(s)
          /\ Len(t) - (i - 1) + 1 \in 1..Len(t)
      BY <1>1, <1>2, <2>2
    <3>2. s[Len(s) - (i - 1) + 1] = t[Len(t) - (i - 1) + 1]
      BY <1>2, <3>1
    <3>3. /\ Len(u) - i + 1 = Len(s) - (i - 1) + 1
          /\ Len(v) - i + 1 = Len(t) - (i - 1) + 1
      BY <1>1
    <3> QED BY <1>1, <3>1, <3>2, <3>3
  <2> QED BY <2>1, <2>2
<1>4. IsSuffix(u, v)
  <2>1. IsSuffix(u, v) <=> /\ Len(u) <= Len(v)
                           /\ \A i \in 1..Len(u) : u[Len(u) - i + 1] = v[Len(v) - i + 1]
    BY <1>1, SuffixIs
  <2>2. Len(u) <= Len(v)
    BY <1>1, <1>2
  <2> QED BY <1>3, <2>1, <2>2
<1> QED BY <1>4 DEF u, v

LEMMA SuffixEmpty == ASSUME NEW t \in Seq(Piece) PROVE IsSuffix(<<>>, t)
<1>1. <<>> \in Seq(Piece) /\ Len(<<>>) = 0 /\ Len(t) \in Nat
  BY LenProperties
<1>2. IsSuffix(<<>>, t) <=>
        /\ Len(<<>>) <= Len(t)
        /\ \A i \in 1..Len(<<>>) : <<>>[Len(<<>>) - i + 1] = t[Len(t) - i + 1]
  BY <1>1, SuffixIs
<1> QED BY <1>1, <1>2

-----------------------------------------------------------------------------
(* The files.  A FATAL call that gets as far as its file, or as the crash,  *)
(* never returns; until one does, only the write thread changes a file.     *)

Doomed == \E p \in Producer : ppc[p] \in {"write", "crash"}

\* The write thread has seen to its file and has not yet written to it.
FileReady == wpc \in {"lock", "check", "wait", "waiting", "print", "write"}

\* The write thread is about to replace the open file.
Rolling == wpc \in {"close", "open"}

\* uninit leaves no FILE* behind: there is one only between init and the end of uninit.
NoFileOutside ==
  (\/ m_spWriteThread = "null"
   \/ m_spWriteThread = "joined" /\ apc \in {"idle", "notify", "join"})
    => m_hLogFile = NoFile

\* Only a logger with a file name has an open file, or is about to.
OpenIsNamed == (m_hLogFile.open \/ Rolling) /\ ~crashed => m_strFileName

\* The write thread has an open file that it keeps account of: it is not about to
\* replace it and has not left it on an error.
Counting == m_hLogFile.open /\ ~Rolling /\ ~(wpc = "returned" /\ ioFailed)

\* The size the write thread keeps is that of its file, or more when a flush failed,
\* and is below the roll size when a line is written.
SizeTracks ==
  /\ Rolling => m_nCurrentWrittenSize = 0
  /\ Counting => /\ Size(disk[m_hLogFile.name]) <= m_nCurrentWrittenSize
                 /\ ~torn => Size(disk[m_hLogFile.name]) = m_nCurrentWrittenSize
  /\ (m_hLogFile.open /\ FileReady /\ RollSize > 0) =>
       m_nCurrentWrittenSize < RollSize

\* No file was written to when it was full.
FilesBounded ==
  RollSize > 0 => \A n \in FileName : disk[n] # <<>> => Size(Front(disk[n])) < RollSize

\* What is to be written is the last line printed.
WritesPrinted == (wpc = "write" /\ ~crashed) => console # <<>> /\ Last(console) = strLine

\* The open file ends what was printed, if every line got into it whole.
HoldsTail ==
  (m_hLogFile.open /\ ~Rolling /\ ~ioFailed /\ ~torn) =>
    IsSuffix(disk[m_hLogFile.name], IF wpc = "write" THEN Front(console) ELSE console)

FileInv == /\ WritesPrinted
           /\ ~Doomed => /\ NoFileOutside /\ OpenIsNamed /\ SizeTracks
                         /\ FilesBounded /\ HoldsTail

USE DEF vars, queueVars, fileVars, flagVars, exitVars, writerVars, callVars, adminVars

LEMMA FileInvInit == Init => FileInv
<1> SUFFICES ASSUME Init PROVE FileInv
  OBVIOUS
<1>1. ~m_hLogFile.open /\ m_hLogFile = NoFile /\ wpc = "none"
  BY DEF Init, NoFile
<1>2. FilesBounded
  BY DEF Init, FilesBounded
<1> QED
  BY <1>1, <1>2 DEF FileInv, NoFileOutside, OpenIsNamed, SizeTracks, HoldsTail,
                    WritesPrinted, Rolling, Counting

\* What a FATAL call decides is not taken back.
LEMMA DoomedStays ==
  ASSUME TypeOK, ~crashed, [Next]_vars, Doomed PROVE Doomed'
<1>1. PICK p \in Producer : ppc[p] \in {"write", "crash"}
  BY DEF Doomed
<1>2. ASSUME NEW q \in Producer, Caller(q) PROVE ppc'[p] \in {"write", "crash"}
  BY <1>1, <1>2
  DEF TypeOK, Caller, Output, OutputBinary, BeginCall, Push, FatalTest, FatalCloseOld,
      FatalOpen, FatalWrite, FatalStep, Crash
<1>3. ASSUME Writer \/ SpuriousWakeup \/ AdminNext PROVE ppc' = ppc
  BY <1>3
  DEF Writer, WriterStart, LoopTop, WriterCloseOld, WriterOpen, PopLine, FindEmpty,
      TestExit, Sleep, SpuriousWakeup, PrintLine, WriteToFile, WriterStep, AdminNext,
      InitLog, SetLevel, SetExit, Uninit, NotifyExit, Join, UninitClose, UninitClear,
      UninitStep, Tick
<1>4. ppc'[p] \in {"write", "crash"}
  BY <1>1, <1>2, <1>3 DEF Next, AdminNext
<1> QED BY <1>4 DEF Doomed

\* Closing a file leaves every file as it is, and nothing open.
LEMMA CloseCloses ==
  ASSUME TypeOK, CloseOldFile
  PROVE  /\ UNCHANGED disk
         /\ ~m_hLogFile'.open
         /\ m_hLogFile = NoFile => m_hLogFile' = NoFile
<1>1. CASE m_hLogFile = NoFile
  BY <1>1 DEF CloseOldFile, NoFile
<1>2. CASE m_hLogFile # NoFile
  BY <1>2 DEF CloseOldFile, CloseFile, TypeOK, Handle
<1> QED BY <1>1, <1>2

\* A step that opens no file and leaves the disk as it is.
LEMMA FileShut ==
  ASSUME FileInv, ~Doomed, UNCHANGED disk, ~m_hLogFile'.open,
         OpenIsNamed',
         NoFileOutside', Rolling' => m_nCurrentWrittenSize' = 0, WritesPrinted'
  PROVE  FileInv'
BY DEF FileInv, SizeTracks, Counting, FilesBounded, HoldsTail

\* A step that leaves the file as it is and does not move the write thread past one
\* of the places that matter.
LEMMA FileFrame ==
  ASSUME FileInv, ~Doomed, UNCHANGED <<fileVars, m_nCurrentWrittenSize, console, ioFailed>>,
         NoFileOutside', OpenIsNamed', FileReady' => FileReady, Rolling' = Rolling,
         (wpc' = "write") = (wpc = "write"), wpc = "returned" => wpc' = "returned",
         WritesPrinted'
  PROVE  FileInv'
<1>1. SizeTracks'
  BY DEF FileInv, SizeTracks, Counting
<1>2. FilesBounded'
  BY DEF FileInv, FilesBounded
<1>3. HoldsTail'
  BY DEF FileInv, HoldsTail
<1> QED BY <1>1, <1>2, <1>3 DEF FileInv

\* When nothing is known of the files any more, the rest of the invariant is left.
LEMMA FileInvDoomed == ASSUME Doomed', WritesPrinted' PROVE FileInv'
BY DEF FileInv

LEMMA FileCaller ==
  ASSUME TypeOK, IInv, FileInv, ~crashed, NEW p \in Producer, Caller(p), ~Doomed'
  PROVE  FileInv'
<1>0. ~Doomed /\ ppc[p] # "write" /\ ppc[p] # "crash"
  BY DoomedStays DEF Next, Doomed
<1>1. CASE \/ Output(p) \/ OutputBinary(p) \/ Push(p) \/ FatalTest(p)
  <2>1. UNCHANGED <<fileVars, m_nCurrentWrittenSize, console, ioFailed, strLine, crashed,
                    m_strFileName, m_spWriteThread, apc>>
    BY <1>1 DEF Output, OutputBinary, BeginCall, Push, FatalTest, FatalStep
  <2>4. wpc' = wpc \/ (wpc = "waiting" /\ wpc' = "lock")
    <3>1. CASE Output(p) \/ OutputBinary(p)
      BY <3>1 DEF Output, OutputBinary, BeginCall
    <3>2. CASE Push(p)
      BY <3>2 DEF Push, NotifyOne
    <3>3. CASE FatalTest(p)
      BY <3>3 DEF FatalTest, FatalStep
    <3> QED BY <1>1, <3>1, <3>2, <3>3
  <2>2. NoFileOutside' /\ OpenIsNamed' /\ WritesPrinted'
    BY <1>0, <2>1, <2>4 DEF FileInv, NoFileOutside, OpenIsNamed, Rolling, WritesPrinted
  <2>3. /\ FileReady' => FileReady
        /\ Rolling' = Rolling /\ (wpc' = "write") = (wpc = "write")
        /\ wpc = "returned" => wpc' = "returned"
    BY <2>4 DEF FileReady, Rolling
  <2> QED BY <1>0, <2>1, <2>2, <2>3, FileFrame
<1>2. CASE FatalCloseOld(p) \/ FatalOpen(p)
  <2>1. UNCHANGED <<m_nCurrentWrittenSize, console, ioFailed, strLine, wpc, m_strFileName,
                    m_spWriteThread, apc>>
    BY <1>2 DEF FatalCloseOld, FatalOpen, FatalStep
  <2>2. UNCHANGED disk /\ ~m_hLogFile'.open /\ (m_hLogFile = NoFile => m_hLogFile' = NoFile)
    <3>1. CASE FatalCloseOld(p)
      BY <3>1, CloseCloses DEF FatalCloseOld
    <3>2. CASE FatalOpen(p)
      <4>1. ~FatalStep(p, "write")
        BY DEF FatalStep, Doomed, TypeOK
      <4> QED BY <3>2, <4>1 DEF FatalOpen, OpenFails, NoFile
    <3> QED BY <1>2, <3>1, <3>2
  <2>3. WritesPrinted'
    BY <2>1 DEF FileInv, WritesPrinted
  <2>4. NoFileOutside' /\ (Rolling' => m_nCurrentWrittenSize' = 0)
    BY <1>0, <2>1, <2>2 DEF FileInv, NoFileOutside, SizeTracks, Rolling
  <2>5. OpenIsNamed'
    BY <1>0, <2>1, <2>2 DEF FileInv, OpenIsNamed, Rolling
  <2> QED BY <1>0, <2>2, <2>3, <2>4, <2>5, FileShut
<1>3. ~FatalWrite(p) /\ ~Crash(p)
  BY <1>0 DEF FatalWrite, Crash
<1> QED BY <1>1, <1>2, <1>3 DEF Caller

LEMMA WriteTypes ==
  ASSUME TypeOK, ~crashed, WriteToFile
  PROVE  m_hLogFile.open => Size(disk'[m_hLogFile.name]) \in Nat
<1>1. TypeOK'
  BY TypeWriter DEF Writer
<1>2. m_hLogFile.open => m_hLogFile.name \in FileName
  BY DEF TypeOK, Handle, NoFile
<1> QED BY <1>1, <1>2, SizeNat DEF TypeOK

\* A line goes to the open file, which was not full.
LEMMA FileWrite ==
  ASSUME TypeOK, IInv, FileInv, ~crashed, ~Doomed, WriteToFile, ~Doomed'
  PROVE  FileInv'
<1>1. /\ wpc = "write" /\ strLine \in Line /\ m_nCurrentWrittenSize \in Nat
      /\ console \in Seq(Line) /\ console # <<>> /\ Last(console) = strLine
      /\ UNCHANGED <<console, m_strFileName, m_spWriteThread, apc>>
  BY DEF WriteToFile, WriterStep, TypeOK, FileInv, WritesPrinted
<1>2. UNCHANGED m_hLogFile /\ m_spWriteThread = "joinable"
  BY <1>1 DEF WriteToFile, WriteLine, WriteFails, WriteCrashes, IInv, ThreadObjectTracks,
              TypeOK
<1>3. NoFileOutside' /\ OpenIsNamed' /\ WritesPrinted'
  <2>1. crashed' \/ wpc' # "write"
    BY DEF WriteToFile, WriterStep, WriteCrashes
  <2>2. crashed' \in BOOLEAN /\ ~Rolling'
    BY DEF WriteToFile, WriterStep, WriteLine, WriteFails, WriteCrashes, TypeOK, Rolling
  <2> QED
    BY <1>1, <1>2, <2>1, <2>2 DEF FileInv, NoFileOutside, OpenIsNamed, WritesPrinted
<1>4. ~Rolling /\ ~Rolling' /\ FileReady /\ ~(wpc = "returned")
  BY <1>1 DEF WriteToFile, WriterStep, Rolling, FileReady
<1>5. CASE ~m_hLogFile.open /\ UNCHANGED disk
  BY <1>2, <1>3, <1>4, <1>5, FileShut
<1>6. CASE m_hLogFile.open
  <2> DEFINE n == m_hLogFile.name
  <2>1. /\ n \in FileName /\ disk \in [FileName -> Seq(Piece)] /\ disk[n] \in Seq(Piece)
        /\ torn \in BOOLEAN /\ Size(disk[n]) \in Nat
    BY <1>6, SizeNat DEF TypeOK, Handle, NoFile
  <2>2. /\ Size(disk[n]) <= m_nCurrentWrittenSize
        /\ ~torn => Size(disk[n]) = m_nCurrentWrittenSize
        /\ RollSize > 0 => m_nCurrentWrittenSize < RollSize
    BY <1>4, <1>6 DEF FileInv, SizeTracks, Counting
  <2>3. ASSUME NEW piece \in Piece, PutInFile(piece)
        PROVE  /\ FilesBounded'
               /\ disk'[n] = Append(disk[n], piece)
               /\ Size(disk'[n]) = Size(disk[n]) + piece.len /\ piece.len \in Nat
    <3>1. disk'[n] = Append(disk[n], piece) /\ \A m \in FileName \ {n} : disk'[m] = disk[m]
      BY <2>1, <2>3 DEF PutInFile
    <3>2. Front(disk'[n]) = disk[n]
      BY <2>1, <3>1, FrontAppend
    <3>3. FilesBounded'
      <4>1. RollSize > 0 => Size(disk[n]) < RollSize
        BY <1>1, <2>1, <2>2, ConstantsAssumption
      <4> QED BY <2>1, <3>1, <3>2, <4>1 DEF FileInv, FilesBounded
    <3> QED BY <2>1, <3>1, <3>3, SizeAppend, LineLen
  <2>4. CASE PutInFile(strLine) /\ UNCHANGED torn /\ wpc' = "loop" /\ UNCHANGED ioFailed
             /\ m_nCurrentWrittenSize' = m_nCurrentWrittenSize + strLine.len
    <3>1. /\ FilesBounded' /\ disk'[n] = Append(disk[n], strLine)
          /\ Size(disk'[n]) = Size(disk[n]) + strLine.len /\ strLine.len \in Nat
      BY <1>1, <2>3, <2>4, LineIsPiece
    <3>2. SizeTracks'
      BY <1>1, <1>2, <1>4, <2>1, <2>2, <2>4, <3>1 DEF SizeTracks, FileReady
    <3>3. HoldsTail'
      <4>1. SUFFICES ASSUME ~ioFailed, ~torn PROVE IsSuffix(disk'[n], console)
        BY <1>1, <1>2, <2>4 DEF HoldsTail
      <4>2. IsSuffix(disk[n], Front(console))
        BY <1>1, <1>4, <1>6, <4>1 DEF FileInv, HoldsTail
      <4>3. PICK lines \in Seq(Line), line \in Line : console = Append(lines, line)
        BY <1>1, SequenceEmptyOrAppend
      <4>4. lines \in Seq(Piece) /\ line \in Piece /\ strLine \in Piece
        BY <1>1, <4>3, LinesArePieces
      <4>5. Front(console) = lines /\ strLine = line
        BY <1>1, <4>3, <4>4, FrontAppend
      <4>6. IsSuffix(Append(disk[n], strLine), Append(lines, strLine))
        BY <2>1, <4>2, <4>4, <4>5, SuffixAppend
      <4> QED BY <3>1, <4>3, <4>5, <4>6
    <3> QED BY <1>3, <3>1, <3>2, <3>3 DEF FileInv
  <2>5. CASE PutInFilePartly(strLine)
    <3>1. torn' /\ HoldsTail'
      BY <2>5 DEF PutInFilePartly, HoldsTail
    <3>2. FilesBounded' /\ Size(disk'[n]) <= Size(disk[n]) + strLine.len
      <4>1. CASE UNCHANGED disk
        BY <1>1, <2>1, <4>1, LineIsPiece DEF FileInv, FilesBounded
      <4>2. ASSUME NEW k \in 1..(strLine.len - 1), PutInFile([strLine EXCEPT !.len = k])
            PROVE  FilesBounded' /\ Size(disk'[n]) <= Size(disk[n]) + strLine.len
        <5>1. [strLine EXCEPT !.len = k] \in Piece /\ strLine.len \in Nat
          BY <1>1, LineIsPiece
        <5>2. [strLine EXCEPT !.len = k].len = k
          BY <1>1 DEF Line
        <5>3. FilesBounded' /\ Size(disk'[n]) = Size(disk[n]) + k
          BY <2>3, <4>2, <5>1, <5>2
        <5> QED BY <2>1, <5>1, <5>3
      <4> QED BY <2>5, <4>1, <4>2 DEF PutInFilePartly
    <3>3. CASE wpc' = "loop" /\ m_nCurrentWrittenSize' = m_nCurrentWrittenSize + strLine.len
      <4>1. Size(disk'[n]) <= m_nCurrentWrittenSize'
        <5>1. Size(disk'[n]) \in Nat /\ strLine.len \in Nat
          BY <1>1, <1>2, <1>6, LineIsPiece, WriteTypes
        <5> QED BY <1>1, <2>1, <2>2, <3>2, <3>3, <5>1
      <4>2. SizeTracks'
        BY <1>2, <1>4, <3>1, <3>3, <4>1 DEF SizeTracks, FileReady
      <4> QED BY <1>3, <3>1, <3>2, <4>2 DEF FileInv
    <3>4. CASE wpc' = "returned" /\ ioFailed'
      <4>1. SizeTracks'
        BY <1>4, <3>4 DEF SizeTracks, Counting, FileReady
      <4> QED BY <1>3, <3>1, <3>2, <4>1 DEF FileInv
    <3> QED BY <1>6, <2>5, <3>3, <3>4 DEF WriteToFile, WriteCrashes, WriterStep
  <2> QED BY <1>6, <2>4, <2>5
          DEF WriteToFile, WriteLine, WriteFails, WriteCrashes, WriterStep
<1> QED BY <1>5, <1>6 DEF WriteToFile, WriteLine, WriteFails, WriteCrashes, WriterStep

LEMMA FileWriter ==
  ASSUME TypeOK, IInv, FileInv, ~crashed, Writer \/ SpuriousWakeup, ~Doomed'
  PROVE  FileInv'
<1>0. ~Doomed
  BY DoomedStays DEF Next
<1>1. UNCHANGED <<m_strFileName, m_spWriteThread, apc>> /\ m_spWriteThread = "joinable"
  <2>1. wpc # "none" /\ wpc # "returned"
    BY DEF Writer, WriterStart, LoopTop, WriterCloseOld, WriterOpen, PopLine, FindEmpty,
           TestExit, Sleep, SpuriousWakeup, PrintLine, WriteToFile, WriterStep
  <2>2. m_spWriteThread = "joinable"
    BY <2>1 DEF IInv, ThreadObjectTracks, TypeOK
  <2> QED
    BY <2>2 DEF Writer, WriterStart, LoopTop, WriterCloseOld, WriterOpen, PopLine,
       FindEmpty, TestExit, Sleep, SpuriousWakeup, PrintLine, WriteToFile, WriterStep
<1>2. NoFileOutside'
  BY <1>1 DEF NoFileOutside
<1>3. CASE WriteToFile
  BY <1>0, <1>3, FileWrite
<1>4. CASE WriterStart \/ PopLine \/ FindEmpty \/ TestExit \/ Sleep \/ SpuriousWakeup
  <2>1. /\ UNCHANGED <<fileVars, m_nCurrentWrittenSize, console, ioFailed, crashed>>
        /\ wpc \in {"start", "lock", "check", "wait", "waiting"}
        /\ wpc' \in {"loop", "lock", "check", "wait", "waiting", "print", "returned"}
        /\ FileReady' => FileReady
    BY <1>4 DEF WriterStart, PopLine, FindEmpty, TestExit, Sleep, SpuriousWakeup,
                WriterStep, FileReady
  <2>2. OpenIsNamed' /\ WritesPrinted'
    BY <1>0, <1>1, <2>1 DEF FileInv, OpenIsNamed, Rolling, WritesPrinted
  <2>3. Rolling' = Rolling /\ (wpc' = "write") = (wpc = "write")
    BY <2>1 DEF Rolling
  <2> QED BY <1>0, <1>2, <2>1, <2>2, <2>3, FileFrame
<1>5. CASE LoopTop
  <2>1. /\ UNCHANGED <<fileVars, console, ioFailed, crashed>>
        /\ wpc = "loop" /\ wpc' = IF NeedsFile THEN "close" ELSE "lock"
        /\ m_nCurrentWrittenSize' = IF NeedsFile THEN 0 ELSE m_nCurrentWrittenSize
    BY <1>5 DEF LoopTop, WriterStep
  <2>2. OpenIsNamed' /\ WritesPrinted' /\ FilesBounded'
    BY <1>0, <1>1, <2>1
    DEF FileInv, OpenIsNamed, Rolling, WritesPrinted, FilesBounded, NeedsFile
  <2>3. SizeTracks'
    <3>1. CASE NeedsFile
      BY <2>1, <3>1 DEF SizeTracks, Rolling, FileReady, Counting
    <3>2. CASE ~NeedsFile
      <4>1. m_hLogFile.open => m_nCurrentWrittenSize < RollSize
        BY <1>0, <3>2, ConstantsAssumption DEF NeedsFile, FileInv, OpenIsNamed, Rolling, NoFile, TypeOK
      <4> QED BY <1>0, <2>1, <3>2, <4>1 DEF FileInv, SizeTracks, Rolling, Counting
    <3> QED BY <3>1, <3>2
  <2>4. HoldsTail'
    BY <1>0, <2>1 DEF FileInv, HoldsTail, Rolling
  <2> QED BY <1>2, <2>2, <2>3, <2>4 DEF FileInv
<1>6. CASE WriterCloseOld
  <2>1. /\ UNCHANGED m_nCurrentWrittenSize
        /\ Rolling /\ wpc' = "open"
    BY <1>6 DEF WriterCloseOld, WriterStep, Rolling
  <2>2. m_nCurrentWrittenSize' = 0 /\ WritesPrinted' /\ OpenIsNamed'
    BY <1>0, <1>1, <2>1 DEF FileInv, SizeTracks, WritesPrinted, OpenIsNamed
  <2> QED BY <1>0, <1>2, <1>6, <2>2, CloseCloses, FileShut DEF WriterCloseOld
<1>7. CASE WriterOpen
  <2>1. /\ wpc = "open" /\ m_nCurrentWrittenSize = 0
        /\ UNCHANGED <<m_nCurrentWrittenSize, console, crashed>>
        /\ wpc' # "write" /\ ~Rolling'
    BY <1>0, <1>7 DEF WriterOpen, WriterStep, FileInv, SizeTracks, Rolling
  <2>2. WritesPrinted'
    BY <2>1 DEF WritesPrinted
  <2>3. CASE OpenFails
    <3>1. UNCHANGED disk /\ ~m_hLogFile'.open
      BY <2>3 DEF OpenFails, NoFile
    <3>2. OpenIsNamed'
      BY <2>1, <3>1 DEF OpenIsNamed
    <3> QED BY <1>0, <1>2, <2>1, <2>2, <3>1, <3>2, FileShut
  <2>4. CASE OpenFile("writer")
    <3> DEFINE n == <<"writer", clock>>
    <3>1. n \in FileName /\ disk \in [FileName -> Seq(Piece)]
      BY DEF TypeOK, FileName
    <3>2. /\ m_hLogFile' = [name |-> n, open |-> TRUE] /\ disk'[n] = <<>>
          /\ \A m \in FileName \ {n} : disk'[m] = disk[m]
      BY <2>4, <3>1 DEF OpenFile
    <3> HIDE DEF n
    <3>3. SizeTracks'
      BY <2>1, <3>2, SizeEmpty DEF SizeTracks
    <3>4. FilesBounded'
      BY <1>0, <3>1, <3>2 DEF FileInv, FilesBounded
    <3>5. HoldsTail'
      <4>1. IsSuffix(<<>>, console)
        BY SuffixEmpty, LinesArePieces DEF TypeOK
      <4> QED BY <2>1, <3>2, <4>1 DEF HoldsTail
    <3>6. OpenIsNamed'
      BY <1>0, <1>1, <1>7, <2>1 DEF FileInv, OpenIsNamed, Rolling, WriterOpen, WriterStep
    <3> QED BY <1>2, <2>2, <3>3, <3>4, <3>5, <3>6 DEF FileInv
  <2> QED BY <1>7, <2>3, <2>4 DEF WriterOpen
<1>8. CASE PrintLine
  <2>1. /\ UNCHANGED <<fileVars, m_nCurrentWrittenSize, ioFailed, crashed>>
        /\ wpc = "print" /\ wpc' = IF m_strFileName THEN "write" ELSE "loop"
        /\ console' = Append(console, strLine) /\ strLine \in Line
        /\ console \in Seq(Line)
        /\ strLine' = IF m_strFileName THEN strLine ELSE NoLine
    BY <1>8 DEF PrintLine, WriterStep, TypeOK
  <2>2. Front(console') = console /\ Last(console') = strLine /\ console' # <<>>
    BY <2>1, FrontAppend, AppendProperties, LinesArePieces
  <2>3. OpenIsNamed' /\ WritesPrinted' /\ FilesBounded'
    BY <1>0, <1>1, <2>1, <2>2 DEF FileInv, OpenIsNamed, Rolling, WritesPrinted, FilesBounded
  <2>4. SizeTracks' /\ HoldsTail'
    <3>1. CASE m_hLogFile.open
      <4>1. m_strFileName
        BY <1>0, <3>1 DEF FileInv, OpenIsNamed, Rolling
      <4>2. SizeTracks'
        BY <1>0, <2>1, <4>1 DEF FileInv, SizeTracks, Rolling, FileReady, Counting
      <4>3. HoldsTail'
        BY <1>0, <2>1, <2>2, <4>1 DEF FileInv, HoldsTail, Rolling
      <4> QED BY <4>2, <4>3
    <3>2. CASE ~m_hLogFile.open
      BY <2>1, <3>2 DEF SizeTracks, HoldsTail, Rolling, Counting
    <3> QED BY <3>1, <3>2
  <2> QED BY <1>2, <2>3, <2>4 DEF FileInv
<1> QED BY <1>3, <1>4, <1>5, <1>6, <1>7, <1>8 DEF Writer

LEMMA FileAdmin ==
  ASSUME TypeOK, IInv, FileInv, ~crashed, AdminNext, ~Doomed'
  PROVE  FileInv'
<1>0. ~Doomed
  BY DoomedStays DEF Next, AdminNext
<1>1. UNCHANGED <<disk, torn, m_nCurrentWrittenSize, console, ioFailed, strLine>>
  <2>1. CloseOldFile => UNCHANGED <<disk, torn>>
    BY DEF CloseOldFile, CloseFile
  <2> QED
    BY <2>1 DEF AdminNext, InitLog, SetLevel, SetExit, Uninit, NotifyExit, Join,
                UninitClose, UninitClear, UninitStep, Tick
<1>2. ASSUME NEW file \in FileArgs, InitLog(file) PROVE FileInv'
  <2>1. CASE m_spWriteThread = "joinable"
    <3>1. /\ crashed' /\ UNCHANGED <<m_hLogFile, m_spWriteThread, wpc>>
      BY <1>2, <2>1 DEF InitLog
    <3>2. NoFileOutside' /\ OpenIsNamed' /\ WritesPrinted'
      BY <2>1, <3>1 DEF NoFileOutside, OpenIsNamed, Rolling, WritesPrinted
    <3> QED
      BY <1>0, <1>1, <3>1, <3>2, FileFrame DEF FileReady, Rolling
  <2>2. CASE m_spWriteThread # "joinable"
    <3>1. m_hLogFile = NoFile
      BY <1>0, <1>2, <2>2 DEF FileInv, NoFileOutside, InitLog, TypeOK
    <3>2. /\ UNCHANGED m_hLogFile /\ m_spWriteThread' = "joinable" /\ wpc' = "start"
      BY <1>2, <2>2 DEF InitLog
    <3>3. /\ NoFileOutside' /\ WritesPrinted' /\ OpenIsNamed'
          /\ ~Rolling' /\ ~m_hLogFile'.open
      BY <3>1, <3>2 DEF NoFileOutside, WritesPrinted, OpenIsNamed, Rolling, NoFile
    <3> QED BY <1>0, <1>1, <3>3, FileShut
  <2> QED BY <2>1, <2>2
<1>3. CASE \/ SetExit \/ NotifyExit \/ Join \/ Tick
           \/ \E level \in SetLevels : SetLevel(level)
  <2>1. UNCHANGED <<m_hLogFile, m_strFileName>>
    BY <1>3 DEF SetExit, NotifyExit, Join, Tick, SetLevel, UninitStep
  <2>2. wpc' = wpc \/ (wpc = "waiting" /\ wpc' = "lock")
    <3>1. CASE NotifyExit
      BY <3>1 DEF NotifyExit, NotifyOne
    <3>2. CASE SetExit \/ Join \/ Tick \/ \E level \in SetLevels : SetLevel(level)
      BY <3>2 DEF SetExit, Join, Tick, SetLevel
    <3> QED BY <1>3, <3>1, <3>2
  <2>3. crashed => crashed'
    OBVIOUS
  <2>4. NoFileOutside'
    <3>1. CASE Join
      BY <1>0, <2>1, <3>1 DEF FileInv, NoFileOutside, Join, UninitStep
    <3>2. CASE NotifyExit \/ SetExit
      BY <1>0, <2>1, <3>2 DEF FileInv, NoFileOutside, NotifyExit, SetExit, UninitStep
    <3>3. CASE Tick \/ \E level \in SetLevels : SetLevel(level)
      BY <1>0, <2>1, <3>3 DEF FileInv, NoFileOutside, Tick, SetLevel
    <3> QED BY <1>3, <3>1, <3>2, <3>3
  <2>5. OpenIsNamed' /\ WritesPrinted'
    BY <1>0, <1>1, <2>1, <2>2 DEF FileInv, OpenIsNamed, Rolling, WritesPrinted
  <2>6. /\ FileReady' => FileReady
        /\ Rolling' = Rolling /\ (wpc' = "write") = (wpc = "write")
        /\ wpc = "returned" => wpc' = "returned"
    BY <2>2 DEF FileReady, Rolling
  <2> QED BY <1>0, <1>1, <2>1, <2>4, <2>5, <2>6, FileFrame
<1>4. CASE UninitClose
  <2>1. ~m_hLogFile'.open /\ (m_hLogFile = NoFile => m_hLogFile' = NoFile)
    BY <1>4, CloseCloses DEF UninitClose
  <2>2. /\ UNCHANGED <<m_spWriteThread, wpc>> /\ apc = "close"
        /\ apc' = IF m_hLogFile = NoFile THEN "idle" ELSE "clear"
    BY <1>4 DEF UninitClose, UninitStep
  <2>3. /\ NoFileOutside' /\ (Rolling' => m_nCurrentWrittenSize' = 0) /\ WritesPrinted'
        /\ UNCHANGED m_strFileName
    BY <1>0, <1>1, <1>4, <2>1, <2>2
    DEF FileInv, NoFileOutside, SizeTracks, Rolling, WritesPrinted, UninitClose, UninitStep
  <2>4. OpenIsNamed'
    BY <1>0, <2>1, <2>2, <2>3 DEF FileInv, OpenIsNamed, Rolling
  <2> QED BY <1>0, <1>1, <2>1, <2>3, <2>4, FileShut
<1>5. CASE UninitClear
  <2>1. UNCHANGED <<m_spWriteThread, wpc, crashed, m_strFileName>> /\ m_hLogFile' = NoFile
    BY <1>5 DEF UninitClear, UninitStep
  <2>2. /\ NoFileOutside' /\ (Rolling' => m_nCurrentWrittenSize' = 0) /\ WritesPrinted'
        /\ ~m_hLogFile'.open /\ OpenIsNamed'
    BY <1>0, <1>1, <2>1
    DEF FileInv, NoFileOutside, SizeTracks, Rolling, WritesPrinted, OpenIsNamed, NoFile
  <2> QED BY <1>0, <1>1, <2>2, FileShut
<1> QED BY <1>2, <1>3, <1>4, <1>5 DEF AdminNext, Uninit

\* What is about to be written is the last line printed, whatever FATAL calls do.
LEMMA PrintedFirst ==
  ASSUME TypeOK, ~crashed, WritesPrinted, Next
  PROVE  WritesPrinted'
<1>1. CASE PrintLine
  <2>1. /\ console' = Append(console, strLine) /\ strLine \in Line /\ console \in Seq(Line)
        /\ wpc' = (IF m_strFileName THEN "write" ELSE "loop")
        /\ strLine' = (IF m_strFileName THEN strLine ELSE NoLine)
    BY <1>1 DEF PrintLine, WriterStep, TypeOK
  <2>2. Last(console') = strLine /\ console' # <<>>
    BY <2>1, FrontAppend, AppendProperties, LinesArePieces
  <2> QED BY <2>1, <2>2 DEF WritesPrinted
<1>2. CASE WriteToFile
  <2>1. crashed' = TRUE \/ wpc' # "write"
    BY <1>2 DEF WriteToFile, WriterStep, WriteCrashes
  <2> QED BY <2>1 DEF WritesPrinted
<1>3. CASE \/ WriterStart \/ LoopTop \/ WriterCloseOld \/ WriterOpen \/ PopLine
           \/ FindEmpty \/ TestExit \/ Sleep \/ SpuriousWakeup
           \/ \E file \in FileArgs : m_spWriteThread # "joinable" /\ InitLog(file)
  <2>1. wpc' # "write"
    BY <1>3 DEF WriterStart, LoopTop, WriterCloseOld, WriterOpen, PopLine, FindEmpty,
       TestExit, Sleep, SpuriousWakeup, WriterStep, InitLog
  <2> QED BY <2>1 DEF WritesPrinted
<1>4. ASSUME UNCHANGED <<console, strLine>>,
             wpc' = wpc \/ (wpc = "waiting" /\ wpc' = "lock")
      PROVE  WritesPrinted'
  BY <1>4 DEF WritesPrinted
<1>5. ASSUME NEW p \in Producer, Caller(p) PROVE WritesPrinted'
  <2>1. UNCHANGED <<console, strLine>>
    BY <1>5 DEF Caller, Output, OutputBinary, BeginCall, Push, FatalTest, FatalCloseOld,
                FatalOpen, FatalWrite, FatalStep, Crash
  <2>2. wpc' = wpc \/ (wpc = "waiting" /\ wpc' = "lock")
    <3>1. CASE Push(p)
      BY <3>1 DEF Push, NotifyOne
    <3>2. CASE ~Push(p)
      BY <1>5, <3>2
      DEF Caller, Output, OutputBinary, BeginCall, FatalTest, FatalCloseOld, FatalOpen,
          FatalWrite, FatalStep, Crash
    <3> QED BY <3>1, <3>2
  <2> QED BY <1>4, <2>1, <2>2
<1>6. CASE \/ SetExit \/ Uninit \/ Tick \/ \E level \in SetLevels : SetLevel(level)
           \/ \E file \in FileArgs : m_spWriteThread = "joinable" /\ InitLog(file)
  <2>1. UNCHANGED <<console, strLine>>
    BY <1>6 DEF SetExit, Uninit, NotifyExit, Join, UninitClose, UninitClear, UninitStep,
                Tick, SetLevel, InitLog
  <2>2. wpc' = wpc \/ (wpc = "waiting" /\ wpc' = "lock")
    <3>1. CASE NotifyExit
      BY <3>1 DEF NotifyExit, NotifyOne
    <3>2. CASE ~NotifyExit
      BY <1>6, <3>2 DEF SetExit, Uninit, Join, UninitClose, UninitClear, Tick, SetLevel,
                        InitLog
    <3> QED BY <3>1, <3>2
  <2> QED BY <1>4, <2>1, <2>2
<1> QED BY <1>1, <1>2, <1>3, <1>5, <1>6 DEF Next, Writer

LEMMA FileSafety == Spec => []FileInv
<1>1. TypeOK /\ IInv /\ FileInv /\ [Next]_vars => FileInv'
  <2> SUFFICES ASSUME TypeOK, IInv, FileInv, [Next]_vars PROVE FileInv'
    OBVIOUS
  <2>1. CASE UNCHANGED vars
    BY <2>1 DEF FileInv, NoFileOutside, OpenIsNamed, SizeTracks, FilesBounded, HoldsTail,
                WritesPrinted, Doomed, FileReady, Rolling, Counting
  <2>2. CASE Next
    <3>1. ~crashed
      BY <2>2 DEF Next
    <3>2. CASE Doomed'
      BY <2>2, <3>1, <3>2, PrintedFirst, FileInvDoomed DEF FileInv
    <3>3. CASE ~Doomed'
      BY <2>2, <3>1, <3>3, FileCaller, FileWriter, FileAdmin DEF Next, AdminNext
    <3> QED BY <3>2, <3>3
  <2> QED BY <2>1, <2>2
<1> QED BY <1>1, FileInvInit, TypeCorrect, Safety, PTL DEF Spec

-----------------------------------------------------------------------------
(* The theorems.                                                           *)

\* A file exceeds m_nFileRollSize by no more than its last line: the write thread sets
\* m_nCurrentWrittenSize back when it rolls, and at no other moment.
THEOREM FilesRollInTime == Spec => []RollBound
<1>1. FileInv => RollBound
  <2>1. NoFatalCall => ~Doomed
    BY DEF NoFatalCall, Doomed
  <2> QED BY <2>1 DEF FileInv, FilesBounded, RollBound
<1> QED BY <1>1, FileSafety, PTL

\* The open file holds the last lines that were printed, in their order, and
\* m_nCurrentWrittenSize is its size, over any number of rolls, of init and of uninit;
\* when a flush of the file failed, it is smaller than that, and never larger.
THEOREM OpenFileIsTail == Spec => []CurrentFileIsTail
<1>1. FileInv => CurrentFileIsTail
  <2>1. NoFatalCall => ~Doomed
    BY DEF NoFatalCall, Doomed
  <2> QED BY <2>1
          DEF FileInv, HoldsTail, SizeTracks, Counting, Rolling, CurrentFileIsTail
<1> QED BY <1>1, FileSafety, PTL
=============================================================================
