--------------------------- MODULE AsyncLogProofs ---------------------------
(***************************************************************************)
(* Proofs about AsyncLog, for any set of callers and any bounds: the type  *)
(* invariant, the safety invariants and the refinement of LogService.      *)
(***************************************************************************)
EXTENDS AsyncLog, SequenceTheorems, TLAPS

\* The thread object and the thread agree: a thread that was joined has
\* returned, and there is none before init.
ThreadObjectTracks == /\ m_spWriteThread = "joined" => wpc = "returned"
                      /\ m_spWriteThread = "null"   => wpc = "none"

\* When the write thread has returned without a file error it saw m_bExit with
\* the list empty, so nothing pushed before m_bExit was set is still inside.
ReturnDrains == /\ atExit <= Len(accepted)
                /\ (wpc = "returned" /\ ~ioFailed) =>
                      m_bExit /\ Len(console) >= atExit

\* The inductive invariant.
IInv == /\ LinesConserved
        /\ NoMissedWakeup
        /\ ThreadObjectTracks
        /\ ReturnDrains

USE DEF vars, queueVars, fileVars, flagVars, exitVars, writerVars, callVars, adminVars

\* The initial state has the right types.
LEMMA TypeInit == Init => TypeOK
<1> SUFFICES ASSUME Init PROVE TypeOK
  OBVIOUS
<1>1. <<>> \in Seq(Line)
  OBVIOUS
<1>2. disk \in [FileName -> Seq(Piece)] /\ torn \in BOOLEAN
  <2>1. <<>> \in Seq(Piece)
    OBVIOUS
  <2> QED BY <2>1 DEF Init
<1>3. pline \in [Producer -> Line \cup {NoLine}] /\ ppc \in [Producer -> CallerAt]
  BY DEF Init, CallerAt
<1>4. m_nCurrentLevel \in 0..FATAL /\ calls \in 0..MaxCalls /\ inits \in 0..MaxInits
      /\ clock \in 0..MaxClock
  BY ConstantsAssumption DEF Init, INFO, FATAL
<1>5. m_hLogFile \in Handle
  BY DEF Init, Handle
<1>6. \A p \in Producer : ppc[p] # "idle" => pline[p] \in Line
  BY DEF Init
<1> QED
  BY <1>1, <1>2, <1>3, <1>4, <1>5, <1>6 DEF Init, TypeOK, WriterAt, AdminAt

\* What the shared operations on the file do to its handle and to the disk.
FileType == /\ m_hLogFile \in Handle
            /\ disk \in [FileName -> Seq(Piece)]
            /\ torn \in BOOLEAN
            /\ crashed \in BOOLEAN

\* A line is a piece of itself, and so is what a failing stream takes of it.
LEMMA LineIsPiece ==
  ASSUME NEW line \in Line
  PROVE  /\ line \in Piece /\ line.len \in Nat \ {0}
         /\ \A n \in 1..(line.len - 1) : [line EXCEPT !.len = n] \in Piece
BY ConstantsAssumption DEF Line, Piece

LEMMA PieceType ==
  ASSUME FileType, m_hLogFile.open, NEW piece \in Piece, PutInFile(piece)
  PROVE  disk' \in [FileName -> Seq(Piece)]
<1>1. m_hLogFile.name \in FileName
  BY DEF FileType, Handle, NoFile
<1>2. Append(disk[m_hLogFile.name], piece) \in Seq(Piece)
  BY <1>1 DEF FileType
<1> QED BY <1>1, <1>2 DEF PutInFile, FileType

LEMMA CloseType == ASSUME FileType, CloseOldFile PROVE FileType'
<1>1. CASE m_hLogFile = NoFile
  BY <1>1 DEF FileType, CloseOldFile
<1>2. CASE m_hLogFile # NoFile
  BY <1>2 DEF FileType, CloseOldFile, CloseFile, Handle
<1> QED BY <1>1, <1>2

LEMMA OpenType ==
  ASSUME FileType, clock \in 0..MaxClock, UNCHANGED crashed,
         NEW kind \in {"writer", "fatal"}, OpenFile(kind) \/ OpenFails
  PROVE  FileType'
<1>1. CASE OpenFile(kind)
  <2>1. <<kind, clock>> \in FileName
    BY DEF FileName
  <2>2. m_hLogFile' \in Handle
    BY <1>1, <2>1 DEF OpenFile, Handle
  <2>3. disk' \in [FileName -> Seq(Piece)] /\ torn' \in BOOLEAN
    <3>1. <<>> \in Seq(Piece)
      OBVIOUS
    <3> QED BY <1>1, <2>1, <3>1 DEF OpenFile, FileType
  <2> QED BY <2>2, <2>3 DEF FileType
<1>2. CASE OpenFails
  BY <1>2 DEF OpenFails, FileType, Handle
<1> QED BY <1>1, <1>2

LEMMA WriteType ==
  ASSUME FileType, NEW line \in Line,
         WriteLine(line) \/ WriteFails(line) \/ WriteCrashes
  PROVE  FileType'
<1>1. CASE m_hLogFile.open /\ PutInFile(line) /\ UNCHANGED <<m_hLogFile, torn, crashed>>
  BY <1>1, LineIsPiece, PieceType DEF FileType
<1>2. CASE m_hLogFile.open /\ PutInFilePartly(line) /\ UNCHANGED <<m_hLogFile, crashed>>
  <2>1. disk' \in [FileName -> Seq(Piece)]
    <3>1. CASE UNCHANGED disk
      BY <3>1 DEF FileType
    <3>2. ASSUME NEW n \in 1..(line.len - 1), PutInFile([line EXCEPT !.len = n])
          PROVE  disk' \in [FileName -> Seq(Piece)]
      BY <1>2, <3>2, LineIsPiece, PieceType
    <3> QED BY <1>2, <3>1, <3>2 DEF PutInFilePartly
  <2> QED BY <1>2, <2>1 DEF PutInFilePartly, FileType
<1>3. CASE UNCHANGED fileVars /\ crashed' \in BOOLEAN
  BY <1>3 DEF FileType
<1> QED BY <1>1, <1>2, <1>3 DEF WriteLine, WriteFails, WriteCrashes, FileType

\* No step of a caller, of the write thread or of uninit takes a variable out
\* of its type.
LEMMA TypeCaller ==
  ASSUME TypeOK, ~crashed, NEW p \in Producer, Caller(p) PROVE TypeOK'
<1> USE ConstantsAssumption DEF TypeOK, WriterAt, CallerAt, AdminAt
<1>1. CASE Output(p) \/ OutputBinary(p)
  <2>1. ASSUME NEW len \in LineLength, NEW pc \in {"idle", "fatal", "push"},
               BeginCall(p, len, pc)
        PROVE  TypeOK'
    <3>1. NewLine(len) \in Line
      BY <2>1 DEF BeginCall, NewLine, Line
    <3> QED BY <2>1, <3>1 DEF BeginCall
  <2> QED BY <1>1, <2>1 DEF Output, OutputBinary
<1>2. CASE Push(p)
  BY <1>2 DEF Push, NotifyOne
<1>3. CASE FatalTest(p)
  BY <1>3 DEF FatalTest, FatalStep
<1>4. CASE FatalCloseOld(p)
  <2>1. FileType'
    BY <1>4, CloseType DEF FatalCloseOld, FileType
  <2> QED BY <1>4, <2>1 DEF FatalCloseOld, FatalStep, FileType
<1>5. CASE FatalOpen(p)
  <2>1. FileType'
    BY <1>5, OpenType DEF FatalOpen, FileType
  <2>2. CASE FatalStep(p, "write") /\ UNCHANGED crashed
    BY <1>5, <2>1, <2>2 DEF FatalOpen, FatalStep, FileType
  <2>3. CASE FatalStep(p, "idle") /\ UNCHANGED crashed
    BY <1>5, <2>1, <2>3 DEF FatalStep, FileType
  <2> QED BY <1>5, <2>2, <2>3 DEF FatalOpen
<1>6. CASE FatalWrite(p)
  <2>1. FileType'
    BY <1>6, WriteType DEF FatalWrite, FileType
  <2> QED BY <1>6, <2>1 DEF FatalWrite, FatalStep, FileType
<1>7. CASE Crash(p)
  BY <1>7 DEF Crash
<1> QED BY <1>1, <1>2, <1>3, <1>4, <1>5, <1>6, <1>7 DEF Caller

LEMMA TypeWriter == ASSUME TypeOK, ~crashed, Writer \/ SpuriousWakeup PROVE TypeOK'
<1> USE ConstantsAssumption DEF TypeOK, WriterAt, WriterStep
<1>1. CASE WriterStart
  BY <1>1 DEF WriterStart
<1>2. CASE LoopTop
  BY <1>2 DEF LoopTop
<1>3. CASE WriterCloseOld
  <2>1. FileType'
    BY <1>3, CloseType DEF WriterCloseOld, FileType
  <2> QED BY <1>3, <2>1 DEF WriterCloseOld, FileType
<1>4. CASE WriterOpen
  <2>1. FileType'
    BY <1>4, OpenType DEF WriterOpen, FileType
  <2> QED BY <1>4, <2>1 DEF WriterOpen, FileType
<1>5. CASE PopLine
  BY <1>5, HeadTailProperties DEF PopLine
<1>6. CASE FindEmpty \/ TestExit \/ Sleep \/ SpuriousWakeup
  BY <1>6 DEF FindEmpty, TestExit, Sleep, SpuriousWakeup
<1>7. CASE PrintLine
  BY <1>7 DEF PrintLine
<1>8. CASE WriteToFile
  <2>1. strLine \in Line /\ strLine.len \in Nat
    BY <1>8 DEF WriteToFile, Line
  <2>2. FileType'
    BY <1>8, <2>1, WriteType DEF WriteToFile, FileType
  <2>3. CASE wpc' \in {"loop", "returned"}
    <3>1. m_nCurrentWrittenSize' \in Nat
      BY <1>8, <2>1 DEF WriteToFile
    <3>2. ioFailed' = ioFailed \/ ioFailed' = TRUE
      BY <1>8 DEF WriteToFile
    <3> QED BY <1>8, <2>2, <2>3, <3>1, <3>2 DEF WriteToFile, FileType
  <2>4. CASE wpc' = "write"
    BY <1>8, <2>2, <2>4 DEF WriteToFile, FileType, WriteCrashes
  <2> QED BY <1>8, <2>3, <2>4 DEF WriteToFile
<1> QED BY <1>1, <1>2, <1>3, <1>4, <1>5, <1>6, <1>7, <1>8 DEF Writer

\* The steps of the thread that calls init, setLevel and uninit, and of time.
AdminNext == \/ \E file \in FileArgs : InitLog(file)
             \/ \E level \in SetLevels : SetLevel(level)
             \/ SetExit \/ Uninit \/ Tick

LEMMA TypeAdmin ==
  ASSUME TypeOK, ~crashed, AdminNext
  PROVE  TypeOK'
<1> USE ConstantsAssumption DEF TypeOK, WriterAt, AdminAt, UninitStep
<1>1. ASSUME NEW file \in FileArgs, InitLog(file) PROVE TypeOK'
  <2>1. m_strFileName' \in BOOLEAN
    BY <1>1 DEF InitLog
  <2>2. inits' \in 0..MaxInits
    BY <1>1 DEF InitLog
  <2>3. CASE m_spWriteThread = "joinable"
    BY <1>1, <2>1, <2>2, <2>3 DEF InitLog
  <2>4. CASE m_spWriteThread # "joinable"
    BY <1>1, <2>1, <2>2, <2>4 DEF InitLog
  <2> QED BY <2>3, <2>4
<1>2. CASE SetExit
  BY <1>2 DEF SetExit
<1>3. CASE Uninit
  <2>1. CASE NotifyExit
    BY <2>1 DEF NotifyExit, NotifyOne
  <2>4. CASE Join
    <3>1. m_spWriteThread' \in {"null", "joinable", "joined"} /\ crashed' \in BOOLEAN
      BY <2>4 DEF Join
    <3> QED BY <2>4, <3>1 DEF Join
  <2>2. CASE UninitClose
    <3>1. FileType'
      BY <2>2, CloseType DEF UninitClose, FileType
    <3> QED BY <2>2, <3>1 DEF UninitClose, FileType
  <2>3. CASE UninitClear
    BY <2>3 DEF UninitClear, Handle
  <2> QED BY <1>3, <2>1, <2>2, <2>3, <2>4 DEF Uninit
<1>4. ASSUME NEW level \in SetLevels, SetLevel(level) PROVE TypeOK'
  BY <1>4 DEF SetLevel, FATAL, CRITICAL
<1>5. CASE Tick
  BY <1>5 DEF Tick
<1> QED BY <1>1, <1>2, <1>3, <1>4, <1>5 DEF AdminNext

\* Every variable keeps its type in every behaviour of the logger.
THEOREM TypeCorrect == Spec => []TypeOK
<1>1. TypeOK /\ [Next]_vars => TypeOK'
  <2> SUFFICES ASSUME TypeOK, [Next]_vars PROVE TypeOK'
    OBVIOUS
  <2>1. CASE UNCHANGED vars
    BY <2>1 DEF TypeOK
  <2>2. CASE Next
    BY <2>2, TypeCaller, TypeWriter, TypeAdmin DEF Next, AdminNext
  <2> QED BY <2>1, <2>2
<1> QED BY TypeInit, <1>1, PTL DEF Spec
-----------------------------------------------------------------------------
\* The safety invariant, step by step.  Only Push, PopLine and PrintLine move a
\* line; only the write thread and notify_one move wpc.
LEMMA InvInit == Init => IInv
<1> SUFFICES ASSUME Init PROVE IInv
  OBVIOUS
<1>1. LinesConserved
  BY DEF Init, LinesConserved, InHand
<1>2. NoMissedWakeup /\ ThreadObjectTracks /\ ReturnDrains
  BY DEF Init, NoMissedWakeup, ThreadObjectTracks, ReturnDrains
<1> QED BY <1>1, <1>2 DEF IInv

\* A step that leaves the list, the histories, the write thread and uninit's
\* variables as they are preserves the invariant.
LEMMA InvFrame ==
  ASSUME IInv, UNCHANGED <<queueVars, exitVars, writerVars, m_spWriteThread, wpc>>
  PROVE  IInv'
BY DEF IInv, LinesConserved, InHand, NoMissedWakeup, ThreadObjectTracks, ReturnDrains

\* push_back and notify_one under the mutex.
LEMMA InvPush ==
  ASSUME TypeOK, IInv, ~crashed, NEW p \in Producer, Push(p) PROVE IInv'
<1>1. pline[p] \in Line
  BY DEF TypeOK, Push
<1>2. LinesConserved'
  <2>1. InHand' = InHand /\ InHand \in Seq(Line)
    BY DEF Push, NotifyOne, InHand, TypeOK
  <2>2. console \o InHand \in Seq(Line)
    BY <2>1, ConcatProperties DEF TypeOK
  <2>3. accepted' = ((console \o InHand) \o m_listLinesToWrite) \o <<pline[p]>>
    BY <1>1, AppendIsConcat DEF TypeOK, IInv, LinesConserved, Push
  <2>4. m_listLinesToWrite' = m_listLinesToWrite \o <<pline[p]>>
    BY <1>1, AppendIsConcat DEF TypeOK, Push
  <2>5. accepted' = (console \o InHand) \o m_listLinesToWrite'
    <3>1. <<pline[p]>> \in Seq(Line) /\ m_listLinesToWrite \in Seq(Line)
      BY <1>1 DEF TypeOK
    <3> QED BY <2>2, <2>3, <2>4, <3>1, ConcatAssociative
  <2>6. console' = console
    BY DEF Push
  <2> QED BY <2>1, <2>5, <2>6 DEF LinesConserved
<1>3. NoMissedWakeup'
  BY DEF Push, NotifyOne, MutexFree, NoMissedWakeup
<1>4. ThreadObjectTracks'
  BY DEF IInv, ThreadObjectTracks, Push, NotifyOne
<1>5. ReturnDrains'
  BY <1>1, AppendProperties DEF TypeOK, IInv, ReturnDrains, Push, NotifyOne
<1> QED BY <1>2, <1>3, <1>4, <1>5 DEF IInv

LEMMA InvCaller ==
  ASSUME TypeOK, IInv, ~crashed, NEW p \in Producer, Caller(p) PROVE IInv'
<1>1. CASE Push(p)
  BY <1>1, InvPush
<1>2. CASE Output(p) \/ OutputBinary(p)
  BY <1>2, InvFrame DEF Output, OutputBinary, BeginCall
<1>3. CASE FatalTest(p) \/ FatalCloseOld(p) \/ FatalOpen(p) \/ FatalWrite(p)
  BY <1>3, InvFrame DEF FatalTest, FatalCloseOld, FatalOpen, FatalWrite, FatalStep
<1>4. CASE Crash(p)
  BY <1>4, InvFrame DEF Crash
<1> QED BY <1>1, <1>2, <1>3, <1>4 DEF Caller

LEMMA InvPop == ASSUME TypeOK, IInv, PopLine PROVE IInv'
<1>1. LinesConserved'
  <2>1. /\ Head(m_listLinesToWrite) \in Line
        /\ Tail(m_listLinesToWrite) \in Seq(Line)
        /\ m_listLinesToWrite = <<Head(m_listLinesToWrite)>> \o Tail(m_listLinesToWrite)
    BY HeadTailProperties DEF TypeOK, PopLine
  <2>2. InHand = <<>> /\ InHand' = <<Head(m_listLinesToWrite)>>
    BY DEF PopLine, InHand
  <2>3. accepted = console \o m_listLinesToWrite
    BY <2>2, ConcatEmptySeq DEF TypeOK, IInv, LinesConserved
  <2>4. accepted = (console \o <<Head(m_listLinesToWrite)>>) \o Tail(m_listLinesToWrite)
    BY <2>1, <2>3, ConcatAssociative DEF TypeOK
  <2> QED BY <2>2, <2>4 DEF PopLine, LinesConserved
<1>2. NoMissedWakeup' /\ ThreadObjectTracks' /\ ReturnDrains'
  BY DEF PopLine, NoMissedWakeup, IInv, ThreadObjectTracks, ReturnDrains
<1> QED BY <1>1, <1>2 DEF IInv

LEMMA InvPrint == ASSUME TypeOK, IInv, ~crashed, PrintLine PROVE IInv'
<1>1. strLine \in Line /\ InHand = <<strLine>> /\ InHand' = <<>>
  BY DEF TypeOK, PrintLine, WriterStep, InHand
<1>2. console' = console \o <<strLine>> /\ console' \in Seq(Line)
  BY <1>1, AppendIsConcat DEF TypeOK, PrintLine
<1>3. LinesConserved'
  BY <1>1, <1>2, ConcatEmptySeq
  DEF TypeOK, IInv, LinesConserved, PrintLine, WriterStep
<1>4. NoMissedWakeup' /\ ThreadObjectTracks'
  BY DEF PrintLine, WriterStep, NoMissedWakeup, IInv, ThreadObjectTracks
<1>5. ReturnDrains'
  BY DEF PrintLine, WriterStep, IInv, ReturnDrains
<1> QED BY <1>3, <1>4, <1>5 DEF IInv

\* The thread returns from its loop with the list empty and nothing in hand, so
\* everything accepted has been printed.
LEMMA InvTestExit == ASSUME TypeOK, IInv, TestExit PROVE IInv'
<1>1. m_listLinesToWrite = <<>> /\ InHand = <<>> /\ InHand' = <<>>
  BY DEF TestExit, WriterStep, IInv, NoMissedWakeup, InHand
<1>2. console = accepted
  BY <1>1, ConcatEmptySeq DEF TypeOK, IInv, LinesConserved
<1>3. LinesConserved'
  BY <1>1 DEF IInv, LinesConserved, TestExit, WriterStep
<1>4. NoMissedWakeup' /\ ThreadObjectTracks'
  BY <1>1 DEF TestExit, WriterStep, NoMissedWakeup, IInv, ThreadObjectTracks
<1>5. ReturnDrains'
  BY <1>2 DEF TestExit, WriterStep, IInv, ReturnDrains
<1> QED BY <1>3, <1>4, <1>5 DEF IInv

LEMMA InvWriter ==
  ASSUME TypeOK, IInv, ~crashed, Writer \/ SpuriousWakeup PROVE IInv'
<1>1. CASE PopLine
  BY <1>1, InvPop
<1>2. CASE PrintLine
  BY <1>2, InvPrint
<1>3. CASE TestExit
  BY <1>3, InvTestExit
<1>4. CASE \/ WriterStart \/ LoopTop \/ WriterCloseOld \/ WriterOpen
           \/ FindEmpty \/ Sleep \/ SpuriousWakeup \/ WriteToFile
  <2>1. InHand = <<>> /\ InHand' = <<>> /\ UNCHANGED <<queueVars, console>>
    BY <1>4 DEF WriterStart, LoopTop, WriterCloseOld, WriterOpen, FindEmpty, Sleep,
                SpuriousWakeup, WriteToFile, WriterStep, InHand
  <2>2. LinesConserved'
    BY <2>1 DEF IInv, LinesConserved
  <2>3. NoMissedWakeup' /\ ThreadObjectTracks' /\ ReturnDrains'
    BY <1>4, <2>1 DEF WriterStart, LoopTop, WriterCloseOld, WriterOpen, FindEmpty,
       Sleep, SpuriousWakeup, WriteToFile, WriterStep, NoMissedWakeup, IInv,
       ThreadObjectTracks, ReturnDrains
  <2> QED BY <2>2, <2>3 DEF IInv
<1> QED BY <1>1, <1>2, <1>3, <1>4 DEF Writer

LEMMA InvAdmin ==
  ASSUME TypeOK, IInv, AdminNext
  PROVE  IInv'
<1>1. ASSUME NEW file \in FileArgs, InitLog(file) PROVE IInv'
  <2>1. InHand' = InHand
    BY <1>1 DEF InitLog, InHand, IInv, ThreadObjectTracks, TypeOK
  <2> QED BY <1>1, <2>1 DEF InitLog, IInv, LinesConserved, NoMissedWakeup,
             ThreadObjectTracks, ReturnDrains
<1>2. CASE SetExit
  BY <1>2 DEF SetExit, UninitStep, TypeOK, IInv, LinesConserved, InHand, NoMissedWakeup,
              ThreadObjectTracks, ReturnDrains
<1>3. CASE NotifyExit
  BY <1>3 DEF NotifyExit, UninitStep, NotifyOne, IInv, LinesConserved, InHand,
              NoMissedWakeup, ThreadObjectTracks, ReturnDrains
<1>4. CASE Join
  BY <1>4 DEF Join, UninitStep, TypeOK, IInv, LinesConserved, InHand, NoMissedWakeup,
              ThreadObjectTracks, ReturnDrains
<1>5. CASE UninitClose \/ UninitClear
  BY <1>5, InvFrame DEF UninitClose, UninitClear, UninitStep
<1>6. CASE Tick \/ \E level \in SetLevels : SetLevel(level)
  BY <1>6, InvFrame DEF SetLevel, Tick
<1> QED BY <1>1, <1>2, <1>3, <1>4, <1>5, <1>6 DEF AdminNext, Uninit

\* The inductive invariant holds in every behaviour.
THEOREM Safety == Spec => []IInv
<1>1. TypeOK /\ IInv /\ [Next]_vars => IInv'
  <2> SUFFICES ASSUME TypeOK, IInv, [Next]_vars PROVE IInv'
    OBVIOUS
  <2>1. CASE UNCHANGED vars
    BY <2>1, InvFrame
  <2>2. CASE Next
    BY <2>2, InvCaller, InvWriter, InvAdmin DEF Next, AdminNext
  <2> QED BY <2>1, <2>2
<1> QED BY InvInit, TypeCorrect, <1>1, PTL DEF Spec

\* No line pushed on the list is lost, duplicated or overtaken on its way to the
\* console.
THEOREM LinesAreConserved == Spec => []LinesConserved
<1>1. IInv => LinesConserved
  BY DEF IInv
<1> QED BY Safety, <1>1, PTL

\* The write thread never sleeps on a list that has lines.
THEOREM WakeupsAreNotMissed == Spec => []NoMissedWakeup
<1>1. IInv => NoMissedWakeup
  BY DEF IInv
<1> QED BY Safety, <1>1, PTL

\* When uninit has joined the write thread, what was pushed before the exit flag
\* was first set is out.
THEOREM UninitDrains == Spec => []ExitDrains
<1>1. IInv => ExitDrains
  BY DEF IInv, ExitDrains, ThreadObjectTracks, ReturnDrains
<1> QED BY Safety, <1>1, PTL

\* The logger implements the ordered delivery service: Push is Accept, PrintLine
\* is Deliver, every other step stutters.
THEOREM Implements == Spec => ImplementsService
<1>1. Init => Service!SInit
  BY DEF Init, Service!SInit
<1>2. TypeOK /\ IInv /\ [Next]_vars => [Service!SNext]_<<accepted, console>>
  <2> SUFFICES ASSUME TypeOK, IInv, Next
               PROVE  Service!SNext \/ UNCHANGED <<accepted, console>>
    OBVIOUS
  <2>1. ASSUME NEW p \in Producer, Push(p) PROVE Service!Accept
    BY <2>1 DEF Push, TypeOK, Service!Accept
  <2>2. CASE PrintLine
    <3>1. strLine \in Line /\ InHand = <<strLine>>
      BY <2>2 DEF Next, TypeOK, PrintLine, WriterStep, InHand
    <3>2. accepted = (console \o <<strLine>>) \o m_listLinesToWrite
      BY <3>1, ConcatAssociative DEF TypeOK, IInv, LinesConserved
    <3>3. Len(console) < Len(accepted) /\ accepted[Len(console) + 1] = strLine
      BY <3>1, <3>2, ConcatProperties DEF TypeOK
    <3>4. console' = Append(console, strLine) /\ accepted' = accepted
      BY <2>2 DEF PrintLine, WriterStep
    <3> QED BY <3>3, <3>4 DEF Service!Deliver, Service!SNext
  <2>3. ASSUME NEW p \in Producer, Caller(p), ~Push(p)
        PROVE  UNCHANGED <<accepted, console>>
    BY <2>3 DEF Caller, Output, OutputBinary, BeginCall, FatalTest, FatalCloseOld,
                FatalOpen, FatalWrite, FatalStep, Crash
  <2>4. ASSUME Writer \/ SpuriousWakeup, ~PrintLine
        PROVE  UNCHANGED <<accepted, console>>
    BY <2>4 DEF Writer, WriterStart, LoopTop, WriterCloseOld, WriterOpen, PopLine,
                FindEmpty, TestExit, Sleep, SpuriousWakeup, WriteToFile, WriterStep
  <2>5. CASE AdminNext
    BY <2>5 DEF AdminNext, InitLog, SetExit, Uninit, NotifyExit, Join, UninitClose,
                UninitClear, UninitStep, SetLevel, Tick
  <2> QED BY <2>1, <2>2, <2>3, <2>4, <2>5 DEF Next, AdminNext, Service!SNext
<1> QED
  BY <1>1, <1>2, TypeCorrect, Safety, PTL
  DEF Spec, ImplementsService, Service!SSpec, Service!svars
=============================================================================
