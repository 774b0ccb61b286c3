------------------------------ MODULE AsyncLog ------------------------------
(***************************************************************************)
(* CAsyncLog (src/base/AsyncLog.h, src/base/AsyncLog.cpp): callers push    *)
(* lines on a list under a mutex, one write thread pops them, prints them  *)
(* and appends them to a file that it rolls by size.  init starts that     *)
(* thread, uninit asks it to leave and joins it.  A FATAL line bypasses    *)
(* the list: the caller itself writes it, without the mutex, and crashes   *)
(* the process.                                                            *)
(*                                                                         *)
(* A step is what one thread does between two points at which another      *)
(* thread can see or change what it uses.  The mutex is held across steps  *)
(* by the write thread only, between the moment it finds the list empty    *)
(* and the moment it sleeps or leaves.  A FILE* that was closed but is     *)
(* still in m_hLogFile is kept with open = FALSE: using it is undefined    *)
(* behaviour, and every outcome a build can show is allowed.               *)
(***************************************************************************)
EXTENDS Integers, Sequences, SequencesExt

CONSTANTS
  Producer,     \* the threads that log
  LineLength,   \* the lengths of the lines they log
  CallLevel,    \* the levels they log at
  SetLevels,    \* the arguments given to setLevel
  FileArgs,     \* the arguments given to init: is there a file name?
  RollSize,     \* m_nFileRollSize
  MaxCalls,     \* bound: calls of output and outputBinary
  MaxInits,     \* bound: calls of init
  MaxClock      \* bound: seconds that pass

FATAL    == 6   \* LOG_LEVEL_FATAL
CRITICAL == 7   \* LOG_LEVEL_CRITICAL
INFO     == 2   \* LOG_LEVEL_INFO

ASSUME ConstantsAssumption ==
  /\ LineLength \subseteq Nat \ {0}
  /\ CallLevel \subseteq 0..CRITICAL
  /\ SetLevels \subseteq 0..CRITICAL
  /\ FileArgs \subseteq BOOLEAN
  /\ RollSize \in Nat
  /\ MaxCalls \in Nat
  /\ MaxInits \in Nat
  /\ MaxClock \in Nat

\* A line is identified by the number of the call that logs it.
Line   == [no : 1..MaxCalls, len : LineLength]
NoLine == [no |-> 0, len |-> 0]

\* What is in a file of a line: all of it, or some of its bytes.
Piece  == [no : 1..MaxCalls, len : Nat]

\* The name of a log file: the time it was created, in seconds, in the format
\* of the write thread ("%s") or in that of a FATAL call ("%S").
FileName == {"writer", "fatal"} \X (0..MaxClock)

NoFile == [name |-> <<"none", 0>>, open |-> FALSE]   \* m_hLogFile == nullptr
Handle == [name : FileName, open : BOOLEAN] \cup {NoFile}

VARIABLES
  m_listLinesToWrite,    \* the lines waiting for the write thread
  m_hLogFile,            \* the FILE* all threads share
  m_nCurrentWrittenSize, \* bytes written to the current file
  m_strFileName,         \* is the file name not empty?
  m_bExit,               \* set by uninit, never reset
  m_bRunning,            \* set by the write thread
  m_nCurrentLevel,       \* set by setLevel
  m_spWriteThread,       \* "null", "joinable" or "joined"
  wpc, strLine,          \* the write thread: where it is, the line it popped
  ppc, pline,            \* each caller: where it is, its line
  calls,                 \* calls begun so far
  apc, inits,            \* the thread that calls init and uninit, calls of init
  clock,                 \* the current second
  disk,                  \* the content of every log file
  torn,                  \* history: a line did not get into the current file whole
  crashed,               \* the process is gone
  accepted,              \* history: the lines pushed on the list
  console,               \* history: the lines the write thread printed
  atExit,                \* history: Len(accepted) when m_bExit was first set
  ioFailed               \* history: the write thread left on a file error

queueVars  == <<m_listLinesToWrite, accepted>>
fileVars   == <<m_hLogFile, disk, torn>>
flagVars   == <<m_bRunning, m_nCurrentLevel>>
exitVars   == <<m_bExit, atExit>>
writerVars == <<strLine, console, m_nCurrentWrittenSize, ioFailed>>
callVars   == <<ppc, pline, calls>>
adminVars  == <<apc, inits, m_spWriteThread, m_strFileName>>

vars == <<queueVars, fileVars, flagVars, exitVars, writerVars, callVars,
          adminVars, wpc, clock, crashed>>

WriterAt == {"none", "start", "loop", "close", "open", "lock", "check", "wait",
             "waiting", "print", "write", "returned"}
CallerAt == {"idle", "push", "fatal", "create", "open", "write", "crash"}
AdminAt  == {"idle", "notify", "join", "close", "clear"}

Init ==
  /\ m_listLinesToWrite = <<>> /\ accepted = <<>> /\ console = <<>>
  /\ m_hLogFile = NoFile       /\ disk = [n \in FileName |-> <<>>]
  /\ torn = FALSE
  /\ m_nCurrentWrittenSize = 0 /\ strLine = NoLine
  /\ m_bExit = FALSE           /\ atExit = 0
  /\ m_bRunning = FALSE        /\ m_nCurrentLevel = INFO
  /\ m_strFileName = TRUE      /\ m_spWriteThread = "null"
  /\ apc = "idle"              /\ inits = 0
  /\ wpc = "none"              /\ ioFailed = FALSE
  /\ ppc = [p \in Producer |-> "idle"]
  /\ pline = [p \in Producer |-> NoLine]
  /\ calls = 0 /\ clock = 0    /\ crashed = FALSE
-----------------------------------------------------------------------------
\* Mutant: the lock_guard of the callers is forgotten.
MutexIgnored == TRUE

\* The mutex is free for a caller, or for the write thread coming back to it.
MutexFree == wpc \notin {"check", "wait"}

\* Mutant: nobody is notified.
NotifyNobody == UNCHANGED wpc

\* m_cvWrite.notify_one(): only the write thread ever waits.
NotifyOne == wpc' = IF wpc = "waiting" THEN "lock" ELSE wpc

\* fclose(m_hLogFile): closing a stream twice is undefined.
CloseFile == /\ m_hLogFile' = [m_hLogFile EXCEPT !.open = FALSE]
             /\ \/ UNCHANGED crashed
                \/ ~m_hLogFile.open /\ crashed' = TRUE
             /\ UNCHANGED <<disk, torn>>

\* The test and the fclose at the head of createNewFile.
CloseOldFile == IF m_hLogFile = NoFile THEN UNCHANGED <<fileVars, crashed>>
                                       ELSE CloseFile

\* fopen(name, "w+") empties a file that exists.
OpenFile(kind) == /\ m_hLogFile' = [name |-> <<kind, clock>>, open |-> TRUE]
                  /\ disk' = [disk EXCEPT ![<<kind, clock>>] = <<>>]
                  /\ torn' = FALSE

OpenFails == m_hLogFile' = NoFile /\ UNCHANGED <<disk, torn>>

PutInFile(piece) == disk' = [disk EXCEPT ![m_hLogFile.name] = Append(@, piece)]

\* A stream that fails part way has put some bytes of the line in the file, or none.
PutInFilePartly(line) ==
  /\ torn' = TRUE
  /\ \/ UNCHANGED disk
     \/ \E n \in 1..(line.len - 1) : PutInFile([line EXCEPT !.len = n])

\* writeToFile returns true.  The result of fflush is not looked at, and what it
\* could not write is gone; what goes to a closed stream reaches no file.
WriteLine(line) ==
  /\ m_hLogFile # NoFile
  /\ \/ m_hLogFile.open /\ PutInFile(line) /\ UNCHANGED torn
     \/ m_hLogFile.open /\ PutInFilePartly(line)
     \/ ~m_hLogFile.open /\ UNCHANGED <<disk, torn>>
  /\ UNCHANGED <<m_hLogFile, crashed>>

\* writeToFile returns false: fwrite failed, maybe after it had taken a part.
WriteFails(line) ==
  /\ m_hLogFile # NoFile
  /\ \/ m_hLogFile.open /\ PutInFilePartly(line)
     \/ ~m_hLogFile.open /\ UNCHANGED <<disk, torn>>
  /\ UNCHANGED <<m_hLogFile, crashed>>

\* fwrite to a null or to a closed stream takes the process down.
WriteCrashes == /\ ~m_hLogFile.open
                /\ crashed' = TRUE
                /\ UNCHANGED fileVars
-----------------------------------------------------------------------------
(* The callers: output, outputBinary.                                      *)

NewLine(len) == [no |-> calls + 1, len |-> len]

Suppressed(level) == level # CRITICAL /\ m_nCurrentLevel > level

BeginCall(p, len, pc) ==
  /\ ppc[p] = "idle" /\ calls < MaxCalls
  /\ ppc' = [ppc EXCEPT ![p] = pc]
  /\ pline' = [pline EXCEPT ![p] = IF pc = "idle" THEN NoLine ELSE NewLine(len)]
  /\ calls' = calls + 1
  /\ UNCHANGED <<queueVars, fileVars, flagVars, exitVars, writerVars, adminVars,
                 wpc, clock, crashed>>

\* output: the level test, then the line is put together; a FATAL line is
\* printed by the caller itself.
Output(p) == \E level \in CallLevel, len \in LineLength :
  BeginCall(p, len, CASE Suppressed(level) -> "idle"
                      [] ~Suppressed(level) /\ level = FATAL -> "fatal"
                      [] OTHER -> "push")

\* outputBinary: no level test.
OutputBinary(p) == \E len \in LineLength : BeginCall(p, len, "push")

\* Mutant: push_front.
PushFront(p) ==
  /\ ppc[p] = "push" /\ MutexFree
  /\ m_listLinesToWrite' = <<pline[p]>> \o m_listLinesToWrite
  /\ accepted' = Append(accepted, pline[p])
  /\ NotifyOne
  /\ ppc' = [ppc EXCEPT ![p] = "idle"]
  /\ pline' = [pline EXCEPT ![p] = NoLine]
  /\ UNCHANGED <<fileVars, flagVars, exitVars, writerVars, adminVars, calls,
                 clock, crashed>>

\* The end of both: push_back and notify_one inside the lock_guard.
Push(p) ==
  /\ ppc[p] = "push" /\ MutexFree
  /\ m_listLinesToWrite' = Append(m_listLinesToWrite, pline[p])
  /\ accepted' = Append(accepted, pline[p])
  /\ NotifyOne
  /\ ppc' = [ppc EXCEPT ![p] = "idle"]
  /\ pline' = [pline EXCEPT ![p] = NoLine]
  /\ UNCHANGED <<fileVars, flagVars, exitVars, writerVars, adminVars, calls,
                 clock, crashed>>

\* What the steps of a FATAL call leave alone.
FatalStep(p, pc) ==
  /\ ppc' = [ppc EXCEPT ![p] = pc]
  /\ pline' = IF pc = "idle" THEN [pline EXCEPT ![p] = NoLine] ELSE pline
  /\ UNCHANGED <<queueVars, flagVars, exitVars, writerVars, adminVars, calls,
                 wpc, clock>>

\* Is there a file to write to, and is it open?
FatalTest(p) ==
  /\ ppc[p] = "fatal"
  /\ FatalStep(p, IF ~m_strFileName THEN "crash"
                  ELSE IF m_hLogFile = NoFile THEN "create" ELSE "write")
  /\ UNCHANGED <<fileVars, crashed>>

FatalCloseOld(p) == ppc[p] = "create" /\ FatalStep(p, "open") /\ CloseOldFile

\* If the file cannot be created the call returns false.
FatalOpen(p) ==
  /\ ppc[p] = "open"
  /\ \/ FatalStep(p, "write") /\ OpenFile("fatal")
     \/ FatalStep(p, "idle") /\ OpenFails
  /\ UNCHANGED crashed

\* Mutant: the call returns when the line could not be written.
FatalWriteTested(p) ==
  /\ ppc[p] = "write"
  /\ \/ FatalStep(p, "crash") /\ (WriteLine(pline[p]) \/ WriteCrashes)
     \/ FatalStep(p, "idle") /\ WriteFails(pline[p])

\* The result of writeToFile is not looked at.
FatalWrite(p) ==
  /\ ppc[p] = "write" /\ FatalStep(p, "crash")
  /\ WriteLine(pline[p]) \/ WriteFails(pline[p]) \/ WriteCrashes

Crash(p) ==
  /\ ppc[p] = "crash"
  /\ crashed' = TRUE
  /\ UNCHANGED <<queueVars, fileVars, flagVars, exitVars, writerVars, callVars,
                 adminVars, wpc, clock>>
-----------------------------------------------------------------------------
(* The write thread: writeThreadProc.                                      *)

\* What the steps of the write thread that do not touch the list leave alone.
WriterStep(from, to) ==
  /\ wpc = from /\ wpc' = to
  /\ UNCHANGED <<queueVars, m_nCurrentLevel, exitVars, callVars, adminVars, clock>>

WriterStart ==
  /\ WriterStep("start", "loop")
  /\ m_bRunning' = TRUE
  /\ UNCHANGED <<fileVars, writerVars, crashed>>

\* Mutant: roll only when the size is exceeded.
NeedsFileLate ==
  m_strFileName /\ (m_hLogFile = NoFile \/ m_nCurrentWrittenSize > RollSize)

\* A file is created at the first pass and when the current one is full.
NeedsFile == m_strFileName /\ (m_hLogFile = NoFile \/ m_nCurrentWrittenSize >= RollSize)

\* Mutant: the written size is not reset when a file is created.
LoopTopNoReset ==
  /\ WriterStep("loop", IF NeedsFile THEN "close" ELSE "lock")
  /\ UNCHANGED <<fileVars, m_bRunning, writerVars, crashed>>

LoopTop ==
  /\ WriterStep("loop", IF NeedsFile THEN "close" ELSE "lock")
  /\ m_nCurrentWrittenSize' = IF NeedsFile THEN 0 ELSE m_nCurrentWrittenSize
  /\ UNCHANGED <<fileVars, m_bRunning, strLine, console, ioFailed, crashed>>

WriterCloseOld ==
  /\ WriterStep("close", "open") /\ CloseOldFile
  /\ UNCHANGED <<m_bRunning, writerVars>>

WriterOpen ==
  /\ \/ /\ WriterStep("open", "lock") /\ OpenFile("writer")
        /\ UNCHANGED ioFailed
     \/ WriterStep("open", "returned") /\ OpenFails /\ ioFailed' = TRUE
  /\ UNCHANGED <<m_bRunning, strLine, console, m_nCurrentWrittenSize, crashed>>

\* Mutant: front() without pop_front() when the list has one line left.
PopKeepsLast ==
  /\ wpc = "lock" /\ m_listLinesToWrite # <<>>
  /\ strLine' = Head(m_listLinesToWrite)
  /\ m_listLinesToWrite' = IF Len(m_listLinesToWrite) = 1 THEN m_listLinesToWrite
                           ELSE Tail(m_listLinesToWrite)
  /\ wpc' = "print"
  /\ UNCHANGED <<accepted, fileVars, flagVars, exitVars, callVars, adminVars,
                 console, m_nCurrentWrittenSize, ioFailed, clock, crashed>>

\* The mutex is taken and the list is not empty: pop, and release the mutex.
PopLine ==
  /\ wpc = "lock" /\ m_listLinesToWrite # <<>>
  /\ strLine' = Head(m_listLinesToWrite)
  /\ m_listLinesToWrite' = Tail(m_listLinesToWrite)
  /\ wpc' = "print"
  /\ UNCHANGED <<accepted, fileVars, flagVars, exitVars, callVars, adminVars,
                 console, m_nCurrentWrittenSize, ioFailed, clock, crashed>>

\* Mutant: the exit flag is tested before the list.
ExitBeforeEmpty ==
  /\ m_listLinesToWrite = <<>> \/ m_bExit
  /\ WriterStep("lock", "check")
  /\ UNCHANGED <<fileVars, m_bRunning, writerVars, crashed>>

\* The mutex is taken and the list is empty: the mutex stays held.
FindEmpty ==
  /\ m_listLinesToWrite = <<>> /\ WriterStep("lock", "check")
  /\ UNCHANGED <<fileVars, m_bRunning, writerVars, crashed>>

\* if (m_bExit) return; uninit may set the flag and notify right after this.
TestExit ==
  /\ WriterStep("check", IF m_bExit THEN "returned" ELSE "wait")
  /\ UNCHANGED <<fileVars, m_bRunning, writerVars, crashed>>

\* m_cvWrite.wait: release the mutex and sleep in one step.
Sleep ==
  /\ WriterStep("wait", "waiting")
  /\ UNCHANGED <<fileVars, m_bRunning, writerVars, crashed>>

SpuriousWakeup ==
  /\ WriterStep("waiting", "lock")
  /\ UNCHANGED <<fileVars, m_bRunning, writerVars, crashed>>

PrintLine ==
  /\ WriterStep("print", IF m_strFileName THEN "write" ELSE "loop")
  /\ console' = Append(console, strLine)
  /\ strLine' = IF m_strFileName THEN strLine ELSE NoLine
  /\ UNCHANGED <<fileVars, m_bRunning, m_nCurrentWrittenSize, ioFailed, crashed>>

WriteToFile ==
  /\ \/ /\ WriterStep("write", "loop") /\ WriteLine(strLine)
        /\ m_nCurrentWrittenSize' = m_nCurrentWrittenSize + strLine.len
        /\ UNCHANGED ioFailed
     \/ /\ WriterStep("write", "returned") /\ WriteFails(strLine) /\ ioFailed' = TRUE
        /\ UNCHANGED m_nCurrentWrittenSize
     \/ /\ WriterStep("write", "write") /\ WriteCrashes
        /\ UNCHANGED <<m_nCurrentWrittenSize, ioFailed>>
  /\ strLine' = NoLine
  /\ UNCHANGED <<m_bRunning, console>>
-----------------------------------------------------------------------------
(* The thread that calls init, setLevel and uninit.                        *)

\* Destroying a std::thread that was not joined terminates the process.
InitLog(file) ==
  /\ apc = "idle" /\ inits < MaxInits
  /\ inits' = inits + 1 /\ m_strFileName' = file
  /\ IF m_spWriteThread = "joinable"
     THEN crashed' = TRUE /\ UNCHANGED <<m_spWriteThread, wpc>>
     ELSE m_spWriteThread' = "joinable" /\ wpc' = "start" /\ UNCHANGED crashed
  /\ UNCHANGED <<queueVars, fileVars, flagVars, exitVars, writerVars, callVars,
                 apc, clock>>

\* Mutant: the level is stored whatever it is.
SetLevelUnchecked(level) ==
  /\ apc = "idle"
  /\ m_nCurrentLevel' = level
  /\ UNCHANGED <<queueVars, fileVars, m_bRunning, exitVars, writerVars, callVars,
                 adminVars, wpc, clock, crashed>>

SetLevel(level) ==
  /\ apc = "idle"
  /\ m_nCurrentLevel' = IF level <= FATAL THEN level ELSE m_nCurrentLevel
  /\ UNCHANGED <<queueVars, fileVars, m_bRunning, exitVars, writerVars, callVars,
                 adminVars, wpc, clock, crashed>>

\* What the steps of uninit leave alone.
UninitStep(from, to) ==
  /\ apc = from /\ apc' = to
  /\ UNCHANGED <<queueVars, flagVars, writerVars, callVars, inits,
                 m_strFileName, clock>>

\* m_bExit is set without the mutex.
SetExit ==
  /\ UninitStep("idle", "notify")
  /\ m_bExit' = TRUE
  /\ atExit' = IF m_bExit THEN atExit ELSE Len(accepted)
  /\ UNCHANGED <<fileVars, m_spWriteThread, wpc, crashed>>

NotifyExit ==
  /\ UninitStep("notify", "join") /\ NotifyOne
  /\ UNCHANGED <<fileVars, exitVars, m_spWriteThread, crashed>>

\* join blocks until the write thread has returned; without a thread object
\* the call goes through a null pointer.
Join ==
  /\ UninitStep("join", "close")
  /\ m_spWriteThread = "joinable" => wpc = "returned"
  /\ IF m_spWriteThread = "null"
     THEN crashed' = TRUE /\ UNCHANGED m_spWriteThread
     ELSE m_spWriteThread' = "joined" /\ UNCHANGED crashed
  /\ UNCHANGED <<fileVars, exitVars, wpc>>

UninitClose ==
  /\ UninitStep("close", IF m_hLogFile = NoFile THEN "idle" ELSE "clear")
  /\ CloseOldFile
  /\ UNCHANGED <<exitVars, m_spWriteThread, wpc>>

UninitClear ==
  /\ UninitStep("clear", "idle")
  /\ m_hLogFile' = NoFile
  /\ UNCHANGED <<disk, torn, exitVars, m_spWriteThread, wpc, crashed>>

Tick ==
  /\ clock < MaxClock /\ clock' = clock + 1
  /\ UNCHANGED <<queueVars, fileVars, flagVars, exitVars, writerVars, callVars,
                 adminVars, wpc, crashed>>
-----------------------------------------------------------------------------
Caller(p) == \/ Output(p) \/ OutputBinary(p) \/ Push(p)
             \/ FatalTest(p) \/ FatalCloseOld(p) \/ FatalOpen(p)
             \/ FatalWrite(p) \/ Crash(p)

Writer == \/ WriterStart \/ LoopTop \/ WriterCloseOld \/ WriterOpen
          \/ PopLine \/ FindEmpty \/ TestExit \/ Sleep
          \/ PrintLine \/ WriteToFile

Uninit == NotifyExit \/ Join \/ UninitClose \/ UninitClear

Next == /\ ~crashed
        /\ \/ \E p \in Producer : Caller(p)
           \/ Writer \/ SpuriousWakeup
           \/ \E file \in FileArgs : InitLog(file)
           \/ SetExit \/ Uninit
           \/ \E level \in SetLevels : SetLevel(level)
           \/ Tick

Spec == Init /\ [][Next]_vars

\* The scheduler runs every thread that can run: the write thread, and a call
\* that has begun.  Nothing makes a caller begin a call, a clock tick or a
\* sleeping thread wake by itself.
Fairness == /\ WF_vars(~crashed /\ Writer)
            /\ WF_vars(~crashed /\ Uninit)
            /\ \A p \in Producer : WF_vars(~crashed /\ ppc[p] # "idle" /\ Caller(p))

FairSpec == Spec /\ Fairness
-----------------------------------------------------------------------------
(* Properties.                                                             *)

TypeOK ==
  /\ m_listLinesToWrite \in Seq(Line) /\ accepted \in Seq(Line)
  /\ console \in Seq(Line)
  /\ m_hLogFile \in Handle
  /\ disk \in [FileName -> Seq(Piece)] /\ torn \in BOOLEAN
  /\ m_nCurrentWrittenSize \in Nat
  /\ m_strFileName \in BOOLEAN
  /\ m_bExit \in BOOLEAN /\ atExit \in Nat
  /\ m_bRunning \in BOOLEAN /\ m_nCurrentLevel \in 0..FATAL
  /\ m_spWriteThread \in {"null", "joinable", "joined"}
  /\ wpc \in WriterAt /\ strLine \in Line \cup {NoLine}
  /\ (wpc \in {"print", "write"} /\ ~crashed) => strLine \in Line
  /\ ppc \in [Producer -> CallerAt]
  /\ pline \in [Producer -> Line \cup {NoLine}]
  /\ \A p \in Producer : ppc[p] # "idle" => pline[p] \in Line
  /\ calls \in 0..MaxCalls
  /\ apc \in AdminAt /\ inits \in 0..MaxInits
  /\ clock \in 0..MaxClock
  /\ crashed \in BOOLEAN /\ ioFailed \in BOOLEAN

\* The line the write thread has popped and not yet printed.
InHand == IF wpc = "print" THEN <<strLine>> ELSE <<>>

\* No line that was pushed is lost, duplicated or overtaken between the list,
\* the local strLine of writeThreadProc and the console.
LinesConserved == accepted = console \o InHand \o m_listLinesToWrite

\* The logger implements the ordered delivery service.
Service == INSTANCE LogService WITH Line <- Line, accepted <- accepted,
                                    delivered <- console
ImplementsService == Service!SSpec

\* The write thread never sleeps, nor is about to, on a list that has lines:
\* notify_one is called under the mutex the thread holds from its test of the
\* list to its wait.
NoMissedWakeup == wpc \in {"check", "wait", "waiting"} => m_listLinesToWrite = <<>>

\* uninit loses nothing it was given: once it has joined the write thread, all
\* that was pushed before m_bExit was first set is out, unless the thread had
\* left on a file error.
ExitDrains == (m_spWriteThread = "joined" /\ ~ioFailed) => Len(console) >= atExit

\* No FATAL call is under way.
NoFatalCall == \A p \in Producer : ppc[p] \in {"idle", "push"}

\* The bytes in a file.
Size(lines) ==
  LET upTo[n \in 0..Len(lines)] == IF n = 0 THEN 0 ELSE upTo[n - 1] + lines[n].len
  IN  upTo[Len(lines)]

\* The open file holds the last lines that were printed, in that order, and
\* m_nCurrentWrittenSize is its size, whatever was rolled, closed and reopened
\* before.  If a flush of this file failed it is smaller than that, never larger.
CurrentFileIsTail ==
  (m_hLogFile.open /\ NoFatalCall /\ wpc \notin {"close", "open"} /\ ~ioFailed) =>
    /\ Size(disk[m_hLogFile.name]) <= m_nCurrentWrittenSize
    /\ ~torn => /\ IsSuffix(disk[m_hLogFile.name],
                             IF wpc = "write" THEN Front(console) ELSE console)
                /\ Size(disk[m_hLogFile.name]) = m_nCurrentWrittenSize

\* A file exceeds m_nFileRollSize by no more than its last line.
RollBound ==
  (RollSize > 0 /\ NoFatalCall) =>
    \A n \in FileName : disk[n] # <<>> => Size(Front(disk[n])) < RollSize

\* A line pushed while the write thread exists and uninit was not called is
\* printed, unless the process dies or the thread leaves on a file error.
LinesComeOut ==
  \A n \in 1..MaxCalls :
    (Len(accepted) >= n /\ wpc # "none" /\ ~m_bExit)
      ~> (Len(console) >= n \/ crashed \/ ioFailed)

\* AsyncLog.h:92 calls m_bExit the exit flag: once it is set and notified, the
\* write thread leaves and uninit gets past the join.
UninitReturns == apc = "join" ~> (apc # "join" \/ crashed)

\* AsyncLog.cpp:426: the first time, and when the roll size is reached, the
\* write thread goes on in a NEW file, so no file ever loses a line.
FilesOnlyGrow == [][\A n \in FileName : IsPrefix(disk[n], disk'[n])]_vars

\* AsyncLog.cpp:154: a FATAL call ends the process whatever the other threads do
\* with the file meanwhile, unless the file it needs cannot be created: then it
\* returns.
FatalCrashes ==
  \A p \in Producer :
    ppc[p] = "fatal" ~> (crashed \/ (ppc[p] = "idle" /\ m_hLogFile = NoFile))
=============================================================================
