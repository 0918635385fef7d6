------------------------------ MODULE LogPipeline ------------------------------
(***************************************************************************)
(* The client's own log (src/source/logging): the queue that every thread  *)
(* appends to, the detached thread that writes it, the replacement of the  *)
(* logger when the configuration is known, and the flush at the end.       *)
(*                                                                         *)
(* main starts with a StdOutLogger that has no thread, reconfigures it     *)
(* once or, when the log file cannot be opened, twice, and ends with       *)
(* shutdown() and exit().  When the lock file is taken it calls shutdown() *)
(* in init() and again, after another message, in deviceClientAbort().     *)
(*                                                                         *)
(* A message is its number; 0 is the null message of LogQueue::shutdown(). *)
(* Each access to the queue under queueLock is one action.                 *)
(***************************************************************************)
EXTENDS Naturals, Sequences, Functions

CONSTANT MaxMessages   \* bound: messages logged

ASSUME LogConstants == MaxMessages \in Nat

VARIABLES
    logger,            \* "stdout" or "file"
    logQueue, isShutdown,
    needsShutdown,
    isRunning,         \* of a FileLogger: its thread has begun
    writerPc,          \* "none", "created", "check", "get", "write", "done"
    held,              \* the message the writer has taken and not written
    mainPc,            \* "boot", "running", "flush", "take", "ending", "exited"
    flushed,           \* the message flush() has taken
    flush,             \* the first flush(): "none", "skipped" or "made"
    promised,          \* the number of messages logged before the first shutdown()
    aborting,          \* will main call shutdown() again
    logged, written

queueVars == <<logQueue, isShutdown>>
logVars == <<logger, queueVars, needsShutdown, isRunning, writerPc, held, mainPc, flushed, flush,
             promised, aborting, logged, written>>

NoMessage == 0

LogInit ==
    /\ logger = "stdout"
    /\ logQueue = <<>> /\ isShutdown = FALSE /\ needsShutdown = FALSE /\ isRunning = FALSE
    /\ writerPc = "none" /\ held = NoMessage
    /\ mainPc = "boot" /\ flushed = NoMessage
    /\ flush = "none" /\ promised = 0 /\ aborting \in BOOLEAN
    /\ logged = 0 /\ written = <<>>

ProcessAlive == mainPc # "exited"

addLog_InFront(message) == <<message>> \o logQueue
addLog(message) == Append(logQueue, message)
-------------------------------------------------------------------------------
\* Any thread logs, at a level that is recorded.
LogMessage ==
    /\ ProcessAlive /\ logged < MaxMessages
    /\ logged' = logged + 1
    /\ logQueue' = addLog(logged + 1)
    /\ UNCHANGED <<logger, isShutdown, needsShutdown, isRunning, writerPc, held, mainPc, flushed,
                   flush, promised, aborting, written>>

\* LogQueue::shutdown puts a null message in front and stops the waiting.
ShutdownQueue == <<NoMessage>> \o logQueue
MarksShutdown_Not == isShutdown
MarksShutdown == TRUE

\* takeLogQueue and setLogQueue hand the queue over as it is, its null message and its flag included.
HandedOver_Empty == <<>>
HandedOver == ShutdownQueue

\* LoggerFactory::reconfigure with a change of logger: stop(), the new logger, and its start(),
\* which succeeds with StdOutLogger and may not with FileLogger.
ReplaceLogger(kind) ==
    /\ mainPc = "boot" /\ logger # kind
    /\ logger' = kind
    /\ logQueue' = HandedOver /\ isShutdown' = MarksShutdown
    \* the flags of the new logger are clear; the old one, which never had a thread, is gone
    /\ UNCHANGED <<needsShutdown, isRunning>>
    /\ \/ writerPc' = "created" /\ mainPc' = "running"
       \/ kind = "file" /\ UNCHANGED <<writerPc, mainPc>>
    /\ UNCHANGED <<held, flushed, flush, promised, aborting, logged, written>>

\* reconfigure without one: only start().
StartLogger ==
    /\ mainPc = "boot" /\ logger = "stdout"
    /\ writerPc' = "created" /\ mainPc' = "running"
    /\ UNCHANGED <<logger, queueVars, needsShutdown, isRunning, held, flushed, flush, promised,
                   aborting, logged, written>>
-------------------------------------------------------------------------------
\* run() begins.
WriterBegins ==
    /\ ProcessAlive /\ writerPc = "created"
    /\ isRunning' = (logger = "file")
    /\ writerPc' = "check"
    /\ UNCHANGED <<logger, queueVars, needsShutdown, held, mainPc, flushed, flush, promised, aborting,
                   logged, written>>

WriterLooksAtShutdown ==
    /\ ProcessAlive /\ writerPc = "check"
    /\ writerPc' = IF needsShutdown THEN "done" ELSE "get"
    /\ UNCHANGED <<logger, queueVars, needsShutdown, isRunning, held, mainPc, flushed, flush, promised,
                   aborting, logged, written>>

\* getNextLog waits for a message or the shutdown, and returns no message when there is none.
getNextLog ==
    /\ logQueue # <<>> \/ isShutdown
    /\ logQueue' = IF logQueue = <<>> THEN <<>> ELSE Tail(logQueue)
    /\ UNCHANGED isShutdown

NextLog == IF logQueue = <<>> THEN NoMessage ELSE Head(logQueue)

WriterGetsLog ==
    /\ ProcessAlive /\ writerPc = "get"
    /\ getNextLog
    /\ held' = NextLog
    /\ writerPc' = IF NextLog = NoMessage THEN "check" ELSE "write"
    /\ UNCHANGED <<logger, needsShutdown, isRunning, mainPc, flushed, flush, promised, aborting, logged,
                   written>>

WriterWrites ==
    /\ ProcessAlive /\ writerPc = "write"
    /\ written' = Append(written, held)
    /\ held' = NoMessage
    /\ writerPc' = "check"
    /\ UNCHANGED <<logger, queueVars, needsShutdown, isRunning, mainPc, flushed, flush, promised,
                   aborting, logged>>
-------------------------------------------------------------------------------
\* shutdown(): the flag, the queue, and the first look of flush().
FlushIsPossible == logger = "file" => isRunning

Shutdown ==
    \* before the logger is configured when the configuration is invalid
    /\ mainPc = "running" \/ (mainPc = "boot" /\ logger = "stdout")
    /\ needsShutdown' = TRUE
    /\ logQueue' = ShutdownQueue /\ isShutdown' = MarksShutdown
    /\ IF flush = "none"
       THEN promised' = logged /\ flush' = IF FlushIsPossible THEN "made" ELSE "skipped"
       ELSE UNCHANGED <<promised, flush>>
    /\ mainPc' = IF FlushIsPossible THEN "flush" ELSE "ending"
    /\ UNCHANGED <<logger, isRunning, writerPc, held, flushed, aborting, logged, written>>

FlushLooks ==
    /\ mainPc = "flush"
    /\ mainPc' = IF logQueue # <<>> THEN "take" ELSE "ending"
    /\ UNCHANGED <<logger, queueVars, needsShutdown, isRunning, writerPc, held, flushed, flush, promised,
                   aborting, logged, written>>

\* The writer may have emptied the queue since; a null message does not end the loop.
FlushGetsLog ==
    /\ mainPc = "take" /\ flushed = NoMessage
    /\ getNextLog
    /\ flushed' = NextLog
    /\ mainPc' = IF NextLog = NoMessage THEN "flush" ELSE "take"
    /\ UNCHANGED <<logger, needsShutdown, isRunning, writerPc, held, flush, promised, aborting, logged,
                   written>>

FlushWrites ==
    /\ mainPc = "take" /\ flushed # NoMessage
    /\ written' = Append(written, flushed)
    /\ flushed' = NoMessage
    /\ mainPc' = "flush"
    /\ UNCHANGED <<logger, queueVars, needsShutdown, isRunning, writerPc, held, flush, promised, aborting,
                   logged>>

\* shutdown() ends; main exits, or logs why it aborts and calls it again.
EndShutdown ==
    /\ mainPc = "ending"
    /\ isRunning' = FALSE
    /\ aborting' = FALSE
    /\ mainPc' = IF aborting THEN "running" ELSE "exited"
    /\ UNCHANGED <<logger, queueVars, needsShutdown, writerPc, held, flushed, flush, promised, logged,
                   written>>
-------------------------------------------------------------------------------
MainThread == Shutdown \/ FlushLooks \/ FlushGetsLog \/ FlushWrites \/ EndShutdown
WriterThread == WriterBegins \/ WriterLooksAtShutdown \/ WriterGetsLog \/ WriterWrites

LogNext ==
    \/ LogMessage
    \/ \E kind \in {"stdout", "file"} : ReplaceLogger(kind)
    \/ StartLogger
    \/ MainThread
    \/ WriterThread

LogSpec == LogInit /\ [][LogNext]_logVars

\* main and the writer go on; nobody has to log, and a writer that has begun to wait may wait.
FairLogSpec == LogSpec /\ WF_logVars(MainThread) /\ WF_logVars(WriterThread)
-------------------------------------------------------------------------------
InHand == {held, flushed} \ {NoMessage}
Queued == Range(logQueue) \ {NoMessage}

\* In the order of logging, but for one message.
InOrderBut(late, messages) ==
    \A i, j \in DOMAIN messages :
        i < j /\ messages[i] # late /\ messages[j] # late => messages[i] < messages[j]

\* The log is in order but for one message: the one the writer had taken when flush() passed it.
OrderIsKept == \E late \in 0 .. logged : InOrderBut(late, written)

\* Between the threads, the two consumers at the end and the change of logger no message is lost
\* or written twice: each is written, in a hand, or queued.  And shutdown() writes what was logged
\* before it, up to the message in the writer's hand, once the writer of a log file has begun.
LogIsFlushed ==
    /\ Range(written) \cup InHand \cup Queued = 1 .. logged
    /\ IsInjective(written)
    /\ Range(written) \cap (InHand \cup Queued) = {} /\ InHand \cap Queued = {}
    /\ flush = "made" /\ mainPc \in {"ending", "exited"} =>
          1 .. promised \subseteq Range(written) \cup {held}

\* shutdown() returns: flush() never waits for a message that the writer took (LogQueue.cpp:31).
ShutdownReturns == needsShutdown ~> (mainPc = "exited")
-------------------------------------------------------------------------------
(* The inductive invariant of the proofs. *)
LogTypes ==
    /\ logQueue \in Seq(Nat) /\ written \in Seq(Nat)
    /\ held \in Nat /\ flushed \in Nat /\ logged \in Nat /\ promised \in Nat

\* Who can hold a message, and what has happened before the first shutdown().
LogPhases ==
    /\ held # NoMessage <=> writerPc = "write"
    /\ flushed # NoMessage => mainPc = "take"
    /\ ~needsShutdown => mainPc \in {"boot", "running"}
    /\ needsShutdown <=> flush # "none"
    /\ mainPc = "boot" => ~needsShutdown /\ writerPc = "none"

\* Each message is in one place; what waits is in order and later than what was taken.
LogPlaces ==
    /\ Range(written) \cup InHand \cup Queued = 1 .. logged
    /\ IsInjective(written)
    /\ InHand \cap Range(written) = {} /\ (held = flushed => held = NoMessage)
    /\ InOrderBut(NoMessage, logQueue)
    /\ \A taken \in Range(written) \cup InHand, waiting \in Queued : taken < waiting

\* What is written is in order but for the message that the writer took last, or takes
\* while main flushes: before the shutdown there is none.
LogOrder ==
    \E late \in 0 .. logged :
        /\ InOrderBut(late, written)
        /\ ~needsShutdown \/ writerPc = "get" => late = NoMessage
        /\ ~needsShutdown /\ held # NoMessage => \A message \in Range(written) : message < held
        /\ needsShutdown /\ writerPc = "write" => late = held
        /\ flushed # NoMessage => \A message \in Range(written) \ {late} : message < flushed

\* What shutdown() promises is written when flush() has found the queue empty, and stays so.
LogPromise ==
    /\ promised <= logged
    /\ flush = "made" /\ mainPc \in {"running", "ending", "exited"} =>
          1 .. promised \subseteq Range(written) \cup {held}

LogInv == LogTypes /\ LogPhases /\ LogPlaces /\ LogOrder /\ LogPromise
===============================================================================
