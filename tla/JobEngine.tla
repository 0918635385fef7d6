------------------------------- MODULE JobEngine -------------------------------
(***************************************************************************)
(* The job engine (src/source/jobs/JobEngine.cpp): the thread of one job   *)
(* executes the steps of its document one after the other, each by a       *)
(* child process whose two outputs it reads through pipes, first stdout to *)
(* its end, then stderr, before it waits for the child.                    *)
(*                                                                         *)
(* A document is the sequence of its actions, with the fields the engine   *)
(* looks at; fdopen() and waitpid() succeed, and no descendant of a child  *)
(* outlives it.  Output is counted in lines.                               *)
(***************************************************************************)
EXTENDS Naturals, Sequences

CONSTANTS
    MAX_LOG_LINES,       \* lines of one output that are processed
    PipeSize,            \* lines that fit into a pipe
    contentsSizeLimit,   \* LimitedStreamBuffer
    LineSizes,           \* sizes of a line
    AllowStdErrs,        \* values of allowStdErr
    MaxLines             \* bound: lines a child writes

ASSUME ConstantsAssumption ==
    /\ {MAX_LOG_LINES, contentsSizeLimit, MaxLines} \subseteq Nat
    /\ PipeSize \in Nat \ {0} /\ LineSizes \subseteq Nat \ {0} /\ AllowStdErrs \subseteq Nat

VARIABLES
    document,            \* the loaded PlainJobDocument
    pc,                  \* "validate", "next", "build", "verify", "spawn", "out", "err", "wait",
                         \* "succeeded", "failed", "rejected"
    step,                \* the action that is executed; the final step comes after the steps
    executionStatus, errors,
    buffer, contentsSize,  \* stdoutstream: the sizes of its pieces, and what it counts
    results,             \* history: what exec_handlerScript, exec_shellCommand returned, or the
                         \* status of a handler that could not be built
    lineCount,
    child,               \* "none", "running", "exited", "killed"
    exitCode,
    blockedOn,           \* "none", or the pipe the child cannot write to
    lines,               \* lines the child has written or tried to write
    pipe, readEnd        \* lines in each pipe, and whether the engine has its read end open

jobVars == <<document, step, executionStatus, results>>
streamVars == <<errors, buffer, contentsSize, lineCount>>
childVars == <<child, exitCode, blockedOn, lines>>
pipeVars == <<pipe, readEnd>>
vars == <<jobVars, pc, streamVars, childVars, pipeVars>>

Outputs == {"out", "err"}

\* An optional field is the set of its value.
Optional(S) == {{}} \cup {{x} : x \in S}
Unset == {}
-------------------------------------------------------------------------------
(* The document. *)

RawActions ==
    [type : {"runHandler", "runCommand"}, valid : BOOLEAN,
     allowStdErr : Optional(AllowStdErrs), ignoreStepFailure : BOOLEAN]

\* The job document as it arrives: of the old schema, with one operation, or of the new one.
RawDocuments ==
    [schema : {"old"}, operation : BOOLEAN, allowStdErr : Optional(AllowStdErrs)]
        \cup [schema : {"new"}, conditions : BOOLEAN, steps : UNION {[1 .. n -> RawActions] : n \in 0 .. 2},
              final : {<<>>}]
        \cup [schema : {"new"}, conditions : BOOLEAN, steps : [1 .. 1 -> RawActions],
              final : [1 .. 1 -> RawActions]]

\* The old schema knows one handler, whose failure is never ignored.
LoadFromJobDocument(raw) ==
    IF raw.schema = "old"
    THEN [conditions |-> TRUE, final |-> <<>>,
          steps |-> IF raw.operation
                    THEN <<[type |-> "runHandler", valid |-> TRUE, allowStdErr |-> raw.allowStdErr,
                            ignoreStepFailure |-> FALSE]>>
                    ELSE <<>>]
    ELSE [conditions |-> raw.conditions, final |-> raw.final, steps |-> raw.steps]

Valid ==
    /\ document.conditions
    /\ document.steps # <<>>
    /\ \A i \in DOMAIN document.steps : document.steps[i].valid
    /\ \A i \in DOMAIN document.final : document.final[i].valid

Actions == document.steps \o document.final
Action == Actions[step]
-------------------------------------------------------------------------------
Init ==
    /\ \E raw \in RawDocuments : document = LoadFromJobDocument(raw)
    /\ pc = "validate" /\ step = 0 /\ executionStatus = 0 /\ results = <<>>
    /\ errors = 0 /\ buffer = <<>> /\ contentsSize = 0 /\ lineCount = 0
    /\ child = "none" /\ exitCode = 0 /\ blockedOn = "none" /\ lines = 0
    /\ pipe = [o \in Outputs |-> 0] /\ readEnd = [o \in Outputs |-> FALSE]

Validate ==
    /\ pc = "validate"
    /\ pc' = IF Valid THEN "next" ELSE "rejected"
    /\ UNCHANGED <<jobVars, streamVars, childVars, pipeVars>>

\* exec_steps: a status that is not 0 ends the job, before the final step too.
Stops_Never == FALSE
Stops == executionStatus # 0

NextAction ==
    /\ pc = "next"
    /\ IF Stops \/ step = Len(Actions)
       THEN /\ pc' = IF executionStatus = 0 THEN "succeeded" ELSE "failed"
            /\ UNCHANGED step
       ELSE /\ step' = step + 1
            /\ pc' = IF Actions[step + 1].type = "runHandler" THEN "build" ELSE "verify"
    /\ UNCHANGED <<document, executionStatus, results, streamVars, childVars, pipeVars>>

\* The end of exec_action: what becomes of the status of the action.
StatusAfter(status) ==
    IF Action.ignoreStepFailure THEN executionStatus
    ELSE IF Action.allowStdErr = Unset THEN status
    ELSE IF status = 0 /\ (\E limit \in Action.allowStdErr : errors >= limit) THEN status
    ELSE executionStatus

Ends(status) ==
    /\ executionStatus' = StatusAfter(status)
    /\ results' = Append(results, [step |-> step, status |-> status, refused |-> FALSE])
    /\ pc' = "next"
    /\ UNCHANGED <<document, step>>

\* buildCommand: a handler in the client's own directory must have the right permissions.
BuildCommand ==
    /\ pc = "build"
    /\ \/ pc' = "spawn" /\ UNCHANGED jobVars
       \/ /\ executionStatus' = IF Action.ignoreStepFailure THEN executionStatus ELSE 1
          /\ results' = Append(results, [step |-> step, status |-> 1, refused |-> TRUE])
          /\ pc' = "next"
          /\ UNCHANGED <<document, step>>
    /\ UNCHANGED <<streamVars, childVars, pipeVars>>

\* verifySudoAndUser waits for two processes; the command is executed with or without sudo.
VerifySudoAndUser ==
    /\ pc = "verify"
    /\ pc' = "spawn"
    /\ UNCHANGED <<jobVars, streamVars, childVars, pipeVars>>

\* exec_cmd: pipes and vfork, either of which may fail.
SpawnFails ==
    /\ pc = "spawn"
    /\ Ends(1)
    /\ UNCHANGED <<streamVars, childVars, pipeVars>>

Spawn ==
    /\ pc = "spawn"
    /\ child' = "running" /\ blockedOn' = "none" /\ lines' = 0
    /\ pipe' = [o \in Outputs |-> 0] /\ readEnd' = [o \in Outputs |-> TRUE]
    /\ pc' = "out" /\ lineCount' = 0
    /\ UNCHANGED <<jobVars, errors, buffer, contentsSize, exitCode>>
-------------------------------------------------------------------------------
(* processCmdOutput, by a thread that exec_cmd joins before it goes on. *)

\* The sizes of the first pieces, for each number of them, and of all.
Totals(sizes) ==
    LET total[n \in 0 .. Len(sizes)] == IF n = 0 THEN 0 ELSE total[n - 1] + sizes[n]
    IN  total
Sum(sizes) == Totals(sizes)[Len(sizes)]

\* LimitedStreamBuffer::addString: whole pieces leave at the front until the new one fits; of a
\* piece above the limit only the end is kept.
PiecesAfter_KeepOld(size) == Append(buffer, contentsSizeLimit)
PiecesAfter(size) == <<contentsSizeLimit>>

addString(size) ==
    IF size > contentsSizeLimit
    THEN buffer' = PiecesAfter(size) /\ contentsSize' = contentsSizeLimit
    ELSE LET fits == {k \in 0 .. Len(buffer) :
                         contentsSize - Totals(buffer)[k] + size <= contentsSizeLimit}
             dropped == CHOOSE k \in fits : \A other \in fits : k <= other
         IN  /\ buffer' = Append(SubSeq(buffer, dropped + 1, Len(buffer)), size)
             /\ contentsSize' = contentsSize - Totals(buffer)[dropped] + size

\* The pipe is closed when its reader returns.
ReadEndAfterReturn_Open(o) == readEnd
ReadEndAfterReturn(o) == [readEnd EXCEPT ![o] = FALSE]

ReaderReturns(o) ==
    /\ readEnd' = ReadEndAfterReturn(o)
    /\ lineCount' = 0
    /\ pc' = IF o = "out" THEN "err" ELSE "wait"

ReadLine(o) ==
    /\ pc = o /\ pipe[o] > 0
    /\ pipe' = [pipe EXCEPT ![o] = @ - 1]
    /\ IF lineCount > MAX_LOG_LINES
       THEN ReaderReturns(o) /\ UNCHANGED <<errors, buffer, contentsSize>>
       ELSE /\ lineCount' = lineCount + 1
            /\ IF o = "out"
               THEN (\E size \in LineSizes : addString(size)) /\ UNCHANGED errors
               ELSE errors' = errors + 1 /\ UNCHANGED <<buffer, contentsSize>>
            /\ UNCHANGED <<pc, readEnd>>
    /\ UNCHANGED <<jobVars, childVars>>

\* Every writer has closed the pipe.
EndOfFile(o) ==
    /\ pc = o /\ pipe[o] = 0 /\ child # "running"
    /\ ReaderReturns(o)
    /\ UNCHANGED <<jobVars, errors, buffer, contentsSize, childVars, pipe>>

\* waitpid returns; WEXITSTATUS of a child that was killed is 0.
Wait ==
    /\ pc = "wait" /\ child # "running"
    /\ Ends(IF child = "killed" THEN 0 ELSE exitCode)
    /\ child' = "none"
    /\ UNCHANGED <<streamVars, exitCode, blockedOn, lines, pipeVars>>
-------------------------------------------------------------------------------
(* The child process (external). *)

\* Without a reader the child is killed by SIGPIPE, or goes on without this line.
WritesTo(o) ==
    \/ /\ readEnd[o] /\ pipe[o] < PipeSize
       /\ pipe' = [pipe EXCEPT ![o] = @ + 1]
       /\ blockedOn' = "none" /\ UNCHANGED child
    \/ /\ ~readEnd[o]
       /\ child' \in {"running", "killed"}
       /\ blockedOn' = "none" /\ UNCHANGED pipe

ChildWrites(o) ==
    /\ child = "running" /\ blockedOn = "none" /\ lines < MaxLines
    /\ lines' = lines + 1
    /\ \/ WritesTo(o)
       \/ /\ readEnd[o] /\ pipe[o] = PipeSize
          /\ blockedOn' = o
          /\ UNCHANGED <<child, pipe>>
    /\ UNCHANGED <<jobVars, pc, streamVars, exitCode, readEnd>>

ChildContinues ==
    /\ child = "running" /\ blockedOn # "none"
    /\ WritesTo(blockedOn)
    /\ UNCHANGED <<jobVars, pc, streamVars, exitCode, lines, readEnd>>

ChildEnds ==
    /\ child = "running" /\ blockedOn = "none"
    /\ \/ child' = "exited" /\ exitCode' \in {0, 1}
       \/ child' = "killed" /\ exitCode' = 0
    /\ UNCHANGED <<jobVars, pc, streamVars, blockedOn, lines, pipeVars>>
-------------------------------------------------------------------------------
Engine ==
    \/ Validate \/ NextAction \/ BuildCommand \/ VerifySudoAndUser
    \/ SpawnFails \/ Spawn
    \/ \E o \in Outputs : ReadLine(o) \/ EndOfFile(o)
    \/ Wait

Next == Engine \/ (\E o \in Outputs : ChildWrites(o)) \/ ChildContinues \/ ChildEnds

Spec == Init /\ [][Next]_vars

\* The engine's thread runs; a child that is not blocked ends some day.
FairSpec == Spec /\ WF_vars(Engine) /\ WF_vars(ChildContinues) /\ WF_vars(ChildEnds)
-------------------------------------------------------------------------------
Ignored(result) == Actions[result.step].ignoreStepFailure

\* A failure that ends the job in the code: a command that ran under a limit of errors is exempt.
Failed(result) ==
    /\ result.status # 0 /\ ~Ignored(result)
    /\ Actions[result.step].allowStdErr = Unset \/ result.refused

\* The actions are executed in the order of the document, each once; a failure that is neither
\* ignored nor subject to a limit of errors is the last of them, so that neither a later step nor
\* the final step follows it, and the job fails; a job fails only by an action that failed and is
\* not ignored; a job that succeeds has executed the whole document (exec_steps, exec_action).
FailureEndsTheJob ==
    /\ \A i \in DOMAIN results : results[i].step = i
    /\ \A i \in DOMAIN results : Failed(results[i]) => i = Len(results) /\ executionStatus # 0
    /\ pc = "failed" => \E i \in DOMAIN results : results[i].status # 0 /\ ~Ignored(results[i])
    /\ pc = "succeeded" => Len(results) = Len(Actions)

\* What source/jobs/README.md:327 says of a job of one step with allowStdErr: it is a success "if the
\* return code of the process is 0 AND there are fewer than or equal to 2 (two) lines of standard error
\* output", 2 being its allowStdErr.  Violated: with allowStdErr neither the return code nor the number
\* of lines ever changes the status of the job (exec_action).
SuccessIsWithinLimit ==
    (pc = "succeeded" /\ Len(results) = 1) =>
        \A limit \in Actions[1].allowStdErr :
            Ignored(results[1]) \/ (exitCode = 0 /\ errors <= limit)

\* The buffer of the output counts what it holds, and holds no more than its limit: addString
\* would otherwise take pieces out of an empty buffer.
OutputIsBounded == contentsSize = Sum(buffer) /\ contentsSize <= contentsSizeLimit

\* The engine gets past every step: it never waits for output that nobody writes nor for a child
\* that waits for a reader, other than a child that filled the pipe of stderr while stdout is read
\* (exec_cmd, processCmdOutput).
StepEnds ==
    /\ (pc = "out") ~> (pc # "out" \/ blockedOn = "err")
    /\ (pc \in {"err", "wait"}) ~> (pc \in {"next", "succeeded", "failed"})
-------------------------------------------------------------------------------
(* The inductive invariant of the proofs. *)
Documents == [conditions : BOOLEAN, steps : Seq(RawActions), final : Seq(RawActions)]

StepTypes ==
    /\ document \in Documents /\ step \in Nat /\ executionStatus \in Nat /\ exitCode \in Nat
    /\ results \in Seq([step : Nat, status : Nat, refused : BOOLEAN])

Executing == pc \in {"build", "verify", "spawn", "out", "err", "wait"}

\* Each action that was executed has its result, and the status tells whether the last one failed.
ResultsInv ==
    /\ step \in 0 .. Len(Actions)
    /\ step = Len(results) + IF Executing THEN 1 ELSE 0
    /\ Executing => executionStatus = 0
    /\ \A i \in DOMAIN results : results[i].step = i
    /\ \A i \in DOMAIN results : Failed(results[i]) => i = Len(results) /\ executionStatus # 0
    /\ executionStatus # 0 => \E i \in DOMAIN results : Failed(results[i])

EndInv ==
    /\ pc = "failed" => executionStatus # 0
    /\ pc = "succeeded" => executionStatus = 0 /\ step = Len(Actions)

IndInv == StepTypes /\ ResultsInv /\ EndInv

\* Of the kept output by itself.
BufferInv == buffer \in Seq(Nat) /\ contentsSize \in Nat /\ OutputIsBounded
===============================================================================
