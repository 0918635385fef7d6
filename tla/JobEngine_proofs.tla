--------------------------- MODULE JobEngine_proofs ---------------------------
(***************************************************************************)
(* Proofs about JobEngine, for every document, size of a pipe and of the   *)
(* kept output: which failure ends a job, and the bound of what is kept of *)
(* its output.                                                             *)
(***************************************************************************)
EXTENDS JobEngine, Integers, SequenceTheorems, FiniteSetTheorems, TLAPS

USE DEF jobVars, streamVars, childVars, pipeVars
-------------------------------------------------------------------------------
(***************************************************************************)
(* The document and the results.                                           *)
(***************************************************************************)

Results == [step : Nat, status : Nat, refused : BOOLEAN]

\* A function on 1 .. n is a sequence.
LEMMA FunctionIsSequence ==
    ASSUME NEW S, NEW n \in Nat, NEW f \in [1 .. n -> S]
    PROVE  f \in Seq(S)
  OBVIOUS

\* What LoadFromJobDocument makes of a raw document is a document.
LEMMA LoadedIsDocument ==
    ASSUME NEW raw \in RawDocuments
    PROVE  LoadFromJobDocument(raw) \in Documents
<1>1. CASE raw.schema = "old"
  <2>1. raw.allowStdErr \in Optional(AllowStdErrs) BY <1>1 DEF RawDocuments
  <2> DEFINE action == [type |-> "runHandler", valid |-> TRUE, allowStdErr |-> raw.allowStdErr,
                        ignoreStepFailure |-> FALSE]
  <2>2. action \in RawActions BY <2>1 DEF RawActions
  <2>3. <<action>> \in Seq(RawActions) BY <2>2
  <2>4. (IF raw.operation THEN <<action>> ELSE <<>>) \in Seq(RawActions) BY <2>3
  <2> HIDE DEF action
  <2>5. LoadFromJobDocument(raw) =
            [conditions |-> TRUE, final |-> <<>>, steps |-> IF raw.operation THEN <<action>> ELSE <<>>]
    BY <1>1 DEF LoadFromJobDocument, action
  <2> QED BY <2>4, <2>5 DEF Documents
<1>2. CASE raw.schema # "old"
  <2>1. /\ raw.conditions \in BOOLEAN
        /\ raw.steps \in Seq(RawActions)
        /\ raw.final \in Seq(RawActions)
    <3>1. CASE raw \in [schema : {"new"}, conditions : BOOLEAN,
                        steps : UNION {[1 .. n -> RawActions] : n \in 0 .. 2}, final : {<<>>}]
      <4>1. PICK n \in 0 .. 2 : raw.steps \in [1 .. n -> RawActions] BY <3>1
      <4>2. raw.steps \in Seq(RawActions) BY <4>1, FunctionIsSequence
      <4>3. raw.conditions \in BOOLEAN /\ raw.final = <<>> BY <3>1
      <4> QED BY <4>2, <4>3
    <3>2. CASE raw \in [schema : {"new"}, conditions : BOOLEAN, steps : [1 .. 1 -> RawActions],
                        final : [1 .. 1 -> RawActions]]
      <4>1. raw.steps \in [1 .. 1 -> RawActions] /\ raw.final \in [1 .. 1 -> RawActions] BY <3>2
      <4>2. raw.steps \in Seq(RawActions) BY <4>1, FunctionIsSequence
      <4>3. raw.final \in Seq(RawActions) BY <4>1, FunctionIsSequence
      <4>4. raw.conditions \in BOOLEAN BY <3>2
      <4> QED BY <4>2, <4>3, <4>4
    <3> QED BY <1>2, <3>1, <3>2 DEF RawDocuments
  <2>2. LoadFromJobDocument(raw) = [conditions |-> raw.conditions, final |-> raw.final, steps |-> raw.steps]
    BY <1>2 DEF LoadFromJobDocument
  <2> QED BY <2>1, <2>2 DEF Documents
<1> QED BY <1>1, <1>2

\* The actions of a document, the final one included, are a finite list.
LEMMA ActionsType ==
    ASSUME document \in Documents
    PROVE  Actions \in Seq(RawActions) /\ Len(Actions) \in Nat
<1>1. document.steps \in Seq(RawActions) /\ document.final \in Seq(RawActions) BY DEF Documents
<1> QED BY <1>1, ConcatProperties, LenProperties DEF Actions

\* A step that executes no action and records no result keeps the invariant.
LEMMA NothingRecorded ==
    ASSUME IndInv, UNCHANGED <<document, step, executionStatus, results>>, exitCode' \in Nat,
           Executing <=> Executing', pc' = "failed" => pc = "failed", pc' = "succeeded" => pc = "succeeded"
    PROVE  IndInv'
<1> USE DEF IndInv
<1>1. Actions' = Actions BY DEF Actions
<1>2. StepTypes' BY DEF StepTypes
<1>3. \A i \in DOMAIN results : Failed(results[i])' <=> Failed(results[i]) BY <1>1 DEF Failed, Ignored
<1>4. ResultsInv' BY <1>1, <1>3 DEF ResultsInv
<1>5. EndInv' BY <1>1 DEF EndInv
<1> QED BY <1>2, <1>4, <1>5

\* The result of the action that is executed ends its step; the status tells whether it failed.
LEMMA ResultRecorded ==
    ASSUME IndInv, Executing, NEW result \in Results,
           result.step = step, results' = Append(results, result),
           executionStatus' \in Nat, executionStatus' # 0 <=> Failed(result),
           pc' = "next", UNCHANGED <<document, step, exitCode>>
    PROVE  IndInv'
<1> USE DEF IndInv
<1>1. Actions' = Actions BY DEF Actions
<1>2. results \in Seq(Results) /\ step \in Nat BY DEF StepTypes, Results
<1>3. /\ results' \in Seq(Results)
      /\ Len(results') = Len(results) + 1 /\ Len(results) \in Nat
      /\ \A i \in 1 .. Len(results) : results'[i] = results[i]
      /\ results'[Len(results) + 1] = result
  BY <1>2, AppendProperties, LenProperties
<1>4. DOMAIN results = 1 .. Len(results) /\ DOMAIN results' = 1 .. Len(results) + 1
  BY <1>2, <1>3, LenProperties
<1>5. step = Len(results) + 1 /\ executionStatus = 0 /\ ~Executing'
  BY DEF ResultsInv, Executing
<1>6. \A r : Failed(r)' <=> Failed(r) BY <1>1 DEF Failed, Ignored
<1>7. StepTypes' BY <1>3 DEF StepTypes, Results
<1>8. ASSUME NEW i \in DOMAIN results', i # Len(results) + 1
      PROVE  i \in DOMAIN results /\ results'[i] = results[i]
  BY <1>3, <1>4, <1>8
<1>9. ResultsInv'
  <2>1. step' \in 0 .. Len(Actions') /\ step' = Len(results') BY <1>1, <1>3, <1>5 DEF ResultsInv
  <2>2. \A i \in DOMAIN results' : results'[i].step = i
    <3> SUFFICES ASSUME NEW i \in DOMAIN results' PROVE results'[i].step = i OBVIOUS
    <3>1. CASE i = Len(results) + 1 BY <3>1, <1>3, <1>5
    <3>2. CASE i # Len(results) + 1 BY <3>2, <1>8 DEF ResultsInv
    <3> QED BY <3>1, <3>2
  <2>3. ASSUME NEW i \in DOMAIN results', Failed(results'[i])
        PROVE  i = Len(results') /\ executionStatus' # 0
    <3>1. CASE i = Len(results) + 1 BY <3>1, <2>3, <1>3
    <3>2. CASE i # Len(results) + 1 BY <3>2, <2>3, <1>5, <1>8 DEF ResultsInv
    <3> QED BY <3>1, <3>2
  <2>4. executionStatus' # 0 => \E i \in DOMAIN results' : Failed(results'[i])
    <3>1. Len(results) + 1 \in DOMAIN results' BY <1>3, <1>4
    <3> QED BY <3>1, <1>3
  <2>5. \A i \in DOMAIN results' : Failed(results[i])' <=> Failed(results'[i])
    BY <1>1 DEF Failed, Ignored
  <2> QED BY <1>5, <2>1, <2>2, <2>3, <2>4, <2>5 DEF ResultsInv
<1>10. EndInv' BY DEF EndInv
<1> QED BY <1>7, <1>9, <1>10
-------------------------------------------------------------------------------
(***************************************************************************)
(* The invariant.                                                          *)
(***************************************************************************)

\* Before the document is loaded nothing is recorded.
LEMMA InitEstablishes == Init => IndInv
<1> SUFFICES ASSUME Init PROVE IndInv OBVIOUS
<1>1. PICK raw \in RawDocuments : document = LoadFromJobDocument(raw) BY DEF Init
<1>2. document \in Documents BY <1>1, LoadedIsDocument
<1>3. /\ pc = "validate" /\ step = 0 /\ executionStatus = 0 /\ results = <<>> /\ exitCode = 0
  BY DEF Init
<1>4. StepTypes BY <1>2, <1>3 DEF StepTypes
<1>5. ResultsInv BY <1>2, <1>3, ActionsType DEF ResultsInv, Executing
<1>6. EndInv BY <1>3 DEF EndInv
<1> QED BY <1>4, <1>5, <1>6 DEF IndInv

\* The action that is executed is one of the document's.
LEMMA ActionType == ASSUME IndInv, Executing PROVE Action \in RawActions
<1>1. document \in Documents BY DEF IndInv, StepTypes
<1>2. step = Len(results) + 1 /\ step \in 0 .. Len(Actions) /\ Len(results) \in Nat
  BY LenProperties DEF IndInv, StepTypes, ResultsInv
<1>3. step \in 1 .. Len(Actions) BY <1>1, <1>2, ActionsType
<1> QED BY <1>1, <1>3, ActionsType, ElementOfSeq DEF Action

\* An action that ends is recorded with its status, and a failure that counts ends the job.
LEMMA EndPreserves ==
    ASSUME IndInv, Executing, NEW status \in Nat, Ends(status), exitCode' = exitCode
    PROVE  IndInv'
<1> DEFINE result == [step |-> step, status |-> status, refused |-> FALSE]
<1>1. step \in Nat /\ executionStatus = 0 BY DEF IndInv, StepTypes, ResultsInv
<1>2. result \in Results BY <1>1 DEF Results
<1>3. Action.ignoreStepFailure \in BOOLEAN BY ActionType DEF RawActions
<1>4. Failed(result) <=> status # 0 /\ ~Action.ignoreStepFailure /\ Action.allowStdErr = Unset
  BY DEF Failed, Ignored, Action
<1>5. executionStatus' = StatusAfter(status) BY DEF Ends
<1>6. executionStatus' \in Nat /\ (executionStatus' # 0 <=> Failed(result))
  <2>1. CASE Action.ignoreStepFailure BY <2>1, <1>1, <1>4, <1>5 DEF StatusAfter
  <2>2. CASE ~Action.ignoreStepFailure /\ Action.allowStdErr = Unset
    BY <2>2, <1>4, <1>5 DEF StatusAfter
  <2>3. CASE ~Action.ignoreStepFailure /\ Action.allowStdErr # Unset
    <3>1. StatusAfter(status) = 0 BY <2>3, <1>1 DEF StatusAfter
    <3> QED BY <3>1, <2>3, <1>4, <1>5
  <2> QED BY <2>1, <2>2, <2>3
<1>7. /\ results' = Append(results, result) /\ result.step = step
      /\ pc' = "next" /\ UNCHANGED <<document, step>>
  BY DEF Ends
<1> HIDE DEF result
<1> QED BY <1>2, <1>6, <1>7, ResultRecorded

\* exec_steps and what it does before a child is started.
LEMMA StepsPreserve ==
    ASSUME IndInv, Validate \/ NextAction \/ BuildCommand \/ VerifySudoAndUser \/ SpawnFails \/ Spawn
    PROVE  IndInv'
<1>0. exitCode \in Nat /\ step \in Nat /\ document \in Documents BY DEF IndInv, StepTypes
<1>1. CASE Validate BY <1>1, <1>0, NothingRecorded DEF Validate, Executing
<1>2. CASE NextAction
  <2> USE <1>2 DEF NextAction, IndInv
  <2>1. Actions' = Actions BY DEF Actions
  <2>2. \A i \in DOMAIN results : Failed(results[i])' <=> Failed(results[i]) BY <2>1 DEF Failed, Ignored
  <2>3. Len(Actions) \in Nat BY <1>0, ActionsType
  <2>4. step = Len(results) /\ step \in 0 .. Len(Actions) BY DEF ResultsInv, Executing
  <2>5. CASE Stops \/ step = Len(Actions)
    <3>1. StepTypes' BY <2>5 DEF StepTypes
    <3>2. ~Executing' /\ UNCHANGED <<step, results, executionStatus>> BY <2>5 DEF Executing
    <3>3. ResultsInv' BY <2>1, <2>2, <2>4, <3>2 DEF ResultsInv
    <3>4. EndInv' BY <2>1, <2>5 DEF EndInv, Stops
    <3> QED BY <3>1, <3>3, <3>4
  <2>6. CASE ~(Stops \/ step = Len(Actions))
    <3>1. StepTypes' BY <2>6, <1>0 DEF StepTypes
    <3>2. Executing' /\ step' = step + 1 /\ UNCHANGED <<results, executionStatus>>
      BY <2>6 DEF Executing
    <3>3. executionStatus = 0 BY <2>6 DEF Stops
    <3>4. step' \in 0 .. Len(Actions') BY <2>1, <2>3, <2>4, <2>6, <3>2
    <3>5. ResultsInv' BY <2>1, <2>2, <2>4, <3>2, <3>3, <3>4 DEF ResultsInv
    <3>6. EndInv' BY <2>6 DEF EndInv
    <3> QED BY <3>1, <3>5, <3>6
  <2> QED BY <2>5, <2>6
<1>3. CASE BuildCommand
  <2>1. Executing BY <1>3 DEF BuildCommand, Executing
  <2>2. CASE pc' = "spawn" /\ UNCHANGED jobVars
    BY <2>1, <2>2, <1>0, <1>3, NothingRecorded DEF BuildCommand, Executing
  <2>3. CASE ~(pc' = "spawn" /\ UNCHANGED jobVars)
    <3> DEFINE result == [step |-> step, status |-> 1, refused |-> TRUE]
    <3>1. result \in Results BY <1>0 DEF Results
    <3>2. Action.ignoreStepFailure \in BOOLEAN BY <2>1, ActionType DEF RawActions
    <3>3. Failed(result) <=> ~Action.ignoreStepFailure BY DEF Failed, Ignored, Action
    <3>4. executionStatus = 0 BY <2>1 DEF IndInv, ResultsInv
    <3>5. executionStatus' = IF Action.ignoreStepFailure THEN executionStatus ELSE 1
      BY <1>3, <2>3 DEF BuildCommand
    <3>6. executionStatus' \in Nat /\ (executionStatus' # 0 <=> Failed(result))
      BY <3>3, <3>4, <3>5
    <3>7. /\ results' = Append(results, result) /\ result.step = step
          /\ pc' = "next" /\ UNCHANGED <<document, step, exitCode>>
      BY <1>3, <2>3 DEF BuildCommand
    <3> HIDE DEF result
    <3> QED BY <2>1, <3>1, <3>6, <3>7, ResultRecorded
  <2> QED BY <2>2, <2>3
<1>4. CASE VerifySudoAndUser BY <1>4, <1>0, NothingRecorded DEF VerifySudoAndUser, Executing
<1>5. CASE SpawnFails BY <1>5, EndPreserves DEF SpawnFails, Executing
<1>6. CASE Spawn BY <1>6, <1>0, NothingRecorded DEF Spawn, Executing
<1> QED BY <1>1, <1>2, <1>3, <1>4, <1>5, <1>6

\* The child, the readers of its outputs, and the wait for it.
LEMMA ChildPreserves ==
    ASSUME IndInv,
           \/ \E o \in Outputs : ReadLine(o) \/ EndOfFile(o) \/ ChildWrites(o)
           \/ Wait \/ ChildContinues \/ ChildEnds
    PROVE  IndInv'
<1>0. exitCode \in Nat BY DEF IndInv, StepTypes
<1>1. ASSUME NEW o \in Outputs, ReadLine(o) PROVE IndInv'
  <2>1. UNCHANGED <<document, step, executionStatus, results, exitCode>> BY <1>1 DEF ReadLine
  <2>2. pc \in {"out", "err"} BY <1>1 DEF ReadLine, Outputs
  <2>3. pc' \in {"out", "err", "wait"} BY <1>1, <2>2 DEF ReadLine, ReaderReturns
  <2> QED BY <1>0, <2>1, <2>2, <2>3, NothingRecorded DEF Executing
<1>2. ASSUME NEW o \in Outputs, EndOfFile(o) PROVE IndInv'
  <2>1. UNCHANGED <<document, step, executionStatus, results, exitCode>> BY <1>2 DEF EndOfFile
  <2>2. pc \in {"out", "err"} BY <1>2 DEF EndOfFile, Outputs
  <2>3. pc' \in {"err", "wait"} BY <1>2 DEF EndOfFile, ReaderReturns
  <2> QED BY <1>0, <2>1, <2>2, <2>3, NothingRecorded DEF Executing
<1>3. ASSUME NEW o \in Outputs, ChildWrites(o) PROVE IndInv'
  BY <1>0, <1>3, NothingRecorded DEF ChildWrites, Executing
<1>4. CASE Wait
  <2>1. Executing /\ exitCode' = exitCode BY <1>4 DEF Wait, Executing
  <2>2. CASE child = "killed" BY <1>4, <2>1, <2>2, EndPreserves DEF Wait
  <2>3. CASE child # "killed" BY <1>0, <1>4, <2>1, <2>3, EndPreserves DEF Wait
  <2> QED BY <2>2, <2>3
<1>5. CASE ChildContinues BY <1>0, <1>5, NothingRecorded DEF ChildContinues, Executing
<1>6. CASE ChildEnds BY <1>0, <1>6, NothingRecorded DEF ChildEnds, Executing
<1> QED BY <1>1, <1>2, <1>3, <1>4, <1>5, <1>6

\* Every step preserves the invariant, whatever the document and the child do.
THEOREM InductiveInvariant == Spec => []IndInv
<1>1. Init => IndInv BY InitEstablishes
<1>2. IndInv /\ [Next]_vars => IndInv'
  <2> SUFFICES ASSUME IndInv, [Next]_vars PROVE IndInv' OBVIOUS
  <2>1. CASE UNCHANGED vars
    <3>1. UNCHANGED <<document, step, executionStatus, results, exitCode, pc>> BY <2>1 DEF vars
    <3>2. exitCode' \in Nat BY <3>1 DEF IndInv, StepTypes
    <3> QED BY <3>1, <3>2, NothingRecorded DEF Executing
  <2>2. CASE Engine BY <2>2, StepsPreserve, ChildPreserves DEF Engine
  <2>3. CASE (\E o \in Outputs : ChildWrites(o)) \/ ChildContinues \/ ChildEnds
    BY <2>3, ChildPreserves
  <2> QED BY <2>1, <2>2, <2>3 DEF Next
<1> QED BY <1>1, <1>2, PTL DEF Spec

\* A failure that is neither ignored nor subject to a limit of errors is the last result and fails the
\* job, nothing but a failure that is not ignored does, and a job that succeeds has executed its whole
\* document (exec_steps, exec_action).
THEOREM FailureIsFinal == Spec => []FailureEndsTheJob
<1>1. IndInv => FailureEndsTheJob
  <2> SUFFICES ASSUME IndInv PROVE FailureEndsTheJob OBVIOUS
  <2>1. ResultsInv /\ EndInv BY DEF IndInv
  <2>2. results \in Seq(Results) BY DEF IndInv, StepTypes, Results
  <2>3. pc = "succeeded" => Len(results) = Len(Actions)
    BY <2>1, <2>2, LenProperties DEF ResultsInv, EndInv, Executing
  <2>4. pc = "failed" => \E i \in DOMAIN results : results[i].status # 0 /\ ~Ignored(results[i])
    BY <2>1 DEF ResultsInv, EndInv, Failed
  <2> QED BY <2>1, <2>3, <2>4 DEF ResultsInv, FailureEndsTheJob
<1> QED BY <1>1, InductiveInvariant, PTL
-------------------------------------------------------------------------------
(***************************************************************************)
(* Sums, by induction over the numbers.                                    *)
(***************************************************************************)

\* A set of numbers that is not empty has a least one: the intervals below its members are
\* finite sets, and inclusion of finite sets is well-founded.
LEMMA LeastNumber ==
    ASSUME NEW T \in SUBSET Nat, T # {}
    PROVE  \E n \in T : \A m \in T : n <= m
<1> DEFINE below(n) == 0 .. (n - 1)
           belows == {below(n) : n \in T}
<1>1. \A n \in T : below(n) \in SUBSET Nat /\ IsFiniteSet(below(n))
  <2> TAKE n \in T
  <2>1. n \in Nat OBVIOUS
  <2> QED BY <2>1, FS_Interval
<1>2. belows \subseteq FiniteSubsetsOf(Nat) /\ belows # {} BY <1>1 DEF FiniteSubsetsOf
<1>3. PICK b \in belows : \A c \in belows : <<c, b>> \notin StrictSubsetOrdering(Nat)
  <2> HIDE DEF belows
  <2> QED BY <1>2, FS_StrictSubsetOrderingWellFounded, WFMin
<1>4. PICK n \in T : b = below(n) BY <1>3
<1>5. ASSUME NEW m \in T, m < n PROVE FALSE
  <2>1. below(m) \subseteq below(n) /\ m \in below(n) /\ m \notin below(m) BY <1>5
  <2>2. below(m) \in belows /\ below(m) \in SUBSET Nat /\ b \in SUBSET Nat BY <1>1, <1>4
  <2>3. <<below(m), b>> \in StrictSubsetOrdering(Nat)
    <3> HIDE DEF below
    <3> QED BY <1>4, <2>1, <2>2 DEF StrictSubsetOrdering
  <2> QED BY <1>3, <2>2, <2>3
<1> QED BY <1>5

\* Induction, for a set of numbers.
LEMMA NumberInduction ==
    ASSUME NEW S, 0 \in S, \A n \in Nat : n \in S => n + 1 \in S
    PROVE  Nat \subseteq S
<1> SUFFICES ASSUME Nat \ S # {} PROVE FALSE OBVIOUS
<1>1. PICK n \in Nat \ S : \A m \in Nat \ S : n <= m BY LeastNumber
<1>2. n # 0 /\ n - 1 \in Nat BY <1>1
<1>3. n - 1 \in S BY <1>1, <1>2
<1> QED BY <1>1, <1>2, <1>3

\* The totals of a sequence exist: each is the one before it and one more size.
LEMMA TotalsExist ==
    ASSUME NEW sizes \in Seq(Nat)
    PROVE  /\ Totals(sizes) \in [0 .. Len(sizes) -> Nat]
           /\ Totals(sizes)[0] = 0
           /\ \A n \in 1 .. Len(sizes) : Totals(sizes)[n] = Totals(sizes)[n - 1] + sizes[n]
<1> DEFINE N == Len(sizes)
           IsTotal(f, m) == /\ f \in [0 .. m -> Nat] /\ f[0] = 0
                            /\ \A n \in 1 .. m : f[n] = f[n - 1] + sizes[n]
           Exists(m) == \E f : IsTotal(f, m)
           S == {m \in Nat : m <= N => Exists(m)}
<1>1. N \in Nat /\ \A n \in 1 .. N : sizes[n] \in Nat BY LenProperties, ElementOfSeq
<1>2. 0 \in S
  <2>1. IsTotal([n \in 0 .. 0 |-> 0], 0) OBVIOUS
  <2> QED BY <2>1
<1>3. ASSUME NEW m \in Nat, m \in S PROVE m + 1 \in S
  <2> SUFFICES ASSUME m + 1 <= N PROVE Exists(m + 1)
    <3> HIDE DEF Exists
    <3> QED OBVIOUS
  <2>0. Exists(m)
    <3> HIDE DEF Exists
    <3> QED BY <1>1, <1>3
  <2>1. PICK f : IsTotal(f, m) BY <2>0
  <2> DEFINE g == [n \in 0 .. m + 1 |-> IF n = m + 1 THEN f[m] + sizes[m + 1] ELSE f[n]]
  <2>2. f[m] \in Nat /\ sizes[m + 1] \in Nat BY <1>1, <2>1
  <2>3. g \in [0 .. m + 1 -> Nat] /\ g[0] = 0
    BY <2>1, <2>2
  <2>4. ASSUME NEW n \in 1 .. m + 1 PROVE g[n] = g[n - 1] + sizes[n]
    <3>1. CASE n = m + 1
      <4>1. g[n] = f[m] + sizes[m + 1] /\ g[n - 1] = f[m] BY <3>1
      <4> QED BY <3>1, <4>1
    <3>2. CASE n # m + 1
      <4>1. n \in 1 .. m /\ n - 1 \in 0 .. m /\ n - 1 # m + 1 BY <3>2
      <4>2. g[n] = f[n] /\ g[n - 1] = f[n - 1] BY <3>2, <4>1
      <4> QED BY <2>1, <4>1, <4>2
    <3> QED BY <3>1, <3>2
  <2> HIDE DEF g
  <2>5. IsTotal(g, m + 1) BY <2>3, <2>4
  <2> QED BY <2>5
<1> HIDE DEF S
<1>4. Nat \subseteq S BY <1>2, <1>3, NumberInduction
<1> USE DEF S
<1>5. PICK f : IsTotal(f, N)
  <2>1. Exists(N)
    <3> HIDE DEF Exists
    <3> QED BY <1>1, <1>4
  <2> QED BY <2>1
<1> DEFINE Def(h) == h = [n \in 0 .. N |-> IF n = 0 THEN 0 ELSE h[n - 1] + sizes[n]]
<1>6. Def(f)
  <2>1. f = [n \in 0 .. N |-> f[n]] BY <1>5
  <2>2. \A n \in 0 .. N : f[n] = IF n = 0 THEN 0 ELSE f[n - 1] + sizes[n] BY <1>1, <1>5
  <2> QED BY <2>1, <2>2
<1>7. Totals(sizes) = CHOOSE h : Def(h) BY DEF Totals
<1>8. Def(Totals(sizes)) BY <1>6, <1>7
<1>9. /\ DOMAIN Totals(sizes) = 0 .. N /\ Totals(sizes)[0] = 0
      /\ \A n \in 1 .. N : Totals(sizes)[n] = Totals(sizes)[n - 1] + sizes[n]
      /\ Totals(sizes) = [n \in 0 .. N |-> Totals(sizes)[n]]
  BY <1>1, <1>8
<1> DEFINE R == {m \in Nat : m <= N => Totals(sizes)[m] \in Nat}
<1>10. 0 \in R BY <1>9
<1>11. ASSUME NEW m \in Nat, m \in R PROVE m + 1 \in R
  <2> SUFFICES ASSUME m + 1 <= N PROVE Totals(sizes)[m + 1] \in Nat OBVIOUS
  <2>1. m + 1 \in 1 .. N /\ (m + 1) - 1 = m /\ m <= N BY <1>1
  <2>2. Totals(sizes)[m] \in Nat BY <1>11, <2>1
  <2>3. sizes[m + 1] \in Nat BY <1>1, <2>1
  <2>4. Totals(sizes)[m + 1] = Totals(sizes)[m] + sizes[m + 1] BY <1>9, <2>1
  <2> QED BY <2>2, <2>3, <2>4
<1> HIDE DEF R
<1>12. Nat \subseteq R BY <1>10, <1>11, NumberInduction
<1> USE DEF R
<1>13. \A m \in 0 .. N : Totals(sizes)[m] \in Nat BY <1>1, <1>12
<1> QED BY <1>9, <1>13

\* The totals of a part of a sequence.
LEMMA TotalsOfPart ==
    ASSUME NEW whole \in Seq(Nat), NEW part \in Seq(Nat), NEW k \in 0 .. Len(whole),
           NEW count \in 0 .. Len(part), k + count <= Len(whole),
           \A i \in 1 .. count : part[i] = whole[k + i]
    PROVE  Totals(part)[count] = Totals(whole)[k + count] - Totals(whole)[k]
<1> DEFINE P == Totals(part)
           W == Totals(whole)
           S == {n \in Nat : n <= count => P[n] = W[k + n] - W[k]}
<1>1. Len(whole) \in Nat /\ Len(part) \in Nat /\ k \in Nat /\ count \in Nat BY LenProperties
<1>2. /\ \A n \in 0 .. Len(part) : P[n] \in Nat
      /\ P[0] = 0
      /\ \A n \in 1 .. Len(part) : P[n] = P[n - 1] + part[n]
  <2>1. Totals(part) \in [0 .. Len(part) -> Nat] BY TotalsExist
  <2> QED BY <2>1, TotalsExist
<1>3. /\ \A n \in 0 .. Len(whole) : W[n] \in Nat
      /\ \A n \in 1 .. Len(whole) : W[n] = W[n - 1] + whole[n]
  <2>1. Totals(whole) \in [0 .. Len(whole) -> Nat] BY TotalsExist
  <2> QED BY <2>1, TotalsExist
<1>4. \A n \in 1 .. Len(whole) : whole[n] \in Nat BY ElementOfSeq
<1> HIDE DEF P, W
<1>5. 0 \in S
  <2>1. W[k] \in Nat /\ k + 0 = k BY <1>1, <1>3
  <2> QED BY <1>2, <2>1
<1>6. ASSUME NEW n \in Nat, n \in S PROVE n + 1 \in S
  <2> SUFFICES ASSUME n + 1 <= count PROVE P[n + 1] = W[k + (n + 1)] - W[k] OBVIOUS
  <2>1. /\ n + 1 \in 1 .. Len(part) /\ (n + 1) - 1 = n /\ n \in 0 .. Len(part)
        /\ k + (n + 1) \in 1 .. Len(whole) /\ (k + (n + 1)) - 1 = k + n /\ k + n \in 0 .. Len(whole)
        /\ n + 1 \in 1 .. count /\ n <= count
    BY <1>1
  <2>2. P[n] = W[k + n] - W[k] BY <1>6, <2>1
  <2>3. P[n + 1] = P[n] + part[n + 1] BY <1>2, <2>1
  <2>4. W[k + (n + 1)] = W[k + n] + whole[k + (n + 1)] BY <1>3, <2>1
  <2>5. part[n + 1] = whole[k + (n + 1)] BY <2>1
  <2>6. W[k] \in Nat /\ W[k + n] \in Nat /\ whole[k + (n + 1)] \in Nat BY <1>1, <1>3, <1>4, <2>1
  <2>7. \A x, y, z \in Nat : (y - x) + z = (y + z) - x OBVIOUS
  <2>8. P[n + 1] = (W[k + n] - W[k]) + whole[k + (n + 1)] BY <2>2, <2>3, <2>5
  <2>9. (W[k + n] - W[k]) + whole[k + (n + 1)] = (W[k + n] + whole[k + (n + 1)]) - W[k] BY <2>6, <2>7
  <2> QED BY <2>4, <2>8, <2>9, Zenon
<1> HIDE DEF S
<1>7. Nat \subseteq S BY <1>5, <1>6, NumberInduction
<1> USE DEF S
<1> QED BY <1>1, <1>7 DEF P, W

\* The sum of what stays behind the first pieces, with a piece that is appended.
LEMMA SumAfterDrop ==
    ASSUME NEW sizes \in Seq(Nat), NEW k \in 0 .. Len(sizes), NEW size \in Nat
    PROVE  LET kept == Append(SubSeq(sizes, k + 1, Len(sizes)), size)
           IN  kept \in Seq(Nat) /\ Sum(kept) = Sum(sizes) - Totals(sizes)[k] + size
<1> DEFINE rest == SubSeq(sizes, k + 1, Len(sizes))
           kept == Append(rest, size)
           N == Len(sizes)
<1>1. N \in Nat /\ k \in Nat /\ \A i \in 1 .. N : sizes[i] \in Nat BY LenProperties, ElementOfSeq
<1>2. rest \in Seq(Nat) /\ Len(rest) = N - k /\ \A i \in 1 .. N - k : rest[i] = sizes[k + i]
  <2>1. k + 1 \in Int /\ N \in Int /\ \A i \in k + 1 .. N : sizes[i] \in Nat BY <1>1
  <2>2. /\ rest \in Seq(Nat) /\ Len(rest) = IF k + 1 <= N THEN N - (k + 1) + 1 ELSE 0
        /\ \A i \in 1 .. N - (k + 1) + 1 : rest[i] = sizes[k + 1 + i - 1]
    BY <2>1, SubSeqProperties
  <2>3. N - (k + 1) + 1 = N - k /\ \A i \in 1 .. N - k : k + 1 + i - 1 = k + i BY <1>1
  <2> HIDE DEF rest
  <2>4. Len(rest) = N - k
    <3>1. k <= N BY <1>1
    <3> HIDE DEF N
    <3>2. CASE k + 1 <= N BY <2>2, <2>3, <3>2
    <3>3. CASE ~(k + 1 <= N)
      <4>1. N - k = 0 BY <1>1, <3>1, <3>3
      <4> QED BY <2>2, <3>3, <4>1
    <3> QED BY <3>2, <3>3
  <2>5. ASSUME NEW i \in 1 .. N - k PROVE rest[i] = sizes[k + i]
    <3>1. i \in 1 .. N - (k + 1) + 1 /\ k + 1 + i - 1 = k + i BY <1>1
    <3>2. rest[i] = sizes[k + 1 + i - 1] BY <2>2, <3>1
    <3> QED BY <3>1, <3>2
  <2> QED BY <2>2, <2>4, <2>5
<1> HIDE DEF rest
<1>3. /\ kept \in Seq(Nat) /\ Len(kept) = (N - k) + 1
      /\ \A i \in 1 .. N - k : kept[i] = rest[i]
      /\ kept[(N - k) + 1] = size
  BY <1>2, AppendProperties
<1> HIDE DEF kept
<1>4. N - k \in 0 .. Len(kept) /\ k + (N - k) = N BY <1>1, <1>3
<1>4a. \A i \in 1 .. N - k : kept[i] = sizes[k + i] BY <1>2, <1>3
<1>5. Totals(kept)[N - k] = Totals(sizes)[N] - Totals(sizes)[k]
  <2>1. k + (N - k) <= Len(sizes) BY <1>1
  <2> QED BY <1>1, <1>3, <1>4, <1>4a, <2>1, TotalsOfPart
<1>6. Totals(kept)[(N - k) + 1] = Totals(kept)[N - k] + size
  <2>1. (N - k) + 1 \in 1 .. Len(kept) /\ ((N - k) + 1) - 1 = N - k BY <1>1, <1>3
  <2> QED BY <1>3, <2>1, TotalsExist
<1>7. Sum(kept) = Totals(kept)[(N - k) + 1] /\ Sum(sizes) = Totals(sizes)[N] BY <1>3 DEF Sum
<1> QED BY <1>3, <1>5, <1>6, <1>7 DEF kept, rest

\* A buffer of one piece.
LEMMA SumOfOne == ASSUME NEW size \in Nat PROVE <<size>> \in Seq(Nat) /\ Sum(<<size>>) = size
<1>1. <<size>> \in Seq(Nat) /\ Len(<<size>>) = 1 /\ <<size>>[1] = size OBVIOUS
<1>2. 1 \in 1 .. Len(<<size>>) /\ 1 - 1 = 0 BY <1>1
<1>3. Totals(<<size>>)[0] = 0 /\ Totals(<<size>>)[1] = Totals(<<size>>)[1 - 1] + <<size>>[1]
  BY <1>1, <1>2, TotalsExist
<1> QED BY <1>1, <1>2, <1>3 DEF Sum

\* addString never looks for a piece in an empty buffer: the pieces that leave make room in time.
LEMMA AddStringPreserves ==
    ASSUME BufferInv, NEW size \in LineSizes, addString(size)
    PROVE  BufferInv'
<1> USE DEF BufferInv, OutputIsBounded
<1>1. size \in Nat /\ contentsSizeLimit \in Nat BY ConstantsAssumption
<1>2. CASE size > contentsSizeLimit
  <2>1. buffer' = <<contentsSizeLimit>> /\ contentsSize' = contentsSizeLimit
    BY <1>2 DEF addString, PiecesAfter
  <2>2. buffer' \in Seq(Nat) /\ Sum(buffer') = contentsSizeLimit BY <1>1, <2>1, SumOfOne
  <2> QED BY <1>1, <2>1, <2>2 DEF Sum, Totals
<1>3. CASE ~(size > contentsSizeLimit)
  <2> DEFINE fits == {k \in 0 .. Len(buffer) :
                         contentsSize - Totals(buffer)[k] + size <= contentsSizeLimit}
             dropped == CHOOSE k \in fits : \A other \in fits : k <= other
  <2>1. /\ buffer' = Append(SubSeq(buffer, dropped + 1, Len(buffer)), size)
        /\ contentsSize' = contentsSize - Totals(buffer)[dropped] + size
    BY <1>3 DEF addString
  <2>2. /\ Len(buffer) \in Nat /\ \A k \in 0 .. Len(buffer) : Totals(buffer)[k] \in Nat
        /\ Totals(buffer)[Len(buffer)] = contentsSize
    BY LenProperties, TotalsExist DEF Sum
  <2>3. Len(buffer) \in fits BY <1>1, <1>3, <2>2
  <2>4. fits \in SUBSET Nat BY <2>2
  <2>5. \E k \in fits : \A other \in fits : k <= other
    <3> HIDE DEF fits
    <3> QED BY <2>3, <2>4, LeastNumber
  <2>6. dropped \in fits
    <3> HIDE DEF fits
    <3> QED BY <2>5
  <2>7. /\ dropped \in 0 .. Len(buffer) /\ Totals(buffer)[dropped] \in Nat
        /\ contentsSize - Totals(buffer)[dropped] + size <= contentsSizeLimit
    <3> HIDE DEF dropped
    <3> QED BY <2>2, <2>6
  <2> HIDE DEF dropped, fits
  <2>8. buffer' \in Seq(Nat) /\ Sum(buffer') = contentsSize - Totals(buffer)[dropped] + size
    BY <1>1, <2>1, <2>2, <2>7, SumAfterDrop
  <2>9. Sum(buffer') \in Nat BY <2>8, TotalsExist, LenProperties DEF Sum
  <2>10. OutputIsBounded' <=> contentsSize' = Sum(buffer') /\ contentsSize' <= contentsSizeLimit
    BY DEF Sum, Totals
  <2> QED BY <2>1, <2>7, <2>8, <2>9, <2>10
<1> QED BY <1>2, <1>3

\* The buffer of the kept output counts what it holds and never grows above its limit, whatever the
\* sizes of the lines (LimitedStreamBuffer::addString).
THEOREM OutputStaysBounded == Spec => []OutputIsBounded
<1>1. Init => BufferInv
  <2> SUFFICES ASSUME Init PROVE BufferInv OBVIOUS
  <2>1. buffer = <<>> /\ contentsSize = 0 BY DEF Init
  <2>2. buffer \in Seq(Nat) /\ Len(buffer) = 0 BY <2>1
  <2>3. Sum(buffer) = 0 BY <2>2, TotalsExist DEF Sum
  <2> QED BY <2>1, <2>2, <2>3, ConstantsAssumption DEF BufferInv, OutputIsBounded
<1>2. BufferInv /\ [Next]_vars => BufferInv'
  <2> SUFFICES ASSUME BufferInv, [Next]_vars PROVE BufferInv' OBVIOUS
  <2>1. UNCHANGED <<buffer, contentsSize>> \/ \E size \in LineSizes : addString(size)
    <3>1. CASE UNCHANGED vars BY <3>1 DEF vars
    <3>2. CASE Engine
      <4>1. ASSUME NEW o \in Outputs, ReadLine(o)
            PROVE  UNCHANGED <<buffer, contentsSize>> \/ \E size \in LineSizes : addString(size)
        BY <4>1 DEF ReadLine
      <4> QED BY <3>2, <4>1 DEF Engine, Validate, NextAction, BuildCommand, VerifySudoAndUser, SpawnFails,
                                Spawn, EndOfFile, Wait
    <3>3. CASE (\E o \in Outputs : ChildWrites(o)) \/ ChildContinues \/ ChildEnds
      BY <3>3 DEF ChildWrites, ChildContinues, ChildEnds
    <3> QED BY <3>1, <3>2, <3>3 DEF Next
  <2>2. CASE UNCHANGED <<buffer, contentsSize>>
    BY <2>2 DEF BufferInv, OutputIsBounded, Sum, Totals
  <2> QED BY <2>1, <2>2, AddStringPreserves
<1>3. BufferInv => OutputIsBounded BY DEF BufferInv
<1> QED BY <1>1, <1>2, <1>3, PTL DEF Spec
===============================================================================
