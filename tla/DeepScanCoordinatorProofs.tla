--------------------- MODULE DeepScanCoordinatorProofs ---------------------
(***************************************************************************)
(* A coordinator and its workers change the rows by commands only, so what *)
(* is proved of the rows for any callers holds while a scan runs.          *)
(***************************************************************************)
EXTENDS DeepScanCoordinator, DeepScanWorkbenchProofs, SequenceTheorems

\* The coordinator presents the generation it holds, which is a caller's.
LEMMA HoldsAGeneration == ASSUME IInv PROVE generation \in Callers
  BY DEF IInv, TypeOK, Callers

\* A finish that is accepted gives a reason the command knows and omits
\* results that exist.
LEMMA FinishIsACommand ==
  ASSUME NEW g \in Callers, NEW why, NEW omitted,
         FinishDeepScan(g, why, omitted)
  PROVE  StopStep(g)
<1>1. why \in {"saturated", "capped"}
  BY DEF FinishDeepScan, Finishable, MayStop
<1>2. omitted \in SUBSET Discovery
  BY DEF FinishDeepScan, Finishable, LeftOver
<1> QED
  BY <1>1, <1>2 DEF StopStep

\* A claim that is accepted names results that exist.
LEMMA ClaimIsACommand ==
  ASSUME NEW g \in Callers, NEW r \in Reducer, NEW S, ClaimDedup(g, r, S)
  PROVE  ReducerStep(g)
<1>1. S \in SUBSET Discovery
  BY DEF ClaimDedup, Claimable, BufferedPrefix, Buffered
<1> QED
  BY <1>1 DEF ReducerStep

\* A turn of the scheduler's loop sends at most one command.
LEMMA CoordinatorSendsCommands ==
  ASSUME IInv, CoordinatorProceeds
  PROVE  [Next]_vars
<1>1. generation \in Callers
  BY HoldsAGeneration
<1>2. CASE Finish
  <2>1. StopStep(generation)
    BY <1>1, <1>2, FinishIsACommand DEF Finish
  <2> QED
    BY <1>1, <2>1 DEF Next
<1>3. CASE Fail
  <2>1. StopStep(generation)
    BY <1>3 DEF Fail, StopStep
  <2> QED
    BY <1>1, <2>1 DEF Next
<1>4. CASE PersistCancel
  BY <1>4 DEF PersistCancel, ParentStep, Next
<1>5. CASE \/ Fill \/ Exhausted \/ ReadOutcome \/ ReconcileLate \/ Drained
           \/ FinishRefused \/ LoseOwnership \/ Leave \/ ReachDeadline
  BY <1>5 DEF Fill, Exhausted, ReadOutcome, ReconcileLate, Drained,
     FinishRefused, LoseOwnership, Leave, ReachDeadline
<1> QED
  BY <1>2, <1>3, <1>4, <1>5 DEF CoordinatorProceeds

\* A worker sends at most one command, whatever it does.
LEMMA WorkerSendsCommands ==
  ASSUME IInv, NEW w \in Worker, WorkerProceeds(w) \/ RetryAttempt(w)
  PROVE  [Next]_vars
<1>1. generation \in Callers
  BY HoldsAGeneration
<1>2. CASE /\ w \in Discovery
           /\ InsertDiscovery(w) \/ StoreDiscovery(w) \/ GiveUpDiscovery(w)
  <2>1. DiscoveryStep(generation)
    BY <1>2 DEF InsertDiscovery, StoreDiscovery, GiveUpDiscovery, DiscoveryStep
  <2> QED
    BY <1>1, <2>1 DEF Next
<1>3. CASE w \in Reducer /\ InsertReducer(w)
  <2>1. ReducerStep(generation)
    BY <1>1, <1>3, ClaimIsACommand DEF InsertReducer
  <2> QED
    BY <1>1, <2>1 DEF Next
<1>4. CASE /\ w \in Reducer
           /\ (\E new \in {0, 1} : StoreReduction(w, new)) \/ GiveUpReducer(w)
  <2>1. ReducerStep(generation)
    BY <1>4 DEF StoreReduction, GiveUpReducer, ReducerStep
  <2> QED
    BY <1>1, <2>1 DEF Next
<1>5. CASE BeginAttempt(w) \/ RetryAttempt(w) \/ AbandonAttempt(w)
  <2>1. CancellationNote(w) \in {"none", "shutdown", "error"}
    BY DEF CancellationNote
  <2>2. WorkerStep(generation)
    BY <1>5, <2>1 DEF BeginAttempt, RetryAttempt, AbandonAttempt, WorkerStep
  <2> QED
    BY <1>1, <2>2 DEF Next
<1>6. CASE Refused(w) \/ SaveResult(w) \/ Answer(w)
  BY <1>6 DEF Refused, SaveResult, Answer
<1> QED
  BY <1>2, <1>3, <1>4, <1>5, <1>6 DEF WorkerProceeds

\* Every step of the running system is one command to the workbench or none.
LEMMA SystemStepIsACommand ==
  ASSUME IInv, [SystemNext]_systemVars
  PROVE  [Next]_vars
<1>1. CASE Claim
  BY <1>1 DEF Claim, Next
<1>2. CASE CoordinatorProceeds
  BY <1>2, CoordinatorSendsCommands
<1>3. CASE \E w \in Worker : WorkerProceeds(w)
  BY <1>3, WorkerSendsCommands
<1>4. CASE Disruption
  <2>1. CASE FinishLost \/ FailLost \/ CancelLost \/ Shutdown \/ AskCancel \/ Crash
    BY <2>1 DEF FinishLost, FailLost, CancelLost, Shutdown, AskCancel, Crash
  <2>2. CASE \E w \in Worker : WriteLost(w)
    BY <2>2 DEF WriteLost
  <2>3. CASE \E w \in Worker : RetryAttempt(w)
    BY <2>3, WorkerSendsCommands
  <2> QED
    BY <1>4, <2>1, <2>2, <2>3 DEF Disruption
<1>5. CASE Beat
  BY <1>5, HoldsAGeneration DEF Beat, LeaseStep, Next
<1>6. CASE Expire \/ Parent \/ (DeadlinePasses /\ UNCHANGED <<co, faults>>)
  BY <1>6 DEF Expire, Parent, Next
<1>7. CASE UNCHANGED systemVars
  BY <1>7 DEF systemVars
<1> QED
  BY <1>1, <1>2, <1>3, <1>4, <1>5, <1>6, <1>7 DEF SystemNext

\* The rows of a running scan satisfy the workbench's inductive invariant.
LEMMA SystemInvariance == SystemSpec => []IInv
<1>1. SystemInit => IInv
  BY InitIInv DEF SystemInit
<1>2. IInv /\ [SystemNext]_systemVars => IInv'
  BY SystemStepIsACommand, NextKeepsIInv
<1> QED
  BY <1>1, <1>2, PTL DEF SystemSpec

\* Coordinators, workers, crashes, lost replies and adoptions, in any order and
\* for every pool, limit and number of faults, change the rows only as the
\* workbench's specification says.
THEOREM SystemImplementsWorkbench == SystemSpec => Spec
<1>1. SystemInit => Init
  BY DEF SystemInit
<1>2. IInv /\ [SystemNext]_systemVars => [Next]_vars
  BY SystemStepIsACommand
<1> QED
  BY <1>1, <1>2, SystemInvariance, PTL DEF SystemSpec, Spec

\* While a scan runs the ledger folds in each result once, one reducer works at
\* a time, the budget is exact, and a scan that completed had reason to.
THEOREM RunningScanIsSafe ==
  SystemSpec => [](/\ MergedExactlyOnce
                   /\ OneActiveReducer
                   /\ DispatchAccounting
                   /\ SucceededRunIsComplete)
<1>1. IInv => /\ MergedExactlyOnce
              /\ OneActiveReducer
              /\ DispatchAccounting
              /\ SucceededRunIsComplete
  BY DEF IInv
<1> QED
  BY <1>1, SystemInvariance, PTL

-----------------------------------------------------------------------------
(***************************************************************************)
(* The coordinator's own state: its type and the bound of its pool.        *)
(***************************************************************************)

LEMMA DiscoveryIsNoReducer ==
  /\ Discovery \subseteq Worker /\ Reducer \subseteq Worker
  /\ \A d \in Discovery : d \notin Reducer
  /\ Worker \subseteq Nat
  BY WorkbenchAssumption, CoordinatorAssumption DEF Worker

\* Of the fresh labels below a bound, fewer than n come before each label that
\* is taken; so at most n are taken.
LEMMA LabelsAreBounded ==
  ASSUME NEW n \in Nat
  PROVE  Cardinality(NextLabels(Discovery, n)) <= n
<1> DEFINE F == Fresh(Discovery)
           N == NextLabels(Discovery, n)
           Before(w) == {v \in F : v < w}
           f == [w \in N |-> Cardinality(Before(w))]
<1>1. F \subseteq Discovery /\ N \subseteq F /\ F \subseteq Nat
  BY DiscoveryIsNoReducer DEF Fresh, NextLabels
<1>2. \A w \in N : Before(w) \subseteq Discovery /\ f[w] \in 0..(n - 1)
  <2> SUFFICES ASSUME NEW w \in N
               PROVE  Before(w) \subseteq Discovery /\ f[w] \in 0..(n - 1)
    OBVIOUS
  <2>1. Before(w) \subseteq Discovery
    BY <1>1
  <2>2. Cardinality(Before(w)) \in Nat
    BY <2>1, DiscoverySetsFinite
  <2>3. Cardinality(Before(w)) < n
    BY DEF NextLabels
  <2> QED
    BY <2>1, <2>2, <2>3
<1>3. ASSUME NEW v \in N, NEW w \in N, v < w PROVE f[v] < f[w]
  <2>1. Before(v) \cup {v} \subseteq Before(w)
    BY <1>1, <1>3
  <2>2. v \notin Before(v)
    BY <1>1
  <2>3. Cardinality(Before(v) \cup {v}) = Cardinality(Before(v)) + 1
    BY <1>1, <1>2, <2>2, CountOneMore
  <2>4. Cardinality(Before(v) \cup {v}) <= Cardinality(Before(w))
    BY <1>2, <2>1, CountMonotone
  <2>5. Cardinality(Before(v)) \in Nat /\ Cardinality(Before(w)) \in Nat
    BY <1>2, DiscoverySetsFinite
  <2> QED
    BY <2>3, <2>4, <2>5
<1>4. f \in Injection(N, 0..(n - 1))
  <2>1. f \in [N -> 0..(n - 1)]
    BY <1>2
  <2>2. ASSUME NEW v \in N, NEW w \in N, f[v] = f[w] PROVE v = w
    <3>1. v \in Nat /\ w \in Nat /\ f[v] \in Int /\ f[w] \in Int
      BY <1>1, <1>2
    <3>2. ~(v < w) /\ ~(w < v)
      BY <1>3, <2>2, <3>1
    <3> QED
      BY <3>1, <3>2
  <2>3. IsInjective(f)
    BY <2>2 DEF IsInjective
  <2> QED
    BY <2>1, <2>3 DEF Injection
<1>5. IsFiniteSet(0..(n - 1)) /\ Cardinality(0..(n - 1)) = n
  BY FS_Interval
<1>6. Cardinality(N) <= Cardinality(0..(n - 1))
  BY <1>4, <1>5, FS_Injection
<1> QED
  BY <1>5, <1>6

\* No slot, no label.
LEMMA NoSlotNoLabel ==
  ASSUME NEW n \in Int, n <= 0
  PROVE  NextLabels(Discovery, n) = {}
<1> SUFFICES ASSUME NEW w \in NextLabels(Discovery, n) PROVE FALSE
  OBVIOUS
<1>1. {v \in Fresh(Discovery) : v < w} \subseteq Discovery
  BY DEF Fresh
<1>2. Cardinality({v \in Fresh(Discovery) : v < w}) \in Nat
  BY <1>1, DiscoverySetsFinite
<1> QED
  BY <1>2 DEF NextLabels

\* One label is one worker: of two, the smaller would come before the other.
LEMMA OneLabel ==
  ASSUME NEW q \in NextLabels(Reducer, 1), NEW r \in NextLabels(Reducer, 1)
  PROVE  q = r
<1>1. ASSUME NEW v \in NextLabels(Reducer, 1), NEW w \in NextLabels(Reducer, 1),
             v < w
      PROVE  FALSE
  <2> DEFINE S == {u \in Fresh(Reducer) : u < w}
  <2>1. v \in S /\ S \in SUBSET Reducer
    BY <1>1 DEF NextLabels, Fresh
  <2>2. IsFiniteSet(S) /\ Cardinality(S) \in Nat
    BY <2>1, FS_Subset, FS_CardinalityType, CoordinatorAssumption
  <2>3. Cardinality(S) < 1
    BY DEF NextLabels
  <2>4. Cardinality(S) = 0
    BY <2>2, <2>3
  <2> QED
    BY <2>1, <2>2, <2>4, FS_EmptySet
<1>2. q \in Nat /\ r \in Nat
  BY DiscoveryIsNoReducer DEF NextLabels, Fresh
<1> QED
  BY <1>1, <1>2

LEMMA LabelsAreFresh ==
  /\ \A n : NextLabels(Discovery, n) \subseteq Discovery
  /\ \A n : NextLabels(Reducer, n) \subseteq Reducer
  BY DEF NextLabels, Fresh

-----------------------------------------------------------------------------
LEMMA NoCoordinatorType == NoCoordinator \in CoordinatorState
<1>1. <<>> \in Seq(Outcome)
  BY EmptySeq
<1> QED
  BY <1>1 DEF NoCoordinator, CoordinatorState, Mode, Abort, Task

LEMMA StoppingType ==
  ASSUME CoordinatorTypeOK, NEW m \in Mode, NEW a \in Abort
  PROVE  /\ Stopping(m, a) \in CoordinatorState
         /\ Stopping(m, a).mode = m
         /\ Stopping(m, a).settlements = <<>>
         /\ \A w \in Worker : Stopping(m, a).task[w] \in {co.task[w], "none"}
<1>1. co.abort \in Abort /\ co.dstop \in BOOLEAN /\ co.task \in [Worker -> Task]
      /\ co.consumed \in SUBSET Discovery /\ co.asked \in BOOLEAN
  BY DEF CoordinatorTypeOK, CoordinatorState
<1>2. [w \in Worker |-> IF co.task[w] = "settled" THEN "none" ELSE co.task[w]]
        \in [Worker -> Task]
  BY <1>1 DEF Task
<1>3. Stopping(m, a) \in CoordinatorState
  <2> DEFINE task == [w \in Worker |->
                       IF co.task[w] = "settled" THEN "none" ELSE co.task[w]]
             abort == IF co.abort = "no" THEN a ELSE co.abort
             kept == [NoCoordinator EXCEPT
                       !.dstop = co.dstop, !.task = task,
                       !.consumed = co.consumed, !.asked = co.asked]
  <2>1. Stopping(m, a) = [kept EXCEPT !.mode = m, !.abort = abort]
    BY Zenon DEF Stopping
  <2>2. kept \in CoordinatorState
    <3>1. task \in [Worker -> Task]
      BY <1>2
    <3> HIDE DEF task
    <3> QED
      BY <1>1, <3>1, NoCoordinatorType DEF CoordinatorState
  <2>3. abort \in Abort
    BY <1>1
  <2> HIDE DEF kept, abort
  <2> QED
    BY <2>1, <2>2, <2>3 DEF CoordinatorState
<1> QED
  BY <1>3 DEF Stopping, NoCoordinator

\* What a new coordinator reads back from rows of the right type.
LEMMA RecoveredType ==
  ASSUME TypeOK', deadline \in BOOLEAN
  PROVE  LET c == Recovered(status', merge', dispatched', noNew', errors')
         IN /\ c \in CoordinatorState
            /\ c.mode = "working" => c.abort = "no"
            /\ c.settlements = <<>>
            /\ \A w \in Worker : c.task[w] = "none"
<1> DEFINE c == Recovered(status', merge', dispatched', noNew', errors')
<1>1. dispatched' \in Nat /\ noNew' \in Nat /\ errors' \in Nat
  BY DEF TypeOK
<1>2. Buffering(status', merge') \in SUBSET Discovery
  BY DEF Buffering
<1>3. FailureStreak(status') \in Nat
  <2> DEFINE S == {r \in Reducer :
                    /\ status'[r] = "failed"
                    /\ \A q \in Reducer : status'[q] = "succeeded" => q < r}
  <2>1. S \in SUBSET Reducer
    OBVIOUS
  <2>2. IsFiniteSet(S)
    BY <2>1, FS_Subset, CoordinatorAssumption
  <2>3. Cardinality(S) \in Nat
    BY <2>2, FS_CardinalityType
  <2> QED
    BY <2>3 DEF FailureStreak
<1>4. c \in CoordinatorState
  <2> DEFINE
        failed == errors' >= ErrorLimit \/ FailureStreak(status') >= ErrorLimit
        reduced == \E r \in Reducer : status'[r] = "succeeded"
        stop == /\ ~deadline /\ reduced /\ noNew' >= StopAfterNoNew
                /\ Buffering(status', merge') = {}
        mode == IF failed THEN "failing"
                ELSE IF stop THEN "finishing" ELSE "working"
        abort == IF failed THEN "error" ELSE "no"
        why == IF stop /\ ~failed THEN "saturated" ELSE "none"
        counted == [NoCoordinator EXCEPT
                     !.buffer = Buffering(status', merge'),
                     !.dispatched = dispatched', !.noNewStreak = noNew',
                     !.reduced = reduced, !.errors = errors',
                     !.reducerFailures = FailureStreak(status')]
  <2>1. counted \in CoordinatorState
    <3>1. reduced \in BOOLEAN
      OBVIOUS
    <3> HIDE DEF reduced
    <3> QED
      BY <1>1, <1>2, <1>3, <3>1, NoCoordinatorType DEF CoordinatorState
  <2>2. mode \in Mode /\ abort \in Abort /\ why \in {"none", "saturated", "capped"}
    <3> HIDE DEF failed, stop
    <3> QED
      BY DEF Mode, Abort
  <2>3. c = [counted EXCEPT !.mode = mode, !.abort = abort, !.why = why,
                            !.dstop = deadline]
    BY Zenon DEF Recovered
  <2> HIDE DEF c, counted, mode, abort, why
  <2> QED
    BY <2>1, <2>2, <2>3 DEF CoordinatorState
<1>5. /\ c.mode = "working" => c.abort = "no"
      /\ c.settlements = <<>>
      /\ \A w \in Worker : c.task[w] = "none"
  BY DEF Recovered, NoCoordinator
<1> QED
  BY <1>4, <1>5

\* A worker that goes on holds its place.
LEMMA AtType ==
  ASSUME CoordinatorTypeOK, NEW w \in Worker, NEW t \in Task, At(w, t)
  PROVE  /\ co' \in CoordinatorState
         /\ co'.mode = co.mode /\ co'.abort = co.abort /\ co'.dstop = co.dstop
         /\ co'.settlements = co.settlements
         /\ \A v \in Worker : co'.task[v] = IF v = w THEN t ELSE co.task[v]
<1>1. co.task \in [Worker -> Task]
  BY DEF CoordinatorTypeOK, CoordinatorState
<1>2. [co.task EXCEPT ![w] = t] \in [Worker -> Task]
  BY <1>1
<1>3. co' = [co EXCEPT !.task = [co.task EXCEPT ![w] = t]]
  BY DEF At
<1> QED
  BY <1>1, <1>2, <1>3 DEF CoordinatorTypeOK, CoordinatorState

\* A worker that ends queues its outcome while somebody reads it.
LEMMA ReportType ==
  ASSUME CoordinatorTypeOK, NEW w \in Worker, NEW what,
         [who |-> w, what |-> what] \in Outcome, Report(w, what)
  PROVE  /\ co' \in CoordinatorState
         /\ co'.mode = co.mode /\ co'.abort = co.abort /\ co'.dstop = co.dstop
         /\ \/ /\ co.mode \in {"working", "draining"}
               /\ co'.settlements =
                    Append(co.settlements, [who |-> w, what |-> what])
               /\ \A v \in Worker :
                    co'.task[v] = IF v = w THEN "settled" ELSE co.task[v]
            \/ /\ co.mode \notin {"working", "draining"}
               /\ co'.settlements = co.settlements
               /\ \A v \in Worker :
                    co'.task[v] = IF v = w THEN "none" ELSE co.task[v]
<1>1. co.task \in [Worker -> Task] /\ co.settlements \in Seq(Outcome)
  BY DEF CoordinatorTypeOK, CoordinatorState
<1> DEFINE o == [who |-> w, what |-> what]
<1>2. Append(co.settlements, o) \in Seq(Outcome)
  BY <1>1
<1>3. CASE co.mode \in {"working", "draining"}
  <2>1. co' = [co EXCEPT !.task = [co.task EXCEPT ![w] = "settled"],
                         !.settlements = Append(co.settlements, o)]
    BY <1>3 DEF Report
  <2>2. [co.task EXCEPT ![w] = "settled"] \in [Worker -> Task]
    BY <1>1 DEF Task
  <2> QED
    BY <1>1, <1>2, <1>3, <2>1, <2>2 DEF CoordinatorTypeOK, CoordinatorState
<1>4. CASE co.mode \notin {"working", "draining"}
  <2>1. co' = [co EXCEPT !.task = [co.task EXCEPT ![w] = "none"]]
    BY <1>4 DEF Report
  <2>2. [co.task EXCEPT ![w] = "none"] \in [Worker -> Task]
    BY <1>1 DEF Task
  <2> QED
    BY <1>1, <1>4, <2>1, <2>2 DEF CoordinatorTypeOK, CoordinatorState
<1> QED
  BY <1>3, <1>4

-----------------------------------------------------------------------------
\* A row that is over stays as it is, and only its insertion makes a discovery
\* active.
LEMMA RowsOnlyEnd ==
  ASSUME IInv,
         \/ \E g \in Callers :
              \/ LeaseStep(g) \/ WorkerStep(g) \/ ReducerStep(g) \/ StopStep(g)
              \/ \E d \in Discovery : \/ AcceptDiscovery(g, d)
                                      \/ ReplaceDiscovery(g, d)
                                      \/ FailDiscovery(g, d)
         \/ ParentStep \/ LeaseExpires \/ DeadlinePasses \/ UNCHANGED vars
  PROVE  /\ \A w \in Worker : Final(w) => Final(w)' /\ status'[w] = status[w]
         /\ \A d \in Discovery : Active(d)' => Active(d)
<1>1. status \in [Worker -> WorkerStatus]
  BY DEF IInv, TypeOK
<1> DEFINE Kept == \A w \in Worker :
                     Final(w) => Final(w)' /\ status'[w] = status[w]
           Quiet == \A d \in Discovery : Active(d)' => Active(d)
<1> USE DiscoveryIsNoReducer
<1>2. ASSUME status' = status PROVE Kept /\ Quiet
  BY <1>2 DEF Final, Active
<1>3. ASSUME status' = WithActiveCanceled PROVE Kept /\ Quiet
  BY <1>1, <1>3 DEF WithActiveCanceled, Final, Active
<1>4. ASSUME NEW w \in Worker, Active(w), NEW x \in WorkerStatus,
             status' = [status EXCEPT ![w] = x]
      PROVE  Kept /\ Quiet
  BY <1>1, <1>4 DEF Final, Active
<1>5. ASSUME NEW g \in Callers, LeaseStep(g) PROVE Kept /\ Quiet
  BY <1>2, <1>5 DEF LeaseStep, RenewLease, Heartbeat, rowVars
<1>6. ASSUME NEW g \in Callers, WorkerStep(g) PROVE Kept /\ Quiet
  <2>1. PICK w \in Worker :
          \/ \E n \in {"none", "error"} : StartAttempt(g, w, n)
          \/ \E n \in {"none", "shutdown", "error"} : CancelWorker(g, w, n)
    BY <1>6 DEF WorkerStep
  <2>2. /\ Active(w)
        /\ \/ status' = [status EXCEPT ![w] = "running"]
           \/ status' = [status EXCEPT ![w] = "canceled"]
    BY <2>1 DEF StartAttempt, CancelWorker
  <2> QED
    BY <1>4, <2>2 DEF WorkerStatus
<1>7. ASSUME NEW g \in Callers, ReducerStep(g) PROVE Kept /\ Quiet
  <2>1. PICK r \in Reducer :
          \/ \E S \in SUBSET Discovery : ClaimDedup(g, r, S)
          \/ \E new \in {0, 1} : CommitDedup(g, r, new)
          \/ FailReducer(g, r)
    BY <1>7 DEF ReducerStep
  <2>2. CASE \E S \in SUBSET Discovery : ClaimDedup(g, r, S)
    <3>1. status[r] = "none" /\ status' = [status EXCEPT ![r] = "queued"]
      BY <2>2 DEF ClaimDedup
    <3> QED
      BY <1>1, <3>1 DEF Final, Active
  <2>3. CASE (\E new \in {0, 1} : CommitDedup(g, r, new)) \/ FailReducer(g, r)
    <3>1. /\ Active(r)
          /\ \/ status' = [status EXCEPT ![r] = "succeeded"]
             \/ status' = [status EXCEPT ![r] = "failed"]
      BY <2>3 DEF CommitDedup, Committable, FailReducer
    <3> QED
      BY <1>4, <3>1 DEF WorkerStatus
  <2> QED
    BY <2>1, <2>2, <2>3
<1>8. ASSUME NEW g \in Callers, StopStep(g) PROVE Kept /\ Quiet
  <2>1. status' = WithActiveCanceled
    BY <1>8 DEF StopStep, FinishDeepScan, FailDeepScan, StopRun
  <2> QED
    BY <1>3, <2>1
<1>9. ASSUME NEW g \in Callers, NEW d \in Discovery,
             \/ AcceptDiscovery(g, d) \/ ReplaceDiscovery(g, d)
             \/ FailDiscovery(g, d)
      PROVE  Kept /\ Quiet
  <2>1. /\ Active(d)
        /\ \/ status' = [status EXCEPT ![d] = "succeeded"]
           \/ status' = [status EXCEPT ![d] = "canceled"]
           \/ status' = [status EXCEPT ![d] = "failed"]
    BY <1>9 DEF AcceptDiscovery, ReplaceDiscovery, FailDiscovery, Active
  <2> QED
    BY <1>4, <2>1 DEF WorkerStatus
<1>10. ASSUME ParentStep PROVE Kept /\ Quiet
  <2>1. status' = WithActiveCanceled \/ status' = status
    BY <1>10 DEF ParentStep, FailScan, CancelScan, CompleteScan, StopRun, rowVars
  <2> QED
    BY <1>2, <1>3, <2>1
<1>11. ASSUME LeaseExpires \/ DeadlinePasses \/ UNCHANGED vars
       PROVE  Kept /\ Quiet
  BY <1>2, <1>11 DEF LeaseExpires, DeadlinePasses, rowVars, vars
<1> QED
  BY <1>5, <1>6, <1>7, <1>8, <1>9, <1>10, <1>11

\* What a step must respect so that the pool stays bounded.
LEMMA PoolKept ==
  ASSUME PoolIInv, CoordinatorTypeOK',
         \A w \in Worker : Final(w) => Final(w)',
         \A d \in Discovery : Active(d)' \/ co'.task[d] # "none"
                               => Active(d) \/ co.task[d] # "none",
         co'.mode = "working" =>
           /\ co.mode = "working"
           /\ co'.abort = co.abort
           /\ co.dstop => co'.dstop
           /\ ~co'.dstop => \A d \in Discovery :
                Active(d)' /\ co'.task[d] = "none"
                  => Active(d) /\ co.task[d] = "none",
         \A d \in Discovery :
           co'.task[d] = "replying" => Final(d)' \/ co.task[d] = "replying",
         \A i \in DOMAIN co'.settlements :
           \/ \E j \in DOMAIN co.settlements :
                co'.settlements[i] = co.settlements[j]
           \/ Fits(co.settlements[i])'
  PROVE  PoolIInv'
<1>1. PoolHasRoom'
  <2>1. InPool' \subseteq InPool /\ InPool \subseteq Discovery
    BY DEF InPool
  <2>2. Cardinality(InPool') <= Cardinality(InPool)
    BY <2>1, CountMonotone
  <2>3. Cardinality(InPool') \in Nat /\ Cardinality(InPool) \in Nat
    BY <2>1, DiscoverySetsFinite
  <2> QED
    BY <2>2, <2>3, CoordinatorAssumption DEF PoolIInv, PoolHasRoom
<1>2. ActiveIsOwned'
  BY DEF PoolIInv, ActiveIsOwned
<1>3. OutcomesFit'
  <2>1. \A d \in Discovery : co'.task[d] = "replying" => Final(d)'
    BY DiscoveryIsNoReducer DEF PoolIInv, OutcomesFit
  <2>2. ASSUME NEW i \in DOMAIN co'.settlements
        PROVE  Fits(co.settlements[i])'
    <3>1. CASE \E j \in DOMAIN co.settlements :
                 co'.settlements[i] = co.settlements[j]
      <4>1. PICK j \in DOMAIN co.settlements :
              co'.settlements[i] = co.settlements[j]
        BY <3>1
      <4>2. Fits(co.settlements[j])
        BY DEF PoolIInv, OutcomesFit
      <4> QED
        BY <4>1, <4>2, DiscoveryIsNoReducer DEF Fits
    <3> QED
      BY <3>1
  <2> QED
    BY <2>1, <2>2 DEF OutcomesFit
<1> QED
  BY <1>1, <1>2, <1>3 DEF PoolIInv

LEMMA FaultsStayCounted ==
  ASSUME CoordinatorTypeOK, faults' = faults \/ (faults > 0 /\ faults' = faults - 1)
  PROVE  faults' \in 0..MaxFaults
  BY CoordinatorAssumption DEF CoordinatorTypeOK

\* The rows move and the coordinator does not see it.
LEMMA RowsMoveKeepsPool ==
  ASSUME PoolIInv, UNCHANGED <<co, faults>>,
         \A w \in Worker : Final(w) => Final(w)',
         \A d \in Discovery : Active(d)' => Active(d)
  PROVE  PoolIInv'
<1>1. CoordinatorTypeOK'
  BY DEF PoolIInv, CoordinatorTypeOK
<1> QED
  BY <1>1, PoolKept

\* A coordinator that stops starts nothing any more.
LEMMA StoppingKeepsPool ==
  ASSUME PoolIInv, UNCHANGED vars, NEW m \in Mode \ {"working"}, NEW a \in Abort,
         co' = Stopping(m, a) \/ co' = [Stopping(m, a) EXCEPT !.asked = TRUE],
         faults' = faults \/ (faults > 0 /\ faults' = faults - 1)
  PROVE  PoolIInv'
<1> DEFINE c == Stopping(m, a)
<1>0. CoordinatorTypeOK
  BY DEF PoolIInv
<1>1. /\ c \in CoordinatorState /\ c.mode = m /\ c.settlements = <<>>
      /\ \A w \in Worker : c.task[w] \in {co.task[w], "none"}
  BY <1>0, StoppingType
<1>2. /\ co' \in CoordinatorState /\ co'.mode = m /\ co'.settlements = <<>>
      /\ \A w \in Worker : co'.task[w] \in {co.task[w], "none"}
  <2> HIDE DEF c
  <2> QED
    BY <1>1 DEF CoordinatorState, c
<1>3. CoordinatorTypeOK'
  BY <1>0, <1>2, FaultsStayCounted DEF CoordinatorTypeOK
<1>4. \A w \in Worker : (Final(w)' <=> Final(w)) /\ (Active(w)' <=> Active(w))
  BY DEF vars, rowVars, Final, Active
<1> QED
  BY <1>2, <1>3, <1>4, PoolKept, DiscoveryIsNoReducer

\* The process forgets the run, or dies.
LEMMA ForgettingKeepsPool ==
  ASSUME PoolIInv, co' = NoCoordinator,
         faults' = faults \/ (faults > 0 /\ faults' = faults - 1),
         \A w \in Worker : Final(w) => Final(w)',
         \A d \in Discovery : Active(d)' => Active(d)
  PROVE  PoolIInv'
<1>1. CoordinatorTypeOK'
  BY NoCoordinatorType, FaultsStayCounted DEF PoolIInv, CoordinatorTypeOK
<1>2. /\ co'.mode = "absent" /\ co'.settlements = <<>>
      /\ \A d \in Discovery : co'.task[d] = "none"
  BY DiscoveryIsNoReducer DEF NoCoordinator
<1> QED
  BY <1>1, <1>2, PoolKept

\* A worker goes on and holds its place.
LEMMA GoingOnKeepsPool ==
  ASSUME PoolIInv, UNCHANGED faults,
         NEW w \in Worker, NEW t \in Task \ {"none"},
         co.task[w] # "none", At(w, t),
         t = "replying" /\ w \in Discovery => Final(w)',
         \A v \in Worker : Final(v) => Final(v)',
         \A d \in Discovery : Active(d)' => Active(d) \/ d = w
  PROVE  PoolIInv'
<1>0. CoordinatorTypeOK
  BY DEF PoolIInv
<1>1. /\ co' \in CoordinatorState
      /\ co'.mode = co.mode /\ co'.abort = co.abort /\ co'.dstop = co.dstop
      /\ co'.settlements = co.settlements
      /\ \A v \in Worker : co'.task[v] = IF v = w THEN t ELSE co.task[v]
  BY <1>0, AtType
<1>2. CoordinatorTypeOK'
  BY <1>0, <1>1 DEF CoordinatorTypeOK
<1> QED
  BY <1>1, <1>2, PoolKept, DiscoveryIsNoReducer

\* A worker ends: its place is held until the loop reads its outcome.
LEMMA ReportKeepsPool ==
  ASSUME PoolIInv, NEW w \in Worker, NEW what,
         faults' = faults \/ (faults > 0 /\ faults' = faults - 1),
         [who |-> w, what |-> what] \in Outcome,
         co.task[w] # "none", Report(w, what),
         what \in {"accepted", "replaced"} => w \in Discovery /\ Final(w)',
         what = "canceled" => w \in Discovery,
         what \in {"reduced", "redfailed"} => w \in Reducer,
         \A v \in Worker : Final(v) => Final(v)',
         \A d \in Discovery : Active(d)' => Active(d)
  PROVE  PoolIInv'
<1> DEFINE o == [who |-> w, what |-> what]
<1>0. CoordinatorTypeOK /\ co.settlements \in Seq(Outcome)
  BY DEF PoolIInv, CoordinatorTypeOK, CoordinatorState
<1>1. /\ co' \in CoordinatorState
      /\ co'.mode = co.mode /\ co'.abort = co.abort /\ co'.dstop = co.dstop
      /\ \/ /\ co.mode \in {"working", "draining"}
            /\ co'.settlements = Append(co.settlements, o)
            /\ \A v \in Worker :
                 co'.task[v] = IF v = w THEN "settled" ELSE co.task[v]
         \/ /\ co.mode \notin {"working", "draining"}
            /\ co'.settlements = co.settlements
            /\ \A v \in Worker :
                 co'.task[v] = IF v = w THEN "none" ELSE co.task[v]
  BY <1>0, ReportType
<1>2. CoordinatorTypeOK'
  BY <1>0, <1>1, FaultsStayCounted DEF CoordinatorTypeOK
<1>3. ASSUME NEW i \in DOMAIN co'.settlements
      PROVE  \/ \E j \in DOMAIN co.settlements :
                  co'.settlements[i] = co.settlements[j]
             \/ Fits(co.settlements[i])'
  <2>1. CASE co'.settlements = Append(co.settlements, o)
    <3>1. \/ i \in DOMAIN co.settlements
              /\ co'.settlements[i] = co.settlements[i]
          \/ co'.settlements[i] = o
      BY <1>0, <2>1
    <3> QED
      BY <3>1 DEF Fits
  <2> QED
    BY <1>1, <2>1
<1>4. \A d \in Discovery : co'.task[d] # "none" => co.task[d] # "none"
  BY <1>1, DiscoveryIsNoReducer
<1>5. co'.mode = "working" =>
        \A d \in Discovery : co'.task[d] = "none" => co.task[d] = "none"
  BY <1>1, DiscoveryIsNoReducer
<1>6. \A d \in Discovery : co'.task[d] = "replying" => co.task[d] = "replying"
  BY <1>1, DiscoveryIsNoReducer
<1> QED
  BY <1>1, <1>2, <1>3, <1>4, <1>5, <1>6, PoolKept

-----------------------------------------------------------------------------
\* The rows are as they were.
LEMMA RowsStand ==
  ASSUME UNCHANGED vars
  PROVE  /\ \A w \in Worker : Final(w) => Final(w)'
         /\ \A w \in Worker : Active(w)' <=> Active(w)
  BY DEF vars, rowVars, Final, Active

\* The loop fills the slots that are free; as it knows every active discovery,
\* those are the places the pool has left.
LEMMA FillKeepsPool ==
  ASSUME PoolIInv, Fill
  PROVE  PoolIInv'
<1> DEFINE new    == NextLabels(Discovery, Slots)
           count  == co.dispatched + Cardinality(new)
           active == Cardinality(Occupied(Discovery)) + Cardinality(new)
           first  == IF Occupied(Reducer) = {} /\ ReducerReady(active, count)
                       THEN NextLabels(Reducer, 1) ELSE {}
           task1  == [w \in Worker |-> IF w \in new \cup first THEN "spawned"
                                      ELSE co.task[w]]
           consumed1 == IF first = {} THEN co.consumed ELSE co.buffer
           buffer1   == IF first = {} THEN co.buffer ELSE {}
<1>0. CoordinatorTypeOK /\ co \in CoordinatorState /\ UNCHANGED <<vars, faults>>
  BY DEF PoolIInv, CoordinatorTypeOK, Fill
<1>1. new \subseteq Discovery /\ first \subseteq Reducer
  BY LabelsAreFresh
<1>2. Cardinality(new) \in Nat
  BY <1>1, DiscoverySetsFinite
<1>3. co' = [co EXCEPT !.dispatched = count, !.task = task1,
                       !.consumed = consumed1, !.buffer = buffer1]
  BY <1>0 DEF Fill, CoordinatorState
<1>4. /\ count \in Nat /\ task1 \in [Worker -> Task]
      /\ consumed1 \in SUBSET Discovery /\ buffer1 \in SUBSET Discovery
  BY <1>0, <1>2 DEF CoordinatorState, Task
<1>5. /\ co' \in CoordinatorState
      /\ co'.mode = co.mode /\ co'.abort = co.abort /\ co'.dstop = co.dstop
      /\ co'.settlements = co.settlements /\ co'.task = task1
  <2> HIDE DEF count, task1, consumed1, buffer1
  <2> QED
    BY <1>0, <1>3, <1>4 DEF CoordinatorState
<1>6. CoordinatorTypeOK'
  BY <1>0, <1>5 DEF CoordinatorTypeOK
<1>7. \A d \in Discovery : co'.task[d] = IF d \in new THEN "spawned" ELSE co.task[d]
  BY <1>1, <1>5, DiscoveryIsNoReducer
<1>8. \A w \in Worker : (Final(w) => Final(w)') /\ (Active(w)' <=> Active(w))
  BY <1>0, RowsStand
<1>9. PoolHasRoom'
  <2> DEFINE Occ == Occupied(Discovery)
  <2>1. Occ \subseteq Discovery /\ InPool \subseteq Discovery /\ Occ \subseteq InPool
    BY DEF Occupied, InPool
  <2>2. /\ Cardinality(Occ) \in Nat /\ Cardinality(InPool) \in Nat
        /\ Cardinality(Occ) <= Cardinality(InPool)
    BY <2>1, DiscoverySetsFinite, CountMonotone
  <2>3. PoolSize \in Nat /\ Cardinality(InPool) <= PoolSize
    BY CoordinatorAssumption DEF PoolIInv, PoolHasRoom
  <2>4. co.dispatched \in Nat /\ MaxDiscoveryRuns \in Nat
    BY <1>0, WorkbenchAssumption DEF CoordinatorState
  <2>5. /\ Slots \in Int
        /\ Slots > 0 => ~co.dstop /\ Slots <= PoolSize - Cardinality(Occ)
    BY <2>2, <2>3, <2>4 DEF Slots
  <2>6. InPool' = InPool \cup new
    BY <1>1, <1>7, <1>8, DiscoveryIsNoReducer DEF InPool
  <2>7. CASE Slots <= 0
    BY <2>3, <2>5, <2>6, <2>7, NoSlotNoLabel DEF PoolHasRoom
  <2>8. CASE Slots > 0
    <3>1. InPool = Occ
      BY <2>1, <2>5, <2>8 DEF PoolIInv, ActiveIsOwned, Fill, InPool, Occupied
    <3>2. Occ \cap new = {}
      BY DEF Occupied, NextLabels, Fresh
    <3>3. Cardinality(InPool') = Cardinality(Occ) + Cardinality(new)
      BY <1>1, <2>1, <2>6, <3>1, <3>2, CountDisjoint
    <3>4. Cardinality(new) <= Slots
      BY <2>5, <2>8, LabelsAreBounded
    <3> QED
      BY <1>2, <2>2, <2>3, <2>5, <2>8, <3>3, <3>4 DEF PoolHasRoom
  <2> QED
    BY <2>5, <2>7, <2>8
<1>10. ActiveIsOwned'
  BY <1>5, <1>7, <1>8, DiscoveryIsNoReducer DEF PoolIInv, ActiveIsOwned
<1>11. OutcomesFit'
  <2>1. \A d \in Discovery : co'.task[d] = "replying" => Final(d)'
    BY <1>7, <1>8, DiscoveryIsNoReducer DEF PoolIInv, OutcomesFit
  <2>2. \A i \in DOMAIN co'.settlements : Fits(co.settlements[i])'
    BY <1>5, <1>8, DiscoveryIsNoReducer DEF PoolIInv, OutcomesFit, Fits
  <2> QED
    BY <2>1, <2>2 DEF OutcomesFit
<1> QED
  BY <1>6, <1>9, <1>10, <1>11 DEF PoolIInv

\* The loop forgets a worker whose outcome it read and goes on: the row of a
\* discovery is over then, unless the loop starts no more discoveries.
LEMMA ReadingKeepsPool ==
  ASSUME PoolIInv, UNCHANGED <<vars, faults>>, co.settlements # <<>>,
         co' \in CoordinatorState,
         co'.settlements = Tail(co.settlements),
         co'.task = [co.task EXCEPT ![Head(co.settlements).who] = "none"],
         co'.mode = "working" =>
           /\ co.mode = "working"
           /\ co'.abort = co.abort
           /\ co'.dstop = co.dstop
           /\ \/ co.dstop
              \/ Head(co.settlements).who \notin Discovery
              \/ Final(Head(co.settlements).who)
  PROVE  PoolIInv'
<1> DEFINE o == Head(co.settlements)
<1>0. /\ co \in CoordinatorState /\ co.settlements \in Seq(Outcome)
      /\ co.task \in [Worker -> Task]
  BY DEF PoolIInv, CoordinatorTypeOK, CoordinatorState
<1>1. CoordinatorTypeOK'
  BY DEF PoolIInv, CoordinatorTypeOK
<1>2. \A i \in DOMAIN Tail(co.settlements) :
        \E j \in DOMAIN co.settlements :
          Tail(co.settlements)[i] = co.settlements[j]
  BY <1>0, HeadTailProperties, LenProperties
<1>3. \A d \in Discovery :
        co'.task[d] = IF d = o.who THEN "none" ELSE co.task[d]
  BY <1>0, DiscoveryIsNoReducer
<1>4. \A w \in Worker : (Final(w) => Final(w)') /\ (Active(w)' <=> Active(w))
  BY RowsStand
<1>5. \A w \in Worker : Final(w) => ~Active(w)
  BY DEF Final, Active
<1>6. co'.mode = "working" /\ ~co'.dstop =>
        \A d \in Discovery : Active(d)' /\ co'.task[d] = "none"
                              => Active(d) /\ co.task[d] = "none"
  BY <1>3, <1>4, <1>5, DiscoveryIsNoReducer
<1>7. \A d \in Discovery : Active(d)' \/ co'.task[d] # "none"
                            => Active(d) \/ co.task[d] # "none"
  BY <1>3, <1>4, DiscoveryIsNoReducer
<1>8. \A d \in Discovery :
        co'.task[d] = "replying" => Final(d)' \/ co.task[d] = "replying"
  BY <1>3
<1>9. \A i \in DOMAIN co'.settlements :
        \E j \in DOMAIN co.settlements : co'.settlements[i] = co.settlements[j]
  BY <1>2
<1> QED
  BY <1>1, <1>4, <1>6, <1>7, <1>8, <1>9, PoolKept

\* Reading an outcome: the loop goes on, drains its pool or stops.
LEMMA ReadOutcomeKeepsPool ==
  ASSUME IInv, PoolIInv, ReadOutcome
  PROVE  PoolIInv'
<1> DEFINE o    == Head(co.settlements)
           read == [co EXCEPT !.settlements = Tail(@), !.task[o.who] = "none"]
<1>0. /\ co \in CoordinatorState /\ co.settlements # <<>> /\ co.mode = "working"
      /\ UNCHANGED <<vars, faults>> /\ co' = AfterOutcome(o.who, o.what)
  BY DEF PoolIInv, CoordinatorTypeOK, ReadOutcome
<1>1. /\ o \in Outcome /\ Tail(co.settlements) \in Seq(Outcome)
      /\ 1 \in DOMAIN co.settlements /\ o = co.settlements[1]
  BY <1>0, HeadTailProperties, LenProperties, EmptySeq DEF CoordinatorState
<1>2. Fits(o)
  BY <1>1 DEF PoolIInv, OutcomesFit
<1>3. /\ read \in CoordinatorState
      /\ read.settlements = Tail(co.settlements)
      /\ read.task = [co.task EXCEPT ![o.who] = "none"]
      /\ read.mode = co.mode /\ read.abort = co.abort /\ read.dstop = co.dstop
      /\ read.errors = co.errors /\ read.buffer = co.buffer
      /\ read.reducerFailures = co.reducerFailures
  <2>1. co.task \in [Worker -> Task] /\ o.who \in Worker
    BY <1>0, <1>1 DEF CoordinatorState, Outcome
  <2>2. [co.task EXCEPT ![o.who] = "none"] \in [Worker -> Task]
    BY <2>1 DEF Task
  <2>3. read = [co EXCEPT !.settlements = Tail(co.settlements),
                          !.task = [co.task EXCEPT ![o.who] = "none"]]
    BY <1>0 DEF CoordinatorState
  <2> QED
    BY <1>0, <1>1, <2>2, <2>3 DEF CoordinatorState
<1>4. ASSUME co' = Stopping("failing", "error") PROVE PoolIInv'
  <2>1. "failing" \in Mode \ {"working"} /\ "error" \in Abort
    BY DEF Mode, Abort
  <2> QED
    BY <1>0, <1>4, <2>1, StoppingKeepsPool
<1>5. noNew \in Nat
  BY DEF IInv, TypeOK
<1>6. ASSUME co' \in CoordinatorState,
             co'.settlements = read.settlements, co'.task = read.task,
             co'.mode = "working" =>
               /\ co'.abort = co.abort /\ co'.dstop = co.dstop
               /\ co.dstop \/ o.who \notin Discovery \/ Final(o.who)
      PROVE  PoolIInv'
  BY <1>0, <1>3, <1>6, ReadingKeepsPool
<1>7. CASE o.what = "accepted"
  <2>1. co' = [read EXCEPT !.buffer = read.buffer \cup {o.who}, !.errors = 0]
    BY <1>0, <1>7 DEF AfterOutcome
  <2>2. o.who \in Discovery /\ Final(o.who)
    BY <1>2, <1>7 DEF Fits
  <2>3. /\ co' \in CoordinatorState /\ co'.settlements = read.settlements
        /\ co'.task = read.task /\ co'.abort = co.abort /\ co'.dstop = co.dstop
    <3> HIDE DEF read
    <3> QED
      BY <1>3, <2>1, <2>2 DEF CoordinatorState
  <2> QED
    BY <1>6, <2>2, <2>3
<1>8. CASE o.what = "replaced"
  <2>1. \/ co' = [read EXCEPT !.errors = read.errors + 1, !.lastFailure = TRUE]
        \/ co' = Stopping("failing", "error")
    BY <1>0, <1>8 DEF AfterOutcome
  <2>2. Final(o.who)
    BY <1>2, <1>8 DEF Fits
  <2>3. CASE co' = [read EXCEPT !.errors = read.errors + 1, !.lastFailure = TRUE]
    <3>1. /\ co' \in CoordinatorState /\ co'.settlements = read.settlements
          /\ co'.task = read.task /\ co'.abort = co.abort /\ co'.dstop = co.dstop
      <4> HIDE DEF read
      <4>1. read.errors + 1 \in Nat
        BY <1>3 DEF CoordinatorState
      <4> QED
        BY <4>1, <1>3, <2>3 DEF CoordinatorState
    <3> QED
      BY <1>6, <2>2, <3>1
  <2> QED
    BY <1>4, <2>1, <2>3
<1>9. CASE o.what = "canceled"
  <2>1. \/ DiscoveryAborted /\ co' = read
        \/ co' = Stopping("failing", "error")
    BY <1>0, <1>9 DEF AfterOutcome
  <2>2. DiscoveryAborted => co.dstop
    BY <1>0 DEF DiscoveryAborted, PoolIInv, ActiveIsOwned
  <2>3. CASE DiscoveryAborted /\ co' = read
    BY <1>3, <1>6, <2>2, <2>3
  <2> QED
    BY <1>4, <2>1, <2>3
<1>10. CASE o.what = "reduced"
  <2> DEFINE done == [read EXCEPT !.reducerFailures = 0, !.consumed = {},
                        !.noNewStreak = noNew, !.reduced = TRUE]
  <2>1. \/ co' = [done EXCEPT !.mode = "draining", !.why = "saturated",
                              !.abort = "saturated"]
        \/ co' = done
    BY <1>0, <1>10 DEF AfterOutcome
  <2>2. /\ done \in CoordinatorState /\ done.settlements = read.settlements
        /\ done.task = read.task
        /\ done.abort = co.abort /\ done.dstop = co.dstop
    <3> HIDE DEF read
    <3> QED
      BY <1>3, <1>5 DEF CoordinatorState
  <2>3. /\ co' \in CoordinatorState /\ co'.settlements = read.settlements
        /\ co'.task = read.task
        /\ \/ co'.mode = "draining"
           \/ co'.abort = co.abort /\ co'.dstop = co.dstop
    <3> HIDE DEF done
    <3>1. CASE co' = done
      BY <2>2, <3>1
    <3>2. CASE co' = [done EXCEPT !.mode = "draining", !.why = "saturated",
                                  !.abort = "saturated"]
      <4>1. "draining" \in Mode /\ "saturated" \in Abort
        BY DEF Mode, Abort
      <4> QED
        BY <2>2, <3>2, <4>1 DEF CoordinatorState
    <3> QED
      BY <2>1, <3>1, <3>2
  <2>4. o.who \notin Discovery
    BY <1>2, <1>10, DiscoveryIsNoReducer DEF Fits
  <2> QED
    BY <1>6, <2>3, <2>4
<1>11. CASE o.what = "redfailed"
  <2>1. \/ co' = [read EXCEPT !.reducerFailures = read.reducerFailures + 1,
                             !.buffer = BufferedAgain, !.consumed = {}]
        \/ co' = Stopping("failing", "error")
    BY <1>0, <1>11 DEF AfterOutcome
  <2>2. o.who \notin Discovery
    BY <1>2, <1>11, DiscoveryIsNoReducer DEF Fits
  <2>3. BufferedAgain \in SUBSET Discovery
    BY <1>0 DEF BufferedAgain, CoordinatorState
  <2>4. CASE co' = [read EXCEPT !.reducerFailures = read.reducerFailures + 1,
                                !.buffer = BufferedAgain, !.consumed = {}]
    <3>1. /\ co' \in CoordinatorState /\ co'.settlements = read.settlements
          /\ co'.task = read.task /\ co'.abort = co.abort /\ co'.dstop = co.dstop
      <4> HIDE DEF read
      <4>1. read.reducerFailures + 1 \in Nat
        BY <1>3 DEF CoordinatorState
      <4> QED
        BY <4>1, <1>3, <2>3, <2>4 DEF CoordinatorState
    <3> QED
      BY <1>6, <2>2, <3>1
  <2> QED
    BY <1>4, <2>1, <2>4
<1>12. CASE o.what \in {"failed", "rejected"}
  BY <1>0, <1>4, <1>12 DEF AfterOutcome
<1>13. o.what \in {"accepted", "replaced", "canceled", "failed",
                   "reduced", "redfailed", "rejected"}
  BY <1>1 DEF Outcome
<1> QED
  BY <1>7, <1>8, <1>9, <1>10, <1>11, <1>12, <1>13

\* The other turns of the loop, and what stops it from outside.
LEMMA LoopKeepsPool ==
  ASSUME IInv, PoolIInv,
         \/ Exhausted \/ ReconcileLate \/ Drained \/ FinishRefused \/ FinishLost
         \/ LoseOwnership \/ Shutdown \/ AskCancel \/ ReachDeadline
  PROVE  PoolIInv'
<1>0. /\ CoordinatorTypeOK /\ co \in CoordinatorState /\ UNCHANGED vars
      /\ faults' = faults \/ (faults > 0 /\ faults' = faults - 1)
  BY DEF PoolIInv, CoordinatorTypeOK, Exhausted, ReconcileLate, Drained,
     FinishRefused, FinishLost, LoseOwnership, Shutdown, AskCancel, ReachDeadline
<1>1. ASSUME NEW m \in {"failing", "leaving"},
             NEW a \in {"error", "lost", "shutdown", "cancel"},
             \/ co' = Stopping(m, a)
             \/ co' = [Stopping(m, a) EXCEPT !.asked = TRUE]
      PROVE  PoolIInv'
  <2>1. m \in Mode \ {"working"} /\ a \in Abort
    BY DEF Mode, Abort
  <2> QED
    BY <1>0, <1>1, <2>1, StoppingKeepsPool
<1>2. ASSUME co' \in CoordinatorState, UNCHANGED faults,
             co'.task = co.task, co'.settlements = co.settlements,
             co'.mode = "working" =>
               /\ co.mode = "working" /\ co'.abort = co.abort
               /\ co.dstop => co'.dstop
      PROVE  PoolIInv'
  <2>1. CoordinatorTypeOK'
    BY <1>0, <1>2 DEF CoordinatorTypeOK
  <2>2. /\ \A w \in Worker : Final(w) => Final(w)'
        /\ \A d \in Discovery : Active(d)' <=> Active(d)
    BY <1>0, RowsStand, DiscoveryIsNoReducer
  <2> QED
    BY <1>2, <2>1, <2>2, PoolKept
<1>3. CASE Exhausted
  <2>1. \/ co' = Stopping("failing", "error")
        \/ co' = [co EXCEPT !.mode = "finishing", !.why = "capped"]
    BY <1>3 DEF Exhausted
  <2>2. CASE co' = [co EXCEPT !.mode = "finishing", !.why = "capped"]
    <3>1. /\ co' \in CoordinatorState /\ co'.task = co.task
          /\ co'.settlements = co.settlements /\ co'.mode = "finishing"
      BY <1>0, <2>2 DEF CoordinatorState, Mode
    <3> QED
      BY <1>2, <1>3, <3>1 DEF Exhausted
  <2> QED
    BY <1>1, <2>1, <2>2
<1>4. CASE Drained
  <2>1. co' = [co EXCEPT !.mode = "finishing"] /\ UNCHANGED faults
    BY <1>4 DEF Drained
  <2>2. /\ co' \in CoordinatorState /\ co'.task = co.task
        /\ co'.settlements = co.settlements /\ co'.mode = "finishing"
    BY <1>0, <2>1 DEF CoordinatorState, Mode
  <2> QED
    BY <1>2, <2>1, <2>2
<1>5. CASE ReachDeadline
  <2>1. co' = [co EXCEPT !.dstop = TRUE] /\ UNCHANGED faults
        /\ co.mode = "working"
    BY <1>5 DEF ReachDeadline
  <2>2. /\ co' \in CoordinatorState /\ co'.task = co.task /\ co'.dstop
        /\ co'.settlements = co.settlements /\ co'.abort = co.abort
    BY <1>0, <2>1 DEF CoordinatorState
  <2> QED
    BY <1>2, <2>1, <2>2
<1>6. CASE ReconcileLate
  <2> DEFINE o        == Head(co.settlements)
             task1    == [co.task EXCEPT ![o.who] = "none"]
             omitted1 == IF o.what = "accepted" THEN co.omitted \cup {o.who}
                         ELSE co.omitted
  <2>1. /\ co.mode = "draining" /\ co.settlements # <<>> /\ UNCHANGED faults
        /\ co' = [co EXCEPT !.settlements = Tail(co.settlements),
                            !.task = task1, !.omitted = omitted1]
    BY <1>0, <1>6 DEF ReconcileLate, CoordinatorState
  <2>2. /\ o \in Outcome /\ Tail(co.settlements) \in Seq(Outcome)
        /\ 1 \in DOMAIN co.settlements /\ o = co.settlements[1]
    BY <1>0, <2>1, HeadTailProperties, LenProperties, EmptySeq
       DEF CoordinatorState
  <2>3. Fits(o)
    BY <2>2 DEF PoolIInv, OutcomesFit
  <2>4. task1 \in [Worker -> Task] /\ omitted1 \in SUBSET Discovery
    BY <1>0, <2>2, <2>3 DEF CoordinatorState, Outcome, Task, Fits
  <2>5. /\ co' \in CoordinatorState /\ co'.task = task1 /\ co'.mode = "draining"
        /\ co'.settlements = Tail(co.settlements)
    <3> HIDE DEF task1, omitted1
    <3> QED
      BY <1>0, <2>1, <2>2, <2>4 DEF CoordinatorState
  <2> QED
    BY <1>0, <2>1, <2>5, ReadingKeepsPool
<1>7. CASE FinishRefused \/ FinishLost \/ LoseOwnership \/ Shutdown \/ AskCancel
  <2>1. \/ co' = Stopping("failing", "error")
        \/ co' = Stopping("leaving", "lost")
        \/ co' = Stopping("leaving", "shutdown")
        \/ co' = [Stopping("leaving", "cancel") EXCEPT !.asked = TRUE]
    BY <1>7 DEF FinishRefused, FinishLost, LoseOwnership, Shutdown, AskCancel
  <2> QED
    BY <1>1, <2>1
<1> QED
  BY <1>3, <1>4, <1>5, <1>6, <1>7

\* A coordinator that takes over finds no active row: recovery canceled them,
\* or nothing had been dispatched.
LEMMA ClaimKeepsPool ==
  ASSUME IInv, IInv', PoolIInv, Claim
  PROVE  PoolIInv'
<1> DEFINE c == Recovered(status', merge', dispatched', noNew', errors')
<1>1. AdoptCoordinator /\ co' = c /\ UNCHANGED faults
  BY DEF Claim
<1>2. TypeOK' /\ deadline \in BOOLEAN /\ TypeOK
  BY DEF IInv, TypeOK
<1>3. /\ c \in CoordinatorState
      /\ c.mode = "working" => c.abort = "no"
      /\ c.settlements = <<>>
      /\ \A w \in Worker : c.task[w] = "none"
  BY <1>2, RecoveredType
<1>4. CoordinatorTypeOK'
  BY <1>1, <1>3 DEF PoolIInv, CoordinatorTypeOK
<1>5. \A w \in Worker : ~Active(w)'
  <2>1. CASE NeedsRecovery
    BY <1>1, <2>1 DEF AdoptCoordinator, RecoverExpiredCoordinator,
       WithActiveCanceled, Active
  <2>2. CASE ~NeedsRecovery
    BY <1>1, <2>2 DEF AdoptCoordinator, NeedsRecovery, rowVars, IInv,
       SetupIsEmpty, Active
  <2> QED
    BY <2>1, <2>2
<1>6. InPool' = {}
  BY <1>1, <1>3, <1>5, DiscoveryIsNoReducer DEF InPool
<1>7. PoolHasRoom'
  BY <1>6, FS_EmptySet, CoordinatorAssumption DEF PoolHasRoom
<1>8. ActiveIsOwned' /\ OutcomesFit'
  BY <1>1, <1>3, <1>5, DiscoveryIsNoReducer DEF ActiveIsOwned, OutcomesFit
<1> QED
  BY <1>4, <1>7, <1>8 DEF PoolIInv

\* The commands of a discovery worker.
LEMMA DiscoveryWorkerKeepsPool ==
  ASSUME IInv, PoolIInv, NEW d \in Discovery,
         InsertDiscovery(d) \/ StoreDiscovery(d) \/ GiveUpDiscovery(d)
  PROVE  PoolIInv'
<1>1. generation \in Callers /\ d \in Worker
  BY HoldsAGeneration, DiscoveryIsNoReducer
<1>2. status \in [Worker -> WorkerStatus]
  BY DEF IInv, TypeOK
<1>3. CASE InsertDiscovery(d)
  <2>1. /\ co.task[d] # "none" /\ At(d, "queued") /\ UNCHANGED faults
        /\ status[d] = "none" /\ status' = [status EXCEPT ![d] = "queued"]
    BY <1>3 DEF InsertDiscovery, NewDiscovery
  <2>2. /\ \A w \in Worker : Final(w) => Final(w)'
        /\ \A e \in Discovery : Active(e)' => Active(e) \/ e = d
    BY <1>2, <2>1, DiscoveryIsNoReducer DEF Final, Active
  <2>3. "queued" \in Task \ {"none"}
    BY DEF Task
  <2> QED
    BY <1>1, <2>1, <2>2, <2>3, GoingOnKeepsPool
<1>4. CASE StoreDiscovery(d)
  <2>1. /\ co.task[d] # "none" /\ At(d, "replying") /\ UNCHANGED faults
        /\ AcceptDiscovery(generation, d)
        /\ status' = [status EXCEPT ![d] = "succeeded"]
    BY <1>4 DEF StoreDiscovery, AcceptDiscovery
  <2>2. /\ \A w \in Worker : Final(w) => Final(w)'
        /\ \A e \in Discovery : Active(e)' => Active(e)
    BY <1>1, <2>1, RowsOnlyEnd
  <2>3. Final(d)'
    BY <1>1, <1>2, <2>1 DEF Final
  <2>4. "replying" \in Task \ {"none"}
    BY DEF Task
  <2> QED
    BY <1>1, <2>1, <2>2, <2>3, <2>4, GoingOnKeepsPool
<1>5. CASE GiveUpDiscovery(d)
  <2>1. /\ co.task[d] # "none" /\ UNCHANGED faults
        /\ \/ ReplaceDiscovery(generation, d) /\ Report(d, "replaced")
           \/ FailDiscovery(generation, d) /\ Report(d, "failed")
    BY <1>5 DEF GiveUpDiscovery
  <2>2. /\ \A w \in Worker : Final(w) => Final(w)'
        /\ \A e \in Discovery : Active(e)' => Active(e)
    BY <1>1, <2>1, RowsOnlyEnd
  <2>3. [who |-> d, what |-> "replaced"] \in Outcome
        /\ [who |-> d, what |-> "failed"] \in Outcome
    BY <1>1 DEF Outcome
  <2>4. CASE ReplaceDiscovery(generation, d) /\ Report(d, "replaced")
    <3>1. Final(d)'
      BY <1>1, <1>2, <2>4 DEF ReplaceDiscovery, Final
    <3> QED
      BY <1>1, <2>1, <2>2, <2>3, <2>4, <3>1, ReportKeepsPool
  <2>5. CASE FailDiscovery(generation, d) /\ Report(d, "failed")
    BY <1>1, <2>1, <2>2, <2>3, <2>5, ReportKeepsPool
  <2> QED
    BY <2>1, <2>4, <2>5
<1> QED
  BY <1>3, <1>4, <1>5

\* The commands of a reducer.
LEMMA ReducerKeepsPool ==
  ASSUME IInv, PoolIInv, NEW r \in Reducer,
         \/ InsertReducer(r) \/ GiveUpReducer(r)
         \/ \E new \in {0, 1} : StoreReduction(r, new)
  PROVE  PoolIInv'
<1>1. generation \in Callers /\ r \in Worker /\ r \notin Discovery
  BY HoldsAGeneration, DiscoveryIsNoReducer
<1>2. ReducerStep(generation) /\ UNCHANGED faults
  BY <1>1, ClaimIsACommand
     DEF InsertReducer, GiveUpReducer, StoreReduction, ReducerStep
<1>3. /\ \A w \in Worker : Final(w) => Final(w)'
      /\ \A e \in Discovery : Active(e)' => Active(e)
  BY <1>1, <1>2, RowsOnlyEnd
<1>4. "queued" \in Task \ {"none"} /\ "replying" \in Task \ {"none"}
  BY DEF Task
<1>5. CASE InsertReducer(r) \/ \E new \in {0, 1} : StoreReduction(r, new)
  <2>1. co.task[r] # "none" /\ (At(r, "queued") \/ At(r, "replying"))
    BY <1>5 DEF InsertReducer, StoreReduction
  <2> QED
    BY <1>1, <1>2, <1>3, <1>4, <2>1, GoingOnKeepsPool
<1>6. CASE GiveUpReducer(r)
  <2>1. co.task[r] # "none" /\ (Report(r, "redfailed") \/ Report(r, "rejected"))
    BY <1>6 DEF GiveUpReducer
  <2>2. [who |-> r, what |-> "redfailed"] \in Outcome
        /\ [who |-> r, what |-> "rejected"] \in Outcome
    BY <1>1 DEF Outcome
  <2> QED
    BY <1>1, <1>2, <1>3, <2>1, <2>2, ReportKeepsPool
<1> QED
  BY <1>5, <1>6

\* What workers of both kinds do.
LEMMA AttemptKeepsPool ==
  ASSUME IInv, PoolIInv, NEW w \in Worker,
         \/ BeginAttempt(w) \/ RetryAttempt(w) \/ AbandonAttempt(w)
         \/ SaveResult(w) \/ Answer(w) \/ Refused(w) \/ WriteLost(w)
  PROVE  PoolIInv'
<1>1. generation \in Callers
  BY HoldsAGeneration
<1>2. /\ \A v \in Worker : Final(v) => Final(v)'
      /\ \A e \in Discovery : Active(e)' => Active(e)
  <2>1. CASE BeginAttempt(w) \/ RetryAttempt(w) \/ AbandonAttempt(w)
    <3>1. CancellationNote(w) \in {"none", "shutdown", "error"}
      BY DEF CancellationNote
    <3>2. WorkerStep(generation)
      BY <2>1, <3>1 DEF BeginAttempt, RetryAttempt, AbandonAttempt, WorkerStep
    <3> QED
      BY <1>1, <3>2, RowsOnlyEnd
  <2>2. CASE SaveResult(w) \/ Answer(w) \/ Refused(w) \/ WriteLost(w)
    BY <2>2, RowsStand, DiscoveryIsNoReducer
       DEF SaveResult, Answer, Refused, WriteLost
  <2> QED
    BY <2>1, <2>2
<1>3. "running" \in Task \ {"none"} /\ "saving" \in Task \ {"none"}
  BY DEF Task
<1>4. \A what \in {"canceled", "rejected", "accepted", "reduced"} :
        [who |-> w, what |-> what] \in Outcome
  BY DEF Outcome
<1>5. CASE BeginAttempt(w) \/ SaveResult(w)
  <2>1. /\ co.task[w] # "none" /\ (At(w, "running") \/ At(w, "saving"))
        /\ UNCHANGED faults
    BY <1>5 DEF BeginAttempt, SaveResult
  <2> QED
    BY <1>2, <1>3, <2>1, GoingOnKeepsPool
<1>6. CASE RetryAttempt(w)
  BY <1>2, <1>6, RowsMoveKeepsPool DEF RetryAttempt
<1>7. CASE AbandonAttempt(w) \/ Refused(w) \/ WriteLost(w)
  <2>1. /\ co.task[w] # "none"
        /\ (w \in Discovery /\ Report(w, "canceled")) \/ Report(w, "rejected")
        /\ faults' = faults \/ (faults > 0 /\ faults' = faults - 1)
    BY <1>7 DEF AbandonAttempt, Refused, WriteLost, SendsRefused,
       Cancellation, AfterFailedWrite
  <2> QED
    BY <1>2, <1>4, <2>1, ReportKeepsPool
<1>8. CASE Answer(w)
  <2>1. /\ co.task[w] = "replying" /\ UNCHANGED <<vars, faults>>
        /\ Report(w, IF w \in Discovery THEN "accepted" ELSE "reduced")
    BY <1>8 DEF Answer
  <2>2. CASE w \in Discovery
    <3>1. Final(w)'
      BY <1>2, <2>1, <2>2 DEF PoolIInv, OutcomesFit
    <3> QED
      BY <1>2, <1>4, <2>1, <2>2, <3>1, ReportKeepsPool
  <2>3. CASE w \notin Discovery
    <3>1. w \in Reducer
      BY <2>3 DEF Worker
    <3> QED
      BY <1>2, <1>4, <2>1, <2>3, <3>1, ReportKeepsPool
  <2> QED
    BY <2>2, <2>3
<1> QED
  BY <1>5, <1>6, <1>7, <1>8

\* Every step of the running system keeps the pool's invariant.
LEMMA NextKeepsPool ==
  ASSUME IInv, IInv', PoolIInv, [SystemNext]_systemVars
  PROVE  PoolIInv'
<1>1. generation \in Callers
  BY HoldsAGeneration
<1>2. CASE Claim
  BY <1>2, ClaimKeepsPool
<1>3. CASE Fill
  BY <1>3, FillKeepsPool
<1>4. CASE ReadOutcome
  BY <1>4, ReadOutcomeKeepsPool
<1>5. CASE \/ Exhausted \/ ReconcileLate \/ Drained \/ FinishRefused \/ FinishLost
           \/ LoseOwnership \/ Shutdown \/ AskCancel \/ ReachDeadline
  BY <1>5, LoopKeepsPool
<1>6. CASE Finish \/ Fail \/ PersistCancel
  <2>1. StopStep(generation) \/ ParentStep
    BY <1>1, <1>6, FinishIsACommand
       DEF Finish, Fail, PersistCancel, ParentStep, StopStep
  <2>2. co' = NoCoordinator /\ UNCHANGED faults
    BY <1>6 DEF Finish, Fail, PersistCancel
  <2> QED
    BY <1>1, <2>1, <2>2, RowsOnlyEnd, ForgettingKeepsPool
<1>7. CASE FailLost \/ CancelLost \/ Leave \/ Crash
  <2>1. /\ co' = NoCoordinator /\ UNCHANGED vars
        /\ faults' = faults \/ (faults > 0 /\ faults' = faults - 1)
    BY <1>7 DEF FailLost, CancelLost, Leave, Crash
  <2> QED
    BY <2>1, RowsStand, DiscoveryIsNoReducer, ForgettingKeepsPool
<1>8. CASE \E w \in Worker : WorkerProceeds(w)
  <2>1. PICK w \in Worker : WorkerProceeds(w)
    BY <1>8
  <2>2. \/ /\ w \in Discovery
           /\ InsertDiscovery(w) \/ StoreDiscovery(w) \/ GiveUpDiscovery(w)
        \/ /\ w \in Reducer
           /\ \/ InsertReducer(w) \/ GiveUpReducer(w)
              \/ \E new \in {0, 1} : StoreReduction(w, new)
        \/ BeginAttempt(w) \/ AbandonAttempt(w) \/ Refused(w)
        \/ SaveResult(w) \/ Answer(w)
    BY <2>1 DEF WorkerProceeds
  <2> QED
    BY <2>2, DiscoveryWorkerKeepsPool, ReducerKeepsPool, AttemptKeepsPool
<1>9. CASE \E w \in Worker : WriteLost(w) \/ RetryAttempt(w)
  BY <1>9, AttemptKeepsPool
<1>10. CASE \/ Beat \/ Expire \/ Parent
            \/ DeadlinePasses /\ UNCHANGED <<co, faults>>
  <2>1. /\ LeaseStep(generation) \/ LeaseExpires \/ ParentStep \/ DeadlinePasses
        /\ UNCHANGED <<co, faults>>
    BY <1>10 DEF Beat, Expire, Parent, LeaseStep
  <2> QED
    BY <1>1, <2>1, RowsOnlyEnd, RowsMoveKeepsPool
<1>11. CASE UNCHANGED systemVars
  BY <1>11, RowsStand, DiscoveryIsNoReducer, RowsMoveKeepsPool DEF systemVars
<1> QED
  BY <1>2, <1>3, <1>4, <1>5, <1>6, <1>7, <1>8, <1>9, <1>10, <1>11
     DEF SystemNext, CoordinatorProceeds, Disruption

LEMMA SystemInitPool ==
  ASSUME SystemInit
  PROVE  PoolIInv
<1>1. /\ Init /\ co = NoCoordinator /\ faults = MaxFaults
  BY DEF SystemInit
<1>2. CoordinatorTypeOK
  BY <1>1, NoCoordinatorType, CoordinatorAssumption DEF CoordinatorTypeOK
<1>3. InPool = {} /\ ActiveIsOwned /\ OutcomesFit
  <2>1. /\ co.mode = "absent" /\ co.settlements = <<>>
        /\ \A w \in Worker : co.task[w] = "none"
    BY <1>1 DEF NoCoordinator
  <2>2. \A w \in Worker : ~Active(w)
    BY <1>1 DEF Init, Active
  <2>3. InPool = {}
    BY <2>1, <2>2, DiscoveryIsNoReducer DEF InPool
  <2>4. ActiveIsOwned
    BY <2>1 DEF ActiveIsOwned
  <2>5. OutcomesFit
    BY <2>1, DiscoveryIsNoReducer DEF OutcomesFit
  <2> QED
    BY <2>3, <2>4, <2>5
<1>4. PoolHasRoom
  BY <1>3, FS_EmptySet, CoordinatorAssumption DEF PoolHasRoom
<1> QED
  BY <1>2, <1>3, <1>4 DEF PoolIInv

\* The pool's invariant holds of a scan as it runs: it needs that of the rows,
\* which says that a run still in setup has no row.
LEMMA PoolInvariance == SystemSpec => []PoolIInv
<1>1. SystemInit => PoolIInv
  BY SystemInitPool
<1>2. IInv /\ IInv' /\ PoolIInv /\ [SystemNext]_systemVars => PoolIInv'
  BY NextKeepsPool
<1> QED
  BY <1>1, <1>2, SystemInvariance, PTL DEF SystemSpec

\* The coordinator's state, its faults included, has its type.
THEOREM CoordinatorTypeCorrect == SystemSpec => []CoordinatorTypeOK
<1>1. PoolIInv => CoordinatorTypeOK
  BY DEF PoolIInv
<1> QED
  BY <1>1, PoolInvariance, PTL

\* The pool never holds more discoveries than configured, for any pool, budget,
\* number of labels and number of coordinators that take over from each other.
THEOREM PoolStaysBounded == SystemSpec => []PoolBounded
<1>1. PoolIInv => PoolBounded
  <2> SUFFICES ASSUME PoolIInv PROVE PoolBounded
    OBVIOUS
  <2> DEFINE Live == {d \in Discovery : Active(d)}
  <2>1. Live \subseteq InPool /\ InPool \subseteq Discovery
    BY DEF InPool
  <2>2. /\ Cardinality(Live) <= Cardinality(InPool)
        /\ Cardinality(Live) \in Nat /\ Cardinality(InPool) \in Nat
    BY <2>1, CountMonotone, DiscoverySetsFinite
  <2> QED
    BY <2>2, CoordinatorAssumption DEF PoolIInv, PoolHasRoom, PoolBounded
<1> QED
  BY <1>1, PoolInvariance, PTL

-----------------------------------------------------------------------------
(***************************************************************************)
(* No accepted result is forgotten, as long as no write was lost.          *)
(***************************************************************************)

\* The results the loop has to know of are those that are not merged.
LEMMA UnmergedResults ==
  ASSUME IInv
  PROVE  /\ Buffered \cup Merging
              = {d \in Discovery : status[d] = "succeeded" /\ merge[d] # "merged"}
         /\ Merged \subseteq Discovery
<1>1. \A d \in Discovery : /\ merge[d] \in {"none", "buffered", "merging", "merged"}
                           /\ merge[d] # "none" <=> status[d] = "succeeded"
  BY DEF IInv, TypeOK, MergeMatchesStatus, MergeState
<1> QED
  BY <1>1 DEF Buffered, Merging, Merged

\* Rows that are over stay, and what is merged stays merged.
LEMMA RowsGoOn ==
  ASSUME IInv, IInv', [Next]_vars
  PROVE  /\ \A w \in Worker : Final(w) => status'[w] = status[w]
         /\ \A r \in Reducer : status[r] # "none" => inputs'[r] = inputs[r]
         /\ Merged \subseteq Merged'
<1>1. /\ status \in [Worker -> WorkerStatus]
      /\ inputs \in [Reducer -> SUBSET Discovery]
  BY DEF IInv, TypeOK
<1>2. \A w \in Worker : Final(w) => status'[w] = status[w]
  <2>1. CASE AdoptCoordinator
    <3>1. status' = WithActiveCanceled \/ status' = status
      BY <2>1 DEF AdoptCoordinator, RecoverExpiredCoordinator, rowVars
    <3> QED
      BY <3>1 DEF WithActiveCanceled, Final, Active
  <2>2. CASE \E g \in Callers : DiscoveryStep(g)
    <3>1. PICK g \in Callers, d \in Discovery :
            \/ \E s \in {"queued", "running"} : NewDiscovery(g, d, s)
            \/ AcceptDiscovery(g, d) \/ ReplaceDiscovery(g, d)
            \/ FailDiscovery(g, d)
      BY <2>2 DEF DiscoveryStep
    <3>2. CASE \E s \in {"queued", "running"} : NewDiscovery(g, d, s)
      BY <1>1, <3>2, DiscoveryIsNoReducer DEF NewDiscovery, Final
    <3> QED
      BY <3>1, <3>2, RowsOnlyEnd
  <2>3. CASE \/ \E g \in Callers : \/ LeaseStep(g) \/ WorkerStep(g)
                                   \/ ReducerStep(g) \/ StopStep(g)
             \/ ParentStep \/ LeaseExpires \/ DeadlinePasses \/ UNCHANGED vars
    BY <2>3, RowsOnlyEnd
  <2> QED
    BY <2>1, <2>2, <2>3 DEF Next
<1>3. \A r \in Reducer : status[r] # "none" => inputs'[r] = inputs[r]
  <2>1. CASE \E g \in Callers : ReducerStep(g)
    <3>1. PICK g \in Callers, r \in Reducer :
            \/ \E S \in SUBSET Discovery : ClaimDedup(g, r, S)
            \/ \E new \in {0, 1} : CommitDedup(g, r, new)
            \/ FailReducer(g, r)
      BY <2>1 DEF ReducerStep
    <3>2. CASE \E S \in SUBSET Discovery : ClaimDedup(g, r, S)
      BY <1>1, <3>2 DEF ClaimDedup
    <3>3. CASE (\E new \in {0, 1} : CommitDedup(g, r, new)) \/ FailReducer(g, r)
      BY <3>3 DEF CommitDedup, FailReducer
    <3> QED
      BY <3>1, <3>2, <3>3
  <2>2. CASE \E g \in Callers : LeaseStep(g) \/ StopStep(g)
    BY <2>2 DEF LeaseStep, RenewLease, Heartbeat, StopStep, FinishDeepScan,
       FailDeepScan, StopRun, rowVars
  <2>3. CASE \E g \in Callers : DiscoveryStep(g) \/ WorkerStep(g)
    BY <2>3 DEF DiscoveryStep, WorkerStep, NewDiscovery, AcceptDiscovery,
       ReplaceDiscovery, FailDiscovery, StartAttempt, CancelWorker
  <2>4. CASE \/ AdoptCoordinator \/ ParentStep \/ LeaseExpires
             \/ DeadlinePasses \/ UNCHANGED vars
    BY <2>4 DEF AdoptCoordinator, RecoverExpiredCoordinator, ParentStep, FailScan,
       CancelScan, CompleteScan, StopRun, LeaseExpires, DeadlinePasses, rowVars,
       vars
  <2> QED
    BY <2>1, <2>2, <2>3, <2>4 DEF Next
<1>4. Merged \subseteq Merged'
  <2> SUFFICES ASSUME NEW d \in Discovery, merge[d] = "merged"
               PROVE  merge'[d] = "merged"
    BY DEF Merged
  <2>1. PICK r \in Reducer : status[r] = "succeeded" /\ d \in inputs[r]
    BY DEF IInv, MergedExactlyOnce
  <2>2. status'[r] = "succeeded" /\ d \in inputs'[r]
    BY <1>2, <1>3, <2>1, DiscoveryIsNoReducer DEF Final
  <2> QED
    BY <2>2 DEF IInv, MergedExactlyOnce
<1> QED
  BY <1>2, <1>3, <1>4

\* What a step that is neither the loop's nor a claim must respect.
LEMMA KnownKept ==
  ASSUME IInv, IInv', CoordinatorTypeOK, KnownIInv, NothingLost, [Next]_vars,
         co'.buffer = co.buffer, co'.consumed = co.consumed,
         \A w \in Worker : co'.task[w] = "none" <=> co.task[w] = "none",
         \A w \in Worker :
           co.task[w] \in {"replying", "settled"} =>
             co'.task[w] = "settled" \/ co'.task[w] = co.task[w],
         \A d \in Discovery :
           /\ status'[d] = "succeeded" =>
                status[d] = "succeeded" \/ co'.task[d] \in {"replying", "settled"}
           /\ co'.task[d] \in {"queued", "running", "saving"}
                => status'[d] \in {"queued", "running", "canceled"},
         \A r \in Reducer :
           /\ co'.task[r] \in {"queued", "running", "saving", "replying"}
                => inputs'[r] = co.consumed
           /\ co'.task[r] = "replying" => status'[r] = "succeeded",
         \A i \in DOMAIN co'.settlements :
           \/ \E j \in DOMAIN co.settlements :
                co'.settlements[i] = co.settlements[j]
           \/ LET o == co'.settlements[i]
              IN /\ o.what \in {"canceled", "replaced"} =>
                      status'[o.who] = "canceled"
                 /\ o.who \in Reducer =>
                      co.task[o.who] # "none" /\ co'.task[o.who] = "settled"
                 /\ o.what = "reduced" => co.consumed \subseteq Merged'
  PROVE  KnownIInv'
<1>0. AcceptedIsKnown /\ NoResultIsDropped /\ OneReduction
  BY DEF KnownIInv
<1>1. /\ \A w \in Worker : Final(w) => status'[w] = status[w]
      /\ Merged \subseteq Merged'
  BY RowsGoOn
<1>2. AcceptedIsKnown'
  <2> SUFFICES ASSUME co'.mode = "working",
                      NEW d \in (Buffered \cup Merging)'
               PROVE  \/ d \in co'.buffer \cup co'.consumed
                      \/ co'.task[d] \in {"replying", "settled"}
    BY DEF AcceptedIsKnown
  <2>1. d \in Discovery /\ status'[d] = "succeeded" /\ merge'[d] # "merged"
    BY DEF IInv, MergeMatchesStatus, Buffered, Merging
  <2>2. CASE status[d] = "succeeded"
    <3>1. d \in Buffered \cup Merging
      BY <1>1, <2>1, <2>2, UnmergedResults DEF Merged
    <3>2. d \in co.buffer \cup co.consumed \/ co.task[d] \in {"replying", "settled"}
      BY <1>0, <3>1 DEF AcceptedIsKnown, NothingLost
    <3> QED
      BY <2>1, <3>2, DiscoveryIsNoReducer
  <2> QED
    BY <2>1, <2>2
<1>3. NoResultIsDropped'
  <2>1. ASSUME NEW i \in DOMAIN co'.settlements,
               co'.settlements[i].what \in {"canceled", "replaced"}
        PROVE  status'[co'.settlements[i].who] = "canceled"
    <3>1. CASE \E j \in DOMAIN co.settlements :
                 co'.settlements[i] = co.settlements[j]
      <4>1. PICK j \in DOMAIN co.settlements :
              co'.settlements[i] = co.settlements[j]
        BY <3>1
      <4>2. status[co.settlements[j].who] = "canceled"
        BY <1>0, <2>1, <4>1 DEF NoResultIsDropped
      <4>3. co.settlements[j].who \in Worker
        <5>1. co.settlements \in Seq(Outcome)
          BY DEF CoordinatorTypeOK, CoordinatorState
        <5>2. co.settlements[j] \in Outcome
          BY <4>1, <5>1, LenProperties, ElementOfSeq
        <5> QED
          BY <5>2 DEF Outcome
      <4> QED
        BY <1>1, <4>1, <4>2, <4>3 DEF Final
    <3> QED
      BY <2>1, <3>1
  <2> QED
    BY <2>1 DEF NoResultIsDropped
<1>4. OneReduction'
  <2>1. \A q, r \in Reducer :
          co'.task[q] # "none" /\ co'.task[r] # "none" => q = r
    BY <1>0, DiscoveryIsNoReducer DEF OneReduction
  <2>2. Occupied(Reducer)' = {} => co'.consumed = {}
    BY <1>0, DiscoveryIsNoReducer DEF OneReduction, Occupied
  <2>3. ASSUME NEW i \in DOMAIN co'.settlements
        PROVE  /\ co'.settlements[i].who \in Reducer
                    => \A r \in Reducer : co'.task[r] \in {"none", "settled"}
               /\ co'.settlements[i].what = "reduced"
                    => co'.consumed \subseteq Merged'
    <3>1. CASE \E j \in DOMAIN co.settlements :
                 co'.settlements[i] = co.settlements[j]
      <4>1. PICK j \in DOMAIN co.settlements :
              co'.settlements[i] = co.settlements[j]
        BY <3>1
      <4>2. /\ co.settlements[j].who \in Reducer
                 => \A r \in Reducer : co.task[r] \in {"none", "settled"}
            /\ co.settlements[j].what = "reduced" => co.consumed \subseteq Merged
        BY <1>0 DEF OneReduction
      <4> QED
        BY <1>1, <4>1, <4>2, DiscoveryIsNoReducer
    <3>2. CASE ~\E j \in DOMAIN co.settlements :
                  co'.settlements[i] = co.settlements[j]
      <4> DEFINE o == co'.settlements[i]
      <4>1. /\ o.who \in Reducer =>
                 co.task[o.who] # "none" /\ co'.task[o.who] = "settled"
            /\ o.what = "reduced" => co.consumed \subseteq Merged'
        BY <3>2
      <4>2. ASSUME o.who \in Reducer, NEW r \in Reducer
            PROVE  co'.task[r] \in {"none", "settled"}
        BY <1>0, <4>1, <4>2, DiscoveryIsNoReducer DEF OneReduction
      <4> QED
        BY <4>1, <4>2
    <3> QED
      BY <3>1, <3>2
  <2> QED
    BY <2>1, <2>2, <2>3 DEF OneReduction
<1> QED
  BY <1>2, <1>3, <1>4 DEF KnownIInv

\* Steps of the rows alone: what is active may be canceled, nothing else moves.
LEMMA RowsMoveKeepsKnown ==
  ASSUME IInv, IInv', PoolIInv, KnownIInv, NothingLost, [Next]_vars, UNCHANGED co,
         UNCHANGED inputs,
         \A w \in Worker : \/ status'[w] = status[w]
                           \/ Active(w) /\ status'[w] \in {"running", "canceled"}
  PROVE  KnownIInv'
<1>0. CoordinatorTypeOK /\ NoResultIsDropped /\ OneReduction
  BY DEF PoolIInv, KnownIInv
<1>1. \A d \in Discovery :
        /\ status'[d] = "succeeded" => status[d] = "succeeded"
        /\ co.task[d] \in {"queued", "running", "saving"}
             => status'[d] \in {"queued", "running", "canceled"}
  BY <1>0, DiscoveryIsNoReducer DEF NoResultIsDropped
<1>2. \A r \in Reducer :
        /\ co.task[r] \in {"queued", "running", "saving", "replying"}
             => inputs'[r] = co.consumed
        /\ co.task[r] = "replying" => status'[r] = "succeeded"
  BY <1>0, DiscoveryIsNoReducer DEF OneReduction, Active
<1> QED
  BY <1>0, <1>1, <1>2, KnownKept

\* A worker w takes a step: the tasks, the rows and the claims of the others
\* are as they were.
LEMMA WorkerMovesKeepsKnown ==
  ASSUME IInv, IInv', PoolIInv, KnownIInv, NothingLost, [Next]_vars,
         co'.buffer = co.buffer, co'.consumed = co.consumed,
         NEW w \in Worker, NEW t \in Task \ {"none"}, co.task[w] # "none",
         \A v \in Worker : co'.task[v] = IF v = w THEN t ELSE co.task[v],
         co.task[w] = "replying" => t = "settled",
         co.task[w] # "settled",
         \A v \in Worker : v # w => status'[v] = status[v],
         \A r \in Reducer : r # w => inputs'[r] = inputs[r],
         w \in Discovery =>
           /\ status'[w] = "succeeded" =>
                status[w] = "succeeded" \/ t \in {"replying", "settled"}
           /\ t \in {"queued", "running", "saving"}
                => status'[w] \in {"queued", "running", "canceled"},
         w \in Reducer =>
           /\ t \in {"queued", "running", "saving", "replying"}
                => inputs'[w] = co.consumed
           /\ t = "replying" => status'[w] = "succeeded",
         \/ co'.settlements = co.settlements
         \/ \E what \in {"accepted", "replaced", "canceled", "failed",
                        "reduced", "redfailed", "rejected"} :
              /\ t = "settled"
              /\ co'.settlements =
                   Append(co.settlements, [who |-> w, what |-> what])
              /\ what \in {"canceled", "replaced"} => status'[w] = "canceled"
              /\ what = "reduced" => co.consumed \subseteq Merged'
  PROVE  KnownIInv'
<1>0. /\ CoordinatorTypeOK /\ NoResultIsDropped /\ OneReduction
      /\ co.settlements \in Seq(Outcome)
  BY DEF PoolIInv, KnownIInv, CoordinatorTypeOK, CoordinatorState
<1>1. \A v \in Worker : /\ co'.task[v] = "none" <=> co.task[v] = "none"
                        /\ co.task[v] \in {"replying", "settled"} =>
                             co'.task[v] = "settled" \/ co'.task[v] = co.task[v]
  OBVIOUS
<1>2. \A d \in Discovery :
        /\ status'[d] = "succeeded" =>
             status[d] = "succeeded" \/ co'.task[d] \in {"replying", "settled"}
        /\ co'.task[d] \in {"queued", "running", "saving"}
             => status'[d] \in {"queued", "running", "canceled"}
  BY <1>0, DiscoveryIsNoReducer DEF NoResultIsDropped
<1>3. \A r \in Reducer :
        /\ co'.task[r] \in {"queued", "running", "saving", "replying"}
             => inputs'[r] = co.consumed
        /\ co'.task[r] = "replying" => status'[r] = "succeeded"
  BY <1>0, DiscoveryIsNoReducer DEF OneReduction
<1>4. ASSUME NEW i \in DOMAIN co'.settlements
      PROVE  \/ \E j \in DOMAIN co.settlements :
                  co'.settlements[i] = co.settlements[j]
             \/ LET o == co'.settlements[i]
                IN /\ o.what \in {"canceled", "replaced"} =>
                        status'[o.who] = "canceled"
                   /\ o.who \in Reducer =>
                        co.task[o.who] # "none" /\ co'.task[o.who] = "settled"
                   /\ o.what = "reduced" => co.consumed \subseteq Merged'
  <2>1. CASE co'.settlements = co.settlements
    BY <2>1
  <2>2. CASE co'.settlements # co.settlements
    <3>1. PICK what \in {"accepted", "replaced", "canceled", "failed",
                         "reduced", "redfailed", "rejected"} :
            /\ t = "settled"
            /\ co'.settlements =
                 Append(co.settlements, [who |-> w, what |-> what])
            /\ what \in {"canceled", "replaced"} => status'[w] = "canceled"
            /\ what = "reduced" => co.consumed \subseteq Merged'
      BY <2>2
    <3>2. \/ i \in DOMAIN co.settlements
             /\ co'.settlements[i] = co.settlements[i]
          \/ co'.settlements[i] = [who |-> w, what |-> what]
      BY <1>0, <3>1
    <3>3. CASE co'.settlements[i] = [who |-> w, what |-> what]
      BY <3>1, <3>3
    <3> QED
      BY <3>2, <3>3
  <2> QED
    BY <2>1, <2>2
<1> QED
  BY <1>0, <1>1, <1>2, <1>3, <1>4, KnownKept

\* How the coordinator's record changes when a worker goes on or ends.
LEMMA AtEffect ==
  ASSUME CoordinatorTypeOK, NEW w \in Worker, NEW t \in Task, At(w, t)
  PROVE  /\ co'.buffer = co.buffer /\ co'.consumed = co.consumed
         /\ co'.settlements = co.settlements
         /\ \A v \in Worker : co'.task[v] = IF v = w THEN t ELSE co.task[v]
<1>1. co'.buffer = co.buffer /\ co'.consumed = co.consumed
  BY DEF At, CoordinatorTypeOK, CoordinatorState
<1> QED
  BY <1>1, AtType

LEMMA ReportEffect ==
  ASSUME CoordinatorTypeOK, NEW w \in Worker, NEW what,
         [who |-> w, what |-> what] \in Outcome, Report(w, what),
         co.mode = "working"
  PROVE  /\ co'.buffer = co.buffer /\ co'.consumed = co.consumed
         /\ co'.settlements =
              Append(co.settlements, [who |-> w, what |-> what])
         /\ \A v \in Worker :
              co'.task[v] = IF v = w THEN "settled" ELSE co.task[v]
<1>1. co'.buffer = co.buffer /\ co'.consumed = co.consumed
  BY DEF Report, CoordinatorTypeOK, CoordinatorState
<1> QED
  BY <1>1, ReportType

\* A worker w ends and its outcome is queued.
LEMMA WorkerEndsKeepsKnown ==
  ASSUME IInv, IInv', PoolIInv, KnownIInv, NothingLost, [Next]_vars,
         NEW w \in Worker, co.task[w] \notin {"none", "settled"},
         NEW what, [who |-> w, what |-> what] \in Outcome, Report(w, what),
         UNCHANGED inputs,
         \A v \in Worker : v # w => status'[v] = status[v],
         what \in {"canceled", "replaced"} => status'[w] = "canceled",
         what = "reduced" => co.consumed \subseteq Merged'
  PROVE  KnownIInv'
<1> DEFINE Kinds == {"accepted", "replaced", "canceled", "failed",
                     "reduced", "redfailed", "rejected"}
<1>1. /\ CoordinatorTypeOK /\ co.mode = "working" /\ what \in Kinds
      /\ "settled" \in Task \ {"none"}
  BY DEF PoolIInv, NothingLost, Outcome, Task
<1>2. /\ co'.buffer = co.buffer /\ co'.consumed = co.consumed
      /\ co'.settlements = Append(co.settlements, [who |-> w, what |-> what])
      /\ \A v \in Worker : co'.task[v] = IF v = w THEN "settled" ELSE co.task[v]
  BY <1>1, ReportEffect
<1>3. \E x \in Kinds :
        /\ "settled" = "settled"
        /\ co'.settlements = Append(co.settlements, [who |-> w, what |-> x])
        /\ x \in {"canceled", "replaced"} => status'[w] = "canceled"
        /\ x = "reduced" => co.consumed \subseteq Merged'
  <2> what \in Kinds
    BY <1>1
  <2> WITNESS what \in Kinds
  <2> QED
    BY <1>2
<1> QED
  BY <1>1, <1>2, <1>3, WorkerMovesKeepsKnown

LEMMA DiscoveryWorkerKeepsKnown ==
  ASSUME IInv, IInv', PoolIInv, KnownIInv, NothingLost, [Next]_vars,
         NEW d \in Discovery,
         InsertDiscovery(d) \/ StoreDiscovery(d) \/ GiveUpDiscovery(d)
  PROVE  KnownIInv'
<1>0. /\ CoordinatorTypeOK /\ co.mode = "working" /\ d \in Worker /\ d \notin Reducer
      /\ status \in [Worker -> WorkerStatus]
  BY DiscoveryIsNoReducer DEF PoolIInv, NothingLost, IInv, TypeOK
<1>1. CASE InsertDiscovery(d) \/ StoreDiscovery(d)
  <2>1. PICK t \in {"queued", "replying"} :
          /\ At(d, t) /\ co.task[d] \in {"spawned", "saving"}
          /\ \/ t = "queued" /\ status' = [status EXCEPT ![d] = "queued"]
             \/ t = "replying" /\ status' = [status EXCEPT ![d] = "succeeded"]
          /\ UNCHANGED inputs
    BY <1>1 DEF InsertDiscovery, StoreDiscovery, NewDiscovery, AcceptDiscovery
  <2>2. t \in Task \ {"none"}
    BY <2>1 DEF Task
  <2>3. /\ co'.buffer = co.buffer /\ co'.consumed = co.consumed
        /\ co'.settlements = co.settlements
        /\ \A v \in Worker : co'.task[v] = IF v = d THEN t ELSE co.task[v]
    BY <1>0, <2>1, <2>2, AtEffect
  <2>4. /\ status'[d] = IF t = "queued" THEN "queued" ELSE "succeeded"
        /\ \A v \in Worker : v # d => status'[v] = status[v]
    BY <1>0, <2>1
  <2> QED
    BY <1>0, <2>1, <2>2, <2>3, <2>4, WorkerMovesKeepsKnown
<1>2. CASE GiveUpDiscovery(d)
  <2>1. PICK what \in {"replaced", "failed"} :
          /\ Report(d, what) /\ co.task[d] = "running"
          /\ \/ what = "replaced" /\ status' = [status EXCEPT ![d] = "canceled"]
             \/ what = "failed" /\ status' = [status EXCEPT ![d] = "failed"]
          /\ UNCHANGED inputs
    BY <1>2 DEF GiveUpDiscovery, ReplaceDiscovery, FailDiscovery
  <2>2. [who |-> d, what |-> what] \in Outcome
    BY <1>0, <2>1 DEF Outcome
  <2>3. /\ what = "replaced" => status'[d] = "canceled"
        /\ \A v \in Worker : v # d => status'[v] = status[v]
    BY <1>0, <2>1
  <2> QED
    BY <1>0, <2>1, <2>2, <2>3, WorkerEndsKeepsKnown
<1> QED
  BY <1>1, <1>2

LEMMA ReducerKeepsKnown ==
  ASSUME IInv, IInv', PoolIInv, KnownIInv, NothingLost, [Next]_vars,
         NEW r \in Reducer,
         \/ InsertReducer(r) \/ GiveUpReducer(r)
         \/ \E new \in {0, 1} : StoreReduction(r, new)
  PROVE  KnownIInv'
<1>0. /\ CoordinatorTypeOK /\ co.mode = "working" /\ r \in Worker /\ r \notin Discovery
      /\ status \in [Worker -> WorkerStatus] /\ OneReduction
      /\ inputs \in [Reducer -> SUBSET Discovery]
  BY DiscoveryIsNoReducer DEF PoolIInv, NothingLost, IInv, TypeOK, KnownIInv
<1>1. CASE InsertReducer(r) \/ \E new \in {0, 1} : StoreReduction(r, new)
  <2>1. PICK t \in {"queued", "replying"} :
          /\ At(r, t) /\ co.task[r] \in {"spawned", "saving"}
          /\ \/ /\ t = "queued" /\ status' = [status EXCEPT ![r] = "queued"]
                /\ inputs' = [inputs EXCEPT ![r] = co.consumed]
             \/ /\ t = "replying" /\ status' = [status EXCEPT ![r] = "succeeded"]
                /\ co.task[r] = "saving" /\ UNCHANGED inputs
    BY <1>1 DEF InsertReducer, StoreReduction, ClaimDedup, CommitDedup
  <2>2. t \in Task \ {"none"}
    BY <2>1 DEF Task
  <2>3. /\ co'.buffer = co.buffer /\ co'.consumed = co.consumed
        /\ co'.settlements = co.settlements
        /\ \A v \in Worker : co'.task[v] = IF v = r THEN t ELSE co.task[v]
    BY <1>0, <2>1, <2>2, AtEffect
  <2>4. /\ t = "replying" => status'[r] = "succeeded"
        /\ \A v \in Worker : v # r => status'[v] = status[v]
        /\ \A q \in Reducer : q # r => inputs'[q] = inputs[q]
        /\ inputs'[r] = co.consumed
    BY <1>0, <2>1 DEF OneReduction
  <2> QED
    BY <1>0, <2>1, <2>2, <2>3, <2>4, WorkerMovesKeepsKnown
<1>2. CASE GiveUpReducer(r)
  <2>1. PICK what \in {"redfailed", "rejected"} :
          /\ Report(r, what) /\ co.task[r] = "running"
          /\ status' = [status EXCEPT ![r] = "failed"]
          /\ UNCHANGED inputs
    BY <1>2 DEF GiveUpReducer, FailReducer
  <2>2. [who |-> r, what |-> what] \in Outcome
    BY <1>0, <2>1 DEF Outcome
  <2>3. \A v \in Worker : v # r => status'[v] = status[v]
    BY <1>0, <2>1
  <2> QED
    BY <1>0, <2>1, <2>2, <2>3, WorkerEndsKeepsKnown
<1> QED
  BY <1>1, <1>2

\* A write is only refused a worker that saves once its row was canceled with
\* the run.
LEMMA RefusedIsCanceled ==
  ASSUME IInv, KnownIInv, NothingLost, NEW d \in Discovery,
         co.task[d] = "saving", ~RunningScan
  PROVE  status[d] = "canceled"
<1>1. run # "running"
  BY DEF RunningScan, IInv, ParentAgrees, TypeOK, ParentStatus
<1>2. ~Active(d)
  BY <1>1, DiscoveryIsNoReducer DEF IInv, StoppedRunHasNoActiveRow, SomeActive
<1>3. status[d] \in {"queued", "running", "canceled"}
  BY DEF KnownIInv, NoResultIsDropped
<1> QED
  BY <1>2, <1>3 DEF Active

LEMMA AttemptKeepsKnown ==
  ASSUME IInv, IInv', PoolIInv, KnownIInv, NothingLost, [Next]_vars,
         NEW w \in Worker,
         \/ BeginAttempt(w) \/ RetryAttempt(w) \/ AbandonAttempt(w)
         \/ SaveResult(w) \/ Answer(w) \/ Refused(w)
  PROVE  KnownIInv'
<1>0. /\ CoordinatorTypeOK /\ co.mode = "working"
      /\ status \in [Worker -> WorkerStatus] /\ OneReduction /\ NoResultIsDropped
  BY DEF PoolIInv, NothingLost, IInv, TypeOK, KnownIInv
<1>1. CASE RetryAttempt(w)
  <2>1. /\ Active(w) /\ status' = [status EXCEPT ![w] = "running"]
        /\ UNCHANGED <<co, inputs>>
    BY <1>1 DEF RetryAttempt, StartAttempt
  <2>2. \A v \in Worker : \/ status'[v] = status[v]
                          \/ Active(v) /\ status'[v] \in {"running", "canceled"}
    <3>1. /\ status'[w] = "running"
          /\ \A v \in Worker : v # w => status'[v] = status[v]
      BY <1>0, <2>1
    <3> QED
      BY <2>1, <3>1
  <2> QED
    BY <2>1, <2>2, RowsMoveKeepsKnown
<1>2. CASE BeginAttempt(w) \/ SaveResult(w)
  <2>1. PICK t \in {"running", "saving"} :
          /\ At(w, t) /\ UNCHANGED inputs
          /\ \/ /\ t = "running" /\ status' = [status EXCEPT ![w] = "running"]
                /\ co.task[w] = "queued"
             \/ /\ t = "saving" /\ status' = status /\ co.task[w] = "running"
    BY <1>2 DEF BeginAttempt, SaveResult, StartAttempt, vars, rowVars
  <2>2. t \in Task \ {"none"}
    BY <2>1 DEF Task
  <2>3. /\ co'.buffer = co.buffer /\ co'.consumed = co.consumed
        /\ co'.settlements = co.settlements
        /\ \A v \in Worker : co'.task[v] = IF v = w THEN t ELSE co.task[v]
    BY <1>0, <2>1, <2>2, AtEffect
  <2>4. /\ \A v \in Worker : v # w => status'[v] = status[v]
        /\ w \in Discovery => status'[w] \in {"queued", "running", "canceled"}
    BY <1>0, <2>1 DEF NoResultIsDropped
  <2>5. w \in Reducer => inputs'[w] = co.consumed
    BY <1>0, <2>1 DEF OneReduction
  <2> QED
    BY <1>0, <2>1, <2>2, <2>3, <2>4, <2>5, WorkerMovesKeepsKnown
<1>3. CASE AbandonAttempt(w) \/ Refused(w) \/ Answer(w)
  <2> DEFINE Kinds == {"accepted", "replaced", "canceled", "failed",
                       "reduced", "redfailed", "rejected"}
  <2>1. PICK what \in Kinds :
          /\ Report(w, what) /\ UNCHANGED inputs
          /\ co.task[w] \notin {"none", "settled"}
          /\ status' = status \/ status' = [status EXCEPT ![w] = "canceled"]
          /\ what = "replaced" => FALSE
          /\ what = "canceled" => status'[w] = "canceled"
          /\ what = "reduced" => /\ w \in Reducer /\ co.task[w] = "replying"
                                 /\ UNCHANGED vars
    <3>1. CASE AbandonAttempt(w)
      <4>1. /\ Report(w, Cancellation(w)) /\ Cancellation(w) \in {"canceled", "rejected"}
            /\ co.task[w] \in {"queued", "running"} /\ UNCHANGED inputs
            /\ status' = [status EXCEPT ![w] = "canceled"]
        BY <3>1 DEF AbandonAttempt, Cancellation, CancelWorker
      <4>2. status'[w] = "canceled"
        BY <1>0, <4>1
      <4> QED
        BY <4>1, <4>2
    <3>2. CASE Refused(w)
      <4>1. /\ Report(w, AfterFailedWrite(w))
            /\ AfterFailedWrite(w) \in {"canceled", "rejected"}
            /\ co.task[w] \in {"spawned", "queued", "running", "saving"}
            /\ UNCHANGED <<inputs, status>>
        BY <3>2 DEF Refused, SendsRefused, AfterFailedWrite, vars, rowVars
      <4>2. AfterFailedWrite(w) = "canceled" => status[w] = "canceled"
        BY <3>2, RefusedIsCanceled DEF Refused, SendsRefused, AfterFailedWrite
      <4> QED
        BY <4>1, <4>2
    <3>3. CASE Answer(w)
      <4>1. /\ Report(w, IF w \in Discovery THEN "accepted" ELSE "reduced")
            /\ co.task[w] = "replying" /\ UNCHANGED vars
            /\ UNCHANGED <<inputs, status>>
        BY <3>3 DEF Answer, vars, rowVars
      <4>2. w \notin Discovery => w \in Reducer
        BY DEF Worker
      <4> QED
        BY <4>1, <4>2
    <3> QED
      BY <1>3, <3>1, <3>2, <3>3
  <2>2. [who |-> w, what |-> what] \in Outcome
    BY DEF Outcome
  <2>3. \A v \in Worker : v # w => status'[v] = status[v]
    BY <1>0, <2>1
  <2>4. what = "reduced" => co.consumed \subseteq Merged'
    <3> SUFFICES ASSUME what = "reduced" PROVE co.consumed \subseteq Merged
      BY <2>1 DEF vars, rowVars, Merged
    <3>1. inputs[w] = co.consumed /\ status[w] = "succeeded" /\ w \in Reducer
      BY <1>0, <2>1 DEF OneReduction
    <3>2. co.consumed \subseteq Discovery
      BY <1>0 DEF CoordinatorTypeOK, CoordinatorState
    <3> QED
      BY <3>1, <3>2 DEF IInv, MergedExactlyOnce, Merged
  <2> QED
    BY <2>1, <2>2, <2>3, <2>4, WorkerEndsKeepsKnown
<1> QED
  BY <1>1, <1>2, <1>3

\* Filling hands the whole buffer to the reducer that is started, and only when
\* no other has something left to give back.
LEMMA FillKeepsKnown ==
  ASSUME IInv, PoolIInv, KnownIInv, NothingLost, Fill
  PROVE  KnownIInv'
<1> DEFINE new    == NextLabels(Discovery, Slots)
           count  == co.dispatched + Cardinality(new)
           active == Cardinality(Occupied(Discovery)) + Cardinality(new)
           first  == IF Occupied(Reducer) = {} /\ ReducerReady(active, count)
                       THEN NextLabels(Reducer, 1) ELSE {}
           task1  == [w \in Worker |-> IF w \in new \cup first THEN "spawned"
                                      ELSE co.task[w]]
           consumed1 == IF first = {} THEN co.consumed ELSE co.buffer
           buffer1   == IF first = {} THEN co.buffer ELSE {}
<1>0. /\ co \in CoordinatorState /\ UNCHANGED <<vars, faults>>
      /\ co.settlements = <<>> /\ co.mode = "working"
      /\ AcceptedIsKnown /\ NoResultIsDropped /\ OneReduction
  BY DEF PoolIInv, CoordinatorTypeOK, Fill, KnownIInv
<1>1. co' = [co EXCEPT !.dispatched = count, !.task = task1,
                       !.consumed = consumed1, !.buffer = buffer1]
  BY <1>0 DEF Fill, CoordinatorState
<1>2. /\ co'.task = task1 /\ co'.consumed = consumed1 /\ co'.buffer = buffer1
      /\ co'.settlements = <<>>
  <2> HIDE DEF count, task1, consumed1, buffer1
  <2> QED
    BY <1>0, <1>1 DEF CoordinatorState
<1>3. new \subseteq Discovery /\ first \subseteq Reducer
  BY LabelsAreFresh
<1>4. UNCHANGED <<status, merge, inputs>>
  BY <1>0 DEF vars, rowVars
<1>5. \A w \in new \cup first : co.task[w] = "none" /\ status[w] = "none"
  BY DEF NextLabels, Fresh
<1>6. first # {} => Occupied(Reducer) = {} /\ co.consumed = {}
  BY <1>0 DEF OneReduction
<1>7. AcceptedIsKnown'
  <2> SUFFICES ASSUME NEW d \in Buffered \cup Merging
               PROVE  \/ d \in co'.buffer \cup co'.consumed
                      \/ co'.task[d] \in {"replying", "settled"}
    BY <1>4 DEF AcceptedIsKnown, Buffered, Merging
  <2>1. d \in Discovery /\ status[d] = "succeeded"
    BY UnmergedResults
  <2>2. d \in co.buffer \cup co.consumed \/ co.task[d] \in {"replying", "settled"}
    BY <1>0 DEF AcceptedIsKnown
  <2>3. co'.task[d] = co.task[d]
    BY <1>2, <1>5, <2>1, DiscoveryIsNoReducer
  <2>4. co.buffer \cup co.consumed \subseteq co'.buffer \cup co'.consumed
    BY <1>2, <1>6
  <2> QED
    BY <2>2, <2>3, <2>4
<1>8. NoResultIsDropped'
  <2>1. \A d \in Discovery :
          co'.task[d] \in {"queued", "running", "saving"}
            => co.task[d] \in {"queued", "running", "saving"}
    BY <1>2, DiscoveryIsNoReducer
  <2> QED
    BY <1>0, <1>2, <1>4, <2>1 DEF NoResultIsDropped
<1>9. OneReduction'
  <2>1. CASE first = {}
    <3>1. \A r \in Reducer : co'.task[r] = co.task[r]
      BY <1>2, <1>3, <2>1, DiscoveryIsNoReducer
    <3>2. co'.consumed = co.consumed
      BY <1>2, <2>1
    <3>3. Occupied(Reducer)' = Occupied(Reducer)
      BY <3>1 DEF Occupied
    <3> HIDE DEF task1, consumed1, buffer1, first, new
    <3> QED
      BY <1>0, <1>2, <1>4, <3>1, <3>2, <3>3 DEF OneReduction
  <2>2. CASE first # {}
    <3>1. /\ \A r \in Reducer : co.task[r] = "none"
          /\ first = NextLabels(Reducer, 1)
      BY <1>6, <2>2 DEF Occupied
    <3>2. \A r \in Reducer :
            co'.task[r] = IF r \in first THEN "spawned" ELSE "none"
      BY <1>2, <1>3, <3>1, DiscoveryIsNoReducer
    <3>3. \A q, r \in Reducer : q \in first /\ r \in first => q = r
      BY <3>1, OneLabel
    <3>4. Occupied(Reducer)' # {}
      BY <1>3, <2>2, <3>2 DEF Occupied
    <3> HIDE DEF task1, consumed1, buffer1, first, new
    <3> QED
      BY <1>2, <3>2, <3>3, <3>4 DEF OneReduction
  <2> QED
    BY <2>1, <2>2
<1> QED
  BY <1>7, <1>8, <1>9 DEF KnownIInv

\* What is left of a coordinator that stopped does not work.
LEMMA StoppingEndsWork ==
  ASSUME CoordinatorTypeOK, NEW m \in Mode \ {"working"}, NEW a \in Abort,
         co' = Stopping(m, a) \/ co' = [Stopping(m, a) EXCEPT !.asked = TRUE]
  PROVE  co'.mode # "working"
<1> DEFINE c == Stopping(m, a)
<1>1. c \in CoordinatorState /\ c.mode = m
  BY StoppingType
<1> HIDE DEF c
<1> QED
  BY <1>1 DEF c, CoordinatorState

\* How the loop goes on from an outcome it read.
LEMMA ReadEffect ==
  ASSUME IInv, PoolIInv, ReadOutcome, co'.mode = "working"
  PROVE  LET o == Head(co.settlements)
         IN /\ co'.settlements = Tail(co.settlements)
            /\ co'.task = [co.task EXCEPT ![o.who] = "none"]
            /\ o \in Outcome /\ Fits(o)
            /\ \/ /\ o.what = "accepted"
                  /\ co'.buffer = co.buffer \cup {o.who}
                  /\ co'.consumed = co.consumed
               \/ /\ o.what \in {"replaced", "canceled"}
                  /\ co'.buffer = co.buffer /\ co'.consumed = co.consumed
               \/ /\ o.what = "reduced"
                  /\ co'.buffer = co.buffer /\ co'.consumed = {}
               \/ /\ o.what = "redfailed"
                  /\ co'.buffer = co.buffer \cup co.consumed /\ co'.consumed = {}
<1> DEFINE o    == Head(co.settlements)
           read == [co EXCEPT !.settlements = Tail(@), !.task[o.who] = "none"]
<1>0. /\ co \in CoordinatorState /\ co.settlements # <<>>
      /\ co' = AfterOutcome(o.who, o.what) /\ CoordinatorTypeOK
  BY DEF PoolIInv, CoordinatorTypeOK, ReadOutcome
<1>1. /\ o \in Outcome /\ Tail(co.settlements) \in Seq(Outcome)
      /\ 1 \in DOMAIN co.settlements /\ o = co.settlements[1]
  BY <1>0, HeadTailProperties, LenProperties, EmptySeq DEF CoordinatorState
<1>2. Fits(o)
  BY <1>1 DEF PoolIInv, OutcomesFit
<1>3. /\ read \in CoordinatorState
      /\ read.settlements = Tail(co.settlements)
      /\ read.task = [co.task EXCEPT ![o.who] = "none"]
      /\ read.buffer = co.buffer /\ read.consumed = co.consumed
  <2>1. co.task \in [Worker -> Task] /\ o.who \in Worker
    BY <1>0, <1>1 DEF CoordinatorState, Outcome
  <2>2. [co.task EXCEPT ![o.who] = "none"] \in [Worker -> Task]
    BY <2>1 DEF Task
  <2>3. read = [co EXCEPT !.settlements = Tail(co.settlements),
                          !.task = [co.task EXCEPT ![o.who] = "none"]]
    BY <1>0 DEF CoordinatorState
  <2> QED
    BY <1>0, <1>1, <2>2, <2>3 DEF CoordinatorState
<1>4. co' # Stopping("failing", "error")
  <2>1. "failing" \in Mode \ {"working"} /\ "error" \in Abort
    BY DEF Mode, Abort
  <2> QED
    BY <1>0, <2>1, StoppingEndsWork
<1>5. CASE o.what = "accepted"
  <2>1. co' = [read EXCEPT !.buffer = read.buffer \cup {o.who}, !.errors = 0]
    BY <1>0, <1>5 DEF AfterOutcome
  <2>2. /\ co'.settlements = read.settlements /\ co'.task = read.task
        /\ co'.buffer = read.buffer \cup {o.who} /\ co'.consumed = read.consumed
    <3> HIDE DEF read
    <3> QED
      BY <1>3, <2>1 DEF CoordinatorState
  <2> QED
    BY <1>1, <1>2, <1>3, <1>5, <2>2
<1>6. CASE o.what = "replaced"
  <2>1. co' = [read EXCEPT !.errors = read.errors + 1, !.lastFailure = TRUE]
    BY <1>0, <1>4, <1>6 DEF AfterOutcome
  <2>2. /\ co'.settlements = read.settlements /\ co'.task = read.task
        /\ co'.buffer = read.buffer /\ co'.consumed = read.consumed
    <3> HIDE DEF read
    <3> QED
      BY <1>3, <2>1 DEF CoordinatorState
  <2> QED
    BY <1>1, <1>2, <1>3, <1>6, <2>2
<1>7. CASE o.what = "canceled"
  <2>1. co' = read
    BY <1>0, <1>4, <1>7 DEF AfterOutcome
  <2> QED
    BY <1>1, <1>2, <1>3, <1>7, <2>1
<1>8. CASE o.what = "reduced"
  <2> DEFINE done == [read EXCEPT !.reducerFailures = 0, !.consumed = {},
                        !.noNewStreak = noNew, !.reduced = TRUE]
  <2>1. \/ co' = [done EXCEPT !.mode = "draining", !.why = "saturated",
                              !.abort = "saturated"]
        \/ co' = done
    BY <1>0, <1>8 DEF AfterOutcome
  <2>2. noNew \in Nat
    BY DEF IInv, TypeOK
  <2>3. /\ done \in CoordinatorState /\ done.settlements = read.settlements
        /\ done.task = read.task
        /\ done.buffer = read.buffer /\ done.consumed = {}
    <3> HIDE DEF read
    <3> QED
      BY <1>3, <2>2 DEF CoordinatorState
  <2>4. co' = done
    <3> HIDE DEF done
    <3> QED
      BY <2>1, <2>3 DEF CoordinatorState
  <2> QED
    BY <1>1, <1>2, <1>3, <1>8, <2>3, <2>4
<1>9. CASE o.what = "redfailed"
  <2>1. co' = [read EXCEPT !.reducerFailures = read.reducerFailures + 1,
                           !.buffer = BufferedAgain, !.consumed = {}]
    BY <1>0, <1>4, <1>9 DEF AfterOutcome
  <2>2. /\ co'.settlements = read.settlements /\ co'.task = read.task
        /\ co'.buffer = BufferedAgain /\ co'.consumed = {}
    <3> HIDE DEF read
    <3> QED
      BY <1>3, <2>1 DEF CoordinatorState
  <2> QED
    BY <1>1, <1>2, <1>3, <1>9, <2>2 DEF BufferedAgain
<1>10. o.what \notin {"failed", "rejected"}
  BY <1>0, <1>4 DEF AfterOutcome
<1>11. o.what \in {"accepted", "replaced", "canceled", "failed",
                   "reduced", "redfailed", "rejected"}
  BY <1>1 DEF Outcome
<1> QED
  BY <1>5, <1>6, <1>7, <1>8, <1>9, <1>10, <1>11

\* Reading moves a result from the task to the buffer, gives back what a failed
\* reducer had, and drops what a successful one merged.
LEMMA ReadKeepsKnown ==
  ASSUME IInv, PoolIInv, KnownIInv, NothingLost, ReadOutcome, co'.mode = "working"
  PROVE  KnownIInv'
<1> DEFINE o == Head(co.settlements)
<1>0. /\ co \in CoordinatorState /\ UNCHANGED vars /\ co.settlements # <<>>
      /\ co.settlements \in Seq(Outcome) /\ co.task \in [Worker -> Task]
      /\ AcceptedIsKnown /\ NoResultIsDropped /\ OneReduction
  BY DEF PoolIInv, CoordinatorTypeOK, CoordinatorState, ReadOutcome, KnownIInv
<1>1. /\ co'.settlements = Tail(co.settlements)
      /\ co'.task = [co.task EXCEPT ![o.who] = "none"]
      /\ o \in Outcome /\ Fits(o)
      /\ \/ /\ o.what = "accepted"
            /\ co'.buffer = co.buffer \cup {o.who}
            /\ co'.consumed = co.consumed
         \/ /\ o.what \in {"replaced", "canceled"}
            /\ co'.buffer = co.buffer /\ co'.consumed = co.consumed
         \/ /\ o.what = "reduced"
            /\ co'.buffer = co.buffer /\ co'.consumed = {}
         \/ /\ o.what = "redfailed"
            /\ co'.buffer = co.buffer \cup co.consumed /\ co'.consumed = {}
  BY ReadEffect
<1>2. 1 \in DOMAIN co.settlements /\ o = co.settlements[1]
  BY <1>0, HeadTailProperties, LenProperties, EmptySeq
<1>3. UNCHANGED <<status, merge, inputs>>
  BY <1>0 DEF vars, rowVars
<1>4. \A v \in Worker : co'.task[v] = IF v = o.who THEN "none" ELSE co.task[v]
  BY <1>0, <1>1
<1>5. \A i \in DOMAIN co'.settlements :
        \E j \in DOMAIN co.settlements : co'.settlements[i] = co.settlements[j]
  BY <1>0, <1>1, HeadTailProperties, LenProperties
<1>6. /\ o.what \in {"reduced", "redfailed"} => o.who \in Reducer
      /\ o.what \in {"accepted", "replaced", "canceled"} => o.who \in Discovery
      /\ o.what \in {"replaced", "canceled"} => status[o.who] = "canceled"
      /\ o.what = "reduced" => co.consumed \subseteq Merged
      /\ o.who \in Reducer => \A r \in Reducer : co.task[r] \in {"none", "settled"}
  BY <1>0, <1>1, <1>2 DEF Fits, NoResultIsDropped, OneReduction
<1>7. AcceptedIsKnown'
  <2> SUFFICES ASSUME NEW d \in Buffered \cup Merging
               PROVE  \/ d \in co'.buffer \cup co'.consumed
                      \/ co'.task[d] \in {"replying", "settled"}
    BY <1>3 DEF AcceptedIsKnown, Buffered, Merging
  <2>1. d \in Discovery /\ status[d] = "succeeded" /\ d \notin Merged
    BY UnmergedResults DEF Merged
  <2>2. d \in co.buffer \cup co.consumed \/ co.task[d] \in {"replying", "settled"}
    BY <1>0 DEF AcceptedIsKnown, NothingLost
  <2>3. CASE d \in co.buffer \cup co.consumed
    BY <1>1, <1>6, <2>1, <2>3
  <2>4. CASE d = o.who
    BY <1>1, <1>6, <2>1, <2>4, DiscoveryIsNoReducer
  <2>5. CASE d # o.who /\ co.task[d] \in {"replying", "settled"}
    BY <1>4, <2>1, <2>5, DiscoveryIsNoReducer
  <2> QED
    BY <2>2, <2>3, <2>4, <2>5
<1>8. NoResultIsDropped'
  <2>1. \A d \in Discovery :
          co'.task[d] \in {"queued", "running", "saving"}
            => co.task[d] \in {"queued", "running", "saving"}
    BY <1>4, DiscoveryIsNoReducer
  <2> QED
    BY <1>0, <1>3, <1>5, <2>1 DEF NoResultIsDropped
<1>9. OneReduction'
  <2>1. \A r \in Reducer : co'.task[r] = co.task[r] \/ co'.task[r] = "none"
    BY <1>4, DiscoveryIsNoReducer
  <2>2. \A q, r \in Reducer :
          co'.task[q] # "none" /\ co'.task[r] # "none" => q = r
    BY <1>0, <2>1 DEF OneReduction
  <2>3. Merged' = Merged
    BY <1>3 DEF Merged
  <2>4. ASSUME NEW i \in DOMAIN co'.settlements
        PROVE  /\ co'.settlements[i].who \in Reducer
                    => \A r \in Reducer : co'.task[r] \in {"none", "settled"}
               /\ co'.settlements[i].what = "reduced"
                    => co.consumed \subseteq Merged
    <3>1. PICK j \in DOMAIN co.settlements :
            co'.settlements[i] = co.settlements[j]
      BY <1>5
    <3> QED
      BY <1>0, <2>1, <3>1 DEF OneReduction
  <2>5. CASE o.who \in Reducer
    <3>1. co'.consumed = {}
      BY <1>1, <1>6, <2>5, DiscoveryIsNoReducer
    <3>2. \A r \in Reducer : co'.task[r] \in {"none", "settled"}
      BY <1>6, <2>1, <2>5
    <3> QED
      BY <2>2, <3>1, <3>2 DEF OneReduction
  <2>6. CASE o.who \in Discovery
    <3>1. co'.consumed = co.consumed
      BY <1>1, <1>6, <2>6, DiscoveryIsNoReducer
    <3>2. \A r \in Reducer : co'.task[r] = co.task[r]
      BY <1>4, <2>6, DiscoveryIsNoReducer
    <3>3. Occupied(Reducer)' = Occupied(Reducer)
      BY <3>2 DEF Occupied
    <3> QED
      BY <1>0, <1>3, <2>2, <2>3, <2>4, <3>1, <3>2, <3>3 DEF OneReduction
  <2> QED
    BY <1>1, <1>6, <2>5, <2>6
<1> QED
  BY <1>7, <1>8, <1>9 DEF KnownIInv

\* A coordinator that takes over buffers every result that is not merged.
LEMMA ClaimKeepsKnown ==
  ASSUME IInv', Claim
  PROVE  KnownIInv'
<1> DEFINE c == Recovered(status', merge', dispatched', noNew', errors')
<1>1. /\ co' = c /\ c.settlements = <<>> /\ c.consumed = {}
      /\ c.buffer = Buffering(status', merge')
      /\ \A w \in Worker : c.task[w] = "none"
  BY DEF Claim, Recovered, NoCoordinator
<1>2. AcceptedIsKnown'
  <2> SUFFICES ASSUME NEW d \in (Buffered \cup Merging)' PROVE d \in co'.buffer
    BY DEF AcceptedIsKnown
  <2>1. d \in Discovery /\ status'[d] = "succeeded" /\ merge'[d] # "merged"
    BY DEF IInv, MergeMatchesStatus, Buffered, Merging
  <2> QED
    BY <1>1, <2>1 DEF Buffering
<1>3. NoResultIsDropped' /\ OneReduction'
  BY <1>1, DiscoveryIsNoReducer DEF NoResultIsDropped, OneReduction
<1> QED
  BY <1>2, <1>3 DEF KnownIInv

\* Every step of the running system keeps that no result is forgotten.
LEMMA NextKeepsKnown ==
  ASSUME IInv, IInv', PoolIInv, KnownIInv, [SystemNext]_systemVars
  PROVE  KnownIInv'
<1> SUFFICES ASSUME NothingLost' PROVE KnownIInv'
  BY DEF KnownIInv
<1>0. /\ CoordinatorTypeOK /\ [Next]_vars /\ generation \in Callers
      /\ status \in [Worker -> WorkerStatus]
      /\ co'.mode = "working" /\ faults' = MaxFaults /\ MaxFaults \in Nat
      /\ faults \in 0..MaxFaults
  BY SystemStepIsACommand, HoldsAGeneration, CoordinatorAssumption
     DEF PoolIInv, CoordinatorTypeOK, NothingLost, IInv, TypeOK
<1>1. CASE Claim
  BY <1>1, ClaimKeepsKnown
<1>2. CASE \/ Finish \/ Fail \/ FailLost \/ CancelLost \/ PersistCancel \/ Leave \/ Crash
  <2>1. co' = NoCoordinator
    BY <1>2 DEF Finish, Fail, FailLost, CancelLost, PersistCancel, Leave, Crash
  <2> QED
    BY <1>0, <2>1 DEF NoCoordinator
<1>3. CASE \/ FinishRefused \/ FinishLost \/ LoseOwnership \/ Shutdown \/ AskCancel
  <2>1. PICK m \in {"failing", "leaving"},
             a \in {"error", "lost", "shutdown", "cancel"} :
          \/ co' = Stopping(m, a)
          \/ co' = [Stopping(m, a) EXCEPT !.asked = TRUE]
    BY <1>3 DEF FinishRefused, FinishLost, LoseOwnership, Shutdown, AskCancel
  <2>2. m \in Mode \ {"working"} /\ a \in Abort
    BY DEF Mode, Abort
  <2> QED
    BY <1>0, <2>1, <2>2, StoppingEndsWork
<1>4. CASE Exhausted
  <2>1. \/ co' = Stopping("failing", "error")
        \/ co' = [co EXCEPT !.mode = "finishing", !.why = "capped"]
    BY <1>4 DEF Exhausted
  <2>2. "failing" \in Mode \ {"working"} /\ "error" \in Abort
    BY DEF Mode, Abort
  <2>3. co' # Stopping("failing", "error")
    BY <1>0, <2>2, StoppingEndsWork
  <2> QED
    BY <1>0, <2>1, <2>3 DEF CoordinatorTypeOK, CoordinatorState
<1>5. CASE Drained \/ ReconcileLate
  BY <1>0, <1>5 DEF Drained, ReconcileLate, CoordinatorTypeOK, CoordinatorState
<1>6. CASE \E w \in Worker : WriteLost(w)
  BY <1>0, <1>6 DEF WriteLost
<1>7. CASE Fill
  <2>1. NothingLost
    BY <1>0, <1>7 DEF Fill, NothingLost
  <2> QED
    BY <1>7, <2>1, FillKeepsKnown
<1>8. CASE ReadOutcome
  <2>1. NothingLost
    BY <1>0, <1>8 DEF ReadOutcome, NothingLost
  <2> QED
    BY <1>0, <1>8, <2>1, ReadKeepsKnown
<1>9. CASE ReachDeadline
  <2>1. /\ co.mode = "working" /\ UNCHANGED <<vars, faults>>
        /\ co'.task = co.task /\ co'.settlements = co.settlements
        /\ co'.buffer = co.buffer /\ co'.consumed = co.consumed
    BY <1>0, <1>9 DEF ReachDeadline, CoordinatorTypeOK, CoordinatorState
  <2>2. UNCHANGED <<status, merge, inputs>>
    BY <2>1 DEF vars, rowVars
  <2>3. NothingLost
    BY <1>0, <2>1 DEF NothingLost
  <2> QED
    BY <2>1, <2>2, <2>3 DEF KnownIInv, NothingLost, AcceptedIsKnown,
       NoResultIsDropped, OneReduction, Buffered, Merging, Merged, Occupied
<1>10. CASE \E w \in Worker : WorkerProceeds(w) \/ RetryAttempt(w)
  <2>1. PICK w \in Worker : WorkerProceeds(w) \/ RetryAttempt(w)
    BY <1>10
  <2>2. \/ /\ w \in Discovery
           /\ InsertDiscovery(w) \/ StoreDiscovery(w) \/ GiveUpDiscovery(w)
        \/ /\ w \in Reducer
           /\ \/ InsertReducer(w) \/ GiveUpReducer(w)
              \/ \E new \in {0, 1} : StoreReduction(w, new)
        \/ BeginAttempt(w) \/ AbandonAttempt(w) \/ Refused(w)
        \/ SaveResult(w) \/ Answer(w) \/ RetryAttempt(w)
    BY <2>1 DEF WorkerProceeds
  <2>3. NothingLost
    <3>1. UNCHANGED faults
      BY <2>2 DEF InsertDiscovery, StoreDiscovery, GiveUpDiscovery,
         InsertReducer, GiveUpReducer, StoreReduction, BeginAttempt,
         AbandonAttempt, Refused, SaveResult, Answer, RetryAttempt
    <3>2. \/ \E t \in Task : At(w, t)
          \/ \E what \in {"accepted", "replaced", "canceled", "failed",
                          "reduced", "redfailed", "rejected"} : Report(w, what)
          \/ UNCHANGED co
      <4>1. {"queued", "running", "saving", "replying"} \subseteq Task
        BY DEF Task
      <4> QED
        BY <2>2, <4>1 DEF InsertDiscovery, StoreDiscovery, GiveUpDiscovery,
           InsertReducer, GiveUpReducer, StoreReduction, BeginAttempt,
           AbandonAttempt, Refused, SaveResult, Answer, RetryAttempt,
           Cancellation, AfterFailedWrite
    <3>3. co'.mode = co.mode
      <4>1. \A what \in {"accepted", "replaced", "canceled", "failed",
                         "reduced", "redfailed", "rejected"} :
              [who |-> w, what |-> what] \in Outcome
        BY DEF Outcome
      <4> QED
        BY <1>0, <3>2, <4>1, AtType, ReportType
    <3> QED
      BY <1>0, <3>1, <3>3 DEF NothingLost
  <2> QED
    BY <1>0, <2>2, <2>3, DiscoveryWorkerKeepsKnown, ReducerKeepsKnown,
       AttemptKeepsKnown
<1>11. CASE \/ Beat \/ Expire \/ Parent
            \/ DeadlinePasses /\ UNCHANGED <<co, faults>>
            \/ UNCHANGED systemVars
  <2>1. /\ UNCHANGED <<co, faults, inputs>>
        /\ status' = status \/ status' = WithActiveCanceled
    BY <1>11 DEF Beat, Expire, Parent, ParentStep, FailScan, CancelScan,
       CompleteScan, StopRun, Heartbeat, LeaseExpires, DeadlinePasses,
       systemVars, vars, rowVars
  <2>2. \A w \in Worker : \/ status'[w] = status[w]
                          \/ Active(w) /\ status'[w] \in {"running", "canceled"}
    BY <2>1 DEF WithActiveCanceled
  <2>3. NothingLost
    BY <1>0, <2>1 DEF NothingLost
  <2> QED
    BY <1>0, <2>1, <2>2, <2>3, RowsMoveKeepsKnown
<1> QED
  BY <1>1, <1>2, <1>3, <1>4, <1>5, <1>6, <1>7, <1>8, <1>9, <1>10, <1>11
     DEF SystemNext, CoordinatorProceeds, Disruption

\* No accepted result is forgotten by the loop while no write of a worker was
\* lost, whatever fails, is canceled, crashes or is taken over; MCCoordinatorLost
\* shows that a lost write is the exception.
THEOREM NoResultIsForgotten ==
  SystemSpec => [](faults = MaxFaults => AcceptedIsKnown)
<1>1. SystemInit => KnownIInv
  BY DEF SystemInit, NoCoordinator, KnownIInv, NothingLost
<1>2. IInv /\ IInv' /\ PoolIInv /\ KnownIInv /\ [SystemNext]_systemVars
        => KnownIInv'
  BY NextKeepsKnown
<1>3. KnownIInv => (faults = MaxFaults => AcceptedIsKnown)
  BY DEF KnownIInv, NothingLost, AcceptedIsKnown
<1> QED
  BY <1>1, <1>2, <1>3, SystemInvariance, PoolInvariance, PTL DEF SystemSpec
=============================================================================
