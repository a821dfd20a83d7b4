------------------------- MODULE DeepScanWorkbench -------------------------
(***************************************************************************)
(* The durable side of one Deep Scan: the rows of deep_scan_runs,          *)
(* deep_scan_workers, deep_scan_dedup_inputs and the parent row of scans,  *)
(* and the workbench commands that change them                             *)
(* (plugins/codex-security/scripts/deep_scan_workbench.py).  Each command  *)
(* is one SQLite transaction opened with BEGIN IMMEDIATE, so each is one   *)
(* action.  A command that is refused or that replays what is already      *)
(* stored changes no row and is a stuttering step.                         *)
(*                                                                         *)
(* Any number of processes may send commands; a command carries the lease  *)
(* generation its process holds, or none.  Time is abstracted to two       *)
(* facts: whether the coordinator's lease is still fresh, and whether the  *)
(* discovery deadline has passed.                                          *)
(***************************************************************************)
EXTENDS Integers, FiniteSets

CONSTANTS
  Discovery,         \* identities a discovery worker row can have
  Reducer,           \* identities a dedup worker row can have
  MaxDiscoveryRuns,  \* max_discovery_runs of the run's configuration
  StopAfterNoNew,    \* stop_after_no_new of the run's configuration
  PartialCoverage,   \* the parent's coverage.json is partial and defers work
                     \* because "Deep Scan stopped before completion"
  MaxGeneration      \* bound on coordinator_generation

ASSUME WorkbenchAssumption ==
  /\ IsFiniteSet(Discovery)
  /\ Discovery \cap Reducer = {}
  /\ MaxDiscoveryRuns \in Nat \ {0}
  /\ StopAfterNoNew \in Nat \ {0}
  /\ PartialCoverage \in BOOLEAN
  /\ MaxGeneration \in Nat \ {0}

VARIABLES
  run,         \* deep_scan_runs.status
  parent,      \* scans.status; "canceled" is 'failed' with canceled_at set
  phase,       \* deep_scan_runs.phase
  reason,      \* deep_scan_runs.terminal_reason
  generation,  \* coordinator_generation
  leaseLive,   \* updated_at or the generation's heartbeat file is fresh
  deadline,    \* max_time_hours have passed since the run was created
  dispatched,  \* discovery_runs_dispatched
  accepted,    \* deep_scan_runs.completion_sequence
  noNew,       \* consecutive_no_new
  errors,      \* consecutive_errors
  status,      \* status of each worker row, "none" while there is no row
  note,        \* what error_message says of each worker row
  merge,       \* merge_state of each discovery row
  seq,         \* completion_sequence of each discovery row, 0 for NULL
  inputs,      \* deep_scan_dedup_inputs: the discoveries a reducer claimed
  refunded,    \* history: discoveries whose dispatch slot was given back
  born,        \* history: the generation that inserted each worker row
  sinceNew     \* history: results merged since a reduction found something new

runVars      == <<run, parent, phase, reason>>
leaseVars    == <<generation, leaseLive, deadline>>
counterVars  == <<dispatched, accepted, noNew, errors>>
rowVars      == <<status, note, merge, seq, inputs>>
historyVars  == <<refunded, born, sinceNew>>
vars == <<runVars, leaseVars, counterVars, rowVars, historyVars>>

Worker == Discovery \cup Reducer

NoLease == 0
Generations == 1..MaxGeneration
Callers == {NoLease} \cup Generations

RunStatus    == {"running", "succeeded", "failed", "interrupted", "canceled"}
ParentStatus == {"running", "complete", "failed", "canceled"}
Phase        == {"setup", "discovery", "reducing", "terminal"}
WorkerStatus ==
  {"none", "queued", "running", "succeeded", "failed", "canceled"}
MergeState   == {"none", "buffered", "merging", "merged"}

\* error_message: NULL, the shutdown marker, the recovery marker, other text.
Note == {"none", "shutdown", "recovered", "error"}

TypeOK ==
  /\ run \in RunStatus
  /\ parent \in ParentStatus
  /\ phase \in Phase
  /\ reason \in {"none", "saturated", "capped"}
  /\ generation \in Generations
  /\ leaseLive \in BOOLEAN
  /\ deadline \in BOOLEAN
  /\ dispatched \in Nat
  /\ accepted \in Nat
  /\ noNew \in Nat
  /\ errors \in Nat
  /\ status \in [Worker -> WorkerStatus]
  /\ note \in [Worker -> Note]
  /\ merge \in [Discovery -> MergeState]
  /\ seq \in [Discovery -> Nat]
  /\ inputs \in [Reducer -> SUBSET Discovery]
  /\ refunded \in SUBSET Discovery
  /\ born \in [Worker -> 0..MaxGeneration]
  /\ sinceNew \in SUBSET Discovery

\* The rows begin_deep_scan inserts.
Init ==
  /\ run = "running"
  /\ parent = "running"
  /\ phase = "setup"
  /\ reason = "none"
  /\ generation = 1
  /\ leaseLive = TRUE
  /\ deadline = FALSE
  /\ dispatched = 0
  /\ accepted = 0
  /\ noNew = 0
  /\ errors = 0
  /\ status = [w \in Worker |-> "none"]
  /\ note = [w \in Worker |-> "none"]
  /\ merge = [d \in Discovery |-> "none"]
  /\ seq = [d \in Discovery |-> 0]
  /\ inputs = [r \in Reducer |-> {}]
  /\ refunded = {}
  /\ born = [w \in Worker |-> 0]
  /\ sinceNew = {}

-----------------------------------------------------------------------------
(* State functions the commands' queries compute.                          *)

\* Mutant: looks at the parent scan only.
ParentIsRunning == parent = "running"

\* cancel_requested is set by exactly the commands that leave "running".
RunningScan == run = "running" /\ parent = "running"

\* Generation 1 is a run no coordinator has claimed: commands carry no lease.
CurrentCoordinator(g) ==
  IF generation = 1 THEN g = NoLease ELSE g = generation

Active(w) == status[w] \in {"queued", "running"}

SomeActive(W) == \E w \in W : Active(w)

Buffered == {d \in Discovery : status[d] = "succeeded" /\ merge[d] = "buffered"}
Merging  == {d \in Discovery : merge[d] = "merging"}
Merged   == {d \in Discovery : merge[d] = "merged"}

SomeReduced == \E r \in Reducer : status[r] = "succeeded"

\* The run may stop because it used its budget of runs or of time.
Capped == dispatched >= MaxDiscoveryRuns \/ deadline

LeaseIsLive == leaseLive /\ (generation = 1 => SomeActive(Worker))

\* Mutant: cancels discovery rows only.
WithActiveDiscoveryCanceled ==
  [w \in Worker |-> IF Active(w) /\ w \in Discovery
                      THEN "canceled" ELSE status[w]]

\* What cancel_active_workers leaves in the status column.
WithActiveCanceled ==
  [w \in Worker |-> IF Active(w) THEN "canceled" ELSE status[w]]

\* Mutant: does not look at merge_state.
WithAllRebuffered(S) ==
  [d \in Discovery |-> IF d \in S THEN "buffered" ELSE merge[d]]

\* merge_state once the discoveries in S went back from merging to buffered.
WithRebuffered(S) ==
  [d \in Discovery |->
     IF d \in S /\ merge[d] = "merging" THEN "buffered" ELSE merge[d]]

ClaimedBy(R) == UNION {inputs[r] : r \in R}

-----------------------------------------------------------------------------
(* The coordinator's lease.                                                *)

\* A claim that presents the current generation renews the lease.
RenewLease(g) ==
  /\ RunningScan
  /\ g # NoLease
  /\ CurrentCoordinator(g)
  /\ leaseLive' = TRUE
  /\ UNCHANGED <<runVars, generation, deadline, counterVars, rowVars,
                 historyVars>>

\* The heartbeat is a file named after its generation, and it is written
\* whatever the rows say; only the current generation's file is ever read.
Heartbeat(g) ==
  /\ g # NoLease
  /\ leaseLive' = (leaseLive \/ (g = generation /\ generation > 1))
  /\ UNCHANGED <<runVars, generation, deadline, counterVars, rowVars,
                 historyVars>>

Legacy == generation = 1

\* Canceled because its coordinator shut down, and not yet recovered.
ShutdownCanceled(w) ==
  /\ status[w] = "canceled"
  /\ note[w] = "shutdown" \/ (Legacy /\ note[w] = "none")

\* The discoveries whose work the lost coordinator did not finish.
Interrupted == {d \in Discovery : Active(d) \/ ShutdownCanceled(d)}

\* Mutant: forgets the reducer that was at work.
AbandonedUnlessActive ==
  {r \in Reducer : status[r] = "failed" \/ ShutdownCanceled(r)}

\* The reducers whose claims are void.
Abandoned ==
  {r \in Reducer : Active(r) \/ status[r] = "failed" \/ ShutdownCanceled(r)}

\* Mutant: leaves the markers as they are.
NothingMarked == {}

\* The rows recovery marks, so that no later recovery counts them again.
MarkedRecovered ==
  {w \in Worker : ShutdownCanceled(w)
                    \/ (Active(w) /\ Legacy /\ note[w] = "none")}

RecoverExpiredCoordinator ==
  /\ merge' = WithRebuffered(ClaimedBy(Abandoned))
  /\ status' = WithActiveCanceled
  /\ note' = [w \in Worker |->
                IF w \in MarkedRecovered THEN "recovered" ELSE note[w]]
  /\ dispatched' = dispatched - Cardinality(Interrupted)
  /\ phase' = (IF phase = "setup" THEN "setup" ELSE "discovery")
  /\ refunded' = refunded \cup Interrupted
  /\ UNCHANGED <<accepted, noNew, errors, seq, inputs, born, sinceNew>>

\* Mutant: an unclaimed run is never recovered.
OnlyClaimedNeedsRecovery == generation > 1

\* A run nobody has claimed and in which nothing was dispatched is just taken.
NeedsRecovery == generation > 1 \/ phase # "setup"

\* A claim without a generation, when the lease is not live, takes the lease.
AdoptCoordinator ==
  /\ RunningScan
  /\ ~LeaseIsLive
  /\ generation < MaxGeneration
  /\ IF NeedsRecovery
       THEN RecoverExpiredCoordinator
       ELSE UNCHANGED <<phase, counterVars, rowVars, historyVars>>
  /\ generation' = generation + 1
  /\ leaseLive' = TRUE
  /\ UNCHANGED <<run, parent, reason, deadline>>

-----------------------------------------------------------------------------
(* Worker rows: upsert-deep-scan-worker.                                   *)

NewDiscovery(g, d, s) ==
  /\ CurrentCoordinator(g)
  /\ RunningScan
  /\ status[d] = "none"
  /\ s \in {"queued", "running"}
  /\ dispatched < MaxDiscoveryRuns
  /\ dispatched' = dispatched + 1
  /\ phase' = "discovery"
  /\ leaseLive' = TRUE
  /\ status' = [status EXCEPT ![d] = s]
  /\ born' = [born EXCEPT ![d] = generation]
  /\ UNCHANGED <<run, parent, reason, generation, deadline, accepted, noNew,
                 errors, note, merge, seq, inputs, refunded, sinceNew>>

\* n is "error" when the attempt replaces one that failed.
StartAttempt(g, w, n) ==
  /\ CurrentCoordinator(g)
  /\ RunningScan
  /\ Active(w)
  /\ status' = [status EXCEPT ![w] = "running"]
  /\ note' = (IF n = "none" THEN note ELSE [note EXCEPT ![w] = n])
  /\ UNCHANGED <<runVars, leaseVars, counterVars, merge, seq, inputs,
                 historyVars>>

\* The run counts its completions.
NextSequence == accepted + 1

AcceptDiscovery(g, d) ==
  /\ CurrentCoordinator(g)
  /\ RunningScan
  /\ status[d] = "running"
  /\ accepted' = NextSequence
  /\ errors' = 0
  /\ phase' = "discovery"
  /\ leaseLive' = TRUE
  /\ status' = [status EXCEPT ![d] = "succeeded"]
  /\ note' = [note EXCEPT ![d] = "none"]
  /\ merge' = [merge EXCEPT ![d] = "buffered"]
  /\ seq' = [seq EXCEPT ![d] = NextSequence]
  /\ UNCHANGED <<run, parent, reason, generation, deadline, dispatched, noNew,
                 inputs, historyVars>>

\* A cleanup cancellation is also let through once the run has stopped.
CancelWorker(g, w, n) ==
  /\ CurrentCoordinator(g)
  /\ run = "running" => RunningScan
  /\ Active(w)
  /\ status' = [status EXCEPT ![w] = "canceled"]
  /\ note' = (IF n = "none" THEN note ELSE [note EXCEPT ![w] = n])
  /\ UNCHANGED <<runVars, leaseVars, counterVars, merge, seq, inputs,
                 historyVars>>

\* A worker failure the coordinator replaces by another discovery run.
ReplaceDiscovery(g, d) ==
  /\ CurrentCoordinator(g)
  /\ RunningScan
  /\ status[d] = "running"
  /\ errors' = errors + 1
  /\ leaseLive' = TRUE
  /\ status' = [status EXCEPT ![d] = "canceled"]
  /\ note' = [note EXCEPT ![d] = "error"]
  /\ UNCHANGED <<runVars, generation, deadline, dispatched, accepted, noNew,
                 merge, seq, inputs, historyVars>>

FailDiscovery(g, d) ==
  /\ CurrentCoordinator(g)
  /\ RunningScan
  /\ Active(d)
  /\ status' = [status EXCEPT ![d] = "failed"]
  /\ note' = [note EXCEPT ![d] = "error"]
  /\ UNCHANGED <<runVars, leaseVars, counterVars, merge, seq, inputs,
                 historyVars>>

\* Only a reducer that had started gives its inputs back.
FailReducer(g, r) ==
  /\ CurrentCoordinator(g)
  /\ RunningScan
  /\ Active(r)
  /\ status' = [status EXCEPT ![r] = "failed"]
  /\ note' = [note EXCEPT ![r] = "error"]
  /\ IF status[r] = "running"
       THEN /\ merge' = WithRebuffered(inputs[r])
            /\ phase' = "discovery"
            /\ leaseLive' = TRUE
       ELSE UNCHANGED <<merge, phase, leaseLive>>
  /\ UNCHANGED <<run, parent, reason, generation, deadline, counterVars, seq,
                 inputs, historyVars>>

-----------------------------------------------------------------------------
(* Reduction: claim-deep-scan-dedup and commit-deep-scan-dedup.            *)

BufferedPrefix(S) ==
  /\ S \subseteq Buffered
  /\ \A d \in S, e \in Buffered \ S : seq[d] < seq[e]

CappedSingleton(S) == Cardinality(S) = 1 /\ Capped /\ ~SomeActive(Discovery)

MinimumInputs(S) == IF SomeReduced \/ CappedSingleton(S) THEN 1 ELSE 2

\* Mutant: claims beside an active reducer.
AnyReducerMayClaim == TRUE

NoActiveReducer == ~SomeActive(Reducer)

\* What a claim of S by a new reducer is checked for.
Claimable(S) ==
  /\ NoActiveReducer
  /\ BufferedPrefix(S)
  /\ Cardinality(S) >= MinimumInputs(S)

ClaimDedup(g, r, S) ==
  /\ CurrentCoordinator(g)
  /\ RunningScan
  /\ status[r] = "none"
  /\ Claimable(S)
  /\ status' = [status EXCEPT ![r] = "queued"]
  /\ inputs' = [inputs EXCEPT ![r] = S]
  /\ merge' = [d \in Discovery |-> IF d \in S THEN "merging" ELSE merge[d]]
  /\ phase' = "reducing"
  /\ leaseLive' = TRUE
  /\ born' = [born EXCEPT ![r] = generation]
  /\ UNCHANGED <<run, parent, reason, generation, deadline, counterVars, note,
                 seq, refunded, sinceNew>>

\* Only the first commit of a reducer does anything; the others are replays.
Committable(r) == Active(r)

\* The streak grows by this claim; in the mutant, whatever was found.
StreakThatGoesOn(S, new) == noNew + Cardinality(S)

StreakAfter(S, new) == IF new > 0 THEN 0 ELSE noNew + Cardinality(S)

CommitDedup(g, r, new) ==
  /\ CurrentCoordinator(g)
  /\ RunningScan
  /\ Committable(r)
  /\ inputs[r] # {}
  /\ \A d \in inputs[r] : merge[d] = "merging"
  /\ merge' = [d \in Discovery |->
                 IF d \in inputs[r] THEN "merged" ELSE merge[d]]
  /\ status' = [status EXCEPT ![r] = "succeeded"]
  /\ note' = [note EXCEPT ![r] = "none"]
  /\ noNew' = StreakAfter(inputs[r], new)
  /\ sinceNew' = (IF new > 0 THEN {} ELSE sinceNew \cup inputs[r])
  /\ phase' = "discovery"
  /\ leaseLive' = TRUE
  /\ UNCHANGED <<run, parent, reason, generation, deadline, dispatched,
                 accepted, errors, seq, inputs, refunded, born>>

-----------------------------------------------------------------------------
(* Completion: finish-deep-scan, fail-deep-scan and the parent scan's      *)
(* fail-scan, cancel-scan and complete-scan.                               *)

\* Completion with what was reduced although something failed.
FailureCapped(why) == why = "capped" /\ PartialCoverage /\ SomeReduced

\* merge_state as finish sees it.
MergeAtFinish(why) ==
  IF FailureCapped(why)
    THEN WithRebuffered(ClaimedBy(
           {r \in Reducer : status[r] \in {"failed", "canceled"}}))
    ELSE merge

\* The accepted results a finish must name as omitted, all of them.
LeftOver(why) == {d \in Discovery : MergeAtFinish(why)[d] = "buffered"}

\* Mutant: any finish may leave accepted results out.
AnyOmissionAllowed(why) == TRUE

OmissionAllowed(why) == why = "saturated" \/ FailureCapped(why)

\* A failed reducer is forgiven when successful reducers covered its inputs.
Covered(r) ==
  /\ inputs[r] # {}
  /\ \A d \in inputs[r] :
       \E q \in Reducer : status[q] = "succeeded" /\ d \in inputs[q]

BlockingFailure(why) ==
  \/ why # "saturated" /\ \E d \in Discovery : status[d] = "failed"
  \/ \E r \in Reducer : status[r] = "failed" /\ ~Covered(r)

\* The deadline passed before a single discovery was accepted.
NothingToReduce(why) == why = "capped" /\ deadline /\ accepted = 0

MayStop(why) ==
  \/ why = "saturated" /\ noNew >= StopAfterNoNew
  \/ why = "capped" /\ (Capped \/ FailureCapped(why))

\* What a finish is checked for.
Finishable(why, omitted) ==
  /\ MayStop(why)
  /\ SomeReduced \/ NothingToReduce(why)
  /\ FailureCapped(why) \/ ~BlockingFailure(why)
  /\ why = "saturated" \/ ~SomeActive(Worker)
  /\ \A d \in Discovery : MergeAtFinish(why)[d] # "merging"
  /\ omitted = LeftOver(why)
  /\ OmissionAllowed(why) \/ omitted = {}

FinishDeepScan(g, why, omitted) ==
  /\ CurrentCoordinator(g)
  /\ RunningScan
  /\ Finishable(why, omitted)
  /\ run' = "succeeded"
  /\ phase' = "terminal"
  /\ reason' = why
  /\ leaseLive' = TRUE
  /\ merge' = MergeAtFinish(why)
  /\ status' = WithActiveCanceled
  /\ UNCHANGED <<parent, generation, deadline, counterVars, note, seq, inputs,
                 historyVars>>

StopRun(runStatus, parentStatus) ==
  /\ run' = runStatus
  /\ parent' = parentStatus
  /\ phase' = "terminal"
  /\ leaseLive' = TRUE
  /\ status' = WithActiveCanceled
  /\ UNCHANGED <<reason, generation, deadline, counterVars, note, merge, seq,
                 inputs, historyVars>>

FailDeepScan(g, s) ==
  /\ CurrentCoordinator(g)
  /\ run = "running"
  /\ parent = "running"
  /\ s \in {"failed", "interrupted"}
  /\ StopRun(s, "failed")

\* The parent's commands answer to the owning thread, not to the lease.  They
\* also cancel active rows, of which a succeeded run has none.
FailScan ==
  /\ parent = "running"
  /\ IF run = "running"
       THEN StopRun("failed", "failed")
       ELSE /\ parent' = "failed"
            /\ UNCHANGED <<run, phase, reason, leaseVars, counterVars, rowVars,
                           historyVars>>

CancelScan ==
  /\ parent = "running"
  /\ run \in {"running", "succeeded"}
  /\ StopRun("canceled", "canceled")

\* Mutant: does not check the run.
AlwaysReady == TRUE

ReadyForParentCompletion == run = "succeeded"

CompleteScan ==
  /\ parent = "running"
  /\ ReadyForParentCompletion
  /\ parent' = "complete"
  /\ UNCHANGED <<run, phase, reason, leaseVars, counterVars, rowVars,
                 historyVars>>

-----------------------------------------------------------------------------
(* Time.                                                                   *)

LeaseExpires ==
  /\ run = "running"
  /\ leaseLive
  /\ leaseLive' = FALSE
  /\ UNCHANGED <<runVars, generation, deadline, counterVars, rowVars,
                 historyVars>>

DeadlinePasses ==
  /\ run = "running"
  /\ ~deadline
  /\ deadline' = TRUE
  /\ UNCHANGED <<runVars, generation, leaseLive, counterVars, rowVars,
                 historyVars>>

-----------------------------------------------------------------------------
LeaseStep(g) == RenewLease(g) \/ Heartbeat(g)

DiscoveryStep(g) ==
  \E d \in Discovery :
    \/ \E s \in {"queued", "running"} : NewDiscovery(g, d, s)
    \/ AcceptDiscovery(g, d)
    \/ ReplaceDiscovery(g, d)
    \/ FailDiscovery(g, d)

WorkerStep(g) ==
  \E w \in Worker :
    \/ \E n \in {"none", "error"} : StartAttempt(g, w, n)
    \/ \E n \in {"none", "shutdown", "error"} : CancelWorker(g, w, n)

ReducerStep(g) ==
  \E r \in Reducer :
    \/ \E S \in SUBSET Discovery : ClaimDedup(g, r, S)
    \/ \E new \in {0, 1} : CommitDedup(g, r, new)
    \/ FailReducer(g, r)

StopStep(g) ==
  \/ \E why \in {"saturated", "capped"}, omitted \in SUBSET Discovery :
       FinishDeepScan(g, why, omitted)
  \/ \E s \in {"failed", "interrupted"} : FailDeepScan(g, s)

ParentStep == FailScan \/ CancelScan \/ CompleteScan

Next ==
  \/ \E g \in Callers :
       \/ LeaseStep(g)
       \/ DiscoveryStep(g)
       \/ WorkerStep(g)
       \/ ReducerStep(g)
       \/ StopStep(g)
  \/ AdoptCoordinator
  \/ ParentStep
  \/ LeaseExpires
  \/ DeadlinePasses

Spec == Init /\ [][Next]_vars

-----------------------------------------------------------------------------
(* Safety.                                                                 *)

\* A discovery row carries a merge state and a completion sequence from the
\* moment its result is accepted, and never before or without that.
MergeMatchesStatus ==
  \A d \in Discovery :
    /\ (merge[d] # "none") <=> (status[d] = "succeeded")
    /\ (seq[d] # 0) <=> (status[d] = "succeeded")

\* Completion order is a total order on the accepted results, so that a prefix
\* of the buffered ones is the same set for every process that computes it.
AcceptanceIsOrdered ==
  /\ \A d \in Discovery : seq[d] <= accepted
  /\ \A d, e \in Discovery : seq[d] = seq[e] /\ seq[d] # 0 => d = e

\* The ledger never folds a result in twice and never claims one it did not
\* fold in: a result is merged exactly when one successful reducer, and no
\* other, had claimed it, whatever was retried, failed or recovered before.
MergedExactlyOnce ==
  /\ \A d \in Discovery :
       /\ (merge[d] = "merged") <=>
            (\E r \in Reducer : status[r] = "succeeded" /\ d \in inputs[r])
       /\ \A q, r \in Reducer :
            /\ status[q] = "succeeded" /\ d \in inputs[q]
            /\ status[r] = "succeeded" /\ d \in inputs[r]
            => q = r
  /\ \A r \in Reducer : status[r] = "succeeded" => inputs[r] # {}

\* Two reducers never work at once, across claims, failures and adoptions.
OneActiveReducer ==
  \A q, r \in Reducer : Active(q) /\ Active(r) => q = r

\* What an active reducer claimed is still its own, so that its commit cannot
\* be refused because recovery or another reducer took an input away.
ActiveClaimIsWhole ==
  \A r \in Reducer :
    Active(r) => inputs[r] # {} /\ inputs[r] \subseteq Merging

\* A reducer that was canceled for another reason than a shutdown.
CanceledOtherwise(r) ==
  /\ status[r] = "canceled"
  /\ note[r] \notin {"shutdown", "recovered"}
  /\ Legacy => note[r] # "none"

\* A takeover gives back what its predecessors had claimed, of a reducer that
\* was active, had failed (started or not) or was shut down: what it leaves
\* claimed is the claim of a reducer that an error or the user had canceled.
NoStrandedByRecovery ==
  [][generation' # generation =>
       \A d \in Discovery :
         merge'[d] = "merging" =>
           \E r \in Reducer : d \in inputs[r] /\ CanceledOtherwise(r)]_vars

\* The no-new streak is the number of results merged since a reduction last
\* found something new: none is counted twice, and nothing new is passed over.
StreakIsExact == sinceNew \subseteq Merged /\ noNew = Cardinality(sinceNew)

Dispatched == {d \in Discovery : status[d] # "none"}

\* Every slot of the budget is one discovery that was dispatched and not given
\* back, and no adoption gives a slot back twice or gives back a finished one.
DispatchAccounting ==
  /\ refunded \subseteq {d \in Discovery : status[d] = "canceled"}
  /\ dispatched = Cardinality(Dispatched) - Cardinality(refunded)
  /\ dispatched <= MaxDiscoveryRuns

\* A new coordinator never meets a live row of its predecessors.
ActiveRowsAreCurrent == \A w \in Worker : Active(w) => born[w] = generation

StoppedRunHasNoActiveRow == run # "running" => ~SomeActive(Worker)

\* A run that succeeded accounts for every accepted result: it is in the
\* ledger, or the run saturated (or stopped early, saying so) and names it as
\* omitted; and something was reduced unless there was nothing to reduce.
SucceededRunIsComplete ==
  run = "succeeded" =>
    /\ reason # "none"
    /\ Merging = {}
    /\ Buffered # {} => reason = "saturated" \/ PartialCoverage
    /\ reason = "saturated" => Cardinality(Merged) >= StopAfterNoNew
    /\ SomeReduced \/ (deadline /\ accepted = 0)

\* The run and its parent scan end together: no scan completes on a run that
\* did not succeed, and no stopped run leaves its scan running.
ParentAgrees ==
  /\ parent = "complete" => run = "succeeded"
  /\ parent = "canceled" <=> run = "canceled"
  /\ parent = "failed" => run \in {"failed", "interrupted", "succeeded"}
  /\ parent = "running" => run \in {"running", "succeeded"}

\* Nothing a worker, a stale coordinator or a late reply sends changes a run
\* that stopped; only the user can still cancel one whose scan is not complete.
TerminalIsStable ==
  [][run # "running" =>
       /\ run' = run \/ (run = "succeeded" /\ parent = "running"
                           /\ run' = "canceled" /\ parent' = "canceled")
       /\ UNCHANGED <<reason, generation, counterVars, rowVars>>]_vars

-----------------------------------------------------------------------------
(* The inductive invariant: the parts above and what they rest on.         *)

\* A result marked merging belongs to a claim that neither succeeded nor was
\* recovered.
MergingIsClaimed ==
  \A d \in Merging :
    \E r \in Reducer :
      d \in inputs[r] /\ status[r] # "succeeded" /\ note[r] # "recovered"

\* Only rows that have stopped carry a marker recovery looks for, and a row
\* that does not exist yet carries nothing.
NotesFit ==
  /\ \A w \in Worker :
       /\ status[w] = "none" => note[w] = "none"
       /\ Active(w) => note[w] \in {"none", "error"}
  /\ \A r \in Reducer : status[r] = "none" => inputs[r] = {}

\* A run still in setup has nothing to recover.
SetupIsEmpty == phase = "setup" => \A w \in Worker : status[w] = "none"

\* A discovery whose slot was given back no longer looks interrupted.
RefundedIsMarked ==
  \A d \in refunded :
    /\ note[d] # "shutdown"
    /\ note[d] = "none" => generation > 1

\* Every safety property above, with the facts that make them inductive:
\* it is what the proofs carry through each command.
IInv ==
  /\ TypeOK
  /\ MergeMatchesStatus
  /\ AcceptanceIsOrdered
  /\ MergedExactlyOnce
  /\ OneActiveReducer
  /\ ActiveClaimIsWhole
  /\ MergingIsClaimed
  /\ StreakIsExact
  /\ DispatchAccounting
  /\ ActiveRowsAreCurrent
  /\ StoppedRunHasNoActiveRow
  /\ SucceededRunIsComplete
  /\ ParentAgrees
  /\ NotesFit
  /\ SetupIsEmpty
  /\ RefundedIsMarked
=============================================================================
