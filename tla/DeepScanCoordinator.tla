------------------------ MODULE DeepScanCoordinator ------------------------
(***************************************************************************)
(* A Deep Scan as it runs: the coordinator of an MCP server process        *)
(* (mcp-app/src/deep-scan/coordinator.ts), the workers it starts           *)
(* (worker-runner.ts) and the observers that replace it when its lease     *)
(* expires (registry.ts), on top of the rows of DeepScanWorkbench.         *)
(*                                                                         *)
(* Each command a worker or the scheduler sends is one step that changes   *)
(* the rows, and the reply is a later step.  The scheduler reads worker    *)
(* outcomes from a queue, in completion order.  What it does between two   *)
(* awaits is one step, or two where nothing can tell the difference:       *)
(* reading an outcome and refilling the pool, since what a worker does in  *)
(* between it could have done before.  Likewise a finish or a failure that *)
(* is being sent while the coordinator is told to stop is sent before.     *)
(*                                                                         *)
(* Only the coordinator of the current generation is kept.  A predecessor  *)
(* that has been replaced may go on for a while, but the rows refuse all   *)
(* it sends (DeepScanWorkbench, where any caller may send anything); a     *)
(* replacement therefore simply takes over the variable co.                *)
(***************************************************************************)
EXTENDS DeepScanWorkbench, Sequences

CONSTANTS
  PoolSize,    \* config.workers
  ErrorLimit,  \* config.stopAfterConsecutiveErrors ?? config.stopAfterNoNew
  MaxFaults    \* bound on lost replies and failed writes

\* Identities are the sequence numbers of the workers' labels.
ASSUME CoordinatorAssumption ==
  /\ Worker \subseteq Nat
  /\ IsFiniteSet(Reducer)
  /\ PoolSize \in Nat \ {0}
  /\ ErrorLimit \in Nat \ {0}
  /\ MaxFaults \in Nat

VARIABLES
  co,     \* the coordinator of the current generation
  faults  \* faults that may still happen

systemVars == <<vars, co, faults>>

\* absent: there is no process that coordinates the run.
\* working: in the scheduler's loop.
\* draining: saturated, waiting for the discoveries it aborted.
\* finishing: the result is ready to be published and the run to be finished.
\* failing: an error ended the loop; waiting for the workers, then store.fail.
\* leaving: canceled, shut down or ownership lost; waiting for the workers.
Mode == {"absent", "working", "draining", "finishing", "failing", "leaving"}

\* Why abortController was aborted, if it was; the first reason stays.
Abort == {"no", "error", "saturated", "shutdown", "cancel", "lost"}

\* spawned: its first write is being sent.   queued: an attempt may start.
\* running: an attempt executes.             saving: its result is being sent.
\* replying: the result is stored.           settled: its outcome is queued.
Task == {"none", "spawned", "queued", "running", "saving", "replying",
         "settled"}

Outcome == [who : Worker,
            what : {"accepted", "replaced", "canceled", "failed",
                    "reduced", "redfailed", "rejected"}]

NoCoordinator ==
  [mode        |-> "absent",
   abort       |-> "no",
   dstop       |-> FALSE,      \* discoveryDeadlineReached
   task        |-> [w \in Worker |-> "none"],
   settlements |-> <<>>,
   buffer      |-> {},         \* accepted, not handed to a reducer
   consumed    |-> {},         \* handed to the reducer that was started last
   dispatched  |-> 0,
   noNewStreak |-> 0,
   reduced     |-> FALSE,      \* previousReducerResultPath is set
   errors      |-> 0,          \* consecutiveErrors
   reducerFailures |-> 0,
   lastFailure |-> FALSE,      \* lastReplaceableFailure is set
   why         |-> "none",     \* stopReason
   omitted     |-> {},
   asked       |-> FALSE]      \* a cancellation waits to be persisted

CoordinatorState ==
  [mode : Mode, abort : Abort, dstop : BOOLEAN, task : [Worker -> Task],
   settlements : Seq(Outcome), buffer : SUBSET Discovery,
   consumed : SUBSET Discovery, dispatched : Nat, noNewStreak : Nat,
   reduced : BOOLEAN, errors : Nat, reducerFailures : Nat,
   lastFailure : BOOLEAN, why : {"none", "saturated", "capped"},
   omitted : SUBSET Discovery, asked : BOOLEAN]

CoordinatorTypeOK == co \in CoordinatorState /\ faults \in 0..MaxFaults

SystemInit == Init /\ co = NoCoordinator /\ faults = MaxFaults

-----------------------------------------------------------------------------
(* What the coordinator computes from its own state.                       *)

Occupied(W) == {w \in W : co.task[w] # "none"}

Settled == \A w \in Worker : co.task[w] = "none"

DiscoveryAborted == co.dstop \/ co.abort # "no"

\* Discovery workers also stop at the deadline; reducers do not.
Aborted(w) == co.abort # "no" \/ (w \in Discovery /\ co.dstop)

\* The next n labels.
Fresh(W) == {w \in W : status[w] = "none" /\ co.task[w] = "none"}
NextLabels(W, n) ==
  {w \in Fresh(W) : Cardinality({v \in Fresh(W) : v < w}) < n}

\* Mutant: does not count the workers whose outcome is not read yet.
SlotsBesideRunning ==
  IF co.dstop \/ (co.reduced /\ co.noNewStreak >= StopAfterNoNew) THEN 0
  ELSE LET room == PoolSize - Cardinality({d \in Discovery :
                                  co.task[d] \in {"spawned", "queued"}})
           left == MaxDiscoveryRuns - co.dispatched
       IN IF room < left THEN room ELSE left

\* How many discovery workers the loop starts before it waits again.
Slots ==
  IF co.dstop \/ (co.reduced /\ co.noNewStreak >= StopAfterNoNew) THEN 0
  ELSE LET room == PoolSize - Cardinality(Occupied(Discovery))
           left == MaxDiscoveryRuns - co.dispatched
       IN IF room < left THEN room ELSE left

\* Mutant: the last result may not stand alone.
ReducerNeedsTwo(active, dispatchedNow) ==
  /\ co.buffer # {}
  /\ co.reduced \/ Cardinality(co.buffer) >= 2

\* Two discoveries for the first reduction; a later one, or the last discovery
\* the limits allow, may stand alone.
ReducerReady(active, dispatchedNow) ==
  /\ co.buffer # {}
  /\ \/ co.reduced
     \/ Cardinality(co.buffer) >= 2
     \/ active = 0 /\ (dispatchedNow >= MaxDiscoveryRuns \/ co.dstop)

-----------------------------------------------------------------------------
(* How a coordinator starts and stops.                                     *)

\* Mutant: forgets the kind of the row.
BufferingAnyKind(s, m) ==
  {w \in Worker : s[w] = "succeeded" /\ (w \in Discovery => m[w] # "merged")}

Buffering(s, m) == {d \in Discovery : s[d] = "succeeded" /\ m[d] # "merged"}

\* Reducers in label order: how many failed since the last that succeeded.
FailureStreak(s) ==
  Cardinality({r \in Reducer :
    /\ s[r] = "failed"
    /\ \A q \in Reducer : s[q] = "succeeded" => q < r})

\* The state a coordinator starts from, read back from the rows (s and m are
\* their status and merge state).  Limits that were reached before count.
Recovered(s, m, count, streak, errorCount) ==
  LET buffer  == Buffering(s, m)
      reduced == \E r \in Reducer : s[r] = "succeeded"
      failed  == errorCount >= ErrorLimit \/ FailureStreak(s) >= ErrorLimit
      stop    == ~deadline /\ reduced /\ streak >= StopAfterNoNew /\ buffer = {}
      counted == [NoCoordinator EXCEPT
                   !.buffer = buffer, !.dispatched = count,
                   !.noNewStreak = streak, !.reduced = reduced,
                   !.errors = errorCount, !.reducerFailures = FailureStreak(s)]
  IN [counted EXCEPT
       !.mode = IF failed THEN "failing"
                ELSE IF stop THEN "finishing" ELSE "working",
       !.abort = IF failed THEN "error" ELSE "no",
       !.why = IF stop /\ ~failed THEN "saturated" ELSE "none",
       !.dstop = deadline]

\* A call that starts or joins the scan, or an observer that polls it, claims
\* the run once its lease is not live.
Claim ==
  /\ AdoptCoordinator
  /\ co' = Recovered(status', merge', dispatched', noNew', errors')
  /\ UNCHANGED faults

\* What remains of a coordinator that stops in mode m for reason a: its
\* workers, which it waits for, and the signal they see.
Stopping(m, a) ==
  LET kept == [NoCoordinator EXCEPT
                !.dstop = co.dstop,
                !.task = [w \in Worker |->
                           IF co.task[w] = "settled" THEN "none" ELSE co.task[w]],
                !.consumed = co.consumed,
                !.asked = co.asked]
  IN [kept EXCEPT !.mode = m,
                  !.abort = IF co.abort = "no" THEN a ELSE co.abort]

-----------------------------------------------------------------------------
(* The scheduler's loop.                                                   *)

\* Fill the pool, then start a reducer on everything in the buffer.
Fill ==
  /\ co.mode = "working"
  /\ co.settlements = <<>>
  /\ LET new    == NextLabels(Discovery, Slots)
         count  == co.dispatched + Cardinality(new)
         active == Cardinality(Occupied(Discovery)) + Cardinality(new)
         first  == IF Occupied(Reducer) = {} /\ ReducerReady(active, count)
                     THEN NextLabels(Reducer, 1) ELSE {}
     IN /\ new \cup first # {}
        /\ co' = [co EXCEPT
             !.dispatched = count,
             !.task = [w \in Worker |->
                         IF w \in new \cup first THEN "spawned" ELSE @[w]],
             !.consumed = IF first = {} THEN @ ELSE co.buffer,
             !.buffer = IF first = {} THEN @ ELSE {}]
  /\ UNCHANGED <<vars, faults>>

\* Nothing runs and nothing can be started.
Exhausted ==
  /\ co.mode = "working"
  /\ Settled
  /\ Slots = 0
  /\ co.buffer = {}
  /\ co' = IF ~co.reduced /\ (co.lastFailure \/ ~co.dstop)
             THEN Stopping("failing", "error")
             ELSE [co EXCEPT !.mode = "finishing", !.why = "capped"]
  /\ UNCHANGED <<vars, faults>>

\* Mutant: does not look at what has been accepted since.
SaturatedUnread(streak) == ~co.dstop /\ streak >= StopAfterNoNew

Saturated(streak) ==
  ~co.dstop /\ streak >= StopAfterNoNew /\ co.buffer = {}

\* Mutant: drops what the failed reducer had.
BufferedSince == co.buffer

\* The buffer once a failed reducer gave back what it had.
BufferedAgain == co.buffer \cup co.consumed

\* What the loop becomes when it reads that outcome o of worker w.
AfterOutcome(w, o) ==
  LET read == [co EXCEPT !.settlements = Tail(@), !.task[w] = "none"]
  IN CASE o = "accepted" ->
            [read EXCEPT !.buffer = @ \cup {w}, !.errors = 0]
       [] o = "replaced" ->
            IF co.errors + 1 < ErrorLimit
              THEN [read EXCEPT !.errors = @ + 1, !.lastFailure = TRUE]
              ELSE Stopping("failing", "error")
       [] o = "canceled" ->
            IF DiscoveryAborted THEN read ELSE Stopping("failing", "error")
       [] o = "reduced" ->
            LET done == [read EXCEPT !.reducerFailures = 0, !.consumed = {},
                           !.noNewStreak = noNew, !.reduced = TRUE]
            IN IF Saturated(noNew)
                 THEN [done EXCEPT !.mode = "draining", !.why = "saturated",
                                   !.abort = "saturated"]
                 ELSE done
       [] o = "redfailed" ->
            IF co.reducerFailures + 1 < ErrorLimit
              THEN [read EXCEPT !.reducerFailures = @ + 1,
                      !.buffer = BufferedAgain, !.consumed = {}]
              ELSE Stopping("failing", "error")
       [] o \in {"failed", "rejected"} -> Stopping("failing", "error")

ReadOutcome ==
  /\ co.mode = "working"
  /\ co.settlements # <<>>
  /\ LET o == Head(co.settlements) IN co' = AfterOutcome(o.who, o.what)
  /\ UNCHANGED <<vars, faults>>

\* After saturation a late result is named as omitted; other outcomes of the
\* discoveries that were aborted do not matter any more.
ReconcileLate ==
  /\ co.mode = "draining"
  /\ co.settlements # <<>>
  /\ LET o == Head(co.settlements)
     IN co' = [co EXCEPT
                 !.settlements = Tail(@), !.task[o.who] = "none",
                 !.omitted = IF o.what = "accepted" THEN @ \cup {o.who} ELSE @]
  /\ UNCHANGED <<vars, faults>>

Drained ==
  /\ co.mode = "draining"
  /\ Settled
  /\ co' = [co EXCEPT !.mode = "finishing"]
  /\ UNCHANGED <<vars, faults>>

\* A lost reply is replayed, and after a second one the rows tell.
Finish ==
  /\ co.mode = "finishing"
  /\ FinishDeepScan(generation, co.why, co.omitted)
  /\ co' = NoCoordinator
  /\ UNCHANGED faults

FinishRefused ==
  /\ co.mode = "finishing"
  /\ RunningScan
  /\ ~Finishable(co.why, co.omitted)
  /\ co' = Stopping("failing", "error")
  /\ UNCHANGED <<vars, faults>>

\* The result cannot be written, or no finish reaches the store.
FinishLost ==
  /\ co.mode = "finishing"
  /\ faults > 0
  /\ faults' = faults - 1
  /\ co' = Stopping("failing", "error")
  /\ UNCHANGED vars

Fail ==
  /\ co.mode = "failing"
  /\ Settled
  /\ FailDeepScan(generation, "failed")
  /\ co' = NoCoordinator
  /\ UNCHANGED faults

\* store.fail did not get through: the process forgets a run that still runs.
FailLost ==
  /\ co.mode = "failing"
  /\ Settled
  /\ faults > 0 /\ generation < MaxGeneration
  /\ faults' = faults - 1
  /\ co' = NoCoordinator
  /\ UNCHANGED vars

-----------------------------------------------------------------------------
(* What stops a coordinator from outside.                                  *)

Disruptable == co.mode \in {"working", "draining", "finishing", "failing"}

\* The heartbeat timer finds that the run was stopped by somebody else.
LoseOwnership ==
  /\ Disruptable
  /\ run # "running"
  /\ co' = Stopping("leaving", "lost")
  /\ UNCHANGED <<vars, faults>>

\* The MCP transport closes.
Shutdown ==
  /\ Disruptable
  /\ generation < MaxGeneration
  /\ co' = Stopping("leaving", "shutdown")
  /\ UNCHANGED <<vars, faults>>

\* The user cancels in this process: the workers settle first.
AskCancel ==
  /\ Disruptable
  /\ run = "running"
  /\ co' = [Stopping("leaving", "cancel") EXCEPT !.asked = TRUE]
  /\ UNCHANGED <<vars, faults>>

PersistCancel ==
  /\ co.mode = "leaving"
  /\ Settled
  /\ co.asked
  /\ CancelScan
  /\ co' = NoCoordinator
  /\ UNCHANGED faults

\* cancel-scan did not get through; it is sent once, and the process forgets a
\* run that still runs.
CancelLost ==
  /\ co.mode = "leaving"
  /\ Settled
  /\ co.asked
  /\ run = "running"
  /\ faults > 0 /\ generation < MaxGeneration
  /\ faults' = faults - 1
  /\ co' = NoCoordinator
  /\ UNCHANGED vars

\* Mutant: the caller is not waited for.
NobodyWaits == TRUE

\* No caller of cancel waits for the workers to persist its cancellation.
NothingToPersist == co.asked => run # "running"

Leave ==
  /\ co.mode = "leaving"
  /\ Settled
  /\ NothingToPersist
  /\ co' = NoCoordinator
  /\ UNCHANGED <<vars, faults>>

\* The process dies.  The last coordinator the bound allows is spared.
Crash ==
  /\ co.mode # "absent"
  /\ generation < MaxGeneration
  /\ co' = NoCoordinator
  /\ UNCHANGED <<vars, faults>>

\* stopDiscoveryAtDeadline
ReachDeadline ==
  /\ co.mode = "working"
  /\ deadline
  /\ ~co.dstop
  /\ co' = [co EXCEPT !.dstop = TRUE]
  /\ UNCHANGED <<vars, faults>>

-----------------------------------------------------------------------------
(* The workers.                                                            *)

At(w, t) == co' = [co EXCEPT !.task[w] = t]

\* An outcome is queued for the loop; once the loop is over, nobody reads it.
Report(w, what) ==
  co' = IF co.mode \in {"working", "draining"}
          THEN [co EXCEPT !.task[w] = "settled",
                  !.settlements = Append(@, [who |-> w, what |-> what])]
          ELSE [co EXCEPT !.task[w] = "none"]

\* A canceled reducer is an error of the loop, a canceled discovery is not.
Cancellation(w) == IF w \in Discovery THEN "canceled" ELSE "rejected"

InsertDiscovery(d) ==
  /\ co.task[d] = "spawned"
  /\ NewDiscovery(generation, d, "queued")
  /\ At(d, "queued")
  /\ UNCHANGED faults

InsertReducer(r) ==
  /\ co.task[r] = "spawned"
  /\ ClaimDedup(generation, r, co.consumed)
  /\ At(r, "queued")
  /\ UNCHANGED faults

BeginAttempt(w) ==
  /\ co.task[w] = "queued"
  /\ ~Aborted(w)
  /\ StartAttempt(generation, w, "none")
  /\ At(w, "running")
  /\ UNCHANGED faults

\* An attempt failed and attempts remain; the number is left open.
RetryAttempt(w) ==
  /\ co.task[w] = "running"
  /\ ~Aborted(w)
  /\ StartAttempt(generation, w, "error")
  /\ UNCHANGED <<co, faults>>

\* The result is valid and its write is queued: no abort stops it from here.
SaveResult(w) ==
  /\ co.task[w] = "running"
  /\ ~Aborted(w)
  /\ At(w, "saving")
  /\ UNCHANGED <<vars, faults>>

StoreDiscovery(d) ==
  /\ co.task[d] = "saving"
  /\ AcceptDiscovery(generation, d)
  /\ At(d, "replying")
  /\ UNCHANGED faults

StoreReduction(r, new) ==
  /\ co.task[r] = "saving"
  /\ CommitDedup(generation, r, new)
  /\ At(r, "replying")
  /\ UNCHANGED faults

Answer(w) ==
  /\ co.task[w] = "replying"
  /\ Report(w, IF w \in Discovery THEN "accepted" ELSE "reduced")
  /\ UNCHANGED <<vars, faults>>

\* The attempts are used up; another discovery may take its place.
GiveUpDiscovery(d) ==
  /\ co.task[d] = "running"
  /\ ~Aborted(d)
  /\ \/ ReplaceDiscovery(generation, d) /\ Report(d, "replaced")
     \/ FailDiscovery(generation, d) /\ Report(d, "failed")
  /\ UNCHANGED faults

\* Non-retryable failures end the loop, the others count.
GiveUpReducer(r) ==
  /\ co.task[r] = "running"
  /\ ~Aborted(r)
  /\ FailReducer(generation, r)
  /\ Report(r, "redfailed") \/ Report(r, "rejected")
  /\ UNCHANGED faults

\* Recovery gives the slot of a worker back that its process shut down; the
\* discoveries' signal keeps the deadline as its reason if that came first.
CancellationNote(w) ==
  IF co.abort = "shutdown" /\ ~(w \in Discovery /\ co.dstop)
    THEN "shutdown" ELSE "none"

AbandonAttempt(w) ==
  /\ co.task[w] \in {"queued", "running"}
  /\ Aborted(w)
  /\ CancelWorker(generation, w, CancellationNote(w))
  /\ Report(w, Cancellation(w))
  /\ UNCHANGED faults

\* The rows refuse what the worker sends: the run was stopped meanwhile, or
\* the claim or the dispatch breaks a rule.
SendsRefused(w) ==
  \/ /\ ~RunningScan
     /\ co.task[w] \in {"spawned", "queued", "running", "saving"}
  \/ /\ co.task[w] = "spawned"
     /\ IF w \in Discovery THEN dispatched >= MaxDiscoveryRuns
                           ELSE ~Claimable(co.consumed)

\* What a worker reports when its write fails: only a discovery that stores its
\* result takes the failure for a cancellation once it is aborted.
AfterFailedWrite(w) ==
  IF w \in Discovery /\ Aborted(w) /\ co.task[w] \in {"saving", "replying"}
    THEN "canceled" ELSE "rejected"

Refused(w) ==
  /\ SendsRefused(w)
  /\ Report(w, AfterFailedWrite(w))
  /\ UNCHANGED <<vars, faults>>

\* Every replay of a write failed, before or after one was committed.
WriteLost(w) ==
  /\ co.task[w] \in {"spawned", "queued", "running", "saving", "replying"}
  /\ faults > 0
  /\ faults' = faults - 1
  /\ Report(w, AfterFailedWrite(w))
  /\ UNCHANGED vars

\* Mutant: writes are sent at once.
QueueIsIgnored == TRUE

\* enqueueWrite sends one write after the other: the next one starts when the
\* reply to the last has reached the worker that waits for it.
WriteQueueFree == \A w \in Worker : co.task[w] # "replying"

\* What a worker does by itself once it has been started.
WorkerProceeds(w) ==
  \/ /\ WriteQueueFree
     /\ \/ /\ w \in Discovery
           /\ InsertDiscovery(w) \/ StoreDiscovery(w) \/ GiveUpDiscovery(w)
        \/ /\ w \in Reducer
           /\ \/ InsertReducer(w)
              \/ \E new \in {0, 1} : StoreReduction(w, new)
              \/ GiveUpReducer(w)
        \/ BeginAttempt(w)
        \/ AbandonAttempt(w)
        \/ Refused(w)
  \/ SaveResult(w)
  \/ Answer(w)

-----------------------------------------------------------------------------
CoordinatorProceeds ==
  \/ Fill \/ Exhausted \/ ReadOutcome \/ ReconcileLate \/ Drained
  \/ Finish \/ FinishRefused \/ Fail
  \/ LoseOwnership \/ PersistCancel \/ Leave
  \/ ReachDeadline

Disruption ==
  \/ FinishLost \/ FailLost \/ CancelLost \/ Shutdown \/ AskCancel \/ Crash
  \/ \E w \in Worker : WriteLost(w) \/ (WriteQueueFree /\ RetryAttempt(w))

Beat == co.mode # "absent" /\ Heartbeat(generation) /\ UNCHANGED <<co, faults>>

\* A lease is only watched while another coordinator may follow.
Expire ==
  generation < MaxGeneration /\ LeaseExpires /\ UNCHANGED <<co, faults>>

\* The parent scan is failed, canceled or completed from another process.
Parent == ParentStep /\ UNCHANGED <<co, faults>>

SystemNext ==
  \/ Claim
  \/ CoordinatorProceeds
  \/ \E w \in Worker : WorkerProceeds(w)
  \/ Disruption
  \/ Beat
  \/ Expire
  \/ Parent
  \/ DeadlinePasses /\ UNCHANGED <<co, faults>>

SystemSpec == SystemInit /\ [][SystemNext]_systemVars

\* Timers fire and promises settle: a turn of the loop or of a worker that can
\* be taken is taken, an attempt ends, and while no process coordinates a
\* running scan its lease runs out and an observer claims it.
FairSystemSpec ==
  /\ SystemSpec
  /\ WF_systemVars(CoordinatorProceeds)
  /\ \A w \in Worker : WF_systemVars(WorkerProceeds(w))
  /\ WF_systemVars(co.mode = "absent" /\ Expire)
  /\ WF_systemVars(co.mode = "absent" /\ Claim)

-----------------------------------------------------------------------------
(* Safety.                                                                 *)

\* The pool never holds more discoveries than configured, even when a
\* coordinator took over a pool that another one had filled.
PoolBounded == Cardinality({d \in Discovery : Active(d)}) <= PoolSize

\* The discoveries that hold a place in the pool: a row that is active, or a
\* worker whose outcome the loop has not read.
InPool == {d \in Discovery : Active(d) \/ co.task[d] # "none"}

PoolHasRoom == Cardinality(InPool) <= PoolSize

\* A loop that still starts discoveries knows every active one: none was left
\* by the coordinator before it, and none is dropped while its row is active.
ActiveIsOwned ==
  co.mode = "working" =>
    /\ co.abort = "no"
    /\ ~co.dstop => \A d \in Discovery : Active(d) => co.task[d] # "none"

Final(w) == status[w] \in {"succeeded", "failed", "canceled"}

\* An outcome names a worker of its kind, and one that frees a place in the pool
\* and lets the loop go on is that of a row that is over.
Fits(o) ==
  /\ o.what \in {"accepted", "replaced"} => o.who \in Discovery /\ Final(o.who)
  /\ o.what = "canceled" => o.who \in Discovery
  /\ o.what \in {"reduced", "redfailed"} => o.who \in Reducer

OutcomesFit ==
  /\ \A d \in Discovery : co.task[d] = "replying" => Final(d)
  /\ \A i \in DOMAIN co.settlements : Fits(co.settlements[i])

\* The inductive invariant of the pool, on top of that of the rows.
PoolIInv == CoordinatorTypeOK /\ PoolHasRoom /\ ActiveIsOwned /\ OutcomesFit

\* No accepted result is forgotten: while the loop runs, each one that is not
\* in the ledger is in its buffer, with its reducer, or on its way to the loop.
AcceptedIsKnown ==
  co.mode = "working" =>
    \A d \in Buffered \cup Merging :
      \/ d \in co.buffer \cup co.consumed
      \/ co.task[d] \in {"replying", "settled"}

\* What that rests on, while no write was lost and the loop runs.  A discovery
\* that works has a row that is not over, or was canceled with the run; and an
\* outcome that lets the loop go on without a result is that of a canceled row.
NoResultIsDropped ==
  /\ \A d \in Discovery :
       co.task[d] \in {"queued", "running", "saving"}
         => status[d] \in {"queued", "running", "canceled"}
  /\ \A i \in DOMAIN co.settlements :
       co.settlements[i].what \in {"canceled", "replaced"}
         => status[co.settlements[i].who] = "canceled"

\* One reducer works at a time, on what the loop handed to it; until its outcome
\* is read the loop remembers that, and a success means that it is merged.
OneReduction ==
  /\ \A q, r \in Reducer :
       co.task[q] # "none" /\ co.task[r] # "none" => q = r
  /\ Occupied(Reducer) = {} => co.consumed = {}
  /\ \A r \in Reducer :
       /\ co.task[r] \in {"queued", "running", "saving", "replying"}
            => inputs[r] = co.consumed
       /\ co.task[r] = "replying" => status[r] = "succeeded"
  /\ \A i \in DOMAIN co.settlements :
       /\ co.settlements[i].who \in Reducer
            => \A r \in Reducer : co.task[r] \in {"none", "settled"}
       /\ co.settlements[i].what = "reduced" => co.consumed \subseteq Merged

NothingLost == faults = MaxFaults /\ co.mode = "working"

KnownIInv ==
  NothingLost => AcceptedIsKnown /\ NoResultIsDropped /\ OneReduction

\* Accepted results that a reducer claimed and that no reducer works on.
Stranded == {d \in Merging : ~\E r \in Reducer : Active(r) /\ d \in inputs[r]}

\* What a coordinator finds accepted it can hand to a reducer.
AcceptedIsUsable == co.mode = "working" => Stranded = {}

\* The loop's view of the budget, of the streak and of the buffer is never
\* ahead of the rows: it starts no worker and no reducer they would refuse,
\* as long as every claim in the rows is some reducer's.
ClaimsAreAccepted ==
  RunningScan /\ Stranded = {} => \A w \in Worker : ~SendsRefused(w)

\* A coordinator that thinks the scan is over is right: unless a write was lost
\* or a predecessor died on a failed discovery, the rows accept its finish.
FinishIsAccepted ==
  /\ co.mode = "finishing" /\ RunningScan
  /\ faults = MaxFaults
  /\ \A d \in Discovery : status[d] # "failed"
  => Finishable(co.why, co.omitted)

-----------------------------------------------------------------------------
(* Liveness.                                                               *)

\* Whatever crashes, is shut down or fails, the run ends.
RunEnds == <>(run # "running")

\* A cancellation that the user asked for is not held up for good: it stops the
\* parent scan or, when the process dies or its write is lost, the run goes on
\* under another coordinator.  One that neither happens to takes effect.
CancelTakesEffect ==
  co.asked ~> (parent # "running" \/ (co.mode # "absent" /\ ~co.asked))
=============================================================================
