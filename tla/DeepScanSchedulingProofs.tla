---------------------- MODULE DeepScanSchedulingProofs ----------------------
(***************************************************************************)
(* What the scheduler's loop sends the rows accept: the claims of its      *)
(* reducers, the dispatches of its discoveries and its finish.             *)
(***************************************************************************)
EXTENDS DeepScanCoordinatorProofs

(***************************************************************************)
(* The loop's bookkeeping, whatever is lost.                               *)
(***************************************************************************)

\* Discoveries whose dispatch is being sent, and reducers that work.
Spawned == {d \in Discovery : co.task[d] = "spawned"}
AtWork(r) == co.task[r] \in {"spawned", "queued", "running", "saving"}

\* The loop's budget is never behind the rows': what is spawned has a slot.
BudgetFits ==
  /\ dispatched + Cardinality(Spawned) <= MaxDiscoveryRuns
  /\ co.mode = "working" =>
       /\ dispatched + Cardinality(Spawned) <= co.dispatched
       /\ co.dispatched <= MaxDiscoveryRuns

\* The outcome of a reducer is that of a row that is over.
EndFits(o) ==
  /\ o.what = "reduced" => status[o.who] = "succeeded"
  /\ o.what = "redfailed" => Final(o.who)

\* A reducer has no rival: no other has a task, and no row but its own is
\* active; a loop that goes on has read the end of those it no longer knows.
ReducerFits ==
  /\ \A q, r \in Reducer : co.task[q] # "none" /\ co.task[r] # "none" => q = r
  /\ \A r \in Reducer : co.task[r] = "spawned" => NoActiveReducer
  /\ co.mode = "working" => \A r \in Reducer : Active(r) => co.task[r] # "none"
  /\ \A r \in Reducer : co.task[r] = "replying" => status[r] = "succeeded"
  /\ \A i \in DOMAIN co.settlements : EndFits(co.settlements[i])
  /\ co.reduced => SomeReduced

\* One write at a time is answered; a worker whose outcome is not read has
\* exactly one in the queue.
QueueFits ==
  /\ \A v, w \in Worker :
       co.task[v] = "replying" /\ co.task[w] = "replying" => v = w
  /\ co.mode \in {"working", "draining"} =>
       \A w \in Worker : co.task[w] = "settled" =>
         \E i \in DOMAIN co.settlements : co.settlements[i].who = w
  /\ \A i \in DOMAIN co.settlements : co.task[co.settlements[i].who] = "settled"
  /\ \A i, j \in DOMAIN co.settlements :
       co.settlements[i].who = co.settlements[j].who => i = j
  /\ co.dstop => deadline

\* What holds of the scheduler's loop whatever is lost.
LoopIInv == BudgetFits /\ ReducerFits /\ QueueFits
-----------------------------------------------------------------------------
LEMMA OutcomesHaveType ==
  ASSUME CoordinatorTypeOK
  PROVE  /\ co.settlements \in Seq(Outcome)
         /\ \A i \in DOMAIN co.settlements :
              /\ co.settlements[i] \in Outcome
              /\ co.settlements[i].who \in Worker
<1>1. co.settlements \in Seq(Outcome)
  BY DEF CoordinatorTypeOK, CoordinatorState
<1>2. \A i \in DOMAIN co.settlements : co.settlements[i] \in Outcome
  BY <1>1, LenProperties, ElementOfSeq
<1> QED
  BY <1>1, <1>2 DEF Outcome

\* A worker that goes on changes its task and nothing else.
LEMMA AtFields ==
  ASSUME CoordinatorTypeOK, NEW w \in Worker, NEW t \in Task, At(w, t)
  PROVE  /\ co'.task = [co.task EXCEPT ![w] = t]
         /\ \A v \in Worker : co'.task[v] = IF v = w THEN t ELSE co.task[v]
         /\ co'.mode = co.mode /\ co'.dstop = co.dstop
         /\ co'.settlements = co.settlements
         /\ co'.buffer = co.buffer /\ co'.consumed = co.consumed
         /\ co'.dispatched = co.dispatched /\ co'.reduced = co.reduced
         /\ co'.noNewStreak = co.noNewStreak /\ co'.why = co.why
         /\ co'.omitted = co.omitted
<1>1. co'.task = [co.task EXCEPT ![w] = t]
  BY DEF At, CoordinatorTypeOK, CoordinatorState
<1>2. /\ co'.buffer = co.buffer /\ co'.consumed = co.consumed
      /\ co'.dispatched = co.dispatched /\ co'.reduced = co.reduced
      /\ co'.noNewStreak = co.noNewStreak /\ co'.why = co.why
      /\ co'.omitted = co.omitted
  BY DEF At, CoordinatorTypeOK, CoordinatorState
<1> QED
  BY <1>1, <1>2, AtType

\* A worker that ends changes its task and, while somebody reads it, the queue.
LEMMA ReportFields ==
  ASSUME CoordinatorTypeOK, NEW w \in Worker, NEW what,
         [who |-> w, what |-> what] \in Outcome, Report(w, what)
  PROVE  /\ co'.mode = co.mode /\ co'.dstop = co.dstop
         /\ co'.buffer = co.buffer /\ co'.consumed = co.consumed
         /\ co'.dispatched = co.dispatched /\ co'.reduced = co.reduced
         /\ co'.noNewStreak = co.noNewStreak /\ co'.why = co.why
         /\ co'.omitted = co.omitted
         /\ \/ /\ co.mode \in {"working", "draining"}
               /\ co'.settlements =
                    Append(co.settlements, [who |-> w, what |-> what])
               /\ \A v \in Worker :
                    co'.task[v] = IF v = w THEN "settled" ELSE co.task[v]
            \/ /\ co.mode \notin {"working", "draining"}
               /\ co'.settlements = co.settlements
               /\ \A v \in Worker :
                    co'.task[v] = IF v = w THEN "none" ELSE co.task[v]
<1>1. /\ co'.buffer = co.buffer /\ co'.consumed = co.consumed
      /\ co'.dispatched = co.dispatched /\ co'.reduced = co.reduced
      /\ co'.noNewStreak = co.noNewStreak /\ co'.why = co.why
      /\ co'.omitted = co.omitted
  BY DEF Report, CoordinatorTypeOK, CoordinatorState
<1> QED
  BY <1>1, ReportType

\* What a coordinator keeps when it stops.
LEMMA StoppingFields ==
  ASSUME CoordinatorTypeOK, NEW m \in Mode, NEW a \in Abort,
         co' = Stopping(m, a) \/ co' = [Stopping(m, a) EXCEPT !.asked = TRUE]
  PROVE  /\ co'.mode = m /\ co'.dstop = co.dstop /\ co'.settlements = <<>>
         /\ co'.reduced = FALSE /\ co'.consumed = co.consumed
         /\ \A w \in Worker :
              co'.task[w] = IF co.task[w] = "settled" THEN "none" ELSE co.task[w]
<1> DEFINE c == Stopping(m, a)
<1>1. /\ c.mode = m /\ c.dstop = co.dstop /\ c.settlements = <<>>
      /\ c.reduced = FALSE /\ c.consumed = co.consumed
      /\ \A w \in Worker :
           c.task[w] = IF co.task[w] = "settled" THEN "none" ELSE co.task[w]
  BY DEF Stopping, NoCoordinator
<1>2. c \in CoordinatorState
  BY StoppingType
<1> HIDE DEF c
<1>3. co' = c \/ co' = [c EXCEPT !.asked = TRUE]
  BY DEF c
<1> QED
  BY <1>1, <1>2, <1>3 DEF CoordinatorState

\* What a coordinator that takes over starts from.
LEMMA ClaimFields ==
  ASSUME IInv, IInv', Claim
  PROVE  /\ co'.mode # "draining"
         /\ co'.dstop = deadline /\ deadline' = deadline
         /\ co'.settlements = <<>>
         /\ co'.buffer = (Buffered \cup Merging)' /\ co'.consumed = {}
         /\ co'.dispatched = dispatched' /\ co'.noNewStreak = noNew'
         /\ co'.reduced <=> SomeReduced'
         /\ co'.omitted = {}
         /\ co'.mode = "working" =>
              deadline \/ ~co'.reduced \/ noNew' < StopAfterNoNew
                \/ co'.buffer # {}
         /\ co'.mode = "finishing" =>
              /\ co'.why = "saturated" /\ co'.reduced
              /\ noNew' >= StopAfterNoNew /\ co'.buffer = {}
         /\ \A w \in Worker : co'.task[w] = "none" /\ ~Active(w)'
<1> DEFINE c == Recovered(status', merge', dispatched', noNew', errors')
<1>1. AdoptCoordinator /\ co' = c /\ deadline' = deadline
  BY DEF Claim, AdoptCoordinator
<1>2. /\ c.dstop = deadline /\ c.settlements = <<>>
      /\ c.buffer = Buffering(status', merge') /\ c.consumed = {}
      /\ c.dispatched = dispatched' /\ c.noNewStreak = noNew'
      /\ c.reduced = (\E r \in Reducer : status'[r] = "succeeded")
      /\ c.omitted = {}
      /\ \A w \in Worker : c.task[w] = "none"
  BY DEF Recovered, NoCoordinator
<1>3. /\ c.mode \in {"failing", "finishing", "working"}
      /\ c.mode = "working" =>
           deadline \/ ~c.reduced \/ ~(noNew' >= StopAfterNoNew)
             \/ c.buffer # {}
      /\ c.mode = "finishing" =>
           /\ c.why = "saturated" /\ c.reduced
           /\ noNew' >= StopAfterNoNew /\ c.buffer = {}
  BY DEF Recovered, NoCoordinator
<1>4. Buffering(status', merge') = (Buffered \cup Merging)'
  <2>1. \A d \in Discovery :
          /\ merge'[d] \in {"none", "buffered", "merging", "merged"}
          /\ merge'[d] # "none" <=> status'[d] = "succeeded"
    BY DEF IInv, TypeOK, MergeMatchesStatus, MergeState
  <2> QED
    BY <2>1 DEF Buffering, Buffered, Merging
<1>5. \A w \in Worker : ~Active(w)'
  <2>1. CASE NeedsRecovery
    BY <1>1, <2>1 DEF AdoptCoordinator, RecoverExpiredCoordinator,
       WithActiveCanceled, Active
  <2>2. CASE ~NeedsRecovery
    BY <1>1, <2>2 DEF AdoptCoordinator, NeedsRecovery, rowVars, IInv,
       SetupIsEmpty, Active
  <2> QED
    BY <2>1, <2>2
<1>6. noNew' \in Nat /\ StopAfterNoNew \in Nat
  BY WorkbenchAssumption DEF IInv, TypeOK
<1> QED
  BY <1>1, <1>2, <1>3, <1>4, <1>5, <1>6 DEF SomeReduced

\* Steps that start nothing: what they must respect of the loop's bookkeeping.
LEMMA LoopKept ==
  ASSUME IInv, IInv', CoordinatorTypeOK, LoopIInv, [Next]_vars,
         dispatched' = dispatched, deadline => deadline',
         \A d \in Discovery : co'.task[d] = "spawned" => co.task[d] = "spawned",
         \A r \in Reducer :
           /\ co'.task[r] # "none" => co.task[r] # "none"
           /\ co'.task[r] = "spawned" => co.task[r] = "spawned"
           /\ co'.task[r] = "replying" =>
                co.task[r] = "replying" \/ status'[r] = "succeeded"
           /\ Active(r)' => Active(r),
         \A v, w \in Worker :
           co'.task[v] = "replying" /\ co'.task[w] = "replying" => v = w,
         co'.mode = "working" =>
           /\ co.mode = "working" /\ co'.dispatched = co.dispatched
           /\ \A r \in Reducer :
                Active(r)' /\ co'.task[r] = "none" => co.task[r] = "none",
         co'.mode \in {"working", "draining"} =>
           \A w \in Worker : co'.task[w] = "settled" =>
             \E i \in DOMAIN co'.settlements : co'.settlements[i].who = w,
         \A i \in DOMAIN co'.settlements :
           co'.task[co'.settlements[i].who] = "settled",
         \A i, j \in DOMAIN co'.settlements :
           co'.settlements[i].who = co'.settlements[j].who => i = j,
         \A i \in DOMAIN co'.settlements :
           \/ \E j \in DOMAIN co.settlements :
                co'.settlements[i] = co.settlements[j]
           \/ EndFits(co.settlements[i])',
         co'.dstop => co.dstop \/ deadline',
         co'.reduced => co.reduced \/ SomeReduced'
  PROVE  LoopIInv'
<1>1. \A w \in Worker : Final(w) => status'[w] = status[w]
  BY RowsGoOn
<1>2. BudgetFits'
  <2>1. Spawned' \subseteq Spawned /\ Spawned \subseteq Discovery
    BY DEF Spawned
  <2>2. /\ Cardinality(Spawned') \in Nat /\ Cardinality(Spawned) \in Nat
        /\ Cardinality(Spawned') <= Cardinality(Spawned)
    BY <2>1, DiscoverySetsFinite, CountMonotone
  <2>3. /\ dispatched \in Nat /\ co.dispatched \in Nat /\ MaxDiscoveryRuns \in Nat
    BY WorkbenchAssumption
       DEF IInv, TypeOK, CoordinatorTypeOK, CoordinatorState
  <2> QED
    BY <2>2, <2>3 DEF LoopIInv, BudgetFits
<1>3. ReducerFits'
  <2>1. \A q, r \in Reducer :
          co'.task[q] # "none" /\ co'.task[r] # "none" => q = r
    BY DEF LoopIInv, ReducerFits
  <2>2. \A r \in Reducer : co'.task[r] = "spawned" => NoActiveReducer'
    BY DEF LoopIInv, ReducerFits, NoActiveReducer, SomeActive
  <2>3. co'.mode = "working" =>
          \A r \in Reducer : Active(r)' => co'.task[r] # "none"
    BY DEF LoopIInv, ReducerFits
  <2>4. \A r \in Reducer : co'.task[r] = "replying" => status'[r] = "succeeded"
    BY <1>1, DiscoveryIsNoReducer DEF LoopIInv, ReducerFits, Final
  <2>5. ASSUME NEW i \in DOMAIN co'.settlements
        PROVE  EndFits(co.settlements[i])'
    <3>1. CASE \E j \in DOMAIN co.settlements :
                 co'.settlements[i] = co.settlements[j]
      <4>1. PICK j \in DOMAIN co.settlements :
              co'.settlements[i] = co.settlements[j]
        BY <3>1
      <4>2. co.settlements[j].who \in Worker
        BY OutcomesHaveType
      <4>3. EndFits(co.settlements[j])
        BY DEF LoopIInv, ReducerFits
      <4> QED
        BY <1>1, <4>1, <4>2, <4>3 DEF Final, EndFits
    <3> QED
      BY <3>1
  <2>6. co'.reduced => SomeReduced'
    BY <1>1, DiscoveryIsNoReducer
       DEF LoopIInv, ReducerFits, SomeReduced, Final
  <2> QED
    BY <2>1, <2>2, <2>3, <2>4, <2>5, <2>6 DEF ReducerFits
<1>4. QueueFits'
  BY DEF LoopIInv, QueueFits
<1> QED
  BY <1>2, <1>3, <1>4 DEF LoopIInv

\* The queue with one more outcome at its end.
LEMMA QueueLonger ==
  ASSUME CoordinatorTypeOK, QueueFits, NEW w \in Worker, NEW what,
         co.task[w] \notin {"none", "settled"},
         co'.settlements = Append(co.settlements, [who |-> w, what |-> what]),
         \A v \in Worker :
           co'.task[v] = IF v = w THEN "settled" ELSE co.task[v],
         co.mode \in {"working", "draining"}
  PROVE  \E n \in Nat :
         /\ DOMAIN co.settlements = 1..(n - 1)
         /\ DOMAIN co'.settlements = 1..n
         /\ \A i \in 1..(n - 1) : co'.settlements[i] = co.settlements[i]
         /\ co'.settlements[n] = [who |-> w, what |-> what]
         /\ \A v \in Worker : co'.task[v] = "settled" =>
              \E i \in DOMAIN co'.settlements : co'.settlements[i].who = v
         /\ \A i \in DOMAIN co'.settlements :
              co'.task[co'.settlements[i].who] = "settled"
         /\ \A i, j \in DOMAIN co'.settlements :
              co'.settlements[i].who = co'.settlements[j].who => i = j
<1> DEFINE n == Len(co.settlements) + 1
<1>1. co.settlements \in Seq(Outcome)
  BY OutcomesHaveType
<1>2. /\ n \in Nat /\ DOMAIN co.settlements = 1..(n - 1)
      /\ DOMAIN co'.settlements = 1..n
      /\ \A i \in 1..(n - 1) : co'.settlements[i] = co.settlements[i]
      /\ co'.settlements[n] = [who |-> w, what |-> what]
  BY <1>1, AppendProperties, LenProperties
<1>3. \A i \in 1..(n - 1) :
        /\ co.settlements[i].who \in Worker
        /\ co.task[co.settlements[i].who] = "settled"
        /\ co.settlements[i].who # w
  BY <1>2, OutcomesHaveType DEF QueueFits
<1> HIDE DEF n
<1>4. \A i \in 1..n : i = n \/ i \in 1..(n - 1)
  BY <1>2
<1>5. n \in 1..n
  BY <1>2
<1>6. ASSUME NEW v \in Worker, co'.task[v] = "settled"
      PROVE  \E i \in DOMAIN co'.settlements : co'.settlements[i].who = v
  <2>1. CASE v = w
    BY <1>2, <1>5, <2>1
  <2>2. CASE v # w
    <3>1. PICK i \in DOMAIN co.settlements : co.settlements[i].who = v
      BY <1>6, <2>2 DEF QueueFits
    <3>2. i \in DOMAIN co'.settlements /\ co'.settlements[i].who = v
      BY <1>2, <3>1
    <3> QED
      BY <3>2
  <2> QED
    BY <2>1, <2>2
<1>7. \A i \in DOMAIN co'.settlements :
        co'.task[co'.settlements[i].who] = "settled"
  BY <1>2, <1>3, <1>4
<1>8. \A i, j \in DOMAIN co'.settlements :
        co'.settlements[i].who = co'.settlements[j].who => i = j
  BY <1>2, <1>3, <1>4 DEF QueueFits
<1> QED
  BY <1>2, <1>6, <1>7, <1>8

\* The queue without its first outcome.
LEMMA QueueShorter ==
  ASSUME CoordinatorTypeOK, QueueFits, co.settlements # <<>>,
         co'.settlements = Tail(co.settlements),
         \A v \in Worker :
           co'.task[v] = IF v = Head(co.settlements).who THEN "none"
                                                         ELSE co.task[v],
         co.mode \in {"working", "draining"}
  PROVE  LET n == Len(co.settlements) IN
         /\ n \in Nat /\ DOMAIN co.settlements = 1..n /\ 1 \in 1..n
         /\ Head(co.settlements) = co.settlements[1]
         /\ Head(co.settlements) \in Outcome
         /\ co.task[Head(co.settlements).who] = "settled"
         /\ DOMAIN co'.settlements = 1..(n - 1)
         /\ \A i \in 1..(n - 1) :
              /\ i + 1 \in 1..n /\ co'.settlements[i] = co.settlements[i + 1]
              /\ co'.settlements[i].who # Head(co.settlements).who
         /\ \A v \in Worker : co'.task[v] = "settled" =>
              \E i \in DOMAIN co'.settlements : co'.settlements[i].who = v
         /\ \A i \in DOMAIN co'.settlements :
              co'.task[co'.settlements[i].who] = "settled"
         /\ \A i, j \in DOMAIN co'.settlements :
              co'.settlements[i].who = co'.settlements[j].who => i = j
<1> DEFINE n == Len(co.settlements)
           h == Head(co.settlements)
<1>1. co.settlements \in Seq(Outcome)
  BY OutcomesHaveType
<1>2. /\ n \in Nat /\ DOMAIN co.settlements = 1..n /\ 1 \in 1..n
      /\ h = co.settlements[1]
      /\ DOMAIN co'.settlements = 1..(n - 1)
      /\ \A i \in 1..(n - 1) :
           i + 1 \in 1..n /\ co'.settlements[i] = co.settlements[i + 1]
  BY <1>1, HeadTailProperties, LenProperties, EmptySeq
<1>3. \A i \in 1..n :
        /\ co.settlements[i] \in Outcome /\ co.settlements[i].who \in Worker
        /\ co.task[co.settlements[i].who] = "settled"
  BY <1>2, OutcomesHaveType DEF QueueFits
<1> HIDE DEF n, h
<1>4. \A i, j \in 1..n : co.settlements[i].who = co.settlements[j].who => i = j
  BY <1>2 DEF QueueFits
<1>5. \A i \in 1..(n - 1) : co'.settlements[i].who # h.who
  <2> SUFFICES ASSUME NEW i \in 1..(n - 1) PROVE co'.settlements[i].who # h.who
    OBVIOUS
  <2>1. i + 1 \in 1..n /\ i + 1 # 1 /\ co'.settlements[i] = co.settlements[i + 1]
    BY <1>2
  <2>2. co.settlements[i + 1].who # co.settlements[1].who
    BY <1>2, <1>4, <2>1
  <2> QED
    BY <1>2, <2>1, <2>2
<1>6. ASSUME NEW v \in Worker, co'.task[v] = "settled"
      PROVE  \E i \in DOMAIN co'.settlements : co'.settlements[i].who = v
  <2>1. v # h.who /\ co.task[v] = "settled"
    BY <1>6 DEF h
  <2>2. PICK i \in DOMAIN co.settlements : co.settlements[i].who = v
    BY <2>1 DEF QueueFits
  <2>3. i \in 1..n /\ i # 1
    BY <1>2, <2>1, <2>2
  <2>4. i - 1 \in 1..(n - 1) /\ (i - 1) + 1 = i
    BY <1>2, <2>3
  <2>5. co'.settlements[i - 1].who = v
    BY <1>2, <2>2, <2>4
  <2> QED
    BY <1>2, <2>4, <2>5
<1>7. ASSUME NEW i \in 1..(n - 1)
      PROVE  co'.task[co'.settlements[i].who] = "settled"
  <2>1. i + 1 \in 1..n /\ co'.settlements[i] = co.settlements[i + 1]
    BY <1>2
  <2>2. /\ co'.settlements[i].who \in Worker
        /\ co.task[co'.settlements[i].who] = "settled"
    BY <1>3, <2>1
  <2> QED
    BY <1>5, <2>2 DEF h
<1>8. ASSUME NEW i \in 1..(n - 1), NEW j \in 1..(n - 1),
             co'.settlements[i].who = co'.settlements[j].who
      PROVE  i = j
  <2>1. i + 1 \in 1..n /\ j + 1 \in 1..n
        /\ co.settlements[i + 1].who = co.settlements[j + 1].who
    BY <1>2, <1>8
  <2>2. i + 1 = j + 1
    BY <1>4, <2>1
  <2> QED
    BY <1>2, <2>2
<1>9. h \in Outcome /\ co.task[h.who] = "settled"
  BY <1>2, <1>3
<1>10. /\ \A i \in DOMAIN co'.settlements :
            co'.task[co'.settlements[i].who] = "settled"
       /\ \A i, j \in DOMAIN co'.settlements :
            co'.settlements[i].who = co'.settlements[j].who => i = j
  BY <1>2, <1>7, <1>8
<1> QED
  BY <1>2, <1>5, <1>6, <1>9, <1>10 DEF n, h

\* What the loop becomes when it reads an outcome: it stops, or goes on.
LEMMA ReadFields ==
  ASSUME IInv, PoolIInv, ReadOutcome
  PROVE  LET o == Head(co.settlements) IN
         \/ co' = Stopping("failing", "error")
         \/ /\ co'.settlements = Tail(co.settlements)
            /\ co'.task = [co.task EXCEPT ![o.who] = "none"]
            /\ o \in Outcome /\ Fits(o) /\ o \in {co.settlements[1]}
            /\ co'.dstop = co.dstop /\ co'.dispatched = co.dispatched
            /\ co'.omitted = co.omitted
            /\ \/ /\ o.what = "accepted" /\ co'.mode = "working"
                  /\ co'.buffer = co.buffer \cup {o.who}
                  /\ co'.consumed = co.consumed /\ co'.reduced = co.reduced
                  /\ co'.noNewStreak = co.noNewStreak
               \/ /\ o.what \in {"replaced", "canceled"} /\ co'.mode = "working"
                  /\ co'.buffer = co.buffer
                  /\ co'.consumed = co.consumed /\ co'.reduced = co.reduced
                  /\ co'.noNewStreak = co.noNewStreak
               \/ /\ o.what = "reduced"
                  /\ co'.buffer = co.buffer
                  /\ co'.consumed = {} /\ co'.reduced
                  /\ co'.noNewStreak = noNew
                  /\ \/ co'.mode = "working" /\ ~Saturated(noNew)
                     \/ /\ co'.mode = "draining" /\ Saturated(noNew)
                        /\ co'.why = "saturated"
               \/ /\ o.what = "redfailed" /\ co'.mode = "working"
                  /\ co'.buffer = co.buffer \cup co.consumed
                  /\ co'.consumed = {} /\ co'.reduced = co.reduced
                  /\ co'.noNewStreak = co.noNewStreak
<1> DEFINE o    == Head(co.settlements)
           read == [co EXCEPT !.settlements = Tail(@), !.task[o.who] = "none"]
<1>0. /\ co \in CoordinatorState /\ co.settlements # <<>> /\ co.mode = "working"
      /\ co' = AfterOutcome(o.who, o.what)
  BY DEF PoolIInv, CoordinatorTypeOK, ReadOutcome
<1>1. /\ o \in Outcome /\ Tail(co.settlements) \in Seq(Outcome)
      /\ 1 \in DOMAIN co.settlements /\ o = co.settlements[1]
  BY <1>0, HeadTailProperties, LenProperties, EmptySeq DEF CoordinatorState
<1>2. Fits(o)
  BY <1>1 DEF PoolIInv, OutcomesFit
<1>3. /\ read \in CoordinatorState /\ read.mode = "working"
      /\ read.settlements = Tail(co.settlements)
      /\ read.task = [co.task EXCEPT ![o.who] = "none"]
      /\ read.buffer = co.buffer /\ read.consumed = co.consumed
      /\ read.dstop = co.dstop /\ read.dispatched = co.dispatched
      /\ read.omitted = co.omitted /\ read.reduced = co.reduced
      /\ read.noNewStreak = co.noNewStreak
  <2>1. co.task \in [Worker -> Task] /\ o.who \in Worker
    BY <1>0, <1>1 DEF CoordinatorState, Outcome
  <2>2. [co.task EXCEPT ![o.who] = "none"] \in [Worker -> Task]
    BY <2>1 DEF Task
  <2>3. read = [co EXCEPT !.settlements = Tail(co.settlements),
                          !.task = [co.task EXCEPT ![o.who] = "none"]]
    BY <1>0 DEF CoordinatorState
  <2> QED
    BY <1>0, <1>1, <2>2, <2>3 DEF CoordinatorState
<1>4. CASE co' = Stopping("failing", "error")
  BY <1>4
<1>5. CASE o.what = "accepted"
  <2>1. co' = [read EXCEPT !.buffer = read.buffer \cup {o.who}, !.errors = 0]
    BY <1>0, <1>5 DEF AfterOutcome
  <2>2. /\ co'.settlements = read.settlements /\ co'.task = read.task
        /\ co'.buffer = read.buffer \cup {o.who} /\ co'.consumed = read.consumed
        /\ co'.dstop = read.dstop /\ co'.dispatched = read.dispatched
        /\ co'.omitted = read.omitted /\ co'.reduced = read.reduced
        /\ co'.noNewStreak = read.noNewStreak /\ co'.mode = read.mode
    <3> HIDE DEF read
    <3> QED
      BY <1>3, <2>1 DEF CoordinatorState
  <2> HIDE DEF read
  <2> QED
    BY <1>1, <1>2, <1>3, <1>5, <2>2
<1>6. CASE o.what = "replaced" /\ co' # Stopping("failing", "error")
  <2>1. co' = [read EXCEPT !.errors = read.errors + 1, !.lastFailure = TRUE]
    BY <1>0, <1>6 DEF AfterOutcome
  <2>2. /\ co'.settlements = read.settlements /\ co'.task = read.task
        /\ co'.buffer = read.buffer /\ co'.consumed = read.consumed
        /\ co'.dstop = read.dstop /\ co'.dispatched = read.dispatched
        /\ co'.omitted = read.omitted /\ co'.reduced = read.reduced
        /\ co'.noNewStreak = read.noNewStreak /\ co'.mode = read.mode
    <3> HIDE DEF read
    <3> QED
      BY <1>3, <2>1 DEF CoordinatorState
  <2> HIDE DEF read
  <2> QED
    BY <1>1, <1>2, <1>3, <1>6, <2>2
<1>7. CASE o.what = "canceled" /\ co' # Stopping("failing", "error")
  <2>1. co' = read
    BY <1>0, <1>7 DEF AfterOutcome
  <2> HIDE DEF read
  <2> QED
    BY <1>1, <1>2, <1>3, <1>7, <2>1
<1>8. CASE o.what = "reduced"
  <2> DEFINE done == [read EXCEPT !.reducerFailures = 0, !.consumed = {},
                        !.noNewStreak = noNew, !.reduced = TRUE]
  <2>1. \/ /\ co' = [done EXCEPT !.mode = "draining", !.why = "saturated",
                                 !.abort = "saturated"]
           /\ Saturated(noNew)
        \/ co' = done /\ ~Saturated(noNew)
    BY <1>0, <1>8 DEF AfterOutcome
  <2>2. noNew \in Nat
    BY DEF IInv, TypeOK
  <2>3. /\ done \in CoordinatorState /\ done.settlements = read.settlements
        /\ done.task = read.task
        /\ done.buffer = read.buffer /\ done.consumed = {}
        /\ done.dstop = read.dstop /\ done.dispatched = read.dispatched
        /\ done.omitted = read.omitted /\ done.reduced = TRUE
        /\ done.noNewStreak = noNew /\ done.mode = read.mode
    <3> HIDE DEF read
    <3> QED
      BY <1>3, <2>2 DEF CoordinatorState
  <2>4. /\ co'.settlements = done.settlements /\ co'.task = done.task
        /\ co'.buffer = done.buffer /\ co'.consumed = {}
        /\ co'.dstop = done.dstop /\ co'.dispatched = done.dispatched
        /\ co'.omitted = done.omitted /\ co'.reduced = TRUE
        /\ co'.noNewStreak = noNew
        /\ \/ co'.mode = done.mode /\ ~Saturated(noNew)
           \/ /\ co'.mode = "draining" /\ Saturated(noNew)
              /\ co'.why = "saturated"
    <3> HIDE DEF done
    <3>1. CASE co' = done /\ ~Saturated(noNew)
      BY <2>3, <3>1
    <3>2. CASE /\ co' = [done EXCEPT !.mode = "draining", !.why = "saturated",
                                     !.abort = "saturated"]
               /\ Saturated(noNew)
      BY <2>3, <3>2 DEF CoordinatorState
    <3> QED
      BY <2>1, <3>1, <3>2
  <2> HIDE DEF read, done
  <2> QED
    BY <1>1, <1>2, <1>3, <1>8, <2>3, <2>4
<1>9. CASE o.what = "redfailed" /\ co' # Stopping("failing", "error")
  <2>1. co' = [read EXCEPT !.reducerFailures = read.reducerFailures + 1,
                           !.buffer = BufferedAgain, !.consumed = {}]
    BY <1>0, <1>9 DEF AfterOutcome
  <2>2. /\ co'.settlements = read.settlements /\ co'.task = read.task
        /\ co'.buffer = BufferedAgain /\ co'.consumed = {}
        /\ co'.dstop = read.dstop /\ co'.dispatched = read.dispatched
        /\ co'.omitted = read.omitted /\ co'.reduced = read.reduced
        /\ co'.noNewStreak = read.noNewStreak /\ co'.mode = read.mode
    <3> HIDE DEF read
    <3> QED
      BY <1>3, <2>1 DEF CoordinatorState
  <2> HIDE DEF read
  <2> QED
    BY <1>1, <1>2, <1>3, <1>9, <2>2 DEF BufferedAgain
<1>10. o.what \in {"failed", "rejected"} => co' = Stopping("failing", "error")
  BY <1>0 DEF AfterOutcome
<1>11. o.what \in {"accepted", "replaced", "canceled", "failed",
                   "reduced", "redfailed", "rejected"}
  BY <1>1 DEF Outcome
<1> QED
  BY <1>4, <1>5, <1>6, <1>7, <1>8, <1>9, <1>10, <1>11

\* The coordinator stops, or its process forgets the run.
LEMMA EndingKeepsLoop ==
  ASSUME IInv, IInv', CoordinatorTypeOK, LoopIInv, [Next]_vars,
         dispatched' = dispatched, deadline => deadline',
         \A r \in Reducer : Active(r)' => Active(r),
         co'.mode \notin {"working", "draining"},
         co'.settlements = <<>>,
         co'.dstop => co.dstop, ~co'.reduced,
         \A w \in Worker : co'.task[w] \in {co.task[w], "none"}
  PROVE  LoopIInv'
<1>1. DOMAIN co'.settlements = {}
  OBVIOUS
<1>2. \A v, w \in Worker :
        co'.task[v] = "replying" /\ co'.task[w] = "replying" => v = w
  BY DEF LoopIInv, QueueFits
<1> QED
  BY <1>1, <1>2, LoopKept, DiscoveryIsNoReducer

\* The rows move, or only a flag of the coordinator does.
LEMMA FlagsKeepLoop ==
  ASSUME IInv, IInv', CoordinatorTypeOK, LoopIInv, [Next]_vars,
         dispatched' = dispatched, deadline => deadline',
         \A r \in Reducer : Active(r)' => Active(r),
         co'.settlements = co.settlements, co'.task = co.task,
         co'.dstop => co.dstop \/ deadline,
         co'.reduced = co.reduced,
         co'.mode = "working" =>
           co.mode = "working" /\ co'.dispatched = co.dispatched,
         co'.mode = "draining" => co.mode = "draining"
  PROVE  LoopIInv'
<1>1. /\ \A v, w \in Worker :
           co'.task[v] = "replying" /\ co'.task[w] = "replying" => v = w
      /\ co'.mode \in {"working", "draining"} =>
           \A w \in Worker : co'.task[w] = "settled" =>
             \E i \in DOMAIN co'.settlements : co'.settlements[i].who = w
      /\ \A i \in DOMAIN co'.settlements :
           co'.task[co'.settlements[i].who] = "settled"
      /\ \A i, j \in DOMAIN co'.settlements :
           co'.settlements[i].who = co'.settlements[j].who => i = j
  BY DEF LoopIInv, QueueFits
<1>2. co'.mode = "working" =>
        \A r \in Reducer : Active(r)' /\ co'.task[r] = "none"
                             => co.task[r] = "none"
  OBVIOUS
<1>3. \A i \in DOMAIN co'.settlements :
        \E j \in DOMAIN co.settlements : co'.settlements[i] = co.settlements[j]
  OBVIOUS
<1> QED
  BY <1>1, <1>2, <1>3, LoopKept

\* A worker goes on.
LEMMA GoingOnKeepsLoop ==
  ASSUME IInv, IInv', CoordinatorTypeOK, LoopIInv, [Next]_vars,
         dispatched' = dispatched, deadline' = deadline,
         \A r \in Reducer : Active(r)' => Active(r),
         NEW w \in Worker, NEW t \in {"queued", "running", "saving", "replying"},
         co.task[w] \notin {"none", "settled"}, At(w, t),
         t = "replying" =>
           WriteQueueFree /\ (w \in Reducer => status'[w] = "succeeded")
  PROVE  LoopIInv'
<1>1. t \in Task
  BY DEF Task
<1>2. /\ \A v \in Worker : co'.task[v] = IF v = w THEN t ELSE co.task[v]
      /\ co'.mode = co.mode /\ co'.dstop = co.dstop
      /\ co'.settlements = co.settlements
      /\ co'.dispatched = co.dispatched /\ co'.reduced = co.reduced
  BY <1>1, AtFields
<1>3. \A i \in DOMAIN co.settlements :
        co.settlements[i].who \in Worker /\ co.settlements[i].who # w
  BY OutcomesHaveType DEF LoopIInv, QueueFits
<1>4. \A v, u \in Worker :
        co'.task[v] = "replying" /\ co'.task[u] = "replying" => v = u
  BY <1>2 DEF LoopIInv, QueueFits, WriteQueueFree
<1>5. /\ co'.mode \in {"working", "draining"} =>
           \A v \in Worker : co'.task[v] = "settled" =>
             \E i \in DOMAIN co'.settlements : co'.settlements[i].who = v
      /\ \A i \in DOMAIN co'.settlements :
           co'.task[co'.settlements[i].who] = "settled"
      /\ \A i, j \in DOMAIN co'.settlements :
           co'.settlements[i].who = co'.settlements[j].who => i = j
  BY <1>2, <1>3 DEF LoopIInv, QueueFits
<1>6. /\ \A d \in Discovery : co'.task[d] = "spawned" => co.task[d] = "spawned"
      /\ \A r \in Reducer :
           /\ co'.task[r] # "none" => co.task[r] # "none"
           /\ co'.task[r] = "none" => co.task[r] = "none"
           /\ co'.task[r] = "spawned" => co.task[r] = "spawned"
           /\ co'.task[r] = "replying" =>
                co.task[r] = "replying" \/ status'[r] = "succeeded"
  BY <1>2, DiscoveryIsNoReducer
<1>7. \A i \in DOMAIN co'.settlements :
        \E j \in DOMAIN co.settlements : co'.settlements[i] = co.settlements[j]
  BY <1>2
<1> QED
  BY <1>2, <1>4, <1>5, <1>6, <1>7, LoopKept

\* A worker ends.
LEMMA ReportKeepsLoop ==
  ASSUME IInv, IInv', CoordinatorTypeOK, LoopIInv, [Next]_vars,
         dispatched' = dispatched, deadline' = deadline,
         \A r \in Reducer : Active(r)' => Active(r),
         NEW w \in Worker, NEW what, [who |-> w, what |-> what] \in Outcome,
         co.task[w] \notin {"none", "settled"}, Report(w, what),
         what = "reduced" => status'[w] = "succeeded",
         what = "redfailed" => Final(w)'
  PROVE  LoopIInv'
<1>1. /\ co'.mode = co.mode /\ co'.dstop = co.dstop
      /\ co'.dispatched = co.dispatched /\ co'.reduced = co.reduced
      /\ \/ /\ co.mode \in {"working", "draining"}
            /\ co'.settlements =
                 Append(co.settlements, [who |-> w, what |-> what])
            /\ \A v \in Worker :
                 co'.task[v] = IF v = w THEN "settled" ELSE co.task[v]
         \/ /\ co.mode \notin {"working", "draining"}
            /\ co'.settlements = co.settlements
            /\ \A v \in Worker :
                 co'.task[v] = IF v = w THEN "none" ELSE co.task[v]
  BY ReportFields
<1>2. /\ \A v, u \in Worker :
           co'.task[v] = "replying" /\ co'.task[u] = "replying" => v = u
      /\ \A d \in Discovery : co'.task[d] = "spawned" => co.task[d] = "spawned"
      /\ \A r \in Reducer :
           /\ co'.task[r] # "none" => co.task[r] # "none"
           /\ co'.task[r] = "spawned" => co.task[r] = "spawned"
           /\ co'.task[r] = "replying" => co.task[r] = "replying"
  BY <1>1, DiscoveryIsNoReducer DEF LoopIInv, QueueFits
<1>3. CASE co.mode \in {"working", "draining"}
  <2>1. /\ co'.settlements =
             Append(co.settlements, [who |-> w, what |-> what])
        /\ \A v \in Worker :
             co'.task[v] = IF v = w THEN "settled" ELSE co.task[v]
    BY <1>1, <1>3
  <2>2. PICK n \in Nat :
         /\ DOMAIN co.settlements = 1..(n - 1)
         /\ DOMAIN co'.settlements = 1..n
         /\ \A i \in 1..(n - 1) : co'.settlements[i] = co.settlements[i]
         /\ co'.settlements[n] = [who |-> w, what |-> what]
         /\ \A v \in Worker : co'.task[v] = "settled" =>
              \E i \in DOMAIN co'.settlements : co'.settlements[i].who = v
         /\ \A i \in DOMAIN co'.settlements :
              co'.task[co'.settlements[i].who] = "settled"
         /\ \A i, j \in DOMAIN co'.settlements :
              co'.settlements[i].who = co'.settlements[j].who => i = j
    <3>1. QueueFits
      BY DEF LoopIInv
    <3> QED
      BY <1>3, <2>1, <3>1, QueueLonger
  <2>3. ASSUME NEW i \in DOMAIN co'.settlements
        PROVE  \/ \E j \in DOMAIN co.settlements :
                    co'.settlements[i] = co.settlements[j]
               \/ EndFits(co.settlements[i])'
    <3>1. CASE i = n
      BY <2>2, <3>1 DEF EndFits
    <3>2. CASE i # n
      <4>1. i \in DOMAIN co.settlements /\ co'.settlements[i] = co.settlements[i]
        BY <2>2, <3>2
      <4> QED
        BY <4>1
    <3> QED
      BY <3>1, <3>2
  <2>4. \A r \in Reducer : co'.task[r] = "none" => co.task[r] = "none"
    BY <2>1, DiscoveryIsNoReducer
  <2> QED
    BY <1>1, <1>2, <2>2, <2>3, <2>4, LoopKept
<1>4. CASE co.mode \notin {"working", "draining"}
  <2>1. /\ co'.settlements = co.settlements
        /\ \A v \in Worker :
             co'.task[v] = IF v = w THEN "none" ELSE co.task[v]
    BY <1>1, <1>4
  <2>2. \A i \in DOMAIN co.settlements :
          co.settlements[i].who \in Worker /\ co.settlements[i].who # w
    BY OutcomesHaveType DEF LoopIInv, QueueFits
  <2>3. /\ \A i \in DOMAIN co'.settlements :
             co'.task[co'.settlements[i].who] = "settled"
        /\ \A i, j \in DOMAIN co'.settlements :
             co'.settlements[i].who = co'.settlements[j].who => i = j
    BY <2>1, <2>2 DEF LoopIInv, QueueFits
  <2>4. \A i \in DOMAIN co'.settlements :
          \E j \in DOMAIN co.settlements : co'.settlements[i] = co.settlements[j]
    BY <2>1
  <2> QED
    BY <1>1, <1>2, <1>4, <2>3, <2>4, LoopKept
<1> QED
  BY <1>3, <1>4

\* The loop reads an outcome and forgets the worker.
LEMMA ReadingKeepsLoop ==
  ASSUME IInv, IInv', CoordinatorTypeOK, LoopIInv, [Next]_vars, UNCHANGED vars,
         co.settlements # <<>>, co.mode \in {"working", "draining"},
         co'.settlements = Tail(co.settlements),
         co'.task = [co.task EXCEPT ![Head(co.settlements).who] = "none"],
         co'.dstop = co.dstop,
         co'.reduced => co.reduced \/ SomeReduced,
         co'.mode = "working" =>
           /\ co.mode = "working" /\ co'.dispatched = co.dispatched
           /\ Head(co.settlements).who \in Reducer =>
                ~Active(Head(co.settlements).who)
  PROVE  LoopIInv'
<1>0. PICK o : o = Head(co.settlements)
  OBVIOUS
<1>1. co.task \in [Worker -> Task] /\ QueueFits
  BY DEF CoordinatorTypeOK, CoordinatorState, LoopIInv
<1>2. \A v \in Worker : co'.task[v] = IF v = o.who THEN "none" ELSE co.task[v]
  BY <1>0, <1>1
<1>3. PICK n \in Nat :
         /\ DOMAIN co.settlements = 1..n
         /\ DOMAIN co'.settlements = 1..(n - 1)
         /\ \A i \in 1..(n - 1) :
              i + 1 \in 1..n /\ co'.settlements[i] = co.settlements[i + 1]
         /\ \A v \in Worker : co'.task[v] = "settled" =>
              \E i \in DOMAIN co'.settlements : co'.settlements[i].who = v
         /\ \A i \in DOMAIN co'.settlements :
              co'.task[co'.settlements[i].who] = "settled"
         /\ \A i, j \in DOMAIN co'.settlements :
              co'.settlements[i].who = co'.settlements[j].who => i = j
  BY <1>0, <1>1, <1>2, QueueShorter
<1>4. ASSUME NEW i \in DOMAIN co'.settlements
      PROVE  \E j \in DOMAIN co.settlements :
               co'.settlements[i] = co.settlements[j]
  <2>1. /\ i + 1 \in DOMAIN co.settlements
        /\ co'.settlements[i] = co.settlements[i + 1]
    BY <1>3
  <2> QED
    BY <2>1
<1>5. /\ \A v, w \in Worker :
           co'.task[v] = "replying" /\ co'.task[w] = "replying" => v = w
      /\ \A d \in Discovery : co'.task[d] = "spawned" => co.task[d] = "spawned"
      /\ \A r \in Reducer :
           /\ co'.task[r] # "none" => co.task[r] # "none"
           /\ co'.task[r] = "spawned" => co.task[r] = "spawned"
           /\ co'.task[r] = "replying" => co.task[r] = "replying"
  BY <1>2, DiscoveryIsNoReducer DEF LoopIInv, QueueFits
<1>6. \A w \in Worker : Active(w)' <=> Active(w)
  BY RowsStand
<1>7. dispatched' = dispatched /\ deadline' = deadline /\ status' = status
  BY DEF vars, counterVars, leaseVars, rowVars
<1>8. SomeReduced' = SomeReduced
  BY <1>7 DEF SomeReduced
<1>9. co'.mode = "working" =>
        \A r \in Reducer : Active(r)' /\ co'.task[r] = "none"
                             => co.task[r] = "none"
  BY <1>0, <1>2, <1>6, DiscoveryIsNoReducer
<1> QED
  BY <1>3, <1>4, <1>5, <1>6, <1>7, <1>8, <1>9, LoopKept, DiscoveryIsNoReducer

\* What the loop starts when it fills its pool: discoveries within the budget,
\* and one reducer when no other has a task.
FillEffect(new, first) ==
  /\ \A w \in new \cup first :
       co.task[w] = "none" /\ status[w] = "none"
  /\ Cardinality(new) \in Nat
  /\ co.dispatched + Cardinality(new) <= MaxDiscoveryRuns
  /\ new # {} => ~co.dstop /\ co.dispatched < MaxDiscoveryRuns
  /\ first # {} =>
       /\ Occupied(Reducer) = {} /\ co.buffer # {}
       /\ \/ co.reduced
          \/ Cardinality(co.buffer) >= 2
          \/ /\ Occupied(Discovery) = {} /\ new = {}
             /\ co.dispatched >= MaxDiscoveryRuns \/ co.dstop
  /\ \A q, r \in first : q = r
  /\ \A w \in Worker : co'.task[w] =
       IF w \in new \cup first THEN "spawned" ELSE co.task[w]
  /\ co'.dispatched = co.dispatched + Cardinality(new)
  /\ co'.consumed = (IF first = {} THEN co.consumed ELSE co.buffer)
  /\ co'.buffer = (IF first = {} THEN co.buffer ELSE {})
  /\ co.mode = "working" /\ co'.mode = "working"
  /\ co'.dstop = co.dstop
  /\ co.settlements = <<>> /\ co'.settlements = <<>>
  /\ co'.reduced = co.reduced /\ co'.noNewStreak = co.noNewStreak
  /\ co'.omitted = co.omitted

LEMMA FillFields ==
  ASSUME IInv, PoolIInv, LoopIInv, Fill
  PROVE  \E new \in SUBSET Discovery, first \in SUBSET Reducer :
           FillEffect(new, first)
<1> DEFINE new    == NextLabels(Discovery, Slots)
           count  == co.dispatched + Cardinality(new)
           active == Cardinality(Occupied(Discovery)) + Cardinality(new)
           first  == IF Occupied(Reducer) = {} /\ ReducerReady(active, count)
                       THEN NextLabels(Reducer, 1) ELSE {}
           task1  == [w \in Worker |-> IF w \in new \cup first THEN "spawned"
                                      ELSE co.task[w]]
           consumed1 == IF first = {} THEN co.consumed ELSE co.buffer
           buffer1   == IF first = {} THEN co.buffer ELSE {}
<1>0. /\ co \in CoordinatorState /\ co.mode = "working" /\ co.settlements = <<>>
      /\ co.dispatched \in Nat /\ MaxDiscoveryRuns \in Nat /\ PoolSize \in Nat
      /\ co.dispatched <= MaxDiscoveryRuns
  BY WorkbenchAssumption, CoordinatorAssumption
     DEF PoolIInv, CoordinatorTypeOK, CoordinatorState, Fill, LoopIInv, BudgetFits
<1>1. new \in SUBSET Discovery /\ first \in SUBSET Reducer
  BY LabelsAreFresh
<1>2. Cardinality(new) \in Nat
  BY <1>1, DiscoverySetsFinite
<1>3. co' = [co EXCEPT !.dispatched = count, !.task = task1,
                       !.consumed = consumed1, !.buffer = buffer1]
  BY <1>0 DEF Fill, CoordinatorState
<1>4. /\ co'.task = task1 /\ co'.dispatched = count
      /\ co'.consumed = consumed1 /\ co'.buffer = buffer1
      /\ co'.mode = co.mode /\ co'.dstop = co.dstop
      /\ co'.settlements = co.settlements
      /\ co'.reduced = co.reduced /\ co'.noNewStreak = co.noNewStreak
      /\ co'.omitted = co.omitted
  <2> HIDE DEF count, task1, consumed1, buffer1
  <2> QED
    BY <1>0, <1>3 DEF CoordinatorState
<1>5. \A w \in new \cup first : co.task[w] = "none" /\ status[w] = "none"
  BY DEF NextLabels, Fresh
<1>6. \A q, r \in first : q = r
  BY OneLabel
<1>7. /\ Cardinality(Occupied(Discovery)) \in Nat
      /\ Occupied(Discovery) \subseteq Discovery
  BY DiscoverySetsFinite DEF Occupied
<1>8. /\ co.dispatched + Cardinality(new) <= MaxDiscoveryRuns
      /\ new # {} => ~co.dstop /\ co.dispatched < MaxDiscoveryRuns
  <2>1. /\ Slots \in Int
        /\ Slots > 0 => ~co.dstop /\ Slots <= MaxDiscoveryRuns - co.dispatched
    BY <1>0, <1>7 DEF Slots
  <2>2. CASE Slots <= 0
    <3>1. new = {}
      BY <2>1, <2>2, NoSlotNoLabel
    <3>2. Cardinality(new) = 0
      BY <3>1, FS_EmptySet
    <3> QED
      BY <1>0, <3>1, <3>2
  <2>3. CASE Slots > 0
    <3>1. Cardinality(new) <= Slots
      BY <2>1, <2>3, LabelsAreBounded
    <3> HIDE DEF new
    <3> QED
      BY <1>0, <1>2, <2>1, <2>3, <3>1
  <2> QED
    BY <2>1, <2>2, <2>3
<1>9. first # {} =>
        /\ Occupied(Reducer) = {} /\ co.buffer # {}
        /\ \/ co.reduced
           \/ Cardinality(co.buffer) >= 2
           \/ /\ Occupied(Discovery) = {} /\ new = {}
              /\ co.dispatched >= MaxDiscoveryRuns \/ co.dstop
  <2> SUFFICES ASSUME first # {}
               PROVE  /\ Occupied(Reducer) = {} /\ co.buffer # {}
                      /\ \/ co.reduced
                         \/ Cardinality(co.buffer) >= 2
                         \/ /\ Occupied(Discovery) = {} /\ new = {}
                            /\ \/ co.dispatched >= MaxDiscoveryRuns
                               \/ co.dstop
    OBVIOUS
  <2>1. Occupied(Reducer) = {} /\ ReducerReady(active, count)
    OBVIOUS
  <2>2. active = 0 => Cardinality(Occupied(Discovery)) = 0 /\ Cardinality(new) = 0
    <3> HIDE DEF new
    <3> QED
      BY <1>2, <1>7
  <2>3. active = 0 => Occupied(Discovery) = {} /\ new = {}
    BY <1>1, <1>7, <2>2, DiscoverySetsFinite, FS_EmptySet
  <2>4. Cardinality(new) = 0 => count = co.dispatched
    <3> HIDE DEF new
    <3> QED
      BY <1>0
  <2>5. new = {} => Cardinality(new) = 0
    BY FS_EmptySet
  <2> HIDE DEF new, count, active
  <2> QED
    BY <2>1, <2>3, <2>4, <2>5 DEF ReducerReady
<1>10. \A w \in Worker :
         co'.task[w] = IF w \in new \cup first THEN "spawned" ELSE co.task[w]
  BY <1>4
<1>11. /\ co'.dispatched = co.dispatched + Cardinality(new)
       /\ co'.consumed = (IF first = {} THEN co.consumed ELSE co.buffer)
       /\ co'.buffer = (IF first = {} THEN co.buffer ELSE {})
  BY <1>4
<1> HIDE DEF new, first, count, active
<1>12. FillEffect(new, first)
  BY <1>0, <1>2, <1>4, <1>5, <1>6, <1>8, <1>9, <1>10, <1>11 DEF FillEffect
<1> QED
  BY <1>1, <1>12

\* What is spawned counts as dispatched, and does not exceed the budget.
LEMMA FillKeepsLoop ==
  ASSUME IInv, PoolIInv, LoopIInv, Fill
  PROVE  LoopIInv'
<1>0. PICK new \in SUBSET Discovery, first \in SUBSET Reducer :
        FillEffect(new, first)
  BY FillFields
<1>1. /\ \A w \in new \cup first :
           co.task[w] = "none" /\ status[w] = "none"
      /\ Cardinality(new) \in Nat
      /\ co.dispatched + Cardinality(new) <= MaxDiscoveryRuns
      /\ first # {} => Occupied(Reducer) = {}
      /\ \A q, r \in first : q = r
      /\ \A w \in Worker : co'.task[w] =
           IF w \in new \cup first THEN "spawned" ELSE co.task[w]
      /\ co'.dispatched = co.dispatched + Cardinality(new)
      /\ co.mode = "working" /\ co'.mode = "working"
      /\ co'.dstop = co.dstop
      /\ co.settlements = <<>> /\ co'.settlements = <<>>
      /\ co'.reduced = co.reduced
  BY <1>0 DEF FillEffect
<1>2. /\ UNCHANGED vars /\ dispatched' = dispatched /\ status' = status
      /\ deadline' = deadline
  BY DEF Fill, vars, counterVars, leaseVars, rowVars
<1>3. BudgetFits'
  <2>1. Spawned' = Spawned \cup new /\ Spawned \cap new = {}
        /\ Spawned \subseteq Discovery
    BY <1>1, DiscoveryIsNoReducer DEF Spawned
  <2>2. /\ Cardinality(Spawned') = Cardinality(Spawned) + Cardinality(new)
        /\ Cardinality(Spawned) \in Nat
    BY <2>1, CountDisjoint, DiscoverySetsFinite
  <2>3. /\ dispatched \in Nat /\ co.dispatched \in Nat /\ MaxDiscoveryRuns \in Nat
    BY WorkbenchAssumption
       DEF IInv, TypeOK, PoolIInv, CoordinatorTypeOK, CoordinatorState
  <2> QED
    BY <1>1, <1>2, <2>2, <2>3 DEF LoopIInv, BudgetFits
<1>4. ReducerFits'
  <2>1. \A r \in Reducer :
          co'.task[r] = IF r \in first THEN "spawned" ELSE co.task[r]
    BY <1>1, DiscoveryIsNoReducer
  <2>2. first # {} => \A r \in Reducer : co.task[r] = "none"
    BY <1>1 DEF Occupied
  <2>3. /\ SomeReduced' = SomeReduced /\ NoActiveReducer' = NoActiveReducer
        /\ \A r \in Reducer : Active(r)' <=> Active(r)
    BY <1>2 DEF SomeReduced, NoActiveReducer, SomeActive, Active
  <2>4. \A q, r \in Reducer :
          co'.task[q] # "none" /\ co'.task[r] # "none" => q = r
    BY <1>1, <2>1, <2>2 DEF LoopIInv, ReducerFits
  <2>5. \A r \in Reducer : co'.task[r] = "spawned" => NoActiveReducer'
    <3>1. first # {} => NoActiveReducer
      BY <1>1, <2>2 DEF LoopIInv, ReducerFits, NoActiveReducer, SomeActive
    <3> QED
      BY <2>1, <2>3, <3>1 DEF LoopIInv, ReducerFits
  <2>6. \A r \in Reducer : Active(r)' => co'.task[r] # "none"
    BY <1>1, <2>1, <2>3 DEF LoopIInv, ReducerFits
  <2>7. \A r \in Reducer : co'.task[r] = "replying" => status'[r] = "succeeded"
    BY <1>2, <2>1 DEF LoopIInv, ReducerFits
  <2>8. DOMAIN co'.settlements = {}
    BY <1>1
  <2>9. co'.reduced => SomeReduced'
    BY <1>1, <2>3 DEF LoopIInv, ReducerFits
  <2> QED
    BY <2>4, <2>5, <2>6, <2>7, <2>8, <2>9 DEF ReducerFits
<1>5. QueueFits'
  <2>1. DOMAIN co'.settlements = {} /\ DOMAIN co.settlements = {}
    BY <1>1
  <2> QED
    BY <1>1, <1>2, <2>1 DEF LoopIInv, QueueFits
<1> QED
  BY <1>3, <1>4, <1>5 DEF LoopIInv

\* A dispatch that is accepted is counted by the rows as well.
LEMMA InsertDiscoveryKeepsLoop ==
  ASSUME IInv, CoordinatorTypeOK, LoopIInv, NEW d \in Discovery,
         InsertDiscovery(d)
  PROVE  LoopIInv'
<1>0. /\ d \in Worker /\ "queued" \in Task
      /\ co.task[d] = "spawned" /\ At(d, "queued")
      /\ dispatched' = dispatched + 1 /\ deadline' = deadline
      /\ status' = [status EXCEPT ![d] = "queued"]
      /\ status[d] = "none"
      /\ status \in [Worker -> WorkerStatus]
      /\ dispatched \in Nat /\ co.dispatched \in Nat /\ MaxDiscoveryRuns \in Nat
  BY DiscoveryIsNoReducer, WorkbenchAssumption
     DEF Task, InsertDiscovery, NewDiscovery, IInv, TypeOK, CoordinatorTypeOK,
         CoordinatorState
<1>1. /\ \A v \in Worker : co'.task[v] = IF v = d THEN "queued" ELSE co.task[v]
      /\ co'.mode = co.mode /\ co'.dstop = co.dstop
      /\ co'.settlements = co.settlements
      /\ co'.dispatched = co.dispatched /\ co'.reduced = co.reduced
  BY <1>0, AtFields
<1>2. \A w \in Worker : w # d => status'[w] = status[w]
  BY <1>0
<1>3. \A i \in DOMAIN co.settlements :
        co.settlements[i].who \in Worker /\ co.settlements[i].who # d
  BY <1>0, OutcomesHaveType DEF LoopIInv, QueueFits
<1>4. BudgetFits'
  <2>1. /\ Spawned = Spawned' \cup {d} /\ d \notin Spawned'
        /\ Spawned' \subseteq Discovery
    BY <1>0, <1>1, DiscoveryIsNoReducer DEF Spawned
  <2>2. /\ Cardinality(Spawned) = Cardinality(Spawned') + 1
        /\ Cardinality(Spawned') \in Nat
    BY <2>1, CountOneMore, DiscoverySetsFinite
  <2> QED
    BY <1>0, <1>1, <2>2 DEF LoopIInv, BudgetFits
<1>5. ReducerFits'
  <2>1. \A r \in Reducer :
          /\ r \in Worker /\ co'.task[r] = co.task[r] /\ status'[r] = status[r]
          /\ Active(r)' <=> Active(r)
    BY <1>1, <1>2, DiscoveryIsNoReducer DEF Active
  <2>2. SomeReduced' = SomeReduced /\ NoActiveReducer' = NoActiveReducer
    BY <2>1 DEF SomeReduced, NoActiveReducer, SomeActive
  <2>3. \A i \in DOMAIN co'.settlements : EndFits(co.settlements[i])'
    BY <1>1, <1>2, <1>3 DEF LoopIInv, ReducerFits, EndFits, Final
  <2> QED
    BY <1>1, <2>1, <2>2, <2>3 DEF LoopIInv, ReducerFits
<1>6. QueueFits'
  BY <1>0, <1>1, <1>3 DEF LoopIInv, QueueFits
<1> QED
  BY <1>4, <1>5, <1>6 DEF LoopIInv

\* The row of a reducer whose claim is accepted is active, and the only one.
LEMMA InsertReducerKeepsLoop ==
  ASSUME IInv, CoordinatorTypeOK, LoopIInv, NEW r \in Reducer,
         InsertReducer(r)
  PROVE  LoopIInv'
<1>0. /\ r \in Worker /\ r \notin Discovery /\ "queued" \in Task
      /\ co.task[r] = "spawned" /\ At(r, "queued")
      /\ dispatched' = dispatched /\ deadline' = deadline
      /\ status' = [status EXCEPT ![r] = "queued"]
      /\ status[r] = "none"
      /\ status \in [Worker -> WorkerStatus]
  BY DiscoveryIsNoReducer
     DEF Task, InsertReducer, ClaimDedup, IInv, TypeOK, counterVars
<1>1. /\ \A v \in Worker : co'.task[v] = IF v = r THEN "queued" ELSE co.task[v]
      /\ co'.mode = co.mode /\ co'.dstop = co.dstop
      /\ co'.settlements = co.settlements
      /\ co'.dispatched = co.dispatched /\ co'.reduced = co.reduced
  BY <1>0, AtFields
<1>2. \A w \in Worker : w # r => status'[w] = status[w]
  BY <1>0
<1>3. \A i \in DOMAIN co.settlements :
        co.settlements[i].who \in Worker /\ co.settlements[i].who # r
  BY <1>0, OutcomesHaveType DEF LoopIInv, QueueFits
<1>4. BudgetFits'
  <2>1. Spawned' = Spawned
    BY <1>0, <1>1, DiscoveryIsNoReducer DEF Spawned
  <2> QED
    BY <1>0, <1>1, <2>1 DEF LoopIInv, BudgetFits
<1>5. ReducerFits'
  <2>1. \A q \in Reducer : q # r => co'.task[q] = "none"
    BY <1>0, <1>1, DiscoveryIsNoReducer DEF LoopIInv, ReducerFits
  <2>2. \A q \in Reducer : co'.task[q] \notin {"spawned", "replying"}
    BY <1>0, <1>1, <2>1
  <2>3. \A q \in Reducer : q # r => (Active(q)' <=> Active(q))
    BY <1>2, DiscoveryIsNoReducer DEF Active
  <2>4. co'.mode = "working" =>
          \A q \in Reducer : Active(q)' => co'.task[q] # "none"
    BY <1>1, <2>1, <2>3, DiscoveryIsNoReducer DEF LoopIInv, ReducerFits
  <2>5. \A i \in DOMAIN co'.settlements : EndFits(co.settlements[i])'
    BY <1>1, <1>2, <1>3 DEF LoopIInv, ReducerFits, EndFits, Final
  <2>6. SomeReduced => SomeReduced'
    BY <1>0, <1>2, DiscoveryIsNoReducer DEF SomeReduced
  <2> QED
    BY <1>1, <2>1, <2>2, <2>4, <2>5, <2>6 DEF LoopIInv, ReducerFits
<1>6. QueueFits'
  BY <1>0, <1>1, <1>3 DEF LoopIInv, QueueFits
<1> QED
  BY <1>4, <1>5, <1>6 DEF LoopIInv

\* A coordinator that takes over starts from what the rows say.
LEMMA ClaimKeepsLoop ==
  ASSUME IInv, IInv', Claim
  PROVE  LoopIInv'
<1>1. /\ co'.dstop = deadline /\ deadline' = deadline
      /\ co'.settlements = <<>> /\ co'.dispatched = dispatched'
      /\ co'.reduced <=> SomeReduced'
      /\ \A w \in Worker : co'.task[w] = "none" /\ ~Active(w)'
  BY ClaimFields
<1>2. DOMAIN co'.settlements = {}
  BY <1>1
<1>3. BudgetFits'
  <2>1. Spawned' = {}
    BY <1>1, DiscoveryIsNoReducer DEF Spawned
  <2>2. Cardinality(Spawned') = 0
    BY <2>1, FS_EmptySet
  <2>3. /\ dispatched' \in Nat
        /\ dispatched' <= MaxDiscoveryRuns
        /\ MaxDiscoveryRuns \in Nat
    BY WorkbenchAssumption DEF IInv, TypeOK, DispatchAccounting
  <2>4. PICK n \in Nat : n = dispatched'
    BY <2>3
  <2>6. n + 0 = n /\ n <= n
    OBVIOUS
  <2>5. dispatched' + Cardinality(Spawned') = dispatched'
    BY <2>2, <2>4, <2>6
  <2> QED
    BY <1>1, <2>3, <2>4, <2>5, <2>6 DEF BudgetFits
<1>4. ReducerFits'
  BY <1>1, <1>2, DiscoveryIsNoReducer DEF ReducerFits
<1>5. QueueFits'
  BY <1>1, <1>2 DEF QueueFits
<1> QED
  BY <1>3, <1>4, <1>5 DEF LoopIInv

\* Only a claim makes the row of a reducer active, only a dispatch is counted.
LEMMA QuietRows ==
  ASSUME IInv, NEW g,
         \/ LeaseStep(g)
         \/ \E w \in Worker : \E n : StartAttempt(g, w, n) \/ CancelWorker(g, w, n)
         \/ \E d \in Discovery : \/ AcceptDiscovery(g, d)
                                 \/ ReplaceDiscovery(g, d)
                                 \/ FailDiscovery(g, d)
         \/ \E r \in Reducer : \/ FailReducer(g, r)
                               \/ \E new \in {0, 1} : CommitDedup(g, r, new)
         \/ \E why, omitted : FinishDeepScan(g, why, omitted)
         \/ \E s : FailDeepScan(g, s)
         \/ ParentStep \/ LeaseExpires \/ DeadlinePasses \/ UNCHANGED vars
  PROVE  /\ \A r \in Reducer : Active(r)' => Active(r)
         /\ dispatched' = dispatched /\ (deadline => deadline')
<1> DEFINE Quiet == \A r \in Reducer : Active(r)' => Active(r)
<1>0. status \in [Worker -> WorkerStatus]
  BY DEF IInv, TypeOK
<1>1. dispatched' = dispatched /\ (deadline => deadline')
  BY DEF LeaseStep, RenewLease, Heartbeat, StartAttempt, CancelWorker,
     AcceptDiscovery, ReplaceDiscovery, FailDiscovery, FailReducer, CommitDedup,
     FinishDeepScan, FailDeepScan, StopRun, ParentStep, FailScan, CancelScan,
     CompleteScan, LeaseExpires, DeadlinePasses, vars, counterVars, leaseVars
<1>2. ASSUME status' = status \/ status' = WithActiveCanceled
      PROVE  Quiet
  BY <1>0, <1>2, DiscoveryIsNoReducer DEF Active, WithActiveCanceled
<1>3. ASSUME NEW w \in Worker, NEW s, status' = [status EXCEPT ![w] = s],
             s \notin {"queued", "running"} \/ Active(w)
      PROVE  Quiet
  BY <1>0, <1>3, DiscoveryIsNoReducer DEF Active
<1>4. CASE LeaseStep(g) \/ ParentStep \/ LeaseExpires \/ DeadlinePasses
             \/ UNCHANGED vars \/ (\E s : FailDeepScan(g, s))
             \/ \E why, omitted : FinishDeepScan(g, why, omitted)
  <2>1. status' = status \/ status' = WithActiveCanceled
    BY <1>4 DEF LeaseStep, RenewLease, Heartbeat, FinishDeepScan, FailDeepScan,
       StopRun, ParentStep, FailScan, CancelScan, CompleteScan, LeaseExpires,
       DeadlinePasses, vars, rowVars
  <2> QED
    BY <1>1, <1>2, <2>1
<1>5. CASE \E w \in Worker : \E n : StartAttempt(g, w, n) \/ CancelWorker(g, w, n)
  <2>1. PICK w \in Worker :
          /\ Active(w)
          /\ \/ status' = [status EXCEPT ![w] = "running"]
             \/ status' = [status EXCEPT ![w] = "canceled"]
    BY <1>5 DEF StartAttempt, CancelWorker
  <2> QED
    BY <1>1, <1>3, <2>1
<1>6. CASE \E d \in Discovery : \/ AcceptDiscovery(g, d)
                                \/ ReplaceDiscovery(g, d)
                                \/ FailDiscovery(g, d)
  <2>1. PICK d \in Discovery :
          \/ status' = [status EXCEPT ![d] = "succeeded"]
          \/ status' = [status EXCEPT ![d] = "canceled"]
          \/ status' = [status EXCEPT ![d] = "failed"]
    BY <1>6 DEF AcceptDiscovery, ReplaceDiscovery, FailDiscovery
  <2> QED
    BY <1>1, <1>3, <2>1, DiscoveryIsNoReducer
<1>7. CASE \E r \in Reducer : \/ FailReducer(g, r)
                              \/ \E new \in {0, 1} : CommitDedup(g, r, new)
  <2>1. PICK r \in Reducer :
          \/ status' = [status EXCEPT ![r] = "succeeded"]
          \/ status' = [status EXCEPT ![r] = "failed"]
    BY <1>7 DEF FailReducer, CommitDedup
  <2> QED
    BY <1>1, <1>3, <2>1, DiscoveryIsNoReducer
<1> QED
  BY <1>4, <1>5, <1>6, <1>7

\* The steps after which the loop does not go on.
LEMMA StopKeepsLoop ==
  ASSUME IInv, IInv', CoordinatorTypeOK, LoopIInv, [Next]_vars,
         \/ FinishRefused \/ FinishLost \/ LoseOwnership \/ Shutdown \/ AskCancel
         \/ Finish \/ Fail \/ FailLost \/ CancelLost \/ PersistCancel \/ Leave \/ Crash
         \/ UNCHANGED vars /\ co' = Stopping("failing", "error")
  PROVE  LoopIInv'
<1>1. /\ \A r \in Reducer : Active(r)' => Active(r)
      /\ dispatched' = dispatched /\ (deadline => deadline')
  <2>1. \/ \E why, omitted : FinishDeepScan(generation, why, omitted)
        \/ \E s : FailDeepScan(generation, s)
        \/ ParentStep \/ UNCHANGED vars
    BY DEF FinishRefused, FinishLost, LoseOwnership, Shutdown, AskCancel, Finish,
       Fail, FailLost, CancelLost, PersistCancel, Leave, Crash, ParentStep
  <2> QED
    BY <2>1, QuietRows
<1>2. CASE co' = NoCoordinator
  <2>1. /\ co'.mode = "absent" /\ co'.settlements = <<>> /\ ~co'.dstop
        /\ ~co'.reduced /\ \A w \in Worker : co'.task[w] = "none"
    BY <1>2 DEF NoCoordinator
  <2> QED
    BY <1>1, <2>1, EndingKeepsLoop
<1>3. CASE co' # NoCoordinator
  <2>1. PICK m \in {"failing", "leaving"},
             a \in {"error", "lost", "shutdown", "cancel"} :
          \/ co' = Stopping(m, a)
          \/ co' = [Stopping(m, a) EXCEPT !.asked = TRUE]
    BY <1>3 DEF FinishRefused, FinishLost, LoseOwnership, Shutdown, AskCancel,
       Finish, Fail, FailLost, CancelLost, PersistCancel, Leave, Crash
  <2>2. m \in Mode /\ a \in Abort
    BY DEF Mode, Abort
  <2>3. /\ co'.mode = m /\ co'.dstop = co.dstop /\ co'.settlements = <<>>
        /\ co'.reduced = FALSE
        /\ \A w \in Worker :
             co'.task[w] = IF co.task[w] = "settled" THEN "none" ELSE co.task[w]
    BY <2>1, <2>2, StoppingFields
  <2> QED
    BY <1>1, <2>3, EndingKeepsLoop
<1> QED
  BY <1>2, <1>3

\* The turns of the loop that start nothing.
LEMMA TurnKeepsLoop ==
  ASSUME IInv, IInv', PoolIInv, LoopIInv, [Next]_vars,
         ReadOutcome \/ ReconcileLate \/ Exhausted \/ Drained \/ ReachDeadline
  PROVE  LoopIInv'
<1>0. /\ CoordinatorTypeOK /\ co \in CoordinatorState
      /\ UNCHANGED vars /\ dispatched' = dispatched /\ deadline' = deadline
  BY DEF PoolIInv, CoordinatorTypeOK, ReadOutcome, ReconcileLate, Exhausted,
     Drained, ReachDeadline, vars, counterVars, leaseVars
<1>1. CASE co' = Stopping("failing", "error")
  BY <1>0, <1>1, StopKeepsLoop
<1>2. CASE ReadOutcome /\ co' # Stopping("failing", "error")
  <2>1. PICK o : o = Head(co.settlements)
    OBVIOUS
  <2>2. /\ co'.settlements = Tail(co.settlements)
        /\ co'.task = [co.task EXCEPT ![o.who] = "none"]
        /\ o \in Outcome /\ Fits(o) /\ o = co.settlements[1]
        /\ co'.dstop = co.dstop /\ co'.dispatched = co.dispatched
        /\ o.what \in {"accepted", "replaced", "canceled", "reduced", "redfailed"}
        /\ co'.reduced => co.reduced \/ o.what = "reduced"
    BY <1>2, <2>1, ReadFields
  <2>3. co.settlements # <<>> /\ co.mode = "working" /\ 1 \in DOMAIN co.settlements
    BY <1>0, <1>2, LenProperties, EmptySeq DEF ReadOutcome, CoordinatorState
  <2>4. EndFits(o)
    BY <2>2, <2>3 DEF LoopIInv, ReducerFits
  <2>5. o.who \in Reducer => ~Active(o.who)
    BY <2>2, <2>4, DiscoveryIsNoReducer DEF Fits, EndFits, Final, Active
  <2>6. o.what = "reduced" => SomeReduced
    BY <2>2, <2>4 DEF EndFits, Fits, SomeReduced
  <2> QED
    BY <1>0, <2>1, <2>2, <2>3, <2>5, <2>6, ReadingKeepsLoop
<1>3. CASE ReconcileLate
  <2>1. PICK o : o = Head(co.settlements)
    OBVIOUS
  <2>2. /\ co.mode = "draining" /\ co.settlements # <<>>
        /\ co' = [co EXCEPT
                 !.settlements = Tail(@), !.task[o.who] = "none",
                 !.omitted = IF o.what = "accepted" THEN @ \cup {o.who} ELSE @]
    BY <1>3, <2>1 DEF ReconcileLate
  <2>3. /\ co'.mode = co.mode /\ co'.settlements = Tail(co.settlements)
        /\ co'.task = [co.task EXCEPT ![o.who] = "none"]
        /\ co'.dstop = co.dstop /\ co'.reduced = co.reduced
    BY <1>0, <2>2 DEF CoordinatorState
  <2> QED
    BY <1>0, <2>1, <2>2, <2>3, ReadingKeepsLoop
<1>4. CASE /\ Exhausted \/ Drained \/ ReachDeadline
           /\ co' # Stopping("failing", "error")
  <2>1. /\ co'.settlements = co.settlements /\ co'.task = co.task
        /\ co'.dstop => co.dstop \/ deadline
        /\ co'.reduced = co.reduced
        /\ co'.mode = "working" =>
             co.mode = "working" /\ co'.dispatched = co.dispatched
        /\ co'.mode # "draining"
    <3>1. \/ /\ co' = [co EXCEPT !.mode = "finishing", !.why = "capped"]
          \/ co' = [co EXCEPT !.mode = "finishing"]
          \/ deadline /\ co' = [co EXCEPT !.dstop = TRUE] /\ co.mode = "working"
      BY <1>4 DEF Exhausted, Drained, ReachDeadline
    <3> QED
      BY <1>0, <3>1 DEF CoordinatorState
  <2> QED
    BY <1>0, <2>1, RowsStand, FlagsKeepLoop, DiscoveryIsNoReducer
<1> QED
  BY <1>1, <1>2, <1>3, <1>4

\* The commands of the workers.
LEMMA WorkerKeepsLoop ==
  ASSUME IInv, IInv', PoolIInv, LoopIInv, [Next]_vars, NEW w \in Worker,
         \/ /\ w \in Discovery /\ WriteQueueFree
            /\ InsertDiscovery(w) \/ StoreDiscovery(w) \/ GiveUpDiscovery(w)
         \/ /\ w \in Reducer /\ WriteQueueFree
            /\ \/ InsertReducer(w) \/ GiveUpReducer(w)
               \/ \E new \in {0, 1} : StoreReduction(w, new)
         \/ BeginAttempt(w) \/ AbandonAttempt(w) \/ Refused(w)
         \/ SaveResult(w) \/ Answer(w) \/ RetryAttempt(w) \/ WriteLost(w)
  PROVE  LoopIInv'
<1>0. /\ CoordinatorTypeOK /\ status \in [Worker -> WorkerStatus]
  BY DEF PoolIInv, IInv, TypeOK
<1>1. \A what \in {"accepted", "replaced", "canceled", "failed", "reduced",
                   "redfailed", "rejected"} :
        [who |-> w, what |-> what] \in Outcome
  BY DEF Outcome
<1>2. CASE w \in Discovery /\ InsertDiscovery(w)
  BY <1>0, <1>2, InsertDiscoveryKeepsLoop
<1>3. CASE w \in Reducer /\ InsertReducer(w)
  BY <1>0, <1>3, InsertReducerKeepsLoop
<1>4. CASE w \in Discovery /\ StoreDiscovery(w) /\ WriteQueueFree
  <2>1. /\ co.task[w] = "saving" /\ At(w, "replying")
        /\ AcceptDiscovery(generation, w) /\ deadline' = deadline
    BY <1>4 DEF StoreDiscovery, AcceptDiscovery
  <2>2. w \notin Reducer
    BY <1>4, DiscoveryIsNoReducer
  <2>3. /\ \A r \in Reducer : Active(r)' => Active(r)
        /\ dispatched' = dispatched
    BY <1>4, <2>1, QuietRows
  <2> QED
    BY <1>0, <1>4, <2>1, <2>2, <2>3, GoingOnKeepsLoop
<1>5. CASE /\ w \in Reducer /\ WriteQueueFree
           /\ \E new \in {0, 1} : StoreReduction(w, new)
  <2>1. PICK new \in {0, 1} :
          /\ co.task[w] = "saving" /\ At(w, "replying")
          /\ CommitDedup(generation, w, new) /\ deadline' = deadline
          /\ status' = [status EXCEPT ![w] = "succeeded"]
    BY <1>5 DEF StoreReduction, CommitDedup
  <2>2. status'[w] = "succeeded"
    BY <1>0, <2>1
  <2>3. /\ \A r \in Reducer : Active(r)' => Active(r)
        /\ dispatched' = dispatched
    BY <1>5, <2>1, QuietRows
  <2> QED
    BY <1>0, <1>5, <2>1, <2>2, <2>3, GoingOnKeepsLoop
<1>6. CASE w \in Discovery /\ GiveUpDiscovery(w)
  <2>1. /\ co.task[w] = "running" /\ deadline' = deadline
        /\ ReplaceDiscovery(generation, w) \/ FailDiscovery(generation, w)
        /\ Report(w, "replaced") \/ Report(w, "failed")
    BY <1>6 DEF GiveUpDiscovery, ReplaceDiscovery, FailDiscovery, leaseVars
  <2>2. /\ \A r \in Reducer : Active(r)' => Active(r)
        /\ dispatched' = dispatched
    BY <1>6, <2>1, QuietRows
  <2> QED
    BY <1>0, <1>1, <2>1, <2>2, ReportKeepsLoop
<1>7. CASE w \in Reducer /\ GiveUpReducer(w)
  <2>1. /\ co.task[w] = "running" /\ deadline' = deadline
        /\ FailReducer(generation, w)
        /\ status' = [status EXCEPT ![w] = "failed"]
        /\ Report(w, "redfailed") \/ Report(w, "rejected")
    BY <1>7 DEF GiveUpReducer, FailReducer, leaseVars
  <2>2. /\ \A r \in Reducer : Active(r)' => Active(r)
        /\ dispatched' = dispatched
    BY <1>7, <2>1, QuietRows
  <2>3. Final(w)'
    BY <1>0, <2>1 DEF Final
  <2> QED
    BY <1>0, <1>1, <2>1, <2>2, <2>3, ReportKeepsLoop
<1>8. CASE BeginAttempt(w) \/ SaveResult(w)
  <2>1. /\ co.task[w] \in {"queued", "running"} /\ deadline' = deadline
        /\ At(w, "running") \/ At(w, "saving")
        /\ StartAttempt(generation, w, "none") \/ UNCHANGED vars
    BY <1>8 DEF BeginAttempt, SaveResult, StartAttempt, leaseVars, vars
  <2>2. /\ \A r \in Reducer : Active(r)' => Active(r)
        /\ dispatched' = dispatched
    BY <2>1, QuietRows
  <2> QED
    BY <1>0, <2>1, <2>2, GoingOnKeepsLoop
<1>9. CASE AbandonAttempt(w) \/ Refused(w) \/ WriteLost(w)
  <2>1. /\ co.task[w] \notin {"none", "settled"} /\ deadline' = deadline
        /\ Report(w, "canceled") \/ Report(w, "rejected")
        /\ CancelWorker(generation, w, CancellationNote(w)) \/ UNCHANGED vars
    BY <1>9 DEF AbandonAttempt, Refused, SendsRefused, WriteLost, CancelWorker,
       Cancellation, AfterFailedWrite, leaseVars, vars
  <2>2. /\ \A r \in Reducer : Active(r)' => Active(r)
        /\ dispatched' = dispatched
    BY <2>1, QuietRows
  <2> QED
    BY <1>0, <1>1, <2>1, <2>2, ReportKeepsLoop
<1>10. CASE Answer(w)
  <2>1. /\ co.task[w] = "replying" /\ deadline' = deadline /\ UNCHANGED vars
        /\ status' = status
        /\ Report(w, IF w \in Discovery THEN "accepted" ELSE "reduced")
    BY <1>10 DEF Answer, leaseVars, rowVars, vars
  <2>2. /\ \A r \in Reducer : Active(r)' => Active(r)
        /\ dispatched' = dispatched
    BY <2>1, QuietRows
  <2>3. w \notin Discovery => status'[w] = "succeeded"
    BY <2>1 DEF Worker, LoopIInv, ReducerFits
  <2> QED
    BY <1>0, <1>1, <2>1, <2>2, <2>3, ReportKeepsLoop
<1>11. CASE RetryAttempt(w)
  <2>1. UNCHANGED co /\ StartAttempt(generation, w, "error")
    BY <1>11 DEF RetryAttempt
  <2>2. /\ \A r \in Reducer : Active(r)' => Active(r)
        /\ dispatched' = dispatched /\ (deadline => deadline')
    BY <2>1, QuietRows
  <2> QED
    BY <1>0, <2>1, <2>2, FlagsKeepLoop
<1> QED
  BY <1>2, <1>3, <1>4, <1>5, <1>6, <1>7, <1>8, <1>9, <1>10, <1>11

\* Every step of the running system keeps the loop's bookkeeping.
LEMMA NextKeepsLoop ==
  ASSUME IInv, IInv', PoolIInv, LoopIInv, [SystemNext]_systemVars
  PROVE  LoopIInv'
<1>0. CoordinatorTypeOK /\ [Next]_vars
  BY SystemStepIsACommand DEF PoolIInv
<1>1. CASE Claim
  BY <1>1, ClaimKeepsLoop
<1>2. CASE Fill
  BY <1>2, FillKeepsLoop
<1>3. CASE ReadOutcome \/ ReconcileLate \/ Exhausted \/ Drained \/ ReachDeadline
  BY <1>0, <1>3, TurnKeepsLoop
<1>4. CASE \/ FinishRefused \/ FinishLost \/ LoseOwnership \/ Shutdown
           \/ AskCancel \/ Finish \/ Fail \/ FailLost \/ CancelLost \/ PersistCancel
           \/ Leave \/ Crash
  BY <1>0, <1>4, StopKeepsLoop
<1>5. CASE \E w \in Worker : \/ WorkerProceeds(w) \/ RetryAttempt(w)
                             \/ WriteLost(w)
  BY <1>0, <1>5, WorkerKeepsLoop DEF WorkerProceeds
<1>6. CASE \/ Beat \/ Expire \/ Parent
           \/ DeadlinePasses /\ UNCHANGED <<co, faults>>
           \/ UNCHANGED systemVars
  <2>1. /\ \/ LeaseStep(generation) \/ LeaseExpires \/ ParentStep
           \/ DeadlinePasses \/ UNCHANGED vars
        /\ UNCHANGED co
    BY <1>6 DEF Beat, Expire, Parent, LeaseStep, systemVars
  <2>2. /\ \A r \in Reducer : Active(r)' => Active(r)
        /\ dispatched' = dispatched /\ (deadline => deadline')
    BY <2>1, QuietRows
  <2> QED
    BY <1>0, <2>1, <2>2, FlagsKeepLoop
<1> QED
  BY <1>1, <1>2, <1>3, <1>4, <1>5, <1>6
     DEF SystemNext, CoordinatorProceeds, Disruption

LEMMA SystemInitLoop ==
  ASSUME SystemInit
  PROVE  LoopIInv
<1>1. /\ co.mode = "absent" /\ co.settlements = <<>> /\ ~co.dstop /\ ~co.reduced
      /\ \A w \in Worker : co.task[w] = "none"
  BY DEF SystemInit, NoCoordinator
<1>2. DOMAIN co.settlements = {}
  BY <1>1
<1>3. BudgetFits
  <2>1. Spawned = {}
    BY <1>1, DiscoveryIsNoReducer DEF Spawned
  <2>2. Cardinality(Spawned) = 0
    BY <2>1, FS_EmptySet
  <2>3. dispatched = 0 /\ 0 + 0 <= MaxDiscoveryRuns
    BY WorkbenchAssumption DEF SystemInit, Init
  <2> QED
    BY <1>1, <2>2, <2>3 DEF BudgetFits
<1>4. ReducerFits
  BY <1>1, <1>2, DiscoveryIsNoReducer DEF ReducerFits
<1>5. QueueFits
  BY <1>1, <1>2 DEF QueueFits
<1> QED
  BY <1>3, <1>4, <1>5 DEF LoopIInv

\* The loop never dispatches beyond the budget, has one reducer and hears of
\* each worker once, whatever is lost, crashes or takes over.
THEOREM LoopInvariance == SystemSpec => []LoopIInv
<1>1. SystemInit => LoopIInv
  BY SystemInitLoop
<1>2. IInv /\ IInv' /\ PoolIInv /\ LoopIInv /\ [SystemNext]_systemVars
        => LoopIInv'
  BY NextKeepsLoop
<1> QED
  BY <1>1, <1>2, SystemInvariance, PoolInvariance, PTL DEF SystemSpec

\* What NoResultIsForgotten rests on.
LEMMA KnownInvariance == SystemSpec => []KnownIInv
<1>1. SystemInit => KnownIInv
  BY DEF SystemInit, NoCoordinator, KnownIInv, NothingLost
<1>2. IInv /\ IInv' /\ PoolIInv /\ KnownIInv /\ [SystemNext]_systemVars
        => KnownIInv'
  BY NextKeepsKnown
<1> QED
  BY <1>1, <1>2, SystemInvariance, PoolInvariance, PTL DEF SystemSpec

-----------------------------------------------------------------------------
(***************************************************************************)
(* What the rows do while the scan runs.                                   *)
(***************************************************************************)

\* A run that stopped is not started again.
LEMMA StillRunning ==
  ASSUME [Next]_vars, RunningScan'
  PROVE  RunningScan
<1>1. /\ run' = run \/ run' # "running"
      /\ parent' = parent \/ parent' # "running"
  <2>1. CASE UNCHANGED vars \/ AdoptCoordinator \/ LeaseExpires \/ DeadlinePasses
    BY <2>1 DEF vars, runVars, AdoptCoordinator, LeaseExpires, DeadlinePasses
  <2>2. CASE ParentStep
    BY <2>2 DEF ParentStep, FailScan, CancelScan, CompleteScan, StopRun
  <2>3. ASSUME NEW g, LeaseStep(g) \/ DiscoveryStep(g) \/ WorkerStep(g)
        PROVE  run' = run /\ parent' = parent
    BY <2>3 DEF LeaseStep, RenewLease, Heartbeat, DiscoveryStep, NewDiscovery,
       AcceptDiscovery, ReplaceDiscovery, FailDiscovery, WorkerStep,
       StartAttempt, CancelWorker, runVars
  <2>4. ASSUME NEW g, ReducerStep(g)
        PROVE  run' = run /\ parent' = parent
    BY <2>4 DEF ReducerStep, ClaimDedup, CommitDedup, FailReducer
  <2>5. ASSUME NEW g, StopStep(g)
        PROVE  run' # "running"
    BY <2>5 DEF StopStep, FinishDeepScan, FailDeepScan, StopRun
  <2>6. ASSUME NEW g, StopStep(g)
        PROVE  parent' = parent \/ parent' # "running"
    BY <2>6 DEF StopStep, FinishDeepScan, FailDeepScan, StopRun
  <2> QED
    BY <2>1, <2>2, <2>3, <2>4, <2>5, <2>6 DEF Next
<1> QED
  BY <1>1 DEF RunningScan

\* A result that is accepted comes after all that were, and they keep theirs.
LEMMA SequenceGoesOn ==
  ASSUME IInv, IInv', [Next]_vars
  PROVE  /\ \A d \in Discovery :
              status[d] = "succeeded" => seq'[d] = seq[d]
         /\ \A d, e \in Discovery :
              /\ status[d] = "succeeded"
              /\ status[e] # "succeeded" /\ status'[e] = "succeeded"
              => seq[d] < seq'[e]
<1>0. /\ seq \in [Discovery -> Nat] /\ accepted \in Nat
      /\ \A d \in Discovery : seq[d] <= accepted
      /\ \A d \in Discovery : (seq[d] # 0) <=> (status[d] = "succeeded")
      /\ \A d \in Discovery : (seq'[d] # 0) <=> (status'[d] = "succeeded")
  BY DEF IInv, TypeOK, AcceptanceIsOrdered, MergeMatchesStatus
<1>1. seq' = seq \/ \E g, d : d \in Discovery /\ AcceptDiscovery(g, d)
  <2>1. CASE UNCHANGED vars \/ AdoptCoordinator \/ LeaseExpires
               \/ DeadlinePasses \/ ParentStep
    BY <2>1 DEF vars, rowVars, AdoptCoordinator, RecoverExpiredCoordinator,
       LeaseExpires, DeadlinePasses, ParentStep, FailScan, CancelScan,
       CompleteScan, StopRun
  <2>2. ASSUME NEW g, \/ LeaseStep(g) \/ WorkerStep(g) \/ ReducerStep(g)
                      \/ StopStep(g)
        PROVE  seq' = seq
    BY <2>2 DEF LeaseStep, RenewLease, Heartbeat, WorkerStep, StartAttempt,
       CancelWorker, ReducerStep, ClaimDedup, CommitDedup, FailReducer,
       StopStep, FinishDeepScan, FailDeepScan, StopRun, rowVars
  <2>3. ASSUME NEW g, DiscoveryStep(g)
        PROVE  seq' = seq \/ \E d \in Discovery : AcceptDiscovery(g, d)
    BY <2>3 DEF DiscoveryStep, NewDiscovery, ReplaceDiscovery, FailDiscovery
  <2> QED
    BY <2>1, <2>2, <2>3 DEF Next
<1>2. CASE seq' = seq
  BY <1>0, <1>2
<1>3. CASE \E g, d : d \in Discovery /\ AcceptDiscovery(g, d)
  <2>1. PICK d \in Discovery :
          /\ seq' = [seq EXCEPT ![d] = accepted + 1]
          /\ status[d] = "running"
    BY <1>3 DEF AcceptDiscovery, NextSequence
  <2>2. \A e \in Discovery : seq'[e] = IF e = d THEN accepted + 1 ELSE seq[e]
    BY <1>0, <2>1
  <2>3. \A e \in Discovery :
          status[e] # "succeeded" /\ status'[e] = "succeeded" => e = d
    BY <1>0, <2>2
  <2>4. \A e \in Discovery : seq[e] < accepted + 1
    BY <1>0
  <2> QED
    BY <2>1, <2>2, <2>3, <2>4
<1> QED
  BY <1>1, <1>2, <1>3

-----------------------------------------------------------------------------
(***************************************************************************)
(* While no write was lost, the loop's view of the results is never ahead  *)
(* of the rows' and misses nothing that is not on its way.                 *)
(***************************************************************************)

\* The accepted results the loop is still to read.
AcceptedAt(i) == co.settlements[i].what = "accepted"
Awaited ==
  {d \in Discovery :
     \/ co.task[d] = "replying"
     \/ \E i \in DOMAIN co.settlements :
          AcceptedAt(i) /\ co.settlements[i].who = d}

\* They are read in the order of their sequence numbers, after all that the
\* loop has read.
OrderFits ==
  /\ Awaited \subseteq Buffered
  /\ \A d \in co.buffer \cup co.consumed, e \in Awaited : seq[d] < seq[e]
  /\ \A i, j \in DOMAIN co.settlements :
       i < j /\ AcceptedAt(i) /\ AcceptedAt(j) =>
         seq[co.settlements[i].who] < seq[co.settlements[j].who]
  /\ \A i \in DOMAIN co.settlements, e \in Discovery :
       AcceptedAt(i) /\ co.task[e] = "replying" =>
         seq[co.settlements[i].who] < seq[e]

\* What the loop may still hand to a reducer is not in the ledger yet.
MayReturn ==
  \/ \E r \in Reducer : AtWork(r)
  \/ \E i \in DOMAIN co.settlements : co.settlements[i].what = "redfailed"
BufferFits ==
  /\ co.buffer \subseteq Buffered \cup Merging
  /\ co.buffer \cap co.consumed = {}
  /\ \A d \in co.consumed : status[d] = "succeeded"
  /\ MayReturn => co.consumed \subseteq Buffered \cup Merging

\* The loop has started all that is active, and counts it.
OwnedFits ==
  /\ \A d \in Discovery : Active(d) => co.task[d] # "none"
  /\ dispatched + Cardinality(Spawned) = co.dispatched

\* No other discovery comes.
LastOfAll ==
  /\ Capped
  /\ \A d \in Discovery : ~Active(d) /\ co.task[d] = "none"
  /\ co.mode = "working" => co.dstop \/ co.dispatched >= MaxDiscoveryRuns

\* What a reducer that is being started is to claim, it may.
ClaimFits ==
  (\E r \in Reducer : co.task[r] = "spawned") =>
    /\ co.consumed \subseteq Buffered \cup Merging
    /\ \A d \in co.consumed, e \in Buffered \ co.consumed : seq[d] < seq[e]
    /\ co.consumed # {}
    /\ SomeReduced \/ Cardinality(co.consumed) >= 2 \/ LastOfAll

LoopFits == co.mode = "working" => OrderFits /\ BufferFits /\ OwnedFits

\* A scan that runs and of which no write was lost.
Calm == RunningScan /\ faults = MaxFaults

ClaimIInv == Calm => ClaimFits /\ LoopFits

-----------------------------------------------------------------------------
\* A result that is accepted and not merged, as its row tells.
LEMMA Unmerged ==
  ASSUME IInv
  PROVE  \A d \in Discovery :
           /\ d \in Buffered \cup Merging <=>
                status[d] = "succeeded" /\ merge[d] # "merged"
           /\ d \in Buffered <=> merge[d] = "buffered"
           /\ merge[d] # "none" <=> status[d] = "succeeded"
  BY UnmergedResults DEF IInv, MergeMatchesStatus, Buffered, Merging

\* A step of one worker leaves another's claim possible.
LEMMA WorkerKeepsClaimFits ==
  ASSUME IInv, IInv', LoopIInv, ClaimFits, [Next]_vars,
         CoordinatorTypeOK,
         NEW w \in Worker, co.task[w] # "none",
         \A v \in Worker : v # w => co'.task[v] = co.task[v],
         co'.task[w] # "spawned", co'.consumed = co.consumed,
         w \in Discovery =>
           /\ \A r \in Reducer : status'[r] = status[r]
           /\ \A d \in Discovery :
                status[d] = "succeeded" => merge'[d] = merge[d]
  PROVE  ClaimFits'
<1> SUFFICES ASSUME NEW r \in Reducer, co'.task[r] = "spawned"
             PROVE  /\ co'.consumed \subseteq Buffered' \cup Merging'
                    /\ \A d \in co'.consumed, e \in Buffered' \ co'.consumed :
                         seq'[d] < seq'[e]
                    /\ co'.consumed # {}
                    /\ SomeReduced' \/ Cardinality(co'.consumed) >= 2
  BY DEF ClaimFits
<1>1. r \in Worker /\ r # w /\ co.task[r] = "spawned"
  BY DiscoveryIsNoReducer
<1>2. w \in Discovery
  BY <1>1 DEF LoopIInv, ReducerFits, Worker
<1>3. ~LastOfAll
  BY <1>2 DEF LastOfAll
<1>4. /\ co.consumed \subseteq Buffered \cup Merging /\ co.consumed # {}
      /\ \A d \in co.consumed, e \in Buffered \ co.consumed : seq[d] < seq[e]
      /\ SomeReduced \/ Cardinality(co.consumed) >= 2
      /\ co.consumed \subseteq Discovery
  BY <1>1, <1>3 DEF ClaimFits, CoordinatorTypeOK, CoordinatorState
<1>5. \A d \in Discovery : status[d] = "succeeded" => status'[d] = "succeeded"
  BY RowsGoOn, DiscoveryIsNoReducer DEF Final
<1>6. ASSUME NEW d \in co.consumed
      PROVE  d \in Buffered' \cup Merging' /\ seq'[d] = seq[d]
               /\ status[d] = "succeeded"
  <2>1. d \in Discovery /\ status[d] = "succeeded" /\ merge[d] # "merged"
    BY <1>4, Unmerged
  <2>2. status'[d] = "succeeded" /\ merge'[d] # "merged" /\ seq'[d] = seq[d]
    BY <1>2, <1>5, <2>1, SequenceGoesOn
  <2>3. merge' \in [Discovery -> MergeState] /\ merge'[d] # "none"
    BY <2>1, <2>2 DEF IInv, TypeOK, MergeMatchesStatus
  <2> QED
    BY <2>1, <2>2, <2>3 DEF Buffered, Merging, MergeState
<1>7. ASSUME NEW d \in co.consumed, NEW e \in Buffered' \ co.consumed
      PROVE  seq'[d] < seq'[e]
  <2>1. e \in Discovery /\ status'[e] = "succeeded" /\ merge'[e] = "buffered"
        /\ d \in Discovery
    BY <1>4 DEF Buffered
  <2>2. CASE status[e] = "succeeded"
    <3>1. e \in Buffered /\ seq'[e] = seq[e]
      BY <1>2, <2>1, <2>2, SequenceGoesOn DEF Buffered
    <3> QED
      BY <1>4, <1>6, <3>1
  <2>3. CASE status[e] # "succeeded"
    BY <1>6, <2>1, <2>3, SequenceGoesOn
  <2> QED
    BY <2>2, <2>3
<1>8. SomeReduced => SomeReduced'
  BY <1>2 DEF SomeReduced
<1> QED
  BY <1>4, <1>6, <1>7, <1>8

\* The rows stand, and the loop starts nothing.
LEMMA StandingKeepsClaimFits ==
  ASSUME ClaimFits, UNCHANGED <<status, merge, seq, dispatched>>,
         deadline => deadline',
         \A r \in Reducer : co'.task[r] = "spawned" =>
           co.task[r] = "spawned" /\ co'.consumed = co.consumed,
         \A d \in Discovery : co.task[d] = "none" => co'.task[d] = "none",
         co'.mode = "working" =>
           /\ co.mode = "working" /\ (co.dstop => co'.dstop)
           /\ co'.dispatched = co.dispatched
  PROVE  ClaimFits'
<1>1. /\ Buffered' = Buffered /\ Merging' = Merging
      /\ SomeReduced' = SomeReduced /\ (Capped => Capped')
      /\ \A d \in Discovery : Active(d)' = Active(d)
  BY DEF Buffered, Merging, SomeReduced, Capped, Active
<1>2. LastOfAll => LastOfAll'
  BY <1>1 DEF LastOfAll
<1> QED
  BY <1>1, <1>2 DEF ClaimFits

\* A reducer that is being started is to claim what the loop had accepted; what
\* it has not read comes later.
LEMMA FillKeepsClaimFits ==
  ASSUME IInv, PoolIInv, LoopIInv, NothingLost, KnownIInv, Fill,
         ClaimFits, OrderFits, BufferFits, OwnedFits
  PROVE  ClaimFits'
<1>0. PICK new \in SUBSET Discovery, first \in SUBSET Reducer :
        FillEffect(new, first)
  BY FillFields
<1>1. /\ UNCHANGED <<status, merge, seq, dispatched, deadline>>
      /\ Buffered' = Buffered /\ Merging' = Merging /\ SomeReduced' = SomeReduced
      /\ Capped' = Capped /\ \A d \in Discovery : Active(d)' = Active(d)
  BY DEF Fill, vars, rowVars, counterVars, leaseVars, Buffered, Merging,
     SomeReduced, Capped, Active
<1>2. /\ \A w \in Worker : co'.task[w] =
           IF w \in new \cup first THEN "spawned" ELSE co.task[w]
      /\ co.mode = "working" /\ co'.mode = "working" /\ co'.dstop = co.dstop
      /\ co.settlements = <<>>
      /\ co'.dispatched = co.dispatched + Cardinality(new)
  BY <1>0 DEF FillEffect
<1>3. CASE first = {}
  <2>1. co'.consumed = co.consumed
    BY <1>0, <1>3 DEF FillEffect
  <2>2. \A r \in Reducer : co'.task[r] = co.task[r]
    BY <1>2, <1>3, DiscoveryIsNoReducer
  <2>3. LastOfAll => LastOfAll'
    <3> SUFFICES ASSUME LastOfAll PROVE LastOfAll'
      OBVIOUS
    <3>1. ~(co.dispatched < MaxDiscoveryRuns) \/ co.dstop
      <4>1. co.dispatched \in Nat /\ MaxDiscoveryRuns \in Nat
        BY WorkbenchAssumption
           DEF PoolIInv, CoordinatorTypeOK, CoordinatorState
      <4> QED
        BY <1>2, <4>1 DEF LastOfAll
    <3>2. new = {}
      BY <1>0, <3>1 DEF FillEffect
    <3>3. \A d \in Discovery : co'.task[d] = co.task[d]
      BY <1>2, <1>3, <3>2, DiscoveryIsNoReducer
    <3>4. co'.dispatched = co.dispatched
      <4>1. co.dispatched \in Nat /\ Cardinality(new) = 0
        BY <3>2, FS_EmptySet DEF PoolIInv, CoordinatorTypeOK, CoordinatorState
      <4> QED
        BY <1>2, <4>1
    <3> QED
      BY <1>1, <1>2, <3>3, <3>4 DEF LastOfAll
  <2> QED
    BY <1>1, <2>1, <2>2, <2>3 DEF ClaimFits
<1>4. CASE first # {}
  <2>1. /\ Occupied(Reducer) = {} /\ co.buffer # {} /\ co'.consumed = co.buffer
        /\ \/ co.reduced
           \/ Cardinality(co.buffer) >= 2
           \/ /\ Occupied(Discovery) = {} /\ new = {}
              /\ co.dispatched >= MaxDiscoveryRuns \/ co.dstop
    BY <1>0, <1>4 DEF FillEffect
  <2>2. co.consumed = {} /\ AcceptedIsKnown
    BY <2>1 DEF KnownIInv, OneReduction
  <2>3. \A d \in Discovery : co.task[d] # "settled"
    BY <1>2, DiscoveryIsNoReducer DEF LoopIInv, QueueFits
  <2>4. ASSUME NEW d \in co.buffer, NEW e \in Buffered \ co.buffer
        PROVE  seq[d] < seq[e]
    <3>1. e \in Discovery /\ co.task[e] = "replying"
      BY <1>2, <2>2, <2>3 DEF AcceptedIsKnown, Buffered
    <3>2. e \in Awaited
      BY <3>1 DEF Awaited
    <3> QED
      BY <3>2 DEF OrderFits
  <2>5. ASSUME Occupied(Discovery) = {}, new = {},
               co.dispatched >= MaxDiscoveryRuns \/ co.dstop
        PROVE  LastOfAll'
    <3>1. \A d \in Discovery : d \in Worker /\ co.task[d] = "none" /\ d \notin first
      BY <2>5, DiscoveryIsNoReducer DEF Occupied
    <3>2. /\ co.dispatched \in Nat /\ dispatched \in Nat
          /\ co'.dispatched = co.dispatched
          /\ dispatched = co.dispatched
      <4>1. Spawned = {}
        BY <3>1 DEF Spawned
      <4>2. Cardinality(new) = 0 /\ Cardinality(Spawned) = 0
        BY <2>5, <4>1, FS_EmptySet
      <4>3. co.dispatched \in Nat /\ dispatched \in Nat
        BY DEF PoolIInv, CoordinatorTypeOK, CoordinatorState, IInv, TypeOK
      <4> QED
        BY <1>2, <4>2, <4>3 DEF OwnedFits
    <3>3. Capped
      BY <2>5, <3>2 DEF Capped, LoopIInv, QueueFits
    <3>4. \A d \in Discovery : ~Active(d)' /\ co'.task[d] = "none"
      BY <1>1, <1>2, <2>5, <3>1 DEF OwnedFits
    <3> QED
      BY <1>1, <1>2, <2>5, <3>2, <3>3, <3>4 DEF LastOfAll
  <2>6. SomeReduced' \/ Cardinality(co'.consumed) >= 2 \/ LastOfAll'
    BY <1>1, <2>1, <2>5 DEF LoopIInv, ReducerFits
  <2> QED
    BY <1>1, <2>1, <2>4, <2>6 DEF ClaimFits, BufferFits
<1> QED
  BY <1>3, <1>4

-----------------------------------------------------------------------------
\* What the loop knows to be accepted stays so and keeps its number.
LEMMA NumbersStay ==
  ASSUME IInv, IInv', [Next]_vars
  PROVE  \A d \in Discovery : status[d] = "succeeded" =>
           status'[d] = "succeeded" /\ seq'[d] = seq[d]
  BY RowsGoOn, SequenceGoesOn, DiscoveryIsNoReducer DEF Final

\* What is awaited, or in the loop's hands, was accepted.
LEMMA HeldWasAccepted ==
  ASSUME IInv, CoordinatorTypeOK, OrderFits, BufferFits
  PROVE  /\ \A d \in co.buffer \cup co.consumed \cup Awaited :
              d \in Discovery /\ status[d] = "succeeded"
         /\ \A i \in DOMAIN co.settlements : AcceptedAt(i) /\ Fits(co.settlements[i])
              => co.settlements[i].who \in Awaited
<1>1. \A d \in co.buffer \cup co.consumed \cup Awaited :
        d \in Discovery /\ status[d] = "succeeded"
  BY Unmerged DEF OrderFits, BufferFits, Awaited, CoordinatorTypeOK,
     CoordinatorState
<1>2. \A i \in DOMAIN co.settlements : AcceptedAt(i) /\ Fits(co.settlements[i])
        => co.settlements[i].who \in Awaited
  BY DEF AcceptedAt, Fits, Awaited
<1> QED
  BY <1>1, <1>2

\* A worker goes on: a result that it stores is the last of those awaited.
LEMMA GoingOnKeepsOrder ==
  ASSUME IInv, IInv', PoolIInv, LoopIInv, [Next]_vars, OrderFits, BufferFits,
         NEW w \in Worker, NEW t \in {"queued", "running", "saving", "replying"},
         co.task[w] \notin {"none", "settled", "replying"}, At(w, t),
         \A d \in Awaited : merge'[d] = merge[d],
         t = "replying" /\ w \in Discovery =>
           status[w] # "succeeded" /\ merge'[w] = "buffered"
  PROVE  OrderFits'
<1>0. t \in Task /\ CoordinatorTypeOK
  BY DEF Task, PoolIInv
<1>1. /\ \A v \in Worker : co'.task[v] = IF v = w THEN t ELSE co.task[v]
      /\ co'.settlements = co.settlements
      /\ co'.buffer = co.buffer /\ co'.consumed = co.consumed
  BY <1>0, AtFields
<1>2. \A d \in Awaited' : d \in Awaited \/ (d = w /\ t = "replying")
  BY <1>1, DiscoveryIsNoReducer DEF Awaited, AcceptedAt
<1>3. \A d \in co.buffer \cup co.consumed \cup Awaited :
        d \in Discovery /\ status[d] = "succeeded" /\ seq'[d] = seq[d]
  BY <1>0, HeldWasAccepted, NumbersStay
<1>4. ASSUME w \in Discovery, t = "replying"
      PROVE  /\ w \in Buffered'
             /\ \A d \in co.buffer \cup co.consumed \cup Awaited :
                  seq[d] < seq'[w]
  <2>1. merge'[w] = "buffered" /\ status'[w] = "succeeded"
    BY <1>4 DEF IInv, MergeMatchesStatus
  <2> QED
    BY <1>3, <1>4, <2>1, SequenceGoesOn DEF Buffered
<1>5. Awaited' \subseteq Buffered'
  <2> SUFFICES ASSUME NEW d \in Awaited' PROVE d \in Buffered'
    OBVIOUS
  <2>1. CASE d \in Awaited
    <3>1. d \in Discovery /\ merge'[d] = "buffered"
      BY <2>1, Unmerged DEF OrderFits, Awaited
    <3>2. status'[d] = "succeeded"
      BY <1>3, <2>1, NumbersStay
    <3> QED
      BY <3>1, <3>2 DEF Buffered
  <2>2. CASE d \notin Awaited
    BY <1>2, <1>4, <2>2 DEF Awaited
  <2> QED
    BY <2>1, <2>2
<1>6. ASSUME NEW d \in co'.buffer \cup co'.consumed, NEW e \in Awaited'
      PROVE  seq'[d] < seq'[e]
  <2>1. d \in co.buffer \cup co.consumed
    BY <1>1
  <2>2. CASE e \in Awaited
    BY <1>3, <2>1, <2>2 DEF OrderFits
  <2>3. CASE e \notin Awaited
    BY <1>2, <1>3, <1>4, <2>1, <2>3 DEF Awaited
  <2> QED
    BY <2>2, <2>3
<1>7. \A i \in DOMAIN co.settlements : AcceptedAt(i) =>
        co.settlements[i].who \in Awaited
  BY <1>0, HeldWasAccepted DEF PoolIInv, OutcomesFit
<1>8. \A i, j \in DOMAIN co'.settlements :
        i < j /\ AcceptedAt(i)' /\ AcceptedAt(j)' =>
          seq'[co'.settlements[i].who] < seq'[co'.settlements[j].who]
  BY <1>1, <1>3, <1>7 DEF OrderFits, AcceptedAt
<1>9. ASSUME NEW i \in DOMAIN co'.settlements, NEW e \in Discovery,
             AcceptedAt(i)', co'.task[e] = "replying"
      PROVE  seq'[co'.settlements[i].who] < seq'[e]
  <2>1. /\ i \in DOMAIN co.settlements /\ AcceptedAt(i)
        /\ co'.settlements[i] = co.settlements[i]
        /\ co.settlements[i].who \in Awaited
        /\ e \in Worker
    BY <1>1, <1>7, <1>9, DiscoveryIsNoReducer DEF AcceptedAt
  <2>2. CASE e = w
    BY <1>1, <1>3, <1>4, <1>9, <2>1, <2>2
  <2>3. CASE e # w
    <3>1. co.task[e] = "replying" /\ e \in Awaited
      BY <1>1, <1>9, <2>1, <2>3 DEF Awaited
    <3> QED
      BY <1>3, <2>1, <3>1 DEF OrderFits
  <2> QED
    BY <2>2, <2>3
<1> QED
  BY <1>5, <1>6, <1>8, <1>9 DEF OrderFits

\* A worker ends: a result that was stored takes its place in the queue.
LEMMA ReportKeepsOrder ==
  ASSUME IInv, IInv', PoolIInv, LoopIInv, [Next]_vars, OrderFits, BufferFits,
         NEW w \in Worker, NEW what, [who |-> w, what |-> what] \in Outcome,
         co.task[w] \notin {"none", "settled"}, Report(w, what),
         co.mode = "working",
         \A d \in Awaited : merge'[d] = merge[d],
         what = "accepted" => w \in Discovery /\ co.task[w] = "replying"
  PROVE  OrderFits'
<1>0. CoordinatorTypeOK /\ QueueFits
  BY DEF PoolIInv, LoopIInv
<1>1. /\ co'.settlements = Append(co.settlements, [who |-> w, what |-> what])
      /\ \A v \in Worker : co'.task[v] = IF v = w THEN "settled" ELSE co.task[v]
      /\ co'.buffer = co.buffer /\ co'.consumed = co.consumed
  BY <1>0, ReportFields
<1>2. PICK n \in Nat :
        /\ DOMAIN co.settlements = 1..(n - 1)
        /\ DOMAIN co'.settlements = 1..n
        /\ \A i \in 1..(n - 1) : co'.settlements[i] = co.settlements[i]
        /\ co'.settlements[n] = [who |-> w, what |-> what]
  BY <1>0, <1>1, QueueLonger
<1>3. \A i \in 1..n : i = n \/ (i \in 1..(n - 1) /\ i < n)
  BY <1>2
<1>4. \A d \in co.buffer \cup co.consumed \cup Awaited :
        /\ d \in Discovery /\ status[d] = "succeeded" /\ seq'[d] = seq[d]
        /\ status'[d] = "succeeded"
  BY <1>0, HeldWasAccepted, NumbersStay
<1>5. \A i \in DOMAIN co.settlements : AcceptedAt(i) =>
        co.settlements[i].who \in Awaited
  BY <1>0, HeldWasAccepted DEF PoolIInv, OutcomesFit
<1>6. what = "accepted" => w \in Awaited
  BY DEF Awaited
<1>7. \A i \in 1..n : AcceptedAt(i)' =>
        \/ i = n /\ what = "accepted" /\ co'.settlements[i].who = w
        \/ /\ i \in DOMAIN co.settlements /\ i < n /\ AcceptedAt(i)
           /\ co'.settlements[i].who = co.settlements[i].who
  BY <1>2, <1>3 DEF AcceptedAt
<1>8. Awaited' \subseteq Awaited
  <2> SUFFICES ASSUME NEW d \in Awaited' PROVE d \in Awaited
    OBVIOUS
  <2>1. CASE co'.task[d] = "replying"
    BY <1>1, <2>1, DiscoveryIsNoReducer DEF Awaited
  <2>2. CASE \E i \in DOMAIN co'.settlements :
               AcceptedAt(i)' /\ co'.settlements[i].who = d
    BY <1>2, <1>5, <1>6, <1>7, <2>2
  <2> QED
    BY <2>1, <2>2 DEF Awaited
<1>9. Awaited' \subseteq Buffered'
  <2> SUFFICES ASSUME NEW d \in Awaited' PROVE d \in Buffered'
    OBVIOUS
  <2>1. d \in Discovery /\ merge'[d] = "buffered" /\ status'[d] = "succeeded"
    BY <1>4, <1>8, Unmerged DEF OrderFits
  <2> QED
    BY <2>1 DEF Buffered
<1>10. \A d \in co'.buffer \cup co'.consumed, e \in Awaited' : seq'[d] < seq'[e]
  BY <1>1, <1>4, <1>8 DEF OrderFits
<1>11. ASSUME NEW i \in DOMAIN co'.settlements, NEW j \in DOMAIN co'.settlements,
              i < j, AcceptedAt(i)', AcceptedAt(j)'
       PROVE  seq'[co'.settlements[i].who] < seq'[co'.settlements[j].who]
  <2>1. i \in 1..n /\ j \in 1..n /\ i # n
    BY <1>2, <1>11
  <2>2. /\ i \in DOMAIN co.settlements /\ AcceptedAt(i)
        /\ co'.settlements[i].who = co.settlements[i].who
        /\ co.settlements[i].who \in Awaited
    BY <1>5, <1>7, <1>11, <2>1
  <2>3. CASE j = n
    <3>1. co'.settlements[j].who = w /\ w \in Discovery /\ co.task[w] = "replying"
      BY <1>2, <1>7, <1>11, <2>1, <2>3
    <3> QED
      BY <1>4, <1>6, <1>7, <1>11, <2>1, <2>2, <2>3, <3>1 DEF OrderFits, Awaited
  <2>4. CASE j # n
    BY <1>4, <1>5, <1>7, <1>11, <2>1, <2>2, <2>4 DEF OrderFits
  <2> QED
    BY <2>3, <2>4
<1>12. ASSUME NEW i \in DOMAIN co'.settlements, NEW e \in Discovery,
              AcceptedAt(i)', co'.task[e] = "replying"
       PROVE  seq'[co'.settlements[i].who] < seq'[e]
  <2>1. e \in Worker /\ e # w /\ co.task[e] = "replying" /\ e \in Awaited
    BY <1>1, <1>12, DiscoveryIsNoReducer DEF Awaited
  <2>2. i \in 1..n /\ i # n
    BY <1>2, <1>7, <1>12, <2>1 DEF LoopIInv, QueueFits
  <2> QED
    BY <1>4, <1>5, <1>7, <1>12, <2>1, <2>2 DEF OrderFits
<1> QED
  BY <1>9, <1>10, <1>11, <1>12 DEF OrderFits

\* The loop reads the first outcome: what was accepted first it holds first.
LEMMA ReadingKeepsOrder ==
  ASSUME IInv, PoolIInv, LoopIInv, OrderFits, BufferFits, ReadOutcome,
         co'.mode = "working"
  PROVE  OrderFits'
<1>0. PICK o : o = Head(co.settlements)
  OBVIOUS
<1>1. /\ CoordinatorTypeOK /\ QueueFits /\ co.task \in [Worker -> Task]
      /\ co.mode = "working" /\ co.settlements # <<>>
      /\ UNCHANGED <<status, merge, seq>>
  BY DEF PoolIInv, LoopIInv, CoordinatorTypeOK, CoordinatorState, ReadOutcome,
     vars, rowVars
<1>2. co' # Stopping("failing", "error")
  <2>1. "failing" \in Mode \ {"working"} /\ "error" \in Abort
    BY DEF Mode, Abort
  <2> QED
    BY <1>1, <2>1, StoppingEndsWork
<1>3. /\ co'.settlements = Tail(co.settlements)
      /\ co'.task = [co.task EXCEPT ![o.who] = "none"]
      /\ o = co.settlements[1] /\ Fits(o)
      /\ co'.buffer \cup co'.consumed
           \subseteq co.buffer \cup co.consumed
                     \cup (IF o.what = "accepted" THEN {o.who} ELSE {})
  BY <1>0, <1>2, ReadFields
<1>4. \A v \in Worker : co'.task[v] = IF v = o.who THEN "none" ELSE co.task[v]
  BY <1>1, <1>3
<1>5. PICK n \in Nat :
        /\ DOMAIN co.settlements = 1..n /\ 1 \in 1..n
        /\ DOMAIN co'.settlements = 1..(n - 1)
        /\ \A i \in 1..(n - 1) :
             i + 1 \in 1..n /\ co'.settlements[i] = co.settlements[i + 1]
  BY <1>0, <1>1, <1>3, <1>4, QueueShorter
<1>6. \A i \in 1..(n - 1) :
        /\ i + 1 \in DOMAIN co.settlements /\ 1 < i + 1
        /\ co'.settlements[i] = co.settlements[i + 1]
        /\ AcceptedAt(i)' <=> AcceptedAt(i + 1)
  <2> SUFFICES ASSUME NEW i \in 1..(n - 1)
               PROVE  /\ i + 1 \in DOMAIN co.settlements /\ 1 < i + 1
                      /\ co'.settlements[i] = co.settlements[i + 1]
                      /\ AcceptedAt(i)' <=> AcceptedAt(i + 1)
    OBVIOUS
  <2>1. /\ i + 1 \in DOMAIN co.settlements /\ 1 < i + 1
        /\ co'.settlements[i] = co.settlements[i + 1]
    BY <1>5
  <2>2. AcceptedAt(i)' <=> AcceptedAt(i + 1)
    BY <2>1, Zenon DEF AcceptedAt
  <2> QED
    BY <2>1, <2>2
<1>7. \A d \in Discovery : co'.task[d] = "replying" => co.task[d] = "replying"
  BY <1>4, DiscoveryIsNoReducer
<1>8. Awaited' \subseteq Awaited
  BY <1>5, <1>6, <1>7 DEF Awaited
<1>9. Awaited' \subseteq Buffered'
  BY <1>1, <1>8 DEF OrderFits, Buffered
<1>10. ASSUME NEW e \in Awaited', o.what = "accepted"
       PROVE  seq[o.who] < seq[e]
  <2>1. 1 \in DOMAIN co.settlements /\ AcceptedAt(1) /\ e \in Discovery
    BY <1>3, <1>5, <1>10 DEF AcceptedAt, Awaited
  <2>2. CASE co'.task[e] = "replying"
    BY <1>3, <1>7, <2>1, <2>2 DEF OrderFits
  <2>3. CASE \E i \in DOMAIN co'.settlements :
               AcceptedAt(i)' /\ co'.settlements[i].who = e
    <3>1. PICK i \in 1..(n - 1) :
            AcceptedAt(i)' /\ co'.settlements[i].who = e
      BY <1>5, <2>3
    <3>2. /\ i + 1 \in DOMAIN co.settlements /\ 1 < i + 1 /\ AcceptedAt(i + 1)
          /\ co.settlements[i + 1].who = e
      BY <1>6, <3>1
    <3> QED
      BY <1>3, <2>1, <3>2 DEF OrderFits
  <2> QED
    BY <2>2, <2>3 DEF Awaited
<1>11. \A d \in co'.buffer \cup co'.consumed, e \in Awaited' : seq'[d] < seq'[e]
  BY <1>1, <1>3, <1>8, <1>10 DEF OrderFits
<1>12. ASSUME NEW i \in DOMAIN co'.settlements, NEW j \in DOMAIN co'.settlements,
              i < j, AcceptedAt(i)', AcceptedAt(j)'
       PROVE  seq'[co'.settlements[i].who] < seq'[co'.settlements[j].who]
  <2>1. i \in 1..(n - 1) /\ j \in 1..(n - 1) /\ i + 1 < j + 1
    BY <1>5, <1>12
  <2> QED
    BY <1>1, <1>6, <1>12, <2>1 DEF OrderFits
<1>13. ASSUME NEW i \in DOMAIN co'.settlements, NEW e \in Discovery,
              AcceptedAt(i)', co'.task[e] = "replying"
       PROVE  seq'[co'.settlements[i].who] < seq'[e]
  <2>1. i \in 1..(n - 1)
    BY <1>5
  <2> QED
    BY <1>1, <1>6, <1>7, <1>13, <2>1 DEF OrderFits
<1> QED
  BY <1>9, <1>11, <1>12, <1>13 DEF OrderFits

\* Neither the rows nor what is awaited change.
LEMMA StandingKeepsOrder ==
  ASSUME OrderFits, UNCHANGED <<status, merge, seq>>,
         co'.settlements = co.settlements,
         \A d \in Discovery : co'.task[d] = "replying" => co.task[d] = "replying",
         co'.buffer \cup co'.consumed \subseteq co.buffer \cup co.consumed
  PROVE  OrderFits'
<1>1. Awaited' \subseteq Awaited /\ Buffered' = Buffered
  BY DEF Awaited, AcceptedAt, Buffered
<1>2. \A i : AcceptedAt(i)' <=> AcceptedAt(i)
  BY DEF AcceptedAt
<1> QED
  BY <1>1, <1>2 DEF OrderFits

\* The rows move under a loop that does not see it.
LEMMA RowsMoveKeepsOrder ==
  ASSUME IInv, IInv', PoolIInv, OrderFits, BufferFits, [Next]_vars, UNCHANGED co,
         \A d \in Awaited : merge'[d] = merge[d]
  PROVE  OrderFits'
<1>1. Awaited' = Awaited /\ \A i : AcceptedAt(i)' <=> AcceptedAt(i)
  BY DEF Awaited, AcceptedAt
<1>2. /\ \A d \in co.buffer \cup co.consumed \cup Awaited :
           /\ d \in Discovery /\ status[d] = "succeeded" /\ seq'[d] = seq[d]
           /\ status'[d] = "succeeded"
      /\ \A i \in DOMAIN co.settlements : AcceptedAt(i) =>
           co.settlements[i].who \in Awaited
  BY HeldWasAccepted, NumbersStay DEF PoolIInv, OutcomesFit
<1>3. Awaited' \subseteq Buffered'
  BY <1>1, <1>2, Unmerged DEF OrderFits, Buffered
<1>4. \A e \in Discovery : co.task[e] = "replying" => e \in Awaited
  BY DEF Awaited
<1> QED
  BY <1>1, <1>2, <1>3, <1>4 DEF OrderFits

-----------------------------------------------------------------------------
\* What the loop holds is not folded in by a step.
LEMMA HeldStaysUnmerged ==
  ASSUME IInv, IInv', [Next]_vars, NEW S \in SUBSET (Buffered \cup Merging),
         \A d \in S : merge'[d] # "merged"
  PROVE  S \subseteq Buffered' \cup Merging'
<1> SUFFICES ASSUME NEW d \in S PROVE d \in Buffered' \cup Merging'
  OBVIOUS
<1>1. d \in Discovery /\ status'[d] = "succeeded"
  BY Unmerged, NumbersStay DEF Buffered, Merging
<1>2. merge'[d] \in {"buffered", "merging"}
  BY <1>1 DEF IInv, TypeOK, MergeState, MergeMatchesStatus
<1> QED
  BY <1>1, <1>2 DEF Buffered, Merging

\* A worker that does not fold anything in leaves what the loop holds.
LEMMA WorkerKeepsBuffer ==
  ASSUME IInv, IInv', PoolIInv, LoopIInv, [Next]_vars, BufferFits,
         co.mode = "working", NEW w \in Worker,
         co.task[w] \notin {"none", "settled"},
         \/ /\ \E t \in {"queued", "running", "saving", "replying"} : At(w, t)
            /\ co.task[w] # "replying"
         \/ \E what : /\ [who |-> w, what |-> what] \in Outcome
                      /\ Report(w, what)
                      /\ what = "redfailed" =>
                           w \in Reducer /\ co.task[w] # "replying",
         \A d \in Buffered \cup Merging : merge'[d] # "merged"
  PROVE  BufferFits'
<1>0. /\ CoordinatorTypeOK /\ QueueFits
      /\ {"queued", "running", "saving", "replying"} \subseteq Task
      /\ co.task \in [Worker -> Task]
  BY DEF PoolIInv, CoordinatorTypeOK, CoordinatorState, LoopIInv, Task
<1>1. co'.buffer = co.buffer /\ co'.consumed = co.consumed
  BY <1>0, AtFields, ReportFields
<1>2. MayReturn' => MayReturn
  <2>1. ASSUME NEW t \in {"queued", "running", "saving", "replying"}, At(w, t),
               co.task[w] # "replying"
        PROVE  MayReturn' => MayReturn
    <3>1. /\ \A v \in Worker : co'.task[v] = IF v = w THEN t ELSE co.task[v]
          /\ co'.settlements = co.settlements
      BY <1>0, <2>1, AtFields
    <3>2. \A r \in Reducer : AtWork(r)' => AtWork(r)
      BY <1>0, <2>1, <3>1, DiscoveryIsNoReducer DEF AtWork, Task
    <3> QED
      BY <3>1, <3>2 DEF MayReturn
  <2>2. ASSUME NEW what, [who |-> w, what |-> what] \in Outcome, Report(w, what),
               what = "redfailed" => w \in Reducer /\ co.task[w] # "replying"
        PROVE  MayReturn' => MayReturn
    <3>1. /\ co'.settlements = Append(co.settlements, [who |-> w, what |-> what])
          /\ \A v \in Worker :
               co'.task[v] = IF v = w THEN "settled" ELSE co.task[v]
      BY <1>0, <2>2, ReportFields
    <3>2. PICK n \in Nat :
            /\ DOMAIN co.settlements = 1..(n - 1)
            /\ DOMAIN co'.settlements = 1..n
            /\ \A i \in 1..(n - 1) : co'.settlements[i] = co.settlements[i]
            /\ co'.settlements[n] = [who |-> w, what |-> what]
      BY <1>0, <3>1, QueueLonger
    <3>3. \A r \in Reducer : AtWork(r)' => AtWork(r)
      BY <3>1, DiscoveryIsNoReducer DEF AtWork
    <3>4. what = "redfailed" => w \in Reducer /\ AtWork(w)
      BY <1>0, <2>2 DEF AtWork, Task
    <3>5. ASSUME NEW i \in 1..n, co'.settlements[i].what = "redfailed"
          PROVE  MayReturn
      <4>1. CASE i = n
        BY <3>2, <3>4, <3>5, <4>1 DEF MayReturn
      <4>2. CASE i # n
        <5>1. i \in 1..(n - 1)
          BY <3>2, <4>2
        <5> QED
          BY <3>2, <3>5, <5>1 DEF MayReturn
      <4> QED
        BY <4>1, <4>2
    <3> QED
      BY <3>2, <3>3, <3>5 DEF MayReturn
  <2> QED
    BY <2>1, <2>2
<1>3. /\ co.buffer \subseteq Buffered' \cup Merging'
      /\ MayReturn => co.consumed \subseteq Buffered' \cup Merging'
  BY HeldStaysUnmerged DEF BufferFits
<1>4. \A d \in co.consumed : status'[d] = "succeeded"
  BY <1>0, NumbersStay DEF BufferFits, CoordinatorTypeOK, CoordinatorState
<1> QED
  BY <1>1, <1>2, <1>3, <1>4 DEF BufferFits

\* The reducer's claim is folded in, and the loop holds nothing of it.
LEMMA CommitKeepsBuffer ==
  ASSUME IInv, IInv', PoolIInv, LoopIInv, [Next]_vars, BufferFits,
         NothingLost, KnownIInv, NEW r \in Reducer, NEW new \in {0, 1},
         StoreReduction(r, new)
  PROVE  BufferFits'
<1>0. /\ CoordinatorTypeOK /\ "replying" \in Task /\ r \in Worker
      /\ co.task[r] = "saving" /\ At(r, "replying") /\ OneReduction
      /\ \A d \in Discovery :
           merge'[d] = IF d \in inputs[r] THEN "merged" ELSE merge[d]
  BY DiscoveryIsNoReducer DEF PoolIInv, Task, StoreReduction, CommitDedup, KnownIInv
<1>1. /\ co'.buffer = co.buffer /\ co'.consumed = co.consumed
      /\ co'.settlements = co.settlements
      /\ \A v \in Worker : co'.task[v] = IF v = r THEN "replying" ELSE co.task[v]
  BY <1>0, AtFields
<1>2. inputs[r] = co.consumed
  BY <1>0 DEF OneReduction
<1>3. ~MayReturn'
  <2>1. \A q \in Reducer : ~AtWork(q)'
    BY <1>0, <1>1, DiscoveryIsNoReducer DEF AtWork, OneReduction
  <2>2. \A i \in DOMAIN co.settlements : co.settlements[i].what # "redfailed"
    BY <1>0 DEF OneReduction, PoolIInv, OutcomesFit, Fits
  <2> QED
    BY <1>1, <2>1, <2>2 DEF MayReturn
<1>4. co.buffer \subseteq Buffered' \cup Merging'
  <2>1. \A d \in co.buffer : merge'[d] # "merged"
    BY <1>0, <1>2, Unmerged DEF BufferFits, CoordinatorTypeOK, CoordinatorState
  <2> QED
    BY <2>1, HeldStaysUnmerged DEF BufferFits
<1>5. \A d \in co.consumed : status'[d] = "succeeded"
  BY <1>0, NumbersStay DEF BufferFits, CoordinatorTypeOK, CoordinatorState
<1> QED
  BY <1>1, <1>3, <1>4, <1>5 DEF BufferFits

\* What the loop reads it holds, or gives up.
LEMMA ReadingKeepsBuffer ==
  ASSUME IInv, PoolIInv, LoopIInv, OrderFits, BufferFits, ReadOutcome,
         co'.mode = "working"
  PROVE  BufferFits'
<1>0. PICK o : o = Head(co.settlements)
  OBVIOUS
<1>1. /\ CoordinatorTypeOK /\ QueueFits /\ co.task \in [Worker -> Task]
      /\ co.mode = "working" /\ co.settlements # <<>>
      /\ status' = status /\ Buffered' = Buffered /\ Merging' = Merging
  BY DEF PoolIInv, LoopIInv, CoordinatorTypeOK, CoordinatorState, ReadOutcome,
     vars, rowVars, Buffered, Merging
<1>2. co' # Stopping("failing", "error")
  <2>1. "failing" \in Mode \ {"working"} /\ "error" \in Abort
    BY DEF Mode, Abort
  <2> QED
    BY <1>1, <2>1, StoppingEndsWork
<1>3. /\ co'.settlements = Tail(co.settlements)
      /\ co'.task = [co.task EXCEPT ![o.who] = "none"]
      /\ o = co.settlements[1] /\ Fits(o)
      /\ \/ /\ o.what = "accepted" /\ co'.buffer = co.buffer \cup {o.who}
            /\ co'.consumed = co.consumed
         \/ co'.buffer = co.buffer /\ co'.consumed = co.consumed
         \/ co'.buffer = co.buffer /\ co'.consumed = {}
         \/ /\ o.what = "redfailed" /\ co'.buffer = co.buffer \cup co.consumed
            /\ co'.consumed = {}
  BY <1>0, <1>2, ReadFields
<1>4. \A v \in Worker : co'.task[v] = IF v = o.who THEN "none" ELSE co.task[v]
  BY <1>1, <1>3
<1>5. PICK n \in Nat :
        /\ DOMAIN co.settlements = 1..n /\ 1 \in 1..n
        /\ DOMAIN co'.settlements = 1..(n - 1)
        /\ \A i \in 1..(n - 1) :
             i + 1 \in 1..n /\ co'.settlements[i] = co.settlements[i + 1]
  BY <1>0, <1>1, <1>3, <1>4, QueueShorter
<1>6. MayReturn' => MayReturn
  <2>1. \A r \in Reducer : AtWork(r)' => AtWork(r)
    BY <1>4, DiscoveryIsNoReducer DEF AtWork
  <2> QED
    BY <1>5, <2>1 DEF MayReturn
<1>7. o.what = "redfailed" => MayReturn
  BY <1>3, <1>5 DEF MayReturn
<1>8. o.what = "accepted" => o.who \in Buffered \ co.consumed
  <2> SUFFICES ASSUME o.what = "accepted" PROVE o.who \in Buffered \ co.consumed
    OBVIOUS
  <2>1. o.who \in Awaited
    BY <1>3, <1>5 DEF Awaited, AcceptedAt, Fits
  <2>2. seq[o.who] \in Nat
    BY <1>3 DEF IInv, TypeOK, Fits
  <2> QED
    BY <2>1, <2>2 DEF OrderFits
<1> QED
  BY <1>1, <1>3, <1>6, <1>7, <1>8 DEF BufferFits

\* The buffer goes to a reducer as a whole.
LEMMA FillKeepsBuffer ==
  ASSUME IInv, PoolIInv, LoopIInv, BufferFits, Fill
  PROVE  BufferFits'
<1>0. PICK new \in SUBSET Discovery, first \in SUBSET Reducer :
        FillEffect(new, first)
  BY FillFields
<1>1. /\ Buffered' = Buffered /\ Merging' = Merging /\ status' = status
      /\ \A d \in Buffered \cup Merging : status[d] = "succeeded"
  BY Unmerged DEF Fill, vars, rowVars, Buffered, Merging
<1>2. /\ \A w \in Worker : co'.task[w] =
           IF w \in new \cup first THEN "spawned" ELSE co.task[w]
      /\ co'.consumed = (IF first = {} THEN co.consumed ELSE co.buffer)
      /\ co'.buffer = (IF first = {} THEN co.buffer ELSE {})
      /\ DOMAIN co'.settlements = {}
  BY <1>0 DEF FillEffect
<1>3. first = {} /\ MayReturn' => MayReturn
  BY <1>2, DiscoveryIsNoReducer DEF MayReturn, AtWork
<1> QED
  BY <1>1, <1>2, <1>3 DEF BufferFits

-----------------------------------------------------------------------------
\* Nothing is started, and what ends has ended in the rows.
LEMMA OwnedKept ==
  ASSUME OwnedFits, dispatched' = dispatched, co'.dispatched = co.dispatched,
         \A d \in Discovery :
           /\ co'.task[d] = "spawned" <=> co.task[d] = "spawned"
           /\ Active(d)' => Active(d)
           /\ co'.task[d] = "none" => co.task[d] = "none" \/ ~Active(d)'
  PROVE  OwnedFits'
<1>1. Spawned' = Spawned
  BY DEF Spawned
<1> QED
  BY <1>1 DEF OwnedFits

\* The rows count the dispatch the loop had counted.
LEMMA InsertKeepsOwned ==
  ASSUME IInv, CoordinatorTypeOK, OwnedFits, NEW d \in Discovery,
         InsertDiscovery(d)
  PROVE  OwnedFits'
<1>0. /\ d \in Worker /\ "queued" \in Task /\ co.task[d] = "spawned"
      /\ At(d, "queued") /\ dispatched' = dispatched + 1
      /\ status' = [status EXCEPT ![d] = "queued"]
      /\ status \in [Worker -> WorkerStatus]
      /\ dispatched \in Nat /\ co.dispatched \in Nat
  BY DiscoveryIsNoReducer
     DEF Task, InsertDiscovery, NewDiscovery, IInv, TypeOK, CoordinatorTypeOK,
         CoordinatorState
<1>1. /\ \A v \in Worker : co'.task[v] = IF v = d THEN "queued" ELSE co.task[v]
      /\ co'.dispatched = co.dispatched
  BY <1>0, AtFields
<1>2. /\ Spawned = Spawned' \cup {d} /\ d \notin Spawned'
      /\ Spawned' \subseteq Discovery
  BY <1>0, <1>1, DiscoveryIsNoReducer DEF Spawned
<1>3. /\ Cardinality(Spawned) = Cardinality(Spawned') + 1
      /\ Cardinality(Spawned') \in Nat
  BY <1>2, CountOneMore, DiscoverySetsFinite
<1>4. \A e \in Discovery : Active(e)' => co'.task[e] # "none"
  BY <1>0, <1>1, DiscoveryIsNoReducer DEF OwnedFits, Active
<1> QED
  BY <1>0, <1>1, <1>3, <1>4 DEF OwnedFits

\* The loop counts what it starts.
LEMMA FillKeepsOwned ==
  ASSUME IInv, PoolIInv, LoopIInv, OwnedFits, Fill
  PROVE  OwnedFits'
<1>0. PICK new \in SUBSET Discovery, first \in SUBSET Reducer :
        FillEffect(new, first)
  BY FillFields
<1>1. /\ \A w \in new \cup first : co.task[w] = "none"
      /\ Cardinality(new) \in Nat
      /\ \A w \in Worker : co'.task[w] =
           IF w \in new \cup first THEN "spawned" ELSE co.task[w]
      /\ co'.dispatched = co.dispatched + Cardinality(new)
  BY <1>0 DEF FillEffect
<1>2. /\ dispatched' = dispatched /\ \A d \in Discovery : Active(d)' = Active(d)
      /\ dispatched \in Nat /\ co.dispatched \in Nat
  BY DEF Fill, vars, counterVars, rowVars, Active, IInv, TypeOK, PoolIInv,
     CoordinatorTypeOK, CoordinatorState
<1>3. Spawned' = Spawned \cup new /\ Spawned \cap new = {}
      /\ Spawned \subseteq Discovery
  BY <1>1, DiscoveryIsNoReducer DEF Spawned
<1>4. /\ Cardinality(Spawned') = Cardinality(Spawned) + Cardinality(new)
      /\ Cardinality(Spawned) \in Nat
  BY <1>3, CountDisjoint, DiscoverySetsFinite
<1>5. \A d \in Discovery : Active(d)' => co'.task[d] # "none"
  BY <1>1, <1>2, DiscoveryIsNoReducer DEF OwnedFits
<1> QED
  BY <1>1, <1>2, <1>4, <1>5 DEF OwnedFits

\* An outcome that lets the loop go on is that of a row that is over.
LEMMA ReadingKeepsOwned ==
  ASSUME IInv, PoolIInv, LoopIInv, NothingLost, KnownIInv, OwnedFits,
         ReadOutcome, co'.mode = "working"
  PROVE  OwnedFits'
<1>0. PICK o : o = Head(co.settlements)
  OBVIOUS
<1>1. /\ CoordinatorTypeOK /\ QueueFits /\ co.task \in [Worker -> Task]
      /\ co.settlements # <<>> /\ co.settlements \in Seq(Outcome)
      /\ co.mode = "working"
      /\ dispatched' = dispatched /\ \A d \in Discovery : Active(d)' = Active(d)
  BY DEF PoolIInv, LoopIInv, CoordinatorTypeOK, CoordinatorState, ReadOutcome,
     vars, rowVars, counterVars, Active
<1>2. co' # Stopping("failing", "error")
  <2>1. "failing" \in Mode \ {"working"} /\ "error" \in Abort
    BY DEF Mode, Abort
  <2> QED
    BY <1>1, <2>1, StoppingEndsWork
<1>3. /\ co'.task = [co.task EXCEPT ![o.who] = "none"]
      /\ o = co.settlements[1] /\ Fits(o)
      /\ co'.dispatched = co.dispatched
      /\ o.what \in {"accepted", "replaced", "canceled", "reduced", "redfailed"}
  BY <1>0, <1>2, ReadFields
<1>4. 1 \in DOMAIN co.settlements
  BY <1>1, LenProperties, EmptySeq
<1>5. /\ co.task[o.who] = "settled"
      /\ o.what = "canceled" => status[o.who] = "canceled"
  BY <1>1, <1>3, <1>4 DEF QueueFits, KnownIInv, NoResultIsDropped
<1>6. o.who \in Discovery => ~Active(o.who)
  BY <1>3, <1>5, DiscoveryIsNoReducer DEF Fits, Final, Active
<1>7. \A d \in Discovery : co'.task[d] = IF d = o.who THEN "none" ELSE co.task[d]
  BY <1>1, <1>3, DiscoveryIsNoReducer
<1> QED
  BY <1>1, <1>3, <1>5, <1>6, <1>7, OwnedKept

-----------------------------------------------------------------------------
\* A worker goes on.
LEMMA GoingOnKeepsClaim ==
  ASSUME IInv, IInv', PoolIInv, LoopIInv, [Next]_vars, ClaimFits, LoopFits,
         NEW w \in Worker, NEW t \in {"queued", "running", "saving", "replying"},
         co.task[w] \notin {"none", "settled", "replying"}, At(w, t),
         w \in Discovery =>
           /\ \A r \in Reducer : status'[r] = status[r]
           /\ \A d \in Discovery :
                status[d] = "succeeded" => merge'[d] = merge[d],
         t = "replying" /\ w \in Discovery =>
           status[w] # "succeeded" /\ merge'[w] = "buffered",
         co.mode = "working" =>
           BufferFits' /\ OwnedFits' /\ \A d \in Awaited : merge'[d] = merge[d]
  PROVE  ClaimFits' /\ LoopFits'
<1>0. CoordinatorTypeOK /\ t \in Task
  BY DEF PoolIInv, Task
<1>1. /\ \A v \in Worker : co'.task[v] = IF v = w THEN t ELSE co.task[v]
      /\ co'.mode = co.mode /\ co'.consumed = co.consumed
  BY <1>0, AtFields
<1>2. ClaimFits'
  BY <1>0, <1>1, WorkerKeepsClaimFits
<1>3. co.mode = "working" => OrderFits'
  BY GoingOnKeepsOrder DEF LoopFits
<1> QED
  BY <1>1, <1>2, <1>3 DEF LoopFits

\* A worker ends.
LEMMA ReportKeepsClaim ==
  ASSUME IInv, IInv', PoolIInv, LoopIInv, [Next]_vars, ClaimFits, LoopFits,
         NEW w \in Worker, NEW what, [who |-> w, what |-> what] \in Outcome,
         co.task[w] \notin {"none", "settled"}, Report(w, what),
         co.task[w] # "spawned" \/ w \in Reducer,
         dispatched' = dispatched, \A d \in Discovery : Active(d)' => Active(d),
         \A d \in Buffered : merge'[d] = merge[d],
         \A d \in Buffered \cup Merging : merge'[d] # "merged",
         w \in Discovery =>
           /\ \A r \in Reducer : status'[r] = status[r]
           /\ \A d \in Discovery :
                status[d] = "succeeded" => merge'[d] = merge[d],
         what = "accepted" => w \in Discovery /\ co.task[w] = "replying",
         what = "redfailed" => w \in Reducer /\ co.task[w] # "replying"
  PROVE  ClaimFits' /\ LoopFits'
<1>0. CoordinatorTypeOK
  BY DEF PoolIInv
<1>1. /\ co'.mode = co.mode /\ co'.consumed = co.consumed
      /\ co'.dispatched = co.dispatched
      /\ \/ /\ co.mode = "working"
            /\ \A v \in Worker :
                 co'.task[v] = IF v = w THEN "settled" ELSE co.task[v]
         \/ /\ co.mode # "working"
            /\ \A v \in Worker : v # w => co'.task[v] = co.task[v]
            /\ co'.task[w] \in {"none", "settled"}
  BY <1>0, ReportFields
<1>2. ClaimFits'
  BY <1>0, <1>1, WorkerKeepsClaimFits
<1>3. CASE co.mode = "working"
  <2>1. OrderFits /\ BufferFits /\ OwnedFits
    BY <1>3 DEF LoopFits
  <2>2. OrderFits'
    BY <1>3, <2>1, ReportKeepsOrder DEF OrderFits
  <2>3. BufferFits'
    BY <1>3, <2>1, WorkerKeepsBuffer
  <2>4. OwnedFits'
    BY <1>1, <1>3, <2>1, OwnedKept, DiscoveryIsNoReducer
  <2> QED
    BY <1>2, <2>2, <2>3, <2>4 DEF LoopFits
<1> QED
  BY <1>1, <1>2, <1>3 DEF LoopFits

\* The commands of a discovery worker, and the reducer's claim and commit.
LEMMA StoringKeepsClaim ==
  ASSUME IInv, IInv', PoolIInv, LoopIInv, KnownIInv, [Next]_vars, Calm,
         ClaimFits, LoopFits, NEW w \in Worker,
         \/ w \in Discovery /\ (InsertDiscovery(w) \/ StoreDiscovery(w))
         \/ w \in Reducer /\ InsertReducer(w)
         \/ w \in Reducer /\ \E new \in {0, 1} : StoreReduction(w, new)
  PROVE  ClaimFits' /\ LoopFits'
<1>0. /\ CoordinatorTypeOK /\ status \in [Worker -> WorkerStatus]
      /\ merge \in [Discovery -> MergeState] /\ seq \in [Discovery -> Nat]
      /\ \A d \in Buffered : d \in Discovery /\ merge[d] = "buffered"
      /\ \A d \in Buffered \cup Merging :
           d \in Discovery /\ status[d] = "succeeded" /\ merge[d] # "merged"
      /\ co.mode = "working" =>
           /\ OrderFits /\ BufferFits /\ OwnedFits /\ NothingLost
           /\ Awaited \subseteq Buffered
  BY Unmerged DEF PoolIInv, IInv, TypeOK, Buffered, Merging, LoopFits, OrderFits,
     NothingLost, Calm
<1>1. CASE w \in Discovery /\ InsertDiscovery(w)
  <2>1. /\ co.task[w] = "spawned" /\ At(w, "queued")
        /\ merge' = merge /\ status' = [status EXCEPT ![w] = "queued"]
    BY <1>1 DEF InsertDiscovery, NewDiscovery
  <2>2. \A r \in Reducer : status'[r] = status[r]
    BY <1>0, <1>1, <2>1, DiscoveryIsNoReducer
  <2>3. co.mode = "working" => BufferFits'
    BY <1>0, <2>1, WorkerKeepsBuffer
  <2>4. co.mode = "working" => OwnedFits'
    BY <1>0, <1>1, InsertKeepsOwned
  <2> QED
    BY <2>1, <2>2, <2>3, <2>4, GoingOnKeepsClaim
<1>2. CASE w \in Discovery /\ StoreDiscovery(w)
  <2>1. /\ co.task[w] = "saving" /\ At(w, "replying") /\ status[w] = "running"
        /\ merge' = [merge EXCEPT ![w] = "buffered"] /\ dispatched' = dispatched
        /\ status' = [status EXCEPT ![w] = "succeeded"]
    BY <1>2 DEF StoreDiscovery, AcceptDiscovery
  <2>2. /\ \A r \in Reducer : status'[r] = status[r]
        /\ \A d \in Discovery : status[d] = "succeeded" => merge'[d] = merge[d]
        /\ merge'[w] = "buffered"
        /\ \A d \in Discovery : Active(d)' => Active(d)
    BY <1>0, <1>2, <2>1, DiscoveryIsNoReducer DEF Active
  <2>3. co.mode = "working" => BufferFits'
    BY <1>0, <2>1, <2>2, WorkerKeepsBuffer
  <2>4. /\ \A v \in Worker :
             co'.task[v] = IF v = w THEN "replying" ELSE co.task[v]
        /\ co'.dispatched = co.dispatched
    <3>1. "replying" \in Task /\ CoordinatorTypeOK /\ At(w, "replying")
      BY <1>0, <2>1 DEF Task
    <3> QED
      BY <3>1, AtFields
  <2>5. co.mode = "working" => OwnedFits'
    BY <1>0, <2>1, <2>2, <2>4, OwnedKept, DiscoveryIsNoReducer
  <2>6. co.mode = "working" => \A d \in Awaited : merge'[d] = merge[d]
    BY <1>0, <2>2
  <2> QED
    BY <1>2, <2>1, <2>2, <2>3, <2>5, <2>6, GoingOnKeepsClaim
<1>3. CASE w \in Reducer /\ InsertReducer(w)
  <2>1. /\ co.task[w] = "spawned" /\ At(w, "queued") /\ dispatched' = dispatched
        /\ \A d \in Discovery :
             merge'[d] = IF d \in co.consumed THEN "merging" ELSE merge[d]
        /\ status' = [status EXCEPT ![w] = "queued"] /\ w \notin Discovery
    BY <1>3, DiscoveryIsNoReducer DEF InsertReducer, ClaimDedup, counterVars
  <2>2. /\ \A d \in Buffered \cup Merging : merge'[d] # "merged"
        /\ \A d \in Discovery : Active(d)' => Active(d)
    BY <1>0, <2>1, DiscoveryIsNoReducer DEF Active
  <2>3. co.mode = "working" => BufferFits'
    BY <1>0, <2>1, <2>2, WorkerKeepsBuffer
  <2>4. /\ \A v \in Worker : co'.task[v] = IF v = w THEN "queued" ELSE co.task[v]
        /\ co'.dispatched = co.dispatched
    <3>1. "queued" \in Task /\ CoordinatorTypeOK /\ At(w, "queued")
      BY <1>0, <2>1 DEF Task
    <3> QED
      BY <3>1, AtFields
  <2>5. co.mode = "working" => OwnedFits'
    BY <1>0, <2>1, <2>2, <2>4, OwnedKept, DiscoveryIsNoReducer
  <2>6. co.mode = "working" => \A d \in Awaited : merge'[d] = merge[d]
    <3> SUFFICES ASSUME co.mode = "working", NEW d \in Awaited
                 PROVE  d \in Discovery /\ d \notin co.consumed
      BY <2>1
    <3>1. d \in Discovery /\ seq[d] \in Nat
      BY <1>0
    <3> QED
      BY <1>0, <3>1 DEF OrderFits
  <2> QED
    BY <2>1, <2>3, <2>5, <2>6, GoingOnKeepsClaim
<1>4. CASE w \in Reducer /\ \E new \in {0, 1} : StoreReduction(w, new)
  <2>0. PICK new \in {0, 1} : StoreReduction(w, new)
    BY <1>4
  <2>1. /\ co.task[w] = "saving" /\ At(w, "replying") /\ dispatched' = dispatched
        /\ \A d \in Discovery :
             merge'[d] = IF d \in inputs[w] THEN "merged" ELSE merge[d]
        /\ \A d \in inputs[w] : merge[d] = "merging"
        /\ status' = [status EXCEPT ![w] = "succeeded"] /\ w \notin Discovery
    BY <1>4, <2>0, DiscoveryIsNoReducer DEF StoreReduction, CommitDedup
  <2>2. \A d \in Discovery : Active(d)' => Active(d)
    BY <1>0, <2>1, DiscoveryIsNoReducer DEF Active
  <2>3. co.mode = "working" => BufferFits'
    BY <1>0, <1>4, <2>0, CommitKeepsBuffer
  <2>4. /\ \A v \in Worker :
             co'.task[v] = IF v = w THEN "replying" ELSE co.task[v]
        /\ co'.dispatched = co.dispatched
    <3>1. "replying" \in Task /\ CoordinatorTypeOK /\ At(w, "replying")
      BY <1>0, <2>1 DEF Task
    <3> QED
      BY <3>1, AtFields
  <2>5. co.mode = "working" => OwnedFits'
    BY <1>0, <2>1, <2>2, <2>4, OwnedKept, DiscoveryIsNoReducer
  <2>6. co.mode = "working" => \A d \in Awaited : merge'[d] = merge[d]
    BY <1>0, <2>1
  <2> QED
    BY <2>1, <2>3, <2>5, <2>6, GoingOnKeepsClaim
<1> QED
  BY <1>1, <1>2, <1>3, <1>4

\* Steps that store nothing.
LEMMA AttemptKeepsClaim ==
  ASSUME IInv, IInv', PoolIInv, LoopIInv, [Next]_vars, Calm,
         ClaimFits, LoopFits, NEW w \in Worker,
         \/ w \in Discovery /\ GiveUpDiscovery(w)
         \/ w \in Reducer /\ GiveUpReducer(w)
         \/ BeginAttempt(w) \/ RetryAttempt(w) \/ AbandonAttempt(w)
         \/ SaveResult(w) \/ Answer(w) \/ Refused(w)
  PROVE  ClaimFits' /\ LoopFits'
<1>0. /\ CoordinatorTypeOK /\ status \in [Worker -> WorkerStatus]
      /\ merge \in [Discovery -> MergeState]
      /\ \A d \in Buffered : d \in Discovery /\ merge[d] = "buffered"
      /\ \A d \in Buffered \cup Merging :
           d \in Discovery /\ status[d] = "succeeded" /\ merge[d] # "merged"
      /\ co.mode = "working" =>
           /\ OrderFits /\ BufferFits /\ OwnedFits
           /\ Awaited \subseteq Buffered
      /\ "running" \in Task /\ "saving" \in Task
  BY Unmerged DEF PoolIInv, IInv, TypeOK, Buffered, Merging, LoopFits, OrderFits,
     Task
<1>1. \A what \in {"accepted", "replaced", "canceled", "failed", "reduced",
                   "redfailed", "rejected"} :
        [who |-> w, what |-> what] \in Outcome
  BY DEF Outcome
<1>2. CASE BeginAttempt(w) \/ SaveResult(w)
  <2>1. PICK t \in {"running", "saving"} : At(w, t)
    BY <1>2 DEF BeginAttempt, SaveResult
  <2>2. /\ co.task[w] \in {"queued", "running"} /\ dispatched' = dispatched
        /\ merge' = merge
        /\ status' = status
             \/ (Active(w) /\ status' = [status EXCEPT ![w] = "running"])
    BY <1>2 DEF BeginAttempt, SaveResult, StartAttempt, counterVars, rowVars, vars
  <2>3. /\ w \in Discovery => \A r \in Reducer : status'[r] = status[r]
        /\ \A d \in Discovery : Active(d)' => Active(d)
    BY <1>0, <2>2, DiscoveryIsNoReducer DEF Active
  <2>4. co.mode = "working" => BufferFits'
    BY <1>0, <2>1, <2>2, WorkerKeepsBuffer
  <2>5. /\ \A v \in Worker : co'.task[v] = IF v = w THEN t ELSE co.task[v]
        /\ co'.dispatched = co.dispatched
    <3>1. t \in Task /\ CoordinatorTypeOK
      BY <1>0
    <3> QED
      BY <2>1, <3>1, AtFields
  <2>6. co.mode = "working" => OwnedFits'
    BY <1>0, <2>2, <2>3, <2>5, OwnedKept, DiscoveryIsNoReducer
  <2> QED
    BY <2>1, <2>2, <2>3, <2>4, <2>6, GoingOnKeepsClaim
<1>3. CASE RetryAttempt(w)
  <2>1. /\ UNCHANGED co /\ dispatched' = dispatched /\ merge' = merge
        /\ co.task[w] = "running" /\ Active(w)
        /\ status' = [status EXCEPT ![w] = "running"]
    BY <1>3 DEF RetryAttempt, StartAttempt, counterVars
  <2>2. /\ w \in Discovery => \A r \in Reducer : status'[r] = status[r]
        /\ \A d \in Discovery : Active(d)' => Active(d)
    BY <1>0, <2>1, DiscoveryIsNoReducer DEF Active
  <2>3. ClaimFits'
    BY <1>0, <2>1, <2>2, WorkerKeepsClaimFits
  <2>4. CASE co.mode = "working"
    <3>1. OrderFits'
      BY <1>0, <2>1, <2>4, RowsMoveKeepsOrder
    <3>2. BufferFits'
      <4>1. MayReturn' = MayReturn
        BY <2>1 DEF MayReturn, AtWork
      <4>2. /\ co.buffer \subseteq Buffered' \cup Merging'
            /\ MayReturn => co.consumed \subseteq Buffered' \cup Merging'
        BY <1>0, <2>1, <2>4, HeldStaysUnmerged DEF BufferFits
      <4>3. \A d \in co.consumed : status'[d] = "succeeded"
        BY <1>0, <2>4, NumbersStay
           DEF BufferFits, CoordinatorTypeOK, CoordinatorState
      <4> QED
        BY <1>0, <2>1, <2>4, <4>1, <4>2, <4>3 DEF BufferFits
    <3>3. OwnedFits'
      BY <1>0, <2>1, <2>2, <2>4, OwnedKept
    <3> QED
      BY <2>3, <3>1, <3>2, <3>3 DEF LoopFits
  <2> QED
    BY <2>1, <2>3, <2>4 DEF LoopFits
<1>4. CASE \/ w \in Discovery /\ GiveUpDiscovery(w)
           \/ AbandonAttempt(w) \/ Refused(w)
  <2>1. PICK what \in {"replaced", "failed", "canceled", "rejected"} :
          Report(w, what)
    BY <1>4 DEF GiveUpDiscovery, AbandonAttempt, Refused, Cancellation,
       AfterFailedWrite
  <2>2. /\ dispatched' = dispatched /\ merge' = merge
        /\ \/ status' = status
           \/ status' = [status EXCEPT ![w] = "canceled"]
           \/ status' = [status EXCEPT ![w] = "failed"]
    BY <1>4 DEF GiveUpDiscovery, ReplaceDiscovery, FailDiscovery, AbandonAttempt,
       CancelWorker, Refused, counterVars, rowVars, vars
  <2>3. /\ w \in Discovery => \A r \in Reducer : status'[r] = status[r]
        /\ \A d \in Discovery : Active(d)' => Active(d)
    BY <1>0, <2>2, DiscoveryIsNoReducer DEF Active
  <2>4. co.task[w] \notin {"none", "settled"}
    BY <1>4 DEF GiveUpDiscovery, AbandonAttempt, Refused, SendsRefused
  <2>5. co.task[w] # "spawned" \/ w \in Reducer
    <3> SUFFICES ASSUME co.task[w] = "spawned", w \in Discovery PROVE FALSE
      BY DEF Worker
    <3>1. dispatched >= MaxDiscoveryRuns
      BY <1>4 DEF GiveUpDiscovery, AbandonAttempt, Refused, SendsRefused, Calm
    <3>2. Spawned \subseteq Discovery /\ w \in Spawned
      BY DEF Spawned
    <3>3. Cardinality(Spawned) \in Nat /\ Cardinality(Spawned) # 0
      BY <3>2, DiscoverySetsFinite, FS_EmptySet
    <3>4. dispatched \in Nat /\ MaxDiscoveryRuns \in Nat
      BY WorkbenchAssumption DEF IInv, TypeOK
    <3> QED
      BY <3>1, <3>3, <3>4 DEF LoopIInv, BudgetFits
  <2> QED
    BY <1>0, <1>1, <2>1, <2>2, <2>3, <2>4, <2>5, ReportKeepsClaim
<1>5. CASE w \in Reducer /\ GiveUpReducer(w)
  <2>1. PICK what \in {"redfailed", "rejected"} : Report(w, what)
    BY <1>5 DEF GiveUpReducer
  <2>2. /\ dispatched' = dispatched /\ co.task[w] = "running"
        /\ merge' = merge \/ merge' = WithRebuffered(inputs[w])
        /\ status' = [status EXCEPT ![w] = "failed"] /\ w \notin Discovery
    BY <1>5, DiscoveryIsNoReducer DEF GiveUpReducer, FailReducer, counterVars
  <2>3. /\ \A d \in Buffered : merge'[d] = merge[d]
        /\ \A d \in Buffered \cup Merging : merge'[d] # "merged"
        /\ \A d \in Discovery : Active(d)' => Active(d)
    BY <1>0, <2>2, DiscoveryIsNoReducer DEF Active, WithRebuffered
  <2> QED
    BY <1>0, <1>1, <1>5, <2>1, <2>2, <2>3, ReportKeepsClaim
<1>6. CASE Answer(w)
  <2>1. PICK what \in {"accepted", "reduced"} :
          Report(w, what) /\ (what = "accepted" => w \in Discovery)
    BY <1>6 DEF Answer
  <2>2. /\ dispatched' = dispatched /\ co.task[w] = "replying"
        /\ merge' = merge /\ status' = status
    BY <1>6 DEF Answer, counterVars, rowVars, vars
  <2>3. \A d \in Discovery : Active(d)' => Active(d)
    BY <2>2 DEF Active
  <2> QED
    BY <1>0, <1>1, <2>1, <2>2, <2>3, ReportKeepsClaim
<1> QED
  BY <1>2, <1>3, <1>4, <1>5, <1>6

\* The loop goes on or ends while the rows stand.
LEMMA TurnKeepsClaim ==
  ASSUME IInv, PoolIInv, LoopIInv, KnownIInv, Calm, ClaimFits, LoopFits,
         ReadOutcome \/ ReconcileLate \/ Exhausted \/ Drained \/ ReachDeadline
  PROVE  ClaimFits' /\ LoopFits'
<1>0. /\ CoordinatorTypeOK /\ QueueFits /\ co \in CoordinatorState
      /\ co.task \in [Worker -> Task]
      /\ UNCHANGED <<status, merge, seq, dispatched>> /\ deadline' = deadline
      /\ co.mode = "working" => NothingLost
  BY DEF PoolIInv, LoopIInv, CoordinatorTypeOK, CoordinatorState, ReadOutcome,
     ReconcileLate, Exhausted, Drained, ReachDeadline, vars, rowVars,
     counterVars, leaseVars, NothingLost, Calm
<1>1. CASE co' = Stopping("failing", "error")
  <2>1. "failing" \in Mode /\ "error" \in Abort
    BY DEF Mode, Abort
  <2>2. /\ co'.mode = "failing" /\ co'.consumed = co.consumed
        /\ \A w \in Worker :
             co'.task[w] = IF co.task[w] = "settled" THEN "none" ELSE co.task[w]
    BY <1>0, <1>1, <2>1, StoppingFields
  <2>3. ClaimFits'
    BY <1>0, <2>2, StandingKeepsClaimFits, DiscoveryIsNoReducer
  <2> QED
    BY <2>2, <2>3 DEF LoopFits
<1>2. CASE ReadOutcome /\ co' # Stopping("failing", "error")
  <2>0. PICK o : o = Head(co.settlements)
    OBVIOUS
  <2>1. /\ co'.task = [co.task EXCEPT ![o.who] = "none"]
        /\ o = co.settlements[1] /\ Fits(o)
        /\ co'.dstop = co.dstop /\ co'.dispatched = co.dispatched
        /\ o.what \in {"reduced", "redfailed"} \/ co'.consumed = co.consumed
    BY <1>2, <2>0, ReadFields
  <2>8. co.mode = "working"
    BY <1>2 DEF ReadOutcome
  <2>2. \A w \in Worker : co'.task[w] = IF w = o.who THEN "none" ELSE co.task[w]
    BY <1>0, <2>1
  <2>3. 1 \in DOMAIN co.settlements
    BY <1>0, <1>2, LenProperties, EmptySeq DEF ReadOutcome, CoordinatorState
  <2>4. co.task[o.who] = "settled"
    BY <1>0, <2>1, <2>3 DEF QueueFits
  <2>5. ASSUME NEW r \in Reducer, co'.task[r] = "spawned"
        PROVE  co.task[r] = "spawned" /\ co'.consumed = co.consumed
    <3>1. r # o.who /\ co.task[r] = "spawned"
      BY <2>2, <2>5, DiscoveryIsNoReducer
    <3>2. o.who \notin Reducer
      BY <2>4, <3>1 DEF LoopIInv, ReducerFits
    <3> QED
      BY <2>1, <3>1, <3>2 DEF Fits
  <2>6. ClaimFits'
    BY <1>0, <2>1, <2>2, <2>5, <2>8, StandingKeepsClaimFits, DiscoveryIsNoReducer
  <2>7. co'.mode = "working" => OrderFits' /\ BufferFits' /\ OwnedFits'
    BY <1>0, <1>2, <2>8, ReadingKeepsOrder, ReadingKeepsBuffer,
       ReadingKeepsOwned DEF LoopFits
  <2> QED
    BY <2>6, <2>7 DEF LoopFits
<1>3. CASE ReconcileLate
  <2>0. PICK o : o = Head(co.settlements)
    OBVIOUS
  <2>1. /\ co.mode = "draining"
        /\ co' = [co EXCEPT
                 !.settlements = Tail(@), !.task[o.who] = "none",
                 !.omitted = IF o.what = "accepted" THEN @ \cup {o.who} ELSE @]
    BY <1>3, <2>0 DEF ReconcileLate
  <2>2. /\ co'.mode = "draining" /\ co'.consumed = co.consumed
        /\ co'.task = [co.task EXCEPT ![o.who] = "none"]
    BY <1>0, <2>1 DEF CoordinatorState
  <2>3. \A w \in Worker : co'.task[w] = IF w = o.who THEN "none" ELSE co.task[w]
    BY <1>0, <2>2
  <2>4. ClaimFits'
    BY <1>0, <2>2, <2>3, StandingKeepsClaimFits, DiscoveryIsNoReducer
  <2> QED
    BY <2>2, <2>4 DEF LoopFits
<1>4. CASE \/ /\ Exhausted \/ Drained
              /\ co' # Stopping("failing", "error")
           \/ ReachDeadline
  <2>1. /\ co'.task = co.task /\ co'.consumed = co.consumed
        /\ co'.buffer = co.buffer /\ co'.settlements = co.settlements
        /\ co'.dispatched = co.dispatched /\ (co.dstop => co'.dstop)
        /\ co'.mode = "working" => co.mode = "working"
    <3>1. \/ co' = [co EXCEPT !.mode = "finishing", !.why = "capped"]
          \/ co' = [co EXCEPT !.mode = "finishing"]
          \/ co' = [co EXCEPT !.dstop = TRUE]
      BY <1>4 DEF Exhausted, Drained, ReachDeadline
    <3> QED
      BY <1>0, <3>1 DEF CoordinatorState
  <2>2. ClaimFits'
    BY <1>0, <2>1, StandingKeepsClaimFits
  <2>3. ASSUME co'.mode = "working" PROVE OrderFits' /\ BufferFits' /\ OwnedFits'
    <3>1. OrderFits /\ BufferFits /\ OwnedFits
      BY <2>1, <2>3 DEF LoopFits
    <3>2. OrderFits'
      BY <1>0, <2>1, <3>1, StandingKeepsOrder
    <3>3. BufferFits'
      BY <1>0, <2>1, <3>1 DEF BufferFits, MayReturn, AtWork, Buffered, Merging
    <3>4. OwnedFits'
      BY <1>0, <2>1, <3>1, OwnedKept DEF Active
    <3> QED
      BY <3>2, <3>3, <3>4
  <2> QED
    BY <2>2, <2>3 DEF LoopFits
<1> QED
  BY <1>1, <1>2, <1>3, <1>4

\* A coordinator that takes over holds what is not merged.
LEMMA AdoptionKeepsClaim ==
  ASSUME IInv, IInv', Claim
  PROVE  ClaimFits' /\ LoopFits'
<1>1. /\ co'.settlements = <<>>
      /\ co'.buffer = (Buffered \cup Merging)' /\ co'.consumed = {}
      /\ co'.dispatched = dispatched'
      /\ \A w \in Worker : co'.task[w] = "none" /\ ~Active(w)'
  BY ClaimFields
<1>2. ClaimFits'
  BY <1>1, DiscoveryIsNoReducer DEF ClaimFits
<1>3. /\ DOMAIN co'.settlements = {}
      /\ \A d : d \notin Awaited'
  <2>1. DOMAIN co'.settlements = {}
    BY <1>1
  <2>2. \A d \in Discovery : co'.task[d] # "replying"
    BY <1>1, DiscoveryIsNoReducer
  <2> QED
    BY <2>1, <2>2 DEF Awaited
<1>4. OrderFits'
  BY <1>1, <1>3, DiscoveryIsNoReducer DEF OrderFits
<1>5. BufferFits'
  BY <1>1 DEF BufferFits
<1>6. OwnedFits'
  <2>1. Spawned' = {}
    BY <1>1, DiscoveryIsNoReducer DEF Spawned
  <2>2. Cardinality(Spawned') = 0
    BY <2>1, FS_EmptySet
  <2>3. PICK n \in Nat : n = dispatched'
    BY DEF IInv, TypeOK
  <2>4. n + 0 = n
    OBVIOUS
  <2>5. dispatched' + Cardinality(Spawned') = co'.dispatched
    BY <1>1, <2>2, <2>3, <2>4
  <2> QED
    BY <1>1, <2>5, DiscoveryIsNoReducer DEF OwnedFits
<1> QED
  BY <1>2, <1>4, <1>5, <1>6 DEF LoopFits

\* The steps after which the loop does not go on.
LEMMA StoppingKeepsClaim ==
  ASSUME PoolIInv, ClaimFits,
         \/ FinishRefused \/ LoseOwnership \/ Shutdown \/ AskCancel
         \/ Leave \/ Crash
  PROVE  ClaimFits' /\ LoopFits'
<1>0. /\ UNCHANGED <<status, merge, seq, dispatched>> /\ deadline' = deadline
      /\ CoordinatorTypeOK
  BY DEF PoolIInv, FinishRefused, LoseOwnership, Shutdown, AskCancel, Leave,
     Crash, vars, rowVars, counterVars, leaseVars
<1>1. CASE co' = NoCoordinator
  <2>1. co'.mode = "absent" /\ \A w \in Worker : co'.task[w] = "none"
    BY <1>1 DEF NoCoordinator
  <2> QED
    BY <2>1, DiscoveryIsNoReducer DEF ClaimFits, LoopFits
<1>2. CASE co' # NoCoordinator
  <2>1. PICK m \in {"failing", "leaving"},
             a \in {"error", "lost", "shutdown", "cancel"} :
          \/ co' = Stopping(m, a)
          \/ co' = [Stopping(m, a) EXCEPT !.asked = TRUE]
    BY <1>2 DEF FinishRefused, LoseOwnership, Shutdown, AskCancel, Leave, Crash
  <2>2. m \in Mode /\ a \in Abort
    BY DEF Mode, Abort
  <2>3. /\ co'.mode = m /\ co'.consumed = co.consumed
        /\ \A w \in Worker :
             co'.task[w] = IF co.task[w] = "settled" THEN "none" ELSE co.task[w]
    BY <1>0, <2>1, <2>2, StoppingFields
  <2>4. ClaimFits'
    BY <1>0, <2>3, StandingKeepsClaimFits, DiscoveryIsNoReducer
  <2> QED
    BY <2>3, <2>4 DEF LoopFits
<1> QED
  BY <1>1, <1>2

\* The clocks run: the rows of the workers and the coordinator stand.
LEMMA WaitingKeepsClaim ==
  ASSUME ClaimFits, LoopFits, UNCHANGED <<co, status, merge, seq, dispatched>>,
         deadline => deadline'
  PROVE  ClaimFits' /\ LoopFits'
<1>1. ClaimFits'
  BY StandingKeepsClaimFits
<1>2. OrderFits => OrderFits'
  BY StandingKeepsOrder
<1>3. BufferFits => BufferFits'
  BY DEF BufferFits, MayReturn, AtWork, Buffered, Merging
<1>4. OwnedFits => OwnedFits'
  BY DEF OwnedFits, Active, Spawned
<1> QED
  BY <1>1, <1>2, <1>3, <1>4 DEF LoopFits

LEMMA FillKeepsClaim ==
  ASSUME IInv, PoolIInv, LoopIInv, KnownIInv, Calm, ClaimFits, LoopFits, Fill
  PROVE  ClaimFits' /\ LoopFits'
<1>1. NothingLost /\ OrderFits /\ BufferFits /\ OwnedFits
  BY DEF Fill, NothingLost, Calm, LoopFits
<1>2. ClaimFits' /\ BufferFits' /\ OwnedFits'
  BY <1>1, FillKeepsClaimFits, FillKeepsBuffer, FillKeepsOwned
<1>3. PICK new \in SUBSET Discovery, first \in SUBSET Reducer :
        FillEffect(new, first)
  BY FillFields
<1>4. /\ co'.settlements = co.settlements
      /\ \A w \in Worker : co'.task[w] =
           IF w \in new \cup first THEN "spawned" ELSE co.task[w]
      /\ co'.buffer \cup co'.consumed \subseteq co.buffer \cup co.consumed
  BY <1>3 DEF FillEffect
<1>5. UNCHANGED <<status, merge, seq>>
  BY DEF Fill, vars, rowVars
<1>6. OrderFits'
  BY <1>1, <1>4, <1>5, StandingKeepsOrder, DiscoveryIsNoReducer
<1> QED
  BY <1>2, <1>6 DEF LoopFits

LEMMA NextKeepsClaim ==
  ASSUME IInv, IInv', PoolIInv, LoopIInv, KnownIInv, ClaimIInv,
         [SystemNext]_systemVars
  PROVE  ClaimIInv'
<1> SUFFICES ASSUME Calm' PROVE ClaimFits' /\ LoopFits'
  BY DEF ClaimIInv
<1>0. CoordinatorTypeOK /\ [Next]_vars
  BY SystemStepIsACommand DEF PoolIInv
<1>1. RunningScan /\ RunningScan' /\ faults' = MaxFaults
  BY <1>0, StillRunning DEF Calm
<1>2. ASSUME faults' = faults PROVE Calm /\ ClaimFits /\ LoopFits
  BY <1>1, <1>2 DEF Calm, ClaimIInv
<1>3. faults' # faults - 1
  BY <1>0, <1>1, CoordinatorAssumption DEF CoordinatorTypeOK
<1>4. CASE Claim
  BY <1>4, AdoptionKeepsClaim
<1>5. CASE Fill
  <2>1. faults' = faults
    BY <1>5 DEF Fill
  <2> QED
    BY <1>2, <1>5, <2>1, FillKeepsClaim
<1>6. CASE ReadOutcome \/ ReconcileLate \/ Exhausted \/ Drained \/ ReachDeadline
  <2>1. faults' = faults
    BY <1>6 DEF ReadOutcome, ReconcileLate, Exhausted, Drained, ReachDeadline
  <2> QED
    BY <1>2, <1>6, <2>1, TurnKeepsClaim
<1>7. CASE \/ FinishRefused \/ LoseOwnership \/ Shutdown \/ AskCancel
           \/ Leave \/ Crash
  <2>1. faults' = faults
    BY <1>7 DEF FinishRefused, LoseOwnership, Shutdown, AskCancel, Leave, Crash
  <2> QED
    BY <1>2, <1>7, <2>1, StoppingKeepsClaim
<1>8. CASE Finish \/ Fail \/ PersistCancel
  <2>1. ~RunningScan'
    BY <1>8 DEF Finish, FinishDeepScan, Fail, FailDeepScan, PersistCancel,
       CancelScan, StopRun, RunningScan
  <2> QED
    BY <1>1, <2>1
<1>9. CASE FinishLost \/ FailLost \/ CancelLost \/ \E w \in Worker : WriteLost(w)
  BY <1>3, <1>9 DEF FinishLost, FailLost, CancelLost, WriteLost
<1>10. CASE \E w \in Worker : WorkerProceeds(w) \/ RetryAttempt(w)
  <2>1. PICK w \in Worker : WorkerProceeds(w) \/ RetryAttempt(w)
    BY <1>10
  <2>2. faults' = faults
    BY <2>1 DEF WorkerProceeds, InsertDiscovery, StoreDiscovery, GiveUpDiscovery,
       InsertReducer, StoreReduction, GiveUpReducer, BeginAttempt, AbandonAttempt,
       Refused, SaveResult, Answer, RetryAttempt
  <2>3. CASE \/ w \in Discovery /\ (InsertDiscovery(w) \/ StoreDiscovery(w))
             \/ w \in Reducer /\ InsertReducer(w)
             \/ w \in Reducer /\ \E new \in {0, 1} : StoreReduction(w, new)
    BY <1>0, <1>2, <2>2, <2>3, StoringKeepsClaim
  <2>4. CASE \/ w \in Discovery /\ GiveUpDiscovery(w)
             \/ w \in Reducer /\ GiveUpReducer(w)
             \/ BeginAttempt(w) \/ RetryAttempt(w) \/ AbandonAttempt(w)
             \/ SaveResult(w) \/ Answer(w) \/ Refused(w)
    BY <1>0, <1>2, <2>2, <2>4, AttemptKeepsClaim
  <2> QED
    BY <2>1, <2>3, <2>4 DEF WorkerProceeds
<1>11. CASE \/ Beat \/ Expire
            \/ DeadlinePasses /\ UNCHANGED <<co, faults>>
            \/ UNCHANGED systemVars
  <2>1. /\ UNCHANGED <<co, faults, status, merge, seq, dispatched>>
        /\ deadline => deadline'
    BY <1>11 DEF Beat, Heartbeat, Expire, LeaseExpires, DeadlinePasses,
       systemVars, vars, rowVars, counterVars, leaseVars
  <2> QED
    BY <1>2, <2>1, WaitingKeepsClaim
<1>12. CASE Parent
  <2>1. ~RunningScan'
    BY <1>12 DEF Parent, ParentStep, FailScan, CancelScan, CompleteScan, StopRun,
       RunningScan
  <2> QED
    BY <1>1, <2>1
<1> QED
  BY <1>4, <1>5, <1>6, <1>7, <1>8, <1>9, <1>10, <1>11, <1>12
     DEF SystemNext, CoordinatorProceeds, Disruption

LEMMA ClaimInvariance == SystemSpec => []ClaimIInv
<1>1. SystemInit => ClaimIInv
  <2>1. SystemInit => /\ co.mode = "absent"
                      /\ \A w \in Worker : co.task[w] = "none"
    BY DEF SystemInit, NoCoordinator
  <2> QED
    BY <2>1, DiscoveryIsNoReducer DEF ClaimIInv, ClaimFits, LoopFits
<1>2. IInv /\ IInv' /\ PoolIInv /\ LoopIInv /\ KnownIInv /\ ClaimIInv
        /\ [SystemNext]_systemVars => ClaimIInv'
  BY NextKeepsClaim
<1> QED
  BY <1>1, <1>2, SystemInvariance, PoolInvariance, LoopInvariance,
     KnownInvariance, PTL DEF SystemSpec

\* While no write was lost, the rows accept every discovery the loop dispatches
\* and every claim it makes for a reducer (ClaimsAreAccepted): the loop's count
\* of the budget and its buffer are never ahead of the rows, although it reads
\* the outcomes after the rows changed (coordinator.ts, worker-runner.ts).
THEOREM ClaimsAccepted ==
  SystemSpec => [](faults = MaxFaults => ClaimsAreAccepted)
<1>1. ASSUME IInv, LoopIInv, ClaimIInv, faults = MaxFaults
      PROVE  ClaimsAreAccepted
  <2> SUFFICES ASSUME RunningScan, Stranded = {}, NEW w \in Worker,
                      SendsRefused(w)
               PROVE  FALSE
    BY DEF ClaimsAreAccepted
  <2>1. /\ co.task[w] = "spawned"
        /\ w \in Discovery => dispatched >= MaxDiscoveryRuns
        /\ w \notin Discovery => ~Claimable(co.consumed)
    BY DEF SendsRefused
  <2>2. CASE w \in Discovery
    <3>1. Spawned \subseteq Discovery /\ w \in Spawned
      BY <2>1, <2>2 DEF Spawned
    <3>2. Cardinality(Spawned) \in Nat /\ Cardinality(Spawned) # 0
      BY <3>1, DiscoverySetsFinite, FS_EmptySet
    <3>3. dispatched \in Nat /\ MaxDiscoveryRuns \in Nat
      BY <1>1, WorkbenchAssumption DEF IInv, TypeOK
    <3> QED
      BY <1>1, <2>1, <2>2, <3>2, <3>3 DEF LoopIInv, BudgetFits
  <2>3. CASE w \in Reducer
    <3>1. NoActiveReducer /\ ClaimFits /\ w \notin Discovery
      BY <1>1, <2>1, <2>3, DiscoveryIsNoReducer
         DEF LoopIInv, ReducerFits, ClaimIInv, Calm
    <3>2. Merging = {}
      BY <3>1 DEF Stranded, NoActiveReducer, SomeActive
    <3>3. /\ co.consumed \subseteq Buffered /\ co.consumed # {}
          /\ \A d \in co.consumed, e \in Buffered \ co.consumed : seq[d] < seq[e]
          /\ SomeReduced \/ Cardinality(co.consumed) >= 2 \/ LastOfAll
      BY <2>1, <2>3, <3>1, <3>2 DEF ClaimFits
    <3>4. /\ Cardinality(co.consumed) \in Nat
          /\ Cardinality(co.consumed) # 0
      <4>1. co.consumed \subseteq Discovery
        BY <3>3 DEF Buffered
      <4> QED
        BY <3>3, <4>1, DiscoverySetsFinite, FS_EmptySet
    <3>5. LastOfAll => Capped /\ ~SomeActive(Discovery)
      BY DEF LastOfAll, SomeActive
    <3>6. Cardinality(co.consumed) >= MinimumInputs(co.consumed)
      BY <3>3, <3>4, <3>5 DEF MinimumInputs, CappedSingleton
    <3> QED
      BY <2>1, <3>1, <3>3, <3>6 DEF Claimable, BufferedPrefix
  <2> QED
    BY <2>2, <2>3 DEF Worker
<1> QED
  BY <1>1, SystemInvariance, LoopInvariance, ClaimInvariance, PTL

-----------------------------------------------------------------------------
(***************************************************************************)
(* The finish.  What the rows remember of the results and of the claims,   *)
(* what a loop that goes on still has in hand, and what is left of it when *)
(* it is over.                                                             *)
(***************************************************************************)

\* A claim names accepted results, and the run counts only those.
ResultsFit ==
  /\ \A r \in Reducer : /\ \A d \in inputs[r] : status[d] = "succeeded"
                        /\ status[r] # "none" => inputs[r] # {}
  /\ accepted # 0 => \E d \in Discovery : status[d] = "succeeded"

\* While the loop runs, what a reducer had is merged or the loop has it; a
\* streak that would end the loop waits for what is not reduced yet; and a
\* discovery that ends the loop with an error has failed in the rows.
RemainsFit ==
  /\ \A r \in Reducer : inputs[r] \subseteq Merged \cup co.buffer \cup co.consumed
  /\ Occupied(Reducer) # {} => co.consumed # {}
  /\ ~co.dstop /\ co.reduced /\ co.noNewStreak >= StopAfterNoNew =>
       co.buffer # {} \/ Occupied(Reducer) # {}
  /\ co.omitted = {}
  /\ \A i \in DOMAIN co.settlements :
       co.settlements[i].who \in Discovery
         /\ co.settlements[i].what \in {"failed", "rejected"}
           => status[co.settlements[i].who] = "failed"

\* All claims that were made are merged.
AllMerged == \A r \in Reducer : inputs[r] \subseteq Merged

\* A saturated loop waits for discoveries only, and names what they bring.
DrainFits ==
  /\ co.why = "saturated" /\ noNew >= StopAfterNoNew
  /\ SomeReduced /\ AllMerged /\ Merging = {}
  /\ Occupied(Reducer) = {}
  /\ Buffered = co.omitted \cup Awaited

NoneFailed == \A d \in Discovery : status[d] # "failed"

EndIsAccepted ==
  /\ Settled
  /\ NoneFailed => Finishable(co.why, co.omitted)

FinishFits ==
  /\ co.mode = "working" => RemainsFit
  /\ co.mode = "draining" => DrainFits
  /\ co.mode = "finishing" => EndIsAccepted

FinishIInv == Calm => FinishFits

-----------------------------------------------------------------------------
\* Only a claim changes what reducers have, only a claim starts one, and only
\* an accepted result is counted.
LEMMA ClaimsAndCounts ==
  ASSUME IInv, [Next]_vars
  PROVE  /\ \/ /\ inputs' = inputs
               /\ \A r \in Reducer : status'[r] # "none" => status[r] # "none"
            \/ \E r \in Reducer, S \in SUBSET Discovery :
                 /\ Claimable(S) /\ status[r] = "none"
                 /\ status' = [status EXCEPT ![r] = "queued"]
                 /\ inputs' = [inputs EXCEPT ![r] = S]
         /\ \/ accepted' = accepted
            \/ \E d \in Discovery : status' = [status EXCEPT ![d] = "succeeded"]
<1>0. status \in [Worker -> WorkerStatus]
  BY DEF IInv, TypeOK
<1> DEFINE Quiet == \A r \in Reducer : status'[r] # "none" => status[r] # "none"
<1>1. ASSUME status' = status \/ status' = WithActiveCanceled PROVE Quiet
  BY <1>0, <1>1, DiscoveryIsNoReducer DEF WithActiveCanceled, Active
<1>2. ASSUME NEW w \in Worker, NEW s, status' = [status EXCEPT ![w] = s],
             w \in Discovery \/ Active(w)
      PROVE  Quiet
  BY <1>0, <1>2, DiscoveryIsNoReducer DEF Active
<1>3. CASE \/ UNCHANGED vars \/ AdoptCoordinator \/ LeaseExpires
           \/ DeadlinePasses \/ ParentStep \/ \E g : LeaseStep(g) \/ StopStep(g)
  <2>1. /\ status' = status \/ status' = WithActiveCanceled
        /\ inputs' = inputs /\ accepted' = accepted
    BY <1>3 DEF vars, rowVars, counterVars, AdoptCoordinator,
       RecoverExpiredCoordinator, LeaseExpires, DeadlinePasses, ParentStep,
       FailScan, CancelScan, CompleteScan, StopRun, LeaseStep, RenewLease,
       Heartbeat, StopStep, FinishDeepScan, FailDeepScan
  <2> QED
    BY <1>1, <2>1
<1>4. ASSUME NEW g, DiscoveryStep(g)
      PROVE  /\ inputs' = inputs /\ Quiet
             /\ \/ accepted' = accepted
                \/ \E d \in Discovery :
                     status' = [status EXCEPT ![d] = "succeeded"]
  <2>1. /\ inputs' = inputs
        /\ \E d \in Discovery : \E s : status' = [status EXCEPT ![d] = s]
        /\ \/ accepted' = accepted
           \/ \E d \in Discovery : status' = [status EXCEPT ![d] = "succeeded"]
    BY <1>4 DEF DiscoveryStep, NewDiscovery, AcceptDiscovery, ReplaceDiscovery,
       FailDiscovery, counterVars
  <2> QED
    BY <1>2, <2>1, DiscoveryIsNoReducer
<1>5. ASSUME NEW g, WorkerStep(g)
      PROVE  inputs' = inputs /\ accepted' = accepted /\ Quiet
  <2>1. /\ inputs' = inputs /\ accepted' = accepted
        /\ \E w \in Worker : \E s : Active(w) /\ status' = [status EXCEPT ![w] = s]
    BY <1>5 DEF WorkerStep, StartAttempt, CancelWorker, counterVars
  <2> QED
    BY <1>2, <2>1
<1>6. ASSUME NEW g, NEW r \in Reducer,
             FailReducer(g, r) \/ \E new \in {0, 1} : CommitDedup(g, r, new)
      PROVE  inputs' = inputs /\ accepted' = accepted /\ Quiet
  <2>1. /\ inputs' = inputs /\ accepted' = accepted /\ Active(r) /\ r \in Worker
        /\ \E s : status' = [status EXCEPT ![r] = s]
    BY <1>6, DiscoveryIsNoReducer
       DEF FailReducer, CommitDedup, Committable, counterVars
  <2> QED
    BY <1>2, <2>1
<1>7. ASSUME NEW g, NEW r \in Reducer, NEW S \in SUBSET Discovery,
             ClaimDedup(g, r, S)
      PROVE  /\ accepted' = accepted
             /\ Claimable(S) /\ status[r] = "none"
             /\ status' = [status EXCEPT ![r] = "queued"]
             /\ inputs' = [inputs EXCEPT ![r] = S]
  BY <1>7 DEF ClaimDedup, counterVars
<1>8. ASSUME NEW g, ReducerStep(g)
      PROVE  /\ accepted' = accepted
             /\ \/ inputs' = inputs /\ Quiet
                \/ \E r \in Reducer, S \in SUBSET Discovery :
                     /\ Claimable(S) /\ status[r] = "none"
                     /\ status' = [status EXCEPT ![r] = "queued"]
                     /\ inputs' = [inputs EXCEPT ![r] = S]
  <2>1. PICK r \in Reducer :
          \/ \E S \in SUBSET Discovery : ClaimDedup(g, r, S)
          \/ FailReducer(g, r) \/ \E new \in {0, 1} : CommitDedup(g, r, new)
    BY <1>8 DEF ReducerStep
  <2> HIDE DEF Quiet
  <2> QED
    BY <1>6, <1>7, <2>1
<1> HIDE DEF Quiet
<1>9. QED
  <2>1. inputs' = inputs /\ Quiet => 
          /\ inputs' = inputs
          /\ \A r \in Reducer : status'[r] # "none" => status[r] # "none"
    BY DEF Quiet
  <2>2. CASE \/ UNCHANGED vars \/ AdoptCoordinator \/ LeaseExpires
             \/ DeadlinePasses \/ ParentStep \/ \E g : LeaseStep(g) \/ StopStep(g)
    BY <1>3, <2>2
  <2>3. CASE \E g : DiscoveryStep(g) \/ WorkerStep(g) \/ ReducerStep(g)
    BY <1>4, <1>5, <1>8, <2>1, <2>3
  <2> QED
    BY <2>2, <2>3 DEF Next

LEMMA ResultsInvariance == SystemSpec => []ResultsFit
<1>1. SystemInit => ResultsFit
  BY DiscoveryIsNoReducer DEF SystemInit, Init, ResultsFit
<1>2. IInv /\ IInv' /\ ResultsFit /\ [SystemNext]_systemVars => ResultsFit'
  <2> SUFFICES ASSUME IInv, IInv', ResultsFit, [SystemNext]_systemVars
               PROVE  ResultsFit'
    OBVIOUS
  <2>0. [Next]_vars
    BY SystemStepIsACommand
  <2>1. /\ status \in [Worker -> WorkerStatus]
        /\ inputs \in [Reducer -> SUBSET Discovery]
        /\ \A d \in Discovery : d \in Worker
        /\ \A d \in Discovery : status[d] = "succeeded" =>
             status'[d] = "succeeded"
    BY <2>0, RowsGoOn, DiscoveryIsNoReducer DEF IInv, TypeOK, Final
  <2>2. ASSUME NEW r \in Reducer
        PROVE  /\ \A d \in inputs'[r] : status'[d] = "succeeded"
               /\ status'[r] # "none" => inputs'[r] # {}
    <3>1. CASE /\ inputs' = inputs
               /\ \A q \in Reducer : status'[q] # "none" => status[q] # "none"
      BY <2>1, <3>1 DEF ResultsFit
    <3>2. ASSUME NEW q \in Reducer, NEW S \in SUBSET Discovery, Claimable(S),
                 status' = [status EXCEPT ![q] = "queued"],
                 inputs' = [inputs EXCEPT ![q] = S]
          PROVE  /\ \A d \in inputs'[r] : status'[d] = "succeeded"
                 /\ status'[r] # "none" => inputs'[r] # {}
      <4>1. S # {}
        <5>1. Cardinality(S) >= MinimumInputs(S)
          BY <3>2 DEF Claimable
        <5>2. MinimumInputs(S) \in {1, 2}
          BY DEF MinimumInputs
        <5>3. S = {} => Cardinality(S) = 0
          BY FS_EmptySet
        <5> QED
          BY <5>1, <5>2, <5>3
      <4>2. \A d \in S : status[d] = "succeeded"
        BY <3>2 DEF Claimable, BufferedPrefix, Buffered
      <4>3. inputs'[r] = IF r = q THEN S ELSE inputs[r]
        BY <2>1, <3>2
      <4>4. r # q => status'[r] = status[r]
        BY <2>1, <3>2, DiscoveryIsNoReducer
      <4> QED
        BY <2>1, <4>1, <4>2, <4>3, <4>4 DEF ResultsFit
    <3> QED
      BY <2>0, <3>1, <3>2, ClaimsAndCounts
  <2>3. accepted' # 0 => \E d \in Discovery : status'[d] = "succeeded"
    BY <2>0, <2>1, ClaimsAndCounts DEF ResultsFit
  <2> QED
    BY <2>2, <2>3 DEF ResultsFit
<1> QED
  BY <1>1, <1>2, SystemInvariance, PTL DEF SystemSpec

-----------------------------------------------------------------------------
\* What a worker does leaves the loop what it has in hand.
LEMMA WorkerKeepsRemains ==
  ASSUME IInv, IInv', PoolIInv, [Next]_vars, RemainsFit,
         co'.buffer = co.buffer, co'.consumed = co.consumed,
         co'.omitted = co.omitted, co'.reduced = co.reduced,
         co'.noNewStreak = co.noNewStreak, co'.dstop = co.dstop,
         \A r \in Reducer : co'.task[r] # "none" <=> co.task[r] # "none",
         \A r \in Reducer :
           inputs'[r] = inputs[r] \/ inputs'[r] = co.consumed,
         \A i \in DOMAIN co'.settlements :
           \/ /\ i \in DOMAIN co.settlements
              /\ co'.settlements[i] = co.settlements[i]
           \/ /\ co'.settlements[i].who \in Discovery
              /\ co'.settlements[i].what \in {"failed", "rejected"}
              => status'[co'.settlements[i].who] = "failed"
  PROVE  RemainsFit'
<1>1. /\ \A w \in Worker : Final(w) => status'[w] = status[w]
      /\ Merged \subseteq Merged'
  BY RowsGoOn
<1>2. \A r \in Reducer : inputs'[r] \subseteq Merged' \cup co.buffer \cup co.consumed
  BY <1>1 DEF RemainsFit
<1>3. Occupied(Reducer)' = Occupied(Reducer)
  BY DEF Occupied
<1>4. ASSUME NEW i \in DOMAIN co'.settlements,
             co'.settlements[i].who \in Discovery,
             co'.settlements[i].what \in {"failed", "rejected"}
      PROVE  status'[co'.settlements[i].who] = "failed"
  <2>1. CASE /\ i \in DOMAIN co.settlements
             /\ co'.settlements[i] = co.settlements[i]
    <3>1. status[co.settlements[i].who] = "failed"
      BY <1>4, <2>1 DEF RemainsFit
    <3> QED
      BY <1>1, <1>4, <2>1, <3>1, DiscoveryIsNoReducer DEF Final
  <2> QED
    BY <1>4, <2>1
<1> QED
  BY <1>2, <1>3, <1>4 DEF RemainsFit

\* The loop goes on: what it starts and what it reads.
LEMMA FillKeepsRemains ==
  ASSUME IInv, PoolIInv, LoopIInv, KnownIInv, NothingLost, RemainsFit, Fill
  PROVE  RemainsFit'
<1>0. PICK new \in SUBSET Discovery, first \in SUBSET Reducer :
        FillEffect(new, first)
  BY FillFields
<1>1. Merged' = Merged /\ inputs' = inputs
  BY DEF Fill, vars, rowVars, Merged
<1>2. /\ \A w \in Worker : co'.task[w] =
           IF w \in new \cup first THEN "spawned" ELSE co.task[w]
      /\ co'.dstop = co.dstop /\ co'.reduced = co.reduced
      /\ co'.noNewStreak = co.noNewStreak /\ co'.omitted = co.omitted
      /\ DOMAIN co'.settlements = {}
  BY <1>0 DEF FillEffect
<1>3. CASE first = {}
  <2>1. co'.buffer = co.buffer /\ co'.consumed = co.consumed
    BY <1>0, <1>3 DEF FillEffect
  <2>2. \A r \in Reducer : co'.task[r] = co.task[r]
    BY <1>2, <1>3, DiscoveryIsNoReducer
  <2>3. Occupied(Reducer)' = Occupied(Reducer)
    BY <2>2 DEF Occupied
  <2> QED
    BY <1>1, <1>2, <2>1, <2>3 DEF RemainsFit
<1>4. CASE first # {}
  <2>1. /\ co'.buffer = {} /\ co'.consumed = co.buffer /\ co.buffer # {}
        /\ Occupied(Reducer) = {}
    BY <1>0, <1>4 DEF FillEffect
  <2>2. co.consumed = {}
    BY <2>1 DEF KnownIInv, OneReduction
  <2>3. Occupied(Reducer)' # {}
    <3>1. PICK r \in first : r \in Reducer /\ r \in Worker
      BY <1>4, DiscoveryIsNoReducer
    <3>2. co'.task[r] # "none"
      BY <1>2, <3>1
    <3> QED
      BY <3>1, <3>2 DEF Occupied
  <2> QED
    BY <1>1, <1>2, <2>1, <2>2, <2>3 DEF RemainsFit
<1> QED
  BY <1>3, <1>4

\* Until its outcome is read, no other reducer has a task.
LEMMA ReaderOfReducer ==
  ASSUME LoopIInv, NEW r \in Reducer, co.task[r] # "none",
         \A q \in Reducer : co'.task[q] = IF q = r THEN "none" ELSE co.task[q]
  PROVE  Occupied(Reducer) # {} /\ Occupied(Reducer)' = {}
BY DEF LoopIInv, ReducerFits, Occupied

LEMMA ReadingKeepsRemains ==
  ASSUME IInv, PoolIInv, LoopIInv, KnownIInv, NothingLost, RemainsFit,
         ReadOutcome, co'.mode = "working"
  PROVE  RemainsFit'
<1>0. PICK o : o = Head(co.settlements)
  OBVIOUS
<1>1. /\ CoordinatorTypeOK /\ QueueFits /\ co.task \in [Worker -> Task]
      /\ co.settlements # <<>> /\ co.settlements \in Seq(Outcome)
      /\ co.mode = "working"
      /\ inputs' = inputs /\ Merged' = Merged /\ status' = status
  BY DEF PoolIInv, LoopIInv, CoordinatorTypeOK, CoordinatorState, ReadOutcome,
     vars, rowVars, Merged
<1>2. co' # Stopping("failing", "error")
  <2>1. "failing" \in Mode \ {"working"} /\ "error" \in Abort
    BY DEF Mode, Abort
  <2> QED
    BY <1>1, <2>1, StoppingEndsWork
<1>3. /\ co'.settlements = Tail(co.settlements)
      /\ co'.task = [co.task EXCEPT ![o.who] = "none"]
      /\ o = co.settlements[1] /\ Fits(o)
      /\ co'.dstop = co.dstop /\ co'.omitted = co.omitted
      /\ \/ /\ o.what \in {"accepted", "replaced", "canceled"}
            /\ co.buffer \subseteq co'.buffer
            /\ co'.consumed = co.consumed /\ co'.reduced = co.reduced
            /\ co'.noNewStreak = co.noNewStreak
         \/ /\ o.what = "reduced" /\ co'.buffer = co.buffer
            /\ co'.consumed = {} /\ co'.reduced /\ co'.noNewStreak = noNew
            /\ ~Saturated(noNew)
         \/ /\ o.what = "redfailed"
            /\ co'.buffer = co.buffer \cup co.consumed
            /\ co'.consumed = {} /\ co'.reduced = co.reduced
            /\ co'.noNewStreak = co.noNewStreak
  BY <1>0, <1>2, ReadFields
<1>4. /\ 1 \in DOMAIN co.settlements
      /\ co.task[o.who] = "settled"
      /\ o.what = "reduced" => co.consumed \subseteq Merged
  <2>1. 1 \in DOMAIN co.settlements
    BY <1>1, LenProperties, EmptySeq
  <2> QED
    BY <1>1, <1>3, <2>1 DEF QueueFits, KnownIInv, OneReduction
<1>5. \A i \in DOMAIN co'.settlements :
        i + 1 \in DOMAIN co.settlements
          /\ co'.settlements[i] = co.settlements[i + 1]
  BY <1>1, <1>3, HeadTailProperties, LenProperties, EmptySeq
<1>6. \A w \in Worker : co'.task[w] = IF w = o.who THEN "none" ELSE co.task[w]
  BY <1>1, <1>3
<1>7. \A i \in DOMAIN co'.settlements :
        co'.settlements[i].who \in Discovery
          /\ co'.settlements[i].what \in {"failed", "rejected"}
            => status'[co'.settlements[i].who] = "failed"
  BY <1>1, <1>5 DEF RemainsFit
<1>8. CASE o.what \in {"accepted", "replaced", "canceled"}
  <2>1. o.who \in Discovery
    BY <1>3, <1>8 DEF Fits
  <2>2. \A r \in Reducer : co'.task[r] = co.task[r]
    BY <1>6, <2>1, DiscoveryIsNoReducer
  <2>3. Occupied(Reducer)' = Occupied(Reducer)
    BY <2>2 DEF Occupied
  <2> QED
    BY <1>1, <1>3, <1>7, <1>8, <2>3 DEF RemainsFit
<1>9. CASE o.what \in {"reduced", "redfailed"}
  <2>1. o.who \in Reducer
    BY <1>3, <1>9 DEF Fits
  <2>2. Occupied(Reducer) # {} /\ Occupied(Reducer)' = {}
    BY <1>4, <1>6, <2>1, ReaderOfReducer, DiscoveryIsNoReducer
  <2>3. CASE o.what = "reduced"
    <3>1. noNew \in Nat /\ StopAfterNoNew \in Nat
      BY WorkbenchAssumption DEF IInv, TypeOK
    <3> QED
      BY <1>1, <1>3, <1>4, <1>7, <2>2, <2>3, <3>1 DEF RemainsFit, Saturated
  <2>4. CASE o.what = "redfailed"
    BY <1>1, <1>3, <1>7, <2>2, <2>4 DEF RemainsFit
  <2> QED
    BY <1>9, <2>3, <2>4
<1> QED
  BY <1>3, <1>8, <1>9

-----------------------------------------------------------------------------
\* Once an outcome is read, nothing else is less awaited.
LEMMA AwaitedAfterReading ==
  ASSUME CoordinatorTypeOK, QueueFits, co.settlements # <<>>,
         co'.settlements = Tail(co.settlements),
         co'.task = [co.task EXCEPT ![co.settlements[1].who] = "none"]
  PROVE  /\ 1 \in DOMAIN co.settlements /\ co.settlements[1].who \in Worker
         /\ co.task[co.settlements[1].who] = "settled"
         /\ \A d : d \in Awaited' <=>
              d \in Awaited /\ ~(AcceptedAt(1) /\ d = co.settlements[1].who)
<1>1. co.task \in [Worker -> Task] /\ co.settlements \in Seq(Outcome)
  BY DEF CoordinatorTypeOK, CoordinatorState
<1>2. PICK n \in Nat :
        /\ DOMAIN co.settlements = 1..n /\ n # 0
        /\ DOMAIN co'.settlements = 1..(n - 1)
        /\ \A i \in 1..(n - 1) : co'.settlements[i] = co.settlements[i + 1]
  BY <1>1, HeadTailProperties, LenProperties, EmptySeq
<1>3. /\ 1 \in DOMAIN co.settlements /\ co.settlements[1].who \in Worker
      /\ co.task[co.settlements[1].who] = "settled"
  BY <1>2, OutcomesHaveType DEF QueueFits
<1>4. \A d \in Discovery : co'.task[d] = "replying" <=> co.task[d] = "replying"
  BY <1>1, <1>3, DiscoveryIsNoReducer
<1>5. ASSUME NEW i \in DOMAIN co.settlements, i # 1
      PROVE  i - 1 \in DOMAIN co'.settlements
               /\ co'.settlements[i - 1] = co.settlements[i]
  <2>1. i - 1 \in 1..(n - 1) /\ (i - 1) + 1 = i
    BY <1>2, <1>5
  <2> QED
    BY <1>2, <2>1
<1>6. ASSUME NEW i \in DOMAIN co'.settlements
      PROVE  i + 1 \in DOMAIN co.settlements /\ i + 1 # 1
               /\ co'.settlements[i] = co.settlements[i + 1]
  BY <1>2
<1>7. ASSUME NEW d \in Awaited'
      PROVE  d \in Awaited /\ ~(AcceptedAt(1) /\ d = co.settlements[1].who)
  <2>1. d \in Discovery
    BY <1>7 DEF Awaited
  <2>2. CASE co'.task[d] = "replying"
    BY <1>3, <1>4, <2>1, <2>2 DEF Awaited
  <2>3. CASE co'.task[d] # "replying"
    <3>1. PICK i \in DOMAIN co'.settlements :
            AcceptedAt(i)' /\ co'.settlements[i].who = d
      BY <1>7, <2>3 DEF Awaited
    <3>2. /\ i + 1 \in DOMAIN co.settlements /\ i + 1 # 1
          /\ AcceptedAt(i + 1) /\ co.settlements[i + 1].who = d
      BY <1>6, <3>1 DEF AcceptedAt
    <3>3. d # co.settlements[1].who
      BY <1>3, <3>2 DEF QueueFits
    <3> QED
      BY <2>1, <3>2, <3>3 DEF Awaited
  <2> QED
    BY <2>2, <2>3
<1>8. ASSUME NEW d \in Awaited, ~(AcceptedAt(1) /\ d = co.settlements[1].who)
      PROVE  d \in Awaited'
  <2>1. d \in Discovery
    BY <1>8 DEF Awaited
  <2>2. CASE co.task[d] = "replying"
    BY <1>4, <2>1, <2>2 DEF Awaited
  <2>3. CASE co.task[d] # "replying"
    <3>1. PICK i \in DOMAIN co.settlements :
            AcceptedAt(i) /\ co.settlements[i].who = d
      BY <1>8, <2>3 DEF Awaited
    <3>2. i # 1
      BY <1>8, <3>1
    <3>3. /\ i - 1 \in DOMAIN co'.settlements
          /\ AcceptedAt(i - 1)' /\ co'.settlements[i - 1].who = d
      BY <1>5, <3>1, <3>2 DEF AcceptedAt
    <3> QED
      BY <2>1, <3>3 DEF Awaited
  <2> QED
    BY <2>2, <2>3
<1> QED
  BY <1>3, <1>7, <1>8

\* An accepted result that the loop has not read is on its way.
LEMMA UnreadIsAwaited ==
  ASSUME IInv, PoolIInv, LoopIInv, KnownIInv, NothingLost, RemainsFit,
         NEW d \in Buffered \cup Merging, d \notin co.buffer \cup co.consumed
  PROVE  d \in Awaited
<1>1. d \in Discovery /\ status[d] = "succeeded"
  BY Unmerged DEF Buffered, Merging
<1>2. CASE co.task[d] = "replying"
  BY <1>1, <1>2 DEF Awaited
<1>3. CASE co.task[d] = "settled"
  <2>1. PICK i \in DOMAIN co.settlements : co.settlements[i].who = d
    BY <1>1, <1>3, DiscoveryIsNoReducer DEF LoopIInv, QueueFits, NothingLost
  <2>2. co.settlements[i] \in Outcome /\ Fits(co.settlements[i])
    BY OutcomesHaveType DEF PoolIInv, OutcomesFit
  <2>3. co.settlements[i].what \notin {"canceled", "replaced"}
    BY <1>1, <2>1 DEF KnownIInv, NoResultIsDropped
  <2>4. co.settlements[i].what \notin {"failed", "rejected"}
    BY <1>1, <2>1 DEF RemainsFit
  <2>5. co.settlements[i].what \notin {"reduced", "redfailed"}
    BY <1>1, <2>1, <2>2, DiscoveryIsNoReducer DEF Fits
  <2>6. AcceptedAt(i)
    BY <2>2, <2>3, <2>4, <2>5 DEF Outcome, AcceptedAt
  <2> QED
    BY <1>1, <2>1, <2>6 DEF Awaited
<1> QED
  BY <1>2, <1>3 DEF KnownIInv, AcceptedIsKnown, NothingLost

\* A loop that saturates has reduced all it was told of, and waits for the rest.
LEMMA SaturatingFits ==
  ASSUME IInv, PoolIInv, LoopIInv, KnownIInv, NothingLost, RemainsFit, OrderFits,
         ReadOutcome, co'.mode = "draining"
  PROVE  DrainFits'
<1>0. PICK o : o = Head(co.settlements)
  OBVIOUS
<1>1. /\ CoordinatorTypeOK /\ QueueFits /\ co.task \in [Worker -> Task]
      /\ co.settlements # <<>> /\ co.settlements \in Seq(Outcome)
      /\ co.mode = "working"
      /\ UNCHANGED <<inputs, status, merge, noNew>>
  BY DEF PoolIInv, LoopIInv, CoordinatorTypeOK, CoordinatorState, ReadOutcome,
     vars, rowVars, counterVars
<1>2. co' # Stopping("failing", "error")
  <2>1. "failing" \in Mode \ {"draining"} /\ "error" \in Abort
    BY DEF Mode, Abort
  <2>2. co' = Stopping("failing", "error") => co'.mode = "failing"
    BY <1>1, <2>1, StoppingFields
  <2> QED
    BY <2>1, <2>2
<1>3. /\ co'.settlements = Tail(co.settlements)
      /\ co'.task = [co.task EXCEPT ![o.who] = "none"]
      /\ o = co.settlements[1] /\ Fits(o) /\ co'.omitted = co.omitted
      /\ o.what = "reduced" /\ Saturated(noNew) /\ co'.why = "saturated"
  BY <1>0, <1>2, ReadFields
<1>4. 1 \in DOMAIN co.settlements /\ co.task[o.who] = "settled"
      /\ co.consumed \subseteq Merged /\ status[o.who] = "succeeded"
      /\ o.who \in Reducer
  <2>1. 1 \in DOMAIN co.settlements
    BY <1>1, LenProperties, EmptySeq
  <2> QED
    BY <1>1, <1>3, <2>1
       DEF QueueFits, KnownIInv, OneReduction, LoopIInv, ReducerFits, EndFits, Fits
<1>5. \A w \in Worker : co'.task[w] = IF w = o.who THEN "none" ELSE co.task[w]
  BY <1>1, <1>3
<1>6. Occupied(Reducer)' = {}
  BY <1>4, <1>5, ReaderOfReducer, DiscoveryIsNoReducer
<1>7. AllMerged' /\ SomeReduced'
  BY <1>1, <1>3, <1>4 DEF AllMerged, RemainsFit, Saturated, SomeReduced, Merged
<1>8. \A d \in Buffered \cup Merging : d \in Awaited
  <2> SUFFICES ASSUME NEW d \in Buffered \cup Merging
               PROVE  d \notin co.buffer \cup co.consumed
    BY UnreadIsAwaited
  <2>1. d \in Discovery /\ merge[d] # "merged"
    BY Unmerged DEF Buffered, Merging
  <2> QED
    BY <1>3, <1>4, <2>1 DEF Saturated, Merged
<1>9. Buffered = Awaited /\ Merging = {}
  <2>1. Awaited \subseteq Buffered
    BY DEF OrderFits
  <2>2. \A d \in Merging : d \notin Buffered
    BY DEF Merging, Buffered
  <2> QED
    BY <1>8, <2>1, <2>2
<1>13. Awaited' = Awaited
  <2>1. co'.task = [co.task EXCEPT ![co.settlements[1].who] = "none"]
    BY <1>3
  <2>2. ~AcceptedAt(1)
    BY <1>3 DEF AcceptedAt
  <2> QED
    BY <1>1, <1>3, <2>1, <2>2, AwaitedAfterReading
<1>14. Buffered' = Buffered /\ Merging' = Merging
  BY <1>1 DEF Buffered, Merging
<1>15. noNew' >= StopAfterNoNew /\ co'.omitted = {}
  BY <1>1, <1>3 DEF Saturated, RemainsFit
<1> QED
  BY <1>3, <1>6, <1>7, <1>9, <1>13, <1>14, <1>15 DEF DrainFits

-----------------------------------------------------------------------------
\* What is awaited while a worker goes on.
LEMMA AwaitedGoingOn ==
  ASSUME CoordinatorTypeOK, NEW w \in Worker, NEW t \in Task, At(w, t),
         co.task[w] # "replying"
  PROVE  Awaited' = IF t = "replying" /\ w \in Discovery
                      THEN Awaited \cup {w} ELSE Awaited
<1>1. /\ \A v \in Worker : co'.task[v] = IF v = w THEN t ELSE co.task[v]
      /\ co'.settlements = co.settlements
  BY AtFields
<1>2. \A d \in Discovery : co'.task[d] = "replying" <=>
        co.task[d] = "replying" \/ (d = w /\ t = "replying")
  BY <1>1, DiscoveryIsNoReducer
<1>3. \A i : AcceptedAt(i)' <=> AcceptedAt(i)
  BY <1>1 DEF AcceptedAt
<1>4. \A d : d \in Awaited' <=>
        d \in Awaited \/ (d = w /\ w \in Discovery /\ t = "replying")
  BY <1>1, <1>2, <1>3 DEF Awaited
<1> QED
  BY <1>4

\* A worker that ends leaves what is awaited: its result, if it has one.
LEMMA AwaitedAtEnd ==
  ASSUME CoordinatorTypeOK, QueueFits, co.mode \in {"working", "draining"},
         NEW w \in Worker, NEW what, [who |-> w, what |-> what] \in Outcome,
         Report(w, what), co.task[w] \notin {"none", "settled"},
         what = "accepted" <=> w \in Discovery /\ co.task[w] = "replying"
  PROVE  Awaited' = Awaited
<1>1. /\ co'.settlements = Append(co.settlements, [who |-> w, what |-> what])
      /\ \A v \in Worker :
           co'.task[v] = IF v = w THEN "settled" ELSE co.task[v]
  BY ReportFields
<1>2. PICK n \in Nat :
        /\ DOMAIN co.settlements = 1..(n - 1)
        /\ DOMAIN co'.settlements = 1..n
        /\ \A i \in 1..(n - 1) : co'.settlements[i] = co.settlements[i]
        /\ co'.settlements[n] = [who |-> w, what |-> what]
  BY <1>1, QueueLonger
<1>3. \A d \in Discovery : co'.task[d] = "replying" <=>
        co.task[d] = "replying" /\ d # w
  BY <1>1, DiscoveryIsNoReducer
<1>4. ASSUME NEW d \in Discovery
      PROVE  (\E i \in DOMAIN co'.settlements :
                AcceptedAt(i)' /\ co'.settlements[i].who = d)
             <=> \/ \E i \in DOMAIN co.settlements :
                      AcceptedAt(i) /\ co.settlements[i].who = d
                 \/ d = w /\ what = "accepted"
  <2>1. \A i \in 1..n : i \in 1..(n - 1) \/ i = n
    OBVIOUS
  <2>2. \A i \in 1..(n - 1) : i \in 1..n
    OBVIOUS
  <2>3. n \in 1..n
    <3>1. n # 0
      BY <1>1, <1>2, AppendProperties DEF CoordinatorTypeOK, CoordinatorState
    <3> QED
      BY <3>1
  <2> QED
    BY <1>2, <2>1, <2>2, <2>3 DEF AcceptedAt
<1>5. \A d : d \in Awaited' <=> d \in Awaited
  BY <1>3, <1>4 DEF Awaited
<1> QED
  BY <1>5

\* A saturated loop has no reducer, so that the ledger stands.
LEMMA DrainKept ==
  ASSUME IInv, IInv', [Next]_vars, DrainFits, inputs' = inputs, noNew' = noNew,
         co'.why = co.why, \A r \in Reducer : co'.task[r] = co.task[r],
         Merging' = {}, Buffered' = co'.omitted \cup Awaited'
  PROVE  DrainFits'
<1>1. /\ \A w \in Worker : Final(w) => status'[w] = status[w]
      /\ Merged \subseteq Merged'
  BY RowsGoOn
<1>2. SomeReduced' /\ AllMerged'
  BY <1>1, DiscoveryIsNoReducer DEF DrainFits, SomeReduced, AllMerged, Final
<1>3. Occupied(Reducer)' = {}
  BY DEF DrainFits, Occupied
<1> QED
  BY <1>2, <1>3 DEF DrainFits

LEMMA LateKeepsDrain ==
  ASSUME IInv, IInv', PoolIInv, LoopIInv, [Next]_vars, DrainFits, ReconcileLate
  PROVE  DrainFits'
<1>0. PICK o : o = Head(co.settlements)
  OBVIOUS
<1>1. /\ CoordinatorTypeOK /\ QueueFits /\ co.settlements # <<>>
      /\ co.settlements \in Seq(Outcome) /\ co \in CoordinatorState
      /\ co.task \in [Worker -> Task]
      /\ UNCHANGED <<inputs, noNew, merge, status>>
  BY DEF PoolIInv, LoopIInv, CoordinatorTypeOK, CoordinatorState, ReconcileLate,
     vars, rowVars, counterVars
<1>2. co' = [co EXCEPT
               !.settlements = Tail(@), !.task[o.who] = "none",
               !.omitted = IF o.what = "accepted" THEN @ \cup {o.who} ELSE @]
  BY <1>0 DEF ReconcileLate
<1>3. /\ co'.settlements = Tail(co.settlements) /\ co'.why = co.why
      /\ co'.task = [co.task EXCEPT ![o.who] = "none"]
      /\ co'.omitted = IF o.what = "accepted"
                         THEN co.omitted \cup {o.who} ELSE co.omitted
  BY <1>1, <1>2 DEF CoordinatorState
<1>4. o = co.settlements[1]
  BY <1>0, <1>1, HeadTailProperties
<1>5. /\ 1 \in DOMAIN co.settlements /\ o.who \in Worker
      /\ co.task[o.who] = "settled"
      /\ \A d : d \in Awaited' <=> d \in Awaited /\ ~(AcceptedAt(1) /\ d = o.who)
  <2>1. co'.task = [co.task EXCEPT ![co.settlements[1].who] = "none"]
    BY <1>3, <1>4
  <2> QED
    BY <1>1, <1>3, <1>4, <2>1, AwaitedAfterReading
<1>6. AcceptedAt(1) <=> o.what = "accepted"
  BY <1>4 DEF AcceptedAt
<1>7. o.what = "accepted" => o.who \in Awaited
  <2>1. Fits(o)
    BY <1>4, <1>5 DEF PoolIInv, OutcomesFit
  <2> QED
    BY <1>4, <1>5, <1>6, <2>1 DEF Fits, Awaited
<1>8. co'.omitted \cup Awaited' = co.omitted \cup Awaited
  BY <1>3, <1>5, <1>6, <1>7
<1>9. Buffered' = Buffered /\ Merging' = Merging
  BY <1>1 DEF Buffered, Merging
<1>10. \A r \in Reducer : co'.task[r] = co.task[r]
  BY <1>1, <1>3, <1>5, DiscoveryIsNoReducer DEF DrainFits, Occupied
<1> QED
  BY <1>1, <1>3, <1>8, <1>9, <1>10, DrainKept DEF DrainFits

\* Without a reducer, a worker of a saturated loop is a discovery.
LEMMA WorkerKeepsDrain ==
  ASSUME IInv, IInv', PoolIInv, LoopIInv, [Next]_vars, DrainFits,
         co.mode = "draining", RunningScan, NEW w \in Worker,
         WorkerProceeds(w) \/ RetryAttempt(w)
  PROVE  DrainFits'
<1>0. /\ CoordinatorTypeOK /\ QueueFits /\ merge \in [Discovery -> MergeState]
      /\ {"queued", "running", "saving", "replying"} \subseteq Task
  BY DEF PoolIInv, LoopIInv, IInv, TypeOK, Task
<1>1. co.task[w] \notin {"none", "settled"}
  BY DEF WorkerProceeds, InsertDiscovery, StoreDiscovery, GiveUpDiscovery,
     InsertReducer, StoreReduction, GiveUpReducer, BeginAttempt, AbandonAttempt,
     Refused, SendsRefused, SaveResult, Answer, RetryAttempt
<1>2. w \in Discovery /\ w \notin Reducer
  BY <1>1, DiscoveryIsNoReducer DEF DrainFits, Occupied, Worker
<1> DEFINE Quiet == merge' = merge /\ inputs' = inputs /\ noNew' = noNew
<1>3. Quiet => Buffered' = Buffered /\ Merging' = {}
  <2> SUFFICES ASSUME Quiet PROVE Buffered' = Buffered /\ Merging' = {}
    OBVIOUS
  <2>1. Buffered' = Buffered
    BY Unmerged, RowsGoOn, DiscoveryIsNoReducer
       DEF Buffered, IInv, MergeMatchesStatus
  <2> QED
    BY <2>1 DEF DrainFits, Merging
<1>4. ASSUME NEW what, [who |-> w, what |-> what] \in Outcome, Report(w, what),
             what = "accepted" <=> co.task[w] = "replying", Quiet
      PROVE  DrainFits'
  <2>1. Awaited' = Awaited
    BY <1>0, <1>1, <1>2, <1>4, AwaitedAtEnd
  <2>2. /\ co'.why = co.why /\ co'.omitted = co.omitted
        /\ \A r \in Reducer : co'.task[r] = co.task[r]
    BY <1>0, <1>2, <1>4, ReportFields, DiscoveryIsNoReducer
  <2> QED
    BY <1>3, <1>4, <2>1, <2>2, DrainKept DEF DrainFits
<1>5. ASSUME NEW t \in {"queued", "running", "saving"}, At(w, t),
             co.task[w] # "replying", Quiet
      PROVE  DrainFits'
  <2>1. Awaited' = Awaited
    BY <1>0, <1>5, AwaitedGoingOn
  <2>2. t \in Task /\ CoordinatorTypeOK /\ At(w, t)
    BY <1>0, <1>5
  <2>3. /\ co'.why = co.why /\ co'.omitted = co.omitted
        /\ \A v \in Worker : co'.task[v] = IF v = w THEN t ELSE co.task[v]
    BY <2>2, AtFields
  <2>4. \A r \in Reducer : co'.task[r] = co.task[r]
    BY <1>2, <2>3, DiscoveryIsNoReducer
  <2> QED
    BY <1>3, <1>5, <2>1, <2>3, <2>4, DrainKept DEF DrainFits
<1> HIDE DEF Quiet
<1>6. CASE InsertDiscovery(w) \/ BeginAttempt(w) \/ SaveResult(w)
  <2>1. /\ At(w, "queued") \/ At(w, "running") \/ At(w, "saving")
        /\ co.task[w] # "replying" /\ Quiet
    BY <1>6 DEF InsertDiscovery, NewDiscovery, BeginAttempt, StartAttempt,
       SaveResult, vars, counterVars, rowVars, Quiet
  <2> QED
    BY <1>5, <2>1
<1>7. CASE RetryAttempt(w)
  <2>1. UNCHANGED co /\ Quiet
    BY <1>7 DEF RetryAttempt, StartAttempt, counterVars, Quiet
  <2>2. Awaited' = Awaited
    BY <2>1 DEF Awaited, AcceptedAt
  <2> QED
    BY <1>3, <2>1, <2>2, DrainKept DEF DrainFits, Quiet
<1>8. CASE GiveUpDiscovery(w) \/ AbandonAttempt(w) \/ Refused(w)
  <2>1. PICK what \in {"replaced", "failed", "canceled", "rejected"} :
          Report(w, what)
    BY <1>8 DEF GiveUpDiscovery, AbandonAttempt, Refused, Cancellation,
       AfterFailedWrite
  <2>2. [who |-> w, what |-> what] \in Outcome /\ what # "accepted"
    BY DEF Outcome
  <2>3. co.task[w] # "replying" /\ Quiet
    BY <1>8 DEF GiveUpDiscovery, ReplaceDiscovery, FailDiscovery, AbandonAttempt,
       CancelWorker, Refused, SendsRefused, vars, rowVars, counterVars, Quiet
  <2> QED
    BY <1>4, <2>1, <2>2, <2>3
<1>9. CASE Answer(w)
  <2>1. Report(w, "accepted") /\ co.task[w] = "replying" /\ Quiet
    BY <1>2, <1>9 DEF Answer, vars, rowVars, counterVars, Quiet
  <2>2. [who |-> w, what |-> "accepted"] \in Outcome
    BY DEF Outcome
  <2> QED
    BY <1>4, <2>1, <2>2
<1>10. CASE StoreDiscovery(w)
  <2>1. /\ At(w, "replying") /\ co.task[w] = "saving"
        /\ merge' = [merge EXCEPT ![w] = "buffered"]
        /\ inputs' = inputs /\ noNew' = noNew
    BY <1>10 DEF StoreDiscovery, AcceptDiscovery
  <2>2. Awaited' = Awaited \cup {w}
    <3>1. "replying" \in Task /\ CoordinatorTypeOK /\ At(w, "replying")
          /\ co.task[w] # "replying"
      BY <1>0, <2>1
    <3> QED
      BY <1>2, <3>1, AwaitedGoingOn
  <2>3. "replying" \in Task /\ CoordinatorTypeOK /\ At(w, "replying")
    BY <1>0, <2>1
  <2>4. /\ co'.why = co.why /\ co'.omitted = co.omitted
        /\ \A v \in Worker : co'.task[v] = IF v = w THEN "replying" ELSE co.task[v]
    BY <2>3, AtFields
  <2>5. \A r \in Reducer : co'.task[r] = co.task[r]
    BY <1>2, <2>4, DiscoveryIsNoReducer
  <2>6. \A d \in Discovery : merge'[d] = IF d = w THEN "buffered" ELSE merge[d]
    BY <1>0, <1>2, <2>1
  <2>7. \A d \in Discovery : /\ d \in Buffered' <=> merge'[d] = "buffered"
                             /\ d \in Buffered <=> merge[d] = "buffered"
    BY DEF IInv, MergeMatchesStatus, Buffered
  <2>8. Buffered' = Buffered \cup {w}
    <3>1. \A d : d \in Buffered' <=> d \in Buffered \/ d = w
      BY <1>2, <2>6, <2>7 DEF Buffered
    <3> QED
      BY <3>1
  <2>9. Merging' = {}
    BY <2>6 DEF DrainFits, Merging
  <2> QED
    BY <2>1, <2>2, <2>4, <2>5, <2>8, <2>9, DrainKept DEF DrainFits
<1> QED
  BY <1>2, <1>6, <1>7, <1>8, <1>9, <1>10 DEF WorkerProceeds

\* What a worker does while the loop goes on.
LEMMA WorkersKeepRemains ==
  ASSUME IInv, IInv', PoolIInv, LoopIInv, KnownIInv, [Next]_vars, RemainsFit,
         NothingLost, RunningScan, NEW w \in Worker,
         WorkerProceeds(w) \/ RetryAttempt(w)
  PROVE  RemainsFit'
<1>0. /\ CoordinatorTypeOK /\ QueueFits /\ co.mode = "working"
      /\ status \in [Worker -> WorkerStatus]
      /\ inputs \in [Reducer -> SUBSET Discovery]
      /\ {"queued", "running", "saving", "replying"} \subseteq Task
  BY DEF PoolIInv, LoopIInv, IInv, TypeOK, Task, NothingLost
<1>1. co.task[w] \notin {"none", "settled"}
  BY DEF WorkerProceeds, InsertDiscovery, StoreDiscovery, GiveUpDiscovery,
     InsertReducer, StoreReduction, GiveUpReducer, BeginAttempt, AbandonAttempt,
     Refused, SendsRefused, SaveResult, Answer, RetryAttempt
<1>2. \A r \in Reducer : inputs'[r] = inputs[r] \/ inputs'[r] = co.consumed
  <2>1. \/ inputs' = inputs
        \/ w \in Reducer /\ inputs' = [inputs EXCEPT ![w] = co.consumed]
    BY DEF WorkerProceeds, InsertDiscovery, NewDiscovery, StoreDiscovery,
       AcceptDiscovery, GiveUpDiscovery, ReplaceDiscovery, FailDiscovery,
       InsertReducer, ClaimDedup, StoreReduction, CommitDedup, GiveUpReducer,
       FailReducer, BeginAttempt, StartAttempt, AbandonAttempt, CancelWorker,
       Refused, SaveResult, Answer, RetryAttempt, vars, rowVars
  <2> QED
    BY <1>0, <2>1
<1>3. CASE \E t \in {"queued", "running", "saving", "replying"} : At(w, t)
  <2>1. PICK t \in {"queued", "running", "saving", "replying"} : At(w, t)
    BY <1>3
  <2>2. t \in Task /\ CoordinatorTypeOK /\ t # "none"
    BY <1>0
  <2>3. /\ \A v \in Worker : co'.task[v] = IF v = w THEN t ELSE co.task[v]
        /\ co'.settlements = co.settlements /\ co'.dstop = co.dstop
        /\ co'.buffer = co.buffer /\ co'.consumed = co.consumed
        /\ co'.reduced = co.reduced /\ co'.noNewStreak = co.noNewStreak
        /\ co'.omitted = co.omitted
    BY <2>1, <2>2, AtFields
  <2>4. \A r \in Reducer : co'.task[r] # "none" <=> co.task[r] # "none"
    BY <1>1, <2>2, <2>3, DiscoveryIsNoReducer
  <2> QED
    BY <1>2, <2>3, <2>4, WorkerKeepsRemains
<1>4. CASE UNCHANGED co
  BY <1>2, <1>4, WorkerKeepsRemains
<1>5. ASSUME NEW what, [who |-> w, what |-> what] \in Outcome, Report(w, what),
             w \in Discovery /\ what \in {"failed", "rejected"}
               => status'[w] = "failed"
      PROVE  RemainsFit'
  <2>1. /\ co'.settlements = Append(co.settlements, [who |-> w, what |-> what])
        /\ \A v \in Worker :
             co'.task[v] = IF v = w THEN "settled" ELSE co.task[v]
        /\ co'.dstop = co.dstop
        /\ co'.buffer = co.buffer /\ co'.consumed = co.consumed
        /\ co'.reduced = co.reduced /\ co'.noNewStreak = co.noNewStreak
        /\ co'.omitted = co.omitted
    BY <1>0, <1>5, ReportFields
  <2>2. PICK n \in Nat :
          /\ DOMAIN co.settlements = 1..(n - 1)
          /\ DOMAIN co'.settlements = 1..n
          /\ \A i \in 1..(n - 1) : co'.settlements[i] = co.settlements[i]
          /\ co'.settlements[n] = [who |-> w, what |-> what]
    BY <1>0, <1>1, <2>1, QueueLonger
  <2>3. \A i \in DOMAIN co'.settlements :
          \/ /\ i \in DOMAIN co.settlements
             /\ co'.settlements[i] = co.settlements[i]
          \/ /\ co'.settlements[i].who \in Discovery
             /\ co'.settlements[i].what \in {"failed", "rejected"}
             => status'[co'.settlements[i].who] = "failed"
    <3>1. \A i \in 1..n : i \in 1..(n - 1) \/ i = n
      OBVIOUS
    <3> QED
      BY <1>5, <2>2, <3>1
  <2>4. \A r \in Reducer : co'.task[r] # "none" <=> co.task[r] # "none"
    BY <1>1, <2>1, DiscoveryIsNoReducer
  <2> QED
    BY <1>2, <2>1, <2>3, <2>4, WorkerKeepsRemains
<1>6. ASSUME NEW what \in {"accepted", "replaced", "canceled", "failed",
                           "reduced", "redfailed", "rejected"}
      PROVE  [who |-> w, what |-> what] \in Outcome
  BY DEF Outcome
<1>7. CASE \/ w \in Discovery /\ (InsertDiscovery(w) \/ StoreDiscovery(w))
           \/ InsertReducer(w) \/ \E new \in {0, 1} : StoreReduction(w, new)
           \/ BeginAttempt(w) \/ SaveResult(w)
  BY <1>3, <1>7 DEF InsertDiscovery, StoreDiscovery, InsertReducer,
     StoreReduction, BeginAttempt, SaveResult
<1>8. CASE RetryAttempt(w)
  BY <1>4, <1>8 DEF RetryAttempt
<1>9. CASE w \in Discovery /\ GiveUpDiscovery(w)
  <2>1. \/ Report(w, "replaced")
        \/ Report(w, "failed") /\ status' = [status EXCEPT ![w] = "failed"]
    BY <1>9 DEF GiveUpDiscovery, FailDiscovery
  <2> QED
    BY <1>0, <1>5, <1>6, <2>1
<1>10. CASE w \in Reducer /\ GiveUpReducer(w)
  <2>1. Report(w, "redfailed") \/ Report(w, "rejected")
    BY <1>10 DEF GiveUpReducer
  <2> QED
    BY <1>5, <1>6, <1>10, <2>1, DiscoveryIsNoReducer
<1>11. CASE AbandonAttempt(w) \/ Answer(w)
  <2>1. \/ Report(w, "canceled") \/ Report(w, "accepted") \/ Report(w, "reduced")
        \/ w \notin Discovery /\ Report(w, "rejected")
    BY <1>11 DEF AbandonAttempt, Cancellation, Answer
  <2> QED
    BY <1>5, <1>6, <2>1
<1>12. CASE Refused(w)
  <2>1. w \notin Discovery
    <3> SUFFICES ASSUME w \in Discovery PROVE FALSE
      OBVIOUS
    <3>1. co.task[w] = "spawned" /\ dispatched >= MaxDiscoveryRuns
      BY <1>12 DEF Refused, SendsRefused
    <3>2. Spawned \subseteq Discovery /\ w \in Spawned
      BY <3>1 DEF Spawned
    <3>3. Cardinality(Spawned) \in Nat /\ Cardinality(Spawned) # 0
      BY <3>2, DiscoverySetsFinite, FS_EmptySet
    <3>4. dispatched \in Nat /\ MaxDiscoveryRuns \in Nat
      BY WorkbenchAssumption DEF IInv, TypeOK
    <3> QED
      BY <3>1, <3>3, <3>4 DEF LoopIInv, BudgetFits
  <2>2. Report(w, "canceled") \/ Report(w, "rejected")
    BY <1>12 DEF Refused, AfterFailedWrite
  <2> QED
    BY <1>5, <1>6, <2>1, <2>2
<1> QED
  BY <1>7, <1>8, <1>9, <1>10, <1>11, <1>12 DEF WorkerProceeds

-----------------------------------------------------------------------------
\* A failed reducer is forgiven once all that reducers claimed is merged.
LEMMA MergedClaimsForgive ==
  ASSUME IInv, ResultsFit, AllMerged, NEW r \in Reducer, status[r] = "failed"
  PROVE  Covered(r)
<1>1. inputs[r] # {} /\ inputs[r] \subseteq Merged /\ inputs[r] \subseteq Discovery
  BY DEF ResultsFit, AllMerged, IInv, TypeOK
<1>2. \A d \in inputs[r] : \E q \in Reducer :
        status[q] = "succeeded" /\ d \in inputs[q]
  BY <1>1 DEF Merged, IInv, MergedExactlyOnce
<1> QED
  BY <1>1, <1>2 DEF Covered

\* A saturated end is accepted when it names what is left.
LEMMA SaturatedIsFinishable ==
  ASSUME IInv, ResultsFit, AllMerged, SomeReduced, noNew >= StopAfterNoNew,
         Merging = {}
  PROVE  Finishable("saturated", Buffered)
<1>1. ~BlockingFailure("saturated")
  BY MergedClaimsForgive DEF BlockingFailure
<1>2. MergeAtFinish("saturated") = merge
  BY DEF MergeAtFinish, FailureCapped
<1>3. Buffered = LeftOver("saturated")
  BY <1>2 DEF LeftOver, Buffered, IInv, MergeMatchesStatus
<1>4. \A d \in Discovery : MergeAtFinish("saturated")[d] # "merging"
  BY <1>2 DEF Merging
<1>5. MayStop("saturated") /\ OmissionAllowed("saturated")
  BY DEF MayStop, OmissionAllowed
<1> QED
  BY <1>1, <1>3, <1>4, <1>5 DEF Finishable

\* An end within the limits is accepted when nothing is left.
LEMMA CappedIsFinishable ==
  ASSUME IInv, ResultsFit, AllMerged, NoneFailed, Capped,
         Buffered \cup Merging = {}, ~SomeActive(Worker), SomeReduced \/ deadline
  PROVE  Finishable("capped", {})
<1>0. merge \in [Discovery -> MergeState]
  BY DEF IInv, TypeOK
<1>1. ~BlockingFailure("capped")
  BY MergedClaimsForgive DEF BlockingFailure, NoneFailed
<1>2. \A d \in Discovery : merge[d] \notin {"buffered", "merging"}
  BY Unmerged DEF Merging
<1>3. \A d \in Discovery : MergeAtFinish("capped")[d] \notin {"buffered", "merging"}
  BY <1>2 DEF MergeAtFinish, WithRebuffered
<1>4. LeftOver("capped") = {}
  BY <1>3 DEF LeftOver
<1>5. SomeReduced \/ NothingToReduce("capped")
  <2> SUFFICES ASSUME ~SomeReduced PROVE accepted = 0
    BY DEF NothingToReduce
  <2> SUFFICES ASSUME accepted # 0 PROVE FALSE
    OBVIOUS
  <2>1. PICK d \in Discovery : status[d] = "succeeded"
    BY DEF ResultsFit
  <2>2. merge[d] = "merged"
    BY <1>2, <2>1, Unmerged
  <2> QED
    BY <2>2 DEF IInv, MergedExactlyOnce, SomeReduced
<1>6. MayStop("capped")
  BY DEF MayStop
<1> QED
  BY <1>1, <1>3, <1>4, <1>5, <1>6 DEF Finishable

\* A loop with nothing left to do ends within its limits.
LEMMA ExhaustedIsAccepted ==
  ASSUME IInv, PoolIInv, LoopIInv, KnownIInv, NothingLost, ResultsFit, OwnedFits,
         RemainsFit, Exhausted, co'.mode = "finishing"
  PROVE  EndIsAccepted'
<1>1. /\ co \in CoordinatorState /\ co.mode = "working" /\ Settled /\ Slots = 0
      /\ co.buffer = {} /\ CoordinatorTypeOK
  BY DEF PoolIInv, CoordinatorTypeOK, Exhausted
<1>2. /\ co.reduced \/ co.dstop
      /\ co' = [co EXCEPT !.mode = "finishing", !.why = "capped"]
  <2>1. "failing" \in Mode \ {"finishing"} /\ "error" \in Abort
    BY DEF Mode, Abort
  <2>2. co' = Stopping("failing", "error") => co'.mode = "failing"
    BY <1>1, <2>1, StoppingFields
  <2> QED
    BY <2>1, <2>2 DEF Exhausted
<1>3. co'.why = "capped" /\ co'.omitted = co.omitted /\ co'.task = co.task
  BY <1>1, <1>2 DEF CoordinatorState
<1>4. /\ Occupied(Reducer) = {} /\ Occupied(Discovery) = {} /\ Spawned = {}
      /\ \A w \in Worker : co.task[w] = "none"
  BY <1>1, DiscoveryIsNoReducer DEF Settled, Occupied, Spawned
<1>5. co.consumed = {}
  BY <1>4 DEF KnownIInv, OneReduction
<1>6. Buffered \cup Merging = {}
  <2> SUFFICES ASSUME NEW d \in Buffered \cup Merging PROVE FALSE
    OBVIOUS
  <2>1. d \in Worker
    BY DiscoveryIsNoReducer DEF Buffered, Merging
  <2> QED
    BY <1>1, <1>4, <1>5, <2>1 DEF KnownIInv, AcceptedIsKnown
<1>7. AllMerged
  BY <1>1, <1>5 DEF AllMerged, RemainsFit
<1>8. ~SomeActive(Worker)
  BY <1>1, <1>4, DiscoveryIsNoReducer
     DEF SomeActive, OwnedFits, LoopIInv, ReducerFits, Worker
<1>9. co.dstop => deadline
  BY DEF LoopIInv, QueueFits
<1>10. SomeReduced \/ deadline
  BY <1>2, <1>9 DEF LoopIInv, ReducerFits
<1>11. Capped
  <2>1. CASE co.dstop
    BY <1>9, <2>1 DEF Capped
  <2>2. CASE ~co.dstop
    <3>1. ~(co.reduced /\ co.noNewStreak >= StopAfterNoNew)
      BY <1>1, <1>4, <2>2 DEF RemainsFit
    <3>2. Cardinality(Occupied(Discovery)) = 0 /\ Cardinality(Spawned) = 0
      BY <1>4, FS_EmptySet
    <3>3. /\ PoolSize \in Nat \ {0} /\ MaxDiscoveryRuns \in Nat
          /\ co.dispatched \in Nat /\ dispatched \in Nat
      BY <1>1, CoordinatorAssumption, WorkbenchAssumption
         DEF CoordinatorState, IInv, TypeOK
    <3>4. MaxDiscoveryRuns - co.dispatched = 0
      BY <1>1, <2>2, <3>1, <3>2, <3>3 DEF Slots
    <3>5. dispatched = MaxDiscoveryRuns
      BY <3>2, <3>3, <3>4 DEF OwnedFits
    <3> QED
      BY <3>3, <3>5 DEF Capped
  <2> QED
    BY <2>1, <2>2
<1>12. NoneFailed => Finishable("capped", {})
  BY <1>6, <1>7, <1>8, <1>10, <1>11, CappedIsFinishable
<1>13. Settled' /\ co'.omitted = {}
  BY <1>3, <1>4 DEF Settled, RemainsFit
<1>14. NoneFailed' = NoneFailed /\ Finishable("capped", {})' = Finishable("capped", {})
  BY DEF Exhausted, vars, runVars, leaseVars, counterVars, rowVars, historyVars,
     NoneFailed, Finishable, MayStop, FailureCapped, SomeReduced, NothingToReduce,
     BlockingFailure, Covered, SomeActive, Active, MergeAtFinish, WithRebuffered,
     ClaimedBy, LeftOver, OmissionAllowed, Capped
<1> QED
  BY <1>3, <1>12, <1>13, <1>14 DEF EndIsAccepted

\* A saturated loop that waited for its discoveries names what they brought.
LEMMA SaturatedEnd ==
  IInv /\ ResultsFit /\ AllMerged /\ SomeReduced /\ noNew >= StopAfterNoNew
    /\ Merging = {} /\ Settled /\ co.why = "saturated" /\ co.omitted = Buffered
  => EndIsAccepted
BY SaturatedIsFinishable DEF EndIsAccepted

LEMMA SaturatedEndNext ==
  (IInv /\ ResultsFit /\ AllMerged /\ SomeReduced /\ noNew >= StopAfterNoNew
    /\ Merging = {} /\ Settled /\ co.why = "saturated" /\ co.omitted = Buffered)'
  => EndIsAccepted'
BY SaturatedEnd, PTL

LEMMA DrainedIsAccepted ==
  ASSUME IInv, PoolIInv, LoopIInv, ResultsFit, DrainFits, Drained
  PROVE  EndIsAccepted'
<1>1. /\ co \in CoordinatorState /\ Settled
      /\ co' = [co EXCEPT !.mode = "finishing"]
  BY DEF PoolIInv, CoordinatorTypeOK, Drained
<1>2. co'.why = co.why /\ co'.omitted = co.omitted /\ co'.task = co.task
  BY <1>1 DEF CoordinatorState
<1>3. Awaited = {}
  <2>1. \A i \in DOMAIN co.settlements : FALSE
    BY <1>1, OutcomesHaveType DEF LoopIInv, QueueFits, Settled, PoolIInv
  <2>2. \A d \in Discovery : co.task[d] # "replying"
    BY <1>1, DiscoveryIsNoReducer DEF Settled
  <2> QED
    BY <2>1, <2>2 DEF Awaited
<1>4. EndIsAccepted
  BY <1>1, <1>3, SaturatedEnd DEF DrainFits
<1>5. UNCHANGED vars
  BY DEF Drained
<1> QED
  BY <1>2, <1>4, <1>5
     DEF vars, runVars, leaseVars, counterVars, rowVars, historyVars,
     EndIsAccepted, Settled, NoneFailed, Finishable, MayStop, FailureCapped,
     SomeReduced, NothingToReduce, BlockingFailure, Covered, SomeActive, Active,
     MergeAtFinish, WithRebuffered, ClaimedBy, LeftOver, OmissionAllowed, Capped

\* An end that would be accepted still is once the clocks went on.
LEMMA WaitingKeepsEnd ==
  ASSUME IInv, EndIsAccepted, deadline => deadline', UNCHANGED co,
         UNCHANGED <<status, merge, inputs, noNew, accepted, dispatched>>
  PROVE  EndIsAccepted'
<1>1. /\ Settled' = Settled /\ NoneFailed' = NoneFailed
      /\ SomeReduced' = SomeReduced /\ SomeActive(Worker)' = SomeActive(Worker)
      /\ \A why : FailureCapped(why)' = FailureCapped(why)
  BY DEF Settled, NoneFailed, SomeReduced, SomeActive, Active, FailureCapped
<1>2. \A why : /\ MayStop(why) => MayStop(why)'
               /\ NothingToReduce(why) => NothingToReduce(why)'
  BY <1>1 DEF MayStop, NothingToReduce, Capped
<1>3. \A why : /\ BlockingFailure(why)' = BlockingFailure(why)
               /\ MergeAtFinish(why)' = MergeAtFinish(why)
               /\ OmissionAllowed(why)' = OmissionAllowed(why)
  BY <1>1 DEF BlockingFailure, Covered, MergeAtFinish, WithRebuffered, ClaimedBy,
     OmissionAllowed
<1>4. \A why : LeftOver(why)' = LeftOver(why)
  BY <1>3 DEF LeftOver
<1>5. ASSUME NEW why, NEW S, Finishable(why, S) PROVE Finishable(why, S)'
  BY <1>1, <1>2, <1>3, <1>4, <1>5 DEF Finishable
<1> QED
  BY <1>1, <1>5 DEF EndIsAccepted

\* A coordinator that takes over has in hand all that was accepted and is not
\* in the ledger; if it ends at once, nothing is.
LEMMA AdoptionFits ==
  ASSUME IInv, IInv', ResultsFit', Claim
  PROVE  FinishFits'
<1>1. /\ co'.mode # "draining" /\ co'.dstop = deadline /\ deadline' = deadline
      /\ co'.settlements = <<>>
      /\ co'.buffer = (Buffered \cup Merging)' /\ co'.consumed = {}
      /\ co'.noNewStreak = noNew' /\ (co'.reduced <=> SomeReduced')
      /\ co'.omitted = {}
      /\ co'.mode = "working" =>
           deadline \/ ~co'.reduced \/ noNew' < StopAfterNoNew
             \/ co'.buffer # {}
      /\ co'.mode = "finishing" =>
           /\ co'.why = "saturated" /\ co'.reduced
           /\ noNew' >= StopAfterNoNew /\ co'.buffer = {}
      /\ \A w \in Worker : co'.task[w] = "none"
  BY ClaimFields
<1>2. ASSUME NEW r \in Reducer, NEW d \in inputs'[r]
      PROVE  d \in Merged' \cup co'.buffer
  <2>1. d \in Discovery /\ status'[d] = "succeeded"
    BY DEF ResultsFit, IInv, TypeOK
  <2>2. merge'[d] \in {"buffered", "merging", "merged"}
    BY <2>1 DEF IInv, TypeOK, MergeState, MergeMatchesStatus
  <2> QED
    BY <1>1, <2>1, <2>2 DEF Merged, Buffered, Merging
<1>3. Settled' /\ Occupied(Reducer)' = {} /\ DOMAIN co'.settlements = {}
  <2>1. DOMAIN co'.settlements = {}
    BY <1>1
  <2>2. Settled'
    BY <1>1 DEF Settled
  <2>3. \A r \in Reducer : co'.task[r] = "none"
    BY <1>1, DiscoveryIsNoReducer
  <2>4. Occupied(Reducer)' = {}
    BY <2>3 DEF Occupied
  <2> QED
    BY <2>1, <2>2, <2>4
<1>4. ASSUME co'.mode = "working" PROVE RemainsFit'
  <2>1. noNew' \in Nat /\ StopAfterNoNew \in Nat
    BY WorkbenchAssumption DEF IInv, TypeOK
  <2>2. \A r \in Reducer :
          inputs'[r] \subseteq Merged' \cup co'.buffer \cup co'.consumed
    BY <1>2
  <2> QED
    BY <1>1, <1>3, <1>4, <2>1, <2>2 DEF RemainsFit
<1>5. ASSUME co'.mode = "finishing" PROVE EndIsAccepted'
  <2>1. Buffered' = {} /\ Merging' = {}
    BY <1>1, <1>5
  <2>2. AllMerged'
    BY <1>1, <1>2, <1>5 DEF AllMerged
  <2>3. SomeReduced' /\ noNew' >= StopAfterNoNew /\ co'.why = "saturated"
        /\ co'.omitted = Buffered'
    BY <1>1, <1>5, <2>1
  <2> QED
    BY <1>3, <2>1, <2>2, <2>3, SaturatedEndNext
<1> QED
  BY <1>1, <1>4, <1>5 DEF FinishFits

\* A worker of a loop that is over cannot be one that may finish.
LEMMA WorkersKeepFinish ==
  ASSUME IInv, IInv', PoolIInv, LoopIInv, KnownIInv, [Next]_vars, FinishFits,
         Calm, NEW w \in Worker, WorkerProceeds(w) \/ RetryAttempt(w)
  PROVE  FinishFits'
<1>1. co'.mode = co.mode
  BY DEF WorkerProceeds, InsertDiscovery, StoreDiscovery, GiveUpDiscovery,
     InsertReducer, StoreReduction, GiveUpReducer, BeginAttempt, AbandonAttempt,
     Refused, SaveResult, Answer, RetryAttempt, At, Report, PoolIInv,
     CoordinatorTypeOK, CoordinatorState
<1>2. co.task[w] # "none"
  BY DEF WorkerProceeds, InsertDiscovery, StoreDiscovery, GiveUpDiscovery,
     InsertReducer, StoreReduction, GiveUpReducer, BeginAttempt, AbandonAttempt,
     Refused, SendsRefused, SaveResult, Answer, RetryAttempt
<1>3. co.mode = "working" => RemainsFit'
  BY WorkersKeepRemains DEF FinishFits, NothingLost, Calm
<1>4. co.mode = "draining" => DrainFits'
  BY WorkerKeepsDrain DEF FinishFits, Calm
<1>5. co.mode # "finishing"
  BY <1>2 DEF FinishFits, EndIsAccepted, Settled
<1> QED
  BY <1>1, <1>3, <1>4, <1>5 DEF FinishFits

\* The loop's own turns.
LEMMA TurnKeepsFinish ==
  ASSUME IInv, IInv', PoolIInv, LoopIInv, KnownIInv, ResultsFit, [Next]_vars,
         ClaimFits, LoopFits, FinishFits, Calm,
         \/ Fill \/ ReadOutcome \/ ReconcileLate \/ Exhausted \/ Drained
         \/ ReachDeadline
  PROVE  FinishFits'
<1>0. co \in CoordinatorState /\ CoordinatorTypeOK
  BY DEF PoolIInv, CoordinatorTypeOK
<1>1. CASE co' = Stopping("failing", "error")
  <2>1. "failing" \in Mode \ {"working", "draining", "finishing"}
        /\ "error" \in Abort
    BY DEF Mode, Abort
  <2>2. co'.mode = "failing"
    BY <1>0, <1>1, <2>1, StoppingFields
  <2> QED
    BY <2>2 DEF FinishFits
<1>2. CASE Fill
  <2>1. NothingLost /\ RemainsFit
    BY <1>2 DEF Fill, NothingLost, Calm, FinishFits
  <2>2. PICK new \in SUBSET Discovery, first \in SUBSET Reducer :
          FillEffect(new, first)
    BY <1>2, FillFields
  <2>3. co'.mode = "working"
    BY <2>2 DEF FillEffect
  <2> QED
    BY <1>2, <2>1, <2>3, FillKeepsRemains DEF FinishFits
<1>3. CASE ReadOutcome /\ co' # Stopping("failing", "error")
  <2>1. NothingLost /\ RemainsFit /\ OrderFits
    BY <1>3 DEF ReadOutcome, NothingLost, Calm, FinishFits, LoopFits
  <2>2. co'.mode \in {"working", "draining"}
    BY <1>3, ReadFields
  <2>3. co'.mode = "working" => RemainsFit'
    BY <1>3, <2>1, ReadingKeepsRemains
  <2>4. co'.mode = "draining" => DrainFits'
    BY <1>3, <2>1, SaturatingFits
  <2> QED
    BY <2>2, <2>3, <2>4 DEF FinishFits
<1>4. CASE ReconcileLate
  <2>1. co.mode = "draining" /\ co'.mode = co.mode
    BY <1>0, <1>4 DEF ReconcileLate, CoordinatorState
  <2>2. DrainFits'
    BY <1>4, <2>1, LateKeepsDrain DEF FinishFits
  <2> QED
    BY <2>1, <2>2 DEF FinishFits
<1>5. CASE Exhausted /\ co' # Stopping("failing", "error")
  <2>1. co.mode = "working" /\ co'.mode = "finishing"
    BY <1>0, <1>5 DEF Exhausted, CoordinatorState
  <2>2. NothingLost /\ RemainsFit /\ OwnedFits
    BY <2>1 DEF NothingLost, Calm, FinishFits, LoopFits
  <2>3. EndIsAccepted'
    BY <1>5, <2>1, <2>2, ExhaustedIsAccepted
  <2> QED
    BY <2>1, <2>3 DEF FinishFits
<1>6. CASE Drained
  <2>1. co.mode = "draining" /\ co'.mode = "finishing"
    BY <1>0, <1>6 DEF Drained, CoordinatorState
  <2>2. EndIsAccepted'
    BY <1>6, <2>1, DrainedIsAccepted DEF FinishFits
  <2> QED
    BY <2>1, <2>2 DEF FinishFits
<1>7. CASE ReachDeadline
  <2>1. /\ co.mode = "working" /\ co'.mode = "working" /\ co'.dstop
        /\ co'.buffer = co.buffer /\ co'.consumed = co.consumed
        /\ co'.omitted = co.omitted /\ co'.task = co.task
        /\ co'.settlements = co.settlements
        /\ UNCHANGED <<status, merge, inputs>>
    BY <1>0, <1>7 DEF ReachDeadline, CoordinatorState, vars, rowVars
  <2>2. RemainsFit'
    BY <2>1 DEF FinishFits, RemainsFit, Occupied, Merged
  <2> QED
    BY <2>1, <2>2 DEF FinishFits
<1> QED
  BY <1>1, <1>2, <1>3, <1>4, <1>5, <1>6, <1>7

\* The clocks run.
LEMMA WaitingKeepsFinish ==
  ASSUME IInv, FinishFits, deadline => deadline', UNCHANGED co,
         UNCHANGED <<status, merge, inputs, noNew, accepted, dispatched>>
  PROVE  FinishFits'
<1>1. RemainsFit => RemainsFit'
  BY DEF RemainsFit, Occupied, Merged
<1>2. DrainFits => DrainFits'
  BY DEF DrainFits, SomeReduced, AllMerged, Merged, Merging, Buffered, Occupied,
     Awaited, AcceptedAt
<1>3. EndIsAccepted => EndIsAccepted'
  BY WaitingKeepsEnd
<1> QED
  BY <1>1, <1>2, <1>3 DEF FinishFits

LEMMA NextKeepsFinish ==
  ASSUME IInv, IInv', PoolIInv, LoopIInv, KnownIInv, ClaimIInv, ResultsFit,
         ResultsFit', FinishIInv, [SystemNext]_systemVars
  PROVE  FinishIInv'
<1> SUFFICES ASSUME Calm' PROVE FinishFits'
  BY DEF FinishIInv
<1>0. CoordinatorTypeOK /\ [Next]_vars
  BY SystemStepIsACommand DEF PoolIInv
<1>1. RunningScan /\ RunningScan' /\ faults' = MaxFaults
  BY <1>0, StillRunning DEF Calm
<1>2. ASSUME faults' = faults PROVE Calm /\ ClaimFits /\ LoopFits /\ FinishFits
  BY <1>1, <1>2 DEF Calm, ClaimIInv, FinishIInv
<1>3. faults' # faults - 1
  BY <1>0, <1>1, CoordinatorAssumption DEF CoordinatorTypeOK
<1>4. CASE Claim
  BY <1>4, AdoptionFits
<1>5. CASE \/ Fill \/ ReadOutcome \/ ReconcileLate \/ Exhausted \/ Drained
           \/ ReachDeadline
  <2>1. faults' = faults
    BY <1>5 DEF Fill, ReadOutcome, ReconcileLate, Exhausted, Drained, ReachDeadline
  <2> QED
    BY <1>0, <1>2, <1>5, <2>1, TurnKeepsFinish
<1>6. CASE \/ FinishRefused \/ LoseOwnership \/ Shutdown \/ AskCancel
           \/ Leave \/ Crash
  <2>1. CASE co' = NoCoordinator
    BY <2>1 DEF NoCoordinator, FinishFits
  <2>2. CASE co' # NoCoordinator
    <3>1. PICK m \in {"failing", "leaving"},
               a \in {"error", "lost", "shutdown", "cancel"} :
            \/ co' = Stopping(m, a)
            \/ co' = [Stopping(m, a) EXCEPT !.asked = TRUE]
      BY <1>6, <2>2 DEF FinishRefused, LoseOwnership, Shutdown, AskCancel, Leave,
         Crash
    <3>2. m \in Mode /\ a \in Abort
      BY DEF Mode, Abort
    <3>3. co'.mode = m
      BY <1>0, <3>1, <3>2, StoppingFields
    <3> QED
      BY <3>3 DEF FinishFits
  <2> QED
    BY <2>1, <2>2
<1>7. CASE Finish \/ Fail \/ PersistCancel
  <2>1. ~RunningScan'
    BY <1>7 DEF Finish, FinishDeepScan, Fail, FailDeepScan, PersistCancel,
       CancelScan, StopRun, RunningScan
  <2> QED
    BY <1>1, <2>1
<1>8. CASE FinishLost \/ FailLost \/ CancelLost \/ \E w \in Worker : WriteLost(w)
  BY <1>3, <1>8 DEF FinishLost, FailLost, CancelLost, WriteLost
<1>9. CASE \E w \in Worker : WorkerProceeds(w) \/ RetryAttempt(w)
  <2>1. PICK w \in Worker : WorkerProceeds(w) \/ RetryAttempt(w)
    BY <1>9
  <2>2. faults' = faults
    BY <2>1 DEF WorkerProceeds, InsertDiscovery, StoreDiscovery, GiveUpDiscovery,
       InsertReducer, StoreReduction, GiveUpReducer, BeginAttempt, AbandonAttempt,
       Refused, SaveResult, Answer, RetryAttempt
  <2> QED
    BY <1>0, <1>2, <2>1, <2>2, WorkersKeepFinish
<1>10. CASE \/ Beat \/ Expire
            \/ DeadlinePasses /\ UNCHANGED <<co, faults>>
            \/ UNCHANGED systemVars
  <2>1. /\ UNCHANGED <<co, faults>> /\ (deadline => deadline')
        /\ UNCHANGED <<status, merge, inputs, noNew, accepted, dispatched>>
    BY <1>10 DEF Beat, Heartbeat, Expire, LeaseExpires, DeadlinePasses,
       systemVars, vars, rowVars, counterVars, leaseVars
  <2> QED
    BY <1>2, <2>1, WaitingKeepsFinish
<1>11. CASE Parent
  <2>1. ~RunningScan'
    BY <1>11 DEF Parent, ParentStep, FailScan, CancelScan, CompleteScan, StopRun,
       RunningScan
  <2> QED
    BY <1>1, <2>1
<1> QED
  BY <1>4, <1>5, <1>6, <1>7, <1>8, <1>9, <1>10, <1>11
     DEF SystemNext, CoordinatorProceeds, Disruption

LEMMA FinishInvariance == SystemSpec => []FinishIInv
<1>1. SystemInit => FinishIInv
  BY DEF SystemInit, NoCoordinator, FinishIInv, FinishFits
<1>2. IInv /\ IInv' /\ PoolIInv /\ LoopIInv /\ KnownIInv /\ ClaimIInv
        /\ ResultsFit /\ ResultsFit' /\ FinishIInv /\ [SystemNext]_systemVars
          => FinishIInv'
  BY NextKeepsFinish
<1> QED
  BY <1>1, <1>2, SystemInvariance, PoolInvariance, LoopInvariance,
     KnownInvariance, ClaimInvariance, ResultsInvariance, PTL DEF SystemSpec

\* A coordinator that thinks the scan is over is right (FinishIsAccepted): while
\* no write was lost and no discovery has failed, the rows accept the finish the
\* scheduler sends, whatever was accepted, replaced, aborted or recovered before
\* and whichever coordinator took over (coordinator.ts, finish_deep_scan).
THEOREM FinishAccepted == SystemSpec => []FinishIsAccepted
<1>1. FinishIInv => FinishIsAccepted
  BY DEF FinishIInv, FinishFits, EndIsAccepted, NoneFailed, Calm, FinishIsAccepted
<1> QED
  BY <1>1, FinishInvariance, PTL
=============================================================================
