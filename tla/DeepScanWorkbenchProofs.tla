---------------------- MODULE DeepScanWorkbenchProofs ----------------------
(***************************************************************************)
(* The inductive invariant IInv of DeepScanWorkbench, one lemma per        *)
(* command, and the safety properties that follow from it for any sets of  *)
(* workers, any budget, any threshold and any number of adoptions; and     *)
(* that the rows implement the abstract DiscoveryLedger.                   *)
(***************************************************************************)
EXTENDS DeepScanLedger, FiniteSetTheorems, TLAPS

(***************************************************************************)
(* Counting.                                                               *)
(***************************************************************************)

\* Sets of discoveries are finite: the queries that count rows return numbers.
LEMMA DiscoverySetsFinite ==
  ASSUME NEW S, S \subseteq Discovery
  PROVE  IsFiniteSet(S) /\ Cardinality(S) \in Nat
  BY FS_Subset, FS_CardinalityType, WorkbenchAssumption

\* Adding rows that are not counted yet adds their number.
LEMMA CountDisjoint ==
  ASSUME NEW S, S \subseteq Discovery, NEW T, T \subseteq Discovery,
         S \cap T = {}
  PROVE  Cardinality(S \cup T) = Cardinality(S) + Cardinality(T)
<1>1. IsFiniteSet(S) /\ IsFiniteSet(T)
  BY DiscoverySetsFinite
<1>2. Cardinality(S \cap T) = 0
  BY FS_EmptySet
<1>3. Cardinality(S) \in Nat /\ Cardinality(T) \in Nat
  BY DiscoverySetsFinite
<1>4. Cardinality(S \cup T)
        = Cardinality(S) + Cardinality(T) - Cardinality(S \cap T)
  BY <1>1, FS_Union
<1> QED
  BY <1>2, <1>3, <1>4

\* One more row counts one more.
LEMMA CountOneMore ==
  ASSUME NEW S, S \subseteq Discovery, NEW d \in Discovery, d \notin S
  PROVE  Cardinality(S \cup {d}) = Cardinality(S) + 1
  BY DiscoverySetsFinite, FS_AddElement

\* A claim of at least one input is not empty.
LEMMA CountPositive ==
  ASSUME NEW S, S \subseteq Discovery, Cardinality(S) >= 1
  PROVE  S # {}
  BY FS_EmptySet

\* A smaller set of rows counts no more than a larger one.
LEMMA CountMonotone ==
  ASSUME NEW T, T \subseteq Discovery, NEW S, S \subseteq T
  PROVE  Cardinality(S) <= Cardinality(T)
  BY DiscoverySetsFinite, FS_Subset

\* The streak never exceeds the ledger.
LEMMA StreakIsMerged ==
  ASSUME StreakIsExact
  PROVE  noNew <= Cardinality(Merged)
<1>1. Merged \subseteq Discovery
  BY DEF Merged
<1> QED
  BY <1>1, CountMonotone DEF StreakIsExact

-----------------------------------------------------------------------------
LEMMA InitIInv == Init => IInv
<1> SUFFICES ASSUME Init PROVE IInv
  OBVIOUS
<1> USE WorkbenchAssumption DEF Init
<1>1. TypeOK
  <2>1. generation \in Generations /\ 0 \in 0..MaxGeneration
    BY DEF Generations
  <2>2. "none" \in WorkerStatus /\ "none" \in Note /\ "none" \in MergeState
    BY DEF WorkerStatus, Note, MergeState
  <2>3. run \in RunStatus /\ parent \in ParentStatus /\ phase \in Phase
    BY DEF RunStatus, ParentStatus, Phase
  <2> QED
    BY <2>1, <2>2, <2>3 DEF TypeOK
<1>2. Dispatched = {} /\ Merged = {}
  BY DEF Dispatched, Merged, Worker
<1>3. StreakIsExact /\ DispatchAccounting
  BY <1>2, FS_EmptySet DEF StreakIsExact, DispatchAccounting
<1>4. \A w \in Worker : status[w] = "none" /\ note[w] = "none"
  OBVIOUS
<1>5. \A w \in Worker : ~Active(w)
  BY <1>4 DEF Active
<1>6. MergeMatchesStatus /\ AcceptanceIsOrdered /\ MergedExactlyOnce
      /\ OneActiveReducer /\ ActiveClaimIsWhole /\ MergingIsClaimed
  BY <1>5 DEF MergeMatchesStatus, AcceptanceIsOrdered, MergedExactlyOnce,
     OneActiveReducer, ActiveClaimIsWhole, MergingIsClaimed, Merging, Worker
<1>7. ActiveRowsAreCurrent /\ StoppedRunHasNoActiveRow /\ ParentAgrees
      /\ SucceededRunIsComplete /\ NotesFit /\ SetupIsEmpty /\ RefundedIsMarked
  BY <1>4, <1>5 DEF ActiveRowsAreCurrent, StoppedRunHasNoActiveRow, SomeActive,
     SucceededRunIsComplete, ParentAgrees, NotesFit, SetupIsEmpty,
     RefundedIsMarked
<1> QED
  BY <1>1, <1>3, <1>6, <1>7 DEF IInv

-----------------------------------------------------------------------------
\* The lease and the clock decide who may act; no safety property depends on
\* them, except that a deadline which has passed stays passed.
LEMMA LeaseAndTimeKeepIInv ==
  ASSUME IInv,
         UNCHANGED <<runVars, generation, counterVars, rowVars, historyVars>>,
         leaseLive' \in BOOLEAN, deadline' \in BOOLEAN, deadline => deadline'
  PROVE  IInv'
<1> USE DEF runVars, counterVars, rowVars, historyVars
<1>1. TypeOK'
  BY DEF IInv, TypeOK
<1>2. (MergeMatchesStatus /\ AcceptanceIsOrdered /\ MergedExactlyOnce
       /\ OneActiveReducer /\ ActiveClaimIsWhole /\ MergingIsClaimed)'
  BY DEF IInv, MergeMatchesStatus, AcceptanceIsOrdered, MergedExactlyOnce,
     OneActiveReducer, ActiveClaimIsWhole, MergingIsClaimed, Merging, Active
<1>3. (StreakIsExact /\ DispatchAccounting)'
  BY DEF IInv, StreakIsExact, DispatchAccounting, Merged, Dispatched
<1>4. (ActiveRowsAreCurrent /\ StoppedRunHasNoActiveRow /\ ParentAgrees
       /\ NotesFit /\ SetupIsEmpty /\ RefundedIsMarked)'
  BY DEF IInv, ActiveRowsAreCurrent, StoppedRunHasNoActiveRow, SomeActive,
     Active, ParentAgrees, NotesFit, SetupIsEmpty, RefundedIsMarked
<1>5. SucceededRunIsComplete'
  BY DEF IInv, SucceededRunIsComplete, Merging, Buffered, Merged, SomeReduced
<1> QED
  BY <1>1, <1>2, <1>3, <1>4, <1>5 DEF IInv

\* Changing the status and the note of one row, as an update that accepts no
\* result and completes no reducer does.
LEMMA RowUpdateKeepsIInv ==
  ASSUME IInv, RunningScan,
         NEW w \in Worker, Active(w),
         NEW s \in {"running", "canceled", "failed"},
         NEW n \in {"none", "error", "shutdown"}, s = "running" => n # "shutdown",
         status' = [status EXCEPT ![w] = s],
         note' = IF n = "none" THEN note ELSE [note EXCEPT ![w] = n],
         UNCHANGED <<runVars, generation, deadline, dispatched, accepted,
                     noNew, merge, seq, inputs, historyVars>>,
         leaseLive' \in BOOLEAN, errors' \in Nat
  PROVE  IInv'
<1> USE DEF runVars, historyVars
<1>1. TypeOK'
  BY DEF IInv, TypeOK, WorkerStatus, Note
<1>2. \A v \in Worker : /\ status'[v] = (IF v = w THEN s ELSE status[v])
                        /\ Active(v)' => Active(v)
                        /\ note'[v] = note[v] \/ (v = w /\ note'[v] = n)
  BY DEF IInv, TypeOK, Active
<1>3. (MergeMatchesStatus /\ AcceptanceIsOrdered /\ MergedExactlyOnce)'
  BY <1>2 DEF IInv, MergeMatchesStatus, AcceptanceIsOrdered,
     MergedExactlyOnce, Worker, Active
<1>4. (OneActiveReducer /\ ActiveClaimIsWhole)'
  BY <1>2 DEF IInv, OneActiveReducer, ActiveClaimIsWhole, Merging, Worker
<1>5. MergingIsClaimed'
  BY <1>2 DEF IInv, MergingIsClaimed, Merging, Worker
<1>6. StreakIsExact' /\ DispatchAccounting'
  <2>1. Merged' = Merged
    BY DEF Merged
  <2>2. Dispatched' = Dispatched
    BY <1>2 DEF Dispatched, Worker, Active
  <2>3. (refunded \subseteq {d \in Discovery : status[d] = "canceled"})'
    BY <1>2 DEF IInv, DispatchAccounting, Worker, Active
  <2> QED
    BY <2>1, <2>2, <2>3 DEF IInv, StreakIsExact, DispatchAccounting
<1>7. (ActiveRowsAreCurrent /\ StoppedRunHasNoActiveRow /\ SetupIsEmpty)'
  BY <1>2 DEF IInv, ActiveRowsAreCurrent, StoppedRunHasNoActiveRow, SomeActive,
     SetupIsEmpty, Active
<1>8. (ParentAgrees /\ SucceededRunIsComplete)'
  BY DEF IInv, ParentAgrees, SucceededRunIsComplete, RunningScan
<1>9. (NotesFit /\ RefundedIsMarked)'
  <2>1. NotesFit'
    BY <1>2 DEF IInv, NotesFit, Active
  <2>2. w \notin refunded
    BY DEF IInv, DispatchAccounting, Active
  <2>3. \A d \in refunded : d \in Worker /\ note'[d] = note[d]
    BY <1>2, <2>2 DEF IInv, TypeOK, Worker
  <2> QED
    BY <2>1, <2>3 DEF IInv, RefundedIsMarked
<1> QED
  BY <1>1, <1>3, <1>4, <1>5, <1>6, <1>7, <1>8, <1>9 DEF IInv

\* A new row takes a slot of the budget that is there.
LEMMA NewDiscoveryKeepsIInv ==
  ASSUME IInv, NEW g, NEW d \in Discovery, NEW s, NewDiscovery(g, d, s)
  PROVE  IInv'
<1> USE DEF NewDiscovery, historyVars
<1>1. /\ \A v \in Worker : status'[v] = (IF v = d THEN s ELSE status[v])
      /\ d \in Worker /\ s \in {"queued", "running"}
      /\ d \notin Reducer
  BY WorkbenchAssumption DEF IInv, TypeOK, Worker
<1>2. TypeOK'
  BY <1>1 DEF IInv, TypeOK, WorkerStatus, Phase, Generations
<1>3. (MergeMatchesStatus /\ AcceptanceIsOrdered /\ MergedExactlyOnce)'
  BY <1>1 DEF IInv, MergeMatchesStatus, AcceptanceIsOrdered,
     MergedExactlyOnce, Worker
<1>4. (OneActiveReducer /\ ActiveClaimIsWhole /\ MergingIsClaimed)'
  BY <1>1 DEF IInv, OneActiveReducer, ActiveClaimIsWhole,
     MergingIsClaimed, Merging, Worker, Active
<1>5. StreakIsExact' /\ DispatchAccounting'
  <2>1. Merged' = Merged
    BY DEF Merged
  <2>2. Dispatched' = Dispatched \cup {d} /\ d \notin Dispatched
    BY <1>1 DEF Dispatched, Worker
  <2>3. Cardinality(Dispatched') = Cardinality(Dispatched) + 1
    BY <2>2, CountOneMore DEF Dispatched
  <2>4. (refunded \subseteq {e \in Discovery : status[e] = "canceled"})'
    BY <1>1 DEF IInv, DispatchAccounting, Worker
  <2>5. Cardinality(Dispatched) \in Nat /\ Cardinality(refunded) \in Nat
    BY DiscoverySetsFinite DEF Dispatched, IInv, TypeOK
  <2> QED
    BY <2>1, <2>2, <2>3, <2>4, <2>5, WorkbenchAssumption
    DEF IInv, TypeOK, StreakIsExact, DispatchAccounting
<1>6. (ActiveRowsAreCurrent /\ StoppedRunHasNoActiveRow /\ SetupIsEmpty
       /\ ParentAgrees /\ SucceededRunIsComplete)'
  BY <1>1 DEF IInv, TypeOK, ActiveRowsAreCurrent, StoppedRunHasNoActiveRow,
     SetupIsEmpty, ParentAgrees, SucceededRunIsComplete, RunningScan, Active
<1>7. (NotesFit /\ RefundedIsMarked)'
  BY <1>1 DEF IInv, NotesFit, RefundedIsMarked, Active
<1> QED
  BY <1>2, <1>3, <1>4, <1>5, <1>6, <1>7 DEF IInv

\* An accepted result becomes buffered with the next sequence number.
LEMMA AcceptDiscoveryKeepsIInv ==
  ASSUME IInv, NEW g, NEW d \in Discovery, AcceptDiscovery(g, d)
  PROVE  IInv'
<1> USE DEF AcceptDiscovery, historyVars
<1>1. /\ \A v \in Worker :
           /\ status'[v] = (IF v = d THEN "succeeded" ELSE status[v])
           /\ note'[v] = (IF v = d THEN "none" ELSE note[v])
      /\ \A e \in Discovery :
           /\ merge'[e] = (IF e = d THEN "buffered" ELSE merge[e])
           /\ seq'[e] = (IF e = d THEN accepted + 1 ELSE seq[e])
      /\ d \in Worker /\ d \notin Reducer
      /\ merge[d] = "none" /\ accepted \in Nat
  BY WorkbenchAssumption
  DEF IInv, TypeOK, MergeMatchesStatus, NextSequence, Worker
<1>2. TypeOK'
  BY <1>1 DEF IInv, TypeOK, WorkerStatus, Phase, MergeState, Note, NextSequence
<1>3. MergeMatchesStatus'
  BY <1>1 DEF IInv, MergeMatchesStatus, Worker
<1>4. AcceptanceIsOrdered'
  BY <1>1 DEF IInv, TypeOK, AcceptanceIsOrdered, NextSequence
<1>5. MergedExactlyOnce'
  BY <1>1 DEF IInv, MergedExactlyOnce, Worker
<1>6. (OneActiveReducer /\ ActiveClaimIsWhole /\ MergingIsClaimed)'
  BY <1>1 DEF IInv, OneActiveReducer, ActiveClaimIsWhole,
     MergingIsClaimed, Merging, Worker, Active
<1>7. StreakIsExact' /\ DispatchAccounting'
  <2>1. Merged' = Merged
    BY <1>1 DEF Merged
  <2>2. Dispatched' = Dispatched
    BY <1>1 DEF Dispatched, Worker
  <2>3. (refunded \subseteq {e \in Discovery : status[e] = "canceled"})'
    BY <1>1 DEF IInv, DispatchAccounting, Worker
  <2> QED
    BY <2>1, <2>2, <2>3 DEF IInv, StreakIsExact, DispatchAccounting
<1>8. (ActiveRowsAreCurrent /\ StoppedRunHasNoActiveRow /\ SetupIsEmpty
       /\ ParentAgrees /\ SucceededRunIsComplete)'
  BY <1>1 DEF IInv, TypeOK, ActiveRowsAreCurrent, StoppedRunHasNoActiveRow,
     SetupIsEmpty, ParentAgrees, SucceededRunIsComplete, RunningScan, Active
<1>9. (NotesFit /\ RefundedIsMarked)'
  <2>1. d \notin refunded
    BY DEF IInv, DispatchAccounting
  <2> QED
    BY <1>1, <2>1 DEF IInv, TypeOK, NotesFit, RefundedIsMarked, Active, Worker
<1> QED
  BY <1>2, <1>3, <1>4, <1>5, <1>6, <1>7, <1>8, <1>9 DEF IInv

\* A reducer that had started gives its claim back when it fails.
LEMMA FailReducerKeepsIInv ==
  ASSUME IInv, NEW g, NEW r \in Reducer, FailReducer(g, r)
  PROVE  IInv'
<1> USE DEF FailReducer, historyVars, counterVars
<1>1. /\ \A v \in Worker :
           /\ status'[v] = (IF v = r THEN "failed" ELSE status[v])
           /\ note'[v] = (IF v = r THEN "error" ELSE note[v])
      /\ \A e \in Discovery :
           \/ merge'[e] = merge[e]
           \/ e \in inputs[r] /\ merge[e] = "merging" /\ merge'[e] = "buffered"
      /\ r \in Worker /\ r \notin Discovery
  BY WorkbenchAssumption DEF IInv, TypeOK, WithRebuffered, Worker
<1>2. TypeOK'
  BY DEF IInv, TypeOK, WorkerStatus, Phase, MergeState, Note, WithRebuffered
<1>3. (MergeMatchesStatus /\ AcceptanceIsOrdered)'
  BY <1>1 DEF IInv, MergeMatchesStatus, AcceptanceIsOrdered, Worker
<1>4. MergedExactlyOnce'
  BY <1>1 DEF IInv, MergedExactlyOnce, Worker, Active
<1>5. (OneActiveReducer /\ ActiveClaimIsWhole)'
  <2>1. \A q \in Reducer : ~Active(q)'
    BY <1>1 DEF IInv, OneActiveReducer, Worker, Active
  <2> QED
    BY <2>1 DEF OneActiveReducer, ActiveClaimIsWhole
<1>6. MergingIsClaimed'
  BY <1>1 DEF IInv, MergingIsClaimed, Merging, Worker
<1>7. StreakIsExact' /\ DispatchAccounting'
  <2>1. Merged' = Merged
    BY <1>1 DEF Merged
  <2>2. Dispatched' = Dispatched
    BY <1>1 DEF Dispatched, Worker
  <2>3. (refunded \subseteq {e \in Discovery : status[e] = "canceled"})'
    BY <1>1 DEF IInv, DispatchAccounting, Worker
  <2> QED
    BY <2>1, <2>2, <2>3 DEF IInv, StreakIsExact, DispatchAccounting
<1>8. (ActiveRowsAreCurrent /\ StoppedRunHasNoActiveRow /\ SetupIsEmpty
       /\ ParentAgrees /\ SucceededRunIsComplete)'
  BY <1>1 DEF IInv, TypeOK, ActiveRowsAreCurrent, StoppedRunHasNoActiveRow,
     SetupIsEmpty, ParentAgrees, SucceededRunIsComplete, RunningScan, Active,
     SomeActive
<1>9. (NotesFit /\ RefundedIsMarked)'
  BY <1>1 DEF IInv, TypeOK, NotesFit, RefundedIsMarked, Active, Worker
<1> QED
  BY <1>2, <1>3, <1>4, <1>5, <1>6, <1>7, <1>8, <1>9 DEF IInv

\* A claim takes buffered results for a reducer that is alone.
LEMMA ClaimDedupKeepsIInv ==
  ASSUME IInv, NEW g, NEW r \in Reducer, NEW S \in SUBSET Discovery,
         ClaimDedup(g, r, S)
  PROVE  IInv'
<1> USE DEF ClaimDedup, Claimable, counterVars
<1>1. /\ \A v \in Worker :
           status'[v] = (IF v = r THEN "queued" ELSE status[v])
      /\ \A q \in Reducer : inputs'[q] = (IF q = r THEN S ELSE inputs[q])
      /\ \A e \in Discovery :
           merge'[e] = (IF e \in S THEN "merging" ELSE merge[e])
      /\ \A e \in S : status[e] = "succeeded" /\ merge[e] = "buffered"
      /\ r \in Worker /\ r \notin Discovery /\ note[r] = "none"
      /\ \A q \in Reducer : q \in Worker /\ ~Active(q)
  BY WorkbenchAssumption
  DEF IInv, TypeOK, Worker, BufferedPrefix, Buffered, NotesFit,
      NoActiveReducer, SomeActive
<1>2. S # {}
  BY CountPositive, DiscoverySetsFinite DEF MinimumInputs
<1>3. TypeOK'
  BY <1>1 DEF IInv, TypeOK, WorkerStatus, Phase, MergeState, Generations
<1>4. (MergeMatchesStatus /\ AcceptanceIsOrdered)'
  BY <1>1 DEF IInv, MergeMatchesStatus, AcceptanceIsOrdered, Worker
<1>5. MergedExactlyOnce'
  BY <1>1 DEF IInv, MergedExactlyOnce, Worker
<1>6. (OneActiveReducer /\ ActiveClaimIsWhole)'
  BY <1>1, <1>2 DEF OneActiveReducer, ActiveClaimIsWhole, Merging, Active
<1>7. MergingIsClaimed'
  <2>1. inputs[r] = {}
    BY DEF IInv, NotesFit
  <2> QED
    BY <1>1, <2>1 DEF IInv, MergingIsClaimed, Merging
<1>8. StreakIsExact' /\ DispatchAccounting'
  <2>1. Merged' = Merged
    BY <1>1 DEF Merged
  <2>2. Dispatched' = Dispatched
    BY <1>1 DEF Dispatched, Worker
  <2>3. (refunded \subseteq {e \in Discovery : status[e] = "canceled"})'
    BY <1>1 DEF IInv, DispatchAccounting, Worker
  <2> QED
    BY <2>1, <2>2, <2>3 DEF IInv, StreakIsExact, DispatchAccounting
<1>9. (ActiveRowsAreCurrent /\ StoppedRunHasNoActiveRow /\ SetupIsEmpty
       /\ ParentAgrees /\ SucceededRunIsComplete)'
  BY <1>1 DEF IInv, TypeOK, ActiveRowsAreCurrent, StoppedRunHasNoActiveRow,
     SetupIsEmpty, ParentAgrees, SucceededRunIsComplete, RunningScan, Active
<1>10. (NotesFit /\ RefundedIsMarked)'
  BY <1>1 DEF IInv, NotesFit, RefundedIsMarked, Active
<1> QED
  BY <1>3, <1>4, <1>5, <1>6, <1>7, <1>8, <1>9, <1>10 DEF IInv

\* A commit moves a whole claim from merging to merged, and counts it once.
LEMMA CommitDedupKeepsIInv ==
  ASSUME IInv, NEW g, NEW r \in Reducer, NEW new \in {0, 1},
         CommitDedup(g, r, new)
  PROVE  IInv'
<1> USE DEF CommitDedup, historyVars
<1>1. /\ \A v \in Worker :
           /\ status'[v] = (IF v = r THEN "succeeded" ELSE status[v])
           /\ note'[v] = (IF v = r THEN "none" ELSE note[v])
      /\ \A e \in Discovery :
           merge'[e] = (IF e \in inputs[r] THEN "merged" ELSE merge[e])
      /\ r \in Worker /\ r \notin Discovery
      /\ inputs[r] \subseteq Discovery
      /\ \A q \in Reducer : q \in Worker /\ (Active(q) => q = r)
  BY WorkbenchAssumption
  DEF IInv, TypeOK, Worker, Committable, OneActiveReducer
<1>2. Merged' = Merged \cup inputs[r] /\ Merged \cap inputs[r] = {}
  BY <1>1 DEF Merged
<1>3. Cardinality(Merged') = Cardinality(Merged) + Cardinality(inputs[r])
  BY <1>1, <1>2, CountDisjoint DEF Merged
<1>4. /\ Cardinality(Merged) \in Nat
      /\ Cardinality(inputs[r]) \in Nat
  BY <1>1, DiscoverySetsFinite DEF Merged
<1>5. TypeOK'
  <2>1. noNew' \in Nat
    BY <1>4 DEF IInv, TypeOK, StreakAfter
  <2>2. merge' \in [Discovery -> MergeState]
    BY DEF IInv, TypeOK, MergeState
  <2>3. sinceNew' \in SUBSET Discovery
    BY <1>1 DEF IInv, TypeOK
  <2> QED
    BY <2>1, <2>2, <2>3 DEF IInv, TypeOK, WorkerStatus, Phase, Note
<1>6. (MergeMatchesStatus /\ AcceptanceIsOrdered)'
  BY <1>1 DEF IInv, MergeMatchesStatus, AcceptanceIsOrdered, Worker
<1>7. MergedExactlyOnce'
  BY <1>1 DEF IInv, MergedExactlyOnce, Committable, Active
<1>8. (OneActiveReducer /\ ActiveClaimIsWhole)'
  <2>1. \A q \in Reducer : ~Active(q)'
    BY <1>1 DEF Active
  <2> QED
    BY <2>1 DEF OneActiveReducer, ActiveClaimIsWhole
<1>9. MergingIsClaimed'
  BY <1>1 DEF IInv, MergingIsClaimed, Merging
<1>10. StreakIsExact' /\ DispatchAccounting'
  <2>1. StreakIsExact'
    <3>1. CASE new > 0
      BY <3>1, FS_EmptySet DEF StreakIsExact, StreakAfter
    <3>2. CASE ~(new > 0)
      <4>1. /\ sinceNew \subseteq Merged /\ sinceNew \subseteq Discovery
            /\ noNew = Cardinality(sinceNew)
        BY DEF IInv, TypeOK, StreakIsExact
      <4>2. Cardinality(sinceNew \cup inputs[r])
              = Cardinality(sinceNew) + Cardinality(inputs[r])
        BY <1>1, <1>2, <4>1, CountDisjoint
      <4>3. sinceNew' = sinceNew \cup inputs[r]
            /\ noNew' = noNew + Cardinality(inputs[r])
        BY <3>2 DEF StreakAfter
      <4> QED
        BY <1>2, <4>1, <4>2, <4>3 DEF StreakIsExact
    <3> QED
      BY <3>1, <3>2
  <2>2. Dispatched' = Dispatched
    BY <1>1 DEF Dispatched, Worker
  <2>3. (refunded \subseteq {e \in Discovery : status[e] = "canceled"})'
    BY <1>1 DEF IInv, DispatchAccounting, Worker
  <2> QED
    BY <2>1, <2>2, <2>3 DEF IInv, DispatchAccounting
<1>11. (ActiveRowsAreCurrent /\ StoppedRunHasNoActiveRow /\ SetupIsEmpty
        /\ ParentAgrees /\ SucceededRunIsComplete)'
  BY <1>1 DEF IInv, TypeOK, ActiveRowsAreCurrent, StoppedRunHasNoActiveRow,
     SetupIsEmpty, ParentAgrees, SucceededRunIsComplete, RunningScan, Active
<1>12. (NotesFit /\ RefundedIsMarked)'
  BY <1>1 DEF IInv, TypeOK, NotesFit, RefundedIsMarked, Active, Worker
<1> QED
  BY <1>5, <1>6, <1>7, <1>8, <1>9, <1>10, <1>11, <1>12 DEF IInv

\* Canceling every active row, which every way to stop the run ends with.
LEMMA CancelActiveFacts ==
  ASSUME IInv, status' = WithActiveCanceled
  PROVE  /\ \A v \in Worker :
              status'[v] = (IF Active(v) THEN "canceled" ELSE status[v])
         /\ \A v \in Worker : ~Active(v)'
         /\ \A d \in Discovery : d \in Worker
         /\ \A r \in Reducer : r \in Worker
         /\ status' \in [Worker -> WorkerStatus]
         /\ \A v \in Worker : (status'[v] = "none") <=> (status[v] = "none")
         /\ \A v \in Worker :
              (status'[v] = "succeeded") <=> (status[v] = "succeeded")
  BY DEF IInv, TypeOK, WithActiveCanceled, Active, WorkerStatus, Worker

\* No commands of its own: what adoption, finish and failure have in common
\* once every active row is canceled and some merging rows are buffered again.
LEMMA CanceledRowsKeepLedger ==
  ASSUME IInv, status' = WithActiveCanceled,
         NEW S, merge' = WithRebuffered(S),
         UNCHANGED <<accepted, noNew, seq, inputs, sinceNew>>
  PROVE  /\ (MergeMatchesStatus /\ AcceptanceIsOrdered /\ MergedExactlyOnce)'
         /\ (OneActiveReducer /\ ActiveClaimIsWhole /\ StreakIsExact)'
         /\ merge' \in [Discovery -> MergeState]
         /\ Merged' = Merged
         /\ Dispatched' = Dispatched
<1>1. /\ \A v \in Worker :
           /\ ~Active(v)'
           /\ (status'[v] = "none") <=> (status[v] = "none")
           /\ (status'[v] = "succeeded") <=> (status[v] = "succeeded")
      /\ \A d \in Discovery : d \in Worker
      /\ \A r \in Reducer : r \in Worker
  BY CancelActiveFacts
<1>2. \A d \in Discovery :
        \/ merge'[d] = merge[d]
        \/ merge[d] = "merging" /\ merge'[d] = "buffered"
  BY DEF WithRebuffered
<1>3. merge' \in [Discovery -> MergeState]
  BY DEF IInv, TypeOK, WithRebuffered, MergeState
<1>4. Merged' = Merged /\ Dispatched' = Dispatched
  BY <1>1, <1>2 DEF Merged, Dispatched
<1>5. (MergeMatchesStatus /\ AcceptanceIsOrdered)'
  BY <1>1, <1>2 DEF IInv, MergeMatchesStatus, AcceptanceIsOrdered
<1>6. MergedExactlyOnce'
  BY <1>1, <1>2 DEF IInv, MergedExactlyOnce
<1>7. (OneActiveReducer /\ ActiveClaimIsWhole)'
  BY <1>1 DEF OneActiveReducer, ActiveClaimIsWhole
<1> QED
  BY <1>3, <1>4, <1>5, <1>6, <1>7 DEF IInv, StreakIsExact

-----------------------------------------------------------------------------
\* Recovery gives back each interrupted slot once and frees abandoned claims.
LEMMA RecoveryKeepsIInv ==
  ASSUME IInv, RunningScan, RecoverExpiredCoordinator,
         generation' = generation + 1, generation' \in Generations,
         leaseLive' = TRUE, UNCHANGED <<run, parent, reason, deadline>>
  PROVE  IInv'
<1> USE DEF RecoverExpiredCoordinator
<1>1. /\ \A v \in Worker :
           /\ status'[v] = (IF Active(v) THEN "canceled" ELSE status[v])
           /\ ~Active(v)'
      /\ status' \in [Worker -> WorkerStatus]
      /\ \A d \in Discovery : d \in Worker
      /\ \A r \in Reducer : r \in Worker
  BY CancelActiveFacts
<1>2. \A v \in Worker : note'[v] = (IF v \in MarkedRecovered
                                      THEN "recovered" ELSE note[v])
  OBVIOUS
<1>3. /\ (MergeMatchesStatus /\ AcceptanceIsOrdered /\ MergedExactlyOnce)'
      /\ (OneActiveReducer /\ ActiveClaimIsWhole /\ StreakIsExact)'
      /\ merge' \in [Discovery -> MergeState]
      /\ Dispatched' = Dispatched
  BY CanceledRowsKeepLedger
<1>4. generation \in Nat /\ generation >= 1
  BY WorkbenchAssumption DEF IInv, TypeOK, Generations
<1>5. Interrupted \subseteq Dispatched /\ Interrupted \cap refunded = {}
  BY <1>1 DEF Interrupted, Dispatched, ShutdownCanceled, Legacy, Active,
     IInv, TypeOK, DispatchAccounting, RefundedIsMarked
<1>6. DispatchAccounting'
  <2>1. Cardinality(refunded') = Cardinality(refunded) + Cardinality(Interrupted)
    BY <1>5, CountDisjoint DEF IInv, TypeOK, Interrupted
  <2>2. (refunded \subseteq {d \in Discovery : status[d] = "canceled"})'
    BY <1>1 DEF IInv, DispatchAccounting, Interrupted, ShutdownCanceled
  <2>3. /\ Cardinality(refunded) \in Nat /\ Cardinality(Interrupted) \in Nat
        /\ Cardinality(Dispatched) \in Nat
    BY DiscoverySetsFinite DEF IInv, TypeOK, Interrupted, Dispatched
  <2> QED
    BY <1>3, <2>1, <2>2, <2>3, WorkbenchAssumption
    DEF IInv, TypeOK, DispatchAccounting
<1>7. TypeOK'
  <2>1. refunded' \subseteq Discovery /\ refunded' \subseteq Dispatched
    BY <1>5 DEF IInv, TypeOK, Interrupted, DispatchAccounting, Dispatched
  <2>2. Cardinality(refunded') <= Cardinality(Dispatched)
    BY <2>1, CountMonotone DEF Dispatched
  <2>3. Cardinality(Dispatched) \in Nat /\ Cardinality(refunded') \in Nat
    BY <2>1, DiscoverySetsFinite DEF Dispatched
  <2>4. dispatched' \in Nat
    BY <1>3, <1>6, <2>2, <2>3 DEF DispatchAccounting
  <2>5. note' \in [Worker -> Note]
    BY DEF IInv, TypeOK, Note
  <2> QED
    BY <1>1, <1>3, <2>1, <2>4, <2>5 DEF IInv, TypeOK, Phase
<1>8. MergingIsClaimed'
  <2> SUFFICES ASSUME NEW d \in Merging'
               PROVE  (\E r \in Reducer :
                         /\ d \in inputs[r] /\ status[r] # "succeeded"
                         /\ note[r] # "recovered")'
    BY DEF MergingIsClaimed
  <2>1. d \in Merging /\ d \notin ClaimedBy(Abandoned)
    BY DEF Merging, WithRebuffered
  <2>2. PICK r \in Reducer : /\ d \in inputs[r] /\ status[r] # "succeeded"
                             /\ note[r] # "recovered"
    BY <2>1 DEF IInv, MergingIsClaimed
  <2>3. r \notin Abandoned
    BY <2>1, <2>2 DEF ClaimedBy
  <2>4. r \notin MarkedRecovered /\ ~Active(r)
    BY <2>3 DEF Abandoned, MarkedRecovered
  <2> QED
    BY <1>1, <1>2, <2>2, <2>4
<1>9. (ActiveRowsAreCurrent /\ StoppedRunHasNoActiveRow /\ SetupIsEmpty
       /\ ParentAgrees /\ SucceededRunIsComplete)'
  BY <1>1 DEF IInv, ActiveRowsAreCurrent, StoppedRunHasNoActiveRow, SomeActive,
     SetupIsEmpty, ParentAgrees, SucceededRunIsComplete, RunningScan, Active
<1>10. NotesFit'
  BY <1>1, <1>2 DEF IInv, NotesFit, MarkedRecovered, ShutdownCanceled, Active
<1>11. RefundedIsMarked'
  BY <1>1, <1>2, <1>4 DEF IInv, RefundedIsMarked, TypeOK, NotesFit,
     MarkedRecovered, Interrupted, ShutdownCanceled, Legacy
<1> QED
  BY <1>3, <1>6, <1>7, <1>8, <1>9, <1>10, <1>11 DEF IInv

\* Taking the lease, with recovery unless there is nothing to recover.
LEMMA AdoptKeepsIInv ==
  ASSUME IInv, AdoptCoordinator
  PROVE  IInv'
<1>1. generation' \in Generations /\ generation' = generation + 1
  BY WorkbenchAssumption DEF IInv, TypeOK, Generations, AdoptCoordinator
<1>2. CASE NeedsRecovery
  BY <1>1, <1>2, RecoveryKeepsIInv DEF AdoptCoordinator
<1>3. CASE ~NeedsRecovery
  <2>1. UNCHANGED <<runVars, deadline, counterVars, rowVars, historyVars>>
        /\ leaseLive' = TRUE
    BY <1>3 DEF AdoptCoordinator, runVars
  <2>2. \A w \in Worker : status[w] = "none"
    BY <1>3 DEF IInv, SetupIsEmpty, NeedsRecovery
  <2>3. refunded = {}
    BY <2>2 DEF IInv, TypeOK, DispatchAccounting, Worker
  <2> USE <2>1 DEF runVars, counterVars, rowVars, historyVars
  <2>4. TypeOK'
    BY <1>1 DEF IInv, TypeOK
  <2>5. (MergeMatchesStatus /\ AcceptanceIsOrdered /\ MergedExactlyOnce
         /\ OneActiveReducer /\ ActiveClaimIsWhole /\ MergingIsClaimed)'
    BY DEF IInv, MergeMatchesStatus, AcceptanceIsOrdered, MergedExactlyOnce,
       OneActiveReducer, ActiveClaimIsWhole, MergingIsClaimed, Merging,
       Active
  <2>6. (StreakIsExact /\ DispatchAccounting)'
    BY DEF IInv, StreakIsExact, DispatchAccounting, Merged, Dispatched
  <2>7. (StoppedRunHasNoActiveRow /\ ParentAgrees /\ NotesFit /\ SetupIsEmpty
         /\ SucceededRunIsComplete)'
    BY DEF IInv, StoppedRunHasNoActiveRow, SomeActive, Active, ParentAgrees,
       NotesFit, SetupIsEmpty, SucceededRunIsComplete, Merging, Buffered,
       Merged, SomeReduced
  <2>8. (ActiveRowsAreCurrent /\ RefundedIsMarked)'
    BY <2>2, <2>3 DEF ActiveRowsAreCurrent, RefundedIsMarked, Active
  <2> QED
    BY <2>4, <2>5, <2>6, <2>7, <2>8 DEF IInv
<1> QED
  BY <1>2, <1>3

-----------------------------------------------------------------------------
\* Stopping a run that was running or had succeeded.
LEMMA StopRunKeepsIInv ==
  ASSUME IInv, parent = "running",
         NEW s \in {"failed", "interrupted", "canceled"},
         NEW p \in {"failed", "canceled"}, (s = "canceled") <=> (p = "canceled"),
         StopRun(s, p)
  PROVE  IInv'
<1> USE DEF StopRun, counterVars, historyVars
<1>1. /\ \A v \in Worker :
           /\ status'[v] = (IF Active(v) THEN "canceled" ELSE status[v])
           /\ ~Active(v)'
      /\ status' \in [Worker -> WorkerStatus]
      /\ \A d \in Discovery : d \in Worker
      /\ \A r \in Reducer : r \in Worker
  BY CancelActiveFacts
<1>2. merge' = WithRebuffered({})
  BY DEF IInv, TypeOK, WithRebuffered
<1>3. /\ (MergeMatchesStatus /\ AcceptanceIsOrdered /\ MergedExactlyOnce)'
      /\ (OneActiveReducer /\ ActiveClaimIsWhole /\ StreakIsExact)'
      /\ Dispatched' = Dispatched
  BY <1>2, CanceledRowsKeepLedger
<1>4. TypeOK'
  BY <1>1 DEF IInv, TypeOK, RunStatus, ParentStatus, Phase
<1>5. MergingIsClaimed'
  BY <1>1 DEF IInv, MergingIsClaimed, Merging, Active
<1>6. DispatchAccounting'
  BY <1>1, <1>3 DEF IInv, DispatchAccounting, Active
<1>7. (ActiveRowsAreCurrent /\ StoppedRunHasNoActiveRow /\ SetupIsEmpty
       /\ ParentAgrees /\ SucceededRunIsComplete)'
  BY <1>1 DEF IInv, ActiveRowsAreCurrent, StoppedRunHasNoActiveRow, SomeActive,
     SetupIsEmpty, ParentAgrees, SucceededRunIsComplete
<1>8. (NotesFit /\ RefundedIsMarked)'
  BY <1>1 DEF IInv, NotesFit, RefundedIsMarked, Active
<1> QED
  BY <1>3, <1>4, <1>5, <1>6, <1>7, <1>8 DEF IInv

\* The parent's status alone: it completes on a succeeded run, or fails after.
LEMMA ParentAloneKeepsIInv ==
  ASSUME IInv, run = "succeeded", parent = "running",
         parent' \in {"failed", "complete"},
         UNCHANGED <<run, phase, reason, leaseVars, counterVars, rowVars,
                     historyVars>>
  PROVE  IInv'
<1> USE DEF leaseVars, counterVars, rowVars, historyVars
<1>1. TypeOK'
  BY DEF IInv, TypeOK, ParentStatus
<1>2. (MergeMatchesStatus /\ AcceptanceIsOrdered /\ MergedExactlyOnce
       /\ OneActiveReducer /\ ActiveClaimIsWhole /\ MergingIsClaimed)'
  BY DEF IInv, MergeMatchesStatus, AcceptanceIsOrdered, MergedExactlyOnce,
     OneActiveReducer, ActiveClaimIsWhole, MergingIsClaimed, Merging, Active
<1>3. (StreakIsExact /\ DispatchAccounting)'
  BY DEF IInv, StreakIsExact, DispatchAccounting, Merged, Dispatched
<1>4. (ActiveRowsAreCurrent /\ StoppedRunHasNoActiveRow /\ ParentAgrees
       /\ NotesFit /\ SetupIsEmpty /\ RefundedIsMarked)'
  BY DEF IInv, ActiveRowsAreCurrent, StoppedRunHasNoActiveRow, SomeActive,
     Active, ParentAgrees, NotesFit, SetupIsEmpty, RefundedIsMarked
<1>5. SucceededRunIsComplete'
  BY DEF IInv, SucceededRunIsComplete, Merging, Buffered, Merged, SomeReduced
<1> QED
  BY <1>1, <1>2, <1>3, <1>4, <1>5 DEF IInv

\* A finish that is accepted leaves no claim open and names what it leaves out.
LEMMA FinishKeepsIInv ==
  ASSUME IInv, NEW g, NEW why \in {"saturated", "capped"},
         NEW omitted \in SUBSET Discovery, FinishDeepScan(g, why, omitted)
  PROVE  IInv'
<1> USE DEF FinishDeepScan, Finishable, counterVars, historyVars
<1>1. /\ \A v \in Worker :
           /\ status'[v] = (IF Active(v) THEN "canceled" ELSE status[v])
           /\ ~Active(v)'
           /\ (status'[v] = "succeeded") <=> (status[v] = "succeeded")
      /\ status' \in [Worker -> WorkerStatus]
      /\ \A d \in Discovery : d \in Worker
      /\ \A r \in Reducer : r \in Worker
  BY CancelActiveFacts
<1>2. PICK S : merge' = WithRebuffered(S)
  <2>1. merge = WithRebuffered({})
    BY DEF IInv, TypeOK, WithRebuffered
  <2> QED
    BY <2>1 DEF MergeAtFinish
<1>3. /\ (MergeMatchesStatus /\ AcceptanceIsOrdered /\ MergedExactlyOnce)'
      /\ (OneActiveReducer /\ ActiveClaimIsWhole /\ StreakIsExact)'
      /\ merge' \in [Discovery -> MergeState]
      /\ Dispatched' = Dispatched /\ Merged' = Merged
  BY <1>2, CanceledRowsKeepLedger
<1>4. TypeOK'
  BY <1>1, <1>3 DEF IInv, TypeOK, RunStatus, ParentStatus, Phase
<1>5. Merging' = {}
  BY DEF Merging
<1>6. MergingIsClaimed'
  BY <1>5 DEF MergingIsClaimed
<1>7. DispatchAccounting'
  BY <1>1, <1>3 DEF IInv, DispatchAccounting, Active
<1>8. SucceededRunIsComplete'
  <2>1. Buffered' # {} => why = "saturated" \/ PartialCoverage
    BY DEF Buffered, LeftOver, OmissionAllowed, FailureCapped
  <2>2. why = "saturated" => noNew >= StopAfterNoNew
    BY DEF MayStop
  <2>3. noNew <= Cardinality(Merged) /\ Cardinality(Merged) \in Nat
    BY DiscoverySetsFinite, StreakIsMerged DEF IInv, Merged
  <2>4. why = "saturated" => Cardinality(Merged') >= StopAfterNoNew
    BY <1>3, <2>2, <2>3, WorkbenchAssumption DEF IInv, TypeOK
  <2>5. SomeReduced' \/ (deadline' /\ accepted' = 0)
    <3>1. SomeReduced => SomeReduced'
      BY <1>1 DEF SomeReduced
    <3>2. NothingToReduce(why) => deadline' /\ accepted' = 0
      BY DEF NothingToReduce
    <3> QED
      BY <3>1, <3>2
  <2> QED
    BY <1>5, <2>1, <2>4, <2>5 DEF SucceededRunIsComplete
<1>9. (ActiveRowsAreCurrent /\ StoppedRunHasNoActiveRow /\ SetupIsEmpty
       /\ ParentAgrees)'
  BY <1>1 DEF IInv, ActiveRowsAreCurrent, StoppedRunHasNoActiveRow, SomeActive,
     SetupIsEmpty, ParentAgrees, RunningScan
<1>10. (NotesFit /\ RefundedIsMarked)'
  BY <1>1 DEF IInv, NotesFit, RefundedIsMarked, Active
<1> QED
  BY <1>3, <1>4, <1>6, <1>7, <1>8, <1>9, <1>10 DEF IInv

-----------------------------------------------------------------------------
LEMMA LeaseStepKeepsIInv ==
  ASSUME IInv, NEW g \in Callers, LeaseStep(g)
  PROVE  IInv'
<1>1. /\ UNCHANGED <<runVars, generation, counterVars, rowVars, historyVars>>
      /\ deadline' = deadline
  BY DEF LeaseStep, RenewLease, Heartbeat
<1>2. leaseLive' \in BOOLEAN
  BY DEF LeaseStep, RenewLease, Heartbeat, IInv, TypeOK
<1>3. deadline' \in BOOLEAN
  BY <1>1 DEF IInv, TypeOK
<1> QED
  BY <1>1, <1>2, <1>3, LeaseAndTimeKeepIInv

LEMMA DiscoveryStepKeepsIInv ==
  ASSUME IInv, NEW g \in Callers, DiscoveryStep(g)
  PROVE  IInv'
<1> PICK d \in Discovery :
       \/ \E s \in {"queued", "running"} : NewDiscovery(g, d, s)
       \/ AcceptDiscovery(g, d)
       \/ ReplaceDiscovery(g, d)
       \/ FailDiscovery(g, d)
  BY DEF DiscoveryStep
<1>1. CASE \E s \in {"queued", "running"} : NewDiscovery(g, d, s)
  BY <1>1, NewDiscoveryKeepsIInv
<1>2. CASE AcceptDiscovery(g, d)
  BY <1>2, AcceptDiscoveryKeepsIInv
<1>3. d \in Worker
  BY DEF Worker
<1>4. CASE ReplaceDiscovery(g, d)
  <2>1. errors' \in Nat /\ leaseLive' \in BOOLEAN
    BY <1>4 DEF ReplaceDiscovery, IInv, TypeOK
  <2>2. Active(d)
    BY <1>4 DEF ReplaceDiscovery, Active
  <2> QED
    BY <1>3, <1>4, <2>1, <2>2, RowUpdateKeepsIInv DEF ReplaceDiscovery, runVars
<1>5. CASE FailDiscovery(g, d)
  <2>1. errors' \in Nat /\ leaseLive' \in BOOLEAN
    BY <1>5 DEF FailDiscovery, IInv, TypeOK, counterVars, leaseVars
  <2> QED
    BY <1>3, <1>5, <2>1, RowUpdateKeepsIInv
    DEF FailDiscovery, leaseVars, counterVars
<1> QED
  BY <1>1, <1>2, <1>4, <1>5

LEMMA WorkerStepKeepsIInv ==
  ASSUME IInv, NEW g \in Callers, WorkerStep(g)
  PROVE  IInv'
<1> PICK w \in Worker :
       \/ \E n \in {"none", "error"} : StartAttempt(g, w, n)
       \/ \E n \in {"none", "shutdown", "error"} : CancelWorker(g, w, n)
  BY DEF WorkerStep
<1>1. CASE \E n \in {"none", "error"} : StartAttempt(g, w, n)
  <2>1. PICK n \in {"none", "error"} : StartAttempt(g, w, n)
    BY <1>1
  <2>2. errors' \in Nat /\ leaseLive' \in BOOLEAN
    BY <2>1 DEF StartAttempt, IInv, TypeOK, counterVars, leaseVars
  <2> QED
    BY <2>1, <2>2, RowUpdateKeepsIInv DEF StartAttempt, leaseVars, counterVars
<1>2. CASE \E n \in {"none", "shutdown", "error"} : CancelWorker(g, w, n)
  <2>1. PICK n \in {"none", "shutdown", "error"} : CancelWorker(g, w, n)
    BY <1>2
  <2>2. errors' \in Nat /\ leaseLive' \in BOOLEAN
    BY <2>1 DEF CancelWorker, IInv, TypeOK, counterVars, leaseVars
  <2>3. RunningScan
    BY <2>1 DEF CancelWorker, IInv, StoppedRunHasNoActiveRow, SomeActive
  <2> QED
    BY <2>1, <2>2, <2>3, RowUpdateKeepsIInv
    DEF CancelWorker, leaseVars, counterVars
<1> QED
  BY <1>1, <1>2

LEMMA ReducerStepKeepsIInv ==
  ASSUME IInv, NEW g \in Callers, ReducerStep(g)
  PROVE  IInv'
  BY ClaimDedupKeepsIInv, CommitDedupKeepsIInv, FailReducerKeepsIInv
  DEF ReducerStep

LEMMA StopStepKeepsIInv ==
  ASSUME IInv, NEW g \in Callers, StopStep(g)
  PROVE  IInv'
<1>1. CASE \E why \in {"saturated", "capped"}, omitted \in SUBSET Discovery :
             FinishDeepScan(g, why, omitted)
  BY <1>1, FinishKeepsIInv
<1>2. CASE \E s \in {"failed", "interrupted"} : FailDeepScan(g, s)
  BY <1>2, StopRunKeepsIInv DEF FailDeepScan
<1> QED
  BY <1>1, <1>2 DEF StopStep

LEMMA ParentStepKeepsIInv ==
  ASSUME IInv, ParentStep
  PROVE  IInv'
<1>1. CASE FailScan
  <2>1. CASE run = "running"
    BY <1>1, <2>1, StopRunKeepsIInv DEF FailScan
  <2>2. CASE run # "running"
    <3>1. run = "succeeded"
      BY <1>1, <2>2 DEF FailScan, IInv, ParentAgrees
    <3> QED
      BY <1>1, <2>2, <3>1, ParentAloneKeepsIInv DEF FailScan
  <2> QED
    BY <2>1, <2>2
<1>2. CASE CancelScan
  BY <1>2, StopRunKeepsIInv DEF CancelScan
<1>3. CASE CompleteScan
  BY <1>3, ParentAloneKeepsIInv DEF CompleteScan, ReadyForParentCompletion
<1> QED
  BY <1>1, <1>2, <1>3 DEF ParentStep

\* Every command, every tick of the clock and every stutter preserves IInv.
LEMMA NextKeepsIInv == IInv /\ [Next]_vars => IInv'
<1> SUFFICES ASSUME IInv, [Next]_vars PROVE IInv'
  OBVIOUS
<1>1. ASSUME NEW g \in Callers, LeaseStep(g) PROVE IInv'
  BY <1>1, LeaseStepKeepsIInv
<1>2. ASSUME NEW g \in Callers, DiscoveryStep(g) PROVE IInv'
  BY <1>2, DiscoveryStepKeepsIInv
<1>3. ASSUME NEW g \in Callers, WorkerStep(g) PROVE IInv'
  BY <1>3, WorkerStepKeepsIInv
<1>4. ASSUME NEW g \in Callers, ReducerStep(g) PROVE IInv'
  BY <1>4, ReducerStepKeepsIInv
<1>5. ASSUME NEW g \in Callers, StopStep(g) PROVE IInv'
  BY <1>5, StopStepKeepsIInv
<1>6. CASE AdoptCoordinator
  BY <1>6, AdoptKeepsIInv
<1>7. CASE ParentStep
  BY <1>7, ParentStepKeepsIInv
<1>8. CASE LeaseExpires
  BY <1>8, LeaseAndTimeKeepIInv DEF LeaseExpires, IInv, TypeOK
<1>9. CASE DeadlinePasses
  BY <1>9, LeaseAndTimeKeepIInv DEF DeadlinePasses, IInv, TypeOK
<1>10. CASE UNCHANGED vars
  BY <1>10, LeaseAndTimeKeepIInv DEF vars, leaseVars, IInv, TypeOK
<1> QED
  BY <1>1, <1>2, <1>3, <1>4, <1>5, <1>6, <1>7, <1>8, <1>9, <1>10 DEF Next

-----------------------------------------------------------------------------
\* The inductive invariant holds in every behaviour.
THEOREM Invariance == Spec => []IInv
  BY InitIInv, NextKeepsIInv, PTL DEF Spec

\* Type correctness of the rows, for every value of the constants.
THEOREM TypeCorrect == Spec => []TypeOK
<1>1. IInv => TypeOK
  BY DEF IInv
<1> QED
  BY <1>1, Invariance, PTL

\* No result is folded into the ledger twice or claimed to be when it was not,
\* whatever is retried, replayed, failed or adopted.
THEOREM LedgerIsExact == Spec => []MergedExactlyOnce
<1>1. IInv => MergedExactlyOnce
  BY DEF IInv
<1> QED
  BY <1>1, Invariance, PTL

\* The streak that saturates a run is the number of results merged since a
\* reduction last found something new, through replays, retries and adoptions.
THEOREM StreakIsHonest == Spec => []StreakIsExact
<1>1. IInv => StreakIsExact
  BY DEF IInv
<1> QED
  BY <1>1, Invariance, PTL

\* At most one reducer is active, whoever claims, fails or takes over.
THEOREM ReducersExclusive == Spec => []OneActiveReducer
<1>1. IInv => OneActiveReducer
  BY DEF IInv
<1> QED
  BY <1>1, Invariance, PTL

\* Nobody takes away the inputs of an active reducer.
THEOREM ClaimsStayWhole == Spec => []ActiveClaimIsWhole
<1>1. IInv => ActiveClaimIsWhole
  BY DEF IInv
<1> QED
  BY <1>1, Invariance, PTL

\* What an adoption leaves claimed, a reducer that was canceled otherwise than by
\* a shutdown had claimed.
LEMMA AdoptionReleases ==
  ASSUME IInv, AdoptCoordinator, NEW d \in Discovery, merge'[d] = "merging"
  PROVE  \E r \in Reducer : d \in inputs[r] /\ CanceledOtherwise(r)
<1>1. CASE NeedsRecovery
  <2>1. d \in Merging /\ d \notin ClaimedBy(Abandoned)
    BY <1>1 DEF AdoptCoordinator, RecoverExpiredCoordinator, Merging,
       WithRebuffered
  <2>2. PICK r \in Reducer : /\ d \in inputs[r] /\ status[r] # "succeeded"
                             /\ note[r] # "recovered"
    BY <2>1 DEF IInv, MergingIsClaimed
  <2>3. ~Active(r) /\ status[r] # "failed" /\ ~ShutdownCanceled(r)
    BY <2>1, <2>2 DEF ClaimedBy, Abandoned
  <2>4. status[r] \in WorkerStatus /\ status[r] # "none"
    BY <2>2 DEF IInv, TypeOK, NotesFit, Worker
  <2>5. status[r] = "canceled"
    BY <2>2, <2>3, <2>4 DEF Active, WorkerStatus
  <2> QED
    BY <2>2, <2>3, <2>5 DEF ShutdownCanceled, CanceledOtherwise
<1>2. CASE ~NeedsRecovery
  <2>1. merge' = merge /\ d \in Worker
    BY <1>2 DEF AdoptCoordinator, rowVars, Worker
  <2>2. status[d] = "none"
    BY <1>2, <2>1 DEF IInv, SetupIsEmpty, NeedsRecovery
  <2> QED
    BY <2>1, <2>2 DEF IInv, MergeMatchesStatus
<1> QED
  BY <1>1, <1>2

\* Only an adoption changes the generation.
LEMMA OnlyAdoptionChangesGeneration ==
  ASSUME [Next]_vars, generation' # generation
  PROVE  AdoptCoordinator
<1>1. ASSUME NEW g \in Callers PROVE ~LeaseStep(g) /\ ~DiscoveryStep(g)
  BY DEF LeaseStep, RenewLease, Heartbeat, DiscoveryStep, NewDiscovery,
     AcceptDiscovery, ReplaceDiscovery, FailDiscovery, leaseVars
<1>2. ASSUME NEW g \in Callers PROVE ~WorkerStep(g) /\ ~ReducerStep(g)
  BY DEF WorkerStep, StartAttempt, CancelWorker, ReducerStep, ClaimDedup,
     CommitDedup, FailReducer, leaseVars
<1>3. ASSUME NEW g \in Callers PROVE ~StopStep(g)
  BY DEF StopStep, FinishDeepScan, FailDeepScan, StopRun
<1>4. ~ParentStep /\ ~LeaseExpires /\ ~DeadlinePasses
  BY DEF ParentStep, FailScan, CancelScan, CompleteScan, StopRun, LeaseExpires,
     DeadlinePasses, leaseVars
<1>5. ~UNCHANGED vars
  BY DEF vars, leaseVars
<1> QED
  BY <1>1, <1>2, <1>3, <1>4, <1>5 DEF Next

\* An adoption gives back what every reducer it meets had claimed, except one
\* that an error or the user had canceled, in every generation.
THEOREM RecoveryStrandsNothing == Spec => NoStrandedByRecovery
<1>1. IInv /\ [Next]_vars =>
        [generation' # generation =>
           \A d \in Discovery :
             merge'[d] = "merging" =>
               \E r \in Reducer : d \in inputs[r] /\ CanceledOtherwise(r)]_vars
  BY AdoptionReleases, OnlyAdoptionChangesGeneration
<1> QED
  BY <1>1, Invariance, PTL DEF Spec, NoStrandedByRecovery

\* The discovery budget is exact through any number of adoptions.
THEOREM BudgetIsExact == Spec => []DispatchAccounting
<1>1. IInv => DispatchAccounting
  BY DEF IInv
<1> QED
  BY <1>1, Invariance, PTL

\* A coordinator that takes over meets no live row of its predecessors.
THEOREM NoForeignRow == Spec => []ActiveRowsAreCurrent
<1>1. IInv => ActiveRowsAreCurrent
  BY DEF IInv
<1> QED
  BY <1>1, Invariance, PTL

\* A run that succeeded accounts for everything it accepted.
THEOREM CompletionIsHonest == Spec => []SucceededRunIsComplete
<1>1. IInv => SucceededRunIsComplete
  BY DEF IInv
<1> QED
  BY <1>1, Invariance, PTL

\* A run and its parent scan never disagree about how they ended.
THEOREM ParentFollowsRun == Spec => []ParentAgrees
<1>1. IInv => ParentAgrees
  BY DEF IInv
<1> QED
  BY <1>1, Invariance, PTL

\* Once the run has stopped no command but the parent's changes anything, and
\* the parent's changes no row, count or reason.
LEMMA StoppedStep ==
  ASSUME IInv, [Next]_vars, run # "running"
  PROVE  /\ run' = run \/ (run = "succeeded" /\ parent = "running"
                             /\ run' = "canceled" /\ parent' = "canceled")
         /\ UNCHANGED <<reason, generation, counterVars, rowVars>>
<1>1. ~RunningScan /\ \A w \in Worker : ~Active(w)
  BY DEF RunningScan, IInv, StoppedRunHasNoActiveRow, SomeActive
<1>2. status = WithActiveCanceled
  BY <1>1 DEF IInv, TypeOK, WithActiveCanceled
<1>3. ASSUME NEW g \in Callers, LeaseStep(g)
      PROVE  UNCHANGED <<run, reason, generation, counterVars, rowVars>>
  BY <1>3 DEF LeaseStep, RenewLease, Heartbeat, runVars
<1>4. ASSUME NEW g \in Callers, DiscoveryStep(g) PROVE FALSE
  BY <1>1, <1>4 DEF DiscoveryStep, NewDiscovery, AcceptDiscovery,
     ReplaceDiscovery, FailDiscovery
<1>5. ASSUME NEW g \in Callers, WorkerStep(g) PROVE FALSE
  BY <1>1, <1>5 DEF WorkerStep, StartAttempt, CancelWorker
<1>6. ASSUME NEW g \in Callers, ReducerStep(g) PROVE FALSE
  BY <1>1, <1>6 DEF ReducerStep, ClaimDedup, CommitDedup, FailReducer
<1>7. ASSUME NEW g \in Callers, StopStep(g) PROVE FALSE
  BY <1>1, <1>7 DEF StopStep, FinishDeepScan, FailDeepScan
<1>8. ~AdoptCoordinator
  BY <1>1 DEF AdoptCoordinator
<1>9. CASE ParentStep
  <2>1. CASE FailScan
    BY <2>1 DEF FailScan, leaseVars
  <2>2. CASE CancelScan
    BY <1>2, <2>2 DEF CancelScan, StopRun, rowVars
  <2>3. CASE CompleteScan
    BY <2>3 DEF CompleteScan, leaseVars
  <2> QED
    BY <1>9, <2>1, <2>2, <2>3 DEF ParentStep
<1>10. ~LeaseExpires /\ ~DeadlinePasses
  BY DEF LeaseExpires, DeadlinePasses
<1>11. CASE UNCHANGED vars
  BY <1>11 DEF vars, runVars, leaseVars
<1> QED
  BY <1>3, <1>4, <1>5, <1>6, <1>7, <1>8, <1>9, <1>10, <1>11 DEF Next

\* A stopped run stays as it stopped, except that the user may cancel a
\* succeeded one whose scan is not complete.
THEOREM StoppedForGood == Spec => TerminalIsStable
<1>1. IInv /\ [Next]_vars =>
        [run # "running" =>
           /\ run' = run \/ (run = "succeeded" /\ parent = "running"
                               /\ run' = "canceled" /\ parent' = "canceled")
           /\ UNCHANGED <<reason, generation, counterVars, rowVars>>]_vars
  BY StoppedStep
<1> QED
  BY <1>1, Invariance, PTL DEF Spec, TerminalIsStable

-----------------------------------------------------------------------------
(***************************************************************************)
(* The workbench implements the abstract ledger for every value of the     *)
(* constants: each command maps to one ledger step or to a stutter.        *)
(***************************************************************************)

\* The mapped stages, as sets of rows.
LEMMA StageSets ==
  ASSUME IInv
  PROVE  /\ Ledger!At("absent") = {d \in Discovery : status[d] = "none"}
         /\ Ledger!At("pending") = {d \in Discovery : Active(d)}
         /\ Ledger!At("accepted") =
              {d \in Discovery : status[d] = "succeeded" /\ merge[d] # "merged"}
         /\ Ledger!At("reduced") = Merged
         /\ Ledger!At("lost") =
              {d \in Discovery : status[d] \in {"failed", "canceled"}}
<1>1. \A d \in Discovery :
        /\ status[d] \in WorkerStatus
        /\ (merge[d] # "none") <=> (status[d] = "succeeded")
  BY DEF IInv, TypeOK, MergeMatchesStatus, Worker
<1> QED
  BY <1>1 DEF Ledger!At, StageOf, Active, Merged, WorkerStatus

\* Cardinality, as the ledger's module and as this one know it.
LEMMA SameCardinality ==
  ASSUME NEW S
  PROVE  Ledger!Cardinality(S) = Cardinality(S)
  BY DEF Ledger!Cardinality, Cardinality

\* The dispatch counter is what the abstract budget is charged.
LEMMA ChargedIsDispatched ==
  ASSUME IInv
  PROVE  Ledger!Charged = dispatched
<1>1. Discovery \ Ledger!At("absent") = Dispatched
  BY StageSets DEF Dispatched
<1> QED
  BY <1>1, SameCardinality DEF IInv, DispatchAccounting, Ledger!Charged

LEMMA LedgerInit == Init => Ledger!Init
<1> SUFFICES ASSUME Init PROVE Ledger!Init
  OBVIOUS
<1>1. \A d \in Discovery : StageOf(d) = "absent"
  BY DEF Init, StageOf, Worker
<1> QED
  BY <1>1 DEF Init, Ledger!Init, OutcomeOf

\* A step that changes no stage, no refund and no outcome stutters.
LEMMA LedgerStutters ==
  ASSUME UNCHANGED <<run, reason, refunded>>,
         \A d \in Discovery : StageOf(d)' = StageOf(d)
  PROVE  UNCHANGED Ledger!ledgerVars
<1>1. [d \in Discovery |-> StageOf(d)]' = [d \in Discovery |-> StageOf(d)]
  OBVIOUS
<1> QED
  BY <1>1 DEF Ledger!ledgerVars, OutcomeOf

\* A running run is an open ledger.
LEMMA RunningIsOpen ==
  ASSUME RunningScan
  PROVE  OutcomeOf = "open"
  BY DEF RunningScan, OutcomeOf

LEMMA DiscoveryStepImplements ==
  ASSUME IInv, NEW g \in Callers, DiscoveryStep(g)
  PROVE  [Ledger!Next]_Ledger!ledgerVars
<1> PICK d \in Discovery :
       \/ \E s \in {"queued", "running"} : NewDiscovery(g, d, s)
       \/ AcceptDiscovery(g, d)
       \/ ReplaceDiscovery(g, d)
       \/ FailDiscovery(g, d)
  BY DEF DiscoveryStep
<1>0. /\ RunningScan /\ RunningScan' /\ refunded' = refunded
      /\ OutcomeOf = "open" /\ OutcomeOf' = "open"
  BY DEF NewDiscovery, AcceptDiscovery, ReplaceDiscovery, FailDiscovery,
     runVars, historyVars, RunningScan, OutcomeOf
<1>1. d \in Worker /\ \A e \in Discovery : e \in Worker
  BY DEF Worker
<1>2. CASE \E s \in {"queued", "running"} : NewDiscovery(g, d, s)
  <2>1. PICK s \in {"queued", "running"} : NewDiscovery(g, d, s)
    BY <1>2
  <2>2. \A e \in Discovery :
          StageOf(e)' = IF e \in {d} THEN "pending" ELSE StageOf(e)
    BY <1>1, <2>1 DEF NewDiscovery, StageOf, Active, IInv, TypeOK
  <2>3. StageOf(d) = "absent"
    BY <2>1 DEF NewDiscovery, StageOf
  <2>4. Ledger!Charged < MaxDiscoveryRuns
    BY <2>1, ChargedIsDispatched DEF NewDiscovery
  <2>5. Ledger!Dispatch(d)
    BY <1>0, <2>2, <2>3, <2>4 DEF Ledger!Dispatch, Ledger!Moved
  <2> QED
    BY <2>5 DEF Ledger!Next
<1>3. CASE AcceptDiscovery(g, d)
  <2>1. \A e \in Discovery :
          StageOf(e)' = IF e \in {d} THEN "accepted" ELSE StageOf(e)
    BY <1>1, <1>3 DEF AcceptDiscovery, StageOf, Active, IInv, TypeOK
  <2>2. StageOf(d) = "pending"
    BY <1>3 DEF AcceptDiscovery, StageOf, Active
  <2>3. Ledger!Accept(d)
    BY <1>0, <2>1, <2>2 DEF Ledger!Accept, Ledger!Moved
  <2> QED
    BY <2>3 DEF Ledger!Next
<1>4. CASE ReplaceDiscovery(g, d) \/ FailDiscovery(g, d)
  <2>1. \A e \in Discovery :
          StageOf(e)' = IF e \in {d} THEN "lost" ELSE StageOf(e)
    BY <1>1, <1>4 DEF ReplaceDiscovery, FailDiscovery, StageOf, Active, IInv,
       TypeOK
  <2>2. StageOf(d) = "pending"
    BY <1>4 DEF ReplaceDiscovery, FailDiscovery, StageOf, Active
  <2>3. Ledger!Lose(d)
    BY <1>0, <2>1, <2>2 DEF Ledger!Lose, Ledger!Moved
  <2> QED
    BY <2>3 DEF Ledger!Next
<1> QED
  BY <1>2, <1>3, <1>4

LEMMA WorkerStepImplements ==
  ASSUME IInv, NEW g \in Callers, WorkerStep(g)
  PROVE  [Ledger!Next]_Ledger!ledgerVars
<1> PICK w \in Worker :
       \/ \E n \in {"none", "error"} : StartAttempt(g, w, n)
       \/ \E n \in {"none", "shutdown", "error"} : CancelWorker(g, w, n)
  BY DEF WorkerStep
<1>1. /\ UNCHANGED <<run, parent, reason, refunded, merge>>
      /\ Active(w) /\ RunningScan /\ w \in Worker
      /\ \A e \in Discovery : e \in Worker
  BY DEF StartAttempt, CancelWorker, runVars, historyVars, Worker, IInv,
     StoppedRunHasNoActiveRow, SomeActive
<1>2. CASE \E n \in {"none", "error"} : StartAttempt(g, w, n)
  <2>1. \A d \in Discovery : StageOf(d)' = StageOf(d)
    BY <1>1, <1>2 DEF StartAttempt, StageOf, Active, IInv, TypeOK
  <2> QED
    BY <1>1, <2>1, LedgerStutters
<1>3. CASE \E n \in {"none", "shutdown", "error"} : CancelWorker(g, w, n)
  <2>1. \A v \in Worker : status'[v] = IF v = w THEN "canceled" ELSE status[v]
    BY <1>3 DEF CancelWorker, IInv, TypeOK
  <2>2. CASE w \in Discovery
    <3>1. \A e \in Discovery :
            StageOf(e)' = IF e \in {w} THEN "lost" ELSE StageOf(e)
      BY <1>1, <2>1 DEF StageOf, Active
    <3>2. StageOf(w) = "pending"
      BY <1>1 DEF StageOf, Active
    <3>3. Ledger!Lose(w)
      BY <1>1, <2>2, <3>1, <3>2 DEF Ledger!Lose, Ledger!Moved, OutcomeOf,
         RunningScan
    <3> QED
      BY <2>2, <3>3 DEF Ledger!Next
  <2>3. CASE w \notin Discovery
    <3>1. \A d \in Discovery : StageOf(d)' = StageOf(d)
      BY <1>1, <2>1, <2>3 DEF StageOf, Active
    <3> QED
      BY <1>1, <3>1, LedgerStutters
  <2> QED
    BY <2>2, <2>3
<1> QED
  BY <1>2, <1>3

LEMMA ReducerStepImplements ==
  ASSUME IInv, NEW g \in Callers, ReducerStep(g)
  PROVE  [Ledger!Next]_Ledger!ledgerVars
<1> PICK r \in Reducer :
       \/ \E S \in SUBSET Discovery : ClaimDedup(g, r, S)
       \/ \E new \in {0, 1} : CommitDedup(g, r, new)
       \/ FailReducer(g, r)
  BY DEF ReducerStep
<1>1. /\ UNCHANGED <<run, parent, reason, refunded>> /\ RunningScan
      /\ \A d \in Discovery : d \in Worker /\ status'[d] = status[d]
  BY WorkbenchAssumption DEF ClaimDedup, Claimable, CommitDedup, FailReducer, historyVars,
     Worker, IInv, TypeOK
<1>2. CASE \E S \in SUBSET Discovery : ClaimDedup(g, r, S)
  <2>1. \A d \in Discovery :
          merge'[d] = merge[d] \/ (merge'[d] # "merged" /\ merge[d] # "merged")
    BY <1>2 DEF ClaimDedup, Claimable, BufferedPrefix, Buffered
  <2>2. \A d \in Discovery : StageOf(d)' = StageOf(d)
    BY <1>1, <2>1 DEF StageOf, Active
  <2> QED
    BY <1>1, <2>2, LedgerStutters
<1>3. CASE FailReducer(g, r)
  <2>1. \A d \in Discovery :
          merge'[d] = merge[d] \/ (merge'[d] # "merged" /\ merge[d] # "merged")
    BY <1>3 DEF FailReducer, WithRebuffered
  <2>2. \A d \in Discovery : StageOf(d)' = StageOf(d)
    BY <1>1, <2>1 DEF StageOf, Active
  <2> QED
    BY <1>1, <2>2, LedgerStutters
<1>4. CASE \E new \in {0, 1} : CommitDedup(g, r, new)
  <2>1. PICK new \in {0, 1} : CommitDedup(g, r, new)
    BY <1>4
  <2>2. /\ inputs[r] # {} /\ inputs[r] \subseteq Discovery
        /\ \A d \in inputs[r] : merge[d] = "merging" /\ status[d] = "succeeded"
    BY <2>1 DEF CommitDedup, IInv, TypeOK, MergeMatchesStatus
  <2>3. \A d \in Discovery :
          StageOf(d)' = IF d \in inputs[r] THEN "reduced" ELSE StageOf(d)
    BY <1>1, <2>1, <2>2 DEF CommitDedup, StageOf, Active
  <2>4. inputs[r] \subseteq Ledger!At("accepted")
    BY <2>2, StageSets
  <2>5. Ledger!Reduce(inputs[r])
    BY <1>1, <2>2, <2>3, <2>4 DEF Ledger!Reduce, Ledger!Moved, OutcomeOf,
       RunningScan
  <2> QED
    BY <2>2, <2>5 DEF Ledger!Next
<1> QED
  BY <1>2, <1>3, <1>4

LEMMA AdoptImplements ==
  ASSUME IInv, AdoptCoordinator
  PROVE  [Ledger!Next]_Ledger!ledgerVars
<1>1. RunningScan /\ UNCHANGED <<run, parent, reason>>
  BY DEF AdoptCoordinator
<1>2. CASE NeedsRecovery
  <2>1. RecoverExpiredCoordinator
    BY <1>2 DEF AdoptCoordinator
  <2>2. \A d \in Discovery :
          /\ d \in Worker
          /\ status'[d] = IF Active(d) THEN "canceled" ELSE status[d]
          /\ merge'[d] = merge[d] \/ (merge'[d] # "merged" /\ merge[d] # "merged")
    BY <2>1 DEF RecoverExpiredCoordinator, WithActiveCanceled, WithRebuffered,
       Worker
  <2>3. \A d \in Discovery :
          StageOf(d)' = IF d \in Interrupted THEN "lost" ELSE StageOf(d)
    BY <2>2 DEF StageOf, Active, Interrupted, ShutdownCanceled
  <2>4. /\ Interrupted \subseteq Discovery
        /\ Ledger!At("pending") \subseteq Interrupted
        /\ Interrupted \subseteq Ledger!At("pending") \cup Ledger!At("lost")
    BY StageSets DEF Interrupted, ShutdownCanceled
  <2>5. Interrupted \cap refunded = {}
    BY WorkbenchAssumption
    DEF Interrupted, ShutdownCanceled, Legacy, Active, Generations, IInv,
        TypeOK, DispatchAccounting, RefundedIsMarked
  <2>6. refunded' = refunded \cup Interrupted
    BY <2>1 DEF RecoverExpiredCoordinator
  <2>7. Ledger!GiveBack(Interrupted)
    BY <1>1, <2>3, <2>4, <2>5, <2>6 DEF Ledger!GiveBack, Ledger!Moved,
       OutcomeOf, RunningScan
  <2> QED
    BY <2>4, <2>7 DEF Ledger!Next
<1>3. CASE ~NeedsRecovery
  <2>1. UNCHANGED <<refunded, status, merge>>
    BY <1>3 DEF AdoptCoordinator, rowVars, historyVars
  <2>2. \A d \in Discovery : StageOf(d)' = StageOf(d)
    BY <2>1 DEF StageOf, Active
  <2> QED
    BY <1>1, <2>1, <2>2, LedgerStutters
<1> QED
  BY <1>2, <1>3

\* Stopping closes an open ledger as stopped, and withdraws a successful one.
LEMMA StopRunImplements ==
  ASSUME IInv, NEW s \in {"failed", "interrupted", "canceled"}, NEW p,
         StopRun(s, p), run \in {"running", "succeeded"}
  PROVE  [Ledger!Next]_Ledger!ledgerVars
<1>1. \A d \in Discovery :
        /\ d \in Worker /\ merge' = merge /\ refunded' = refunded
        /\ status'[d] = IF Active(d) THEN "canceled" ELSE status[d]
  BY DEF StopRun, WithActiveCanceled, Worker, historyVars
<1>2. \A d \in Discovery :
        StageOf(d)' = IF Active(d) THEN "lost" ELSE StageOf(d)
  BY <1>1 DEF StageOf, Active
<1>3. OutcomeOf' = "stopped" /\ refunded' = refunded
  BY DEF StopRun, OutcomeOf, historyVars
<1>4. CASE run = "running"
  <2>1. Ledger!Close("stopped")
    BY <1>2, <1>3, <1>4, StageSets DEF Ledger!Close, Ledger!Moved,
       Ledger!Justified, OutcomeOf
  <2> QED
    BY <2>1 DEF Ledger!Next, Ledger!Outcome
<1>5. CASE run = "succeeded"
  <2>1. \A d \in Discovery : StageOf(d)' = StageOf(d)
    BY <1>1, <1>2, <1>5 DEF IInv, StoppedRunHasNoActiveRow, SomeActive
  <2>2. OutcomeOf \in {"saturated", "capped"}
    BY <1>5 DEF OutcomeOf, IInv, TypeOK, SucceededRunIsComplete
  <2>3. Ledger!Withdraw
    BY <1>3, <2>1, <2>2 DEF Ledger!Withdraw
  <2> QED
    BY <2>3 DEF Ledger!Next
<1> QED
  BY <1>4, <1>5

LEMMA FinishImplements ==
  ASSUME IInv, NEW g, NEW why \in {"saturated", "capped"},
         NEW omitted \in SUBSET Discovery, FinishDeepScan(g, why, omitted)
  PROVE  [Ledger!Next]_Ledger!ledgerVars
<1> USE DEF FinishDeepScan, Finishable
<1>1. \A d \in Discovery :
        /\ d \in Worker
        /\ status'[d] = IF Active(d) THEN "canceled" ELSE status[d]
        /\ merge'[d] = merge[d] \/ (merge'[d] # "merged" /\ merge[d] # "merged")
  BY DEF WithActiveCanceled, MergeAtFinish, WithRebuffered, Worker
<1>2. \A d \in Discovery :
        StageOf(d)' = IF Active(d) THEN "lost" ELSE StageOf(d)
  BY <1>1 DEF StageOf, Active
<1>3. OutcomeOf = "open" /\ OutcomeOf' = why /\ refunded' = refunded
  BY DEF OutcomeOf, RunningScan, historyVars
<1>4. Ledger!Justified(why)
  <2>1. CASE why = "saturated"
    <3>1. noNew >= StopAfterNoNew /\ noNew <= Cardinality(Merged)
      BY <2>1, StreakIsMerged DEF MayStop, IInv
    <3>2. Cardinality(Merged) \in Nat
      BY DiscoverySetsFinite DEF Merged
    <3>3. Ledger!Cardinality(Ledger!At("reduced")) >= StopAfterNoNew
      BY <3>1, <3>2, StageSets, SameCardinality, WorkbenchAssumption
      DEF IInv, TypeOK
    <3> QED
      BY <2>1, <3>3 DEF Ledger!Justified
  <2>2. CASE why = "capped"
    <3>1. CASE omitted = {}
      <4>1. \A d \in Discovery :
              status[d] = "succeeded" => MergeAtFinish(why)[d] = "merged"
        BY <3>1 DEF LeftOver, IInv, TypeOK, MergeMatchesStatus, MergeAtFinish,
           WithRebuffered, MergeState
      <4>2. \A d \in Discovery : status[d] = "succeeded" => merge[d] = "merged"
        BY <1>1, <4>1
      <4>3. Ledger!At("accepted") = {}
        BY <4>2, StageSets
      <4> QED
        BY <2>2, <4>3 DEF Ledger!Justified
    <3>2. CASE omitted # {}
      <4>1. PartialCoverage /\ SomeReduced
        BY <2>2, <3>2 DEF OmissionAllowed, FailureCapped
      <4>2. PICK r \in Reducer : status[r] = "succeeded"
        BY <4>1 DEF SomeReduced
      <4>3. PICK d \in inputs[r] : d \in Discovery
        BY <4>2 DEF IInv, TypeOK, MergedExactlyOnce
      <4>4. d \in Ledger!At("reduced")
        BY <4>2, <4>3, StageSets DEF IInv, MergedExactlyOnce, Merged
      <4> QED
        BY <2>2, <4>1, <4>4 DEF Ledger!Justified
    <3> QED
      BY <3>1, <3>2
  <2> QED
    BY <2>1, <2>2
<1>5. Ledger!Close(why)
  BY <1>2, <1>3, <1>4, StageSets DEF Ledger!Close, Ledger!Moved
<1> QED
  BY <1>5 DEF Ledger!Next, Ledger!Outcome

LEMMA NextImplements ==
  IInv /\ [Next]_vars => [Ledger!Next]_Ledger!ledgerVars
<1> SUFFICES ASSUME IInv, [Next]_vars PROVE [Ledger!Next]_Ledger!ledgerVars
  OBVIOUS
<1>1. ASSUME UNCHANGED <<run, reason, status, merge, refunded>>
      PROVE  [Ledger!Next]_Ledger!ledgerVars
  <2>1. \A d \in Discovery : StageOf(d)' = StageOf(d)
    BY <1>1 DEF StageOf, Active
  <2> QED
    BY <1>1, <2>1, LedgerStutters
<1>2. ASSUME NEW g \in Callers, LeaseStep(g)
      PROVE  [Ledger!Next]_Ledger!ledgerVars
  BY <1>1, <1>2 DEF LeaseStep, RenewLease, Heartbeat, runVars, rowVars,
     historyVars
<1>3. ASSUME NEW g \in Callers, StopStep(g)
      PROVE  [Ledger!Next]_Ledger!ledgerVars
  BY <1>3, FinishImplements, StopRunImplements DEF StopStep, FailDeepScan
<1>4. CASE ParentStep
  <2>1. CASE FailScan /\ run = "running"
    BY <2>1, StopRunImplements DEF FailScan
  <2>2. CASE FailScan /\ run # "running"
    BY <1>1, <2>2 DEF FailScan, rowVars, historyVars
  <2>3. CASE CancelScan
    BY <2>3, StopRunImplements DEF CancelScan
  <2>4. CASE CompleteScan
    BY <1>1, <2>4 DEF CompleteScan, rowVars, historyVars
  <2> QED
    BY <1>4, <2>1, <2>2, <2>3, <2>4 DEF ParentStep
<1>5. CASE LeaseExpires \/ DeadlinePasses
  BY <1>1, <1>5 DEF LeaseExpires, DeadlinePasses, runVars, rowVars, historyVars
<1>6. CASE UNCHANGED vars
  BY <1>1, <1>6 DEF vars, runVars, rowVars, historyVars
<1> QED
  BY <1>2, <1>3, <1>4, <1>5, <1>6, DiscoveryStepImplements,
     WorkerStepImplements, ReducerStepImplements, AdoptImplements DEF Next

-----------------------------------------------------------------------------
\* The rows of the workbench implement the abstract ledger.
THEOREM WorkbenchImplementsLedger == Spec => ImplementsLedger
  BY LedgerInit, NextImplements, Invariance, PTL
  DEF Spec, ImplementsLedger, Ledger!Spec
=============================================================================
