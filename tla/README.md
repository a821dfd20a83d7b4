# wp-codex, verified

TLA+ models of the parts of this repository in which several processes, commands or passes share state: the
Deep Scan of the Codex Security plugin with its parent scan, the handoff and the results of any scan, the
remediation of a finding, and the candidate map of the WordPress plugin. This file says what the models take from the
code, what TLC checks of them on small instances, and what TLAPS proves of them for every instance.

A *scan* is worked on by a Codex thread (or an SDK's agent), which saves drafts of its findings and completes the
scan; the user or a failure may stop it, and what was saved is then published all the same. A *Deep Scan* runs many
independent *discovery* workers over one repository and lets *dedup* workers ("reducers") fold their results, in the
order in which they were accepted, into one candidate ledger. It stops when enough consecutive results were nothing
new (saturated) or when its budget of runs or time is used up (capped). Findings of a completed scan may be *remediated*:
a fix is generated, reviewed, applied and verified. The *candidate map* is a static pass over a WordPress plugin that
decides which functions a model is to review, and how thoroughly.

Everything that counts is in SQLite or in files written one after the other; any process may die between two writes,
and whoever comes next has to make sense of what it finds.

Paths below are relative to `src/`; `scripts/` is `plugins/codex-security/scripts/`, `deep-scan/` is
`plugins/codex-security/mcp-app/src/deep-scan/`, `sdk/` is `sdk/typescript/src/`, `wordpress/` is
`wp-codex-security-plugin/scripts/wordpress/`.

## 1. Inventory

| Component | Code | State it keeps | Operations | Modelled by |
|---|---|---|---|---|
| Deep Scan rows and commands | `scripts/deep_scan_workbench.py`, `scripts/workbench_schema.py` | `deep_scan_runs`, `deep_scan_workers`, `deep_scan_dedup_inputs`, heartbeat files | begin, claim the lease, heartbeat, upsert a worker, claim and commit a reduction, finish, fail | DeepScanWorkbench |
| Parent scan of a Deep Scan | `scripts/workbench_saved_results.py`, `scripts/workbench_db.py` | `scans.status` | fail-scan, cancel-scan, complete-scan | DeepScanWorkbench (the effect on rows) |
| Candidate ledger publication | `scripts/deep_scan_workbench.py` 340-392, 1124-1159, 1575-1705 | `candidate_ledger.jsonl`, its `.backup` siblings, each reducer's staged copy | promote, roll back, finish, recover | LedgerPublication |
| Coordinator | `deep-scan/coordinator.ts`, `registry.ts` | buffer, pool, streaks, stop reason, abort controllers | start or join, schedule, adopt, shut down, cancel, finish, fail | DeepScanCoordinator |
| Workers and store client | `deep-scan/worker-runner.ts`, `store.ts` | one task per worker, the queue of writes, the lease map | insert, attempt, retry, save, give up, cancel, replay | DeepScanCoordinator |
| Scan handoff | `scripts/workbench/handoff.py` and the ways a scan starts | handoff columns of `scans`: status, claim token and its time, thread, owner | claim, take over, release, attach, deliver; set the thread, begin the Deep Scan | ScanHandoff |
| Saved results | `scripts/workbench_saved_results.py`, `workbench_db.py` 1139-1655 | checkpoints, frozen sources, digest, the finding index | save a draft, prepare, complete, fail, cancel, preserve, recover | ScanResults |
| Scan finalization | `scripts/finalize_scan_contract.py` | `findings.json`, `coverage.json`, `scan-manifest.json` with its seal | seal, check a seal, write file by file | ScanResults (seal and order of writes) |
| Finding remediation | `scripts/workbench_remediation.py`, `workbench_db.py` 1932-2572 | `finding_remediation_attempts`, triage, the user's checkout | request, ask for an action, record a result, claim, deliver, release, cancel, triage | FindingRemediation |
| WordPress candidate map | `wordpress/wp_candidate_map_v5.py` | one run over a plugin: units, queues, packs, cases | walk flows, promote, index, pack, choose cases | CandidateFlow, CandidateMap |
| Executor, sandbox, artifacts | `deep-scan/executor.ts`, `artifacts.ts`, `permission-profile-preflight.ts` ... | files of one attempt | run a process, validate files | not: an attempt is a nondeterministic result |
| Scan start and progress | `scripts/workbench_scan_start.py`, `workbench_progress.py` | scan rows, phases | reuse or create, advance | not: single statements on one row; how a scan starts is in ScanHandoff |
| Publication to trackers | `sdk/publication*.ts`, `scripts/workbench_publication.py` | publication records and events | prepare, publish, reconcile | not |
| Multi-repository scans, cost | `sdk/multiscan.ts`, `cost.ts` | results file, spent cost | schedule, resume, stop | not |
| Deduplication reviews | `sdk/deduplication/*.ts` | checkpoints of a review | review, resume | not |
| The second plugin's own copy of workbench and contracts | `wp-codex-security-plugin/scripts/*.py` | as above | as above | not: an earlier version of the same commands |
| SDK runtime, CLI, servers, dashboards, severity, migrations, packaging | see PROJECT.json | - | - | not: sequential, read-only or pure functions over documents |

**Interaction.** A call of the MCP server reaches the *registry*, which joins a coordinator of its process,
observes one of another process, or claims the run and starts a coordinator. The coordinator starts workers;
both change the rows only through *workbench commands*, child processes that each make one SQLite
transaction (`BEGIN IMMEDIATE`) and refuse any caller that does not present the run's current *generation*.
The store client sends its process' commands one after the other and replays a write whose answer was lost.
A timer renews the lease (a heartbeat file per generation) and notices that the run was stopped by somebody
else. Users fail, cancel or complete the *parent scan* from anywhere. The end of the run and the end of the
parent are separate commands.

Any scan is *handed off*: the panel claims the handoff with a token, sends the token to a thread in a host message and
records the delivery; every later command names the token. Commands that write the documents of a scan hold the
scan's completion lock (a file lock), so that one runs at a time; the handoff is not under that lock. A stopped scan is
published from its *sources* (checkpoints, worker results, and sometimes the documents themselves), whose digests are
*frozen* in the row before the first file is written. Remediation commands read their row and hash the checkout
before they open their transaction; the UPDATE then tests the version and the token of the row.

**What is hard, and what makes each part correct.**

- *Rows*: commands of several generations interleave; recovery gives back claims and budget slots of a lost
  coordinator, some of whose rows were already canceled by its own shutdown. Correct if each accepted result
  is folded in exactly once, no slot is refunded twice, and a stopped run never changes again.
- *Coordinator and workers*: outcomes wait in a queue while limits are judged, deadline and abort race with
  a worker's last write, answers get lost after a commit, a process dies anywhere. Correct if the loop's view
  of the rows never makes it start what they refuse, forgets no accepted result, and every run ends.
- *Ledger publication*: files take no part in the transaction. Correct if the committed ledger can always be
  recovered and a takeover republishes exactly it.
- *Handoff*: a claim times out while its message is on the way. Correct if a thread of an earlier claim never
  owns the scan and what was delivered stays delivered.
- *Results*: a seal and the row's digest are written at different times, and so are the documents a seal covers;
  a stop meets whatever a killed draft, completion or publication left. Correct if a completed scan is the last draft,
  a stopped one publishes all that was frozen and the last draft, and no later publication takes anything back.
- *Remediation*: a check is old when its UPDATE runs. Correct if version and token stand for all that was checked.
- *Candidate map*: three bounded walks that share what counts as visited, and four queues that are merged by keys.
  Correct if no flow within the bound is missed, and nothing that was promoted is dropped or reviewed with less effort.

All hazards that were found, each at its line, are in PROJECT.json with the properties that answer them; two
have no property and say why.

## 2. Modules

| Module | About |
|---|---|
| `DiscoveryLedger` | Abstract: each discovery is dispatched once within a budget, accepted at most once, folded in at most once; a scan that succeeds folded in all it accepted or had reason not to. No leases, workers or counters. |
| `DeepScanWorkbench` | The rows and every command on them; any caller may send any command at any time. |
| `DeepScanLedger` | The refinement mapping from the rows to `DiscoveryLedger`. |
| `DeepScanCoordinator` | Extends `DeepScanWorkbench`: coordinator, workers, store client, observers, crashes, lost answers, deadline, leases. |
| `LedgerPublication` | The ledger's file beside the reducer rows, one step per call of the file system. |
| `ScanHandoff` | The handoff columns of a scan and every command on them. |
| `ScanResults` | Extends `ScanHandoff`: documents, checkpoints, row and index of a scan, one step per file written. |
| `FindingRemediation` | The remediation attempts of a finding beside the checkout they change. |
| `CandidateFlow` | The taint walks of the candidate mapper over a call graph, and the reference they are compared with. |
| `CandidateMap` | Extends `CandidateFlow`: promotion, queues, packs and cases. |
| `...Proofs` | Theorems and proofs, each for the module it is named after. `DeepScanWorkbenchProofs` also proves the refinement of `DeepScanLedger`, `ScanResultsProofs` that of `ScanHandoff`; `DeepScanSchedulingProofs` is about the loop of `DeepScanCoordinator`. |
| `MC...` | What TLC needs on top: symmetry sets, the plugins of the candidate map, a constraint. |

Operators whose comment begins with "Mutant" are plausible slips of the code (a dropped guard, a wrong order).
No action uses them; PROJECT.json lists, for each property, the definition that such an operator replaces to
show that the property notices the slip.

### DeepScanWorkbench

Each variable is a column (comments name it), except: `leaseLive` and `deadline`, which stand for the two
questions the code asks of clocks; `refunded`, `born` and `sinceNew`, which record history for the properties. `status` is
"none" while a row does not exist. `note` keeps of `error_message` only what recovery looks at: NULL, the
`coordinator_shutdown:` marker, the recovered marker, other text. `parent` tells a canceled scan from a failed
one by `canceled_at`. A command is one action since it is one transaction; a refused or replayed one changes
nothing and is a stuttering step.

| Action | Code |
|---|---|
| `RenewLease`, `AdoptCoordinator` | `claim_deep_scan_coordinator_locked`: renewal by the holder, takeover (with `recover_expired_coordinator` as `RecoverExpiredCoordinator`) |
| `Heartbeat` | `heartbeatCoordinator` of `store.ts`, which touches the heartbeat file of its generation |
| `NewDiscovery`, `StartAttempt`, `AcceptDiscovery`, `CancelWorker`, `ReplaceDiscovery`, `FailDiscovery`, `FailReducer` | the branches of `upsert_deep_scan_worker` |
| `ClaimDedup`, `CommitDedup` | `claim_deep_scan_dedup`, `commit_deep_scan_dedup` |
| `FinishDeepScan`, `FailDeepScan` | `finish_deep_scan_locked`, `fail_deep_scan` |
| `FailScan`, `CancelScan`, `CompleteScan` | the parent's commands in `workbench_saved_results.py`, `workbench_db.py` |
| `LeaseExpires`, `DeadlinePasses` | time |

Generation 1 is a run nobody has claimed: its commands carry no lease, and recovery uses the legacy reading
of rows without a marker.

### DeepScanCoordinator

`co` is the coordinator of the current generation. Its fields are the variables of `runScheduler` and of the
class, `mode` is where `run` stands, `abort` and `dstop` are the two abort signals, `task[w]` is where worker
`w` stands, `settlements` is the queue of outcomes the loop awaits. A label is an identity: labels are handed
out in increasing order. `faults` bounds the lost writes.

One action is what happens between two awaits: `Fill` starts workers until the pool is full and a reducer if one is due;
`ReadOutcome` handles one settled worker; `Exhausted`, `Drained`, `Finish`, `Fail` end the loop. A worker's write and
the arrival of its answer are two steps (`Store...`, then `Answer`), so that deadline, shutdown, cancellation and crash
fall between them. `WriteQueueFree` is `enqueueWrite`. `WriteLost` is a write whose replays all failed, committed or
not; `FinishLost`, `FailLost` and `CancelLost` are the same for the end of the run (`cancel-scan` is sent once: when it
fails, the process drops the run, which goes on as if it had crashed). `Refused` is a write the rows refuse, which the
guard of the corresponding command decides. `Claim` is a new call or an observer that finds the lease expired, in the
same process or another; it reads the coordinator's state back from the rows (`Recovered`). `Crash` forgets `co`.

### LedgerPublication

Variables: each reducer's `status` and `staged` ledger, the published `ledger`, its `backups`, the `command`
that holds the scan's completion lock with the step it has reached, `kills` per commit, and the history variable
`committed`, the ledger at the last commit of rows. A file is what it says and when it was written; linking,
copying with `copy2` and renaming keep the time.

| Action | Code |
|---|---|
| `Claim`, `Stage`, `GiveUp` | life of a reducer before its commit; it stages a changed ledger if `Rewrites` |
| `StartCommit` | `commit_deep_scan_dedup_locked` up to the promotion |
| `MoveAside`, `Publish` | the two `os.replace` of `promote_staged_file` |
| `CommitRows`, `DiscardBackup` | `connection.commit()`, `finish_staged_file` |
| `Withdraw`, `Reinstate` | `rollback_staged_file`, or the `except` of `promote_staged_file` |
| `Adopt`, `Repair`, `Sweep`, `Settle` | `recover_candidate_ledger_publication`, the removal of each backup, then the rows' commit |
| `Kill` | the process dies at any of these steps and its transaction is rolled back |

### ScanHandoff

`handoff` is the row's columns; `stale` answers the one question `claim_handoff_delivery` asks of the clock.
`attachedAs` is history: the token with which the continuation thread attached itself. A scan starts from the panel
(waiting for its handoff), from a prompt (delivered, without a token), headless (delivered with the token of its thread)
or from the command line (`register_cli_scan`: delivered, without a token and a thread): `HandoffInit`. A scan of the
command line (`cli`, in the row its recipe) is told the thread of its session (`SetScanThread`, which may overwrite
one), and the first thread to begin its Deep Scan owns that (`BeginDeepScan`). Each command of `handoff.py` is one
action (`ClaimHandoff`, `ReleaseHandoff`, `AttachThread`, `MarkHandoffDelivered`); replays that change nothing are
stuttering steps. `CurrentContinuation` is `require_current_continuation`, which every command of the scan asks;
`OwningThread` is what `cancel-scan` compares.

### ScanResults

`scan` is the row, `rows` the index of findings, `file` the canonical documents (findings and coverage as one,
then the manifest, which is a draft or a seal), `checkpoints` the sources on disk, `command` the holder of the
completion lock and what it is about to write. A source is its set of findings, and its name the digest, so that
equal sources are one; a seal's digests are the findings themselves. `drafts` is history.

| Action | Code |
|---|---|
| `AgentWrites`, `WorkerSaves` | what an SDK's agent, a coordinator and its workers write by themselves |
| `WriteScanDraft` | `write_scan_draft`: a checkpoint, then the two documents |
| `CompleteScan`, `CommitCompletion`, `EndPreparation` | `complete_scan_locked` with and without `prepare_only`: the check of a seal that is there, the seal (`SealForCompletion`), the transaction |
| `FailScan`, `CancelScan`, `CompletionFails` | `fail_scan_locked`, `cancel_scan_locked`, and the end of a deep scan whose seal does not validate |
| `PublishStopped`, `PreserveScanResults`, `RecoverScanResults` | `preserve_scan_results_locked` up to its first write, as it is called by the three; `Publish` is its case distinction, `Merge` is `merge_saved_results`, the sources of a recovery are `_recovery_source_digests` |
| `FreezeSources`, `WriteFindings`, `WriteManifest`, `Record` | the writes, in their order |
| `Killed`, `PublicationFails` | the process dies; a write raises and `_restore_published_outputs` puts back what was there |

### FindingRemediation

`attempt` holds the rows, `created` their order, `checkout` the user's own work and the patches applied to it (an edit is
a state of the former). `request`, `action` and `set` are two steps each (`Check...`, `Commit...`), with what the
first found in the caller's slot of `call`; all other commands read and write in one transaction. `Superseded`,
`CancelGeneration`, `CancelFailed`, `CancelAction` are the branches of `request_finding_remediation` and
`cancel_finding_remediation_request`; `Allowed` and `AllowedByPending` are `require_transition` and
`require_pending_action`; `CheckoutAgrees` compares the checkout with a digest of the row. Recording `applied` reads the
checkout twice before its transaction: `CheckApplied` takes the digest that will be stored, `CompareApplied` reverses the
patch in a copy made later and compares that with the base (`require_reviewed_patch_applied`). `ChangeCheckout` is the user
or the agent at work, at any time, also between the two reads, which the history field `edited` remembers.

### CandidateFlow and CandidateMap

A `program` is what the mapper's regular expressions find in a plugin: calls with their arguments, variables read from
the request, assignments, and variables in calls with an effect. `phase` says which of the three walks of
`security_flow_v5` is under way: `Visit` is the loop of `interprocedural_taint_v5`, `Explore` the one of
`build_reachable_graph`, `NextSeed` the next function that `propagate_from_seed_v5` starts from. `Within`, `Carried` and
`FlowExists` are the reference, written over sets, without a queue, an order or anything visited. `Assigned` is
`propagate_local_assignments_v5`: passes over the assignments of a body in the order of the text, `MaxRounds` at most
(8 in the code); the reference follows a chain of assignments to its end (`AllAssigned`), and `RoundsSuffice` says that the
passes do so too.

The stages of `CandidateMap` are those of `main`: `Promote`, one walk for each unit (`WalkUnit`, `Walk`, `KeepFlow`),
`IndexUnits` with the score and floor of `v5_review_priority`, `IndexState` (V6), `IndexOrphans` (V6.1), `AddPack`
(V6.2), `AddCase` (V6.3). In what order items reach a pack or a case is left open, and so is the theme of an item.

## 3. What TLC checks

| Run | Instance | Shows |
|---|---|---|
| `workbench_safety` | 3 discoveries, 2 reducers, budget 2, streak 2, 3 generations | all safety properties of the rows, that they implement `DiscoveryLedger`, and that the inductive invariant `IInv` of the proofs holds |
| `coordinator_adopted` | 3 discoveries in a pool of 2, 3 reducers, budget 3, partial coverage, 3 generations, no lost write | what the loop remembers agrees with the rows, also across an adoption with the work of a lost coordinator to recover; what it thinks finished, they let finish |
| `coordinator_ends` | 4 discoveries, 4 reducers, budget 2, pool of 1, streak 1, 3 generations, one lost write | the pool's bound; every run ends; a cancellation takes effect unless its process dies or its write is lost |
| `coordinator_lost_reply` | 2 generations, one lost write | *violated*: finding 2 |
| `coordinator_stranded` | budget 2, 3 generations | *violated*: finding 1 |
| `ledger_publication` | 3 reducers, 3 contents, one kill per commit, any number of kills of adoptions | the committed ledger survives and is restored; `IInv` of the proofs holds |
| `ledger_killed_twice` | two kills of one commit | *violated*: finding 3 |
| `scan_results` | 2 findings, 2 tokens, 1 thread, the three kinds of scan, one kill or failed write | a completed scan is its last draft; a stopped one keeps what was saved and only grows; the handoff changes hands meanwhile |
| `scan_results_broken` | 1 finding, 1 token | *violated*: finding 4 |
| `finding_remediation` | 2 requests, 2 tokens, 2 commands between check and commit | the compare-and-swap of the rows is enough |
| `wp_candidate_map` | a method and a function of one name and a second function, 3 variables, up to 2 calls, depth 1, 3 states a walk, 1 pass over the assignments | the walks find exactly the flows there are; nothing promoted is lost |
| `wp_cases` | the same plugins | *violated*: finding 5 |

**Why these bounds.** *Deep Scan.* Generation 1 is the unclaimed run, 2 the first coordinator, 3 one that adopts from a
coordinator, so with 3 both kinds of recovery happen, and a recovery meets what an earlier one left. Two results
are what a first reduction needs and a third makes the prefix of the buffered results, a late result and a
refused claim possible. A budget below the number of discoveries makes `Capped` and refunds happen; a streak of 2
is reached by one claim of two or by two claims. A second reducer is needed for exclusion and coverage, more of
them for failed ones that are retried. One lost write is enough to lose any one answer in any state.

*Ledger.* Three reducers give the ledger's file a committed version, one moved aside and one proposed, with backups of
two killed commits. Contents only count if they differ. A reducer can make two backups that outlive its command (its
commit is killed once before and once after its rows are stored), which makes six; there are seven names, and which of
the unused ones a backup gets does not matter.

*Results.* Two findings make four different sources, so that sets may be disjoint, nested or equal and a union may
be larger than each. One fault cuts any one command off at any write; whatever follows meets the remains. The same
properties also held with two faults, which takes two minutes. Two tokens are a claim and its takeover.

*Remediation.* An attempt and the one that supersedes it; two tokens are an action and its retry by another. `MaxVersion`
lets a row go through generate, apply, verify and a failure. The checkout changes at any time, between the two reads of
an application as well. Three constraints keep the run small (`Overlap`): two commands are between check and commit at once
while the rows are young (their versions add up to 3) and one later on; a row that was recorded over an edit between the
two reads is a first attempt and not followed beyond that; and one row goes to its end beside another that was hardly
worked on (versions add up to 9). The proofs need none of them.

*Candidate map.* With depth 1 there is a definition within the bound and one beyond it; with two calls there are cycles,
calls of a shared name and two ways to the same definition with different variables; three states a walk is fewer than
there are to visit, so that the cut happens too. One pass over the assignments is too few for the body whose two
assignments stand in reverse order, so that a flow missed without a cut happens as well: without `~RoundsSuffice`,
`FlowIsExact` is violated in this run.

Bounds that cut behaviour are constants: `MaxGeneration` (in the running system, a crash, a shutdown and an expiry are
only taken while a successor is still allowed), `MaxFaults`, `KillsPerCommit`, `MaxVersion`, `MaxCreated`; `MaxDepth`,
`MaxStates` and `MaxRounds` are the code's own (3, 256 and 8). Attempts of a worker are unbounded (a retry is a self
loop of the worker). Deadlock is checked for the rows of a Deep Scan. It is not checked elsewhere, since these systems
come to an end: a run stops, reducers and attempts are used up, a scan is over, a map is done.

**Fairness.** Safety uses none. `RunEnds` and `CancelTakesEffect` use `FairSystemSpec`: weak fairness of the
coordinator as a whole and of each worker, because their promises settle and the timers of Node fire while the
process lives; an attempt is assumed to end (its process ends by itself, or is aborted, at the deadline of the
discoveries at the latest); a lease that nobody renews runs out; and some observer polls the run
(`DeepScanRemoteCoordinator.wait`) or a user calls again. Without that last assumption a scan whose only process died
stays running until it is called again, as intended. No fairness is assumed of disruptions, of retries, of the user or
of the clock of the deadline. The handoff, the results and the remediation promise nothing by themselves: each command
waits for a caller, so no liveness is stated of them.

**Mutants.** Each property of a passing run is shown to break under one plausible slip of the code in the same
run, listed in PROJECT.json under "mutants".

## 4. Findings

1. `recover_expired_coordinator` does not give back the claim of a reducer that was canceled by an error or by
   the user's request when its process died before the run was ended. The adopter can never reduce these results,
   its claim is refused and the run fails (`coordinator_stranded`), although SKILL.md promises that completed
   results are retained.
2. An acceptance that was committed, whose answers are lost after the deadline has aborted the discovery, is
   taken for a cancellation (`coordinator_lost_reply`): `worker-runner.ts` 265-268 returns "canceled" for any
   failure once the signal is aborted, against its own comment at 273.
3. Recovery trusts the newest backup. A commit that was killed after the promotion, replayed and killed again
   leaves the uncommitted ledger in the newest backup: it is restored and the committed one deleted
   (`ledger_killed_twice`). This is about `commit-deep-scan-dedup --candidate-ledger-path`, which the command,
   `store.ts` and the tests support and the present coordinator does not use.
4. A publication of a stopped scan writes `findings.json` over documents that are sealed, and the manifest last. In TLC's
   trace the scan has failed and its results were published and recorded; another source was saved meanwhile, and
   `recover-scan-results` publishes again. Killed between the two files, it leaves the seal of the earlier publication,
   which no longer matches: every later preservation and recovery refuses the documents before it writes anything
   (`scan_results_broken`), although scan-contract.md offers `recover-scan-results` for a failed scan.
5. `_v63_case_key` reads its fields from the top level of an index item, where items of the V5 index have none. All
   of them share one key, and only the first with a security signal becomes a case (`wp_cases`), although the
   comment at 8940 and the docstring at 8959 describe keys by concrete anchors, and a comment at 9173 says that no unit
   must be suppressed merely because of its theme. In the model an item of V5 has a signal for its high-impact effects
   only; the code also takes themes it finds in the item's text, which makes more items share the key, not fewer.

Noted while modelling, without a run of their own:

- Recovery attributes the published ledger by content. If an active reducer's staged ledger equals the published one
  and its process dies before its commit moves a file, the committed ledger is deleted. `Rewrites = FALSE` in
  `LedgerPublication` shows it; the proofs assume `Rewrites`.
- A `verify` that is canceled once its row is "verifying" leaves that row with nothing pending; only a new result
  or a closed triage moves it on.
- A remediation request that is canceled and inserted again under the same request id and token starts at version 1
  again, so that a command that read the first row would pass the test of the UPDATE. `CompareAndSwapIsSound` is
  therefore stated for a row that was not inserted anew.
- scan-contract.md:48 says that a canceled scan may be published again only from the sources frozen at its
  cancellation. They are frozen after the cancellation is committed; a process that is killed between the two leaves the
  next preservation to take whatever was saved until then.
- A function is not an orphan (V6.1) if its name occurs anywhere in the text of the other queues, also within
  another name. A callback's own head counts as a plain call with its parameters as arguments, which only matters if a
  global function has its name.

## 5. What TLAPS proves

For all values of the constants that satisfy the named assumptions: `WorkbenchAssumption` (a finite set of labels,
disjoint from the reducers', positive limits), `CoordinatorAssumption` for the running system (labels are numbers,
finitely many reducers, a pool and an error limit of at least one), `PublicationAssumption`
for the ledger, `HandoffAssumption`, `ResultsAssumption` and `NullAssumption` (what is missing is no
document), `TokenAssumption`, `BoundAssumption` and `ContentAssumption` for remediation, `FlowAssumption` (finitely many
definitions and variables) and `MapAssumption` for the candidate map.

- *Rows.* `Invariance`: `Spec => []IInv`. The safety properties are not inductive alone. Exact budget accounting rests
  on `RefundedIsMarked` (a refunded row no longer looks interrupted, so the next adoption does not count it again), that
  on `NotesFit` (only rows that stopped carry the marker) and `SetupIsEmpty` (an adoption that recovers nothing has
  nothing to recover), `NoStrandedByRecovery` on `MergingIsClaimed` (a result marked merging belongs to a claim that
  neither succeeded nor was recovered). With them each conjunct is preserved by each command: one lemma per command that
  changes rows, two for the shapes that several commands share (updating a row, canceling all active rows). Each safety
  property of the run is then a conjunct with a theorem of its own: `TypeCorrect`, `LedgerIsExact`, `StreakIsHonest`,
  `ReducersExclusive`, `ClaimsStayWhole`, `BudgetIsExact`, `NoForeignRow`, `CompletionIsHonest`, `ParentFollowsRun`.
  `StoppedForGood` and `RecoveryStrandsNothing` prove the action properties `TerminalIsStable` and
  `NoStrandedByRecovery`. The latter says of every takeover that no claim stays behind but that of a reducer which an
  error or the user had canceled: those are finding 1. `StreakIsHonest` says that the streak is the number of results
  merged since a reduction last found something new (`sinceNew`, a history variable), not only that it counts none
  twice.
- *Refinement.* `WorkbenchImplementsLedger`: initial states map to initial states, every command to one step of
  `DiscoveryLedger` or a stutter; the dispatch counter is the abstract charge because of `DispatchAccounting`.
- *Running system.* `SystemImplementsWorkbench`: each step of coordinator, worker, observer or disruption is one
  command of the rows or changes no row. Hence `RunningScanIsSafe`, for every pool, limit and number of faults.
- *Coordinator.* `PoolInvariance`: `SystemSpec => []PoolIInv`, on top of `IInv` of the rows. `PoolBounded` counts active
  rows, but what the loop compares with the pool are its workers, so the invariant counts both (`PoolHasRoom`): a place
  is held from the spawn until the outcome is read, also by a worker whose row is over. That is inductive because the
  loop knows every active row (`ActiveIsOwned`: nothing is left to it by the coordinator before it) and because an
  outcome that gives a place back is that of a row that is over (`OutcomesFit`). From it follow `CoordinatorTypeCorrect`
  and `PoolStaysBounded`. `KnownIInv` is what holds while no write was lost: a worker's row is over only if it was
  canceled or the result is on its way (`NoResultIsDropped`), and one reducer works at a time, on what the loop
  remembers to have handed it (`OneReduction`). Hence `NoResultIsForgotten`, across errors, cancellations, crashes and
  adoptions. It assumes that no fault of the budget was spent, as the run `coordinator_adopted` does; finding 2 shows
  what a lost write does.
- *Scheduling.* `LoopInvariance`, whatever is lost: what is spawned has a slot in the rows' budget as well (`BudgetFits`),
  a reducer has no rival (`ReducerFits`), and each worker whose outcome is not read has exactly one in the queue
  (`QueueFits`). The rest holds while the scan runs and no write was lost (`Calm`). `ClaimsAccepted` needs the *order* of
  things: the loop reads results in the order of their sequence numbers, one answer at a time, and after all it has read
  (`OrderFits`), so that its buffer is a prefix of what the rows hold; what it may hand to a reducer is not merged yet
  (`BufferFits`); it has started all that is active (`OwnedFits`). Then what a starting reducer is to claim is a
  prefix the rows accept, and if it is short nothing else will come (`ClaimFits`). `FinishAccepted` goes on from
  there: each claim is merged or in the loop's hands (`RemainsFit`), a saturated loop that drains names exactly
  what its last discoveries bring (`DrainFits`), and so its finish fits the rows (`EndIsAccepted`). `ClaimsAccepted` states
  that no write was lost as a hypothesis, `FinishIsAccepted` has it in the property.
- *Ledger.* `PublicationInvariant`, for reducers that change the ledger and at
  most one kill per commit; finding 3 and the first note show that neither condition can be dropped. `FilesFit` says for
  each step of a command where the committed ledger is: published (`InPlace`), in a backup that is the newest
  (`KeptIn`), or in the very backup that the commit under way has made (`Undoable`); `Interrupted` is what one
  killed commit leaves. Backups are ordered because a committed ledger is older than what an active reducer can
  publish (`CommittedIsOlder`), so the newest one is the one to restore (`UndoRestores`), and recovery finds the
  reducer to blame exactly when there is one (`FoundInPlace`, `FoundInterrupted`). From it follow
  `LedgerSurvives`, `AdoptionIsARepair`, `FailureLeavesNoTrace` and `UncommittedHasAnOwner`.
- *Handoff.* `HandoffInvariance` for the handoff alone. `ScanImplementsHandoff`: every step of a scan with its documents
  is a command of the handoff or leaves it alone, so `ScanThreadHoldsTheClaim` and `ScanDeliveredIsFinal` hold of it.
  `TokenlessCLI` says that a scan of the command line is never claimed.
- *Results, part one.* `ResultsInvariance`: `ResultsSpec => []ResultsInv`. A completion reads documents, writes and only
  then commits, and it may not even write the seal it commits, so the invariant speaks about the command that holds
  the lock: `CommandFits` says that what it is about to write, and what a failure would put back, fits the row and the
  documents (a completion meets its own findings on disk; a draft's manifest follows its own findings). With it
  `ResultsTypeCorrect` and `CompletionIsTheLastDraft`.
- *Results, part two.* `PublicationInvariance` adds `PubInv`: the documents on disk, and those a failed publication would
  put back, hold the last draft unless the checkpoints do or the sources are frozen (`DocumentsHold`); a seal's
  sources cover it (`SealHolds`); what is being published covers what was published before (`PublishingFits`); the row
  says of a recorded publication what its seal says (`RecordHolds`). `MergePublishes` shows that the union of the
  sources is enough once the sources are (`Enough`), `FrozenIsEnough` and `RecoveryIsEnough` that a preservation and a
  recovery start from enough. From it follow `StoppedKeepsTheDraft` and `PublicationGrows`.
- *Remediation.* `RemInvariance`: `RemInv` adds to the properties that the columns of a row fit its state
  (`RowFits`), that rows are ordered (`RowsInOrder`), and what a command between check and commit may rely on
  (`CallFits`: either the row has moved on, so that the UPDATE fails, or it is still what was read, but for the times
  of its claim). All five properties of the run are theorems: `RemTypeCorrect`, `OnlyOneIsWorkedOn`, `AppliedIsReviewed`,
  `ClosedStaysQuiet`, `TheUpdateMayTrustTheCheck`. `AppliedIsReviewed` holds of a row unless the checkout was edited between
  the two reads that proved the patch on it (`edited`); such an edit, undone or replaced by the patch in time for the second
  read, is recorded by the code with the digest of the first. A row that is brought back or verified later keeps its mark.

- *Candidate map.* `MapInvariance`: an item is known by its source and its name there (`ItemsFit`), what was
  promoted has a unit and a unit its item (`UnitsFit`), and each item that was packed lies in the pack of its key alone,
  which asks for the most its members ask for (`PacksFit`); hence `PacksDropNothing` and
  `PublicCallbacksAreReviewedDeeply`, the second because the floor under the effort does not depend on the walks.
- *Walks.* The walk over what is in reach never goes round a cycle, so a definition it has still to find need not be
  found along the way the reference finds it. `ReachFits` says that some queued place leads to it by a path that repeats
  nothing seen so far and fits the depth left; at the root a path without repetitions does (`ReachInvariance`,
  `ReachIsExact`). For the taint walks, every queued place carries only variables that request data does reach
  (`Sound`), and all that a visited one leads to is visited or queued (`Explored`); that a set of variables is carried
  as a whole and the reference follows one variable at a time makes no difference since assignments distribute over
  unions (`FlowInvariance`, `ConfirmedFlowsAreExact`). The library's induction theorems take an operator and cannot be
  used; the inductions over the depth are over sets of numbers instead (`NumbersInductively`, from the well-foundedness
  of <). `Spread` is a recursive function for this reason. What the bounds of the code may hide is in the statement: a
  flow that exists is confirmed, or a walk was cut, or the passes over some body's assignments were too few
  (`RoundsSuffice`). `FlowAssumption` and `MapAssumption` are the only assumptions.

Every safety property of the passing runs, and every action property, is the subject of a theorem. Only model-checked:
the two liveness properties, `RunEnds` and `CancelTakesEffect`, since the prover handles neither fairness nor ENABLED.
The properties of the five violated runs are false. The theorems do not cover the models' distance from the code
(section 6).

## 6. What the models leave out

- Setup workers: no caller inserts one. Attempt numbers, paths, messages and formatting.
- What an attempt does and how its error is classified: each attempt may succeed, be retried or be given up.
- Progress updates and their failure, which ends the run by the path of any other error; usage accounting.
- The legacy branch of `fail_deep_scan` for a run whose terminal rows precede its manifest.
- A replaced coordinator of the same process that finds its successor's lease in the map of the store client; of a
  replaced coordinator only the commands it may still send, which the rows refuse.
- `LedgerPublication`: the temporary `.publish` copy, which nobody else reads; a second staging by a retried
  attempt; the end of the run. In particular, a commit that was killed and whose replays fail makes the run fail
  with the uncommitted ledger in place, and no adoption follows.
- `ScanResults`: the identity of a finding across sources (equal findings are one), coverage, the validation of documents
  against the contract, the reports derived from them, and `complete_budget_exhausted_scan`. The rows of a Deep Scan are
  not composed with its documents: its workers may save a result at any time, its coordinator may write any of them.
- `FindingRemediation`: feedback, tickets, batches over several findings, and the contents of a patch. Each of the two reads
  of a checkout is one moment, although it goes file by file, and the third copy that is made where line endings are
  converted is left out. The edits that the code cannot see between its two reads are modelled; that it may record them
  is stated in the property (`edited`), not excluded.
- `CandidateMap`: the regular expressions that find calls, sources, checks and effects in PHP; classic candidates,
  dynamic hook names, gap units, the themes a text suggests for an item of V5 (its effects alone are its signal),
  relations between states, registrations beyond one callback name; the text of the outputs. Two equal registrations are
  one.
- Publication to trackers, multi-repository scans, deduplication reviews: sequential clients with a file of their
  own, whose hard part is the behaviour of services that are not in this repository.
- The workbench and contracts of `wp-codex-security-plugin`, and `wordpress/wp_candidate_map.py`, the predecessor of
  the mapper: earlier versions of modelled code, which the models do not claim to describe.
- The other components marked "not" in the inventory. They make most of the repository's lines, and change little
  state that anyone else reads.

## 7. Plan

Done, in this order: `DiscoveryLedger`, `DeepScanWorkbench`, `DeepScanLedger`, `DeepScanCoordinator`,
`LedgerPublication`, `ScanHandoff`, `ScanResults`, `FindingRemediation`, `CandidateFlow`, `CandidateMap`, with the proofs
above. What is left, by what it would add:

1. `TrackerPublication` (`publication.ts`, `publication-store.ts`): an unknown answer is reconciled and no ticket is
   created twice, against an assumed tracker.
2. `MultiScan` (`multiscan.ts`, `cost.ts`): parallelism and cost limits across resumption; `CheckpointedReview`
   (`deduplication/checkpointed-review.ts`): a resumed review decides each pair once.
3. The composition of `ScanResults` with `DeepScanWorkbench`: the end of a Deep Scan's run between the commands of its
   parent, with the documents.

## 8. Running it

`tlc -config MCDeepScanWorkbench.cfg MCDeepScanWorkbench` (and so for each run of PROJECT.json: module and
configuration are named there); `tlapm DeepScanWorkbenchProofs.tla` (and so for each module of proofs). Every run takes
at most a few minutes on two cores, and so do the proofs of a module, but for `DeepScanSchedulingProofs`: about ten.
