----------------------------- MODULE ScanResults -----------------------------
(***************************************************************************)
(* What becomes of the findings of a scan: the canonical documents in its  *)
(* directory, the checkpoints beside them and the finding index.  The      *)
(* commands that write them hold the scan's completion lock, so that only  *)
(* one runs; they write file by file and may be killed between any two     *)
(* writes.  The handoff of the scan is not under that lock: it may pass to *)
(* another continuation while a command runs.                              *)
(*                                                                         *)
(* findings.json and coverage.json are one document here, written before   *)
(* the manifest; a checkpoint is its set of findings, its name the digest. *)
(***************************************************************************)
EXTENDS ScanHandoff, Naturals

CONSTANTS
  Finding,    \* the findings a scan may report
  Modes,      \* the kinds of scans considered, of those in Mode
  NoSources,  \* a set of sources that was never recorded
  NoFindings, \* findings.json is missing
  NoDigest,   \* seal_manifest_digest IS NULL
  MaxFaults   \* bound on kills and failed writes

\* The plugin's own scans save drafts by command; an SDK's agent and a Deep
\* Scan's coordinator write the canonical documents themselves.
Mode == {"app", "sdk", "deep"}
ASSUME ResultsAssumption == Modes \subseteq Mode /\ MaxFaults \in Nat

Source == SUBSET Finding
Findings == (SUBSET Finding) \cup {NoFindings}
Sources == (SUBSET Source) \cup {NoSources}

Manifest ==
  [kind: {"none", "draft", "sealed"}, complete: BOOLEAN,
   outcome: {"none", "completed", "failed", "canceled"},
   sources: Sources, seals: Findings]

NoManifest == [kind |-> "none", complete |-> FALSE, outcome |-> "none",
               sources |-> NoSources, seals |-> NoFindings]
Draft(complete) == [NoManifest EXCEPT !.kind = "draft", !.complete = complete]
SealOf(outcome, sources, findings) ==
  [kind |-> "sealed", complete |-> TRUE, outcome |-> outcome,
   sources |-> sources, seals |-> findings]

\* What is missing is not an empty document.
ASSUME NullAssumption ==
  /\ \A s \in Source : s # NoFindings
  /\ \A ss \in SUBSET Source : ss # NoSources
  /\ \A m \in Manifest : m # NoDigest

VARIABLES
  scan,         \* [mode, status, canceled, digest, frozen, followUp]: the row
  rows,         \* finding_occurrences: the index of published findings
  file,         \* [findings, manifest]: the canonical documents
  checkpoints,  \* the checkpoints and worker results ever saved
  command,      \* the command that holds the completion lock
  faults,       \* how many kills and failed writes so far
  drafts        \* history: findings of the last draft, and of later ones cut off

resultVars == <<scan, rows, file, checkpoints, command, faults, drafts>>
vars == <<handoff, attachedAs, scan, rows, file, checkpoints, command, faults,
          drafts>>

NoCommand == [op |-> "none"]

ResultsInit ==
  /\ HandoffInit
  /\ \E mode \in Modes :
       /\ (mode = "deep") = handoff.deep
       /\ mode # "deep" => (mode = "sdk") = handoff.cli
       /\ scan = [mode |-> mode, status |-> "running", canceled |-> FALSE,
                  digest |-> NoDigest, frozen |-> NoSources, followUp |-> FALSE]
  /\ rows = {}
  /\ file = [findings |-> NoFindings, manifest |-> NoManifest]
  /\ checkpoints = {}
  /\ command = NoCommand
  /\ faults = 0
  /\ drafts = {}
-----------------------------------------------------------------------------
Idle == command = NoCommand
Sealed == file.manifest.kind = "sealed"
SealIsIntact == Sealed /\ file.manifest.seals = file.findings
Present == file.manifest.kind # "none" /\ file.findings # NoFindings

\* What the canonical documents contribute, wherever they are readable.
ParentFindings == IF Present THEN file.findings ELSE {}

\* A command that will write `findings', then `manifest', then go on to `after'.
Writing(op, t, findings, manifest, after) ==
  [op |-> op, tok |-> t, step |-> "findings", findings |-> findings,
   manifest |-> manifest, after |-> after, before |-> file]
At(step) == command.op # "none" /\ command.step = step

\* The documents as written outside the lock: by an SDK's agent, or by the
\* coordinator of a Deep Scan from the result of its last reducer.
AgentWrites(findings, complete) ==
  /\ Idle
  /\ scan.status = "running"
  /\ scan.mode = "sdk" \/ (scan.mode = "deep" /\ findings \in checkpoints)
  /\ file' = [findings |-> findings, manifest |-> Draft(complete)]
  /\ drafts' = {findings}
  /\ UNCHANGED <<scan, rows, checkpoints, command, faults>>

\* A worker of a Deep Scan saves a result, before or after the scan stopped.
WorkerSaves(source) ==
  /\ scan.mode = "deep"
  /\ scan.status # "complete"
  /\ checkpoints' = checkpoints \cup {source}
  /\ UNCHANGED <<scan, rows, file, command, faults, drafts>>
-----------------------------------------------------------------------------
(* write-scan-draft                                                        *)

\* The server joins the checkpoint with what the documents hold already.
WriteScanDraft(t, checkpoint, kept, complete) ==
  /\ Idle
  /\ scan.mode = "app"
  /\ CurrentContinuation(t)
  /\ scan.status = "running" /\ scan.digest = NoDigest
  /\ kept \subseteq ParentFindings
  /\ checkpoints' = checkpoints \cup {checkpoint}
  /\ command' = Writing("draft", t, checkpoint \cup kept, Draft(complete), "end")
  /\ UNCHANGED <<scan, rows, file, faults, drafts>>
-----------------------------------------------------------------------------
(* prepare-scan-completion and complete-scan                               *)

\* The sources a completed scan names: it keeps its checkpoints on record but
\* publishes the canonical documents alone.
SealForCompletion(t, op) ==
  LET saved == checkpoints \cup {file.findings} IN
  IF Sealed
  THEN /\ command' = [Writing(op, t, file.findings, file.manifest, "end")
                        EXCEPT !.step = "commit"]
       /\ UNCHANGED checkpoints
  ELSE IF scan.mode = "deep"
  THEN /\ command' = Writing(op, t, file.findings,
                       SealOf("completed", NoSources, file.findings), "commit")
       /\ UNCHANGED checkpoints
  ELSE /\ checkpoints' = saved
       /\ command' = Writing(op, t, file.findings,
                       SealOf("completed", saved, file.findings), "commit")

\* Mutant: sealed documents are taken as they are.
CompleteAnySeal(t, op) ==
  /\ Idle
  /\ scan.status = "running"
  /\ CurrentContinuation(t)
  /\ Present
  /\ file.manifest.complete
  /\ SealForCompletion(t, op)
  /\ UNCHANGED <<scan, rows, file, faults, drafts>>

CompleteScan(t, op) ==
  /\ Idle
  /\ scan.status = "running"
  /\ CurrentContinuation(t)
  /\ Present
  /\ file.manifest.complete
  /\ Sealed => SealIsIntact
  /\ SealForCompletion(t, op)
  /\ UNCHANGED <<scan, rows, file, faults, drafts>>

CommitCompletion ==
  /\ At("commit")
  /\ command.op = "complete"
  /\ command' = NoCommand
  /\ IF scan.status = "running" /\ CurrentContinuation(command.tok)
     THEN /\ rows' = command.findings
          /\ scan' = [scan EXCEPT !.status = "complete",
                                  !.digest = command.manifest]
     ELSE UNCHANGED <<rows, scan>>
  /\ UNCHANGED <<file, checkpoints, faults, drafts>>

EndPreparation ==
  /\ At("commit")
  /\ command.op = "prepare"
  /\ command' = NoCommand
  /\ UNCHANGED <<scan, rows, file, checkpoints, faults, drafts>>
-----------------------------------------------------------------------------
(* fail-scan and cancel-scan                                               *)

Stopping(op) == [op |-> op, tok |-> NoToken, step |-> "publish"]

StopScan(op) ==
  /\ scan' = [scan EXCEPT !.status = "failed", !.canceled = (op = "cancel")]
  /\ command' = Stopping(op)
  /\ UNCHANGED <<rows, file, checkpoints, faults, drafts>>

FailScan(t) ==
  /\ Idle
  /\ scan.status = "running"
  /\ CurrentContinuation(t)
  /\ StopScan("fail")

\* `u' is NoThread for the panel.
CancelScan(u) ==
  /\ Idle
  /\ scan.status = "running"
  /\ u # NoThread => u = OwningThread
  /\ StopScan("cancel")

\* A Deep Scan whose sealed documents do not validate is failed by the command
\* that was to complete it.
CompletionFails(t) ==
  /\ Idle
  /\ scan.status = "running" /\ scan.mode = "deep"
  /\ CurrentContinuation(t)
  /\ Sealed /\ ~SealIsIntact
  /\ StopScan("fail")
-----------------------------------------------------------------------------
(* Publication of what a stopped scan kept                                 *)

Outcome == IF scan.canceled THEN "canceled" ELSE "failed"
Published == Sealed /\ file.manifest.outcome = Outcome

\* The documents on disk are not the ones the row and the seal speak of.
SealIsBroken ==
  /\ scan.digest # NoDigest \/ Sealed
  /\ \/ scan.digest # NoDigest /\ scan.digest # file.manifest
     \/ ~SealIsIntact

\* What the publication is made from: the sources to recover, those frozen when
\* the scan stopped, or those of a publication that was not recorded.
FrozenSources(recovery) ==
  IF recovery # NoSources THEN recovery
  ELSE IF scan.frozen # NoSources THEN scan.frozen
  ELSE IF Published THEN file.manifest.sources ELSE NoSources

\* Sealed documents that name no sources are a source themselves.
LegacyParent(recovery) ==
  /\ recovery = NoSources
  /\ FrozenSources(recovery) = {}
  /\ Sealed /\ file.manifest.sources = NoSources

RecordPublication(findings, manifest) ==
  /\ rows' = findings
  /\ scan' = [scan EXCEPT !.digest = manifest, !.frozen = manifest.sources,
                          !.followUp = FALSE]
  /\ command' = NoCommand

\* Are the documents on disk one of the sources?
\* Mutant: they are once the sources are frozen.
ParentOnceFrozen(given, withParent) ==
  (given # NoSources \/ withParent) /\ Present
UseParent(given, withParent) ==
  (given = NoSources \/ withParent) /\ Present

\* The union of the sources, and of the documents where they are one of them.
Merge(op, recovery, withParent) ==
  LET given == FrozenSources(recovery)
      useParent == UseParent(given, withParent)
      keepParent == useParent /\ (~Sealed \/ withParent)
      saved == IF keepParent THEN checkpoints \cup {file.findings}
               ELSE checkpoints
      recorded == IF useParent /\ file.manifest.sources # NoSources
                  THEN file.manifest.sources ELSE {}
      used == recorded \cup
              (IF given = NoSources THEN saved
               ELSE IF keepParent THEN given \cup {file.findings} ELSE given)
      parent == IF useParent THEN file.findings ELSE {}
  IN IF ~useParent /\ used = {}
     THEN command' = NoCommand /\ UNCHANGED checkpoints
     ELSE /\ checkpoints' = saved
          /\ command' =
               [Writing(op, NoToken, parent \cup UNION used,
                        SealOf(Outcome, used, parent \cup UNION used), "record")
                  EXCEPT !.step = IF given = NoSources THEN "freeze" ELSE @]

\* preserve_scan_results_locked up to its first write, once it holds the lock.
Publish(op, recovery, withParent) ==
  IF SealIsBroken
     \/ (Published /\ recovery = NoSources
          /\ file.manifest.sources # FrozenSources(recovery))
  THEN /\ command' = NoCommand
       /\ scan' = [scan EXCEPT !.followUp = @ \/ op \in {"fail", "cancel"}]
       /\ UNCHANGED <<rows, checkpoints>>
  ELSE IF Published /\ file.manifest.sources = FrozenSources(recovery)
  THEN /\ IF scan.frozen # NoSources /\ scan.digest # NoDigest /\ ~scan.followUp
          THEN command' = NoCommand /\ UNCHANGED <<rows, scan>>
          ELSE RecordPublication(file.findings, file.manifest)
       /\ UNCHANGED checkpoints
  ELSE Merge(op, recovery, withParent \/ LegacyParent(recovery))
       /\ UNCHANGED <<rows, scan>>

\* The end of fail-scan and cancel-scan.
PublishStopped ==
  /\ At("publish")
  /\ Publish(command.op, NoSources, FALSE)
  /\ UNCHANGED <<file, faults, drafts>>

\* Mutant: the results of a scan that still runs are preserved.
PreserveAnyScan(t, u) ==
  /\ Idle
  /\ CurrentContinuation(t)
  /\ u # NoThread => u = OwningThread
  /\ Publish("preserve", NoSources, FALSE)
  /\ UNCHANGED <<file, faults, drafts>>

PreserveScanResults(t, u) ==
  /\ Idle
  /\ scan.status = "failed"
  /\ CurrentContinuation(t)
  /\ u # NoThread => u = IF handoff.thread # NoThread THEN handoff.thread
                         ELSE IF handoff.owner # NoThread THEN handoff.owner
                         ELSE handoff.workspace
  /\ Publish("preserve", NoSources, FALSE)
  /\ UNCHANGED <<file, faults, drafts>>

\* A recovery takes the sources that were frozen or published, and all saved
\* since; the documents on disk are one more where they name no source.
KnownSources ==
  IF Sealed /\ file.manifest.sources \notin {NoSources, {}}
  THEN file.manifest.sources
  ELSE IF scan.frozen # NoSources THEN scan.frozen ELSE {}

\* Mutant: a recovery publishes what was saved since.
LateSources == checkpoints \ KnownSources
RecoverySources == KnownSources \cup checkpoints

RecoversParent ==
  IF scan.digest # NoDigest \/ Sealed
  THEN file.manifest.sources \in {NoSources, {}}
  ELSE scan.frozen = NoSources

RecoverScanResults ==
  /\ Idle
  /\ scan.status = "failed"
  /\ ~scan.canceled
  /\ Sealed /\ file.manifest.sources \notin {NoSources, {}}
       => scan.frozen \in {NoSources, file.manifest.sources}
  /\ Publish("recover", RecoverySources, RecoversParent)
  /\ UNCHANGED <<file, faults, drafts>>

FreezeSources ==
  /\ At("freeze")
  /\ scan' = [scan EXCEPT !.frozen = IF @ = NoSources
                                     THEN command.manifest.sources ELSE @]
  /\ command' = [command EXCEPT !.step = "findings"]
  /\ UNCHANGED <<rows, file, checkpoints, faults, drafts>>

Record ==
  /\ At("record")
  /\ RecordPublication(command.findings, command.manifest)
  /\ UNCHANGED <<file, checkpoints, faults, drafts>>
-----------------------------------------------------------------------------
(* The writes, and what cuts them off                                      *)

WriteFindings ==
  /\ At("findings")
  /\ file' = [file EXCEPT !.findings = command.findings]
  /\ command' = [command EXCEPT !.step = "manifest"]
  /\ drafts' = IF command.op = "draft" THEN drafts \cup {command.findings}
               ELSE drafts
  /\ UNCHANGED <<scan, rows, checkpoints, faults>>

WriteManifest ==
  /\ At("manifest")
  /\ file' = [file EXCEPT !.manifest = command.manifest]
  /\ command' = IF command.after = "end" THEN NoCommand
                ELSE [command EXCEPT !.step = command.after]
  /\ drafts' = IF command.op = "draft" THEN {command.findings} ELSE drafts
  /\ UNCHANGED <<scan, rows, checkpoints, faults>>

\* The process dies: the lock is free, the files and rows stay as they are.
Killed ==
  /\ ~Idle
  /\ faults < MaxFaults
  /\ faults' = faults + 1
  /\ command' = NoCommand
  /\ UNCHANGED <<scan, rows, file, checkpoints, drafts>>

\* A write of a publication fails and what was there before is put back.
PublicationFails ==
  /\ command.op \in {"fail", "cancel", "preserve", "recover"}
  /\ command.step \in {"manifest", "record"}
  /\ faults < MaxFaults
  /\ faults' = faults + 1
  /\ file' = command.before
  /\ scan' = [scan EXCEPT !.followUp = @ \/ command.op \in {"fail", "cancel"}]
  /\ command' = NoCommand
  /\ UNCHANGED <<rows, checkpoints, drafts>>
-----------------------------------------------------------------------------
Speaker == Token \cup {NoToken}

SaveStep ==
  \/ \E findings \in Source, complete \in BOOLEAN :
       AgentWrites(findings, complete)
  \/ \E source \in Source : WorkerSaves(source)
  \/ \E t \in Speaker, c, kept \in Source, complete \in BOOLEAN :
       WriteScanDraft(t, c, kept, complete)
CompleteStep ==
  \/ \E t \in Speaker, op \in {"prepare", "complete"} : CompleteScan(t, op)
  \/ CommitCompletion
  \/ EndPreparation
StopStep ==
  \/ \E t \in Speaker : FailScan(t) \/ CompletionFails(t)
  \/ \E u \in Thread \cup {NoThread} : CancelScan(u)
PublishStep ==
  \/ PublishStopped
  \/ \E t \in Speaker, u \in Thread \cup {NoThread} : PreserveScanResults(t, u)
  \/ RecoverScanResults
  \/ FreezeSources
  \/ Record
WriteStep == WriteFindings \/ WriteManifest \/ Killed \/ PublicationFails

\* The handoff is not asked whether the scan still runs, except to begin it.
HandoffStep ==
  /\ HandoffNext
  /\ handoff'.workspace # handoff.workspace => scan.status = "running"

ResultsNext ==
  \/ HandoffStep /\ UNCHANGED resultVars
  \/ (SaveStep \/ CompleteStep \/ StopStep \/ PublishStep \/ WriteStep)
       /\ UNCHANGED handoffVars

ResultsSpec == ResultsInit /\ [][ResultsNext]_vars
-----------------------------------------------------------------------------
StopCommand == [op: {"fail", "cancel"}, tok: {NoToken}, step: {"publish"}]
WriteCommand ==
  [op: {"draft", "prepare", "complete", "fail", "cancel", "preserve", "recover"},
   tok: Speaker, findings: Source, manifest: Manifest,
   step: {"freeze", "findings", "manifest", "commit", "record"},
   after: {"end", "commit", "record"},
   before: [findings: Findings, manifest: Manifest]]

ResultsTypeOK ==
  /\ HandoffTypeOK
  /\ scan \in [mode: Mode, status: {"running", "complete", "failed"},
               canceled: BOOLEAN, digest: Manifest \cup {NoDigest},
               frozen: Sources, followUp: BOOLEAN]
  /\ rows \subseteq Finding
  /\ file \in [findings: Findings, manifest: Manifest]
  /\ checkpoints \subseteq Source
  /\ command \in {NoCommand} \cup StopCommand \cup WriteCommand
  /\ faults \in 0..MaxFaults
  /\ drafts \subseteq Source
  /\ scan.status = "running" => scan.digest = NoDigest /\ scan.frozen = NoSources

\* A completed scan is, for good, what its seal says: the index, the documents
\* and the digest agree, and they are the last draft that was saved.
CompletedIsTheLastDraft ==
  scan.status = "complete" =>
    /\ SealIsIntact
    /\ scan.digest = file.manifest
    /\ rows = file.findings
    /\ rows \in drafts

\* What a stopped scan published holds every source it froze, and the last
\* draft that was saved, whatever was killed or failed on the way.
StoppedKeepsDraft ==
  scan.status = "failed" /\ scan.digest # NoDigest =>
    /\ UNION scan.frozen \subseteq rows
    /\ drafts # {} => \E d \in drafts : d \subseteq rows

\* A new publication of a stopped scan takes no finding away.
PublicationOnlyGrows ==
  [][scan.digest # NoDigest => rows \subseteq rows']_vars

\* Whatever a stopped scan has on disk can still be published.
StoppedIsPublishable ==
  scan.status = "failed" /\ Idle => ~SealIsBroken
=============================================================================
