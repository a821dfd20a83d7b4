-------------------------- MODULE ScanResultsProofs --------------------------
(***************************************************************************)
(* A handoff has one owner, also beside the commands that save results; a  *)
(* completed scan is what its seal says; and a stopped scan publishes      *)
(* everything it kept and takes nothing back: for every number of          *)
(* findings, sources, tokens, threads, kills and failed writes.            *)
(***************************************************************************)
EXTENDS ScanResults, TLAPS

-----------------------------------------------------------------------------
(* The handoff: every step of ScanResults is a step of ScanHandoff or      *)
(* leaves the handoff alone, so that what is proved of the one holds of    *)
(* the other.                                                              *)

\* A scan of the command line is delivered from the start and never claimed.
TokenlessCLI == handoff.cli => handoff.delivered /\ handoff.token = NoToken
HandoffInv == HandoffTypeOK /\ TokenlessCLI /\ ThreadHoldsTheClaim

LEMMA HandoffStarts == HandoffInit => HandoffInv
<1> SUFFICES ASSUME HandoffInit PROVE HandoffInv
  OBVIOUS
<1> USE HandoffAssumption DEF HandoffTypeOK, ThreadHoldsTheClaim, Handoff,
      TokenlessCLI, NewScan, HandoffInit, HandoffInv
<1>1. CASE StartedByPanel
  BY <1>1 DEF StartedByPanel
<1>2. CASE StartedByPrompt
  BY <1>2 DEF StartedByPrompt
<1>3. CASE StartedHeadless
  BY <1>3 DEF StartedHeadless
<1>4. CASE StartedByCLI
  BY <1>4 DEF StartedByCLI
<1> QED
  BY <1>1, <1>2, <1>3, <1>4

\* A takeover and a release drop the thread with the token; a thread attaches
\* only with the token that holds the scan.
LEMMA HandoffIsKept == HandoffInv /\ [HandoffNext]_handoffVars => HandoffInv'
<1> SUFFICES ASSUME HandoffInv, [HandoffNext]_handoffVars PROVE HandoffInv'
  OBVIOUS
<1> USE HandoffAssumption DEF HandoffTypeOK, ThreadHoldsTheClaim, Handoff,
      TokenlessCLI, HandoffInv
<1>1. ASSUME NEW t \in Token, NEW takeOverStale \in BOOLEAN,
             ClaimHandoff(t, takeOverStale)
      PROVE  HandoffInv'
  BY <1>1 DEF ClaimHandoff
<1>2. ASSUME NEW t \in Token, ReleaseHandoff(t) PROVE HandoffInv'
  BY <1>2 DEF ReleaseHandoff
<1>3. ASSUME NEW t \in Token, NEW u \in Thread, AttachThread(t, u)
      PROVE  HandoffInv'
  BY <1>3 DEF AttachThread
<1>4. ASSUME NEW t \in Token, NEW u \in Thread \cup {NoThread},
             MarkHandoffDelivered(t, u)
      PROVE  HandoffInv'
  BY <1>4 DEF MarkHandoffDelivered
<1>5. CASE ClaimGoesStale
  BY <1>5 DEF ClaimGoesStale
<1>6. ASSUME NEW u \in Thread, SetScanThread(u) PROVE HandoffInv'
  BY <1>6 DEF SetScanThread
<1>7. ASSUME NEW t \in Token \cup {NoToken}, NEW u \in Thread,
             BeginDeepScan(t, u)
      PROVE  HandoffInv'
  BY <1>7 DEF BeginDeepScan
<1>8. CASE UNCHANGED handoffVars
  BY <1>8 DEF handoffVars
<1> QED
  BY <1>1, <1>2, <1>3, <1>4, <1>5, <1>6, <1>7, <1>8 DEF HandoffNext

\* The handoff's commands keep the scan with the token of a claim whose thread
\* is attached, whatever claims go stale, are taken over or released.
THEOREM HandoffInvariance == HandoffSpec => []HandoffInv
<1>1. HandoffInit => HandoffInv
  BY HandoffStarts
<1>2. HandoffInv /\ [HandoffNext]_handoffVars => HandoffInv'
  BY HandoffIsKept
<1> QED
  BY <1>1, <1>2, PTL DEF HandoffSpec

\* No command takes a delivered scan from its token or its thread.
LEMMA DeliveredIsKept ==
  ASSUME HandoffInv, HandoffNext, handoff.delivered
  PROVE  /\ handoff'.delivered
         /\ handoff'.token = handoff.token
         /\ ~handoff.cli /\ handoff.thread # NoThread =>
              handoff'.thread = handoff.thread
         /\ handoff.cli /\ handoff.owner # NoThread =>
              handoff'.owner = handoff.owner
<1> USE DEF HandoffInv, HandoffTypeOK, Handoff, TokenlessCLI
<1>1. ASSUME NEW t \in Token, NEW takeOverStale \in BOOLEAN
      PROVE  ~ClaimHandoff(t, takeOverStale)
  BY DEF ClaimHandoff
<1>2. ASSUME NEW t \in Token PROVE ~ReleaseHandoff(t)
  BY DEF ReleaseHandoff
<1>3. ASSUME NEW t \in Token, NEW u \in Thread \cup {NoThread}
      PROVE  ~MarkHandoffDelivered(t, u)
  BY DEF MarkHandoffDelivered
<1>4. ~ClaimGoesStale
  BY DEF ClaimGoesStale
<1>5. ASSUME NEW t \in Token, NEW u \in Thread, AttachThread(t, u)
      PROVE  ~handoff.cli
  BY <1>5, HandoffAssumption DEF AttachThread, TokenlessCLI
<1>6. CASE \E t \in Token, u \in Thread : AttachThread(t, u)
  BY <1>5, <1>6 DEF AttachThread
<1>7. CASE \E u \in Thread : SetScanThread(u)
  BY <1>7 DEF SetScanThread
<1>8. CASE \E t \in Token \cup {NoToken}, u \in Thread : BeginDeepScan(t, u)
  BY <1>8 DEF BeginDeepScan
<1> QED
  BY <1>1, <1>2, <1>3, <1>4, <1>6, <1>7, <1>8 DEF HandoffNext

\* A scan that runs hands over by the commands of the handoff and no others:
\* its own commands only read the token and the threads.
THEOREM ScanImplementsHandoff == ResultsSpec => HandoffSpec
<1>1. ResultsInit => HandoffInit
  BY DEF ResultsInit
<1>2. [ResultsNext]_vars => [HandoffNext]_handoffVars
  BY DEF ResultsNext, HandoffStep, vars, handoffVars
<1> QED
  BY <1>1, <1>2, PTL DEF ResultsSpec, HandoffSpec

\* Of a running scan: a thread of an earlier claim never owns the scan
\* (claim_handoff_delivery, release_handoff_delivery).
THEOREM ScanThreadHoldsTheClaim == ResultsSpec => []ThreadHoldsTheClaim
<1>1. HandoffInv => ThreadHoldsTheClaim
  BY DEF HandoffInv
<1> QED
  BY <1>1, ScanImplementsHandoff, HandoffInvariance, PTL

\* Of a running scan: what was delivered stays with its token and its thread.
THEOREM ScanDeliveredIsFinal == ResultsSpec => DeliveredIsFinal
<1>1. HandoffInv /\ [HandoffNext]_handoffVars =>
        [handoff.delivered =>
           /\ handoff'.delivered
           /\ handoff'.token = handoff.token
           /\ ~handoff.cli /\ handoff.thread # NoThread =>
                handoff'.thread = handoff.thread
           /\ handoff.cli /\ handoff.owner # NoThread =>
                handoff'.owner = handoff.owner
        ]_handoffVars
  BY DeliveredIsKept
<1> QED
  BY <1>1, ScanImplementsHandoff, HandoffInvariance, PTL
     DEF DeliveredIsFinal, HandoffSpec

-----------------------------------------------------------------------------
(* What a completed scan says.                                             *)

Saving == {"draft", "prepare", "complete"}
Completing == {"prepare", "complete"}
SealFits(m) == m.kind = "sealed" => m.seals \in Source

\* What a command that writes is about to do fits what it has done so far.
CommandFits ==
  /\ SealFits(command.manifest)
  /\ SealFits(command.before.manifest)
  /\ command.op \in Saving =>
       /\ scan.status = "running"
       /\ command.step \notin {"freeze", "record"}
       /\ command.after # "record"
  /\ command.op \notin Saving => scan.status = "failed"
  /\ command.op = "draft" /\ command.step = "manifest" =>
       file.findings = command.findings
  /\ command.op \in Completing =>
       /\ file.findings = command.findings
       /\ command.manifest.kind = "sealed"
       /\ command.manifest.seals = command.findings
  /\ command.step = "commit" => file.manifest = command.manifest

\* The inductive invariant.
ResultsInv ==
  /\ HandoffInv
  /\ ResultsTypeOK
  /\ SealFits(file.manifest)
  /\ command \in WriteCommand => CommandFits
  /\ command \in StopCommand => scan.status = "failed"
  /\ scan.status = "complete" => Idle
  /\ scan.status = "running" /\ file.findings # NoFindings =>
       file.findings \in drafts
  /\ CompletedIsTheLastDraft

LEMMA ResultsStart == ResultsInit => ResultsInv
<1> SUFFICES ASSUME ResultsInit PROVE ResultsInv
  OBVIOUS
<1>1. HandoffInv
  BY HandoffStarts DEF ResultsInit
<1>2. command \notin WriteCommand /\ command \notin StopCommand
  BY DEF ResultsInit, NoCommand, WriteCommand, StopCommand
<1>3. NoManifest \in Manifest
  BY DEF NoManifest, Manifest, Sources, Findings
<1>4. ResultsTypeOK
  BY <1>1, <1>3, ResultsAssumption
  DEF ResultsInit, HandoffInv, ResultsTypeOK, Sources, Findings, Mode
<1> QED
  BY <1>1, <1>2, <1>4 DEF ResultsInv, ResultsInit, SealFits, NoManifest, Idle,
     CompletedIsTheLastDraft

\* Three kinds of commands, and how to tell which one holds the lock.
LEMMA Holder ==
  ASSUME ResultsInv
  PROVE  /\ Idle => command \notin WriteCommand /\ command \notin StopCommand
         /\ ~Idle /\ command.step # "publish" => command \in WriteCommand
         /\ ~Idle /\ command.step = "publish" => command \in StopCommand
         /\ NoCommand \notin WriteCommand /\ NoCommand \notin StopCommand
         /\ WriteCommand \cap StopCommand = {}
         /\ \A s : At(s) => ~Idle /\ command.step = s
  BY DEF ResultsInv, ResultsTypeOK, Idle, At, NoCommand, WriteCommand, StopCommand

-----------------------------------------------------------------------------
(* Steps of an idle scan                                                   *)

LEMMA SavesAreKept ==
  ASSUME ResultsInv, SaveStep, UNCHANGED handoffVars PROVE ResultsInv'
<1> USE DEF ResultsInv
<1>h. HandoffInv'
  BY DEF handoffVars, HandoffInv, HandoffTypeOK, TokenlessCLI,
     ThreadHoldsTheClaim
<1>1. ASSUME NEW findings \in Source, NEW complete \in BOOLEAN,
             AgentWrites(findings, complete)
      PROVE  ResultsInv'
  <2>1. Draft(complete) \in Manifest /\ Draft(complete).kind = "draft"
    BY DEF Draft, NoManifest, Manifest, Sources, Findings
  <2>2. Idle /\ Idle'
    BY <1>1 DEF AgentWrites, Idle
  <2>3. ResultsTypeOK'
    <3>1. file' \in [findings: Findings, manifest: Manifest]
      BY <1>1, <2>1 DEF AgentWrites, Findings, Source
    <3> QED
      BY <1>1, <1>h, <3>1 DEF AgentWrites, ResultsTypeOK, HandoffInv
  <2> QED
    BY <1>1, <1>h, <2>1, <2>2, <2>3, Holder DEF AgentWrites, SealFits, Idle,
       CompletedIsTheLastDraft
<1>2. ASSUME NEW source \in Source, WorkerSaves(source) PROVE ResultsInv'
  <2>1. ResultsTypeOK'
    BY <1>2, <1>h DEF WorkerSaves, ResultsTypeOK, HandoffInv
  <2> QED
    BY <1>2, <1>h, <2>1 DEF WorkerSaves, SealFits, Idle, CommandFits,
       CompletedIsTheLastDraft
<1>3. ASSUME NEW t \in Speaker, NEW c \in Source, NEW kept \in Source,
             NEW complete \in BOOLEAN, WriteScanDraft(t, c, kept, complete)
      PROVE  ResultsInv'
  <2>1. Draft(complete) \in Manifest /\ Draft(complete).kind = "draft"
    BY DEF Draft, NoManifest, Manifest, Sources, Findings
  <2>2. command' \in WriteCommand /\ c \cup kept \in Source
    BY <1>3, <2>1 DEF WriteScanDraft, Writing, WriteCommand, Source,
       ResultsTypeOK
  <2>3. ResultsTypeOK'
    BY <1>3, <1>h, <2>2 DEF WriteScanDraft, ResultsTypeOK, HandoffInv
  <2>4. CommandFits'
    BY <1>3, <2>1 DEF WriteScanDraft, CommandFits, Writing, SealFits, Saving,
       Completing
  <2>5. ~Idle' /\ command' \notin StopCommand
    BY <2>2 DEF Idle, NoCommand, WriteCommand, StopCommand
  <2> QED
    BY <1>3, <1>h, <2>3, <2>4, <2>5 DEF WriteScanDraft, SealFits,
       CompletedIsTheLastDraft
<1> QED
  BY <1>1, <1>2, <1>3 DEF SaveStep

LEMMA CompletionsAreKept ==
  ASSUME ResultsInv, CompleteStep, UNCHANGED handoffVars PROVE ResultsInv'
<1> USE DEF ResultsInv
<1>h. HandoffInv'
  BY DEF handoffVars, HandoffInv, HandoffTypeOK, TokenlessCLI,
     ThreadHoldsTheClaim
<1>1. ASSUME NEW t \in Speaker, NEW op \in Completing, CompleteScan(t, op)
      PROVE  ResultsInv'
  <2>1. file.findings \in Source /\ file.findings \in drafts
    BY <1>1 DEF CompleteScan, Present, ResultsTypeOK, Findings, Source
  <2>2. /\ command' \in WriteCommand
        /\ checkpoints' \subseteq Source
        /\ command'.op = op /\ command'.findings = file.findings
        /\ command'.manifest.kind = "sealed"
        /\ command'.manifest.seals = file.findings
        /\ command'.before = file
        /\ command'.step \in {"findings", "commit"}
        /\ command'.after # "record"
        /\ command'.step = "commit" => command'.manifest = file.manifest
    <3>1. ASSUME NEW S \in Sources
          PROVE  /\ SealOf("completed", S, file.findings) \in Manifest
                 /\ SealOf("completed", S, file.findings).kind = "sealed"
                 /\ SealOf("completed", S, file.findings).seals = file.findings
      BY <2>1 DEF SealOf, Manifest, Findings, Source
    <3>2. NoSources \in Sources /\ checkpoints \cup {file.findings} \in Sources
      BY <2>1 DEF Sources, ResultsTypeOK
    <3>3. CASE Sealed
      BY <1>1, <2>1, <3>3 DEF CompleteScan, SealForCompletion, Writing, Sealed,
         SealIsIntact, WriteCommand, ResultsTypeOK, Completing
    <3>4. CASE ~Sealed /\ scan.mode = "deep"
      BY <1>1, <2>1, <3>1, <3>2, <3>4 DEF CompleteScan, SealForCompletion,
         Writing, WriteCommand, ResultsTypeOK, Completing
    <3>5. CASE ~Sealed /\ scan.mode # "deep"
      BY <1>1, <2>1, <3>1, <3>2, <3>5 DEF CompleteScan, SealForCompletion,
         Writing, WriteCommand, ResultsTypeOK, Completing
    <3> QED
      BY <3>3, <3>4, <3>5
  <2>3. ~Idle' /\ command' \notin StopCommand
    BY <2>2 DEF Idle, NoCommand, WriteCommand, StopCommand
  <2>4. ResultsTypeOK'
    BY <1>1, <1>h, <2>2 DEF CompleteScan, ResultsTypeOK, HandoffInv
  <2>5. CommandFits'
    BY <1>1, <2>1, <2>2 DEF CompleteScan, CommandFits, SealFits, Saving,
       Completing
  <2> QED
    BY <1>1, <1>h, <2>3, <2>4, <2>5 DEF CompleteScan, CompletedIsTheLastDraft
<1>2. CASE CommitCompletion
  <2>1. command \in WriteCommand /\ command.op = "complete" /\ CommandFits
    BY <1>2, Holder DEF CommitCompletion, At
  <2>2. /\ scan.status = "running" /\ file.findings = command.findings
        /\ file.manifest = command.manifest /\ command.findings \in Source
        /\ file.manifest \in Manifest
        /\ Sealed /\ file.manifest.seals = file.findings
    BY <1>2, <2>1 DEF CommitCompletion, At, CommandFits, Saving, Completing,
       WriteCommand, Sealed, ResultsTypeOK
  <2>3. file.findings \in drafts
    BY <2>2, NullAssumption
  <2>4. ResultsTypeOK'
    BY <1>2, <1>h, <2>2 DEF CommitCompletion, ResultsTypeOK, HandoffInv, Source
  <2>5. Idle' /\ command' \notin WriteCommand /\ command' \notin StopCommand
    BY <1>2, Holder DEF CommitCompletion, Idle
  <2>6. scan'.status = "complete" =>
          scan'.digest = file.manifest /\ rows' = file.findings
    BY <1>2, <2>2 DEF CommitCompletion, ResultsTypeOK
  <2>7. scan'.status = "running" \/ scan'.status = "complete"
    BY <1>2, <2>2 DEF CommitCompletion, ResultsTypeOK
  <2> QED
    BY <1>2, <1>h, <2>2, <2>3, <2>4, <2>5, <2>6, <2>7 DEF CommitCompletion,
       CompletedIsTheLastDraft, SealIsIntact, Sealed, SealFits
<1>3. CASE EndPreparation
  <2>1. Idle' /\ command' \notin WriteCommand /\ command' \notin StopCommand
    BY <1>3, Holder DEF EndPreparation, Idle
  <2>2. scan.status # "complete"
    BY <1>3, Holder DEF EndPreparation
  <2>3. ResultsTypeOK'
    BY <1>3, <1>h DEF EndPreparation, ResultsTypeOK, HandoffInv
  <2> QED
    BY <1>3, <1>h, <2>1, <2>2, <2>3 DEF EndPreparation, SealFits,
       CompletedIsTheLastDraft
<1> QED
  BY <1>1, <1>2, <1>3 DEF CompleteStep, Completing

LEMMA StopsAreKept ==
  ASSUME ResultsInv, StopStep, UNCHANGED handoffVars PROVE ResultsInv'
<1> USE DEF ResultsInv
<1>h. HandoffInv'
  BY DEF handoffVars, HandoffInv, HandoffTypeOK, TokenlessCLI,
     ThreadHoldsTheClaim
<1>1. PICK op \in {"fail", "cancel"} : StopScan(op)
  BY DEF StopStep, FailScan, CompletionFails, CancelScan
<1>2. scan.status = "running"
  BY DEF StopStep, FailScan, CompletionFails, CancelScan
<1>3. command' \in StopCommand /\ command' \notin WriteCommand
  BY <1>1, Holder DEF StopScan, Stopping, StopCommand
<1>4. scan'.status = "failed"
  BY <1>1 DEF StopScan, ResultsTypeOK
<1>5. ResultsTypeOK'
  BY <1>1, <1>h, <1>3, <1>4 DEF StopScan, ResultsTypeOK, HandoffInv
<1> QED
  BY <1>1, <1>h, <1>3, <1>4, <1>5 DEF StopScan, SealFits, CompletedIsTheLastDraft

-----------------------------------------------------------------------------
(* The publication of a stopped scan                                       *)

\* What remains to be shown of a step that leaves a stopped scan without a
\* command: that it keeps the types.
LEMMA StoppedRests ==
  ASSUME ResultsInv, HandoffInv', ResultsTypeOK', SealFits(file.manifest)',
         scan'.status = "failed", command' = NoCommand
  PROVE  ResultsInv'
BY Holder DEF ResultsInv, Idle, CompletedIsTheLastDraft

LEMMA RecordIsKept ==
  ASSUME ResultsInv, HandoffInv', scan.status = "failed",
         NEW findings \in Source, NEW manifest \in Manifest,
         RecordPublication(findings, manifest),
         UNCHANGED <<file, checkpoints, faults, drafts>>
  PROVE  ResultsInv'
<1>1. scan'.status = "failed" /\ command' = NoCommand
  BY DEF RecordPublication, ResultsInv, ResultsTypeOK
<1>2. manifest.sources \in Sources
  BY DEF Manifest
<1>3. ResultsTypeOK'
  BY <1>1, <1>2 DEF RecordPublication, ResultsInv, ResultsTypeOK, HandoffInv,
     Source
<1> QED
  BY <1>1, <1>3, StoppedRests DEF ResultsInv, SealFits

\* The union of sources is a document again, and its seal covers it.
LEMMA MergeIsKept ==
  ASSUME ResultsInv, HandoffInv', scan.status = "failed",
         NEW op \in {"fail", "cancel", "preserve", "recover"},
         NEW recovery \in Sources, NEW withParent,
         Merge(op, recovery, withParent),
         UNCHANGED <<scan, rows, file, faults, drafts>>
  PROVE  ResultsInv'
<1> DEFINE given == FrozenSources(recovery)
           useParent == UseParent(given, withParent)
           keepParent == useParent /\ (~Sealed \/ withParent)
           saved == IF keepParent THEN checkpoints \cup {file.findings}
                    ELSE checkpoints
           recorded == IF useParent /\ file.manifest.sources # NoSources
                       THEN file.manifest.sources ELSE {}
           used == recorded \cup
                   (IF given = NoSources THEN saved
                    ELSE IF keepParent THEN given \cup {file.findings} ELSE given)
           parent == IF useParent THEN file.findings ELSE {}
           seal == SealOf(Outcome, used, parent \cup UNION used)
<1>t. ResultsTypeOK
  BY DEF ResultsInv
<1>1. file.manifest \in Manifest /\ file.manifest.sources \in Sources
  BY <1>t DEF ResultsTypeOK, Manifest
<1>2. given \in Sources
  BY <1>t, <1>1 DEF FrozenSources, ResultsTypeOK, Sources
<1>3. useParent => file.findings \in Source
  BY <1>t DEF UseParent, Present, ResultsTypeOK, Findings, Source
<1>4. saved \subseteq Source
  BY <1>t, <1>3 DEF ResultsTypeOK
<1>5. recorded \subseteq Source
  BY <1>1 DEF Sources
<1>6. used \subseteq Source
  <2> HIDE DEF given, useParent, saved, recorded
  <2> QED
    BY <1>2, <1>3, <1>4, <1>5 DEF Sources
<1>7. parent \subseteq Finding
  BY <1>3 DEF Source
<1>8. parent \cup UNION used \in Source
  <2> HIDE DEF used, parent
  <2> QED
    BY <1>6, <1>7 DEF Source
<1>9. /\ seal \in Manifest
      /\ SealFits(seal)
  <2> HIDE DEF used, parent
  <2> QED
    BY <1>6, <1>8 DEF SealOf, Manifest, Findings, Sources, Source, Outcome,
       SealFits
<1>10. CASE ~useParent /\ used = {}
  <2>1. command' = NoCommand /\ UNCHANGED checkpoints
    BY <1>10 DEF Merge
  <2>2. ResultsTypeOK'
    BY <1>t, <2>1 DEF ResultsTypeOK, HandoffInv
  <2> QED
    BY <2>1, <2>2, StoppedRests DEF ResultsInv, SealFits
<1>11. CASE ~(~useParent /\ used = {})
  <2>1. /\ checkpoints' = saved
        /\ command' = [Writing(op, NoToken, parent \cup UNION used, seal, "record")
                         EXCEPT !.step = IF given = NoSources THEN "freeze" ELSE @]
    BY <1>11 DEF Merge
  <2> HIDE DEF given, useParent, keepParent, saved, recorded, used, parent, seal
  <2>2. /\ command' \in WriteCommand /\ command' \notin StopCommand
        /\ command'.op = op /\ command'.manifest = seal
        /\ command'.before = file
        /\ command'.step \in {"freeze", "findings"}
    BY <2>1, <1>8, <1>9, <1>t DEF Writing, WriteCommand, StopCommand, Speaker,
       ResultsTypeOK
  <2>3. ResultsTypeOK'
    BY <1>t, <1>4, <2>1, <2>2 DEF ResultsTypeOK, HandoffInv
  <2>4. CommandFits'
    BY <1>9, <2>2 DEF CommandFits, SealFits, Saving, Completing, ResultsInv
  <2> QED
    BY <2>2, <2>3, <2>4 DEF ResultsInv, CompletedIsTheLastDraft, SealFits
<1> QED
  BY <1>10, <1>11

LEMMA PublishIsKept ==
  ASSUME ResultsInv, HandoffInv', scan.status = "failed",
         NEW op \in {"fail", "cancel", "preserve", "recover"},
         NEW recovery \in Sources, NEW withParent,
         Publish(op, recovery, withParent),
         UNCHANGED <<file, faults, drafts>>
  PROVE  ResultsInv'
<1>1. CASE /\ command' = NoCommand
           /\ scan' = [scan EXCEPT !.followUp = @ \/ op \in {"fail", "cancel"}]
           /\ UNCHANGED <<rows, checkpoints>>
  <2>1. ResultsTypeOK' /\ scan'.status = "failed"
    BY <1>1 DEF ResultsInv, ResultsTypeOK, HandoffInv
  <2> QED
    BY <1>1, <2>1, StoppedRests DEF ResultsInv, SealFits
<1>2. CASE command' = NoCommand /\ UNCHANGED <<rows, scan, checkpoints>>
  <2>1. ResultsTypeOK'
    BY <1>2 DEF ResultsInv, ResultsTypeOK, HandoffInv
  <2> QED
    BY <1>2, <2>1, StoppedRests DEF ResultsInv, SealFits
<1>3. CASE /\ ~SealIsBroken /\ Published
           /\ RecordPublication(file.findings, file.manifest)
           /\ UNCHANGED checkpoints
  <2>1. file.findings \in Source /\ file.manifest \in Manifest
    BY <1>3 DEF SealIsBroken, SealIsIntact, Sealed, SealFits, ResultsInv,
       Published, ResultsTypeOK
  <2> QED
    BY <1>3, <2>1, RecordIsKept
<1>4. CASE /\ Merge(op, recovery, withParent \/ LegacyParent(recovery))
           /\ UNCHANGED <<rows, scan>>
  BY <1>4, MergeIsKept
<1> QED
  BY <1>1, <1>2, <1>3, <1>4 DEF Publish

LEMMA PublicationsAreKept ==
  ASSUME ResultsInv, PublishStep, UNCHANGED handoffVars PROVE ResultsInv'
<1> USE DEF ResultsInv
<1>h. HandoffInv'
  BY DEF handoffVars, HandoffInv, HandoffTypeOK, TokenlessCLI,
     ThreadHoldsTheClaim
<1>s. NoSources \in Sources
  BY DEF Sources
<1>1. CASE PublishStopped
  <2>1. command \in StopCommand
    BY <1>1, Holder DEF PublishStopped
  <2>2. command.op \in {"fail", "cancel", "preserve", "recover"}
    BY <2>1 DEF StopCommand
  <2> QED
    BY <1>1, <1>h, <1>s, <2>1, <2>2, PublishIsKept DEF PublishStopped
<1>2. ASSUME NEW t \in Speaker, NEW u \in Thread \cup {NoThread},
             PreserveScanResults(t, u)
      PROVE  ResultsInv'
  BY <1>2, <1>h, <1>s, PublishIsKept DEF PreserveScanResults
<1>3. CASE RecoverScanResults
  <2>1. file.manifest.sources \in Sources /\ scan.frozen \in Sources
    BY DEF ResultsTypeOK, Manifest
  <2>2. RecoverySources \in Sources
    BY <2>1 DEF RecoverySources, KnownSources, Sources, ResultsTypeOK
  <2> QED
    BY <1>3, <1>h, <2>2, PublishIsKept DEF RecoverScanResults
<1>4. CASE FreezeSources
  <2>1. command \in WriteCommand /\ CommandFits /\ command.step = "freeze"
    BY <1>4, Holder DEF FreezeSources
  <2>2. scan.status = "failed" /\ command.op \notin Saving
    BY <2>1 DEF CommandFits
  <2>3. /\ command' \in WriteCommand /\ command' \notin StopCommand
        /\ command'.op = command.op /\ command'.manifest = command.manifest
        /\ command'.before = command.before
        /\ command'.step = "findings"
    BY <1>4, <2>1 DEF FreezeSources, WriteCommand, StopCommand
  <2>4. command.manifest.sources \in Sources
    BY <2>1 DEF WriteCommand, Manifest
  <2>5. scan'.status = "failed"
    BY <1>4, <2>2 DEF FreezeSources, ResultsTypeOK
  <2>6. ResultsTypeOK'
    BY <1>4, <1>h, <2>2, <2>3, <2>4, <2>5 DEF FreezeSources, ResultsTypeOK,
       HandoffInv
  <2>7. CommandFits'
    BY <2>1, <2>2, <2>3, <2>5 DEF CommandFits, SealFits, Saving, Completing
  <2> QED
    BY <1>4, <1>h, <2>3, <2>5, <2>6, <2>7 DEF FreezeSources,
       CompletedIsTheLastDraft, SealFits
<1>5. CASE Record
  <2>1. command \in WriteCommand /\ CommandFits /\ command.step = "record"
    BY <1>5, Holder DEF Record
  <2>2. scan.status = "failed"
    BY <2>1 DEF CommandFits
  <2>3. command.findings \in Source /\ command.manifest \in Manifest
    BY <2>1 DEF WriteCommand
  <2> QED
    BY <1>5, <1>h, <2>2, <2>3, RecordIsKept DEF Record
<1> QED
  BY <1>1, <1>2, <1>3, <1>4, <1>5 DEF PublishStep

-----------------------------------------------------------------------------
(* The writes                                                              *)

LEMMA WritesAreKept ==
  ASSUME ResultsInv, WriteStep, UNCHANGED handoffVars PROVE ResultsInv'
<1> USE DEF ResultsInv
<1>h. HandoffInv'
  BY DEF handoffVars, HandoffInv, HandoffTypeOK, TokenlessCLI,
     ThreadHoldsTheClaim
<1>1. CASE WriteFindings
  <2>1. command \in WriteCommand /\ CommandFits /\ command.step = "findings"
    BY <1>1, Holder DEF WriteFindings
  <2>2. /\ command' \in WriteCommand /\ command' \notin StopCommand
        /\ command' = [command EXCEPT !.step = "manifest"]
        /\ command'.op = command.op /\ command'.manifest = command.manifest
        /\ command'.before = command.before /\ command'.after = command.after
        /\ command'.findings = command.findings
        /\ command'.step = "manifest"
    BY <1>1, <2>1 DEF WriteFindings, WriteCommand, StopCommand
  <2>3. /\ file' \in [findings: Findings, manifest: Manifest]
        /\ file'.findings = command.findings
        /\ file'.manifest = file.manifest
    BY <1>1, <2>1 DEF WriteFindings, ResultsTypeOK, WriteCommand, Findings,
       Source
  <2>4. drafts' \subseteq Source
    BY <1>1, <2>1 DEF WriteFindings, ResultsTypeOK, WriteCommand
  <2>5. ResultsTypeOK'
    BY <1>1, <1>h, <2>2, <2>3, <2>4 DEF WriteFindings, ResultsTypeOK, HandoffInv
  <2>6. CommandFits'
    BY <1>1, <2>1, <2>2, <2>3 DEF WriteFindings, CommandFits, SealFits, Saving,
       Completing
  <2>7. scan'.status = "running" /\ file'.findings # NoFindings =>
          file'.findings \in drafts'
    BY <1>1, <2>1, <2>3 DEF WriteFindings, CommandFits, Saving, Completing,
       WriteCommand
  <2> QED
    BY <1>1, <1>h, <2>1, <2>2, <2>3, <2>5, <2>6, <2>7, Holder
    DEF WriteFindings, CompletedIsTheLastDraft, SealFits
<1>2. CASE WriteManifest
  <2>1. command \in WriteCommand /\ CommandFits /\ command.step = "manifest"
    BY <1>2, Holder DEF WriteManifest
  <2>2. /\ file' \in [findings: Findings, manifest: Manifest]
        /\ file'.findings = file.findings
        /\ file'.manifest = command.manifest
        /\ SealFits(file'.manifest)
    BY <1>2, <2>1 DEF WriteManifest, ResultsTypeOK, WriteCommand, CommandFits
  <2>3. drafts' \subseteq Source
    BY <1>2, <2>1 DEF WriteManifest, ResultsTypeOK, WriteCommand
  <2>4. scan.status # "complete"
    BY <2>1, Holder DEF Idle
  <2>5. scan'.status = "running" /\ file'.findings # NoFindings =>
          file'.findings \in drafts'
    BY <1>2, <2>1, <2>2 DEF WriteManifest, CommandFits
  <2>6. CASE command.after = "end"
    <3>1. command' = NoCommand
      BY <1>2, <2>6 DEF WriteManifest
    <3>2. ResultsTypeOK'
      BY <1>2, <1>h, <2>2, <2>3, <3>1 DEF WriteManifest, ResultsTypeOK, HandoffInv
    <3> QED
      BY <1>2, <1>h, <2>2, <2>4, <2>5, <3>1, <3>2, Holder DEF WriteManifest,
         CompletedIsTheLastDraft
  <2>7. CASE command.after # "end"
    <3>1. /\ command' \in WriteCommand /\ command' \notin StopCommand
          /\ command'.op = command.op /\ command'.manifest = command.manifest
          /\ command'.before = command.before /\ command'.after = command.after
          /\ command'.findings = command.findings
          /\ command'.step = command.after /\ command.after \in {"commit", "record"}
      BY <1>2, <2>1, <2>7 DEF WriteManifest, WriteCommand, StopCommand
    <3>2. ResultsTypeOK'
      BY <1>2, <1>h, <2>2, <2>3, <3>1 DEF WriteManifest, ResultsTypeOK, HandoffInv
    <3>3. CommandFits'
      BY <1>2, <2>1, <2>2, <3>1 DEF WriteManifest, CommandFits, SealFits, Saving,
         Completing
    <3> QED
      BY <1>2, <1>h, <2>2, <2>4, <2>5, <3>1, <3>2, <3>3 DEF WriteManifest,
         CompletedIsTheLastDraft
  <2> QED
    BY <2>6, <2>7
<1>3. CASE Killed
  <2>1. command' = NoCommand /\ Idle' /\ scan.status # "complete"
    BY <1>3 DEF Killed, Idle
  <2>2. ResultsTypeOK'
    BY <1>3, <1>h, ResultsAssumption DEF Killed, ResultsTypeOK, HandoffInv
  <2> QED
    BY <1>3, <1>h, <2>1, <2>2, Holder DEF Killed, CompletedIsTheLastDraft,
       SealFits
<1>4. CASE PublicationFails
  <2>1. command \in WriteCommand /\ CommandFits
    BY <1>4 DEF PublicationFails, ResultsTypeOK, NoCommand, StopCommand
  <2>2. scan.status = "failed"
    BY <1>4, <2>1 DEF PublicationFails, CommandFits, Saving
  <2>3. file' \in [findings: Findings, manifest: Manifest]
    BY <1>4, <2>1 DEF PublicationFails, WriteCommand
  <2>4. scan'.status = "failed" /\ command' = NoCommand
    BY <1>4, <2>2 DEF PublicationFails, ResultsTypeOK
  <2>5. SealFits(file.manifest)'
    BY <1>4, <2>1 DEF PublicationFails, CommandFits, SealFits
  <2>6. ResultsTypeOK'
    <3>1. scan' \in [mode: Mode, status: {"running", "complete", "failed"},
                     canceled: BOOLEAN, digest: Manifest \cup {NoDigest},
                     frozen: Sources, followUp: BOOLEAN]
      BY <1>4 DEF PublicationFails, ResultsTypeOK
    <3>2. faults' \in 0..MaxFaults
      BY <1>4, ResultsAssumption DEF PublicationFails, ResultsTypeOK
    <3> QED
      BY <1>4, <1>h, <2>3, <2>4, <3>1, <3>2 DEF PublicationFails, ResultsTypeOK,
         HandoffInv
  <2> QED
    BY <1>h, <2>4, <2>5, <2>6, StoppedRests
<1> QED
  BY <1>1, <1>2, <1>3, <1>4 DEF WriteStep

-----------------------------------------------------------------------------
LEMMA HandoffsAreKept ==
  ASSUME ResultsInv, [HandoffNext]_handoffVars, UNCHANGED resultVars
  PROVE  ResultsInv'
<1>1. HandoffInv'
  BY HandoffIsKept DEF ResultsInv
<1>2. ResultsTypeOK'
  BY <1>1 DEF ResultsInv, ResultsTypeOK, resultVars, HandoffInv
<1> QED
  BY <1>1, <1>2 DEF ResultsInv, resultVars, CommandFits, SealFits, Idle,
     CompletedIsTheLastDraft, SealIsIntact, Sealed

LEMMA ResultsAreKept == ResultsInv /\ [ResultsNext]_vars => ResultsInv'
<1> SUFFICES ASSUME ResultsInv, [ResultsNext]_vars PROVE ResultsInv'
  OBVIOUS
<1>1. CASE HandoffStep /\ UNCHANGED resultVars
  BY <1>1, HandoffsAreKept DEF HandoffStep
<1>2. CASE UNCHANGED vars
  BY <1>2, HandoffsAreKept DEF vars, resultVars, handoffVars
<1>3. CASE /\ SaveStep \/ CompleteStep \/ StopStep \/ PublishStep \/ WriteStep
           /\ UNCHANGED handoffVars
  BY <1>3, SavesAreKept, CompletionsAreKept, StopsAreKept, PublicationsAreKept,
     WritesAreKept
<1> QED
  BY <1>1, <1>2, <1>3 DEF ResultsNext

\* In every state a scan can be in, whatever was killed, what the command that
\* holds the lock is about to write fits the row and the documents.
THEOREM ResultsInvariance == ResultsSpec => []ResultsInv
<1>1. ResultsInit => ResultsInv
  BY ResultsStart
<1>2. ResultsInv /\ [ResultsNext]_vars => ResultsInv'
  BY ResultsAreKept
<1> QED
  BY <1>1, <1>2, PTL DEF ResultsSpec

\* The columns, documents and commands of a scan keep their types; a running
\* scan has neither a digest nor frozen sources (finalize_scan_contract.py).
THEOREM ResultsTypeCorrect == ResultsSpec => []ResultsTypeOK
<1>1. ResultsInv => ResultsTypeOK
  BY DEF ResultsInv
<1> QED
  BY <1>1, ResultsInvariance, PTL

\* A completed scan (complete_scan_locked) is for good what its seal says, and
\* that is the last draft that was saved.
THEOREM CompletionIsTheLastDraft == ResultsSpec => []CompletedIsTheLastDraft
<1>1. ResultsInv => CompletedIsTheLastDraft
  BY DEF ResultsInv
<1> QED
  BY <1>1, ResultsInvariance, PTL

-----------------------------------------------------------------------------
(* What a stopped scan publishes.                                          *)

\* The last draft, or one cut off after it, is in X.
Kept(X, ds) == ds # {} => \E d \in ds : d \subseteq X

OutcomeOf(row) == IF row.canceled THEN "canceled" ELSE "failed"

\* What a seal says of its sources.
SealHolds(m, saved) ==
  m.kind = "sealed" =>
    /\ m.sources = NoSources => m.outcome = "completed" /\ m.seals \in saved
    /\ m.sources # NoSources => m.seals \subseteq UNION m.sources
    /\ m.outcome # "completed" => UNION m.sources \subseteq m.seals

\* The documents f on disk, or put back there.
DocumentsHold(f, row, saved, ds) ==
  /\ SealHolds(f.manifest, saved)
  /\ f.manifest.kind = "sealed" =>
       /\ row.status = "running" => f.manifest.outcome = "completed"
       /\ f.manifest.outcome = OutcomeOf(row) => Kept(f.manifest.seals, ds)
  /\ row.frozen = NoSources =>
       \/ f.manifest.kind # "none" /\ f.findings # NoFindings /\ Kept(f.findings, ds)
       \/ Kept(UNION saved, ds)

\* A draft or a completion that is being written.
SavingFits ==
  /\ command.op = "draft" =>
       /\ command.manifest.kind = "draft" /\ scan.mode # "deep"
       /\ file.manifest.kind = "none" => command.findings \in checkpoints
  /\ command.op \in Completing => command.manifest.outcome = "completed"

\* A publication that is being written.
PublishingFits ==
  command.op \notin Saving =>
    /\ DocumentsHold(command.before, scan, checkpoints, drafts)
    /\ command.manifest.kind = "sealed"
    /\ command.manifest.seals = command.findings
    /\ command.manifest.outcome = OutcomeOf(scan)
    /\ command.after = "record" /\ command.step # "commit"
    /\ Kept(command.findings, drafts)
    /\ scan.digest # NoDigest => rows \subseteq command.findings

WriterFits ==
  /\ SealHolds(command.manifest, checkpoints)
  /\ command.step = "manifest" => file.findings = command.findings
  /\ SavingFits
  /\ PublishingFits

\* What the row says of a publication that was recorded.
RecordHolds ==
  scan.status = "failed" /\ scan.digest # NoDigest =>
    /\ scan.digest.kind = "sealed" /\ scan.digest.outcome = OutcomeOf(scan)
    /\ scan.digest.seals = rows
    /\ scan.digest.sources = scan.frozen /\ scan.frozen # NoSources
    /\ SealHolds(scan.digest, checkpoints)

\* The inductive invariant, beside ResultsInv.
PubInv ==
  /\ DocumentsHold(file, scan, checkpoints, drafts)
  /\ command \in WriteCommand => WriterFits
  /\ RecordHolds
  /\ scan.frozen # NoSources => Kept(UNION scan.frozen, drafts)
  /\ scan.mode = "deep" /\ scan.status = "running" /\ file.findings # NoFindings =>
       file.findings \in checkpoints

-----------------------------------------------------------------------------
(* What stays true as sources are saved and the row goes on                *)

LEMMA KeptStays ==
  ASSUME NEW X, NEW Y, NEW ds, Kept(X, ds), X \subseteq Y PROVE Kept(Y, ds)
BY DEF Kept

LEMMA SealStays ==
  ASSUME NEW m, NEW saved, NEW more, SealHolds(m, saved), saved \subseteq more
  PROVE  SealHolds(m, more)
BY DEF SealHolds

LEMMA DocumentsStay ==
  ASSUME NEW f, NEW row, NEW next, NEW saved, NEW more, NEW ds,
         DocumentsHold(f, row, saved, ds), saved \subseteq more,
         next.status = "running" => row.status = "running",
         next.canceled = row.canceled
           \/ (row.status = "running" /\ next.status = "failed"),
         next.frozen = row.frozen \/ next.frozen # NoSources
  PROVE  DocumentsHold(f, next, more, ds)
<1>1. SealHolds(f.manifest, more)
  BY SealStays DEF DocumentsHold
<1>2. f.manifest.kind = "sealed" =>
        /\ next.status = "running" => f.manifest.outcome = "completed"
        /\ f.manifest.outcome = OutcomeOf(next) => Kept(f.manifest.seals, ds)
  BY DEF DocumentsHold, OutcomeOf
<1>3. UNION saved \subseteq UNION more
  OBVIOUS
<1>4. Kept(UNION saved, ds) => Kept(UNION more, ds)
  BY <1>3, KeptStays
<1>5. next.frozen = NoSources =>
       \/ f.manifest.kind # "none" /\ f.findings # NoFindings /\ Kept(f.findings, ds)
       \/ Kept(UNION more, ds)
  BY <1>4 DEF DocumentsHold
<1> QED
  BY <1>1, <1>2, <1>5 DEF DocumentsHold

LEMMA PubStarts == ResultsInit => PubInv
<1> SUFFICES ASSUME ResultsInit PROVE PubInv
  OBVIOUS
<1>1. command \notin WriteCommand
  BY DEF ResultsInit, NoCommand, WriteCommand
<1>2. file.manifest.kind = "none" /\ file.findings = NoFindings
  BY DEF ResultsInit, NoManifest
<1>3. scan.frozen = NoSources /\ scan.status = "running" /\ drafts = {}
  BY DEF ResultsInit
<1>4. DocumentsHold(file, scan, checkpoints, drafts)
  BY <1>2, <1>3 DEF DocumentsHold, SealHolds, Kept
<1> QED
  BY <1>1, <1>2, <1>3, <1>4 DEF PubInv, RecordHolds

\* A step that lets go of the lock, or takes it to stop the scan, and changes
\* no document.
LEMMA LetsGo ==
  ASSUME ResultsInv, PubInv, command' \notin WriteCommand,
         UNCHANGED <<file, drafts>>, checkpoints \subseteq checkpoints',
         scan'.status = "running" => scan.status = "running",
         scan'.canceled = scan.canceled
           \/ (scan.status = "running" /\ scan'.status = "failed"),
         scan'.frozen = scan.frozen, scan'.mode = scan.mode,
         scan'.status = "failed" /\ scan'.digest # NoDigest =>
           /\ scan.status = "failed" /\ scan'.digest = scan.digest
           /\ scan'.canceled = scan.canceled /\ rows' = rows
  PROVE  PubInv'
<1>1. DocumentsHold(file, scan, checkpoints, drafts)'
  BY DocumentsStay DEF PubInv
<1>2. RecordHolds'
  BY SealStays DEF PubInv, RecordHolds, OutcomeOf
<1> QED
  BY <1>1, <1>2 DEF PubInv

-----------------------------------------------------------------------------
(* Drafts and completions                                                  *)

LEMMA SavesPublish ==
  ASSUME ResultsInv, PubInv, SaveStep, UNCHANGED handoffVars PROVE PubInv'
<1> USE DEF ResultsInv, PubInv
<1>1. ASSUME NEW findings \in Source, NEW complete \in BOOLEAN,
             AgentWrites(findings, complete)
      PROVE  PubInv'
  <2>1. Draft(complete).kind = "draft"
    BY DEF Draft, NoManifest
  <2>2. /\ file'.findings = findings /\ file'.manifest = Draft(complete)
        /\ drafts' = {findings}
    BY <1>1 DEF AgentWrites
  <2>3. Kept(findings, drafts')
    BY <2>2 DEF Kept
  <2>4. findings # NoFindings
    BY NullAssumption
  <2>5. DocumentsHold(file, scan, checkpoints, drafts)'
    BY <2>1, <2>2, <2>3, <2>4 DEF DocumentsHold, SealHolds
  <2>6. command' \notin WriteCommand
    BY <1>1, Holder DEF AgentWrites
  <2>7. scan.frozen = NoSources /\ scan.status = "running" /\ UNCHANGED scan
    BY <1>1 DEF AgentWrites, ResultsTypeOK
  <2>8. scan.mode = "deep" => findings \in checkpoints'
    BY <1>1 DEF AgentWrites
  <2> QED
    BY <2>2, <2>5, <2>6, <2>7, <2>8 DEF RecordHolds
<1>2. ASSUME NEW source \in Source, WorkerSaves(source) PROVE PubInv'
  <2>1. checkpoints \subseteq checkpoints' /\
        UNCHANGED <<scan, rows, file, command, drafts>>
    BY <1>2 DEF WorkerSaves
  <2>2. DocumentsHold(file, scan, checkpoints, drafts)'
    BY <2>1, DocumentsStay
  <2>3. RecordHolds'
    BY <2>1, SealStays DEF RecordHolds
  <2>4. ASSUME command \in WriteCommand PROVE WriterFits'
    <3>1. SealHolds(command.manifest, checkpoints)'
      BY <2>1, <2>4, SealStays DEF WriterFits
    <3>2. SavingFits'
      BY <2>1, <2>4 DEF WriterFits, SavingFits
    <3>3. PublishingFits'
      BY <2>1, <2>4, DocumentsStay DEF WriterFits, PublishingFits
    <3> QED
      BY <2>1, <2>4, <3>1, <3>2, <3>3 DEF WriterFits
  <2> QED
    BY <2>1, <2>2, <2>3, <2>4
<1>3. ASSUME NEW t \in Speaker, NEW c \in Source, NEW kept \in Source,
             NEW complete \in BOOLEAN, WriteScanDraft(t, c, kept, complete)
      PROVE  PubInv'
  <2>1. Draft(complete).kind = "draft"
    BY DEF Draft, NoManifest
  <2>2. /\ checkpoints' = checkpoints \cup {c}
        /\ UNCHANGED <<scan, rows, file, drafts>>
        /\ scan.mode # "deep" /\ scan.status = "running"
        /\ command'.op = "draft" /\ command'.step = "findings"
        /\ command'.manifest = Draft(complete)
        /\ command'.findings = c \cup kept
    BY <1>3 DEF WriteScanDraft, Writing
  <2>3. DocumentsHold(file, scan, checkpoints, drafts)'
    BY <2>2, DocumentsStay
  <2>4. file.manifest.kind = "none" => command'.findings = c
    BY <1>3, <2>2 DEF WriteScanDraft, ParentFindings, Present
  <2>5. WriterFits'
    BY <2>1, <2>2, <2>4 DEF WriterFits, SealHolds, SavingFits, PublishingFits,
       Saving, Completing
  <2>6. RecordHolds'
    BY <2>2 DEF RecordHolds
  <2> QED
    BY <2>2, <2>3, <2>5, <2>6
<1> QED
  BY <1>1, <1>2, <1>3 DEF SaveStep

LEMMA CompletionsPublish ==
  ASSUME ResultsInv, PubInv, CompleteStep, UNCHANGED handoffVars PROVE PubInv'
<1> USE DEF ResultsInv, PubInv
<1>1. ASSUME NEW t \in Speaker, NEW op \in Completing, CompleteScan(t, op)
      PROVE  PubInv'
  <2>1. /\ scan.status = "running" /\ Present
        /\ UNCHANGED <<scan, rows, file, faults, drafts>>
        /\ Sealed => SealIsIntact
    BY <1>1 DEF CompleteScan
  <2>2. file.findings \in Source
    BY <2>1 DEF Present, ResultsTypeOK, Findings, Source
  <2>3. checkpoints \subseteq checkpoints'
    BY <1>1 DEF CompleteScan, SealForCompletion
  <2>4. /\ command'.op = op /\ command'.step # "manifest"
        /\ command'.manifest.outcome = "completed"
        /\ SealHolds(command.manifest, checkpoints)'
    <3>1. CASE Sealed
      <4>1. /\ command'.op = op /\ command'.step = "commit"
            /\ command'.manifest = file.manifest
            /\ UNCHANGED checkpoints
        BY <1>1, <3>1 DEF CompleteScan, SealForCompletion, Writing
      <4> QED
        BY <2>1, <3>1, <4>1 DEF DocumentsHold, Sealed
    <3>2. CASE ~Sealed /\ scan.mode = "deep"
      <4> DEFINE m == SealOf("completed", NoSources, file.findings)
      <4>1. /\ command'.op = op /\ command'.step = "findings"
            /\ command'.manifest = m /\ UNCHANGED checkpoints
        BY <1>1, <3>2 DEF CompleteScan, SealForCompletion, Writing
      <4>2. m.outcome = "completed" /\ m.seals = file.findings /\ m.sources = NoSources
        BY DEF SealOf
      <4>3. file.findings \in checkpoints
        BY <2>1, <3>2 DEF Present
      <4> HIDE DEF m
      <4> QED
        BY <4>1, <4>2, <4>3 DEF SealHolds
    <3>3. CASE ~Sealed /\ scan.mode # "deep"
      <4> DEFINE s == checkpoints \cup {file.findings}
                 m == SealOf("completed", s, file.findings)
      <4>1. /\ command'.op = op /\ command'.step = "findings"
            /\ command'.manifest = m
        BY <1>1, <3>3 DEF CompleteScan, SealForCompletion, Writing
      <4>2. m.outcome = "completed" /\ m.seals = file.findings /\ m.sources = s
        BY DEF SealOf
      <4>3. s \in SUBSET Source /\ file.findings \in s
        BY <2>2 DEF ResultsTypeOK
      <4>4. s # NoSources
        BY <4>3, NullAssumption
      <4> HIDE DEF m, s
      <4> QED
        BY <4>1, <4>2, <4>3, <4>4 DEF SealHolds
    <3> QED
      BY <3>1, <3>2, <3>3
  <2>5. WriterFits'
    BY <2>4 DEF WriterFits, SavingFits, PublishingFits, Saving, Completing
  <2>6. DocumentsHold(file, scan, checkpoints, drafts)'
    BY <2>1, <2>3, DocumentsStay
  <2>7. RecordHolds'
    BY <2>1 DEF RecordHolds
  <2> QED
    BY <2>1, <2>3, <2>5, <2>6, <2>7
<1>2. CASE CommitCompletion
  <2>1. command \in WriteCommand /\ command.op = "complete"
    BY <1>2, Holder DEF CommitCompletion, At
  <2>2. scan.status = "running"
    BY <2>1 DEF CommandFits, Saving
  <2>3. command' \notin WriteCommand
    BY <1>2, Holder DEF CommitCompletion
  <2>4. scan' = scan \/ scan' = [scan EXCEPT !.status = "complete",
                                             !.digest = command.manifest]
    BY <1>2 DEF CommitCompletion
  <2>5. /\ scan'.status \in {"running", "complete"}
        /\ scan'.canceled = scan.canceled /\ scan'.frozen = scan.frozen
        /\ scan'.mode = scan.mode
    <3>1. CASE scan' = scan
      BY <2>2, <3>1
    <3>2. CASE scan' = [scan EXCEPT !.status = "complete",
                                    !.digest = command.manifest]
      <4>1. scan \in [mode: Mode, status: {"running", "complete", "failed"},
                      canceled: BOOLEAN, digest: Manifest \cup {NoDigest},
                      frozen: Sources, followUp: BOOLEAN]
        BY DEF ResultsInv, ResultsTypeOK
      <4> QED
        BY ONLY <3>2, <4>1
    <3> QED
      BY <2>4, <3>1, <3>2
  <2> QED
    BY <1>2, <2>2, <2>3, <2>5, LetsGo DEF CommitCompletion
<1>3. CASE EndPreparation
  BY <1>3, Holder, LetsGo DEF EndPreparation
<1> QED
  BY <1>1, <1>2, <1>3 DEF CompleteStep, Completing

LEMMA StopsPublish ==
  ASSUME ResultsInv, PubInv, StopStep, UNCHANGED handoffVars PROVE PubInv'
<1>1. PICK op \in {"fail", "cancel"} : StopScan(op)
  BY DEF StopStep, FailScan, CompletionFails, CancelScan
<1>2. scan.status = "running"
  BY DEF StopStep, FailScan, CompletionFails, CancelScan
<1>3. command' \notin WriteCommand
  BY <1>1 DEF StopScan, Stopping, WriteCommand
<1>4. /\ scan'.status = "failed" /\ scan'.frozen = scan.frozen
      /\ scan'.mode = scan.mode /\ scan'.digest = NoDigest
  BY <1>1, <1>2 DEF StopScan, ResultsInv, ResultsTypeOK
<1> QED
  BY <1>1, <1>2, <1>3, <1>4, LetsGo DEF StopScan

-----------------------------------------------------------------------------
(* The publication of a stopped scan                                       *)

LEMMA RecordPublishes ==
  ASSUME ResultsInv, PubInv, scan.status = "failed",
         NEW findings, NEW manifest, RecordPublication(findings, manifest),
         UNCHANGED <<file, checkpoints, faults, drafts>>,
         manifest.kind = "sealed", manifest.outcome = OutcomeOf(scan),
         manifest.seals = findings, SealHolds(manifest, checkpoints),
         Kept(findings, drafts)
  PROVE  PubInv'
<1>1. /\ scan'.status = "failed" /\ scan'.canceled = scan.canceled
      /\ scan'.frozen = manifest.sources /\ scan'.digest = manifest
      /\ rows' = findings /\ command' = NoCommand
  BY DEF RecordPublication, ResultsInv, ResultsTypeOK
<1>2. manifest.sources # NoSources /\ findings \subseteq UNION manifest.sources
  BY DEF SealHolds, OutcomeOf
<1>3. Kept(UNION manifest.sources, drafts)
  BY <1>2, KeptStays
<1>4. DocumentsHold(file, scan, checkpoints, drafts)'
  BY <1>1, <1>2, DocumentsStay DEF PubInv
<1>5. RecordHolds'
  BY <1>1, <1>2 DEF RecordHolds, OutcomeOf
<1> QED
  BY <1>1, <1>3, <1>4, <1>5, Holder DEF PubInv

\* What the sources of a publication must hold before they are joined.
Enough(given, withParent) ==
  /\ given = NoSources => scan.frozen = NoSources
  /\ given # NoSources =>
       Kept(UNION given, drafts)
         \/ (withParent /\ Present /\ Kept(file.findings, drafts))
  /\ scan.digest # NoDigest => given # NoSources /\ rows \subseteq UNION given

LEMMA MergePublishes ==
  ASSUME ResultsInv, PubInv, scan.status = "failed", ~SealIsBroken,
         NEW op \in {"fail", "cancel", "preserve", "recover"},
         NEW recovery \in Sources, NEW withParent,
         Merge(op, recovery, withParent),
         Enough(FrozenSources(recovery), withParent),
         UNCHANGED <<scan, rows, file, faults, drafts>>
  PROVE  PubInv'
<1> DEFINE given == FrozenSources(recovery)
           useParent == UseParent(given, withParent)
           keepParent == useParent /\ (~Sealed \/ withParent)
           saved == IF keepParent THEN checkpoints \cup {file.findings}
                    ELSE checkpoints
           recorded == IF useParent /\ file.manifest.sources # NoSources
                       THEN file.manifest.sources ELSE {}
           used == recorded \cup
                   (IF given = NoSources THEN saved
                    ELSE IF keepParent THEN given \cup {file.findings} ELSE given)
           parent == IF useParent THEN file.findings ELSE {}
           union == parent \cup UNION used
           seal == SealOf(Outcome, used, union)
<1>t. ResultsTypeOK /\ DocumentsHold(file, scan, checkpoints, drafts)
  BY DEF ResultsInv, PubInv
<1>1. used \subseteq Source
  <2>1. file.manifest.sources \in Sources
    BY <1>t DEF ResultsTypeOK, Manifest
  <2>2. given \in Sources
    BY <1>t, <2>1 DEF FrozenSources, ResultsTypeOK, Sources
  <2>3. useParent => file.findings \in Source
    BY <1>t DEF UseParent, Present, ResultsTypeOK, Findings, Source
  <2>4. saved \subseteq Source /\ recorded \subseteq Source
    BY <1>t, <2>1, <2>3 DEF ResultsTypeOK, Sources
  <2> HIDE DEF given, useParent, saved, recorded
  <2> QED
    BY <2>2, <2>3, <2>4 DEF Sources
<1>2. used # NoSources
  <2> HIDE DEF used
  <2> QED
    BY <1>1, NullAssumption
<1>3. checkpoints \subseteq saved
  OBVIOUS
<1>4. given = NoSources => saved \subseteq used
  OBVIOUS
<1>5. given # NoSources => given \subseteq used
  OBVIOUS
<1>6. keepParent => file.findings \in used
  <2> HIDE DEF given, useParent, recorded
  <2> QED
    OBVIOUS
<1>7. useParent /\ ~keepParent => file.findings \subseteq UNION used
  <2> SUFFICES ASSUME useParent, ~keepParent
               PROVE  file.findings \subseteq UNION used
    OBVIOUS
  <2>1. Sealed /\ given = NoSources
    BY DEF UseParent
  <2>2. file.findings = file.manifest.seals
    BY <2>1 DEF SealIsBroken, SealIsIntact
  <2>3. SealHolds(file.manifest, checkpoints) /\ file.manifest.kind = "sealed"
    BY <1>t, <2>1 DEF DocumentsHold, Sealed
  <2>4. CASE file.manifest.sources = NoSources
    <3>1. file.findings \in used
      <4>1. file.findings \in checkpoints
        BY <2>2, <2>3, <2>4 DEF SealHolds
      <4> QED
        BY <4>1, <2>1, <1>3, <1>4
    <3> HIDE DEF used
    <3> QED
      BY <3>1
  <2>5. CASE file.manifest.sources # NoSources
    <3>1. file.findings \subseteq UNION file.manifest.sources
      BY <2>2, <2>3, <2>5 DEF SealHolds
    <3>2. file.manifest.sources \subseteq used
      BY <2>5
    <3> HIDE DEF used
    <3> QED
      BY <3>1, <3>2
  <2> QED
    BY <2>4, <2>5
<1>8. parent \subseteq UNION used
  <2> HIDE DEF useParent, keepParent, used
  <2> QED
    BY <1>6, <1>7
<1>9. SealHolds(seal, saved)
  <2> HIDE DEF used, parent, saved
  <2> QED
    BY <1>2, <1>8 DEF SealHolds, SealOf, Outcome
<1>10. UNION used \subseteq union /\ parent \subseteq union
  OBVIOUS
<1>11. Kept(union, drafts)
  <2>1. CASE given = NoSources
    <3>1. scan.frozen = NoSources
      BY <2>1 DEF Enough
    <3>2. CASE Present /\ Kept(file.findings, drafts)
      <4>1. file.findings \subseteq union
        BY <2>1, <3>2 DEF UseParent
      <4> HIDE DEF union
      <4> QED
        BY <3>2, <4>1, KeptStays
    <3>3. CASE Kept(UNION checkpoints, drafts)
      <4>1. checkpoints \subseteq used
        BY <1>3, <1>4, <2>1
      <4>2. UNION checkpoints \subseteq union
        <5> HIDE DEF used
        <5> QED
          BY <4>1
      <4> HIDE DEF union
      <4> QED
        BY <3>3, <4>2, KeptStays
    <3> QED
      BY <1>t, <3>1, <3>2, <3>3 DEF DocumentsHold, Present
  <2>2. CASE given # NoSources
    <3>1. CASE Kept(UNION given, drafts)
      <4>1. UNION given \subseteq union
        <5> HIDE DEF used, given
        <5> QED
          BY <1>5, <2>2
      <4> HIDE DEF union, given
      <4> QED
        BY <3>1, <4>1, KeptStays
    <3>2. CASE withParent /\ Present /\ Kept(file.findings, drafts)
      <4>1. file.findings \subseteq union
        BY <3>2 DEF UseParent
      <4> HIDE DEF union
      <4> QED
        BY <3>2, <4>1, KeptStays
    <3> QED
      BY <2>2, <3>1, <3>2 DEF Enough
  <2> QED
    BY <2>1, <2>2
<1>12. scan.digest # NoDigest => rows \subseteq union
  <2> SUFFICES ASSUME scan.digest # NoDigest PROVE rows \subseteq union
    OBVIOUS
  <2>1. given # NoSources /\ rows \subseteq UNION given
    BY DEF Enough
  <2> HIDE DEF used, given
  <2> QED
    BY <1>5, <2>1
<1>13. CASE ~useParent /\ used = {}
  <2>1. command' = NoCommand /\ UNCHANGED checkpoints
    BY <1>13 DEF Merge
  <2> QED
    BY <2>1, Holder, LetsGo
<1>14. CASE ~(~useParent /\ used = {})
  <2>1. /\ checkpoints' = saved
        /\ command' = [Writing(op, NoToken, union, seal, "record")
                         EXCEPT !.step = IF given = NoSources THEN "freeze" ELSE @]
    BY <1>14 DEF Merge
  <2>2. seal.kind = "sealed" /\ seal.seals = union /\ seal.outcome = Outcome
    BY DEF SealOf
  <2> HIDE DEF given, useParent, keepParent, saved, recorded, used, parent,
               union, seal
  <2>3. /\ command'.op = op /\ command'.manifest = seal
        /\ command'.findings = union
        /\ command'.before = file /\ command'.after = "record"
        /\ command'.step \in {"freeze", "findings"}
    BY <2>1 DEF Writing
  <2>4. DocumentsHold(file, scan, checkpoints, drafts)'
    BY <1>t, <1>3, <2>1, DocumentsStay
  <2>5. RecordHolds'
    BY <1>3, <2>1, SealStays DEF PubInv, RecordHolds
  <2>6. PublishingFits'
    BY <1>11, <1>12, <2>2, <2>3, <2>4 DEF PublishingFits, Outcome, OutcomeOf
  <2>7. WriterFits'
    BY <1>9, <2>1, <2>3, <2>6 DEF WriterFits, SavingFits, Completing
  <2> QED
    BY <2>4, <2>5, <2>7 DEF PubInv
<1> QED
  BY <1>13, <1>14

\* Every way through Publish, once the sources are enough.
LEMMA PublishPublishes ==
  ASSUME ResultsInv, PubInv, scan.status = "failed",
         NEW op \in {"fail", "cancel", "preserve", "recover"},
         NEW recovery \in Sources, NEW withParent,
         Publish(op, recovery, withParent),
         ~SealIsBroken /\ (Published => recovery # NoSources)
           => Enough(FrozenSources(recovery),
                     withParent \/ LegacyParent(recovery)),
         UNCHANGED <<file, faults, drafts>>
  PROVE  PubInv'
<1>1. CASE /\ command' = NoCommand
           /\ scan' = [scan EXCEPT !.followUp = @ \/ op \in {"fail", "cancel"}]
           /\ UNCHANGED <<rows, checkpoints>>
  <2>1. /\ scan'.status = scan.status /\ scan'.canceled = scan.canceled
        /\ scan'.frozen = scan.frozen /\ scan'.mode = scan.mode
        /\ scan'.digest = scan.digest
    BY <1>1 DEF ResultsInv, ResultsTypeOK
  <2> QED
    BY <1>1, <2>1, Holder, LetsGo
<1>2. CASE command' = NoCommand /\ UNCHANGED <<rows, scan, checkpoints>>
  BY <1>2, Holder, LetsGo
<1>3. CASE /\ ~SealIsBroken /\ Published
           /\ RecordPublication(file.findings, file.manifest)
           /\ UNCHANGED checkpoints
  <2>1. /\ file.manifest.kind = "sealed" /\ file.manifest.outcome = OutcomeOf(scan)
        /\ file.manifest.seals = file.findings
    BY <1>3 DEF Published, Sealed, SealIsBroken, SealIsIntact, Outcome, OutcomeOf
  <2>2. SealHolds(file.manifest, checkpoints) /\ Kept(file.findings, drafts)
    BY <2>1 DEF PubInv, DocumentsHold
  <2> QED
    BY <1>3, <2>1, <2>2, RecordPublishes
<1>4. CASE /\ ~SealIsBroken /\ (Published => recovery # NoSources)
           /\ Merge(op, recovery, withParent \/ LegacyParent(recovery))
           /\ UNCHANGED <<rows, scan>>
  BY <1>4, MergePublishes
<1> QED
  BY <1>1, <1>2, <1>3, <1>4 DEF Publish

\* A publication that was recorded is the sealed one on disk.
LEMMA RecordedIsOnDisk ==
  ASSUME ResultsInv, PubInv, scan.status = "failed", ~SealIsBroken,
         scan.digest # NoDigest
  PROVE  /\ Published /\ rows = file.findings /\ Sealed
         /\ file.manifest.sources = scan.frozen /\ scan.frozen # NoSources
         /\ rows \subseteq UNION scan.frozen
<1>1. RecordHolds /\ scan.digest = file.manifest /\ SealIsIntact
  BY DEF SealIsBroken, PubInv
<1>2. file.manifest.outcome # "completed"
  BY <1>1 DEF RecordHolds, OutcomeOf
<1> QED
  BY <1>1, <1>2 DEF RecordHolds, SealIsIntact, Published, Outcome, OutcomeOf,
     Sealed, SealHolds

\* What was frozen is enough, and so is what was saved where nothing was.
LEMMA FrozenIsEnough ==
  ASSUME ResultsInv, PubInv, scan.status = "failed", ~SealIsBroken, ~Published,
         NEW withParent
  PROVE  Enough(FrozenSources(NoSources), withParent)
<1>1. FrozenSources(NoSources) = scan.frozen
  BY DEF FrozenSources
<1>2. scan.digest = NoDigest
  BY RecordedIsOnDisk
<1> QED
  BY <1>1, <1>2 DEF Enough, PubInv

\* A recovery starts from what was frozen or published, and all that was saved.
LEMMA RecoveryIsEnough ==
  ASSUME ResultsInv, PubInv, scan.status = "failed", ~SealIsBroken,
         Sealed /\ file.manifest.sources \notin {NoSources, {}}
           => scan.frozen \in {NoSources, file.manifest.sources}
  PROVE  /\ RecoverySources \in Sources /\ RecoverySources # NoSources
         /\ Enough(FrozenSources(RecoverySources), RecoversParent)
<1>t. ResultsTypeOK /\ DocumentsHold(file, scan, checkpoints, drafts)
  BY DEF ResultsInv, PubInv
<1>1. file.manifest.sources \in Sources /\ scan.frozen \in Sources
  BY <1>t DEF ResultsTypeOK, Manifest
<1>2. KnownSources \subseteq Source
  BY <1>1 DEF KnownSources, Sources
<1>3. RecoverySources \in SUBSET Source
  BY <1>2, <1>t DEF RecoverySources, ResultsTypeOK
<1>4. RecoverySources # NoSources
  BY <1>3, NullAssumption
<1>5. FrozenSources(RecoverySources) = RecoverySources
  BY <1>4 DEF FrozenSources
<1>6. KnownSources \subseteq RecoverySources /\ checkpoints \subseteq RecoverySources
  BY DEF RecoverySources
<1>7. scan.frozen # NoSources => KnownSources = scan.frozen
  BY DEF KnownSources
<1>8. \/ Kept(UNION RecoverySources, drafts)
      \/ RecoversParent /\ Present /\ Kept(file.findings, drafts)
  <2>1. CASE scan.frozen # NoSources
    <3>1. Kept(UNION KnownSources, drafts)
      BY <1>7, <2>1 DEF PubInv
    <3>2. UNION KnownSources \subseteq UNION RecoverySources
      BY <1>6
    <3> QED
      BY <3>1, <3>2, KeptStays
  <2>2. CASE scan.frozen = NoSources /\ Kept(UNION checkpoints, drafts)
    <3>1. UNION checkpoints \subseteq UNION RecoverySources
      BY <1>6
    <3> QED
      BY <2>2, <3>1, KeptStays
  <2>3. CASE scan.frozen = NoSources /\ Present /\ Kept(file.findings, drafts)
    <3>1. CASE Sealed /\ file.manifest.sources \notin {NoSources, {}}
      <4>1. file.findings = file.manifest.seals
        BY <3>1 DEF SealIsBroken, SealIsIntact
      <4>2. file.findings \subseteq UNION file.manifest.sources
        BY <1>t, <3>1, <4>1 DEF DocumentsHold, SealHolds, Sealed
      <4>3. file.manifest.sources \subseteq RecoverySources
        BY <1>6, <3>1 DEF KnownSources
      <4>4. file.findings \subseteq UNION RecoverySources
        BY <4>2, <4>3
      <4> QED
        BY <2>3, <4>4, KeptStays
    <3>2. CASE ~(Sealed /\ file.manifest.sources \notin {NoSources, {}})
      <4>1. scan.digest # NoDigest => Sealed
        BY RecordedIsOnDisk
      <4>2. RecoversParent
        BY <2>3, <3>2, <4>1 DEF RecoversParent
      <4> QED
        BY <2>3, <4>2
    <3> QED
      BY <3>1, <3>2
  <2> QED
    BY <1>t, <2>1, <2>2, <2>3 DEF DocumentsHold, Present
<1>9. scan.digest # NoDigest => rows \subseteq UNION RecoverySources
  <2> SUFFICES ASSUME scan.digest # NoDigest
               PROVE  rows \subseteq UNION RecoverySources
    OBVIOUS
  <2>1. rows \subseteq UNION scan.frozen /\ scan.frozen # NoSources
    BY RecordedIsOnDisk
  <2>2. scan.frozen \subseteq RecoverySources
    BY <1>6, <1>7, <2>1
  <2> QED
    BY <2>1, <2>2
<1> QED
  BY <1>3, <1>4, <1>5, <1>8, <1>9 DEF Enough, Sources

LEMMA PublicationsPublish ==
  ASSUME ResultsInv, PubInv, PublishStep, UNCHANGED handoffVars PROVE PubInv'
<1>s. NoSources \in Sources
  BY DEF Sources
<1>1. CASE PublishStopped
  <2>1. command \in StopCommand /\ scan.status = "failed"
    BY <1>1, Holder DEF PublishStopped, ResultsInv
  <2>2. command.op \in {"fail", "cancel", "preserve", "recover"}
    BY <2>1 DEF StopCommand
  <2> QED
    BY <1>1, <1>s, <2>1, <2>2, PublishPublishes, FrozenIsEnough DEF PublishStopped
<1>2. ASSUME NEW t \in Speaker, NEW u \in Thread \cup {NoThread},
             PreserveScanResults(t, u)
      PROVE  PubInv'
  BY <1>2, <1>s, PublishPublishes, FrozenIsEnough DEF PreserveScanResults
<1>3. CASE RecoverScanResults
  <2>1. CASE SealIsBroken
    <3>1. /\ command' = NoCommand
          /\ scan' = [scan EXCEPT !.followUp = @ \/ "recover" \in {"fail", "cancel"}]
          /\ UNCHANGED <<rows, checkpoints, file, faults, drafts>>
      BY <1>3, <2>1 DEF RecoverScanResults, Publish
    <3>2. /\ scan'.status = scan.status /\ scan'.canceled = scan.canceled
          /\ scan'.frozen = scan.frozen /\ scan'.mode = scan.mode
          /\ scan'.digest = scan.digest
      BY <3>1 DEF ResultsInv, ResultsTypeOK
    <3> QED
      BY <1>3, <3>1, <3>2, Holder, LetsGo DEF RecoverScanResults
  <2>2. CASE ~SealIsBroken
    <3>1. /\ RecoverySources \in Sources /\ RecoverySources # NoSources
          /\ Enough(FrozenSources(RecoverySources), RecoversParent)
      BY <1>3, <2>2, RecoveryIsEnough DEF RecoverScanResults
    <3>2. ~LegacyParent(RecoverySources)
      BY <3>1 DEF LegacyParent
    <3>3. Enough(FrozenSources(RecoverySources),
                 RecoversParent \/ LegacyParent(RecoverySources))
      BY <3>1, <3>2 DEF Enough
    <3> QED
      BY <1>3, <3>1, <3>3, PublishPublishes DEF RecoverScanResults
  <2> QED
    BY <2>1, <2>2
<1>4. CASE FreezeSources
  <2>1. command \in WriteCommand /\ CommandFits /\ command.step = "freeze"
    BY <1>4, Holder DEF FreezeSources, ResultsInv
  <2>2. scan.status = "failed" /\ command.op \notin Saving
    BY <2>1 DEF CommandFits
  <2>3. WriterFits /\ PublishingFits
    BY <2>1, <2>2 DEF PubInv, WriterFits
  <2>4. /\ command'.op = command.op /\ command'.manifest = command.manifest
        /\ command'.findings = command.findings
        /\ command'.before = command.before
        /\ command'.after = command.after
        /\ command'.step = "findings"
    BY <1>4, <2>1 DEF FreezeSources, WriteCommand
  <2>5. command.manifest.sources # NoSources /\
        command.findings \subseteq UNION command.manifest.sources
    BY <2>2, <2>3 DEF WriterFits, PublishingFits, SealHolds, OutcomeOf
  <2>6. Kept(UNION command.manifest.sources, drafts)
    BY <2>2, <2>3, <2>5, KeptStays DEF PublishingFits
  <2>7. /\ scan'.status = scan.status /\ scan'.canceled = scan.canceled
        /\ scan'.mode = scan.mode /\ scan'.digest = scan.digest
        /\ scan'.frozen = IF scan.frozen = NoSources
                          THEN command.manifest.sources ELSE scan.frozen
        /\ UNCHANGED <<rows, file, checkpoints, drafts>>
    BY <1>4 DEF FreezeSources, ResultsInv, ResultsTypeOK
  <2>8. DocumentsHold(file, scan, checkpoints, drafts)'
    BY <2>5, <2>7, DocumentsStay DEF PubInv
  <2>9. DocumentsHold(command.before, scan, checkpoints, drafts)'
    BY <2>2, <2>3, <2>4, <2>5, <2>7, DocumentsStay DEF PublishingFits
  <2>10. RecordHolds'
    BY <2>7 DEF PubInv, RecordHolds, OutcomeOf
  <2>11. PublishingFits'
    BY <2>2, <2>3, <2>4, <2>7, <2>9 DEF PublishingFits, OutcomeOf
  <2>12. WriterFits'
    BY <2>2, <2>3, <2>4, <2>7, <2>11 DEF WriterFits, SavingFits, Saving, Completing
  <2> QED
    BY <2>2, <2>6, <2>7, <2>8, <2>10, <2>12 DEF PubInv
<1>5. CASE Record
  <2>1. command \in WriteCommand /\ CommandFits /\ command.step = "record"
    BY <1>5, Holder DEF Record, ResultsInv
  <2>2. scan.status = "failed" /\ command.op \notin Saving
    BY <2>1 DEF CommandFits
  <2>3. WriterFits /\ PublishingFits
    BY <2>1, <2>2 DEF PubInv, WriterFits
  <2> QED
    BY <1>5, <2>2, <2>3, RecordPublishes DEF Record, WriterFits, PublishingFits
<1> QED
  BY <1>1, <1>2, <1>3, <1>4, <1>5 DEF PublishStep

-----------------------------------------------------------------------------
(* The writes                                                              *)

\* What is known of a command at the step it has come to.
LEMMA WritingNow ==
  ASSUME ResultsInv, PubInv, NEW s \in {"findings", "manifest", "record"}, At(s)
  PROVE  /\ command \in WriteCommand /\ command.step = s
         /\ CommandFits /\ WriterFits
         /\ command.findings # NoFindings
         /\ command.op \in Saving => scan.status = "running" /\ scan.frozen = NoSources
         /\ command.op \notin Saving => scan.status = "failed"
<1>1. command \in WriteCommand /\ command.step = s
  BY Holder
<1>2. command.findings \in Source
  BY <1>1 DEF WriteCommand
<1> QED
  BY <1>1, <1>2, NullAssumption
  DEF ResultsInv, PubInv, CommandFits, ResultsTypeOK

LEMMA RecordStays ==
  ASSUME PubInv, UNCHANGED <<scan, rows, checkpoints>> PROVE RecordHolds'
BY DEF PubInv, RecordHolds, SealHolds, OutcomeOf

LEMMA WritesPublish ==
  ASSUME ResultsInv, PubInv, WriteStep, UNCHANGED handoffVars PROVE PubInv'
<1>t. /\ DocumentsHold(file, scan, checkpoints, drafts)
      /\ scan \in [mode: Mode, status: {"running", "complete", "failed"},
               canceled: BOOLEAN, digest: Manifest \cup {NoDigest},
               frozen: Sources, followUp: BOOLEAN]
      /\ file \in [findings: Findings, manifest: Manifest]
  BY DEF PubInv, ResultsInv, ResultsTypeOK
<1>1. CASE WriteFindings
  <2>1. /\ command \in WriteCommand /\ command.step = "findings"
        /\ CommandFits /\ WriterFits /\ command.findings # NoFindings
        /\ command.op \in Saving => scan.status = "running" /\ scan.frozen = NoSources
        /\ command.op \notin Saving => scan.status = "failed"
    BY <1>1, WritingNow DEF WriteFindings
  <2>2. /\ command'.op = command.op /\ command'.manifest = command.manifest
        /\ command'.findings = command.findings
        /\ command'.before = command.before /\ command'.after = command.after
        /\ command'.step = "manifest"
    BY <1>1, <2>1 DEF WriteFindings, WriteCommand
  <2>3. /\ file'.findings = command.findings /\ file'.manifest = file.manifest
        /\ UNCHANGED <<scan, rows, checkpoints>>
        /\ command.op = "draft" => command.findings \in drafts'
        /\ command.op # "draft" => UNCHANGED drafts
    BY <1>1, <1>t DEF WriteFindings
  <2>4. DocumentsHold(file, scan, checkpoints, drafts)'
    <3>1. CASE command.op = "draft"
      <4>1. scan.status = "running"
        BY <2>1, <3>1 DEF Saving
      <4>2. file.manifest.kind = "sealed" => file.manifest.outcome = "completed"
        BY <1>t, <4>1 DEF DocumentsHold
      <4>3. Kept(command.findings, drafts')
        BY <2>3, <3>1 DEF Kept
      <4>4. file.manifest.kind = "none" => Kept(UNION checkpoints, drafts')
        <5>1. file.manifest.kind = "none" => command.findings \subseteq UNION checkpoints
          BY <2>1, <3>1 DEF WriterFits, SavingFits
        <5> QED
          BY <4>3, <5>1, KeptStays
      <4> QED
        BY <1>t, <2>1, <2>3, <4>2, <4>3, <4>4 DEF DocumentsHold, OutcomeOf
    <3>2. CASE command.op \in Completing
      <4>1. file'.findings = file.findings /\ UNCHANGED drafts
        BY <2>1, <2>3, <3>2 DEF CommandFits, Completing
      <4> QED
        BY <1>t, <2>3, <4>1 DEF DocumentsHold
    <3>3. CASE command.op \notin Saving
      <4>1. Kept(command.findings, drafts) /\ UNCHANGED drafts
        BY <2>1, <2>3, <3>3 DEF WriterFits, PublishingFits, Saving
      <4> QED
        BY <1>t, <2>1, <2>3, <4>1 DEF DocumentsHold
    <3> QED
      BY <3>1, <3>2, <3>3 DEF Saving, Completing
  <2>5. SavingFits'
    BY <2>1, <2>2, <2>3 DEF WriterFits, SavingFits
  <2>6. PublishingFits'
    BY <2>1, <2>2, <2>3 DEF WriterFits, PublishingFits, Saving
  <2>7. WriterFits'
    BY <2>1, <2>2, <2>3, <2>5, <2>6 DEF WriterFits
  <2>8. scan.mode = "deep" /\ scan.status = "running" =>
          file'.findings = file.findings
    BY <2>1, <2>3 DEF WriterFits, SavingFits, CommandFits, Saving, Completing
  <2>9. scan.frozen # NoSources => Kept(UNION scan.frozen, drafts')
    BY <2>1, <2>3 DEF PubInv, Saving, Kept
  <2> QED
    BY <2>3, <2>4, <2>7, <2>8, <2>9, RecordStays DEF PubInv
<1>2. CASE WriteManifest
  <2>1. /\ command \in WriteCommand /\ command.step = "manifest"
        /\ CommandFits /\ WriterFits /\ command.findings # NoFindings
        /\ command.op \in Saving => scan.status = "running" /\ scan.frozen = NoSources
        /\ command.op \notin Saving => scan.status = "failed"
    BY <1>2, WritingNow DEF WriteManifest
  <2>2. /\ file'.findings = file.findings /\ file.findings = command.findings
        /\ file'.manifest = command.manifest
        /\ UNCHANGED <<scan, rows, checkpoints>>
        /\ command.op = "draft" => drafts' = {command.findings}
        /\ command.op # "draft" => UNCHANGED drafts
    BY <1>2, <1>t, <2>1 DEF WriteManifest, WriterFits
  <2>3. SealHolds(command.manifest, checkpoints)
    BY <2>1 DEF WriterFits
  <2>4. DocumentsHold(file, scan, checkpoints, drafts)'
    <3>1. CASE command.op = "draft"
      <4>1. command.manifest.kind = "draft" /\ Kept(command.findings, drafts')
        BY <2>1, <2>2, <3>1 DEF WriterFits, SavingFits, Kept
      <4> QED
        BY <2>1, <2>2, <2>3, <4>1 DEF DocumentsHold
    <3>2. CASE command.op \in Completing
      <4>1. /\ command.manifest.kind = "sealed"
            /\ command.manifest.outcome = "completed" /\ UNCHANGED drafts
        BY <2>1, <2>2, <3>2 DEF WriterFits, SavingFits, CommandFits, Completing
      <4> QED
        BY <1>t, <2>2, <2>3, <4>1 DEF DocumentsHold, OutcomeOf
    <3>3. CASE command.op \notin Saving
      <4>1. /\ command.manifest.kind = "sealed"
            /\ command.manifest.seals = command.findings
            /\ Kept(command.findings, drafts) /\ UNCHANGED drafts
        BY <2>1, <2>2, <3>3 DEF WriterFits, PublishingFits, Saving
      <4> QED
        BY <2>1, <2>2, <2>3, <3>3, <4>1 DEF DocumentsHold
    <3> QED
      BY <3>1, <3>2, <3>3 DEF Saving, Completing
  <2>5. scan.mode = "deep" /\ scan.status = "running" /\ file'.findings # NoFindings
          => file'.findings \in checkpoints
    BY <2>2 DEF PubInv
  <2>6. scan.frozen # NoSources => Kept(UNION scan.frozen, drafts')
    BY <2>1, <2>2 DEF PubInv, Saving, Kept
  <2>7. CASE command' = NoCommand
    BY <2>2, <2>4, <2>5, <2>6, <2>7, RecordStays, Holder DEF PubInv
  <2>8. CASE command' # NoCommand
    <3>1. /\ command'.op = command.op /\ command'.manifest = command.manifest
          /\ command'.findings = command.findings
          /\ command'.before = command.before
          /\ command'.after = command.after
          /\ command'.step = command.after /\ command.after # "manifest"
      BY <1>2, <2>1, <2>8 DEF WriteManifest, WriteCommand
    <3>2. SavingFits'
      BY <2>1, <2>2, <3>1 DEF WriterFits, SavingFits
    <3>3. PublishingFits'
      BY <2>1, <2>2, <3>1 DEF WriterFits, PublishingFits, Saving
    <3>4. WriterFits'
      BY <2>2, <2>3, <3>1, <3>2, <3>3 DEF WriterFits
    <3> QED
      BY <2>2, <2>4, <2>5, <2>6, <3>4, RecordStays DEF PubInv
  <2> QED
    BY <2>7, <2>8
<1>3. CASE Killed
  BY <1>3, Holder, LetsGo DEF Killed
<1>4. CASE PublicationFails
  <2>1. command \in WriteCommand /\ command.op \notin Saving
    BY <1>4 DEF PublicationFails, ResultsInv, ResultsTypeOK, NoCommand,
       StopCommand, Saving
  <2>2. scan.status = "failed" /\ WriterFits
    BY <2>1 DEF ResultsInv, CommandFits, PubInv
  <2>3. DocumentsHold(command.before, scan, checkpoints, drafts)
    BY <2>1, <2>2 DEF WriterFits, PublishingFits
  <2>4. /\ scan'.status = scan.status /\ scan'.canceled = scan.canceled
        /\ scan'.frozen = scan.frozen /\ scan'.mode = scan.mode
        /\ scan'.digest = scan.digest /\ file' = command.before
        /\ command' = NoCommand /\ UNCHANGED <<rows, checkpoints, drafts>>
    BY <1>4, <1>t DEF PublicationFails
  <2>5. DocumentsHold(file, scan, checkpoints, drafts)'
    BY <2>3, <2>4, DocumentsStay
  <2>6. RecordHolds'
    BY <2>4 DEF PubInv, RecordHolds, OutcomeOf
  <2> QED
    BY <2>2, <2>4, <2>5, <2>6, Holder DEF PubInv
<1> QED
  BY <1>1, <1>2, <1>3, <1>4 DEF WriteStep

-----------------------------------------------------------------------------
LEMMA PublicationStep ==
  ResultsInv /\ PubInv /\ [ResultsNext]_vars => (ResultsInv /\ PubInv)'
<1> SUFFICES ASSUME ResultsInv, PubInv, [ResultsNext]_vars
             PROVE  ResultsInv' /\ PubInv'
  OBVIOUS
<1>1. ResultsInv'
  BY ResultsAreKept
<1>2. CASE UNCHANGED resultVars
  <2>1. UNCHANGED <<scan, rows, file, checkpoints, command, drafts>>
    BY <1>2 DEF resultVars
  <2>2. SealHolds(command.manifest, checkpoints)' = SealHolds(command.manifest, checkpoints)
    BY <2>1 DEF SealHolds
  <2>3. DocumentsHold(file, scan, checkpoints, drafts)'
        /\ (DocumentsHold(command.before, scan, checkpoints, drafts)
              => DocumentsHold(command.before, scan, checkpoints, drafts)')
    BY <2>1, DocumentsStay DEF PubInv
  <2>4. ASSUME WriterFits PROVE WriterFits'
    <3>1. SavingFits'
      BY <2>1, <2>4 DEF WriterFits, SavingFits
    <3>2. PublishingFits'
      BY <2>1, <2>3, <2>4 DEF WriterFits, PublishingFits, OutcomeOf, Kept
    <3> QED
      BY <2>1, <2>2, <2>4, <3>1, <3>2 DEF WriterFits
  <2>5. (scan.frozen # NoSources => Kept(UNION scan.frozen, drafts))'
    BY <2>1 DEF PubInv, Kept
  <2>6. RecordHolds'
    BY <2>1, RecordStays
  <2> QED
    BY <1>1, <2>1, <2>3, <2>4, <2>5, <2>6 DEF PubInv
<1>3. CASE /\ SaveStep \/ CompleteStep \/ StopStep \/ PublishStep \/ WriteStep
           /\ UNCHANGED handoffVars
  BY <1>1, <1>3, SavesPublish, CompletionsPublish, StopsPublish, PublicationsPublish,
     WritesPublish
<1> QED
  BY <1>1, <1>2, <1>3 DEF ResultsNext, vars, resultVars

\* In every state a scan can be in, the documents on disk, the ones a failed
\* publication would put back and the row name sources that hold the last draft
\* and all that was published (preserve_scan_results_locked).
THEOREM PublicationInvariance == ResultsSpec => [](ResultsInv /\ PubInv)
<1>1. ResultsInit => ResultsInv /\ PubInv
  BY ResultsStart, PubStarts
<1>2. ResultsInv /\ PubInv /\ [ResultsNext]_vars => (ResultsInv /\ PubInv)'
  BY PublicationStep
<1> QED
  BY <1>1, <1>2, PTL DEF ResultsSpec

\* What a stopped scan published holds every source it froze and the last draft
\* that was saved, whatever was killed or failed on the way.
THEOREM StoppedKeepsTheDraft == ResultsSpec => []StoppedKeepsDraft
<1>1. ResultsInv /\ PubInv => StoppedKeepsDraft
  <2> SUFFICES ASSUME PubInv, scan.status = "failed", scan.digest # NoDigest
               PROVE  UNION scan.frozen \subseteq rows /\ Kept(rows, drafts)
    BY DEF StoppedKeepsDraft, Kept
  <2>1. UNION scan.frozen \subseteq rows
    BY DEF PubInv, RecordHolds, SealHolds, OutcomeOf
  <2>2. Kept(UNION scan.frozen, drafts)
    BY DEF PubInv, RecordHolds
  <2> QED
    BY <2>1, <2>2, KeptStays
<1> QED
  BY <1>1, PublicationInvariance, PTL

\* The rows of a recorded publication grow with whatever replaces them.
LEMMA RowsGrow ==
  ASSUME ResultsInv, PubInv, [ResultsNext]_vars, scan.digest # NoDigest
  PROVE  rows \subseteq rows'
<1>1. scan.status # "running"
  BY DEF ResultsInv, ResultsTypeOK
<1>2. ASSUME NEW op, NEW recovery, NEW withParent, scan.status = "failed",
             Publish(op, recovery, withParent)
      PROVE  rows \subseteq rows'
  <2>1. CASE UNCHANGED rows
    BY <2>1
  <2>2. CASE /\ ~SealIsBroken
             /\ RecordPublication(file.findings, file.manifest)
    BY <1>2, <2>2, RecordedIsOnDisk DEF RecordPublication
  <2> QED
    BY <1>2, <2>1, <2>2 DEF Publish
<1>3. CASE PublishStopped
  BY <1>2, <1>3, Holder DEF PublishStopped, ResultsInv
<1>4. ASSUME NEW t, NEW u, PreserveScanResults(t, u) PROVE rows \subseteq rows'
  BY <1>2, <1>4 DEF PreserveScanResults
<1>5. CASE RecoverScanResults
  BY <1>2, <1>5 DEF RecoverScanResults
<1>6. CASE Record
  BY <1>1, <1>6, WritingNow
  DEF Record, RecordPublication, WriterFits, PublishingFits
<1>7. CASE CommitCompletion
  BY <1>1, <1>7 DEF CommitCompletion
<1>8. CASE UNCHANGED rows
  BY <1>8
<1> QED
  BY <1>3, <1>4, <1>5, <1>6, <1>7, <1>8
  DEF ResultsNext, vars, resultVars, SaveStep, AgentWrites, WorkerSaves,
      WriteScanDraft, CompleteStep, CompleteScan, EndPreparation, StopStep,
      FailScan, CompletionFails, CancelScan, StopScan, PublishStep,
      FreezeSources, WriteStep, WriteFindings, WriteManifest, Killed,
      PublicationFails

\* A new publication of a stopped scan takes no finding away.
THEOREM PublicationGrows == ResultsSpec => PublicationOnlyGrows
<1>1. ResultsInv /\ PubInv /\ [ResultsNext]_vars =>
        [scan.digest # NoDigest => rows \subseteq rows']_vars
  BY RowsGrow
<1> QED
  BY <1>1, PublicationInvariance, PTL DEF ResultsSpec, PublicationOnlyGrows
=============================================================================
