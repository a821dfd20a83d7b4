----------------------- MODULE LedgerPublicationProofs -----------------------
(***************************************************************************)
(* The published ledger survives: proofs about LedgerPublication for any   *)
(* number of reducers, contents and adoptions, and any number of killed    *)
(* commands, provided that every reducer changes the ledger and that the   *)
(* commit of a reducer is killed at most once before its rows are stored.  *)
(***************************************************************************)
EXTENDS LedgerPublication, TLAPS

\* A command between two of its steps is a commit, an adoption or none.
LEMMA CommandKinds ==
  ASSUME TypeOK
  PROVE  /\ command.step \in CommitStep =>
              /\ command \in [step : CommitStep, of : Reducer,
                              mine : SUBSET Backup]
              /\ command.of \in Reducer
              /\ command.mine \in SUBSET Backup
         /\ command.step \notin CommitStep =>
              command \in [step : AdoptionStep \cup {"idle"}]
  BY DEF TypeOK, Command, CommitStep, AdoptionStep

\* Only one reducer is active, and it is the last one that was claimed.
LEMMA OneActive ==
  ASSUME TypeOK, ReducersInOrder, NEW q \in Active, NEW r \in Active
  PROVE  q = r
<1>1. q \in Reducer /\ r \in Reducer /\ q <= r /\ r <= q
  BY DEF ReducersInOrder, Active
<1> QED
  BY <1>1, PublicationAssumption

\* A committed ledger is older than what an active reducer publishes.
LEMMA CommittedIsOlder ==
  ASSUME TypeOK, ReducersInOrder, CommittedIsStored, committed # NoFile,
         NEW r \in Active
  PROVE  committed.at < r /\ committed.at \in Nat /\ r \in Nat \ {0}
<1>1. committed \in [says : Content, at : {0} \cup Reducer]
  BY DEF TypeOK, File, Time
<1>2. r \in Reducer /\ r \in Nat \ {0}
  BY PublicationAssumption DEF Active
<1>3. CASE committed.at = 0
  BY <1>2, <1>3
<1>4. CASE committed.at # 0
  <2>1. committed.at \in Reducer /\ status[committed.at] = "succeeded"
    BY <1>1, <1>4 DEF CommittedIsStored
  <2>2. committed.at <= r /\ committed.at # r
    BY <2>1 DEF ReducersInOrder, Active
  <2>3. committed.at \in Nat
    BY <2>1, PublicationAssumption
  <2> QED
    BY <2>2, <2>3, <1>2
<1> QED
  BY <1>3, <1>4

\* What a reducer publishes is a file, once it has staged its ledger.
LEMMA OwnIsFile ==
  ASSUME TypeOK, NEW r \in Reducer, staged[r] # NoFile
  PROVE  /\ Own(r) \in File
         /\ Own(r).says = staged[r]
         /\ Own(r).at = r
         /\ Own(r) # NoFile
  BY PublicationAssumption DEF TypeOK, Own, File, Time

\* The backup a rollback puts back.
LEMMA PutBackOf ==
  ASSUME NEW m
  PROVE  PutBack({m}) = m.file /\ PutBack({}) = ledger
  BY DEF PutBack

\* A backup gets a name that no other has.
LEMMA MovedAside ==
  ASSUME MoveAside
  PROVE  \E b \in [file : {ledger}, name : Name] :
           /\ \A c \in backups : c.name # b.name
           /\ backups' = backups \cup {b}
           /\ command' = [command EXCEPT !.step = "moved", !.mine = {b}]
<1> DEFINE n == CHOOSE n \in UnusedName : TRUE
           b == [file |-> ledger, name |-> n]
<1>1. n \in UnusedName
  BY DEF MoveAside
<1>2. b \in [file : {ledger}, name : Name] /\ \A c \in backups : c.name # b.name
  BY <1>1 DEF UnusedName
<1>3. backups' = backups \cup {b}
      /\ command' = [command EXCEPT !.step = "moved", !.mine = {b}]
  BY DEF MoveAside
<1> QED
  BY <1>2, <1>3

LEMMA CommandsAreDistinct ==
  /\ Idle.step = "idle" /\ Idle \in Command
  /\ [step |-> "repairing"].step = "repairing"
  /\ \A t \in AdoptionStep : [step |-> t] \in Command
  BY DEF Idle, Command, AdoptionStep

-----------------------------------------------------------------------------
(* Types.                                                                  *)

LEMMA ReducerStepTyped ==
  ASSUME TypeOK, ReducerStep
  PROVE  TypeOK'
<1>1. ASSUME NEW r \in Reducer, Claim(r) PROVE TypeOK'
  BY <1>1 DEF Claim, TypeOK
<1>2. ASSUME NEW r \in Reducer, GiveUp(r) PROVE TypeOK'
  BY <1>2 DEF GiveUp, TypeOK
<1>3. ASSUME NEW r \in Reducer, StartCommit(r) PROVE TypeOK'
  BY <1>3 DEF StartCommit, TypeOK, Command, CommitStep
<1>4. ASSUME NEW r \in Reducer, NEW c \in Content, Stage(r, c) PROVE TypeOK'
  BY <1>4 DEF Stage, TypeOK
<1> QED
  BY <1>1, <1>2, <1>3, <1>4 DEF ReducerStep

LEMMA CommitStepTyped ==
  ASSUME TypeOK, CommitIsOfActive, ReducersInOrder,
         MoveAside \/ Publish \/ CommitRows \/ DiscardBackup \/ Withdraw
  PROVE  TypeOK'
<1>1. CASE MoveAside
  <2>1. command \in [step : CommitStep, of : Reducer, mine : SUBSET Backup]
    BY <1>1, CommandKinds DEF MoveAside, Doing, CommitStep
  <2>2. PICK b \in [file : {ledger}, name : Name] :
          /\ backups' = backups \cup {b}
          /\ command' = [command EXCEPT !.step = "moved", !.mine = {b}]
    BY <1>1, MovedAside
  <2>3. b \in Backup
    BY <1>1 DEF TypeOK, MoveAside, Backup
  <2>4. command' \in [step : CommitStep, of : Reducer, mine : SUBSET Backup]
    BY <2>1, <2>2, <2>3 DEF CommitStep
  <2> QED
    BY <1>1, <2>2, <2>3, <2>4 DEF TypeOK, MoveAside, Command
<1>2. CASE Publish
  <2>1. command \in [step : CommitStep, of : Reducer, mine : SUBSET Backup]
    BY <1>2, CommandKinds DEF Publish, Doing, CommitStep
  <2>2. command.of \in Reducer /\ staged[command.of] # NoFile
    BY <1>2, <2>1
    DEF Publish, Doing, CommitStep, CommitIsOfActive, ReducersInOrder
  <2>3. ledger' \in File
    BY <1>2, <2>2 DEF Publish, TypeOK, File, Time
  <2>4. command' \in [step : CommitStep, of : Reducer, mine : SUBSET Backup]
    BY <1>2, <2>1 DEF Publish, CommitStep
  <2> QED
    BY <1>2, <2>3, <2>4 DEF TypeOK, Publish, Command
<1>3. CASE CommitRows
  <2>1. command \in [step : CommitStep, of : Reducer, mine : SUBSET Backup]
    BY <1>3, CommandKinds DEF CommitRows, Doing, CommitStep
  <2>2. command' \in [step : CommitStep, of : Reducer, mine : SUBSET Backup]
    BY <1>3, <2>1 DEF CommitRows, CommitStep
  <2> QED
    BY <1>3, <2>1, <2>2 DEF TypeOK, CommitRows, Command
<1>4. CASE DiscardBackup
  BY <1>4, CommandsAreDistinct DEF DiscardBackup, TypeOK
<1>5. CASE Withdraw
  <2>1. command \in [step : CommitStep, of : Reducer, mine : SUBSET Backup]
    BY <1>5, CommandKinds DEF Withdraw, Doing, CommitStep
  <2>2. command' \in [step : CommitStep, of : Reducer, mine : SUBSET Backup]
    BY <1>5, <2>1 DEF Withdraw, CommitStep
  <2> QED
    BY <1>5, <2>2 DEF TypeOK, Withdraw, Command
<1> QED
  BY <1>1, <1>2, <1>3, <1>4, <1>5

LEMMA AdoptionTyped ==
  ASSUME TypeOK, Adopt \/ Repair \/ Sweep \/ Settle
  PROVE  TypeOK'
<1>1. CASE Adopt
  BY <1>1, CommandsAreDistinct DEF Adopt, TypeOK, AdoptionStep
<1>2. CASE Repair
  <2>1. command' \in Command
    BY <1>2, CommandsAreDistinct DEF Repair, AdoptionStep
  <2>2. ledger' \in File \cup {NoFile} /\ backups' \in SUBSET Backup
    BY <1>2 DEF Repair, Undo, TypeOK, Backup
  <2> QED
    BY <1>2, <2>1, <2>2 DEF Repair, TypeOK
<1>3. CASE Sweep
  BY <1>3 DEF Sweep, TypeOK
<1>4. CASE Settle
  BY <1>4, CommandsAreDistinct DEF Settle, TypeOK
<1> QED
  BY <1>1, <1>2, <1>3, <1>4

LEMMA KillTyped ==
  ASSUME TypeOK, Kill
  PROVE  TypeOK'
<1>1. kills' \in [Reducer -> 0..KillsPerCommit]
  <2>1. CASE command.step \in AdoptionStep \cup {"stored"}
    BY <2>1 DEF Kill, TypeOK
  <2>2. CASE command.step \notin AdoptionStep \cup {"stored"}
    <3>1. command.of \in Reducer
      BY <2>2, CommandKinds DEF Kill, Free, Idle, AdoptionStep, CommitStep
    <3>2. /\ kills[command.of] < KillsPerCommit
          /\ kills' = [kills EXCEPT ![command.of] = @ + 1]
      BY <2>2 DEF Kill
    <3>3. kills[command.of] \in 0..KillsPerCommit
      BY <3>1 DEF TypeOK
    <3>4. kills[command.of] + 1 \in 0..KillsPerCommit
      BY <3>2, <3>3, PublicationAssumption
    <3> QED
      BY <3>1, <3>2, <3>4 DEF TypeOK
  <2> QED
    BY <2>1, <2>2
<1> QED
  BY <1>1, CommandsAreDistinct DEF Kill, TypeOK

-----------------------------------------------------------------------------
(* The steps of reducers.                                                  *)

\* What an active reducer proposes is a change also when it proposes nothing.
LEMMA NoFileSaysNothing ==
  ASSUME TypeOK, committed # NoFile
  PROVE  committed \in File /\ committed.says \in Content
         /\ committed.says # NoFile
  BY PublicationAssumption DEF TypeOK, File

LEMMA ClaimKeeps ==
  ASSUME IInv, NEW r \in Reducer, Claim(r)
  PROVE  IInv'
<1> USE DEF IInv
<1>1. /\ command.step \in {"idle", "stored"}
      /\ status[r] = "none"
      /\ Active = {}
      /\ status' = [status EXCEPT ![r] = "active"]
  BY DEF Claim, NoTransaction, Free, Idle, Doing
<1>2. Active' = {r}
  BY <1>1 DEF Active, TypeOK
<1>3. ReducersInOrder'
  <2>1. \A q \in Reducer : status'[q] # "none" => q <= r
    BY <1>1, PublicationAssumption DEF Claim, TypeOK
  <2> QED
    BY <1>1, <1>2, <2>1 DEF Claim, ReducersInOrder, TypeOK
<1>4. CommitIsOfActive'
  BY <1>1 DEF Claim, CommitIsOfActive, CommitStep
<1>5. CommittedIsStored'
  BY <1>1 DEF Claim, CommittedIsStored, TypeOK, File, Time
<1>6. ProposalsDiffer'
  BY <1>1, <1>2, NoFileSaysNothing DEF Claim, ProposalsDiffer, ReducersInOrder
<1>7. InPlace
  BY <1>1 DEF FilesFit, Interrupted
<1>8. InPlace'
  BY <1>7 DEF Claim, InPlace, LeftBehind, NothingNewer
<1>9. FilesFit'
  BY <1>1, <1>8 DEF Claim, FilesFit, Doing
<1> QED
  BY <1>3, <1>4, <1>5, <1>6, <1>9, ReducerStepTyped DEF ReducerStep

LEMMA GiveUpKeeps ==
  ASSUME IInv, NEW r \in Reducer, GiveUp(r)
  PROVE  IInv'
<1> USE DEF IInv
<1>1. /\ command.step \in {"idle", "stored"}
      /\ r \in Active /\ r \notin attempted /\ kills[r] = 0
      /\ status' = [status EXCEPT ![r] = "ended"]
  BY DEF GiveUp, NoTransaction, Free, Idle, Doing, ReducersInOrder
<1>2. Active' = {}
  BY <1>1, OneActive DEF Active, TypeOK
<1>3. ReducersInOrder'
  BY <1>1, <1>2 DEF GiveUp, ReducersInOrder, TypeOK, Active
<1>4. CommitIsOfActive'
  BY <1>1 DEF GiveUp, CommitIsOfActive, CommitStep
<1>5. CommittedIsStored'
  BY <1>1 DEF GiveUp, CommittedIsStored, TypeOK, File, Time, Active
<1>6. ProposalsDiffer'
  BY <1>2 DEF ProposalsDiffer
<1>7. InPlace
  BY <1>1, OneActive DEF FilesFit, Interrupted
<1>8. InPlace'
  BY <1>7 DEF GiveUp, InPlace, LeftBehind, NothingNewer
<1>9. FilesFit'
  BY <1>1, <1>8 DEF GiveUp, FilesFit, Doing
<1> QED
  BY <1>3, <1>4, <1>5, <1>6, <1>9, ReducerStepTyped DEF ReducerStep

LEMMA StartCommitKeeps ==
  ASSUME IInv, NEW r \in Reducer, StartCommit(r)
  PROVE  IInv'
<1> USE DEF IInv
<1>1. /\ command.step = "idle"
      /\ r \in Active
      /\ command' = [step |-> "started", of |-> r, mine |-> {}]
      /\ UNCHANGED <<status, staged, ledger, backups, kills, committed>>
  BY DEF StartCommit, Free, Idle
<1>2. ReducersInOrder'
  BY <1>1 DEF StartCommit, ReducersInOrder, Active
<1>3. CommitIsOfActive'
  BY <1>1 DEF StartCommit, CommitIsOfActive, CommitStep, Active
<1>4. CommittedIsStored' /\ ProposalsDiffer'
  BY <1>1 DEF CommittedIsStored, ProposalsDiffer, Active
<1>5. (InPlace \/ Interrupted)'
  BY <1>1 DEF FilesFit, InPlace, Interrupted, LeftBehind, NothingNewer,
              Displaced, KeptIn, Own, Active
<1>6. FilesFit'
  BY <1>1, <1>5 DEF FilesFit, Doing
<1> QED
  BY <1>2, <1>3, <1>4, <1>6, ReducerStepTyped DEF ReducerStep

LEMMA StageKeeps ==
  ASSUME IInv, Rewrites, NEW r \in Reducer, NEW c \in Content, Stage(r, c)
  PROVE  IInv'
<1> USE DEF IInv
<1>1. /\ r \in Active /\ staged[r] = NoFile
      /\ r \notin attempted /\ kills[r] = 0
      /\ staged' = [staged EXCEPT ![r] = c]
      /\ UNCHANGED <<status, attempted, ledger, backups, command, kills,
                     committed>>
      /\ ledger # NoFile => c # ledger.says
  BY DEF Stage, ReducersInOrder
<1>2. Active' = Active /\ Active = {r}
  BY <1>1, OneActive DEF Active
<1>3. ReducersInOrder'
  <2>1. status[r] = "active" /\ c # NoFile
    BY <1>1, PublicationAssumption DEF Active
  <2>2. \A q \in Reducer :
          /\ status'[q] = "none" => staged'[q] = NoFile
          /\ q \in attempted' => staged'[q] # NoFile
          /\ kills'[q] # 0 => q \in attempted'
    BY <1>1, <2>1 DEF ReducersInOrder, TypeOK
  <2> QED
    BY <1>1, <1>2, <2>2 DEF ReducersInOrder
<1>4. CommitIsOfActive'
  BY <1>1, <1>2 DEF CommitIsOfActive
<1>5. CommittedIsStored'
  BY <1>1 DEF CommittedIsStored, TypeOK, File, Time, Active
<1>6. command.step \notin {"started", "moved", "published", "withdrawn"}
  BY <1>1, <1>2 DEF CommitIsOfActive, CommitStep
<1>7. ~Interrupted
  BY <1>1, <1>2 DEF Interrupted
<1>8. ledger = committed
  BY <1>6, <1>7, CommandKinds
  DEF FilesFit, InPlace, Doing, AdoptionStep, CommitStep
<1>9. ProposalsDiffer'
  BY <1>1, <1>2, <1>8 DEF ProposalsDiffer, TypeOK
<1>10. FilesFit'
  BY <1>1, <1>6, <1>7 DEF FilesFit, Doing, InPlace, LeftBehind, NothingNewer
<1> QED
  BY <1>3, <1>4, <1>5, <1>9, <1>10, ReducerStepTyped DEF ReducerStep

-----------------------------------------------------------------------------
(* The steps of a commit.                                                  *)

\* A commit before its rows are stored, as IInv describes it.
LEMMA CommitUnderWay ==
  ASSUME IInv, command.step \in CommitStep \ {"stored"}
  PROVE  /\ command \in [step : CommitStep, of : Reducer, mine : SUBSET Backup]
         /\ command.of \in Reducer
         /\ command.of \in Active
         /\ command.of \in attempted
         /\ Active = {command.of}
         /\ staged[command.of] # NoFile
         /\ Own(command.of) \in File
         /\ Own(command.of).at = command.of
         /\ Own(command.of) # NoFile
<1>1. /\ command \in [step : CommitStep, of : Reducer, mine : SUBSET Backup]
      /\ command.of \in Reducer
      /\ command.of \in Active
      /\ command.of \in attempted
  BY CommandKinds DEF IInv, CommitIsOfActive
<1>2. Active = {command.of}
  BY <1>1, OneActive DEF IInv
<1>3. staged[command.of] # NoFile
  BY <1>1 DEF IInv, ReducersInOrder
<1> QED
  BY <1>1, <1>2, <1>3, OwnIsFile DEF IInv

\* Files that are put down in the same rows fit them in the same way.
LEMMA SameRowsKeep ==
  ASSUME IInv,
         UNCHANGED <<status, staged, attempted, kills, committed>>,
         command'.step \in CommitStep \ {"stored"} =>
           command.step \in CommitStep \ {"stored"} /\ command'.of = command.of
  PROVE  /\ ReducersInOrder'
         /\ CommitIsOfActive'
         /\ CommittedIsStored'
         /\ ProposalsDiffer'
<1> USE DEF IInv
<1>1. ReducersInOrder'
  BY DEF ReducersInOrder, Active
<1>2. CommitIsOfActive'
  BY DEF CommitIsOfActive, Active
<1>3. CommittedIsStored' /\ ProposalsDiffer'
  BY DEF CommittedIsStored, ProposalsDiffer, Active
<1> QED
  BY <1>1, <1>2, <1>3

\* The two ways in which a commit that moves files can be undone.
LEMMA UndoableKept ==
  ASSUME UNCHANGED <<status, staged, kills, committed, backups>>,
         command'.of = command.of, command'.mine = command.mine, Undoable
  PROVE  Undoable'
<1>1. CASE command.mine = {}
  BY <1>1 DEF Undoable, Displaced, KeptIn, NothingNewer
<1>2. CASE command.mine # {}
  <2>1. PICK m \in backups :
          /\ command.mine = {m}
          /\ \/ m.file = committed /\ LeftBehind(backups \ {m})
             \/ /\ m.file = Own(command.of)
                /\ kills[command.of] = 1
                /\ Displaced(backups \ {m})
    BY <1>2 DEF Undoable
  <2>2. CASE m.file = committed /\ LeftBehind(backups \ {m})
    BY <2>1, <2>2 DEF Undoable, LeftBehind, NothingNewer
  <2>3. CASE /\ m.file = Own(command.of) /\ kills[command.of] = 1
             /\ Displaced(backups \ {m})
    BY <2>1, <2>3 DEF Undoable, Own, Displaced, KeptIn, NothingNewer
  <2> QED
    BY <2>1, <2>2, <2>3
<1> QED
  BY <1>1, <1>2

LEMMA MoveAsideKeeps ==
  ASSUME IInv, MoveAside
  PROVE  IInv'
<1>1. command.step = "started" /\ ledger # NoFile /\ ledger' = NoFile
  BY DEF MoveAside, Doing
<1>2. /\ command \in [step : CommitStep, of : Reducer, mine : SUBSET Backup]
      /\ Active = {command.of}
  BY <1>1, CommitUnderWay DEF CommitStep
<1>3. PICK b \in [file : {ledger}, name : Name] :
        /\ \A c \in backups : c.name # b.name
        /\ backups' = backups \cup {b}
        /\ command' = [command EXCEPT !.step = "moved", !.mine = {b}]
  BY MovedAside
<1>4. /\ command'.step = "moved" /\ command'.of = command.of
      /\ command'.mine = {b}
  BY <1>2, <1>3
<1>5. b.file = ledger /\ b \in backups' /\ backups' \ command'.mine = backups
  BY <1>3, <1>4
<1>6. UNCHANGED <<status, staged, attempted, kills, committed>>
  BY DEF MoveAside
<1>7. InPlace \/ (ledger = Own(command.of) /\ kills[command.of] = 1
                     /\ Displaced(backups))
  BY <1>1, <1>2 DEF IInv, FilesFit, Doing, Interrupted
<1>8. Undoable'
  <2>1. CASE InPlace
    BY <1>4, <1>5, <1>6, <2>1 DEF Undoable, InPlace, LeftBehind, NothingNewer
  <2>2. CASE ledger = Own(command.of) /\ kills[command.of] = 1
               /\ Displaced(backups)
    <3>1. b.file = Own(command.of)' /\ kills'[command'.of] = 1
      BY <1>4, <1>5, <1>6, <2>2 DEF Own
    <3>2. CASE committed = NoFile /\ backups = {}
      BY <1>4, <1>5, <1>6, <3>1, <3>2 DEF Undoable, Displaced
    <3>3. CASE KeptIn(backups)
      BY <1>4, <1>5, <1>6, <3>1, <3>3
      DEF Undoable, Displaced, KeptIn, NothingNewer
    <3> QED
      BY <2>2, <3>2, <3>3 DEF Displaced
  <2> QED
    BY <1>7, <2>1, <2>2
<1>9. FilesFit'
  BY <1>1, <1>4, <1>8 DEF FilesFit, Doing
<1>10. TypeOK'
  BY CommitStepTyped DEF IInv
<1> QED
  BY <1>1, <1>4, <1>6, <1>9, <1>10, SameRowsKeep DEF IInv, CommitStep

LEMMA PublishKeeps ==
  ASSUME IInv, Publish
  PROVE  IInv'
<1>1. command.step \in {"started", "moved"}
  BY DEF Publish, Doing
<1>2. /\ command \in [step : CommitStep, of : Reducer, mine : SUBSET Backup]
      /\ Active = {command.of}
      /\ Own(command.of) # NoFile
  BY <1>1, CommitUnderWay DEF CommitStep
<1>3. command'.step = "published" /\ command'.of = command.of
      /\ command'.mine = command.mine
  BY <1>2 DEF Publish
<1>4. UNCHANGED <<status, staged, attempted, backups, kills, committed>>
  BY DEF Publish
<1>5. ledger' = Own(command.of)'
  BY <1>3, <1>4 DEF Publish, Own
<1>6. Undoable
  <2>1. CASE command.step = "moved"
    BY <2>1 DEF IInv, FilesFit, Doing
  <2>2. CASE command.step = "started"
    <3>1. ledger = NoFile /\ command.mine = {} /\ (InPlace \/ Interrupted)
      BY <2>2 DEF Publish, IInv, FilesFit, Doing
    <3>2. CASE InPlace
      BY <3>1, <3>2 DEF InPlace, LeftBehind, Undoable
    <3>3. CASE Interrupted
      BY <1>2, <3>1, <3>3 DEF Interrupted, Undoable
    <3> QED
      BY <3>1, <3>2, <3>3
  <2> QED
    BY <1>1, <2>1, <2>2
<1>7. Undoable'
  BY <1>3, <1>4, <1>6, UndoableKept
<1>8. FilesFit'
  BY <1>3, <1>5, <1>7 DEF FilesFit, Doing
<1>9. TypeOK'
  BY CommitStepTyped DEF IInv
<1> QED
  BY <1>1, <1>3, <1>4, <1>8, <1>9, SameRowsKeep DEF IInv, CommitStep

LEMMA WithdrawKeeps ==
  ASSUME IInv, Withdraw
  PROVE  IInv'
<1>1. command.step = "published" /\ Undoable
  BY DEF Withdraw, Doing, IInv, FilesFit
<1>2. command \in [step : CommitStep, of : Reducer, mine : SUBSET Backup]
  BY <1>1, CommitUnderWay DEF CommitStep
<1>3. command'.step = "withdrawn" /\ command'.of = command.of
      /\ command'.mine = command.mine
  BY <1>2 DEF Withdraw
<1>4. UNCHANGED <<status, staged, attempted, backups, kills, committed>>
  BY DEF Withdraw
<1>5. Undoable'
  BY <1>1, <1>3, <1>4, UndoableKept
<1>6. FilesFit'
  BY <1>3, <1>5 DEF FilesFit, Doing, Withdraw
<1>7. TypeOK'
  BY CommitStepTyped DEF IInv
<1> QED
  BY <1>1, <1>3, <1>4, <1>6, <1>7, SameRowsKeep DEF IInv, CommitStep

\* The rows are stored: what was published becomes the committed ledger, and
\* all that is left in backups is older.
LEMMA CommitRowsKeeps ==
  ASSUME IInv, CommitRows
  PROVE  IInv'
<1> DEFINE r == command.of
<1> USE DEF IInv
<1>1. command.step = "published" /\ ledger = Own(r) /\ Undoable
  BY DEF CommitRows, Doing, FilesFit
<1>2. /\ command \in [step : CommitStep, of : Reducer, mine : SUBSET Backup]
      /\ r \in Reducer /\ r \in Active /\ Active = {r}
      /\ staged[r] # NoFile
      /\ Own(r) \in File /\ Own(r).at = r /\ Own(r) # NoFile
      /\ Own(r).says = staged[r]
  BY <1>1, CommitUnderWay, OwnIsFile DEF CommitStep
<1>3. /\ status' = [status EXCEPT ![r] = "succeeded"]
      /\ committed' = Own(r) /\ ledger' = Own(r)
      /\ command'.step = "stored"
      /\ UNCHANGED <<staged, attempted, backups, kills>>
  BY <1>1, <1>2 DEF CommitRows
<1>4. Active' = {} /\ status'[r] = "succeeded"
  BY <1>2, <1>3 DEF Active, TypeOK
<1>5. ReducersInOrder'
  BY <1>2, <1>3, <1>4 DEF ReducersInOrder, TypeOK, Active
<1>6. CommitIsOfActive' /\ ProposalsDiffer'
  BY <1>3, <1>4 DEF CommitIsOfActive, ProposalsDiffer
<1>7. CommittedIsStored'
  BY <1>2, <1>3, <1>4 DEF CommittedIsStored
<1>8. \A b \in backups : b.file = Own(r) \/ b.file.at < r
  <2>1. ASSUME committed # NoFile, NEW b \in backups,
               b.file = committed \/ b.file.at < committed.at
        PROVE  b.file.at < r
    <3>1. committed.at < r /\ committed.at \in Nat /\ r \in Nat
      BY <1>2, <2>1, CommittedIsOlder
    <3>2. b.file.at \in Nat
      BY PublicationAssumption DEF TypeOK, Backup, File, Time
    <3> QED
      BY <2>1, <3>1, <3>2
  <2>2. ASSUME KeptIn(backups)
        PROVE  \A b \in backups : b.file.at < r
    BY <2>1, <2>2 DEF KeptIn, NothingNewer
  <2>3. ASSUME NEW m \in backups, m.file = committed,
               LeftBehind(backups \ {m})
        PROVE  \A b \in backups : b.file.at < r
    <3>1. committed # NoFile
      BY <2>3, PublicationAssumption DEF TypeOK, Backup
    <3>2. \A b \in backups : b.file = committed \/ b.file.at < committed.at
      BY <2>3 DEF LeftBehind, NothingNewer
    <3> QED
      BY <2>1, <3>1, <3>2
  <2>4. ASSUME NEW m \in backups, m.file = Own(r), Displaced(backups \ {m})
        PROVE  \A b \in backups : b.file = Own(r) \/ b.file.at < r
    BY <2>1, <2>4 DEF Displaced, KeptIn, NothingNewer
  <2>5. CASE command.mine = {}
    BY <1>1, <2>2, <2>5 DEF Undoable
  <2>6. CASE command.mine # {}
    <3>1. PICK m \in backups :
            \/ m.file = committed /\ LeftBehind(backups \ {m})
            \/ m.file = Own(r) /\ Displaced(backups \ {m})
      BY <1>1, <2>6 DEF Undoable
    <3> QED
      BY <2>3, <2>4, <3>1
  <2> QED
    BY <2>5, <2>6
<1>9. InPlace'
  <2>1. committed'.at # 0 /\ committed' # NoFile
    BY <1>2, <1>3, PublicationAssumption
  <2>2. NothingNewer(backups)'
    BY <1>2, <1>3, <1>8 DEF NothingNewer
  <2> QED
    BY <1>3, <2>1, <2>2 DEF InPlace, LeftBehind
<1>10. FilesFit'
  BY <1>3, <1>9 DEF FilesFit, Doing
<1>11. TypeOK'
  BY CommitStepTyped
<1> QED
  BY <1>5, <1>6, <1>7, <1>10, <1>11

LEMMA DiscardBackupKeeps ==
  ASSUME IInv, DiscardBackup
  PROVE  IInv'
<1>1. command.step = "stored" /\ InPlace
  BY DEF DiscardBackup, Doing, IInv, FilesFit
<1>2. /\ command'.step = "idle" /\ ledger' = ledger
      /\ backups' = backups \ command.mine
      /\ UNCHANGED <<status, staged, attempted, kills, committed>>
  BY DEF DiscardBackup, Idle
<1>3. InPlace'
  BY <1>1, <1>2 DEF InPlace, LeftBehind, NothingNewer
<1>4. FilesFit'
  BY <1>2, <1>3 DEF FilesFit, Doing
<1>5. TypeOK'
  BY CommitStepTyped DEF IInv
<1> QED
  BY <1>2, <1>4, <1>5, SameRowsKeep DEF IInv, CommitStep

\* The commit fails: what its backup holds is put back, be it the committed
\* ledger or what an earlier, killed commit of the same reducer published.
LEMMA ReinstateKeeps ==
  ASSUME IInv, Reinstate
  PROVE  IInv'
<1>1. command.step \in {"withdrawn", "moved"} /\ ledger = NoFile /\ Undoable
  BY DEF Reinstate, Doing, IInv, FilesFit
<1>2. PICK r \in Active : r = command.of
  BY <1>1, CommitUnderWay DEF CommitStep
<1>3. /\ command'.step = "idle" /\ command' \in Command
      /\ ledger' = PutBack(command.mine)
      /\ backups' = backups \ command.mine
      /\ UNCHANGED <<status, staged, attempted, kills, committed>>
  BY CommandsAreDistinct DEF Reinstate, Idle
<1>4. /\ ledger' \in File \cup {NoFile}
      /\ (InPlace \/ Interrupted)'
  <2>1. CASE command.mine = {}
    <3>1. ledger' = NoFile /\ backups' = backups
      BY <1>1, <1>3, <2>1, PutBackOf
    <3>2. CASE committed = NoFile /\ backups = {}
      BY <1>3, <3>1, <3>2 DEF InPlace, LeftBehind
    <3>3. CASE kills[r] = 1 /\ KeptIn(backups)
      <4>1. KeptIn(backups)' /\ kills'[r] = 1 /\ r \in Active'
        BY <1>2, <1>3, <3>1, <3>3 DEF KeptIn, NothingNewer, Active
      <4> QED
        BY <3>1, <4>1 DEF Interrupted
    <3> QED
      BY <1>1, <1>2, <2>1, <3>1, <3>2, <3>3 DEF Undoable
  <2>2. CASE command.mine # {}
    <3>1. PICK m \in backups :
            /\ command.mine = {m}
            /\ \/ m.file = committed /\ LeftBehind(backups \ {m})
               \/ /\ m.file = Own(r)
                  /\ kills[r] = 1
                  /\ Displaced(backups \ {m})
      BY <1>1, <1>2, <2>2 DEF Undoable
    <3>2. ledger' = m.file /\ backups' = backups \ {m} /\ m.file \in File
      BY <1>3, <3>1, PutBackOf DEF IInv, TypeOK, Backup
    <3>3. CASE m.file = committed /\ LeftBehind(backups \ {m})
      BY <1>3, <3>2, <3>3 DEF InPlace, LeftBehind, NothingNewer
    <3>4. CASE /\ m.file = Own(r) /\ kills[r] = 1
               /\ Displaced(backups \ {m})
      <4>1. Displaced(backups)'
        BY <1>3, <3>2, <3>4 DEF Displaced, KeptIn, NothingNewer
      <4>2. ledger' = Own(r)' /\ kills'[r] = 1 /\ r \in Active'
        BY <1>2, <1>3, <3>2, <3>4 DEF Own, Active
      <4>3. \E q \in Active' :
              kills'[q] = 1 /\ ledger' = Own(q)' /\ Displaced(backups)'
        BY <4>1, <4>2, <1>3 DEF Own
      <4> QED
        BY <3>2, <4>3 DEF Interrupted
    <3> QED
      BY <3>1, <3>2, <3>3, <3>4
  <2> QED
    BY <2>1, <2>2
<1>5. FilesFit'
  BY <1>3, <1>4 DEF FilesFit, Doing
<1>6. TypeOK'
  BY <1>3, <1>4 DEF IInv, TypeOK
<1> QED
  BY <1>3, <1>5, <1>6, SameRowsKeep DEF IInv, CommitStep

-----------------------------------------------------------------------------
(* The steps of an adoption.                                               *)

LEMMA AdoptKeeps ==
  ASSUME IInv, Adopt
  PROVE  IInv'
<1>1. /\ command.step = "idle" /\ command'.step = "repairing"
      /\ UNCHANGED <<status, staged, attempted, ledger, backups, kills,
                     committed>>
  BY DEF Adopt, Free, Idle
<1>2. InPlace \/ Interrupted
  BY <1>1 DEF IInv, FilesFit
<1>3. (InPlace \/ Interrupted)'
  BY <1>1, <1>2 DEF InPlace, Interrupted, LeftBehind, NothingNewer,
                    Displaced, KeptIn, Own, Active
<1>4. FilesFit'
  BY <1>1, <1>3 DEF FilesFit, Doing
<1>5. TypeOK'
  BY AdoptionTyped DEF IInv
<1> QED
  BY <1>1, <1>4, <1>5, SameRowsKeep DEF IInv, CommitStep

\* With the committed ledger in place no active reducer is found, because its
\* proposal differs; a backup left behind leads to the reducer that committed.
LEMMA FoundInPlace ==
  ASSUME IInv, InPlace
  PROVE  /\ \A r \in Active : ~Selected(r)
         /\ backups # {} => \E r \in Reducer : Selected(r)
<1> USE DEF IInv
<1>1. ASSUME NEW r \in Active PROVE ~Selected(r)
  BY <1>1 DEF InPlace, LeftBehind, ProposalsDiffer, Selected, Matches
<1>2. ASSUME backups # {} PROVE \E r \in Reducer : Selected(r)
  <2>1. committed # NoFile /\ committed.at # 0 /\ ledger = committed
    BY <1>2 DEF InPlace, LeftBehind
  <2>2. committed.at \in Reducer /\ committed.says # NoFile
    BY <2>1, NoFileSaysNothing DEF File, Time
  <2>3. /\ status[committed.at] = "succeeded"
        /\ staged[committed.at] = committed.says
    BY <2>1 DEF CommittedIsStored
  <2> QED
    BY <2>1, <2>2, <2>3 DEF Selected, Matches
<1> QED
  BY <1>1, <1>2

\* After a killed commit its reducer is found, and no later one.
LEMMA FoundInterrupted ==
  ASSUME IInv, NEW r \in Active, kills[r] = 1,
         \/ ledger = Own(r) /\ Displaced(backups)
         \/ ledger = NoFile /\ KeptIn(backups)
  PROVE  /\ Selected(r)
         /\ \A q \in Reducer :
              Selected(q) /\ (\A p \in Reducer : Selected(p) => p <= q) => q = r
<1> USE DEF IInv
<1>1. r \in Reducer /\ status[r] = "active" /\ staged[r] # NoFile
  BY DEF Active, ReducersInOrder
<1>2. Selected(r)
  <2>1. CASE ledger = Own(r)
    BY <1>1, <2>1, OwnIsFile DEF Selected, Matches
  <2>2. CASE ledger = NoFile /\ KeptIn(backups)
    BY <1>1, <2>2 DEF Selected, KeptIn
  <2> QED
    BY <2>1, <2>2
<1>3. ASSUME NEW q \in Reducer, Selected(q),
             \A p \in Reducer : Selected(p) => p <= q
      PROVE  q = r
  <2>1. r <= q
    BY <1>1, <1>2, <1>3
  <2>2. q <= r
    BY <1>3 DEF Selected, ReducersInOrder
  <2> QED
    BY <1>1, <2>1, <2>2, PublicationAssumption
<1> QED
  BY <1>2, <1>3

\* The newest backup is the committed ledger, when it was moved aside.
LEMMA UndoRestores ==
  ASSUME IInv, UNCHANGED committed, Undo, Displaced(backups)
  PROVE  InPlace'
<1> USE DEF IInv
<1>1. CASE committed = NoFile /\ backups = {}
  BY <1>1 DEF Undo, InPlace, LeftBehind
<1>2. CASE KeptIn(backups)
  <2>1. PICK m \in backups :
          m.file = committed /\ (committed.at = 0 => backups = {m})
    BY <1>2 DEF KeptIn
  <2>2. PICK b \in backups :
          NewestFirst(b) /\ ledger' = b.file /\ backups' = backups \ {b}
    BY <2>1 DEF Undo
  <2>3. b.file = committed
    <3>1. b.file = committed \/ b.file.at < committed.at
      BY <1>2 DEF KeptIn, NothingNewer
    <3>2. committed.at <= b.file.at
      BY <2>1, <2>2 DEF NewestFirst
    <3>3. b.file.at \in Nat /\ committed.at \in Nat
      BY <2>1, PublicationAssumption DEF TypeOK, Backup, File, Time
    <3> QED
      BY <3>1, <3>2, <3>3
  <2>4. backups' # {} => committed.at # 0
    BY <2>1, <2>2
  <2> QED
    BY <1>2, <2>2, <2>3, <2>4 DEF InPlace, LeftBehind, KeptIn, NothingNewer
<1> QED
  BY <1>1, <1>2 DEF Displaced

LEMMA RepairKeeps ==
  ASSUME IInv, Repair
  PROVE  IInv'
<1>1. /\ command.step = "repairing"
      /\ command'.step \in {"settling", "sweeping"}
      /\ UNCHANGED <<status, staged, attempted, kills, committed>>
  BY DEF Repair, Doing
<1>2. \/ /\ \A r \in Reducer : ~Selected(r)
         /\ command'.step = "settling"
         /\ UNCHANGED <<ledger, backups>>
      \/ /\ command'.step = "sweeping"
         /\ \E r \in Reducer :
              /\ Selected(r) /\ \A q \in Reducer : Selected(q) => q <= r
              /\ r \in Active => Undo
              /\ r \notin Active => UNCHANGED <<ledger, backups>>
  BY DEF Repair
<1>3. FilesFit'
  <2>1. CASE InPlace
    <3>1. CASE command'.step = "settling"
      BY <1>1, <1>2, <2>1, <3>1, FoundInPlace DEF FilesFit, Doing, InPlace
    <3>2. CASE command'.step = "sweeping"
      <4>1. UNCHANGED <<ledger, backups>>
        BY <1>2, <2>1, <3>2, FoundInPlace
      <4>2. InPlace'
        BY <1>1, <2>1, <4>1 DEF InPlace, LeftBehind, NothingNewer
      <4> QED
        BY <3>2, <4>2 DEF FilesFit, Doing
    <3> QED
      BY <1>1, <3>1, <3>2
  <2>2. CASE Interrupted
    <3>1. PICK r \in Active :
            /\ kills[r] = 1
            /\ \/ ledger = Own(r) /\ Displaced(backups)
               \/ ledger = NoFile /\ KeptIn(backups)
      BY <2>2 DEF Interrupted
    <3>2. Undo /\ command'.step = "sweeping"
      BY <1>2, <3>1, FoundInterrupted DEF Active
    <3>3. InPlace'
      BY <1>1, <3>1, <3>2, UndoRestores DEF Displaced
    <3> QED
      BY <3>2, <3>3 DEF FilesFit, Doing
  <2> QED
    BY <1>1, <2>1, <2>2 DEF IInv, FilesFit
<1>4. TypeOK'
  BY AdoptionTyped DEF IInv
<1> QED
  BY <1>1, <1>3, <1>4, SameRowsKeep DEF IInv, CommitStep

LEMMA SweepKeeps ==
  ASSUME IInv, Sweep
  PROVE  IInv'
<1>1. /\ command.step = "sweeping" /\ command' = command /\ ledger' = ledger
      /\ backups' \subseteq backups
      /\ UNCHANGED <<status, staged, attempted, kills, committed>>
  BY DEF Sweep, Doing
<1>2. InPlace
  BY <1>1 DEF IInv, FilesFit
<1>3. InPlace'
  BY <1>1, <1>2 DEF InPlace, LeftBehind, NothingNewer
<1>4. FilesFit'
  BY <1>1, <1>3 DEF FilesFit, Doing
<1>5. TypeOK'
  BY AdoptionTyped DEF IInv
<1> QED
  BY <1>1, <1>4, <1>5, SameRowsKeep DEF IInv, CommitStep

LEMMA SettleKeeps ==
  ASSUME IInv, Settle
  PROVE  IInv' /\ ledger = committed /\ backups = {}
<1> USE DEF IInv
<1>1. /\ command'.step = "idle"
      /\ status' = [r \in Reducer |->
                      IF r \in Active THEN "ended" ELSE status[r]]
      /\ UNCHANGED <<staged, attempted, ledger, backups, kills, committed>>
  BY DEF Settle, Idle
<1>2. ledger = committed /\ backups = {}
  BY DEF Settle, Doing, FilesFit, InPlace
<1>3. Active' = {}
  BY <1>1 DEF Active
<1>4. ReducersInOrder'
  BY <1>1, <1>3 DEF ReducersInOrder, Active
<1>5. CommitIsOfActive' /\ ProposalsDiffer'
  BY <1>1, <1>3 DEF CommitIsOfActive, ProposalsDiffer, CommitStep
<1>6. CommittedIsStored'
  BY <1>1 DEF CommittedIsStored, TypeOK, File, Time, Active
<1>7. FilesFit'
  BY <1>1, <1>2 DEF FilesFit, Doing, InPlace, LeftBehind
<1> QED
  BY <1>2, <1>4, <1>5, <1>6, <1>7, AdoptionTyped

-----------------------------------------------------------------------------
(* Killed commands.                                                        *)

\* What the kill of a commit leaves, if it is the first one of its reducer.
LEMMA KillOfCommit ==
  ASSUME IInv, KillsPerCommit <= 1, Kill,
         command.step \in CommitStep \ {"stored"}
  PROVE  (InPlace \/ Interrupted)' /\ ReducersInOrder'
<1> USE DEF IInv
<1>1. PICK r \in Active : r = command.of /\ r \in attempted /\ Active = {r}
  BY CommitUnderWay
<1>2. /\ kills[r] < KillsPerCommit
      /\ kills' = [kills EXCEPT ![r] = @ + 1]
      /\ UNCHANGED <<status, staged, attempted, ledger, backups, committed>>
  BY <1>1 DEF Kill, CommitStep, AdoptionStep
<1>3. kills[r] = 0 /\ kills'[r] = 1 /\ Active' = Active
  <2>1. r \in Reducer /\ kills[r] \in 0..KillsPerCommit
    BY <1>1 DEF TypeOK, Active
  <2>2. kills[r] = 0
    BY <1>2, <2>1, PublicationAssumption
  <2> QED
    BY <1>2, <2>1, <2>2 DEF TypeOK, Active
<1>4. ReducersInOrder'
  BY <1>1, <1>2, <1>3 DEF ReducersInOrder, TypeOK
<1>5. CASE InPlace
  BY <1>2, <1>4, <1>5 DEF InPlace, LeftBehind, NothingNewer
<1>6. CASE Doing("started")
  <2>1. ~Interrupted
    BY <1>1, <1>3 DEF Interrupted
  <2> QED
    BY <1>4, <1>5, <1>6, <2>1 DEF FilesFit
<1>7. CASE Undoable /\ ledger \in {NoFile, Own(r)} /\ (Doing("moved") => command.mine # {})
         /\ (ledger = NoFile <=> ~Doing("published"))
  <2>1. CASE command.mine = {}
    <3>1. committed = NoFile /\ backups = {}
      BY <1>1, <1>3, <1>7, <2>1 DEF Undoable
    <3>2. CASE ledger = NoFile
      BY <1>4, <1>5, <3>1, <3>2 DEF InPlace, LeftBehind
    <3>3. CASE ledger = Own(r)
      <4>1. Displaced(backups)' /\ ledger' = Own(r)'
        BY <1>2, <3>1, <3>3 DEF Displaced, Own
      <4> QED
        BY <1>1, <1>3, <1>4, <4>1 DEF Interrupted
    <3> QED
      BY <1>7, <3>2, <3>3
  <2>2. CASE command.mine # {}
    <3>1. PICK m \in backups :
            m.file = committed /\ LeftBehind(backups \ {m})
      <4>1. PICK m \in backups :
              /\ command.mine = {m}
              /\ \/ m.file = committed /\ LeftBehind(backups \ {m})
                 \/ kills[r] = 1
        BY <1>1, <1>7, <2>2 DEF Undoable
      <4>2. m.file = committed /\ LeftBehind(backups \ {m})
        BY <1>3, <4>1
      <4> QED
        BY <4>2
    <3>2. committed # NoFile
      BY <3>1, PublicationAssumption DEF TypeOK, Backup
    <3>3. /\ \A b \in backups : b.file = committed \/ b.file.at < committed.at
          /\ committed.at = 0 => backups = {m}
      BY <3>1 DEF LeftBehind, NothingNewer
    <3>4. KeptIn(backups)'
      BY <1>2, <3>1, <3>2, <3>3 DEF KeptIn, NothingNewer
    <3>5. ledger' = NoFile \/ ledger' = Own(r)'
      BY <1>2, <1>7 DEF Own
    <3> QED
      BY <1>1, <1>3, <1>4, <3>4, <3>5 DEF Interrupted, Displaced
  <2> QED
    BY <2>1, <2>2
<1> QED
  BY <1>1, <1>6, <1>7, CommitUnderWay DEF FilesFit, Doing, CommitStep

LEMMA KillKeeps ==
  ASSUME IInv, KillsPerCommit <= 1, Kill
  PROVE  IInv'
<1> USE DEF IInv
<1>1. /\ command.step # "idle" /\ command'.step = "idle"
      /\ UNCHANGED <<status, staged, attempted, ledger, backups, committed>>
  BY CommandKinds DEF Kill, Free, Idle, AdoptionStep, CommitStep
<1>2. (InPlace \/ Interrupted)' /\ ReducersInOrder'
  <2>1. CASE command.step \in CommitStep \ {"stored"}
    BY <2>1, KillOfCommit
  <2>2. CASE command.step \in AdoptionStep \cup {"stored"}
    <3>1. kills' = kills
      BY <2>2 DEF Kill
    <3>2. InPlace \/ Interrupted
      BY <2>2 DEF FilesFit, Doing, InPlace, LeftBehind, AdoptionStep
    <3>3. (InPlace \/ Interrupted)'
      BY <1>1, <3>1, <3>2 DEF InPlace, Interrupted, LeftBehind, NothingNewer,
                              Displaced, KeptIn, Own, Active
    <3> QED
      BY <1>1, <3>1, <3>3 DEF ReducersInOrder, Active
  <2> QED
    BY <1>1, <2>1, <2>2, CommandKinds DEF CommitStep, AdoptionStep
<1>3. CommitIsOfActive' /\ CommittedIsStored' /\ ProposalsDiffer'
  BY <1>1 DEF CommitIsOfActive, CommittedIsStored, ProposalsDiffer, CommitStep,
              Active
<1>4. FilesFit'
  BY <1>1, <1>2 DEF FilesFit, Doing
<1> QED
  BY <1>2, <1>3, <1>4, KillTyped

-----------------------------------------------------------------------------
(* The invariant.                                                          *)

LEMMA InitKeeps ==
  ASSUME Init
  PROVE  IInv
<1>1. TypeOK
  BY PublicationAssumption, CommandsAreDistinct DEF Init, TypeOK, File, Time
<1>2. /\ Active = {} /\ command.step = "idle"
      /\ committed = NoFile \/ committed.at = 0
  BY DEF Init, Active, Idle
<1>3. ReducersInOrder
  BY <1>2 DEF Init, ReducersInOrder
<1>4. CommitIsOfActive /\ CommittedIsStored /\ ProposalsDiffer
  BY <1>2 DEF CommitIsOfActive, CommittedIsStored, ProposalsDiffer, CommitStep
<1>5. InPlace
  BY DEF Init, InPlace, LeftBehind
<1>6. FilesFit
  BY <1>2, <1>5 DEF FilesFit, Doing
<1> QED
  BY <1>1, <1>3, <1>4, <1>6 DEF IInv

LEMMA StutterKeeps ==
  ASSUME IInv, UNCHANGED vars
  PROVE  IInv'
<1> USE DEF IInv, vars
<1>1. TypeOK'
  BY DEF TypeOK
<1>2. (InPlace \/ Interrupted) => (InPlace \/ Interrupted)'
  BY DEF InPlace, Interrupted, LeftBehind, NothingNewer, Displaced, KeptIn,
         Own, Active
<1>3. Undoable => Undoable'
  BY UndoableKept
<1>4. InPlace => InPlace'
  BY DEF InPlace, LeftBehind, NothingNewer
<1>5. FilesFit'
  BY <1>2, <1>3, <1>4 DEF FilesFit, Doing, Own
<1>6. ReducersInOrder' /\ CommitIsOfActive' /\ CommittedIsStored'
      /\ ProposalsDiffer'
  BY SameRowsKeep
<1> QED
  BY <1>1, <1>5, <1>6

LEMMA StepKeeps ==
  ASSUME IInv, Rewrites, KillsPerCommit <= 1, [Next]_vars
  PROVE  IInv'
<1>1. CASE ReducerStep
  BY <1>1, ClaimKeeps, GiveUpKeeps, StartCommitKeeps, StageKeeps
  DEF ReducerStep
<1>2. CASE CommitOrAdoption
  BY <1>2, MoveAsideKeeps, PublishKeeps, CommitRowsKeeps, DiscardBackupKeeps,
     WithdrawKeeps, ReinstateKeeps, AdoptKeeps, RepairKeeps, SweepKeeps,
     SettleKeeps
  DEF CommitOrAdoption
<1>3. CASE Kill
  BY <1>3, KillKeeps
<1>4. CASE UNCHANGED vars
  BY <1>4, StutterKeeps
<1> QED
  BY <1>1, <1>2, <1>3, <1>4 DEF Next

\* The files are always as one of the steps of a commit or of an adoption, or a
\* killed commit, leaves them.
THEOREM PublicationInvariant ==
  ASSUME Rewrites, KillsPerCommit <= 1
  PROVE  Spec => []IInv
<1>1. Init => IInv
  BY InitKeeps
<1>2. IInv /\ [Next]_vars => IInv'
  BY StepKeeps
<1> QED
  BY <1>1, <1>2, PTL DEF Spec

LEMMA KeptInAll ==
  ASSUME IInv
  PROVE  CommittedLedgerKept
<1> SUFFICES ASSUME committed # NoFile
             PROVE  ledger = committed \/ \E b \in backups : b.file = committed
  BY DEF CommittedLedgerKept
<1>1. CASE InPlace
  BY <1>1 DEF InPlace
<1>2. CASE Interrupted
  BY <1>2 DEF Interrupted, Displaced, KeptIn
<1>3. CASE Undoable
  BY <1>3 DEF Undoable, Displaced, KeptIn
<1>4. CASE Doing("settling")
  BY <1>4 DEF IInv, FilesFit
<1>5. command.step \in CommitStep \cup AdoptionStep \cup {"idle"}
  BY CommandKinds DEF IInv
<1> QED
  BY <1>1, <1>2, <1>3, <1>4, <1>5
  DEF IInv, FilesFit, Doing, CommitStep, AdoptionStep

\* The ledger of the last commit survives every kill of every command.
THEOREM LedgerSurvives ==
  ASSUME Rewrites, KillsPerCommit <= 1
  PROVE  Spec => []CommittedLedgerKept
<1>1. IInv => CommittedLedgerKept
  BY KeptInAll
<1> QED
  BY <1>1, PublicationInvariant, PTL

\* Every adoption that comes to its end has restored the committed ledger and
\* swept the backups away.
THEOREM AdoptionIsARepair ==
  ASSUME Rewrites, KillsPerCommit <= 1
  PROVE  Spec => AdoptionRestores
<1>1. IInv /\ [Next]_vars =>
        [Settle => Says(ledger) = Says(committed) /\ backups = {}]_vars
  BY SettleKeeps
<1> QED
  BY <1>1, PublicationInvariant, PTL DEF AdoptionRestores, Spec

\* Between two commands the ledger is the committed one while nothing was
\* killed, and one an active reducer published otherwise.
LEMMA BetweenCommands ==
  ASSUME IInv
  PROVE  FailedCommitLeavesNoTrace /\ UncommittedIsActive
<1> SUFFICES ASSUME Free
             PROVE  /\ (\A r \in Reducer : kills[r] = 0) => ledger = committed
                    /\ ledger # NoFile /\ ledger # committed =>
                         ledger.at \in Active
  BY DEF FailedCommitLeavesNoTrace, UncommittedIsActive
<1>1. InPlace \/ Interrupted
  BY DEF IInv, FilesFit, Free, Idle
<1>2. CASE InPlace
  BY <1>2 DEF InPlace
<1>3. CASE Interrupted
  BY <1>3 DEF Interrupted, Active, Own
<1> QED
  BY <1>1, <1>2, <1>3

\* While nothing was killed, a commit either takes effect or leaves the ledger
\* that was committed before.
THEOREM FailureLeavesNoTrace ==
  ASSUME Rewrites, KillsPerCommit <= 1
  PROVE  Spec => []FailedCommitLeavesNoTrace
<1>1. IInv => FailedCommitLeavesNoTrace
  BY BetweenCommands
<1> QED
  BY <1>1, PublicationInvariant, PTL

\* A ledger that is published and not committed is one an active reducer is
\* still to commit or an adoption to withdraw.
THEOREM UncommittedHasAnOwner ==
  ASSUME Rewrites, KillsPerCommit <= 1
  PROVE  Spec => []UncommittedIsActive
<1>1. IInv => UncommittedIsActive
  BY BetweenCommands
<1> QED
  BY <1>1, PublicationInvariant, PTL
=============================================================================
