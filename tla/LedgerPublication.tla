-------------------------- MODULE LedgerPublication --------------------------
(***************************************************************************)
(* The candidate ledger's file and the rows that say whose result it is    *)
(* (deep_scan_workbench.py).  A reducer leaves its ledger in its artifact  *)
(* directory; commit-deep-scan-dedup moves the published ledger aside,     *)
(* puts a copy of the reducer's in its place and then commits the rows.    *)
(* The file system takes no part in the transaction: a command that is     *)
(* killed rolls its rows back and leaves the files as they are, and the    *)
(* next coordinator to adopt the scan repairs them from what it finds.     *)
(*                                                                         *)
(* Commit and adoption hold the scan's completion lock, so one command at  *)
(* a time is between two of its steps; each step is one call of the file   *)
(* system or the commit of the rows.  Reducers are numbered as they are    *)
(* claimed, which is the order of updated_at.  The temporary .publish copy *)
(* is left out: nothing reads it but the command that makes it.            *)
(***************************************************************************)
EXTENDS Integers, FiniteSets

CONSTANTS
  Reducer,         \* dedup workers, numbered in the order they are claimed
  Content,         \* what a ledger can say
  NoFile,          \* there is no such file
  Name,            \* uuids, of which an unused one is as good as another
  KillsPerCommit,  \* bound on the kills of one reducer's commit, until its
                   \* rows are stored
  Rewrites         \* every reducer changes the ledger it started from

\* A file keeps its modification time when it is linked, copied or renamed:
\* that of the reducer that wrote it, or 0 for a ledger older than the run.
Time == {0} \cup Reducer
File == [says : Content, at : Time]

ASSUME PublicationAssumption ==
  /\ Reducer \subseteq Nat \ {0}
  /\ NoFile \notin Content \cup File
  /\ KillsPerCommit \in Nat
  /\ Rewrites \in BOOLEAN

VARIABLES
  status,     \* status of each dedup worker row
  staged,     \* artifact_dir/canonical/candidate_ledger.jsonl of each reducer
  attempted,  \* reducers a commit was called for
  ledger,     \* artifacts/02_discovery/candidate_ledger.jsonl
  backups,    \* its siblings .candidate_ledger.jsonl.<uuid>.backup
  command,    \* the command that holds the lock, and how far it has come
  kills,      \* kills of each reducer's commit
  committed   \* history: the ledger as of the last commit of the rows

vars == <<status, staged, attempted, ledger, backups, command, kills,
          committed>>

Backup == [file : File, name : Name]

\* A commit has started, moved the old ledger aside, published the new one,
\* stored the rows, or withdrawn its ledger after a failure.  An adoption is
\* repairing the ledger, sweeping the backups, or settling the rows.
CommitStep == {"started", "moved", "published", "stored", "withdrawn"}
AdoptionStep == {"repairing", "sweeping", "settling"}

\* of is the reducer that is committed, mine the backup its commit has made.
Command ==
  [step : CommitStep, of : Reducer, mine : SUBSET Backup]
    \cup [step : AdoptionStep \cup {"idle"}]
Idle == [step |-> "idle"]

TypeOK ==
  /\ status \in [Reducer -> {"none", "active", "succeeded", "ended"}]
  /\ staged \in [Reducer -> Content \cup {NoFile}]
  /\ attempted \in SUBSET Reducer
  /\ ledger \in File \cup {NoFile}
  /\ backups \in SUBSET Backup
  /\ command \in Command
  /\ kills \in [Reducer -> 0..KillsPerCommit]
  /\ committed \in File \cup {NoFile}

Init ==
  /\ status = [r \in Reducer |-> "none"]
  /\ staged = [r \in Reducer |-> NoFile]
  /\ attempted = {}
  /\ ledger \in [says : Content, at : {0}] \cup {NoFile}
  /\ backups = {}
  /\ command = Idle
  /\ kills = [r \in Reducer |-> 0]
  /\ committed = ledger

-----------------------------------------------------------------------------
(* The life of a reducer up to its commit.                                 *)

Doing(step) == command.step = step

Free == command = Idle

\* A commit has ended its transaction before it discards its backup.
NoTransaction == Free \/ Doing("stored")

Active == {r \in Reducer : status[r] = "active"}

Claim(r) ==
  /\ NoTransaction
  /\ Active = {}
  /\ status[r] = "none"
  /\ \A q \in Reducer : status[q] # "none" => q < r
  /\ status' = [status EXCEPT ![r] = "active"]
  /\ UNCHANGED <<staged, attempted, ledger, backups, command, kills, committed>>

\* The reducer writes the ledger it proposes; it has read the published one.
Stage(r, c) ==
  /\ r \in Active
  /\ staged[r] = NoFile
  /\ Rewrites /\ ledger # NoFile => c # ledger.says
  /\ staged' = [staged EXCEPT ![r] = c]
  /\ UNCHANGED <<status, attempted, ledger, backups, command, kills, committed>>

\* A reducer is given up before its result is sent, never after.
GiveUp(r) ==
  /\ NoTransaction
  /\ r \in Active \ attempted
  /\ status' = [status EXCEPT ![r] = "ended"]
  /\ UNCHANGED <<staged, attempted, ledger, backups, command, kills, committed>>

-----------------------------------------------------------------------------
(* commit-deep-scan-dedup with --candidate-ledger-path.                    *)

StartCommit(r) ==
  /\ Free
  /\ r \in Active
  /\ staged[r] # NoFile
  /\ attempted' = attempted \cup {r}
  /\ command' = [step |-> "started", of |-> r, mine |-> {}]
  /\ UNCHANGED <<status, staged, ledger, backups, kills, committed>>

UnusedName == Name \ {b.name : b \in backups}

\* promote_staged_file, first os.replace: there is a ledger to move aside.
MoveAside ==
  /\ Doing("started")
  /\ ledger # NoFile
  /\ UnusedName # {}
  /\ LET b == [file |-> ledger, name |-> CHOOSE n \in UnusedName : TRUE]
     IN /\ backups' = backups \cup {b}
        /\ command' = [command EXCEPT !.step = "moved", !.mine = {b}]
  /\ ledger' = NoFile
  /\ UNCHANGED <<status, staged, attempted, kills, committed>>

\* promote_staged_file, second os.replace.
Publish ==
  /\ Doing("moved") \/ (Doing("started") /\ ledger = NoFile)
  /\ ledger' = [says |-> staged[command.of], at |-> command.of]
  /\ command' = [command EXCEPT !.step = "published"]
  /\ UNCHANGED <<status, staged, attempted, backups, kills, committed>>

CommitRows ==
  /\ Doing("published")
  /\ status' = [status EXCEPT ![command.of] = "succeeded"]
  /\ committed' = ledger
  /\ command' = [command EXCEPT !.step = "stored"]
  /\ UNCHANGED <<staged, attempted, ledger, backups, kills>>

\* finish_staged_file.
DiscardBackup ==
  /\ Doing("stored")
  /\ backups' = backups \ command.mine
  /\ command' = Idle
  /\ UNCHANGED <<status, staged, attempted, ledger, kills, committed>>

\* The rows cannot be committed; rollback_staged_file, first os.replace.
Withdraw ==
  /\ Doing("published")
  /\ ledger' = NoFile
  /\ command' = [command EXCEPT !.step = "withdrawn"]
  /\ UNCHANGED <<status, staged, attempted, backups, kills, committed>>

\* Mutant: leaves the old ledger aside.
AsItIs(mine) == ledger

\* The ledger once the backup this commit made, if any, is put back.
PutBack(mine) == IF mine = {} THEN ledger ELSE (CHOOSE b \in mine : TRUE).file

\* rollback_staged_file, second os.replace; promote_staged_file does the same
\* when the new ledger cannot be put in place.
Reinstate ==
  /\ Doing("withdrawn") \/ Doing("moved")
  /\ ledger' = PutBack(command.mine)
  /\ backups' = backups \ command.mine
  /\ command' = Idle
  /\ UNCHANGED <<status, staged, attempted, kills, committed>>

-----------------------------------------------------------------------------
(* claim-deep-scan-coordinator once the lease has expired:                 *)
(* recover_candidate_ledger_publication, then the rows.                    *)

\* publication_matches_snapshot.
Matches(r) == ledger # NoFile /\ staged[r] # NoFile /\ ledger.says = staged[r]

\* Mutant: passes over the reducers that did not commit.
SelectedStored(r) == status[r] = "succeeded" /\ Matches(r)

\* Mutant: only looks at the ledger that is published.
SelectedByLedger(r) == status[r] \in {"active", "succeeded"} /\ Matches(r)

\* A reducer the published ledger, or its absence, can be put down to.
Selected(r) ==
  /\ status[r] \in {"active", "succeeded"}
  /\ staged[r] # NoFile
  /\ Matches(r) \/ (r \in Active /\ backups # {} /\ ledger = NoFile)

\* Mutant: the oldest backup.
OldestFirst(b) == \A c \in backups : b.file.at <= c.file.at

\* Backups are tried newest first.
NewestFirst(b) == \A c \in backups : c.file.at <= b.file.at

Adopt ==
  /\ Free
  /\ command' = [step |-> "repairing"]
  /\ UNCHANGED <<status, staged, attempted, ledger, backups, kills, committed>>

\* The last reducer selected decides: what an active one published is undone.
Undo ==
  IF backups = {}
    THEN ledger' = NoFile /\ UNCHANGED backups
    ELSE \E b \in backups :
           /\ NewestFirst(b)
           /\ ledger' = b.file
           /\ backups' = backups \ {b}

Repair ==
  /\ Doing("repairing")
  /\ LET found == {r \in Reducer : Selected(r)}
     IN \/ /\ found = {}
           /\ command' = [step |-> "settling"]
           /\ UNCHANGED <<ledger, backups>>
        \/ /\ \E r \in found :
                /\ \A q \in found : q <= r
                /\ IF r \in Active
                     THEN Undo
                     ELSE UNCHANGED <<ledger, backups>>
           /\ command' = [step |-> "sweeping"]
  /\ UNCHANGED <<status, staged, attempted, kills, committed>>

Sweep ==
  /\ Doing("sweeping")
  /\ \E b \in backups : backups' = backups \ {b}
  /\ UNCHANGED <<status, staged, attempted, ledger, command, kills, committed>>

\* The rows of recover_expired_coordinator, and their commit.
Settle ==
  /\ Doing("settling") \/ (Doing("sweeping") /\ backups = {})
  /\ status' = [r \in Reducer |-> IF r \in Active THEN "ended" ELSE status[r]]
  /\ command' = Idle
  /\ UNCHANGED <<staged, attempted, ledger, backups, kills, committed>>

-----------------------------------------------------------------------------
\* The process of a command dies; its transaction is rolled back.
Kill ==
  /\ ~Free
  /\ command' = Idle
  /\ IF command.step \in AdoptionStep \cup {"stored"}
       THEN UNCHANGED kills
       ELSE /\ kills[command.of] < KillsPerCommit
            /\ kills' = [kills EXCEPT ![command.of] = @ + 1]
  /\ UNCHANGED <<status, staged, attempted, ledger, backups, committed>>

ReducerStep ==
  \E r \in Reducer :
    Claim(r) \/ GiveUp(r) \/ StartCommit(r) \/ \E c \in Content : Stage(r, c)

CommitOrAdoption ==
  \/ MoveAside \/ Publish \/ CommitRows \/ DiscardBackup
  \/ Withdraw \/ Reinstate
  \/ Adopt \/ Repair \/ Sweep \/ Settle

Next == ReducerStep \/ CommitOrAdoption \/ Kill

Spec == Init /\ [][Next]_vars

-----------------------------------------------------------------------------
(* Safety.                                                                 *)

Says(file) == IF file = NoFile THEN NoFile ELSE file.says

\* The ledger of the last commit survives: it is published or in a backup,
\* whichever command is killed at whichever step, adoptions included.
CommittedLedgerKept ==
  committed # NoFile =>
    \/ Says(ledger) = Says(committed)
    \/ \E b \in backups : Says(b.file) = Says(committed)

\* An adoption leaves the ledger of the last commit published and no backup,
\* so that what the new coordinator reads agrees with the rows it reads.
AdoptionRestores ==
  [][Settle => Says(ledger) = Says(committed) /\ backups = {}]_vars

\* A commit that fails without being killed leaves no trace.
FailedCommitLeavesNoTrace ==
  Free /\ (\A r \in Reducer : kills[r] = 0) => Says(ledger) = Says(committed)

\* A published ledger that no commit stored belongs to the active reducer, so
\* that a later commit or adoption knows whose it is.
UncommittedIsActive ==
  Free /\ ledger # NoFile /\ ledger # committed => ledger.at \in Active

-----------------------------------------------------------------------------
(* The inductive invariant, for reducers that change the ledger and commits *)
(* that are killed at most once before their rows are stored.               *)

ReducersInOrder ==
  /\ \A r \in Active, q \in Reducer : status[q] # "none" => q <= r
  /\ \A r \in Reducer :
       /\ status[r] = "none" => staged[r] = NoFile
       /\ r \in attempted => staged[r] # NoFile
       /\ kills[r] # 0 => r \in attempted

CommitIsOfActive ==
  command.step \in CommitStep \ {"stored"} =>
    command.of \in Active \cap attempted

\* The ledger of the last commit is that of a reducer that succeeded.
CommittedIsStored ==
  committed # NoFile /\ committed.at # 0 =>
    /\ status[committed.at] = "succeeded"
    /\ staged[committed.at] = committed.says

ProposalsDiffer ==
  \A r \in Active : committed # NoFile => staged[r] # committed.says

Own(r) == [says |-> staged[r], at |-> r]

\* B holds nothing that is newer than the committed ledger, if there is one.
NothingNewer(B) ==
  \A b \in B : b.file = committed \/ b.file.at < committed.at

\* B is what killed commits left behind after they had stored their rows.
LeftBehind(B) ==
  B # {} => committed # NoFile /\ committed.at # 0 /\ NothingNewer(B)

\* The committed ledger is in B and nowhere else.
KeptIn(B) ==
  /\ committed # NoFile
  /\ NothingNewer(B)
  /\ \E b \in B : b.file = committed /\ (committed.at = 0 => B = {b})

\* An active reducer's ledger was published in place of the committed one.
Displaced(B) == (committed = NoFile /\ B = {}) \/ KeptIn(B)

InPlace == ledger = committed /\ LeftBehind(backups)

\* What a killed commit leaves to the next command.
Interrupted ==
  \E r \in Active :
    /\ kills[r] = 1
    /\ \/ ledger = Own(r) /\ Displaced(backups)
       \/ ledger = NoFile /\ KeptIn(backups)

\* How a commit that has begun to move files can still be undone.
Undoable ==
  LET rest == backups \ command.mine
  IN \/ \E m \in backups :
          /\ command.mine = {m}
          /\ \/ m.file = committed /\ LeftBehind(rest)
             \/ /\ m.file = Own(command.of)
                /\ kills[command.of] = 1
                /\ Displaced(rest)
     \/ /\ command.mine = {}
        /\ \/ committed = NoFile /\ backups = {}
           \/ kills[command.of] = 1 /\ KeptIn(backups)

FilesFit ==
  /\ command.step \in {"idle", "repairing"} => InPlace \/ Interrupted
  /\ Doing("started") => command.mine = {} /\ (InPlace \/ Interrupted)
  /\ Doing("moved") => ledger = NoFile /\ command.mine # {} /\ Undoable
  /\ Doing("published") => ledger = Own(command.of) /\ Undoable
  /\ Doing("withdrawn") => ledger = NoFile /\ Undoable
  /\ command.step \in {"stored", "sweeping"} => InPlace
  /\ Doing("settling") => ledger = committed /\ backups = {}

IInv ==
  /\ TypeOK
  /\ ReducersInOrder
  /\ CommitIsOfActive
  /\ CommittedIsStored
  /\ ProposalsDiffer
  /\ FilesFit
=============================================================================
