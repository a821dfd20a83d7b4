------------------------- MODULE FindingRemediation -------------------------
(***************************************************************************)
(* The fixes requested for one finding of a completed scan: the rows of    *)
(* finding_remediation_attempts, the finding's triage, and the checkout    *)
(* the fixes are applied to.  Panels, agents and retries call the          *)
(* workbench in any order with any token.  Three commands read the row and *)
(* hash the checkout before they open their transaction, so they are two   *)
(* steps here: the check, which fills the caller's slot of `call', and the *)
(* commit, which sees only what its UPDATE and its second look test.       *)
(* Recording a patch as applied reads the checkout twice before that.      *)
(***************************************************************************)
EXTENDS Naturals

CONSTANTS
  Request,     \* request ids
  Token,       \* action tokens
  Caller,      \* commands that may be between check and commit
  Edit,        \* the states of the user's own work in the checkout
  NoToken,     \* pending_action_claim_token IS NULL
  NoContent,   \* applied_content_digest IS NULL
  MaxVersion,  \* bound on the version of a row
  MaxCreated   \* bound on the number of attempts inserted

ASSUME TokenAssumption == NoToken \notin Token
ASSUME BoundAssumption == MaxVersion \in Nat /\ MaxCreated \in Nat

\* What the checkout holds: the user's work and the patches applied to it.
Content == [edit: Edit, patches: SUBSET Request]
ASSUME ContentAssumption == NoContent \notin Content

State == {"idle", "requested", "generated", "applied", "verifying",
          "verified", "failed", "superseded"}
Action == {"generate", "apply", "verify"}
UpdateState == {"generated", "applied", "verifying", "verified", "failed"}

\* A row; state "idle" when there is none.
Attempt == [state: State, version: 0..MaxVersion, created: 0..MaxCreated,
            base: Content \cup {NoContent}, patch: BOOLEAN,
            applied: Content \cup {NoContent},
            edited: BOOLEAN,  \* history: while `applied' was being proved
            pending: Action \cup {"none"}, token: Token \cup {NoToken},
            delivered: BOOLEAN, stale: BOOLEAN]

NoAttempt == [state |-> "idle", version |-> 0, created |-> 0,
              base |-> NoContent, patch |-> FALSE, applied |-> NoContent,
              edited |-> FALSE, pending |-> "none", token |-> NoToken,
              delivered |-> FALSE, stale |-> FALSE]

VARIABLES
  attempt,   \* the rows, by request id
  created,   \* how many rows were ever inserted: their order
  triage,    \* "open" or "closed"
  checkout,  \* what the selected checkout holds
  call       \* per caller, what its check found

remVars == <<attempt, created, triage, checkout, call>>

NoCall == [kind |-> "none"]
RequestCall == [kind: {"request"}, req: Request, token: Token, base: Content]
ActionCall == [kind: {"action"}, req: Request, token: Token,
               action: Action, row: Attempt]
SetCall == [kind: {"set"}, req: Request, token: Token, to: UpdateState,
            row: Attempt, applied: Content \cup {NoContent}, edited: BOOLEAN]
\* Between the digest of the checkout and the copy the patch is reversed in.
ApplyingCall == [kind: {"applying"}, req: Request, token: Token, row: Attempt,
                 seen: Content, edited: BOOLEAN]
Call == {NoCall} \cup RequestCall \cup ActionCall \cup SetCall \cup ApplyingCall

RemInit ==
  /\ attempt = [r \in Request |-> NoAttempt]
  /\ created = 0
  /\ triage = "open"
  /\ checkout \in Content
  /\ checkout.patches = {}
  /\ call = [c \in Caller |-> NoCall]

-----------------------------------------------------------------------------
Exists(r) == attempt[r].state # "idle"

\* ORDER BY created_at DESC, rowid DESC LIMIT 1
IsLatest(r) ==
  /\ Exists(r)
  /\ \A q \in Request : Exists(q) => attempt[q].created <= attempt[r].created

ClaimIsActive(a) == a.token # NoToken /\ ~a.stale

\* Every way to drop the claim of a row.
Unclaimed(a) ==
  [a EXCEPT !.token = NoToken, !.delivered = FALSE, !.stale = FALSE]
\* Mutant: the claim outlives the action it was for.
StillClaimed(a) == [a EXCEPT !.pending = "none"]
NotPending(a) == [Unclaimed(a) EXCEPT !.pending = "none"]
ClaimedBy(a, t) ==
  [a EXCEPT !.token = t, !.delivered = FALSE, !.stale = FALSE]

\* What a command keeps of the row it read: not the times of its claim.
Seen(a) == [a EXCEPT !.delivered = FALSE, !.stale = FALSE]

\* The contents the reviewed patch of r turns into c, tested in the code by
\* reversing the patch in a copy of the checkout.
PatchOn(base, r) == [base EXCEPT !.patches = @ \cup {r}]

Return(c) == call' = [call EXCEPT ![c] = NoCall]
Keep == UNCHANGED <<attempt, created, triage>>
-----------------------------------------------------------------------------
(* request-finding-remediation                                             *)

CheckRequest(c, r, t) ==
  /\ call[c] = NoCall
  /\ triage = "open"
  /\ ~Exists(r)
  /\ call' = [call EXCEPT ![c] = [kind |-> "request", req |-> r, token |-> t,
                                  base |-> checkout]]
  /\ Keep /\ UNCHANGED checkout

\* The latest attempt blocks a new one while it is worked on.
Busy(a) ==
  /\ a.pending # "none" \/ a.state \in {"requested", "verifying"}
  /\ a.state # "failed" \/ ClaimIsActive(a)

\* Mutant: a fix that is in the checkout is not superseded.
SupersededBeforeApply(a) ==
  IF a.state = "failed" /\ a.pending # "none" THEN NotPending(a)
  ELSE IF a.state = "generated"
  THEN [NotPending(a) EXCEPT !.state = "superseded", !.version = @ + 1]
  ELSE a
Superseded(a) ==
  IF a.state = "failed" /\ a.pending # "none" THEN NotPending(a)
  ELSE IF a.state \in {"generated", "applied"}
  THEN [NotPending(a) EXCEPT !.state = "superseded", !.version = @ + 1]
  ELSE a

CommitRequest(c) ==
  /\ call[c].kind = "request"
  /\ LET r == call[c].req
     IN IF triage = "closed" \/ Exists(r)
           \/ \E q \in Request : IsLatest(q) /\ Busy(attempt[q])
        THEN UNCHANGED <<attempt, created>>
        ELSE /\ created < MaxCreated
             /\ \A q \in Request : attempt[q].version < MaxVersion
             /\ created' = created + 1
             /\ attempt' = [q \in Request |->
                  IF q = r
                  THEN [NoAttempt EXCEPT
                         !.state = "requested", !.version = 1,
                         !.created = created + 1, !.base = call[c].base,
                         !.pending = "generate", !.token = call[c].token]
                  ELSE IF IsLatest(q) THEN Superseded(attempt[q])
                  ELSE attempt[q]]
  /\ Return(c)
  /\ UNCHANGED <<triage, checkout>>
-----------------------------------------------------------------------------
(* request-finding-remediation-action                                      *)

RequiredState(action) == IF action = "apply" THEN "generated" ELSE "applied"

CheckAction(c, r, t, action) ==
  LET a == attempt[r] IN
  /\ call[c] = NoCall
  /\ triage = "open"
  /\ a.pending = "none"
  /\ a.state = RequiredState(action)
  /\ a.patch
  /\ action = "apply" => checkout = a.base
  /\ action = "verify" /\ a.applied # NoContent => checkout = a.applied
  /\ call' = [call EXCEPT ![c] = [kind |-> "action", req |-> r, token |-> t,
                                  action |-> action, row |-> Seen(a)]]
  /\ Keep /\ UNCHANGED checkout

ActionCommits(c) ==
  LET a == attempt[call[c].req] IN
  /\ triage = "open"
  /\ a.version = call[c].row.version
  /\ a.state # "idle"
  /\ a.pending = "none"

Asked(a, t, action) ==
  [ClaimedBy(a, t) EXCEPT !.pending = action, !.version = @ + 1]

CommitAction(c) ==
  /\ call[c].kind = "action"
  /\ LET r == call[c].req IN
     IF ActionCommits(c)
     THEN /\ attempt[r].version < MaxVersion
          /\ attempt' = [attempt EXCEPT ![r] =
                            Asked(@, call[c].token, call[c].action)]
     ELSE UNCHANGED attempt
  /\ Return(c)
  /\ UNCHANGED <<created, triage, checkout>>
-----------------------------------------------------------------------------
(* set-finding-remediation                                                 *)

Allowed == [
  requested  |-> {"generated", "failed"},
  generated  |-> {"generated", "applied", "failed"},
  applied    |-> {"applied", "verifying", "failed"},
  verifying  |-> {"verifying", "verified", "failed"},
  verified   |-> {"verifying", "verified"},
  failed     |-> {"generated", "applied", "verifying", "verified", "failed"},
  superseded |-> {},
  idle       |-> {}]

AllowedByPending == [
  generate |-> {"generated", "failed"},
  apply    |-> {"applied", "failed"},
  verify   |-> {"verifying", "verified", "failed"}]

\* What recording `to' requires of the checkout, when it is read first.
CheckoutAgrees(a, to) ==
  /\ to = "generated" => checkout = a.base
  /\ to = "applied" => checkout # a.base
  /\ to \in {"verifying", "verified"} /\ a.applied # NoContent
       => checkout = a.applied

SetAsked(a, t, to) ==
  /\ triage = "open"
  /\ a.token = t
  /\ to \in Allowed[a.state]
  /\ a.pending # "none" /\ to \in AllowedByPending[a.pending]
  /\ to \in {"applied", "verifying", "verified"} => a.patch
  /\ CheckoutAgrees(a, to)

CheckSet(c, r, t, to) ==
  LET a == attempt[r] IN
  /\ call[c] = NoCall
  /\ to # "applied"
  /\ SetAsked(a, t, to)
  /\ call' = [call EXCEPT ![c] = [kind |-> "set", req |-> r, token |-> t,
                 to |-> to, row |-> Seen(a),
                 applied |-> a.applied, edited |-> a.edited]]
  /\ Keep /\ UNCHANGED checkout

\* The first read of a checkout said to hold the patch: its digest, which is
\* the one that will be recorded.
CheckApplied(c, r, t) ==
  LET a == attempt[r] IN
  /\ call[c] = NoCall
  /\ SetAsked(a, t, "applied")
  /\ call' = [call EXCEPT ![c] = [kind |-> "applying", req |-> r, token |-> t,
                 row |-> Seen(a), seen |-> checkout, edited |-> FALSE]]
  /\ Keep /\ UNCHANGED checkout

\* Mutant: what the patch left behind is not compared with the base.
PatchIsThere(s) == s.req \in checkout.patches
\* The second read: a copy of the checkout, without the patch, is the base.
PatchIsOn(s) == checkout = PatchOn(s.row.base, s.req)

CompareApplied(c) ==
  /\ call[c].kind = "applying"
  /\ LET s == call[c] IN
     call' = [call EXCEPT ![c] =
       IF PatchIsOn(s)
         THEN [kind |-> "set", req |-> s.req, token |-> s.token,
               to |-> "applied", row |-> s.row,
               applied |-> s.seen, edited |-> s.edited]
         ELSE NoCall]
  /\ Keep /\ UNCHANGED checkout

\* Mutant: the triage is looked at before the transaction only.
SetCommitsIfUnchanged(c) ==
  LET a == attempt[call[c].req] IN
  /\ a.state # "idle"
  /\ a.version = call[c].row.version
  /\ a.token = call[c].token
SetCommits(c) ==
  LET a == attempt[call[c].req] IN
  /\ triage = "open"
  /\ a.state # "idle"
  /\ a.version = call[c].row.version
  /\ a.token = call[c].token

\* Mutant: a recorded result does not count as a new version.
RecordedInPlace(a, s) ==
  LET b == [a EXCEPT !.state = s.to,
                     !.applied = s.applied, !.edited = s.edited,
                     !.patch = s.row.patch \/ s.to = "generated"]
  IN IF s.to = "verifying" THEN b
     ELSE IF s.to = "failed" THEN Unclaimed(b) ELSE NotPending(b)
Recorded(a, s) ==
  LET b == [a EXCEPT !.state = s.to, !.version = @ + 1,
                     !.applied = s.applied, !.edited = s.edited,
                     !.patch = s.row.patch \/ s.to = "generated"]
  IN IF s.to = "verifying" THEN b
     ELSE IF s.to = "failed" THEN Unclaimed(b) ELSE NotPending(b)

CommitSet(c) ==
  /\ call[c].kind = "set"
  /\ LET r == call[c].req IN
     IF SetCommits(c)
     THEN /\ attempt[r].version < MaxVersion
          /\ attempt' = [attempt EXCEPT ![r] = Recorded(@, call[c])]
     ELSE UNCHANGED attempt
  /\ Return(c)
  /\ UNCHANGED <<created, triage, checkout>>
-----------------------------------------------------------------------------
(* The claim on the host message of a pending action                       *)

ClaimResend(r, t) ==
  LET a == attempt[r] IN
  /\ triage = "open"
  /\ a.pending # "none"
  /\ a.token # t
  /\ IF a.delivered THEN a.stale ELSE a.token = NoToken \/ a.stale
  /\ attempt' = [attempt EXCEPT ![r] = ClaimedBy(@, t)]
  /\ UNCHANGED <<created, triage, checkout, call>>

MarkDelivered(r, t) ==
  /\ attempt[r].pending # "none"
  /\ attempt[r].token = t
  /\ attempt' = [attempt EXCEPT ![r].delivered = TRUE, ![r].stale = FALSE]
  /\ UNCHANGED <<created, triage, checkout, call>>

ReleaseClaim(r, t) ==
  /\ attempt[r].pending # "none"
  /\ attempt[r].token = t
  /\ attempt' = [attempt EXCEPT ![r] = Unclaimed(@)]
  /\ UNCHANGED <<created, triage, checkout, call>>

\* The lease of a claim runs out: 120 s, or 900 s once it was delivered.
LeaseRunsOut(r) ==
  /\ attempt[r].token # NoToken
  /\ ~attempt[r].stale
  /\ attempt' = [attempt EXCEPT ![r].stale = TRUE]
  /\ UNCHANGED <<created, triage, checkout, call>>
-----------------------------------------------------------------------------
(* cancel-finding-remediation-request                                      *)

\* Once r is deleted, the attempt before it is the latest again.
IsLatestWithout(q, r) ==
  /\ q # r /\ Exists(q)
  /\ \A p \in Request \ {r} :
       Exists(p) => attempt[p].created <= attempt[q].created

Restored(a) ==
  [a EXCEPT !.state = IF a.applied # NoContent THEN "applied" ELSE "generated",
            !.version = @ + 1]

CancelGeneration(r) ==
  /\ attempt[r].pending = "generate"
  /\ attempt[r].state = "requested"
  /\ \A q \in Request : attempt[q].version < MaxVersion
  /\ attempt' = [q \in Request |->
       IF q = r THEN NoAttempt
       ELSE IF IsLatestWithout(q, r) /\ attempt[q].state = "superseded"
       THEN Restored(attempt[q]) ELSE attempt[q]]

CancelFailed(r) ==
  /\ attempt[r].state = "failed"
  /\ attempt' = [attempt EXCEPT ![r] = Unclaimed(@)]

Withdrawn(a) == [NotPending(a) EXCEPT !.version = @ + 1]

CancelAction(r) ==
  /\ attempt[r].state # "failed"
  /\ attempt[r].pending # "generate"
  /\ attempt[r].version < MaxVersion
  /\ attempt' = [attempt EXCEPT ![r] = Withdrawn(@)]

CancelRequest(r, t) ==
  /\ attempt[r].pending # "none"
  /\ attempt[r].token = t
  /\ CancelFailed(r) \/ CancelGeneration(r) \/ CancelAction(r)
  /\ UNCHANGED <<created, triage, checkout, call>>
-----------------------------------------------------------------------------
(* set-finding-triage, and the user's work in the checkout                 *)

ClosingBlocked(a) == a.pending # "none" /\ ~(a.state = "failed" /\ ~ClaimIsActive(a))

SetTriage(status, reason) ==
  /\ status = "closed" =>
       /\ \A r \in Request : IsLatest(r) => ~ClosingBlocked(attempt[r])
       /\ reason = "already_fixed" =>
            \A r \in Request :
              IsLatest(r) /\ attempt[r].state = "verified"
                /\ attempt[r].applied # NoContent
              => checkout = attempt[r].applied
  /\ triage' = status
  /\ UNCHANGED <<attempt, created, checkout, call>>

\* The user's editor does not wait for a command that reads the checkout.
ChangeCheckout(content) ==
  /\ content # checkout
  /\ checkout' = content
  /\ call' = [c \in Caller |->
       IF call[c].kind = "applying" THEN [call[c] EXCEPT !.edited = TRUE]
       ELSE call[c]]
  /\ Keep
-----------------------------------------------------------------------------
RequestStep == \E c \in Caller, r \in Request, t \in Token :
                 CheckRequest(c, r, t)
ActionStep == \E c \in Caller, r \in Request, t \in Token,
                 action \in {"apply", "verify"} : CheckAction(c, r, t, action)
SetStep == \E c \in Caller, r \in Request, t \in Token :
             \/ \E to \in UpdateState : CheckSet(c, r, t, to)
             \/ CheckApplied(c, r, t)
CommitStep == \E c \in Caller :
                \/ CommitRequest(c) \/ CommitAction(c) \/ CommitSet(c)
                \/ CompareApplied(c)
ClaimStep == \E r \in Request, t \in Token :
               \/ ClaimResend(r, t)
               \/ MarkDelivered(r, t)
               \/ ReleaseClaim(r, t)
               \/ CancelRequest(r, t)
TriageStep == \/ SetTriage("open", "none")
              \/ \E reason \in {"already_fixed", "wont_fix"} :
                   SetTriage("closed", reason)

RemNext ==
  \/ RequestStep
  \/ ActionStep
  \/ SetStep
  \/ CommitStep
  \/ ClaimStep
  \/ TriageStep
  \/ \E r \in Request : LeaseRunsOut(r)
  \/ \E content \in Content : ChangeCheckout(content)

RemSpec == RemInit /\ [][RemNext]_remVars
-----------------------------------------------------------------------------
RemTypeOK ==
  /\ attempt \in [Request -> Attempt]
  /\ created \in 0..MaxCreated
  /\ triage \in {"open", "closed"}
  /\ checkout \in Content
  /\ call \in [Caller -> Call]
  /\ \A r \in Request : LET a == attempt[r] IN
       /\ a.token # NoToken => a.pending # "none"
       /\ a.delivered \/ a.stale => a.token # NoToken

Live(r) == attempt[r].state \in {"requested", "generated", "applied", "verifying"}

\* At most one attempt of a finding is worked on, and it is the newest: a
\* request supersedes the one before it, and a cancellation brings back only
\* the one that then is the newest.
OneLiveAttempt ==
  \A r \in Request :
    Live(r) \/ attempt[r].pending # "none" => IsLatest(r)

\* A state that says the fix is in the checkout was recorded with exactly the
\* reviewed patch on top of the content the fix was generated for, however the
\* checkout changed before and after; only while the patch was being proved on
\* it, between the two reads, the user must have left it alone.
FixIsTheReviewedPatch ==
  \A r \in Request :
    LET a == attempt[r] IN
    a.state \in {"applied", "verifying", "verified"} =>
      a.patch /\ (a.edited \/ a.applied = PatchOn(a.base, r))

\* A closed finding is not being worked on: what a failed attempt leaves
\* pending cannot be taken up while the finding stays closed.
ClosedIsQuiet ==
  triage = "closed" =>
    \A r \in Request : attempt[r].pending # "none" => attempt[r].state = "failed"

\* A row that still has the version and the token a command read still has the
\* state, the action and the patch it read, though releasing and taking over
\* the claim leave the version alone: the UPDATE may trust the early checks.
\* (Provided the row was not deleted by a cancellation and inserted again under
\* the same request id and token: the version starts at 1 again.)
CompareAndSwapIsSound ==
  \A c \in Caller :
    call[c].kind \in {"set", "action"} =>
      LET a == attempt[call[c].req] b == call[c].row IN
      /\ call[c].kind = "set" /\ SetCommits(c) /\ a.created = b.created =>
           <<a.state, a.pending, a.patch, a.base, a.applied>> =
             <<b.state, b.pending, b.patch, b.base, b.applied>>
      /\ call[c].kind = "action" /\ ActionCommits(c) /\ a.created = b.created =>
           a.state = b.state
=============================================================================
