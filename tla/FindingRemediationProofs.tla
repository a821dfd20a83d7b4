----------------------- MODULE FindingRemediationProofs -----------------------
(***************************************************************************)
(* The rows of a finding's remediation stay consistent for every number of *)
(* requests, tokens and callers between their check and their commit.      *)
(***************************************************************************)
EXTENDS FindingRemediation, TLAPS

\* What a row says by itself.
RowFits(a, r) ==
  /\ a.state = "idle" => a.version = 0 /\ a.created = 0 /\ a.pending = "none"
  /\ a.state # "idle" => a.version >= 1 /\ a.created >= 1
  /\ a.state = "requested" <=> a.version = 1
  /\ a.state = "requested" =>
       a.pending = "generate" /\ ~a.patch /\ a.applied = NoContent /\ ~a.edited
  /\ a.applied # NoContent =>
       a.patch /\ (a.edited \/ a.applied = PatchOn(a.base, r))
  /\ a.state \in {"applied", "verifying", "verified"} \/ a.pending = "verify" =>
       a.applied # NoContent

TokenFits(a) ==
  /\ a.token # NoToken => a.pending # "none"
  /\ a.delivered \/ a.stale => a.token # NoToken

\* What the version and the time of insertion pin down.
Core(a) == <<a.state, a.patch, a.base, a.applied, a.edited>>

\* What a caller read of row b, beside what the row a is by now: a row that was
\* recorded once is never deleted, and only the first version can come back.
StillFits(a, b) ==
  /\ b.version >= 2 => a.state # "idle" /\ a.created = b.created
  /\ a.state # "idle" /\ a.created = b.created =>
       /\ a.version >= b.version
       /\ a.base = b.base
       /\ a.version = b.version =>
            Core(a) = Core(b) /\ a.pending \in {b.pending, "none"}

ReadFits(s) ==
  /\ s.row.state # "idle" /\ s.row.created <= created
  /\ RowFits(s.row, s.req)
  /\ StillFits(attempt[s.req], s.row)

SetFits(s) ==
  /\ s.row.state = "requested" => s.to \in {"generated", "failed"}
  /\ s.to \in {"applied", "verifying", "verified"} => s.row.patch
  /\ s.to \in {"verifying", "verified"} => s.row.pending = "verify"
  /\ s.to # "applied" =>
       s.applied = s.row.applied /\ s.edited = s.row.edited
  /\ s.to = "applied" =>
       /\ s.applied # NoContent
       /\ s.edited \/ s.applied = PatchOn(s.row.base, s.req)

\* Between the two reads: unless it was edited, the checkout is still the one
\* whose digest was taken.
ApplyingFits(s) ==
  /\ s.row.state # "requested" /\ s.row.patch
  /\ s.edited \/ s.seen = checkout

ActionFits(s) ==
  /\ s.row.state = RequiredState(s.action)
  /\ s.action \in {"apply", "verify"}

CallFits(s) ==
  /\ s.kind \in {"set", "action", "applying"} => ReadFits(s)
  /\ s.kind = "set" => SetFits(s)
  /\ s.kind = "applying" => ApplyingFits(s)
  /\ s.kind = "action" => ActionFits(s)

RowsInOrder ==
  \A r, q \in Request :
    /\ attempt[r].created <= created
    /\ Exists(r) /\ Exists(q) /\ r # q => attempt[r].created # attempt[q].created

\* The inductive invariant.
RemInv ==
  /\ RemTypeOK
  /\ \A r \in Request : RowFits(attempt[r], r)
  /\ RowsInOrder
  /\ \A c \in Caller : CallFits(call[c])
  /\ OneLiveAttempt
  /\ ClosedIsQuiet

LEMMA RemStarts == RemInit => RemInv
<1> SUFFICES ASSUME RemInit PROVE RemInv
  OBVIOUS
<1> USE DEF RemInit
<1>1. NoAttempt \in Attempt
  BY BoundAssumption DEF NoAttempt, Attempt, State
<1>2. RemTypeOK
  BY <1>1, BoundAssumption DEF RemTypeOK, Call, NoAttempt
<1>3. \A r \in Request : attempt[r] = NoAttempt
  OBVIOUS
<1>4. /\ NoAttempt.state = "idle" /\ NoAttempt.version = 0
      /\ NoAttempt.created = 0 /\ NoAttempt.pending = "none"
      /\ NoAttempt.applied = NoContent
  BY DEF NoAttempt
<1>5. \A r \in Request : RowFits(NoAttempt, r)
  BY <1>4, "idle" \notin {"requested", "applied", "verifying", "verified"},
     "none" # "verify", 0 # 1
     DEF RowFits
<1>6. \A r \in Request : RowFits(attempt[r], r) /\ ~Exists(r) /\ ~Live(r)
  BY <1>3, <1>4, <1>5 DEF Exists, Live
<1>7. \A c \in Caller : CallFits(call[c])
  BY DEF CallFits, NoCall
<1>8. RowsInOrder
  BY <1>3, <1>4, <1>6 DEF RowsInOrder
<1>9. OneLiveAttempt /\ ClosedIsQuiet
  BY <1>3, <1>4, <1>6 DEF OneLiveAttempt, ClosedIsQuiet
<1> QED
  BY <1>2, <1>6, <1>7, <1>8, <1>9 DEF RemInv

-----------------------------------------------------------------------------
(* How a row may change                                                    *)

\* The same version, or the next one of the same row.
Proceeds(a, x) ==
  /\ a.state # "idle" /\ x.state # "idle"
  /\ x.created = a.created /\ x.base = a.base
  /\ \/ x.version = a.version /\ Core(x) = Core(a)
        /\ x.pending \in {a.pending, "none"}
     \/ x.version = a.version + 1

\* Deleted in its first version, or inserted after all that were read.
ComesOrGoes(a, x) ==
  \/ a.version = 1 /\ x.state = "idle"
  \/ a.state = "idle" /\ x.version = 1 /\ x.created > created

LEMMA ReadStillFits ==
  ASSUME created \in Nat, NEW a \in Attempt, NEW b \in Attempt, NEW x \in Attempt,
         StillFits(a, b), b.created <= created,
         x = a \/ Proceeds(a, x) \/ ComesOrGoes(a, x)
  PROVE  StillFits(x, b)
<1> USE BoundAssumption
<1>1. /\ a.version \in Nat /\ b.version \in Nat /\ x.version \in Nat
      /\ a.created \in Nat /\ b.created \in Nat /\ x.created \in Nat
  BY DEF Attempt
<1>2. CASE x = a
  BY <1>2
<1>3. CASE Proceeds(a, x)
  BY <1>1, <1>3 DEF Proceeds, StillFits, Core
<1>4. CASE ComesOrGoes(a, x)
  BY <1>1, <1>4 DEF ComesOrGoes, StillFits
<1> QED
  BY <1>2, <1>3, <1>4

\* Calls that only return fit rows that change so.
LEMMA CallsStillFit ==
  ASSUME RemInv, RemTypeOK', created' >= created, UNCHANGED checkout,
         \A c \in Caller : call'[c] = call[c] \/ call'[c] = NoCall,
         \A r \in Request :
           \/ attempt'[r] = attempt[r]
           \/ Proceeds(attempt[r], attempt'[r])
           \/ ComesOrGoes(attempt[r], attempt'[r])
  PROVE  \A c \in Caller : CallFits(call[c])'
<1> USE BoundAssumption
<1> SUFFICES ASSUME NEW c \in Caller PROVE CallFits(call[c])'
  OBVIOUS
<1>1. CASE call'[c] = NoCall
  BY <1>1 DEF CallFits, NoCall
<1>2. CASE call'[c] = call[c] /\ call[c].kind \notin {"set", "action", "applying"}
  BY <1>2 DEF CallFits
<1>3. CASE call'[c] = call[c] /\ call[c].kind \in {"set", "action", "applying"}
  <2> DEFINE s == call[c]
  <2>1. s.req \in Request /\ s.row \in Attempt
    BY <1>3 DEF RemInv, RemTypeOK, Call, NoCall, RequestCall, ActionCall,
                   SetCall, ApplyingCall
  <2>2. /\ created \in Nat /\ created' \in Nat
        /\ attempt[s.req] \in Attempt /\ attempt'[s.req] \in Attempt
    BY <2>1 DEF RemInv, RemTypeOK
  <2>3. CallFits(s)
    BY DEF RemInv
  <2>4. ReadFits(s)
    BY <1>3, <2>3 DEF CallFits
  <2> HIDE DEF s
  <2>5. StillFits(attempt'[s.req], s.row)
    BY <2>1, <2>2, <2>4, ReadStillFits DEF ReadFits
  <2>6. s.row.created <= created'
    BY <2>1, <2>2, <2>4 DEF ReadFits, Attempt
  <2>7. ReadFits(call[c])'
    BY <1>3, <2>4, <2>5, <2>6 DEF ReadFits, s
  <2> QED
    BY <1>3, <2>3, <2>7 DEF CallFits, s, SetFits, ActionFits, ApplyingFits
<1> QED
  BY <1>1, <1>2, <1>3

\* A step that changes one row, and lets calls return.
LEMMA OneRowChanges ==
  ASSUME RemInv, NEW r \in Request, NEW x \in Attempt,
         attempt' = [attempt EXCEPT ![r] = x],
         UNCHANGED <<created, triage, checkout>>,
         call' \in [Caller -> Call],
         \A c \in Caller : call'[c] = call[c] \/ call'[c] = NoCall,
         RowFits(x, r), TokenFits(x), Proceeds(attempt[r], x),
         IsLatest(r),
         triage = "closed" /\ x.pending # "none" => x.state = "failed"
  PROVE  RemInv'
<1> USE BoundAssumption
<1>t. RemTypeOK
  BY DEF RemInv
<1>1. \A q \in Request : attempt'[q] = IF q = r THEN x ELSE attempt[q]
  BY <1>t DEF RemTypeOK
<1>2. RemTypeOK'
  BY <1>t, <1>1 DEF RemTypeOK, TokenFits
<1>3. \A q \in Request : RowFits(attempt[q], q)'
  BY <1>1 DEF RemInv, RowFits
<1>4. /\ x.created = attempt[r].created
      /\ attempt[r].state # "idle" /\ x.state # "idle"
  BY DEF Proceeds
<1>5. \A q \in Request :
        attempt'[q].created = attempt[q].created /\ Exists(q)' = Exists(q)
  BY <1>1, <1>4 DEF Exists
<1>6. RowsInOrder'
  BY <1>5 DEF RemInv, RowsInOrder
<1>7. \A c \in Caller : CallFits(call[c])'
  <2>1. created' >= created
    BY <1>t DEF RemTypeOK
  <2> QED
    BY <1>1, <1>2, <2>1, CallsStillFit
<1>8. OneLiveAttempt'
  <2>1. \A q \in Request : IsLatest(q)' = IsLatest(q)
    BY <1>5 DEF IsLatest
  <2> QED
    BY <1>1, <2>1 DEF RemInv, OneLiveAttempt, Live
<1>9. ClosedIsQuiet'
  BY <1>1 DEF RemInv, ClosedIsQuiet
<1> QED
  BY <1>2, <1>3, <1>6, <1>7, <1>8, <1>9 DEF RemInv

\* A step of the checks: the rows stay, and a call made now fits them.
LEMMA OnlyCallsChange ==
  ASSUME RemInv, UNCHANGED <<attempt, created, triage, checkout>>,
         call' \in [Caller -> Call],
         \A c \in Caller : call'[c] = call[c] \/ CallFits(call'[c])
  PROVE  RemInv'
<1>1. RemTypeOK'
  BY DEF RemInv, RemTypeOK
<1>2. \A c \in Caller : CallFits(call[c])'
  BY DEF RemInv, CallFits, ReadFits, SetFits, ActionFits, ApplyingFits
<1>3. (\A r \in Request : RowFits(attempt[r], r))' /\ RowsInOrder'
  BY DEF RemInv, RowFits, RowsInOrder, Exists
<1>4. OneLiveAttempt' /\ ClosedIsQuiet'
  BY DEF RemInv, OneLiveAttempt, ClosedIsQuiet, Live, IsLatest, Exists
<1> QED
  BY <1>1, <1>2, <1>3, <1>4 DEF RemInv

LEMMA KindOfCall ==
  ASSUME RemTypeOK, NEW c \in Caller
  PROVE  /\ call[c].kind = "request" => call[c] \in RequestCall
         /\ call[c].kind = "action" => call[c] \in ActionCall
         /\ call[c].kind = "set" => call[c] \in SetCall
         /\ call[c].kind = "applying" => call[c] \in ApplyingCall
BY DEF RemTypeOK, Call, NoCall, RequestCall, ActionCall, SetCall, ApplyingCall

\* A command that returns leaves the calls of the others alone.
LEMMA Returns ==
  ASSUME RemTypeOK, NEW c \in Caller, Return(c)
  PROVE  /\ call' \in [Caller -> Call]
         /\ \A d \in Caller : call'[d] = call[d] \/ call'[d] = NoCall
BY DEF RemTypeOK, Return, Call

LEMMA NoCallFits == CallFits(NoCall)
BY DEF CallFits, NoCall

-----------------------------------------------------------------------------
(* The checks: what a command read of a row fits it when it is read        *)

LEMMA SeenFits ==
  ASSUME RemInv, NEW r \in Request, attempt[r].state # "idle"
  PROVE  /\ Seen(attempt[r]) \in Attempt
         /\ RowFits(Seen(attempt[r]), r)
         /\ StillFits(attempt[r], Seen(attempt[r]))
         /\ Seen(attempt[r]).state # "idle"
         /\ Seen(attempt[r]).created <= created
<1> DEFINE a == attempt[r]
<1>1. a \in Attempt /\ RowFits(a, r) /\ a.created <= created
  BY DEF RemInv, RemTypeOK, RowsInOrder
<1>2. /\ Seen(a) \in Attempt
      /\ Seen(a).state = a.state /\ Seen(a).version = a.version
      /\ Seen(a).created = a.created /\ Seen(a).base = a.base
      /\ Seen(a).patch = a.patch /\ Seen(a).applied = a.applied
      /\ Seen(a).pending = a.pending /\ Seen(a).edited = a.edited
  BY <1>1 DEF Seen, Attempt
<1>3. a.version \in Nat
  BY <1>1, BoundAssumption DEF Attempt
<1> HIDE DEF a
<1>4. RowFits(Seen(a), r)
  BY <1>1, <1>2 DEF RowFits
<1>5. StillFits(a, Seen(a))
  BY <1>2, <1>3 DEF StillFits, Core, a
<1> QED
  BY <1>1, <1>2, <1>4, <1>5 DEF a

\* What the two tables of the transitions allow.
LEMMA AllowedSteps ==
  ASSUME NEW st \in State, NEW p \in Action, NEW to,
         to \in Allowed[st], to \in AllowedByPending[p]
  PROVE  /\ st # "idle"
         /\ st = "requested" => to \in {"generated", "failed"}
         /\ to \in {"verifying", "verified"} => p = "verify"
         /\ to = "applied" => p = "apply"
<1>1. st # "idle"
  BY DEF Allowed
<1>2. st = "requested" => to \in {"generated", "failed"}
  BY DEF Allowed
<1>3. CASE p = "generate"
  BY <1>1, <1>2, <1>3 DEF AllowedByPending
<1>4. CASE p = "apply"
  BY <1>1, <1>2, <1>4 DEF AllowedByPending
<1>5. CASE p = "verify"
  BY <1>1, <1>2, <1>5 DEF AllowedByPending
<1> QED
  BY <1>3, <1>4, <1>5 DEF Action

LEMMA CheckRequestKeeps ==
  ASSUME RemInv, NEW c \in Caller, NEW r \in Request, NEW t \in Token,
         CheckRequest(c, r, t)
  PROVE  RemInv'
<1> DEFINE s == [kind |-> "request", req |-> r, token |-> t, base |-> checkout]
<1>1. s \in Call /\ call' = [call EXCEPT ![c] = s]
  BY DEF RemInv, RemTypeOK, CheckRequest, Call, RequestCall
<1>2. CallFits(s)
  BY DEF CallFits
<1> HIDE DEF s
<1> QED
  BY <1>1, <1>2, OnlyCallsChange
     DEF RemInv, RemTypeOK, CheckRequest, Keep

LEMMA CheckActionKeeps ==
  ASSUME RemInv, NEW c \in Caller, NEW r \in Request, NEW t \in Token,
         NEW action \in {"apply", "verify"}, CheckAction(c, r, t, action)
  PROVE  RemInv'
<1> DEFINE a == attempt[r]
           s == [kind |-> "action", req |-> r, token |-> t,
                 action |-> action, row |-> Seen(a)]
<1>1. a.state = RequiredState(action) /\ a.state # "idle"
  BY DEF CheckAction, RequiredState
<1>2. Seen(a) \in Attempt /\ Seen(a).state = a.state
  BY <1>1, SeenFits DEF RemInv, RemTypeOK, Attempt, Seen
<1>3. s \in Call /\ call' = [call EXCEPT ![c] = s]
  BY <1>2 DEF CheckAction, Call, ActionCall, Action
<1>4. ReadFits(s)
  BY <1>1, SeenFits DEF ReadFits
<1>5. CallFits(s)
  BY <1>1, <1>2, <1>4 DEF CallFits, ActionFits
<1> HIDE DEF s
<1> QED
  BY <1>3, <1>5, OnlyCallsChange DEF RemInv, RemTypeOK, CheckAction, Keep

\* What a command that may record `to' found in the row.
LEMMA SetAskedFits ==
  ASSUME RemInv, NEW r \in Request, NEW t, NEW to, SetAsked(attempt[r], t, to)
  PROVE  LET a == attempt[r] IN
         /\ a.state # "idle"
         /\ a.state = "requested" => to \in {"generated", "failed"}
         /\ to \in {"verifying", "verified"} => a.pending = "verify"
         /\ to \in {"applied", "verifying", "verified"} => a.patch
<1> DEFINE a == attempt[r]
<1>1. a \in Attempt
  BY DEF RemInv, RemTypeOK
<1>2. /\ a.state \in State /\ a.pending \in Action
      /\ to \in Allowed[a.state] /\ to \in AllowedByPending[a.pending]
      /\ to \in {"applied", "verifying", "verified"} => a.patch
  BY <1>1 DEF SetAsked, Attempt
<1> HIDE DEF a
<1>3. /\ a.state # "idle"
      /\ a.state = "requested" => to \in {"generated", "failed"}
      /\ to \in {"verifying", "verified"} => a.pending = "verify"
  BY <1>2, AllowedSteps
<1> QED
  BY <1>2, <1>3 DEF a

\* The fields of a row that a command reads.
LEMMA SeenFields ==
  ASSUME NEW a \in Attempt
  PROVE  /\ Seen(a) \in Attempt /\ Seen(a).state = a.state
         /\ Seen(a).pending = a.pending /\ Seen(a).patch = a.patch
         /\ Seen(a).applied = a.applied /\ Seen(a).base = a.base
         /\ Seen(a).edited = a.edited
BY DEF Attempt, Seen

LEMMA CheckSetKeeps ==
  ASSUME RemInv, NEW c \in Caller, NEW r \in Request, NEW t \in Token,
         NEW to \in UpdateState, CheckSet(c, r, t, to)
  PROVE  RemInv'
<1> DEFINE a == attempt[r]
           s == [kind |-> "set", req |-> r, token |-> t, to |-> to,
                 row |-> Seen(a), applied |-> a.applied, edited |-> a.edited]
<1>1. /\ a \in Attempt /\ a.applied \in Content \cup {NoContent}
      /\ a.edited \in BOOLEAN
  BY DEF RemInv, RemTypeOK, Attempt
<1>2. SetAsked(a, t, to) /\ to # "applied"
  BY DEF CheckSet
<1>3. /\ a.state # "idle"
      /\ a.state = "requested" => to \in {"generated", "failed"}
      /\ to \in {"verifying", "verified"} => a.pending = "verify"
      /\ to \in {"applied", "verifying", "verified"} => a.patch
  BY <1>2, SetAskedFits
<1>4. s \in Call /\ call' = [call EXCEPT ![c] = s]
  BY <1>1, SeenFields DEF CheckSet, Call, SetCall
<1>5. ReadFits(s)
  BY <1>3, SeenFits DEF ReadFits
<1>6. SetFits(s)
  BY <1>1, <1>2, <1>3, SeenFields DEF SetFits
<1>7. CallFits(s)
  BY <1>5, <1>6 DEF CallFits
<1> HIDE DEF s
<1> QED
  BY <1>4, <1>7, OnlyCallsChange DEF RemInv, RemTypeOK, CheckSet, Keep

LEMMA CheckAppliedKeeps ==
  ASSUME RemInv, NEW c \in Caller, NEW r \in Request, NEW t \in Token,
         CheckApplied(c, r, t)
  PROVE  RemInv'
<1> DEFINE a == attempt[r]
           s == [kind |-> "applying", req |-> r, token |-> t,
                 row |-> Seen(a), seen |-> checkout, edited |-> FALSE]
<1>1. a \in Attempt /\ checkout \in Content
  BY DEF RemInv, RemTypeOK
<1>2. a.state \notin {"idle", "requested"} /\ a.patch
  BY SetAskedFits DEF CheckApplied
<1>3. s \in Call /\ call' = [call EXCEPT ![c] = s]
  BY <1>1, SeenFields DEF CheckApplied, Call, ApplyingCall
<1>4. ReadFits(s)
  BY <1>2, SeenFits DEF ReadFits
<1>5. ApplyingFits(s)
  BY <1>1, <1>2, SeenFields DEF ApplyingFits
<1>6. CallFits(s)
  BY <1>4, <1>5 DEF CallFits
<1> HIDE DEF s
<1> QED
  BY <1>3, <1>6, OnlyCallsChange DEF RemInv, RemTypeOK, CheckApplied, Keep

\* The second read: what is recorded is the first digest, and the patch was on
\* the content of the second.
LEMMA CompareAppliedKeeps ==
  ASSUME RemInv, NEW c \in Caller, CompareApplied(c)
  PROVE  RemInv'
<1> DEFINE s == call[c]
           n == [kind |-> "set", req |-> s.req, token |-> s.token,
                 to |-> "applied", row |-> s.row,
                 applied |-> s.seen, edited |-> s.edited]
<1>1. s \in ApplyingCall
  BY KindOfCall DEF CompareApplied, RemInv
<1>2. /\ s.req \in Request /\ s.token \in Token /\ s.row \in Attempt
      /\ s.seen \in Content /\ s.edited \in BOOLEAN
  BY <1>1 DEF ApplyingCall
<1>3. ReadFits(s) /\ ApplyingFits(s)
  BY DEF RemInv, CallFits, CompareApplied
<1>4. CASE ~PatchIsOn(s)
  <2>1. call' = [call EXCEPT ![c] = NoCall]
    BY <1>4 DEF CompareApplied
  <2> QED
    BY <2>1, NoCallFits, OnlyCallsChange
       DEF RemInv, RemTypeOK, CompareApplied, Keep, Call
<1>5. CASE PatchIsOn(s)
  <2>1. call' = [call EXCEPT ![c] = n]
    BY <1>5 DEF CompareApplied
  <2>2. checkout = PatchOn(s.row.base, s.req)
    BY <1>5 DEF PatchIsOn
  <2> HIDE DEF s
  <2>3. n \in Call
    BY <1>2 DEF Call, SetCall, UpdateState
  <2>4. ReadFits(n)
    BY <1>3 DEF ReadFits
  <2>5. SetFits(n)
    BY <1>2, <1>3, <2>2, ContentAssumption DEF SetFits, ApplyingFits
  <2>6. CallFits(n)
    BY <2>4, <2>5 DEF CallFits
  <2> HIDE DEF n
  <2> QED
    BY <2>1, <2>3, <2>6, OnlyCallsChange
       DEF RemInv, RemTypeOK, CompareApplied, Keep
<1> QED
  BY <1>4, <1>5

-----------------------------------------------------------------------------
(* The commits                                                             *)

\* A command that finds its row changed only returns.
LEMMA GivesUp ==
  ASSUME RemInv, NEW c \in Caller, Return(c),
         UNCHANGED <<attempt, created, triage, checkout>>
  PROVE  RemInv'
<1>1. RemTypeOK
  BY DEF RemInv
<1> QED
  BY <1>1, Returns, NoCallFits, OnlyCallsChange DEF RemTypeOK

\* The action a command asks for still starts from the state it read.
LEMMA ActionStillFits ==
  ASSUME RemInv, NEW c \in Caller, call[c].kind = "action", ActionCommits(c)
  PROVE  /\ call[c] \in ActionCall
         /\ call[c].action \in {"apply", "verify"}
         /\ attempt[call[c].req].created = call[c].row.created
         /\ attempt[call[c].req].state = RequiredState(call[c].action)
         /\ call[c].row.state = RequiredState(call[c].action)
<1> USE BoundAssumption
<1> DEFINE s == call[c]
           a == attempt[s.req]
<1>1. s \in ActionCall
  BY KindOfCall DEF RemInv
<1>2. s.req \in Request /\ s.row \in Attempt /\ a \in Attempt
  BY <1>1 DEF ActionCall, RemInv, RemTypeOK
<1>3. ReadFits(s) /\ ActionFits(s)
  BY DEF RemInv, CallFits
<1> HIDE DEF s
<1>4. s.row.state # "idle" /\ s.row.state # "requested"
  BY <1>3 DEF ActionFits, RequiredState
<1>5. s.row.version \in Nat /\ s.row.version >= 2
  <2>1. s.row.version \in Nat
    BY <1>2 DEF Attempt
  <2>2. s.row.version >= 1 /\ s.row.version # 1
    BY <1>3, <1>4 DEF ReadFits, RowFits
  <2> QED
    BY <2>1, <2>2
<1>6. a.created = s.row.created /\ a.state # "idle"
  BY <1>3, <1>5 DEF ReadFits, StillFits
<1>7. a.version = s.row.version
  BY DEF ActionCommits, s
<1>8. a.state = s.row.state
  BY <1>3, <1>6, <1>7 DEF ReadFits, StillFits, Core
<1> QED
  BY <1>1, <1>3, <1>6, <1>8 DEF ActionFits, s

LEMMA CommitActionKeeps ==
  ASSUME RemInv, NEW c \in Caller, CommitAction(c)
  PROVE  RemInv'
<1> USE BoundAssumption
<1>1. CASE ~ActionCommits(c)
  BY <1>1, GivesUp DEF CommitAction
<1>2. CASE ActionCommits(c)
  <2> DEFINE r == call[c].req
             a == attempt[r]
             y == ClaimedBy(a, call[c].token)
             v == y.version + 1
             x == Asked(a, call[c].token, call[c].action)
  <2>1. /\ call[c] \in ActionCall
        /\ call[c].action \in {"apply", "verify"}
        /\ a.state = RequiredState(call[c].action)
    BY <1>2, ActionStillFits DEF CommitAction
  <2>2. r \in Request /\ a \in Attempt /\ call[c].token \in Token
    BY <2>1 DEF ActionCall, RemInv, RemTypeOK
  <2>3. /\ a.version \in 0..MaxVersion /\ a.version < MaxVersion
        /\ attempt' = [attempt EXCEPT ![r] = x]
        /\ Return(c) /\ UNCHANGED <<created, triage, checkout>>
    <3>1. a.version \in 0..MaxVersion
      BY <2>2 DEF Attempt
    <3>2. attempt' = [attempt EXCEPT ![r] = x]
      BY <1>2 DEF CommitAction
    <3> QED
      BY <1>2, <3>1, <3>2 DEF CommitAction
  <2>3a. /\ y \in Attempt
         /\ y.state = a.state /\ y.version = a.version
         /\ y.created = a.created /\ y.base = a.base
         /\ y.patch = a.patch /\ y.applied = a.applied /\ y.edited = a.edited
         /\ y.delivered = FALSE /\ y.stale = FALSE
    BY <2>2 DEF ClaimedBy, Attempt
  <2>3b. x = [y EXCEPT !.pending = call[c].action, !.version = v]
    BY DEF Asked
  <2>3c. v = a.version + 1 /\ v \in 0..MaxVersion
    BY <2>3, <2>3a
  <2> HIDE DEF y, a, v
  <2>4. /\ x \in Attempt
        /\ x.state = a.state /\ x.version = a.version + 1
        /\ x.created = a.created /\ x.base = a.base
        /\ x.patch = a.patch /\ x.applied = a.applied /\ x.edited = a.edited
        /\ x.pending = call[c].action
        /\ x.delivered = FALSE /\ x.stale = FALSE
    BY <2>1, <2>3a, <2>3b, <2>3c DEF Attempt, Action
  <2>5. RowFits(a, r)
    BY <2>2 DEF RemInv, a
  <2> HIDE DEF x
  <2>6. a.state \in {"generated", "applied"}
    BY <2>1 DEF RequiredState
  <2>7. a.version >= 1
    BY <2>5, <2>6 DEF RowFits
  <2>8. x.pending = "verify" => a.state = "applied"
    BY <2>1, <2>4 DEF RequiredState
  <2>9. RowFits(x, r)
    <3>1. a.applied # NoContent =>
            a.patch /\ (a.edited \/ a.applied = PatchOn(a.base, r))
      BY <2>5 DEF RowFits
    <3>2. a.state = "applied" => a.applied # NoContent
      BY <2>5 DEF RowFits
    <3>3. x.version >= 2 /\ x.created >= 1
      BY <2>3, <2>4, <2>5, <2>6, <2>7 DEF RowFits
    <3>4. x.version # 1
      BY <2>3, <2>4, <2>7
    <3> QED
      BY <2>3, <2>4, <2>6, <2>7, <2>8, <3>1, <3>2, <3>3, <3>4 DEF RowFits
  <2>10. TokenFits(x)
    BY <2>1, <2>4 DEF TokenFits
  <2>11. Proceeds(a, x)
    BY <2>4, <2>6 DEF Proceeds
  <2>12. IsLatest(r)
    BY <2>2, <2>6 DEF RemInv, OneLiveAttempt, Live, a
  <2>13. triage = "open"
    BY <1>2 DEF ActionCommits
  <2>14. /\ call' \in [Caller -> Call]
         /\ \A d \in Caller : call'[d] = call[d] \/ call'[d] = NoCall
    BY <2>3, Returns DEF RemInv
  <2> HIDE DEF r
  <2> QED
    BY <2>2, <2>3, <2>4, <2>9, <2>10, <2>11, <2>12, <2>13, <2>14, OneRowChanges
       DEF a
<1> QED
  BY <1>1, <1>2

\* The UPDATE of set-finding-remediation finds the row its checks were about.
LEMMA SetStillFits ==
  ASSUME RemInv, NEW c \in Caller, call[c].kind = "set", SetCommits(c)
  PROVE  LET s == call[c]  a == attempt[s.req]  b == s.row IN
         /\ s \in SetCall /\ SetFits(s) /\ RowFits(b, s.req)
         /\ a.pending # "none"
         /\ a.state = b.state /\ a.pending = b.pending
         /\ a.patch = b.patch /\ a.applied = b.applied /\ a.edited = b.edited
         /\ a.state # "requested" \/ a.created = b.created => a.base = b.base
<1> USE BoundAssumption
<1> DEFINE s == call[c]
           a == attempt[s.req]
           b == s.row
<1>1. s \in SetCall
  BY KindOfCall DEF RemInv
<1>2. s.req \in Request /\ b \in Attempt /\ a \in Attempt /\ s.token \in Token
  BY <1>1 DEF SetCall, RemInv, RemTypeOK
<1>3. ReadFits(s) /\ SetFits(s) /\ RowFits(a, s.req)
  BY <1>2 DEF RemInv, CallFits
<1>4. a.version = b.version /\ a.state # "idle" /\ a.token = s.token
  BY DEF SetCommits
<1>5. a.pending # "none"
  <2>1. a.token # NoToken
    BY <1>2, <1>4, TokenAssumption
  <2> QED
    BY <1>2, <2>1 DEF RemInv, RemTypeOK
<1> HIDE DEF s
<1>6. RowFits(b, s.req) /\ StillFits(a, b) /\ b.state # "idle"
  BY <1>3 DEF ReadFits
<1> HIDE DEF a, b
<1>7. a.version \in Nat /\ b.version \in Nat
  BY <1>2 DEF Attempt
<1>8. a.created = b.created =>
        /\ a.base = b.base /\ a.state = b.state /\ a.pending = b.pending
        /\ a.patch = b.patch /\ a.applied = b.applied /\ a.edited = b.edited
  BY <1>4, <1>5, <1>6 DEF StillFits, Core
<1>9. CASE b.version >= 2
  <2>1. a.created = b.created
    BY <1>6, <1>9 DEF StillFits
  <2> QED
    BY <1>1, <1>3, <1>5, <1>6, <1>8, <2>1 DEF s, a, b
<1>10. CASE ~(b.version >= 2)
  <2>1. b.version = 1 /\ a.version = 1
    BY <1>4, <1>6, <1>7, <1>10 DEF RowFits
  <2>2. a.state = "requested" /\ b.state = "requested"
    BY <1>3, <1>6, <2>1 DEF RowFits
  <2>3. /\ a.patch \in BOOLEAN /\ b.patch \in BOOLEAN
        /\ a.edited \in BOOLEAN /\ b.edited \in BOOLEAN
    BY <1>2 DEF Attempt
  <2>4. /\ a.pending = b.pending /\ a.applied = b.applied
        /\ ~a.patch /\ ~b.patch /\ ~a.edited /\ ~b.edited
    BY <1>3, <1>6, <2>2 DEF RowFits
  <2>5. a.patch = b.patch /\ a.edited = b.edited
    BY <2>3, <2>4
  <2> QED
    BY <1>1, <1>3, <1>5, <1>6, <1>8, <2>2, <2>4, <2>5 DEF s, a, b
<1> QED
  BY <1>9, <1>10

LEMMA CommitSetKeeps ==
  ASSUME RemInv, NEW c \in Caller, CommitSet(c)
  PROVE  RemInv'
<1> USE BoundAssumption
<1>1. CASE ~SetCommits(c)
  BY <1>1, GivesUp DEF CommitSet
<1>2. CASE SetCommits(c)
  <2> DEFINE s == call[c]
             r == s.req
             a == attempt[r]
             x == Recorded(a, s)
  <2>1. /\ s \in SetCall /\ SetFits(s) /\ RowFits(s.row, r)
        /\ a.pending # "none"
        /\ a.state = s.row.state /\ a.pending = s.row.pending
        /\ a.patch = s.row.patch /\ a.applied = s.row.applied
        /\ a.edited = s.row.edited
        /\ a.state # "requested" => a.base = s.row.base
    BY <1>2, SetStillFits DEF CommitSet
  <2>2. /\ r \in Request /\ a \in Attempt /\ s.to \in UpdateState
        /\ s.applied \in Content \cup {NoContent} /\ s.row.patch \in BOOLEAN
        /\ s.edited \in BOOLEAN
    BY <2>1 DEF SetCall, RemInv, RemTypeOK, Attempt
  <2>3. /\ a.version \in 0..MaxVersion /\ a.version < MaxVersion
        /\ attempt' = [attempt EXCEPT ![r] = x]
        /\ Return(c) /\ UNCHANGED <<created, triage, checkout>>
    BY <1>2, <2>2 DEF CommitSet, Attempt
  <2>4. RowFits(a, r) /\ TokenFits(a)
    BY <2>2 DEF RemInv, RemTypeOK, TokenFits
  <2>5. triage = "open" /\ a.state # "idle"
    BY <1>2 DEF SetCommits
  <2>6. IsLatest(r)
    BY <2>1, <2>2 DEF RemInv, OneLiveAttempt
  <2>7. /\ call' \in [Caller -> Call]
        /\ \A d \in Caller : call'[d] = call[d] \/ call'[d] = NoCall
    BY <2>3, Returns DEF RemInv
  <2> HIDE DEF a
  <2> DEFINE y == [a EXCEPT !.state = s.to, !.version = @ + 1,
                     !.applied = s.applied, !.edited = s.edited,
                     !.patch = s.row.patch \/ s.to = "generated"]
  <2>8. s.to \in State
    BY <2>2 DEF UpdateState, State
  <2>9. /\ y \in Attempt
        /\ y.state = s.to /\ y.version = a.version + 1
        /\ y.created = a.created /\ y.base = a.base
        /\ y.applied = s.applied /\ y.edited = s.edited
        /\ y.patch = (s.row.patch \/ s.to = "generated")
        /\ y.pending = a.pending /\ y.token = a.token
        /\ y.delivered = a.delivered /\ y.stale = a.stale
    <3> DEFINE p == s.row.patch \/ s.to = "generated"
               t == s.to
               u == s.applied
               e == s.edited
               v == a.version + 1
    <3>1. /\ p \in BOOLEAN /\ t \in State /\ u \in Content \cup {NoContent}
          /\ v \in 0..MaxVersion /\ e \in BOOLEAN
      BY <2>2, <2>3, <2>8
    <3>2. y = [a EXCEPT !.state = t, !.version = v, !.applied = u,
                        !.edited = e, !.patch = p]
      OBVIOUS
    <3> HIDE DEF p, t, u, v, e, y
    <3>3. /\ y \in Attempt
          /\ y.state = t /\ y.version = v
          /\ y.created = a.created /\ y.base = a.base
          /\ y.applied = u /\ y.edited = e /\ y.patch = p
          /\ y.pending = a.pending /\ y.token = a.token
          /\ y.delivered = a.delivered /\ y.stale = a.stale
      BY <2>2, <3>1, <3>2 DEF Attempt
    <3> QED
      BY <3>3 DEF p, t, u, v, e
  <2>10. x = IF s.to = "verifying" THEN y
             ELSE IF s.to = "failed" THEN Unclaimed(y) ELSE NotPending(y)
    BY DEF Recorded
  <2> HIDE DEF x, y
  <2>11. /\ x \in Attempt
         /\ x.state = s.to /\ x.version = a.version + 1
         /\ x.created = a.created /\ x.base = a.base
         /\ x.applied = s.applied /\ x.edited = s.edited
         /\ x.patch = (s.row.patch \/ s.to = "generated")
         /\ x.pending \in {a.pending, "none"}
    BY <2>9, <2>10 DEF Unclaimed, NotPending, Attempt
  <2>12. TokenFits(x)
    BY <2>4, <2>9, <2>10 DEF TokenFits, Unclaimed, NotPending, Attempt
  <2>13. a.version >= 1 /\ a.created >= 1
    BY <2>4, <2>5 DEF RowFits
  <2>14. s.to \notin {"idle", "requested"}
    BY <2>2 DEF UpdateState
  <2>15. s.applied # NoContent =>
           x.patch /\ (x.edited \/ s.applied = PatchOn(a.base, r))
    <3>1. CASE s.to = "applied"
      <4>1. a.state # "requested"
        BY <2>1, <3>1 DEF SetFits
      <4> QED
        BY <2>1, <2>11, <3>1, <4>1 DEF SetFits
    <3>2. CASE s.to # "applied"
      <4>1. s.applied = a.applied /\ s.edited = a.edited
        BY <2>1, <3>2 DEF SetFits
      <4> QED
        BY <2>1, <2>4, <2>11, <4>1 DEF RowFits
    <3> QED
      BY <3>1, <3>2
  <2>16. s.to \in {"applied", "verifying", "verified"} \/ x.pending = "verify"
           => s.applied # NoContent
    <3>1. a.pending = "verify" => a.applied # NoContent
      BY <2>4 DEF RowFits
    <3>2. s.to \in {"verifying", "verified"} => a.pending = "verify"
      BY <2>1 DEF SetFits
    <3>3. s.to # "applied" => s.applied = a.applied
      BY <2>1 DEF SetFits
    <3>4. s.to = "applied" => s.applied # NoContent
      BY <2>1 DEF SetFits
    <3> QED
      BY <2>11, <3>1, <3>2, <3>3, <3>4
  <2>17. x.version # 1 /\ x.version >= 1
    BY <2>3, <2>11, <2>13
  <2>18. RowFits(x, r)
    BY <2>11, <2>13, <2>14, <2>15, <2>16, <2>17 DEF RowFits
  <2>19. Proceeds(a, x)
    BY <2>5, <2>11, <2>14 DEF Proceeds
  <2> HIDE DEF r, s
  <2> QED
    BY <2>2, <2>3, <2>5, <2>6, <2>7, <2>11, <2>12, <2>18, <2>19, OneRowChanges
       DEF a
<1> QED
  BY <1>1, <1>2

-----------------------------------------------------------------------------
(* A request inserts a row and settles the one before it                   *)

\* Of two rows with something pending, or worked on, one is not the newest.
LEMMA LatestIsUnique ==
  ASSUME RemInv, NEW r \in Request, NEW q \in Request, IsLatest(r), IsLatest(q)
  PROVE  q = r
<1>1. /\ attempt[r].created \in Nat /\ attempt[q].created \in Nat
  BY BoundAssumption DEF RemInv, RemTypeOK, Attempt
<1>2. /\ attempt[r].created <= attempt[q].created
      /\ attempt[q].created <= attempt[r].created
  BY DEF IsLatest
<1>3. attempt[r].created = attempt[q].created
  BY <1>1, <1>2
<1> QED
  BY <1>3 DEF RemInv, RowsInOrder, IsLatest

\* What becomes of the newest row when a new request passes it.
LEMMA SupersededFits ==
  ASSUME BoundAssumption, NEW r \in Request, NEW a \in Attempt, RowFits(a, r), TokenFits(a),
         a.version < MaxVersion, a.state # "idle", ~Busy(a)
  PROVE  /\ Superseded(a) \in Attempt
         /\ RowFits(Superseded(a), r) /\ TokenFits(Superseded(a))
         /\ Superseded(a) = a \/ Proceeds(a, Superseded(a))
         /\ Superseded(a).created = a.created /\ Superseded(a).state # "idle"
         /\ Superseded(a).pending = "none"
         /\ Superseded(a).state \notin
              {"requested", "generated", "applied", "verifying"}
<1> DEFINE n == NotPending(a)
           v == a.version + 1
           x == [n EXCEPT !.state = "superseded", !.version = v]
<1>1. a.version \in 0..MaxVersion /\ a.version \in Nat /\ a.state \in State
  BY DEF Attempt
<1>2. /\ n \in Attempt /\ n.state = a.state /\ n.version = a.version
      /\ n.created = a.created /\ n.base = a.base /\ n.patch = a.patch
      /\ n.applied = a.applied /\ n.edited = a.edited /\ n.pending = "none"
      /\ n.token = NoToken /\ n.delivered = FALSE /\ n.stale = FALSE
  BY DEF NotPending, Unclaimed, Attempt
<1>3. v \in 0..MaxVersion
  BY <1>1
<1>4. Superseded(a) =
        IF a.state = "failed" /\ a.pending # "none" THEN n
        ELSE IF a.state \in {"generated", "applied"} THEN x ELSE a
  BY <1>2 DEF Superseded
<1> HIDE DEF n
<1>5. CASE a.state = "failed" /\ a.pending # "none"
  <2>1. Superseded(a) = n
    BY <1>4, <1>5
  <2>2. RowFits(n, r)
    BY <1>2, <1>5 DEF RowFits
  <2>3. TokenFits(n)
    BY <1>2 DEF TokenFits
  <2>4. Proceeds(a, n)
    BY <1>2, <1>5 DEF Proceeds, Core
  <2> QED
    BY <1>2, <1>5, <2>1, <2>2, <2>3, <2>4
<1>6. CASE a.state \in {"generated", "applied"}
  <2>1. Superseded(a) = x
    BY <1>4, <1>6
  <2> HIDE DEF v
  <2>2. /\ x \in Attempt /\ x.state = "superseded" /\ x.version = v
        /\ x.created = a.created /\ x.base = a.base /\ x.patch = a.patch
        /\ x.applied = a.applied /\ x.edited = a.edited /\ x.pending = "none"
        /\ x.token = NoToken /\ x.delivered = FALSE /\ x.stale = FALSE
    BY <1>2, <1>3 DEF Attempt, State
  <2> HIDE DEF x
  <2>3. v >= 1 /\ v # 1 /\ v = a.version + 1
    <3>1. a.version >= 1
      BY <1>6 DEF RowFits
    <3> QED
      BY <1>1, <3>1 DEF v
  <2>4. RowFits(x, r)
    BY <1>6, <2>2, <2>3 DEF RowFits
  <2>5. TokenFits(x)
    BY <2>2 DEF TokenFits
  <2>6. Proceeds(a, x)
    BY <1>6, <2>2, <2>3 DEF Proceeds
  <2> QED
    BY <2>1, <2>2, <2>4, <2>5, <2>6
<1>7. CASE /\ ~(a.state = "failed" /\ a.pending # "none")
           /\ a.state \notin {"generated", "applied"}
  <2>1. Superseded(a) = a
    BY <1>4, <1>7
  <2>2. a.pending = "none"
    BY <1>7 DEF Busy
  <2>3. a.state \notin {"requested", "generated", "applied", "verifying"}
    BY <1>7 DEF Busy
  <2> QED
    BY <2>1, <2>2, <2>3
<1> QED
  BY <1>5, <1>6, <1>7

LEMMA CommitRequestKeeps ==
  ASSUME RemInv, NEW c \in Caller, CommitRequest(c)
  PROVE  RemInv'
<1> USE BoundAssumption
<1> DEFINE r == call[c].req
           Blocked == \/ triage = "closed" \/ Exists(r)
                      \/ \E q \in Request : IsLatest(q) /\ Busy(attempt[q])
           fresh == [NoAttempt EXCEPT
                       !.state = "requested", !.version = 1,
                       !.created = created + 1, !.base = call[c].base,
                       !.pending = "generate", !.token = call[c].token]
<1>1. CASE Blocked
  BY <1>1, GivesUp DEF CommitRequest
<1>2. CASE ~Blocked
  <2>1. call[c] \in RequestCall
    BY KindOfCall DEF CommitRequest, RemInv
  <2>2. /\ r \in Request /\ call[c].token \in Token
        /\ call[c].base \in Content
    BY <2>1 DEF RequestCall
  <2>3. /\ created < MaxCreated /\ created' = created + 1
        /\ \A q \in Request : attempt[q].version < MaxVersion
        /\ Return(c) /\ UNCHANGED <<triage, checkout>>
    BY <1>2 DEF CommitRequest
  <2>4. attempt' = [q \in Request |->
          IF q = r THEN fresh
          ELSE IF IsLatest(q) THEN Superseded(attempt[q]) ELSE attempt[q]]
    BY <1>2 DEF CommitRequest
  <2>5. created \in 0..MaxCreated /\ created' \in 0..MaxCreated
    BY <2>3 DEF RemInv, RemTypeOK
  <2>6. /\ fresh \in Attempt /\ fresh.state = "requested" /\ fresh.version = 1
        /\ fresh.created = created' /\ fresh.base = call[c].base
        /\ ~fresh.patch /\ fresh.applied = NoContent /\ ~fresh.edited
        /\ fresh.pending = "generate" /\ fresh.token = call[c].token
        /\ ~fresh.delivered /\ ~fresh.stale
    <3> DEFINE n == created + 1
               b == call[c].base
               t == call[c].token
    <3>0. n = created' /\ n \in 0..MaxCreated /\ 1 \in 0..MaxVersion
      <4>1. attempt[r].version \in 0..MaxVersion /\ attempt[r].version < MaxVersion
        BY <2>2, <2>3 DEF RemInv, RemTypeOK, Attempt
      <4> QED
        BY <2>3, <2>5, <4>1
    <3>1. fresh = [NoAttempt EXCEPT
                    !.state = "requested", !.version = 1, !.created = n,
                    !.base = b, !.pending = "generate", !.token = t]
      OBVIOUS
    <3>2. b \in Content /\ t \in Token
      BY <2>2
    <3> HIDE DEF n, b, t, fresh
    <3>3. fresh = [state |-> "requested", version |-> 1, created |-> n,
                   base |-> b, patch |-> FALSE, applied |-> NoContent,
                   edited |-> FALSE, pending |-> "generate", token |-> t,
                   delivered |-> FALSE, stale |-> FALSE]
      BY <3>1 DEF NoAttempt
    <3>4. fresh \in Attempt
      BY <3>0, <3>2, <3>3 DEF Attempt, State, Action
    <3> QED
      BY <3>0, <3>3, <3>4 DEF n, b, t
  <2>7. \A q \in Request :
          /\ attempt[q] \in Attempt /\ RowFits(attempt[q], q)
          /\ TokenFits(attempt[q]) /\ attempt[q].created <= created
    BY DEF RemInv, RemTypeOK, TokenFits, RowsInOrder
  <2>7a. \A q \in Request : attempt[q].created \in Nat
    <3> SUFFICES ASSUME NEW q \in Request PROVE attempt[q].created \in Nat
      OBVIOUS
    <3> QED
      BY DEF RemInv, RemTypeOK, Attempt
  <2>8. triage = "open" /\ ~Exists(r)
    BY <1>2 DEF RemInv, RemTypeOK
  <2>9. ASSUME NEW q \in Request, q # r
        PROVE  /\ attempt'[q] \in Attempt
               /\ RowFits(attempt'[q], q) /\ TokenFits(attempt'[q])
               /\ attempt'[q] = attempt[q] \/ Proceeds(attempt[q], attempt'[q])
               /\ attempt'[q].created = attempt[q].created
               /\ Exists(q)' = Exists(q)
               /\ attempt'[q].pending = "none"
               /\ ~Live(q)'
    <3>1. CASE IsLatest(q)
      <4>1. attempt'[q] = Superseded(attempt[q])
        BY <2>4, <2>9, <3>1
      <4>2. ~Busy(attempt[q]) /\ attempt[q].state # "idle"
        BY <1>2, <3>1 DEF IsLatest, Exists
      <4> DEFINE a == attempt[q]
      <4>3. a \in Attempt /\ RowFits(a, q) /\ TokenFits(a) /\ a.version < MaxVersion
        BY <2>3, <2>7
      <4> HIDE DEF a
      <4>4. /\ Superseded(a) \in Attempt
            /\ RowFits(Superseded(a), q) /\ TokenFits(Superseded(a))
            /\ Superseded(a) = a \/ Proceeds(a, Superseded(a))
            /\ Superseded(a).created = a.created /\ Superseded(a).state # "idle"
            /\ Superseded(a).pending = "none"
            /\ Superseded(a).state \notin
                 {"requested", "generated", "applied", "verifying"}
        BY <4>2, <4>3, SupersededFits DEF a
      <4> QED
        BY <4>1, <4>2, <4>4 DEF a, Exists, Live
    <3>2. CASE ~IsLatest(q)
      <4>1. attempt'[q] = attempt[q]
        BY <2>4, <2>9, <3>2
      <4>2. ~Live(q) /\ attempt[q].pending = "none"
        BY <3>2 DEF RemInv, OneLiveAttempt
      <4> QED
        BY <2>7, <4>1, <4>2 DEF Exists, Live
    <3> QED
      BY <3>1, <3>2
  <2>10. attempt'[r] = fresh
    BY <2>2, <2>4
  <2> HIDE DEF fresh, Blocked
  <2>11. RowFits(fresh, r) /\ TokenFits(fresh)
    <3>1. created' >= 1
      BY <2>3, <2>5
    <3> QED
      BY <2>2, <2>6, <3>1 DEF RowFits, TokenFits
  <2>12. ComesOrGoes(attempt[r], attempt'[r])
    BY <2>3, <2>5, <2>6, <2>8, <2>10 DEF ComesOrGoes, Exists
  <2>13. /\ call' \in [Caller -> Call]
         /\ \A d \in Caller : call'[d] = call[d] \/ call'[d] = NoCall
    BY <2>3, Returns DEF RemInv
  <2>14. \A q \in Request : attempt'[q] \in Attempt /\ TokenFits(attempt'[q])
    BY <2>6, <2>9, <2>10, <2>11
  <2>15. RemTypeOK'
    <3>1. attempt' \in [Request -> Attempt]
      BY <2>4, <2>14
    <3> QED
      BY <2>3, <2>5, <2>13, <2>14, <3>1 DEF RemInv, RemTypeOK, TokenFits
  <2>16. (\A q \in Request : RowFits(attempt[q], q))'
    BY <2>9, <2>10, <2>11
  <2>17. \A q \in Request : attempt'[q].created <= created'
    <3>1. \A q \in Request : attempt[q].created \in Nat
      BY <2>7a
    <3> QED
      BY <2>3, <2>5, <2>6, <2>7, <2>9, <2>10, <3>1
  <2>18. RowsInOrder'
    <3>1. \A q \in Request : attempt[q].created \in Nat
      BY <2>7a
    <3>2. \A q \in Request : q # r => attempt'[q].created # attempt'[r].created
      BY <2>3, <2>5, <2>6, <2>7, <2>9, <2>10, <3>1
    <3>3. \A p, q \in Request : p # r /\ q # r /\ p # q
            /\ Exists(p)' /\ Exists(q)' =>
              attempt'[p].created # attempt'[q].created
      BY <2>9 DEF RemInv, RowsInOrder
    <3> QED
      BY <2>2, <2>17, <3>2, <3>3 DEF RowsInOrder
  <2>19. \A d \in Caller : CallFits(call[d])'
    <3>1. created' >= created
      BY <2>3, <2>5
    <3> QED
      BY <2>3, <2>9, <2>12, <2>13, <2>15, <3>1, CallsStillFit
  <2>20. ASSUME NEW q \in Request, q = r PROVE IsLatest(q)'
    BY <2>6, <2>10, <2>17, <2>20 DEF IsLatest, Exists
  <2>21. OneLiveAttempt'
    <3> SUFFICES ASSUME NEW q \in Request, Live(q)' \/ attempt'[q].pending # "none"
                 PROVE  IsLatest(q)'
      BY DEF OneLiveAttempt
    <3>1. q = r
      BY <2>9
    <3> QED
      BY <2>20, <3>1
  <2>22. ClosedIsQuiet'
    BY <2>3, <2>8 DEF ClosedIsQuiet
  <2> QED
    BY <2>15, <2>16, <2>18, <2>19, <2>21, <2>22 DEF RemInv
<1> QED
  BY <1>1, <1>2

-----------------------------------------------------------------------------
(* Claims and cancellations                                                *)

\* A row with an action pending is the newest, and open or failed.
LEMMA PendingRow ==
  ASSUME RemInv, NEW r \in Request, attempt[r].pending # "none"
  PROVE  /\ attempt[r] \in Attempt /\ RowFits(attempt[r], r)
         /\ TokenFits(attempt[r]) /\ IsLatest(r)
         /\ attempt[r].state # "idle"
         /\ triage = "closed" => attempt[r].state = "failed"
<1>1. /\ attempt[r] \in Attempt /\ RowFits(attempt[r], r) /\ IsLatest(r)
      /\ triage = "closed" => attempt[r].state = "failed"
  BY DEF RemInv, RemTypeOK, OneLiveAttempt, ClosedIsQuiet
<1>2. TokenFits(attempt[r])
  BY DEF RemInv, RemTypeOK, TokenFits
<1> QED
  BY <1>1, <1>2 DEF IsLatest, Exists

\* A step that touches only the claim of a pending row.
LEMMA ClaimChanges ==
  ASSUME RemInv, NEW r \in Request, attempt[r].pending # "none",
         NEW t \in Token \cup {NoToken}, NEW d \in BOOLEAN, NEW st \in BOOLEAN,
         d \/ st => t # NoToken,
         attempt' = [attempt EXCEPT ![r] = [attempt[r] EXCEPT
                       !.token = t, !.delivered = d, !.stale = st]],
         UNCHANGED <<created, triage, checkout, call>>
  PROVE  RemInv'
<1> DEFINE a == attempt[r]
           x == [a EXCEPT !.token = t, !.delivered = d, !.stale = st]
<1>1. /\ a \in Attempt /\ RowFits(a, r) /\ IsLatest(r) /\ a.state # "idle"
      /\ triage = "closed" => a.state = "failed"
  BY PendingRow
<1>2. attempt' = [attempt EXCEPT ![r] = x]
  OBVIOUS
<1>3. a.pending # "none"
  OBVIOUS
<1> HIDE DEF a
<1>4. /\ x \in Attempt
      /\ x.state = a.state /\ x.version = a.version /\ x.created = a.created
      /\ x.base = a.base /\ x.patch = a.patch /\ x.applied = a.applied
      /\ x.edited = a.edited
      /\ x.pending = a.pending /\ x.token = t
      /\ x.delivered = d /\ x.stale = st
  BY <1>1 DEF Attempt
<1> HIDE DEF x
<1>5. RowFits(x, r)
  BY <1>1, <1>4 DEF RowFits
<1>6. TokenFits(x)
  BY <1>3, <1>4 DEF TokenFits
<1>7. Proceeds(a, x)
  BY <1>1, <1>4 DEF Proceeds, Core
<1>8. call' \in [Caller -> Call] /\ \A c \in Caller : call'[c] = call[c]
  BY DEF RemInv, RemTypeOK
<1> QED
  BY <1>1, <1>2, <1>4, <1>5, <1>6, <1>7, <1>8, OneRowChanges DEF a

LEMMA ClaimResendKeeps ==
  ASSUME RemInv, NEW r \in Request, NEW t \in Token, ClaimResend(r, t)
  PROVE  RemInv'
<1>1. attempt' = [attempt EXCEPT ![r] = [attempt[r] EXCEPT
                    !.token = t, !.delivered = FALSE, !.stale = FALSE]]
  BY DEF ClaimResend, ClaimedBy
<1> QED
  BY <1>1, ClaimChanges DEF ClaimResend

LEMMA MarkDeliveredKeeps ==
  ASSUME RemInv, NEW r \in Request, NEW t \in Token, MarkDelivered(r, t)
  PROVE  RemInv'
<1> DEFINE x == [attempt[r] EXCEPT !.token = t, !.delivered = TRUE,
                                   !.stale = FALSE]
<1>0. attempt[r] \in Attempt /\ attempt \in [Request -> Attempt]
  BY DEF RemInv, RemTypeOK
<1>1. x = [attempt[r] EXCEPT !.delivered = TRUE, !.stale = FALSE]
  BY <1>0 DEF MarkDelivered, Attempt
<1>2. attempt' = [attempt EXCEPT ![r] = x]
  BY <1>0, <1>1 DEF MarkDelivered
<1>3. t # NoToken
  BY TokenAssumption
<1> QED
  BY <1>2, <1>3, ClaimChanges DEF MarkDelivered

LEMMA ReleaseClaimKeeps ==
  ASSUME RemInv, NEW r \in Request, NEW t \in Token, ReleaseClaim(r, t)
  PROVE  RemInv'
<1>1. attempt' = [attempt EXCEPT ![r] = [attempt[r] EXCEPT
                    !.token = NoToken, !.delivered = FALSE, !.stale = FALSE]]
  BY DEF ReleaseClaim, Unclaimed
<1> QED
  BY <1>1, ClaimChanges DEF ReleaseClaim

LEMMA LeaseRunsOutKeeps ==
  ASSUME RemInv, NEW r \in Request, LeaseRunsOut(r)
  PROVE  RemInv'
<1> DEFINE t == attempt[r].token
           d == attempt[r].delivered
           x == [attempt[r] EXCEPT !.token = t, !.delivered = d, !.stale = TRUE]
<1>0. /\ attempt[r] \in Attempt /\ attempt \in [Request -> Attempt]
      /\ t \in Token \cup {NoToken} /\ d \in BOOLEAN
  BY DEF RemInv, RemTypeOK, Attempt
<1>1. x = [attempt[r] EXCEPT !.stale = TRUE]
  BY <1>0 DEF Attempt
<1>2. attempt' = [attempt EXCEPT ![r] = x]
  BY <1>0, <1>1 DEF LeaseRunsOut
<1>3. t # NoToken /\ attempt[r].pending # "none"
  BY DEF LeaseRunsOut, RemInv, RemTypeOK
<1>4. UNCHANGED <<created, triage, checkout, call>>
  BY DEF LeaseRunsOut
<1> HIDE DEF t, d
<1> QED
  BY <1>0, <1>2, <1>3, <1>4, ClaimChanges

LEMMA CancelFailedKeeps ==
  ASSUME RemInv, NEW r \in Request, attempt[r].pending # "none",
         CancelFailed(r), UNCHANGED <<created, triage, checkout, call>>
  PROVE  RemInv'
<1>1. attempt' = [attempt EXCEPT ![r] = [attempt[r] EXCEPT
                    !.token = NoToken, !.delivered = FALSE, !.stale = FALSE]]
  BY DEF CancelFailed, Unclaimed
<1> QED
  BY <1>1, ClaimChanges

LEMMA CancelActionKeeps ==
  ASSUME RemInv, NEW r \in Request, attempt[r].pending # "none",
         CancelAction(r), UNCHANGED <<created, triage, checkout, call>>
  PROVE  RemInv'
<1> USE BoundAssumption
<1> DEFINE a == attempt[r]
           n == NotPending(a)
           v == n.version + 1
           x == Withdrawn(a)
<1>1. /\ a \in Attempt /\ RowFits(a, r) /\ IsLatest(r) /\ a.state # "idle"
  BY PendingRow
<1>2. /\ a.version < MaxVersion /\ a.pending # "generate"
      /\ attempt' = [attempt EXCEPT ![r] = x]
  BY DEF CancelAction
<1>3. /\ n \in Attempt /\ n.state = a.state /\ n.version = a.version
      /\ n.created = a.created /\ n.base = a.base /\ n.patch = a.patch
      /\ n.applied = a.applied /\ n.edited = a.edited /\ n.pending = "none"
      /\ n.token = NoToken /\ n.delivered = FALSE /\ n.stale = FALSE
  BY <1>1 DEF NotPending, Unclaimed, Attempt
<1>4. a.version \in 0..MaxVersion /\ v = a.version + 1 /\ v \in 0..MaxVersion
  BY <1>1, <1>2, <1>3 DEF Attempt
<1>5. x = [n EXCEPT !.version = v]
  BY DEF Withdrawn
<1> HIDE DEF a, n, v, x
<1>6. /\ x \in Attempt /\ x.state = a.state /\ x.version = v
      /\ x.created = a.created /\ x.base = a.base /\ x.patch = a.patch
      /\ x.applied = a.applied /\ x.edited = a.edited /\ x.pending = "none"
      /\ x.token = NoToken /\ x.delivered = FALSE /\ x.stale = FALSE
  BY <1>3, <1>4, <1>5 DEF Attempt
<1>7. a.state # "requested"
  BY <1>1, <1>2 DEF RowFits
<1>8. v >= 1 /\ v # 1
  <2>1. a.version >= 1
    BY <1>1 DEF RowFits
  <2> QED
    BY <1>4, <2>1
<1>9. RowFits(x, r)
  BY <1>1, <1>6, <1>7, <1>8 DEF RowFits
<1>10. TokenFits(x)
  BY <1>6 DEF TokenFits
<1>11. Proceeds(a, x)
  BY <1>1, <1>4, <1>6 DEF Proceeds
<1>12. call' \in [Caller -> Call] /\ \A c \in Caller : call'[c] = call[c]
  BY DEF RemInv, RemTypeOK
<1> QED
  BY <1>1, <1>2, <1>6, <1>9, <1>10, <1>11, <1>12, OneRowChanges DEF a

\* The attempt a deleted request had superseded comes back as it was.
LEMMA RestoredFits ==
  ASSUME BoundAssumption, NEW r \in Request, NEW a \in Attempt, RowFits(a, r), TokenFits(a),
         a.version < MaxVersion, a.state = "superseded", a.pending = "none"
  PROVE  /\ Restored(a) \in Attempt
         /\ RowFits(Restored(a), r) /\ TokenFits(Restored(a))
         /\ Proceeds(a, Restored(a))
         /\ Restored(a).created = a.created /\ Restored(a).state # "idle"
         /\ Restored(a).pending = "none"
<1> DEFINE v == a.version + 1
           s == IF a.applied # NoContent THEN "applied" ELSE "generated"
           x == Restored(a)
<1>1. a.version \in 0..MaxVersion /\ a.version >= 1 /\ a.created >= 1
  BY DEF Attempt, RowFits
<1>2. v \in 0..MaxVersion /\ v = a.version + 1 /\ v >= 1 /\ v # 1
  BY <1>1
<1>3. s \in {"applied", "generated"} /\ (s = "applied" <=> a.applied # NoContent)
  OBVIOUS
<1>4. x = [a EXCEPT !.state = s, !.version = v]
  BY DEF Restored
<1> HIDE DEF v, s, x
<1>5. /\ x \in Attempt /\ x.state = s /\ x.version = v
      /\ x.created = a.created /\ x.base = a.base /\ x.patch = a.patch
      /\ x.applied = a.applied /\ x.edited = a.edited
      /\ x.pending = a.pending /\ x.token = a.token
      /\ x.delivered = a.delivered /\ x.stale = a.stale
  BY <1>2, <1>3, <1>4 DEF Attempt, State
<1>6. RowFits(x, r)
  BY <1>1, <1>2, <1>3, <1>5 DEF RowFits
<1>7. TokenFits(x)
  BY <1>5 DEF TokenFits
<1>8. Proceeds(a, x)
  BY <1>2, <1>3, <1>5 DEF Proceeds
<1> QED
  BY <1>3, <1>5, <1>6, <1>7, <1>8 DEF x

LEMMA CancelGenerationKeeps ==
  ASSUME RemInv, NEW r \in Request, attempt[r].pending # "none",
         CancelGeneration(r), UNCHANGED <<created, triage, checkout, call>>
  PROVE  RemInv'
<1> USE BoundAssumption
<1>1. IsLatest(r) /\ RowFits(attempt[r], r)
  BY PendingRow
<1>2. attempt' = [q \in Request |->
        IF q = r THEN NoAttempt
        ELSE IF IsLatestWithout(q, r) /\ attempt[q].state = "superseded"
        THEN Restored(attempt[q]) ELSE attempt[q]]
  BY DEF CancelGeneration
<1>3. /\ attempt'[r] = NoAttempt /\ NoAttempt \in Attempt
      /\ NoAttempt.state = "idle" /\ NoAttempt.version = 0
      /\ NoAttempt.created = 0 /\ NoAttempt.pending = "none"
      /\ NoAttempt.applied = NoContent /\ NoAttempt.token = NoToken
      /\ ~NoAttempt.delivered /\ ~NoAttempt.stale
  BY <1>2 DEF NoAttempt, Attempt, State
<1>4. \A q \in Request : /\ attempt[q] \in Attempt /\ RowFits(attempt[q], q)
                         /\ TokenFits(attempt[q])
                         /\ attempt[q].created <= created
  BY DEF RemInv, RemTypeOK, TokenFits, RowsInOrder
<1>5. ASSUME NEW q \in Request, q # r
      PROVE  ~Live(q) /\ attempt[q].pending = "none"
  <2>1. ~IsLatest(q)
    BY <1>1, <1>5, LatestIsUnique
  <2> QED
    BY <2>1 DEF RemInv, OneLiveAttempt
<1>6. ASSUME NEW q \in Request, q # r
      PROVE  /\ attempt'[q] \in Attempt
             /\ RowFits(attempt'[q], q) /\ TokenFits(attempt'[q])
             /\ attempt'[q] = attempt[q] \/ Proceeds(attempt[q], attempt'[q])
             /\ attempt'[q].created = attempt[q].created
             /\ Exists(q)' = Exists(q)
             /\ attempt'[q].pending = "none"
             /\ Live(q)' => IsLatestWithout(q, r)
  <2> DEFINE a == attempt[q]
  <2>1. /\ a \in Attempt /\ RowFits(a, q) /\ TokenFits(a)
        /\ a.version < MaxVersion /\ a.pending = "none"
    BY <1>4, <1>5, <1>6 DEF CancelGeneration
  <2>2. CASE IsLatestWithout(q, r) /\ a.state = "superseded"
    <3>1. attempt'[q] = Restored(a)
      BY <1>2, <1>6, <2>2
    <3> HIDE DEF a
    <3>2. /\ Restored(a) \in Attempt
          /\ RowFits(Restored(a), q) /\ TokenFits(Restored(a))
          /\ Proceeds(a, Restored(a))
          /\ Restored(a).created = a.created /\ Restored(a).state # "idle"
          /\ Restored(a).pending = "none"
      BY <2>1, <2>2, RestoredFits
    <3> QED
      BY <2>2, <3>1, <3>2 DEF a, Exists
  <2>3. CASE ~(IsLatestWithout(q, r) /\ a.state = "superseded")
    <3>1. attempt'[q] = a
      BY <1>2, <1>6, <2>3
    <3> QED
      BY <1>5, <1>6, <2>1, <3>1 DEF Exists, Live
  <2> QED
    BY <2>2, <2>3
<1>7. ComesOrGoes(attempt[r], attempt'[r])
  BY <1>1, <1>3 DEF ComesOrGoes, CancelGeneration, RowFits
<1>8. RowFits(NoAttempt, r) /\ TokenFits(NoAttempt)
  BY <1>3, "idle" \notin {"requested", "applied", "verifying", "verified"},
     "none" # "verify", 0 # 1
     DEF RowFits, TokenFits
<1>9. \A q \in Request : attempt'[q] \in Attempt /\ TokenFits(attempt'[q])
  BY <1>3, <1>6, <1>8
<1>10. RemTypeOK'
  <2>1. attempt' \in [Request -> Attempt]
    BY <1>2, <1>9
  <2> QED
    BY <1>9, <2>1 DEF RemInv, RemTypeOK, TokenFits
<1>11. (\A q \in Request : RowFits(attempt[q], q))'
  BY <1>3, <1>6, <1>8
<1>12. \A q \in Request : Exists(q)' => q # r /\ Exists(q)
  BY <1>3, <1>6 DEF Exists
<1>13. RowsInOrder'
  <2>1. created \in Nat
    BY DEF RemInv, RemTypeOK
  <2>2. \A q \in Request : attempt'[q].created <= created
    BY <1>3, <1>4, <1>6, <2>1
  <2>3. \A p, q \in Request : Exists(p)' /\ Exists(q)' /\ p # q =>
          attempt'[p].created # attempt'[q].created
    BY <1>6, <1>12 DEF RemInv, RowsInOrder
  <2> QED
    BY <2>2, <2>3 DEF RowsInOrder
<1>14. \A c \in Caller : CallFits(call[c])'
  <2>1. created' >= created
    BY DEF RemInv, RemTypeOK
  <2> QED
    BY <1>6, <1>7, <1>10, <2>1, CallsStillFit
<1>15. OneLiveAttempt'
  <2> SUFFICES ASSUME NEW q \in Request, Live(q)' \/ attempt'[q].pending # "none"
               PROVE  IsLatest(q)'
    BY DEF OneLiveAttempt
  <2>1. q # r
    BY <1>3 DEF Live
  <2>2. IsLatestWithout(q, r)
    BY <1>6, <2>1
  <2>3. Exists(q)' /\ attempt'[q].created = attempt[q].created
    BY <1>6, <2>1, <2>2 DEF IsLatestWithout
  <2>4. \A p \in Request : Exists(p)' =>
          attempt'[p].created <= attempt'[q].created
    BY <1>6, <1>12, <2>2, <2>3 DEF IsLatestWithout
  <2> QED
    BY <2>3, <2>4 DEF IsLatest
<1>16. ClosedIsQuiet'
  BY <1>3, <1>6 DEF ClosedIsQuiet
<1> QED
  BY <1>10, <1>11, <1>13, <1>14, <1>15, <1>16 DEF RemInv

-----------------------------------------------------------------------------
(* The triage, the checkout, and the theorems                              *)

LEMMA SetTriageKeeps ==
  ASSUME RemInv, NEW status \in {"open", "closed"}, NEW reason,
         SetTriage(status, reason)
  PROVE  RemInv'
<1>1. UNCHANGED <<attempt, created, checkout, call>> /\ triage' = status
  BY DEF SetTriage
<1>2. RemTypeOK'
  BY <1>1 DEF RemInv, RemTypeOK
<1>3. (\A r \in Request : RowFits(attempt[r], r))' /\ RowsInOrder'
  BY <1>1 DEF RemInv, RowFits, RowsInOrder, Exists
<1>4. \A c \in Caller : CallFits(call[c])'
  BY <1>1 DEF RemInv, CallFits, ReadFits, SetFits, ActionFits, ApplyingFits
<1>5. OneLiveAttempt'
  BY <1>1 DEF RemInv, OneLiveAttempt, Live, IsLatest, Exists
<1>6. ClosedIsQuiet'
  <2> SUFFICES ASSUME status = "closed", NEW r \in Request,
                      attempt[r].pending # "none"
               PROVE  attempt[r].state = "failed"
    BY <1>1 DEF ClosedIsQuiet
  <2>1. IsLatest(r)
    BY DEF RemInv, OneLiveAttempt
  <2>2. ~ClosingBlocked(attempt[r])
    BY <2>1 DEF SetTriage
  <2> QED
    BY <2>2 DEF ClosingBlocked
<1> QED
  BY <1>2, <1>3, <1>4, <1>5, <1>6 DEF RemInv

LEMMA NothingChanges ==
  ASSUME RemInv, UNCHANGED <<attempt, created, triage, checkout, call>>
  PROVE  RemInv'
BY OnlyCallsChange DEF RemInv, RemTypeOK

\* An edit is remembered by the commands that have read the checkout once.
LEMMA ChangeCheckoutKeeps ==
  ASSUME RemInv, NEW content \in Content, ChangeCheckout(content)
  PROVE  RemInv'
<1> DEFINE Marked(c) == [call[c] EXCEPT !.edited = TRUE]
<1>1. /\ UNCHANGED <<attempt, created, triage>> /\ checkout' = content
      /\ call' = [c \in Caller |->
           IF call[c].kind = "applying" THEN Marked(c) ELSE call[c]]
  BY DEF ChangeCheckout, Keep
<1>2. ASSUME NEW c \in Caller, call[c].kind = "applying"
      PROVE  /\ Marked(c) \in Call
             /\ Marked(c).kind = "applying" /\ Marked(c).edited = TRUE
             /\ Marked(c).row = call[c].row /\ Marked(c).req = call[c].req
  <2>1. call[c] \in ApplyingCall
    BY <1>2, KindOfCall DEF RemInv
  <2> QED
    BY <2>1 DEF Call, ApplyingCall
<1>3. ASSUME NEW c \in Caller PROVE CallFits(call[c])'
  <2>1. CallFits(call[c])
    BY DEF RemInv
  <2>2. CASE call[c].kind = "applying"
    <3>1. call'[c] = Marked(c)
      BY <1>1, <2>2
    <3> HIDE DEF Marked
    <3> QED
      BY <1>1, <1>2, <2>1, <2>2, <3>1 DEF CallFits, ReadFits, ApplyingFits
  <2>3. CASE call[c].kind # "applying"
    <3>1. call'[c] = call[c]
      BY <1>1, <2>3
    <3> QED
      BY <1>1, <2>1, <2>3, <3>1 DEF CallFits, ReadFits, SetFits, ActionFits
  <2> QED
    BY <2>2, <2>3
<1>4. RemTypeOK'
  <2>1. \A c \in Caller : call'[c] \in Call
    BY <1>1, <1>2 DEF RemInv, RemTypeOK
  <2>2. call' \in [Caller -> Call]
    BY <1>1, <2>1
  <2> QED
    BY <1>1, <2>2 DEF RemInv, RemTypeOK
<1>5. (\A r \in Request : RowFits(attempt[r], r))' /\ RowsInOrder'
  BY <1>1 DEF RemInv, RowFits, RowsInOrder, Exists
<1>6. OneLiveAttempt' /\ ClosedIsQuiet'
  BY <1>1 DEF RemInv, OneLiveAttempt, ClosedIsQuiet, Live, IsLatest, Exists
<1> QED
  BY <1>3, <1>4, <1>5, <1>6 DEF RemInv

LEMMA CommitKeeps == ASSUME RemInv, CommitStep PROVE RemInv'
<1>1. PICK c \in Caller : \/ CommitRequest(c) \/ CommitAction(c) \/ CommitSet(c)
                         \/ CompareApplied(c)
  BY DEF CommitStep
<1> QED
  BY <1>1, CommitRequestKeeps, CommitActionKeeps, CommitSetKeeps,
     CompareAppliedKeeps

LEMMA ClaimKeeps == ASSUME RemInv, ClaimStep PROVE RemInv'
<1>1. PICK r \in Request, t \in Token :
        \/ ClaimResend(r, t) \/ MarkDelivered(r, t)
        \/ ReleaseClaim(r, t) \/ CancelRequest(r, t)
  BY DEF ClaimStep
<1>2. CASE CancelRequest(r, t)
  BY <1>2, CancelFailedKeeps, CancelGenerationKeeps, CancelActionKeeps
     DEF CancelRequest
<1> QED
  BY <1>1, <1>2, ClaimResendKeeps, MarkDeliveredKeeps, ReleaseClaimKeeps

LEMMA RemStep == ASSUME RemInv, [RemNext]_remVars PROVE RemInv'
<1>1. CASE RequestStep
  BY <1>1, CheckRequestKeeps DEF RequestStep
<1>2. CASE ActionStep
  BY <1>2, CheckActionKeeps DEF ActionStep
<1>3. CASE SetStep
  BY <1>3, CheckSetKeeps, CheckAppliedKeeps DEF SetStep
<1>4. CASE CommitStep
  BY <1>4, CommitKeeps
<1>5. CASE ClaimStep
  BY <1>5, ClaimKeeps
<1>6. CASE TriageStep
  BY <1>6, SetTriageKeeps DEF TriageStep
<1>7. CASE \E r \in Request : LeaseRunsOut(r)
  BY <1>7, LeaseRunsOutKeeps
<1>8. CASE \E content \in Content : ChangeCheckout(content)
  BY <1>8, ChangeCheckoutKeeps
<1>9. CASE UNCHANGED remVars
  BY <1>9, NothingChanges DEF remVars
<1> QED
  BY <1>1, <1>2, <1>3, <1>4, <1>5, <1>6, <1>7, <1>8, <1>9 DEF RemNext

\* The rows, and what every command between its check and its commit has read
\* of them, stay consistent: the inductive invariant holds for every number of
\* requests, tokens and callers, and every bound on versions and rows.
THEOREM RemInvariance == RemSpec => []RemInv
<1>1. RemInit => RemInv
  BY RemStarts
<1>2. RemInv /\ [RemNext]_remVars => RemInv'
  BY RemStep
<1> QED
  BY <1>1, <1>2, PTL DEF RemSpec

\* Rows keep the shape the schema's constraints demand: no token without a
\* pending action, no delivery or lease without a token.
THEOREM RemTypeCorrect == RemSpec => []RemTypeOK
<1>1. RemInv => RemTypeOK
  BY DEF RemInv
<1> QED
  BY <1>1, RemInvariance, PTL

\* Requests and cancellations never leave two attempts of a finding that are
\* worked on: only the newest row can be live or have an action pending.
THEOREM OnlyOneIsWorkedOn == RemSpec => []OneLiveAttempt
<1>1. RemInv => OneLiveAttempt
  BY DEF RemInv
<1> QED
  BY <1>1, RemInvariance, PTL

\* A row is recorded as applied, verifying or verified only with the reviewed
\* patch on the content it was generated for, whatever happened to the row and
\* to the checkout before the digest, after the copy that is reversed, and up to
\* the UPDATE: only an edit between the digest and the copy can be recorded.
THEOREM AppliedIsReviewed == RemSpec => []FixIsTheReviewedPatch
<1>1. RemInv => FixIsTheReviewedPatch
  <2> SUFFICES ASSUME RemInv, NEW r \in Request,
                      attempt[r].state \in {"applied", "verifying", "verified"}
               PROVE  /\ attempt[r].patch
                      /\ \/ attempt[r].edited
                         \/ attempt[r].applied = PatchOn(attempt[r].base, r)
    BY DEF FixIsTheReviewedPatch
  <2>1. RowFits(attempt[r], r)
    BY DEF RemInv
  <2> QED
    BY <2>1 DEF RowFits
<1> QED
  BY <1>1, RemInvariance, PTL

\* While a finding is closed nothing of its remediation is worked on, however
\* the closing, the requests and the cancellations interleave.
THEOREM ClosedStaysQuiet == RemSpec => []ClosedIsQuiet
<1>1. RemInv => ClosedIsQuiet
  BY DEF RemInv
<1> QED
  BY <1>1, RemInvariance, PTL

\* The version and the token tested by an UPDATE stand for everything the
\* command looked at before its transaction.
THEOREM TheUpdateMayTrustTheCheck == RemSpec => []CompareAndSwapIsSound
<1>1. RemInv => CompareAndSwapIsSound
  <2> SUFFICES ASSUME RemInv, NEW c \in Caller,
                      call[c].kind \in {"set", "action"}
               PROVE  LET a == attempt[call[c].req] b == call[c].row IN
                      /\ call[c].kind = "set" /\ SetCommits(c)
                           /\ a.created = b.created =>
                           <<a.state, a.pending, a.patch, a.base, a.applied>> =
                             <<b.state, b.pending, b.patch, b.base, b.applied>>
                      /\ call[c].kind = "action" /\ ActionCommits(c)
                           /\ a.created = b.created => a.state = b.state
    BY DEF CompareAndSwapIsSound
  <2> DEFINE a == attempt[call[c].req]
             b == call[c].row
  <2>1. ASSUME call[c].kind = "set", SetCommits(c), a.created = b.created
        PROVE  <<a.state, a.pending, a.patch, a.base, a.applied>> =
                 <<b.state, b.pending, b.patch, b.base, b.applied>>
    BY <2>1, SetStillFits
  <2>2. ASSUME call[c].kind = "action", ActionCommits(c)
        PROVE  a.state = b.state
    BY <2>2, ActionStillFits
  <2> QED
    BY <2>1, <2>2
<1> QED
  BY <1>1, RemInvariance, PTL
=============================================================================
