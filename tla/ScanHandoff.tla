----------------------------- MODULE ScanHandoff -----------------------------
(***************************************************************************)
(* Who continues a scan.  The panel claims the handoff of a new scan with  *)
(* a token, sends the token to a Codex thread in a host message and        *)
(* records the delivery; the thread attaches itself.  A claim that was     *)
(* never delivered is released or, once it is stale, taken over with       *)
(* another token, and the thread of the first message may still turn up.   *)
(* A scan of the command line is never claimed: its own session is its     *)
(* thread, and the first thread to begin a Deep Scan of its owns that one. *)
(***************************************************************************)
CONSTANTS
  Token,      \* claim tokens
  Recovery,   \* those with the prefix "recovery_"
  Thread,     \* Codex threads
  NoToken,    \* handoff_claim_token IS NULL
  NoThread    \* a thread column is NULL

ASSUME HandoffAssumption ==
  NoToken \notin Token /\ NoThread \notin Thread /\ Recovery \subseteq Token

VARIABLES
  handoff,    \* [cli, deep, workspace, delivered, token, stale, thread, owner]
  attachedAs  \* history: the token the continuation thread was attached with

handoffVars == <<handoff, attachedAs>>

Handoff ==
  [cli: BOOLEAN, deep: BOOLEAN, workspace: Thread \cup {NoThread},
   delivered: BOOLEAN, token: Token \cup {NoToken}, stale: BOOLEAN,
   thread: Thread \cup {NoThread}, owner: Thread \cup {NoThread}]

\* The columns of a new row, for a scan in the workspace of thread w.
NewScan(deep, w) ==
  [cli |-> FALSE, deep |-> deep, workspace |-> w, delivered |-> FALSE,
   token |-> NoToken, stale |-> FALSE, thread |-> NoThread,
   owner |-> IF deep THEN w ELSE NoThread]

\* A scan the panel starts waits for its handoff; one that a prompt starts is
\* delivered without a token, a headless one with the token of its thread, and
\* one of the command line without a token and without a thread.
StartedByPanel == \E deep \in BOOLEAN, w \in Thread \cup {NoThread} :
  handoff = NewScan(deep, w)
StartedByPrompt == \E deep \in BOOLEAN, w \in Thread :
  handoff = [NewScan(deep, w) EXCEPT !.delivered = TRUE]
StartedHeadless == \E w \in Thread, t \in Token :
  handoff = [NewScan(FALSE, w) EXCEPT !.delivered = TRUE, !.token = t,
                                      !.thread = w]
StartedByCLI == \E deep \in BOOLEAN :
  handoff = [NewScan(deep, NoThread) EXCEPT !.cli = TRUE, !.delivered = TRUE]

HandoffInit ==
  /\ StartedByPanel \/ StartedByPrompt \/ StartedHeadless \/ StartedByCLI
  /\ attachedAs = handoff.token
-----------------------------------------------------------------------------
\* A command speaks for the scan with the token that holds it, or with none
\* where the scan was delivered without one.
CurrentContinuation(t) ==
  IF t = NoToken THEN handoff.delivered /\ handoff.token = NoToken
  ELSE handoff.token = t

OwningThread == IF handoff.thread # NoThread THEN handoff.thread
                ELSE handoff.workspace

\* Mutant: a claim taken over keeps the thread of the one before it.
ClaimKeepsThread(t, takeOverStale) ==
  /\ ~handoff.delivered
  /\ handoff.token # t
  /\ handoff.token = NoToken \/ (takeOverStale /\ handoff.stale)
  /\ handoff' = [handoff EXCEPT !.token = t, !.stale = FALSE]
  /\ UNCHANGED attachedAs

ClaimHandoff(t, takeOverStale) ==
  /\ ~handoff.delivered
  /\ handoff.token # t
  /\ handoff.token = NoToken \/ (takeOverStale /\ handoff.stale)
  /\ handoff' = IF handoff.token = NoToken
                THEN [handoff EXCEPT !.token = t, !.stale = FALSE]
                ELSE [handoff EXCEPT !.token = t, !.stale = FALSE,
                                     !.thread = NoThread, !.owner = NoThread]
  /\ attachedAs' = IF handoff.token = NoToken THEN attachedAs ELSE NoToken

\* Mutant: a delivered handoff can be released.
ReleaseDelivered(t) ==
  /\ handoff.token = t
  /\ handoff' = [handoff EXCEPT !.token = NoToken, !.stale = FALSE,
                                !.thread = NoThread, !.owner = NoThread]
  /\ attachedAs' = NoToken

ReleaseHandoff(t) ==
  /\ ~handoff.delivered
  /\ handoff.token = t
  /\ handoff' = [handoff EXCEPT !.token = NoToken, !.stale = FALSE,
                                !.thread = NoThread, !.owner = NoThread]
  /\ attachedAs' = NoToken

AttachThread(t, u) ==
  /\ handoff.token = t
  /\ handoff.thread = NoThread
  /\ handoff' = [handoff EXCEPT !.thread = u,
                                !.owner = IF handoff.deep THEN u ELSE @]
  /\ attachedAs' = t

\* `u' is NoThread when the panel, not a thread, records the delivery.
DeliveryAllowed(t, u) == u = NoThread \/ OwningThread = u \/ t \in Recovery

MarkHandoffDelivered(t, u) ==
  /\ DeliveryAllowed(t, u)
  /\ ~handoff.delivered
  /\ handoff.token = t
  /\ handoff' = [handoff EXCEPT !.delivered = TRUE, !.stale = FALSE]
  /\ UNCHANGED attachedAs

\* The lease of a claim that was not delivered runs out.
ClaimGoesStale ==
  /\ ~handoff.delivered
  /\ handoff.token # NoToken
  /\ ~handoff.stale
  /\ handoff' = [handoff EXCEPT !.stale = TRUE]
  /\ UNCHANGED attachedAs

\* The command line names the thread of its session, which it owns already.
SetScanThread(u) ==
  /\ handoff.cli
  /\ handoff' = [handoff EXCEPT !.thread = u]
  /\ UNCHANGED attachedAs

\* A thread begins a Deep Scan of the command line that nobody owns.
BeginDeepScan(t, u) ==
  /\ handoff.cli /\ handoff.deep
  /\ handoff.delivered
  /\ handoff.owner = NoThread /\ handoff.workspace = NoThread
  /\ CurrentContinuation(t)
  /\ handoff' = [handoff EXCEPT !.owner = u, !.workspace = u]
  /\ UNCHANGED attachedAs

HandoffNext ==
  \/ \E t \in Token, takeOverStale \in BOOLEAN : ClaimHandoff(t, takeOverStale)
  \/ \E t \in Token : ReleaseHandoff(t)
  \/ \E t \in Token, u \in Thread : AttachThread(t, u)
  \/ \E t \in Token, u \in Thread \cup {NoThread} : MarkHandoffDelivered(t, u)
  \/ ClaimGoesStale
  \/ \E u \in Thread : SetScanThread(u)
  \/ \E t \in Token \cup {NoToken}, u \in Thread : BeginDeepScan(t, u)

HandoffSpec == HandoffInit /\ [][HandoffNext]_handoffVars
-----------------------------------------------------------------------------
HandoffTypeOK ==
  /\ handoff \in Handoff
  /\ attachedAs \in Token \cup {NoToken}

\* The thread a scan of the plugin is attached to is one that was sent the
\* token which holds the scan now: whatever became of the claim it came with, a
\* thread of an earlier claim neither owns the scan nor records its delivery.
\* A Deep Scan is orchestrated by the attached thread and no other.
ThreadHoldsTheClaim ==
  ~handoff.cli /\ handoff.thread # NoThread =>
    /\ handoff.token # NoToken
    /\ attachedAs = handoff.token
    /\ handoff.deep => handoff.owner = handoff.thread

\* What a step may never do to a delivered scan: give it to another token or
\* another thread, or take it back.  A Deep Scan of the command line stays with
\* the thread that began it, in whatever thread the session goes on.
DeliveredIsFinal ==
  [][handoff.delivered =>
       /\ handoff'.delivered
       /\ handoff'.token = handoff.token
       /\ ~handoff.cli /\ handoff.thread # NoThread =>
            handoff'.thread = handoff.thread
       /\ handoff.cli /\ handoff.owner # NoThread =>
            handoff'.owner = handoff.owner
    ]_handoffVars
=============================================================================
