----------------------------- MODULE SendQueue -----------------------------
(***************************************************************************)
(* Sending mail from packages/inbox-sdk/src/core.ts.  A caller submits a   *)
(* draft; the accepted operation waits in sdk_operations; a worker of some *)
(* process claims it under an expiring lease, dispatches the message to    *)
(* the provider and records the receipt.  Meanwhile callers cancel,        *)
(* reschedule and edit drafts, the account is disconnected, reconnected or *)
(* given new credentials, its mailbox is detached, leases expire and       *)
(* workers die.                                                            *)
(*                                                                         *)
(* Every db transaction of the code is one step; every await is a point    *)
(* where another step may come between.  The module follows one account:   *)
(* nothing in the code relates the sends of two accounts.                  *)
(*                                                                         *)
(* A lease (a random UUID taken with every claim) is named by the number   *)
(* of the claim, attempts[o]; two claims of one operation never share it.  *)
(***************************************************************************)
EXTENDS Integers, FiniteSets

CONSTANTS
  Drafts,      \* the drafts of the account
  Bound,       \* the drafts composed from an attached mailbox (draft.mailboxId)
  Callers,     \* concurrent calls of inbox.submit
  Keys,        \* idempotency keys
  Workers,     \* executeOperation slots of all processes
  RetryLimit,  \* a retryable failure is retried while attempts < RetryLimit (5)
  MaxOps,      \* bound: operations ever accepted
  MaxEpoch,    \* bound: changes of the account's generations
  MaxRev       \* bound: revisions of a draft

ASSUME SendAssumption ==
  /\ Drafts # {} /\ Keys # {} /\ Bound \subseteq Drafts
  /\ RetryLimit \in Nat \ {0}
  /\ MaxOps \in Nat /\ MaxEpoch \in Nat /\ MaxRev \in Nat

Ops == 1..MaxOps                       \* sdk_operations.seq: the order of acceptance

VARIABLES
  draft,      \* sdk_drafts: status and revision of every draft
  attached,   \* the mailbox that Bound drafts name is not detached
  account,    \* sdk_accounts/sdk_connections: status, account generation, and
              \* epoch, which counts every change of either generation
  request,    \* inbox.submit calls between their first checks and their transaction
  status,     \* sdk_operations.status, "free" for a row not inserted yet
  intent,     \* the submitted draft, its revision and the idempotency key
  gen,        \* sdk_operations.generation
  attempts,   \* claims so far, which also names the current lease
  fresh,      \* processing operations with lease_until > now
  waiting,    \* operations with next_at > now
  held,       \* operations with holdUntil > now: the undo-send window is open
  worker,     \* what every executeOperation slot is doing
  wire,       \* requests the provider has been given and has not decided
  delivered   \* requests the provider has accepted

opVars == <<status, intent, gen, attempts, fresh, waiting, held>>
vars == <<draft, attached, account, request, opVars, worker, wire, delivered>>

Settled == {"succeeded", "partial", "failed", "cancelled", "uncertain"}
Live == {"pending", "processing"}
Intents == [draft : Drafts, rev : Nat, key : Keys]

Accounts == [status : {"connected", "reconnect_required", "disconnected"}, gen : Nat, epoch : Nat]
DraftRows == [status : {"active", "submitted", "deleted"}, rev : Nat]
Phases == {"idle", "claimed", "prepared", "calling", "sent", "answered", "failing"}
Outcomes == {"none", "all", "some", "noone", "final", "retry", "unknown"}
Slot == [phase : Phases, op : 0..MaxOps, token : Nat, epoch : Nat, try : 0..1, outcome : Outcomes]
Idle == [phase |-> "idle", op |-> 0, token |-> 0, epoch |-> 0, try |-> 0, outcome |-> "none"]

Claimed(o, token) == [phase |-> "claimed", op |-> o, token |-> token, epoch |-> 0, try |-> 0, outcome |-> "none"]

Requests == [draft : Drafts, rev : Nat, key : Keys, epoch : Nat]
NoIntent == [draft |-> CHOOSE d \in Drafts : TRUE, rev |-> 0, key |-> CHOOSE k \in Keys : TRUE]
NoRequest == [draft |-> NoIntent.draft, rev |-> 0, key |-> NoIntent.key, epoch |-> 0]

TypeOK ==
  /\ draft \in [Drafts -> DraftRows]
  /\ attached \in BOOLEAN
  /\ account \in Accounts
  /\ request \in [Callers -> Requests]
  /\ status \in [Ops -> {"free"} \cup Live \cup Settled]
  /\ intent \in [Ops -> Intents]
  /\ gen \in [Ops -> Nat]
  /\ attempts \in [Ops -> Nat]
  /\ fresh \subseteq Ops /\ waiting \subseteq Ops /\ held \subseteq Ops
  /\ worker \in [Workers -> Slot]
  /\ wire \in [Ops -> Nat] /\ delivered \in [Ops -> Nat]

Init ==
  /\ draft = [d \in Drafts |-> [status |-> "active", rev |-> 1]]
  /\ attached = TRUE
  /\ account = [status |-> "connected", gen |-> 1, epoch |-> 1]
  /\ request = [c \in Callers |-> NoRequest]
  /\ status = [o \in Ops |-> "free"]
  /\ intent = [o \in Ops |-> NoIntent]
  /\ gen = [o \in Ops |-> 0]
  /\ attempts = [o \in Ops |-> 0]
  /\ fresh = {} /\ waiting = {} /\ held = {}
  /\ worker = [w \in Workers |-> Idle]
  /\ wire = [o \in Ops |-> 0]
  /\ delivered = [o \in Ops |-> 0]

----------------------------------------------------------------------------
(* Helpers *)

Connected == account.status = "connected"

\* Mistake: a slot trusts that it still owns the row it claimed.
OwnsForGood(w) == worker[w].op \in Ops

\* ownsLease: the row is still processing under the lease this slot claimed.
Owns(w) == \E o \in Ops : o = worker[w].op /\ status[o] = "processing" /\ attempts[o] = worker[w].token

\* current(account): neither generation moved and the account is connected.
Current(w) == Connected /\ account.epoch = worker[w].epoch

\* Mistake: a send is failed or cancelled and its draft stays submitted.
RestoreForgotten(S) == draft

\* restoreDraft for each operation of S: only a draft still at the submitted revision.
Restored(S) ==
  [d \in Drafts |->
     IF \E o \in S : intent[o].draft = d /\ intent[o].rev = draft[d].rev /\ draft[d].status # "deleted"
     THEN [draft[d] EXCEPT !.status = "active"] ELSE draft[d]]

\* saveOperation for each operation of S.
Saved(S, s) == [o \in Ops |-> IF o \in S THEN s ELSE status[o]]

\* Mistake: a claimed send is cancelled as if it had not been dispatched.
WithdrawnUnasked(S) == [o \in Ops |-> IF o \in S /\ status[o] \in Live THEN "cancelled" ELSE status[o]]

\* What an account or mailbox change does to the sends of S: a claimed one may
\* have been dispatched, one still pending has not.
Withdrawn(S) == [o \in Ops |-> IF o \in S /\ status[o] = "processing" THEN "uncertain"
                               ELSE IF o \in S /\ status[o] = "pending" THEN "cancelled"
                               ELSE status[o]]

\* Mistake: what is meant for pending rows reaches running ones.
WithStatusOrRunning(s) == {o \in Ops : status[o] \in {s, "processing"}}

WithStatus(s) == {o \in Ops : status[o] = s}

\* Mistake: only an unfinished operation is replayed.
ReplayedWhileLive(k) == {o \in Ops : status[o] \in Live /\ intent[o].key = k}

\* replay: the operation this key already belongs to, if any.
Replayed(k) == {o \in Ops : status[o] # "free" /\ intent[o].key = k}

Rest(w) == worker' = [worker EXCEPT ![w] = Idle]
Move(w, phase) == worker' = [worker EXCEPT ![w].phase = phase]
Fail(w, kind) == worker' = [worker EXCEPT ![w].phase = "failing", ![w].outcome = kind]

----------------------------------------------------------------------------
(* Callers *)

\* updateDraft
UpdateDraft(d) ==
  /\ draft[d].status = "active" /\ draft[d].rev < MaxRev
  /\ (d \in Bound => attached)
  /\ draft' = [draft EXCEPT ![d].rev = @ + 1]
  /\ UNCHANGED <<attached, account, request, opVars, worker, wire, delivered>>

\* deleteDraft
DeleteDraft(d) ==
  /\ draft[d].status = "active"
  /\ draft' = [draft EXCEPT ![d].status = "deleted"]
  /\ UNCHANGED <<attached, account, request, opVars, worker, wire, delivered>>

\* submit, up to its await: the caller read the draft at its present revision.
SubmitBegins(c, k, d) ==
  /\ request[c] = NoRequest
  /\ Replayed(k) = {}
  /\ Connected
  /\ draft[d].status = "active"
  /\ (d \in Bound => attached)
  /\ request' = [request EXCEPT ![c] = [key |-> k, draft |-> d, rev |-> draft[d].rev, epoch |-> account.epoch]]
  /\ UNCHANGED <<draft, attached, account, opVars, worker, wire, delivered>>

\* submit's transaction: the checks of the first half hold again, so the row is inserted.
SubmitAccepts(c) ==
  LET r == request[c] IN
  /\ r # NoRequest
  /\ Replayed(r.key) = {}
  /\ draft[r.draft].rev = r.rev /\ draft[r.draft].status = "active"
  /\ Connected /\ account.epoch = r.epoch               \* assertIdentityBinding
  /\ (r.draft \in Bound => attached)                    \* validateDraft
  /\ \E o \in Ops :
       /\ status[o] = "free" /\ \A p \in Ops : p < o => status[p] # "free"
       /\ status' = [status EXCEPT ![o] = "pending"]
       /\ intent' = [intent EXCEPT ![o] = [draft |-> r.draft, rev |-> r.rev, key |-> r.key]]
       /\ gen' = [gen EXCEPT ![o] = account.gen]
       /\ waiting' = waiting \cup {o} /\ held' = held \cup {o}
  /\ draft' = [draft EXCEPT ![r.draft].status = "submitted"]
  /\ request' = [request EXCEPT ![c] = NoRequest]
  /\ UNCHANGED <<attached, account, attempts, fresh, worker, wire, delivered>>

\* submit replays an earlier acceptance, fails one of its checks or loses its caller.
SubmitReturns(c) ==
  /\ request[c] # NoRequest
  /\ request' = [request EXCEPT ![c] = NoRequest]
  /\ UNCHANGED <<draft, attached, account, opVars, worker, wire, delivered>>

\* cancel of a pending send.  draftRow throws when the draft is gone.
Cancel(o) ==
  /\ status[o] = "pending"
  /\ draft[intent[o].draft].status # "deleted"
  /\ status' = [status EXCEPT ![o] = "cancelled"]
  /\ draft' = [draft EXCEPT ![intent[o].draft].status = "active"]
  /\ UNCHANGED <<attached, account, request, intent, gen, attempts, fresh, waiting, held,
                 worker, wire, delivered>>

\* Mistake: the requested instant wins over holdUntil.
RescheduleIntoHold(o, soon) ==
  /\ status[o] = "pending"
  /\ waiting' = IF soon THEN waiting \ {o} ELSE waiting \cup {o}
  /\ UNCHANGED <<draft, attached, account, request, status, intent, gen, attempts, fresh, held,
                 worker, wire, delivered>>

\* reschedule: next_at = max(the requested instant, holdUntil).
Reschedule(o, soon) ==
  /\ status[o] = "pending"
  /\ waiting' = IF soon /\ o \notin held THEN waiting \ {o} ELSE waiting \cup {o}
  /\ UNCHANGED <<draft, attached, account, request, status, intent, gen, attempts, fresh, held,
                 worker, wire, delivered>>

----------------------------------------------------------------------------
(* Time.  It is followed for the rows that still read it. *)

HoldEnds(o) ==
  /\ o \in held /\ status[o] = "pending"
  /\ held' = held \ {o}
  /\ UNCHANGED <<draft, attached, account, request, status, intent, gen, attempts, fresh, waiting,
                 worker, wire, delivered>>

\* next_at passes; it is never before holdUntil (accept, reschedule).
TimeUp(o) ==
  /\ o \in waiting \ held /\ status[o] = "pending"
  /\ waiting' = waiting \ {o}
  /\ UNCHANGED <<draft, attached, account, request, status, intent, gen, attempts, fresh, held,
                 worker, wire, delivered>>

\* Only the lease of a processing row is ever read.
LeaseExpires(o) ==
  /\ o \in fresh /\ status[o] = "processing"
  /\ fresh' = fresh \ {o}
  /\ UNCHANGED <<draft, attached, account, request, status, intent, gen, attempts, waiting, held,
                 worker, wire, delivered>>

\* executeOperation's interval, also in a process that slept past its lease.
Heartbeat(w) ==
  /\ worker[w].phase # "idle" /\ Owns(w)
  /\ fresh' = fresh \cup {worker[w].op}
  /\ UNCHANGED <<draft, attached, account, request, status, intent, gen, attempts, waiting, held,
                 worker, wire, delivered>>

----------------------------------------------------------------------------
(* processDue *)

Expired == WithStatus("processing") \ fresh

\* Mistake: an expired send is queued again, as an expired mutation is.
SweepRequeues ==
  /\ Expired # {}
  /\ status' = Saved(Expired, "pending")
  /\ waiting' = waiting \ Expired
  /\ UNCHANGED <<draft, attached, account, request, intent, gen, attempts, fresh, held,
                 worker, wire, delivered>>

\* First transaction: a send whose lease ran out may have been dispatched.
Sweep ==
  /\ Expired # {}
  /\ status' = Saved(Expired, "uncertain")
  /\ waiting' = waiting \ Expired
  /\ UNCHANGED <<draft, attached, account, request, intent, gen, attempts, fresh, held,
                 worker, wire, delivered>>

Due(o) == status[o] = "pending" /\ o \notin waiting /\ gen[o] = account.gen

\* Second transaction: the oldest due operation of a connected account that has
\* no live lease.
Claim(w, o) ==
  /\ worker[w].phase = "idle"
  /\ Due(o) /\ Connected
  /\ WithStatus("processing") \cap fresh = {}
  /\ \A p \in Ops : p < o => ~Due(p)
  /\ status' = [status EXCEPT ![o] = "processing"]
  /\ attempts' = [attempts EXCEPT ![o] = @ + 1]
  /\ fresh' = fresh \cup {o}
  /\ worker' = [worker EXCEPT ![w] = Claimed(o, attempts[o] + 1)]
  /\ UNCHANGED <<draft, attached, account, request, intent, gen, waiting, held, wire, delivered>>

----------------------------------------------------------------------------
(* executeOperation *)

\* accountRow(owner, account, true); a generation other than the claimed row's
\* or an account that is not connected is a final RECONNECT_REQUIRED.
ReadAccount(w) ==
  /\ worker[w].phase = "claimed"
  /\ IF Connected /\ account.gen = gen[worker[w].op]
     THEN worker' = [worker EXCEPT ![w].phase = "prepared", ![w].epoch = account.epoch]
     ELSE Fail(w, "final")
  /\ UNCHANGED <<draft, attached, account, request, opVars, wire, delivered>>

\* validateDraft, the attachment downloads, providerFor or the identity lookup
\* throws: nothing has been dispatched.
FailsBeforeDispatch(w, kind) ==
  /\ worker[w].phase \in {"prepared", "calling"}
  /\ Fail(w, kind)
  /\ UNCHANGED <<draft, attached, account, request, opVars, wire, delivered>>

\* Attachments are loaded; a lost lease or a changed account ends the execution
\* without a word in the row.
EntersIo(w) ==
  /\ worker[w].phase = "prepared"
  /\ IF Owns(w) /\ Current(w) THEN Move(w, "calling") ELSE Rest(w)
  /\ UNCHANGED <<draft, attached, account, request, opVars, wire, delivered>>

\* Inside io: ownsLease, assertIdentityBinding and provider.send with no await between.
Dispatch(w) ==
  /\ worker[w].phase = "calling"
  /\ \/ /\ ~Owns(w)
        /\ Rest(w)
        /\ UNCHANGED wire
     \/ /\ Owns(w) /\ ~Current(w)
        /\ Fail(w, "retry")                              \* CREDENTIALS_CHANGED
        /\ UNCHANGED wire
     \/ /\ Owns(w) /\ Current(w)
        /\ Move(w, "sent")
        /\ wire' = [wire EXCEPT ![worker[w].op] = @ + 1]
  /\ UNCHANGED <<draft, attached, account, request, opVars, delivered>>

\* The provider accepts the request and its answer arrives.
ProviderAccepts(w, outcome) ==
  /\ worker[w].phase = "sent" /\ wire[worker[w].op] > 0
  /\ outcome \in {"all", "some"}
  /\ wire' = [wire EXCEPT ![worker[w].op] = @ - 1]
  /\ delivered' = [delivered EXCEPT ![worker[w].op] = @ + 1]
  /\ worker' = [worker EXCEPT ![w].phase = "answered", ![w].outcome = outcome]
  /\ UNCHANGED <<draft, attached, account, request, opVars>>

\* The provider answers that no recipient was accepted.
ProviderRejects(w) ==
  /\ worker[w].phase = "sent" /\ wire[worker[w].op] > 0
  /\ wire' = [wire EXCEPT ![worker[w].op] = @ - 1]
  /\ worker' = [worker EXCEPT ![w].phase = "answered", ![w].outcome = "noone"]
  /\ UNCHANGED <<draft, attached, account, request, opVars, delivered>>

\* provider.send throws AUTHENTICATION: io tries once more with rejected credentials,
\* then gives up with a retryable CREDENTIALS_UNAVAILABLE.
ProviderRefusesLogin(w) ==
  /\ worker[w].phase = "sent" /\ wire[worker[w].op] > 0
  /\ wire' = [wire EXCEPT ![worker[w].op] = @ - 1]
  /\ IF worker[w].try = 0
     THEN worker' = [worker EXCEPT ![w].phase = "calling", ![w].try = 1]
     ELSE Fail(w, "retry")
  /\ UNCHANGED <<draft, attached, account, request, opVars, delivered>>

\* provider.send throws an error that says the request was not taken:
\* AUTHORIZATION, VALIDATION, ... (final) or RATE_LIMITED (retry).
ProviderRefuses(w, kind) ==
  /\ worker[w].phase = "sent" /\ wire[worker[w].op] > 0
  /\ wire' = [wire EXCEPT ![worker[w].op] = @ - 1]
  /\ Fail(w, kind)
  /\ UNCHANGED <<draft, attached, account, request, opVars, delivered>>

\* provider.send throws anything else, the 30 s timeout fires or the connection is retired.
AnswerLost(w) ==
  /\ worker[w].phase = "sent"
  /\ Fail(w, "unknown")
  /\ UNCHANGED <<draft, attached, account, request, opVars, wire, delivered>>

\* A request nobody waits for any more reaches the provider, or never does.
LateDecision(o, taken) ==
  /\ wire[o] > 0
  /\ ~ \E w \in Workers : worker[w].phase = "sent" /\ worker[w].op = o
  /\ wire' = [wire EXCEPT ![o] = @ - 1]
  /\ delivered' = IF taken THEN [delivered EXCEPT ![o] = @ + 1] ELSE delivered
  /\ UNCHANGED <<draft, attached, account, request, opVars, worker>>

\* The receipt transaction.
Receipt(w) ==
  LET o == worker[w].op IN
  /\ worker[w].phase = "answered"
  /\ \/ /\ ~Owns(w)
        /\ UNCHANGED <<status, draft>>
     \/ /\ Owns(w) /\ ~Current(w)
        /\ status' = [status EXCEPT ![o] = "uncertain"]
        /\ UNCHANGED draft
     \/ /\ Owns(w) /\ Current(w) /\ worker[w].outcome = "noone"
        /\ status' = [status EXCEPT ![o] = "failed"]
        /\ draft' = Restored({o})
     \/ /\ Owns(w) /\ Current(w) /\ worker[w].outcome # "noone"
        /\ status' = [status EXCEPT ![o] = IF worker[w].outcome = "all" THEN "succeeded" ELSE "partial"]
        /\ UNCHANGED draft
  /\ Rest(w)
  /\ UNCHANGED <<attached, account, request, intent, gen, attempts, fresh, waiting, held, wire, delivered>>

\* The receipt transaction throws and rolls back: an error that is not a definite rejection.
ReceiptThrows(w) ==
  /\ worker[w].phase = "answered" /\ Owns(w)
  /\ Fail(w, "unknown")
  /\ UNCHANGED <<draft, attached, account, request, opVars, wire, delivered>>

\* The transaction of the outer catch.
FailureRecorded(w) ==
  LET o == worker[w].op IN
  /\ worker[w].phase = "failing"
  /\ \/ /\ ~Owns(w)
        /\ UNCHANGED <<status, waiting, draft>>
     \/ /\ Owns(w) /\ worker[w].outcome = "unknown"
        /\ status' = [status EXCEPT ![o] = "uncertain"]
        /\ UNCHANGED <<waiting, draft>>
     \/ /\ Owns(w) /\ worker[w].outcome = "retry" /\ attempts[o] < RetryLimit
        /\ status' = [status EXCEPT ![o] = "pending"]
        /\ waiting' = waiting \cup {o}
        /\ UNCHANGED draft
     \/ /\ Owns(w)
        /\ \/ worker[w].outcome = "final"
           \/ worker[w].outcome = "retry" /\ attempts[o] >= RetryLimit
        /\ status' = [status EXCEPT ![o] = "failed"]
        /\ draft' = Restored({o})
        /\ UNCHANGED waiting
  /\ Rest(w)
  /\ UNCHANGED <<attached, account, request, intent, gen, attempts, fresh, held, wire, delivered>>

\* The process of this slot dies.
Crash(w) ==
  /\ worker[w].phase # "idle"
  /\ Rest(w)
  /\ UNCHANGED <<draft, attached, account, request, opVars, wire, delivered>>

----------------------------------------------------------------------------
(* The account and its mailbox *)

\* disconnect
Disconnect ==
  /\ account.epoch < MaxEpoch
  /\ account' = [status |-> "disconnected", gen |-> account.gen + 1, epoch |-> account.epoch + 1]
  /\ status' = Withdrawn(Ops)
  /\ draft' = Restored(WithStatus("pending"))
  /\ UNCHANGED <<attached, request, intent, gen, attempts, fresh, waiting, held, worker, wire, delivered>>

\* Mistake: pending work keeps the generation it was accepted under.
ReconnectStrands ==
  /\ account.epoch < MaxEpoch
  /\ account' = [status |-> "connected", gen |-> account.gen + 1, epoch |-> account.epoch + 1]
  /\ status' = Saved(WithStatus("processing"), "uncertain")
  /\ UNCHANGED <<draft, attached, request, intent, gen, attempts, fresh, waiting, held, worker, wire, delivered>>

\* reconnectSource: in-flight work is fenced, pending work moves to the new generation.
Reconnect ==
  /\ account.epoch < MaxEpoch
  /\ account' = [status |-> "connected", gen |-> account.gen + 1, epoch |-> account.epoch + 1]
  /\ status' = Saved(WithStatus("processing"), "uncertain")
  /\ gen' = [o \in Ops |-> IF status[o] = "pending" THEN account.gen + 1 ELSE gen[o]]
  /\ UNCHANGED <<draft, attached, request, intent, attempts, fresh, waiting, held, worker, wire, delivered>>

\* replaceCredentials: saveCredentials(..., recover = true); only the connection's
\* generation moves.
RecoverCredentials ==
  /\ account.epoch < MaxEpoch /\ account.status # "disconnected"
  /\ account' = [status |-> "connected", gen |-> account.gen, epoch |-> account.epoch + 1]
  /\ status' = Saved(WithStatus("processing"), "uncertain")
  /\ UNCHANGED <<draft, attached, request, intent, gen, attempts, fresh, waiting, held, worker, wire, delivered>>

\* reconnectSource of another source of the same connection: the connection's
\* generation moves, this account's operations are left as they are.
SiblingReconnects ==
  /\ account.epoch < MaxEpoch
  /\ account' = [account EXCEPT !.epoch = @ + 1]
  /\ UNCHANGED <<draft, attached, request, opVars, worker, wire, delivered>>

\* revokeCredentials: operations are left as they are.
Revoke ==
  /\ Connected
  /\ account' = [account EXCEPT !.status = "reconnect_required"]
  /\ UNCHANGED <<draft, attached, request, opVars, worker, wire, delivered>>

\* updateMailbox with status "detached": the work bound to the mailbox is withdrawn.
Detach ==
  LET bound == {o \in Ops : status[o] \in Live /\ intent[o].draft \in Bound} IN
  /\ attached
  /\ attached' = FALSE
  /\ status' = Withdrawn(bound)
  /\ draft' = Restored(bound \cap WithStatus("pending"))
  /\ UNCHANGED <<account, request, intent, gen, attempts, fresh, waiting, held, worker, wire, delivered>>

\* updateMailbox with status "active"
Attach ==
  /\ ~attached
  /\ attached' = TRUE
  /\ UNCHANGED <<draft, account, request, opVars, worker, wire, delivered>>

----------------------------------------------------------------------------

CallerStep ==
  \/ \E d \in Drafts : UpdateDraft(d) \/ DeleteDraft(d)
  \/ \E c \in Callers : SubmitAccepts(c) \/ SubmitReturns(c)
  \/ \E c \in Callers, k \in Keys, d \in Drafts : SubmitBegins(c, k, d)
  \/ \E o \in Ops : Cancel(o)
  \/ \E o \in Ops, soon \in BOOLEAN : Reschedule(o, soon)

TimeStep ==
  \/ \E o \in Ops : HoldEnds(o) \/ TimeUp(o) \/ LeaseExpires(o)
  \/ \E w \in Workers : Heartbeat(w)

\* What a live execution does next.
Execute(w) ==
  \/ ReadAccount(w) \/ EntersIo(w) \/ Dispatch(w)
  \/ \E kind \in {"final", "retry"} : FailsBeforeDispatch(w, kind) \/ ProviderRefuses(w, kind)
  \/ \E outcome \in {"all", "some"} : ProviderAccepts(w, outcome)
  \/ ProviderRejects(w) \/ ProviderRefusesLogin(w) \/ AnswerLost(w)
  \/ Receipt(w) \/ ReceiptThrows(w) \/ FailureRecorded(w)

WorkerStep ==
  \/ Sweep
  \/ \E w \in Workers, o \in Ops : Claim(w, o)
  \/ \E w \in Workers : Execute(w) \/ Crash(w)
  \/ \E o \in Ops, taken \in BOOLEAN : LateDecision(o, taken)

AccountStep ==
  Disconnect \/ Reconnect \/ RecoverCredentials \/ SiblingReconnects \/ Revoke \/ Detach \/ Attach

Next == CallerStep \/ TimeStep \/ WorkerStep \/ AccountStep

Spec == Init /\ [][Next]_vars

----------------------------------------------------------------------------
(* Properties *)

\* However workers crash, leases expire, credentials change and answers get lost,
\* the provider is never given a send a second time while the first request may
\* have been, or may still be, accepted.
AtMostOneDelivery == \A o \in Ops : wire[o] + delivered[o] <= 1

\* What the row finally says about a send agrees with the provider: an accepted
\* one is reported as such, and nothing reported failed or cancelled was or will
\* be delivered.  (An unknown outcome is "uncertain".)
OutcomeIsHonest ==
  \A o \in Ops :
    /\ status[o] \in {"succeeded", "partial"} => delivered[o] = 1
    /\ status[o] \in {"free", "pending", "failed", "cancelled"} => wire[o] = 0 /\ delivered[o] = 0

\* A draft the user may edit and submit again has no send that is still queued,
\* running, accepted or in doubt: resubmitting it cannot duplicate a message.
ResubmittingIsSafe ==
  \A o \in Ops : status[o] # "free" /\ draft[intent[o].draft].status = "active" =>
    status[o] \in {"failed", "cancelled"}

\* A submitted draft belongs to exactly one send, so no restore is forgotten and
\* no draft is locked away without an operation that explains it.
SubmittedDraftHasOneSend ==
  \A d \in Drafts : draft[d].status = "submitted" =>
    Cardinality({o \in Ops : status[o] \notin {"free", "failed", "cancelled"} /\ intent[o].draft = d}) = 1

\* Disconnecting and reconnecting never strand a send: live rows carry the account's
\* generation, the one processDue claims by, and a disconnected account has none.
LiveSendsAreClaimable ==
  \A o \in Ops : status[o] \in Live => gen[o] = account.gen /\ account.status # "disconnected"

\* The undo-send window is honoured: nothing is dispatched before holdUntil,
\* whatever the operation was rescheduled to.
HoldIsHonoured == \A o \in Ops : attempts[o] > 0 => o \notin held

\* Concurrent and repeated submits with one idempotency key make one operation.
KeysAreIdempotent ==
  \A o, p \in Ops : status[o] # "free" /\ status[p] # "free" /\ intent[o].key = intent[p].key => o = p

\* A settled send keeps its outcome: a worker that lost its lease, a late sweep or
\* a late account change never rewrites it.
SettledIsFinal == [][\A o \in Ops : status[o] \in Settled => status'[o] = status[o]]_vars

\* If the account stays connected and the user stops rescheduling, every accepted
\* send is settled in the end.
SendsSettle ==
  (<>[]Connected /\ <>[][~ \E o \in Ops, soon \in BOOLEAN : Reschedule(o, soon)]_vars)
    => \A o \in Ops : status[o] \in Live ~> status[o] \in Settled

----------------------------------------------------------------------------
(* What the invariants above rest on: the inductive invariant of the proofs. *)

Untouched(o) == wire[o] = 0 /\ delivered[o] = 0

\* A busy slot works on a claimed row under the row's last claim, and alone.
SlotsFollowRows ==
  /\ \A w \in Workers : worker[w].phase # "idle" =>
       /\ worker[w].op \in Ops
       /\ worker[w].token = attempts[worker[w].op]
       /\ status[worker[w].op] \notin {"free", "pending"}
  /\ \A v, w \in Workers :
       worker[v].phase # "idle" /\ worker[w].phase # "idle" /\ worker[v].op = worker[w].op => v = w

\* While the row is still processing, the slot's phase tells what the provider has seen.
SlotsKnowTheWire ==
  \A w \in Workers, o \in Ops :
    worker[w].phase # "idle" /\ worker[w].op = o /\ status[o] = "processing" =>
      /\ worker[w].phase \in {"claimed", "prepared", "calling"} => Untouched(o)
      /\ worker[w].phase = "failing" /\ worker[w].outcome # "unknown" => Untouched(o)
      /\ worker[w].phase = "answered" =>
           IF worker[w].outcome = "noone" THEN Untouched(o) ELSE delivered[o] = 1

DeliveryInv == SlotsFollowRows /\ SlotsKnowTheWire /\ AtMostOneDelivery /\ OutcomeIsHonest

InUse(o) == status[o] \notin {"free", "failed", "cancelled"}

\* A send in use locks its draft at the submitted revision, alone, and nothing else does.
DraftInv ==
  /\ \A o \in Ops : InUse(o) => /\ draft[intent[o].draft].status = "submitted"
                                /\ draft[intent[o].draft].rev = intent[o].rev
  /\ \A o, p \in Ops : InUse(o) /\ InUse(p) /\ intent[o].draft = intent[p].draft => o = p
  /\ \A d \in Drafts : draft[d].status = "submitted" => \E o \in Ops : InUse(o) /\ intent[o].draft = d

HoldInv ==
  \A o \in Ops : /\ status[o] = "pending" /\ o \in held => o \in waiting
                 /\ status[o] = "free" => attempts[o] = 0
                 /\ attempts[o] > 0 => o \notin held

----------------------------------------------------------------------------
(* Fairness: start() runs processDue every second, a live execution is bounded by *)
(* io's 30 s timeout, and time passes.                                            *)

Fairness ==
  /\ WF_vars(Sweep)
  /\ \A o \in Ops :
       WF_vars(HoldEnds(o)) /\ WF_vars(TimeUp(o)) /\ WF_vars(LeaseExpires(o))
       /\ SF_vars(\E w \in Workers : Claim(w, o))
  /\ \A w \in Workers : WF_vars(Execute(w))

FairSpec == Spec /\ Fairness

=============================================================================
