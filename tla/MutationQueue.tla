--------------------------- MODULE MutationQueue ---------------------------
(***************************************************************************)
(* Changing mail from packages/inbox-sdk/src/core.ts.  A caller changes    *)
(* some messages at once; the change is shown immediately (the visible     *)
(* row), queued, carried out message by message at the provider by a       *)
(* worker that holds an expiring lease, and confirmed by a receipt per     *)
(* message.  Meanwhile callers queue further changes of the same messages, *)
(* cancel and undo, synchronization brings in what happened elsewhere, the *)
(* account changes, leases expire and workers die.                         *)
(*                                                                         *)
(* Every db transaction of the code is one step; every await is a point    *)
(* where another step may come between.  One account is followed, and of a *)
(* message one field that changes set (read, starred, folder): fields are  *)
(* independent, and of two queued changes of a field the later one shows.  *)
(* Deletion and changes that never reach the provider are left out.        *)
(*                                                                         *)
(* A lease is a random UUID, so a slot either holds the lease of its row   *)
(* still or never will again: the slot remembers which.                    *)
(***************************************************************************)
EXTENDS Integers, FiniteSets

CONSTANTS
  Messages,    \* the messages of the account
  Values,      \* what the followed field can be
  Workers,     \* executeOperation slots of all processes
  RetryLimit,  \* a retryable failure is retried while attempts < RetryLimit (5)
  Window,      \* due operations one claim looks at (LIMIT 100)
  MaxOps,      \* bound: operations ever accepted
  MaxEpoch     \* bound: changes of the account's generations

ASSUME MutationAssumption ==
  /\ Messages # {} /\ Values # {}
  /\ RetryLimit \in Nat \ {0} /\ Window \in Nat \ {0}
  /\ MaxOps \in Nat /\ MaxEpoch \in Nat

Ops == 1..MaxOps                       \* sdk_operations.seq: the order of acceptance

VARIABLES
  account,    \* sdk_accounts/sdk_connections: status, account generation, and
              \* epoch, which counts every change of either generation
  status,     \* sdk_operations.status, "free" for a row not inserted yet
  change,     \* the accepted change: for each selected message the value to set
  before,     \* payload.before: what each selected message showed on acceptance
  reverts,    \* the operation this one undoes (its key is "undo:<id>"), or 0
  results,    \* operation.results; "doubtful" is a failure with PARTIAL_MUTATION
  gen,        \* sdk_operations.generation
  attempts,   \* claims so far; beyond RetryLimit it does not matter how many
  fresh,      \* processing operations with lease_until > now
  waiting,    \* operations with next_at > now
  confirmed,  \* sdk_messages.confirmed: what the provider last said
  visible,    \* sdk_messages.visible: what callers see
  unmoved,    \* <<operation, message>>: revision = payload.afterRevisions[message]
  unsaved,    \* history, <<operation, message>>: the operation was settled without the answer
              \* to its change of message, which has not been projected since
  worker,     \* what every executeOperation slot is doing
  applied     \* <<operation, message>>: the provider carried this change out, or will

payloads == <<change, before, reverts>>
leases == <<gen, attempts, fresh, waiting>>
mail == <<confirmed, visible, unmoved, unsaved>>
vars == <<account, status, payloads, results, leases, mail, worker, applied>>

Settled == {"succeeded", "partial", "failed", "cancelled"}
Live == {"pending", "processing"}
Changes == UNION {[S -> Values] : S \in SUBSET Messages}
NoChange == [m \in {} |-> CHOOSE v \in Values : TRUE]

Accounts == [status : {"connected", "reconnect_required", "disconnected"}, gen : Nat, epoch : Nat]
Phases == {"idle", "claimed", "next", "calling", "sent", "answered", "erring", "failing"}
Errors == {"none", "retry", "final", "split"}

\* leased: the row's lease is this slot's; todo: selected messages this execution has not
\* come to yet; msg: the one at hand; returned: the provider's answer is in hand and not
\* recorded (returnedMutation).
Slot == [phase : Phases, op : 0..MaxOps, leased : BOOLEAN, epoch : Nat, todo : SUBSET Messages, msg : Messages,
         try : 0..1, error : Errors, returned : BOOLEAN]
Idle == [phase |-> "idle", op |-> 0, leased |-> FALSE, epoch |-> 0, todo |-> {},
         msg |-> CHOOSE m \in Messages : TRUE, try |-> 0, error |-> "none", returned |-> FALSE]

TypeOK ==
  /\ account \in Accounts
  /\ status \in [Ops -> {"free"} \cup Live \cup Settled]
  /\ change \in [Ops -> Changes] /\ before \in [Ops -> Changes] /\ reverts \in [Ops -> 0..MaxOps]
  /\ results \in [Ops -> [Messages -> {"none", "succeeded", "failed", "doubtful"}]]
  /\ gen \in [Ops -> Nat] /\ attempts \in [Ops -> 0..RetryLimit]
  /\ fresh \subseteq Ops /\ waiting \subseteq Ops
  /\ confirmed \in [Messages -> Values] /\ visible \in [Messages -> Values]
  /\ unmoved \subseteq Ops \X Messages /\ unsaved \subseteq Ops \X Messages
  /\ worker \in [Workers -> Slot]
  /\ applied \subseteq Ops \X Messages

Init ==
  /\ account = [status |-> "connected", gen |-> 1, epoch |-> 1]
  /\ status = [o \in Ops |-> "free"]
  /\ change = [o \in Ops |-> NoChange] /\ before = [o \in Ops |-> NoChange]
  /\ reverts = [o \in Ops |-> 0]
  /\ results = [o \in Ops |-> [m \in Messages |-> "none"]]
  /\ gen = [o \in Ops |-> 0] /\ attempts = [o \in Ops |-> 0]
  /\ fresh = {} /\ waiting = {}
  /\ \E v \in Values : confirmed = [m \in Messages |-> v]
  /\ visible = confirmed
  /\ unmoved = {} /\ unsaved = {}
  /\ worker = [w \in Workers |-> Idle]
  /\ applied = {}

----------------------------------------------------------------------------
(* Helpers *)

Selected(o) == DOMAIN change[o]
Overlap(o, p) == Selected(o) \cap Selected(p) # {}
WithStatus(s) == {o \in Ops : status[o] = s}
LiveOps == {o \in Ops : status[o] \in Live}
Saved(S, s) == [o \in Ops |-> IF o \in S THEN s ELSE status[o]]

Connected == account.status = "connected"

\* current(account): neither generation moved and the account is connected.
Current(w) == Connected /\ account.epoch = worker[w].epoch

\* Mistake: a slot trusts that it still owns the row it claimed.
OwnsForGood(w) == worker[w].op \in Ops

\* ownsLease: the row is still processing under the lease this slot was given.
Owns(w) == \E o \in Ops : o = worker[w].op /\ status[o] = "processing" /\ worker[w].leased

\* The queued changes of m that have no result yet.
Queued(m) == {o \in LiveOps : m \in Selected(o) /\ results[o][m] = "none"}

\* project: the queued changes over what the provider confirmed, in order of acceptance.
Projected(m) ==
  IF Queued(m) = {} THEN confirmed[m]
  ELSE change[CHOOSE o \in Queued(m) : \A p \in Queued(m) : p <= o][m]

\* project every message of S, in the state the transaction leaves; the answers in left go unsaved.
Project(S, left) ==
  /\ visible' = [m \in Messages |-> IF m \in S THEN Projected(m)' ELSE visible[m]]
  /\ unmoved' = {u \in unmoved : u[2] \notin S}
  /\ unsaved' = {u \in unsaved : u[2] \notin S} \cup left

Reproject(S) == Project(S, {})

Rest(w) == worker' = [worker EXCEPT ![w] = Idle]
Move(w, phase) == worker' = [worker EXCEPT ![w].phase = phase]
Throw(w, error) == worker' = [worker EXCEPT ![w].phase = "erring", ![w].error = error, ![w].try = 0]

\* The slot's request, if there is one, was or will be carried out, or never is.
Undecided(w) ==
  \/ UNCHANGED applied
  \/ worker[w].phase = "sent" /\ applied' = applied \cup {<<worker[w].op, worker[w].msg>>}

----------------------------------------------------------------------------
(* Callers *)

\* accept, the projection of the selected messages included.
Accept(c, origin) ==
  /\ Connected
  /\ \E o \in Ops :
       /\ status[o] = "free" /\ \A p \in Ops : p < o => status[p] # "free"
       /\ status' = [status EXCEPT ![o] = "pending"]
       /\ change' = [change EXCEPT ![o] = c]
       /\ before' = [before EXCEPT ![o] = [m \in DOMAIN c |-> visible[m]]]
       /\ reverts' = [reverts EXCEPT ![o] = origin]
       /\ gen' = [gen EXCEPT ![o] = account.gen]
  /\ UNCHANGED <<account, results, attempts, fresh, waiting, confirmed, worker, applied>>
  /\ Reproject(DOMAIN c)

\* mutate
Mutate(c) == c # NoChange /\ Accept(c, 0)

\* The live operations of S are cancelled and their messages shown without them.
Withdraw(S) ==
  /\ status' = Saved(S, "cancelled")
  /\ fresh' = fresh \ S /\ waiting' = waiting \ S
  /\ UNCHANGED <<payloads, results, attempts, confirmed, worker, applied>>
  /\ Reproject(UNION {Selected(o) : o \in S})

\* cancel; undo of a pending operation is the same call.
Cancel(o) ==
  /\ status[o] = "pending"
  /\ Withdraw({o})
  /\ UNCHANGED <<account, gen>>

\* Mistake: undo looks only for newer queued changes, not at the revisions.
CanUndoUnrevised(o) ==
  /\ status[o] = "succeeded"
  /\ \A p \in Ops : status[p] # "free" => reverts[p] # o
  /\ \A p \in LiveOps : p > o => ~Overlap(o, p)

\* undo's guards: the operation succeeded everywhere, was not undone before, no newer
\* change of its messages is queued and no message was touched since its receipt.
CanUndo(o) ==
  /\ status[o] = "succeeded"
  /\ \A p \in Ops : status[p] # "free" => reverts[p] # o
  /\ \A p \in LiveOps : p > o => ~Overlap(o, p)
  /\ \A m \in Selected(o) : <<o, m>> \in unmoved

\* undo: a new operation that sets back what each message showed before.
Undo(o) == CanUndo(o) /\ Accept(before[o], o)

----------------------------------------------------------------------------
(* Time: lease_until is followed for processing rows, next_at for pending ones *)

\* next_at passes.
TimeUp(o) ==
  /\ o \in waiting /\ status[o] = "pending"
  /\ waiting' = waiting \ {o}
  /\ UNCHANGED <<account, status, payloads, results, gen, attempts, fresh, mail, worker, applied>>

LeaseExpires(o) ==
  /\ o \in fresh /\ status[o] = "processing"
  /\ fresh' = fresh \ {o}
  /\ UNCHANGED <<account, status, payloads, results, gen, attempts, waiting, mail, worker, applied>>

\* executeOperation's interval, also in a process that slept past its lease.
Heartbeat(w) ==
  /\ worker[w].phase # "idle" /\ Owns(w)
  /\ fresh' = fresh \cup {worker[w].op}
  /\ UNCHANGED <<account, status, payloads, results, gen, attempts, waiting, mail, worker, applied>>

----------------------------------------------------------------------------
(* processDue *)

Expired == WithStatus("processing") \ fresh

\* The processing rows of S are queued again at once, without a lease.
Requeued(S) ==
  /\ worker' = [w \in Workers |-> IF worker[w].op \in S THEN [worker[w] EXCEPT !.leased = FALSE] ELSE worker[w]]
  /\ waiting' = waiting \ S
  /\ fresh' = fresh \ S

\* First transaction: an expired mutation starts over.
Sweep ==
  /\ Expired # {}
  /\ status' = Saved(Expired, "pending")
  /\ Requeued(Expired)
  /\ UNCHANGED <<account, payloads, results, gen, attempts, mail, applied>>

Due == {o \in WithStatus("pending") \ waiting : gen[o] = account.gen}
Candidates == {o \in Due : Cardinality({p \in Due : p < o}) < Window}

\* Mistake: a change waiting for its next try is overtaken.
BlockedByRunning(o) == \E p \in WithStatus("processing") : p < o /\ Overlap(o, p)

\* An earlier live change of one of the same messages comes first.
Blocked(o) == \E p \in LiveOps : p < o /\ Overlap(o, p)

\* Second transaction: the oldest candidate that is not blocked, if the account is
\* connected and has no live lease.
Claim(w, o) ==
  /\ worker[w].phase = "idle"
  /\ Connected /\ WithStatus("processing") \cap fresh = {}
  /\ o \in Candidates /\ ~Blocked(o)
  /\ \A p \in Candidates : p < o => Blocked(p)
  /\ status' = [status EXCEPT ![o] = "processing"]
  /\ attempts' = [attempts EXCEPT ![o] = IF @ < RetryLimit THEN @ + 1 ELSE @]
  /\ fresh' = fresh \cup {o}
  /\ worker' = [worker EXCEPT ![w] = [Idle EXCEPT !.phase = "claimed", !.op = o, !.leased = TRUE]]
  /\ UNCHANGED <<account, payloads, results, gen, waiting, mail, applied>>

----------------------------------------------------------------------------
(* executeOperation *)

\* The account is read; a generation other than the claimed row's or an account that
\* is not connected is a final RECONNECT_REQUIRED.
ReadAccount(w) ==
  LET o == worker[w].op IN
  /\ worker[w].phase = "claimed"
  /\ worker' = [worker EXCEPT ![w] =
       IF Connected /\ account.gen = gen[o]
       THEN [@ EXCEPT !.phase = "next", !.epoch = account.epoch,
                      !.todo = {m \in Selected(o) : results[o][m] = "none"}]
       ELSE [@ EXCEPT !.phase = "failing", !.error = "final"]]
  /\ UNCHANGED <<account, status, payloads, results, leases, mail, applied>>

\* The next selected message; a lost lease or a changed account ends the execution
\* without a word in the row.
NextMessage(w, m) ==
  /\ worker[w].phase = "next" /\ m \in worker[w].todo
  /\ IF Owns(w) /\ Current(w)
     THEN worker' = [worker EXCEPT ![w].phase = "calling", ![w].msg = m, ![w].todo = @ \ {m},
                                   ![w].try = 0, ![w].error = "none"]
     ELSE Rest(w)
  /\ UNCHANGED <<account, status, payloads, results, leases, mail, applied>>

\* A check of the message, its labels or folder, or providerFor throws.
FailsBeforeDispatch(w, error) ==
  /\ worker[w].phase = "calling" /\ error \in {"final", "retry"}
  /\ Throw(w, error)
  /\ UNCHANGED <<account, status, payloads, results, leases, mail, applied>>

\* io: providerFor has checked the account after its last await, nothing has checked
\* the lease (only provider label changes do, and throw).
Dispatch(w) ==
  /\ worker[w].phase = "calling" /\ Current(w)
  /\ Move(w, "sent")
  /\ UNCHANGED <<account, status, payloads, results, leases, mail, applied>>

\* provider.mutate returns the changed message.
ProviderApplies(w) ==
  /\ worker[w].phase = "sent"
  /\ applied' = applied \cup {<<worker[w].op, worker[w].msg>>}
  /\ worker' = [worker EXCEPT ![w].phase = "answered", ![w].returned = TRUE, ![w].try = 0]
  /\ UNCHANGED <<account, status, payloads, results, leases, mail>>

\* provider.mutate throws ProviderMutationError: part of the change was carried out.
ProviderSplits(w) ==
  /\ worker[w].phase = "sent"
  /\ applied' = applied \cup {<<worker[w].op, worker[w].msg>>}
  /\ Throw(w, "split")
  /\ UNCHANGED <<account, status, payloads, results, leases, mail>>

\* provider.mutate throws AUTHENTICATION: io tries once more with rejected credentials,
\* then gives up with a retryable CREDENTIALS_UNAVAILABLE.
ProviderRefusesLogin(w) ==
  /\ worker[w].phase = "sent"
  /\ IF worker[w].try = 0
     THEN worker' = [worker EXCEPT ![w].phase = "calling", ![w].try = 1]
     ELSE Throw(w, "retry")
  /\ UNCHANGED <<account, status, payloads, results, leases, mail, applied>>

\* provider.mutate throws an error that says the change was not made.
ProviderRefuses(w, error) ==
  /\ worker[w].phase = "sent" /\ error \in {"final", "retry"}
  /\ Throw(w, error)
  /\ UNCHANGED <<account, status, payloads, results, leases, mail, applied>>

\* The 30 s timeout fires, the connection is retired or the network fails.
AnswerLost(w, error) ==
  /\ worker[w].phase = "sent" /\ error \in {"final", "retry"}
  /\ Throw(w, error)
  /\ Undecided(w)
  /\ UNCHANGED <<account, status, payloads, results, leases, mail>>

\* The receipt transaction of a message.
Receipt(w) ==
  LET o == worker[w].op
      m == worker[w].msg IN
  /\ worker[w].phase = "answered"
  /\ worker' = [worker EXCEPT ![w].phase = "next", ![w].returned = FALSE]
  /\ UNCHANGED <<account, status, payloads, leases, applied>>
  /\ \/ /\ ~(Owns(w) /\ Current(w))
        /\ UNCHANGED <<results, mail>>
     \/ /\ Owns(w) /\ Current(w)
        /\ results' = [results EXCEPT ![o][m] = "succeeded"]
        /\ confirmed' = [confirmed EXCEPT ![m] = change[o][m]]
        /\ visible' = [n \in Messages |-> IF n = m THEN Projected(n)' ELSE visible[n]]
        /\ unmoved' = {u \in unmoved : u[2] # m} \cup {<<o, m>>}
        /\ unsaved' = {u \in unsaved : u[2] # m}

\* The receipt transaction throws and rolls back.
ReceiptThrows(w) ==
  /\ worker[w].phase = "answered"
  /\ Throw(w, "final")
  /\ UNCHANGED <<account, status, payloads, results, leases, mail, applied>>

\* Mistake: the attempts are not counted.
MayRetryForEver(w) == ~worker[w].returned /\ worker[w].error = "retry"

\* The catch of a message throws on what a later attempt of the operation may cure.
MayRetry(w) ==
  ~worker[w].returned /\ worker[w].error = "retry" /\ \E o \in Ops : o = worker[w].op /\ attempts[o] < RetryLimit

\* The catch's transaction: the message has failed.  A returned answer, or what a
\* ProviderMutationError confirms, is still saved.
MessageFails(w) ==
  LET o == worker[w].op
      m == worker[w].msg
      unclear == worker[w].returned \/ worker[w].error = "split" IN
  /\ worker[w].phase = "erring" /\ ~MayRetry(w)
  /\ worker' = [worker EXCEPT ![w].phase = "next", ![w].returned = FALSE, ![w].error = "none"]
  /\ UNCHANGED <<account, status, payloads, leases, applied>>
  /\ \/ /\ ~Owns(w)
        /\ UNCHANGED <<results, mail>>
     \/ /\ Owns(w)
        /\ results' = [results EXCEPT ![o][m] = IF unclear THEN "doubtful" ELSE "failed"]
        /\ \E v \in IF worker[w].returned THEN {change[o][m]}
                    ELSE IF unclear THEN Values ELSE {confirmed[m]} :
             confirmed' = [confirmed EXCEPT ![m] = v]
        /\ Reproject({m})

\* The catch's transaction throws too and rolls back.
FailureThrows(w) ==
  /\ worker[w].phase = "erring" /\ ~MayRetry(w)
  /\ worker' = [worker EXCEPT ![w].phase = "failing", ![w].error = "final"]
  /\ UNCHANGED <<account, status, payloads, results, leases, mail, applied>>

\* Mistake: what did not fail has succeeded.
VerdictByFailures(o) ==
  IF \A m \in Selected(o) : results[o][m] \notin {"failed", "doubtful"} THEN "succeeded"
  ELSE IF \E m \in Selected(o) : results[o][m] \in {"succeeded", "doubtful"} THEN "partial" ELSE "failed"

Unanswered(o) == {<<o, m>> : m \in {n \in Selected(o) : results[o][n] = "none"}}

\* What the results make of the operation.
Verdict(o) ==
  IF \A m \in Selected(o) : results[o][m] = "succeeded" THEN "succeeded"
  ELSE IF \E m \in Selected(o) : results[o][m] \in {"succeeded", "doubtful"} THEN "partial" ELSE "failed"

\* The last transaction, after the last message.  A message without a result is one whose receipt
\* came after the account had changed; nothing projects it here.
Finish(w) ==
  /\ worker[w].phase = "next" /\ worker[w].todo = {}
  /\ status' = IF Owns(w) THEN [status EXCEPT ![worker[w].op] = Verdict(worker[w].op)] ELSE status
  /\ fresh' = IF Owns(w) THEN fresh \ {worker[w].op} ELSE fresh
  /\ unsaved' = IF Owns(w) THEN unsaved \cup Unanswered(worker[w].op) ELSE unsaved
  /\ Rest(w)
  /\ UNCHANGED <<account, payloads, results, gen, attempts, waiting, confirmed, visible, unmoved, applied>>

\* The message whose answer could not be saved at all.
Unsaved(w) == IF worker[w].returned THEN {worker[w].msg} ELSE {}

\* The transaction of the outer catch; a final failure projects the messages of S.
RecordFailure(w, S) ==
  LET o == worker[w].op IN
  /\ worker[w].phase = "failing" \/ (worker[w].phase = "erring" /\ MayRetry(w))
  /\ fresh' = IF Owns(w) THEN fresh \ {o} ELSE fresh
  /\ Rest(w)
  /\ UNCHANGED <<account, payloads, results, gen, attempts, confirmed, applied>>
  /\ \/ /\ ~Owns(w)
        /\ UNCHANGED <<status, waiting, visible, unmoved, unsaved>>
     \/ /\ Owns(w) /\ MayRetry(w)
        /\ status' = [status EXCEPT ![o] = "pending"]
        /\ waiting' = waiting \cup {o}
        /\ UNCHANGED <<visible, unmoved, unsaved>>
     \/ /\ Owns(w) /\ ~MayRetry(w)
        /\ status' = [status EXCEPT ![o] = IF worker[w].returned THEN "partial" ELSE "failed"]
        /\ UNCHANGED waiting
        /\ Project(S, {<<o, m>> : m \in Unsaved(w)})

\* Mistake: a change that failed goes on showing.
FailureKeepsShowing(w) == RecordFailure(w, {})

\* Every selected message is shown without the operation, but the one whose answer could not be saved.
FailureRecorded(w) == RecordFailure(w, Selected(worker[w].op) \ Unsaved(w))

\* The process of this slot dies.
Crash(w) ==
  /\ worker[w].phase # "idle"
  /\ Rest(w)
  /\ Undecided(w)
  /\ UNCHANGED <<account, status, payloads, results, leases, mail>>

----------------------------------------------------------------------------
(* The account, its mailboxes and synchronization *)

\* disconnect
Disconnect ==
  /\ account.epoch < MaxEpoch
  /\ account' = [status |-> "disconnected", gen |-> account.gen + 1, epoch |-> account.epoch + 1]
  /\ Withdraw(LiveOps)
  /\ UNCHANGED gen

\* updateMailbox with status "detached": the live operations S that were accepted
\* through this mailbox are cancelled.
Detach(S) ==
  /\ S # {} /\ S \subseteq LiveOps
  /\ Withdraw(S)
  /\ UNCHANGED <<account, gen>>

\* Mistake: the pending rows are moved before the running ones are queued again.
ReconnectStrands ==
  LET running == WithStatus("processing") IN
  /\ account.epoch < MaxEpoch
  /\ account' = [status |-> "connected", gen |-> account.gen + 1, epoch |-> account.epoch + 1]
  /\ status' = Saved(running, "pending")
  /\ Requeued(running)
  /\ gen' = [o \in Ops |-> IF status[o] = "pending" THEN account.gen + 1 ELSE gen[o]]
  /\ UNCHANGED <<payloads, results, attempts, mail, applied>>

\* reconnectSource: running work starts over, queued work moves to the new generation.
Reconnect ==
  LET running == WithStatus("processing") IN
  /\ account.epoch < MaxEpoch
  /\ account' = [status |-> "connected", gen |-> account.gen + 1, epoch |-> account.epoch + 1]
  /\ status' = Saved(running, "pending")
  /\ Requeued(running)
  /\ gen' = [o \in Ops |-> IF o \in LiveOps THEN account.gen + 1 ELSE gen[o]]
  /\ UNCHANGED <<payloads, results, attempts, mail, applied>>

\* replaceCredentials: saveCredentials(..., recover = true); only the connection's
\* generation moves.
RecoverCredentials ==
  LET running == WithStatus("processing") IN
  /\ account.epoch < MaxEpoch /\ account.status # "disconnected"
  /\ account' = [status |-> "connected", gen |-> account.gen, epoch |-> account.epoch + 1]
  /\ status' = Saved(running, "pending")
  /\ Requeued(running)
  /\ UNCHANGED <<payloads, results, gen, attempts, mail, applied>>

\* reconnectSource of another source of the same connection: the connection's
\* generation moves, this account's operations are left as they are.
SiblingReconnects ==
  /\ account.epoch < MaxEpoch
  /\ account' = [account EXCEPT !.epoch = @ + 1]
  /\ UNCHANGED <<status, payloads, results, leases, mail, worker, applied>>

\* revokeCredentials: operations are left as they are.
Revoke ==
  /\ Connected
  /\ account' = [account EXCEPT !.status = "reconnect_required"]
  /\ UNCHANGED <<status, payloads, results, leases, mail, worker, applied>>

\* A synchronized page says the message now has value v (persist skips what it knows).
Synchronized(m, v) ==
  /\ Connected /\ v # confirmed[m]
  /\ confirmed' = [confirmed EXCEPT ![m] = v]
  /\ UNCHANGED <<account, status, payloads, results, leases, worker, applied>>
  /\ Reproject({m})

----------------------------------------------------------------------------

CallerStep ==
  \/ \E c \in Changes : Mutate(c)
  \/ \E o \in Ops : Cancel(o) \/ Undo(o)

TimeStep ==
  \/ \E o \in Ops : TimeUp(o) \/ LeaseExpires(o)
  \/ \E w \in Workers : Heartbeat(w)

\* What a live execution does next.
Execute(w) ==
  \/ ReadAccount(w) \/ Dispatch(w) \/ Finish(w)
  \/ \E m \in Messages : NextMessage(w, m)
  \/ ProviderApplies(w) \/ ProviderSplits(w) \/ ProviderRefusesLogin(w)
  \/ \E error \in {"final", "retry"} :
       FailsBeforeDispatch(w, error) \/ ProviderRefuses(w, error) \/ AnswerLost(w, error)
  \/ Receipt(w) \/ ReceiptThrows(w)
  \/ MessageFails(w) \/ FailureThrows(w) \/ FailureRecorded(w)

WorkerStep ==
  \/ Sweep
  \/ \E w \in Workers, o \in Ops : Claim(w, o)
  \/ \E w \in Workers : Execute(w) \/ Crash(w)

AccountStep ==
  \/ Disconnect \/ Reconnect \/ RecoverCredentials \/ SiblingReconnects \/ Revoke
  \/ \E S \in SUBSET Ops : Detach(S)
  \/ \E m \in Messages, v \in Values : Synchronized(m, v)

Next == CallerStep \/ TimeStep \/ WorkerStep \/ AccountStep

Spec == Init /\ [][Next]_vars

----------------------------------------------------------------------------
(* Properties *)

\* What still shows in m: the queued changes, and changes that the provider carried out and whose
\* answer went unsaved.
Showing(m) == Queued(m) \cup {o \in Ops : <<o, m>> \in unsaved}

\* What callers see is exactly what is confirmed plus what is still queued, after every
\* transaction: a failed or cancelled change is rolled back, a newer queued one is not
\* rolled back with it, and a synchronized or returned message never hides it (project,
\* projectMutation, the outer catch of executeOperation).  A change that is over shows on only
\* where the provider did carry it out, and until the message is next projected.
ProjectionIsFresh ==
  /\ TypeOK
  /\ unsaved \subseteq applied
  /\ \A m \in Messages :
       visible[m] = IF Showing(m) = {} THEN confirmed[m]
                    ELSE change[CHOOSE o \in Showing(m) : \A p \in Showing(m) : p <= o][m]

\* Changes of one message run in the order they were accepted, whatever is retried,
\* swept or reconnected in between.
RunsInOrder == \A o \in WithStatus("processing"), p \in LiveOps : p < o => ~Overlap(o, p)

\* A result or an operation reported as succeeded was carried out by the provider,
\* message for message.
SuccessIsReal ==
  /\ \A o \in Ops, m \in Messages : results[o][m] = "succeeded" => <<o, m>> \in applied
  /\ \A o \in WithStatus("succeeded") : \A m \in Selected(o) : results[o][m] = "succeeded"

\* An undo is accepted only where the message still shows what the undone change set (undo's
\* revisions); or what a later change set that the provider carried out, if the answer to that one
\* could not be saved: that moves no revision.
UndoIsGrounded ==
  \A o \in Ops : CanUndo(o) => \A m \in Selected(o) :
    visible[m] \in {change[o][m]} \cup {change[p][m] : p \in {q \in Ops : <<q, m>> \in unsaved}}

\* Disconnecting and reconnecting never strand a change: live rows carry the account's
\* generation, the one processDue claims by, and a disconnected account has none.
LiveMutationsAreClaimable ==
  \A o \in LiveOps : gen[o] = account.gen /\ account.status # "disconnected"

\* A settled operation keeps its outcome and a message's result is recorded once: a
\* worker that lost its lease, a retry or a late account change never rewrites it.
ReceiptsAreFinal ==
  [][\A o \in Ops : /\ status[o] \in Settled => status'[o] = status[o] /\ results'[o] = results[o]
                    /\ \A m \in Messages : results[o][m] # "none" => results'[o][m] = results[o][m]]_vars

\* The row's worker is alive.
Attended(o) == \E w \in Workers : worker[w].phase # "idle" /\ worker[w].op = o /\ Owns(w)

\* If the account stays connected and workers eventually neither die nor fall asleep
\* past their heartbeat, every change is settled, queued behind others or not.
MutationsSettle ==
  (/\ <>[]Connected
   /\ <>[][~ \E w \in Workers : Crash(w)]_vars
   /\ <>[][~ \E o \in Ops : Attended(o) /\ LeaseExpires(o)]_vars)
    => \A o \in Ops : status[o] \in Live ~> status[o] \in Settled

----------------------------------------------------------------------------
(* Fairness: start() runs processDue every second, a live execution is bounded by *)
(* io's 30 s timeout, and time passes.                                            *)

Fairness ==
  /\ WF_vars(Sweep)
  /\ \A o \in Ops : WF_vars(TimeUp(o)) /\ WF_vars(LeaseExpires(o)) /\ SF_vars(\E w \in Workers : Claim(w, o))
  /\ \A w \in Workers : WF_vars(Execute(w))

FairSpec == Spec /\ Fairness

=============================================================================
