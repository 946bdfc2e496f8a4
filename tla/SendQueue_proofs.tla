-------------------------- MODULE SendQueue_proofs --------------------------
(* Theorems about SendQueue for every number of drafts, callers, workers,  *)
(* operations, retries and generations.                                    *)
EXTENDS SendQueue, FiniteSetTheorems, TLAPS

----------------------------------------------------------------------------
(* Type correctness *)

LEMMA DraftRowType ==
  ASSUME TypeOK, NEW d \in Drafts
  PROVE  /\ draft[d] \in DraftRows
         /\ \A s \in {"active", "submitted", "deleted"} : [draft[d] EXCEPT !.status = s] \in DraftRows
         /\ [draft[d] EXCEPT !.rev = @ + 1] \in DraftRows
  BY DEF TypeOK, DraftRows

LEMMA RestoredType ==
  ASSUME TypeOK, NEW S
  PROVE  Restored(S) \in [Drafts -> DraftRows]
  BY DraftRowType DEF Restored

LEMMA SavedType ==
  ASSUME TypeOK, NEW S, NEW s \in Settled \cup Live
  PROVE  Saved(S, s) \in [Ops -> {"free"} \cup Live \cup Settled]
  BY DEF Saved, TypeOK, Live, Settled

LEMMA WithdrawnType ==
  ASSUME TypeOK, NEW S
  PROVE  Withdrawn(S) \in [Ops -> {"free"} \cup Live \cup Settled]
  BY DEF Withdrawn, TypeOK, Live, Settled

\* Every way a slot changes keeps it a slot.
LEMMA SlotType ==
  ASSUME TypeOK, NEW w \in Workers
  PROVE  /\ worker[w] \in Slot
         /\ Rest(w) => worker' \in [Workers -> Slot]
         /\ \A phase \in Phases : Move(w, phase) => worker' \in [Workers -> Slot]
         /\ \A kind \in Outcomes : Fail(w, kind) => worker' \in [Workers -> Slot]
  <1>1. worker[w] \in Slot /\ Idle \in Slot
    BY SendAssumption DEF TypeOK, Slot, Idle, Phases, Outcomes
  <1>2. \A phase \in Phases : [worker[w] EXCEPT !.phase = phase] \in Slot
    BY <1>1 DEF Slot
  <1>3. \A kind \in Outcomes : [worker[w] EXCEPT !.phase = "failing", !.outcome = kind] \in Slot
    BY <1>1 DEF Slot, Phases
  <1>4. ASSUME NEW phase \in Phases, Move(w, phase) PROVE worker' \in [Workers -> Slot]
    <2>1. worker' = [worker EXCEPT ![w] = [worker[w] EXCEPT !.phase = phase]]
      BY <1>4 DEF Move
    <2> QED
      BY <2>1, <1>2 DEF TypeOK
  <1>5. ASSUME NEW kind \in Outcomes, Fail(w, kind) PROVE worker' \in [Workers -> Slot]
    <2>1. worker' = [worker EXCEPT ![w] = [worker[w] EXCEPT !.phase = "failing", !.outcome = kind]]
      BY <1>5 DEF Fail
    <2> QED
      BY <2>1, <1>3 DEF TypeOK
  <1> QED
    BY <1>1, <1>4, <1>5 DEF TypeOK, Rest

LEMMA CallerKeepsType ==
  ASSUME TypeOK, CallerStep PROVE TypeOK'
  <1>1. ASSUME NEW d \in Drafts, UpdateDraft(d) PROVE TypeOK'
    <2>1. draft' = [draft EXCEPT ![d] = [draft[d] EXCEPT !.rev = @ + 1]]
      BY <1>1 DEF UpdateDraft
    <2>2. draft' \in [Drafts -> DraftRows]
      BY <2>1, DraftRowType DEF TypeOK
    <2> QED
      BY <1>1, <2>2 DEF UpdateDraft, TypeOK, opVars
  <1>2. ASSUME NEW d \in Drafts, DeleteDraft(d) PROVE TypeOK'
    BY <1>2, DraftRowType DEF DeleteDraft, TypeOK, opVars
  <1>3. ASSUME NEW c \in Callers, NEW k \in Keys, NEW d \in Drafts, SubmitBegins(c, k, d) PROVE TypeOK'
    <2>1. draft[d].rev \in Nat /\ account.epoch \in Nat
      BY DEF TypeOK, DraftRows, Accounts
    <2>2. request' \in [Callers -> Requests]
      BY <1>3, <2>1 DEF SubmitBegins, TypeOK, Requests
    <2> QED
      BY <1>3, <2>2 DEF SubmitBegins, TypeOK, opVars
  <1>4. ASSUME NEW c \in Callers, SubmitAccepts(c) PROVE TypeOK'
    <2>1. request[c] \in Requests /\ NoRequest \in Requests
      BY SendAssumption DEF TypeOK, NoRequest, NoIntent, Requests
    <2>2. request[c].draft \in Drafts /\ request[c].rev \in Nat /\ request[c].key \in Keys
      BY <2>1 DEF Requests
    <2> DEFINE i == [draft |-> request[c].draft, rev |-> request[c].rev, key |-> request[c].key]
    <2>3. i \in Intents
      BY <2>2 DEF Intents
    <2>4. draft' \in [Drafts -> DraftRows]
      BY <1>4, <2>2, DraftRowType DEF SubmitAccepts, TypeOK
    <2>5. PICK o \in Ops : /\ status' = [status EXCEPT ![o] = "pending"]
                           /\ intent' = [intent EXCEPT ![o] = i]
                           /\ gen' = [gen EXCEPT ![o] = account.gen]
                           /\ waiting' = waiting \cup {o} /\ held' = held \cup {o}
      BY <1>4 DEF SubmitAccepts
    <2>6. intent' \in [Ops -> Intents]
      BY <2>3, <2>5 DEF TypeOK
    <2>7. status' \in [Ops -> {"free"} \cup Live \cup Settled] /\ gen' \in [Ops -> Nat]
      BY <2>5 DEF TypeOK, Live, Accounts
    <2>8. waiting' \subseteq Ops /\ held' \subseteq Ops
      BY <2>5 DEF TypeOK
    <2>9. request' \in [Callers -> Requests]
      BY <1>4, <2>1 DEF SubmitAccepts, TypeOK
    <2>10. UNCHANGED <<attached, account, attempts, fresh, worker, wire, delivered>>
      BY <1>4 DEF SubmitAccepts
    <2> QED
      BY <2>4, <2>6, <2>7, <2>8, <2>9, <2>10 DEF TypeOK
  <1>5. ASSUME NEW c \in Callers, SubmitReturns(c) PROVE TypeOK'
    <2>1. NoRequest \in Requests
      BY SendAssumption DEF NoRequest, NoIntent, Requests
    <2> QED
      BY <1>5, <2>1 DEF SubmitReturns, TypeOK, opVars
  <1>6. ASSUME NEW o \in Ops, Cancel(o) PROVE TypeOK'
    <2>1. intent[o].draft \in Drafts
      BY DEF TypeOK, Intents
    <2> QED
      BY <1>6, <2>1, DraftRowType DEF Cancel, TypeOK, Settled
  <1>7. ASSUME NEW o \in Ops, NEW soon \in BOOLEAN, Reschedule(o, soon) PROVE TypeOK'
    BY <1>7 DEF Reschedule, TypeOK
  <1> QED
    BY <1>1, <1>2, <1>3, <1>4, <1>5, <1>6, <1>7 DEF CallerStep

LEMMA TimeKeepsType ==
  ASSUME TypeOK, TimeStep PROVE TypeOK'
  <1>1. ASSUME NEW o \in Ops, HoldEnds(o) PROVE TypeOK'
    BY <1>1 DEF HoldEnds, TypeOK
  <1>2. ASSUME NEW o \in Ops, TimeUp(o) PROVE TypeOK'
    BY <1>2 DEF TimeUp, TypeOK
  <1>3. ASSUME NEW o \in Ops, LeaseExpires(o) PROVE TypeOK'
    BY <1>3 DEF LeaseExpires, TypeOK
  <1>4. ASSUME NEW w \in Workers, Heartbeat(w) PROVE TypeOK'
    <2>1. worker[w].op \in Ops
      BY <1>4 DEF Heartbeat, Owns
    <2> QED
      BY <1>4, <2>1 DEF Heartbeat, TypeOK
  <1> QED
    BY <1>1, <1>2, <1>3, <1>4 DEF TimeStep

LEMMA WorkerKeepsType ==
  ASSUME TypeOK, WorkerStep PROVE TypeOK'
  <1> USE DEF opVars
  <1>1. CASE Sweep
    BY <1>1, SavedType DEF Sweep, TypeOK, Settled
  <1>2. ASSUME NEW w \in Workers, NEW o \in Ops, Claim(w, o) PROVE TypeOK'
    <2> DEFINE s == Claimed(o, attempts[o] + 1)
    <2>1. attempts[o] \in Nat
      BY DEF TypeOK
    <2>2. s \in Slot
      BY <2>1, SendAssumption DEF Slot, Claimed, Phases, Outcomes, Ops
    <2>3. worker' = [worker EXCEPT ![w] = s]
      BY <1>2 DEF Claim
    <2>4. worker' \in [Workers -> Slot]
      BY <2>2, <2>3 DEF TypeOK
    <2>5. status' = [status EXCEPT ![o] = "processing"] /\ "processing" \in Live
      BY <1>2 DEF Claim, Live
    <2>6. status' \in [Ops -> {"free"} \cup Live \cup Settled]
      BY <2>5 DEF TypeOK
    <2>7. attempts' \in [Ops -> Nat] /\ fresh' \subseteq Ops
      BY <1>2, <2>1 DEF Claim, TypeOK
    <2> QED
      BY <1>2, <2>4, <2>6, <2>7 DEF Claim, TypeOK
  <1>3. ASSUME NEW w \in Workers, ReadAccount(w) PROVE TypeOK'
    <2>1. [worker[w] EXCEPT !.phase = "prepared", !.epoch = account.epoch] \in Slot
      BY SlotType DEF TypeOK, Slot, Phases, Accounts
    <2>2. CASE Fail(w, "final")
      BY <1>3, <2>2, SlotType DEF ReadAccount, TypeOK, Outcomes
    <2>3. CASE worker' = [worker EXCEPT ![w].phase = "prepared", ![w].epoch = account.epoch]
      <3>1. worker' = [worker EXCEPT ![w] = [worker[w] EXCEPT !.phase = "prepared", !.epoch = account.epoch]]
        BY <2>3
      <3>2. worker' \in [Workers -> Slot]
        BY <3>1, <2>1 DEF TypeOK
      <3> QED
        BY <1>3, <3>2 DEF ReadAccount, TypeOK
    <2> QED
      BY <1>3, <2>2, <2>3 DEF ReadAccount
  <1>4. ASSUME NEW w \in Workers, EntersIo(w) PROVE TypeOK'
    BY <1>4, SlotType DEF EntersIo, TypeOK, Phases
  <1>5. ASSUME NEW w \in Workers, NEW kind \in {"final", "retry"}, FailsBeforeDispatch(w, kind) PROVE TypeOK'
    BY <1>5, SlotType DEF FailsBeforeDispatch, TypeOK, Outcomes
  <1> DEFINE wireDown(w) == wire' = [wire EXCEPT ![worker[w].op] = @ - 1] /\ wire[worker[w].op] > 0
  <1>6. ASSUME NEW w \in Workers, wireDown(w) PROVE wire' \in [Ops -> Nat]
    <2>1. worker[w].op \in Ops => wire[worker[w].op] - 1 \in Nat
      BY <1>6 DEF TypeOK
    <2> QED
      BY <1>6, <2>1 DEF TypeOK
  <1>7. ASSUME NEW w \in Workers, Dispatch(w) PROVE TypeOK'
    <2>1. worker' \in [Workers -> Slot]
      BY <1>7, SlotType DEF Dispatch, Phases, Outcomes
    <2>2. wire' \in [Ops -> Nat]
      BY <1>7 DEF Dispatch, TypeOK
    <2> QED
      BY <1>7, <2>1, <2>2 DEF Dispatch, TypeOK
  <1>8. ASSUME NEW w \in Workers, NEW outcome \in {"all", "some"}, ProviderAccepts(w, outcome) PROVE TypeOK'
    <2>1. [worker[w] EXCEPT !.phase = "answered", !.outcome = outcome] \in Slot
      BY SlotType DEF Slot, Phases, Outcomes
    <2>2. worker' = [worker EXCEPT ![w] = [worker[w] EXCEPT !.phase = "answered", !.outcome = outcome]]
      BY <1>8 DEF ProviderAccepts
    <2>3. worker' \in [Workers -> Slot]
      BY <2>1, <2>2 DEF TypeOK
    <2>4. wire' \in [Ops -> Nat]
      BY <1>6, <1>8 DEF ProviderAccepts
    <2>6. \A o \in Ops : delivered[o] + 1 \in Nat
      BY DEF TypeOK
    <2>5. delivered' \in [Ops -> Nat]
      BY <1>8, <2>6 DEF ProviderAccepts, TypeOK
    <2> QED
      BY <1>8, <2>3, <2>4, <2>5 DEF ProviderAccepts, TypeOK
  <1>9. ASSUME NEW w \in Workers, ProviderRejects(w) PROVE TypeOK'
    <2>1. [worker[w] EXCEPT !.phase = "answered", !.outcome = "noone"] \in Slot
      BY SlotType DEF Slot, Phases, Outcomes
    <2>2. worker' = [worker EXCEPT ![w] = [worker[w] EXCEPT !.phase = "answered", !.outcome = "noone"]]
      BY <1>9 DEF ProviderRejects
    <2>3. worker' \in [Workers -> Slot]
      BY <2>1, <2>2 DEF TypeOK
    <2>4. wire' \in [Ops -> Nat]
      BY <1>6, <1>9 DEF ProviderRejects
    <2> QED
      BY <1>9, <2>3, <2>4 DEF ProviderRejects, TypeOK
  <1>10. ASSUME NEW w \in Workers, ProviderRefusesLogin(w) PROVE TypeOK'
    <2>0. worker[w] \in Slot /\ 1 \in 0..1
      BY SlotType
    <2>1. [worker[w] EXCEPT !.phase = "calling", !.try = 1] \in Slot
      BY <2>0 DEF Slot, Phases
    <2>2. wire' \in [Ops -> Nat]
      BY <1>6, <1>10 DEF ProviderRefusesLogin
    <2>3. worker' \in [Workers -> Slot]
      <3>1. CASE worker[w].try = 0
        <4>1. worker' = [worker EXCEPT ![w] = [worker[w] EXCEPT !.phase = "calling", !.try = 1]]
          BY <1>10, <3>1 DEF ProviderRefusesLogin
        <4> QED
          BY <4>1, <2>1 DEF TypeOK
      <3>2. CASE worker[w].try # 0
        BY <1>10, <3>2, SlotType DEF ProviderRefusesLogin, Outcomes
      <3> QED
        BY <3>1, <3>2
    <2> QED
      BY <1>10, <2>2, <2>3 DEF ProviderRefusesLogin, TypeOK
  <1>11. ASSUME NEW w \in Workers, NEW kind \in {"final", "retry"}, ProviderRefuses(w, kind) PROVE TypeOK'
    <2>1. wire' \in [Ops -> Nat] /\ worker' \in [Workers -> Slot]
      BY <1>6, <1>11, SlotType DEF ProviderRefuses, Outcomes
    <2> QED
      BY <1>11, <2>1 DEF ProviderRefuses, TypeOK
  <1>12. ASSUME NEW w \in Workers, AnswerLost(w) PROVE TypeOK'
    BY <1>12, SlotType DEF AnswerLost, TypeOK, Outcomes
  <1>13. ASSUME NEW o \in Ops, NEW taken \in BOOLEAN, LateDecision(o, taken) PROVE TypeOK'
    BY <1>13 DEF LateDecision, TypeOK
  <1>14. ASSUME NEW w \in Workers, Receipt(w) PROVE TypeOK'
    <2>1. draft' \in [Drafts -> DraftRows]
      BY <1>14, RestoredType DEF Receipt, TypeOK
    <2>2. status' \in [Ops -> {"free"} \cup Live \cup Settled]
      BY <1>14 DEF Receipt, TypeOK, Settled
    <2>3. worker' \in [Workers -> Slot]
      BY <1>14, SlotType DEF Receipt
    <2> QED
      BY <1>14, <2>1, <2>2, <2>3 DEF Receipt, TypeOK
  <1>15. ASSUME NEW w \in Workers, ReceiptThrows(w) PROVE TypeOK'
    BY <1>15, SlotType DEF ReceiptThrows, TypeOK, Outcomes
  <1>16. ASSUME NEW w \in Workers, FailureRecorded(w) PROVE TypeOK'
    <2>1. draft' \in [Drafts -> DraftRows]
      BY <1>16, RestoredType DEF FailureRecorded, TypeOK
    <2>2. status' \in [Ops -> {"free"} \cup Live \cup Settled]
      BY <1>16 DEF FailureRecorded, TypeOK, Settled, Live
    <2>3. worker' \in [Workers -> Slot]
      BY <1>16, SlotType DEF FailureRecorded
    <2>4. waiting' \subseteq Ops
      BY <1>16 DEF FailureRecorded, TypeOK, Owns
    <2> QED
      BY <1>16, <2>1, <2>2, <2>3, <2>4 DEF FailureRecorded, TypeOK
  <1>17. ASSUME NEW w \in Workers, Crash(w) PROVE TypeOK'
    BY <1>17, SlotType DEF Crash, TypeOK
  <1> QED
    BY <1>1, <1>2, <1>3, <1>4, <1>5, <1>7, <1>8, <1>9, <1>10, <1>11, <1>12, <1>13, <1>14, <1>15,
       <1>16, <1>17 DEF WorkerStep, Execute

LEMMA AccountKeepsType ==
  ASSUME TypeOK, AccountStep PROVE TypeOK'
  <1> USE DEF opVars
  <1>1. CASE Disconnect
    BY <1>1, WithdrawnType, RestoredType DEF Disconnect, TypeOK, Accounts
  <1>2. CASE Reconnect
    <2>1. status' \in [Ops -> {"free"} \cup Live \cup Settled]
      BY <1>2, SavedType DEF Reconnect, Settled
    <2>2. gen' \in [Ops -> Nat] /\ account' \in Accounts
      BY <1>2 DEF Reconnect, TypeOK, Accounts
    <2> QED
      BY <1>2, <2>1, <2>2 DEF Reconnect, TypeOK
  <1>3. CASE RecoverCredentials
    <2>1. status' \in [Ops -> {"free"} \cup Live \cup Settled]
      BY <1>3, SavedType DEF RecoverCredentials, Settled
    <2>2. account' \in Accounts
      BY <1>3 DEF RecoverCredentials, TypeOK, Accounts
    <2> QED
      BY <1>3, <2>1, <2>2 DEF RecoverCredentials, TypeOK
  <1>4. CASE Revoke \/ SiblingReconnects
    BY <1>4 DEF Revoke, SiblingReconnects, TypeOK, Accounts
  <1>5. CASE Detach
    <2>1. /\ status' \in [Ops -> {"free"} \cup Live \cup Settled]
          /\ draft' \in [Drafts -> DraftRows]
      BY <1>5, WithdrawnType, RestoredType DEF Detach
    <2> QED
      BY <1>5, <2>1 DEF Detach, TypeOK
  <1>6. CASE Attach
    BY <1>6 DEF Attach, TypeOK
  <1> QED
    BY <1>1, <1>2, <1>3, <1>4, <1>5, <1>6 DEF AccountStep

\* Every state of every behaviour is well typed.
THEOREM TypeCorrect == Spec => []TypeOK
  <1>1. Init => TypeOK
    BY SendAssumption DEF Init, TypeOK, NoIntent, NoRequest, Idle, Intents, Requests, Slot, DraftRows, Accounts, Phases, Outcomes
  <1>2. TypeOK /\ [Next]_vars => TypeOK'
    BY CallerKeepsType, TimeKeepsType, WorkerKeepsType, AccountKeepsType
       DEF Next, vars, opVars, TypeOK
  <1> QED
    BY <1>1, <1>2, PTL DEF Spec

----------------------------------------------------------------------------
(* Delivery: the slots, the rows and the provider agree.                   *)

\* Steps that touch neither rows, slots nor the wire.
LEMMA QuietKeepsDelivery ==
  ASSUME DeliveryInv, UNCHANGED <<status, attempts, worker, wire, delivered>>
  PROVE  DeliveryInv'
  BY DEF DeliveryInv, SlotsFollowRows, SlotsKnowTheWire, AtMostOneDelivery, OutcomeIsHonest, Untouched

Withdrawal ==
  \A o \in Ops : \/ status'[o] = status[o]
                 \/ status[o] = "processing" /\ status'[o] = "uncertain"
                 \/ status[o] = "pending" /\ status'[o] = "cancelled"

LEMMA WithdrawnWithdraws ==
  ASSUME NEW S, status' = Withdrawn(S) PROVE Withdrawal
  <1> SUFFICES ASSUME NEW o \in Ops
               PROVE  \/ status'[o] = status[o]
                      \/ status[o] = "processing" /\ status'[o] = "uncertain"
                      \/ status[o] = "pending" /\ status'[o] = "cancelled"
    BY DEF Withdrawal
  <1> QED
    BY DEF Withdrawn

LEMMA SavedWithdraws ==
  ASSUME NEW S, \A o \in S : status[o] = "processing", status' = Saved(S, "uncertain")
  PROVE  Withdrawal
  <1> SUFFICES ASSUME NEW o \in Ops
               PROVE  \/ status'[o] = status[o]
                      \/ status[o] = "processing" /\ status'[o] = "uncertain"
    BY DEF Withdrawal
  <1> QED
    BY DEF Saved

\* Taking live rows out of the queue: a processing one becomes uncertain, a pending
\* one is cancelled.
LEMMA WithdrawalKeepsDelivery ==
  ASSUME DeliveryInv, UNCHANGED <<attempts, worker, wire, delivered>>, Withdrawal
  PROVE  DeliveryInv'
  BY DEF Withdrawal, DeliveryInv, SlotsFollowRows, SlotsKnowTheWire, AtMostOneDelivery, OutcomeIsHonest, Untouched

LEMMA CallerKeepsDelivery ==
  ASSUME TypeOK, DeliveryInv, CallerStep PROVE DeliveryInv'
  <1> USE DEF opVars
  <1>1. ASSUME NEW d \in Drafts, UpdateDraft(d) \/ DeleteDraft(d) PROVE DeliveryInv'
    BY <1>1, QuietKeepsDelivery DEF UpdateDraft, DeleteDraft
  <1>2. ASSUME NEW c \in Callers, NEW k \in Keys, NEW d \in Drafts, SubmitBegins(c, k, d) PROVE DeliveryInv'
    BY <1>2, QuietKeepsDelivery DEF SubmitBegins
  <1>3. ASSUME NEW c \in Callers, SubmitReturns(c) PROVE DeliveryInv'
    BY <1>3, QuietKeepsDelivery DEF SubmitReturns
  <1>4. ASSUME NEW c \in Callers, SubmitAccepts(c) PROVE DeliveryInv'
    <2>1. PICK o \in Ops : status[o] = "free" /\ status' = [status EXCEPT ![o] = "pending"]
      BY <1>4 DEF SubmitAccepts
    <2>2. UNCHANGED <<attempts, worker, wire, delivered>>
      BY <1>4 DEF SubmitAccepts
    <2>3. status'[o] = "pending" /\ \A p \in Ops \ {o} : status'[p] = status[p]
      BY <2>1 DEF TypeOK
    <2> QED
      BY <2>1, <2>2, <2>3 DEF DeliveryInv, SlotsFollowRows, SlotsKnowTheWire, AtMostOneDelivery, OutcomeIsHonest, Untouched
  <1>5. ASSUME NEW o \in Ops, Cancel(o) PROVE DeliveryInv'
    <2>1. Withdrawal
      BY <1>5 DEF Withdrawal, Cancel, TypeOK
    <2> QED
      BY <1>5, <2>1, WithdrawalKeepsDelivery DEF Cancel
  <1>6. ASSUME NEW o \in Ops, NEW soon \in BOOLEAN, Reschedule(o, soon) PROVE DeliveryInv'
    BY <1>6, QuietKeepsDelivery DEF Reschedule
  <1> QED
    BY <1>1, <1>2, <1>3, <1>4, <1>5, <1>6 DEF CallerStep

LEMMA TimeKeepsDelivery ==
  ASSUME DeliveryInv, TimeStep PROVE DeliveryInv'
  BY QuietKeepsDelivery DEF TimeStep, HoldEnds, TimeUp, LeaseExpires, Heartbeat

LEMMA AccountKeepsDelivery ==
  ASSUME TypeOK, DeliveryInv, AccountStep PROVE DeliveryInv'
  <1> USE DEF opVars
  <1>1. CASE Disconnect
    <2>1. Withdrawal
      BY <1>1, WithdrawnWithdraws DEF Disconnect
    <2> QED
      BY <1>1, <2>1, WithdrawalKeepsDelivery DEF Disconnect
  <1>2. CASE Reconnect
    <2>1. Withdrawal
      BY <1>2, SavedWithdraws DEF Reconnect, WithStatus
    <2> QED
      BY <1>2, <2>1, WithdrawalKeepsDelivery DEF Reconnect
  <1>3. CASE RecoverCredentials
    <2>1. Withdrawal
      BY <1>3, SavedWithdraws DEF RecoverCredentials, WithStatus
    <2> QED
      BY <1>3, <2>1, WithdrawalKeepsDelivery DEF RecoverCredentials
  <1>4. CASE Revoke \/ SiblingReconnects
    BY <1>4, QuietKeepsDelivery DEF Revoke, SiblingReconnects
  <1>5. CASE Detach
    <2>1. Withdrawal
      BY <1>5, WithdrawnWithdraws DEF Detach
    <2> QED
      BY <1>5, <2>1, WithdrawalKeepsDelivery DEF Detach
  <1>6. CASE Attach
    BY <1>6, QuietKeepsDelivery DEF Attach
  <1> QED
    BY <1>1, <1>2, <1>3, <1>4, <1>5, <1>6 DEF AccountStep

LEMMA ClaimKeepsDelivery ==
  ASSUME TypeOK, DeliveryInv, NEW w \in Workers, NEW o \in Ops, Claim(w, o) PROVE DeliveryInv'
  <1>1. /\ worker' = [worker EXCEPT ![w] = Claimed(o, attempts[o] + 1)]
        /\ status' = [status EXCEPT ![o] = "processing"]
        /\ attempts' = [attempts EXCEPT ![o] = @ + 1]
        /\ status[o] = "pending"
        /\ UNCHANGED <<wire, delivered>>
    BY DEF Claim, Due
  <1>2. /\ worker'[w] = Claimed(o, attempts[o] + 1)
        /\ \A v \in Workers \ {w} : worker'[v] = worker[v]
        /\ status'[o] = "processing" /\ attempts'[o] = attempts[o] + 1
        /\ \A p \in Ops \ {o} : status'[p] = status[p] /\ attempts'[p] = attempts[p]
    BY <1>1 DEF TypeOK
  <1>3. /\ worker'[w].phase = "claimed" /\ worker'[w].op = o /\ worker'[w].token = attempts'[o]
    BY <1>2 DEF Claimed
  <1>4. \A v \in Workers \ {w} : worker'[v].phase # "idle" => worker'[v].op # o
    BY <1>1, <1>2 DEF DeliveryInv, SlotsFollowRows
  <1>5. SlotsFollowRows'
    BY <1>2, <1>3, <1>4 DEF DeliveryInv, SlotsFollowRows
  <1>6. SlotsKnowTheWire'
    BY <1>1, <1>2, <1>3, <1>4 DEF DeliveryInv, SlotsKnowTheWire, OutcomeIsHonest, Untouched
  <1>7. AtMostOneDelivery' /\ OutcomeIsHonest'
    BY <1>1, <1>2 DEF DeliveryInv, AtMostOneDelivery, OutcomeIsHonest
  <1> QED
    BY <1>5, <1>6, <1>7 DEF DeliveryInv

\* Steps in which one busy slot moves on and every row stays as it is.
LEMMA SlotMoveKeepsDelivery ==
  ASSUME TypeOK, DeliveryInv, NEW w \in Workers, NEW s \in Slot,
         worker[w].phase # "idle",
         worker' = [worker EXCEPT ![w] = s],
         s.phase # "idle" => s.op = worker[w].op /\ s.token = worker[w].token,
         UNCHANGED <<status, attempts>>,
         AtMostOneDelivery', OutcomeIsHonest',
         \A o \in Ops \ {worker[w].op} : wire'[o] = wire[o] /\ delivered'[o] = delivered[o],
         NEW o \in Ops, o = worker[w].op,
         status[o] = "processing" =>
           /\ s.phase \in {"claimed", "prepared", "calling"} => wire'[o] = 0 /\ delivered'[o] = 0
           /\ s.phase = "failing" /\ s.outcome # "unknown" => wire'[o] = 0 /\ delivered'[o] = 0
           /\ s.phase = "answered" =>
                IF s.outcome = "noone" THEN wire'[o] = 0 /\ delivered'[o] = 0 ELSE delivered'[o] = 1
  PROVE  DeliveryInv'
  <1>1. worker'[w] = s /\ \A v \in Workers \ {w} : worker'[v] = worker[v]
    BY DEF TypeOK
  <1>3. SlotsFollowRows'
    BY <1>1 DEF DeliveryInv, SlotsFollowRows
  <1>4. \A v \in Workers \ {w} : worker[v].phase # "idle" => worker[v].op # worker[w].op
    BY DEF DeliveryInv, SlotsFollowRows
  <1>5. SlotsKnowTheWire'
    <2> SUFFICES ASSUME NEW v \in Workers, NEW p \in Ops,
                        worker'[v].phase # "idle", worker'[v].op = p, status[p] = "processing"
                 PROVE  /\ worker'[v].phase \in {"claimed", "prepared", "calling"} => Untouched(p)'
                        /\ worker'[v].phase = "failing" /\ worker'[v].outcome # "unknown" => Untouched(p)'
                        /\ worker'[v].phase = "answered" =>
                             IF worker'[v].outcome = "noone" THEN Untouched(p)' ELSE delivered'[p] = 1
      BY DEF SlotsKnowTheWire
    <2>1. CASE v = w
      <3>1. p = o
        BY <1>1, <2>1
      <3> QED
        BY <1>1, <2>1, <3>1 DEF Untouched
    <2>2. CASE v # w
      <3>1. worker'[v] = worker[v] /\ p # worker[w].op
        BY <1>1, <1>4, <2>2
      <3>2. wire'[p] = wire[p] /\ delivered'[p] = delivered[p]
        BY <3>1
      <3> QED
        BY <3>1, <3>2 DEF DeliveryInv, SlotsKnowTheWire, Untouched
    <2> QED
      BY <2>1, <2>2
  <1> QED
    BY <1>3, <1>5 DEF DeliveryInv

\* Steps in which one busy slot finishes: its row is settled or queued again, or left.
LEMMA FinishKeepsDelivery ==
  ASSUME TypeOK, DeliveryInv, NEW w \in Workers, NEW s,
         worker[w].phase # "idle", Rest(w),
         status' = [status EXCEPT ![worker[w].op] = s],
         s \notin {"free", "processing"},
         s \in {"succeeded", "partial"} => delivered[worker[w].op] = 1,
         s \in {"pending", "failed", "cancelled"} => Untouched(worker[w].op),
         UNCHANGED <<attempts, wire, delivered>>
  PROVE  DeliveryInv'
  <1> DEFINE o == worker[w].op
  <1>1. worker'[w] = Idle /\ \A v \in Workers \ {w} : worker'[v] = worker[v]
    BY DEF Rest, TypeOK
  <1>2. o \in Ops
    BY DEF DeliveryInv, SlotsFollowRows
  <1>3. status'[o] = s /\ \A p \in Ops \ {o} : status'[p] = status[p]
    BY <1>2 DEF TypeOK
  <1>4. \A v \in Workers \ {w} : worker[v].phase # "idle" => worker[v].op # o
    BY DEF DeliveryInv, SlotsFollowRows
  <1>5. worker'[w].phase = "idle"
    BY <1>1 DEF Idle
  <1>6. SlotsFollowRows'
    BY <1>1, <1>3, <1>4, <1>5 DEF DeliveryInv, SlotsFollowRows
  <1>7. SlotsKnowTheWire'
    BY <1>1, <1>3, <1>4, <1>5 DEF DeliveryInv, SlotsKnowTheWire, Untouched
  <1>8. AtMostOneDelivery' /\ OutcomeIsHonest'
    BY <1>2, <1>3 DEF DeliveryInv, AtMostOneDelivery, OutcomeIsHonest, Untouched
  <1> QED
    BY <1>6, <1>7, <1>8 DEF DeliveryInv

\* What DeliveryInv says of a slot that is still the owner, phase by phase.
LEMMA OwnerKnows ==
  ASSUME DeliveryInv, NEW w \in Workers, worker[w].phase # "idle"
  PROVE  LET o == worker[w].op IN
         /\ o \in Ops
         /\ worker[w].phase \in {"claimed", "prepared", "calling"} /\ status[o] = "processing" => Untouched(o)
         /\ worker[w].phase = "failing" /\ worker[w].outcome # "unknown" /\ status[o] = "processing" => Untouched(o)
         /\ worker[w].phase = "answered" /\ worker[w].outcome = "noone" /\ status[o] = "processing" => Untouched(o)
         /\ worker[w].phase = "answered" /\ worker[w].outcome # "noone" /\ status[o] = "processing" => delivered[o] = 1
         /\ Owns(w) => status[o] = "processing"
  BY DEF DeliveryInv, SlotsFollowRows, SlotsKnowTheWire, Owns

\* Steps before the provider is called, or after it, that only move the slot.
LEMMA SilentSlotKeepsDelivery ==
  ASSUME TypeOK, DeliveryInv, NEW w \in Workers, NEW s \in Slot,
         worker[w].phase # "idle",
         worker' = [worker EXCEPT ![w] = s],
         s.phase # "idle" => s.op = worker[w].op /\ s.token = worker[w].token,
         UNCHANGED <<status, attempts, wire, delivered>>,
         \/ s.phase = "idle"
         \/ s.phase = "failing" /\ s.outcome = "unknown"
         \/ worker[w].phase \in {"claimed", "prepared", "calling"}
            /\ s.phase \in {"prepared", "calling", "failing"}
  PROVE  DeliveryInv'
  <1>1. AtMostOneDelivery' /\ OutcomeIsHonest'
    BY DEF DeliveryInv, AtMostOneDelivery, OutcomeIsHonest
  <1>2. PICK o \in Ops : o = worker[w].op
    BY OwnerKnows
  <1>3. worker[w].phase \in {"claimed", "prepared", "calling"} /\ status[o] = "processing"
          => wire[o] = 0 /\ delivered[o] = 0
    BY <1>2, OwnerKnows DEF Untouched
  <1> QED
    BY <1>1, <1>2, <1>3, SlotMoveKeepsDelivery

\* The slots that Rest, Move and Fail leave behind.
LEMMA SlotForms ==
  ASSUME TypeOK, NEW w \in Workers
  PROVE  /\ Rest(w) => worker' = [worker EXCEPT ![w] = Idle] /\ Idle \in Slot
         /\ \A phase \in Phases : Move(w, phase) =>
              \E s \in Slot : /\ worker' = [worker EXCEPT ![w] = s]
                              /\ s.phase = phase /\ s.outcome = worker[w].outcome
                              /\ s.op = worker[w].op /\ s.token = worker[w].token
         /\ \A kind \in Outcomes : Fail(w, kind) =>
              \E s \in Slot : /\ worker' = [worker EXCEPT ![w] = s]
                              /\ s.phase = "failing" /\ s.outcome = kind
                              /\ s.op = worker[w].op /\ s.token = worker[w].token
  <1>1. worker[w] \in Slot /\ Idle \in Slot
    BY SlotType, SendAssumption DEF Slot, Idle, Phases, Outcomes
  <1>2. ASSUME NEW phase \in Phases, Move(w, phase)
        PROVE  \E s \in Slot : /\ worker' = [worker EXCEPT ![w] = s]
                               /\ s.phase = phase /\ s.outcome = worker[w].outcome
                               /\ s.op = worker[w].op /\ s.token = worker[w].token
    <2> DEFINE s == [worker[w] EXCEPT !.phase = phase]
    <2>1. s \in Slot /\ s.phase = phase /\ s.outcome = worker[w].outcome
          /\ s.op = worker[w].op /\ s.token = worker[w].token
      BY <1>1 DEF Slot
    <2>2. worker' = [worker EXCEPT ![w] = s]
      BY <1>2 DEF Move
    <2> QED
      BY <2>1, <2>2
  <1>3. ASSUME NEW kind \in Outcomes, Fail(w, kind)
        PROVE  \E s \in Slot : /\ worker' = [worker EXCEPT ![w] = s]
                               /\ s.phase = "failing" /\ s.outcome = kind
                               /\ s.op = worker[w].op /\ s.token = worker[w].token
    <2> DEFINE s == [worker[w] EXCEPT !.phase = "failing", !.outcome = kind]
    <2>1. s \in Slot /\ s.phase = "failing" /\ s.outcome = kind
          /\ s.op = worker[w].op /\ s.token = worker[w].token
      BY <1>1 DEF Slot, Phases
    <2>2. worker' = [worker EXCEPT ![w] = s]
      BY <1>3 DEF Fail
    <2> QED
      BY <2>1, <2>2
  <1> QED
    BY <1>1, <1>2, <1>3 DEF Rest

\* Steps in which the execution goes on without telling anybody.
LEMMA SilentStepsKeepDelivery ==
  ASSUME TypeOK, DeliveryInv, NEW w \in Workers,
         \/ ReadAccount(w) \/ EntersIo(w) \/ AnswerLost(w) \/ ReceiptThrows(w) \/ Crash(w)
         \/ \E kind \in {"final", "retry"} : FailsBeforeDispatch(w, kind)
  PROVE  DeliveryInv'
  <1> DEFINE before == worker[w].phase \in {"claimed", "prepared", "calling"}
  <1>0. Idle.phase = "idle"
    BY DEF Idle
  <1>1. /\ UNCHANGED <<status, attempts, wire, delivered>>
        /\ worker[w].phase # "idle"
    BY DEF ReadAccount, EntersIo, AnswerLost, ReceiptThrows, Crash, FailsBeforeDispatch, opVars
  <1>2. CASE Rest(w)
    BY <1>0, <1>1, <1>2, SlotForms, SilentSlotKeepsDelivery
  <1>3. ASSUME NEW kind \in Outcomes, Fail(w, kind), kind = "unknown" \/ before PROVE DeliveryInv'
    <2>1. PICK s \in Slot : /\ worker' = [worker EXCEPT ![w] = s]
                            /\ s.phase = "failing" /\ s.outcome = kind
                            /\ s.op = worker[w].op /\ s.token = worker[w].token
      BY <1>3, SlotForms
    <2> QED
      BY <1>1, <1>3, <2>1, SilentSlotKeepsDelivery
  <1>4. CASE Move(w, "calling") /\ before
    <2>1. PICK s \in Slot : /\ worker' = [worker EXCEPT ![w] = s]
                            /\ s.phase = "calling"
                            /\ s.op = worker[w].op /\ s.token = worker[w].token
      BY <1>4, SlotForms DEF Phases
    <2> QED
      BY <1>1, <1>4, <2>1, SilentSlotKeepsDelivery
  <1>5. CASE before /\ worker' = [worker EXCEPT ![w].phase = "prepared", ![w].epoch = account.epoch]
    <2> DEFINE s == [worker[w] EXCEPT !.phase = "prepared", !.epoch = account.epoch]
    <2>1. s \in Slot /\ s.phase = "prepared" /\ s.op = worker[w].op /\ s.token = worker[w].token
      BY SlotType DEF TypeOK, Slot, Phases, Accounts
    <2>2. worker' = [worker EXCEPT ![w] = s]
      BY <1>5
    <2> QED
      BY <1>1, <1>5, <2>1, <2>2, SilentSlotKeepsDelivery
  <1>6. ASSUME EntersIo(w) PROVE DeliveryInv'
    BY <1>2, <1>4, <1>6 DEF EntersIo
  <1>7. ASSUME ReadAccount(w) PROVE DeliveryInv'
    BY <1>3, <1>5, <1>7 DEF ReadAccount, Outcomes
  <1>8. ASSUME NEW kind \in {"final", "retry"}, FailsBeforeDispatch(w, kind) PROVE DeliveryInv'
    BY <1>3, <1>8 DEF FailsBeforeDispatch, Outcomes
  <1>9. ASSUME AnswerLost(w) \/ ReceiptThrows(w) PROVE DeliveryInv'
    BY <1>3, <1>9 DEF AnswerLost, ReceiptThrows, Outcomes
  <1> QED
    BY <1>2, <1>6, <1>7, <1>8, <1>9 DEF Crash

\* A request under way is the only one there ever was.
LEMMA OnTheWire ==
  ASSUME TypeOK, DeliveryInv, NEW o \in Ops, wire[o] > 0
  PROVE  /\ wire[o] = 1 /\ delivered[o] = 0
         /\ status[o] \in {"processing", "uncertain"}
  BY DEF TypeOK, DeliveryInv, AtMostOneDelivery, OutcomeIsHonest, Live, Settled

\* Steps in which the provider is called or decides about the request of a slot.
LEMMA WireStepsKeepDelivery ==
  ASSUME TypeOK, DeliveryInv, NEW w \in Workers,
         \/ Dispatch(w) \/ ProviderRejects(w) \/ ProviderRefusesLogin(w)
         \/ \E outcome \in {"all", "some"} : ProviderAccepts(w, outcome)
         \/ \E kind \in {"final", "retry"} : ProviderRefuses(w, kind)
  PROVE  DeliveryInv'
  <1> USE DEF opVars
  <1>0. Idle.phase = "idle"
    BY DEF Idle
  <1>1. UNCHANGED <<status, attempts>> /\ worker[w].phase # "idle"
    BY DEF Dispatch, ProviderRejects, ProviderRefusesLogin, ProviderAccepts, ProviderRefuses
  <1>2. PICK o \in Ops : o = worker[w].op
    BY <1>1, OwnerKnows
  <1>3. wire[o] \in Nat /\ delivered[o] \in Nat
    BY DEF TypeOK
  \* What the slot lemma asks of the wire when the request of o is decided.
  <1>4. ASSUME worker[w].phase = "sent", wire[o] > 0,
               wire' = [wire EXCEPT ![o] = @ - 1], UNCHANGED delivered
        PROVE  /\ AtMostOneDelivery' /\ OutcomeIsHonest'
               /\ \A p \in Ops \ {o} : wire'[p] = wire[p] /\ delivered'[p] = delivered[p]
               /\ wire'[o] = 0 /\ delivered'[o] = 0
    <2>1. wire'[o] = 0 /\ delivered'[o] = 0 /\ \A p \in Ops \ {o} : wire'[p] = wire[p] /\ delivered'[p] = delivered[p]
      BY <1>4, OnTheWire DEF TypeOK
    <2>2. AtMostOneDelivery'
      BY <2>1 DEF DeliveryInv, AtMostOneDelivery
    <2>3. status[o] \in {"processing", "uncertain"}
      BY <1>4, OnTheWire
    <2>4. OutcomeIsHonest'
      BY <1>1, <2>1, <2>3 DEF DeliveryInv, OutcomeIsHonest
    <2> QED
      BY <2>1, <2>2, <2>4
  <1>5. CASE Dispatch(w)
    <2>1. CASE UNCHANGED wire
      <3>1. CASE Rest(w)
        BY <1>0, <1>1, <1>5, <2>1, <3>1, SlotForms, SilentSlotKeepsDelivery DEF Dispatch
      <3>2. CASE Fail(w, "retry")
        <4>1. PICK s \in Slot : /\ worker' = [worker EXCEPT ![w] = s]
                                /\ s.phase = "failing"
                                /\ s.op = worker[w].op /\ s.token = worker[w].token
          BY <3>2, SlotForms DEF Outcomes
        <4> QED
          BY <1>1, <1>5, <2>1, <4>1, SilentSlotKeepsDelivery DEF Dispatch
      <3>3. CASE Move(w, "sent") /\ wire' = [wire EXCEPT ![o] = @ + 1]
        BY <1>3, <2>1, <3>3 DEF TypeOK
      <3> QED
        BY <1>2, <1>5, <3>1, <3>2, <3>3 DEF Dispatch
    <2>2. CASE Owns(w) /\ Move(w, "sent") /\ wire' = [wire EXCEPT ![o] = @ + 1] /\ UNCHANGED delivered
      <3>1. wire[o] = 0 /\ delivered[o] = 0 /\ status[o] = "processing"
        BY <1>1, <1>2, <1>5, <2>2, OwnerKnows DEF Dispatch, Untouched
      <3>2. wire'[o] = 1 /\ delivered'[o] = 0 /\ \A p \in Ops \ {o} : wire'[p] = wire[p] /\ delivered'[p] = delivered[p]
        BY <2>2, <3>1 DEF TypeOK
      <3>3. AtMostOneDelivery' /\ OutcomeIsHonest'
        BY <1>1, <3>1, <3>2 DEF DeliveryInv, AtMostOneDelivery, OutcomeIsHonest
      <3>4. PICK s \in Slot : /\ worker' = [worker EXCEPT ![w] = s]
                              /\ s.phase = "sent"
                              /\ s.op = worker[w].op /\ s.token = worker[w].token
        BY <2>2, SlotForms DEF Phases
      <3> QED
        BY <1>1, <1>2, <3>2, <3>3, <3>4, SlotMoveKeepsDelivery
    <2> QED
      BY <1>2, <1>5, <2>1, <2>2 DEF Dispatch
  <1>6. ASSUME NEW outcome \in {"all", "some"}, ProviderAccepts(w, outcome) PROVE DeliveryInv'
    <2> DEFINE s == [worker[w] EXCEPT !.phase = "answered", !.outcome = outcome]
    <2>1. s \in Slot /\ s.phase = "answered" /\ s.outcome = outcome /\ s.op = worker[w].op /\ s.token = worker[w].token
      BY SlotType DEF Slot, Phases, Outcomes
    <2>2. worker' = [worker EXCEPT ![w] = s]
      BY <1>6 DEF ProviderAccepts
    <2>3. wire[o] > 0
      BY <1>2, <1>6 DEF ProviderAccepts
    <2>4. wire'[o] = 0 /\ delivered'[o] = 1 /\ \A p \in Ops \ {o} : wire'[p] = wire[p] /\ delivered'[p] = delivered[p]
      BY <1>2, <1>6, <2>3, OnTheWire DEF ProviderAccepts, TypeOK
    <2>5. status[o] \in {"processing", "uncertain"}
      BY <2>3, OnTheWire
    <2>6. AtMostOneDelivery' /\ OutcomeIsHonest'
      BY <1>1, <2>4, <2>5 DEF DeliveryInv, AtMostOneDelivery, OutcomeIsHonest
    <2> QED
      BY <1>1, <1>2, <2>1, <2>2, <2>4, <2>6, SlotMoveKeepsDelivery
  <1>7. CASE ProviderRejects(w)
    <2> DEFINE s == [worker[w] EXCEPT !.phase = "answered", !.outcome = "noone"]
    <2>1. s \in Slot /\ s.phase = "answered" /\ s.outcome = "noone" /\ s.op = worker[w].op /\ s.token = worker[w].token
      BY SlotType DEF Slot, Phases, Outcomes
    <2>2. worker' = [worker EXCEPT ![w] = s]
      BY <1>7 DEF ProviderRejects
    <2>3. /\ AtMostOneDelivery' /\ OutcomeIsHonest'
          /\ \A p \in Ops \ {o} : wire'[p] = wire[p] /\ delivered'[p] = delivered[p]
          /\ wire'[o] = 0 /\ delivered'[o] = 0
      BY <1>2, <1>4, <1>7 DEF ProviderRejects
    <2> QED
      BY <1>1, <1>2, <2>1, <2>2, <2>3, SlotMoveKeepsDelivery
  <1>8. ASSUME NEW s \in Slot, worker' = [worker EXCEPT ![w] = s], s.phase \in {"calling", "failing"},
               s.op = worker[w].op, s.token = worker[w].token,
               ProviderRefusesLogin(w) \/ \E kind \in {"final", "retry"} : ProviderRefuses(w, kind)
        PROVE  DeliveryInv'
    <2>1. /\ AtMostOneDelivery' /\ OutcomeIsHonest'
          /\ \A p \in Ops \ {o} : wire'[p] = wire[p] /\ delivered'[p] = delivered[p]
          /\ wire'[o] = 0 /\ delivered'[o] = 0
      BY <1>2, <1>4, <1>8 DEF ProviderRefusesLogin, ProviderRefuses
    <2> QED
      BY <1>1, <1>2, <1>8, <2>1, SlotMoveKeepsDelivery
  <1>9. CASE ProviderRefusesLogin(w)
    <2>1. CASE worker[w].try = 0
      <3> DEFINE s == [worker[w] EXCEPT !.phase = "calling", !.try = 1]
      <3>1. worker[w] \in Slot /\ 1 \in 0..1
        BY SlotType
      <3>2. s \in Slot /\ s.phase = "calling" /\ s.op = worker[w].op /\ s.token = worker[w].token
        BY <3>1 DEF Slot, Phases
      <3>3. worker' = [worker EXCEPT ![w] = s]
        BY <1>9, <2>1 DEF ProviderRefusesLogin
      <3> QED
        BY <1>8, <1>9, <3>2, <3>3
    <2>2. CASE worker[w].try # 0
      <3>1. Fail(w, "retry")
        BY <1>9, <2>2 DEF ProviderRefusesLogin
      <3>2. PICK s \in Slot : /\ worker' = [worker EXCEPT ![w] = s]
                              /\ s.phase = "failing"
                              /\ s.op = worker[w].op /\ s.token = worker[w].token
        BY <3>1, SlotForms DEF Outcomes
      <3> QED
        BY <1>8, <1>9, <3>2
    <2> QED
      BY <2>1, <2>2
  <1>10. ASSUME NEW kind \in {"final", "retry"}, ProviderRefuses(w, kind) PROVE DeliveryInv'
    <2>1. Fail(w, kind) /\ kind \in Outcomes
      BY <1>10 DEF ProviderRefuses, Outcomes
    <2>2. PICK s \in Slot : /\ worker' = [worker EXCEPT ![w] = s]
                            /\ s.phase = "failing"
                            /\ s.op = worker[w].op /\ s.token = worker[w].token
      BY <2>1, SlotForms
    <2> QED
      BY <1>8, <1>10, <2>2
  <1> QED
    BY <1>5, <1>6, <1>7, <1>9, <1>10

\* Steps in which the execution records how it ended.
LEMMA EndingsKeepDelivery ==
  ASSUME TypeOK, DeliveryInv, NEW w \in Workers, Receipt(w) \/ FailureRecorded(w)
  PROVE  DeliveryInv'
  <1>0. Idle.phase = "idle"
    BY DEF Idle
  <1>1. Rest(w) /\ worker[w].phase # "idle" /\ UNCHANGED <<attempts, wire, delivered>>
    BY DEF Receipt, FailureRecorded
  <1>2. CASE UNCHANGED status
    BY <1>0, <1>1, <1>2, SlotForms, SilentSlotKeepsDelivery
  <1>3. CASE Receipt(w) /\ ~ UNCHANGED status
    <2>1. PICK s \in {"uncertain", "failed", "succeeded", "partial"} :
            /\ status' = [status EXCEPT ![worker[w].op] = s]
            /\ s \in {"succeeded", "partial"} => worker[w].outcome # "noone"
            /\ s = "failed" => worker[w].outcome = "noone"
      BY <1>3 DEF Receipt
    <2>2. Owns(w) /\ worker[w].phase = "answered"
      BY <1>3 DEF Receipt
    <2> QED
      BY <1>1, <2>1, <2>2, OwnerKnows, FinishKeepsDelivery
  <1>4. CASE FailureRecorded(w) /\ ~ UNCHANGED status
    <2>1. PICK s \in {"uncertain", "pending", "failed"} :
            /\ status' = [status EXCEPT ![worker[w].op] = s]
            /\ s # "uncertain" => worker[w].outcome # "unknown"
      BY <1>4 DEF FailureRecorded
    <2>2. Owns(w) /\ worker[w].phase = "failing"
      BY <1>4 DEF FailureRecorded
    <2> QED
      BY <1>1, <2>1, <2>2, OwnerKnows, FinishKeepsDelivery
  <1> QED
    BY <1>2, <1>3, <1>4

LEMMA LateDecisionKeepsDelivery ==
  ASSUME TypeOK, DeliveryInv, NEW o \in Ops, NEW taken \in BOOLEAN, LateDecision(o, taken)
  PROVE  DeliveryInv'
  <1>1. wire[o] = 1 /\ delivered[o] = 0 /\ status[o] \in {"processing", "uncertain"}
    BY OnTheWire DEF LateDecision
  <1>2. /\ wire'[o] = 0 /\ delivered'[o] \in {0, 1}
        /\ \A p \in Ops \ {o} : wire'[p] = wire[p] /\ delivered'[p] = delivered[p]
        /\ UNCHANGED <<status, attempts, worker>>
    BY <1>1 DEF LateDecision, TypeOK, opVars
  <1>3. SlotsFollowRows'
    BY <1>2 DEF DeliveryInv, SlotsFollowRows
  <1>4. SlotsKnowTheWire'
    BY <1>1, <1>2 DEF DeliveryInv, SlotsKnowTheWire, Untouched
  <1>5. AtMostOneDelivery' /\ OutcomeIsHonest'
    BY <1>1, <1>2 DEF DeliveryInv, AtMostOneDelivery, OutcomeIsHonest
  <1> QED
    BY <1>3, <1>4, <1>5 DEF DeliveryInv

LEMMA WorkerKeepsDelivery ==
  ASSUME TypeOK, DeliveryInv, WorkerStep PROVE DeliveryInv'
  <1>1. CASE Sweep
    <2>1. Withdrawal
      BY <1>1, SavedWithdraws DEF Sweep, Expired, WithStatus
    <2> QED
      BY <1>1, <2>1, WithdrawalKeepsDelivery DEF Sweep
  <1>2. ASSUME NEW w \in Workers, Execute(w) PROVE DeliveryInv'
    BY <1>2, SilentStepsKeepDelivery, WireStepsKeepDelivery, EndingsKeepDelivery DEF Execute
  <1> QED
    BY <1>1, <1>2, ClaimKeepsDelivery, SilentStepsKeepDelivery, LateDecisionKeepsDelivery DEF WorkerStep

\* No interleaving of claims, crashes, expired leases, retries, lost answers and
\* account changes dispatches a send twice or misreports what the provider did.
THEOREM DeliveryCorrect == Spec => [](AtMostOneDelivery /\ OutcomeIsHonest)
  <1>1. Init => DeliveryInv
    BY DEF Init, Idle, DeliveryInv, SlotsFollowRows, SlotsKnowTheWire, AtMostOneDelivery, OutcomeIsHonest
  <1>2. TypeOK /\ DeliveryInv /\ [Next]_vars => DeliveryInv'
    <2> SUFFICES ASSUME TypeOK, DeliveryInv, [Next]_vars PROVE DeliveryInv'
      OBVIOUS
    <2>1. CASE UNCHANGED vars
      BY <2>1, QuietKeepsDelivery DEF vars, opVars
    <2> QED
      BY <2>1, CallerKeepsDelivery, TimeKeepsDelivery, WorkerKeepsDelivery, AccountKeepsDelivery DEF Next
  <1>3. DeliveryInv => AtMostOneDelivery /\ OutcomeIsHonest
    BY DEF DeliveryInv
  <1> QED
    BY <1>1, <1>2, <1>3, TypeCorrect, PTL DEF Spec

\* What a row reports of a send agrees with what the provider did or will do.
THEOREM OutcomeReported == Spec => []OutcomeIsHonest
  BY DeliveryCorrect, PTL

----------------------------------------------------------------------------
(* The life of a row                                                       *)

\* The transitions of sdk_operations.status, whoever makes them.
RowMoves ==
  \A o \in Ops : \/ status'[o] = status[o]
                 \/ status[o] = "free" /\ status'[o] = "pending"
                 \/ status[o] = "pending" /\ status'[o] \in {"processing", "cancelled"}
                 \/ status[o] = "processing" /\ status'[o] \in {"pending", "uncertain", "failed", "succeeded", "partial"}

LEMMA WithdrawalMoves == ASSUME Withdrawal PROVE RowMoves
  BY DEF Withdrawal, RowMoves

LEMMA RowsMove ==
  ASSUME TypeOK, [Next]_vars PROVE RowMoves
  <1>1. CASE UNCHANGED status
    BY <1>1 DEF RowMoves
  <1>2. ASSUME NEW c \in Callers, SubmitAccepts(c) PROVE RowMoves
    BY <1>2 DEF SubmitAccepts, RowMoves, TypeOK
  <1>3. ASSUME NEW o \in Ops, Cancel(o) PROVE RowMoves
    BY <1>3 DEF Cancel, RowMoves, TypeOK
  <1>4. CASE CallerStep
    BY <1>1, <1>2, <1>3, <1>4
       DEF CallerStep, UpdateDraft, DeleteDraft, SubmitBegins, SubmitReturns, Reschedule, opVars
  <1>5. CASE TimeStep
    BY <1>1, <1>5 DEF TimeStep, HoldEnds, TimeUp, LeaseExpires, Heartbeat
  <1>6. CASE Sweep
    BY <1>6, SavedWithdraws, WithdrawalMoves DEF Sweep, Expired, WithStatus
  <1>7. ASSUME NEW w \in Workers, NEW o \in Ops, Claim(w, o) PROVE RowMoves
    BY <1>7 DEF Claim, Due, RowMoves, TypeOK
  <1>8. ASSUME NEW w \in Workers, Receipt(w) PROVE RowMoves
    BY <1>8 DEF Receipt, Owns, RowMoves, TypeOK
  <1>9. ASSUME NEW w \in Workers, FailureRecorded(w) PROVE RowMoves
    BY <1>9 DEF FailureRecorded, Owns, RowMoves, TypeOK
  <1>10. CASE WorkerStep
    BY <1>1, <1>6, <1>7, <1>8, <1>9, <1>10
       DEF WorkerStep, Execute, ReadAccount, EntersIo, Dispatch, FailsBeforeDispatch, ProviderRefuses,
           ProviderAccepts, ProviderRejects, ProviderRefusesLogin, AnswerLost, ReceiptThrows, Crash,
           LateDecision, opVars
  <1>11. CASE AccountStep
    <2>1. Disconnect \/ Detach => RowMoves
      BY WithdrawnWithdraws, WithdrawalMoves DEF Disconnect, Detach
    <2>2. Reconnect \/ RecoverCredentials => RowMoves
      BY SavedWithdraws, WithdrawalMoves DEF Reconnect, RecoverCredentials, WithStatus
    <2> QED
      BY <1>1, <1>11, <2>1, <2>2 DEF AccountStep, SiblingReconnects, Revoke, Attach, opVars
  <1> QED
    BY <1>1, <1>4, <1>5, <1>10, <1>11 DEF Next, vars, opVars

\* No late worker, sweep or account change rewrites the outcome of a settled send.
THEOREM SettledForGood == Spec => SettledIsFinal
  <1>1. TypeOK /\ [Next]_vars => [\A o \in Ops : status[o] \in Settled => status'[o] = status[o]]_vars
    BY RowsMove DEF RowMoves, Settled
  <1> QED
    BY <1>1, TypeCorrect, PTL DEF Spec, SettledIsFinal

\* Only submit inserts a row or touches what a row was submitted for.
LEMMA OnlySubmitInserts ==
  ASSUME TypeOK, [Next]_vars
  PROVE  \/ \E c \in Callers : SubmitAccepts(c)
         \/ UNCHANGED <<intent, request>> /\ \A o \in Ops : status[o] = "free" <=> status'[o] = "free"
         \/ UNCHANGED <<intent, status>>
  <1> DEFINE quiet == UNCHANGED intent /\ \A o \in Ops : status[o] = "free" <=> status'[o] = "free"
  <1>1. CASE CallerStep
    <2>1. ASSUME NEW o \in Ops, Cancel(o) PROVE quiet /\ UNCHANGED request
      BY <2>1 DEF Cancel, TypeOK
    <2> QED
      BY <1>1, <2>1 DEF CallerStep, UpdateDraft, DeleteDraft, SubmitBegins, SubmitReturns, Reschedule, opVars
  <1>2. CASE TimeStep
    BY <1>2 DEF TimeStep, HoldEnds, TimeUp, LeaseExpires, Heartbeat
  <1>3. Withdrawal /\ UNCHANGED intent => quiet
    BY DEF Withdrawal
  <1>4. CASE WorkerStep
    <2>1. Sweep => quiet /\ UNCHANGED request
      BY <1>3, SavedWithdraws DEF Sweep, Expired, WithStatus
    <2>2. ASSUME NEW w \in Workers, NEW o \in Ops, Claim(w, o) PROVE quiet /\ UNCHANGED request
      BY <2>2 DEF Claim, Due, TypeOK
    <2>3. ASSUME NEW w \in Workers, Receipt(w) PROVE quiet /\ UNCHANGED request
      BY <2>3 DEF Receipt, Owns, TypeOK
    <2>4. ASSUME NEW w \in Workers, FailureRecorded(w) PROVE quiet /\ UNCHANGED request
      BY <2>4 DEF FailureRecorded, Owns, TypeOK
    <2> QED
      BY <1>4, <2>1, <2>2, <2>3, <2>4, ZenonT(60)
         DEF WorkerStep, Execute, ReadAccount, EntersIo, Dispatch, FailsBeforeDispatch, ProviderRefuses,
             ProviderAccepts, ProviderRejects, ProviderRefusesLogin, AnswerLost, ReceiptThrows, Crash,
             LateDecision, opVars
  <1>5. CASE AccountStep
    <2>1. Disconnect \/ Detach => quiet /\ UNCHANGED request
      BY <1>3, WithdrawnWithdraws DEF Disconnect, Detach
    <2>2. Reconnect \/ RecoverCredentials => quiet /\ UNCHANGED request
      BY <1>3, SavedWithdraws DEF Reconnect, RecoverCredentials, WithStatus
    <2> QED
      BY <1>5, <2>1, <2>2 DEF AccountStep, SiblingReconnects, Revoke, Attach, opVars
  <1> QED
    BY <1>1, <1>2, <1>4, <1>5 DEF Next, vars, opVars

\* What an accepted submit writes.
LEMMA Inserts ==
  ASSUME TypeOK, NEW c \in Callers, SubmitAccepts(c)
  PROVE  \E o \in Ops :
           /\ status[o] = "free" /\ status'[o] = "pending"
           /\ intent'[o] = [draft |-> request[c].draft, rev |-> request[c].rev, key |-> request[c].key]
           /\ \A p \in Ops \ {o} : status'[p] = status[p] /\ intent'[p] = intent[p]
  <1>1. PICK o \in Ops : /\ status[o] = "free"
                         /\ status' = [status EXCEPT ![o] = "pending"]
                         /\ intent' = [intent EXCEPT ![o] = [draft |-> request[c].draft, rev |-> request[c].rev, key |-> request[c].key]]
    BY DEF SubmitAccepts
  <1> QED
    BY <1>1 DEF TypeOK

\* However many submits race with one key, one operation comes of it.
THEOREM OneOperationPerKey == Spec => []KeysAreIdempotent
  <1>1. Init => KeysAreIdempotent
    BY DEF Init, KeysAreIdempotent
  <1>2. ASSUME TypeOK, KeysAreIdempotent, NEW c \in Callers, SubmitAccepts(c) PROVE KeysAreIdempotent'
    <2>0. PICK o \in Ops : /\ status'[o] = "pending"
                           /\ intent'[o] = [draft |-> request[c].draft, rev |-> request[c].rev, key |-> request[c].key]
                           /\ \A p \in Ops \ {o} : status'[p] = status[p] /\ intent'[p] = intent[p]
      BY <1>2, Inserts
    <2>1. intent'[o].key = request[c].key /\ \A p \in Ops \ {o} : status'[p] = status[p] /\ intent'[p] = intent[p]
      BY <2>0
    <2>2. \A p \in Ops : status[p] # "free" => intent[p].key # request[c].key
      BY <1>2 DEF SubmitAccepts, Replayed
    <2> QED
      BY <1>2, <2>1, <2>2 DEF KeysAreIdempotent
  <1>3. TypeOK /\ KeysAreIdempotent /\ [Next]_vars => KeysAreIdempotent'
    BY <1>2, OnlySubmitInserts DEF KeysAreIdempotent
  <1> QED
    BY <1>1, <1>3, TypeCorrect, PTL DEF Spec

----------------------------------------------------------------------------
(* Holds and generations                                                   *)

\* Steps that leave the queue's clocks and claims alone.
LEMMA HoldInvMoves ==
  ASSUME TypeOK, HoldInv, RowMoves, UNCHANGED <<attempts, held, waiting>>,
         \A o \in Ops : status'[o] = "pending" => status[o] = "pending",
         \A o \in Ops : status'[o] = "free" => status[o] = "free"
  PROVE  HoldInv'
  BY DEF HoldInv

LEMMA HoldInvKept ==
  ASSUME TypeOK, HoldInv, [Next]_vars PROVE HoldInv'
  <1>0. RowMoves
    BY RowsMove
  <1>1. ASSUME UNCHANGED <<status, attempts, held, waiting>> PROVE HoldInv'
    BY <1>1 DEF HoldInv
  <1>2. ASSUME Withdrawal, UNCHANGED <<attempts, held, waiting>> PROVE HoldInv'
    BY <1>0, <1>2, HoldInvMoves DEF Withdrawal
  <1>3. CASE CallerStep
    <2>1. ASSUME NEW c \in Callers, SubmitAccepts(c) PROVE HoldInv'
      <3>1. PICK o \in Ops : /\ status[o] = "free" /\ status' = [status EXCEPT ![o] = "pending"]
                             /\ waiting' = waiting \cup {o} /\ held' = held \cup {o}
        BY <2>1 DEF SubmitAccepts
      <3>2. UNCHANGED attempts
        BY <2>1 DEF SubmitAccepts
      <3> QED
        BY <3>1, <3>2 DEF HoldInv, TypeOK
    <2>2. ASSUME NEW o \in Ops, Cancel(o) PROVE HoldInv'
      <3>1. Withdrawal /\ UNCHANGED <<attempts, held, waiting>>
        BY <2>2 DEF Cancel, Withdrawal, TypeOK
      <3> QED
        BY <3>1, <1>2
    <2>3. ASSUME NEW o \in Ops, NEW soon \in BOOLEAN, Reschedule(o, soon) PROVE HoldInv'
      BY <2>3 DEF Reschedule, HoldInv
    <2> QED
      BY <1>1, <1>3, <2>1, <2>2, <2>3 DEF CallerStep, UpdateDraft, DeleteDraft, SubmitBegins, SubmitReturns, opVars
  <1>4. CASE TimeStep
    <2>1. ASSUME NEW o \in Ops, HoldEnds(o) \/ TimeUp(o) PROVE HoldInv'
      BY <2>1 DEF HoldEnds, TimeUp, HoldInv
    <2> QED
      BY <1>1, <1>4, <2>1 DEF TimeStep, LeaseExpires, Heartbeat
  <1>5. CASE Sweep
    <2>1. \A o \in Ops : status'[o] = IF o \in Expired THEN "uncertain" ELSE status[o]
      BY <1>5 DEF Sweep, Saved
    <2>2. UNCHANGED <<attempts, held>> /\ waiting' = waiting \ Expired
      BY <1>5 DEF Sweep
    <2> QED
      BY <2>1, <2>2 DEF HoldInv
  <1>6. ASSUME NEW w \in Workers, NEW o \in Ops, Claim(w, o) PROVE HoldInv'
    BY <1>6 DEF Claim, Due, HoldInv, TypeOK
  <1>7. ASSUME NEW w \in Workers, Receipt(w) PROVE HoldInv'
    <2>1. UNCHANGED <<attempts, held, waiting>>
      BY <1>7 DEF Receipt
    <2>2. \A o \in Ops : status'[o] \in {"pending", "free"} => status'[o] = status[o]
      BY <1>7 DEF Receipt, TypeOK
    <2> QED
      BY <1>0, <2>1, <2>2, HoldInvMoves
  <1>8. ASSUME NEW w \in Workers, FailureRecorded(w) PROVE HoldInv'
    <2>1. UNCHANGED <<attempts, held>>
      BY <1>8 DEF FailureRecorded
    <2>2. CASE UNCHANGED waiting /\ \A o \in Ops : status'[o] \in {"pending", "free"} => status'[o] = status[o]
      BY <1>0, <2>1, <2>2, HoldInvMoves
    <2>3. ASSUME NEW o \in Ops, o = worker[w].op, status' = [status EXCEPT ![o] = "pending"],
                 status[o] = "processing", waiting' = waiting \cup {o}
          PROVE  HoldInv'
      BY <2>1, <2>3 DEF HoldInv, TypeOK
    <2> QED
      BY <1>8, <2>2, <2>3 DEF FailureRecorded, Owns, TypeOK
  <1>9. CASE WorkerStep
    BY <1>1, <1>5, <1>6, <1>7, <1>8, <1>9, ZenonT(60)
       DEF WorkerStep, Execute, ReadAccount, EntersIo, Dispatch, FailsBeforeDispatch, ProviderRefuses,
           ProviderAccepts, ProviderRejects, ProviderRefusesLogin, AnswerLost, ReceiptThrows, Crash,
           LateDecision, opVars
  <1>10. CASE AccountStep
    <2>1. Disconnect \/ Detach => Withdrawal /\ UNCHANGED <<attempts, held, waiting>>
      BY WithdrawnWithdraws DEF Disconnect, Detach
    <2>2. Reconnect \/ RecoverCredentials => Withdrawal /\ UNCHANGED <<attempts, held, waiting>>
      BY SavedWithdraws DEF Reconnect, RecoverCredentials, WithStatus
    <2> QED
      BY <1>1, <1>2, <1>10, <2>1, <2>2 DEF AccountStep, SiblingReconnects, Revoke, Attach, opVars
  <1> QED
    BY <1>1, <1>3, <1>4, <1>9, <1>10 DEF Next, vars, opVars

\* The undo-send window holds for any number of rescheduling callers and workers.
THEOREM HoldHonoured == Spec => []HoldIsHonoured
  <1>1. Init => HoldInv
    BY DEF Init, HoldInv
  <1>2. TypeOK /\ HoldInv /\ [Next]_vars => HoldInv'
    BY HoldInvKept
  <1>3. HoldInv => HoldIsHonoured
    BY DEF HoldInv, HoldIsHonoured
  <1> QED
    BY <1>1, <1>2, <1>3, TypeCorrect, PTL DEF Spec

----------------------------------------------------------------------------
(* Drafts and the sends made from them                                     *)

LEMMA SameUse ==
  ASSUME DraftInv, UNCHANGED <<draft, intent>>, \A o \in Ops : InUse(o)' <=> InUse(o)
  PROVE  DraftInv'
  BY DEF DraftInv

\* Settling the sends of S as failed or cancelled and restoring their drafts.
LEMMA RestoreKeepsDrafts ==
  ASSUME TypeOK, DraftInv, NEW S \in SUBSET Ops, UNCHANGED intent,
         \A o \in S : InUse(o) /\ ~ InUse(o)',
         \A o \in Ops \ S : InUse(o)' <=> InUse(o),
         draft' = Restored(S)
  PROVE  DraftInv'
  <1> DEFINE lost == {intent[o].draft : o \in S}
  <1>0. lost \subseteq Drafts /\ \A d \in Drafts : draft[d] \in DraftRows
    BY DEF TypeOK, Intents
  <1>1. \A d \in lost : draft'[d].status = "active"
    <2> SUFFICES ASSUME NEW o \in S PROVE draft'[intent[o].draft].status = "active"
      OBVIOUS
    <2>1. draft[intent[o].draft].status = "submitted" /\ draft[intent[o].draft].rev = intent[o].rev
      BY DEF DraftInv
    <2>2. draft'[intent[o].draft] = [draft[intent[o].draft] EXCEPT !.status = "active"]
      BY <1>0, <2>1 DEF Restored
    <2> QED
      BY <1>0, <2>2 DEF DraftRows
  <1>2. \A d \in Drafts \ lost : draft'[d] = draft[d]
    BY DEF Restored
  <1>3. \A o \in Ops : InUse(o)' => o \notin S /\ InUse(o) /\ intent[o].draft \notin lost
    BY DEF DraftInv
  <1>4. \A o \in Ops : intent[o].draft \in Drafts
    BY DEF TypeOK, Intents
  <1>5. \A o \in Ops : InUse(o)' => /\ draft'[intent'[o].draft].status = "submitted"
                                    /\ draft'[intent'[o].draft].rev = intent'[o].rev
    BY <1>2, <1>3, <1>4 DEF DraftInv
  <1>6. \A o, p \in Ops : InUse(o)' /\ InUse(p)' /\ intent'[o].draft = intent'[p].draft => o = p
    BY <1>3 DEF DraftInv
  <1>7. ASSUME NEW d \in Drafts, draft'[d].status = "submitted"
        PROVE  \E o \in Ops : InUse(o)' /\ intent'[o].draft = d
    <2>1. d \notin lost /\ draft[d].status = "submitted"
      BY <1>1, <1>2, <1>7
    <2>2. PICK o \in Ops : InUse(o) /\ intent[o].draft = d
      BY <2>1 DEF DraftInv
    <2> QED
      BY <2>1, <2>2
  <1> QED
    BY <1>5, <1>6, <1>7 DEF DraftInv

\* Disconnecting or detaching: the pending sends of S are cancelled, their drafts restored.
LEMMA WithdrawnKeepsDrafts ==
  ASSUME TypeOK, DraftInv, NEW S \in SUBSET Ops, UNCHANGED intent,
         status' = Withdrawn(S), draft' = Restored(S \cap WithStatus("pending"))
  PROVE  DraftInv'
  <1> DEFINE P == S \cap WithStatus("pending")
  <1>1. \A o \in P : status[o] = "pending" /\ status'[o] = "cancelled"
    BY DEF Withdrawn, WithStatus
  <1>2. \A o \in Ops \ P : status'[o] = status[o] \/ (status[o] = "processing" /\ status'[o] = "uncertain")
    BY DEF Withdrawn, WithStatus
  <1>3. P \in SUBSET Ops
    OBVIOUS
  <1>4. \A o \in P : InUse(o) /\ ~ InUse(o)'
    BY <1>1 DEF InUse
  <1>5. \A o \in Ops \ P : InUse(o)' <=> InUse(o)
    BY <1>2 DEF InUse
  <1> HIDE DEF P
  <1>6. draft' = Restored(P)
    BY DEF P
  <1> QED
    BY <1>3, <1>4, <1>5, <1>6, RestoreKeepsDrafts

LEMMA SavedKeepsDrafts ==
  ASSUME DraftInv, UNCHANGED <<draft, intent>>, NEW S, \A o \in S : status[o] = "processing",
         status' = Saved(S, "uncertain")
  PROVE  DraftInv'
  <1>1. \A o \in Ops : InUse(o)' <=> InUse(o)
    BY DEF InUse, Saved
  <1> QED
    BY <1>1, SameUse

LEMMA CallerKeepsDrafts ==
  ASSUME TypeOK, DraftInv, CallerStep PROVE DraftInv'
  <1>0. \A o \in Ops : intent[o].draft \in Drafts
    BY DEF TypeOK, Intents
  <1>1. ASSUME NEW d \in Drafts, UpdateDraft(d) \/ DeleteDraft(d) PROVE DraftInv'
    <2>1. UNCHANGED <<status, intent>>
      BY <1>1 DEF UpdateDraft, DeleteDraft, opVars
    <2>2. draft[d].status = "active" /\ \A e \in Drafts \ {d} : draft'[e] = draft[e]
      BY <1>1 DEF UpdateDraft, DeleteDraft, TypeOK
    <2>3. draft'[d].status # "submitted"
      BY <1>1, <2>2 DEF UpdateDraft, DeleteDraft, TypeOK, DraftRows
    <2> QED
      BY <1>0, <2>1, <2>2, <2>3 DEF DraftInv, InUse
  <1>2. ASSUME NEW c \in Callers, SubmitAccepts(c) PROVE DraftInv'
    <2> DEFINE e == request[c].draft
    <2>1. request[c] \in Requests
      BY DEF TypeOK
    <2>2. e \in Drafts /\ draft[e] \in DraftRows
      BY <2>1 DEF TypeOK, Requests
    <2>3. PICK o \in Ops : /\ status[o] = "free" /\ status'[o] = "pending"
                           /\ intent'[o] = [draft |-> e, rev |-> request[c].rev, key |-> request[c].key]
                           /\ \A p \in Ops \ {o} : status'[p] = status[p] /\ intent'[p] = intent[p]
      BY <1>2, Inserts
    <2>4. intent'[o].draft = e /\ intent'[o].rev = request[c].rev
      BY <2>3
    <2>5. draft[e].status = "active" /\ draft[e].rev = request[c].rev
      BY <1>2 DEF SubmitAccepts
    <2>6. draft' = [draft EXCEPT ![e] = [draft[e] EXCEPT !.status = "submitted"]]
      BY <1>2 DEF SubmitAccepts
    <2>7. draft'[e].status = "submitted" /\ draft'[e].rev = request[c].rev
          /\ \A d \in Drafts \ {e} : draft'[d] = draft[d]
      BY <2>2, <2>5, <2>6 DEF TypeOK, DraftRows
    <2>8. \A p \in Ops : InUse(p) => intent[p].draft # e /\ p # o
      BY <2>3, <2>5 DEF DraftInv, InUse
    <2>9. \A p \in Ops : InUse(p)' <=> p = o \/ InUse(p)
      BY <2>3 DEF InUse
    <2>10. \A p \in Ops : InUse(p)' => /\ draft'[intent'[p].draft].status = "submitted"
                                       /\ draft'[intent'[p].draft].rev = intent'[p].rev
      BY <1>0, <2>3, <2>4, <2>7, <2>8, <2>9 DEF DraftInv
    <2>11. \A p, q \in Ops : InUse(p)' /\ InUse(q)' /\ intent'[p].draft = intent'[q].draft => p = q
      BY <2>3, <2>4, <2>8, <2>9 DEF DraftInv
    <2>12. ASSUME NEW d \in Drafts, draft'[d].status = "submitted"
           PROVE  \E p \in Ops : InUse(p)' /\ intent'[p].draft = d
      <3>1. CASE d = e
        BY <2>4, <2>9, <3>1
      <3>2. CASE d # e
        <4>1. PICK p \in Ops : InUse(p) /\ intent[p].draft = d
          BY <2>7, <2>12, <3>2 DEF DraftInv
        <4> QED
          BY <2>3, <2>8, <2>9, <4>1
      <3> QED
        BY <3>1, <3>2
    <2> QED
      BY <2>10, <2>11, <2>12 DEF DraftInv
  <1>3. ASSUME NEW o \in Ops, Cancel(o) PROVE DraftInv'
    <2> DEFINE e == intent[o].draft
    <2>1. status[o] = "pending" /\ status'[o] = "cancelled" /\ \A p \in Ops \ {o} : status'[p] = status[p]
      BY <1>3 DEF Cancel, TypeOK
    <2>2. draft[e].status = "submitted" /\ draft[e].rev = intent[o].rev
      BY <2>1 DEF DraftInv, InUse
    <2>3. UNCHANGED intent /\ draft' = [draft EXCEPT ![e] = [draft[e] EXCEPT !.status = "active"]]
      BY <1>3 DEF Cancel
    <2>4. Restored({o}) = [d \in Drafts |-> IF d = e THEN [draft[e] EXCEPT !.status = "active"] ELSE draft[d]]
      BY <2>2 DEF Restored
    <2>5. draft' = Restored({o})
      BY <2>3, <2>4 DEF TypeOK
    <2>6. InUse(o) /\ ~ InUse(o)'
      BY <2>1 DEF InUse
    <2>7. \A p \in Ops \ {o} : InUse(p)' <=> InUse(p)
      BY <2>1 DEF InUse
    <2> QED
      BY <2>3, <2>5, <2>6, <2>7, RestoreKeepsDrafts
  <1>4. ASSUME UNCHANGED <<draft, intent, status>> PROVE DraftInv'
    BY <1>4, SameUse DEF InUse
  <1> QED
    BY <1>1, <1>2, <1>3, <1>4 DEF CallerStep, SubmitBegins, SubmitReturns, Reschedule, opVars

LEMMA WorkerKeepsDrafts ==
  ASSUME TypeOK, DraftInv, WorkerStep PROVE DraftInv'
  <1>1. CASE Sweep
    BY <1>1, SavedKeepsDrafts DEF Sweep, Expired, WithStatus
  <1>2. ASSUME UNCHANGED <<draft, intent>>, NEW o \in Ops, NEW s, InUse(o),
               status' = [status EXCEPT ![o] = s], s \notin {"free", "failed", "cancelled"}
        PROVE  DraftInv'
    <2>1. \A p \in Ops : InUse(p)' <=> InUse(p)
      BY <1>2 DEF InUse, TypeOK
    <2> QED
      BY <1>2, <2>1, SameUse
  <1>3. ASSUME UNCHANGED intent, NEW o \in Ops, status[o] = "processing",
               status' = [status EXCEPT ![o] = "failed"], draft' = Restored({o})
        PROVE  DraftInv'
    <2>1. InUse(o) /\ ~ InUse(o)' /\ \A p \in Ops \ {o} : InUse(p)' <=> InUse(p)
      BY <1>3 DEF InUse, TypeOK
    <2> QED
      BY <1>3, <2>1, RestoreKeepsDrafts
  <1>4. ASSUME NEW w \in Workers, NEW o \in Ops, Claim(w, o) PROVE DraftInv'
    BY <1>2, <1>4 DEF Claim, Due, InUse
  <1>5. ASSUME UNCHANGED <<draft, intent, status>> PROVE DraftInv'
    BY <1>5, SameUse DEF InUse
  <1>6. ASSUME NEW w \in Workers, Owns(w) PROVE worker[w].op \in Ops /\ status[worker[w].op] = "processing"
    BY <1>6 DEF Owns
  <1>7. ASSUME NEW w \in Workers, Receipt(w) PROVE DraftInv'
    <2>1. UNCHANGED intent
      BY <1>7 DEF Receipt
    <2>2. CASE UNCHANGED <<status, draft>>
      BY <1>5, <2>1, <2>2
    <2>3. CASE /\ Owns(w) /\ UNCHANGED draft
               /\ \E s \in {"uncertain", "succeeded", "partial"} : status' = [status EXCEPT ![worker[w].op] = s]
      BY <1>2, <1>6, <2>1, <2>3 DEF InUse
    <2>4. CASE Owns(w) /\ status' = [status EXCEPT ![worker[w].op] = "failed"] /\ draft' = Restored({worker[w].op})
      BY <1>3, <1>6, <2>1, <2>4
    <2> QED
      BY <1>7, <2>2, <2>3, <2>4 DEF Receipt
  <1>8. ASSUME NEW w \in Workers, FailureRecorded(w) PROVE DraftInv'
    <2>1. UNCHANGED intent
      BY <1>8 DEF FailureRecorded
    <2>2. CASE UNCHANGED <<status, draft>>
      BY <1>5, <2>1, <2>2
    <2>3. CASE /\ Owns(w) /\ UNCHANGED draft
               /\ \E s \in {"uncertain", "pending"} : status' = [status EXCEPT ![worker[w].op] = s]
      BY <1>2, <1>6, <2>1, <2>3 DEF InUse
    <2>4. CASE Owns(w) /\ status' = [status EXCEPT ![worker[w].op] = "failed"] /\ draft' = Restored({worker[w].op})
      BY <1>3, <1>6, <2>1, <2>4
    <2> QED
      BY <1>8, <2>2, <2>3, <2>4 DEF FailureRecorded
  <1> QED
    BY <1>1, <1>4, <1>5, <1>7, <1>8
       DEF WorkerStep, Execute, ReadAccount, EntersIo, Dispatch, FailsBeforeDispatch, ProviderRefuses,
           ProviderAccepts, ProviderRejects, ProviderRefusesLogin, AnswerLost, ReceiptThrows, Crash,
           LateDecision, opVars

LEMMA AccountKeepsDrafts ==
  ASSUME TypeOK, DraftInv, AccountStep PROVE DraftInv'
  <1>1. CASE Disconnect
    <2>1. WithStatus("pending") = Ops \cap WithStatus("pending") /\ Ops \in SUBSET Ops
      BY DEF WithStatus
    <2> QED
      BY <1>1, <2>1, WithdrawnKeepsDrafts DEF Disconnect
  <1>2. CASE Detach
    BY <1>2, WithdrawnKeepsDrafts DEF Detach
  <1>3. CASE Reconnect \/ RecoverCredentials
    BY <1>3, SavedKeepsDrafts DEF Reconnect, RecoverCredentials, WithStatus
  <1>4. CASE Revoke \/ SiblingReconnects \/ Attach
    BY <1>4, SameUse DEF Revoke, SiblingReconnects, Attach, opVars, InUse
  <1> QED
    BY <1>1, <1>2, <1>3, <1>4 DEF AccountStep

LEMMA DraftsFollowSends == Spec => []DraftInv
  <1>1. Init => DraftInv
    BY DEF Init, DraftInv, InUse
  <1>2. TypeOK /\ DraftInv /\ [Next]_vars => DraftInv'
    <2> SUFFICES ASSUME TypeOK, DraftInv, [Next]_vars PROVE DraftInv'
      OBVIOUS
    <2>1. CASE UNCHANGED vars \/ TimeStep
      <3>1. UNCHANGED <<draft, intent, status>>
        BY <2>1 DEF vars, opVars, TimeStep, HoldEnds, TimeUp, LeaseExpires, Heartbeat
      <3> QED
        BY <3>1, SameUse DEF InUse
    <2> QED
      BY <2>1, CallerKeepsDrafts, WorkerKeepsDrafts, AccountKeepsDrafts DEF Next
  <1> QED
    BY <1>1, <1>2, TypeCorrect, PTL DEF Spec

\* A draft that can be edited and submitted again has no send that may go out.
THEOREM ResubmittingSafe == Spec => []ResubmittingIsSafe
  <1>1. DraftInv => ResubmittingIsSafe
    BY DEF DraftInv, InUse, ResubmittingIsSafe
  <1> QED
    BY <1>1, DraftsFollowSends, PTL

\* A draft is submitted exactly while one send of it is queued, running, done or in doubt.
THEOREM SubmittedOnce == Spec => []SubmittedDraftHasOneSend
  <1>1. ASSUME DraftInv PROVE SubmittedDraftHasOneSend
    <2> SUFFICES ASSUME NEW d \in Drafts, draft[d].status = "submitted"
                 PROVE  Cardinality({o \in Ops : status[o] \notin {"free", "failed", "cancelled"} /\ intent[o].draft = d}) = 1
      BY DEF SubmittedDraftHasOneSend
    <2>1. PICK o \in Ops : InUse(o) /\ intent[o].draft = d
      BY <1>1 DEF DraftInv
    <2>2. {p \in Ops : status[p] \notin {"free", "failed", "cancelled"} /\ intent[p].draft = d} = {o}
      BY <1>1, <2>1 DEF DraftInv, InUse
    <2> QED
      BY <2>2, FS_Singleton
  <1> QED
    BY <1>1, DraftsFollowSends, PTL

----------------------------------------------------------------------------
(* Generations                                                             *)

LEMMA ClaimableKept ==
  ASSUME TypeOK, LiveSendsAreClaimable, [Next]_vars PROVE LiveSendsAreClaimable'
  <1>0. account \in Accounts /\ \A o \in Ops : status[o] \in {"free"} \cup Live \cup Settled
    BY DEF TypeOK
  <1>1. CASE AccountStep
    <2>1. CASE Disconnect
      <3>1. \A o \in Ops : status'[o] \notin Live
        BY <1>0, <2>1 DEF Disconnect, Withdrawn, Live, Settled
      <3> QED
        BY <3>1 DEF LiveSendsAreClaimable
    <2>2. CASE Reconnect
      <3>1. account'.gen = account.gen + 1 /\ account'.status = "connected"
        BY <2>2 DEF Reconnect
      <3>2. \A o \in Ops : status'[o] \in Live => status[o] = "pending"
        BY <1>0, <2>2 DEF Reconnect, Saved, WithStatus, Live, Settled
      <3>3. \A o \in Ops : status[o] = "pending" => gen'[o] = account.gen + 1
        BY <2>2 DEF Reconnect
      <3> QED
        BY <3>1, <3>2, <3>3 DEF LiveSendsAreClaimable
    <2>3. CASE RecoverCredentials
      <3>1. account'.gen = account.gen /\ account'.status = "connected" /\ UNCHANGED gen
        BY <2>3 DEF RecoverCredentials
      <3>2. \A o \in Ops : status'[o] \in Live => status[o] \in Live
        BY <2>3 DEF RecoverCredentials, Saved, Live
      <3> QED
        BY <3>1, <3>2 DEF LiveSendsAreClaimable
    <2>4. CASE Revoke
      <3>1. account'.gen = account.gen /\ account'.status = "reconnect_required" /\ UNCHANGED <<gen, status>>
        BY <1>0, <2>4 DEF Revoke, Accounts, opVars
      <3> QED
        BY <3>1 DEF LiveSendsAreClaimable
    <2>7. CASE SiblingReconnects
      <3>1. account'.gen = account.gen /\ account'.status = account.status /\ UNCHANGED <<gen, status>>
        BY <1>0, <2>7 DEF SiblingReconnects, Accounts, opVars
      <3> QED
        BY <3>1 DEF LiveSendsAreClaimable
    <2>5. CASE Detach
      <3>1. UNCHANGED <<account, gen>> /\ \A o \in Ops : status'[o] \in Live => status[o] \in Live
        BY <2>5 DEF Detach, Withdrawn, Live
      <3> QED
        BY <3>1 DEF LiveSendsAreClaimable
    <2>6. CASE Attach
      BY <2>6 DEF Attach, opVars, LiveSendsAreClaimable
    <2> QED
      BY <1>1, <2>1, <2>2, <2>3, <2>4, <2>5, <2>6, <2>7 DEF AccountStep
  <1>2. ASSUME NEW c \in Callers, SubmitAccepts(c) PROVE LiveSendsAreClaimable'
    <2>1. UNCHANGED account /\ account.status = "connected"
      BY <1>2 DEF SubmitAccepts, Connected
    <2>2. PICK o \in Ops : status' = [status EXCEPT ![o] = "pending"] /\ gen' = [gen EXCEPT ![o] = account.gen]
      BY <1>2 DEF SubmitAccepts
    <2>3. gen'[o] = account.gen /\ \A p \in Ops \ {o} : gen'[p] = gen[p] /\ status'[p] = status[p]
      BY <2>2 DEF TypeOK
    <2> QED
      BY <2>1, <2>3 DEF LiveSendsAreClaimable
  <1>3. ASSUME UNCHANGED <<account, gen>>, ~ \E c \in Callers : SubmitAccepts(c) PROVE LiveSendsAreClaimable'
    <2>1. \A o \in Ops : status'[o] \in Live => status[o] \in Live
      BY <1>0, <1>3, RowsMove, OnlySubmitInserts DEF RowMoves, Live, Settled
    <2> QED
      BY <1>3, <2>1 DEF LiveSendsAreClaimable
  <1>4. AccountStep \/ (\E c \in Callers : SubmitAccepts(c)) \/ UNCHANGED <<account, gen>>
    <2>1. CallerStep => (\E c \in Callers : SubmitAccepts(c)) \/ UNCHANGED <<account, gen>>
      BY DEF CallerStep, UpdateDraft, DeleteDraft, SubmitBegins, SubmitReturns, Cancel, Reschedule, opVars
    <2>2. TimeStep => UNCHANGED <<account, gen>>
      BY DEF TimeStep, HoldEnds, TimeUp, LeaseExpires, Heartbeat
    <2>3. WorkerStep => UNCHANGED <<account, gen>>
      BY ZenonT(60) DEF WorkerStep, Sweep, Claim, Execute, ReadAccount, EntersIo, Dispatch, FailsBeforeDispatch,
             ProviderRefuses, ProviderAccepts, ProviderRejects, ProviderRefusesLogin, AnswerLost,
             Receipt, ReceiptThrows, FailureRecorded, Crash, LateDecision, opVars
    <2> QED
      BY <2>1, <2>2, <2>3 DEF Next, vars, opVars
  <1> QED
    BY <1>1, <1>2, <1>3, <1>4

\* No disconnect, reconnect or credential change leaves a live send that no worker may claim.
THEOREM AlwaysClaimable == Spec => []LiveSendsAreClaimable
  <1>1. Init => LiveSendsAreClaimable
    BY DEF Init, LiveSendsAreClaimable, Live
  <1>2. TypeOK /\ LiveSendsAreClaimable /\ [Next]_vars => LiveSendsAreClaimable'
    BY ClaimableKept
  <1> QED
    BY <1>1, <1>2, TypeCorrect, PTL DEF Spec
=============================================================================
