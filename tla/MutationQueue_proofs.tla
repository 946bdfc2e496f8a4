----------------------- MODULE MutationQueue_proofs -----------------------
(***************************************************************************)
(* MutationQueue keeps its promises for every number of messages, workers  *)
(* and operations, every retry limit and every window.                     *)
(*                                                                         *)
(* LeasesHold: one slot at most holds the lease of a running row.          *)
(* SlotsHold: what the holder of a lease still has to do has no result,    *)
(* an answer it holds is one the provider gave, and what it has come to is *)
(* recorded or was carried out.  OrderHolds: rows are used in order, and   *)
(* run in order.  MovesHold: a message whose revision is that of a receipt *)
(* is still as the receipt left it, and nothing older is queued for it.    *)
(* UnsavedHolds: an answer goes unsaved only where there was one, and its  *)
(* operation is over.                                                      *)
(***************************************************************************)
EXTENDS MutationQueue, FiniteSetTheorems, WellFoundedInduction, TLAPS

SlotHolds(s) ==
  /\ s.phase # "idle" => s.op \in Ops
  /\ s.leased =>
       /\ s.op \in Ops /\ status[s.op] \in {"processing"} \cup Settled
       /\ status[s.op] = "processing" =>
            /\ \A m \in s.todo : results[s.op][m] = "none" /\ m \in Selected(s.op)
            /\ s.phase \in {"calling", "sent", "answered", "erring"} \/ s.returned =>
                 results[s.op][s.msg] = "none" /\ s.msg \notin s.todo /\ s.msg \in Selected(s.op)
            /\ s.phase = "answered" \/ s.returned => <<s.op, s.msg>> \in applied
            /\ s.phase \in {"claimed", "next", "calling", "sent"} => ~s.returned
            /\ s.phase \in {"next", "calling", "sent", "answered", "erring"} =>
                 \A m \in Selected(s.op) : \/ m \in s.todo \/ results[s.op][m] # "none" \/ <<s.op, m>> \in applied
                                           \/ s.phase # "next" /\ m = s.msg

LeasesHold ==
  /\ fresh \subseteq WithStatus("processing")
  /\ \A w, x \in Workers : /\ worker[w].leased /\ worker[x].leased /\ worker[w].op = worker[x].op
                           /\ status[worker[w].op] = "processing"
                           => w = x

SlotsHold == \A w \in Workers : SlotHolds(worker[w])

OrderHolds ==
  /\ \A o, p \in Ops : status[o] = "free" /\ o < p => status[p] = "free"
  /\ \A o \in Ops : status[o] = "free" => results[o] = [m \in Messages |-> "none"]
  /\ RunsInOrder

MovesHold ==
  \A o \in Ops, m \in Messages : <<o, m>> \in unmoved =>
    /\ m \in Selected(o) /\ results[o][m] = "succeeded" /\ confirmed[m] = change[o][m]
    /\ \A p \in LiveOps : p < o => ~Overlap(o, p)

UnsavedHolds == \A u \in unsaved : u \in applied /\ status[u[1]] \in Settled

\* The last of some operations.
Latest(S) == CHOOSE o \in S : \A p \in S : p <= o

Shown(m) == visible[m] = IF Showing(m) = {} THEN confirmed[m] ELSE change[Latest(Showing(m))][m]

MutationInv ==
  /\ TypeOK
  /\ LeasesHold /\ SlotsHold /\ OrderHolds /\ MovesHold /\ UnsavedHolds
  /\ SuccessIsReal /\ LiveMutationsAreClaimable
  /\ \A m \in Messages : Shown(m)

----------------------------------------------------------------------------
(* What shows. *)

LEMMA LatestOp ==
  ASSUME NEW S, S \subseteq Ops, S # {}
  PROVE  Latest(S) \in S /\ \A p \in S : p <= Latest(S)
<1> DEFINE Above(o) == o..MaxOps
           T == {Above(o) : o \in S}
<1>1. MaxOps \in Nat
  BY MutationAssumption
<1>2. IsFiniteSet(Ops)
  BY <1>1, FS_Interval DEF Ops
<1>3. IsWellFoundedOn(StrictSubsetOrdering(Ops), FiniteSubsetsOf(Ops))
  BY FS_StrictSubsetOrderingWellFounded
<1>4. T \subseteq FiniteSubsetsOf(Ops) /\ T # {}
  <2>1. \A o \in S : Above(o) \subseteq Ops
    BY <1>1 DEF Ops
  <2>2. \A o \in S : IsFiniteSet(Above(o))
    BY <1>2, <2>1, FS_Subset
  <2> QED BY <2>1, <2>2 DEF FiniteSubsetsOf
<1>5. PICK A \in T : \A B \in T : ~ (<<B, A>> \in StrictSubsetOrdering(Ops))
  <2> HIDE DEF T
  <2> QED BY <1>3, <1>4, WFMin
<1>6. PICK o \in S : A = Above(o)
  OBVIOUS
<1>7. \A p \in S : p <= o
  <2> SUFFICES ASSUME NEW p \in S, ~(p <= o) PROVE FALSE
    OBVIOUS
  <2>1. p \in Nat /\ o \in Nat /\ o < p /\ p <= MaxOps /\ o <= MaxOps
    BY <1>1 DEF Ops
  <2>2. Above(p) \subseteq Above(o) /\ Above(p) # Above(o) /\ Above(o) \subseteq Ops
    BY <1>1, <2>1 DEF Ops
  <2>3. Above(p) \in T
    OBVIOUS
  <2>4. <<Above(p), Above(o)>> \in StrictSubsetOrdering(Ops)
    <3> HIDE DEF Above
    <3> QED BY <2>2 DEF StrictSubsetOrdering
  <2> QED BY <1>5, <1>6, <2>3, <2>4
<1> QED BY <1>7 DEF Latest

LEMMA ChangeTypes ==
  ASSUME NEW c \in Changes
  PROVE  DOMAIN c \subseteq Messages /\ \A m \in DOMAIN c : c[m] \in Values
BY DEF Changes

LEMMA LatestChange ==
  ASSUME NEW Q, Q \subseteq Ops, NEW ch \in [Ops -> Changes], NEW cf \in [Messages -> Values], NEW m \in Messages,
         \A o \in Q : m \in DOMAIN ch[o]
  PROVE  (IF Q = {} THEN cf[m] ELSE ch[Latest(Q)][m]) \in Values
<1>1. CASE Q = {}
  BY <1>1
<1>2. CASE Q # {}
  <2>1. Latest(Q) \in Q
    BY <1>2, LatestOp
  <2>2. ch[Latest(Q)] \in Changes
    BY <2>1
  <2> QED BY <1>2, <2>1, <2>2, ChangeTypes
<1> QED BY <1>1, <1>2

\* What is projected, with the latest queued change named.
LEMMA ProjectedIs ==
  ASSUME NEW m \in Messages
  PROVE  /\ Projected(m) = IF Queued(m) = {} THEN confirmed[m] ELSE change[Latest(Queued(m))][m]
         /\ Projected(m)' = IF Queued(m)' = {} THEN confirmed'[m] ELSE change'[Latest(Queued(m)')][m]
BY DEF Projected, Latest

\* A projection shows a value.
LEMMA ProjectedType ==
  ASSUME change' \in [Ops -> Changes], confirmed' \in [Messages -> Values]
  PROVE  \A m \in Messages : Projected(m)' \in Values
<1> SUFFICES ASSUME NEW m \in Messages PROVE Projected(m)' \in Values
  OBVIOUS
<1>1. Queued(m)' \subseteq Ops /\ \A o \in Queued(m)' : m \in DOMAIN change'[o]
  BY DEF Queued, LiveOps, Selected
<1>2. (IF Queued(m)' = {} THEN confirmed'[m] ELSE change'[Latest(Queued(m)')][m]) \in Values
  BY <1>1, LatestChange
<1> QED BY <1>2, ProjectedIs

LEMMA ReprojectType ==
  ASSUME TypeOK, change' \in [Ops -> Changes], confirmed' \in [Messages -> Values], NEW S, Reproject(S)
  PROVE  /\ visible' \in [Messages -> Values] /\ unmoved' \subseteq Ops \X Messages
         /\ unsaved' \subseteq unsaved /\ unsaved' \subseteq Ops \X Messages
BY ProjectedType DEF Reproject, Project, TypeOK

\* A projected message shows what is queued; the others are left alone.
LEMMA ReprojectShows ==
  ASSUME TypeOK, NEW S, Reproject(S), NEW m \in Messages
  PROVE  /\ m \in S => Shown(m)'
         /\ m \notin S => visible'[m] = visible[m] /\ \A o \in Ops : <<o, m>> \in unsaved' <=> <<o, m>> \in unsaved
<1>1. /\ visible'[m] = IF m \in S THEN Projected(m)' ELSE visible[m]
      /\ unsaved' = {u \in unsaved : u[2] \notin S}
  BY DEF Reproject, Project
<1>2. m \in S => Showing(m)' = Queued(m)'
  BY <1>1 DEF Showing
<1>3. m \in S => Shown(m)'
  BY <1>1, <1>2, ProjectedIs DEF Shown
<1> QED BY <1>1, <1>3

----------------------------------------------------------------------------
(* Steps that leave the queue and the mail alone. *)

LEMMA ShownKept ==
  ASSUME NEW m \in Messages, Shown(m), Queued(m)' = Queued(m), \A o \in Showing(m) : change'[o] = change[o],
         \A o \in Ops : <<o, m>> \in unsaved' <=> <<o, m>> \in unsaved,
         confirmed'[m] = confirmed[m], visible'[m] = visible[m]
  PROVE  Shown(m)'
<1>1. Showing(m) # {} => Latest(Showing(m)) \in Showing(m)
  BY LatestOp DEF Showing, Queued, LiveOps
<1>2. Showing(m)' = Showing(m)
  BY DEF Showing
<1>3. Latest(Showing(m)') = Latest(Showing(m))
  BY <1>2
<1> QED BY <1>1, <1>2, <1>3 DEF Shown

\* Answers stay unsaved, of operations that are over.
LEMMA UnsavedStays ==
  ASSUME UnsavedHolds, TypeOK, unsaved' \subseteq unsaved, applied \subseteq applied',
         \A o \in Ops : status[o] \in Settled => status'[o] \in Settled
  PROVE  UnsavedHolds'
BY DEF UnsavedHolds, TypeOK

\* Rows and mail stay: every message shows what it showed.
LEMMA ShownStays ==
  ASSUME \A m \in Messages : Shown(m), UNCHANGED <<status, change, results, confirmed, visible, unsaved>>
  PROVE  \A m \in Messages : Shown(m)'
<1> SUFFICES ASSUME NEW m \in Messages PROVE Shown(m)'
  OBVIOUS
<1>1. Queued(m)' = Queued(m)
  BY DEF Queued, LiveOps, Selected
<1> QED BY <1>1, ShownKept

\* Rows stay: they hold what they held.
LEMMA OrderStays ==
  ASSUME OrderHolds, UNCHANGED <<status, change, results>>
  PROVE  OrderHolds'
BY DEF OrderHolds, RunsInOrder, WithStatus, LiveOps, Overlap, Selected

LEMMA MovesStay ==
  ASSUME MovesHold, UNCHANGED <<status, change, results, confirmed, unmoved>>
  PROVE  MovesHold'
BY DEF MovesHold, LiveOps, Overlap, Selected

LEMMA SuccessStays ==
  ASSUME SuccessIsReal, UNCHANGED <<status, change, results>>, applied \subseteq applied'
  PROVE  SuccessIsReal'
BY DEF SuccessIsReal, WithStatus, Selected

LEMMA LiveStays ==
  ASSUME LiveMutationsAreClaimable, UNCHANGED <<account, status, gen>>
  PROVE  LiveMutationsAreClaimable'
BY DEF LiveMutationsAreClaimable, LiveOps

\* A slot goes on, or gives up, and keeps at most the lease it had.
LEMMA SlotStep ==
  ASSUME MutationInv, NEW w \in Workers, NEW s \in Slot, worker' = [worker EXCEPT ![w] = s],
         UNCHANGED <<account, status, payloads, results, leases, mail>>,
         applied \subseteq applied', applied' \subseteq Ops \X Messages,
         s.leased => worker[w].leased /\ s.op = worker[w].op,
         SlotHolds(s)'
  PROVE  MutationInv'
<1> USE DEF payloads, leases, mail
<1>1. TypeOK'
  BY DEF MutationInv, TypeOK
<1>2. \A x \in Workers : worker'[x] = IF x = w THEN s ELSE worker[x]
  BY DEF MutationInv, TypeOK
<1>3. LeasesHold'
  BY <1>2 DEF MutationInv, LeasesHold, WithStatus
<1>4. SlotsHold'
  <2> SUFFICES ASSUME NEW x \in Workers PROVE SlotHolds(worker[x])'
    BY DEF SlotsHold
  <2>1. CASE x = w
    BY <2>1, <1>2 DEF SlotHolds
  <2>2. CASE x # w
    BY <2>2, <1>2 DEF MutationInv, SlotsHold, SlotHolds, Selected
  <2> QED BY <2>1, <2>2
<1>5. UnsavedHolds'
  BY UnsavedStays DEF MutationInv
<1> QED
  BY <1>1, <1>3, <1>4, <1>5, ShownStays, OrderStays, MovesStay, SuccessStays, LiveStays DEF MutationInv

LEMMA Tries == 0 \in 0..1 /\ 1 \in 0..1
OBVIOUS

LEMMA IdleSlot == Idle \in Slot /\ Idle.leased = FALSE /\ Idle.phase = "idle" /\ Idle.returned = FALSE
BY MutationAssumption DEF Slot, Phases, Idle, Errors

\* A slot that rests holds nothing.
LEMMA RestStep ==
  ASSUME MutationInv, NEW w \in Workers, Rest(w),
         UNCHANGED <<account, status, payloads, results, leases, mail>>,
         applied \subseteq applied', applied' \subseteq Ops \X Messages
  PROVE  MutationInv'
<1>1. PICK s \in Slot : s = Idle
  BY IdleSlot
<1>2. ~s.leased /\ worker' = [worker EXCEPT ![w] = s]
  BY <1>1, IdleSlot DEF Rest
<1>3. SlotHolds(s)'
  BY <1>1, <1>2, IdleSlot DEF SlotHolds
<1> QED BY <1>2, <1>3, SlotStep

\* A request that may still be carried out belongs to an operation.
LEMMA AppliedGrows ==
  ASSUME MutationInv, NEW w \in Workers,
         \/ applied' = applied
         \/ worker[w].phase = "sent" /\ applied' = applied \cup {<<worker[w].op, worker[w].msg>>}
  PROVE  applied \subseteq applied' /\ applied' \subseteq Ops \X Messages
<1>1. applied \subseteq Ops \X Messages /\ worker[w].msg \in Messages
  BY DEF MutationInv, TypeOK, Slot
<1>2. worker[w].phase = "sent" => worker[w].op \in Ops
  BY DEF MutationInv, SlotsHold, SlotHolds
<1> QED BY <1>1, <1>2

LEMMA ReadAccountInv ==
  ASSUME MutationInv, NEW w \in Workers, ReadAccount(w)
  PROVE  MutationInv'
<1>1. PICK r \in Slot : r = worker[w]
  BY DEF MutationInv, TypeOK
<1>2. SlotHolds(r) /\ r.phase = "claimed"
  BY <1>1 DEF MutationInv, SlotsHold, ReadAccount
<1>3. PICK t \in SUBSET Messages : t = {m \in Selected(r.op) : results[r.op][m] = "none"}
  <2>1. r.op \in Ops
    BY <1>2 DEF SlotHolds
  <2>2. Selected(r.op) \subseteq Messages
    BY <2>1, ChangeTypes DEF Selected, MutationInv, TypeOK
  <2> QED BY <2>2
<1>4. PICK e \in Nat : e = account.epoch
  BY DEF MutationInv, TypeOK, Accounts
<1>5. PICK s : /\ worker' = [worker EXCEPT ![w] = s]
               /\ \/ s = [r EXCEPT !.phase = "next", !.epoch = e, !.todo = t]
                  \/ s = [r EXCEPT !.phase = "failing", !.error = "final"]
  BY <1>1, <1>3, <1>4 DEF ReadAccount
<1>6. s \in Slot
  BY <1>5, ZenonT(60) DEF Slot, Phases, Errors
<1>7. /\ s.leased = r.leased /\ s.op = r.op /\ s.returned = r.returned
      /\ \/ s.phase = "next" /\ s.todo = t
         \/ s.phase = "failing" /\ s.todo = r.todo
  BY <1>5 DEF Slot
<1>8. UNCHANGED <<account, status, payloads, results, leases, mail, applied>>
  BY DEF ReadAccount
<1>9. SlotHolds(s)'
  BY <1>2, <1>3, <1>7, <1>8 DEF SlotHolds, payloads, Selected
<1>10. applied \subseteq Ops \X Messages
  BY DEF MutationInv, TypeOK
<1> QED BY <1>1, <1>5, <1>6, <1>7, <1>8, <1>9, <1>10, SlotStep

LEMMA NextMessageInv ==
  ASSUME MutationInv, NEW w \in Workers, NEW m \in Messages, NextMessage(w, m)
  PROVE  MutationInv'
<1>0. /\ UNCHANGED <<account, status, payloads, results, leases, mail, applied>>
      /\ applied \subseteq Ops \X Messages
  BY DEF NextMessage, MutationInv, TypeOK
<1>1. CASE Rest(w)
  BY <1>0, <1>1, RestStep
<1>2. CASE ~Rest(w)
  <2>1. PICK r \in Slot : r = worker[w]
    BY DEF MutationInv, TypeOK
  <2>2. SlotHolds(r) /\ r.phase = "next" /\ m \in r.todo
    BY <2>1 DEF MutationInv, SlotsHold, NextMessage
  <2> DEFINE next == [r EXCEPT !.phase = "calling", !.msg = m, !.todo = @ \ {m}, !.try = 0, !.error = "none"]
  <2>3a. worker' = [worker EXCEPT ![w] = next]
    BY <1>2, <2>1 DEF NextMessage
  <2>3. PICK s : worker' = [worker EXCEPT ![w] = s] /\ s = next
    BY <2>3a
  <2>4. s \in Slot
    BY <2>3, Tries DEF Slot, Phases, Errors
  <2>5. s.leased = r.leased /\ s.op = r.op /\ s.phase = "calling" /\ s.msg = m /\ s.todo = r.todo \ {m} /\ s.returned = r.returned
    BY <2>3 DEF Slot
  <2>6. SlotHolds(s)'
    <3>1. /\ r.op \in Ops
          /\ r.leased => status[r.op] \in {"processing"} \cup Settled
      BY <2>2 DEF SlotHolds
    <3>2. ASSUME r.leased, status[r.op] = "processing"
          PROVE  /\ \A n \in r.todo : results[r.op][n] = "none" /\ n \in Selected(r.op)
                 /\ ~r.returned
                 /\ \A n \in Selected(r.op) : n \in r.todo \/ results[r.op][n] # "none" \/ <<r.op, n>> \in applied
      BY <2>2, <3>2 DEF SlotHolds
    <3> QED BY <1>0, <2>2, <2>5, <3>1, <3>2 DEF SlotHolds, payloads, Selected
  <2> QED BY <1>0, <2>1, <2>3, <2>4, <2>5, <2>6, SlotStep
<1> QED BY <1>1, <1>2

\* The message at hand stays at hand, or its execution goes on without it.
LEMMA MoveStep ==
  ASSUME MutationInv, NEW w \in Workers, NEW r \in Slot, r = worker[w],
         NEW s \in Slot, worker' = [worker EXCEPT ![w] = s],
         UNCHANGED <<account, status, payloads, results, leases, mail>>,
         applied \subseteq applied', applied' \subseteq Ops \X Messages,
         r.phase \in {"calling", "sent", "answered", "erring"},
         s.leased = r.leased, s.op = r.op, s.msg = r.msg, s.todo = r.todo,
         s.phase \in {"calling", "sent", "answered", "erring", "failing"},
         s.phase \in {"calling", "sent"} => r.phase \in {"calling", "sent"},
         s.phase = "answered" => <<r.op, r.msg>> \in applied',
         s.returned = r.returned \/ s.phase = "answered"
  PROVE  MutationInv'
<1>1. SlotHolds(r)
  BY DEF MutationInv, SlotsHold
<1>2. ASSUME r.leased, status[r.op] = "processing"
      PROVE  /\ \A m \in r.todo : results[r.op][m] = "none" /\ m \in Selected(r.op)
             /\ results[r.op][r.msg] = "none" /\ r.msg \notin r.todo /\ r.msg \in Selected(r.op)
             /\ r.returned => <<r.op, r.msg>> \in applied
             /\ r.phase \in {"calling", "sent"} => ~r.returned
             /\ \A m \in Selected(r.op) : \/ m \in r.todo \/ results[r.op][m] # "none"
                                         \/ <<r.op, m>> \in applied \/ m = r.msg
  BY <1>1, <1>2 DEF SlotHolds
<1>3. UNCHANGED <<status, change, results>>
  BY DEF payloads
<1>4. SlotHolds(s)'
  BY <1>1, <1>2, <1>3 DEF SlotHolds, Selected
<1> QED BY <1>4, SlotStep

\* The execution goes on with the next message, without a word in the row.
LEMMA SkipStep ==
  ASSUME MutationInv, NEW w \in Workers, NEW r \in Slot, r = worker[w],
         NEW s \in Slot, worker' = [worker EXCEPT ![w] = s],
         UNCHANGED <<account, status, payloads, results, leases, mail, applied>>,
         r.phase = "answered" \/ (r.phase = "erring" /\ ~Owns(w)),
         s.leased = r.leased, s.op = r.op, s.todo = r.todo, s.phase = "next", ~s.returned
  PROVE  MutationInv'
<1>1. SlotHolds(r) /\ applied \subseteq Ops \X Messages
  BY DEF MutationInv, SlotsHold, TypeOK
<1>2. ASSUME r.leased, status[r.op] = "processing"
      PROVE  /\ \A m \in r.todo : results[r.op][m] = "none" /\ m \in Selected(r.op)
             /\ \A m \in Selected(r.op) : m \in r.todo \/ results[r.op][m] # "none" \/ <<r.op, m>> \in applied
  <2>1. r.phase = "answered"
    BY <1>1, <1>2 DEF SlotHolds, Owns
  <2>2. <<r.op, r.msg>> \in applied
    BY <1>1, <1>2, <2>1 DEF SlotHolds
  <2> QED BY <1>1, <1>2, <2>1, <2>2 DEF SlotHolds
<1>3. UNCHANGED <<status, change, results, applied>>
  BY DEF payloads
<1>4. SlotHolds(s)'
  BY <1>1, <1>2, <1>3 DEF SlotHolds, Selected
<1> QED BY <1>1, <1>4, SlotStep

LEMMA FailsBeforeDispatchInv ==
  ASSUME MutationInv, NEW w \in Workers, NEW error, FailsBeforeDispatch(w, error)
  PROVE  MutationInv'
<1>1. PICK r \in Slot : r = worker[w]
  BY DEF MutationInv, TypeOK
<1>2. r.phase = "calling" /\ error \in Errors /\ UNCHANGED <<account, status, payloads, results, leases, mail>>
  BY <1>1 DEF FailsBeforeDispatch, Errors
<1>3. applied \subseteq applied' /\ applied' \subseteq Ops \X Messages
  BY DEF FailsBeforeDispatch, MutationInv, TypeOK
<1>4. PICK s : /\ worker' = [worker EXCEPT ![w] = s]
               /\ s = [r EXCEPT !.phase = "erring", !.error = error, !.try = 0]
  BY <1>1 DEF FailsBeforeDispatch, Throw, Move
<1>5. s \in Slot
  BY <1>2, <1>4, Tries DEF Slot, Phases, Errors
<1>6. /\ s.leased = r.leased /\ s.op = r.op /\ s.msg = r.msg /\ s.todo = r.todo
      /\ s.phase = "erring" /\ s.returned = r.returned
  BY <1>4 DEF Slot
<1> QED BY <1>1, <1>2, <1>3, <1>4, <1>5, <1>6, MoveStep

LEMMA DispatchInv ==
  ASSUME MutationInv, NEW w \in Workers, Dispatch(w)
  PROVE  MutationInv'
<1>1. PICK r \in Slot : r = worker[w]
  BY DEF MutationInv, TypeOK
<1>2. r.phase = "calling" /\ UNCHANGED <<account, status, payloads, results, leases, mail>>
  BY <1>1 DEF Dispatch
<1>3. applied \subseteq applied' /\ applied' \subseteq Ops \X Messages
  BY DEF Dispatch, MutationInv, TypeOK
<1>4. PICK s : /\ worker' = [worker EXCEPT ![w] = s]
               /\ s = [r EXCEPT !.phase = "sent"]
  BY <1>1 DEF Dispatch, Throw, Move
<1>5. s \in Slot
  BY <1>2, <1>4, Tries DEF Slot, Phases, Errors
<1>6. /\ s.leased = r.leased /\ s.op = r.op /\ s.msg = r.msg /\ s.todo = r.todo
      /\ s.phase = "sent" /\ s.returned = r.returned
  BY <1>4 DEF Slot
<1> QED BY <1>1, <1>2, <1>3, <1>4, <1>5, <1>6, MoveStep

LEMMA ProviderAppliesInv ==
  ASSUME MutationInv, NEW w \in Workers, ProviderApplies(w)
  PROVE  MutationInv'
<1>1. PICK r \in Slot : r = worker[w]
  BY DEF MutationInv, TypeOK
<1>2. r.phase = "sent" /\ UNCHANGED <<account, status, payloads, results, leases, mail>>
  BY <1>1 DEF ProviderApplies
<1>3. applied \subseteq applied' /\ applied' \subseteq Ops \X Messages
  BY AppliedGrows DEF ProviderApplies
<1>4. PICK s : /\ worker' = [worker EXCEPT ![w] = s]
               /\ s = [r EXCEPT !.phase = "answered", !.returned = TRUE, !.try = 0]
  BY <1>1 DEF ProviderApplies, Throw, Move
<1>5. s \in Slot
  BY <1>2, <1>4, Tries DEF Slot, Phases, Errors
<1>6. /\ s.leased = r.leased /\ s.op = r.op /\ s.msg = r.msg /\ s.todo = r.todo
      /\ s.phase = "answered"
  BY <1>4 DEF Slot
<1>7. <<r.op, r.msg>> \in applied'
  BY <1>1 DEF ProviderApplies
<1> QED BY <1>1, <1>2, <1>3, <1>4, <1>5, <1>6, <1>7, MoveStep

LEMMA ProviderSplitsInv ==
  ASSUME MutationInv, NEW w \in Workers, ProviderSplits(w)
  PROVE  MutationInv'
<1>1. PICK r \in Slot : r = worker[w]
  BY DEF MutationInv, TypeOK
<1>2. r.phase = "sent" /\ UNCHANGED <<account, status, payloads, results, leases, mail>>
  BY <1>1 DEF ProviderSplits
<1>3. applied \subseteq applied' /\ applied' \subseteq Ops \X Messages
  BY AppliedGrows DEF ProviderSplits
<1>4. PICK s : /\ worker' = [worker EXCEPT ![w] = s]
               /\ s = [r EXCEPT !.phase = "erring", !.error = "split", !.try = 0]
  BY <1>1 DEF ProviderSplits, Throw, Move
<1>5. s \in Slot
  BY <1>2, <1>4, Tries DEF Slot, Phases, Errors
<1>6. /\ s.leased = r.leased /\ s.op = r.op /\ s.msg = r.msg /\ s.todo = r.todo
      /\ s.phase = "erring" /\ s.returned = r.returned
  BY <1>4 DEF Slot
<1> QED BY <1>1, <1>2, <1>3, <1>4, <1>5, <1>6, MoveStep

LEMMA ProviderRefusesLoginInv ==
  ASSUME MutationInv, NEW w \in Workers, ProviderRefusesLogin(w)
  PROVE  MutationInv'
<1>1. PICK r \in Slot : r = worker[w]
  BY DEF MutationInv, TypeOK
<1>2. r.phase = "sent" /\ UNCHANGED <<account, status, payloads, results, leases, mail>>
  BY <1>1 DEF ProviderRefusesLogin
<1>3. applied \subseteq applied' /\ applied' \subseteq Ops \X Messages
  BY DEF ProviderRefusesLogin, MutationInv, TypeOK
<1>4. PICK s : /\ worker' = [worker EXCEPT ![w] = s]
               /\ \/ s = [r EXCEPT !.phase = "calling", !.try = 1]
                  \/ s = [r EXCEPT !.phase = "erring", !.error = "retry", !.try = 0]
  <2>1. \/ worker' = [worker EXCEPT ![w] = [r EXCEPT !.phase = "calling", !.try = 1]]
        \/ worker' = [worker EXCEPT ![w] = [r EXCEPT !.phase = "erring", !.error = "retry", !.try = 0]]
    BY <1>1 DEF ProviderRefusesLogin, Throw
  <2> QED BY <2>1
<1>5. s \in Slot
  BY <1>2, <1>4, Tries, ZenonT(60) DEF Slot, Phases, Errors
<1>6. /\ s.leased = r.leased /\ s.op = r.op /\ s.msg = r.msg /\ s.todo = r.todo
      /\ s.phase \in {"calling", "erring"} /\ s.returned = r.returned
  BY <1>4 DEF Slot
<1> QED BY <1>1, <1>2, <1>3, <1>4, <1>5, <1>6, MoveStep

LEMMA ProviderRefusesInv ==
  ASSUME MutationInv, NEW w \in Workers, NEW error, ProviderRefuses(w, error)
  PROVE  MutationInv'
<1>1. PICK r \in Slot : r = worker[w]
  BY DEF MutationInv, TypeOK
<1>2. r.phase = "sent" /\ error \in Errors /\ UNCHANGED <<account, status, payloads, results, leases, mail>>
  BY <1>1 DEF ProviderRefuses, Errors
<1>3. applied \subseteq applied' /\ applied' \subseteq Ops \X Messages
  BY DEF ProviderRefuses, MutationInv, TypeOK
<1>4. PICK s : /\ worker' = [worker EXCEPT ![w] = s]
               /\ s = [r EXCEPT !.phase = "erring", !.error = error, !.try = 0]
  BY <1>1 DEF ProviderRefuses, Throw, Move
<1>5. s \in Slot
  BY <1>2, <1>4, Tries DEF Slot, Phases, Errors
<1>6. /\ s.leased = r.leased /\ s.op = r.op /\ s.msg = r.msg /\ s.todo = r.todo
      /\ s.phase = "erring" /\ s.returned = r.returned
  BY <1>4 DEF Slot
<1> QED BY <1>1, <1>2, <1>3, <1>4, <1>5, <1>6, MoveStep

LEMMA AnswerLostInv ==
  ASSUME MutationInv, NEW w \in Workers, NEW error, AnswerLost(w, error)
  PROVE  MutationInv'
<1>1. PICK r \in Slot : r = worker[w]
  BY DEF MutationInv, TypeOK
<1>2. r.phase = "sent" /\ error \in Errors /\ UNCHANGED <<account, status, payloads, results, leases, mail>>
  BY <1>1 DEF AnswerLost, Errors
<1>3. applied \subseteq applied' /\ applied' \subseteq Ops \X Messages
  BY AppliedGrows DEF AnswerLost, Undecided
<1>4. PICK s : /\ worker' = [worker EXCEPT ![w] = s]
               /\ s = [r EXCEPT !.phase = "erring", !.error = error, !.try = 0]
  BY <1>1 DEF AnswerLost, Throw, Move
<1>5. s \in Slot
  BY <1>2, <1>4, Tries DEF Slot, Phases, Errors
<1>6. /\ s.leased = r.leased /\ s.op = r.op /\ s.msg = r.msg /\ s.todo = r.todo
      /\ s.phase = "erring" /\ s.returned = r.returned
  BY <1>4 DEF Slot
<1> QED BY <1>1, <1>2, <1>3, <1>4, <1>5, <1>6, MoveStep

LEMMA ReceiptThrowsInv ==
  ASSUME MutationInv, NEW w \in Workers, ReceiptThrows(w)
  PROVE  MutationInv'
<1>1. PICK r \in Slot : r = worker[w]
  BY DEF MutationInv, TypeOK
<1>2. r.phase = "answered" /\ UNCHANGED <<account, status, payloads, results, leases, mail>>
  BY <1>1 DEF ReceiptThrows
<1>3. applied \subseteq applied' /\ applied' \subseteq Ops \X Messages
  BY DEF ReceiptThrows, MutationInv, TypeOK
<1>4. PICK s : /\ worker' = [worker EXCEPT ![w] = s]
               /\ s = [r EXCEPT !.phase = "erring", !.error = "final", !.try = 0]
  BY <1>1 DEF ReceiptThrows, Throw, Move
<1>5. s \in Slot
  BY <1>2, <1>4, Tries DEF Slot, Phases, Errors
<1>6. /\ s.leased = r.leased /\ s.op = r.op /\ s.msg = r.msg /\ s.todo = r.todo
      /\ s.phase = "erring" /\ s.returned = r.returned
  BY <1>4 DEF Slot
<1> QED BY <1>1, <1>2, <1>3, <1>4, <1>5, <1>6, MoveStep

LEMMA FailureThrowsInv ==
  ASSUME MutationInv, NEW w \in Workers, FailureThrows(w)
  PROVE  MutationInv'
<1>1. PICK r \in Slot : r = worker[w]
  BY DEF MutationInv, TypeOK
<1>2. r.phase = "erring" /\ UNCHANGED <<account, status, payloads, results, leases, mail>>
  BY <1>1 DEF FailureThrows
<1>3. applied \subseteq applied' /\ applied' \subseteq Ops \X Messages
  BY DEF FailureThrows, MutationInv, TypeOK
<1>4. PICK s : /\ worker' = [worker EXCEPT ![w] = s]
               /\ s = [r EXCEPT !.phase = "failing", !.error = "final"]
  BY <1>1 DEF FailureThrows, Throw, Move
<1>5. s \in Slot
  BY <1>2, <1>4, Tries DEF Slot, Phases, Errors
<1>6. /\ s.leased = r.leased /\ s.op = r.op /\ s.msg = r.msg /\ s.todo = r.todo
      /\ s.phase = "failing" /\ s.returned = r.returned
  BY <1>4 DEF Slot
<1> QED BY <1>1, <1>2, <1>3, <1>4, <1>5, <1>6, MoveStep

----------------------------------------------------------------------------
(* Steps of the queue. *)

\* A slot keeps what it holds while its row runs on, or is settled under it.
LEMMA SlotStays ==
  ASSUME NEW x \in Workers, SlotHolds(worker[x]), applied \subseteq applied',
         worker'[x].phase = worker[x].phase /\ worker'[x].op = worker[x].op,
         worker'[x].leased =>
           /\ worker'[x] = worker[x]
           /\ worker[x].op \in Ops /\ status[worker[x].op] \in {"processing"} \cup Settled =>
                \/ status'[worker[x].op] \in Settled
                \/ /\ status'[worker[x].op] = status[worker[x].op]
                   /\ results'[worker[x].op] = results[worker[x].op] /\ change'[worker[x].op] = change[worker[x].op]
  PROVE  SlotHolds(worker[x])'
<1>1. worker'[x].phase # "idle" => worker'[x].op \in Ops
  BY DEF SlotHolds
<1>2. CASE worker'[x].leased
  <2>1. worker'[x] = worker[x] /\ worker[x].leased /\ worker[x].op \in Ops /\ status[worker[x].op] \in {"processing"} \cup Settled
    BY <1>2 DEF SlotHolds
  <2>2. CASE status'[worker[x].op] \in Settled
    <3>1. "processing" \notin Settled
      BY DEF Settled
    <3> QED BY <1>1, <2>1, <2>2, <3>1 DEF SlotHolds
  <2>3. CASE /\ status'[worker[x].op] = status[worker[x].op]
             /\ results'[worker[x].op] = results[worker[x].op] /\ change'[worker[x].op] = change[worker[x].op]
    BY <1>1, <2>1, <2>3 DEF SlotHolds, Selected
  <2> QED BY <1>2, <2>1, <2>2, <2>3
<1>3. CASE ~worker'[x].leased
  BY <1>1, <1>3 DEF SlotHolds
<1> QED BY <1>2, <1>3

LEMMA AcceptInv ==
  ASSUME MutationInv, NEW c \in Changes, NEW origin \in 0..MaxOps, Accept(c, origin)
  PROVE  MutationInv'
<1>0. TypeOK
  BY DEF MutationInv
<1>1. PICK o \in Ops :
        /\ status[o] = "free" /\ \A p \in Ops : p < o => status[p] # "free"
        /\ status' = [status EXCEPT ![o] = "pending"]
        /\ change' = [change EXCEPT ![o] = c]
        /\ before' = [before EXCEPT ![o] = [m \in DOMAIN c |-> visible[m]]]
        /\ reverts' = [reverts EXCEPT ![o] = origin]
        /\ gen' = [gen EXCEPT ![o] = account.gen]
  BY DEF Accept
<1>2. /\ Connected /\ Reproject(DOMAIN c)
      /\ UNCHANGED <<account, results, attempts, fresh, waiting, confirmed, worker, applied>>
  BY DEF Accept
<1>3. \A p \in Ops : /\ status'[p] = IF p = o THEN "pending" ELSE status[p]
                     /\ change'[p] = IF p = o THEN c ELSE change[p]
                     /\ gen'[p] = IF p = o THEN account.gen ELSE gen[p]
  BY <1>0, <1>1 DEF TypeOK
<1>4. TypeOK'
  <2>1. change' \in [Ops -> Changes]
    BY <1>0, <1>1 DEF TypeOK
  <2>2. [m \in DOMAIN c |-> visible[m]] \in Changes
    <3>1. [m \in DOMAIN c |-> visible[m]] \in [DOMAIN c -> Values]
      BY <1>0, ChangeTypes DEF TypeOK
    <3> QED BY <3>1, ChangeTypes DEF Changes
  <2>3. visible' \in [Messages -> Values] /\ unmoved' \subseteq Ops \X Messages /\ unsaved' \subseteq Ops \X Messages
    BY <1>0, <1>2, <2>1, ReprojectType DEF TypeOK
  <2>4. account.gen \in Nat
    BY <1>0 DEF TypeOK, Accounts
  <2>5. status' \in [Ops -> {"free"} \cup Live \cup Settled]
    BY <1>0, <1>1 DEF TypeOK, Live
  <2>6. before' \in [Ops -> Changes] /\ reverts' \in [Ops -> 0..MaxOps] /\ gen' \in [Ops -> Nat]
    BY <1>0, <1>1, <2>2, <2>4 DEF TypeOK
  <2> QED BY <1>0, <1>2, <2>1, <2>3, <2>5, <2>6 DEF TypeOK
<1>5. LeasesHold'
  BY <1>1, <1>2, <1>3 DEF MutationInv, LeasesHold, WithStatus
<1>6. SlotsHold'
  <2>1. ASSUME NEW q \in Ops, status[q] \in {"processing"} \cup Settled PROVE q # o
    BY <1>1, <2>1 DEF Settled
  <2> QED BY <1>2, <1>3, <2>1, SlotStays DEF MutationInv, SlotsHold
<1>7. OrderHolds'
  <2>1. \A p, q \in Ops : status'[p] = "free" /\ p < q => status'[q] = "free"
    BY <1>1, <1>3 DEF MutationInv, OrderHolds
  <2>2. \A p \in Ops : status'[p] = "free" => results'[p] = [m \in Messages |-> "none"]
    BY <1>1, <1>2, <1>3 DEF MutationInv, OrderHolds
  <2>3. ASSUME NEW p \in Ops, NEW q \in Ops, status'[p] = "processing", status'[q] \in Live, q < p
        PROVE  ~Overlap(p, q)'
    <3>1. p # o /\ q # o
      BY <1>1, <1>3, <2>3 DEF MutationInv, OrderHolds
    <3>2. status[p] = "processing" /\ status[q] \in Live
      BY <1>3, <2>3, <3>1
    <3>3. ~Overlap(p, q)
      BY <2>3, <3>2 DEF MutationInv, OrderHolds, RunsInOrder, WithStatus, LiveOps
    <3> QED BY <1>3, <3>1, <3>3 DEF Overlap, Selected
  <2> QED BY <2>1, <2>2, <2>3 DEF OrderHolds, RunsInOrder, WithStatus, LiveOps
<1>8. MovesHold'
  <2> SUFFICES ASSUME NEW p \in Ops, NEW m \in Messages, <<p, m>> \in unmoved'
               PROVE  /\ m \in Selected(p)' /\ results'[p][m] = "succeeded" /\ confirmed'[m] = change'[p][m]
                      /\ \A q \in LiveOps' : q < p => ~Overlap(p, q)'
    BY DEF MovesHold
  <2>1. <<p, m>> \in unmoved
    BY <1>2 DEF Reproject, Project
  <2>2. /\ m \in Selected(p) /\ results[p][m] = "succeeded" /\ confirmed[m] = change[p][m]
        /\ \A q \in LiveOps : q < p => ~Overlap(p, q)
    BY <2>1 DEF MutationInv, MovesHold
  <2>3. status[p] # "free"
    BY <2>2 DEF MutationInv, OrderHolds
  <2>4. p # o /\ ~ (o < p)
    BY <1>1, <2>3 DEF MutationInv, OrderHolds
  <2> QED BY <1>2, <1>3, <2>2, <2>4 DEF LiveOps, Overlap, Selected
<1>9. SuccessIsReal'
  BY <1>1, <1>2, <1>3 DEF MutationInv, SuccessIsReal, WithStatus, Selected
<1>10. LiveMutationsAreClaimable'
  BY <1>2, <1>3 DEF MutationInv, LiveMutationsAreClaimable, LiveOps, Connected
<1>11. ASSUME NEW m \in Messages PROVE Shown(m)'
  <2>1. CASE m \in DOMAIN c
    BY <1>0, <1>2, <2>1, ReprojectShows
  <2>2. CASE m \notin DOMAIN c
    <3>1. status[o] \notin Live /\ status[o] \notin Settled
      BY <1>1 DEF Live, Settled
    <3>2. Queued(m)' = Queued(m)
      BY <1>2, <1>3, <2>2, <3>1 DEF Queued, LiveOps, Selected
    <3>3. \A p \in Showing(m) : change'[p] = change[p]
      BY <1>3, <3>1 DEF Showing, Queued, LiveOps, MutationInv, UnsavedHolds
    <3>4. visible'[m] = visible[m] /\ \A p \in Ops : <<p, m>> \in unsaved' <=> <<p, m>> \in unsaved
      BY <1>0, <1>2, <2>2, ReprojectShows
    <3>5. confirmed'[m] = confirmed[m]
      BY <1>2
    <3> QED BY <3>2, <3>3, <3>4, <3>5, ShownKept DEF MutationInv
  <2> QED BY <2>1, <2>2
<1>12. UnsavedHolds'
  <2>1. \A p \in Ops : status[p] \in Settled => status'[p] \in Settled
    BY <1>1, <1>3 DEF Settled
  <2> QED BY <1>0, <1>2, <1>4, <2>1, UnsavedStays DEF MutationInv, Reproject, Project
<1> QED BY <1>4, <1>5, <1>6, <1>7, <1>8, <1>9, <1>10, <1>11, <1>12 DEF MutationInv

\* Work of the queue is cancelled.
LEMMA WithdrawInv ==
  ASSUME MutationInv, NEW S, S \subseteq LiveOps, Withdraw(S), account' \in Accounts, gen' \in [Ops -> Nat],
         \A o \in LiveOps \ S : gen'[o] = account'.gen /\ account'.status # "disconnected"
  PROVE  MutationInv'
<1> DEFINE T == UNION {Selected(o) : o \in S}
<1>0. TypeOK
  BY DEF MutationInv
<1>1. /\ Reproject(T) /\ status' = Saved(S, "cancelled") /\ fresh' = fresh \ S /\ waiting' = waiting \ S
      /\ UNCHANGED <<change, before, reverts, results, attempts, confirmed, worker, applied>>
  BY DEF Withdraw, payloads
<1>2. \A p \in Ops : status'[p] = IF p \in S THEN "cancelled" ELSE status[p]
  BY <1>1 DEF Saved
<1>3. "cancelled" \in Settled /\ "cancelled" \notin Live
  BY DEF Settled, Live
<1>4. TypeOK'
  <2>1. visible' \in [Messages -> Values] /\ unmoved' \subseteq Ops \X Messages /\ unsaved' \subseteq Ops \X Messages
    BY <1>0, <1>1, ReprojectType DEF TypeOK
  <2>2. status' \in [Ops -> {"free"} \cup Live \cup Settled]
    BY <1>0, <1>1, <1>3 DEF TypeOK, Saved
  <2> QED BY <1>0, <1>1, <2>1, <2>2 DEF TypeOK
<1>5. LeasesHold'
  <2>1. fresh' \subseteq WithStatus("processing")'
    BY <1>1, <1>2 DEF MutationInv, LeasesHold, WithStatus
  <2>2. \A x \in Workers : worker[x].leased => worker[x].op \in Ops
    BY DEF MutationInv, SlotsHold, SlotHolds
  <2> QED BY <1>1, <1>2, <2>1, <2>2 DEF MutationInv, LeasesHold
<1>6. SlotsHold'
  BY <1>1, <1>2, <1>3, SlotStays DEF MutationInv, SlotsHold
<1>7. OrderHolds'
  <2>1. \A p \in S : status[p] # "free"
    BY DEF LiveOps, Live
  <2>2. \A p, q \in Ops : status'[p] = "free" /\ p < q => status'[q] = "free"
    BY <1>2, <2>1 DEF MutationInv, OrderHolds
  <2>3. \A p \in Ops : status'[p] = "free" => results'[p] = [m \in Messages |-> "none"]
    BY <1>1, <1>2, <2>1 DEF MutationInv, OrderHolds
  <2> QED BY <1>1, <1>2, <1>3, <2>2, <2>3 DEF MutationInv, OrderHolds, RunsInOrder, WithStatus, LiveOps, Overlap, Selected
<1>8. MovesHold'
  BY <1>1, <1>2, <1>3 DEF MutationInv, MovesHold, Reproject, Project, LiveOps, Overlap, Selected
<1>9. SuccessIsReal'
  BY <1>1, <1>2, <1>3 DEF MutationInv, SuccessIsReal, WithStatus, Selected
<1>10. LiveMutationsAreClaimable'
  BY <1>2, <1>3 DEF LiveMutationsAreClaimable, LiveOps
<1>11. ASSUME NEW m \in Messages PROVE Shown(m)'
  <2>1. CASE m \in T
    BY <1>0, <1>1, <2>1, ReprojectShows
  <2>2. CASE m \notin T
    <3>1. Queued(m)' = Queued(m)
      BY <1>1, <1>2, <1>3, <2>2 DEF Queued, LiveOps, Selected
    <3>2. visible'[m] = visible[m] /\ \A p \in Ops : <<p, m>> \in unsaved' <=> <<p, m>> \in unsaved
      BY <1>0, <1>1, <2>2, ReprojectShows
    <3> QED BY <1>1, <3>1, <3>2, ShownKept DEF MutationInv
  <2> QED BY <2>1, <2>2
<1>12. UnsavedHolds'
  <2>1. \A p \in Ops : status[p] \in Settled => status'[p] \in Settled
    BY <1>2, <1>3
  <2> QED BY <1>0, <1>1, <2>1, UnsavedStays DEF MutationInv, Reproject, Project
<1> QED BY <1>4, <1>5, <1>6, <1>7, <1>8, <1>9, <1>10, <1>11, <1>12 DEF MutationInv

\* Running rows are queued again.
LEMMA RequeueInv ==
  ASSUME MutationInv, NEW S, S \subseteq WithStatus("processing"), status' = Saved(S, "pending"), Requeued(S),
         UNCHANGED <<payloads, results, attempts, mail, applied>>, account' \in Accounts, gen' \in [Ops -> Nat],
         \A o \in LiveOps : gen'[o] = account'.gen /\ account'.status # "disconnected"
  PROVE  MutationInv'
<1> USE DEF payloads, mail
<1>0. TypeOK
  BY DEF MutationInv
<1>1. \A o \in Ops : /\ status'[o] = IF o \in S THEN "pending" ELSE status[o]
                     /\ o \in S => status[o] = "processing"
  BY DEF Saved, WithStatus
<1>2. LiveOps' = LiveOps
  BY <1>1 DEF LiveOps, Live
<1>3. /\ fresh' = fresh \ S /\ waiting' = waiting \ S
      /\ worker' = [x \in Workers |-> IF worker[x].op \in S THEN [worker[x] EXCEPT !.leased = FALSE] ELSE worker[x]]
  BY DEF Requeued
<1>4. \A x \in Workers : /\ [worker[x] EXCEPT !.leased = FALSE] \in Slot
                         /\ [worker[x] EXCEPT !.leased = FALSE].leased = FALSE
                         /\ [worker[x] EXCEPT !.leased = FALSE].op = worker[x].op
                         /\ [worker[x] EXCEPT !.leased = FALSE].phase = worker[x].phase
  <2> SUFFICES ASSUME NEW r \in Slot
               PROVE  /\ [r EXCEPT !.leased = FALSE] \in Slot
                      /\ [r EXCEPT !.leased = FALSE].leased = FALSE
                      /\ [r EXCEPT !.leased = FALSE].op = r.op
                      /\ [r EXCEPT !.leased = FALSE].phase = r.phase
    BY <1>0 DEF TypeOK
  <2> QED BY DEF Slot
<1>5. \A x \in Workers : /\ worker'[x] \in Slot /\ worker'[x].op = worker[x].op /\ worker'[x].phase = worker[x].phase
                         /\ worker'[x].leased => worker[x].op \notin S /\ worker'[x] = worker[x]
  <2> SUFFICES ASSUME NEW x \in Workers
               PROVE  /\ worker'[x] \in Slot /\ worker'[x].op = worker[x].op /\ worker'[x].phase = worker[x].phase
                      /\ worker'[x].leased => worker[x].op \notin S /\ worker'[x] = worker[x]
    OBVIOUS
  <2>1. worker[x] \in Slot
    BY <1>0 DEF TypeOK
  <2>2. worker'[x] = IF worker[x].op \in S THEN [worker[x] EXCEPT !.leased = FALSE] ELSE worker[x]
    BY <1>3
  <2>3. CASE worker[x].op \in S
    BY <1>4, <2>2, <2>3
  <2>4. CASE worker[x].op \notin S
    BY <2>1, <2>2, <2>4
  <2> QED BY <2>3, <2>4
<1>6. TypeOK'
  <2>1. status' \in [Ops -> {"free"} \cup Live \cup Settled]
    BY <1>0 DEF TypeOK, Saved, Live
  <2>2. worker' \in [Workers -> Slot]
    BY <1>3, <1>5
  <2> QED BY <1>0, <1>3, <2>1, <2>2 DEF TypeOK
<1>7. LeasesHold'
  <2>1. fresh' \subseteq WithStatus("processing")'
    BY <1>1, <1>3 DEF MutationInv, LeasesHold, WithStatus
  <2>2. \A x \in Workers : worker[x].leased => worker[x].op \in Ops
    BY DEF MutationInv, SlotsHold, SlotHolds
  <2> QED BY <1>1, <1>5, <2>1, <2>2 DEF MutationInv, LeasesHold
<1>8. SlotsHold'
  BY <1>1, <1>5, SlotStays DEF MutationInv, SlotsHold
<1>9. OrderHolds'
  BY <1>1, <1>2 DEF MutationInv, OrderHolds, RunsInOrder, WithStatus, Overlap, Selected
<1>10. MovesHold'
  BY <1>2 DEF MutationInv, MovesHold, Overlap, Selected
<1>11. SuccessIsReal'
  BY <1>1 DEF MutationInv, SuccessIsReal, WithStatus, Selected
<1>12. LiveMutationsAreClaimable'
  BY <1>2 DEF LiveMutationsAreClaimable
<1>13. ASSUME NEW m \in Messages PROVE Shown(m)'
  <2>1. Queued(m)' = Queued(m)
    BY <1>2 DEF Queued, Selected
  <2> QED BY <2>1, ShownKept DEF MutationInv
<1>14. UnsavedHolds'
  <2>1. \A p \in Ops : status[p] \in Settled => status'[p] \in Settled
    BY <1>1 DEF Settled
  <2> QED BY <1>0, <2>1, UnsavedStays DEF MutationInv
<1> QED BY <1>6, <1>7, <1>8, <1>9, <1>10, <1>11, <1>12, <1>13, <1>14 DEF MutationInv

LEMMA ClaimInv ==
  ASSUME MutationInv, NEW w \in Workers, NEW o \in Ops, Claim(w, o)
  PROVE  MutationInv'
<1> USE DEF payloads, mail
<1>0. TypeOK
  BY DEF MutationInv
<1>1. status[o] = "pending" /\ ~Blocked(o)
  BY DEF Claim, Candidates, Due, WithStatus
<1>2. /\ status' = [status EXCEPT ![o] = "processing"]
      /\ attempts' = [attempts EXCEPT ![o] = IF @ < RetryLimit THEN @ + 1 ELSE @]
      /\ fresh' = fresh \cup {o}
      /\ UNCHANGED <<account, payloads, results, gen, waiting, mail, applied>>
  BY DEF Claim
<1>3. PICK s : /\ worker' = [worker EXCEPT ![w] = s]
               /\ s = [Idle EXCEPT !.phase = "claimed", !.op = o, !.leased = TRUE]
  BY DEF Claim
<1>4. s \in Slot /\ s.phase = "claimed" /\ s.op = o /\ s.leased /\ s.todo = {} /\ ~s.returned
  <2>1. o \in 0..MaxOps
    BY MutationAssumption DEF Ops
  <2>2. PICK i \in Slot : i = Idle /\ i.todo = {} /\ i.returned = FALSE
    BY IdleSlot DEF Idle
  <2>3. s = [i EXCEPT !.phase = "claimed", !.op = o, !.leased = TRUE]
    BY <1>3, <2>2
  <2> QED BY <2>1, <2>2, <2>3 DEF Slot, Phases
<1>5. \A x \in Workers : worker'[x] = IF x = w THEN s ELSE worker[x]
  BY <1>0, <1>3 DEF TypeOK
<1>6. \A p \in Ops : status'[p] = IF p = o THEN "processing" ELSE status[p]
  BY <1>0, <1>2 DEF TypeOK
<1>7. \A x \in Workers : worker[x].leased => worker[x].op \in Ops /\ worker[x].op # o
  BY <1>1 DEF MutationInv, SlotsHold, SlotHolds, Settled
<1>8. LiveOps' = LiveOps
  BY <1>1, <1>6 DEF LiveOps, Live
<1>9. TypeOK'
  <2>1. status' \in [Ops -> {"free"} \cup Live \cup Settled]
    BY <1>0, <1>2 DEF TypeOK, Live
  <2>2. attempts' \in [Ops -> 0..RetryLimit]
    BY <1>0, <1>2, MutationAssumption DEF TypeOK
  <2>3. worker' \in [Workers -> Slot] /\ fresh' \subseteq Ops
    BY <1>0, <1>2, <1>3, <1>4 DEF TypeOK
  <2> QED BY <1>0, <1>2, <2>1, <2>2, <2>3 DEF TypeOK
<1>10. LeasesHold'
  <2>1. fresh' \subseteq WithStatus("processing")'
    BY <1>2, <1>6 DEF MutationInv, LeasesHold, WithStatus
  <2> QED BY <1>4, <1>5, <1>6, <1>7, <2>1 DEF MutationInv, LeasesHold
<1>11. SlotsHold'
  <2> SUFFICES ASSUME NEW x \in Workers PROVE SlotHolds(worker[x])'
    BY DEF SlotsHold
  <2>1. CASE x = w
    BY <1>4, <1>5, <1>6, <2>1 DEF SlotHolds
  <2>2. CASE x # w
    BY <1>2, <1>5, <1>6, <1>7, <2>2, SlotStays DEF MutationInv, SlotsHold
  <2> QED BY <2>1, <2>2
<1>12. OrderHolds'
  <2>1. \A p, q \in Ops : status'[p] = "free" /\ p < q => status'[q] = "free"
    BY <1>1, <1>6 DEF MutationInv, OrderHolds
  <2>2. \A p \in Ops : status'[p] = "free" => results'[p] = [m \in Messages |-> "none"]
    BY <1>2, <1>6 DEF MutationInv, OrderHolds
  <2>3. ASSUME NEW p \in Ops, NEW q \in LiveOps, status'[p] = "processing", q < p PROVE ~Overlap(p, q)
    <3>1. CASE p = o
      BY <1>1, <2>3, <3>1 DEF Blocked, Overlap
    <3>2. CASE p # o
      BY <1>6, <2>3, <3>2 DEF MutationInv, OrderHolds, RunsInOrder, WithStatus
    <3> QED BY <3>1, <3>2
  <2> QED BY <1>2, <1>8, <2>1, <2>2, <2>3 DEF OrderHolds, RunsInOrder, WithStatus, Overlap, Selected
<1>13. MovesHold'
  BY <1>2, <1>8 DEF MutationInv, MovesHold, Overlap, Selected
<1>14. SuccessIsReal'
  BY <1>2, <1>6 DEF MutationInv, SuccessIsReal, WithStatus, Selected
<1>15. LiveMutationsAreClaimable'
  BY <1>2, <1>8 DEF MutationInv, LiveMutationsAreClaimable
<1>16. ASSUME NEW m \in Messages PROVE Shown(m)'
  <2>1. Queued(m)' = Queued(m)
    BY <1>2, <1>8 DEF Queued, Selected
  <2> QED BY <1>2, <2>1, ShownKept DEF MutationInv
<1>17. UnsavedHolds'
  <2>1. \A p \in Ops : status[p] \in Settled => status'[p] \in Settled
    BY <1>1, <1>6 DEF Settled
  <2> QED BY <1>0, <1>2, <2>1, UnsavedStays DEF MutationInv
<1> QED BY <1>9, <1>10, <1>11, <1>12, <1>13, <1>14, <1>15, <1>16, <1>17 DEF MutationInv

----------------------------------------------------------------------------
(* Steps of the holder of a lease. *)

LEMMA OwnerHolds ==
  ASSUME MutationInv, NEW w \in Workers, NEW r, r = worker[w], Owns(w)
  PROVE  /\ r.op \in Ops /\ r.leased /\ status[r.op] = "processing"
         /\ \A x \in Workers : x # w /\ worker[x].leased => worker[x].op \in Ops /\ worker[x].op # r.op
BY DEF Owns, MutationInv, LeasesHold, SlotsHold, SlotHolds

\* A message gets its result.
LEMMA ResultStep ==
  ASSUME MutationInv, NEW w \in Workers, NEW r \in Slot, r = worker[w], Owns(w), r.phase \in {"answered", "erring"},
         NEW s \in Slot, worker' = [worker EXCEPT ![w] = s],
         s.phase = "next", s.leased = r.leased, s.op = r.op, s.todo = r.todo, ~s.returned,
         NEW x \in {"succeeded", "failed", "doubtful"}, results' = [results EXCEPT ![r.op][r.msg] = x],
         NEW v \in Values, confirmed' = [confirmed EXCEPT ![r.msg] = v],
         x = "succeeded" => r.phase = "answered" /\ v = change[r.op][r.msg],
         visible' \in [Messages -> Values],
         \A n \in Messages : visible'[n] = IF n = r.msg THEN Projected(r.msg)' ELSE visible[n],
         \A u \in unmoved' : \/ u \in unmoved /\ u[2] # r.msg
                             \/ x = "succeeded" /\ u = <<r.op, r.msg>>,
         unsaved' = {u \in unsaved : u[2] # r.msg},
         UNCHANGED <<account, status, payloads, leases, applied>>
  PROVE  MutationInv'
<1> USE DEF payloads, leases
<1>0. TypeOK /\ r.msg \in Messages
  BY DEF MutationInv, Slot
<1>1. /\ r.op \in Ops /\ r.leased /\ status[r.op] = "processing"
      /\ \A y \in Workers : y # w /\ worker[y].leased => worker[y].op \in Ops /\ worker[y].op # r.op
  BY OwnerHolds
<1>2. /\ SlotHolds(r) /\ r.msg \in Selected(r.op) /\ r.msg \notin r.todo /\ results[r.op][r.msg] = "none"
      /\ x = "succeeded" => <<r.op, r.msg>> \in applied
      /\ \A m \in Selected(r.op) : \/ m \in r.todo \/ results[r.op][m] # "none"
                                  \/ <<r.op, m>> \in applied \/ m = r.msg
  BY <1>1 DEF MutationInv, SlotsHold, SlotHolds
<1>3. \A o \in Ops, m \in Messages : results'[o][m] = IF o = r.op /\ m = r.msg THEN x ELSE results[o][m]
  BY <1>0, <1>1 DEF TypeOK
<1>4. \A o \in Ops : o # r.op => results'[o] = results[o]
  BY <1>0, <1>1 DEF TypeOK
<1>5. \A m \in Messages : confirmed'[m] = IF m = r.msg THEN v ELSE confirmed[m]
  BY <1>0 DEF TypeOK
<1>6. \A y \in Workers : worker'[y] = IF y = w THEN s ELSE worker[y]
  BY <1>0 DEF TypeOK
<1>7. TypeOK'
  <2>1. results' \in [Ops -> [Messages -> {"none", "succeeded", "failed", "doubtful"}]]
    BY <1>0, <1>1 DEF TypeOK
  <2>2. confirmed' \in [Messages -> Values] /\ worker' \in [Workers -> Slot]
    BY <1>0 DEF TypeOK
  <2>3. unmoved' \subseteq Ops \X Messages
    BY <1>0, <1>1 DEF TypeOK
  <2> QED BY <1>0, <2>1, <2>2, <2>3 DEF TypeOK
<1>8. LeasesHold'
  BY <1>6 DEF MutationInv, LeasesHold, WithStatus
<1>9. SlotsHold'
  <2> SUFFICES ASSUME NEW y \in Workers PROVE SlotHolds(worker[y])'
    BY DEF SlotsHold
  <2>1. CASE y = w
    <3>1. \A m \in r.todo : m \in Messages /\ m # r.msg /\ results[r.op][m] = "none" /\ m \in Selected(r.op)
      BY <1>1, <1>2 DEF SlotHolds, Slot
    <3>2. \A m \in r.todo : results'[r.op][m] = "none"
      BY <1>1, <1>3, <3>1
    <3>3. \A m \in Selected(r.op) : m \in Messages
      BY <1>0, <1>1, ChangeTypes DEF Selected, TypeOK
    <3>4. \A m \in Selected(r.op) : m \in r.todo \/ results'[r.op][m] # "none" \/ <<r.op, m>> \in applied
      BY <1>1, <1>2, <1>3, <3>3
    <3>5. worker'[y] = s /\ Selected(r.op)' = Selected(r.op)
      BY <1>6, <2>1 DEF Selected
    <3> QED BY <1>1, <3>1, <3>2, <3>4, <3>5 DEF SlotHolds
  <2>2. CASE y # w
    BY <1>1, <1>4, <1>6, <2>2, SlotStays DEF MutationInv, SlotsHold
  <2> QED BY <2>1, <2>2
<1>10. OrderHolds'
  BY <1>1, <1>4 DEF MutationInv, OrderHolds, RunsInOrder, WithStatus, LiveOps, Overlap, Selected
<1>11. MovesHold'
  <2> SUFFICES ASSUME NEW o \in Ops, NEW m \in Messages, <<o, m>> \in unmoved'
               PROVE  /\ m \in Selected(o) /\ results'[o][m] = "succeeded" /\ confirmed'[m] = change[o][m]
                      /\ \A q \in LiveOps : q < o => ~Overlap(o, q)
    BY DEF MovesHold, LiveOps, Overlap, Selected
  <2>1. CASE <<o, m>> \in unmoved /\ m # r.msg
    BY <1>3, <1>5, <2>1 DEF MutationInv, MovesHold
  <2>2. CASE x = "succeeded" /\ o = r.op /\ m = r.msg
    BY <1>1, <1>2, <1>3, <1>5, <2>2 DEF MutationInv, OrderHolds, RunsInOrder, WithStatus
  <2> QED BY <2>1, <2>2
<1>12. SuccessIsReal'
  <2>1. \A o \in Ops, m \in Messages : results'[o][m] = "succeeded" => <<o, m>> \in applied
    BY <1>2, <1>3 DEF MutationInv, SuccessIsReal
  <2>2. \A o \in Ops : status[o] = "succeeded" => \A m \in Selected(o) : results'[o][m] = "succeeded"
    BY <1>1, <1>4 DEF MutationInv, SuccessIsReal, WithStatus
  <2> QED BY <2>1, <2>2 DEF SuccessIsReal, WithStatus, Selected
<1>13. LiveMutationsAreClaimable'
  BY LiveStays DEF MutationInv
<1>14. ASSUME NEW m \in Messages PROVE Shown(m)'
  <2>1. CASE m = r.msg
    <3>1. Showing(m)' = Queued(m)'
      BY <2>1 DEF Showing
    <3> QED BY <2>1, <3>1, ProjectedIs DEF Shown
  <2>2. CASE m # r.msg
    <3>1. \A o \in Ops : results'[o][m] = results[o][m]
      BY <1>3, <2>2
    <3>2. Queued(m)' = Queued(m)
      BY <3>1 DEF Queued, LiveOps, Selected
    <3> QED BY <1>5, <2>2, <3>2, ShownKept DEF MutationInv
  <2> QED BY <2>1, <2>2
<1>15. UnsavedHolds'
  BY <1>0, UnsavedStays DEF MutationInv
<1> QED BY <1>7, <1>8, <1>9, <1>10, <1>11, <1>12, <1>13, <1>14, <1>15 DEF MutationInv

LEMMA ReceiptInv ==
  ASSUME MutationInv, NEW w \in Workers, Receipt(w)
  PROVE  MutationInv'
<1>0. TypeOK
  BY DEF MutationInv
<1>1. PICK r \in Slot : r = worker[w]
  BY <1>0 DEF TypeOK
<1>2. r.phase = "answered" /\ UNCHANGED <<account, status, payloads, leases, applied>>
  BY <1>1 DEF Receipt
<1>2a. worker' = [worker EXCEPT ![w] = [r EXCEPT !.phase = "next", !.returned = FALSE]]
  BY <1>1 DEF Receipt
<1>3. PICK s : /\ worker' = [worker EXCEPT ![w] = s]
               /\ s = [r EXCEPT !.phase = "next", !.returned = FALSE]
  BY <1>2a
<1>4. s \in Slot
  BY <1>3 DEF Slot, Phases
<1>5. /\ s.leased = r.leased /\ s.op = r.op /\ s.msg = r.msg /\ s.todo = r.todo
      /\ s.phase = "next" /\ ~s.returned
  BY <1>3 DEF Slot
<1>6. CASE UNCHANGED <<results, mail>>
  BY <1>1, <1>2, <1>3, <1>4, <1>5, <1>6, SkipStep
<1>7. CASE /\ Owns(w)
           /\ results' = [results EXCEPT ![r.op][r.msg] = "succeeded"]
           /\ confirmed' = [confirmed EXCEPT ![r.msg] = change[r.op][r.msg]]
           /\ visible' = [n \in Messages |-> IF n = r.msg THEN Projected(n)' ELSE visible[n]]
           /\ unmoved' = {u \in unmoved : u[2] # r.msg} \cup {<<r.op, r.msg>>}
           /\ unsaved' = {u \in unsaved : u[2] # r.msg}
  <2>1. r.op \in Ops /\ r.msg \in Messages /\ r.msg \in Selected(r.op)
    BY <1>1, <1>2, <1>7, OwnerHolds DEF MutationInv, SlotsHold, SlotHolds, Slot
  <2>2. PICK v \in Values : v = change[r.op][r.msg]
    <3>1. change[r.op] \in Changes
      BY <1>0, <2>1 DEF TypeOK
    <3> QED BY <2>1, <3>1, ChangeTypes DEF Selected
  <2>3. change' \in [Ops -> Changes] /\ confirmed' \in [Messages -> Values]
    BY <1>0, <1>2, <1>7, <2>1, <2>2 DEF TypeOK, payloads
  <2>4. visible' \in [Messages -> Values]
    BY <1>0, <1>7, <2>1, <2>3, ProjectedType DEF TypeOK
  <2>5. \A n \in Messages : visible'[n] = IF n = r.msg THEN Projected(r.msg)' ELSE visible[n]
    BY <1>7
  <2>6. confirmed' = [confirmed EXCEPT ![r.msg] = v]
    BY <1>7, <2>2
  <2>7. PICK x \in {"succeeded", "failed", "doubtful"} : x = "succeeded"
    OBVIOUS
  <2>8. results' = [results EXCEPT ![r.op][r.msg] = x]
    BY <1>7, <2>7
  <2>9. \A u \in unmoved' : \/ u \in unmoved /\ u[2] # r.msg
                            \/ x = "succeeded" /\ u = <<r.op, r.msg>>
    BY <1>7, <2>7
  <2>10. x = "succeeded" => r.phase = "answered" /\ v = change[r.op][r.msg]
    BY <1>2, <2>2
  <2>11. Owns(w) /\ r.phase \in {"answered", "erring"} /\ unsaved' = {u \in unsaved : u[2] # r.msg}
    BY <1>2, <1>7
  <2> QED BY <1>1, <1>2, <1>3, <1>4, <1>5, <2>2, <2>4, <2>5, <2>6, <2>8, <2>9, <2>10, <2>11, ResultStep
<1>8. \/ UNCHANGED <<results, mail>>
      \/ /\ Owns(w)
         /\ results' = [results EXCEPT ![r.op][r.msg] = "succeeded"]
         /\ confirmed' = [confirmed EXCEPT ![r.msg] = change[r.op][r.msg]]
         /\ visible' = [n \in Messages |-> IF n = r.msg THEN Projected(n)' ELSE visible[n]]
         /\ unmoved' = {u \in unmoved : u[2] # r.msg} \cup {<<r.op, r.msg>>}
         /\ unsaved' = {u \in unsaved : u[2] # r.msg}
  BY <1>1 DEF Receipt
<1> QED BY <1>6, <1>7, <1>8

LEMMA MessageFailsInv ==
  ASSUME MutationInv, NEW w \in Workers, MessageFails(w)
  PROVE  MutationInv'
<1>0. TypeOK
  BY DEF MutationInv
<1>1. PICK r \in Slot : r = worker[w]
  BY <1>0 DEF TypeOK
<1>2. r.phase = "erring" /\ UNCHANGED <<account, status, payloads, leases, applied>>
  BY <1>1 DEF MessageFails
<1>2a. worker' = [worker EXCEPT ![w] = [r EXCEPT !.phase = "next", !.returned = FALSE, !.error = "none"]]
  BY <1>1 DEF MessageFails
<1>3. PICK s : /\ worker' = [worker EXCEPT ![w] = s]
               /\ s = [r EXCEPT !.phase = "next", !.returned = FALSE, !.error = "none"]
  BY <1>2a
<1>4. s \in Slot
  BY <1>3 DEF Slot, Phases, Errors
<1>5. /\ s.leased = r.leased /\ s.op = r.op /\ s.msg = r.msg /\ s.todo = r.todo
      /\ s.phase = "next" /\ ~s.returned
  BY <1>3 DEF Slot
<1>6. CASE ~Owns(w)
  <2>1. UNCHANGED <<results, mail>>
    BY <1>6 DEF MessageFails
  <2> QED BY <1>1, <1>2, <1>3, <1>4, <1>5, <1>6, <2>1, SkipStep
<1>7. CASE Owns(w)
  <2>1. r.op \in Ops /\ r.msg \in Messages /\ r.msg \in Selected(r.op)
    BY <1>1, <1>2, <1>7, OwnerHolds DEF MutationInv, SlotsHold, SlotHolds, Slot
  <2>2. change[r.op][r.msg] \in Values
    <3>1. change[r.op] \in Changes
      BY <1>0, <2>1 DEF TypeOK
    <3> QED BY <2>1, <3>1, ChangeTypes DEF Selected
  <2>3. PICK x \in {"failed", "doubtful"} : results' = [results EXCEPT ![r.op][r.msg] = x]
    BY <1>1, <1>7 DEF MessageFails
  <2>4. confirmed[r.msg] \in Values
    BY <1>0, <2>1 DEF TypeOK
  <2>5. PICK v \in Values : confirmed' = [confirmed EXCEPT ![r.msg] = v]
    BY <1>1, <1>7, <2>2, <2>4 DEF MessageFails
  <2>6. Reproject({r.msg})
    BY <1>1, <1>7 DEF MessageFails
  <2>7. change' \in [Ops -> Changes] /\ confirmed' \in [Messages -> Values]
    BY <1>0, <1>2, <2>1, <2>5 DEF TypeOK, payloads
  <2>8. visible' \in [Messages -> Values]
    BY <1>0, <2>6, <2>7, ReprojectType
  <2>9. /\ \A n \in Messages : visible'[n] = IF n = r.msg THEN Projected(r.msg)' ELSE visible[n]
        /\ unsaved' = {u \in unsaved : u[2] # r.msg}
    BY <2>6 DEF Reproject, Project
  <2>10. \A u \in unmoved' : u \in unmoved /\ u[2] # r.msg
    BY <2>6 DEF Reproject, Project
  <2> QED BY <1>1, <1>2, <1>3, <1>4, <1>5, <1>7, <2>3, <2>5, <2>8, <2>9, <2>10, ResultStep, ZenonT(60)
<1> QED BY <1>6, <1>7

\* An operation ends: what it did not come to or could not record shows in its outcome.
LEMMA SettleStep ==
  ASSUME MutationInv, NEW w \in Workers, NEW r \in Slot, r = worker[w], Owns(w), Rest(w),
         NEW x \in {"succeeded", "partial", "failed"}, status' = [status EXCEPT ![r.op] = x],
         x = "succeeded" => \A m \in Selected(r.op) : results[r.op][m] = "succeeded",
         fresh' = fresh \ {r.op}, visible' \in [Messages -> Values], unmoved' \subseteq unmoved,
         unsaved' \subseteq Ops \X Messages,
         \A u \in unsaved' : u \in unsaved \/ (u[1] = r.op /\ u \in applied),
         \A m \in Messages :
           \/ visible'[m] = Projected(m)' /\ \A o \in Ops : <<o, m>> \notin unsaved'
           \/ /\ visible'[m] = visible[m]
              /\ \A o \in Ops : <<o, m>> \in unsaved' <=>
                   <<o, m>> \in unsaved \/ (o = r.op /\ m \in Selected(o) /\ results[o][m] = "none"),
         UNCHANGED <<account, payloads, results, gen, attempts, waiting, confirmed, applied>>
  PROVE  MutationInv'
<1> USE DEF payloads
<1>0. TypeOK
  BY DEF MutationInv
<1>1. /\ r.op \in Ops /\ r.leased /\ status[r.op] = "processing"
      /\ \A y \in Workers : y # w /\ worker[y].leased => worker[y].op \in Ops /\ worker[y].op # r.op
  BY OwnerHolds
<1>2. \A o \in Ops : status'[o] = IF o = r.op THEN x ELSE status[o]
  BY <1>0 DEF TypeOK
<1>3. x \in Settled /\ x \notin Live /\ "processing" \in Live /\ "processing" \notin Settled
  BY DEF Settled, Live
<1>4. \A y \in Workers : worker'[y] = IF y = w THEN Idle ELSE worker[y]
  BY <1>0 DEF TypeOK, Rest
<1>5. LiveOps' = LiveOps \ {r.op}
  BY <1>2, <1>3 DEF LiveOps
<1>6. TypeOK'
  <2>1. status' \in [Ops -> {"free"} \cup Live \cup Settled]
    BY <1>0, <1>3 DEF TypeOK
  <2>2. worker' \in [Workers -> Slot]
    BY <1>0, IdleSlot DEF TypeOK, Rest
  <2> QED BY <1>0, <2>1, <2>2 DEF TypeOK
<1>7. LeasesHold'
  <2>1. fresh' \subseteq WithStatus("processing")'
    BY <1>2 DEF MutationInv, LeasesHold, WithStatus
  <2>2. \A y \in Workers : worker'[y].leased => y # w
    BY <1>4, IdleSlot
  <2> QED BY <1>1, <1>2, <1>4, <2>1, <2>2 DEF MutationInv, LeasesHold
<1>8. SlotsHold'
  <2> SUFFICES ASSUME NEW y \in Workers PROVE SlotHolds(worker[y])'
    BY DEF SlotsHold
  <2>1. CASE y = w
    BY <1>4, <2>1, IdleSlot DEF SlotHolds
  <2>2. CASE y # w
    BY <1>1, <1>2, <1>4, <2>2, SlotStays DEF MutationInv, SlotsHold
  <2> QED BY <2>1, <2>2
<1>9. OrderHolds'
  BY <1>1, <1>2, <1>3, <1>5 DEF MutationInv, OrderHolds, RunsInOrder, WithStatus, Overlap, Selected, Settled
<1>10. MovesHold'
  BY <1>5 DEF MutationInv, MovesHold, Overlap, Selected
<1>11. SuccessIsReal'
  BY <1>1, <1>2 DEF MutationInv, SuccessIsReal, WithStatus, Selected
<1>12. LiveMutationsAreClaimable'
  BY <1>5 DEF MutationInv, LiveMutationsAreClaimable
<1>13. ASSUME NEW m \in Messages PROVE Shown(m)'
  <2>1. CASE visible'[m] = Projected(m)' /\ \A o \in Ops : <<o, m>> \notin unsaved'
    <3>1. Showing(m)' = Queued(m)'
      BY <2>1 DEF Showing
    <3> QED BY <2>1, <3>1, ProjectedIs DEF Shown
  <2>2. CASE /\ visible'[m] = visible[m]
             /\ \A o \in Ops : <<o, m>> \in unsaved' <=>
                  <<o, m>> \in unsaved \/ (o = r.op /\ m \in Selected(o) /\ results[o][m] = "none")
    <3>1. Queued(m)' = Queued(m) \ {r.op}
      BY <1>5 DEF Queued, Selected
    <3>2. r.op \in LiveOps
      BY <1>1, <1>3 DEF LiveOps
    <3>3. r.op \in Queued(m) <=> m \in Selected(r.op) /\ results[r.op][m] = "none"
      BY <3>2 DEF Queued
    <3>4. Showing(m)' = Showing(m)
      BY <1>1, <2>2, <3>1, <3>3 DEF Showing, Queued, LiveOps
    <3>5. Latest(Showing(m)') = Latest(Showing(m))
      BY <3>4
    <3> QED BY <2>2, <3>4, <3>5 DEF Shown, MutationInv
  <2> QED BY <2>1, <2>2
<1>14. UnsavedHolds'
  <2> SUFFICES ASSUME NEW u \in unsaved' PROVE u \in applied /\ status'[u[1]] \in Settled
    BY DEF UnsavedHolds
  <2>1. u[1] \in Ops
    OBVIOUS
  <2> QED BY <1>2, <1>3, <2>1 DEF MutationInv, UnsavedHolds
<1> QED BY <1>6, <1>7, <1>8, <1>9, <1>10, <1>11, <1>12, <1>13, <1>14 DEF MutationInv

LEMMA FinishInv ==
  ASSUME MutationInv, NEW w \in Workers, Finish(w)
  PROVE  MutationInv'
<1>0. TypeOK
  BY DEF MutationInv
<1>1. PICK r \in Slot : r = worker[w]
  BY <1>0 DEF TypeOK
<1>2. /\ Rest(w) /\ r.phase = "next" /\ r.todo = {}
      /\ UNCHANGED <<account, payloads, results, gen, attempts, waiting, confirmed, visible, unmoved, applied>>
  BY <1>1 DEF Finish
<1>3. CASE Owns(w)
  <2>1. PICK x \in {"succeeded", "partial", "failed"} : x = Verdict(r.op)
    BY DEF Verdict
  <2>2. status' = [status EXCEPT ![r.op] = x] /\ fresh' = fresh \ {r.op}
    BY <1>1, <1>3, <2>1 DEF Finish
  <2>3. x = "succeeded" => \A m \in Selected(r.op) : results[r.op][m] = "succeeded"
    BY <2>1 DEF Verdict
  <2>4. r.op \in Ops /\ Selected(r.op) \subseteq Messages
    BY <1>0, <1>1, <1>3, OwnerHolds, ChangeTypes DEF Selected, TypeOK
  <2>5. \A m \in Selected(r.op) : results[r.op][m] # "none" \/ <<r.op, m>> \in applied
    BY <1>1, <1>2, <1>3, OwnerHolds DEF MutationInv, SlotsHold, SlotHolds
  <2>6. unsaved' = unsaved \cup Unanswered(r.op)
    BY <1>1, <1>3 DEF Finish
  <2>7. \A u \in Unanswered(r.op) : u \in Ops \X Messages /\ u[1] = r.op /\ u \in applied
    BY <2>4, <2>5 DEF Unanswered
  <2>8. \A o \in Ops, m \in Messages :
          <<o, m>> \in Unanswered(r.op) <=> o = r.op /\ m \in Selected(o) /\ results[o][m] = "none"
    BY DEF Unanswered
  <2>9. unsaved' \subseteq Ops \X Messages /\ visible' \in [Messages -> Values] /\ unmoved' \subseteq unmoved
    BY <1>0, <1>2, <2>6, <2>7 DEF TypeOK
  <2>10. \A u \in unsaved' : u \in unsaved \/ (u[1] = r.op /\ u \in applied)
    BY <2>6, <2>7
  <2>11. \A m \in Messages :
           /\ visible'[m] = visible[m]
           /\ \A o \in Ops : <<o, m>> \in unsaved' <=>
                <<o, m>> \in unsaved \/ (o = r.op /\ m \in Selected(o) /\ results[o][m] = "none")
    BY <1>2, <2>6, <2>8
  <2> QED BY <1>1, <1>2, <1>3, <2>2, <2>3, <2>9, <2>10, <2>11, SettleStep
<1>4. CASE ~Owns(w)
  <2>1. UNCHANGED <<account, status, payloads, results, leases, mail, applied>>
    BY <1>2, <1>4 DEF Finish, leases, mail
  <2> QED BY <1>0, <1>2, <2>1, RestStep DEF TypeOK
<1> QED BY <1>3, <1>4

\* An operation waits for its next try.
LEMMA RetryStep ==
  ASSUME MutationInv, NEW w \in Workers, NEW r \in Slot, r = worker[w], Owns(w), Rest(w),
         status' = [status EXCEPT ![r.op] = "pending"], fresh' = fresh \ {r.op}, waiting' = waiting \cup {r.op},
         UNCHANGED <<account, payloads, results, gen, attempts, mail, applied>>
  PROVE  MutationInv'
<1> USE DEF payloads, mail
<1>0. TypeOK
  BY DEF MutationInv
<1>1. /\ r.op \in Ops /\ r.leased /\ status[r.op] = "processing"
      /\ \A y \in Workers : y # w /\ worker[y].leased => worker[y].op \in Ops /\ worker[y].op # r.op
  BY OwnerHolds
<1>2. \A o \in Ops : status'[o] = IF o = r.op THEN "pending" ELSE status[o]
  BY <1>0 DEF TypeOK
<1>3. LiveOps' = LiveOps
  BY <1>1, <1>2 DEF LiveOps, Live
<1>4. \A y \in Workers : worker'[y] = IF y = w THEN Idle ELSE worker[y]
  BY <1>0 DEF TypeOK, Rest
<1>5. TypeOK'
  <2>1. status' \in [Ops -> {"free"} \cup Live \cup Settled]
    BY <1>0 DEF TypeOK, Live
  <2>2. worker' \in [Workers -> Slot] /\ waiting' \subseteq Ops
    BY <1>0, <1>1, IdleSlot DEF TypeOK, Rest
  <2> QED BY <1>0, <2>1, <2>2 DEF TypeOK
<1>6. LeasesHold'
  <2>1. fresh' \subseteq WithStatus("processing")'
    BY <1>2 DEF MutationInv, LeasesHold, WithStatus
  <2>2. \A y \in Workers : worker'[y].leased => y # w
    BY <1>4, IdleSlot
  <2> QED BY <1>1, <1>2, <1>4, <2>1, <2>2 DEF MutationInv, LeasesHold
<1>7. SlotsHold'
  <2> SUFFICES ASSUME NEW y \in Workers PROVE SlotHolds(worker[y])'
    BY DEF SlotsHold
  <2>1. CASE y = w
    BY <1>4, <2>1, IdleSlot DEF SlotHolds
  <2>2. CASE y # w
    BY <1>1, <1>2, <1>4, <2>2, SlotStays DEF MutationInv, SlotsHold
  <2> QED BY <2>1, <2>2
<1>8. OrderHolds'
  BY <1>1, <1>2, <1>3 DEF MutationInv, OrderHolds, RunsInOrder, WithStatus, Overlap, Selected
<1>9. MovesHold'
  BY <1>3 DEF MutationInv, MovesHold, Overlap, Selected
<1>10. SuccessIsReal'
  BY <1>2 DEF MutationInv, SuccessIsReal, WithStatus, Selected
<1>11. LiveMutationsAreClaimable'
  BY <1>3 DEF MutationInv, LiveMutationsAreClaimable
<1>12. ASSUME NEW m \in Messages PROVE Shown(m)'
  <2>1. Queued(m)' = Queued(m)
    BY <1>3 DEF Queued, Selected
  <2> QED BY <2>1, ShownKept DEF MutationInv
<1>13. UnsavedHolds'
  <2>1. \A o \in Ops : status[o] \in Settled => status'[o] \in Settled
    BY <1>1, <1>2 DEF Settled
  <2> QED BY <1>0, <2>1, UnsavedStays DEF MutationInv
<1> QED BY <1>5, <1>6, <1>7, <1>8, <1>9, <1>10, <1>11, <1>12, <1>13 DEF MutationInv

LEMMA FailureRecordedInv ==
  ASSUME MutationInv, NEW w \in Workers, FailureRecorded(w)
  PROVE  MutationInv'
<1>0. TypeOK
  BY DEF MutationInv
<1>1. PICK r \in Slot : r = worker[w]
  BY <1>0 DEF TypeOK
<1>2. Rest(w) /\ UNCHANGED <<account, payloads, results, gen, attempts, confirmed, applied>>
  BY DEF FailureRecorded, RecordFailure
<1>3. CASE ~Owns(w)
  <2>1. UNCHANGED <<account, status, payloads, results, leases, mail, applied>>
    BY <1>2, <1>3 DEF FailureRecorded, RecordFailure, leases, mail
  <2> QED BY <1>0, <1>2, <2>1, RestStep DEF TypeOK
<1>4. CASE Owns(w) /\ MayRetry(w)
  <2>1. /\ status' = [status EXCEPT ![r.op] = "pending"] /\ fresh' = fresh \ {r.op}
        /\ waiting' = waiting \cup {r.op} /\ UNCHANGED mail
    BY <1>1, <1>2, <1>4 DEF FailureRecorded, RecordFailure, mail
  <2> QED BY <1>1, <1>2, <1>4, <2>1, RetryStep
<1>5. CASE Owns(w) /\ ~MayRetry(w)
  <2>1. PICK x \in {"succeeded", "partial", "failed"} : x # "succeeded" /\ status' = [status EXCEPT ![r.op] = x]
    BY <1>1, <1>5 DEF FailureRecorded, RecordFailure
  <2>2. r.op \in Ops /\ Selected(r.op) \subseteq Messages
    BY <1>0, <1>1, <1>5, OwnerHolds, ChangeTypes DEF Selected, TypeOK
  <2>3. fresh' = fresh \ {r.op} /\ UNCHANGED waiting
    BY <1>1, <1>5 DEF FailureRecorded, RecordFailure
  <2>4. PICK U : U = Unsaved(w)
    OBVIOUS
  <2>5. \A m \in U : m \in Selected(r.op) /\ results[r.op][m] = "none" /\ <<r.op, m>> \in applied
    <3>1. U = IF r.returned THEN {r.msg} ELSE {}
      BY <1>1, <2>4 DEF Unsaved
    <3>2. r.returned => r.msg \in Selected(r.op) /\ results[r.op][r.msg] = "none" /\ <<r.op, r.msg>> \in applied
      BY <1>1, <1>5, OwnerHolds DEF MutationInv, SlotsHold, SlotHolds
    <3> QED BY <3>1, <3>2
  <2>6. Project(Selected(r.op) \ U, {<<r.op, m>> : m \in U})
    BY <1>1, <1>5, <2>4 DEF FailureRecorded, RecordFailure
  <2>7. /\ visible' = [m \in Messages |-> IF m \in Selected(r.op) \ U THEN Projected(m)' ELSE visible[m]]
        /\ unmoved' \subseteq unmoved
        /\ unsaved' = {u \in unsaved : u[2] \notin Selected(r.op) \ U} \cup {<<r.op, m>> : m \in U}
    BY <2>6 DEF Project
  <2>8. visible' \in [Messages -> Values]
    <3>1. change' \in [Ops -> Changes] /\ confirmed' \in [Messages -> Values]
      BY <1>0, <1>2 DEF TypeOK, payloads
    <3> QED BY <1>0, <2>7, <3>1, ProjectedType DEF TypeOK
  <2>9. unsaved' \subseteq Ops \X Messages /\ \A u \in unsaved' : u \in unsaved \/ (u[1] = r.op /\ u \in applied)
    BY <1>0, <2>2, <2>5, <2>7 DEF TypeOK
  <2>10. ASSUME NEW m \in Messages
         PROVE  \/ visible'[m] = Projected(m)' /\ \A o \in Ops : <<o, m>> \notin unsaved'
                \/ /\ visible'[m] = visible[m]
                   /\ \A o \in Ops : <<o, m>> \in unsaved' <=>
                        <<o, m>> \in unsaved \/ (o = r.op /\ m \in Selected(o) /\ results[o][m] = "none")
    <3>1. CASE m \in Selected(r.op) \ U
      BY <2>7, <3>1
    <3>2. CASE m \notin Selected(r.op) \ U
      <4>1. visible'[m] = visible[m]
        BY <2>7, <3>2
      <4>2. \A o \in Ops : <<o, m>> \in unsaved' <=> <<o, m>> \in unsaved \/ (o = r.op /\ m \in U)
        BY <2>7, <3>2
      <4> QED BY <2>5, <3>2, <4>1, <4>2
    <3> QED BY <3>1, <3>2
  <2> QED BY <1>1, <1>2, <1>5, <2>1, <2>3, <2>7, <2>8, <2>9, <2>10, SettleStep
<1> QED BY <1>3, <1>4, <1>5

----------------------------------------------------------------------------
(* Time, the account, synchronization. *)

\* Rows, slots and mail stay; leases stay on running rows, live rows on the account.
LEMMA CalmStep ==
  ASSUME MutationInv, UNCHANGED <<status, payloads, results, gen, attempts, mail, worker, applied>>,
         fresh' \subseteq WithStatus("processing"), waiting' \subseteq Ops, account' \in Accounts,
         \A o \in LiveOps : account'.gen = account.gen /\ account'.status # "disconnected"
  PROVE  MutationInv'
<1> USE DEF payloads, mail
<1>1. TypeOK'
  BY DEF MutationInv, TypeOK, WithStatus
<1>2. LeasesHold'
  BY DEF MutationInv, LeasesHold, WithStatus
<1>3. SlotsHold'
  BY DEF MutationInv, SlotsHold, SlotHolds, Selected
<1>4. LiveMutationsAreClaimable'
  BY DEF MutationInv, LiveMutationsAreClaimable, LiveOps
<1>5. UnsavedHolds'
  BY UnsavedStays DEF MutationInv
<1> QED BY <1>1, <1>2, <1>3, <1>4, <1>5, ShownStays, OrderStays, MovesStay, SuccessStays DEF MutationInv

LEMMA TimeInv ==
  ASSUME MutationInv, TimeStep
  PROVE  MutationInv'
<1> USE DEF leases
<1>0. /\ account \in Accounts /\ fresh \subseteq WithStatus("processing") /\ waiting \subseteq Ops
      /\ \A o \in LiveOps : account.status # "disconnected"
  BY DEF MutationInv, TypeOK, LeasesHold, LiveMutationsAreClaimable
<1>1. ASSUME NEW o \in Ops, TimeUp(o) PROVE MutationInv'
  BY <1>0, <1>1, CalmStep DEF TimeUp
<1>2. ASSUME NEW o \in Ops, LeaseExpires(o) PROVE MutationInv'
  BY <1>0, <1>2, CalmStep DEF LeaseExpires
<1>3. ASSUME NEW w \in Workers, Heartbeat(w) PROVE MutationInv'
  BY <1>0, <1>3, CalmStep DEF Heartbeat, Owns, WithStatus
<1> QED BY <1>1, <1>2, <1>3 DEF TimeStep

LEMMA CallerInv ==
  ASSUME MutationInv, CallerStep
  PROVE  MutationInv'
<1>1. ASSUME NEW c \in Changes, Mutate(c) PROVE MutationInv'
  BY <1>1, AcceptInv, MutationAssumption DEF Mutate
<1>2. ASSUME NEW o \in Ops, Cancel(o) PROVE MutationInv'
  <2>1. account \in Accounts /\ gen \in [Ops -> Nat]
    BY DEF MutationInv, TypeOK
  <2>2. {o} \subseteq LiveOps
    BY <1>2 DEF Cancel, LiveOps, Live
  <2> QED BY <1>2, <2>1, <2>2, WithdrawInv DEF Cancel, MutationInv, LiveMutationsAreClaimable
<1>3. ASSUME NEW o \in Ops, Undo(o) PROVE MutationInv'
  <2>1. before[o] \in Changes /\ o \in 0..MaxOps
    BY MutationAssumption DEF MutationInv, TypeOK, Ops
  <2> QED BY <1>3, <2>1, AcceptInv DEF Undo
<1> QED BY <1>1, <1>2, <1>3 DEF CallerStep

LEMMA AccountRows ==
  ASSUME MutationInv
  PROVE  /\ account \in Accounts /\ gen \in [Ops -> Nat] /\ account.gen \in Nat /\ account.epoch \in Nat
         /\ fresh \subseteq WithStatus("processing") /\ waiting \subseteq Ops
         /\ \A o \in LiveOps : gen[o] = account.gen /\ account.status # "disconnected"
         /\ \A s \in {"connected", "reconnect_required", "disconnected"}, g, e \in Nat :
              [status |-> s, gen |-> g, epoch |-> e] \in Accounts
BY DEF MutationInv, TypeOK, Accounts, LeasesHold, LiveMutationsAreClaimable

LEMMA DisconnectInv ==
  ASSUME MutationInv, Disconnect
  PROVE  MutationInv'
<1>1. account.gen + 1 \in Nat /\ account.epoch + 1 \in Nat
  BY AccountRows
<1>2. account' \in Accounts
  BY <1>1, AccountRows DEF Disconnect
<1> QED BY <1>2, AccountRows, WithdrawInv DEF Disconnect

LEMMA DetachInv ==
  ASSUME MutationInv, NEW S, Detach(S)
  PROVE  MutationInv'
BY AccountRows, WithdrawInv DEF Detach

LEMMA SweepInv ==
  ASSUME MutationInv, Sweep
  PROVE  MutationInv'
<1>1. Expired \subseteq WithStatus("processing")
  BY DEF Expired
<1> QED BY <1>1, AccountRows, RequeueInv DEF Sweep

LEMMA ReconnectInv ==
  ASSUME MutationInv, Reconnect
  PROVE  MutationInv'
<1>1. account.gen + 1 \in Nat /\ account.epoch + 1 \in Nat
  BY AccountRows
<1>2. account' = [status |-> "connected", gen |-> account.gen + 1, epoch |-> account.epoch + 1]
  BY DEF Reconnect
<1>3. account' \in Accounts /\ account'.gen = account.gen + 1 /\ account'.status = "connected"
  BY <1>1, <1>2, AccountRows
<1>4. gen' \in [Ops -> Nat] /\ \A o \in LiveOps : gen'[o] = account.gen + 1
  BY <1>1, AccountRows DEF Reconnect, LiveOps
<1> QED BY <1>3, <1>4, RequeueInv DEF Reconnect

LEMMA RecoverInv ==
  ASSUME MutationInv, RecoverCredentials
  PROVE  MutationInv'
<1>1. account.gen \in Nat /\ account.epoch + 1 \in Nat
  BY AccountRows
<1>2. account' = [status |-> "connected", gen |-> account.gen, epoch |-> account.epoch + 1]
  BY DEF RecoverCredentials
<1>3. account' \in Accounts /\ account'.gen = account.gen /\ account'.status = "connected"
  BY <1>1, <1>2, AccountRows
<1> QED BY <1>3, AccountRows, RequeueInv DEF RecoverCredentials

LEMMA SiblingInv ==
  ASSUME MutationInv, SiblingReconnects
  PROVE  MutationInv'
<1>1. account' \in Accounts /\ account'.gen = account.gen /\ account'.status = account.status
  BY AccountRows DEF SiblingReconnects, Accounts
<1> QED BY <1>1, AccountRows, CalmStep DEF SiblingReconnects, leases

LEMMA RevokeInv ==
  ASSUME MutationInv, Revoke
  PROVE  MutationInv'
<1>1. account' \in Accounts /\ account'.gen = account.gen /\ account'.status = "reconnect_required"
  BY AccountRows DEF Revoke, Accounts
<1> QED BY <1>1, AccountRows, CalmStep DEF Revoke, leases

LEMMA SynchronizedInv ==
  ASSUME MutationInv, NEW m \in Messages, NEW v \in Values, Synchronized(m, v)
  PROVE  MutationInv'
<1> USE DEF payloads, leases
<1>0. TypeOK
  BY DEF MutationInv
<1>1. /\ confirmed' = [confirmed EXCEPT ![m] = v] /\ Reproject({m})
      /\ UNCHANGED <<account, status, payloads, results, leases, worker, applied>>
  BY DEF Synchronized
<1>2. TypeOK'
  <2>1. change' \in [Ops -> Changes] /\ confirmed' \in [Messages -> Values]
    BY <1>0, <1>1 DEF TypeOK
  <2>2. visible' \in [Messages -> Values] /\ unmoved' \subseteq Ops \X Messages /\ unsaved' \subseteq Ops \X Messages
    BY <1>0, <1>1, <2>1, ReprojectType
  <2> QED BY <1>0, <1>1, <2>1, <2>2 DEF TypeOK
<1>3. LeasesHold' /\ SlotsHold'
  BY <1>1 DEF MutationInv, LeasesHold, WithStatus, SlotsHold, SlotHolds, Selected
<1>4. MovesHold'
  <2>1. \A n \in Messages : n # m => confirmed'[n] = confirmed[n]
    BY <1>0, <1>1 DEF TypeOK
  <2>2. \A o \in Ops, n \in Messages : <<o, n>> \in unmoved' => <<o, n>> \in unmoved /\ n # m
    BY <1>1 DEF Reproject, Project
  <2> QED BY <1>1, <2>1, <2>2 DEF MutationInv, MovesHold, LiveOps, Overlap, Selected
<1>5. ASSUME NEW n \in Messages PROVE Shown(n)'
  <2>1. CASE n = m
    BY <1>0, <1>1, <2>1, ReprojectShows
  <2>2. CASE n # m
    <3>1. Queued(n)' = Queued(n)
      BY <1>1 DEF Queued, LiveOps, Selected
    <3>2. visible'[n] = visible[n] /\ \A o \in Ops : <<o, n>> \in unsaved' <=> <<o, n>> \in unsaved
      BY <1>0, <1>1, <2>2, ReprojectShows
    <3>3. confirmed'[n] = confirmed[n]
      BY <1>0, <1>1, <2>2 DEF TypeOK
    <3> QED BY <1>1, <3>1, <3>2, <3>3, ShownKept DEF MutationInv
  <2> QED BY <2>1, <2>2
<1>6. UnsavedHolds'
  BY <1>0, <1>1, UnsavedStays DEF MutationInv, Reproject, Project
<1> QED BY <1>1, <1>2, <1>3, <1>4, <1>5, <1>6, OrderStays, SuccessStays, LiveStays DEF MutationInv

----------------------------------------------------------------------------
(* Every step. *)

LEMMA InitInv == Init => MutationInv
<1> SUFFICES ASSUME Init PROVE MutationInv
  OBVIOUS
<1>1. TypeOK
  <2>1. NoChange \in Changes
    <3>1. NoChange \in [{} -> Values] /\ {} \in SUBSET Messages
      BY DEF NoChange
    <3> QED BY <3>1 DEF Changes
  <2>2. 0 \in 0..MaxOps /\ 0 \in 0..RetryLimit
    BY MutationAssumption
  <2>3. account \in Accounts
    BY DEF Init, Accounts
  <2> QED BY <2>1, <2>2, <2>3, IdleSlot DEF Init, TypeOK
<1>2. LeasesHold /\ SlotsHold
  BY IdleSlot DEF Init, LeasesHold, SlotsHold, SlotHolds
<1>3. LiveOps = {} /\ WithStatus("processing") = {} /\ WithStatus("succeeded") = {}
  BY DEF Init, LiveOps, WithStatus, Live
<1>4. OrderHolds
  BY <1>3 DEF Init, OrderHolds, RunsInOrder
<1>5. MovesHold /\ LiveMutationsAreClaimable
  BY <1>3 DEF Init, MovesHold, LiveMutationsAreClaimable
<1>6. SuccessIsReal
  BY <1>3 DEF Init, SuccessIsReal
<1>7. \A m \in Messages : Showing(m) = {}
  BY <1>3 DEF Init, Showing, Queued
<1>8. UnsavedHolds /\ \A m \in Messages : Shown(m)
  BY <1>7 DEF Init, Shown, UnsavedHolds
<1> QED BY <1>1, <1>2, <1>4, <1>5, <1>6, <1>8 DEF MutationInv

LEMMA ExecuteInv ==
  ASSUME MutationInv, NEW w \in Workers, Execute(w)
  PROVE  MutationInv'
<1>1. ASSUME NEW m \in Messages, NextMessage(w, m) PROVE MutationInv'
  BY <1>1, NextMessageInv
<1>2. ASSUME NEW error \in {"final", "retry"},
             FailsBeforeDispatch(w, error) \/ ProviderRefuses(w, error) \/ AnswerLost(w, error)
      PROVE  MutationInv'
  BY <1>2, FailsBeforeDispatchInv, ProviderRefusesInv, AnswerLostInv
<1> QED
  BY <1>1, <1>2, ReadAccountInv, DispatchInv, FinishInv, ProviderAppliesInv, ProviderSplitsInv,
     ProviderRefusesLoginInv, ReceiptInv, ReceiptThrowsInv, MessageFailsInv, FailureThrowsInv, FailureRecordedInv
  DEF Execute

LEMMA CrashInv ==
  ASSUME MutationInv, NEW w \in Workers, Crash(w)
  PROVE  MutationInv'
BY AppliedGrows, RestStep DEF Crash, Undecided

LEMMA NextInv == MutationInv /\ [Next]_vars => MutationInv'
<1> SUFFICES ASSUME MutationInv, [Next]_vars PROVE MutationInv'
  OBVIOUS
<1>1. CASE CallerStep
  BY <1>1, CallerInv
<1>2. CASE TimeStep
  BY <1>2, TimeInv
<1>3. CASE WorkerStep
  BY <1>3, SweepInv, ClaimInv, ExecuteInv, CrashInv DEF WorkerStep
<1>4. CASE AccountStep
  BY <1>4, DisconnectInv, ReconnectInv, RecoverInv, SiblingInv, RevokeInv, DetachInv, SynchronizedInv DEF AccountStep
<1>5. CASE UNCHANGED vars
  BY <1>5, AccountRows, CalmStep DEF vars, leases
<1> QED BY <1>1, <1>2, <1>3, <1>4, <1>5 DEF Next

Kept(o) ==
  /\ status[o] \in Settled => status'[o] = status[o] /\ results'[o] = results[o]
  /\ \A m \in Messages : results[o][m] # "none" => results'[o][m] = results[o][m]

\* A holder of a lease writes only to its own row, which runs.
LEMMA ExecutionKeeps ==
  ASSUME MutationInv, NEW w \in Workers, Execute(w), NEW o \in Ops
  PROVE  Kept(o)
<1>0. TypeOK /\ "processing" \notin Settled
  BY DEF MutationInv, Settled
<1>1. PICK r \in Slot : r = worker[w]
  BY <1>0 DEF TypeOK
<1>2. Owns(w) => r.op \in Ops /\ r.leased /\ status[r.op] = "processing"
  BY <1>1, OwnerHolds
<1>3. CASE UNCHANGED <<status, results>>
  BY <1>3 DEF Kept
<1>4. CASE Receipt(w) \/ MessageFails(w)
  <2>1. Owns(w) => results[r.op][r.msg] = "none"
    BY <1>1, <1>2, <1>4 DEF MutationInv, SlotsHold, SlotHolds, Receipt, MessageFails
  <2>2. /\ UNCHANGED status
        /\ UNCHANGED results \/ (Owns(w) /\ \E x : results' = [results EXCEPT ![r.op][r.msg] = x])
    <3>1. CASE Receipt(w)
      BY <1>1, <3>1 DEF Receipt
    <3>2. CASE MessageFails(w)
      BY <1>1, <3>2 DEF MessageFails
    <3> QED BY <1>4, <3>1, <3>2
  <2>3. CASE UNCHANGED results
    BY <2>2, <2>3 DEF Kept
  <2>4. CASE ~UNCHANGED results
    <3>1. PICK x : results' = [results EXCEPT ![r.op][r.msg] = x]
      BY <2>2, <2>4
    <3>2. r.op \in Ops /\ r.msg \in Messages /\ status[r.op] = "processing" /\ results[r.op][r.msg] = "none"
      BY <1>2, <2>1, <2>2, <2>4 DEF Slot
    <3>3. \A m \in Messages : results'[o][m] = IF o = r.op /\ m = r.msg THEN x ELSE results[o][m]
      BY <1>0, <3>1, <3>2 DEF TypeOK
    <3>4. o # r.op => results'[o] = results[o]
      BY <1>0, <3>1, <3>2 DEF TypeOK
    <3> QED BY <1>0, <2>2, <3>2, <3>3, <3>4 DEF Kept
  <2> QED BY <2>3, <2>4
<1>5. CASE Finish(w) \/ FailureRecorded(w)
  <2>1. UNCHANGED results
    BY <1>5 DEF Finish, FailureRecorded, RecordFailure
  <2>2. UNCHANGED status \/ (Owns(w) /\ \E x : status' = [status EXCEPT ![r.op] = x])
    BY <1>1, <1>5 DEF Finish, FailureRecorded, RecordFailure
  <2>3. status[o] \in Settled => status'[o] = status[o]
    BY <1>0, <1>2, <2>2 DEF TypeOK
  <2> QED BY <2>1, <2>3 DEF Kept
<1> QED
  BY <1>3, <1>4, <1>5
  DEF Execute, ReadAccount, NextMessage, FailsBeforeDispatch, Dispatch, ProviderApplies, ProviderSplits,
      ProviderRefusesLogin, ProviderRefuses, AnswerLost, ReceiptThrows, FailureThrows

LEMMA StepKeeps ==
  ASSUME MutationInv, Next, NEW o \in Ops
  PROVE  Kept(o)
<1>0. /\ TypeOK /\ "processing" \notin Settled /\ "pending" \notin Settled /\ "free" \notin Settled
      /\ \A p \in LiveOps : status[p] \notin Settled
  BY DEF MutationInv, Settled, LiveOps, Live
<1>1. ASSUME NEW S, S \subseteq LiveOps, NEW x, status' = Saved(S, x), UNCHANGED results PROVE Kept(o)
  BY <1>0, <1>1 DEF Kept, Saved
<1>2. WithStatus("processing") \subseteq LiveOps
  BY DEF WithStatus, LiveOps, Live
<1>3. ASSUME NEW c, NEW q, Accept(c, q) PROVE Kept(o)
  BY <1>0, <1>3 DEF Kept, Accept, TypeOK
<1>4. ASSUME NEW p \in Ops, Cancel(p) PROVE Kept(o)
  <2>1. {p} \subseteq LiveOps
    BY <1>4 DEF Cancel, LiveOps, Live
  <2> QED BY <1>1, <1>4, <2>1 DEF Cancel, Withdraw
<1>5. CASE CallerStep
  BY <1>3, <1>4, <1>5 DEF CallerStep, Mutate, Undo
<1>6. CASE TimeStep
  BY <1>6 DEF TimeStep, TimeUp, LeaseExpires, Heartbeat, Kept
<1>7. CASE Sweep
  <2>1. Expired \subseteq LiveOps
    BY <1>2 DEF Expired
  <2> QED BY <1>1, <1>7, <2>1 DEF Sweep
<1>8. ASSUME NEW w \in Workers, NEW p \in Ops, Claim(w, p) PROVE Kept(o)
  <2>1. status[p] = "pending"
    BY <1>8 DEF Claim, Candidates, Due, WithStatus
  <2> QED BY <1>0, <1>8, <2>1 DEF Claim, Kept, TypeOK
<1>9. ASSUME NEW w \in Workers, Crash(w) PROVE Kept(o)
  BY <1>9 DEF Crash, Kept
<1>10. CASE WorkerStep
  BY <1>7, <1>8, <1>9, <1>10, ExecutionKeeps DEF WorkerStep
<1>11. CASE Reconnect \/ RecoverCredentials
  BY <1>1, <1>2, <1>11 DEF Reconnect, RecoverCredentials
<1>12. CASE Disconnect \/ \E S \in SUBSET Ops : Detach(S)
  BY <1>1, <1>12 DEF Disconnect, Detach, Withdraw
<1>13. CASE \/ SiblingReconnects \/ Revoke
            \/ \E m \in Messages, v \in Values : Synchronized(m, v)
  BY <1>13 DEF SiblingReconnects, Revoke, Synchronized, Kept
<1>14. CASE AccountStep
  BY <1>11, <1>12, <1>13, <1>14 DEF AccountStep
<1> QED BY <1>5, <1>6, <1>10, <1>14 DEF Next

\* An undo that may be accepted finds what the undone change set, or a change that the
\* provider carried out without its answer being saved.
LEMMA UndoGrounded == MutationInv => UndoIsGrounded
<1> SUFFICES ASSUME MutationInv, NEW o \in Ops, CanUndo(o), NEW m \in Selected(o)
             PROVE  visible[m] \in {change[o][m]} \cup {change[p][m] : p \in {q \in Ops : <<q, m>> \in unsaved}}
  BY DEF UndoIsGrounded
<1>1. change[o] \in Changes
  BY DEF MutationInv, TypeOK
<1>2. m \in Messages
  BY <1>1, ChangeTypes DEF Selected
<1>3. /\ <<o, m>> \in unmoved /\ status[o] = "succeeded"
      /\ \A p \in LiveOps : p > o => ~Overlap(o, p)
  BY DEF CanUndo
<1>4. /\ confirmed[m] = change[o][m] /\ results[o][m] = "succeeded"
      /\ \A p \in LiveOps : p < o => ~Overlap(o, p)
  BY <1>2, <1>3 DEF MutationInv, MovesHold
<1>5. Queued(m) = {}
  <2> SUFFICES ASSUME NEW p \in Queued(m) PROVE FALSE
    OBVIOUS
  <2>1. p \in LiveOps /\ p \in Ops /\ m \in Selected(p) /\ results[p][m] = "none"
    BY DEF Queued, LiveOps
  <2>2. p # o
    BY <1>4, <2>1
  <2>3. p < o \/ p > o
    BY <2>1, <2>2, MutationAssumption DEF Ops
  <2>4. Overlap(o, p)
    BY <2>1 DEF Overlap
  <2> QED BY <1>3, <1>4, <2>1, <2>3, <2>4
<1>6. Showing(m) \subseteq Ops /\ \A p \in Showing(m) : <<p, m>> \in unsaved
  BY <1>5 DEF Showing
<1>7. Shown(m)
  BY <1>2 DEF MutationInv
<1>8. CASE Showing(m) = {}
  BY <1>4, <1>7, <1>8 DEF Shown
<1>9. CASE Showing(m) # {}
  <2>1. Latest(Showing(m)) \in Showing(m)
    BY <1>6, <1>9, LatestOp
  <2>2. visible[m] = change[Latest(Showing(m))][m]
    BY <1>7, <1>9 DEF Shown
  <2> QED BY <1>6, <2>1, <2>2
<1> QED BY <1>8, <1>9

----------------------------------------------------------------------------
(* The theorems. *)

\* The invariant holds in every state: leases, slots, rows and revisions agree, whoever
\* cancels, retries, sweeps, reconnects or dies in between.
THEOREM MutationInvariant == Spec => []MutationInv
BY InitInv, NextInv, PTL DEF Spec

\* What callers see is the confirmed state under the queued changes after every transaction of
\* core.ts.  A change that is over shows on only where the provider carried it out and its answer
\* went unsaved, and until its message is next projected; every state is well typed.
THEOREM CallersSeeTheQueue == Spec => []ProjectionIsFresh
<1>1. MutationInv => ProjectionIsFresh
  BY DEF MutationInv, ProjectionIsFresh, Shown, Latest, UnsavedHolds
<1> QED BY <1>1, MutationInvariant, PTL

\* Changes of one message run in the order they were accepted.
THEOREM OrderIsKept == Spec => []RunsInOrder
<1>1. MutationInv => RunsInOrder
  BY DEF MutationInv, OrderHolds
<1> QED BY <1>1, MutationInvariant, PTL

\* undo is accepted only where the message still shows what the undone change set, or what a
\* change set that the provider carried out and whose answer went unsaved.
THEOREM UndosAreGrounded == Spec => []UndoIsGrounded
BY UndoGrounded, MutationInvariant, PTL

\* Live rows carry the generation the worker claims by.
THEOREM NothingIsStranded == Spec => []LiveMutationsAreClaimable
<1>1. MutationInv => LiveMutationsAreClaimable
  BY DEF MutationInv
<1> QED BY <1>1, MutationInvariant, PTL

\* What is reported as succeeded was carried out by the provider.
THEOREM SuccessHappened == Spec => []SuccessIsReal
<1>1. MutationInv => SuccessIsReal
  BY DEF MutationInv
<1> QED BY <1>1, MutationInvariant, PTL

\* A worker that lost its lease, a retry or a late account change rewrites no outcome
\* and no result.
THEOREM ReceiptsStand == Spec => ReceiptsAreFinal
<1>1. MutationInv /\ Next => [\A o \in Ops : Kept(o)]_vars
  BY StepKeeps
<1>2. MutationInv /\ [Next]_vars =>
        [\A o \in Ops : /\ status[o] \in Settled => status'[o] = status[o] /\ results'[o] = results[o]
                        /\ \A m \in Messages : results[o][m] # "none" => results'[o][m] = results[o][m]]_vars
  BY <1>1 DEF Kept
<1> QED BY <1>2, MutationInvariant, PTL DEF Spec, ReceiptsAreFinal

=============================================================================
