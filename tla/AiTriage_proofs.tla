-------------------------- MODULE AiTriage_proofs --------------------------
(***************************************************************************)
(* AiTriage keeps its promises for every number of conversations, jobs and *)
(* versions, whichever way pages, requests, controls and mail interleave.  *)
(*                                                                         *)
(* Sound: what the rows of one conversation and its request have to say    *)
(* about one another.  Safe: what is shown of a conversation, or will be   *)
(* once its request has answered, is of a given version.  Every step       *)
(* carries Safe on, but for new mail; and new mail leaves an event.        *)
(* Follows: what is not Safe has an event to come, a version that the      *)
(* reader's page plans, a place in the page of a recovery, or was skipped  *)
(* by a change of settings or passed over by a recovery.                   *)
(***************************************************************************)
EXTENDS AiTriage, TLAPS

Runs(js, j) == js[j] = [status |-> "running", enumerated |-> TRUE]
JobRecords == [status : {"none", "running", "paused", "cancelled", "over"}, enumerated : BOOLEAN]

\* The row is still the one that the request took; nobody has called the request off.
Owned(c, r) == r # NoRun /\ c.row # NoRow /\ c.row.taken
Live(c, r) == Owned(c, r) /\ ~r.aborted

\* Requests are counted by attempts, but for the one that is out and three for each that was called off;
\* a row in processing has an owner or is an orphan.
RowHolds(c, r) ==
  c.row # NoRow =>
    /\ c.decision.state \in {"pending", "processing", "stale"}
    /\ c.row.job # NoJob => c.items[c.row.job] = "pending"
    /\ c.row.status = "processing" => c.row.attempts < 3 /\ (c.row.orphan \/ Live(c, r))
    /\ c.row.asked <= c.row.attempts + 1 + 3 * c.row.calledOff
    /\ c.row.asked <= c.row.attempts + 3 * c.row.calledOff \/ (Live(c, r) /\ r.phase # "read")
    /\ Owned(c, r) /\ r.aborted /\ r.phase # "read" => c.row.asked <= 3 * c.row.calledOff

\* A request that still counts works on a row in processing, and its job, if it has one, runs.
RequestHolds(c, r, js, on) ==
  Live(c, r) =>
    /\ on
    /\ c.row.status = "processing"
    /\ c.row.job \in {r.job, NoJob}
    /\ r.job # NoJob => Runs(js, r.job) /\ c.items[r.job] = "pending"

\* Nothing is known that was never there, and a request does not go back behind what is known.
VersionsHold(c, r, v) ==
  /\ c.known <= v
  /\ r # NoRun => r.of <= v
  /\ Owned(c, r) => r.of = 0 \/ c.known <= r.of
  /\ c.decision.state = "ready" => c.decision.of = c.known

Sound(c, r, js, on, v) ==
  /\ c \in Conversations /\ r \in Requests
  /\ RowHolds(c, r) /\ RequestHolds(c, r, js, on) /\ VersionsHold(c, r, v)

\* What is shown, or will be shown next, is of version v.
Safe(c, r, v) ==
  /\ c.row = NoRow /\ c.decision.state = "ready" => c.decision.of = v
  /\ Owned(c, r) => r.of \in {0, v}

\* A step takes rows and request from c and r to n and s: Safe stays, and a row is made for the version there is.
Carries(c, r, n, s, v) ==
  /\ Safe(c, r, v) => Safe(n, s, v)
  /\ c.row = NoRow /\ n.row # NoRow => Safe(n, s, v)

\* No item becomes pending but one of j, and none that is pending loses its row.
ItemsKept(c, n, j) ==
  \A k \in Jobs : n.items[k] = "pending" =>
    /\ c.items[k] = "pending" \/ k = j
    /\ n.row = NoRow => c.row = NoRow /\ c.items[k] = "pending"

----------------------------------------------------------------------------
(* The fields of the records. *)

LEMMA RowFields ==
  ASSUME NEW c \in Conversations, c.row # NoRow
  PROVE  /\ c.row \in [status : {"queued", "processing"}, attempts : 0 .. 3, job : Jobs \cup {NoJob},
                       taken : BOOLEAN, asked : Nat, calledOff : Nat, orphan : BOOLEAN]
         /\ c.row.status \in {"queued", "processing"} /\ c.row.attempts \in 0 .. 3 /\ c.row.job \in Jobs \cup {NoJob}
         /\ c.row.taken \in BOOLEAN /\ c.row.asked \in Nat /\ c.row.calledOff \in Nat /\ c.row.orphan \in BOOLEAN
  BY DEF Conversations, Rows

LEMMA ConversationFields ==
  ASSUME NEW c \in Conversations
  PROVE  /\ c.row \in Rows /\ c.decision \in Decisions /\ c.known \in Version
         /\ c.items \in [Jobs -> {"none", "pending", "settled"}]
         /\ c.decision.state \in {"none", "pending", "processing", "ready", "failed", "stale"}
         /\ c.decision.of \in Version /\ c.decision.fresh \in BOOLEAN
  BY DEF Conversations, Decisions

LEMMA RequestFields ==
  ASSUME NEW r \in Requests, r # NoRun
  PROVE  /\ r.phase \in {"read", "asking", "reread"} /\ r.job \in Jobs \cup {NoJob}
         /\ r.of \in Version /\ r.aborted \in BOOLEAN /\ r.now \in Version
  BY DEF Requests

LEMMA NamedRecords ==
  /\ NoRow \in Rows /\ NoRun \in Requests /\ NoRow.status = "none" /\ NoRun.phase = "none"
  /\ NoDecision \in Decisions /\ NoDecision.state = "none" /\ Off.phase = "off"
  /\ \A j \in Jobs \cup {NoJob} :
       /\ Queued(j) \in Rows /\ Queued(j) # NoRow /\ Queued(j).status = "queued" /\ Queued(j).attempts = 0
       /\ Queued(j).job = j /\ Queued(j).taken = FALSE /\ Queued(j).asked = 0 /\ Queued(j).calledOff = 0 /\ Queued(j).orphan = FALSE
<1>1. /\ NoRow \in Rows /\ NoRun \in Requests /\ NoRow.status = "none" /\ NoRun.phase = "none"
      /\ NoDecision \in Decisions /\ NoDecision.state = "none" /\ Off.phase = "off"
  BY TriageAssumption DEF Rows, Requests, NoRow, NoRun, NoDecision, Decisions, Off, Version
<1>2. ASSUME NEW j \in Jobs \cup {NoJob}
      PROVE  /\ Queued(j) \in Rows /\ Queued(j) # NoRow /\ Queued(j).status = "queued" /\ Queued(j).attempts = 0
             /\ Queued(j).job = j /\ Queued(j).taken = FALSE /\ Queued(j).asked = 0 /\ Queued(j).calledOff = 0 /\ Queued(j).orphan = FALSE
  BY DEF Rows, Queued, NoRow
<1> QED BY <1>1, <1>2

----------------------------------------------------------------------------
(* What happens to the rows of one conversation. *)

EnqueuedItems(c, n, j) ==
  /\ n.items \in [Jobs -> {"none", "pending", "settled"}]
  /\ \A k \in Jobs : k # j => n.items[k] = c.items[k]
  /\ j \in Jobs => n.items[j] = IF c.items[j] = "none" THEN "pending" ELSE c.items[j]

LEMMA EnqueuedAgain ==
  ASSUME NEW c \in Conversations, NEW version \in Version, NEW j \in Jobs \cup {NoJob},
         NEW n, n = Enqueue(c, version, j), c.row # NoRow, c.known = version
  PROVE  /\ n \in Conversations /\ n.row # NoRow
         /\ n.row.status = c.row.status /\ n.row.attempts = c.row.attempts /\ n.row.taken = c.row.taken
         /\ n.row.asked = c.row.asked /\ n.row.calledOff = c.row.calledOff /\ n.row.orphan = c.row.orphan
         /\ n.row.job = IF j = NoJob THEN NoJob ELSE c.row.job
         /\ n.decision = c.decision /\ n.known = c.known /\ EnqueuedItems(c, n, j)
<1> DEFINE listed == IF j # NoJob /\ c.items[j] = "none" THEN [c.items EXCEPT ![j] = "pending"] ELSE c.items
           kept == [c.row EXCEPT !.job = IF j = NoJob THEN NoJob ELSE c.row.job]
<1>1. n = [c EXCEPT !.items = listed, !.row = kept]
  BY DEF Enqueue
<1>2. listed \in [Jobs -> {"none", "pending", "settled"}]
  BY ConversationFields, TriageAssumption
<1>3. /\ \A k \in Jobs : k # j => listed[k] = c.items[k]
      /\ j \in Jobs => listed[j] = IF c.items[j] = "none" THEN "pending" ELSE c.items[j]
  BY ConversationFields, TriageAssumption
<1>4. /\ kept \in Rows /\ kept.status = c.row.status /\ kept.attempts = c.row.attempts /\ kept.taken = c.row.taken
      /\ kept.asked = c.row.asked /\ kept.calledOff = c.row.calledOff /\ kept.orphan = c.row.orphan
      /\ kept.job = IF j = NoJob THEN NoJob ELSE c.row.job
  BY RowFields DEF Rows
<1>5. kept # NoRow
  BY <1>4, RowFields, NamedRecords
<1> HIDE DEF listed, kept
<1>6. n.row = kept /\ n.items = listed /\ n.decision = c.decision /\ n.known = c.known
  BY <1>1 DEF Conversations
<1>7. n \in Conversations
  BY <1>1, <1>2, <1>4 DEF Conversations
<1> QED BY <1>2, <1>3, <1>4, <1>5, <1>6, <1>7 DEF EnqueuedItems

LEMMA EnqueuedNot ==
  ASSUME NEW c \in Conversations, NEW version \in Version, NEW j \in Jobs \cup {NoJob},
         NEW n, n = Enqueue(c, version, j), c.row = NoRow, c.known = version, Reusable(c)
  PROVE  /\ n \in Conversations /\ n.row = NoRow /\ n.decision = c.decision /\ n.known = c.known
         /\ \A k \in Jobs : n.items[k] = "pending" => c.items[k] = "pending"
<1> DEFINE items == IF j = NoJob THEN c.items ELSE [c.items EXCEPT ![j] = "settled"]
<1>1. n = [c EXCEPT !.items = items]
  BY DEF Enqueue
<1>2. items \in [Jobs -> {"none", "pending", "settled"}] /\ \A k \in Jobs : items[k] = "pending" => c.items[k] = "pending"
  BY ConversationFields, TriageAssumption
<1> HIDE DEF items
<1> QED BY <1>1, <1>2 DEF Conversations

LEMMA EnqueuedAnew ==
  ASSUME NEW c \in Conversations, NEW version \in Version, NEW j \in Jobs \cup {NoJob},
         NEW n, n = Enqueue(c, version, j), c.known # version \/ (c.row = NoRow /\ ~Reusable(c))
  PROVE  /\ n \in Conversations /\ n.row = Queued(j) /\ n.known = version
         /\ n.decision.state = "pending" /\ EnqueuedItems(c, n, j)
<1> DEFINE listed == IF j # NoJob /\ c.items[j] = "none" THEN [c.items EXCEPT ![j] = "pending"] ELSE c.items
           decision == [state |-> "pending", of |-> 0, fresh |-> TRUE]
<1>1. n = [c EXCEPT !.items = listed, !.row = Queued(j), !.known = version, !.decision = decision]
  BY DEF Enqueue
<1>2. /\ listed \in [Jobs -> {"none", "pending", "settled"}]
      /\ \A k \in Jobs : k # j => listed[k] = c.items[k]
      /\ j \in Jobs => listed[j] = IF c.items[j] = "none" THEN "pending" ELSE c.items[j]
  BY ConversationFields, TriageAssumption
<1>3. decision \in Decisions /\ decision.state = "pending"
  BY TriageAssumption DEF Decisions, Version
<1>4. Queued(j) \in Rows
  BY NamedRecords
<1> HIDE DEF listed, decision
<1> QED BY <1>1, <1>2, <1>3, <1>4 DEF Conversations, EnqueuedItems

LEMMA EnqueueSound ==
  ASSUME NEW c, NEW r, NEW js, NEW on, NEW v \in Version, Sound(c, r, js, on, v),
         NEW version \in Version, version <= v, NEW j \in Jobs \cup {NoJob}, j # NoJob => c.items[j] = "none",
         NEW n, n = Enqueue(c, version, j)
  PROVE  /\ Sound(n, r, js, on, v) /\ Carries(c, r, n, r, v) /\ ItemsKept(c, n, j)
         /\ version = v => Safe(n, r, v)
<1> USE DEF Sound
<1>1. CASE c.row # NoRow /\ c.known = version
  <2>1. /\ n \in Conversations /\ n.row # NoRow
        /\ n.row.status = c.row.status /\ n.row.attempts = c.row.attempts /\ n.row.taken = c.row.taken
        /\ n.row.asked = c.row.asked /\ n.row.calledOff = c.row.calledOff /\ n.row.orphan = c.row.orphan
        /\ n.row.job = IF j = NoJob THEN NoJob ELSE c.row.job
        /\ n.decision = c.decision /\ n.known = c.known /\ EnqueuedItems(c, n, j)
    BY <1>1, EnqueuedAgain
  <2>2. \A k \in Jobs : c.items[k] = "pending" => n.items[k] = "pending"
    BY <2>1, ConversationFields DEF EnqueuedItems
  <2>3. RowHolds(n, r)
    BY <1>1, <2>1, <2>2, RowFields DEF RowHolds, Live, Owned
  <2>4. RequestHolds(n, r, js, on)
    BY <1>1, <2>1, <2>2, RowFields, RequestFields DEF RequestHolds, Live, Owned
  <2>5. VersionsHold(n, r, v)
    BY <1>1, <2>1 DEF VersionsHold, Owned
  <2>6. Carries(c, r, n, r, v)
    BY <1>1, <2>1 DEF Carries, Safe, Owned
  <2>7. ItemsKept(c, n, j)
    BY <1>1, <2>1 DEF ItemsKept, EnqueuedItems
  <2>8. version = v => Safe(n, r, v)
    BY <1>1, <2>1, RequestFields DEF Safe, Owned, VersionsHold, Version
  <2> QED BY <2>1, <2>3, <2>4, <2>5, <2>6, <2>7, <2>8
<1>2. CASE c.row = NoRow /\ c.known = version /\ Reusable(c)
  <2>1. /\ n \in Conversations /\ n.row = NoRow /\ n.decision = c.decision /\ n.known = c.known
        /\ \A k \in Jobs : n.items[k] = "pending" => c.items[k] = "pending"
    BY <1>2, EnqueuedNot
  <2>2. RowHolds(n, r) /\ RequestHolds(n, r, js, on) /\ VersionsHold(n, r, v)
    BY <1>2, <2>1 DEF RowHolds, RequestHolds, VersionsHold, Live, Owned
  <2>3. Carries(c, r, n, r, v) /\ ItemsKept(c, n, j)
    BY <1>2, <2>1 DEF Carries, Safe, Owned, ItemsKept
  <2>4. version = v => Safe(n, r, v)
    BY <1>2, <2>1 DEF Safe, Owned, VersionsHold
  <2> QED BY <2>1, <2>2, <2>3, <2>4
<1>3. CASE c.known # version \/ (c.row = NoRow /\ ~Reusable(c))
  <2>1. /\ n \in Conversations /\ n.row = Queued(j) /\ n.known = version
        /\ n.decision.state = "pending" /\ EnqueuedItems(c, n, j)
    BY <1>3, EnqueuedAnew
  <2>2. /\ n.row # NoRow /\ n.row.status = "queued" /\ n.row.attempts = 0 /\ n.row.job = j
        /\ n.row.taken = FALSE /\ n.row.asked = 0 /\ n.row.calledOff = 0
    BY <2>1, NamedRecords
  <2>3. RowHolds(n, r)
    BY <2>1, <2>2 DEF RowHolds, EnqueuedItems, Owned
  <2>4. ~Owned(n, r)
    BY <2>2 DEF Owned
  <2>5. RequestHolds(n, r, js, on) /\ VersionsHold(n, r, v)
    BY <2>1, <2>4 DEF RequestHolds, VersionsHold, Live
  <2>6. Carries(c, r, n, r, v) /\ Safe(n, r, v)
    BY <2>2, <2>4 DEF Carries, Safe
  <2>7. ItemsKept(c, n, j)
    BY <2>1, <2>2 DEF ItemsKept, EnqueuedItems
  <2> QED BY <2>1, <2>3, <2>5, <2>6, <2>7
<1> QED BY <1>1, <1>2, <1>3

LEMMA RemovedShape ==
  ASSUME NEW c \in Conversations, NEW n, n = Removed(c)
  PROVE  /\ n \in Conversations /\ n.row = NoRow /\ n.decision = NoDecision /\ n.known = 0
         /\ \A k \in Jobs : n.items[k] # "pending"
BY NamedRecords, ConversationFields, TriageAssumption DEF Removed, Settled, Conversations, Version

LEMMA FailedShape ==
  ASSUME NEW c \in Conversations, NEW version \in Version, NEW n, n = Finish(c, "failed", version)
  PROVE  /\ n \in Conversations /\ n.row = NoRow /\ n.decision.state = "failed"
         /\ n.known = IF version = 0 THEN c.known ELSE version
         /\ \A k \in Jobs : n.items[k] # "pending"
<1> DEFINE decision == [state |-> "failed", of |-> 0, fresh |-> TRUE]
<1>1. decision \in Decisions /\ decision.state = "failed"
  BY TriageAssumption DEF Decisions, Version
<1>2. Settled(c.items) \in [Jobs -> {"none", "pending", "settled"}] /\ \A k \in Jobs : Settled(c.items)[k] # "pending"
  BY ConversationFields DEF Settled
<1>3. n = [row |-> NoRow, decision |-> decision, known |-> IF version = 0 THEN c.known ELSE version, items |-> Settled(c.items)]
  BY DEF Finish
<1> HIDE DEF decision
<1> QED BY <1>1, <1>2, <1>3, NamedRecords, ConversationFields DEF Conversations

LEMMA ReadyShape ==
  ASSUME NEW c \in Conversations, NEW version \in Version, NEW n, n = Finish(c, "ready", version), version # 0
  PROVE  /\ n \in Conversations /\ n.row = NoRow /\ n.decision.of = version /\ n.known = version
         /\ \A k \in Jobs : n.items[k] # "pending"
<1> DEFINE decision == [state |-> "ready", of |-> version, fresh |-> TRUE]
<1>1. decision \in Decisions /\ decision.of = version
  BY DEF Decisions
<1>2. Settled(c.items) \in [Jobs -> {"none", "pending", "settled"}] /\ \A k \in Jobs : Settled(c.items)[k] # "pending"
  BY ConversationFields DEF Settled
<1>3. n = [row |-> NoRow, decision |-> decision, known |-> version, items |-> Settled(c.items)]
  BY DEF Finish
<1> HIDE DEF decision
<1> QED BY <1>1, <1>2, <1>3, NamedRecords, ConversationFields DEF Conversations

\* A row goes; an assessment that is left is that of the request which owned the row.
LEMMA GoneSound ==
  ASSUME NEW c, NEW r, NEW js, NEW on, NEW v \in Version, Sound(c, r, js, on, v),
         NEW n \in Conversations, NEW s \in Requests, s = NoRun \/ s = r, n.row = NoRow, n.known <= v,
         \A k \in Jobs : n.items[k] # "pending",
         \/ n.decision.state # "ready"
         \/ Owned(c, r) /\ r.of # 0 /\ n.decision.of = r.of /\ n.known = r.of,
         NEW j
  PROVE  Sound(n, s, js, on, v) /\ Carries(c, r, n, s, v) /\ ItemsKept(c, n, j)
BY DEF Sound, RowHolds, RequestHolds, VersionsHold, Carries, Safe, ItemsKept, Owned, Live

LEMMA RemovedSound ==
  ASSUME NEW c, NEW r, NEW js, NEW on, NEW v \in Version, Sound(c, r, js, on, v),
         NEW n, n = Removed(c), NEW s \in Requests, s = NoRun \/ s = r, NEW j
  PROVE  Sound(n, s, js, on, v) /\ Carries(c, r, n, s, v) /\ ItemsKept(c, n, j) /\ n.row = NoRow
<1>1. /\ n \in Conversations /\ n.row = NoRow /\ n.decision = NoDecision /\ n.known = 0
      /\ \A k \in Jobs : n.items[k] # "pending"
  BY RemovedShape DEF Sound
<1>2. n.decision.state # "ready" /\ n.known <= v
  BY <1>1, NamedRecords, TriageAssumption DEF Version
<1>3. Sound(n, s, js, on, v) /\ Carries(c, r, n, s, v) /\ ItemsKept(c, n, j)
  BY <1>1, <1>2, GoneSound
<1> QED BY <1>1, <1>3

LEMMA FailedSound ==
  ASSUME NEW c, NEW r, NEW js, NEW on, NEW v \in Version, Sound(c, r, js, on, v),
         NEW version \in Version, version <= v,
         NEW n, n = Finish(c, "failed", version), NEW s \in Requests, s = NoRun \/ s = r, NEW j
  PROVE  Sound(n, s, js, on, v) /\ Carries(c, r, n, s, v) /\ ItemsKept(c, n, j) /\ n.row = NoRow
<1>0. c \in Conversations
  BY DEF Sound
<1>1. /\ n \in Conversations /\ n.row = NoRow /\ n.decision.state = "failed"
      /\ n.known = IF version = 0 THEN c.known ELSE version
      /\ \A k \in Jobs : n.items[k] # "pending"
  BY <1>0, FailedShape
<1>2. n.decision.state # "ready" /\ n.known <= v
  BY <1>1 DEF Sound, VersionsHold
<1>3. Sound(n, s, js, on, v) /\ Carries(c, r, n, s, v) /\ ItemsKept(c, n, j)
  BY <1>1, <1>2, GoneSound
<1> QED BY <1>1, <1>3

LEMMA ReadySound ==
  ASSUME NEW c, NEW r, NEW js, NEW on, NEW v \in Version, Sound(c, r, js, on, v), Owned(c, r), r.of # 0,
         NEW n, n = Finish(c, "ready", r.of), NEW j
  PROVE  Sound(n, NoRun, js, on, v) /\ Carries(c, r, n, NoRun, v) /\ ItemsKept(c, n, j) /\ n.row = NoRow
<1>1. r.of \in Version /\ r.of <= v
  BY RequestFields DEF Sound, VersionsHold, Owned
<1>2. /\ n \in Conversations /\ n.row = NoRow /\ n.decision.of = r.of /\ n.known = r.of
      /\ \A k \in Jobs : n.items[k] # "pending"
  BY <1>1, ReadyShape DEF Sound
<1>3. NoRun \in Requests
  BY NamedRecords
<1>4. Sound(n, NoRun, js, on, v) /\ Carries(c, r, n, NoRun, v) /\ ItemsKept(c, n, j)
  BY <1>1, <1>2, <1>3, GoneSound
<1> QED BY <1>2, <1>4

\* A request that nobody waits for any more lets its row go.
LEMMA LetGoSound ==
  ASSUME NEW c, NEW r, NEW js, NEW on, NEW v \in Version, Sound(c, r, js, on, v), ~Live(c, r),
         NEW n, n = Ended(c), NEW j
  PROVE  Sound(n, NoRun, js, on, v) /\ Carries(c, r, n, NoRun, v) /\ ItemsKept(c, n, j) /\ (n.row = NoRow <=> c.row = NoRow)
<1>1. CASE c.row = NoRow
  <2>1. n = c
    BY <1>1 DEF Ended
  <2> QED BY <1>1, <2>1, NamedRecords DEF Sound, RowHolds, RequestHolds, VersionsHold, Carries, Safe, ItemsKept, Owned, Live
<1>2. CASE c.row # NoRow
  <2> DEFINE row == [c.row EXCEPT !.taken = FALSE]
  <2>1. n = [c EXCEPT !.row = row]
    BY <1>2 DEF Ended
  <2>2. /\ row \in Rows /\ row.status = c.row.status /\ row.attempts = c.row.attempts /\ row.job = c.row.job
        /\ row.taken = FALSE /\ row.asked = c.row.asked /\ row.calledOff = c.row.calledOff /\ row.orphan = c.row.orphan
    BY <1>2, RowFields DEF Sound, Rows
  <2>3. row # NoRow
    BY <1>2, <2>2, RowFields, NamedRecords DEF Sound
  <2> HIDE DEF row
  <2>4. /\ n \in Conversations /\ n.row = row /\ n.decision = c.decision /\ n.known = c.known /\ n.items = c.items
    BY <2>1, <2>2 DEF Sound, Conversations
  <2>5. RowHolds(n, NoRun) /\ RequestHolds(n, NoRun, js, on) /\ VersionsHold(n, NoRun, v)
    BY <1>2, <2>2, <2>3, <2>4, RowFields DEF Sound, RowHolds, RequestHolds, VersionsHold, Owned, Live
  <2>6. Carries(c, r, n, NoRun, v) /\ ItemsKept(c, n, j)
    BY <1>2, <2>3, <2>4 DEF Carries, Safe, ItemsKept, Owned
  <2> QED BY <1>2, <2>3, <2>4, <2>5, <2>6, NamedRecords DEF Sound
<1> QED BY <1>1, <1>2

RowRecords == Rows \ {NoRow}

LEMMA RowReplaced ==
  ASSUME NEW c \in Conversations, NEW row \in RowRecords, NEW n, n = [c EXCEPT !.row = row]
  PROVE  /\ n \in Conversations /\ n.row = row /\ n.row # NoRow
         /\ n.decision = c.decision /\ n.known = c.known /\ n.items = c.items
BY DEF Conversations, RowRecords

LEMMA RowRecord ==
  ASSUME NEW row \in [status : {"queued", "processing"}, attempts : 0 .. 3, job : Jobs \cup {NoJob},
                      taken : BOOLEAN, asked : Nat, calledOff : Nat, orphan : BOOLEAN]
  PROVE  row \in RowRecords
<1>1. row.status # "none"
  OBVIOUS
<1> QED BY <1>1, NamedRecords DEF RowRecords, Rows

LEMMA FreedRow ==
  ASSUME NEW row \in RowRecords, NEW free, free = [row EXCEPT !.taken = FALSE]
  PROVE  /\ free \in RowRecords /\ free.status = row.status /\ free.attempts = row.attempts /\ free.job = row.job
         /\ free.taken = FALSE /\ free.asked = row.asked /\ free.calledOff = row.calledOff /\ free.orphan = row.orphan
<1>1. row \in [status : {"queued", "processing"}, attempts : 0 .. 3, job : Jobs \cup {NoJob},
               taken : BOOLEAN, asked : Nat, calledOff : Nat, orphan : BOOLEAN]
  BY DEF RowRecords, Rows
<1> QED BY <1>1, RowRecord

LEMMA StartSound ==
  ASSUME NEW c, NEW js, NEW on, NEW v \in Version, Sound(c, NoRun, js, on, v),
         on, c.row # NoRow, c.row.status = "queued", c.row.attempts < 3, c.row.job # NoJob => Runs(js, c.row.job),
         NEW of \in {0, v},
         NEW n, n = [c EXCEPT !.row = [c.row EXCEPT !.status = "processing", !.taken = TRUE]],
         NEW s, s = [phase |-> "read", job |-> c.row.job, of |-> of, aborted |-> FALSE, now |-> 0], NEW j
  PROVE  Sound(n, s, js, on, v) /\ Carries(c, NoRun, n, s, v) /\ ItemsKept(c, n, j)
<1> DEFINE row == [c.row EXCEPT !.status = "processing", !.taken = TRUE]
<1>1. c \in Conversations
  BY DEF Sound
<1>2. /\ row \in RowRecords
      /\ row.status = "processing" /\ row.attempts = c.row.attempts /\ row.job = c.row.job
      /\ row.taken = TRUE /\ row.asked = c.row.asked /\ row.calledOff = c.row.calledOff /\ row.orphan = c.row.orphan
  BY <1>1, RowFields, RowRecord
<1> HIDE DEF row
<1>3. /\ n \in Conversations /\ n.row = row /\ n.row # NoRow
      /\ n.decision = c.decision /\ n.known = c.known /\ n.items = c.items
  BY <1>1, <1>2, RowReplaced DEF row
<1>4. /\ s \in Requests /\ s # NoRun /\ s.phase = "read" /\ s.job = c.row.job /\ s.of = of /\ s.aborted = FALSE
  BY <1>1, RowFields, TriageAssumption DEF Requests, NoRun, Version
<1>5. Owned(n, s) /\ Live(n, s)
  BY <1>2, <1>3, <1>4 DEF Owned, Live
<1>6. RowHolds(n, s)
  BY <1>1, <1>2, <1>3, <1>5, RowFields DEF Sound, RowHolds, Live, Owned
<1>7. RequestHolds(n, s, js, on)
  BY <1>1, <1>2, <1>3, <1>4, RowFields DEF Sound, RowHolds, RequestHolds
<1>8. VersionsHold(n, s, v)
  BY <1>3, <1>4, TriageAssumption DEF Sound, VersionsHold, Version
<1>9. Carries(c, NoRun, n, s, v) /\ ItemsKept(c, n, j)
  BY <1>3, <1>4 DEF Carries, Safe, ItemsKept
<1> QED BY <1>3, <1>4, <1>6, <1>7, <1>8, <1>9 DEF Sound

LEMMA AskSound ==
  ASSUME NEW c, NEW r, NEW js, NEW on, NEW v \in Version, Sound(c, r, js, on, v),
         Live(c, r), r.phase = "read", r.of # 0,
         NEW n, n = Asked(c, r.of), NEW s, s = [r EXCEPT !.phase = "asking"], NEW j
  PROVE  Sound(n, s, js, on, v) /\ Carries(c, r, n, s, v) /\ ItemsKept(c, n, j)
<1> DEFINE row == [c.row EXCEPT !.asked = c.row.asked + 1]
           decision == [c.decision EXCEPT !.state = "processing"]
<1>1. c \in Conversations /\ r \in Requests /\ r # NoRun /\ c.row # NoRow
  BY DEF Sound, Live, Owned
<1>2. /\ row \in RowRecords
      /\ row.status = c.row.status /\ row.attempts = c.row.attempts /\ row.job = c.row.job
      /\ row.taken = c.row.taken /\ row.asked = c.row.asked + 1 /\ row.calledOff = c.row.calledOff /\ row.orphan = c.row.orphan
  BY <1>1, RowFields, RowRecord
<1>3. decision \in Decisions /\ decision.state = "processing"
  BY <1>1 DEF Conversations, Decisions
<1> HIDE DEF row, decision
<1>4. n = [c EXCEPT !.known = r.of, !.row = row, !.decision = decision]
  BY DEF Asked, row, decision
<1>5. /\ n \in Conversations /\ n.row = row /\ n.row # NoRow
      /\ n.decision = decision /\ n.known = r.of /\ n.items = c.items
  BY <1>1, <1>2, <1>3, <1>4, RequestFields DEF Conversations, RowRecords
<1>6. /\ s \in Requests /\ s # NoRun /\ s.phase = "asking" /\ s.job = r.job /\ s.of = r.of /\ s.aborted = r.aborted
  BY <1>1, RequestFields DEF Requests, NoRun
<1>7. Owned(n, s) /\ Live(n, s)
  BY <1>2, <1>5, <1>6 DEF Owned, Live
<1>8. RowHolds(n, s)
  BY <1>1, <1>2, <1>3, <1>5, <1>6, <1>7, RowFields DEF Sound, RowHolds, Live
<1>9. RequestHolds(n, s, js, on)
  BY <1>1, <1>2, <1>5, <1>6 DEF Sound, RequestHolds, Live, Owned
<1>10. VersionsHold(n, s, v)
  BY <1>1, <1>3, <1>5, <1>6, RequestFields DEF Sound, VersionsHold, Version
<1>11. Carries(c, r, n, s, v) /\ ItemsKept(c, n, j)
  BY <1>1, <1>2, <1>5, <1>6 DEF Carries, Safe, Owned, ItemsKept
<1> QED BY <1>5, <1>6, <1>8, <1>9, <1>10, <1>11 DEF Sound

LEMMA AnswerSound ==
  ASSUME NEW c, NEW r, NEW js, NEW on, NEW v \in Version, Sound(c, r, js, on, v),
         Live(c, r), r.phase = "asking", NEW now \in Version,
         NEW s, s = [r EXCEPT !.phase = "reread", !.now = now], NEW j
  PROVE  Sound(c, s, js, on, v) /\ Carries(c, r, c, s, v) /\ ItemsKept(c, c, j)
<1>1. c \in Conversations /\ r \in Requests /\ r # NoRun /\ c.row # NoRow
  BY DEF Sound, Live, Owned
<1>2. /\ s \in Requests /\ s # NoRun /\ s.phase = "reread" /\ s.job = r.job /\ s.of = r.of /\ s.aborted = r.aborted
  BY <1>1, RequestFields DEF Requests, NoRun
<1>3. RowHolds(c, s) /\ RequestHolds(c, s, js, on) /\ VersionsHold(c, s, v)
  BY <1>1, <1>2 DEF Sound, RowHolds, RequestHolds, VersionsHold, Live, Owned
<1>4. Carries(c, r, c, s, v) /\ ItemsKept(c, c, j)
  BY <1>1, <1>2 DEF Carries, Safe, Owned, ItemsKept
<1> QED BY <1>1, <1>2, <1>3, <1>4 DEF Sound

\* The input has changed, or the request was called off: what is left is within what was called off.
LEMMA StaleSound ==
  ASSUME NEW c, NEW r, NEW js, NEW on, NEW v \in Version, Sound(c, r, js, on, v), c.row # NoRow,
         NEW changed \in BOOLEAN, ~changed => Owned(c, r) /\ r.aborted /\ r.phase # "read",
         NEW n, n = Ended(Stale(c, changed)), NEW j
  PROVE  Sound(n, NoRun, js, on, v) /\ Carries(c, r, n, NoRun, v) /\ ItemsKept(c, n, j) /\ n.row # NoRow
<1> DEFINE back == [c.row EXCEPT !.status = "queued", !.attempts = 0]
           decision == [c.decision EXCEPT !.state = "stale"]
<1>1. c \in Conversations
  BY DEF Sound
<1>2. /\ back \in RowRecords /\ back.status = "queued" /\ back.attempts = 0 /\ back.job = c.row.job
      /\ back.asked = c.row.asked /\ back.calledOff = c.row.calledOff
  <2>0. c.row \in [status : {"queued", "processing"}, attempts : 0 .. 3, job : Jobs \cup {NoJob},
                    taken : BOOLEAN, asked : Nat, calledOff : Nat, orphan : BOOLEAN]
    BY <1>1, RowFields
  <2>1. 0 \in 0 .. 3 /\ "queued" \in {"queued", "processing"}
    OBVIOUS
  <2>2. back \in [status : {"queued", "processing"}, attempts : 0 .. 3, job : Jobs \cup {NoJob},
                   taken : BOOLEAN, asked : Nat, calledOff : Nat, orphan : BOOLEAN]
    BY <2>0, <2>1, ZenonT(30)
  <2> QED BY <2>0, <2>2, RowRecord
<1> HIDE DEF back
<1>3. PICK row : row = IF changed THEN [back EXCEPT !.asked = 0, !.calledOff = 0] ELSE back
  OBVIOUS
<1>4. /\ row \in RowRecords /\ row.status = "queued" /\ row.attempts = 0 /\ row.job = c.row.job
      /\ row.asked <= 3 * row.calledOff
  <2>1. CASE ~changed
    BY <1>2, <1>3, <2>1 DEF Sound, RowHolds
  <2>2. CASE changed
    <3>1. back \in [status : {"queued", "processing"}, attempts : 0 .. 3, job : Jobs \cup {NoJob},
                     taken : BOOLEAN, asked : Nat, calledOff : Nat, orphan : BOOLEAN]
      BY <1>2 DEF RowRecords, Rows
    <3>2. PICK zero \in Nat : zero = 0
      OBVIOUS
    <3>3. row = [back EXCEPT !.asked = zero, !.calledOff = zero]
      BY <1>3, <2>2, <3>2
    <3>4. row \in [status : {"queued", "processing"}, attempts : 0 .. 3, job : Jobs \cup {NoJob},
                    taken : BOOLEAN, asked : Nat, calledOff : Nat, orphan : BOOLEAN]
      BY <3>1, <3>3, ZenonT(30)
    <3>5. /\ row.status = back.status /\ row.attempts = back.attempts /\ row.job = back.job
          /\ row.asked = zero /\ row.calledOff = zero
      BY <3>1, <3>3
    <3> QED BY <1>2, <3>2, <3>4, <3>5, RowRecord
  <2> QED BY <2>1, <2>2
<1>5. PICK free : free = [row EXCEPT !.taken = FALSE]
  OBVIOUS
<1>6. /\ free \in RowRecords /\ free.status = "queued" /\ free.attempts = 0 /\ free.job = c.row.job
      /\ free.taken = FALSE /\ free.asked <= 3 * free.calledOff /\ free.asked \in Nat /\ free.calledOff \in Nat
  <2>1. free \in RowRecords /\ free.asked = row.asked /\ free.calledOff = row.calledOff
    BY <1>4, <1>5, FreedRow
  <2>2. free.asked \in Nat /\ free.calledOff \in Nat
    BY <2>1 DEF RowRecords, Rows
  <2> QED BY <1>4, <1>5, <2>1, <2>2, FreedRow
<1>7. decision \in Decisions /\ decision.state = "stale"
  BY <1>1 DEF Conversations, Decisions
<1>8. PICK m : m = [c EXCEPT !.row = row, !.decision = decision]
  OBVIOUS
<1>9. m = Stale(c, changed)
  BY <1>3, <1>8 DEF Stale, back
<1> HIDE DEF decision
<1>10. m \in Conversations /\ m.row = row /\ m.decision = decision /\ m.known = c.known /\ m.items = c.items
  BY <1>1, <1>4, <1>7, <1>8 DEF Conversations, RowRecords
<1>11. n = [m EXCEPT !.row = free]
  BY <1>4, <1>5, <1>9, <1>10 DEF Ended, RowRecords
<1>12. /\ n \in Conversations /\ n.row = free /\ n.row # NoRow
       /\ n.decision = decision /\ n.known = c.known /\ n.items = c.items
  BY <1>6, <1>10, <1>11, RowReplaced
<1>13. RowHolds(n, NoRun)
  <2>1. n.row.job # NoJob => n.items[n.row.job] = "pending"
    BY <1>6, <1>12 DEF Sound, RowHolds
  <2> QED BY <1>6, <1>7, <1>12, <2>1 DEF RowHolds, Owned
<1>14. RequestHolds(n, NoRun, js, on) /\ VersionsHold(n, NoRun, v)
  BY <1>7, <1>12 DEF Sound, RequestHolds, VersionsHold, Live, Owned
<1>15. Carries(c, r, n, NoRun, v) /\ ItemsKept(c, n, j)
  BY <1>12 DEF Carries, Safe, Owned, ItemsKept
<1> QED BY <1>12, <1>13, <1>14, <1>15, NamedRecords DEF Sound

LEMMA RetriedSound ==
  ASSUME NEW c, NEW r, NEW js, NEW on, NEW v \in Version, Sound(c, r, js, on, v), c.row # NoRow, c.row.attempts < 2,
         NEW n, n = Ended(Retried(c)), NEW j
  PROVE  Sound(n, NoRun, js, on, v) /\ Carries(c, r, n, NoRun, v) /\ ItemsKept(c, n, j) /\ n.row # NoRow
<1> DEFINE row == [c.row EXCEPT !.status = "queued", !.attempts = c.row.attempts + 1]
           free == [row EXCEPT !.taken = FALSE]
<1>1. c \in Conversations
  BY DEF Sound
<1>2. /\ row \in RowRecords /\ free \in RowRecords
      /\ free.status = "queued" /\ free.attempts = c.row.attempts + 1 /\ free.job = c.row.job
      /\ free.taken = FALSE /\ free.asked = c.row.asked /\ free.calledOff = c.row.calledOff
  <2>0. c.row \in [status : {"queued", "processing"}, attempts : 0 .. 3, job : Jobs \cup {NoJob},
                    taken : BOOLEAN, asked : Nat, calledOff : Nat, orphan : BOOLEAN]
    BY <1>1, RowFields
  <2>a. c.row.attempts + 1 \in 0 .. 3
    BY <1>1, RowFields
  <2>b. row \in [status : {"queued", "processing"}, attempts : 0 .. 3, job : Jobs \cup {NoJob},
                    taken : BOOLEAN, asked : Nat, calledOff : Nat, orphan : BOOLEAN]
    BY <2>0, <2>a
  <2>1. /\ row \in RowRecords /\ row.status = "queued" /\ row.attempts = c.row.attempts + 1
        /\ row.job = c.row.job /\ row.asked = c.row.asked /\ row.calledOff = c.row.calledOff
    BY <2>0, <2>b, RowRecord
  <2> HIDE DEF row
  <2> QED BY <2>1, FreedRow
<1>3. PICK m : m = [c EXCEPT !.row = row]
  OBVIOUS
<1>4. m = Retried(c)
  BY <1>1, <1>3, RowFields DEF Retried
<1> HIDE DEF row
<1>5. m \in Conversations /\ m.row = row /\ m.row # NoRow /\ m.decision = c.decision /\ m.known = c.known /\ m.items = c.items
  BY <1>1, <1>2, <1>3, RowReplaced
<1>6. n = [m EXCEPT !.row = free]
  BY <1>4, <1>5 DEF Ended
<1> HIDE DEF free
<1>7. /\ n \in Conversations /\ n.row = free /\ n.row # NoRow
      /\ n.decision = c.decision /\ n.known = c.known /\ n.items = c.items
  BY <1>2, <1>5, <1>6, RowReplaced
<1>8. RowHolds(n, NoRun) /\ RequestHolds(n, NoRun, js, on) /\ VersionsHold(n, NoRun, v)
  BY <1>1, <1>2, <1>7, RowFields DEF Sound, RowHolds, RequestHolds, VersionsHold, Live, Owned
<1>9. Carries(c, r, n, NoRun, v) /\ ItemsKept(c, n, j)
  BY <1>7 DEF Carries, Safe, Owned, ItemsKept
<1> QED BY <1>7, <1>8, <1>9, NamedRecords DEF Sound

LEMMA JobsMoved ==
  ASSUME NEW c, NEW r, NEW js, NEW on, NEW v, Sound(c, r, js, on, v), NEW js2,
         Live(c, r) /\ r.job # NoJob /\ Runs(js, r.job) /\ c.items[r.job] = "pending" => Runs(js2, r.job)
  PROVE  Sound(c, r, js2, on, v)
BY DEF Sound, RequestHolds

LEMMA InterruptedSound ==
  ASSUME NEW c, NEW r, NEW js, NEW on, NEW v \in Version, Sound(c, r, js, on, v),
         NEW n, n = [c EXCEPT !.row = Interrupted(c.row)], NEW j
  PROVE  Sound(n, NoRun, js, on, v) /\ Carries(c, r, n, NoRun, v) /\ ItemsKept(c, n, j) /\ (n.row = NoRow <=> c.row = NoRow)
<1>0. c \in Conversations
  BY DEF Sound
<1>1. CASE c.row = NoRow
  <2>1. Interrupted(c.row) = NoRow
    BY <1>1, NamedRecords DEF Interrupted
  <2>2. n \in Conversations /\ n.row = NoRow /\ n.decision = c.decision /\ n.known = c.known /\ n.items = c.items
    BY <1>0, <2>1, NamedRecords DEF Conversations
  <2> QED BY <1>1, <2>2, NamedRecords DEF Sound, RowHolds, RequestHolds, VersionsHold, Carries, Safe, ItemsKept, Owned, Live
<1>2. CASE c.row # NoRow
  <2> DEFINE row == Interrupted(c.row)
  <2>1. /\ row \in RowRecords /\ row.status = "queued" /\ row.job = c.row.job /\ row.asked \in Nat /\ row.calledOff \in Nat
        /\ row.asked <= row.attempts + 3 * row.calledOff
    <3>1. CASE c.row.status = "processing"
      <4> DEFINE attempts == IF c.row.attempts = 3 THEN 3 ELSE c.row.attempts + 1
      <4>1. /\ c.row \in [status : {"queued", "processing"}, attempts : 0 .. 3, job : Jobs \cup {NoJob},
                          taken : BOOLEAN, asked : Nat, calledOff : Nat, orphan : BOOLEAN]
            /\ attempts \in 0 .. 3 /\ attempts = c.row.attempts + 1
        BY <1>0, <1>2, <3>1, RowFields DEF Sound, RowHolds
      <4>2. row = [c.row EXCEPT !.status = "queued", !.taken = FALSE, !.orphan = FALSE, !.attempts = attempts]
        BY <3>1 DEF Interrupted
      <4> HIDE DEF attempts
      <4>3. /\ row \in [status : {"queued", "processing"}, attempts : 0 .. 3, job : Jobs \cup {NoJob},
                        taken : BOOLEAN, asked : Nat, calledOff : Nat, orphan : BOOLEAN]
            /\ row.status = "queued" /\ row.job = c.row.job /\ row.asked = c.row.asked /\ row.attempts = attempts
            /\ row.calledOff = c.row.calledOff
        BY <4>1, <4>2
      <4>4. row \in RowRecords
        BY <4>3, RowRecord
      <4>5. c.row.asked <= c.row.attempts + 1 + 3 * c.row.calledOff /\ row.asked \in Nat /\ row.calledOff \in Nat
        BY <1>2, <4>3 DEF Sound, RowHolds
      <4> QED BY <4>1, <4>3, <4>4, <4>5
    <3>2. CASE c.row.status = "queued"
      <4>1. row = c.row
        BY <3>2 DEF Interrupted
      <4>2. ~Live(c, r)
        BY <3>2 DEF Sound, RequestHolds
      <4> QED BY <1>0, <1>2, <3>2, <4>1, <4>2, RowFields, RowRecord DEF Sound, RowHolds
    <3> QED BY <1>0, <1>2, <3>1, <3>2, RowFields
  <2> HIDE DEF row
  <2>2. /\ n \in Conversations /\ n.row = row /\ n.row # NoRow
        /\ n.decision = c.decision /\ n.known = c.known /\ n.items = c.items
    BY <1>0, <2>1, RowReplaced DEF row
  <2>3. RowHolds(n, NoRun)
    <3>1. /\ n.row.status = "queued" /\ n.row.attempts \in Nat /\ n.row.asked \in Nat /\ n.row.calledOff \in Nat
          /\ n.row.asked <= n.row.attempts + 3 * n.row.calledOff
      <4>1. n.row.attempts \in 0 .. 3
        BY <2>2, RowFields
      <4> QED BY <2>1, <2>2, <4>1
    <3>2. n.decision.state \in {"pending", "processing", "stale"} /\ (n.row.job # NoJob => n.items[n.row.job] = "pending")
      BY <1>2, <2>1, <2>2 DEF Sound, RowHolds
    <3> QED BY <3>1, <3>2 DEF RowHolds, Owned
  <2>4. RequestHolds(n, NoRun, js, on) /\ VersionsHold(n, NoRun, v)
    BY <1>2, <2>2 DEF Sound, RequestHolds, VersionsHold, Live, Owned
  <2>5. Carries(c, r, n, NoRun, v) /\ ItemsKept(c, n, j)
    BY <1>2, <2>2 DEF Carries, Safe, Owned, ItemsKept
  <2> QED BY <1>2, <2>2, <2>3, <2>4, <2>5, NamedRecords DEF Sound
<1> QED BY <1>1, <1>2

LEMMA AbortedShape ==
  ASSUME NEW r \in Requests, r # NoRun, NEW s, s = [r EXCEPT !.aborted = TRUE]
  PROVE  s \in Requests /\ s # NoRun /\ s.phase = r.phase /\ s.job = r.job /\ s.of = r.of /\ s.aborted = TRUE
<1>1. r \in [phase : {"read", "asking", "reread"}, job : Jobs \cup {NoJob}, of : Version, aborted : BOOLEAN, now : Version]
  BY DEF Requests
<1>2. /\ s \in [phase : {"read", "asking", "reread"}, job : Jobs \cup {NoJob}, of : Version, aborted : BOOLEAN, now : Version]
      /\ s.phase = r.phase /\ s.job = r.job /\ s.of = r.of /\ s.aborted = TRUE
  BY <1>1
<1>3. s # NoRun
  BY <1>2, NamedRecords
<1> QED BY <1>2, <1>3 DEF Requests

\* Settings: nothing is queued any more, and nobody waits for an answer.
LEMMA ClearedSound ==
  ASSUME NEW c, NEW r, NEW js, NEW on, NEW v \in Version, Sound(c, r, js, on, v), NEW model \in BOOLEAN,
         NEW n, n = Cleared(c, model), NEW s, s = IF r # NoRun THEN [r EXCEPT !.aborted = TRUE] ELSE r, NEW js2, NEW on2
  PROVE  Sound(n, s, js2, on2, v) /\ Carries(c, r, n, s, v) /\ n.row = NoRow /\ n.items = c.items
<1>1. c \in Conversations /\ r \in Requests
  BY DEF Sound
<1>2. PICK decision : decision = [c.decision EXCEPT !.fresh = c.decision.fresh /\ ~model]
  OBVIOUS
<1>3. decision \in Decisions /\ decision.state = c.decision.state /\ decision.of = c.decision.of
  <2>1. c.decision \in Decisions /\ (c.decision.fresh /\ ~model) \in BOOLEAN
    BY <1>1, ConversationFields
  <2> QED BY <1>2, <2>1 DEF Decisions
<1>4. n = [c EXCEPT !.row = NoRow, !.decision = decision]
  BY <1>2 DEF Cleared
<1>5. n \in Conversations /\ n.row = NoRow /\ n.decision = decision /\ n.known = c.known /\ n.items = c.items
  <2>1. PICK row \in Rows : row = NoRow
    BY NamedRecords
  <2>2. n = [c EXCEPT !.row = row, !.decision = decision] /\ decision \in Decisions
    BY <1>3, <1>4, <2>1
  <2>3. n \in Conversations /\ n.row = row /\ n.decision = decision /\ n.known = c.known /\ n.items = c.items
    BY <1>1, <2>2 DEF Conversations
  <2> QED BY <2>1, <2>3
<1>6. s \in Requests /\ (s = NoRun <=> r = NoRun) /\ (r # NoRun => s.of = r.of)
  <2>1. CASE r # NoRun
    BY <1>1, <2>1, AbortedShape
  <2>2. CASE r = NoRun
    BY <1>1, <2>2
  <2> QED BY <2>1, <2>2
<1>7. Sound(n, s, js2, on2, v)
  BY <1>3, <1>5, <1>6 DEF Sound, RowHolds, RequestHolds, VersionsHold, Owned, Live
<1>8. Carries(c, r, n, s, v)
  BY <1>3, <1>5, <1>6 DEF Sound, RowHolds, Carries, Safe, Owned
<1> QED BY <1>5, <1>7, <1>8

\* A control of job j: what its requests have taken goes back.
LEMMA CalledOffSound ==
  ASSUME NEW t \in Threads, NEW j \in Jobs, NEW c, c = conv[t], NEW r, r = run[t], NEW js, NEW on, NEW v \in Version,
         Sound(c, r, js, on, v),
         NEW n, n = CalledOff(j)[t], NEW s, s = Aborted(OfJob(j))[t]
  PROVE  /\ Sound(n, s, js, on, v) /\ Carries(c, r, n, s, v)
         /\ n.items = c.items /\ (n.row = NoRow <=> c.row = NoRow)
         /\ Live(n, s) => s.job # j /\ n.row.job # j
<1> DEFINE off == r # NoRun /\ r.job = j
           called == off /\ ~r.aborted /\ c.row # NoRow /\ c.row.taken
<1>1. c \in Conversations /\ r \in Requests /\ NoJob \notin Jobs
  BY TriageAssumption DEF Sound
<1>2. /\ s \in Requests /\ (s = NoRun <=> r = NoRun)
      /\ r # NoRun => s.phase = r.phase /\ s.job = r.job /\ s.of = r.of /\ s.aborted = (r.aborted \/ off)
  <2>1. s = IF off THEN [r EXCEPT !.aborted = TRUE] ELSE r
    BY DEF Aborted, OfJob
  <2>2. CASE off
    BY <1>1, <2>1, <2>2, AbortedShape
  <2>3. CASE ~off
    BY <1>1, <2>1, <2>3, RequestFields
  <2> QED BY <2>2, <2>3
<1>3. CASE c.row = NoRow
  <2>1. n = c
    BY <1>3 DEF CalledOff
  <2> QED BY <1>1, <1>2, <1>3, <2>1 DEF Sound, RowHolds, RequestHolds, VersionsHold, Carries, Safe, Owned, Live
<1>4. CASE c.row # NoRow
  <2> DEFINE status == IF c.row.job = j THEN "queued" ELSE c.row.status
             calledOff == IF called /\ r.phase # "read" THEN c.row.calledOff + 1 ELSE c.row.calledOff
             orphan == c.row.orphan \/ (called /\ c.row.job # j)
             row == [c.row EXCEPT !.status = status, !.calledOff = calledOff, !.orphan = orphan]
  <2>1. n = [c EXCEPT !.row = row]
    BY <1>4 DEF CalledOff, OfJob
  <2>2. called <=> Live(c, r) /\ r.job = j
    BY <1>4 DEF Live, Owned
  <2>3. /\ c.row \in [status : {"queued", "processing"}, attempts : 0 .. 3, job : Jobs \cup {NoJob},
                      taken : BOOLEAN, asked : Nat, calledOff : Nat, orphan : BOOLEAN]
        /\ status \in {"queued", "processing"} /\ calledOff \in Nat /\ orphan \in BOOLEAN
    BY <1>1, <1>4, RowFields
  <2>4. /\ row \in [status : {"queued", "processing"}, attempts : 0 .. 3, job : Jobs \cup {NoJob},
                    taken : BOOLEAN, asked : Nat, calledOff : Nat, orphan : BOOLEAN]
        /\ row.status = status /\ row.attempts = c.row.attempts /\ row.job = c.row.job
        /\ row.taken = c.row.taken /\ row.asked = c.row.asked /\ row.calledOff = calledOff /\ row.orphan = orphan
    <3> HIDE DEF status, calledOff, orphan
    <3> QED BY <2>3
  <2>5. row \in RowRecords
    BY <2>4, RowRecord
  <2> HIDE DEF row
  <2>6. /\ n \in Conversations /\ n.row = row /\ n.row # NoRow
        /\ n.decision = c.decision /\ n.known = c.known /\ n.items = c.items
    BY <1>1, <2>1, <2>5, RowReplaced
  <2>7. Owned(n, s) <=> Owned(c, r)
    BY <1>2, <1>4, <2>4, <2>6 DEF Owned
  <2>8. Live(n, s) <=> Live(c, r) /\ r.job # j
    BY <1>2, <2>7 DEF Live, Owned
  <2>9. RowHolds(n, s)
    <3>1. /\ n.decision.state \in {"pending", "processing", "stale"}
          /\ n.row.job # NoJob => n.items[n.row.job] = "pending"
      BY <1>4, <2>4, <2>6 DEF Sound, RowHolds
    <3>2. n.row.status = "processing" => n.row.attempts < 3 /\ (n.row.orphan \/ Live(n, s))
      BY <1>4, <2>2, <2>4, <2>6, <2>8 DEF Sound, RowHolds
    <3>3. c.row.attempts \in 0 .. 3 /\ c.row.asked \in Nat /\ c.row.calledOff \in Nat
      BY <2>3
    <3>4. CASE called /\ r.phase # "read"
      <4>1. c.row.asked <= 3 + 3 * c.row.calledOff
        BY <1>4, <2>2, <3>3, <3>4 DEF Sound, RowHolds, RequestHolds
      <4>2. n.row.asked = c.row.asked /\ n.row.calledOff = c.row.calledOff + 1 /\ n.row.attempts = c.row.attempts
        BY <2>4, <2>6, <3>4
      <4>3. /\ n.row.asked <= n.row.attempts + 1 + 3 * n.row.calledOff
            /\ n.row.asked <= n.row.attempts + 3 * n.row.calledOff
            /\ n.row.asked <= 3 * n.row.calledOff
        BY <3>3, <4>1, <4>2
      <4> QED BY <3>1, <3>2, <4>3 DEF RowHolds
    <3>5. CASE ~(called /\ r.phase # "read")
      <4>1. n.row.asked = c.row.asked /\ n.row.calledOff = c.row.calledOff /\ n.row.attempts = c.row.attempts
        BY <2>4, <2>6, <3>5
      <4>2. /\ c.row.asked <= c.row.attempts + 1 + 3 * c.row.calledOff
            /\ c.row.asked <= c.row.attempts + 3 * c.row.calledOff \/ (Live(c, r) /\ r.phase # "read")
            /\ Owned(c, r) /\ r.aborted /\ r.phase # "read" => c.row.asked <= 3 * c.row.calledOff
        BY <1>4 DEF Sound, RowHolds
      <4>3. Live(c, r) /\ r.phase # "read" => Live(n, s) /\ s.phase # "read"
        BY <1>2, <2>2, <2>8, <3>5 DEF Live, Owned
      <4>4. Owned(n, s) /\ s.aborted /\ s.phase # "read" => Owned(c, r) /\ r.aborted /\ r.phase # "read"
        BY <1>2, <2>2, <2>7, <3>5 DEF Live, Owned
      <4> QED BY <3>1, <3>2, <4>1, <4>2, <4>3, <4>4 DEF RowHolds
    <3> QED BY <3>4, <3>5
  <2>10. Live(n, s) => s.job # j /\ n.row.job # j
    BY <1>1, <1>2, <2>4, <2>6, <2>8 DEF Sound, RequestHolds, Live, Owned
  <2>11. RequestHolds(n, s, js, on)
    BY <1>2, <2>2, <2>4, <2>6, <2>8, <2>10 DEF Sound, RequestHolds, Live, Owned
  <2>12. VersionsHold(n, s, v)
    BY <1>2, <2>6, <2>7 DEF Sound, VersionsHold, Owned
  <2>13. Carries(c, r, n, s, v)
    BY <1>2, <1>4, <2>6, <2>7 DEF Carries, Safe, Owned
  <2> QED BY <1>2, <1>4, <2>6, <2>9, <2>10, <2>11, <2>12, <2>13 DEF Sound
<1> QED BY <1>3, <1>4

\* The row of a cancelled job's item goes to another job, or goes.
LEMMA SurrenderedSound ==
  ASSUME NEW j \in Jobs, NEW c, NEW r, NEW js, NEW on, NEW v \in Version, Sound(c, r, js, on, v),
         Live(c, r) => r.job # j /\ c.row.job # j,
         NEW n \in Surrendered(j, c)
  PROVE  /\ Sound(n, r, js, on, v) /\ Carries(c, r, n, r, v) /\ n.items = c.items
         /\ n.row # NoRow => c.row # NoRow
         /\ \A k \in Jobs \ {j} :
              c.items[k] = "pending" /\ jobs[k].status \in {"running", "paused"} /\ c.row # NoRow => n.row # NoRow
<1> DEFINE others == {k \in Jobs \ {j} : c.items[k] = "pending" /\ jobs[k].status \in {"running", "paused"}}
<1>1. c \in Conversations
  BY DEF Sound
<1>2. CASE c.row = NoRow \/ c.row.job # j
  <2>1. n = c
    BY <1>2 DEF Surrendered
  <2> QED BY <2>1 DEF Carries
<1>3. CASE c.row # NoRow /\ c.row.job = j /\ others # {}
  <2>1. PICK k \in others : n = [c EXCEPT !.row = [c.row EXCEPT !.job = k]]
    BY <1>3 DEF Surrendered
  <2> DEFINE row == [c.row EXCEPT !.job = k]
  <2>2. /\ row \in RowRecords /\ row.status = c.row.status /\ row.attempts = c.row.attempts /\ row.job = k
        /\ row.taken = c.row.taken /\ row.asked = c.row.asked /\ row.calledOff = c.row.calledOff /\ row.orphan = c.row.orphan
    <3>1. c.row \in [status : {"queued", "processing"}, attempts : 0 .. 3, job : Jobs \cup {NoJob},
                     taken : BOOLEAN, asked : Nat, calledOff : Nat, orphan : BOOLEAN]
      BY <1>1, <1>3, RowFields
    <3>2. k \in Jobs \cup {NoJob}
      OBVIOUS
    <3> QED BY <3>1, <3>2, RowRecord
  <2> HIDE DEF row
  <2>3. /\ n \in Conversations /\ n.row = row /\ n.row # NoRow
        /\ n.decision = c.decision /\ n.known = c.known /\ n.items = c.items
    BY <1>1, <2>1, <2>2, RowReplaced DEF row
  <2>4. ~Live(c, r) /\ ~Live(n, r) /\ (Owned(n, r) <=> Owned(c, r))
    BY <1>3, <2>2, <2>3 DEF Live, Owned
  <2>5. RowHolds(n, r)
    BY <1>3, <2>2, <2>3, <2>4 DEF Sound, RowHolds
  <2>6. RequestHolds(n, r, js, on) /\ VersionsHold(n, r, v)
    BY <2>3, <2>4 DEF Sound, RequestHolds, VersionsHold
  <2>7. Carries(c, r, n, r, v)
    BY <1>3, <2>3, <2>4 DEF Carries, Safe
  <2> QED BY <1>3, <2>3, <2>5, <2>6, <2>7 DEF Sound
<1>4. CASE c.row # NoRow /\ c.row.job = j /\ others = {}
  <2>1. PICK decision : decision = [c.decision EXCEPT !.state = "stale"]
    OBVIOUS
  <2>2. n = [c EXCEPT !.row = NoRow, !.decision = decision]
    BY <1>4, <2>1 DEF Surrendered
  <2>3. decision \in Decisions /\ decision.state = "stale"
    BY <1>1, <2>1 DEF Conversations, Decisions
  <2>4. n \in Conversations /\ n.row = NoRow /\ n.decision = decision /\ n.known = c.known /\ n.items = c.items
    BY <1>1, <2>2, <2>3, NamedRecords DEF Conversations
  <2>5. Sound(n, r, js, on, v)
    BY <2>3, <2>4 DEF Sound, RowHolds, RequestHolds, VersionsHold, Owned, Live
  <2>6. Carries(c, r, n, r, v)
    BY <2>3, <2>4 DEF Carries, Safe, Owned
  <2> QED BY <1>4, <2>4, <2>5, <2>6
<1> QED BY <1>2, <1>3, <1>4

\* What a page of the reader plans for a conversation.
PlanHolds(plan, v) ==
  /\ plan \in Plans /\ plan.last <= v
  /\ \A version \in plan.versions : version # 0 /\ version <= v
  /\ plan.versions # {} => plan.last \in plan.versions
  /\ plan.last # 0 => plan.versions # {}

LEMMA CarriedSound ==
  ASSUME NEW c, NEW r, NEW js, NEW on, NEW v \in Version, Sound(c, r, js, on, v), r \in Requests,
         NEW plan, PlanHolds(plan, v),
         NEW n, n = Carried(c, plan)
  PROVE  /\ Sound(n, r, js, on, v) /\ Carries(c, r, n, r, v) /\ ItemsKept(c, n, NoJob)
         /\ plan.last = v /\ v # 0 => Safe(n, r, v)
<1>1. PICK left : left = IF plan.removed THEN Removed(c) ELSE c
  OBVIOUS
<1>2. PICK base : base = IF plan.versions \subseteq {left.known} THEN left ELSE [left EXCEPT !.known = 0]
  OBVIOUS
<1>3. n = IF plan.versions = {} THEN left ELSE Enqueue(base, plan.last, NoJob)
  BY <1>1, <1>2 DEF Carried
<1>4. /\ Sound(left, r, js, on, v) /\ Carries(c, r, left, r, v) /\ ItemsKept(c, left, NoJob)
  <2>1. CASE plan.removed
    BY <1>1, <2>1, RemovedSound
  <2>2. CASE ~plan.removed
    BY <1>1, <2>2 DEF Carries, ItemsKept
  <2> QED BY <2>1, <2>2
<1>5. plan.last \in Version /\ plan.last <= v
  BY DEF PlanHolds, Plans
<1>6. CASE plan.versions = {}
  BY <1>3, <1>4, <1>6 DEF PlanHolds
<1>7. CASE plan.versions # {} /\ plan.versions \subseteq {left.known}
  <2>1. n = Enqueue(left, plan.last, NoJob) /\ NoJob \in Jobs \cup {NoJob}
    BY <1>2, <1>3, <1>7
  <2>2. /\ Sound(n, r, js, on, v) /\ Carries(left, r, n, r, v) /\ ItemsKept(left, n, NoJob)
        /\ plan.last = v => Safe(n, r, v)
    BY <1>4, <1>5, <2>1, EnqueueSound
  <2>3. /\ Carries(c, r, n, r, v)
    BY <1>4, <2>2 DEF Carries
  <2>4. ItemsKept(c, n, NoJob)
    BY <1>4, <2>2, TriageAssumption DEF ItemsKept
  <2> QED BY <2>2, <2>3, <2>4
<1>8. CASE plan.versions # {} /\ ~(plan.versions \subseteq {left.known})
  <2>1. base = [left EXCEPT !.known = 0] /\ n = Enqueue(base, plan.last, NoJob) /\ NoJob \in Jobs \cup {NoJob} /\ plan.last # 0
    BY <1>2, <1>3, <1>8 DEF PlanHolds
  <2>2. base \in Conversations /\ base.known = 0 /\ base.items = left.items
    BY <1>4, <2>1, TriageAssumption DEF Sound, Conversations, Version
  <2>3. /\ n \in Conversations /\ n.row = Queued(NoJob) /\ n.known = plan.last
        /\ n.decision.state = "pending" /\ EnqueuedItems(base, n, NoJob)
    <3>1. PICK version \in Version : version = plan.last
      BY <1>5
    <3>2. n = Enqueue(base, version, NoJob) /\ base.known # version
      BY <2>1, <2>2, <3>1
    <3>3. /\ n \in Conversations /\ n.row = Queued(NoJob) /\ n.known = version
          /\ n.decision.state = "pending" /\ EnqueuedItems(base, n, NoJob)
      <4>1. PICK j \in Jobs \cup {NoJob} : j = NoJob
        OBVIOUS
      <4>2. n = Enqueue(base, version, j)
        BY <3>2, <4>1
      <4>3. /\ n \in Conversations /\ n.row = Queued(j) /\ n.known = version
            /\ n.decision.state = "pending" /\ EnqueuedItems(base, n, j)
        BY <2>2, <3>2, <4>2, EnqueuedAnew
      <4> QED BY <4>1, <4>3
    <3> QED BY <3>1, <3>3
  <2>4. /\ n.row # NoRow /\ n.row.status = "queued" /\ n.row.attempts = 0 /\ n.row.job = NoJob
        /\ n.row.taken = FALSE /\ n.row.asked = 0 /\ n.row.calledOff = 0
    BY <2>3, NamedRecords
  <2>5. ~Owned(n, r)
    BY <2>4 DEF Owned
  <2>6. Sound(n, r, js, on, v)
    BY <1>4, <1>5, <2>3, <2>4, <2>5 DEF Sound, RowHolds, RequestHolds, VersionsHold, Live
  <2>7. Carries(c, r, n, r, v) /\ Safe(n, r, v)
    BY <2>4, <2>5 DEF Carries, Safe
  <2>8. ItemsKept(c, n, NoJob)
    <3>1. \A k \in Jobs : n.items[k] = left.items[k]
      BY <2>2, <2>3, TriageAssumption DEF EnqueuedItems
    <3> QED BY <1>4, <2>4, <3>1 DEF ItemsKept
  <2> QED BY <2>6, <2>7, <2>8
<1> QED BY <1>6, <1>7, <1>8

LEMMA StillSound ==
  ASSUME NEW c, NEW r, NEW v, NEW j
  PROVE  Carries(c, r, c, r, v) /\ ItemsKept(c, c, j)
BY DEF Carries, ItemsKept

----------------------------------------------------------------------------
(* The inductive invariant. *)

\* Every conversation's rows agree with its request, its jobs and its mail.
RowsHold == \A t \in Threads : Sound(conv[t], run[t], jobs, enabled, mail[t].version)

\* Positions and versions of the reader, of a recovery and of the inventories.
DrainHolds ==
  drain # Off =>
    /\ ~lost /\ recovery = Off
    /\ drain.read <= drain.size /\ drain.size <= Len(unread)
    /\ \A t \in Threads : PlanHolds(drain.plans[t], mail[t].version)

RecoveryHolds ==
  /\ recovery # Off => lost /\ drain = Off /\ \A t \in Threads : recovery.seen[t] <= mail[t].version
  /\ recovery.phase = "page" =>
       /\ recovery.target <= Len(unread)
       /\ \A t \in Threads : recovery.page[t] <= mail[t].version

InventoryHolds ==
  \A j \in Jobs : inventory[j].phase = "page" => \A t \in Threads : inventory[j].page[t] <= mail[t].version

Expected(t) == Safe(conv[t], run[t], mail[t].version)

After(t, n) == \E i \in DOMAIN unread : i > n /\ unread[i] = t

\* An event that the reader has still to come to, or whose page plans the version there is.
Awaited(t) ==
  \E i \in DOMAIN unread :
    unread[i] = t /\ (drain # Off /\ i <= drain.read => drain.plans[t].last = mail[t].version)

\* A recovery has put right what it has seen in the inbox, and what its page missed comes after its target.
Follows(t) ==
  mail[t].shown =>
    /\ mail[t].version # 0
    /\ ~lost /\ t \notin missed => Expected(t) \/ Awaited(t)
    /\ recovery # Off /\ recovery.seen[t] = mail[t].version => Expected(t)
    /\ recovery.phase = "page" =>
         /\ recovery.page[t] \notin {0, mail[t].version} => After(t, recovery.target)
         /\ t \notin missed => Expected(t) \/ After(t, recovery.target) \/ t \in recovery.left

ReaderFollows == \A t \in Threads : Follows(t)

\* A job that has not begun has no inventory and waits for nothing; a page that does not yield looks
\* at its job before every item, and so no item is listed for a job that has been cancelled.
JobsHold ==
  /\ \A j \in Jobs : jobs[j].status = "none" =>
       /\ inventory[j] = Off
       /\ \A t \in Threads : conv[t].items[j] # "pending"
  /\ ~SliceYields => PendingItemsAreQueued

TriageInv == TypeOK /\ RowsHold /\ DrainHolds /\ RecoveryHolds /\ InventoryHolds /\ ReaderFollows /\ JobsHold

----------------------------------------------------------------------------
(* Steps that change rows and requests, and leave mail, reader and inventories alone. *)

\* conversations move from their rows and requests to others
Moves ==
  \A t \in Threads :
    /\ Sound(conv'[t], run'[t], jobs', enabled', mail[t].version)
    /\ Carries(conv[t], run[t], conv'[t], run'[t], mail[t].version)
    /\ t \in missed /\ t \notin missed' => conv[t].row = NoRow /\ conv'[t].row # NoRow

\* no item and no row of an item appears or goes unnoticed
ItemsMove ==
  \A j \in Jobs :
    /\ jobs'[j].status = "none" => jobs[j].status = "none"
    /\ \A t \in Threads : conv'[t].items[j] = "pending" =>
         /\ jobs'[j].status = "none" => conv[t].items[j] = "pending"
         /\ ~SliceYields /\ jobs'[j].status \in {"running", "paused"} /\ conv'[t].row = NoRow =>
              jobs[j].status \in {"running", "paused"} /\ conv[t].items[j] = "pending" /\ conv[t].row = NoRow

LEMMA RowsMoved ==
  ASSUME Moves, UNCHANGED mail
  PROVE  RowsHold'
BY DEF Moves, RowsHold

LEMMA JobsMovedOn ==
  ASSUME JobsHold, ItemsMove, \A j \in Jobs : jobs'[j].status = "none" => inventory'[j] = inventory[j]
  PROVE  JobsHold'
<1>1. ASSUME NEW j \in Jobs, jobs'[j].status = "none"
      PROVE  inventory'[j] = Off /\ \A t \in Threads : conv'[t].items[j] # "pending"
  BY <1>1 DEF JobsHold, ItemsMove
<1>2. ASSUME ~SliceYields, NEW j \in Jobs, NEW t \in Threads,
             jobs'[j].status \in {"running", "paused"}, conv'[t].items[j] = "pending"
      PROVE  conv'[t].row # NoRow
  BY <1>2 DEF JobsHold, ItemsMove, PendingItemsAreQueued
<1> QED BY <1>1, <1>2 DEF JobsHold, PendingItemsAreQueued

LEMMA FollowsMoved ==
  ASSUME ReaderFollows, Moves, UNCHANGED <<mail, unread, lost, drain, recovery>>
  PROVE  ReaderFollows'
<1> SUFFICES ASSUME NEW t \in Threads PROVE Follows(t)'
  BY DEF ReaderFollows
<1>1. Follows(t)
  BY DEF ReaderFollows
<1>2. Expected(t) => Expected(t)'
  BY DEF Moves, Carries, Expected
<1>3. t \in missed /\ t \notin missed' => Expected(t)'
  BY DEF Moves, Carries, Expected
<1>4. (Awaited(t)' <=> Awaited(t)) /\ \A n : After(t, n)' <=> After(t, n)
  BY DEF Awaited, After
<1>5. UNCHANGED <<mail, lost, recovery>>
  OBVIOUS
<1> QED BY <1>1, <1>2, <1>3, <1>4, <1>5 DEF Follows

LEMMA QuietHolds ==
  ASSUME DrainHolds, RecoveryHolds, InventoryHolds, UNCHANGED <<mail, unread, lost, drain, recovery, inventory>>
  PROVE  DrainHolds' /\ RecoveryHolds' /\ InventoryHolds'
BY DEF DrainHolds, RecoveryHolds, InventoryHolds

LEMMA MovesHold ==
  ASSUME TriageInv, TypeOK', Moves, ItemsMove, UNCHANGED <<mail, unread, lost, drain, recovery, inventory>>
  PROVE  TriageInv'
<1>1. RowsHold'
  BY RowsMoved DEF TriageInv
<1>2. JobsHold'
  BY JobsMovedOn DEF TriageInv
<1>3. ReaderFollows'
  BY FollowsMoved DEF TriageInv
<1>4. DrainHolds' /\ RecoveryHolds' /\ InventoryHolds'
  BY QuietHolds DEF TriageInv
<1> QED BY <1>1, <1>2, <1>3, <1>4 DEF TriageInv

\* A transaction that rewrites rows: the jobs whose items it settles may be over with it.
Transaction(new) ==
  \A t \in Threads :
    /\ Sound(new[t], run'[t], jobs, enabled, mail[t].version)
    /\ Carries(conv[t], run[t], new[t], run'[t], mail[t].version)
    /\ ItemsKept(conv[t], new[t], NoJob)

LEMMA RefreshedJobs ==
  ASSUME TypeOK, NEW new
  PROVE  /\ Refreshed(new) \in [Jobs -> JobRecords]
         /\ \A j \in Jobs :
              /\ Refreshed(new)[j] = jobs[j] \/ (Refreshed(new)[j].status = "over" /\ jobs[j].status = "running")
              /\ Refreshed(new)[j] = jobs[j] \/ \A t \in Threads : new[t].items[j] # "pending"
<1> SUFFICES ASSUME NEW j \in Jobs
             PROVE  /\ Refreshed(new)[j] \in JobRecords
                    /\ Refreshed(new)[j] = jobs[j] \/ (Refreshed(new)[j].status = "over" /\ jobs[j].status = "running")
                    /\ Refreshed(new)[j] = jobs[j] \/ \A t \in Threads : new[t].items[j] # "pending"
  BY DEF Refreshed
<1>1. jobs[j] \in JobRecords
  BY DEF TypeOK, JobRecords
<1>2. CASE /\ jobs[j] = [status |-> "running", enumerated |-> TRUE]
           /\ \E t \in Threads : conv[t].items[j] = "pending" /\ new[t].items[j] # "pending"
           /\ \A t \in Threads : new[t].items[j] # "pending"
  <2>1. Refreshed(new)[j] = [jobs[j] EXCEPT !.status = "over"]
    BY <1>2 DEF Refreshed
  <2>2. jobs[j].status = "running"
    BY <1>2
  <2>3. PICK record \in JobRecords : record = jobs[j]
    BY <1>1
  <2>4. [record EXCEPT !.status = "over"] \in JobRecords /\ [record EXCEPT !.status = "over"].status = "over"
    BY DEF JobRecords
  <2> QED BY <1>2, <2>1, <2>2, <2>3, <2>4
<1>3. CASE ~(/\ jobs[j] = [status |-> "running", enumerated |-> TRUE]
             /\ \E t \in Threads : conv[t].items[j] = "pending" /\ new[t].items[j] # "pending"
             /\ \A t \in Threads : new[t].items[j] # "pending")
  <2>1. Refreshed(new)[j] = jobs[j]
    BY <1>3 DEF Refreshed
  <2> QED BY <1>1, <2>1
<1> QED BY <1>2, <1>3

LEMMA Rewritten ==
  ASSUME TypeOK, NEW passed \in SUBSET Threads,
         NEW new \in [Threads -> Conversations], RewriteBut(passed, new), Transaction(new), UNCHANGED enabled
  PROVE  /\ conv' \in [Threads -> Conversations] /\ jobs' \in [Jobs -> JobRecords] /\ missed' \subseteq Threads
         /\ Moves /\ ItemsMove
<1>1. conv' = new /\ jobs' = Refreshed(new) /\ missed' = {t \in missed : conv[t].row # NoRow \/ new[t].row = NoRow} \cup passed
  BY DEF RewriteBut
<1>2. /\ jobs' \in [Jobs -> JobRecords]
      /\ \A j \in Jobs :
           /\ jobs'[j] = jobs[j] \/ (jobs'[j].status = "over" /\ jobs[j].status = "running")
           /\ jobs'[j] = jobs[j] \/ \A t \in Threads : new[t].items[j] # "pending"
  BY <1>1, RefreshedJobs
<1>3. missed' \subseteq Threads
  BY <1>1 DEF TypeOK
<1>4. Moves
  <2> SUFFICES ASSUME NEW t \in Threads
               PROVE  /\ Sound(conv'[t], run'[t], jobs', enabled', mail[t].version)
                      /\ Carries(conv[t], run[t], conv'[t], run'[t], mail[t].version)
                      /\ t \in missed /\ t \notin missed' => conv[t].row = NoRow /\ conv'[t].row # NoRow
    BY DEF Moves
  <2>1. /\ Sound(new[t], run'[t], jobs, enabled, mail[t].version)
        /\ Carries(conv[t], run[t], new[t], run'[t], mail[t].version)
    BY DEF Transaction
  <2>2. PICK c, r : c = new[t] /\ r = run'[t]
    OBVIOUS
  <2>3. Live(c, r) /\ r.job # NoJob /\ Runs(jobs, r.job) /\ c.items[r.job] = "pending" => Runs(jobs', r.job)
    <3> SUFFICES ASSUME r # NoRun, r.job # NoJob, Runs(jobs, r.job), c.items[r.job] = "pending" PROVE Runs(jobs', r.job)
      BY DEF Live, Owned
    <3>1. r.job \in Jobs
      BY <2>1, <2>2, RequestFields DEF Sound
    <3>2. jobs'[r.job] = jobs[r.job]
      BY <1>2, <2>2, <3>1
    <3> QED BY <3>2 DEF Runs
  <2>4. Sound(c, r, jobs, enabled, mail[t].version)
    BY <2>1, <2>2
  <2>5. PICK js2 : js2 = jobs'
    OBVIOUS
  <2>6. Sound(c, r, js2, enabled, mail[t].version)
    BY <2>3, <2>4, <2>5, JobsMoved
  <2> QED BY <1>1, <2>1, <2>2, <2>5, <2>6
<1>5. ItemsMove
  <2> SUFFICES ASSUME NEW j \in Jobs
               PROVE  /\ jobs'[j].status = "none" => jobs[j].status = "none"
                      /\ \A t \in Threads : conv'[t].items[j] = "pending" =>
                           /\ jobs'[j].status = "none" => conv[t].items[j] = "pending"
                           /\ ~SliceYields /\ jobs'[j].status \in {"running", "paused"} /\ conv'[t].row = NoRow =>
                                jobs[j].status \in {"running", "paused"} /\ conv[t].items[j] = "pending" /\ conv[t].row = NoRow
    BY DEF ItemsMove
  <2>1. jobs'[j].status \in {"none", "running", "paused"} => jobs'[j] = jobs[j]
    BY <1>2
  <2>2. \A t \in Threads : conv'[t].items[j] = "pending" =>
          conv[t].items[j] = "pending" /\ (conv'[t].row = NoRow => conv[t].row = NoRow)
    BY <1>1, TriageAssumption DEF Transaction, ItemsKept
  <2> QED BY <2>1, <2>2
<1> QED BY <1>1, <1>2, <1>3, <1>4, <1>5

LEMMA TransactionKeeps ==
  ASSUME TriageInv, NEW new \in [Threads -> Conversations], Rewrite(new), Transaction(new),
         run' \in [Threads -> Requests], cache' \subseteq Version,
         UNCHANGED <<mail, unread, lost, enabled, drain, recovery, inventory, budget>>
  PROVE  TriageInv'
<1>1. TypeOK
  BY DEF TriageInv
<1>2. PICK passed \in SUBSET Threads : RewriteBut(passed, new) /\ UNCHANGED enabled
  BY DEF Rewrite
<1>3. /\ conv' \in [Threads -> Conversations] /\ jobs' \in [Jobs -> JobRecords] /\ missed' \subseteq Threads
      /\ Moves /\ ItemsMove
  BY <1>1, <1>2, Rewritten
<1>4. TypeOK'
  BY <1>1, <1>3 DEF TypeOK, JobRecords
<1>5. UNCHANGED <<mail, unread, lost, drain, recovery, inventory>>
  OBVIOUS
<1> QED BY <1>3, <1>4, <1>5, MovesHold

LEMMA EndKeeps ==
  ASSUME TriageInv, NEW t \in Threads, NEW c, End(t, c), NEW n, n = Ended(c),
         Sound(n, NoRun, jobs, enabled, mail[t].version),
         Carries(conv[t], run[t], n, NoRun, mail[t].version), ItemsKept(conv[t], n, NoJob),
         cache' \subseteq Version, UNCHANGED <<mail, unread, lost, enabled, drain, recovery, inventory, budget>>
  PROVE  TriageInv'
<1>1. PICK new : new = [conv EXCEPT ![t] = n]
  OBVIOUS
<1>2. Rewrite(new) /\ run' = [run EXCEPT ![t] = NoRun]
  BY <1>1 DEF End
<1>3. conv \in [Threads -> Conversations] /\ run \in [Threads -> Requests]
  BY DEF TriageInv, TypeOK
<1>4. new \in [Threads -> Conversations] /\ run' \in [Threads -> Requests]
  BY <1>1, <1>2, <1>3, NamedRecords DEF Sound
<1>5. Transaction(new)
  <2> SUFFICES ASSUME NEW u \in Threads
               PROVE  /\ Sound(new[u], run'[u], jobs, enabled, mail[u].version)
                      /\ Carries(conv[u], run[u], new[u], run'[u], mail[u].version)
                      /\ ItemsKept(conv[u], new[u], NoJob)
    BY DEF Transaction
  <2>1. CASE u = t
    <3>1. new[u] = n /\ run'[u] = NoRun
      BY <1>1, <1>2, <1>3, <2>1
    <3> QED BY <2>1, <3>1
  <2>2. CASE u # t
    <3>1. new[u] = conv[u] /\ run'[u] = run[u]
      BY <1>1, <1>2, <1>3, <2>2
    <3>2. Sound(conv[u], run[u], jobs, enabled, mail[u].version)
      BY DEF TriageInv, RowsHold
    <3> QED BY <3>1, <3>2, StillSound
  <2> QED BY <2>1, <2>2
<1> QED BY <1>2, <1>4, <1>5, TransactionKeeps

\* A request begins or goes on: one row and one request change, no job.
LEMMA RequestKeeps ==
  ASSUME TriageInv, NEW t \in Threads, NEW n, NEW s, conv' = [conv EXCEPT ![t] = n], run' = [run EXCEPT ![t] = s],
         Sound(n, s, jobs, enabled, mail[t].version),
         Carries(conv[t], run[t], n, s, mail[t].version), ItemsKept(conv[t], n, NoJob),
         UNCHANGED <<mail, unread, lost, enabled, jobs, cache, drain, recovery, inventory, missed, budget>>
  PROVE  TriageInv'
<1>1. /\ TypeOK /\ RowsHold /\ conv \in [Threads -> Conversations] /\ run \in [Threads -> Requests]
  BY DEF TriageInv, TypeOK
<1>2. n \in Conversations /\ s \in Requests
  BY DEF Sound
<1>3. TypeOK'
  BY <1>1, <1>2 DEF TypeOK
<1>4. Moves
  <2> SUFFICES ASSUME NEW u \in Threads
               PROVE  /\ Sound(conv'[u], run'[u], jobs', enabled', mail[u].version)
                      /\ Carries(conv[u], run[u], conv'[u], run'[u], mail[u].version)
    BY DEF Moves
  <2>1. CASE u = t
    BY <1>1, <2>1
  <2>2. CASE u # t
    <3>1. conv'[u] = conv[u] /\ run'[u] = run[u]
      BY <1>1, <2>2
    <3> QED BY <1>1, <3>1, StillSound DEF RowsHold
  <2> QED BY <2>1, <2>2
<1>5. ItemsMove
  <2>1. \A u \in Threads, j \in Jobs : conv'[u].items[j] = "pending" =>
          conv[u].items[j] = "pending" /\ (conv'[u].row = NoRow => conv[u].row = NoRow)
    <3> SUFFICES ASSUME NEW u \in Threads, NEW j \in Jobs, conv'[u].items[j] = "pending"
                 PROVE  conv[u].items[j] = "pending" /\ (conv'[u].row = NoRow => conv[u].row = NoRow)
      OBVIOUS
    <3>1. CASE u = t
      BY <1>1, <3>1, TriageAssumption DEF ItemsKept
    <3>2. CASE u # t
      BY <1>1, <3>2
    <3> QED BY <3>1, <3>2
  <2> QED BY <2>1 DEF ItemsMove
<1>6. UNCHANGED <<mail, unread, lost, drain, recovery, inventory>>
  OBVIOUS
<1> QED BY <1>3, <1>4, <1>5, <1>6, MovesHold

----------------------------------------------------------------------------
(* The pump and its requests. *)

LEMMA Here ==
  ASSUME TriageInv, NEW t \in Threads
  PROVE  /\ Sound(conv[t], run[t], jobs, enabled, mail[t].version)
         /\ conv[t] \in Conversations /\ run[t] \in Requests
         /\ mail[t].version \in Version /\ mail[t].shown \in BOOLEAN /\ Content(t) \in {0, mail[t].version} /\ Content(t) \in Version
BY TriageAssumption DEF TriageInv, TypeOK, RowsHold, Content, Version

LEMMA PermittedRequests ==
  ASSUME TriageInv, NEW t \in Threads, run[t] # NoRun
  PROVE  /\ Permitted(t) => Owned(conv[t], run[t]) /\ conv[t].row # NoRow
         /\ Permitted(t) /\ ~run[t].aborted <=> Live(conv[t], run[t])
<1>1. Sound(conv[t], run[t], jobs, enabled, mail[t].version)
  BY Here
<1>2. Live(conv[t], run[t]) => enabled /\ Open(run[t].job)
  BY <1>1 DEF Sound, RequestHolds, Open, Runs
<1> QED BY <1>2 DEF Permitted, Live, Owned

LEMMA StartKeeps ==
  ASSUME TriageInv, NEW t \in Threads, Start(t)
  PROVE  TriageInv'
<1>1. PICK n : n = Taken(conv[t])
  OBVIOUS
<1>2. PICK s : s = [phase |-> "read", job |-> conv[t].row.job, of |-> Content(t), aborted |-> FALSE, now |-> 0]
  OBVIOUS
<1>3. conv' = [conv EXCEPT ![t] = n] /\ run' = [run EXCEPT ![t] = s]
  BY <1>1, <1>2 DEF Start
<1>4. Sound(n, s, jobs, enabled, mail[t].version) /\ Carries(conv[t], run[t], n, s, mail[t].version) /\ ItemsKept(conv[t], n, NoJob)
  <2>1. /\ enabled /\ run[t] = NoRun /\ conv[t].row # NoRow /\ conv[t].row.status = "queued" /\ conv[t].row.attempts < 3
        /\ conv[t].row.job # NoJob => Runs(jobs, conv[t].row.job)
    BY DEF Start, Startable, Open, Runs
  <2>2. PICK c, v, of : c = conv[t] /\ v = mail[t].version /\ of = Content(t)
    OBVIOUS
  <2>3. Sound(c, NoRun, jobs, enabled, v) /\ v \in Version /\ of \in {0, v}
    BY <2>1, <2>2, Here
  <2>4. /\ n = [c EXCEPT !.row = [c.row EXCEPT !.status = "processing", !.taken = TRUE]]
        /\ s = [phase |-> "read", job |-> c.row.job, of |-> of, aborted |-> FALSE, now |-> 0]
    BY <1>1, <1>2, <2>2 DEF Taken
  <2>5. /\ c.row # NoRow /\ c.row.status = "queued" /\ c.row.attempts < 3
        /\ c.row.job # NoJob => Runs(jobs, c.row.job)
    BY <2>1, <2>2
  <2>6. Sound(n, s, jobs, enabled, v) /\ Carries(c, NoRun, n, s, v) /\ ItemsKept(c, n, NoJob)
    BY <2>1, <2>3, <2>4, <2>5, StartSound
  <2> QED BY <2>1, <2>2, <2>6
<1>5. UNCHANGED <<mail, unread, lost, enabled, jobs, cache, drain, recovery, inventory, missed, budget>>
  BY DEF Start
<1> QED BY <1>3, <1>4, <1>5, RequestKeeps

LEMMA GiveUpKeeps ==
  ASSUME TriageInv, NEW t \in Threads, GiveUp(t)
  PROVE  TriageInv'
<1>1. PICK n : n = Finish(conv[t], "failed", 0)
  OBVIOUS
<1>2. PICK new : new = [conv EXCEPT ![t] = n]
  OBVIOUS
<1>3. conv \in [Threads -> Conversations] /\ run \in [Threads -> Requests]
  BY DEF TriageInv, TypeOK
<1>4. /\ Rewrite(new) /\ run' = run /\ cache' = cache
      /\ UNCHANGED <<mail, unread, lost, enabled, drain, recovery, inventory, budget>>
  BY <1>1, <1>2 DEF GiveUp
<1>5. Sound(n, run[t], jobs, enabled, mail[t].version) /\ Carries(conv[t], run[t], n, run[t], mail[t].version) /\ ItemsKept(conv[t], n, NoJob)
  <2>1. PICK c, v, r, version : c = conv[t] /\ v = mail[t].version /\ r = run[t] /\ version = 0
    OBVIOUS
  <2>2. Sound(c, r, jobs, enabled, v) /\ v \in Version /\ r \in Requests /\ version \in Version /\ version <= v
    BY <2>1, Here, TriageAssumption DEF Version
  <2>3. n = Finish(c, "failed", version)
    BY <1>1, <2>1
  <2>4. Sound(n, r, jobs, enabled, v) /\ Carries(c, r, n, r, v) /\ ItemsKept(c, n, NoJob)
    BY <2>2, <2>3, FailedSound
  <2> QED BY <2>1, <2>4
<1>6. new \in [Threads -> Conversations] /\ run' \in [Threads -> Requests] /\ cache' \subseteq Version
  BY <1>2, <1>3, <1>4, <1>5 DEF Sound, TriageInv, TypeOK
<1>7. Transaction(new)
  <2> SUFFICES ASSUME NEW u \in Threads
               PROVE  /\ Sound(new[u], run[u], jobs, enabled, mail[u].version)
                      /\ Carries(conv[u], run[u], new[u], run[u], mail[u].version)
                      /\ ItemsKept(conv[u], new[u], NoJob)
    BY <1>4 DEF Transaction
  <2>1. CASE u = t
    BY <1>2, <1>3, <1>5, <2>1
  <2>2. CASE u # t
    <3>1. new[u] = conv[u]
      BY <1>2, <1>3, <2>2
    <3> QED BY <3>1, Here, StillSound
  <2> QED BY <2>1, <2>2
<1> QED BY <1>4, <1>6, <1>7, TransactionKeeps

LEMMA AskKeeps ==
  ASSUME TriageInv, NEW t \in Threads, Ask(t)
  PROVE  TriageInv'
<1>1. PICK c, r, v : c = conv[t] /\ r = run[t] /\ v = mail[t].version
  OBVIOUS
<1>2. PICK n : n = Asked(c, r.of)
  OBVIOUS
<1>3. PICK s : s = [r EXCEPT !.phase = "asking"]
  OBVIOUS
<1>4. run[t] # NoRun
  BY NamedRecords DEF Ask
<1>5. r.phase = "read" /\ r.of # 0 /\ Live(c, r)
  BY <1>1, <1>4, PermittedRequests DEF Ask
<1>6. Sound(c, r, jobs, enabled, v) /\ v \in Version
  BY <1>1, Here
<1>7. Sound(n, s, jobs, enabled, v) /\ Carries(c, r, n, s, v) /\ ItemsKept(c, n, NoJob)
  BY <1>2, <1>3, <1>5, <1>6, AskSound
<1>8. /\ conv' = [conv EXCEPT ![t] = n] /\ run' = [run EXCEPT ![t] = s]
      /\ UNCHANGED <<mail, unread, lost, enabled, jobs, cache, drain, recovery, inventory, missed, budget>>
  BY <1>1, <1>2, <1>3 DEF Ask
<1> QED BY <1>1, <1>7, <1>8, RequestKeeps

LEMMA AnswerKeeps ==
  ASSUME TriageInv, NEW t \in Threads, NEW readable \in BOOLEAN, Answer(t, readable)
  PROVE  TriageInv'
<1>1. PICK c, r, v : c = conv[t] /\ r = run[t] /\ v = mail[t].version
  OBVIOUS
<1>2. PICK now : now = IF readable THEN Content(t) ELSE 0
  OBVIOUS
<1>3. PICK s : s = [r EXCEPT !.phase = "reread", !.now = now]
  OBVIOUS
<1>4. run[t] # NoRun
  BY NamedRecords DEF Answer
<1>5. r.phase = "asking" /\ Live(c, r)
  BY <1>1, <1>4, PermittedRequests DEF Answer
<1>6. Sound(c, r, jobs, enabled, v) /\ v \in Version /\ now \in Version
  BY <1>1, <1>2, Here, TriageAssumption DEF Version
<1>7. Sound(c, s, jobs, enabled, v) /\ Carries(c, r, c, s, v) /\ ItemsKept(c, c, NoJob)
  BY <1>3, <1>5, <1>6, AnswerSound
<1>8. /\ conv' = [conv EXCEPT ![t] = c] /\ run' = [run EXCEPT ![t] = s]
      /\ UNCHANGED <<mail, unread, lost, enabled, jobs, cache, drain, recovery, inventory, missed, budget>>
  BY <1>1, <1>2, <1>3 DEF Answer, TriageInv, TypeOK
<1> QED BY <1>1, <1>7, <1>8, RequestKeeps

LEMMA NoRowEnded ==
  ASSUME NEW n, n.row = NoRow
  PROVE  Ended(n) = n
BY DEF Ended

\* What a request may leave behind when it ends.
LEMMA EndsGone ==
  ASSUME TriageInv, NEW t \in Threads, NEW c, c = conv[t], NEW r, r = run[t], NEW v, v = mail[t].version,
         NEW m, \/ m = Removed(c)
                \/ \E version \in Version : version <= v /\ m = Finish(c, "failed", version)
                \/ Owned(c, r) /\ r.of # 0 /\ m = Finish(c, "ready", r.of),
         NEW n, n = Ended(m)
  PROVE  Sound(n, NoRun, jobs, enabled, v) /\ Carries(c, r, n, NoRun, v) /\ ItemsKept(c, n, NoJob)
<1>1. Sound(c, r, jobs, enabled, v) /\ v \in Version
  BY Here
<1>2. NoRun \in Requests
  BY NamedRecords
<1>3. Sound(m, NoRun, jobs, enabled, v) /\ Carries(c, r, m, NoRun, v) /\ ItemsKept(c, m, NoJob) /\ m.row = NoRow
  <2>1. CASE m = Removed(c)
    BY <1>1, <1>2, <2>1, RemovedSound
  <2>2. CASE \E version \in Version : version <= v /\ m = Finish(c, "failed", version)
    <3>1. PICK version \in Version : version <= v /\ m = Finish(c, "failed", version)
      BY <2>2
    <3> QED BY <1>1, <1>2, <3>1, FailedSound
  <2>3. CASE Owned(c, r) /\ r.of # 0 /\ m = Finish(c, "ready", r.of)
    BY <1>1, <2>3, ReadySound
  <2> QED BY <2>1, <2>2, <2>3
<1>4. n = m
  BY <1>3, NoRowEnded
<1> QED BY <1>3, <1>4

LEMMA DecideKeeps ==
  ASSUME TriageInv, NEW t \in Threads, Decide(t)
  PROVE  TriageInv'
<1>1. PICK c, r, v : c = conv[t] /\ r = run[t] /\ v = mail[t].version
  OBVIOUS
<1>2. PICK wanted \in BOOLEAN : wanted <=> Permitted(t) /\ ~run[t].aborted
  OBVIOUS
<1>3. PICK m : m = IF ~wanted THEN c ELSE IF r.of = 0 THEN Removed(c) ELSE Finish(c, "ready", r.of)
  OBVIOUS
<1>4. PICK n : n = Ended(m)
  OBVIOUS
<1>5. run[t] # NoRun
  BY NamedRecords DEF Decide
<1>6. Sound(c, r, jobs, enabled, v) /\ v \in Version
  BY <1>1, Here
<1>7. Sound(n, NoRun, jobs, enabled, v) /\ Carries(c, r, n, NoRun, v) /\ ItemsKept(c, n, NoJob)
  <2>1. CASE ~wanted
    <3>1. ~Live(c, r) /\ n = Ended(c)
      BY <1>1, <1>2, <1>3, <1>4, <1>5, <2>1, PermittedRequests
    <3> QED BY <1>6, <3>1, LetGoSound
  <2>2. CASE wanted
    <3>1. Owned(c, r)
      BY <1>1, <1>2, <1>5, <2>2, PermittedRequests DEF Live
    <3>2. m = Removed(c) \/ (Owned(c, r) /\ r.of # 0 /\ m = Finish(c, "ready", r.of))
      BY <1>3, <2>2, <3>1
    <3> QED BY <1>1, <1>4, <3>2, EndsGone
  <2> QED BY <2>1, <2>2
<1>8. End(t, m)
  BY <1>1, <1>2, <1>3 DEF Decide
<1>9. cache' \subseteq Version /\ UNCHANGED <<mail, unread, lost, enabled, drain, recovery, inventory, budget>>
  BY DEF Decide, TriageInv, TypeOK
<1> QED BY <1>1, <1>4, <1>7, <1>8, <1>9, EndKeeps

LEMMA ContextFailsKeeps ==
  ASSUME TriageInv, NEW t \in Threads, ContextFails(t)
  PROVE  TriageInv'
<1>1. PICK c, r, v : c = conv[t] /\ r = run[t] /\ v = mail[t].version
  OBVIOUS
<1>2. PICK permitted \in BOOLEAN : permitted <=> Permitted(t)
  OBVIOUS
<1>3. PICK m : m = IF permitted THEN Finish(c, "failed", 0) ELSE c
  OBVIOUS
<1>4. PICK n : n = Ended(m)
  OBVIOUS
<1>5. run[t] # NoRun
  BY NamedRecords DEF ContextFails
<1>6. Sound(c, r, jobs, enabled, v) /\ v \in Version
  BY <1>1, Here
<1>7. Sound(n, NoRun, jobs, enabled, v) /\ Carries(c, r, n, NoRun, v) /\ ItemsKept(c, n, NoJob)
  <2>1. CASE ~permitted
    <3>1. ~Live(c, r) /\ n = Ended(c)
      BY <1>1, <1>2, <1>3, <1>4, <1>5, <2>1, PermittedRequests
    <3> QED BY <1>6, <3>1, LetGoSound
  <2>2. CASE permitted
    <3>1. PICK version \in Version : version = 0
      BY TriageAssumption DEF Version
    <3>2. version <= v /\ m = Finish(c, "failed", version)
      BY <1>3, <1>6, <2>2, <3>1 DEF Version
    <3>3. \E w \in Version : w <= v /\ m = Finish(c, "failed", w)
      BY <3>2
    <3> QED BY <1>1, <1>4, <3>3, EndsGone
  <2> QED BY <2>1, <2>2
<1>8. End(t, m)
  BY <1>1, <1>2, <1>3 DEF ContextFails
<1>9. cache' \subseteq Version /\ UNCHANGED <<mail, unread, lost, enabled, drain, recovery, inventory, budget>>
  BY DEF ContextFails, TriageInv, TypeOK
<1> QED BY <1>1, <1>4, <1>7, <1>8, <1>9, EndKeeps

LEMMA DiscardKeeps ==
  ASSUME TriageInv, NEW t \in Threads, Discard(t)
  PROVE  TriageInv'
<1>1. PICK c, r, v : c = conv[t] /\ r = run[t] /\ v = mail[t].version
  OBVIOUS
<1>2. PICK permitted \in BOOLEAN : permitted <=> Permitted(t)
  OBVIOUS
<1>3. PICK m : m = IF permitted THEN Removed(c) ELSE c
  OBVIOUS
<1>4. PICK n : n = Ended(m)
  OBVIOUS
<1>5. run[t] # NoRun
  BY NamedRecords DEF Discard
<1>6. Sound(c, r, jobs, enabled, v) /\ v \in Version
  BY <1>1, Here
<1>7. Sound(n, NoRun, jobs, enabled, v) /\ Carries(c, r, n, NoRun, v) /\ ItemsKept(c, n, NoJob)
  <2>1. CASE ~permitted
    <3>1. ~Live(c, r) /\ n = Ended(c)
      BY <1>1, <1>2, <1>3, <1>4, <1>5, <2>1, PermittedRequests
    <3> QED BY <1>6, <3>1, LetGoSound
  <2>2. CASE permitted
    <3>1. m = Removed(c)
      BY <1>3, <2>2
    <3> QED BY <1>1, <1>4, <3>1, EndsGone
  <2> QED BY <2>1, <2>2
<1>8. End(t, m)
  BY <1>1, <1>2, <1>3 DEF Discard
<1>9. cache' \subseteq Version /\ UNCHANGED <<mail, unread, lost, enabled, drain, recovery, inventory, budget>>
  BY DEF Discard, TriageInv, TypeOK
<1> QED BY <1>1, <1>4, <1>7, <1>8, <1>9, EndKeeps

LEMMA SettleKeeps ==
  ASSUME TriageInv, NEW t \in Threads, NEW outcome, Settle(t, outcome)
  PROVE  TriageInv'
<1>1. PICK c, r, v : c = conv[t] /\ r = run[t] /\ v = mail[t].version
  OBVIOUS
<1>2. PICK permitted \in BOOLEAN, current \in BOOLEAN, ready \in BOOLEAN, changed \in BOOLEAN :
         /\ permitted <=> Permitted(t)
         /\ current <=> ~run[t].aborted /\ run[t].now = run[t].of
         /\ changed <=> run[t].now # run[t].of
         /\ ready <=> permitted /\ current /\ outcome = "completed"
  OBVIOUS
<1>3. PICK m : m = IF ~permitted THEN c
                   ELSE IF r.now = 0 THEN Removed(c)
                   ELSE IF ~current THEN Stale(c, changed)
                   ELSE IF ready THEN Finish(c, "ready", r.of)
                   ELSE IF outcome = "retryable" /\ c.row.attempts < 2 THEN Retried(c)
                   ELSE Finish(c, "failed", r.of)
  OBVIOUS
<1>4. PICK n : n = Ended(m)
  OBVIOUS
<1>5. run[t] # NoRun
  BY NamedRecords DEF Settle
<1>6. Sound(c, r, jobs, enabled, v) /\ v \in Version
  BY <1>1, Here
<1>7. r.of \in Version /\ r.of <= v
  BY <1>1, <1>5, <1>6, RequestFields DEF Sound, VersionsHold
<1>8. Sound(n, NoRun, jobs, enabled, v) /\ Carries(c, r, n, NoRun, v) /\ ItemsKept(c, n, NoJob)
  <2>1. CASE ~permitted
    <3>1. ~Live(c, r) /\ n = Ended(c)
      BY <1>1, <1>2, <1>3, <1>4, <1>5, <2>1, PermittedRequests
    <3> QED BY <1>6, <3>1, LetGoSound
  <2>2. CASE permitted
    <3>1. Owned(c, r) /\ c.row # NoRow
      BY <1>1, <1>2, <1>5, <2>2, PermittedRequests
    <3>2. CASE m = Removed(c)
      BY <1>1, <1>4, <3>2, EndsGone
    <3>3. CASE ~current /\ m = Stale(c, changed)
      <4>1. ~changed => r.aborted /\ r.phase # "read"
        BY <1>1, <1>2, <3>3 DEF Settle
      <4> QED BY <1>4, <1>6, <3>1, <3>3, <4>1, StaleSound
    <3>4. CASE r.now # 0 /\ current /\ m = Finish(c, "ready", r.of)
      <4>1. r.of # 0
        BY <1>1, <1>2, <3>4
      <4> QED BY <1>1, <1>4, <3>1, <3>4, <4>1, EndsGone
    <3>5. CASE m = Retried(c) /\ c.row.attempts < 2
      BY <1>4, <1>6, <3>1, <3>5, RetriedSound
    <3>6. CASE m = Finish(c, "failed", r.of)
      <4>1. \E w \in Version : w <= v /\ m = Finish(c, "failed", w)
        BY <1>7, <3>6
      <4> QED BY <1>1, <1>4, <4>1, EndsGone
    <3> QED BY <1>3, <2>2, <3>2, <3>3, <3>4, <3>5, <3>6
  <2> QED BY <2>1, <2>2
<1>9. End(t, m)
  <2>1. Stale(c, changed) = Stale(c, run[t].now # run[t].of)
    BY <1>2
  <2> QED BY <1>1, <1>2, <1>3, <2>1 DEF Settle
<1>10. cache' \subseteq Version /\ UNCHANGED <<mail, unread, lost, enabled, drain, recovery, inventory, budget>>
  BY <1>1, <1>7 DEF Settle, TriageInv, TypeOK
<1> QED BY <1>1, <1>4, <1>8, <1>9, <1>10, EndKeeps

----------------------------------------------------------------------------
(* Mail. *)

LEMMA LaterSound ==
  ASSUME NEW c, NEW r, NEW js, NEW on, NEW v \in Version, Sound(c, r, js, on, v), NEW w \in Version, v <= w
  PROVE  Sound(c, r, js, on, w)
<1>1. c.known \in Nat /\ (r # NoRun => r.of \in Nat) /\ v \in Nat /\ w \in Nat
  BY ConversationFields, RequestFields, TriageAssumption DEF Sound, Version
<1>2. VersionsHold(c, r, w)
  BY <1>1 DEF Sound, VersionsHold
<1> QED BY <1>2 DEF Sound

LEMMA LaterPlan ==
  ASSUME NEW plan, NEW v \in Version, PlanHolds(plan, v), NEW w \in Version, v <= w
  PROVE  PlanHolds(plan, w)
BY TriageAssumption DEF PlanHolds, Plans, Version

\* The pages that a recovery and the inventories go through.
LEMMA PageFields ==
  ASSUME TypeOK
  PROVE  /\ \A page \in Pages, u \in Threads : page[u] \in Version
         /\ recovery # Off => recovery.seen \in Pages /\ recovery.phase \in {"listing", "page"}
         /\ recovery.phase = "page" =>
              recovery \in [phase : {"page"}, seen : Pages, page : Pages, target : Nat, left : SUBSET Threads]
         /\ recovery.phase = "page" =>
              recovery # Off /\ recovery.page \in Pages /\ recovery.target \in Nat /\ recovery.left \subseteq Threads
         /\ \A j \in Jobs : inventory[j].phase = "page" =>
              inventory[j] \in [phase : {"page"}, page : Pages, left : SUBSET Threads]
         /\ \A j \in Jobs : inventory[j].phase = "page" =>
              inventory[j] # Off /\ inventory[j].page \in Pages /\ inventory[j].left \subseteq Threads
<1>1. \A page \in Pages, u \in Threads : page[u] \in Version
  BY DEF Pages
<1>2. recovery # Off => recovery.seen \in Pages /\ recovery.phase \in {"listing", "page"}
  BY DEF TypeOK
<1>3. recovery.phase = "page" =>
        recovery \in [phase : {"page"}, seen : Pages, page : Pages, target : Nat, left : SUBSET Threads]
  <2>1. \A x \in [phase : {"listing"}, seen : Pages] : x.phase # "page"
    OBVIOUS
  <2> QED BY <2>1, NamedRecords DEF TypeOK
<1>4. ASSUME NEW j \in Jobs, inventory[j].phase = "page"
      PROVE  inventory[j] \in [phase : {"page"}, page : Pages, left : SUBSET Threads]
  <2>1. [phase |-> "listing"].phase = "listing"
    OBVIOUS
  <2>2. inventory[j] \in {Off, [phase |-> "listing"]} \cup [phase : {"page"}, page : Pages, left : SUBSET Threads]
    BY DEF TypeOK
  <2>3. inventory[j] # Off /\ inventory[j] # [phase |-> "listing"]
    BY <1>4, <2>1, NamedRecords
  <2> QED BY <2>2, <2>3
<1> QED BY <1>1, <1>2, <1>3, <1>4, NamedRecords

LEMMA Intervened ==
  ASSUME TriageInv, Intervene
  PROVE  budget' \in 0 .. MaxInterventions
BY TriageAssumption DEF Intervene, TriageInv, TypeOK

\* Something happens to a conversation, and the journal says so at its end.
LEMMA EventKeeps ==
  ASSUME TriageInv, NEW t \in Threads,
         NEW now \in [version : Version, shown : BOOLEAN, aside : BOOLEAN], Happens(t, now),
         mail[t].version <= now.version,
         now.shown => now.version > mail[t].version \/ (now.version = mail[t].version /\ mail[t].shown),
         budget' \in 0 .. MaxInterventions
  PROVE  TriageInv'
<1>1. /\ unread' = Append(unread, t) /\ missed' = missed \ {t} /\ mail' = [mail EXCEPT ![t] = now]
      /\ UNCHANGED <<lost, enabled, conv, jobs, cache, run, drain, recovery, inventory>>
  BY DEF Happens
<1>2. TypeOK /\ unread \in Seq(Threads) /\ mail \in [Threads -> [version : Version, shown : BOOLEAN, aside : BOOLEAN]]
  BY DEF TriageInv, TypeOK
<1>a. /\ mail' \in [Threads -> [version : Version, shown : BOOLEAN, aside : BOOLEAN]]
      /\ mail'[t] = now /\ \A u \in Threads : u # t => mail'[u] = mail[u]
  BY <1>1, <1>2
<1>3. /\ unread' \in Seq(Threads) /\ Len(unread) \in Nat /\ Len(unread') = Len(unread) + 1
      /\ DOMAIN unread = 1 .. Len(unread) /\ DOMAIN unread' = 1 .. Len(unread) + 1
      /\ unread'[Len(unread) + 1] = t /\ \A i \in DOMAIN unread : unread'[i] = unread[i]
  BY <1>1, <1>2
<1>4. \A u \in Threads : /\ mail[u].version \in Version /\ mail'[u].version \in Version
                         /\ mail[u].version <= mail'[u].version
  <2> SUFFICES ASSUME NEW u \in Threads
               PROVE  /\ mail[u].version \in Version /\ mail'[u].version \in Version
                      /\ mail[u].version <= mail'[u].version
    OBVIOUS
  <2>1. mail[u].version \in Version /\ mail'[u].version \in Version
    BY <1>2, <1>a
  <2> QED BY <1>a, <2>1 DEF Version
<1>5. TypeOK'
  BY <1>1, <1>2, <1>3, <1>a DEF TypeOK
<1>6. RowsHold'
  <2> SUFFICES ASSUME NEW u \in Threads PROVE Sound(conv[u], run[u], jobs, enabled, mail'[u].version)
    BY <1>1 DEF RowsHold
  <2>1. PICK v \in Version, w \in Version : v = mail[u].version /\ w = mail'[u].version /\ v <= w
    BY <1>4
  <2>2. Sound(conv[u], run[u], jobs, enabled, v)
    BY <2>1 DEF TriageInv, RowsHold
  <2>3. Sound(conv[u], run[u], jobs, enabled, w)
    BY <2>1, <2>2, LaterSound
  <2> QED BY <2>1, <2>3
<1>7. DrainHolds'
  <2> SUFFICES ASSUME drain # Off
               PROVE  /\ ~lost /\ recovery = Off /\ drain.read <= drain.size /\ drain.size <= Len(unread')
                      /\ \A u \in Threads : PlanHolds(drain.plans[u], mail'[u].version)
    BY <1>1 DEF DrainHolds
  <2>1. /\ ~lost /\ recovery = Off /\ drain.read <= drain.size /\ drain.size <= Len(unread) /\ drain.size \in Nat
        /\ \A u \in Threads : PlanHolds(drain.plans[u], mail[u].version)
    BY <1>2 DEF TriageInv, DrainHolds, TypeOK
  <2>2. ASSUME NEW u \in Threads PROVE PlanHolds(drain.plans[u], mail'[u].version)
    <3>1. PICK v \in Version, w \in Version : v = mail[u].version /\ w = mail'[u].version /\ v <= w
      BY <1>4
    <3>2. PlanHolds(drain.plans[u], v)
      BY <2>1, <3>1
    <3>3. PlanHolds(drain.plans[u], w)
      BY <3>1, <3>2, LaterPlan
    <3> QED BY <3>1, <3>3
  <2> QED BY <1>3, <2>1, <2>2
<1>8. RecoveryHolds'
  <2>1. recovery # Off => lost /\ drain = Off /\ \A u \in Threads : recovery.seen[u] <= mail'[u].version
    <3> SUFFICES ASSUME recovery # Off, NEW u \in Threads
                 PROVE  lost /\ drain = Off /\ recovery.seen[u] <= mail'[u].version
      BY <1>2 DEF TriageInv, RecoveryHolds
    <3>1. recovery.seen[u] \in Version
      BY <1>2, PageFields
    <3>2. lost /\ drain = Off /\ recovery.seen[u] <= mail[u].version
      BY DEF TriageInv, RecoveryHolds
    <3> QED BY <1>4, <3>1, <3>2, TriageAssumption DEF Version
  <2>2. ASSUME recovery.phase = "page"
        PROVE  recovery.target <= Len(unread') /\ \A u \in Threads : recovery.page[u] <= mail'[u].version
    <3>1. recovery.target <= Len(unread')
      <4>1. recovery.target \in Nat
        BY <1>2, <2>2, PageFields
      <4>2. recovery.target <= Len(unread)
        BY <2>2 DEF TriageInv, RecoveryHolds
      <4> QED BY <1>3, <4>1, <4>2
    <3>2. ASSUME NEW u \in Threads PROVE recovery.page[u] <= mail'[u].version
      <4>1. recovery.page[u] \in Version
        BY <1>2, <2>2, PageFields
      <4>2. recovery.page[u] <= mail[u].version
        BY <2>2 DEF TriageInv, RecoveryHolds
      <4> QED BY <1>4, <4>1, <4>2, TriageAssumption DEF Version
    <3> QED BY <3>1, <3>2
  <2> QED BY <1>1, <2>1, <2>2 DEF RecoveryHolds
<1>9. InventoryHolds'
  <2> SUFFICES ASSUME NEW j \in Jobs, inventory[j].phase = "page", NEW u \in Threads
               PROVE  inventory[j].page[u] <= mail'[u].version
    BY <1>1 DEF InventoryHolds
  <2>1. inventory[j].page[u] <= mail[u].version
    BY DEF TriageInv, InventoryHolds
  <2>2. inventory[j].page[u] \in Version
    BY <1>2, PageFields
  <2> QED BY <1>4, <2>1, <2>2, TriageAssumption DEF Version
<1>10. JobsHold'
  BY <1>1 DEF TriageInv, JobsHold, PendingItemsAreQueued
<1>11. ReaderFollows'
  <2> SUFFICES ASSUME NEW u \in Threads PROVE Follows(u)'
    BY DEF ReaderFollows
  <2>1. CASE u = t
    <3> SUFFICES ASSUME mail'[t].shown
                 PROVE  /\ mail'[t].version # 0 /\ Awaited(t)'
                        /\ recovery # Off /\ recovery.seen[t] = mail'[t].version => Expected(t)'
                        /\ recovery.phase = "page" => After(t, recovery.target)'
      BY <1>1, <2>1 DEF Follows
    <3>0. Follows(t)
      BY DEF TriageInv, ReaderFollows
    <3>1. /\ mail[t].version \in Nat /\ mail'[t].version \in Nat
          /\ mail[t].version < mail'[t].version \/ (mail[t].version = mail'[t].version /\ mail[t].shown)
      BY <1>4, <1>a DEF Version
    <3>b. mail'[t].version # 0
      BY <3>0, <3>1 DEF Follows
    <3>2. Awaited(t)'
      <4>1. drain # Off => drain.read \in Nat /\ drain.size \in Nat /\ drain.read <= Len(unread)
        BY <1>2, <1>3 DEF TriageInv, DrainHolds, TypeOK
      <4>2. ~(drain' # Off /\ Len(unread) + 1 <= drain'.read)
        BY <1>1, <1>3, <4>1
      <4>3. PICK i \in DOMAIN unread' : i = Len(unread) + 1
        BY <1>3
      <4> QED BY <1>3, <4>2, <4>3 DEF Awaited
    <3>3. ASSUME recovery # Off, recovery.seen[t] = mail'[t].version PROVE Expected(t)'
      <4>1. recovery.seen[t] \in Version /\ recovery.seen[t] <= mail[t].version
        BY <1>2, <3>3, PageFields DEF TriageInv, RecoveryHolds
      <4>2. mail[t].version = mail'[t].version /\ mail[t].shown
        BY <3>1, <3>3, <4>1 DEF Version
      <4>3. Expected(t)
        BY <3>0, <3>3, <4>2 DEF Follows
      <4> QED BY <1>1, <4>2, <4>3 DEF Expected
    <3>4. ASSUME recovery.phase = "page" PROVE After(t, recovery.target)'
      <4>1. recovery.target \in Nat /\ recovery.target <= Len(unread)
        BY <1>2, <3>4, NamedRecords DEF TriageInv, RecoveryHolds, TypeOK
      <4>2. PICK i \in DOMAIN unread' : i = Len(unread) + 1
        BY <1>3
      <4> QED BY <1>1, <1>3, <4>1, <4>2 DEF After
    <3> QED BY <3>b, <3>2, <3>3, <3>4
  <2>2. CASE u # t
    <3>1. Follows(u) /\ mail'[u] = mail[u] /\ (u \in missed' <=> u \in missed)
      BY <1>1, <1>a, <2>2 DEF TriageInv, ReaderFollows
    <3>2. Awaited(u) => Awaited(u)'
      BY <1>1, <1>3, <3>1 DEF Awaited
    <3>3. \A n : After(u, n) => After(u, n)'
      BY <1>3 DEF After
    <3>4. Expected(u)' <=> Expected(u)
      BY <1>1, <3>1 DEF Expected
    <3> QED BY <1>1, <3>1, <3>2, <3>3, <3>4 DEF Follows
  <2> QED BY <2>1, <2>2
<1> QED BY <1>5, <1>6, <1>7, <1>8, <1>9, <1>10, <1>11 DEF TriageInv

LEMMA MailFields ==
  ASSUME TriageInv, NEW t \in Threads
  PROVE  /\ mail[t] \in [version : Version, shown : BOOLEAN, aside : BOOLEAN]
         /\ mail[t].version \in Version /\ mail[t].version \in Nat /\ mail[t].version <= mail[t].version
         /\ mail[t].shown \in BOOLEAN /\ budget \in 0 .. MaxInterventions
BY DEF TriageInv, TypeOK, Version

LEMMA ReceiveKeeps ==
  ASSUME TriageInv, NEW t \in Threads, NEW aside \in BOOLEAN, Receive(t, aside)
  PROVE  TriageInv'
<1>1. PICK now : now = [version |-> mail[t].version + 1, shown |-> TRUE, aside |-> aside]
  OBVIOUS
<1>2. mail[t].version \in Nat /\ mail[t].version + 1 \in Version
  BY MailFields, TriageAssumption DEF Receive, Version
<1>3. now \in [version : Version, shown : BOOLEAN, aside : BOOLEAN] /\ now.version = mail[t].version + 1
  BY <1>1, <1>2
<1>4. Happens(t, now) /\ budget' \in 0 .. MaxInterventions
  BY <1>1, MailFields DEF Receive
<1> QED BY <1>2, <1>3, <1>4, EventKeeps

LEMMA VanishKeeps ==
  ASSUME TriageInv, NEW t \in Threads, Vanish(t)
  PROVE  TriageInv'
<1>1. PICK now : now = [version |-> mail[t].version, shown |-> FALSE, aside |-> FALSE]
  OBVIOUS
<1>2. now \in [version : Version, shown : BOOLEAN, aside : BOOLEAN] /\ now.version = mail[t].version /\ now.shown = FALSE
  BY <1>1, MailFields
<1>3. Happens(t, now) /\ budget' \in 0 .. MaxInterventions
  BY <1>1, Intervened DEF Vanish
<1> QED BY <1>2, <1>3, MailFields, EventKeeps

\* A conversation that is set aside or brought back is as it was otherwise.
LEMMA AsideKeeps ==
  ASSUME TriageInv, NEW t \in Threads, NEW aside \in BOOLEAN, Happens(t, [mail[t] EXCEPT !.aside = aside]),
         budget' \in 0 .. MaxInterventions
  PROVE  TriageInv'
<1>1. PICK m \in [version : Version, shown : BOOLEAN, aside : BOOLEAN] : m = mail[t]
  BY MailFields
<1>2. PICK now : now = [m EXCEPT !.aside = aside]
  OBVIOUS
<1>3. now \in [version : Version, shown : BOOLEAN, aside : BOOLEAN] /\ now.version = m.version /\ now.shown = m.shown
  BY <1>2
<1>4. Happens(t, now)
  BY <1>1, <1>2
<1> QED BY <1>1, <1>3, <1>4, MailFields, EventKeeps

LEMMA SetAsideKeeps ==
  ASSUME TriageInv, NEW t \in Threads, SetAside(t)
  PROVE  TriageInv'
<1>1. Happens(t, [mail[t] EXCEPT !.aside = TRUE]) /\ budget' \in 0 .. MaxInterventions
  BY Intervened DEF SetAside
<1> QED BY <1>1, AsideKeeps

LEMMA ReturnKeeps ==
  ASSUME TriageInv, NEW t \in Threads, Return(t)
  PROVE  TriageInv'
<1>1. Happens(t, [mail[t] EXCEPT !.aside = FALSE]) /\ budget' \in 0 .. MaxInterventions
  BY MailFields DEF Return
<1> QED BY <1>1, AsideKeeps

LEMMA RetentionKeeps ==
  ASSUME TriageInv, Retention
  PROVE  TriageInv'
<1>1. /\ drain = Off /\ recovery = Off /\ unread' = <<>> /\ lost' = TRUE /\ budget' \in 0 .. MaxInterventions
      /\ UNCHANGED <<mail, enabled, conv, jobs, cache, run, drain, recovery, inventory, missed>>
  BY TriageAssumption DEF Retention, Intervene, services, TriageInv, TypeOK
<1>2. TypeOK'
  BY <1>1 DEF TriageInv, TypeOK
<1>3. RowsHold' /\ JobsHold' /\ InventoryHolds'
  BY <1>1 DEF TriageInv, RowsHold, JobsHold, PendingItemsAreQueued, InventoryHolds
<1>4. DrainHolds' /\ RecoveryHolds'
  BY <1>1, NamedRecords DEF DrainHolds, RecoveryHolds
<1>5. ReaderFollows'
  <2> SUFFICES ASSUME NEW t \in Threads PROVE Follows(t)'
    BY DEF ReaderFollows
  <2>1. mail[t].shown => mail[t].version # 0
    BY DEF TriageInv, ReaderFollows, Follows
  <2> QED BY <1>1, <2>1, NamedRecords DEF Follows
<1> QED BY <1>2, <1>3, <1>4, <1>5 DEF TriageInv

----------------------------------------------------------------------------
(* The reader. *)

LEMMA DrainFields ==
  ASSUME TypeOK, drain # Off
  PROVE  /\ drain \in [phase : {"reading"}, size : Nat, read : Nat, plans : [Threads -> Plans]]
         /\ drain.size \in Nat /\ drain.read \in Nat /\ drain.plans \in [Threads -> Plans]
BY DEF TypeOK

LEMMA DrainBeginKeeps ==
  ASSUME TriageInv, DrainBegin
  PROVE  TriageInv'
<1>1. TypeOK /\ unread \in Seq(Threads) /\ Len(unread) \in Nat
  BY DEF TriageInv, TypeOK
<1>2. /\ drain = Off /\ recovery = Off /\ ~lost
      /\ drain' = [phase |-> "reading", size |-> Len(unread), read |-> 0, plans |-> [t \in Threads |-> NoPlan]]
      /\ UNCHANGED <<mail, unread, lost, enabled, conv, jobs, cache, run, recovery, inventory, missed, budget>>
  BY DEF DrainBegin
<1>3. NoPlan \in Plans /\ \A v \in Version : PlanHolds(NoPlan, v)
  BY TriageAssumption DEF NoPlan, Plans, PlanHolds, Version
<1>4. drain' \in [phase : {"reading"}, size : Nat, read : Nat, plans : [Threads -> Plans]]
  BY <1>1, <1>2, <1>3
<1>5. TypeOK'
  BY <1>1, <1>2, <1>4 DEF TypeOK
<1>6. RowsHold' /\ RecoveryHolds' /\ InventoryHolds' /\ JobsHold'
  BY <1>2, NamedRecords DEF TriageInv, RowsHold, RecoveryHolds, InventoryHolds, JobsHold, PendingItemsAreQueued
<1>7. DrainHolds'
  <2>1. drain'.read = 0 /\ drain'.size = Len(unread) /\ \A t \in Threads : drain'.plans[t] = NoPlan
    BY <1>2
  <2>2. \A t \in Threads : mail[t].version \in Version
    BY <1>1 DEF TypeOK
  <2> QED BY <1>1, <1>2, <1>3, <2>1, <2>2 DEF DrainHolds
<1>8. ReaderFollows'
  <2> SUFFICES ASSUME NEW t \in Threads PROVE Follows(t)'
    BY DEF ReaderFollows
  <2>1. Awaited(t) => Awaited(t)'
    <3> SUFFICES ASSUME NEW i \in DOMAIN unread, unread[i] = t PROVE Awaited(t)'
      BY DEF Awaited
    <3>1. ~(i <= drain'.read)
      BY <1>1, <1>2
    <3> QED BY <1>2, <3>1 DEF Awaited
  <2>2. \A n : After(t, n)' <=> After(t, n)
    BY <1>2 DEF After
  <2>3. Follows(t) /\ (Expected(t)' <=> Expected(t))
    BY <1>2 DEF TriageInv, ReaderFollows, Expected
  <2> QED BY <1>2, <2>1, <2>2, <2>3 DEF Follows
<1> QED BY <1>5, <1>6, <1>7, <1>8 DEF TriageInv

\* What is not wanted is known, or was never assessed.
LEMMA UnwantedSafe ==
  ASSUME NEW c, NEW r, NEW js, NEW on, NEW v \in Version, Sound(c, r, js, on, v),
         c.known = v \/ c.decision = NoDecision
  PROVE  Safe(c, r, v)
<1>1. CASE c.known = v
  BY <1>1, RequestFields, TriageAssumption DEF Sound, VersionsHold, Safe, Owned, Version
<1>2. CASE c.decision = NoDecision
  <2>1. c.decision.state = "none"
    BY <1>2, NamedRecords
  <2>2. c.row = NoRow
    BY <2>1 DEF Sound, RowHolds
  <2> QED BY <2>1, <2>2 DEF Safe, Owned
<1> QED BY <1>1, <1>2

LEMMA PlanGrows ==
  ASSUME NEW v \in Version, NEW plan, PlanHolds(plan, v), NEW version \in Version, version <= v, NEW wanted \in BOOLEAN,
         wanted => version # 0, NEW removed \in BOOLEAN,
         NEW next, next = [removed |-> removed,
                           versions |-> IF wanted THEN plan.versions \cup {version} ELSE plan.versions,
                           last |-> IF wanted THEN version ELSE plan.last]
  PROVE  PlanHolds(next, v)
<1>1. plan.versions \subseteq Version /\ plan.last \in Version
  BY DEF PlanHolds, Plans
<1>2. next \in Plans
  BY <1>1 DEF Plans
<1>3. CASE wanted
  <2>1. next.versions = plan.versions \cup {version} /\ next.last = version
    BY <1>3
  <2> QED BY <1>2, <1>3, <2>1 DEF PlanHolds
<1>4. CASE ~wanted
  <2>1. next.versions = plan.versions /\ next.last = plan.last
    BY <1>4
  <2> QED BY <1>2, <2>1 DEF PlanHolds
<1> QED BY <1>3, <1>4

LEMMA DrainEventKeeps ==
  ASSUME TriageInv, NEW admitted \in BOOLEAN, DrainEvent(admitted)
  PROVE  TriageInv'
<1>1. /\ TypeOK /\ unread \in Seq(Threads) /\ Len(unread) \in Nat /\ DOMAIN unread = 1 .. Len(unread)
  BY DEF TriageInv, TypeOK
<1>2. /\ drain # Off /\ drain.read < drain.size
      /\ UNCHANGED <<mail, unread, lost, enabled, conv, jobs, cache, run, recovery, inventory, missed, budget>>
  BY DEF DrainEvent
<1>3. drain \in [phase : {"reading"}, size : Nat, read : Nat, plans : [Threads -> Plans]]
  BY <1>1, <1>2, DrainFields
<1>4. /\ ~lost /\ recovery = Off /\ drain.size <= Len(unread) /\ drain.size \in Nat /\ drain.read \in Nat
      /\ \A u \in Threads : PlanHolds(drain.plans[u], mail[u].version)
  BY <1>2, <1>3 DEF TriageInv, DrainHolds
<1>5. PICK i \in DOMAIN unread : i = drain.read + 1
  BY <1>1, <1>2, <1>4
<1>6. PICK t \in Threads : t = unread[i]
  BY <1>1, <1>5
<1>7. PICK version, wanted : /\ version = Content(t)
                             /\ wanted = (version # 0 /\ conv[t].known # version /\ ((admitted /\ ~mail[t].aside) \/ conv[t].decision # NoDecision))
  OBVIOUS
<1>8. PICK plan, removed : /\ plan = drain.plans[t]
                           /\ removed = (plan.removed \/ (version = 0 /\ conv[t].known # 0))
  OBVIOUS
<1>9. PICK next : next = [removed |-> removed,
                          versions |-> IF wanted THEN plan.versions \cup {version} ELSE plan.versions,
                          last |-> IF wanted THEN version ELSE plan.last]
  OBVIOUS
<1>10. drain' = [drain EXCEPT !.read = drain.read + 1, !.plans = [drain.plans EXCEPT ![t] = next]]
  BY <1>5, <1>6, <1>7, <1>8, <1>9 DEF DrainEvent
<1>11. PlanHolds(next, mail[t].version)
  <2>1. PICK v \in Version : v = mail[t].version
    BY Here
  <2>2. version \in Version /\ version <= v
    BY <1>7, <2>1, Here, TriageAssumption DEF Version
  <2>3. wanted \in BOOLEAN /\ (wanted => version # 0) /\ removed \in BOOLEAN
    BY <1>3, <1>7, <1>8 DEF Plans
  <2>4. PlanHolds(plan, v)
    BY <1>4, <1>8, <2>1
  <2>5. PlanHolds(next, v)
    BY <1>9, <2>2, <2>3, <2>4, PlanGrows
  <2> QED BY <2>1, <2>5
<1>12. /\ drain' \in [phase : {"reading"}, size : Nat, read : Nat, plans : [Threads -> Plans]]
       /\ drain' # Off /\ drain'.read = drain.read + 1 /\ drain'.size = drain.size /\ drain'.plans[t] = next
       /\ \A u \in Threads : u # t => drain'.plans[u] = drain.plans[u]
  <2>1. next \in Plans
    BY <1>11 DEF PlanHolds
  <2>2. /\ drain' \in [phase : {"reading"}, size : Nat, read : Nat, plans : [Threads -> Plans]]
        /\ drain'.read = drain.read + 1 /\ drain'.size = drain.size /\ drain'.plans = [drain.plans EXCEPT ![t] = next]
    <3>0. drain.read + 1 \in Nat /\ drain.plans \in [Threads -> Plans]
      BY <1>3, <1>4
    <3>a. [drain.plans EXCEPT ![t] = next] \in [Threads -> Plans]
      BY <2>1, <3>0
    <3>1. PICK read \in Nat, plans \in [Threads -> Plans] : read = drain.read + 1 /\ plans = [drain.plans EXCEPT ![t] = next]
      BY <3>0, <3>a
    <3>2. PICK d \in [phase : {"reading"}, size : Nat, read : Nat, plans : [Threads -> Plans]] : d = drain
      BY <1>3
    <3>3. PICK e : e = [d EXCEPT !.read = read, !.plans = plans]
      OBVIOUS
    <3>4. /\ e \in [phase : {"reading"}, size : Nat, read : Nat, plans : [Threads -> Plans]]
          /\ e.read = read /\ e.size = d.size /\ e.plans = plans
      BY <3>3
    <3>5. drain' = e
      BY <1>10, <3>1, <3>2, <3>3
    <3> QED BY <3>1, <3>2, <3>4, <3>5
  <2>3. drain' # Off
    BY <2>2, NamedRecords
  <2> QED BY <1>3, <2>2, <2>3
<1>13. TypeOK'
  BY <1>1, <1>2, <1>12 DEF TypeOK
<1>14. RowsHold' /\ RecoveryHolds' /\ InventoryHolds' /\ JobsHold'
  BY <1>2, <1>4, NamedRecords DEF TriageInv, RowsHold, RecoveryHolds, InventoryHolds, JobsHold, PendingItemsAreQueued
<1>15. DrainHolds'
  <2>1. \A u \in Threads : PlanHolds(drain'.plans[u], mail[u].version)
    BY <1>4, <1>11, <1>12
  <2>2. drain'.read <= drain'.size /\ drain'.size <= Len(unread)
    BY <1>2, <1>4, <1>12
  <2> QED BY <1>2, <1>4, <2>1, <2>2 DEF DrainHolds
<1>16. ReaderFollows'
  <2> SUFFICES ASSUME NEW u \in Threads PROVE Follows(u)'
    BY DEF ReaderFollows
  <2>1. Follows(u) /\ (Expected(u)' <=> Expected(u))
    BY <1>2 DEF TriageInv, ReaderFollows, Expected
  <2>2. \A n : After(u, n)' <=> After(u, n)
    BY <1>2 DEF After
  <2>3. mail[u].shown /\ Awaited(u) => Awaited(u)' \/ Expected(u)
    <3> SUFFICES ASSUME mail[u].shown, Awaited(u) PROVE Awaited(u)' \/ Expected(u)
      OBVIOUS
    <3>1. CASE u = t
      <4>1. CASE wanted
        <5>1. drain'.plans[u].last = mail[u].version
          BY <1>7, <1>9, <1>12, <3>1, <4>1 DEF Content
        <5>2. unread[i] = u
          BY <1>6, <3>1
        <5> QED BY <1>2, <5>1, <5>2 DEF Awaited
      <4>2. CASE ~wanted
        <5>1. mail[u].version # 0
          BY <2>1 DEF Follows
        <5>2. conv[u].known = mail[u].version \/ conv[u].decision = NoDecision
          BY <1>7, <3>1, <4>2, <5>1 DEF Content
        <5>3. Sound(conv[u], run[u], jobs, enabled, mail[u].version) /\ mail[u].version \in Version
          BY Here
        <5> QED BY <5>2, <5>3, UnwantedSafe DEF Expected
      <4> QED BY <4>1, <4>2
    <3>2. CASE u # t
      <4>1. PICK k \in DOMAIN unread : unread[k] = u /\ (k <= drain.read => drain.plans[u].last = mail[u].version)
        BY <1>2 DEF Awaited
      <4>2. k # i
        BY <1>6, <3>2, <4>1
      <4>3. k <= drain'.read => k <= drain.read
        BY <1>1, <1>4, <1>5, <1>12, <4>2
      <4> QED BY <1>2, <1>12, <3>2, <4>1, <4>3 DEF Awaited
    <3> QED BY <3>1, <3>2
  <2> QED BY <1>2, <1>4, <2>1, <2>2, <2>3, NamedRecords DEF Follows
<1> QED BY <1>13, <1>14, <1>15, <1>16 DEF TriageInv

\* The journal after the first n of its events.
LEMMA Remainder ==
  ASSUME unread \in Seq(Threads), NEW n \in Nat, n <= Len(unread), unread' = SubSeq(unread, n + 1, Len(unread))
  PROVE  /\ unread' \in Seq(Threads)
         /\ \A i \in DOMAIN unread : i > n => i - n \in DOMAIN unread' /\ unread'[i - n] = unread[i]
<1>1. Len(unread) \in Nat /\ DOMAIN unread = 1 .. Len(unread)
  OBVIOUS
<1>2. unread' \in Seq(Threads) /\ Len(unread') = Len(unread) - n /\ \A k \in 1 .. Len(unread) - n : unread'[k] = unread[n + k]
  BY <1>1
<1>3. DOMAIN unread' = 1 .. Len(unread) - n
  BY <1>2
<1>4. ASSUME NEW i \in DOMAIN unread, i > n PROVE i - n \in DOMAIN unread' /\ unread'[i - n] = unread[i]
  <2>1. PICK k \in 1 .. Len(unread) - n : k = i - n /\ n + k = i
    BY <1>1, <1>4
  <2> QED BY <1>2, <1>3, <2>1
<1> QED BY <1>2, <1>4

LEMMA DrainCommitKeeps ==
  ASSUME TriageInv, DrainCommit
  PROVE  TriageInv'
<1>1. TypeOK /\ unread \in Seq(Threads) /\ Len(unread) \in Nat
  BY DEF TriageInv, TypeOK
<1>2. /\ drain # Off /\ drain.read = drain.size /\ drain' = Off /\ unread' = SubSeq(unread, drain.size + 1, Len(unread))
      /\ UNCHANGED <<mail, lost, enabled, cache, run, recovery, inventory, budget>>
  BY DEF DrainCommit
<1>3. /\ ~lost /\ recovery = Off /\ drain.size <= Len(unread) /\ drain.size \in Nat /\ drain.read \in Nat
      /\ \A u \in Threads : PlanHolds(drain.plans[u], mail[u].version)
  BY <1>1, <1>2, DrainFields DEF TriageInv, DrainHolds
<1>4. PICK new : new = [t \in Threads |-> Carried(conv[t], drain.plans[t])]
  OBVIOUS
<1>5. Rewrite(new)
  BY <1>4 DEF DrainCommit
<1>6. ASSUME NEW t \in Threads
      PROVE  /\ Sound(new[t], run[t], jobs, enabled, mail[t].version)
             /\ Carries(conv[t], run[t], new[t], run[t], mail[t].version) /\ ItemsKept(conv[t], new[t], NoJob)
             /\ drain.plans[t].last = mail[t].version /\ mail[t].version # 0 => Safe(new[t], run[t], mail[t].version)
  <2>1. PICK c, r, v, plan, n : c = conv[t] /\ r = run[t] /\ v = mail[t].version /\ plan = drain.plans[t] /\ n = new[t]
    OBVIOUS
  <2>2. Sound(c, r, jobs, enabled, v) /\ v \in Version /\ r \in Requests /\ PlanHolds(plan, v) /\ n = Carried(c, plan)
    BY <1>3, <1>4, <2>1, Here
  <2>3. /\ Sound(n, r, jobs, enabled, v) /\ Carries(c, r, n, r, v) /\ ItemsKept(c, n, NoJob)
        /\ plan.last = v /\ v # 0 => Safe(n, r, v)
    BY <2>2, CarriedSound
  <2> QED BY <2>1, <2>3
<1>7. new \in [Threads -> Conversations]
  BY <1>4, <1>6 DEF Sound
<1>8. Transaction(new)
  BY <1>2, <1>6 DEF Transaction
<1>9. PICK passed \in SUBSET Threads : RewriteBut(passed, new) /\ UNCHANGED enabled
  BY <1>2, <1>5 DEF Rewrite
<1>10. /\ conv' \in [Threads -> Conversations] /\ jobs' \in [Jobs -> JobRecords] /\ missed' \subseteq Threads
       /\ Moves /\ ItemsMove
  BY <1>1, <1>7, <1>8, <1>9, Rewritten
<1>11. /\ unread' \in Seq(Threads)
       /\ \A i \in DOMAIN unread : i > drain.size => i - drain.size \in DOMAIN unread' /\ unread'[i - drain.size] = unread[i]
  BY <1>1, <1>2, <1>3, Remainder
<1>12. TypeOK'
  BY <1>1, <1>2, <1>10, <1>11 DEF TypeOK, JobRecords
<1>13. RowsHold' /\ JobsHold'
  BY <1>2, <1>10, RowsMoved, JobsMovedOn DEF TriageInv
<1>14. DrainHolds' /\ RecoveryHolds' /\ InventoryHolds'
  BY <1>2, <1>3, NamedRecords DEF TriageInv, DrainHolds, RecoveryHolds, InventoryHolds
<1>15. ReaderFollows'
  <2> SUFFICES ASSUME NEW t \in Threads, mail[t].shown
               PROVE  mail[t].version # 0 /\ (t \notin missed' => Expected(t)' \/ Awaited(t)')
    BY <1>2, <1>3, NamedRecords DEF ReaderFollows, Follows
  <2>1. mail[t].version # 0 /\ (t \notin missed => Expected(t) \/ Awaited(t))
    BY <1>3 DEF TriageInv, ReaderFollows, Follows
  <2>2. Expected(t) \/ (t \in missed /\ t \notin missed') => Expected(t)'
    BY <1>2, <1>10 DEF Moves, Carries, Expected
  <2>3. Awaited(t) => Awaited(t)' \/ Expected(t)'
    <3> SUFFICES ASSUME Awaited(t) PROVE Awaited(t)' \/ Expected(t)'
      OBVIOUS
    <3>1. PICK i \in DOMAIN unread : unread[i] = t /\ (i <= drain.read => drain.plans[t].last = mail[t].version)
      BY <1>2 DEF Awaited
    <3>2. CASE i <= drain.size
      <4>1. Safe(new[t], run[t], mail[t].version)
        BY <1>2, <1>6, <2>1, <3>1, <3>2
      <4>2. conv' = new /\ run' = run /\ mail' = mail
        BY <1>2, <1>9 DEF RewriteBut
      <4> QED BY <4>1, <4>2 DEF Expected
    <3>3. CASE i > drain.size
      BY <1>2, <1>11, <3>1, <3>3 DEF Awaited
    <3> QED BY <1>1, <1>3, <3>2, <3>3
  <2> QED BY <2>1, <2>2, <2>3
<1> QED BY <1>12, <1>13, <1>14, <1>15 DEF TriageInv

----------------------------------------------------------------------------
(* The recovery. *)

LEMMA RecoveryBeginKeeps ==
  ASSUME TriageInv, RecoveryBegin
  PROVE  TriageInv'
<1>1. /\ drain = Off /\ recovery = Off /\ lost /\ recovery' = NewRecovery
      /\ UNCHANGED <<mail, unread, lost, enabled, conv, jobs, cache, run, drain, inventory, missed, budget>>
  BY DEF RecoveryBegin
<1>2. /\ NewRecovery \in [phase : {"listing"}, seen : Pages] /\ NewRecovery.phase = "listing"
      /\ \A t \in Threads : NewRecovery.seen[t] = 0
  BY TriageAssumption DEF NewRecovery, Pages, Version
<1>3. TypeOK'
  BY <1>1, <1>2 DEF TriageInv, TypeOK
<1>4. RowsHold' /\ InventoryHolds' /\ JobsHold' /\ DrainHolds'
  BY <1>1 DEF TriageInv, RowsHold, InventoryHolds, JobsHold, PendingItemsAreQueued, DrainHolds
<1>5. RecoveryHolds'
  <2>1. \A t \in Threads : 0 <= mail[t].version
    BY TriageAssumption DEF TriageInv, TypeOK, Version
  <2> QED BY <1>1, <1>2, <2>1 DEF RecoveryHolds
<1>6. ReaderFollows'
  <2> SUFFICES ASSUME NEW t \in Threads PROVE Follows(t)'
    BY DEF ReaderFollows
  <2>1. mail[t].shown => mail[t].version # 0
    BY DEF TriageInv, ReaderFollows, Follows
  <2> QED BY <1>1, <1>2, <2>1 DEF Follows
<1> QED BY <1>3, <1>4, <1>5, <1>6 DEF TriageInv

LEMMA RecoveryPageKeeps ==
  ASSUME TriageInv, RecoveryPage
  PROVE  TriageInv'
<1>1. /\ recovery.phase = "listing"
      /\ UNCHANGED <<mail, unread, lost, enabled, conv, jobs, cache, run, drain, inventory, missed, budget>>
  BY DEF RecoveryPage
<1>2. TypeOK /\ Len(unread) \in Nat /\ recovery # Off /\ recovery.seen \in Pages
  BY <1>1, PageFields, NamedRecords DEF TriageInv, TypeOK
<1>3. PICK page : page = [t \in Threads |-> IF mail[t].aside THEN 0 ELSE Mail[t]]
  OBVIOUS
<1>a. \A t \in Threads : page[t] \in {0, Content(t)} /\ page[t] \in Version
  <2> SUFFICES ASSUME NEW t \in Threads PROVE page[t] \in {0, Content(t)} /\ page[t] \in Version
    OBVIOUS
  <2>1. page[t] = IF mail[t].aside THEN 0 ELSE Content(t)
    BY <1>3 DEF Mail
  <2> QED BY <2>1, Here, TriageAssumption DEF Version
<1>b. page \in Pages /\ Listed(Mail) \subseteq Threads
  BY <1>3, <1>a DEF Pages, Listed
<1>4. /\ recovery' \in [phase : {"page"}, seen : Pages, page : Pages, target : Nat, left : SUBSET Threads]
      /\ recovery'.phase = "page" /\ recovery'.seen = recovery.seen /\ recovery'.page = page
      /\ recovery'.target = Len(unread) /\ recovery'.left = Listed(Mail)
  BY <1>2, <1>3, <1>b DEF RecoveryPage
<1>5. TypeOK'
  BY <1>1, <1>2, <1>4 DEF TypeOK
<1>6. RowsHold' /\ InventoryHolds' /\ JobsHold'
  BY <1>1 DEF TriageInv, RowsHold, InventoryHolds, JobsHold, PendingItemsAreQueued
<1>7. lost /\ drain = Off /\ recovery' # Off
  BY <1>2, <1>4, NamedRecords DEF TriageInv, RecoveryHolds
<1>8. DrainHolds' /\ RecoveryHolds'
  <2>1. \A t \in Threads : recovery.seen[t] <= mail[t].version
    BY <1>2 DEF TriageInv, RecoveryHolds
  <2>2. \A t \in Threads : page[t] <= mail[t].version
    <3> SUFFICES ASSUME NEW t \in Threads PROVE page[t] <= mail[t].version
      OBVIOUS
    <3>1. page[t] \in {0, mail[t].version} /\ mail[t].version \in Version
      BY <1>a, Here
    <3> QED BY <3>1, TriageAssumption DEF Version
  <2> QED BY <1>1, <1>2, <1>4, <1>7, <2>1, <2>2 DEF DrainHolds, RecoveryHolds
<1>9. ReaderFollows'
  <2> SUFFICES ASSUME NEW t \in Threads PROVE Follows(t)'
    BY DEF ReaderFollows
  <2>1. Follows(t) /\ (Expected(t)' <=> Expected(t))
    BY <1>1 DEF TriageInv, ReaderFollows, Expected
  <2>2. mail[t].shown => recovery'.page[t] \in {0, mail[t].version} /\ t \in recovery'.left
    BY <1>4, <1>a, <2>1 DEF Mail, Content, Listed, Follows
  <2> QED BY <1>1, <1>2, <1>4, <1>7, <2>1, <2>2 DEF Follows
<1> QED BY <1>5, <1>6, <1>8, <1>9 DEF TriageInv

LEMMA RecoveryItemKeeps ==
  ASSUME TriageInv, NEW t \in Threads, NEW historical \in BOOLEAN, RecoveryItem(t, historical)
  PROVE  TriageInv'
<1>1. TypeOK
  BY DEF TriageInv
<1>2. /\ recovery.phase = "page" /\ t \in recovery.left /\ (historical => conv[t].decision = NoDecision)
      /\ UNCHANGED <<mail, unread, lost, enabled, cache, run, drain, inventory, budget>>
  BY DEF RecoveryItem
<1>3. /\ recovery \in [phase : {"page"}, seen : Pages, page : Pages, target : Nat, left : SUBSET Threads]
      /\ recovery # Off /\ lost /\ drain = Off /\ \A page \in Pages, u \in Threads : page[u] \in Version
  BY <1>1, <1>2, PageFields DEF TriageInv, RecoveryHolds
<1>4. PICK version \in Version : version = recovery.page[t]
  BY <1>3
<1>5. PICK seen \in Pages, left \in SUBSET Threads : seen = [recovery.seen EXCEPT ![t] = version] /\ left = recovery.left \ {t}
  <2>1. recovery.seen \in Pages /\ recovery.left \ {t} \in SUBSET Threads
    BY <1>3
  <2>2. [recovery.seen EXCEPT ![t] = version] \in Pages
    BY <2>1 DEF Pages
  <2> QED BY <2>1, <2>2
<1>6. /\ recovery' \in [phase : {"page"}, seen : Pages, page : Pages, target : Nat, left : SUBSET Threads]
      /\ recovery'.phase = "page" /\ recovery'.seen = seen /\ recovery'.page = recovery.page
      /\ recovery'.target = recovery.target /\ recovery'.left = left
  <2>1. PICK d \in [phase : {"page"}, seen : Pages, page : Pages, target : Nat, left : SUBSET Threads] : d = recovery
    BY <1>3
  <2>2. PICK e : e = [d EXCEPT !.left = left, !.seen = seen]
    OBVIOUS
  <2>3. /\ e \in [phase : {"page"}, seen : Pages, page : Pages, target : Nat, left : SUBSET Threads]
        /\ e.phase = "page" /\ e.seen = seen /\ e.page = d.page /\ e.target = d.target /\ e.left = left
    BY <2>2
  <2>4. recovery' = e
    BY <1>4, <1>5, <2>1, <2>2 DEF RecoveryItem
  <2> QED BY <2>1, <2>3, <2>4
<1>7. recovery' # Off
  BY <1>6, NamedRecords
<1>8. PICK aside, again : aside = (recovery.page[t] = 0) /\ again = (recovery.seen[t] = recovery.page[t])
  OBVIOUS
<1>a. PICK passed \in SUBSET Threads : passed = IF aside THEN {t} ELSE {}
  OBVIOUS
<1>9. PICK new : new = IF aside \/ again \/ historical THEN conv ELSE [conv EXCEPT ![t] = Enqueue(conv[t], version, NoJob)]
  OBVIOUS
<1>10. RewriteBut(passed, new)
  BY <1>4, <1>8, <1>9, <1>a DEF RecoveryItem
<1>11. conv \in [Threads -> Conversations] /\ \A u \in Threads : Sound(conv[u], run[u], jobs, enabled, mail[u].version)
  BY <1>1 DEF TriageInv, RowsHold, TypeOK
<1>12. /\ Sound(new[t], run[t], jobs, enabled, mail[t].version)
       /\ Carries(conv[t], run[t], new[t], run[t], mail[t].version) /\ ItemsKept(conv[t], new[t], NoJob)
       /\ mail[t].shown /\ ~aside /\ version = mail[t].version => Safe(new[t], run[t], mail[t].version)
  <2>1. PICK c, r, n : c = conv[t] /\ r = run[t] /\ n = new[t]
    OBVIOUS
  <2>2. PICK v \in Version : v = mail[t].version
    BY Here
  <2>3. Sound(c, r, jobs, enabled, v)
    BY <2>1, <2>2, <1>11
  <2>4. CASE aside \/ again \/ historical
    <3>1. n = c
      BY <1>9, <2>1, <2>4
    <3>2. Carries(c, r, n, r, v) /\ ItemsKept(c, n, NoJob)
      BY <3>1, StillSound
    <3>3. ASSUME mail[t].shown, version = v, again PROVE Safe(c, r, v)
      <4>1. Expected(t)
        BY <1>3, <1>4, <1>8, <2>2, <3>3 DEF TriageInv, ReaderFollows, Follows
      <4> QED BY <2>1, <2>2, <4>1 DEF Expected
    <3>4. ASSUME historical PROVE Safe(c, r, v)
      <4>1. c.known = v \/ c.decision = NoDecision
        BY <1>2, <2>1, <3>4
      <4> QED BY <2>3, <4>1, UnwantedSafe
    <3> QED BY <2>1, <2>2, <2>3, <2>4, <3>1, <3>2, <3>3, <3>4
  <2>5. CASE ~(aside \/ again \/ historical)
    <3>1. n = Enqueue(c, version, NoJob)
      BY <1>9, <1>11, <2>1, <2>5
    <3>2. version <= v
      BY <1>2, <1>4, <2>2 DEF TriageInv, RecoveryHolds
    <3>3. PICK j \in Jobs \cup {NoJob} : j = NoJob
      OBVIOUS
    <3>4. n = Enqueue(c, version, j) /\ (j # NoJob => c.items[j] = "none")
      BY <3>1, <3>3
    <3>5. Sound(n, r, jobs, enabled, v) /\ Carries(c, r, n, r, v) /\ ItemsKept(c, n, j) /\ (version = v => Safe(n, r, v))
      BY <2>3, <3>2, <3>4, EnqueueSound
    <3> QED BY <2>1, <2>2, <3>3, <3>5
  <2> QED BY <2>4, <2>5
<1>13. \A u \in Threads : u # t => new[u] = conv[u]
  BY <1>9, <1>11
<1>14. new \in [Threads -> Conversations]
  BY <1>9, <1>11, <1>12 DEF Sound
<1>15. Transaction(new)
  <2> SUFFICES ASSUME NEW u \in Threads
               PROVE  /\ Sound(new[u], run[u], jobs, enabled, mail[u].version)
                      /\ Carries(conv[u], run[u], new[u], run[u], mail[u].version)
                      /\ ItemsKept(conv[u], new[u], NoJob)
    BY <1>2 DEF Transaction
  <2>1. CASE u = t
    BY <1>12, <2>1
  <2>2. CASE u # t
    BY <1>11, <1>13, <2>2, StillSound
  <2> QED BY <2>1, <2>2
<1>16. UNCHANGED enabled
  BY <1>2
<1>17. /\ conv' \in [Threads -> Conversations] /\ jobs' \in [Jobs -> JobRecords] /\ missed' \subseteq Threads
       /\ Moves /\ ItemsMove
  BY <1>1, <1>10, <1>14, <1>15, <1>16, Rewritten
<1>18. TypeOK'
  BY <1>1, <1>2, <1>6, <1>17 DEF TypeOK, JobRecords
<1>19. RowsHold' /\ JobsHold'
  BY <1>2, <1>17, RowsMoved, JobsMovedOn DEF TriageInv
<1>20. DrainHolds' /\ InventoryHolds'
  BY <1>2, <1>3 DEF TriageInv, DrainHolds, InventoryHolds
<1>21. RecoveryHolds'
  <2>1. \A u \in Threads : recovery.seen[u] <= mail[u].version /\ recovery.page[u] <= mail[u].version
    BY <1>2, <1>3 DEF TriageInv, RecoveryHolds
  <2>2. \A u \in Threads : seen[u] = IF u = t THEN recovery.page[u] ELSE recovery.seen[u]
    BY <1>3, <1>4, <1>5 DEF Pages
  <2>3. recovery.target <= Len(unread)
    BY <1>2 DEF TriageInv, RecoveryHolds
  <2> QED BY <1>2, <1>3, <1>6, <1>7, <2>1, <2>2, <2>3 DEF RecoveryHolds
<1>22. ReaderFollows'
  <2> SUFFICES ASSUME NEW u \in Threads PROVE Follows(u)'
    BY DEF ReaderFollows
  <2>1. Follows(u) /\ (\A n : After(u, n)' <=> After(u, n))
    BY <1>2 DEF TriageInv, ReaderFollows, After
  <2>2. Expected(u) \/ (u \in missed /\ u \notin missed') => Expected(u)'
    BY <1>2, <1>17 DEF Moves, Carries, Expected
  <2>3. CASE u = t
    <3>1. seen[t] = recovery.page[t]
      BY <1>3, <1>4, <1>5 DEF Pages
    <3>2. mail[t].shown /\ ~aside /\ recovery.page[t] = mail[t].version => Expected(t)'
      <4>1. conv' = new /\ run' = run /\ mail' = mail
        BY <1>2, <1>10 DEF RewriteBut
      <4> QED BY <1>4, <1>12, <4>1 DEF Expected
    <3>3. aside => t \in missed'
      BY <1>10, <1>a DEF RewriteBut
    <3>4. mail[t].shown /\ aside => recovery.page[t] = 0 /\ recovery.page[t] # mail[t].version
      BY <1>8, <2>1, <2>3 DEF Follows
    <3>5. mail[t].shown /\ ~aside /\ recovery.page[t] # mail[t].version => After(t, recovery.target)
      BY <1>2, <1>8, <2>1, <2>3 DEF Follows
    <3> QED BY <1>2, <1>3, <1>6, <1>7, <2>1, <2>2, <2>3, <3>1, <3>2, <3>3, <3>4, <3>5 DEF Follows
  <2>4. CASE u # t
    <3>1. seen[u] = recovery.seen[u] /\ (u \in recovery.left => u \in left)
      BY <1>3, <1>5, <2>4 DEF Pages
    <3> QED BY <1>2, <1>3, <1>6, <1>7, <2>1, <2>2, <3>1 DEF Follows
  <2> QED BY <2>3, <2>4
<1> QED BY <1>18, <1>19, <1>20, <1>21, <1>22 DEF TriageInv

LEMMA RecoveryEndKeeps ==
  ASSUME TriageInv, RecoveryEnd
  PROVE  TriageInv'
<1>1. TypeOK /\ unread \in Seq(Threads) /\ Len(unread) \in Nat
  BY DEF TriageInv, TypeOK
<1>2. /\ recovery.phase = "page" /\ recovery.left = {} /\ unread' = SubSeq(unread, recovery.target + 1, Len(unread))
      /\ lost' = FALSE /\ recovery' = Off
      /\ UNCHANGED <<mail, enabled, conv, jobs, cache, run, drain, inventory, missed, budget>>
  BY DEF RecoveryEnd
<1>3. recovery # Off /\ recovery.target \in Nat /\ recovery.target <= Len(unread) /\ drain = Off
  BY <1>1, <1>2, PageFields DEF TriageInv, RecoveryHolds
<1>4. PICK n \in Nat : n = recovery.target
  BY <1>3
<1>5. /\ unread' \in Seq(Threads)
      /\ \A i \in DOMAIN unread : i > n => i - n \in DOMAIN unread' /\ unread'[i - n] = unread[i]
  BY <1>1, <1>2, <1>3, <1>4, Remainder
<1>6. TypeOK'
  BY <1>1, <1>2, <1>5 DEF TypeOK
<1>7. RowsHold' /\ InventoryHolds' /\ JobsHold'
  BY <1>2 DEF TriageInv, RowsHold, InventoryHolds, JobsHold, PendingItemsAreQueued
<1>8. DrainHolds' /\ RecoveryHolds'
  BY <1>2, <1>3, NamedRecords DEF DrainHolds, RecoveryHolds
<1>9. ReaderFollows'
  <2> SUFFICES ASSUME NEW t \in Threads, mail[t].shown
               PROVE  mail[t].version # 0 /\ (t \notin missed => Expected(t)' \/ Awaited(t)')
    BY <1>2, NamedRecords DEF ReaderFollows, Follows
  <2>1. mail[t].version # 0 /\ (t \notin missed => Expected(t) \/ After(t, n))
    BY <1>2, <1>4 DEF TriageInv, ReaderFollows, Follows
  <2>2. Expected(t) => Expected(t)'
    BY <1>2 DEF Expected
  <2>3. After(t, n) => Awaited(t)'
    BY <1>2, <1>3, <1>5 DEF After, Awaited
  <2> QED BY <2>1, <2>2, <2>3
<1> QED BY <1>6, <1>7, <1>8, <1>9 DEF TriageInv

----------------------------------------------------------------------------
(* History jobs. *)

Inventories == {Off, [phase |-> "listing"]} \cup [phase : {"page"}, page : Pages, left : SUBSET Threads]

\* Jobs and inventories change, and no row does.
LEMMA JobsKeep ==
  ASSUME TriageInv, jobs' \in [Jobs -> JobRecords], inventory' \in [Jobs -> Inventories], InventoryHolds',
         \A j \in Jobs : Runs(jobs, j) /\ (\E t \in Threads : conv[t].items[j] = "pending") => Runs(jobs', j),
         \A j \in Jobs : jobs'[j].status = "none" => jobs[j].status = "none" /\ inventory'[j] = Off,
         \A j \in Jobs : \/ jobs[j].status \in {"running", "paused"} \/ jobs'[j].status \notin {"running", "paused"}
                         \/ \A t \in Threads : conv[t].items[j] # "pending",
         budget' \in 0 .. MaxInterventions, UNCHANGED <<mail, unread, lost, enabled, conv, cache, run, drain, recovery, missed>>
  PROVE  TriageInv'
<1>1. TypeOK /\ RowsHold /\ DrainHolds /\ RecoveryHolds /\ ReaderFollows /\ JobsHold
  BY DEF TriageInv
<1>2. TypeOK'
  BY <1>1 DEF TypeOK, JobRecords, Inventories
<1>3. Moves
  <2> SUFFICES ASSUME NEW t \in Threads
               PROVE  /\ Sound(conv[t], run[t], jobs', enabled, mail[t].version)
                      /\ Carries(conv[t], run[t], conv[t], run[t], mail[t].version)
    BY DEF Moves
  <2>1. PICK c, r, js2 : c = conv[t] /\ r = run[t] /\ js2 = jobs'
    OBVIOUS
  <2>2. Sound(c, r, jobs, enabled, mail[t].version)
    BY <1>1, <2>1 DEF RowsHold
  <2>3. Live(c, r) /\ r.job # NoJob /\ Runs(jobs, r.job) /\ c.items[r.job] = "pending" => Runs(js2, r.job)
    <3> SUFFICES ASSUME r # NoRun, r.job # NoJob, Runs(jobs, r.job), c.items[r.job] = "pending" PROVE Runs(js2, r.job)
      BY DEF Live, Owned
    <3>1. PICK j \in Jobs : j = r.job
      BY <2>2, RequestFields DEF Sound
    <3>2. Runs(jobs', j)
      BY <2>1, <3>1
    <3> QED BY <2>1, <3>1, <3>2
  <2>4. Sound(c, r, js2, enabled, mail[t].version)
    BY <2>2, <2>3, JobsMoved
  <2> QED BY <2>1, <2>4, StillSound
<1>4. RowsHold'
  BY <1>3, RowsMoved
<1>5. ReaderFollows'
  BY <1>1, <1>3, FollowsMoved
<1>6. DrainHolds' /\ RecoveryHolds'
  BY <1>1 DEF DrainHolds, RecoveryHolds
<1>7. JobsHold'
  BY <1>1 DEF JobsHold, PendingItemsAreQueued
<1> QED BY <1>2, <1>4, <1>5, <1>6, <1>7 DEF TriageInv

LEMMA JobFields ==
  ASSUME TriageInv
  PROVE  /\ jobs \in [Jobs -> JobRecords] /\ inventory \in [Jobs -> Inventories] /\ InventoryHolds
         /\ Off \in Inventories /\ [phase |-> "listing"] \in Inventories /\ [phase |-> "listing"].phase = "listing"
         /\ budget \in 0 .. MaxInterventions
         /\ \A j \in Jobs : jobs[j].status = "none" => inventory[j] = Off /\ \A t \in Threads : conv[t].items[j] # "pending"
BY DEF TriageInv, TypeOK, JobRecords, Inventories, JobsHold

LEMMA ProcessKeeps ==
  ASSUME TriageInv, NEW j \in Jobs, Process(j)
  PROVE  TriageInv'
<1>1. /\ jobs[j].status = "none" /\ jobs' = [jobs EXCEPT ![j].status = "running"]
      /\ inventory' = [inventory EXCEPT ![j] = [phase |-> "listing"]]
      /\ budget' \in 0 .. MaxInterventions /\ UNCHANGED <<mail, unread, lost, enabled, conv, cache, run, drain, recovery, missed>>
  BY JobFields, Intervened DEF Process
<1>2. /\ jobs' \in [Jobs -> JobRecords] /\ jobs'[j].status = "running" /\ \A k \in Jobs : k # j => jobs'[k] = jobs[k]
  BY <1>1, JobFields DEF JobRecords
<1>3. /\ inventory' \in [Jobs -> Inventories] /\ inventory'[j].phase = "listing"
      /\ \A k \in Jobs : k # j => inventory'[k] = inventory[k]
  BY <1>1, JobFields
<1>4. InventoryHolds'
  BY <1>1, <1>3, JobFields DEF InventoryHolds
<1>5. \A k \in Jobs : Runs(jobs, k) /\ (\E t \in Threads : conv[t].items[k] = "pending") => Runs(jobs', k)
  BY <1>1, <1>2, JobFields DEF Runs
<1>6. \A k \in Jobs : jobs'[k].status = "none" => jobs[k].status = "none" /\ inventory'[k] = Off
  BY <1>2, <1>3, JobFields
<1>7. \A k \in Jobs : \/ jobs[k].status \in {"running", "paused"} \/ jobs'[k].status \notin {"running", "paused"}
                      \/ \A t \in Threads : conv[t].items[k] # "pending"
  BY <1>1, <1>2, JobFields
<1> QED BY <1>1, <1>2, <1>3, <1>4, <1>5, <1>6, <1>7, JobsKeep

LEMMA InventoryPageKeeps ==
  ASSUME TriageInv, NEW j \in Jobs, InventoryPage(j)
  PROVE  TriageInv'
<1>1. /\ jobs[j].status = "running" /\ inventory' = [inventory EXCEPT ![j] = [phase |-> "page", page |-> Mail, left |-> Listed(Mail)]]
      /\ UNCHANGED <<mail, unread, lost, enabled, conv, jobs, cache, run, drain, recovery, missed, budget>>
  BY DEF InventoryPage
<1>2. Mail \in Pages /\ Listed(Mail) \subseteq Threads /\ \A t \in Threads : Mail[t] <= mail[t].version
  <2>1. Mail \in Pages /\ Listed(Mail) \subseteq Threads
    BY Here DEF Mail, Pages, Listed
  <2>2. ASSUME NEW t \in Threads PROVE Mail[t] <= mail[t].version
    <3>1. Mail[t] = Content(t)
      BY DEF Mail
    <3> QED BY <3>1, Here, TriageAssumption DEF Version
  <2> QED BY <2>1, <2>2
<1>3. PICK page \in Inventories : page = [phase |-> "page", page |-> Mail, left |-> Listed(Mail)]
  BY <1>2 DEF Inventories
<1>4. /\ inventory' \in [Jobs -> Inventories] /\ inventory'[j].page = Mail
      /\ \A k \in Jobs : k # j => inventory'[k] = inventory[k]
  BY <1>1, <1>3, JobFields
<1>5. InventoryHolds'
  BY <1>1, <1>2, <1>4, JobFields DEF InventoryHolds
<1>6. /\ jobs' \in [Jobs -> JobRecords] /\ \A k \in Jobs : jobs'[k].status = "none" => jobs[k].status = "none" /\ inventory'[k] = Off
  BY <1>1, <1>4, JobFields
<1>7. \A k \in Jobs : Runs(jobs, k) /\ (\E t \in Threads : conv[t].items[k] = "pending") => Runs(jobs', k)
  BY <1>1 DEF Runs
<1>8. \A k \in Jobs : \/ jobs[k].status \in {"running", "paused"} \/ jobs'[k].status \notin {"running", "paused"}
                      \/ \A t \in Threads : conv[t].items[k] # "pending"
  BY <1>1
<1> QED BY <1>1, <1>4, <1>5, <1>6, <1>7, <1>8, JobFields, JobsKeep

LEMMA InventoryEndKeeps ==
  ASSUME TriageInv, NEW j \in Jobs, InventoryEnd(j)
  PROVE  TriageInv'
<1>1. PICK job : job = [status |-> IF \E t \in Threads : conv[t].items[j] = "pending" THEN "running" ELSE "over", enumerated |-> TRUE]
  OBVIOUS
<1>2. /\ jobs[j].status = "running" /\ jobs' = [jobs EXCEPT ![j] = job] /\ inventory' = [inventory EXCEPT ![j] = Off]
      /\ UNCHANGED <<mail, unread, lost, enabled, conv, cache, run, drain, recovery, missed, budget>>
  BY <1>1 DEF InventoryEnd
<1>3. /\ job \in JobRecords /\ job.status # "none"
      /\ (\E t \in Threads : conv[t].items[j] = "pending") => job = [status |-> "running", enumerated |-> TRUE]
  BY <1>1 DEF JobRecords
<1>4. /\ jobs' \in [Jobs -> JobRecords] /\ jobs'[j] = job /\ \A k \in Jobs : k # j => jobs'[k] = jobs[k]
  BY <1>2, <1>3, JobFields
<1>5. /\ inventory' \in [Jobs -> Inventories] /\ inventory'[j] = Off /\ \A k \in Jobs : k # j => inventory'[k] = inventory[k]
  BY <1>2, JobFields
<1>6. InventoryHolds'
  BY <1>2, <1>5, JobFields, NamedRecords DEF InventoryHolds
<1>7. \A k \in Jobs : Runs(jobs, k) /\ (\E t \in Threads : conv[t].items[k] = "pending") => Runs(jobs', k)
  BY <1>3, <1>4 DEF Runs
<1>8. \A k \in Jobs : jobs'[k].status = "none" => jobs[k].status = "none" /\ inventory'[k] = Off
  BY <1>3, <1>4, <1>5, JobFields
<1>9. \A k \in Jobs : \/ jobs[k].status \in {"running", "paused"} \/ jobs'[k].status \notin {"running", "paused"}
                      \/ \A t \in Threads : conv[t].items[k] # "pending"
  BY <1>2, <1>4
<1> QED BY <1>2, <1>4, <1>5, <1>6, <1>7, <1>8, <1>9, JobFields, JobsKeep

LEMMA InventoryStopsKeeps ==
  ASSUME TriageInv, NEW j \in Jobs, InventoryStops(j)
  PROVE  TriageInv'
<1>1. /\ inventory' = [inventory EXCEPT ![j] = Off]
      /\ UNCHANGED <<mail, unread, lost, enabled, conv, jobs, cache, run, drain, recovery, missed, budget>>
  BY DEF InventoryStops
<1>2. /\ inventory' \in [Jobs -> Inventories] /\ inventory'[j] = Off /\ \A k \in Jobs : k # j => inventory'[k] = inventory[k]
  BY <1>1, JobFields
<1>3. InventoryHolds'
  BY <1>1, <1>2, JobFields, NamedRecords DEF InventoryHolds
<1>4. /\ jobs' \in [Jobs -> JobRecords] /\ \A k \in Jobs : jobs'[k].status = "none" => jobs[k].status = "none" /\ inventory'[k] = Off
  BY <1>1, <1>2, JobFields
<1>5. \A k \in Jobs : Runs(jobs, k) /\ (\E t \in Threads : conv[t].items[k] = "pending") => Runs(jobs', k)
  BY <1>1 DEF Runs
<1>6. \A k \in Jobs : \/ jobs[k].status \in {"running", "paused"} \/ jobs'[k].status \notin {"running", "paused"}
                      \/ \A t \in Threads : conv[t].items[k] # "pending"
  BY <1>1
<1> QED BY <1>1, <1>2, <1>3, <1>4, <1>5, <1>6, JobFields, JobsKeep

LEMMA ResumeKeeps ==
  ASSUME TriageInv, NEW j \in Jobs, Resume(j)
  PROVE  TriageInv'
<1>1. PICK inv : inv = IF jobs[j].enumerated \/ inventory[j] # Off THEN inventory[j] ELSE [phase |-> "listing"]
  OBVIOUS
<1>2. /\ jobs[j].status = "paused" /\ jobs' = [jobs EXCEPT ![j].status = "running"]
      /\ inventory' = [inventory EXCEPT ![j] = inv]
      /\ UNCHANGED <<mail, unread, lost, enabled, conv, cache, run, drain, recovery, missed, budget>>
  BY <1>1 DEF Resume
<1>3. /\ jobs' \in [Jobs -> JobRecords] /\ jobs'[j].status = "running" /\ \A k \in Jobs : k # j => jobs'[k] = jobs[k]
  BY <1>2, JobFields DEF JobRecords
<1>4. inv \in Inventories /\ (inv = inventory[j] \/ inv.phase = "listing")
  BY <1>1, JobFields
<1>5. /\ inventory' \in [Jobs -> Inventories] /\ inventory'[j] = inv /\ \A k \in Jobs : k # j => inventory'[k] = inventory[k]
  BY <1>2, <1>4, JobFields
<1>6. InventoryHolds'
  BY <1>2, <1>4, <1>5, JobFields DEF InventoryHolds
<1>7. \A k \in Jobs : Runs(jobs, k) /\ (\E t \in Threads : conv[t].items[k] = "pending") => Runs(jobs', k)
  <2>1. ~Runs(jobs, j)
    BY <1>2 DEF Runs
  <2> QED BY <1>3, <2>1 DEF Runs
<1>8. \A k \in Jobs : jobs'[k].status = "none" => jobs[k].status = "none" /\ inventory'[k] = Off
  BY <1>3, <1>5, JobFields
<1>9. \A k \in Jobs : \/ jobs[k].status \in {"running", "paused"} \/ jobs'[k].status \notin {"running", "paused"}
                      \/ \A t \in Threads : conv[t].items[k] # "pending"
  BY <1>2, <1>3
<1> QED BY <1>2, <1>3, <1>5, <1>6, <1>7, <1>8, <1>9, JobFields, JobsKeep

LEMMA InventoryItemKeeps ==
  ASSUME TriageInv, NEW j \in Jobs, NEW t \in Threads, NEW outside \in BOOLEAN, InventoryItem(j, t, outside)
  PROVE  TriageInv'
<1>1. /\ TypeOK /\ RowsHold /\ JobsHold /\ conv \in [Threads -> Conversations] /\ jobs \in [Jobs -> JobRecords]
  BY JobFields DEF TriageInv, TypeOK
<1>2. /\ inventory[j].phase = "page" /\ (jobs[j].status # "running" => SliceYields)
      /\ jobs' = [jobs EXCEPT ![j].status = "running"]
      /\ UNCHANGED <<mail, unread, lost, enabled, cache, run, drain, recovery, budget>>
  BY DEF InventoryItem, Yielded
<1>3. /\ inventory[j] \in [phase : {"page"}, page : Pages, left : SUBSET Threads] /\ inventory[j] # Off
      /\ \A page \in Pages, u \in Threads : page[u] \in Version
  BY <1>1, <1>2, PageFields
<1>4. PICK version \in Version : version = inventory[j].page[t]
  BY <1>3
<1>5. PICK known : known = (conv[t].items[j] # "none" \/ (conv[t].known = version /\ Reusable(conv[t])))
  OBVIOUS
<1>6. PICK new : new = IF known \/ outside THEN conv ELSE [conv EXCEPT ![t] = Enqueue(conv[t], version, j)]
  OBVIOUS
<1>7. conv' = new /\ missed' = {m \in missed : conv[m].row # NoRow \/ new[m].row = NoRow}
  BY <1>4, <1>5, <1>6 DEF InventoryItem
<1>8. PICK page \in Inventories : page = [inventory[j] EXCEPT !.left = inventory[j].left \ {t}] /\ page.page = inventory[j].page /\ page.phase = "page"
  <2>1. PICK d \in [phase : {"page"}, page : Pages, left : SUBSET Threads], left \in SUBSET Threads :
          d = inventory[j] /\ left = inventory[j].left \ {t}
    BY <1>3
  <2>2. /\ [d EXCEPT !.left = left] \in [phase : {"page"}, page : Pages, left : SUBSET Threads]
        /\ [d EXCEPT !.left = left].page = d.page /\ [d EXCEPT !.left = left].phase = "page"
    OBVIOUS
  <2> QED BY <2>1, <2>2 DEF Inventories
<1>9. inventory' = [inventory EXCEPT ![j] = page]
  BY <1>8 DEF InventoryItem
<1>10. /\ inventory' \in [Jobs -> Inventories] /\ inventory'[j] = page /\ \A k \in Jobs : k # j => inventory'[k] = inventory[k]
  BY <1>8, <1>9, JobFields
<1>11. /\ jobs' \in [Jobs -> JobRecords] /\ jobs'[j].status = "running" /\ \A k \in Jobs : k # j => jobs'[k] = jobs[k]
  BY <1>1, <1>2 DEF JobRecords
<1>12. /\ Sound(new[t], run[t], jobs, enabled, mail[t].version)
       /\ Carries(conv[t], run[t], new[t], run[t], mail[t].version) /\ ItemsKept(conv[t], new[t], j)
  <2>1. PICK c, r, n : c = conv[t] /\ r = run[t] /\ n = new[t]
    OBVIOUS
  <2>2. PICK v \in Version : v = mail[t].version
    BY Here
  <2>3. Sound(c, r, jobs, enabled, v)
    BY <1>1, <2>1, <2>2 DEF RowsHold
  <2>4. CASE known \/ outside
    <3>1. n = c
      BY <1>6, <2>1, <2>4
    <3> QED BY <2>1, <2>2, <2>3, <3>1, StillSound
  <2>5. CASE ~(known \/ outside)
    <3>1. n = Enqueue(c, version, j) /\ c.items[j] = "none"
      BY <1>1, <1>5, <1>6, <2>1, <2>5
    <3>2. version <= v
      BY <1>2, <1>4, <2>2 DEF TriageInv, InventoryHolds
    <3>3. Sound(n, r, jobs, enabled, v) /\ Carries(c, r, n, r, v) /\ ItemsKept(c, n, j)
      BY <2>3, <3>1, <3>2, EnqueueSound
    <3> QED BY <2>1, <2>2, <3>3
  <2> QED BY <2>4, <2>5
<1>13. \A u \in Threads : u # t => new[u] = conv[u]
  BY <1>1, <1>6
<1>14. \A u \in Threads : /\ Sound(new[u], run[u], jobs, enabled, mail[u].version)
                          /\ Carries(conv[u], run[u], new[u], run[u], mail[u].version) /\ ItemsKept(conv[u], new[u], j)
  <2> SUFFICES ASSUME NEW u \in Threads
               PROVE  /\ Sound(new[u], run[u], jobs, enabled, mail[u].version)
                      /\ Carries(conv[u], run[u], new[u], run[u], mail[u].version) /\ ItemsKept(conv[u], new[u], j)
    OBVIOUS
  <2>1. CASE u = t
    BY <1>12, <2>1
  <2>2. CASE u # t
    BY <1>1, <1>13, <2>2, StillSound DEF RowsHold
  <2> QED BY <2>1, <2>2
<1>15. \A k \in Jobs : Runs(jobs, k) => Runs(jobs', k)
  <2>1. Runs(jobs, j) => Runs(jobs', j)
    <3> SUFFICES ASSUME jobs[j] = [status |-> "running", enumerated |-> TRUE] PROVE jobs'[j] = [status |-> "running", enumerated |-> TRUE]
      BY DEF Runs
    <3>1. jobs'[j] = [jobs[j] EXCEPT !.status = "running"]
      BY <1>1, <1>2
    <3> QED BY <3>1
  <2> QED BY <1>11, <2>1 DEF Runs
<1>16. Moves
  <2> SUFFICES ASSUME NEW u \in Threads
               PROVE  /\ Sound(new[u], run[u], jobs', enabled, mail[u].version)
                      /\ Carries(conv[u], run[u], new[u], run[u], mail[u].version)
                      /\ u \in missed /\ u \notin missed' => conv[u].row = NoRow /\ new[u].row # NoRow
    BY <1>2, <1>7 DEF Moves
  <2>1. PICK c, r, js2 : c = new[u] /\ r = run[u] /\ js2 = jobs'
    OBVIOUS
  <2>2. Sound(c, r, jobs, enabled, mail[u].version)
    BY <1>14, <2>1
  <2>3. Live(c, r) /\ r.job # NoJob /\ Runs(jobs, r.job) /\ c.items[r.job] = "pending" => Runs(js2, r.job)
    <3> SUFFICES ASSUME r # NoRun, r.job # NoJob, Runs(jobs, r.job) PROVE Runs(js2, r.job)
      BY DEF Live, Owned
    <3>1. PICK k \in Jobs : k = r.job
      BY <2>2, RequestFields DEF Sound
    <3>2. Runs(jobs', k)
      BY <1>15, <3>1
    <3> QED BY <2>1, <3>1, <3>2
  <2>4. Sound(c, r, js2, enabled, mail[u].version)
    BY <2>2, <2>3, JobsMoved
  <2> QED BY <1>7, <1>14, <2>1, <2>4
<1>17. ItemsMove
  <2> SUFFICES ASSUME NEW k \in Jobs
               PROVE  /\ jobs'[k].status = "none" => jobs[k].status = "none"
                      /\ \A u \in Threads : new[u].items[k] = "pending" =>
                           /\ jobs'[k].status = "none" => conv[u].items[k] = "pending"
                           /\ ~SliceYields /\ jobs'[k].status \in {"running", "paused"} /\ new[u].row = NoRow =>
                                jobs[k].status \in {"running", "paused"} /\ conv[u].items[k] = "pending" /\ conv[u].row = NoRow
    BY <1>7 DEF ItemsMove
  <2>1. \A u \in Threads : new[u].items[k] = "pending" =>
          /\ conv[u].items[k] = "pending" \/ k = j
          /\ new[u].row = NoRow => conv[u].row = NoRow /\ conv[u].items[k] = "pending"
    BY <1>14 DEF ItemsKept
  <2>2. CASE k = j
    BY <1>2, <1>11, <2>1, <2>2
  <2>3. CASE k # j
    BY <1>11, <2>1, <2>3
  <2> QED BY <2>2, <2>3
<1>18. TypeOK'
  <2>1. new \in [Threads -> Conversations]
    BY <1>1, <1>6, <1>12 DEF Sound
  <2>2. missed' \subseteq Threads
    BY <1>1, <1>7 DEF TypeOK
  <2>3. run' \in [Threads -> Requests] /\ conv' \in [Threads -> Conversations]
    BY <1>1, <1>2, <1>7, <2>1 DEF TypeOK
  <2>4. UNCHANGED <<mail, unread, lost, enabled, cache, drain, recovery, budget>>
    BY <1>2
  <2> QED BY <1>1, <1>10, <1>11, <2>2, <2>3, <2>4 DEF TypeOK, JobRecords, Inventories
<1>19. InventoryHolds'
  <2> SUFFICES ASSUME NEW k \in Jobs, inventory'[k].phase = "page", NEW u \in Threads
               PROVE  inventory'[k].page[u] <= mail[u].version
    BY <1>2 DEF InventoryHolds
  <2>1. inventory[k].phase = "page" /\ inventory'[k].page = inventory[k].page
    BY <1>2, <1>8, <1>10
  <2>2. inventory[k].page[u] <= mail[u].version
    BY <2>1 DEF TriageInv, InventoryHolds
  <2> QED BY <2>1, <2>2
<1>20. JobsHold'
  <2>1. \A k \in Jobs : jobs'[k].status = "none" => inventory'[k] = inventory[k]
    BY <1>10, <1>11
  <2> QED BY <1>1, <1>17, <2>1, JobsMovedOn
<1>21. RowsHold' /\ ReaderFollows'
  BY <1>2, <1>16, RowsMoved, FollowsMoved DEF TriageInv
<1>22. DrainHolds' /\ RecoveryHolds'
  BY <1>2 DEF TriageInv, DrainHolds, RecoveryHolds
<1> QED BY <1>18, <1>19, <1>20, <1>21, <1>22 DEF TriageInv

----------------------------------------------------------------------------
(* Settings, job controls and restarts. *)

LEMMA ConfigureKeeps ==
  ASSUME TriageInv, NEW on \in BOOLEAN, NEW model \in BOOLEAN, Configure(on, model)
  PROVE  TriageInv'
<1>1. TypeOK /\ unread \in Seq(Threads) /\ jobs \in [Jobs -> JobRecords] /\ budget' \in 0 .. MaxInterventions
  BY JobFields, Intervened DEF TriageInv, TypeOK, Configure
<1>2. /\ drain = Off /\ enabled' = on /\ conv' = [t \in Threads |-> Cleared(conv[t], model)]
      /\ cache' = (IF model THEN {} ELSE cache) /\ run' = Aborted(Threads) /\ recovery' = Off
      /\ jobs' = [j \in Jobs |-> IF jobs[j].status \in {"running", "paused"} THEN [jobs[j] EXCEPT !.status = "cancelled"] ELSE jobs[j]]
      /\ missed' = (IF lost THEN Threads ELSE missed \cup {unread[i] : i \in DOMAIN unread})
      /\ unread' = <<>> /\ lost' = FALSE /\ inventory' = [j \in Jobs |-> Off]
      /\ UNCHANGED <<mail, drain>>
  BY DEF Configure
<1>3. ASSUME NEW t \in Threads
      PROVE  /\ Sound(conv'[t], run'[t], jobs', on, mail[t].version)
             /\ Carries(conv[t], run[t], conv'[t], run'[t], mail[t].version)
             /\ conv'[t].items = conv[t].items
  <2>1. PICK c, r, n, s, js2 : c = conv[t] /\ r = run[t] /\ n = conv'[t] /\ s = run'[t] /\ js2 = jobs'
    OBVIOUS
  <2>2. PICK v \in Version : v = mail[t].version
    BY Here
  <2>3. Sound(c, r, jobs, enabled, v)
    BY <2>1, <2>2, Here
  <2>4. n = Cleared(c, model) /\ s = IF r # NoRun THEN [r EXCEPT !.aborted = TRUE] ELSE r
    BY <1>2, <2>1 DEF Aborted
  <2>5. Sound(n, s, js2, on, v) /\ Carries(c, r, n, s, v) /\ n.items = c.items
    BY <2>3, <2>4, ClearedSound
  <2> QED BY <2>1, <2>2, <2>5
<1>4. ASSUME NEW j \in Jobs
      PROVE  /\ jobs'[j] \in JobRecords /\ jobs'[j].status \notin {"running", "paused"}
             /\ jobs'[j].status = "none" => jobs[j].status = "none"
  <2>1. PICK job \in JobRecords : job = jobs[j]
    BY <1>1
  <2>2. CASE job.status \in {"running", "paused"}
    <3>1. jobs'[j] = [job EXCEPT !.status = "cancelled"]
      BY <1>2, <2>1, <2>2
    <3> QED BY <3>1 DEF JobRecords
  <2>3. CASE job.status \notin {"running", "paused"}
    <3>1. jobs'[j] = job
      BY <1>2, <2>1, <2>3
    <3> QED BY <2>1, <2>3, <3>1
  <2> QED BY <2>2, <2>3
<1>5. TypeOK'
  <2>1. conv' \in [Threads -> Conversations]
    BY <1>2, <1>3 DEF Sound
  <2>2. run' \in [Threads -> Requests]
    <3>1. \A t \in Threads : run'[t] \in Requests
      BY <1>3 DEF Sound
    <3> QED BY <1>2, <3>1 DEF Aborted
  <2>3. jobs' \in [Jobs -> JobRecords]
    BY <1>2, <1>4
  <2>4. cache' \subseteq Version /\ missed' \subseteq Threads
    BY <1>1, <1>2 DEF TypeOK
  <2>5. mail' \in [Threads -> [version : Version, shown : BOOLEAN, aside : BOOLEAN]] /\ unread' \in Seq(Threads)
    BY <1>1, <1>2 DEF TypeOK
  <2>6. inventory' \in [Jobs -> Inventories]
    BY <1>2, JobFields
  <2>7. drain' = Off /\ recovery' = Off /\ lost' \in BOOLEAN /\ enabled' \in BOOLEAN
    BY <1>2
  <2> QED BY <1>1, <2>1, <2>2, <2>3, <2>4, <2>5, <2>6, <2>7 DEF TypeOK, JobRecords, Inventories
<1>6. RowsHold'
  BY <1>2, <1>3 DEF RowsHold
<1>7. DrainHolds' /\ RecoveryHolds' /\ InventoryHolds'
  BY <1>2, NamedRecords DEF DrainHolds, RecoveryHolds, InventoryHolds
<1>8. JobsHold'
  <2>1. \A j \in Jobs : jobs'[j].status = "none" => inventory'[j] = Off /\ \A t \in Threads : conv'[t].items[j] # "pending"
    BY <1>2, <1>3, <1>4, JobFields
  <2> QED BY <1>4, <2>1 DEF JobsHold, PendingItemsAreQueued
<1>9. ReaderFollows'
  <2> SUFFICES ASSUME NEW t \in Threads, mail[t].shown
               PROVE  mail[t].version # 0 /\ (t \notin missed' => Expected(t)')
    BY <1>2, NamedRecords DEF ReaderFollows, Follows
  <2>1. mail[t].version # 0 /\ (~lost /\ t \notin missed => Expected(t) \/ Awaited(t))
    BY DEF TriageInv, ReaderFollows, Follows
  <2>2. t \notin missed' => ~lost /\ t \notin missed /\ ~Awaited(t)
    BY <1>2 DEF Awaited
  <2>3. Expected(t) => Expected(t)'
    BY <1>2, <1>3 DEF Expected, Carries
  <2> QED BY <2>1, <2>2, <2>3
<1> QED BY <1>5, <1>6, <1>7, <1>8, <1>9 DEF TriageInv

\* A request of the job is called off, whoever owns its row.
LEMMA CalledOffRequests ==
  ASSUME NEW j \in Jobs, NEW t \in Threads, run[t] \in Requests, NEW s, s = Aborted(OfJob(j))[t], s # NoRun, s.job = j
  PROVE  s.aborted
<1>1. PICK r \in Requests : r = run[t]
  OBVIOUS
<1>2. s = IF r # NoRun /\ r.job = j THEN [r EXCEPT !.aborted = TRUE] ELSE r
  BY <1>1 DEF Aborted, OfJob
<1>3. CASE r # NoRun /\ r.job = j
  BY <1>2, <1>3, AbortedShape
<1>4. CASE ~(r # NoRun /\ r.job = j)
  BY <1>2, <1>4
<1> QED BY <1>3, <1>4

\* A job is paused or cancelled: its requests are called off, and no other job changes.
LEMMA ControlKeeps ==
  ASSUME TriageInv, NEW j \in Jobs, NEW status \in {"paused", "cancelled"}, jobs[j].status \in {"running", "paused"},
         jobs' = [jobs EXCEPT ![j].status = status], run' = Aborted(OfJob(j)), conv' \in [Threads -> Conversations],
         \A t \in Threads : /\ Sound(conv'[t], run'[t], jobs, enabled, mail[t].version)
                            /\ Carries(conv[t], run[t], conv'[t], run'[t], mail[t].version)
                            /\ conv'[t].items = conv[t].items
                            /\ \A k \in Jobs : \/ conv'[t].row # NoRow \/ conv[t].row = NoRow \/ conv[t].items[k] # "pending"
                                               \/ jobs'[k].status \notin {"running", "paused"},
         budget' \in 0 .. MaxInterventions,
         UNCHANGED <<mail, unread, lost, enabled, cache, drain, recovery, inventory, missed>>
  PROVE  TriageInv'
<1>1. TypeOK /\ jobs \in [Jobs -> JobRecords]
  BY JobFields DEF TriageInv
<1>2. /\ jobs' \in [Jobs -> JobRecords] /\ jobs'[j].status = status /\ \A k \in Jobs : k # j => jobs'[k] = jobs[k]
  BY <1>1 DEF JobRecords
<1>3. Moves
  <2> SUFFICES ASSUME NEW t \in Threads
               PROVE  /\ Sound(conv'[t], run'[t], jobs', enabled, mail[t].version)
                      /\ Carries(conv[t], run[t], conv'[t], run'[t], mail[t].version)
    BY DEF Moves
  <2>1. PICK n, s, js2 : n = conv'[t] /\ s = run'[t] /\ js2 = jobs'
    OBVIOUS
  <2>2. Sound(n, s, jobs, enabled, mail[t].version) /\ s = Aborted(OfJob(j))[t] /\ run[t] \in Requests
    BY <2>1, Here
  <2>3. Live(n, s) /\ s.job # NoJob /\ Runs(jobs, s.job) /\ n.items[s.job] = "pending" => Runs(js2, s.job)
    <3> SUFFICES ASSUME s # NoRun, ~s.aborted, s.job # NoJob, Runs(jobs, s.job) PROVE Runs(js2, s.job)
      BY DEF Live, Owned
    <3>1. PICK k \in Jobs : k = s.job
      BY <2>2, RequestFields DEF Sound
    <3>2. k # j
      BY <2>2, <3>1, CalledOffRequests
    <3> QED BY <1>2, <2>1, <3>1, <3>2 DEF Runs
  <2>4. Sound(n, s, js2, enabled, mail[t].version)
    BY <2>2, <2>3, JobsMoved
  <2> QED BY <2>1, <2>4
<1>4. ItemsMove
  BY <1>2 DEF ItemsMove
<1>5. run' \in [Threads -> Requests]
  <2>1. \A t \in Threads : run'[t] \in Requests
    BY DEF Sound
  <2> QED BY <2>1 DEF Aborted
<1>6. TypeOK'
  BY <1>1, <1>2, <1>5 DEF TypeOK, JobRecords
<1> QED BY <1>3, <1>4, <1>6, MovesHold

LEMMA PauseKeeps ==
  ASSUME TriageInv, NEW j \in Jobs, Pause(j)
  PROVE  TriageInv'
<1>1. PICK status \in {"paused", "cancelled"} : status = "paused"
  OBVIOUS
<1>2. /\ jobs[j].status \in {"running", "paused"} /\ jobs' = [jobs EXCEPT ![j].status = status]
      /\ run' = Aborted(OfJob(j)) /\ conv' = CalledOff(j) /\ budget' \in 0 .. MaxInterventions
      /\ UNCHANGED <<mail, unread, lost, enabled, cache, drain, recovery, inventory, missed>>
  BY <1>1, Intervened DEF Pause
<1>3. ASSUME NEW t \in Threads
      PROVE  /\ Sound(conv'[t], run'[t], jobs, enabled, mail[t].version)
             /\ Carries(conv[t], run[t], conv'[t], run'[t], mail[t].version)
             /\ conv'[t].items = conv[t].items /\ (conv'[t].row = NoRow <=> conv[t].row = NoRow)
  <2>1. PICK c, r, n, s : c = conv[t] /\ r = run[t] /\ n = CalledOff(j)[t] /\ s = Aborted(OfJob(j))[t]
    OBVIOUS
  <2>2. PICK v \in Version : v = mail[t].version
    BY Here
  <2>3. Sound(c, r, jobs, enabled, v)
    BY <2>1, <2>2, Here
  <2>4. Sound(n, s, jobs, enabled, v) /\ Carries(c, r, n, s, v) /\ n.items = c.items /\ (n.row = NoRow <=> c.row = NoRow)
    BY <2>1, <2>3, CalledOffSound
  <2> QED BY <1>2, <2>1, <2>2, <2>4
<1>4. conv' \in [Threads -> Conversations]
  <2>1. \A t \in Threads : conv'[t] \in Conversations
    BY <1>3 DEF Sound
  <2> QED BY <1>2, <2>1 DEF CalledOff
<1> QED BY <1>2, <1>3, <1>4, ControlKeeps

LEMMA CancelKeeps ==
  ASSUME TriageInv, NEW j \in Jobs, Cancel(j)
  PROVE  TriageInv'
<1>1. PICK status \in {"paused", "cancelled"} : status = "cancelled"
  OBVIOUS
<1>2. /\ jobs[j].status \in {"running", "paused"} /\ jobs' = [jobs EXCEPT ![j].status = status]
      /\ run' = Aborted(OfJob(j)) /\ budget' \in 0 .. MaxInterventions
      /\ UNCHANGED <<mail, unread, lost, enabled, cache, drain, recovery, inventory, missed>>
  BY <1>1, Intervened DEF Cancel
<1>3. PICK new \in [Threads -> UNION {Surrendered(j, CalledOff(j)[t]) : t \in Threads}] :
        conv' = new /\ \A t \in Threads : new[t] \in Surrendered(j, CalledOff(j)[t])
  BY DEF Cancel
<1>4. jobs \in [Jobs -> JobRecords] /\ \A k \in Jobs : jobs'[k].status = IF k = j THEN "cancelled" ELSE jobs[k].status
  BY <1>1, <1>2, JobFields DEF JobRecords
<1>5. ASSUME NEW t \in Threads
      PROVE  /\ Sound(new[t], run'[t], jobs, enabled, mail[t].version)
             /\ Carries(conv[t], run[t], new[t], run'[t], mail[t].version)
             /\ new[t].items = conv[t].items
             /\ \A k \in Jobs : \/ new[t].row # NoRow \/ conv[t].row = NoRow \/ conv[t].items[k] # "pending"
                                \/ jobs'[k].status \notin {"running", "paused"}
  <2>1. PICK c, r, b, s, n : c = conv[t] /\ r = run[t] /\ b = CalledOff(j)[t] /\ s = Aborted(OfJob(j))[t] /\ n = new[t]
    OBVIOUS
  <2>2. PICK v \in Version : v = mail[t].version
    BY Here
  <2>3. Sound(c, r, jobs, enabled, v)
    BY <2>1, <2>2, Here
  <2>4. /\ Sound(b, s, jobs, enabled, v) /\ Carries(c, r, b, s, v) /\ b.items = c.items /\ (b.row = NoRow <=> c.row = NoRow)
        /\ Live(b, s) => s.job # j /\ b.row.job # j
    BY <2>1, <2>3, CalledOffSound
  <2>5. n \in Surrendered(j, b)
    BY <1>3, <2>1
  <2>6. /\ Sound(n, s, jobs, enabled, v) /\ Carries(b, s, n, s, v) /\ n.items = b.items
        /\ n.row # NoRow => b.row # NoRow
        /\ \A k \in Jobs \ {j} :
             b.items[k] = "pending" /\ jobs[k].status \in {"running", "paused"} /\ b.row # NoRow => n.row # NoRow
    BY <2>4, <2>5, SurrenderedSound
  <2>7. Carries(c, r, n, s, v)
    BY <2>4, <2>6 DEF Carries
  <2>8. \A k \in Jobs : n.row # NoRow \/ c.row = NoRow \/ c.items[k] # "pending" \/ jobs'[k].status \notin {"running", "paused"}
    BY <1>4, <2>4, <2>6
  <2> QED BY <1>2, <2>1, <2>2, <2>4, <2>6, <2>7, <2>8
<1>6. conv' \in [Threads -> Conversations]
  BY <1>3, <1>5 DEF Sound
<1> QED BY <1>2, <1>3, <1>5, <1>6, ControlKeeps

LEMMA RestartKeeps ==
  ASSUME TriageInv, Restart
  PROVE  TriageInv'
<1>1. TypeOK /\ conv \in [Threads -> Conversations] /\ budget' \in 0 .. MaxInterventions
  BY Intervened DEF TriageInv, TypeOK, Restart
<1>2. /\ conv' = [t \in Threads |-> [conv[t] EXCEPT !.row = Interrupted(conv[t].row)]]
      /\ run' = [t \in Threads |-> NoRun] /\ drain' = Off
      /\ recovery' = (IF recovery = Off THEN Off ELSE [NewRecovery EXCEPT !.seen = recovery.seen])
      /\ inventory' = [j \in Jobs |-> IF enabled /\ jobs[j] = [status |-> "running", enumerated |-> FALSE]
                                     THEN [phase |-> "listing"] ELSE Off]
      /\ UNCHANGED <<mail, unread, lost, enabled, jobs, cache, missed>>
  BY DEF Restart
<1>3. ASSUME NEW t \in Threads
      PROVE  /\ Sound(conv'[t], NoRun, jobs, enabled, mail[t].version)
             /\ Carries(conv[t], run[t], conv'[t], NoRun, mail[t].version) /\ ItemsKept(conv[t], conv'[t], NoJob)
  <2>1. PICK c, r, n : c = conv[t] /\ r = run[t] /\ n = conv'[t]
    OBVIOUS
  <2>2. PICK v \in Version : v = mail[t].version
    BY Here
  <2>3. Sound(c, r, jobs, enabled, v)
    BY <2>1, <2>2, Here
  <2>4. n = [c EXCEPT !.row = Interrupted(c.row)]
    BY <1>2, <2>1
  <2>5. Sound(n, NoRun, jobs, enabled, v) /\ Carries(c, r, n, NoRun, v) /\ ItemsKept(c, n, NoJob)
    BY <2>3, <2>4, InterruptedSound
  <2> QED BY <2>1, <2>2, <2>5
<1>4. Moves
  BY <1>2, <1>3 DEF Moves
<1>5. ItemsMove
  <2>1. \A t \in Threads, k \in Jobs : conv'[t].items[k] = "pending" =>
          conv[t].items[k] = "pending" /\ (conv'[t].row = NoRow => conv[t].row = NoRow)
    BY <1>3, TriageAssumption DEF ItemsKept
  <2> QED BY <1>2, <2>1 DEF ItemsMove
<1>6. \/ recovery = Off /\ recovery' = Off
      \/ /\ recovery # Off /\ recovery' \in [phase : {"listing"}, seen : Pages]
         /\ recovery'.phase = "listing" /\ recovery'.seen = recovery.seen
  <2>1. CASE recovery # Off
    <3>1. PICK seen \in Pages : seen = recovery.seen
      BY <1>1, <2>1, PageFields
    <3>2. NewRecovery \in [phase : {"listing"}, seen : Pages]
      BY TriageAssumption DEF NewRecovery, Pages, Version
    <3>3. recovery' = [NewRecovery EXCEPT !.seen = seen]
      BY <1>2, <2>1, <3>1
    <3> QED BY <2>1, <3>1, <3>2, <3>3
  <2> QED BY <1>2, <2>1
<1>7. \A j \in Jobs : jobs[j].status = "none" => inventory'[j] = inventory[j]
  <2> SUFFICES ASSUME NEW j \in Jobs, jobs[j].status = "none" PROVE inventory'[j] = inventory[j]
    OBVIOUS
  <2>1. jobs[j] # [status |-> "running", enumerated |-> FALSE] /\ inventory[j] = Off
    BY JobFields
  <2> QED BY <1>2, <2>1
<1>8. TypeOK'
  <2>1. conv' \in [Threads -> Conversations] /\ run' \in [Threads -> Requests]
    BY <1>2, <1>3, NamedRecords DEF Sound
  <2>2. inventory' \in [Jobs -> Inventories]
    BY <1>2, JobFields
  <2> QED BY <1>1, <1>2, <1>6, <2>1, <2>2 DEF TypeOK, Inventories
<1>9. RowsHold' /\ JobsHold'
  BY <1>2, <1>4, <1>5, <1>7, RowsMoved, JobsMovedOn DEF TriageInv
<1>10. DrainHolds' /\ InventoryHolds'
  <2>1. \A j \in Jobs : inventory'[j].phase # "page"
    BY <1>2, JobFields, NamedRecords
  <2> QED BY <1>2, <2>1 DEF DrainHolds, InventoryHolds
<1>11. RecoveryHolds'
  BY <1>2, <1>6, NamedRecords DEF TriageInv, RecoveryHolds
<1>12. ReaderFollows'
  <2> SUFFICES ASSUME NEW t \in Threads PROVE Follows(t)'
    BY DEF ReaderFollows
  <2>1. Follows(t)
    BY DEF TriageInv, ReaderFollows
  <2>2. Expected(t) => Expected(t)'
    BY <1>2, <1>4 DEF Moves, Carries, Expected
  <2>3. Awaited(t) => Awaited(t)'
    BY <1>2 DEF Awaited
  <2>4. recovery'.phase # "page"
    BY <1>6, NamedRecords
  <2> QED BY <1>2, <1>6, <2>1, <2>2, <2>3, <2>4 DEF Follows
<1> QED BY <1>8, <1>9, <1>10, <1>11, <1>12 DEF TriageInv

----------------------------------------------------------------------------
(* The specification. *)

LEMMA InitHolds ==
  Init => TriageInv
<1> SUFFICES ASSUME Init PROVE TriageInv
  OBVIOUS
<1>1. PICK c : c = [row |-> NoRow, decision |-> NoDecision, known |-> 0, items |-> [j \in Jobs |-> "none"]]
  OBVIOUS
<1>2. /\ c \in Conversations /\ c.row = NoRow /\ c.decision = NoDecision /\ c.known = 0
      /\ \A j \in Jobs : c.items[j] # "pending"
  BY <1>1, NamedRecords, TriageAssumption DEF Conversations, Version
<1>3. /\ mail = [t \in Threads |-> [version |-> 0, shown |-> FALSE, aside |-> FALSE]]
      /\ unread = <<>> /\ lost = FALSE /\ enabled = TRUE /\ conv = [t \in Threads |-> c]
      /\ jobs = [j \in Jobs |-> [status |-> "none", enumerated |-> FALSE]] /\ cache = {}
      /\ run = [t \in Threads |-> NoRun] /\ drain = Off /\ recovery = Off /\ inventory = [j \in Jobs |-> Off]
      /\ missed = {} /\ budget = MaxInterventions
  BY <1>1 DEF Init
<1>4. 0 \in Version /\ MaxInterventions \in 0 .. MaxInterventions
  BY TriageAssumption DEF Version
<1>5. TypeOK
  <2>1. mail \in [Threads -> [version : Version, shown : BOOLEAN, aside : BOOLEAN]] /\ unread \in Seq(Threads)
    BY <1>3, <1>4
  <2>2. conv \in [Threads -> Conversations] /\ run \in [Threads -> Requests]
    BY <1>2, <1>3, NamedRecords
  <2>3. jobs \in [Jobs -> JobRecords] /\ inventory \in [Jobs -> Inventories]
    BY <1>3 DEF JobRecords, Inventories
  <2>4. drain = Off /\ recovery = Off /\ lost \in BOOLEAN /\ enabled \in BOOLEAN /\ budget \in 0 .. MaxInterventions
    BY <1>3, <1>4
  <2>5. cache \subseteq Version /\ missed \subseteq Threads
    BY <1>3
  <2> QED BY <2>1, <2>2, <2>3, <2>4, <2>5 DEF TypeOK, JobRecords, Inventories
<1>6. RowsHold
  <2> SUFFICES ASSUME NEW t \in Threads PROVE Sound(c, NoRun, jobs, enabled, 0)
    BY <1>3 DEF RowsHold
  <2>1. c.decision.state = "none"
    BY <1>2, NamedRecords
  <2> QED BY <1>2, <2>1, NamedRecords DEF Sound, RowHolds, RequestHolds, VersionsHold, Live, Owned
<1>7. DrainHolds /\ RecoveryHolds /\ InventoryHolds
  BY <1>3, NamedRecords DEF DrainHolds, RecoveryHolds, InventoryHolds
<1>8. ReaderFollows
  BY <1>3 DEF ReaderFollows, Follows
<1>9. JobsHold
  BY <1>2, <1>3 DEF JobsHold, PendingItemsAreQueued
<1> QED BY <1>5, <1>6, <1>7, <1>8, <1>9 DEF TriageInv

LEMMA StepKeeps ==
  TriageInv /\ [Next]_vars => TriageInv'
<1> SUFFICES ASSUME TriageInv, [Next]_vars PROVE TriageInv'
  OBVIOUS
<1>1. ASSUME NEW t \in Threads,
             Vanish(t) \/ SetAside(t) \/ Return(t) \/ Start(t) \/ GiveUp(t) \/ Decide(t) \/ ContextFails(t) \/ Ask(t) \/ Discard(t)
      PROVE  TriageInv'
  BY <1>1, VanishKeeps, SetAsideKeeps, ReturnKeeps, StartKeeps, GiveUpKeeps, DecideKeeps, ContextFailsKeeps, AskKeeps, DiscardKeeps
<1>2. ASSUME NEW t \in Threads, NEW b \in BOOLEAN, Receive(t, b) \/ DrainEvent(b) \/ RecoveryItem(t, b) \/ Answer(t, b)
      PROVE  TriageInv'
  BY <1>2, ReceiveKeeps, DrainEventKeeps, RecoveryItemKeeps, AnswerKeeps
<1>3. ASSUME NEW t \in Threads, NEW outcome \in {"completed", "retryable", "rejected"}, Settle(t, outcome)
      PROVE  TriageInv'
  BY <1>3, SettleKeeps
<1>4. ASSUME NEW j \in Jobs,
             Process(j) \/ InventoryPage(j) \/ InventoryEnd(j) \/ InventoryStops(j) \/ Pause(j) \/ Resume(j) \/ Cancel(j)
      PROVE  TriageInv'
  BY <1>4, ProcessKeeps, InventoryPageKeeps, InventoryEndKeeps, InventoryStopsKeeps, PauseKeeps, ResumeKeeps, CancelKeeps
<1>5. ASSUME NEW j \in Jobs, NEW t \in Threads, NEW outside \in BOOLEAN, InventoryItem(j, t, outside)
      PROVE  TriageInv'
  BY <1>5, InventoryItemKeeps
<1>6. ASSUME NEW on \in BOOLEAN, NEW model \in BOOLEAN, Configure(on, model)
      PROVE  TriageInv'
  BY <1>6, ConfigureKeeps
<1>7. CASE Retention \/ DrainBegin \/ DrainCommit \/ RecoveryBegin \/ RecoveryPage \/ RecoveryEnd \/ Restart
  BY <1>7, RetentionKeeps, DrainBeginKeeps, DrainCommitKeeps, RecoveryBeginKeeps, RecoveryPageKeeps, RecoveryEndKeeps, RestartKeeps
<1>8. CASE UNCHANGED vars
  <2>1. UNCHANGED <<mail, unread, lost, enabled, conv, jobs, cache, run, drain, recovery, inventory, missed, budget>>
    BY <1>8 DEF vars
  <2>2. TypeOK'
    BY <2>1 DEF TriageInv, TypeOK
  <2>3. RowsHold' /\ DrainHolds' /\ RecoveryHolds' /\ InventoryHolds' /\ JobsHold'
    BY <2>1 DEF TriageInv, RowsHold, DrainHolds, RecoveryHolds, InventoryHolds, JobsHold, PendingItemsAreQueued
  <2>4. ReaderFollows'
    BY <2>1 DEF TriageInv, ReaderFollows, Follows, Expected, Awaited, After
  <2> QED BY <2>2, <2>3, <2>4 DEF TriageInv
<1> QED BY <1>1, <1>2, <1>3, <1>4, <1>5, <1>6, <1>7, <1>8 DEF Next

\* The inductive invariant holds in every state, for every number of conversations and jobs, and for
\* pages that yield and pages that do not.
THEOREM TriageInvariant ==
  Spec => []TriageInv
<1>1. Init => TriageInv
  BY InitHolds
<1>2. TriageInv /\ [Next]_vars => TriageInv'
  BY StepKeeps
<1> QED BY <1>1, <1>2, PTL DEF Spec

\* An assessment that is shown is of the conversation as it is, or its row, an event or a recovery will
\* bring it up to date; or a change of settings has skipped what came since, or a recovery has passed
\* over it because it was aside, and nothing has happened to it since.
THEOREM AssessmentsFollow ==
  Spec => []AssessmentsFollowTheMail
<1>1. TriageInv => AssessmentsFollowTheMail
  <2> SUFFICES ASSUME TriageInv PROVE AssessmentsFollowTheMail
    OBVIOUS
  <2>1. ASSUME NEW t \in Threads, mail[t].shown, conv[t].decision.state = "ready", conv[t].decision.of # mail[t].version,
               conv[t].row = NoRow, ~lost, t \notin missed
        PROVE  \E i \in DOMAIN unread : unread[i] = t
    <3>1. ~Expected(t)
      BY <2>1 DEF Expected, Safe
    <3>2. Follows(t)
      BY DEF TriageInv, ReaderFollows
    <3> QED BY <2>1, <3>1, <3>2 DEF Follows, Awaited
  <2>2. TypeOK
    BY DEF TriageInv
  <2> QED BY <2>1, <2>2 DEF AssessmentsFollowTheMail
<1> QED BY <1>1, TriageInvariant, PTL

\* A row's input has been sent to the model at most three times, and three times more for each request
\* that a control has called off: once more than the attempts that have been counted since, and no
\* more while a request is out for the third.
THEOREM RequestsBounded ==
  Spec => []RequestsAreBounded
<1>1. TriageInv => RequestsAreBounded
  <2> SUFFICES ASSUME TriageInv, NEW t \in Threads, conv[t].row # NoRow PROVE conv[t].row.asked <= 3 * (1 + conv[t].row.calledOff)
    BY DEF RequestsAreBounded
  <2>1. PICK c, r : c = conv[t] /\ r = run[t]
    OBVIOUS
  <2>2. /\ Sound(c, r, jobs, enabled, mail[t].version) /\ c.row # NoRow /\ c \in Conversations
    BY <2>1, Here
  <2>3. c.row.attempts \in 0 .. 3 /\ c.row.asked \in Nat /\ c.row.calledOff \in Nat
    BY <2>2, RowFields
  <2>4. CASE c.row.attempts < 3
    BY <2>1, <2>2, <2>3, <2>4 DEF Sound, RowHolds
  <2>5. CASE c.row.attempts = 3
    <3>1. ~Live(c, r)
      BY <2>2, <2>5 DEF Sound, RowHolds, RequestHolds
    <3> QED BY <2>1, <2>2, <2>3, <2>5, <3>1 DEF Sound, RowHolds
  <2> QED BY <2>3, <2>4, <2>5
<1> QED BY <1>1, TriageInvariant, PTL

\* A row in processing has a request, or left the job whose control called its request off.
THEOREM ProcessingWorked ==
  Spec => []ProcessingHasAWorker
<1>1. TriageInv => ProcessingHasAWorker
  BY Here DEF ProcessingHasAWorker, Sound, RowHolds, Live, Owned
<1> QED BY <1>1, TriageInvariant, PTL

\* Where no page of an inventory yields, what a job that runs or is paused waits for is in the queue.
THEOREM PendingQueued ==
  ASSUME ~SliceYields
  PROVE  Spec => []PendingItemsAreQueued
<1>1. TriageInv => PendingItemsAreQueued
  BY DEF TriageInv, JobsHold
<1> QED BY <1>1, TriageInvariant, PTL

LEMMA RewriteCancels ==
  ASSUME TypeOK, NEW passed, NEW new, RewriteBut(passed, new), NEW j \in Jobs, jobs[j].status = "cancelled"
  PROVE  jobs'[j].status = "cancelled"
BY RefreshedJobs DEF RewriteBut

\* Where no page of an inventory yields, a job that has been cancelled is never anything else again:
\* the copy of the job that a page saves after it has yielded is the one way back.
THEOREM CancelledForGood ==
  ASSUME ~SliceYields
  PROVE  Spec => CancelledJobsStayCancelled
<1>1. ASSUME TypeOK, [Next]_vars, NEW j \in Jobs, jobs[j].status = "cancelled"
      PROVE  jobs'[j].status = "cancelled"
  <2>1. jobs \in [Jobs -> JobRecords]
    BY <1>1 DEF TypeOK, JobRecords
  <2>2. ASSUME NEW t \in Threads,
               Vanish(t) \/ SetAside(t) \/ Return(t) \/ Start(t) \/ GiveUp(t) \/ Decide(t) \/ ContextFails(t) \/ Ask(t) \/ Discard(t)
        PROVE  jobs'[j].status = "cancelled"
    BY <1>1, <2>2, RewriteCancels DEF Vanish, SetAside, Return, Happens, Start, GiveUp, Decide, ContextFails, Ask, Discard, End, Rewrite
  <2>3. ASSUME NEW t \in Threads, NEW b \in BOOLEAN, Receive(t, b) \/ DrainEvent(b) \/ RecoveryItem(t, b) \/ Answer(t, b)
        PROVE  jobs'[j].status = "cancelled"
    BY <1>1, <2>3, RewriteCancels DEF Receive, Happens, DrainEvent, RecoveryItem, Answer
  <2>4. ASSUME NEW t \in Threads, NEW outcome \in {"completed", "retryable", "rejected"}, Settle(t, outcome)
        PROVE  jobs'[j].status = "cancelled"
    BY <1>1, <2>4, RewriteCancels DEF Settle, End, Rewrite
  <2>5. ASSUME NEW k \in Jobs,
               Process(k) \/ InventoryPage(k) \/ InventoryEnd(k) \/ InventoryStops(k) \/ Pause(k) \/ Resume(k) \/ Cancel(k)
        PROVE  jobs'[j].status = "cancelled"
    BY <1>1, <2>1, <2>5 DEF Process, InventoryPage, InventoryEnd, InventoryStops, Pause, Resume, Cancel
  <2>6. ASSUME NEW k \in Jobs, NEW t \in Threads, NEW outside \in BOOLEAN, InventoryItem(k, t, outside)
        PROVE  jobs'[j].status = "cancelled"
    BY <1>1, <2>1, <2>6 DEF InventoryItem, Yielded
  <2>7. ASSUME NEW on \in BOOLEAN, NEW model \in BOOLEAN, Configure(on, model)
        PROVE  jobs'[j].status = "cancelled"
    BY <1>1, <2>1, <2>7 DEF Configure
  <2>8. CASE Retention \/ DrainBegin \/ DrainCommit \/ RecoveryBegin \/ RecoveryPage \/ RecoveryEnd \/ Restart
    BY <1>1, <2>8, RewriteCancels DEF Retention, DrainBegin, DrainCommit, RecoveryBegin, RecoveryPage, RecoveryEnd, Restart, Rewrite, services
  <2>9. CASE UNCHANGED vars
    BY <1>1, <2>9 DEF vars
  <2> QED BY <1>1, <2>2, <2>3, <2>4, <2>5, <2>6, <2>7, <2>8, <2>9 DEF Next
<1>2. TypeOK /\ [Next]_vars => \A j \in Jobs : jobs[j].status = "cancelled" => jobs'[j].status = "cancelled"
  BY <1>1
<1>3. TriageInv => TypeOK
  BY DEF TriageInv
<1> QED BY <1>2, <1>3, TriageInvariant, PTL DEF Spec, CancelledJobsStayCancelled

=============================================================================
