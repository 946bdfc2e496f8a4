----------------------------- MODULE AiTriage -----------------------------
(***************************************************************************)
(* Optional triage of one owner's mail by a model                          *)
(* (apps/local-host/src/ai-triage.ts): a reader of the change journal      *)
(* queues conversations, history jobs queue old ones, a pump sends each to *)
(* the model and publishes its answer.  Reader, recovery, inventories and  *)
(* requests are asynchronous, and settings, job controls and new mail come *)
(* between any two of their steps.                                         *)
(*                                                                         *)
(* A conversation is one input of the model: its version, 0 while no       *)
(* selected mailbox shows it; a version never comes back.                  *)
(***************************************************************************)
EXTENDS Naturals, SequencesExt

CONSTANTS
  Threads, Jobs, NoJob,
  SliceYields,      \* whether an inventory page is so long that it yields to other work
  MaxVersion,       \* bound: versions of a conversation
  MaxInterventions  \* bound: settings, pauses, cancellations, crashes, removals and second jobs together

ASSUME TriageAssumption ==
  /\ NoJob \notin Jobs /\ SliceYields \in BOOLEAN
  /\ MaxVersion \in Nat /\ MaxInterventions \in Nat

VARIABLES
  mail,     \* a conversation: the newest version of it, whether it is shown, and whether it is set aside:
            \* Done or put off in every selected mailbox, out of the inbox, or the user's own message
  unread,   \* the events of the change journal after local_ai_settings.cursor
  lost,     \* retention has removed events after the cursor
  enabled,  \* local_ai_settings: enabled
  conv,     \* a conversation's rows: local_ai_queue, _decisions, _message_refs, _job_items
  jobs,     \* local_ai_jobs
  cache,    \* local_ai_cache: the versions the present model has assessed
  run,      \* active: the request under way for a conversation
  drain,    \* the reader's page: its first events of unread, and what it plans for those it has read
  recovery, \* local_ai_recovery, _seen, and the page it goes through in memory
  inventory,\* inventories: a job's page of mail in memory
  missed,   \* history: conversations whose events a change of settings has skipped, or which a
            \* recovery has passed over, and to which nothing has happened since
  budget    \* interventions left

vars == <<mail, unread, lost, enabled, conv, jobs, cache, run, drain, recovery, inventory, missed, budget>>
services == <<conv, jobs, cache, run, drain, recovery, inventory, missed>>

Version == 0 .. MaxVersion
Content(t) == IF mail[t].shown THEN mail[t].version ELSE 0
Mail == [t \in Threads |-> Content(t)]
Listed(page) == {t \in Threads : page[t] # 0}

NoRow == [status |-> "none"]
NoDecision == [state |-> "none", of |-> 0, fresh |-> FALSE]
NoRun == [phase |-> "none"]
Off == [phase |-> "off"]

Rows ==
  {NoRow} \cup [status : {"queued", "processing"}, attempts : 0 .. 3, job : Jobs \cup {NoJob},
                taken : BOOLEAN, asked : Nat, calledOff : Nat, orphan : BOOLEAN]
Decisions == [state : {"none", "pending", "processing", "ready", "failed", "stale"}, of : Version, fresh : BOOLEAN]
Conversations ==
  [row : Rows, decision : Decisions, known : Version, items : [Jobs -> {"none", "pending", "settled"}]]
Requests ==
  {NoRun} \cup [phase : {"read", "asking", "reread"}, job : Jobs \cup {NoJob}, of : Version, aborted : BOOLEAN, now : Version]
Plans == [removed : BOOLEAN, versions : SUBSET Version, last : Version]
Pages == [Threads -> Version]

TypeOK ==
  /\ mail \in [Threads -> [version : Version, shown : BOOLEAN, aside : BOOLEAN]]
  /\ unread \in Seq(Threads)
  /\ lost \in BOOLEAN /\ enabled \in BOOLEAN /\ budget \in 0 .. MaxInterventions
  /\ conv \in [Threads -> Conversations]
  /\ jobs \in [Jobs -> [status : {"none", "running", "paused", "cancelled", "over"}, enumerated : BOOLEAN]]
  /\ run \in [Threads -> Requests]
  /\ drain \in {Off} \cup [phase : {"reading"}, size : Nat, read : Nat, plans : [Threads -> Plans]]
  /\ recovery \in {Off} \cup [phase : {"listing"}, seen : Pages]
                        \cup [phase : {"page"}, seen : Pages, page : Pages, target : Nat, left : SUBSET Threads]
  /\ inventory \in [Jobs -> {Off, [phase |-> "listing"]} \cup [phase : {"page"}, page : Pages, left : SUBSET Threads]]
  /\ cache \subseteq Version /\ missed \subseteq Threads

Init ==
  /\ mail = [t \in Threads |-> [version |-> 0, shown |-> FALSE, aside |-> FALSE]]
  /\ unread = <<>> /\ lost = FALSE /\ enabled = TRUE
  /\ conv = [t \in Threads |->
       [row |-> NoRow, decision |-> NoDecision, known |-> 0, items |-> [j \in Jobs |-> "none"]]]
  /\ jobs = [j \in Jobs |-> [status |-> "none", enumerated |-> FALSE]]
  /\ cache = {}
  /\ run = [t \in Threads |-> NoRun]
  /\ drain = Off /\ recovery = Off
  /\ inventory = [j \in Jobs |-> Off]
  /\ missed = {} /\ budget = MaxInterventions

----------------------------------------------------------------------------
(* A conversation's rows. *)

\* A new row has a new token: a request that took the one before no longer owns it.  History: asked counts
\* the requests of its present input, calledOff those of them that a control has called off.
Queued(j) ==
  [status |-> "queued", attempts |-> 0, job |-> j, taken |-> FALSE, asked |-> 0, calledOff |-> 0, orphan |-> FALSE]

Reusable(c) == c.decision.state = "ready" /\ c.decision.fresh

\* What is queued already for this very version is left alone, except that incoming mail takes it
\* out of the job's lane; what is assessed already only settles the job's item.
Enqueue(c, version, j) ==
  LET unchanged == c.known = version
      item(status) == IF j = NoJob THEN c.items ELSE [c.items EXCEPT ![j] = status]
      listed == IF j # NoJob /\ c.items[j] = "none" THEN item("pending") ELSE c.items
  IN  IF c.row # NoRow /\ unchanged
      THEN [c EXCEPT !.items = listed, !.row = [c.row EXCEPT !.job = IF j = NoJob THEN NoJob ELSE c.row.job]]
      ELSE IF unchanged /\ Reusable(c)
      THEN [c EXCEPT !.items = item("settled")]
      ELSE [c EXCEPT !.items = listed, !.row = Queued(j), !.known = version,
                     !.decision = [state |-> "pending", of |-> 0, fresh |-> TRUE]]

\* settleItems: completed and failed items count alike
Settled(items) == [j \in Jobs |-> IF items[j] = "pending" THEN "settled" ELSE items[j]]

Removed(c) ==
  [row |-> NoRow, decision |-> NoDecision, known |-> 0, items |-> Settled(c.items)]

\* version is 0 where the input could not be read
Finish(c, state, version) ==
  [row |-> NoRow,
   decision |-> [state |-> state, of |-> IF state = "ready" THEN version ELSE 0, fresh |-> TRUE],
   known |-> IF version = 0 THEN c.known ELSE version,
   items |-> Settled(c.items)]

\* refreshJob of the jobs whose items were settled
Refreshed(new) ==
  [j \in Jobs |->
     IF /\ jobs[j] = [status |-> "running", enumerated |-> TRUE]
        /\ \E t \in Threads : conv[t].items[j] = "pending" /\ new[t].items[j] # "pending"
        /\ \A t \in Threads : new[t].items[j] # "pending"
     THEN [jobs[j] EXCEPT !.status = "over"] ELSE jobs[j]]

\* passed: the conversations that this step leaves for good
RewriteBut(passed, new) ==
  /\ conv' = new
  /\ jobs' = Refreshed(new)
  /\ missed' = {t \in missed : conv[t].row # NoRow \/ new[t].row = NoRow} \cup passed

Rewrite(new) == RewriteBut({}, new)

----------------------------------------------------------------------------
(* Mail. *)

Intervene == budget > 0 /\ budget' = budget - 1

\* What happens to a conversation leaves an event of it in the journal.
Happens(t, now) ==
  /\ mail' = [mail EXCEPT ![t] = now]
  /\ unread' = Append(unread, t)
  /\ missed' = missed \ {t}
  /\ UNCHANGED <<lost, enabled, conv, jobs, cache, run, drain, recovery, inventory>>

Receive(t, aside) ==
  /\ mail[t].version < MaxVersion
  /\ aside => mail[t].aside
  /\ Happens(t, [version |-> mail[t].version + 1, shown |-> TRUE, aside |-> aside])
  /\ UNCHANGED budget

Vanish(t) ==
  /\ mail[t].shown /\ Intervene
  /\ Happens(t, [version |-> mail[t].version, shown |-> FALSE, aside |-> FALSE])

\* Done, a reminder, the archive; that any of them ends is a change like them (membership.updated, mail.changed).
SetAside(t) ==
  /\ mail[t].shown /\ ~mail[t].aside /\ Intervene
  /\ Happens(t, [mail[t] EXCEPT !.aside = TRUE])

Return(t) ==
  /\ mail[t].aside
  /\ Happens(t, [mail[t] EXCEPT !.aside = FALSE])
  /\ UNCHANGED budget

\* A journal's retention is far longer than a page of the reader takes.
Retention ==
  /\ unread # <<>> /\ drain = Off /\ recovery = Off /\ Intervene
  /\ unread' = <<>> /\ lost' = TRUE
  /\ UNCHANGED <<mail, enabled, services>>

----------------------------------------------------------------------------
(* The reader of the journal. *)

\* What the page read so far plans for a conversation: whether to remove it, the versions to queue, the last of them.
NoPlan == [removed |-> FALSE, versions |-> {}, last |-> 0]

DrainBegin ==
  /\ enabled /\ drain = Off /\ recovery = Off /\ ~lost /\ unread # <<>>
  /\ drain' = [phase |-> "reading", size |-> Len(unread), read |-> 0, plans |-> [t \in Threads |-> NoPlan]]
  /\ UNCHANGED <<mail, unread, lost, enabled, conv, jobs, cache, run, recovery, inventory, missed, budget>>

\* The conversation is read as it is now, not as it was at the event.  One that was never assessed is
\* admitted by an arrival or a recent message only, and not from aside.
DrainEvent(admitted) ==
  /\ drain # Off /\ drain.read < drain.size
  /\ LET t == unread[drain.read + 1]
         c == conv[t]
         version == Content(t)
         wanted == version # 0 /\ c.known # version /\ ((admitted /\ ~mail[t].aside) \/ c.decision # NoDecision)
     IN  drain' = [drain EXCEPT !.read = @ + 1, !.plans[t] =
           [removed |-> @.removed \/ (version = 0 /\ c.known # 0),
            versions |-> IF wanted THEN @.versions \cup {version} ELSE @.versions,
            last |-> IF wanted THEN version ELSE @.last]]
  /\ UNCHANGED <<mail, unread, lost, enabled, conv, jobs, cache, run, recovery, inventory, missed, budget>>

\* The removal first, then every version in the order it was read: the last of them stays, and the
\* row is a new one unless all of them are the version it was queued for.
Carried(c, plan) ==
  LET left == IF plan.removed THEN Removed(c) ELSE c
      base == IF plan.versions \subseteq {left.known} THEN left ELSE [left EXCEPT !.known = 0]
  IN  IF plan.versions = {} THEN left ELSE Enqueue(base, plan.last, NoJob)

\* Mutant: the cursor goes to the journal's head, not to the end of the page that was read.
DrainCommitAtHead ==
  /\ drain # Off /\ drain.read = drain.size
  /\ Rewrite([t \in Threads |-> Carried(conv[t], drain.plans[t])])
  /\ unread' = <<>>
  /\ drain' = Off
  /\ UNCHANGED <<mail, lost, enabled, cache, run, recovery, inventory, budget>>

\* All the plans, and the cursor at the end of the page, in one transaction.
DrainCommit ==
  /\ drain # Off /\ drain.read = drain.size
  /\ Rewrite([t \in Threads |-> Carried(conv[t], drain.plans[t])])
  /\ unread' = SubSeq(unread, drain.size + 1, Len(unread))
  /\ drain' = Off
  /\ UNCHANGED <<mail, lost, enabled, cache, run, recovery, inventory, budget>>

----------------------------------------------------------------------------
(* The recovery from a lost part of the journal: the whole inventory, outside the reader's lock. *)

NewRecovery == [phase |-> "listing", seen |-> [t \in Threads |-> 0]]

RecoveryBegin ==
  /\ enabled /\ drain = Off /\ recovery = Off /\ lost
  /\ recovery' = NewRecovery
  /\ UNCHANGED <<mail, unread, lost, enabled, conv, jobs, cache, run, drain, inventory, missed, budget>>

\* The target is the state of the listing: what comes after it stays for the reader.
RecoveryPage ==
  /\ recovery.phase = "listing"
  /\ recovery' = [phase |-> "page", seen |-> recovery.seen, page |-> [t \in Threads |-> IF mail[t].aside THEN 0 ELSE Mail[t]],
                  target |-> Len(unread), left |-> Listed(Mail)]
  /\ UNCHANGED <<mail, unread, lost, enabled, conv, jobs, cache, run, drain, inventory, missed, budget>>

\* historical: too old for a conversation that was never assessed.  Unlike the reader, a recovery passes
\* over what is aside though it was assessed; its checkpoint is not that of the conversation in the inbox.
RecoveryItem(t, historical) ==
  /\ recovery.phase = "page" /\ t \in recovery.left
  /\ historical => conv[t].decision = NoDecision
  /\ LET aside == recovery.page[t] = 0
         again == recovery.seen[t] = recovery.page[t]
     IN  /\ recovery' = [recovery EXCEPT !.left = @ \ {t}, !.seen[t] = recovery.page[t]]
         /\ RewriteBut(IF aside THEN {t} ELSE {},
                       IF aside \/ again \/ historical THEN conv
                       ELSE [conv EXCEPT ![t] = Enqueue(@, recovery.page[t], NoJob)])
  /\ UNCHANGED <<mail, unread, lost, enabled, cache, run, drain, inventory, budget>>

RecoveryEnd ==
  /\ recovery.phase = "page" /\ recovery.left = {}
  /\ unread' = SubSeq(unread, recovery.target + 1, Len(unread))
  /\ lost' = FALSE
  /\ recovery' = Off
  /\ UNCHANGED <<mail, enabled, conv, jobs, cache, run, drain, inventory, missed, budget>>

----------------------------------------------------------------------------
(* History jobs. *)

Process(j) ==
  /\ enabled /\ drain = Off /\ jobs[j].status = "none"
  /\ IF \A k \in Jobs : jobs[k].status = "none" THEN UNCHANGED budget ELSE Intervene
  /\ jobs' = [jobs EXCEPT ![j].status = "running"]
  /\ inventory' = [inventory EXCEPT ![j] = [phase |-> "listing"]]
  /\ UNCHANGED <<mail, unread, lost, enabled, conv, cache, run, drain, recovery, missed>>

InventoryPage(j) ==
  /\ inventory[j].phase = "listing" /\ jobs[j].status = "running"
  /\ inventory' = [inventory EXCEPT ![j] =
       [phase |-> "page", page |-> Mail, left |-> Listed(Mail)]]
  /\ UNCHANGED <<mail, unread, lost, enabled, conv, jobs, cache, run, drain, recovery, missed, budget>>

\* A loop that has yielded inside its page saves its own copy of the job before it looks at it.
Yielded(j) == SliceYields /\ inventory[j].left # Listed(inventory[j].page)

\* outside: the job's scope leaves the conversation out (aside, or assessed as Other)
InventoryItem(j, t, outside) ==
  /\ inventory[j].phase = "page" /\ t \in inventory[j].left
  /\ jobs[j].status # "running" => Yielded(j)
  /\ inventory' = [inventory EXCEPT ![j].left = @ \ {t}]
  /\ LET c == conv[t]
         version == inventory[j].page[t]
         known == c.items[j] # "none" \/ (c.known = version /\ Reusable(c))
         new == IF known \/ outside THEN conv ELSE [conv EXCEPT ![t] = Enqueue(c, version, j)]
     IN  /\ conv' = new
         /\ jobs' = [jobs EXCEPT ![j].status = "running"]
         /\ missed' = {m \in missed : conv[m].row # NoRow \/ new[m].row = NoRow}
  /\ UNCHANGED <<mail, unread, lost, enabled, cache, run, drain, recovery, budget>>

\* The end of the listing is checked like the settling of an item: a job that found nothing is over.
InventoryEnd(j) ==
  /\ inventory[j].phase = "page" /\ inventory[j].left = {} /\ jobs[j].status = "running"
  /\ jobs' = [jobs EXCEPT ![j] =
       [status |-> IF \E t \in Threads : conv[t].items[j] = "pending" THEN "running" ELSE "over",
        enumerated |-> TRUE]]
  /\ inventory' = [inventory EXCEPT ![j] = Off]
  /\ UNCHANGED <<mail, unread, lost, enabled, conv, cache, run, drain, recovery, missed, budget>>

\* The loop finds its job paused, cancelled or of other settings.
InventoryStops(j) ==
  /\ inventory[j] # Off /\ jobs[j].status # "running"
  /\ inventory' = [inventory EXCEPT ![j] = Off]
  /\ UNCHANGED <<mail, unread, lost, enabled, conv, jobs, cache, run, drain, recovery, missed, budget>>

----------------------------------------------------------------------------
(* Settings, job controls and restarts. *)

Aborted(threads) == [t \in Threads |-> IF t \in threads /\ run[t] # NoRun THEN [run[t] EXCEPT !.aborted = TRUE] ELSE run[t]]

Cleared(c, model) ==
  [c EXCEPT !.row = NoRow, !.decision = [c.decision EXCEPT !.fresh = c.decision.fresh /\ ~model]]

\* Turning triage off or on, or another model: nothing that was queued, asked or listed before counts
\* any more, and the reader goes on from the journal's head.
Configure(on, model) ==
  /\ drain = Off /\ Intervene
  /\ on # enabled \/ model
  /\ enabled' = on
  /\ conv' = [t \in Threads |-> Cleared(conv[t], model)]
  /\ cache' = IF model THEN {} ELSE cache
  /\ run' = Aborted(Threads)
  /\ recovery' = Off
  /\ jobs' = [j \in Jobs |-> IF jobs[j].status \in {"running", "paused"}
                            THEN [jobs[j] EXCEPT !.status = "cancelled"] ELSE jobs[j]]
  /\ missed' = IF lost THEN Threads ELSE missed \cup {unread[i] : i \in DOMAIN unread}
  /\ unread' = <<>> /\ lost' = FALSE
  /\ inventory' = [j \in Jobs |-> Off]
  /\ UNCHANGED <<mail, drain>>

OfJob(j) == {t \in Threads : run[t] # NoRun /\ run[t].job = j}

\* Mutant: the rows of the job's requests stay in processing.
LeftProcessing(j) ==
  [t \in Threads |->
     LET row == conv[t].row
         off == t \in OfJob(j) /\ ~run[t].aborted /\ row # NoRow /\ row.taken
     IN  IF row = NoRow THEN conv[t]
         ELSE [conv[t] EXCEPT !.row = [row EXCEPT
                !.calledOff = IF off /\ run[t].phase # "read" THEN row.calledOff + 1 ELSE row.calledOff,
                !.orphan = row.orphan \/ (off /\ row.job # j)]]]

\* What a control does to the requests and rows of a job.  History: a request that was out is called
\* off; one whose row has left the job meanwhile leaves that row an orphan.
CalledOff(j) ==
  [t \in Threads |->
     LET row == conv[t].row
         off == t \in OfJob(j) /\ ~run[t].aborted /\ row # NoRow /\ row.taken
     IN  IF row = NoRow THEN conv[t]
         ELSE [conv[t] EXCEPT !.row = [row EXCEPT
                !.status = IF row.job = j THEN "queued" ELSE row.status,
                !.calledOff = IF off /\ run[t].phase # "read" THEN row.calledOff + 1 ELSE row.calledOff,
                !.orphan = row.orphan \/ (off /\ row.job # j)]]]

Pause(j) ==
  /\ drain = Off /\ Intervene /\ jobs[j].status = "running"
  /\ jobs' = [jobs EXCEPT ![j].status = "paused"]
  /\ run' = Aborted(OfJob(j))
  /\ conv' = CalledOff(j)
  /\ UNCHANGED <<mail, unread, lost, enabled, cache, drain, recovery, inventory, missed>>

Resume(j) ==
  /\ enabled /\ drain = Off /\ jobs[j].status = "paused"
  /\ jobs' = [jobs EXCEPT ![j].status = "running"]
  /\ inventory' = [inventory EXCEPT ![j] =
       IF jobs[j].enumerated \/ @ # Off THEN @ ELSE [phase |-> "listing"]]
  /\ UNCHANGED <<mail, unread, lost, enabled, conv, cache, run, drain, recovery, missed, budget>>

\* Mutant: a row goes with the job that is cancelled, whoever else waits for it.
SurrenderedAlways(j, c) ==
  IF c.row = NoRow \/ c.row.job # j THEN {c} ELSE {[c EXCEPT !.row = NoRow, !.decision = [c.decision EXCEPT !.state = "stale"]]}

\* A row that another live job waits for is handed to that job; the others go, with a stale decision.
Surrendered(j, c) ==
  LET others == {k \in Jobs \ {j} : c.items[k] = "pending" /\ jobs[k].status \in {"running", "paused"}}
  IN  IF c.row = NoRow \/ c.row.job # j THEN {c}
      ELSE IF others # {} THEN {[c EXCEPT !.row = [c.row EXCEPT !.job = k]] : k \in others}
      ELSE {[c EXCEPT !.row = NoRow, !.decision = [c.decision EXCEPT !.state = "stale"]]}

Cancel(j) ==
  /\ drain = Off /\ Intervene /\ jobs[j].status \in {"running", "paused"}
  /\ jobs' = [jobs EXCEPT ![j].status = "cancelled"]
  /\ run' = Aborted(OfJob(j))
  /\ conv' \in {new \in [Threads -> UNION {Surrendered(j, CalledOff(j)[t]) : t \in Threads}] :
                \A t \in Threads : new[t] \in Surrendered(j, CalledOff(j)[t])}
  /\ UNCHANGED <<mail, unread, lost, enabled, cache, drain, recovery, inventory, missed>>

\* Mutant: an interrupted request is free.
InterruptedFree(row) ==
  IF row.status = "processing"
  THEN [row EXCEPT !.status = "queued", !.taken = FALSE, !.orphan = FALSE]
  ELSE row

\* A request that was out may have reached the provider: it is never free.
Interrupted(row) ==
  IF row.status = "processing"
  THEN [row EXCEPT !.status = "queued", !.taken = FALSE, !.orphan = FALSE, !.attempts = IF row.attempts = 3 THEN 3 ELSE row.attempts + 1]
  ELSE row

Restart ==
  /\ Intervene
  /\ conv' = [t \in Threads |-> [conv[t] EXCEPT !.row = Interrupted(@)]]
  /\ run' = [t \in Threads |-> NoRun]
  /\ drain' = Off
  /\ recovery' = IF recovery = Off THEN Off ELSE [NewRecovery EXCEPT !.seen = recovery.seen]
  /\ inventory' = [j \in Jobs |-> IF enabled /\ jobs[j] = [status |-> "running", enumerated |-> FALSE]
                                 THEN [phase |-> "listing"] ELSE Off]
  /\ UNCHANGED <<mail, unread, lost, enabled, jobs, cache, missed>>

----------------------------------------------------------------------------
(* The pump and the requests it starts. *)

Open(j) == j # NoJob => jobs[j] = [status |-> "running", enumerated |-> TRUE]

\* permitted: the row is still the one the request took, and its job still runs
Permitted(t) == enabled /\ conv[t].row # NoRow /\ conv[t].row.taken /\ Open(run[t].job)

Startable(t) == enabled /\ run[t] = NoRun /\ conv[t].row # NoRow /\ conv[t].row.status = "queued" /\ Open(conv[t].row.job)

\* A request ends: it no longer owns the row it leaves behind.
Ended(c) == IF c.row = NoRow THEN c ELSE [c EXCEPT !.row = [c.row EXCEPT !.taken = FALSE]]

End(t, c) ==
  /\ run' = [run EXCEPT ![t] = NoRun]
  /\ Rewrite([conv EXCEPT ![t] = Ended(c)])

Taken(c) == [c EXCEPT !.row = [c.row EXCEPT !.status = "processing", !.taken = TRUE]]

\* The context is read after the row is taken.
Start(t) ==
  /\ Startable(t) /\ conv[t].row.attempts < 3
  /\ conv' = [conv EXCEPT ![t] = Taken(@)]
  /\ run' = [run EXCEPT ![t] =
       [phase |-> "read", job |-> conv[t].row.job, of |-> Content(t), aborted |-> FALSE, now |-> 0]]
  /\ UNCHANGED <<mail, unread, lost, enabled, jobs, cache, drain, recovery, inventory, missed, budget>>

GiveUp(t) ==
  /\ Startable(t) /\ conv[t].row.attempts = 3
  /\ Rewrite([conv EXCEPT ![t] = Finish(@, "failed", 0)])
  /\ UNCHANGED <<mail, unread, lost, enabled, cache, run, drain, recovery, inventory, budget>>

\* The context is unavailable, or assessed already, or the request is not wanted any more.
Decide(t) ==
  /\ run[t].phase = "read"
  /\ LET of == run[t].of
         wanted == Permitted(t) /\ ~run[t].aborted
     IN  /\ ~wanted \/ of = 0 \/ of \in cache
         /\ End(t, IF ~wanted THEN conv[t]
                   ELSE IF of = 0 THEN Removed(conv[t]) ELSE Finish(conv[t], "ready", of))
  /\ UNCHANGED <<mail, unread, lost, enabled, cache, drain, recovery, inventory, budget>>

ContextFails(t) ==
  /\ run[t].phase = "read"
  /\ End(t, IF Permitted(t) THEN Finish(conv[t], "failed", 0) ELSE conv[t])
  /\ UNCHANGED <<mail, unread, lost, enabled, cache, drain, recovery, inventory, budget>>

\* Every message of the context is known before the request is dispatched.
Asked(c, of) ==
  [c EXCEPT !.known = of, !.row = [c.row EXCEPT !.asked = c.row.asked + 1],
            !.decision = [c.decision EXCEPT !.state = "processing"]]

Ask(t) ==
  /\ run[t].phase = "read" /\ Permitted(t) /\ ~run[t].aborted
  /\ LET of == run[t].of IN
     /\ of # 0 /\ of \notin cache
     /\ conv' = [conv EXCEPT ![t] = Asked(@, of)]
  /\ run' = [run EXCEPT ![t].phase = "asking"]
  /\ UNCHANGED <<mail, unread, lost, enabled, jobs, cache, drain, recovery, inventory, missed, budget>>

\* The model answers, and the context is read again; a reading that fails finds nothing.
Answer(t, readable) ==
  /\ run[t].phase = "asking" /\ Permitted(t) /\ ~run[t].aborted
  /\ run' = [run EXCEPT ![t].phase = "reread", ![t].now = IF readable THEN Content(t) ELSE 0]
  /\ UNCHANGED <<mail, unread, lost, enabled, conv, jobs, cache, drain, recovery, inventory, missed, budget>>

\* An aborted request reads nothing again; if its job has been resumed it finds its row.
Discard(t) ==
  /\ run[t].phase = "asking" /\ (~Permitted(t) \/ run[t].aborted)
  /\ End(t, IF Permitted(t) THEN Removed(conv[t]) ELSE conv[t])
  /\ UNCHANGED <<mail, unread, lost, enabled, cache, drain, recovery, inventory, budget>>

\* What was read again is not what was asked, or a control called the request off: the attempts start over.
Stale(c, changed) ==
  LET row == [c.row EXCEPT !.status = "queued", !.attempts = 0]
  IN  [c EXCEPT !.row = IF changed THEN [row EXCEPT !.asked = 0, !.calledOff = 0] ELSE row, !.decision.state = "stale"]

Retried(c) == [c EXCEPT !.row = [c.row EXCEPT !.status = "queued", !.attempts = c.row.attempts + 1]]

Settle(t, outcome) ==
  /\ run[t].phase = "reread"
  /\ LET of == run[t].of
         c == conv[t]
         current == ~run[t].aborted /\ run[t].now = of
         ready == Permitted(t) /\ current /\ outcome = "completed"
     IN  /\ End(t, IF ~Permitted(t) THEN c
                   ELSE IF run[t].now = 0 THEN Removed(c)
                   ELSE IF ~current THEN Stale(c, run[t].now # of)
                   ELSE IF ready THEN Finish(c, "ready", of)
                   ELSE IF outcome = "retryable" /\ c.row.attempts < 2 THEN Retried(c)
                   ELSE Finish(c, "failed", of))
         /\ cache' = IF ready THEN cache \cup {of} ELSE cache
  /\ UNCHANGED <<mail, unread, lost, enabled, drain, recovery, inventory, budget>>

----------------------------------------------------------------------------
Next ==
  \/ \E t \in Threads : Vanish(t) \/ SetAside(t) \/ Return(t) \/ Start(t) \/ GiveUp(t) \/ Decide(t) \/ ContextFails(t) \/ Ask(t) \/ Discard(t)
  \/ \E t \in Threads, b \in BOOLEAN : Receive(t, b) \/ DrainEvent(b) \/ RecoveryItem(t, b) \/ Answer(t, b)
  \/ \E t \in Threads, outcome \in {"completed", "retryable", "rejected"} : Settle(t, outcome)
  \/ \E j \in Jobs : Process(j) \/ InventoryPage(j) \/ InventoryEnd(j) \/ InventoryStops(j) \/ Pause(j) \/ Resume(j) \/ Cancel(j)
  \/ \E j \in Jobs, t \in Threads, outside \in BOOLEAN : InventoryItem(j, t, outside)
  \/ \E on, model \in BOOLEAN : Configure(on, model)
  \/ Retention \/ DrainBegin \/ DrainCommit \/ RecoveryBegin \/ RecoveryPage \/ RecoveryEnd \/ Restart

Spec == Init /\ [][Next]_vars

----------------------------------------------------------------------------
(* Properties. *)

\* The state has its type, and an assessment that triage shows is of the conversation as it is now, or
\* something is still going to look at it: its row, an event after the cursor, or a recovery (drain,
\* recover, executeQueue).  Excepted is what a change of settings skipped or a recovery passed over because
\* it was aside, until something happens to it, its return to the inbox included.  A version never comes back.
AssessmentsFollowTheMail ==
  TypeOK /\ \A t \in Threads :
    LET c == conv[t] IN
    (enabled /\ mail[t].shown /\ c.decision.state = "ready" /\ c.decision.of # mail[t].version)
      => \/ c.row # NoRow
         \/ \E i \in DOMAIN unread : unread[i] = t
         \/ lost \/ recovery # Off
         \/ t \in missed

\* One row of the queue sends one input to the model no more than three times, whatever mixture of
\* retries, crashes and restarts comes between (the row's attempts; "It is never free"), and no more than
\* three times again for each request that a pause or a cancellation called off: if its job goes on
\* before it ends, the attempts start over.  A new row, of another job or after a failure, starts anew.
RequestsAreBounded ==
  \A t \in Threads : conv[t].row # NoRow => conv[t].row.asked <= 3 * (1 + conv[t].row.calledOff)

\* What a job that runs or is paused still waits for is in the queue, though incoming mail, other
\* jobs, cancellations and removals take rows away (settleItems, control): else it never completes.
\* It holds of pages that do not yield; with SliceYields a cancelled job may come back without its rows.
PendingItemsAreQueued ==
  \A j \in Jobs, t \in Threads :
    (jobs[j].status \in {"running", "paused"} /\ conv[t].items[j] = "pending") => conv[t].row # NoRow

\* A row in processing has a request that will move it on, which the pump alone would never do (pump,
\* control, start).  Excepted is a row that had left the job whose control called its request off.
ProcessingHasAWorker ==
  \A t \in Threads :
    (conv[t].row # NoRow /\ conv[t].row.status = "processing") => run[t] # NoRun \/ conv[t].row.orphan

\* A cancelled job stays cancelled (control; tests/api.test.ts: a job that was cancelled answers a
\* resume with its cancelled state).  inventory saves the copy of the job it has held since before it
\* last yielded, and with it the state the job had then.
CancelledJobsStayCancelled ==
  [][\A j \in Jobs : jobs[j].status = "cancelled" => jobs'[j].status = "cancelled"]_vars
=============================================================================
