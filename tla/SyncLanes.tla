----------------------------- MODULE SyncLanes -----------------------------
(***************************************************************************)
(* Synchronization of one account (packages/inbox-sdk/src/core.ts:         *)
(* synchronizeSource, persist) with the mailbox of GmailMailbox.  The      *)
(* latest lane follows the provider's history, the backfill lane lists old *)
(* mail page by page, a reset starts the latest lane over.  A lane runs at *)
(* most once at a time, but the three run next to each other and next to   *)
(* local changes; a page is fetched and committed in steps that others     *)
(* come between.                                                           *)
(***************************************************************************)
EXTENDS GmailMailbox

CONSTANTS
  Changed, \* the messages the user changes locally
  MaxCalls \* bound: synchronizations at one time

ASSUME SyncAssumption == Changed \subseteq Messages /\ MaxCalls \in Nat

Keys == {"latest", "reset", "backfill"}

VARIABLES
  stored,     \* sdk_messages: none, present or deleted=1, and the version the confirmed copy is of
  checkpoint, \* sdk_checkpoints of the two lanes; absent, or a cursor, null when a lane is complete
  call,       \* syncing: the synchronization that runs for a key
  change,     \* the local change of a message: its receipt is still to come
  base,       \* history: the history id from which the latest lane follows without a gap
  skipped,    \* history: the last record about a message that the code passed over
  receipt     \* history: the version of a message the last receipt confirmed

local == <<stored, checkpoint, call, change, base, skipped, receipt>>
vars == <<mailbox, local>>

Absent == [kind |-> "absent", value |-> 0, token |-> 0]
Idle == [phase |-> "idle"]
Asking(input) == [phase |-> "asking", input |-> input, fenced |-> {}]

Cursors == [kind : {"absent", "null", "page", "history"}, value : History, token : Nat]

TypeOK ==
  /\ MailboxTypeOK
  /\ stored \in [Messages -> [state : {"none", "present", "deleted"}, version : History]]
  /\ checkpoint \in [{"latest", "backfill"} -> Cursors]
  /\ \A key \in Keys :
       LET c == call[key] IN
       /\ c.phase \in {"idle", "asking", "listing", "fetched"}
       /\ c.phase # "idle" => c.input \in Cursors /\ c.fenced \subseteq Messages
       /\ c.phase = "listing" => c.history \in History
       /\ c.phase = "fetched" => DOMAIN c.page.messages \subseteq Messages /\ c.page.next \in Cursors
  /\ change \in [Messages -> [phase : {"none", "accepted", "applied"}, version : History]]
  /\ base \in History
  /\ skipped \in [Messages -> History] /\ receipt \in [Messages -> History]

Init ==
  /\ MailboxInit
  /\ stored = [m \in Messages |-> [state |-> "none", version |-> 0]]
  /\ checkpoint = [lane \in {"latest", "backfill"} |-> Absent]
  /\ call = [key \in Keys |-> Idle]
  /\ change = [m \in Messages |-> [phase |-> "none", version |-> 0]]
  /\ base = 0
  /\ skipped = [m \in Messages |-> 0] /\ receipt = [m \in Messages |-> 0]

Lane(key) == IF key = "backfill" THEN "backfill" ELSE "latest"

----------------------------------------------------------------------------
(* A synchronization up to its page. *)

\* The checkpoint is read, and the fence before anything is asked of the provider; a reset, a lane
\* that has none and one that is complete begin with no cursor.
Begin(key) ==
  /\ call[key].phase = "idle" /\ Cardinality({k \in Keys : call[k].phase # "idle"}) < MaxCalls
  /\ LET saved == checkpoint[Lane(key)]
         input == IF key = "reset" \/ saved.kind = "absent" THEN Null ELSE saved
     IN  call' = [call EXCEPT ![key] = Asking(input)]
  /\ UNCHANGED <<mailbox, stored, checkpoint, change, base, skipped, receipt>>

HistoryOfTheListing(key) == IF call[key].input.kind = "page" THEN call[key].input.value ELSE call[key].history

Fetched(key, page) ==
  call' = [call EXCEPT ![key] = [phase |-> "fetched", page |-> page, fenced |-> @.fenced,
                                 input |-> IF page.full THEN Null ELSE @.input]]

\* fullSync without a page cursor, also when the history of a cursor is gone: the history id first.
AskProfile(key) ==
  /\ call[key].phase = "asking"
  /\ \/ call[key].input.kind = "null"
     \/ call[key].input.kind = "history"
  /\ call' = [call EXCEPT ![key] = [phase |-> "listing", input |-> Null, history |-> HistoryId, fenced |-> @.fenced]]
  /\ UNCHANGED <<mailbox, stored, checkpoint, change, base, skipped, receipt>>

AskList(key) ==
  /\ call[key].phase = "listing" \/ (call[key].phase = "asking" /\ call[key].input.kind = "page")
  /\ Fetched(key, FullPage(HistoryOfTheListing(key), call[key].input.token))
  /\ UNCHANGED <<mailbox, stored, checkpoint, change, base, skipped, receipt>>

AskHistory(key) ==
  /\ call[key].phase = "asking" /\ call[key].input.kind = "history"
  /\ Fetched(key, DeltaPage(call[key].input))
  /\ UNCHANGED <<mailbox, stored, checkpoint, change, base, skipped, receipt>>

\* A cursor is rejected (INVALID_CURSOR, or a page token Gmail refuses): once more from the start.
CursorRejected(key) ==
  /\ call[key].phase = "asking" /\ call[key].input.kind = "page"
  /\ call' = [call EXCEPT ![key].input = Null]
  /\ UNCHANGED <<mailbox, stored, checkpoint, change, base, skipped, receipt>>

\* Any error: nothing but the account's problem and its cooldown is written.
Fails(key) ==
  /\ call[key].phase # "idle"
  /\ call' = [call EXCEPT ![key] = Idle]
  /\ UNCHANGED <<mailbox, stored, checkpoint, change, base, skipped, receipt>>

----------------------------------------------------------------------------
(* The commit. *)

\* Mutant: the fence is not looked at.
KeepsUnfenced(key, m, old) == old.state = "deleted" \/ (old.state = "present" /\ key = "backfill")

\* persist leaves a message alone that is deleted, known to a page of old mail, or has changed
\* since the fence.
Keeps(key, m, old) ==
  \/ old.state = "deleted"
  \/ old.state = "present" /\ (key = "backfill" \/ m \in call[key].fenced)

Listed(key) == DOMAIN call[key].page.messages

Persisted(key) == {m \in Listed(key) : ~Keeps(key, m, stored[m])}

\* Deletions are for messages that are there and have not changed since the fence.
Removed(key) == {m \in call[key].page.deleted : stored[m].state = "present" /\ m \notin call[key].fenced}

\* The events that raise a message's last_mutation_seq: deletions, and updates found by an
\* incremental page.
Raised(key) ==
  Removed(key) \cup {m \in Persisted(key) : ~call[key].page.full /\ stored[m].state = "present"
                                              /\ stored[m].version # call[key].page.messages[m]}

FencedFor(calls, ms) ==
  [k \in Keys |-> IF k = "backfill" \/ calls[k].phase = "idle" THEN calls[k] ELSE [calls[k] EXCEPT !.fenced = @ \cup ms]]

\* Mutant: a completed backfill leaves the latest lane where it is.
AfterBackfillKept(page) == IF checkpoint["latest"].kind = "absent" THEN page.recent ELSE checkpoint["latest"]
AfterBackfill(page) == page.recent

NewCheckpoint(key) ==
  LET page == call[key].page IN
  IF key = "backfill"
  THEN [latest |-> IF page.more THEN checkpoint["latest"] ELSE AfterBackfill(page),
        backfill |-> IF page.more THEN page.next ELSE Null]
  ELSE [checkpoint EXCEPT !["latest"] = IF page.full THEN page.recent ELSE page.next]

Position(cursor) == IF cursor.kind = "history" THEN cursor.value + cursor.token ELSE 0

\* The records of m that the latest lane will not ask for again although nobody applied them: those
\* between its cursor and the one it is given by a completed backfill or by a synchronization that
\* had read another cursor.
PassedOver(key, m) ==
  LET page == call[key].page
      to == IF key # "backfill" THEN Position(call[key].input) ELSE IF page.more THEN 0 ELSE Position(page.recent)
  IN  IF (page.full /\ key # "backfill") \/ checkpoint["latest"].kind # "history" THEN {}
      ELSE Records(m, Position(checkpoint["latest"]), to)

\* The records between two beginnings of a listing that had to start over.
StartedOver(key, m) ==
  IF key = "backfill" /\ checkpoint["backfill"].kind = "page"
  THEN Records(m, checkpoint["backfill"].value, Position(call[key].page.recent)) ELSE {}

\* The page has something about m, and the fence keeps it out.
FencedOff(key, m) ==
  LET page == call[key].page IN
  IF key = "backfill" \/ stored[m].state # "present" \/ m \notin call[key].fenced THEN {}
  ELSE IF m \in Listed(key) THEN {page.messages[m]} ELSE IF m \in page.deleted THEN {Version(m, HistoryId)} ELSE {}

Commit(key) ==
  LET page == call[key].page
      follows == key # "backfill" /\ ~page.full
  IN  /\ call[key].phase = "fetched"
      /\ stored' = [m \in Messages |->
                      IF m \in Removed(key) THEN [stored[m] EXCEPT !.state = "deleted"]
                      ELSE IF m \in Persisted(key) THEN [state |-> "present", version |-> page.messages[m]] ELSE stored[m]]
      /\ checkpoint' = NewCheckpoint(key)
      /\ call' = FencedFor([call EXCEPT ![key] = Idle], Raised(key))
      /\ base' = IF follows THEN base
                 ELSE IF key = "backfill" THEN IF checkpoint["latest"].kind = "absent" THEN Position(checkpoint'["latest"]) ELSE base
                 ELSE Position(page.recent)
      /\ skipped' = [m \in Messages |-> Max({skipped[m]} \cup PassedOver(key, m) \cup StartedOver(key, m) \cup FencedOff(key, m))]
      /\ UNCHANGED <<mailbox, change, receipt>>

----------------------------------------------------------------------------
(* Local changes. *)

Raise(ms) == call' = FencedFor(call, ms)

\* A local change is accepted: labels and reminders end here, others are for the provider as well.
Accept(m, native) ==
  /\ stored[m].state = "present" /\ change[m].phase = "none"
  /\ change' = IF native THEN [change EXCEPT ![m].phase = "accepted"] ELSE change
  /\ Raise({m})
  /\ UNCHANGED <<mailbox, stored, checkpoint, base, skipped, receipt>>

Apply(m) ==
  /\ change[m].phase = "accepted" /\ m \in mailbox.present
  /\ Record(m, mailbox.present)
  /\ change' = [change EXCEPT ![m] = [phase |-> "applied", version |-> HistoryId + 1]]
  /\ UNCHANGED <<stored, checkpoint, call, base, skipped, receipt>>

\* The provider's answer is persisted whatever the fence says, unless the message is deleted.
Confirm(m) ==
  /\ change[m].phase = "applied"
  /\ change' = [change EXCEPT ![m] = [phase |-> "none", version |-> 0]]
  /\ IF stored[m].state = "deleted" THEN UNCHANGED <<stored, skipped, receipt>>
     ELSE /\ stored' = [stored EXCEPT ![m] = [state |-> "present", version |-> change[m].version]]
          /\ receipt' = [receipt EXCEPT ![m] = change[m].version]
          /\ skipped' = IF stored[m].version > change[m].version THEN [skipped EXCEPT ![m] = Max({@, stored[m].version})] ELSE skipped
  /\ Raise({m})
  /\ UNCHANGED <<mailbox, checkpoint, base>>

\* The change fails, is cancelled, or its answer is lost.
GiveUp(m) ==
  /\ change[m].phase # "none"
  /\ change' = [change EXCEPT ![m] = [phase |-> "none", version |-> 0]]
  /\ Raise({m})
  /\ UNCHANGED <<mailbox, stored, checkpoint, base, skipped, receipt>>

Work(key) ==
  Begin(key) \/ AskProfile(key) \/ AskList(key) \/ AskHistory(key) \/ CursorRejected(key) \/ Fails(key) \/ Commit(key)

Next ==
  \/ MailboxChanges /\ UNCHANGED local
  \/ \E key \in Keys : Work(key)
  \/ \E m \in Changed : Accept(m, TRUE) \/ Accept(m, FALSE) \/ Apply(m) \/ Confirm(m) \/ GiveUp(m)

Spec == Init /\ [][Next]_vars

----------------------------------------------------------------------------
(* Properties. *)

\* The last record about m that the latest lane has behind it.
Behind(m) == Max({0} \cup Records(m, base, Position(checkpoint["latest"])))

Reflects(m) ==
  IF m \in mailbox.present THEN stored[m].state = "present" /\ stored[m].version >= Behind(m)
  ELSE stored[m].state = "present" => Version(m, HistoryId) > Position(checkpoint["latest"])

\* What the latest lane has behind it is in the store: a message is as new as the last record the
\* lane has passed, and gone if that record deleted it, once no listing of old mail is under way;
\* excepted are the messages the code passed over knowingly (persist's fence and tombstones, the
\* cursor that a completed backfill leaves to the latest lane).
LaneIsReflected ==
  checkpoint["backfill"].kind # "page" => \A m \in Messages : Behind(m) > skipped[m] => Reflects(m)

\* The state has its type, and a page fetched before the receipt of a local change never takes back
\* what the provider confirmed (the fence is read before the provider is asked).
ReceiptsAreNotOverwritten == TypeOK /\ \A m \in Messages : stored[m].state = "present" => stored[m].version >= receipt[m]

=============================================================================
