# Superlocal: a verification development

TLA+ specifications, TLC configurations and TLAPS proofs for Superlocal, a
self-hosted mail client. The code's centre is `packages/inbox-sdk`: a SQLite
database that mirrors remote mail accounts, queues what users want done to them
and tells followers what changed. `apps/local-host` adds services on top of it
(bulk actions, AI sorting, authentication), `apps/web` is the user interface.

Paths below are relative to the repository; `core.ts` is
`packages/inbox-sdk/src/core.ts`.

| Module | What it is |
| --- | --- |
| `SendQueue` | drafts and sends: submit, claim, dispatch, receipt (`core.ts`) |
| `SendQueue_proofs` | its theorems |
| `MutationQueue` | changes of mail: optimistic display, queue, receipt, undo (`core.ts`) |
| `MutationQueue_proofs` | its theorems |
| `MailboxStates` | done and reminders: batch actions, receipts, undo (`core.ts`) |
| `ZeroSweep` | "Get me to zero", composed with `MailboxStates` (`zero-sweep.ts`) |
| `ZeroSweep_proofs` | the theorems of `MailboxStates` and `ZeroSweep` |
| `ChangeJournal` | the durable event journal and its pages (`core.ts`) |
| `EventStream` | journal, SSE handler and following client (`http.ts`, `client.ts`) |
| `ChangeFeed` | the abstract feed `EventStream` implements |
| `EventStream_proofs` | the refinement and its invariants, proved |
| `Connections` | credentials: use, refresh, replacement, provider instances (`core.ts`, `credential-refresh.ts`) |
| `Connections_proofs` | its theorems |
| `GoogleOAuth` | attempts to connect a Google account (`google-oauth.ts`) |
| `GoogleOAuth_proofs` | its theorems |
| `GmailMailbox` | the mailbox at Google and what the adapter reads of it (`gmail.ts`) |
| `SyncLanes` | synchronization of one account with that mailbox (`core.ts`) |
| `SyncLanes_proofs` | its theorems |
| `AiTriage` | optional triage by a model: reader, jobs, pump (`ai-triage.ts`) |
| `AiTriage_proofs` | its theorems |
| `MC*` and `*.cfg` | instances for TLC |

## Inventory

### The SDK core (`packages/inbox-sdk/src/core.ts`)

One process owns a SQLite connection; several processes may share the file.
Every `db.transaction` is atomic; every `await` between two of them is a place
where other handlers, timers, workers and processes run. Identity is fenced by
two generations, the account's and its connection's, that move on reconnect and
credential changes. All time is `now()` compared with stored instants.

- **Send queue.** State: `sdk_drafts` (status, revision), `sdk_operations` of
  type `send` (status, generation, attempts, lease, `next_at`, hold). Operations:
  `createDraft`, `updateDraft`, `deleteDraft`, `submit` (validated, awaited,
  accepted in a second step; replayed by idempotency key), `cancel`,
  `reschedule`, `processDue` (expired leases, claim), `executeOperation`
  (dispatch, receipt, failure), and what `disconnect`, `reconnectSource`,
  `replaceCredentials`, `revokeCredentials` and `updateMailbox` do to queued
  work. Hard: a worker that dies after the provider accepted a message, a worker
  that outlives its lease, answers that arrive after the account changed,
  repeated submits. Correct when: no message is delivered twice, no outcome is
  misreported, a draft's lock agrees with its sends, nothing is stranded, the
  undo-send hold is kept, and every send is settled in the end.
- **Mutation queue.** State: `sdk_operations` of type `mutation`, and for every
  message what the provider confirmed and what is shown. Operations: `mutate`,
  `cancel`, `undo`, the same worker, `persist` for synchronised mail, `project`.
  Hard: several queued changes of one message, retries, partial results over
  several messages, undo by revisions, cancellation of what may already have
  happened. Correct when: what is shown is the confirmed state plus what is
  queued, changes run in order, results are final and real, undo is grounded.
- **Mailbox states.** State: `sdk_memberships` (done, reminder, revision) and
  `sdk_mailbox_actions` (what an action saved and replaced). Operations:
  `setMailboxState`, `setMailboxStates`, `undoMailboxStates`, the wake of due
  reminders in `processDue`. Hard: optimistic concurrency between clients, undo
  after others wrote. Correct when: no write is lost, an undo restores exactly
  what its action replaced or nothing, reminders come back.
- **Change journal.** State: `sdk_events`, `sdk_states` (seq, floor).
  Operations: `event`, the retention in `transaction`, `changes`, `subscribe`.
  Hard: pruning under followers, gaps in sequence numbers. Correct when: a token
  that is accepted resumes without a gap.
- **Sync lanes.** State: `sdk_checkpoints`, coverage, fences, cooldowns.
  Operations: `synchronizeSource` (live, reconcile, backfill), `persist`,
  `applyChanges`, `liveMailboxPage`, `poll`. Hard: a page fetched before a local
  change is applied after it; the cursor moves past what was skipped; lanes run
  at the same time and across reconnects. Correct when: no remote change is lost
  for ever and no newer state is overwritten by an older page.
- **Credentials.** State: `sdk_connections` (version, generation),
  `sdk_connection_refresh` (lease). Operations: `providerFor`, `io`,
  `saveCredentials`, `revokeCredentials`, `replaceCredentials`,
  `retireInstance`. Hard: refreshes that race with one another, with a reconnect
  and with revocation. Correct when: one refresh at a time, never an older token
  over a newer, no use of revoked credentials.
- **Correspondence reader.** A worker thread behind a queue of four, a deadline
  and a restart budget. Correct when: every request is answered once, by its own
  answer, and `close` ends.
- **Views and reads.** Listing, search, threads, snapshots, previews: queries.

### Around the core

- **HTTP API and client** (`http.ts`, `client.ts`): routing, validation, parsing.
  The event stream is the part with state: the handler reads a page, subscribes,
  re-reads when woken; the client keeps a cursor and reconnects. Hard: what is
  committed between a read and a subscription, frames lost with a connection,
  cursors that expired.
- **Media store** (`media.ts`) and **sender domains** (`sender-domains.ts`):
  fetches behind a slot limiter with shared jobs and negative caches. Hard: an
  abort that races with the hand-over of a slot.
- **Providers** (`server/sdk/*`): Gmail, IMAP, Outlook, inbound mail. External
  systems to the models.
- **Google OAuth** (`server/google-oauth.ts`): single-use attempts with expiry.
- **Zero sweep** (`apps/local-host/src/zero-sweep.ts`): preview, apply in
  batches, recorded runs, undo. Each SDK call is awaited. Hard: everything that
  moves between preview and apply, errors between two batches, undo in a loop.
- **AI triage** (`ai-triage.ts`): follows the journal with a durable cursor,
  queues conversations, scores them, rescores on new policies. Hard: stale
  answers, recovery by re-reading, restarts.
- **Inbox window, attention overrides, preferences, authentication, host**:
  reads with signed cursors, small revisioned tables, wiring.
- **Web application** (`apps/web/src/inbox.ts`): optimistic store reconciled with
  answers and pushed events.
- **Mail content** (`forwarding.ts`, `mail-preview.ts`, `mail-facts.ts`,
  `sanitize.ts`, `crypto.ts`), **classification**, **mock API**, **scripts**: no
  protocol to check.

How they interact: callers (web, host services) call the SDK over HTTP or in
process; the SDK's workers call providers; each commit appends to the journal;
subscribers are woken and read the journal; the zero sweep and AI triage are
clients of the SDK like any other. Sends and mutations share the table, the
worker and the account's lease; they are modelled separately because no rule of
the code relates a send to a mutation except that one account runs one leased
operation at a time, which either module can experience as a claim that is late.

## Plan

Done: `SendQueue`, `MutationQueue`, `MailboxStates` and `ZeroSweep` over it,
`ChangeJournal`, `EventStream` and the abstract `ChangeFeed`, `Connections`,
`GoogleOAuth`, `SyncLanes` over `GmailMailbox`, `AiTriage`; theorems for all of
them.

Next, in this order:

1. `FlagIntents`: read and starred in the web store (`apps/web/src/inbox.ts`,
   2526-2851): intents shown before they are accepted, one frozen request per
   write, rebasing over the store's own revision edges only, the poll of accepted
   operations, undo. Properties: no edit of somebody else is overwritten unseen; a
   lost answer never makes a second operation; an intent is shown until the
   snapshot has it or the write is refused; every write is forgotten in the end.
2. `DraftEditor` (same file, 2354-2505): local edits, their recovery after a
   restart, saves against the draft's revision, submit with its saved key.
3. `CorrespondenceReader` and `Slots` (media store, sender domains): bounded
   queues with deadlines, aborts and restarts; small enough to prove outright.
4. `AttentionOverrides`, the inbox window's cursors.
5. Proofs about these as they come. Every safety property that a run checks is a
   theorem now; what is left is liveness, which stays with TLC.

## The modules and the code

All modules make one step of every database transaction and let anything happen
between two. Process crashes are ordinary steps. Time is not a number: a row's
instant has passed or has not (`waiting`, `held`, `fresh`), and time's steps say
when that changes; only `MailboxStates` has a clock, because a reminder is
compared with several instants.

### SendQueue

One account, its drafts and sends. `request` is a `submit` between its two
halves; `worker` is a slot of `executeOperation` with its phase (`claimed` after
the claim, `prepared` once the account is read, `calling` inside `io`, `sent`
while the provider works, `answered` or `failing` before the receipt); `wire` and
`delivered` are the provider's side: requests it has not decided and messages it
accepted. A lease is named by the number of the claim. Leases expire at any time
(`LeaseExpires`), heartbeats may be late, an execution never stops because its
lease did. `ProviderAccepts` covers complete and partial acceptance;
`AnswerLost` covers time-outs and connections cut after dispatch, and
`LateDecision` the provider deciding afterwards. `Disconnect`, `Reconnect`,
`RecoverCredentials`, `SiblingReconnects` (another source of the same
connection), `Revoke`, `Detach` and `Attach` are the account's handlers with
what they do to queued work.

Left out: the path where a sender address of 321 to 1024 characters passes one
validation and fails another (`core.ts:1797`, 1915). The receipt of such a send throws
`VALIDATION`, which counts as a definite rejection: the operation fails and its draft is
restored after the provider has accepted the message. On that path
`OutcomeIsHonest` and `ResubmittingIsSafe` do not hold, nor `AtMostOneDelivery` once the
draft is submitted again. `ReceiptThrows` is every other failure of a receipt, which
leaves the outcome unknown. Also left out: `sourceMessageId` merges of the sent copy.

### MutationQueue

One account; of a message one field, since fields are independent of one
another. `change` maps each selected message to the value to set; `confirmed`
and `visible` are the two rows of a message; `unmoved` remembers where a
message's revision still equals the one its operation saved, which is what undo
compares. `Reproject` is `project` run by the transaction that needs it. `unsaved` is
history: the changes whose operation was settled without the answer to them, until their
message is next projected. Two transactions leave one: `Finish` after a receipt that
returned early because the account had changed (`core.ts:1855`), and the outer catch
after both the receipt and its recovery failed (1929). Only properties read it. The
claim has both of the code's conditions: no live lease on the account, and no
earlier live operation on a common message; `Window` is the number of
candidates read (100). An execution goes message by message; a returned answer
whose receipt fails is recovered as "doubtful", or as a partial operation when
recovery fails too.

Left out: permanent deletion; label and snooze operations that stay local;
`ifRevisions`; replays of `mutate` by key; revision lineage beyond what undo
reads; a worker's provider call still in flight after its slot has moved on (the
change is decided when the slot lets go of it).

### MailboxStates

Memberships with done, reminder, woken and revision. `Compose` is a client
building an action from what it sees; `Apply` and `Undo` are the handlers, all or
nothing; `SetState` the single write; `WakeDue` the reminder job of
`processDue`. `version`, `writer` and `shown` are history: how often a row was
written, by whom, and what the client was looking at. Only
properties read them.

### ZeroSweep

`EXTENDS MailboxStates`: the sweep's calls are `Perform` and `UndoStates` of that
module, with the sweep's receipts as action ids. Between any two calls other
clients compose, apply and undo batch actions of their own (`Client`, the actions that are
not receipts of a sweep), and single writes, mail and reminders come (`Others`). `Preview` captures targets (any cut of a conversation's
list, as the read budgets may), `BatchSent`/`BatchMoved` are `flush`,
`SingleSent`/`SingleMoved` the retry conversation by conversation, `Abandoned`
every other error and a host that stops, `Recorded` the row. Conversations are
numbered newest first, so the list still to send (`todo`) and the refused batch are
sets of numbers: `NextBatch` is the longest start of the list that fits one call,
`First` the next conversation of a batch. Undo is one step per receipt. Assumed: one
apply per id (the dialog draws a fresh id), one undo at a time. The undo window and the
removal of runs after 30 days are left out. `Preview` captures everything in one step; the
code awaits one page of conversations after another (`zero-sweep.ts:52-63`), so that
conversations may be of different moments. Each target carries its own revision, which
is what a call compares.

### ChangeJournal, EventStream and ChangeFeed

One owner; other owners draw sequence numbers in between. `Commits` is a
transaction with up to `Burst` events, its pruning included; `PagesAfter` is
`changes`. `EventStream` is the handler's loop (`first`, `subscribing`,
`sending`, `reading`, `waiting`) for the connection the client has, what is on
its way (`wire`), and the client's cursor and knowledge. `Drops` loses the
connection with what was on its way, `Closes` ends it after what was sent.
`ChangeFeed` states the promise: every event, in order and once, from the state
the follower starts at; it starts over only when its place has expired.
`EventStream!Feed` instantiates it with `cursor <- client.cursor` and
`known <- client.known`.

Left out: the stream limit (429), HEAD requests, heartbeat frames, ends of a
stream by failed authentication other than as `Closes`, `mailboxChanges`.

### Connections

One connection with one source. `connection` is the row of `sdk_connections` and
its account (status, generation, credential version, whether the access token has
expired); `lease` is `sdk_connection_refresh`. The rest is memory of the processes
that share the database: `refresh` is the job that `providerFor` shares between the
requests of a process, `instance` and `retiring` are the provider objects a process
keeps per version and those it disconnects after their last request, `request` is a
call of `io` with its one repetition, `change` is `reconnectSource` or
`replaceCredentials` between its first check and its commit. Authorizations are
numbered in the order in which they were given; `origin` says which one the
credentials of a version come from. `Begin`, `Run`, `Answered`, `TimedOut`,
`Refused`, `Again` and `Discovered` are `io`; `Claim`, `AlreadyRefreshed`,
`GivesUp`, `Refreshed`, `NotSaved`, `RefreshRevoked` and `RefreshFails` are the
loop in `providerFor` and its save. A lease outlives the call it covers (30 seconds
against 25), so `LeaseLapses` is for refreshes nobody runs any more.

Left out: connections with several sources (each would bring its own account
generation), the identity cache and `providerSendingIdentities`, the key of the
encrypted columns. `Authorize` is the user's grant and the first check of the handler that
brings it (`reconnectSource`) in one step: a grant that is kept and handed in after a newer
one was is left out.

### GoogleOAuth

`attempt` is a row of `sdk_oauth_attempts` with what it noted about the user's
connections when it began (`seen`); `callback` is a call of `complete` and stands
between its awaits: the row selected, the state burnt, the code exchanged, the
target chosen, the connection created or reconnected, the attempt completed.
`Start`, `Authorize`, `Poll` (whatever runs `expire`), `Lapse` and `Stop` surround
it; `Disconnect` and `Revoke` are what else happens to connections meanwhile.
`committed` remembers which callbacks changed a connection. Left out: refusals of
malformed requests, formats of the token and user-info exchanges.

### GmailMailbox and SyncLanes

`GmailMailbox` is the mailbox at Google, a set of messages and a log of history
records, and what `fullSync` and `sync` read of it: `FullPage` lists downwards
below a token, `DeltaPage` reads the next records and fetches the messages as they
are now. A message's version is the last record about it. `SyncLanes` has the lanes
`latest` and `backfill` and the reset of `latest`, each at most one call at a time
(`syncing`). A call reads its checkpoint and its fence (`Begin`), asks
(`AskProfile`, `AskList`, `AskHistory`), and commits a page (`Commit`: `persist`
per message, deletions, checkpoints). `Accept`, `Apply`, `Confirm` and `GiveUp` are
a local change of a message; they raise the fence. `base`, `skipped` and `receipt`
are history: where the latest lane began, and the records it passed over knowingly.

Left out: providers without a history cursor (head refreshes), retired and removed
ids, cooldowns, coverage, changes of the mailbox selection, reconnection during a
call (the call's commit is refused as a whole then). `Fails` keeps the checkpoint; the
deletion of a checkpoint whose cursor is invalid (`core.ts:2318-2320`) is not reached by
Gmail, whose adapter lists anew for an expired history id (`server/sdk/gmail.ts:876`).

### AiTriage

One owner. `conv` holds a conversation's rows (queue, decision, known messages,
items of jobs), `jobs` the history jobs, `cache` what the present model has assessed.
In memory: `run` is the request under way for a conversation, from the reading of
its context to its settlement; `drain` the page the journal's reader works through,
`recovery` the re-reading after lost events (its `seen` is stored), `inventory` a
job's page. A conversation is one input of the model, its version; a version never
returns. `DrainCommit` is the transaction of a page. The code collects a page's plans in
a list and carries them out in turn; `drain` keeps, for each conversation, whether it is
removed, the set of the versions to queue and the last of them, and `Carried` says what
the plans in turn come to. That it says so is the assumption `CarriedIsInTurn` of
`MCAiTriage`, which TLC evaluates for every form of a conversation and every page of at
most three plans. `Configure` is a change of settings, `Pause`, `Resume` and
`Cancel` are `control`, `Restart` is `start` after a crash, `Start` to `Settle` are
the pump and `executeQueue`. `SliceYields` says whether an inventory page is long
enough to yield in its middle.

A conversation is `aside` while it is Done or put off in every selected mailbox, out of
the inbox, or the user's own message (`SetAside`, `Return`, or mail that comes while it
is). Reader and recovery differ there. The reader plans a conversation that was assessed
wherever it is (`ai-triage.ts:501-505`); a recovery only counts such a message and notes it
as seen (576, 598, 602), assessed or not. So a text that changed in the part of the journal
that was lost keeps its old assessment while the conversation is aside. `RecoveryItem` does
what the code does, and `missed` remembers the conversation: history that only the
properties read, until a row is made for it or something happens to it. Its return to the
inbox is such an event, as is the next change of any kind.

`asked` counts the requests of a row's present input and `calledOff` those of them that a
pause or a cancellation called off; both are history. A row is new for another job, after
it ended in an assessment or a failure, and for another input.

Left out: contexts of several messages and insufficient ones, versions that return
to an earlier text, retained receipts of older policies, rescoring, overrides,
feedback and labels, capacity limits, delays and holds, blocked recoveries and
expired snapshots, accounting, errors and limits of an inventory; a change of folder that
makes a message unknown though its text stays, after which a failed conversation may be
asked for again; retention that removes more events during a recovery (the next reader is
told to start over once more); recent sent mail of the user's, which a recovery may take
though it is the user's own.

## Runs

| Run | Instance | What it shows |
| --- | --- | --- |
| `send_safety` | two callers, two keys, two executions, two sends of one draft, one account change | no duplicate delivery, honest outcomes, draft lock, hold, keys, final outcomes |
| `send_progress` | one send, two executions, one account change, fair | no send stays in processing; accepted sends settle |
| `mutation_edits` | two changes of one message with two values, one execution, one account change | projection, order, undo, claimability, final receipts |
| `mutation_progress` | one change of two messages, one account change, fair | results agree with the provider, message for message; changes settle |
| `mailbox_actions` | one membership, two actions, one instant, four revisions, fair | no write lost, faithful undo, reminders return |
| `sweep` | conversations of two, one and one messages, calls of up to three targets; another client's action, edits and mail touch one of the four | nothing forced, runs that tell what was done, undo overwrites nothing |
| `stream_follow` | six sequence numbers, retention 3, page 2, burst 3, two losses, fair | refinement of the feed; every event arrives |
| `connections` | two processes, two requests, one new authorization, four versions | one refresh at a time, no older authorization over a newer, no provider disconnected in use |
| `oauth` | two accounts, two connections, three attempts, two callbacks | an attempt acts once and says so, one connection per account, nothing unseen replaced |
| `sync` | two messages, one of them imported, the other also changed locally, two history records, pages of one, two calls at a time | the store reflects what the latest lane has passed; receipts are kept |
| `triage` | one conversation of two versions, two jobs, two interventions (1.15 million states) | assessments follow the mail, bounded requests, no stranded item or row |
| `triage_cancelled` | two conversations, one job, pages that yield, one intervention | the first disagreement below |

`RunsAreTrue` gathers the sweep's promises: receipts hold whole targets, a recorded
run lists what its receipts did, a run that is undone holds nothing any more. In
`sync`, `triage`, `oauth` and `sweep` the type invariant is a conjunct of one of the
invariants.

Why the bounds are enough to meet the hazards: two operations are what order,
locks and undo relate; two attempts (`RetryLimit = 2`) give a first try, a retry
and a last failure; one change of the account's generations puts every handler
before and after a fence; two executions let one outlive its lease while another
works. A burst larger than a page and a retention below the number of events make
pages continue, floors move under a follower and cursors expire. Two conversations
in one call and a third in the next make the sweep split, retry and stop halfway;
the one message others touch (`Shared`) lies in the conversation with two targets,
and the other client's action snoozes it under its message revision or takes its Done back
without (`Asked`).
Four versions of credentials are the first, a refresh, a replacement and a refresh
of it; two processes are what a lease separates. Three attempts give two that race
for one account and one that is abandoned, four generations a disconnection and two
reconnections. A page of one message splits listings and deltas; two records are a
change and its successor or a deletion; with two calls every pair of lanes overlaps.
Two versions of a conversation are a text and the one that makes an answer stale;
two jobs share one row. Two interventions are, for instance, a pause followed by a
cancellation, a restart after a change of settings, or lost events of a conversation that
is then set aside. Settings, pauses, cancellations, crashes, removals, conversations set
aside, retention and a second job share that number; new mail, returns, retries, answers
and every step of reader, recovery, inventory and pump do not.
`MaxRevision`, `MaxMail`, `MaxRev`, `MaxOps`, `MaxEpoch`, `MaxSeq`, `MaxDrops`,
`MaxVersion`, `MaxGeneration`, `MaxHistory`, `MaxInterventions` and `Horizon` only
cap counters. `CHECK_DEADLOCK FALSE` because each system may rest: nothing queued,
nothing to follow, bounds used up. Symmetry (executions, callers, messages, values,
processes, requests, accounts, attempts, jobs) is used only in runs without
liveness.

Every property of a passing run has a mutant: a plausible error in one definition
(the definitions marked "Mutant" in the modules) under which TLC finds that property
violated.

### Fairness

- Queues: `start` runs `processDue` every second, so expired leases are swept
  (WF of `Sweep`) and a row that is claimable again and again is claimed (SF of
  its claim, since other rows and the account's lease switch it off in between);
  an execution that lives makes its next step because every provider call ends
  within `io`'s 30 seconds (WF of `Execute`); time passes (WF of `HoldEnds`,
  `TimeUp`, `LeaseExpires`). Callers, account changes and crashes are never
  fair. `SendsSettle` is for an account that stays connected and a user who
  stops rescheduling. `MutationsSettle` also supposes that executions eventually
  stop dying and stop sleeping past their heartbeat: the sweep starts a mutation
  over without limit, so a worker that died every time would repeat it for ever.
- Mailboxes: WF of `WakeDue`, the same timer.
- Stream: the server serves (WF of `Serve`) and the client follows and reconnects
  (WF of `Follow`). Commits, the poll timer and losses are not fair;
  `EveryEventArrives` therefore does not rest on the poll timer.
- `Connections`, `GoogleOAuth`, `SyncLanes` and `AiTriage` state safety only.
  `PendingItemsAreQueued` and `ProcessingHasAWorker` are the safety half of the
  progress of a triage job: nothing it waits for is left without somebody to do it.

## What is proved

TLAPS checks the following for all values of the constants that satisfy the named
assumptions (`SendAssumption`, `MutationAssumption`, `MailboxAssumption`,
`JournalAssumption`, `StreamAssumption`, `ConnectionAssumption`,
`AttemptAssumption`, `SweepAssumption`, `SyncAssumption`, `TriageAssumption`): any number of drafts, callers, keys, workers, operations,
messages, memberships, actions, processes, requests, authorizations, attempts,
callbacks, connections, conversations, sweeps, records, history jobs and overlapping
synchronizations, and any retention, page and batch size.

- `SendQueue_proofs`: type correctness; at most one delivery and honest outcomes
  (`DeliveryCorrect`); settled outcomes are final; one operation per key; the
  hold; resubmitting is safe; a submitted draft has exactly one send; live sends
  are claimable. `AtMostOneDelivery` is not inductive: that a slot dispatches
  once needs that it works alone on its row and under the row's last claim
  (`SlotsFollowRows`), which holds because a send whose lease lapses never
  returns to the queue; and that its phase tells what the provider has seen as
  long as the row is processing (`SlotsKnowTheWire`). Together they are
  `DeliveryInv`. The draft properties follow from `DraftInv` (a send in use locks
  its draft at the submitted revision, alone), the hold from `HoldInv`.
- `MutationQueue_proofs`: type correctness, the projection, order, undo,
  claimability, real results and final receipts. The inductive invariant
  (`MutationInv`) adds to these that a processing row is worked on by one leased slot
  (`LeasesHold`); that a leased slot's message has no result yet, an answer it
  carries was given by the provider, and every message it has come to has a result or was
  carried out (`SlotsHold`), which is why only such changes go unsaved
  (`UnsavedHolds`); that operations have their numbers
  in order and only the first live one of a message runs (`OrderHolds`); and that a
  message that has not moved since an operation's receipt still shows that
  operation's value, with nothing earlier pending (`MovesHold`). Order is what makes
  the projection provable: a receipt changes the confirmed value below everything
  that is still queued.
- `ZeroSweep_proofs`, mailbox states: type correctness, no lost write, guarded and faithful
  undo. `MailboxInv` says that revisions count writes (`revision = version + 1`),
  so equal revisions mean that nobody wrote in between, and that commands and
  receipts are anchored: whoever still has the current revision sees the row as
  it was.
- `ZeroSweep_proofs`, the sweep: runs that tell the truth, nothing forced, guarded undo,
  whatever other clients do and undo between its calls. `SweepInv` says that a preview's targets carry
  the revisions of the writes they were read at (`PreviewIsAnchored`); that the
  conversations of a preview are divided among those to send, those of a refused
  batch, those counted and those skipped (`JobAddsUp`); that every accepted call takes
  the next receipt number and counts at least one conversation, so that the numbers
  stay within the conversations and no receipt is used twice (`ReceiptsAddUp`); and
  that a receipt an undo has gone past no longer stands (`RunFollows`), which is why
  an undo that is asked for again after a stop may end as undone.
- `EventStream_proofs`: `StreamImplementsFeed` (initial states and every step map
  to the feed's), and the invariants it rests on: nothing above the floor is
  lost, a follower misses nothing up to its place. `Inv` relates the client's
  cursor, what is on the wire and the server's page: between the cursor and the
  next frame there is no event that the follower does not know or will not be
  sent.

- `Connections_proofs`: one refresh at a time, providers and requests (a running
  request has its instance, a retired instance has its request), authority that only
  advances, reconnection asked for with cause. `ConnectionInv` says that whoever
  calls the token service for the stored version holds the lease (`LeasesHold`), and
  that whoever may still commit has an authorization no older than the stored one,
  since each commit of another authorization moves the generation
  (`AuthoritiesHold`).
- `GoogleOAuth_proofs`: an attempt acts at most once, outcomes are true, one
  connection per account, only what was seen is replaced. `AttemptInv` says that a
  callback that has claimed its attempt holds it alone (`OneHolder`) and for good
  (`HeldIsBurnt`), and that what the check found is still true when the connection is
  changed (`ChecksStand`).
- `SyncLanes_proofs`: what the latest lane has behind it is in the store, receipts are
  kept. The mailbox only grows (`Grows`): records stay and a deleted message does not
  return. So what a page says stays true of the history it was read at (`CallHolds`):
  its messages are as new as that history or have a later record, and a delta tells
  what became of every message it has a record of. `Reached` says how far the lane may
  be taken to have come, its cursor but not beyond a listing of old mail under way, and
  `Seen` what is known of a message there; every commit either moves the lane over
  records its page tells of or passes records over, which `skipped` notes. The fence
  makes a page that may still be persisted as new as the receipts (`PageIsRecent`).
- `AiTriage_proofs`: all four invariants of the module, and that a cancelled job stays
  cancelled. `TriageInv` says three things. Of one conversation (`Sound`): a row in
  processing has fewer than three attempts and a request that still counts, or is an
  orphan; a row has been asked for no more often than it has attempts and three times for
  each request that was called off, once more only while a request is out that nobody has
  called off, so that a request whose row may start over is paid for already; a row of a job is a pending item of it; a request that still
  counts belongs to a job that runs; and what is known is never newer than the mail
  nor, while a request holds the row, than what that request was made of. Of the reader (`Follows`):
  call a conversation safe when what triage shows of it, or its request is about to
  show, is its present version. A conversation that is not safe has an event after the
  cursor, whose version the reader's page already plans if it has passed the event; or
  a place in the page of a recovery, or an event after that page's target; or a change
  of settings skipped it, or a recovery passed over it while it was aside. Every step but new mail keeps what is safe
  (`Carries`), and new mail leaves an event. Of the jobs (`JobsHold`): a job that has
  not begun waits for nothing. `PendingQueued` and `CancelledForGood` are stated for
  pages that do not yield (`SliceYields` false), as is the run `triage`. With pages
  that yield neither holds: a cancelled job whose page goes on is running again, and
  waits for items whose rows the cancellation took away; that is the first
  disagreement below. The other theorems hold for both.

Each inductive invariant was first checked with TLC as an invariant of the runs
above. The argument of every proof is the same: the invariant holds initially,
each action keeps it (one lemma per action or group of actions), the property
follows from it, and the last step of a theorem is temporal.

Only model-checked: all liveness, which under fairness and with `ENABLED` is beyond
the prover used here; and that `Carried` of `AiTriage` is what a list of plans in turn
comes to, which is an induction over lists of any length and is checked for short ones.

## Where the code and its documentation disagree

- `packages/inbox-sdk/tests/api.test.ts:14469`: resuming a cancelled job answers with
  its cancelled state. An inventory that yields inside a page
  (`apps/local-host/src/ai-triage.ts:648`) saves its own copy of the job afterwards
  (656), before it looks at the stored one (662): a cancellation or a pause made in
  between is overwritten with "running" (run `triage_cancelled`), and the job then
  waits for items whose rows the cancellation removed, until new mail brings a row
  back. It is the yield alone: without one a cancelled job stays cancelled
  (`CancelledForGood`). A change of settings in the same place is overwritten in the
  same way; `Configure` ends the inventories at once so that the other properties of
  the module are not judged by this.
- `packages/inbox-sdk/README.md:251`: "Cancellation only succeeds before
  dispatch." `cancel` accepts any pending operation, and a mutation whose answer
  was lost is pending again (`core.ts:3198`).
- `packages/inbox-sdk/README.md:155`: detaching a view "cancels undispatched work
  bound to that view". A change that was claimed before and cancelled by the
  detachment is still dispatched: the lease is checked before `io`, and `io`
  awaits the provider first (`core.ts:1839`).
- `apps/local-host/src/zero-sweep.ts:112`: "Conversations acted on since keep
  their newer state": so do their neighbours in the same batch, and the run
  counts as undone.
- `apps/web/src/ImportantDone.tsx:8`: "in one step, with undo": an error or a
  stop between two batches leaves swept mail without a run (`zero-sweep.ts:108`).
- `apps/local-host/src/zero-sweep.ts:82`: "never leaves a thread half Done": a
  conversation whose target list was cut (`zero-sweep.ts:58`) is swept in part.
- `core.ts:2265`: "Native history boundaries (including a terminal
  history/delta/UID cursor) remain durable between polls." A backfill that completes
  sets the latest lane's checkpoint to the history id of its own listing
  (`core.ts:2269`), which may be before or after where that lane is.

The models show these too. The properties say where they except them.

- When the account changes between a provider's answer and its receipt, a mutation
  settles as failed without showing its message again (`core.ts:1855`), so a change that
  failed goes on showing until something else touches its message. `ProjectionIsFresh`
  says so: what is shown may hold an `unsaved` change, which the provider did carry
  out, and no other one that is over. An operation that fails before it asks the provider,
  or whose message fails, is rolled back like any other.
- A newer change whose receipt could not be saved at all does not move the revision
  that undo compares (`core.ts:3230`); `UndoIsGrounded` lets an undo find the value of an
  `unsaved` change, and nothing else.
- A remote change that the fence keeps out of a page is not asked for again: the
  cursor moves on (`core.ts:1390`). A message deleted at Google while a backfill had to
  start over stays in the store. `LaneIsReflected` excepts both through `skipped`.
- Coverage is called complete after the first delta of the latest lane
  (`core.ts:2279`), whatever the backfill has reached. Coverage is not modelled.
- A row of the triage queue that incoming mail took out of a job while its request
  was out stays in processing without a worker when that job is then paused, until
  the host restarts; `ProcessingHasAWorker` excepts it (`orphan`).
- A request that is called off by a pause and finds its job resumed before it has
  ended removes its conversation's row and decision (`Discard`). If that happens while it
  reads its context for the second time, the row starts over with no attempt counted,
  though its input is the same (`ai-triage.ts:861`): every pause and resume at that moment
  allows the input three requests more. `RequestsAreBounded` counts these in `calledOff`.
- A conversation that failed is asked for again by every later job that lists it, three
  times each (`tests/api.test.ts:14407` sends one input six times).
  `RequestsAreBounded` is a bound for one row of the queue, not for an input for ever.
- A recovery passes over a conversation that was assessed and is Done, put off or archived,
  so that its assessment may be of an older text until something happens to it
  (`ai-triage.ts:576`); `AssessmentsFollowTheMail` excepts it through `missed`.
- A job whose last item is settled while it is paused stays "running" after it is
  resumed, since nobody counts its items again, and keeps one of the three places for
  jobs.

## Not modelled

The web application's optimistic store (`apps/web/src/inbox.ts`) has protocols worth
checking and is the next step of the plan; so are the correspondence reader, the
slots of the media store and the sender domains, and attention overrides. Providers
other than Gmail are external to the models: the queues know a provider by the answers
the SDK distinguishes. What the modelled components leave out is said in their
sections above. Views, HTTP routing, the inbox window, mail content, classification,
configuration, application authentication, the mock API and the scripts are reads, pure
functions, external systems or wiring; `PROJECT.json` lists each with the reason.
