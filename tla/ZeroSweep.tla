----------------------------- MODULE ZeroSweep -----------------------------
(***************************************************************************)
(* "Get me to zero" (apps/local-host/src/zero-sweep.ts): the host marks    *)
(* old conversations Done in bulk over the SDK's mailbox actions, which    *)
(* MailboxStates models.  A preview captures the conditional targets of    *)
(* every matching conversation; apply sends them in batches of whole       *)
(* conversations and, when a batch is refused with 412, conversation by    *)
(* conversation; at the end it records the run and its receipts; undo      *)
(* takes the receipts back one after the other.                            *)
(*                                                                         *)
(* Every call of the SDK is an await: between two of them other clients    *)
(* act, mail changes or disappears, and the host stops.  A sweep id is     *)
(* used for one apply (ImportantDone.tsx draws a fresh one every time).    *)
(***************************************************************************)
EXTENDS MailboxStates, Sequences, SequencesExt

CONSTANTS
  Order,    \* the conversations newest first, each the sequence of its members
  Batch,    \* targets in one call of setMailboxStates (500)
  Sweeps,   \* ids of sweeps; the other actions are those of other clients
  Shared,   \* bound: the members that other clients and mail touch meanwhile
  Asked     \* bound: the changes that other clients ask for

Threads == DOMAIN Order
MembersOf(c) == ToSet(Order[c])
Receipt(s, n) == <<s, n>>               \* `${id}:${n}`
Clients == Actions \ (Sweeps \X Threads)

\* A message is in one conversation, and the targets of a conversation fit a call.
ASSUME SweepAssumption ==
  /\ Order \in Seq(Seq(Members))
  /\ \A c \in Threads : Len(Order[c]) \in 1..Batch
  /\ \A c, d \in Threads : c # d => MembersOf(c) \cap MembersOf(d) = {}
  /\ Sweeps \X Threads \subseteq Actions
  /\ Shared \subseteq Members
  /\ Asked \subseteq [done : Marks, until : Instants, checked : BOOLEAN]

VARIABLES
  preview,   \* the targets a preview holds for every conversation
  job,       \* apply: its phase, the conversations to send, the refused batch, what it counted
  run,       \* local_zero_sweeps: the row of every recorded sweep
  undoing,   \* undo: the number of the receipt it takes back next, 0 when idle
  gone       \* history: members that were unavailable when an undo reached them

zeroVars == <<preview, job, run, undoing, gone>>
sweepVars == <<vars, zeroVars>>

\* One conversation as captured: the members it had, the targets kept of them.
Captured == [on : SUBSET Members, revision : [Members -> Nat], mail : [Members -> Nat],
             version : [Members -> Nat]]
NoCapture == [on |-> {}, revision |-> NoCommand.revision, mail |-> NoCommand.mail, version |-> NoCommand.mail]
NoJob == [phase |-> "none", todo |-> {}, batch |-> {}, receipts |-> 0, counted |-> {}, skipped |-> {}]
NoRun == [status |-> "none", receipts |-> 0, counted |-> {}, skipped |-> {}]

Jobs == [phase : {"none", "previewed", "batches", "singles", "over"}, todo : SUBSET Threads, batch : SUBSET Threads,
         receipts : 0..Len(Order), counted : SUBSET Threads, skipped : SUBSET Threads]
Runs == [status : {"none", "recorded", "undone"}, receipts : 0..Len(Order), counted : SUBSET Threads, skipped : SUBSET Threads]

SweepTypeOK ==
  /\ TypeOK
  /\ preview \in [Sweeps -> [Threads -> Captured]]
  /\ job \in [Sweeps -> Jobs]
  /\ run \in [Sweeps -> Runs]
  /\ undoing \in [Sweeps -> 0..Len(Order) + 1]
  /\ gone \in [Sweeps -> SUBSET Members]

SweepInit ==
  /\ Init /\ available = Members
  /\ preview = [s \in Sweeps |-> [c \in Threads |-> NoCapture]]
  /\ job = [s \in Sweeps |-> NoJob]
  /\ run = [s \in Sweeps |-> NoRun]
  /\ undoing = [s \in Sweeps |-> 0]
  /\ gone = [s \in Sweeps |-> {}]

----------------------------------------------------------------------------
(* Preview. *)

Awake(m) == ~state[m].done /\ state[m].until <= clock
InInbox(c) == \E m \in MembersOf(c) \cap available : Awake(m)

\* What mailboxConversations answers for a conversation: its budgets may cut the targets short
\* (targetsComplete is false then, which preview does not read).
Capture(c, kept) ==
  [on |-> {Order[c][i] : i \in 1..kept} \cap available,
   revision |-> [m \in Members |-> IF m \in MembersOf(c) THEN state[m].revision ELSE 0],
   mail |-> [m \in Members |-> IF m \in MembersOf(c) THEN mail[m] ELSE 0],
   version |-> [m \in Members |-> IF m \in MembersOf(c) THEN version[m] ELSE 0]]

\* preview: conversations with mail awake in the inbox, older than the cutoff, and not kept for
\* being unread or starred (any choice of them); one without targets is left out.
Preview(s) ==
  /\ job[s].phase = "none"
  /\ \E chosen \in SUBSET {c \in Threads : InInbox(c)} : \E kept \in [chosen -> 1..Batch] :
       /\ \A c \in chosen : kept[c] <= Len(Order[c]) /\ Capture(c, kept[c]).on # {}
       /\ preview' = [preview EXCEPT ![s] = [c \in Threads |-> IF c \in chosen THEN Capture(c, kept[c]) ELSE NoCapture]]
       /\ job' = [job EXCEPT ![s].phase = "previewed", ![s].todo = chosen]
  /\ UNCHANGED <<vars, run, undoing, gone>>

----------------------------------------------------------------------------
(* Apply. *)

\* Mutant: what is missing by now is left out.
PresentTargets(s, cs) == UNION {preview[s][c].on \cap available : c \in cs}

Targets(s, cs) == UNION {preview[s][c].on : c \in cs}

\* The longest start of the list that fits one call (the one batch there is, none of an empty list).
NextBatch(s) ==
  LET starts == {{d \in job[s].todo : d <= c} : c \in job[s].todo}
      fits == {b \in starts : Cardinality(Targets(s, b)) <= Batch}
  IN  {b \in fits : \A a \in fits : a \subseteq b}

First(cs) == {c \in cs : \A d \in cs : c <= d}

OwnerOf(m) == CHOOSE c \in Threads : m \in MembersOf(c)

\* Mutant: the targets are read again instead of taken from the preview.
DoneCommandReread(s, cs) ==
  [on |-> Targets(s, cs), revision |-> [m \in Members |-> state[m].revision], mail |-> mail,
   done |-> "done", until |-> 0]

DoneCommand(s, cs) ==
  [on |-> Targets(s, cs),
   revision |-> [m \in Members |-> IF m \in Targets(s, cs) THEN preview[s][OwnerOf(m)].revision[m] ELSE 0],
   mail |-> [m \in Members |-> IF m \in Targets(s, cs) THEN preview[s][OwnerOf(m)].mail[m] ELSE 0],
   done |-> "done", until |-> 0]

\* setMailboxStates stops at the first target that is missing (404) or has moved (412).
Problems(s, cs) ==
  LET c == DoneCommand(s, cs)
      missing(m) == m \notin available
      moved(m) == state[m].revision # c.revision[m] \/ mail[m] # c.mail[m]
      bad == SelectSeq(FlattenSeq(Order), LAMBDA m : m \in c.on /\ (missing(m) \/ moved(m)))
  IN  IF bad = <<>> THEN "none" ELSE IF missing(Head(bad)) THEN "missing" ELSE "moved"

\* One call of setMailboxStates that is accepted, under the next receipt number.
Sent(s, cs) ==
  /\ Problems(s, cs) = "none"
  /\ Perform(Receipt(s, job[s].receipts + 1), DoneCommand(s, cs))
  /\ UNCHANGED <<mail, available, clock, command, shown>>

\* apply takes the preview's token.
ApplyBegins(s) ==
  /\ job[s].phase = "previewed"
  /\ job' = [job EXCEPT ![s].phase = "batches"]
  /\ UNCHANGED <<vars, preview, run, undoing, gone>>

BatchSent(s) ==
  /\ job[s].phase = "batches"
  /\ \E b \in NextBatch(s) :
       /\ Sent(s, b)
       /\ job' = [job EXCEPT ![s].receipts = @ + 1, ![s].counted = @ \cup b, ![s].todo = @ \ b]
  /\ UNCHANGED <<preview, run, undoing, gone>>

\* 412: every conversation of the batch is tried alone.
BatchMoved(s) ==
  /\ job[s].phase = "batches"
  /\ \E b \in NextBatch(s) :
       /\ Problems(s, b) = "moved"
       /\ job' = [job EXCEPT ![s].phase = "singles", ![s].batch = b, ![s].todo = @ \ b]
  /\ UNCHANGED <<vars, preview, run, undoing, gone>>

\* The phase after a conversation sent alone.
Onwards(s, c) == IF job[s].batch = {c} THEN "batches" ELSE "singles"

\* Mutant: a conversation sent alone does not take a receipt number.
SingleSentUnnumbered(s) ==
  /\ job[s].phase = "singles"
  /\ \E c \in First(job[s].batch) :
       /\ Sent(s, {c})
       /\ job' = [job EXCEPT ![s].phase = Onwards(s, c), ![s].counted = @ \cup {c}, ![s].batch = @ \ {c}]
  /\ UNCHANGED <<preview, run, undoing, gone>>

SingleSent(s) ==
  /\ job[s].phase = "singles"
  /\ \E c \in First(job[s].batch) :
       /\ Sent(s, {c})
       /\ job' = [job EXCEPT ![s].phase = Onwards(s, c), ![s].receipts = @ + 1,
                             ![s].counted = @ \cup {c}, ![s].batch = @ \ {c}]
  /\ UNCHANGED <<preview, run, undoing, gone>>

SingleMoved(s) ==
  /\ job[s].phase = "singles"
  /\ \E c \in First(job[s].batch) :
       /\ Problems(s, {c}) = "moved"
       /\ job' = [job EXCEPT ![s].phase = Onwards(s, c), ![s].skipped = @ \cup {c}, ![s].batch = @ \ {c}]
  /\ UNCHANGED <<vars, preview, run, undoing, gone>>

\* Any other error of a call ends apply: a target is missing, the storage fails, the host stops.
\* A preview expires or is dropped the same way.
Abandoned(s) ==
  /\ job[s].phase \in {"previewed", "batches", "singles"}
  /\ job' = [job EXCEPT ![s].phase = "over"]
  /\ UNCHANGED <<vars, preview, run, undoing, gone>>

\* The row is inserted once everything has been sent.
Recorded(s) ==
  /\ job[s].phase = "batches" /\ job[s].todo = {}
  /\ run' = [run EXCEPT ![s] = [status |-> "recorded", receipts |-> job[s].receipts,
                                counted |-> job[s].counted, skipped |-> job[s].skipped]]
  /\ job' = [job EXCEPT ![s].phase = "over"]
  /\ UNCHANGED <<vars, preview, undoing, gone>>

----------------------------------------------------------------------------
(* Undo. *)

UndoBegins(s) ==
  /\ run[s].status = "recorded" /\ undoing[s] = 0
  /\ undoing' = [undoing EXCEPT ![s] = 1]
  /\ UNCHANGED <<vars, preview, job, run, gone>>

\* The next receipt: taken back, or found taken back, or refused with 404 or 412 and passed over.
UndoTakesBack(s) ==
  /\ undoing[s] \in 1..run[s].receipts
  /\ UndoStates(Receipt(s, undoing[s]))
  /\ undoing' = [undoing EXCEPT ![s] = @ + 1]
  /\ UNCHANGED <<mail, available, clock, command, shown, preview, job, run, gone>>

UndoPasses(s) ==
  /\ undoing[s] \in 1..run[s].receipts
  /\ ~Retractable(Receipt(s, undoing[s]))
  /\ undoing' = [undoing EXCEPT ![s] = @ + 1]
  /\ gone' = [gone EXCEPT ![s] = @ \cup (receipt[Receipt(s, undoing[s])].on \ available)]
  /\ UNCHANGED <<vars, preview, job, run>>

\* Mutant: the run is marked before its receipts are taken back.
UndoRecordedFirst(s) ==
  /\ undoing[s] # 0
  /\ run' = [run EXCEPT ![s].status = "undone"]
  /\ UNCHANGED <<vars, preview, job, undoing, gone>>

UndoRecorded(s) ==
  /\ undoing[s] = run[s].receipts + 1
  /\ run' = [run EXCEPT ![s].status = "undone"]
  /\ undoing' = [undoing EXCEPT ![s] = 0]
  /\ UNCHANGED <<vars, preview, job, gone>>

\* The storage fails or the host stops; undo can be asked for again.
UndoAbandoned(s) ==
  /\ undoing[s] # 0
  /\ undoing' = [undoing EXCEPT ![s] = 0]
  /\ UNCHANGED <<vars, preview, job, run, gone>>

----------------------------------------------------------------------------
Others ==
  /\ \/ \E m \in Shared :
          \/ \E done \in BOOLEAN, until \in Instants : SetState(m, done, until)
          \/ MailChanges(m)
          \/ Vanishes(m)
          \/ Returns(m)
     \/ WakeDue
     \/ Tick
  /\ UNCHANGED zeroVars

\* Another client's action on the mailbox, or its undo.
Client ==
  /\ \E a \in Clients :
       \/ \E ms \in SUBSET Shared, c \in Asked : Compose(a, ms, c.done, c.until, c.checked)
       \/ Apply(a)
       \/ Undo(a)
  /\ UNCHANGED zeroVars

SweepNext ==
  \/ \E s \in Sweeps :
       \/ Preview(s) \/ ApplyBegins(s)
       \/ BatchSent(s) \/ BatchMoved(s) \/ SingleSent(s) \/ SingleMoved(s)
       \/ Abandoned(s) \/ Recorded(s)
       \/ UndoBegins(s) \/ UndoTakesBack(s) \/ UndoPasses(s) \/ UndoRecorded(s) \/ UndoAbandoned(s)
  \/ Client
  \/ Others

SweepSpec == SweepInit /\ [][SweepNext]_sweepVars

----------------------------------------------------------------------------
(* Properties. *)

\* "Conversations whose state changed since the preview are skipped, never forced" (apply's
\* comment): what a sweep marks Done has not been written, nor its mail changed, since the
\* preview; also when a refused batch is retried conversation by conversation.
SweepForcesNothing ==
  [][\A s \in Sweeps, n \in Threads : JustApplied(Receipt(s, n)) =>
       \A m \in receipt'[Receipt(s, n)].on :
         /\ version[m] = preview[s][OwnerOf(m)].version[m]
         /\ mail[m] = preview[s][OwnerOf(m)].mail[m]]_sweepVars

\* A receipt of a sweep holds every captured target of a conversation or none, whatever was
\* refused, abandoned or gone in between (flush's batches).
ReceiptsHoldWholeTargets ==
  \A s \in Sweeps, n, c \in Threads :
    LET taken == receipt[Receipt(s, n)].on \cap preview[s][c].on
    IN  taken \in {{}, preview[s][c].on}

\* A recorded run tells what happened: its receipts are exactly those the SDK holds for it and
\* cover exactly the conversations it counts, and the others of the preview were skipped.
RunsAreAccurate ==
  \A s \in Sweeps : run[s].status # "none" =>
    /\ \A n \in Threads : n <= run[s].receipts <=> receipt[Receipt(s, n)].status # "none"
    /\ UNION {receipt[Receipt(s, n)].on : n \in Threads} = Targets(s, run[s].counted)
    /\ run[s].counted \cap run[s].skipped = {}
    /\ run[s].counted \cup run[s].skipped = {c \in Threads : preview[s][c].on # {}}

\* In a run recorded as undone every receipt has been taken back, unless one of its members was
\* written since or was gone when undo came to it: a host that stops halfway through undo does
\* not leave receipts behind in a run that cannot be undone again.
UndoneRunsHoldNothing ==
  \A s \in Sweeps, n \in Threads :
    LET r == receipt[Receipt(s, n)]
    IN  run[s].status = "undone" /\ r.status = "applied" =>
          \E m \in r.on : writer[m] # {Receipt(s, n)} \/ m \in gone[s]

\* The receipts of a sweep and its recorded run, which are all that undo goes by, say what was
\* done: whole conversations, counted as they are held, and undone when the run says undone.
RunsAreTrue == SweepTypeOK /\ ReceiptsHoldWholeTargets /\ RunsAreAccurate /\ UndoneRunsHoldNothing

=============================================================================
