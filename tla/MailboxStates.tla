--------------------------- MODULE MailboxStates ---------------------------
(***************************************************************************)
(* Done and reminders: the memberships of messages in mailboxes            *)
(* (sdk_memberships) and the actions on them that can be taken back        *)
(* (sdk_mailbox_actions), from packages/inbox-sdk/src/core.ts.             *)
(*                                                                         *)
(* A client reads memberships with their revisions, composes an action on  *)
(* up to 500 of them and sends it, once or again when the answer is lost.  *)
(* The action is all or nothing: one revision that moved refuses it.  Its  *)
(* receipt keeps what the action replaced, and undo puts that back unless  *)
(* a membership has been written since.  Meanwhile other clients write     *)
(* single memberships, reminders fall due, mail changes, messages are      *)
(* deleted and mailboxes detached.  Every handler is one db transaction.   *)
(***************************************************************************)
EXTENDS Integers, FiniteSets

CONSTANTS
  Members,      \* (mailbox, message) pairs: the rows of sdk_memberships
  Actions,      \* ids of actions (sdk_mailbox_actions.id)
  Horizon,      \* bound: instants at which a reminder may be set
  MaxRevision,  \* bound: revisions of a membership
  MaxMail       \* bound: revisions of a message

ASSUME MailboxAssumption == Horizon \in Nat /\ MaxRevision \in Nat /\ MaxMail \in Nat

VARIABLES
  state,      \* sdk_memberships.data: done, the reminder's instant (0 is null),
              \* whether it has woken (wokeAt), and revision
  mail,       \* sdk_messages.revision of every member's message
  available,  \* members whose message is not deleted and whose mailbox is attached
  clock,      \* the instants that have passed
  command,    \* the actions composed by clients
  receipt,    \* sdk_mailbox_actions
  shown,      \* history: what the client that composed an action was looking at
  version,    \* history: how often a membership was written
  writer      \* history: the action that wrote a membership last, {} for any other write

rowVars == <<state, version, writer>>
vars == <<rowVars, mail, available, clock, command, receipt, shown>>

Instants == 0..Horizon
Marks == {"keep", "done", "open"}            \* input.done: absent, true, false
States == [done : BOOLEAN, until : Instants, woke : BOOLEAN, revision : Nat \ {0}]
Commands == [on : SUBSET Members, revision : [Members -> Nat], mail : [Members -> Nat], done : Marks, until : Instants]
Receipts == [status : {"none", "applied", "retracted"}, on : SUBSET Members, saved : [Members -> Nat], before : [Members -> States]]

Fresh == [done |-> FALSE, until |-> 0, woke |-> FALSE, revision |-> 1]
NoCommand == [on |-> {}, revision |-> [m \in Members |-> 0], mail |-> [m \in Members |-> 0], done |-> "keep", until |-> 0]
NoReceipt == [status |-> "none", on |-> {}, saved |-> [m \in Members |-> 0], before |-> [m \in Members |-> Fresh]]

TypeOK ==
  /\ state \in [Members -> States]
  /\ mail \in [Members -> Nat]
  /\ available \subseteq Members
  /\ clock \in Instants
  /\ command \in [Actions -> Commands]
  /\ receipt \in [Actions -> Receipts]
  /\ shown \in [Actions -> [Members -> [state : States, version : Nat]]]
  /\ version \in [Members -> Nat]
  /\ writer \in [Members -> SUBSET Actions]

\* A member that is not available yet is a message that will arrive or a mailbox to be attached.
Init ==
  /\ state = [m \in Members |-> Fresh]
  /\ mail = [m \in Members |-> 1]
  /\ available \in SUBSET Members
  /\ clock = 0
  /\ command = [a \in Actions |-> NoCommand]
  /\ receipt = [a \in Actions |-> NoReceipt]
  /\ shown = [a \in Actions |-> [m \in Members |-> [state |-> Fresh, version |-> 0]]]
  /\ version = [m \in Members |-> 0]
  /\ writer = [m \in Members |-> {}]

\* The rows of ms become new, written by who.
Write(ms, new, who) ==
  /\ state' = [m \in Members |-> IF m \in ms THEN new[m] ELSE state[m]]
  /\ version' = [m \in Members |-> IF m \in ms THEN version[m] + 1 ELSE version[m]]
  /\ writer' = [m \in Members |-> IF m \in ms THEN who ELSE writer[m]]

----------------------------------------------------------------------------
(* Clients. *)

\* A client composes an action from the memberships it is looking at.  Message revisions are
\* sent along or not (checked).
Compose(a, ms, done, until, checked) ==
  /\ command[a].on = {} /\ ms # {} /\ ms \subseteq available
  /\ command' = [command EXCEPT ![a] =
       [on |-> ms, revision |-> [m \in Members |-> IF m \in ms THEN state[m].revision ELSE 0],
        mail |-> [m \in Members |-> IF checked /\ m \in ms THEN mail[m] ELSE 0], done |-> done, until |-> until]]
  /\ shown' = [shown EXCEPT ![a] =
       [m \in Members |-> IF m \in ms THEN [state |-> state[m], version |-> version[m]] ELSE @[m]]]
  /\ UNCHANGED <<rowVars, mail, available, clock, receipt>>

\* Nothing the action was composed from has moved (else 404 or 412, and nothing is written).
UpToDate(c) ==
  /\ c.on \subseteq available
  /\ \A m \in c.on : /\ state[m].revision = c.revision[m]
                     /\ c.mail[m] \in {0, mail[m]}

\* setMailboxStates clears a reminder it does not set, and wokeAt always.
Changed(s, c) ==
  [done |-> IF c.done = "keep" THEN s.done ELSE c.done = "done",
   until |-> c.until, woke |-> FALSE, revision |-> s.revision + 1]

\* inbox.setMailboxStates.  A repeated id finds its receipt and changes nothing.
Perform(a, c) ==
  /\ receipt[a].status = "none" /\ c.on # {}
  /\ c.until = 0 \/ c.until > clock
  /\ UpToDate(c)
  /\ Write(c.on, [m \in Members |-> Changed(state[m], c)], {a})
  /\ receipt' = [receipt EXCEPT ![a] =
       [status |-> "applied", on |-> c.on,
        saved |-> [m \in Members |-> IF m \in c.on THEN state[m].revision + 1 ELSE 0],
        before |-> [m \in Members |-> IF m \in c.on THEN state[m] ELSE Fresh]]]

Apply(a) ==
  /\ Perform(a, command[a])
  /\ \A m \in Members : state[m].revision < MaxRevision
  /\ UNCHANGED <<mail, available, clock, command, shown>>

\* Mutants: undo restores the old revision too, or done alone.
ReinstatedRevision(a, m) == receipt[a].before[m]
ReinstatedDone(a, m) == [state[m] EXCEPT !.done = receipt[a].before[m].done, !.revision = @ + 1]

\* What the action replaced, under a revision nobody has seen yet.
Reinstated(a, m) == [receipt[a].before[m] EXCEPT !.revision = state[m].revision + 1]

\* Mutant: one membership still standing is enough.
RetractableInPart(a) ==
  /\ receipt[a].status = "applied"
  /\ receipt[a].on \subseteq available
  /\ \E m \in receipt[a].on : state[m].revision = receipt[a].saved[m]

Retractable(a) ==
  /\ receipt[a].status = "applied"
  /\ receipt[a].on \subseteq available
  /\ \A m \in receipt[a].on : state[m].revision = receipt[a].saved[m]

\* inbox.undoMailboxStates: 404 or 412 otherwise, for the whole action.
UndoStates(a) ==
  /\ Retractable(a)
  /\ Write(receipt[a].on, [m \in Members |-> Reinstated(a, m)], {})
  /\ receipt' = [receipt EXCEPT ![a].status = "retracted"]

Undo(a) ==
  /\ UndoStates(a)
  /\ \A m \in Members : state[m].revision < MaxRevision
  /\ UNCHANGED <<mail, available, clock, command, shown>>

\* inbox.setMailboxState with the revision the row still has; what the input leaves out stays,
\* and a reminder has to lie ahead.
SetState(m, done, until) ==
  /\ m \in available
  /\ until \in {0, state[m].until} \/ until > clock
  /\ state[m].revision < MaxRevision
  /\ Write({m}, [n \in Members |-> [done |-> done, until |-> until, woke |-> FALSE, revision |-> state[m].revision + 1]], {})
  /\ UNCHANGED <<mail, available, clock, command, receipt, shown>>

----------------------------------------------------------------------------
(* The rest of the system. *)

\* Mutant: a reminder is due only after its instant.
DueLater == {m \in Members : state[m].until # 0 /\ state[m].until < clock}

DueMembers == {m \in Members : state[m].until # 0 /\ state[m].until <= clock}

\* processDue wakes every reminder whose instant has passed.
WakeDue ==
  /\ DueMembers # {}
  /\ Write(DueMembers, [m \in Members |-> [state[m] EXCEPT !.until = 0, !.woke = TRUE, !.revision = @ + 1]], {})
  /\ UNCHANGED <<mail, available, clock, command, receipt, shown>>

Tick == clock < Horizon /\ clock' = clock + 1 /\ UNCHANGED <<rowVars, mail, available, command, receipt, shown>>

\* A synchronisation or a mutation changes the message.
MailChanges(m) ==
  /\ mail[m] < MaxMail
  /\ mail' = [mail EXCEPT ![m] = @ + 1]
  /\ UNCHANGED <<rowVars, available, clock, command, receipt, shown>>

\* The message is deleted or its mailbox detached; a mailbox attached again finds its rows.
Vanishes(m) == m \in available /\ available' = available \ {m} /\ UNCHANGED <<rowVars, mail, clock, command, receipt, shown>>
Returns(m) == m \notin available /\ available' = available \cup {m} /\ UNCHANGED <<rowVars, mail, clock, command, receipt, shown>>

Next ==
  \/ \E a \in Actions :
       \/ \E ms \in SUBSET Members, done \in Marks, until \in Instants, checked \in BOOLEAN :
            Compose(a, ms, done, until, checked)
       \/ Apply(a)
       \/ Undo(a)
  \/ \E m \in Members :
       \/ \E done \in BOOLEAN, until \in Instants : SetState(m, done, until)
       \/ MailChanges(m)
       \/ Vanishes(m)
       \/ Returns(m)
  \/ WakeDue
  \/ Tick

Spec == Init /\ [][Next]_vars

----------------------------------------------------------------------------
(* Properties. *)

JustApplied(a) == receipt[a].status = "none" /\ receipt'[a].status = "applied"
JustRetracted(a) == receipt[a].status = "applied" /\ receipt'[a].status = "retracted"

\* An action that is applied was composed from the newest write of every membership it changes:
\* no write that came between the client's read and its action is lost, however many undos,
\* wakes and other actions passed (setMailboxStates' revision check, setMailboxState,
\* undoMailboxStates and the wake, which all have to move the revision on).
WritesSeeTheLatest ==
  [][\A a \in Actions : JustApplied(a) => \A m \in command[a].on : version[m] = shown[a][m].version]_vars

\* An action is taken back only while each of its memberships still stands as the action left
\* it: "Undo did not overwrite it" (undoMailboxStates).
UndoOverwritesNothing ==
  [][\A a \in Actions : JustRetracted(a) => \A m \in receipt[a].on : writer[m] = {a}]_vars

\* Taking an action back shows the client what it was looking at when it composed the action:
\* done, the reminder and its wake instant (undoMailboxStates restoring before_states).
UndoShowsTheOriginal ==
  [][\A a \in Actions : JustRetracted(a) =>
       \A m \in receipt[a].on : [state'[m] EXCEPT !.revision = 0] = [shown[a][m].state EXCEPT !.revision = 0]]_vars

\* A reminder whose instant has passed, also one that an undo put back, does not stay set for
\* ever (processDue's wake).
RemindersReturn ==
  \A m \in Members : state[m].until \in 1..clock ~> state[m].until \notin 1..clock

----------------------------------------------------------------------------
(* Fairness: start() runs processDue every second. *)

FairSpec == Spec /\ WF_vars(WakeDue)

=============================================================================
