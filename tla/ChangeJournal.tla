--------------------------- MODULE ChangeJournal ---------------------------
(***************************************************************************)
(* The change journal of packages/inbox-sdk/src/core.ts: every transaction *)
(* that changes something an owner can see appends rows to sdk_events and  *)
(* moves sdk_states.seq; only the newest Retention rows are kept, and      *)
(* floor tells where the kept ones begin.  A state token names a seq; a    *)
(* page of changes resumes after it or asks for a reset.                   *)
(*                                                                         *)
(* The module follows one owner.  Sequence numbers are drawn from one      *)
(* counter for all owners (AUTOINCREMENT), so one owner's have gaps.       *)
(***************************************************************************)
EXTENDS Integers, FiniteSets

CONSTANTS
  Retention,   \* events kept per owner (10 000)
  PageSize,    \* events in a page (inbox.changes' limit)
  Burst,       \* bound: events of one transaction
  MaxSeq       \* bound: sequence numbers drawn

ASSUME JournalAssumption ==
  Retention \in Nat \ {0} /\ PageSize \in Nat \ {0} /\ Burst \in Nat \ {0} /\ MaxSeq \in Nat

VARIABLES
  counter,  \* sqlite_sequence of sdk_events
  events,   \* the owner's rows of sdk_events
  head,     \* sdk_states.seq, 0 without a row
  floor,    \* sdk_states.floor
  log       \* history: every event the owner ever had

journalVars == <<counter, events, head, floor, log>>

Seqs == Nat
NoToken == -1                         \* no token given
Tokens == Seqs \cup {NoToken}

JournalTypeOK ==
  /\ counter \in Seqs /\ head \in Seqs /\ floor \in Seqs
  /\ events \in SUBSET Seqs /\ log \in SUBSET Seqs

JournalInit == counter = 0 /\ events = {} /\ head = 0 /\ floor = 0 /\ log = {}

Above(set, seq) == {e \in set : e > seq}

\* The newest Retention rows stay, and floor moves to the first row that does not.
Pruned(rows) ==
  \/ /\ Cardinality(rows) <= Retention
     /\ events' = rows /\ floor' = floor
  \/ \E cut \in rows :
       /\ Cardinality(Above(rows, cut)) = Retention
       /\ events' = Above(rows, cut) /\ floor' = cut

\* A committed transaction with n calls of event().
Commits(n) ==
  LET new == counter + 1 .. counter + n IN
  /\ counter + n <= MaxSeq
  /\ counter' = counter + n /\ head' = counter + n
  /\ log' = log \cup new
  /\ Pruned(events \cup new)

\* Another owner draws a sequence number.
OthersCommit ==
  /\ counter < MaxSeq
  /\ counter' = counter + 1
  /\ UNCHANGED <<events, head, floor, log>>

----------------------------------------------------------------------------
(* inbox.changes. *)

Pages == [events : SUBSET Seqs, more : BOOLEAN, reset : BOOLEAN, state : Seqs]

\* The rows after a token, and as many of them as fit a page.
Rows(since) == {e \in events : since < e /\ e <= head}
FirstOf(rows) == {e \in rows : Cardinality({f \in rows : f < e}) < PageSize}

\* Only a token from the future is refused.
ExpiredAhead(since) == since > head
Expired(since) == since < floor \/ since > head

\* The page of a follower without a place, or whose place has expired: the current state.
StartPage(since) == [events |-> {}, more |-> FALSE, reset |-> since # NoToken, state |-> head]

\* The page that inbox.changes answers (one, in a set): the state of a page that is not the
\* last is its last event.
PagesAfter(since) ==
  LET rows == Rows(since)
      first == FirstOf(rows)
  IN IF since = NoToken \/ Expired(since) THEN {StartPage(since)}
     ELSE IF first = rows THEN {[events |-> rows, more |-> FALSE, reset |-> FALSE, state |-> head]}
     ELSE {[events |-> first, more |-> TRUE, reset |-> FALSE, state |-> last] :
             last \in {e \in first : \A f \in first : f <= e}}

----------------------------------------------------------------------------
(* Properties. *)

\* Nothing above the floor is ever lost, whatever was pruned and however transactions and
\* other owners interleaved: a token at or above it can be resumed (transaction's pruning).
NothingAboveFloorIsLost == Above(log, floor) \subseteq events

=============================================================================
