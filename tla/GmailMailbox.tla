---------------------------- MODULE GmailMailbox ----------------------------
(***************************************************************************)
(* The mailbox at the provider and what the Gmail adapter reads from it    *)
(* (packages/inbox-sdk/server/sdk/gmail.ts).  The mailbox is a set of      *)
(* messages and a log of history records; a record's id is its position.   *)
(* The version of a message is the id of the last record about it.         *)
(***************************************************************************)
EXTENDS Integers, Sequences, FiniteSets, FiniteSetsExt

CONSTANTS
  Messages,   \* messages by age: Gmail lists the largest first
  Imported,   \* those that are in the mailbox from the beginning
  MaxHistory, \* bound: history records
  PageSize    \* messages and history records a request returns

ASSUME MailboxAssumption ==
  /\ Messages \subseteq Nat \ {0} /\ IsFiniteSet(Messages) /\ Imported \subseteq Messages
  /\ MaxHistory \in Nat /\ PageSize \in Nat \ {0}

VARIABLE mailbox \* the mailbox at Google: its messages and its history

History == 0..MaxHistory

MailboxInit == mailbox = [present |-> Imported, log |-> <<>>]

HistoryId == Len(mailbox.log)

MailboxTypeOK == mailbox \in [present : SUBSET Messages, log : Seq(Messages)] /\ HistoryId \in History

\* Records about m in (from, to].
Records(m, from, to) == {i \in (from + 1)..to : mailbox.log[i] = m}
Version(m, to) == Max({0} \cup Records(m, 0, to))

Record(m, present) ==
  /\ HistoryId < MaxHistory
  /\ mailbox' = [mailbox EXCEPT !.log = Append(@, m), !.present = present]

\* Mail arrives, is changed or deleted at Google; a deleted message does not return.
MailboxChanges ==
  \E m \in Messages :
    \/ Version(m, HistoryId) = 0 /\ m \notin Imported /\ Record(m, mailbox.present \cup {m})
    \/ m \in mailbox.present /\ (Record(m, mailbox.present) \/ Record(m, mailbox.present \ {m}))

----------------------------------------------------------------------------
(* Cursors and pages. *)

Null == [kind |-> "null", value |-> 0, token |-> 0]
PageCursor(history, token) == [kind |-> "page", value |-> history, token |-> token]
HistoryCursor(history, token) == [kind |-> "history", value |-> history, token |-> token]

\* hydrate: what is gone by now is left out.
Hydrated(ms) == [m \in ms \cap mailbox.present |-> Version(m, HistoryId)]

\* fullSync: the next messages of the listing, with the history id that was read before the first.
FullPage(history, token) ==
  LET below == {m \in mailbox.present : token = 0 \/ m < token}
      listed == {m \in below : Cardinality({n \in below : n >= m}) <= PageSize}
      more == below # listed
  IN  [messages |-> Hydrated(listed), deleted |-> {}, full |-> TRUE, more |-> more,
       next |-> IF more THEN PageCursor(history, Min(listed)) ELSE HistoryCursor(history, 0),
       recent |-> HistoryCursor(history, 0)]

\* sync with a history cursor: the next records, and the messages as they are now.
DeltaPage(cursor) ==
  LET from == cursor.value + cursor.token
      to == Min({from + PageSize, HistoryId})
      touched == {mailbox.log[i] : i \in (from + 1)..to}
      more == to < HistoryId
  IN  [messages |-> Hydrated(touched), deleted |-> {m \in touched \ mailbox.present : Version(m, HistoryId) <= to}, full |-> FALSE, more |-> more,
       next |-> IF more THEN HistoryCursor(cursor.value, cursor.token + PageSize) ELSE HistoryCursor(HistoryId, 0),
       recent |-> Null]

=============================================================================
