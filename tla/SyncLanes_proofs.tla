-------------------------- MODULE SyncLanes_proofs --------------------------
(***************************************************************************)
(* The store reflects what the latest lane has behind it, and receipts are *)
(* kept, for every mailbox, history, page size and number of overlapping   *)
(* synchronizations.                                                       *)
(*                                                                         *)
(* The mailbox only grows: a record stays, and a message that is gone does *)
(* not return (Grows).  So what a page says remains true of the history it *)
(* was read at: a message it holds is as new as that history, a delta      *)
(* tells what became of every message it has a record of (CallHolds).  The *)
(* lane has come to its cursor, but not beyond a listing under way         *)
(* (Reached), and has seen every record up to there that the code does not *)
(* pass over (Seen).  A page that may still be persisted is as new as the  *)
(* receipts it was not fenced for (PageIsRecent).                          *)
(***************************************************************************)
EXTENDS SyncLanes, FiniteSetTheorems, WellFoundedInduction, TLAPS

\* m had a record and is no longer in the mailbox; such a message does not return.
Dead(m) == m \notin mailbox.present /\ Records(m, 0, HistoryId) # {}

Placed(c) == c \in Cursors /\ c.value <= HistoryId /\ Position(c) <= HistoryId

\* A page read when the history had reached h.
ReadAfter(p, h) ==
  \A m \in DOMAIN p.messages : /\ \A i \in Records(m, 0, h) : i <= p.messages[m]
                               /\ m \in mailbox.present \/ Records(m, h, HistoryId) # {}

PageHolds(p) ==
  /\ DOMAIN p.messages \subseteq Messages
  /\ \A m \in DOMAIN p.messages : p.messages[m] \in 0..HistoryId
  /\ Placed(p.next) /\ Placed(p.recent)

\* A listing leaves the history id it began with to the latest lane.
ListingHolds(p) ==
  /\ p.recent.kind = "history" /\ p.recent.token = 0 /\ p.deleted = {}
  /\ p.more => p.next.kind = "page" /\ p.next.value = p.recent.value
  /\ ReadAfter(p, p.recent.value)

\* A delta tells what became of every message it has a record of.
DeltaHolds(p, from) ==
  LET to == Position(p.next) IN
  /\ p.next.kind = "history"
  /\ ReadAfter(p, to)
  /\ \A m \in p.deleted : m \in Messages /\ Dead(m)
  /\ \A m \in Messages : Records(m, from, to) # {} =>
       m \in DOMAIN p.messages \/ m \in p.deleted \/ (Dead(m) /\ Records(m, to, HistoryId) # {})

CallHolds(k, c) ==
  /\ c.phase \in {"idle", "asking", "listing", "fetched"} /\ "phase" \in DOMAIN c
  /\ c.phase # "idle" =>
       /\ Placed(c.input) /\ c.fenced \subseteq Messages /\ {"input", "fenced"} \subseteq DOMAIN c
       /\ c.input.kind \in CASE k = "latest" -> {"null", "history"} [] k = "reset" -> {"null"} [] OTHER -> {"null", "page"}
       /\ c.input.kind = "history" => checkpoint["latest"].kind = "history"
  /\ c.phase = "listing" => c.history \in 0..HistoryId /\ "history" \in DOMAIN c /\ c.input = Null
  /\ c.phase = "fetched" =>
       /\ PageHolds(c.page) /\ "page" \in DOMAIN c
       /\ IF c.page.full THEN ListingHolds(c.page) ELSE c.input.kind = "history" /\ DeltaHolds(c.page, Position(c.input))

\* A page that may be persisted is as new as the receipts it was not fenced for.
PageIsRecent(k, c) ==
  k # "backfill" /\ c.phase = "fetched" =>
    \A m \in DOMAIN c.page.messages \ c.fenced : c.page.messages[m] >= receipt[m]

RowHolds(m) ==
  /\ receipt[m] \in {0} \cup Records(m, 0, HistoryId)
  /\ stored[m].version <= HistoryId
  /\ change[m].phase = "applied" => change[m].version \in Records(m, 0, HistoryId)
  /\ stored[m].state = "none" => receipt[m] = 0 /\ change[m].phase = "none"
  /\ stored[m].state = "present" => stored[m].version >= receipt[m]
  /\ stored[m].state = "deleted" => Dead(m)

\* What is known of m when the lane has come to q.
Seen(m, q) ==
  \A i \in Records(m, base, q) : i > skipped[m] =>
    /\ m \in mailbox.present => stored[m].state = "present" /\ stored[m].version >= i
    /\ m \notin mailbox.present /\ stored[m].state = "present" => Records(m, q, HistoryId) # {}

\* The lane has come to its cursor, but not beyond a listing of old mail that is under way.
Reached(q) ==
  /\ q \in 0..Position(checkpoint["latest"])
  /\ checkpoint["backfill"].kind = "page" => q <= checkpoint["backfill"].value

SyncInv ==
  /\ TypeOK
  /\ call = [k \in Keys |-> call[k]]
  /\ \A c \in {checkpoint["latest"], checkpoint["backfill"]} : Placed(c)
  /\ checkpoint["latest"].kind \in {"absent", "history"} /\ checkpoint["backfill"].kind \in {"absent", "null", "page"}
  /\ base <= HistoryId
  /\ \A m \in Messages : RowHolds(m)
  /\ \A k \in Keys : \A c \in {call[k]} : CallHolds(k, c) /\ PageIsRecent(k, c)
  /\ \A m \in Messages, q \in History : Reached(q) => Seen(m, q)

----------------------------------------------------------------------------
(* Numbers. *)

\* Sets of naturals have a minimum, bounded ones a maximum.
LEMMA MinOfNaturals ==
  ASSUME NEW S \in SUBSET Nat, S # {}
  PROVE  Min(S) \in S /\ \A x \in S : Min(S) <= x
<1> DEFINE Upto(x) == 0..x
           T == {Upto(x) : x \in S}
<1>1. IsWellFoundedOn(StrictSubsetOrdering(Nat), FiniteSubsetsOf(Nat))
  BY FS_StrictSubsetOrderingWellFounded
<1>2. T \subseteq FiniteSubsetsOf(Nat) /\ T # {}
  <2>1. \A x \in S : Upto(x) \subseteq Nat /\ IsFiniteSet(Upto(x))
    BY FS_Interval
  <2> QED BY <2>1 DEF FiniteSubsetsOf
<1>3. PICK A \in T : \A B \in T : ~ (<<B, A>> \in StrictSubsetOrdering(Nat))
  <2> HIDE DEF T
  <2> QED BY <1>1, <1>2, WFMin
<1>4. PICK x \in S : A = Upto(x)
  OBVIOUS
<1>5. \A y \in S : x <= y
  <2> SUFFICES ASSUME NEW y \in S, y < x PROVE FALSE
    OBVIOUS
  <2>1. Upto(y) \subseteq Upto(x) /\ Upto(y) # Upto(x) /\ Upto(x) \subseteq Nat
    OBVIOUS
  <2>2. <<Upto(y), Upto(x)>> \in StrictSubsetOrdering(Nat)
    <3> HIDE DEF Upto
    <3> QED BY <2>1 DEF StrictSubsetOrdering
  <2> QED BY <1>3, <1>4, <2>2
<1> QED BY <1>5 DEF Min

LEMMA MaxOfNaturals ==
  ASSUME NEW N \in Nat, NEW S \in SUBSET (0..N), S # {}
  PROVE  Max(S) \in S /\ \A x \in S : x <= Max(S)
<1> DEFINE T == {N - x : x \in S}
<1>1. T \in SUBSET Nat /\ T # {}
  <2>1. \A x \in S : N - x \in Nat
    OBVIOUS
  <2> QED BY <2>1
<1>2. PICK x \in S : Min(T) = N - x
  BY <1>1, MinOfNaturals
<1>3. \A y \in S : N - x <= N - y
  <2> SUFFICES ASSUME NEW y \in S PROVE N - x <= N - y
    OBVIOUS
  <2>1. N - y \in T
    OBVIOUS
  <2> HIDE DEF T
  <2> QED BY <1>1, <1>2, <2>1, MinOfNaturals
<1>4. \A y \in S : x >= y
  BY <1>3
<1> QED BY <1>4 DEF Max

LEMMA RecordsAreNumbers ==
  ASSUME NEW m, NEW from \in Nat, NEW to \in Nat
  PROVE  Records(m, from, to) \in SUBSET ((from + 1)..to)
BY DEF Records

\* The version of a message is the last record about it.
LEMMA VersionIsLast ==
  ASSUME MailboxTypeOK, NEW m, NEW to \in History
  PROVE  /\ Version(m, to) \in 0..to
         /\ Version(m, to) \in {0} \cup Records(m, 0, to)
         /\ \A i \in Records(m, 0, to) : i <= Version(m, to)
<1>1. to \in Nat /\ to <= MaxHistory
  BY MailboxAssumption DEF History
<1>2. {0} \cup Records(m, 0, to) \in SUBSET (0..to)
  BY <1>1, RecordsAreNumbers
<1> QED BY <1>1, <1>2, MaxOfNaturals DEF Version

----------------------------------------------------------------------------
(* The mailbox only grows. *)

\* What a step leaves of the mailbox.
Grows ==
  /\ MailboxTypeOK /\ MailboxTypeOK' /\ HistoryId <= HistoryId'
  /\ \A n \in Messages, from \in Nat, to \in 0..HistoryId : Records(n, from, to)' = Records(n, from, to)
  /\ \A n \in Messages, h \in 0..HistoryId :
       /\ Records(n, h, HistoryId) \subseteq Records(n, h, HistoryId)'
       /\ n \in mailbox.present \ mailbox'.present => Records(n, h, HistoryId)' # {}
  /\ \A n \in Messages : n \in mailbox'.present \ mailbox.present => Records(n, 0, HistoryId) = {}

\* A record that does not bring a message back lets the mailbox grow.
LEMMA RecordGrows ==
  ASSUME MailboxTypeOK, NEW m \in Messages, NEW present \in SUBSET Messages, Record(m, present),
         present \subseteq mailbox.present \cup {m}, mailbox.present \subseteq present \cup {m},
         m \in mailbox.present \/ Records(m, 0, HistoryId) = {}
  PROVE  Grows /\ HistoryId' = HistoryId + 1 /\ \A h \in 0..HistoryId : HistoryId + 1 \in Records(m, h, HistoryId)'
<1>1. /\ mailbox.log \in Seq(Messages) /\ mailbox.present \in SUBSET Messages /\ HistoryId \in Nat /\ HistoryId + 1 \in History
      /\ mailbox = [present |-> mailbox.present, log |-> mailbox.log]
  BY MailboxAssumption DEF MailboxTypeOK, Record, HistoryId, History
<1>2. /\ mailbox' = [present |-> present, log |-> Append(mailbox.log, m)]
      /\ mailbox'.present = present /\ mailbox'.log = Append(mailbox.log, m)
  BY <1>1 DEF Record
<1>3. /\ Len(Append(mailbox.log, m)) = Len(mailbox.log) + 1 /\ Append(mailbox.log, m) \in Seq(Messages)
      /\ \A i \in 1..Len(mailbox.log) : Append(mailbox.log, m)[i] = mailbox.log[i]
      /\ Append(mailbox.log, m)[Len(mailbox.log) + 1] = m
  BY <1>1
<1>4. HistoryId' = HistoryId + 1
  BY <1>2, <1>3 DEF HistoryId
<1>5. MailboxTypeOK'
  BY <1>1, <1>2, <1>3, <1>4 DEF MailboxTypeOK
<1>6. ASSUME NEW n, NEW from \in Nat, NEW to \in 0..HistoryId
      PROVE  Records(n, from, to)' = Records(n, from, to)
  BY <1>1, <1>2, <1>3 DEF Records, HistoryId
<1>7. ASSUME NEW n, NEW h \in 0..HistoryId
      PROVE  Records(n, h, HistoryId) \subseteq Records(n, h, HistoryId)'
  BY <1>1, <1>2, <1>3, <1>4 DEF Records, HistoryId
<1>8. ASSUME NEW h \in 0..HistoryId
      PROVE  HistoryId + 1 \in Records(m, h, HistoryId)'
  BY <1>1, <1>2, <1>3, <1>4 DEF Records, HistoryId
<1>9. \A n \in Messages : n \in mailbox.present \ mailbox'.present => n = m
  BY <1>2
<1>10. \A n \in Messages : n \in mailbox'.present \ mailbox.present => Records(n, 0, HistoryId) = {}
  BY <1>2
<1>11. \A n \in Messages, h \in 0..HistoryId :
         n \in mailbox.present \ mailbox'.present => Records(n, h, HistoryId)' # {}
  BY <1>8, <1>9
<1>12. HistoryId <= HistoryId'
  BY <1>1, <1>4
<1> QED BY <1>4, <1>5, <1>6, <1>7, <1>8, <1>10, <1>11, <1>12 DEF Grows

LEMMA StillGrows ==
  ASSUME MailboxTypeOK, UNCHANGED mailbox
  PROVE  Grows
<1>1. HistoryId \in Nat
  BY MailboxAssumption DEF MailboxTypeOK, History
<1> QED BY <1>1 DEF Grows, MailboxTypeOK, Records, HistoryId

LEMMA MailboxGrows ==
  ASSUME MailboxTypeOK, MailboxChanges
  PROVE  Grows
<1>1. PICK m \in Messages :
        \/ Version(m, HistoryId) = 0 /\ m \notin Imported /\ Record(m, mailbox.present \cup {m})
        \/ m \in mailbox.present /\ (Record(m, mailbox.present) \/ Record(m, mailbox.present \ {m}))
  BY DEF MailboxChanges
<1>2. mailbox.present \in SUBSET Messages /\ HistoryId \in History /\ HistoryId \in Nat
  BY MailboxAssumption DEF MailboxTypeOK, History
<1>3. Version(m, HistoryId) = 0 => Records(m, 0, HistoryId) = {}
  <2>1. \A i \in Records(m, 0, HistoryId) : i \in Nat /\ i >= 1 /\ i <= Version(m, HistoryId)
    BY <1>2, VersionIsLast, RecordsAreNumbers
  <2> QED BY <2>1
<1>4. CASE Version(m, HistoryId) = 0 /\ m \notin Imported /\ Record(m, mailbox.present \cup {m})
  BY <1>2, <1>3, <1>4, RecordGrows
<1>5. CASE m \in mailbox.present /\ Record(m, mailbox.present)
  BY <1>2, <1>5, RecordGrows
<1>6. CASE m \in mailbox.present /\ Record(m, mailbox.present \ {m})
  BY <1>2, <1>6, RecordGrows
<1> QED BY <1>1, <1>4, <1>5, <1>6

LEMMA DeadStays ==
  ASSUME Grows, NEW m \in Messages, Dead(m)
  PROVE  Dead(m)'
<1>1. HistoryId \in Nat /\ 0 \in 0..HistoryId
  BY MailboxAssumption DEF Grows, MailboxTypeOK, History
<1>2. Records(m, 0, HistoryId) # {} /\ Records(m, 0, HistoryId) \subseteq Records(m, 0, HistoryId)'
  BY <1>1 DEF Grows, Dead
<1> QED BY <1>2 DEF Grows, Dead

LEMMA ReadAfterStays ==
  ASSUME Grows, NEW p, NEW h \in 0..HistoryId, DOMAIN p.messages \subseteq Messages, ReadAfter(p, h)
  PROVE  ReadAfter(p, h)'
<1> SUFFICES ASSUME NEW m \in DOMAIN p.messages
             PROVE  /\ \A i \in Records(m, 0, h)' : i <= p.messages[m]
                    /\ m \in mailbox'.present \/ Records(m, h, HistoryId)' # {}
  BY DEF ReadAfter
<1>1. Records(m, 0, h)' = Records(m, 0, h)
  BY DEF Grows
<1>2. m \in mailbox.present \/ Records(m, h, HistoryId) # {}
  BY DEF ReadAfter
<1>3. m \in mailbox'.present \/ Records(m, h, HistoryId)' # {}
  BY <1>2 DEF Grows
<1> QED BY <1>1, <1>3 DEF ReadAfter

LEMMA PlacedStays ==
  ASSUME Grows, NEW c, Placed(c)
  PROVE  Placed(c)'
<1>1. HistoryId \in Nat /\ HistoryId' \in Nat /\ HistoryId <= HistoryId'
  BY MailboxAssumption DEF Grows, MailboxTypeOK, History
<1>2. c.value \in Nat /\ c.token \in Nat /\ Position(c) \in Nat
  BY MailboxAssumption DEF Placed, Cursors, Position, History
<1> QED BY <1>1, <1>2 DEF Placed

LEMMA PlacedNumbers ==
  ASSUME MailboxTypeOK, NEW c, Placed(c)
  PROVE  c.value \in 0..HistoryId /\ c.token \in Nat /\ Position(c) \in 0..HistoryId /\ HistoryId \in Nat
<1>1. HistoryId \in Nat
  BY MailboxAssumption DEF MailboxTypeOK, History
<1>2. c.value \in Nat /\ c.token \in Nat /\ Position(c) \in Nat
  BY MailboxAssumption DEF Placed, Cursors, Position, History
<1> QED BY <1>1, <1>2 DEF Placed

\* What holds of a call stays true while the mailbox grows and the latest lane keeps a cursor.
LEMMA CallStays ==
  ASSUME Grows, NEW k \in Keys, NEW c, CallHolds(k, c),
         checkpoint["latest"].kind = "history" => checkpoint'["latest"].kind = "history"
  PROVE  CallHolds(k, c)'
<1>1. MailboxTypeOK /\ HistoryId \in Nat /\ HistoryId' \in Nat /\ HistoryId <= HistoryId'
  BY MailboxAssumption DEF Grows, MailboxTypeOK, History
<1>2. c.phase # "idle" => Placed(c.input)'
  BY PlacedStays DEF CallHolds
<1>3. c.phase = "listing" => c.history \in 0..HistoryId'
  BY <1>1 DEF CallHolds
<1>4. ASSUME c.phase = "fetched"
      PROVE  /\ PageHolds(c.page)'
             /\ IF c.page.full THEN ListingHolds(c.page)' ELSE c.input.kind = "history" /\ DeltaHolds(c.page, Position(c.input))'
  <2>1. PageHolds(c.page) /\ Placed(c.input)
    BY <1>4 DEF CallHolds
  <2>2. PageHolds(c.page)'
    <3>1. Placed(c.page.next)' /\ Placed(c.page.recent)'
      BY <2>1, PlacedStays DEF PageHolds
    <3>2. \A m \in DOMAIN c.page.messages : c.page.messages[m] \in 0..HistoryId'
      BY <1>1, <2>1 DEF PageHolds
    <3> QED BY <2>1, <3>1, <3>2 DEF PageHolds
  <2>3. CASE c.page.full
    <3>1. ListingHolds(c.page)
      BY <1>4, <2>3 DEF CallHolds
    <3>2. c.page.recent.value \in 0..HistoryId
      BY <1>1, <2>1, PlacedNumbers DEF PageHolds
    <3>3. ReadAfter(c.page, c.page.recent.value)'
      BY <2>1, <3>1, <3>2, ReadAfterStays DEF ListingHolds, PageHolds
    <3> QED BY <2>2, <2>3, <3>1, <3>3 DEF ListingHolds
  <2>4. CASE ~ c.page.full
    <3>1. PICK from : from = Position(c.input)
      OBVIOUS
    <3>2. PICK to : to = Position(c.page.next)
      OBVIOUS
    <3>3. from \in 0..HistoryId /\ to \in 0..HistoryId
      BY <1>1, <2>1, <3>1, <3>2, PlacedNumbers DEF PageHolds
    <3>4. c.input.kind = "history" /\ DeltaHolds(c.page, from)
      BY <1>4, <2>4, <3>1 DEF CallHolds
    <3>5. ReadAfter(c.page, to)'
      BY <2>1, <3>2, <3>3, <3>4, ReadAfterStays DEF DeltaHolds, PageHolds
    <3>6. \A m \in c.page.deleted : m \in Messages /\ Dead(m)'
      BY <3>4, DeadStays DEF DeltaHolds
    <3>7. ASSUME NEW m \in Messages, Records(m, from, to)' # {}, m \notin DOMAIN c.page.messages, m \notin c.page.deleted
          PROVE  Dead(m)' /\ Records(m, to, HistoryId)' # {}
      <4>1. Records(m, from, to) # {}
        BY <1>1, <3>3, <3>7 DEF Grows
      <4>2. Dead(m) /\ Records(m, to, HistoryId) # {}
        BY <3>2, <3>4, <3>7, <4>1 DEF DeltaHolds
      <4> QED BY <3>3, <4>2, DeadStays DEF Grows
    <3>8. DeltaHolds(c.page, from)'
      BY <3>2, <3>4, <3>5, <3>6, <3>7 DEF DeltaHolds
    <3> QED BY <2>2, <2>4, <3>1, <3>4, <3>8
  <2> QED BY <2>3, <2>4
<1>5. (c.phase # "idle" /\ c.input.kind = "history") => checkpoint'["latest"].kind = "history"
  BY DEF CallHolds
<1> QED BY <1>2, <1>3, <1>4, <1>5 DEF CallHolds

\* What the lane has seen of a message, it has seen when the mailbox has grown.
LEMMA SeenStays ==
  ASSUME Grows, NEW m \in Messages, NEW q \in 0..HistoryId, base \in Nat, Seen(m, q),
         UNCHANGED <<stored, base, skipped>>
  PROVE  Seen(m, q)'
<1> SUFFICES ASSUME NEW i \in Records(m, base, q)', i > skipped[m]
             PROVE  /\ m \in mailbox'.present => stored[m].state = "present" /\ stored[m].version >= i
                    /\ m \notin mailbox'.present /\ stored[m].state = "present" => Records(m, q, HistoryId)' # {}
  BY DEF Seen
<1>1. HistoryId \in Nat /\ mailbox.log \in Seq(Messages)
  BY MailboxAssumption DEF Grows, MailboxTypeOK, History
<1>2. i \in Records(m, base, q)
  <2>1. PICK b : b = base
    OBVIOUS
  <2>2. Records(m, b, q)' = Records(m, b, q)
    BY <2>1 DEF Grows
  <2> QED BY <2>1, <2>2 DEF Records
<1>3. Records(m, 0, HistoryId) # {}
  BY <1>1, <1>2 DEF Records
<1>4. m \in mailbox'.present => m \in mailbox.present
  BY <1>3 DEF Grows
<1>5. m \in mailbox.present \/ Records(m, q, HistoryId) # {} \/ stored[m].state # "present"
  BY <1>2 DEF Seen
<1>6. m \notin mailbox'.present /\ stored[m].state = "present" => Records(m, q, HistoryId)' # {}
  BY <1>5 DEF Grows
<1> QED BY <1>2, <1>4, <1>6 DEF Seen

LEMMA RowStays ==
  ASSUME Grows, NEW m \in Messages, RowHolds(m), stored[m].version \in Nat,
         stored'[m] = stored[m], receipt'[m] = receipt[m], change'[m] = change[m]
  PROVE  RowHolds(m)'
<1>1. HistoryId \in Nat /\ HistoryId' \in Nat /\ HistoryId <= HistoryId'
  BY MailboxAssumption DEF Grows, MailboxTypeOK, History
<1>2. Records(m, 0, HistoryId) \subseteq Records(m, 0, HistoryId)'
  BY <1>1 DEF Grows
<1>3. stored[m].version <= HistoryId'
  BY <1>1 DEF RowHolds
<1>4. stored[m].state = "deleted" => Dead(m)'
  BY DeadStays DEF RowHolds
<1> QED BY <1>2, <1>3, <1>4 DEF RowHolds

----------------------------------------------------------------------------
(* Pages. *)

LEMMA FiniteHasMax ==
  ASSUME NEW S \in SUBSET Nat, IsFiniteSet(S), S # {}
  PROVE  \E x \in S : \A y \in S : y <= x
<1> DEFINE From(x) == {y \in S : x <= y}
           T == {From(x) : x \in S}
<1>1. IsWellFoundedOn(StrictSubsetOrdering(S), FiniteSubsetsOf(S))
  BY FS_StrictSubsetOrderingWellFounded
<1>2. T \subseteq FiniteSubsetsOf(S) /\ T # {}
  <2>1. \A x \in S : From(x) \subseteq S /\ IsFiniteSet(From(x))
    BY FS_Subset
  <2> QED BY <2>1 DEF FiniteSubsetsOf
<1>3. PICK A \in T : \A B \in T : ~ (<<B, A>> \in StrictSubsetOrdering(S))
  <2> HIDE DEF T
  <2> QED BY <1>1, <1>2, WFMin
<1>4. PICK x \in S : A = From(x)
  OBVIOUS
<1>5. \A y \in S : y <= x
  <2> SUFFICES ASSUME NEW y \in S, x < y PROVE FALSE
    OBVIOUS
  <2>1. From(y) \subseteq From(x) /\ From(y) # From(x) /\ From(x) \subseteq S
    <3>1. x \in From(x) /\ x \notin From(y)
      OBVIOUS
    <3>2. \A n \in From(y) : n \in From(x)
      OBVIOUS
    <3>3. From(x) \subseteq S
      OBVIOUS
    <3> HIDE DEF From
    <3> QED BY <3>1, <3>2, <3>3
  <2>2. <<From(y), From(x)>> \in StrictSubsetOrdering(S)
    <3> HIDE DEF From
    <3> QED BY <2>1 DEF StrictSubsetOrdering
  <2> QED BY <1>3, <1>4, <2>2
<1> QED BY <1>5

\* fullSync answers with a page as new as the history id read before it.
LEMMA FullPages ==
  ASSUME MailboxTypeOK, NEW history \in 0..HistoryId, NEW token \in Nat, NEW p, p = FullPage(history, token)
  PROVE  /\ PageHolds(p) /\ p.full /\ ListingHolds(p)
         /\ \A m \in DOMAIN p.messages : p.messages[m] = Version(m, HistoryId)
<1> DEFINE below == {m \in mailbox.present : token = 0 \/ m < token}
           listed == {m \in below : Cardinality({n \in below : n >= m}) <= PageSize}
           more == below # listed
<1>1. /\ mailbox.present \subseteq Messages /\ Messages \subseteq Nat /\ IsFiniteSet(Messages) /\ PageSize \in Nat \ {0}
      /\ HistoryId \in Nat /\ HistoryId \in History /\ MaxHistory \in Nat
  BY MailboxAssumption DEF MailboxTypeOK, History
<1>2. /\ p.messages = Hydrated(listed) /\ p.deleted = {} /\ p.full = TRUE /\ p.more = more
      /\ p.next = IF more THEN PageCursor(history, Min(listed)) ELSE HistoryCursor(history, 0)
      /\ p.recent = HistoryCursor(history, 0)
  BY DEF FullPage
<1>3. more => Min(listed) \in Nat
  <2> SUFFICES ASSUME more PROVE Min(listed) \in Nat
    OBVIOUS
  <2>1. below \in SUBSET Nat /\ IsFiniteSet(below)
    BY <1>1, FS_Subset
  <2>2. listed # {}
    <3> SUFFICES ASSUME listed = {} PROVE FALSE
      OBVIOUS
    <3>1. below # {}
      OBVIOUS
    <3>2. PICK x \in below : \A y \in below : y <= x
      <4> HIDE DEF below
      <4> QED BY <2>1, <3>1, FiniteHasMax
    <3>3. {n \in below : n >= x} = {x}
      <4>1. \A n \in below : n >= x <=> n = x
        <5> HIDE DEF below
        <5> QED BY <2>1, <3>2
      <4> HIDE DEF below
      <4> QED BY <4>1
    <3>4. Cardinality({x}) = 1
      BY FS_Singleton
    <3> QED BY <1>1, <3>3, <3>4
  <2>3. listed \in SUBSET Nat
    BY <2>1
  <2> HIDE DEF listed
  <2> QED BY <2>2, <2>3, MinOfNaturals
<1> HIDE DEF more
<1>4. DOMAIN p.messages \subseteq mailbox.present /\ \A m \in DOMAIN p.messages : p.messages[m] = Version(m, HistoryId)
  BY <1>2 DEF Hydrated
<1>5. \A m \in DOMAIN p.messages : p.messages[m] \in 0..HistoryId
  BY <1>1, <1>4, VersionIsLast
<1>6. Placed(p.next) /\ Placed(p.recent)
  <2>1. history \in History
    BY <1>1 DEF History
  <2>2. PageCursor(history, Min(listed)) \in Cursors \/ ~ more
    BY <1>3, <2>1 DEF PageCursor, Cursors
  <2>3. HistoryCursor(history, 0) \in Cursors
    BY <2>1 DEF HistoryCursor, Cursors
  <2>4. /\ PageCursor(history, Min(listed)).value = history /\ PageCursor(history, Min(listed)).kind = "page"
        /\ HistoryCursor(history, 0).value = history /\ HistoryCursor(history, 0).kind = "history" /\ HistoryCursor(history, 0).token = 0
    BY DEF PageCursor, HistoryCursor
  <2>5. p.next \in Cursors /\ p.next.value = history /\ p.next.kind \in {"page", "history"} /\ (p.next.kind = "history" => p.next.token = 0)
    BY <1>2, <2>2, <2>3, <2>4
  <2> QED BY <1>1, <1>2, <2>3, <2>4, <2>5 DEF Placed, Position
<1>7. PageHolds(p)
  BY <1>1, <1>4, <1>5, <1>6 DEF PageHolds
<1>8. p.recent.kind = "history" /\ p.recent.token = 0 /\ p.recent.value = history
  BY <1>2 DEF HistoryCursor
<1>9. p.more => p.next.kind = "page" /\ p.next.value = history
  BY <1>2 DEF PageCursor
<1>10. ReadAfter(p, history)
  <2>1. \A m \in DOMAIN p.messages : \A i \in Records(m, 0, history) : i <= p.messages[m]
    <3> SUFFICES ASSUME NEW m \in DOMAIN p.messages, NEW i \in Records(m, 0, history) PROVE i <= p.messages[m]
      OBVIOUS
    <3>1. i \in Records(m, 0, HistoryId)
      BY <1>1 DEF Records
    <3> QED BY <1>1, <1>4, <3>1, VersionIsLast
  <2> QED BY <1>4, <2>1 DEF ReadAfter
<1>11. ListingHolds(p)
  BY <1>2, <1>8, <1>9, <1>10 DEF ListingHolds
<1> QED BY <1>2, <1>4, <1>7, <1>11

\* sync answers with a delta that tells of every message it has a record of.
LEMMA DeltaPages ==
  ASSUME MailboxTypeOK, NEW cursor, Placed(cursor), cursor.kind = "history", NEW p, p = DeltaPage(cursor)
  PROVE  /\ PageHolds(p) /\ ~ p.full /\ DeltaHolds(p, Position(cursor))
         /\ \A m \in DOMAIN p.messages : p.messages[m] = Version(m, HistoryId)
<1> DEFINE from == cursor.value + cursor.token
           to == Min({from + PageSize, HistoryId})
           touched == {mailbox.log[i] : i \in (from + 1)..to}
           more == to < HistoryId
<1>1. /\ mailbox.present \subseteq Messages /\ PageSize \in Nat \ {0} /\ mailbox.log \in Seq(Messages)
      /\ HistoryId \in Nat /\ HistoryId \in History /\ MaxHistory \in Nat /\ HistoryId = Len(mailbox.log)
  BY MailboxAssumption DEF MailboxTypeOK, History, HistoryId
<1>2. from = Position(cursor) /\ from \in 0..HistoryId /\ cursor.value \in 0..HistoryId /\ cursor.token \in Nat
  BY PlacedNumbers DEF Position
<1>3. /\ p.messages = Hydrated(touched) /\ p.deleted = {m \in touched \ mailbox.present : Version(m, HistoryId) <= to} /\ p.full = FALSE
      /\ p.next = IF more THEN HistoryCursor(cursor.value, cursor.token + PageSize) ELSE HistoryCursor(HistoryId, 0)
      /\ p.recent = Null
  BY DEF DeltaPage
<1>4. to \in 0..HistoryId /\ (more => to = from + PageSize) /\ (~ more => to = HistoryId)
  <2>1. Min({from + PageSize, HistoryId}) \in {from + PageSize, HistoryId} /\ \A x \in {from + PageSize, HistoryId} : Min({from + PageSize, HistoryId}) <= x
    <3>1. {from + PageSize, HistoryId} \in SUBSET Nat
      BY <1>1, <1>2
    <3> QED BY <3>1, MinOfNaturals
  <2> QED BY <1>1, <1>2, <2>1
<1>5. touched \subseteq Messages
  BY <1>1, <1>2, <1>4
<1>6. /\ p.next \in Cursors /\ p.next.kind = "history" /\ p.next.value <= HistoryId /\ p.next.value + p.next.token = to
  <2>1. CASE more
    <3>1. p.next = [kind |-> "history", value |-> cursor.value, token |-> cursor.token + PageSize]
      BY <1>3, <2>1 DEF HistoryCursor
    <3>2. cursor.value \in History /\ cursor.token + PageSize \in Nat
      BY <1>1, <1>2 DEF History
    <3>3. cursor.value + (cursor.token + PageSize) = to
      BY <1>1, <1>2, <1>4, <2>1
    <3> HIDE DEF from, to
    <3> QED BY <1>2, <3>1, <3>2, <3>3 DEF Cursors
  <2>2. CASE ~ more
    <3>1. p.next = [kind |-> "history", value |-> HistoryId, token |-> 0]
      BY <1>3, <2>2 DEF HistoryCursor
    <3> HIDE DEF to
    <3> QED BY <1>1, <1>4, <2>2, <3>1 DEF Cursors
  <2> QED BY <2>1, <2>2
<1> HIDE DEF more, touched, to
<1>7. Position(p.next) = to
  BY <1>6 DEF Position
<1>8. Placed(p.next) /\ Placed(p.recent)
  <2>1. Null \in Cursors /\ Null.value = 0 /\ Null.kind = "null"
    BY <1>1 DEF Null, Cursors, History
  <2> QED BY <1>1, <1>3, <1>4, <1>6, <1>7, <2>1 DEF Placed, Position
<1>9. /\ DOMAIN p.messages = touched \cap mailbox.present
      /\ \A m \in DOMAIN p.messages : p.messages[m] = Version(m, HistoryId)
  BY <1>3 DEF Hydrated
<1>10. PageHolds(p)
  <2>1. \A m \in DOMAIN p.messages : p.messages[m] \in 0..HistoryId
    BY <1>1, <1>9, VersionIsLast
  <2> QED BY <1>5, <1>8, <1>9, <2>1 DEF PageHolds
<1>11. ReadAfter(p, to)
  <2>1. \A m \in DOMAIN p.messages : \A i \in Records(m, 0, to) : i <= p.messages[m]
    <3> SUFFICES ASSUME NEW m \in DOMAIN p.messages, NEW i \in Records(m, 0, to) PROVE i <= p.messages[m]
      OBVIOUS
    <3>1. i \in Records(m, 0, HistoryId)
      BY <1>1, <1>4 DEF Records
    <3> QED BY <1>1, <1>9, <3>1, VersionIsLast
  <2> QED BY <1>9, <2>1 DEF ReadAfter
<1>12. \A m \in touched : Records(m, 0, HistoryId) # {}
  <2> SUFFICES ASSUME NEW m \in touched PROVE Records(m, 0, HistoryId) # {}
    OBVIOUS
  <2>1. PICK i \in (from + 1)..to : m = mailbox.log[i]
    BY DEF touched
  <2>2. i \in 1..HistoryId
    BY <1>1, <1>2, <1>4, <2>1
  <2>3. i \in Records(m, 0, HistoryId)
    BY <1>1, <2>1, <2>2 DEF Records
  <2> QED BY <2>3
<1>13. \A m \in p.deleted : m \in Messages /\ Dead(m)
  BY <1>3, <1>5, <1>12 DEF Dead
<1>14. ASSUME NEW m \in Messages, Records(m, from, to) # {}, m \notin DOMAIN p.messages, m \notin p.deleted
       PROVE  Dead(m) /\ Records(m, to, HistoryId) # {}
  <2>1. m \in touched
    BY <1>14 DEF Records, touched
  <2>2. m \notin mailbox.present /\ ~ (Version(m, HistoryId) <= to)
    BY <1>3, <1>9, <1>14, <2>1
  <2>3. Version(m, HistoryId) \in 0..HistoryId /\ Version(m, HistoryId) \in {0} \cup Records(m, 0, HistoryId)
    BY <1>1, VersionIsLast
  <2>4. Version(m, HistoryId) \in Records(m, to, HistoryId)
    BY <1>1, <1>4, <2>2, <2>3 DEF Records
  <2> QED BY <1>12, <2>1, <2>2, <2>4 DEF Dead
<1>15. DeltaHolds(p, from)
  BY <1>6, <1>7, <1>11, <1>13, <1>14 DEF DeltaHolds
<1> QED BY <1>2, <1>3, <1>9, <1>10, <1>15

----------------------------------------------------------------------------
(* A synchronization up to its page. *)

\* A step that changes one call only.
LEMMA OneCall ==
  ASSUME SyncInv, NEW k \in Keys, NEW c, CallHolds(k, c), PageIsRecent(k, c), call' = [call EXCEPT ![k] = c],
         UNCHANGED <<mailbox, stored, checkpoint, change, base, skipped, receipt>>
  PROVE  SyncInv'
<1>1. Grows
  BY StillGrows DEF SyncInv, TypeOK
<1>2. call' = [j \in Keys |-> call'[j]] /\ \A j \in Keys : call'[j] = IF j = k THEN c ELSE call[j]
  BY DEF SyncInv
<1>3. ASSUME NEW j \in Keys, NEW d \in {call'[j]}
      PROVE  CallHolds(j, d)' /\ PageIsRecent(j, d)'
  <2>1. CallHolds(j, d) /\ PageIsRecent(j, d)
    BY <1>2, <1>3 DEF SyncInv
  <2>2. CallHolds(j, d)'
    BY <1>1, <2>1, CallStays
  <2> QED BY <2>1, <2>2 DEF PageIsRecent
<1>4. TypeOK'
  <2>1. ASSUME NEW j \in Keys
        PROVE  /\ call'[j].phase \in {"idle", "asking", "listing", "fetched"}
               /\ call'[j].phase # "idle" => call'[j].input \in Cursors /\ call'[j].fenced \subseteq Messages
               /\ call'[j].phase = "listing" => call'[j].history \in History
               /\ call'[j].phase = "fetched" => DOMAIN call'[j].page.messages \subseteq Messages /\ call'[j].page.next \in Cursors
    <3>1. PICK d : d = call'[j]
      OBVIOUS
    <3>2. CallHolds(j, d)
      BY <1>2, <3>1 DEF SyncInv
    <3>3. HistoryId \in History
      BY DEF SyncInv, TypeOK, MailboxTypeOK
    <3> QED BY <3>1, <3>2, <3>3, MailboxAssumption DEF CallHolds, PageHolds, Placed, History
  <2> QED BY <1>1, <2>1 DEF SyncInv, TypeOK, Grows
<1>5. \A m \in Messages : RowHolds(m)'
  BY DEF SyncInv, RowHolds, Dead, Records, HistoryId
<1>6. \A m \in Messages, q \in History : Reached(q)' => Seen(m, q)'
  BY DEF SyncInv, Reached, Seen, Records, HistoryId
<1>7. \A d \in {checkpoint'["latest"], checkpoint'["backfill"]} : Placed(d)'
  BY DEF SyncInv, Placed, HistoryId
<1>8. base' <= HistoryId'
  BY DEF SyncInv, HistoryId
<1> QED BY <1>2, <1>3, <1>4, <1>5, <1>6, <1>7, <1>8 DEF SyncInv

LEMMA ReadPagesAreRecent ==
  ASSUME SyncInv, NEW k \in Keys, NEW c, c.phase = "fetched", DOMAIN c.page.messages \subseteq Messages,
         \A m \in DOMAIN c.page.messages : c.page.messages[m] = Version(m, HistoryId)
  PROVE  PageIsRecent(k, c)
<1> SUFFICES ASSUME NEW m \in DOMAIN c.page.messages
             PROVE  Version(m, HistoryId) >= receipt[m]
  BY DEF PageIsRecent
<1>1. MailboxTypeOK /\ HistoryId \in History /\ HistoryId \in Nat /\ RowHolds(m)
  BY MailboxAssumption DEF SyncInv, TypeOK, MailboxTypeOK, History
<1>2. Version(m, HistoryId) \in 0..HistoryId /\ \A i \in Records(m, 0, HistoryId) : i <= Version(m, HistoryId)
  BY <1>1, VersionIsLast
<1>3. \A i \in Records(m, 0, HistoryId) : i \in Nat
  BY <1>1, RecordsAreNumbers
<1> QED BY <1>1, <1>2, <1>3 DEF RowHolds

LEMMA CallFacts ==
  ASSUME SyncInv, NEW k \in Keys, NEW c, c = call[k]
  PROVE  /\ CallHolds(k, c) /\ PageIsRecent(k, c) /\ MailboxTypeOK /\ HistoryId \in Nat
         /\ c.phase # "idle" => /\ Placed(c.input) /\ c.input.value \in 0..HistoryId /\ c.input.token \in Nat
                                /\ Position(c.input) \in 0..HistoryId
<1>1. CallHolds(k, c) /\ PageIsRecent(k, c) /\ MailboxTypeOK
  BY DEF SyncInv, TypeOK
<1>2. HistoryId \in Nat
  BY <1>1, MailboxAssumption DEF MailboxTypeOK, History
<1>3. c.phase # "idle" => Placed(c.input)
  BY <1>1 DEF CallHolds
<1> QED BY <1>1, <1>2, <1>3, PlacedNumbers

LEMMA NullIsPlaced ==
  ASSUME HistoryId \in Nat
  PROVE  Placed(Null) /\ Null.kind = "null" /\ Null.token = 0
<1>1. Null \in Cursors /\ Null.value = 0 /\ Null.kind = "null" /\ Null.token = 0
  BY MailboxAssumption DEF Null, Cursors, History
<1> QED BY <1>1 DEF Placed, Position

LEMMA CallSteps ==
  ASSUME SyncInv, NEW k \in Keys,
         Begin(k) \/ AskProfile(k) \/ AskList(k) \/ AskHistory(k) \/ CursorRejected(k) \/ Fails(k)
  PROVE  SyncInv'
<1>1. PICK c : c = call[k]
  OBVIOUS
<1>2. /\ CallHolds(k, c) /\ PageIsRecent(k, c) /\ MailboxTypeOK /\ HistoryId \in Nat
      /\ c.phase # "idle" => /\ Placed(c.input) /\ c.input.value \in 0..HistoryId /\ c.input.token \in Nat
                             /\ Position(c.input) \in 0..HistoryId
  BY <1>1, CallFacts
<1>3. UNCHANGED <<mailbox, stored, checkpoint, change, base, skipped, receipt>>
  BY DEF Begin, AskProfile, AskList, AskHistory, CursorRejected, Fails
<1>4. Placed(Null) /\ Null.kind = "null" /\ Null.token = 0
  BY <1>2, NullIsPlaced
<1>5. CASE Begin(k)
  <2>1. PICK input : /\ input = IF k = "reset" \/ checkpoint[Lane(k)].kind = "absent" THEN Null ELSE checkpoint[Lane(k)]
                     /\ call' = [call EXCEPT ![k] = Asking(input)]
    BY <1>5 DEF Begin
  <2>2. Placed(input)
    BY <1>4, <2>1 DEF SyncInv, Lane
  <2>3. /\ input.kind \in CASE k = "latest" -> {"null", "history"} [] k = "reset" -> {"null"} [] OTHER -> {"null", "page"}
        /\ input.kind = "history" => checkpoint["latest"].kind = "history"
    BY <1>4, <2>1 DEF SyncInv, Lane, Keys
  <2>4. CallHolds(k, Asking(input)) /\ PageIsRecent(k, Asking(input))
    BY <2>2, <2>3 DEF Asking, CallHolds, PageIsRecent
  <2> QED BY <1>3, <2>1, <2>4, OneCall
<1>6. CASE AskProfile(k)
  <2>1. PICK d : d = [phase |-> "listing", input |-> Null, history |-> HistoryId, fenced |-> c.fenced]
    OBVIOUS
  <2>2. call' = [call EXCEPT ![k] = d] /\ c.phase = "asking"
    BY <1>1, <1>6, <2>1 DEF AskProfile
  <2>3. Null.kind \in CASE k = "latest" -> {"null", "history"} [] k = "reset" -> {"null"} [] OTHER -> {"null", "page"}
    BY <1>4 DEF Keys
  <2>4. CallHolds(k, d) /\ PageIsRecent(k, d)
    BY <1>2, <1>4, <2>1, <2>2, <2>3 DEF CallHolds, PageIsRecent
  <2> QED BY <1>3, <2>2, <2>4, OneCall
<1>7. CASE AskList(k)
  <2>1. PICK p : p = FullPage(HistoryOfTheListing(k), c.input.token)
    OBVIOUS
  <2>2. PICK d : d = [phase |-> "fetched", page |-> p, fenced |-> c.fenced, input |-> IF p.full THEN Null ELSE c.input]
    OBVIOUS
  <2>3. call' = [call EXCEPT ![k] = d] /\ c.phase \in {"listing", "asking"}
    BY <1>1, <1>7, <2>1, <2>2 DEF AskList, Fetched
  <2>4. HistoryOfTheListing(k) \in 0..HistoryId
    BY <1>1, <1>2, <1>7, <2>3 DEF AskList, HistoryOfTheListing, CallHolds
  <2>5. /\ PageHolds(p) /\ p.full /\ ListingHolds(p)
        /\ \A m \in DOMAIN p.messages : p.messages[m] = Version(m, HistoryId)
    BY <1>2, <2>1, <2>3, <2>4, FullPages
  <2>6. Null.kind \in CASE k = "latest" -> {"null", "history"} [] k = "reset" -> {"null"} [] OTHER -> {"null", "page"}
    BY <1>4 DEF Keys
  <2>7. d.phase = "fetched" /\ d.page = p /\ d.fenced = c.fenced /\ d.input = Null /\ DOMAIN d = {"phase", "page", "fenced", "input"}
    BY <2>2, <2>5
  <2>8. CallHolds(k, d)
    BY <1>2, <1>4, <2>3, <2>5, <2>6, <2>7 DEF CallHolds
  <2>9. PageIsRecent(k, d)
    BY <2>5, <2>7, ReadPagesAreRecent DEF PageHolds
  <2> QED BY <1>3, <2>3, <2>8, <2>9, OneCall
<1>8. CASE AskHistory(k)
  <2>1. PICK p : p = DeltaPage(c.input)
    OBVIOUS
  <2>2. PICK d : d = [phase |-> "fetched", page |-> p, fenced |-> c.fenced, input |-> IF p.full THEN Null ELSE c.input]
    OBVIOUS
  <2>3. call' = [call EXCEPT ![k] = d] /\ c.phase = "asking" /\ c.input.kind = "history"
    BY <1>1, <1>8, <2>1, <2>2 DEF AskHistory, Fetched
  <2>4. /\ PageHolds(p) /\ ~ p.full /\ DeltaHolds(p, Position(c.input))
        /\ \A m \in DOMAIN p.messages : p.messages[m] = Version(m, HistoryId)
    BY <1>2, <2>1, <2>3, DeltaPages
  <2>5. d.phase = "fetched" /\ d.page = p /\ d.fenced = c.fenced /\ d.input = c.input /\ DOMAIN d = {"phase", "page", "fenced", "input"}
    BY <2>2, <2>4
  <2>6. CallHolds(k, d)
    BY <1>2, <2>3, <2>4, <2>5 DEF CallHolds
  <2>7. PageIsRecent(k, d)
    BY <2>4, <2>5, ReadPagesAreRecent DEF PageHolds
  <2> QED BY <1>3, <2>3, <2>6, <2>7, OneCall
<1>9. CASE CursorRejected(k)
  <2>1. PICK d : d = [c EXCEPT !.input = Null]
    OBVIOUS
  <2>2. call' = [call EXCEPT ![k] = d] /\ c.phase = "asking"
    BY <1>1, <1>9, <2>1 DEF CursorRejected
  <2>3. Null.kind \in CASE k = "latest" -> {"null", "history"} [] k = "reset" -> {"null"} [] OTHER -> {"null", "page"}
    BY <1>4 DEF Keys
  <2>4. d.phase = "asking" /\ d.fenced = c.fenced /\ d.input = Null /\ DOMAIN d = DOMAIN c
    BY <1>2, <2>1, <2>2 DEF CallHolds
  <2>5. CallHolds(k, d) /\ PageIsRecent(k, d)
    BY <1>2, <1>4, <2>2, <2>3, <2>4 DEF CallHolds, PageIsRecent
  <2> QED BY <1>3, <2>2, <2>5, OneCall
<1>10. CASE Fails(k)
  <2>1. call' = [call EXCEPT ![k] = Idle]
    BY <1>10 DEF Fails
  <2>2. CallHolds(k, Idle) /\ PageIsRecent(k, Idle)
    BY DEF Idle, CallHolds, PageIsRecent
  <2> QED BY <1>3, <2>1, <2>2, OneCall
<1> QED BY <1>5, <1>6, <1>7, <1>8, <1>9, <1>10

----------------------------------------------------------------------------
(* The mailbox and local changes. *)

IsCalls(calls) == calls = [j \in Keys |-> calls[j]]

\* What a raised fence leaves of a call.
Fenced(k, c, d, ms) ==
  /\ CallHolds(k, d) /\ d.phase = c.phase
  /\ k # "backfill" /\ c.phase # "idle" => d.fenced = c.fenced \cup ms
  /\ c.phase = "fetched" => d.page = c.page

LEMMA FencedCalls ==
  ASSUME NEW calls, IsCalls(calls), NEW ms \in SUBSET Messages,
         NEW k \in Keys, NEW c, c = calls[k], CallHolds(k, c), NEW d, d = FencedFor(calls, ms)[k]
  PROVE  Fenced(k, c, d, ms)
<1>1. d = IF k = "backfill" \/ c.phase = "idle" THEN c ELSE [c EXCEPT !.fenced = @ \cup ms]
  BY DEF FencedFor, IsCalls
<1>2. CASE k = "backfill" \/ c.phase = "idle"
  BY <1>1, <1>2 DEF Fenced
<1>3. CASE k # "backfill" /\ c.phase # "idle"
  <2>1. /\ d.fenced = c.fenced \cup ms /\ DOMAIN d = DOMAIN c /\ d.phase = c.phase /\ d.input = c.input
        /\ c.phase = "listing" => d.history = c.history
        /\ c.phase = "fetched" => d.page = c.page
    BY <1>1, <1>3 DEF CallHolds
  <2>2. c.fenced \subseteq Messages
    BY <1>3 DEF CallHolds
  <2>3. CallHolds(k, d)
    BY <1>3, <2>1, <2>2 DEF CallHolds
  <2> QED BY <2>1, <2>3 DEF Fenced
<1> QED BY <1>2, <1>3

\* A step of the mailbox or of a local change: calls are left alone or fenced for ms.
LEMMA LocalStep ==
  ASSUME SyncInv, Grows, NEW ms \in SUBSET Messages, (call' = call /\ receipt' = receipt) \/ call' = FencedFor(call, ms),
         UNCHANGED <<checkpoint, base>>,
         stored' \in [Messages -> [state : {"none", "present", "deleted"}, version : History]],
         change' \in [Messages -> [phase : {"none", "accepted", "applied"}, version : History]],
         skipped' \in [Messages -> History], receipt' \in [Messages -> History],
         \A n \in Messages \ ms : receipt'[n] = receipt[n],
         \A n \in Messages : RowHolds(n)',
         \A n \in Messages, q \in 0..HistoryId : Seen(n, q) => Seen(n, q)'
  PROVE  SyncInv'
<1>1. MailboxTypeOK /\ MailboxTypeOK' /\ HistoryId \in Nat /\ HistoryId' \in Nat /\ HistoryId <= HistoryId' /\ HistoryId' \in History
  BY MailboxAssumption DEF Grows, MailboxTypeOK, History
<1>2. call' = [j \in Keys |-> call'[j]]
  BY DEF SyncInv, FencedFor
<1>3. ASSUME NEW k \in Keys, NEW d \in {call'[k]}
      PROVE  CallHolds(k, d)' /\ PageIsRecent(k, d)'
  <2>1. PICK c : c = call[k]
    OBVIOUS
  <2>2. CallHolds(k, c) /\ PageIsRecent(k, c)
    BY <2>1 DEF SyncInv
  <2>3. CASE call' = call /\ receipt' = receipt
    <3>1. d = c
      BY <1>3, <2>1, <2>3
    <3>2. CallHolds(k, d)'
      BY <2>2, <3>1, CallStays
    <3> QED BY <2>2, <2>3, <3>1, <3>2 DEF PageIsRecent
  <2>4. CASE call' = FencedFor(call, ms)
    <3>1. IsCalls(call) /\ d = FencedFor(call, ms)[k]
      BY <1>3, <2>4 DEF SyncInv, IsCalls
    <3>2. /\ CallHolds(k, d) /\ d.phase = c.phase
          /\ k # "backfill" /\ c.phase # "idle" => d.fenced = c.fenced \cup ms
          /\ c.phase = "fetched" => d.page = c.page
      <4>1. IsCalls(call) /\ c = call[k] /\ CallHolds(k, c) /\ d = FencedFor(call, ms)[k]
        BY <2>1, <2>2, <3>1
      <4>2. Fenced(k, c, d, ms)
        BY ONLY <4>1, FencedCalls, k \in Keys, ms \in SUBSET Messages
      <4> QED BY <4>2 DEF Fenced
    <3>3. CallHolds(k, d)'
      BY <3>2, CallStays
    <3>4. c.phase = "fetched" => DOMAIN c.page.messages \subseteq Messages
      BY <2>2 DEF CallHolds, PageHolds
    <3>5. PageIsRecent(k, d)'
      BY <2>2, <3>2, <3>4 DEF PageIsRecent
    <3> QED BY <3>3, <3>5
  <2> QED BY <2>3, <2>4
<1>4. TypeOK'
  <2>1. ASSUME NEW k \in Keys
        PROVE  /\ call'[k].phase \in {"idle", "asking", "listing", "fetched"}
               /\ call'[k].phase # "idle" => call'[k].input \in Cursors /\ call'[k].fenced \subseteq Messages
               /\ call'[k].phase = "listing" => call'[k].history \in History
               /\ call'[k].phase = "fetched" => DOMAIN call'[k].page.messages \subseteq Messages /\ call'[k].page.next \in Cursors
    <3>1. PICK d : d = call'[k]
      OBVIOUS
    <3>2. CallHolds(k, d)'
      BY <1>3, <3>1
    <3> QED BY <1>1, <3>1, <3>2, MailboxAssumption DEF CallHolds, PageHolds, Placed, History
  <2> QED BY <1>1, <2>1 DEF SyncInv, TypeOK
<1>5. \A c \in {checkpoint'["latest"], checkpoint'["backfill"]} : Placed(c)'
  BY PlacedStays DEF SyncInv
<1>6. base' <= HistoryId' /\ base \in Nat
  BY <1>1, MailboxAssumption DEF SyncInv, TypeOK, History
<1>7. ASSUME NEW n \in Messages, NEW q \in History, Reached(q)'
      PROVE  Seen(n, q)'
  <2>1. Reached(q)
    BY <1>7 DEF Reached
  <2>2. Position(checkpoint["latest"]) \in 0..HistoryId
    <3>1. PICK c : c = checkpoint["latest"]
      OBVIOUS
    <3>2. Placed(c)
      BY <3>1 DEF SyncInv
    <3> QED BY <1>1, <3>1, <3>2, PlacedNumbers
  <2>3. q \in 0..HistoryId
    BY <1>1, <2>1, <2>2 DEF Reached
  <2> QED BY <2>1, <2>3 DEF SyncInv
<1> QED BY <1>2, <1>3, <1>4, <1>5, <1>6, <1>7 DEF SyncInv

LEMMA InvFacts ==
  ASSUME SyncInv
  PROVE  /\ MailboxTypeOK /\ HistoryId \in History /\ HistoryId \in Nat /\ base \in Nat
         /\ stored \in [Messages -> [state : {"none", "present", "deleted"}, version : History]]
         /\ change \in [Messages -> [phase : {"none", "accepted", "applied"}, version : History]]
         /\ skipped \in [Messages -> History] /\ receipt \in [Messages -> History] /\ History \subseteq Nat
         /\ \A m \in Messages : RowHolds(m)
BY MailboxAssumption DEF SyncInv, TypeOK, MailboxTypeOK, History

LEMMA MailboxStep ==
  ASSUME SyncInv, MailboxChanges, UNCHANGED local
  PROVE  SyncInv'
<1>1. Grows
  BY MailboxGrows, InvFacts
<1>2. \A n \in Messages : RowHolds(n)'
  BY <1>1, InvFacts, RowStays DEF local
<1>3. \A n \in Messages, q \in 0..HistoryId : Seen(n, q) => Seen(n, q)'
  BY <1>1, InvFacts, SeenStays DEF local
<1>4. call' = call /\ UNCHANGED <<checkpoint, base, stored, change, skipped, receipt>>
  BY DEF local
<1> QED BY <1>1, <1>2, <1>3, <1>4, InvFacts, LocalStep

LEMMA AcceptStep ==
  ASSUME SyncInv, NEW m \in Messages, NEW native \in BOOLEAN, Accept(m, native)
  PROVE  SyncInv'
<1>1. Grows
  BY InvFacts, StillGrows DEF Accept
<1>2. /\ call' = FencedFor(call, {m}) /\ UNCHANGED <<mailbox, stored, checkpoint, base, skipped, receipt>>
      /\ stored[m].state = "present" /\ change[m].phase = "none"
      /\ change' = IF native THEN [change EXCEPT ![m].phase = "accepted"] ELSE change
  BY DEF Accept, Raise
<1>3. /\ change' \in [Messages -> [phase : {"none", "accepted", "applied"}, version : History]]
      /\ \A n \in Messages : n # m => change'[n] = change[n]
      /\ change'[m].phase # "applied"
  BY <1>2, InvFacts
<1>4. ASSUME NEW n \in Messages PROVE RowHolds(n)'
  <2>1. CASE n # m
    BY <1>1, <1>2, <1>3, <2>1, InvFacts, RowStays
  <2>2. CASE n = m
    BY <1>2, <1>3, <2>2, InvFacts DEF RowHolds, Dead, Records, HistoryId
  <2> QED BY <2>1, <2>2
<1>5. \A n \in Messages, q \in 0..HistoryId : Seen(n, q) => Seen(n, q)'
  BY <1>1, <1>2, InvFacts, SeenStays
<1> QED BY <1>1, <1>2, <1>3, <1>4, <1>5, InvFacts, LocalStep, SMTT(30)

LEMMA GiveUpStep ==
  ASSUME SyncInv, NEW m \in Messages, GiveUp(m)
  PROVE  SyncInv'
<1>1. Grows
  BY InvFacts, StillGrows DEF GiveUp
<1>2. /\ call' = FencedFor(call, {m}) /\ UNCHANGED <<mailbox, stored, checkpoint, base, skipped, receipt>>
      /\ change' = [change EXCEPT ![m] = [phase |-> "none", version |-> 0]]
  BY DEF GiveUp, Raise
<1>3. /\ change' \in [Messages -> [phase : {"none", "accepted", "applied"}, version : History]]
      /\ \A n \in Messages : n # m => change'[n] = change[n]
      /\ change'[m].phase = "none"
  <2>1. 0 \in History
    BY MailboxAssumption DEF History
  <2> QED BY <1>2, <2>1, InvFacts
<1>4. ASSUME NEW n \in Messages PROVE RowHolds(n)'
  <2>1. CASE n # m
    BY <1>1, <1>2, <1>3, <2>1, InvFacts, RowStays
  <2>2. CASE n = m
    BY <1>2, <1>3, <2>2, InvFacts DEF RowHolds, Dead, Records, HistoryId
  <2> QED BY <2>1, <2>2
<1>5. \A n \in Messages, q \in 0..HistoryId : Seen(n, q) => Seen(n, q)'
  BY <1>1, <1>2, InvFacts, SeenStays
<1> QED BY <1>1, <1>2, <1>3, <1>4, <1>5, InvFacts, LocalStep

LEMMA ApplyStep ==
  ASSUME SyncInv, NEW m \in Messages, Apply(m)
  PROVE  SyncInv'
<1>1. /\ change[m].phase = "accepted" /\ m \in mailbox.present /\ Record(m, mailbox.present)
      /\ change' = [change EXCEPT ![m] = [phase |-> "applied", version |-> HistoryId + 1]]
      /\ UNCHANGED <<stored, checkpoint, call, base, skipped, receipt>>
  BY DEF Apply
<1>2. Grows /\ HistoryId' = HistoryId + 1 /\ HistoryId + 1 \in Records(m, 0, HistoryId)'
  <2>1. mailbox.present \in SUBSET Messages /\ 0 \in 0..HistoryId
    BY InvFacts DEF MailboxTypeOK
  <2> QED BY <1>1, <2>1, InvFacts, RecordGrows
<1>3. HistoryId + 1 \in History
  BY <1>1, InvFacts, MailboxAssumption DEF Record, History
<1>4. /\ change' \in [Messages -> [phase : {"none", "accepted", "applied"}, version : History]]
      /\ \A n \in Messages : n # m => change'[n] = change[n]
      /\ change'[m].version = HistoryId + 1
  BY <1>1, <1>3, InvFacts
<1>5. ASSUME NEW n \in Messages PROVE RowHolds(n)'
  <2>1. CASE n # m
    BY <1>1, <1>2, <1>4, <2>1, InvFacts, RowStays
  <2>2. CASE n = m
    <3>1. RowHolds(m) /\ stored[m].state # "none"
      BY <1>1, InvFacts DEF RowHolds
    <3>2. receipt[m] \in {0} \cup Records(m, 0, HistoryId)'
      BY <1>2, <3>1, InvFacts DEF Grows, RowHolds
    <3>3. stored[m].version <= HistoryId'
      BY <1>2, <3>1, InvFacts DEF RowHolds
    <3>4. stored[m].state = "deleted" => Dead(m)'
      BY <1>2, <3>1, DeadStays DEF RowHolds
    <3> QED BY <1>1, <1>2, <1>4, <2>2, <3>1, <3>2, <3>3, <3>4 DEF RowHolds
  <2> QED BY <2>1, <2>2
<1>6. \A n \in Messages, q \in 0..HistoryId : Seen(n, q) => Seen(n, q)'
  BY <1>1, <1>2, InvFacts, SeenStays
<1> QED BY <1>1, <1>2, <1>4, <1>5, <1>6, InvFacts, LocalStep

LEMMA ConfirmStep ==
  ASSUME SyncInv, NEW m \in Messages, Confirm(m)
  PROVE  SyncInv'
<1>1. Grows /\ UNCHANGED <<mailbox, checkpoint, base>> /\ call' = FencedFor(call, {m})
  BY InvFacts, StillGrows DEF Confirm, Raise
<1>2. /\ change[m].phase = "applied" /\ change' = [change EXCEPT ![m] = [phase |-> "none", version |-> 0]]
      /\ IF stored[m].state = "deleted" THEN UNCHANGED <<stored, skipped, receipt>>
         ELSE /\ stored' = [stored EXCEPT ![m] = [state |-> "present", version |-> change[m].version]]
              /\ receipt' = [receipt EXCEPT ![m] = change[m].version]
              /\ skipped' = IF stored[m].version > change[m].version THEN [skipped EXCEPT ![m] = Max({@, stored[m].version})] ELSE skipped
  BY DEF Confirm
<1>3. /\ change' \in [Messages -> [phase : {"none", "accepted", "applied"}, version : History]]
      /\ \A n \in Messages : n # m => change'[n] = change[n]
      /\ change'[m].phase = "none"
  <2>1. 0 \in History
    BY MailboxAssumption DEF History
  <2> QED BY <1>2, <2>1, InvFacts
<1>4. change[m].version \in Records(m, 0, HistoryId) /\ change[m].version \in History /\ change[m].version \in 0..HistoryId
  BY <1>2, InvFacts, RecordsAreNumbers DEF RowHolds
<1>5. CASE stored[m].state = "deleted"
  <2>1. \A n \in Messages : RowHolds(n)'
    <3>1. ASSUME NEW n \in Messages, n # m PROVE RowHolds(n)'
      BY <1>1, <1>2, <1>3, <1>5, <3>1, InvFacts, RowStays
    <3>2. RowHolds(m)'
      BY <1>1, <1>2, <1>3, <1>5, InvFacts DEF RowHolds, Dead, Records, HistoryId
    <3> QED BY <3>1, <3>2
  <2>2. \A n \in Messages, q \in 0..HistoryId : Seen(n, q) => Seen(n, q)'
    BY <1>1, <1>2, <1>5, InvFacts, SeenStays
  <2> QED BY <1>1, <1>2, <1>3, <1>5, <2>1, <2>2, InvFacts, LocalStep
<1>6. CASE stored[m].state # "deleted"
  <2>1. PICK v : v = change[m].version
    OBVIOUS
  <2>2. /\ stored' \in [Messages -> [state : {"none", "present", "deleted"}, version : History]]
        /\ \A n \in Messages : n # m => stored'[n] = stored[n]
        /\ stored'[m].state = "present" /\ stored'[m].version = v
    <3>1. stored' = [stored EXCEPT ![m] = [state |-> "present", version |-> v]]
      BY <1>2, <1>6, <2>1
    <3>2. [state |-> "present", version |-> v] \in [state : {"none", "present", "deleted"}, version : History]
      BY <1>4, <2>1
    <3>3. stored \in [Messages -> [state : {"none", "present", "deleted"}, version : History]]
      BY InvFacts
    <3> QED BY ONLY <3>1, <3>2, <3>3, m \in Messages
  <2>3. /\ receipt' \in [Messages -> History] /\ receipt'[m] = v
        /\ \A n \in Messages : n # m => receipt'[n] = receipt[n]
    BY <1>2, <1>4, <1>6, <2>1, InvFacts
  <2>4. /\ skipped' \in [Messages -> History] /\ skipped'[m] >= skipped[m]
        /\ stored[m].version > v => skipped'[m] >= stored[m].version
        /\ \A n \in Messages : n # m => skipped'[n] = skipped[n]
    <3>1. PICK top : top = Max({skipped[m], stored[m].version})
      OBVIOUS
    <3>2. skipped' = IF stored[m].version > v THEN [skipped EXCEPT ![m] = top] ELSE skipped
      BY <1>2, <1>6, <2>1, <3>1
    <3>3. skipped[m] \in History /\ stored[m].version \in History /\ MaxHistory \in Nat
      BY InvFacts, MailboxAssumption
    <3>4. {skipped[m], stored[m].version} \in SUBSET (0..MaxHistory)
      BY <3>3 DEF History
    <3>5. top \in History /\ top >= skipped[m] /\ top >= stored[m].version
      BY <3>1, <3>3, <3>4, MaxOfNaturals DEF History
    <3> QED BY <3>2, <3>3, <3>5, InvFacts DEF History
  <2>5. ASSUME NEW n \in Messages PROVE RowHolds(n)'
    <3>1. CASE n # m
      BY <1>1, <1>3, <2>2, <2>3, <3>1, InvFacts, RowStays
    <3>2. CASE n = m
      BY <1>1, <1>3, <1>4, <2>1, <2>2, <2>3, <3>2, InvFacts DEF RowHolds, Dead, Records, HistoryId
    <3> QED BY <3>1, <3>2
  <2>6. ASSUME NEW n \in Messages, NEW q \in 0..HistoryId, Seen(n, q)
        PROVE  Seen(n, q)'
    <3>1. CASE n # m
      BY <1>1, <2>2, <2>4, <2>6, <3>1, InvFacts DEF Seen, Records, HistoryId
    <3>2. CASE n = m
      <4> SUFFICES ASSUME NEW i \in Records(m, base, q), i > skipped'[m]
                   PROVE  /\ m \in mailbox.present => stored'[m].state = "present" /\ stored'[m].version >= i
                          /\ m \notin mailbox.present /\ stored'[m].state = "present" => Records(m, q, HistoryId) # {}
        BY <1>1, <3>2 DEF Seen, Records, HistoryId
      <4>1. i \in Nat /\ skipped[m] \in Nat /\ skipped'[m] \in Nat /\ stored[m].version \in Nat /\ v \in Nat
        BY <1>4, <2>1, <2>4, InvFacts, RecordsAreNumbers
      <4>2. i > skipped[m]
        BY <2>4, <4>1
      <4>3. /\ m \in mailbox.present => stored[m].state = "present" /\ stored[m].version >= i
            /\ m \notin mailbox.present /\ stored[m].state = "present" => Records(m, q, HistoryId) # {}
        BY <2>6, <3>2, <4>2 DEF Seen
      <4>4. stored[m].state = "present"
        BY <1>2, <1>6, InvFacts DEF RowHolds
      <4>5. m \in mailbox.present => v >= i
        BY <2>4, <4>1, <4>3
      <4> QED BY <2>2, <4>3, <4>4, <4>5
    <3> QED BY <3>1, <3>2
  <2>7. {m} \in SUBSET Messages /\ (\A n \in Messages \ {m} : receipt'[n] = receipt[n]) /\ UNCHANGED <<checkpoint, base>>
    BY <1>1, <2>3
  <2> QED BY <1>1, <1>3, <2>2, <2>3, <2>4, <2>5, <2>6, <2>7, LocalStep
<1> QED BY <1>5, <1>6

----------------------------------------------------------------------------
(* The commit of a page. *)

\* The lane comes further over records that the code passes over.
LEMMA SeenFurther ==
  ASSUME MailboxTypeOK, UNCHANGED <<mailbox, base>>, base \in Nat, NEW m \in Messages, NEW q \in 0..HistoryId, NEW q0 \in 0..q,
         Seen(m, q0), stored'[m] = stored[m], skipped[m] \in Nat, skipped'[m] \in Nat, skipped[m] <= skipped'[m],
         \A j \in Records(m, q0, q) : j <= skipped'[m]
  PROVE  Seen(m, q)'
<1>1. HistoryId \in Nat
  BY MailboxAssumption DEF MailboxTypeOK, History
<1> SUFFICES ASSUME NEW i \in Records(m, base, q), i > skipped'[m]
             PROVE  /\ m \in mailbox.present => stored[m].state = "present" /\ stored[m].version >= i
                    /\ m \notin mailbox.present /\ stored[m].state = "present" => Records(m, q, HistoryId) # {}
  BY DEF Seen, Records, HistoryId
<1>2. i \in Nat /\ i <= q /\ i > base
  BY <1>1 DEF Records
<1>3. i <= q0
  <2> SUFFICES ASSUME i > q0 PROVE FALSE
    BY <1>1, <1>2
  <2>1. i \in Records(m, q0, q)
    BY <1>1, <1>2 DEF Records
  <2> QED BY <1>2, <2>1
<1>4. i \in Records(m, base, q0) /\ i > skipped[m]
  BY <1>1, <1>2, <1>3 DEF Records
<1>5. /\ m \in mailbox.present => stored[m].state = "present" /\ stored[m].version >= i
      /\ m \notin mailbox.present /\ stored[m].state = "present" => Records(m, q0, HistoryId) # {}
  BY <1>4 DEF Seen
<1>6. ASSUME Records(m, q0, HistoryId) # {} PROVE Records(m, q, HistoryId) # {}
  <2>1. PICK j \in Records(m, q0, HistoryId) : TRUE
    BY <1>6
  <2>2. j \in Nat /\ j > q0 /\ j <= HistoryId
    BY <1>1 DEF Records
  <2>3. j > q
    <3> SUFFICES ASSUME j <= q PROVE FALSE
      BY <1>1, <2>2
    <3>1. j \in Records(m, q0, q)
      BY <1>1, <2>1, <2>2 DEF Records
    <3> QED BY <1>2, <1>3, <2>2, <3>1
  <2>4. j \in Records(m, q, HistoryId)
    BY <1>1, <2>1, <2>2, <2>3 DEF Records
  <2> QED BY <2>4
<1> QED BY <1>5, <1>6

\* The commit of call c leaves m as it is: the page has nothing of it, or it is kept.
Left(k, c, m) ==
  /\ stored'[m] = stored[m]
  /\ m \in DOMAIN c.page.messages => stored[m].state = "deleted" \/ (stored[m].state = "present" /\ (k = "backfill" \/ m \in c.fenced))
  /\ m \in c.page.deleted => stored[m].state # "present" \/ m \in c.fenced

\* What the commit of call c makes of a message.
Took(k, c, m) ==
  \/ /\ m \in c.page.deleted /\ ~ c.page.full /\ stored[m].state = "present" /\ Dead(m)
     /\ stored'[m].state = "deleted" /\ stored'[m].version = stored[m].version
  \/ /\ m \in DOMAIN c.page.messages /\ stored[m].state # "deleted"
     /\ stored[m].state = "present" => k # "backfill" /\ m \notin c.fenced
     /\ stored'[m].state = "present" /\ stored'[m].version = c.page.messages[m]
  \/ Left(k, c, m)

\* Every row is taken or left as persist does it, and keeps to its receipt.
LEMMA CommitRows ==
  ASSUME SyncInv, NEW k \in Keys, Commit(k), NEW c, c = call[k], NEW m \in Messages
  PROVE  Took(k, c, m) /\ RowHolds(m)' /\ stored'[m] \in [state : {"none", "present", "deleted"}, version : History]
<1>1. CallHolds(k, c) /\ PageIsRecent(k, c) /\ c.phase = "fetched" /\ UNCHANGED <<mailbox, change, receipt>>
  BY CallFacts DEF Commit
<1>2. PageHolds(c.page) /\ (c.page.full => c.page.deleted = {}) /\ (~ c.page.full => \A n \in c.page.deleted : Dead(n))
  BY <1>1 DEF CallHolds, ListingHolds, DeltaHolds
<1>3. stored'[m] = IF m \in Removed(k) THEN [stored[m] EXCEPT !.state = "deleted"]
                   ELSE IF m \in Persisted(k) THEN [state |-> "present", version |-> c.page.messages[m]] ELSE stored[m]
  BY DEF Commit
<1>4. stored[m] \in [state : {"none", "present", "deleted"}, version : History] /\ RowHolds(m) /\ HistoryId \in Nat /\ HistoryId \in History
  BY InvFacts
<1>5. /\ m \in Removed(k) <=> m \in c.page.deleted /\ stored[m].state = "present" /\ m \notin c.fenced
      /\ m \in Persisted(k) <=> /\ m \in DOMAIN c.page.messages
                                /\ ~ (stored[m].state = "deleted" \/ (stored[m].state = "present" /\ (k = "backfill" \/ m \in c.fenced)))
  BY DEF Removed, Persisted, Listed, Keeps
<1>6. CASE m \in Removed(k)
  <2>1. stored'[m].state = "deleted" /\ stored'[m].version = stored[m].version /\ stored'[m] \in [state : {"none", "present", "deleted"}, version : History]
    BY <1>3, <1>4, <1>6
  <2>2. Took(k, c, m) /\ Dead(m)
    BY <1>2, <1>5, <1>6, <2>1 DEF Took
  <2> QED BY <1>1, <1>4, <2>1, <2>2 DEF RowHolds, Dead, Records, HistoryId
<1>7. CASE m \notin Removed(k) /\ m \in Persisted(k)
  <2>1. stored'[m].state = "present" /\ stored'[m].version = c.page.messages[m]
    BY <1>3, <1>7
  <2>2. c.page.messages[m] \in 0..HistoryId
    BY <1>2, <1>5, <1>7 DEF PageHolds
  <2>3. stored'[m] \in [state : {"none", "present", "deleted"}, version : History]
    <3>1. c.page.messages[m] \in History
      BY <1>4, <2>2, MailboxAssumption DEF History
    <3> QED BY <1>3, <1>7, <3>1
  <2>4. Took(k, c, m)
    BY <1>5, <1>7, <2>1 DEF Took
  <2>5. stored[m].state = "none" => receipt[m] = 0
    BY <1>4 DEF RowHolds
  <2>6. stored[m].state = "present" => c.page.messages[m] >= receipt[m]
    BY <1>1, <1>5, <1>7 DEF PageIsRecent
  <2>7. c.page.messages[m] >= receipt[m]
    BY <1>4, <1>5, <1>7, <2>2, <2>5, <2>6
  <2> QED BY <1>1, <1>4, <2>1, <2>2, <2>3, <2>4, <2>7 DEF RowHolds, Dead, Records, HistoryId
<1>8. CASE m \notin Removed(k) /\ m \notin Persisted(k)
  <2>1. stored'[m] = stored[m]
    BY <1>3, <1>8
  <2>2. Took(k, c, m)
    BY <1>5, <1>8, <2>1 DEF Took, Left
  <2> QED BY <1>1, <1>4, <2>1, <2>2 DEF RowHolds, Dead, Records, HistoryId
<1> QED BY <1>6, <1>7, <1>8

\* The numbers of the records between two positions are positions.
LEMMA RecordsInHistory ==
  ASSUME HistoryId \in Nat, NEW m \in Messages, NEW p \in 0..HistoryId, NEW q \in 0..HistoryId
  PROVE  Records(m, p, q) \subseteq 0..HistoryId
BY DEF Records

\* What a commit passes over is noted.
LEMMA CommitSkips ==
  ASSUME SyncInv, NEW k \in Keys, Commit(k), NEW m \in Messages
  PROVE  /\ skipped'[m] \in History /\ skipped[m] \in Nat /\ skipped'[m] \in Nat /\ skipped[m] <= skipped'[m]
         /\ \A i \in PassedOver(k, m) \cup StartedOver(k, m) \cup FencedOff(k, m) : i <= skipped'[m]
<1>1. PICK c : c = call[k]
  OBVIOUS
<1>2. CallHolds(k, c) /\ c.phase = "fetched" /\ PageHolds(c.page) /\ Placed(c.input)
  BY <1>1, CallFacts DEF Commit, CallHolds
<1>3. /\ MailboxTypeOK /\ HistoryId \in Nat /\ HistoryId \in History /\ skipped[m] \in History /\ History = 0..MaxHistory
      /\ MaxHistory \in Nat /\ HistoryId <= MaxHistory
  BY InvFacts, MailboxAssumption DEF History
<1>4. \A d \in {checkpoint["latest"], checkpoint["backfill"], c.input, c.page.next, c.page.recent} :
        d.value \in 0..HistoryId /\ Position(d) \in 0..HistoryId
  BY <1>2, <1>3, PlacedNumbers DEF SyncInv, PageHolds
<1>5. PassedOver(k, m) \subseteq 0..HistoryId
  <2>1. PICK to : to = IF k # "backfill" THEN Position(c.input) ELSE IF c.page.more THEN 0 ELSE Position(c.page.recent)
    OBVIOUS
  <2>2. to \in 0..HistoryId
    BY <1>3, <1>4, <2>1
  <2>3. PassedOver(k, m) \subseteq Records(m, Position(checkpoint["latest"]), to)
    BY <1>1, <2>1 DEF PassedOver
  <2>4. Position(checkpoint["latest"]) \in 0..HistoryId
    BY <1>4
  <2> QED BY <1>3, <2>2, <2>3, <2>4, RecordsInHistory
<1>6. StartedOver(k, m) \subseteq 0..HistoryId
  <2>1. StartedOver(k, m) \subseteq Records(m, checkpoint["backfill"].value, Position(c.page.recent))
    BY <1>1 DEF StartedOver
  <2>2. checkpoint["backfill"].value \in 0..HistoryId /\ Position(c.page.recent) \in 0..HistoryId
    BY <1>4
  <2> QED BY <1>3, <2>1, <2>2, RecordsInHistory
<1>7. FencedOff(k, m) \subseteq 0..HistoryId
  <2>1. Version(m, HistoryId) \in 0..HistoryId
    BY <1>3, VersionIsLast
  <2> QED BY <1>1, <1>2, <2>1 DEF FencedOff, Listed, PageHolds
<1>8. PICK S : S = {skipped[m]} \cup PassedOver(k, m) \cup StartedOver(k, m) \cup FencedOff(k, m)
  OBVIOUS
<1>9. S \in SUBSET (0..MaxHistory) /\ S # {} /\ skipped[m] \in S
  BY <1>3, <1>5, <1>6, <1>7, <1>8
<1>10. skipped'[m] = Max(S)
  BY <1>8 DEF Commit
<1>11. Max(S) \in 0..MaxHistory /\ \A x \in S : x <= Max(S)
  BY <1>3, <1>9, MaxOfNaturals
<1>12. \A i \in PassedOver(k, m) \cup StartedOver(k, m) \cup FencedOff(k, m) : i <= skipped'[m]
  BY <1>8, <1>10, <1>11
<1>13. skipped'[m] \in History /\ skipped[m] <= skipped'[m]
  BY <1>3, <1>9, <1>10, <1>11
<1>14. skipped[m] \in Nat /\ skipped'[m] \in Nat
  BY <1>3, <1>13
<1> QED BY <1>12, <1>13, <1>14

\* Where the cursors stand after the commit of call c.
Moved(k, c) ==
  /\ \A d \in {checkpoint'["latest"], checkpoint'["backfill"]} : Placed(d)
  /\ checkpoint' = [lane \in {"latest", "backfill"} |-> checkpoint'[lane]]
  /\ checkpoint'["latest"].kind \in {"absent", "history"} /\ checkpoint'["backfill"].kind \in {"absent", "null", "page"}
  /\ checkpoint["latest"].kind = "history" => checkpoint'["latest"].kind = "history"
  /\ k = "backfill" => /\ c.page.full
                       /\ checkpoint'["latest"] = IF c.page.more THEN checkpoint["latest"] ELSE c.page.recent
                       /\ c.page.more => checkpoint'["backfill"] = c.page.next
  /\ k # "backfill" => /\ checkpoint'["latest"] = IF c.page.full THEN c.page.recent ELSE c.page.next
                       /\ checkpoint'["backfill"] = checkpoint["backfill"]
                       /\ ~ c.page.full => checkpoint["latest"].kind = "history"

LEMMA CommitMoves ==
  ASSUME SyncInv, NEW k \in Keys, Commit(k), NEW c, c = call[k]
  PROVE  Moved(k, c)
<1>1. CallHolds(k, c) /\ c.phase = "fetched" /\ PageHolds(c.page) /\ Placed(c.input) /\ HistoryId \in Nat
  BY CallFacts DEF Commit, CallHolds
<1>2. checkpoint' = NewCheckpoint(k)
  BY DEF Commit
<1>3. checkpoint = [lane \in {"latest", "backfill"} |-> checkpoint[lane]]
  BY DEF SyncInv, TypeOK
<1>4. Placed(Null) /\ Null.kind = "null" /\ Null.token = 0
  BY <1>1, NullIsPlaced
<1>5. CASE k = "backfill"
  <2>1. c.page.full /\ ListingHolds(c.page)
    BY <1>1, <1>5 DEF CallHolds
  <2>2. checkpoint' = [latest |-> IF c.page.more THEN checkpoint["latest"] ELSE c.page.recent,
                       backfill |-> IF c.page.more THEN c.page.next ELSE Null]
    BY <1>2, <1>5 DEF NewCheckpoint, AfterBackfill
  <2>3. /\ checkpoint'["latest"] = IF c.page.more THEN checkpoint["latest"] ELSE c.page.recent
        /\ checkpoint'["backfill"] = IF c.page.more THEN c.page.next ELSE Null
        /\ checkpoint' = [lane \in {"latest", "backfill"} |-> checkpoint'[lane]]
    BY <2>2
  <2>4. /\ c.page.recent.kind = "history" /\ (c.page.more => c.page.next.kind = "page")
        /\ Placed(c.page.recent) /\ Placed(c.page.next)
    BY <1>1, <2>1 DEF ListingHolds, PageHolds
  <2>5. Placed(checkpoint'["latest"]) /\ checkpoint'["latest"].kind \in {"absent", "history"}
    BY <2>3, <2>4 DEF SyncInv
  <2>6. Placed(checkpoint'["backfill"]) /\ checkpoint'["backfill"].kind \in {"absent", "null", "page"}
    BY <1>4, <2>3, <2>4
  <2> QED BY <1>5, <2>1, <2>3, <2>4, <2>5, <2>6 DEF Moved
<1>6. CASE k # "backfill"
  <2>1. checkpoint' = [checkpoint EXCEPT !["latest"] = IF c.page.full THEN c.page.recent ELSE c.page.next]
    BY <1>2, <1>6 DEF NewCheckpoint
  <2>2. /\ checkpoint'["latest"] = IF c.page.full THEN c.page.recent ELSE c.page.next
        /\ checkpoint'["backfill"] = checkpoint["backfill"]
        /\ checkpoint' = [lane \in {"latest", "backfill"} |-> checkpoint'[lane]]
    BY <1>3, <2>1
  <2>3. /\ Placed(c.page.recent) /\ Placed(c.page.next)
        /\ IF c.page.full THEN c.page.recent.kind = "history" ELSE c.page.next.kind = "history" /\ checkpoint["latest"].kind = "history"
    BY <1>1 DEF CallHolds, ListingHolds, DeltaHolds, PageHolds
  <2>4. Placed(checkpoint'["latest"]) /\ checkpoint'["latest"].kind = "history"
    BY <2>2, <2>3
  <2>5. Placed(checkpoint'["backfill"]) /\ checkpoint'["backfill"].kind \in {"absent", "null", "page"}
    BY <2>2 DEF SyncInv
  <2> QED BY <1>6, <2>2, <2>3, <2>4, <2>5 DEF Moved
<1> QED BY <1>5, <1>6

LEMMA CommitCalls ==
  ASSUME SyncInv, NEW k \in Keys, Commit(k), NEW j \in Keys, NEW d, d = call'[j]
  PROVE  CallHolds(j, d)' /\ PageIsRecent(j, d)' /\ call' = [i \in Keys |-> call'[i]]
<1>1. PICK c : c = call[k]
  OBVIOUS
<1>2. CallHolds(k, c) /\ c.phase = "fetched" /\ PageHolds(c.page) /\ MailboxTypeOK
  BY <1>1, CallFacts DEF Commit, CallHolds
<1>3. PICK calls : calls = [call EXCEPT ![k] = Idle]
  OBVIOUS
<1>4. PICK ms : ms = Raised(k)
  OBVIOUS
<1>5. call' = FencedFor(calls, ms) /\ UNCHANGED <<mailbox, receipt>>
  BY <1>3, <1>4 DEF Commit
<1>6. ms \in SUBSET Messages
  <2>1. c.page.deleted \subseteq Messages
    BY <1>2 DEF CallHolds, ListingHolds, DeltaHolds
  <2> QED BY <1>1, <1>2, <1>4, <2>1 DEF Raised, Removed, Persisted, Listed, PageHolds
<1>7. call = [i \in Keys |-> call[i]]
  BY DEF SyncInv
<1>8. IsCalls(calls) /\ calls[j] = IF j = k THEN Idle ELSE call[j]
  BY <1>3, <1>7 DEF IsCalls
<1>9. PICK e : e = calls[j]
  OBVIOUS
<1>10. CallHolds(j, e) /\ PageIsRecent(j, e)
  <2>1. CASE j = k
    <3>1. e = Idle
      BY <1>8, <1>9, <2>1
    <3> QED BY <3>1 DEF Idle, CallHolds, PageIsRecent
  <2>2. CASE j # k
    <3>1. e = call[j]
      BY <1>8, <1>9, <2>2
    <3> QED BY <3>1, CallFacts
  <2> QED BY <2>1, <2>2
<1>11. Fenced(j, e, d, ms)
  <2>1. e = calls[j] /\ d = FencedFor(calls, ms)[j] /\ j \in Keys
    BY <1>5, <1>9
  <2> QED BY ONLY <1>6, <1>8, <1>10, <2>1, FencedCalls
<1>12. CallHolds(j, d)'
  <2>1. Moved(k, c)
    BY <1>1, CommitMoves
  <2>2. Grows
    BY <1>2, <1>5, StillGrows
  <2>3. checkpoint["latest"].kind = "history" => checkpoint'["latest"].kind = "history"
    BY <2>1 DEF Moved
  <2>4. CallHolds(j, d)
    BY <1>11 DEF Fenced
  <2> QED BY <2>2, <2>3, <2>4, CallStays
<1>13. PageIsRecent(j, d)'
  BY <1>5, <1>10, <1>11 DEF PageIsRecent, Fenced
<1>14. call' = [i \in Keys |-> call'[i]]
  BY <1>5 DEF FencedFor
<1> QED BY <1>12, <1>13, <1>14

\* The new base, and how far the lane may be taken to have come.
LEMMA CommitBase ==
  ASSUME SyncInv, NEW k \in Keys, Commit(k), NEW c, c = call[k]
  PROVE  /\ base' \in 0..HistoryId
         /\ base' = base \/ \A q : Reached(q)' => q <= base'
         /\ base' # base => k = "backfill" \/ c.page.full
         /\ k = "backfill" => (checkpoint["latest"].kind = "history" /\ base' = base) \/ \A q : Reached(q)' => q <= base'
         /\ k # "backfill" /\ c.page.full => \A q : Reached(q)' => q <= base'
<1>1. /\ MailboxTypeOK /\ HistoryId \in Nat /\ base \in Nat /\ base <= HistoryId
  BY InvFacts DEF SyncInv
<1>2. Moved(k, c) /\ UNCHANGED mailbox
  BY CommitMoves DEF Commit
<1>3. PICK latest : latest = checkpoint'["latest"]
  OBVIOUS
<1>4. Position(latest) \in 0..HistoryId
  BY <1>1, <1>2, <1>3, PlacedNumbers DEF Moved
<1>5. \A q : Reached(q)' => q <= Position(latest)
  BY <1>3, <1>4 DEF Reached
<1>6. base' = IF k # "backfill" /\ ~ c.page.full THEN base
              ELSE IF k = "backfill" THEN IF checkpoint["latest"].kind = "absent" THEN Position(latest) ELSE base
              ELSE Position(c.page.recent)
  BY <1>3 DEF Commit
<1>7. k # "backfill" /\ c.page.full => c.page.recent = latest
  BY <1>2, <1>3 DEF Moved
<1>8. checkpoint["latest"].kind \in {"absent", "history"}
  BY DEF SyncInv
<1> QED BY <1>1, <1>4, <1>5, <1>6, <1>7, <1>8

\* Of a message that the delta has a record of, the page or the history tells the rest.
LEMMA DeltaTells ==
  ASSUME SyncInv, NEW k \in Keys, Commit(k), NEW c, c = call[k], k # "backfill", ~ c.page.full,
         NEW m \in Messages, Left(k, c, m),
         NEW from, from = Position(c.input), NEW to, to = Position(c.page.next),
         Records(m, from, to) # {}, NEW i \in Records(m, 0, to), i > skipped'[m]
  PROVE  m \notin mailbox.present /\ (stored[m].state = "present" => Records(m, to, HistoryId) # {})
<1>1. CallHolds(k, c) /\ c.phase = "fetched" /\ PageHolds(c.page) /\ MailboxTypeOK /\ HistoryId \in Nat /\ HistoryId \in History
  BY CallFacts, InvFacts DEF Commit, CallHolds
<1>2. DeltaHolds(c.page, from)
  BY <1>1 DEF CallHolds
<1>3. to \in 0..HistoryId /\ i \in Nat /\ i \in Records(m, 0, HistoryId)
  <2>1. to \in 0..HistoryId
    BY <1>1, PlacedNumbers DEF PageHolds
  <2> QED BY <1>1, <2>1 DEF Records
<1>4. RowHolds(m) /\ skipped'[m] \in Nat /\ \A j \in FencedOff(k, m) : j <= skipped'[m]
  BY InvFacts, CommitSkips
<1>5. Version(m, HistoryId) \in Nat /\ i <= Version(m, HistoryId)
  BY <1>1, <1>3, VersionIsLast
<1>6. CASE m \in DOMAIN c.page.messages
  <2>1. i <= c.page.messages[m] /\ c.page.messages[m] \in Nat /\ (m \in mailbox.present \/ Records(m, to, HistoryId) # {})
    BY <1>1, <1>2, <1>3, <1>6 DEF DeltaHolds, ReadAfter, PageHolds
  <2>2. stored[m].state # "present"
    <3> SUFFICES ASSUME stored[m].state = "present" PROVE FALSE
      OBVIOUS
    <3>1. stored[m].state = "present" /\ m \in c.fenced
      BY <1>6 DEF Left
    <3>2. c.page.messages[m] \in FencedOff(k, m)
      BY <1>6, <3>1 DEF FencedOff, Listed
    <3> QED BY <1>3, <1>4, <2>1, <3>2
  <2>3. stored[m].state = "deleted"
    BY <1>6, <2>2 DEF Left
  <2> QED BY <1>4, <2>2, <2>3 DEF RowHolds, Dead
<1>7. CASE m \notin DOMAIN c.page.messages /\ m \in c.page.deleted
  <2>1. Dead(m)
    BY <1>2, <1>7 DEF DeltaHolds
  <2>2. stored[m].state # "present"
    <3> SUFFICES ASSUME stored[m].state = "present" PROVE FALSE
      OBVIOUS
    <3>1. m \in c.fenced
      BY <1>7 DEF Left
    <3>2. Version(m, HistoryId) \in FencedOff(k, m)
      BY <1>7, <3>1 DEF FencedOff, Listed
    <3> QED BY <1>3, <1>4, <1>5, <3>2
  <2> QED BY <2>1, <2>2 DEF Dead
<1>8. CASE m \notin DOMAIN c.page.messages /\ m \notin c.page.deleted
  BY <1>2, <1>8 DEF DeltaHolds, Dead
<1> QED BY <1>6, <1>7, <1>8

\* A page that was persisted was read when the lane had come to h, at least.
LEMMA PersistedIsSeen ==
  ASSUME SyncInv, NEW m \in Messages, NEW p, PageHolds(p), NEW h \in 0..HistoryId, ReadAfter(p, h), m \in DOMAIN p.messages,
         NEW q \in 0..h, stored'[m].state = "present", stored'[m].version = p.messages[m],
         UNCHANGED <<mailbox, base>>
  PROVE  Seen(m, q)'
<1>1. HistoryId \in Nat /\ base \in Nat
  BY InvFacts
<1> SUFFICES ASSUME NEW i \in Records(m, base, q)
             PROVE  /\ m \in mailbox.present => p.messages[m] >= i
                    /\ m \notin mailbox.present => Records(m, q, HistoryId) # {}
  BY DEF Seen, Records, HistoryId
<1>2. i \in Records(m, 0, h)
  BY <1>1 DEF Records
<1>3. i <= p.messages[m] /\ i \in Nat /\ p.messages[m] \in Nat
  BY <1>1, <1>2, RecordsAreNumbers DEF ReadAfter, PageHolds
<1>4. Records(m, h, HistoryId) \subseteq Records(m, q, HistoryId)
  BY <1>1 DEF Records
<1> QED BY <1>3, <1>4 DEF ReadAfter

LEMMA CommitSeen ==
  ASSUME SyncInv, NEW k \in Keys, Commit(k), NEW m \in Messages, NEW q \in History, Reached(q)'
  PROVE  Seen(m, q)'
<1>1. PICK c : c = call[k]
  OBVIOUS
<1>2. CallHolds(k, c) /\ c.phase = "fetched" /\ PageHolds(c.page) /\ Placed(c.input) /\ MailboxTypeOK /\ HistoryId \in Nat
  BY <1>1, CallFacts DEF Commit, CallHolds
<1>3. Moved(k, c) /\ UNCHANGED mailbox
  BY <1>1, CommitMoves DEF Commit
<1>4. /\ base' \in 0..HistoryId /\ base \in Nat
      /\ base' = base \/ q <= base'
      /\ base' # base => k = "backfill" \/ c.page.full
      /\ k = "backfill" => (checkpoint["latest"].kind = "history" /\ base' = base) \/ q <= base'
      /\ k # "backfill" /\ c.page.full => q <= base'
  BY <1>1, CommitBase, InvFacts
<1>5. Took(k, c, m)
  BY <1>1, CommitRows
<1>6. /\ skipped[m] \in Nat /\ skipped'[m] \in Nat /\ skipped[m] <= skipped'[m]
      /\ \A i \in PassedOver(k, m) \cup StartedOver(k, m) \cup FencedOff(k, m) : i <= skipped'[m]
  BY CommitSkips
<1>7. PICK P : P = Position(checkpoint["latest"])
  OBVIOUS
<1>8. /\ P \in 0..HistoryId
      /\ checkpoint["backfill"].value \in 0..HistoryId
      /\ \A d \in {c.input, c.page.next, c.page.recent} : d.value \in 0..HistoryId /\ Position(d) \in 0..HistoryId
  BY <1>2, <1>7, PlacedNumbers DEF SyncInv, PageHolds
<1>9. q \in Nat
  BY MailboxAssumption DEF History
<1>10. CASE q <= base'
  <2>1. \A i : i \notin Records(m, base, q)'
    BY <1>4, <1>9, <1>10 DEF Records
  <2> QED BY <2>1 DEF Seen
<1>11. CASE k # "backfill" /\ ~ c.page.full
  <2>1. PICK from : from = Position(c.input)
    OBVIOUS
  <2>2. PICK to : to = Position(c.page.next)
    OBVIOUS
  <2>3. base' = base /\ from \in 0..HistoryId /\ to \in 0..HistoryId /\ DeltaHolds(c.page, from)
    BY <1>2, <1>4, <1>8, <1>11, <2>1, <2>2 DEF CallHolds
  <2>4. /\ q <= to /\ checkpoint["latest"].kind = "history"
        /\ checkpoint["backfill"].kind = "page" => q <= checkpoint["backfill"].value
    BY <1>3, <1>11, <2>2, <2>3 DEF Moved, Reached
  <2>5. \A j \in Records(m, P, from) : j <= skipped'[m]
    BY <1>1, <1>6, <1>7, <1>11, <2>1, <2>4 DEF PassedOver
  <2>6. CASE stored'[m].state = "deleted" /\ Dead(m)
    BY <1>3, <2>6 DEF Seen, Dead
  <2>7. CASE m \in DOMAIN c.page.messages /\ stored'[m].state = "present" /\ stored'[m].version = c.page.messages[m]
    <3>1. ReadAfter(c.page, to)
      BY <2>2, <2>3 DEF DeltaHolds
    <3> QED BY <1>2, <1>3, <1>9, <2>3, <2>4, <2>7, <3>1, PersistedIsSeen
  <2>8. CASE Left(k, c, m) /\ Records(m, from, to) # {}
    <3> SUFFICES ASSUME NEW i \in Records(m, base, q), i > skipped'[m]
                 PROVE  /\ m \in mailbox.present => stored[m].state = "present" /\ stored[m].version >= i
                        /\ m \notin mailbox.present /\ stored[m].state = "present" => Records(m, q, HistoryId) # {}
      BY <1>3, <2>3, <2>8 DEF Seen, Records, HistoryId, Left
    <3>1. i \in Records(m, 0, to)
      BY <1>4, <1>9, <2>3, <2>4 DEF Records
    <3>2. m \notin mailbox.present /\ (stored[m].state = "present" => Records(m, to, HistoryId) # {})
      BY <1>1, <1>11, <2>1, <2>2, <2>8, <3>1, DeltaTells
    <3>3. Records(m, to, HistoryId) \subseteq Records(m, q, HistoryId)
      BY <1>2, <1>9, <2>3, <2>4 DEF Records
    <3> QED BY <3>2, <3>3
  <2>9. CASE Left(k, c, m) /\ Records(m, from, to) = {}
    <3>1. PICK q0 : q0 = IF q <= P THEN q ELSE P
      OBVIOUS
    <3>2. q0 \in 0..q /\ q \in 0..HistoryId /\ q0 \in History /\ Reached(q0)
      BY <1>2, <1>7, <1>8, <1>9, <2>3, <2>4, <3>1, MailboxAssumption DEF Reached, History
    <3>3. Seen(m, q0)
      BY <3>2 DEF SyncInv
    <3>4. \A j \in Records(m, q0, q) : j <= skipped'[m]
      <4> SUFFICES ASSUME NEW j \in Records(m, q0, q) PROVE j <= skipped'[m]
        OBVIOUS
      <4>1. j \in Nat /\ P < j /\ j <= to /\ mailbox.log[j] = m
        BY <1>8, <1>9, <2>3, <2>4, <3>1, <3>2 DEF Records
      <4>2. j <= from
        BY <2>3, <2>9, <4>1 DEF Records
      <4>3. j \in Records(m, P, from)
        BY <1>8, <2>3, <4>1, <4>2 DEF Records
      <4> QED BY <2>5, <4>3
    <3>5. stored'[m] = stored[m]
      BY <2>9 DEF Left
    <3> QED BY <1>2, <1>3, <1>4, <1>6, <2>3, <3>2, <3>3, <3>4, <3>5, SeenFurther
  <2> QED BY <1>5, <2>6, <2>7, <2>8, <2>9 DEF Took
<1>12. CASE k = "backfill" /\ checkpoint["latest"].kind = "history" /\ base' = base
  <2>1. PICK h : h = c.page.recent.value
    OBVIOUS
  <2>2. c.page.full /\ ListingHolds(c.page) /\ h \in 0..HistoryId /\ Position(c.page.recent) = h
    <3>1. c.page.full
      BY <1>3, <1>12 DEF Moved
    <3>2. ListingHolds(c.page)
      BY <1>2, <3>1 DEF CallHolds
    <3> QED BY <1>8, <2>1, <3>1, <3>2 DEF ListingHolds, Position
  <2>3. q <= h /\ (c.page.more => q <= P)
    <3>1. CASE c.page.more
      <4>1. checkpoint'["backfill"].kind = "page" /\ checkpoint'["backfill"].value = h /\ checkpoint'["latest"] = checkpoint["latest"]
        BY <1>3, <1>12, <2>1, <2>2, <3>1 DEF Moved, ListingHolds
      <4> QED BY <1>7, <1>8, <4>1 DEF Reached
    <3>2. CASE ~ c.page.more
      <4>1. checkpoint'["latest"] = c.page.recent
        BY <1>3, <1>12, <3>2 DEF Moved
      <4> QED BY <2>2, <3>2, <4>1 DEF Reached
    <3> QED BY <3>1, <3>2
  <2>4. CASE m \in DOMAIN c.page.messages /\ stored'[m].state = "present" /\ stored'[m].version = c.page.messages[m]
    <3>1. ReadAfter(c.page, h)
      BY <2>1, <2>2 DEF ListingHolds
    <3> QED BY <1>2, <1>3, <1>9, <1>12, <2>2, <2>3, <2>4, <3>1, PersistedIsSeen
  <2>5. CASE Left(k, c, m)
    <3>1. PICK q1 : q1 = IF q <= P THEN q ELSE P
      OBVIOUS
    <3>2. PICK q0 : q0 = IF checkpoint["backfill"].kind = "page" /\ checkpoint["backfill"].value < q1
                         THEN checkpoint["backfill"].value ELSE q1
      OBVIOUS
    <3>3. q0 \in 0..q /\ q \in 0..HistoryId /\ q0 <= P
      BY <1>2, <1>8, <1>9, <2>2, <2>3, <3>1, <3>2
    <3>4. q0 \in History /\ Reached(q0)
      BY <1>2, <1>7, <1>8, <3>1, <3>2, <3>3, InvFacts, MailboxAssumption DEF Reached, History
    <3>5. Seen(m, q0)
      BY <3>4 DEF SyncInv
    <3>6. \A j \in Records(m, q0, q) : j <= skipped'[m]
      <4> SUFFICES ASSUME NEW j \in Records(m, q0, q) PROVE j <= skipped'[m]
        OBVIOUS
      <4>1. j \in Nat /\ q0 < j /\ j <= q /\ j <= h /\ mailbox.log[j] = m
        BY <1>9, <2>2, <2>3, <3>3 DEF Records
      <4>2. CASE q0 = P
        <5>1. ~ c.page.more
          BY <1>8, <1>9, <2>3, <4>1, <4>2
        <5>2. j \in Records(m, P, h)
          BY <1>8, <2>2, <4>1, <4>2 DEF Records
        <5>3. j \in PassedOver(k, m)
          BY <1>1, <1>7, <1>12, <2>2, <5>1, <5>2 DEF PassedOver
        <5> QED BY <1>6, <5>3
      <4>3. CASE q0 # P
        <5>1. checkpoint["backfill"].kind = "page" /\ q0 = checkpoint["backfill"].value
          BY <1>8, <1>9, <3>1, <3>2, <4>1, <4>3
        <5>2. j \in Records(m, checkpoint["backfill"].value, h)
          BY <1>8, <2>2, <4>1, <5>1 DEF Records
        <5>3. j \in StartedOver(k, m)
          BY <1>1, <1>12, <2>2, <5>1, <5>2 DEF StartedOver
        <5> QED BY <1>6, <5>3
      <4> QED BY <4>2, <4>3
    <3>7. stored'[m] = stored[m]
      BY <2>5 DEF Left
    <3> QED BY <1>2, <1>3, <1>4, <1>6, <1>12, <3>3, <3>5, <3>6, <3>7, SeenFurther
  <2> QED BY <1>5, <2>2, <2>4, <2>5 DEF Took
<1> QED BY <1>4, <1>10, <1>11, <1>12

LEMMA CommitStep ==
  ASSUME SyncInv, NEW k \in Keys, Commit(k)
  PROVE  SyncInv'
<1>1. PICK c : c = call[k]
  OBVIOUS
<1>2. Moved(k, c) /\ UNCHANGED <<mailbox, change, receipt>>
  BY <1>1, CommitMoves DEF Commit
<1>3. /\ MailboxTypeOK /\ MailboxTypeOK' /\ HistoryId' = HistoryId /\ HistoryId \in History /\ HistoryId \in Nat /\ HistoryId <= MaxHistory
      /\ History = 0..MaxHistory
  BY <1>2, InvFacts, MailboxAssumption DEF MailboxTypeOK, HistoryId, History
<1>4. \A m \in Messages : /\ RowHolds(m)' /\ stored'[m] \in [state : {"none", "present", "deleted"}, version : History]
                          /\ skipped'[m] \in History
  BY <1>1, CommitRows, CommitSkips
<1>5. \A j \in Keys : \A d \in {call'[j]} : CallHolds(j, d)' /\ PageIsRecent(j, d)'
  BY CommitCalls
<1>6. call' = [i \in Keys |-> call'[i]]
  BY CommitCalls
<1>7. base' \in History /\ base' <= HistoryId'
  <2>1. base' \in 0..HistoryId
    BY <1>1, CommitBase
  <2> QED BY <1>3, <2>1, MailboxAssumption
<1>8. \A m \in Messages, q \in History : Reached(q)' => Seen(m, q)'
  BY CommitSeen
<1>9. \A d \in {checkpoint'["latest"], checkpoint'["backfill"]} : Placed(d)'
  BY <1>2, <1>3 DEF Moved, Placed
<1>10. TypeOK'
  <2>1. ASSUME NEW j \in Keys
        PROVE  /\ call'[j].phase \in {"idle", "asking", "listing", "fetched"}
               /\ call'[j].phase # "idle" => call'[j].input \in Cursors /\ call'[j].fenced \subseteq Messages
               /\ call'[j].phase = "listing" => call'[j].history \in History
               /\ call'[j].phase = "fetched" => DOMAIN call'[j].page.messages \subseteq Messages /\ call'[j].page.next \in Cursors
    <3>1. PICK d : d = call'[j]
      OBVIOUS
    <3>2. CallHolds(j, d)'
      BY <1>5, <3>1
    <3>3. HistoryId' \in History
      BY <1>3
    <3> QED BY <3>1, <3>2, <3>3, MailboxAssumption DEF CallHolds, PageHolds, Placed, History
  <2>2. stored' \in [Messages -> [state : {"none", "present", "deleted"}, version : History]]
    <3>1. stored' = [m \in Messages |-> stored'[m]]
      BY DEF Commit
    <3> QED BY <1>4, <3>1
  <2>3. skipped' \in [Messages -> History]
    <3>1. skipped' = [m \in Messages |-> skipped'[m]]
      BY DEF Commit
    <3> QED BY <1>4, <3>1
  <2>4. checkpoint' \in [{"latest", "backfill"} -> Cursors]
    BY <1>2 DEF Moved, Placed
  <2> QED BY <1>2, <1>3, <1>7, <2>1, <2>2, <2>3, <2>4, InvFacts DEF TypeOK
<1> QED BY <1>2, <1>4, <1>5, <1>6, <1>7, <1>8, <1>9, <1>10 DEF SyncInv, Moved

----------------------------------------------------------------------------
(* The theorems. *)

LEMMA InvInitially == Init => SyncInv
<1> SUFFICES ASSUME Init PROVE SyncInv
  OBVIOUS
<1>1. /\ mailbox = [present |-> Imported, log |-> <<>>] /\ HistoryId = 0 /\ 0 \in History /\ History \subseteq Nat
  BY MailboxAssumption DEF Init, MailboxInit, HistoryId, History
<1>2. MailboxTypeOK
  BY <1>1, MailboxAssumption DEF MailboxTypeOK
<1>3. Absent \in Cursors /\ Absent.kind = "absent" /\ Absent.value = 0 /\ Position(Absent) = 0
  BY <1>1 DEF Absent, Cursors, Position
<1>4. checkpoint["latest"] = Absent /\ checkpoint["backfill"] = Absent
  BY DEF Init
<1>5. \A k \in Keys : call[k] = Idle
  BY DEF Init
<1>6. \A k \in Keys : \A c \in {call[k]} : CallHolds(k, c) /\ PageIsRecent(k, c)
  BY <1>5 DEF CallHolds, PageIsRecent, Idle
<1>7. \A m \in Messages : RowHolds(m)
  BY <1>1 DEF Init, RowHolds
<1>8. \A m \in Messages, q \in History : Reached(q) => Seen(m, q)
  BY <1>1, <1>3, <1>4 DEF Init, Reached, Seen, Records
<1>9. TypeOK
  BY <1>1, <1>2, <1>3, <1>5 DEF Init, TypeOK, Idle
<1>10. \A c \in {checkpoint["latest"], checkpoint["backfill"]} : Placed(c)
  BY <1>1, <1>3, <1>4 DEF Placed
<1>11. base <= HistoryId
  BY <1>1 DEF Init
<1>12. call = [k \in Keys |-> call[k]]
  BY DEF Init
<1> QED BY <1>3, <1>4, <1>6, <1>7, <1>8, <1>9, <1>10, <1>11, <1>12 DEF SyncInv

LEMMA InvIsKept == SyncInv /\ [Next]_vars => SyncInv'
<1> SUFFICES ASSUME SyncInv, [Next]_vars PROVE SyncInv'
  OBVIOUS
<1>1. CASE MailboxChanges /\ UNCHANGED local
  BY <1>1, MailboxStep
<1>2. ASSUME NEW k \in Keys, Work(k) PROVE SyncInv'
  BY <1>2, CallSteps, CommitStep DEF Work
<1>3. ASSUME NEW m \in Changed, Accept(m, TRUE) \/ Accept(m, FALSE) \/ Apply(m) \/ Confirm(m) \/ GiveUp(m) PROVE SyncInv'
  <2>1. m \in Messages
    BY SyncAssumption
  <2> QED BY <1>3, <2>1, AcceptStep, ApplyStep, ConfirmStep, GiveUpStep
<1>4. CASE UNCHANGED vars
  <2>1. Grows /\ call' = call /\ UNCHANGED <<mailbox, stored, checkpoint, change, base, skipped, receipt>>
    BY <1>4, InvFacts, StillGrows DEF vars, local
  <2>2. \A n \in Messages : RowHolds(n)'
    BY <2>1, InvFacts, RowStays
  <2>3. \A n \in Messages, q \in 0..HistoryId : Seen(n, q) => Seen(n, q)'
    BY <2>1, InvFacts, SeenStays
  <2> QED BY <2>1, <2>2, <2>3, InvFacts, LocalStep
<1> QED BY <1>1, <1>2, <1>3, <1>4 DEF Next

\* The inductive invariant holds in every reachable state.
THEOREM SyncInvariant == Spec => []SyncInv
BY InvInitially, InvIsKept, PTL DEF Spec

\* A page fetched before the receipt of a local change never takes back what the provider
\* confirmed (persist's fence), and every state is well typed.
THEOREM ReceiptsAreKept == Spec => []ReceiptsAreNotOverwritten
<1>1. SyncInv => ReceiptsAreNotOverwritten
  BY InvFacts DEF SyncInv, ReceiptsAreNotOverwritten, RowHolds
<1> QED BY <1>1, SyncInvariant, PTL

\* What the latest lane has behind it is in the store, but for what the code passes over knowingly
\* (synchronizeSource, persist), whichever lanes overlap and however they fail.
THEOREM LaneReflects == Spec => []LaneIsReflected
<1>1. SyncInv => LaneIsReflected
  <2> SUFFICES ASSUME SyncInv, checkpoint["backfill"].kind # "page", NEW m \in Messages, Behind(m) > skipped[m]
               PROVE  Reflects(m)
    BY DEF LaneIsReflected
  <2>1. PICK P : P = Position(checkpoint["latest"])
    OBVIOUS
  <2>2. /\ MailboxTypeOK /\ HistoryId \in Nat /\ HistoryId \in History /\ base \in Nat /\ skipped[m] \in Nat
        /\ stored[m].version \in Nat
    BY InvFacts
  <2>3. P \in 0..HistoryId
    BY <2>1, <2>2, PlacedNumbers DEF SyncInv
  <2>4. P \in History /\ Reached(P)
    BY <2>1, <2>2, <2>3, MailboxAssumption DEF Reached, History
  <2>5. Seen(m, P)
    BY <2>4 DEF SyncInv
  <2>6. Behind(m) \in {0} \cup Records(m, base, P) /\ Behind(m) \in Nat
    <3>1. {0} \cup Records(m, base, P) \in SUBSET (0..P)
      BY <2>2, <2>3 DEF Records
    <3>2. Behind(m) = Max({0} \cup Records(m, base, P))
      BY <2>1 DEF Behind
    <3>3. Max({0} \cup Records(m, base, P)) \in {0} \cup Records(m, base, P)
      <4>1. PICK S : S = {0} \cup Records(m, base, P)
        OBVIOUS
      <4>2. S \in SUBSET (0..P) /\ S # {} /\ P \in Nat
        BY <2>2, <2>3, <3>1, <4>1
      <4> QED BY <4>1, <4>2, MaxOfNaturals
    <3> QED BY <2>3, <3>1, <3>2, <3>3
  <2>7. Behind(m) \in Records(m, base, P)
    BY <2>2, <2>6
  <2>8. /\ m \in mailbox.present => stored[m].state = "present" /\ stored[m].version >= Behind(m)
        /\ m \notin mailbox.present /\ stored[m].state = "present" => Records(m, P, HistoryId) # {}
    BY <2>5, <2>7 DEF Seen
  <2>9. ASSUME Records(m, P, HistoryId) # {} PROVE Version(m, HistoryId) > P
    <3>1. PICK j \in Records(m, P, HistoryId) : TRUE
      BY <2>9
    <3>2. j > P /\ j \in Nat /\ j \in Records(m, 0, HistoryId)
      BY <2>2, <2>3, <3>1 DEF Records
    <3>3. Version(m, HistoryId) \in Nat /\ j <= Version(m, HistoryId)
      BY <2>2, <3>2, VersionIsLast
    <3> QED BY <2>3, <3>2, <3>3
  <2> QED BY <2>1, <2>8, <2>9 DEF Reflects
<1> QED BY <1>1, SyncInvariant, PTL

=============================================================================
