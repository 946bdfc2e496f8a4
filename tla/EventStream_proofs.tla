------------------------- MODULE EventStream_proofs -------------------------
(***************************************************************************)
(* The event stream implements the feed for every retention, page size and *)
(* number of lost connections.                                             *)
(*                                                                         *)
(* The rows that are kept are exactly the events above the floor           *)
(* (JournalInv), so a page read at a place that has not expired is an      *)
(* unbroken run of events after it (PageInv).  What was sent and not yet   *)
(* read is an unbroken run after the client's place (WireInv) and reaches  *)
(* as far as the server's place (StreamInv), so the client's place never   *)
(* passes an event it was not told (ClientInv).                            *)
(***************************************************************************)
EXTENDS EventStream, FiniteSetTheorems, TLAPS

\* The client's place once it has read a ready frame that is under way.
Base == IF wire.ready # NoToken THEN wire.ready ELSE client.cursor

\* The place up to which the server has sent everything.
Place == IF stream.cursor # NoToken THEN stream.cursor ELSE page.state

\* A set of the events in all, every one after a place up to each of its members.
Unbroken(set, after, all) ==
  /\ set \subseteq Above(all, after)
  /\ \A e \in set, f \in all : after < f /\ f <= e => f \in set

\* ... and up to another place.
Complete(set, after, upTo, all) ==
  /\ after <= upTo
  /\ \A e \in set : e <= upTo
  /\ \A f \in all : after < f /\ f <= upTo => f \in set

JournalInv ==
  /\ JournalTypeOK /\ IsFiniteSet(events)
  /\ events = Above(log, floor)
  /\ floor <= head /\ head <= counter
  /\ \A e \in log : e <= head

ClientInv ==
  /\ client.cursor <= head
  /\ client.cursor = NoToken => client.known = {}
  /\ NothingIsMissed

WireInv ==
  /\ wire.ready # NoToken => wire.ready <= head /\ client.cursor \in {NoToken, wire.ready}
  /\ wire.events # {} \/ wire.reset # NoToken => Base # NoToken
  /\ Unbroken(wire.events, Base, log)
  /\ wire.reset # NoToken =>
       /\ wire.reset <= head
       /\ \A e \in wire.events \cup {Base} : e < floor /\ e < wire.reset

StreamInv ==
  /\ stream.cursor <= head
  /\ stream.phase # "off" /\ ~stream.ready =>
       wire = Silent /\ stream.cursor = client.cursor /\ stream.phase \in {"first", "subscribing", "sending"}
  /\ stream.ready =>
       /\ stream.phase \in {"sending", "reading", "waiting"}
       /\ stream.phase # "sending" => stream.cursor # NoToken
       /\ Base # NoToken /\ wire.reset = NoToken
       /\ Complete(wire.events, Base, Place, log)

PageInv ==
  stream.phase \in {"subscribing", "sending"} =>
    /\ page.state <= head
    /\ stream.cursor = NoToken => page.events = {} /\ ~page.more /\ ~page.reset
    /\ page.reset => page.events = {} /\ stream.cursor < floor /\ stream.cursor < page.state
    /\ Unbroken(page.events, stream.cursor, log)
    /\ ~page.more /\ ~page.reset /\ stream.cursor # NoToken => Complete(page.events, stream.cursor, page.state, log)

Inv == TypeOK /\ JournalInv /\ ClientInv /\ WireInv /\ StreamInv /\ PageInv

\* Retention keeps what is above the floor and moves the floor to an event.
LEMMA PrunedEffect ==
  ASSUME NEW rows \in SUBSET Nat, IsFiniteSet(rows), Pruned(rows), floor \in Nat,
         \A e \in rows : e > floor
  PROVE  /\ events' \in SUBSET Nat /\ IsFiniteSet(events')
         /\ events' = Above(rows, floor')
         /\ floor' \in Nat /\ floor <= floor'
         /\ floor' = floor \/ floor' \in rows
<1>1. CASE events' = rows /\ floor' = floor
  <2>1. rows = Above(rows, floor)
    BY DEF Above
  <2> QED BY <1>1, <2>1
<1>2. CASE \E cut \in rows : events' = Above(rows, cut) /\ floor' = cut
  <2>1. PICK cut \in rows : events' = Above(rows, cut) /\ floor' = cut
    BY <1>2
  <2>2. events' \in SUBSET rows
    BY <2>1 DEF Above
  <2>3. IsFiniteSet(events')
    BY <2>2, FS_Subset
  <2>4. cut \in Nat /\ floor <= cut
    OBVIOUS
  <2> QED BY <2>1, <2>2, <2>3, <2>4
<1> QED BY <1>1, <1>2 DEF Pruned

\* A transaction keeps the journal in order, and its events follow all others.
LEMMA CommitsEffect ==
  ASSUME JournalInv, NEW n \in 1..Burst, Commits(n)
  PROVE  /\ JournalInv'
         /\ head <= head' /\ floor <= floor' /\ log \subseteq log'
         /\ \A e \in log' \ log : head < e
<1> DEFINE new == counter + 1 .. counter + n
<1>1. /\ counter \in Nat /\ head \in Nat /\ floor \in Nat /\ events \in SUBSET Nat /\ log \in SUBSET Nat /\ n \in Nat
  BY JournalAssumption DEF JournalInv, JournalTypeOK, Seqs
<1>2. new \in SUBSET Nat /\ IsFiniteSet(new)
  BY <1>1, FS_Interval
<1>3. /\ counter' = counter + n /\ head' = counter + n
      /\ log' = log \cup new /\ Pruned(events \cup new)
  BY DEF Commits
<1>4. /\ IsFiniteSet(events) /\ events = Above(log, floor)
      /\ floor <= head /\ head <= counter /\ \A e \in log : e <= head
  BY DEF JournalInv
<1>5. \A e \in new : counter < e /\ e <= counter + n
  BY <1>1
<1>6. \A e \in events \cup new : e > floor
  BY <1>1, <1>4, <1>5 DEF Above
<1>7. IsFiniteSet(events \cup new)
  BY <1>2, <1>4, FS_Union
<1>8. /\ events' \in SUBSET Nat /\ IsFiniteSet(events')
      /\ events' = Above(events \cup new, floor')
      /\ floor' \in Nat /\ floor <= floor'
      /\ floor' = floor \/ floor' \in events \cup new
  BY <1>1, <1>2, <1>3, <1>6, <1>7, PrunedEffect
<1> HIDE DEF new
<1>9. events' = Above(log', floor')
  <2>1. ASSUME NEW e \in Nat, e > floor'
        PROVE  e \in log' <=> e \in events \cup new
    <3>1. e > floor
      BY <2>1, <1>1, <1>8
    <3> QED BY <3>1, <1>3, <1>4 DEF Above
  <2>2. log' \in SUBSET Nat
    BY <1>1, <1>2, <1>3
  <2> QED BY <2>1, <2>2, <1>1, <1>2, <1>8 DEF Above
<1>10. floor' <= head'
  BY <1>1, <1>3, <1>4, <1>5, <1>8 DEF Above
<1>11. \A e \in log' : e <= head'
  <2>1. ASSUME NEW e \in log PROVE e <= counter + n
    BY <1>1, <1>4
  <2> QED BY <2>1, <1>3, <1>5
<1>12. log' \in SUBSET Nat /\ head' \in Nat /\ counter' \in Nat
  BY <1>1, <1>2, <1>3
<1>13. JournalInv'
  BY <1>3, <1>8, <1>9, <1>10, <1>11, <1>12 DEF JournalInv, JournalTypeOK, Seqs, Above
<1>14. head <= head' /\ \A e \in log' \ log : head < e
  BY <1>1, <1>2, <1>3, <1>4, <1>5
<1> QED BY <1>3, <1>8, <1>13, <1>14

\* The record that inbox.changes builds.
LEMMA PageType ==
  \A list \in SUBSET Seqs, more, reset \in BOOLEAN, state \in Seqs :
    [events |-> list, more |-> more, reset |-> reset, state |-> state] \in Pages
BY Zenon DEF Pages

\* A page starts unbroken after the token, and reaches the state unless there is more.
LEMMA PageEffect ==
  ASSUME JournalInv, NEW since \in Tokens, since <= head, NEW p \in PagesAfter(since)
  PROVE  /\ p \in Pages /\ p.state <= head
         /\ since = NoToken => p.events = {} /\ ~p.more /\ ~p.reset
         /\ p.reset => p.events = {} /\ since < floor /\ since < p.state
         /\ Unbroken(p.events, since, log)
         /\ ~p.more /\ ~p.reset /\ since # NoToken => Complete(p.events, since, p.state, log)
<1>1. /\ head \in Nat /\ floor \in Nat /\ events \in SUBSET Nat /\ log \in SUBSET Nat
      /\ IsFiniteSet(events) /\ events = Above(log, floor)
      /\ floor <= head /\ \A e \in log : e <= head
  BY DEF JournalInv, JournalTypeOK, Seqs
<1>2. since \in Int /\ (since # NoToken => since \in Nat)
  BY DEF Tokens, Seqs, NoToken
<1>3. CASE since = NoToken \/ Expired(since)
  <2>1. p = [events |-> {}, more |-> FALSE, reset |-> since # NoToken, state |-> head]
    BY <1>3 DEF PagesAfter, StartPage
  <2>2. p \in Pages
    BY <2>1, <1>1 DEF Pages, Seqs
  <2>3. since # NoToken => since < floor /\ since < head
    BY <1>1, <1>2, <1>3 DEF Expired
  <2>4. p.events = {} /\ p.state = head /\ ~p.more /\ (p.reset <=> since # NoToken)
    BY <2>1, Zenon
  <2> QED BY <2>2, <2>3, <2>4, <1>1 DEF Unbroken, Above
<1>4. CASE since # NoToken /\ ~Expired(since)
  <2> DEFINE rows == Rows(since)
             first == FirstOf(rows)
  <2>1. floor <= since
    BY <1>1, <1>2, <1>4 DEF Expired
  <2>2. rows = Above(log, since)
    <3>1. ASSUME NEW e \in Nat PROVE e \in events /\ since < e /\ e <= head <=> e \in log /\ e > since
      BY <2>1, <1>1, <1>2, <1>4 DEF Above
    <3> QED BY <3>1, <1>1 DEF Rows, Above
  <2>3. IsFiniteSet(rows) /\ rows \in SUBSET Nat
    BY <1>1, FS_Subset DEF Rows
  <2>4. \A e \in rows : since < e /\ e <= head
    BY <1>2 DEF Rows
  <2>5. ASSUME NEW e \in first, NEW f \in rows, f <= e PROVE f \in first
    <3> DEFINE below(x) == {g \in rows : g < x}
    <3>1. e \in rows /\ Cardinality(below(e)) < PageSize
      BY <2>5 DEF FirstOf
    <3>2. IsFiniteSet(below(e)) /\ below(f) \subseteq below(e)
      <4>1. e \in Nat /\ f \in Nat /\ \A g \in rows : g \in Nat
        BY <2>3, <3>1
      <4>2. ASSUME NEW g \in rows, g < f PROVE g < e
        BY <4>1, <4>2, <2>5
      <4>3. below(e) \in SUBSET rows /\ below(f) \subseteq below(e)
        BY <4>2
      <4> QED BY <4>3, <2>3, FS_Subset
    <3>3. IsFiniteSet(below(f)) /\ Cardinality(below(f)) <= Cardinality(below(e))
      BY <3>2, FS_Subset
    <3>4. /\ Cardinality(below(f)) \in Nat /\ Cardinality(below(e)) \in Nat
      BY <3>2, <3>3, FS_CardinalityType
    <3>5. PageSize \in Nat
      BY JournalAssumption
    <3>6. Cardinality(below(f)) < PageSize
      BY <3>1, <3>3, <3>4, <3>5
    <3> QED BY <3>6 DEF FirstOf
  <2>6. first \subseteq rows
    BY DEF FirstOf
  <2>7. \/ first = rows /\ p = [events |-> rows, more |-> FALSE, reset |-> FALSE, state |-> head]
        \/ \E last \in first : p = [events |-> first, more |-> TRUE, reset |-> FALSE, state |-> last]
    BY <1>4 DEF PagesAfter
  <2>8. PICK last \in first \cup {head} :
          /\ p.events = first /\ p.reset = FALSE /\ p.state = last
          /\ (p.more = FALSE /\ last = head /\ first = rows) \/ p.more = TRUE
    BY <2>7
  <2> HIDE DEF first, rows
  <2>9. last \in Nat /\ last <= head
    BY <2>3, <2>4, <2>6, <1>1
  <2>10. p \in Pages
    <3>1. /\ first \in SUBSET Seqs /\ rows \in SUBSET Seqs /\ head \in Seqs
          /\ \A e \in first : e \in Seqs
      BY <2>3, <2>6, <1>1 DEF Seqs
    <3> QED BY <3>1, <2>7, PageType
  <2>11. Unbroken(p.events, since, log)
    BY <2>2, <2>5, <2>6, <2>8 DEF Unbroken, Above
  <2>12. ASSUME ~p.more PROVE Complete(p.events, since, p.state, log)
    <3>1. p.events = rows /\ p.state = head
      BY <2>8, <2>12
    <3>2. \A f \in log : since < f => f \in rows
      BY <2>2 DEF Above
    <3> QED BY <3>1, <3>2, <2>4 DEF Complete
  <2> QED BY <2>8, <2>9, <2>10, <2>11, <2>12, <1>4
<1> QED BY <1>3, <1>4

\* The types of the fields.
LEMMA Fields ==
  ASSUME TypeOK
  PROVE  /\ head \in Nat /\ floor \in Nat /\ log \in SUBSET Nat
         /\ stream.phase \in Phases /\ stream.cursor \in Tokens /\ stream.ready \in BOOLEAN /\ stream.readNeeded \in BOOLEAN
         /\ page.events \in SUBSET Nat /\ page.more \in BOOLEAN /\ page.reset \in BOOLEAN /\ page.state \in Nat
         /\ wire.ready \in Tokens /\ wire.events \in SUBSET Nat /\ wire.reset \in Tokens
         /\ client.cursor \in Tokens /\ client.known \in SUBSET Nat
BY DEF TypeOK, JournalTypeOK, Streams, Pages, Wires, Clients, Seqs

\* ... and the records built from them.
LEMMA StreamType ==
  \A phase \in Phases, cursor \in Tokens, ready, readNeeded \in BOOLEAN :
    [phase |-> phase, cursor |-> cursor, ready |-> ready, readNeeded |-> readNeeded] \in Streams
BY Zenon DEF Streams

LEMMA WireType ==
  \A ready, reset \in Tokens, set \in SUBSET Seqs : [ready |-> ready, events |-> set, reset |-> reset] \in Wires
BY Zenon DEF Wires

LEMMA ClientType ==
  \A cursor \in Tokens, set \in SUBSET Seqs : [cursor |-> cursor, known |-> set] \in Clients
BY Zenon DEF Clients

LEMMA StreamFields ==
  ASSUME TypeOK
  PROVE  stream = [phase |-> stream.phase, cursor |-> stream.cursor, ready |-> stream.ready, readNeeded |-> stream.readNeeded]
BY DEF TypeOK, Streams

\* The initial states.
LEMMA InitInv == Init => Inv
<1> SUFFICES ASSUME Init PROVE Inv
  OBVIOUS
<1>1. /\ counter = 0 /\ events = {} /\ head = 0 /\ floor = 0 /\ log = {} /\ drops = 0
      /\ stream = Off /\ page = NoPage /\ wire = Silent /\ client = [cursor |-> NoToken, known |-> {}]
  BY DEF Init, JournalInit
<1>2. JournalInv
  BY <1>1, FS_EmptySet DEF JournalInv, JournalTypeOK, Seqs, Above
<1>3. TypeOK
  <2>1. NoToken \in Tokens /\ {} \in SUBSET Seqs /\ 0 \in Seqs /\ "off" \in Phases
    BY DEF Tokens, Seqs, Phases
  <2>2. stream \in Streams
    BY <1>1, <2>1, StreamType DEF Off
  <2>3. page \in Pages
    BY <1>1, <2>1, PageType DEF NoPage
  <2>4. wire \in Wires /\ client \in Clients
    BY <1>1, <2>1, WireType, ClientType DEF Silent
  <2> QED BY <1>1, <1>2, <2>2, <2>3, <2>4 DEF TypeOK, JournalInv
<1>4. ClientInv
  BY <1>1 DEF ClientInv, NothingIsMissed, NoToken
<1>5. WireInv
  BY <1>1 DEF WireInv, Silent, Unbroken
<1>6. StreamInv /\ PageInv
  BY <1>1 DEF StreamInv, PageInv, Off, NoToken
<1> QED BY <1>2, <1>3, <1>4, <1>5, <1>6 DEF Inv

\* Events beyond a top break nothing below it.
LEMMA LogGrows ==
  ASSUME NEW old \in SUBSET Nat, NEW new \in SUBSET Nat, NEW top \in Nat,
         old \subseteq new, \A e \in new \ old : top < e, \A e \in old : e <= top
  PROVE  \A set \in SUBSET Nat, after \in Int :
           /\ Unbroken(set, after, old) => Unbroken(set, after, new)
           /\ \A upTo \in Int : upTo <= top /\ Complete(set, after, upTo, old) => Complete(set, after, upTo, new)
<1> SUFFICES ASSUME NEW set \in SUBSET Nat, NEW after \in Int
             PROVE  /\ Unbroken(set, after, old) => Unbroken(set, after, new)
                    /\ \A upTo \in Int : upTo <= top /\ Complete(set, after, upTo, old) => Complete(set, after, upTo, new)
  OBVIOUS
<1>1. \A f \in new : f <= top => f \in old
  OBVIOUS
<1>2. ASSUME Unbroken(set, after, old) PROVE Unbroken(set, after, new)
  <2>1. \A e \in set : e \in old /\ after < e /\ e <= top
    BY <1>2 DEF Unbroken, Above
  <2>2. ASSUME NEW e \in set, NEW f \in new, after < f, f <= e PROVE f \in set
    <3>1. f <= top
      BY <2>1, <2>2
    <3> QED BY <3>1, <2>2, <1>1, <1>2 DEF Unbroken
  <2> QED BY <2>1, <2>2 DEF Unbroken, Above
<1>3. ASSUME NEW upTo \in Int, upTo <= top, Complete(set, after, upTo, old) PROVE Complete(set, after, upTo, new)
  BY <1>1, <1>3 DEF Complete
<1> QED BY <1>2, <1>3

\* New events lie beyond every place that a page, a frame or the client holds.
LEMMA CommitKeeps ==
  ASSUME Inv, NEW n \in 1..Burst, Commit(n)
  PROVE  Inv'
<1>1. /\ JournalInv'
      /\ head <= head' /\ floor <= floor' /\ log \subseteq log'
      /\ \A e \in log' \ log : head < e
  BY CommitsEffect DEF Inv, Commit
<1>2. /\ UNCHANGED <<page, wire, client, drops>>
      /\ stream'.phase = stream.phase /\ stream'.cursor = stream.cursor /\ stream'.ready = stream.ready
      /\ stream' \in Streams
  <2>1. stream' = [stream EXCEPT !.readNeeded = @ \/ Subscribed]
    BY DEF Commit
  <2>2. (stream.readNeeded \/ Subscribed) \in BOOLEAN
    OBVIOUS
  <2>3. stream' = [phase |-> stream.phase, cursor |-> stream.cursor, ready |-> stream.ready,
                   readNeeded |-> stream.readNeeded \/ Subscribed]
    BY <2>1, StreamFields, Zenon DEF Inv
  <2>4. stream' \in Streams
    BY <2>2, <2>3, StreamType, Fields DEF Inv
  <2> QED BY <2>3, <2>4 DEF Commit
<1>3. /\ head \in Nat /\ head' \in Nat /\ floor \in Nat /\ floor' \in Nat
      /\ log \in SUBSET Nat /\ log' \in SUBSET Nat
  BY <1>1 DEF Inv, JournalInv, JournalTypeOK, Seqs
<1>4. TypeOK'
  BY <1>1, <1>2 DEF Inv, TypeOK, JournalInv
<1> USE Fields DEF Inv
<1>5. ClientInv'
  <2>1. client.cursor \in Int /\ client.cursor <= head
    BY DEF ClientInv, Tokens, Seqs, NoToken
  <2>2. ASSUME NEW e \in log', e <= client.cursor PROVE e \in client.known
    <3>1. e \in log
      BY <1>1, <1>3, <2>1, <2>2
    <3> QED BY <3>1, <2>2 DEF ClientInv, NothingIsMissed
  <2>3. client.cursor <= head'
    BY <1>1, <1>3, <2>1
  <2> QED BY <1>2, <2>2, <2>3 DEF ClientInv, NothingIsMissed
<1>6. Base' = Base /\ Place' = Place
  BY <1>2 DEF Base, Place
<1>7. \A set \in SUBSET Nat, after \in Int :
        /\ Unbroken(set, after, log) => Unbroken(set, after, log')
        /\ \A upTo \in Int : upTo <= head /\ Complete(set, after, upTo, log) => Complete(set, after, upTo, log')
  BY <1>1, <1>3, LogGrows DEF JournalInv
<1>8. Base \in Int /\ Place \in Int /\ (stream.ready => Place <= head)
  BY DEF Base, Place, Tokens, Seqs, NoToken, StreamInv, PageInv
<1>9. WireInv'
  BY <1>1, <1>2, <1>3, <1>6, <1>7, <1>8 DEF WireInv, Tokens, Seqs, NoToken
<1>10. StreamInv'
  BY <1>1, <1>2, <1>3, <1>6, <1>7, <1>8 DEF StreamInv, Tokens, Seqs, NoToken
<1>11. PageInv'
  BY <1>1, <1>2, <1>3, <1>7 DEF PageInv, Tokens, Seqs, NoToken
<1> QED BY <1>1, <1>4, <1>5, <1>9, <1>10, <1>11

\* A step that leaves the journal alone, and what follows it.
LEMMA JournalKept == ASSUME JournalInv, UNCHANGED journalVars PROVE JournalInv'
BY DEF JournalInv, JournalTypeOK, journalVars, Above

\* A step that changes the handler only by what is not a place.
LEMMA WakeKeeps ==
  ASSUME Inv, UNCHANGED <<journalVars, page, wire, client, drops>>, stream' \in Streams,
         stream'.cursor = stream.cursor, stream'.ready = stream.ready,
         \/ stream'.phase = stream.phase
         \/ stream.ready /\ stream.phase = "waiting" /\ stream'.phase = "reading"
         \/ ~stream.ready /\ stream.phase = "subscribing" /\ stream'.phase = "sending"
  PROVE  Inv'
<1>1. JournalInv'
  BY JournalKept DEF Inv
<1>2. /\ head' = head /\ floor' = floor /\ log' = log
      /\ page' = page /\ wire' = wire /\ client' = client /\ drops' = drops
  BY DEF journalVars
<1> USE DEF Inv
<1>3. TypeOK'
  BY <1>1, <1>2 DEF TypeOK, JournalInv
<1>4. ClientInv'
  BY <1>2 DEF ClientInv, NothingIsMissed
<1>5. Base' = Base /\ Place' = Place
  BY <1>2 DEF Base, Place
<1>6. WireInv'
  BY <1>2, <1>5 DEF WireInv
<1>7. StreamInv'
  BY <1>2, <1>5 DEF StreamInv
<1>8. PageInv'
  BY <1>2 DEF PageInv, StreamInv
<1> QED BY <1>1, <1>3, <1>4, <1>6, <1>7, <1>8

\* The handler ends: what was sent may or may not arrive.
LEMMA EndKeeps ==
  ASSUME Inv, UNCHANGED <<journalVars, client>>, stream' = Off, page' = NoPage, wire' \in {wire, Silent}, drops' \in Nat
  PROVE  Inv'
<1>1. JournalInv'
  BY JournalKept DEF Inv
<1>2. head' = head /\ floor' = floor /\ log' = log /\ client' = client
  BY DEF journalVars
<1>3. NoToken \in Tokens /\ {} \in SUBSET Seqs /\ 0 \in Seqs /\ "off" \in Phases
  BY DEF Tokens, Seqs, Phases
<1>4. stream' \in Streams
  BY <1>3, StreamType DEF Off
<1>5. page' \in Pages
  BY <1>3, PageType DEF NoPage
<1>6. wire' \in Wires
  BY <1>3, WireType DEF Silent, Inv, TypeOK
<1> USE DEF Inv
<1>7. TypeOK'
  BY <1>1, <1>2, <1>4, <1>5, <1>6 DEF TypeOK, JournalInv
<1>8. ClientInv'
  BY <1>2 DEF ClientInv, NothingIsMissed
<1>9. WireInv'
  <2>1. CASE wire' = wire
    BY <1>2, <2>1 DEF WireInv, Base
  <2>2. CASE wire' = Silent
    BY <1>2, <2>2 DEF WireInv, Silent, Unbroken
  <2> QED BY <2>1, <2>2
<1>10. StreamInv' /\ PageInv'
  <2>1. /\ stream'.phase = "off" /\ stream'.cursor = NoToken /\ ~stream'.ready
    BY DEF Off
  <2>2. NoToken <= head'
    BY <1>2, Fields DEF NoToken
  <2> QED BY <2>1, <2>2 DEF StreamInv, PageInv
<1> QED BY <1>1, <1>7, <1>8, <1>9, <1>10

\* A page that was read has no holes, and the places it was read from are those the page is for.
LEMMA ReadKeeps ==
  ASSUME Inv, UNCHANGED <<journalVars, wire, client, drops>>, page' \in PagesAfter(stream.cursor),
         \/ stream.phase = "first" /\ stream' = [stream EXCEPT !.phase = "subscribing"]
         \/ stream.phase = "reading" /\ stream' = [stream EXCEPT !.phase = "sending"]
  PROVE  Inv'
<1>1. JournalInv'
  BY JournalKept DEF Inv
<1>2. /\ head' = head /\ floor' = floor /\ log' = log
      /\ wire' = wire /\ client' = client /\ drops' = drops
  BY DEF journalVars
<1> USE DEF Inv
<1>3. stream.cursor \in Tokens /\ stream.cursor <= head
  BY Fields DEF StreamInv
<1>4. /\ page' \in Pages /\ page'.state <= head
      /\ stream.cursor = NoToken => page'.events = {} /\ ~page'.more /\ ~page'.reset
      /\ page'.reset => page'.events = {} /\ stream.cursor < floor /\ stream.cursor < page'.state
      /\ Unbroken(page'.events, stream.cursor, log)
      /\ ~page'.more /\ ~page'.reset /\ stream.cursor # NoToken => Complete(page'.events, stream.cursor, page'.state, log)
  BY <1>3, PageEffect
<1>5. /\ stream' = [phase |-> stream'.phase, cursor |-> stream.cursor, ready |-> stream.ready, readNeeded |-> stream.readNeeded]
      /\ stream'.cursor = stream.cursor /\ stream'.ready = stream.ready
      /\ \/ stream.phase = "first" /\ stream'.phase = "subscribing"
         \/ stream.phase = "reading" /\ stream'.phase = "sending"
  BY StreamFields
<1>6. stream' \in Streams
  <2>1. stream'.phase \in Phases
    BY <1>5 DEF Phases
  <2> QED BY <2>1, <1>5, StreamType, Fields
<1>7. TypeOK'
  BY <1>1, <1>2, <1>4, <1>6 DEF TypeOK, JournalInv
<1>8. ClientInv'
  BY <1>2 DEF ClientInv, NothingIsMissed
<1>9. Base' = Base
  BY <1>2 DEF Base
<1>10. WireInv'
  BY <1>2, <1>9 DEF WireInv
<1>11. StreamInv'
  <2>1. CASE stream.phase = "first"
    BY <1>2, <1>5, <2>1 DEF StreamInv
  <2>2. CASE stream.phase = "reading"
    <3>1. stream.ready /\ stream.cursor # NoToken
      BY <2>2 DEF StreamInv
    <3>2. Place' = Place
      BY <3>1, <1>5 DEF Place
    <3> QED BY <1>2, <1>5, <1>9, <2>2, <3>1, <3>2 DEF StreamInv
  <2> QED BY <1>5, <2>1, <2>2
<1>12. PageInv'
  BY <1>2, <1>4, <1>5 DEF PageInv
<1> QED BY <1>1, <1>7, <1>8, <1>10, <1>11, <1>12

\* The first frame names the server's place.
LEMMA SendReadyKeeps == ASSUME Inv, SendReady PROVE Inv'
<1>1. JournalInv'
  BY JournalKept DEF Inv, SendReady
<1> USE DEF Inv
<1>2. /\ head' = head /\ floor' = floor /\ log' = log /\ head \in Nat
      /\ page' = page /\ client' = client /\ drops' = drops
      /\ stream.phase = "sending" /\ ~stream.ready
  BY Fields DEF SendReady, journalVars
<1>3. wire = Silent /\ stream.cursor = client.cursor
  BY <1>2 DEF StreamInv
<1>4. /\ Place \in Nat /\ Place <= head /\ (client.cursor # NoToken => Place = client.cursor)
      /\ page.state \in Nat
  BY <1>2, <1>3, Fields DEF Place, PageInv, StreamInv, Tokens, Seqs, NoToken
<1>5. wire' = [ready |-> Place, events |-> {}, reset |-> NoToken]
  BY <1>3 DEF SendReady, Silent, Place
<1>6. /\ stream' = [phase |-> "sending", cursor |-> stream.cursor, ready |-> TRUE, readNeeded |-> stream.readNeeded]
      /\ stream'.phase = "sending" /\ stream'.cursor = stream.cursor /\ stream'.ready
  BY <1>2, StreamFields DEF SendReady
<1>7. TypeOK'
  <2>1. "sending" \in Phases /\ Place \in Tokens /\ NoToken \in Tokens /\ {} \in SUBSET Seqs
    BY <1>4 DEF Phases, Tokens, Seqs
  <2>2. stream' \in Streams
    BY <1>6, <2>1, StreamType, Fields
  <2>3. wire' \in Wires
    BY <1>5, <2>1, WireType
  <2> QED BY <1>1, <1>2, <2>2, <2>3 DEF TypeOK, JournalInv
<1>8. ClientInv'
  BY <1>2 DEF ClientInv, NothingIsMissed
<1>9. Place # NoToken /\ Base' = Place /\ Place' = Place
  BY <1>2, <1>4, <1>5, <1>6 DEF Base, Place, NoToken
<1>10. WireInv'
  BY <1>2, <1>4, <1>5, <1>9 DEF WireInv, Unbroken
<1>11. StreamInv'
  <2>1. Complete(wire'.events, Place, Place, log)
    BY <1>4, <1>5, Fields DEF Complete
  <2> QED BY <1>2, <1>5, <1>6, <1>9, <2>1 DEF StreamInv
<1>12. PageInv'
  BY <1>2, <1>6 DEF PageInv
<1> QED BY <1>1, <1>7, <1>8, <1>10, <1>11, <1>12

\* A reset frame follows everything up to an expired place.
LEMMA SendResetKeeps == ASSUME Inv, SendReset PROVE Inv'
<1>1. JournalInv'
  BY JournalKept DEF Inv, SendReset
<1> USE DEF Inv
<1>2. /\ head' = head /\ floor' = floor /\ log' = log /\ head \in Nat /\ floor \in Nat
      /\ page' = NoPage /\ client' = client /\ drops' = drops /\ stream' = Off
      /\ stream.phase = "sending" /\ stream.ready /\ page.reset
  BY Fields DEF SendReset, journalVars
<1>3. /\ page.state \in Nat /\ page.state <= head
      /\ stream.cursor \in Int /\ stream.cursor # NoToken /\ stream.cursor < floor /\ stream.cursor < page.state
      /\ Base # NoToken /\ Base \in Int /\ Complete(wire.events, Base, Place, log) /\ Place = stream.cursor
  BY <1>2, Fields DEF PageInv, StreamInv, Place, Base, Tokens, Seqs, NoToken
<1>4. /\ wire' = [ready |-> wire.ready, events |-> wire.events, reset |-> page.state]
      /\ wire'.ready = wire.ready /\ wire'.events = wire.events /\ wire'.reset = page.state
  BY DEF SendReset, TypeOK, Wires
<1>5. NoToken \in Tokens /\ {} \in SUBSET Seqs /\ 0 \in Seqs /\ "off" \in Phases /\ page.state \in Tokens
      /\ wire.events \in SUBSET Seqs
  BY <1>3, Fields DEF Tokens, Seqs, Phases
<1>6. stream' \in Streams
  BY <1>2, <1>5, StreamType DEF Off
<1>7. page' \in Pages
  BY <1>2, <1>5, PageType DEF NoPage
<1>8. wire' \in Wires
  BY <1>4, <1>5, WireType, Fields
<1>9. TypeOK'
  BY <1>1, <1>2, <1>6, <1>7, <1>8 DEF TypeOK, JournalInv
<1>10. ClientInv'
  BY <1>2 DEF ClientInv, NothingIsMissed
<1>11. Base' = Base
  BY <1>2, <1>4 DEF Base
<1>12. WireInv'
  <2>1. \A e \in wire.events \cup {Base} : e <= stream.cursor /\ e \in Int
    BY <1>3, Fields DEF Complete
  <2>2. \A e \in wire.events \cup {Base} : e < floor /\ e < page.state
    BY <2>1, <1>2, <1>3
  <2> QED BY <1>2, <1>3, <1>4, <1>11, <2>2 DEF WireInv
<1>13. StreamInv' /\ PageInv'
  BY <1>2 DEF StreamInv, PageInv, Off, NoToken
<1> QED BY <1>1, <1>9, <1>10, <1>12, <1>13

\* The next event of the page follows everything that was sent.
LEMMA SendEventKeeps == ASSUME Inv, SendEvent PROVE Inv'
<1>1. JournalInv'
  BY JournalKept DEF Inv, SendEvent
<1> USE DEF Inv
<1>2. /\ head' = head /\ floor' = floor /\ log' = log /\ head \in Nat /\ log \in SUBSET Nat
      /\ client' = client /\ drops' = drops
      /\ stream.phase = "sending" /\ stream.ready /\ ~page.reset
  BY Fields DEF SendEvent, journalVars
<1>3. PICK e \in page.events :
        /\ \A f \in page.events : e <= f
        /\ wire' = [wire EXCEPT !.events = @ \cup {e}]
        /\ page' = [page EXCEPT !.events = @ \ {e}]
        /\ stream' = [stream EXCEPT !.cursor = e]
  BY DEF SendEvent
<1>4. /\ wire' = [ready |-> wire.ready, events |-> wire.events \cup {e}, reset |-> wire.reset]
      /\ wire'.ready = wire.ready /\ wire'.events = wire.events \cup {e} /\ wire'.reset = wire.reset
  BY <1>3 DEF TypeOK, Wires
<1>5. /\ page' = [events |-> page.events \ {e}, more |-> page.more, reset |-> page.reset, state |-> page.state]
      /\ page'.events = page.events \ {e} /\ page'.more = page.more
      /\ page'.reset = page.reset /\ page'.state = page.state
  BY <1>3 DEF TypeOK, Pages
<1>6. /\ stream' = [phase |-> stream.phase, cursor |-> e, ready |-> stream.ready, readNeeded |-> stream.readNeeded]
      /\ stream'.phase = "sending" /\ stream'.cursor = e /\ stream'.ready
  BY <1>2, <1>3, StreamFields
<1>7. /\ stream.cursor \in Nat /\ stream.cursor # NoToken /\ Place = stream.cursor
      /\ page.events \in SUBSET Nat /\ page.state \in Nat
      /\ Unbroken(page.events, stream.cursor, log)
      /\ ~page.more => Complete(page.events, stream.cursor, page.state, log)
      /\ page.state <= head
  BY <1>2, <1>3, Fields DEF PageInv, Place, Tokens, Seqs, NoToken
<1>8. /\ Base # NoToken /\ Base \in Int /\ wire.reset = NoToken /\ Complete(wire.events, Base, stream.cursor, log)
      /\ Unbroken(wire.events, Base, log) /\ wire.events \in SUBSET Nat
  BY <1>2, <1>7, Fields DEF StreamInv, WireInv, Base, Tokens, Seqs, NoToken
<1>9. /\ e \in Nat /\ e \in log /\ stream.cursor < e /\ e <= head /\ Base < e
      /\ \A f \in log : stream.cursor < f => e <= f
  <2>1. e \in Nat /\ e \in log /\ stream.cursor < e /\ e <= head
    BY <1>1, <1>2, <1>7 DEF Unbroken, Above, JournalInv
  <2>2. Base < e
    BY <2>1, <1>7, <1>8 DEF Complete
  <2>3. ASSUME NEW f \in log, stream.cursor < f PROVE e <= f
    BY <2>1, <2>3, <1>2, <1>3, <1>7 DEF Unbroken
  <2> QED BY <2>1, <2>2, <2>3
<1>10. TypeOK'
  <2>1. e \in Tokens /\ wire.events \cup {e} \in SUBSET Seqs /\ page.events \ {e} \in SUBSET Seqs /\ page.state \in Seqs
    BY <1>7, <1>8, <1>9 DEF Tokens, Seqs
  <2>2. stream' \in Streams
    BY <1>6, <2>1, StreamType, Fields
  <2>3. wire' \in Wires
    BY <1>4, <2>1, WireType, Fields
  <2>4. page' \in Pages
    BY <1>5, <2>1, PageType, Fields
  <2> QED BY <1>1, <1>2, <2>2, <2>3, <2>4 DEF TypeOK, JournalInv
<1>11. ClientInv'
  BY <1>2 DEF ClientInv, NothingIsMissed
<1>12. Base' = Base /\ Place' = e
  BY <1>2, <1>4, <1>6, <1>9 DEF Base, Place, NoToken
<1>13. Unbroken(wire'.events, Base, log) /\ Complete(wire'.events, Base, e, log)
  <2>1. ASSUME NEW f \in log, Base < f, f <= e PROVE f \in wire'.events
    BY <2>1, <1>2, <1>4, <1>7, <1>8, <1>9 DEF Complete
  <2>2. \A g \in wire'.events : g \in log /\ Base < g /\ g <= e
    BY <1>4, <1>7, <1>8, <1>9 DEF Unbroken, Above, Complete
  <2>3. ASSUME NEW g \in wire'.events, NEW f \in log, f <= g PROVE f <= e
    <3>1. f \in Nat /\ g \in Nat /\ g <= e
      BY <2>2, <1>2
    <3> QED BY <3>1, <2>3, <1>9
  <2>4. Complete(wire'.events, Base, e, log)
    BY <2>1, <2>2, <1>8, <1>9 DEF Complete
  <2>5. wire'.events \subseteq Above(log, Base)
    BY <2>2 DEF Above
  <2> QED BY <2>1, <2>3, <2>4, <2>5 DEF Unbroken
<1>14. WireInv'
  BY <1>2, <1>4, <1>8, <1>12, <1>13 DEF WireInv
<1>15. StreamInv'
  BY <1>2, <1>4, <1>6, <1>8, <1>9, <1>12, <1>13 DEF StreamInv
<1>16. PageInv'
  <2>1. \A f \in log : e < f => f # e /\ stream.cursor < f
    BY <1>2, <1>7, <1>9
  <2>2. \A f \in page'.events : f \in log /\ e < f
    BY <1>2, <1>3, <1>5, <1>7, <1>9 DEF Unbroken, Above
  <2>3. Unbroken(page'.events, e, log)
    BY <2>1, <2>2, <1>5, <1>7 DEF Unbroken, Above
  <2>4. ASSUME ~page.more PROVE Complete(page'.events, e, page.state, log)
    BY <2>1, <2>4, <1>5, <1>7 DEF Complete
  <2>5. e # NoToken
    BY <1>9 DEF NoToken
  <2> QED BY <1>2, <1>5, <1>6, <1>7, <2>3, <2>4, <2>5 DEF PageInv
<1> QED BY <1>1, <1>10, <1>11, <1>14, <1>15, <1>16

\* A page that is used up, and has no successor, leaves the server at its state.
LEMMA PageDoneKeeps == ASSUME Inv, PageDone PROVE Inv'
<1>1. JournalInv'
  BY JournalKept DEF Inv, PageDone
<1> USE DEF Inv
<1>2. /\ head' = head /\ floor' = floor /\ log' = log /\ head \in Nat
      /\ wire' = wire /\ client' = client /\ drops' = drops /\ page' = NoPage
      /\ stream.phase = "sending" /\ stream.ready /\ ~page.reset /\ page.events = {}
  BY Fields DEF PageDone, journalVars
<1>3. /\ page.state \in Nat /\ page.state <= head
      /\ page.more => stream.cursor # NoToken
      /\ stream.cursor # NoToken /\ ~page.more => Complete({}, stream.cursor, page.state, log)
  BY <1>2, Fields DEF PageInv
<1> DEFINE place == IF page.more THEN stream.cursor ELSE page.state
           phase == IF page.more \/ stream.readNeeded THEN "reading" ELSE "waiting"
<1>4. place \in Nat /\ place # NoToken /\ place <= head
  BY <1>2, <1>3, Fields DEF StreamInv, Tokens, Seqs, NoToken
<1>5. /\ stream' = [phase |-> phase, cursor |-> place, ready |-> stream.ready, readNeeded |-> FALSE]
      /\ stream'.phase \in {"reading", "waiting"} /\ stream'.cursor = place /\ stream'.ready
  BY <1>2, StreamFields DEF PageDone
<1>6. /\ Base \in Int /\ Place \in Int /\ Complete(wire.events, Base, Place, log) /\ wire.events \in SUBSET Nat
      /\ log \in SUBSET Nat
  BY <1>2, Fields DEF StreamInv, Base, Place, Tokens, Seqs, NoToken
<1> HIDE DEF place, phase
<1>7. Complete(wire.events, Base, place, log)
  <2>1. CASE stream.cursor = NoToken \/ page.more
    <3>1. place = Place
      BY <1>3, <2>1 DEF place, Place
    <3> QED BY <3>1, <1>6
  <2>2. CASE stream.cursor # NoToken /\ ~page.more
    <3>1. Complete({}, Place, place, log)
      BY <1>3, <2>2 DEF place, Place
    <3>2. \A f \in log : f <= place => f <= Place
      BY <3>1, <1>4, <1>6 DEF Complete
    <3>3. Place <= place
      BY <3>1 DEF Complete
    <3>4. Base <= place /\ \A e \in wire.events : e <= place
      BY <3>3, <1>4, <1>6 DEF Complete
    <3> QED BY <3>2, <3>4, <1>6 DEF Complete
  <2> QED BY <2>1, <2>2
<1>8. TypeOK'
  <2>1. phase \in Phases /\ place \in Tokens /\ {} \in SUBSET Seqs /\ 0 \in Seqs
    BY <1>4 DEF phase, Phases, Tokens, Seqs
  <2>2. stream' \in Streams
    BY <1>5, <2>1, StreamType, Fields
  <2>3. page' \in Pages
    BY <1>2, <2>1, PageType DEF NoPage
  <2> QED BY <1>1, <1>2, <2>2, <2>3 DEF TypeOK, JournalInv
<1>9. ClientInv'
  BY <1>2 DEF ClientInv, NothingIsMissed
<1>10. Base' = Base /\ Place' = place
  BY <1>2, <1>4, <1>5 DEF Base, Place
<1>11. WireInv'
  BY <1>2, <1>10 DEF WireInv
<1>12. StreamInv'
  BY <1>2, <1>4, <1>5, <1>7, <1>10 DEF StreamInv
<1>13. PageInv'
  BY <1>5 DEF PageInv
<1> QED BY <1>1, <1>8, <1>9, <1>11, <1>12, <1>13

\* A connection starts at the client's place.
LEMMA ConnectsKeeps == ASSUME Inv, Connects PROVE Inv'
<1>1. JournalInv'
  BY JournalKept DEF Inv, Connects
<1> USE DEF Inv
<1>2. /\ head' = head /\ floor' = floor /\ log' = log
      /\ page' = page /\ wire' = wire /\ client' = client /\ drops' = drops /\ wire = Silent
      /\ stream' = [phase |-> "first", cursor |-> client.cursor, ready |-> FALSE, readNeeded |-> TRUE]
  BY DEF Connects, journalVars
<1>3. /\ stream'.phase = "first" /\ stream'.cursor = client.cursor /\ ~stream'.ready
  BY <1>2
<1>4. stream' \in Streams
  <2>1. "first" \in Phases
    BY DEF Phases
  <2> QED BY <2>1, <1>2, StreamType, Fields
<1>5. TypeOK'
  BY <1>1, <1>2, <1>4 DEF TypeOK, JournalInv
<1>6. ClientInv'
  BY <1>2 DEF ClientInv, NothingIsMissed
<1>7. WireInv'
  BY <1>2 DEF WireInv, Base
<1>8. StreamInv' /\ PageInv'
  BY <1>2, <1>3 DEF StreamInv, PageInv, ClientInv
<1> QED BY <1>1, <1>5, <1>6, <1>7, <1>8

\* A ready frame gives the client the place the handler answers for.
LEMMA ReceivesReadyKeeps ==
  ASSUME Inv, ReceivesReady
  PROVE  Inv' /\ [Feed!FeedNext]_(Feed!feedVars)
<1>1. JournalInv'
  BY JournalKept DEF Inv, ReceivesReady
<1> USE DEF Inv
<1>2. /\ head' = head /\ floor' = floor /\ log' = log /\ log \in SUBSET Nat
      /\ stream' = stream /\ page' = page /\ drops' = drops /\ wire.ready # NoToken
  BY Fields DEF ReceivesReady, journalVars
<1>3. /\ wire' = [ready |-> NoToken, events |-> wire.events, reset |-> wire.reset]
      /\ wire'.ready = NoToken /\ wire'.events = wire.events /\ wire'.reset = wire.reset
  BY DEF ReceivesReady, TypeOK, Wires
<1>4. /\ wire.ready \in Nat /\ wire.ready <= head /\ client.cursor \in {NoToken, wire.ready}
      /\ client.known \in SUBSET Nat
  BY <1>2, Fields DEF WireInv, Tokens, Seqs
<1> DEFINE known == IF client.cursor = NoToken THEN Snapshot(wire.ready) ELSE client.known
<1>5. /\ client' = [cursor |-> wire.ready, known |-> known]
      /\ client'.cursor = wire.ready /\ client'.known = known
  BY DEF ReceivesReady
<1>6. known \in SUBSET Nat
  BY <1>2, <1>4 DEF Snapshot
<1>7. \A e \in log : e <= wire.ready => e \in known
  BY <1>2, <1>4 DEF Snapshot, ClientInv, NothingIsMissed
<1>8. TypeOK'
  <2>1. wire' \in Wires
    <3>1. NoToken \in Tokens /\ wire.events \in SUBSET Seqs
      BY Fields DEF Tokens, Seqs
    <3> QED BY <3>1, <1>3, WireType, Fields
  <2>2. client' \in Clients
    <3>1. wire.ready \in Tokens /\ known \in SUBSET Seqs
      BY <1>6, Fields DEF Seqs
    <3> QED BY <3>1, <1>5, ClientType
  <2> QED BY <1>1, <1>2, <2>1, <2>2 DEF TypeOK, JournalInv
<1>9. [Feed!FeedNext]_(Feed!feedVars)
  <2>1. CASE client.cursor = NoToken
    <3>1. client.known = {}
      BY <2>1 DEF ClientInv
    <3>2. /\ client.cursor = -1 /\ client'.cursor \in Nat /\ client'.cursor > client.cursor
          /\ client'.known = client.known \cup Feed!UpTo(client'.cursor)
      BY <2>1, <3>1, <1>4, <1>5 DEF NoToken, Snapshot, Feed!UpTo
    <3> QED BY <3>2, <1>2 DEF Feed!FeedNext, Feed!StartAt
  <2>2. CASE client.cursor # NoToken
    BY <2>2, <1>2, <1>4, <1>5 DEF Feed!feedVars
  <2> QED BY <2>1, <2>2
<1> HIDE DEF known
<1>10. ClientInv'
  <2>1. wire.ready # NoToken /\ wire.ready <= head'
    BY <1>2, <1>4
  <2> QED BY <2>1, <1>2, <1>5, <1>7 DEF ClientInv, NothingIsMissed
<1>11. Base' = Base /\ Place' = Place
  BY <1>2, <1>3, <1>5 DEF Base, Place
<1>12. WireInv'
  BY <1>2, <1>3, <1>11 DEF WireInv
<1>13. StreamInv' /\ PageInv'
  <2>1. wire # Silent
    BY <1>2 DEF Silent
  <2> QED BY <2>1, <1>2, <1>3, <1>11 DEF StreamInv, PageInv
<1> QED BY <1>1, <1>8, <1>9, <1>10, <1>12, <1>13

\* An event frame is the next event after the client's place.
LEMMA ReceivesEventKeeps ==
  ASSUME Inv, ReceivesEvent
  PROVE  Inv' /\ [Feed!FeedNext]_(Feed!feedVars)
<1>1. JournalInv'
  BY JournalKept DEF Inv, ReceivesEvent
<1> USE DEF Inv
<1>2. /\ head' = head /\ floor' = floor /\ log' = log /\ log \in SUBSET Nat /\ head \in Nat /\ floor \in Nat
      /\ stream' = stream /\ page' = page /\ drops' = drops /\ wire.ready = NoToken
  BY Fields DEF ReceivesEvent, journalVars
<1>3. PICK e \in wire.events :
        /\ \A f \in wire.events : e <= f
        /\ wire' = [wire EXCEPT !.events = @ \ {e}]
        /\ client' = [cursor |-> e, known |-> client.known \cup {e}]
  BY DEF ReceivesEvent
<1>4. /\ wire' = [ready |-> wire.ready, events |-> wire.events \ {e}, reset |-> wire.reset]
      /\ wire'.ready = NoToken /\ wire'.events = wire.events \ {e} /\ wire'.reset = wire.reset
      /\ client'.cursor = e /\ client'.known = client.known \cup {e}
  BY <1>2, <1>3 DEF TypeOK, Wires
<1>5. /\ Base = client.cursor /\ client.cursor # NoToken /\ client.cursor \in Nat
      /\ Unbroken(wire.events, client.cursor, log) /\ wire.events \in SUBSET Nat
  BY <1>2, <1>3, Fields DEF WireInv, Base, Tokens, Seqs
<1>6. /\ e \in Nat /\ e \in log /\ client.cursor < e /\ e <= head /\ e # NoToken
      /\ \A f \in log : client.cursor < f => e <= f
  <2>1. e \in Nat /\ e \in log /\ client.cursor < e /\ e <= head
    BY <1>1, <1>2, <1>5 DEF Unbroken, Above, JournalInv
  <2>2. ASSUME NEW f \in log, client.cursor < f PROVE e <= f
    BY <2>1, <2>2, <1>2, <1>3, <1>5 DEF Unbroken
  <2> QED BY <2>1, <2>2 DEF NoToken
<1>7. TypeOK'
  <2>1. e \in Tokens /\ NoToken \in Tokens /\ wire.events \ {e} \in SUBSET Seqs /\ client.known \cup {e} \in SUBSET Seqs
    BY <1>5, <1>6, Fields DEF Tokens, Seqs
  <2>2. wire' \in Wires
    BY <1>2, <1>4, <2>1, WireType, Fields
  <2>3. client' \in Clients
    BY <1>3, <2>1, ClientType
  <2> QED BY <1>1, <1>2, <2>2, <2>3 DEF TypeOK, JournalInv
<1>8. ClientInv'
  <2>1. ASSUME NEW f \in log, f <= e PROVE f \in client'.known
    <3>1. f = e \/ f <= client.cursor
      BY <2>1, <1>2, <1>5, <1>6
    <3> QED BY <2>1, <3>1, <1>4 DEF ClientInv, NothingIsMissed
  <2> QED BY <2>1, <1>2, <1>4, <1>6 DEF ClientInv, NothingIsMissed
<1>9. Base' = e /\ Place' = Place
  BY <1>2, <1>4 DEF Base, Place
<1>10. WireInv'
  <2>1. ASSUME NEW f \in wire'.events PROVE f \in log /\ e < f
    BY <1>3, <1>4, <1>5, <1>6 DEF Unbroken, Above
  <2>2. ASSUME NEW f \in wire'.events, NEW g \in log, e < g, g <= f PROVE g \in wire'.events
    <3>1. client.cursor < g /\ g # e
      BY <2>2, <1>2, <1>5, <1>6
    <3> QED BY <2>2, <3>1, <1>4, <1>5 DEF Unbroken
  <2>3. Unbroken(wire'.events, e, log)
    BY <2>1, <2>2 DEF Unbroken, Above
  <2>4. wire.reset # NoToken => wire.reset <= head /\ e < floor /\ e < wire.reset
    BY <1>3 DEF WireInv
  <2> QED BY <2>3, <2>4, <1>2, <1>4, <1>6, <1>9 DEF WireInv
<1>11. StreamInv' /\ PageInv'
  <2>1. wire # Silent
    BY <1>3 DEF Silent
  <2>2. ASSUME stream.ready PROVE Complete(wire'.events, e, Place, log)
    <3>1. Complete(wire.events, client.cursor, Place, log)
      BY <2>2, <1>5 DEF StreamInv
    <3>2. ASSUME NEW f \in log, e < f, f <= Place PROVE f \in wire'.events
      <4>1. client.cursor < f /\ f # e
        BY <3>2, <1>2, <1>5, <1>6
      <4> QED BY <3>1, <3>2, <4>1, <1>4 DEF Complete
    <3> QED BY <3>1, <3>2, <1>3, <1>4 DEF Complete
  <2> QED BY <2>1, <2>2, <1>2, <1>4, <1>6, <1>9 DEF StreamInv, PageInv
<1>12. Feed!Tell
  <2>1. client.cursor # -1
    BY <1>5
  <2> QED BY <2>1, <1>2, <1>4, <1>6 DEF Feed!Tell
<1> QED BY <1>1, <1>7, <1>8, <1>10, <1>11, <1>12 DEF Feed!FeedNext

\* A reset frame reaches only a client whose place has expired.
LEMMA ReceivesResetKeeps ==
  ASSUME Inv, ReceivesReset
  PROVE  Inv' /\ [Feed!FeedNext]_(Feed!feedVars)
<1>1. JournalInv'
  BY JournalKept DEF Inv, ReceivesReset
<1> USE DEF Inv
<1>2. /\ head' = head /\ floor' = floor /\ log' = log /\ log \in SUBSET Nat
      /\ stream' = stream /\ page' = page /\ drops' = drops
      /\ wire.ready = NoToken /\ wire.events = {} /\ wire.reset # NoToken
  BY Fields DEF ReceivesReset, journalVars
<1>3. /\ wire' = [ready |-> NoToken, events |-> {}, reset |-> NoToken]
      /\ client' = [cursor |-> wire.reset, known |-> client.known \cup Snapshot(wire.reset)]
  BY <1>2 DEF ReceivesReset, TypeOK, Wires
<1>4. /\ Base = client.cursor /\ client.cursor # NoToken /\ client.cursor < floor
      /\ wire.reset \in Nat /\ wire.reset <= head /\ client.cursor < wire.reset
  BY <1>2, Fields DEF WireInv, Base, Tokens, Seqs
<1>5. stream.phase = "off"
  <2>1. wire # Silent
    BY <1>2 DEF Silent
  <2> QED BY <2>1, <1>2 DEF StreamInv
<1>6. ~stream.ready
  BY <1>2 DEF StreamInv
<1>7. TypeOK'
  <2>1. /\ NoToken \in Tokens /\ {} \in SUBSET Seqs /\ wire.reset \in Tokens
        /\ client.known \cup Snapshot(wire.reset) \in SUBSET Seqs
    BY <1>2, Fields DEF Tokens, Seqs, Snapshot
  <2>2. wire' \in Wires
    BY <1>3, <2>1, WireType
  <2>3. client' \in Clients
    BY <1>3, <2>1, ClientType
  <2> QED BY <1>1, <1>2, <2>2, <2>3 DEF TypeOK, JournalInv
<1>8. ClientInv'
  BY <1>2, <1>3, <1>4 DEF ClientInv, NothingIsMissed, Snapshot
<1>9. WireInv'
  BY <1>2, <1>3 DEF WireInv, Unbroken
<1>10. StreamInv' /\ PageInv'
  BY <1>2, <1>5, <1>6 DEF StreamInv, PageInv
<1>11. Feed!StartAt
  <2>1. client'.known = client.known \cup Feed!UpTo(client'.cursor)
    BY <1>3 DEF Snapshot, Feed!UpTo
  <2> QED BY <2>1, <1>2, <1>3, <1>4 DEF Feed!StartAt
<1> QED BY <1>1, <1>7, <1>8, <1>9, <1>10, <1>11 DEF Feed!FeedNext

\* Nothing the handler, the timers or a lost connection do is seen by the follower.
LEMMA ServerKeeps ==
  ASSUME Inv, Serve \/ Poll \/ Closes \/ Drops \/ Connects
  PROVE  Inv' /\ UNCHANGED Feed!feedVars
<1>1. UNCHANGED Feed!feedVars
  BY DEF Serve, Poll, Closes, Drops, Connects, FirstRead, Subscribes, SendReady, SendReset, SendEvent,
         PageDone, Wakes, ReadsOn, journalVars, Feed!feedVars
<1>2. drops \in Nat /\ drops + 1 \in Nat
  BY DEF Inv, TypeOK
<1>3. CASE FirstRead \/ ReadsOn
  BY <1>1, <1>3, ReadKeeps DEF FirstRead, ReadsOn
<1>4. CASE Poll \/ Subscribes \/ Wakes
  <2>1. /\ stream' = [phase |-> stream'.phase, cursor |-> stream.cursor, ready |-> stream.ready,
                      readNeeded |-> stream'.readNeeded]
        /\ stream'.phase \in Phases /\ stream'.readNeeded \in BOOLEAN
        /\ stream'.cursor = stream.cursor /\ stream'.ready = stream.ready
        /\ \/ stream'.phase = stream.phase
           \/ stream.phase = "waiting" /\ stream'.phase = "reading"
           \/ stream.phase = "subscribing" /\ stream'.phase = "sending"
    BY <1>4, StreamFields, Fields DEF Inv, Poll, Subscribes, Wakes, Phases
  <2>2. stream' \in Streams
    BY <2>1, StreamType, Fields DEF Inv
  <2>3. /\ stream.phase = "waiting" => stream.ready
        /\ stream.phase = "subscribing" => ~stream.ready
    BY DEF Inv, StreamInv
  <2>4. UNCHANGED <<journalVars, page, wire, client, drops>>
    BY <1>4 DEF Poll, Subscribes, Wakes
  <2> QED BY <1>1, <2>1, <2>2, <2>3, <2>4, WakeKeeps
<1>5. CASE Closes \/ Drops
  BY <1>1, <1>2, <1>5, EndKeeps DEF Closes, Drops
<1> QED BY <1>1, <1>3, <1>4, <1>5, SendReadyKeeps, SendResetKeeps, SendEventKeeps, PageDoneKeeps, ConnectsKeeps DEF Serve

\* Commits append to the feed.
LEMMA CommitAppends ==
  ASSUME Inv, NEW n \in 1..Burst, Commit(n)
  PROVE  Feed!Append
<1>1. /\ head <= head' /\ floor <= floor' /\ log \subseteq log'
      /\ \A e \in log' \ log : head < e
      /\ log' \in SUBSET Nat /\ floor' \in Nat
  BY CommitsEffect DEF Inv, Commit, JournalInv, JournalTypeOK, Seqs
<1>2. /\ head \in Nat /\ log \in SUBSET Nat /\ \A f \in log : f <= head
  BY Fields DEF Inv, JournalInv
<1>3. \A e \in log' \ log : e \in Nat /\ \A f \in log : f < e
  <2>1. ASSUME NEW e \in log' \ log, NEW f \in log PROVE f < e
    <3>1. e \in Nat /\ f \in Nat /\ head < e /\ f <= head
      BY <1>1, <1>2
    <3> QED BY <3>1, <1>2
  <2> QED BY <2>1, <1>1
<1> QED BY <1>1, <1>3 DEF Feed!Append, Commit

LEMMA Step ==
  ASSUME Inv, [Next]_vars
  PROVE  Inv' /\ [Feed!FeedNext]_(Feed!feedVars)
<1>1. CASE \E n \in 1..Burst : Commit(n)
  BY <1>1, CommitKeeps, CommitAppends DEF Feed!FeedNext
<1>2. CASE OtherOwner
  <2>1. JournalInv'
    <3>1. /\ counter' = counter + 1 /\ counter \in Nat /\ head \in Nat /\ floor \in Nat
          /\ head' = head /\ floor' = floor /\ log' = log /\ events' = events
      BY <1>2 DEF OtherOwner, OthersCommit, Inv, JournalInv, JournalTypeOK, Seqs
    <3>2. counter' \in Nat /\ head <= counter'
      BY <3>1 DEF Inv, JournalInv
    <3> QED BY <3>1, <3>2 DEF Inv, JournalInv, JournalTypeOK, Seqs, Above
  <2>2. UNCHANGED <<head, floor, log, streamVars>>
    BY <1>2 DEF OtherOwner, OthersCommit
  <2> QED BY <2>1, <2>2 DEF Inv, TypeOK, JournalInv, ClientInv, NothingIsMissed, WireInv, StreamInv, PageInv,
              Base, Place, streamVars, Feed!feedVars
<1>3. CASE UNCHANGED vars
  <2>1. JournalInv'
    BY <1>3, JournalKept DEF vars, Inv
  <2>2. UNCHANGED <<head, floor, log, streamVars>>
    BY <1>3 DEF vars, journalVars
  <2> QED BY <2>1, <2>2 DEF Inv, TypeOK, JournalInv, ClientInv, NothingIsMissed, WireInv, StreamInv, PageInv,
              Base, Place, streamVars, Feed!feedVars
<1> QED BY <1>1, <1>2, <1>3, ServerKeeps, ReceivesReadyKeeps, ReceivesEventKeeps, ReceivesResetKeeps DEF Next, Serve

\* The journal, the handler, the frames and the follower fit together in every state.
THEOREM StreamInvariant == Spec => []Inv
<1>1. Init => Inv
  BY InitInv
<1>2. Inv /\ [Next]_vars => Inv'
  BY Step
<1> QED BY <1>1, <1>2, PTL DEF Spec

\* Every state is well typed.
THEOREM Typing == Spec => []TypeOK
<1>1. Inv => TypeOK
  BY DEF Inv
<1> QED BY <1>1, StreamInvariant, PTL

\* Retention never takes an event above the floor (transaction's pruning in core.ts).
THEOREM FloorIsHonest == Spec => []NothingAboveFloorIsLost
<1>1. Inv => NothingAboveFloorIsLost
  BY DEF Inv, JournalInv, NothingAboveFloorIsLost
<1> QED BY <1>1, StreamInvariant, PTL

\* A follower knows of every event up to its place (http.ts' handler and client.ts' events()).
THEOREM FollowersMissNothing == Spec => []NothingIsMissed
<1>1. Inv => NothingIsMissed
  BY DEF Inv, ClientInv
<1> QED BY <1>1, StreamInvariant, PTL

\* The stream implements the feed: every event once and in order, and starting over only when
\* a place has expired (http.ts' handler and client.ts' events()).
THEOREM StreamImplementsFeed == Spec => ImplementsFeed
<1>1. Init => Feed!FeedInit
  BY DEF Init, JournalInit, Feed!FeedInit, NoToken
<1>2. Inv /\ [Next]_vars => [Feed!FeedNext]_(Feed!feedVars)
  BY Step
<1> QED BY <1>1, <1>2, StreamInvariant, PTL DEF Spec, ImplementsFeed, Feed!FeedSpec

=============================================================================
