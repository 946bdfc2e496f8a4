---------------------------- MODULE EventStream ----------------------------
(***************************************************************************)
(* GET /v1/events (packages/inbox-sdk/src/http.ts) and the follower at its *)
(* other end (events() in client.ts).  The server reads a page, subscribes *)
(* to commits, sends the page one frame per pull, and reads again when it  *)
(* was woken; the client moves its cursor with every frame and reconnects  *)
(* from there.  Commits, pruning, dropped connections and the server's own *)
(* closing come between any two awaits.                                    *)
(*                                                                         *)
(* The frames of a connection are sent in the order ready, events by       *)
(* sequence number, reset; wire holds those the client has not read.       *)
(***************************************************************************)
EXTENDS ChangeJournal

CONSTANTS
  MaxDrops   \* bound: connections lost or closed

ASSUME StreamAssumption == MaxDrops \in Nat

VARIABLES
  stream,   \* the handler of the client's current connection
  page,     \* its page, less the events already sent
  wire,     \* frames on their way: a ready state, events, a reset state
  client,   \* events(): its cursor and the events it knows of
  drops

streamVars == <<stream, page, wire, client, drops>>
vars == <<journalVars, streamVars>>

\* "reading" and "first" await inbox.changes, "subscribing" is about to subscribe, "sending"
\* has a page, "waiting" awaits a wake.
Phases == {"off", "first", "subscribing", "sending", "reading", "waiting"}
Streams == [phase : Phases, cursor : Tokens, ready : BOOLEAN, readNeeded : BOOLEAN]
Wires == [ready : Tokens, events : SUBSET Seqs, reset : Tokens]
Clients == [cursor : Tokens, known : SUBSET Seqs]

Off == [phase |-> "off", cursor |-> NoToken, ready |-> FALSE, readNeeded |-> FALSE]
NoPage == [events |-> {}, more |-> FALSE, reset |-> FALSE, state |-> 0]
Silent == [ready |-> NoToken, events |-> {}, reset |-> NoToken]

TypeOK ==
  /\ JournalTypeOK
  /\ stream \in Streams
  /\ page \in Pages
  /\ wire \in Wires
  /\ client \in Clients
  /\ drops \in Nat

Init ==
  /\ JournalInit
  /\ stream = Off
  /\ page = NoPage
  /\ wire = Silent
  /\ client = [cursor |-> NoToken, known |-> {}]
  /\ drops = 0

----------------------------------------------------------------------------
(* The server. *)

Subscribed == stream.phase \in {"sending", "reading", "waiting"}

\* Commits notify subscribers after the transaction; a notification carries no data.
Commit(n) ==
  /\ Commits(n)
  /\ stream' = [stream EXCEPT !.readNeeded = @ \/ Subscribed]
  /\ UNCHANGED <<page, wire, client, drops>>

OtherOwner == OthersCommit /\ UNCHANGED streamVars

\* The poll timer wakes the stream as well.
Poll ==
  /\ Subscribed
  /\ stream' = [stream EXCEPT !.readNeeded = TRUE]
  /\ UNCHANGED <<journalVars, page, wire, client, drops>>

FirstRead ==
  /\ stream.phase = "first"
  /\ page' \in PagesAfter(stream.cursor)
  /\ stream' = [stream EXCEPT !.phase = "subscribing"]
  /\ UNCHANGED <<journalVars, wire, client, drops>>

Subscribes ==
  /\ stream.phase = "subscribing"
  /\ stream' = [stream EXCEPT !.phase = "sending"]
  /\ UNCHANGED <<journalVars, page, wire, client, drops>>

\* The first frame tells the state at which the page was read.
SendReadyCurrent ==
  /\ stream.phase = "sending" /\ ~stream.ready
  /\ wire' = [wire EXCEPT !.ready = page.state]
  /\ stream' = [stream EXCEPT !.ready = TRUE]
  /\ UNCHANGED <<journalVars, page, client, drops>>

\* The first frame: the cursor the client asked for, or the state it starts from, "never the
\* end of undelivered replay".
SendReady ==
  /\ stream.phase = "sending" /\ ~stream.ready
  /\ wire' = [wire EXCEPT !.ready = IF stream.cursor # NoToken THEN stream.cursor ELSE page.state]
  /\ stream' = [stream EXCEPT !.ready = TRUE]
  /\ UNCHANGED <<journalVars, page, client, drops>>

SendReset ==
  /\ stream.phase = "sending" /\ stream.ready /\ page.reset
  /\ wire' = [wire EXCEPT !.reset = page.state]
  /\ stream' = Off /\ page' = NoPage
  /\ UNCHANGED <<journalVars, client, drops>>

SendEvent ==
  /\ stream.phase = "sending" /\ stream.ready /\ ~page.reset
  /\ \E e \in page.events :
       /\ \A f \in page.events : e <= f
       /\ wire' = [wire EXCEPT !.events = @ \cup {e}]
       /\ page' = [page EXCEPT !.events = @ \ {e}]
       /\ stream' = [stream EXCEPT !.cursor = e]
  /\ UNCHANGED <<journalVars, client, drops>>

\* The page is used up: read on if there is more or the stream was woken, else wait.
PageDone ==
  /\ stream.phase = "sending" /\ stream.ready /\ ~page.reset /\ page.events = {}
  /\ stream' = [stream EXCEPT !.cursor = IF page.more THEN @ ELSE page.state,
                              !.phase = IF page.more \/ stream.readNeeded THEN "reading" ELSE "waiting",
                              !.readNeeded = FALSE]
  /\ page' = NoPage
  /\ UNCHANGED <<journalVars, wire, client, drops>>

Wakes ==
  /\ stream.phase = "waiting" /\ stream.readNeeded
  /\ stream' = [stream EXCEPT !.phase = "reading", !.readNeeded = FALSE]
  /\ UNCHANGED <<journalVars, page, wire, client, drops>>

ReadsOn ==
  /\ stream.phase = "reading"
  /\ page' \in PagesAfter(stream.cursor)
  /\ stream' = [stream EXCEPT !.phase = "sending"]
  /\ UNCHANGED <<journalVars, wire, client, drops>>

\* cleanup: the connection's lifetime is over, authentication fails or the server stops.  What
\* was sent may still arrive.
Closes ==
  /\ stream.phase # "off" /\ drops < MaxDrops
  /\ stream' = Off /\ page' = NoPage /\ drops' = drops + 1
  /\ UNCHANGED <<journalVars, wire, client>>

\* The connection is lost, and with it what was sent.
Drops ==
  /\ stream.phase # "off" \/ wire # Silent
  /\ drops < MaxDrops
  /\ stream' = Off /\ page' = NoPage /\ wire' = Silent /\ drops' = drops + 1
  /\ UNCHANGED <<journalVars, client>>

----------------------------------------------------------------------------
(* The client. *)

\* The first page is not read again after subscribing.
ConnectsTrusting ==
  /\ stream.phase = "off" /\ wire = Silent
  /\ stream' = [phase |-> "first", cursor |-> client.cursor, ready |-> FALSE, readNeeded |-> FALSE]
  /\ UNCHANGED <<journalVars, page, wire, client, drops>>

\* The first read is due in any case: it "closes the read/subscribe race".
Connects ==
  /\ stream.phase = "off" /\ wire = Silent
  /\ stream' = [phase |-> "first", cursor |-> client.cursor, ready |-> FALSE, readNeeded |-> TRUE]
  /\ UNCHANGED <<journalVars, page, wire, client, drops>>

\* What is read from the server once a state is known is at least as new as the state.
Snapshot(state) == {e \in log : e <= state}

\* Only a follower without a place reads everything when its stream is ready.
ReceivesReady ==
  /\ wire.ready # NoToken
  /\ wire' = [wire EXCEPT !.ready = NoToken]
  /\ client' = [cursor |-> wire.ready,
                known |-> IF client.cursor = NoToken THEN Snapshot(wire.ready) ELSE client.known]
  /\ UNCHANGED <<journalVars, stream, page, drops>>

ReceivesEvent ==
  /\ wire.ready = NoToken
  /\ \E e \in wire.events :
       /\ \A f \in wire.events : e <= f
       /\ wire' = [wire EXCEPT !.events = @ \ {e}]
       /\ client' = [cursor |-> e, known |-> client.known \cup {e}]
  /\ UNCHANGED <<journalVars, stream, page, drops>>

ReceivesReset ==
  /\ wire.ready = NoToken /\ wire.events = {} /\ wire.reset # NoToken
  /\ wire' = [wire EXCEPT !.reset = NoToken]
  /\ client' = [cursor |-> wire.reset, known |-> client.known \cup Snapshot(wire.reset)]
  /\ UNCHANGED <<journalVars, stream, page, drops>>

----------------------------------------------------------------------------
Serve == FirstRead \/ Subscribes \/ SendReady \/ SendReset \/ SendEvent \/ PageDone \/ Wakes \/ ReadsOn
Follow == Connects \/ ReceivesReady \/ ReceivesEvent \/ ReceivesReset

Next ==
  \/ \E n \in 1..Burst : Commit(n)
  \/ OtherOwner \/ Poll \/ Closes \/ Drops
  \/ FirstRead \/ Subscribes \/ SendReady \/ SendReset \/ SendEvent \/ PageDone \/ Wakes \/ ReadsOn
  \/ Connects \/ ReceivesReady \/ ReceivesEvent \/ ReceivesReset

Spec == Init /\ [][Next]_vars

----------------------------------------------------------------------------
(* Properties. *)

\* A follower knows of every event up to its place, whatever was pruned, dropped or committed
\* while pages were read and frames were under way (changes' floor check, the handler's cursor
\* and ready state, the client's cursor).
NothingIsMissed == \A e \in log : e <= client.cursor => e \in client.known

\* The stream implements the feed the documentation promises.
Feed == INSTANCE ChangeFeed WITH log <- log, floor <- floor, cursor <- client.cursor, known <- client.known
ImplementsFeed == Feed!FeedSpec

\* Every event reaches the follower, also one committed between the page and the subscription,
\* and without the poll timer (the handler's readNeeded).
EveryEventArrives == \A e \in 1..MaxSeq : e \in log ~> e \in client.known

----------------------------------------------------------------------------
(* Fairness: pulls, awaits and reconnection make progress; commits, polls and losses need not. *)

FairSpec == Spec /\ WF_vars(Serve) /\ WF_vars(Follow)

=============================================================================
