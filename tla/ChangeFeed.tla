----------------------------- MODULE ChangeFeed -----------------------------
(***************************************************************************)
(* What the change stream promises a follower ("Retained changes replay    *)
(* after reconnection; expired history emits reset.required with a fresh   *)
(* state", packages/inbox-sdk/README.md): it is told every event, in order *)
(* and once, from the state it starts at; only a follower whose place has  *)
(* expired is told to start over.                                          *)
(***************************************************************************)
EXTENDS Integers

VARIABLES
  log,     \* the events so far
  floor,   \* places below it have expired
  cursor,  \* the follower's place, -1 before it has one
  known    \* the events it was told, or has seen in a snapshot

feedVars == <<log, floor, cursor, known>>

UpTo(seq) == {e \in log : e <= seq}

FeedInit == log = {} /\ floor = 0 /\ cursor = -1 /\ known = {}

\* New events follow all others; old places may expire.
Append ==
  /\ log \subseteq log'
  /\ \A e \in log' \ log : e \in Nat /\ \A f \in log : f < e
  /\ floor' \in Nat /\ floor <= floor'
  /\ UNCHANGED <<cursor, known>>

\* The next event after the follower's place.
Tell ==
  /\ cursor # -1
  /\ \E e \in log :
       /\ cursor < e /\ \A f \in log : cursor < f => e <= f
       /\ cursor' = e /\ known' = known \cup {e}
  /\ UNCHANGED <<log, floor>>

\* The follower starts, or starts over because its place has expired, from a snapshot that is
\* as new as some state.
StartAt ==
  /\ cursor = -1 \/ cursor < floor
  /\ cursor' \in Nat /\ cursor' > cursor
  /\ known' = known \cup UpTo(cursor')
  /\ UNCHANGED <<log, floor>>

FeedNext == Append \/ Tell \/ StartAt

FeedSpec == FeedInit /\ [][FeedNext]_feedVars

=============================================================================
