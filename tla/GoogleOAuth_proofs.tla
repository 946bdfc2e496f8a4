------------------------- MODULE GoogleOAuth_proofs -------------------------
(***************************************************************************)
(* GoogleOAuth keeps its promises for every number of accounts,            *)
(* connections, attempts and callbacks.                                    *)
(*                                                                         *)
(* A callback that has claimed its attempt holds it: alone (OneHolder),    *)
(* and for good, because the claim leaves "authorizing" and nothing        *)
(* returns there (HeldIsBurnt).  What start noted about the connections    *)
(* stays as it was, so what the check found is still true of it when the   *)
(* connection is changed (ChecksStand).                                    *)
(***************************************************************************)
EXTENDS GoogleOAuth, FiniteSetTheorems, TLAPS

Claimed == {"exchanging", "completed", "failed"}
Holding == {"exchanging", "checking", "finishing", "committed"}

Holds(k, a) == k \in committed[a] \/ (callback[k].attempt = a /\ callback[k].phase \in Holding)

CallbacksAreNamed ==
  \A k \in Callbacks :
    /\ callback[k].phase \in Holding \cup {"claiming"} => callback[k].attempt \in Attempts
    /\ callback[k].phase \in {"checking", "finishing", "committed"} => callback[k].identity \in Identities
    /\ callback[k].outcome # "none" => callback[k].phase = "over"

HeldIsBurnt == \A k \in Callbacks, a \in Attempts : Holds(k, a) => attempt[a].status \in Claimed

OneHolder == \A a \in Attempts : \A k, l \in Callbacks : Holds(k, a) /\ Holds(l, a) => k = l

CommitsAreKnown ==
  \A k \in Callbacks :
    /\ \A a \in Attempts : k \in committed[a] => callback[k].attempt = a /\ callback[k].phase \in {"committed", "over"}
    /\ callback[k].phase = "committed" => k \in committed[callback[k].attempt]

OutcomesAreTrue ==
  /\ \A k \in Callbacks :
       callback[k].outcome \in {"success", "failure"} =>
         /\ callback[k].attempt \in Attempts
         /\ callback[k].outcome = "success" => k \in committed[callback[k].attempt] /\ attempt[callback[k].attempt].status = "completed"
         /\ callback[k].outcome = "failure" => k \notin committed[callback[k].attempt]
  /\ \A a \in Attempts : attempt[a].status = "completed" => committed[a] # {}

Stands(a, i, c) ==
  IF c = "none" THEN Of(attempt[a].seen, i) = {}
  ELSE /\ c \in Connections
       /\ connection[c].identity = i /\ attempt[a].seen[c].identity = i
       /\ attempt[a].target = c \/ (attempt[a].target = "none" /\ attempt[a].seen[c].status = "connected")

ChecksStand ==
  \A k \in Callbacks :
    callback[k].phase = "finishing" => Stands(callback[k].attempt, callback[k].identity, callback[k].target)

AccountsAreDistinct ==
  /\ \A c \in Connections : connection[c].identity \in Identities <=> connection[c].status # "absent"
  /\ \A c, d \in Connections : connection[c].identity \in Identities /\ connection[d].identity = connection[c].identity => c = d

AttemptInv ==
  /\ TypeOK /\ CallbacksAreNamed /\ HeldIsBurnt /\ OneHolder
  /\ CommitsAreKnown /\ OutcomesAreTrue /\ ChecksStand /\ AccountsAreDistinct

AttemptRows == [status : Active \cup {"new", "completed", "failed"}, target : Connections \cup {"none"}, seen : [Connections -> Rows], lapsed : BOOLEAN]
CallbackRows == [phase : {"new", "claiming", "exchanging", "checking", "finishing", "committed", "over"},
                 attempt : Attempts \cup {"none"}, identity : Identities \cup {"none"},
                 target : Connections \cup {"none"}, outcome : {"none", "success", "failure", "stopped"}]

\* The type invariant, with the sets of rows named.
LEMMA Types ==
  TypeOK <=> /\ connection \in [Connections -> Rows]
             /\ attempt \in [Attempts -> AttemptRows]
             /\ callback \in [Callbacks -> CallbackRows]
             /\ committed \in [Attempts -> SUBSET Callbacks]
BY DEF TypeOK, AttemptRows, CallbackRows

\* What no step does to an attempt: it leaves no claimed or completed state and forgets nothing of
\* what start noted.
Kept ==
  \A a \in Attempts :
    attempt[a].status \in Claimed =>
      /\ attempt'[a].status \in Claimed
      /\ attempt[a].status = "completed" => attempt'[a].status = "completed"
      /\ attempt'[a].target = attempt[a].target /\ attempt'[a].seen = attempt[a].seen

NoneCompletes == \A a \in Attempts : attempt'[a].status = "completed" => attempt[a].status = "completed"

\* expire keeps the rows' type and only fails attempts that are under way.
LEMMA ExpiredRows ==
  ASSUME attempt \in [Attempts -> AttemptRows]
  PROVE  /\ Expired(attempt) \in [Attempts -> AttemptRows]
         /\ \A a \in Attempts : /\ Expired(attempt)[a].target = attempt[a].target /\ Expired(attempt)[a].seen = attempt[a].seen
                                /\ Expired(attempt)[a].status = attempt[a].status
                                     \/ (Expired(attempt)[a].status = "failed" /\ attempt[a].status \in Active)
BY DEF Expired, AttemptRows, Active

\* fail does the same to one attempt.
LEMMA FailedRows ==
  ASSUME attempt \in [Attempts -> AttemptRows], NEW b \in Attempts, attempt' = Failed(attempt, b)
  PROVE  attempt' \in [Attempts -> AttemptRows] /\ Kept /\ NoneCompletes
BY DEF Failed, AttemptRows, Active, Kept, NoneCompletes, Claimed

\* A check stands as long as its callback and what start noted stay as they are, and connections
\* keep their accounts.
LEMMA ChecksStay ==
  ASSUME CallbacksAreNamed, HeldIsBurnt, Kept, NEW k \in Callbacks, callback'[k] = callback[k],
         ChecksStand, callback[k].phase = "finishing",
         \A c \in Connections : connection'[c].identity = connection[c].identity \/ connection[c].identity \notin Identities
  PROVE  Stands(callback[k].attempt, callback[k].identity, callback[k].target)'
<1> DEFINE a == callback[k].attempt
           i == callback[k].identity
           c == callback[k].target
<1>1. a \in Attempts /\ i \in Identities
  BY DEF CallbacksAreNamed, Holding
<1>2. attempt[a].status \in Claimed
  <2>1. Holds(k, a)
    BY DEF Holds, Holding
  <2> QED BY <1>1, <2>1 DEF HeldIsBurnt
<1>3. attempt'[a].target = attempt[a].target /\ attempt'[a].seen = attempt[a].seen
  BY <1>1, <1>2 DEF Kept
<1>4. Stands(a, i, c)
  BY DEF ChecksStand
<1>5. IF c = "none" THEN Of(attempt'[a].seen, i) = {}
      ELSE /\ c \in Connections
           /\ connection'[c].identity = i /\ attempt'[a].seen[c].identity = i
           /\ attempt'[a].target = c \/ (attempt'[a].target = "none" /\ attempt'[a].seen[c].status = "connected")
  <2>1. CASE c = "none"
    BY <1>3, <1>4, <2>1 DEF Stands
  <2>2. CASE c # "none"
    BY <1>1, <1>3, <1>4, <2>2 DEF Stands
  <2> QED BY <2>1, <2>2
<1> QED BY <1>5 DEF Stands

\* A step that only moves attempts forward.
LEMMA QuietInv ==
  ASSUME AttemptInv, UNCHANGED <<connection, callback, committed>>,
         attempt' \in [Attempts -> AttemptRows], Kept, NoneCompletes
  PROVE  AttemptInv'
<1> USE DEF AttemptInv
<1>0. TypeOK'
  BY DEF TypeOK, AttemptRows
<1>1. CallbacksAreNamed' /\ CommitsAreKnown' /\ AccountsAreDistinct'
  BY DEF CallbacksAreNamed, CommitsAreKnown, AccountsAreDistinct
<1>2. HeldIsBurnt' /\ OneHolder'
  BY DEF HeldIsBurnt, OneHolder, Holds, Kept
<1>3. OutcomesAreTrue'
  BY DEF OutcomesAreTrue, Kept, NoneCompletes, Claimed
<1>4. ChecksStand'
  BY ChecksStay DEF ChecksStand
<1> QED BY <1>0, <1>1, <1>2, <1>3, <1>4

\* A callback that ends without having changed a connection.
LEMMA EndsInv ==
  ASSUME AttemptInv, NEW k \in Callbacks, NEW result \in {"failure", "stopped"},
         callback[k].phase \notin {"new", "over"},
         result = "failure" => callback[k].phase \in {"exchanging", "checking", "finishing"},
         callback' = [callback EXCEPT ![k].phase = "over", ![k].outcome = result],
         attempt' \in [Attempts -> AttemptRows], Kept, NoneCompletes,
         UNCHANGED <<connection, committed>>
  PROVE  AttemptInv'
<1> USE DEF AttemptInv
<1>1. /\ callback \in [Callbacks -> CallbackRows] /\ attempt \in [Attempts -> AttemptRows]
      /\ committed \in [Attempts -> SUBSET Callbacks]
  BY Types
<1>2. callback' \in [Callbacks -> CallbackRows]
  <2>1. [callback[k] EXCEPT !.phase = "over", !.outcome = result] \in CallbackRows
    BY <1>1 DEF CallbackRows
  <2> QED BY <1>1, <2>1
<1>3. /\ \A l \in Callbacks : l # k => callback'[l] = callback[l]
      /\ callback'[k].phase = "over" /\ callback'[k].outcome = result
      /\ callback'[k].attempt = callback[k].attempt /\ callback'[k].identity = callback[k].identity
  <2>1. callback'[k] = [callback[k] EXCEPT !.phase = "over", !.outcome = result] /\ callback[k] \in CallbackRows
    BY <1>1
  <2> QED BY <1>1, <2>1 DEF CallbackRows
<1>4. callback[k].attempt \in Attempts
  BY <1>1 DEF CallbacksAreNamed, CallbackRows, Holding
<1>5. TypeOK'
  BY <1>1, <1>2 DEF TypeOK, CallbackRows, AttemptRows
<1>6. CallbacksAreNamed'
  BY <1>3 DEF CallbacksAreNamed, Holding
<1>7. \A l \in Callbacks, a \in Attempts : Holds(l, a)' => Holds(l, a)
  BY <1>3 DEF Holds, Holding
<1>8. HeldIsBurnt' /\ OneHolder'
  BY <1>7 DEF HeldIsBurnt, OneHolder, Kept
<1>9. CommitsAreKnown'
  <2>1. ASSUME NEW l \in Callbacks, NEW a \in Attempts, l \in committed[a]
        PROVE  callback'[l].attempt = a /\ callback'[l].phase \in {"committed", "over"}
    <3>1. callback[l].attempt = a /\ callback[l].phase \in {"committed", "over"}
      BY <2>1 DEF CommitsAreKnown
    <3> QED BY <1>3, <3>1
  <2>2. ASSUME NEW l \in Callbacks, callback'[l].phase = "committed" PROVE l \in committed[callback'[l].attempt]
    BY <1>3, <2>2 DEF CommitsAreKnown
  <2> QED BY <2>1, <2>2 DEF CommitsAreKnown
<1>10. OutcomesAreTrue'
  <2>1. result = "failure" => k \notin committed[callback[k].attempt]
    BY <1>4 DEF CommitsAreKnown
  <2>2. ASSUME NEW l \in Callbacks, callback'[l].outcome \in {"success", "failure"}
        PROVE  /\ callback'[l].attempt \in Attempts
               /\ callback'[l].outcome = "success" =>
                    l \in committed[callback'[l].attempt] /\ attempt'[callback'[l].attempt].status = "completed"
               /\ callback'[l].outcome = "failure" => l \notin committed[callback'[l].attempt]
    <3>1. CASE l = k
      BY <1>3, <1>4, <2>1, <2>2, <3>1
    <3>2. CASE l # k
      <4>1. callback'[l] = callback[l]
        BY <1>3, <3>2
      <4>2. /\ callback[l].attempt \in Attempts
            /\ callback[l].outcome = "success" =>
                 l \in committed[callback[l].attempt] /\ attempt[callback[l].attempt].status = "completed"
            /\ callback[l].outcome = "failure" => l \notin committed[callback[l].attempt]
        BY <2>2, <4>1 DEF OutcomesAreTrue
      <4>3. attempt[callback[l].attempt].status = "completed" => attempt'[callback[l].attempt].status = "completed"
        BY <4>2 DEF Kept, Claimed
      <4> QED BY <4>1, <4>2, <4>3
    <3> QED BY <3>1, <3>2
  <2>3. \A a \in Attempts : attempt'[a].status = "completed" => committed[a] # {}
    BY DEF OutcomesAreTrue, NoneCompletes
  <2> QED BY <2>2, <2>3 DEF OutcomesAreTrue
<1>11. ChecksStand'
  <2>1. ASSUME NEW l \in Callbacks, callback'[l].phase = "finishing"
        PROVE  Stands(callback[l].attempt, callback[l].identity, callback[l].target)' /\ callback'[l] = callback[l]
    BY <1>3, <2>1, ChecksStay
  <2> QED BY <2>1 DEF ChecksStand
<1>12. AccountsAreDistinct'
  BY DEF AccountsAreDistinct
<1> QED BY <1>5, <1>6, <1>8, <1>9, <1>10, <1>11, <1>12

\* The answer is refused, the check or the commit fails, or the host stops.
LEMMA FailsInv ==
  ASSUME AttemptInv, NEW k \in Callbacks, callback[k].phase \in {"exchanging", "checking", "finishing"}, Fails(k)
  PROVE  AttemptInv'
<1>1. callback[k].attempt \in Attempts /\ attempt \in [Attempts -> AttemptRows]
  BY Types DEF AttemptInv, CallbacksAreNamed, Holding
<1>2. attempt' \in [Attempts -> AttemptRows] /\ Kept /\ NoneCompletes
  BY <1>1, FailedRows DEF Fails
<1> QED BY <1>2, EndsInv DEF Fails

LEMMA StopInv ==
  ASSUME AttemptInv, NEW k \in Callbacks, Stop(k) PROVE AttemptInv'
<1>1. callback[k].attempt \in Attempts /\ attempt \in [Attempts -> AttemptRows]
  BY Types DEF AttemptInv, CallbacksAreNamed, Holding, Stop, CallbackRows
<1>2. attempt' = attempt \/ attempt' = Failed(attempt, callback[k].attempt)
  BY DEF Stop
<1>3. attempt' \in [Attempts -> AttemptRows] /\ Kept /\ NoneCompletes
  <2>1. CASE attempt' = attempt
    BY <1>1, <2>1 DEF Kept, NoneCompletes
  <2>2. CASE attempt' = Failed(attempt, callback[k].attempt)
    BY <1>1, <2>2, FailedRows
  <2> QED BY <1>2, <2>1, <2>2
<1> QED BY <1>3, EndsInv DEF Stop

\* start, authorize, status polls and the clock.
LEMMA AttemptStepInv ==
  ASSUME AttemptInv, Poll \/ \E a \in Attempts : Authorize(a) \/ Lapse(a) \/ \E c \in Connections \cup {"none"} : Start(a, c)
  PROVE  AttemptInv'
<1>1. attempt \in [Attempts -> AttemptRows] /\ connection \in [Connections -> Rows]
  BY Types DEF AttemptInv
<1>2. /\ Expired(attempt) \in [Attempts -> AttemptRows]
      /\ \A a \in Attempts : /\ Expired(attempt)[a].target = attempt[a].target /\ Expired(attempt)[a].seen = attempt[a].seen
                             /\ Expired(attempt)[a].status = attempt[a].status
                                  \/ (Expired(attempt)[a].status = "failed" /\ attempt[a].status \in Active)
  BY <1>1, ExpiredRows
<1>3. UNCHANGED <<connection, callback, committed>>
  BY DEF Poll, Authorize, Lapse, Start
<1>4. attempt' \in [Attempts -> AttemptRows] /\ Kept /\ NoneCompletes
  <2>1. CASE Poll
    BY <1>2, <2>1 DEF Poll, Kept, NoneCompletes, Claimed, Active
  <2>2. ASSUME NEW a \in Attempts, Authorize(a) PROVE attempt' \in [Attempts -> AttemptRows] /\ Kept /\ NoneCompletes
    <3>1. PICK outcome \in {"authorizing", "failed"} : attempt' = [Expired(attempt) EXCEPT ![a].status = outcome]
      BY <2>2 DEF Authorize
    <3>2. attempt[a].status = "pending"
      BY <2>2 DEF Authorize
    <3>3. attempt' \in [Attempts -> AttemptRows]
      BY <1>2, <3>1 DEF AttemptRows, Active
    <3> QED BY <1>2, <3>1, <3>2, <3>3 DEF AttemptRows, Kept, NoneCompletes, Claimed, Active
  <2>3. ASSUME NEW a \in Attempts, Lapse(a) PROVE attempt' \in [Attempts -> AttemptRows] /\ Kept /\ NoneCompletes
    BY <1>1, <2>3 DEF Lapse, AttemptRows, Kept, NoneCompletes, Claimed
  <2>4. ASSUME NEW a \in Attempts, NEW c \in Connections \cup {"none"}, Start(a, c)
        PROVE attempt' \in [Attempts -> AttemptRows] /\ Kept /\ NoneCompletes
    <3>1. attempt' = [Expired(attempt) EXCEPT ![a] = [status |-> "pending", target |-> c, seen |-> connection, lapsed |-> FALSE]]
      BY <2>4 DEF Start
    <3>2. attempt[a].status = "new"
      BY <2>4 DEF Start
    <3>3. attempt' \in [Attempts -> AttemptRows]
      BY <1>1, <1>2, <3>1 DEF AttemptRows, Active
    <3> QED BY <1>2, <3>1, <3>2, <3>3 DEF Kept, NoneCompletes, Claimed, Active
  <2> QED BY <2>1, <2>2, <2>3, <2>4
<1> QED BY <1>3, <1>4, QuietInv

\* A connection is disconnected or loses its authority: it keeps its account.
LEMMA ConnectionStepInv ==
  ASSUME AttemptInv, NEW c \in Connections, Disconnect(c) \/ Revoke(c) PROVE AttemptInv'
<1> USE DEF AttemptInv
<1>1. connection \in [Connections -> Rows]
  BY Types
<1>2. UNCHANGED <<attempt, callback, committed>>
  BY DEF Disconnect, Revoke
<1>3. /\ connection' \in [Connections -> Rows]
      /\ \A d \in Connections : /\ connection'[d].identity = connection[d].identity
                                /\ connection'[d].status = "absent" <=> connection[d].status = "absent"
  <2>1. CASE Disconnect(c)
    <3>1. connection[c].generation + 1 \in 0..MaxGeneration
      BY <1>1, <2>1, AttemptAssumption DEF Disconnect, Rows
    <3>2. connection' = [connection EXCEPT ![c] = [connection[c] EXCEPT !.status = "disconnected", !.generation = connection[c].generation + 1]]
      BY <1>1, <2>1 DEF Disconnect, Rows
    <3> QED BY <1>1, <2>1, <3>1, <3>2 DEF Disconnect, Rows
  <2>2. CASE Revoke(c)
    BY <1>1, <2>2 DEF Revoke, Rows
  <2> QED BY <2>1, <2>2
<1>4. TypeOK'
  BY <1>2, <1>3 DEF TypeOK
<1>5. CallbacksAreNamed' /\ HeldIsBurnt' /\ OneHolder' /\ CommitsAreKnown' /\ OutcomesAreTrue'
  BY <1>2 DEF CallbacksAreNamed, HeldIsBurnt, OneHolder, Holds, CommitsAreKnown, OutcomesAreTrue
<1>6. ChecksStand'
  <2>1. Kept
    BY <1>2 DEF Kept
  <2> QED BY <1>2, <1>3, <2>1, ChecksStay DEF ChecksStand
<1>7. AccountsAreDistinct'
  BY <1>3 DEF AccountsAreDistinct
<1> QED BY <1>4, <1>5, <1>6, <1>7

\* A callback goes on without changing a connection; it comes to hold an attempt only by
\* claiming it.
LEMMA MovesInv ==
  ASSUME AttemptInv, NEW k \in Callbacks, NEW row \in CallbackRows,
         callback[k].phase \notin {"committed", "over"}, row.phase # "committed", row.outcome = "none",
         row.phase \in Holding \cup {"claiming"} => row.attempt \in Attempts,
         row.phase \in {"checking", "finishing"} => row.identity \in Identities,
         row.phase \in Holding =>
           \/ callback[k].phase \in Holding /\ row.attempt = callback[k].attempt
           \/ attempt[row.attempt].status \notin Claimed /\ attempt'[row.attempt].status \in Claimed,
         row.phase = "finishing" => Stands(row.attempt, row.identity, row.target)',
         callback' = [callback EXCEPT ![k] = row],
         attempt' \in [Attempts -> AttemptRows], Kept, NoneCompletes,
         UNCHANGED <<connection, committed>>
  PROVE  AttemptInv'
<1> USE DEF AttemptInv
<1>1. /\ callback \in [Callbacks -> CallbackRows] /\ committed \in [Attempts -> SUBSET Callbacks]
  BY Types
<1>2. /\ callback' \in [Callbacks -> CallbackRows]
      /\ callback'[k] = row
      /\ \A l \in Callbacks : l # k => callback'[l] = callback[l]
  BY <1>1
<1>3. \A a \in Attempts : k \notin committed[a]
  BY DEF CommitsAreKnown
<1>4. TypeOK'
  BY <1>1, <1>2 DEF TypeOK, CallbackRows, AttemptRows
<1>5. CallbacksAreNamed'
  BY <1>2 DEF CallbacksAreNamed, Holding
<1>6. ASSUME NEW l \in Callbacks, NEW a \in Attempts, Holds(l, a)'
      PROVE  attempt'[a].status \in Claimed /\ (Holds(l, a) \/ (l = k /\ \A n \in Callbacks : ~Holds(n, a)))
  <2>1. CASE Holds(l, a)
    BY <2>1 DEF HeldIsBurnt, Kept
  <2>2. CASE ~Holds(l, a)
    <3>1. l = k /\ row.phase \in Holding /\ row.attempt = a
      BY <1>2, <1>6, <2>2 DEF Holds
    <3>2. ~(callback[k].phase \in Holding /\ row.attempt = callback[k].attempt)
      BY <2>2, <3>1 DEF Holds
    <3>3. attempt[a].status \notin Claimed /\ attempt'[a].status \in Claimed
      BY <3>1, <3>2
    <3> QED BY <3>1, <3>3 DEF HeldIsBurnt
  <2> QED BY <2>1, <2>2
<1>7. HeldIsBurnt'
  BY <1>6 DEF HeldIsBurnt
<1>8. OneHolder'
  <2> SUFFICES ASSUME NEW a \in Attempts, NEW l \in Callbacks, NEW n \in Callbacks, Holds(l, a)', Holds(n, a)' PROVE l = n
    BY DEF OneHolder
  <2> QED BY <1>6 DEF OneHolder
<1>9. CommitsAreKnown'
  <2>1. ASSUME NEW l \in Callbacks, NEW a \in Attempts, l \in committed[a]
        PROVE  callback'[l].attempt = a /\ callback'[l].phase \in {"committed", "over"}
    <3>1. l # k
      BY <1>3, <2>1
    <3> QED BY <1>2, <2>1, <3>1 DEF CommitsAreKnown
  <2>2. ASSUME NEW l \in Callbacks, callback'[l].phase = "committed" PROVE l \in committed[callback'[l].attempt]
    <3>1. callback'[l] = callback[l]
      BY <1>2, <2>2
    <3> QED BY <2>2, <3>1 DEF CommitsAreKnown
  <2> QED BY <2>1, <2>2 DEF CommitsAreKnown
<1>10. OutcomesAreTrue'
  <2>1. ASSUME NEW l \in Callbacks, callback'[l].outcome \in {"success", "failure"}
        PROVE  /\ callback'[l].attempt \in Attempts
               /\ callback'[l].outcome = "success" =>
                    l \in committed[callback'[l].attempt] /\ attempt'[callback'[l].attempt].status = "completed"
               /\ callback'[l].outcome = "failure" => l \notin committed[callback'[l].attempt]
    <3>1. callback'[l] = callback[l]
      BY <1>2, <2>1
    <3>2. /\ callback[l].attempt \in Attempts
          /\ callback[l].outcome = "success" =>
               l \in committed[callback[l].attempt] /\ attempt[callback[l].attempt].status = "completed"
          /\ callback[l].outcome = "failure" => l \notin committed[callback[l].attempt]
      BY <2>1, <3>1 DEF OutcomesAreTrue
    <3>3. attempt[callback[l].attempt].status = "completed" => attempt'[callback[l].attempt].status = "completed"
      BY <3>2 DEF Kept, Claimed
    <3> QED BY <3>1, <3>2, <3>3
  <2>2. \A a \in Attempts : attempt'[a].status = "completed" => committed[a] # {}
    BY DEF OutcomesAreTrue, NoneCompletes
  <2> QED BY <2>1, <2>2 DEF OutcomesAreTrue
<1>11. ChecksStand'
  <2>1. ASSUME NEW l \in Callbacks, callback'[l].phase = "finishing", l # k
        PROVE  Stands(callback[l].attempt, callback[l].identity, callback[l].target)' /\ callback'[l] = callback[l]
    BY <1>2, <2>1, ChecksStay
  <2> QED BY <1>2, <2>1 DEF ChecksStand
<1>12. AccountsAreDistinct'
  BY DEF AccountsAreDistinct
<1> QED BY <1>4, <1>5, <1>7, <1>8, <1>9, <1>10, <1>11, <1>12

\* complete up to its check.
LEMMA SelectInv ==
  ASSUME AttemptInv, NEW k \in Callbacks, NEW a \in Attempts, Select(k, a) PROVE AttemptInv'
<1>1. attempt \in [Attempts -> AttemptRows] /\ callback \in [Callbacks -> CallbackRows]
  BY Types DEF AttemptInv
<1> DEFINE row == [callback[k] EXCEPT !.phase = "claiming", !.attempt = a]
<1>2. callback[k].phase = "new" /\ callback[k].outcome = "none"
  BY DEF Select, AttemptInv, CallbacksAreNamed
<1>3. row \in CallbackRows /\ row.phase = "claiming" /\ row.attempt = a /\ row.outcome = "none"
  BY <1>1, <1>2 DEF CallbackRows
<1>4. callback' = [callback EXCEPT ![k] = row]
  BY DEF Select
<1>5. attempt' \in [Attempts -> AttemptRows] /\ Kept /\ NoneCompletes
  BY <1>1, ExpiredRows DEF Select, Kept, NoneCompletes, Claimed, Active
<1> HIDE DEF row
<1> QED BY <1>2, <1>3, <1>4, <1>5, MovesInv DEF Select, Holding

LEMMA ClaimInv ==
  ASSUME AttemptInv, NEW k \in Callbacks, Claim(k) PROVE AttemptInv'
<1> DEFINE a == callback[k].attempt
<1>1. attempt \in [Attempts -> AttemptRows] /\ callback \in [Callbacks -> CallbackRows]
  BY Types DEF AttemptInv
<1>2. callback[k].phase = "claiming" /\ callback[k].outcome = "none" /\ a \in Attempts
  BY DEF Claim, AttemptInv, CallbacksAreNamed
<1>3. CASE Claimable(a)
  <2> DEFINE row == [callback[k] EXCEPT !.phase = "exchanging"]
  <2>1. row \in CallbackRows /\ row.phase = "exchanging" /\ row.attempt = a /\ row.outcome = "none"
    BY <1>1, <1>2 DEF CallbackRows
  <2>2. callback' = [callback EXCEPT ![k] = row] /\ attempt' = [attempt EXCEPT ![a].status = "exchanging"]
    BY <1>3 DEF Claim
  <2>3. /\ attempt[a].status = "authorizing"
        /\ attempt' = [attempt EXCEPT ![a] = [attempt[a] EXCEPT !.status = "exchanging"]]
    BY <1>3, <2>2 DEF Claimable
  <2>4. attempt'[a].status = "exchanging" /\ attempt' \in [Attempts -> AttemptRows] /\ Kept /\ NoneCompletes
    BY <1>1, <1>2, <2>3, ZenonT(60) DEF AttemptRows, Active, Kept, NoneCompletes, Claimed
  <2> HIDE DEF row
  <2> QED BY <1>2, <2>1, <2>2, <2>3, <2>4, MovesInv DEF Claim, Claimed, Holding
<1>4. CASE ~Claimable(a)
  <2> DEFINE row == [NewCallback EXCEPT !.phase = "over"]
  <2>1. row \in CallbackRows /\ row.phase = "over" /\ row.outcome = "none"
    BY DEF CallbackRows, NewCallback
  <2>2. callback' = [callback EXCEPT ![k] = row] /\ attempt' = attempt
    BY <1>4 DEF Claim
  <2>3. attempt' \in [Attempts -> AttemptRows] /\ Kept /\ NoneCompletes
    BY <1>1, <2>2 DEF Kept, NoneCompletes
  <2> HIDE DEF row
  <2> QED BY <1>2, <2>1, <2>2, <2>3, MovesInv DEF Claim, Holding
<1> QED BY <1>3, <1>4

LEMMA ExchangedInv ==
  ASSUME AttemptInv, NEW k \in Callbacks, NEW i \in Identities, Exchanged(k, i) PROVE AttemptInv'
<1> DEFINE row == [callback[k] EXCEPT !.phase = "checking", !.identity = i]
<1>1. attempt \in [Attempts -> AttemptRows] /\ callback \in [Callbacks -> CallbackRows]
  BY Types DEF AttemptInv
<1>2. callback[k].phase = "exchanging" /\ callback[k].outcome = "none" /\ callback[k].attempt \in Attempts
  BY DEF Exchanged, AttemptInv, CallbacksAreNamed, Holding
<1>3. row \in CallbackRows /\ row.phase = "checking" /\ row.attempt = callback[k].attempt /\ row.identity = i /\ row.outcome = "none"
  BY <1>1, <1>2 DEF CallbackRows
<1>4. callback' = [callback EXCEPT ![k] = row] /\ attempt' = attempt
  BY DEF Exchanged
<1>5. attempt' \in [Attempts -> AttemptRows] /\ Kept /\ NoneCompletes
  BY <1>1, <1>4 DEF Kept, NoneCompletes
<1> HIDE DEF row
<1> QED BY <1>2, <1>3, <1>4, <1>5, MovesInv DEF Exchanged, Holding

\* What the check finds: no connection of the account, or one that start had noted.
LEMMA CheckFinds ==
  ASSUME AttemptInv, NEW k \in Callbacks, callback[k].phase = "checking",
         NEW target \in IF MayCreate(callback[k].attempt, callback[k].identity) THEN {"none"}
                        ELSE Targets(callback[k].attempt, callback[k].identity)
  PROVE  target \in Connections \cup {"none"} /\ Stands(callback[k].attempt, callback[k].identity, target)
<1> DEFINE a == callback[k].attempt
           i == callback[k].identity
<1>1. CASE MayCreate(a, i)
  BY <1>1 DEF MayCreate, Stands
<1>2. CASE ~MayCreate(a, i)
  <2>1. target \in Targets(a, i)
    BY <1>2
  <2>2. target \in Connections /\ connection[target].identity = i /\ attempt[a].seen[target].identity = i
    BY <2>1 DEF Targets, Of
  <2>3. attempt[a].target = target \/ (attempt[a].target = "none" /\ attempt[a].seen[target].status = "connected")
    BY <2>1 DEF Targets
  <2>4. target # "none"
    BY <2>2, AttemptAssumption
  <2> QED BY <2>2, <2>3, <2>4 DEF Stands
<1> QED BY <1>1, <1>2

LEMMA CheckInv ==
  ASSUME AttemptInv, NEW k \in Callbacks, Check(k) PROVE AttemptInv'
<1> DEFINE a == callback[k].attempt
           i == callback[k].identity
<1>1. attempt \in [Attempts -> AttemptRows] /\ callback \in [Callbacks -> CallbackRows]
  BY Types DEF AttemptInv
<1>2. callback[k].phase = "checking" /\ callback[k].outcome = "none" /\ a \in Attempts /\ i \in Identities
  BY DEF Check, AttemptInv, CallbacksAreNamed, Holding
<1>3. CASE attempt[a].lapsed \/ (Targets(a, i) = {} /\ ~MayCreate(a, i))
  BY <1>2, <1>3, FailsInv DEF Check
<1>4. CASE ~(attempt[a].lapsed \/ (Targets(a, i) = {} /\ ~MayCreate(a, i)))
  <2>1. /\ \E target \in IF MayCreate(a, i) THEN {"none"} ELSE Targets(a, i) :
             callback' = [callback EXCEPT ![k].phase = "finishing", ![k].target = target]
        /\ UNCHANGED <<connection, attempt, committed>>
    BY <1>4 DEF Check
  <2>2. PICK target \in IF MayCreate(a, i) THEN {"none"} ELSE Targets(a, i) :
               callback' = [callback EXCEPT ![k].phase = "finishing", ![k].target = target]
    BY <2>1
  <2>3. target \in Connections \cup {"none"} /\ Stands(a, i, target)
    BY <1>2, CheckFinds
  <2>4. [callback[k] EXCEPT !.phase = "finishing", !.target = target] \in CallbackRows
    BY <1>1, <1>2, <2>3 DEF CallbackRows
  <2> PICK row \in CallbackRows : row = [callback[k] EXCEPT !.phase = "finishing", !.target = target]
    BY <2>4
  <2>5. /\ row.phase = "finishing" /\ row.attempt = a /\ row.identity = i /\ row.target = target /\ row.outcome = "none"
        /\ callback' = [callback EXCEPT ![k] = row]
    BY <1>1, <1>2, <2>2 DEF CallbackRows
  <2>6. attempt' \in [Attempts -> AttemptRows] /\ Kept /\ NoneCompletes
    BY <1>1, <2>1 DEF Kept, NoneCompletes
  <2>7. Stands(row.attempt, row.identity, row.target)'
    <3>1. Stands(row.attempt, row.identity, row.target)
      BY <2>3, <2>5
    <3> QED BY <2>1, <3>1 DEF Stands
  <2> QED BY <1>2, <2>1, <2>5, <2>6, <2>7, MovesInv DEF Holding
<1> QED BY <1>3, <1>4

\* The commit: a connection changes, whose account was its own or nobody's.
LEMMA CommittedInv ==
  ASSUME AttemptInv, NEW k \in Callbacks, callback[k].phase = "finishing", Committed(k),
         connection' \in [Connections -> Rows], AccountsAreDistinct',
         \A c \in Connections : connection'[c].identity = connection[c].identity \/ connection[c].identity \notin Identities
  PROVE  AttemptInv'
<1> USE DEF AttemptInv
<1> DEFINE a == callback[k].attempt
<1>1. /\ callback \in [Callbacks -> CallbackRows] /\ committed \in [Attempts -> SUBSET Callbacks]
      /\ a \in Attempts /\ attempt' = attempt
  BY Types DEF CallbacksAreNamed, Holding, Committed
<1>2. /\ callback' = [callback EXCEPT ![k] = [callback[k] EXCEPT !.phase = "committed"]]
      /\ committed' = [committed EXCEPT ![a] = @ \cup {k}]
  BY DEF Committed
<1>3. [callback[k] EXCEPT !.phase = "committed"] \in CallbackRows
  BY <1>1 DEF CallbackRows
<1>4. /\ callback' \in [Callbacks -> CallbackRows]
      /\ callback'[k].phase = "committed" /\ callback'[k].attempt = a
      /\ callback'[k].identity = callback[k].identity /\ callback'[k].outcome = callback[k].outcome
      /\ \A l \in Callbacks : l # k => callback'[l] = callback[l]
  BY <1>1, <1>2, <1>3 DEF CallbackRows
<1>5. /\ committed' \in [Attempts -> SUBSET Callbacks]
      /\ \A b \in Attempts : b # a => committed'[b] = committed[b]
      /\ committed'[a] = committed[a] \cup {k}
  BY <1>1, <1>2
<1>6. TypeOK'
  BY <1>1, <1>4, <1>5 DEF TypeOK, CallbackRows
<1>7. CallbacksAreNamed'
  BY <1>4 DEF CallbacksAreNamed, Holding
<1>8. \A l \in Callbacks, b \in Attempts : Holds(l, b)' => Holds(l, b)
  <2> SUFFICES ASSUME NEW l \in Callbacks, NEW b \in Attempts, Holds(l, b)' PROVE Holds(l, b)
    OBVIOUS
  <2>1. Holds(k, a)
    BY DEF Holds, Holding
  <2>2. CASE l = k /\ b = a
    BY <2>1, <2>2
  <2>3. CASE l = k /\ b # a
    BY <1>4, <1>5, <2>3 DEF Holds
  <2>4. CASE l # k
    BY <1>4, <1>5, <2>4 DEF Holds
  <2> QED BY <2>2, <2>3, <2>4
<1>9. HeldIsBurnt' /\ OneHolder'
  BY <1>1, <1>8 DEF HeldIsBurnt, OneHolder
<1>10. CommitsAreKnown'
  <2>1. ASSUME NEW l \in Callbacks, NEW b \in Attempts, l \in committed'[b]
        PROVE  callback'[l].attempt = b /\ callback'[l].phase \in {"committed", "over"}
    <3>1. CASE l = k
      <4>1. k \notin committed[b]
        BY DEF CommitsAreKnown
      <4> QED BY <1>4, <1>5, <2>1, <3>1, <4>1
    <3>2. CASE l # k
      <4>1. l \in committed[b]
        BY <1>5, <2>1, <3>2
      <4>2. callback[l].attempt = b /\ callback[l].phase \in {"committed", "over"}
        BY <4>1 DEF CommitsAreKnown
      <4> QED BY <1>4, <3>2, <4>2
    <3> QED BY <3>1, <3>2
  <2>2. ASSUME NEW l \in Callbacks, callback'[l].phase = "committed" PROVE l \in committed'[callback'[l].attempt]
    <3>1. CASE l = k
      BY <1>4, <1>5, <3>1
    <3>2. CASE l # k
      <4>1. callback[l].attempt \in Attempts /\ l \in committed[callback[l].attempt] /\ callback'[l] = callback[l]
        BY <1>4, <2>2, <3>2 DEF CommitsAreKnown, CallbacksAreNamed, Holding
      <4> QED BY <1>5, <4>1
    <3> QED BY <3>1, <3>2
  <2> QED BY <2>1, <2>2 DEF CommitsAreKnown
<1>11. OutcomesAreTrue'
  <2>1. ASSUME NEW l \in Callbacks, callback'[l].outcome \in {"success", "failure"}
        PROVE  /\ callback'[l].attempt \in Attempts
               /\ callback'[l].outcome = "success" =>
                    l \in committed'[callback'[l].attempt] /\ attempt'[callback'[l].attempt].status = "completed"
               /\ callback'[l].outcome = "failure" => l \notin committed'[callback'[l].attempt]
    <3>1. l # k
      BY <1>4, <2>1 DEF CallbacksAreNamed
    <3>2. callback'[l] = callback[l]
      BY <1>4, <3>1
    <3>3. /\ callback[l].attempt \in Attempts
          /\ callback[l].outcome = "success" =>
               l \in committed[callback[l].attempt] /\ attempt[callback[l].attempt].status = "completed"
          /\ callback[l].outcome = "failure" => l \notin committed[callback[l].attempt]
      BY <2>1, <3>2 DEF OutcomesAreTrue
    <3>4. l \in committed'[callback[l].attempt] <=> l \in committed[callback[l].attempt]
      BY <1>5, <3>1, <3>3
    <3> QED BY <1>1, <3>2, <3>3, <3>4
  <2>2. \A b \in Attempts : attempt'[b].status = "completed" => committed'[b] # {}
    BY <1>1, <1>5 DEF OutcomesAreTrue
  <2> QED BY <2>1, <2>2 DEF OutcomesAreTrue
<1>12. ChecksStand'
  <2>1. Kept
    BY <1>1 DEF Kept
  <2>2. ASSUME NEW l \in Callbacks, callback'[l].phase = "finishing"
        PROVE  Stands(callback[l].attempt, callback[l].identity, callback[l].target)' /\ callback'[l] = callback[l]
    BY <1>4, <2>1, <2>2, ChecksStay
  <2> QED BY <2>2 DEF ChecksStand
<1> QED BY <1>6, <1>7, <1>9, <1>10, <1>11, <1>12

LEMMA CreateInv ==
  ASSUME AttemptInv, NEW k \in Callbacks, Create(k) PROVE AttemptInv'
<1> DEFINE i == callback[k].identity
<1>1. /\ callback[k].phase = "finishing" /\ Committed(k) /\ Of(connection, i) = {}
      /\ callback[k].attempt \in Attempts /\ i \in Identities
      /\ connection \in [Connections -> Rows]
  BY Types DEF Create, Unclaimed, AttemptInv, CallbacksAreNamed, Holding
<1>2. PICK c \in Connections :
        /\ ~Exists(c)
        /\ connection' = [connection EXCEPT ![c] = [identity |-> i, status |-> "connected", generation |-> 1, authority |-> callback[k].attempt]]
  BY DEF Create
<1>3. connection' \in [Connections -> Rows]
  BY <1>1, <1>2, AttemptAssumption DEF Rows
<1>4. /\ connection'[c].identity = i /\ connection'[c].status = "connected" /\ connection[c].identity \notin Identities
      /\ \A d \in Connections : d # c => connection'[d] = connection[d]
      /\ \A d \in Connections : connection[d].identity # i
  BY <1>1, <1>2 DEF Exists, Of, AttemptInv, AccountsAreDistinct
<1>5. AccountsAreDistinct'
  BY <1>1, <1>4 DEF AttemptInv, AccountsAreDistinct
<1> QED BY <1>1, <1>3, <1>4, <1>5, CommittedInv

LEMMA ReconnectInv ==
  ASSUME AttemptInv, NEW k \in Callbacks, Reconnect(k) PROVE AttemptInv'
<1> DEFINE c == callback[k].target
<1>1. /\ callback[k].phase = "finishing" /\ Committed(k) /\ c # "none" /\ connection[c].generation < MaxGeneration
      /\ callback[k].attempt \in Attempts /\ callback[k].identity \in Identities
      /\ connection \in [Connections -> Rows]
  BY Types DEF Reconnect, AttemptInv, CallbacksAreNamed, Holding
<1>2. c \in Connections /\ connection[c].identity = callback[k].identity
  BY <1>1 DEF AttemptInv, ChecksStand, Stands
<1>3. connection' = [connection EXCEPT ![c] = [connection[c] EXCEPT !.status = "connected", !.generation = connection[c].generation + 1,
                                                                    !.authority = callback[k].attempt]]
  BY <1>1, <1>2 DEF Reconnect
<1>4. connection[c].generation + 1 \in 0..MaxGeneration
  BY <1>1, <1>2, AttemptAssumption DEF Rows
<1>5. /\ connection' \in [Connections -> Rows]
      /\ connection'[c].identity = connection[c].identity /\ connection'[c].status = "connected"
      /\ \A d \in Connections : d # c => connection'[d] = connection[d]
  BY <1>1, <1>2, <1>3, <1>4, ZenonT(60) DEF Rows
<1>6. AccountsAreDistinct'
  BY <1>1, <1>2, <1>5 DEF AttemptInv, AccountsAreDistinct
<1> QED BY <1>1, <1>5, <1>6, CommittedInv

\* The attempt is completed and the callback answered.
LEMMA CompleteInv ==
  ASSUME AttemptInv, NEW k \in Callbacks, Complete(k) PROVE AttemptInv'
<1> USE DEF AttemptInv
<1> DEFINE a == callback[k].attempt
<1>1. /\ callback \in [Callbacks -> CallbackRows] /\ attempt \in [Attempts -> AttemptRows]
      /\ committed \in [Attempts -> SUBSET Callbacks]
      /\ a \in Attempts /\ callback[k].phase = "committed" /\ k \in committed[a]
      /\ UNCHANGED <<connection, committed>>
  BY Types DEF CallbacksAreNamed, Holding, CommitsAreKnown, Complete
<1>2. /\ callback' = [callback EXCEPT ![k] = [callback[k] EXCEPT !.phase = "over", !.outcome = "success"]]
      /\ attempt' = [attempt EXCEPT ![a] = [attempt[a] EXCEPT !.status = "completed"]]
  BY DEF Complete, Completed
<1>3. [callback[k] EXCEPT !.phase = "over", !.outcome = "success"] \in CallbackRows
  BY <1>1 DEF CallbackRows
<1>4. /\ callback' \in [Callbacks -> CallbackRows]
      /\ callback'[k].phase = "over" /\ callback'[k].attempt = a /\ callback'[k].outcome = "success"
      /\ \A l \in Callbacks : l # k => callback'[l] = callback[l]
  BY <1>1, <1>2, <1>3 DEF CallbackRows
<1>5. /\ attempt' \in [Attempts -> AttemptRows]
      /\ attempt'[a].status = "completed" /\ attempt'[a].seen = attempt[a].seen /\ attempt'[a].target = attempt[a].target
      /\ \A b \in Attempts : b # a => attempt'[b] = attempt[b]
  BY <1>1, <1>2, ZenonT(60) DEF AttemptRows
<1>6. TypeOK' /\ Kept
  BY <1>1, <1>4, <1>5 DEF TypeOK, CallbackRows, AttemptRows, Kept, Claimed
<1>7. CallbacksAreNamed'
  BY <1>4 DEF CallbacksAreNamed, Holding
<1>8. \A l \in Callbacks, b \in Attempts : Holds(l, b)' => Holds(l, b)
  BY <1>1, <1>4 DEF Holds, Holding
<1>9. HeldIsBurnt' /\ OneHolder'
  BY <1>6, <1>8 DEF HeldIsBurnt, OneHolder, Kept
<1>10. CommitsAreKnown'
  <2>1. ASSUME NEW l \in Callbacks, NEW b \in Attempts, l \in committed[b]
        PROVE  callback'[l].attempt = b /\ callback'[l].phase \in {"committed", "over"}
    <3>1. callback[l].attempt = b /\ callback[l].phase \in {"committed", "over"}
      BY <2>1 DEF CommitsAreKnown
    <3> QED BY <1>4, <3>1
  <2>2. ASSUME NEW l \in Callbacks, callback'[l].phase = "committed" PROVE l \in committed[callback'[l].attempt]
    <3>1. callback'[l] = callback[l]
      BY <1>4, <2>2
    <3> QED BY <2>2, <3>1 DEF CommitsAreKnown
  <2> QED BY <1>1, <2>1, <2>2 DEF CommitsAreKnown
<1>11. OutcomesAreTrue'
  <2>1. ASSUME NEW l \in Callbacks, callback'[l].outcome \in {"success", "failure"}
        PROVE  /\ callback'[l].attempt \in Attempts
               /\ callback'[l].outcome = "success" =>
                    l \in committed[callback'[l].attempt] /\ attempt'[callback'[l].attempt].status = "completed"
               /\ callback'[l].outcome = "failure" => l \notin committed[callback'[l].attempt]
    <3>1. CASE l = k
      BY <1>1, <1>4, <1>5, <3>1
    <3>2. CASE l # k
      <4>1. callback'[l] = callback[l]
        BY <1>4, <3>2
      <4>2. /\ callback[l].attempt \in Attempts
            /\ callback[l].outcome = "success" =>
                 l \in committed[callback[l].attempt] /\ attempt[callback[l].attempt].status = "completed"
            /\ callback[l].outcome = "failure" => l \notin committed[callback[l].attempt]
        BY <2>1, <4>1 DEF OutcomesAreTrue
      <4>3. attempt[callback[l].attempt].status = "completed" => attempt'[callback[l].attempt].status = "completed"
        BY <1>5, <4>2
      <4> QED BY <4>1, <4>2, <4>3
    <3> QED BY <3>1, <3>2
  <2>2. \A b \in Attempts : attempt'[b].status = "completed" => committed[b] # {}
    BY <1>1, <1>5 DEF OutcomesAreTrue
  <2> QED BY <1>1, <2>1, <2>2 DEF OutcomesAreTrue
<1>12. ChecksStand'
  <2>1. ASSUME NEW l \in Callbacks, callback'[l].phase = "finishing"
        PROVE  Stands(callback[l].attempt, callback[l].identity, callback[l].target)' /\ callback'[l] = callback[l]
    BY <1>1, <1>4, <1>6, <2>1, ChecksStay
  <2> QED BY <2>1 DEF ChecksStand
<1>13. AccountsAreDistinct'
  BY <1>1 DEF AccountsAreDistinct
<1> QED BY <1>6, <1>7, <1>9, <1>10, <1>11, <1>12, <1>13

LEMMA InitInv == Init => AttemptInv
<1> SUFFICES ASSUME Init PROVE AttemptInv
  OBVIOUS
<1>1. Absent \in Rows
  BY AttemptAssumption DEF Absent, Rows
<1>2. TypeOK
  BY <1>1 DEF Init, TypeOK, NewAttempt, NewCallback, Active
<1>3. CallbacksAreNamed
  BY DEF Init, CallbacksAreNamed, NewCallback, Holding
<1>4. HeldIsBurnt /\ OneHolder
  BY DEF Init, HeldIsBurnt, OneHolder, Holds, NewCallback, Holding
<1>5. CommitsAreKnown /\ OutcomesAreTrue
  BY DEF Init, CommitsAreKnown, OutcomesAreTrue, NewCallback, NewAttempt
<1>6. ChecksStand
  BY DEF Init, ChecksStand, NewCallback
<1>7. AccountsAreDistinct
  BY AttemptAssumption DEF Init, AccountsAreDistinct, Absent
<1> QED BY <1>2, <1>3, <1>4, <1>5, <1>6, <1>7 DEF AttemptInv

LEMMA NextInv == AttemptInv /\ [Next]_vars => AttemptInv'
<1> SUFFICES ASSUME AttemptInv, [Next]_vars PROVE AttemptInv'
  OBVIOUS
<1>1. CASE Poll \/ \E a \in Attempts : Authorize(a) \/ Lapse(a) \/ \E target \in Connections \cup {"none"} : Start(a, target)
  BY <1>1, AttemptStepInv
<1>2. ASSUME NEW k \in Callbacks, NEW a \in Attempts, Select(k, a) PROVE AttemptInv'
  BY <1>2, SelectInv
<1>3. ASSUME NEW k \in Callbacks, NEW i \in Identities, Exchanged(k, i) PROVE AttemptInv'
  BY <1>3, ExchangedInv
<1>4. ASSUME NEW k \in Callbacks, Claim(k) \/ Check(k) PROVE AttemptInv'
  BY <1>4, ClaimInv, CheckInv
<1>5. ASSUME NEW k \in Callbacks, Refused(k) \/ NotCommitted(k) PROVE AttemptInv'
  BY <1>5, FailsInv DEF Refused, NotCommitted
<1>6. ASSUME NEW k \in Callbacks, Create(k) \/ Reconnect(k) PROVE AttemptInv'
  BY <1>6, CreateInv, ReconnectInv
<1>7. ASSUME NEW k \in Callbacks, Complete(k) \/ Stop(k) PROVE AttemptInv'
  BY <1>7, CompleteInv, StopInv
<1>8. ASSUME NEW c \in Connections, Disconnect(c) \/ Revoke(c) PROVE AttemptInv'
  BY <1>8, ConnectionStepInv
<1>9. CASE UNCHANGED vars
  <2>1. attempt' \in [Attempts -> AttemptRows] /\ Kept /\ NoneCompletes
    BY <1>9, Types DEF vars, Kept, NoneCompletes, AttemptInv
  <2> QED BY <1>9, <2>1, QuietInv DEF vars
<1> QED BY <1>1, <1>2, <1>3, <1>4, <1>5, <1>6, <1>7, <1>8, <1>9 DEF Next

\* The invariant the theorems rest on holds of every attempt's life.
THEOREM AttemptInvariant == Spec => []AttemptInv
BY InitInv, NextInv, PTL DEF Spec

\* A set whose members are all equal has at most one.
LEMMA AtMostOne ==
  ASSUME NEW S, \A x, y \in S : x = y
  PROVE  Cardinality(S) <= 1
<1>1. CASE S = {}
  BY <1>1, FS_EmptySet
<1>2. CASE S # {}
  <2>1. PICK x \in S : TRUE
    BY <1>2
  <2>2. S = {x}
    BY <2>1
  <2> QED BY <2>2, FS_Singleton
<1> QED BY <1>1, <1>2

\* However often a callback is delivered, one of them claims the attempt, and it alone changes a
\* connection, once (complete).
THEOREM AttemptsActAtMostOnce == Spec => []AttemptsActOnce
<1>1. AttemptInv => AttemptsActOnce
  <2> SUFFICES ASSUME AttemptInv, NEW a \in Attempts PROVE Cardinality(committed[a]) <= 1
    BY DEF AttemptsActOnce, AttemptInv
  <2>1. \A k, l \in committed[a] : k = l
    <3>1. committed[a] \subseteq Callbacks
      BY DEF AttemptInv, TypeOK
    <3> QED BY <3>1 DEF AttemptInv, OneHolder, Holds
  <2> QED BY <2>1, AtMostOne
<1> QED BY <1>1, AttemptInvariant, PTL

\* What a callback answers, and what the attempt's row says in the end, is what happened to the
\* connections (complete, fail).
THEOREM OutcomesAreHonest == Spec => []OutcomeIsTrue
<1>1. AttemptInv => OutcomeIsTrue
  BY DEF AttemptInv, OutcomesAreTrue, OutcomeIsTrue
<1> QED BY <1>1, AttemptInvariant, PTL

\* Attempts that finish together never give an account two connections (createConnection).
THEOREM AccountsHaveOneConnection == Spec => []OneConnectionPerAccount
<1>1. AttemptInv => OneConnectionPerAccount
  <2> SUFFICES ASSUME AttemptInv, NEW i \in Identities PROVE Cardinality(Of(connection, i)) <= 1
    BY DEF OneConnectionPerAccount
  <2>1. \A c, d \in Of(connection, i) : c = d
    BY DEF AttemptInv, AccountsAreDistinct, Of
  <2> QED BY <2>1, AtMostOne
<1> QED BY <1>1, AttemptInvariant, PTL

\* An attempt replaces only the authority its user had seen: the check compares with what start
\* noted, and the commit compares the generation once more.
THEOREM ReplacesOnlyWhatWasSeen == Spec => OnlyWhatWasSeenIsReplaced
<1> DEFINE Seen(c) ==
      LET a == connection'[c].authority IN
      a # connection[c].authority =>
        IF Exists(c)
        THEN LET seen == attempt[a].seen[c]
             IN  /\ seen.generation = connection[c].generation /\ seen.identity = connection[c].identity
                 /\ attempt[a].target = c \/ (attempt[a].target = "none" /\ seen.status = "connected")
        ELSE Of(attempt[a].seen, connection'[c].identity) = {}
<1>1. ASSUME AttemptInv, [Next]_vars, NEW c \in Connections, connection'[c].authority # connection[c].authority
      PROVE  Seen(c)
  <2>1. connection \in [Connections -> Rows]
    BY <1>1, Types DEF AttemptInv
  <2>2. ASSUME NEW d \in Connections, Disconnect(d) \/ Revoke(d) PROVE FALSE
    <3>1. connection'[c].authority = connection[c].authority
      BY <2>1, <2>2 DEF Disconnect, Revoke, Rows
    <3> QED BY <1>1, <3>1
  <2>3. PICK k \in Callbacks : Create(k) \/ Reconnect(k)
    BY <1>1, <2>2 DEF Next, vars, Poll, Authorize, Lapse, Start, Claim, Refused, Fails, Check, NotCommitted, Complete, Stop,
                      Select, Exchanged
  <2>4. callback[k].phase = "finishing" /\ callback[k].attempt \in Attempts /\ callback[k].identity \in Identities
    BY <1>1, <2>3 DEF Create, Reconnect, AttemptInv, CallbacksAreNamed, Holding
  <2>5. Stands(callback[k].attempt, callback[k].identity, callback[k].target)
    BY <1>1, <2>4 DEF AttemptInv, ChecksStand
  <2>6. CASE Create(k)
    <3>1. PICK d \in Connections :
            /\ ~Exists(d)
            /\ connection' = [connection EXCEPT ![d] = [identity |-> callback[k].identity, status |-> "connected", generation |-> 1,
                                                        authority |-> callback[k].attempt]]
      BY <2>6 DEF Create
    <3>2. c = d
      BY <1>1, <2>1, <3>1
    <3>3. connection'[c].authority = callback[k].attempt /\ connection'[c].identity = callback[k].identity /\ ~Exists(c)
      BY <2>1, <3>1, <3>2
    <3>4. Of(attempt[callback[k].attempt].seen, callback[k].identity) = {}
      BY <2>5, <2>6 DEF Create, Stands
    <3> QED BY <3>3, <3>4
  <2>7. CASE Reconnect(k)
    <3>1. callback[k].target # "none" /\ SameAuthority(callback[k].attempt, callback[k].target)
      BY <2>7 DEF Reconnect
    <3>2. /\ callback[k].target \in Connections
          /\ connection[callback[k].target].identity = callback[k].identity
          /\ attempt[callback[k].attempt].seen[callback[k].target].identity = callback[k].identity
          /\ attempt[callback[k].attempt].target = callback[k].target
               \/ (attempt[callback[k].attempt].target = "none" /\ attempt[callback[k].attempt].seen[callback[k].target].status = "connected")
      BY <2>5, <3>1 DEF Stands
    <3>3. connection' = [connection EXCEPT ![callback[k].target] =
                           [connection[callback[k].target] EXCEPT !.status = "connected", !.generation = connection[callback[k].target].generation + 1,
                                                                  !.authority = callback[k].attempt]]
      BY <2>7, <3>2 DEF Reconnect
    <3>4. callback[k].target = c
      BY <1>1, <2>1, <3>2, <3>3
    <3>5. connection'[c].authority = callback[k].attempt
      BY <2>1, <3>3, <3>4 DEF Rows
    <3>6. attempt[callback[k].attempt].seen[c].generation = connection[c].generation
      BY <3>1, <3>4 DEF SameAuthority
    <3>7. Exists(c)
      BY <1>1, <2>4, <3>2, <3>4 DEF Exists, AttemptInv, AccountsAreDistinct
    <3> QED BY <3>2, <3>4, <3>5, <3>6, <3>7
  <2> QED BY <2>3, <2>6, <2>7
<1>2. AttemptInv /\ [Next]_vars => [\A c \in Connections : Seen(c)]_vars
  BY <1>1
<1> QED BY <1>2, AttemptInvariant, PTL DEF Spec, OnlyWhatWasSeenIsReplaced

=============================================================================
