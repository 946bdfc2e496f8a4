---------------------------- MODULE GoogleOAuth ----------------------------
(***************************************************************************)
(* Attempts to connect a Google account                                    *)
(* (packages/inbox-sdk/server/google-oauth.ts).  An attempt is a row that  *)
(* is started, redeemed once for a redirect to Google, claimed once by the *)
(* callback, and completed by creating or reconnecting a connection.       *)
(* Between the steps of a callback other callbacks, status polls, the      *)
(* clock and the user change both the attempt and the connections.         *)
(***************************************************************************)
EXTENDS Integers, FiniteSets

CONSTANTS
  Identities,    \* Google accounts
  Connections,   \* ids for connections
  Attempts,      \* ids for attempts
  Callbacks,     \* calls of complete: a browser may deliver a callback twice
  MaxGeneration  \* bound: generations of a connection

ASSUME AttemptAssumption == MaxGeneration \in Nat \ {0} /\ "none" \notin Identities \cup Connections \cup Attempts

VARIABLES
  connection, \* sdk_connections, and the attempt whose authority each holds
  attempt,    \* sdk_oauth_attempts; "lapsed" is expires_at <= now
  callback,   \* calls of complete, between their awaits
  committed   \* history: the callbacks of an attempt that changed a connection

vars == <<connection, attempt, callback, committed>>

Active == {"pending", "authorizing", "exchanging"}

Absent == [identity |-> "none", status |-> "absent", generation |-> 0, authority |-> "none"]
NewAttempt == [status |-> "new", target |-> "none", seen |-> [c \in Connections |-> Absent], lapsed |-> FALSE]
NewCallback == [phase |-> "new", attempt |-> "none", identity |-> "none", target |-> "none", outcome |-> "none"]

Rows == [identity : Identities \cup {"none"}, status : {"absent", "connected", "reconnect_required", "disconnected"},
         generation : 0..MaxGeneration, authority : Attempts \cup {"none"}]

TypeOK ==
  /\ connection \in [Connections -> Rows]
  /\ attempt \in [Attempts -> [status : Active \cup {"new", "completed", "failed"}, target : Connections \cup {"none"},
                               seen : [Connections -> Rows], lapsed : BOOLEAN]]
  /\ callback \in [Callbacks -> [phase : {"new", "claiming", "exchanging", "checking", "finishing", "committed", "over"},
                                 attempt : Attempts \cup {"none"}, identity : Identities \cup {"none"},
                                 target : Connections \cup {"none"}, outcome : {"none", "success", "failure", "stopped"}]]
  /\ committed \in [Attempts -> SUBSET Callbacks]

Init ==
  /\ connection = [c \in Connections |-> Absent]
  /\ attempt = [a \in Attempts |-> NewAttempt]
  /\ callback = [k \in Callbacks |-> NewCallback]
  /\ committed = [a \in Attempts |-> {}]

Exists(c) == connection[c].status # "absent"
Of(rows, i) == {c \in Connections : rows[c].identity = i}

----------------------------------------------------------------------------
(* The attempt's own states. *)

\* expire, which start, attempt, authorize and complete all begin with.
Expired(rows) == [a \in Attempts |-> IF rows[a].lapsed /\ rows[a].status \in Active THEN [rows[a] EXCEPT !.status = "failed"] ELSE rows[a]]

\* fail: an attempt that is not settled yet.
Failed(rows, a) == IF rows[a].status \in Active THEN [rows EXCEPT ![a].status = "failed"] ELSE rows

\* start notes what the user's connections are: all of them, or the one to reconnect.
Start(a, target) ==
  /\ attempt[a].status = "new"
  /\ target # "none" => Exists(target)
  /\ attempt' = [Expired(attempt) EXCEPT ![a] = [status |-> "pending", target |-> target, seen |-> connection, lapsed |-> FALSE]]
  /\ UNCHANGED <<connection, callback, committed>>

\* authorize redeems the ticket; the redirect may still fail.
Authorize(a) ==
  /\ attempt[a].status = "pending" /\ ~attempt[a].lapsed
  /\ \E outcome \in {"authorizing", "failed"} : attempt' = [Expired(attempt) EXCEPT ![a].status = outcome]
  /\ UNCHANGED <<connection, callback, committed>>

Poll ==
  /\ \E a \in Attempts : attempt[a].lapsed /\ attempt[a].status \in Active
  /\ attempt' = Expired(attempt)
  /\ UNCHANGED <<connection, callback, committed>>

Lapse(a) ==
  /\ attempt[a].status \in Active /\ ~attempt[a].lapsed
  /\ attempt' = [attempt EXCEPT ![a].lapsed = TRUE]
  /\ UNCHANGED <<connection, callback, committed>>

----------------------------------------------------------------------------
(* complete, step by step. *)

Fails(k) ==
  /\ attempt' = Failed(attempt, callback[k].attempt)
  /\ callback' = [callback EXCEPT ![k].phase = "over", ![k].outcome = "failure"]
  /\ UNCHANGED <<connection, committed>>

\* The row is selected by the state the callback carries.
Select(k, a) ==
  /\ callback[k].phase = "new"
  /\ attempt[a].status = "authorizing" /\ ~attempt[a].lapsed
  /\ attempt' = Expired(attempt)
  /\ callback' = [callback EXCEPT ![k].phase = "claiming", ![k].attempt = a]
  /\ UNCHANGED <<connection, committed>>

\* Mutant: the claim does not see that another callback is exchanging already.
ClaimableAgain(a) == attempt[a].status \in {"authorizing", "exchanging"} /\ ~attempt[a].lapsed
Claimable(a) == attempt[a].status = "authorizing" /\ ~attempt[a].lapsed

\* The state and the secrets are burnt before Google is asked.
Claim(k) ==
  LET a == callback[k].attempt IN
  /\ callback[k].phase = "claiming"
  /\ IF Claimable(a)
     THEN /\ attempt' = [attempt EXCEPT ![a].status = "exchanging"]
          /\ callback' = [callback EXCEPT ![k].phase = "exchanging"]
     ELSE /\ callback' = [callback EXCEPT ![k] = [NewCallback EXCEPT !.phase = "over"]]
          /\ UNCHANGED attempt
  /\ UNCHANGED <<connection, committed>>

\* Google answers with the account the user chose there, or the answer is refused.
Exchanged(k, i) ==
  /\ callback[k].phase = "exchanging"
  /\ callback' = [callback EXCEPT ![k].phase = "checking", ![k].identity = i]
  /\ UNCHANGED <<connection, attempt, committed>>

Refused(k) == callback[k].phase = "exchanging" /\ Fails(k)

\* Mutant: an account that was disconnected when the attempt began is taken for connected.
TargetsAnySeen(a, i) ==
  IF attempt[a].target # "none" THEN {c \in Of(connection, i) : c = attempt[a].target /\ attempt[a].seen[c].identity = i}
  ELSE {c \in Of(attempt[a].seen, i) : connection[c].generation = attempt[a].seen[c].generation}

\* The connection to reconnect: the one named at the start and not changed since, or the one the
\* account had and still has.
Targets(a, i) ==
  LET seen == attempt[a].seen
      unchanged == {c \in Of(seen, i) \cap Of(connection, i) : connection[c].generation = seen[c].generation}
  IN  IF attempt[a].target # "none" THEN unchanged \cap {attempt[a].target}
      ELSE {c \in unchanged : seen[c].status = "connected" /\ connection[c].status = "connected"}

\* Without a connection named: one is created if the account has none, now or at the start.
MayCreate(a, i) == attempt[a].target = "none" /\ Of(attempt[a].seen, i) \cup Of(connection, i) = {}

Check(k) ==
  LET a == callback[k].attempt
      i == callback[k].identity
  IN  /\ callback[k].phase = "checking"
      /\ IF attempt[a].lapsed \/ (Targets(a, i) = {} /\ ~MayCreate(a, i)) THEN Fails(k)
         ELSE /\ \E target \in IF MayCreate(a, i) THEN {"none"} ELSE Targets(a, i) :
                   callback' = [callback EXCEPT ![k].phase = "finishing", ![k].target = target]
              /\ UNCHANGED <<connection, attempt, committed>>

Committed(k) ==
  /\ callback' = [callback EXCEPT ![k].phase = "committed"]
  /\ committed' = [committed EXCEPT ![callback[k].attempt] = @ \cup {k}]
  /\ UNCHANGED attempt

\* Mutant: the connection is created without looking for the identity in the same transaction.
UnclaimedAtCheck(i) == TRUE
Unclaimed(i) == Of(connection, i) = {}

\* createConnection: the provider is asked first, the identity is looked for in the transaction.
Create(k) ==
  /\ callback[k].phase = "finishing" /\ callback[k].target = "none" /\ Unclaimed(callback[k].identity)
  /\ \E c \in Connections :
       /\ ~Exists(c)
       /\ connection' = [connection EXCEPT ![c] = [identity |-> callback[k].identity, status |-> "connected", generation |-> 1,
                                                   authority |-> callback[k].attempt]]
  /\ Committed(k)

SameAuthority(a, c) == connection[c].generation = attempt[a].seen[c].generation

\* reconnect, for the authority the attempt began with.
Reconnect(k) ==
  LET c == callback[k].target IN
  /\ callback[k].phase = "finishing" /\ c # "none" /\ SameAuthority(callback[k].attempt, c)
  /\ connection[c].generation < MaxGeneration
  /\ connection' = [connection EXCEPT ![c].status = "connected", ![c].generation = @ + 1, ![c].authority = callback[k].attempt]
  /\ Committed(k)

\* The provider refuses, or the connection is another one by now.
NotCommitted(k) == callback[k].phase = "finishing" /\ Fails(k)

\* Mutant: only an attempt that is still exchanging is completed.
CompletedIfActive(rows, a) == IF rows[a].status = "exchanging" THEN [rows EXCEPT ![a].status = "completed"] ELSE rows
Completed(rows, a) == [rows EXCEPT ![a].status = "completed"]

\* The connection is there: a status poll may have failed the attempt as expired meanwhile.
Complete(k) ==
  /\ callback[k].phase = "committed"
  /\ attempt' = Completed(attempt, callback[k].attempt)
  /\ callback' = [callback EXCEPT ![k].phase = "over", ![k].outcome = "success"]
  /\ UNCHANGED <<connection, committed>>

----------------------------------------------------------------------------
(* Around an attempt. *)

\* The host stops: the attempt stays as it is until it expires, or is failed on the way out.
Stop(k) ==
  /\ callback[k].phase \notin {"new", "over"}
  /\ callback' = [callback EXCEPT ![k].phase = "over", ![k].outcome = "stopped"]
  /\ attempt' \in {attempt} \cup IF callback[k].phase = "claiming" THEN {} ELSE {Failed(attempt, callback[k].attempt)}
  /\ UNCHANGED <<connection, committed>>

Disconnect(c) ==
  /\ connection[c].status \in {"connected", "reconnect_required"} /\ connection[c].generation < MaxGeneration
  /\ connection' = [connection EXCEPT ![c].status = "disconnected", ![c].generation = @ + 1]
  /\ UNCHANGED <<attempt, callback, committed>>

Revoke(c) ==
  /\ connection[c].status = "connected"
  /\ connection' = [connection EXCEPT ![c].status = "reconnect_required"]
  /\ UNCHANGED <<attempt, callback, committed>>

Next ==
  \/ Poll
  \/ \E a \in Attempts : Authorize(a) \/ Lapse(a) \/ \E target \in Connections \cup {"none"} : Start(a, target)
  \/ \E k \in Callbacks :
       \/ Claim(k) \/ Refused(k) \/ Check(k) \/ Create(k) \/ Reconnect(k) \/ NotCommitted(k) \/ Complete(k) \/ Stop(k)
       \/ \E a \in Attempts : Select(k, a)
       \/ \E i \in Identities : Exchanged(k, i)
  \/ \E c \in Connections : Disconnect(c) \/ Revoke(c)

Spec == Init /\ [][Next]_vars

----------------------------------------------------------------------------
(* Properties. *)

\* The state has its type, and a callback changes a connection at most once for its attempt, however often the browser
\* delivers it (the claim that burns the state).
AttemptsActOnce == TypeOK /\ \A a \in Attempts : Cardinality(committed[a]) <= 1

\* An answered callback tells the truth: an attempt whose callback succeeded is recorded as
\* completed, also when it expired at the very end, and one recorded as completed has changed a
\* connection; a callback that failed has changed none (complete's last update and fail).
OutcomeIsTrue ==
  /\ \A k \in Callbacks :
       /\ callback[k].outcome = "success" => k \in committed[callback[k].attempt] /\ attempt[callback[k].attempt].status = "completed"
       /\ callback[k].outcome = "failure" => k \notin committed[callback[k].attempt]
  /\ \A a \in Attempts : attempt[a].status = "completed" => committed[a] # {}

\* No authority is replaced that the attempt's user had not seen: between the start and the
\* commit nobody disconnected, reconnected or created a connection for the account, and without
\* naming it only a connected one is replaced (the checks in complete, reconnect and create).
OnlyWhatWasSeenIsReplaced ==
  [][\A c \in Connections :
       LET a == connection'[c].authority IN
       a # connection[c].authority =>
         IF Exists(c)
         THEN LET seen == attempt[a].seen[c]
              IN  /\ seen.generation = connection[c].generation /\ seen.identity = connection[c].identity
                  /\ attempt[a].target = c \/ (attempt[a].target = "none" /\ seen.status = "connected")
         ELSE Of(attempt[a].seen, connection'[c].identity) = {}]_vars

\* A Google account has one connection, also when two attempts for it finish together
\* (verifiedConnection in the transaction of connectSource).
OneConnectionPerAccount == \A i \in Identities : Cardinality(Of(connection, i)) <= 1

=============================================================================
