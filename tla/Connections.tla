---------------------------- MODULE Connections ----------------------------
(***************************************************************************)
(* A connection's credentials and everybody who uses or changes them       *)
(* (packages/inbox-sdk/src/core.ts and server/credential-refresh.ts).      *)
(*                                                                         *)
(* Several processes share the database.  A request of the provider takes  *)
(* the stored credentials, has them refreshed when they are due (one       *)
(* refresh of a version at a time, under a lease in the database), works   *)
(* on an instance of the provider that its process keeps per version, and  *)
(* is tried a second time when the provider refuses the credentials.       *)
(* Meanwhile users authorize again: reconnect, replace the credentials,    *)
(* disconnect.  Every await is a step boundary.                            *)
(***************************************************************************)
EXTENDS Integers, FiniteSets

CONSTANTS
  Processes,      \* processes with the database open
  Requests,       \* calls of io
  Authorizations, \* what users do: reconnect or replace the credentials
  MaxVersion      \* bound: versions of the stored credentials

ASSUME ConnectionAssumption == MaxVersion \in Nat \ {0} /\ "none" \notin Processes

Versions == 1..MaxVersion

VARIABLES
  connection, \* sdk_connections and its source's account: status, generation, credential
              \* version, and whether the access token has expired
  origin,     \* history: the authorization the credentials of a version come from
  granted,    \* how many authorizations the provider has given out
  revoked,    \* authorizations the user has taken back at the provider
  lease,      \* sdk_connection_refresh: whose refresh of which version holds it
  refresh,    \* refreshes: the refresh of a version that runs in a process
  instance,   \* instances, controllers: the versions a process keeps a provider for
  retiring,   \* retiring: those it disconnects after their last request
  request,    \* calls of io
  change      \* reconnectSource and replaceCredentials between their first check and their commit

memory == <<refresh, instance, retiring, request>>
vars == <<connection, origin, granted, revoked, lease, memory, change>>

NewRequest == [phase |-> "new", process |-> "none", version |-> 0, generation |-> 0,
               attempt |-> 0, bound |-> TRUE]
Over == [NewRequest EXCEPT !.phase = "over"]
NewChange == [phase |-> "new", kind |-> "reconnect", generation |-> 0, version |-> 0, authority |-> 0]

TypeOK ==
  /\ connection \in [status : {"connected", "reconnect_required", "disconnected"}, generation : Nat \ {0},
                     version : Versions, expired : BOOLEAN]
  /\ origin \in [Versions -> Nat]
  /\ granted \in Nat /\ revoked \subseteq 1..granted
  /\ lease \subseteq Processes \X Versions /\ Cardinality(lease) <= 1
  /\ refresh \in [Processes -> [Versions -> {"none", "waiting", "calling"}]]
  /\ instance \in [Processes -> SUBSET Versions]
  /\ retiring \in [Processes -> SUBSET Versions]
  /\ request \in [Requests -> [phase : {"new", "refreshing", "opening", "running", "rejected", "over"}, process : Processes \cup {"none"},
                               version : 0..MaxVersion, generation : Nat, attempt : 0..1, bound : BOOLEAN]]
  /\ change \in [Authorizations -> [phase : {"new", "verifying", "over"}, kind : {"reconnect", "replace"},
                                    generation : Nat, version : 0..MaxVersion, authority : Nat]]

Init ==
  /\ connection = [status |-> "connected", generation |-> 1, version |-> 1, expired |-> FALSE]
  /\ origin = [v \in Versions |-> IF v = 1 THEN 1 ELSE 0]
  /\ granted = 1 /\ revoked = {}
  /\ lease = {}
  /\ refresh = [p \in Processes |-> [v \in Versions |-> "none"]]
  /\ instance = [p \in Processes |-> {}] /\ retiring = [p \in Processes |-> {}]
  /\ request = [r \in Requests |-> NewRequest]
  /\ change = [a \in Authorizations |-> NewChange]

----------------------------------------------------------------------------
(* Instances of the provider. *)

Users(p, v) == {r \in Requests : request[r].process = p /\ request[r].version = v /\ request[r].phase = "running"}

\* retireInstance with abort: the requests on the instances of vs are interrupted, those that
\* wait for one will find another or none.
Interrupted(req, p, vs) ==
  [r \in Requests |->
     IF req[r].process = p /\ req[r].version \in vs THEN
       IF req[r].phase = "running" THEN Over
       ELSE IF req[r].phase = "opening" THEN [req[r] EXCEPT !.bound = FALSE] ELSE req[r]
     ELSE req[r]]

\* Mutant: the last request does not look whether the instance is retired.
LeavesOpen(r) == UNCHANGED <<instance, retiring>>

\* io's finally: the last request on a retired instance disconnects it.
Leaves(r) ==
  LET p == request[r].process
      v == request[r].version
      last == v \in retiring[p] /\ Users(p, v) = {r}
  IN  /\ instance' = IF last THEN [instance EXCEPT ![p] = @ \ {v}] ELSE instance
      /\ retiring' = IF last THEN [retiring EXCEPT ![p] = @ \ {v}] ELSE retiring

----------------------------------------------------------------------------
(* Changes of the stored credentials. *)

\* What a process does when it ends an authority itself: the instances of every version are
\* interrupted; kept are those it has just made.
Cut(p, kept) ==
  /\ request' = Interrupted(request, p, Versions)
  /\ instance' = [instance EXCEPT ![p] = kept]
  /\ retiring' = [retiring EXCEPT ![p] = {}]

Stored(authority, status, generation) ==
  /\ connection.version < MaxVersion
  /\ connection' = [status |-> status, generation |-> generation, version |-> connection.version + 1, expired |-> FALSE]
  /\ origin' = [origin EXCEPT ![connection.version + 1] = authority]

\* A user authorizes; reconnectSource and replaceCredentials note what they are about to replace.
Authorize(a) ==
  /\ change[a].phase = "new"
  /\ \E kind \in {"reconnect", "replace"} :
       /\ kind = "replace" => connection.status # "disconnected"
       /\ granted' = granted + 1
       /\ change' = [change EXCEPT ![a] = [phase |-> "verifying", kind |-> kind, generation |-> connection.generation,
                                           version |-> connection.version, authority |-> granted + 1]]
  /\ UNCHANGED <<connection, origin, revoked, lease, memory>>

UnchangedSince(a) ==
  /\ connection.generation = change[a].generation
  /\ change[a].kind = "replace" => connection.version = change[a].version /\ connection.status # "disconnected"

\* The provider has confirmed the account: the commit of reconnectSource, and of
\* replaceCredentials through saveCredentials with recover, which also drops the lease.
Replaced(a, p) ==
  /\ change[a].phase = "verifying" /\ UnchangedSince(a)
  /\ Stored(change[a].authority, "connected", connection.generation + 1)
  /\ lease' = IF change[a].kind = "replace" THEN {} ELSE lease
  /\ Cut(p, IF change[a].kind = "reconnect" THEN {connection.version + 1} ELSE {})
  /\ change' = [change EXCEPT ![a] = [NewChange EXCEPT !.phase = "over"]]
  /\ UNCHANGED <<granted, revoked, refresh>>

\* The provider refuses, the account is another one, or the connection has changed meanwhile.
NotReplaced(a) ==
  /\ change[a].phase = "verifying"
  /\ change' = [change EXCEPT ![a] = [NewChange EXCEPT !.phase = "over"]]
  /\ UNCHANGED <<connection, origin, granted, revoked, lease, memory>>

\* disconnect of the connection's only source.
Disconnect(p) ==
  /\ connection.status # "disconnected"
  /\ connection' = [connection EXCEPT !.status = "disconnected", !.generation = @ + 1]
  /\ Cut(p, {})
  /\ UNCHANGED <<origin, granted, revoked, lease, refresh, change>>

\* Mutant: whatever is stored by now is revoked.
RevokesWhatIsStored(v, g) == connection.status = "connected"

\* revokeCredentials: unless the connection has changed since.
Revokes(v, g) == connection.status = "connected" /\ connection.version = v /\ connection.generation = g

----------------------------------------------------------------------------
(* Requests: io and providerFor. *)

Current(r) == connection.status = "connected" /\ connection.generation = request[r].generation

\* providerFor has credentials of version v: it takes the process's instance for it or makes one.
Opens(req, p, v) == [req EXCEPT !.phase = "opening", !.version = v, !.bound = TRUE]

\* providerFor: the stored credentials as they are, or after a refresh that is due (the token has
\* expired or soon will, or the provider has just refused it).
Provide(r, p, rejected) ==
  LET v == connection.version IN
    \/ /\ ~connection.expired /\ ~rejected
       /\ request' = [request EXCEPT ![r] = Opens([@ EXCEPT !.process = p, !.generation = connection.generation], p, v)]
       /\ instance' = [instance EXCEPT ![p] = @ \cup {v}]
       /\ UNCHANGED refresh
    \/ /\ request' = [request EXCEPT ![r] = [@ EXCEPT !.process = p, !.generation = connection.generation, !.phase = "refreshing",
                                                     !.version = v, !.attempt = IF rejected THEN 1 ELSE 0]]
       /\ refresh' = [refresh EXCEPT ![p][v] = IF @ = "none" THEN "waiting" ELSE @]
       /\ UNCHANGED instance

Begin(r, p) ==
  /\ request[r].phase = "new" /\ connection.status = "connected"
  /\ Provide(r, p, FALSE)
  /\ UNCHANGED <<connection, origin, granted, revoked, lease, retiring, change>>

\* The instance is there: the request runs on it unless the credentials have changed.
Run(r) ==
  /\ request[r].phase = "opening"
  /\ LET p == request[r].process
         usable == Current(r) /\ request[r].bound /\ request[r].version \in instance[p] \ retiring[p]
     IN  request' = [request EXCEPT ![r] = IF usable THEN [@ EXCEPT !.phase = "running"] ELSE Over]
  /\ UNCHANGED <<connection, origin, granted, revoked, lease, refresh, instance, retiring, change>>

\* The provider answers, fails, or takes too long: then every request on the instance is cut.
Answered(r) ==
  /\ request[r].phase = "running"
  /\ Leaves(r)
  /\ request' = [request EXCEPT ![r] = Over]
  /\ UNCHANGED <<connection, origin, granted, revoked, lease, refresh, change>>

TimedOut(r) ==
  /\ request[r].phase = "running"
  /\ LET p == request[r].process
         v == request[r].version
     IN  /\ request' = Interrupted(request, p, {v})
         /\ instance' = [instance EXCEPT ![p] = @ \ {v}]
         /\ retiring' = [retiring EXCEPT ![p] = @ \ {v}]
  /\ UNCHANGED <<connection, origin, granted, revoked, lease, refresh, change>>

\* AUTHENTICATION: the first time the credentials are refreshed and the call repeated.
Refused(r) ==
  /\ request[r].phase = "running"
  /\ Leaves(r)
  /\ request' = [request EXCEPT ![r] = IF @.attempt = 0 THEN [@ EXCEPT !.phase = "rejected"] ELSE Over]
  /\ UNCHANGED <<connection, origin, granted, revoked, lease, refresh, change>>

\* The second attempt's providerFor, if the connection is still the one the request began with.
Again(r) ==
  /\ request[r].phase = "rejected"
  /\ IF Current(r) THEN Provide(r, request[r].process, TRUE)
     ELSE request' = [request EXCEPT ![r] = Over] /\ UNCHANGED <<refresh, instance>>
  /\ UNCHANGED <<connection, origin, granted, revoked, lease, retiring, change>>

\* The provider tells that the authorization is gone.
Discovered(r) ==
  LET p == request[r].process
      v == request[r].version
  IN  /\ request[r].phase = "running" /\ origin[v] \in revoked
      /\ IF Revokes(v, request[r].generation)
         THEN connection' = [connection EXCEPT !.status = "reconnect_required"] /\ Cut(p, {})
         ELSE /\ Leaves(r)
              /\ request' = [request EXCEPT ![r] = Over]
              /\ UNCHANGED connection
  /\ UNCHANGED <<origin, granted, revoked, lease, refresh, change>>

----------------------------------------------------------------------------
(* Refreshes: the job that providerFor shares between the requests of a process. *)

Waiting(p, v) == {r \in Requests : request[r].process = p /\ request[r].version = v /\ request[r].phase = "refreshing"}

\* The job ends with credentials of version w for everybody who waited.
Served(p, v, w) ==
  /\ refresh' = [refresh EXCEPT ![p][v] = "none"]
  /\ request' = [r \in Requests |-> IF r \in Waiting(p, v) THEN Opens(request[r], p, w) ELSE request[r]]

FailedAll(p, v) ==
  /\ refresh' = [refresh EXCEPT ![p][v] = "none"]
  /\ request' = [r \in Requests |-> IF r \in Waiting(p, v) THEN Over ELSE request[r]]

\* The generation a job began with: that of the requests that wait for it.
Authorized(p, v) == connection.status = "connected" /\ \A r \in Waiting(p, v) : request[r].generation = connection.generation

\* Mutant: the lease is taken whether somebody holds it or not.
TakeLeaseAnyway(p, v) == lease' = {<<p, v>>}
TakeLease(p, v) == lease = {} /\ lease' = {<<p, v>>}

\* One round of the loop: the connection changed, somebody else refreshed it, or the lease is
\* free; after thirty seconds the job gives up (REFRESH_BUSY).
Claim(p, v) ==
  /\ refresh[p][v] = "waiting" /\ Authorized(p, v) /\ connection.version = v
  /\ TakeLease(p, v)
  /\ refresh' = [refresh EXCEPT ![p][v] = "calling"]
  /\ UNCHANGED <<connection, origin, granted, revoked, instance, retiring, request, change>>

AlreadyRefreshed(p, v) ==
  /\ refresh[p][v] = "waiting" /\ Authorized(p, v) /\ connection.version # v
  /\ Served(p, v, connection.version)
  /\ instance' = [instance EXCEPT ![p] = @ \cup {connection.version}]
  /\ UNCHANGED <<connection, origin, granted, revoked, lease, retiring, change>>

GivesUp(p, v) ==
  /\ refresh[p][v] = "waiting"
  /\ FailedAll(p, v)
  /\ UNCHANGED <<connection, origin, granted, revoked, lease, instance, retiring, change>>

Released(p, v) == lease \ {<<p, v>>}

\* Mutant: the generation and the version are not compared again after the call.
SavableUnchecked(p, v) == connection.status = "connected"
Savable(p, v) == Authorized(p, v) /\ connection.version = v

\* Mutant: a version is disconnected whether a request runs on it or not.
UnusedOrNot(p, v) == 1..v
Unused(p, v) == {w \in 1..v : Users(p, w) = {}}

\* The token service answers: saveCredentials, after which the instances of this and of older
\* versions retire without interrupting anybody.
Refreshed(p, v) ==
  /\ refresh[p][v] = "calling" /\ origin[v] \notin revoked
  /\ Savable(p, v)
  /\ Stored(origin[v], "connected", connection.generation)
  /\ Served(p, v, connection.version + 1)
  /\ instance' = [instance EXCEPT ![p] = (@ \ Unused(p, v)) \cup {connection.version + 1}]
  /\ retiring' = [retiring EXCEPT ![p] = @ \cup ((1..v \ Unused(p, v)) \cap instance[p])]
  /\ lease' = Released(p, v)
  /\ UNCHANGED <<granted, revoked, change>>

\* The answer is not needed any more: the stored credentials are newer, or the very same.
NotSaved(p, v) ==
  /\ refresh[p][v] = "calling" /\ origin[v] \notin revoked /\ Authorized(p, v)
  /\ connection.version # v \/ ~connection.expired
  /\ Served(p, v, connection.version)
  /\ instance' = [instance EXCEPT ![p] = @ \cup {connection.version}]
  /\ lease' = Released(p, v)
  /\ UNCHANGED <<connection, origin, granted, revoked, retiring, change>>

\* The token service knows that the authorization is gone (invalid_grant): every request that
\* waited revokes what it had.
RefreshRevoked(p, v) ==
  /\ refresh[p][v] = "calling" /\ origin[v] \in revoked
  /\ lease' = Released(p, v)
  /\ refresh' = [refresh EXCEPT ![p][v] = "none"]
  /\ LET failed == [r \in Requests |-> IF r \in Waiting(p, v) THEN Over ELSE request[r]] IN
     IF \E r \in Waiting(p, v) : Revokes(v, request[r].generation)
     THEN /\ connection' = [connection EXCEPT !.status = "reconnect_required"]
          /\ request' = Interrupted(failed, p, Versions)
          /\ instance' = [instance EXCEPT ![p] = {}] /\ retiring' = [retiring EXCEPT ![p] = {}]
     ELSE request' = failed /\ UNCHANGED <<connection, instance, retiring>>
  /\ UNCHANGED <<origin, granted, revoked, change>>

\* The call fails otherwise, within its 25 seconds, or its connection has changed.
RefreshFails(p, v) ==
  /\ refresh[p][v] = "calling"
  /\ FailedAll(p, v)
  /\ lease' = Released(p, v)
  /\ UNCHANGED <<connection, origin, granted, revoked, instance, retiring, change>>

----------------------------------------------------------------------------
(* Time, the provider's side, and crashes. *)

\* A lease lasts longer than a call: it lapses only when nobody lives to delete it.
LeaseLapses ==
  /\ \E p \in Processes, v \in Versions : <<p, v>> \in lease /\ refresh[p][v] # "calling"
  /\ lease' = {}
  /\ UNCHANGED <<connection, origin, granted, revoked, memory, change>>

TokenExpires ==
  /\ connection.status = "connected" /\ ~connection.expired
  /\ connection' = [connection EXCEPT !.expired = TRUE]
  /\ UNCHANGED <<origin, granted, revoked, lease, memory, change>>

UserRevokes ==
  /\ \E g \in (1..granted) \ revoked : revoked' = revoked \cup {g}
  /\ UNCHANGED <<connection, origin, granted, lease, memory, change>>

\* A process dies or closes: close aborts every controller and waits for the refreshes.
Crash(p) ==
  /\ \E r \in Requests : request[r].process = p /\ request[r].phase \notin {"new", "over"}
  /\ refresh' = [refresh EXCEPT ![p] = [v \in Versions |-> "none"]]
  /\ instance' = [instance EXCEPT ![p] = {}] /\ retiring' = [retiring EXCEPT ![p] = {}]
  /\ request' = [r \in Requests |-> IF request[r].process = p /\ request[r].phase # "new"
                                    THEN Over ELSE request[r]]
  /\ UNCHANGED <<connection, origin, granted, revoked, lease, change>>

Work(r) == Run(r) \/ Answered(r) \/ TimedOut(r) \/ Refused(r) \/ Again(r) \/ Discovered(r)

RefreshWork(p, v) ==
  \/ Claim(p, v) \/ AlreadyRefreshed(p, v) \/ GivesUp(p, v)
  \/ Refreshed(p, v) \/ NotSaved(p, v) \/ RefreshRevoked(p, v) \/ RefreshFails(p, v)

Next ==
  \/ \E r \in Requests : Work(r) \/ \E p \in Processes : Begin(r, p)
  \/ \E p \in Processes, v \in Versions : RefreshWork(p, v)
  \/ \E a \in Authorizations : Authorize(a) \/ NotReplaced(a) \/ \E p \in Processes : Replaced(a, p)
  \/ \E p \in Processes : Disconnect(p) \/ Crash(p)
  \/ LeaseLapses \/ TokenExpires \/ UserRevokes

Spec == Init /\ [][Next]_vars

----------------------------------------------------------------------------
(* Properties. *)

\* The stored credentials never go back to an authorization given before the one they replace:
\* a refresh, a replacement or a reconnect that began earlier and ends later is refused
\* (saveCredentials, reconnectSource, replaceCredentials).
AuthorityNeverGoesBack == [][origin'[connection'.version] >= origin[connection.version]]_vars

\* One version of the credentials is never refreshed by two processes at the same time
\* (sdk_connection_refresh): the token service may take a refresh token only once.
OneRefreshAtATime == \A v \in Versions : Cardinality({p \in Processes : refresh[p][v] = "calling"}) <= 1

\* A connection asks its user to reconnect only if the authorization it stores has been taken
\* back, not because a request on credentials that were replaced meanwhile was refused
\* (revokeCredentials).
RevokedForCause ==
  [][connection.status = "connected" /\ connection'.status = "reconnect_required"
       => origin[connection.version] \in revoked]_vars

\* No provider instance is disconnected under a request that runs on it, unless the request is
\* interrupted (retireInstance and io's count of active requests).
NoUseAfterDisconnect ==
  \A r \in Requests : request[r].phase = "running" => request[r].version \in instance[request[r].process]

\* The state has its type, and a retired instance is kept no longer than its last request (io's
\* finally disconnects it).
RetiredInstancesAreInUse == TypeOK /\ \A p \in Processes : \A v \in retiring[p] : Users(p, v) # {}

=============================================================================
