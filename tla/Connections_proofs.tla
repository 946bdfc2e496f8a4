------------------------- MODULE Connections_proofs -------------------------
(***************************************************************************)
(* Connections keeps its promises for every number of processes, requests  *)
(* and authorizations.                                                     *)
(*                                                                         *)
(* LeasesHold: who calls the token service for the stored version holds    *)
(* the lease, and nobody begins to call for an older one.  InstancesHold:  *)
(* a running request has its instance, a retired instance its request.     *)
(* AuthoritiesHold: whoever may still commit has an authorization that is  *)
(* not older than the stored one, because each commit of another           *)
(* authorization moves the generation.                                     *)
(***************************************************************************)
EXTENDS Connections, FiniteSetTheorems, TLAPS

ConnectionRows == [status : {"connected", "reconnect_required", "disconnected"}, generation : Nat \ {0},
                   version : Versions, expired : BOOLEAN]
RequestRows == [phase : {"new", "refreshing", "opening", "running", "rejected", "over"}, process : Processes \cup {"none"},
                version : 0..MaxVersion, generation : Nat, attempt : 0..1, bound : BOOLEAN]
ChangeRows == [phase : {"new", "verifying", "over"}, kind : {"reconnect", "replace"},
               generation : Nat, version : 0..MaxVersion, authority : Nat]

Typed ==
  /\ connection \in ConnectionRows
  /\ origin \in [Versions -> Nat]
  /\ granted \in Nat /\ revoked \subseteq 1..granted
  /\ lease \subseteq Processes \X Versions
  /\ refresh \in [Processes -> [Versions -> {"none", "waiting", "calling"}]]
  /\ instance \in [Processes -> SUBSET Versions]
  /\ retiring \in [Processes -> SUBSET Versions]
  /\ request \in [Requests -> RequestRows]
  /\ change \in [Authorizations -> ChangeRows]

Calls(p, v) == refresh[p][v] = "calling"

LeasesHold ==
  /\ \A x, y \in lease : x = y
  /\ \A p, q \in Processes, v \in Versions : Calls(p, v) /\ Calls(q, v) => p = q
  /\ \A p \in Processes, v \in Versions :
       /\ Calls(p, v) /\ v = connection.version => <<p, v>> \in lease
       /\ refresh[p][v] # "none" => v <= connection.version

Runs(r, p, v) == request[r].phase = "running" /\ request[r].process = p /\ request[r].version = v

RequestsAreNamed ==
  \A r \in Requests : request[r].phase \notin {"new", "over"} => request[r].process \in Processes /\ request[r].version \in Versions

InstancesHold ==
  /\ RequestsAreNamed
  /\ \A r \in Requests : request[r].phase = "running" => request[r].version \in instance[request[r].process]
  /\ \A p \in Processes : \A v \in retiring[p] : \E r \in Requests : Runs(r, p, v)

AuthoritiesHold ==
  /\ \A v \in Versions : v <= connection.version => origin[v] <= granted
  /\ \A a \in Authorizations : change[a].phase = "verifying" =>
       /\ change[a].authority <= granted
       /\ change[a].generation <= connection.generation
       /\ change[a].generation = connection.generation => origin[connection.version] <= change[a].authority

ConnectionInv == Typed /\ LeasesHold /\ InstancesHold /\ AuthoritiesHold

----------------------------------------------------------------------------
(* Leases. *)

\* Nobody's refresh and no lease changes; the stored version may be replaced by a later one.
LEMMA LeasesRest ==
  ASSUME Typed, LeasesHold, refresh' = refresh, lease' = lease,
         connection'.version \in Versions, connection.version <= connection'.version
  PROVE  LeasesHold'
<1>1. connection.version \in Nat /\ connection'.version \in Nat /\ Versions \subseteq Nat
  BY ConnectionAssumption DEF Typed, ConnectionRows, Versions
<1>2. ASSUME NEW p \in Processes, NEW v \in Versions
      PROVE  /\ Calls(p, v) /\ v = connection'.version => <<p, v>> \in lease
             /\ refresh[p][v] # "none" => v <= connection'.version
  <2>1. refresh[p][v] # "none" => v <= connection.version
    BY DEF LeasesHold
  <2>2. Calls(p, v) => refresh[p][v] # "none"
    BY DEF Calls
  <2>3. Calls(p, v) /\ v = connection.version => <<p, v>> \in lease
    BY DEF LeasesHold
  <2> QED BY <1>1, <2>1, <2>2, <2>3
<1> QED BY <1>2 DEF LeasesHold, Calls

\* The lease is deleted while nobody who holds it calls for the stored version.
LEMMA LeasesDropped ==
  ASSUME Typed, LeasesHold, refresh' = refresh, lease' = {},
         connection'.version \in Versions, connection.version <= connection'.version,
         \A p \in Processes, v \in Versions : Calls(p, v) => v # connection'.version
  PROVE  LeasesHold'
<1>1. connection.version \in Nat /\ connection'.version \in Nat /\ Versions \subseteq Nat
  BY ConnectionAssumption DEF Typed, ConnectionRows, Versions
<1>2. ASSUME NEW p \in Processes, NEW v \in Versions, refresh[p][v] # "none" PROVE v <= connection'.version
  <2>1. v <= connection.version
    BY <1>2 DEF LeasesHold
  <2> QED BY <1>1, <2>1
<1> QED BY <1>2 DEF LeasesHold, Calls

\* A refresh ends and takes its lease with it.
LEMMA RefreshEnds ==
  ASSUME Typed, LeasesHold, NEW p \in Processes, NEW v \in Versions,
         refresh' = [refresh EXCEPT ![p][v] = "none"], lease' = lease \/ lease' = Released(p, v),
         connection'.version \in Versions, connection.version <= connection'.version
  PROVE  LeasesHold'
<1>1. connection.version \in Nat /\ connection'.version \in Nat /\ Versions \subseteq Nat
  BY ConnectionAssumption DEF Typed, ConnectionRows, Versions
<1>2. \A q \in Processes, w \in Versions : refresh'[q][w] = IF q = p /\ w = v THEN "none" ELSE refresh[q][w]
  BY DEF Typed
<1>3. lease' \subseteq lease /\ \A q \in Processes, w \in Versions : ~(q = p /\ w = v) /\ <<q, w>> \in lease => <<q, w>> \in lease'
  BY DEF Released
<1>4. \A q, n \in Processes, w \in Versions : Calls(q, w)' /\ Calls(n, w)' => q = n
  BY <1>2 DEF LeasesHold, Calls
<1>5. ASSUME NEW q \in Processes, NEW w \in Versions
      PROVE  /\ Calls(q, w)' /\ w = connection'.version => <<q, w>> \in lease'
             /\ refresh'[q][w] # "none" => w <= connection'.version
  <2>1. refresh'[q][w] # "none" => refresh[q][w] = refresh'[q][w] /\ ~(q = p /\ w = v)
    BY <1>2
  <2>2. refresh[q][w] # "none" => w <= connection.version
    BY DEF LeasesHold
  <2>3. Calls(q, w) /\ w = connection.version => <<q, w>> \in lease
    BY DEF LeasesHold
  <2> QED BY <1>1, <1>3, <2>1, <2>2, <2>3 DEF Calls
<1> QED BY <1>3, <1>4, <1>5 DEF LeasesHold

\* A refresh begins to wait, for the stored version.
LEMMA RefreshWaits ==
  ASSUME Typed, LeasesHold, NEW p \in Processes, lease' = lease, connection' = connection,
         refresh' = refresh \/ refresh' = [refresh EXCEPT ![p][connection.version] = IF @ = "none" THEN "waiting" ELSE @]
  PROVE  LeasesHold'
<1>1. connection.version \in Versions /\ connection.version <= connection.version
  BY ConnectionAssumption DEF Typed, ConnectionRows, Versions
<1>2. ASSUME NEW q \in Processes, NEW w \in Versions
      PROVE  /\ Calls(q, w)' <=> Calls(q, w)
             /\ refresh'[q][w] # "none" => refresh[q][w] # "none" \/ w = connection.version
  BY <1>1 DEF Typed, Calls
<1> QED BY <1>1, <1>2 DEF LeasesHold

\* The lease is taken.
LEMMA ClaimLeases ==
  ASSUME Typed, LeasesHold, NEW p \in Processes, NEW v \in Versions, Claim(p, v)
  PROVE  LeasesHold'
<1>1. /\ lease = {} /\ lease' = {<<p, v>>} /\ connection.version = v /\ connection' = connection
      /\ refresh' = [refresh EXCEPT ![p][v] = "calling"]
  BY DEF Claim, TakeLease
<1>2. \A q \in Processes : ~Calls(q, v)
  BY <1>1 DEF LeasesHold
<1>3. \A q \in Processes, w \in Versions : refresh'[q][w] = IF q = p /\ w = v THEN "calling" ELSE refresh[q][w]
  BY <1>1 DEF Typed
<1>4. v \in Nat /\ v <= v
  BY ConnectionAssumption DEF Versions
<1>5. \A q, n \in Processes, w \in Versions : Calls(q, w)' /\ Calls(n, w)' => q = n
  BY <1>2, <1>3 DEF LeasesHold, Calls
<1>6. ASSUME NEW q \in Processes, NEW w \in Versions
      PROVE  /\ Calls(q, w)' /\ w = connection'.version => <<q, w>> \in lease'
             /\ refresh'[q][w] # "none" => w <= connection'.version
  BY <1>1, <1>2, <1>3, <1>4 DEF LeasesHold, Calls
<1> QED BY <1>1, <1>5, <1>6 DEF LeasesHold

\* A process dies: its refreshes end, its lease stays.
LEMMA CrashLeases ==
  ASSUME Typed, LeasesHold, NEW p \in Processes, Crash(p)
  PROVE  LeasesHold'
<1>1. lease' = lease /\ connection' = connection /\ refresh' = [refresh EXCEPT ![p] = [v \in Versions |-> "none"]]
  BY DEF Crash
<1>2. \A q \in Processes, w \in Versions : refresh'[q][w] = IF q = p THEN "none" ELSE refresh[q][w]
  BY <1>1 DEF Typed
<1> QED BY <1>1, <1>2 DEF LeasesHold, Calls

----------------------------------------------------------------------------
(* Instances. *)

\* The state of Users, as the lemmas use it.
LEMMA UsersAreRunning == \A p, v : \A r \in Requests : r \in Users(p, v) <=> Runs(r, p, v)
BY DEF Users, Runs

\* No running request begins or ends, and no instance goes.
LEMMA InstancesRest ==
  ASSUME Typed, InstancesHold, RequestsAreNamed', retiring' = retiring,
         \A p \in Processes : instance[p] \subseteq instance'[p],
         \A r \in Requests : request[r].phase = "running" \/ request'[r].phase = "running" => request'[r] = request[r]
  PROVE  InstancesHold'
<1>1. ASSUME NEW r \in Requests, request'[r].phase = "running" PROVE request'[r].version \in instance'[request'[r].process]
  <2>1. request'[r] = request[r]
    BY <1>1
  <2>2. request[r].process \in Processes /\ request[r].version \in instance[request[r].process]
    BY <1>1, <2>1 DEF InstancesHold, RequestsAreNamed
  <2> QED BY <2>1, <2>2
<1>2. ASSUME NEW p \in Processes, NEW v \in retiring[p] PROVE \E r \in Requests : Runs(r, p, v)'
  <2>1. PICK r \in Requests : Runs(r, p, v)
    BY DEF InstancesHold
  <2> QED BY <2>1 DEF Runs
<1> QED BY <1>1, <1>2 DEF InstancesHold

\* The requests that run on the versions vs of a process end, and what is retired of vs goes.
LEMMA InstancesCut ==
  ASSUME Typed, InstancesHold, RequestsAreNamed', NEW p \in Processes, NEW vs \in SUBSET Versions,
         \A q \in Processes : q # p => instance'[q] = instance[q] /\ retiring'[q] = retiring[q],
         instance[p] \ vs \subseteq instance'[p], retiring'[p] \subseteq retiring[p] \ vs,
         \A r \in Requests : request[r].phase = "running" /\ ~(request[r].process = p /\ request[r].version \in vs) => request'[r] = request[r],
         \A r \in Requests : request'[r].phase = "running" => request'[r] = request[r] /\ ~(request[r].process = p /\ request[r].version \in vs)
  PROVE  InstancesHold'
<1>1. ASSUME NEW r \in Requests, request'[r].phase = "running" PROVE request'[r].version \in instance'[request'[r].process]
  <2>1. request'[r] = request[r] /\ ~(request[r].process = p /\ request[r].version \in vs)
    BY <1>1
  <2>2. request[r].process \in Processes /\ request[r].version \in instance[request[r].process]
    BY <1>1, <2>1 DEF InstancesHold, RequestsAreNamed
  <2> QED BY <2>1, <2>2
<1>2. ASSUME NEW q \in Processes, NEW v \in retiring'[q] PROVE \E r \in Requests : Runs(r, q, v)'
  <2>1. v \in retiring[q] /\ ~(q = p /\ v \in vs)
    BY <1>2
  <2>2. PICK r \in Requests : Runs(r, q, v)
    BY <2>1 DEF InstancesHold
  <2>3. request'[r] = request[r]
    BY <2>1, <2>2 DEF Runs
  <2> QED BY <2>2, <2>3 DEF Runs
<1> QED BY <1>1, <1>2 DEF InstancesHold

\* One request stops running; if it was the last on a retired instance, the instance goes.
LEMMA InstancesLeft ==
  ASSUME Typed, InstancesHold, RequestsAreNamed', NEW r \in Requests, request[r].phase = "running", Leaves(r),
         request'[r].phase # "running", \A s \in Requests : s # r => request'[s] = request[s]
  PROVE  InstancesHold'
<1> DEFINE p == request[r].process
           v == request[r].version
           last == v \in retiring[p] /\ Users(p, v) = {r}
<1>1. p \in Processes /\ v \in Versions
  BY DEF InstancesHold, RequestsAreNamed
<1>2. CASE last
  <2>1. instance' = [instance EXCEPT ![p] = @ \ {v}] /\ retiring' = [retiring EXCEPT ![p] = @ \ {v}]
    BY <1>2 DEF Leaves
  <2>2. /\ instance'[p] = instance[p] \ {v} /\ retiring'[p] = retiring[p] \ {v}
        /\ \A q \in Processes : q # p => instance'[q] = instance[q] /\ retiring'[q] = retiring[q]
    BY <1>1, <2>1 DEF Typed
  <2>3. \A s \in Requests : Runs(s, p, v) => s = r
    BY <1>2, UsersAreRunning
  <2> HIDE DEF p, v
  <2>4. \A s \in Requests : request[s].phase = "running" /\ ~(request[s].process = p /\ request[s].version \in {v}) => request'[s] = request[s]
    BY DEF p, v
  <2>5. \A s \in Requests : request'[s].phase = "running" => request'[s] = request[s] /\ ~(request[s].process = p /\ request[s].version \in {v})
    BY <2>3 DEF Runs
  <2>6. {v} \in SUBSET Versions
    BY <1>1
  <2>7. instance[p] \ {v} \subseteq instance'[p] /\ retiring'[p] \subseteq retiring[p] \ {v}
    BY <2>2
  <2> QED BY <1>1, <2>2, <2>4, <2>5, <2>6, <2>7, InstancesCut
<1>3. CASE ~last
  <2>1. instance' = instance /\ retiring' = retiring
    BY <1>3 DEF Leaves
  <2>2. ASSUME NEW s \in Requests, request'[s].phase = "running" PROVE request'[s].version \in instance'[request'[s].process]
    <3>1. request'[s] = request[s]
      BY <2>2
    <3> QED BY <2>1, <2>2, <3>1 DEF InstancesHold
  <2>3. ASSUME NEW q \in Processes, NEW w \in retiring[q] PROVE \E s \in Requests : Runs(s, q, w)'
    <3>1. PICK s \in Requests : Runs(s, q, w)
      BY DEF InstancesHold
    <3>2. CASE s # r
      BY <3>1, <3>2 DEF Runs
    <3>3. CASE s = r
      <4>1. q = p /\ w = v
        BY <3>1, <3>3 DEF Runs
      <4>2. Users(p, v) # {r} /\ r \in Users(p, v)
        BY <1>3, <4>1, <3>1, <3>3, UsersAreRunning
      <4>3. PICK n \in Requests : n # r /\ Runs(n, p, v)
        BY <4>2, UsersAreRunning DEF Users
      <4> QED BY <4>1, <4>3 DEF Runs
    <3> QED BY <3>2, <3>3
  <2> QED BY <2>1, <2>2, <2>3 DEF InstancesHold
<1> QED BY <1>2, <1>3

\* The instance a request waited for is there.
LEMMA RunInstances ==
  ASSUME Typed, InstancesHold, NEW r \in Requests, Run(r)
  PROVE  InstancesHold'
<1>1. request[r].phase = "opening" /\ instance' = instance /\ retiring' = retiring
  BY DEF Run
<1>2. /\ \A s \in Requests : s # r => request'[s] = request[s]
      /\ \/ /\ request[r].version \in instance[request[r].process] \ retiring[request[r].process]
            /\ request'[r] = [request[r] EXCEPT !.phase = "running"]
         \/ request'[r] = Over
  BY DEF Run, Typed
<1>3. /\ request'[r].phase \in {"running", "over"}
      /\ request'[r].phase = "running" =>
           /\ request'[r].process = request[r].process /\ request'[r].version = request[r].version
           /\ request[r].version \in instance[request[r].process]
  BY <1>2 DEF Over, NewRequest, Typed, RequestRows
<1>4. request[r].process \in Processes /\ request[r].version \in Versions
  BY <1>1 DEF InstancesHold, RequestsAreNamed
<1>5. RequestsAreNamed'
  BY <1>2, <1>3, <1>4 DEF InstancesHold, RequestsAreNamed
<1>6. ASSUME NEW s \in Requests, request'[s].phase = "running" PROVE request'[s].version \in instance'[request'[s].process]
  <2>1. CASE s = r
    BY <1>1, <1>3, <1>6, <2>1
  <2>2. CASE s # r
    <3>1. request'[s] = request[s]
      BY <1>2, <2>2
    <3> QED BY <1>1, <1>6, <3>1 DEF InstancesHold
  <2> QED BY <2>1, <2>2
<1>7. ASSUME NEW q \in Processes, NEW w \in retiring[q] PROVE \E s \in Requests : Runs(s, q, w)'
  <2>1. PICK s \in Requests : Runs(s, q, w)
    BY DEF InstancesHold
  <2>2. s # r
    BY <1>1, <2>1 DEF Runs
  <2> QED BY <1>2, <2>1, <2>2 DEF Runs
<1> QED BY <1>1, <1>5, <1>6, <1>7 DEF InstancesHold

\* After a refresh the versions that run stay until their last request, the others go.
LEMMA RefreshedInstances ==
  ASSUME Typed, InstancesHold, RequestsAreNamed', NEW p \in Processes, NEW v \in Versions, NEW w \in Versions,
         instance' = [instance EXCEPT ![p] = (@ \ Unused(p, v)) \cup {w}],
         retiring' = [retiring EXCEPT ![p] = @ \cup ((1..v \ Unused(p, v)) \cap instance[p])],
         \A r \in Requests : request[r].phase = "running" \/ request'[r].phase = "running" => request'[r] = request[r]
  PROVE  InstancesHold'
<1>1. /\ instance'[p] = (instance[p] \ Unused(p, v)) \cup {w}
      /\ retiring'[p] = retiring[p] \cup ((1..v \ Unused(p, v)) \cap instance[p])
      /\ \A q \in Processes : q # p => instance'[q] = instance[q] /\ retiring'[q] = retiring[q]
  BY DEF Typed
<1>2. ASSUME NEW r \in Requests, request'[r].phase = "running" PROVE request'[r].version \in instance'[request'[r].process]
  <2>1. request'[r] = request[r] /\ request[r].phase = "running"
    BY <1>2
  <2>2. request[r].process \in Processes /\ request[r].version \in instance[request[r].process]
    BY <2>1 DEF InstancesHold, RequestsAreNamed
  <2>3. CASE request[r].process = p
    <3>1. r \in Users(p, request[r].version)
      BY <2>1, <2>3 DEF Users
    <3>2. request[r].version \notin Unused(p, v)
      BY <3>1 DEF Unused
    <3> QED BY <1>1, <2>1, <2>2, <2>3, <3>2
  <2>4. CASE request[r].process # p
    BY <1>1, <2>1, <2>2, <2>4
  <2> QED BY <2>3, <2>4
<1>3. ASSUME NEW q \in Processes, NEW u \in retiring'[q] PROVE \E r \in Requests : Runs(r, q, u)'
  <2>1. \E r \in Requests : Runs(r, q, u)
    <3>1. CASE u \in retiring[q]
      BY <3>1 DEF InstancesHold
    <3>2. CASE u \notin retiring[q]
      <4>1. q = p /\ u \in 1..v /\ u \notin Unused(p, v)
        BY <1>1, <1>3, <3>2
      <4>2. Users(p, u) # {}
        BY <4>1 DEF Unused
      <4> QED BY <4>1, <4>2 DEF Users, Runs
    <3> QED BY <3>1, <3>2
  <2>2. PICK r \in Requests : Runs(r, q, u)
    BY <2>1
  <2> QED BY <2>2 DEF Runs
<1> QED BY <1>2, <1>3 DEF InstancesHold

----------------------------------------------------------------------------
(* Authorities. *)

\* The generation may move; nothing is stored, nobody authorizes.
LEMMA AuthoritiesRest ==
  ASSUME Typed, AuthoritiesHold, UNCHANGED <<origin, granted, change>>, connection'.version = connection.version,
         connection'.generation \in {connection.generation, connection.generation + 1}
  PROVE  AuthoritiesHold'
<1>1. connection.generation \in Nat /\ \A a \in Authorizations : change[a].generation \in Nat
  BY DEF Typed, ConnectionRows, ChangeRows
<1>2. ASSUME NEW a \in Authorizations, change[a].phase = "verifying"
      PROVE  /\ change[a].authority <= granted
             /\ change[a].generation <= connection'.generation
             /\ change[a].generation = connection'.generation => origin[connection.version] <= change[a].authority
  BY <1>1, <1>2 DEF AuthoritiesHold
<1> QED BY <1>2 DEF AuthoritiesHold

\* Versions and their numbers.
LEMMA Numbers ==
  ASSUME Typed
  PROVE  /\ connection.version \in Versions /\ connection.version \in Nat /\ connection.version <= connection.version
         /\ connection.generation \in Nat \ {0} /\ Versions \subseteq 0..MaxVersion /\ Versions \subseteq Nat
         /\ \A v \in Versions : 1..v \subseteq Versions
         /\ connection.version < MaxVersion => connection.version + 1 \in Versions
BY ConnectionAssumption DEF Typed, ConnectionRows, Versions

\* Credentials are stored: of an authorization that is not older than the stored one.
LEMMA StoredAuthorities ==
  ASSUME Typed, AuthoritiesHold, NEW authority \in Nat, NEW status, NEW generation \in {connection.generation, connection.generation + 1},
         Stored(authority, status, generation), granted' = granted,
         authority <= granted,
         generation = connection.generation => authority = origin[connection.version],
         \A a \in Authorizations : change'[a].phase = "verifying" => change'[a] = change[a]
  PROVE  AuthoritiesHold'
<1>1. /\ connection.version < MaxVersion
      /\ connection'.version = connection.version + 1 /\ connection'.generation = generation
      /\ origin' = [origin EXCEPT ![connection.version + 1] = authority]
  BY DEF Stored
<1>2. /\ connection.version \in Nat /\ connection.version + 1 \in Versions /\ Versions \subseteq Nat
      /\ connection.generation \in Nat /\ granted \in Nat
      /\ \A a \in Authorizations : change[a].generation \in Nat
  BY <1>1, Numbers DEF Typed, ChangeRows
<1>3. origin'[connection.version + 1] = authority /\ \A v \in Versions : v # connection.version + 1 => origin'[v] = origin[v]
  BY <1>1, <1>2 DEF Typed
<1>4. ASSUME NEW v \in Versions, v <= connection'.version PROVE origin'[v] <= granted
  <2>1. CASE v = connection.version + 1
    BY <1>3, <2>1
  <2>2. CASE v # connection.version + 1
    <3>1. v <= connection.version
      BY <1>1, <1>2, <1>4, <2>2
    <3>2. origin[v] <= granted
      BY <3>1 DEF AuthoritiesHold
    <3> QED BY <1>3, <2>2, <3>2
  <2> QED BY <2>1, <2>2
<1>5. ASSUME NEW a \in Authorizations, change'[a].phase = "verifying"
      PROVE  /\ change'[a].authority <= granted
             /\ change'[a].generation <= connection'.generation
             /\ change'[a].generation = connection'.generation => origin'[connection'.version] <= change'[a].authority
  <2>1. change'[a] = change[a]
    BY <1>5
  <2>2. /\ change[a].authority <= granted /\ change[a].generation <= connection.generation
        /\ change[a].generation = connection.generation => origin[connection.version] <= change[a].authority
    BY <1>5, <2>1 DEF AuthoritiesHold
  <2>3. CASE generation = connection.generation
    BY <1>1, <1>3, <2>1, <2>2, <2>3
  <2>4. CASE generation = connection.generation + 1
    BY <1>1, <1>2, <2>1, <2>2, <2>4
  <2> QED BY <2>3, <2>4
<1> QED BY <1>4, <1>5 DEF AuthoritiesHold

----------------------------------------------------------------------------
(* The types of the rows. *)

LEMMA OpensRow ==
  ASSUME NEW row \in RequestRows, NEW p \in Processes, NEW v \in Versions
  PROVE  Opens(row, p, v) \in RequestRows /\ Opens(row, p, v).phase = "opening"
         /\ Opens(row, p, v).version = v /\ Opens(row, p, v).process = row.process
<1>1. v \in 0..MaxVersion
  BY ConnectionAssumption DEF Versions
<1> QED BY <1>1 DEF Opens, RequestRows

LEMMA OverRow == Over \in RequestRows /\ Over.phase = "over"
<1>1. 0 \in 0..MaxVersion /\ 0 \in Nat /\ 0 \in 0..1
  BY ConnectionAssumption
<1>2. NewRequest \in RequestRows
  BY <1>1, Zenon DEF NewRequest, RequestRows
<1> QED BY <1>2 DEF Over, RequestRows

\* Storing keeps the types.
LEMMA StoredTypes ==
  ASSUME Typed, NEW authority \in Nat, NEW status \in {"connected"}, NEW generation \in Nat \ {0}, Stored(authority, status, generation)
  PROVE  /\ connection' \in ConnectionRows /\ origin' \in [Versions -> Nat]
         /\ connection'.version = connection.version + 1 /\ connection'.version \in Versions
         /\ connection.version <= connection'.version /\ connection'.generation = generation
<1>1. connection.version + 1 \in Versions /\ connection.version \in Nat
  BY Numbers DEF Stored
<1>2. connection' = [status |-> status, generation |-> generation, version |-> connection.version + 1, expired |-> FALSE]
      /\ origin' = [origin EXCEPT ![connection.version + 1] = authority]
  BY DEF Stored
<1> QED BY <1>1, <1>2 DEF Typed, ConnectionRows

\* Interrupting requests keeps the types; no request begins to run.
LEMMA InterruptedRows ==
  ASSUME NEW req \in [Requests -> RequestRows], NEW p \in Processes, NEW vs \in SUBSET Versions,
         \A r \in Requests : req[r].phase \notin {"new", "over"} => req[r].process \in Processes /\ req[r].version \in Versions
  PROVE  /\ Interrupted(req, p, vs) \in [Requests -> RequestRows]
         /\ \A r \in Requests :
              /\ Interrupted(req, p, vs)[r].phase \notin {"new", "over"} =>
                   Interrupted(req, p, vs)[r].process \in Processes /\ Interrupted(req, p, vs)[r].version \in Versions
              /\ req[r].phase = "running" /\ ~(req[r].process = p /\ req[r].version \in vs) => Interrupted(req, p, vs)[r] = req[r]
              /\ Interrupted(req, p, vs)[r].phase = "running" =>
                   Interrupted(req, p, vs)[r] = req[r] /\ ~(req[r].process = p /\ req[r].version \in vs)
<1> DEFINE new == Interrupted(req, p, vs)
<1>1. ASSUME NEW r \in Requests
      PROVE  /\ new[r] \in RequestRows
             /\ new[r].phase \notin {"new", "over"} => new[r].process \in Processes /\ new[r].version \in Versions
             /\ req[r].phase = "running" /\ ~(req[r].process = p /\ req[r].version \in vs) => new[r] = req[r]
             /\ new[r].phase = "running" => new[r] = req[r] /\ ~(req[r].process = p /\ req[r].version \in vs)
  <2>1. new[r] = IF req[r].process = p /\ req[r].version \in vs THEN
                   IF req[r].phase = "running" THEN Over
                   ELSE IF req[r].phase = "opening" THEN [req[r] EXCEPT !.bound = FALSE] ELSE req[r]
                 ELSE req[r]
    BY DEF Interrupted
  <2>2. req[r] \in RequestRows
    OBVIOUS
  <2>3. req[r].phase = "opening" => /\ [req[r] EXCEPT !.bound = FALSE] \in RequestRows
                                    /\ [req[r] EXCEPT !.bound = FALSE].phase = "opening"
                                    /\ [req[r] EXCEPT !.bound = FALSE].process = req[r].process
                                    /\ [req[r] EXCEPT !.bound = FALSE].version = req[r].version
    BY <2>2 DEF RequestRows
  <2> HIDE DEF new
  <2> QED BY <2>1, <2>2, <2>3, OverRow
<1>2. DOMAIN new = Requests /\ new = [r \in Requests |-> new[r]]
  BY DEF Interrupted
<1> HIDE DEF new
<1>3. new \in [Requests -> RequestRows]
  BY <1>1, <1>2
<1> QED BY <1>1, <1>3, Zenon DEF new

----------------------------------------------------------------------------
(* The actions. *)

\* providerFor, for the first and for the second attempt.
LEMMA ProvideInv ==
  ASSUME ConnectionInv, NEW r \in Requests, NEW p \in Processes, NEW rejected \in BOOLEAN, request[r].phase \in {"new", "rejected"},
         Provide(r, p, rejected), UNCHANGED <<connection, origin, granted, revoked, lease, retiring, change>>
  PROVE  ConnectionInv'
<1> USE DEF ConnectionInv
<1> DEFINE v == connection.version
<1>1. v \in Versions /\ connection.generation \in Nat /\ v \in 0..MaxVersion
  BY Numbers
<1>2. CASE /\ request' = [request EXCEPT ![r] = Opens([@ EXCEPT !.process = p, !.generation = connection.generation], p, v)]
           /\ instance' = [instance EXCEPT ![p] = @ \cup {v}]
           /\ UNCHANGED refresh
  <2>1. [request[r] EXCEPT !.process = p, !.generation = connection.generation] \in RequestRows
        /\ [request[r] EXCEPT !.process = p, !.generation = connection.generation].process = p
    BY <1>1 DEF Typed, RequestRows
  <2>2. PICK row \in RequestRows : row.process = p /\ request' = [request EXCEPT ![r] = Opens(row, p, v)]
    BY <1>2, <2>1
  <2>3. /\ request' \in [Requests -> RequestRows]
        /\ request'[r].phase = "opening" /\ request'[r].process = p /\ request'[r].version = v
        /\ \A s \in Requests : s # r => request'[s] = request[s]
    BY <1>1, <2>2, OpensRow DEF Typed
  <2>4. RequestsAreNamed'
    BY <1>1, <2>3 DEF InstancesHold, RequestsAreNamed
  <2>5. instance' \in [Processes -> SUBSET Versions] /\ \A q \in Processes : instance[q] \subseteq instance'[q]
    BY <1>1, <1>2 DEF Typed
  <2>6. Typed'
    BY <1>2, <2>3, <2>5 DEF Typed
  <2>7. InstancesHold'
    BY <2>3, <2>4, <2>5, InstancesRest
  <2>8. LeasesHold' /\ AuthoritiesHold'
    BY <1>2, LeasesRest, Numbers DEF AuthoritiesHold
  <2> QED BY <2>6, <2>7, <2>8
<1>3. CASE /\ request' = [request EXCEPT ![r] = [@ EXCEPT !.process = p, !.generation = connection.generation, !.phase = "refreshing",
                                                        !.version = v, !.attempt = IF rejected THEN 1 ELSE 0]]
           /\ refresh' = [refresh EXCEPT ![p][v] = IF @ = "none" THEN "waiting" ELSE @]
           /\ UNCHANGED instance
  <2> DEFINE row == [request[r] EXCEPT !.process = p, !.generation = connection.generation, !.phase = "refreshing",
                                       !.version = v, !.attempt = IF rejected THEN 1 ELSE 0]
  <2>1. row \in RequestRows /\ row.phase = "refreshing" /\ row.process = p /\ row.version = v
    <3>1. request[r] \in RequestRows /\ (IF rejected THEN 1 ELSE 0) \in 0..1
      BY DEF Typed
    <3>2. PICK k \in 0..1 : k = IF rejected THEN 1 ELSE 0
      BY <3>1
    <3> QED BY <1>1, <3>1, <3>2 DEF RequestRows
  <2>2. request' = [request EXCEPT ![r] = row]
    BY <1>3
  <2> HIDE DEF row
  <2>3. /\ request' \in [Requests -> RequestRows] /\ request'[r] = row
        /\ \A s \in Requests : s # r => request'[s] = request[s]
    BY <2>1, <2>2 DEF Typed
  <2>4. RequestsAreNamed'
    BY <1>1, <2>1, <2>3 DEF InstancesHold, RequestsAreNamed
  <2>5. refresh' \in [Processes -> [Versions -> {"none", "waiting", "calling"}]]
    BY <1>1, <1>3 DEF Typed
  <2>6. Typed'
    BY <1>3, <2>3, <2>5 DEF Typed
  <2>7. InstancesHold'
    BY <1>3, <2>1, <2>3, <2>4, InstancesRest
  <2>8. LeasesHold'
    BY <1>3, RefreshWaits
  <2>9. AuthoritiesHold'
    BY DEF AuthoritiesHold
  <2> QED BY <2>6, <2>7, <2>8, <2>9
<1> QED BY <1>2, <1>3 DEF Provide

\* A request is over, or its credentials are refused for the first time.
LEMMA RequestEndsInv ==
  ASSUME ConnectionInv, NEW r \in Requests, NEW row \in RequestRows,
         row.phase \in {"over", "rejected"}, row.phase = "rejected" => row.process = request[r].process /\ row.version = request[r].version,
         request' = [request EXCEPT ![r] = row],
         \/ request[r].phase = "running" /\ Leaves(r)
         \/ request[r].phase = "rejected" /\ row.phase = "over" /\ UNCHANGED <<instance, retiring>>,
         UNCHANGED <<connection, origin, granted, revoked, lease, refresh, change>>
  PROVE  ConnectionInv'
<1> USE DEF ConnectionInv
<1>1. /\ request' \in [Requests -> RequestRows] /\ request'[r] = row
      /\ \A s \in Requests : s # r => request'[s] = request[s]
  BY DEF Typed
<1>2. RequestsAreNamed'
  BY <1>1 DEF InstancesHold, RequestsAreNamed
<1>3. InstancesHold'
  <2>1. CASE request[r].phase = "running" /\ Leaves(r)
    BY <1>1, <1>2, <2>1, InstancesLeft
  <2>2. CASE request[r].phase = "rejected" /\ row.phase = "over" /\ UNCHANGED <<instance, retiring>>
    BY <1>1, <1>2, <2>2, InstancesRest
  <2> QED BY <2>1, <2>2
<1>4. instance' \in [Processes -> SUBSET Versions] /\ retiring' \in [Processes -> SUBSET Versions]
  <2>1. CASE Leaves(r)
    BY <2>1 DEF Typed, Leaves
  <2>2. CASE UNCHANGED <<instance, retiring>>
    BY <2>2 DEF Typed
  <2> QED BY <2>1, <2>2
<1>5. Typed'
  BY <1>1, <1>4 DEF Typed
<1>6. LeasesHold' /\ AuthoritiesHold'
  BY LeasesRest, Numbers DEF AuthoritiesHold
<1> QED BY <1>3, <1>5, <1>6

\* A process cuts what runs on the versions vs.
LEMMA CutInv ==
  ASSUME Typed, InstancesHold, NEW p \in Processes, NEW vs \in SUBSET Versions,
         request' = Interrupted(request, p, vs),
         instance' \in [Processes -> SUBSET Versions], instance[p] \ vs \subseteq instance'[p],
         retiring' = [retiring EXCEPT ![p] = @ \ vs],
         \A q \in Processes : q # p => instance'[q] = instance[q]
  PROVE  InstancesHold' /\ request' \in [Requests -> RequestRows] /\ retiring' \in [Processes -> SUBSET Versions]
<1>1. /\ request \in [Requests -> RequestRows]
      /\ \A r \in Requests : request[r].phase \notin {"new", "over"} => request[r].process \in Processes /\ request[r].version \in Versions
  BY DEF Typed, InstancesHold, RequestsAreNamed
<1>2. /\ request' \in [Requests -> RequestRows]
      /\ \A r \in Requests :
           /\ request'[r].phase \notin {"new", "over"} => request'[r].process \in Processes /\ request'[r].version \in Versions
           /\ request[r].phase = "running" /\ ~(request[r].process = p /\ request[r].version \in vs) => request'[r] = request[r]
           /\ request'[r].phase = "running" => request'[r] = request[r] /\ ~(request[r].process = p /\ request[r].version \in vs)
  BY <1>1, InterruptedRows
<1>3. RequestsAreNamed'
  BY <1>2 DEF RequestsAreNamed
<1>4. /\ retiring' \in [Processes -> SUBSET Versions] /\ retiring'[p] \subseteq retiring[p] \ vs
      /\ \A q \in Processes : q # p => retiring'[q] = retiring[q]
  BY DEF Typed
<1>5. /\ \A q \in Processes : q # p => instance'[q] = instance[q] /\ retiring'[q] = retiring[q]
      /\ \A r \in Requests : request[r].phase = "running" /\ ~(request[r].process = p /\ request[r].version \in vs) => request'[r] = request[r]
      /\ \A r \in Requests : request'[r].phase = "running" => request'[r] = request[r] /\ ~(request[r].process = p /\ request[r].version \in vs)
  BY <1>2, <1>4
<1>6. InstancesHold'
  BY <1>3, <1>4, <1>5, InstancesCut
<1> QED BY <1>2, <1>4, <1>6

\* Cut, as the actions use it.
LEMMA CutAllInv ==
  ASSUME Typed, InstancesHold, NEW p \in Processes, NEW kept \in SUBSET Versions, Cut(p, kept)
  PROVE  /\ InstancesHold' /\ request' \in [Requests -> RequestRows]
         /\ retiring' \in [Processes -> SUBSET Versions] /\ instance' \in [Processes -> SUBSET Versions]
<1>1. request' = Interrupted(request, p, Versions)
  BY DEF Cut
<1>2. /\ instance' \in [Processes -> SUBSET Versions] /\ instance[p] \ Versions \subseteq instance'[p]
      /\ retiring' = [retiring EXCEPT ![p] = @ \ Versions]
      /\ \A q \in Processes : q # p => instance'[q] = instance[q]
  <2>1. retiring[p] \ Versions = {} /\ instance[p] \ Versions = {}
    BY DEF Typed
  <2> QED BY <2>1 DEF Cut, Typed
<1> QED BY <1>1, <1>2, CutInv

LEMMA TimedOutInv ==
  ASSUME ConnectionInv, NEW r \in Requests, TimedOut(r) PROVE ConnectionInv'
<1> USE DEF ConnectionInv
<1> DEFINE p == request[r].process
           v == request[r].version
<1>1. p \in Processes /\ v \in Versions
  BY DEF TimedOut, InstancesHold, RequestsAreNamed
<1>2. /\ request' = Interrupted(request, p, {v})
      /\ instance' = [instance EXCEPT ![p] = @ \ {v}] /\ retiring' = [retiring EXCEPT ![p] = @ \ {v}]
      /\ UNCHANGED <<connection, origin, granted, revoked, lease, refresh, change>>
  BY DEF TimedOut
<1>3. /\ instance' \in [Processes -> SUBSET Versions] /\ instance[p] \ {v} \subseteq instance'[p]
      /\ \A q \in Processes : q # p => instance'[q] = instance[q]
  BY <1>1, <1>2 DEF Typed
<1> HIDE DEF p, v
<1>4. {v} \in SUBSET Versions
  BY <1>1
<1>5. InstancesHold' /\ request' \in [Requests -> RequestRows] /\ retiring' \in [Processes -> SUBSET Versions]
  BY <1>1, <1>2, <1>3, <1>4, CutInv
<1>6. Typed'
  BY <1>2, <1>3, <1>5 DEF Typed
<1>7. LeasesHold' /\ AuthoritiesHold'
  BY <1>2, LeasesRest, Numbers DEF AuthoritiesHold
<1> QED BY <1>5, <1>6, <1>7

\* A refresh ends: its requests open version w, or are over; no request begins or ends to run.
LEMMA ServedRequests ==
  ASSUME Typed, InstancesHold, NEW p \in Processes, NEW v \in Versions, NEW w \in Versions, Served(p, v, w)
  PROVE  /\ request' \in [Requests -> RequestRows] /\ RequestsAreNamed'
         /\ \A r \in Requests : request[r].phase = "running" \/ request'[r].phase = "running" => request'[r] = request[r]
         /\ refresh' \in [Processes -> [Versions -> {"none", "waiting", "calling"}]]
<1>1. request' = [r \in Requests |-> IF r \in Waiting(p, v) THEN Opens(request[r], p, w) ELSE request[r]]
      /\ refresh' = [refresh EXCEPT ![p][v] = "none"]
  BY DEF Served
<1>2. ASSUME NEW r \in Requests
      PROVE  /\ request'[r] \in RequestRows
             /\ request'[r].phase \notin {"new", "over"} => request'[r].process \in Processes /\ request'[r].version \in Versions
             /\ request[r].phase = "running" \/ request'[r].phase = "running" => request'[r] = request[r]
  <2>1. CASE r \in Waiting(p, v)
    <3>1. request[r].phase = "refreshing" /\ request[r].process = p /\ request[r] \in RequestRows
      BY <2>1 DEF Waiting, Typed
    <3>2. request'[r] = Opens(request[r], p, w)
      BY <1>1, <2>1
    <3> QED BY <3>1, <3>2, OpensRow
  <2>2. CASE r \notin Waiting(p, v)
    <3>1. request'[r] = request[r]
      BY <1>1, <2>2
    <3> QED BY <3>1 DEF Typed, InstancesHold, RequestsAreNamed
  <2> QED BY <2>1, <2>2
<1>3. request' \in [Requests -> RequestRows]
  BY <1>1, <1>2
<1>4. refresh' \in [Processes -> [Versions -> {"none", "waiting", "calling"}]]
  BY <1>1 DEF Typed
<1> QED BY <1>2, <1>3, <1>4 DEF RequestsAreNamed

LEMMA FailedRequests ==
  ASSUME Typed, InstancesHold, NEW p \in Processes, NEW v \in Versions, FailedAll(p, v)
  PROVE  /\ request' \in [Requests -> RequestRows] /\ RequestsAreNamed'
         /\ \A r \in Requests : request[r].phase = "running" \/ request'[r].phase = "running" => request'[r] = request[r]
         /\ refresh' \in [Processes -> [Versions -> {"none", "waiting", "calling"}]]
<1>1. request' = [r \in Requests |-> IF r \in Waiting(p, v) THEN Over ELSE request[r]]
      /\ refresh' = [refresh EXCEPT ![p][v] = "none"]
  BY DEF FailedAll
<1>2. ASSUME NEW r \in Requests
      PROVE  /\ request'[r] \in RequestRows
             /\ request'[r].phase \notin {"new", "over"} => request'[r].process \in Processes /\ request'[r].version \in Versions
             /\ request[r].phase = "running" \/ request'[r].phase = "running" => request'[r] = request[r]
  <2>1. CASE r \in Waiting(p, v)
    <3>1. request[r].phase = "refreshing" /\ request'[r] = Over
      BY <1>1, <2>1 DEF Waiting
    <3> QED BY <3>1, OverRow
  <2>2. CASE r \notin Waiting(p, v)
    <3>1. request'[r] = request[r]
      BY <1>1, <2>2
    <3> QED BY <3>1 DEF Typed, InstancesHold, RequestsAreNamed
  <2> QED BY <2>1, <2>2
<1>3. request' \in [Requests -> RequestRows]
  BY <1>1, <1>2
<1>4. refresh' \in [Processes -> [Versions -> {"none", "waiting", "calling"}]]
  BY <1>1 DEF Typed
<1> QED BY <1>2, <1>3, <1>4 DEF RequestsAreNamed

LEMMA LeaseTypes == ASSUME Typed, NEW p, NEW v PROVE Released(p, v) \subseteq Processes \X Versions
BY DEF Typed, Released

\* A refresh that has nothing to save.
LEMMA RefreshOverInv ==
  ASSUME ConnectionInv, NEW p \in Processes, NEW v \in Versions, GivesUp(p, v) \/ RefreshFails(p, v) \/ AlreadyRefreshed(p, v) \/ NotSaved(p, v)
  PROVE  ConnectionInv'
<1> USE DEF ConnectionInv
<1> DEFINE w == connection.version
<1>1. /\ UNCHANGED <<connection, origin, granted, revoked, retiring, change>>
      /\ refresh' = [refresh EXCEPT ![p][v] = "none"] /\ lease' \in {lease, Released(p, v)}
  BY DEF GivesUp, RefreshFails, AlreadyRefreshed, NotSaved, Served, FailedAll
<1>2. w \in Versions /\ w <= w
  BY Numbers
<1>3. /\ request' \in [Requests -> RequestRows] /\ RequestsAreNamed'
      /\ \A r \in Requests : request[r].phase = "running" \/ request'[r].phase = "running" => request'[r] = request[r]
      /\ refresh' \in [Processes -> [Versions -> {"none", "waiting", "calling"}]]
  <2>1. FailedAll(p, v) \/ Served(p, v, w)
    BY DEF GivesUp, RefreshFails, AlreadyRefreshed, NotSaved
  <2>2. CASE FailedAll(p, v)
    BY <2>2, FailedRequests
  <2>3. CASE Served(p, v, w)
    <3> HIDE DEF w
    <3> QED BY <1>2, <2>3, ServedRequests
  <2> QED BY <2>1, <2>2, <2>3
<1>4. /\ instance' \in [Processes -> SUBSET Versions]
      /\ \A q \in Processes : instance[q] \subseteq instance'[q]
  <2>1. instance' = instance \/ instance' = [instance EXCEPT ![p] = @ \cup {w}]
    BY DEF GivesUp, RefreshFails, AlreadyRefreshed, NotSaved
  <2>2. CASE instance' = instance
    BY <2>2 DEF Typed
  <2>3. CASE instance' = [instance EXCEPT ![p] = @ \cup {w}]
    BY <1>2, <2>3 DEF Typed
  <2> QED BY <2>1, <2>2, <2>3
<1>5. Typed'
  BY <1>1, <1>3, <1>4, LeaseTypes DEF Typed
<1>6. LeasesHold'
  BY <1>1, <1>2, RefreshEnds
<1>7. InstancesHold'
  BY <1>1, <1>3, <1>4, InstancesRest
<1>8. AuthoritiesHold'
  BY <1>1 DEF AuthoritiesHold
<1> QED BY <1>5, <1>6, <1>7, <1>8

\* Refreshed credentials are saved.
LEMMA RefreshedInv ==
  ASSUME ConnectionInv, NEW p \in Processes, NEW v \in Versions, Refreshed(p, v)
  PROVE  ConnectionInv'
<1> USE DEF ConnectionInv
<1>1. /\ connection.version = v /\ Stored(origin[v], "connected", connection.generation)
      /\ Served(p, v, connection.version + 1)
      /\ instance' = [instance EXCEPT ![p] = (@ \ Unused(p, v)) \cup {connection.version + 1}]
      /\ retiring' = [retiring EXCEPT ![p] = @ \cup ((1..v \ Unused(p, v)) \cap instance[p])]
      /\ lease' = Released(p, v)
      /\ UNCHANGED <<granted, revoked, change>>
  BY DEF Refreshed, Savable
<1>2. connection.version + 1 \in Versions /\ 1..v \subseteq Versions /\ connection.generation \in Nat \ {0}
  BY <1>1, Numbers DEF Stored
<1>3. origin[v] \in Nat /\ origin[v] <= granted /\ origin[v] = origin[connection.version]
  BY <1>1, Numbers DEF Typed, AuthoritiesHold
<1>4. /\ connection' \in ConnectionRows /\ origin' \in [Versions -> Nat]
      /\ connection'.version \in Versions /\ connection.version <= connection'.version
  BY <1>1, <1>2, <1>3, StoredTypes
<1>5. /\ request' \in [Requests -> RequestRows] /\ RequestsAreNamed'
      /\ \A r \in Requests : request[r].phase = "running" \/ request'[r].phase = "running" => request'[r] = request[r]
      /\ refresh' \in [Processes -> [Versions -> {"none", "waiting", "calling"}]]
  BY <1>1, <1>2, ServedRequests
<1>6. instance' \in [Processes -> SUBSET Versions] /\ retiring' \in [Processes -> SUBSET Versions]
  BY <1>1, <1>2 DEF Typed
<1>7. Typed'
  BY <1>1, <1>4, <1>5, <1>6, LeaseTypes DEF Typed
<1>8. LeasesHold'
  BY <1>1, <1>4, RefreshEnds DEF Served
<1>9. InstancesHold'
  BY <1>1, <1>2, <1>5, RefreshedInstances
<1>10. AuthoritiesHold'
  BY <1>1, <1>3, StoredAuthorities
<1> QED BY <1>7, <1>8, <1>9, <1>10

\* The token service knows that the authorization is gone.
LEMMA RefreshRevokedInv ==
  ASSUME ConnectionInv, NEW p \in Processes, NEW v \in Versions, RefreshRevoked(p, v)
  PROVE  ConnectionInv'
<1> USE DEF ConnectionInv
<1> DEFINE failed == [r \in Requests |-> IF r \in Waiting(p, v) THEN Over ELSE request[r]]
<1>1. /\ lease' = Released(p, v) /\ refresh' = [refresh EXCEPT ![p][v] = "none"]
      /\ UNCHANGED <<origin, granted, revoked, change>>
      /\ \/ /\ connection.status = "connected" /\ connection' = [connection EXCEPT !.status = "reconnect_required"]
            /\ request' = Interrupted(failed, p, Versions)
            /\ instance' = [instance EXCEPT ![p] = {}] /\ retiring' = [retiring EXCEPT ![p] = {}]
         \/ request' = failed /\ UNCHANGED <<connection, instance, retiring>>
  BY DEF RefreshRevoked, Revokes
<1>2. /\ failed \in [Requests -> RequestRows]
      /\ \A r \in Requests :
           /\ failed[r].phase \notin {"new", "over"} => failed[r].process \in Processes /\ failed[r].version \in Versions
           /\ request[r].phase = "running" \/ failed[r].phase = "running" => failed[r] = request[r]
  <2>1. ASSUME NEW r \in Requests
        PROVE  /\ failed[r] \in RequestRows
               /\ failed[r].phase \notin {"new", "over"} => failed[r].process \in Processes /\ failed[r].version \in Versions
               /\ request[r].phase = "running" \/ failed[r].phase = "running" => failed[r] = request[r]
    <3>1. CASE r \in Waiting(p, v)
      <4>1. request[r].phase = "refreshing" /\ failed[r] = Over
        BY <3>1 DEF Waiting
      <4> HIDE DEF failed
      <4> QED BY <4>1, OverRow
    <3>2. CASE r \notin Waiting(p, v)
      <4>1. failed[r] = request[r]
        BY <3>2
      <4> HIDE DEF failed
      <4> QED BY <4>1 DEF Typed, InstancesHold, RequestsAreNamed
    <3> QED BY <3>1, <3>2
  <2>2. failed \in [Requests -> RequestRows]
    BY <2>1
  <2> HIDE DEF failed
  <2> QED BY <2>1, <2>2
<1> HIDE DEF failed
<1>3. /\ connection' \in ConnectionRows
      /\ connection'.version = connection.version /\ connection'.generation = connection.generation
  BY <1>1 DEF Typed, ConnectionRows
<1>4. connection.version \in Versions /\ connection.version <= connection.version
  BY Numbers
<1>5. InstancesHold' /\ request' \in [Requests -> RequestRows]
      /\ instance' \in [Processes -> SUBSET Versions] /\ retiring' \in [Processes -> SUBSET Versions]
  <2>1. CASE request' = failed /\ UNCHANGED <<connection, instance, retiring>>
    <3>1. RequestsAreNamed'
      BY <1>2, <2>1 DEF RequestsAreNamed
    <3>2. InstancesHold'
      BY <1>2, <2>1, <3>1, InstancesRest
    <3> QED BY <1>2, <2>1, <3>2 DEF Typed
  <2>2. CASE /\ request' = Interrupted(failed, p, Versions)
             /\ instance' = [instance EXCEPT ![p] = {}] /\ retiring' = [retiring EXCEPT ![p] = {}]
    <3>1. /\ request' \in [Requests -> RequestRows]
          /\ \A r \in Requests :
               /\ request'[r].phase \notin {"new", "over"} => request'[r].process \in Processes /\ request'[r].version \in Versions
               /\ failed[r].phase = "running" /\ ~(failed[r].process = p /\ failed[r].version \in Versions) => request'[r] = failed[r]
               /\ request'[r].phase = "running" => request'[r] = failed[r] /\ ~(failed[r].process = p /\ failed[r].version \in Versions)
      BY <1>2, <2>2, InterruptedRows
    <3>2. RequestsAreNamed'
      BY <3>1 DEF RequestsAreNamed
    <3>3. /\ \A r \in Requests : request[r].phase = "running" /\ ~(request[r].process = p /\ request[r].version \in Versions) => request'[r] = request[r]
          /\ \A r \in Requests : request'[r].phase = "running" => request'[r] = request[r] /\ ~(request[r].process = p /\ request[r].version \in Versions)
      BY <1>2, <3>1
    <3>4. /\ instance' \in [Processes -> SUBSET Versions] /\ retiring' \in [Processes -> SUBSET Versions]
          /\ \A q \in Processes : q # p => instance'[q] = instance[q] /\ retiring'[q] = retiring[q]
          /\ instance[p] \ Versions \subseteq instance'[p] /\ retiring'[p] \subseteq retiring[p] \ Versions
      BY <2>2 DEF Typed
    <3>5. InstancesHold'
      BY <3>2, <3>3, <3>4, InstancesCut
    <3> QED BY <3>1, <3>4, <3>5
  <2> QED BY <1>1, <2>1, <2>2
<1>6. refresh' \in [Processes -> [Versions -> {"none", "waiting", "calling"}]]
  BY <1>1 DEF Typed
<1>7. Typed'
  BY <1>1, <1>3, <1>5, <1>6, LeaseTypes DEF Typed
<1>8. LeasesHold'
  BY <1>1, <1>3, <1>4, RefreshEnds
<1>9. AuthoritiesHold'
  BY <1>1, <1>3, AuthoritiesRest
<1> QED BY <1>5, <1>7, <1>8, <1>9

\* The lease is taken, or lapses.
LEMMA ClaimInv ==
  ASSUME ConnectionInv, NEW p \in Processes, NEW v \in Versions, Claim(p, v)
  PROVE  ConnectionInv'
<1> USE DEF ConnectionInv
<1>1. /\ refresh' = [refresh EXCEPT ![p][v] = "calling"] /\ lease' = {<<p, v>>}
      /\ UNCHANGED <<connection, origin, granted, revoked, instance, retiring, request, change>>
  BY DEF Claim, TakeLease
<1>2. Typed'
  BY <1>1 DEF Typed
<1>3. LeasesHold'
  BY ClaimLeases
<1>4. InstancesHold' /\ AuthoritiesHold'
  BY <1>1 DEF InstancesHold, RequestsAreNamed, Runs, AuthoritiesHold
<1> QED BY <1>2, <1>3, <1>4

LEMMA LapsesInv ==
  ASSUME ConnectionInv, LeaseLapses PROVE ConnectionInv'
<1> USE DEF ConnectionInv
<1>1. lease' = {} /\ UNCHANGED <<connection, origin, granted, revoked, refresh, instance, retiring, request, change>>
  BY DEF LeaseLapses, memory
<1>2. PICK p \in Processes, v \in Versions : <<p, v>> \in lease /\ refresh[p][v] # "calling"
  BY DEF LeaseLapses
<1>3. ASSUME NEW q \in Processes, NEW w \in Versions, Calls(q, w), w = connection.version PROVE FALSE
  <2>1. <<q, w>> \in lease
    BY <1>3 DEF LeasesHold
  <2>2. <<q, w>> = <<p, v>>
    BY <1>2, <2>1 DEF LeasesHold
  <2>3. q = p /\ w = v
    BY <2>2
  <2> QED BY <1>2, <1>3, <2>3 DEF Calls
<1>4. Typed'
  BY <1>1 DEF Typed
<1>5. LeasesHold'
  BY <1>1, <1>3, LeasesDropped, Numbers
<1>6. InstancesHold' /\ AuthoritiesHold'
  BY <1>1 DEF InstancesHold, RequestsAreNamed, Runs, AuthoritiesHold
<1> QED BY <1>4, <1>5, <1>6

\* Users authorize, and the change is given up.
LEMMA AuthorizeInv ==
  ASSUME ConnectionInv, NEW a \in Authorizations, Authorize(a) PROVE ConnectionInv'
<1> USE DEF ConnectionInv
<1>1. UNCHANGED <<connection, origin, revoked, lease, refresh, instance, retiring, request>> /\ granted' = granted + 1
  BY DEF Authorize, memory
<1>2. PICK kind \in {"reconnect", "replace"} :
        change' = [change EXCEPT ![a] = [phase |-> "verifying", kind |-> kind, generation |-> connection.generation,
                                         version |-> connection.version, authority |-> granted + 1]]
  BY DEF Authorize
<1>3. connection.generation \in Nat /\ connection.version \in 0..MaxVersion /\ granted \in Nat /\ granted + 1 \in Nat
      /\ connection.version \in Versions /\ connection.version <= connection.version
  BY Numbers DEF Typed
<1>4. change' \in [Authorizations -> ChangeRows]
  BY <1>2, <1>3 DEF Typed, ChangeRows
<1>5. /\ change'[a].generation = connection.generation /\ change'[a].authority = granted + 1
      /\ \A b \in Authorizations : b # a => change'[b] = change[b]
  BY <1>2 DEF Typed
<1>6. revoked \subseteq 1..(granted + 1)
  BY <1>3 DEF Typed
<1>7. Typed'
  BY <1>1, <1>3, <1>4, <1>6 DEF Typed
<1>8. AuthoritiesHold'
  <2>1. ASSUME NEW v \in Versions, v <= connection.version PROVE origin[v] <= granted + 1 /\ origin[v] \in Nat /\ origin[v] <= granted
    BY <1>3, <2>1 DEF AuthoritiesHold, Typed
  <2>2. ASSUME NEW b \in Authorizations, change'[b].phase = "verifying"
        PROVE  /\ change'[b].authority <= granted + 1
               /\ change'[b].generation <= connection.generation
               /\ change'[b].generation = connection.generation => origin[connection.version] <= change'[b].authority
    <3>1. CASE b = a
      BY <1>3, <1>5, <2>1, <3>1
    <3>2. CASE b # a
      <4>1. /\ change[b].authority <= granted /\ change[b].generation <= connection.generation
            /\ change[b].generation = connection.generation => origin[connection.version] <= change[b].authority
            /\ change[b].authority \in Nat /\ change'[b] = change[b]
        BY <1>5, <2>2, <3>2 DEF AuthoritiesHold, Typed, ChangeRows
      <4> QED BY <1>3, <4>1
    <3> QED BY <3>1, <3>2
  <2> QED BY <1>1, <2>1, <2>2 DEF AuthoritiesHold
<1>9. LeasesHold' /\ InstancesHold'
  BY <1>1, <1>3, LeasesRest DEF InstancesHold, RequestsAreNamed, Runs
<1> QED BY <1>7, <1>8, <1>9

LEMMA OverChange == [NewChange EXCEPT !.phase = "over"] \in ChangeRows /\ [NewChange EXCEPT !.phase = "over"].phase = "over"
BY ConnectionAssumption DEF NewChange, ChangeRows

LEMMA NotReplacedInv ==
  ASSUME ConnectionInv, NEW a \in Authorizations, NotReplaced(a) PROVE ConnectionInv'
<1> USE DEF ConnectionInv
<1>1. PICK row \in ChangeRows : row.phase = "over" /\ change' = [change EXCEPT ![a] = row]
  BY OverChange DEF NotReplaced
<1>2. UNCHANGED <<connection, origin, granted, revoked, lease, refresh, instance, retiring, request>>
  BY DEF NotReplaced, memory
<1>3. /\ change' \in [Authorizations -> ChangeRows]
      /\ \A b \in Authorizations : change'[b].phase = "verifying" => change'[b] = change[b]
  BY <1>1 DEF Typed
<1>4. Typed'
  BY <1>2, <1>3 DEF Typed
<1>5. AuthoritiesHold'
  BY <1>2, <1>3 DEF AuthoritiesHold
<1>6. LeasesHold' /\ InstancesHold'
  BY <1>2, LeasesRest, Numbers DEF InstancesHold, RequestsAreNamed, Runs
<1> QED BY <1>4, <1>5, <1>6

\* The commit of a reconnect or a replacement.
LEMMA ReplacedInv ==
  ASSUME ConnectionInv, NEW a \in Authorizations, NEW p \in Processes, Replaced(a, p) PROVE ConnectionInv'
<1> USE DEF ConnectionInv
<1>1. /\ Stored(change[a].authority, "connected", connection.generation + 1)
      /\ lease' \in {lease, {}}
      /\ UNCHANGED <<granted, revoked, refresh>>
      /\ change[a].phase = "verifying" /\ connection.version < MaxVersion
  BY DEF Replaced, Stored
<1>2. connection.generation \in Nat \ {0} /\ connection.generation + 1 \in Nat \ {0}
      /\ connection.version + 1 \in Versions /\ connection.version \in Nat
  BY <1>1, Numbers
<1>3. change[a].authority \in Nat /\ change[a].authority <= granted
  BY <1>1 DEF Typed, ChangeRows, AuthoritiesHold
<1>4. PICK row \in ChangeRows : row.phase = "over" /\ change' = [change EXCEPT ![a] = row]
  BY OverChange DEF Replaced
<1>5. /\ change' \in [Authorizations -> ChangeRows]
      /\ \A b \in Authorizations : change'[b].phase = "verifying" => change'[b] = change[b]
  BY <1>4 DEF Typed
<1>6. /\ connection' \in ConnectionRows /\ origin' \in [Versions -> Nat]
      /\ connection'.version = connection.version + 1 /\ connection'.version \in Versions
      /\ connection.version <= connection'.version
  BY <1>1, <1>2, <1>3, StoredTypes
<1>7. /\ InstancesHold' /\ request' \in [Requests -> RequestRows]
      /\ retiring' \in [Processes -> SUBSET Versions] /\ instance' \in [Processes -> SUBSET Versions]
  <2>1. PICK kept \in SUBSET Versions : Cut(p, kept)
    BY <1>2 DEF Replaced
  <2> QED BY <2>1, CutAllInv
<1>8. Typed'
  BY <1>1, <1>5, <1>6, <1>7 DEF Typed
<1>9. LeasesHold'
  <2>1. CASE lease' = lease
    BY <1>1, <1>6, <2>1, LeasesRest
  <2>2. CASE lease' = {}
    <3>1. ASSUME NEW q \in Processes, NEW v \in Versions, Calls(q, v) PROVE v # connection'.version
      <4>1. v <= connection.version /\ v \in Nat
        BY <3>1, Numbers DEF Calls, LeasesHold
      <4> QED BY <1>2, <1>6, <4>1
    <3> QED BY <1>1, <1>6, <2>2, <3>1, LeasesDropped
  <2> QED BY <1>1, <2>1, <2>2
<1>10. AuthoritiesHold'
  <2>1. connection.generation + 1 # connection.generation /\ connection.generation + 1 \in {connection.generation, connection.generation + 1}
    BY <1>2
  <2> QED BY <1>1, <1>3, <1>5, <2>1, StoredAuthorities
<1> QED BY <1>7, <1>8, <1>9, <1>10

\* The user disconnects, or a request finds the authorization gone: the process cuts everything.
LEMMA CutStepInv ==
  ASSUME ConnectionInv, NEW p \in Processes, Cut(p, {}),
         connection' \in ConnectionRows, connection'.version = connection.version,
         connection'.generation \in {connection.generation, connection.generation + 1},
         UNCHANGED <<origin, granted, revoked, lease, refresh, change>>
  PROVE  ConnectionInv'
<1> USE DEF ConnectionInv
<1>1. /\ InstancesHold' /\ request' \in [Requests -> RequestRows]
      /\ retiring' \in [Processes -> SUBSET Versions] /\ instance' \in [Processes -> SUBSET Versions]
  BY CutAllInv
<1>2. Typed'
  BY <1>1 DEF Typed
<1>3. LeasesHold' /\ AuthoritiesHold'
  BY LeasesRest, AuthoritiesRest, Numbers
<1> QED BY <1>1, <1>2, <1>3

LEMMA DisconnectInv ==
  ASSUME ConnectionInv, NEW p \in Processes, Disconnect(p) PROVE ConnectionInv'
<1>1. connection.generation + 1 \in Nat \ {0}
  BY Numbers DEF ConnectionInv
<1>2. connection' = [connection EXCEPT !.status = "disconnected", !.generation = connection.generation + 1] /\ connection \in ConnectionRows
  BY DEF Disconnect, ConnectionInv, Typed
<1>3. /\ connection' \in ConnectionRows /\ connection'.version = connection.version
      /\ connection'.generation \in {connection.generation, connection.generation + 1}
  BY <1>1, <1>2 DEF ConnectionRows
<1> QED BY <1>3, CutStepInv DEF Disconnect

LEMMA DiscoveredInv ==
  ASSUME ConnectionInv, NEW r \in Requests, Discovered(r) PROVE ConnectionInv'
<1>1. /\ request[r].phase = "running" /\ request[r].process \in Processes
      /\ UNCHANGED <<origin, granted, revoked, lease, refresh, change>>
  BY DEF Discovered, ConnectionInv, InstancesHold, RequestsAreNamed
<1>2. CASE connection' = [connection EXCEPT !.status = "reconnect_required"] /\ Cut(request[r].process, {})
  <2>1. /\ connection' \in ConnectionRows /\ connection'.version = connection.version
        /\ connection'.generation \in {connection.generation, connection.generation + 1}
    BY <1>2 DEF ConnectionInv, Typed, ConnectionRows
  <2>2. PICK p \in Processes : Cut(p, {})
    BY <1>1, <1>2
  <2> QED BY <1>1, <2>1, <2>2, CutStepInv
<1>3. CASE Leaves(r) /\ request' = [request EXCEPT ![r] = Over] /\ UNCHANGED connection
  <2>1. PICK row \in RequestRows : row = Over /\ row.phase = "over"
    BY OverRow
  <2>2. /\ row.phase \in {"over", "rejected"} /\ row.phase # "rejected"
        /\ request' = [request EXCEPT ![r] = row]
        /\ UNCHANGED <<connection, origin, granted, revoked, lease, refresh, change>>
    BY <1>1, <1>3, <2>1
  <2> QED BY <1>1, <1>3, <2>1, <2>2, RequestEndsInv
<1> QED BY <1>2, <1>3 DEF Discovered

\* A request runs, ends, is refused, or begins its second attempt.
LEMMA RunInv ==
  ASSUME ConnectionInv, NEW r \in Requests, Run(r) PROVE ConnectionInv'
<1> USE DEF ConnectionInv
<1>1. UNCHANGED <<connection, origin, granted, revoked, lease, refresh, instance, retiring, change>>
  BY DEF Run
<1>2. PICK row \in RequestRows : request' = [request EXCEPT ![r] = row]
  <2>1. [request[r] EXCEPT !.phase = "running"] \in RequestRows
    BY DEF Typed, RequestRows
  <2> QED BY <2>1, OverRow DEF Run
<1>3. Typed'
  BY <1>1, <1>2 DEF Typed
<1>4. LeasesHold' /\ AuthoritiesHold'
  BY <1>1, LeasesRest, Numbers DEF AuthoritiesHold
<1> QED BY <1>3, <1>4, RunInstances

LEMMA RequestStepInv ==
  ASSUME ConnectionInv, NEW r \in Requests, Answered(r) \/ Refused(r) \/ Again(r) PROVE ConnectionInv'
<1>1. PICK over \in RequestRows : over = Over /\ over.phase = "over"
  BY OverRow
<1>2. CASE Answered(r)
  <2>1. /\ request[r].phase = "running" /\ Leaves(r)
        /\ request' = [request EXCEPT ![r] = over]
        /\ UNCHANGED <<connection, origin, granted, revoked, lease, refresh, change>>
    BY <1>1, <1>2 DEF Answered
  <2>2. over.phase \in {"over", "rejected"} /\ over.phase # "rejected"
    BY <1>1
  <2> QED BY <2>1, <2>2, RequestEndsInv
<1>3. CASE Refused(r)
  <2>1. /\ [request[r] EXCEPT !.phase = "rejected"] \in RequestRows
        /\ [request[r] EXCEPT !.phase = "rejected"].phase = "rejected"
        /\ [request[r] EXCEPT !.phase = "rejected"].process = request[r].process
        /\ [request[r] EXCEPT !.phase = "rejected"].version = request[r].version
    BY DEF ConnectionInv, Typed, RequestRows
  <2>2. PICK row \in RequestRows :
          /\ row.phase \in {"over", "rejected"} /\ (row.phase = "rejected" => row.process = request[r].process /\ row.version = request[r].version)
          /\ request' = [request EXCEPT ![r] = row]
    BY <1>1, <1>3, <2>1 DEF Refused
  <2>3. /\ request[r].phase = "running" /\ Leaves(r)
        /\ UNCHANGED <<connection, origin, granted, revoked, lease, refresh, change>>
    BY <1>3 DEF Refused
  <2> QED BY <2>2, <2>3, RequestEndsInv
<1>4. CASE Again(r)
  <2>1. request[r].phase = "rejected" /\ request[r].process \in Processes
    BY <1>4 DEF Again, ConnectionInv, InstancesHold, RequestsAreNamed
  <2>2. CASE Current(r)
    <3>1. PICK p \in Processes : p = request[r].process
      BY <2>1
    <3>2. Provide(r, p, TRUE) /\ UNCHANGED <<connection, origin, granted, revoked, lease, retiring, change>>
      BY <1>4, <2>2, <3>1 DEF Again
    <3> QED BY <2>1, <3>2, ProvideInv
  <2>3. CASE ~Current(r)
    <3>1. request' = [request EXCEPT ![r] = over] /\ UNCHANGED <<connection, origin, granted, revoked, lease, refresh, instance, retiring, change>>
      BY <1>1, <1>4, <2>3 DEF Again
    <3>2. over.phase \in {"over", "rejected"} /\ over.phase # "rejected" /\ UNCHANGED <<instance, retiring>>
      BY <1>1, <3>1
    <3>3. UNCHANGED <<connection, origin, granted, revoked, lease, refresh, change>>
      BY <3>1
    <3> QED BY <1>1, <2>1, <3>1, <3>2, <3>3, RequestEndsInv
  <2> QED BY <2>2, <2>3
<1> QED BY <1>2, <1>3, <1>4

\* A process dies.
LEMMA CrashInv ==
  ASSUME ConnectionInv, NEW p \in Processes, Crash(p) PROVE ConnectionInv'
<1> USE DEF ConnectionInv
<1>1. /\ refresh' = [refresh EXCEPT ![p] = [v \in Versions |-> "none"]]
      /\ instance' = [instance EXCEPT ![p] = {}] /\ retiring' = [retiring EXCEPT ![p] = {}]
      /\ request' = [r \in Requests |-> IF request[r].process = p /\ request[r].phase # "new" THEN Over ELSE request[r]]
      /\ UNCHANGED <<connection, origin, granted, revoked, lease, change>>
  BY DEF Crash
<1>2. ASSUME NEW r \in Requests
      PROVE  /\ request'[r] \in RequestRows
             /\ request'[r].phase \notin {"new", "over"} => request'[r].process \in Processes /\ request'[r].version \in Versions
             /\ request[r].phase = "running" /\ ~(request[r].process = p /\ request[r].version \in Versions) => request'[r] = request[r]
             /\ request'[r].phase = "running" => request'[r] = request[r] /\ ~(request[r].process = p /\ request[r].version \in Versions)
  <2>1. CASE request[r].process = p /\ request[r].phase # "new"
    <3>1. request'[r] = Over
      BY <1>1, <2>1
    <3>2. request[r].phase = "running" => request[r].version \in Versions
      BY DEF InstancesHold, RequestsAreNamed
    <3> QED BY <2>1, <3>1, <3>2, OverRow
  <2>2. CASE ~(request[r].process = p /\ request[r].phase # "new")
    <3>1. request'[r] = request[r]
      BY <1>1, <2>2
    <3> QED BY <2>2, <3>1 DEF Typed, InstancesHold, RequestsAreNamed
  <2> QED BY <2>1, <2>2
<1>3. request' \in [Requests -> RequestRows] /\ RequestsAreNamed'
  BY <1>1, <1>2 DEF RequestsAreNamed
<1>4. /\ instance' \in [Processes -> SUBSET Versions] /\ retiring' \in [Processes -> SUBSET Versions]
      /\ refresh' \in [Processes -> [Versions -> {"none", "waiting", "calling"}]]
      /\ \A q \in Processes : q # p => instance'[q] = instance[q] /\ retiring'[q] = retiring[q]
      /\ instance[p] \ Versions \subseteq instance'[p] /\ retiring'[p] \subseteq retiring[p] \ Versions
  BY <1>1 DEF Typed
<1>5. Typed'
  BY <1>1, <1>3, <1>4 DEF Typed
<1>6. InstancesHold'
  BY <1>2, <1>3, <1>4, InstancesCut
<1>7. LeasesHold' /\ AuthoritiesHold'
  BY <1>1, CrashLeases DEF AuthoritiesHold
<1> QED BY <1>5, <1>6, <1>7

\* The access token expires, or the user takes an authorization back at the provider.
LEMMA OutsideInv ==
  ASSUME ConnectionInv, TokenExpires \/ UserRevokes PROVE ConnectionInv'
<1> USE DEF ConnectionInv
<1>1. UNCHANGED <<origin, granted, lease, refresh, instance, retiring, request, change>>
  BY DEF TokenExpires, UserRevokes, memory
<1>2. /\ connection' \in ConnectionRows
      /\ connection'.version = connection.version /\ connection'.generation = connection.generation
      /\ revoked' \subseteq 1..granted
  <2>1. CASE TokenExpires
    <3>1. connection' = [connection EXCEPT !.expired = TRUE] /\ connection \in ConnectionRows
      BY <2>1 DEF TokenExpires, Typed
    <3> QED BY <2>1, <3>1 DEF TokenExpires, Typed, ConnectionRows
  <2>2. CASE UserRevokes
    BY <2>2 DEF UserRevokes, Typed
  <2> QED BY <2>1, <2>2
<1>3. Typed'
  BY <1>1, <1>2 DEF Typed
<1>4. LeasesHold' /\ AuthoritiesHold'
  BY <1>1, <1>2, LeasesRest, AuthoritiesRest, Numbers
<1>5. InstancesHold'
  BY <1>1 DEF InstancesHold, RequestsAreNamed, Runs
<1> QED BY <1>3, <1>4, <1>5

LEMMA InitInv == Init => ConnectionInv
<1> SUFFICES ASSUME Init PROVE ConnectionInv
  OBVIOUS
<1>1. 1 \in Versions /\ 0 \in 0..MaxVersion /\ 0 \in 0..1 /\ 1 \in Nat \ {0}
  BY ConnectionAssumption DEF Versions
<1>2. connection \in ConnectionRows
  BY <1>1 DEF Init, ConnectionRows
<1>3. request \in [Requests -> RequestRows]
  <2>1. NewRequest \in RequestRows
    BY <1>1, Zenon DEF NewRequest, RequestRows
  <2> QED BY <2>1 DEF Init
<1>4. change \in [Authorizations -> ChangeRows]
  BY <1>1 DEF Init, NewChange, ChangeRows
<1>5. Typed
  BY <1>1, <1>2, <1>3, <1>4 DEF Init, Typed
<1>6. LeasesHold
  BY DEF Init, LeasesHold, Calls
<1>7. InstancesHold
  BY DEF Init, InstancesHold, RequestsAreNamed, NewRequest
<1>8. AuthoritiesHold
  BY <1>1 DEF Init, AuthoritiesHold, NewChange, Versions
<1> QED BY <1>5, <1>6, <1>7, <1>8 DEF ConnectionInv

LEMMA NextInv == ConnectionInv /\ [Next]_vars => ConnectionInv'
<1> SUFFICES ASSUME ConnectionInv, [Next]_vars PROVE ConnectionInv'
  OBVIOUS
<1>1. ASSUME NEW r \in Requests, Work(r) PROVE ConnectionInv'
  BY <1>1, RunInv, RequestStepInv, TimedOutInv, DiscoveredInv DEF Work
<1>2. ASSUME NEW r \in Requests, NEW p \in Processes, Begin(r, p) PROVE ConnectionInv'
  BY <1>2, ProvideInv DEF Begin
<1>3. ASSUME NEW p \in Processes, NEW v \in Versions, RefreshWork(p, v) PROVE ConnectionInv'
  BY <1>3, ClaimInv, RefreshOverInv, RefreshedInv, RefreshRevokedInv DEF RefreshWork
<1>4. ASSUME NEW a \in Authorizations, Authorize(a) \/ NotReplaced(a) \/ \E p \in Processes : Replaced(a, p) PROVE ConnectionInv'
  BY <1>4, AuthorizeInv, NotReplacedInv, ReplacedInv
<1>5. ASSUME NEW p \in Processes, Disconnect(p) \/ Crash(p) PROVE ConnectionInv'
  BY <1>5, DisconnectInv, CrashInv
<1>6. CASE LeaseLapses \/ TokenExpires \/ UserRevokes
  BY <1>6, LapsesInv, OutsideInv
<1>7. CASE UNCHANGED vars
  <2>1. UNCHANGED <<connection, origin, granted, revoked, lease, refresh, instance, retiring, request, change>>
    BY <1>7 DEF vars, memory
  <2> QED BY <2>1 DEF ConnectionInv, Typed, LeasesHold, Calls, InstancesHold, RequestsAreNamed, Runs, AuthoritiesHold
<1> QED BY <1>1, <1>2, <1>3, <1>4, <1>5, <1>6, <1>7 DEF Next

\* The invariant the theorems rest on.
THEOREM ConnectionInvariant == Spec => []ConnectionInv
BY InitInv, NextInv, PTL DEF Spec

\* A set whose members are all equal has at most one.
LEMMA AtMostOne ==
  ASSUME NEW S, \A x, y \in S : x = y
  PROVE  Cardinality(S) <= 1
<1>1. CASE S = {}
  BY <1>1, FS_EmptySet
<1>2. CASE S # {}
  <2>1. PICK x \in S : TRUE
    BY <1>2
  <2>2. S = {x}
    BY <2>1
  <2> QED BY <2>2, FS_Singleton
<1> QED BY <1>1, <1>2

\* The type invariant, the single lease included.
LEMMA TypesFollow == ConnectionInv => TypeOK
<1> SUFFICES ASSUME ConnectionInv PROVE TypeOK
  OBVIOUS
<1>1. Cardinality(lease) <= 1
  BY AtMostOne DEF ConnectionInv, LeasesHold
<1> QED BY <1>1 DEF ConnectionInv, Typed, TypeOK, ConnectionRows, RequestRows, ChangeRows

\* A version of the credentials is refreshed by one process at a time: the lease outlives the call,
\* and who drops it has stored a newer version (sdk_connection_refresh).
THEOREM RefreshesAreSingle == Spec => []OneRefreshAtATime
<1>1. ConnectionInv => OneRefreshAtATime
  <2> SUFFICES ASSUME ConnectionInv, NEW v \in Versions PROVE Cardinality({p \in Processes : refresh[p][v] = "calling"}) <= 1
    BY DEF OneRefreshAtATime
  <2>1. \A p, q \in {p \in Processes : refresh[p][v] = "calling"} : p = q
    BY DEF ConnectionInv, LeasesHold, Calls
  <2> QED BY <2>1, AtMostOne
<1> QED BY <1>1, ConnectionInvariant, PTL

\* Requests run on instances that are connected (retireInstance, io's finally).
THEOREM RequestsHaveInstances == Spec => []NoUseAfterDisconnect
<1>1. ConnectionInv => NoUseAfterDisconnect
  BY DEF ConnectionInv, InstancesHold, NoUseAfterDisconnect
<1> QED BY <1>1, ConnectionInvariant, PTL

\* The state has its type, and no retired instance outlives its last request (io's finally).
THEOREM RetirementEnds == Spec => []RetiredInstancesAreInUse
<1>1. ConnectionInv => RetiredInstancesAreInUse
  <2> SUFFICES ASSUME ConnectionInv PROVE RetiredInstancesAreInUse
    OBVIOUS
  <2>1. ASSUME NEW p \in Processes, NEW v \in retiring[p] PROVE Users(p, v) # {}
    <3>1. PICK r \in Requests : Runs(r, p, v)
      BY DEF ConnectionInv, InstancesHold
    <3> QED BY <3>1, UsersAreRunning
  <2> QED BY <2>1, TypesFollow DEF RetiredInstancesAreInUse
<1> QED BY <1>1, ConnectionInvariant, PTL

\* The stored authorization only ever gives way to one that is not older: a commit of another
\* authorization moves the generation, and whoever began before is refused.
THEOREM AuthorityOnlyAdvances == Spec => AuthorityNeverGoesBack
<1>1. ASSUME ConnectionInv, [Next]_vars PROVE origin'[connection'.version] >= origin[connection.version]
  <2>1. /\ connection.version \in Versions /\ connection.version \in Nat /\ origin[connection.version] \in Nat
        /\ connection.version < MaxVersion => connection.version + 1 \in Versions
    BY <1>1, Numbers DEF ConnectionInv, Typed
  <2>2. ASSUME NEW authority \in Nat, NEW status, NEW generation, Stored(authority, status, generation)
        PROVE  origin'[connection'.version] = authority
    BY <1>1, <2>1, <2>2 DEF Stored, ConnectionInv, Typed
  <2>3. ASSUME NEW a \in Authorizations, NEW p \in Processes, Replaced(a, p)
        PROVE  origin'[connection'.version] >= origin[connection.version]
    <3>1. change[a].phase = "verifying" /\ connection.generation = change[a].generation /\ change[a].authority \in Nat
      BY <1>1, <2>3 DEF Replaced, UnchangedSince, ConnectionInv, Typed, ChangeRows
    <3>2. origin[connection.version] <= change[a].authority
      BY <1>1, <3>1 DEF ConnectionInv, AuthoritiesHold
    <3>3. origin'[connection'.version] = change[a].authority
      BY <2>2, <2>3, <3>1 DEF Replaced
    <3> QED BY <2>1, <3>1, <3>2, <3>3
  <2>4. ASSUME NEW p \in Processes, NEW v \in Versions, Refreshed(p, v)
        PROVE  origin'[connection'.version] >= origin[connection.version]
    <3>1. v = connection.version
      BY <2>4 DEF Refreshed, Savable
    <3>2. origin'[connection'.version] = origin[v]
      BY <2>1, <2>2, <2>4, <3>1 DEF Refreshed
    <3> QED BY <2>1, <3>1, <3>2
  <2>5. CASE \/ \E p \in Processes : Disconnect(p)
             \/ \E r \in Requests : Discovered(r)
             \/ \E p \in Processes, v \in Versions : RefreshRevoked(p, v)
             \/ TokenExpires
    <3>1. origin' = origin
      BY <2>5 DEF Disconnect, Discovered, RefreshRevoked, TokenExpires
    <3>2. connection'.version = connection.version
      BY <1>1, <2>5 DEF Disconnect, Discovered, RefreshRevoked, TokenExpires, ConnectionInv, Typed, ConnectionRows
    <3> QED BY <2>1, <3>1, <3>2
  <2>6. CASE UNCHANGED <<connection, origin>>
    BY <2>1, <2>6
  <2> QED
    <3>1. \/ \E a \in Authorizations, p \in Processes : Replaced(a, p)
          \/ \E p \in Processes, v \in Versions : Refreshed(p, v)
          \/ \/ \E p \in Processes : Disconnect(p)
             \/ \E r \in Requests : Discovered(r)
             \/ \E p \in Processes, v \in Versions : RefreshRevoked(p, v)
             \/ TokenExpires
          \/ UNCHANGED <<connection, origin>>
      BY <1>1, ZenonT(60) DEF Next, vars, Work, RefreshWork, Begin, Run, Answered, TimedOut, Refused, Again, Claim, AlreadyRefreshed, GivesUp,
                  NotSaved, RefreshFails, Authorize, NotReplaced, Crash, LeaseLapses, UserRevokes
    <3> QED BY <2>3, <2>4, <2>5, <2>6, <3>1
<1>2. ConnectionInv /\ [Next]_vars => [origin'[connection'.version] >= origin[connection.version]]_vars
  BY <1>1
<1> QED BY <1>2, ConnectionInvariant, PTL DEF Spec, AuthorityNeverGoesBack

\* Nobody is asked to reconnect an authorization that still holds: revokeCredentials compares
\* version and generation with what the refused request had used.
THEOREM ReconnectIsForCause == Spec => RevokedForCause
<1>1. ASSUME ConnectionInv, [Next]_vars, connection.status = "connected", connection'.status = "reconnect_required"
      PROVE  origin[connection.version] \in revoked
  <2>1. \/ \E r \in Requests : Discovered(r)
        \/ \E p \in Processes, v \in Versions : RefreshRevoked(p, v)
    <3>1. ~(\E a \in Authorizations, p \in Processes : Replaced(a, p)) /\ ~(\E p \in Processes, v \in Versions : Refreshed(p, v))
      BY <1>1 DEF Replaced, Refreshed, Stored
    <3>2. ~(\E p \in Processes : Disconnect(p)) /\ ~TokenExpires
      BY <1>1 DEF Disconnect, TokenExpires, ConnectionInv, Typed, ConnectionRows
    <3> QED BY <1>1, <3>1, <3>2 DEF Next, vars, Work, RefreshWork, Begin, Run, Answered, TimedOut, Refused, Again, Claim,
                                    AlreadyRefreshed, GivesUp, NotSaved, RefreshFails, Authorize, NotReplaced, Crash, LeaseLapses, UserRevokes
  <2>2. CASE \E r \in Requests : Discovered(r)
    BY <1>1, <2>2 DEF Discovered, Revokes
  <2>3. CASE \E p \in Processes, v \in Versions : RefreshRevoked(p, v)
    BY <1>1, <2>3 DEF RefreshRevoked, Revokes
  <2> QED BY <2>1, <2>2, <2>3
<1>2. ConnectionInv /\ [Next]_vars
        => [connection.status = "connected" /\ connection'.status = "reconnect_required" => origin[connection.version] \in revoked]_vars
  BY <1>1
<1> QED BY <1>2, ConnectionInvariant, PTL DEF Spec, RevokedForCause

=============================================================================
