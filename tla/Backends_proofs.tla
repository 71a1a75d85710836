---------------------------- MODULE Backends_proofs ----------------------------
(* Proofs about Backends, for every set of instances, versions, partitions,  *)
(* ports and requests.                                                       *)
EXTENDS Backends, FiniteSetTheorems, SequenceTheorems, TLAPS

-----------------------------------------------------------------------------
(* The operators that the model takes from the library *)

\* The first free port is one of them: that below which the ports are a smallest set.
LEMMA MinIn ==
  ASSUME NEW S \in SUBSET Nat, S # {}
  PROVE  Min(S) \in S
<1> DEFINE Upto == {0..x : x \in S}
<1>1. \A x \in S : x \in Nat /\ 0..x \in FiniteSubsetsOf(Nat)
  BY FS_Interval DEF FiniteSubsetsOf
<1>2. PICK T \in Upto : \A U \in Upto : <<U, T>> \notin StrictSubsetOrdering(Nat)
  <2>1. Upto \subseteq FiniteSubsetsOf(Nat) /\ Upto # {}
    BY <1>1
  <2> HIDE DEF Upto
  <2> QED
    BY <2>1, WFMin, FS_StrictSubsetOrderingWellFounded
<1>3. PICK x \in S : T = 0..x
  BY <1>2
<1>4. ASSUME NEW y \in S, y < x PROVE FALSE
  <2>1. 0..y \subseteq 0..x /\ x \in 0..x /\ x \notin 0..y
    BY <1>1, <1>4
  <2>2. <<0..y, 0..x>> \in StrictSubsetOrdering(Nat)
    BY <2>1 DEF StrictSubsetOrdering
  <2> QED
    BY <1>2, <1>3, <2>2
<1>5. \A y \in S : x =< y
  BY <1>1, <1>4
<1> QED
  BY <1>5 DEF Min

\* The latest of the published versions is one of them, and no other is later.
LEMMA MaxIn ==
  ASSUME NEW S \in SUBSET Nat, S # {}, IsFiniteSet(S)
  PROVE  Max(S) \in S /\ \A y \in S : y =< Max(S)
<1> DEFINE Above(x) == {y \in S : x < y}
           Aboves == {Above(x) : x \in S}
<1>1. PICK T \in Aboves : \A U \in Aboves : <<U, T>> \notin StrictSubsetOrdering(S)
  <2>1. Aboves \subseteq SUBSET S /\ Aboves # {}
    OBVIOUS
  <2>2. Aboves \subseteq FiniteSubsetsOf(S)
    <3> HIDE DEF Aboves
    <3> QED
      BY <2>1, FS_FiniteSubsetsOfFinite
  <2> HIDE DEF Aboves
  <2> QED
    BY <2>1, <2>2, WFMin, FS_StrictSubsetOrderingWellFounded
<1>2. PICK x \in S : T = Above(x)
  BY <1>1
<1>3. ASSUME NEW y \in S, x < y PROVE FALSE
  <2>1. y \in Above(x) /\ y \notin Above(y) /\ \A z \in S : y < z => x < z
    <3>1. \A z \in S : z \in Int
      OBVIOUS
    <3> QED
      BY <1>3, <3>1
  <2>2. <<Above(y), Above(x)>> \in StrictSubsetOrdering(S)
    BY <2>1 DEF StrictSubsetOrdering
  <2> QED
    BY <1>1, <1>2, <2>2
<1>4. \A y \in S : x >= y /\ y =< x
  BY <1>3
<1> QED
  BY <1>4 DEF Max

\* A proxy added at the end.
LEMMA AppendIs ==
  ASSUME NEW S, NEW s \in Seq(S), NEW x \in S
  PROVE  /\ Append(s, x) \in Seq(S)
         /\ Range(Append(s, x)) = Range(s) \cup {x}
         /\ IsInjective(s) /\ x \notin Range(s) => IsInjective(Append(s, x))
<1> DEFINE t == Append(s, x)
<1>1. /\ t \in Seq(S) /\ Len(t) = Len(s) + 1 /\ t[Len(s) + 1] = x
      /\ \A i \in 1..Len(s) : t[i] = s[i]
  BY AppendProperties
<1>2. Len(s) \in Nat /\ DOMAIN s = 1..Len(s) /\ DOMAIN t = 1..(Len(s) + 1)
  BY <1>1, LenProperties
<1> HIDE DEF t
<1>3. Range(t) = Range(s) \cup {x}
  BY <1>1, <1>2 DEF Range
<1>4. ASSUME IsInjective(s), x \notin Range(s) PROVE IsInjective(t)
  BY <1>1, <1>2, <1>4 DEF Range, IsInjective
<1> QED
  BY <1>1, <1>3, <1>4 DEF t

\* A proxy taken out of the store, the others left in their order.
LEMMA RemoveAtIs ==
  ASSUME NEW S, NEW s \in Seq(S), IsInjective(s), NEW k \in DOMAIN s
  PROVE  /\ RemoveAt(s, k) \in Seq(S)
         /\ Range(RemoveAt(s, k)) = Range(s) \ {s[k]}
         /\ IsInjective(RemoveAt(s, k))
<1> DEFINE a == SubSeq(s, 1, k - 1)
           b == SubSeq(s, k + 1, Len(s))
           t == RemoveAt(s, k)
<1>1. Len(s) \in Nat /\ DOMAIN s = 1..Len(s) /\ k \in 1..Len(s) /\ k \in Int
  BY LenProperties
<1>2. \A i \in 1..Len(s) : s[i] \in S
  BY <1>1, LenProperties
<1>3. a \in Seq(S) /\ Len(a) = k - 1 /\ \A i \in 1..(k - 1) : a[i] = s[i]
  <2>1. \A i \in 1..(k - 1) : s[i] \in S
    BY <1>1, <1>2
  <2>2. /\ a \in Seq(S) /\ Len(a) = IF 1 <= k - 1 THEN k - 1 - 1 + 1 ELSE 0
        /\ \A i \in 1..(k - 1 - 1 + 1) : a[i] = s[1 + i - 1]
    BY <1>1, <2>1, SubSeqProperties
  <2> QED
    BY <1>1, <2>2
<1>4. b \in Seq(S) /\ Len(b) = Len(s) - k /\ \A i \in 1..(Len(s) - k) : b[i] = s[k + i]
  <2>1. \A i \in (k + 1)..Len(s) : s[i] \in S
    BY <1>1, <1>2
  <2>2. /\ b \in Seq(S) /\ Len(b) = IF k + 1 <= Len(s) THEN Len(s) - (k + 1) + 1 ELSE 0
        /\ \A i \in 1..(Len(s) - (k + 1) + 1) : b[i] = s[k + 1 + i - 1]
    BY <1>1, <2>1, SubSeqProperties
  <2> QED
    BY <1>1, <2>2
<1>5. t = a \o b
  BY DEF RemoveAt
<1> HIDE DEF a, b, t
<1>6. /\ t \in Seq(S) /\ Len(t) = Len(s) - 1 /\ DOMAIN t = 1..(Len(s) - 1)
      /\ \A i \in 1..(Len(s) - 1) : t[i] = IF i < k THEN s[i] ELSE s[i + 1]
  <2>0. /\ t \in Seq(S) /\ Len(t) = Len(a) + Len(b)
        /\ \A i \in 1..Len(a) + Len(b) : t[i] = IF i <= Len(a) THEN a[i] ELSE b[i - Len(a)]
    BY <1>3, <1>4, <1>5, ConcatProperties
  <2>1. /\ t \in Seq(S) /\ Len(t) = Len(s) - 1
        /\ \A i \in 1..(Len(s) - 1) : t[i] = IF i <= k - 1 THEN a[i] ELSE b[i - (k - 1)]
    <3>1. Len(a) + Len(b) = Len(s) - 1
      BY <1>1, <1>3, <1>4
    <3> QED
      BY <2>0, <3>1, <1>3
  <2>2. ASSUME NEW i \in 1..(Len(s) - 1) PROVE t[i] = IF i < k THEN s[i] ELSE s[i + 1]
    <3>1. CASE i <= k - 1
      <4>1. t[i] = a[i] /\ i \in 1..(k - 1) /\ i < k
        BY <1>1, <2>1, <3>1
      <4> QED
        BY <4>1, <1>3
    <3>2. CASE ~ (i <= k - 1)
      <4>1. t[i] = b[i - (k - 1)] /\ i - (k - 1) \in 1..(Len(s) - k) /\ k + (i - (k - 1)) = i + 1 /\ ~ (i < k)
        BY <1>1, <2>1, <3>2
      <4> QED
        BY <4>1, <1>4
    <3> QED
      BY <3>1, <3>2
  <2> QED
    BY <1>1, <2>1, <2>2, LenProperties
<1>7. IsInjective(t)
  <2>1. SUFFICES ASSUME NEW i \in 1..(Len(s) - 1), NEW j \in 1..(Len(s) - 1), t[i] = t[j]
                 PROVE  i = j
    BY <1>6 DEF IsInjective
  <2> DEFINE m == IF i < k THEN i ELSE i + 1
             n == IF j < k THEN j ELSE j + 1
  <2>2. m \in DOMAIN s /\ n \in DOMAIN s /\ t[i] = s[m] /\ t[j] = s[n]
    BY <1>1, <1>6
  <2>3. m = n
    <3> HIDE DEF m, n
    <3> QED
      BY <2>1, <2>2 DEF IsInjective
  <2> QED
    BY <1>1, <2>3
<1>8. Range(t) \subseteq Range(s) \ {s[k]}
  BY <1>1, <1>6 DEF IsInjective, Range
<1>9. ASSUME NEW i \in DOMAIN s, s[i] # s[k] PROVE s[i] \in Range(t)
  <2>1. CASE i < k
    BY <2>1, <1>1, <1>6, <1>9 DEF Range
  <2>2. CASE i > k
    <3>1. i - 1 \in 1..(Len(s) - 1) /\ t[i - 1] = s[i]
      BY <2>2, <1>1, <1>6
    <3> QED
      BY <3>1, <1>6 DEF Range
  <2> QED
    BY <2>1, <2>2, <1>1, <1>9
<1> QED
  BY <1>6, <1>7, <1>8, <1>9 DEF Range, t
-----------------------------------------------------------------------------
(* The type invariant, and what it rests on: which request holds which uid   *)

\* The steps of a request that has chosen the uid and the port of an instance.
Waiting == {"spawn", "ready"}

Waits(r) == req[r].at \in Waiting

\* What a request holds beside the type of its fields, at each of its steps.
ReqOK(q) ==
  /\ q \in Requests
  /\ q.at \in {"terminate", "package"} => q.query # {} /\ q.op = "ensure"
  /\ q.at \in {"terminate", "spawn", "ready"} => q.uid \in Uid
  /\ q.at \in {"install", "port"} => q.version \in Version /\ q.config \in Config
  /\ q.at = "install" /\ q.op = "graph" => q.query = {q.version}

RequestsOK == req = [r \in Request |-> req[r]] /\ \A r \in Request : ReqOK(req[r])

\* The servers of run steps are in the default partition.
InstanceOK(i) == i \in Instances /\ (i.kind = "dev" => i.part = DefaultPartition)

InstancesOK ==
  /\ instance = [u \in Uid |-> instance[u]]
  /\ \A u \in Started : InstanceOK(instance[u])

StoreOK == store \in [Env -> Seq(Uid)] /\ \A e \in Env : IsInjective(store[e])

\* The instance that a request waits for is its own: of its environment, with a process
\* once it is created, registered nowhere, and no other request waits for it.
WaitsWell(r) ==
  LET u == req[r].uid
  IN /\ u \in Started
     /\ instance[u].kind \in {"host", "container"} /\ instance[u].env = req[r].env
     /\ req[r].at = "ready" => instance[u].at # "named"
     /\ \A e \in Env : u \notin Uids(e)
     /\ \A s \in Request : Waits(s) /\ req[s].uid = u => s = r

\* A proxy is one of an instance whose process was created.
UidsOK ==
  /\ \A e \in Env : \A u \in Uids(e) : u \in Started /\ instance[u].at # "named"
  /\ \A r \in Request : Waits(r) => WaitsWell(r)

TypeInv ==
  /\ InstancesOK /\ StoreOK /\ RequestsOK /\ UidsOK
  /\ manifest \subseteq Version \X Config
  /\ env \in Env
  /\ late \subseteq Uid /\ raced \subseteq Uid

\* The invariant implies the type invariant of the model.
LEMMA TypeInvIsTyped ==
  TypeInv => TypeOK
BY DEF TypeInv, TypeOK, InstancesOK, InstanceOK, StoreOK, RequestsOK, ReqOK, Started

\* The record of a request that does nothing.
LEMMA IdleOK == ReqOK(Idle)
<1>1. 0 \in Env /\ 0 \in Versions /\ DefaultPartition \in Partition
  BY BackendsAssumption DEF Env, Versions
<1> QED
  BY <1>1 DEF ReqOK, Idle, Requests

\* It holds at first.
LEMMA InitTypeInv ==
  Init => TypeInv
<1> SUFFICES ASSUME Init PROVE TypeInv
  OBVIOUS
<1>1. InstancesOK
  BY DEF Init, InstancesOK, Started
<1>2. StoreOK
  <2>1. <<>> \in Seq(Uid) /\ IsInjective(<<>>)
    BY DEF IsInjective
  <2> QED
    BY <2>1 DEF Init, StoreOK
<1>3. RequestsOK
  BY IdleOK DEF Init, RequestsOK
<1>4. UidsOK
  <2>1. \A e \in Env : Uids(e) = {}
    BY DEF Init, Uids, Range
  <2>2. \A r \in Request : ~ Waits(r)
    BY DEF Init, Waits, Waiting, Idle
  <2> QED
    BY <2>1, <2>2 DEF UidsOK
<1>5. /\ env \in Env /\ manifest \subseteq Version \X Config
      /\ late \subseteq Uid /\ raced \subseteq Uid
  BY BackendsAssumption DEF Init, Env
<1> QED
  BY <1>1, <1>2, <1>3, <1>4, <1>5 DEF TypeInv

-----------------------------------------------------------------------------
(* What the parts of an action do to the store, the instances and a request  *)

\* A proxy is added to the store of one environment.
LEMMA RegisterIs ==
  ASSUME StoreOK, NEW e \in Env, NEW u \in Uid, u \notin Uids(e), Register(e, u)
  PROVE  /\ StoreOK'
         /\ Uids(e)' = Uids(e) \cup {u}
         /\ \A f \in Env : f # e => Uids(f)' = Uids(f)
<1> DEFINE t == Append(store[e], u)
<1>1. t \in Seq(Uid) /\ Range(t) = Uids(e) \cup {u} /\ IsInjective(t)
  BY AppendIs DEF StoreOK, Uids
<1>2. store' = [store EXCEPT ![e] = t]
  BY DEF Register
<1> HIDE DEF t
<1>3. store'[e] = t /\ \A f \in Env : f # e => store'[f] = store[f]
  BY <1>2 DEF StoreOK
<1>4. store' \in [Env -> Seq(Uid)]
  BY <1>1, <1>2 DEF StoreOK
<1> QED
  BY <1>1, <1>3, <1>4 DEF StoreOK, Uids

\* One is removed.
LEMMA UnregisterIs ==
  ASSUME StoreOK, NEW e \in Env, NEW u \in Uids(e), Unregister(e, u)
  PROVE  /\ StoreOK'
         /\ Uids(e)' = Uids(e) \ {u}
         /\ \A f \in Env : f # e => Uids(f)' = Uids(f)
<1> DEFINE k == Position(e, u)
           t == RemoveAt(store[e], k)
<1>1. k \in DOMAIN store[e] /\ store[e][k] = u
  BY DEF Uids, Range, Position
<1>2. store' = [store EXCEPT ![e] = t]
  BY DEF Unregister
<1> HIDE DEF k
<1>3. t \in Seq(Uid) /\ Range(t) = Uids(e) \ {u} /\ IsInjective(t)
  BY <1>1, RemoveAtIs DEF StoreOK, Uids
<1> HIDE DEF t
<1>4. store'[e] = t /\ \A f \in Env : f # e => store'[f] = store[f]
  BY <1>2 DEF StoreOK
<1>5. store' \in [Env -> Seq(Uid)]
  BY <1>2, <1>3 DEF StoreOK
<1> QED
  BY <1>3, <1>4, <1>5 DEF StoreOK, Uids

\* What an instance is does not change; what its process does may.
SameAs(i, j) ==
  /\ i.kind = j.kind /\ i.part = j.part /\ i.version = j.version
  /\ i.config = j.config /\ i.port = j.port /\ i.env = j.env
  /\ i.at = "named" => j.at = "named"

Keeps == \A u \in Started : u \in Started' /\ SameAs(instance'[u], instance[u])

SameInstances == Started' = Started /\ Keeps

\* The record of a process that goes on.
LEMMA GoesOnIs ==
  ASSUME NEW i, InstanceOK(i), NEW x \in {"booting", "listening", "ended"},
         NEW j, j = [i EXCEPT !.at = x]
  PROVE  InstanceOK(j) /\ SameAs(j, i) /\ j.at = x
<1>1. /\ j \in Instances /\ j.at = x /\ j.kind = i.kind /\ j.part = i.part
      /\ j.version = i.version /\ j.config = i.config /\ j.port = i.port /\ j.env = i.env
  BY DEF Instances, InstanceOK
<1> QED
  BY <1>1 DEF SameAs, InstanceOK

\* One process goes on.
LEMMA GoesOn ==
  ASSUME InstancesOK, NEW u \in Started, NEW x \in {"booting", "listening", "ended"},
         ProcessIs(u, x)
  PROVE  /\ InstancesOK' /\ SameInstances
         /\ instance'[u].at = x
         /\ \A w \in Started : w # u => instance'[w] = instance[w]
<1> DEFINE i == [instance[u] EXCEPT !.at = x]
<1>1. u \in Uid /\ InstanceOK(instance[u])
  BY DEF InstancesOK, Started
<1>2. InstanceOK(i) /\ SameAs(i, instance[u]) /\ i.at = x
  BY <1>1, GoesOnIs
<1>3. instance' = [instance EXCEPT ![u] = i]
  BY DEF ProcessIs
<1>4. i # NoUid
  BY <1>2, BackendsAssumption DEF InstanceOK
<1> HIDE DEF i
<1>5. instance'[u] = i /\ \A w \in Uid : w # u => instance'[w] = instance[w]
  BY <1>1, <1>3 DEF InstancesOK
<1>6. Started' = Started
  BY <1>4, <1>5 DEF Started
<1>7. instance' = [w \in Uid |-> instance'[w]]
  BY <1>3 DEF InstancesOK
<1>8. InstancesOK'
  <2>1. \A w \in Started : InstanceOK(instance'[w])
    BY <1>2, <1>5 DEF InstancesOK, Started
  <2> QED
    BY <2>1, <1>6, <1>7 DEF InstancesOK, InstanceOK
<1>9. \A w \in Started : SameAs(instance'[w], instance[w])
  <2>1. \A w \in Started : SameAs(instance[w], instance[w])
    BY DEF SameAs
  <2> QED
    BY <2>1, <1>2, <1>5 DEF Started
<1> QED
  BY <1>2, <1>5, <1>6, <1>8, <1>9 DEF SameInstances, Keeps, Started

\* Processes are ended.
LEMMA KillIs ==
  ASSUME InstancesOK, NEW us \in SUBSET Started, Kill(us)
  PROVE  /\ InstancesOK' /\ SameInstances
         /\ \A w \in us : instance'[w].at = "ended"
         /\ \A w \in Started \ us : instance'[w] = instance[w]
<1>1. ASSUME NEW w \in us
      PROVE  InstanceOK(instance'[w]) /\ instance'[w].at = "ended" /\ SameAs(instance'[w], instance[w])
  <2>1. w \in Uid /\ InstanceOK(instance[w])
    BY DEF InstancesOK, Started
  <2> DEFINE i == [instance[w] EXCEPT !.at = "ended"]
  <2>2. instance'[w] = i
    BY <2>1 DEF Kill
  <2> HIDE DEF Kill
  <2>3. InstanceOK(i) /\ SameAs(i, instance[w]) /\ i.at = "ended"
    BY <2>1, GoesOnIs
  <2> HIDE DEF i
  <2> QED
    BY <2>2, <2>3
<1>2. \A w \in Uid \ us : instance'[w] = instance[w]
  BY DEF Kill
<1>3. instance' = [w \in Uid |-> instance'[w]]
  BY DEF Kill
<1> HIDE DEF Kill
<1>4. \A w \in us : instance'[w] # NoUid /\ w \in Uid /\ instance[w] # NoUid
  BY <1>1, BackendsAssumption DEF Started, InstanceOK
<1>5. Started' = Started
  BY <1>2, <1>4 DEF Started
<1>6. InstancesOK'
  <2>1. \A w \in Started : InstanceOK(instance'[w])
    BY <1>1, <1>2 DEF InstancesOK, Started
  <2> QED
    BY <2>1, <1>3, <1>5 DEF InstancesOK, InstanceOK
<1>7. \A w \in Started : w \in Uid
  BY DEF Started
<1>8. \A w \in Started : SameAs(instance'[w], instance[w])
  <2>1. \A w \in Started : SameAs(instance[w], instance[w])
    BY DEF SameAs
  <2> QED
    BY <2>1, <1>1, <1>2, <1>7
<1> QED
  BY <1>1, <1>2, <1>5, <1>6, <1>7, <1>8 DEF SameInstances, Keeps

\* What terminate ends was started.
LEMMA KilledStarted ==
  ASSUME InstancesOK, NEW u \in Started
  PROVE  Killed(u) \subseteq Started
<1>1. instance[u].kind \in {"host", "container", "dev", "user"}
  BY DEF InstancesOK, InstanceOK, Instances
<1> QED
  BY <1>1 DEF Killed, Listening

\* An instance gets a new uid.
LEMMA StartIs ==
  ASSUME InstancesOK, Started # Uid, NEW i, InstanceOK(i),
         instance' = [instance EXCEPT ![Fresh] = i]
  PROVE  /\ Fresh \in Uid /\ Fresh \notin Started
         /\ InstancesOK' /\ Started' = Started \cup {Fresh}
         /\ instance'[Fresh] = i
         /\ Keeps /\ \A w \in Started : instance'[w] = instance[w]
<1>1. Fresh \in Uid /\ Fresh \notin Started
  BY DEF Fresh, Started
<1>2. i # NoUid
  BY BackendsAssumption DEF InstanceOK
<1> HIDE DEF Fresh
<1>3. instance'[Fresh] = i /\ \A w \in Uid : w # Fresh => instance'[w] = instance[w]
  BY <1>1 DEF InstancesOK
<1>4. Started' = Started \cup {Fresh}
  BY <1>1, <1>2, <1>3 DEF Started
<1>5. instance' = [w \in Uid |-> instance'[w]]
  BY DEF InstancesOK
<1>6. InstancesOK'
  <2>1. \A w \in Started' : InstanceOK(instance'[w])
    BY <1>1, <1>3, <1>4 DEF InstancesOK, Started
  <2> QED
    BY <2>1, <1>5 DEF InstancesOK, InstanceOK
<1>7. \A w \in Started : instance'[w] = instance[w]
  BY <1>1, <1>3 DEF Started
<1>8. Keeps
  BY <1>4, <1>7 DEF Keeps, SameAs
<1> QED
  BY <1>1, <1>3, <1>4, <1>6, <1>7, <1>8

\* A request takes a step.
LEMMA BecomesIs ==
  ASSUME RequestsOK, NEW r \in Request, NEW q, ReqOK(q), Becomes(r, q)
  PROVE  /\ RequestsOK' /\ req'[r] = q
         /\ \A s \in Request : s # r => req'[s] = req[s]
<1>1. req' = [req EXCEPT ![r] = q]
  BY DEF Becomes
<1>2. req'[r] = q /\ \A s \in Request : s # r => req'[s] = req[s]
  BY <1>1 DEF RequestsOK
<1>3. req' = [s \in Request |-> req'[s]]
  BY <1>1 DEF RequestsOK
<1> QED
  BY <1>2, <1>3 DEF RequestsOK
\* query_latest finds nothing when no proxy matches, and else a latest one that does.
LEMMA LatestIs ==
  ASSUME TypeInv, NEW e \in Env, NEW part, NEW query
  PROVE  LET m == Matches(e, part, query)
             u == Latest(e, part, query)
         IN IF m = {} THEN u = NoUid
            ELSE /\ u \in m
                 /\ \A w \in m : instance[w].version <= instance[u].version
<1> DEFINE m == Matches(e, part, query)
           newest == {u \in m : \A w \in m : instance[w].version <= instance[u].version}
           ks == {k \in DOMAIN store[e] : store[e][k] \in newest}
<1>1. CASE m = {}
  BY <1>1 DEF Latest
<1>2. CASE m # {}
  <2> DEFINE V == {instance[w].version : w \in m}
  <2>1. m \subseteq Uids(e) /\ m \subseteq Started
    BY DEF Matches, TypeInv, UidsOK
  <2>2. \A w \in m : instance[w].version \in Version
    BY <2>1 DEF TypeInv, InstancesOK, InstanceOK, Instances
  <2> HIDE DEF m
  <2>3. V # {} /\ V \in SUBSET Version /\ V \in SUBSET Nat
    BY <1>2, <2>2, BackendsAssumption
  <2>4. IsFiniteSet(V)
    BY <2>3, BackendsAssumption, FS_Subset
  <2>5. Max(V) \in V /\ \A v \in V : v <= Max(V)
    <3> HIDE DEF V
    <3> QED
      BY <2>3, <2>4, MaxIn
  <2>6. newest # {}
    <3>1. PICK u \in m : instance[u].version = Max(V)
      BY <2>5
    <3>2. \A w \in m : instance[w].version <= instance[u].version
      BY <2>5, <3>1
    <3> QED
      BY <3>2
  <2>7. newest \subseteq m
    OBVIOUS
  <2> HIDE DEF newest
  <2>8. ks # {}
    BY <2>1, <2>6, <2>7 DEF Uids, Range
  <2>9. ks \in SUBSET Nat
    <3>1. DOMAIN store[e] = 1..Len(store[e]) /\ Len(store[e]) \in Nat
      BY LenProperties DEF TypeInv, StoreOK
    <3> QED
      BY <3>1
  <2>10. Min(ks) \in ks
    <3> HIDE DEF ks
    <3> QED
      BY <2>8, <2>9, MinIn
  <2>11. Latest(e, part, query) = store[e][Min(ks)]
    BY <1>2 DEF Latest, m, newest
  <2>12. Latest(e, part, query) \in newest
    BY <2>10, <2>11
  <2> QED
    BY <1>2, <2>7, <2>12 DEF newest, m
<1> QED
  BY <1>1, <1>2

\* What ensure_running makes of the answer of query_latest: the request ends, or goes
\* on with the package, or with the end of an instance that is a latest one.
Queried(q, new) ==
  LET m == Matches(new.env, new.part, new.query)
  IN \/ q = Idle
     \/ q = [new EXCEPT !.at = "package"] /\ m = {}
     \/ \E u \in m : /\ q = [new EXCEPT !.at = "terminate", !.uid = u]
                     /\ \A w \in m : instance[w].version <= instance[u].version

\* The query of a request, and the record it goes on with.
LEMMA QueryIs ==
  ASSUME TypeInv, NEW r \in Request, NEW new \in Requests, new.query # {}, new.op = "ensure",
         Query(r, new)
  PROVE  \E q : ReqOK(q) /\ Becomes(r, q) /\ Queried(q, new)
<1> DEFINE m == Matches(new.env, new.part, new.query)
           u == Latest(new.env, new.part, new.query)
           p == [new EXCEPT !.at = "package"]
           t == [new EXCEPT !.at = "terminate", !.uid = u]
<1>1. new.env \in Env
  BY DEF Requests
<1>2. IF m = {} THEN u = NoUid
      ELSE u \in m /\ \A w \in m : instance[w].version <= instance[u].version
  BY <1>1, LatestIs
<1>3. m \subseteq Uid
  BY <1>1 DEF Matches, TypeInv, UidsOK, Started
<1>4. Becomes(r, p) \/ Becomes(r, Idle) \/ (Becomes(r, t) /\ u # NoUid)
  BY DEF Query, Finish
<1>5. u = NoUid => Becomes(r, p)
  BY DEF Query
<1>6. u # NoUid => Becomes(r, t) \/ Becomes(r, Idle)
  BY DEF Query, Finish
<1>7. p \in Requests /\ p.query = new.query /\ p.at = "package" /\ p.op = "ensure"
  BY DEF Requests
<1>8. ReqOK(p)
  <2> HIDE DEF p
  <2> QED
    BY <1>7 DEF ReqOK
<1>9. CASE m = {}
  BY <1>2, <1>5, <1>8, <1>9 DEF Queried
<1>10. CASE m # {}
  <2>1. u \in m /\ u \in Uid /\ u # NoUid
    BY <1>2, <1>3, <1>10, BackendsAssumption
  <2>2. /\ t \in Requests /\ t.query = new.query /\ t.at = "terminate" /\ t.uid \in Uid
        /\ t.op = "ensure"
    <3> HIDE DEF u
    <3> QED
      BY <2>1 DEF Requests
  <2>3. ReqOK(t)
    <3> HIDE DEF t
    <3> QED
      BY <2>2 DEF ReqOK
  <2>4. CASE Becomes(r, t)
    <3>1. /\ \A w \in m : instance[w].version <= instance[u].version
          /\ u \in Matches(new.env, new.part, new.query)
      BY <2>1, <1>2, <1>10
    <3> HIDE DEF u, m
    <3>2. Queried(t, new)
      BY <3>1, Zenon DEF Queried, m
    <3> QED
      BY <2>3, <2>4, <3>2
  <2>5. CASE Becomes(r, Idle)
    <3>1. Queried(Idle, new)
      BY Zenon DEF Queried
    <3> QED
      BY <2>5, <3>1, IdleOK
  <2> QED
    BY <1>6, <2>1, <2>4, <2>5
<1> QED
  BY <1>9, <1>10

-----------------------------------------------------------------------------
(* The type invariant is preserved                                           *)

Typed == InstancesOK /\ StoreOK /\ RequestsOK /\ UidsOK

\* How a request that waits goes on waiting: for the same instance, which has a process
\* once it was created.
KeepsWaiting ==
  \A r \in Request : req'[r].at \in Waiting =>
    /\ Waits(r) /\ req'[r].uid = req[r].uid /\ req'[r].env = req[r].env
    /\ req'[r].at = "ready" => req[r].at = "ready" \/ instance'[req[r].uid].at # "named"

\* Requests that stay keep waiting.
LEMMA RequestsStay ==
  UNCHANGED req => KeepsWaiting
BY DEF KeepsWaiting, Waits

\* What registers processes that were created, but none that a request waits for, and
\* makes no request wait for another instance, keeps UidsOK.
LEMMA UidsAdded ==
  ASSUME TypeInv, Keeps, KeepsWaiting, NEW S,
         \A u \in S : u \in Started' /\ instance'[u].at # "named",
         \A r \in Request : req'[r].at \in Waiting => req[r].uid \notin S,
         \A e \in Env : Uids(e)' \subseteq Uids(e) \cup S
  PROVE  UidsOK'
<1>1. ASSUME NEW e \in Env, NEW u \in Uids(e)' PROVE u \in Started' /\ instance'[u].at # "named"
  BY DEF TypeInv, UidsOK, Keeps, SameAs
<1>2. ASSUME NEW r \in Request, req'[r].at \in Waiting
      PROVE  /\ req'[r].uid \in Started'
             /\ instance'[req'[r].uid].kind \in {"host", "container"}
             /\ instance'[req'[r].uid].env = req'[r].env
             /\ req'[r].at = "ready" => instance'[req'[r].uid].at # "named"
             /\ \A e \in Env : req'[r].uid \notin Uids(e)'
             /\ \A s \in Request : req'[s].at \in Waiting /\ req'[s].uid = req'[r].uid => s = r
  <2>1. PICK u : u = req[r].uid /\ u = req'[r].uid
    BY <1>2 DEF KeepsWaiting
  <2>2. Waits(r) /\ WaitsWell(r)
    BY <1>2 DEF TypeInv, UidsOK, KeepsWaiting
  <2>3. /\ u \in Started /\ instance[u].kind \in {"host", "container"}
        /\ instance[u].env = req[r].env /\ (req[r].at = "ready" => instance[u].at # "named")
        /\ \A e \in Env : u \notin Uids(e)
        /\ \A s \in Request : Waits(s) /\ req[s].uid = u => s = r
    BY <2>1, <2>2 DEF WaitsWell
  <2>4. u \in Started' /\ SameAs(instance'[u], instance[u])
    BY <2>3 DEF Keeps
  <2>5. /\ instance'[u].kind \in {"host", "container"} /\ instance'[u].env = req'[r].env
        /\ req'[r].at = "ready" => instance'[u].at # "named"
    BY <1>2, <2>1, <2>3, <2>4 DEF SameAs, KeepsWaiting
  <2>6. \A e \in Env : u \notin Uids(e)'
    BY <1>2, <2>1, <2>3
  <2>7. \A s \in Request : req'[s].at \in Waiting /\ req'[s].uid = u => s = r
    BY <2>3 DEF KeepsWaiting
  <2> QED
    BY <2>1, <2>4, <2>5, <2>6, <2>7
<1> QED
  BY <1>1, <1>2 DEF UidsOK, Waits, WaitsWell

\* So does what registers nothing.
LEMMA UidsKept ==
  ASSUME TypeInv, Keeps, KeepsWaiting, \A e \in Env : Uids(e)' \subseteq Uids(e)
  PROVE  UidsOK'
<1>1. PICK S : S = {}
  OBVIOUS
<1>2. \A e \in Env : Uids(e)' \subseteq Uids(e) \cup S
  BY <1>1
<1> QED
  BY <1>1, <1>2, UidsAdded

\* A store and instances that stay.
LEMMA StoreStays ==
  ASSUME StoreOK, UNCHANGED store
  PROVE  StoreOK' /\ \A e \in Env : Uids(e)' = Uids(e)
BY DEF StoreOK, Uids

\* The instances, when nothing happens to them.
LEMMA InstancesStay ==
  ASSUME InstancesOK, UNCHANGED instance
  PROVE  InstancesOK' /\ SameInstances
BY DEF InstancesOK, SameInstances, Keeps, SameAs, Started

\* A request that stops waiting, or did not wait.
LEMMA BecomesKeeps ==
  ASSUME RequestsOK, NEW r \in Request, NEW q, ReqOK(q), q.at \notin Waiting, Becomes(r, q)
  PROVE  KeepsWaiting
<1>1. req'[r] = q /\ \A s \in Request : s # r => req'[s] = req[s]
  BY BecomesIs
<1> QED
  BY <1>1 DEF KeepsWaiting, Waits

\* A request goes on, without an instance to wait for.
LEMMA RequestStep ==
  ASSUME TypeInv, NEW r \in Request, NEW q, ReqOK(q), q.at \notin Waiting, Becomes(r, q),
         UNCHANGED <<instance, store>>
  PROVE  Typed'
<1>1. RequestsOK' /\ KeepsWaiting
  BY BecomesIs, BecomesKeeps DEF TypeInv
<1>2. StoreOK' /\ \A e \in Env : Uids(e)' = Uids(e)
  BY StoreStays DEF TypeInv
<1>3. InstancesOK' /\ Keeps
  BY InstancesStay DEF TypeInv, SameInstances
<1>4. UidsOK'
  BY <1>1, <1>2, <1>3, UidsKept
<1> QED
  BY <1>1, <1>2, <1>3, <1>4 DEF Typed

\* A request removes a proxy.
LEMMA TerminateStep ==
  ASSUME TypeInv, NEW r \in Request, NEW q, ReqOK(q), q.at \notin Waiting, Becomes(r, q),
         NEW e \in Env, NEW u \in Uids(e), Terminate(e, u)
  PROVE  /\ Typed' /\ SameInstances
         /\ Uids(e)' = Uids(e) \ {u}
         /\ \A f \in Env : f # e => Uids(f)' = Uids(f)
<1>1. RequestsOK' /\ KeepsWaiting
  BY BecomesIs, BecomesKeeps DEF TypeInv
<1>2. /\ StoreOK' /\ Uids(e)' = Uids(e) \ {u}
      /\ \A f \in Env : f # e => Uids(f)' = Uids(f)
  BY UnregisterIs DEF TypeInv, Terminate
<1>3. InstancesOK' /\ SameInstances
  <2>1. u \in Started
    BY DEF TypeInv, UidsOK
  <2> QED
    BY <2>1, KilledStarted, KillIs DEF TypeInv, Terminate
<1>4. UidsOK'
  <2>1. \A f \in Env : Uids(f)' \subseteq Uids(f)
    BY <1>2
  <2> QED
    BY <1>1, <1>3, <2>1, UidsKept DEF SameInstances
<1> QED
  BY <1>1, <1>2, <1>3, <1>4 DEF Typed

\* The process of an instance goes on.
LEMMA ProcessStep ==
  ASSUME TypeInv, NEW u \in Started, NEW x \in {"booting", "listening", "ended"},
         ProcessIs(u, x), UNCHANGED <<store, req>>
  PROVE  Typed'
<1>1. InstancesOK' /\ Keeps
  BY GoesOn DEF TypeInv, SameInstances
<1>2. StoreOK' /\ \A e \in Env : Uids(e)' = Uids(e)
  BY StoreStays DEF TypeInv
<1>3. UidsOK'
  BY <1>1, <1>2, UidsKept, RequestsStay
<1>4. RequestsOK'
  BY DEF TypeInv, RequestsOK
<1> QED
  BY <1>1, <1>2, <1>3, <1>4 DEF Typed

\* A run step names a server.
LEMMA NameStep ==
  ASSUME TypeInv, NEW i, InstanceOK(i), Started # Uid,
         instance' = [instance EXCEPT ![Fresh] = i], UNCHANGED <<store, req>>
  PROVE  Typed'
<1>1. InstancesOK' /\ Keeps
  BY StartIs DEF TypeInv
<1>2. StoreOK' /\ \A e \in Env : Uids(e)' = Uids(e)
  BY StoreStays DEF TypeInv
<1>3. UidsOK'
  BY <1>1, <1>2, UidsKept, RequestsStay
<1>4. RequestsOK'
  BY DEF TypeInv, RequestsOK
<1> QED
  BY <1>1, <1>2, <1>3, <1>4 DEF Typed

\* A server of a user is registered.
LEMMA RunStep ==
  ASSUME TypeInv, NEW i, InstanceOK(i), i.at # "named", Started # Uid,
         instance' = [instance EXCEPT ![Fresh] = i], Register(env, Fresh), UNCHANGED req
  PROVE  Typed'
<1>1. /\ Fresh \in Uid /\ Fresh \notin Started /\ instance'[Fresh] = i
      /\ InstancesOK' /\ Started' = Started \cup {Fresh} /\ Keeps
  BY StartIs DEF TypeInv
<1>2. PICK u \in Uid : u = Fresh
  BY <1>1
<1>3. env \in Env /\ u \notin Uids(env)
  BY <1>1, <1>2 DEF TypeInv, UidsOK
<1>4. PICK e \in Env : e = env
  BY <1>3
<1>5. /\ StoreOK' /\ Uids(e)' = Uids(e) \cup {u}
      /\ \A f \in Env : f # e => Uids(f)' = Uids(f)
  BY <1>2, <1>3, <1>4, RegisterIs DEF TypeInv
<1>6. RequestsOK'
  BY DEF TypeInv, RequestsOK
<1>7. UidsOK'
  <2>1. PICK S : S = {u}
    OBVIOUS
  <2>2. \A f \in Env : Uids(f)' \subseteq Uids(f) \cup S
    BY <1>5, <2>1
  <2>3. \A w \in S : w \in Started' /\ instance'[w].at # "named"
    BY <1>1, <1>2, <2>1
  <2>4. \A r \in Request : req'[r].at \in Waiting => req[r].uid \notin S
    BY <1>1, <1>2, <2>1 DEF TypeInv, UidsOK, Waits, WaitsWell
  <2> QED
    BY <1>1, <2>2, <2>3, <2>4, UidsAdded, RequestsStay
<1> QED
  BY <1>1, <1>5, <1>6, <1>7 DEF Typed

\* A server of a run step is registered when its process is created.
LEMMA ExecutedStep ==
  ASSUME TypeInv, NEW u \in Uid, Executed(u)
  PROVE  /\ Typed' /\ u \in Started /\ SameInstances /\ instance[u].part = DefaultPartition
         /\ \A w \in Started : w # u => instance'[w] = instance[w]
         /\ \A f \in Env : Uids(f)' = Uids(f) \cup (IF f = instance[u].env THEN {u} ELSE {})
<1>1. u \in Started /\ instance[u].kind = "dev" /\ instance[u].at = "named"
  BY DEF Executed
<1>2. InstanceOK(instance[u])
  BY <1>1 DEF TypeInv, InstancesOK
<1>3. instance[u].env \in Env /\ instance[u].part = DefaultPartition
  BY <1>1, <1>2 DEF InstanceOK, Instances, Env
<1>4. PICK e \in Env : e = instance[u].env
  BY <1>3
<1>5. /\ InstancesOK' /\ SameInstances /\ instance'[u].at = "booting"
      /\ \A w \in Started : w # u => instance'[w] = instance[w]
  <2>1. PICK x \in {"booting", "listening", "ended"} : x = "booting"
    OBVIOUS
  <2>2. ProcessIs(u, x)
    BY <2>1 DEF Executed
  <2> QED
    BY <1>1, <2>1, <2>2, GoesOn DEF TypeInv
<1>6. u \notin Uids(e)
  BY <1>1 DEF TypeInv, UidsOK
<1>7. /\ StoreOK' /\ Uids(e)' = Uids(e) \cup {u}
      /\ \A f \in Env : f # e => Uids(f)' = Uids(f)
  <2>1. Register(e, u)
    BY <1>4 DEF Executed
  <2> QED
    BY <1>6, <2>1, RegisterIs DEF TypeInv
<1>8. RequestsOK' /\ UNCHANGED req
  BY DEF TypeInv, RequestsOK, Executed
<1>9. UidsOK'
  <2>1. PICK S : S = {u}
    OBVIOUS
  <2>2. \A f \in Env : Uids(f)' \subseteq Uids(f) \cup S
    BY <1>7, <2>1
  <2>3. \A w \in S : w \in Started' /\ instance'[w].at # "named"
    BY <1>1, <1>5, <2>1 DEF SameInstances
  <2>4. \A r \in Request : req'[r].at \in Waiting => req[r].uid \notin S
    BY <1>1, <1>8, <2>1 DEF TypeInv, UidsOK, Waits, WaitsWell
  <2> QED
    BY <1>5, <1>8, <2>2, <2>3, <2>4, UidsAdded, RequestsStay DEF SameInstances
<1> QED
  BY <1>1, <1>3, <1>4, <1>5, <1>7, <1>8, <1>9 DEF Typed

\* A request names an instance, which it is going to start.
LEMMA ChooseStep ==
  ASSUME TypeInv, NEW r \in Request, NEW i, InstanceOK(i), i.kind \in {"host", "container"},
         Started # Uid, instance' = [instance EXCEPT ![Fresh] = i],
         NEW q, ReqOK(q), q.at = "spawn", q.uid = Fresh, q.env = i.env, Becomes(r, q),
         UNCHANGED store
  PROVE  Typed'
<1>1. /\ Fresh \in Uid /\ Fresh \notin Started /\ instance'[Fresh] = i
      /\ InstancesOK' /\ Started' = Started \cup {Fresh}
      /\ \A w \in Started : instance'[w] = instance[w]
  BY StartIs DEF TypeInv
<1>2. PICK u \in Uid : u = Fresh
  BY <1>1
<1>3. /\ RequestsOK' /\ req'[r] = q
      /\ \A s \in Request : s # r => req'[s] = req[s]
  BY BecomesIs DEF TypeInv
<1>4. StoreOK' /\ \A e \in Env : Uids(e)' = Uids(e)
  BY StoreStays DEF TypeInv
<1>5. UidsOK'
  <2>1. \A f \in Env : \A w \in Uids(f)' : w \in Started' /\ instance'[w].at # "named" /\ w # u
    BY <1>1, <1>2, <1>4 DEF TypeInv, UidsOK
  <2>2. ASSUME NEW s \in Request, s # r, req[s].at \in Waiting
        PROVE  /\ req[s].uid \in Started /\ req[s].uid # u
               /\ instance[req[s].uid].kind \in {"host", "container"}
               /\ instance[req[s].uid].env = req[s].env
               /\ req[s].at = "ready" => instance[req[s].uid].at # "named"
               /\ \A f \in Env : req[s].uid \notin Uids(f)
               /\ \A v \in Request : req[v].at \in Waiting /\ req[v].uid = req[s].uid => v = s
    BY <2>2, <1>1, <1>2 DEF TypeInv, UidsOK, Waits, WaitsWell
  <2>3. ASSUME NEW s \in Request, req'[s].at \in Waiting
        PROVE  /\ req'[s].uid \in Started'
               /\ instance'[req'[s].uid].kind \in {"host", "container"}
               /\ instance'[req'[s].uid].env = req'[s].env
               /\ req'[s].at = "ready" => instance'[req'[s].uid].at # "named"
               /\ \A f \in Env : req'[s].uid \notin Uids(f)'
               /\ \A v \in Request : req'[v].at \in Waiting /\ req'[v].uid = req'[s].uid => v = s
    <3>1. CASE s = r
      <4>1. req'[s].uid = u /\ req'[s].at = "spawn" /\ req'[s].env = i.env
        BY <1>2, <1>3, <3>1
      <4>2. \A v \in Request : v # r /\ req'[v].at \in Waiting => req'[v].uid # u
        BY <1>3, <2>2
      <4> QED
        BY <1>1, <1>2, <2>1, <3>1, <4>1, <4>2
    <3>2. CASE s # r
      <4>1. req'[s] = req[s] /\ req[s].at \in Waiting
        BY <1>3, <2>3, <3>2
      <4>2. req'[r].uid = u
        BY <1>2, <1>3
      <4>3. instance'[req[s].uid] = instance[req[s].uid]
        BY <1>1, <2>2, <3>2, <4>1
      <4> QED
        BY <1>1, <1>3, <1>4, <2>2, <3>2, <4>1, <4>2, <4>3
    <3> QED
      BY <3>1, <3>2
  <2> QED
    BY <2>1, <2>3 DEF UidsOK, Waits, WaitsWell
<1> QED
  BY <1>1, <1>3, <1>4, <1>5 DEF Typed

\* A request creates the process of its instance, or gives it up because it cannot.
GivesUp(r) ==
  At(r, "spawn") /\ ProcessIs(req[r].uid, "ended") /\ Finish(r) /\ UNCHANGED store

\* What becomes of the instance and of the request.
LEMMA SpawnIs ==
  ASSUME TypeInv, NEW r \in Request, Spawn(r) \/ GivesUp(r)
  PROVE  \E x, q :
           /\ x \in {"booting", "listening", "ended"} /\ ReqOK(q)
           /\ Waits(r) /\ req[r].uid \in Started /\ ProcessIs(req[r].uid, x)
           /\ Becomes(r, q) /\ UNCHANGED store
           /\ \/ /\ x = "booting" /\ q.at = "ready"
                 /\ q.uid = req[r].uid /\ q.env = req[r].env
              \/ x = "ended" /\ q = Idle
<1>1. /\ req[r].at = "spawn" /\ Waits(r) /\ ReqOK(req[r]) /\ req[r].uid \in Started
      /\ req[r].uid \in Uid /\ req[r] \in Requests /\ UNCHANGED store
  BY DEF Spawn, GivesUp, At, Waits, Waiting, TypeInv, RequestsOK, ReqOK, UidsOK, WaitsWell
<1>2. CASE Spawn(r)
  <2> DEFINE q == [req[r] EXCEPT !.at = "ready"]
  <2>1. q \in Requests /\ q.at = "ready" /\ q.uid = req[r].uid /\ q.env = req[r].env
    BY <1>1 DEF Requests
  <2>2. Becomes(r, q) /\ ProcessIs(req[r].uid, "booting")
    BY <1>2 DEF Spawn, Goto
  <2> HIDE DEF q
  <2>3. ReqOK(q)
    BY <1>1, <2>1 DEF ReqOK
  <2>4. PICK x : x = "booting"
    OBVIOUS
  <2>5. x \in {"booting", "listening", "ended"} /\ ProcessIs(req[r].uid, x)
    BY <2>2, <2>4
  <2> QED
    BY <1>1, <2>1, <2>2, <2>3, <2>4, <2>5
<1>3. CASE GivesUp(r)
  <2>1. PICK x : x = "ended"
    OBVIOUS
  <2>2. x \in {"booting", "listening", "ended"} /\ ProcessIs(req[r].uid, x) /\ Becomes(r, Idle)
    BY <1>3, <2>1 DEF GivesUp, Finish
  <2> QED
    BY <1>1, <2>1, <2>2, IdleOK
<1> QED
  BY <1>2, <1>3

\* The process is created, and the request waits for its answer; or it is given up.
LEMMA SpawnStep ==
  ASSUME TypeInv, NEW r \in Request, Spawn(r) \/ GivesUp(r)
  PROVE  Typed' /\ SameInstances
<1>1. PICK x, q :
        /\ x \in {"booting", "listening", "ended"} /\ ReqOK(q)
        /\ Waits(r) /\ req[r].uid \in Started /\ ProcessIs(req[r].uid, x)
        /\ Becomes(r, q) /\ UNCHANGED store
        /\ \/ q.at = "ready" /\ q.uid = req[r].uid /\ q.env = req[r].env
           \/ q = Idle
  BY SpawnIs
<1>2. PICK u \in Started : u = req[r].uid
  BY <1>1
<1>3. ProcessIs(u, x)
  BY <1>1, <1>2
<1>4. InstancesOK' /\ SameInstances /\ instance'[u].at = x
  BY <1>1, <1>3, GoesOn DEF TypeInv
<1>5. /\ RequestsOK' /\ req'[r] = q
      /\ \A s \in Request : s # r => req'[s] = req[s]
  BY <1>1, BecomesIs DEF TypeInv
<1>6. StoreOK' /\ \A e \in Env : Uids(e)' = Uids(e)
  BY <1>1, StoreStays DEF TypeInv
<1>7. KeepsWaiting
  <2>1. ASSUME NEW s \in Request, req'[s].at \in Waiting
        PROVE  /\ Waits(s) /\ req'[s].uid = req[s].uid /\ req'[s].env = req[s].env
               /\ req'[s].at = "ready" => req[s].at = "ready" \/ instance'[req[s].uid].at # "named"
    <3>1. CASE s = r
      <4>1. req'[s].uid = u /\ req'[s].env = req[s].env
        BY <1>1, <1>2, <1>5, <2>1, <3>1 DEF Idle, Waiting
      <4>2. instance'[u].at # "named"
        BY <1>1, <1>4
      <4> QED
        BY <1>1, <1>2, <3>1, <4>1, <4>2
    <3>2. CASE s # r
      BY <1>5, <2>1, <3>2 DEF Waits
    <3> QED
      BY <3>1, <3>2
  <2> QED
    BY <2>1 DEF KeepsWaiting
<1>8. UidsOK'
  BY <1>4, <1>6, <1>7, UidsKept DEF SameInstances
<1> QED
  BY <1>4, <1>5, <1>6, <1>8 DEF Typed

\* A request registers the instance it waited for.
LEMMA ReadyStep ==
  ASSUME TypeInv, NEW r \in Request, Ready(r)
  PROVE  /\ Typed' /\ req'[r] = Idle
         /\ \A s \in Request : s # r => req'[s] = req[s]
         /\ req[r].uid \in Started /\ req[r].env \in Env
         /\ instance[req[r].uid].env = req[r].env
         /\ \A f \in Env : Uids(f)' = Uids(f) \cup (IF f = req[r].env THEN {req[r].uid} ELSE {})
<1>1. /\ req[r].uid \in Started /\ req[r].uid \in Uid /\ req[r].env \in Env
      /\ instance[req[r].uid].at # "named" /\ instance[req[r].uid].env = req[r].env
      /\ \A f \in Env : req[r].uid \notin Uids(f)
      /\ \A s \in Request : Waits(s) /\ req[s].uid = req[r].uid => s = r
  BY DEF Ready, At, TypeInv, UidsOK, Waits, Waiting, WaitsWell, RequestsOK, ReqOK, Requests
<1>2. PICK u \in Uid, e \in Env : u = req[r].uid /\ e = req[r].env
  BY <1>1
<1>3. /\ StoreOK' /\ Uids(e)' = Uids(e) \cup {u}
      /\ \A f \in Env : f # e => Uids(f)' = Uids(f)
  BY <1>1, <1>2, RegisterIs DEF TypeInv, Ready
<1>4. /\ RequestsOK' /\ req'[r] = Idle
      /\ \A s \in Request : s # r => req'[s] = req[s]
  BY BecomesIs, IdleOK DEF TypeInv, Ready, Finish
<1>5. InstancesOK' /\ SameInstances /\ UNCHANGED instance
  BY InstancesStay DEF TypeInv, Ready
<1>6. UidsOK'
  <2>1. PICK S : S = {u}
    OBVIOUS
  <2>2. \A f \in Env : Uids(f)' \subseteq Uids(f) \cup S
    BY <1>3, <2>1
  <2>3. \A w \in S : w \in Started' /\ instance'[w].at # "named"
    BY <1>1, <1>2, <1>5, <2>1 DEF SameInstances
  <2>4. ASSUME NEW s \in Request, req'[s].at \in Waiting PROVE req[s].uid \notin S
    <3>1. s # r /\ Waits(s)
      BY <1>4, <2>4 DEF Idle, Waiting, Waits
    <3> QED
      BY <1>1, <1>2, <2>1, <3>1
  <2>5. KeepsWaiting
    BY <1>4 DEF KeepsWaiting, Waits, Waiting, Idle
  <2> QED
    BY <1>5, <2>2, <2>3, <2>4, <2>5, UidsAdded DEF SameInstances
<1> QED
  BY <1>1, <1>2, <1>3, <1>4, <1>5, <1>6 DEF Typed

\* A request that begins or goes on without touching the store or the instances,
\* and becomes q.
Moves(r, q) ==
  /\ ReqOK(q) /\ q.at \notin Waiting /\ Becomes(r, q)
  /\ UNCHANGED <<instance, store>>

\* The steps of a request that end it.
LEMMA FinishMoves ==
  ASSUME NEW r \in Request, Finish(r), UNCHANGED <<instance, store>>
  PROVE  Moves(r, Idle)
<1>1. ReqOK(Idle) /\ Idle.at \notin Waiting
  BY IdleOK DEF Idle, Waiting
<1> QED
  BY <1>1 DEF Moves, Finish

\* A query, as a step of the request.
LEMMA QueryMoves ==
  ASSUME TypeInv, NEW r \in Request, NEW new \in Requests, new.query # {}, new.op = "ensure",
         Query(r, new), UNCHANGED <<instance, store>>
  PROVE  \E q : Moves(r, q) /\ Queried(q, new)
<1>1. PICK q : ReqOK(q) /\ Becomes(r, q) /\ Queried(q, new)
  BY QueryIs
<1>2. q.at \notin Waiting
  <2>1. [new EXCEPT !.at = "package"].at = "package"
    BY DEF Requests
  <2>2. \A u : [new EXCEPT !.at = "terminate", !.uid = u].at = "terminate"
    BY DEF Requests
  <2>3. Idle.at = "idle"
    BY DEF Idle
  <2>4. q.at \in {"idle", "package", "terminate"}
    BY <1>1, <2>1, <2>2, <2>3, Zenon DEF Queried
  <2> QED
    BY <2>4 DEF Waiting
<1> QED
  BY <1>1, <1>2 DEF Moves

\* What a request that starts a backend asks for.
Asked(part, query, config) ==
  [Idle EXCEPT !.op = "ensure", !.env = env, !.part = part, !.query = query, !.config = config]

\* The fields of what is asked for.
LEMMA AskedIs ==
  ASSUME env \in Env, NEW part \in Partition, NEW query \in SUBSET Version,
         NEW c \in Config \cup {NoConfig}
  PROVE  LET q == Asked(part, query, c)
         IN /\ q \in Requests /\ q.op = "ensure" /\ q.env = env /\ q.part = part
            /\ q.query = query /\ q.config = c
<1> DEFINE q == Asked(part, query, c)
<1>1. /\ q.op = "ensure" /\ q.env = env /\ q.part = part
      /\ q.query = query /\ q.config = c
  BY DEF Asked, Idle
<1>2. q \in Requests
  BY IdleOK DEF Asked, ReqOK, Requests, OpNames
<1> QED
  BY <1>1, <1>2

\* dispatch, as a step of the request.
LEMMA EnsureMoves ==
  ASSUME TypeInv, NEW r \in Request, NEW part \in Partition, NEW query \in (SUBSET Version) \ {{}},
         NEW c \in Config \cup {NoConfig}, Ensure(r, part, query, c)
  PROVE  \E q : Moves(r, q) /\ Queried(q, Asked(part, query, c))
<1> DEFINE new == Asked(part, query, c)
<1>1. new \in Requests /\ new.query # {} /\ new.op = "ensure"
  BY AskedIs DEF TypeInv
<1>2. Query(r, new) /\ UNCHANGED <<instance, store>>
  BY DEF Ensure, Asked
<1> HIDE DEF new
<1> QED
  BY <1>1, <1>2, QueryMoves DEF new

\* install_graph: the request begins with an installation.
LEMMA InstallGraphMoves ==
  ASSUME TypeInv, NEW r \in Request, NEW part \in Partition, NEW v \in Version,
         NEW config \in Config, InstallGraph(r, part, v, config)
  PROVE  \E q : Moves(r, q) /\ q.at = "install" /\ q.op = "graph" /\ q.env = env
<1> DEFINE q == [Idle EXCEPT !.op = "graph", !.at = "install", !.env = env,
                             !.part = part, !.query = {v}, !.config = config,
                             !.version = v]
<1>1. /\ q \in Requests /\ q.op = "graph" /\ q.at = "install" /\ q.query = {v}
      /\ q.config = config /\ q.version = v /\ q.env = env
  <2>1. env \in Env /\ v \in Versions /\ {v} \in SUBSET Version /\ Idle \in Requests
    BY IdleOK DEF TypeInv, Versions, ReqOK
  <2> QED
    BY <2>1 DEF Requests, OpNames
<1>2. Becomes(r, q) /\ UNCHANGED <<instance, store>>
  BY DEF InstallGraph
<1> HIDE DEF q
<1> QED
  BY <1>1, <1>2 DEF Moves, ReqOK, Waiting

\* The latest version of a query, and the configuration to start it with.
LEMMA PackageInfoMoves ==
  ASSUME TypeInv, NEW r \in Request, PackageInfo(r)
  PROVE  \E q : /\ Moves(r, q) /\ q.at \in {"install", "port"}
                /\ q.op = req[r].op /\ q.env = req[r].env /\ q.part = req[r].part
                /\ q.version = Max(req[r].query)
<1> DEFINE v == Max(req[r].query)
           c == IF req[r].config = NoConfig THEN Default ELSE req[r].config
           a == IF <<v, c>> \in manifest THEN "port" ELSE "install"
           q == [req[r] EXCEPT !.version = v, !.config = c, !.query = {}, !.at = a]
<1>1. /\ req[r] \in Requests /\ req[r].query # {} /\ req[r].query \in SUBSET Version
      /\ req[r].op = "ensure"
      /\ req[r].config \in Config \cup {NoConfig}
  BY DEF PackageInfo, At, TypeInv, RequestsOK, ReqOK, Requests
<1>2. v \in Version
  <2>1. IsFiniteSet(req[r].query) /\ req[r].query \in SUBSET Nat
    BY <1>1, BackendsAssumption, FS_Subset
  <2> QED
    BY <1>1, <2>1, MaxIn
<1>3. c \in Config
  BY <1>1, BackendsAssumption
<1>4. a \in {"port", "install"} /\ Becomes(r, q) /\ UNCHANGED <<instance, store>>
  BY DEF PackageInfo
<1> HIDE DEF v, c, a
<1>5. /\ q \in Requests /\ q.op = req[r].op /\ q.env = req[r].env /\ q.part = req[r].part
      /\ q.version = v /\ q.at = a /\ q.config = c /\ q.query = {}
  BY <1>1, <1>2, <1>3, <1>4 DEF Requests, Versions
<1>6. q.op = "graph" => q.at # "install"
  BY <1>5, <1>1
<1> HIDE DEF q
<1> QED
  BY <1>2, <1>3, <1>4, <1>5, <1>6 DEF Moves, ReqOK, Waiting, v

\* What a request of a graph asks for once its backend is installed.
Installed(r) == [req[r] EXCEPT !.op = "ensure", !.version = 0]

\* An installation: the request starts the backend, or queries for it again.
LEMMA InstallMoves ==
  ASSUME TypeInv, NEW r \in Request, Install(r)
  PROVE  /\ manifest' \subseteq Version \X Config
         /\ \E q : /\ Moves(r, q)
                   /\ \/ req[r].op # "graph" /\ q = [req[r] EXCEPT !.at = "port"]
                      \/ /\ req[r].op = "graph" /\ Installed(r) \in Requests
                         /\ Queried(q, Installed(r))
<1>1. /\ ReqOK(req[r]) /\ req[r] \in Requests /\ req[r].at = "install"
      /\ req[r].version \in Version /\ req[r].config \in Config
  BY DEF Install, At, TypeInv, RequestsOK, ReqOK
<1>2. manifest' \subseteq Version \X Config
  BY <1>1 DEF Install, TypeInv
<1>3. CASE req[r].op = "graph"
  <2> DEFINE new == Installed(r)
  <2>1. new \in Requests /\ new.query = req[r].query /\ new.op = "ensure"
    BY <1>1 DEF Installed, Requests, OpNames, Versions
  <2>2. new.query # {}
    BY <1>1, <1>3, <2>1 DEF ReqOK
  <2>3. Query(r, new) /\ UNCHANGED <<instance, store>>
    BY <1>3 DEF Install, Installed
  <2> HIDE DEF new
  <2>4. \E q : Moves(r, q) /\ Queried(q, new)
    BY <2>1, <2>2, <2>3, QueryMoves
  <2> QED
    BY <1>2, <1>3, <2>1, <2>4 DEF new
<1>4. CASE req[r].op # "graph"
  <2> DEFINE q == [req[r] EXCEPT !.at = "port"]
  <2>1. /\ q \in Requests /\ q.at = "port" /\ q.version \in Version /\ q.config \in Config
    BY <1>1 DEF Requests
  <2>2. Becomes(r, q) /\ UNCHANGED <<instance, store>>
    BY <1>4 DEF Install, Goto
  <2>3. Moves(r, q)
    <3> HIDE DEF q
    <3> QED
      BY <2>1, <2>2 DEF Moves, ReqOK, Waiting
  <2> QED
    BY <1>2, <1>4, <2>3
<1> QED
  BY <1>3, <1>4

\* An instance that a request or a run step names.
LEMMA NewInstanceIs ==
  ASSUME NEW kind \in {"host", "container", "dev", "user"}, NEW part \in Partition,
         NEW v \in Version, NEW config \in Config, NEW p \in Port, NEW e \in Env
  PROVE  LET i == NewInstance(kind, part, v, config, p, e)
         IN /\ i \in Instances /\ i.at = "named" /\ i.kind = kind /\ i.part = part
            /\ i.version = v /\ i.config = config /\ i.port = p /\ i.env = e
BY DEF NewInstance, Instances, Env

\* The port of a new instance is free.
LEMMA FreePortIs ==
  FreePorts # {} => Min(FreePorts) \in FreePorts /\ Min(FreePorts) \in Port
<1> SUFFICES ASSUME FreePorts # {} PROVE Min(FreePorts) \in FreePorts
  BY DEF FreePorts
<1>1. FreePorts \in SUBSET Nat
  BY BackendsAssumption DEF FreePorts
<1> QED
  BY <1>1, MinIn

\* What a request is going to start, and how it goes on.
LEMMA ChoosePortIs ==
  ASSUME TypeInv, NEW r \in Request, ChoosePort(r)
  PROVE  \E i, q :
           /\ InstanceOK(i)
           /\ i.at = "named" /\ i.kind \in {"host", "container"}
           /\ i.part = req[r].part /\ i.version = req[r].version
           /\ i.env = req[r].env /\ i.port \in FreePorts
           /\ instance' = [instance EXCEPT ![Fresh] = i]
           /\ ReqOK(q) /\ q.at = "spawn" /\ q.uid = Fresh /\ q.env = req[r].env
           /\ Becomes(r, q)
<1>1. /\ req[r].part \in Partition /\ req[r].version \in Version /\ req[r].config \in Config
      /\ req[r].env \in Env
  BY DEF ChoosePort, At, TypeInv, RequestsOK, ReqOK, Requests
<1> DEFINE kind == IF req[r].version \in InContainer THEN "container" ELSE "host"
           i == NewInstance(kind, req[r].part, req[r].version, req[r].config, Min(FreePorts),
                            req[r].env)
           q == [Idle EXCEPT !.op = "ensure", !.at = "spawn", !.env = req[r].env,
                             !.uid = Fresh]
<1>2. Min(FreePorts) \in FreePorts /\ Min(FreePorts) \in Port
  BY FreePortIs DEF ChoosePort
<1>3. kind \in {"host", "container"} /\ kind \in {"host", "container", "dev", "user"}
  OBVIOUS
<1>4. instance' = [instance EXCEPT ![Fresh] = i] /\ Becomes(r, q)
  BY DEF ChoosePort
<1>5. Fresh \in Uid
  BY DEF ChoosePort, Fresh, Started
<1> HIDE DEF kind
<1>6. /\ i \in Instances /\ i.at = "named" /\ i.kind = kind /\ i.part = req[r].part
      /\ i.version = req[r].version /\ i.port = Min(FreePorts) /\ i.env = req[r].env
  BY <1>1, <1>2, <1>3, NewInstanceIs
<1> HIDE DEF i
<1>7. q \in Requests /\ q.at = "spawn" /\ q.uid = Fresh /\ q.env = req[r].env
  <2> HIDE DEF Fresh
  <2> QED
    BY <1>1, <1>5, IdleOK DEF ReqOK, Idle, Requests, OpNames
<1> HIDE DEF q
<1>8. ReqOK(q)
  BY <1>5, <1>7 DEF ReqOK
<1>9. InstanceOK(i)
  BY <1>3, <1>6 DEF InstanceOK
<1> QED
  BY <1>2, <1>3, <1>4, <1>6, <1>7, <1>8, <1>9

\* What a run step is going to start.
LEMMA DevelopIs ==
  ASSUME TypeInv, NEW v \in Version, Develop(v)
  PROVE  \E i : /\ InstanceOK(i) /\ i.at = "named" /\ i.kind = "dev" /\ i.env = env
                /\ i.port \in FreePorts /\ instance' = [instance EXCEPT ![Fresh] = i]
<1> DEFINE i == NewInstance("dev", DefaultPartition, v, Default, Min(FreePorts), env)
<1>1. Min(FreePorts) \in FreePorts /\ Min(FreePorts) \in Port
  BY FreePortIs DEF Develop
<1>2. DefaultPartition \in Partition /\ Default \in Config /\ env \in Env
  BY BackendsAssumption DEF TypeInv
<1>3. /\ i \in Instances /\ i.at = "named" /\ i.kind = "dev" /\ i.part = DefaultPartition
      /\ i.port = Min(FreePorts) /\ i.env = env
  BY <1>1, <1>2, NewInstanceIs
<1>4. instance' = [instance EXCEPT ![Fresh] = i]
  BY DEF Develop
<1> HIDE DEF i
<1> QED
  BY <1>1, <1>3, <1>4 DEF InstanceOK

\* The server of a user.
LEMMA ServeIs ==
  ASSUME TypeInv, NEW v \in Version, NEW p \in Port, Serve(v, p)
  PROVE  \E i : /\ InstanceOK(i) /\ i.at = "listening" /\ i.kind = "user"
                /\ i.part = DefaultPartition /\ i.env = env
                /\ i.port = p /\ instance' = [instance EXCEPT ![Fresh] = i]
<1> DEFINE n == NewInstance("user", DefaultPartition, v, Default, p, env)
           i == [n EXCEPT !.at = "listening"]
<1>1. DefaultPartition \in Partition /\ Default \in Config /\ env \in Env
  BY BackendsAssumption DEF TypeInv
<1>2. /\ n \in Instances /\ n.kind = "user" /\ n.part = DefaultPartition
      /\ n.port = p /\ n.env = env
  BY <1>1, NewInstanceIs
<1>3. instance' = [instance EXCEPT ![Fresh] = i]
  BY DEF Serve
<1> HIDE DEF n
<1>4. /\ i \in Instances /\ i.at = "listening" /\ i.kind = "user"
      /\ i.part = DefaultPartition /\ i.port = p /\ i.env = env
  BY <1>2 DEF Instances
<1> HIDE DEF i
<1> QED
  BY <1>3, <1>4 DEF InstanceOK

\* What a request that ends instances begins with.
LEMMA EndingMoves ==
  ASSUME TypeInv, NEW r \in Request, NEW op \in {"terminate", "uninstall"}, NEW v \in Versions,
         NEW us \in SUBSET Uid, Ending(r, op, v, us), UNCHANGED <<instance, store>>
  PROVE  \E q : Moves(r, q) /\ q.at = "killing" /\ q.env = env
<1> DEFINE q == [Idle EXCEPT !.op = op, !.at = "killing", !.env = env, !.version = v,
                             !.todo = us]
<1>1. q \in Requests /\ q.at = "killing" /\ q.env = env
  BY IdleOK DEF TypeInv, ReqOK, Idle, Requests, OpNames
<1>2. Becomes(r, q)
  BY DEF Ending
<1> HIDE DEF q
<1> QED
  BY <1>1, <1>2 DEF Moves, ReqOK, Waiting

\* One of its instances.
LEMMA TerminateOneIs ==
  ASSUME TypeInv, NEW r \in Request, NEW u \in Uid, TerminateOne(r, u)
  PROVE  \E q : /\ ReqOK(q) /\ q.at \in {"idle", "killing"} /\ Becomes(r, q)
                /\ req[r].at = "killing" /\ q.env \in {0, req[r].env}
                /\ \/ UNCHANGED <<instance, store>>
                   \/ \E e \in Env : u \in Uids(e) /\ Terminate(e, u)
<1> DEFINE gone == u \notin Uids(req[r].env)
           todo == req[r].todo \ {u}
           q == [req[r] EXCEPT !.todo = todo, !.failed = @ \/ gone]
<1>1. req[r] \in Requests /\ req[r].env \in Env /\ req[r].at = "killing"
  BY DEF TerminateOne, At, TypeInv, RequestsOK, ReqOK, Requests
<1>2. \/ UNCHANGED <<instance, store>>
      \/ \E e \in Env : u \in Uids(e) /\ Terminate(e, u)
  BY <1>1 DEF TerminateOne
<1>3. Becomes(r, q) \/ Becomes(r, Idle)
  BY DEF TerminateOne, Finish
<1>4. ReqOK(q) /\ q.at = "killing" /\ q.env = req[r].env
  <2> DEFINE f == (req[r].failed \/ gone)
  <2>1. f \in BOOLEAN /\ todo \in SUBSET Uid
    BY <1>1 DEF Requests
  <2>2. q = [req[r] EXCEPT !.todo = todo, !.failed = f]
    OBVIOUS
  <2> HIDE DEF f, q, todo
  <2>3. q \in Requests /\ q.at = "killing" /\ q.env = req[r].env
    BY <1>1, <2>1, <2>2 DEF Requests
  <2> QED
    BY <2>3 DEF ReqOK
<1> HIDE DEF q
<1>5. ReqOK(Idle) /\ Idle.at = "idle" /\ Idle.env = 0
  BY IdleOK DEF Idle
<1> QED
  BY <1>1, <1>2, <1>3, <1>4, <1>5

\* The end of an instance with another configuration.
LEMMA TerminateMismatchIs ==
  ASSUME TypeInv, NEW r \in Request, TerminateMismatch(r)
  PROVE  \/ Finish(r) /\ UNCHANGED <<instance, store>>
         \/ \E e, u, q :
              /\ e \in Env /\ u \in Uid
              /\ u \in Uids(e) /\ e = req[r].env /\ u = req[r].uid /\ req[r].at = "terminate"
              /\ q = [req[r] EXCEPT !.at = "package", !.uid = NoUid]
              /\ ReqOK(q) /\ q.at = "package" /\ Becomes(r, q)
              /\ Terminate(e, u)
<1> DEFINE e == req[r].env
           u == req[r].uid
           q == [req[r] EXCEPT !.at = "package", !.uid = NoUid]
<1>1. /\ req[r] \in Requests /\ req[r].at = "terminate" /\ e \in Env
      /\ req[r].query # {} /\ req[r].op = "ensure"
  BY DEF TerminateMismatch, At, TypeInv, RequestsOK, ReqOK, Requests
<1>0. u \in Uid
  BY DEF TerminateMismatch, At, TypeInv, RequestsOK, ReqOK
<1>2. \/ u \in Uids(e) /\ Terminate(e, u) /\ Becomes(r, q)
      \/ Finish(r) /\ UNCHANGED <<instance, store>>
  BY DEF TerminateMismatch
<1>3. q \in Requests /\ q.at = "package" /\ q.query = req[r].query /\ q.op = "ensure"
  BY <1>1 DEF Requests
<1>4. ReqOK(q)
  <2> HIDE DEF q
  <2> QED
    BY <1>1, <1>3 DEF ReqOK
<1> QED
  BY <1>0, <1>1, <1>2, <1>3, <1>4

-----------------------------------------------------------------------------
(* Each action preserves the type invariant                                  *)

Bounds ==
  /\ manifest \subseteq Version \X Config
  /\ env \in Env
  /\ late \subseteq Uid /\ raced \subseteq Uid

\* The parts of the invariant, put together.
LEMMA TypeInvIs ==
  ASSUME Typed', Bounds' PROVE TypeInv'
BY DEF Typed, Bounds, TypeInv

\* A request that goes on keeps the types.
LEMMA MovesTyped ==
  ASSUME TypeInv, NEW r \in Request, NEW q, Moves(r, q)
  PROVE  Typed'
BY RequestStep DEF Moves

\* Every action does.
LEMMA TypeInvNext ==
  TypeInv /\ Next => TypeInv'
<1> SUFFICES ASSUME TypeInv, Next PROVE TypeInv'
  OBVIOUS
<1>1. ASSUME NEW r \in Request, TerminateMismatch(r) PROVE TypeInv'
  <2>1. Typed'
    <3>1. CASE Finish(r) /\ UNCHANGED <<instance, store>>
      BY <3>1, FinishMoves, MovesTyped
    <3>2. CASE ~ (Finish(r) /\ UNCHANGED <<instance, store>>)
      <4>1. PICK e, u, q :
               /\ e \in Env /\ u \in Uid
               /\ u \in Uids(e) /\ ReqOK(q) /\ q.at = "package" /\ Becomes(r, q)
               /\ Terminate(e, u)
        BY <1>1, <3>2, TerminateMismatchIs, Zenon
      <4> QED
        BY <4>1, TerminateStep DEF Waiting
    <3> QED
      BY <3>1, <3>2
  <2>2. Bounds'
    BY <1>1 DEF TerminateMismatch, Bounds, TypeInv
  <2> QED
    BY <2>1, <2>2, TypeInvIs
<1>2. ASSUME NEW r \in Request, PackageInfo(r) PROVE TypeInv'
  <2>1. Bounds'
    BY <1>2 DEF PackageInfo, Bounds, TypeInv
  <2> QED
    BY <1>2, <2>1, PackageInfoMoves, MovesTyped, TypeInvIs
<1>3. ASSUME NEW r \in Request, Install(r) PROVE TypeInv'
  <2>1. Typed' /\ manifest' \subseteq Version \X Config
    BY <1>3, InstallMoves, MovesTyped
  <2>2. Bounds'
    BY <1>3, <2>1 DEF Install, Bounds, TypeInv
  <2> QED
    BY <2>1, <2>2, TypeInvIs
<1>4. ASSUME NEW r \in Request, Fails(r) \/ Crashed(r) \/ TimesOut(r) \/ RemoveManifests(r)
      PROVE  TypeInv'
  <2>1. Typed'
    <3>1. CASE GivesUp(r)
      BY <3>1, SpawnStep
    <3>2. CASE ~ GivesUp(r)
      <4>1. Finish(r) /\ UNCHANGED <<instance, store>>
        BY <1>4, <3>2 DEF Fails, GivesUp, Crashed, TimesOut, RemoveManifests
      <4> QED
        BY <4>1, FinishMoves, MovesTyped
    <3> QED
      BY <3>1, <3>2
  <2>2. manifest' \subseteq manifest /\ env' = env /\ raced' = raced
    BY <1>4 DEF Fails, Crashed, TimesOut, RemoveManifests
  <2>3. late' \subseteq Uid
    BY <1>4 DEF Fails, Crashed, TimesOut, RemoveManifests, TypeInv, RequestsOK, ReqOK, At
  <2>4. Bounds'
    BY <2>2, <2>3 DEF Bounds, TypeInv
  <2> QED
    BY <2>1, <2>4, TypeInvIs
<1>16. ASSUME NEW r \in Request, ChoosePort(r) PROVE TypeInv'
  <2>1. Bounds' /\ Started # Uid /\ UNCHANGED store
    BY <1>16 DEF ChoosePort, Bounds, TypeInv
  <2>2. PICK i, q :
           /\ InstanceOK(i) /\ i.kind \in {"host", "container"}
           /\ instance' = [instance EXCEPT ![Fresh] = i]
           /\ ReqOK(q) /\ q.at = "spawn" /\ q.uid = Fresh /\ q.env = i.env /\ Becomes(r, q)
    BY <1>16, ChoosePortIs
  <2> QED
    BY <2>1, <2>2, ChooseStep, TypeInvIs
<1>5. ASSUME NEW r \in Request, Spawn(r) PROVE TypeInv'
  <2>1. Bounds'
    BY <1>5 DEF Spawn, Bounds, TypeInv
  <2> QED
    BY <1>5, <2>1, SpawnStep, TypeInvIs
<1>6. ASSUME NEW r \in Request, Ready(r) PROVE TypeInv'
  <2>1. Bounds'
    BY <1>6 DEF Ready, Bounds, TypeInv
  <2> QED
    BY <1>6, <2>1, ReadyStep, TypeInvIs
<1>7. ASSUME NEW r \in Request, NEW u \in Uid, TerminateOne(r, u) PROVE TypeInv'
  <2>1. Bounds'
    BY <1>7 DEF TerminateOne, Bounds, TypeInv
  <2>2. PICK q : /\ ReqOK(q) /\ q.at \in {"idle", "killing"} /\ Becomes(r, q)
                 /\ \/ UNCHANGED <<instance, store>>
                    \/ \E e \in Env : u \in Uids(e) /\ Terminate(e, u)
    BY <1>7, TerminateOneIs
  <2>3. CASE UNCHANGED <<instance, store>>
    BY <2>1, <2>2, <2>3, RequestStep, TypeInvIs DEF Waiting
  <2>4. CASE \E e \in Env : u \in Uids(e) /\ Terminate(e, u)
    BY <2>1, <2>2, <2>4, TerminateStep, TypeInvIs DEF Waiting
  <2> QED
    BY <2>2, <2>3, <2>4
<1>8. ASSUME NEW r \in Request, NEW part \in Partition, NEW query \in (SUBSET Version) \ {{}},
             NEW c \in Config \cup {NoConfig}, Ensure(r, part, query, c)
      PROVE  TypeInv'
  <2>1. Bounds'
    BY <1>8 DEF Ensure, Bounds, TypeInv
  <2> QED
    BY <1>8, <2>1, EnsureMoves, MovesTyped, TypeInvIs
<1>9. ASSUME NEW r \in Request, NEW part \in Partition, NEW v \in Version, NEW config \in Config,
             InstallGraph(r, part, v, config)
      PROVE  TypeInv'
  <2>1. Bounds'
    BY <1>9 DEF InstallGraph, Bounds, TypeInv
  <2> QED
    BY <1>9, <2>1, InstallGraphMoves, MovesTyped, TypeInvIs
<1>10. ASSUME NEW r \in Request, NEW part \in Partition, NEW us \in SUBSET Uid,
              TerminateRequest(r, part, us)
       PROVE  TypeInv'
  <2>1. /\ Bounds' /\ Ending(r, "terminate", 0, us) /\ UNCHANGED <<instance, store>>
        /\ 0 \in Versions
    BY <1>10 DEF TerminateRequest, Bounds, TypeInv, Versions
  <2> QED
    BY <2>1, EndingMoves, MovesTyped, TypeInvIs
<1>11. ASSUME NEW r \in Request, NEW v \in Version, Uninstall(r, v) PROVE TypeInv'
  <2> DEFINE us == {u \in Uids(env) : instance[u].version = v}
  <2>1. /\ Bounds' /\ Ending(r, "uninstall", v, us) /\ UNCHANGED <<instance, store>>
        /\ v \in Versions
    BY <1>11 DEF Uninstall, Bounds, TypeInv, Versions
  <2>2. us \in SUBSET Uid
    BY DEF TypeInv, UidsOK, Started
  <2> HIDE DEF us
  <2> QED
    BY <2>1, <2>2, EndingMoves, MovesTyped, TypeInvIs
<1>12. ASSUME NEW v \in Version, Develop(v) PROVE TypeInv'
  <2>1. Bounds' /\ Started # Uid /\ UNCHANGED <<store, req>>
    BY <1>12 DEF Develop, Bounds, TypeInv
  <2>2. PICK i : InstanceOK(i) /\ instance' = [instance EXCEPT ![Fresh] = i]
    BY <1>12, DevelopIs
  <2> QED
    BY <2>1, <2>2, NameStep, TypeInvIs
<1>13. ASSUME NEW v \in Version, NEW p \in Port, Serve(v, p) PROVE TypeInv'
  <2>1. Bounds' /\ Started # Uid /\ UNCHANGED req /\ Register(env, Fresh)
    BY <1>13 DEF Serve, Bounds, TypeInv, On, Started
  <2>2. PICK i : /\ InstanceOK(i) /\ i.at = "listening"
                 /\ instance' = [instance EXCEPT ![Fresh] = i]
    BY <1>13, ServeIs
  <2> QED
    BY <2>1, <2>2, RunStep, TypeInvIs
<1>17. ASSUME NEW u \in Uid, Executed(u) PROVE TypeInv'
  <2>1. Bounds'
    BY <1>17 DEF Executed, Bounds, TypeInv
  <2> QED
    BY <1>17, <2>1, ExecutedStep, TypeInvIs
<1>14. ASSUME NEW u \in Uid, Listens(u) \/ Ends(u) PROVE TypeInv'
  <2>1. Bounds' /\ u \in Started /\ UNCHANGED <<store, req>>
    BY <1>14 DEF Listens, Ends, Bounds, TypeInv, On, Started
  <2>2. PICK x \in {"booting", "listening", "ended"} : ProcessIs(u, x)
    BY <1>14 DEF Listens, Ends
  <2> QED
    BY <2>1, <2>2, ProcessStep, TypeInvIs
<1>15. ASSUME Reload PROVE TypeInv'
  <2>1. env' \in Env
    BY <1>15, BackendsAssumption DEF Reload, TypeInv, Env
  <2>2. UNCHANGED <<instance, store, manifest, req, late, raced>>
    BY <1>15 DEF Reload
  <2>3. InstancesOK' /\ StoreOK' /\ RequestsOK' /\ Keeps
        /\ \A e \in Env : Uids(e)' = Uids(e)
    BY <2>2, StoreStays, InstancesStay DEF TypeInv, RequestsOK, SameInstances
  <2>4. UidsOK'
    BY <2>2, <2>3, UidsKept, RequestsStay
  <2> QED
    BY <2>1, <2>2, <2>3, <2>4 DEF TypeInv
<1> QED
  BY <1>1, <1>2, <1>3, <1>4, <1>5, <1>6, <1>7, <1>8, <1>9, <1>10, <1>11, <1>12, <1>13,
     <1>14, <1>15, <1>16, <1>17 DEF Next, Continues

\* The stuttering steps.
LEMMA TypeInvStutters ==
  TypeInv /\ UNCHANGED vars => TypeInv'
<1> SUFFICES ASSUME TypeInv, UNCHANGED vars PROVE TypeInv'
  OBVIOUS
<1>1. UNCHANGED <<instance, store, manifest, env, req, late, raced>>
  BY DEF vars
<1>2. /\ InstancesOK' /\ StoreOK' /\ RequestsOK' /\ Keeps
      /\ \A e \in Env : Uids(e)' = Uids(e)
  BY <1>1, StoreStays, InstancesStay DEF TypeInv, RequestsOK, SameInstances
<1>3. UidsOK'
  BY <1>1, <1>2, UidsKept, RequestsStay
<1> QED
  BY <1>1, <1>2, <1>3 DEF TypeInv

\* The invariant of all behaviors.
LEMMA TypeInvAlways == Spec => []TypeInv
<1>1. TypeInv /\ [Next]_vars => TypeInv'
  BY TypeInvNext, TypeInvStutters
<1> QED
  BY <1>1, InitTypeInv, PTL DEF Spec

\* Every variable keeps its type: an environment has one proxy for each uid, though a
\* request registers an instance long after it has started it.
THEOREM TypeCorrect == Spec => []TypeOK
<1> QED
  BY TypeInvAlways, TypeInvIsTyped, PTL

-----------------------------------------------------------------------------
(* The kinds of steps, as the properties tell them apart                     *)

OneStarter == \A r, s \in Starter : r = s

\* The steps of a request that starts a backend.
StartSteps == {"terminate", "package", "install", "port", "spawn", "ready"}

StartersOnly == \A r \in Request : req[r].at \in StartSteps => r \in Starter

Quiet == UNCHANGED <<instance, store, req>>

\* How a request that starts a backend goes on to q.
Plans(r, q) ==
  \/ q.at \notin StartSteps
  \/ \E new \in Requests : new.query # {} /\ Queried(q, new)
  \/ q.at = "install" /\ q.op = "graph"
  \/ /\ req[r].at = "package" /\ q.at \in {"install", "port"}
     /\ q.env = req[r].env /\ q.part = req[r].part /\ q.version = Max(req[r].query)
  \/ /\ req[r].at = "install" /\ req[r].op # "graph"
     /\ q = [req[r] EXCEPT !.at = "port"]

Move ==
  \E r, q :
    /\ r \in Request
    /\ Moves(r, q) /\ Plans(r, q) /\ q.env \in {0, req[r].env, env}
    /\ q.at \in StartSteps => r \in Starter \/ req[r].at \in StartSteps
    /\ Waits(r) => req[r].uid \in late' \/ instance[req[r].uid].at = "ended"

Removal ==
  \E r, e, u, q :
    /\ r \in Request /\ e \in Env /\ u \in Uid
    /\ ReqOK(q) /\ q.at \notin Waiting /\ Becomes(r, q) /\ ~ Waits(r)
    /\ q.env \in {0, req[r].env, env}
    /\ q.at \in StartSteps => req[r].at \in StartSteps
    /\ u \in Uids(e) /\ Terminate(e, u)
    /\ \/ q.at \notin StartSteps
       \/ /\ req[r].at = "terminate" /\ e = req[r].env /\ u = req[r].uid
          /\ q = [req[r] EXCEPT !.at = "package", !.uid = NoUid]

\* A user has started a server.
RunStart ==
  \E i :
    /\ InstanceOK(i) /\ i.at = "listening" /\ i.kind = "user" /\ i.part = DefaultPartition
    /\ i.env = env /\ i.port \in FreePorts
    /\ Started # Uid /\ instance' = [instance EXCEPT ![Fresh] = i]
    /\ Register(env, Fresh) /\ UNCHANGED req
    /\ raced' = raced \cup On(i.port)

\* A run step is going to start one.
Names ==
  \E i :
    /\ InstanceOK(i) /\ i.at = "named" /\ i.kind = "dev"
    /\ i.env = env /\ i.port \in FreePorts
    /\ Started # Uid /\ instance' = [instance EXCEPT ![Fresh] = i]
    /\ UNCHANGED <<store, req>>

\* The histories grow, and only a reload changes the environment.
Grows == /\ late \subseteq late' /\ raced \subseteq raced'
         /\ env' = env \/ (env' = env + 1 /\ Quiet)

Same == late \subseteq late' /\ raced \subseteq raced' /\ env' = env

\* What a query keeps of the request.
LEMMA QueriedEnv ==
  ASSUME NEW q, NEW new \in Requests, Queried(q, new)
  PROVE  q.env \in {0, new.env}
<1>1. [new EXCEPT !.at = "package"].env = new.env
  BY DEF Requests
<1>2. \A u : [new EXCEPT !.at = "terminate", !.uid = u].env = new.env
  BY DEF Requests
<1>3. Idle.env = 0
  BY DEF Idle
<1> QED
  BY <1>1, <1>2, <1>3, Zenon DEF Queried

\* A request that ends.
LEMMA FinishIsMove ==
  ASSUME NEW r \in Request, Finish(r), UNCHANGED <<instance, store>>,
         Waits(r) => req[r].uid \in late' \/ instance[req[r].uid].at = "ended"
  PROVE  Move
<1>1. Moves(r, Idle) /\ Idle.at \notin StartSteps /\ Idle.env = 0
  BY FinishMoves DEF Idle, StartSteps
<1>2. PICK q : q = Idle
  OBVIOUS
<1>3. Moves(r, q) /\ q.at \notin StartSteps /\ q.env = 0
  BY <1>1, <1>2
<1> QED
  BY <1>3 DEF Move, Plans

\* What a removal is made of.
LEMMA RemovalIntro ==
  ASSUME NEW r \in Request, NEW e \in Env, NEW u \in Uid, NEW q,
         ReqOK(q) /\ q.at \notin Waiting /\ Becomes(r, q) /\ ~ Waits(r),
         q.env \in {0, req[r].env, env},
         q.at \in StartSteps => req[r].at \in StartSteps,
         u \in Uids(e) /\ Terminate(e, u),
         \/ q.at \notin StartSteps
         \/ /\ req[r].at = "terminate" /\ e = req[r].env /\ u = req[r].uid
            /\ q = [req[r] EXCEPT !.at = "package", !.uid = NoUid]
  PROVE  Removal
BY Zenon DEF Removal

\* Every action is of one of these kinds.
LEMMA StepKinds ==
  ASSUME TypeInv, Next
  PROVE  /\ Grows
         /\ \/ Quiet \/ Move \/ Removal \/ RunStart \/ Names
            \/ \E r \in Request : ChoosePort(r) \/ Spawn(r) \/ GivesUp(r) \/ Ready(r)
            \/ \E u \in Uid : Executed(u) \/ Listens(u) \/ Ends(u)
<1>1. ASSUME NEW r \in Request, TerminateMismatch(r)
      PROVE  Same /\ (Move \/ Removal)
  <2>1. Same /\ req[r].at = "terminate" /\ ~ Waits(r)
    BY <1>1 DEF TerminateMismatch, At, Same, Waits, Waiting
  <2>2. CASE Finish(r) /\ UNCHANGED <<instance, store>>
    BY <2>1, <2>2, FinishIsMove
  <2>3. CASE ~ (Finish(r) /\ UNCHANGED <<instance, store>>)
    <3>1. PICK e, u, q :
             /\ e \in Env /\ u \in Uid
             /\ u \in Uids(e) /\ ReqOK(q) /\ q.at = "package" /\ Becomes(r, q)
             /\ e = req[r].env /\ u = req[r].uid
             /\ q = [req[r] EXCEPT !.at = "package", !.uid = NoUid]
             /\ Terminate(e, u)
      BY <1>1, <2>3, TerminateMismatchIs, Zenon
    <3>2. q.env = req[r].env /\ q.at \notin Waiting /\ req[r].at \in StartSteps
      BY <2>1, <3>1 DEF TypeInv, RequestsOK, ReqOK, Requests, Waiting, StartSteps
    <3>3. Removal
      BY <2>1, <3>1, <3>2, RemovalIntro, Zenon
    <3> QED
      BY <2>1, <3>3
  <2> QED
    BY <2>2, <2>3
<1>2. ASSUME NEW r \in Request, PackageInfo(r) PROVE Same /\ Move
  <2>1. Same /\ req[r].at = "package" /\ req[r].at \in StartSteps /\ ~ Waits(r)
    BY <1>2 DEF PackageInfo, At, Same, StartSteps, Waits, Waiting
  <2>2. PICK q : Moves(r, q) /\ Plans(r, q) /\ q.env = req[r].env
    BY <1>2, <2>1, PackageInfoMoves DEF Plans
  <2> QED
    BY <2>1, <2>2 DEF Move
<1>3. ASSUME NEW r \in Request, Install(r) PROVE Same /\ Move
  <2>1. Same /\ req[r].at = "install" /\ req[r].at \in StartSteps /\ ~ Waits(r)
    BY <1>3 DEF Install, At, Same, StartSteps, Waits, Waiting
  <2>2. PICK q : Moves(r, q) /\ Plans(r, q) /\ q.env \in {0, req[r].env}
    <3>0. req[r] \in Requests
      BY DEF TypeInv, RequestsOK, ReqOK
    <3>1. PICK q : /\ Moves(r, q)
                   /\ \/ req[r].op # "graph" /\ q = [req[r] EXCEPT !.at = "port"]
                      \/ /\ req[r].op = "graph" /\ Installed(r) \in Requests
                         /\ Queried(q, Installed(r))
      BY <1>3, InstallMoves
    <3>2. CASE req[r].op # "graph"
      <4>1. q.env = req[r].env
        BY <3>0, <3>1, <3>2 DEF Requests
      <4> QED
        BY <2>1, <3>1, <3>2, <4>1 DEF Plans
    <3>3. CASE req[r].op = "graph"
      <4>1. /\ Installed(r).query = req[r].query /\ req[r].query # {}
            /\ Installed(r).env = req[r].env
        BY <2>1, <3>0, <3>3 DEF Installed, TypeInv, RequestsOK, ReqOK, Requests
      <4>2. PICK new \in Requests : new = Installed(r) /\ Queried(q, new) /\ new.query # {}
        BY <3>1, <3>3, <4>1
      <4>3. q.env \in {0, req[r].env}
        BY <4>1, <4>2, QueriedEnv
      <4> QED
        BY <3>1, <4>2, <4>3 DEF Plans
    <3> QED
      BY <3>2, <3>3
  <2> QED
    BY <2>1, <2>2 DEF Move
<1>4. ASSUME NEW r \in Request, Fails(r) \/ Crashed(r) \/ TimesOut(r) \/ RemoveManifests(r)
      PROVE  Same /\ (Move \/ GivesUp(r))
  <2>1. Same
    BY <1>4 DEF Fails, Crashed, TimesOut, RemoveManifests, Same
  <2>2. CASE ~ GivesUp(r)
    <3>1. Finish(r) /\ UNCHANGED <<instance, store>>
      BY <1>4, <2>2 DEF Fails, GivesUp, Crashed, TimesOut, RemoveManifests
    <3>2. Waits(r) => req[r].uid \in late' \/ instance[req[r].uid].at = "ended"
      <4>1. CASE Fails(r) \/ RemoveManifests(r)
        BY <2>2, <4>1 DEF Fails, GivesUp, RemoveManifests, At, Waits, Waiting
      <4>2. CASE Crashed(r)
        BY <4>2 DEF Crashed
      <4>3. CASE TimesOut(r)
        BY <4>3 DEF TimesOut
      <4> QED
        BY <1>4, <4>1, <4>2, <4>3
    <3> QED
      BY <2>1, <3>1, <3>2, FinishIsMove
  <2> QED
    BY <2>1, <2>2
<1>5. ASSUME NEW r \in Request, NEW u \in Uid, TerminateOne(r, u)
      PROVE  Same /\ (Move \/ Removal)
  <2>1. PICK q : /\ ReqOK(q) /\ q.at \in {"idle", "killing"} /\ Becomes(r, q)
                 /\ req[r].at = "killing" /\ q.env \in {0, req[r].env}
                 /\ \/ UNCHANGED <<instance, store>>
                    \/ \E e \in Env : u \in Uids(e) /\ Terminate(e, u)
    BY <1>5, TerminateOneIs
  <2>2. Same
    BY <1>5 DEF TerminateOne, Same
  <2>3. q.at \notin Waiting /\ q.at \notin StartSteps /\ ~ Waits(r)
    BY <2>1 DEF StartSteps, Waiting, Waits
  <2>4. CASE UNCHANGED <<instance, store>>
    BY <2>1, <2>2, <2>3, <2>4 DEF Move, Moves, Plans
  <2>5. CASE \E e \in Env : u \in Uids(e) /\ Terminate(e, u)
    <3>1. PICK e \in Env : u \in Uids(e) /\ Terminate(e, u)
      BY <2>5
    <3>2. q.env \in {0, req[r].env, env}
      BY <2>1
    <3> QED
      BY <2>1, <2>2, <2>3, <3>1, <3>2, RemovalIntro, Zenon
  <2> QED
    BY <2>1, <2>4, <2>5
<1>6. ASSUME NEW r \in Request, NEW part \in Partition, NEW query \in (SUBSET Version) \ {{}},
             NEW c \in Config \cup {NoConfig}, Ensure(r, part, query, c)
      PROVE  Same /\ Move
  <2>1. Same /\ r \in Starter /\ ~ Waits(r)
    BY <1>6 DEF Ensure, Idle, Same, Waits, Waiting
  <2>2. PICK q : Moves(r, q) /\ Plans(r, q) /\ q.env \in {0, env}
    <3>1. PICK new : new = Asked(part, query, c)
      OBVIOUS
    <3>2. new \in Requests /\ new.query # {} /\ new.env = env
      BY <3>1, AskedIs DEF TypeInv
    <3>3. PICK q : Moves(r, q) /\ Queried(q, new)
      BY <1>6, <3>1, EnsureMoves
    <3>4. q.env \in {0, env}
      BY <3>2, <3>3, QueriedEnv
    <3> QED
      BY <3>2, <3>3, <3>4 DEF Plans
  <2> QED
    BY <2>1, <2>2 DEF Move
<1>7. ASSUME NEW r \in Request, NEW part \in Partition, NEW v \in Version, NEW config \in Config,
             InstallGraph(r, part, v, config)
      PROVE  Same /\ Move
  <2>1. Same /\ r \in Starter /\ ~ Waits(r)
    BY <1>7 DEF InstallGraph, Idle, Same, Waits, Waiting
  <2>2. PICK q : Moves(r, q) /\ Plans(r, q) /\ q.env = env
    BY <1>7, InstallGraphMoves DEF Plans
  <2> QED
    BY <2>1, <2>2 DEF Move
<1>8. ASSUME NEW r \in Request, NEW part \in Partition, NEW us \in SUBSET Uid,
             TerminateRequest(r, part, us)
      PROVE  Same /\ Move
  <2>1. /\ Ending(r, "terminate", 0, us) /\ UNCHANGED <<instance, store>> /\ 0 \in Versions
        /\ Same /\ ~ Waits(r)
    BY <1>8 DEF TerminateRequest, Versions, Idle, Same, Waits, Waiting
  <2>2. PICK q : Moves(r, q) /\ q.at = "killing" /\ q.env = env
    BY <2>1, EndingMoves
  <2> QED
    BY <2>1, <2>2 DEF Move, Plans, StartSteps
<1>9. ASSUME NEW r \in Request, NEW v \in Version, Uninstall(r, v)
      PROVE  Same /\ Move
  <2> DEFINE us == {u \in Uids(env) : instance[u].version = v}
  <2>1. /\ Ending(r, "uninstall", v, us) /\ UNCHANGED <<instance, store>> /\ v \in Versions
        /\ Same /\ ~ Waits(r)
    BY <1>9 DEF Uninstall, Versions, Idle, Same, Waits, Waiting
  <2>2. us \in SUBSET Uid
    BY DEF TypeInv, UidsOK, Started
  <2> HIDE DEF us
  <2>3. PICK q : Moves(r, q) /\ q.at = "killing" /\ q.env = env
    BY <2>1, <2>2, EndingMoves
  <2> QED
    BY <2>1, <2>3 DEF Move, Plans, StartSteps
<1>10. ASSUME NEW v \in Version, Develop(v) PROVE Same /\ Names
  <2>1. Same /\ Started # Uid /\ UNCHANGED <<store, req>>
    BY <1>10 DEF Develop, Same
  <2> QED
    BY <1>10, <2>1, DevelopIs DEF Names
<1>11. ASSUME NEW v \in Version, NEW p \in Port, Serve(v, p)
       PROVE  Same /\ RunStart
  <2>1. /\ Same /\ Started # Uid /\ UNCHANGED req /\ Register(env, Fresh)
        /\ p \in FreePorts /\ raced' = raced \cup On(p)
    BY <1>11 DEF Serve, Same
  <2> QED
    BY <1>11, <2>1, ServeIs DEF RunStart
<1>12. ASSUME NEW r \in Request, ChoosePort(r) \/ Spawn(r) \/ Ready(r) PROVE Same
  BY <1>12 DEF ChoosePort, Spawn, Ready, Same
<1>13. ASSUME NEW u \in Uid, Executed(u) \/ Listens(u) \/ Ends(u) PROVE Same
  BY <1>13 DEF Executed, Listens, Ends, Same
<1>14. ASSUME Reload PROVE Grows /\ Quiet
  BY <1>14 DEF Reload, Quiet, Grows
<1>15. Same => Grows
  BY DEF Same, Grows
<1> QED
  BY <1>1, <1>2, <1>3, <1>4, <1>5, <1>6, <1>7, <1>8, <1>9, <1>10, <1>11, <1>12, <1>13,
     <1>14, <1>15 DEF Next, Continues

\* A request that waits for an instance is one that starts backends.
LEMMA StartersOnlyNext ==
  ASSUME TypeInv, StartersOnly, Next
  PROVE  StartersOnly'
<1> SUFFICES ASSUME NEW s \in Request, req'[s].at \in StartSteps PROVE s \in Starter
  BY DEF StartersOnly
<1>1. ASSUME NEW r \in Request, NEW q, RequestsOK, ReqOK(q), Becomes(r, q),
             q.at \in StartSteps => r \in Starter \/ req[r].at \in StartSteps
      PROVE  s \in Starter
  <2>1. req'[r] = q /\ \A t \in Request : t # r => req'[t] = req[t]
    BY <1>1, BecomesIs
  <2> QED
    BY <1>1, <2>1 DEF StartersOnly
<1>2. CASE req' = req
  BY <1>2 DEF StartersOnly
<1>3. CASE Move
  BY <1>1, <1>3 DEF Move, Moves, TypeInv
<1>4. CASE Removal
  BY <1>1, <1>4 DEF Removal, TypeInv
<1>5. ASSUME NEW r \in Request, ChoosePort(r) PROVE s \in Starter
  <2>1. req[r].at \in StartSteps
    BY <1>5 DEF ChoosePort, At, StartSteps
  <2> QED
    BY <1>1, <1>5, <2>1, ChoosePortIs DEF TypeInv
<1>6. ASSUME NEW r \in Request, Spawn(r) \/ GivesUp(r) PROVE s \in Starter
  <2>1. req[r].at \in StartSteps
    BY <1>6 DEF Spawn, GivesUp, At, StartSteps
  <2>2. PICK q : ReqOK(q) /\ Becomes(r, q)
    BY <1>6, SpawnIs
  <2> QED
    BY <1>1, <2>1, <2>2 DEF TypeInv
<1>7. ASSUME NEW r \in Request, Ready(r) PROVE s \in Starter
  <2>1. req[r].at \in StartSteps
    BY <1>7 DEF Ready, At, StartSteps
  <2> QED
    BY <1>1, <1>7, <2>1, IdleOK DEF Ready, Finish, TypeInv
<1>8. Quiet \/ RunStart \/ Names \/ (\E u \in Uid : Executed(u) \/ Listens(u) \/ Ends(u))
        => req' = req
  BY DEF Quiet, RunStart, Names, Executed, Listens, Ends
<1> QED
  BY <1>2, <1>3, <1>4, <1>5, <1>6, <1>7, <1>8, StepKinds

StarterInv == TypeInv /\ StartersOnly

\* Only a request that starts backends waits for one, always.
LEMMA StarterInvAlways == Spec => []StarterInv
<1>1. Init => StarterInv
  BY InitTypeInv DEF StarterInv, StartersOnly, Init, Idle, StartSteps
<1>2. StarterInv /\ UNCHANGED vars => StarterInv'
  BY TypeInvStutters DEF StarterInv, StartersOnly, vars
<1>3. StarterInv /\ [Next]_vars => StarterInv'
  BY <1>2, TypeInvNext, StartersOnlyNext DEF StarterInv
<1> QED
  BY <1>1, <1>3, PTL DEF Spec

-----------------------------------------------------------------------------
(* What answers on a port, and what accounts for a process                   *)

\* No request and no instance is of a future environment.
EnvInv ==
  /\ \A u \in Started : instance[u].env <= env
  /\ \A r \in Request : req[r].env <= env

\* Unless its port was taken after it was found free, nothing but the instance listens there.
RaceInv == \A u \in Started \ raced : Listening(instance[u].port) \subseteq {u}

\* Then a registered backend of the host has listened.
HeardInv ==
  \A e \in Env : \A u \in Uids(e) :
    instance[u].kind = "host" /\ u \notin raced => instance[u].at # "booting"

CountInv == EnvInv /\ RaceInv /\ HeardInv /\ Accounted

\* The environment of a request is that of its beginning, and its instance has the same.
LEMMA EnvNext ==
  ASSUME TypeInv, TypeInv', EnvInv, Next
  PROVE  EnvInv'
<1> DEFINE Asks == \A s \in Request : req'[s].env \in {0, req[s].env, env}
           Is(u) == \/ u \in Started /\ instance'[u].env = instance[u].env
                    \/ instance'[u].env = env
                    \/ \E r \in Request : instance'[u].env = req[r].env
           Are == \A u \in Started' : Is(u)
<1>1. ASSUME NEW r \in Request, NEW q, ReqOK(q), Becomes(r, q), q.env \in {0, req[r].env, env}
      PROVE  Asks
  <2>1. req'[r] = q /\ \A s \in Request : s # r => req'[s] = req[s]
    BY <1>1, BecomesIs DEF TypeInv
  <2> QED
    BY <1>1, <2>1
<1>2. ASSUME UNCHANGED req PROVE Asks
  BY <1>2
<1>3. ASSUME SameInstances PROVE Are
  BY <1>3 DEF SameInstances, Keeps, SameAs
<1>4. ASSUME NEW i, InstanceOK(i), Started # Uid, instance' = [instance EXCEPT ![Fresh] = i],
             i.env = env \/ \E r \in Request : i.env = req[r].env
      PROVE  Are
  <2>1. /\ Started' = Started \cup {Fresh} /\ instance'[Fresh] = i
        /\ \A w \in Started : instance'[w] = instance[w]
    BY <1>4, StartIs DEF TypeInv
  <2>2. PICK u : u = Fresh
    OBVIOUS
  <2> HIDE DEF Fresh
  <2> QED
    BY <1>4, <2>1, <2>2
<1> HIDE DEF Asks, Are
<1>5. ASSUME Quiet PROVE Asks /\ Are
  BY <1>2, <1>3, <1>5, InstancesStay DEF Quiet, TypeInv
<1>6. ASSUME Move PROVE Asks /\ Are
  BY <1>1, <1>3, <1>6, InstancesStay DEF Move, Moves, TypeInv
<1>7. ASSUME Removal PROVE Asks /\ Are
  <2>1. PICK r, e, u, q :
          /\ r \in Request /\ e \in Env /\ u \in Uids(e)
          /\ ReqOK(q) /\ q.at \notin Waiting /\ Becomes(r, q)
          /\ q.env \in {0, req[r].env, env} /\ Terminate(e, u)
    BY <1>7, Zenon DEF Removal
  <2>2. SameInstances
    BY <2>1, TerminateStep
  <2> QED
    BY <1>1, <1>3, <2>1, <2>2
<1>8. ASSUME RunStart \/ Names PROVE Asks /\ Are
  BY <1>2, <1>4, <1>8 DEF RunStart, Names
<1>9. ASSUME NEW r \in Request, ChoosePort(r) PROVE Asks /\ Are
  <2>1. PICK i, q : /\ InstanceOK(i) /\ instance' = [instance EXCEPT ![Fresh] = i]
                    /\ i.env = req[r].env
                    /\ ReqOK(q) /\ q.env = req[r].env /\ Becomes(r, q)
    BY <1>9, ChoosePortIs
  <2>2. Started # Uid
    BY <1>9 DEF ChoosePort
  <2> QED
    BY <1>1, <1>4, <2>1, <2>2
<1>10. ASSUME NEW r \in Request, Spawn(r) \/ GivesUp(r) PROVE Asks /\ Are
  <2>1. PICK q : ReqOK(q) /\ Becomes(r, q) /\ (q.env = req[r].env \/ q = Idle)
    BY <1>10, SpawnIs
  <2>2. q.env \in {0, req[r].env, env}
    BY <2>1 DEF Idle
  <2> QED
    BY <1>1, <1>3, <1>10, <2>1, <2>2, SpawnStep
<1>11. ASSUME NEW r \in Request, Ready(r) PROVE Asks /\ Are
  <2>1. /\ req'[r].env = 0
        /\ \A s \in Request : s # r => req'[s] = req[s]
    BY <1>11, ReadyStep DEF Idle
  <2>2. Asks
    BY <2>1 DEF Asks
  <2> QED
    BY <1>3, <1>11, <2>2, InstancesStay DEF Ready, TypeInv
<1>12. ASSUME NEW u \in Uid, Executed(u) \/ Listens(u) \/ Ends(u) PROVE Asks /\ Are
  <2>1. u \in Started /\ UNCHANGED req
    BY <1>12 DEF Executed, Listens, Ends
  <2>2. PICK x \in {"booting", "listening", "ended"} : ProcessIs(u, x)
    BY <1>12 DEF Executed, Listens, Ends
  <2> QED
    BY <1>2, <1>3, <2>1, <2>2, GoesOn DEF TypeInv
<1>13. Asks /\ Are /\ Grows
  BY <1>5, <1>6, <1>7, <1>8, <1>9, <1>10, <1>11, <1>12, StepKinds
<1>14. env \in Nat /\ env' \in {env, env + 1}
  BY <1>13, BackendsAssumption DEF TypeInv, Env, Grows
<1>15. \A x \in Nat : x <= env => x <= env'
  BY <1>14
<1>16. ASSUME NEW s \in Request PROVE req'[s].env <= env'
  <2>1. req'[s].env \in {0, req[s].env, env} /\ req[s].env \in Nat
    BY <1>13 DEF Asks, TypeInv, RequestsOK, ReqOK, Requests, Env
  <2>2. req[s].env <= env
    BY DEF EnvInv
  <2> QED
    BY <1>14, <1>15, <2>1, <2>2
<1>17. ASSUME NEW u \in Started' PROVE instance'[u].env <= env'
  <2>1. instance'[u].env \in Nat
    BY DEF TypeInv, InstancesOK, InstanceOK, Instances
  <2>2. Is(u)
    BY <1>13 DEF Are
  <2>3. instance'[u].env <= env
    BY <1>14, <2>2 DEF EnvInv
  <2> QED
    BY <1>15, <2>1, <2>3
<1> QED
  BY <1>16, <1>17 DEF EnvInv

\* What listens on a port after a step that starts no server.
LEMMA RaceKept ==
  ASSUME RaceInv, raced \subseteq raced', Keeps,
         \A p : Listening(p)' \subseteq Listening(p),
         \A u \in Started' \ Started : Listening(instance[u].port)' \subseteq {u}
  PROVE  RaceInv'
<1> SUFFICES ASSUME NEW u \in Started' \ raced' PROVE Listening(instance[u].port)' \subseteq {u}
  BY DEF RaceInv
<1>1. CASE u \in Started
  <2>1. PICK p : p = instance[u].port /\ p = instance'[u].port
    BY <1>1 DEF Keeps, SameAs
  <2>2. Listening(p) \subseteq {u} /\ Listening(p)' \subseteq Listening(p)
    BY <1>1, <2>1 DEF RaceInv
  <2>3. Listening(instance[u].port)' = Listening(p)'
    BY <2>1 DEF Listening
  <2> QED
    BY <2>2, <2>3
<1> QED
  BY <1>1

\* What is registered after a step.
LEMMA HeardKept ==
  ASSUME TypeInv, HeardInv, raced \subseteq raced', Keeps,
         \A e \in Env : \A u \in Uids(e)' :
           \/ u \in Uids(e) \/ instance'[u].kind # "host" \/ u \in raced'
           \/ instance'[u].at # "booting",
         \A u \in Started : instance'[u].at = "booting" =>
           instance[u].at = "booting" \/ \A e \in Env : u \notin Uids(e)
  PROVE  HeardInv'
<1> SUFFICES ASSUME NEW e \in Env, NEW u \in Uids(e)', instance'[u].kind = "host",
                    u \notin raced', instance'[u].at = "booting"
             PROVE  FALSE
  BY DEF HeardInv
<1>1. u \in Uids(e) /\ u \in Started
  BY DEF TypeInv, UidsOK
<1>2. instance[u].at = "booting" /\ instance[u].kind = "host"
  BY <1>1 DEF Keeps, SameAs
<1> QED
  BY <1>1, <1>2 DEF HeardInv

Alive(i) == i.at \in {"booting", "listening"}

\* What accounts for a process after a step.
LEMMA AccountedKept ==
  ASSUME Accounted, Same, Keeps,
         \A u \in Owned : Alive(instance'[u]) => Alive(instance[u]) \/ u \in Starting',
         \A u \in Owned : Alive(instance'[u]) /\ u \in Uids(env) \cup Starting =>
           \/ u \in Uids(env)' \cup Starting' \/ u \in late'
           \/ instance[u].kind = "host" /\ u \in raced',
         \A u \in Started' \ Started : instance'[u].at = "named" \/ instance'[u].kind \in {"dev", "user"}
  PROVE  Accounted'
<1> SUFFICES ASSUME NEW u \in Started', instance'[u].kind \in {"host", "container"},
                    Alive(instance'[u]), instance'[u].env = env'
             PROVE  \/ u \in Uids(env)' \cup Starting' \/ u \in late'
                    \/ instance'[u].kind = "host" /\ u \in raced'
  BY DEF Accounted, Owned, Alive
<1>1. u \in Started
  BY DEF Alive
<1>2. u \in Owned /\ instance[u].env = env /\ instance'[u].kind = instance[u].kind
  BY <1>1 DEF Keeps, SameAs, Owned, Same
<1>3. Alive(instance[u]) \/ u \in Starting'
  BY <1>2
<1>4. ASSUME Alive(instance[u])
      PROVE  u \in Uids(env) \cup Starting \/ u \in late \/ (instance[u].kind = "host" /\ u \in raced)
  BY <1>2, <1>4 DEF Accounted, Alive
<1> QED
  BY <1>2, <1>3, <1>4 DEF Same

\* Who waits for an instance after a request has made a step.
LEMMA StartingIs ==
  ASSUME RequestsOK, NEW r \in Request, NEW q, ReqOK(q), Becomes(r, q)
  PROVE  Starting' = {req[s].uid : s \in {s \in Request \ {r} : Waits(s)}}
                     \cup (IF q.at \in Waiting THEN {q.uid} ELSE {})
<1>1. req'[r] = q /\ \A s \in Request : s # r => req'[s] = req[s]
  BY BecomesIs
<1> QED
  BY <1>1 DEF Starting, Waits, Waiting

\* An instance that is waited for is registered nowhere.
LEMMA StartingApart ==
  ASSUME TypeInv
  PROVE  /\ Starting \subseteq Started
         /\ \A u \in Starting : \A e \in Env : u \notin Uids(e)
BY DEF TypeInv, UidsOK, WaitsWell, Starting, Waits, Waiting

\* A request goes on; if it stops waiting for an instance, that one has ended, or was late.
LEMMA CountMove ==
  ASSUME TypeInv, CountInv, Move, Same
  PROVE  RaceInv' /\ HeardInv' /\ Accounted'
<1>1. PICK r, q :
        /\ r \in Request
        /\ ReqOK(q) /\ q.at \notin Waiting /\ Becomes(r, q) /\ UNCHANGED <<instance, store>>
        /\ Waits(r) => req[r].uid \in late' \/ instance[req[r].uid].at = "ended"
  BY DEF Move, Moves
<1>2. SameInstances /\ Keeps /\ \A e \in Env : Uids(e)' = Uids(e)
  BY <1>1, InstancesStay, StoreStays DEF TypeInv, SameInstances
<1>3. Starting' = {req[s].uid : s \in {s \in Request \ {r} : Waits(s)}}
  BY <1>1, StartingIs DEF TypeInv
<1>4. \A w \in Starting : w \in Starting' \/ w \in late' \/ instance[w].at = "ended"
  BY <1>1, <1>3 DEF Starting, Waits, Waiting
<1>5. \A p : Listening(p)' = Listening(p)
  BY <1>1, <1>2 DEF Listening, SameInstances
<1>6. RaceInv'
  BY <1>2, <1>5, RaceKept DEF CountInv, Same, SameInstances
<1>7. HeardInv'
  BY <1>1, <1>2, HeardKept DEF CountInv, Same
<1>8. Accounted'
  <2>1. env \in Env /\ env' = env
    BY DEF TypeInv, Same
  <2>2. Uids(env)' = Uids(env)
    BY <1>1, <2>1 DEF Uids
  <2>3. ASSUME NEW w \in Owned, Alive(instance'[w])
        PROVE  /\ Alive(instance[w])
               /\ w \in Uids(env) \cup Starting =>
                    w \in Uids(env)' \cup Starting' \/ w \in late'
    BY <1>1, <1>4, <2>2, <2>3 DEF Alive
  <2> QED
    BY <1>2, <2>3, AccountedKept DEF CountInv, SameInstances
<1> QED
  BY <1>6, <1>7, <1>8

\* What terminate removes is ended, unless another process began to listen on its port.
LEMMA CountRemoval ==
  ASSUME TypeInv, CountInv, Removal, Same
  PROVE  RaceInv' /\ HeardInv' /\ Accounted'
<1>1. PICK r, e, u, q :
        /\ r \in Request /\ e \in Env /\ u \in Uids(e)
        /\ ReqOK(q) /\ q.at \notin Waiting /\ Becomes(r, q) /\ ~ Waits(r)
        /\ Terminate(e, u)
  BY Zenon DEF Removal
<1>2. /\ SameInstances /\ Keeps /\ Uids(e)' = Uids(e) \ {u}
      /\ \A f \in Env : f # e => Uids(f)' = Uids(f)
  BY <1>1, TerminateStep DEF SameInstances
<1>3. u \in Started /\ instance[u].at # "named"
  BY <1>1 DEF TypeInv, UidsOK
<1>4. /\ \A w \in Killed(u) : instance'[w].at = "ended"
      /\ \A w \in Started \ Killed(u) : instance'[w] = instance[w]
  BY <1>1, <1>3, KilledStarted, KillIs DEF Terminate, TypeInv
<1>5. Starting' = Starting
  <2>1. Starting' = {req[s].uid : s \in {s \in Request \ {r} : Waits(s)}}
    BY <1>1, StartingIs DEF TypeInv
  <2> QED
    BY <1>1, <2>1 DEF Starting, Waits, Waiting
<1>6. ASSUME NEW w \in Started, instance'[w].at # "ended" PROVE instance'[w] = instance[w]
  BY <1>4, <1>6
<1>7. \A p : Listening(p)' \subseteq Listening(p)
  BY <1>2, <1>6 DEF Listening, SameInstances
<1>8. RaceInv'
  BY <1>2, <1>7, RaceKept DEF CountInv, Same, SameInstances
<1>9. HeardInv'
  <2>1. \A f \in Env : Uids(f)' \subseteq Uids(f)
    BY <1>2
  <2>2. \A w \in Started : instance'[w].at = "booting" => instance[w].at = "booting"
    BY <1>6
  <2> QED
    BY <1>2, <2>1, <2>2, HeardKept DEF CountInv, Same
<1>10. ASSUME instance[u].kind \in {"host", "container"}, Alive(instance'[u])
       PROVE  instance[u].kind = "host" /\ u \in raced
  <2>1. instance'[u] = instance[u] /\ u \notin Killed(u)
    BY <1>3, <1>4, <1>6, <1>10 DEF Alive
  <2>2. instance[u].kind = "host"
    BY <1>10, <2>1 DEF Killed
  <2>3. instance[u].at # "listening"
    BY <1>3, <2>1, <2>2 DEF Killed, Listening
  <2>4. instance[u].at = "booting"
    BY <1>10, <2>1, <2>3 DEF Alive
  <2> QED
    BY <1>1, <2>2, <2>4 DEF CountInv, HeardInv
<1>11. Accounted'
  <2>1. env \in Env /\ env' = env
    BY DEF TypeInv, Same
  <2>2. \A w \in Uids(env) : w = u \/ w \in Uids(env)'
    <3>1. PICK f \in Env : f = env /\ f = env'
      BY <2>1
    <3>2. \A w \in Uids(f) : w = u \/ w \in Uids(f)'
      BY <1>2
    <3>3. Uids(env)' = Uids(f)' /\ Uids(env) = Uids(f)
      BY <3>1 DEF Uids
    <3> QED
      BY <3>2, <3>3
  <2>3. \A w \in Owned : Alive(instance'[w]) => Alive(instance[w])
    BY <1>6 DEF Alive, Owned
  <2>4. ASSUME NEW w \in Owned, Alive(instance'[w]), w \in Uids(env) \cup Starting
        PROVE  \/ w \in Uids(env)' \cup Starting'
               \/ instance[w].kind = "host" /\ w \in raced'
    BY <1>5, <1>10, <2>2, <2>4 DEF Owned, Same
  <2> QED
    BY <1>2, <2>3, <2>4, AccountedKept DEF CountInv, SameInstances
<1> QED
  BY <1>8, <1>9, <1>11

\* An instance is named at a port where nothing listens.
LEMMA CountNames ==
  ASSUME TypeInv, CountInv, NEW i, InstanceOK(i), i.at = "named", i.port \in FreePorts,
         Started # Uid, instance' = [instance EXCEPT ![Fresh] = i], UNCHANGED store,
         Starting \subseteq Starting', Same
  PROVE  RaceInv' /\ HeardInv' /\ Accounted'
<1>1. /\ Started' = Started \cup {Fresh} /\ instance'[Fresh] = i /\ Fresh \notin Started
      /\ Keeps /\ \A w \in Started : instance'[w] = instance[w]
  BY StartIs DEF TypeInv
<1>2. PICK u : u = Fresh
  OBVIOUS
<1> HIDE DEF Fresh
<1>3. \A p : Listening(p)' = Listening(p)
  BY <1>1 DEF Listening
<1>4. RaceInv'
  <2>1. Listening(i.port)' = {}
    BY <1>3 DEF FreePorts
  <2>2. Listening(instance[u].port)' = Listening(i.port)'
    BY <1>1, <1>2 DEF Listening
  <2>3. \A w \in Started' \ Started : w = u
    BY <1>1, <1>2
  <2> QED
    BY <1>1, <1>3, <2>1, <2>2, <2>3, RaceKept DEF CountInv, Same
<1>5. \A e \in Env : Uids(e)' = Uids(e)
  BY StoreStays DEF TypeInv
<1>6. HeardInv'
  BY <1>1, <1>5, HeardKept DEF CountInv, Same
<1>7. Accounted'
  <2>1. Uids(env)' = Uids(env)
    BY DEF Uids, Same
  <2>2. \A w \in Owned : instance'[w] = instance[w]
    BY <1>1 DEF Owned
  <2>3. \A w \in Started' \ Started : instance'[w].at = "named"
    BY <1>1
  <2> QED
    BY <1>1, <2>1, <2>2, <2>3, AccountedKept DEF CountInv
<1> QED
  BY <1>4, <1>6, <1>7

\* A user has started a server: who has chosen its port before may meet it there.
LEMMA CountRunStart ==
  ASSUME TypeInv, CountInv, RunStart, Same
  PROVE  RaceInv' /\ HeardInv' /\ Accounted'
<1>1. PICK i :
        /\ InstanceOK(i) /\ i.at = "listening" /\ i.kind = "user" /\ i.port \in FreePorts
        /\ Started # Uid /\ instance' = [instance EXCEPT ![Fresh] = i]
        /\ Register(env, Fresh) /\ UNCHANGED req
        /\ raced' = raced \cup On(i.port)
  BY DEF RunStart
<1>2. /\ Started' = Started \cup {Fresh} /\ instance'[Fresh] = i /\ Fresh \notin Started
      /\ Fresh \in Uid /\ Keeps /\ \A w \in Started : instance'[w] = instance[w]
  BY <1>1, StartIs DEF TypeInv
<1>3. PICK u \in Uid, e \in Env : u = Fresh /\ e = env
  BY <1>2 DEF TypeInv
<1>4. u \notin Uids(e) /\ Register(e, u)
  BY <1>1, <1>2, <1>3 DEF TypeInv, UidsOK
<1>5. /\ Uids(e)' = Uids(e) \cup {u}
      /\ \A f \in Env : f # e => Uids(f)' = Uids(f)
  BY <1>4, RegisterIs DEF TypeInv
<1> HIDE DEF Fresh
<1>6. RaceInv'
  <2> SUFFICES ASSUME NEW w \in Started' \ raced' PROVE Listening(instance[w].port)' \subseteq {w}
    BY DEF RaceInv
  <2>1. PICK p : p = instance'[w].port
    OBVIOUS
  <2>2. Listening(instance[w].port)' = Listening(p)'
    BY <2>1 DEF Listening
  <2>3. Listening(p)' \subseteq Listening(p) \cup (IF p = i.port THEN {u} ELSE {})
    BY <1>2, <1>3 DEF Listening
  <2>4. CASE w = u
    <3>1. p = i.port /\ Listening(p) = {}
      BY <1>1, <1>2, <1>3, <2>1, <2>4 DEF FreePorts
    <3> QED
      BY <2>2, <2>3, <2>4, <3>1
  <2>5. CASE w # u
    <3>1. w \in Started /\ w \notin raced /\ w \notin On(i.port) /\ p = instance[w].port
      BY <1>1, <1>2, <1>3, <2>1, <2>5
    <3>2. p # i.port /\ Listening(p) \subseteq {w}
      BY <3>1 DEF On, CountInv, RaceInv
    <3> QED
      BY <2>2, <2>3, <3>2
  <2> QED
    BY <2>4, <2>5
<1>7. HeardInv'
  <2>1. \A f \in Env : \A w \in Uids(f)' : w \in Uids(f) \/ instance'[w].kind # "host"
    BY <1>1, <1>2, <1>3, <1>5
  <2> QED
    BY <1>2, <2>1, HeardKept DEF CountInv, Same
<1>8. Accounted'
  <2>1. Starting' = Starting
    BY <1>1 DEF Starting
  <2>2. Uids(env) \subseteq Uids(env)'
    <3>1. Uids(env)' = Uids(e)' /\ Uids(env) = Uids(e)
      BY <1>3 DEF Uids, Same
    <3> QED
      BY <1>5, <3>1
  <2>3. \A w \in Owned : instance'[w] = instance[w]
    BY <1>2 DEF Owned
  <2>4. \A w \in Started' \ Started : instance'[w].kind = "user"
    BY <1>1, <1>2
  <2> QED
    BY <1>2, <2>1, <2>2, <2>3, <2>4, AccountedKept DEF CountInv
<1> QED
  BY <1>6, <1>7, <1>8

\* The process of a request is created, while the request waits for it.
LEMMA CountSpawn ==
  ASSUME TypeInv, CountInv, NEW r \in Request, Spawn(r) \/ GivesUp(r), Same
  PROVE  RaceInv' /\ HeardInv' /\ Accounted'
<1>1. PICK x, q :
        /\ x \in {"booting", "listening", "ended"} /\ ReqOK(q)
        /\ Waits(r) /\ req[r].uid \in Started /\ ProcessIs(req[r].uid, x)
        /\ Becomes(r, q) /\ UNCHANGED store
        /\ \/ x = "booting" /\ q.at = "ready" /\ q.uid = req[r].uid
           \/ x = "ended" /\ q = Idle
  BY SpawnIs
<1>2. PICK u \in Started : u = req[r].uid
  BY <1>1
<1>3. ProcessIs(u, x)
  BY <1>1, <1>2
<1>4. /\ SameInstances /\ Keeps /\ instance'[u].at = x
      /\ \A w \in Started : w # u => instance'[w] = instance[w]
  BY <1>1, <1>3, GoesOn DEF TypeInv, SameInstances
<1>5. \A e \in Env : Uids(e)' = Uids(e) /\ u \notin Uids(e)
  BY <1>1, <1>2, StoreStays DEF TypeInv, UidsOK, WaitsWell
<1>6. RaceInv'
  <2>1. x # "listening"
    BY <1>1
  <2>2. \A p : Listening(p)' \subseteq Listening(p)
    BY <1>4, <2>1 DEF Listening, SameInstances
  <2> QED
    BY <1>4, <2>2, RaceKept DEF CountInv, Same, SameInstances
<1>7. HeardInv'
  <2>1. \A w \in Started : instance'[w].at = "booting" =>
          instance[w].at = "booting" \/ \A e \in Env : w \notin Uids(e)
    BY <1>4, <1>5
  <2> QED
    BY <1>4, <1>5, <2>1, HeardKept DEF CountInv, Same
<1>8. Accounted'
  <2>1. Starting' = {req[s].uid : s \in {s \in Request \ {r} : Waits(s)}}
                    \cup (IF q.at \in Waiting THEN {q.uid} ELSE {})
    BY <1>1, StartingIs DEF TypeInv
  <2>2. \A w \in Starting : w = u \/ w \in Starting'
    BY <1>2, <2>1 DEF Starting, Waits, Waiting
  <2>3. x = "booting" => u \in Starting'
    BY <1>1, <1>2, <2>1 DEF Waiting
  <2>4. Uids(env)' = Uids(env)
    BY <1>1 DEF Uids, Same
  <2>5. ASSUME NEW w \in Owned, Alive(instance'[w])
        PROVE  /\ Alive(instance[w]) \/ w \in Starting'
               /\ w \in Uids(env) \cup Starting => w \in Uids(env)' \cup Starting'
    <3>1. CASE w = u
      BY <1>1, <1>4, <2>3, <2>5, <3>1 DEF Alive
    <3>2. CASE w # u
      BY <1>4, <2>2, <2>4, <2>5, <3>2 DEF Owned
    <3> QED
      BY <3>1, <3>2
  <2> QED
    BY <1>4, <2>5, AccountedKept DEF CountInv, SameInstances
<1> QED
  BY <1>6, <1>7, <1>8

\* Something answers: it is the process that the request waits for, or its port was taken.
LEMMA CountReady ==
  ASSUME TypeInv, CountInv, NEW r \in Request, Ready(r), Same
  PROVE  /\ RaceInv' /\ HeardInv' /\ Accounted'
         /\ req[r].uid \in Listening(instance[req[r].uid].port) \cup raced
<1>1. /\ req[r].uid \in Started /\ req[r].env \in Env /\ instance[req[r].uid].env = req[r].env
      /\ \A f \in Env : Uids(f)' = Uids(f) \cup (IF f = req[r].env THEN {req[r].uid} ELSE {})
  BY ReadyStep
<1>2. PICK u \in Started, e \in Env : u = req[r].uid /\ e = req[r].env
  BY <1>1
<1>3. UNCHANGED instance /\ Listening(instance[u].port) # {}
  BY <1>2 DEF Ready
<1>4. SameInstances /\ Keeps
  BY <1>3, InstancesStay DEF TypeInv, SameInstances
<1>5. u \in Listening(instance[u].port) \cup raced
  BY <1>3 DEF CountInv, RaceInv
<1>6. RaceInv'
  <2>1. \A p : Listening(p)' = Listening(p)
    BY <1>3, <1>4 DEF Listening, SameInstances
  <2> QED
    BY <1>4, <2>1, RaceKept DEF CountInv, Same, SameInstances
<1>7. HeardInv'
  <2>1. u \in raced \/ instance[u].at = "listening"
    BY <1>5 DEF Listening
  <2>2. \A f \in Env : \A w \in Uids(f)' : w \in Uids(f) \/ w = u
    BY <1>1, <1>2
  <2> QED
    BY <1>3, <1>4, <2>1, <2>2, HeardKept DEF CountInv, Same
<1>8. Accounted'
  <2>1. Becomes(r, Idle) /\ Idle.at \notin Waiting
    BY DEF Ready, Finish, Idle, Waiting
  <2>2. Starting' = {req[s].uid : s \in {s \in Request \ {r} : Waits(s)}}
    BY <2>1, IdleOK, StartingIs DEF TypeInv
  <2>3. \A w \in Starting : w = u \/ w \in Starting'
    BY <1>2, <2>2 DEF Starting, Waits, Waiting
  <2>4. Uids(env)' = Uids(env) \cup (IF env = e THEN {u} ELSE {})
    <3>1. PICK f \in Env : f = env /\ f = env'
      BY DEF TypeInv, Same
    <3>2. Uids(f)' = Uids(f) \cup (IF f = e THEN {u} ELSE {})
      BY <1>1, <1>2
    <3>3. Uids(env)' = Uids(f)' /\ Uids(env) = Uids(f)
      BY <3>1 DEF Uids
    <3> QED
      BY <3>1, <3>2, <3>3
  <2>5. ASSUME NEW w \in Owned', instance'[w].at \in {"booting", "listening"},
               instance'[w].env = env'
        PROVE  \/ w \in Uids(env)' \cup Starting' \/ w \in late'
               \/ instance'[w].kind = "host" /\ w \in raced'
    <3>1. w \in Owned /\ instance'[w] = instance[w] /\ instance[w].env = env
      BY <1>3, <2>5 DEF Owned, Started, Same
    <3>2. w = u => w \in Uids(env)'
      BY <1>1, <1>2, <2>4, <3>1
    <3> QED
      BY <2>3, <2>4, <2>5, <3>1, <3>2 DEF CountInv, Accounted, Same
  <2> QED
    BY <2>5 DEF Accounted
<1> QED
  BY <1>2, <1>5, <1>6, <1>7, <1>8

\* The server of a run step, which no backend is.
LEMMA CountExecuted ==
  ASSUME TypeInv, CountInv, NEW u \in Uid, Executed(u), Same
  PROVE  RaceInv' /\ HeardInv' /\ Accounted'
<1>1. /\ u \in Started /\ SameInstances /\ Keeps
      /\ \A w \in Started : w # u => instance'[w] = instance[w]
      /\ \A f \in Env : Uids(f)' = Uids(f) \cup (IF f = instance[u].env THEN {u} ELSE {})
  BY ExecutedStep DEF SameInstances
<1>2. instance[u].kind = "dev" /\ instance'[u].kind = "dev" /\ instance'[u].at = "booting"
  <2>1. PICK x \in {"booting", "listening", "ended"} : x = "booting"
    OBVIOUS
  <2>2. ProcessIs(u, x)
    BY <2>1 DEF Executed
  <2>3. instance'[u].at = x
    BY <1>1, <2>2, GoesOn DEF TypeInv
  <2> QED
    BY <1>1, <2>1, <2>3 DEF Executed, Keeps, SameAs
<1>3. RaceInv'
  <2>1. \A p : Listening(p)' \subseteq Listening(p)
    BY <1>1, <1>2 DEF Listening, SameInstances
  <2> QED
    BY <1>1, <2>1, RaceKept DEF CountInv, Same, SameInstances
<1>4. HeardInv'
  <2>1. \A f \in Env : \A w \in Uids(f)' : w \in Uids(f) \/ instance'[w].kind # "host"
    BY <1>1, <1>2
  <2>2. \A w \in Started : instance'[w].at = "booting" =>
          instance[w].at = "booting" \/ \A e \in Env : w \notin Uids(e)
    BY <1>1 DEF Executed, TypeInv, UidsOK
  <2> QED
    BY <1>1, <2>1, <2>2, HeardKept DEF CountInv, Same
<1>5. Accounted'
  <2>1. Starting' = Starting
    BY DEF Starting, Executed
  <2>2. Uids(env) \subseteq Uids(env)'
    <3>1. PICK f \in Env : f = env /\ f = env'
      BY DEF TypeInv, Same
    <3>2. Uids(f) \subseteq Uids(f)'
      BY <1>1
    <3>3. Uids(env)' = Uids(f)' /\ Uids(env) = Uids(f)
      BY <3>1 DEF Uids
    <3> QED
      BY <3>2, <3>3
  <2>3. \A w \in Owned : instance'[w] = instance[w]
    BY <1>1, <1>2 DEF Owned
  <2> QED
    BY <1>1, <2>1, <2>2, <2>3, AccountedKept DEF CountInv, SameInstances
<1> QED
  BY <1>3, <1>4, <1>5

\* A process begins to listen, or ends.
LEMMA CountProcess ==
  ASSUME TypeInv, CountInv, NEW u \in Uid, Listens(u) \/ Ends(u), Same
  PROVE  RaceInv' /\ HeardInv' /\ Accounted'
<1>1. u \in Started /\ Alive(instance[u]) /\ UNCHANGED <<store, req>>
  BY DEF Listens, Ends, Alive
<1>2. PICK x \in {"booting", "listening", "ended"} :
        ProcessIs(u, x) /\ (x = "ended" \/ (x = "listening" /\ Listens(u)))
  BY DEF Listens, Ends
<1>3. /\ SameInstances /\ Keeps /\ instance'[u].at = x
      /\ \A w \in Started : w # u => instance'[w] = instance[w]
  BY <1>1, <1>2, GoesOn DEF TypeInv, SameInstances
<1>4. RaceInv'
  <2>1. CASE x = "ended"
    <3>1. \A p : Listening(p)' \subseteq Listening(p)
      BY <1>3, <2>1 DEF Listening, SameInstances
    <3> QED
      BY <1>3, <3>1, RaceKept DEF CountInv, Same, SameInstances
  <2>2. CASE Listens(u)
    <3>1. /\ Listening(instance[u].port) = {}
          /\ raced' = raced \cup (On(instance[u].port) \ {u})
      BY <2>2 DEF Listens
    <3> SUFFICES ASSUME NEW w \in Started' \ raced' PROVE Listening(instance[w].port)' \subseteq {w}
      BY DEF RaceInv
    <3>2. w \in Started /\ w \notin raced
      BY <1>3, <3>1 DEF SameInstances
    <3>3. PICK p : p = instance[w].port /\ p = instance'[w].port
      BY <1>3, <3>2 DEF Keeps, SameAs
    <3>4. Listening(instance[w].port)' = Listening(p)'
      BY <3>3 DEF Listening
    <3>5. \A v \in Started : instance'[v].port = instance[v].port
      BY <1>3 DEF Keeps, SameAs
    <3>6. Listening(p)' \subseteq Listening(p) \cup (IF p = instance[u].port THEN {u} ELSE {})
      BY <1>3, <3>5 DEF Listening, SameInstances
    <3>7. CASE w = u
      BY <3>1, <3>3, <3>4, <3>6, <3>7
    <3>8. CASE w # u
      <4>1. p # instance[u].port
        BY <3>1, <3>2, <3>3, <3>8 DEF On
      <4>2. Listening(p) \subseteq {w}
        BY <3>2, <3>3 DEF CountInv, RaceInv
      <4> QED
        BY <3>4, <3>6, <4>1, <4>2
    <3> QED
      BY <3>7, <3>8
  <2> QED
    BY <1>2, <2>1, <2>2
<1>5. \A e \in Env : Uids(e)' = Uids(e)
  BY <1>1, StoreStays DEF TypeInv
<1>6. HeardInv'
  <2>1. \A w \in Started : instance'[w].at = "booting" => instance[w].at = "booting"
    BY <1>2, <1>3
  <2> QED
    BY <1>3, <1>5, <2>1, HeardKept DEF CountInv, Same
<1>7. Accounted'
  <2>1. Starting' = Starting
    BY <1>1 DEF Starting
  <2>2. Uids(env)' = Uids(env)
    BY <1>1 DEF Uids, Same
  <2>3. \A w \in Owned : Alive(instance'[w]) => Alive(instance[w])
    BY <1>1, <1>3 DEF Owned
  <2> QED
    BY <1>3, <2>1, <2>2, <2>3, AccountedKept DEF CountInv, SameInstances
<1> QED
  BY <1>4, <1>6, <1>7

\* Nothing happens but a reload: every instance is then of a former environment.
LEMMA CountQuiet ==
  ASSUME TypeInv, CountInv, Quiet, Grows
  PROVE  RaceInv' /\ HeardInv' /\ Accounted'
<1>1. UNCHANGED <<instance, store, req>>
  BY DEF Quiet
<1>2. /\ Started' = Started /\ Keeps /\ \A e \in Env : Uids(e)' = Uids(e)
      /\ \A p : Listening(p)' = Listening(p) /\ Starting' = Starting
  BY <1>1, StoreStays, InstancesStay DEF TypeInv, SameInstances, Listening, Starting
<1>3. RaceInv'
  BY <1>2, RaceKept DEF CountInv, Grows
<1>4. HeardInv'
  BY <1>1, <1>2, HeardKept DEF CountInv, Grows
<1>5. CASE env' = env
  <2>1. Uids(env)' = Uids(env) /\ Same
    BY <1>1, <1>5 DEF Uids, Same, Grows
  <2>2. Accounted'
    BY <1>1, <1>2, <2>1, AccountedKept DEF CountInv
  <2> QED
    BY <1>3, <1>4, <2>2
<1>6. CASE env' # env
  <2>1. env \in Nat /\ env' = env + 1
    BY <1>6, BackendsAssumption DEF TypeInv, Env, Grows
  <2>2. ASSUME NEW w \in Started PROVE instance[w].env # env'
    <3>1. instance[w].env <= env /\ instance[w].env \in Nat
      BY DEF CountInv, EnvInv, TypeInv, InstancesOK, InstanceOK, Instances
    <3> QED
      BY <2>1, <3>1
  <2>3. Accounted'
    BY <1>1, <1>2, <2>2 DEF Accounted, Owned
  <2> QED
    BY <1>3, <1>4, <2>3
<1> QED
  BY <1>5, <1>6

\* Every action keeps the count.
LEMMA CountNext ==
  ASSUME TypeInv, TypeInv', CountInv, Next
  PROVE  CountInv'
<1>1. Grows
  BY StepKinds
<1>2. CASE Quiet
  BY <1>1, <1>2, CountQuiet, EnvNext DEF CountInv
<1>3. CASE ~ Quiet
  <2>0. Same
    BY <1>1, <1>3 DEF Grows, Same
  <2>1. CASE Move
    BY <2>0, <2>1, CountMove, EnvNext DEF CountInv
  <2>2. CASE Removal
    BY <2>0, <2>2, CountRemoval, EnvNext DEF CountInv
  <2>3. CASE RunStart
    BY <2>0, <2>3, CountRunStart, EnvNext DEF CountInv
  <2>4. CASE Names
    <3>1. PICK i : /\ InstanceOK(i) /\ i.at = "named" /\ i.port \in FreePorts
                   /\ Started # Uid /\ instance' = [instance EXCEPT ![Fresh] = i]
                   /\ UNCHANGED <<store, req>>
      BY <2>4 DEF Names
    <3>2. Starting \subseteq Starting'
      BY <3>1 DEF Starting
    <3>3. RaceInv' /\ HeardInv' /\ Accounted'
      BY <2>0, <3>1, <3>2, CountNames
    <3> QED
      BY <3>3, EnvNext DEF CountInv
  <2>5. ASSUME NEW r \in Request, ChoosePort(r) PROVE CountInv'
    <3>1. PICK i, q : /\ InstanceOK(i) /\ i.at = "named" /\ i.port \in FreePorts
                      /\ instance' = [instance EXCEPT ![Fresh] = i]
                      /\ ReqOK(q) /\ Becomes(r, q)
      BY <2>5, ChoosePortIs
    <3>2. Started # Uid /\ UNCHANGED store /\ ~ Waits(r)
      BY <2>5 DEF ChoosePort, Waits, Waiting, At
    <3>3. Starting \subseteq Starting'
      <4>1. {req[s].uid : s \in {s \in Request \ {r} : Waits(s)}} \subseteq Starting'
        BY <3>1, StartingIs DEF TypeInv
      <4> QED
        BY <3>2, <4>1 DEF Starting, Waits, Waiting
    <3>4. RaceInv' /\ HeardInv' /\ Accounted'
      BY <2>0, <3>1, <3>2, <3>3, CountNames
    <3> QED
      BY <3>4, EnvNext DEF CountInv
  <2>6. ASSUME NEW r \in Request, Spawn(r) \/ GivesUp(r) PROVE CountInv'
    BY <2>0, <2>6, CountSpawn, EnvNext DEF CountInv
  <2>7. ASSUME NEW r \in Request, Ready(r) PROVE CountInv'
    BY <2>0, <2>7, CountReady, EnvNext DEF CountInv
  <2>8. ASSUME NEW u \in Uid, Executed(u) PROVE CountInv'
    BY <2>0, <2>8, CountExecuted, EnvNext DEF CountInv
  <2>9. ASSUME NEW u \in Uid, Listens(u) \/ Ends(u) PROVE CountInv'
    BY <2>0, <2>9, CountProcess, EnvNext DEF CountInv
  <2> QED
    BY <1>3, <2>1, <2>2, <2>3, <2>4, <2>5, <2>6, <2>7, <2>8, <2>9, StepKinds
<1> QED
  BY <1>2, <1>3

\* It holds always.
LEMMA CountAlways == Spec => [](TypeInv /\ CountInv)
<1>1. Init => CountInv
  <2> SUFFICES ASSUME Init PROVE CountInv
    OBVIOUS
  <2>1. Started = {} /\ \A e \in Env : Uids(e) = {}
    BY DEF Init, Started, Uids, Range
  <2>2. EnvInv
    <3>1. \A r \in Request : req[r].env = 0 /\ env = 0
      BY DEF Init, Idle
    <3> QED
      BY <2>1, <3>1 DEF EnvInv
  <2> QED
    BY <2>1, <2>2 DEF CountInv, RaceInv, HeardInv, Accounted, Owned
<1>2. TypeInv /\ CountInv /\ [Next]_vars => CountInv'
  <2>1. ASSUME CountInv, UNCHANGED vars PROVE CountInv'
    BY <2>1 DEF vars, CountInv, EnvInv, RaceInv, HeardInv, Accounted, Owned, Started, Starting,
                Listening, Uids
  <2> QED
    BY <2>1, CountNext, TypeInvNext
<1> QED
  BY <1>1, <1>2, TypeInvAlways, PTL DEF Spec

\* However many requests start and end backends at a time: a process that the current
\* environment started for a backend, and that has not ended, is one that terminate finds
\* in the store, or that its request still waits for.  Two cases are left out of the
\* formula: its start timed out, or, on the host, another process began to listen on its
\* port.  The processes of former environments, and the servers of run steps and of users,
\* are not among those it speaks of.
THEOREM NoProcessLost == Spec => []Accounted
<1>1. CountInv => Accounted
  BY DEF CountInv
<1> QED
  BY <1>1, CountAlways, PTL

\* What registers a backend is the answer of a process on its port: that of the backend
\* itself, unless another process began to listen there since the port was found free,
\* with any number of requests that start backends, run steps and servers of users.
THEOREM ProxyAnsweredItself == Spec => AnsweredItself
<1>1. ASSUME TypeInv, CountInv, Next, NEW e \in Env, NEW u \in Owned, u \in Uids(e)' \ Uids(e)
      PROVE  u \in Listening(instance[u].port) \cup raced
  <2>1. Grows
    BY <1>1, StepKinds
  <2>2. CASE Quiet \/ Move \/ Names \/ \E r \in Request : ChoosePort(r) \/ Spawn(r) \/ GivesUp(r)
    <3>1. UNCHANGED store
      <4>1. Move => UNCHANGED store
        BY DEF Move, Moves
      <4>2. Quiet \/ Names => UNCHANGED store
        BY DEF Quiet, Names
      <4>3. \A r \in Request : ChoosePort(r) \/ Spawn(r) \/ GivesUp(r) => UNCHANGED store
        BY DEF ChoosePort, Spawn, GivesUp
      <4> QED
        BY <2>2, <4>1, <4>2, <4>3
    <3> QED
      BY <1>1, <3>1 DEF Uids
  <2>3. CASE Removal
    <3>1. PICK r, f, w, q :
            /\ r \in Request /\ f \in Env /\ w \in Uids(f)
            /\ ReqOK(q) /\ q.at \notin Waiting /\ Becomes(r, q) /\ Terminate(f, w)
      BY <2>3, Zenon DEF Removal
    <3>2. Uids(f)' \subseteq Uids(f) /\ \A g \in Env : g # f => Uids(g)' = Uids(g)
      BY <1>1, <3>1, TerminateStep
    <3> QED
      BY <1>1, <3>2
  <2>4. CASE RunStart
    <3>1. PICK i : /\ InstanceOK(i) /\ Started # Uid /\ instance' = [instance EXCEPT ![Fresh] = i]
                   /\ Register(env, Fresh)
      BY <2>4 DEF RunStart
    <3>2. Fresh \in Uid /\ Fresh \notin Started
      BY <1>1, <3>1, StartIs DEF TypeInv
    <3>3. PICK w \in Uid, f \in Env : w = Fresh /\ f = env
      BY <1>1, <3>2 DEF TypeInv
    <3>4. w \notin Uids(f) /\ Register(f, w)
      BY <1>1, <3>1, <3>2, <3>3 DEF TypeInv, UidsOK
    <3>5. Uids(f)' = Uids(f) \cup {w} /\ \A g \in Env : g # f => Uids(g)' = Uids(g)
      BY <1>1, <3>4, RegisterIs DEF TypeInv
    <3>6. u # w
      BY <3>2, <3>3 DEF Owned
    <3> QED
      BY <1>1, <3>5, <3>6
  <2>5. ASSUME NEW r \in Request, Ready(r) PROVE u \in Listening(instance[u].port) \cup raced
    <3>1. u = req[r].uid
      BY <1>1, <2>5, ReadyStep
    <3>2. CASE Same
      BY <1>1, <2>5, <3>1, <3>2, CountReady
    <3>3. Same
      BY <2>5 DEF Ready, Same
    <3> QED
      BY <3>2, <3>3
  <2>6. ASSUME NEW w \in Uid, Executed(w) PROVE FALSE
    <3>1. u = w
      BY <1>1, <2>6, ExecutedStep
    <3> QED
      BY <1>1, <2>6, <3>1 DEF Executed, Owned
  <2>7. ASSUME NEW w \in Uid, Listens(w) \/ Ends(w) PROVE FALSE
    <3>1. UNCHANGED store
      BY <2>7 DEF Listens, Ends
    <3> QED
      BY <1>1, <3>1 DEF Uids
  <2> QED
    BY <1>1, <2>2, <2>3, <2>4, <2>5, <2>6, <2>7, StepKinds
<1>2. TypeInv /\ CountInv /\ [Next]_vars =>
        [\A e \in Env, u \in Owned :
           u \in Uids(e)' \ Uids(e) => u \in Listening(instance[u].port) \cup raced]_vars
  BY <1>1
<1> QED
  BY <1>2, CountAlways, PTL DEF Spec, AnsweredItself

-----------------------------------------------------------------------------
(* The store of proxies implements Serving: a place has one instance.        *)

\* The instances that serve a place.
There(e, part, v) == {u \in Uids(e) : instance[u].part = part /\ instance[u].version = v}

Elsewhere == Partition \ {DefaultPartition}

Alone == \A e \in Env, part \in Elsewhere, v \in Version :
           \A u, w \in There(e, part, v) : u = w

\* Where a request is about to start an instance, none serves, but for the one it ends first.
Planned(q) ==
  q.part # DefaultPartition =>
    /\ q.at = "terminate" => There(q.env, q.part, Max(q.query)) \subseteq {q.uid}
    /\ q.at = "package" => There(q.env, q.part, Max(q.query)) = {}
    /\ q.at = "port" => There(q.env, q.part, q.version) = {}
    /\ q.at = "install" /\ q.op # "graph" => There(q.env, q.part, q.version) = {}

Awaited(q) ==
  q.at \in Waiting =>
    LET i == instance[q.uid]
    IN i.part # DefaultPartition => There(q.env, i.part, i.version) = {}

PlacesInv ==
  Alone /\ \A r \in Request : Planned(req[r]) /\ Awaited(req[r])

\* A step after which no place has another instance.
Thins ==
  /\ \A u \in Started : /\ u \in Started' /\ instance'[u].part = instance[u].part
                        /\ instance'[u].version = instance[u].version
  /\ \A v : \A e \in Env, part \in Elsewhere : There(e, part, v)' \subseteq There(e, part, v)

\* Instances that are no more registered than before thin the places.
LEMMA ThinsIs ==
  ASSUME TypeInv, Started \subseteq Started',
         \A u \in Started : /\ instance'[u].part = instance[u].part
                            /\ instance'[u].version = instance[u].version,
         \A e \in Env : Uids(e)' \subseteq Uids(e)
  PROVE  Thins
BY DEF Thins, There, TypeInv, UidsOK

\* A place with one instance at most keeps one at most.
LEMMA AloneKept ==
  ASSUME Alone, Thins
  PROVE  Alone'
BY DEF Alone, Thins

\* The latest of a query is one of its versions.
LEMMA QueryMax ==
  ASSUME NEW q \in Requests, q.query # {}
  PROVE  Max(q.query) \in q.query /\ \A v \in q.query : v <= Max(q.query)
<1>1. q.query \in SUBSET Version
  BY DEF Requests
<1>2. q.query \in SUBSET Nat /\ IsFiniteSet(q.query)
  BY <1>1, BackendsAssumption, FS_Subset
<1> QED
  BY <1>2, MaxIn

\* A place that is free for a request stays free.
LEMMA PlannedKept ==
  ASSUME Thins, NEW q, ReqOK(q), Planned(q)
  PROVE  Planned(q)'
<1>1. q.env \in Env /\ q.part \in Partition
  BY DEF ReqOK, Requests
<1>2. CASE q.part = DefaultPartition
  BY <1>2 DEF Planned
<1>3. CASE q.part # DefaultPartition
  <2>1. \A v : There(q.env, q.part, v)' \subseteq There(q.env, q.part, v)
    BY <1>1, <1>3 DEF Thins, Elsewhere
  <2>2. PICK m : m = Max(q.query)
    OBVIOUS
  <2>3. There(q.env, q.part, Max(q.query))' \subseteq There(q.env, q.part, Max(q.query))
    BY <2>1
  <2>4. There(q.env, q.part, q.version)' \subseteq There(q.env, q.part, q.version)
    BY <2>1
  <2> QED
    BY <1>3, <2>3, <2>4 DEF Planned
<1> QED
  BY <1>2, <1>3

\* So does the place of the instance that a request waits for.
LEMMA AwaitedKept ==
  ASSUME TypeInv, Thins, NEW r \in Request, Awaited(req[r])
  PROVE  Awaited(req[r])' \/ req'[r] # req[r]
<1> SUFFICES ASSUME req'[r] = req[r], req[r].at \in Waiting PROVE Awaited(req[r])'
  BY DEF Awaited
<1>1. PICK q : q = req[r] /\ q = req'[r]
  OBVIOUS
<1>2. q.uid \in Started /\ q.env \in Env
  BY <1>1 DEF TypeInv, UidsOK, Waits, WaitsWell, RequestsOK, ReqOK, Requests
<1>3. PICK i : i = instance[q.uid]
  OBVIOUS
<1>4. i.part \in Partition
  BY <1>2, <1>3 DEF TypeInv, InstancesOK, InstanceOK, Instances
<1>5. instance'[q.uid].part = i.part /\ instance'[q.uid].version = i.version
  BY <1>2, <1>3 DEF Thins
<1>6. CASE i.part = DefaultPartition
  BY <1>1, <1>5, <1>6 DEF Awaited
<1>7. CASE i.part # DefaultPartition
  <2>1. There(q.env, i.part, i.version) = {}
    BY <1>1, <1>3, <1>7 DEF Awaited
  <2>2. PICK part, v : part = i.part /\ v = i.version
    OBVIOUS
  <2>3. There(q.env, part, v)' = {}
    BY <1>2, <1>4, <1>7, <2>1, <2>2 DEF Thins, Elsewhere
  <2>4. There(q.env, instance[q.uid].part, instance[q.uid].version)' = {}
    BY <1>5, <2>2, <2>3 DEF There
  <2> QED
    BY <1>1, <2>4 DEF Awaited
<1> QED
  BY <1>6, <1>7

\* A request that does not start anything plans nothing.
LEMMA IdlePlans ==
  ASSUME NEW q, q.at \notin StartSteps
  PROVE  Planned(q) /\ Awaited(q)
BY DEF Planned, Awaited, StartSteps, Waiting

\* What a request goes on to is planned, if what it does was.
LEMMA MovePlans ==
  ASSUME TypeInv, PlacesInv, NEW r \in Request, NEW q, ReqOK(q), Plans(r, q)
  PROVE  Planned(q)
<1>1. CASE q.at \notin StartSteps
  BY <1>1, IdlePlans
<1>2. ASSUME NEW new \in Requests, new.query # {}, Queried(q, new) PROVE Planned(q)
  <2> DEFINE m == Matches(new.env, new.part, new.query)
             x == Max(new.query)
  <2>1. x \in new.query /\ \A v \in new.query : v <= x
    BY <1>2, QueryMax
  <2>2. /\ new.env \in Env /\ new.part \in Partition /\ new.query \subseteq Version
        /\ Version \subseteq Nat
    BY BackendsAssumption DEF Requests
  <2>3. There(new.env, new.part, x) \subseteq m
    BY <2>1 DEF There, Matches
  <2>4. CASE q = Idle
    BY <2>4, IdlePlans DEF Idle, StartSteps
  <2>5. CASE q = [new EXCEPT !.at = "package"] /\ m = {}
    <3>1. q.at = "package" /\ q.env = new.env /\ q.part = new.part /\ q.query = new.query
      BY <2>5 DEF Requests
    <3> QED
      BY <2>3, <2>5, <3>1 DEF Planned
  <2>6. ASSUME NEW u \in m, q = [new EXCEPT !.at = "terminate", !.uid = u],
               \A w \in m : instance[w].version <= instance[u].version
        PROVE  Planned(q)
    <3>1. /\ q.at = "terminate" /\ q.env = new.env /\ q.part = new.part
          /\ q.query = new.query /\ q.uid = u
      BY <2>6 DEF Requests
    <3>2. ASSUME new.part # DefaultPartition, NEW w \in There(new.env, new.part, x) PROVE w = u
      <4>1. w \in m /\ instance[w].version = x
        BY <2>3 DEF There
      <4>2. instance[u].version \in new.query /\ x <= instance[u].version
        BY <2>6, <4>1 DEF Matches
      <4>3. instance[u].version = x
        <5>1. PICK v \in new.query : v = instance[u].version
          BY <4>2
        <5>2. v <= x /\ x <= v /\ v \in Nat /\ x \in Nat
          <6> HIDE DEF x
          <6> QED
            BY <2>1, <2>2, <4>2, <5>1
        <5> HIDE DEF x
        <5> QED
          BY <5>1, <5>2
      <4>4. u \in There(new.env, new.part, x)
        BY <4>3 DEF There, Matches
      <4> QED
        BY <2>1, <2>2, <3>2, <4>4 DEF PlacesInv, Alone, Elsewhere
    <3> QED
      BY <3>1, <3>2 DEF Planned
  <2> QED
    BY <1>2, <2>4, <2>5, <2>6, Zenon DEF Queried
<1>3. CASE q.at = "install" /\ q.op = "graph"
  BY <1>3 DEF Planned
<1>4. CASE /\ req[r].at = "package" /\ q.at \in {"install", "port"}
           /\ q.env = req[r].env /\ q.part = req[r].part /\ q.version = Max(req[r].query)
  BY <1>4 DEF PlacesInv, Planned
<1>5. CASE /\ req[r].at = "install" /\ req[r].op # "graph"
           /\ q = [req[r] EXCEPT !.at = "port"]
  <2>1. /\ q.at = "port" /\ q.env = req[r].env /\ q.part = req[r].part
        /\ q.version = req[r].version
    BY <1>5 DEF TypeInv, RequestsOK, ReqOK, Requests
  <2> QED
    BY <1>5, <2>1 DEF PlacesInv, Planned
<1> QED
  BY <1>1, <1>2, <1>3, <1>4, <1>5 DEF Plans
\* Steps other than a registration thin the places.
LEMMA MoveThins ==
  ASSUME TypeInv, UNCHANGED <<instance, store>>
  PROVE  Thins /\ \A part, v : \A e \in Env : There(e, part, v)' = There(e, part, v)
<1>1. /\ Started' = Started /\ Keeps
      /\ \A e \in Env : Uids(e)' = Uids(e)
  BY StoreStays, InstancesStay DEF TypeInv, SameInstances
<1>2. Thins
  BY <1>1, ThinsIs DEF Keeps, SameAs
<1> QED
  BY <1>1, <1>2 DEF There

\* The places, the requests and the instances after a removal.
LEMMA RemovalIs ==
  ASSUME TypeInv, NEW r \in Request, NEW q, ReqOK(q), q.at \notin Waiting, Becomes(r, q),
         NEW e \in Env, NEW u \in Uids(e), Terminate(e, u)
  PROVE  /\ Thins /\ SameInstances
         /\ \A part, v : There(e, part, v)' = There(e, part, v) \ {u}
         /\ \A part, v : \A f \in Env : f # e => There(f, part, v)' = There(f, part, v)
<1>1. /\ SameInstances /\ Uids(e)' = Uids(e) \ {u}
      /\ \A f \in Env : f # e => Uids(f)' = Uids(f)
  BY TerminateStep
<1>2. \A f \in Env : Uids(f)' \subseteq Uids(f)
  BY <1>1
<1>3. Thins
  BY <1>1, <1>2, ThinsIs DEF SameInstances, Keeps, SameAs
<1>4. \A f \in Env : \A w \in Uids(f) : w \in Started
  BY DEF TypeInv, UidsOK
<1>7. \A w \in Started : /\ instance'[w].part = instance[w].part
                          /\ instance'[w].version = instance[w].version
  BY <1>1 DEF SameInstances, Keeps, SameAs
<1>5. \A part, v : There(e, part, v)' = There(e, part, v) \ {u}
  BY <1>1, <1>4, <1>7 DEF There
<1>6. \A part, v : \A f \in Env : f # e => There(f, part, v)' = There(f, part, v)
  BY <1>1, <1>4, <1>7 DEF There
<1> QED
  BY <1>1, <1>3, <1>5, <1>6

\* A named instance serves nothing until it is registered.
LEMMA NameThins ==
  ASSUME TypeInv, NEW i, InstanceOK(i), Started # Uid,
         instance' = [instance EXCEPT ![Fresh] = i], UNCHANGED store
  PROVE  Thins /\ \A part, v : \A e \in Env : There(e, part, v)' = There(e, part, v)
<1>1. /\ Started \subseteq Started' /\ \A w \in Started : instance'[w] = instance[w]
  BY StartIs DEF TypeInv
<1>2. \A e \in Env : Uids(e)' = Uids(e) /\ \A w \in Uids(e) : w \in Started
  BY StoreStays DEF TypeInv, UidsOK
<1>3. Thins
  BY <1>1, <1>2, ThinsIs
<1> QED
  BY <1>1, <1>2, <1>3 DEF There

\* The server of a user leaves the places outside of the default partition.
LEMMA RunStartThins ==
  ASSUME TypeInv, RunStart
  PROVE  /\ Thins
         /\ \A v : \A e \in Env, part \in Elsewhere : There(e, part, v)' = There(e, part, v)
         /\ Started' = Started \cup {Fresh} /\ Fresh \in Uid /\ Fresh \notin Started
<1>1. PICK i : /\ InstanceOK(i) /\ i.part = DefaultPartition /\ Started # Uid
               /\ instance' = [instance EXCEPT ![Fresh] = i]
               /\ Register(env, Fresh) /\ UNCHANGED req
  BY DEF RunStart
<1>2. /\ Fresh \in Uid /\ Fresh \notin Started /\ instance'[Fresh] = i
      /\ Started' = Started \cup {Fresh} /\ \A w \in Started : instance'[w] = instance[w]
  BY <1>1, StartIs DEF TypeInv
<1>3. PICK u \in Uid, e \in Env : u = Fresh /\ e = env
  BY <1>2 DEF TypeInv
<1>4. \A f \in Env : \A w \in Uids(f) : w \in Started
  BY DEF TypeInv, UidsOK
<1>5. /\ Uids(e)' = Uids(e) \cup {u}
      /\ \A f \in Env : f # e => Uids(f)' = Uids(f)
  BY <1>1, <1>2, <1>3, <1>4, RegisterIs DEF TypeInv
<1>6. \A f \in Env : Uids(f)' = Uids(f) \/ Uids(f)' = Uids(f) \cup {u}
  BY <1>5
<1>7. \A v : \A f \in Env, part \in Elsewhere : There(f, part, v)' = There(f, part, v)
  <2> SUFFICES ASSUME NEW f \in Env, NEW part \in Elsewhere, NEW v
               PROVE  There(f, part, v)' = There(f, part, v)
    OBVIOUS
  <2>1. \A w \in Uids(f) : instance'[w] = instance[w]
    BY <1>2, <1>4
  <2>2. instance'[u].part # part
    BY <1>1, <1>2, <1>3 DEF Elsewhere
  <2> QED
    BY <1>6, <2>1, <2>2 DEF There
<1>8. Thins
  BY <1>2, <1>7 DEF Thins
<1> QED
  BY <1>2, <1>7, <1>8

\* A process that goes on changes no place.
LEMMA ProcessThins ==
  ASSUME TypeInv, NEW u \in Started, NEW x \in {"booting", "listening", "ended"},
         ProcessIs(u, x), UNCHANGED store
  PROVE  /\ Thins /\ Started' = Started
         /\ \A part, v : \A e \in Env : There(e, part, v)' = There(e, part, v)
<1>1. SameInstances /\ \A w \in Started : /\ instance'[w].part = instance[w].part
                                         /\ instance'[w].version = instance[w].version
  BY GoesOn DEF TypeInv, SameInstances, Keeps, SameAs
<1>2. \A e \in Env : Uids(e)' = Uids(e) /\ \A w \in Uids(e) : w \in Started
  BY StoreStays DEF TypeInv, UidsOK
<1>3. Thins
  BY <1>1, <1>2, ThinsIs DEF SameInstances
<1> QED
  BY <1>1, <1>2, <1>3 DEF There, SameInstances

\* Neither does the server of a run step outside of the default partition.
LEMMA ExecutedThins ==
  ASSUME TypeInv, NEW u \in Uid, Executed(u)
  PROVE  /\ Thins /\ Started' = Started
         /\ \A v : \A e \in Env, part \in Elsewhere : There(e, part, v)' = There(e, part, v)
<1>1. /\ u \in Started /\ SameInstances /\ instance[u].part = DefaultPartition
      /\ \A f \in Env : Uids(f)' = Uids(f) \cup (IF f = instance[u].env THEN {u} ELSE {})
  BY ExecutedStep
<1>2. /\ Started' = Started
      /\ \A w \in Started : /\ instance'[w].part = instance[w].part
                            /\ instance'[w].version = instance[w].version
  BY <1>1 DEF SameInstances, Keeps, SameAs
<1>3. \A f \in Env : \A w \in Uids(f) : w \in Started
  BY DEF TypeInv, UidsOK
<1>4. ASSUME NEW f \in Env, NEW part \in Elsewhere, NEW v
      PROVE  There(f, part, v)' = There(f, part, v)
  <2>1. instance'[u].part # part
    BY <1>1, <1>2 DEF Elsewhere
  <2>2. Uids(f)' = Uids(f) \/ Uids(f)' = Uids(f) \cup {u}
    BY <1>1
  <2>3. u \notin There(f, part, v)
    BY <1>1 DEF There, Elsewhere
  <2> QED
    BY <1>2, <1>3, <2>1, <2>2, <2>3 DEF There
<1>5. Thins
  BY <1>2, <1>4 DEF Thins
<1> QED
  BY <1>2, <1>4, <1>5

\* A registration gives the place of the instance to it, when it is outside of the default
\* partition, and leaves the other places.
LEMMA ReadyIs ==
  ASSUME TypeInv, PlacesInv, NEW r \in Request, Ready(r)
  PROVE  LET u == req[r].uid
             i == instance[req[r].uid]
             e == req[r].env
         IN /\ u \in Started /\ u \in Uid /\ e \in Env /\ i.part \in Partition
            /\ i.version \in Version /\ UNCHANGED instance
            /\ \A v : \A f \in Env, part \in Elsewhere :
                 There(f, part, v)' = IF <<f, part, v>> = <<e, i.part, i.version>> THEN {u}
                                      ELSE There(f, part, v)
            /\ i.part # DefaultPartition => There(e, i.part, i.version) = {}
<1> DEFINE u == req[r].uid
           i == instance[req[r].uid]
           e == req[r].env
<1>1. /\ u \in Started /\ e \in Env
      /\ \A f \in Env : Uids(f)' = Uids(f) \cup (IF f = e THEN {u} ELSE {})
  BY ReadyStep
<1>2. UNCHANGED instance /\ i \in Instances /\ u \in Uid
  BY <1>1 DEF Ready, TypeInv, InstancesOK, InstanceOK, Started
<1>3. i.part \in Partition /\ i.version \in Version
  BY <1>2 DEF Instances
<1>4. i.part # DefaultPartition => There(e, i.part, i.version) = {}
  BY DEF PlacesInv, Awaited, Ready, At, Waiting
<1> HIDE DEF u, i, e
<1>5. ASSUME NEW f \in Env, NEW part \in Elsewhere, NEW v
      PROVE  There(f, part, v)' = IF <<f, part, v>> = <<e, i.part, i.version>> THEN {u}
                                  ELSE There(f, part, v)
  <2>1. part # DefaultPartition
    BY DEF Elsewhere
  <2>2. There(f, part, v)' = {w \in Uids(f) \cup (IF f = e THEN {u} ELSE {}) :
                                instance[w].part = part /\ instance[w].version = v}
    BY <1>1, <1>2 DEF There
  <2>3. i = instance[u]
    BY DEF i, u
  <2>4. CASE <<f, part, v>> = <<e, i.part, i.version>>
    <3>1. There(f, part, v) = {}
      BY <1>4, <2>1, <2>4
    <3> QED
      BY <2>2, <2>3, <2>4, <3>1 DEF There
  <2>5. CASE <<f, part, v>> # <<e, i.part, i.version>>
    BY <2>2, <2>3, <2>5 DEF There
  <2> QED
    BY <2>4, <2>5
<1> QED
  BY <1>1, <1>2, <1>3, <1>4, <1>5 DEF u, i, e
\* The invariant, after a step that thins the places.
LEMMA PlacesKept ==
  ASSUME TypeInv, PlacesInv, Thins,
         \A r \in Request :
           req'[r] = req[r] \/ \E q : q = req'[r] /\ Planned(q)' /\ Awaited(q)'
  PROVE  PlacesInv'
<1>1. Alone'
  BY AloneKept DEF PlacesInv
<1>2. ASSUME NEW r \in Request PROVE Planned(req[r])' /\ Awaited(req[r])'
  <2>1. CASE req'[r] = req[r]
    <3>1. PICK q : q = req[r] /\ q = req'[r]
      BY <2>1
    <3>2. ReqOK(q) /\ Planned(q)
      BY <3>1 DEF TypeInv, RequestsOK, PlacesInv
    <3>3. Planned(q)'
      BY <3>2, PlannedKept
    <3>4. Planned(req[r])'
      BY <3>1, <3>3 DEF Planned
    <3>5. Awaited(req[r])'
      BY <2>1, AwaitedKept DEF PlacesInv
    <3> QED
      BY <3>4, <3>5
  <2>2. CASE req'[r] # req[r]
    <3>1. PICK q : q = req'[r] /\ Planned(q)' /\ Awaited(q)'
      BY <2>2
    <3> QED
      BY <3>1 DEF Planned, Awaited
  <2> QED
    BY <2>1, <2>2
<1> QED
  BY <1>1, <1>2 DEF PlacesInv
\* The only request that starts backends keeps the place free until it registers.
LEMMA PlacesMove ==
  ASSUME TypeInv, PlacesInv, Move
  PROVE  PlacesInv'
<1>1. PICK r \in Request : \E q : Moves(r, q) /\ Plans(r, q)
  BY DEF Move
<1>2. PICK q : Moves(r, q) /\ Plans(r, q)
  BY <1>1
<1>3. /\ ReqOK(q) /\ q.at \notin Waiting /\ Becomes(r, q) /\ UNCHANGED <<instance, store>>
  BY <1>2 DEF Moves
<1>4. Thins
  BY <1>3, MoveThins
<1>5. Planned(q)'
  BY <1>2, <1>3, <1>4, MovePlans, PlannedKept
<1>6. Awaited(q)'
  BY <1>3 DEF Awaited
<1>7. req'[r] = q /\ \A s \in Request : s # r => req'[s] = req[s]
  BY <1>3, BecomesIs DEF TypeInv
<1> QED
  BY <1>4, <1>5, <1>6, <1>7, PlacesKept

\* An instance is removed: if its request goes on, its place is free.
LEMMA PlacesRemoval ==
  ASSUME TypeInv, PlacesInv, Removal
  PROVE  PlacesInv'
<1>1. PICK r, e, u, q :
        /\ r \in Request /\ e \in Env /\ u \in Uids(e)
        /\ ReqOK(q) /\ q.at \notin Waiting /\ Becomes(r, q) /\ Terminate(e, u)
        /\ \/ q.at \notin StartSteps
           \/ /\ req[r].at = "terminate" /\ e = req[r].env /\ u = req[r].uid
              /\ q = [req[r] EXCEPT !.at = "package", !.uid = NoUid]
  BY Zenon DEF Removal
<1>2. /\ Thins
      /\ \A part, v : There(e, part, v)' = There(e, part, v) \ {u}
  BY <1>1, RemovalIs
<1>3. req'[r] = q /\ \A s \in Request : s # r => req'[s] = req[s]
  BY <1>1, BecomesIs DEF TypeInv
<1>4. Planned(q)'
  <2>1. CASE q.at \notin StartSteps
    BY <2>1 DEF Planned, StartSteps
  <2>2. CASE /\ req[r].at = "terminate" /\ e = req[r].env /\ u = req[r].uid
             /\ q = [req[r] EXCEPT !.at = "package", !.uid = NoUid]
    <3>1. /\ q.at = "package" /\ q.env = e /\ q.part = req[r].part
          /\ q.query = req[r].query
      BY <1>1, <2>2 DEF TypeInv, RequestsOK, ReqOK, Requests
    <3>2. PICK part, m : part = q.part /\ m = Max(q.query)
      OBVIOUS
    <3>3. part # DefaultPartition => There(e, part, m) \subseteq {u}
      BY <1>1, <2>2, <3>1, <3>2 DEF PlacesInv, Planned
    <3>4. part # DefaultPartition => There(e, part, m)' = {}
      BY <1>2, <3>3
    <3> QED
      BY <3>1, <3>2, <3>4 DEF Planned
  <2> QED
    BY <1>1, <2>1, <2>2
<1>5. Awaited(q)'
  BY <1>1 DEF Awaited
<1> QED
  BY <1>2, <1>3, <1>4, <1>5, PlacesKept

\* An instance is named for a place that is free.
LEMMA PlacesChoose ==
  ASSUME TypeInv, PlacesInv, NEW r \in Request, ChoosePort(r)
  PROVE  PlacesInv'
<1>1. PICK i, q :
        /\ InstanceOK(i) /\ i.part = req[r].part /\ i.version = req[r].version
        /\ instance' = [instance EXCEPT ![Fresh] = i]
        /\ ReqOK(q) /\ q.at = "spawn" /\ q.uid = Fresh /\ q.env = req[r].env
        /\ Becomes(r, q)
  BY ChoosePortIs
<1>2. /\ Thins
      /\ \A part, v : \A e \in Env : There(e, part, v)' = There(e, part, v)
  BY <1>1, NameThins DEF ChoosePort
<1>3. req'[r] = q /\ \A s \in Request : s # r => req'[s] = req[s]
  BY <1>1, BecomesIs DEF TypeInv
<1>4. Planned(q)'
  BY <1>1 DEF Planned
<1>5. instance'[q.uid] = i
  BY <1>1, StartIs DEF TypeInv, ChoosePort
<1>6. ASSUME i.part # DefaultPartition PROVE There(q.env, i.part, i.version)' = {}
  <2>1. There(q.env, i.part, i.version) = {}
    BY <1>1, <1>6 DEF PlacesInv, Planned, ChoosePort, At
  <2>2. q.env \in Env
    BY <1>1 DEF ReqOK, Requests
  <2> QED
    BY <1>2, <2>1, <2>2
<1>7. Awaited(q)'
  <2>2. There(q.env, instance[q.uid].part, instance[q.uid].version)'
          = There(q.env, i.part, i.version)'
    BY <1>5 DEF There
  <2> QED
    BY <1>5, <1>6, <2>2 DEF Awaited
<1> QED
  BY <1>2, <1>3, <1>4, <1>7, PlacesKept

\* Its process is created, or it is given up.
LEMMA PlacesSpawn ==
  ASSUME TypeInv, PlacesInv, NEW r \in Request, Spawn(r) \/ GivesUp(r)
  PROVE  PlacesInv'
<1>1. PICK x, q :
        /\ x \in {"booting", "listening", "ended"} /\ ReqOK(q)
        /\ Waits(r) /\ req[r].uid \in Started /\ ProcessIs(req[r].uid, x)
        /\ Becomes(r, q) /\ UNCHANGED store
        /\ \/ q.at = "ready" /\ q.uid = req[r].uid /\ q.env = req[r].env
           \/ q = Idle
  BY SpawnIs
<1>2. PICK u \in Started : u = req[r].uid
  BY <1>1
<1>3. ProcessIs(u, x)
  BY <1>1, <1>2
<1>4. /\ Thins
      /\ \A part, v : \A e \in Env : There(e, part, v)' = There(e, part, v)
  BY <1>1, <1>3, ProcessThins
<1>5. req'[r] = q /\ \A s \in Request : s # r => req'[s] = req[s]
  BY <1>1, BecomesIs DEF TypeInv
<1>6. Planned(q)'
  BY <1>1 DEF Planned, Idle
<1>7. Awaited(q)'
  <2>1. CASE q = Idle
    BY <2>1 DEF Awaited, Idle, Waiting
  <2>2. CASE q # Idle
    <3>1. q.uid = u /\ q.env = req[r].env /\ q.env \in Env
      BY <1>1, <1>2, <2>2 DEF ReqOK, Requests
    <3>2. PICK part, v : part = instance[u].part /\ v = instance[u].version
      OBVIOUS
    <3>3. instance'[u].part = part /\ instance'[u].version = v
      BY <1>4, <3>2 DEF Thins
    <3>4. part # DefaultPartition => There(q.env, part, v) = {}
      BY <1>1, <1>2, <3>1, <3>2 DEF PlacesInv, Awaited, Waits
    <3>5. part # DefaultPartition => There(q.env, part, v)' = {}
      BY <1>4, <3>1, <3>4
    <3>6. There(q.env, instance[q.uid].part, instance[q.uid].version)' = There(q.env, part, v)'
      BY <3>1, <3>3 DEF There
    <3> QED
      BY <3>1, <3>3, <3>5, <3>6 DEF Awaited
  <2> QED
    BY <2>1, <2>2
<1> QED
  BY <1>4, <1>5, <1>6, <1>7, PlacesKept

\* It is registered there, and no other request plans anything.
LEMMA PlacesReady ==
  ASSUME OneStarter, TypeInv, StartersOnly, PlacesInv, NEW r \in Request, Ready(r)
  PROVE  PlacesInv'
<1> DEFINE p == <<req[r].env, instance[req[r].uid].part, instance[req[r].uid].version>>
<1>1. \A v : \A f \in Env, part \in Elsewhere :
        There(f, part, v)' = IF <<f, part, v>> = p THEN {req[r].uid} ELSE There(f, part, v)
  BY ReadyIs
<1> HIDE DEF p
<1>2. Alone'
  BY <1>1 DEF PlacesInv, Alone
<1>3. req'[r] = Idle /\ \A s \in Request : s # r => req'[s] = req[s]
  BY ReadyStep
<1>4. ASSUME NEW s \in Request PROVE req'[s].at \notin StartSteps
  <2>1. CASE s = r
    BY <1>3, <2>1 DEF Idle, StartSteps
  <2>2. CASE s # r
    <3>1. req[r].at \in StartSteps
      BY DEF Ready, At, StartSteps
    <3> QED
      BY <1>3, <2>2, <3>1 DEF OneStarter, StartersOnly
  <2> QED
    BY <2>1, <2>2
<1>5. ASSUME NEW s \in Request PROVE Planned(req[s])' /\ Awaited(req[s])'
  BY <1>4 DEF Planned, Awaited, StartSteps, Waiting
<1> QED
  BY <1>2, <1>5 DEF PlacesInv

\* Every action preserves the invariant.
LEMMA PlacesNext ==
  ASSUME OneStarter, StarterInv, PlacesInv, Next
  PROVE  PlacesInv'
<1>1. TypeInv /\ StartersOnly
  BY DEF StarterInv
<1>2. CASE Quiet
  <2>1. UNCHANGED <<instance, store, req>>
    BY <1>2 DEF Quiet
  <2> QED
    BY <1>1, <2>1, MoveThins, PlacesKept
<1>3. CASE Move
  BY <1>1, <1>3, PlacesMove
<1>4. CASE Removal
  BY <1>1, <1>4, PlacesRemoval
<1>5. CASE RunStart
  <2>1. UNCHANGED req
    BY <1>5 DEF RunStart
  <2> QED
    BY <1>1, <1>5, <2>1, RunStartThins, PlacesKept
<1>6. ASSUME Names PROVE PlacesInv'
  <2>1. PICK i : /\ InstanceOK(i) /\ Started # Uid
                 /\ instance' = [instance EXCEPT ![Fresh] = i] /\ UNCHANGED <<store, req>>
    BY <1>6 DEF Names
  <2>2. Thins
    BY <1>1, <2>1, NameThins
  <2> QED
    BY <1>1, <2>1, <2>2, PlacesKept
<1>7. ASSUME NEW r \in Request, ChoosePort(r) \/ Spawn(r) \/ GivesUp(r) \/ Ready(r)
      PROVE  PlacesInv'
  BY <1>1, <1>7, PlacesChoose, PlacesSpawn, PlacesReady
<1>8. ASSUME NEW u \in Uid, Executed(u) PROVE PlacesInv'
  <2>1. UNCHANGED req
    BY <1>8 DEF Executed
  <2> QED
    BY <1>1, <1>8, <2>1, ExecutedThins, PlacesKept
<1>9. ASSUME NEW u \in Uid, Listens(u) \/ Ends(u) PROVE PlacesInv'
  <2>1. u \in Started /\ UNCHANGED <<store, req>>
    BY <1>9 DEF Listens, Ends
  <2>2. PICK x \in {"booting", "listening", "ended"} : ProcessIs(u, x)
    BY <1>9 DEF Listens, Ends
  <2>3. Thins
    BY <1>1, <2>1, <2>2, ProcessThins
  <2> QED
    BY <1>1, <2>1, <2>3, PlacesKept
<1> QED
  BY <1>1, <1>2, <1>3, <1>4, <1>5, <1>6, <1>7, <1>8, <1>9, StepKinds

\* What Serving sees.
View == [p \in Places |-> There(p[1], p[2], p[3])]

Spent == Started \ Starting

Sees ==
  \/ View' = View /\ Spent' = Spent
  \/ \E p \in Places : View' = [View EXCEPT ![p] = {}] /\ Spent' = Spent
  \/ \E p \in Places, i \in Uid : /\ View[p] = {} /\ i \notin Spent
                                  /\ View' = [View EXCEPT ![p] = {i}]
                                  /\ Spent' = Spent \cup {i}
  \/ \E i \in Uid : Spent' = Spent \cup {i} /\ View' = View

\* The parts of a place.
LEMMA PlaceIs ==
  ASSUME NEW p \in Places
  PROVE  /\ p = <<p[1], p[2], p[3]>>
         /\ p[1] \in Env /\ p[2] \in Elsewhere /\ p[3] \in Version
BY DEF Places, Elsewhere

\* No place changes.
LEMMA ViewStays ==
  ASSUME \A v : \A e \in Env, part \in Elsewhere : There(e, part, v)' = There(e, part, v)
  PROVE  View' = View
<1>1. \A p \in Places : There(p[1], p[2], p[3])' = There(p[1], p[2], p[3])
  BY PlaceIs
<1>2. View' = [p \in Places |-> There(p[1], p[2], p[3])']
  BY DEF View
<1> QED
  BY <1>1, <1>2 DEF View

\* One place changes.
LEMMA ViewChanges ==
  ASSUME NEW p \in Places, NEW S,
         \A v : \A e \in Env, part \in Elsewhere :
           There(e, part, v)' = IF <<e, part, v>> = p THEN S ELSE There(e, part, v)
  PROVE  View' = [View EXCEPT ![p] = S]
<1>1. \A o \in Places :
        There(o[1], o[2], o[3])' = IF o = p THEN S ELSE There(o[1], o[2], o[3])
  BY PlaceIs
<1>2. View' = [o \in Places |-> There(o[1], o[2], o[3])']
  BY DEF View
<1>3. [View EXCEPT ![p] = S] = [o \in Places |-> IF o = p THEN S ELSE There(o[1], o[2], o[3])]
  BY DEF View
<1> QED
  BY <1>1, <1>2, <1>3

\* A request that does not wait any more has given its instance up.
LEMMA SeesWithout ==
  ASSUME TypeInv, NEW r \in Request, View' = View, Started' = Started,
         Starting' = {req[s].uid : s \in {s \in Request \ {r} : Waits(s)}}
  PROVE  Sees
<1>1. CASE Waits(r)
  <2>1. /\ req[r].uid \in Started /\ req[r].uid \in Uid
        /\ \A s \in Request : Waits(s) /\ req[s].uid = req[r].uid => s = r
    BY <1>1 DEF TypeInv, UidsOK, WaitsWell, Started
  <2>2. Starting' = Starting \ {req[r].uid}
    BY <1>1, <2>1 DEF Starting, Waits, Waiting
  <2>3. Spent' = Spent \cup {req[r].uid}
    BY <2>1, <2>2 DEF Spent
  <2> QED
    BY <2>1, <2>3 DEF Sees
<1>2. CASE ~ Waits(r)
  <2>1. Starting' = Starting
    BY <1>2 DEF Starting, Waits, Waiting
  <2> QED
    BY <2>1 DEF Sees, Spent
<1> QED
  BY <1>1, <1>2

\* So has one that stops waiting.
LEMMA SeesMove ==
  ASSUME TypeInv, Move
  PROVE  Sees
<1>1. PICK r, q : /\ r \in Request /\ ReqOK(q) /\ q.at \notin Waiting /\ Becomes(r, q)
                  /\ UNCHANGED <<instance, store>>
  BY DEF Move, Moves
<1>2. /\ \A part, v : \A e \in Env : There(e, part, v)' = There(e, part, v)
      /\ Started' = Started
  BY <1>1, MoveThins DEF Started
<1>3. View' = View
  BY <1>2, ViewStays
<1>4. Starting' = {req[s].uid : s \in {s \in Request \ {r} : Waits(s)}}
  BY <1>1, StartingIs DEF TypeInv
<1> QED
  BY <1>1, <1>2, <1>3, <1>4, SeesWithout

\* A removal leaves the place of the instance to no one: none shared it.
LEMMA SeesRemoval ==
  ASSUME TypeInv, PlacesInv, Removal
  PROVE  Sees
<1>1. PICK r, e, u, q :
        /\ r \in Request /\ e \in Env /\ u \in Uids(e) /\ ~ Waits(r)
        /\ ReqOK(q) /\ q.at \notin Waiting /\ Becomes(r, q) /\ Terminate(e, u)
  BY Zenon DEF Removal
<1>2. /\ SameInstances
      /\ \A part, v : There(e, part, v)' = There(e, part, v) \ {u}
      /\ \A part, v : \A f \in Env : f # e => There(f, part, v)' = There(f, part, v)
  BY <1>1, RemovalIs
<1>3. Spent' = Spent
  <2>1. Starting' = {req[s].uid : s \in {s \in Request \ {r} : Waits(s)}}
    BY <1>1, StartingIs DEF TypeInv
  <2>2. Starting' = Starting
    BY <1>1, <2>1 DEF Starting, Waits, Waiting
  <2> QED
    BY <1>2, <2>2 DEF Spent, SameInstances
<1>4. PICK part, v : part = instance[u].part /\ v = instance[u].version
  OBVIOUS
<1>5. part \in Partition /\ v \in Version /\ u \in There(e, part, v)
  BY <1>1, <1>4 DEF There, TypeInv, UidsOK, InstancesOK, InstanceOK, Instances
<1>6. \A x, y : u \in There(e, x, y) => x = part /\ y = v
  BY <1>4 DEF There
<1>7. CASE part = DefaultPartition
  <2>1. \A y : \A f \in Env, x \in Elsewhere : There(f, x, y)' = There(f, x, y)
    BY <1>2, <1>6, <1>7 DEF Elsewhere
  <2> QED
    BY <1>3, <2>1, ViewStays DEF Sees
<1>8. CASE part # DefaultPartition
  <2>1. PICK p \in Places : p = <<e, part, v>>
    BY <1>1, <1>5, <1>8 DEF Places
  <2>2. There(e, part, v)' = {}
    BY <1>1, <1>2, <1>5, <1>8 DEF PlacesInv, Alone, Elsewhere
  <2>3. ASSUME NEW y, NEW f \in Env, NEW x \in Elsewhere
        PROVE  There(f, x, y)' = IF <<f, x, y>> = p THEN {} ELSE There(f, x, y)
    <3>1. CASE f # e
      BY <1>2, <2>1, <3>1
    <3>2. CASE f = e /\ x = part /\ y = v
      BY <2>1, <2>2, <3>2
    <3>3. CASE f = e /\ ~ (x = part /\ y = v)
      <4>1. u \notin There(f, x, y)
        BY <1>6, <3>3 DEF There
      <4> QED
        BY <1>2, <2>1, <3>3, <4>1
    <3> QED
      BY <3>1, <3>2, <3>3
  <2>4. View' = [View EXCEPT ![p] = {}]
    BY <2>3, ViewChanges
  <2> QED
    BY <1>3, <2>4 DEF Sees
<1> QED
  BY <1>7, <1>8

\* An instance that a request names, and waits for, is not given up yet.
LEMMA SeesChoose ==
  ASSUME TypeInv, NEW r \in Request, ChoosePort(r)
  PROVE  Sees
<1>1. PICK i, q :
        /\ InstanceOK(i) /\ instance' = [instance EXCEPT ![Fresh] = i]
        /\ ReqOK(q) /\ q.at = "spawn" /\ q.uid = Fresh /\ Becomes(r, q)
  BY ChoosePortIs
<1>2. \A part, v : \A e \in Env : There(e, part, v)' = There(e, part, v)
  BY <1>1, NameThins DEF ChoosePort
<1>3. Started' = Started \cup {Fresh}
  BY <1>1, StartIs DEF TypeInv, ChoosePort
<1>4. Fresh \notin Started
  BY <1>1, StartIs DEF TypeInv, ChoosePort
<1>5. Starting' = Starting \cup {Fresh}
  <2>1. Starting' = {req[s].uid : s \in {s \in Request \ {r} : Waits(s)}} \cup {Fresh}
    BY <1>1, StartingIs DEF TypeInv, Waiting
  <2>2. ~ Waits(r)
    BY DEF ChoosePort, At, Waits, Waiting
  <2> QED
    BY <2>1, <2>2 DEF Starting, Waits, Waiting
<1> HIDE DEF Fresh
<1>6. Spent' = Spent
  BY <1>3, <1>4, <1>5 DEF Spent
<1> QED
  BY <1>2, <1>6, ViewStays DEF Sees

\* Nor is one whose process is created.
LEMMA SeesSpawn ==
  ASSUME TypeInv, NEW r \in Request, Spawn(r) \/ GivesUp(r)
  PROVE  Sees
<1>1. PICK x, q :
        /\ x \in {"booting", "listening", "ended"} /\ ReqOK(q)
        /\ Waits(r) /\ req[r].uid \in Started /\ ProcessIs(req[r].uid, x)
        /\ Becomes(r, q) /\ UNCHANGED store
        /\ \/ q.at = "ready" /\ q.uid = req[r].uid
           \/ q = Idle
  BY SpawnIs
<1>2. PICK u \in Started : u = req[r].uid
  BY <1>1
<1>3. ProcessIs(u, x)
  BY <1>1, <1>2
<1>4. View' = View /\ Started' = Started
  BY <1>1, <1>3, ProcessThins, ViewStays
<1>5. CASE q = Idle
  <2>1. q.at \notin Waiting
    BY <1>5 DEF Idle, Waiting
  <2>2. Starting' = {req[s].uid : s \in {s \in Request \ {r} : Waits(s)}}
    BY <1>1, <2>1, StartingIs DEF TypeInv
  <2> QED
    BY <1>4, <2>2, SeesWithout
<1>6. CASE q # Idle
  <2>1. q.at \in Waiting /\ q.uid = u
    BY <1>1, <1>2, <1>6 DEF Waiting
  <2>2. Starting' = {req[s].uid : s \in {s \in Request \ {r} : Waits(s)}} \cup {u}
    BY <1>1, <2>1, StartingIs DEF TypeInv
  <2>3. Starting' = Starting
    BY <1>1, <1>2, <2>2 DEF Starting, Waits, Waiting
  <2> QED
    BY <1>4, <2>3 DEF Sees, Spent
<1> QED
  BY <1>5, <1>6

\* A registration outside of the default partition begins to serve a free place.
LEMMA SeesReady ==
  ASSUME TypeInv, PlacesInv, NEW r \in Request, Ready(r)
  PROVE  Sees
<1>1. PICK u, i, e : u = req[r].uid /\ i = instance[req[r].uid] /\ e = req[r].env
  OBVIOUS
<1>2. /\ u \in Started /\ u \in Uid /\ e \in Env /\ i.part \in Partition
      /\ i.version \in Version /\ UNCHANGED instance
      /\ \A v : \A f \in Env, part \in Elsewhere :
           There(f, part, v)' = IF <<f, part, v>> = <<e, i.part, i.version>> THEN {u}
                                ELSE There(f, part, v)
      /\ i.part # DefaultPartition => There(e, i.part, i.version) = {}
  BY <1>1, ReadyIs
<1>3. u \in Starting /\ \A s \in Request : Waits(s) /\ req[s].uid = u => s = r
  BY <1>1 DEF Ready, At, Waits, Waiting, Starting, TypeInv, UidsOK, WaitsWell
<1>4. Starting' = Starting \ {u}
  <2>1. Becomes(r, Idle) /\ ReqOK(Idle) /\ Idle.at \notin Waiting /\ Waits(r)
    BY IdleOK DEF Ready, Finish, Idle, At, Waits, Waiting
  <2>2. Starting' = {req[s].uid : s \in {s \in Request \ {r} : Waits(s)}}
    BY <2>1, StartingIs DEF TypeInv
  <2> QED
    BY <1>1, <1>3, <2>1, <2>2 DEF Starting, Waits, Waiting
<1>5. Spent' = Spent \cup {u} /\ u \notin Spent
  BY <1>2, <1>3, <1>4 DEF Spent, Started
<1>6. CASE i.part = DefaultPartition
  <2>1. \A v : \A f \in Env, part \in Elsewhere : There(f, part, v)' = There(f, part, v)
    BY <1>2, <1>6 DEF Elsewhere
  <2> QED
    BY <1>2, <1>5, <2>1, ViewStays DEF Sees
<1>7. CASE i.part # DefaultPartition
  <2>1. PICK p \in Places : p = <<e, i.part, i.version>>
    BY <1>2, <1>7 DEF Places
  <2>2. View[p] = {}
    BY <1>2, <1>7, <2>1 DEF View
  <2>3. View' = [View EXCEPT ![p] = {u}]
    BY <1>2, <2>1, ViewChanges
  <2> QED
    BY <1>2, <1>5, <2>2, <2>3 DEF Sees
<1> QED
  BY <1>6, <1>7

\* Every step of Backends is a step of Serving, or none.
LEMMA SeesNext ==
  ASSUME TypeInv, PlacesInv, Next
  PROVE  Sees
<1>1. CASE Quiet
  <2>1. UNCHANGED <<instance, store, req>>
    BY <1>1 DEF Quiet
  <2>2. View' = View
    BY <2>1, MoveThins, ViewStays
  <2> QED
    BY <2>1, <2>2 DEF Sees, Spent, Started, Starting, At
<1>2. ASSUME RunStart \/ Names PROVE Sees
  <2>1. View' = View /\ Started' = Started \cup {Fresh} /\ Fresh \in Uid /\ Fresh \notin Started
    <3>1. CASE RunStart
      BY <3>1, RunStartThins, ViewStays
    <3>2. CASE Names
      <4>1. PICK i : /\ InstanceOK(i) /\ Started # Uid
                     /\ instance' = [instance EXCEPT ![Fresh] = i] /\ UNCHANGED <<store, req>>
        BY <3>2 DEF Names
      <4>2. View' = View
        BY <4>1, NameThins, ViewStays
      <4> QED
        BY <4>1, <4>2, StartIs DEF TypeInv
    <3> QED
      BY <1>2, <3>1, <3>2
  <2>2. Starting' = Starting
    BY <1>2 DEF RunStart, Names, Starting
  <2>3. Starting \subseteq Started
    BY StartingApart
  <2>4. PICK u \in Uid : u = Fresh
    BY <2>1
  <2>5. Spent' = Spent \cup {u}
    BY <2>1, <2>2, <2>3, <2>4 DEF Spent
  <2> QED
    BY <2>1, <2>5 DEF Sees
<1>3. ASSUME NEW u \in Uid, Listens(u) \/ Ends(u) \/ Executed(u) PROVE Sees
  <2>1. View' = View /\ Started' = Started
    <3>1. CASE Executed(u)
      BY <3>1, ExecutedThins, ViewStays
    <3>2. CASE Listens(u) \/ Ends(u)
      <4>1. u \in Started /\ UNCHANGED store
        BY <3>2 DEF Listens, Ends
      <4>2. PICK x \in {"booting", "listening", "ended"} : ProcessIs(u, x)
        BY <3>2 DEF Listens, Ends
      <4> QED
        BY <4>1, <4>2, ProcessThins, ViewStays
    <3> QED
      BY <1>3, <3>1, <3>2
  <2>2. UNCHANGED req
    BY <1>3 DEF Listens, Ends, Executed
  <2> QED
    BY <2>1, <2>2 DEF Sees, Spent, Starting
<1> QED
  BY <1>1, <1>2, <1>3, SeesMove, SeesRemoval, SeesChoose, SeesSpawn, SeesReady, StepKinds

\* The invariant of all behaviors.
LEMMA PlacesAlways ==
  ASSUME OneStarter
  PROVE  Spec => [](TypeInv /\ PlacesInv)
<1>1. Init => PlacesInv
  <2> SUFFICES ASSUME Init PROVE PlacesInv
    OBVIOUS
  <2>1. Alone
    BY DEF Init, Alone, There, Uids, Range
  <2>2. \A r \in Request : req[r] = Idle
    BY DEF Init
  <2>3. Planned(Idle) /\ Awaited(Idle)
    BY IdlePlans DEF Idle, StartSteps
  <2> QED
    BY <2>1, <2>2, <2>3 DEF PlacesInv
<1>2. PlacesInv /\ UNCHANGED vars => PlacesInv'
  BY DEF vars, PlacesInv, Alone, Planned, Awaited, There, Uids
<1>3. StarterInv /\ PlacesInv /\ [Next]_vars => PlacesInv'
  BY <1>2, PlacesNext
<1>4. StarterInv => TypeInv
  BY DEF StarterInv
<1> QED
  BY <1>1, <1>3, <1>4, StarterInvAlways, PTL DEF Spec

\* With one request that starts backends at a time, and whatever requests end them,
\* processes crash and environments are reloaded, the store implements Serving: outside of
\* the default partition a place has one instance at most, and no late registration brings
\* back one that was given up.
THEOREM StoreServesOnce ==
  ASSUME OneStarter
  PROVE  Spec => ServesOnce
<1>1. Init => ServingView!Init
  <2> SUFFICES ASSUME Init PROVE ServingView!Init
    OBVIOUS
  <2>1. \A e \in Env : Uids(e) = {}
    BY DEF Init, Uids, Range
  <2>2. \A p \in Places : Uids(p[1]) = {}
    BY <2>1, PlaceIs
  <2>3. Started = {}
    BY DEF Init, Started
  <2> QED
    BY <2>2, <2>3 DEF ServingView!Init
<1>2. ASSUME TypeInv, PlacesInv, [Next]_vars
      PROVE  [ServingView!Next]_<<View, Spent>>
  <2>1. CASE Next
    <3>1. Sees
      BY <2>1, <1>2, SeesNext
    <3> QED
      BY <3>1 DEF Sees, ServingView!Next, ServingView!Start, ServingView!Stop,
                  ServingView!Discard, View, Spent, There
  <2>2. CASE UNCHANGED vars
    BY <2>2 DEF vars, View, Spent, There, Uids, Started, Starting, At
  <2> QED
    BY <1>2, <2>1, <2>2
<1>3. TypeInv /\ PlacesInv /\ [Next]_vars => [ServingView!Next]_<<View, Spent>>
  BY <1>2
<1> QED
  BY <1>1, <1>3, PlacesAlways, PTL DEF Spec, ServesOnce, ServingView!Spec, View, Spent, There
=============================================================================
