----------------------- MODULE ConnectionManagerProofs -----------------------
(* Theorems about ConnectionManager, for any number of connections and any *)
(* kEnlargeUnit.                                                           *)
EXTENDS ConnectionManager, ListLemmas, SequenceTheorems, FiniteSetTheorems, TLAPS

Adding(t) == pc[t] \in {"check", "add"}

(* What the threads hold: a connection being added is in no slot and with  *)
(* one thread only; only the NetThread sweeps.                             *)
ThreadInv ==
    /\ \A t \in Threads : Adding(t) => arg[t] \in Conns /\ life[arg[t]] = "made"
    /\ Adding("main") /\ Adding("net") => arg["main"] # arg["net"]
    /\ pc["main"] # "sweep"

(* A taken slot holds a live connection that knows its slot.               *)
PoolSound ==
    \A u \in 0 .. capacity - 1 :
        pool[u] # None => life[pool[u]] = "live" /\ uid[pool[u]] = u

(* A live connection has a uid other than kInvalidUid.                     *)
LiveHasUid == \A c \in Live : uid[c] \in 1 .. capacity - 1

TypeInv == TypeOK /\ ThreadInv /\ PoolSound /\ LiveHasUid

(* A new ConnectionManager satisfies TypeInv.                              *)
LEMMA TypeInit == Init => TypeInv
  <1> SUFFICES ASSUME Init PROVE TypeInv
    OBVIOUS
  <1> USE ConnectionManagerAssumption
  <1>1. capacity \in Nat \ {0} /\ size \in 1 .. capacity
    BY DEF Init
  <1>2. pool \in [0 .. capacity - 1 -> Conns \cup {None}]
    BY DEF Init
  <1>3. free \in Seq(1 .. capacity - 1)
    BY <1>1 DEF Init
  <1>4. uid \in [Conns -> 0 .. capacity - 1]
    BY <1>1 DEF Init, kInvalidUid
  <1>5. /\ life \in [Conns -> {"new", "made", "live", "closed"}]
        /\ overdue \in SUBSET Conns
        /\ pc \in [Threads -> {"idle", "check", "add", "sweep"}]
        /\ arg \in [Threads -> Conns \cup {None}]
        /\ sweep \in Nat /\ fault \in {"none", "assert", "front"}
    BY DEF Init
  <1>6. TypeOK
    BY <1>1, <1>2, <1>3, <1>4, <1>5 DEF TypeOK
  <1>7. ThreadInv
    BY DEF Init, ThreadInv, Adding, Threads
  <1>8. PoolSound
    BY DEF Init, PoolSound
  <1>9. LiveHasUid
    BY DEF Init, LiveHasUid, Live
  <1> QED BY <1>6, <1>7, <1>8, <1>9 DEF TypeInv

(* Growing the pool: the capacity grows by at least kEnlargeUnit, and the  *)
(* new places are exactly the uids from the old capacity on.               *)
LEMMA Growth ==
    ASSUME TypeOK, NEW n, NEW m, n = capacity + kEnlargeUnit, m = NewCapacity(n)
    PROVE  /\ n \in Nat /\ m \in Nat /\ n > capacity /\ m >= n
           /\ NewPlaces(m) \in Seq(1 .. m - 1)
           /\ Len(NewPlaces(m)) = m - capacity
           /\ \A i \in 1 .. m - capacity : NewPlaces(m)[i] = capacity + i - 1
           /\ Reallocated(m) \in [0 .. m - 1 -> Conns \cup {None}]
  <1>1. n \in Nat /\ m \in Nat /\ n > capacity /\ m >= n
    BY ConnectionManagerAssumption DEF TypeOK, NewCapacity
  <1>2. \A i \in 1 .. m - capacity : capacity + i - 1 \in 1 .. m - 1
    BY <1>1 DEF TypeOK
  <1>3. m - capacity \in Nat
    BY <1>1 DEF TypeOK
  <1>4. /\ NewPlaces(m) \in Seq(1 .. m - 1)
        /\ Len(NewPlaces(m)) = m - capacity
        /\ \A i \in 1 .. m - capacity : NewPlaces(m)[i] = capacity + i - 1
    <2> DEFINE k == m - capacity
    <2> HIDE DEF k
    <2>1. [i \in 1 .. k |-> capacity + i - 1] \in Seq(1 .. m - 1)
      <3>1. [i \in 1 .. k |-> capacity + i - 1] \in [1 .. k -> 1 .. m - 1]
        BY <1>2 DEF k
      <3>2. k \in Nat
        BY <1>3 DEF k
      <3> QED BY <3>1, <3>2, SeqDef
    <2>2. /\ Len([i \in 1 .. k |-> capacity + i - 1]) = k
          /\ \A i \in 1 .. k : [j \in 1 .. k |-> capacity + j - 1][i] = capacity + i - 1
      BY <1>3 DEF k
    <2> QED BY <2>1, <2>2 DEF NewPlaces, k
  <1>5. Reallocated(m) \in [0 .. m - 1 -> Conns \cup {None}]
    BY <1>1 DEF Reallocated, TypeOK
  <1> QED BY <1>1, <1>4, <1>5

(* What giving back the slot u of connection pool[u] does.                 *)
LEMMA Released ==
    ASSUME TypeInv, NEW u \in 0 .. capacity - 1, pool[u] # None, Release(u)
    PROVE  /\ pool[u] \in Live /\ uid[pool[u]] = u /\ u \in 1 .. capacity - 1
           /\ free' = <<u>> \o free /\ free' \in Seq(1 .. capacity - 1)
           /\ pool' \in [0 .. capacity - 1 -> Conns \cup {None}]
           /\ life' \in [Conns -> {"new", "made", "live", "closed"}]
           /\ life' = [life EXCEPT ![pool[u]] = "closed"]
           /\ pool' = [pool EXCEPT ![u] = None]
  <1>1. pool[u] \in Conns
    BY DEF TypeInv, TypeOK
  <1>2. pool[u] \in Live /\ uid[pool[u]] = u /\ u \in 1 .. capacity - 1
    BY <1>1 DEF TypeInv, PoolSound, LiveHasUid, Live
  <1>3. free' = <<u>> \o free
    BY <1>2 DEF Release
  <1>4. free' \in Seq(1 .. capacity - 1)
    <2>1. <<u>> \in Seq(1 .. capacity - 1) /\ free \in Seq(1 .. capacity - 1)
      BY <1>2 DEF TypeInv, TypeOK
    <2> QED BY <1>3, <2>1, ConcatProperties
  <1>5. pool' \in [0 .. capacity - 1 -> Conns \cup {None}]
    BY DEF Release, TypeInv, TypeOK
  <1>6. life' \in [Conns -> {"new", "made", "live", "closed"}]
    BY DEF Release, TypeInv, TypeOK
  <1>7. /\ life' = [life EXCEPT ![pool[u]] = "closed"]
        /\ pool' = [pool EXCEPT ![u] = None]
    BY DEF Release
  <1> QED BY <1>2, <1>3, <1>4, <1>5, <1>6, <1>7

(* Release keeps the invariant.                                            *)
LEMMA ReleaseType ==
    ASSUME TypeInv, NEW u \in 0 .. capacity - 1, pool[u] # None, Release(u),
           UNCHANGED <<capacity, size, uid, overdue, pc, arg, fault>>,
           sweep' \in Nat
    PROVE  TypeInv'
  <1>1. TypeOK'
    <2>1. /\ free' \in Seq(1 .. capacity - 1)
          /\ pool' \in [0 .. capacity - 1 -> Conns \cup {None}]
          /\ life' \in [Conns -> {"new", "made", "live", "closed"}]
      BY Released
    <2> QED BY <2>1 DEF TypeInv, TypeOK
  <1>2. /\ pool[u] \in Live /\ uid[pool[u]] = u
        /\ life' = [life EXCEPT ![pool[u]] = "closed"]
        /\ pool' = [pool EXCEPT ![u] = None]
    BY Released
  <1>3. ThreadInv'
    BY <1>2 DEF TypeInv, TypeOK, ThreadInv, Adding, Live
  <1>4. PoolSound'
    BY <1>2 DEF TypeInv, TypeOK, PoolSound, Live
  <1>5. LiveHasUid'
    BY <1>2 DEF TypeInv, TypeOK, LiveHasUid, Live
  <1> QED BY <1>1, <1>3, <1>4, <1>5 DEF TypeInv

(* Every step of either thread keeps TypeInv.                              *)
LEMMA TypeNext == TypeInv /\ [Next]_vars => TypeInv'
  <1> SUFFICES ASSUME TypeInv, [Next]_vars PROVE TypeInv'
    OBVIOUS
  <1> USE DEF TypeInv
  <1>1. ASSUME NEW c \in Conns, RegisterConnection(c) PROVE TypeInv'
    <2>1. TypeOK'
      <3>1. /\ life' \in [Conns -> {"new", "made", "live", "closed"}]
            /\ pc' \in [Threads -> {"idle", "check", "add", "sweep"}]
        BY <1>1 DEF RegisterConnection, TypeOK
      <3>3. arg' \in [Threads -> Conns \cup {None}]
        BY <1>1 DEF RegisterConnection, TypeOK
      <3>2. UNCHANGED <<capacity, size, pool, free, uid, overdue, sweep, fault>>
        BY <1>1 DEF RegisterConnection, poolVars
      <3> QED BY <3>1, <3>2, <3>3 DEF TypeOK
    <2>2. ThreadInv'
      BY <1>1 DEF RegisterConnection, TypeOK, ThreadInv, Adding, Threads
    <2>3. PoolSound' /\ LiveHasUid'
      BY <1>1 DEF RegisterConnection, TypeOK, PoolSound, LiveHasUid, Live,
                  poolVars
    <2> QED BY <2>1, <2>2, <2>3
  <1>2. ASSUME NEW t \in Threads, NEW c \in Conns, MakeConnection(t, c)
        PROVE  TypeInv'
    <2>1. TypeOK'
      <3>1. /\ life' \in [Conns -> {"new", "made", "live", "closed"}]
            /\ pc' \in [Threads -> {"idle", "check", "add", "sweep"}]
        BY <1>2 DEF MakeConnection, TypeOK
      <3>3. arg' \in [Threads -> Conns \cup {None}]
        BY <1>2 DEF MakeConnection, TypeOK
      <3>2. UNCHANGED <<capacity, size, pool, free, uid, overdue, sweep, fault>>
        BY <1>2 DEF MakeConnection, poolVars
      <3> QED BY <3>1, <3>2, <3>3 DEF TypeOK
    <2>2. ThreadInv'
      BY <1>2 DEF MakeConnection, TypeOK, ThreadInv, Adding, Threads
    <2>3. PoolSound' /\ LiveHasUid'
      BY <1>2 DEF MakeConnection, TypeOK, PoolSound, LiveHasUid, Live, poolVars
    <2> QED BY <2>1, <2>2, <2>3
  <1>3. ASSUME NEW t \in Threads, CheckCapacity(t) PROVE TypeInv'
    <2>1. ThreadInv'
      BY <1>3 DEF CheckCapacity, connVars, TypeOK, ThreadInv, Adding, Threads
    <2>2. pc' \in [Threads -> {"idle", "check", "add", "sweep"}]
      BY <1>3 DEF CheckCapacity, TypeOK
    <2>3. UNCHANGED <<uid, life, overdue, arg, sweep, fault>>
      BY <1>3 DEF CheckCapacity, connVars
    <2>4. CASE UNCHANGED <<capacity, size, pool, free>>
      <3>1. TypeOK'
        BY <2>2, <2>3, <2>4 DEF TypeOK
      <3>2. PoolSound' /\ LiveHasUid'
        BY <2>3, <2>4 DEF PoolSound, LiveHasUid, Live
      <3> QED BY <2>1, <3>1, <3>2
    <2>5. CASE /\ size' = capacity + kEnlargeUnit
               /\ capacity' = NewCapacity(size')
               /\ pool' = Reallocated(capacity')
               /\ free' = NewPlaces(capacity')
      <3>1. /\ size' \in Nat /\ capacity' \in Nat /\ size' > capacity
            /\ capacity' >= size'
            /\ free' \in Seq(1 .. capacity' - 1)
            /\ pool' \in [0 .. capacity' - 1 -> Conns \cup {None}]
        BY <2>5, Growth
      <3>2. uid' \in [Conns -> 0 .. capacity' - 1]
        BY <2>3, <3>1 DEF TypeOK
      <3>3. TypeOK'
        <4>1. capacity' \in Nat \ {0} /\ size' \in 1 .. capacity'
          BY <3>1 DEF TypeOK
        <4> QED BY <2>2, <2>3, <3>1, <3>2, <4>1 DEF TypeOK
      <3>4. PoolSound'
        BY <2>3, <2>5, <3>1 DEF PoolSound, TypeOK, Reallocated
      <3>5. LiveHasUid'
        BY <2>3, <3>1 DEF LiveHasUid, Live, TypeOK
      <3> QED BY <2>1, <3>3, <3>4, <3>5
    <2> QED BY <1>3, <2>4, <2>5 DEF CheckCapacity, poolVars
  <1>4. ASSUME NEW t \in Threads, AddConnection(t) PROVE TypeInv'
    <2>1. CASE free = <<>>
      BY <1>4, <2>1 DEF AddConnection, poolVars, connVars, TypeOK, ThreadInv,
                        Adding, PoolSound, LiveHasUid, Live
    <2>2. CASE free # <<>>
      <3>1. /\ Head(free) \in 1 .. capacity - 1
            /\ Tail(free) \in Seq(1 .. capacity - 1)
        BY <2>2, HeadTailProperties DEF TypeOK
      <3>2. arg[t] \in Conns /\ life[arg[t]] = "made"
        BY <1>4 DEF AddConnection, ThreadInv, Adding
      <3>3. /\ free' = Tail(free)
            /\ uid' = [uid EXCEPT ![arg[t]] = Head(free)]
            /\ pool' = [pool EXCEPT ![Head(free)] = arg[t]]
            /\ life' = [life EXCEPT ![arg[t]] = "live"]
            /\ pc' = [pc EXCEPT ![t] = "idle"]
            /\ arg' = [arg EXCEPT ![t] = None]
            /\ UNCHANGED <<capacity, size, overdue, fault, sweep>>
        BY <1>4, <2>2 DEF AddConnection
      <3>4. TypeOK'
        BY <3>1, <3>2, <3>3 DEF TypeOK
      <3>5. ThreadInv'
        <4>1. \A s \in Threads : Adding(s)' => s # t /\ Adding(s)
          BY <3>3 DEF TypeOK, Adding
        <4>2. \A s \in Threads : s # t => arg'[s] = arg[s]
          BY <3>3 DEF TypeOK
        <4>3. \A s \in Threads : Adding(s) /\ s # t => arg[s] # arg[t]
          BY <1>4 DEF AddConnection, ThreadInv, Adding, Threads
        <4>4. \A s \in Threads : Adding(s)' => /\ arg'[s] \in Conns
                                              /\ life'[arg'[s]] = "made"
          BY <3>2, <3>3, <4>1, <4>2, <4>3 DEF TypeOK, ThreadInv
        <4> QED
          BY <3>3, <4>1, <4>2, <4>4 DEF ThreadInv, Threads, TypeOK
      <3>6. PoolSound'
        BY <3>1, <3>2, <3>3 DEF TypeOK, PoolSound
      <3>7. LiveHasUid'
        BY <3>1, <3>2, <3>3 DEF TypeOK, LiveHasUid, Live
      <3> QED BY <3>4, <3>5, <3>6, <3>7
    <2> QED BY <2>1, <2>2
  <1>5. ASSUME NEW c \in Conns, DelConnection(c) PROVE TypeInv'
    <2>1. CASE pool[uid[c]] = None
      BY <1>5, <2>1 DEF DelConnection, TypeOK, ThreadInv, Adding, PoolSound,
                        LiveHasUid, Live
    <2>2. CASE pool[uid[c]] # None
      <3>1. uid[c] \in 0 .. capacity - 1 /\ Release(uid[c])
        BY <1>5, <2>2 DEF DelConnection, TypeOK
      <3>2. UNCHANGED <<capacity, size, uid, overdue, pc, arg, fault, sweep>>
        BY <1>5, <2>2 DEF DelConnection
      <3>3. sweep' \in Nat
        BY <3>2 DEF TypeOK
      <3> QED BY <2>2, <3>1, <3>2, <3>3, ReleaseType
    <2> QED BY <2>1, <2>2
  <1>6. ASSUME NEW c \in Conns, Expire(c) PROVE TypeInv'
    BY <1>6 DEF Expire, poolVars, TypeOK, ThreadInv, Adding, PoolSound,
                LiveHasUid, Live
  <1>7. CASE ClearTimeout
    BY <1>7 DEF ClearTimeout, poolVars, connVars, TypeOK, ThreadInv, Adding,
                PoolSound, LiveHasUid, Live, Threads
  <1>8. CASE ClearTimeoutVisit
    <2>1. sweep \in 0 .. capacity - 1 /\ sweep' \in Nat
      BY <1>8 DEF ClearTimeoutVisit, LastVisited, TypeOK
    <2>2. UNCHANGED <<capacity, size, uid, overdue, pc, arg, fault>>
      BY <1>8 DEF ClearTimeoutVisit
    <2>3. CASE pool[sweep] \in overdue
      <3>1. pool[sweep] # None /\ Release(sweep)
        BY <1>8, <2>3, ConnectionManagerAssumption DEF ClearTimeoutVisit, TypeOK
      <3> QED BY <2>1, <2>2, <3>1, ReleaseType
    <2>4. CASE pool[sweep] \notin overdue
      BY <1>8, <2>1, <2>2, <2>4 DEF ClearTimeoutVisit, TypeOK, ThreadInv,
                                    Adding, PoolSound, LiveHasUid, Live
    <2> QED BY <2>3, <2>4
  <1>9. CASE ClearTimeoutDone
    BY <1>9 DEF ClearTimeoutDone, poolVars, connVars, TypeOK, ThreadInv, Adding,
                PoolSound, LiveHasUid, Live, Threads
  <1>10. CASE UNCHANGED vars
    BY <1>10 DEF vars, poolVars, connVars, TypeOK, ThreadInv, Adding, PoolSound,
                 LiveHasUid, Live
  <1> QED
    BY <1>1, <1>2, <1>3, <1>4, <1>5, <1>6, <1>7, <1>8, <1>9, <1>10
    DEF Next, Stopped

(* TypeInv, and with it TypeOK, holds of every behaviour.                  *)
LEMMA TypeAlways == Spec => []TypeInv
  BY TypeInit, TypeNext, PTL DEF Spec

-----------------------------------------------------------------------------
(* UidsPartitioned, with the sets of listed and of used uids.              *)
Used == {uid[c] : c \in Live}

Partition ==
    /\ Once(free)
    /\ \A c, d \in Live : uid[c] = uid[d] => c = d
    /\ Listed(free) \cap Used = {}
    /\ 1 .. capacity - 1 = Listed(free) \cup Used

(* At first all uids but kInvalidUid are free.                             *)
LEMMA PartitionInit == Init => Partition
  <1> SUFFICES ASSUME Init PROVE Partition
    OBVIOUS
  <1>1. Live = {} /\ Used = {}
    BY DEF Init, Live, Used
  <1>2. Once(free) /\ Listed(free) = 1 .. capacity - 1
    BY ConnectionManagerAssumption DEF Init, Once, Listed
  <1> QED BY <1>1, <1>2 DEF Partition

(* Giving back the slot of a deleted connection keeps the partition.       *)
LEMMA PartitionRelease ==
    ASSUME TypeInv, Partition, NEW u \in 0 .. capacity - 1, pool[u] # None,
           Release(u), UNCHANGED <<capacity, uid>>
    PROVE  Partition'
  <1>1. /\ pool[u] \in Live /\ uid[pool[u]] = u /\ u \in 1 .. capacity - 1
        /\ free' = <<u>> \o free
        /\ life' = [life EXCEPT ![pool[u]] = "closed"]
    BY Released
  <1>2. Live' = Live \ {pool[u]}
    BY <1>1 DEF Live, TypeInv, TypeOK
  <1>3. Used' = Used \ {u}
    BY <1>1, <1>2 DEF Used, Partition
  <1>4. u \in Used /\ u \notin Listed(free)
    BY <1>1 DEF Used, Partition
  <1>5. free \in Seq(1 .. capacity - 1)
    BY DEF TypeInv, TypeOK
  <1>6. Once(free') /\ Listed(free') = Listed(free) \cup {u}
    <2>1. Once(free)
      BY DEF Partition
    <2> DEFINE S == 1 .. capacity - 1
    <2>2. u \in S /\ free \in Seq(S)
      BY <1>1, <1>5
    <2> HIDE DEF S
    <2>3. /\ Once(<<u>> \o free)
          /\ Listed(<<u>> \o free) = Listed(free) \cup {u}
      BY <1>4, <2>1, <2>2, PushFront
    <2> QED BY <1>1, <2>3
  <1>7. \A c, d \in Live' : uid'[c] = uid'[d] => c = d
    <2>1. \A c \in Live' : c \in Live
      BY <1>2
    <2> QED BY <2>1 DEF Partition
  <1>8. Once(free)' /\ Listed(free)' = Listed(free) \cup {u}
    BY <1>6 DEF Once, Listed
  <1> QED BY <1>3, <1>4, <1>7, <1>8 DEF Partition

(* Every step keeps the partition of the uids.                             *)
LEMMA PartitionNext == TypeInv /\ Partition /\ [Next]_vars => Partition'
  <1> SUFFICES ASSUME TypeInv, Partition, [Next]_vars PROVE Partition'
    OBVIOUS
  <1>1. CASE UNCHANGED <<capacity, free, uid>> /\ Live' = Live
    BY <1>1 DEF Partition, Once, Listed, Used
  <1>2. ASSUME NEW c \in Conns, RegisterConnection(c) PROVE Partition'
    <2>1. Live' = Live
      BY <1>2 DEF RegisterConnection, Live, TypeInv, TypeOK
    <2> QED BY <1>1, <1>2, <2>1 DEF RegisterConnection, poolVars
  <1>3. ASSUME NEW t \in Threads, NEW c \in Conns, MakeConnection(t, c)
        PROVE  Partition'
    <2>1. Live' = Live
      BY <1>3 DEF MakeConnection, Live, TypeInv, TypeOK
    <2> QED BY <1>1, <1>3, <2>1 DEF MakeConnection, poolVars
  <1>4. ASSUME NEW t \in Threads, CheckCapacity(t) PROVE Partition'
    <2>1. UNCHANGED <<uid, life>> /\ Live' = Live /\ Used' = Used
      BY <1>4 DEF CheckCapacity, connVars, Live, Used
    <2>2. CASE free # <<>>
      BY <1>1, <1>4, <2>1, <2>2 DEF CheckCapacity, poolVars
    <2>3. CASE free = <<>>
      <3> DEFINE m == NewCapacity(capacity + kEnlargeUnit)
      <3>1. capacity' = m /\ free' = NewPlaces(m)
        BY <1>4, <2>3 DEF CheckCapacity
      <3>2. /\ m \in Nat /\ m > capacity
            /\ NewPlaces(m) \in Seq(1 .. m - 1) /\ Len(NewPlaces(m)) = m - capacity
            /\ \A i \in 1 .. m - capacity : NewPlaces(m)[i] = capacity + i - 1
        BY Growth DEF TypeInv, TypeOK
      <3> HIDE DEF m
      <3>3. DOMAIN free' = 1 .. m - capacity
        BY <3>1, <3>2, LenProperties
      <3>4. capacity \in Nat \ {0}
        BY DEF TypeInv, TypeOK
      <3>5. Once(free)'
        BY <3>1, <3>2, <3>3, <3>4 DEF Once
      <3>6. Listed(free)' = capacity .. m - 1
        <4>1. \A x \in Listed(free)' : x \in capacity .. m - 1
          BY <3>1, <3>2, <3>3, <3>4 DEF Listed
        <4>2. ASSUME NEW x \in capacity .. m - 1 PROVE x \in Listed(free)'
          <5>1. x - capacity + 1 \in 1 .. m - capacity
            BY <3>2, <3>4
          <5>2. NewPlaces(m)[x - capacity + 1] = x
            BY <3>2, <3>4, <5>1
          <5> QED BY <3>1, <3>3, <5>1, <5>2 DEF Listed
        <4> QED BY <4>1, <4>2
      <3>7. Listed(free) = {}
        BY <2>3 DEF Listed
      <3>8. Used = 1 .. capacity - 1
        BY <3>7 DEF Partition
      <3>9. /\ Listed(free)' \cap Used' = {}
            /\ 1 .. capacity' - 1 = Listed(free)' \cup Used'
        BY <2>1, <3>1, <3>2, <3>4, <3>6, <3>8
      <3>10. \A c, d \in Live' : uid'[c] = uid'[d] => c = d
        BY <2>1 DEF Partition
      <3> QED BY <3>5, <3>9, <3>10 DEF Partition
    <2> QED BY <2>2, <2>3
  <1>5. ASSUME NEW t \in Threads, AddConnection(t) PROVE Partition'
    <2>1. CASE free = <<>>
      BY <1>1, <1>5, <2>1 DEF AddConnection, poolVars, connVars, Live
    <2>2. CASE free # <<>>
      <3> DEFINE u == Head(free)
      <3>1. arg[t] \in Conns /\ life[arg[t]] = "made" /\ arg[t] \notin Live
        BY <1>5 DEF AddConnection, TypeInv, ThreadInv, Adding, Live
      <3>2. /\ free' = Tail(free) /\ uid' = [uid EXCEPT ![arg[t]] = u]
            /\ life' = [life EXCEPT ![arg[t]] = "live"] /\ capacity' = capacity
        BY <1>5, <2>2 DEF AddConnection
      <3>3. free \in Seq(1 .. capacity - 1) /\ Once(free)
        BY DEF TypeInv, TypeOK, Partition
      <3>4. Once(free') /\ Listed(free') = Listed(free) \ {u} /\ u \in Listed(free)
        BY <2>2, <3>2, <3>3, PopFront
      <3> HIDE DEF u
      <3>5. Live' = Live \cup {arg[t]}
        BY <3>1, <3>2 DEF Live, TypeInv, TypeOK
      <3>6. \A c \in Live : uid'[c] = uid[c] /\ uid[c] \in Used
        BY <3>1, <3>2 DEF Live, TypeInv, TypeOK, Used
      <3>7. uid'[arg[t]] = u
        BY <3>1, <3>2 DEF TypeInv, TypeOK
      <3>8. Used' = Used \cup {u}
        BY <3>5, <3>6, <3>7 DEF Used
      <3>9. u \notin Used
        BY <3>4 DEF Partition
      <3>10. \A c, d \in Live' : uid'[c] = uid'[d] => c = d
        BY <3>5, <3>6, <3>7, <3>9 DEF Partition
      <3>11. Once(free)' /\ Listed(free)' = Listed(free) \ {u}
        BY <3>4 DEF Once, Listed
      <3> QED BY <3>2, <3>4, <3>8, <3>9, <3>10, <3>11 DEF Partition
    <2> QED BY <2>1, <2>2
  <1>6. ASSUME NEW c \in Conns, DelConnection(c) PROVE Partition'
    <2>1. CASE pool[uid[c]] = None
      BY <1>1, <1>6, <2>1 DEF DelConnection, Live
    <2>2. CASE pool[uid[c]] # None
      <3>1. uid[c] \in 0 .. capacity - 1 /\ Release(uid[c])
        BY <1>6, <2>2 DEF DelConnection, TypeInv, TypeOK
      <3> QED BY <1>6, <2>2, <3>1, PartitionRelease DEF DelConnection
    <2> QED BY <2>1, <2>2
  <1>7. CASE ClearTimeoutVisit
    <2>1. sweep \in 0 .. capacity - 1 /\ UNCHANGED <<capacity, uid>>
      BY <1>7 DEF ClearTimeoutVisit, LastVisited, TypeInv, TypeOK
    <2>2. CASE pool[sweep] \in overdue
      <3>1. pool[sweep] # None /\ Release(sweep)
        BY <1>7, <2>2, ConnectionManagerAssumption
        DEF ClearTimeoutVisit, TypeInv, TypeOK
      <3> QED BY <2>1, <3>1, PartitionRelease
    <2>3. CASE pool[sweep] \notin overdue
      BY <1>1, <1>7, <2>3 DEF ClearTimeoutVisit, Live
    <2> QED BY <2>2, <2>3
  <1>8. CASE ClearTimeout \/ ClearTimeoutDone \/ UNCHANGED vars
    BY <1>1, <1>8 DEF ClearTimeout, ClearTimeoutDone, vars, poolVars, connVars,
                      Live
  <1>9. ASSUME NEW c \in Conns, Expire(c) PROVE Partition'
    BY <1>1, <1>9 DEF Expire, poolVars, Live
  <1> QED
    BY <1>2, <1>3, <1>4, <1>5, <1>6, <1>7, <1>8, <1>9 DEF Next, Stopped

(* No slot of the pool is handed out twice and none is lost, however       *)
(* AddConnection, DelConnection, ClearTimeout and the growth of the pool   *)
(* interleave.                                                             *)
THEOREM UidsAlwaysPartitioned == Spec => []UidsPartitioned
  <1>1. TypeInv /\ Partition => UidsPartitioned
    BY DEF Partition, UidsPartitioned, Once, Listed, Used
  <1> QED
    BY <1>1, PartitionInit, PartitionNext, TypeAlways, PTL DEF Spec

-----------------------------------------------------------------------------
(* The capacities the pool goes through: up to the second growth, a        *)
(* reallocation starts from a pool that is not used beyond its size.       *)
Sizes ==
    \/ capacity = kEnlargeUnit /\ size = kEnlargeUnit
    \/ capacity = 2 * kEnlargeUnit /\ size = 2 * kEnlargeUnit
    \/ capacity = 4 * kEnlargeUnit /\ size = 3 * kEnlargeUnit
    \/ capacity > 4 * kEnlargeUnit

FoundInv == Sizes /\ FoundByUid

(* Every step keeps the connections of a small pool in their slots.        *)
LEMMA FoundNext ==
    TypeInv /\ Partition /\ FoundInv /\ [Next]_vars => FoundInv'
  <1> SUFFICES ASSUME TypeInv, Partition, FoundInv, [Next]_vars PROVE FoundInv'
    OBVIOUS
  <1> USE DEF FoundInv
  <1>1. CASE UNCHANGED <<capacity, size, pool, uid>> /\ Live' = Live
    BY <1>1 DEF Sizes, FoundByUid
  <1>2. ASSUME NEW u \in 0 .. capacity - 1, pool[u] # None, Release(u),
               UNCHANGED <<capacity, size, uid>>
        PROVE  FoundInv'
    <2>1. /\ pool[u] \in Live /\ uid[pool[u]] = u
          /\ life' = [life EXCEPT ![pool[u]] = "closed"]
          /\ pool' = [pool EXCEPT ![u] = None]
      BY <1>2, Released
    <2>2. Live' = Live \ {pool[u]}
      BY <2>1 DEF Live, TypeInv, TypeOK
    <2>3. \A c \in Live' : uid[c] # u /\ pool'[uid[c]] = pool[uid[c]]
      BY <2>1, <2>2 DEF Partition, TypeInv, TypeOK, Live
    <2> QED BY <1>2, <2>2, <2>3 DEF Sizes, FoundByUid
  <1>3. ASSUME NEW c \in Conns, RegisterConnection(c) PROVE FoundInv'
    <2>1. Live' = Live
      BY <1>3 DEF RegisterConnection, Live, TypeInv, TypeOK
    <2> QED BY <1>1, <1>3, <2>1 DEF RegisterConnection, poolVars
  <1>4. ASSUME NEW t \in Threads, NEW c \in Conns, MakeConnection(t, c)
        PROVE  FoundInv'
    <2>1. Live' = Live
      BY <1>4 DEF MakeConnection, Live, TypeInv, TypeOK
    <2> QED BY <1>1, <1>4, <2>1 DEF MakeConnection, poolVars
  <1>5. ASSUME NEW t \in Threads, CheckCapacity(t) PROVE FoundInv'
    <2>1. UNCHANGED <<uid, life>> /\ Live' = Live
      BY <1>5 DEF CheckCapacity, connVars, Live
    <2>2. CASE free # <<>>
      BY <1>1, <1>5, <2>1, <2>2 DEF CheckCapacity, poolVars
    <2>3. CASE free = <<>>
      <3>1. /\ size' = capacity + kEnlargeUnit
            /\ capacity' = NewCapacity(size') /\ pool' = Reallocated(capacity')
        BY <1>5, <2>3 DEF CheckCapacity
      <3>2. Sizes'
        BY <3>1, ConnectionManagerAssumption
        DEF Sizes, NewCapacity, TypeInv, TypeOK
      <3>3. capacity' <= 4 * kEnlargeUnit =>
                capacity <= 4 * kEnlargeUnit /\ size = capacity
        BY <3>1, ConnectionManagerAssumption
        DEF Sizes, NewCapacity, TypeInv, TypeOK
      <3>4. capacity' > capacity
        BY <3>1, Growth DEF TypeInv, TypeOK
      <3>5. \A c \in Live : uid[c] \in 1 .. capacity - 1
        BY DEF TypeInv, LiveHasUid
      <3>6. ASSUME size = capacity, NEW c \in Live
            PROVE  pool'[uid[c]] = pool[uid[c]]
        BY <3>1, <3>4, <3>5, <3>6, Growth DEF Reallocated, TypeInv, TypeOK
      <3> QED BY <2>1, <3>2, <3>3, <3>6 DEF FoundByUid
    <2> QED BY <2>2, <2>3
  <1>6. ASSUME NEW t \in Threads, AddConnection(t) PROVE FoundInv'
    <2>1. CASE free = <<>>
      BY <1>1, <1>6, <2>1 DEF AddConnection, poolVars, connVars, Live
    <2>2. CASE free # <<>>
      <3>1. arg[t] \in Conns /\ arg[t] \notin Live
        BY <1>6 DEF AddConnection, TypeInv, ThreadInv, Adding, Live
      <3>2. /\ uid' = [uid EXCEPT ![arg[t]] = Head(free)]
            /\ pool' = [pool EXCEPT ![Head(free)] = arg[t]]
            /\ life' = [life EXCEPT ![arg[t]] = "live"]
            /\ UNCHANGED <<capacity, size>>
        BY <1>6, <2>2 DEF AddConnection
      <3>3. free \in Seq(1 .. capacity - 1) /\ Once(free)
        BY DEF TypeInv, TypeOK, Partition
      <3>4. Head(free) \in 1 .. capacity - 1 /\ Head(free) \in Listed(free)
        BY <2>2, <3>3, PopFront, HeadTailProperties
      <3>5. \A c \in Live : uid[c] # Head(free)
        BY <3>4 DEF Partition, Used
      <3>6. Live' = Live \cup {arg[t]}
        BY <3>1, <3>2 DEF Live, TypeInv, TypeOK
      <3>7. \A c \in Live : uid'[c] = uid[c] /\ pool'[uid[c]] = pool[uid[c]]
        BY <3>1, <3>2, <3>5 DEF TypeInv, TypeOK, Live
      <3>8. pool'[uid'[arg[t]]] = arg[t]
        BY <3>1, <3>2, <3>4 DEF TypeInv, TypeOK
      <3> QED BY <3>2, <3>6, <3>7, <3>8 DEF Sizes, FoundByUid
    <2> QED BY <2>1, <2>2
  <1>7. ASSUME NEW c \in Conns, DelConnection(c) PROVE FoundInv'
    <2>1. CASE pool[uid[c]] = None
      BY <1>1, <1>7, <2>1 DEF DelConnection, Live
    <2>2. CASE pool[uid[c]] # None
      BY <1>2, <1>7, <2>2 DEF DelConnection, TypeInv, TypeOK
    <2> QED BY <2>1, <2>2
  <1>8. CASE ClearTimeoutVisit
    <2>1. sweep \in 0 .. capacity - 1 /\ UNCHANGED <<capacity, size, uid>>
      BY <1>8 DEF ClearTimeoutVisit, LastVisited, TypeInv, TypeOK
    <2>2. CASE pool[sweep] \in overdue
      <3>1. pool[sweep] # None /\ Release(sweep)
        BY <1>8, <2>2, ConnectionManagerAssumption
        DEF ClearTimeoutVisit, TypeInv, TypeOK
      <3> QED BY <1>2, <2>1, <3>1
    <2>3. CASE pool[sweep] \notin overdue
      BY <1>1, <1>8, <2>3 DEF ClearTimeoutVisit, Live
    <2> QED BY <2>2, <2>3
  <1>9. CASE ClearTimeout \/ ClearTimeoutDone \/ UNCHANGED vars
    BY <1>1, <1>9 DEF ClearTimeout, ClearTimeoutDone, vars, poolVars, connVars,
                      Live
  <1>10. ASSUME NEW c \in Conns, Expire(c) PROVE FoundInv'
    BY <1>1, <1>10 DEF Expire, poolVars, Live
  <1> QED
    BY <1>3, <1>4, <1>5, <1>6, <1>7, <1>8, <1>9, <1>10 DEF Next, Stopped

(* Until the pool grows a third time, GetConnection and DelConnection find *)
(* every live connection under its uid: with kEnlargeUnit 128, a NetThread *)
(* is safe up to 511 connections at a time.                                *)
THEOREM AlwaysFoundByUid == Spec => []FoundByUid
  <1>1. Init => FoundInv
    BY DEF Init, FoundInv, Sizes, FoundByUid, Live
  <1>2. FoundInv => FoundByUid
    BY DEF FoundInv
  <1> QED
    BY <1>1, <1>2, FoundNext, PartitionInit, PartitionNext, TypeAlways, PTL
    DEF Spec

-----------------------------------------------------------------------------
(* Between the two critical sections of AddConnection nobody else takes a  *)
(* place, if only the main thread adds connections.                        *)
PlaceInv ==
    /\ pc["net"] \notin {"check", "add"}
    /\ pc["main"] = "add" => free # <<>>
    /\ fault # "front"

(* With one adding thread, every step keeps a place free for it.           *)
LEMMA PlaceNext ==
    ASSUME "net" \notin Makers, TypeInv, PlaceInv, [Next]_vars PROVE PlaceInv'
  <1> USE DEF PlaceInv
  <1>1. ASSUME NEW u, Release(u) PROVE free' # <<>>
    BY <1>1 DEF Release, TypeInv, TypeOK
  <1>2. ASSUME NEW c \in Conns, RegisterConnection(c) PROVE PlaceInv'
    BY <1>2 DEF RegisterConnection, TypeInv, TypeOK, Threads, poolVars
  <1>3. ASSUME NEW t \in Threads, NEW c \in Conns, MakeConnection(t, c)
        PROVE  PlaceInv'
    <2>1. t = "main"
      BY <1>3 DEF MakeConnection, Threads
    <2> QED BY <1>3, <2>1 DEF MakeConnection, TypeInv, TypeOK, Threads, poolVars
  <1>4. ASSUME NEW t \in Threads, CheckCapacity(t) PROVE PlaceInv'
    <2>1. t = "main"
      BY <1>4 DEF CheckCapacity, Threads
    <2>2. free' # <<>>
      <3>1. CASE free # <<>>
        BY <1>4, <3>1 DEF CheckCapacity, poolVars
      <3>2. CASE free = <<>>
        <4> DEFINE m == NewCapacity(capacity + kEnlargeUnit)
        <4>1. free' = NewPlaces(m)
          BY <1>4, <3>2 DEF CheckCapacity
        <4>2. Len(NewPlaces(m)) = m - capacity /\ m > capacity /\ m \in Nat
          BY Growth DEF TypeInv, TypeOK
        <4>3. Len(free') # 0
          BY <4>1, <4>2 DEF TypeInv, TypeOK
        <4> QED BY <4>3
      <3> QED BY <3>1, <3>2
    <2> QED BY <1>4, <2>1, <2>2 DEF CheckCapacity, TypeInv, TypeOK, Threads
  <1>5. ASSUME NEW t \in Threads, AddConnection(t) PROVE PlaceInv'
    BY <1>5 DEF AddConnection, TypeInv, TypeOK, Threads
  <1>6. ASSUME NEW c \in Conns, DelConnection(c) PROVE PlaceInv'
    BY <1>1, <1>6 DEF DelConnection
  <1>7. CASE ClearTimeoutVisit
    BY <1>1, <1>7 DEF ClearTimeoutVisit
  <1>8. CASE ClearTimeout \/ ClearTimeoutDone
    BY <1>8 DEF ClearTimeout, ClearTimeoutDone, poolVars, TypeInv, TypeOK, Threads
  <1>9. ASSUME NEW c \in Conns, Expire(c) PROVE PlaceInv'
    BY <1>9 DEF Expire, poolVars
  <1>10. CASE UNCHANGED vars
    BY <1>10 DEF vars, poolVars
  <1> QED
    BY <1>2, <1>3, <1>4, <1>5, <1>6, <1>7, <1>8, <1>9, <1>10 DEF Next, Stopped

(* A NetThread that makes no connections of its own never takes a place    *)
(* from an empty free_places_, although __CheckCapacity gives up mutex_    *)
(* before AddConnection takes it again.                                    *)
THEOREM PlaceAlwaysFoundFree ==
    ASSUME "net" \notin Makers PROVE Spec => []PlaceFoundFree
  <1>1. Init => PlaceInv
    BY DEF Init, PlaceInv, Threads
  <1>2. PlaceInv => PlaceFoundFree
    BY DEF PlaceInv, PlaceFoundFree
  <1>3. TypeInv /\ PlaceInv /\ [Next]_vars => PlaceInv'
    BY PlaceNext
  <1> QED BY <1>1, <1>2, <1>3, TypeAlways, PTL DEF Spec

-----------------------------------------------------------------------------
(* The live connections and the free places make up all slots but the one  *)
(* of kInvalidUid: CurrConnectionCnt is one more than the live connections.*)
CountInv ==
    IsFiniteSet(Live) /\ Cardinality(Live) + Len(free) = capacity - 1

(* A connection that is deleted gives its place back.                      *)
LEMMA CountRelease ==
    ASSUME TypeInv, CountInv, NEW u \in 0 .. capacity - 1, pool[u] # None,
           Release(u), UNCHANGED capacity
    PROVE  CountInv' /\ Cardinality(Live') = Cardinality(Live) - 1
  <1>1. /\ pool[u] \in Live /\ free' = <<u>> \o free /\ u \in 1 .. capacity - 1
        /\ Live' = Live \ {pool[u]}
    BY Released DEF Live, TypeInv, TypeOK, Release
  <1>2. Len(free') = Len(free) + 1
    BY <1>1 DEF TypeInv, TypeOK
  <1>3. IsFiniteSet(Live') /\ Cardinality(Live') = Cardinality(Live) - 1
    BY <1>1, FS_RemoveElement DEF CountInv
  <1>4. Len(free) \in Nat /\ Cardinality(Live) \in Nat /\ capacity \in Nat
    BY FS_CardinalityType DEF TypeInv, TypeOK, CountInv
  <1> QED BY <1>2, <1>3, <1>4 DEF CountInv

(* While the main thread adds a connection there is room for it.           *)
LimitInv ==
    /\ CountInv
    /\ pc["net"] \notin {"check", "add"}
    /\ Adding("main") => Cardinality(Live) + 1 < MaxConnections
    /\ Cardinality(Live) <= MaxConnections

(* If only RegisterConnection adds connections, every step keeps LimitInv. *)
LEMMA LimitNext ==
    ASSUME Makers = {}, TypeInv, LimitInv, [Next]_vars PROVE LimitInv'
  <1>0. /\ Len(free) \in Nat /\ Cardinality(Live) \in Nat /\ capacity \in Nat
        /\ MaxConnections \in Nat
    BY FS_CardinalityType, ConnectionManagerAssumption DEF TypeInv, TypeOK, LimitInv, CountInv
  <1>1. ASSUME UNCHANGED <<capacity, free>>, Live' = Live, pc'["net"] \notin {"check", "add"},
               Adding("main")' => Adding("main")
        PROVE  LimitInv'
    BY <1>1 DEF LimitInv, CountInv
  <1>2. ASSUME NEW u \in 0 .. capacity - 1, pool[u] # None, Release(u), UNCHANGED <<capacity, pc>>
        PROVE  LimitInv'
    <2>1. CountInv' /\ Cardinality(Live') = Cardinality(Live) - 1
      BY <1>2, CountRelease DEF LimitInv
    <2> QED BY <1>0, <1>2, <2>1 DEF LimitInv, Adding
  <1>3. ASSUME NEW c \in Conns, RegisterConnection(c) PROVE LimitInv'
    <2>1. Live' = Live /\ UNCHANGED <<capacity, free>>
      BY <1>3 DEF RegisterConnection, Live, TypeInv, TypeOK, poolVars
    <2>2. pc'["net"] = pc["net"]
      BY <1>3 DEF RegisterConnection, TypeInv, TypeOK, Threads
    <2>3. Adding("main")' => Cardinality(Live) + 1 < MaxConnections
      <3>1. CASE AtLimit(CurrConnectionCnt)
        BY <1>3, <3>1 DEF RegisterConnection, LimitInv, Adding
      <3>2. CASE ~AtLimit(CurrConnectionCnt)
        BY <1>0, <3>2 DEF AtLimit, CurrConnectionCnt, LimitInv, CountInv
      <3> QED BY <3>1, <3>2
    <2> QED BY <2>1, <2>2, <2>3 DEF LimitInv, CountInv
  <1>4. ASSUME NEW t \in Threads, CheckCapacity(t) PROVE LimitInv'
    <2>1. t = "main" /\ Live' = Live
      BY <1>4 DEF CheckCapacity, Threads, LimitInv, Live, connVars
    <2>2. Adding("main") /\ pc'["net"] = pc["net"]
      BY <1>4, <2>1 DEF CheckCapacity, TypeInv, TypeOK, Threads, Adding
    <2>3. CASE free # <<>>
      BY <1>1, <1>4, <2>1, <2>2, <2>3 DEF CheckCapacity, poolVars, LimitInv
    <2>4. CASE free = <<>>
      <3> DEFINE m == NewCapacity(capacity + kEnlargeUnit)
      <3>1. free' = NewPlaces(m) /\ capacity' = m
        BY <1>4, <2>4 DEF CheckCapacity
      <3>2. Len(NewPlaces(m)) = m - capacity /\ m > capacity /\ m \in Nat
        BY Growth DEF TypeInv, TypeOK
      <3>3. Len(free) = 0
        BY <2>4
      <3>4. Cardinality(Live) + Len(free') = capacity' - 1
        BY <1>0, <3>1, <3>2, <3>3 DEF LimitInv, CountInv
      <3> QED BY <2>1, <2>2, <3>4 DEF LimitInv, CountInv
    <2> QED BY <2>3, <2>4
  <1>5. ASSUME NEW t \in Threads, AddConnection(t) PROVE LimitInv'
    <2>1. t = "main" /\ Adding("main")
      BY <1>5 DEF AddConnection, Threads, LimitInv, Adding
    <2>2. CASE free = <<>>
      BY <1>1, <1>5, <2>2 DEF AddConnection, poolVars, connVars, Live, LimitInv, Adding
    <2>3. CASE free # <<>>
      <3> DEFINE c == arg["main"]
      <3>1. c \in Conns /\ life[c] = "made"
        BY <2>1 DEF TypeInv, ThreadInv, Threads
      <3>2. Live' = Live \cup {c} /\ c \notin Live
        BY <1>5, <2>1, <2>3, <3>1 DEF AddConnection, Live, TypeInv, TypeOK
      <3>3. IsFiniteSet(Live') /\ Cardinality(Live') = Cardinality(Live) + 1
        BY <3>2, FS_AddElement DEF LimitInv, CountInv
      <3>4. Len(free') = Len(free) - 1 /\ capacity' = capacity
        BY <1>5, <2>3 DEF AddConnection, TypeInv, TypeOK
      <3>5. pc'["main"] = "idle" /\ pc'["net"] = pc["net"]
        BY <1>5, <2>1, <2>3 DEF AddConnection, TypeInv, TypeOK, Threads
      <3> QED BY <1>0, <2>1, <3>3, <3>4, <3>5 DEF LimitInv, CountInv, Adding
    <2> QED BY <2>2, <2>3
  <1>6. ASSUME NEW c \in Conns, DelConnection(c) PROVE LimitInv'
    <2>1. CASE pool[uid[c]] = None
      BY <1>1, <1>6, <2>1 DEF DelConnection, Live, LimitInv, Adding
    <2>2. CASE pool[uid[c]] # None
      BY <1>2, <1>6, <2>2 DEF DelConnection, TypeInv, TypeOK
    <2> QED BY <2>1, <2>2
  <1>7. CASE ClearTimeoutVisit
    <2>1. CASE pool[sweep] \in overdue
      <3>1. sweep \in 0 .. capacity - 1 /\ pool[sweep] # None
        BY <1>7, <2>1, ConnectionManagerAssumption
        DEF ClearTimeoutVisit, LastVisited, TypeInv, TypeOK
      <3> QED BY <1>2, <1>7, <2>1, <3>1 DEF ClearTimeoutVisit
    <2>2. CASE pool[sweep] \notin overdue
      BY <1>1, <1>7, <2>2 DEF ClearTimeoutVisit, Live, LimitInv, Adding
    <2> QED BY <2>1, <2>2
  <1>8. CASE ClearTimeout \/ ClearTimeoutDone
    BY <1>1, <1>8
    DEF ClearTimeout, ClearTimeoutDone, poolVars, connVars, Live, TypeInv, TypeOK, Threads, Adding
  <1>9. ASSUME NEW c \in Conns, Expire(c) PROVE LimitInv'
    BY <1>1, <1>9 DEF Expire, poolVars, Live, LimitInv, Adding
  <1>10. CASE UNCHANGED vars
    BY <1>1, <1>10 DEF vars, poolVars, connVars, Live, LimitInv, Adding
  <1> QED
    BY <1>3, <1>4, <1>5, <1>6, <1>7, <1>8, <1>9, <1>10 DEF Next, Stopped, MakeConnection

(* RegisterConnection keeps within max_connections_, although it counts    *)
(* the connections in one critical section and adds one in another, in a   *)
(* server that makes no connections itself.                                *)
THEOREM AlwaysWithinMaxConnections ==
    ASSUME Makers = {} PROVE Spec => []WithinMaxConnections
  <1>1. Init => LimitInv
    <2> SUFFICES ASSUME Init PROVE LimitInv
      OBVIOUS
    <2>1. Live = {} /\ IsFiniteSet(Live) /\ Cardinality(Live) = 0
      BY FS_EmptySet DEF Init, Live
    <2>2. Len(free) = capacity - 1
      BY ConnectionManagerAssumption, TypeInit DEF Init, TypeInv, TypeOK
    <2> QED BY <2>1, <2>2, ConnectionManagerAssumption
            DEF LimitInv, CountInv, Init, Adding, Threads
  <1>2. LimitInv => WithinMaxConnections
    BY DEF LimitInv, WithinMaxConnections
  <1>3. TypeInv /\ LimitInv /\ [Next]_vars => LimitInv'
    BY LimitNext
  <1> QED BY <1>1, <1>2, <1>3, TypeAlways, PTL DEF Spec

(* The pool keeps its types, with any threads adding.                      *)
THEOREM PoolTypeCorrect == Spec => []TypeOK
  BY TypeAlways, PTL DEF TypeInv
=============================================================================
