-------------------------- MODULE ConnectionManager --------------------------
(***************************************************************************)
(* ServerBase::ConnectionManager of one NetThread: the vector pool_ of     *)
(* connections indexed by uid, the deque free_places_ of unused uids, and  *)
(* the two threads that use them. The main thread registers accepted       *)
(* connections; the NetThread deletes connections and clears timed out     *)
(* ones; either may make connections of its own, the NetThread of a        *)
(* ProxyServer to a web server, the main thread of a WebServer to the      *)
(* reverse proxy it sends heartbeats to.                                   *)
(*                                                                         *)
(* A slot is known by its uid. pool_ is used up to its capacity, beyond    *)
(* its size; a reallocation moves the first size elements only.            *)
(***************************************************************************)
EXTENDS Naturals, Sequences, FiniteSets

CONSTANTS
    Conns,          \* connection objects
    None,           \* nullptr
    kEnlargeUnit,   \* kReserveSize and kEnlargeUnit, both 128 in the code
    MaxConnections, \* max_connections_
    Makers          \* threads that call MakeConnection

Threads == {"main", "net"}

ASSUME ConnectionManagerAssumption ==
    /\ None \notin Conns
    /\ kEnlargeUnit \in Nat \ {0}
    /\ MaxConnections \in Nat
    /\ Makers \subseteq Threads

VARIABLES
    capacity,   \* pool_.capacity()
    size,       \* pool_.size()
    pool,       \* the elements of pool_ up to its capacity
    free,       \* free_places_
    uid,        \* uid_ of each connection, kInvalidUid at first
    life,       \* "new", "made" (not in the pool yet), "live" or "closed"
    overdue,    \* connections whose IsTimeout holds
    pc,         \* control state of each thread
    arg,        \* the connection each thread is adding
    sweep,      \* the element ClearTimeout visits next
    fault       \* the failure that ended the process

poolVars == <<capacity, size, pool, free>>
connVars == <<uid, life, overdue>>
vars == <<poolVars, connVars, pc, arg, sweep, fault>>

kInvalidUid == 0

Live == {c \in Conns : life[c] = "live"}

(* mutex_ is held from one step to the next only by ClearTimeout.          *)
Unlocked == pc["net"] # "sweep" /\ fault = "none"

CurrConnectionCnt == capacity - Len(free)

-----------------------------------------------------------------------------
AtLimit(n) == n >= MaxConnections

(* RegisterConnection up to the call of AddConnection.                     *)
RegisterConnection(c) ==
    /\ Unlocked /\ pc["main"] = "idle" /\ life[c] = "new"
    /\ \/ /\ AtLimit(CurrConnectionCnt)
          /\ life' = [life EXCEPT ![c] = "closed"]
          /\ UNCHANGED <<pc, arg>>
       \/ /\ ~AtLimit(CurrConnectionCnt)
          /\ life' = [life EXCEPT ![c] = "made"]
          /\ pc' = [pc EXCEPT !["main"] = "check"]
          /\ arg' = [arg EXCEPT !["main"] = c]
    /\ UNCHANGED <<poolVars, uid, overdue, sweep, fault>>

(* MakeConnection of thread t up to the call of AddConnection; all three   *)
(* attempts to connect may fail.                                           *)
MakeConnection(t, c) ==
    /\ t \in Makers /\ fault = "none" /\ pc[t] = "idle" /\ life[c] = "new"
    /\ \/ /\ life' = [life EXCEPT ![c] = "closed"]
          /\ UNCHANGED <<pc, arg>>
       \/ /\ life' = [life EXCEPT ![c] = "made"]
          /\ pc' = [pc EXCEPT ![t] = "check"]
          /\ arg' = [arg EXCEPT ![t] = c]
    /\ UNCHANGED <<poolVars, uid, overdue, sweep, fault>>

(* The capacity resize(n) reallocates to: size() + max(size(), n - size()).*)
NewCapacity(n) == IF 2 * size > n THEN 2 * size ELSE n

(* What a reallocation to m elements leaves in each.                       *)
Reallocated_Reserve(m) ==
    [i \in 0 .. m - 1 |-> IF i < kEnlargeUnit THEN pool[i] ELSE None]
Reallocated(m) == [i \in 0 .. m - 1 |-> IF i < size THEN pool[i] ELSE None]

(* The uids from the old capacity to the new one.                          *)
NewPlaces_Inclusive(m) == [i \in 1 .. m - capacity + 1 |-> capacity + i - 2]
NewPlaces(m) == [i \in 1 .. m - capacity |-> capacity + i - 1]

(* __CheckCapacity, a critical section of its own. resize always exceeds   *)
(* the capacity, hence reallocates.                                        *)
CheckCapacity(t) ==
    /\ Unlocked /\ pc[t] = "check"
    /\ pc' = [pc EXCEPT ![t] = "add"]
    /\ \/ /\ free # <<>>
          /\ UNCHANGED poolVars
       \/ /\ free = <<>>
          /\ size' = capacity + kEnlargeUnit
          /\ capacity' = NewCapacity(size')
          /\ pool' = Reallocated(capacity')
          /\ free' = NewPlaces(capacity')
    /\ UNCHANGED <<connVars, arg, sweep, fault>>

(* The second critical section of AddConnection. front() of an empty deque *)
(* is undefined behaviour; the model stops there.                          *)
AddConnection(t) ==
    /\ Unlocked /\ pc[t] = "add"
    /\ \/ /\ free = <<>>
          /\ fault' = "front"
          /\ UNCHANGED <<poolVars, connVars, pc, arg>>
       \/ /\ free # <<>>
          /\ free' = Tail(free)
          /\ uid' = [uid EXCEPT ![arg[t]] = Head(free)]
          /\ pool' = [pool EXCEPT ![Head(free)] = arg[t]]
          /\ life' = [life EXCEPT ![arg[t]] = "live"]
          /\ pc' = [pc EXCEPT ![t] = "idle"]
          /\ arg' = [arg EXCEPT ![t] = None]
          /\ UNCHANGED <<capacity, size, overdue, fault>>
    /\ UNCHANGED sweep

(* The connection in slot u is deleted and its slot given back: _uid in    *)
(* DelConnection, conn->Uid() in ClearTimeout, which are the same.         *)
Release(u) ==
    /\ free' = <<uid[pool[u]]>> \o free
    /\ life' = [life EXCEPT ![pool[u]] = "closed"]
    /\ pool' = [pool EXCEPT ![u] = None]

(* DelConnection of a connection an event is about; the assertion that its *)
(* slot is taken ends the process.                                         *)
DelConnection(c) ==
    /\ Unlocked /\ pc["net"] = "idle" /\ life[c] = "live"
    /\ \/ /\ pool[uid[c]] = None
          /\ fault' = "assert"
          /\ UNCHANGED <<pool, free, life>>
       \/ /\ pool[uid[c]] # None
          /\ Release(uid[c])
          /\ UNCHANGED fault
    /\ UNCHANGED <<capacity, size, uid, overdue, pc, arg, sweep>>

(* ClearTimeout takes mutex_ ...                                           *)
ClearTimeout ==
    /\ Unlocked /\ pc["net"] = "idle"
    /\ pc' = [pc EXCEPT !["net"] = "sweep"]
    /\ sweep' = 0
    /\ UNCHANGED <<poolVars, connVars, arg, fault>>

LastVisited_Short == size - 1
LastVisited == size

(* ... visits the elements of pool_ in turn, size() of them, ...           *)
ClearTimeoutVisit ==
    /\ pc["net"] = "sweep" /\ sweep < LastVisited
    /\ sweep' = sweep + 1
    /\ IF pool[sweep] \in overdue
       THEN Release(sweep)
       ELSE UNCHANGED <<pool, free, life>>
    /\ UNCHANGED <<capacity, size, uid, overdue, pc, arg, fault>>

(* ... and releases mutex_.                                                *)
ClearTimeoutDone ==
    /\ pc["net"] = "sweep" /\ sweep >= LastVisited
    /\ pc' = [pc EXCEPT !["net"] = "idle"]
    /\ sweep' = 0
    /\ UNCHANGED <<poolVars, connVars, arg, fault>>

(* The timeout of a connection passes. ClearTimeout has read the clock     *)
(* before it took mutex_.                                                  *)
Expire(c) ==
    /\ Unlocked /\ c \notin overdue /\ life[c] = "live"
    /\ overdue' = overdue \cup {c}
    /\ UNCHANGED <<poolVars, uid, life, pc, arg, sweep, fault>>

(* The process has failed, or there is nothing more to come.               *)
Stopped ==
    /\ fault # "none" \/ \A c \in Conns : life[c] = "closed"
    /\ UNCHANGED vars

-----------------------------------------------------------------------------
Init ==
    /\ capacity = kEnlargeUnit /\ size = kEnlargeUnit
    /\ pool = [i \in 0 .. kEnlargeUnit - 1 |-> None]
    /\ free = [i \in 1 .. kEnlargeUnit - 1 |-> i]
    /\ uid = [c \in Conns |-> kInvalidUid]
    /\ life = [c \in Conns |-> "new"]
    /\ overdue = {}
    /\ pc = [t \in Threads |-> "idle"]
    /\ arg = [t \in Threads |-> None]
    /\ sweep = 0 /\ fault = "none"

Next ==
    \/ \E c \in Conns : RegisterConnection(c) \/ DelConnection(c) \/ Expire(c)
    \/ \E t \in Threads, c \in Conns : MakeConnection(t, c)
    \/ \E t \in Threads : CheckCapacity(t) \/ AddConnection(t)
    \/ ClearTimeout \/ ClearTimeoutVisit \/ ClearTimeoutDone
    \/ Stopped

Spec == Init /\ [][Next]_vars

-----------------------------------------------------------------------------
(* The variables have their types.                                         *)
TypeOK ==
    /\ capacity \in Nat \ {0} /\ size \in 1 .. capacity
    /\ pool \in [0 .. capacity - 1 -> Conns \cup {None}]
    /\ free \in Seq(1 .. capacity - 1)
    /\ uid \in [Conns -> 0 .. capacity - 1]
    /\ life \in [Conns -> {"new", "made", "live", "closed"}]
    /\ overdue \in SUBSET Conns
    /\ pc \in [Threads -> {"idle", "check", "add", "sweep"}]
    /\ arg \in [Threads -> Conns \cup {None}]
    /\ sweep \in Nat
    /\ fault \in {"none", "assert", "front"}

(* Every uid but kInvalidUid is either listed once in free_places_ or the  *)
(* uid of exactly one live connection: through growth, reuse and           *)
(* timeouts no slot is handed out twice and none is lost.                  *)
UidsPartitioned ==
    /\ \A i, j \in DOMAIN free : free[i] = free[j] => i = j
    /\ \A c, d \in Live : uid[c] = uid[d] => c = d
    /\ \A u \in 1 .. capacity - 1 :
          (\E i \in DOMAIN free : free[i] = u)
              <=> ~ \E c \in Live : uid[c] = u

(* Up to four times kEnlargeUnit slots (511 connections), GetConnection    *)
(* and DelConnection find every live connection under its uid.             *)
FoundByUid ==
    capacity <= 4 * kEnlargeUnit => \A c \in Live : pool[uid[c]] = c

(* With one thread that adds connections, the slot __CheckCapacity has     *)
(* provided is still free when AddConnection takes it in a second critical *)
(* section.                                                                *)
PlaceFoundFree == fault # "front"

(* RegisterConnection keeps within max_connections_ although it counts and *)
(* adds in separate critical sections.                                     *)
WithinMaxConnections == Cardinality(Live) <= MaxConnections

(* Up to twice kEnlargeUnit slots, ClearTimeout leaves no connection       *)
(* behind that is past its timeout.                                        *)
ClearsSmallPool ==
    [][pc["net"] = "sweep" /\ pc'["net"] = "idle"
          /\ capacity <= 2 * kEnlargeUnit => Live \cap overdue = {}]_vars

-----------------------------------------------------------------------------
(* What the code asserts and its comments say, and what fails.             *)

(* DelConnection: "assert(conn)". A third growth of the pool loses the     *)
(* connections in slots between its size and its capacity.                 *)
SlotOfLiveTaken == fault # "assert"

(* __OnWriteEvent keeps a connection, "waiting for the client to time out  *)
(* or send Tcp FIN". ClearTimeout never visits the slots beyond size().    *)
ClearsAll ==
    [][pc["net"] = "sweep" /\ pc'["net"] = "idle" => Live \cap overdue = {}]_vars
=============================================================================
