--------------------------- MODULE ThreadSafeDeque ---------------------------
(***************************************************************************)
(* MessageQueue::ThreadSafeDeque: a deque, the mutex mtx_ and the one      *)
(* condition variable cond_ of all waits. A call is several steps: it      *)
(* takes mtx_, waits if it has to (and gives mtx_ up meanwhile), looks     *)
(* whether it can do what it is called for, does so, and gives mtx_ up. A  *)
(* call's arguments that are looked at once (_v, _wait, _notify) are       *)
(* chosen where it looks at them. size and IsTerminated change nothing and *)
(* are left out.                                                           *)
(***************************************************************************)
EXTENDS Naturals, Sequences, FiniteSets

CONSTANTS
    Threads,    \* callers
    Values,     \* what may be pushed
    None,       \* no value, no operation, no thread
    Failed,     \* a call that returned false
    MaxSize,    \* max_size_
    Pos,        \* the position asked of get
    Uses,       \* the operations that are called
    Timed,      \* whether a wait may have a timeout
    Quiet       \* whether a push may leave out the notification

Pushes == {"push_front", "push_back"}
Pops == {"pop_front", "pop_front_to", "pop_back", "pop_back_to"}
Takes == Pops \cup {"front", "back", "get"}

(* The operations that assign an element to the caller's _t.               *)
Assigning == Takes \ {"pop_front", "pop_back"}

ASSUME ThreadSafeDequeAssumption ==
    /\ IsFiniteSet(Threads) /\ None \notin Threads
    /\ MaxSize \in Nat /\ Pos \in Nat
    /\ Uses \subseteq Pushes \cup Takes \cup {"clear", "Terminate"}
    /\ Timed \in BOOLEAN /\ Quiet \in BOOLEAN

VARIABLES
    container,  \* container_
    terminated, \* terminated_
    mtx,        \* the thread that holds mtx_, or None
    pc,         \* where a thread is in its call
    op,         \* the operation it has called
    out         \* result of the last call of a thread

vars == <<container, terminated, mtx, pc, op, out>>

Asleep == {t \in Threads : pc[t] = "asleep"}

(* cond_.notify_one() when S sleep; at then says where the threads are.    *)
NotifyOne(S, at) ==
    IF S = {} THEN pc' = at
    ELSE \E s \in S : pc' = [at EXCEPT ![s] = "awake"]

(* cond_.notify_all() when S sleep.                                        *)
NotifyAll_One(S, at) == NotifyOne(S, at)
NotifyAll(S, at) ==
    pc' = [t \in Threads |-> IF t \in S THEN "awake" ELSE at[t]]

-----------------------------------------------------------------------------
(* A thread calls an operation and takes mtx_.                             *)
Lock(t, o) ==
    /\ pc[t] = "idle" /\ mtx = None
    /\ mtx' = t
    /\ op' = [op EXCEPT ![t] = o]
    /\ pc' = [pc EXCEPT ![t] = "locked"]
    /\ UNCHANGED <<container, terminated, out>>

(* push_front, push_back: a deque that has more than max_size_ elements    *)
(* refuses.                                                                *)
CheckSize(t) ==
    /\ pc[t] = "locked" /\ op[t] \in Pushes
    /\ \/ /\ Len(container) > MaxSize
          /\ out' = [out EXCEPT ![t] = Failed]
          /\ pc' = [pc EXCEPT ![t] = "return"]
       \/ /\ Len(container) <= MaxSize
          /\ pc' = [pc EXCEPT ![t] = "insert"]
          /\ UNCHANGED out
    /\ UNCHANGED <<container, terminated, mtx, op>>

(* Mutant: only the push that ends emptiness notifies.                     *)
Insert_IfEmpty(t, v, notify) ==
    /\ pc[t] = "insert"
    /\ container' = IF op[t] = "push_front" THEN <<v>> \o container
                                            ELSE Append(container, v)
    /\ NotifyOne(IF notify /\ container = <<>> THEN Asleep ELSE {},
                 [pc EXCEPT ![t] = "return"])
    /\ out' = [out EXCEPT ![t] = None]
    /\ UNCHANGED <<terminated, mtx, op>>

(* The element is inserted and one of the waits notified.                  *)
Insert(t, v, notify) ==
    /\ pc[t] = "insert"
    /\ container' = IF op[t] = "push_front" THEN <<v>> \o container
                                            ELSE Append(container, v)
    /\ NotifyOne(IF notify THEN Asleep ELSE {}, [pc EXCEPT ![t] = "return"])
    /\ out' = [out EXCEPT ![t] = None]
    /\ UNCHANGED <<terminated, mtx, op>>

(* The size __WaitSizeGreaterThan waits to be exceeded.                    *)
Than(o) == IF o = "get" THEN Pos ELSE 0

(* The predicate of both waits.                                            *)
Satisfied(o) == Len(container) > Than(o) \/ terminated

(* cond_.wait and cond_.wait_for give mtx_ up.                             *)
Sleep(t) ==
    /\ pc[t] \in {"locked", "woken"} /\ op[t] \in Takes
    /\ ~Satisfied(op[t])
    /\ mtx' = None
    /\ pc' = [pc EXCEPT ![t] = "asleep"]
    /\ UNCHANGED <<container, terminated, op, out>>

(* A call that does not wait, or whose predicate is true, goes on.         *)
GoOn(t) ==
    /\ \/ pc[t] = "locked" /\ op[t] \in Takes
       \/ pc[t] = "woken" /\ Satisfied(op[t])
    /\ pc' = [pc EXCEPT ![t] = "check"]
    /\ UNCHANGED <<container, terminated, mtx, op, out>>

(* A condition variable may wake a thread for no reason.                   *)
WakeSpuriously(t) ==
    /\ pc[t] = "asleep"
    /\ pc' = [pc EXCEPT ![t] = "awake"]
    /\ UNCHANGED <<container, terminated, mtx, op, out>>

(* A woken thread takes mtx_ again, to evaluate its predicate.             *)
Relock(t) ==
    /\ pc[t] = "awake" /\ mtx = None
    /\ mtx' = t
    /\ pc' = [pc EXCEPT ![t] = "woken"]
    /\ UNCHANGED <<container, terminated, op, out>>

(* wait_for is over: it takes mtx_, and its result is not looked at.       *)
Timeout(t) ==
    /\ Timed /\ pc[t] \in {"asleep", "awake"} /\ mtx = None
    /\ mtx' = t
    /\ pc' = [pc EXCEPT ![t] = "check"]
    /\ UNCHANGED <<container, terminated, op, out>>

(* Too few elements, or a terminated deque: the call returns false.        *)
Check(t) ==
    /\ pc[t] = "check"
    /\ \/ /\ Len(container) <= Than(op[t]) \/ terminated
          /\ out' = [out EXCEPT ![t] = Failed]
          /\ pc' = [pc EXCEPT ![t] = "return"]
       \/ /\ Len(container) > Than(op[t]) /\ ~terminated
          /\ pc' = [pc EXCEPT
                       ![t] = IF op[t] \in Assigning THEN "assign" ELSE "pop"]
          /\ UNCHANGED out
    /\ UNCHANGED <<container, terminated, mtx, op>>

(* container_.front(), .back() or [_pos]                                   *)
Element(o) == CASE o \in {"pop_front_to", "front"} -> Head(container)
                [] o \in {"pop_back_to", "back"} -> container[Len(container)]
                [] o = "get" -> container[Pos + 1]

(* Mutant: front and pop_front each take a lock of their own.              *)
Assign_Unlocks(t) ==
    /\ pc[t] = "assign"
    /\ out' = [out EXCEPT ![t] = Element(op[t])]
    /\ pc' = [pc EXCEPT ![t] = IF op[t] \in Pops THEN "pop" ELSE "return"]
    /\ mtx' = None
    /\ UNCHANGED <<container, terminated, op>>

(* The caller's _t gets the element.                                       *)
Assign(t) ==
    /\ pc[t] = "assign"
    /\ out' = [out EXCEPT ![t] = Element(op[t])]
    /\ pc' = [pc EXCEPT ![t] = IF op[t] \in Pops THEN "pop" ELSE "return"]
    /\ UNCHANGED <<container, terminated, mtx, op>>

(* What container_.pop_front() or .pop_back() leaves.                      *)
Popped(o) == IF o \in {"pop_front", "pop_front_to"}
             THEN SubSeq(container, 2, Len(container))
             ELSE SubSeq(container, 1, Len(container) - 1)

(* The element is removed.                                                 *)
Pop(t) ==
    /\ pc[t] = "pop"
    /\ container' = Popped(op[t])
    /\ out' = [out EXCEPT ![t] = IF op[t] \in Assigning THEN @ ELSE None]
    /\ pc' = [pc EXCEPT ![t] = "return"]
    /\ UNCHANGED <<terminated, mtx, op>>

Clear(t) ==
    /\ pc[t] = "locked" /\ op[t] = "clear"
    /\ container' = <<>>
    /\ out' = [out EXCEPT ![t] = None]
    /\ pc' = [pc EXCEPT ![t] = "return"]
    /\ UNCHANGED <<terminated, mtx, op>>

Terminate(t) ==
    /\ pc[t] = "locked" /\ op[t] = "Terminate"
    /\ terminated' = TRUE
    /\ NotifyAll(Asleep, [pc EXCEPT ![t] = "return"])
    /\ out' = [out EXCEPT ![t] = None]
    /\ UNCHANGED <<container, mtx, op>>

(* The lock is destroyed and the call returns.                             *)
Return(t) ==
    /\ pc[t] = "return"
    /\ mtx' = None
    /\ op' = [op EXCEPT ![t] = None]
    /\ pc' = [pc EXCEPT ![t] = "idle"]
    /\ UNCHANGED <<container, terminated, out>>

-----------------------------------------------------------------------------
Init ==
    /\ container = <<>> /\ terminated = FALSE /\ mtx = None
    /\ pc = [t \in Threads |-> "idle"]
    /\ op = [t \in Threads |-> None]
    /\ out = [t \in Threads |-> None]

(* A thread that holds mtx_ goes on.                                       *)
HoldingStep(t) ==
    \/ CheckSize(t) \/ Sleep(t) \/ GoOn(t) \/ Check(t) \/ Assign(t) \/ Pop(t)
    \/ Clear(t) \/ Terminate(t) \/ Return(t)
    \/ \E v \in Values, notify \in BOOLEAN :
           (notify \/ Quiet) /\ Insert(t, v, notify)

Next ==
    \E t \in Threads :
        \/ \E o \in Uses : Lock(t, o)
        \/ HoldingStep(t) \/ Relock(t) \/ Timeout(t) \/ WakeSpuriously(t)

Spec == Init /\ [][Next]_vars

(* A thread that holds mtx_ runs on, and a woken thread that finds mtx_    *)
(* free again and again gets it. Nobody has to call, and no wakeup but the *)
(* notified ones has to come.                                              *)
FairSpec ==
    Spec /\ \A t \in Threads : WF_vars(HoldingStep(t)) /\ SF_vars(Relock(t))

-----------------------------------------------------------------------------
(* The variables have their types, and, push_front and push_back refusing  *)
(* only beyond max_size_, the deque never holds more than max_size_ + 1    *)
(* elements.                                                               *)
TypeOK ==
    /\ container \in Seq(Values) /\ Len(container) <= MaxSize + 1
    /\ terminated \in BOOLEAN /\ mtx \in Threads \cup {None}
    /\ pc \in [Threads -> {"idle", "locked", "insert", "asleep", "awake",
                           "woken", "check", "assign", "pop", "return"}]
    /\ op \in [Threads -> Uses \cup {None}]
    /\ out \in [Threads -> Values \cup {None, Failed}]

(* The threads that have been woken, or need not wait, and have not got    *)
(* their element yet.                                                      *)
Taking ==
    {t \in Threads :
        \/ pc[t] \in {"awake", "woken", "check", "assign", "pop"}
        \/ pc[t] = "locked" /\ op[t] \in Takes}

(* When all waits are for the deque not to be empty and all pushes notify, *)
(* notify_one wakes enough: no thread sleeps on while there are more       *)
(* elements than threads on their way to take one, nor on a terminated     *)
(* deque.                                                                  *)
SleepersCovered ==
    Asleep # {} => Len(container) <= Cardinality(Taking) /\ ~terminated

(* The element pop_front_to or pop_back_to has assigned to its caller's _t *)
(* counts as taken, though it is still in container_.                      *)
Assigned(t) == pc[t] = "pop" /\ op[t] \in Assigning

Visible ==
    IF \E t \in Threads : Assigned(t)
    THEN Popped(op[CHOOSE t \in Threads : Assigned(t)])
    ELSE container

Calling ==
    [t \in Threads |->
        IF Assigned(t) \/ pc[t] = "return" THEN "done" ELSE op[t]]

D == INSTANCE Deque WITH container <- Visible, call <- Calling

(* A ThreadSafeDeque is a Deque: whatever other calls come between the     *)
(* steps of a call, and however often it waits, it takes effect at one     *)
(* instant. No element is handed to two threads, none is lost, a woken     *)
(* thread that comes too late gets nothing, and false is returned only     *)
(* when there is nothing to hand out.                                      *)
ImplementsDeque == D!DequeSpec

(* Terminate ends every call.                                              *)
TerminateReleases ==
    \A t \in Threads : (terminated /\ pc[t] # "idle") ~> pc[t] = "idle"
=============================================================================
