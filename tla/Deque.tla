-------------------------------- MODULE Deque --------------------------------
(***************************************************************************)
(* What a MessageQueue::ThreadSafeDeque promises to the threads that share *)
(* it: between its beginning and its return a call takes effect once, at   *)
(* one instant, on a deque without a mutex, a condition variable or        *)
(* threads that wait. It hands out, and removes, the element at the place  *)
(* it is about, and fails if there is none at that instant.                *)
(***************************************************************************)
EXTENDS Naturals, Sequences

CONSTANTS
    Threads,    \* callers
    Values,     \* what may be pushed
    None,       \* no call; result of a call that hands out nothing
    Failed,     \* result of a call that returns false
    MaxSize,    \* max_size_
    Pos         \* the position asked of get

VARIABLES
    container,  \* the elements
    terminated, \* whether the deque has been terminated
    call,       \* the operation a thread is in, "done" once it took effect
    out         \* result of the last call that took effect

dequeVars == <<container, terminated, call, out>>

Adding == {"push_front", "push_back"}
Removing == {"pop_front", "pop_front_to", "pop_back", "pop_back_to"}
Giving == {"pop_front_to", "pop_back_to", "front", "back", "get"}
Ops == Adding \cup Removing \cup Giving \cup {"clear", "Terminate"}

(* The place an operation is about.                                        *)
Place(o) == CASE o \in {"pop_front", "pop_front_to", "front"} -> 1
              [] o \in {"pop_back", "pop_back_to", "back"} -> Len(container)
              [] o = "get" -> Pos + 1

Without(s, i) ==
    [j \in 1 .. Len(s) - 1 |-> IF j < i THEN s[j] ELSE s[j + 1]]

Begin(t, o) ==
    /\ call[t] = None
    /\ call' = [call EXCEPT ![t] = o]
    /\ UNCHANGED <<container, terminated, out>>

(* The call of t takes effect with result r.                               *)
Effect(t, r) ==
    /\ call' = [call EXCEPT ![t] = "done"]
    /\ out' = [out EXCEPT ![t] = r]

Return(t) ==
    /\ call[t] = "done"
    /\ call' = [call EXCEPT ![t] = None]
    /\ UNCHANGED <<container, terminated, out>>

Push(t, v) ==
    /\ call[t] \in Adding /\ Len(container) <= MaxSize
    /\ container' = IF call[t] = "push_front" THEN <<v>> \o container
                                              ELSE Append(container, v)
    /\ Effect(t, None)
    /\ UNCHANGED terminated

Refuse(t) ==
    /\ call[t] \in Adding /\ Len(container) > MaxSize
    /\ Effect(t, Failed)
    /\ UNCHANGED <<container, terminated>>

Take(t) ==
    LET o == call[t] IN
    /\ o \in Removing \cup Giving
    /\ ~terminated /\ Place(o) \in 1 .. Len(container)
    /\ container' = IF o \in Removing THEN Without(container, Place(o))
                                      ELSE container
    /\ Effect(t, IF o \in Giving THEN container[Place(o)] ELSE None)
    /\ UNCHANGED terminated

Fail(t) ==
    /\ call[t] \in Removing \cup Giving
    /\ terminated \/ Place(call[t]) \notin 1 .. Len(container)
    /\ Effect(t, Failed)
    /\ UNCHANGED <<container, terminated>>

Clear(t) ==
    /\ call[t] = "clear"
    /\ container' = <<>>
    /\ Effect(t, None)
    /\ UNCHANGED terminated

Terminate(t) ==
    /\ call[t] = "Terminate"
    /\ terminated' = TRUE
    /\ Effect(t, None)
    /\ UNCHANGED container

DequeInit ==
    /\ container = <<>> /\ terminated = FALSE
    /\ call = [t \in Threads |-> None]
    /\ out = [t \in Threads |-> None]

DequeNext ==
    \E t \in Threads :
        \/ \E o \in Ops : Begin(t, o)
        \/ \E v \in Values : Push(t, v)
        \/ Refuse(t) \/ Take(t) \/ Fail(t) \/ Clear(t) \/ Terminate(t)
        \/ Return(t)

DequeSpec == DequeInit /\ [][DequeNext]_dequeVars
=============================================================================
