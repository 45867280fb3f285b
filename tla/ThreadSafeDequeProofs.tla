------------------------ MODULE ThreadSafeDequeProofs ------------------------
(***************************************************************************)
(* A ThreadSafeDeque implements a Deque, for any number of threads and any *)
(* mix of operations; and, used as the server uses it, its notify_one      *)
(* calls leave no thread asleep beside an element nobody was woken for.    *)
(***************************************************************************)
EXTENDS ThreadSafeDeque, FiniteSetTheorems, SequenceTheorems, TLAPS

(* Where a thread holds mtx_.                                              *)
Holding == {"locked", "insert", "woken", "check", "assign", "pop", "return"}

(* What mtx_ guarantees a thread in a call: what it found when it looked   *)
(* at the deque is still so when it inserts, assigns or pops.              *)
InCall(t) ==
    /\ pc[t] \in Holding <=> mtx = t
    /\ pc[t] = "idle" => op[t] = None
    /\ pc[t] # "idle" => op[t] \in Uses
    /\ pc[t] = "insert" => op[t] \in Pushes /\ Len(container) <= MaxSize
    /\ pc[t] \in {"asleep", "awake", "woken", "check"} => op[t] \in Takes
    /\ pc[t] = "assign" => op[t] \in Assigning
    /\ pc[t] = "pop" => op[t] \in Pops
    /\ pc[t] \in {"assign", "pop"} =>
           Len(container) > Than(op[t]) /\ ~terminated

CallInv == TypeOK /\ \A t \in Threads : InCall(t)

(* A part of a sequence is a sequence of the elements between its ends.    *)
LEMMA Part ==
    ASSUME NEW s \in Seq(Values), NEW m \in Nat, NEW n \in Nat,
           1 <= m, m <= n + 1, n <= Len(s)
    PROVE  /\ SubSeq(s, m, n) \in Seq(Values)
           /\ Len(SubSeq(s, m, n)) = n - m + 1
           /\ \A i \in 1 .. n - m + 1 : SubSeq(s, m, n)[i] = s[m + i - 1]
<1>1. Len(s) \in Nat /\ \A i \in 1 .. Len(s) : s[i] \in Values
  BY LenProperties, ElementOfSeq
<1>2. m \in Int /\ n \in Int /\ \A i \in m .. n : s[i] \in Values
  BY <1>1
<1>3. /\ SubSeq(s, m, n) \in Seq(Values)
      /\ Len(SubSeq(s, m, n)) = IF m <= n THEN n - m + 1 ELSE 0
      /\ \A i \in 1 .. n - m + 1 : SubSeq(s, m, n)[i] = s[m + i - 1]
  BY <1>2, SubSeqProperties
<1> QED
  BY <1>3

(* What a pop leaves is the deque without the element at one of its ends.  *)
LEMMA PoppedType ==
    ASSUME container \in Seq(Values), Len(container) > 0, NEW o
    PROVE  /\ Popped(o) \in Seq(Values)
           /\ Len(Popped(o)) = Len(container) - 1
           /\ \A i \in 1 .. Len(container) - 1 :
                  Popped(o)[i] = IF o \in {"pop_front", "pop_front_to"}
                                 THEN container[i + 1] ELSE container[i]
<1> DEFINE n == Len(container)
<1>1. /\ n \in Nat /\ n > 0 /\ n = Len(container)
      /\ 2 \in Nat /\ 1 <= 2 /\ 2 <= n + 1 /\ n <= Len(container)
  BY LenProperties
<1> HIDE DEF n
<1>2. CASE o \in {"pop_front", "pop_front_to"}
  <2>1. /\ SubSeq(container, 2, n) \in Seq(Values)
        /\ Len(SubSeq(container, 2, n)) = n - 2 + 1
        /\ \A i \in 1 .. n - 2 + 1 :
              SubSeq(container, 2, n)[i] = container[2 + i - 1]
    BY <1>1, Part
  <2> QED
    BY <1>1, <1>2, <2>1 DEF Popped
<1>3. CASE o \notin {"pop_front", "pop_front_to"}
  <2> DEFINE k == n - 1
  <2>1. k \in Nat /\ 1 <= k + 1 /\ k <= Len(container) /\ 1 \in Nat
    BY <1>1
  <2> HIDE DEF k
  <2>2. /\ SubSeq(container, 1, k) \in Seq(Values)
        /\ Len(SubSeq(container, 1, k)) = k - 1 + 1
        /\ \A i \in 1 .. k - 1 + 1 :
              SubSeq(container, 1, k)[i] = container[1 + i - 1]
    BY <2>1, Part
  <2> QED
    BY <1>1, <1>3, <2>1, <2>2 DEF Popped, k
<1> QED
  BY <1>2, <1>3

(* A push adds one element.                                                *)
LEMMA PushedType ==
    ASSUME container \in Seq(Values), NEW v \in Values
    PROVE  /\ Append(container, v) \in Seq(Values)
           /\ Len(Append(container, v)) = Len(container) + 1
           /\ <<v>> \o container \in Seq(Values)
           /\ Len(<<v>> \o container) = Len(container) + 1
<1>1. Len(container) \in Nat
  BY LenProperties
<1>2. /\ Append(container, v) \in Seq(Values)
      /\ Len(Append(container, v)) = Len(container) + 1
  BY AppendProperties
<1>3. <<v>> \in Seq(Values) /\ Len(<<v>>) = 1
  OBVIOUS
<1>4. /\ <<v>> \o container \in Seq(Values)
      /\ Len(<<v>> \o container) = 1 + Len(container)
  BY <1>3, ConcatProperties
<1> QED
  BY <1>1, <1>2, <1>4

(* The element an operation assigns is one that has been pushed.           *)
LEMMA ElementType ==
    ASSUME container \in Seq(Values), NEW o \in Assigning,
           Len(container) > Than(o)
    PROVE  Element(o) \in Values
<1>1. Len(container) \in Nat /\ \A i \in 1 .. Len(container) : container[i] \in Values
  BY LenProperties, ElementOfSeq
<1>2. Len(container) > 0
  BY <1>1, ThreadSafeDequeAssumption DEF Than
<1>3. Head(container) = container[1]
  BY DEF Head
<1> QED
  BY <1>1, <1>2, <1>3, ThreadSafeDequeAssumption DEF Element, Than, Assigning, Takes, Pops
-----------------------------------------------------------------------------
(* A step of t that neither wakes a thread nor touches the deque keeps     *)
(* what the others know.                                                   *)
LEMMA OthersKeep ==
    ASSUME CallInv, NEW t \in Threads, NEW to,
           pc' = [pc EXCEPT ![t] = to],
           \A u \in Threads \ {t} : op'[u] = op[u],
           mtx = t \/ mtx' = mtx \/ mtx = None,
           mtx' = t \/ mtx' = mtx \/ (mtx = t /\ mtx' = None),
           UNCHANGED <<container, terminated>>
    PROVE  \A u \in Threads \ {t} : InCall(u)'
<1> SUFFICES ASSUME NEW u \in Threads, u # t PROVE InCall(u)'
  OBVIOUS
<1>1. InCall(u) /\ InCall(t) /\ pc'[u] = pc[u] /\ op'[u] = op[u]
  BY DEF CallInv, TypeOK
<1>2. Than(op[u])' = Than(op[u])
  BY <1>1 DEF Than
<1> QED
  BY <1>1, <1>2, ThreadSafeDequeAssumption DEF InCall, Than

(* A step of the thread that holds mtx_ and goes on holding it, whatever   *)
(* it does to the deque and whomever it wakes, keeps what the others know. *)
LEMMA HolderKeeps ==
    ASSUME CallInv, NEW t \in Threads, pc[t] \in Holding,
           UNCHANGED <<mtx, op>>,
           \A u \in Threads \ {t} :
               \/ pc'[u] = pc[u]
               \/ pc[u] = "asleep" /\ pc'[u] = "awake"
    PROVE  \A u \in Threads \ {t} : InCall(u)'
<1> SUFFICES ASSUME NEW u \in Threads, u # t PROVE InCall(u)'
  OBVIOUS
<1>1. mtx = t /\ mtx # u /\ pc[u] \notin Holding /\ InCall(u)
  BY DEF CallInv, InCall
<1>2. pc'[u] = pc[u] \/ (pc[u] = "asleep" /\ pc'[u] = "awake")
  OBVIOUS
<1>3. CASE pc'[u] = pc[u]
  BY <1>1, <1>3 DEF InCall, Holding
<1>4. CASE pc[u] = "asleep" /\ pc'[u] = "awake"
  BY <1>1, <1>4 DEF InCall, Holding
<1> QED
  BY <1>2, <1>3, <1>4

(* Notifying one sleeping thread.                                          *)
LEMMA OneWoken ==
    ASSUME CallInv, NEW t \in Threads, pc[t] # "asleep",
           NEW S, S \subseteq Asleep,
           NotifyOne(S, [pc EXCEPT ![t] = "return"])
    PROVE  /\ pc' \in [Threads -> Holding \cup {"idle", "asleep", "awake"}]
           /\ pc'[t] = "return"
           /\ \A u \in Threads \ {t} :
                  \/ pc'[u] = pc[u]
                  \/ pc[u] = "asleep" /\ pc'[u] = "awake"
<1> DEFINE at == [pc EXCEPT ![t] = "return"]
<1>1. /\ at \in [Threads -> Holding \cup {"idle", "asleep", "awake"}]
      /\ at[t] = "return"
      /\ \A u \in Threads \ {t} : at[u] = pc[u]
  BY DEF CallInv, TypeOK, Holding
<1>2. t \notin S /\ \A s \in S : s \in Threads /\ pc[s] = "asleep"
  BY DEF Asleep
<1>3. pc' = at \/ \E s \in S : pc' = [at EXCEPT ![s] = "awake"]
  BY DEF NotifyOne
<1> HIDE DEF at
<1>4. CASE pc' = at
  BY <1>1, <1>4
<1>5. ASSUME NEW s \in S, pc' = [at EXCEPT ![s] = "awake"]
      PROVE  /\ pc' \in [Threads -> Holding \cup {"idle", "asleep", "awake"}]
             /\ pc'[t] = "return"
             /\ \A u \in Threads \ {t} :
                    \/ pc'[u] = pc[u]
                    \/ pc[u] = "asleep" /\ pc'[u] = "awake"
  BY <1>1, <1>2, <1>5
<1> QED
  BY <1>3, <1>4, <1>5

(* The mutex keeps what a call has found out true until it returns.        *)
LEMMA CallNext == CallInv /\ [Next]_vars => CallInv'
<1> SUFFICES ASSUME CallInv, [Next]_vars PROVE CallInv'
  OBVIOUS
<1> USE ThreadSafeDequeAssumption
<1>0. Len(container) \in Nat /\ container \in Seq(Values)
  BY LenProperties DEF CallInv, TypeOK
<1>1. CASE UNCHANGED vars
  BY <1>1 DEF vars, CallInv, TypeOK, InCall, Than
<1>2. ASSUME NEW t \in Threads, NEW o \in Uses, Lock(t, o)
      PROVE  CallInv'
  <2>1. TypeOK'
    BY <1>2 DEF Lock, CallInv, TypeOK
  <2>2. InCall(t)'
    BY <1>2 DEF Lock, CallInv, TypeOK, InCall, Holding
  <2>3. \A u \in Threads \ {t} : InCall(u)'
    BY <1>2, OthersKeep DEF Lock, CallInv, TypeOK
  <2> QED
    BY <2>1, <2>2, <2>3 DEF CallInv
<1>3. ASSUME NEW t \in Threads, CheckSize(t)
      PROVE  CallInv'
  <2>1. TypeOK'
    BY <1>3 DEF CheckSize, CallInv, TypeOK
  <2>2. InCall(t)'
    BY <1>3 DEF CheckSize, CallInv, TypeOK, InCall, Holding
  <2>3. \A u \in Threads \ {t} : InCall(u)'
    BY <1>3, HolderKeeps DEF CheckSize, CallInv, TypeOK, Holding
  <2> QED
    BY <2>1, <2>2, <2>3 DEF CallInv
<1>4. ASSUME NEW t \in Threads, NEW v \in Values, NEW notify \in BOOLEAN,
             Insert(t, v, notify)
      PROVE  CallInv'
  <2>1. /\ pc' \in [Threads -> Holding \cup {"idle", "asleep", "awake"}]
        /\ pc'[t] = "return"
        /\ \A u \in Threads \ {t} :
              \/ pc'[u] = pc[u]
              \/ pc[u] = "asleep" /\ pc'[u] = "awake"
    <3> DEFINE S == IF notify THEN Asleep ELSE {}
    <3>1. NotifyOne(S, [pc EXCEPT ![t] = "return"]) /\ pc[t] = "insert"
      BY <1>4 DEF Insert
    <3>2. S \subseteq Asleep
      OBVIOUS
    <3> HIDE DEF S
    <3> QED
      BY <3>1, <3>2, OneWoken
  <2>2. InCall(t) /\ Len(container) <= MaxSize
    BY <1>4 DEF CallInv, InCall, Insert
  <2>3. container' \in Seq(Values) /\ Len(container') = Len(container) + 1
    BY <1>0, <1>4, PushedType DEF Insert
  <2>4. TypeOK'
    <3>1. Len(container') <= MaxSize + 1
      BY <1>0, <2>2, <2>3
    <3>2. out' \in [Threads -> Values \cup {None, Failed}]
      BY <1>4 DEF Insert, CallInv, TypeOK
    <3> QED
      BY <1>4, <2>1, <2>3, <3>1, <3>2 DEF Insert, CallInv, TypeOK, Holding
  <2>5. InCall(t)'
    BY <1>4, <2>1, <2>2 DEF Insert, InCall, Holding
  <2>6. \A u \in Threads \ {t} : InCall(u)'
    BY <1>4, <2>1, HolderKeeps DEF Insert, Holding
  <2> QED
    BY <2>4, <2>5, <2>6 DEF CallInv
<1>5. ASSUME NEW t \in Threads,
             Sleep(t) \/ GoOn(t) \/ WakeSpuriously(t) \/ Relock(t) \/ Timeout(t)
      PROVE  CallInv'
  <2>1. TypeOK'
    BY <1>5
    DEF Sleep, GoOn, WakeSpuriously, Relock, Timeout, CallInv, TypeOK
  <2>2. InCall(t)'
    BY <1>5
    DEF Sleep, GoOn, WakeSpuriously, Relock, Timeout, CallInv, TypeOK,
        InCall, Holding
  <2>3. InCall(t)
    BY DEF CallInv
  <2>4. \A u \in Threads \ {t} : InCall(u)'
    BY <1>5, <2>3, OthersKeep
    DEF Sleep, GoOn, WakeSpuriously, Relock, Timeout, InCall, Holding
  <2> QED
    BY <2>1, <2>2, <2>4 DEF CallInv
<1>6. ASSUME NEW t \in Threads, Check(t)
      PROVE  CallInv'
  <2>1. TypeOK'
    BY <1>6 DEF Check, CallInv, TypeOK
  <2>2. InCall(t)'
    BY <1>6
    DEF Check, CallInv, TypeOK, InCall, Holding, Takes, Assigning, Pops, Than
  <2>3. \A u \in Threads \ {t} : InCall(u)'
    BY <1>6, HolderKeeps DEF Check, CallInv, TypeOK, Holding
  <2> QED
    BY <2>1, <2>2, <2>3 DEF CallInv
<1>7. ASSUME NEW t \in Threads, Assign(t)
      PROVE  CallInv'
  <2>1. InCall(t) /\ Element(op[t]) \in Values
    BY <1>0, <1>7, ElementType DEF Assign, CallInv, InCall
  <2>2. TypeOK'
    BY <1>7, <2>1 DEF Assign, CallInv, TypeOK
  <2>3. InCall(t)'
    BY <1>7, <2>1 DEF Assign, CallInv, TypeOK, InCall, Holding, Than
  <2>4. \A u \in Threads \ {t} : InCall(u)'
    BY <1>7, HolderKeeps DEF Assign, CallInv, TypeOK, Holding
  <2> QED
    BY <2>2, <2>3, <2>4 DEF CallInv
<1>8. ASSUME NEW t \in Threads, Pop(t)
      PROVE  CallInv'
  <2>1. InCall(t) /\ Len(container) > 0
    BY <1>0, <1>8 DEF Pop, CallInv, InCall, Than
  <2>2. container' \in Seq(Values) /\ Len(container') = Len(container) - 1
    BY <1>0, <1>8, <2>1, PoppedType DEF Pop
  <2>3. TypeOK'
    BY <1>0, <1>8, <2>2 DEF Pop, CallInv, TypeOK
  <2>4. InCall(t)'
    BY <1>8, <2>1 DEF Pop, CallInv, TypeOK, InCall, Holding
  <2>5. \A u \in Threads \ {t} : InCall(u)'
    BY <1>8, HolderKeeps DEF Pop, CallInv, TypeOK, Holding
  <2> QED
    BY <2>3, <2>4, <2>5 DEF CallInv
<1>9. ASSUME NEW t \in Threads, Clear(t)
      PROVE  CallInv'
  <2>1. container' \in Seq(Values) /\ Len(container') = 0
    BY <1>9, EmptySeq DEF Clear
  <2>2. TypeOK'
    BY <1>9, <2>1 DEF Clear, CallInv, TypeOK
  <2>3. InCall(t)'
    BY <1>9 DEF Clear, CallInv, TypeOK, InCall, Holding
  <2>4. \A u \in Threads \ {t} : InCall(u)'
    BY <1>9, HolderKeeps DEF Clear, CallInv, TypeOK, Holding
  <2> QED
    BY <2>2, <2>3, <2>4 DEF CallInv
<1>10. ASSUME NEW t \in Threads, Terminate(t)
       PROVE  CallInv'
  <2>1. TypeOK'
    BY <1>10 DEF Terminate, NotifyAll, CallInv, TypeOK
  <2>2. InCall(t)'
    BY <1>10
    DEF Terminate, NotifyAll, Asleep, CallInv, TypeOK, InCall, Holding
  <2>3. \A u \in Threads \ {t} : InCall(u)'
    BY <1>10, HolderKeeps
    DEF Terminate, NotifyAll, Asleep, CallInv, TypeOK, Holding
  <2> QED
    BY <2>1, <2>2, <2>3 DEF CallInv
<1>11. ASSUME NEW t \in Threads, Return(t)
       PROVE  CallInv'
  <2>1. TypeOK'
    BY <1>11 DEF Return, CallInv, TypeOK
  <2>2. InCall(t)'
    BY <1>11 DEF Return, CallInv, TypeOK, InCall, Holding
  <2>3. InCall(t)
    BY DEF CallInv
  <2>4. \A u \in Threads \ {t} : InCall(u)'
    BY <1>11, <2>3, OthersKeep DEF Return, InCall, Holding, CallInv, TypeOK
  <2> QED
    BY <2>1, <2>2, <2>4 DEF CallInv
<1> QED
  BY <1>1, <1>2, <1>3, <1>4, <1>5, <1>6, <1>7, <1>8, <1>9, <1>10, <1>11
  DEF Next, HoldingStep

(* CallInv holds of every behaviour.                                       *)
LEMMA CallAlways == Spec => []CallInv
<1>1. Init => CallInv
  <2> SUFFICES ASSUME Init PROVE CallInv
    OBVIOUS
  <2>1. TypeOK
    <3>1. container \in Seq(Values) /\ Len(container) = 0
      BY EmptySeq DEF Init
    <3>2. Len(container) <= MaxSize + 1
      BY <3>1, ThreadSafeDequeAssumption
    <3>3. /\ pc \in [Threads -> {"idle"}] /\ op \in [Threads -> {None}]
          /\ out \in [Threads -> {None}] /\ terminated \in BOOLEAN
      BY DEF Init
    <3> QED
      BY <3>1, <3>2, <3>3 DEF Init, TypeOK
  <2>2. \A t \in Threads : InCall(t)
    BY ThreadSafeDequeAssumption DEF Init, InCall, Holding
  <2> QED
    BY <2>1, <2>2 DEF CallInv
<1> QED
  BY <1>1, CallNext, PTL DEF Spec
-----------------------------------------------------------------------------
(* At most one thread has assigned an element and not yet removed it, the  *)
(* one that holds mtx_.                                                    *)
LEMMA VisibleToHolder ==
    CallInv => \A t \in Threads :
        mtx = t => Visible = IF Assigned(t) THEN Popped(op[t]) ELSE container
<1> SUFFICES ASSUME CallInv, NEW t \in Threads, mtx = t
             PROVE  Visible = IF Assigned(t) THEN Popped(op[t]) ELSE container
  OBVIOUS
<1>1. \A u \in Threads : Assigned(u) => u = t
  BY DEF CallInv, InCall, Assigned, Holding
<1>2. CASE Assigned(t)
  <2>1. (CHOOSE u \in Threads : Assigned(u)) = t
    BY <1>1, <1>2
  <2> QED
    BY <1>2, <2>1 DEF Visible
<1>3. CASE ~Assigned(t)
  BY <1>1, <1>3 DEF Visible
<1> QED
  BY <1>2, <1>3

(* While nobody holds mtx_, the deque is what container_ says.             *)
LEMMA VisibleUnheld == CallInv /\ mtx = None => Visible = container
BY ThreadSafeDequeAssumption
DEF CallInv, InCall, Assigned, Holding, Visible

(* The same of the state after a step.                                     *)
LEMMA VisibleAfter ==
    ASSUME CallInv'
    PROVE  /\ mtx' = None => Visible' = container'
           /\ \A t \in Threads :
                 mtx' = t => Visible' = IF Assigned(t)' THEN Popped(op[t])'
                                        ELSE container'
<1>1. (CallInv /\ mtx = None => Visible = container)'
  BY VisibleUnheld, PTL
<1>2. (CallInv => \A t \in Threads :
          mtx = t => Visible = IF Assigned(t) THEN Popped(op[t])
                               ELSE container)'
  BY VisibleToHolder, PTL
<1> QED
  BY <1>1, <1>2

(* What a pop leaves is the deque without the place the operation is about. *)
LEMMA PopRemoves ==
    ASSUME container \in Seq(Values), Len(container) > 0, NEW o \in Pops
    PROVE  Popped(o) =
             D!Without(container, IF o \in {"pop_front", "pop_front_to"}
                                  THEN 1 ELSE Len(container))
<1> DEFINE n == Len(container) - 1
           p == IF o \in {"pop_front", "pop_front_to"} THEN 1
                ELSE Len(container)
<1>1. Len(container) \in Nat /\ n \in Nat /\ p \in Nat
  BY LenProperties
<1>2. /\ Popped(o) \in Seq(Values) /\ Len(Popped(o)) = n
      /\ \A i \in 1 .. n : Popped(o)[i] = IF o \in {"pop_front", "pop_front_to"}
                                         THEN container[i + 1]
                                         ELSE container[i]
  BY PoppedType
<1>3. Popped(o) = [i \in 1 .. n |-> Popped(o)[i]]
  BY <1>2, LenProperties
<1>4. \A i \in 1 .. n : Popped(o)[i] =
                          IF i < p THEN container[i] ELSE container[i + 1]
  BY <1>1, <1>2
<1> QED
  BY <1>3, <1>4 DEF D!Without

(* The steps of a thread that only waits, wakes, or looks are none of a    *)
(* Deque's.                                                                *)
LEMMA Unseen ==
    ASSUME CallInv, CallInv', NEW t \in Threads, NEW to,
           pc' = [pc EXCEPT ![t] = to],
           pc[t] \notin {"pop", "return"}, to \notin {"pop", "return"},
           mtx = t \/ mtx' = t \/ mtx' = mtx,
           mtx = t => mtx' \in {t, None}, mtx' = t => mtx \in {t, None},
           UNCHANGED <<container, terminated, op, out>>
    PROVE  UNCHANGED D!dequeVars
<1>1. Calling' = Calling
  BY DEF Calling, Assigned, CallInv, TypeOK
<1>2. \A u \in Threads : Assigned(u)' <=> Assigned(u)
  BY DEF Assigned, CallInv, TypeOK
<1>3. \A u \in Threads : Popped(op[u])' = Popped(op[u])
  BY DEF Popped
<1>4. ~Assigned(t)
  BY DEF Assigned
<1>5. Visible' = Visible
  <2>1. CASE mtx \in {t, None} /\ mtx' \in {t, None}
    BY <1>2, <1>4, <2>1, VisibleToHolder, VisibleUnheld, VisibleAfter
  <2>2. CASE mtx' = mtx /\ mtx \notin {t, None}
    <3>1. mtx \in Threads
      BY <2>2 DEF CallInv, TypeOK
    <3> QED
      BY <1>2, <1>3, <2>2, <3>1, VisibleToHolder, VisibleAfter
  <2> QED
    BY <2>1, <2>2
<1> QED
  BY <1>1, <1>5 DEF D!dequeVars

(* A thread that holds mtx_ takes its call to its end.                     *)
LEMMA Done ==
    ASSUME CallInv, CallInv', NEW t \in Threads,
           pc[t] \in Holding \ {"pop", "return"}, UNCHANGED <<mtx, op>>,
           \/ pc'[t] = "return"
           \/ pc'[t] = "pop" /\ op[t] \in Assigning,
           \A u \in Threads \ {t} :
               \/ pc'[u] = pc[u]
               \/ pc[u] = "asleep" /\ pc'[u] = "awake"
    PROVE  /\ Calling[t] = op[t]
           /\ Calling' = [Calling EXCEPT ![t] = "done"]
           /\ Visible = container
           /\ pc'[t] = "return" => Visible' = container'
           /\ pc'[t] = "pop" => Visible' = Popped(op[t])'
<1>1. mtx = t /\ mtx' = t
  BY DEF CallInv, InCall
<1>2. Calling[t] = op[t] /\ ~Assigned(t)
  BY DEF Calling, Assigned
<1>3. \A u \in Threads \ {t} : Calling'[u] = Calling[u]
  BY DEF Calling, Assigned
<1>4. Calling'[t] = "done"
  BY DEF Calling, Assigned
<1>5. Calling' = [Calling EXCEPT ![t] = "done"]
  BY <1>3, <1>4 DEF Calling
<1>6. pc'[t] = "pop" => Assigned(t)'
  BY DEF Assigned
<1>7. pc'[t] = "return" => ~Assigned(t)'
  BY DEF Assigned
<1> QED
  BY <1>1, <1>2, <1>5, <1>6, <1>7, VisibleToHolder, VisibleAfter

(* Deque's words for the operations are the model's.                       *)
LEMMA SameOps ==
    /\ D!Adding = Pushes /\ D!Removing = Pops /\ D!Giving = Assigning
    /\ D!Removing \cup D!Giving = Takes /\ Uses \subseteq D!Ops
BY ThreadSafeDequeAssumption
DEF D!Adding, D!Removing, D!Giving, D!Ops, Pushes, Pops, Takes, Assigning

(* An operation can be done when its place is in the deque.                *)
LEMMA PlaceThere ==
    ASSUME container \in Seq(Values), Visible = container, NEW o \in Takes
    PROVE  /\ D!Place(o) \in 1 .. Len(container) <=> Len(container) > Than(o)
           /\ o \in Pops => D!Place(o) = IF o \in {"pop_front", "pop_front_to"}
                                         THEN 1 ELSE Len(container)
           /\ o \in Assigning /\ Len(container) > Than(o) =>
                 container[D!Place(o)] = Element(o)
<1>1. Len(container) \in Nat /\ Pos \in Nat
  BY LenProperties, ThreadSafeDequeAssumption
<1>2. Head(container) = container[1]
  BY DEF Head
<1>3. CASE o \in {"pop_front", "pop_front_to", "front"}
  <2>1. D!Place(o) = 1 /\ Than(o) = 0
    BY <1>3 DEF D!Place, Than
  <2> QED
    BY <1>1, <1>2, <1>3, <2>1 DEF Element, Assigning, Takes, Pops
<1>4. CASE o \in {"pop_back", "pop_back_to", "back"}
  <2>1. D!Place(o) = Len(container) /\ Than(o) = 0
    BY <1>4 DEF D!Place, Than
  <2> QED
    BY <1>1, <1>4, <2>1 DEF Element, Assigning, Takes, Pops
<1>5. CASE o = "get"
  <2>1. D!Place(o) = Pos + 1 /\ Than(o) = Pos
    BY <1>5 DEF D!Place, Than
  <2> QED
    BY <1>1, <1>5, <2>1 DEF Element, Assigning, Takes, Pops
<1> QED
  BY <1>3, <1>4, <1>5 DEF Takes, Pops

(* Every call of a ThreadSafeDeque takes effect as one step of a Deque,    *)
(* whatever other calls do between the steps it is made of and however     *)
(* often it waits: threads see an atomic deque, and no element reaches two *)
(* of them.                                                                *)
THEOREM DequeImplemented == Spec => ImplementsDeque
<1>1. Init => D!DequeInit
  <2> SUFFICES ASSUME Init PROVE D!DequeInit
    OBVIOUS
  <2>1. \A t \in Threads : ~Assigned(t)
    BY DEF Init, Assigned
  <2>2. Visible = container
    BY <2>1 DEF Visible
  <2>3. Calling = [t \in Threads |-> None]
    BY <2>1 DEF Calling, Init
  <2> QED
    BY <2>2, <2>3 DEF Init, D!DequeInit
<1>2. CallInv /\ CallInv' /\ [Next]_vars => [D!DequeNext]_(D!dequeVars)
  <2> SUFFICES ASSUME CallInv, CallInv', [Next]_vars
               PROVE  [D!DequeNext]_(D!dequeVars)
    OBVIOUS
  <2>0. container \in Seq(Values) /\ Len(container) \in Nat
    BY LenProperties DEF CallInv, TypeOK
  <2>1. CASE UNCHANGED vars
    BY <2>1 DEF vars, D!dequeVars, Visible, Calling, Assigned, Popped
  <2>2. ASSUME NEW t \in Threads, NEW o \in Uses, Lock(t, o)
        PROVE  D!DequeNext
    <3>1. Visible = container /\ Calling[t] = None
      BY <2>2, VisibleUnheld DEF Lock, Calling, Assigned, CallInv, InCall
    <3>2. Calling' = [Calling EXCEPT ![t] = o]
      BY <2>2 DEF Lock, Calling, Assigned, CallInv, TypeOK
    <3>3. ~Assigned(t)' /\ mtx' = t
      BY <2>2 DEF Lock, Assigned, CallInv, TypeOK
    <3>4. Visible' = container'
      BY <3>3, VisibleAfter
    <3>5. D!Begin(t, o)
      BY <2>2, <3>1, <3>2, <3>4 DEF Lock, D!Begin
    <3> QED
      BY <3>5, SameOps DEF D!DequeNext
  <2>3. ASSUME NEW t \in Threads, CheckSize(t)
        PROVE  [D!DequeNext]_(D!dequeVars)
    <3>1. CASE pc' = [pc EXCEPT ![t] = "insert"] /\ UNCHANGED out
      <4>1. /\ pc[t] \notin {"pop", "return"} /\ mtx' = mtx
            /\ UNCHANGED <<container, terminated, op, out>>
        BY <2>3, <3>1 DEF CheckSize
      <4>2. UNCHANGED D!dequeVars
        BY <3>1, <4>1, Unseen
      <4> QED
        BY <4>2
    <3>2. CASE /\ pc' = [pc EXCEPT ![t] = "return"]
               /\ Len(container) > MaxSize
               /\ out' = [out EXCEPT ![t] = Failed]
      <4>1. /\ Calling[t] = op[t] /\ Calling' = [Calling EXCEPT ![t] = "done"]
            /\ Visible = container /\ Visible' = container'
        BY <2>3, <3>2, Done DEF CheckSize, CallInv, TypeOK, Holding
      <4>2. D!Refuse(t)
        BY <2>3, <3>2, <4>1, SameOps DEF CheckSize, D!Refuse, D!Effect
      <4> QED
        BY <4>2 DEF D!DequeNext
    <3> QED
      BY <2>3, <3>1, <3>2 DEF CheckSize
  <2>4. ASSUME NEW t \in Threads, NEW v \in Values, NEW notify \in BOOLEAN,
               Insert(t, v, notify)
        PROVE  D!DequeNext
    <3>1. /\ pc'[t] = "return" /\ pc[t] = "insert"
          /\ \A u \in Threads \ {t} :
                \/ pc'[u] = pc[u]
                \/ pc[u] = "asleep" /\ pc'[u] = "awake"
      <4> DEFINE S == IF notify THEN Asleep ELSE {}
      <4>1. NotifyOne(S, [pc EXCEPT ![t] = "return"]) /\ pc[t] = "insert"
        BY <2>4 DEF Insert
      <4>2. S \subseteq Asleep
        OBVIOUS
      <4> HIDE DEF S
      <4> QED
        BY <4>1, <4>2, OneWoken
    <3>2. /\ Calling[t] = op[t] /\ Calling' = [Calling EXCEPT ![t] = "done"]
          /\ Visible = container /\ Visible' = container'
      BY <2>4, <3>1, Done DEF Insert, Holding
    <3>3. op[t] \in Pushes /\ Len(container) <= MaxSize
      BY <3>1 DEF CallInv, InCall
    <3>4. D!Push(t, v)
      BY <2>4, <3>2, <3>3, SameOps DEF Insert, D!Push, D!Effect
    <3> QED
      BY <3>4 DEF D!DequeNext
  <2>5. ASSUME NEW t \in Threads,
               Sleep(t) \/ GoOn(t) \/ WakeSpuriously(t) \/ Relock(t)
                   \/ Timeout(t)
        PROVE  UNCHANGED D!dequeVars
    <3>1. InCall(t)
      BY DEF CallInv
    <3>2. PICK to \in {"asleep", "check", "awake", "woken"} :
             pc' = [pc EXCEPT ![t] = to]
      BY <2>5 DEF Sleep, GoOn, WakeSpuriously, Relock, Timeout
    <3>3. UNCHANGED <<container, terminated, op, out>>
      BY <2>5 DEF Sleep, GoOn, WakeSpuriously, Relock, Timeout
    <3>4. /\ pc[t] \notin {"pop", "return"}
          /\ mtx = t \/ mtx' = t \/ mtx' = mtx
          /\ mtx = t => mtx' \in {t, None}
          /\ mtx' = t => mtx \in {t, None}
      <4>1. CASE Sleep(t)
        BY <3>1, <4>1 DEF Sleep, InCall, Holding
      <4>2. CASE GoOn(t)
        BY <3>1, <4>2 DEF GoOn, InCall, Holding
      <4>3. CASE WakeSpuriously(t)
        BY <3>1, <4>3 DEF WakeSpuriously, InCall, Holding
      <4>4. CASE Relock(t)
        BY <3>1, <4>4 DEF Relock, InCall, Holding
      <4>5. CASE Timeout(t)
        BY <3>1, <4>5 DEF Timeout, InCall, Holding
      <4> QED
        BY <2>5, <4>1, <4>2, <4>3, <4>4, <4>5
    <3> QED
      BY <3>2, <3>3, <3>4, Unseen
  <2>6. ASSUME NEW t \in Threads, Check(t)
        PROVE  [D!DequeNext]_(D!dequeVars)
    <3>1. op[t] \in Takes /\ pc[t] = "check"
      BY <2>6 DEF Check, CallInv, InCall
    <3>2. CASE /\ Len(container) <= Than(op[t]) \/ terminated
               /\ pc' = [pc EXCEPT ![t] = "return"]
               /\ out' = [out EXCEPT ![t] = Failed]
      <4>1. /\ Calling[t] = op[t] /\ Calling' = [Calling EXCEPT ![t] = "done"]
            /\ Visible = container /\ Visible' = container'
        BY <2>6, <3>2, Done DEF Check, CallInv, TypeOK, Holding
      <4>2. terminated \/ D!Place(op[t]) \notin 1 .. Len(container)
        BY <2>0, <3>1, <3>2, <4>1, PlaceThere, ThreadSafeDequeAssumption
        DEF Than
      <4>3. D!Fail(t)
        BY <2>6, <3>1, <3>2, <4>1, <4>2, SameOps
        DEF Check, D!Fail, D!Effect
      <4> QED
        BY <4>3 DEF D!DequeNext
    <3>3. CASE pc' = [pc EXCEPT ![t] = "assign"] /\ UNCHANGED out
      BY <2>6, <3>1, <3>3, Unseen DEF Check
    <3>4. CASE /\ pc' = [pc EXCEPT ![t] = "pop"] /\ UNCHANGED out
               /\ op[t] \notin Assigning
      <4>1. Calling' = Calling /\ ~Assigned(t) /\ ~Assigned(t)'
        BY <2>6, <3>1, <3>4 DEF Check, Calling, Assigned, CallInv, TypeOK
      <4>2. mtx = t /\ mtx' = t
        BY <2>6, <3>1 DEF Check, CallInv, InCall, Holding
      <4>3. Visible' = container' /\ Visible = container
        BY <4>1, <4>2, VisibleToHolder, VisibleAfter
      <4> QED
        BY <2>6, <3>4, <4>1, <4>3 DEF Check, D!dequeVars
    <3> QED
      BY <2>6, <3>2, <3>3, <3>4 DEF Check
  <2>7. ASSUME NEW t \in Threads, Assign(t)
        PROVE  D!DequeNext
    <3>1. /\ op[t] \in Assigning /\ op[t] \in Takes /\ pc[t] = "assign"
          /\ Len(container) > Than(op[t]) /\ ~terminated
      BY <2>7 DEF Assign, CallInv, InCall, Assigning
    <3>2. /\ Calling[t] = op[t] /\ Calling' = [Calling EXCEPT ![t] = "done"]
          /\ Visible = container
          /\ pc'[t] = "return" => Visible' = container'
          /\ pc'[t] = "pop" => Visible' = Popped(op[t])'
      BY <2>7, <3>1, Done DEF Assign, CallInv, TypeOK, Holding
    <3>3. /\ D!Place(op[t]) \in 1 .. Len(container)
          /\ container[D!Place(op[t])] = Element(op[t])
      BY <2>0, <3>1, <3>2, PlaceThere
    <3>4. Visible' = IF op[t] \in Pops
                     THEN D!Without(container, D!Place(op[t])) ELSE container
      <4>1. CASE op[t] \in Pops
        <5>1. Visible' = Popped(op[t])
          BY <2>7, <3>2, <4>1 DEF Assign, CallInv, TypeOK, Popped
        <5>2. Len(container) > 0
          BY <2>0, <3>1, ThreadSafeDequeAssumption DEF Than
        <5> QED
          BY <2>0, <3>1, <3>2, <4>1, <5>1, <5>2, PopRemoves, PlaceThere
      <4>2. CASE op[t] \notin Pops
        BY <2>7, <3>2, <4>2 DEF Assign, CallInv, TypeOK
      <4> QED
        BY <4>1, <4>2
    <3>5. D!Take(t)
      BY <2>7, <3>1, <3>2, <3>3, <3>4, SameOps DEF Assign, D!Take, D!Effect
    <3> QED
      BY <3>5 DEF D!DequeNext
  <2>8. ASSUME NEW t \in Threads, Pop(t)
        PROVE  [D!DequeNext]_(D!dequeVars)
    <3>1. /\ op[t] \in Pops /\ op[t] \in Takes /\ pc[t] = "pop"
          /\ Len(container) > Than(op[t]) /\ ~terminated
      BY <2>8 DEF Pop, CallInv, InCall, Takes
    <3>2. mtx = t /\ mtx' = t /\ ~Assigned(t)'
      BY <2>8, <3>1 DEF Pop, CallInv, InCall, Holding, Assigned, TypeOK
    <3>3. Visible' = Popped(op[t])
      BY <2>8, <3>2, VisibleAfter DEF Pop
    <3>4. CASE op[t] \in Assigning
      <4>1. Assigned(t)
        BY <3>1, <3>4 DEF Assigned
      <4>2. Visible = Popped(op[t])
        BY <3>2, <4>1, VisibleToHolder
      <4>3. Calling' = Calling
        BY <2>8, <3>1, <3>4 DEF Pop, Calling, Assigned, CallInv, TypeOK
      <4>4. out' = out
        BY <2>8, <3>4 DEF Pop, CallInv, TypeOK
      <4> QED
        BY <2>8, <3>3, <4>2, <4>3, <4>4 DEF Pop, D!dequeVars
    <3>5. CASE op[t] \notin Assigning
      <4>1. ~Assigned(t) /\ Calling[t] = op[t]
        BY <3>1, <3>5 DEF Assigned, Calling
      <4>2. Visible = container
        BY <3>2, <4>1, VisibleToHolder
      <4>3. Calling' = [Calling EXCEPT ![t] = "done"]
        BY <2>8, <3>1, <3>5 DEF Pop, Calling, Assigned, CallInv, TypeOK
      <4>4. Len(container) > 0
        BY <2>0, <3>1, ThreadSafeDequeAssumption DEF Than
      <4>5. Visible' = D!Without(container, D!Place(op[t]))
        BY <2>0, <3>1, <3>3, <4>2, <4>4, PopRemoves, PlaceThere
      <4>6. D!Place(op[t]) \in 1 .. Len(container)
        BY <2>0, <3>1, <4>2, PlaceThere
      <4>7. out' = [out EXCEPT ![t] = None]
        BY <2>8, <3>5 DEF Pop
      <4>8. D!Take(t)
        BY <2>8, <3>1, <3>5, <4>1, <4>2, <4>3, <4>5, <4>6, <4>7, SameOps
        DEF Pop, D!Take, D!Effect
      <4> QED
        BY <4>8 DEF D!DequeNext
    <3> QED
      BY <3>4, <3>5
  <2>9. ASSUME NEW t \in Threads, Clear(t)
        PROVE  D!DequeNext
    <3>1. /\ Calling[t] = op[t] /\ Calling' = [Calling EXCEPT ![t] = "done"]
          /\ Visible = container /\ Visible' = container'
      BY <2>9, Done DEF Clear, CallInv, TypeOK, Holding
    <3>2. D!Clear(t)
      BY <2>9, <3>1 DEF Clear, D!Clear, D!Effect
    <3> QED
      BY <3>2 DEF D!DequeNext
  <2>10. ASSUME NEW t \in Threads, Terminate(t)
         PROVE  D!DequeNext
    <3>1. /\ Calling[t] = op[t] /\ Calling' = [Calling EXCEPT ![t] = "done"]
          /\ Visible = container /\ Visible' = container'
      BY <2>10, Done
      DEF Terminate, NotifyAll, Asleep, CallInv, TypeOK, Holding
    <3>2. D!Terminate(t)
      BY <2>10, <3>1 DEF Terminate, D!Terminate, D!Effect
    <3> QED
      BY <3>2 DEF D!DequeNext
  <2>11. ASSUME NEW t \in Threads, Return(t)
         PROVE  D!DequeNext
    <3>1. mtx = t /\ mtx' = None /\ ~Assigned(t)
      BY <2>11 DEF Return, CallInv, InCall, Holding, Assigned
    <3>2. Visible = container /\ Visible' = container'
      BY <3>1, VisibleToHolder, VisibleAfter
    <3>3. Calling[t] = "done" /\ Calling' = [Calling EXCEPT ![t] = None]
      BY <2>11 DEF Return, Calling, Assigned, CallInv, TypeOK
    <3>4. D!Return(t)
      BY <2>11, <3>2, <3>3 DEF Return, D!Return
    <3> QED
      BY <3>4 DEF D!DequeNext
  <2> QED
    BY <2>1, <2>2, <2>3, <2>4, <2>5, <2>6, <2>7, <2>8, <2>9, <2>10, <2>11
    DEF Next, HoldingStep
<1> QED
  BY <1>1, <1>2, CallAlways, PTL DEF Spec, ImplementsDeque, D!DequeSpec

-----------------------------------------------------------------------------
(* The queues of the server are only pushed, popped, cleared and           *)
(* terminated, and the threads that wait on one are woken by every push.   *)
PopsOnly == Uses \cap Takes \subseteq Pops /\ Quiet = FALSE

(* SleepersCovered needs to know of calls what CallInv says.               *)
CoveredInv == CallInv /\ SleepersCovered

(* Threads being finite, those on their way to an element can be counted.  *)
LEMMA TakingCounted == IsFiniteSet(Taking) /\ Cardinality(Taking) \in Nat
<1>1. Taking \subseteq Threads
  BY DEF Taking
<1> QED
  BY <1>1, ThreadSafeDequeAssumption, FS_Subset, FS_CardinalityType

(* The same of the state after a step.                                     *)
LEMMA TakingCountedAfter == IsFiniteSet(Taking') /\ Cardinality(Taking') \in Nat
<1>1. (IsFiniteSet(Taking) /\ Cardinality(Taking) \in Nat)'
  BY TakingCounted, PTL
<1> QED
  BY <1>1

(* A sleeping thread that is woken is one more on its way.                 *)
LEMMA OneMore ==
    ASSUME NEW s, s \notin Taking, Taking \cup {s} \subseteq Taking'
    PROVE  Cardinality(Taking') >= Cardinality(Taking) + 1
<1>1. /\ IsFiniteSet(Taking \cup {s})
      /\ Cardinality(Taking \cup {s}) = Cardinality(Taking) + 1
  BY TakingCounted, FS_AddElement
<1>2. Cardinality(Taking \cup {s}) <= Cardinality(Taking')
  BY <1>1, TakingCountedAfter, FS_Subset
<1> QED
  BY <1>1, <1>2, TakingCounted, TakingCountedAfter

(* A step after which all who were on their way still are keeps the count. *)
LEMMA NoneLess ==
    ASSUME Taking \subseteq Taking'
    PROVE  Cardinality(Taking') >= Cardinality(Taking)
<1>1. Cardinality(Taking) <= Cardinality(Taking')
  BY TakingCountedAfter, FS_Subset
<1> QED
  BY <1>1, TakingCounted, TakingCountedAfter

(* A thread that has its element is one less.                              *)
LEMMA OneLess ==
    ASSUME NEW t, Taking \ {t} \subseteq Taking'
    PROVE  Cardinality(Taking') >= Cardinality(Taking) - 1
<1>1. /\ IsFiniteSet(Taking \ {t}) /\ Cardinality(Taking \ {t}) \in Nat
      /\ Cardinality(Taking \ {t}) =
            IF t \in Taking THEN Cardinality(Taking) - 1 ELSE Cardinality(Taking)
  BY TakingCounted, FS_RemoveElement, FS_CardinalityType
<1>2. Cardinality(Taking \ {t}) <= Cardinality(Taking')
  BY TakingCountedAfter, FS_Subset
<1> QED
  BY <1>1, <1>2, TakingCounted, TakingCountedAfter

(* CoveredInv is inductive for queues that are only popped.                *)
LEMMA CoveredNext ==
    ASSUME PopsOnly
    PROVE  CoveredInv /\ [Next]_vars => CoveredInv'
<1> SUFFICES ASSUME CoveredInv, [Next]_vars PROVE SleepersCovered'
  BY CallNext DEF CoveredInv
<1>0. /\ Len(container) \in Nat /\ Cardinality(Taking) \in Nat
      /\ Cardinality(Taking') \in Nat
  BY LenProperties, TakingCounted, TakingCountedAfter
  DEF CoveredInv, CallInv, TypeOK
<1>1. ASSUME Taking \subseteq Taking', Asleep' \subseteq Asleep,
             UNCHANGED <<container, terminated>>
      PROVE  SleepersCovered'
  BY <1>0, <1>1, NoneLess DEF SleepersCovered, CoveredInv
<1>2. CASE UNCHANGED vars
  BY <1>1, <1>2 DEF vars, Taking, Asleep
<1>3. ASSUME NEW t \in Threads, NEW o \in Uses, Lock(t, o)
      PROVE  SleepersCovered'
  <2>1. Taking \subseteq Taking' /\ Asleep' \subseteq Asleep
    BY <1>3 DEF Lock, Taking, Asleep, CoveredInv, CallInv, TypeOK
  <2> QED
    BY <1>1, <1>3, <2>1 DEF Lock
<1>4. ASSUME NEW t \in Threads,
             \/ CheckSize(t) \/ GoOn(t) \/ Assign(t) \/ Return(t)
             \/ Relock(t) \/ Timeout(t) \/ WakeSpuriously(t)
      PROVE  SleepersCovered'
  <2>1. InCall(t)
    BY DEF CoveredInv, CallInv
  <2>2. \A o : o \in Pushes => o \notin Takes
    BY DEF Pushes, Takes, Pops
  <2>3. pc[t] = "assign" => op[t] \in Pops
    BY <2>1, Zenon DEF InCall, PopsOnly, Assigning
  <2>4. PICK to :
          /\ pc' = [pc EXCEPT ![t] = to]
          /\ \/ to \in {"awake", "woken", "check", "assign", "pop"}
             \/ t \notin Taking /\ to # "asleep"
    BY <1>4, <2>1, <2>2, <2>3
    DEF CheckSize, GoOn, Assign, Return, Relock, Timeout, WakeSpuriously,
        Taking
  <2>5. UNCHANGED <<container, terminated>> /\ \A u \in Threads \ {t} : op'[u] = op[u]
    BY <1>4
    DEF CheckSize, GoOn, Assign, Return, Relock, Timeout, WakeSpuriously,
        CoveredInv, CallInv, TypeOK
  <2>6. Taking \subseteq Taking' /\ Asleep' \subseteq Asleep
    BY <2>4, <2>5 DEF Taking, Asleep, CoveredInv, CallInv, TypeOK
  <2> QED
    BY <1>1, <2>5, <2>6
<1>5. ASSUME NEW t \in Threads, NEW v \in Values, NEW notify \in BOOLEAN,
             notify \/ Quiet, Insert(t, v, notify)
      PROVE  SleepersCovered'
  <2>1. notify = TRUE
    BY <1>5 DEF PopsOnly
  <2>2. NotifyOne(Asleep, [pc EXCEPT ![t] = "return"]) /\ pc[t] = "insert"
    BY <1>5, <2>1 DEF Insert
  <2>3. Len(container') = Len(container) + 1
    BY <1>5, PushedType DEF Insert, CoveredInv, CallInv, TypeOK
  <2>4. CASE Asleep = {}
    <3>1. Asleep' = {}
      BY <2>2, <2>4 DEF NotifyOne, Asleep, CoveredInv, CallInv, TypeOK
    <3> QED
      BY <3>1 DEF SleepersCovered
  <2>5. CASE Asleep # {}
    <3>1. PICK s \in Asleep :
             pc' = [[pc EXCEPT ![t] = "return"] EXCEPT ![s] = "awake"]
      BY <2>2, <2>5 DEF NotifyOne
    <3>2. s \notin Taking /\ Taking \cup {s} \subseteq Taking'
      BY <1>5, <2>2, <3>1
      DEF Insert, Asleep, Taking, CoveredInv, CallInv, TypeOK
    <3>3. Cardinality(Taking') >= Cardinality(Taking) + 1
      BY <3>2, OneMore
    <3>4. Len(container) <= Cardinality(Taking) /\ ~terminated
      BY <2>5 DEF SleepersCovered, CoveredInv
    <3>5. UNCHANGED terminated
      BY <1>5 DEF Insert
    <3>6. Len(container') <= Cardinality(Taking')
      BY <1>0, <2>3, <3>3, <3>4
    <3> QED
      BY <3>4, <3>5, <3>6 DEF SleepersCovered
  <2> QED
    BY <2>4, <2>5
<1>6. ASSUME NEW t \in Threads, Sleep(t)
      PROVE  SleepersCovered'
  <2>1. op[t] \in Pops
    BY <1>6, Zenon DEF Sleep, PopsOnly, CoveredInv, CallInv, InCall
  <2>2. Len(container) = 0 /\ ~terminated
    BY <1>0, <1>6, <2>1 DEF Sleep, Satisfied, Than, Pops
  <2> QED
    BY <1>0, <1>6, <2>2 DEF Sleep, SleepersCovered
<1>7. ASSUME NEW t \in Threads, Check(t)
      PROVE  SleepersCovered'
  <2>1. op[t] \in Pops
    BY <1>7, Zenon DEF Check, PopsOnly, CoveredInv, CallInv, InCall
  <2>2. CASE pc'[t] \in {"assign", "pop"}
    <3>1. Taking \subseteq Taking' /\ Asleep' \subseteq Asleep
      BY <1>7, <2>2 DEF Check, Taking, Asleep, CoveredInv, CallInv, TypeOK
    <3> QED
      BY <1>1, <1>7, <3>1 DEF Check
  <2>3. CASE Len(container) <= Than(op[t]) \/ terminated
    <3>1. Len(container) = 0 \/ terminated
      BY <1>0, <2>1, <2>3 DEF Than, Pops
    <3>2. Asleep' \subseteq Asleep /\ UNCHANGED <<container, terminated>>
      BY <1>7 DEF Check, Asleep, CoveredInv, CallInv, TypeOK
    <3> QED
      BY <1>0, <3>1, <3>2 DEF SleepersCovered, CoveredInv
  <2> QED
    BY <1>7, <2>2, <2>3 DEF Check, CoveredInv, CallInv, TypeOK
<1>8. ASSUME NEW t \in Threads, Pop(t)
      PROVE  SleepersCovered'
  <2>1. Len(container) > 0
    BY <1>0, <1>8, ThreadSafeDequeAssumption
    DEF Pop, CoveredInv, CallInv, InCall, Than
  <2>2. Len(container') = Len(container) - 1
    BY <1>8, <2>1, PoppedType DEF Pop, CoveredInv, CallInv, TypeOK
  <2>3. Taking \ {t} \subseteq Taking' /\ Asleep' \subseteq Asleep
    BY <1>8 DEF Pop, Taking, Asleep, CoveredInv, CallInv, TypeOK
  <2>4. Cardinality(Taking') >= Cardinality(Taking) - 1
    BY <2>3, OneLess
  <2> QED
    BY <1>0, <1>8, <2>1, <2>2, <2>3, <2>4 DEF Pop, SleepersCovered, CoveredInv
<1>9. ASSUME NEW t \in Threads, Clear(t)
      PROVE  SleepersCovered'
  <2>1. Asleep' \subseteq Asleep /\ Len(container') = 0
    BY <1>9, EmptySeq DEF Clear, Asleep, CoveredInv, CallInv, TypeOK
  <2> QED
    BY <1>0, <1>9, <2>1 DEF Clear, SleepersCovered, CoveredInv
<1>10. ASSUME NEW t \in Threads, Terminate(t)
       PROVE  SleepersCovered'
  <2>1. Asleep' = {}
    BY <1>10 DEF Terminate, NotifyAll, Asleep, CoveredInv, CallInv, TypeOK
  <2> QED
    BY <2>1 DEF SleepersCovered
<1> QED
  BY <1>2, <1>3, <1>4, <1>5, <1>6, <1>7, <1>8, <1>9, <1>10
  DEF Next, HoldingStep

(* On a queue that is only popped and whose pushes all notify, no thread   *)
(* sleeps on beside elements that outnumber the threads on their way to    *)
(* one, nor after Terminate: one notify_one per push is enough.            *)
THEOREM SleepersAlwaysCovered ==
    ASSUME PopsOnly
    PROVE  Spec => []SleepersCovered
<1>1. Init => SleepersCovered
  BY DEF Init, SleepersCovered, Asleep
<1>2. CoveredInv /\ [Next]_vars => CoveredInv'
  BY CoveredNext
<1>3. CoveredInv <=> CallInv /\ SleepersCovered
  BY DEF CoveredInv
<1> QED
  BY <1>1, <1>2, <1>3, CallAlways, PTL DEF Spec
=============================================================================
