----------------------------- MODULE ListLemmas -----------------------------
(* Sequences without repetition, as the free list of the connection pool   *)
(* and the queues of a NetThread are: what the operations of a deque do to *)
(* them and to the set of their elements.                                  *)
EXTENDS Integers, Sequences, SequenceTheorems, TLAPS

Once(s) == \A i, j \in DOMAIN s : s[i] = s[j] => i = j
Listed(s) == {s[i] : i \in DOMAIN s}

(* push_front on a list without duplicates.                                *)
LEMMA PushFront ==
    ASSUME NEW S, NEW s \in Seq(S), NEW u \in S, Once(s), u \notin Listed(s)
    PROVE  Once(<<u>> \o s) /\ Listed(<<u>> \o s) = Listed(s) \cup {u}
  <1> DEFINE p == <<u>> \o s
  <1>1. /\ <<u>> \in Seq(S) /\ Len(<<u>>) = 1 /\ <<u>>[1] = u
    OBVIOUS
  <1>2. /\ p \in Seq(S) /\ Len(p) = Len(s) + 1
        /\ \A i \in 1 .. Len(s) + 1 : p[i] = IF i <= 1 THEN u ELSE s[i - 1]
    BY <1>1, ConcatProperties
  <1>3. DOMAIN p = 1 .. Len(s) + 1 /\ DOMAIN s = 1 .. Len(s) /\ Len(s) \in Nat
    BY <1>2, LenProperties
  <1> HIDE DEF p
  <1>4. Once(p)
    <2> SUFFICES ASSUME NEW i \in 1 .. Len(s) + 1, NEW j \in 1 .. Len(s) + 1,
                        p[i] = p[j]
                 PROVE  i = j
      BY <1>3 DEF Once
    <2>1. \A k \in 1 .. Len(s) : s[k] # u
      BY <1>3 DEF Listed
    <2>2. CASE i = 1 \/ j = 1
      BY <1>2, <1>3, <2>1, <2>2
    <2>3. CASE i # 1 /\ j # 1
      <3>1. /\ i - 1 \in DOMAIN s /\ j - 1 \in DOMAIN s
            /\ p[i] = s[i - 1] /\ p[j] = s[j - 1]
        BY <1>2, <1>3, <2>3
      <3>2. i - 1 = j - 1
        BY <3>1 DEF Once
      <3> QED BY <1>3, <3>2
    <2> QED BY <2>2, <2>3
  <1>5. \A x : x \in Listed(p) <=> x \in Listed(s) \/ x = u
    <2> TAKE x
    <2>1. ASSUME x \in Listed(p) PROVE x \in Listed(s) \/ x = u
      <3>1. PICK i \in 1 .. Len(s) + 1 : x = p[i]
        BY <1>3, <2>1 DEF Listed
      <3>2. CASE i = 1
        BY <1>2, <1>3, <3>1, <3>2
      <3>3. CASE i # 1
        <4>1. x = s[i - 1] /\ i - 1 \in 1 .. Len(s)
          BY <1>2, <1>3, <3>1, <3>3
        <4> QED BY <1>3, <4>1 DEF Listed
      <3> QED BY <3>2, <3>3
    <2>2. ASSUME x \in Listed(s) PROVE x \in Listed(p)
      <3>1. PICK i \in 1 .. Len(s) : x = s[i]
        BY <1>3, <2>2 DEF Listed
      <3>2. i + 1 \in 1 .. Len(s) + 1 /\ p[i + 1] = x
        BY <1>2, <1>3, <3>1
      <3> QED BY <1>3, <3>2 DEF Listed
    <2>3. ASSUME x = u PROVE x \in Listed(p)
      <3>1. 1 \in DOMAIN p /\ p[1] = u
        BY <1>2, <1>3
      <3> QED BY <2>3, <3>1 DEF Listed
    <2> QED BY <2>1, <2>2, <2>3
  <1> QED BY <1>4, <1>5 DEF p

(* pop_front of a list without duplicates.                                 *)
LEMMA PopFront ==
    ASSUME NEW S, NEW s \in Seq(S), s # <<>>, Once(s)
    PROVE  /\ Once(Tail(s)) /\ Listed(Tail(s)) = Listed(s) \ {Head(s)}
           /\ Head(s) \in Listed(s)
  <1> DEFINE q == Tail(s)
  <1>1. /\ Head(s) = s[1] /\ Len(s) \in Nat /\ Len(s) >= 1
        /\ q \in Seq(S) /\ Len(q) = Len(s) - 1
        /\ \A i \in 1 .. Len(q) : q[i] = s[i + 1]
    BY HeadTailProperties, LenProperties, EmptySeq
  <1>2. DOMAIN q = 1 .. Len(s) - 1 /\ DOMAIN s = 1 .. Len(s)
    BY <1>1, LenProperties
  <1> HIDE DEF q
  <1>3. Once(q)
    <2> SUFFICES ASSUME NEW i \in 1 .. Len(s) - 1, NEW j \in 1 .. Len(s) - 1,
                        q[i] = q[j]
                 PROVE  i = j
      BY <1>2 DEF Once
    <2>1. /\ i + 1 \in DOMAIN s /\ j + 1 \in DOMAIN s
          /\ q[i] = s[i + 1] /\ q[j] = s[j + 1]
      BY <1>1, <1>2
    <2>2. i + 1 = j + 1
      BY <2>1 DEF Once
    <2> QED BY <1>1, <2>2
  <1>4. \A x : x \in Listed(q) <=> x \in Listed(s) /\ x # Head(s)
    <2> TAKE x
    <2>1. ASSUME x \in Listed(q) PROVE x \in Listed(s) /\ x # Head(s)
      <3>1. PICK i \in 1 .. Len(s) - 1 : x = q[i]
        BY <1>2, <2>1 DEF Listed
      <3>2. x = s[i + 1] /\ i + 1 \in 1 .. Len(s) /\ i + 1 # 1
        BY <1>1, <3>1
      <3>3. x # s[1]
        BY <1>1, <1>2, <3>2 DEF Once
      <3> QED BY <1>1, <1>2, <3>2, <3>3 DEF Listed
    <2>2. ASSUME x \in Listed(s), x # Head(s) PROVE x \in Listed(q)
      <3>1. PICK i \in 1 .. Len(s) : x = s[i]
        BY <1>2, <2>2 DEF Listed
      <3>2. i - 1 \in 1 .. Len(s) - 1 /\ q[i - 1] = x
        BY <1>1, <2>2, <3>1
      <3> QED BY <1>2, <3>2 DEF Listed
    <2> QED BY <2>1, <2>2
  <1>5. Head(s) \in Listed(s)
    BY <1>1, <1>2 DEF Listed
  <1> QED BY <1>3, <1>4, <1>5 DEF q

(* push_back on a list without duplicates.                                 *)
LEMMA PushBackOnce ==
    ASSUME NEW S, NEW s \in Seq(S), NEW u \in S, Once(s), u \notin Listed(s)
    PROVE  Once(Append(s, u)) /\ Listed(Append(s, u)) = Listed(s) \cup {u}
  <1> DEFINE p == Append(s, u)
  <1>1. /\ p \in Seq(S) /\ Len(p) = Len(s) + 1 /\ Len(s) \in Nat
        /\ \A i \in 1 .. Len(s) : p[i] = s[i]
        /\ p[Len(s) + 1] = u
    BY AppendProperties, LenProperties
  <1>2. DOMAIN p = 1 .. Len(s) + 1 /\ DOMAIN s = 1 .. Len(s)
    BY <1>1, LenProperties
  <1> HIDE DEF p
  <1>3. \A k \in 1 .. Len(s) : s[k] # u
    BY <1>2 DEF Listed
  <1>4. Once(p)
    <2> SUFFICES ASSUME NEW i \in 1 .. Len(s) + 1, NEW j \in 1 .. Len(s) + 1, p[i] = p[j]
                 PROVE  i = j
      BY <1>2 DEF Once
    <2>1. CASE i \in 1 .. Len(s) /\ j \in 1 .. Len(s)
      BY <1>1, <1>2, <2>1 DEF Once
    <2>2. CASE i \notin 1 .. Len(s) \/ j \notin 1 .. Len(s)
      BY <1>1, <1>3, <2>2
    <2> QED BY <2>1, <2>2
  <1>5. \A x : x \in Listed(p) <=> x \in Listed(s) \/ x = u
    <2> TAKE x
    <2>1. ASSUME x \in Listed(p) PROVE x \in Listed(s) \/ x = u
      <3>1. PICK i \in 1 .. Len(s) + 1 : x = p[i]
        BY <1>2, <2>1 DEF Listed
      <3>2. CASE i = Len(s) + 1
        BY <1>1, <3>1, <3>2
      <3>3. CASE i # Len(s) + 1
        <4>1. i \in 1 .. Len(s) /\ x = s[i]
          BY <1>1, <3>1, <3>3
        <4> QED BY <1>2, <4>1 DEF Listed
      <3> QED BY <3>2, <3>3
    <2>2. ASSUME x \in Listed(s) PROVE x \in Listed(p)
      <3>1. PICK i \in 1 .. Len(s) : x = s[i]
        BY <1>2, <2>2 DEF Listed
      <3>2. i \in 1 .. Len(s) + 1 /\ p[i] = x
        BY <1>1, <3>1
      <3> QED BY <1>2, <3>2 DEF Listed
    <2>3. ASSUME x = u PROVE x \in Listed(p)
      <3>1. Len(s) + 1 \in DOMAIN p
        BY <1>1, <1>2
      <3> QED BY <1>1, <2>3, <3>1 DEF Listed
    <2> QED BY <2>1, <2>2, <2>3
  <1> QED BY <1>4, <1>5 DEF p

(* What is left of a list without duplicates without its first n elements. *)
LEMMA DropFront ==
    ASSUME NEW S, NEW s \in Seq(S), NEW n \in 0 .. Len(s), Once(s)
    PROVE  LET q == SubSeq(s, n + 1, Len(s))
           IN  /\ Once(q) /\ Listed(q) \subseteq Listed(s)
               /\ \A i \in 1 .. n : s[i] \in Listed(s) /\ s[i] \notin Listed(q)
  <1> DEFINE q == SubSeq(s, n + 1, Len(s))
  <1>1. Len(s) \in Nat /\ n \in Nat /\ n <= Len(s) /\ DOMAIN s = 1 .. Len(s)
    BY LenProperties
  <1>2. /\ DOMAIN q = 1 .. Len(s) - n
        /\ \A i \in 1 .. Len(s) - n : q[i] = s[n + i]
    BY <1>1
  <1> HIDE DEF q
  <1>3. Once(q)
    <2> SUFFICES ASSUME NEW i \in 1 .. Len(s) - n, NEW j \in 1 .. Len(s) - n, q[i] = q[j]
                 PROVE  i = j
      BY <1>2 DEF Once
    <2>1. n + i \in DOMAIN s /\ n + j \in DOMAIN s /\ s[n + i] = s[n + j]
      BY <1>1, <1>2
    <2>2. n + i = n + j
      BY <2>1 DEF Once
    <2> QED BY <1>1, <2>2
  <1>4. ASSUME NEW x \in Listed(q) PROVE \E k \in DOMAIN s : k > n /\ s[k] = x
    <2>1. PICK i \in 1 .. Len(s) - n : x = q[i]
      BY <1>2 DEF Listed
    <2>2. n + i \in DOMAIN s /\ n + i > n /\ s[n + i] = x
      BY <1>1, <1>2, <2>1
    <2> QED BY <2>2
  <1>5. Listed(q) \subseteq Listed(s)
    BY <1>4 DEF Listed
  <1>6. ASSUME NEW i \in 1 .. n PROVE s[i] \in Listed(s) /\ s[i] \notin Listed(q)
    <2>1. i \in DOMAIN s
      BY <1>1
    <2>2. s[i] \in Listed(s)
      BY <2>1 DEF Listed
    <2>3. ASSUME s[i] \in Listed(q) PROVE FALSE
      <3>1. PICK k \in DOMAIN s : k > n /\ s[k] = s[i]
        BY <1>4, <2>3
      <3>2. k = i
        BY <2>1, <3>1 DEF Once
      <3> QED BY <1>1, <3>1, <3>2
    <2> QED BY <2>2, <2>3
  <1> QED BY <1>3, <1>5, <1>6 DEF q
=============================================================================
