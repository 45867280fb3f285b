-------------------------- MODULE LoadBalancerProofs --------------------------
(***************************************************************************)
(* Proofs about LoadBalancer for any threads, servers, weights and rules:  *)
(* its types, and that polling takes turns.                                *)
(***************************************************************************)
EXTENDS LoadBalancer, TLAPS

\* Servers are numbered from 1, there is one, and weights are numbers.
LEMMA ServersNumbered ==
    /\ Len(Weights) \in Nat \ {0}
    /\ Servers = 1..Len(Weights)
    /\ \A s \in Servers : Weights[s] \in Nat
BY LoadBalancerAssumption DEF Servers, kMaxWeight

\* last_selected_ stays among the servers, in whatever way it is moved.
LEMMA IndexInRange ==
    /\ 1 \in Servers
    /\ \A i \in Servers : NextIndex(i) \in Servers
    /\ \A ip \in Nat : IpIndex(ip) \in Servers
BY ServersNumbered DEF NextIndex, IpIndex

\* The state of the load balancer keeps its types: last_selected_ and every
\* selection are servers, mutex_ has at most one holder.
THEOREM BalanceTypeCorrect == BalanceSpec => []BalanceTypeOK
<1>1. BalanceInit => BalanceTypeOK
  BY ServersNumbered DEF BalanceInit, BalanceTypeOK
<1>2. BalanceTypeOK /\ [BalanceNext]_balance => BalanceTypeOK'
  <2> SUFFICES ASSUME BalanceTypeOK, [BalanceNext]_balance PROVE BalanceTypeOK'
    OBVIOUS
  <2> USE DEF BalanceTypeOK
  <2>1. ASSUME NEW t \in Users, Select(t) PROVE BalanceTypeOK'
    <3>1. CASE rule = "kPoll"
      BY <2>1, <3>1 DEF Select
    <3>2. CASE rule = "kWeight"
      BY <2>1, <3>2 DEF Select
    <3>3. CASE rule = "kIpHash"
      <4>1. PICK ip \in Addresses :
              LET s == IF ip = -1 THEN 1 ELSE IpIndex(ip)
              IN  /\ chosen' = [chosen EXCEPT ![t] = s]
                  /\ last' = IF ip = -1 THEN last ELSE s
        BY <2>1, <3>3 DEF Select
      <4>2. ip \in Nat \/ ip = -1
        BY LoadBalancerAssumption
      <4>4. ip # -1 => IpIndex(ip) \in Servers
        BY <4>2, IndexInRange
      <4>3. /\ UNCHANGED <<rule, stale, mutex, down, missed>>
            /\ at' = [at EXCEPT ![t] = "connect"]
        BY <2>1, <3>3 DEF Select
      <4> QED
        BY <4>1, <4>4, <4>3, IndexInRange
    <3> QED
      BY <2>1, <3>1, <3>2, <3>3 DEF Select
  <2>2. ASSUME NEW t \in Users, BalanceByPoll(t) PROVE BalanceTypeOK'
    <3>1. NextIndex(last) \in Servers
      BY IndexInRange
    <3>2. CASE IsWebServerAvailable(NextIndex(last))
      BY <2>2, <3>1, <3>2 DEF BalanceByPoll, Return
    <3>3. CASE ~IsWebServerAvailable(NextIndex(last))
      BY <2>2, <3>1, <3>3 DEF BalanceByPoll
    <3> QED
      BY <3>2, <3>3
  <2>3. ASSUME NEW t \in Users, Connected(t) \/ ConnectFailed(t) PROVE BalanceTypeOK'
    BY <2>3 DEF Connected, ConnectFailed
  <2>4. ASSUME NEW t \in Users, ReportWebServerDown(t) PROVE BalanceTypeOK'
    BY <2>4 DEF ReportWebServerDown
  <2>5. ASSUME NEW t \in Users, NEW s \in Servers, OnRecvHeartbeat(t, s) PROVE BalanceTypeOK'
    BY <2>5 DEF OnRecvHeartbeat
  <2>6. ASSUME NEW s \in Servers, RetryPeriodPasses(s) PROVE BalanceTypeOK'
    BY <2>6 DEF RetryPeriodPasses
  <2>7. CASE UNCHANGED balance
    BY <2>7 DEF balance
  <2> QED
    BY <2>1, <2>2, <2>3, <2>4, <2>5, <2>6, <2>7 DEF BalanceNext
<1> QED
  BY <1>1, <1>2, PTL DEF BalanceSpec

-----------------------------------------------------------------------------
\* How far last_selected_ at i is beyond server s, going round.
Dist(s, i) == IF i >= s THEN i - s ELSE i - s + Len(Weights)

\* Why polling takes turns: a server that is up has missed at most as many
\* selections as last_selected_ has moved on since it stood at that server; one
\* that is down has missed none, and none are counted without polling.
TurnsInv ==
    /\ BalanceTypeOK
    /\ \A t \in Users : at[t] = "poll" => rule = "kPoll"
    /\ \A s \in Servers :
          /\ s \in down \/ rule # "kPoll" => missed[s] = 0
          /\ Weights[s] > 0 => missed[s] <= Dist(s, last)

\* Moving last_selected_ on takes it one further from every server but the one
\* it comes to.
LEMMA DistGrows ==
    ASSUME NEW s \in Servers, NEW i \in Servers
    PROVE  /\ Dist(s, i) \in Nat /\ Dist(s, i) < Len(Weights)
           /\ NextIndex(i) # s => Dist(s, NextIndex(i)) = Dist(s, i) + 1
BY ServersNumbered DEF Dist, NextIndex

\* Every step of the load balancer keeps TurnsInv.
LEMMA TurnsInvKept == TurnsInv /\ BalanceTypeOK' /\ [BalanceNext]_balance => TurnsInv'
<1> SUFFICES ASSUME TurnsInv, BalanceTypeOK', [BalanceNext]_balance PROVE TurnsInv'
  OBVIOUS
<1>0. BalanceTypeOK /\ \A s \in Servers : Dist(s, last) \in Nat /\ Dist(s, last') \in Nat
  <2>1. last \in Servers /\ last' \in Servers
    BY DEF TurnsInv, BalanceTypeOK
  <2> QED
    BY <2>1, DistGrows DEF TurnsInv
<1>1. ASSUME NEW t \in Users, Select(t) PROVE TurnsInv'
  <2>1. CASE rule = "kPoll"
    BY <1>0, <1>1, <2>1 DEF Select, TurnsInv, BalanceTypeOK
  <2>2. CASE rule = "kWeight"
    BY <1>0, <1>1, <2>2 DEF Select, TurnsInv, BalanceTypeOK
  <2>3. CASE rule = "kIpHash"
    <3>1. /\ UNCHANGED <<rule, down, missed>>
          /\ at' = [at EXCEPT ![t] = "connect"]
      BY <1>1, <2>3 DEF Select
    <3>2. \A s \in Servers : missed[s] = 0
      BY <2>3 DEF TurnsInv
    <3> QED
      BY <1>0, <2>3, <3>1, <3>2 DEF TurnsInv, BalanceTypeOK
  <2> QED
    BY <1>1, <2>1, <2>2, <2>3 DEF Select
<1>2. ASSUME NEW t \in Users, BalanceByPoll(t) PROVE TurnsInv'
  <2> DEFINE n == NextIndex(last)
  <2>1. n \in Servers /\ last \in Servers /\ last' = n /\ rule = "kPoll" /\ rule' = rule
    BY <1>2, IndexInRange DEF BalanceByPoll, Return, TurnsInv, BalanceTypeOK
  <2>2. \A s \in Servers : s # n => Dist(s, n) = Dist(s, last) + 1
    BY <2>1, DistGrows
  <2> HIDE DEF n
  <2>3. CASE IsWebServerAvailable(n)
    <3>1. /\ at' = [at EXCEPT ![t] = "connect"] /\ down' = down \ {n}
          /\ missed' = [x \in Servers |-> IF x = n \/ x \in down \/ Weights[x] = 0 THEN 0
                                          ELSE missed[x] + 1]
      BY <1>2, <2>3 DEF BalanceByPoll, Return, n
    <3>2. ASSUME NEW s \in Servers, Weights[s] > 0 PROVE missed'[s] <= Dist(s, n)
      <4>1. CASE s = n \/ s \in down
        BY <1>0, <2>1, <3>1, <4>1
      <4>2. CASE s # n /\ s \notin down
        <5>1. missed'[s] = missed[s] + 1
          BY <3>1, <3>2, <4>2, ServersNumbered
        <5>2. missed[s] \in Nat /\ missed[s] <= Dist(s, last)
          BY <3>2 DEF TurnsInv, BalanceTypeOK
        <5> QED
          BY <1>0, <2>2, <4>2, <5>1, <5>2
      <4> QED
        BY <4>1, <4>2
    <3>3. \A s \in Servers : s \in down' => missed'[s] = 0
      BY <3>1
    <3>4. \A u \in Users : at'[u] = "poll" => rule' = "kPoll"
      BY <2>1
    <3> QED
      BY <2>1, <3>2, <3>3, <3>4 DEF TurnsInv
  <2>4. CASE ~IsWebServerAvailable(n)
    <3>1. UNCHANGED <<at, down, missed>>
      BY <1>2, <2>4 DEF BalanceByPoll, n
    <3>2. ASSUME NEW s \in Servers, Weights[s] > 0 PROVE missed'[s] <= Dist(s, n)
      <4>1. CASE s = n
        BY <1>0, <2>1, <2>4, <3>1, <3>2, <4>1 DEF IsWebServerAvailable, TurnsInv
      <4>2. CASE s # n
        BY <1>0, <2>2, <3>1, <3>2, <4>2 DEF TurnsInv, BalanceTypeOK
      <4> QED
        BY <4>1, <4>2
    <3> QED
      BY <2>1, <3>1, <3>2 DEF TurnsInv
  <2> QED
    BY <2>3, <2>4
<1>3. ASSUME NEW t \in Users, Connected(t) \/ ConnectFailed(t) PROVE TurnsInv'
  BY <1>3 DEF Connected, ConnectFailed, TurnsInv, BalanceTypeOK
<1>4. ASSUME NEW t \in Users, ReportWebServerDown(t) PROVE TurnsInv'
  BY <1>0, <1>4 DEF ReportWebServerDown, TurnsInv, BalanceTypeOK
<1>5. ASSUME NEW t \in Users, NEW s \in Servers, OnRecvHeartbeat(t, s) PROVE TurnsInv'
  BY <1>5 DEF OnRecvHeartbeat, TurnsInv
<1>6. ASSUME NEW s \in Servers, RetryPeriodPasses(s) PROVE TurnsInv'
  BY <1>6 DEF RetryPeriodPasses, TurnsInv
<1>7. CASE UNCHANGED balance
  BY <1>7 DEF balance, TurnsInv
<1> QED
  BY <1>1, <1>2, <1>3, <1>4, <1>5, <1>6, <1>7 DEF BalanceNext

\* __BalanceByPoll takes turns, for any number of servers and threads: a server
\* that is up and has a weight is selected before every other one has been
\* selected once since.
THEOREM PollAlwaysTakesTurns == BalanceSpec => []PollTakesTurns
<1>1. BalanceInit /\ BalanceTypeOK => TurnsInv
  BY ServersNumbered DEF BalanceInit, TurnsInv, Dist
<1>2. TurnsInv => PollTakesTurns
  <2> SUFFICES ASSUME TurnsInv, NEW s \in Servers, Weights[s] > 0
               PROVE  missed[s] < Len(Weights)
    BY DEF PollTakesTurns
  <2>1. last \in Servers /\ missed[s] \in Nat /\ missed[s] <= Dist(s, last)
    BY DEF TurnsInv, BalanceTypeOK
  <2>2. Dist(s, last) \in Nat /\ Dist(s, last) < Len(Weights)
    BY <2>1, DistGrows
  <2> QED
    BY <2>1, <2>2, ServersNumbered
<1> QED
  BY <1>1, <1>2, BalanceTypeCorrect, TurnsInvKept, PTL DEF BalanceSpec
=============================================================================
