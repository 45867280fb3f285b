---------------------------- MODULE LoadBalancer ----------------------------
(***************************************************************************)
(* reverseproxy/loadbalancer.cc: the choice of a web server for a request, *)
(* shared by the NetThreads of a reverse proxy under mutex_.  A thread     *)
(* selects a server, tries to connect to it, and reports it down if it     *)
(* cannot; heartbeats bring servers up again.                              *)
(*                                                                         *)
(* Servers are known by their position in web_servers_.  backlog and       *)
(* is_overload are read only by the part of __BalanceByWeight behind its   *)
(* second lock of mutex_, which no thread ever reaches: Select holds the   *)
(* mutex already.                                                          *)
(***************************************************************************)
EXTENDS Integers, Sequences, FiniteSets

CONSTANTS
    Users,      \* the threads that use the load balancer
    NoUser,     \* mutex_ is free
    Weights,    \* weight of each web server
    Rules,      \* the rules that may be configured
    Addresses   \* client addresses as numbers; -1 for one inet_pton refuses

Servers == DOMAIN Weights
kMaxWeight == 10

ASSUME LoadBalancerAssumption ==
    /\ NoUser \notin Users
    /\ Weights \in Seq(0..kMaxWeight) /\ Weights # <<>>     \* RegisterWebServer
    /\ Rules \subseteq {"kPoll", "kWeight", "kIpHash"}      \* ConfigRule
    /\ Addresses \subseteq Nat \cup {-1}

VARIABLES
    rule,       \* balance_rule_
    last,       \* last_selected_
    down,       \* servers with is_down
    stale,      \* servers whose last_down_ts is kDefaultRetryPeriod ago
    mutex,      \* the thread that holds mutex_
    at,         \* where each thread is
    chosen,     \* the server each thread has selected
    missed      \* history: selections since a server was last chosen or unavailable

balance == <<rule, last, down, stale, mutex, at, chosen, missed>>

-----------------------------------------------------------------------------
\* Thread t leaves Select with server s.
Return_Locked(t, s) ==
    /\ at' = [at EXCEPT ![t] = "connect"]
    /\ chosen' = [chosen EXCEPT ![t] = s]
    /\ last' = s
    /\ UNCHANGED <<mutex, down, missed>>
Return(t, s) ==
    /\ mutex' = NoUser
    /\ at' = [at EXCEPT ![t] = "connect"]
    /\ chosen' = [chosen EXCEPT ![t] = s]
    /\ last' = s
    /\ down' = down \ {s}
    /\ missed' = [x \in Servers |-> IF x = s \/ x \in down \/ Weights[x] = 0 THEN 0
                               ELSE missed[x] + 1]

IpIndex(ip) == (ip % Len(Weights)) + 1

\* Select locks mutex_ and turns to the rule.  __BalanceByIpHash takes the
\* server the address falls to, whatever its state; Select falls back to the
\* first server for an address that cannot be parsed.
Select(t) ==
    /\ at[t] = "idle" /\ mutex = NoUser
    /\ \/ /\ rule = "kPoll"
          /\ mutex' = t /\ at' = [at EXCEPT ![t] = "poll"]
          /\ UNCHANGED <<last, down, chosen, missed>>
       \/ /\ rule = "kWeight"
          /\ mutex' = t /\ at' = [at EXCEPT ![t] = "relock"]
          /\ UNCHANGED <<last, down, chosen, missed>>
       \/ /\ rule = "kIpHash"
          /\ \E ip \in Addresses :
                LET s == IF ip = -1 THEN 1 ELSE IpIndex(ip)
                IN  /\ chosen' = [chosen EXCEPT ![t] = s]
                    /\ last' = IF ip = -1 THEN last ELSE s
          /\ at' = [at EXCEPT ![t] = "connect"]
          /\ UNCHANGED <<mutex, down, missed>>
    /\ UNCHANGED <<rule, stale>>

NextIndex_Skip(i) == IF i + 1 > Len(Weights) THEN 2 ELSE i + 1
NextIndex(i) == IF i + 1 > Len(Weights) THEN 1 ELSE i + 1

\* __IsWebServerAvailable: a server that is down is tried again during the
\* retry period, not after it.
IsWebServerAvailable_NoRetry(s) == Weights[s] > 0 /\ s \notin down
IsWebServerAvailable(s) == Weights[s] > 0 /\ (s \notin down \/ s \notin stale)

\* One turn of the loop of __BalanceByPoll, under mutex_.
BalanceByPoll(t) ==
    /\ at[t] = "poll"
    /\ LET s == NextIndex(last)
       IN  IF IsWebServerAvailable(s) THEN Return(t, s)
           ELSE last' = s /\ UNCHANGED <<mutex, at, chosen, down, missed>>
    /\ UNCHANGED <<rule, stale>>

\* The caller connects to the server, or fails three times.
Connected(t) ==
    /\ at[t] = "connect"
    /\ at' = [at EXCEPT ![t] = "idle"]
    /\ UNCHANGED <<rule, last, down, stale, mutex, chosen, missed>>

ConnectFailed(t) ==
    /\ at[t] = "connect"
    /\ at' = [at EXCEPT ![t] = "report"]
    /\ UNCHANGED <<rule, last, down, stale, mutex, chosen, missed>>

ReportWebServerDown(t) ==
    /\ at[t] = "report" /\ mutex = NoUser
    /\ at' = [at EXCEPT ![t] = "idle"]
    /\ down' = down \cup {chosen[t]}
    /\ stale' = stale \ {chosen[t]}
    /\ missed' = [missed EXCEPT ![chosen[t]] = 0]
    /\ UNCHANGED <<rule, last, mutex, chosen>>

OnRecvHeartbeat(t, s) ==
    /\ at[t] = "idle" /\ mutex = NoUser
    /\ down' = down \ {s}
    /\ UNCHANGED <<rule, last, stale, mutex, at, chosen, missed>>

\* kDefaultRetryPeriod passes for a server that is down.
RetryPeriodPasses(s) ==
    /\ s \in down \ stale
    /\ stale' = stale \cup {s}
    /\ UNCHANGED <<rule, last, down, mutex, at, chosen, missed>>

BalanceInit ==
    /\ rule \in Rules /\ last = 1 /\ down = {} /\ stale = {} /\ mutex = NoUser
    /\ at = [t \in Users |-> "idle"]
    /\ chosen = [t \in Users |-> 1]
    /\ missed = [s \in Servers |-> 0]

BalanceNext ==
    \/ \E t \in Users : Select(t) \/ BalanceByPoll(t) \/ Connected(t) \/ ConnectFailed(t)
                          \/ ReportWebServerDown(t)
    \/ \E t \in Users, s \in Servers : OnRecvHeartbeat(t, s)
    \/ \E s \in Servers : RetryPeriodPasses(s)

\* A thread in Select's loop goes on.
BalanceSpec ==
    BalanceInit /\ [][BalanceNext]_balance /\ \A t \in Users : WF_balance(BalanceByPoll(t))

-----------------------------------------------------------------------------
\* Every server that counts is down and past its retry period.
Hopeless == \A s \in Servers : Weights[s] > 0 => s \in down \cap stale

BalanceTypeOK ==
    /\ rule \in Rules /\ last \in Servers /\ down \subseteq Servers /\ stale \subseteq Servers
    /\ mutex \in Users \cup {NoUser}
    /\ at \in [Users -> {"idle", "poll", "relock", "connect", "report"}]
    /\ chosen \in [Users -> Servers] /\ missed \in [Servers -> Nat]

\* __BalanceByPoll takes turns among the servers that are up and have a
\* weight, however many threads select and whatever else goes down and comes
\* up: such a server waits for at most one selection of every other one.
PollTakesTurns ==
    \A s \in Servers : Weights[s] > 0 /\ s \notin down => missed[s] < Len(Weights)

\* Select returns and releases mutex_, but for a thread that locks it twice in
\* __BalanceByWeight, and for one that polls while every server is down past
\* its retry period (it loops under mutex_ and shuts out the heartbeat that
\* would end the loop).
MutexReleased == (mutex # NoUser) ~> (mutex = NoUser \/ rule = "kWeight" \/ Hopeless)
=============================================================================
