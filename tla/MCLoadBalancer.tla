--------------------------- MODULE MCLoadBalancer ---------------------------
(* Small instances of LoadBalancer: three web servers, one with weight 0.  *)
EXTENDS LoadBalancer

ThreeServers == <<1, 0, 2>>
AllRules == {"kPoll", "kWeight", "kIpHash"}
SomeAddresses == {-1, 0, 1, 2, 3}
=============================================================================
