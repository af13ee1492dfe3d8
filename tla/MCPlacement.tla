----------------------------- MODULE MCPlacement -----------------------------
(* Instances of the scheduler for TLC: two instances, two agents, four     *)
(* host ports.                                                             *)
EXTENDS Placement

MCCap == [a \in {1, 2} |-> IF a = 1 THEN [cpu |-> 5, disk |-> 12, bw |-> 10]
                                    ELSE [cpu |-> 3, disk |-> 10, bw |-> 0]]
MCUsed == [a \in {1, 2} |-> IF a = 1 THEN 1 ELSE 0]
MCSamples == [a \in {1, 2} |-> IF a = 1 THEN <<[cpu |-> 2, bw |-> 9], [cpu |-> 1, bw |-> 2]>>
                                        ELSE <<>>]
MCLocation == [a \in {1, 2} |-> IF a = 1 THEN "sg" ELSE "us"]
MCRegion == [i \in {1, 2} |-> IF i = 1 THEN "us" ELSE ""]
MCFreq == [a \in {1, 2} |-> 2 + a]
MCOverride == [i \in {1, 2} |-> [cpu |-> IF i = 2 THEN 2 ELSE 0, disk |-> 0, bw |-> 0]]
MCDefaultReq == [cpu |-> 2, disk |-> 3, bw |-> 0]
MCPriority == [i \in {1, 2} |-> IF i = 1 THEN 10 ELSE 0]

Excerpt(p, b, l, g) == [proto |-> p, begin |-> b, len |-> l, isGamePort |-> g]
MCConfig(mode, inject, single, cpu, es) ==
  [mode |-> mode, inject |-> inject, single |-> single,
   req |-> [cpu |-> cpu, disk |-> 3, bw |-> 2], excerpts |-> es]

NatConfig == MCConfig("nat", FALSE, FALSE, 2,
                      <<Excerpt("tcp", 7, 1, TRUE), Excerpt("udp", 7, 2, FALSE)>>)
HostConfig == MCConfig("host", FALSE, TRUE, 1,
                       <<Excerpt("udp", 51, 1, TRUE), Excerpt("tcp", 51, 1, FALSE)>>)
InjectConfig == MCConfig("nat", TRUE, FALSE, 0,
                         <<Excerpt("tcp", 3, 1, FALSE), Excerpt("tcp", 9, 1, TRUE), Excerpt("udp", 9, 2, FALSE)>>)

MCConfigs == {NatConfig, HostConfig, InjectConfig}

Branch(n, e, b) == [name |-> n, enabled |-> e, build |-> b]
MCSteam0 == <<Branch("beta", TRUE, 7), Branch("public", TRUE, 8)>>
MCCache0 == [a \in {1, 2} |-> IF a = 2 THEN "available" ELSE "missing"]
MCBranches == {MCSteam0,
               <<Branch("beta", TRUE, 0), Branch("public", FALSE, 8)>>,
               <<Branch("beta", FALSE, 7), Branch("public", FALSE, 8)>>}
=============================================================================
