------------------------------ MODULE PortPlan ------------------------------
(***************************************************************************)
(* The port mapper (controller-go, game_container_port_mapper.go): which   *)
(* host ports the excerpts of a container configuration get on an agent,   *)
(* given the ports in use there.  A configuration is a record with a mode  *)
(* ("nat" or "host"), the flag inject, and a sequence of port excerpts.  A *)
(* plan is a set of rows, without the instance and the agent; the mapper   *)
(* writes nothing.                                                         *)
(***************************************************************************)
EXTENDS Naturals, FiniteSetsExt, SequencesExt

CONSTANTS TCP_PORT_BEGIN, TCP_PORT_END, UDP_PORT_BEGIN, UDP_PORT_END

MaxPort == 65535
NoPort == MaxPort + 1   \* in place of an error
Port == 0 .. MaxPort

ASSUME PortRanges ==
  /\ {TCP_PORT_BEGIN, TCP_PORT_END, UDP_PORT_BEGIN, UDP_PORT_END} \subseteq Port
  /\ TCP_PORT_BEGIN <= TCP_PORT_END /\ UDP_PORT_BEGIN <= UDP_PORT_END

ProtocolType == {"tcp", "udp"}

\* Nothing is checked when excerpts are saved; only those that leave the range
\* of ports are not modelled.
PortExcerpt == {e \in [proto : ProtocolType, begin : Port, len : Port, isGamePort : BOOLEAN] :
                  e.begin + e.len <= MaxPort}

PortExcerpts(es) == ToSet(es)
PortsOf(e) == e.begin .. e.begin + e.len - 1
Declared(es) == UNION {PortsOf(e) : e \in PortExcerpts(es)}

\* The protocols that a container port is declared for, merged over excerpts.
portRequirement(es, port) == {e.proto : e \in {x \in PortExcerpts(es) : port \in PortsOf(x)}}

usedHostPorts(rows) ==
  [p \in ProtocolType |-> {r.host : r \in {x \in rows : x.proto = p}}]

markUsed(used, protos, port) ==
  [p \in ProtocolType |-> used[p] \cup (IF p \in protos THEN {port} ELSE {})]

portInUse(used, protos, port) == \E p \in protos : port \in used[p]

\* Only the TCP row of the base of an injected block carries IsGamePort.
Rows(protos, host, container, base) ==
  {[proto |-> p, host |-> host, container |-> container,
    isGamePort |-> base /\ p = "tcp"] : p \in protos}

\* The first port of the range that is free for every protocol wanted.
allocateHostPort(protos, used) ==
  LET range == IF protos = {"udp"} THEN UDP_PORT_BEGIN .. UDP_PORT_END
                                   ELSE TCP_PORT_BEGIN .. TCP_PORT_END
      free == {h \in range : ~portInUse(used, protos, h)}
  IN IF free = {} THEN NoPort ELSE Min(free)

\* The first run of count ports that are free for both protocols.
allocateContiguousHostPorts(count, used) ==
  LET starts == {s \in TCP_PORT_BEGIN .. TCP_PORT_END :
                   /\ s + count - 1 <= TCP_PORT_END
                   /\ \A k \in 0 .. count - 1 : ~portInUse(used, ProtocolType, s + k)}
  IN IF starts = {} THEN NoPort ELSE Min(starts)

NoPlan == [ok |-> FALSE, used |-> [p \in ProtocolType |-> {}], rows |-> {}]

\* One more container port in a plan under way; an error ends the plan.
Extend(plan, protos, host, container) ==
  IF ~plan.ok \/ host = NoPort THEN NoPlan
  ELSE [ok |-> TRUE, used |-> markUsed(plan.used, protos, host),
        rows |-> plan.rows \cup Rows(protos, host, container, FALSE)]

\* Adds the numbers of S to a plan one after the other, the smallest first.
InOrder(Add(_, _), plan, S) == MapThenFoldSet(Add, plan, LAMBDA n : n, Max, S)

\* Host mode takes the container's own port numbers, NAT mode free ones.
PlacePort(config, port, plan) ==
  LET protos == portRequirement(config.excerpts, port)
      host == IF config.mode = "nat" THEN allocateHostPort(protos, plan.used)
              ELSE IF portInUse(plan.used, protos, port) THEN NoPort ELSE port
  IN Extend(plan, protos, host, port)

planPortsNAT(config, used) ==
  InOrder(LAMBDA port, plan : PlacePort(config, port, plan),
          [ok |-> TRUE, used |-> used, rows |-> {}], Declared(config.excerpts))

\* The excerpts below an injected block are mapped one by one: here the two
\* protocols of one container port are two excerpts and get two host ports.
PlaceExcerpt(e, start) ==
  InOrder(LAMBDA port, plan : Extend(plan, {e.proto}, allocateHostPort({e.proto}, plan.used), port),
          start, PortsOf(e))

mapPortExtraNAT(es, base, start) ==
  InOrder(LAMBDA n, plan : PlaceExcerpt(es[n], plan), start, {n \in DOMAIN es : es[n].begin < base})

gameBase(es) ==
  LET marked == {n \in DOMAIN es : es[n].isGamePort}
  IN IF marked = {} THEN 0 ELSE es[Min(marked)].begin

blockLen(es) ==
  Max({1} \cup {e.begin + e.len - gameBase(es) :
                  e \in {x \in PortExcerpts(es) : x.begin >= gameBase(es)}})

\* Mutant: the block is placed at the first free port, whatever follows it.
planPortsInjectedFirstFree(config, used) ==
  LET es == config.excerpts
      host == allocateHostPort(ProtocolType, used)
      rows == UNION {Rows(portRequirement(es, gameBase(es) + k), host + k, host + k, k = 0) :
                       k \in 0 .. blockLen(es) - 1}
  IN IF gameBase(es) = 0 \/ host = NoPort THEN NoPlan
     ELSE mapPortExtraNAT(es, gameBase(es), [ok |-> TRUE, used |-> used, rows |-> rows])

\* Injected mode: the game listens on the host's port numbers, so the block
\* from the game port on is one run of host ports mapped to themselves.
planPortsInjected(config, used) ==
  LET es == config.excerpts
      block == 0 .. blockLen(es) - 1
      host == allocateContiguousHostPorts(blockLen(es), used)
      taken == [p \in ProtocolType |-> used[p] \cup {host + k : k \in block}]
      rows == UNION {Rows(portRequirement(es, gameBase(es) + k), host + k, host + k, k = 0) :
                       k \in block}
  IN IF gameBase(es) = 0 \/ host = NoPort THEN NoPlan
     ELSE mapPortExtraNAT(es, gameBase(es), [ok |-> TRUE, used |-> taken, rows |-> rows])

PlanPorts(config, used) ==
  IF config.inject /\ config.mode = "nat" THEN planPortsInjected(config, used)
                                          ELSE planPortsNAT(config, used)

\* The port players connect to: the one marked, else the first declared.
gamePort(es) == IF gameBase(es) = 0 /\ es # <<>> THEN es[1].begin ELSE gameBase(es)

\* Mutant: the row is looked for by its declared number only.
GetInstanceConnectInfoByNumber(config, rows) ==
  LET named == {r.host : r \in {x \in rows : x.container = gamePort(config.excerpts)}}
  IN IF gamePort(config.excerpts) # 0 /\ named # {} THEN Min(named) ELSE 0

\* GetInstanceConnectInfo: the row marked as the game port, or the one of the
\* game port's number; 0 when there is neither.
GetInstanceConnectInfo(config, rows) ==
  LET flagged == {r.host : r \in {x \in rows : x.isGamePort}}
      named == {r.host : r \in {x \in rows : x.container = gamePort(config.excerpts)}}
  IN IF gamePort(config.excerpts) = 0 THEN 0
     ELSE IF flagged # {} THEN Min(flagged)
     ELSE IF named # {} THEN Min(named) ELSE 0

\* buildInstanceEnv, resolveQueryHostPort: the port told to the adapter and
\* to the probe; 0 when the adapter is told nothing.
buildInstanceEnv(config, rows) ==
  LET flagged == {r.host : r \in {x \in rows : x.isGamePort}}
  IN IF config.inject /\ flagged # {} THEN Min(flagged) ELSE 0
=============================================================================
