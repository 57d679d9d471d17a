----------------------------- MODULE RgAllocater -----------------------------
(***************************************************************************)
(* How the servers of a pool are dealt out to its replication groups:      *)
(* RGAllocaterByEs, RGAllocaterByHost and RGAllocaterByRack.               *)
(*                                                                         *)
(* The allocaters keep servers, hosts and racks in priority queues, least  *)
(* loaded first.  A queue is a set here, and its top any element that the  *)
(* comparison allows: ties are open, and where the comparison contradicts  *)
(* itself, or keys changed inside the queue, every element may be on top.  *)
(***************************************************************************)
EXTENDS Naturals, Sequences, FiniteSets, FiniteSetsExt

CONSTANTS
  Servers,    \* the extent servers
  Host, Rack, \* Host[s], Rack[s]: where server s is
  Weight      \* Weight[s]: capacity / extent size, by the common divisor

Domains == {"node", "host", "rack"}

(* host_rack_valid: the servers of a host name the same rack. *)
HostRackValid(ess) == \A s, t \in ess : Host[s] = Host[t] => Rack[s] = Rack[t]

DomainOf(fd, s) == IF fd = "node" THEN s ELSE IF fd = "host" THEN Host[s] ELSE Rack[s]

(* The servers of ess by node, host or rack. *)
Parts(fd, ess) == {{s \in ess : DomainOf(fd, s) = DomainOf(fd, t)} : t \in ess}

SumOver(S, f) == MapThenSumSet(LAMBDA s : f[s], S)

Share(S, count) == (1000000 * SumOver(S, count)) \div SumOver(S, Weight)

(* EsCmp, HostCmp and RackCmp; st has the groups that each server is the   *)
(* primary or a secondary of.                                              *)
Worse(S, T, st) ==
  \/ Share(S, st.sec) > Share(T, st.sec)
  \/ Share(S, st.pri) > Share(T, st.pri)

Contradicts(C, st) == \E S, T \in C : Worse(S, T, st) /\ Worse(T, S, st)

(* What may come first of the elements E of queue C.  The counts of the    *)
(* servers survive a failed attempt, and the next one starts from them.    *)
Tops(C, E, st) ==
  IF ~ st.fresh \/ Contradicts(C, st) THEN E ELSE {S \in E : \A T \in E : ~ Worse(S, T, st)}

(* Within a rack, a host is queued once for each of its servers, so that   *)
(* its key changes in the queue.                                           *)
HostTops(rack, st) ==
  LET hosts == Parts("host", rack)
  IN  IF \E h \in hosts : Cardinality(h) > 1 THEN hosts ELSE Tops(hosts, hosts, st)

ServerTops(host, st) == LET ss == Parts("node", host) IN UNION Tops(ss, ss, st)

(* The server that is taken from part S of the pool. *)
Within(fd, S, st) ==
  IF fd = "rack" THEN UNION {ServerTops(h, st) : h \in HostTops(S, st)} ELSE ServerTops(S, st)

select_primary(fd, ess, st) ==
  LET C == Parts(fd, ess) IN UNION {Within(fd, S, st) : S \in Tops(C, C, st)}

(* Mutant: the first part is taken, also when the group is in it already. *)
select_secondary_top(fd, ess, group, st) ==
  LET C == Parts(fd, ess)
  IN  UNION {Within(fd, S, st) : S \in Tops(C, C, st)} \ {group[i] : i \in 1..Len(group)}

(* The walk from the top passes over the parts that the group is in. *)
select_secondary(fd, ess, group, st) ==
  LET C == Parts(fd, ess)
      E == {S \in C : \A s \in S : \A i \in 1..Len(group) : DomainOf(fd, s) # DomainOf(fd, group[i])}
  IN  UNION {Within(fd, S, st) : S \in Tops(C, E, st)}

(* One selection for group g of attempt o.  No server: the attempt ends. *)
Select(o, g, candidates, role) ==
  IF ~ o.ok THEN {o}
  ELSE IF candidates = {} THEN {[o EXCEPT !.ok = FALSE]}
  ELSE {[o EXCEPT !.groups[g] = Append(@, s), !.st[role][s] = @ + 1] : s \in candidates}

(* The outcomes of RgManager::init for `groups`, a sequence of sequences   *)
(* of servers (empty ones, where an earlier attempt left nothing): first   *)
(* the primary of every group, then one secondary after the other.         *)
Placements(fd, ess, groups, replicas, fresh) ==
  LET n == Len(groups)
      Zero == [s \in Servers |-> 0]
      Out[k \in 0..(n * replicas)] ==
        IF k = 0 THEN {[ok |-> TRUE, groups |-> groups, 
                      st |-> [pri |-> Zero, sec |-> Zero, fresh |-> fresh]]}
        ELSE LET g == ((k - 1) % n) + 1
             IN  UNION {IF k <= n
                        THEN Select(o, g, select_primary(fd, ess, o.st), "pri")
                        ELSE Select(o, g, select_secondary(fd, ess, o.groups[g], o.st), "sec")
                        : o \in Out[k - 1]}
  IN  Out[n * replicas]
=============================================================================
