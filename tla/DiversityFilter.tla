--------------------------- MODULE DiversityFilter ---------------------------
(***************************************************************************)
(* The peer diversity filter of the routing table                          *)
(* (kbucket/peerdiversity/filter.go).                                      *)
(*                                                                         *)
(* The filter groups peers by the IP groups of their addresses and keeps,  *)
(* in a PeerIPGroupFilter supplied by the application, how many addresses  *)
(* of each group the table holds.  The addresses a peer advertises change  *)
(* over time, so what was counted for a peer is recorded when it is let in *)
(* and exactly that is given back when it leaves.                          *)
(*                                                                         *)
(* A peer's addresses are abstracted to the number of them in each group:  *)
(* a function in [Group -> Nat].  NoAddrs stands for a peer without        *)
(* addresses and for one whose addresses do not parse.                     *)
(***************************************************************************)
EXTENDS Integers, FiniteSets

CONSTANTS
  Peer,        (* the peers that may be offered                            *)
  Group,       (* IP group keys                                            *)
  AddrCount,   (* the address profiles a peer may have: SUBSET [Group->Nat] *)
  GroupLimit   (* the application's limit of addresses per group           *)

NoAddrs == [g \in Group |-> 0]

ASSUME FilterAssumption ==
  /\ AddrCount \subseteq [Group -> Nat]
  /\ GroupLimit \in Nat

VARIABLES
  peerGroups,  (* what is recorded for each peer; NoAddrs if nothing       *)
  wlpeers,     (* whitelisted peers                                        *)
  groupCount   (* the counters behind Increment and Decrement              *)

filterVars == <<peerGroups, wlpeers, groupCount>>

FilterTypeOK ==
  /\ peerGroups \in [Peer -> [Group -> Nat]]
  /\ wlpeers \subseteq Peer
  /\ groupCount \in [Group -> Int]

FilterInit ==
  /\ peerGroups = [p \in Peer |-> NoAddrs]
  /\ wlpeers = {}
  /\ groupCount = [g \in Group |-> 0]

(* The application's decision for one address of group g.                  *)
Allow(g) == groupCount[g] < GroupLimit

(* TryAdd lets p in: every address is checked before any is counted, so    *)
(* two addresses of one group are both checked against the old counter.    *)
Admits(p, addrs) ==
  \/ p \in wlpeers
  \/ /\ addrs # NoAddrs
     /\ \A g \in Group : addrs[g] > 0 => Allow(g)

(* What TryAdd records for p when it admits it; a whitelisted peer is let  *)
(* in before anything is recorded.                                         *)
Recorded(p, addrs) ==
  IF p \in wlpeers THEN peerGroups[p]
  ELSE [g \in Group |-> peerGroups[p][g] + addrs[g]]

Counted(p, addrs) ==
  IF p \in wlpeers THEN groupCount
  ELSE [g \in Group |-> groupCount[g] + addrs[g]]

FilterAdd(p, addrs) ==
  /\ peerGroups' = [peerGroups EXCEPT ![p] = Recorded(p, addrs)]
  /\ groupCount' = Counted(p, addrs)
  /\ UNCHANGED wlpeers

FilterRemove(p) ==
  /\ peerGroups' = [peerGroups EXCEPT ![p] = NoAddrs]
  /\ groupCount' = [g \in Group |-> groupCount[g] - peerGroups[p][g]]
  /\ UNCHANGED wlpeers

(* TryAdd(p) followed by Remove(v), as addPeer does when p replaces v.     *)
FilterReplace(p, addrs, v) ==
  /\ peerGroups' = [peerGroups EXCEPT ![p] = Recorded(p, addrs), ![v] = NoAddrs]
  /\ groupCount' = [g \in Group |-> Counted(p, addrs)[g] - peerGroups[v][g]]
  /\ UNCHANGED wlpeers

WhitelistPeers(p) ==
  /\ wlpeers' = wlpeers \cup {p}
  /\ UNCHANGED <<peerGroups, groupCount>>
==============================================================================
