--------------------------- MODULE EgressNetLists --------------------------
(***************************************************************************)
(* The lists of shell commands EgressNet's handlers queue: each is a       *)
(* sequence of well-formed commands, whatever the state it is built from.  *)
(***************************************************************************)
EXTENDS EgressNet, FiniteSetTheorems, SequenceTheorems, WellFoundedInduction, TLAPS

(* The first free slot or subnet index, as the scans in net_up find it,    *)
(* is one of the free ones.                                                *)
LEMMA MinIn == ASSUME NEW S \in SUBSET Nat, S # {} PROVE Min(S) \in S
<1>1. PICK n \in S : \A m \in S : ~(<<m, n>> \in OpToRel(<, Nat))
  BY NatLessThanWellFounded, WFMin, Zenon
<1>2. ASSUME NEW m \in S PROVE n =< m
  <2>1. \A x, y \in Nat : x < y => <<x, y>> \in OpToRel(<, Nat)
    BY Zenon DEF OpToRel
  <2>2. ~(m < n)
    BY <1>1, <2>1, Zenon
  <2> QED BY <2>2
<1> QED BY <1>2, Zenon DEF Min

(* The addresses of a cell in the order the daemon keeps them.             *)
LEMMA SetToSeqType ==
  ASSUME NEW S, IsFiniteSet(S) PROVE SetToSeq(S) \in Seq(S)
<1>1. Cardinality(S) \in Nat /\ ExistsBijection(1 .. Cardinality(S), S)
  BY FS_CardinalityType
<1>2. \E f \in [1 .. Cardinality(S) -> S] : IsInjective(f)
  BY <1>1 DEF ExistsBijection, Bijection, Injection, IsInjective
<1>3. SetToSeq(S) \in [1 .. Cardinality(S) -> S]
  BY <1>2 DEF SetToSeq
<1> QED BY <1>1, <1>3

(* iptables -D takes one rule out of the chain and adds none.              *)
LEMMA RemoveFirstType ==
  ASSUME NEW S, NEW q \in Seq(S), NEW e PROVE RemoveFirst(q, e) \in Seq(S)
<1> DEFINE I == {i \in 1 .. Len(q) : q[i] = e}
           n == Min(I)
<1>1. CASE \E i \in 1 .. Len(q) : q[i] = e
  <2>1. n \in 1 .. Len(q)
    <3>1. I \in SUBSET Nat /\ I # {}
      BY <1>1
    <3>2. n \in I
      BY <3>1, MinIn, Zenon
    <3> QED BY <3>2
  <2>2. RemoveFirst(q, e) = SubSeq(q, 1, n - 1) \o SubSeq(q, n + 1, Len(q))
    BY <1>1, Zenon DEF RemoveFirst, RemoveAt, SelectInSeq
  <2> HIDE DEF n
  <2>3. SubSeq(q, 1, n - 1) \in Seq(S) /\ SubSeq(q, n + 1, Len(q)) \in Seq(S)
    BY <2>1
  <2> QED BY <2>2, <2>3
<1>2. CASE ~\E i \in 1 .. Len(q) : q[i] = e
  BY <1>2 DEF RemoveFirst
<1> QED BY <1>1, <1>2

----------------------------------------------------------------------------
USE ConstantsOK

(* A list of commands, one per rule.                                       *)
LEMMA EachType ==
  ASSUME NEW op \in Ops \ {"acc"}, NEW rs \in Seq(Rules) PROVE Each(op, rs) \in Seq(Cmds)
BY DEF Each, Cmds

(* A command on the host that names no rule.                               *)
LEMMA HostType == ASSUME NEW op \in Ops \ {"acc"} PROVE Host(op) \in Seq(Cmds)
BY DEF Host, Cmds, Rules, Rule, None

(* ip link del of a cell's veth.                                           *)
LEMMA LinkDelType == ASSUME NEW i \in Idx PROVE LinkDel(i) \in Seq(Cmds)
BY DEF LinkDel, Cmds, Rules, Rule, Ops, ShellOps

(* The ACCEPT rules egress_apply inserts for a set of destinations.        *)
LEMMA AcceptsType ==
  ASSUME NEW op \in {"acc", "unacc", "del"}, NEW i \in Idx, NEW ds \in SUBSET Dst
  PROVE  Accepts(op, i, ds) \in Seq(Cmds)
<1> DEFINE q == SetToSeq(ds)
<1>1. q \in Seq(ds)
  BY SetToSeqType, FS_Subset
<1> HIDE DEF q
<1>2. \A k \in DOMAIN q : [op |-> op, rule |-> Accept(i, q[k])] \in Cmds
  BY <1>1 DEF Accept, Rule, Cmds, Rules, Ops, ShellOps
<1>3. Accepts(op, i, ds) = [k \in DOMAIN q |-> [op |-> op, rule |-> Accept(i, q[k])]]
  BY <1>1 DEF Accepts, Each, q
<1> QED BY <1>1, <1>2, <1>3

(* The rules egress_base inserts for a cell.                               *)
LEMMA BaseType ==
  ASSUME NEW i \in Idx, NEW add \in BOOLEAN PROVE egress_base(i, add) \in Seq(Cmds)
<1>1. BaseRules(i) \in Seq(Rules)
  BY DEF BaseRules, Rule, Rules
<1> QED BY <1>1, EachType DEF egress_base, Ops, ShellOps

(* The rules nat_ensure inserts for every cell.                            *)
LEMMA GlobalType == GlobalRules \in Seq(Rules)
BY DEF GlobalRules, Rule, Rules, None

(* The commands net_up, net_down and the refresh queue for a cell.         *)
LEMMA ListsType ==
  ASSUME MemType, NEW s \in Slot
  PROVE  /\ TeardownCmds(s) \in Seq(Cmds)
         /\ RollbackCmds(s) \in Seq(Cmds)
         /\ \A want \in SUBSET Dst : egress_apply(s, want) \in Seq(Cmds)
         /\ nat_ensure \in Seq(Cmds)
         /\ nat_teardown \in Seq(Cmds)
<1>1. nidx[s] \in Idx /\ neg[s] \in SUBSET Dst
  BY DEF MemType
<1>2. \A op \in {"acc", "unacc", "del"} : \A ds \in SUBSET Dst : Accepts(op, nidx[s], ds) \in Seq(Cmds)
  BY <1>1, AcceptsType
<1>3. egress_base(nidx[s], FALSE) \in Seq(Cmds) /\ LinkDel(nidx[s]) \in Seq(Cmds)
  BY <1>1, BaseType, LinkDelType, Zenon
<1>4. \A q, r \in Seq(Cmds) : q \o r \in Seq(Cmds)
  BY ConcatProperties
<1>5. TeardownCmds(s) \in Seq(Cmds) /\ RollbackCmds(s) \in Seq(Cmds)
  <2>1. Accepts("del", nidx[s], neg[s]) \in Seq(Cmds)
    BY <1>1, <1>2
  <2>2. (IF neg[s] # {} THEN egress_base(nidx[s], FALSE) ELSE <<>>) \in Seq(Cmds)
    <3>1. <<>> \in Seq(Cmds)
      BY EmptySeq
    <3> QED BY <1>3, <3>1, Zenon
  <2> QED BY <1>3, <1>4, <2>1, <2>2, Zenon DEF TeardownCmds, RollbackCmds
<1>6. ASSUME NEW want \in SUBSET Dst PROVE egress_apply(s, want) \in Seq(Cmds)
  <2>1. neg[s] \ want \in SUBSET Dst /\ want \ neg[s] \in SUBSET Dst
    BY <1>1
  <2> QED BY <1>2, <1>4, <2>1 DEF egress_apply
<1>7. /\ Each("ens", GlobalRules) \in Seq(Cmds) /\ Each("del", GlobalRules) \in Seq(Cmds)
      /\ \A op \in {"trunc", "save", "fwd1", "masq", "unmasq", "fwdback", "unsave"} :
           Host(op) \in Seq(Cmds)
  BY GlobalType, EachType, HostType DEF Ops, ShellOps
<1>8. nat_ensure \in Seq(Cmds) /\ nat_teardown \in Seq(Cmds)
  BY <1>4, <1>7 DEF nat_ensure, nat_teardown
<1> QED BY <1>5, <1>6, <1>8

(* The deletions of net_recover_startup and of the retry in net_up.        *)
LEMMA ScrubType ==
  ASSUME KernType, NEW is PROVE Scrub(is) \in Seq(Cmds)
<1>1. chain \in Seq(Rules)
  BY DEF KernType
<1>2. \A k \in DOMAIN chain :
        [op |-> IF chain[k].idx \in is THEN "del" ELSE "skip", rule |-> chain[k]] \in Cmds
  BY <1>1 DEF Cmds, Ops, ShellOps
<1> QED BY <1>1, <1>2 DEF Scrub

(* What a starting daemon runs before it serves.                           *)
LEMMA RecoverType == ASSUME KernType PROVE net_recover_startup \in Seq(Cmds)
<1> DEFINE links == [k \in 1 .. NIdx |-> [op |-> IF link[k - 1] # "none" THEN "linkdel" ELSE "skip",
                                          rule |-> Rule(k - 1, "-", NoDst)]]
<1>1. links \in Seq(Cmds)
  BY DEF Cmds, Rules, Rule, Ops, ShellOps, Idx
<1>2. /\ Each("del", GlobalRules) \in Seq(Cmds) /\ Scrub(Idx) \in Seq(Cmds)
      /\ \A op \in {"unmasq", "fwdrec", "unsave"} : Host(op) \in Seq(Cmds)
  BY GlobalType, EachType, HostType, ScrubType DEF Ops, ShellOps
<1>3. \A q, r \in Seq(Cmds) : q \o r \in Seq(Cmds)
  BY ConcatProperties
<1>4. net_recover_startup = links \o Scrub(Idx) \o Host("unmasq") \o Each("del", GlobalRules)
                              \o Host("fwdrec") \o Host("unsave")
  BY DEF net_recover_startup
<1> HIDE DEF links
<1> QED BY <1>1, <1>2, <1>3, <1>4
=============================================================================
