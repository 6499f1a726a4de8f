------------------------------ MODULE MCFirewalls ------------------------------
(***************************************************************************)
(* Small instances of the three firewall engines, Nftables, IPTables and   *)
(* UFW: a behaviour is one of either.  IPTables gets lists that overlap,   *)
(* so that a partly filled set or a set left over from another list is     *)
(* none of them; UFW gets two targets, the tag of one the beginning of the *)
(* other's, with lists that overlap.                                       *)
(***************************************************************************)
EXTENDS Nftables, IPTables, UFW

CONSTANTS r1, r2, bad, n1, n2, n3, web, web2

VARIABLE engine

-----------------------------------------------------------------------------
Both(v4, v6) == [f \in Families |-> IF f = "v4" THEN v4 ELSE v6]

\* Every family has ranges, or the mode is allow.
Steady ==
  {[mode |-> "allow", ranges |-> Both({n1, n2}, {})],
   [mode |-> "allow", ranges |-> Both({n2, n3}, {n2, n3})],
   [mode |-> "deny", ranges |-> Both({n1, n2}, {n2, n3})]}

\* web is the beginning of web2.
WebHits == [t \in {web, web2} |-> IF t = web THEN {web, web2} ELSE {web2}]
AllowAndDeny ==
  {[mode |-> "allow", nets |-> {n1, n2}], [mode |-> "deny", nets |-> {n2, n3}]}

-----------------------------------------------------------------------------
AnyPolicy == CHOOSE p \in Steady : TRUE

\* The engines that are not looked at start in one state.
FirewallsInit ==
  /\ engine \in {"nftables", "iptables", "ufw"}
  /\ Init /\ IptInit /\ UfwInit
  /\ engine # "nftables" => job.ruleset = r1
  /\ engine # "iptables" => iptJob.policy = AnyPolicy
  /\ engine # "ufw" =>
       /\ rules = <<>> /\ active /\ default = "deny" /\ ufwJob.target = web
       /\ ufwJob.policy.mode = "allow"

FirewallsNext ==
  /\ \/ engine = "nftables" /\ Next /\ UNCHANGED <<iptVars, ufwVars>>
     \/ engine = "iptables" /\ IptNext /\ UNCHANGED <<vars, ufwVars>>
     \/ engine = "ufw" /\ UfwNext /\ UNCHANGED <<vars, iptVars>>
  /\ UNCHANGED engine

FirewallsSpec == FirewallsInit /\ [][FirewallsNext]_<<engine, vars, iptVars, ufwVars>>

\* The state of each engine is well typed.
FirewallsTypeOK == TypeOK /\ IptTypeOK /\ UfwTypeOK
=============================================================================
