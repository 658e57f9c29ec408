------------------------------ MODULE MCDialer ------------------------------
(* Instances of Dialer for TLC, and the hosts, servers and rules on which  *)
(* the choice of its source address is checked.                            *)
EXTENDS Dialer, SourceAddress

CONSTANTS in1, in2

Ifaces(name, addrLists) == [name : {name}, up : BOOLEAN, addrs : addrLists]
Eth0 == Ifaces("eth0", {<<"eth4">>, <<"link6", "eth4">>})
Eth1 == Ifaces("eth1", {<<"wan4", "wan6">>, <<"wan6">>})
Hosts == {<< >>} \cup {<<e>> : e \in Eth0 \cup Eth1} \cup (Eth0 \X Eth1) \cup (Eth1 \X Eth0)

Rules == [ifaces : {{}, {"eth0"}, {"eth0", "eth1"}}, family : {"any", "ipv4", "ipv6"},
          match : {{}, {"srv4"}}, include : {{}, {"eth4", "wan6"}},
          exclude : {{}, {"eth4", "srv6"}}]
FewRules == {r \in Rules : r.family # "ipv4" /\ r.include = {}}
RuleLists == {<< >>} \cup {<<r>> : r \in Rules} \cup (FewRules \X FewRules)

AllChoicesFollowRules ==
    \A host \in Hosts, servers \in SUBSET Servers, rules \in RuleLists,
       fallback \in {"fail", "kernel"} : ChoiceFollowsRules(host, servers, rules, fallback)

AllChoicesSurviveHotplug ==
    \A host \in {<< >>} \cup {<<e>> : e \in Eth1}, servers \in SUBSET Servers,
       rules \in RuleLists, nic \in Eth0 :
        HotplugKeepsChoice(host, servers, rules, "fail", nic)

(* dialOnce calls chooseSourceAddress before it has read any other state,  *)
(* so one such state of the dialer stands for all.                         *)
FirstDial == pc = "dial" /\ attempt = 1 /\ ~cancelled

(* An attempt, on whatever host and server it finds when it comes to       *)
(* dialOnce's chooseSourceAddress, binds what the source rules admit, and  *)
(* one that could bind an address does not fail for one more interface on  *)
(* the host, up or down.  Admits takes the exclusion of server addresses   *)
(* as sourceRuleFamilies does: an excluded address does not count, and a   *)
(* rule is skipped when none is left.                                      *)
DialFollowsSourceRules == FirstDial => AllChoicesFollowRules /\ AllChoicesSurviveHotplug

(* What the comment on ExcludeSubnets says of the same choice: a rule is   *)
(* skipped if the server resolves into one of its excluded prefixes, so    *)
(* that alone it binds no address.  sourceRuleFamilies goes on with the    *)
(* server's other addresses.                                               *)
ExclusionSkipsRule ==
    FirstDial =>
        \A host \in Hosts, servers \in SUBSET Servers, rule \in Rules :
            servers \cap rule.exclude # {} =>
                chooseSourceAddress(host, servers, <<rule>>, "fail") \notin Locals
=============================================================================
