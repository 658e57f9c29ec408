--------------------------- MODULE SourceAddress ---------------------------
(***************************************************************************)
(* How `gremlind connect` picks the local address it binds, which becomes  *)
(* the GRE outer endpoint it advertises (cmd/gremlind/main.go,             *)
(* chooseSourceAddress).  A list of CIDR prefixes is the set of addresses  *)
(* it covers, {} for the empty list.                                       *)
(***************************************************************************)
EXTENDS Sequences, FiniteSetsExt

Locals  == {"eth4", "wan4", "wan6", "link6"}   \* link6 is link-local
Servers == {"srv4", "srv6"}
is6(a)  == a \in {"wan6", "link6", "srv6"}
Kernel  == "kernel"   \* the zero netip.Addr: nothing is bound
Failed  == "error"

ifaceAddrIP(a) == a # "link6"

includedSource(a, covered) == covered = {} \/ a \in covered
excludedSource(a, covered) == a \in covered

\* Altered form: every address of the server counts, the excluded ones too.
sourceRuleFamilies_(servers, rule) ==
    {is6(s) : s \in {x \in servers : includedSource(x, rule.match)}}
        \cap (CASE rule.family = "ipv4" -> {FALSE}
                [] rule.family = "ipv6" -> {TRUE}
                [] OTHER                -> BOOLEAN)

(* The families the rule may take a local address of; {} is "not applies". *)
sourceRuleFamilies(servers, rule) ==
    {is6(s) : s \in {x \in servers : includedSource(x, rule.match) /\ ~excludedSource(x, rule.exclude)}}
        \cap (CASE rule.family = "ipv4" -> {FALSE}
                [] rule.family = "ipv6" -> {TRUE}
                [] OTHER                -> BOOLEAN)

Allowed(iface, rule) == rule.ifaces = {} \/ iface.name \in rule.ifaces

(* What one interface offers a rule: places in the list of the kernel.     *)
Candidates(iface, families, rule) ==
    {k \in DOMAIN iface.addrs :
        LET a == iface.addrs[k]
        IN  /\ Allowed(iface, rule) /\ iface.up
            /\ ifaceAddrIP(a) /\ is6(a) \in families
            /\ includedSource(a, rule.include) /\ ~excludedSource(a, rule.exclude)}

(* The first candidate of the first interface that has one; with none, an  *)
(* interface the rule names and the host does not have is an error.        *)
chooseSourceAddressFromRule(ifaces, servers, rule) ==
    LET families == sourceRuleFamilies(servers, rule)
        offering == {n \in DOMAIN ifaces : Candidates(ifaces[n], families, rule) # {}}
        iface    == ifaces[Min(offering)]
        missing  == rule.ifaces \ {ifaces[n].name : n \in DOMAIN ifaces}
    IN  IF families = {}      THEN Kernel
        ELSE IF offering # {} THEN iface.addrs[Min(Candidates(iface, families, rule))]
        ELSE IF missing # {}  THEN Failed
        ELSE Kernel

(* servers = {} is a name that does not resolve.                           *)
chooseSourceAddress(ifaces, servers, rules, fallback) ==
    LET results == [i \in DOMAIN rules |-> chooseSourceAddressFromRule(ifaces, servers, rules[i])]
        decided == {i \in DOMAIN rules : results[i] # Kernel}
    IN  IF rules = << >>                        THEN Kernel
        ELSE IF servers = {}                    THEN Failed
        ELSE IF decided # {}                    THEN results[Min(decided)]
        ELSE IF fallback = "kernel"             THEN Kernel
        ELSE Failed
-----------------------------------------------------------------------------
(* What the rules promise, without an order of evaluation: a may be bound  *)
(* under the rule.                                                         *)
Admits(rule, a, ifaces, servers) ==
    /\ a # "link6" /\ a \notin rule.exclude
    /\ rule.include # {} => a \in rule.include
    /\ \E n \in DOMAIN ifaces : /\ ifaces[n].up /\ a \in Range(ifaces[n].addrs)
                                /\ rule.ifaces # {} => ifaces[n].name \in rule.ifaces
    /\ \E s \in servers : /\ is6(s) = is6(a) /\ s \notin rule.exclude
                          /\ rule.match # {} => s \in rule.match
    /\ rule.family = "ipv4" => ~is6(a)
    /\ rule.family = "ipv6" => is6(a)

(* An address is bound only when a rule admits it, none before that rule   *)
(* admits any, and some address of the server has its family, so that the  *)
(* connect can succeed; "fail" never leaves the choice to the kernel; and  *)
(* a refusal means no rule admits anything or a rule names an interface    *)
(* that is not there.                                                      *)
ChoiceFollowsRules(ifaces, servers, rules, fallback) ==
    LET c == chooseSourceAddress(ifaces, servers, rules, fallback)
        serves(i) == \E a \in Locals : Admits(rules[i], a, ifaces, servers)
        names     == {ifaces[n].name : n \in DOMAIN ifaces}
    IN  /\ c \in Locals => \E i \in DOMAIN rules : /\ Admits(rules[i], c, ifaces, servers)
                                                   /\ \A j \in 1..(i - 1) : ~serves(j)
        /\ c = Kernel /\ rules # << >> => /\ fallback = "kernel"
                                          /\ \A i \in DOMAIN rules : ~serves(i)
        /\ c = Failed => \/ servers = {}
                         \/ \A i \in DOMAIN rules : ~serves(i)
                         \/ \E i \in DOMAIN rules : /\ ~(rules[i].ifaces \subseteq names)
                                                    /\ \A j \in 1..i : ~serves(j)

PluggedAfter(n, ifaces, iface) ==
    SubSeq(ifaces, 1, n) \o <<iface>> \o SubSeq(ifaces, n + 1, Len(ifaces))

(* An interface that appears, up or down and wherever the kernel lists it, *)
(* never turns an attempt that had an address into one that fails.         *)
HotplugKeepsChoice(ifaces, servers, rules, fallback, iface) ==
    chooseSourceAddress(ifaces, servers, rules, fallback) \in Locals =>
        \A n \in 0..Len(ifaces) :
            chooseSourceAddress(PluggedAfter(n, ifaces, iface), servers, rules, fallback) \in Locals
=============================================================================
