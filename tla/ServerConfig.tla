---------------------------- MODULE ServerConfig ----------------------------
(***************************************************************************)
(* What Config.ValidateServer (internal/config) accepts, with the names of *)
(* internal/gre/name.go.  An address is <<family, number>>, a pool a set   *)
(* of addresses; a secret is its length; "" stands for every malformed     *)
(* client ID.  An interface name is <<stem, rest>>: the stem is "grem" or  *)
(* "", and rest is the characters after it, of which each of Chars stands  *)
(* for its class.                                                          *)
(***************************************************************************)
EXTENDS Integers, Sequences

CONSTANT MaxNameLen   \* 15, IFNAMSIZ without the NUL

MinSecretLen == 32
Unset        == <<0, 0>>
Chars        == {"7", "c", "q", "Q", "-", "."}
hexDigit(r)  == r \in {"7", "c"}

NameLen(name) == Len(name[2]) + (IF name[1] = "grem" THEN 4 ELSE 0)

ValidName(name) ==
    /\ NameLen(name) \in 1..MaxNameLen
    /\ \A i \in DOMAIN name[2] :
          \/ name[2][i] \in {"7", "c", "q", "Q"}
          \/ name[2][i] = "-" /\ (i > 1 \/ name[1] = "grem")

\* Altered form: only decimal digits make a key.
IsGeneratedName_(name) ==
    name[1] = "grem" /\ \A i \in DOMAIN name[2] : name[2][i] = "7"

(* "grem", "grem0" or "grem" and a key in hex.                             *)
IsGeneratedName(name) ==
    name[1] = "grem" /\ \A i \in DOMAIN name[2] : hexDigit(name[2][i])

ValidClientID(id) == id # ""

SecretsValid(c) ==
    /\ c.psk # 0 \/ DOMAIN c.clients # {}
    /\ c.psk # 0 => c.psk >= MinSecretLen
    /\ \A id \in DOMAIN c.clients : ValidClientID(id) /\ c.clients[id] >= MinSecretLen

InterfacesValid(c) ==
    \A id \in DOMAIN c.interfaces :
        /\ ValidClientID(id)
        /\ ValidName(c.interfaces[id]) /\ ~IsGeneratedName(c.interfaces[id])
        /\ \A other \in DOMAIN c.interfaces \ {id} : c.interfaces[other] # c.interfaces[id]

LeasesValid(c) ==
    \A id \in DOMAIN c.leases :
        /\ ValidClientID(id)
        /\ \A a \in c.innerPool : a[1] = c.leases[id][1]
        /\ c.leases[id] \in c.innerPool /\ c.leases[id] # c.serverInner
        /\ \A other \in DOMAIN c.leases \ {id} : c.leases[other] # c.leases[id]

(* {} and Unset are fields that are not set.                             *)
ValidateServer(c) ==
    /\ c.greLocal # Unset /\ c.innerPool # {} /\ c.serverInner # Unset
    /\ c.serverInner \in c.innerPool
    /\ SecretsValid(c) /\ InterfacesValid(c) /\ LeasesValid(c)
-----------------------------------------------------------------------------
(* The names Manager.ifNameFor makes of the keys of up to n hex digits, by *)
(* "grem%x", and those of the dialer and of a tunnel without a key.        *)
GeneratedNames(n) ==
    {<<"grem", key>> : key \in UNION {[1..k -> {"7", "c"}] : k \in 0..n}}

Injective(f) == \A x, y \in DOMAIN f : f[x] = f[y] => x = y

(* What the session manager takes for granted of a configuration: runServer *)
(* can pin every lease, no two clients share a lease or an interface, and  *)
(* no pinned interface can be taken for that of a session key.             *)
Promised(c) ==
    /\ c.serverInner \in c.innerPool
    /\ \A id \in DOMAIN c.leases : c.leases[id] \in c.innerPool \ {c.serverInner}
    /\ Injective(c.leases) /\ Injective(c.interfaces)
    /\ \A id \in DOMAIN c.interfaces :
          /\ c.interfaces[id] \notin GeneratedNames(MaxNameLen - 4)
          /\ NameLen(c.interfaces[id]) \in 1..MaxNameLen
=============================================================================
