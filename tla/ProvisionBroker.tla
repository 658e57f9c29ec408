-------------------------- MODULE ProvisionBroker --------------------------
(***************************************************************************)
(* The netlinkd broker (internal/provisionrpc) and the link operations it  *)
(* performs (internal/gre/link_linux.go).  A daemon without CAP_NET_ADMIN  *)
(* sends one request per connection; the broker runs one goroutine per     *)
(* connection and takes its mutex only around the set of names it created, *)
(* so the kernel calls of two requests interleave freely.                  *)
(*                                                                         *)
(* A kernel link is identified by its index, which the kernel does not     *)
(* reuse here: each call creates at most one link, so the index of a link  *)
(* is the call that created it.  A device that is not a GRE tunnel stands  *)
(* under the name it carries.  Answers, timeouts, netlink errors, a crash  *)
(* of the broker and its start-up sweep are modelled; addresses and MTUs   *)
(* are not.  Definitions whose names end in "_" are altered forms of the   *)
(* definition that follows them; the properties are shown to reject them.  *)
(***************************************************************************)
EXTENDS FiniteSets

CONSTANTS
    Calls,      \* the requests made over the whole run
    Grem,       \* names of the built-in namespace: "grem", "grem0", "grem"+key
    Pinned,     \* operator-pinned names the broker was started with (-iface)
    Other,      \* names the broker must refuse
    Prefixed,   \* names that begin with "grem", generated, pinned or refused
    NoCall,     \* no link, no call
    Overlap     \* names on which a call may start while another still runs

ASSUME BrokerAssumption ==
    /\ Grem \cap Pinned = {} /\ (Grem \cup Pinned) \cap Other = {}
    /\ NoCall \notin Calls \cup Grem \cup Pinned \cup Other
    /\ Calls \cap (Grem \cup Pinned \cup Other) = {}
    /\ Overlap \subseteq Grem \cup Pinned \cup Other
    /\ Grem \subseteq Prefixed /\ Prefixed \subseteq Grem \cup Pinned \cup Other

Names == Grem \cup Pinned \cup Other

VARIABLES
    link,       \* kernel: the link that carries a name
    created,    \* broker: Server.created
    up,         \* broker: is Serve accepting?
    pc,         \* where the handler of a call is
    op,         \* "ensure" or "remove"
    name,       \* the interface name of a call
    idx,        \* the index the handler of a call resolved
    answer,     \* caller: "none", "waiting", "ok" or "error"
    last,       \* history: the latest call issued for a name to this broker
    past        \* history: the calls issued before this broker started

vars == <<link, created, up, pc, op, name, idx, answer, last, past>>

caller == <<answer, last, past>>

EnsureSteps == {"lookup", "delete", "create", "locate", "configure", "cleanup", "mark"}
RemoveSteps == {"check", "find", "destroy", "unmark"}
Running == {"read", "succeed", "fail"} \cup EnsureSteps \cup RemoveSteps

Links == Calls \cup Names \cup {NoCall}

Quiet == \A c \in Calls : pc[c] \notin Running

TypeOK ==
    /\ link \in [Names -> Links]
    /\ created \subseteq Grem \cup Pinned
    /\ up \in BOOLEAN
    /\ pc \in [Calls -> Running \cup {"none", "done"}]
    /\ op \in [Calls -> {"ensure", "remove"}]
    /\ name \in [Calls -> Names]
    /\ idx \in [Calls -> Links]
    /\ answer \in [Calls -> {"none", "waiting", "ok", "error"}]
    /\ last \in [Names -> Calls \cup {NoCall}]
    /\ past \subseteq Calls

(***************************************************************************)
(* Before the first start of the broker unrelated devices may have any of  *)
(* the names, those that begin with "grem" included.                       *)
(***************************************************************************)
Init ==
    /\ \E taken \in SUBSET Names :
         link = [n \in Names |-> IF n \in taken THEN n ELSE NoCall]
    /\ created = {}
    /\ up = FALSE
    /\ pc = [c \in Calls |-> "none"]
    /\ op \in [Calls -> {"ensure", "remove"}]
    /\ name \in [Calls -> Names]
    /\ idx = [c \in Calls |-> NoCall]
    /\ answer = [c \in Calls |-> "none"]
    /\ last = [n \in Names |-> NoCall]
    /\ past = {}

Goto(c, s) == pc' = [pc EXCEPT ![c] = s]

(* linkIndex: a dump of all links finds the name.                           *)
linkIndex(n) == link[n] # NoCall

(* The link an index denotes still exists: setting it up, its addresses and *)
(* routes, and deleting it fail otherwise.                                  *)
linkExists(i) == \E n \in Names : link[n] = i

(* linkDel by index: the link goes, whatever name it carries; a second      *)
(* deletion finds no such index.                                            *)
linkDel(i) == [n \in Names |-> IF link[n] = i THEN NoCall ELSE link[n]]

-----------------------------------------------------------------------------
(* The caller: Client.call.                                                 *)

call(c) ==
    /\ pc[c] = "none"
    /\ up
    /\ name[c] \in Overlap \/ \A d \in Calls : name[d] = name[c] => pc[d] \notin Running
    /\ Goto(c, "read")
    /\ answer' = [answer EXCEPT ![c] = "waiting"]
    /\ last' = [last EXCEPT ![name[c]] = c]
    /\ UNCHANGED <<link, created, up, op, name, idx, past>>

(* The dial fails while no broker listens.                                  *)
DialFails(c) ==
    /\ pc[c] = "none"
    /\ ~up
    /\ Goto(c, "done")
    /\ answer' = [answer EXCEPT ![c] = "error"]
    /\ UNCHANGED <<link, created, up, op, name, idx, last, past>>

(* The ten-second deadline of the connection passes; the handler runs on.   *)
TimesOut(c) ==
    /\ answer[c] = "waiting"
    /\ answer' = [answer EXCEPT ![c] = "error"]
    /\ UNCHANGED <<link, created, up, pc, op, name, idx, last, past>>

-----------------------------------------------------------------------------
(* The handler: Server.handle, with gre.Ensure and gre.Remove inlined.      *)

validateName_(n) == n \in Names

validateName(n) == n \in Grem \cup Pinned

(* A request that cannot be decoded, an unknown operation, or parameters    *)
(* outside the ranges of validateParams: refused like a bad name.           *)
refuse(c) == Goto(c, "fail")

(* The request is decoded and validated.                                    *)
handle(c) ==
    /\ pc[c] = "read"
    /\ \/ refuse(c)
       \/ validateName(name[c]) /\ op[c] = "ensure" /\ Goto(c, "lookup")
       \/ validateName(name[c]) /\ op[c] = "remove" /\ Goto(c, "check")
    /\ UNCHANGED <<link, created, up, op, name, idx, caller>>

(* Ensure looks for a leftover link of that name; a failed dump counts as   *)
(* none.                                                                    *)
EnsureLookup(c) ==
    /\ pc[c] = "lookup"
    /\ \/ linkIndex(name[c]) /\ Goto(c, "delete") /\ idx' = [idx EXCEPT ![c] = link[name[c]]]
       \/ Goto(c, "create") /\ UNCHANGED idx
    /\ UNCHANGED <<link, created, up, op, name, caller>>

(* The error of this deletion is discarded.                                 *)
EnsureDelete(c) ==
    /\ pc[c] = "delete"
    /\ link' = linkDel(idx[c]) \/ UNCHANGED link
    /\ Goto(c, "create")
    /\ UNCHANGED <<created, up, op, name, idx, caller>>

(* createGRE asks for a new link exclusively: a name in use is an error.    *)
createGRE(c) ==
    /\ pc[c] = "create"
    /\ \/ /\ link[name[c]] = NoCall
          /\ link' = [link EXCEPT ![name[c]] = c]
          /\ Goto(c, "locate")
       \/ Goto(c, "fail") /\ UNCHANGED link
    /\ UNCHANGED <<created, up, op, name, idx, caller>>

(* The new link is looked up by name; if that fails Ensure returns at once. *)
EnsureLocate(c) ==
    /\ pc[c] = "locate"
    /\ \/ linkIndex(name[c]) /\ Goto(c, "configure") /\ idx' = [idx EXCEPT ![c] = link[name[c]]]
       \/ Goto(c, "fail") /\ UNCHANGED idx
    /\ UNCHANGED <<link, created, up, op, name, caller>>

(* Addresses, link up, peer route: every one addresses the link by index.   *)
EnsureConfigure(c) ==
    /\ pc[c] = "configure"
    /\ \/ linkExists(idx[c]) /\ Goto(c, "mark")
       \/ Goto(c, "cleanup")
    /\ UNCHANGED <<link, created, up, op, name, idx, caller>>

EnsureCleanup(c) ==
    /\ pc[c] = "cleanup"
    /\ link' = linkDel(idx[c]) \/ UNCHANGED link
    /\ Goto(c, "fail")
    /\ UNCHANGED <<created, up, op, name, idx, caller>>

markCreated_(c) ==
    /\ pc[c] = "mark"
    /\ Goto(c, "succeed")
    /\ UNCHANGED <<link, created, up, op, name, idx, caller>>

markCreated(c) ==
    /\ pc[c] = "mark"
    /\ created' = created \cup {name[c]}
    /\ Goto(c, "succeed")
    /\ UNCHANGED <<link, up, op, name, idx, caller>>

wasCreated(c) ==
    /\ pc[c] = "check"
    /\ \/ name[c] \notin created /\ Goto(c, "fail")
       \/ name[c] \in created /\ Goto(c, "find")
    /\ UNCHANGED <<link, created, up, op, name, idx, caller>>

(* A missing interface, or a failed dump, counts as already removed.        *)
RemoveFind(c) ==
    /\ pc[c] = "find"
    /\ \/ linkIndex(name[c]) /\ Goto(c, "destroy") /\ idx' = [idx EXCEPT ![c] = link[name[c]]]
       \/ Goto(c, "unmark") /\ UNCHANGED idx
    /\ UNCHANGED <<link, created, up, op, name, caller>>

RemoveDestroy(c) ==
    /\ pc[c] = "destroy"
    /\ \/ linkExists(idx[c]) /\ link' = linkDel(idx[c]) /\ Goto(c, "unmark")
       \/ Goto(c, "fail") /\ UNCHANGED link
    /\ UNCHANGED <<created, up, op, name, idx, caller>>

markRemoved(c) ==
    /\ pc[c] = "unmark"
    /\ created' = created \ {name[c]}
    /\ Goto(c, "succeed")
    /\ UNCHANGED <<link, up, op, name, idx, caller>>

(* The reply reaches a caller that still waits.                             *)
reply(c) ==
    /\ \/ pc[c] = "succeed" /\ answer' = [answer EXCEPT ![c] = IF @ = "waiting" THEN "ok" ELSE @]
       \/ pc[c] = "fail" /\ answer' = [answer EXCEPT ![c] = IF @ = "waiting" THEN "error" ELSE @]
    /\ Goto(c, "done")
    /\ UNCHANGED <<link, created, up, op, name, idx, last, past>>

-----------------------------------------------------------------------------
(* The broker process: it stops without waiting for its handlers, and       *)
(* runNetlinkd sweeps before it serves again.                               *)

Exit ==
    /\ up
    /\ up' = FALSE
    /\ created' = {}
    /\ pc' = [c \in Calls |-> IF pc[c] \in Running THEN "done" ELSE pc[c]]
    /\ answer' = [c \in Calls |-> IF answer[c] = "waiting" THEN "error" ELSE answer[c]]
    /\ UNCHANGED <<link, op, name, idx, last, past>>

(* RemovePrefix("grem") takes every link whose name begins so, whatever its *)
(* kind and whether or not the broker would serve that name; RemoveNamedGRE *)
(* takes the pinned names whose link is a GRE tunnel.                       *)
RemovePrefix == {n \in Prefixed : link[n] # NoCall}

RemoveNamedGRE == {n \in Pinned : link[n] \in Calls}

Stale_ == RemovePrefix

Stale == RemovePrefix \cup RemoveNamedGRE

Restart ==
    /\ ~up
    /\ link' = [n \in Names |-> IF n \in Stale THEN NoCall ELSE link[n]]
    /\ up' = TRUE
    /\ past' = {c \in Calls : pc[c] # "none"}
    /\ last' = [n \in Names |-> NoCall]
    /\ UNCHANGED <<created, pc, op, name, idx, answer>>

(* A deletion of the sweep fails: the rest is left and the process exits.   *)
RestartFails ==
    /\ ~up
    /\ \E gone \in SUBSET Stale :
         link' = [n \in Names |-> IF n \in gone THEN NoCall ELSE link[n]]
    /\ UNCHANGED <<created, up, pc, op, name, idx, caller>>

Ensure(c) ==
    \/ EnsureLookup(c) \/ EnsureDelete(c) \/ createGRE(c) \/ EnsureLocate(c)
    \/ EnsureConfigure(c) \/ EnsureCleanup(c) \/ markCreated(c)

Remove(c) == wasCreated(c) \/ RemoveFind(c) \/ RemoveDestroy(c) \/ markRemoved(c)

Next ==
    \/ \E c \in Calls :
         \/ call(c) \/ DialFails(c) \/ TimesOut(c)
         \/ handle(c) \/ Ensure(c) \/ Remove(c) \/ reply(c)
    \/ Exit \/ Restart \/ RestartFails

Spec == Init /\ [][Next]_vars

-----------------------------------------------------------------------------
(* What a caller was told is true of the kernel and of the broker for as    *)
(* long as it was the last to ask about that name: after an Ensure that was *)
(* answered "ok" the name is carried by the link this very call created and *)
(* the broker will agree to remove it; after a Remove that was answered     *)
(* "ok" the broker no longer claims the name.  Holds for the names whose    *)
(* calls do not overlap, whatever netlink errors, timeouts and restarts     *)
(* occur and however the calls on other names overlap.                      *)
AnswersAreTrue ==
    \A n \in Names \ Overlap : \A c \in Calls :
        (up /\ last[n] = c /\ answer[c] = "ok") =>
            \/ op[c] = "ensure" /\ link[n] = c /\ n \in created
            \/ op[c] = "remove" /\ n \notin created

(* Once runNetlinkd has swept, no GRE link made before this broker started  *)
(* carries any name: the broker forgets what its predecessor created, so a  *)
(* link that survived the sweep could never be removed through it.          *)
NoLeftovers ==
    up => \A n \in Names : link[n] \notin past

(* A link changes only where it may.  While the broker serves, that is      *)
(* under a generated or pinned name and by a call on that very name: the    *)
(* link appears as the one this call creates, and goes only in a step in    *)
(* which such a call deletes the index it looked up, although the kernel    *)
(* deletes by index and other calls replace links in between.  At a start   *)
(* links only go, and outside the names that begin with "grem" only GRE     *)
(* tunnels of earlier brokers: an unrelated device keeps any other name,    *)
(* pinned or not.                                                           *)
OnlyNamedLinksChange ==
    [][\A n \in Names : link'[n] # link[n] =>
          \/ /\ up /\ n \in Grem \cup Pinned
             /\ \E c \in Calls :
                  /\ name[c] = n
                  /\ \/ pc[c] = "create" /\ link'[n] = c
                     \/ pc[c] \in {"delete", "cleanup", "destroy"} /\ link'[n] = NoCall
          \/ ~up /\ link'[n] = NoCall /\ (n \in Prefixed \/ link[n] \in Calls)]_vars

============================================================================
