------------------------------ MODULE MssClamp ------------------------------
(***************************************************************************)
(* internal/mssclamp with its nftables backend, under the calls that       *)
(* internal/session/manager.go makes of it: Establish applies the rules of *)
(* its session and starts the session's MonitorLoop, removeAndNotify       *)
(* cancels that loop and removes the rules.  Every nft command is a step   *)
(* on the one chain all sessions share, and the commands of the three      *)
(* goroutines of a session, of other sessions and of the administrator     *)
(* interleave.  A session stands for its interface name.                   *)
(*                                                                         *)
(* Definitions whose name ends in _ are altered forms of the definition    *)
(* that follows them; the properties are shown to reject them.             *)
(***************************************************************************)
EXTENDS Naturals, Sequences

CONSTANTS Sessions,
          Setups,         \* configurations and the sessions there are with each
          MaxFailures     \* bound: nft commands that fail for no other reason

Protos == <<"v4", "v6">>      \* protocolSpecs()

(* The marker in a rule's comment: interface, direction and protocol.      *)
marker(s, d, proto) == <<s, d, proto>>
Markers(dirs, s) == {marker(s, dirs[i], Protos[j]) : i \in DOMAIN dirs, j \in DOMAIN Protos}

(* directions: ruleSpecs(cfg.Direction); manage: cfg.NFTManageTable.  The  *)
(* settled sessions are up and watched from the start and stay, the fresh  *)
(* ones are still to be established.  installed: the rules of the settled  *)
(* sessions in the order they were added.  maxReloads bounds the changes   *)
(* by the administrator.                                                   *)
ASSUME ClampAssumption ==
    /\ MaxFailures \in Nat
    /\ \A c \in Setups :
          LET tags == UNION {Markers(c.directions, s) : s \in c.settled} IN
          /\ c.maxReloads \in Nat /\ c.manage \in BOOLEAN
          /\ c.settled \cup c.fresh \subseteq Sessions
          /\ c.directions \in {<<"out">>, <<"in">>, <<"out", "in">>}
          /\ c.installed \in Seq(tags)
          /\ \A t \in tags : \E h \in DOMAIN c.installed : c.installed[h] = t

(* The goroutines that run nft: Establish, the monitor, removeAndNotify.   *)
Procs == {"est", "mon", "rem"} \X Sessions
Role(p) == p[1]
Owner(p) == p[2]

VARIABLES cfg,        \* the member of Setups the daemon runs with
          chain,      \* rules <<handle, tag>> of the chain
          exists,     \* the table and the chain exist
          next,       \* the next handle of the table
          gen,        \* how often the table was created anew
          reloads, failures,
          job,        \* where each goroutine is in Apply, Present or Remove
          stage,      \* where Establish is with the session
          removal,    \* "none", "running", "done"
          mon,        \* the session's MonitorLoop
          mssCancel,  \* sessions whose entry has the cancel function
          event,      \* monitors with an unread line of nft monitor
          excuse      \* history: what went wrong for a session

ruleset == <<chain, exists, next, gen>>
world   == <<reloads, failures>>
session == <<stage, removal, mon, mssCancel>>
vars    == <<cfg, ruleset, world, job, session, event, excuse>>

Dirs == cfg.directions
ManageTable == cfg.manage
Settled == cfg.settled
Installed == cfg.installed

Tags(s) == Markers(Dirs, s)
Rules(s) == {r \in chain : r[2] \in Tags(s)}
Complete(s) == \A t \in Tags(s) : \E r \in chain : r[2] = t

Job(at, i) == [at |-> at, i |-> i, todo |-> {}, gen |-> 0]
Idle == Job("idle", 0)
Steps == {"idle", "list", "delete", "ensure", "v4", "v6", "present"}
Monitors == {"off", "starting", "watching", "late"}

TypeOK ==
    /\ \A r \in chain : r[1] \in 1..(next - 1) /\ \E s \in Sessions : r[2] \in Tags(s)
    /\ exists \in BOOLEAN /\ next \in Nat \ {0} /\ gen \in Nat
    /\ reloads \in 0..cfg.maxReloads /\ failures \in 0..MaxFailures
    /\ \A p \in Procs : /\ job[p].at \in Steps /\ job[p].i \in 0..Len(Dirs)
                        /\ job[p].todo \subseteq Nat /\ job[p].gen \in 0..gen
    /\ cfg \in Setups /\ stage \in [Sessions -> {"new", "applying", "applied", "up", "failed"}]
    /\ removal \in [Sessions -> {"none", "running", "done"}]
    /\ mon \in [Sessions -> Monitors]
    /\ mssCancel \subseteq Sessions /\ event \subseteq Sessions
    /\ excuse \in [Sessions -> SUBSET {"unremoved", "unrepaired", "overtaken",
                                        "late", "unseen", "robbed"}]

Init ==
    /\ cfg \in Setups
    /\ chain = {<<h, Installed[h]>> : h \in DOMAIN Installed} /\ next = 1 + Len(Installed)
    /\ exists \in (IF ManageTable /\ chain = {} THEN BOOLEAN ELSE {TRUE}) /\ gen = 0
    /\ reloads = 0 /\ failures = 0
    /\ job = [p \in Procs |-> Idle]
    /\ stage = [s \in Sessions |-> IF s \in Settled THEN "up"
                               ELSE IF s \in cfg.fresh THEN "new" ELSE "failed"]
    /\ removal = [s \in Sessions |-> IF s \in Settled \cup cfg.fresh THEN "none" ELSE "done"]
    /\ mon = [s \in Sessions |-> IF s \in Settled THEN "watching" ELSE "off"]
    /\ mssCancel = Settled /\ event = {}
    /\ excuse = [s \in Sessions |-> {}]

-----------------------------------------------------------------------------
(* One nft command each.                                                   *)

(* nft monitor prints a line for every change to each loop that has its    *)
(* nft monitor running.  Unread lines are one: a line says only "look".    *)
Notify == event' = event \cup {s \in Sessions : mon[s] = "watching"}

Goto(p, at, i) == job' = [job EXCEPT ![p] = Job(at, i)]
Blame(S, why) == excuse' = [s \in Sessions |-> IF s \in S THEN excuse[s] \cup {why}
                                                          ELSE excuse[s]]

Runs(p, at) == job[p].at = at

(* The chain shrinks to C, at the hand of a goroutine of none of S.  What  *)
(* a session of S loses while no nft monitor of its own runs goes unseen.  *)
Shrink(C, S, why) ==
    /\ chain' = C /\ Notify
    /\ excuse' = [s \in Sessions |->
          IF s \in S /\ Rules(s) \cap (chain \ C) # {}
            THEN excuse[s] \cup why \cup (IF mon[s] = "watching" THEN {} ELSE {"unseen"})
            ELSE excuse[s]]

(* The end of Apply, Present or Remove, for whoever called it.             *)
Ends(p, err) ==
    /\ Goto(p, "idle", 0)
    /\ LET s == Owner(p) IN
       \/ /\ Role(p) = "est"
          /\ stage' = [stage EXCEPT ![s] = IF err THEN "failed" ELSE "applied"]
          /\ UNCHANGED <<removal, mon, mssCancel>>
       \/ Role(p) = "mon" /\ UNCHANGED session
       \/ /\ Role(p) = "rem"
          /\ removal' = [removal EXCEPT ![s] = "done"]
          /\ UNCHANGED <<stage, mon, mssCancel>>

AfterRemove_(p, i) ==
    \/ i <= Len(Dirs) /\ Goto(p, "list", i + 1) /\ UNCHANGED session
    \/ i > Len(Dirs) /\ Role(p) = "rem" /\ Ends(p, FALSE)

(* Remove is done with direction i: the next one; or, in Apply, the rules. *)
AfterRemove(p, i) ==
    \/ i < Len(Dirs) /\ Goto(p, "list", i + 1) /\ UNCHANGED session
    \/ /\ i = Len(Dirs) /\ Role(p) # "rem"
       /\ Goto(p, IF ManageTable THEN "ensure" ELSE "v4", 1)
       /\ UNCHANGED session
    \/ i = Len(Dirs) /\ Role(p) = "rem" /\ Ends(p, FALSE)

(* The least of a set of handles.                                          *)
First(H) == {h \in H : \A g \in H : h <= g}

Listed_(p, i) == {r[1] : r \in {q \in chain : q[2][2] = Dirs[i]}}

(* removeNFT: the handles of the rules with the session's marker ...       *)
Listed(p, i) == {r[1] : r \in {q \in Rules(Owner(p)) : q[2][2] = Dirs[i]}}

List_(p) ==
    LET i == job[p].i  H == Listed(p, i) IN
    /\ Runs(p, "list")
    /\ \/ /\ exists /\ H # {}
          /\ job' = [job EXCEPT ![p] = [at |-> "delete", i |-> i, todo |-> First(H), gen |-> gen]]
          /\ UNCHANGED session
       \/ (~exists \/ H = {}) /\ AfterRemove(p, i)
    /\ UNCHANGED <<ruleset, world, event, excuse>>

(* ... listed, nothing if there is no chain, ...                           *)
List(p) ==
    LET i == job[p].i  H == Listed(p, i) IN
    /\ Runs(p, "list")
    /\ \/ /\ exists /\ H # {}
          /\ job' = [job EXCEPT ![p] = [at |-> "delete", i |-> i, todo |-> H, gen |-> gen]]
          /\ UNCHANGED session
       \/ (~exists \/ H = {}) /\ AfterRemove(p, i)
    /\ UNCHANGED <<ruleset, world, event, excuse>>

(* ... and deleted one by one.                                             *)
DeleteRule(p, h) ==
    LET rest == job[p].todo \ {h} IN
    /\ Runs(p, "delete") /\ \E r \in chain : r[1] = h
    /\ Shrink({r \in chain : r[1] # h}, Sessions \ {Owner(p)}, {"robbed"})
    /\ \/ rest # {} /\ job' = [job EXCEPT ![p].todo = rest] /\ UNCHANGED session
       \/ rest = {} /\ AfterRemove(p, job[p].i)
    /\ UNCHANGED <<exists, next, gen, world>>

Delete(p) == \E h \in First(job[p].todo) : DeleteRule(p, h)

(* Remove gives up at the first deletion that fails; Apply goes on.        *)
DeleteFails(p) ==
    /\ IF Role(p) = "rem" THEN Ends(p, TRUE)
       ELSE /\ Goto(p, IF ManageTable THEN "ensure" ELSE "v4", 1)
            /\ UNCHANGED session

DeleteGone(p) ==
    /\ Runs(p, "delete")
    /\ \E h \in First(job[p].todo) : \A r \in chain : r[1] # h
    /\ DeleteFails(p)
    /\ UNCHANGED <<ruleset, world, event, excuse>>

(* ensureNFTTable and ensureNFTChain.                                      *)
EnsureTable(p) ==
    /\ Runs(p, "ensure")
    /\ exists' = TRUE
    /\ IF exists THEN UNCHANGED event ELSE Notify
    /\ Goto(p, "v4", job[p].i)
    /\ UNCHANGED <<chain, next, gen, world, session, excuse>>

(* applyNFT adds the IPv4 and the IPv6 rule of a direction, then those of  *)
(* the next one.                                                           *)
AddRule(p) ==
    LET i == job[p].i IN
    \E v \in {"v4", "v6"} :
    /\ Runs(p, v) /\ exists
    /\ chain' = chain \cup {<<next, marker(Owner(p), Dirs[i], v)>>}
    /\ next' = next + 1
    /\ \/ v = "v4" /\ Goto(p, "v6", i) /\ UNCHANGED session
       \/ /\ v = "v6" /\ i < Len(Dirs)
          /\ Goto(p, IF ManageTable THEN "ensure" ELSE "v4", i + 1) /\ UNCHANGED session
       \/ v = "v6" /\ i = Len(Dirs) /\ Ends(p, FALSE)
    /\ Notify
    /\ UNCHANGED <<exists, gen, world, excuse>>

(* There is no chain to add to.                                            *)
AddToNothing(p) ==
    /\ Runs(p, "v4") \/ Runs(p, "v6")
    /\ ~exists /\ Ends(p, TRUE)
    /\ UNCHANGED <<ruleset, world, event, excuse>>

Installing == {"ensure", "v4", "v6"}

(* Any command may fail.  A listing that fails counts as a chain without   *)
(* rules, in Remove as in Present.                                         *)
CommandFails(p) ==
    /\ failures < MaxFailures /\ failures' = failures + 1
    /\ \/ Runs(p, "list") /\ AfterRemove(p, job[p].i)
       \/ Runs(p, "delete") /\ DeleteFails(p)
       \/ job[p].at \in Installing /\ Ends(p, TRUE)
       \/ Runs(p, "present") /\ Goto(p, "list", 1) /\ UNCHANGED session
    /\ CASE Role(p) = "rem" -> Blame({Owner(p)}, "unremoved")
         [] Role(p) = "mon" /\ job[p].at \in Installing -> Blame({Owner(p)}, "unrepaired")
         [] OTHER -> UNCHANGED excuse
    /\ UNCHANGED <<ruleset, reloads, event>>

Command(p) == \/ List(p) \/ Delete(p) \/ DeleteGone(p) \/ EnsureTable(p)
              \/ AddRule(p) \/ AddToNothing(p) \/ CommandFails(p)

-----------------------------------------------------------------------------
(* Establish.  An Establish that fails removes only the interface.         *)

Apply(s) ==
    /\ stage[s] = "new"
    /\ stage' = [stage EXCEPT ![s] = "applying"]
    /\ Goto(<<"est", s>>, "list", 1)
    /\ UNCHANGED <<ruleset, world, removal, mon, mssCancel, event, excuse>>

StartMonitor(s) ==
    /\ stage[s] = "applied"
    /\ stage' = [stage EXCEPT ![s] = "up"]
    /\ mssCancel' = mssCancel \cup {s}
    /\ mon' = [mon EXCEPT ![s] = "starting"]
    /\ UNCHANGED <<ruleset, world, job, removal, event, excuse>>

(* removeAndNotify, called by the session's own Teardown once Establish    *)
(* has returned, or earlier by a reconnect that evicts the session.  The   *)
(* monitor is cancelled if its cancel function is there by now; if a       *)
(* command of its repair is running, that one may still take effect.       *)
RemoveBegins(s) ==
    LET busy == job[<<"mon", s>>].at # "idle" IN
    /\ removal[s] = "none" /\ s \notin Settled
    /\ removal' = [removal EXCEPT ![s] = "running"]
    /\ Goto(<<"rem", s>>, "list", 1)
    /\ \/ s \notin mssCancel /\ Blame({s}, "overtaken") /\ UNCHANGED mon
       \/ s \in mssCancel /\ ~busy /\ mon' = [mon EXCEPT ![s] = "off"] /\ UNCHANGED excuse
       \/ s \in mssCancel /\ busy /\ mon' = [mon EXCEPT ![s] = "late"] /\ Blame({s}, "late")
    /\ event' = event \ {s}
    /\ UNCHANGED <<ruleset, world, stage, mssCancel>>

-----------------------------------------------------------------------------
(* MonitorLoop.                                                            *)

(* nft monitor starts, or fails to.                                        *)
Subscribe(s) ==
    /\ mon[s] = "starting"
    /\ \/ mon' = [mon EXCEPT ![s] = "watching"] /\ UNCHANGED <<failures, excuse>>
       \/ /\ failures < MaxFailures /\ failures' = failures + 1
          /\ mon' = [mon EXCEPT ![s] = "off"] /\ UNCHANGED excuse
    /\ UNCHANGED <<ruleset, reloads, job, stage, removal, mssCancel, event>>

(* A line is read and Present begins.                                      *)
Wake(s) ==
    /\ mon[s] = "watching" /\ s \in event /\ job[<<"mon", s>>].at = "idle"
    /\ event' = event \ {s}
    /\ Goto(<<"mon", s>>, "present", 1)
    /\ UNCHANGED <<ruleset, world, session, excuse>>

DirPresent_(s, i) ==
    exists /\ \E proto \in {"v4", "v6"} : \E r \in chain : r[2] = marker(s, Dirs[i], proto)

(* nftRulesPresent for direction i.                                        *)
DirPresent(s, i) ==
    exists /\ \A proto \in {"v4", "v6"} : \E r \in chain : r[2] = marker(s, Dirs[i], proto)

(* Present, and the Apply that follows if a rule is missing.               *)
Present(s) ==
    LET p == <<"mon", s>>  i == job[p].i IN
    /\ Runs(p, "present") /\ mon[s] = "watching"
    /\ \/ DirPresent(s, i) /\ i < Len(Dirs) /\ Goto(p, "present", i + 1)
       \/ DirPresent(s, i) /\ i = Len(Dirs) /\ Goto(p, "idle", 0)
       \/ ~DirPresent(s, i) /\ Goto(p, "list", 1)
    /\ UNCHANGED <<ruleset, world, session, event, excuse>>

(* The monitor's commands while it is not cancelled ...                    *)
Repair(s) == mon[s] = "watching" /\ Command(<<"mon", s>>)

(* ... and the one that was running when it was, which takes effect or not *)
(* before the loop returns.                                                *)
LateCommand(s) ==
    LET p == <<"mon", s>> IN
    /\ mon[s] = "late"
    /\ \/ /\ Runs(p, "delete")
          /\ \E h \in First(job[p].todo) :
                Shrink({r \in chain : r[1] # h}, Sessions, {"robbed"})
          /\ UNCHANGED <<exists, next>>
       \/ Runs(p, "ensure") /\ exists' = TRUE /\ Notify /\ UNCHANGED <<chain, next, excuse>>
       \/ /\ exists /\ next' = next + 1 /\ Notify /\ UNCHANGED <<exists, excuse>>
          /\ \E v \in {"v4", "v6"} :
                Runs(p, v) /\ chain' = chain \cup {<<next, marker(s, Dirs[job[p].i], v)>>}
       \/ UNCHANGED <<chain, exists, next, event, excuse>>
    /\ mon' = [mon EXCEPT ![s] = "off"] /\ Goto(p, "idle", 0)
    /\ UNCHANGED <<gen, world, stage, removal, mssCancel>>

-----------------------------------------------------------------------------
(* The administrator flushes the chain, deletes the table, or loads it,    *)
(* anew or again, which starts its handles over.                           *)
Reload ==
    /\ reloads < cfg.maxReloads /\ reloads' = reloads + 1
    /\ Shrink({}, Sessions, {})
    /\ \/ exists /\ UNCHANGED <<exists, next, gen>>
       \/ exists' \in {~exists, TRUE} /\ next' = 1 /\ gen' = gen + 1
    /\ UNCHANGED <<failures, job, session>>

Worker(s) == Apply(s) \/ StartMonitor(s) \/ Command(<<"est", s>>)
Remover(s) == RemoveBegins(s) \/ Command(<<"rem", s>>)
MonitorLoop(s) == Subscribe(s) \/ Wake(s) \/ Present(s) \/ Repair(s) \/ LateCommand(s)

Next == /\ \/ Reload
           \/ \E s \in Sessions : Worker(s) \/ Remover(s) \/ MonitorLoop(s)
        /\ UNCHANGED cfg

Spec == Init /\ [][Next]_vars

-----------------------------------------------------------------------------
(* Properties.                                                             *)

Quiet(s) == \A p \in Procs : Owner(p) = s => job[p].at = "idle"

(* manager.go:259-333, mssclamp.go:123-144: after removeAndNotify no       *)
(* monitor watches over the session, unless it came before Establish       *)
(* stored the cancel function; and once the session's goroutines rest,     *)
(* none of its rules is left, unless a command of the                      *)
(* removal failed, it overtook the session's Establish, another session    *)
(* (DeletesOwnRules says when) or the cancelled monitor deleted a rule the *)
(* removal still had to delete, at which it gives up, or the monitor was   *)
(* in a repair, of which at most one rule is left.                         *)
RemovalLeavesNothing ==
    \A s \in Sessions :
        /\ removal[s] # "none" /\ "overtaken" \notin excuse[s] => mon[s] \in {"off", "late"}
        /\ removal[s] = "done" /\ Quiet(s) /\ mon[s] # "late"
              /\ excuse[s] \cap {"unremoved", "overtaken", "robbed"} = {}
           => /\ \A r, q \in Rules(s) : r = q
              /\ Rules(s) # {} => "late" \in excuse[s]

(* mssclamp.go:52-96: a loop that waits for the next line leaves no rule   *)
(* of its session missing from the chain, unless the rules were lost       *)
(* before its nft monitor listened or a command that reinstalls them       *)
(* failed.                                                                 *)
NoMissedReload ==
    \A s \in Sessions :
        /\ exists /\ mon[s] = "watching" /\ s \notin event /\ job[<<"mon", s>>].at = "idle"
        /\ excuse[s] \cap {"unrepaired", "overtaken", "unseen"} = {}
        => Complete(s)

(* mssclamp.go:191-211: no session deletes a rule of another one, unless   *)
(* the table was loaded anew between its listing and its deletion and the  *)
(* handle now names another rule.                                          *)
DeletesOwnRules ==
    [][ \A s \in Sessions, p \in Procs :
            Owner(p) # s /\ job[p].gen = gen /\ Delete(p)
                => {r \in chain : r[2] \in Tags(s)} \subseteq chain' ]_vars

=============================================================================
