-------------------------- MODULE MssClampProofs --------------------------
(***************************************************************************)
(* Proofs about MssClamp for any number of sessions, reloads of the table  *)
(* and failing commands.                                                   *)
(*                                                                         *)
(* The properties speak of sessions at rest; the invariants below say what *)
(* holds in the middle of every Apply, Present and Remove.  They are       *)
(* stated per session.  A step belongs to one session, and the others see  *)
(* of it only that rules of theirs are gone or that a line has come        *)
(* (Apart); so each invariant is shown once for such a step and once for   *)
(* the steps of the session itself.                                        *)
(***************************************************************************)
EXTENDS MssClamp, TLAPS

(* Most leaves are first-order: each is tried with Zenon before SMT.       *)
USE ZenonT(4), SMTT(20), ZenonT(20), SMTT(40)

(* The shape of the goroutines' jobs, and the handles of the table.        *)
JobInv ==
    /\ job \in [Procs -> [at : Steps, i : 0..Len(Dirs), todo : SUBSET Nat, gen : Nat]]
    /\ \A p \in Procs :
          /\ job[p].at # "idle" => job[p].i >= 1
          /\ job[p].at = "delete" => job[p].todo # {}
          /\ Role(p) = "rem" => job[p].at \in {"idle", "list", "delete"}
          /\ Role(p) = "est" => job[p].at # "present"

HandleInv ==
    /\ \A r, q \in chain : r[1] = q[1] => r = q
    /\ ~exists => chain = {}
    /\ \A p \in Procs : Runs(p, "delete") /\ job[p].gen = gen =>
          \A h \in job[p].todo : /\ h < next
                                 /\ \A r \in chain : r[1] = h => r[2] \in Tags(Owner(p))

(* Where the goroutines of a session are tells what the others may do.     *)
StageOf(s) ==
    /\ stage[s] = "applying" <=> ~Runs(<<"est", s>>, "idle")
    /\ stage[s] = "up" <=> s \in mssCancel
    /\ removal[s] = "running" <=> ~Runs(<<"rem", s>>, "idle")
    /\ mon[s] # "off" => s \in mssCancel
    /\ mon[s] \in {"off", "starting"} => Runs(<<"mon", s>>, "idle")
    /\ mon[s] = "late" => "late" \in excuse[s] /\ ~Runs(<<"mon", s>>, "idle")
    /\ removal[s] # "none" /\ "overtaken" \notin excuse[s] =>
          mon[s] \in {"off", "late"} /\ stage[s] \in {"up", "failed"}

StageInv == \A s \in Sessions : StageOf(s)

Has(t) == \E r \in chain : r[2] = t
Upto(s, i) == \A j \in 1..(i - 1), v \in {"v4", "v6"} : Has(marker(s, Dirs[j], v))

(* What an Apply or Present of p's has installed or found so far.          *)
Progress(p) ==
    LET s == Owner(p)  i == job[p].i IN
    /\ Runs(p, "idle") => Complete(s)
    /\ job[p].at \in {"present", "ensure", "v4", "v6"} => Upto(s, i)
    /\ Runs(p, "v6") => Has(marker(s, Dirs[i], "v4"))

WatchOf(s) ==
    excuse[s] \cap {"unrepaired", "overtaken", "unseen"} = {} =>
        /\ stage[s] = "applying" => Progress(<<"est", s>>)
        /\ stage[s] = "applied" \/ mon[s] = "starting" => Complete(s)
        /\ mon[s] = "watching" /\ s \notin event /\ exists => Progress(<<"mon", s>>)

WatchInv == \A s \in Sessions : WatchOf(s)

(* No rule at all, or the one a cancelled repair has added.                *)
Few(s, R) == /\ \A r, q \in R : r = q
             /\ R # {} => "late" \in excuse[s] /\ mon[s] # "late"

(* The rules a removal is past.                                            *)
Passed(s) ==
    LET p == <<"rem", s>>  i == job[p].i IN
    {r \in Rules(s) : \/ Runs(p, "idle")
                      \/ \E j \in 1..(i - 1) : r[2][2] = Dirs[j]
                      \/ Runs(p, "delete") /\ r[2][2] = Dirs[i] /\ r[1] \notin job[p].todo}

RemovalOf(s) ==
    removal[s] # "none" /\ excuse[s] \cap {"unremoved", "overtaken", "robbed"} = {} =>
        /\ Few(s, Passed(s))
        /\ Runs(<<"rem", s>>, "delete") =>
              \/ \A h \in job[<<"rem", s>>].todo : \E r \in Rules(s) : r[1] = h
              \/ Few(s, Rules(s))

RemovalInv == \A s \in Sessions : RemovalOf(s)

-----------------------------------------------------------------------------
(* What ClampAssumption says of the configuration the daemon runs with.    *)
LEMMA DirsFacts ==
    ASSUME cfg \in Setups
    PROVE  /\ Len(Dirs) \in Nat \ {0} /\ DOMAIN Dirs = 1..Len(Dirs)
           /\ cfg.maxReloads \in Nat /\ Settled \subseteq Sessions
<1>1. Dirs \in {<<"out">>, <<"in">>, <<"out", "in">>}
  BY ClampAssumption DEF Dirs
<1>2. cfg.maxReloads \in Nat /\ Settled \subseteq Sessions
  BY ClampAssumption DEF Settled
<1>3. \A d \in {"out", "in"} : Len(<<d>>) \in Nat \ {0} /\ DOMAIN <<d>> = 1..Len(<<d>>)
  OBVIOUS
<1>4. Len(<<"out", "in">>) \in Nat \ {0} /\ DOMAIN <<"out", "in">> = 1..Len(<<"out", "in">>)
  OBVIOUS
<1> QED BY <1>1, <1>2, <1>3, <1>4

(* A session's tags are the markers of its directions and both protocols.  *)
LEMMA TagsFacts ==
    ASSUME cfg \in Setups, NEW s, NEW u
    PROVE  u \in Tags(s) <=> \E i \in 1..Len(Dirs), v \in {"v4", "v6"} : u = marker(s, Dirs[i], v)
<1>1. DOMAIN Protos = 1..2 /\ Protos[1] = "v4" /\ Protos[2] = "v6"
  BY DEF Protos
<1> QED BY <1>1, DirsFacts, SMTT(30) DEF Tags, Markers

-----------------------------------------------------------------------------
(* What a command does to the jobs and to the sessions' state.             *)

Jobs == [at : Steps, i : 0..Len(Dirs), todo : SUBSET Nat, gen : Nat]

(* p's job is j, which it may be, and everybody else's is what it was.     *)
Moves(p, j) == /\ job' = [job EXCEPT ![p] = j]
               /\ j \in Jobs /\ j.gen <= gen
               /\ j.at # "idle" => j.i >= 1
               /\ j.at = "delete" => j.todo # {}
               /\ Role(p) = "rem" => j.at \in {"idle", "list", "delete"}
               /\ Role(p) = "est" => j.at # "present"

(* A goroutine that goes on with Job(a, n) has a job of the right shape.   *)
LEMMA GotoMoves ==
    ASSUME TypeOK, NEW p, NEW a \in Steps \ {"delete"}, NEW n \in 0..Len(Dirs), Goto(p, a, n),
           a # "idle" => n >= 1,
           Role(p) = "rem" => a \in {"idle", "list"}, Role(p) = "est" => a # "present"
    PROVE  Moves(p, Job(a, n))
<1>2. Job(a, n) \in Jobs /\ Job(a, n).gen <= gen
  <2>1. gen \in Nat
    BY DEF TypeOK
  <2> QED BY <2>1 DEF Jobs, Job
<1>3. /\ Job(a, n).at = a /\ Job(a, n).i = n
  BY DEF Job
<1> QED BY <1>2, <1>3 DEF Goto, Moves

(* What the session's own state becomes when p's job ends.                 *)
Settles(p) ==
    /\ stage' \in [Sessions -> {"new", "applying", "applied", "up", "failed"}]
    /\ removal' \in [Sessions -> {"none", "running", "done"}]
    /\ \A s \in Sessions : stage'[s] # stage[s] => <<"est", s>> = p /\ stage'[s] \in {"applied", "failed"}
    /\ \A s \in Sessions : removal'[s] # removal[s] => <<"rem", s>> = p /\ removal'[s] = "done"
    /\ UNCHANGED <<mon, mssCancel>>

(* The end of Apply, Present or Remove: the job rests, and Establish or    *)
(* the removal takes note of it.                                           *)
LEMMA Endings ==
    ASSUME TypeOK, NEW p \in Procs, NEW err, Ends(p, err)
    PROVE  /\ Moves(p, Job("idle", 0)) /\ Settles(p)
           /\ Role(p) = "est" => stage' = [stage EXCEPT ![Owner(p)] = IF err THEN "failed" ELSE "applied"]
           /\ Role(p) # "est" => stage' = stage
           /\ Role(p) = "rem" => removal' = [removal EXCEPT ![Owner(p)] = "done"]
           /\ Role(p) # "rem" => removal' = removal
<1>1. 0 \in 0..Len(Dirs) /\ "idle" \in Steps \ {"delete"} /\ Goto(p, "idle", 0)
  BY DirsFacts DEF TypeOK, Steps, Ends
<1>2. Moves(p, Job("idle", 0))
  BY <1>1, GotoMoves
<1>3. p = <<Role(p), Owner(p)>> /\ Role(p) \in {"est", "mon", "rem"} /\ Owner(p) \in Sessions
  BY DEF Procs, Role, Owner
<1> QED BY <1>2, <1>3 DEF Ends, Settles, TypeOK, session

(* A step that leaves the sessions' state alone settles nothing.           *)
LEMMA Sessionless ==
    ASSUME TypeOK, NEW p, UNCHANGED session
    PROVE  Settles(p)
BY DEF TypeOK, Settles, session

(* After a direction's rules are gone, the next direction, the rules, or   *)
(* the end.                                                                *)
LEMMA AfterRemoves ==
    ASSUME TypeOK, NEW p \in Procs, NEW i \in 1..Len(Dirs), AfterRemove(p, i)
    PROVE  /\ \E j \in Jobs : Moves(p, j)
           /\ Settles(p)
           /\ \/ i < Len(Dirs) /\ Moves(p, Job("list", i + 1)) /\ UNCHANGED session
              \/ /\ i = Len(Dirs) /\ Role(p) # "rem" /\ UNCHANGED session
                 /\ \E a \in {"ensure", "v4"} : Moves(p, Job(a, 1))
              \/ i = Len(Dirs) /\ Role(p) = "rem" /\ Ends(p, FALSE) /\ Moves(p, Job("idle", 0))
<1>1. Len(Dirs) \in Nat \ {0}
  BY DirsFacts DEF TypeOK
<1>2. ASSUME i < Len(Dirs), Goto(p, "list", i + 1) PROVE Moves(p, Job("list", i + 1))
  BY <1>1, <1>2, GotoMoves DEF Steps
<1>3. ASSUME NEW a \in {"ensure", "v4"}, Goto(p, a, 1), Role(p) # "rem" PROVE Moves(p, Job(a, 1))
  BY <1>1, <1>3, GotoMoves DEF Steps
<1>4. ASSUME Ends(p, FALSE) PROVE Moves(p, Job("idle", 0)) /\ Settles(p)
  BY <1>4, Endings
<1>5. \/ i < Len(Dirs) /\ Moves(p, Job("list", i + 1)) /\ UNCHANGED session
      \/ /\ i = Len(Dirs) /\ Role(p) # "rem" /\ UNCHANGED session
         /\ \E a \in {"ensure", "v4"} : Moves(p, Job(a, 1))
      \/ i = Len(Dirs) /\ Role(p) = "rem" /\ Ends(p, FALSE) /\ Moves(p, Job("idle", 0))
  BY <1>2, <1>3, <1>4 DEF AfterRemove
<1>6. \A j : Moves(p, j) => j \in Jobs
  BY DEF Moves
<1> QED BY <1>4, <1>5, <1>6, Sessionless

(* After a deletion that failed.                                           *)
LEMMA GivesUp ==
    ASSUME TypeOK, NEW p \in Procs, DeleteFails(p)
    PROVE  /\ Settles(p)
           /\ \/ Role(p) = "rem" /\ Ends(p, TRUE) /\ Moves(p, Job("idle", 0))
              \/ Role(p) # "rem" /\ UNCHANGED session /\ \E a \in {"ensure", "v4"} : Moves(p, Job(a, 1))
<1>1. Len(Dirs) \in Nat \ {0}
  BY DirsFacts DEF TypeOK
<1>2. ASSUME NEW a \in {"ensure", "v4"}, Goto(p, a, 1), Role(p) # "rem" PROVE Moves(p, Job(a, 1))
  BY <1>1, <1>2, GotoMoves DEF Steps
<1> QED BY <1>2, Endings, Sessionless DEF DeleteFails

(* A command moves its goroutine's job and nobody else's.                  *)
LEMMA CommandMoves ==
    ASSUME TypeOK, JobInv, NEW p \in Procs, Command(p)
    PROVE  Settles(p) /\ \E j \in Jobs : Moves(p, j)
<1>1. job[p] \in Jobs /\ Len(Dirs) \in Nat \ {0} /\ (job[p].at # "idle" => job[p].i \in 1..Len(Dirs))
      /\ job[p].gen <= gen
  BY DirsFacts DEF TypeOK, JobInv, Jobs
<1>0. \A j : Moves(p, j) => j \in Jobs
  BY DEF Moves
<1>2. CASE List(p)
  <2> DEFINE i == job[p].i  H == Listed(p, i)
             j == [at |-> "delete", i |-> i, todo |-> H, gen |-> gen]
  <2>1. i \in 1..Len(Dirs)
    BY <1>1, <1>2 DEF List, Runs
  <2>2. ASSUME H # {}, job' = [job EXCEPT ![p] = j] PROVE Moves(p, j)
    <3>1. H \subseteq Nat
      BY DEF Listed, Rules, TypeOK
    <3>2. j \in Jobs /\ gen <= gen
      BY <2>1, <3>1 DEF Jobs, Steps, TypeOK
    <3> QED BY <2>1, <2>2, <3>2 DEF Moves
  <2> HIDE DEF j
  <2> QED BY <1>2, <1>0, <2>1, <2>2, AfterRemoves, Sessionless DEF List, j
<1>3. CASE Delete(p)
  <2>0. PICK h \in First(job[p].todo) : DeleteRule(p, h)
    BY <1>3 DEF Delete
  <2> DEFINE rest == job[p].todo \ {h}
             j == [job[p] EXCEPT !.todo = rest]
  <2>1. job[p].i \in 1..Len(Dirs) /\ job[p].at = "delete"
    BY <1>1, <2>0 DEF DeleteRule, Runs
  <2>2. ASSUME rest # {}, job' = [job EXCEPT ![p].todo = rest] PROVE Moves(p, j)
    <3>1. j \in Jobs /\ j.gen <= gen /\ j.at = "delete" /\ j.todo = rest /\ j.i = job[p].i
      BY <1>1, <2>1 DEF Jobs
    <3>2. job' = [job EXCEPT ![p] = j]
      BY <2>2 DEF JobInv
    <3>3. j.i >= 1
      BY <1>1, <2>1, <3>1
    <3> HIDE DEF j, rest
    <3> QED BY <2>2, <3>1, <3>2, <3>3 DEF Moves
  <2> HIDE DEF j
  <2> QED BY <1>0, <2>0, <2>1, <2>2, AfterRemoves, Sessionless DEF DeleteRule
<1>4. CASE DeleteGone(p)
  BY <1>0, <1>4, GivesUp DEF DeleteGone
<1>5. CASE EnsureTable(p)
  <2>1. Goto(p, "v4", job[p].i) /\ job[p].i \in 1..Len(Dirs) /\ Role(p) # "rem"
    BY <1>1, <1>5 DEF EnsureTable, Runs, JobInv
  <2>2. Moves(p, Job("v4", job[p].i))
    BY <1>1, <2>1, GotoMoves DEF Steps
  <2> QED BY <1>0, <1>5, <2>2, Sessionless DEF EnsureTable
<1>6. CASE AddRule(p)
  <2>1. job[p].i \in 1..Len(Dirs) /\ Role(p) # "rem"
    BY <1>1, <1>6 DEF AddRule, Runs, JobInv
  <2>2. ASSUME NEW a \in {"ensure", "v4", "v6"}, NEW n \in 1..Len(Dirs), Goto(p, a, n)
        PROVE  Moves(p, Job(a, n))
    BY <1>1, <2>1, <2>2, GotoMoves DEF Steps
  <2>3. \/ \E a \in {"ensure", "v4", "v6"}, n \in 1..Len(Dirs) : Goto(p, a, n) /\ UNCHANGED session
        \/ Ends(p, FALSE)
    <3>1. CASE Goto(p, "v6", job[p].i) /\ UNCHANGED session
      BY <2>1, <3>1
    <3>2. ASSUME job[p].i < Len(Dirs), NEW a \in {"ensure", "v4"}, Goto(p, a, job[p].i + 1),
                 UNCHANGED session
          PROVE  \E n \in 1..Len(Dirs) : Goto(p, a, n) /\ UNCHANGED session
      <4>1. job[p].i + 1 \in 1..Len(Dirs)
        BY <1>1, <2>1, <3>2
      <4> QED BY <3>2, <4>1
    <3> QED BY <1>6, <3>1, <3>2 DEF AddRule
  <2> QED BY <1>0, <2>2, <2>3, Endings, Sessionless
<1>7. CASE AddToNothing(p)
  BY <1>0, <1>7, Endings DEF AddToNothing
<1>8. CASE CommandFails(p)
  <2>1. ASSUME Runs(p, "list"), AfterRemove(p, job[p].i) PROVE Settles(p) /\ \E j \in Jobs : Moves(p, j)
    BY <1>1, <2>1, AfterRemoves DEF Runs
  <2>2. ASSUME Runs(p, "present"), Goto(p, "list", 1), UNCHANGED session
        PROVE  Settles(p) /\ \E j \in Jobs : Moves(p, j)
    <3>1. 1 \in 0..Len(Dirs) /\ "list" \in Steps \ {"delete"} /\ 1 >= 1
      BY <1>1 DEF Steps
    <3>2. Moves(p, Job("list", 1))
      BY <2>2, <3>1, GotoMoves
    <3> QED BY <1>0, <2>2, <3>2, Sessionless
  <2> QED BY <1>0, <1>8, <2>1, <2>2, GivesUp, Endings DEF CommandFails
<1> QED BY <1>2, <1>3, <1>4, <1>5, <1>6, <1>7, <1>8 DEF Command

-----------------------------------------------------------------------------
(* What a step does to the chain, and what the other sessions see of it.   *)

Excuses == {"unremoved", "unrepaired", "overtaken", "late", "unseen", "robbed"}

(* What a step may do to the chain: take rules away, or add one of s's.    *)
Fewer == chain' \subseteq chain /\ UNCHANGED <<next, gen>> /\ (exists => exists')
Grows(s, u) == /\ chain' = chain \cup {<<next, u>>} /\ next' = next + 1 /\ UNCHANGED gen
               /\ exists /\ exists' /\ u \in Tags(s)

(* The step is no concern of s's but for the rules it loses to it.         *)
Apart(s) ==
    /\ excuse[s] \subseteq excuse'[s] /\ (s \in event => s \in event')
    /\ mon[s] = "watching" /\ exists' # exists => s \in event'
    /\ Rules(s)' \subseteq Rules(s)
    /\ Rules(s)' # Rules(s) =>
          /\ IF mon[s] = "watching" THEN s \in event' ELSE "unseen" \in excuse'[s]
          /\ "robbed" \in excuse'[s] \/ Rules(s)' = {}

HistoryOK == /\ event' \subseteq Sessions /\ excuse' \in [Sessions -> SUBSET Excuses]
             /\ \A s \in Sessions : excuse[s] \subseteq excuse'[s]

(* A session's tags depend on the configuration only.                      *)
LEMMA SameTags == UNCHANGED cfg => \A s : Tags(s)' = Tags(s)
BY DEF Tags, Markers, Dirs, marker

(* A session whose rules shrink at another's hand is told, or excused.     *)
LEMMA ShrinkHistory ==
    ASSUME TypeOK, UNCHANGED cfg, NEW C \in SUBSET chain, NEW S, NEW why \in {{}, {"robbed"}},
           Shrink(C, S, why), exists' = exists, why # {} \/ C = {}
    PROVE  HistoryOK /\ event \subseteq event' /\ \A s \in Sessions \cap S : Apart(s)
<1>1. HistoryOK /\ event \subseteq event'
  BY DEF Shrink, Notify, TypeOK, HistoryOK, Excuses
<1>2. ASSUME NEW s \in Sessions \cap S PROVE Apart(s)
  <2>1. Rules(s)' = {r \in C : r[2] \in Tags(s)}
    BY SameTags DEF Rules, Shrink
  <2>2. Rules(s)' # Rules(s) => Rules(s) \cap (chain \ C) # {}
    BY <2>1 DEF Rules
  <2>3. Rules(s)' # Rules(s) =>
          excuse'[s] = excuse[s] \cup why \cup (IF mon[s] = "watching" THEN {} ELSE {"unseen"})
    BY <2>2 DEF Shrink
  <2>4. mon[s] = "watching" => s \in event'
    BY DEF Shrink, Notify
  <2>5. C = {} => Rules(s)' = {}
    BY <2>1
  <2> QED BY <1>1, <2>1, <2>3, <2>4, <2>5 DEF Apart, HistoryOK, Rules
<1> QED BY <1>1, <1>2

(* No two sessions share a tag: every marker names its interface.          *)
LEMMA OtherTags == ASSUME cfg \in Setups, NEW s, NEW d, d # s, NEW u, u \in Tags(s) PROVE u \notin Tags(d)
BY TagsFacts DEF marker

(* One command, seen by the table and by the other sessions.               *)
LEMMA CommandRules ==
    ASSUME TypeOK, JobInv, UNCHANGED cfg, NEW p \in Procs, Command(p)
    PROVE  /\ Fewer \/ \E u \in Tags(Owner(p)) : Grows(Owner(p), u)
           /\ HistoryOK /\ event \subseteq event'
           /\ UNCHANGED reloads /\ failures' \in 0..MaxFailures
           /\ \A s \in Sessions \ {Owner(p)} : Apart(s)
           /\ mon[Owner(p)] = "watching" /\ exists' # exists => Owner(p) \in event'
<1> DEFINE o == Owner(p)
<1>1. o \in Sessions
  BY DEF Procs, Owner
<1>2. ASSUME UNCHANGED chain, event \subseteq event', event' \subseteq Sessions, HistoryOK,
             \A s \in Sessions : mon[s] = "watching" /\ exists' # exists => s \in event'
      PROVE  \A s \in Sessions : Apart(s)
  BY <1>2, SameTags DEF Apart, HistoryOK, Rules
<1>3. ASSUME UNCHANGED <<event, excuse>> PROVE HistoryOK
  BY <1>3 DEF HistoryOK, TypeOK, Excuses
<1>4. CASE List(p) \/ DeleteGone(p) \/ AddToNothing(p)
  BY <1>2, <1>3, <1>4 DEF List, DeleteGone, AddToNothing, Fewer, ruleset, world, TypeOK
<1>5. CASE Delete(p)
  <2>0. PICK h : DeleteRule(p, h)
    BY <1>5 DEF Delete
  <2>1. Fewer /\ UNCHANGED <<exists, reloads, failures>>
    BY <2>0 DEF DeleteRule, Shrink, Fewer, world
  <2>2. PICK C \in SUBSET chain : Shrink(C, Sessions \ {o}, {"robbed"})
    BY <2>0 DEF DeleteRule
  <2>3. HistoryOK /\ event \subseteq event' /\ \A s \in Sessions \ {o} : Apart(s)
    BY <2>1, <2>2, ShrinkHistory
  <2> QED BY <2>1, <2>3 DEF TypeOK
<1>6. CASE EnsureTable(p)
  <2>1. /\ UNCHANGED <<chain, next, gen, reloads, failures, excuse>> /\ exists'
        /\ event' = event \/ event' = event \cup {s \in Sessions : mon[s] = "watching"}
        /\ exists' # exists => event' = event \cup {s \in Sessions : mon[s] = "watching"}
    BY <1>6 DEF EnsureTable, Notify, world, TypeOK
  <2>2. HistoryOK
    BY <2>1 DEF HistoryOK, TypeOK, Excuses
  <2>3. Fewer /\ failures' \in 0..MaxFailures
    BY <2>1 DEF Fewer, TypeOK
  <2>4. \A s \in Sessions : mon[s] = "watching" /\ exists' # exists => s \in event'
    BY <2>1
  <2> QED BY <1>1, <1>2, <2>1, <2>2, <2>3, <2>4 DEF HistoryOK
<1>7. CASE AddRule(p)
  <2>1. PICK v \in {"v4", "v6"} :
           /\ Runs(p, v) /\ exists /\ next' = next + 1
           /\ chain' = chain \cup {<<next, marker(o, Dirs[job[p].i], v)>>}
    BY <1>7 DEF AddRule
  <2>2. UNCHANGED <<exists, gen, reloads, failures, excuse>> /\ Notify
    BY <1>7 DEF AddRule, world
  <2>3. HistoryOK /\ event \subseteq event'
    BY <2>2 DEF HistoryOK, Notify, TypeOK, Excuses
  <2>4. marker(o, Dirs[job[p].i], v) \in Tags(o)
    <3>1. job[p].i \in 1..Len(Dirs)
      BY <2>1, DirsFacts DEF JobInv, TypeOK, Runs
    <3> QED BY <3>1, TagsFacts DEF TypeOK
  <2>5. Grows(o, marker(o, Dirs[job[p].i], v)) /\ failures' \in 0..MaxFailures
    BY <2>1, <2>2, <2>4 DEF Grows, TypeOK
  <2>6. ASSUME NEW s \in Sessions \ {o} PROVE Apart(s)
    <3>1. marker(o, Dirs[job[p].i], v) \notin Tags(s)
      BY <2>4, OtherTags DEF TypeOK
    <3>2. Rules(s)' = Rules(s)
      BY <2>1, <3>1, SameTags DEF Rules
    <3> QED BY <2>2, <2>3, <3>2 DEF Apart, HistoryOK
  <2> QED BY <2>2, <2>3, <2>4, <2>5, <2>6
<1>8. CASE CommandFails(p)
  <2>1. /\ UNCHANGED <<chain, exists, next, gen, reloads, event>> /\ failures' = failures + 1
        /\ failures < MaxFailures
    BY <1>8 DEF CommandFails, ruleset
  <2>2. excuse' = excuse \/ \E w \in Excuses : Blame({o}, w)
    BY <1>8 DEF CommandFails, Excuses
  <2>3. HistoryOK
    BY <2>1, <2>2 DEF HistoryOK, Blame, TypeOK, Excuses
  <2>4. failures' \in 0..MaxFailures
    BY <2>1, ClampAssumption DEF TypeOK
  <2> QED BY <1>1, <1>2, <2>1, <2>3, <2>4 DEF Fewer, HistoryOK
<1> QED BY <1>4, <1>5, <1>6, <1>7, <1>8 DEF Command

SessionsOK ==
    /\ stage' \in [Sessions -> {"new", "applying", "applied", "up", "failed"}]
    /\ removal' \in [Sessions -> {"none", "running", "done"}]
    /\ mon' \in [Sessions -> Monitors] /\ mssCancel' \subseteq Sessions

(* p deletes only what it has listed as its own.                           *)
OwnTodo(p, j) ==
    j.at = "delete" =>
        \/ Runs(p, "delete") /\ j.gen = job[p].gen /\ j.todo \subseteq job[p].todo
        \/ /\ UNCHANGED ruleset
           /\ \A h \in j.todo : \E r \in Rules(Owner(p)) : r[1] = h

(* What every step but a reload does to the table and to the jobs.         *)
Tidy == /\ Fewer \/ \E s \in Sessions : \E u \in Tags(s) : Grows(s, u)
        /\ job' = job \/ \E p \in Procs, j \in Jobs : Moves(p, j) /\ OwnTodo(p, j)
        /\ HistoryOK /\ SessionsOK
        /\ reloads' = reloads /\ failures' \in 0..MaxFailures
        /\ exists' \in BOOLEAN /\ (~exists => chain' = chain)

(* A tidy step keeps the types and the shape of the jobs.                  *)
LEMMA TidyTypes ==
    ASSUME TypeOK, JobInv, UNCHANGED cfg, Tidy
    PROVE  TypeOK' /\ JobInv'
<1>1. Len(Dirs)' = Len(Dirs) /\ Dirs' = Dirs /\ Len(Dirs) \in Nat \ {0}
  BY DirsFacts DEF Dirs, TypeOK
<1>2. \A r \in chain' : r[1] \in 1..(next' - 1) /\ \E s \in Sessions : r[2] \in Tags(s)'
  <2>1. CASE Fewer
    BY <2>1, SameTags DEF Fewer, TypeOK
  <2>2. ASSUME NEW s \in Sessions, NEW u \in Tags(s), Grows(s, u)
        PROVE  \A r \in chain' : r[1] \in 1..(next' - 1) /\ \E d \in Sessions : r[2] \in Tags(d)'
    <3>1. next \in Nat \ {0} /\ next' = next + 1 /\ chain' = chain \cup {<<next, u>>}
      BY <2>2 DEF Grows, TypeOK
    <3>2. \A r \in chain : r[1] \in 1..(next' - 1) /\ \E d \in Sessions : r[2] \in Tags(d)'
      BY <3>1, SameTags DEF TypeOK
    <3>3. <<next, u>>[1] \in 1..(next' - 1) /\ <<next, u>>[2] \in Tags(s)'
      BY <3>1, SameTags
    <3> QED BY <3>1, <3>2, <3>3
  <2> QED BY <2>1, <2>2 DEF Tidy
<1>3. gen' = gen /\ next' \in Nat \ {0}
  BY DEF Tidy, Fewer, Grows, TypeOK
<1>4. JobInv' /\ \A p \in Procs : job'[p].gen <= gen'
  <2>1. job' \in [Procs -> Jobs] /\ \A p \in Procs :
          /\ job'[p].gen <= gen
          /\ job'[p].at # "idle" => job'[p].i >= 1
          /\ job'[p].at = "delete" => job'[p].todo # {}
          /\ Role(p) = "rem" => job'[p].at \in {"idle", "list", "delete"}
          /\ Role(p) = "est" => job'[p].at # "present"
    <3>1. CASE job' = job
      BY <3>1 DEF JobInv, Jobs, TypeOK
    <3>2. ASSUME NEW p \in Procs, NEW j \in Jobs, Moves(p, j)
          PROVE  /\ job' \in [Procs -> Jobs] /\ job'[p] = j
                 /\ \A q \in Procs \ {p} : job'[q] = job[q]
      BY <3>2 DEF JobInv, Moves, Jobs
    <3>3. \A p \in Procs : job[p].gen <= gen
      BY DEF TypeOK
    <3>4. ASSUME NEW p \in Procs, NEW j \in Jobs, Moves(p, j), NEW q \in Procs
          PROVE  /\ job'[q].gen <= gen
                 /\ job'[q].at # "idle" => job'[q].i >= 1
                 /\ job'[q].at = "delete" => job'[q].todo # {}
                 /\ Role(q) = "rem" => job'[q].at \in {"idle", "list", "delete"}
                 /\ Role(q) = "est" => job'[q].at # "present"
      <4>1. CASE q = p
        BY <3>2, <3>4, <4>1 DEF Moves
      <4>2. CASE q # p
        BY <3>2, <3>3, <3>4, <4>2 DEF JobInv
      <4> QED BY <4>1, <4>2
    <3> QED BY <3>1, <3>2, <3>4 DEF Tidy
  <2> QED BY <1>1, <1>3, <2>1 DEF JobInv, Jobs
<1>5. \A p \in Procs : /\ job'[p].at \in Steps /\ job'[p].i \in 0..Len(Dirs)'
                       /\ job'[p].todo \subseteq Nat /\ job'[p].gen \in 0..gen'
  BY <1>4, <1>3 DEF JobInv, TypeOK
<1>6. exists' \in BOOLEAN
  BY DEF Tidy, Fewer, Grows, TypeOK
<1> QED BY <1>2, <1>3, <1>4, <1>5, <1>6 DEF TypeOK, Tidy, HistoryOK, SessionsOK, Excuses

(* A tidy step keeps handles unique, and a listed handle, as long as the   *)
(* table is not loaded anew, names no other session's rule: handles are    *)
(* not used twice.                                                         *)
LEMMA TidyHandles ==
    ASSUME TypeOK, JobInv, HandleInv, UNCHANGED cfg, Tidy
    PROVE  HandleInv'
<1>1. next \in Nat \ {0} /\ gen' = gen /\ next' \in {next, next + 1} /\ \A r \in chain : r[1] < next
  BY DEF Tidy, Fewer, Grows, TypeOK
<1>2. \A r, q \in chain' : r[1] = q[1] => r = q
  <2>1. CASE Fewer
    BY <2>1 DEF Fewer, HandleInv
  <2>2. ASSUME NEW s \in Sessions, NEW u \in Tags(s), Grows(s, u)
        PROVE  \A r, q \in chain' : r[1] = q[1] => r = q
    <3>1. chain' = chain \cup {<<next, u>>} /\ <<next, u>>[1] = next
      BY <2>2 DEF Grows
    <3>2. \A r \in chain : r[1] # next
      BY <1>1 DEF TypeOK
    <3> QED BY <3>1, <3>2 DEF HandleInv
  <2> QED BY <2>1, <2>2 DEF Tidy
<1>3. ~exists' => chain' = {}
  BY DEF Tidy, Fewer, Grows, HandleInv
<1>4. ASSUME NEW p \in Procs, Runs(p, "delete")', job'[p].gen = gen', NEW h \in job'[p].todo
      PROVE  h < next' /\ \A r \in chain' : r[1] = h => r[2] \in Tags(Owner(p))'
  <2>1. ASSUME h < next, \A r \in chain : r[1] = h => r[2] \in Tags(Owner(p)), h \in Nat
        PROVE  h < next' /\ \A r \in chain' : r[1] = h => r[2] \in Tags(Owner(p))'
    <3>1. h < next' /\ h # next
      BY <1>1, <2>1
    <3>2. \A r \in chain' : r \in chain \/ r[1] = next
      BY DEF Tidy, Fewer, Grows
    <3> QED BY <2>1, <3>1, <3>2, SameTags
  <2>2. job'[p] \in Jobs /\ h \in Nat
    <3>1. JobInv' /\ Len(Dirs)' = Len(Dirs)
      BY TidyTypes DEF Dirs
    <3> QED BY <1>4, <3>1 DEF JobInv, Jobs
  <2>3. CASE Runs(p, "delete") /\ job[p].gen = gen /\ h \in job[p].todo
    BY <2>1, <2>2, <2>3 DEF HandleInv
  <2>4. CASE job' = job
    BY <1>1, <1>4, <2>3, <2>4 DEF Runs
  <2>5. ASSUME NEW q \in Procs, NEW j \in Jobs, Moves(q, j), OwnTodo(q, j)
        PROVE  \/ Runs(p, "delete") /\ job[p].gen = gen /\ h \in job[p].todo
               \/ \E r \in Rules(Owner(p)) : r[1] = h
    <3>1. job'[q] = j /\ \A d \in Procs \ {q} : job'[d] = job[d]
      BY <2>5 DEF Moves, JobInv
    <3>2. CASE p = q
      BY <1>1, <1>4, <2>5, <3>1, <3>2 DEF OwnTodo, Runs
    <3>3. CASE p # q
      BY <1>1, <1>4, <3>1, <3>3 DEF Runs
    <3> QED BY <3>2, <3>3
  <2>6. ASSUME NEW r \in Rules(Owner(p)), r[1] = h
        PROVE  h < next /\ \A q \in chain : q[1] = h => q[2] \in Tags(Owner(p))
    BY <1>1, <2>6 DEF Rules, HandleInv
  <2> QED BY <2>1, <2>2, <2>3, <2>4, <2>5, <2>6 DEF Tidy
<1> QED BY <1>2, <1>3, <1>4 DEF HandleInv

(* A command is tidy.                                                      *)
LEMMA CommandTidy ==
    ASSUME TypeOK, JobInv, HandleInv, UNCHANGED cfg, NEW p \in Procs, Command(p)
    PROVE  Tidy
<1>1. Owner(p) \in Sessions
  BY DEF Procs, Owner
<1>2. PICK j \in Jobs : Moves(p, j)
  BY CommandMoves
<1>3. SessionsOK
  BY CommandMoves DEF Settles, SessionsOK, TypeOK
<1>4. OwnTodo(p, j)
  <2>1. job'[p] = j
    BY <1>2 DEF Moves, JobInv
  <2>2. \A a, n : Goto(p, a, n) /\ a # "delete" => j.at # "delete"
    BY <2>1 DEF Goto, Job, JobInv
  <2>3. \A err : Ends(p, err) => j.at # "delete"
    BY <2>2 DEF Ends
  <2>4. \A i : AfterRemove(p, i) => j.at # "delete"
    BY <2>2, <2>3 DEF AfterRemove
  <2>5. DeleteFails(p) => j.at # "delete"
    BY <2>2, <2>3 DEF DeleteFails
  <2>6. CASE List(p)
    <3>1. CASE job' = [job EXCEPT ![p] = [at |-> "delete", i |-> job[p].i,
                                          todo |-> Listed(p, job[p].i), gen |-> gen]]
      <4>1. j.todo = Listed(p, job[p].i)
        BY <2>1, <3>1 DEF JobInv
      <4>2. UNCHANGED ruleset
        BY <2>6 DEF List
      <4> QED BY <4>1, <4>2 DEF OwnTodo, Listed
    <3> QED BY <2>4, <2>6, <3>1 DEF List, OwnTodo
  <2>7. CASE Delete(p)
    <3>0. PICK h : DeleteRule(p, h)
      BY <2>7 DEF Delete
    <3>1. CASE job' = [job EXCEPT ![p].todo = job[p].todo \ {h}]
      <4>1. j.gen = job[p].gen /\ j.todo = job[p].todo \ {h}
        BY <2>1, <3>1 DEF JobInv
      <4> QED BY <3>0, <4>1 DEF OwnTodo, DeleteRule
    <3> QED BY <2>4, <3>0, <3>1 DEF DeleteRule, OwnTodo
  <2>8. CASE DeleteGone(p) \/ EnsureTable(p) \/ AddRule(p) \/ AddToNothing(p)
    BY <2>2, <2>3, <2>5, <2>8 DEF DeleteGone, EnsureTable, AddRule, AddToNothing, OwnTodo
  <2>9. CASE CommandFails(p)
    BY <2>2, <2>3, <2>4, <2>5, <2>9 DEF CommandFails, OwnTodo
  <2> QED BY <2>6, <2>7, <2>8, <2>9 DEF Command
<1>5. exists' \in BOOLEAN /\ (~exists => chain' = chain)
  <2>1. Fewer => (~exists => chain' = chain)
    BY DEF Fewer, HandleInv
  <2>2. exists' \in BOOLEAN /\ exists \in BOOLEAN
    BY CommandRules DEF Command, List, Delete, DeleteRule, DeleteGone, EnsureTable, AddRule,
       AddToNothing, CommandFails, ruleset, TypeOK
  <2> QED BY <2>1, <2>2, CommandRules DEF Grows
<1> QED BY <1>1, <1>2, <1>3, <1>4, <1>5, CommandRules DEF Tidy

-----------------------------------------------------------------------------
(* Every step is of one session, apart from the others.                    *)

Basic == TypeOK /\ JobInv /\ HandleInv

(* Nothing of s's own changes.                                             *)
Same(s) == /\ stage'[s] = stage[s] /\ removal'[s] = removal[s] /\ mon'[s] = mon[s]
           /\ s \in mssCancel' <=> s \in mssCancel
           /\ \A k \in {"est", "mon", "rem"} : job'[<<k, s>>] = job[<<k, s>>]

(* A step of o's own: the others only notice what happens to the table.    *)
StepOf(o) == Tidy /\ \A s \in Sessions \ {o} : Same(s) /\ Apart(s)

(* A command is a step of its owner's.                                     *)
LEMMA CommandStep ==
    ASSUME Basic, UNCHANGED cfg, NEW p \in Procs, Command(p)
    PROVE  StepOf(Owner(p))
<1> USE DEF Basic
<1>1. PICK j \in Jobs : Moves(p, j)
  BY CommandMoves
<1>2. Settles(p)
  BY CommandMoves
<1>3. ASSUME NEW s \in Sessions \ {Owner(p)} PROVE Same(s)
  <2>1. \A k \in {"est", "mon", "rem"} : <<k, s>> \in Procs /\ <<k, s>> # p
    BY DEF Procs, Owner
  <2> QED BY <1>1, <1>2, <2>1 DEF Same, Settles, Moves, JobInv
<1> QED BY <1>3, CommandTidy, CommandRules DEF StepOf

(* The start or the continuation of a listing or of Present.               *)
LEMMA GotoOne ==
    ASSUME Basic, NEW p \in Procs, NEW a \in {"list", "present"}, NEW n \in 1..Len(Dirs), Goto(p, a, n),
           a = "present" => Role(p) = "mon"
    PROVE  /\ Moves(p, Job(a, n)) /\ OwnTodo(p, Job(a, n)) /\ Job(a, n) \in Jobs
           /\ job'[p] = Job(a, n) /\ \A q \in Procs \ {p} : job'[q] = job[q]
<1>1. Len(Dirs) \in Nat /\ n \in 0..Len(Dirs) /\ n >= 1 /\ a \in Steps \ {"delete"}
  BY DirsFacts DEF Basic, TypeOK, Steps
<1>2. Moves(p, Job(a, n))
  BY <1>1, GotoMoves DEF Basic
<1> QED BY <1>2 DEF Moves, OwnTodo, Job, Basic, JobInv

(* The steps that leave the table alone.                                   *)
LEMMA CalmStep ==
    ASSUME Basic, UNCHANGED <<cfg, ruleset>>, NEW o \in Sessions, SessionsOK, HistoryOK,
           reloads' = reloads, failures' \in 0..MaxFailures,
           job' = job \/ \E k \in {"est", "mon", "rem"} : \E j \in Jobs : Moves(<<k, o>>, j) /\ OwnTodo(<<k, o>>, j),
           \A s \in Sessions \ {o} :
              /\ stage'[s] = stage[s] /\ removal'[s] = removal[s] /\ mon'[s] = mon[s]
              /\ s \in mssCancel' <=> s \in mssCancel
              /\ s \in event => s \in event'
    PROVE  StepOf(o)
<1>1. \A k \in {"est", "mon", "rem"}, s \in Sessions : <<k, s>> \in Procs
  BY DEF Procs
<1>2. ASSUME NEW s \in Sessions \ {o} PROVE Same(s) /\ Apart(s)
  <2>1. Rules(s)' = Rules(s) /\ exists' = exists
    BY SameTags DEF Rules, ruleset
  <2>2. \A k \in {"est", "mon", "rem"} : job'[<<k, s>>] = job[<<k, s>>]
    BY <1>1 DEF Moves, Basic, JobInv
  <2> QED BY <2>1, <2>2 DEF Same, Apart, HistoryOK
<1>3. Fewer /\ exists' \in BOOLEAN /\ chain' = chain
  BY DEF Fewer, ruleset, Basic, TypeOK
<1> QED BY <1>1, <1>2, <1>3 DEF StepOf, Tidy

(* So are the steps of Establish, removeAndNotify and MonitorLoop that run *)
(* no command,                                                             *)
LEMMA ManagerStep ==
    ASSUME Basic, UNCHANGED cfg, NEW o \in Sessions,
           Apply(o) \/ StartMonitor(o) \/ RemoveBegins(o) \/ Subscribe(o) \/ Wake(o) \/ Present(o)
    PROVE  StepOf(o)
<1>1. Len(Dirs) \in Nat \ {0} /\ 1 \in 1..Len(Dirs)
  BY DirsFacts DEF Basic, TypeOK
<1>2. \A k \in {"est", "mon", "rem"} : <<k, o>> \in Procs /\ Role(<<k, o>>) = k
  BY DEF Procs, Role
<1>3. SessionsOK
  BY DEF SessionsOK, Basic, TypeOK, Monitors, session, Apply, StartMonitor, RemoveBegins,
         Subscribe, Wake, Present
<1>4. HistoryOK
  <2>1. excuse' = excuse \/ \E w \in Excuses : Blame({o}, w)
    BY DEF Apply, StartMonitor, RemoveBegins, Subscribe, Wake, Present, Excuses
  <2>2. event' \subseteq event
    BY DEF Apply, StartMonitor, RemoveBegins, Subscribe, Wake, Present
  <2> QED BY <2>1, <2>2 DEF HistoryOK, Blame, Excuses, Basic, TypeOK
<1>5. UNCHANGED <<cfg, ruleset, reloads>> /\ failures' \in 0..MaxFailures
  BY ClampAssumption DEF Apply, StartMonitor, RemoveBegins, Subscribe, Wake, Present, world, Basic, TypeOK
<1>6. job' = job \/ \E k \in {"est", "mon", "rem"} : \E j \in Jobs :
                        Moves(<<k, o>>, j) /\ OwnTodo(<<k, o>>, j)
  <2>1. CASE Apply(o)
    BY <1>1, <1>2, <2>1, GotoOne DEF Apply
  <2>2. CASE StartMonitor(o) \/ Subscribe(o)
    BY <2>2 DEF StartMonitor, Subscribe
  <2>3. CASE RemoveBegins(o)
    BY <1>1, <1>2, <2>3, GotoOne DEF RemoveBegins
  <2>4. CASE Wake(o)
    BY <1>1, <1>2, <2>4, GotoOne DEF Wake
  <2>5. CASE Present(o)
    <3> DEFINE p == <<"mon", o>>
    <3>1. CASE Goto(p, "idle", 0)
      <4>1. Moves(p, Job("idle", 0))
        BY <1>1, <1>2, <3>1, GotoMoves DEF Steps, Basic
      <4> QED BY <1>2, <4>1 DEF Moves, OwnTodo, Job
    <3>2. CASE Goto(p, "list", 1)
      BY <1>1, <1>2, <3>2, GotoOne
    <3>3. CASE job[p].i < Len(Dirs) /\ Goto(p, "present", job[p].i + 1)
      <4>1. job[p].i + 1 \in 1..Len(Dirs)
        BY <1>1, <1>2, <3>3 DEF Basic, TypeOK
      <4> QED BY <1>2, <3>3, <4>1, GotoOne
    <3> QED BY <2>5, <3>1, <3>2, <3>3 DEF Present
  <2> QED BY <2>1, <2>2, <2>3, <2>4, <2>5
<1>7. ASSUME NEW s \in Sessions \ {o}
      PROVE  /\ stage'[s] = stage[s] /\ removal'[s] = removal[s] /\ mon'[s] = mon[s]
             /\ s \in mssCancel' <=> s \in mssCancel
             /\ s \in event => s \in event'
  BY DEF Apply, StartMonitor, RemoveBegins, Subscribe, Wake, Present, session, Basic, TypeOK
<1> QED BY <1>3, <1>4, <1>5, <1>6, <1>7, CalmStep

(* and the last command of a cancelled monitor.                            *)
LEMMA LateStep ==
    ASSUME Basic, UNCHANGED cfg, NEW o \in Sessions, LateCommand(o)
    PROVE  StepOf(o)
<1> DEFINE p == <<"mon", o>>
<1>1. p \in Procs /\ Role(p) = "mon" /\ Owner(p) = o /\ Len(Dirs) \in Nat \ {0}
  BY DirsFacts DEF Procs, Role, Owner, Basic, TypeOK
<1>2. Moves(p, Job("idle", 0)) /\ OwnTodo(p, Job("idle", 0)) /\ Job("idle", 0) \in Jobs
  <2>1. Moves(p, Job("idle", 0))
    BY <1>1, GotoMoves DEF LateCommand, Steps, Basic
  <2> QED BY <2>1 DEF Moves, OwnTodo, Job
<1>3. SessionsOK /\ UNCHANGED <<gen, reloads, failures, stage, removal, mssCancel>>
      /\ mon' = [mon EXCEPT ![o] = "off"]
  BY DEF LateCommand, SessionsOK, Basic, TypeOK, Monitors, world
<1>4. ASSUME NEW s \in Sessions \ {o} PROVE Same(s)
  <2>1. \A k \in {"est", "mon", "rem"} : <<k, s>> \in Procs /\ <<k, s>> # p
    BY DEF Procs
  <2> QED BY <1>2, <1>3, <2>1 DEF Same, Moves, Basic, TypeOK, JobInv
<1> SUFFICES /\ HistoryOK /\ \A s \in Sessions \ {o} : Apart(s)
             /\ Fewer \/ \E u \in Tags(o) : Grows(o, u)
             /\ exists' \in BOOLEAN /\ (~exists => chain' = chain)
  BY <1>1, <1>2, <1>3, <1>4 DEF StepOf, Tidy, Basic, TypeOK
<1>5. ASSUME UNCHANGED <<chain, next>>, exists' \in BOOLEAN, exists => exists',
             UNCHANGED excuse, event' = event \/ Notify, exists' # exists => Notify
      PROVE  /\ HistoryOK /\ \A s \in Sessions \ {o} : Apart(s)
             /\ Fewer /\ exists' \in BOOLEAN /\ (~exists => chain' = chain)
  BY <1>3, <1>5, SameTags DEF HistoryOK, Notify, Apart, Rules, Fewer, Excuses, Basic, TypeOK
<1>6. ASSUME NEW h, Shrink({r \in chain : r[1] # h}, Sessions, {"robbed"}), UNCHANGED <<exists, next>>
      PROVE  /\ HistoryOK /\ \A s \in Sessions : Apart(s)
             /\ Fewer /\ exists' \in BOOLEAN /\ (~exists => chain' = chain)
  <2>1. HistoryOK /\ \A s \in Sessions : Apart(s)
    BY <1>6, ShrinkHistory DEF Basic
  <2>2. Fewer /\ exists' \in BOOLEAN /\ (~exists => chain' = chain)
    BY <1>3, <1>6 DEF Fewer, Shrink, Basic, TypeOK, HandleInv
  <2> QED BY <2>1, <2>2
<1>7. CASE exists' = TRUE /\ Notify /\ UNCHANGED <<chain, next, excuse>>
  BY <1>5, <1>7
<1>8. ASSUME exists, next' = next + 1, Notify, UNCHANGED <<exists, excuse>>, NEW v \in {"v4", "v6"},
             Runs(p, v), chain' = chain \cup {<<next, marker(o, Dirs[job[p].i], v)>>}
      PROVE  /\ HistoryOK /\ \A s \in Sessions \ {o} : Apart(s)
             /\ \E u \in Tags(o) : Grows(o, u)
             /\ exists' \in BOOLEAN /\ (~exists => chain' = chain)
  <2> DEFINE u == marker(o, Dirs[job[p].i], v)
  <2>1. u \in Tags(o)
    <3>1. job[p].i \in 1..Len(Dirs)
      BY <1>1, <1>8 DEF Basic, JobInv, TypeOK, Runs
    <3> QED BY <3>1, TagsFacts DEF Basic, TypeOK
  <2>2. HistoryOK /\ event \subseteq event'
    BY <1>8 DEF HistoryOK, Notify, Basic, TypeOK, Excuses
  <2>3. ASSUME NEW s \in Sessions \ {o} PROVE Apart(s)
    <3>1. u \notin Tags(s)
      BY <2>1, OtherTags DEF Basic, TypeOK
    <3>2. Rules(s)' = Rules(s)
      BY <1>8, <3>1, SameTags DEF Rules
    <3> QED BY <1>8, <2>2, <3>2 DEF Apart
  <2> HIDE DEF u
  <2> QED BY <1>3, <1>8, <2>1, <2>2, <2>3 DEF Grows, u
<1>9. CASE UNCHANGED <<chain, exists, next, event, excuse>>
  BY <1>5, <1>9 DEF Basic, TypeOK
<1> QED BY <1>6, <1>7, <1>8, <1>9 DEF LateCommand, Fewer

-----------------------------------------------------------------------------
(* The others keep what is said of them.                                   *)

(* A session has all its rules when it has those of every direction.       *)
LEMMA CompleteUpto ==
    ASSUME cfg \in Setups, NEW s
    PROVE  Complete(s) <=> Upto(s, Len(Dirs) + 1)
<1>1. Len(Dirs) \in Nat /\ (Len(Dirs) + 1) - 1 = Len(Dirs)
  BY DirsFacts
<1>2. Complete(s) <=> \A u \in Tags(s) : Has(u)
  BY DEF Complete, Has
<1>3. Upto(s, Len(Dirs) + 1) <=> \A i \in 1..Len(Dirs), v \in {"v4", "v6"} : Has(marker(s, Dirs[i], v))
  BY <1>1 DEF Upto
<1>4. ASSUME \A u \in Tags(s) : Has(u), NEW i \in 1..Len(Dirs), NEW v \in {"v4", "v6"}
      PROVE  Has(marker(s, Dirs[i], v))
  <2>1. marker(s, Dirs[i], v) \in Tags(s)
    BY TagsFacts
  <2> QED BY <1>4, <2>1
<1>5. ASSUME \A i \in 1..Len(Dirs), v \in {"v4", "v6"} : Has(marker(s, Dirs[i], v)), NEW u \in Tags(s)
      PROVE  Has(u)
  BY <1>5, TagsFacts
<1> QED BY <1>2, <1>3, <1>4, <1>5

(* Has, Upto and Complete look only at the rules of s.                     *)
LEMMA KeepTags ==
    ASSUME cfg \in Setups, UNCHANGED cfg, NEW s, Rules(s) \subseteq Rules(s)'
    PROVE  /\ \A u \in Tags(s) : Has(u) => Has(u)'
           /\ Complete(s) => Complete(s)'
           /\ \A i \in 1..(Len(Dirs) + 1) : Upto(s, i) => Upto(s, i)'
<1>1. \A u \in Tags(s) : Has(u) => Has(u)'
  BY SameTags DEF Has, Rules
<1>2. Complete(s) => Complete(s)'
  BY <1>1, SameTags DEF Complete, Has
<1>3. ASSUME NEW i \in 1..(Len(Dirs) + 1), Upto(s, i) PROVE Upto(s, i)'
  <2>1. \A j \in 1..(i - 1) : j \in 1..Len(Dirs)
    BY DirsFacts
  <2>2. \A j \in 1..(i - 1), v \in {"v4", "v6"} : marker(s, Dirs[j], v) \in Tags(s)
    BY <2>1, TagsFacts
  <2>3. Dirs' = Dirs /\ \A d, v : marker(s, d, v)' = marker(s, d, v)
    BY DEF Dirs, marker
  <2> QED BY <1>1, <1>3, <2>2, <2>3 DEF Upto
<1> QED BY <1>1, <1>2, <1>3

(* What an Apply has installed stays, if the session loses no rule.        *)
LEMMA ProgressKept ==
    ASSUME Basic, UNCHANGED cfg, NEW p \in Procs, job'[p] = job[p],
           Rules(Owner(p)) \subseteq Rules(Owner(p))', Progress(p)
    PROVE  Progress(p)'
<1> DEFINE s == Owner(p)  i == job[p].i
<1>1. Len(Dirs) \in Nat /\ Dirs' = Dirs /\ cfg \in Setups
  BY DirsFacts DEF Basic, TypeOK, Dirs
<1>2. job[p].at # "idle" => i \in 1..Len(Dirs) /\ i \in 1..(Len(Dirs) + 1)
  BY <1>1 DEF Basic, TypeOK, JobInv
<1>3. Runs(p, "v6") => marker(s, Dirs[i], "v4") \in Tags(s)
  BY <1>1, <1>2, TagsFacts DEF Runs
<1>4. /\ \A u \in Tags(s) : Has(u) => Has(u)'
      /\ Complete(s) => Complete(s)'
      /\ \A n \in 1..(Len(Dirs) + 1) : Upto(s, n) => Upto(s, n)'
  BY <1>1, KeepTags
<1>5. Runs(p, "idle")' => Complete(s)'
  BY <1>4, Zenon DEF Progress, Runs
<1>6. job'[p].at \in {"present", "ensure", "v4", "v6"} => Upto(s, i)'
  BY <1>2, <1>4 DEF Progress
<1>7. Runs(p, "v6")' => Has(marker(s, Dirs[i], "v4"))'
  <2> DEFINE u == marker(s, Dirs[i], "v4")
  <2>1. u' = u
    BY <1>1 DEF marker
  <2>2. Runs(p, "v6")' => u \in Tags(s) /\ Has(u)
    BY <1>3 DEF Progress, Runs
  <2>3. Runs(p, "v6")' => \E r \in chain' : r[2] = u
    BY <1>4, <2>2 DEF Has
  <2> QED BY <2>1, <2>3 DEF Has
<1> QED BY <1>1, <1>5, <1>6, <1>7 DEF Progress

(* A session that a step is no concern of keeps what is said of it.        *)
LEMMA ApartKeeps ==
    ASSUME Basic, UNCHANGED cfg, NEW s \in Sessions, Same(s), Apart(s)
    PROVE  /\ StageOf(s) => StageOf(s)'
           /\ StageOf(s) /\ WatchOf(s) => WatchOf(s)'
           /\ RemovalOf(s) => RemovalOf(s)'
<1>1. \A k \in {"est", "mon", "rem"} :
         /\ <<k, s>> \in Procs /\ Owner(<<k, s>>) = s /\ job'[<<k, s>>] = job[<<k, s>>]
         /\ \A a : Runs(<<k, s>>, a)' <=> Runs(<<k, s>>, a)
  BY DEF Procs, Owner, Same, Runs
<1>2. cfg \in Setups
  BY DEF Basic, TypeOK
<1>3. StageOf(s) => StageOf(s)'
  BY <1>1 DEF StageOf, Same, Apart
<1>4. StageOf(s) /\ WatchOf(s) => WatchOf(s)'
  <2> SUFFICES ASSUME StageOf(s), WatchOf(s), excuse'[s] \cap {"unrepaired", "overtaken", "unseen"} = {}
               PROVE  /\ stage'[s] = "applying" => Progress(<<"est", s>>)'
                      /\ stage'[s] = "applied" \/ mon'[s] = "starting" => Complete(s)'
                      /\ mon'[s] = "watching" /\ s \notin event' /\ exists' => Progress(<<"mon", s>>)'
    BY DEF WatchOf
  <2>1. excuse[s] \cap {"unrepaired", "overtaken", "unseen"} = {} /\ "unseen" \notin excuse'[s]
    BY DEF Apart
  <2>2. CASE Rules(s)' = Rules(s)
    <3>1. ASSUME NEW k \in {"est", "mon"}, Progress(<<k, s>>) PROVE Progress(<<k, s>>)'
      BY <1>1, <2>2, <3>1, ProgressKept
    <3>2. Complete(s) => Complete(s)'
      BY <1>2, <2>2, KeepTags
    <3>3. mon'[s] = "watching" /\ s \notin event' /\ exists' => mon[s] = "watching" /\ s \notin event /\ exists
      BY DEF Apart, Same, Basic, TypeOK
    <3>4. /\ stage[s] = "applying" => Progress(<<"est", s>>)
          /\ stage[s] = "applied" \/ mon[s] = "starting" => Complete(s)
          /\ mon[s] = "watching" /\ s \notin event /\ exists => Progress(<<"mon", s>>)
      BY <2>1 DEF WatchOf
    <3>5. stage'[s] = stage[s] /\ mon'[s] = mon[s]
      BY DEF Same
    <3> QED BY <3>1, <3>2, <3>3, <3>4, <3>5
  <2>3. CASE Rules(s)' # Rules(s)
    <3>1. mon[s] = "watching" /\ s \in event'
      BY <2>1, <2>3 DEF Apart
    <3>2. stage[s] = "up"
      BY <3>1 DEF StageOf
    <3> QED BY <3>1, <3>2 DEF Same
  <2> QED BY <2>2, <2>3
<1>5. RemovalOf(s) => RemovalOf(s)'
  <2> DEFINE p == <<"rem", s>>
  <2> SUFFICES ASSUME RemovalOf(s), removal'[s] # "none",
                      excuse'[s] \cap {"unremoved", "overtaken", "robbed"} = {}
               PROVE  /\ Few(s, Passed(s))'
                      /\ Runs(p, "delete")' =>
                            \/ \A h \in job'[p].todo : \E r \in Rules(s)' : r[1] = h
                            \/ Few(s, Rules(s))'
    BY DEF RemovalOf
  <2>1. /\ Few(s, Passed(s))
        /\ Runs(p, "delete") => \/ \A h \in job[p].todo : \E r \in Rules(s) : r[1] = h
                                \/ Few(s, Rules(s))
    BY DEF RemovalOf, Apart, Same
  <2>2. Dirs' = Dirs
    BY DEF Dirs
  <2>3. Passed(s)' \subseteq Passed(s)
    BY <1>1, <2>2 DEF Passed, Apart
  <2>4. \A R, Q : Few(s, R) /\ Q \subseteq R =>
          (\A r, q \in Q : r = q) /\ (Q # {} => "late" \in excuse'[s] /\ mon'[s] # "late")
    BY DEF Few, Apart, Same
  <2>5. Few(s, Passed(s))'
    BY <2>1, <2>3, <2>4 DEF Few
  <2>6. Few(s, Rules(s)) => Few(s, Rules(s))'
    BY <2>4 DEF Few, Apart
  <2>7. Rules(s)' = {} => Few(s, Rules(s))'
    BY DEF Few
  <2>8. Rules(s)' = Rules(s) \/ Rules(s)' = {}
    BY DEF Apart
  <2> QED BY <1>1, <2>1, <2>5, <2>6, <2>7, <2>8
<1> QED BY <1>3, <1>4, <1>5

(* The administrator's changes.                                            *)
LEMMA ReloadStep ==
    ASSUME Basic, UNCHANGED cfg, Reload
    PROVE  Basic' /\ \A s \in Sessions : Same(s) /\ Apart(s)
<1>1. chain' = {} /\ exists' \in BOOLEAN /\ Notify /\ UNCHANGED <<job, stage, removal, mon, mssCancel, failures>>
  BY DEF Reload, Shrink, session, Basic, TypeOK
<1>2. \/ next' = next /\ gen' = gen
      \/ next' = 1 /\ gen' = gen + 1
  BY DEF Reload
<1>3. reloads' \in 0..cfg.maxReloads
  BY DirsFacts DEF Reload, Basic, TypeOK
<1>4. excuse' \in [Sessions -> SUBSET Excuses] /\ event' \subseteq Sessions /\ event \subseteq event'
      /\ \A s \in Sessions : excuse[s] \subseteq excuse'[s]
  BY DEF Reload, Shrink, Notify, Excuses, Basic, TypeOK
<1>5. \A p \in Procs : job[p].gen \in 0..gen /\ gen \in Nat /\ next \in Nat \ {0}
  BY DEF Basic, TypeOK
<1>6. Dirs' = Dirs
  BY DEF Dirs
<1>7. TypeOK'
  <2>1. next' \in Nat \ {0} /\ gen' \in Nat /\ \A p \in Procs : job[p].gen \in 0..gen'
    <3>1. next \in Nat \ {0} /\ gen \in Nat
      BY DEF Basic, TypeOK
    <3> QED BY <1>2, <1>5, <3>1
  <2> QED BY <1>1, <1>3, <1>4, <1>6, <2>1 DEF Basic, TypeOK, Excuses
<1>8. JobInv'
  BY <1>1, <1>6 DEF Basic, JobInv
<1>9. HandleInv'
  <2>1. ASSUME NEW p \in Procs, Runs(p, "delete")', job'[p].gen = gen', NEW h \in job'[p].todo
        PROVE  h < next'
    <3>1. next' = next /\ gen' = gen
      BY <1>1, <1>2, <1>5, <2>1
    <3> QED BY <1>1, <2>1, <3>1 DEF Basic, HandleInv, Runs
  <2> QED BY <1>1, <2>1 DEF HandleInv
<1>10. ASSUME NEW s \in Sessions PROVE Apart(s)
  <2>1. Rules(s)' = {}
    BY <1>1 DEF Rules
  <2>2. Rules(s) # {} =>
          excuse'[s] = excuse[s] \cup (IF mon[s] = "watching" THEN {} ELSE {"unseen"})
    BY DEF Reload, Shrink, Rules
  <2>3. mon[s] = "watching" => s \in event'
    BY <1>1 DEF Notify
  <2> QED BY <1>4, <2>1, <2>2, <2>3 DEF Apart
<1> QED BY <1>1, <1>7, <1>8, <1>9, <1>10 DEF Basic, Same

-----------------------------------------------------------------------------
(* The session whose step it is: where its goroutines are, ...             *)

(* What Goto says of the job.                                              *)
LEMMA GotoIs ==
    ASSUME Basic, NEW p \in Procs
    PROVE  \A a, n : Goto(p, a, n) => job'[p] = Job(a, n) /\ job'[p].at = a /\ job'[p].i = n
BY DEF Basic, JobInv, Goto, Job

(* A command ends the job it belongs to, or the session's state is as it   *)
(* was.                                                                    *)
LEMMA CommandEnds ==
    ASSUME Basic, NEW p \in Procs, Command(p)
    PROVE  /\ ~Runs(p, "idle")
           /\ \/ ~Runs(p, "idle")' /\ UNCHANGED session
              \/ Runs(p, "idle")' /\ \E err \in BOOLEAN : Ends(p, err)
<1> DEFINE Goal == \/ ~Runs(p, "idle")' /\ UNCHANGED session
                   \/ Runs(p, "idle")' /\ \E err \in BOOLEAN : Ends(p, err)
<1>1. \A n : \A a \in Steps \ {"idle"} : Goto(p, a, n) /\ UNCHANGED session => Goal
  BY GotoIs DEF Runs
<1>2. \A err \in BOOLEAN : Ends(p, err) => Goal
  BY GotoIs DEF Runs, Ends
<1>3. \A i : AfterRemove(p, i) => Goal
  BY <1>1, <1>2 DEF AfterRemove, Steps
<1>4. DeleteFails(p) => Goal
  BY <1>1, <1>2 DEF DeleteFails, Steps
<1>5. CASE List(p)
  <2>1. CASE job' = [job EXCEPT ![p] = [at |-> "delete", i |-> job[p].i,
                                        todo |-> Listed(p, job[p].i), gen |-> gen]]
             /\ UNCHANGED session
    <3>1. job'[p].at = "delete"
      BY <2>1 DEF Basic, JobInv
    <3> QED BY <1>5, <2>1, <3>1 DEF Runs, List
  <2> QED BY <1>3, <1>5, <2>1 DEF List, Runs
<1>6. CASE Delete(p)
  <2>0. PICK h : DeleteRule(p, h)
    BY <1>6 DEF Delete
  <2>1. CASE job' = [job EXCEPT ![p].todo = job[p].todo \ {h}] /\ UNCHANGED session
    <3>1. job'[p].at = "delete"
      BY <2>0, <2>1 DEF DeleteRule, Runs, Basic, JobInv
    <3> QED BY <2>0, <2>1, <3>1 DEF DeleteRule, Runs
  <2> QED BY <1>3, <2>0, <2>1 DEF DeleteRule, Runs
<1>7. CASE DeleteGone(p) \/ EnsureTable(p) \/ AddToNothing(p)
  BY <1>1, <1>2, <1>4, <1>7 DEF DeleteGone, EnsureTable, AddToNothing, Runs, Steps
<1>8. CASE AddRule(p)
  BY <1>1, <1>2, <1>8 DEF AddRule, Runs, Steps
<1>9. CASE CommandFails(p)
  BY <1>1, <1>2, <1>3, <1>4, <1>9 DEF CommandFails, Runs, Steps, Installing
<1> QED BY <1>5, <1>6, <1>7, <1>8, <1>9 DEF Command

(* A command's owner keeps StageOf,                                        *)
LEMMA CommandStage ==
    ASSUME Basic, UNCHANGED cfg, NEW k \in {"est", "mon", "rem"}, NEW s \in Sessions,
           Command(<<k, s>>), StageOf(s), k = "mon" => mon[s] = "watching"
    PROVE  StageOf(s)'
<1> DEFINE p == <<k, s>>
<1>1. p \in Procs /\ Role(p) = k /\ Owner(p) = s
  BY DEF Procs, Role, Owner
<1>2. \A l \in {"est", "mon", "rem"} : l # k => \A a : Runs(<<l, s>>, a)' <=> Runs(<<l, s>>, a)
  <2>1. PICK j \in Jobs : Moves(p, j)
    BY <1>1, CommandMoves DEF Basic
  <2>2. \A l \in {"est", "mon", "rem"} : <<l, s>> \in Procs /\ (l # k => <<l, s>> # p)
    BY DEF Procs
  <2> QED BY <2>1, <2>2 DEF Moves, Runs, Basic, JobInv
<1>3. excuse[s] \subseteq excuse'[s]
  BY <1>1, CommandRules DEF Basic, HistoryOK
<1>4. ~Runs(p, "idle") /\ mon' = mon /\ mssCancel' = mssCancel
  BY <1>1, CommandEnds, CommandMoves DEF Settles, Basic
<1>5. CASE ~Runs(p, "idle")' /\ UNCHANGED session
  <2>1. \A l \in {"est", "mon", "rem"} : Runs(<<l, s>>, "idle")' <=> Runs(<<l, s>>, "idle")
    BY <1>2, <1>4, <1>5
  <2> QED BY <1>3, <1>5, <2>1 DEF StageOf, session
<1>6. ASSUME Runs(p, "idle")', NEW err \in BOOLEAN, Ends(p, err) PROVE StageOf(s)'
  <2>1. /\ k = "est" => stage'[s] \in {"applied", "failed"}
        /\ k # "est" => stage' = stage
        /\ k = "rem" => removal'[s] = "done"
        /\ k # "rem" => removal' = removal
    BY <1>1, <1>6, Endings DEF Basic, TypeOK
  <2>2. CASE k = "est"
    BY <1>2, <1>3, <1>4, <1>6, <2>1, <2>2 DEF StageOf
  <2>3. CASE k = "mon"
    BY <1>2, <1>3, <1>4, <1>6, <2>1, <2>3 DEF StageOf
  <2>4. CASE k = "rem"
    BY <1>2, <1>3, <1>4, <1>6, <2>1, <2>4 DEF StageOf
  <2> QED BY <2>2, <2>3, <2>4
<1> QED BY <1>1, <1>5, <1>6, CommandEnds

(* and so it does in every other step of its own.                          *)
LEMMA ManagerStage ==
    ASSUME Basic, UNCHANGED cfg, NEW s \in Sessions, StageOf(s),
           \/ Apply(s) \/ StartMonitor(s) \/ RemoveBegins(s) \/ Subscribe(s) \/ Wake(s)
           \/ Present(s) \/ LateCommand(s)
    PROVE  StageOf(s)'
<1>1. \A l \in {"est", "mon", "rem"} : <<l, s>> \in Procs
  BY DEF Procs
<1>2. \A a, n : \A k, l \in {"est", "mon", "rem"} : Goto(<<k, s>>, a, n) =>
         \A b : Runs(<<l, s>>, b)' <=> (IF l = k THEN b = a ELSE Runs(<<l, s>>, b))
  <2> SUFFICES ASSUME NEW k \in {"est", "mon", "rem"}, NEW l \in {"est", "mon", "rem"}, NEW a, NEW n,
                      Goto(<<k, s>>, a, n), NEW b
               PROVE  Runs(<<l, s>>, b)' <=> (IF l = k THEN b = a ELSE Runs(<<l, s>>, b))
    OBVIOUS
  <2>1. job'[<<k, s>>].at = a
    BY <1>1, GotoIs
  <2>2. l # k => job'[<<l, s>>] = job[<<l, s>>]
    BY <1>1 DEF Goto, Basic, JobInv
  <2> QED BY <2>1, <2>2 DEF Runs
<1>3. UNCHANGED job => \A b : \A l \in {"est", "mon", "rem"} : Runs(<<l, s>>, b)' <=> Runs(<<l, s>>, b)
  BY DEF Runs
<1> USE DEF StageOf
<1>4. CASE Apply(s)
  BY <1>2, <1>4 DEF Apply, Basic, TypeOK
<1>5. CASE StartMonitor(s)
  BY <1>3, <1>5 DEF StartMonitor, Basic, TypeOK
<1>6. CASE RemoveBegins(s)
  <2>1. /\ removal'[s] = "running" /\ Goto(<<"rem", s>>, "list", 1) /\ UNCHANGED <<stage, mssCancel>>
        /\ \/ s \notin mssCancel /\ excuse'[s] = excuse[s] \cup {"overtaken"} /\ UNCHANGED mon
           \/ s \in mssCancel /\ Runs(<<"mon", s>>, "idle") /\ mon'[s] = "off" /\ UNCHANGED excuse
           \/ s \in mssCancel /\ ~Runs(<<"mon", s>>, "idle") /\ mon'[s] = "late"
                /\ excuse'[s] = excuse[s] \cup {"late"}
    BY <1>6 DEF RemoveBegins, Blame, Runs, Basic, TypeOK
  <2>2. /\ ~Runs(<<"rem", s>>, "idle")'
        /\ Runs(<<"est", s>>, "idle")' <=> Runs(<<"est", s>>, "idle")
        /\ Runs(<<"mon", s>>, "idle")' <=> Runs(<<"mon", s>>, "idle")
    BY <1>2, <2>1
  <2>3. CASE s \notin mssCancel /\ excuse'[s] = excuse[s] \cup {"overtaken"} /\ UNCHANGED mon
    BY <2>1, <2>2, <2>3
  <2>4. CASE s \in mssCancel /\ Runs(<<"mon", s>>, "idle") /\ mon'[s] = "off" /\ UNCHANGED excuse
    BY <2>1, <2>2, <2>4
  <2>5. CASE s \in mssCancel /\ ~Runs(<<"mon", s>>, "idle") /\ mon'[s] = "late"
                /\ excuse'[s] = excuse[s] \cup {"late"}
    BY <2>1, <2>2, <2>5
  <2> QED BY <2>1, <2>3, <2>4, <2>5
<1>7. CASE Subscribe(s)
  BY <1>3, <1>7 DEF Subscribe, Basic, TypeOK
<1>8. CASE Wake(s)
  BY <1>2, <1>8 DEF Wake, session
<1>9. CASE Present(s)
  BY <1>2, <1>9 DEF Present, session
<1>10. CASE LateCommand(s)
  <2>1. /\ mon[s] = "late" /\ mon'[s] = "off" /\ Goto(<<"mon", s>>, "idle", 0)
        /\ UNCHANGED <<stage, removal, mssCancel>>
    BY <1>10 DEF LateCommand, Basic, TypeOK
  <2>2. excuse[s] \subseteq excuse'[s]
    BY <1>10, LateStep DEF StepOf, Tidy, HistoryOK
  <2> QED BY <1>2, <2>1, <2>2
<1> QED BY <1>4, <1>5, <1>6, <1>7, <1>8, <1>9, <1>10

-----------------------------------------------------------------------------
(* ... what an Apply has installed so far, ...                             *)

(* Nothing is claimed of a job that is about to list or to delete, or that *)
(* is at its first direction.                                              *)
LEMMA FreshProgress ==
    ASSUME NEW p, \/ job'[p].at \in {"list", "delete"}
                  \/ job'[p].at \in {"present", "ensure", "v4"} /\ job'[p].i = 1
    PROVE  Progress(p)'
<1>1. job'[p].i = 1 => Upto(Owner(p), job[p].i)'
  BY DEF Upto
<1> QED BY <1>1 DEF Progress, Runs

(* One direction more.                                                     *)
LEMMA UptoNext ==
    ASSUME NEW s, NEW i \in Nat \ {0}, Upto(s, i)', Has(marker(s, Dirs[i], "v4"))',
           Has(marker(s, Dirs[i], "v6"))'
    PROVE  Upto(s, i + 1)'
<1>1. 1..((i + 1) - 1) = 1..(i - 1) \cup {i}
  OBVIOUS
<1> QED BY <1>1 DEF Upto

(* A command of Apply, by Establish or the monitor, keeps Progress; else   *)
(* it ended with an error, and either there is no chain or the monitor has *)
(* its excuse.                                                             *)
LEMMA ProgressStep ==
    ASSUME Basic, UNCHANGED cfg, NEW p \in Procs, Role(p) # "rem", Command(p), Progress(p)
    PROVE  \/ Progress(p)'
           \/ Ends(p, TRUE) /\ (~exists' \/ (Role(p) = "mon" => "unrepaired" \in excuse'[Owner(p)]))
<1> DEFINE s == Owner(p)  i == job[p].i
<1>1. s \in Sessions /\ cfg \in Setups /\ Len(Dirs) \in Nat \ {0} /\ Dirs' = Dirs
  BY DirsFacts DEF Procs, Owner, Basic, TypeOK, Dirs
<1>2. \A a, n : Goto(p, a, n) => job'[p].at = a /\ job'[p].i = n
  BY GotoIs
<1>3. \A a \in {"ensure", "v4"} : Goto(p, a, 1) => Progress(p)'
  BY <1>2, FreshProgress
<1>4. \A n : AfterRemove(p, n) => Progress(p)'
  BY <1>2, <1>3, FreshProgress DEF AfterRemove
<1>5. DeleteFails(p) => Progress(p)'
  BY <1>3 DEF DeleteFails
<1>6. CASE List(p)
  <2>1. CASE job' = [job EXCEPT ![p] = [at |-> "delete", i |-> job[p].i,
                                        todo |-> Listed(p, job[p].i), gen |-> gen]]
    <3>1. job'[p].at = "delete"
      BY <2>1 DEF Basic, JobInv
    <3> QED BY <3>1, FreshProgress
  <2> QED BY <1>4, <1>6, <2>1 DEF List
<1>7. CASE Delete(p)
  <2>0. PICK h : DeleteRule(p, h)
    BY <1>7 DEF Delete
  <2>1. CASE job' = [job EXCEPT ![p].todo = job[p].todo \ {h}]
    <3>1. job'[p].at = "delete"
      BY <2>0, <2>1 DEF DeleteRule, Runs, Basic, JobInv
    <3> QED BY <3>1, FreshProgress
  <2> QED BY <1>4, <2>0, <2>1 DEF DeleteRule
<1>8. CASE DeleteGone(p)
  BY <1>5, <1>8 DEF DeleteGone
<1>9. CASE EnsureTable(p)
  <2>1. job'[p].at = "v4" /\ job'[p].i = i /\ chain' = chain /\ Upto(s, i)
    BY <1>2, <1>9 DEF EnsureTable, Runs, Progress
  <2>2. Upto(s, job[p].i)'
    BY <1>1, <2>1 DEF Upto, Has, marker
  <2> QED BY <2>1, <2>2 DEF Progress, Runs
<1>10. CASE AddRule(p)
  <2>1. PICK v \in {"v4", "v6"} :
           /\ Runs(p, v) /\ chain' = chain \cup {<<next, marker(s, Dirs[i], v)>>}
           /\ \/ v = "v4" /\ Goto(p, "v6", i)
              \/ /\ v = "v6" /\ i < Len(Dirs)
                 /\ \E a \in {"ensure", "v4"} : Goto(p, a, i + 1)
              \/ v = "v6" /\ i = Len(Dirs) /\ Goto(p, "idle", 0)
    BY <1>10 DEF AddRule, Ends
  <2>2. i \in 1..Len(Dirs) /\ i \in 1..(Len(Dirs) + 1) /\ i \in Nat \ {0}
    BY <1>1, <2>1 DEF Basic, TypeOK, JobInv, Runs
  <2>3. Rules(s) \subseteq Rules(s)'
    BY <2>1, SameTags DEF Rules
  <2>4. /\ \A n \in 1..(Len(Dirs) + 1) : Upto(s, n) => Upto(s, n)'
        /\ \A u \in Tags(s) : Has(u) => Has(u)'
    BY <1>1, <2>3, KeepTags
  <2>5. Upto(s, i)
    BY <2>1 DEF Progress, Runs
  <2> HIDE DEF i
  <2> DEFINE m(w) == marker(s, Dirs[i], w)
  <2>6. <<next, m(v)>> \in chain' /\ <<next, m(v)>>[2] = m(v)
    BY <2>1
  <2>7. \A w \in {"v4", "v6"} : m(w) \in Tags(s)
    BY <1>1, <2>2, TagsFacts
  <2>8. v = "v6" => Has(m("v4"))
    BY <2>1 DEF Progress, Runs, i
  <2>9. \E r \in chain' : r[2] = m(v)
    BY <2>6
  <2>10. v = "v6" => \E r \in chain' : r[2] = m("v4")
    BY <2>4, <2>7, <2>8 DEF Has
  <2>11. \A n : n = i => (Upto(s, n)' /\ \A w : marker(s, Dirs[n], w)' = m(w))
    BY <1>1, <2>2, <2>4, <2>5 DEF marker
  <2>12. CASE v = "v4" /\ Goto(p, "v6", i)
    <3>1. job'[p].at = "v6" /\ job'[p].i = i
      BY <1>2, <2>12
    <3>2. Upto(s, job[p].i)' /\ Has(marker(s, Dirs[job[p].i], "v4"))'
      BY <2>9, <2>11, <2>12, <3>1 DEF Has
    <3> QED BY <3>1, <3>2 DEF Progress, Runs
  <2>13. CASE v = "v6"
    <3>1. \A n \in Nat \ {0} : n = i => Upto(s, n + 1)'
      <4> SUFFICES ASSUME NEW n \in Nat \ {0}, n = i PROVE Upto(s, n + 1)'
        OBVIOUS
      <4>1. Has(marker(s, Dirs[n], "v4"))' /\ Has(marker(s, Dirs[n], "v6"))'
        BY <2>9, <2>10, <2>11, <2>13 DEF Has
      <4> QED BY <2>11, <4>1, UptoNext
    <3>2. ASSUME i < Len(Dirs), NEW a \in {"ensure", "v4"}, Goto(p, a, i + 1) PROVE Progress(p)'
      <4>1. job'[p].at = a /\ job'[p].i = i + 1
        BY <1>2, <3>2
      <4>2. Upto(s, job[p].i)'
        BY <2>2, <3>1, <4>1
      <4> QED BY <3>2, <4>1, <4>2 DEF Progress, Runs
    <3>3. ASSUME i = Len(Dirs), Goto(p, "idle", 0) PROVE Progress(p)'
      <4>1. job'[p].at = "idle"
        BY <1>2, <3>3
      <4>2. Complete(s)'
        <5>1. Upto(s, Len(Dirs) + 1)'
          BY <1>1, <2>2, <3>1, <3>3
        <5>2. \A n \in 1..Len(Dirs), w \in {"v4", "v6"} : \E r \in chain' : r[2] = marker(s, Dirs[n], w)
          <6>1. (Len(Dirs) + 1) - 1 = Len(Dirs) /\ Len(Dirs)' = Len(Dirs)
            BY <1>1
          <6>2. \A n \in 1..Len(Dirs), w \in {"v4", "v6"} : Has(marker(s, Dirs[n], w))'
            BY <5>1, <6>1 DEF Upto
          <6> QED BY <1>1, <6>2 DEF Has, marker
        <5>3. \A u \in Tags(s) : \E r \in chain' : r[2] = u
          BY <1>1, <5>2, TagsFacts
        <5> QED BY <5>3, SameTags DEF Complete
      <4> QED BY <4>1, <4>2 DEF Progress, Runs
    <3> QED BY <2>1, <2>13, <3>2, <3>3
  <2> QED BY <2>1, <2>12, <2>13
<1>11. CASE AddToNothing(p)
  BY <1>11 DEF AddToNothing, ruleset
<1>12. CASE CommandFails(p)
  <2>1. CASE Runs(p, "list") /\ AfterRemove(p, job[p].i)
    BY <1>4, <2>1
  <2>2. CASE Runs(p, "delete") /\ DeleteFails(p)
    BY <1>5, <2>2
  <2>3. CASE job[p].at \in Installing /\ Ends(p, TRUE)
    <3>1. Role(p) = "mon" => "unrepaired" \in excuse'[s]
      BY <1>1, <1>12, <2>3 DEF CommandFails, Blame
    <3> QED BY <2>3, <3>1
  <2>4. CASE Runs(p, "present") /\ Goto(p, "list", 1)
    BY <1>2, <2>4, FreshProgress
  <2> QED BY <1>12, <2>1, <2>2, <2>3, <2>4 DEF CommandFails
<1> QED BY <1>6, <1>7, <1>8, <1>9, <1>10, <1>11, <1>12 DEF Command

(* A command's owner keeps WatchOf: an Apply that ends well leaves all     *)
(* rules, and one that fails is excused, or there is no chain and a line   *)
(* will come.                                                              *)
LEMMA CommandWatch ==
    ASSUME Basic, UNCHANGED cfg, NEW k \in {"est", "mon", "rem"}, NEW s \in Sessions,
           Command(<<k, s>>), StageOf(s), WatchOf(s), k = "mon" => mon[s] = "watching"
    PROVE  WatchOf(s)'
<1> DEFINE p == <<k, s>>
<1> SUFFICES ASSUME excuse'[s] \cap {"unrepaired", "overtaken", "unseen"} = {}
             PROVE  /\ stage'[s] = "applying" => Progress(<<"est", s>>)'
                    /\ stage'[s] = "applied" \/ mon'[s] = "starting" => Complete(s)'
                    /\ mon'[s] = "watching" /\ s \notin event' /\ exists' => Progress(<<"mon", s>>)'
  BY DEF WatchOf
<1>1. p \in Procs /\ Role(p) = k /\ Owner(p) = s
  BY DEF Procs, Role, Owner
<1>2. StageOf(s)'
  BY CommandStage
<1>3. excuse[s] \cap {"unrepaired", "overtaken", "unseen"} = {}
      /\ event \subseteq event' /\ (mon[s] = "watching" /\ exists' # exists => s \in event')
  BY <1>1, CommandRules DEF Basic, HistoryOK
<1>4. ~Runs(p, "idle") /\ UNCHANGED <<mon, mssCancel>> /\ Settles(p)
  BY <1>1, CommandEnds, CommandMoves DEF Settles, Basic
<1>5. CASE k = "est"
  <2>1. stage[s] = "applying" /\ mon'[s] = "off"
    BY <1>4, <1>5 DEF StageOf
  <2>2. Progress(p)
    BY <1>3, <1>5, <2>1 DEF WatchOf
  <2>3. CASE Progress(p)'
    <3>1. stage'[s] = "applied" => Complete(s)'
      BY <1>1, <1>2, <1>5, <2>3 DEF StageOf, Progress
    <3> QED BY <1>5, <2>1, <2>3, <3>1
  <2>4. CASE Ends(p, TRUE)
    <3>1. stage'[s] = "failed"
      <4>1. stage' = [stage EXCEPT ![s] = "failed"]
        BY <1>1, <1>5, <2>4 DEF Ends
      <4> QED BY <4>1 DEF Basic, TypeOK
    <3> QED BY <2>1, <3>1
  <2> QED BY <1>1, <1>5, <2>2, <2>3, <2>4, ProgressStep
<1>6. CASE k = "mon"
  <2>1. stage'[s] = "up" /\ mon'[s] = "watching"
    BY <1>2, <1>4, <1>6 DEF StageOf
  <2>2. ASSUME s \notin event', exists' PROVE Progress(p)'
    <3>1. s \notin event /\ exists
      BY <1>3, <1>6, <2>2
    <3>2. Progress(p)
      BY <1>3, <1>6, <3>1 DEF WatchOf
    <3> QED BY <1>1, <1>6, <2>2, <3>2, ProgressStep
  <2> QED BY <1>6, <2>1, <2>2
<1>7. CASE k = "rem"
  <2>1. removal[s] # "none"
    BY <1>4, <1>7 DEF StageOf
  <2>2. mon'[s] \in {"off", "late"} /\ stage[s] \in {"up", "failed"}
    BY <1>3, <1>4, <2>1 DEF StageOf
  <2>3. stage'[s] = stage[s]
    BY <1>4, <1>7 DEF Settles
  <2> QED BY <2>2, <2>3
<1> QED BY <1>5, <1>6, <1>7

(* The other steps: a monitor starts on a complete session, reads its line *)
(* before it looks, and rests only after it has found every direction.     *)
LEMMA ManagerWatch ==
    ASSUME Basic, UNCHANGED cfg, NEW s \in Sessions, StageOf(s), WatchOf(s),
           \/ Apply(s) \/ StartMonitor(s) \/ RemoveBegins(s) \/ Subscribe(s) \/ Wake(s)
           \/ Present(s) \/ LateCommand(s)
    PROVE  WatchOf(s)'
<1> SUFFICES ASSUME excuse'[s] \cap {"unrepaired", "overtaken", "unseen"} = {}
             PROVE  /\ stage'[s] = "applying" => Progress(<<"est", s>>)'
                    /\ stage'[s] = "applied" \/ mon'[s] = "starting" => Complete(s)'
                    /\ mon'[s] = "watching" /\ s \notin event' /\ exists' => Progress(<<"mon", s>>)'
  BY DEF WatchOf
<1>1. \A l \in {"est", "mon", "rem"} : <<l, s>> \in Procs /\ Owner(<<l, s>>) = s
  BY DEF Procs, Owner
<1>2. StageOf(s)'
  BY ManagerStage
<1>3. excuse[s] \subseteq excuse'[s]
  BY ManagerStep, LateStep DEF StepOf, Tidy, HistoryOK
<1>4. /\ stage[s] = "applying" => Progress(<<"est", s>>)
      /\ stage[s] = "applied" \/ mon[s] = "starting" => Complete(s)
      /\ mon[s] = "watching" /\ s \notin event /\ exists => Progress(<<"mon", s>>)
  BY <1>3 DEF WatchOf
<1>5. cfg \in Setups /\ Len(Dirs) \in Nat \ {0} /\ Dirs' = Dirs
  BY DirsFacts DEF Basic, TypeOK, Dirs
<1>6. chain' = chain => (Complete(s) => Complete(s)')
  BY <1>5, KeepTags, SameTags DEF Rules
<1>7. CASE Apply(s)
  <2>1. job'[<<"est", s>>].at = "list" /\ stage'[s] = "applying" /\ mon' = mon /\ stage[s] = "new"
    BY <1>1, <1>7, GotoIs DEF Apply, Basic, TypeOK
  <2>2. mon[s] = "off"
    BY <2>1 DEF StageOf
  <2> QED BY <2>1, <2>2, FreshProgress
<1>8. CASE StartMonitor(s)
  BY <1>4, <1>6, <1>8 DEF StartMonitor, ruleset, Basic, TypeOK
<1>9. CASE RemoveBegins(s)
  <2>1. removal'[s] = "running"
    BY <1>9 DEF RemoveBegins, Basic, TypeOK
  <2>2. mon'[s] \in {"off", "late"} /\ stage'[s] \in {"up", "failed"}
    BY <1>2, <2>1 DEF StageOf
  <2> QED BY <2>2
<1>10. CASE Subscribe(s)
  <2>1. mon[s] = "starting" /\ mon'[s] \in {"watching", "off"} /\ UNCHANGED <<chain, job, stage>>
    BY <1>10 DEF Subscribe, ruleset, Basic, TypeOK
  <2>2. Complete(s)' /\ stage[s] = "up" /\ job'[<<"mon", s>>].at = "idle"
    BY <1>4, <1>6, <2>1 DEF StageOf, Runs
  <2>3. Progress(<<"mon", s>>)'
    BY <1>1, <2>2 DEF Progress, Runs
  <2> QED BY <2>1, <2>2, <2>3
<1>11. CASE Wake(s)
  <2> DEFINE p == <<"mon", s>>
  <2>3. Goto(p, "present", 1) /\ mon[s] = "watching" /\ UNCHANGED session
    BY <1>11 DEF Wake
  <2>4. p \in Procs
    BY <1>1
  <2>5. job'[p].at = "present" /\ job'[p].i = 1
    <3> HIDE DEF p
    <3> QED BY <2>3, <2>4, GotoIs
  <2>6. UNCHANGED <<stage, mon>>
    BY <2>3 DEF session
  <2>1. /\ job'[<<"mon", s>>].at = "present" /\ job'[<<"mon", s>>].i = 1
        /\ UNCHANGED <<stage, mon>> /\ mon[s] = "watching"
    BY <2>3, <2>5, <2>6
  <2>2. stage[s] = "up"
    BY <2>1 DEF StageOf
  <2> QED BY <2>1, <2>2, FreshProgress
<1>12. CASE Present(s)
  <2> DEFINE p == <<"mon", s>>  i == job[p].i
  <2>1. /\ Runs(p, "present") /\ mon[s] = "watching"
        /\ UNCHANGED <<chain, exists, event, stage, mon>>
        /\ \/ DirPresent(s, i) /\ i < Len(Dirs) /\ Goto(p, "present", i + 1)
           \/ DirPresent(s, i) /\ i = Len(Dirs) /\ Goto(p, "idle", 0)
           \/ ~DirPresent(s, i) /\ Goto(p, "list", 1)
    <3>1. UNCHANGED ruleset /\ UNCHANGED session
      BY <1>12 DEF Present
    <3>2. UNCHANGED <<chain, exists, stage, mon>>
      BY <3>1 DEF session, ruleset
    <3> QED BY <1>12, <3>2 DEF Present
  <2>2. stage[s] = "up"
    BY <2>1 DEF StageOf
  <2>3. i \in 1..Len(Dirs)
    BY <1>1, <1>5, <2>1 DEF Basic, TypeOK, JobInv, Runs
  <2> SUFFICES ASSUME s \notin event', exists' PROVE Progress(p)'
    BY <2>1, <2>2
  <2>4. Upto(s, i)
    BY <1>1, <1>4, <2>1 DEF Progress, Runs
  <2>5. \A a, n : Goto(p, a, n) => job'[p].at = a /\ job'[p].i = n
    BY <1>1, GotoIs
  <2> HIDE DEF i
  <2>6. DirPresent(s, i) => Upto(s, i + 1)
    <3>1. 1..((i + 1) - 1) = 1..(i - 1) \cup {i}
      BY <1>5, <2>3
    <3> QED BY <2>4, <3>1 DEF Upto, DirPresent, Has
  <2>7. i + 1 \in 1..(Len(Dirs) + 1) /\ Rules(s) \subseteq Rules(s)'
    BY <1>5, <2>1, <2>3, SameTags DEF Rules
  <2>8. /\ DirPresent(s, i) => \A n : n = i + 1 => Upto(s, n)'
        /\ DirPresent(s, i) /\ i = Len(Dirs) => Complete(s)'
    BY <1>5, <2>6, <2>7, KeepTags, CompleteUpto
  <2>9. CASE DirPresent(s, i) /\ Goto(p, "present", i + 1)
    BY <1>1, <2>5, <2>8, <2>9 DEF Progress, Runs
  <2>10. CASE DirPresent(s, i) /\ i = Len(Dirs) /\ Goto(p, "idle", 0)
    BY <1>1, <2>5, <2>8, <2>10 DEF Progress, Runs
  <2>11. CASE Goto(p, "list", 1)
    BY <2>5, <2>11, FreshProgress
  <2> QED BY <2>1, <2>9, <2>10, <2>11 DEF i
<1>13. CASE LateCommand(s)
  <2>1. mon'[s] = "off" /\ mon[s] = "late" /\ stage' = stage
    BY <1>13 DEF LateCommand, Basic, TypeOK
  <2>2. stage[s] = "up"
    BY <2>1 DEF StageOf
  <2> QED BY <2>1, <2>2
<1> QED BY <1>7, <1>8, <1>9, <1>10, <1>11, <1>12, <1>13

-----------------------------------------------------------------------------
(* ... and what a removal is past.                                         *)

(* A rule of s's is of one of the directions.                              *)
LEMMA RuleDir ==
    ASSUME cfg \in Setups, NEW s, NEW r \in Rules(s)
    PROVE  \E j \in 1..Len(Dirs) : r[2][2] = Dirs[j]
BY TagsFacts DEF Rules, marker

(* Few, for rules of the state after a step.                              *)
StillFew(s, R) == /\ \A r, q \in R : r = q
                  /\ R # {} => "late" \in excuse'[s] /\ mon'[s] # "late"

(* Few is kept by fewer rules and more excuses.                            *)
LEMMA FewKept ==
    ASSUME NEW s, NEW R, NEW Q, Few(s, R), Q \subseteq R, excuse[s] \subseteq excuse'[s],
           mon'[s] = mon[s] \/ mon'[s] = "off"
    PROVE  StillFew(s, Q)
BY DEF Few, StillFew

(* The removal's own commands: it is past a rule only if the rule is gone. *)
LEMMA CommandRemoval ==
    ASSUME Basic, UNCHANGED cfg, NEW k \in {"est", "mon", "rem"}, NEW s \in Sessions,
           Command(<<k, s>>), StageOf(s), RemovalOf(s), k = "mon" => mon[s] = "watching"
    PROVE  RemovalOf(s)'
<1> DEFINE p == <<k, s>>  i == job[p].i
<1> SUFFICES ASSUME removal'[s] # "none", excuse'[s] \cap {"unremoved", "overtaken", "robbed"} = {}
             PROVE  /\ StillFew(s, Passed(s)')
                    /\ job'[<<"rem", s>>].at = "delete" =>
                          \/ \A h \in job'[<<"rem", s>>].todo : \E r \in Rules(s)' : r[1] = h
                          \/ StillFew(s, Rules(s)')
  BY DEF RemovalOf, Few, StillFew, Runs
<1>1. p \in Procs /\ Role(p) = k /\ Owner(p) = s
  BY DEF Procs, Role, Owner
<1>2. excuse[s] \subseteq excuse'[s] /\ excuse[s] \cap {"unremoved", "overtaken", "robbed"} = {}
  BY <1>1, CommandRules DEF Basic, HistoryOK
<1>3. ~Runs(p, "idle") /\ UNCHANGED <<mon, mssCancel>> /\ Settles(p)
  BY <1>1, CommandEnds, CommandMoves DEF Settles, Basic
<1>4. removal[s] # "none"
  <2>1. k = "rem" => removal[s] = "running"
    BY <1>3 DEF StageOf
  <2>2. k # "rem" => removal'[s] = removal[s]
    BY <1>3 DEF Settles
  <2> QED BY <2>1, <2>2
<1>5. k = "rem"
  <2>1. mon[s] \in {"off", "late"} /\ stage[s] \in {"up", "failed"}
    BY <1>2, <1>4 DEF StageOf
  <2>2. k = "est" => stage[s] = "applying"
    BY <1>3 DEF StageOf
  <2> QED BY <2>1, <2>2
<1>6. /\ Few(s, Passed(s))
      /\ Runs(p, "delete") =>
            \/ \A h \in job[p].todo : \E r \in Rules(s) : r[1] = h
            \/ Few(s, Rules(s))
  BY <1>2, <1>4, <1>5 DEF RemovalOf
<1>7. \A R, Q : Few(s, R) /\ Q \subseteq R => StillFew(s, Q)
  BY <1>2, <1>3, FewKept
<1>8. /\ cfg \in Setups /\ Len(Dirs) \in Nat \ {0} /\ Dirs' = Dirs
      /\ i \in 1..Len(Dirs) /\ job[p].at \in {"list", "delete"}
      /\ Rules(s)' = {r \in chain' : r[2] \in Tags(s)}
  BY <1>1, <1>3, <1>5, DirsFacts, SameTags DEF Basic, TypeOK, JobInv, Dirs, Rules, Runs
<1>9. \A a, n : Goto(p, a, n) => job'[p] = Job(a, n)
  BY <1>1, GotoIs
<1>10. Passed(s) = {r \in Rules(s) : \/ job[p].at = "idle"
                                     \/ \E j \in 1..(i - 1) : r[2][2] = Dirs[j]
                                     \/ job[p].at = "delete" /\ r[2][2] = Dirs[i] /\ r[1] \notin job[p].todo}
  BY <1>5 DEF Passed, Runs
<1>11. \A r \in Passed(s)' :
          /\ r \in Rules(s)'
          /\ \/ job'[p].at = "idle"
             \/ \E j \in 1..(job'[p].i - 1) : r[2][2] = Dirs[j]
             \/ job'[p].at = "delete" /\ r[2][2] = Dirs[job'[p].i] /\ r[1] \notin job'[p].todo
  <2>1. p = <<"rem", s>> /\ Dirs' = Dirs
    BY <1>5, <1>8
  <2>2. Passed(s)' = {r \in Rules(s)' :
                        \/ job'[<<"rem", s>>].at = "idle"
                        \/ \E j \in 1..(job'[<<"rem", s>>].i - 1) : r[2][2] = Dirs'[j]
                        \/ /\ job'[<<"rem", s>>].at = "delete" /\ r[2][2] = Dirs'[job'[<<"rem", s>>].i]
                           /\ r[1] \notin job'[<<"rem", s>>].todo}
    BY DEF Passed, Runs
  <2> QED BY <2>1, <2>2
<1> HIDE DEF i
<1>12. ASSUME AfterRemove(p, i), chain' \subseteq chain,
              \A r \in Rules(s)' : r[2][2] = Dirs[i] => r \in Passed(s)
       PROVE  StillFew(s, Passed(s)') /\ job'[p].at # "delete"
  <2>1. \A r \in Rules(s)', j \in 1..i : r[2][2] = Dirs[j] => r \in Passed(s)
    <3>1. 1..i = 1..(i - 1) \cup {i} /\ Rules(s)' \subseteq Rules(s)
      BY <1>8, <1>12 DEF Rules
    <3> QED BY <1>10, <1>12, <3>1
  <2>2. \/ job'[p] = Job("list", i + 1)
        \/ job'[p] = Job("idle", 0) /\ i = Len(Dirs)
    BY <1>1, <1>5, <1>9, <1>12 DEF AfterRemove, Ends
  <2>3. CASE job'[p] = Job("list", i + 1)
    <3>1. job'[p].at = "list" /\ job'[p].i - 1 = i
      BY <1>8, <2>3 DEF Job
    <3>2. Passed(s)' \subseteq Passed(s)
      BY <1>11, <2>1, <3>1
    <3> QED BY <1>6, <1>7, <3>1, <3>2
  <2>4. CASE job'[p] = Job("idle", 0) /\ i = Len(Dirs)
    <3>1. Passed(s)' \subseteq Rules(s)' /\ Rules(s)' \subseteq Rules(s)
      BY <1>8, <1>11, <1>12 DEF Rules
    <3>2. Passed(s)' \subseteq Passed(s)
      BY <1>8, <2>1, <2>4, <3>1, RuleDir
    <3> QED BY <1>6, <1>7, <2>4, <3>2 DEF Job
  <2> QED BY <2>2, <2>3, <2>4
<1>13. CASE List(p)
  <2>1. chain' = chain /\ Rules(s)' = Rules(s)
    BY <1>8, <1>13 DEF List, ruleset, Rules
  <2>2. Listed(p, i) = {r[1] : r \in {q \in Rules(s) : q[2][2] = Dirs[i]}}
    BY <1>1 DEF Listed
  <2>3. CASE job' = [job EXCEPT ![p] = [at |-> "delete", i |-> i, todo |-> Listed(p, i), gen |-> gen]]
    <3>1. job'[p].at = "delete" /\ job'[p].i = i /\ job'[p].todo = Listed(p, i)
      BY <1>1, <2>3 DEF Basic, JobInv
    <3>2. Passed(s)' \subseteq Passed(s)
      BY <1>10, <1>11, <2>1, <2>2, <3>1
    <3>3. \A h \in job'[p].todo : \E r \in Rules(s)' : r[1] = h
      BY <2>1, <2>2, <3>1
    <3> QED BY <1>5, <1>6, <1>7, <3>2, <3>3
  <2>4. CASE (~exists \/ Listed(p, i) = {}) /\ AfterRemove(p, i)
    <3>1. \A r \in Rules(s)' : r[2][2] # Dirs[i]
      BY <2>1, <2>2, <2>4 DEF Rules, Basic, HandleInv
    <3> QED BY <1>5, <1>12, <2>1, <2>4, <3>1
  <2> QED BY <1>13, <2>3, <2>4 DEF List, i
<1>14. CASE Delete(p)
  <2>0. PICK h : DeleteRule(p, h)
    BY <1>14 DEF Delete
  <2> DEFINE rest == job[p].todo \ {h}
  <2>1. /\ Runs(p, "delete") /\ chain' = {r \in chain : r[1] # h}
        /\ \/ rest # {} /\ job' = [job EXCEPT ![p].todo = rest]
           \/ rest = {} /\ AfterRemove(p, i)
    BY <2>0 DEF DeleteRule, Shrink, i
  <2>2. Rules(s)' = {r \in Rules(s) : r[1] # h}
    BY <1>8, <2>1 DEF Rules
  <2>3. \A r \in Rules(s)' : r[2][2] = Dirs[i] /\ r[1] \notin rest => r \in Passed(s)
    BY <1>10, <2>1, <2>2 DEF Runs
  <2>4. CASE rest # {} /\ job' = [job EXCEPT ![p].todo = rest]
    <3>1. job'[p].at = "delete" /\ job'[p].i = i /\ job'[p].todo = rest
      BY <1>1, <2>1, <2>4 DEF Basic, JobInv, Runs, i
    <3>2. Passed(s)' \subseteq Passed(s)
      BY <1>10, <1>11, <2>2, <2>3, <3>1
    <3>3. CASE \A g \in job[p].todo : \E r \in Rules(s) : r[1] = g
      <4>1. \A g \in job'[p].todo : \E r \in Rules(s)' : r[1] = g
        BY <2>2, <3>1, <3>3
      <4> QED BY <1>5, <1>6, <1>7, <3>2, <4>1
    <3>4. CASE Few(s, Rules(s))
      BY <1>5, <1>6, <1>7, <2>2, <3>2, <3>4
    <3> QED BY <1>6, <2>1, <3>3, <3>4
  <2>5. CASE rest = {} /\ AfterRemove(p, i)
    BY <1>5, <1>12, <2>1, <2>3, <2>5
  <2> QED BY <2>1, <2>4, <2>5
<1>15. CASE DeleteGone(p)
  <2>1. Runs(p, "delete") /\ chain' = chain /\ Goto(p, "idle", 0)
    BY <1>1, <1>5, <1>15 DEF DeleteGone, DeleteFails, Ends, ruleset
  <2>2. \E h \in job[p].todo : \A r \in chain : r[1] # h
    BY <1>15 DEF DeleteGone, First
  <2>3. Few(s, Rules(s))
    BY <1>6, <2>1, <2>2 DEF Rules
  <2>4. Passed(s)' \subseteq Rules(s) /\ job'[p].at = "idle"
    <3>1. Rules(s)' = Rules(s)
      BY <1>8, <2>1 DEF Rules
    <3>2. job'[p] = Job("idle", 0)
      BY <1>9, <2>1
    <3> QED BY <1>11, <3>1, <3>2 DEF Job
  <2> QED BY <1>5, <1>7, <2>3, <2>4
<1>16. CASE CommandFails(p)
  <2>1. excuse' = [d \in Sessions |-> IF d \in {s} THEN excuse[d] \cup {"unremoved"} ELSE excuse[d]]
    BY <1>1, <1>5, <1>16 DEF CommandFails, Blame
  <2> QED BY <2>1
<1> QED BY <1>8, <1>13, <1>14, <1>15, <1>16 DEF Command, EnsureTable, AddRule, AddToNothing, Runs

(* No rule is added for a session once its removal has begun, unless the   *)
(* removal overtook Establish,                                             *)
LEMMA ManagerRemoval ==
    ASSUME Basic, UNCHANGED cfg, NEW s \in Sessions, StageOf(s), RemovalOf(s),
           Apply(s) \/ StartMonitor(s) \/ RemoveBegins(s) \/ Subscribe(s) \/ Wake(s) \/ Present(s)
    PROVE  RemovalOf(s)'
<1> SUFFICES ASSUME removal'[s] # "none", excuse'[s] \cap {"unremoved", "overtaken", "robbed"} = {}
             PROVE  /\ StillFew(s, Passed(s)')
                    /\ job'[<<"rem", s>>].at # "delete"
  BY DEF RemovalOf, Few, StillFew, Runs
<1>1. <<"rem", s>> \in Procs
  BY DEF Procs
<1>2. excuse[s] \subseteq excuse'[s]
  BY ManagerStep DEF StepOf, Tidy, HistoryOK
<1>3. removal[s] # "none" => mon[s] \in {"off", "late"} /\ stage[s] \in {"up", "failed"}
  BY <1>2 DEF StageOf
<1>4. CASE RemoveBegins(s)
  <2>1. job'[<<"rem", s>>].at = "list" /\ job'[<<"rem", s>>].i = 1
    BY <1>1, <1>4, GotoIs DEF RemoveBegins
  <2>2. Passed(s)' = {}
    BY <2>1 DEF Passed, Runs
  <2> QED BY <2>1, <2>2 DEF Few, StillFew
<1>5. Apply(s) => removal' = removal /\ stage[s] = "new"
  BY DEF Apply
<1>6. StartMonitor(s) => removal' = removal /\ stage[s] = "applied"
  BY DEF StartMonitor
<1>7. Subscribe(s) => removal' = removal /\ mon[s] = "starting"
  BY DEF Subscribe
<1>8. Wake(s) \/ Present(s) => removal' = removal /\ mon[s] = "watching"
  BY DEF Wake, Present, session
<1> QED BY <1>3, <1>4, <1>5, <1>6, <1>7, <1>8

(* or the cancelled monitor adds one, its last.                            *)
LEMMA LateRemoval ==
    ASSUME Basic, UNCHANGED cfg, NEW s \in Sessions, StageOf(s), RemovalOf(s), LateCommand(s)
    PROVE  RemovalOf(s)'
<1> DEFINE p == <<"rem", s>>  m == <<"mon", s>>
<1> SUFFICES ASSUME removal'[s] # "none", excuse'[s] \cap {"unremoved", "overtaken", "robbed"} = {}
             PROVE  /\ StillFew(s, Passed(s)')
                    /\ job[p].at = "delete" =>
                          \/ \A h \in job[p].todo : \E r \in Rules(s)' : r[1] = h
                          \/ StillFew(s, Rules(s)')
  <2>1. job'[p] = job[p]
    BY DEF LateCommand, Goto, Procs, Basic, JobInv
  <2> QED BY <2>1 DEF RemovalOf, Few, StillFew, Runs
<1>1. excuse[s] \subseteq excuse'[s]
  BY LateStep DEF StepOf, Tidy, HistoryOK
<1>2. mon[s] = "late" /\ mon'[s] = "off" /\ removal' = removal /\ job'[p] = job[p]
  BY DEF LateCommand, Goto, Procs, Basic, JobInv, TypeOK
<1>3. "late" \in excuse'[s]
  BY <1>1, <1>2 DEF StageOf
<1>4. /\ Passed(s) = {}
      /\ job[p].at = "delete" => \/ \A h \in job[p].todo : \E r \in Rules(s) : r[1] = h
                                 \/ Rules(s) = {}
  BY <1>1, <1>2 DEF RemovalOf, Few, StillFew, Runs
<1>5. \A R : (\A r, q \in R : r = q) => StillFew(s, R)
  BY <1>2, <1>3 DEF Few, StillFew
<1>6. Dirs' = Dirs /\ cfg \in Setups
  BY DEF Dirs, Basic, TypeOK
<1>7. Passed(s)' \cap Rules(s) \subseteq Passed(s) /\ Passed(s)' \subseteq Rules(s)'
  BY <1>2, <1>6 DEF Passed, Runs
<1>8. ASSUME Rules(s)' = Rules(s)
      PROVE  /\ StillFew(s, Passed(s)')
             /\ job[p].at = "delete" =>
                          \/ \A h \in job[p].todo : \E r \in Rules(s)' : r[1] = h
                          \/ StillFew(s, Rules(s)')
  BY <1>4, <1>5, <1>7, <1>8
<1>9. ASSUME NEW x, Rules(s)' = Rules(s) \cup {x}
      PROVE  /\ StillFew(s, Passed(s)')
             /\ job[p].at = "delete" =>
                          \/ \A h \in job[p].todo : \E r \in Rules(s)' : r[1] = h
                          \/ StillFew(s, Rules(s)')
  <2>1. \A r, q \in Passed(s)' : r = q
    BY <1>4, <1>7, <1>9
  <2> QED BY <1>4, <1>5, <1>9, <2>1
<1>10. ASSUME NEW h, Shrink({r \in chain : r[1] # h}, Sessions, {"robbed"}), exists' = exists
       PROVE  /\ StillFew(s, Passed(s)')
              /\ job[p].at = "delete" =>
                          \/ \A g \in job[p].todo : \E r \in Rules(s)' : r[1] = g
                          \/ StillFew(s, Rules(s)')
  <2>1. Apart(s)
    BY <1>10, ShrinkHistory DEF Basic
  <2>2. Rules(s)' = Rules(s) \/ Rules(s)' = {}
    BY <2>1 DEF Apart
  <2> QED BY <1>5, <1>7, <1>8, <2>2
<1>11. CASE chain' = chain
  BY <1>8, <1>11, SameTags DEF Rules
<1>12. ASSUME NEW v \in {"v4", "v6"}, chain' = chain \cup {<<next, marker(s, Dirs[job[m].i], v)>>}
       PROVE  \E x : Rules(s)' = Rules(s) \cup {x} \/ Rules(s)' = Rules(s)
  <2> DEFINE x == <<next, marker(s, Dirs[job[m].i], v)>>
  <2>1. Rules(s)' = {r \in chain \cup {x} : r[2] \in Tags(s)}
    BY <1>12, SameTags DEF Rules
  <2> HIDE DEF x
  <2>2. Rules(s)' = Rules(s) \cup {x} \/ Rules(s)' = Rules(s)
    BY <2>1 DEF Rules
  <2> QED BY <2>2
<1> QED BY <1>8, <1>9, <1>10, <1>11, <1>12 DEF LateCommand

-----------------------------------------------------------------------------
(* The invariant and the theorems.                                         *)

Inv == Basic /\ StageInv /\ WatchInv /\ RemovalInv

(* Installed lists the tags of the settled sessions, each once.            *)
LEMMA InstalledFacts ==
    ASSUME cfg \in Setups
    PROVE  /\ Len(Installed) \in Nat /\ DOMAIN Installed = 1..Len(Installed)
           /\ \A h \in 1..Len(Installed) : \E s \in Settled : Installed[h] \in Tags(s)
           /\ \A s \in Settled : \A u \in Tags(s) : \E h \in 1..Len(Installed) : Installed[h] = u
<1> DEFINE tags == UNION {Markers(Dirs, s) : s \in Settled}
<1>1. Installed \in Seq(tags) /\ \A u \in tags : \E h \in DOMAIN Installed : Installed[h] = u
  BY ClampAssumption DEF Installed, Dirs, Settled
<1> HIDE DEF tags
<1>2. /\ Len(Installed) \in Nat /\ DOMAIN Installed = 1..Len(Installed)
      /\ \A h \in 1..Len(Installed) : Installed[h] \in tags
  BY <1>1
<1>3. \A u : u \in tags <=> \E s \in Settled : u \in Tags(s)
  BY DEF tags, Tags
<1> QED BY <1>1, <1>2, <1>3

(* The initial states: the settled sessions are complete, the others have  *)
(* no rules.                                                               *)
LEMMA Initially == Init => Inv
<1> SUFFICES ASSUME Init PROVE Inv
  OBVIOUS
<1>1. cfg \in Setups /\ cfg.maxReloads \in Nat /\ Settled \subseteq Sessions /\ Len(Dirs) \in Nat \ {0}
  BY DirsFacts DEF Init
<1>2. /\ Len(Installed) \in Nat /\ DOMAIN Installed = 1..Len(Installed)
      /\ \A h \in 1..Len(Installed) : \E s \in Settled : Installed[h] \in Tags(s)
      /\ \A s \in Settled : \A u \in Tags(s) : \E h \in 1..Len(Installed) : Installed[h] = u
  BY <1>1, InstalledFacts
<1>3. chain = {<<h, Installed[h]>> : h \in 1..Len(Installed)} /\ next = 1 + Len(Installed)
  BY <1>2 DEF Init
<1>4. /\ \A r \in chain : r[1] \in 1..(next - 1) /\ \E s \in Settled : r[2] \in Tags(s)
      /\ \A r, q \in chain : r[1] = q[1] => r = q
      /\ \A s \in Settled : Complete(s)
  <2>1. next - 1 = Len(Installed)
    BY <1>2, <1>3
  <2>2. ASSUME NEW r \in chain PROVE \E h \in 1..Len(Installed) : r = <<h, Installed[h]>>
    BY <1>3
  <2>3. \A h \in 1..Len(Installed) : <<h, Installed[h]>> \in chain
    BY <1>3
  <2>4. \A r \in chain : r[1] \in 1..(next - 1) /\ \E s \in Settled : r[2] \in Tags(s)
    BY <1>2, <2>1, <2>2
  <2>5. \A r, q \in chain : r[1] = q[1] => r = q
    BY <2>2
  <2>6. ASSUME NEW s \in Settled, NEW u \in Tags(s) PROVE \E r \in chain : r[2] = u
    BY <1>2, <2>3
  <2> QED BY <2>4, <2>5, <2>6 DEF Complete
<1>5. \A p \in Procs : job[p] = Job("idle", 0)
  BY DEF Init, Idle
<1>6. TypeOK
  <2>1. \A r \in chain : r[1] \in 1..(next - 1) /\ \E s \in Sessions : r[2] \in Tags(s)
    BY <1>1, <1>4
  <2>2. exists \in BOOLEAN /\ next \in Nat \ {0} /\ gen \in Nat
    <3>1. exists \in BOOLEAN /\ gen = 0
      BY DEF Init
    <3>2. next \in Nat \ {0}
      BY <1>2, <1>3
    <3> QED BY <3>1, <3>2
  <2>3. reloads \in 0..cfg.maxReloads /\ failures \in 0..MaxFailures
    BY <1>1, ClampAssumption DEF Init
  <2>4. \A p \in Procs : /\ job[p].at \in Steps /\ job[p].i \in 0..Len(Dirs)
                         /\ job[p].todo \subseteq Nat /\ job[p].gen \in 0..gen
    BY <1>1, <1>5 DEF Job, Steps, Init
  <2>5. /\ stage \in [Sessions -> {"new", "applying", "applied", "up", "failed"}]
        /\ removal \in [Sessions -> {"none", "running", "done"}]
        /\ mon \in [Sessions -> Monitors] /\ mssCancel \subseteq Sessions /\ event \subseteq Sessions
    BY <1>1 DEF Init, Monitors
  <2>6. excuse \in [Sessions -> SUBSET {"unremoved", "unrepaired", "overtaken", "late", "unseen", "robbed"}]
    BY DEF Init
  <2> QED BY <1>1, <2>1, <2>2, <2>3, <2>4, <2>5, <2>6 DEF TypeOK
<1>7. JobInv
  <2>1. Job("idle", 0) \in [at : Steps, i : 0..Len(Dirs), todo : SUBSET Nat, gen : Nat]
    BY <1>1 DEF Job, Steps
  <2>2. job \in [Procs -> [at : Steps, i : 0..Len(Dirs), todo : SUBSET Nat, gen : Nat]]
    BY <2>1 DEF Init, Idle
  <2> QED BY <1>5, <2>2 DEF JobInv, Job
<1>8. HandleInv
  <2>1. ~exists => chain = {}
    BY DEF Init
  <2> QED BY <1>4, <1>5, <2>1 DEF HandleInv, Runs, Job
<1>9. \A k \in {"est", "mon", "rem"}, s \in Sessions : <<k, s>> \in Procs /\ job[<<k, s>>].at = "idle"
      /\ Owner(<<k, s>>) = s
  BY <1>5 DEF Procs, Job, Owner
<1>10. ASSUME NEW s \in Sessions PROVE StageOf(s) /\ WatchOf(s) /\ RemovalOf(s)
  <2>1. /\ stage[s] = (IF s \in Settled THEN "up" ELSE IF s \in cfg.fresh THEN "new" ELSE "failed")
        /\ removal[s] = (IF s \in Settled \cup cfg.fresh THEN "none" ELSE "done")
        /\ mon[s] = (IF s \in Settled THEN "watching" ELSE "off")
        /\ mssCancel = Settled
    BY DEF Init
  <2>2. StageOf(s)
    BY <1>9, <2>1 DEF StageOf, Runs
  <2>3. WatchOf(s)
    <3>1. s \in Settled => Progress(<<"mon", s>>)
      BY <1>4, <1>9 DEF Progress, Runs
    <3> QED BY <2>1, <3>1 DEF WatchOf
  <2>4. RemovalOf(s)
    <3>1. s \notin Settled => Rules(s) = {}
      BY <1>1, <1>4, OtherTags DEF Rules
    <3>2. removal[s] # "none" => Rules(s) = {} /\ Passed(s) = {}
      BY <2>1, <3>1 DEF Passed
    <3> QED BY <1>9, <3>2 DEF RemovalOf, Few, Runs
  <2> QED BY <2>2, <2>3, <2>4
<1> QED BY <1>6, <1>7, <1>8, <1>10 DEF Inv, Basic, StageInv, WatchInv, RemovalInv

(* The inductive invariant is kept by every step.                          *)
LEMMA Inductive == Inv /\ [Next]_vars => Inv'
<1> SUFFICES ASSUME Inv, [Next]_vars PROVE Inv'
  OBVIOUS
<1>1. Basic /\ \A s \in Sessions : StageOf(s) /\ WatchOf(s) /\ RemovalOf(s)
  BY DEF Inv, StageInv, WatchInv, RemovalInv
<1>2. ASSUME UNCHANGED vars PROVE Inv'
  <2> USE <1>2 DEF vars, ruleset, world, session
  <2>1. Basic'
    BY <1>1 DEF Basic, TypeOK, JobInv, HandleInv, Dirs, Tags, Markers, marker, Runs
  <2>2. ASSUME NEW s \in Sessions PROVE Same(s) /\ Apart(s)
    BY SameTags DEF Same, Apart, Rules
  <2>3. ASSUME NEW s \in Sessions PROVE StageOf(s)' /\ WatchOf(s)' /\ RemovalOf(s)'
    BY <1>1, <2>2, ApartKeeps
  <2> QED BY <2>1, <2>3 DEF Inv, StageInv, WatchInv, RemovalInv
<1>3. ASSUME UNCHANGED cfg, NEW o \in Sessions, StepOf(o), StageOf(o)', WatchOf(o)', RemovalOf(o)'
      PROVE  Inv'
  <2>1. Basic'
    BY <1>1, <1>3, TidyTypes, TidyHandles DEF StepOf, Basic
  <2>2. ASSUME NEW s \in Sessions PROVE StageOf(s)' /\ WatchOf(s)' /\ RemovalOf(s)'
    <3>1. CASE s = o
      BY <1>3, <3>1
    <3>2. CASE s # o
      <4>1. Same(s) /\ Apart(s)
        BY <1>3, <3>2 DEF StepOf
      <4> QED BY <1>1, <1>3, <4>1, ApartKeeps
    <3> QED BY <3>1, <3>2
  <2> QED BY <2>1, <2>2 DEF Inv, StageInv, WatchInv, RemovalInv
<1>4. CASE UNCHANGED cfg /\ Reload
  <2>1. Basic' /\ \A s \in Sessions : Same(s) /\ Apart(s)
    BY <1>1, <1>4, ReloadStep
  <2>2. \A s \in Sessions : StageOf(s)' /\ WatchOf(s)' /\ RemovalOf(s)'
    BY <1>1, <1>4, <2>1, ApartKeeps
  <2> QED BY <2>1, <2>2 DEF Inv, StageInv, WatchInv, RemovalInv
<1>5. ASSUME UNCHANGED cfg, NEW k \in {"est", "mon", "rem"}, NEW s \in Sessions,
             Command(<<k, s>>), k = "mon" => mon[s] = "watching"
      PROVE  Inv'
  <2>1. <<k, s>> \in Procs /\ Owner(<<k, s>>) = s
    BY DEF Procs, Owner
  <2>2. StepOf(s)
    BY <1>1, <1>5, <2>1, CommandStep
  <2>3. StageOf(s)' /\ WatchOf(s)' /\ RemovalOf(s)'
    BY <1>1, <1>5, CommandStage, CommandWatch, CommandRemoval
  <2> QED BY <1>3, <1>5, <2>2, <2>3
<1>6. ASSUME UNCHANGED cfg, NEW s \in Sessions,
             \/ Apply(s) \/ StartMonitor(s) \/ RemoveBegins(s) \/ Subscribe(s) \/ Wake(s)
             \/ Present(s) \/ LateCommand(s)
      PROVE  Inv'
  <2>1. StepOf(s)
    BY <1>1, <1>6, ManagerStep, LateStep
  <2>2. StageOf(s)' /\ WatchOf(s)'
    BY <1>1, <1>6, ManagerStage, ManagerWatch
  <2>3. RemovalOf(s)'
    BY <1>1, <1>6, ManagerRemoval, LateRemoval
  <2> QED BY <1>3, <1>6, <2>1, <2>2, <2>3
<1>7. CASE Next
  <2>1. UNCHANGED cfg
    BY <1>7 DEF Next
  <2>2. CASE Reload
    BY <1>4, <2>1, <2>2
  <2>3. CASE \E s \in Sessions : Worker(s) \/ Remover(s) \/ MonitorLoop(s)
    <3>1. PICK s \in Sessions : Worker(s) \/ Remover(s) \/ MonitorLoop(s)
      BY <2>3
    <3>2. \/ \E k \in {"est", "rem"} : Command(<<k, s>>)
          \/ Command(<<"mon", s>>) /\ mon[s] = "watching"
          \/ Apply(s) \/ StartMonitor(s) \/ RemoveBegins(s) \/ Subscribe(s) \/ Wake(s)
          \/ Present(s) \/ LateCommand(s)
      BY <3>1 DEF Worker, Remover, MonitorLoop, Repair
    <3> QED BY <1>5, <1>6, <2>1, <3>2
  <2> QED BY <1>7, <2>2, <2>3 DEF Next
<1> QED BY <1>2, <1>7

(* Hence it always holds.                                                  *)
LEMMA Always == Spec => []Inv
BY Initially, Inductive, PTL DEF Spec

(* Every variable keeps its type.                                          *)
THEOREM TypeCorrect == Spec => []TypeOK
<1>1. Inv => TypeOK
  BY DEF Inv, Basic
<1> QED BY <1>1, Always, PTL

(* MonitorLoop (mssclamp.go) misses no change: whenever it waits for its   *)
(* next line, the session's rules are complete, for any number of          *)
(* sessions, reloads and failures, unless a command of the repair failed,  *)
(* the removal overtook Establish, or the rules went before nft monitor    *)
(* ran.                                                                    *)
THEOREM NothingMissed == Spec => []NoMissedReload
<1>1. Inv => NoMissedReload
  <2> SUFFICES ASSUME Inv, NEW s \in Sessions, exists, mon[s] = "watching", s \notin event,
                      job[<<"mon", s>>].at = "idle",
                      excuse[s] \cap {"unrepaired", "overtaken", "unseen"} = {}
               PROVE  Complete(s)
    BY DEF NoMissedReload
  <2>1. Progress(<<"mon", s>>)
    BY DEF Inv, WatchInv, WatchOf
  <2> QED BY <2>1 DEF Progress, Runs, Owner
<1> QED BY <1>1, Always, PTL

(* removeAndNotify (manager.go) with Remove (mssclamp.go): no monitor      *)
(* outlives the removal, and no rule is left behind but the one that a     *)
(* cancelled repair may still add, unless a command of the removal failed, *)
(* it overtook Establish, or another deletion came before its own.         *)
THEOREM NothingLeftBehind == Spec => []RemovalLeavesNothing
<1>1. Inv => RemovalLeavesNothing
  <2> SUFFICES ASSUME Inv, NEW s \in Sessions
               PROVE  /\ removal[s] # "none" /\ "overtaken" \notin excuse[s] => mon[s] \in {"off", "late"}
                      /\ removal[s] = "done" /\ Quiet(s) /\ mon[s] # "late"
                            /\ excuse[s] \cap {"unremoved", "overtaken", "robbed"} = {}
                         => /\ \A r, q \in Rules(s) : r = q
                            /\ Rules(s) # {} => "late" \in excuse[s]
    BY DEF RemovalLeavesNothing
  <2>1. StageOf(s) /\ RemovalOf(s)
    BY DEF Inv, StageInv, RemovalInv
  <2>2. removal[s] # "none" /\ "overtaken" \notin excuse[s] => mon[s] \in {"off", "late"}
    BY <2>1 DEF StageOf
  <2>3. ASSUME removal[s] = "done", excuse[s] \cap {"unremoved", "overtaken", "robbed"} = {}
        PROVE  Few(s, Rules(s))
    <3>1. Runs(<<"rem", s>>, "idle")
      BY <2>1, <2>3 DEF StageOf
    <3>2. Passed(s) = Rules(s)
      BY <3>1 DEF Passed
    <3> QED BY <2>1, <2>3, <3>2 DEF RemovalOf
  <2> QED BY <2>2, <2>3 DEF Few
<1> QED BY <1>1, Always, PTL

(* removeNFT (mssclamp.go) deletes by handle and still takes no rule of    *)
(* another session's, unless the table was loaded anew after it listed.    *)
THEOREM OwnRulesOnly == Spec => DeletesOwnRules
<1> DEFINE OwnRules == \A s \in Sessions, p \in Procs :
                Owner(p) # s /\ job[p].gen = gen /\ Delete(p)
                    => {r \in chain : r[2] \in Tags(s)} \subseteq chain'
<1>1. Inv /\ [Next]_vars => [OwnRules]_vars
  <2> SUFFICES ASSUME Inv, NEW s \in Sessions, NEW p \in Procs, Owner(p) # s, job[p].gen = gen, Delete(p),
                      NEW r \in chain, r[2] \in Tags(s)
               PROVE  r \in chain'
    OBVIOUS
  <2>1. PICK h \in job[p].todo : DeleteRule(p, h)
    BY DEF Delete, First
  <2>2. Runs(p, "delete") /\ chain' = {q \in chain : q[1] # h}
    BY <2>1 DEF DeleteRule, Shrink
  <2>3. r[1] = h => r[2] \in Tags(Owner(p))
    BY <2>2 DEF Inv, Basic, HandleInv
  <2>4. r[2] \notin Tags(Owner(p))
    BY OtherTags DEF Inv, Basic, TypeOK
  <2> QED BY <2>2, <2>3, <2>4
<1> QED BY <1>1, Always, PTL DEF DeletesOwnRules, Spec

=============================================================================
