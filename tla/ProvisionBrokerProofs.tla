----------------------- MODULE ProvisionBrokerProofs -----------------------
(***************************************************************************)
(* Proofs about ProvisionBroker for every set of calls and names.  Shape   *)
(* says which call may own which link and holds however requests overlap;  *)
(* Serial adds what holds when calls on one name do not overlap.  The      *)
(* proofs rest on one observation, LinkDelIsLocal: although a link is      *)
(* deleted by index, a handler only ever holds an index that was resolved  *)
(* from its own name, so that what it deletes carries that name.           *)
(***************************************************************************)
EXTENDS ProvisionBroker, TLAPS

(* Most leaves are first-order: each is tried with Zenon before SMT.       *)
USE ZenonT(4), SMTT(20), ZenonT(20), SMTT(40)

Ours == Grem \cup Pinned

Homed(c) ==
    /\ idx[c] \in Calls => name[idx[c]] = name[c]
    /\ idx[c] \in Names => idx[c] = name[c]
    /\ idx[c] # NoCall

Shape ==
    /\ \A n \in Names : link[n] \in Calls =>
         name[link[n]] = n /\ n \in Ours /\ pc[link[n]] # "none"
    /\ \A n \in Names : link[n] \in Names => link[n] = n
    /\ \A c \in Calls : pc[c] \in EnsureSteps \cup RemoveSteps => name[c] \in Ours
    /\ \A c \in Calls : pc[c] \in {"delete", "configure", "cleanup", "destroy"} => Homed(c)
    /\ ~up => Quiet
    /\ \A c \in past : pc[c] = "done"
    /\ NoLeftovers

Inv == TypeOK /\ Shape

LEMMA TypeInit == Init => TypeOK
  <1> SUFFICES ASSUME Init PROVE TypeOK
    OBVIOUS
  <1>1. link \in [Names -> Links]
    BY DEF Init, Links, Names
  <1>2. QED
    BY <1>1 DEF Init, TypeOK, Running, Links

(* Deleting the index a handler resolved only affects the handler's name.   *)
LEMMA LinkDelIsLocal ==
    ASSUME Inv, NEW c \in Calls, Homed(c)
    PROVE  /\ linkDel(idx[c]) \in [Names -> Links]
           /\ linkDel(idx[c])[name[c]] \in {link[name[c]], NoCall}
           /\ \A n \in Names : n # name[c] => linkDel(idx[c])[n] = link[n]
  <1>1. name[c] \in Names /\ idx[c] \in Links
    BY DEF Inv, TypeOK
  <1>2. ASSUME NEW n \in Names, link[n] = idx[c] PROVE n = name[c]
    BY <1>1, <1>2 DEF Inv, Shape, Homed, Links
  <1>3. QED
    BY <1>1, <1>2 DEF linkDel, Inv, TypeOK, Links

LEMMA TypeExit == TypeOK /\ Exit => TypeOK'
  <1> SUFFICES ASSUME TypeOK, Exit PROVE TypeOK'
    OBVIOUS
  <1>1. pc' \in [Calls -> Running \cup {"none", "done"}]
    BY DEF Exit, TypeOK
  <1>2. answer' \in [Calls -> {"none", "waiting", "ok", "error"}]
    BY DEF Exit, TypeOK
  <1>3. created' = {} /\ up' = FALSE
    BY Zenon DEF Exit
  <1>4. UNCHANGED <<link, op, name, idx, last, past>>
    BY DEF Exit
  <1>5. QED
    BY <1>1, <1>2, <1>3, <1>4, Zenon DEF TypeOK

LEMMA TypeStep == Inv /\ [Next]_vars => TypeOK'
  <1> SUFFICES ASSUME Inv, [Next]_vars PROVE TypeOK'
    OBVIOUS
  <1> USE DEF Inv, TypeOK, Goto, Running, EnsureSteps, RemoveSteps, Links, caller
  <1>1. ASSUME NEW i PROVE linkDel(i) \in [Names -> Links]
    BY DEF linkDel
  <1>2. ASSUME NEW c \in Calls, call(c) \/ DialFails(c) \/ TimesOut(c) PROVE TypeOK'
    BY <1>2 DEF call, DialFails, TimesOut
  <1>3. ASSUME NEW c \in Calls, handle(c) \/ reply(c) PROVE TypeOK'
    BY <1>3 DEF handle, refuse, reply
  <1>4. ASSUME NEW c \in Calls, EnsureLookup(c) \/ EnsureLocate(c) \/ RemoveFind(c) PROVE TypeOK'
    BY <1>4 DEF EnsureLookup, EnsureLocate, RemoveFind, linkIndex
  <1>5. ASSUME NEW c \in Calls, EnsureDelete(c) \/ EnsureCleanup(c) \/ RemoveDestroy(c) PROVE TypeOK'
    BY <1>1, <1>5 DEF EnsureDelete, EnsureCleanup, RemoveDestroy
  <1>6. ASSUME NEW c \in Calls, createGRE(c) PROVE TypeOK'
    BY <1>6 DEF createGRE
  <1>7. ASSUME NEW c \in Calls, EnsureConfigure(c) \/ wasCreated(c) PROVE TypeOK'
    BY <1>7 DEF EnsureConfigure, wasCreated
  <1>8. ASSUME NEW c \in Calls, markCreated(c) \/ markRemoved(c) PROVE TypeOK'
    BY <1>8 DEF markCreated, markRemoved, Shape, Ours
  <1>9. CASE Exit
    BY <1>9, TypeExit
  <1>10. CASE Restart
    BY <1>10 DEF Restart
  <1>11. CASE RestartFails
    BY <1>11 DEF RestartFails
  <1>12. CASE UNCHANGED vars
    BY <1>12 DEF vars
  <1>13. QED
    BY <1>2, <1>3, <1>4, <1>5, <1>6, <1>7, <1>8, <1>9, <1>10, <1>11, <1>12
    DEF Next, Ensure, Remove

(* A step that moves one handler and touches no link, mark or history.      *)
LEMMA ShapeMove ==
    ASSUME Inv, NEW c \in Calls, NEW s, Goto(c, s), pc[c] # "done", s # "none",
           s \in EnsureSteps \cup RemoveSteps => name[c] \in Ours,
           s \in {"delete", "configure", "cleanup", "destroy"} => Homed(c)',
           s \in Running => up,
           \A d \in Calls : d # c => idx'[d] = idx[d],
           UNCHANGED <<up, name, past>>,
           \A n \in Names : n # name[c] => link'[n] = link[n],
           link'[name[c]] \in {link[name[c]], NoCall, c},
           link'[name[c]] = link[name[c]] \/ name[c] \in Ours
    PROVE  Shape'
  <1> USE DEF Inv, TypeOK
  <1>0. /\ \A d \in Calls : d # c => pc'[d] = pc[d]
        /\ pc'[c] = s
        /\ name[c] \in Names
    BY DEF Goto
  <1>1. (\A n \in Names : link[n] \in Calls =>
           name[link[n]] = n /\ n \in Ours /\ pc[link[n]] # "none")'
    <2> SUFFICES ASSUME NEW n \in Names, link'[n] \in Calls
                 PROVE  name[link'[n]] = n /\ n \in Ours /\ pc'[link'[n]] # "none"
      OBVIOUS
    <2>1. CASE link'[n] = link[n]
      BY <1>0, <2>1 DEF Shape
    <2>2. CASE link'[n] # link[n]
      <3>1. n = name[c]
        BY <2>2
      <3>2. link'[n] = c
        BY <2>2, <3>1, BrokerAssumption
      <3>3. QED
        BY <1>0, <2>2, <3>1, <3>2
    <2>3. QED
      BY <2>1, <2>2
  <1>2. (\A n \in Names : link[n] \in Names => link[n] = n)'
    BY <1>0, BrokerAssumption DEF Shape, Names
  <1>3. (\A d \in Calls : pc[d] \in EnsureSteps \cup RemoveSteps => name[d] \in Ours)'
    BY <1>0 DEF Shape
  <1>4. (\A d \in Calls : pc[d] \in {"delete", "configure", "cleanup", "destroy"} => Homed(d))'
    BY <1>0 DEF Shape, Homed
  <1>5. (~up => Quiet)'
    BY <1>0 DEF Shape, Quiet
  <1>6. (\A d \in past : pc[d] = "done")'
    BY <1>0 DEF Shape
  <1>7. NoLeftovers'
    BY <1>0, BrokerAssumption DEF Shape, NoLeftovers
  <1>8. QED
    BY <1>1, <1>2, <1>3, <1>4, <1>5, <1>6, <1>7 DEF Shape

LEMMA ShapeStep == Inv /\ [Next]_vars => Shape'
  <1> SUFFICES ASSUME Inv, [Next]_vars PROVE Shape'
    OBVIOUS
  <1> USE DEF Inv
  <1>0. ASSUME NEW c \in Calls, pc[c] \in Running PROVE up
    BY <1>0 DEF Shape, Quiet
  <1>a. /\ \A s \in {"read", "fail", "done"} : s \notin EnsureSteps \cup RemoveSteps
        /\ "read" \in Running /\ "fail" \in Running /\ "done" \notin Running
    BY DEF Running, EnsureSteps, RemoveSteps
  <1>1. ASSUME NEW c \in Calls, call(c) PROVE Shape'
    <2>1. name[c] \in Names /\ "read" \notin EnsureSteps \cup RemoveSteps
      BY <1>a DEF TypeOK
    <2>2. QED
      BY <1>1, <2>1, ShapeMove DEF call
  <1>2. ASSUME NEW c \in Calls, DialFails(c) PROVE Shape'
    <2>1. name[c] \in Names /\ "done" \notin Running /\ "done" \notin EnsureSteps \cup RemoveSteps
      BY <1>a DEF TypeOK
    <2>2. QED
      BY <1>2, <2>1, ShapeMove DEF DialFails
  <1>3. ASSUME NEW c \in Calls, TimesOut(c) PROVE Shape'
    BY <1>3 DEF TimesOut, Shape, Homed, Quiet, NoLeftovers
  <1>4. ASSUME NEW c \in Calls, handle(c) PROVE Shape'
    <2>1. UNCHANGED <<link, up, name, idx, past>> /\ pc[c] = "read" /\ up
      BY <1>0, <1>4 DEF handle, refuse, caller, Running
    <2>2. CASE Goto(c, "fail")
      <3>1. name[c] \in Names /\ "fail" \notin EnsureSteps \cup RemoveSteps
        BY <1>a DEF TypeOK
      <3>2. QED
        BY <2>1, <2>2, <3>1, ShapeMove
    <2>3. CASE validateName(name[c]) /\ Goto(c, "lookup")
      BY <2>1, <2>3, ShapeMove DEF validateName, Ours, TypeOK
    <2>4. CASE validateName(name[c]) /\ Goto(c, "check")
      BY <2>1, <2>4, ShapeMove DEF validateName, Ours, TypeOK
    <2>5. QED
      BY <1>4, <2>2, <2>3, <2>4 DEF handle, refuse
  <1>5. ASSUME NEW c \in Calls, reply(c) PROVE Shape'
    <2>1. UNCHANGED <<link, up, name, idx, past>> /\ pc[c] \in {"succeed", "fail"} /\ Goto(c, "done")
      BY <1>5 DEF reply
    <2>2. QED
      <3>1. name[c] \in Names /\ "done" \notin Running /\ "done" \notin EnsureSteps \cup RemoveSteps
        BY <1>a DEF TypeOK
      <3>2. QED
        BY <2>1, <3>1, ShapeMove
  (* The three lookups by name.                                             *)
  <1>6. ASSUME NEW c \in Calls, NEW from, NEW to, pc[c] = from,
               from \in {"lookup", "locate", "find"}, to \in {"delete", "configure", "destroy"},
               link[name[c]] # NoCall, Goto(c, to), idx' = [idx EXCEPT ![c] = link[name[c]]],
               UNCHANGED <<link, up, name, past>>
        PROVE  Shape'
    <2>1. up /\ name[c] \in Ours /\ pc[c] \in EnsureSteps \cup RemoveSteps
      BY <1>0, <1>6 DEF Running, EnsureSteps, RemoveSteps, Shape
    <2>2. name[c] \in Names /\ idx'[c] = link[name[c]] /\ \A d \in Calls : d # c => idx'[d] = idx[d]
      BY <1>6 DEF TypeOK
    <2>3. Homed(c)'
      BY <1>6, <2>2 DEF Homed, Shape
    <2>4. QED
      BY <1>6, <2>1, <2>2, <2>3, ShapeMove
  (* Steps of a handler that leave the links alone.                         *)
  <1>7. ASSUME NEW c \in Calls, NEW to, pc[c] \in Running, Goto(c, to),
               to \in Running \ {"delete", "configure", "destroy"},
               pc[c] \in EnsureSteps \cup RemoveSteps, to = "cleanup" => Homed(c),
               UNCHANGED <<link, up, name, idx, past>>
        PROVE  Shape'
    <2>1. up /\ name[c] \in Ours
      BY <1>0, <1>7 DEF Shape
    <2>2. to # "none" /\ pc[c] # "done" /\ name[c] \in Names
      BY <1>7 DEF Running, EnsureSteps, RemoveSteps, TypeOK
    <2>3. Homed(c) => Homed(c)'
      BY <1>7 DEF Homed
    <2>4. QED
      BY <1>7, <2>1, <2>2, <2>3, ShapeMove
  <1>8. ASSUME NEW c \in Calls, EnsureLookup(c) PROVE Shape'
    BY <1>6, <1>7, <1>8 DEF EnsureLookup, linkIndex, caller, Running, EnsureSteps
  <1>9. ASSUME NEW c \in Calls, EnsureLocate(c) PROVE Shape'
    BY <1>6, <1>7, <1>9 DEF EnsureLocate, linkIndex, caller, Running, EnsureSteps
  <1>10. ASSUME NEW c \in Calls, RemoveFind(c) PROVE Shape'
    BY <1>6, <1>7, <1>10 DEF RemoveFind, linkIndex, caller, Running, RemoveSteps
  <1>11. ASSUME NEW c \in Calls, EnsureConfigure(c) PROVE Shape'
    <2>1. Homed(c)
      BY <1>11 DEF EnsureConfigure, Shape
    <2>2. QED
      BY <1>7, <1>11, <2>1 DEF EnsureConfigure, caller, Running, EnsureSteps
  <1>12. ASSUME NEW c \in Calls, wasCreated(c) PROVE Shape'
    BY <1>7, <1>12 DEF wasCreated, caller, Running, RemoveSteps
  <1>13. ASSUME NEW c \in Calls, markCreated(c) \/ markRemoved(c) PROVE Shape'
    BY <1>7, <1>13 DEF markCreated, markRemoved, caller, Running, EnsureSteps, RemoveSteps
  (* Deletions by index.                                                    *)
  <1>14. ASSUME NEW c \in Calls, NEW to, pc[c] \in {"delete", "cleanup", "destroy"},
                Goto(c, to), to \in {"create", "fail", "unmark"},
                link' = linkDel(idx[c]) \/ UNCHANGED link,
                UNCHANGED <<up, name, idx, past>>
         PROVE  Shape'
    <2>1. up /\ name[c] \in Ours /\ Homed(c)
      BY <1>0, <1>14 DEF Running, EnsureSteps, RemoveSteps, Shape
    <2>2. /\ \A n \in Names : n # name[c] => link'[n] = link[n]
          /\ link'[name[c]] \in {link[name[c]], NoCall}
      BY <1>14, <2>1, LinkDelIsLocal
    <2>3. link'[name[c]] \in {link[name[c]], NoCall, c}
      BY <2>2
    <2>4. to # "none" /\ pc[c] # "done" /\ to \notin {"delete", "configure", "cleanup", "destroy"}
      BY <1>14
    <2>5. \A d \in Calls : d # c => idx'[d] = idx[d]
      BY <1>14
    <2>6. QED
      BY <1>14, <2>1, <2>2, <2>3, <2>4, <2>5, ShapeMove
  <1>15. ASSUME NEW c \in Calls, EnsureDelete(c) \/ EnsureCleanup(c) \/ RemoveDestroy(c)
         PROVE  Shape'
    BY <1>14, <1>15 DEF EnsureDelete, EnsureCleanup, RemoveDestroy, caller
  <1>16. ASSUME NEW c \in Calls, createGRE(c) PROVE Shape'
    <2>1. up /\ name[c] \in Ours /\ name[c] \in Names
      BY <1>0, <1>16 DEF createGRE, Running, EnsureSteps, Shape, TypeOK
    <2>2. CASE link' = [link EXCEPT ![name[c]] = c] /\ Goto(c, "locate")
      <3>1. link'[name[c]] = c /\ \A n \in Names : n # name[c] => link'[n] = link[n]
        BY <2>1, <2>2 DEF TypeOK
      <3>2. QED
        BY <1>16, <2>1, <2>2, <3>1, ShapeMove DEF createGRE, caller
    <2>3. CASE Goto(c, "fail") /\ UNCHANGED link
      BY <1>16, <2>1, <2>3, ShapeMove DEF createGRE, caller
    <2>4. QED
      BY <1>16, <2>2, <2>3 DEF createGRE
  <1>17. CASE Exit
    <2>1. \A c \in Calls : pc'[c] \notin Running /\ (pc'[c] # pc[c] => pc'[c] = "done")
      BY <1>17 DEF Exit, TypeOK, Running, EnsureSteps, RemoveSteps
    <2>2. UNCHANGED <<link, name, idx, past>> /\ up' = FALSE
      BY <1>17 DEF Exit
    <2>3. \A c \in Calls : pc'[c] \notin EnsureSteps \cup RemoveSteps
      BY <2>1 DEF Running
    <2>4. Quiet' /\ NoLeftovers'
      BY <2>1, <2>2 DEF Quiet, NoLeftovers
    <2>5. (\A c \in past : pc[c] = "done")'
      BY <2>1, <2>2 DEF Shape, TypeOK
    <2>6. (\A n \in Names : link[n] \in Calls =>
             name[link[n]] = n /\ n \in Ours /\ pc[link[n]] # "none")'
      BY <2>1, <2>2 DEF Shape
    <2>7. QED
      BY <2>2, <2>3, <2>4, <2>5, <2>6 DEF Shape, EnsureSteps, RemoveSteps
  <1>18. ASSUME \A n \in Names : link'[n] \in {link[n], NoCall},
                UNCHANGED <<pc, name, idx>>, ~up,
                (past' = past /\ up' = up) \/ past' = {c \in Calls : pc[c] # "none"},
                NoLeftovers'
         PROVE  Shape'
    <2>1. Quiet /\ Quiet'
      BY <1>18 DEF Shape, Quiet
    <2>2. (\A c \in past : pc[c] = "done")'
      BY <1>18, <2>1 DEF Shape, Quiet, TypeOK
    <2>3. (\A n \in Names : link[n] \in Calls =>
             name[link[n]] = n /\ n \in Ours /\ pc[link[n]] # "none")'
      BY <1>18, BrokerAssumption DEF Shape
    <2>4. (\A n \in Names : link[n] \in Names => link[n] = n)'
      BY <1>18, BrokerAssumption DEF Shape, Names
    <2>5. QED
      BY <1>18, <2>1, <2>2, <2>3, <2>4 DEF Shape, Homed
  <1>19. CASE Restart
    <2>1. \A n \in Names : link'[n] = IF n \in Stale THEN NoCall ELSE link[n]
      BY <1>19 DEF Restart
    <2>2. \A n \in Names : link'[n] \notin Calls
      BY <2>1, BrokerAssumption DEF Stale, RemovePrefix, RemoveNamedGRE, Shape, Ours
    <2>3. NoLeftovers'
      BY <1>19, <2>2 DEF Restart, NoLeftovers
    <2>4. QED
      BY <1>18, <1>19, <2>1, <2>3 DEF Restart
  <1>20. CASE RestartFails
    <2>1. PICK gone \in SUBSET Stale :
             link' = [n \in Names |-> IF n \in gone THEN NoCall ELSE link[n]]
      BY <1>20 DEF RestartFails
    <2>2. \A n \in Names : link'[n] \in {link[n], NoCall}
      BY <2>1
    <2>3. QED
      BY <1>18, <1>20, <2>2 DEF RestartFails, caller, NoLeftovers
  <1>21. CASE UNCHANGED vars
    BY <1>21 DEF vars, Shape, Homed, Quiet, NoLeftovers
  <1>22. QED
    BY <1>1, <1>2, <1>3, <1>4, <1>5, <1>8, <1>9, <1>10, <1>11, <1>12, <1>13, <1>15, <1>16,
       <1>17, <1>19, <1>20, <1>21
    DEF Next, Ensure, Remove

LEMMA ShapeInvariant == Spec => []Inv
  <1>1. Init => Inv
    <2> SUFFICES ASSUME Init PROVE Shape
      BY TypeInit DEF Inv
    <2>1. \A n \in Names : link[n] \in {n, NoCall}
      BY DEF Init
    <2>2. \A n \in Names : link[n] \notin Calls
      BY <2>1, BrokerAssumption DEF Names
    <2>3. \A n \in Names : link[n] \in Names => link[n] = n
      BY <2>1, BrokerAssumption DEF Names
    <2>4. \A c \in Calls : pc[c] = "none"
      BY DEF Init
    <2>5. ~up /\ past = {}
      BY DEF Init
    <2>6. "none" \notin Running /\ "none" \notin EnsureSteps \cup RemoveSteps
      BY DEF Running, EnsureSteps, RemoveSteps
    <2>7. Quiet
      BY <2>4, <2>6 DEF Quiet
    <2>8. QED
      BY <2>2, <2>3, <2>4, <2>5, <2>6, <2>7 DEF Shape, NoLeftovers, EnsureSteps, RemoveSteps
  <1>2. Inv /\ [Next]_vars => Inv'
    BY TypeStep, ShapeStep DEF Inv
  <1>3. QED
    BY <1>1, <1>2, PTL DEF Spec

(* The variables of the broker keep their types, however requests overlap.  *)
THEOREM BrokerTypeCorrect == Spec => []TypeOK
  BY ShapeInvariant, PTL DEF Inv

(* After the sweep of runNetlinkd no GRE link of an earlier broker is left  *)
(* under any name, however requests overlapped before it went down.         *)
THEOREM SweepIsComplete == Spec => []NoLeftovers
  <1>1. Inv => NoLeftovers
    BY DEF Inv, Shape
  <1>2. QED
    BY <1>1, ShapeInvariant, PTL

-----------------------------------------------------------------------------
(* What holds besides of the names whose calls do not overlap.              *)
Alone(c) == name[c] \notin Overlap

Told(c) ==
    \/ op[c] = "ensure" /\ link[name[c]] = c /\ name[c] \in created
    \/ op[c] = "remove" /\ name[c] \notin created

Serial ==
    /\ \A c, d \in Calls :
         (Alone(c) /\ pc[c] \in Running /\ pc[d] \in Running /\ name[c] = name[d]) => c = d
    /\ \A n \in Names : last[n] # NoCall => name[last[n]] = n
    /\ \A c \in Calls : Alone(c) /\ pc[c] \in Running => last[name[c]] = c
    /\ \A c \in Calls : pc[c] \in EnsureSteps => op[c] = "ensure"
    /\ \A c \in Calls : pc[c] \in RemoveSteps => op[c] = "remove"
    /\ \A c \in Calls : Alone(c) /\ pc[c] \in {"locate", "configure", "mark"} => link[name[c]] = c
    /\ \A c \in Calls : Alone(c) /\ pc[c] = "succeed" => Told(c)
    /\ \A c \in Calls : answer[c] = "ok" => pc[c] = "done"
    /\ \A c \in Calls : (Alone(c) /\ up /\ last[name[c]] = c /\ answer[c] = "ok") => Told(c)

LEMMA SerialAnswers == TypeOK /\ Serial => AnswersAreTrue
  <1> SUFFICES ASSUME TypeOK, Serial, NEW n \in Names \ Overlap, NEW c \in Calls,
                      up, last[n] = c, answer[c] = "ok"
               PROVE  \/ op[c] = "ensure" /\ link[n] = c /\ n \in created
                      \/ op[c] = "remove" /\ n \notin created
    BY DEF AnswersAreTrue
  <1>1. name[c] = n
    BY BrokerAssumption DEF Serial
  <1>2. Told(c)
    BY <1>1 DEF Serial, Alone
  <1>3. QED
    BY <1>1, <1>2 DEF Told

(* A step of the handler of c that changes nothing under another name.      *)
LEMMA SerialMove ==
    ASSUME Inv, Serial, NEW c \in Calls, NEW s, pc[c] \in Running, s \in Running, Goto(c, s),
           UNCHANGED <<up, op, name, answer, last>>,
           \A n \in Names : n # name[c] => link'[n] = link[n] /\ (n \in created' <=> n \in created),
           s \in EnsureSteps => op[c] = "ensure",
           s \in RemoveSteps => op[c] = "remove",
           Alone(c) /\ s \in {"locate", "configure", "mark"} => link'[name[c]] = c,
           Alone(c) /\ s = "succeed" => Told(c)'
    PROVE  Serial'
  <1> USE DEF Inv, TypeOK
  <1>0. /\ \A d \in Calls : d # c => pc'[d] = pc[d]
        /\ pc'[c] = s
        /\ name[c] \in Names
        /\ \A d \in Calls : name[d] \in Names
    BY DEF Goto
  <1>1. \A d \in Calls : pc'[d] \in Running => pc[d] \in Running
    BY <1>0
  <1>2. \A d \in Calls : Alone(d) /\ d # c /\ pc[d] \in Running => name[d] # name[c]
    BY DEF Serial
  <1>3. \A d \in Calls : name[d] # name[c] /\ Told(d) => Told(d)'
    BY <1>0 DEF Told
  <1>4. (\A d, e \in Calls :
          (Alone(d) /\ pc[d] \in Running /\ pc[e] \in Running /\ name[d] = name[e]) => d = e)'
    BY <1>1 DEF Serial, Alone
  <1>5. (\A n \in Names : last[n] # NoCall => name[last[n]] = n)'
    BY DEF Serial
  <1>6. (\A d \in Calls : Alone(d) /\ pc[d] \in Running => last[name[d]] = d)'
    BY <1>1 DEF Serial, Alone
  <1>7. /\ (\A d \in Calls : pc[d] \in EnsureSteps => op[d] = "ensure")'
        /\ (\A d \in Calls : pc[d] \in RemoveSteps => op[d] = "remove")'
    BY <1>0 DEF Serial
  <1>8. (\A d \in Calls : Alone(d) /\ pc[d] \in {"locate", "configure", "mark"} => link[name[d]] = d)'
    <2> SUFFICES ASSUME NEW d \in Calls, Alone(d), pc'[d] \in {"locate", "configure", "mark"}
                 PROVE  link'[name[d]] = d
      BY DEF Alone
    <2>1. CASE d = c
      BY <1>0, <2>1
    <2>2. CASE d # c
      <3>1. pc[d] \in {"locate", "configure", "mark"} /\ pc[d] \in Running
        BY <1>0, <2>2 DEF Running, EnsureSteps
      <3>2. QED
        BY <1>0, <1>2, <2>2, <3>1 DEF Serial
    <2>3. QED
      BY <2>1, <2>2
  <1>9. (\A d \in Calls : Alone(d) /\ pc[d] = "succeed" => Told(d))'
    <2> SUFFICES ASSUME NEW d \in Calls, Alone(d), pc'[d] = "succeed" PROVE Told(d)'
      BY DEF Alone
    <2>1. CASE d = c
      BY <1>0, <2>1
    <2>2. CASE d # c
      <3>1. pc[d] = "succeed" /\ pc[d] \in Running
        BY <1>0, <2>2 DEF Running
      <3>2. QED
        BY <1>2, <1>3, <2>2, <3>1 DEF Serial
    <2>3. QED
      BY <2>1, <2>2
  <1>10. \A d \in Calls : answer[d] = "ok" => pc[d] = "done" /\ d # c /\ pc'[d] = "done"
    BY <1>0 DEF Serial, Running, EnsureSteps, RemoveSteps
  <1>11. (\A d \in Calls : (Alone(d) /\ up /\ last[name[d]] = d /\ answer[d] = "ok") => Told(d))'
    <2> SUFFICES ASSUME NEW d \in Calls, Alone(d), up, last[name[d]] = d, answer[d] = "ok" PROVE Told(d)'
      BY DEF Alone
    <2>1. name[d] # name[c]
      BY <1>10 DEF Serial, Alone
    <2>2. QED
      BY <1>3, <2>1 DEF Serial
  <1>12. QED
    BY <1>4, <1>5, <1>6, <1>7, <1>8, <1>9, <1>10, <1>11 DEF Serial

(* Steps after which no handler runs and nobody relies on an answer.        *)
LEMMA SerialDown ==
    ASSUME Inv, Serial, Quiet', ~up \/ ~up', UNCHANGED <<op, name>>,
           last' = last \/ last' = [n \in Names |-> NoCall],
           up' => last' = [n \in Names |-> NoCall],
           \A c \in Calls : pc'[c] # pc[c] => pc'[c] = "done",
           \A c \in Calls : answer'[c] = "ok" => answer[c] = "ok"
    PROVE  Serial'
  <1> USE DEF Inv, TypeOK
  <1>1. \A c \in Calls : pc'[c] \notin Running /\ pc'[c] \notin EnsureSteps
                         /\ pc'[c] \notin RemoveSteps /\ pc'[c] # "succeed"
                         /\ pc'[c] \notin {"locate", "configure", "mark"}
    BY DEF Quiet, Running, EnsureSteps
  <1>2. (\A n \in Names : last[n] # NoCall => name[last[n]] = n)'
    BY DEF Serial
  <1>3. (\A c \in Calls : answer[c] = "ok" => pc[c] = "done")'
    BY DEF Serial
  <1>4. (\A c \in Calls : (Alone(c) /\ up /\ last[name[c]] = c /\ answer[c] = "ok") => Told(c))'
    BY BrokerAssumption
  <1>5. QED
    BY <1>1, <1>2, <1>3, <1>4 DEF Serial

LEMMA SerialStep ==
    Inv /\ Serial /\ [Next]_vars => Serial'
  <1> SUFFICES ASSUME Inv, Serial, [Next]_vars PROVE Serial'
    OBVIOUS
  <1> USE DEF Inv
  <1>a. /\ EnsureSteps \subseteq Running /\ RemoveSteps \subseteq Running
        /\ EnsureSteps \cap RemoveSteps = {}
        /\ {"read", "succeed", "fail"} \subseteq Running
        /\ {"read", "succeed", "fail"} \cap (EnsureSteps \cup RemoveSteps) = {}
        /\ "none" \notin Running /\ "done" \notin Running
        /\ "succeed" \notin EnsureSteps \cup RemoveSteps
    BY DEF Running, EnsureSteps, RemoveSteps
  <1>b. /\ EnsureSteps = {"lookup", "delete", "create", "locate", "configure", "cleanup", "mark"}
        /\ RemoveSteps = {"check", "find", "destroy", "unmark"}
    BY DEF EnsureSteps, RemoveSteps
  (* A handler that touches neither links nor marks.                        *)
  <1>1. ASSUME NEW c \in Calls, NEW s, pc[c] \in Running, Goto(c, s),
               s \in Running \ {"succeed"},
               UNCHANGED <<link, created, up, op, name, answer, last>>,
               s \in EnsureSteps => op[c] = "ensure",
               s \in RemoveSteps => op[c] = "remove",
               Alone(c) /\ s \in {"locate", "configure", "mark"} => link[name[c]] = c
        PROVE  Serial'
    BY <1>1, SerialMove
  <1>2. ASSUME NEW c \in Calls, handle(c) PROVE Serial'
    BY <1>1, <1>2, <1>a, <1>b DEF handle, refuse, caller
  <1>3. ASSUME NEW c \in Calls, EnsureLookup(c) PROVE Serial'
    <2>1. op[c] = "ensure" /\ pc[c] \in Running
      BY <1>3, <1>a, <1>b DEF EnsureLookup, Serial
    <2>2. QED
      BY <1>1, <1>3, <2>1, <1>a, <1>b DEF EnsureLookup, linkIndex, caller
  <1>4. ASSUME NEW c \in Calls, EnsureLocate(c) PROVE Serial'
    <2>1. op[c] = "ensure" /\ pc[c] \in Running /\ (Alone(c) => link[name[c]] = c)
      BY <1>4, <1>a, <1>b DEF EnsureLocate, Serial
    <2>2. QED
      BY <1>1, <1>4, <2>1, <1>a, <1>b DEF EnsureLocate, linkIndex, caller
  <1>5. ASSUME NEW c \in Calls, EnsureConfigure(c) PROVE Serial'
    <2>1. op[c] = "ensure" /\ pc[c] \in Running /\ (Alone(c) => link[name[c]] = c)
      BY <1>5, <1>a, <1>b DEF EnsureConfigure, Serial
    <2>2. QED
      BY <1>1, <1>5, <2>1, <1>a, <1>b DEF EnsureConfigure, caller
  <1>6. ASSUME NEW c \in Calls, wasCreated(c) \/ RemoveFind(c) PROVE Serial'
    <2>1. op[c] = "remove" /\ pc[c] \in Running
      BY <1>6, <1>a, <1>b DEF wasCreated, RemoveFind, Serial
    <2>2. QED
      BY <1>1, <1>6, <2>1, <1>a, <1>b DEF wasCreated, RemoveFind, caller
  (* Deletions by index: only the handler's own name.                       *)
  <1>7. ASSUME NEW c \in Calls, NEW s, pc[c] \in {"delete", "cleanup", "destroy"}, Goto(c, s),
               s \in {"create", "fail", "unmark"},
               link' = linkDel(idx[c]) \/ UNCHANGED link,
               UNCHANGED <<created, up, op, name, answer, last>>,
               s = "create" => op[c] = "ensure", s = "unmark" => op[c] = "remove"
        PROVE  Serial'
    <2>1. \A n \in Names : n # name[c] => link'[n] = link[n]
      BY <1>7, LinkDelIsLocal DEF Shape
    <2>2. pc[c] \in Running /\ s \in Running
      BY <1>7, <1>a, <1>b
    <2>3. s \in EnsureSteps => op[c] = "ensure"
      BY <1>7, <1>b
    <2>4. s \in RemoveSteps => op[c] = "remove"
      BY <1>7, <1>b
    <2>5. QED
      BY <1>7, <2>1, <2>2, <2>3, <2>4, SerialMove
  <1>8. ASSUME NEW c \in Calls, EnsureDelete(c) \/ EnsureCleanup(c) \/ RemoveDestroy(c)
        PROVE  Serial'
    BY <1>7, <1>8, <1>b DEF EnsureDelete, EnsureCleanup, RemoveDestroy, caller, Serial
  <1>9. ASSUME NEW c \in Calls, createGRE(c) PROVE Serial'
    <2>1. op[c] = "ensure" /\ pc[c] \in Running /\ name[c] \in Names
      BY <1>9, <1>a, <1>b DEF createGRE, Serial, TypeOK
    <2>2. CASE link' = [link EXCEPT ![name[c]] = c] /\ Goto(c, "locate")
      <3>1. link'[name[c]] = c /\ \A n \in Names : n # name[c] => link'[n] = link[n]
        BY <2>1, <2>2 DEF TypeOK
      <3>2. "locate" \in Running /\ "locate" \notin RemoveSteps
        BY <1>a, <1>b
      <3>3. QED
        BY <1>9, <2>1, <2>2, <3>1, <3>2, SerialMove DEF createGRE, caller
    <2>3. CASE Goto(c, "fail") /\ UNCHANGED link
      BY <1>1, <1>9, <2>1, <2>3, <1>a DEF createGRE, caller
    <2>4. QED
      BY <1>9, <2>2, <2>3 DEF createGRE
  <1>10. ASSUME NEW c \in Calls, markCreated(c) PROVE Serial'
    <2>1. op[c] = "ensure" /\ pc[c] \in Running /\ (Alone(c) => link[name[c]] = c)
      BY <1>10, <1>a, <1>b DEF markCreated, Serial
    <2>2. (Alone(c) => Told(c)') /\ \A n \in Names : n # name[c] => (n \in created' <=> n \in created)
      BY <1>10, <2>1 DEF markCreated, Told
    <2>3. QED
      BY <1>10, <2>1, <2>2, <1>a, SerialMove DEF markCreated, caller
  <1>11. ASSUME NEW c \in Calls, markRemoved(c) PROVE Serial'
    <2>1. op[c] = "remove" /\ pc[c] \in Running
      BY <1>11, <1>a, <1>b DEF markRemoved, Serial
    <2>2. Told(c)' /\ \A n \in Names : n # name[c] => (n \in created' <=> n \in created)
      BY <1>11, <2>1 DEF markRemoved, Told
    <2>3. QED
      BY <1>11, <2>1, <2>2, <1>a, SerialMove DEF markRemoved, caller
  <1>12. ASSUME NEW c \in Calls, DialFails(c) \/ TimesOut(c) PROVE Serial'
    BY <1>12, <1>a DEF DialFails, TimesOut, Goto, Serial, Told, Alone, TypeOK
  <1>13. ASSUME NEW c \in Calls, reply(c) PROVE Serial'
    BY <1>13, <1>a DEF reply, Goto, Serial, Told, Alone, TypeOK
  <1>14. ASSUME NEW c \in Calls, call(c) PROVE Serial'
    BY <1>14, <1>a DEF call, Goto, Serial, Told, Alone, TypeOK
  <1>15. CASE Exit
    BY <1>15, <1>a, SerialDown DEF Exit, Quiet, TypeOK
  <1>16. CASE Restart
    BY <1>16, SerialDown DEF Restart, Quiet, Shape
  <1>17. CASE RestartFails
    BY <1>17, SerialDown DEF RestartFails, Quiet, Shape, caller
  <1>18. CASE UNCHANGED vars
    BY <1>18 DEF vars, Serial, Told, Alone
  <1>19. QED
    BY <1>2, <1>3, <1>4, <1>5, <1>6, <1>8, <1>9, <1>10, <1>11, <1>12, <1>13, <1>14, <1>15,
       <1>16, <1>17, <1>18
    DEF Next, Ensure, Remove

(* What the broker answered is true of the kernel and of its own marks      *)
(* until the next call on that name (Server.handle), for every number of    *)
(* calls and names, for every name whose calls do not overlap.              *)
THEOREM AnswersStayTrue == Spec => []AnswersAreTrue
  <1>1. Init => Serial
    <2> SUFFICES ASSUME Init PROVE Serial
      OBVIOUS
    <2>1. \A c \in Calls : pc[c] = "none" /\ answer[c] = "none"
      BY DEF Init
    <2>2. \A n \in Names : last[n] = NoCall
      BY DEF Init
    <2>3. "none" \notin Running /\ "none" \notin EnsureSteps /\ "none" \notin RemoveSteps
      BY DEF Running, EnsureSteps, RemoveSteps
    <2>4. QED
      BY <2>1, <2>2, <2>3 DEF Serial
  <1>2. Inv /\ Serial /\ [Next]_vars => Serial'
    BY SerialStep
  <1>3. Inv /\ Serial => AnswersAreTrue
    BY SerialAnswers DEF Inv
  <1>4. QED
    BY <1>1, <1>2, <1>3, ShapeInvariant, PTL DEF Spec

(* While the broker serves, a link changes only under a generated or pinned *)
(* name, by a call on that name that creates it or deletes the index it     *)
(* looked up (validateName, createGRE, linkDel); at a start links only go,  *)
(* and only under names that begin with "grem" or as GRE tunnels of an      *)
(* earlier broker (RemovePrefix, RemoveNamedGRE).                           *)
THEOREM OnlyOwnNames == Spec => OnlyNamedLinksChange
  <1> DEFINE Served(n) ==
               /\ up /\ n \in Grem \cup Pinned
               /\ \E c \in Calls :
                    /\ name[c] = n
                    /\ \/ pc[c] = "create" /\ link'[n] = c
                       \/ pc[c] \in {"delete", "cleanup", "destroy"} /\ link'[n] = NoCall
             Swept(n) == ~up /\ link'[n] = NoCall /\ (n \in Prefixed \/ link[n] \in Calls)
  <1>1. Inv /\ [Next]_vars =>
          [\A n \in Names : link'[n] # link[n] =>
             \/ /\ up /\ n \in Grem \cup Pinned
                /\ \E c \in Calls :
                     /\ name[c] = n
                     /\ \/ pc[c] = "create" /\ link'[n] = c
                        \/ pc[c] \in {"delete", "cleanup", "destroy"} /\ link'[n] = NoCall
             \/ ~up /\ link'[n] = NoCall /\ (n \in Prefixed \/ link[n] \in Calls)]_vars
    <2> SUFFICES ASSUME Inv, Next, NEW n \in Names, link'[n] # link[n]
                 PROVE  Served(n) \/ Swept(n)
      OBVIOUS
    <2>0. \A c \in Calls : pc[c] \in Running => up
      BY DEF Inv, Shape, Quiet
    <2>1. ASSUME NEW c \in Calls, EnsureDelete(c) \/ EnsureCleanup(c) \/ RemoveDestroy(c)
          PROVE  Served(n)
      <3>1. pc[c] \in {"delete", "cleanup", "destroy"}
        BY <2>1 DEF EnsureDelete, EnsureCleanup, RemoveDestroy
      <3>2. up /\ Homed(c) /\ name[c] \in Ours
        BY <2>0, <3>1 DEF Inv, Shape, Running, EnsureSteps, RemoveSteps
      <3>3. link' = linkDel(idx[c])
        BY <2>1 DEF EnsureDelete, EnsureCleanup, RemoveDestroy
      <3>4. n = name[c]
        BY <3>2, <3>3, LinkDelIsLocal
      <3>5. link'[n] = NoCall
        BY <3>2, <3>3, <3>4, LinkDelIsLocal
      <3>6. QED
        BY <3>1, <3>2, <3>4, <3>5 DEF Ours
    <2>2. ASSUME NEW c \in Calls, createGRE(c)
          PROVE  Served(n)
      <3>1. link' = [link EXCEPT ![name[c]] = c] /\ pc[c] = "create"
        BY <2>2 DEF createGRE
      <3>2. up /\ name[c] \in Ours
        BY <2>0, <3>1 DEF Inv, Shape, Running, EnsureSteps
      <3>3. name[c] = n /\ link'[n] = c
        BY <3>1 DEF Inv, TypeOK
      <3>4. QED
        BY <3>1, <3>2, <3>3 DEF Ours
    <2>3. CASE Restart \/ RestartFails
      <3>1. ~up /\ n \in Stale /\ link'[n] = NoCall
        BY <2>3 DEF Restart, RestartFails
      <3>2. QED
        BY <3>1 DEF Stale, RemovePrefix, RemoveNamedGRE
    <2>4. ASSUME NEW c \in Calls, call(c) \/ DialFails(c) \/ TimesOut(c) \/ handle(c) \/ reply(c)
                 \/ EnsureLookup(c) \/ EnsureLocate(c) \/ EnsureConfigure(c) \/ markCreated(c)
                 \/ wasCreated(c) \/ RemoveFind(c) \/ markRemoved(c)
          PROVE  link' = link
      BY <2>4, Zenon DEF call, DialFails, TimesOut, handle, refuse, reply, EnsureLookup, EnsureLocate, EnsureConfigure,
         markCreated, wasCreated, RemoveFind, markRemoved
    <2>5. CASE Exit
      BY <2>5 DEF Exit
    <2>6. QED
      BY <2>1, <2>2, <2>3, <2>4, <2>5 DEF Next, Ensure, Remove
  <1>2. QED
    BY <1>1, ShapeInvariant, PTL DEF Spec, OnlyNamedLinksChange

============================================================================
