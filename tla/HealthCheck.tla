---------------------------- MODULE HealthCheck ----------------------------
(***************************************************************************)
(* The inside-tunnel health check of the dialer (internal/healthcheck):    *)
(* rounds of pings, one per configured packet size, that stop at the first *)
(* failure; a threshold of consecutive failed rounds that triggers the     *)
(* configured actions; and a context that is cancelled when the session    *)
(* ends, at any moment.  The configuration is chosen in Init.  Definitions *)
(* whose names end in "_" are altered forms of the definition that follows *)
(* them; the properties are shown to reject them.                          *)
(***************************************************************************)
EXTENDS Naturals

CONSTANTS
    MaxSizes,       \* bound on the number of packet sizes
    MaxThreshold    \* bound on the failure threshold

ASSUME HealthAssumption == MaxSizes \in Nat \ {0} /\ MaxThreshold \in Nat \ {0}

VARIABLES
    cfg,            \* enabled, valid target, sizes, failures (the threshold), actions
    pc,             \* "loop", "ping", "pause", "ok", "bad", "select", "returned"
    i,              \* index of the size being probed
    failures,       \* the loop's counter
    result,         \* "none", "nil" or "error"
    cancelled,      \* ctx.Done() is closed
    trail,          \* history: failed rounds since the last good one; from twice
                    \* the threshold on it starts again at 1
    acted           \* history: did the latest round run the failure actions?

vars == <<cfg, pc, i, failures, result, cancelled, trail, acted>>

Actions == {"log", "run_script", "reconnect"}

Configs == [enabled : BOOLEAN, target : BOOLEAN, sizes : 1..MaxSizes,
            failures : 1..MaxThreshold, actions : SUBSET Actions]

TypeOK ==
    /\ cfg \in Configs
    /\ pc \in {"loop", "ping", "pause", "ok", "bad", "select", "returned"}
    /\ i \in 1..cfg.sizes
    /\ failures \in 0..cfg.failures
    /\ result \in {"none", "nil", "error"}
    /\ cancelled \in BOOLEAN
    /\ trail \in 0..(2 * cfg.failures)
    /\ acted \in BOOLEAN

Init ==
    /\ cfg \in Configs
    /\ pc = "loop" /\ i = 1 /\ failures = 0 /\ result = "none"
    /\ cancelled = FALSE
    /\ trail = 0 /\ acted = FALSE

Return(r) == pc' = "returned" /\ result' = r

(* The session ends, or the daemon is stopped.                              *)
Cancel ==
    /\ ~cancelled
    /\ cancelled' = TRUE
    /\ UNCHANGED <<cfg, pc, i, failures, result, trail, acted>>

(* A disabled check only waits for the context.                             *)
Disabled ==
    /\ pc = "loop" /\ ~cfg.enabled /\ cancelled
    /\ Return("nil")
    /\ UNCHANGED <<cfg, i, failures, cancelled, trail, acted>>

(* The configured target does not parse, or the peer has no address.        *)
BadTarget ==
    /\ pc = "loop" /\ cfg.enabled /\ ~cfg.target
    /\ Return("error")
    /\ UNCHANGED <<cfg, i, failures, cancelled, trail, acted>>

StartRound ==
    /\ pc = "loop" /\ cfg.enabled /\ cfg.target
    /\ pc' = "ping" /\ i' = 1
    /\ UNCHANGED <<cfg, failures, result, cancelled, trail, acted>>

(* pingOnce answered: the next size, after a pause if one is configured for *)
(* it, or the end of the round.                                             *)
pingOK ==
    /\ pc = "ping" /\ ~cancelled
    /\ \/ i = cfg.sizes /\ pc' = "ok" /\ UNCHANGED i
       \/ i < cfg.sizes /\ pc' = "pause" /\ UNCHANGED i
       \/ i < cfg.sizes /\ pc' = "ping" /\ i' = i + 1
    /\ UNCHANGED <<cfg, failures, result, cancelled, trail, acted>>

(* pingOnce failed: no answer in time, or the command was killed because    *)
(* the context was cancelled.                                               *)
pingFails ==
    /\ pc = "ping"
    /\ pc' = "bad"
    /\ UNCHANGED <<cfg, i, failures, result, cancelled, trail, acted>>

(* waitBetweenProbes: the timer or the context, at random when both fired.  *)
waitBetweenProbes ==
    /\ pc = "pause"
    /\ \/ pc' = "ping" /\ i' = i + 1
       \/ cancelled /\ pc' = "bad" /\ UNCHANGED i
    /\ UNCHANGED <<cfg, failures, result, cancelled, trail, acted>>

RoundOK_ ==
    /\ pc = "ok"
    /\ pc' = "select"
    /\ trail' = 0 /\ acted' = FALSE
    /\ UNCHANGED <<cfg, i, failures, result, cancelled>>

RoundOK ==
    /\ pc = "ok"
    /\ failures' = 0
    /\ pc' = "select"
    /\ trail' = 0 /\ acted' = FALSE
    /\ UNCHANGED <<cfg, i, result, cancelled>>

(* runFailureActions: every configured action, and whether to reconnect.    *)
reconnect == "reconnect" \in cfg.actions

Longer == IF trail = 2 * cfg.failures THEN 1 ELSE trail + 1

RoundBad ==
    /\ pc = "bad"
    /\ \/ /\ failures + 1 < cfg.failures
          /\ failures' = failures + 1 /\ pc' = "select" /\ acted' = FALSE
          /\ UNCHANGED result
       \/ /\ failures + 1 >= cfg.failures /\ reconnect
          /\ failures' = failures + 1 /\ acted' = TRUE
          /\ Return("error")
       \/ /\ failures + 1 >= cfg.failures /\ ~reconnect
          /\ failures' = 0 /\ pc' = "select" /\ acted' = TRUE
          /\ UNCHANGED result
    /\ trail' = Longer
    /\ UNCHANGED <<cfg, i, cancelled>>

(* The select between rounds: the ticker, or the context.                   *)
Tick ==
    /\ pc = "select"
    /\ pc' = "loop"
    /\ UNCHANGED <<cfg, i, failures, result, cancelled, trail, acted>>

Done_ ==
    /\ pc = "select" /\ cancelled /\ failures = 0 /\ ~acted
    /\ Return("nil")
    /\ UNCHANGED <<cfg, i, failures, cancelled, trail, acted>>

Done ==
    /\ pc = "select" /\ cancelled
    /\ Return("nil")
    /\ UNCHANGED <<cfg, i, failures, cancelled, trail, acted>>

Returned == pc = "returned" /\ cancelled /\ UNCHANGED vars

Step ==
    \/ Disabled \/ BadTarget \/ StartRound \/ pingOK \/ pingFails \/ waitBetweenProbes
    \/ RoundOK \/ RoundBad \/ Tick \/ Done

Next == Cancel \/ Step \/ Returned

Spec == Init /\ [][Next]_vars

(* The goroutine keeps running, a ping is killed at its timeout, and Go's   *)
(* select chooses among ready cases at random, so that the closed context   *)
(* is not passed over for ever.                                             *)
FairSpec == Spec /\ WF_vars(Step) /\ SF_vars(Done)

-----------------------------------------------------------------------------
Judged == pc \in {"select", "returned"}

(* The failure actions run in exactly those rounds that complete a multiple *)
(* of the threshold of consecutive failed rounds, counted back to the last  *)
(* good round: one good round in between starts the count again, and after  *)
(* actions that do not reconnect the count starts again as well.            *)
ActsOnThreshold ==
    Judged => (acted <=> trail \in {cfg.failures, 2 * cfg.failures})

(* Loop ends a session, by an error, only in a round that ran the failure   *)
(* actions with "reconnect" among them, or for want of a target; otherwise  *)
(* it returns only once its context is cancelled.                           *)
EndsForCause ==
    pc = "returned" => \/ result = "nil" /\ cancelled
                       \/ result = "error" /\ acted /\ reconnect
                       \/ result = "error" /\ ~cfg.target

(* Loop returns once its context is cancelled, whatever round it is in and  *)
(* whichever actions are configured.                                        *)
CancelEnds == cancelled ~> pc = "returned"

============================================================================
