---------------------------- MODULE HealthManager ----------------------------
(***************************************************************************)
(* The health manager (packages/runtime/src/HealthManager.ts): readiness() *)
(* awaits the registered checks one after the other while checks come and  *)
(* go and other polls run.                                                 *)
(*                                                                         *)
(* The checks are the entries of a Map, iterated while it changes: an      *)
(* entry keeps its place when it is set again, and comes last when it was  *)
(* deleted before.  A stamp per entry stands for the place.                *)
(***************************************************************************)
EXTENDS Naturals, Sequences, FiniteSets

CONSTANTS
    CheckNames,      \* of the checks
    Polls,      \* the calls of readiness()
    MaxStamp    \* bound: so many entries are made

NoCheck == "none"

ASSUME HealthAssumption == NoCheck \notin CheckNames /\ MaxStamp \in Nat

VARIABLES
    checks,     \* the stamp of each check registered
    stamp,      \* the last stamp given
    polls,
    lastReady

healthVars == <<checks, stamp, polls, lastReady>>

CheckStatuses == {"ok", "degraded", "down"}

HealthInit ==
    /\ checks = <<>> /\ stamp = 0 /\ lastReady = FALSE
    /\ polls = [p \in Polls |-> [pc |-> "idle", at |-> NoCheck, place |-> 0, results |-> <<>>,
                                 throughout |-> {}, ready |-> FALSE]]

RegisterCheck(name) ==
    /\ IF name \in DOMAIN checks THEN UNCHANGED <<checks, stamp>>
       ELSE /\ stamp < MaxStamp /\ stamp' = stamp + 1
            /\ checks' = [n \in DOMAIN checks \cup {name} |->
                             IF n = name THEN stamp + 1 ELSE checks[n]]
    /\ UNCHANGED <<polls, lastReady>>

(* `throughout` is history: the checks registered ever since a poll began.  *)
UnregisterCheck(name) ==
    /\ name \in DOMAIN checks
    /\ checks' = [n \in DOMAIN checks \ {name} |-> checks[n]]
    /\ polls' = [p \in Polls |-> [polls[p] EXCEPT !.throughout = @ \ {name}]]
    /\ UNCHANGED <<stamp, lastReady>>

(* mutant: the iteration counts positions                                   *)
FollowingByPosition(poll) ==
    LET later == {n \in DOMAIN checks :
                     Cardinality({m \in DOMAIN checks : checks[m] < checks[n]})
                         >= Len(poll.results)}
    IN  IF later = {} THEN NoCheck
        ELSE CHOOSE n \in later : \A m \in later : checks[n] <= checks[m]

(* The check that the iteration comes to next.                              *)
Following(poll) ==
    LET later == {n \in DOMAIN checks : checks[n] > poll.place}
    IN  IF later = {} THEN NoCheck
        ELSE CHOOSE n \in later : \A m \in later : checks[n] <= checks[m]

(* runChecks() goes on: the next check is called, or there is none left.    *)
PollGoesOn(poll) ==
    LET next == Following(poll)
    IN  IF next = NoCheck THEN [poll EXCEPT !.pc = "ending", !.at = NoCheck]
        ELSE [poll EXCEPT !.pc = "awaiting", !.at = next, !.place = checks[next]]

Readiness(p) ==
    /\ polls[p].pc = "idle"
    /\ polls' = [polls EXCEPT ![p] = PollGoesOn([@ EXCEPT !.throughout = DOMAIN checks])]
    /\ UNCHANGED <<checks, stamp, lastReady>>

(* A check that throws counts as down.                                      *)
WithResult(poll, status) ==
    [poll EXCEPT !.results = Append(@, [name |-> poll.at, status |-> status])]

CheckSettles(p, status) ==
    /\ polls[p].pc = "awaiting"
    /\ polls' = [polls EXCEPT ![p] = PollGoesOn(WithResult(@, status))]
    /\ UNCHANGED <<checks, stamp, lastReady>>

AggregateStatus(results) ==
    LET found == {results[i].status : i \in 1..Len(results)}
    IN  CASE "down" \in found -> "down"
          [] "down" \notin found /\ "degraded" \in found -> "degraded"
          [] OTHER -> "ok"

(* The last poll to end decides what isReady() says.                        *)
ReadinessEnds(p) ==
    LET ready == AggregateStatus(polls[p].results) = "ok" IN
    /\ polls[p].pc = "ending"
    /\ polls' = [polls EXCEPT ![p] = [@ EXCEPT !.pc = "answered", !.ready = ready]]
    /\ lastReady' = ready
    /\ UNCHANGED <<checks, stamp>>

HealthNext ==
    \/ \E name \in CheckNames : RegisterCheck(name) \/ UnregisterCheck(name)
    \/ \E p \in Polls :
          \/ Readiness(p) \/ ReadinessEnds(p)
          \/ \E status \in CheckStatuses : CheckSettles(p, status)

HealthSpec == HealthInit /\ [][HealthNext]_healthVars

-----------------------------------------------------------------------------

(* Entries have stamps of their own, and a poll that waits waits for a      *)
(* check (runChecks()).                                                     *)
HealthTypeOK ==
    /\ DOMAIN checks \subseteq CheckNames /\ stamp \in 0..MaxStamp /\ lastReady \in BOOLEAN
    /\ \A n, m \in DOMAIN checks : checks[n] \in 1..stamp /\ (n # m => checks[n] # checks[m])
    /\ \A p \in Polls :
          /\ polls[p].pc \in {"idle", "awaiting", "ending", "answered"}
          /\ (polls[p].pc = "awaiting") = (polls[p].at \in CheckNames)
          /\ polls[p].throughout \subseteq CheckNames

(* Whatever is registered and unregistered during a poll: its report names  *)
(* each check registered all through it exactly once, and it is ready only  *)
(* if all of them were ok (readiness(), runChecks()).                       *)
ReportsCoverTheChecks ==
    \A p \in Polls : polls[p].pc = "answered" =>
        \A name \in polls[p].throughout :
            /\ \E i \in 1..Len(polls[p].results) :
                  /\ polls[p].results[i].name = name
                  /\ polls[p].ready => polls[p].results[i].status = "ok"
                  /\ \A k \in 1..Len(polls[p].results) :
                        polls[p].results[k].name = name => k = i
=============================================================================
