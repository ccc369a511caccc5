----------------------------- MODULE HubUpgrade -----------------------------
(***************************************************************************)
(* The hub's upgrade of itself: POST /api/hub/upgrade                      *)
(* (src/src/api-hub-upgrade.ts), the single-slot status file               *)
(* hub-upgrade-status.json (hub-upgrade-status.ts) and the detached helper *)
(* process that rewrites the binary and restarts the hub                   *)
(* (hub-upgrade-helper.ts).                                                *)
(*                                                                         *)
(* The hub and the helpers are processes that share two files: the slot    *)
(* and its `.tmp` sibling, whose name all of them use.  Every read, write  *)
(* and rename of a file is a step of its own, except that the hub's other  *)
(* requests wait while one of them writes (its event loop is one thread).  *)
(* Log lines, versions and channels are left out.                          *)
(***************************************************************************)
EXTENDS Naturals, FiniteSets

CONSTANTS
    MaxOps,     \* bound: operations ever seeded
    Requests    \* bound: upgrade requests in flight together

ASSUME UpgradeAssumption == MaxOps \in Nat

Ops == 1 .. MaxOps

NoOp == 0

VARIABLES
    host,       \* what the hub runs on, and so who restarts it
    slot,       \* the status file
    temp,       \* its temporary sibling
    request,    \* POST handlers past the in-flight guard
    helper,     \* the detached helper of each operation
    lastOp,     \* operations seeded so far
    expired,    \* operations whose started_at is IN_FLIGHT_TTL_MS old
    disorder    \* history: see ExclusiveUnlessLate

vars == <<host, slot, temp, request, helper, lastOp, expired, disorder>>

Phases == {"pending", "running", "restarting", "failed", "redeploy-required"}

Status == [op: Ops, phase: Phases]

NoStatus == [op |-> NoOp, phase |-> "none"]

\* late: another operation was seeded since this request passed the guard.
Request == [ at: {"idle", "resolving", "staged", "landed"},
             op: Ops \cup {NoOp}, late: BOOLEAN ]

\* at: how far runHubUpgradeHelper is; io: how far the append it is in is;
\* copy: the record that append will write.
Helper == [ at: {"off", "boot", "upgrading", "failing", "restart", "reporting", "signal",
                 "done", "dead"},
            io: {"none", "read", "staged"},
            copy: Status \cup {NoStatus} ]

TypeOK ==
    /\ host \in {"unit", "container", "plain", "pinned"}
    /\ slot \in Status \cup {NoStatus} /\ temp \in Status \cup {NoStatus}
    /\ request \in [Requests -> Request]
    /\ helper \in [Ops -> Helper]
    /\ lastOp \in Ops \cup {NoOp} /\ expired \subseteq Ops
    /\ disorder \subseteq {"race", "overrun"}
    /\ slot.op <= lastOp /\ temp.op <= lastOp
    /\ \A o \in Ops : helper[o].io # "none" => helper[o].copy.op = o

-----------------------------------------------------------------------------
IdleRequest == [at |-> "idle", op |-> NoOp, late |-> FALSE]

Working(o) == helper[o].at \notin {"off", "done", "dead"}

InFlightPhases == {"pending", "running", "restarting"}

\* Mutant: a hub that is restarting no longer counts as an upgrade in flight.
BlockedUntilRestart == slot.phase \in {"pending", "running"} /\ slot.op \notin expired

\* Mutant: no time limit.
BlockedForever == slot.phase \in InFlightPhases

\* The 409 guard.
Blocked == slot.phase \in InFlightPhases /\ slot.op \notin expired

\* The hub's thread is not inside another request's write.
HubFree == \A r \in Requests : request[r].at \notin {"staged", "landed"}

Init ==
    /\ host \in {"unit", "container", "plain", "pinned"}
    /\ slot = NoStatus /\ temp = NoStatus
    /\ request = [r \in Requests |-> IdleRequest]
    /\ helper = [o \in Ops |-> [at |-> "off", io |-> "none", copy |-> NoStatus]]
    /\ lastOp = NoOp /\ expired = {} /\ disorder = {}

\* handleHubUpgrade up to the await of resolveTarget.
Admit(r) ==
    /\ HubFree /\ request[r].at = "idle" /\ ~Blocked
    /\ request' = [request EXCEPT ![r].at = "resolving"]
    /\ UNCHANGED <<host, slot, temp, helper, lastOp, expired, disorder>>

\* The target version arrived: an operation id is drawn and the record that
\* seeds the slot is written to the temporary file.
SeedStages(r) ==
    LET o == lastOp + 1 IN
    /\ HubFree /\ request[r].at = "resolving" /\ o \in Ops
    /\ lastOp' = o
    /\ temp' = [op |-> o, phase |-> IF host = "pinned" THEN "redeploy-required" ELSE "pending"]
    /\ request' = [q \in Requests |->
            IF q = r THEN [request[r] EXCEPT !.at = "staged", !.op = o]
            ELSE [request[q] EXCEPT !.late = request[q].at = "resolving"]]
    /\ disorder' = IF request[r].late THEN disorder \cup {"race"} ELSE disorder
    /\ UNCHANGED <<host, slot, helper, expired>>

\* ... and renamed into place.
SeedLands(r) ==
    /\ request[r].at = "staged" /\ temp # NoStatus
    /\ slot' = temp /\ temp' = NoStatus
    /\ request' = [request EXCEPT ![r] =
            IF host = "pinned" THEN IdleRequest ELSE [@ EXCEPT !.at = "landed"]]
    /\ UNCHANGED <<host, helper, lastOp, expired, disorder>>

\* A helper has renamed the temporary file away: the handler throws.
SeedThrows(r) ==
    /\ request[r].at = "staged" /\ temp = NoStatus
    /\ request' = [request EXCEPT ![r] = IdleRequest]
    /\ UNCHANGED <<host, slot, temp, helper, lastOp, expired, disorder>>

Spawn(r) ==
    /\ request[r].at = "landed"
    /\ helper' = [helper EXCEPT ![request[r].op].at = "boot"]
    /\ request' = [request EXCEPT ![r] = IdleRequest]
    /\ UNCHANGED <<host, slot, temp, lastOp, expired, disorder>>

-----------------------------------------------------------------------------
\* appendHubUpgradeStatus, called by the helper of o.

\* The helper is at a call of append.
Appending(o) == helper[o].at \in {"boot", "upgrading", "failing", "reporting"}

\* The phase the call sets; a log line leaves the phase alone.
Patched(o) ==
    CASE helper[o].at = "boot"      -> "running"
      [] helper[o].at = "failing"   -> "failed"
      [] helper[o].at = "reporting" -> "restarting"
      [] OTHER                      -> slot.phase

\* Where the helper goes on when the call returns, and when it throws.
Returned(o) ==
    CASE helper[o].at \in {"boot", "upgrading"} -> "upgrading"
      [] helper[o].at = "reporting" /\ host = "container" -> "signal"
      [] OTHER -> "done"

Thrown(o) == IF helper[o].at = "upgrading" THEN "failing" ELSE "dead"

Goes(o, at) == helper' = [helper EXCEPT ![o] = [at |-> at, io |-> "none", copy |-> NoStatus]]

\* Mutant: no operation guard, the helper patches whatever the slot holds.
AppendReadsAny(o) ==
    /\ Appending(o) /\ helper[o].io = "none" /\ slot # NoStatus
    /\ helper' = [helper EXCEPT ![o] = [@ EXCEPT !.io = "read",
                                        !.copy = [slot EXCEPT !.phase = Patched(o)]]]
    /\ UNCHANGED <<host, slot, temp, request, lastOp, expired, disorder>>

\* Mutant: a log line is added to the record the helper was spawned with.
AppendReadsStale(o) ==
    /\ Appending(o) /\ helper[o].io = "none" /\ slot.op = o
    /\ helper' = [helper EXCEPT ![o] = [@ EXCEPT !.io = "read",
            !.copy = [op |-> o, phase |-> IF helper[o].at = "upgrading" THEN "pending"
                                          ELSE Patched(o)]]]
    /\ UNCHANGED <<host, slot, temp, request, lastOp, expired, disorder>>

AppendReads(o) ==
    /\ Appending(o) /\ helper[o].io = "none" /\ slot.op = o
    /\ helper' = [helper EXCEPT ![o] = [@ EXCEPT !.io = "read",
                                                 !.copy = [op |-> o, phase |-> Patched(o)]]]
    /\ UNCHANGED <<host, slot, temp, request, lastOp, expired, disorder>>

\* A newer operation owns the slot.
AppendSkips(o) ==
    /\ Appending(o) /\ helper[o].io = "none" /\ slot.op # o
    /\ Goes(o, Returned(o))
    /\ UNCHANGED <<host, slot, temp, request, lastOp, expired, disorder>>

AppendStages(o) ==
    /\ helper[o].io = "read"
    /\ temp' = helper[o].copy
    /\ helper' = [helper EXCEPT ![o].io = "staged"]
    /\ UNCHANGED <<host, slot, request, lastOp, expired, disorder>>

\* The rename takes whatever the temporary file holds by now.
AppendLands(o) ==
    /\ helper[o].io = "staged" /\ temp # NoStatus
    /\ slot' = temp /\ temp' = NoStatus
    /\ Goes(o, Returned(o))
    /\ UNCHANGED <<host, request, lastOp, expired, disorder>>

AppendThrows(o) ==
    /\ helper[o].io = "staged" /\ temp = NoStatus
    /\ Goes(o, Thrown(o))
    /\ UNCHANGED <<host, slot, temp, request, lastOp, expired, disorder>>

\* Mutant: nothing is reported before the hub is signalled.
UpgradeEndsSilently(o) ==
    /\ helper[o].at = "upgrading" /\ helper[o].io = "none"
    /\ \/ Goes(o, "failing")
       \/ Goes(o, IF host = "unit" THEN "restart" ELSE "signal")
    /\ UNCHANGED <<host, slot, temp, request, lastOp, expired, disorder>>

\* The rewrite is over; on a unit the restart comes before its report.
UpgradeEnds(o) ==
    /\ helper[o].at = "upgrading" /\ helper[o].io = "none"
    /\ \/ Goes(o, "failing")
       \/ Goes(o, IF host = "unit" THEN "restart" ELSE "reporting")
    /\ UNCHANGED <<host, slot, temp, request, lastOp, expired, disorder>>

\* restartHubUnit.  A hub that goes down takes its requests with it.
RestartUnit(o) ==
    /\ helper[o].at = "restart"
    /\ \/ Goes(o, "failing") /\ UNCHANGED request
       \/ Goes(o, "reporting") /\ request' = [r \in Requests |-> IdleRequest]
    /\ UNCHANGED <<host, slot, temp, lastOp, expired, disorder>>

\* SIGTERM goes to the pid the hub had at the spawn, which may be gone by now.
SignalHub(o) ==
    /\ helper[o].at = "signal"
    /\ Goes(o, "done")
    /\ request' \in {request, [r \in Requests |-> IdleRequest]}
    /\ UNCHANGED <<host, slot, temp, lastOp, expired, disorder>>

-----------------------------------------------------------------------------
\* The helper is killed (service managers stop the whole control group), or
\* the machine goes down.
HelperDies(o) ==
    /\ Working(o)
    /\ Goes(o, "dead")
    /\ UNCHANGED <<host, slot, temp, request, lastOp, expired, disorder>>

HubDies ==
    /\ request' = [r \in Requests |-> IdleRequest]
    /\ UNCHANGED <<host, slot, temp, helper, lastOp, expired, disorder>>

\* IN_FLIGHT_TTL_MS after o's started_at
Expire(o) ==
    /\ o <= lastOp /\ o \notin expired
    /\ expired' = expired \cup {o}
    /\ disorder' = IF Working(o) \/ \E r \in Requests : request[r].op = o
                   THEN disorder \cup {"overrun"} ELSE disorder
    /\ UNCHANGED <<host, slot, temp, request, helper, lastOp>>

Append(o) ==
    \/ AppendReads(o) \/ AppendSkips(o) \/ AppendStages(o) \/ AppendLands(o) \/ AppendThrows(o)

Seed(r) == SeedStages(r) \/ SeedLands(r) \/ SeedThrows(r) \/ Spawn(r)

Next ==
    \/ \E r \in Requests : Admit(r) \/ Seed(r)
    \/ \E o \in Ops : Append(o) \/ UpgradeEnds(o) \/ RestartUnit(o) \/ SignalHub(o)
    \/ \E o \in Ops : HelperDies(o) \/ Expire(o)
    \/ HubDies

Spec == Init /\ [][Next]_vars

\* Time passes, and nothing more is asked: helpers and requests may stall.
FairSpec == Spec /\ \A o \in Ops : WF_vars(Expire(o))

-----------------------------------------------------------------------------
\* At most one helper is at work - unless two requests were past the guard at
\* once ("race") or an operation outlived the guard's time limit ("overrun").
\* In particular the phases of the slot never free the guard too early.
ExclusiveUnlessLate ==
    disorder = {} => \A g, h \in Ops : Working(g) /\ Working(h) => g = h

Rank(phase) == CASE phase = "pending" -> 1 [] phase = "running" -> 2 [] OTHER -> 3

\* What a poll of one operation reports never goes back, though several
\* helpers and the hub race for the slot and for its temporary file: a
\* failed operation stays failed.
PhasesAdvance ==
    [][slot.op # NoOp /\ slot'.op = slot.op
        => /\ Rank(slot'.phase) >= Rank(slot.phase)
           /\ slot.phase = "failed" => slot'.phase = "failed"]_vars

\* A helper that ran to its end has left its verdict, if the slot is its own.
ReportsOutcome ==
    \A o \in Ops : helper[o].at = "done" /\ slot.op = o
        => slot.phase \in {"failed", "restarting"}

\* No crash of a helper or of the hub blocks upgrades for ever.
SlotFrees == Blocked ~> ~Blocked

-----------------------------------------------------------------------------
\* The inductive strengthening of ExclusiveUnlessLate, part by part.

\* The operation has a helper at work, or a request about to spawn one.
Active(o) == Working(o) \/ \E r \in Requests : request[r].op = o

\* Only a request that writes has an operation, and no helper yet.
Seeding == \A r \in Requests :
    /\ request[r].op # NoOp <=> request[r].at \in {"staged", "landed"}
    /\ request[r].op # NoOp => helper[request[r].op].at = "off" /\ request[r].op <= lastOp

Unseeded == \A o \in Ops : o > lastOp => helper[o].at = "off" /\ o \notin expired

OneWriter == \A q, r \in Requests : request[q].op # NoOp /\ request[r].op # NoOp => q = r

Copied == \A o \in Ops : helper[o].io # "none" =>
    /\ Appending(o)
    /\ helper[o].at = "boot" => helper[o].copy.phase = "running"
    /\ helper[o].at = "reporting" => helper[o].copy.phase = "restarting"

\* While no request raced and no operation overran:
OneActive == \A o \in Ops : Active(o) => o = lastOp /\ o \notin expired

OthersLate == \A r \in Requests, o \in Ops :
    request[r].at = "resolving" /\ Active(o) => request[r].late

SeedStaged == \A r \in Requests : request[r].at = "staged" =>
    temp.op = lastOp /\ (host # "pinned" => temp.phase = "pending")

SeedLanded == \A r \in Requests : request[r].at = "landed" =>
    slot.op = lastOp /\ slot.phase = "pending"

OwnsSlot == \A o \in Ops : Working(o) => slot.op = o /\ slot.phase \in InFlightPhases

CopyStaged == \A o \in Ops : helper[o].io = "staged" => temp = helper[o].copy

CopyInFlight == \A o \in Ops : helper[o].io # "none" /\ helper[o].at = "upgrading" =>
    helper[o].copy.phase \in InFlightPhases

Orderly == /\ OneActive /\ OthersLate /\ SeedStaged /\ SeedLanded
           /\ OwnsSlot /\ CopyStaged /\ CopyInFlight

IInv == TypeOK /\ Seeding /\ Unseeded /\ OneWriter /\ Copied /\ (disorder = {} => Orderly)
=============================================================================
