----------------------------- MODULE Supervisor -----------------------------
(***************************************************************************)
(* The hub's in-process module supervisor (src/src/supervisor.ts), for one *)
(* module.  Modules share the `modules` map but not its slots, and meet    *)
(* only in supervisedPids(): a sibling on this module's port is an         *)
(* Outsider when nothing vouches for it and an unseen holder otherwise.    *)
(*                                                                         *)
(* One JavaScript event loop runs every supervisor method, so an action    *)
(* here is a stretch of code between two awaits; what may interleave is    *)
(* what happens while a method is suspended: another operator request, a   *)
(* child's exit, a port probe's answer, a timer.  Operating-system         *)
(* processes (children, orphans of a dead hub, strangers on the port) move *)
(* on their own.                                                           *)
(***************************************************************************)
EXTENDS Integers, FiniteSets

CONSTANTS
    Entries,      \* identities of ModuleEntry objects
    Pids,         \* process ids
    Callers,      \* requests that may be suspended inside stop() / restart()
    MaxRestarts,  \* SupervisorOpts.maxRestarts
    Adopt,        \* reclaimPolicy is "adopt" (the default); FALSE: "prompt"
    Gated,        \* startReadyMs > 0 and the request carries a PORT
    HasMarker,    \* moduleMarkerFor() finds a marker: cmd[0] is no generic
                  \* runtime such as `bun`, or the request carries a cwd
    MaxAged,      \* bound: crash stamps that leave the window, per entry
    MaxHubDeaths, \* bound: deaths of the hub process
    NoEntry, NoPid, Outsider

ASSUME SupervisorAssumption ==
    /\ Entries \subseteq Nat /\ NoEntry \notin Entries
    /\ Pids \subseteq Nat /\ NoPid \notin Pids
    /\ Outsider \notin Pids /\ Outsider # NoPid
    /\ MaxRestarts \in Nat \ {0}
    /\ MaxAged \in Nat /\ MaxHubDeaths \in Nat
    /\ Adopt \in BOOLEAN /\ Gated \in BOOLEAN /\ HasMarker \in BOOLEAN

VARIABLES
    registry,   \* Supervisor.modules.get(short)
    entry,      \* the ModuleEntry objects, registered or only referenced
    proc,       \* processes, and the handleExit continuation of each child
    holder,     \* who has a LISTEN socket on the module's port
    call,       \* stop() and restart() invocations suspended at an await
    hubDeaths

vars == <<registry, entry, proc, holder, call, hubDeaths>>

ModuleEntry ==
    [ status: {"none", "starting", "running", "stopped", "crashed", "restarting"},
      startError: {"none", "missing_dependency", "port_squatter", "started_but_unbound"},
      stopRequested: {"unset", "set"},
      proc: Pids \cup {NoPid},
      crashes: Nat,           \* crashStamps still inside the window
      aged: Nat,              \* history: how many have left it
      spawns: Nat,            \* history: children spawned for this entry
      gate: {"off", "ready", "readyAsk", "late", "lateAsk"} ]

\* "dead" is a pid with no process and no continuation pending.
Process ==
    [ owner: Entries \cup {NoEntry},
      at: {"dead", "booting", "listening", "exited", "adopting", "backoff"},
      target: Pids \cup {NoPid, Outsider} ]

Call ==
    [ op: {"idle", "stop", "restart"},
      entry: Entries \cup {NoEntry},
      pid: Pids \cup {NoPid} ]

TypeOK ==
    /\ registry \in Entries \cup {NoEntry}
    /\ entry \in [Entries -> ModuleEntry]
    /\ proc \in [Pids -> Process]
    /\ holder \in Pids \cup {NoPid, Outsider}
    /\ call \in [Callers -> Call]
    /\ hubDeaths \in Nat

-----------------------------------------------------------------------------
Blank == [ status |-> "none", startError |-> "none", stopRequested |-> "unset",
           proc |-> NoPid, crashes |-> 0, aged |-> 0, spawns |-> 0, gate |-> "off" ]

Dead == [owner |-> NoEntry, at |-> "dead", target |-> NoPid]

Idle == [op |-> "idle", entry |-> NoEntry, pid |-> NoPid]

Alive(p)  == proc[p].at \in {"booting", "listening"}

Active(p) == proc[p].at # "dead"

\* The first part of p's handleExit has run: it subscribed to `exited` before
\* any stop() that waits for the same promise.
Reaped(p) == proc[p].at \in {"adopting", "backoff", "dead"}

\* Some closure, promise or map slot still refers to the object e.
Reachable(e) ==
    \/ registry = e
    \/ entry[e].gate # "off"
    \/ \E p \in Pids : Active(p) /\ proc[p].owner = e
    \/ \E c \in Callers : call[c].entry = e

Least(S) == {x \in S : \A y \in S : x <= y}

Garbage == {e \in Entries : entry[e].status # "none" /\ ~Reachable(e)}

FreeEntries == Least({e \in Entries : entry[e].status = "none"})

FreePids == Least({p \in Pids :
    /\ ~Active(p) /\ holder # p
    /\ \A e \in Entries : entry[e].proc # p
    /\ \A c \in Callers : call[c].pid # p
    /\ \A q \in Pids : proc[q].target # p})

\* Mutant: only modules that are still starting vouch for their pid.
SupervisedPidsStarting(exclude) ==
    { entry[e].proc : e \in { f \in Entries \ {exclude} :
        f = registry /\ entry[f].status = "starting" } }

\* supervisedPids(exclude): a registered entry that is up vouches for its pid.
SupervisedPids(exclude) ==
    { entry[e].proc : e \in { f \in Entries \ {exclude} :
        f = registry /\ entry[f].status \in {"running", "starting"} } }

\* orphanAttributable: with a marker of this module only a prior instance of
\* it matches; without one the needle is the broad "parachute" of the migrate
\* sweep, which a sibling module or any process that names a path under
\* ~/.parachute carries too.
Attributable(who) == who \in Pids \/ ~HasMarker

StopAsked(e) == entry[e].stopRequested = "set"

NotRunning(e) == StopAsked(e) \/ entry[e].status # "running"

-----------------------------------------------------------------------------
\* The map is empty at boot; a child of a previous hub may hold the port.
Init ==
    /\ registry = NoEntry
    /\ entry = [e \in Entries |-> Blank]
    /\ holder \in Least(Pids) \cup {NoPid, Outsider}
    /\ proc = [p \in Pids |-> IF p = holder THEN [Dead EXCEPT !.at = "listening"] ELSE Dead]
    /\ call = [c \in Callers |-> Idle]
    /\ hubDeaths = 0

\* spawnAndWatch for the entry object e, whose fields are ent: the child p
\* runs and a stale startError is dropped.
SpawnAndWatch(e, ent, p, ents, procs) ==
    /\ entry' = [ents EXCEPT ![e] =
            [ent EXCEPT !.status = "running", !.startError = "none", !.proc = p,
                        !.spawns = ent.spawns + 1]]
    /\ proc' = [procs EXCEPT ![p] = [owner |-> e, at |-> "booting", target |-> NoPid]]

\* start() from the creation of the entry on.  A failed preflight or a spawn
\* that finds no binary is missing_dependency; a spawn that throws anything
\* else leaves "starting" behind; a port probe may see the holder or nothing.
StartFresh(ents) == \E e \in FreeEntries :
    /\ registry' = e
    /\ \/ /\ entry' = [ents EXCEPT ![e] = [Blank EXCEPT !.status = "crashed",
                                           !.startError = "missing_dependency"]]
          /\ UNCHANGED proc
       \/ /\ holder # NoPid
          /\ entry' = [ents EXCEPT ![e] = [Blank EXCEPT !.status = "crashed",
                                           !.startError = "port_squatter"]]
          /\ UNCHANGED proc
       \/ /\ entry' = [ents EXCEPT ![e] = [Blank EXCEPT !.status = "starting"]]
          /\ UNCHANGED proc
       \/ \E p \in FreePids :
            SpawnAndWatch(e, [Blank EXCEPT !.gate = IF Gated THEN "ready" ELSE "off"],
                          p, ents, proc)

\* Mutant: start() revives the registered entry object instead of a new one.
StartReusingEntry ==
    /\ \/ registry = NoEntry /\ StartFresh(entry)
       \/ /\ registry # NoEntry /\ entry[registry].status \notin {"running", "starting"}
          /\ \E p \in FreePids : SpawnAndWatch(registry, entry[registry], p, entry, proc)
          /\ UNCHANGED registry
    /\ UNCHANGED <<holder, call, hubDeaths>>

\* start(req); for a module that is up it returns the existing state.
Start ==
    /\ registry # NoEntry => entry[registry].status \notin {"running", "starting"}
    /\ StartFresh(entry)
    /\ UNCHANGED <<holder, call, hubDeaths>>

\* stop() up to its await.  With no child there is nothing to wait for.
Stop(c) ==
    /\ call[c].op = "idle" /\ registry # NoEntry
    /\ LET e == registry IN
        IF entry[e].proc = NoPid
        THEN /\ entry' = [entry EXCEPT ![e] =
                    [@ EXCEPT !.stopRequested = "set", !.status = "stopped"]]
             /\ UNCHANGED call
        ELSE /\ entry' = [entry EXCEPT ![e].stopRequested = "set"]
             /\ call' = [call EXCEPT ![c] = [op |-> "stop", entry |-> e, pid |-> entry[e].proc]]
    /\ UNCHANGED <<registry, proc, holder, hubDeaths>>

\* restart() up to the await inside its stop().
Restart(c) ==
    /\ call[c].op = "idle" /\ registry # NoEntry
    /\ LET e == registry IN
        /\ entry' = [entry EXCEPT ![e] = [@ EXCEPT !.stopRequested = "set",
                !.status = IF entry[e].proc = NoPid THEN "stopped" ELSE "restarting"]]
        /\ call' = [call EXCEPT ![c] = [op |-> "restart", entry |-> e, pid |-> entry[e].proc]]
    /\ UNCHANGED <<registry, proc, holder, hubDeaths>>

\* A process ends: its socket closes, and a child's `exited` resolves.
Dies(p) ==
    /\ Alive(p)
    /\ proc' = [proc EXCEPT ![p] = IF @.owner = NoEntry THEN Dead ELSE [@ EXCEPT !.at = "exited"]]
    /\ holder' = IF holder = p THEN NoPid ELSE holder
    /\ UNCHANGED <<registry, entry, call, hubDeaths>>

\* Mutant: the escalation spares a child that has not bound its port yet.
KillTimeoutBound(c) == call[c].op # "idle" /\ call[c].pid # NoPid /\ holder = call[c].pid
    /\ Dies(call[c].pid)

\* killTimeoutMs after the SIGTERM: SIGKILL.
KillTimeout(c) == call[c].op # "idle" /\ call[c].pid # NoPid /\ Dies(call[c].pid)

\* Mutant: stop() does not wait for the exit.
StopReturnsAtOnce(c) ==
    /\ call[c].op = "stop"
    /\ entry' = [entry EXCEPT ![call[c].entry].status = "stopped"]
    /\ call' = [call EXCEPT ![c] = Idle]
    /\ UNCHANGED <<registry, proc, holder, hubDeaths>>

StopReturns(c) ==
    /\ call[c].op = "stop" /\ Reaped(call[c].pid)
    /\ entry' = [entry EXCEPT ![call[c].entry].status = "stopped"]
    /\ call' = [call EXCEPT ![c] = Idle]
    /\ UNCHANGED <<registry, proc, holder, hubDeaths>>

\* restart() once its stop() has returned: drop the registered entry, whichever
\* it is by now, and start.
RestartReturns(c) ==
    /\ call[c].op = "restart"
    /\ call[c].pid # NoPid => Reaped(call[c].pid)
    /\ StartFresh(IF call[c].pid = NoPid THEN entry
                  ELSE [entry EXCEPT ![call[c].entry].status = "stopped"])
    /\ call' = [call EXCEPT ![c] = Idle]
    /\ UNCHANGED <<holder, hubDeaths>>

-----------------------------------------------------------------------------
\* handleExit, to its first await.

ExitStopped(p) ==
    /\ proc[p].at = "exited" /\ StopAsked(proc[p].owner)
    /\ entry' = [entry EXCEPT ![proc[p].owner].status = "stopped"]
    /\ proc' = [proc EXCEPT ![p] = Dead]
    /\ UNCHANGED <<registry, holder, call, hubDeaths>>

\* The child crashed and somebody the supervisor does not own has the port.
Squatted(p) ==
    /\ proc[p].at = "exited" /\ ~StopAsked(proc[p].owner)
    /\ holder # NoPid /\ holder \notin SupervisedPids(proc[p].owner)

\* Mutant: the squatter is noted but the status is left alone.
ExitBlockedNoted(p) ==
    /\ Squatted(p)
    /\ entry' = [entry EXCEPT ![proc[p].owner] = [@ EXCEPT !.startError = "port_squatter"]]
    /\ proc' = [proc EXCEPT ![p] = Dead]
    /\ UNCHANGED <<registry, holder, call, hubDeaths>>

\* handleCrashRestartSquatter surfaces it - a stranger, anyone under "prompt",
\* or a holder whose command line `ps` does not tell: crashed, and not counted.
ExitBlocked(p) ==
    /\ Squatted(p)
    /\ entry' = [entry EXCEPT ![proc[p].owner] =
            [@ EXCEPT !.status = "crashed", !.startError = "port_squatter"]]
    /\ proc' = [proc EXCEPT ![p] = Dead]
    /\ UNCHANGED <<registry, holder, call, hubDeaths>>

\* ... or adopt-kills a prior instance: SIGTERM, then a pause.
ExitAdopts(p) ==
    /\ Squatted(p) /\ Adopt /\ Attributable(holder)
    /\ proc' = [proc EXCEPT ![p] = [@ EXCEPT !.at = "adopting", !.target = holder]]
    /\ UNCHANGED <<registry, entry, holder, call, hubDeaths>>

\* Mutant: the budget is off by one.
CrashCountedLate(p, procs) ==
    LET e == proc[p].owner
        n == entry[e].crashes + 1
        GivesUp == n > MaxRestarts
    IN  /\ entry' = [entry EXCEPT ![e] = [@ EXCEPT !.crashes = n,
                !.status = IF GivesUp THEN "crashed" ELSE "restarting"]]
        /\ proc' = [procs EXCEPT ![p] =
                IF GivesUp THEN Dead ELSE [@ EXCEPT !.at = "backoff", !.target = NoPid]]

\* The crash is counted; the budget decides between giving up and a retry.
CrashCounted(p, procs) ==
    LET e == proc[p].owner
        n == entry[e].crashes + 1
        GivesUp == n >= MaxRestarts
    IN  /\ entry' = [entry EXCEPT ![e] = [@ EXCEPT !.crashes = n,
                !.status = IF GivesUp THEN "crashed" ELSE "restarting"]]
        /\ proc' = [procs EXCEPT ![p] =
                IF GivesUp THEN Dead ELSE [@ EXCEPT !.at = "backoff", !.target = NoPid]]

\* The port is free, or ours, or lsof said nothing, or the SIGTERM threw.
ExitCrashed(p) ==
    /\ proc[p].at = "exited" /\ ~StopAsked(proc[p].owner)
    /\ CrashCounted(p, proc)
    /\ UNCHANGED <<registry, holder, call, hubDeaths>>

\* Mutant: SIGKILL goes to whoever holds the port after the pause.
AdoptKillsHolder(p) ==
    /\ proc[p].at = "adopting" /\ holder # NoPid
    /\ holder' = NoPid
    /\ CrashCounted(p, [q \in Pids |-> IF q = holder THEN Dead ELSE proc[q]])
    /\ UNCHANGED <<registry, call, hubDeaths>>

\* After the pause the same pid may still hold the port: SIGKILL it.
AdoptKills(p) ==
    LET t == proc[p].target IN
    /\ proc[p].at = "adopting" /\ holder = t
    /\ holder' = NoPid
    /\ CrashCounted(p, [q \in Pids |->
            IF q # t THEN proc[q]
            ELSE IF proc[q].owner = NoEntry THEN Dead ELSE [proc[q] EXCEPT !.at = "exited"]])
    /\ UNCHANGED <<registry, call, hubDeaths>>

\* The orphan is gone, or the probe sees nothing.
AdoptReturns(p) ==
    /\ proc[p].at = "adopting"
    /\ CrashCounted(p, proc)
    /\ UNCHANGED <<registry, holder, call, hubDeaths>>

\* Mutant: the sleep is not followed by a look at stopRequested.
RespawnAnyway(p) ==
    /\ proc[p].at = "backoff"
    /\ \E q \in FreePids :
        SpawnAndWatch(proc[p].owner, entry[proc[p].owner], q, entry,
                      [proc EXCEPT ![p] = Dead])
    /\ UNCHANGED <<registry, holder, call, hubDeaths>>

\* restartDelayMs later; a stop() during the sleep wins.
Respawn(p) ==
    /\ proc[p].at = "backoff" /\ ~StopAsked(proc[p].owner)
    /\ \E q \in FreePids :
        SpawnAndWatch(proc[p].owner, entry[proc[p].owner], q, entry,
                      [proc EXCEPT ![p] = Dead])
    /\ UNCHANGED <<registry, holder, call, hubDeaths>>

RespawnDropped(p) ==
    /\ proc[p].at = "backoff" /\ StopAsked(proc[p].owner)
    /\ proc' = [proc EXCEPT ![p] = Dead]
    /\ UNCHANGED <<registry, entry, holder, call, hubDeaths>>

-----------------------------------------------------------------------------
\* awaitPortReadiness ("ready") and lateBindWatch ("late"); "...Ask" is the
\* await of portListening, which answers for the port, whoever holds it.

SetGate(e, gate, err) ==
    /\ entry' = [entry EXCEPT ![e] = [@ EXCEPT !.gate = gate, !.startError = err]]
    /\ UNCHANGED <<registry, proc, holder, call, hubDeaths>>

GatePoll(e) ==
    /\ entry[e].gate = "ready"
    /\ SetGate(e, IF NotRunning(e) THEN "off" ELSE "readyAsk", entry[e].startError)

\* Mutant: the last look before the note is dropped.
GateExpiresBlind(e) ==
    /\ entry[e].gate = "ready"
    /\ SetGate(e, "late", "started_but_unbound")

\* startReadyMs is over.
GateExpires(e) ==
    /\ entry[e].gate = "ready"
    /\ IF NotRunning(e) THEN SetGate(e, "off", entry[e].startError)
                        ELSE SetGate(e, "late", "started_but_unbound")

LatePoll(e) ==
    /\ entry[e].gate = "late"
    /\ SetGate(e, IF NotRunning(e) \/ entry[e].startError # "started_but_unbound"
                  THEN "off" ELSE "lateAsk", entry[e].startError)

LateExpires(e) ==
    /\ entry[e].gate = "late"
    /\ SetGate(e, "off", entry[e].startError)

\* portListening resolved: a bound port drops the startError and ends the
\* watch, without another look at the entry.
ProbeAnswers(e) ==
    \/ /\ entry[e].gate \in {"readyAsk", "lateAsk"} /\ holder # NoPid
       /\ SetGate(e, "off", "none")
    \/ /\ entry[e].gate = "readyAsk" /\ holder = NoPid
       /\ SetGate(e, "ready", entry[e].startError)
    \/ /\ entry[e].gate = "lateAsk" /\ holder = NoPid
       /\ SetGate(e, "late", entry[e].startError)

-----------------------------------------------------------------------------
\* The world outside the supervisor.

Binds(p) ==
    /\ proc[p].at = "booting" /\ holder = NoPid
    /\ proc' = [proc EXCEPT ![p].at = "listening"]
    /\ holder' = p
    /\ UNCHANGED <<registry, entry, call, hubDeaths>>

OutsiderMoves ==
    /\ \/ holder = NoPid /\ holder' = Outsider
       \/ holder = Outsider /\ holder' = NoPid
    /\ UNCHANGED <<registry, entry, proc, call, hubDeaths>>

\* Mutant: a stamp leaves the window twice.
StampAgesTwice(e) ==
    /\ entry[e].aged < MaxAged
    /\ entry' = [entry EXCEPT ![e] = [@ EXCEPT !.crashes = entry[e].crashes - 1,
                                               !.aged = entry[e].aged + 1]]
    /\ UNCHANGED <<registry, proc, holder, call, hubDeaths>>

\* A crash stamp becomes older than restartWindowMs.
StampAges(e) ==
    /\ entry[e].crashes > 0 /\ entry[e].aged < MaxAged
    /\ entry' = [entry EXCEPT ![e] = [@ EXCEPT !.crashes = entry[e].crashes - 1,
                                               !.aged = entry[e].aged + 1]]
    /\ UNCHANGED <<registry, proc, holder, call, hubDeaths>>

\* The hub process dies: its objects vanish and its detached children live on
\* as orphans.  A spawn that throws inside handleExit ends here too, as an
\* unhandled rejection.
HubDies ==
    /\ hubDeaths < MaxHubDeaths
    /\ hubDeaths' = hubDeaths + 1
    /\ registry' = NoEntry
    /\ entry' = [e \in Entries |-> Blank]
    /\ proc' = [p \in Pids |-> IF Alive(p) THEN [proc[p] EXCEPT !.owner = NoEntry] ELSE Dead]
    /\ call' = [c \in Callers |-> Idle]
    /\ UNCHANGED holder

-----------------------------------------------------------------------------
HandleExit(p) ==
    \/ ExitStopped(p) \/ ExitBlocked(p) \/ ExitAdopts(p) \/ ExitCrashed(p)
    \/ AdoptKills(p) \/ AdoptReturns(p) \/ Respawn(p) \/ RespawnDropped(p)

Gate(e) == GatePoll(e) \/ GateExpires(e) \/ LatePoll(e) \/ LateExpires(e) \/ ProbeAnswers(e)

Operator(c) == Stop(c) \/ Restart(c) \/ KillTimeout(c) \/ StopReturns(c) \/ RestartReturns(c)

\* An object nothing refers to is gone.  Collected before anything else
\* happens, so that an identity stands for one object at a time.
Collect ==
    /\ Garbage # {}
    /\ entry' = [e \in Entries |-> IF e \in Garbage THEN Blank ELSE entry[e]]
    /\ UNCHANGED <<registry, proc, holder, call, hubDeaths>>

Next ==
    \/ Collect
    \/ /\ Garbage = {}
       /\ \/ Start \/ OutsiderMoves \/ HubDies
          \/ \E c \in Callers : Operator(c)
          \/ \E p \in Pids : HandleExit(p) \/ Dies(p) \/ Binds(p)
          \/ \E e \in Entries : Gate(e) \/ StampAges(e)

Spec == Init /\ [][Next]_vars

\* The event loop runs every continuation and timer that is due; nothing is
\* asked of operators, children or strangers.
Fairness ==
    /\ \A p \in Pids : WF_vars(HandleExit(p))
    /\ \A c \in Callers : WF_vars(KillTimeout(c)) /\ WF_vars(StopReturns(c))
    /\ \A e \in Entries : WF_vars(Gate(e))

FairSpec == Spec /\ Fairness

-----------------------------------------------------------------------------
ChildrenOf(e) == {p \in Pids : Alive(p) /\ proc[p].owner = e}

\* One ModuleEntry never has two live children, however its crash handler,
\* stop() and restart() interleave.
OneChildPerEntry == \A e \in Entries : Cardinality(ChildrenOf(e)) <= 1

\* A status of "stopped" is true: no child of that entry is alive.
StoppedMeansDead == \A e \in Entries : entry[e].status = "stopped" => ChildrenOf(e) = {}

\* The restart budget: an entry's spawns never exceed maxRestarts by more than
\* the crash stamps that have left the sliding window.
BudgetHolds == \A e \in Entries : entry[e].spawns <= MaxRestarts + entry[e].aged

\* The adopt-kill only ever aims at a process the registered entry does not
\* vouch for, and keeps doing so through its pause.
AdoptTargetUnowned == \A p \in Pids :
    proc[p].at = "adopting" /\ registry # NoEntry /\ entry[registry].proc = proc[p].target
        => NotRunning(registry)

\* As long as the module has a marker of its own, no step of the supervisor
\* takes the port from a process that is not this module's, though the holder
\* may change while an adopt-kill sleeps.
StrangersSpared == [][
    HasMarker /\ holder = Outsider /\ holder' # Outsider
        => UNCHANGED <<registry, entry, proc, call>>]_vars

\* After stop() or restart() has flagged an entry, no child is spawned for it:
\* not by a crash handler that slept through the call, not by a second call.
StopSticks == [][\A e \in Entries :
    StopAsked(e) /\ StopAsked(e)'
        => ChildrenOf(e)' \subseteq ChildrenOf(e)]_vars

\* The readiness gate blames a missing bind only on a child whose end has not
\* been dealt with and that nobody is stopping, whatever happened in its window.
UnboundOnlyWhileUp == [][\A e \in Entries :
    entry[e].startError # "started_but_unbound" /\ entry'[e].startError = "started_but_unbound"
        => /\ ~StopAsked(e)
           /\ proc[entry[e].proc].at \in {"booting", "listening", "exited", "adopting"}]_vars

\* stop() returns: SIGKILL follows a SIGTERM the child ignores.
StopCompletes == \A c \in Callers : call[c].op = "stop" ~> call[c].op # "stop"

\* A crash is never lost: an entry that reads "running" with no live child is
\* respawned, given up on, stopped, or gone with the hub.
CrashIsHandled == \A e \in Entries :
    (entry[e].status = "running" /\ ChildrenOf(e) = {})
        ~> (ChildrenOf(e) # {} \/ StopAsked(e)
                \/ entry[e].status \in {"crashed", "none"})

-----------------------------------------------------------------------------
\* Each entry object as the slot of ModuleSlot: the supervisor's crash stamps
\* and sliding window are a bucket of tokens that a child's spawn takes from.
Credit(e) == MaxRestarts + entry[e].aged - entry[e].spawns

Abstract == INSTANCE ModuleSlot WITH
    Slots  <- Entries,
    Budget <- MaxRestarts,
    up     <- [e \in Entries |-> ChildrenOf(e) # {}],
    asked  <- [e \in Entries |-> StopAsked(e)],
    said   <- [e \in Entries |-> entry[e].status = "stopped"],
    credit <- [e \in Entries |-> Credit(e)]

\* The supervisor implements the slots: at most one child each, spawned only
\* while nobody has asked to stop, out of the budget of the sliding window.
SlotsKept == Abstract!Spec

-----------------------------------------------------------------------------
\* The inductive strengthening of the safety properties, part by part.

\* An active process that is a child is the `proc` of a live object, and only
\* children have a handleExit continuation.
Owned == \A p \in Pids : Active(p) =>
    IF proc[p].owner = NoEntry THEN Alive(p)
    ELSE entry[proc[p].owner].proc = p /\ entry[proc[p].owner].status # "none"

\* A suspended stop() or restart() holds a flagged object and its only child.
Flagged == \A c \in Callers : call[c].op # "idle" =>
    /\ call[c].entry \in Entries
    /\ StopAsked(call[c].entry)
    /\ entry[call[c].entry].status # "none"
    /\ entry[call[c].entry].proc = call[c].pid
    /\ call[c].op = "stop" => call[c].pid # NoPid

Registered == registry # NoEntry => entry[registry].status # "none"

PortHeld == holder \in Pids => proc[holder].at = "listening"

StoppedIsFlagged == \A e \in Entries :
    entry[e].status = "stopped" => StopAsked(e) /\ ChildrenOf(e) = {}

\* Each child but the current one has been counted as a crash.
Counted == \A p \in Pids : Active(p) /\ proc[p].owner # NoEntry =>
    LET ent == entry[proc[p].owner] IN
    /\ ent.crashes < MaxRestarts
    /\ ent.spawns = ent.crashes + ent.aged + (IF proc[p].at = "backoff" THEN 0 ELSE 1)

\* An adopt-kill in progress aims at what was attributable.
Aimed == \A p \in Pids : proc[p].at = "adopting" =>
    proc[p].target \in Pids \cup {Outsider} /\ Attributable(proc[p].target)

IInv == /\ TypeOK /\ Owned /\ Flagged /\ Registered /\ PortHeld
        /\ StoppedIsFlagged /\ Counted /\ BudgetHolds /\ Aimed /\ AdoptTargetUnowned

-----------------------------------------------------------------------------
\* What comments of supervisor.ts say, and the code does not do.

\* start(): "Idempotent: re-spawning an already-running module is a no-op";
\* restart(): "the fresh spawn below doesn't race on EADDRINUSE".
OneLiveChild == Cardinality({p \in Pids : Alive(p) /\ proc[p].owner # NoEntry}) <= 1
=============================================================================
