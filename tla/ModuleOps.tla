----------------------------- MODULE ModuleOps -----------------------------
(***************************************************************************)
(* The operator's requests on one module (src/src/api-modules-ops.ts): the *)
(* services.json row, the globally installed package and the supervisor's  *)
(* entry are three records of one fact, and every handler reads one,       *)
(* awaits, and writes another.  Nothing serialises two requests.           *)
(*                                                                         *)
(* An action is the code between two awaits.  The supervisor is seen from  *)
(* outside: what start(), stop() and restart() do to the registered entry; *)
(* Supervisor.tla has the inside.  A child that is replaced while it is    *)
(* being stopped dies on its own account.                                  *)
(***************************************************************************)
EXTENDS Integers, FiniteSets

CONSTANTS
    Requests,      \* one operator request each
    MaxRelease,    \* bound: releases of the package on the registry
    MaxHubDeaths   \* bound: deaths of the hub process

ASSUME OpsAssumption == MaxRelease \in Nat \ {0} /\ MaxHubDeaths \in Nat

VARIABLES
    row,        \* the module's row in services.json
    package,    \* the release `bun add -g` has put on disk; 0: none
    sup,        \* the supervisor's registered entry for the module
    request,
    op,         \* the operations registry: what a poll of r's id answers
    hub,        \* "up" once the boot loop is through
    hubDeaths,
    overlap     \* history: pairs of requests that were in flight together

vars == <<row, package, sup, request, op, hub, hubDeaths, overlap>>

Dirs == 0 .. MaxRelease   \* installDir by the release it holds; 0: not stamped

Row == [port: {"canonical", "drifted"}, dir: Dirs]

NoRow == [port |-> "none", dir |-> 0]

\* "replay": an upgrade that resolved no command and restarts the entry's own.
Kinds == {"start", "stop", "restart", "install", "upgrade", "replay", "uninstall"}

\* gen tells one ModuleEntry object from the one that replaces it.
Entry == [ status: {"absent", "starting", "running", "restarting", "stopped", "crashed"},
           asked: BOOLEAN, dir: Dirs, gen: Nat ]

\* row: what resolveSpawnRequest found; gen: the entry a stop() waits for.
Request == [ kind: Kinds \cup {"none"},
             at: {"new", "resolving", "adding", "seeding", "composing", "stopping",
                  "removing", "refreshing", "done"},
             row: Row \cup {NoRow}, gen: Nat ]

TypeOK ==
    /\ row \in Row \cup {NoRow} /\ package \in Dirs
    /\ sup \in Entry /\ request \in [Requests -> Request]
    /\ op \in [Requests -> {"none", "running", "succeeded", "failed", "lost"}]
    /\ hub \in {"up", "down"} /\ hubDeaths \in Nat
    /\ overlap \subseteq SUBSET Requests

-----------------------------------------------------------------------------
InFlight(r) == request[r].at \notin {"new", "done"}

Absent == [status |-> "absent", asked |-> FALSE, dir |-> 0, gen |-> 0]

\* A child of the registered entry may be alive.
ChildUp == sup.status \in {"running", "restarting"}

Init ==
    /\ row \in {NoRow, [port |-> "canonical", dir |-> 1]}
    /\ package = IF row = NoRow THEN 0 ELSE 1
    /\ sup = IF row = NoRow THEN Absent ELSE [Absent EXCEPT !.status = "running", !.dir = 1]
    /\ request = [r \in Requests |-> [kind |-> "none", at |-> "new", row |-> NoRow, gen |-> 0]]
    /\ op = [r \in Requests |-> "none"]
    /\ hub = "up" /\ hubDeaths = 0 /\ overlap = {}

Goes(r, at) == request' = [request EXCEPT ![r].at = at]

\* The request is answered; an operation settles on `verdict`.
Answers(r, verdict) ==
    /\ Goes(r, "done")
    /\ op' = IF op[r] = "none" THEN op ELSE [op EXCEPT ![r] = verdict]

-----------------------------------------------------------------------------
\* The supervisor from outside.

\* A fresh entry: spawned, reported crashed, or left "starting" by a throw.
FreshEntry(dir) == {[status |-> s, asked |-> FALSE, dir |-> dir, gen |-> sup.gen + 1] :
                        s \in {"running", "crashed", "starting"}}

\* supervisor.start
Started(dir) == IF sup.status \in {"running", "starting"} THEN {sup} ELSE FreshEntry(dir)

Threw(state) == state.status = "starting" /\ state # sup

\* supervisor.stop up to its await; without a child there is none.
Stopping(status) == [sup EXCEPT !.asked = TRUE,
                                !.status = IF ChildUp THEN status ELSE "stopped"]

-----------------------------------------------------------------------------
\* resolveSpawnRequest after its await: a drifted row is written back as it was
\* read, with its canonical port; unless another row has that port, or the
\* write fails.
Reconciled(found) ==
    IF found.port = "drifted" THEN {row, [found EXCEPT !.port = "canonical"]} ELSE {row}

\* supervisor.restart up to its await: the spawn request it will use is
\* `found`, or the entry's own when nothing was resolved.
RestartBegins(r, kind, found) ==
    IF sup.status = "absent" THEN Answers(r, "failed") /\ UNCHANGED sup
    ELSE /\ sup' = Stopping("restarting")
         /\ request' = [request EXCEPT ![r] = [kind |-> kind, at |-> "stopping", gen |-> sup.gen,
                row |-> IF found = NoRow THEN [port |-> "canonical", dir |-> sup.dir] ELSE found]]
         /\ UNCHANGED op

\* findService; the module.json of the row's installDir is read next.
ResolveBegins(r, kind, found) ==
    request' = [request EXCEPT ![r] = [kind |-> kind, at |-> "resolving", row |-> found, gen |-> 0]]

StartReads(r) ==
    /\ \E k \in {"start", "restart"} :
        IF row = NoRow THEN request' = [request EXCEPT ![r].kind = k, ![r].at = "done"]
                       ELSE ResolveBegins(r, k, row)
    /\ UNCHANGED <<row, package, sup, op>>

Resolved(r) ==
    /\ request[r].at = "resolving"
    /\ row' \in Reconciled(request[r].row)
    /\ \/ /\ request[r].kind = "start"
          /\ \/ UNCHANGED sup                              \* 422 no_start_cmd
             \/ sup' \in Started(request[r].row.dir)
          /\ Answers(r, "failed")
       \/ /\ request[r].kind = "restart"
          /\ \/ Answers(r, "failed") /\ UNCHANGED sup      \* 422 no_start_cmd
             \/ RestartBegins(r, "restart", request[r].row)
       \/ /\ request[r].kind = "upgrade"
          /\ \/ RestartBegins(r, "upgrade", request[r].row)
             \/ RestartBegins(r, "replay", NoRow)
    /\ UNCHANGED package

\* Mutant: the entry is spawned again as it was first started (hub#532).
RestartReplays(r) ==
    /\ request[r].at = "stopping" /\ request[r].kind \in {"restart", "upgrade", "replay"}
    /\ sup' \in FreshEntry(sup.dir)
    /\ IF request[r].kind # "restart" /\ ~Threw(sup')
       THEN Goes(r, "refreshing") /\ UNCHANGED op
       ELSE Answers(r, "failed")
    /\ UNCHANGED <<row, package>>

\* restart() once its stop() has returned.
RestartReturns(r) ==
    /\ request[r].at = "stopping" /\ request[r].kind \in {"restart", "upgrade", "replay"}
    /\ sup' \in FreshEntry(request[r].row.dir)
    /\ IF request[r].kind # "restart" /\ ~Threw(sup')
       THEN Goes(r, "refreshing") /\ UNCHANGED op
       ELSE Answers(r, "failed")
    /\ UNCHANGED <<row, package>>

-----------------------------------------------------------------------------
\* handleStop, and handleUninstall to the same point.
StopBegins(r) ==
    /\ \E k \in {"stop", "uninstall"} :
        \/ /\ ChildUp
           /\ request' = [request EXCEPT ![r] = [kind |-> k, at |-> "stopping", row |-> NoRow,
                                                 gen |-> sup.gen]]
           /\ sup' = Stopping("running") /\ UNCHANGED row
        \/ /\ ~ChildUp
           /\ sup' = IF sup.status = "absent" THEN sup ELSE Stopping("running")
           /\ request' = [request EXCEPT ![r].kind = k,
                                ![r].at = IF k = "stop" THEN "done" ELSE "removing"]
           /\ row' = IF k = "stop" THEN row ELSE NoRow
    /\ UNCHANGED <<package, op>>

\* Mutant: uninstall does not wait for the stop.
StopForgotten(r) ==
    /\ request[r].at = "stopping" /\ request[r].kind \in {"stop", "uninstall"}
    /\ IF request[r].kind = "stop" THEN Goes(r, "done") /\ UNCHANGED row
                                   ELSE Goes(r, "removing") /\ row' = NoRow
    /\ UNCHANGED <<sup, package, op>>

\* Mutant: the row is not removed but emptied, and keeps its installDir.
StopBlanks(r) ==
    /\ request[r].at = "stopping" /\ request[r].kind = "uninstall"
    /\ sup' = IF sup.gen = request[r].gen THEN [sup EXCEPT !.status = "stopped"] ELSE sup
    /\ Goes(r, "removing") /\ row' = [row EXCEPT !.port = "none"]
    /\ UNCHANGED <<package, op>>

\* stop() returns; uninstall goes on to drop the row without a further await.
StopReturns(r) ==
    /\ request[r].at = "stopping" /\ request[r].kind \in {"stop", "uninstall"}
    /\ sup' = IF sup.gen = request[r].gen THEN [sup EXCEPT !.status = "stopped"] ELSE sup
    /\ IF request[r].kind = "stop" THEN Goes(r, "done") /\ UNCHANGED row
                                   ELSE Goes(r, "removing") /\ row' = NoRow
    /\ UNCHANGED <<package, op>>

\* bun remove -g, whatever it exits with.
Removed(r) ==
    /\ request[r].at = "removing"
    /\ package' \in {0, package}
    /\ Goes(r, "refreshing")
    /\ UNCHANGED <<row, sup, op>>

-----------------------------------------------------------------------------
\* stampInstallDirOnRow
Stamped(found, release) ==
    IF found = NoRow \/ release = 0 THEN found ELSE [found EXCEPT !.dir = release]

\* runInstall from the end of bun add: is there a row to stamp?
InstallGoesOn(r, release) ==
    IF row = NoRow
    THEN /\ request' = [request EXCEPT ![r].kind = "install", ![r].at = "seeding"]
         /\ UNCHANGED row
    ELSE /\ row' = Stamped(row, release)
         /\ request' = [request EXCEPT ![r].kind = "install", ![r].at = "composing"]

\* Mutant: whatever the supervisor has an entry for counts as installed.
InstallBeginsRegistered(r) ==
    /\ IF sup.status # "absent"
       THEN /\ op' = [op EXCEPT ![r] = "succeeded"]
            /\ request' = [request EXCEPT ![r].kind = "install", ![r].at = "done"]
       ELSE /\ op' = [op EXCEPT ![r] = "running"]
            /\ request' = [request EXCEPT ![r].kind = "install", ![r].at = "adding"]
    /\ UNCHANGED <<row, package, sup>>

\* handleInstall: what is installed and runs is a success at once; a package
\* linked by `bun link` is not added.
InstallBegins(r) ==
    /\ IF row # NoRow /\ sup.status = "running"
       THEN /\ op' = [op EXCEPT ![r] = "succeeded"]
            /\ request' = [request EXCEPT ![r].kind = "install", ![r].at = "done"]
            /\ UNCHANGED row
       ELSE /\ op' = [op EXCEPT ![r] = "running"]
            /\ \/ /\ request' = [request EXCEPT ![r].kind = "install", ![r].at = "adding"]
                  /\ UNCHANGED row
               \/ package # 0 /\ InstallGoesOn(r, package)
    /\ UNCHANGED <<package, sup>>

UpgradeBegins(r) ==
    /\ op' = [op EXCEPT ![r] = "running"]
    /\ request' = [request EXCEPT ![r].kind = "upgrade", ![r].at = "adding"]
    /\ UNCHANGED <<row, package, sup>>

\* Mutant: the error is recorded, and the install goes on.
AddFailsAndGoesOn(r) ==
    /\ request[r].at = "adding" /\ request[r].kind = "install"
    /\ request' = [request EXCEPT ![r].at = IF row = NoRow THEN "seeding" ELSE "composing"]
    /\ op' = [op EXCEPT ![r] = "failed"]
    /\ UNCHANGED <<row, package, sup>>

AddFails(r) ==
    /\ request[r].at = "adding"
    /\ Answers(r, "failed")
    /\ UNCHANGED <<row, package, sup>>

\* bun add -g put a release on disk, though its exit code may say otherwise.
AddSucceeds(r) ==
    /\ request[r].at = "adding"
    /\ \E release \in 1 .. MaxRelease :
        /\ release \in {package, package + 1} /\ package' = release
        /\ IF request[r].kind = "install"
           THEN InstallGoesOn(r, release) /\ UNCHANGED <<op, sup>>
           ELSE /\ row' = Stamped(row, release)
                /\ IF row = NoRow THEN RestartBegins(r, "replay", NoRow)
                   ELSE ResolveBegins(r, "upgrade", row') /\ UNCHANGED <<op, sup>>

\* After `await import`: the row is written without another look at the file.
Seeds(r) ==
    /\ request[r].at = "seeding"
    /\ \/ /\ row' = Stamped([port |-> "canonical", dir |-> 0], package)
          /\ Goes(r, "composing") /\ UNCHANGED op
       \/ Answers(r, "failed") /\ UNCHANGED row   \* the port is taken: upsertService throws
    /\ UNCHANGED <<package, sup>>

\* Mutant: nobody catches what spawnSupervised throws.
ComposedUncaught(r) ==
    /\ request[r].at = "composing" /\ row # NoRow
    /\ sup' \in Started(row.dir)
    /\ Goes(r, IF Threw(sup') THEN "done" ELSE "refreshing")
    /\ UNCHANGED <<row, package, op>>

\* spawnSupervised reads the row afresh; no row or no command is a failure.
Composed(r) ==
    /\ request[r].at = "composing"
    /\ \/ Answers(r, "failed") /\ UNCHANGED sup
       \/ /\ row # NoRow /\ sup' \in Started(row.dir)
          /\ IF Threw(sup') THEN Answers(r, "failed") ELSE Goes(r, "refreshing") /\ UNCHANGED op
    /\ UNCHANGED <<row, package>>

\* refreshWellKnown never throws; success whatever the state that came back.
Refreshed(r) ==
    /\ request[r].at = "refreshing"
    /\ Answers(r, "succeeded")
    /\ UNCHANGED <<row, package, sup>>

-----------------------------------------------------------------------------
\* The restart budget of the supervisor is spent.
ChildGivesUp ==
    /\ sup.status = "running" /\ ~sup.asked
    /\ sup' = [sup EXCEPT !.status = "crashed"]
    /\ UNCHANGED <<row, package, request, op, hub, hubDeaths, overlap>>

\* The module or the command line rewrites the row with another port.
RowDrifts ==
    /\ row # NoRow /\ row.port = "canonical"
    /\ row' = [row EXCEPT !.port = "drifted"]
    /\ UNCHANGED <<package, sup, request, op, hub, hubDeaths, overlap>>

\* Requests, operations and entries live in memory.
HubDies ==
    /\ hub = "up" /\ hubDeaths < MaxHubDeaths
    /\ hub' = "down" /\ hubDeaths' = hubDeaths + 1
    /\ sup' = [Absent EXCEPT !.gen = sup.gen]
    /\ request' = [r \in Requests |-> IF InFlight(r) THEN [request[r] EXCEPT !.at = "done"]
                                                     ELSE request[r]]
    /\ op' = [r \in Requests |-> IF op[r] = "none" THEN "none" ELSE "lost"]
    /\ UNCHANGED <<row, package, overlap>>

\* bootSupervisedModules, before the hub serves requests.
Boot ==
    /\ hub = "down" /\ hub' = "up"
    /\ row' \in Reconciled(row)
    /\ \/ row # NoRow /\ sup' \in Started(row.dir)
       \/ UNCHANGED sup                      \* no row, or no command to run
    /\ UNCHANGED <<package, request, op, hubDeaths, overlap>>

-----------------------------------------------------------------------------
Begin(r) ==
    /\ hub = "up" /\ request[r].at = "new"
    /\ StartReads(r) \/ StopBegins(r) \/ InstallBegins(r) \/ UpgradeBegins(r)
    /\ overlap' = overlap \cup {{r, q} : q \in {p \in Requests : InFlight(p)}}
    /\ UNCHANGED <<hub, hubDeaths>>

Continue(r) ==
    /\ \/ Resolved(r) \/ RestartReturns(r) \/ StopReturns(r) \/ Removed(r)
       \/ AddFails(r) \/ AddSucceeds(r) \/ Seeds(r) \/ Composed(r) \/ Refreshed(r)
    /\ UNCHANGED <<hub, hubDeaths, overlap>>

Next ==
    \/ \E r \in Requests : Begin(r) \/ Continue(r)
    \/ ChildGivesUp \/ RowDrifts \/ HubDies \/ Boot

Spec == Init /\ [][Next]_vars

\* Promises resolve: bun exits, the supervisor's stop() returns (checked of
\* Supervisor), a file read ends.
FairSpec == Spec /\ \A r \in Requests : WF_vars(Continue(r))

-----------------------------------------------------------------------------
Beside(r, kinds) == \E q \in Requests \ {r} : {r, q} \in overlap /\ request[q].kind \in kinds

\* A module without a row runs only if an uninstall and a request that starts
\* the module were in flight together, or an upgrade restarted the entry that an
\* earlier uninstall stopped and left registered.  Any other sequence of requests,
\* deaths and boots leaves no stray.
StrayNeedsOverlap ==
    sup.status = "running" /\ row = NoRow
        => \E r \in Requests :
            \/ request[r].kind = "replay"
            \/ request[r].kind # "stop" /\ Beside(r, {"uninstall"})

\* What a poll of an operation has reported as its end stays its end until the
\* hub dies and forgets it, and an install that reports success has left a row
\* behind, unless an uninstall ran beside it.
OutcomesStand ==
    [][\A r \in Requests :
        /\ op[r] \in {"succeeded", "failed"} => op'[r] \in {op[r], "lost"}
        /\ request[r].kind' = "install" /\ op[r] # "succeeded" /\ op'[r] = "succeeded"
            => row' # NoRow \/ Beside(r, {"uninstall"})']_vars

\* Starts, stops and restarts may overlap as they like: once all is quiet, what
\* runs is the release the row names.  Only an upgrade that replayed the old
\* command, or an install, upgrade or uninstall beside another request, can
\* leave the two apart.
RunsWhatIsStamped ==
    /\ sup.status = "running" /\ hub = "up"
    /\ \A r \in Requests :
        /\ ~InFlight(r) /\ request[r].kind # "replay"
        /\ request[r].kind \in {"install", "upgrade", "uninstall"} => ~Beside(r, Kinds \ {"stop"})
    => row # NoRow /\ sup.dir = row.dir

\* No operation is left running for ever, whatever throws.
OpSettles == \A r \in Requests : op[r] = "running" ~> op[r] # "running"
=============================================================================
