-------------------------- MODULE SupervisorProofs --------------------------
(***************************************************************************)
(* Theorems about Supervisor for any number of entries, processes and      *)
(* callers and any restart budget.                                         *)
(***************************************************************************)
EXTENDS Supervisor, FiniteSetTheorems, TLAPS

USE SupervisorAssumption

\* What an identity handed out by the allocators is.
LEMMA FreeEntry == ASSUME NEW e \in FreeEntries
                   PROVE  e \in Entries /\ entry[e].status = "none"
BY DEF FreeEntries, Least

LEMMA FreePid == ASSUME NEW p \in FreePids
                 PROVE  /\ p \in Pids /\ ~Active(p) /\ holder # p
                        /\ \A e \in Entries : entry[e].proc # p
                        /\ \A c \in Callers : call[c].pid # p
                        /\ \A q \in Pids : proc[q].target # p
BY DEF FreePids, Least

Status == {"none", "starting", "running", "stopped", "crashed", "restarting"}
StartError == {"none", "missing_dependency", "port_squatter", "started_but_unbound"}

\* The record updates of the actions keep a ModuleEntry a ModuleEntry.
LEMMA StopTyped == \A r \in ModuleEntry, s \in Status :
    [r EXCEPT !.stopRequested = "set", !.status = s] \in ModuleEntry
BY DEF ModuleEntry, Status

LEMMA FlagTyped == \A r \in ModuleEntry, s \in Status :
    /\ [r EXCEPT !.stopRequested = "set"] \in ModuleEntry
    /\ [r EXCEPT !.status = s] \in ModuleEntry
BY DEF ModuleEntry, Status

LEMMA VerdictTyped == \A r \in ModuleEntry, s \in Status, x \in StartError :
    [r EXCEPT !.status = s, !.startError = x] \in ModuleEntry
BY DEF ModuleEntry, Status, StartError

LEMMA CrashTyped == \A r \in ModuleEntry, s \in Status, n \in Nat :
    [r EXCEPT !.crashes = n, !.status = s] \in ModuleEntry
BY DEF ModuleEntry, Status

LEMMA GateTyped == \A r \in ModuleEntry, x \in StartError,
                      g \in {"off", "ready", "readyAsk", "late", "lateAsk"} :
    [r EXCEPT !.gate = g, !.startError = x] \in ModuleEntry
BY DEF ModuleEntry, StartError

LEMMA AgeTyped == \A r \in ModuleEntry, n \in Nat, k \in Nat :
    [r EXCEPT !.crashes = n, !.aged = k] \in ModuleEntry
BY DEF ModuleEntry

LEMMA SpawnTyped == \A r \in ModuleEntry, p \in Pids, n \in Nat :
    [r EXCEPT !.status = "running", !.startError = "none", !.proc = p, !.spawns = n]
        \in ModuleEntry
BY DEF ModuleEntry

LEMMA BlankTyped == Blank \in ModuleEntry /\ Dead \in Process /\ Idle \in Call
BY DEF Blank, Dead, Idle, ModuleEntry, Process, Call

LEMMA EntryFields ==
    ASSUME NEW r \in ModuleEntry
    PROVE  /\ r.status \in {"none", "starting", "running", "stopped", "crashed", "restarting"}
           /\ r.startError \in {"none", "missing_dependency", "port_squatter",
                                "started_but_unbound"}
           /\ r.proc \in Pids \cup {NoPid}
           /\ r.crashes \in Nat /\ r.crashes + 1 \in Nat
           /\ r.aged \in Nat /\ r.aged + 1 \in Nat
           /\ r.spawns \in Nat /\ r.spawns + 1 \in Nat
BY DEF ModuleEntry

\* start() registers an object and may create one child.
LEMMA StartTyped ==
    ASSUME TypeOK, NEW ents \in [Entries -> ModuleEntry], StartFresh(ents)
    PROVE  /\ registry' \in Entries /\ entry' \in [Entries -> ModuleEntry]
           /\ proc' \in [Pids -> Process]
<1>1. PICK e \in FreeEntries : StartFresh(ents)!(e)
  BY DEF StartFresh
<1>2. e \in Entries
  BY FreeEntry
<1> DEFINE fresh == [Blank EXCEPT !.gate = IF Gated THEN "ready" ELSE "off"]
<1>3. fresh \in ModuleEntry /\ fresh.spawns + 1 \in Nat
  BY DEF Blank, ModuleEntry
<1>4. CASE \E p \in FreePids : SpawnAndWatch(e, fresh, p, ents, proc)
  <2> HIDE DEF fresh
  <2>1. PICK p \in FreePids : SpawnAndWatch(e, fresh, p, ents, proc)
    BY <1>4
  <2>2. p \in Pids
    BY FreePid
  <2>3. [fresh EXCEPT !.status = "running", !.startError = "none", !.proc = p,
                      !.spawns = fresh.spawns + 1] \in ModuleEntry
    BY <1>3, <2>2, SpawnTyped
  <2>4. [owner |-> e, at |-> "booting", target |-> NoPid] \in Process
    BY <1>2 DEF Process
  <2> QED BY <1>1, <1>2, <2>1, <2>2, <2>3, <2>4 DEF SpawnAndWatch, TypeOK
<1>5. CASE ~ \E p \in FreePids : SpawnAndWatch(e, fresh, p, ents, proc)
  <2>1. PICK r \in {[Blank EXCEPT !.status = "crashed", !.startError = "missing_dependency"],
                    [Blank EXCEPT !.status = "crashed", !.startError = "port_squatter"],
                    [Blank EXCEPT !.status = "starting"]} :
            entry' = [ents EXCEPT ![e] = r] /\ UNCHANGED proc
    BY <1>1, <1>5
  <2>2. Blank \in ModuleEntry
    BY BlankTyped
  <2>3. r \in ModuleEntry
    BY <2>2, FlagTyped, VerdictTyped DEF Status, StartError
  <2> QED BY <1>1, <1>2, <2>1, <2>3 DEF TypeOK
<1> QED BY <1>4, <1>5

\* The processes an adopt-kill leaves: its target, when it is one of this
\* module's, has died, and the crash is counted over them.
LEMMA AdoptKilled ==
    ASSUME TypeOK, NEW p \in Pids, AdoptKills(p)
    PROVE  \E procs \in [Pids -> Process] :
               /\ CrashCounted(p, procs)
               /\ \A q \in Pids :
                    \/ procs[q] = proc[q]
                    \/ /\ q = proc[p].target /\ q = holder
                       /\ \/ procs[q] = Dead /\ proc[q].owner = NoEntry
                          \/ /\ proc[q].owner # NoEntry
                             /\ procs[q].owner = proc[q].owner /\ procs[q].at = "exited"
<1> DEFINE t == proc[p].target
           procs == [q \in Pids |->
                        IF q # t THEN proc[q]
                        ELSE IF proc[q].owner = NoEntry THEN Dead
                        ELSE [proc[q] EXCEPT !.at = "exited"]]
<1>1. CrashCounted(p, procs) /\ holder = t
  BY DEF AdoptKills
<1>2. \A q \in Pids : /\ proc[q] \in Process /\ Dead \in Process
                      /\ LET d == [proc[q] EXCEPT !.at = "exited"]
                         IN  d \in Process /\ d.at = "exited" /\ d.owner = proc[q].owner
  BY BlankTyped DEF TypeOK, Process
<1>3. procs \in [Pids -> Process]
  BY <1>2
<1> QED BY <1>1, <1>2, <1>3

\* Type correctness is preserved, given that suspended calls name live objects.
LEMMA TypeStep == TypeOK /\ Owned /\ Flagged /\ [Next]_vars => TypeOK'
<1> SUFFICES ASSUME TypeOK, Owned, Flagged, [Next]_vars PROVE TypeOK'
    OBVIOUS
<1>1. CASE Start
  BY <1>1, StartTyped DEF Start, TypeOK
<1>2. ASSUME NEW c \in Callers, Operator(c) PROVE TypeOK'
  <2>1. CASE Stop(c)
    <3>1. registry \in Entries /\ entry[registry] \in ModuleEntry
      BY <2>1 DEF Stop, TypeOK
    <3>2. CASE entry[registry].proc = NoPid
      <4>1. [entry[registry] EXCEPT !.stopRequested = "set", !.status = "stopped"] \in ModuleEntry
        BY <3>1, StopTyped DEF Status
      <4> QED BY <2>1, <3>1, <3>2, <4>1 DEF Stop, TypeOK
    <3>3. CASE entry[registry].proc # NoPid
      <4>1. entry' \in [Entries -> ModuleEntry]
        BY <2>1, <3>1, <3>3 DEF Stop, TypeOK, ModuleEntry
      <4>2. [op |-> "stop", entry |-> registry, pid |-> entry[registry].proc] \in Call
        BY <3>1 DEF Call, ModuleEntry
      <4> QED BY <2>1, <3>3, <4>1, <4>2 DEF Stop, TypeOK
    <3> QED BY <3>2, <3>3
  <2>2. CASE Restart(c)
    <3>1. registry \in Entries /\ entry[registry] \in ModuleEntry
      BY <2>2 DEF Restart, TypeOK
    <3>2. [entry[registry] EXCEPT !.stopRequested = "set", !.status =
            IF entry[registry].proc = NoPid THEN "stopped" ELSE "restarting"] \in ModuleEntry
      BY <3>1, StopTyped DEF Status
    <3>3. [op |-> "restart", entry |-> registry, pid |-> entry[registry].proc] \in Call
      BY <3>1, EntryFields DEF Call
    <3> QED BY <2>2, <3>1, <3>2, <3>3 DEF Restart, TypeOK
  <2>3. CASE KillTimeout(c) BY <2>3 DEF KillTimeout, Dies, Dead, TypeOK, Process, Call
  <2>4. CASE StopReturns(c)
    <3>1. call[c].entry \in Entries
      BY <2>4 DEF StopReturns, Flagged
    <3>2. [entry[call[c].entry] EXCEPT !.status = "stopped"] \in ModuleEntry
      BY <3>1, FlagTyped DEF Status, TypeOK
    <3> QED BY <2>4, <3>1, <3>2, BlankTyped DEF StopReturns, TypeOK
  <2>5. CASE RestartReturns(c)
    <3> DEFINE ents == IF call[c].pid = NoPid THEN entry
                       ELSE [entry EXCEPT ![call[c].entry].status = "stopped"]
    <3>1. call[c].entry \in Entries
      BY <2>5 DEF RestartReturns, Flagged
    <3>2. [entry[call[c].entry] EXCEPT !.status = "stopped"] \in ModuleEntry
      BY <3>1, FlagTyped DEF Status, TypeOK
    <3>3. ents \in [Entries -> ModuleEntry]
      BY <3>1, <3>2 DEF TypeOK
    <3>4. StartFresh(ents)
      BY <2>5 DEF RestartReturns
    <3> HIDE DEF ents
    <3> QED BY <2>5, <3>3, <3>4, StartTyped, BlankTyped DEF RestartReturns, TypeOK
  <2> QED BY <1>2, <2>1, <2>2, <2>3, <2>4, <2>5 DEF Operator
<1>3. ASSUME NEW p \in Pids, proc[p].at \in {"exited", "adopting"},
             NEW procs \in [Pids -> Process], CrashCounted(p, procs)
      PROVE  entry' \in [Entries -> ModuleEntry] /\ proc' \in [Pids -> Process]
  <2> DEFINE e == proc[p].owner
             n == entry[e].crashes + 1
             s == IF n >= MaxRestarts THEN "crashed" ELSE "restarting"
             d == IF n >= MaxRestarts THEN Dead
                  ELSE [procs[p] EXCEPT !.at = "backoff", !.target = NoPid]
  <2>1. e \in Entries /\ entry[e] \in ModuleEntry
    BY <1>3 DEF Owned, Active, Alive, TypeOK, Process
  <2>2. n \in Nat /\ s \in Status
    BY <2>1, EntryFields DEF Status
  <2>3. d \in Process
    BY <1>3, BlankTyped DEF Process
  <2>4. /\ entry' = [entry EXCEPT ![e] = [@ EXCEPT !.crashes = n, !.status = s]]
        /\ proc' = [procs EXCEPT ![p] = d]
    BY <1>3 DEF CrashCounted
  <2> HIDE DEF e, n, s, d
  <2>5. [entry[e] EXCEPT !.crashes = n, !.status = s] \in ModuleEntry
    BY <2>1, <2>2, CrashTyped
  <2> QED BY <2>1, <2>3, <2>4, <2>5 DEF TypeOK
<1>4. ASSUME NEW p \in Pids, HandleExit(p) PROVE TypeOK'
  <2>1. proc[p] \in Process /\ Active(p) /\ proc[p].owner \in Entries
    BY <1>4 DEF HandleExit, ExitStopped, ExitBlocked, ExitAdopts, ExitCrashed, AdoptKills,
                AdoptReturns, Respawn, RespawnDropped, Squatted, TypeOK, Process, Owned,
                Active, Alive
  <2>2. entry[proc[p].owner] \in ModuleEntry
    BY <2>1 DEF TypeOK
  <2>3. CASE ExitStopped(p)
    <3>1. [entry[proc[p].owner] EXCEPT !.status = "stopped"] \in ModuleEntry
      BY <2>2, FlagTyped DEF Status
    <3> QED BY <2>1, <2>3, <3>1, BlankTyped DEF ExitStopped, TypeOK
  <2>4. CASE ExitBlocked(p)
    <3>1. [entry[proc[p].owner] EXCEPT !.status = "crashed", !.startError = "port_squatter"]
            \in ModuleEntry
      BY <2>2, VerdictTyped DEF Status, StartError
    <3> QED BY <2>1, <2>4, <3>1, BlankTyped DEF ExitBlocked, TypeOK
  <2>5. CASE ExitAdopts(p)
    <3>1. [proc[p] EXCEPT !.at = "adopting", !.target = holder] \in Process
      BY <2>1, <2>5 DEF ExitAdopts, Squatted, TypeOK, Process
    <3> QED BY <2>5, <3>1 DEF ExitAdopts, TypeOK
  <2>6. CASE ExitCrashed(p)
    BY <2>6, <1>3 DEF ExitCrashed, TypeOK
  <2>7. CASE AdoptKills(p)
    <3>1. PICK procs \in [Pids -> Process] : CrashCounted(p, procs)
      BY <2>7, AdoptKilled
    <3>2. proc[p].at = "adopting" /\ holder' = NoPid /\ UNCHANGED <<registry, call, hubDeaths>>
      BY <2>7 DEF AdoptKills
    <3> QED BY <1>3, <3>1, <3>2 DEF TypeOK
  <2>8. CASE AdoptReturns(p)
    BY <2>8, <1>3 DEF AdoptReturns, TypeOK
  <2>9. CASE Respawn(p)
    <3> DEFINE e == proc[p].owner
    <3>1. PICK q \in FreePids : SpawnAndWatch(e, entry[e], q, entry, [proc EXCEPT ![p] = Dead])
      BY <2>9 DEF Respawn
    <3>2. q \in Pids
      BY FreePid
    <3>3. entry[e].spawns + 1 \in Nat
      BY <2>2, EntryFields
    <3>4. [entry[e] EXCEPT !.status = "running", !.startError = "none", !.proc = q,
                           !.spawns = entry[e].spawns + 1] \in ModuleEntry
      BY <2>2, <3>2, <3>3, SpawnTyped
    <3>5. [owner |-> e, at |-> "booting", target |-> NoPid] \in Process
      BY <2>1 DEF Process
    <3>6. UNCHANGED <<registry, holder, call, hubDeaths>>
      BY <2>9 DEF Respawn
    <3> QED BY <2>1, <3>1, <3>2, <3>4, <3>5, <3>6, BlankTyped DEF SpawnAndWatch, TypeOK
  <2>10. CASE RespawnDropped(p)
    BY <2>10, BlankTyped DEF RespawnDropped, TypeOK
  <2> QED BY <1>4, <2>3, <2>4, <2>5, <2>6, <2>7, <2>8, <2>9, <2>10 DEF HandleExit
<1>5. ASSUME NEW e \in Entries, Gate(e) PROVE TypeOK'
  <2>1. entry[e] \in ModuleEntry /\ entry[e].startError \in StartError
    BY EntryFields DEF TypeOK, StartError
  <2>2. ASSUME NEW g \in {"off", "ready", "readyAsk", "late", "lateAsk"},
               NEW x \in StartError, SetGate(e, g, x)
        PROVE  TypeOK'
    <3>1. [entry[e] EXCEPT !.gate = g, !.startError = x] \in ModuleEntry
      BY <2>1, GateTyped
    <3> QED BY <2>2, <3>1 DEF SetGate, TypeOK
  <2>3. PICK g \in {"off", "ready", "readyAsk", "late", "lateAsk"}, x \in StartError :
            SetGate(e, g, x)
    BY <1>5, <2>1 DEF Gate, GatePoll, GateExpires, LatePoll, LateExpires, ProbeAnswers, StartError
  <2> QED BY <2>2, <2>3
<1>6. ASSUME NEW e \in Entries, StampAges(e) PROVE TypeOK'
  <2>1. entry[e] \in ModuleEntry /\ entry[e].crashes - 1 \in Nat /\ entry[e].aged + 1 \in Nat
    BY <1>6, EntryFields DEF StampAges, TypeOK
  <2>2. [entry[e] EXCEPT !.crashes = entry[e].crashes - 1, !.aged = entry[e].aged + 1]
            \in ModuleEntry
    BY <2>1, AgeTyped
  <2> QED BY <1>6, <2>2 DEF StampAges, TypeOK
<1>7. ASSUME NEW p \in Pids, Dies(p) \/ Binds(p) PROVE TypeOK'
  BY <1>7 DEF Dies, Binds, Dead, TypeOK, Process
<1>8. CASE OutsiderMoves \/ HubDies \/ Collect
  BY <1>8, BlankTyped DEF OutsiderMoves, HubDies, Collect, TypeOK, Process
<1>9. CASE UNCHANGED vars
  BY <1>9 DEF vars, TypeOK
<1> QED BY <1>1, <1>2, <1>4, <1>5, <1>6, <1>7, <1>8, <1>9 DEF Next

-----------------------------------------------------------------------------
\* What most steps have in common: no child is created, flags are never
\* dropped, an entry only leaves "running", and becomes "stopped" when flagged
\* and childless.
QuietEntries(ents) == \A e \in Entries :
    /\ ents[e].proc = entry[e].proc /\ ents[e].spawns = entry[e].spawns
    /\ StopAsked(e) => ents[e].stopRequested = "set"
    /\ ents[e].status = "none" <=> entry[e].status = "none"
    /\ ents[e].status = "running" => entry[e].status = "running"
    /\ ents[e].status = "stopped" /\ entry[e].status # "stopped"
          => ents[e].stopRequested = "set" /\ ChildrenOf(e) = {}

Uncounted(ents) == \A e \in Entries :
    ents[e].crashes = entry[e].crashes /\ ents[e].aged = entry[e].aged

\* Processes only move towards their end, an orphan without a continuation.
QuietProcs == \A p \in Pids :
    \/ proc'[p].at = "dead"
    \/ /\ proc'[p].owner = proc[p].owner /\ Active(p)
       /\ Alive(p)' => Alive(p)
       /\ proc[p].owner = NoEntry => Alive(p)'

NoBackoff == \A p \in Pids :
    proc'[p].at # "dead" => (proc'[p].at = "backoff" <=> proc[p].at = "backoff")

LEMMA OnlyChild ==
    ASSUME Owned, NEW e \in Entries, NEW p \in Pids, p \in ChildrenOf(e)
    PROVE  entry[e].proc = p
BY DEF Owned, ChildrenOf, Alive, Active

LEMMA QuietKeeps ==
    ASSUME IInv, TypeOK', QuietEntries(entry'), QuietProcs,
           \A e \in Entries : entry'[e].aged >= entry[e].aged
    PROVE  Owned' /\ StoppedIsFlagged' /\ BudgetHolds'
<1>1. Owned'
  <2> SUFFICES ASSUME NEW p \in Pids, Active(p)'
               PROVE  IF proc'[p].owner = NoEntry THEN Alive(p)'
                      ELSE entry'[proc'[p].owner].proc = p
                            /\ entry'[proc'[p].owner].status # "none"
    BY DEF Owned
  <2>1. /\ proc'[p].owner = proc[p].owner /\ Active(p)
        /\ proc[p].owner = NoEntry => Alive(p)'
    BY DEF QuietProcs, Active
  <2>2. proc[p].owner \in Entries \cup {NoEntry}
    BY DEF IInv, TypeOK, Process
  <2>3. CASE proc[p].owner = NoEntry
    BY <2>1, <2>3
  <2>4. CASE proc[p].owner \in Entries
    <3>1. entry[proc[p].owner].proc = p /\ entry[proc[p].owner].status # "none"
      BY <2>1, <2>4 DEF IInv, Owned
    <3>2. proc'[p].owner # NoEntry
      BY <2>1, <2>4
    <3> QED BY <2>1, <2>4, <3>1, <3>2 DEF QuietEntries
  <2> QED BY <2>2, <2>3, <2>4
<1>2. StoppedIsFlagged'
  <2> SUFFICES ASSUME NEW e \in Entries, entry'[e].status = "stopped"
               PROVE  entry'[e].stopRequested = "set" /\ ChildrenOf(e)' = {}
    BY DEF StoppedIsFlagged, StopAsked
  <2>1. ChildrenOf(e) = {} /\ entry'[e].stopRequested = "set"
    BY DEF IInv, StoppedIsFlagged, StopAsked, QuietEntries
  <2>2. ChildrenOf(e)' \subseteq ChildrenOf(e)
    BY DEF ChildrenOf, QuietProcs, Alive
  <2> QED BY <2>1, <2>2
<1>3. BudgetHolds'
  <2> SUFFICES ASSUME NEW e \in Entries
               PROVE  entry'[e].spawns <= MaxRestarts + entry'[e].aged
    BY DEF BudgetHolds
  <2>1. entry[e] \in ModuleEntry /\ entry'[e] \in ModuleEntry
    BY DEF IInv, TypeOK
  <2>2. entry[e].aged \in Nat /\ entry'[e].aged \in Nat /\ entry[e].spawns \in Nat
    BY <2>1, EntryFields
  <2> QED BY <2>2 DEF IInv, BudgetHolds, QuietEntries
<1> QED BY <1>1, <1>2, <1>3

LEMMA CountsKept ==
    ASSUME IInv, TypeOK', QuietEntries(entry'), QuietProcs, Uncounted(entry'), NoBackoff
    PROVE  Counted'
<1> SUFFICES ASSUME NEW p \in Pids, Active(p)', proc'[p].owner # NoEntry
             PROVE  LET ent == entry'[proc'[p].owner] IN
                    /\ ent.crashes < MaxRestarts
                    /\ ent.spawns = ent.crashes + ent.aged
                                        + (IF proc'[p].at = "backoff" THEN 0 ELSE 1)
  BY DEF Counted, Active
<1>1. proc'[p].owner = proc[p].owner /\ Active(p) /\ proc[p].owner \in Entries
  BY DEF QuietProcs, Active, IInv, TypeOK, Process
<1>2. proc'[p].at = "backoff" <=> proc[p].at = "backoff"
  BY DEF NoBackoff, Active
<1> DEFINE e == proc[p].owner
<1>3. /\ entry[e].crashes < MaxRestarts
      /\ entry[e].spawns = entry[e].crashes + entry[e].aged
                                + (IF proc[p].at = "backoff" THEN 0 ELSE 1)
  BY <1>1 DEF IInv, Counted
<1>4. /\ entry'[e].crashes = entry[e].crashes /\ entry'[e].aged = entry[e].aged
      /\ entry'[e].spawns = entry[e].spawns
  BY <1>1 DEF QuietEntries, Uncounted
<1> QED BY <1>1, <1>2, <1>3, <1>4

\* Suspended calls: those that stay hold the same, still flagged, object.
LEMMA FlagsKept ==
    ASSUME IInv, QuietEntries(entry'),
           \A c \in Callers : call'[c] = Idle \/ call'[c] = call[c]
    PROVE  Flagged'
<1> SUFFICES ASSUME NEW c \in Callers, call'[c].op # "idle"
             PROVE  /\ call'[c].entry \in Entries
                    /\ entry'[call'[c].entry].stopRequested = "set"
                    /\ entry'[call'[c].entry].status # "none"
                    /\ entry'[call'[c].entry].proc = call'[c].pid
                    /\ call'[c].op = "stop" => call'[c].pid # NoPid
  BY DEF Flagged, StopAsked
<1>1. call'[c] = call[c]
  BY DEF Idle
<1> QED BY <1>1 DEF IInv, Flagged, QuietEntries

LEMMA AimsKept ==
    ASSUME IInv, QuietEntries(entry'), registry' = registry,
           \A p \in Pids : proc'[p].at = "adopting" =>
                proc[p].at = "adopting" /\ proc'[p].target = proc[p].target
    PROVE  Aimed' /\ AdoptTargetUnowned' /\ Registered'
BY DEF IInv, TypeOK, Aimed, AdoptTargetUnowned, NotRunning, StopAsked, Registered, QuietEntries

\* A step that is quiet, counts nothing and starts no adopt-kill.
LEMMA QuietStep ==
    ASSUME IInv, TypeOK', QuietEntries(entry'), Uncounted(entry'), QuietProcs, NoBackoff,
           registry' = registry, PortHeld', Flagged',
           \A p \in Pids : proc'[p].at = "adopting" =>
                proc[p].at = "adopting" /\ proc'[p].target = proc[p].target
    PROVE  IInv'
<1>1. \A e \in Entries : entry'[e].aged >= entry[e].aged
  <2> SUFFICES ASSUME NEW e \in Entries PROVE entry'[e].aged >= entry[e].aged
    OBVIOUS
  <2>1. entry'[e].aged = entry[e].aged /\ entry[e].aged \in Nat
    BY EntryFields DEF Uncounted, IInv, TypeOK
  <2> QED BY <2>1
<1> QED BY <1>1, QuietKeeps, CountsKept, AimsKept DEF IInv

\* Processes untouched, or one of them finished.
LEMMA SameProcs ==
    ASSUME IInv, UNCHANGED <<proc, holder>>
    PROVE  /\ QuietProcs /\ NoBackoff /\ PortHeld'
           /\ \A p \in Pids : proc'[p].at = "adopting" =>
                proc[p].at = "adopting" /\ proc'[p].target = proc[p].target
BY DEF IInv, PortHeld, QuietProcs, NoBackoff, Active, Alive, Owned

LEMMA OneFinished ==
    ASSUME IInv, NEW q \in Pids, ~Alive(q), proc' = [proc EXCEPT ![q] = Dead],
           UNCHANGED holder
    PROVE  /\ QuietProcs /\ NoBackoff /\ PortHeld'
           /\ \A p \in Pids : proc'[p].at = "adopting" =>
                proc[p].at = "adopting" /\ proc'[p].target = proc[p].target
<1>1. \A p \in Pids : proc'[p] = IF p = q THEN Dead ELSE proc[p]
  BY DEF IInv, TypeOK
<1>2. Dead.at = "dead"
  BY DEF Dead
<1>3. holder # q \/ holder \notin Pids
  BY DEF IInv, PortHeld, Alive
<1> QED BY <1>1, <1>2, <1>3 DEF IInv, PortHeld, QuietProcs, NoBackoff, Active, Alive, Owned

\* One entry's status changes.
LEMMA StatusChange ==
    ASSUME IInv, NEW f \in Entries, NEW s \in Status \ {"none", "running"}, NEW x \in StartError,
           entry[f].status # "none",
           \/ entry' = [entry EXCEPT ![f] = [@ EXCEPT !.status = s]]
           \/ entry' = [entry EXCEPT ![f] = [@ EXCEPT !.status = s, !.startError = x]]
           \/ entry' = [entry EXCEPT ![f] = [@ EXCEPT !.stopRequested = "set", !.status = s]],
           s = "stopped" => ChildrenOf(f) = {} /\ entry'[f].stopRequested = "set"
    PROVE  QuietEntries(entry') /\ Uncounted(entry')
<1>1. entry[f] \in ModuleEntry
  BY DEF IInv, TypeOK
<1>2. PICK r \in {[entry[f] EXCEPT !.status = s],
                 [entry[f] EXCEPT !.status = s, !.startError = x],
                 [entry[f] EXCEPT !.stopRequested = "set", !.status = s]} : entry'[f] = r
  BY DEF IInv, TypeOK
<1>4. /\ r.proc = entry[f].proc /\ r.spawns = entry[f].spawns
      /\ r.crashes = entry[f].crashes /\ r.aged = entry[f].aged
      /\ r.status = s
      /\ entry[f].stopRequested = "set" => r.stopRequested = "set"
  BY <1>1, <1>2 DEF ModuleEntry
<1>3. \A e \in Entries : e # f => entry'[e] = entry[e]
  BY DEF IInv, TypeOK
<1> QED BY <1>2, <1>3, <1>4 DEF QuietEntries, Uncounted, StopAsked

LEMMA NoChildWithoutProc ==
    ASSUME Owned, NEW e \in Entries, entry[e].proc \notin Pids \/ ~Alive(entry[e].proc)
    PROVE  ChildrenOf(e) = {}
BY OnlyChild DEF ChildrenOf

\* A call is suspended holding the registered, now flagged, entry.
LEMMA CallHeld ==
    ASSUME IInv, QuietEntries(entry'), NEW c \in Callers, NEW e \in Entries,
           NEW o \in {"stop", "restart"},
           call' = [call EXCEPT ![c] = [op |-> o, entry |-> e, pid |-> entry[e].proc]],
           o = "stop" => entry[e].proc # NoPid,
           entry'[e].stopRequested = "set", entry'[e].status # "none"
    PROVE  Flagged'
<1> SUFFICES ASSUME NEW k \in Callers, call'[k].op # "idle"
             PROVE  /\ call'[k].entry \in Entries
                    /\ entry'[call'[k].entry].stopRequested = "set"
                    /\ entry'[call'[k].entry].status # "none"
                    /\ entry'[call'[k].entry].proc = call'[k].pid
                    /\ call'[k].op = "stop" => call'[k].pid # NoPid
  BY DEF Flagged, StopAsked
<1>1. CASE k = c
  <2>1. call'[k] = [op |-> o, entry |-> e, pid |-> entry[e].proc]
    BY <1>1 DEF IInv, TypeOK
  <2> QED BY <2>1 DEF QuietEntries
<1>2. CASE k # c
  <2>1. call'[k] = call[k]
    BY <1>2 DEF IInv, TypeOK
  <2>2. /\ call[k].entry \in Entries /\ StopAsked(call[k].entry)
        /\ entry[call[k].entry].status # "none"
        /\ entry[call[k].entry].proc = call[k].pid
        /\ call[k].op = "stop" => call[k].pid # NoPid
    BY <2>1 DEF IInv, Flagged
  <2>3. \A f \in Entries : /\ StopAsked(f) => entry'[f].stopRequested = "set"
                           /\ entry[f].status # "none" => entry'[f].status # "none"
                           /\ entry'[f].proc = entry[f].proc
    BY DEF QuietEntries
  <2> QED BY <2>1, <2>2, <2>3
<1> QED BY <1>1, <1>2

LEMMA OneReturned ==
    ASSUME IInv, QuietEntries(entry'), NEW c \in Callers, call' = [call EXCEPT ![c] = Idle]
    PROVE  Flagged'
BY FlagsKept DEF IInv, TypeOK

LEMMA StopStep == ASSUME IInv, TypeOK', NEW c \in Callers, Stop(c) PROVE IInv'
<1>1. /\ registry \in Entries /\ entry[registry] \in ModuleEntry
      /\ entry[registry].status # "none" /\ UNCHANGED <<registry, proc, holder, hubDeaths>>
  BY DEF Stop, IInv, TypeOK, Registered
<1>2. CASE entry[registry].proc = NoPid
  <2>1. /\ entry' = [entry EXCEPT ![registry] =
                        [@ EXCEPT !.stopRequested = "set", !.status = "stopped"]]
        /\ UNCHANGED call
    BY <1>1, <1>2 DEF Stop
  <2>2. ChildrenOf(registry) = {}
    BY <1>1, <1>2, NoChildWithoutProc DEF IInv
  <2>3. entry'[registry].stopRequested = "set"
    BY <1>1, <2>1 DEF IInv, TypeOK, ModuleEntry
  <2>4. QuietEntries(entry') /\ Uncounted(entry')
    BY <1>1, <2>1, <2>2, <2>3, StatusChange DEF Status, StartError
  <2>5. Flagged'
    BY <2>1, <2>4, FlagsKept
  <2> QED BY <1>1, <2>4, <2>5, SameProcs, QuietStep
<1>3. CASE entry[registry].proc # NoPid
  <2>1. /\ entry' = [entry EXCEPT ![registry].stopRequested = "set"]
        /\ call' = [call EXCEPT ![c] = [op |-> "stop", entry |-> registry,
                                        pid |-> entry[registry].proc]]
    BY <1>1, <1>3 DEF Stop
  <2>2. entry'[registry].stopRequested = "set" /\ entry'[registry].status # "none"
    BY <1>1, <2>1 DEF IInv, TypeOK, ModuleEntry
  <2>3. QuietEntries(entry') /\ Uncounted(entry')
    BY <1>1, <2>1 DEF IInv, TypeOK, ModuleEntry, QuietEntries, Uncounted, StopAsked
  <2>4. Flagged'
    BY <1>1, <1>3, <2>1, <2>2, <2>3, CallHeld
  <2> QED BY <1>1, <2>3, <2>4, SameProcs, QuietStep
<1> QED BY <1>2, <1>3

LEMMA RestartStep == ASSUME IInv, TypeOK', NEW c \in Callers, Restart(c) PROVE IInv'
<1> DEFINE s == IF entry[registry].proc = NoPid THEN "stopped" ELSE "restarting"
<1>1. /\ registry \in Entries /\ entry[registry] \in ModuleEntry
      /\ entry[registry].status # "none" /\ UNCHANGED <<registry, proc, holder, hubDeaths>>
  BY DEF Restart, IInv, TypeOK, Registered
<1>2. /\ entry' = [entry EXCEPT ![registry] = [@ EXCEPT !.stopRequested = "set", !.status = s]]
      /\ call' = [call EXCEPT ![c] = [op |-> "restart", entry |-> registry,
                                      pid |-> entry[registry].proc]]
  BY DEF Restart
<1>3. s \in Status \ {"none", "running"}
  BY DEF Status
<1>4. s = "stopped" => ChildrenOf(registry) = {}
  BY <1>1, NoChildWithoutProc DEF IInv
<1> HIDE DEF s
<1>5. entry'[registry].stopRequested = "set" /\ entry'[registry].status # "none"
  BY <1>1, <1>2, <1>3 DEF IInv, TypeOK, ModuleEntry
<1>6. QuietEntries(entry') /\ Uncounted(entry')
  BY <1>1, <1>2, <1>3, <1>4, <1>5, StatusChange DEF StartError
<1>7. Flagged'
  BY <1>1, <1>2, <1>5, <1>6, CallHeld
<1> QED BY <1>1, <1>6, <1>7, SameProcs, QuietStep

LEMMA StopReturnsStep == ASSUME IInv, TypeOK', NEW c \in Callers, StopReturns(c) PROVE IInv'
<1> DEFINE f == call[c].entry
<1>1. /\ f \in Entries /\ entry[f].status # "none" /\ StopAsked(f)
      /\ entry[f].proc = call[c].pid /\ Reaped(call[c].pid)
  BY DEF StopReturns, IInv, Flagged
<1>2. /\ entry' = [entry EXCEPT ![f] = [@ EXCEPT !.status = "stopped"]]
      /\ call' = [call EXCEPT ![c] = Idle] /\ UNCHANGED <<registry, proc, holder, hubDeaths>>
  BY DEF StopReturns
<1>3. ChildrenOf(f) = {}
  BY <1>1, NoChildWithoutProc DEF IInv, Reaped, Alive
<1> HIDE DEF f
<1>4. entry'[f].stopRequested = "set"
  BY <1>1, <1>2 DEF IInv, TypeOK, ModuleEntry, StopAsked
<1>5. QuietEntries(entry') /\ Uncounted(entry')
  BY <1>1, <1>2, <1>3, <1>4, StatusChange DEF StartError, Status
<1> QED BY <1>2, <1>5, OneReturned, SameProcs, QuietStep

\* A process ends, is killed, binds or moves on: the steps that touch no entry.
LEMMA NoEntryStep ==
    ASSUME IInv, TypeOK', UNCHANGED <<registry, entry>>, QuietProcs, NoBackoff, PortHeld',
           \A c \in Callers : call'[c] = Idle \/ call'[c] = call[c],
           \A p \in Pids : proc'[p].at = "adopting" =>
                proc[p].at = "adopting" /\ proc'[p].target = proc[p].target
    PROVE  IInv'
<1>1. QuietEntries(entry') /\ Uncounted(entry')
  BY DEF QuietEntries, Uncounted, StopAsked
<1> QED BY <1>1, FlagsKept, QuietStep

LEMMA DiesStep == ASSUME IInv, TypeOK', NEW q \in Pids, Dies(q) PROVE IInv'
<1>1. \A p \in Pids : proc'[p] = IF p # q THEN proc[p] ELSE
            IF proc[q].owner = NoEntry THEN Dead ELSE [proc[q] EXCEPT !.at = "exited"]
  BY DEF Dies, IInv, TypeOK
<1>2. Dead.at = "dead" /\ proc[q] \in Process /\ Active(q) /\ proc[q].at # "backoff"
  BY DEF Dead, Dies, Alive, Active, IInv, TypeOK
<1>3. proc'[q].at = "dead" \/ (proc'[q].at = "exited" /\ proc'[q].owner = proc[q].owner
                                /\ proc[q].owner # NoEntry)
  BY <1>1, <1>2 DEF Process
<1>4. QuietProcs /\ NoBackoff
  BY <1>1, <1>2, <1>3 DEF QuietProcs, NoBackoff, Active, Alive, IInv, Owned
<1>5. PortHeld'
  BY <1>1 DEF Dies, IInv, PortHeld
<1>6. UNCHANGED <<registry, entry, call>>
  BY DEF Dies
<1> QED BY <1>1, <1>3, <1>4, <1>5, <1>6, NoEntryStep

LEMMA BindsStep == ASSUME IInv, TypeOK', NEW q \in Pids, Binds(q) PROVE IInv'
<1>1. \A p \in Pids : proc'[p] = IF p # q THEN proc[p] ELSE [proc[q] EXCEPT !.at = "listening"]
  BY DEF Binds, IInv, TypeOK
<1>2. /\ proc[q] \in Process /\ proc[q].at = "booting"
      /\ UNCHANGED <<registry, entry, call>> /\ holder' = q
  BY DEF Binds, IInv, TypeOK
<1>3. proc'[q].at = "listening" /\ proc'[q].owner = proc[q].owner
  BY <1>1, <1>2 DEF Process
<1>4. QuietProcs /\ NoBackoff
  BY <1>1, <1>2, <1>3 DEF QuietProcs, NoBackoff, Active, Alive, IInv, Owned
<1>5. PortHeld'
  BY <1>2, <1>3 DEF PortHeld
<1> QED BY <1>1, <1>2, <1>3, <1>4, <1>5, NoEntryStep

LEMMA OutsiderStep == ASSUME IInv, TypeOK', OutsiderMoves PROVE IInv'
<1>1. UNCHANGED <<registry, entry, proc, call>> /\ PortHeld'
  BY DEF OutsiderMoves, PortHeld, SupervisorAssumption
<1>2. QuietProcs /\ NoBackoff
  BY <1>1 DEF QuietProcs, NoBackoff, Active, Alive, IInv, Owned
<1> QED BY <1>1, <1>2, NoEntryStep

LEMMA DroppedStep == ASSUME IInv, TypeOK', NEW p \in Pids, RespawnDropped(p) PROVE IInv'
<1>1. ~Alive(p) /\ proc' = [proc EXCEPT ![p] = Dead] /\ UNCHANGED <<registry, entry, holder, call>>
  BY DEF RespawnDropped, Alive
<1> QED BY <1>1, OneFinished, NoEntryStep

LEMMA AdoptsStep == ASSUME IInv, TypeOK', NEW p \in Pids, ExitAdopts(p) PROVE IInv'
<1>1. /\ proc[p] \in Process /\ proc[p].at = "exited"
      /\ holder \in Pids \cup {Outsider} /\ Attributable(holder)
      /\ holder \notin SupervisedPids(proc[p].owner)
      /\ UNCHANGED <<registry, entry, holder, call>>
  BY DEF ExitAdopts, Squatted, IInv, TypeOK
<1>2. \A q \in Pids : proc'[q] = IF q # p THEN proc[q]
                                 ELSE [proc[p] EXCEPT !.at = "adopting", !.target = holder]
  BY DEF ExitAdopts, IInv, TypeOK
<1>3. proc'[p].at = "adopting" /\ proc'[p].target = holder /\ proc'[p].owner = proc[p].owner
  BY <1>1, <1>2 DEF Process
<1>4. proc[p].owner \in Entries /\ entry[proc[p].owner].proc = p
  BY <1>1 DEF IInv, TypeOK, Process, Owned, Active, Alive
<1>5. QuietProcs /\ NoBackoff
  BY <1>1, <1>2, <1>3, <1>4 DEF QuietProcs, NoBackoff, Active, Alive, IInv, Owned
<1>6. QuietEntries(entry') /\ Uncounted(entry') /\ PortHeld' /\ Flagged' /\ Registered'
  BY <1>1, <1>2 DEF QuietEntries, Uncounted, StopAsked, IInv, PortHeld, Flagged, Registered
<1>7. holder # p
  BY <1>1 DEF IInv, PortHeld
<1>8. registry # NoEntry /\ entry[registry].proc = holder => NotRunning(registry)
  BY <1>1, <1>4, <1>7 DEF SupervisedPids, NotRunning, IInv, TypeOK
<1>9. Aimed' /\ AdoptTargetUnowned'
  BY <1>1, <1>2, <1>3, <1>8 DEF IInv, Aimed, Attributable, AdoptTargetUnowned, NotRunning, StopAsked
<1>10. \A e \in Entries : entry'[e].aged >= entry[e].aged
  <2> SUFFICES ASSUME NEW e \in Entries PROVE entry[e].aged >= entry[e].aged
    BY <1>1
  <2>1. entry[e].aged \in Nat
    BY EntryFields DEF IInv, TypeOK
  <2> QED BY <2>1
<1> QED BY <1>5, <1>6, <1>9, <1>10, QuietKeeps, CountsKept DEF IInv

\* The steps of handleExit that leave the restart budget alone.
LEMMA ExitEndsStep ==
    ASSUME IInv, TypeOK', NEW p \in Pids, ExitStopped(p) \/ ExitBlocked(p) PROVE IInv'
<1> DEFINE f == proc[p].owner
<1>1. /\ proc[p] \in Process /\ proc[p].at = "exited" /\ proc' = [proc EXCEPT ![p] = Dead]
      /\ UNCHANGED <<registry, holder, call>>
  BY DEF ExitStopped, ExitBlocked, Squatted, IInv, TypeOK
<1>2. f \in Entries /\ entry[f].proc = p /\ entry[f].status # "none" /\ entry[f] \in ModuleEntry
  BY <1>1 DEF IInv, TypeOK, Process, Owned, Active, Alive
<1>3. ChildrenOf(f) = {}
  BY <1>1, <1>2, NoChildWithoutProc DEF IInv, Alive
<1>4. QuietEntries(entry') /\ Uncounted(entry')
  <2>1. CASE ExitStopped(p)
    <3>1. StopAsked(f) /\ entry' = [entry EXCEPT ![f] = [@ EXCEPT !.status = "stopped"]]
      BY <2>1 DEF ExitStopped
    <3>2. entry'[f].stopRequested = "set"
      BY <1>2, <3>1 DEF IInv, TypeOK, ModuleEntry, StopAsked
    <3> HIDE DEF f
    <3> QED BY <1>2, <1>3, <3>1, <3>2, StatusChange DEF Status, StartError
  <2>2. CASE ExitBlocked(p)
    <3>1. entry' = [entry EXCEPT ![f] = [@ EXCEPT !.status = "crashed",
                                                  !.startError = "port_squatter"]]
      BY <2>2 DEF ExitBlocked
    <3> DEFINE s == "crashed"  x == "port_squatter"
    <3>2. /\ s \in Status \ {"none", "running"} /\ x \in StartError /\ s # "stopped"
          /\ entry' = [entry EXCEPT ![f] = [@ EXCEPT !.status = s, !.startError = x]]
      BY <3>1 DEF Status, StartError
    <3> HIDE DEF f, s, x
    <3> QED BY <1>2, <3>2, StatusChange
  <2> QED BY <2>1, <2>2
<1>5. ~Alive(p)
  BY <1>1 DEF Alive
<1>6. Flagged'
  BY <1>1, <1>4, FlagsKept
<1> QED BY <1>1, <1>4, <1>5, <1>6, OneFinished, QuietStep

\* The gate writes two fields no invariant reads.
LEMMA GateStep ==
    ASSUME IInv, TypeOK', NEW e \in Entries, NEW g, NEW x, SetGate(e, g, x) PROVE IInv'
<1>1. entry' = [entry EXCEPT ![e] = [@ EXCEPT !.gate = g, !.startError = x]]
      /\ UNCHANGED <<registry, proc, holder, call>>
  BY DEF SetGate
<1>2. entry[e] \in ModuleEntry
  BY DEF IInv, TypeOK
<1>3. /\ entry'[e].proc = entry[e].proc /\ entry'[e].spawns = entry[e].spawns
      /\ entry'[e].crashes = entry[e].crashes /\ entry'[e].aged = entry[e].aged
      /\ entry'[e].status = entry[e].status /\ entry'[e].stopRequested = entry[e].stopRequested
  BY <1>1, <1>2 DEF IInv, TypeOK, ModuleEntry
<1>4. \A k \in Entries : k # e => entry'[k] = entry[k]
  BY <1>1 DEF IInv, TypeOK
<1>5. QuietEntries(entry') /\ Uncounted(entry')
  BY <1>3, <1>4 DEF QuietEntries, Uncounted, StopAsked
<1> QED BY <1>1, <1>5, FlagsKept, SameProcs, QuietStep

\* What counting a crash of p does, field by field; procs is proc, or proc
\* without the adopt-killed process.
LEMMA CrashStep ==
    ASSUME IInv, TypeOK', NEW p \in Pids, proc[p].at \in {"exited", "adopting"},
           NEW procs \in [Pids -> Process], CrashCounted(p, procs), procs[p] = proc[p],
           \A q \in Pids :
                \/ procs[q] = proc[q]
                \/ procs[q].at = "dead"
                \/ procs[q].at = "exited" /\ procs[q].owner = proc[q].owner /\ Alive(q)
                    /\ proc[q].owner # NoEntry,
           PortHeld', UNCHANGED <<registry, call>>
    PROVE  IInv'
<1> DEFINE f == proc[p].owner
           n == entry[f].crashes + 1
           s == IF n >= MaxRestarts THEN "crashed" ELSE "restarting"
           d == IF n >= MaxRestarts THEN Dead
                ELSE [procs[p] EXCEPT !.at = "backoff", !.target = NoPid]
<1>1. /\ f \in Entries /\ entry[f] \in ModuleEntry /\ entry[f].proc = p
      /\ entry[f].status # "none" /\ proc[p] \in Process /\ Active(p) /\ ~Alive(p)
  BY DEF IInv, TypeOK, Process, Owned, Active, Alive
<1>2. /\ entry[f].crashes \in Nat /\ entry[f].aged \in Nat /\ n \in Nat
      /\ entry[f].spawns = entry[f].crashes + entry[f].aged + 1
  BY <1>1, EntryFields DEF IInv, Counted
<1>3. /\ entry' = [entry EXCEPT ![f] = [@ EXCEPT !.crashes = n, !.status = s]]
      /\ proc' = [procs EXCEPT ![p] = d]
  BY DEF CrashCounted
<1>4. /\ d.at = "dead" \/ (d.at = "backoff" /\ d.owner = f /\ n < MaxRestarts)
      /\ s \in {"crashed", "restarting"}
  BY <1>1, <1>2 DEF Dead, Process
<1>5. \A q \in Pids \ {p} : proc'[q] = procs[q]
  BY <1>3
<1>6. proc'[p] = d
  BY <1>3
<1>7. \A e \in Entries \ {f} : entry'[e] = entry[e]
  BY <1>3 DEF IInv, TypeOK
<1>8. /\ entry'[f].proc = p /\ entry'[f].spawns = entry[f].spawns
      /\ entry'[f].crashes = n /\ entry'[f].aged = entry[f].aged
      /\ entry'[f].status = s /\ entry'[f].stopRequested = entry[f].stopRequested
  BY <1>1, <1>3 DEF IInv, TypeOK, ModuleEntry
<1>9. n = entry[f].crashes + 1
  OBVIOUS
<1> HIDE DEF f, n, s, d
<1>10. QuietEntries(entry')
  BY <1>1, <1>4, <1>7, <1>8 DEF QuietEntries, StopAsked
<1>11. proc[p].owner = f
  BY DEF f
<1>12. QuietProcs
  <2> SUFFICES ASSUME NEW q \in Pids, proc'[q].at # "dead"
               PROVE  /\ proc'[q].owner = proc[q].owner /\ Active(q)
                      /\ Alive(q)' => Alive(q)
                      /\ proc[q].owner = NoEntry => Alive(q)'
    BY DEF QuietProcs
  <2>1. CASE q = p
    BY <2>1, <1>1, <1>4, <1>6, <1>11 DEF Active, Alive
  <2>2. CASE q # p
    BY <2>2, <1>5 DEF Active, Alive, IInv, Owned
  <2> QED BY <2>1, <2>2
<1>13. \A e \in Entries : entry'[e].aged >= entry[e].aged
  <2> SUFFICES ASSUME NEW e \in Entries PROVE entry'[e].aged >= entry[e].aged
    OBVIOUS
  <2>1. entry[e].aged \in Nat /\ entry'[e].aged = entry[e].aged
    BY <1>7, <1>8, EntryFields DEF IInv, TypeOK
  <2> QED BY <2>1
<1>14. Counted'
  <2> SUFFICES ASSUME NEW q \in Pids, Active(q)', proc'[q].owner # NoEntry
               PROVE  /\ entry'[proc'[q].owner].crashes < MaxRestarts
                      /\ entry'[proc'[q].owner].spawns =
                            entry'[proc'[q].owner].crashes + entry'[proc'[q].owner].aged
                                + (IF proc'[q].at = "backoff" THEN 0 ELSE 1)
    BY DEF Counted
  <2>1. CASE q = p
    BY <2>1, <1>2, <1>4, <1>6, <1>8, <1>9 DEF Active
  <2>2. CASE q # p
    <3>1. /\ proc'[q].owner = proc[q].owner /\ Active(q) /\ proc[q].owner # NoEntry
          /\ proc'[q].at = "backoff" <=> proc[q].at = "backoff"
      BY <2>2, <1>5, <1>12 DEF QuietProcs, Active, Alive
    <3>2. proc[q].owner \in Entries \ {f}
      BY <2>2, <1>1, <3>1 DEF IInv, TypeOK, Process, Owned
    <3>3. /\ entry[proc[q].owner].crashes < MaxRestarts
          /\ entry[proc[q].owner].spawns =
                entry[proc[q].owner].crashes + entry[proc[q].owner].aged
                    + (IF proc[q].at = "backoff" THEN 0 ELSE 1)
      BY <3>1 DEF IInv, Counted
    <3> QED BY <1>7, <3>1, <3>2, <3>3
  <2> QED BY <2>1, <2>2
<1>15. \A q \in Pids : proc'[q].at = "adopting" =>
            proc[q].at = "adopting" /\ proc'[q].target = proc[q].target
  BY <1>4, <1>5, <1>6
<1> QED BY <1>10, <1>12, <1>13, <1>14, <1>15, QuietKeeps, FlagsKept, AimsKept DEF IInv

LEMMA CrashedStep ==
    ASSUME IInv, TypeOK', NEW p \in Pids, ExitCrashed(p) \/ AdoptReturns(p) PROVE IInv'
<1>1. /\ proc[p].at \in {"exited", "adopting"} /\ CrashCounted(p, proc)
      /\ UNCHANGED <<registry, holder, call>> /\ proc \in [Pids -> Process]
  BY DEF ExitCrashed, AdoptReturns, IInv, TypeOK
<1>2. \A q \in Pids : q # p => proc'[q] = proc[q]
  BY <1>1 DEF CrashCounted
<1>3. PortHeld'
  BY <1>1, <1>2 DEF IInv, PortHeld
<1> QED BY <1>1, <1>3, CrashStep

LEMMA AdoptKillsStep == ASSUME IInv, TypeOK', NEW p \in Pids, AdoptKills(p) PROVE IInv'
<1>1. proc[p].at = "adopting" /\ holder' = NoPid /\ UNCHANGED <<registry, call>>
  BY DEF AdoptKills
<1>2. PICK procs \in [Pids -> Process] :
          /\ CrashCounted(p, procs)
          /\ \A q \in Pids :
                \/ procs[q] = proc[q]
                \/ /\ q = proc[p].target /\ q = holder
                   /\ \/ procs[q] = Dead /\ proc[q].owner = NoEntry
                      \/ /\ proc[q].owner # NoEntry
                         /\ procs[q].owner = proc[q].owner /\ procs[q].at = "exited"
  BY AdoptKilled DEF IInv
<1>3. holder \in Pids => proc[holder].at = "listening"
  BY DEF IInv, PortHeld
<1>4. \A q \in Pids :
         \/ procs[q] = proc[q]
         \/ procs[q].at = "dead"
         \/ procs[q].at = "exited" /\ procs[q].owner = proc[q].owner /\ Alive(q)
             /\ proc[q].owner # NoEntry
  BY <1>2, <1>3 DEF Alive, Dead
<1>5. procs[p] = proc[p]
  BY <1>1, <1>2, <1>3
<1>6. PortHeld'
  BY <1>1 DEF PortHeld, SupervisorAssumption
<1> QED BY <1>1, <1>2, <1>4, <1>5, <1>6, CrashStep

LEMMA AgesStep == ASSUME IInv, TypeOK', NEW f \in Entries, StampAges(f) PROVE IInv'
<1>1. /\ entry[f] \in ModuleEntry /\ entry[f].crashes > 0
      /\ UNCHANGED <<registry, proc, holder, call>>
      /\ entry' = [entry EXCEPT ![f] = [@ EXCEPT !.crashes = entry[f].crashes - 1,
                                                 !.aged = entry[f].aged + 1]]
  BY DEF StampAges, IInv, TypeOK
<1>2. /\ entry'[f].proc = entry[f].proc /\ entry'[f].spawns = entry[f].spawns
      /\ entry'[f].status = entry[f].status /\ entry'[f].stopRequested = entry[f].stopRequested
      /\ entry'[f].crashes = entry[f].crashes - 1 /\ entry'[f].aged = entry[f].aged + 1
  BY <1>1 DEF IInv, TypeOK, ModuleEntry
<1>3. \A e \in Entries \ {f} : entry'[e] = entry[e]
  BY <1>1 DEF IInv, TypeOK
<1>4. QuietEntries(entry')
  BY <1>2, <1>3 DEF QuietEntries, StopAsked
<1>5. \A e \in Entries : /\ entry[e].aged \in Nat /\ entry[e].crashes \in Nat
                         /\ entry'[e].crashes <= entry[e].crashes
                         /\ entry'[e].aged >= entry[e].aged
                         /\ entry'[e].crashes + entry'[e].aged = entry[e].crashes + entry[e].aged
  <2> SUFFICES ASSUME NEW e \in Entries
               PROVE  /\ entry[e].aged \in Nat /\ entry[e].crashes \in Nat
                      /\ entry'[e].crashes <= entry[e].crashes
                      /\ entry'[e].aged >= entry[e].aged
                      /\ entry'[e].crashes + entry'[e].aged = entry[e].crashes + entry[e].aged
    OBVIOUS
  <2>1. entry[e].aged \in Nat /\ entry[e].crashes \in Nat
    BY EntryFields DEF IInv, TypeOK
  <2> QED BY <2>1, <1>1, <1>2, <1>3
<1>6. Counted'
  <2> SUFFICES ASSUME NEW q \in Pids, Active(q)', proc'[q].owner # NoEntry
               PROVE  /\ entry'[proc'[q].owner].crashes < MaxRestarts
                      /\ entry'[proc'[q].owner].spawns =
                            entry'[proc'[q].owner].crashes + entry'[proc'[q].owner].aged
                                + (IF proc'[q].at = "backoff" THEN 0 ELSE 1)
    BY DEF Counted
  <2> DEFINE e == proc[q].owner
  <2>1. /\ e \in Entries /\ proc' = proc
        /\ entry[e].crashes < MaxRestarts
        /\ entry[e].spawns = entry[e].crashes + entry[e].aged
                                + (IF proc[q].at = "backoff" THEN 0 ELSE 1)
    BY <1>1 DEF IInv, TypeOK, Process, Counted, Active
  <2>2. entry'[e].spawns = entry[e].spawns
    BY <2>1, <1>4 DEF QuietEntries
  <2>3. entry[e] \in ModuleEntry /\ entry'[e] \in ModuleEntry
    BY <2>1 DEF IInv, TypeOK
  <2>4. entry[e].crashes \in Nat /\ entry'[e].crashes \in Nat /\ entry[e].aged \in Nat
        /\ entry'[e].aged \in Nat /\ entry[e].spawns \in Nat
    BY <2>3, EntryFields
  <2> HIDE DEF e
  <2>5. proc'[q].owner = e /\ proc'[q].at = proc[q].at
    BY <1>1 DEF e
  <2>6. /\ entry'[e].crashes <= entry[e].crashes
        /\ entry'[e].crashes + entry'[e].aged = entry[e].crashes + entry[e].aged
    BY <2>1, <1>5
  <2>7. entry'[e].crashes < MaxRestarts
    BY <2>1, <2>4, <2>6
  <2>8. entry'[e].spawns = entry'[e].crashes + entry'[e].aged
                                + (IF proc[q].at = "backoff" THEN 0 ELSE 1)
    BY <2>1, <2>2, <2>4, <2>6
  <2> QED BY <2>5, <2>7, <2>8
<1>7. Flagged'
  BY <1>1, <1>4, FlagsKept
<1> QED BY <1>1, <1>4, <1>5, <1>6, <1>7, SameProcs, QuietKeeps, AimsKept DEF IInv

\* A crash handler that respawns: its entry is unflagged, the new child's pid
\* is nobody's.
LEMMA RespawnStep == ASSUME IInv, TypeOK', NEW p \in Pids, Respawn(p) PROVE IInv'
<1> DEFINE f == proc[p].owner
<1>1. PICK q \in FreePids : SpawnAndWatch(f, entry[f], q, entry, [proc EXCEPT ![p] = Dead])
  BY DEF Respawn
<1>2. /\ q \in Pids /\ ~Active(q) /\ holder # q
      /\ \A e \in Entries : entry[e].proc # q
      /\ \A r \in Pids : proc[r].target # q
  BY FreePid
<1>3. /\ proc[p].at = "backoff" /\ ~StopAsked(f) /\ UNCHANGED <<registry, holder, call>>
      /\ proc[p] \in Process
  BY DEF Respawn, IInv, TypeOK
<1>4. f \in Entries /\ entry[f].proc = p /\ entry[f] \in ModuleEntry /\ Active(p) /\ p # q
  BY <1>2, <1>3 DEF IInv, TypeOK, Process, Owned, Active, Alive
<1>5. /\ entry[f].crashes < MaxRestarts
      /\ entry[f].spawns = entry[f].crashes + entry[f].aged
  <2>1. /\ entry[f].crashes < MaxRestarts
        /\ entry[f].spawns = entry[f].crashes + entry[f].aged + 0
    BY <1>3, <1>4 DEF IInv, Counted
  <2>2. entry[f].crashes \in Nat /\ entry[f].aged \in Nat
    BY <1>4, EntryFields
  <2> QED BY <2>1, <2>2
<1>6. /\ entry' = [entry EXCEPT ![f] = [entry[f] EXCEPT !.status = "running",
                        !.startError = "none", !.proc = q, !.spawns = entry[f].spawns + 1]]
      /\ proc' = [[proc EXCEPT ![p] = Dead]
                    EXCEPT ![q] = [owner |-> f, at |-> "booting", target |-> NoPid]]
  BY <1>1 DEF SpawnAndWatch
<1> HIDE DEF f
<1>7. /\ entry'[f].status = "running" /\ entry'[f].proc = q
      /\ entry'[f].spawns = entry[f].spawns + 1
      /\ entry'[f].crashes = entry[f].crashes /\ entry'[f].aged = entry[f].aged
      /\ entry'[f].stopRequested = entry[f].stopRequested
  BY <1>4, <1>6 DEF IInv, TypeOK, ModuleEntry
<1>8. \A e \in Entries \ {f} : entry'[e] = entry[e]
  BY <1>6 DEF IInv, TypeOK
<1>9. /\ proc'[p].at = "dead"
      /\ proc'[q].at = "booting" /\ proc'[q].owner = f
      /\ \A r \in Pids \ {p, q} : proc'[r] = proc[r]
  BY <1>2, <1>4, <1>6 DEF IInv, TypeOK, Dead
<1>10. \A r \in Pids \ {p, q} : Active(r) => proc[r].owner # f
  BY <1>3, <1>4 DEF IInv, Owned, SupervisorAssumption
<1>11. Owned'
  <2> SUFFICES ASSUME NEW r \in Pids, Active(r)'
               PROVE  IF proc'[r].owner = NoEntry THEN Alive(r)'
                      ELSE entry'[proc'[r].owner].proc = r
                            /\ entry'[proc'[r].owner].status # "none"
    BY DEF Owned
  <2>1. CASE r = q
    BY <2>1, <1>4, <1>7, <1>9
  <2>2. CASE r # q
    <3>1. r \in Pids \ {p, q}
      BY <2>2, <1>9 DEF Active
    <3>2. proc'[r] = proc[r] /\ Active(r) /\ proc[r].owner # f
          /\ proc[r].owner \in Entries \cup {NoEntry}
      BY <3>1, <1>9, <1>10 DEF Active, IInv, TypeOK, Process
    <3>3. IF proc[r].owner = NoEntry THEN Alive(r)
          ELSE entry[proc[r].owner].proc = r /\ entry[proc[r].owner].status # "none"
      BY <3>2 DEF IInv, Owned
    <3>4. CASE proc[r].owner = NoEntry
      BY <3>2, <3>3, <3>4 DEF Alive
    <3>5. CASE proc[r].owner # NoEntry
      BY <3>2, <3>3, <3>5, <1>8
    <3> QED BY <3>4, <3>5
  <2> QED BY <2>1, <2>2
<1>12. Flagged'
  <2> SUFFICES ASSUME NEW c \in Callers, call[c].op # "idle"
               PROVE  /\ call[c].entry \in Entries
                      /\ entry'[call[c].entry].stopRequested = "set"
                      /\ entry'[call[c].entry].status # "none"
                      /\ entry'[call[c].entry].proc = call[c].pid
                      /\ call[c].op = "stop" => call[c].pid # NoPid
    BY <1>3 DEF Flagged, StopAsked
  <2>1. /\ call[c].entry \in Entries /\ StopAsked(call[c].entry)
        /\ entry[call[c].entry].status # "none"
        /\ entry[call[c].entry].proc = call[c].pid
        /\ call[c].op = "stop" => call[c].pid # NoPid
    BY DEF IInv, Flagged
  <2> QED BY <2>1, <1>3, <1>8 DEF StopAsked
<1>13. Registered'
  BY <1>3, <1>7, <1>8 DEF IInv, TypeOK, Registered
<1>14. PortHeld'
  BY <1>2, <1>3, <1>9 DEF IInv, PortHeld
<1>15. StoppedIsFlagged'
  <2> SUFFICES ASSUME NEW e \in Entries, entry'[e].status = "stopped"
               PROVE  entry'[e].stopRequested = "set" /\ ChildrenOf(e)' = {}
    BY DEF StoppedIsFlagged, StopAsked
  <2>1. e # f /\ entry'[e] = entry[e]
    BY <1>7, <1>8
  <2>2. StopAsked(e) /\ ChildrenOf(e) = {}
    BY <2>1 DEF IInv, StoppedIsFlagged
  <2>3. ChildrenOf(e)' \subseteq ChildrenOf(e)
    BY <2>1, <1>9 DEF ChildrenOf, Alive
  <2> QED BY <2>1, <2>2, <2>3 DEF StopAsked
<1>16. Counted'
  <2> SUFFICES ASSUME NEW r \in Pids, Active(r)', proc'[r].owner # NoEntry
               PROVE  /\ entry'[proc'[r].owner].crashes < MaxRestarts
                      /\ entry'[proc'[r].owner].spawns =
                            entry'[proc'[r].owner].crashes + entry'[proc'[r].owner].aged
                                + (IF proc'[r].at = "backoff" THEN 0 ELSE 1)
    BY DEF Counted
  <2>1. CASE r = q
    BY <2>1, <1>5, <1>7, <1>9
  <2>2. CASE r # q
    <3>1. r \in Pids \ {p, q}
      BY <2>2, <1>9 DEF Active
    <3>2. proc'[r] = proc[r] /\ Active(r) /\ proc[r].owner # f
          /\ proc[r].owner \in Entries /\ proc[r].owner # NoEntry
      BY <3>1, <1>9, <1>10 DEF Active, IInv, TypeOK, Process
    <3>3. /\ entry[proc[r].owner].crashes < MaxRestarts
          /\ entry[proc[r].owner].spawns =
                entry[proc[r].owner].crashes + entry[proc[r].owner].aged
                    + (IF proc[r].at = "backoff" THEN 0 ELSE 1)
      BY <3>2 DEF IInv, Counted
    <3> QED BY <3>2, <3>3, <1>8
  <2> QED BY <2>1, <2>2
<1>17. BudgetHolds'
  <2> SUFFICES ASSUME NEW e \in Entries
               PROVE  entry'[e].spawns <= MaxRestarts + entry'[e].aged
    BY DEF BudgetHolds
  <2>1. CASE e = f
    <3>1. entry[f].crashes \in Nat /\ entry[f].aged \in Nat
      BY <1>4, EntryFields
    <3> QED BY <2>1, <3>1, <1>5, <1>7
  <2>2. CASE e # f
    BY <2>2, <1>8 DEF IInv, BudgetHolds
  <2> QED BY <2>1, <2>2
<1>18. Aimed' /\ AdoptTargetUnowned'
  <2> SUFFICES ASSUME NEW r \in Pids, proc'[r].at = "adopting"
               PROVE  /\ proc'[r].target \in Pids \cup {Outsider} /\ Attributable(proc'[r].target)
                      /\ registry # NoEntry /\ entry'[registry].proc = proc'[r].target
                            => \/ entry'[registry].stopRequested = "set"
                               \/ entry'[registry].status # "running"
    BY <1>3 DEF Aimed, Attributable, AdoptTargetUnowned, NotRunning, StopAsked
  <2>1. proc'[r] = proc[r]
    BY <1>9
  <2>2. /\ proc[r].target \in Pids \cup {Outsider} /\ Attributable(proc[r].target)
        /\ proc[r].target # q
    BY <2>1, <1>2 DEF IInv, Aimed
  <2>3. CASE registry = f
    BY <2>1, <2>2, <2>3, <1>7
  <2>4. CASE registry \in Entries \ {f}
    BY <2>1, <2>2, <2>4, <1>8 DEF IInv, AdoptTargetUnowned, NotRunning, StopAsked
  <2> QED BY <2>2, <2>1, <2>3, <2>4 DEF IInv, TypeOK
<1> QED BY <1>11, <1>12, <1>13, <1>14, <1>15, <1>16, <1>17, <1>18 DEF IInv

\* start() from the creation of the entry on, in Start and in RestartReturns.
LEMMA FreshStep ==
    ASSUME IInv, TypeOK', NEW ents \in [Entries -> ModuleEntry], QuietEntries(ents),
           Uncounted(ents), StartFresh(ents), UNCHANGED holder,
           \A c \in Callers : call'[c] = Idle \/ call'[c] = call[c]
    PROVE  IInv'
<1>1. PICK f \in FreeEntries : StartFresh(ents)!(f)
  BY DEF StartFresh
<1>2. f \in Entries /\ entry[f].status = "none" /\ registry' = f
  BY <1>1, FreeEntry
<1> DEFINE fresh == [Blank EXCEPT !.gate = IF Gated THEN "ready" ELSE "off"]
           Childless == /\ proc' = proc
                        /\ entry'[f].proc = NoPid /\ entry'[f].spawns = 0
           Child(p) == /\ proc' = [proc EXCEPT ![p] = [owner |-> f, at |-> "booting",
                                                       target |-> NoPid]]
                       /\ entry'[f].proc = p /\ entry'[f].spawns = 1
<1>3. /\ \A e \in Entries \ {f} : entry'[e] = ents[e]
      /\ entry'[f].status \in {"crashed", "starting", "running"}
      /\ entry'[f].crashes = 0 /\ entry'[f].aged = 0
      /\ Childless \/ \E p \in FreePids : Child(p)
  <2>1. CASE \E p \in FreePids : SpawnAndWatch(f, fresh, p, ents, proc)
    <3>1. PICK p \in FreePids : SpawnAndWatch(f, fresh, p, ents, proc)
      BY <2>1
    <3>2. fresh.spawns = 0 /\ fresh.crashes = 0 /\ fresh.aged = 0
          /\ DOMAIN fresh = {"status", "startError", "stopRequested", "proc", "crashes",
                             "aged", "spawns", "gate"}
      BY DEF Blank
    <3>3. fresh \in ModuleEntry
      BY DEF Blank, ModuleEntry
    <3> HIDE DEF fresh
    <3>4. /\ entry' = [ents EXCEPT ![f] = [fresh EXCEPT !.status = "running",
                            !.startError = "none", !.proc = p, !.spawns = 0 + 1]]
          /\ proc' = [proc EXCEPT ![p] = [owner |-> f, at |-> "booting", target |-> NoPid]]
      BY <3>1, <3>2 DEF SpawnAndWatch
    <3>5. /\ entry'[f].status = "running" /\ entry'[f].proc = p /\ entry'[f].spawns = 1
          /\ entry'[f].crashes = 0 /\ entry'[f].aged = 0
      BY <1>2, <3>2, <3>3, <3>4 DEF ModuleEntry
    <3> QED BY <1>2, <3>4, <3>5
  <2>2. CASE ~ \E p \in FreePids : SpawnAndWatch(f, fresh, p, ents, proc)
    <3>1. PICK r \in {[Blank EXCEPT !.status = "crashed", !.startError = "missing_dependency"],
                      [Blank EXCEPT !.status = "crashed", !.startError = "port_squatter"],
                      [Blank EXCEPT !.status = "starting"]} :
              entry' = [ents EXCEPT ![f] = r] /\ UNCHANGED proc
      BY <1>1, <2>2
    <3>2. r.status \in {"crashed", "starting"} /\ r.proc = NoPid /\ r.spawns = 0
          /\ r.crashes = 0 /\ r.aged = 0
      BY DEF Blank
    <3> QED BY <1>2, <3>1, <3>2
  <2> QED BY <2>1, <2>2
<1>4. \A p \in Pids : Active(p) => proc[p].owner # f
  BY <1>2 DEF IInv, Owned, SupervisorAssumption
<1>5. ASSUME NEW p \in FreePids, Child(p)
      PROVE  /\ p \in Pids /\ ~Active(p) /\ holder # p /\ \A r \in Pids : proc[r].target # p
             /\ proc'[p].at = "booting" /\ proc'[p].owner = f
             /\ \A r \in Pids \ {p} : proc'[r] = proc[r]
  BY <1>5, FreePid DEF IInv, TypeOK
<1>6. \A r \in Pids :
        \/ proc'[r] = proc[r]
        \/ /\ proc'[r].at = "booting" /\ proc'[r].owner = f /\ ~Active(r) /\ holder # r
           /\ entry'[f].proc = r /\ entry'[f].spawns = 1 /\ \A q \in Pids : proc[q].target # r
  BY <1>3, <1>5
<1>7. entry'[f].proc = NoPid \/ (/\ entry'[f].proc \in Pids
                                 /\ \A q \in Pids : proc[q].target # entry'[f].proc)
  BY <1>3, <1>5
<1>8. entry'[f].spawns \in {0, 1}
  BY <1>3
<1> HIDE DEF Childless, Child, fresh
<1>9. Owned'
  <2> SUFFICES ASSUME NEW r \in Pids, Active(r)'
               PROVE  IF proc'[r].owner = NoEntry THEN Alive(r)'
                      ELSE entry'[proc'[r].owner].proc = r
                            /\ entry'[proc'[r].owner].status # "none"
    BY DEF Owned
  <2>1. CASE proc'[r] # proc[r]
    BY <2>1, <1>2, <1>3, <1>6
  <2>2. CASE proc'[r] = proc[r]
    <3>1. Active(r) /\ proc[r].owner # f /\ proc[r].owner \in Entries \cup {NoEntry}
      BY <2>2, <1>4 DEF Active, IInv, TypeOK, Process
    <3>2. IF proc[r].owner = NoEntry THEN Alive(r)
          ELSE entry[proc[r].owner].proc = r /\ entry[proc[r].owner].status # "none"
      BY <3>1 DEF IInv, Owned
    <3>3. CASE proc[r].owner = NoEntry
      BY <2>2, <3>2, <3>3 DEF Alive
    <3>4. CASE proc[r].owner # NoEntry
      <4>1. entry'[proc[r].owner] = ents[proc[r].owner]
        BY <3>1, <3>4, <1>3
      <4> QED BY <2>2, <3>1, <3>2, <3>4, <4>1 DEF QuietEntries
    <3> QED BY <3>3, <3>4
  <2> QED BY <2>1, <2>2
<1>10. Flagged'
  <2> SUFFICES ASSUME NEW c \in Callers, call'[c].op # "idle"
               PROVE  /\ call'[c].entry \in Entries
                      /\ entry'[call'[c].entry].stopRequested = "set"
                      /\ entry'[call'[c].entry].status # "none"
                      /\ entry'[call'[c].entry].proc = call'[c].pid
                      /\ call'[c].op = "stop" => call'[c].pid # NoPid
    BY DEF Flagged, StopAsked
  <2>1. call'[c] = call[c]
    BY DEF Idle
  <2>2. /\ call[c].entry \in Entries /\ StopAsked(call[c].entry)
        /\ entry[call[c].entry].status # "none"
        /\ entry[call[c].entry].proc = call[c].pid
        /\ call[c].op = "stop" => call[c].pid # NoPid
    BY <2>1 DEF IInv, Flagged
  <2>3. entry'[call[c].entry] = ents[call[c].entry]
    BY <2>2, <1>2, <1>3
  <2> QED BY <2>1, <2>2, <2>3 DEF QuietEntries
<1>11. Registered'
  BY <1>2, <1>3 DEF Registered
<1>12. PortHeld'
  BY <1>6 DEF IInv, PortHeld
<1>13. StoppedIsFlagged'
  <2> SUFFICES ASSUME NEW e \in Entries, entry'[e].status = "stopped"
               PROVE  entry'[e].stopRequested = "set" /\ ChildrenOf(e)' = {}
    BY DEF StoppedIsFlagged, StopAsked
  <2>1. e # f /\ entry'[e] = ents[e]
    BY <1>3
  <2>2. ents[e].stopRequested = "set" /\ ChildrenOf(e) = {}
    BY <2>1 DEF IInv, StoppedIsFlagged, QuietEntries
  <2>3. ChildrenOf(e)' \subseteq ChildrenOf(e)
    BY <2>1, <1>6 DEF ChildrenOf, Alive
  <2> QED BY <2>1, <2>2, <2>3
<1>14. Counted'
  <2> SUFFICES ASSUME NEW r \in Pids, Active(r)', proc'[r].owner # NoEntry
               PROVE  /\ entry'[proc'[r].owner].crashes < MaxRestarts
                      /\ entry'[proc'[r].owner].spawns =
                            entry'[proc'[r].owner].crashes + entry'[proc'[r].owner].aged
                                + (IF proc'[r].at = "backoff" THEN 0 ELSE 1)
    BY DEF Counted
  <2>1. CASE proc'[r] # proc[r]
    BY <2>1, <1>3, <1>6, SupervisorAssumption
  <2>2. CASE proc'[r] = proc[r]
    <3>1. /\ Active(r) /\ proc[r].owner # f /\ proc[r].owner \in Entries
          /\ proc[r].owner # NoEntry
      BY <2>2, <1>4 DEF Active, IInv, TypeOK, Process
    <3>2. /\ entry[proc[r].owner].crashes < MaxRestarts
          /\ entry[proc[r].owner].spawns =
                entry[proc[r].owner].crashes + entry[proc[r].owner].aged
                    + (IF proc[r].at = "backoff" THEN 0 ELSE 1)
      BY <3>1 DEF IInv, Counted
    <3>3. entry'[proc[r].owner] = ents[proc[r].owner]
      BY <3>1, <1>3
    <3>4. /\ ents[proc[r].owner].crashes = entry[proc[r].owner].crashes
          /\ ents[proc[r].owner].aged = entry[proc[r].owner].aged
          /\ ents[proc[r].owner].spawns = entry[proc[r].owner].spawns
      BY <3>1 DEF QuietEntries, Uncounted
    <3> QED BY <2>2, <3>2, <3>3, <3>4
  <2> QED BY <2>1, <2>2
<1>15. BudgetHolds'
  <2> SUFFICES ASSUME NEW e \in Entries
               PROVE  entry'[e].spawns <= MaxRestarts + entry'[e].aged
    BY DEF BudgetHolds
  <2>1. CASE e = f
    BY <2>1, <1>3, <1>8, SupervisorAssumption
  <2>2. CASE e # f
    BY <2>2, <1>3 DEF IInv, BudgetHolds, QuietEntries, Uncounted
  <2> QED BY <2>1, <2>2
<1>16. Aimed' /\ AdoptTargetUnowned'
  <2> SUFFICES ASSUME NEW r \in Pids, proc'[r].at = "adopting"
               PROVE  /\ proc'[r].target \in Pids \cup {Outsider} /\ Attributable(proc'[r].target)
                      /\ entry'[f].proc # proc'[r].target
    BY <1>2 DEF Aimed, Attributable, AdoptTargetUnowned
  <2>1. proc'[r] = proc[r]
    BY <1>6
  <2>2. proc[r].target \in Pids \cup {Outsider} /\ Attributable(proc[r].target)
    BY <2>1 DEF IInv, Aimed
  <2> QED BY <2>1, <2>2, <1>7, SupervisorAssumption
<1> QED BY <1>9, <1>10, <1>11, <1>12, <1>13, <1>14, <1>15, <1>16 DEF IInv

LEMMA StartStep == ASSUME IInv, TypeOK', Start PROVE IInv'
<1>1. StartFresh(entry) /\ UNCHANGED <<holder, call>> /\ entry \in [Entries -> ModuleEntry]
  BY DEF Start, IInv, TypeOK
<1>2. QuietEntries(entry) /\ Uncounted(entry)
  BY DEF QuietEntries, Uncounted, StopAsked
<1> QED BY <1>1, <1>2, FreshStep

LEMMA RestartReturnsStep ==
    ASSUME IInv, TypeOK', NEW c \in Callers, RestartReturns(c) PROVE IInv'
<1> DEFINE f == call[c].entry
           ents == IF call[c].pid = NoPid THEN entry
                   ELSE [entry EXCEPT ![f].status = "stopped"]
<1>1. /\ f \in Entries /\ entry[f].status # "none" /\ StopAsked(f)
      /\ entry[f].proc = call[c].pid
      /\ call[c].pid # NoPid => Reaped(call[c].pid)
      /\ entry[f] \in ModuleEntry
  BY DEF RestartReturns, IInv, Flagged, TypeOK
<1>2. StartFresh(ents) /\ UNCHANGED holder /\ call' = [call EXCEPT ![c] = Idle]
  BY DEF RestartReturns
<1>3. /\ ents \in [Entries -> ModuleEntry] /\ QuietEntries(ents) /\ Uncounted(ents)
  <2>1. CASE call[c].pid = NoPid
    BY <2>1 DEF QuietEntries, Uncounted, StopAsked, IInv, TypeOK
  <2>2. CASE call[c].pid # NoPid
    <3>1. ChildrenOf(f) = {}
      BY <1>1, <2>2, NoChildWithoutProc DEF IInv, Reaped, Alive
    <3>2. [entry[f] EXCEPT !.status = "stopped"] \in ModuleEntry
      BY <1>1, FlagTyped DEF Status
    <3>3. ents = [entry EXCEPT ![f] = [entry[f] EXCEPT !.status = "stopped"]]
      BY <2>2
    <3>4. /\ ents \in [Entries -> ModuleEntry]
          /\ \A e \in Entries \ {f} : ents[e] = entry[e]
          /\ ents[f].status = "stopped" /\ ents[f].stopRequested = "set"
          /\ ents[f].proc = entry[f].proc /\ ents[f].spawns = entry[f].spawns
          /\ ents[f].crashes = entry[f].crashes /\ ents[f].aged = entry[f].aged
      BY <1>1, <3>2, <3>3 DEF IInv, TypeOK, ModuleEntry, StopAsked
    <3> HIDE DEF f, ents
    <3> QED BY <1>1, <3>1, <3>4 DEF QuietEntries, Uncounted, StopAsked
  <2> QED BY <2>1, <2>2
<1> HIDE DEF ents
<1>4. \A k \in Callers : call'[k] = Idle \/ call'[k] = call[k]
  BY <1>2 DEF IInv, TypeOK
<1> QED BY <1>2, <1>3, <1>4, FreshStep

\* The two steps that forget objects: a hub that dies, and garbage collection.
LEMMA HubDiesStep == ASSUME IInv, TypeOK', HubDies PROVE IInv'
<1>1. /\ registry' = NoEntry /\ UNCHANGED holder
      /\ \A e \in Entries : entry'[e] = Blank
      /\ \A p \in Pids : proc'[p] = IF Alive(p) THEN [proc[p] EXCEPT !.owner = NoEntry] ELSE Dead
      /\ \A c \in Callers : call'[c] = Idle
  BY DEF HubDies
<1>2. /\ Blank.status = "none" /\ Blank.spawns = 0 /\ Blank.aged = 0
      /\ Dead.at = "dead" /\ Idle.op = "idle"
  BY DEF Blank, Dead, Idle
<1>3. \A p \in Pids : \/ proc'[p].at = "dead"
                      \/ proc'[p].owner = NoEntry /\ proc'[p].at = proc[p].at /\ Alive(p)
  BY <1>1, <1>2 DEF IInv, TypeOK, Process
<1>4. Owned' /\ Counted' /\ Aimed' /\ AdoptTargetUnowned'
  BY <1>1, <1>3 DEF Owned, Counted, Aimed, AdoptTargetUnowned, Active, Alive
<1>5. Flagged' /\ Registered' /\ StoppedIsFlagged' /\ BudgetHolds'
  BY <1>1, <1>2, SupervisorAssumption DEF Flagged, Registered, StoppedIsFlagged, BudgetHolds
<1>6. PortHeld'
  <2> SUFFICES ASSUME holder \in Pids PROVE proc'[holder].at = "listening"
    BY <1>1 DEF PortHeld
  <2>1. proc[holder].at = "listening" /\ Alive(holder) /\ proc[holder] \in Process
    BY DEF IInv, PortHeld, Alive, TypeOK
  <2> QED BY <2>1, <1>1 DEF Process
<1> QED BY <1>4, <1>5, <1>6 DEF IInv

LEMMA CollectStep == ASSUME IInv, TypeOK', Collect PROVE IInv'
<1>1. /\ UNCHANGED <<registry, proc, holder, call>>
      /\ \A e \in Entries : entry'[e] = IF e \in Garbage THEN Blank ELSE entry[e]
  BY DEF Collect
<1>2. \A e \in Garbage :
        /\ registry # e
        /\ \A p \in Pids : Active(p) => proc[p].owner # e
        /\ \A c \in Callers : call[c].entry # e
  BY DEF Garbage, Reachable
<1>3. Blank.status = "none" /\ Blank.spawns = 0 /\ Blank.aged = 0
  BY DEF Blank
<1>4. Owned' /\ Counted'
  <2>1. \A p \in Pids : Active(p) /\ proc[p].owner # NoEntry =>
            entry'[proc[p].owner] = entry[proc[p].owner]
    BY <1>1, <1>2 DEF IInv, TypeOK, Process
  <2> QED BY <2>1, <1>1 DEF IInv, Owned, Counted, Active, Alive
<1>5. Flagged'
  <2>1. \A c \in Callers : call[c].op # "idle" => entry'[call[c].entry] = entry[call[c].entry]
    BY <1>1, <1>2 DEF IInv, Flagged
  <2> QED BY <2>1, <1>1 DEF IInv, Flagged, StopAsked
<1>6. registry # NoEntry => entry'[registry] = entry[registry]
  BY <1>1, <1>2 DEF IInv, TypeOK
<1>7. Registered' /\ PortHeld' /\ Aimed' /\ AdoptTargetUnowned'
  BY <1>1, <1>6 DEF IInv, Registered, PortHeld, Aimed, AdoptTargetUnowned, NotRunning, StopAsked
<1>8. StoppedIsFlagged' /\ BudgetHolds'
  BY <1>1, <1>3, SupervisorAssumption
  DEF IInv, StoppedIsFlagged, BudgetHolds, ChildrenOf, Alive, StopAsked
<1> QED BY <1>4, <1>5, <1>7, <1>8 DEF IInv

-----------------------------------------------------------------------------
LEMMA IInvInit == Init => IInv
<1> SUFFICES ASSUME Init PROVE IInv
    OBVIOUS
<1>1. /\ registry = NoEntry /\ hubDeaths = 0
      /\ \A e \in Entries : entry[e] = Blank
      /\ \A c \in Callers : call[c] = Idle
      /\ \A p \in Pids : proc[p] = IF p = holder THEN [Dead EXCEPT !.at = "listening"] ELSE Dead
      /\ holder \in Pids \cup {NoPid, Outsider}
  BY DEF Init, Least
<1>2. /\ Blank.status = "none" /\ Blank.spawns = 0 /\ Blank.aged = 0
      /\ Dead.at = "dead" /\ Dead.owner = NoEntry /\ Idle.op = "idle"
      /\ [Dead EXCEPT !.at = "listening"].at = "listening"
      /\ [Dead EXCEPT !.at = "listening"].owner = NoEntry
      /\ [Dead EXCEPT !.at = "listening"] \in Process
  BY DEF Blank, Dead, Idle, Process
<1>3. TypeOK
  <2>1. entry \in [Entries -> ModuleEntry] /\ call \in [Callers -> Call]
    BY BlankTyped DEF Init
  <2>2. proc \in [Pids -> Process]
    BY <1>2, BlankTyped DEF Init
  <2> QED BY <1>1, <2>1, <2>2 DEF TypeOK
<1>4. Owned /\ Counted /\ Aimed /\ AdoptTargetUnowned /\ PortHeld
  BY <1>1, <1>2 DEF Owned, Counted, Aimed, AdoptTargetUnowned, PortHeld, Active, Alive
<1>5. Flagged /\ Registered /\ StoppedIsFlagged /\ BudgetHolds
  BY <1>1, <1>2, SupervisorAssumption DEF Flagged, Registered, StoppedIsFlagged, BudgetHolds
<1> QED BY <1>3, <1>4, <1>5 DEF IInv

LEMMA IInvStep == IInv /\ [Next]_vars => IInv'
<1> SUFFICES ASSUME IInv, [Next]_vars PROVE IInv'
    OBVIOUS
<1>0. TypeOK'
  BY TypeStep DEF IInv
<1>1. CASE Start
  BY <1>0, <1>1, StartStep
<1>2. ASSUME NEW c \in Callers, Operator(c) PROVE IInv'
  <2>1. CASE KillTimeout(c)
    <3>1. call[c].pid \in Pids
      BY <2>1 DEF KillTimeout, IInv, TypeOK, Call
    <3> QED BY <1>0, <2>1, <3>1, DiesStep DEF KillTimeout
  <2> QED BY <1>0, <1>2, <2>1, StopStep, RestartStep, StopReturnsStep, RestartReturnsStep
          DEF Operator
<1>3. ASSUME NEW p \in Pids, HandleExit(p) PROVE IInv'
  BY <1>0, <1>3, ExitEndsStep, AdoptsStep, CrashedStep, AdoptKillsStep, RespawnStep, DroppedStep
  DEF HandleExit
<1>4. ASSUME NEW p \in Pids, Dies(p) \/ Binds(p) PROVE IInv'
  BY <1>0, <1>4, DiesStep, BindsStep
<1>5. ASSUME NEW e \in Entries, Gate(e) PROVE IInv'
  <2>1. PICK g, x : SetGate(e, g, x)
    BY <1>5 DEF Gate, GatePoll, GateExpires, LatePoll, LateExpires, ProbeAnswers
  <2> QED BY <1>0, <2>1, GateStep
<1>6. ASSUME NEW e \in Entries, StampAges(e) PROVE IInv'
  BY <1>0, <1>6, AgesStep
<1>7. CASE OutsiderMoves \/ HubDies \/ Collect
  BY <1>0, <1>7, OutsiderStep, HubDiesStep, CollectStep
<1>8. CASE UNCHANGED vars
  BY <1>8 DEF vars, IInv, TypeOK, Owned, Flagged, Registered, PortHeld, StoppedIsFlagged, Counted,
              BudgetHolds, Aimed, AdoptTargetUnowned, ChildrenOf, Alive, Active, StopAsked,
              NotRunning
<1> QED BY <1>1, <1>2, <1>3, <1>4, <1>5, <1>6, <1>7, <1>8 DEF Next

\* The inductive invariant, and with it type correctness.
THEOREM Inductive == Spec => []IInv
BY IInvInit, IInvStep, PTL DEF Spec

\* Every state the supervisor reaches is well typed.
THEOREM TypeCorrect == Spec => []TypeOK
<1>1. IInv => TypeOK
  BY DEF IInv
<1> QED BY <1>1, Inductive, PTL

\* spawnAndWatch never gives a ModuleEntry a second live child.
THEOREM OneChild == Spec => []OneChildPerEntry
<1>1. IInv => OneChildPerEntry
  <2> SUFFICES ASSUME IInv, NEW e \in Entries PROVE Cardinality(ChildrenOf(e)) <= 1
    BY DEF OneChildPerEntry
  <2>1. ChildrenOf(e) \subseteq {entry[e].proc}
    BY OnlyChild DEF IInv, ChildrenOf
  <2>2. IsFiniteSet({entry[e].proc}) /\ Cardinality({entry[e].proc}) = 1
    BY FS_Singleton
  <2>3. Cardinality(ChildrenOf(e)) <= Cardinality({entry[e].proc})
    BY <2>1, <2>2, FS_Subset
  <2> QED BY <2>2, <2>3
<1> QED BY <1>1, Inductive, PTL

\* A status of "stopped" is never a lie, whatever stop() and handleExit raced.
THEOREM StoppedIsDead == Spec => []StoppedMeansDead
<1>1. IInv => StoppedMeansDead
  BY DEF IInv, StoppedIsFlagged, StoppedMeansDead
<1> QED BY <1>1, Inductive, PTL

\* The crash budget bounds the children of an entry, for every maxRestarts.
THEOREM BudgetRespected == Spec => []BudgetHolds
<1>1. IInv => BudgetHolds
  BY DEF IInv
<1> QED BY <1>1, Inductive, PTL

\* An adopt-kill never aims at the child the registered entry is running.
THEOREM AdoptSparesSiblings == Spec => []AdoptTargetUnowned
<1>1. IInv => AdoptTargetUnowned
  BY DEF IInv
<1> QED BY <1>1, Inductive, PTL

\* A module with a marker of its own never has a process evicted from its port
\* that is not the module's: neither an adopt-kill, which may have looked at
\* the port before its pause, nor a stop() takes a stranger's process.
THEOREM OutsidersLive == Spec => StrangersSpared
<1> DEFINE Spared == HasMarker /\ holder = Outsider /\ holder' # Outsider
                        => UNCHANGED <<registry, entry, proc, call>>
<1>1. IInv /\ [Next]_vars => [Spared]_vars
  <2> SUFFICES ASSUME IInv, Next, HasMarker, holder = Outsider, holder' # Outsider
               PROVE  UNCHANGED <<registry, entry, proc, call>>
    OBVIOUS
  <2>1. \A p \in Pids : proc[p].at = "adopting" => proc[p].target # Outsider
    BY SupervisorAssumption DEF IInv, Aimed, Attributable
  <2>2. \A p \in Pids : ~Dies(p) /\ ~AdoptKills(p)
    BY <2>1, SupervisorAssumption DEF Dies, AdoptKills, IInv, TypeOK
  <2>3. \A c \in Callers : ~KillTimeout(c)
    BY <2>2 DEF KillTimeout, IInv, TypeOK, Call
  <2>4. OutsiderMoves
    BY <2>2, <2>3, SupervisorAssumption
    DEF Next, Collect, Start, HubDies, Operator, Stop, Restart, StopReturns, RestartReturns,
        HandleExit, ExitStopped, ExitBlocked, ExitAdopts, ExitCrashed, AdoptReturns, Respawn,
        RespawnDropped, Binds, Gate, GatePoll, GateExpires, LatePoll, LateExpires,
        ProbeAnswers, SetGate, StampAges
  <2> QED BY <2>4 DEF OutsiderMoves
<1> QED BY <1>1, Inductive, PTL DEF Spec, StrangersSpared

\* Who gains a child: only an entry made by start() or respawned by handleExit.
LEMMA NewChild ==
    ASSUME IInv, TypeOK', Next, NEW e \in Entries, NEW p \in Pids,
           p \in ChildrenOf(e)', p \notin ChildrenOf(e)
    PROVE  ~StopAsked(e) \/ ~StopAsked(e)'
<1>1. proc'[p].at \in {"booting", "listening"} /\ proc'[p].owner = e
      /\ ~(Alive(p) /\ proc[p].owner = e)
  BY DEF ChildrenOf, Alive
<1>2. proc[p] \in Process /\ Dead.at = "dead"
  BY DEF IInv, TypeOK, Dead
<1>3. ASSUME NEW ents \in [Entries -> ModuleEntry], StartFresh(ents) PROVE ~StopAsked(e)'
  <2>1. PICK f \in FreeEntries : StartFresh(ents)!(f)
    BY <1>3 DEF StartFresh
  <2> DEFINE fresh == [Blank EXCEPT !.gate = IF Gated THEN "ready" ELSE "off"]
  <2>2. fresh \in ModuleEntry /\ fresh.stopRequested = "unset"
    BY DEF Blank, ModuleEntry
  <2>3. PICK q \in FreePids : SpawnAndWatch(f, fresh, q, ents, proc)
    BY <1>1, <2>1 DEF Alive
  <2> HIDE DEF fresh
  <2>4. f \in Entries /\ q \in Pids
    BY FreeEntry, FreePid
  <2>5. p = q /\ e = f
    BY <1>1, <2>3, <2>4 DEF SpawnAndWatch, Alive, IInv, TypeOK
  <2>6. entry'[f].stopRequested = "unset"
    BY <2>2, <2>3, <2>4 DEF SpawnAndWatch, ModuleEntry
  <2> QED BY <2>5, <2>6 DEF StopAsked
<1>4. CASE Start
  BY <1>3, <1>4 DEF Start, IInv, TypeOK
<1>5. ASSUME NEW c \in Callers, Operator(c) PROVE ~StopAsked(e) \/ ~StopAsked(e)'
  <2>1. CASE RestartReturns(c)
    <3> DEFINE ents == IF call[c].pid = NoPid THEN entry
                       ELSE [entry EXCEPT ![call[c].entry].status = "stopped"]
    <3>1. call[c].entry \in Entries
      BY <2>1 DEF RestartReturns, IInv, Flagged
    <3>2. [entry[call[c].entry] EXCEPT !.status = "stopped"] \in ModuleEntry
      BY <3>1, FlagTyped DEF Status, IInv, TypeOK
    <3>3. ents \in [Entries -> ModuleEntry]
      BY <3>1, <3>2 DEF IInv, TypeOK
    <3>4. StartFresh(ents)
      BY <2>1 DEF RestartReturns
    <3> HIDE DEF ents
    <3> QED BY <3>3, <3>4, <1>3
  <2>2. CASE KillTimeout(c)
    <3>1. PICK q : Dies(q)
      BY <2>2 DEF KillTimeout
    <3> QED BY <3>1, <1>1, <1>2 DEF Dies, Alive, IInv, TypeOK, Process
  <2>3. CASE Stop(c) \/ Restart(c) \/ StopReturns(c)
    BY <2>3, <1>1 DEF Stop, Restart, StopReturns, Alive
  <2> QED BY <1>5, <2>1, <2>2, <2>3 DEF Operator
<1>6. ASSUME NEW q \in Pids, HandleExit(q) PROVE ~StopAsked(e) \/ ~StopAsked(e)'
  <2>1. CASE Respawn(q)
    <3>1. ~StopAsked(proc[q].owner)
      BY <2>1 DEF Respawn
    <3>2. PICK r \in FreePids : SpawnAndWatch(proc[q].owner, entry[proc[q].owner], r, entry,
                                             [proc EXCEPT ![q] = Dead])
      BY <2>1 DEF Respawn
    <3>3. proc' = [[proc EXCEPT ![q] = Dead] EXCEPT
                        ![r] = [owner |-> proc[q].owner, at |-> "booting", target |-> NoPid]]
      BY <3>2 DEF SpawnAndWatch
    <3>4. p = r \/ proc'[p] = proc[p] \/ proc'[p] = Dead
      BY <3>3 DEF IInv, TypeOK
    <3>5. p = r
      BY <3>4, <1>1, <1>2 DEF Alive
    <3>6. e = proc[q].owner
      BY <3>3, <3>5, <1>1 DEF IInv, TypeOK
    <3> QED BY <3>1, <3>6
  <2>2. CASE AdoptKills(q) \/ ExitCrashed(q) \/ AdoptReturns(q)
    <3>1. PICK procs : CrashCounted(q, procs) /\ procs \in [Pids -> Process]
                       /\ (procs[p] = proc[p] \/ ~(procs[p].at \in {"booting", "listening"}))
      <4>1. CASE AdoptKills(q)
        <5>1. PICK procs \in [Pids -> Process] :
                  /\ CrashCounted(q, procs)
                  /\ procs[p] = proc[p] \/ procs[p] = Dead \/ procs[p].at = "exited"
          BY <4>1, <1>2, AdoptKilled DEF IInv
        <5> QED BY <5>1 DEF Dead
      <4>2. CASE ExitCrashed(q) \/ AdoptReturns(q)
        BY <4>2 DEF ExitCrashed, AdoptReturns, IInv, TypeOK
      <4> QED BY <2>2, <4>1, <4>2
    <3>2. PICK d : proc' = [procs EXCEPT ![q] = d] /\ ~(d.at \in {"booting", "listening"})
      <4>1. Dead.at # "booting" /\ Dead.at # "listening"
        BY DEF Dead
      <4>2. procs[q] \in Process
        BY <3>1
      <4> DEFINE d == [procs[q] EXCEPT !.at = "backoff", !.target = NoPid]
      <4>3. d.at = "backoff"
        BY <4>2 DEF Process
      <4>4. proc' = [procs EXCEPT ![q] = Dead] \/ proc' = [procs EXCEPT ![q] = d]
        BY <3>1 DEF CrashCounted
      <4> HIDE DEF d
      <4> QED BY <4>1, <4>3, <4>4
    <3>3. proc'[p] = d \/ proc'[p] = procs[p]
      BY <3>1, <3>2
    <3> QED BY <3>1, <3>2, <3>3, <1>1 DEF Alive
  <2>3. CASE ExitStopped(q) \/ ExitBlocked(q) \/ RespawnDropped(q)
    <3>1. proc' = [proc EXCEPT ![q] = Dead]
      BY <2>3 DEF ExitStopped, ExitBlocked, RespawnDropped
    <3>2. proc'[p] = Dead \/ proc'[p] = proc[p]
      BY <3>1 DEF IInv, TypeOK
    <3> QED BY <3>2, <1>1, <1>2 DEF Alive
  <2>4. CASE ExitAdopts(q)
    <3>1. proc'[p] = proc[p] \/ proc'[p] = [proc[p] EXCEPT !.at = "adopting", !.target = holder]
      BY <2>4 DEF ExitAdopts, IInv, TypeOK
    <3> QED BY <3>1, <1>1, <1>2 DEF Alive, Process
  <2> QED BY <1>6, <2>1, <2>2, <2>3, <2>4 DEF HandleExit
<1>7. ASSUME NEW q \in Pids, Dies(q) \/ Binds(q) PROVE FALSE
  BY <1>7, <1>1, <1>2 DEF Dies, Binds, Alive, IInv, TypeOK, Process
<1>8. CASE HubDies
  <2>1. proc'[p] = IF Alive(p) THEN [proc[p] EXCEPT !.owner = NoEntry] ELSE Dead
    BY <1>8 DEF HubDies
  <2>2. proc'[p].owner = NoEntry
    BY <2>1, <1>2 DEF Process, Dead
  <2> QED BY <2>2, <1>1, SupervisorAssumption
<1>9. ASSUME NEW f \in Entries, Gate(f) \/ StampAges(f) PROVE FALSE
  BY <1>9, <1>1 DEF Gate, GatePoll, GateExpires, LatePoll, LateExpires, ProbeAnswers, SetGate,
                    StampAges, Alive
<1>10. CASE OutsiderMoves \/ Collect
  BY <1>10, <1>1 DEF OutsiderMoves, Collect, Alive
<1> QED BY <1>4, <1>5, <1>6, <1>7, <1>8, <1>9, <1>10 DEF Next

\* After stop() or restart() flagged an entry nothing spawns for it.
THEOREM StopIsFinal == Spec => StopSticks
<1> DEFINE Sticks == \A e \in Entries :
        StopAsked(e) /\ StopAsked(e)' => ChildrenOf(e)' \subseteq ChildrenOf(e)
<1>1. IInv /\ IInv' /\ [Next]_vars => [Sticks]_vars
  <2> SUFFICES ASSUME IInv, TypeOK', Next, NEW e \in Entries, StopAsked(e), StopAsked(e)'
               PROVE  ChildrenOf(e)' \subseteq ChildrenOf(e)
    BY DEF IInv
  <2>1. ChildrenOf(e)' \subseteq Pids
    BY DEF ChildrenOf
  <2> QED BY <2>1, NewChild
<1> QED BY <1>1, Inductive, PTL DEF Spec, StopSticks

-----------------------------------------------------------------------------
\* The exit of a child is dealt with once its handleExit has decided.
Tending == {"booting", "listening", "exited", "adopting"}

Runs(e) == entry[e].status = "running" /\ ~StopAsked(e)

Minds(e, p) == proc[p].owner = e /\ proc[p].at \in Tending

\* An entry that is up has a child whose end has not been dealt with.
Tended == \A e \in Entries : Runs(e) => entry[e].proc \in Pids /\ Minds(e, entry[e].proc)

LEMMA StaysTended ==
    ASSUME NEW e \in Entries, Tended,
           Runs(e)' => Runs(e) /\ entry'[e].proc = entry[e].proc,
           Runs(e)' => \A p \in Pids : Minds(e, p) => Minds(e, p)'
    PROVE  Runs(e)' => entry'[e].proc \in Pids /\ proc'[entry'[e].proc].owner = e
                     /\ proc'[entry'[e].proc].at \in Tending
<1> SUFFICES ASSUME Runs(e)'
             PROVE  entry'[e].proc \in Pids /\ proc'[entry'[e].proc].owner = e
                    /\ proc'[entry'[e].proc].at \in Tending
  OBVIOUS
<1>1. PICK p \in Pids : p = entry[e].proc /\ p = entry'[e].proc /\ Minds(e, p)
  BY DEF Tended
<1>2. Minds(e, p)'
  BY <1>1
<1> QED BY <1>1, <1>2 DEF Minds

\* One object changes, and is not up afterwards or was up already.
LEMMA OneObject ==
    ASSUME IInv, Tended, NEW f \in Entries, NEW r,
           entry' = [entry EXCEPT ![f] = r],
           r.status = "running" /\ r.stopRequested # "set" =>
               Runs(f) /\ r.proc = entry[f].proc /\ \A p \in Pids : Minds(f, p) => Minds(f, p)',
           \A e \in Entries \ {f} : \A p \in Pids : Minds(e, p) => Minds(e, p)'
    PROVE  Tended'
<1>1. \A e \in Entries : entry'[e] = IF e = f THEN r ELSE entry[e]
  BY DEF IInv, TypeOK
<1>2. ASSUME NEW e \in Entries
      PROVE  /\ Runs(e)' => Runs(e) /\ entry'[e].proc = entry[e].proc
             /\ Runs(e)' => \A p \in Pids : Minds(e, p) => Minds(e, p)'
  BY <1>1 DEF Runs, StopAsked
<1> QED BY <1>2, StaysTended DEF Tended, Minds

\* No object changes.
LEMMA NoObject ==
    ASSUME Tended, UNCHANGED entry,
           \A e \in Entries : \A p \in Pids : Minds(e, p) => Minds(e, p)'
    PROVE  Tended'
<1>1. ASSUME NEW e \in Entries
      PROVE  Runs(e)' => Runs(e) /\ entry'[e].proc = entry[e].proc
  BY DEF Runs, StopAsked
<1> QED BY <1>1, StaysTended DEF Tended, Minds

LEMMA CallTends ==
    ASSUME IInv, Tended, NEW c \in Callers, Stop(c) \/ Restart(c) \/ StopReturns(c)
    PROVE  Tended'
<1>1. UNCHANGED proc
  BY DEF Stop, Restart, StopReturns
<1>2. PICK f \in Entries : f = IF StopReturns(c) THEN call[c].entry ELSE registry
  BY DEF Stop, Restart, StopReturns, IInv, Flagged, TypeOK
<1>3. entry[f] \in ModuleEntry
  BY DEF IInv, TypeOK
<1>4. PICK r : entry' = [entry EXCEPT ![f] = r] /\ (r.stopRequested = "set" \/ r.status = "stopped")
  <2>1. CASE StopReturns(c)
    <3>1. entry' = [entry EXCEPT ![f] = [entry[f] EXCEPT !.status = "stopped"]]
      BY <2>1, <1>2 DEF StopReturns
    <3>2. [entry[f] EXCEPT !.status = "stopped"].status = "stopped"
      BY <1>3 DEF ModuleEntry
    <3> QED BY <3>1, <3>2
  <2>2. CASE Stop(c) /\ ~StopReturns(c)
    <3>1. \/ entry' = [entry EXCEPT ![f] =
                          [entry[f] EXCEPT !.stopRequested = "set", !.status = "stopped"]]
          \/ entry' = [entry EXCEPT ![f] = [entry[f] EXCEPT !.stopRequested = "set"]]
      BY <2>2, <1>2 DEF Stop
    <3>2. /\ [entry[f] EXCEPT !.stopRequested = "set", !.status = "stopped"].stopRequested = "set"
          /\ [entry[f] EXCEPT !.stopRequested = "set"].stopRequested = "set"
      BY <1>3 DEF ModuleEntry
    <3> QED BY <3>1, <3>2
  <2>3. CASE Restart(c) /\ ~StopReturns(c)
    <3>1. PICK s : entry' = [entry EXCEPT ![f] =
                                [entry[f] EXCEPT !.stopRequested = "set", !.status = s]]
      BY <2>3, <1>2 DEF Restart
    <3>2. [entry[f] EXCEPT !.stopRequested = "set", !.status = s].stopRequested = "set"
      BY <1>3 DEF ModuleEntry
    <3> QED BY <3>1, <3>2
  <2> QED BY <2>1, <2>2, <2>3
<1>5. \A e \in Entries : \A p \in Pids : Minds(e, p) => Minds(e, p)'
  BY <1>1 DEF Minds
<1> QED BY <1>4, <1>5, OneObject

LEMMA NoteTends ==
    ASSUME IInv, Tended, NEW f \in Entries, Gate(f) \/ StampAges(f)
    PROVE  Tended'
<1>1. UNCHANGED proc
  BY DEF Gate, GatePoll, GateExpires, LatePoll, LateExpires, ProbeAnswers, SetGate, StampAges
<1>2. entry[f] \in ModuleEntry
  BY DEF IInv, TypeOK
<1>3. PICK r : /\ entry' = [entry EXCEPT ![f] = r]
               /\ r.status = entry[f].status /\ r.stopRequested = entry[f].stopRequested
               /\ r.proc = entry[f].proc
  <2>1. CASE Gate(f)
    <3>1. PICK g, x : SetGate(f, g, x)
      BY <2>1 DEF Gate, GatePoll, GateExpires, LatePoll, LateExpires, ProbeAnswers
    <3>2. entry' = [entry EXCEPT ![f] = [entry[f] EXCEPT !.gate = g, !.startError = x]]
      BY <3>1 DEF SetGate
    <3>3. PICK r : r = [entry[f] EXCEPT !.gate = g, !.startError = x]
      OBVIOUS
    <3>4. /\ r.status = entry[f].status /\ r.stopRequested = entry[f].stopRequested
          /\ r.proc = entry[f].proc
      BY <3>3, <1>2 DEF ModuleEntry
    <3> QED BY <3>2, <3>3, <3>4
  <2>2. CASE StampAges(f)
    <3>1. PICK r : /\ entry' = [entry EXCEPT ![f] = r]
                   /\ r = [entry[f] EXCEPT !.crashes = entry[f].crashes - 1,
                                           !.aged = entry[f].aged + 1]
      BY <2>2 DEF StampAges
    <3>2. /\ r.status = entry[f].status /\ r.stopRequested = entry[f].stopRequested
          /\ r.proc = entry[f].proc
      BY <3>1, <1>2 DEF ModuleEntry
    <3> QED BY <3>1, <3>2
  <2> QED BY <2>1, <2>2
<1>4. \A e \in Entries : \A p \in Pids : Minds(e, p) => Minds(e, p)'
  BY <1>1 DEF Minds
<1> QED BY <1>3, <1>4, OneObject DEF Runs, StopAsked

LEMMA ProcessTends ==
    ASSUME IInv, Tended, NEW q \in Pids,
           Dies(q) \/ Binds(q) \/ ExitAdopts(q) \/ RespawnDropped(q)
    PROVE  Tended'
<1>1. UNCHANGED entry
  BY DEF Dies, Binds, ExitAdopts, RespawnDropped
<1>2. PICK d : /\ proc' = [proc EXCEPT ![q] = d]
               /\ \/ proc[q].owner = NoEntry \/ proc[q].at = "backoff"
                  \/ d.owner = proc[q].owner /\ d.at \in Tending
  <2>1. proc[q] \in Process
    BY DEF IInv, TypeOK
  <2>2. /\ [proc[q] EXCEPT !.at = "exited"].owner = proc[q].owner
        /\ [proc[q] EXCEPT !.at = "exited"].at = "exited"
        /\ [proc[q] EXCEPT !.at = "listening"].owner = proc[q].owner
        /\ [proc[q] EXCEPT !.at = "listening"].at = "listening"
        /\ [proc[q] EXCEPT !.at = "adopting", !.target = holder].owner = proc[q].owner
        /\ [proc[q] EXCEPT !.at = "adopting", !.target = holder].at = "adopting"
    BY <2>1 DEF Process
  <2>3. CASE Dies(q)
    <3>1. proc' = [proc EXCEPT ![q] = IF proc[q].owner = NoEntry THEN Dead
                                      ELSE [proc[q] EXCEPT !.at = "exited"]]
      BY <2>3 DEF Dies
    <3> QED BY <3>1, <2>2 DEF Tending
  <2>4. CASE Binds(q)
    BY <2>4, <2>2 DEF Binds, Tending
  <2>5. CASE ExitAdopts(q)
    BY <2>5, <2>2 DEF ExitAdopts, Tending
  <2>6. CASE RespawnDropped(q)
    BY <2>6 DEF RespawnDropped
  <2> QED BY <2>3, <2>4, <2>5, <2>6
<1>3. \A p \in Pids : proc'[p] = IF p = q THEN d ELSE proc[p]
  BY <1>2 DEF IInv, TypeOK
<1>4. \A e \in Entries : \A p \in Pids : Minds(e, p) => Minds(e, p)'
  BY <1>2, <1>3 DEF Minds, Tending
<1> QED BY <1>1, <1>4, NoObject

\* handleExit decides: the object is up no more.
LEMMA VerdictTends ==
    ASSUME IInv, Tended, NEW p \in Pids,
           \/ ExitStopped(p) \/ ExitBlocked(p)
           \/ ExitCrashed(p) \/ AdoptKills(p) \/ AdoptReturns(p)
    PROVE  Tended'
<1>1. proc[p] \in Process /\ Active(p) /\ ~Alive(p)
  BY DEF ExitStopped, ExitBlocked, Squatted, ExitCrashed, AdoptKills, AdoptReturns, Active,
         Alive, IInv, TypeOK
<1>2. PICK f \in Entries : f = proc[p].owner
  BY <1>1 DEF IInv, Owned, Process
<1>3. entry[f] \in ModuleEntry
  BY DEF IInv, TypeOK
<1>4. PICK r : entry' = [entry EXCEPT ![f] = r] /\ r.status # "running"
  <2>1. CASE ExitStopped(p)
    <3>1. entry' = [entry EXCEPT ![f] = [entry[f] EXCEPT !.status = "stopped"]]
      BY <2>1, <1>2 DEF ExitStopped
    <3>2. [entry[f] EXCEPT !.status = "stopped"].status = "stopped"
      BY <1>3 DEF ModuleEntry
    <3> QED BY <3>1, <3>2
  <2>2. CASE ExitBlocked(p)
    <3>1. entry' = [entry EXCEPT ![f] =
                       [entry[f] EXCEPT !.status = "crashed", !.startError = "port_squatter"]]
      BY <2>2, <1>2 DEF ExitBlocked
    <3>2. [entry[f] EXCEPT !.status = "crashed", !.startError = "port_squatter"].status
              = "crashed"
      BY <1>3 DEF ModuleEntry
    <3> QED BY <3>1, <3>2
  <2>3. CASE ExitCrashed(p) \/ AdoptKills(p) \/ AdoptReturns(p)
    <3>1. PICK procs : CrashCounted(p, procs)
      BY <2>3 DEF ExitCrashed, AdoptKills, AdoptReturns
    <3>2. PICK n : n = entry[f].crashes + 1
      OBVIOUS
    <3>3. PICK s : s = IF n >= MaxRestarts THEN "crashed" ELSE "restarting"
      OBVIOUS
    <3>4. PICK r : r = [entry[f] EXCEPT !.crashes = n, !.status = s]
      OBVIOUS
    <3>5. entry' = [entry EXCEPT ![f] = r]
      BY <3>1, <3>2, <3>3, <3>4, <1>2 DEF CrashCounted
    <3>6. r.status = s /\ s # "running"
      BY <3>3, <3>4, <1>3 DEF ModuleEntry
    <3> QED BY <3>5, <3>6
  <2> QED BY <2>1, <2>2, <2>3
<1>5. ASSUME NEW q \in Pids, q # p
      PROVE  \/ proc'[q] = proc[q] \/ proc[q].owner = NoEntry
             \/ proc'[q].owner = proc[q].owner /\ proc'[q].at = "exited"
  <2>1. CASE ExitStopped(p) \/ ExitBlocked(p) \/ ExitCrashed(p) \/ AdoptReturns(p)
    BY <2>1, <1>5 DEF ExitStopped, ExitBlocked, ExitCrashed, AdoptReturns, CrashCounted,
                      IInv, TypeOK
  <2>2. CASE AdoptKills(p)
    <3>1. PICK procs \in [Pids -> Process] :
              /\ CrashCounted(p, procs)
              /\ \A k \in Pids :
                    \/ procs[k] = proc[k]
                    \/ procs[k] = Dead /\ proc[k].owner = NoEntry
                    \/ procs[k].owner = proc[k].owner /\ procs[k].at = "exited"
      BY <2>2, AdoptKilled DEF IInv
    <3>2. proc'[q] = procs[q]
      BY <3>1, <1>5 DEF CrashCounted
    <3> QED BY <3>1, <3>2
  <2> QED BY <2>1, <2>2
<1>6. \A e \in Entries \ {f} : \A q \in Pids : Minds(e, q) => Minds(e, q)'
  BY <1>2, <1>5 DEF Minds, Tending
<1> QED BY <1>4, <1>6, OneObject

\* A spawn tends the object it is for, and takes no child from another.
LEMMA SpawnTends ==
    ASSUME IInv, Tended, NEW f \in Entries, NEW q \in FreePids,
           entry'[f].proc = q, proc'[q].owner = f, proc'[q].at = "booting",
           \A e \in Entries \ {f} : Runs(e)' => Runs(e) /\ entry'[e].proc = entry[e].proc,
           \A p \in Pids \ {q} : proc'[p] = proc[p] \/ proc[p].owner = f
    PROVE  Tended'
<1>1. q \in Pids /\ proc[q].at = "dead"
  BY FreePid DEF Active
<1>2. ASSUME NEW e \in Entries \ {f}
      PROVE  \A p \in Pids : Minds(e, p) => Minds(e, p)'
  BY <1>1 DEF Minds, Tending
<1>3. \A e \in Entries \ {f} :
          Runs(e)' => entry'[e].proc \in Pids /\ proc'[entry'[e].proc].owner = e
                    /\ proc'[entry'[e].proc].at \in Tending
  BY <1>2, StaysTended
<1> QED BY <1>1, <1>3 DEF Tended, Minds, Tending

LEMMA RespawnTends == ASSUME IInv, Tended, NEW p \in Pids, Respawn(p) PROVE Tended'
<1>1. proc[p] \in Process /\ Active(p) /\ ~Alive(p) /\ proc[p].at = "backoff"
  BY DEF Respawn, Active, Alive, IInv, TypeOK
<1>2. PICK f \in Entries : f = proc[p].owner
  BY <1>1 DEF IInv, Owned, Process
<1>3. PICK q \in FreePids : SpawnAndWatch(f, entry[f], q, entry, [proc EXCEPT ![p] = Dead])
  BY <1>2 DEF Respawn
<1>4. q \in Pids /\ q # p
  BY <1>1, FreePid
<1>5. PICK r : entry' = [entry EXCEPT ![f] = r] /\ r.proc = q
  <2>1. entry[f] \in ModuleEntry
    BY DEF IInv, TypeOK
  <2>2. PICK r : /\ entry' = [entry EXCEPT ![f] = r]
                 /\ r = [entry[f] EXCEPT !.status = "running", !.startError = "none",
                                         !.proc = q, !.spawns = entry[f].spawns + 1]
    BY <1>3 DEF SpawnAndWatch
  <2>3. r.proc = q
    BY <2>1, <2>2 DEF ModuleEntry
  <2> QED BY <2>2, <2>3
<1>6. /\ entry'[f].proc = q
      /\ \A e \in Entries \ {f} : Runs(e)' => Runs(e) /\ entry'[e].proc = entry[e].proc
  BY <1>5 DEF Runs, StopAsked, IInv, TypeOK
<1>7. /\ proc'[q].owner = f /\ proc'[q].at = "booting"
      /\ \A k \in Pids \ {q} : proc'[k] = proc[k] \/ proc[k].owner = f
  BY <1>2, <1>3, <1>4 DEF SpawnAndWatch, IInv, TypeOK
<1> QED BY <1>6, <1>7, SpawnTends

LEMMA StartTends ==
    ASSUME IInv, Tended, NEW ents \in [Entries -> ModuleEntry], StartFresh(ents),
           \A e \in Entries : ents[e].status = "running" => ents[e] = entry[e]
    PROVE  Tended'
<1>1. PICK f \in FreeEntries : StartFresh(ents)!(f)
  BY DEF StartFresh
<1>2. f \in Entries
  BY FreeEntry
<1>3. PICK fresh \in ModuleEntry :
          fresh = [Blank EXCEPT !.gate = IF Gated THEN "ready" ELSE "off"]
  BY DEF Blank, ModuleEntry
<1>4. CASE \E q \in FreePids : SpawnAndWatch(f, fresh, q, ents, proc)
  <2>1. PICK q \in FreePids : SpawnAndWatch(f, fresh, q, ents, proc)
    BY <1>4
  <2>2. q \in Pids
    BY FreePid
  <2>3. PICK r : entry' = [ents EXCEPT ![f] = r] /\ r.proc = q
    <3>1. PICK r : /\ entry' = [ents EXCEPT ![f] = r]
                   /\ r = [fresh EXCEPT !.status = "running", !.startError = "none",
                                        !.proc = q, !.spawns = fresh.spawns + 1]
      BY <2>1 DEF SpawnAndWatch
    <3>2. r.proc = q
      BY <3>1 DEF ModuleEntry
    <3> QED BY <3>1, <3>2
  <2>4. /\ entry'[f].proc = q
        /\ \A e \in Entries \ {f} : Runs(e)' => Runs(e) /\ entry'[e].proc = entry[e].proc
    BY <1>2, <2>3 DEF Runs, StopAsked
  <2>5. /\ proc'[q].owner = f /\ proc'[q].at = "booting"
        /\ \A k \in Pids \ {q} : proc'[k] = proc[k]
    BY <2>1, <2>2 DEF SpawnAndWatch, IInv, TypeOK
  <2> QED BY <1>2, <2>4, <2>5, SpawnTends
<1>5. CASE ~ \E q \in FreePids : SpawnAndWatch(f, fresh, q, ents, proc)
  <2>1. PICK r \in {[Blank EXCEPT !.status = "crashed", !.startError = "missing_dependency"],
                    [Blank EXCEPT !.status = "crashed", !.startError = "port_squatter"],
                    [Blank EXCEPT !.status = "starting"]} :
            entry' = [ents EXCEPT ![f] = r] /\ UNCHANGED proc
    BY <1>1, <1>3, <1>5
  <2>2. r.status # "running"
    BY DEF Blank
  <2>3. \A e \in Entries : Runs(e)' => Runs(e) /\ entry'[e].proc = entry[e].proc
    BY <1>2, <2>1, <2>2 DEF Runs, StopAsked
  <2>4. \A e \in Entries : \A p \in Pids : Minds(e, p) => Minds(e, p)'
    BY <2>1 DEF Minds
  <2> QED BY <2>3, <2>4, StaysTended DEF Tended, Minds
<1> QED BY <1>4, <1>5

LEMMA RestartTends == ASSUME IInv, Tended, NEW c \in Callers, RestartReturns(c) PROVE Tended'
<1>1. PICK f \in Entries : f = call[c].entry
  BY DEF RestartReturns, IInv, Flagged
<1>2. entry \in [Entries -> ModuleEntry] /\ entry[f] \in ModuleEntry
  BY DEF IInv, TypeOK
<1>3. PICK ents \in [Entries -> ModuleEntry] :
          /\ StartFresh(ents)
          /\ \A e \in Entries : ents[e].status = "running" => ents[e] = entry[e]
  <2>1. CASE call[c].pid = NoPid
    BY <2>1, <1>2 DEF RestartReturns
  <2>2. CASE call[c].pid # NoPid
    <3>1. PICK r \in ModuleEntry : r = [entry[f] EXCEPT !.status = "stopped"]
      BY <1>2, FlagTyped DEF Status
    <3>2. r.status = "stopped"
      BY <3>1, <1>2 DEF ModuleEntry
    <3>3. StartFresh([entry EXCEPT ![f] = r])
      BY <2>2, <1>1, <3>1 DEF RestartReturns
    <3> QED BY <1>2, <3>2, <3>3
  <2> QED BY <2>1, <2>2
<1> QED BY <1>3, StartTends

LEMMA ForgetTends ==
    ASSUME IInv, Tended, HubDies \/ Collect \/ OutsiderMoves \/ UNCHANGED vars
    PROVE  Tended'
<1>1. Blank.status = "none"
  BY DEF Blank
<1>2. CASE HubDies
  BY <1>1, <1>2 DEF HubDies, Tended, Runs
<1>3. CASE ~HubDies
  <2>1. \A e \in Entries : Runs(e)' => Runs(e) /\ entry'[e].proc = entry[e].proc
    BY <1>1, <1>3 DEF Collect, OutsiderMoves, vars, Runs, StopAsked
  <2>2. \A e \in Entries : \A p \in Pids : Minds(e, p) => Minds(e, p)'
    BY <1>3 DEF Collect, OutsiderMoves, vars, Minds
  <2> QED BY <2>1, <2>2, StaysTended DEF Tended, Minds
<1> QED BY <1>2, <1>3

\* Only the readiness gate writes the note.
LEMMA NewNote ==
    ASSUME IInv, Next, NEW e \in Entries,
           entry[e].startError # "started_but_unbound",
           entry'[e].startError = "started_but_unbound"
    PROVE  GateExpires(e) /\ ~NotRunning(e)
<1>1. \A f \in Entries : entry[f] \in ModuleEntry
  BY DEF IInv, TypeOK
<1>2. Blank.startError = "none"
  BY DEF Blank
<1>3. ASSUME NEW ents \in [Entries -> ModuleEntry], StartFresh(ents),
             ents[e].startError = entry[e].startError
      PROVE  FALSE
  <2>1. PICK f \in FreeEntries : StartFresh(ents)!(f)
    BY <1>3 DEF StartFresh
  <2>2. f \in Entries
    BY FreeEntry
  <2>3. PICK fresh \in ModuleEntry :
            fresh = [Blank EXCEPT !.gate = IF Gated THEN "ready" ELSE "off"]
    BY DEF Blank, ModuleEntry
  <2>4. PICK r : entry' = [ents EXCEPT ![f] = r] /\ r.startError # "started_but_unbound"
    <3>1. CASE \E q \in FreePids : SpawnAndWatch(f, fresh, q, ents, proc)
      <4>1. PICK q, n : entry' = [ents EXCEPT ![f] = [fresh EXCEPT !.status = "running",
                            !.startError = "none", !.proc = q, !.spawns = n]]
        BY <3>1 DEF SpawnAndWatch
      <4>2. [fresh EXCEPT !.status = "running", !.startError = "none", !.proc = q,
                          !.spawns = n].startError = "none"
        BY DEF ModuleEntry
      <4> QED BY <4>1, <4>2
    <3>2. CASE ~ \E q \in FreePids : SpawnAndWatch(f, fresh, q, ents, proc)
      <4>1. PICK r \in {[Blank EXCEPT !.status = "crashed", !.startError = "missing_dependency"],
                        [Blank EXCEPT !.status = "crashed", !.startError = "port_squatter"],
                        [Blank EXCEPT !.status = "starting"]} : entry' = [ents EXCEPT ![f] = r]
        BY <2>1, <2>3, <3>2
      <4>2. r.startError # "started_but_unbound"
        BY DEF Blank
      <4> QED BY <4>1, <4>2
    <3> QED BY <3>1, <3>2
  <2>5. entry'[e] = ents[e] \/ entry'[e] = r
    BY <2>2, <2>4
  <2> QED BY <1>3, <2>4, <2>5
<1>4. CASE Start
  BY <1>3, <1>4 DEF Start, IInv, TypeOK
<1>5. ASSUME NEW c \in Callers, Operator(c) PROVE FALSE
  <2>1. CASE Stop(c)
    <3>1. \/ entry'[e] = entry[e]
          \/ entry'[e] = [entry[e] EXCEPT !.stopRequested = "set", !.status = "stopped"]
          \/ entry'[e] = [entry[e] EXCEPT !.stopRequested = "set"]
      BY <2>1 DEF Stop, IInv, TypeOK
    <3> QED BY <3>1, <1>1 DEF ModuleEntry
  <2>2. CASE Restart(c)
    <3>1. entry'[e] = entry[e] \/ \E s :
              entry'[e] = [entry[e] EXCEPT !.stopRequested = "set", !.status = s]
      BY <2>2 DEF Restart, IInv, TypeOK
    <3> QED BY <3>1, <1>1 DEF ModuleEntry
  <2>3. CASE KillTimeout(c)
    BY <2>3 DEF KillTimeout, Dies
  <2>4. CASE StopReturns(c)
    <3>1. entry'[e] = entry[e] \/ entry'[e] = [entry[e] EXCEPT !.status = "stopped"]
      BY <2>4 DEF StopReturns, IInv, TypeOK
    <3> QED BY <3>1, <1>1 DEF ModuleEntry
  <2>5. CASE RestartReturns(c)
    <3>1. PICK f \in Entries : f = call[c].entry
      BY <2>5 DEF RestartReturns, IInv, Flagged
    <3>2. PICK ents \in [Entries -> ModuleEntry] :
              StartFresh(ents) /\ ents[e].startError = entry[e].startError
      <4>1. CASE call[c].pid = NoPid
        BY <2>5, <4>1 DEF RestartReturns, IInv, TypeOK
      <4>2. CASE call[c].pid # NoPid
        <5>1. PICK r \in ModuleEntry : r = [entry[f] EXCEPT !.status = "stopped"]
          BY <1>1, FlagTyped DEF Status
        <5>2. r.startError = entry[f].startError
          BY <5>1, <1>1 DEF ModuleEntry
        <5>3. StartFresh([entry EXCEPT ![f] = r])
          BY <2>5, <4>2, <3>1, <5>1 DEF RestartReturns
        <5>4. entry \in [Entries -> ModuleEntry]
          BY DEF IInv, TypeOK
        <5>5. PICK ents : ents = [entry EXCEPT ![f] = r]
          OBVIOUS
        <5>6. ents \in [Entries -> ModuleEntry] /\ ents[e].startError = entry[e].startError
          BY <5>2, <5>4, <5>5
        <5> QED BY <5>3, <5>5, <5>6
      <4> QED BY <4>1, <4>2
    <3> QED BY <3>2, <1>3
  <2> QED BY <1>5, <2>1, <2>2, <2>3, <2>4, <2>5 DEF Operator
<1>6. ASSUME NEW p \in Pids, HandleExit(p) \/ Dies(p) \/ Binds(p) PROVE FALSE
  <2>1. CASE Dies(p) \/ Binds(p) \/ ExitAdopts(p) \/ RespawnDropped(p)
    BY <2>1 DEF Dies, Binds, ExitAdopts, RespawnDropped
  <2>2. CASE ExitStopped(p)
    <3>1. entry'[e] = entry[e] \/ entry'[e] = [entry[e] EXCEPT !.status = "stopped"]
      BY <2>2 DEF ExitStopped, IInv, TypeOK
    <3> QED BY <3>1, <1>1 DEF ModuleEntry
  <2>3. CASE ExitBlocked(p)
    <3>1. \/ entry'[e] = entry[e]
          \/ entry'[e] = [entry[e] EXCEPT !.status = "crashed", !.startError = "port_squatter"]
      BY <2>3 DEF ExitBlocked, IInv, TypeOK
    <3> QED BY <3>1, <1>1 DEF ModuleEntry
  <2>4. CASE ExitCrashed(p) \/ AdoptKills(p) \/ AdoptReturns(p)
    <3>1. PICK procs : CrashCounted(p, procs)
      BY <2>4 DEF ExitCrashed, AdoptKills, AdoptReturns
    <3>2. entry'[e] = entry[e] \/ \E n, s :
              entry'[e] = [entry[e] EXCEPT !.crashes = n, !.status = s]
      BY <3>1 DEF CrashCounted, IInv, TypeOK
    <3> QED BY <3>2, <1>1 DEF ModuleEntry
  <2>5. CASE Respawn(p)
    <3>1. PICK q : SpawnAndWatch(proc[p].owner, entry[proc[p].owner], q, entry,
                                 [proc EXCEPT ![p] = Dead])
      BY <2>5 DEF Respawn
    <3>2. PICK r : r = [entry[e] EXCEPT !.status = "running", !.startError = "none",
                                        !.proc = q, !.spawns = entry[e].spawns + 1]
      OBVIOUS
    <3>3. entry'[e] = entry[e] \/ entry'[e] = r
      BY <3>1, <3>2 DEF SpawnAndWatch, IInv, TypeOK
    <3>4. r.startError = "none"
      BY <3>2, <1>1 DEF ModuleEntry
    <3> QED BY <3>3, <3>4
  <2> QED BY <1>6, <2>1, <2>2, <2>3, <2>4, <2>5 DEF HandleExit
<1>7. ASSUME NEW f \in Entries, StampAges(f) PROVE FALSE
  <2>1. entry'[e] = entry[e] \/ \E n, k :
            entry'[e] = [entry[e] EXCEPT !.crashes = n, !.aged = k]
    BY <1>7 DEF StampAges, IInv, TypeOK
  <2> QED BY <2>1, <1>1 DEF ModuleEntry
<1>8. ASSUME NEW f \in Entries, Gate(f) PROVE GateExpires(e) /\ ~NotRunning(e)
  <2>1. ASSUME NEW g, NEW x, SetGate(f, g, x)
        PROVE  f = e /\ x = "started_but_unbound"
    <3>1. entry'[e] = IF e = f THEN [entry[e] EXCEPT !.gate = g, !.startError = x] ELSE entry[e]
      BY <2>1 DEF SetGate, IInv, TypeOK
    <3> QED BY <3>1, <1>1 DEF ModuleEntry
  <2> QED BY <1>8, <2>1 DEF Gate, GatePoll, GateExpires, LatePoll, LateExpires, ProbeAnswers
<1>9. CASE HubDies \/ Collect \/ OutsiderMoves
  BY <1>9, <1>2 DEF HubDies, Collect, OutsiderMoves
<1> QED BY <1>4, <1>5, <1>6, <1>7, <1>8, <1>9 DEF Next

THEOREM InductiveTended == Spec => []Tended
<1>1. Init => Tended
  BY DEF Init, Tended, Runs, Blank
<1>2. IInv /\ Tended /\ [Next]_vars => Tended'
  <2> SUFFICES ASSUME IInv, Tended, [Next]_vars PROVE Tended'
    OBVIOUS
  <2>1. CASE Start
    BY <2>1, StartTends DEF Start, IInv, TypeOK
  <2>2. ASSUME NEW c \in Callers, Operator(c) PROVE Tended'
    <3>1. CASE KillTimeout(c)
      BY <3>1, ProcessTends DEF KillTimeout, IInv, TypeOK, Call
    <3> QED BY <2>2, <3>1, CallTends, RestartTends DEF Operator
  <2>3. ASSUME NEW p \in Pids, HandleExit(p) \/ Dies(p) \/ Binds(p) PROVE Tended'
    BY <2>3, ProcessTends, VerdictTends, RespawnTends DEF HandleExit
  <2>4. ASSUME NEW e \in Entries, Gate(e) \/ StampAges(e) PROVE Tended'
    BY <2>4, NoteTends
  <2>5. CASE HubDies \/ Collect \/ OutsiderMoves \/ UNCHANGED vars
    BY <2>5, ForgetTends
  <2> QED BY <2>1, <2>2, <2>3, <2>4, <2>5 DEF Next
<1> QED BY <1>1, <1>2, Inductive, PTL DEF Spec

\* awaitPortReadiness writes started_but_unbound only on an entry that nobody is
\* stopping and whose child has not exited, or has and is not dealt with yet.
THEOREM BlamesOnlyTheLiving == Spec => UnboundOnlyWhileUp
<1> DEFINE Blames == \A e \in Entries :
        entry[e].startError # "started_but_unbound" /\ entry'[e].startError = "started_but_unbound"
            => /\ ~StopAsked(e)
               /\ proc[entry[e].proc].at \in {"booting", "listening", "exited", "adopting"}
<1>1. IInv /\ Tended /\ [Next]_vars => [Blames]_vars
  <2> SUFFICES ASSUME IInv, Tended, Next, NEW e \in Entries,
                      entry[e].startError # "started_but_unbound",
                      entry'[e].startError = "started_but_unbound"
               PROVE  ~StopAsked(e) /\ proc[entry[e].proc].at \in Tending
    BY DEF Tending
  <2>1. GateExpires(e) /\ ~NotRunning(e)
    BY NewNote
  <2> QED BY <2>1 DEF NotRunning, Tended, Runs, Minds
<1> QED BY <1>1, Inductive, InductiveTended, PTL DEF Spec, UnboundOnlyWhileUp
=============================================================================
