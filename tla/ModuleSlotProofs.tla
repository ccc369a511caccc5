-------------------------- MODULE ModuleSlotProofs --------------------------
(***************************************************************************)
(* The supervisor implements ModuleSlot, for any number of entries,        *)
(* processes and callers and any restart budget.                           *)
(***************************************************************************)
EXTENDS SupervisorProofs

USE SupervisorAssumption

\* Two facts the mapping needs beside IInv: crash stamps stand for children,
\* and an identity that no object has yet is blank.
Spawned == \A e \in Entries : entry[e].crashes + entry[e].aged <= entry[e].spawns

Unborn == \A e \in Entries : entry[e].status = "none" => entry[e] = Blank

SInv == IInv /\ Spawned /\ Unborn

Up(e) == ChildrenOf(e) # {}

SameCounts(e) ==
    /\ entry'[e].spawns = entry[e].spawns
    /\ entry'[e].crashes = entry[e].crashes
    /\ entry'[e].aged = entry[e].aged

\* What a step does to one entry, told in the words of the slot.
Kept(e) == entry'[e] = entry[e] /\ (Up(e)' => Up(e))

Marked(e) ==
    /\ SameCounts(e) /\ Up(e)' = Up(e)
    /\ StopAsked(e) => StopAsked(e)'
    /\ entry'[e].status # "none"

Crashes(e) ==
    /\ ~Up(e) /\ ~Up(e)'
    /\ StopAsked(e) => StopAsked(e)'
    /\ entry'[e].crashes = entry[e].crashes + 1 /\ entry'[e].aged = entry[e].aged
    /\ entry'[e].spawns = entry[e].spawns
    /\ entry[e].spawns = entry[e].crashes + entry[e].aged + 1
    /\ entry'[e].status # "none"

Ages(e) ==
    /\ entry[e].crashes > 0 /\ Up(e)' = Up(e)
    /\ entry'[e].crashes = entry[e].crashes - 1 /\ entry'[e].aged = entry[e].aged + 1
    /\ entry'[e].spawns = entry[e].spawns
    /\ entry'[e].status = entry[e].status
    /\ entry'[e].stopRequested = entry[e].stopRequested

Gains(e) ==
    /\ ~Up(e) /\ Up(e)' /\ ~StopAsked(e) /\ ~StopAsked(e)'
    /\ entry'[e].status = "running"
    /\ entry'[e].spawns = entry[e].spawns + 1
    /\ entry'[e].crashes = entry[e].crashes /\ entry'[e].aged = entry[e].aged
    /\ entry[e].spawns < MaxRestarts + entry[e].aged

Drops(e) == entry'[e] = Blank /\ ~Up(e)'

Moves(e) == Kept(e) \/ Marked(e) \/ Crashes(e) \/ Ages(e) \/ Gains(e) \/ Drops(e)

-----------------------------------------------------------------------------
\* One entry f is overwritten by r and no process moves.
LEMMA OverwriteMoves ==
    ASSUME IInv, NEW f \in Entries, NEW r \in ModuleEntry,
           entry' = [entry EXCEPT ![f] = r], UNCHANGED proc,
           r.spawns = entry[f].spawns, r.crashes = entry[f].crashes, r.aged = entry[f].aged,
           entry[f].stopRequested = "set" => r.stopRequested = "set", r.status # "none",
           NEW e \in Entries
    PROVE  Moves(e)
<1>1. entry'[e] = IF e = f THEN r ELSE entry[e]
  BY DEF IInv, TypeOK
<1>2. Up(e)' = Up(e)
  BY DEF Up, ChildrenOf, Alive
<1> QED BY <1>1, <1>2 DEF Moves, Kept, Marked, SameCounts, StopAsked

LEMMA StopMoves ==
    ASSUME IInv, NEW c \in Callers, Stop(c) \/ Restart(c) \/ StopReturns(c),
           NEW e \in Entries
    PROVE  Moves(e)
<1>1. CASE Stop(c) \/ Restart(c)
  <2>1. /\ registry \in Entries /\ entry[registry] \in ModuleEntry
        /\ entry[registry].status # "none" /\ UNCHANGED proc
    BY <1>1 DEF Stop, Restart, IInv, TypeOK, Registered
  <2>2. PICK s \in {"stopped", "restarting"} :
            \/ entry' = [entry EXCEPT ![registry] =
                            [@ EXCEPT !.stopRequested = "set", !.status = s]]
            \/ entry' = [entry EXCEPT ![registry].stopRequested = "set"]
    <3>1. CASE Stop(c)
      BY <3>1 DEF Stop
    <3>2. CASE Restart(c) /\ entry[registry].proc = NoPid
      BY <3>2 DEF Restart
    <3>3. CASE Restart(c) /\ entry[registry].proc # NoPid
      BY <3>3 DEF Restart
    <3> QED BY <1>1, <3>1, <3>2, <3>3
  <2> DEFINE r1 == [entry[registry] EXCEPT !.stopRequested = "set", !.status = s]
             r2 == [entry[registry] EXCEPT !.stopRequested = "set"]
  <2>3. r1 \in ModuleEntry /\ r2 \in ModuleEntry
    BY <2>1, StopTyped, FlagTyped DEF Status
  <2>4. /\ r1.spawns = entry[registry].spawns /\ r1.aged = entry[registry].aged
        /\ r1.crashes = entry[registry].crashes /\ r1.stopRequested = "set"
        /\ r2.spawns = entry[registry].spawns /\ r2.aged = entry[registry].aged
        /\ r2.crashes = entry[registry].crashes /\ r2.stopRequested = "set"
        /\ r1.status # "none" /\ r2.status # "none"
    BY <2>1 DEF ModuleEntry
  <2> HIDE DEF r1, r2
  <2>5. entry' = [entry EXCEPT ![registry] = r1] \/ entry' = [entry EXCEPT ![registry] = r2]
    BY <2>2 DEF r1, r2
  <2> QED BY <2>1, <2>3, <2>4, <2>5, OverwriteMoves
<1>2. CASE StopReturns(c)
  <2> DEFINE f == call[c].entry
             r == [entry[f] EXCEPT !.status = "stopped"]
  <2>1. f \in Entries /\ entry[f] \in ModuleEntry /\ UNCHANGED proc
    BY <1>2 DEF StopReturns, IInv, TypeOK, Flagged
  <2>2. r \in ModuleEntry
    BY <2>1, FlagTyped DEF Status
  <2>3. /\ r.spawns = entry[f].spawns /\ r.aged = entry[f].aged
        /\ r.crashes = entry[f].crashes /\ r.stopRequested = entry[f].stopRequested
        /\ r.status # "none"
    BY <2>1 DEF ModuleEntry
  <2>4. entry' = [entry EXCEPT ![f] = r]
    BY <1>2 DEF StopReturns
  <2> HIDE DEF f, r
  <2> QED BY <2>1, <2>2, <2>3, <2>4, OverwriteMoves
<1> QED BY <1>1, <1>2

\* The allocation of an entry, with or without its first child.
LEMMA FreshMoves ==
    ASSUME SInv, NEW ents \in [Entries -> ModuleEntry], StartFresh(ents)
    PROVE  \E f \in Entries :
                /\ entry[f].status = "none" /\ (Marked(f) \/ Gains(f))
                /\ \A e \in Entries \ {f} : entry'[e] = ents[e] /\ Up(e)' = Up(e)
<1>1. PICK f \in FreeEntries : StartFresh(ents)!(f)
  BY DEF StartFresh
<1>2. f \in Entries /\ entry[f].status = "none" /\ entry[f] = Blank
  BY FreeEntry DEF SInv, Unborn
<1>3. /\ Blank.spawns = 0 /\ Blank.crashes = 0 /\ Blank.aged = 0
      /\ Blank.stopRequested = "unset" /\ Blank.proc = NoPid /\ NoPid \notin Pids
  BY DEF Blank
<1>4. ~Up(f) /\ ~StopAsked(f)
  BY <1>2, <1>3, NoChildWithoutProc DEF SInv, IInv, Up, StopAsked
<1>5. CASE \E p \in FreePids : SpawnAndWatch(f,
                [Blank EXCEPT !.gate = IF Gated THEN "ready" ELSE "off"], p, ents, proc)
  <2> DEFINE fresh == [Blank EXCEPT !.gate = IF Gated THEN "ready" ELSE "off"]
  <2>1. /\ fresh \in ModuleEntry /\ fresh.spawns = 0 /\ fresh.crashes = 0 /\ fresh.aged = 0
        /\ fresh.stopRequested = "unset"
    BY DEF Blank, ModuleEntry
  <2> HIDE DEF fresh
  <2>2. PICK p \in FreePids : SpawnAndWatch(f, fresh, p, ents, proc)
    BY <1>5 DEF fresh
  <2>3. p \in Pids /\ ~Active(p)
    BY FreePid
  <2>4. \A q \in Pids : proc'[q] = IF q = p THEN [owner |-> f, at |-> "booting",
                                                  target |-> NoPid] ELSE proc[q]
    BY <2>2, <2>3 DEF SpawnAndWatch, SInv, IInv, TypeOK
  <2>5. p \in ChildrenOf(f)'
    <3>1. proc'[p] = [owner |-> f, at |-> "booting", target |-> NoPid]
      BY <2>3, <2>4
    <3> QED BY <2>3, <3>1 DEF ChildrenOf, Alive
  <2>6. \A e \in Entries \ {f} : ChildrenOf(e)' = ChildrenOf(e)
    <3>1. \A q \in Pids, e \in Entries \ {f} :
            Alive(q)' /\ proc'[q].owner = e <=> Alive(q) /\ proc[q].owner = e
      <4> SUFFICES ASSUME NEW q \in Pids, NEW e \in Entries \ {f}
                   PROVE  Alive(q)' /\ proc'[q].owner = e <=> Alive(q) /\ proc[q].owner = e
        OBVIOUS
      <4>1. CASE q = p
        <5>1. ~Alive(p)
          BY <2>3 DEF Alive, Active
        <5>2. proc'[p].owner = f
          BY <2>3, <2>4
        <5> QED BY <4>1, <5>1, <5>2
      <4>2. CASE q # p
        BY <4>2, <2>4 DEF Alive
      <4> QED BY <4>1, <4>2
    <3> QED BY <3>1 DEF ChildrenOf
  <2> DEFINE r == [fresh EXCEPT !.status = "running", !.startError = "none", !.proc = p,
                                !.spawns = fresh.spawns + 1]
  <2>7. /\ r.spawns = 1 /\ r.crashes = 0 /\ r.aged = 0 /\ r.status = "running"
        /\ r.stopRequested = "unset"
    BY <2>1 DEF ModuleEntry
  <2>8. entry' = [ents EXCEPT ![f] = r]
    BY <2>2 DEF SpawnAndWatch
  <2> HIDE DEF r
  <2>9. entry'[f] = r /\ \A e \in Entries \ {f} : entry'[e] = ents[e]
    BY <2>8, <1>2
  <2>10. Gains(f)
    BY <1>2, <1>3, <1>4, <2>5, <2>7, <2>9 DEF Gains, Up, StopAsked
  <2> QED BY <1>2, <2>6, <2>9, <2>10 DEF Up
<1>6. CASE \/ entry' = [ents EXCEPT ![f] = [Blank EXCEPT !.status = "crashed",
                                            !.startError = "missing_dependency"]]
           \/ entry' = [ents EXCEPT ![f] = [Blank EXCEPT !.status = "crashed",
                                            !.startError = "port_squatter"]]
           \/ entry' = [ents EXCEPT ![f] = [Blank EXCEPT !.status = "starting"]]
  <2> SUFFICES ASSUME UNCHANGED proc
               PROVE  \E g \in Entries :
                /\ entry[g].status = "none" /\ (Marked(g) \/ Gains(g))
                /\ \A e \in Entries \ {g} : entry'[e] = ents[e] /\ Up(e)' = Up(e)
    BY <1>1, <1>5
  <2>1. PICK r : /\ entry' = [ents EXCEPT ![f] = r]
                 /\ r.spawns = 0 /\ r.crashes = 0 /\ r.aged = 0
                 /\ r.status # "none"
    <3>1. \A y : \A x \in {"crashed", "starting"} :
            /\ [Blank EXCEPT !.status = x, !.startError = y].spawns = 0
            /\ [Blank EXCEPT !.status = x, !.startError = y].crashes = 0
            /\ [Blank EXCEPT !.status = x, !.startError = y].aged = 0
            /\ [Blank EXCEPT !.status = x, !.startError = y].status # "none"
            /\ [Blank EXCEPT !.status = x].spawns = 0
            /\ [Blank EXCEPT !.status = x].crashes = 0
            /\ [Blank EXCEPT !.status = x].aged = 0
            /\ [Blank EXCEPT !.status = x].status # "none"
      BY DEF Blank
    <3> QED BY <1>6, <3>1
  <2>2. entry'[f] = r /\ \A e \in Entries \ {f} : entry'[e] = ents[e]
    BY <2>1, <1>2
  <2>3. \A e \in Entries : Up(e)' = Up(e)
    BY DEF Up, ChildrenOf, Alive
  <2>4. Marked(f)
    BY <1>2, <1>3, <1>4, <2>1, <2>2, <2>3 DEF Marked, SameCounts
  <2> QED BY <1>2, <2>2, <2>3, <2>4
<1> QED BY <1>1, <1>5, <1>6

LEMMA StartMoves ==
    ASSUME SInv, Start, NEW e \in Entries
    PROVE  Moves(e)
<1>1. entry \in [Entries -> ModuleEntry] /\ StartFresh(entry)
  BY DEF Start, SInv, IInv, TypeOK
<1>2. PICK f \in Entries :
                /\ entry[f].status = "none" /\ (Marked(f) \/ Gains(f))
                /\ \A g \in Entries \ {f} : entry'[g] = entry[g] /\ Up(g)' = Up(g)
  BY <1>1, FreshMoves
<1> QED BY <1>2 DEF Moves, Kept

LEMMA RestartReturnsMoves ==
    ASSUME SInv, NEW c \in Callers, RestartReturns(c), NEW e \in Entries
    PROVE  Moves(e)
<1> DEFINE g == call[c].entry
           r == [entry[g] EXCEPT !.status = "stopped"]
           ents == IF call[c].pid = NoPid THEN entry
                   ELSE [entry EXCEPT ![g].status = "stopped"]
<1>1. /\ g \in Entries /\ entry[g] \in ModuleEntry /\ entry[g].status # "none"
      /\ entry \in [Entries -> ModuleEntry]
  BY DEF RestartReturns, SInv, IInv, TypeOK, Flagged
<1>8. r \in ModuleEntry
  BY <1>1, FlagTyped DEF Status
<1>2. /\ r.status = "stopped"
      /\ r.spawns = entry[g].spawns /\ r.aged = entry[g].aged
      /\ r.crashes = entry[g].crashes /\ r.stopRequested = entry[g].stopRequested
  BY <1>1 DEF ModuleEntry
<1>9. StartFresh(ents)
  BY DEF RestartReturns
<1>3. /\ ents \in [Entries -> ModuleEntry]
      /\ \A h \in Entries : ents[h] = entry[h] \/ (h = g /\ ents[h] = r)
  BY <1>1, <1>8
<1> HIDE DEF g, r, ents
<1>4. PICK f \in Entries :
                /\ entry[f].status = "none" /\ (Marked(f) \/ Gains(f))
                /\ \A h \in Entries \ {f} : entry'[h] = ents[h] /\ Up(h)' = Up(h)
  BY <1>3, <1>9, FreshMoves
<1>5. CASE e = f
  BY <1>4, <1>5 DEF Moves
<1>6. CASE e # f /\ ents[e] = entry[e]
  BY <1>4, <1>6 DEF Moves, Kept
<1>7. CASE e # f /\ e = g /\ ents[e] = r
  BY <1>2, <1>4, <1>7 DEF Moves, Marked, SameCounts, StopAsked
<1> QED BY <1>3, <1>5, <1>6, <1>7

-----------------------------------------------------------------------------
\* Processes that only end: no slot gains a child.
NoBirth == \A q \in Pids : Alive(q)' => Alive(q) /\ proc'[q].owner = proc[q].owner

LEMMA NoBirthEbbs ==
    ASSUME NoBirth, NEW e \in Entries
    PROVE  ChildrenOf(e)' \subseteq ChildrenOf(e) /\ (Up(e)' => Up(e))
BY DEF NoBirth, ChildrenOf, Up

LEMMA DiesMoves ==
    ASSUME IInv, NEW p \in Pids, Dies(p), NEW e \in Entries
    PROVE  Moves(e)
<1>1. NoBirth
  <2>1. \A q \in Pids : proc'[q] = proc[q] \/ ~Alive(q)'
    BY DEF Dies, Alive, IInv, TypeOK, Dead, Process
  <2> QED BY <2>1 DEF NoBirth, Alive
<1> QED BY <1>1, NoBirthEbbs DEF Moves, Kept, Dies

\* What leaves the entries alone and starts nothing.
LEMMA WorldMoves ==
    ASSUME IInv, NEW e \in Entries,
           \/ OutsiderMoves
           \/ \E p \in Pids : Binds(p) \/ RespawnDropped(p) \/ ExitAdopts(p)
           \/ UNCHANGED vars
    PROVE  Moves(e)
<1>1. NoBirth
  <2>1. \A p \in Pids : Binds(p) \/ RespawnDropped(p) \/ ExitAdopts(p) => NoBirth
    <3> SUFFICES ASSUME NEW p \in Pids, Binds(p) \/ RespawnDropped(p) \/ ExitAdopts(p)
                 PROVE  NoBirth
      OBVIOUS
    <3>1. \A q \in Pids \ {p} : proc'[q] = proc[q]
      BY DEF Binds, RespawnDropped, ExitAdopts, IInv, TypeOK
    <3>2. Alive(p)' => Alive(p) /\ proc'[p].owner = proc[p].owner
      <4>1. CASE Binds(p)
        BY <4>1 DEF Binds, IInv, TypeOK, Process, Alive
      <4>2. CASE RespawnDropped(p)
        BY <4>2 DEF RespawnDropped, IInv, TypeOK, Dead, Alive
      <4>3. CASE ExitAdopts(p)
        <5>1. proc[p] \in Process /\ proc \in [Pids -> Process]
          BY DEF IInv, TypeOK
        <5>2. [proc[p] EXCEPT !.at = "adopting", !.target = holder].at = "adopting"
          BY <5>1 DEF Process
        <5>3. proc'[p].at = "adopting"
          BY <4>3, <5>1, <5>2 DEF ExitAdopts
        <5> QED BY <5>3 DEF Alive
      <4> QED BY <4>1, <4>2, <4>3
    <3> QED BY <3>1, <3>2 DEF NoBirth, Alive
  <2>2. UNCHANGED proc => NoBirth
    BY DEF NoBirth, Alive
  <2> QED BY <2>1, <2>2 DEF OutsiderMoves, vars
<1>2. entry' = entry
  BY DEF OutsiderMoves, Binds, RespawnDropped, ExitAdopts, vars
<1> QED BY <1>1, <1>2, NoBirthEbbs DEF Moves, Kept

LEMMA GateMoves ==
    ASSUME SInv, NEW f \in Entries, Gate(f), NEW e \in Entries
    PROVE  Moves(e)
<1>1. PICK g \in {"off", "ready", "readyAsk", "late", "lateAsk"}, x \in StartError : SetGate(f, g, x)
  <2>1. entry[f].startError \in StartError
    <3>1. entry[f] \in ModuleEntry
      BY DEF SInv, IInv, TypeOK
    <3> QED BY <3>1, EntryFields DEF StartError
  <2> QED BY <2>1 DEF Gate, GatePoll, GateExpires, LatePoll, LateExpires, ProbeAnswers, StartError
<1>2. entry[f].status # "none"
  <2>1. entry[f].gate # "off"
    BY DEF Gate, GatePoll, GateExpires, LatePoll, LateExpires, ProbeAnswers
  <2>2. Blank.gate = "off"
    BY DEF Blank
  <2> QED BY <2>1, <2>2 DEF SInv, Unborn
<1> DEFINE r == [entry[f] EXCEPT !.gate = g, !.startError = x]
<1>3. entry[f] \in ModuleEntry
  BY DEF SInv, IInv, TypeOK
<1>4. r \in ModuleEntry
  BY <1>3, GateTyped
<1>5. /\ r.spawns = entry[f].spawns /\ r.crashes = entry[f].crashes /\ r.aged = entry[f].aged
      /\ r.stopRequested = entry[f].stopRequested /\ r.status # "none"
  BY <1>2, <1>3 DEF ModuleEntry
<1>6. entry' = [entry EXCEPT ![f] = r] /\ UNCHANGED proc
  BY <1>1 DEF SetGate
<1> HIDE DEF r
<1> QED BY <1>4, <1>5, <1>6, OverwriteMoves DEF SInv

LEMMA AgesMoves ==
    ASSUME SInv, NEW f \in Entries, StampAges(f), NEW e \in Entries
    PROVE  Moves(e)
<1> DEFINE r == [entry[f] EXCEPT !.crashes = entry[f].crashes - 1, !.aged = entry[f].aged + 1]
<1>1. entry[f] \in ModuleEntry /\ entry' = [entry EXCEPT ![f] = r] /\ UNCHANGED proc
      /\ entry[f].crashes > 0
  BY DEF StampAges, SInv, IInv, TypeOK
<1>2. /\ r.spawns = entry[f].spawns /\ r.crashes = entry[f].crashes - 1
      /\ r.aged = entry[f].aged + 1 /\ r.stopRequested = entry[f].stopRequested
      /\ r.status = entry[f].status
  BY <1>1 DEF ModuleEntry
<1> HIDE DEF r
<1>3. entry'[e] = IF e = f THEN r ELSE entry[e]
  BY <1>1 DEF SInv, IInv, TypeOK
<1>4. Up(e)' = Up(e)
  BY <1>1 DEF Up, ChildrenOf, Alive
<1> QED BY <1>1, <1>2, <1>3, <1>4 DEF Moves, Kept, Ages

LEMMA GoneMoves ==
    ASSUME IInv, HubDies \/ Collect, NEW e \in Entries
    PROVE  Moves(e)
<1>1. CASE HubDies
  <2>1. entry'[e] = Blank
    BY <1>1 DEF HubDies
  <2>2. \A p \in Pids : Alive(p)' => proc'[p].owner = NoEntry
    BY <1>1 DEF HubDies, Alive, Dead, IInv, TypeOK, Process
  <2>3. ChildrenOf(e)' = {}
    BY <2>2 DEF ChildrenOf
  <2> QED BY <2>1, <2>3 DEF Moves, Drops, Up
<1>2. CASE Collect
  <2>1. UNCHANGED proc /\ entry'[e] = IF e \in Garbage THEN Blank ELSE entry[e]
    BY <1>2 DEF Collect
  <2>2. ChildrenOf(e)' = ChildrenOf(e)
    BY <2>1 DEF ChildrenOf, Alive
  <2>3. e \in Garbage => ChildrenOf(e) = {}
    BY DEF Garbage, Reachable, ChildrenOf, Alive, Active
  <2> QED BY <2>1, <2>2, <2>3 DEF Moves, Drops, Kept, Up
<1> QED BY <1>1, <1>2

-----------------------------------------------------------------------------
\* handleExit of p, whose entry f has no live child.
LEMMA Handler ==
    ASSUME IInv, NEW p \in Pids, proc[p].at \in {"exited", "adopting", "backoff"}
    PROVE  /\ proc[p].owner \in Entries /\ entry[proc[p].owner] \in ModuleEntry
           /\ entry[proc[p].owner].proc = p
           /\ entry[proc[p].owner].status # "none" /\ ~Up(proc[p].owner)
<1>1. /\ proc[p].owner \in Entries /\ entry[proc[p].owner] \in ModuleEntry
      /\ entry[proc[p].owner].proc = p
      /\ entry[proc[p].owner].status # "none" /\ ~Alive(p)
  BY DEF IInv, TypeOK, Process, Owned, Active, Alive
<1> QED BY <1>1, NoChildWithoutProc DEF IInv, Up

LEMMA ExitEndsMoves ==
    ASSUME IInv, NEW p \in Pids, ExitStopped(p) \/ ExitBlocked(p), NEW e \in Entries
    PROVE  Moves(e)
<1> DEFINE f == proc[p].owner
           r1 == [entry[f] EXCEPT !.status = "stopped"]
           r2 == [entry[f] EXCEPT !.status = "crashed", !.startError = "port_squatter"]
<1>1. proc[p].at = "exited"
  BY DEF ExitStopped, ExitBlocked, Squatted
<1>2. f \in Entries /\ entry[f] \in ModuleEntry /\ entry[f].status # "none" /\ ~Up(f)
  BY <1>1, Handler
<1>3. /\ r1.spawns = entry[f].spawns /\ r1.crashes = entry[f].crashes
      /\ r1.aged = entry[f].aged /\ r1.stopRequested = entry[f].stopRequested
      /\ r1.status = "stopped"
      /\ r2.spawns = entry[f].spawns /\ r2.crashes = entry[f].crashes
      /\ r2.aged = entry[f].aged /\ r2.stopRequested = entry[f].stopRequested
      /\ r2.status = "crashed"
  BY <1>2 DEF ModuleEntry
<1>4. entry' = [entry EXCEPT ![f] = r1] \/ entry' = [entry EXCEPT ![f] = r2]
  BY DEF ExitStopped, ExitBlocked
<1> HIDE DEF f, r1, r2
<1>5. e # f => entry'[e] = entry[e]
  BY <1>4 DEF IInv, TypeOK
<1>6. entry'[f] \in {r1, r2}
  BY <1>2, <1>4 DEF IInv, TypeOK
<1>7. NoBirth
  <2>1. proc' = [proc EXCEPT ![p] = Dead] /\ Dead.at = "dead"
    BY DEF ExitStopped, ExitBlocked, Dead
  <2> QED BY <2>1 DEF NoBirth, Alive, IInv, TypeOK
<1>8. Up(e)' => Up(e)
  BY <1>7, NoBirthEbbs
<1>9. CASE e # f
  BY <1>5, <1>8, <1>9 DEF Moves, Kept
<1>10. CASE e = f
  <2>1. /\ SameCounts(e) /\ entry'[e].status # "none"
        /\ entry'[e].stopRequested = entry[e].stopRequested
    BY <1>3, <1>6, <1>10 DEF SameCounts
  <2>2. Up(e)' = Up(e)
    BY <1>2, <1>8, <1>10 DEF Up
  <2> QED BY <2>1, <2>2 DEF Moves, Marked, StopAsked
<1> QED BY <1>9, <1>10

LEMMA CountedMoves ==
    ASSUME IInv, NEW p \in Pids, proc[p].at \in {"exited", "adopting"},
           NEW procs, CrashCounted(p, procs), NoBirth, NEW e \in Entries
    PROVE  Moves(e)
<1> DEFINE f == proc[p].owner
           n == entry[f].crashes + 1
           s == IF n >= MaxRestarts THEN "crashed" ELSE "restarting"
           r == [entry[f] EXCEPT !.crashes = n, !.status = s]
<1>1. f \in Entries /\ entry[f] \in ModuleEntry /\ entry[f].status # "none" /\ ~Up(f)
  BY Handler
<1>2. entry[f].spawns = entry[f].crashes + entry[f].aged + 1
  <2>1. Active(p) /\ f # NoEntry /\ proc[p].at # "backoff"
    BY <1>1 DEF Active
  <2>2. entry[f].crashes \in Nat /\ entry[f].aged \in Nat
    BY <1>1, EntryFields
  <2> QED BY <2>1, <2>2 DEF IInv, Counted
<1>3. entry' = [entry EXCEPT ![f] = r]
  BY DEF CrashCounted
<1>4. /\ r.spawns = entry[f].spawns /\ r.crashes = entry[f].crashes + 1
      /\ r.aged = entry[f].aged /\ r.stopRequested = entry[f].stopRequested
      /\ r.status # "none"
  BY <1>1 DEF ModuleEntry
<1> HIDE DEF f, r
<1>5. entry'[e] = IF e = f THEN r ELSE entry[e]
  BY <1>1, <1>3 DEF IInv, TypeOK
<1> QED BY <1>1, <1>2, <1>4, <1>5, NoBirthEbbs DEF Moves, Kept, Crashes, StopAsked

LEMMA CrashMoves ==
    ASSUME IInv, NEW p \in Pids, ExitCrashed(p) \/ AdoptKills(p) \/ AdoptReturns(p),
           NEW e \in Entries
    PROVE  Moves(e)
<1>1. PICK procs : /\ CrashCounted(p, procs)
                   /\ \A q \in Pids : procs[q] = proc[q] \/ procs[q].at \in {"dead", "exited"}
                   /\ procs \in [Pids -> Process]
  <2>1. CASE ExitCrashed(p) \/ AdoptReturns(p)
    BY <2>1 DEF ExitCrashed, AdoptReturns, IInv, TypeOK
  <2>2. CASE AdoptKills(p)
    <3>1. PICK procs \in [Pids -> Process] :
              /\ CrashCounted(p, procs)
              /\ \A q \in Pids : \/ procs[q] = proc[q] \/ procs[q] = Dead
                                \/ procs[q].at = "exited"
      BY <2>2, AdoptKilled DEF IInv
    <3> QED BY <3>1 DEF Dead
  <2> QED BY <2>1, <2>2
<1>2. NoBirth
  <2>1. PICK d : proc' = [procs EXCEPT ![p] = d] /\ d.at \in {"dead", "backoff"}
    <3>1. Dead.at = "dead"
      BY DEF Dead
    <3> DEFINE d == [procs[p] EXCEPT !.at = "backoff", !.target = NoPid]
    <3>2. d.at = "backoff"
      BY <1>1 DEF Process
    <3>3. proc' = [procs EXCEPT ![p] = Dead] \/ proc' = [procs EXCEPT ![p] = d]
      BY <1>1 DEF CrashCounted
    <3> HIDE DEF d
    <3> QED BY <3>1, <3>2, <3>3
  <2>2. \A q \in Pids : proc'[q] = proc[q] \/ proc'[q].at \in {"dead", "exited", "backoff"}
    BY <1>1, <2>1
  <2> QED BY <2>2 DEF NoBirth, Alive
<1>3. proc[p].at \in {"exited", "adopting"}
  BY DEF ExitCrashed, AdoptKills, AdoptReturns
<1> QED BY <1>1, <1>2, <1>3, CountedMoves

LEMMA RespawnMoves ==
    ASSUME IInv, NEW p \in Pids, Respawn(p), NEW e \in Entries
    PROVE  Moves(e)
<1>0. PICK f \in Entries : f = proc[p].owner
  BY Handler DEF Respawn
<1>1. /\ f \in Entries /\ entry[f] \in ModuleEntry /\ entry[f].status # "none"
      /\ ~Up(f) /\ ~StopAsked(f) /\ proc[p].at = "backoff"
  BY <1>0, Handler DEF Respawn
<1>2. PICK q \in FreePids : SpawnAndWatch(f, entry[f], q, entry, [proc EXCEPT ![p] = Dead])
  BY <1>0 DEF Respawn
<1>3. q \in Pids /\ ~Active(q) /\ p # q
  BY <1>1, <1>2, FreePid DEF Active
<1> DEFINE r == [entry[f] EXCEPT !.status = "running", !.startError = "none", !.proc = q,
                                 !.spawns = entry[f].spawns + 1]
           b == [owner |-> f, at |-> "booting", target |-> NoPid]
<1>4. /\ r.spawns = entry[f].spawns + 1 /\ r.crashes = entry[f].crashes
      /\ r.aged = entry[f].aged /\ r.stopRequested = entry[f].stopRequested
      /\ r.status = "running"
  BY <1>1 DEF ModuleEntry
<1>5. entry[f].spawns < MaxRestarts + entry[f].aged
  <2>1. Active(p) /\ f # NoEntry
    BY <1>1 DEF Active
  <2>2. entry[f].crashes < MaxRestarts /\ entry[f].spawns = entry[f].crashes + entry[f].aged + 0
    BY <1>0, <1>1, <2>1 DEF IInv, Counted
  <2>3. entry[f].crashes \in Nat /\ entry[f].aged \in Nat
    BY <1>1, EntryFields
  <2> QED BY <2>2, <2>3
<1>6. entry' = [entry EXCEPT ![f] = r]
  BY <1>2 DEF SpawnAndWatch
<1>7. \A x \in Pids : proc'[x] = IF x = q THEN b ELSE IF x = p THEN Dead ELSE proc[x]
  BY <1>2, <1>3 DEF SpawnAndWatch, IInv, TypeOK
<1>8. b.at = "booting" /\ b.owner = f /\ Dead.at = "dead"
  BY DEF Dead
<1> HIDE DEF r, b
<1>9. entry'[e] = IF e = f THEN r ELSE entry[e]
  BY <1>1, <1>6 DEF IInv, TypeOK
<1>10. q \in ChildrenOf(f)'
  <2>1. proc'[q].at = "booting" /\ proc'[q].owner = f
    BY <1>3, <1>7, <1>8
  <2> QED BY <2>1, <1>3 DEF ChildrenOf, Alive
<1>11. e # f => ChildrenOf(e)' \subseteq ChildrenOf(e)
  <2> SUFFICES ASSUME e # f, NEW x \in Pids, Alive(x)', proc'[x].owner = e
               PROVE  Alive(x) /\ proc[x].owner = e
    BY DEF ChildrenOf
  <2> QED BY <1>7, <1>8 DEF Alive
<1>12. CASE e # f
  BY <1>9, <1>11, <1>12 DEF Moves, Kept, Up
<1>13. CASE e = f
  <2>1. entry'[f] = r
    BY <1>9, <1>13
  <2>2. ~StopAsked(f)' /\ Up(f)'
    BY <1>1, <1>4, <1>10, <2>1 DEF StopAsked, Up
  <2>3. Gains(f)
    BY <1>1, <1>4, <1>5, <2>1, <2>2 DEF Gains
  <2> QED BY <2>3, <1>13 DEF Moves
<1> QED BY <1>12, <1>13

-----------------------------------------------------------------------------
\* The steps together.
LEMMA NextMoves ==
    ASSUME SInv, [Next]_vars, NEW e \in Entries
    PROVE  Moves(e)
<1>1. IInv
  BY DEF SInv
<1>2. CASE Start
  BY <1>2, StartMoves
<1>3. ASSUME NEW c \in Callers, Operator(c) PROVE Moves(e)
  <2>1. CASE KillTimeout(c)
    <3>1. call[c].pid \in Pids
      BY <1>1, <2>1 DEF KillTimeout, IInv, TypeOK, Call
    <3> QED BY <1>1, <2>1, <3>1, DiesMoves DEF KillTimeout
  <2> QED BY <1>1, <1>3, <2>1, StopMoves, RestartReturnsMoves DEF Operator
<1>4. ASSUME NEW p \in Pids, HandleExit(p) PROVE Moves(e)
  BY <1>1, <1>4, ExitEndsMoves, CrashMoves, RespawnMoves, WorldMoves DEF HandleExit
<1>5. ASSUME NEW p \in Pids, Dies(p) \/ Binds(p) PROVE Moves(e)
  BY <1>1, <1>5, DiesMoves, WorldMoves
<1>6. ASSUME NEW f \in Entries, Gate(f) \/ StampAges(f) PROVE Moves(e)
  BY <1>6, GateMoves, AgesMoves
<1>7. CASE OutsiderMoves \/ HubDies \/ Collect \/ UNCHANGED vars
  BY <1>1, <1>7, WorldMoves, GoneMoves
<1> QED BY <1>2, <1>3, <1>4, <1>5, <1>6, <1>7 DEF Next

LEMMA CountsTyped ==
    ASSUME TypeOK, NEW e \in Entries
    PROVE  /\ entry[e].crashes \in Nat /\ entry[e].aged \in Nat /\ entry[e].spawns \in Nat
BY EntryFields DEF TypeOK

LEMMA SInvStep == SInv /\ [Next]_vars => SInv'
<1> SUFFICES ASSUME SInv, [Next]_vars PROVE SInv'
  OBVIOUS
<1>1. IInv'
  BY IInvStep DEF SInv
<1>2. ASSUME NEW e \in Entries
      PROVE  /\ entry'[e].crashes + entry'[e].aged <= entry'[e].spawns
             /\ entry'[e].status = "none" => entry'[e] = Blank
  <2>1. Moves(e)
    BY NextMoves
  <2>2. /\ entry[e].crashes + entry[e].aged <= entry[e].spawns
        /\ entry[e].status = "none" => entry[e] = Blank
    BY DEF SInv, Spawned, Unborn
  <2>3. entry[e].crashes \in Nat /\ entry[e].aged \in Nat /\ entry[e].spawns \in Nat
    BY CountsTyped DEF SInv, IInv
  <2>4. Blank.crashes = 0 /\ Blank.aged = 0 /\ Blank.spawns = 0
    BY DEF Blank
  <2> QED BY <2>1, <2>2, <2>3, <2>4 DEF Moves, Kept, Marked, SameCounts, Crashes, Ages, Gains, Drops
<1> QED BY <1>1, <1>2 DEF SInv, Spawned, Unborn

LEMMA SInvInit == Init => SInv
<1> SUFFICES ASSUME Init PROVE SInv
  OBVIOUS
<1>1. \A e \in Entries : entry[e] = Blank
  BY DEF Init
<1>2. Blank.crashes = 0 /\ Blank.aged = 0 /\ Blank.spawns = 0
  BY DEF Blank
<1> QED BY <1>1, <1>2, IInvInit DEF SInv, Spawned, Unborn

-----------------------------------------------------------------------------
\* One entry's step is a step of its slot, or none.
LEMMA SlotStep ==
    ASSUME SInv, SInv', [Next]_vars, NEW e \in Entries
    PROVE  Abstract!Same(e) \/ Abstract!Step(e)
<1> DEFINE s == entry[e].status = "stopped"
<1>1. Moves(e)
  BY NextMoves
<1>2. (s => StopAsked(e) /\ ~Up(e)) /\ (s' => StopAsked(e)' /\ ~Up(e)')
  BY DEF SInv, IInv, StoppedIsFlagged, Up
<1>3. /\ entry[e].crashes \in Nat /\ entry[e].aged \in Nat /\ entry[e].spawns \in Nat
      /\ entry[e].crashes + entry[e].aged <= entry[e].spawns
      /\ MaxRestarts \in Nat
  BY CountsTyped DEF SInv, IInv, Spawned
<1>4. CASE Kept(e)
  <2>1. s' = s /\ StopAsked(e)' = StopAsked(e) /\ Credit(e)' = Credit(e)
    BY <1>4 DEF Kept, StopAsked, Credit
  <2> QED BY <1>4, <2>1 DEF Kept, Up, Abstract!Same, Abstract!Step, Abstract!Exits
<1>5. CASE Marked(e) \/ Crashes(e)
  <2>1. /\ Up(e)' = Up(e) /\ Credit(e)' = Credit(e)
        /\ StopAsked(e) => StopAsked(e)'
    BY <1>5 DEF Marked, SameCounts, Crashes, Credit, Up
  <2>2. CASE s' = s /\ StopAsked(e)' = StopAsked(e)
    BY <2>1, <2>2 DEF Up, Abstract!Same
  <2>3. CASE ~StopAsked(e) /\ StopAsked(e)'
    <3>1. s' => ~Up(e)
      BY <1>2, <2>1
    <3> QED BY <2>1, <2>3, <3>1 DEF Up, Abstract!Step, Abstract!Ask
  <2>4. CASE s' # s /\ StopAsked(e)' = StopAsked(e)
    <3>1. StopAsked(e) /\ StopAsked(e)' /\ ~Up(e)
      BY <1>2, <2>1, <2>4
    <3> QED BY <2>1, <2>4, <3>1 DEF Up, Abstract!Step, Abstract!Report
  <2> QED BY <2>1, <2>2, <2>3, <2>4 DEF StopAsked
<1>6. CASE Ages(e)
  <2>1. /\ Up(e)' = Up(e) /\ StopAsked(e)' = StopAsked(e) /\ s' = s
    BY <1>6 DEF Ages, StopAsked
  <2>2. Credit(e) < MaxRestarts /\ Credit(e)' = Credit(e) + 1
    BY <1>3, <1>6 DEF Ages, Credit
  <2> QED BY <2>1, <2>2 DEF Up, Abstract!Step, Abstract!Refill
<1>7. CASE Gains(e)
  <2>1. Credit(e) > 0 /\ Credit(e)' = Credit(e) - 1
    BY <1>3, <1>7 DEF Gains, Credit
  <2>2. ~s'
    BY <1>7 DEF Gains
  <2> QED BY <1>7, <2>1, <2>2 DEF Gains, Up, Abstract!Step, Abstract!Spawn
<1>8. CASE Drops(e)
  <2>1. ~s' /\ ~StopAsked(e)' /\ Credit(e)' = MaxRestarts
    BY <1>3, <1>8 DEF Drops, Blank, StopAsked, Credit
  <2> QED BY <1>8, <2>1 DEF Drops, Up, Abstract!Step, Abstract!Forget, Abstract!Fresh
<1> QED BY <1>1, <1>4, <1>5, <1>6, <1>7, <1>8 DEF Moves

\* Every behaviour of the supervisor is one of the slots: a child only for an
\* entry that has none and that nobody has asked to stop, out of its budget.
THEOREM Refinement == Spec => SlotsKept
<1>1. Init => Abstract!Init
  <2> SUFFICES ASSUME Init PROVE Abstract!Init
    OBVIOUS
  <2>1. \A e \in Entries : entry[e] = Blank
    BY DEF Init
  <2>2. /\ Blank.stopRequested = "unset" /\ Blank.status = "none"
        /\ Blank.aged = 0 /\ Blank.spawns = 0 /\ Blank.proc = NoPid /\ NoPid \notin Pids
    BY DEF Blank
  <2>3. \A e \in Entries : ChildrenOf(e) = {}
    BY <2>1, <2>2, SInvInit, NoChildWithoutProc DEF SInv, IInv
  <2>4. \A e \in Entries : Credit(e) = MaxRestarts /\ ~StopAsked(e)
    BY <2>1, <2>2 DEF Credit, StopAsked
  <2>5. \A e \in Entries : /\ (ChildrenOf(e) # {}) = FALSE /\ StopAsked(e) = FALSE
                           /\ (entry[e].status = "stopped") = FALSE
    <3> SUFFICES ASSUME NEW e \in Entries
                 PROVE  /\ (ChildrenOf(e) # {}) = FALSE /\ StopAsked(e) = FALSE
                        /\ (entry[e].status = "stopped") = FALSE
      OBVIOUS
    <3>1. StopAsked(e) = FALSE
      BY <2>1, <2>2 DEF StopAsked
    <3>2. (entry[e].status = "stopped") = FALSE
      BY <2>1, <2>2
    <3>3. (ChildrenOf(e) # {}) = FALSE
      BY <2>3
    <3> QED BY <3>1, <3>2, <3>3
  <2> QED BY <2>4, <2>5, Zenon DEF Abstract!Init
<1>2. SInv /\ SInv' /\ [Next]_vars => [Abstract!Next]_(Abstract!slots)
  BY SlotStep DEF Abstract!Next
<1>3. Spec => []SInv
  BY SInvInit, SInvStep, PTL DEF Spec
<1> QED BY <1>1, <1>2, <1>3, PTL DEF SlotsKept, Spec, Abstract!Spec
=============================================================================
