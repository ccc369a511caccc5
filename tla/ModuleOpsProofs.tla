--------------------------- MODULE ModuleOpsProofs ---------------------------
(***************************************************************************)
(* Theorems about ModuleOps for any number of requests, releases and       *)
(* deaths of the hub.                                                      *)
(***************************************************************************)
EXTENDS ModuleOps, TLAPS

USE OpsAssumption

-----------------------------------------------------------------------------
\* What a request waits for, by its kind.
PlaceOf(c) ==
    /\ IF c.at = "new" THEN c.kind = "none" ELSE c.kind \in Kinds
    /\ c.at = "resolving" => c.kind \in {"start", "restart", "upgrade"} /\ c.row # NoRow
    /\ c.at = "adding" => c.kind \in {"install", "upgrade"}
    /\ c.at \in {"seeding", "composing"} => c.kind = "install"
    /\ c.at = "stopping" => c.kind \in {"restart", "upgrade", "replay", "stop", "uninstall"}
    /\ c.at = "removing" => c.kind = "uninstall"
    /\ c.at = "refreshing" => c.kind \in {"install", "upgrade", "replay", "uninstall"}

Places ==
    /\ \A r \in Requests : PlaceOf(request[r])
    /\ hub = "down" => \A r \in Requests : ~InFlight(r)

\* Requests that are in flight together are on record, and only such.
Paired ==
    /\ \A r \in Requests, q \in Requests : r # q /\ InFlight(r) /\ InFlight(q) => {r, q} \in overlap
    /\ \A pair \in overlap : \A r \in pair : r \in Requests /\ request[r].at # "new"

Unsettled == \A r \in Requests : /\ request[r].at = "new" => op[r] = "none"
                                 /\ InFlight(r) => op[r] \in {"none", "running"}

\* A request that will run the module from the row it found.
FromRow(c) == c.at = "resolving" \/ (c.at = "stopping" /\ c.kind \in {"restart", "upgrade"})

Excuse == \E r \in Requests : \/ request[r].kind = "replay"
                              \/ request[r].kind # "stop" /\ Beside(r, {"uninstall"})

\* A module that runs, or is about to, has a row, or there is an excuse.
Strays ==
    /\ row = NoRow /\ (ChildUp \/ \E r \in Requests : FromRow(request[r])) => Excuse
    /\ \A r \in Requests : request[r].at = "stopping" /\ request[r].kind = "uninstall"
                           /\ request[r].gen # sup.gen => Excuse
    /\ sup.status = "restarting"
          => \E r \in Requests : request[r].at = "stopping"
                                 /\ request[r].kind \in {"restart", "upgrade", "replay"}
    /\ \A r \in Requests : request[r].kind = "install" /\ request[r].at = "refreshing"
                           /\ row = NoRow => Beside(r, {"uninstall"})

Clean == \A r \in Requests :
            /\ request[r].kind # "replay"
            /\ request[r].kind \in {"install", "upgrade", "uninstall"}
                  => ~Beside(r, Kinds \ {"stop"})

\* Without a replay or a clash, what runs is what the row names, or is being
\* replaced by it.
Stamps ==
    Clean =>
        /\ \A r \in Requests : FromRow(request[r]) => request[r].row.dir = row.dir
        /\ \A r \in Requests : request[r].kind = "install"
                               /\ request[r].at \in {"adding", "seeding", "composing"} => ~ChildUp
        /\ ChildUp => \/ sup.dir = row.dir
                      \/ \E r \in Requests : /\ request[r].kind = "upgrade"
                                             /\ request[r].at \in {"resolving", "stopping"}

IInv == TypeOK /\ Places /\ Paired /\ Unsettled /\ Strays /\ Stamps

-----------------------------------------------------------------------------
\* Request r goes on as c: it begins, or it was in flight.
Moved(r, c) ==
    /\ request' = [request EXCEPT ![r] = c] /\ PlaceOf(c) /\ c.at # "new"
    /\ hub = "up" /\ UNCHANGED <<hub, hubDeaths>>
    /\ \/ /\ InFlight(r) /\ overlap' = overlap
          /\ c.kind = request[r].kind \/ (c.kind = "replay" /\ request[r].kind = "upgrade")
       \/ /\ request[r].at = "new"
          /\ overlap' = overlap \cup {{r, q} : q \in {p \in Requests : InFlight(p)}}

LEMMA MovedOthers ==
    ASSUME TypeOK, NEW r \in Requests, NEW c \in Request, Moved(r, c)
    PROVE  /\ request' \in [Requests -> Request] /\ request'[r] = c
           /\ \A q \in Requests : q # r => request'[q] = request[q]
BY DEF TypeOK, Moved

LEMMA MovedPairs ==
    ASSUME TypeOK, Places, Paired, NEW r \in Requests, NEW c \in Request, Moved(r, c)
    PROVE  /\ Places' /\ Paired' /\ overlap \subseteq overlap' /\ overlap' \subseteq SUBSET Requests
           /\ \A q \in Requests : q # r /\ InFlight(q) => {r, q} \in overlap' /\ {q, r} \in overlap'
<1>1. /\ request' \in [Requests -> Request] /\ request'[r] = c
      /\ \A q \in Requests : q # r => request'[q] = request[q]
  BY MovedOthers
<1>2. Places'
  BY <1>1 DEF Places, Moved, InFlight
<1>3. overlap \subseteq overlap' /\ overlap' \subseteq SUBSET Requests
  BY DEF Moved, TypeOK
<1>4. ASSUME NEW q \in Requests, q # r, InFlight(q) PROVE {r, q} \in overlap' /\ {q, r} \in overlap'
  <2>1. {r, q} = {q, r}
    OBVIOUS
  <2>2. {r, q} \in overlap'
    BY <1>4 DEF Moved, Paired
  <2> QED BY <2>1, <2>2
<1>5. Paired'
  <2>1. ASSUME NEW p \in Requests, NEW q \in Requests, p # q, InFlight(p)', InFlight(q)'
        PROVE  {p, q} \in overlap'
    <3>1. CASE p = r
      BY <1>1, <1>4, <2>1, <3>1 DEF InFlight
    <3>2. CASE q = r
      BY <1>1, <1>4, <2>1, <3>2 DEF InFlight
    <3>3. CASE p # r /\ q # r
      BY <1>1, <1>3, <2>1, <3>3 DEF InFlight, Paired
    <3> QED BY <3>1, <3>2, <3>3
  <2>2. ASSUME NEW pair \in overlap', NEW p \in pair
        PROVE  p \in Requests /\ request'[p].at # "new"
    <3>1. p \in Requests /\ (p = r \/ request[p].at # "new")
      BY <2>2 DEF Moved, Paired, InFlight
    <3> QED BY <1>1, <3>1 DEF Moved
  <2> QED BY <2>1, <2>2 DEF Paired
<1> QED BY <1>2, <1>3, <1>4, <1>5

\* An excuse stays one, a clash stays one, and the excuses are clashes or replays.
LEMMA MovedHistory ==
    ASSUME TypeOK, Places, Paired, NEW r \in Requests, NEW c \in Request, Moved(r, c)
    PROVE  /\ Excuse => Excuse'
           /\ Clean' => Clean
           /\ c.kind = "replay" => Excuse' /\ ~Clean'
           /\ \A q \in Requests : Beside(q, {"uninstall"}) => Beside(q, {"uninstall"})'
           /\ \A q \in Requests : q # r /\ InFlight(q) =>
                 /\ c.kind = "uninstall" => Beside(q, {"uninstall"})'
                 /\ c.kind = "uninstall" /\ request[q].kind # "stop" => Excuse'
                 /\ request[q].kind = "uninstall" /\ c.kind # "stop" => Excuse'
                 /\ c.kind \in {"install", "upgrade", "uninstall"} /\ request[q].kind # "stop" => ~Clean'
                 /\ request[q].kind \in {"install", "upgrade", "uninstall"} /\ c.kind # "stop" => ~Clean'
<1>1. /\ request' \in [Requests -> Request] /\ request'[r] = c
      /\ \A q \in Requests : q # r => request'[q] = request[q]
  BY MovedOthers
<1>2. /\ Places' /\ Paired' /\ overlap \subseteq overlap'
      /\ \A q \in Requests : q # r /\ InFlight(q) => {r, q} \in overlap' /\ {q, r} \in overlap'
  BY MovedPairs
<1>3. c.kind = "replay" => Excuse' /\ ~Clean'
  BY <1>1 DEF Excuse, Clean
<1>4. ASSUME NEW p \in Requests, NEW q \in Requests, p # q, {p, q} \in overlap
      PROVE  /\ {p, q} \in overlap'
             /\ request'[p].kind \in {request[p].kind, "replay"}
             /\ request'[q].kind \in {request[q].kind, "replay"}
  <2>1. request[p].at # "new" /\ request[q].at # "new"
    BY <1>4 DEF Paired
  <2> QED BY <1>1, <1>2, <1>4, <2>1 DEF Moved
<1>5. ASSUME NEW q \in Requests, Beside(q, {"uninstall"}) PROVE Beside(q, {"uninstall"})'
  <2>1. PICK p \in Requests \ {q} : {q, p} \in overlap /\ request[p].kind = "uninstall"
    BY <1>5 DEF Beside
  <2>2. request'[p].kind = "uninstall"
    <3>1. CASE p = r
      <4>1. request[p].at # "new"
        BY <2>1 DEF Paired
      <4> QED BY <1>1, <2>1, <3>1, <4>1 DEF Moved, Places, PlaceOf, InFlight
    <3> QED BY <1>1, <2>1, <3>1
  <2> QED BY <1>2, <2>1, <2>2 DEF Beside
<1>6. Excuse => Excuse'
  <2>1. SUFFICES ASSUME NEW q \in Requests, request[q].kind = "replay"
                                            \/ (request[q].kind # "stop" /\ Beside(q, {"uninstall"}))
                 PROVE  Excuse'
    BY DEF Excuse
  <2>2. CASE request[q].kind = "replay"
    <3>1. request[q].at # "new"
      BY <2>2 DEF Places, PlaceOf
    <3>2. request'[q].kind = "replay"
      BY <1>1, <2>2, <3>1 DEF Moved
    <3> QED BY <3>2 DEF Excuse
  <2>3. CASE request[q].kind # "stop" /\ Beside(q, {"uninstall"})
    <3>1. PICK p \in Requests \ {q} : {q, p} \in overlap /\ request[p].kind = "uninstall"
      BY <2>3 DEF Beside
    <3>2. request'[q].kind # "stop"
      BY <1>4, <2>3, <3>1
    <3> QED BY <1>5, <2>3, <3>2 DEF Excuse
  <2> QED BY <2>1, <2>2, <2>3
<1>7. Clean' => Clean
  <2>1. SUFFICES ASSUME Clean', NEW q \in Requests
                 PROVE  /\ request[q].kind # "replay"
                        /\ request[q].kind \in {"install", "upgrade", "uninstall"}
                              => ~Beside(q, Kinds \ {"stop"})
    BY DEF Clean
  <2>2. \A p \in Requests : request'[p].kind # "replay"
    BY <2>1 DEF Clean
  <2>3. request[q].kind # "replay"
    <3>1. CASE request[q].at = "new"
      BY <3>1 DEF Places, PlaceOf
    <3>2. CASE request[q].at # "new"
      BY <1>1, <2>2, <3>2 DEF Moved
    <3> QED BY <3>1, <3>2
  <2>4. ASSUME request[q].kind \in {"install", "upgrade", "uninstall"}, Beside(q, Kinds \ {"stop"})
        PROVE  FALSE
    <3>1. PICK p \in Requests \ {q} : {q, p} \in overlap /\ request[p].kind \in Kinds \ {"stop"}
      BY <2>4 DEF Beside
    <3>2. /\ {q, p} \in overlap' /\ request'[q].kind = request[q].kind
          /\ request'[p].kind = request[p].kind
      BY <1>4, <2>2, <3>1
    <3> QED BY <2>1, <2>4, <3>1, <3>2 DEF Clean, Beside
  <2> QED BY <2>3, <2>4
<1>8. ASSUME NEW q \in Requests, q # r, InFlight(q)
      PROVE  /\ c.kind = "uninstall" => Beside(q, {"uninstall"})'
             /\ c.kind = "uninstall" /\ request[q].kind # "stop" => Excuse'
             /\ request[q].kind = "uninstall" /\ c.kind # "stop" => Excuse'
             /\ c.kind \in {"install", "upgrade", "uninstall"} /\ request[q].kind # "stop" => ~Clean'
             /\ request[q].kind \in {"install", "upgrade", "uninstall"} /\ c.kind # "stop" => ~Clean'
  <2>1. {r, q} \in overlap' /\ {q, r} \in overlap' /\ request'[q] = request[q]
    BY <1>1, <1>2, <1>8
  <2>2. c.kind \in Kinds /\ request[q].kind \in Kinds
    BY <1>8 DEF Moved, Places, PlaceOf, InFlight
  <2>3. c.kind = "uninstall" => Beside(q, {"uninstall"})'
    BY <1>1, <1>8, <2>1 DEF Beside
  <2>4. request[q].kind = "uninstall" => Beside(r, {"uninstall"})'
    BY <1>1, <1>8, <2>1 DEF Beside
  <2>5. request[q].kind # "stop" => Beside(r, Kinds \ {"stop"})'
    BY <1>1, <1>8, <2>1, <2>2 DEF Beside
  <2>6. c.kind # "stop" => Beside(q, Kinds \ {"stop"})'
    BY <1>1, <1>8, <2>1, <2>2 DEF Beside
  <2> QED BY <1>1, <2>1, <2>3, <2>4, <2>5, <2>6 DEF Excuse, Clean
<1> QED BY <1>3, <1>5, <1>6, <1>7, <1>8

LEMMA ExcuseIsNotClean == ASSUME Places, Paired, Excuse PROVE ~Clean
<1>1. PICK r \in Requests : request[r].kind = "replay"
                            \/ (request[r].kind # "stop" /\ Beside(r, {"uninstall"}))
  BY DEF Excuse
<1>2. CASE request[r].kind = "replay"
  BY <1>2 DEF Clean
<1>3. CASE request[r].kind # "stop" /\ Beside(r, {"uninstall"})
  <2>1. PICK q \in Requests \ {r} : {r, q} \in overlap /\ request[q].kind = "uninstall"
    BY <1>3 DEF Beside
  <2>2. {r, q} = {q, r} /\ request[r].at # "new" /\ request[r].kind \in Kinds \ {"stop"}
    BY <1>3, <2>1 DEF Paired, Places, PlaceOf
  <2>3. Beside(q, Kinds \ {"stop"})
    BY <2>1, <2>2 DEF Beside
  <2> QED BY <2>1, <2>3 DEF Clean
<1> QED BY <1>1, <1>2, <1>3

-----------------------------------------------------------------------------
Starts(k) == k \in {"restart", "upgrade", "replay"}

\* Before its entry is spawned an install finds nothing running.
Installing(c) == c.kind = "install" /\ c.at \in {"adding", "seeding", "composing"}

\* An upgrade between its stamp and its restart.
Upgrading(c) == c.kind = "upgrade" /\ c.at \in {"resolving", "stopping"}

\* One request goes on; the row and the entry change as a request may change them.
LEMMA RequestStep ==
    ASSUME IInv, NEW r \in Requests, NEW c \in Request, Moved(r, c),
           row' \in Row \cup {NoRow}, package' \in Dirs, sup' \in Entry,
           op' \in [Requests -> {"none", "running", "succeeded", "failed", "lost"}],
           \A q \in Requests : q # r => op'[q] = op[q],
           c.at # "done" => op'[r] \in {"none", "running"},
           row' = NoRow => row = NoRow \/ c.kind = "uninstall",
           sup'.gen = sup.gen \/ c.kind \notin {"stop", "uninstall"},
           row = NoRow /\ row' = NoRow /\ ChildUp' => ChildUp \/ FromRow(request[r]) \/ Excuse',
           row' = NoRow /\ FromRow(c) => Excuse',
           row # NoRow /\ row' = NoRow /\ ChildUp' => Excuse',
           c.at = "stopping" /\ c.kind = "uninstall" => c.gen = sup'.gen,
           sup'.status = "restarting" => \/ c.at = "stopping" /\ Starts(c.kind)
                                         \/ /\ sup.status = "restarting"
                                            /\ ~(request[r].at = "stopping" /\ Starts(request[r].kind)),
           c.kind = "install" /\ c.at = "refreshing" => row' # NoRow,
           Clean' => row'.dir = row.dir \/ c.kind \in {"install", "upgrade", "uninstall"},
           Clean' /\ FromRow(c) => c.row.dir = row'.dir,
           ChildUp' => ChildUp \/ c.kind # "stop",
           Clean' /\ Installing(c) => ~ChildUp',
           Clean' /\ ChildUp' => \/ sup'.dir = row'.dir
                                 \/ Upgrading(c)
                                 \/ /\ ChildUp /\ sup'.dir = sup.dir /\ row'.dir = row.dir
                                    /\ ~Upgrading(request[r])
    PROVE  IInv'
<1> USE DEF IInv
<1>1. /\ request' \in [Requests -> Request] /\ request'[r] = c
      /\ \A q \in Requests : q # r => request'[q] = request[q]
  BY MovedOthers
<1>2. /\ Places' /\ Paired' /\ overlap \subseteq overlap' /\ overlap' \subseteq SUBSET Requests
      /\ \A q \in Requests : q # r /\ InFlight(q) => {r, q} \in overlap' /\ {q, r} \in overlap'
  BY MovedPairs
<1>3. /\ Excuse => Excuse'
      /\ Clean' => Clean
      /\ c.kind = "replay" => Excuse' /\ ~Clean'
      /\ \A q \in Requests : Beside(q, {"uninstall"}) => Beside(q, {"uninstall"})'
      /\ \A q \in Requests : q # r /\ InFlight(q) =>
            /\ c.kind = "uninstall" => Beside(q, {"uninstall"})'
            /\ c.kind = "uninstall" /\ request[q].kind # "stop" => Excuse'
            /\ request[q].kind = "uninstall" /\ c.kind # "stop" => Excuse'
            /\ c.kind \in {"install", "upgrade", "uninstall"} /\ request[q].kind # "stop" => ~Clean'
            /\ request[q].kind \in {"install", "upgrade", "uninstall"} /\ c.kind # "stop" => ~Clean'
  BY MovedHistory
<1>4. TypeOK'
  BY <1>1, <1>2 DEF TypeOK, Moved
<1>5. Unsettled'
  <2>1. ASSUME NEW q \in Requests
        PROVE  /\ request'[q].at = "new" => op'[q] = "none"
               /\ InFlight(q)' => op'[q] \in {"none", "running"}
    <3>1. CASE q = r
      BY <1>1, <3>1 DEF InFlight, Moved
    <3>2. CASE q # r
      BY <1>1, <3>2 DEF InFlight, Unsettled
    <3> QED BY <3>1, <3>2
  <2> QED BY <2>1 DEF Unsettled
<1>6. ASSUME NEW q \in Requests, q # r, FromRow(request[q])
      PROVE  InFlight(q) /\ request[q].kind # "stop"
  BY <1>6 DEF FromRow, InFlight, Places, PlaceOf
<1>7. row' = NoRow /\ (ChildUp' \/ \E q \in Requests : FromRow(request'[q])) => Excuse'
  <2>1. CASE row = NoRow
    <3>1. \A q \in Requests : q # r => request'[q] = request[q]
      BY <1>1
    <3>2. (ChildUp \/ \E q \in Requests : FromRow(request[q])) => Excuse
      BY <2>1 DEF Strays
    <3> QED BY <1>1, <1>3, <2>1, <3>1, <3>2
  <2>2. CASE row # NoRow /\ row' = NoRow
    <3>1. c.kind = "uninstall"
      BY <2>2
    <3>2. ASSUME NEW q \in Requests, FromRow(request'[q]) PROVE Excuse'
      <4>1. CASE q = r
        BY <1>1, <2>2, <3>2, <4>1
      <4>2. CASE q # r
        BY <1>1, <1>3, <1>6, <3>1, <3>2, <4>2
      <4> QED BY <4>1, <4>2
    <3> QED BY <2>2, <3>2
  <2> QED BY <2>1, <2>2
<1>8. ASSUME NEW q \in Requests, request'[q].at = "stopping", request'[q].kind = "uninstall",
             request'[q].gen # sup'.gen
      PROVE  Excuse'
  <2>1. CASE q = r
    BY <1>1, <1>8, <2>1
  <2>2. CASE q # r
    <3>1. request[q] = request'[q] /\ InFlight(q)
      BY <1>1, <1>8, <2>2 DEF InFlight
    <3>2. CASE sup'.gen = sup.gen
      BY <1>3, <1>8, <3>1, <3>2 DEF Strays
    <3>3. CASE c.kind \notin {"stop", "uninstall"}
      BY <1>3, <1>8, <2>2, <3>1, <3>3
    <3> QED BY <3>2, <3>3
  <2> QED BY <2>1, <2>2
<1>9. ASSUME sup'.status = "restarting"
      PROVE  \E q \in Requests : request'[q].at = "stopping"
                                 /\ request'[q].kind \in {"restart", "upgrade", "replay"}
  <2>1. CASE c.at = "stopping" /\ Starts(c.kind)
    BY <1>1, <2>1 DEF Starts
  <2>2. CASE /\ sup.status = "restarting"
             /\ ~(request[r].at = "stopping" /\ Starts(request[r].kind))
    <3>1. PICK q \in Requests : request[q].at = "stopping"
                                /\ request[q].kind \in {"restart", "upgrade", "replay"}
      BY <2>2 DEF Strays
    <3>2. q # r
      BY <2>2, <3>1 DEF Starts
    <3> QED BY <1>1, <3>1, <3>2
  <2> QED BY <1>9, <2>1, <2>2
<1>10. ASSUME NEW q \in Requests, request'[q].kind = "install", request'[q].at = "refreshing",
              row' = NoRow
       PROVE  Beside(q, {"uninstall"})'
  <2>1. q # r /\ request[q] = request'[q] /\ InFlight(q)
    BY <1>1, <1>10 DEF InFlight
  <2>2. CASE row = NoRow
    <3>1. Beside(q, {"uninstall"})
      BY <1>10, <2>1, <2>2 DEF Strays
    <3> QED BY <1>3, <3>1
  <2>3. CASE row # NoRow
    BY <1>3, <1>10, <2>1, <2>3
  <2> QED BY <2>2, <2>3
<1>11. Strays'
  BY <1>7, <1>8, <1>9, <1>10 DEF Strays
<1>12. ASSUME Clean', NEW q \in Requests, FromRow(request'[q]) PROVE request'[q].row.dir = row'.dir
  <2>1. CASE q = r
    BY <1>1, <1>12, <2>1
  <2>2. CASE q # r
    <3>1. FromRow(request[q]) /\ request[q].row.dir = row.dir /\ request'[q] = request[q]
      BY <1>1, <1>3, <1>12, <2>2 DEF Stamps
    <3>2. c.kind \notin {"install", "upgrade", "uninstall"}
      BY <1>3, <1>6, <1>12, <2>2, <3>1
    <3> QED BY <1>12, <3>1, <3>2
  <2> QED BY <2>1, <2>2
<1>13. ASSUME Clean', NEW q \in Requests, Installing(request'[q]) PROVE ~ChildUp'
  <2>1. CASE q = r
    BY <1>1, <1>13, <2>1
  <2>2. CASE q # r
    <3>1. Installing(request[q]) /\ InFlight(q) /\ request[q].kind = "install"
      BY <1>1, <1>13, <2>2 DEF Installing, InFlight
    <3>2. ~ChildUp
      BY <1>3, <1>13, <3>1 DEF Stamps, Installing
    <3>3. c.kind = "stop"
      BY <1>3, <1>13, <2>2, <3>1
    <3> QED BY <3>2, <3>3
  <2> QED BY <2>1, <2>2
<1>14. ASSUME Clean', ChildUp' PROVE sup'.dir = row'.dir \/ \E q \in Requests : Upgrading(request'[q])
  <2>1. CASE sup'.dir = row'.dir \/ Upgrading(c)
    BY <1>1, <2>1
  <2>2. CASE /\ ChildUp /\ sup'.dir = sup.dir /\ row'.dir = row.dir
             /\ ~Upgrading(request[r])
    <3>1. sup.dir = row.dir \/ \E q \in Requests : Upgrading(request[q])
      BY <1>3, <1>14, <2>2 DEF Stamps, Upgrading
    <3> QED BY <1>1, <2>2, <3>1
  <2> QED BY <1>14, <2>1, <2>2
<1>15. Stamps'
  BY <1>12, <1>13, <1>14 DEF Stamps, Installing, Upgrading
<1> QED BY <1>2, <1>4, <1>5, <1>11, <1>15

\* A request goes on without a change of the row or the entry.
LEMMA QuietStep ==
    ASSUME IInv, NEW r \in Requests, NEW c \in Request, Moved(r, c),
           row' = row, sup' = sup, package' \in Dirs,
           op' \in [Requests -> {"none", "running", "succeeded", "failed", "lost"}],
           \A q \in Requests : q # r => op'[q] = op[q],
           c.at # "done" => op'[r] \in {"none", "running"},
           ~FromRow(c), c.at # "stopping",
           c.kind = "install" /\ c.at = "refreshing" => row # NoRow,
           Clean' /\ Installing(c) => ~ChildUp,
           sup.status = "absent" \/ (~Upgrading(request[r]) /\ request[r].at # "stopping")
    PROVE  IInv'
<1>1. row' \in Row \cup {NoRow} /\ sup' \in Entry /\ (ChildUp' <=> ChildUp)
  BY DEF IInv, TypeOK, ChildUp
<1>2. ChildUp => ~Upgrading(request[r])
  BY DEF ChildUp
<1>3. sup'.status = "restarting" => sup.status = "restarting" /\ request[r].at # "stopping"
  OBVIOUS
<1> QED BY <1>1, <1>2, <1>3, RequestStep

LEMMA BeginMoves ==
    ASSUME TypeOK, NEW r \in Requests, request[r].at = "new", hub = "up", NEW c,
           request' = [request EXCEPT ![r] = c], PlaceOf(c), c.at # "new",
           overlap' = overlap \cup {{r, q} : q \in {p \in Requests : InFlight(p)}},
           UNCHANGED <<hub, hubDeaths>>
    PROVE  Moved(r, c)
BY DEF Moved

LEMMA ContinueMoves ==
    ASSUME Places, NEW r \in Requests, InFlight(r), NEW c,
           request' = [request EXCEPT ![r] = c], PlaceOf(c), c.at # "new",
           c.kind = request[r].kind \/ (c.kind = "replay" /\ request[r].kind = "upgrade"),
           UNCHANGED <<hub, hubDeaths, overlap>>, hub \in {"up", "down"}
    PROVE  Moved(r, c)
BY DEF Moved, Places

LEMMA NoRowTyped ==
    /\ NoRow \notin Row /\ NoRow.dir = 0 /\ NoRow.port = "none" /\ 0 \in Dirs
    /\ \A x \in Row : x.dir \in Dirs /\ x.port \in {"canonical", "drifted"}
BY DEF NoRow, Row, Dirs

Waits == {"new", "resolving", "adding", "seeding", "composing", "stopping", "removing",
            "refreshing", "done"}

Becomes(r, kind, at) == request' = [request EXCEPT ![r].kind = kind, ![r].at = at]

LEMMA Relabelled ==
    ASSUME TypeOK, NEW r \in Requests, NEW k \in Kinds, NEW at \in Waits, Becomes(r, k, at)
    PROVE  \E c \in Request : /\ c.kind = k /\ c.at = at
                              /\ request' = [request EXCEPT ![r] = c]
<1>1. PICK x \in Request : x = request[r]
  BY DEF TypeOK
<1>2. [x EXCEPT !.kind = k, !.at = at] \in Request
  BY DEF Request, Waits
<1>3. /\ [x EXCEPT !.kind = k, !.at = at].kind = k
      /\ [x EXCEPT !.kind = k, !.at = at].at = at
  BY DEF Request
<1>4. request' = [request EXCEPT ![r] = [x EXCEPT !.kind = k, !.at = at]]
  BY <1>1 DEF TypeOK, Becomes
<1> QED BY <1>2, <1>3, <1>4

LEMMA MovedTo ==
    ASSUME TypeOK, NEW r \in Requests, NEW at \in Waits, Goes(r, at)
    PROVE  \E c \in Request : /\ c.kind = request[r].kind /\ c.at = at /\ c.row = request[r].row
                              /\ request' = [request EXCEPT ![r] = c]
<1>1. PICK x \in Request : x = request[r]
  BY DEF TypeOK
<1>2. /\ [x EXCEPT !.at = at] \in Request /\ [x EXCEPT !.at = at].kind = x.kind
      /\ [x EXCEPT !.at = at].at = at /\ [x EXCEPT !.at = at].row = x.row
  BY DEF Request, Waits
<1>3. request' = [request EXCEPT ![r] = [x EXCEPT !.at = at]]
  BY <1>1 DEF TypeOK, Goes
<1> QED BY <1>1, <1>2, <1>3

\* What is written back or stamped is a row again.
LEMMA RowsTyped ==
    /\ \A found \in Row \cup {NoRow} : \A back \in Reconciled(found) :
          back = row \/ (found \in Row /\ back \in Row /\ back.dir = found.dir)
    /\ \A found \in Row, release \in Dirs : Stamped(found, release) \in Row
    /\ \A release \in Dirs : Stamped(NoRow, release) = NoRow
BY DEF NoRow, Row, Reconciled, Stamped, Dirs

\* The entry's child is replaced, or the entry is asked to stop.
LEMMA EntriesTyped ==
    ASSUME sup \in Entry
    PROVE  /\ \A dir \in Dirs : \A e \in FreshEntry(dir) :
                 /\ e \in Entry /\ e.dir = dir /\ e.gen = sup.gen + 1
                 /\ e.status \in {"running", "crashed", "starting"}
           /\ \A status \in {"running", "restarting"} :
                 LET e == Stopping(status)
                 IN  /\ e \in Entry /\ e.dir = sup.dir /\ e.gen = sup.gen
                     /\ e.status = IF ChildUp THEN status ELSE "stopped"
           /\ LET e == [sup EXCEPT !.status = "stopped"]
              IN  e \in Entry /\ e.dir = sup.dir /\ e.gen = sup.gen /\ e.status = "stopped"
           /\ LET e == [sup EXCEPT !.status = "crashed"]
              IN  e \in Entry /\ e.dir = sup.dir /\ e.gen = sup.gen /\ e.status = "crashed"
<1>1. \A dir \in Dirs : \A e \in FreshEntry(dir) :
          /\ e \in Entry /\ e.dir = dir /\ e.gen = sup.gen + 1
          /\ e.status \in {"running", "crashed", "starting"}
  <2>1. SUFFICES ASSUME NEW dir \in Dirs, NEW e \in FreshEntry(dir)
                 PROVE  /\ e \in Entry /\ e.dir = dir /\ e.gen = sup.gen + 1
                        /\ e.status \in {"running", "crashed", "starting"}
    OBVIOUS
  <2>2. PICK s \in {"running", "crashed", "starting"} :
            e = [status |-> s, asked |-> FALSE, dir |-> dir, gen |-> sup.gen + 1]
    BY <2>1 DEF FreshEntry
  <2>3. sup.gen + 1 \in Nat /\ FALSE \in BOOLEAN
    BY DEF Entry
  <2> QED BY <2>2, <2>3 DEF Entry
<1>2. \A status \in {"running", "restarting"} :
          LET e == Stopping(status)
          IN  /\ e \in Entry /\ e.dir = sup.dir /\ e.gen = sup.gen
              /\ e.status = IF ChildUp THEN status ELSE "stopped"
  BY DEF Stopping, Entry
<1>3. \A status \in {"stopped", "crashed"} :
          LET e == [sup EXCEPT !.status = status]
          IN  e \in Entry /\ e.dir = sup.dir /\ e.gen = sup.gen /\ e.status = status
  BY DEF Entry
<1> QED BY <1>1, <1>2, <1>3

\* Answering r settles its operation, if it has one, and no other.
LEMMA AnswerSettles ==
    ASSUME TypeOK, NEW r \in Requests, NEW verdict \in {"succeeded", "failed"},
           op' = IF op[r] = "none" THEN op ELSE [op EXCEPT ![r] = verdict]
    PROVE  /\ op' \in [Requests -> {"none", "running", "succeeded", "failed", "lost"}]
           /\ \A q \in Requests : q # r => op'[q] = op[q]
BY DEF TypeOK

-----------------------------------------------------------------------------
Begins(r) ==
    /\ hub = "up" /\ request[r].at = "new"
    /\ overlap' = overlap \cup {{r, q} : q \in {p \in Requests : InFlight(p)}}
    /\ UNCHANGED <<hub, hubDeaths>>

LEMMA StartReadsStep == ASSUME IInv, NEW r \in Requests, Begins(r), StartReads(r) PROVE IInv'
<1> USE DEF IInv
<1>1. PICK k \in {"start", "restart"} :
          IF row = NoRow THEN request' = [request EXCEPT ![r].kind = k, ![r].at = "done"]
                         ELSE ResolveBegins(r, k, row)
  BY DEF StartReads
<1>2. UNCHANGED <<row, package, sup, op>> /\ op[r] = "none" /\ request[r].at = "new"
  BY DEF StartReads, Begins, Unsettled
<1>3. CASE row = NoRow
  <2>1. k \in Kinds /\ "done" \in Waits /\ Becomes(r, k, "done")
    BY <1>1, <1>3 DEF Kinds, Waits, Becomes
  <2>2. PICK c \in Request : c.kind = k /\ c.at = "done" /\ request' = [request EXCEPT ![r] = c]
    BY <2>1, Relabelled
  <2>4. Moved(r, c)
    BY <2>2, BeginMoves DEF Begins, PlaceOf, Kinds
  <2> QED BY <1>2, <2>2, <2>4, QuietStep DEF FromRow, Installing, Upgrading, TypeOK
<1>4. CASE row # NoRow
  <2>1. PICK c \in Request : c = [kind |-> k, at |-> "resolving", row |-> row, gen |-> 0]
    BY DEF TypeOK, Request, Kinds
  <2>2. c.kind = k /\ c.at = "resolving" /\ c.row = row
    BY <2>1
  <2>3. request' = [request EXCEPT ![r] = c]
    BY <1>1, <1>4, <2>1 DEF ResolveBegins
  <2>4. Moved(r, c)
    BY <1>4, <2>2, <2>3, BeginMoves DEF Begins, PlaceOf, Kinds
  <2>5. row' \in Row \cup {NoRow} /\ sup' \in Entry /\ (ChildUp' <=> ChildUp) /\ package' \in Dirs
        /\ op' \in [Requests -> {"none", "running", "succeeded", "failed", "lost"}]
    BY <1>2 DEF TypeOK, ChildUp
  <2> QED BY <1>2, <1>4, <2>2, <2>4, <2>5, RequestStep DEF Installing, Upgrading
<1> QED BY <1>3, <1>4

LEMMA UpgradeBeginsStep == ASSUME IInv, NEW r \in Requests, Begins(r), UpgradeBegins(r) PROVE IInv'
<1> USE DEF IInv
<1>1. /\ UNCHANGED <<row, package, sup>> /\ op' = [op EXCEPT ![r] = "running"]
      /\ request[r].at = "new"
      /\ Becomes(r, "upgrade", "adding")
  BY DEF UpgradeBegins, Begins, Becomes
<1>2. "upgrade" \in Kinds /\ "adding" \in Waits
  BY DEF Kinds, Waits
<1>4. PICK c \in Request : /\ c.kind = "upgrade" /\ c.at = "adding"
                           /\ request' = [request EXCEPT ![r] = c]
  BY <1>1, <1>2, Relabelled
<1>5. Moved(r, c)
  BY <1>2, <1>4, BeginMoves DEF Begins, PlaceOf, Kinds
<1>6. /\ op' \in [Requests -> {"none", "running", "succeeded", "failed", "lost"}]
      /\ op'[r] = "running" /\ \A q \in Requests : q # r => op'[q] = op[q]
  BY <1>1 DEF TypeOK
<1> QED BY <1>1, <1>2, <1>4, <1>5, <1>6, QuietStep DEF FromRow, Installing, Upgrading, TypeOK

-----------------------------------------------------------------------------
Continues(r) == InFlight(r) /\ UNCHANGED <<hub, hubDeaths, overlap>>

\* A request in flight goes on to another place, of the same kind.
LEMMA ContinueTo ==
    ASSUME IInv, NEW r \in Requests, Continues(r), NEW at \in Waits, at # "new", Goes(r, at)
    PROVE  \E c \in Request : /\ c.kind = request[r].kind /\ c.at = at /\ c.row = request[r].row
                              /\ PlaceOf(c) => Moved(r, c)
<1>1. PICK c \in Request : /\ c.kind = request[r].kind /\ c.at = at /\ c.row = request[r].row
                           /\ request' = [request EXCEPT ![r] = c]
  BY MovedTo DEF IInv
<1>2. PlaceOf(c) => Moved(r, c)
  BY <1>1, ContinueMoves DEF IInv, Continues, TypeOK
<1> QED BY <1>1, <1>2

LEMMA AnswersTo ==
    ASSUME IInv, NEW r \in Requests, Continues(r), NEW verdict \in {"succeeded", "failed"},
           Answers(r, verdict)
    PROVE  /\ \E c \in Request : c.kind = request[r].kind /\ c.at = "done" /\ Moved(r, c)
           /\ op' \in [Requests -> {"none", "running", "succeeded", "failed", "lost"}]
           /\ \A q \in Requests : q # r => op'[q] = op[q]
<1>1. PICK c \in Request : /\ c.kind = request[r].kind /\ c.at = "done"
                           /\ PlaceOf(c) => Moved(r, c)
  BY ContinueTo DEF Answers, Waits
<1>2. Moved(r, c)
  BY <1>1 DEF PlaceOf, IInv, Places, Continues, InFlight
<1>3. /\ op' \in [Requests -> {"none", "running", "succeeded", "failed", "lost"}]
      /\ \A q \in Requests : q # r => op'[q] = op[q]
  BY AnswerSettles DEF IInv, Answers
<1> QED BY <1>1, <1>2, <1>3

\* The request ends, and nothing else changes.
LEMMA AnswersStep ==
    ASSUME IInv, NEW r \in Requests, Continues(r), NEW verdict \in {"succeeded", "failed"},
           Answers(r, verdict), UNCHANGED <<row, sup>>, package' \in Dirs,
           sup.status = "absent" \/ (~Upgrading(request[r]) /\ request[r].at # "stopping")
    PROVE  IInv'
<1>1. PICK c \in Request : c.kind = request[r].kind /\ c.at = "done" /\ Moved(r, c)
  BY AnswersTo
<1>2. /\ op' \in [Requests -> {"none", "running", "succeeded", "failed", "lost"}]
      /\ \A q \in Requests : q # r => op'[q] = op[q]
  BY AnswersTo
<1> QED BY <1>1, <1>2, QuietStep DEF FromRow, Installing

LEMMA AddFailsStep == ASSUME IInv, NEW r \in Requests, Continues(r), AddFails(r) PROVE IInv'
<1>1. package' \in Dirs /\ ~Upgrading(request[r]) /\ request[r].at = "adding"
  BY DEF AddFails, IInv, TypeOK, Upgrading
<1> QED BY <1>1, AnswersStep DEF AddFails

LEMMA RefreshedStep == ASSUME IInv, NEW r \in Requests, Continues(r), Refreshed(r) PROVE IInv'
<1>1. package' \in Dirs /\ ~Upgrading(request[r]) /\ request[r].at = "refreshing"
  BY DEF Refreshed, IInv, TypeOK, Upgrading
<1> QED BY <1>1, AnswersStep DEF Refreshed

LEMMA RemovedStep == ASSUME IInv, NEW r \in Requests, Continues(r), Removed(r) PROVE IInv'
<1>1. PICK c \in Request : /\ c.kind = request[r].kind /\ c.at = "refreshing"
                           /\ PlaceOf(c) => Moved(r, c)
  BY ContinueTo DEF Removed, Waits
<1>2. /\ request[r].at = "removing" /\ request[r].kind = "uninstall" /\ UNCHANGED <<row, sup, op>>
      /\ package' \in Dirs
  BY DEF Removed, IInv, Places, PlaceOf, TypeOK, Dirs
<1>3. Moved(r, c)
  BY <1>1, <1>2 DEF PlaceOf, Kinds
<1>4. /\ op' \in [Requests -> {"none", "running", "succeeded", "failed", "lost"}]
      /\ op'[r] \in {"none", "running"} /\ \A q \in Requests : q # r => op'[q] = op[q]
  BY <1>2 DEF IInv, TypeOK, Unsettled, InFlight
<1> QED BY <1>1, <1>2, <1>3, <1>4, QuietStep DEF FromRow, Installing, Upgrading

\* restart() up to its await, on a row that may have been written back.
LEMMA RestartBeginsStep ==
    ASSUME IInv, NEW r \in Requests, Continues(r),
           NEW kind \in {"restart", "upgrade", "replay"}, NEW found \in Row \cup {NoRow},
           RestartBegins(r, kind, found), request[r].at \in {"resolving", "adding"},
           kind = request[r].kind \/ (kind = "replay" /\ request[r].kind = "upgrade"),
           row' \in Row \cup {NoRow}, package' \in Dirs, row' = NoRow => row = NoRow,
           Clean' => row'.dir = row.dir,
           kind # "replay" => /\ found # NoRow /\ FromRow(request[r])
                              /\ Clean' => found.dir = row'.dir
    PROVE  IInv'
<1> USE DEF IInv
<1>1. sup \in Entry /\ row \in Row \cup {NoRow} /\ op[r] \in {"none", "running"}
  BY DEF TypeOK, Continues, Unsettled
<1>2. CASE sup.status = "absent"
  <2>1. Answers(r, "failed") /\ UNCHANGED sup /\ ~ChildUp /\ ~ChildUp'
    BY <1>2 DEF RestartBegins, ChildUp
  <2>2. PICK c \in Request : c.kind = request[r].kind /\ c.at = "done" /\ Moved(r, c)
    BY <2>1, AnswersTo
  <2>3. /\ op' \in [Requests -> {"none", "running", "succeeded", "failed", "lost"}]
        /\ \A q \in Requests : q # r => op'[q] = op[q]
    BY <2>1, AnswersTo
  <2> QED BY <1>1, <1>2, <2>1, <2>2, <2>3, RequestStep DEF FromRow, Installing
<1>3. CASE sup.status # "absent"
  <2>1. sup' = Stopping("restarting") /\ UNCHANGED op
    BY <1>3 DEF RestartBegins
  <2>2. /\ sup' \in Entry /\ sup'.dir = sup.dir /\ sup'.gen = sup.gen
        /\ sup'.status = IF ChildUp THEN "restarting" ELSE "stopped"
    BY <1>1, <2>1, EntriesTyped
  <2>3. ChildUp' <=> ChildUp
    BY <2>2 DEF ChildUp
  <2>4. PICK next \in Row : next = IF found = NoRow THEN [port |-> "canonical", dir |-> sup.dir]
                                                    ELSE found
    BY <1>1 DEF Row, Entry
  <2>5. PICK c \in Request : c = [kind |-> kind, at |-> "stopping", row |-> next, gen |-> sup.gen]
    BY <1>1, <2>4 DEF Request, Kinds, Entry
  <2>6. c.kind = kind /\ c.at = "stopping" /\ c.row = next
    BY <2>5
  <2>7. request' = [request EXCEPT ![r] = c]
    BY <1>3, <2>4, <2>5 DEF RestartBegins
  <2>8. Moved(r, c)
    BY <2>6, <2>7, ContinueMoves DEF PlaceOf, Kinds, Continues, TypeOK
  <2>9. /\ op' \in [Requests -> {"none", "running", "succeeded", "failed", "lost"}]
        /\ op'[r] \in {"none", "running"} /\ \A q \in Requests : q # r => op'[q] = op[q]
    BY <1>1, <2>1 DEF TypeOK
  <2>10. kind = "replay" => Excuse' /\ ~Clean'
    BY <2>6, <2>8, MovedHistory
  <2>11. /\ row' = NoRow /\ FromRow(c) => Excuse'
         /\ Clean' /\ FromRow(c) => c.row.dir = row'.dir
    <3>1. CASE kind = "replay"
      BY <2>10, <3>1
    <3>2. CASE kind # "replay"
      <4>1. next = found /\ FromRow(request[r])
        BY <2>4, <3>2
      <4>2. row' = NoRow => Excuse
        BY <4>1 DEF Strays
      <4>3. Excuse => Excuse'
        BY <2>8, MovedHistory
      <4> QED BY <2>6, <3>2, <4>1, <4>2, <4>3
    <3> QED BY <3>1, <3>2
  <2>12. Clean' /\ ChildUp' => \/ Upgrading(c)
                               \/ /\ ChildUp /\ sup'.dir = sup.dir /\ row'.dir = row.dir
                                  /\ ~Upgrading(request[r])
    BY <2>2, <2>3, <2>6, <2>10 DEF Upgrading
  <2>13. sup'.status = "restarting" => c.at = "stopping" /\ Starts(c.kind)
    BY <2>6 DEF Starts
  <2>14. ~Installing(c) /\ c.kind \notin {"install", "uninstall", "stop"}
    BY <2>6 DEF Installing
  <2> QED BY <1>1, <2>2, <2>3, <2>6, <2>8, <2>9, <2>11, <2>12, <2>13, <2>14, RequestStep
<1> QED BY <1>2, <1>3

\* start() or the second half of restart(): the child that runs next is of `dir`.
LEMMA SpawnTyped ==
    ASSUME sup \in Entry, NEW dir \in Dirs, sup' \in Started(dir) \/ sup' \in FreshEntry(dir)
    PROVE  /\ sup' \in Entry
           /\ sup'.status = "restarting" => sup.status = "restarting"
           /\ sup' = sup \/ sup'.dir = dir
           /\ sup' \in FreshEntry(dir) => sup'.dir = dir /\ sup'.status # "restarting"
<1>1. CASE sup' \in FreshEntry(dir)
  BY <1>1, EntriesTyped
<1>2. CASE sup' \in Started(dir) /\ sup' \notin FreshEntry(dir)
  <2>1. sup' = sup
    BY <1>2 DEF Started
  <2> QED BY <1>2, <2>1
<1> QED BY <1>1, <1>2

LEMMA ReconciledRow ==
    ASSUME IInv, NEW r \in Requests, request[r].at = "resolving", row' \in Reconciled(request[r].row)
    PROVE  /\ row' \in Row \cup {NoRow} /\ (row' = NoRow => row = NoRow)
           /\ Clean => row'.dir = row.dir /\ request[r].row.dir = row.dir
           /\ request[r].row \in Row
<1>1. request[r].row \in Row \cup {NoRow} /\ row \in Row \cup {NoRow} /\ request[r].row # NoRow
  BY DEF IInv, TypeOK, Request, Places, PlaceOf
<1>2. row' = row \/ (row' \in Row /\ row'.dir = request[r].row.dir)
  BY <1>1, RowsTyped
<1>3. Clean => request[r].row.dir = row.dir
  BY DEF IInv, Stamps, FromRow
<1> QED BY <1>1, <1>2, <1>3, NoRowTyped

LEMMA ResolvedStep == ASSUME IInv, NEW r \in Requests, Continues(r), Resolved(r) PROVE IInv'
<1> USE DEF IInv
<1>1. /\ request[r].at = "resolving" /\ row' \in Reconciled(request[r].row) /\ package' \in Dirs
      /\ request[r].kind \in {"start", "restart", "upgrade"} /\ sup \in Entry
      /\ row \in Row \cup {NoRow}
  BY DEF Resolved, Places, PlaceOf, TypeOK
<1>2. /\ row' \in Row \cup {NoRow} /\ (row' = NoRow => row = NoRow)
      /\ Clean => row'.dir = row.dir /\ request[r].row.dir = row.dir
      /\ request[r].row \in Row
  BY <1>1, ReconciledRow
<1>3. ASSUME Answers(r, "failed"), UNCHANGED sup, request[r].kind # "upgrade" PROVE IInv'
  <2>1. PICK c \in Request : c.kind = request[r].kind /\ c.at = "done" /\ Moved(r, c)
    BY <1>3, AnswersTo
  <2>2. /\ op' \in [Requests -> {"none", "running", "succeeded", "failed", "lost"}]
        /\ \A q \in Requests : q # r => op'[q] = op[q]
    BY <1>3, AnswersTo
  <2>3. Clean' => Clean
    BY <2>1, MovedHistory
  <2>4. (ChildUp' <=> ChildUp) /\ ~Upgrading(request[r])
    BY <1>3 DEF ChildUp, Upgrading
  <2> QED BY <1>1, <1>2, <1>3, <2>1, <2>2, <2>3, <2>4, RequestStep DEF FromRow, Installing
<1>4. ASSUME request[r].kind = "start", Answers(r, "failed"), sup' \in Started(request[r].row.dir)
      PROVE  IInv'
  <2>1. PICK c \in Request : c.kind = request[r].kind /\ c.at = "done" /\ Moved(r, c)
    BY <1>4, AnswersTo
  <2>2. /\ op' \in [Requests -> {"none", "running", "succeeded", "failed", "lost"}]
        /\ \A q \in Requests : q # r => op'[q] = op[q]
    BY <1>4, AnswersTo
  <2>3. Clean' => Clean
    BY <2>1, MovedHistory
  <2>4. request[r].row.dir \in Dirs
    BY <1>2, NoRowTyped
  <2>5. /\ sup' \in Entry
        /\ sup'.status = "restarting" => sup.status = "restarting"
        /\ sup' = sup \/ sup'.dir = request[r].row.dir
    BY <1>1, <1>4, <2>4, SpawnTyped
  <2>6. FromRow(request[r]) /\ ~Upgrading(request[r]) /\ ~FromRow(c) /\ ~Installing(c)
    BY <1>1, <1>4, <2>1 DEF FromRow, Upgrading, Installing
  <2>7. Clean' /\ ChildUp' => \/ sup'.dir = row'.dir
                              \/ /\ ChildUp /\ sup'.dir = sup.dir /\ row'.dir = row.dir
                                 /\ ~Upgrading(request[r])
    BY <1>2, <2>3, <2>5, <2>6 DEF ChildUp
  <2> QED BY <1>1, <1>2, <1>4, <2>1, <2>2, <2>3, <2>5, <2>6, <2>7, RequestStep
<1>5. ASSUME NEW kind \in {"restart", "upgrade", "replay"}, NEW found \in Row \cup {NoRow},
             RestartBegins(r, kind, found),
             kind = request[r].kind \/ (kind = "replay" /\ request[r].kind = "upgrade"),
             kind # "replay" => found = request[r].row
      PROVE  IInv'
  <2>1. Clean' => Clean
    <3>1. CASE sup.status = "absent"
      <4>1. Answers(r, "failed")
        BY <1>5, <3>1 DEF RestartBegins
      <4>2. PICK c \in Request : Moved(r, c)
        BY <4>1, AnswersTo
      <4> QED BY <4>2, MovedHistory
    <3>2. CASE sup.status # "absent"
      <4>1. PICK next \in Row : next = IF found = NoRow THEN [port |-> "canonical", dir |-> sup.dir]
                                                        ELSE found
        BY <1>1, <1>5 DEF Row, Entry
      <4>2. PICK c \in Request : c = [kind |-> kind, at |-> "stopping", row |-> next,
                                      gen |-> sup.gen]
        BY <1>1, <1>5, <4>1 DEF Request, Kinds, Entry
      <4>3. request' = [request EXCEPT ![r] = c] /\ c.kind = kind /\ c.at = "stopping"
        BY <1>5, <3>2, <4>1, <4>2 DEF RestartBegins
      <4>4. Moved(r, c)
        BY <1>5, <4>3, ContinueMoves DEF PlaceOf, Kinds, Continues, TypeOK
      <4> QED BY <4>4, MovedHistory
    <3> QED BY <3>1, <3>2
  <2>2. FromRow(request[r]) /\ request[r].row # NoRow
    BY <1>1, <1>2, NoRowTyped DEF FromRow
  <2> QED BY <1>1, <1>2, <1>5, <2>1, <2>2, RestartBeginsStep
<1>6. NoRow \in Row \cup {NoRow} /\ request[r].row \in Row \cup {NoRow}
  BY <1>2
<1>7. CASE request[r].kind = "start"
  BY <1>3, <1>4, <1>7 DEF Resolved
<1>8. CASE request[r].kind = "restart"
  BY <1>3, <1>5, <1>6, <1>8 DEF Resolved
<1>9. CASE request[r].kind = "upgrade"
  BY <1>5, <1>6, <1>9 DEF Resolved
<1> QED BY <1>1, <1>7, <1>8, <1>9

LEMMA RestartReturnsStep ==
    ASSUME IInv, NEW r \in Requests, Continues(r), RestartReturns(r) PROVE IInv'
<1> USE DEF IInv
<1>1. /\ request[r].at = "stopping" /\ request[r].kind \in {"restart", "upgrade", "replay"}
      /\ sup' \in FreshEntry(request[r].row.dir) /\ UNCHANGED <<row, package>>
      /\ request[r].row.dir \in Dirs /\ sup \in Entry /\ package' \in Dirs
      /\ row' \in Row \cup {NoRow}
  BY NoRowTyped DEF RestartReturns, TypeOK, Request
<1>2. /\ sup' \in Entry /\ sup'.dir = request[r].row.dir /\ sup'.status # "restarting"
  BY <1>1, SpawnTyped
<1>3. /\ \E c \in Request : /\ c.kind = request[r].kind /\ c.at \in {"done", "refreshing"}
                            /\ Moved(r, c) /\ (c.at # "done" => op'[r] \in {"none", "running"})
      /\ op' \in [Requests -> {"none", "running", "succeeded", "failed", "lost"}]
      /\ \A q \in Requests : q # r => op'[q] = op[q]
  <2>1. CASE Answers(r, "failed")
    BY <2>1, AnswersTo
  <2>2. CASE Goes(r, "refreshing") /\ UNCHANGED op /\ request[r].kind # "restart"
    <3>1. PICK c \in Request : /\ c.kind = request[r].kind /\ c.at = "refreshing"
                               /\ PlaceOf(c) => Moved(r, c)
      BY <2>2, ContinueTo DEF Waits
    <3>2. Moved(r, c)
      BY <1>1, <2>2, <3>1 DEF PlaceOf, Kinds
    <3>3. op' = op /\ op[r] \in {"none", "running"}
      BY <2>2 DEF Continues, Unsettled
    <3> QED BY <3>1, <3>2, <3>3 DEF TypeOK
  <2> QED BY <2>1, <2>2 DEF RestartReturns
<1>4. PICK c \in Request : /\ c.kind = request[r].kind /\ c.at \in {"done", "refreshing"}
                           /\ Moved(r, c) /\ (c.at # "done" => op'[r] \in {"none", "running"})
  BY <1>3
<1>5. (Excuse => Excuse') /\ (Clean' => Clean) /\ (c.kind = "replay" => Excuse' /\ ~Clean')
  BY <1>4, MovedHistory
<1>6. request[r].kind # "replay" => FromRow(request[r]) /\ (Clean' => sup'.dir = row'.dir)
  BY <1>1, <1>2, <1>5 DEF FromRow, Stamps
<1>7. ~FromRow(c) /\ ~Installing(c)
  BY <1>1, <1>4 DEF FromRow, Installing
<1>8. /\ Clean' /\ ChildUp' => sup'.dir = row'.dir
      /\ row = NoRow /\ row' = NoRow /\ ChildUp' => FromRow(request[r]) \/ Excuse'
  BY <1>4, <1>5, <1>6
<1> QED BY <1>1, <1>2, <1>3, <1>4, <1>7, <1>8, RequestStep

\* An install that begins where nothing with a row runs finds nothing running at
\* all, or there is a clash; one that goes on has seen that already.
LEMMA InstallFindsNone ==
    ASSUME IInv, NEW r \in Requests, NEW c \in Request, Moved(r, c), c.kind = "install",
           \/ request[r].at = "new" /\ ~(row # NoRow /\ sup.status = "running")
           \/ Installing(request[r])
    PROVE  Clean' => ~ChildUp
<1> USE DEF IInv
<1> SUFFICES ASSUME Clean' PROVE ~ChildUp
  OBVIOUS
<1>1. Clean
  BY MovedHistory
<1>2. CASE Installing(request[r])
  BY <1>1, <1>2 DEF Stamps, Installing
<1>3. CASE request[r].at = "new" /\ ~(row # NoRow /\ sup.status = "running")
  <2>1. sup.status # "running"
    <3>1. sup.status = "running" => Excuse
      BY <1>3 DEF Strays, ChildUp
    <3> QED BY <1>1, <3>1, ExcuseIsNotClean
  <2>2. ASSUME sup.status = "restarting" PROVE FALSE
    <3>1. PICK q \in Requests : request[q].at = "stopping"
                                /\ request[q].kind \in {"restart", "upgrade", "replay"}
      BY <2>2 DEF Strays
    <3>2. q # r /\ InFlight(q) /\ request[q].kind # "stop"
      BY <1>3, <3>1 DEF InFlight
    <3> QED BY <3>2, MovedHistory
  <2> QED BY <2>1, <2>2 DEF ChildUp
<1> QED BY <1>2, <1>3

\* The row is stamped or there is none: what follows is to seed it or to spawn.
LEMMA InstallGoesOnStep ==
    ASSUME IInv, NEW r \in Requests, NEW release \in Dirs, InstallGoesOn(r, release),
           package' \in Dirs, sup' = sup,
           op' \in [Requests -> {"none", "running", "succeeded", "failed", "lost"}],
           op'[r] \in {"none", "running"}, \A q \in Requests : q # r => op'[q] = op[q],
           \/ Begins(r) /\ ~(row # NoRow /\ sup.status = "running")
           \/ Continues(r) /\ Installing(request[r])
    PROVE  IInv'
<1> USE DEF IInv
<1>1. PICK at \in {"seeding", "composing"} : /\ Becomes(r, "install", at)
                                             /\ (at = "seeding") = (row = NoRow)
  BY DEF InstallGoesOn, Becomes
<1>2. "install" \in Kinds /\ at \in Waits
  BY DEF Kinds, Waits
<1>3. PICK c \in Request : c.kind = "install" /\ c.at = at /\ request' = [request EXCEPT ![r] = c]
  BY <1>1, <1>2, Relabelled
<1>4. PlaceOf(c) /\ c.at # "new"
  BY <1>3 DEF PlaceOf, Kinds
<1>5. Moved(r, c)
  <2>1. CASE Begins(r)
    BY <1>3, <1>4, <2>1, BeginMoves DEF Begins
  <2>2. CASE Continues(r) /\ Installing(request[r])
    BY <1>3, <1>4, <2>2, ContinueMoves DEF Continues, Installing, TypeOK
  <2> QED BY <2>1, <2>2
<1>6. Clean' => ~ChildUp
  BY <1>3, <1>5, InstallFindsNone DEF Begins
<1>7. row' \in Row \cup {NoRow} /\ (row' = NoRow => row = NoRow)
  <2>1. CASE row = NoRow
    BY <2>1 DEF InstallGoesOn
  <2>2. CASE row # NoRow
    BY <2>2, RowsTyped, NoRowTyped DEF InstallGoesOn, TypeOK
  <2> QED BY <2>1, <2>2
<1>8. (ChildUp' <=> ChildUp) /\ sup' \in Entry
  BY DEF ChildUp, TypeOK
<1>9. sup'.status = "restarting" => sup.status = "restarting" /\ request[r].at # "stopping"
  BY DEF Begins, Installing
<1> QED BY <1>3, <1>5, <1>6, <1>7, <1>8, <1>9, RequestStep DEF FromRow

LEMMA InstallBeginsStep == ASSUME IInv, NEW r \in Requests, Begins(r), InstallBegins(r) PROVE IInv'
<1> USE DEF IInv
<1>1. UNCHANGED <<package, sup>> /\ package' \in Dirs /\ sup' \in Entry /\ op[r] = "none"
  BY DEF InstallBegins, Begins, TypeOK, Unsettled
<1>2. CASE row # NoRow /\ sup.status = "running"
  <2>1. /\ op' = [op EXCEPT ![r] = "succeeded"] /\ UNCHANGED row
        /\ Becomes(r, "install", "done")
    BY <1>2 DEF InstallBegins, Becomes
  <2>2. "install" \in Kinds /\ "done" \in Waits
    BY DEF Kinds, Waits
  <2>3. PICK c \in Request : /\ c.kind = "install" /\ c.at = "done"
                             /\ request' = [request EXCEPT ![r] = c]
    BY <2>1, <2>2, Relabelled
  <2>4. Moved(r, c)
    BY <2>3, BeginMoves DEF Begins, PlaceOf, Kinds
  <2>5. /\ op' \in [Requests -> {"none", "running", "succeeded", "failed", "lost"}]
        /\ \A q \in Requests : q # r => op'[q] = op[q]
    BY <2>1 DEF TypeOK
  <2> QED BY <1>1, <2>1, <2>3, <2>4, <2>5, QuietStep
          DEF Begins, FromRow, Installing, Upgrading
<1>3. CASE ~(row # NoRow /\ sup.status = "running")
  <2>1. op' = [op EXCEPT ![r] = "running"]
    BY <1>3 DEF InstallBegins
  <2>2. /\ op' \in [Requests -> {"none", "running", "succeeded", "failed", "lost"}]
        /\ op'[r] = "running" /\ \A q \in Requests : q # r => op'[q] = op[q]
    BY <2>1 DEF TypeOK
  <2>3. CASE Becomes(r, "install", "adding") /\ UNCHANGED row
    <3>1. "install" \in Kinds /\ "adding" \in Waits
      BY DEF Kinds, Waits
    <3>2. PICK c \in Request : /\ c.kind = "install" /\ c.at = "adding"
                               /\ request' = [request EXCEPT ![r] = c]
      BY <2>3, <3>1, Relabelled
    <3>3. Moved(r, c)
      BY <3>2, BeginMoves DEF Begins, PlaceOf, Kinds
    <3>4. Clean' => ~ChildUp
      BY <1>3, <3>2, <3>3, InstallFindsNone DEF Begins
    <3> QED BY <1>1, <2>2, <2>3, <3>2, <3>3, <3>4, QuietStep DEF Begins, FromRow, Upgrading
  <2>4. CASE InstallGoesOn(r, package)
    BY <1>1, <1>3, <2>2, <2>4, InstallGoesOnStep DEF TypeOK
  <2> QED BY <1>3, <2>3, <2>4 DEF InstallBegins, Becomes
<1> QED BY <1>2, <1>3

LEMMA AddSucceedsStep == ASSUME IInv, NEW r \in Requests, Continues(r), AddSucceeds(r) PROVE IInv'
<1> USE DEF IInv
<1>1. PICK release \in 1 .. MaxRelease :
          /\ release \in {package, package + 1} /\ package' = release
          /\ IF request[r].kind = "install"
             THEN InstallGoesOn(r, release) /\ UNCHANGED <<op, sup>>
             ELSE /\ row' = Stamped(row, release)
                  /\ IF row = NoRow THEN RestartBegins(r, "replay", NoRow)
                     ELSE ResolveBegins(r, "upgrade", row') /\ UNCHANGED <<op, sup>>
  BY DEF AddSucceeds
<1>2. /\ request[r].at = "adding" /\ request[r].kind \in {"install", "upgrade"}
      /\ release \in Dirs /\ package' \in Dirs /\ row \in Row \cup {NoRow} /\ sup \in Entry
      /\ op[r] \in {"none", "running"}
      /\ op \in [Requests -> {"none", "running", "succeeded", "failed", "lost"}]
  BY <1>1 DEF AddSucceeds, Places, PlaceOf, Dirs, TypeOK, Unsettled, Continues
<1>3. CASE request[r].kind = "install"
  <2>1. InstallGoesOn(r, release) /\ op' = op /\ sup' = sup /\ Installing(request[r])
    BY <1>1, <1>2, <1>3 DEF Installing
  <2> QED BY <1>2, <2>1, InstallGoesOnStep
<1>4. CASE request[r].kind = "upgrade" /\ row = NoRow
  <2>1. row' = NoRow /\ RestartBegins(r, "replay", NoRow)
    BY <1>1, <1>2, <1>4, RowsTyped
  <2>2. NoRow \in Row \cup {NoRow}
    OBVIOUS
  <2> QED BY <1>2, <1>4, <2>1, <2>2, RestartBeginsStep
<1>5. CASE request[r].kind = "upgrade" /\ row # NoRow
  <2>1. /\ row' = Stamped(row, release) /\ ResolveBegins(r, "upgrade", row')
        /\ UNCHANGED <<op, sup>>
    BY <1>1, <1>5
  <2>2. row' \in Row /\ row' # NoRow
    BY <1>2, <1>5, <2>1, RowsTyped, NoRowTyped
  <2>3. PICK c \in Request : c = [kind |-> "upgrade", at |-> "resolving", row |-> row', gen |-> 0]
    BY <2>2 DEF Request, Kinds
  <2>4. c.kind = "upgrade" /\ c.at = "resolving" /\ c.row = row'
    BY <2>3
  <2>5. request' = [request EXCEPT ![r] = c]
    BY <2>1, <2>3 DEF ResolveBegins
  <2>6. Moved(r, c)
    BY <1>5, <2>2, <2>4, <2>5, ContinueMoves DEF Continues, PlaceOf, Kinds, TypeOK
  <2>7. (ChildUp' <=> ChildUp) /\ Upgrading(c) /\ ~Installing(c)
    BY <2>1, <2>4 DEF ChildUp, Upgrading, Installing
  <2> QED BY <1>2, <1>5, <2>1, <2>2, <2>4, <2>6, <2>7, RequestStep
<1> QED BY <1>2, <1>3, <1>4, <1>5

LEMMA SeedsStep == ASSUME IInv, NEW r \in Requests, Continues(r), Seeds(r) PROVE IInv'
<1> USE DEF IInv
<1>1. /\ request[r].at = "seeding" /\ request[r].kind = "install" /\ UNCHANGED <<package, sup>>
      /\ package' \in Dirs /\ sup \in Entry /\ op[r] \in {"none", "running"}
      /\ op \in [Requests -> {"none", "running", "succeeded", "failed", "lost"}]
  BY DEF Seeds, Places, PlaceOf, TypeOK, Unsettled, Continues
<1>2. CASE Answers(r, "failed") /\ UNCHANGED row
  BY <1>1, <1>2, AnswersStep DEF Upgrading
<1>3. CASE /\ row' = Stamped([port |-> "canonical", dir |-> 0], package)
           /\ Goes(r, "composing") /\ UNCHANGED op
  <2>1. PICK c \in Request : /\ c.kind = request[r].kind /\ c.at = "composing"
                             /\ PlaceOf(c) => Moved(r, c)
    BY <1>3, ContinueTo DEF Waits
  <2>2. Moved(r, c) /\ c.kind = "install"
    BY <1>1, <2>1 DEF PlaceOf, Kinds
  <2>3. row' \in Row /\ row' # NoRow
    <3>1. PICK seed \in Row : seed = [port |-> "canonical", dir |-> 0]
      BY NoRowTyped DEF Row
    <3> QED BY <1>3, <3>1, RowsTyped, NoRowTyped DEF TypeOK
  <2>4. (ChildUp' <=> ChildUp) /\ ~FromRow(c) /\ Installing(request[r])
    BY <1>1, <2>1, <2>2 DEF ChildUp, FromRow, Installing
  <2>5. Clean' => ~ChildUp
    BY <2>2, <2>4, InstallFindsNone
  <2> QED BY <1>1, <1>3, <2>1, <2>2, <2>3, <2>4, <2>5, RequestStep
<1> QED BY <1>2, <1>3 DEF Seeds

LEMMA ComposedStep == ASSUME IInv, NEW r \in Requests, Continues(r), Composed(r) PROVE IInv'
<1> USE DEF IInv
<1>1. /\ request[r].at = "composing" /\ request[r].kind = "install" /\ UNCHANGED <<row, package>>
      /\ package' \in Dirs /\ sup \in Entry /\ row' \in Row \cup {NoRow}
      /\ op \in [Requests -> {"none", "running", "succeeded", "failed", "lost"}]
      /\ op[r] \in {"none", "running"} /\ Installing(request[r])
  BY DEF Composed, Places, PlaceOf, TypeOK, Unsettled, Continues, Installing
<1>2. CASE Answers(r, "failed") /\ UNCHANGED sup
  BY <1>1, <1>2, AnswersStep DEF Upgrading
<1>3. CASE /\ row # NoRow /\ sup' \in Started(row.dir)
           /\ IF Threw(sup') THEN Answers(r, "failed") ELSE Goes(r, "refreshing") /\ UNCHANGED op
  <2>1. row.dir \in Dirs
    BY <1>1, NoRowTyped
  <2>2. /\ sup' \in Entry
        /\ sup'.status = "restarting" => sup.status = "restarting"
        /\ sup' = sup \/ sup'.dir = row.dir
    BY <1>1, <1>3, <2>1, SpawnTyped
  <2>3. /\ \E c \in Request : /\ c.kind = request[r].kind /\ c.at \in {"done", "refreshing"}
                              /\ Moved(r, c) /\ (c.at # "done" => op'[r] \in {"none", "running"})
        /\ op' \in [Requests -> {"none", "running", "succeeded", "failed", "lost"}]
        /\ \A q \in Requests : q # r => op'[q] = op[q]
    <3>1. CASE Answers(r, "failed")
      BY <3>1, AnswersTo
    <3>2. CASE Goes(r, "refreshing") /\ UNCHANGED op
      <4>1. PICK c \in Request : /\ c.kind = request[r].kind /\ c.at = "refreshing"
                                 /\ PlaceOf(c) => Moved(r, c)
        BY <3>2, ContinueTo DEF Waits
      <4>2. Moved(r, c)
        BY <1>1, <4>1 DEF PlaceOf, Kinds
      <4> QED BY <1>1, <3>2, <4>1, <4>2
    <3> QED BY <1>3, <3>1, <3>2
  <2>4. PICK c \in Request : /\ c.kind = request[r].kind /\ c.at \in {"done", "refreshing"}
                             /\ Moved(r, c) /\ (c.at # "done" => op'[r] \in {"none", "running"})
    BY <2>3
  <2>5. Clean' => ~ChildUp
    BY <1>1, <2>4, InstallFindsNone
  <2>6. Clean' /\ ChildUp' => sup'.dir = row'.dir
    <3>1. sup' = sup => (ChildUp' <=> ChildUp)
      BY DEF ChildUp
    <3> QED BY <1>1, <2>2, <2>5, <3>1
  <2>7. ~FromRow(c) /\ ~Installing(c) /\ c.kind \notin {"stop", "uninstall"}
    BY <1>1, <2>4 DEF FromRow, Installing
  <2>8. sup'.status = "restarting" => sup.status = "restarting" /\ request[r].at # "stopping"
    BY <1>1, <2>2
  <2> QED BY <1>1, <1>3, <2>2, <2>3, <2>4, <2>6, <2>7, <2>8, RequestStep
<1> QED BY <1>2, <1>3 DEF Composed

LEMMA StopBeginsStep == ASSUME IInv, NEW r \in Requests, Begins(r), StopBegins(r) PROVE IInv'
<1> USE DEF IInv
<1>1. PICK k \in {"stop", "uninstall"} :
        \/ /\ ChildUp
           /\ request' = [request EXCEPT ![r] = [kind |-> k, at |-> "stopping", row |-> NoRow,
                                                 gen |-> sup.gen]]
           /\ sup' = Stopping("running") /\ UNCHANGED row
        \/ /\ ~ChildUp
           /\ sup' = IF sup.status = "absent" THEN sup ELSE Stopping("running")
           /\ request' = [request EXCEPT ![r].kind = k,
                                ![r].at = IF k = "stop" THEN "done" ELSE "removing"]
           /\ row' = IF k = "stop" THEN row ELSE NoRow
  BY DEF StopBegins
<1>2. /\ UNCHANGED <<package, op>> /\ package' \in Dirs /\ sup \in Entry /\ request[r].at = "new"
      /\ row \in Row \cup {NoRow} /\ op[r] = "none"
      /\ op' \in [Requests -> {"none", "running", "succeeded", "failed", "lost"}]
  BY DEF StopBegins, Begins, TypeOK, Unsettled
<1>3. ~Upgrading(request[r]) /\ request[r].at # "stopping"
  BY <1>2 DEF Upgrading
<1>4. CASE /\ ChildUp
           /\ request' = [request EXCEPT ![r] = [kind |-> k, at |-> "stopping", row |-> NoRow,
                                                 gen |-> sup.gen]]
           /\ sup' = Stopping("running") /\ UNCHANGED row
  <2>1. PICK c \in Request : c = [kind |-> k, at |-> "stopping", row |-> NoRow, gen |-> sup.gen]
    BY <1>2 DEF Request, Kinds, Entry
  <2>2. c.kind = k /\ c.at = "stopping" /\ c.gen = sup.gen
    BY <2>1
  <2>3. request' = [request EXCEPT ![r] = c]
    BY <1>4, <2>1
  <2>4. Moved(r, c)
    BY <2>2, <2>3, BeginMoves DEF Begins, PlaceOf, Kinds
  <2>5. /\ sup' \in Entry /\ sup'.dir = sup.dir /\ sup'.gen = sup.gen /\ sup'.status = "running"
    BY <1>2, <1>4, EntriesTyped
  <2>6. ~FromRow(c) /\ ~Installing(c)
    BY <2>2 DEF FromRow, Installing
  <2> QED BY <1>2, <1>3, <1>4, <2>2, <2>4, <2>5, <2>6, RequestStep
<1>5. CASE /\ ~ChildUp
           /\ sup' = IF sup.status = "absent" THEN sup ELSE Stopping("running")
           /\ request' = [request EXCEPT ![r].kind = k,
                                ![r].at = IF k = "stop" THEN "done" ELSE "removing"]
           /\ row' = IF k = "stop" THEN row ELSE NoRow
  <2>1. PICK at \in {"done", "removing"} : at = IF k = "stop" THEN "done" ELSE "removing"
    OBVIOUS
  <2>2. k \in Kinds /\ at \in Waits /\ Becomes(r, k, at)
    BY <1>5, <2>1 DEF Kinds, Waits, Becomes
  <2>3. PICK c \in Request : c.kind = k /\ c.at = at /\ request' = [request EXCEPT ![r] = c]
    BY <2>2, Relabelled
  <2>4. Moved(r, c)
    BY <2>1, <2>3, BeginMoves DEF Begins, PlaceOf, Kinds
  <2>5. /\ sup' \in Entry /\ sup'.gen = sup.gen /\ sup'.status \in {sup.status, "stopped"}
        /\ sup'.dir = sup.dir
    BY <1>2, <1>5, EntriesTyped
  <2>6. ~ChildUp' /\ sup'.status # "restarting"
    BY <1>5, <2>5 DEF ChildUp
  <2>7. row' \in Row \cup {NoRow}
    BY <1>2, <1>5
  <2>8. ~FromRow(c) /\ ~Installing(c) /\ c.at # "stopping"
    BY <2>1, <2>3 DEF FromRow, Installing
  <2> QED BY <1>2, <1>3, <1>5, <2>3, <2>4, <2>5, <2>6, <2>7, <2>8, RequestStep
<1> QED BY <1>1, <1>4, <1>5

LEMMA StopReturnsStep == ASSUME IInv, NEW r \in Requests, Continues(r), StopReturns(r) PROVE IInv'
<1> USE DEF IInv
<1>1. /\ request[r].at = "stopping" /\ request[r].kind \in {"stop", "uninstall"}
      /\ sup' = IF sup.gen = request[r].gen THEN [sup EXCEPT !.status = "stopped"] ELSE sup
      /\ UNCHANGED <<package, op>> /\ package' \in Dirs /\ sup \in Entry
      /\ row \in Row \cup {NoRow} /\ op[r] \in {"none", "running"}
      /\ op' \in [Requests -> {"none", "running", "succeeded", "failed", "lost"}]
  BY DEF StopReturns, TypeOK, Unsettled, Continues
<1>2. /\ sup' \in Entry /\ sup'.dir = sup.dir /\ sup'.gen = sup.gen
      /\ sup' = sup \/ sup'.status = "stopped"
      /\ sup.gen = request[r].gen => sup'.status = "stopped"
  BY <1>1, EntriesTyped
<1>3. PICK at \in {"done", "removing"} :
          /\ Goes(r, at) /\ row' = IF at = "done" THEN row ELSE NoRow
          /\ (at = "done") = (request[r].kind = "stop")
  BY <1>1 DEF StopReturns
<1>4. PICK c \in Request : /\ c.kind = request[r].kind /\ c.at = at
                           /\ PlaceOf(c) => Moved(r, c)
  BY <1>3, ContinueTo DEF Waits
<1>5. Moved(r, c)
  BY <1>1, <1>3, <1>4 DEF PlaceOf, Kinds
<1>6. /\ ChildUp' => ChildUp
      /\ sup.gen = request[r].gen => ~ChildUp'
      /\ sup'.status = "restarting" => sup.status = "restarting"
  BY <1>2 DEF ChildUp
<1>7. Excuse => Excuse' /\ ~Clean'
  BY <1>5, MovedHistory, MovedPairs, ExcuseIsNotClean
<1>8. c.kind = "uninstall" /\ ChildUp' => Excuse' /\ ~Clean'
  BY <1>1, <1>4, <1>6, <1>7 DEF Strays
<1>9. ~FromRow(c) /\ ~Installing(c) /\ ~Upgrading(request[r]) /\ ~Starts(request[r].kind)
  BY <1>1, <1>3, <1>4 DEF FromRow, Installing, Upgrading, Starts
<1>10. /\ row' \in Row \cup {NoRow} /\ (c.kind = "stop" => row' = row)
       /\ c.kind = "uninstall" => row' = NoRow
  BY <1>1, <1>3, <1>4
<1>11. Clean' /\ ChildUp' => /\ ChildUp /\ sup'.dir = sup.dir /\ row'.dir = row.dir
                             /\ ~Upgrading(request[r])
  BY <1>1, <1>2, <1>4, <1>6, <1>8, <1>9, <1>10
<1> QED BY <1>1, <1>2, <1>3, <1>4, <1>5, <1>6, <1>8, <1>9, <1>10, <1>11, RequestStep

-----------------------------------------------------------------------------
LEMMA ChildGivesUpStep == ASSUME IInv, ChildGivesUp PROVE IInv'
<1> USE DEF IInv
<1>1. /\ sup.status = "running" /\ sup' = [sup EXCEPT !.status = "crashed"] /\ sup \in Entry
      /\ UNCHANGED <<row, package, request, op, hub, hubDeaths, overlap>>
  BY DEF ChildGivesUp, TypeOK
<1>2. sup' \in Entry /\ sup'.gen = sup.gen /\ sup'.status = "crashed"
  BY <1>1, EntriesTyped
<1>3. TypeOK' /\ Places' /\ Paired' /\ Unsettled'
  BY <1>1, <1>2 DEF TypeOK, Places, InFlight, Paired, Unsettled
<1>4. ~ChildUp' /\ (Excuse' <=> Excuse) /\ (Clean' <=> Clean)
      /\ \A r \in Requests : Beside(r, {"uninstall"})' <=> Beside(r, {"uninstall"})
  BY <1>1, <1>2 DEF ChildUp, Excuse, Clean, Beside
<1>5. Strays'
  BY <1>1, <1>2, <1>4 DEF Strays
<1>6. Stamps'
  BY <1>1, <1>4 DEF Stamps
<1> QED BY <1>3, <1>5, <1>6

LEMMA RowDriftsStep == ASSUME IInv, RowDrifts PROVE IInv'
<1> USE DEF IInv
<1>1. /\ row # NoRow /\ row \in Row /\ row' = [row EXCEPT !.port = "drifted"]
      /\ UNCHANGED <<package, sup, request, op, hub, hubDeaths, overlap>>
  BY DEF RowDrifts, TypeOK
<1>2. row' \in Row /\ row'.dir = row.dir
  BY <1>1 DEF Row
<1>3. row' # NoRow
  BY <1>2, NoRowTyped
<1>4. TypeOK' /\ Places' /\ Paired' /\ Unsettled'
  BY <1>1, <1>2 DEF TypeOK, Places, InFlight, Paired, Unsettled
<1>5. /\ (ChildUp' <=> ChildUp) /\ (Excuse' <=> Excuse) /\ (Clean' <=> Clean)
      /\ \A r \in Requests : Beside(r, {"uninstall"})' <=> Beside(r, {"uninstall"})
  BY <1>1 DEF ChildUp, Excuse, Clean, Beside
<1>6. Strays'
  BY <1>1, <1>3, <1>5 DEF Strays
<1>7. Stamps'
  BY <1>1, <1>2, <1>5 DEF Stamps
<1> QED BY <1>4, <1>6, <1>7

LEMMA HubDiesStep == ASSUME IInv, HubDies PROVE IInv'
<1> USE DEF IInv
<1>1. /\ hub' = "down" /\ hubDeaths' = hubDeaths + 1 /\ hubDeaths \in Nat
      /\ sup' = [Absent EXCEPT !.gen = sup.gen] /\ sup \in Entry
      /\ request' = [r \in Requests |-> IF InFlight(r) THEN [request[r] EXCEPT !.at = "done"]
                                                       ELSE request[r]]
      /\ op' = [r \in Requests |-> IF op[r] = "none" THEN "none" ELSE "lost"]
      /\ UNCHANGED <<row, package, overlap>>
  BY DEF HubDies, TypeOK
<1>2. sup' \in Entry /\ sup'.status = "absent"
  BY <1>1, NoRowTyped DEF Absent, Entry
<1>3. ASSUME NEW r \in Requests
      PROVE  /\ request'[r] \in Request /\ request'[r].kind = request[r].kind
             /\ request'[r].at \in {"new", "done"}
             /\ request'[r].at = "new" <=> request[r].at = "new"
  <2>1. PICK x \in Request : x = request[r]
    BY DEF TypeOK
  <2>2. [x EXCEPT !.at = "done"] \in Request /\ [x EXCEPT !.at = "done"].kind = x.kind
        /\ [x EXCEPT !.at = "done"].at = "done"
    BY DEF Request
  <2>3. CASE InFlight(r)
    BY <1>1, <2>1, <2>2, <2>3 DEF InFlight
  <2>4. CASE ~InFlight(r)
    BY <1>1, <2>1, <2>4 DEF InFlight
  <2> QED BY <2>3, <2>4
<1>4. TypeOK'
  <2>1. request' \in [Requests -> Request]
    BY <1>1, <1>3
  <2> QED BY <1>1, <1>2, <2>1 DEF TypeOK
<1>5. \A r \in Requests : ~InFlight(r)'
  BY <1>3 DEF InFlight
<1>6. Places'
  BY <1>3, <1>5 DEF Places, PlaceOf
<1>7. Paired'
  BY <1>1, <1>3, <1>5 DEF Paired
<1>8. Unsettled'
  BY <1>1, <1>3, <1>5 DEF Unsettled
<1>9. (Excuse' <=> Excuse) /\ ~ChildUp'
  BY <1>1, <1>2, <1>3 DEF Excuse, Beside, ChildUp
<1>10. \A r \in Requests : ~FromRow(request'[r]) /\ request'[r].at \notin {"stopping", "refreshing"}
  BY <1>3 DEF FromRow
<1>11. Strays'
  BY <1>2, <1>9, <1>10 DEF Strays
<1>12. Stamps'
  BY <1>9, <1>10 DEF Stamps
<1> QED BY <1>4, <1>6, <1>7, <1>8, <1>11, <1>12

LEMMA BootStep == ASSUME IInv, Boot PROVE IInv'
<1> USE DEF IInv
<1>1. /\ hub = "down" /\ hub' = "up" /\ row' \in Reconciled(row) /\ sup \in Entry
      /\ (row # NoRow /\ sup' \in Started(row.dir)) \/ sup' = sup
      /\ UNCHANGED <<package, request, op, hubDeaths, overlap>> /\ row \in Row \cup {NoRow}
  BY DEF Boot, TypeOK
<1>2. \A r \in Requests : ~InFlight(r)
  BY <1>1 DEF Places
<1>3. /\ row' \in Row \cup {NoRow} /\ row'.dir = row.dir /\ (row' = NoRow => row = NoRow)
  BY <1>1, RowsTyped, NoRowTyped
<1>4. /\ sup' \in Entry
      /\ sup'.status = "restarting" => sup.status = "restarting"
      /\ sup' = sup \/ (row # NoRow /\ sup'.dir = row.dir)
  <2>1. CASE sup' = sup
    BY <1>1, <2>1
  <2>2. CASE row # NoRow /\ sup' \in Started(row.dir)
    BY <1>1, <2>2, NoRowTyped, SpawnTyped
  <2> QED BY <1>1, <2>1, <2>2
<1>5. TypeOK' /\ Paired' /\ Unsettled'
  BY <1>1, <1>3, <1>4 DEF TypeOK, InFlight, Paired, Unsettled
<1>6. Places'
  BY <1>1 DEF Places, InFlight
<1>7. \A r \in Requests : /\ request'[r] = request[r] /\ ~FromRow(request[r]) /\ ~Installing(request[r])
                          /\ request[r].at \notin {"stopping", "refreshing", "resolving"}
  BY <1>1, <1>2 DEF InFlight, FromRow, Installing
<1>8. (Excuse' <=> Excuse) /\ (Clean' <=> Clean)
  BY <1>1 DEF Excuse, Clean, Beside
<1>9. Strays'
  <2>1. row' = NoRow /\ ChildUp' => Excuse
    BY <1>3, <1>4 DEF Strays, ChildUp
  <2>2. sup.status # "restarting"
    BY <1>7 DEF Strays
  <2> QED BY <1>4, <1>7, <1>8, <2>1, <2>2 DEF Strays
<1>10. Stamps'
  <2>1. ASSUME Clean, ChildUp' PROVE sup'.dir = row'.dir
    <3>1. CASE sup' = sup
      BY <1>3, <1>7, <2>1, <3>1 DEF Stamps, ChildUp
    <3> QED BY <1>3, <1>4, <3>1
  <2> QED BY <1>7, <1>8, <2>1 DEF Stamps, Installing
<1> QED BY <1>5, <1>6, <1>9, <1>10

-----------------------------------------------------------------------------
LEMMA InitStep == Init => IInv
<1> SUFFICES ASSUME Init PROVE IInv
  OBVIOUS
<1>1. /\ row \in {NoRow, [port |-> "canonical", dir |-> 1]}
      /\ package = IF row = NoRow THEN 0 ELSE 1
      /\ sup = IF row = NoRow THEN Absent ELSE [Absent EXCEPT !.status = "running", !.dir = 1]
      /\ op = [r \in Requests |-> "none"] /\ hub = "up" /\ hubDeaths = 0 /\ overlap = {}
  BY DEF Init
<1>2. PICK c \in Request : c = [kind |-> "none", at |-> "new", row |-> NoRow, gen |-> 0]
  BY DEF Request
<1>3. request \in [Requests -> Request] /\ \A r \in Requests : request[r] = c
  BY <1>2 DEF Init
<1>4. c.kind = "none" /\ c.at = "new"
  BY <1>2
<1>5. 1 \in Dirs /\ 0 \in Dirs
  BY DEF Dirs
<1>6. /\ row \in Row \cup {NoRow}
      /\ row # NoRow => row.dir = 1
  BY <1>1, <1>5 DEF Row
<1>7. /\ sup \in Entry /\ sup.gen = 0
      /\ IF row = NoRow THEN sup.status = "absent" ELSE sup.status = "running" /\ sup.dir = 1
  <2>1. Absent \in Entry /\ Absent.status = "absent" /\ Absent.gen = 0
    BY <1>5 DEF Absent, Entry
  <2>2. LET e == [Absent EXCEPT !.status = "running", !.dir = 1]
        IN  e \in Entry /\ e.status = "running" /\ e.dir = 1 /\ e.gen = 0
    BY <1>5 DEF Absent, Entry
  <2> QED BY <1>1, <2>1, <2>2
<1>8. TypeOK
  BY <1>1, <1>3, <1>5, <1>6, <1>7 DEF TypeOK
<1>9. Places /\ Paired /\ Unsettled
  BY <1>1, <1>3, <1>4 DEF Places, PlaceOf, InFlight, Paired, Unsettled
<1>10. Strays /\ Stamps
  BY <1>3, <1>4, <1>6, <1>7 DEF Strays, Stamps, FromRow, ChildUp
<1> QED BY <1>8, <1>9, <1>10 DEF IInv

LEMMA NextStep == IInv /\ [Next]_vars => IInv'
<1> SUFFICES ASSUME IInv, [Next]_vars PROVE IInv'
  OBVIOUS
<1>1. ASSUME NEW r \in Requests, Begin(r) PROVE IInv'
  <2>1. Begins(r)
    BY <1>1 DEF Begin, Begins
  <2> QED BY <1>1, <2>1, StartReadsStep, StopBeginsStep, InstallBeginsStep, UpgradeBeginsStep
          DEF Begin
<1>2. ASSUME NEW r \in Requests, Continue(r) PROVE IInv'
  <2>1. Continues(r)
    BY <1>2 DEF Continue, Continues, InFlight, Resolved, RestartReturns, StopReturns, Removed,
                AddFails, AddSucceeds, Seeds, Composed, Refreshed
  <2> QED BY <1>2, <2>1, ResolvedStep, RestartReturnsStep, StopReturnsStep, RemovedStep,
             AddFailsStep, AddSucceedsStep, SeedsStep, ComposedStep, RefreshedStep DEF Continue
<1>3. CASE ChildGivesUp \/ RowDrifts \/ HubDies \/ Boot
  BY <1>3, ChildGivesUpStep, RowDriftsStep, HubDiesStep, BootStep
<1>4. CASE UNCHANGED vars
  <2>1. UNCHANGED <<row, package, sup, request, op, hub, hubDeaths, overlap>>
    BY <1>4 DEF vars
  <2>2. TypeOK' /\ Places' /\ Paired' /\ Unsettled'
    BY <2>1 DEF IInv, TypeOK, Places, InFlight, Paired, Unsettled
  <2>3. Strays' /\ Stamps'
    BY <2>1 DEF IInv, Strays, Stamps, ChildUp, Excuse, Clean, Beside
  <2> QED BY <2>2, <2>3 DEF IInv
<1> QED BY <1>1, <1>2, <1>3, <1>4 DEF Next

LEMMA Invariance == Spec => []IInv
<1> QED BY InitStep, NextStep, PTL DEF Spec

-----------------------------------------------------------------------------
\* Every variable keeps its type, in whatever order the handlers of
\* api-modules-ops.ts interleave at their awaits.
THEOREM TypeCorrect == Spec => []TypeOK
<1>1. IInv => TypeOK
  BY DEF IInv
<1> QED BY <1>1, Invariance, PTL

\* handleUninstall drops the row only once the child is gone, and every handler that
\* starts the module has found its row: a module runs without one only after an
\* uninstall beside another request, or a replay of the entry's old command.
THEOREM StraysHaveAnExcuse == Spec => []StrayNeedsOverlap
<1>1. IInv => StrayNeedsOverlap
  BY DEF IInv, Strays, Excuse, ChildUp, StrayNeedsOverlap
<1> QED BY <1>1, Invariance, PTL

\* Once the handlers of api-modules-ops.ts are through, the release that runs is the
\* one stampInstallDirOnRow left in the row, however starts, stops and restarts
\* overlapped.
THEOREM RunsTheStampedRelease == Spec => []RunsWhatIsStamped
<1>1. ASSUME IInv PROVE RunsWhatIsStamped
  <2> SUFFICES ASSUME sup.status = "running",
                      \A r \in Requests :
                          /\ ~InFlight(r) /\ request[r].kind # "replay"
                          /\ request[r].kind \in {"install", "upgrade", "uninstall"}
                                => ~Beside(r, Kinds \ {"stop"})
               PROVE  row # NoRow /\ sup.dir = row.dir
    BY DEF RunsWhatIsStamped
  <2>1. Clean
    BY DEF Clean
  <2>2. row # NoRow
    BY <1>1, <2>1, ExcuseIsNotClean DEF IInv, Strays, ChildUp
  <2>3. \A r \in Requests : request[r].at \notin {"resolving", "stopping"}
    BY DEF InFlight
  <2>4. sup.dir = row.dir
    BY <1>1, <2>1, <2>3 DEF IInv, Stamps, ChildUp
  <2> QED BY <2>2, <2>4
<1> QED BY <1>1, Invariance, PTL

-----------------------------------------------------------------------------
\* What a step does to the operation of r: an end reported is kept or forgotten with
\* the hub, and an install that ends well has left its row.
StandsFor(r) ==
    /\ op[r] \in {"succeeded", "failed"} => op'[r] \in {op[r], "lost"}
    /\ request[r].kind' = "install" /\ op[r] # "succeeded" /\ op'[r] = "succeeded"
          => row' # NoRow \/ Beside(r, {"uninstall"})'

LEMMA KeptStands == ASSUME NEW r \in Requests, op'[r] = op[r] PROVE StandsFor(r)
BY DEF StandsFor

\* A request in flight has not been answered yet, and answers for itself alone.
LEMMA FailureStands ==
    ASSUME IInv, NEW p \in Requests, InFlight(p), UNCHANGED op \/ Answers(p, "failed"),
           NEW r \in Requests
    PROVE  StandsFor(r)
<1>1. CASE op'[r] = op[r]
  BY <1>1, KeptStands
<1>2. CASE op'[r] # op[r]
  <2>1. r = p /\ op'[r] = "failed" /\ op[r] = "running"
    BY <1>2 DEF IInv, TypeOK, Unsettled, Answers
  <2> QED BY <2>1 DEF StandsFor
<1> QED BY <1>1, <1>2

LEMMA BeginStands == ASSUME IInv, NEW p \in Requests, Begin(p), NEW r \in Requests PROVE StandsFor(r)
<1>1. op[p] = "none" /\ op \in [Requests -> {"none", "running", "succeeded", "failed", "lost"}]
  BY DEF IInv, TypeOK, Unsettled, Begin
<1>2. CASE StartReads(p) \/ StopBegins(p)
  BY <1>2, KeptStands DEF StartReads, StopBegins
<1>3. CASE UpgradeBegins(p)
  <2>1. op' = [op EXCEPT ![p] = "running"]
    BY <1>3 DEF UpgradeBegins
  <2> QED BY <1>1, <2>1 DEF StandsFor
<1>4. CASE InstallBegins(p)
  <2>1. \/ op' = [op EXCEPT ![p] = "succeeded"] /\ row' = row /\ row # NoRow
        \/ op' = [op EXCEPT ![p] = "running"]
    BY <1>4 DEF InstallBegins
  <2> QED BY <1>1, <2>1 DEF StandsFor
<1> QED BY <1>2, <1>3, <1>4 DEF Begin

LEMMA ContinueStands ==
    ASSUME IInv, NEW p \in Requests, Continue(p), NEW r \in Requests PROVE StandsFor(r)
<1>1. InFlight(p) /\ Continues(p)
  BY DEF Continue, Continues, InFlight, Resolved, RestartReturns, StopReturns, Removed, AddFails,
         AddSucceeds, Seeds, Composed, Refreshed
<1>2. CASE Resolved(p) \/ AddSucceeds(p)
  <2>1. UNCHANGED op \/ Answers(p, "failed")
    BY <1>2 DEF Resolved, AddSucceeds, RestartBegins
  <2> QED BY <1>1, <2>1, FailureStands
<1>3. CASE RestartReturns(p) \/ StopReturns(p) \/ Removed(p) \/ AddFails(p) \/ Seeds(p) \/ Composed(p)
  <2>1. UNCHANGED op \/ Answers(p, "failed")
    BY <1>3 DEF RestartReturns, StopReturns, Removed, AddFails, Seeds, Composed
  <2> QED BY <1>1, <2>1, FailureStands
<1>4. CASE Refreshed(p)
  <2>1. request[p].at = "refreshing" /\ Answers(p, "succeeded") /\ UNCHANGED <<row, package, sup>>
    BY <1>4 DEF Refreshed
  <2>2. PICK c \in Request : c.kind = request[p].kind /\ c.at = "done" /\ Moved(p, c)
    BY <1>1, <2>1, AnswersTo
  <2>3. CASE r = p
    <3>1. op[p] \in {"none", "running"}
      BY <1>1 DEF IInv, Unsettled
    <3>2. request'[p].kind = request[p].kind
      BY <2>2, MovedOthers DEF IInv
    <3>3. request[p].kind = "install" /\ row = NoRow => Beside(p, {"uninstall"})
      BY <2>1 DEF IInv, Strays
    <3>4. Beside(p, {"uninstall"}) => Beside(p, {"uninstall"})'
      BY <2>2, MovedHistory DEF IInv
    <3> QED BY <2>1, <2>3, <3>1, <3>2, <3>3, <3>4 DEF StandsFor
  <2>4. CASE r # p
    <3>1. op'[r] = op[r]
      BY <2>1, <2>4, AnswerSettles DEF Answers, IInv
    <3> QED BY <3>1, KeptStands
  <2> QED BY <2>3, <2>4
<1> QED BY <1>2, <1>3, <1>4 DEF Continue

\* The operations registry of api-modules-ops.ts answers a poll with an end once and
\* for all, until the hub forgets it, and no install is reported done whose row is
\* missing, unless an uninstall ran beside it.
THEOREM ReportsStand == Spec => OutcomesStand
<1>1. ASSUME IInv, [Next]_vars, NEW r \in Requests PROVE StandsFor(r)
  <2>1. CASE \E p \in Requests : Begin(p) \/ Continue(p)
    BY <1>1, <2>1, BeginStands, ContinueStands
  <2>2. CASE ChildGivesUp \/ RowDrifts \/ Boot \/ UNCHANGED vars
    BY <2>2, KeptStands DEF ChildGivesUp, RowDrifts, Boot, vars
  <2>3. CASE HubDies
    <3>1. op'[r] \in {"none", "lost"} /\ (op'[r] = "none" => op[r] = "none")
      BY <2>3 DEF HubDies
    <3> QED BY <3>1 DEF StandsFor
  <2> QED BY <1>1, <2>1, <2>2, <2>3 DEF Next
<1>2. IInv /\ [Next]_vars
         => [\A r \in Requests :
                /\ op[r] \in {"succeeded", "failed"} => op'[r] \in {op[r], "lost"}
                /\ request[r].kind' = "install" /\ op[r] # "succeeded" /\ op'[r] = "succeeded"
                      => row' # NoRow \/ Beside(r, {"uninstall"})']_vars
  BY <1>1 DEF StandsFor
<1> QED BY <1>2, Invariance, PTL DEF Spec, OutcomesStand
=============================================================================
