-------------------------- MODULE AgentGrantsProofs --------------------------
(***************************************************************************)
(* Theorems about AgentGrants for any number of grants, handlers, pending  *)
(* consents and credentials.                                               *)
(***************************************************************************)
EXTENDS AgentGrants, FiniteSetTheorems, TLAPS

USE GrantsAssumption

-----------------------------------------------------------------------------
\* What the handlers know of the grants they hold: which kinds they can be, that
\* only a reconcile holds several, and which one it awaits.
AboutRemote == {"discovering", "exchanging", "issued", "replacing", "refreshing",
                "answered", "revoking"}

KindOK(q) ==
    /\ q.at \in AboutRemote => q.scope \subseteq Remote
    /\ q.at = "signing" => q.scope \subseteq Minted
    /\ q.at = "pruning" => q.cur \in q.scope \cap Remote
    /\ q.at # "pruning" => \A g, h \in q.scope : g = h

Kinds ==
    /\ \A r \in Reqs : KindOK(req[r])
    /\ \A f \in Flows : flow[f] \in Remote \cup {NoGrant}
    /\ \A g \in Grants : grant[g].status = "none" => grant[g].material = Nothing

\* A handler that holds a grant has read the one token of it that is live, and
\* one that signs has none to read.
KnownPrior ==
    \A r \in Reqs, g \in Minted \ overlapped, c \in Creds :
        Holds(r, g) /\ cred[c].state = "live" /\ cred[c].grant = g
            => req[r].at \in {"body", "pruning"} /\ req[r].seen[g] = c

IInv == TypeOK /\ Kinds /\ MintedIsRecorded /\ KnownPrior

\* The updates of the actions keep every variable in its type.
LEMMA IdleTyped == Idle \in Request /\ Idle.scope = {} /\ Idle.at = "idle"
<1>1. Blank \in [Grants -> Materials] /\ Nothing \in Materials
  BY DEF Blank, Materials
<1>2. /\ Idle.at = "idle" /\ Idle.scope = {} /\ Idle.cur = NoGrant
      /\ Idle.new = Nothing /\ Idle.seen = Blank
  BY DEF Idle
<1>3. Idle \in Request
  BY <1>1 DEF Idle, Request
<1> QED BY <1>2, <1>3

LEMMA RecordTyped == NoRecord \in GrantRecord
BY DEF NoRecord, GrantRecord, Materials

LEMMA KilledTyped ==
    ASSUME TypeOK, NEW C
    PROVE  /\ Killed(C) \in [Creds -> Credential]
           /\ \A c \in Creds : /\ Killed(C)[c].grant = cred[c].grant
                               /\ Killed(C)[c].state = "live" <=>
                                    cred[c].state = "live" /\ c \notin C
                               /\ Killed(C)[c].state = "unborn" <=> cred[c].state = "unborn"
<1> SUFFICES ASSUME NEW c \in Creds
             PROVE  LET k == IF c \in C /\ cred[c].state = "live"
                             THEN [cred[c] EXCEPT !.state = "dead"] ELSE cred[c]
                    IN  /\ k \in Credential /\ k.grant = cred[c].grant
                        /\ k.state = "live" <=> cred[c].state = "live" /\ c \notin C
                        /\ k.state = "unborn" <=> cred[c].state = "unborn"
  BY DEF Killed
<1>1. cred[c] \in Credential
  BY DEF TypeOK
<1>2. [cred[c] EXCEPT !.state = "dead"] \in Credential
       /\ [cred[c] EXCEPT !.state = "dead"].grant = cred[c].grant
       /\ [cred[c] EXCEPT !.state = "dead"].state = "dead"
  BY <1>1 DEF Credential
<1> QED BY <1>1, <1>2

LEMMA EndsTyped ==
    ASSUME TypeOK, NEW r \in Reqs, Ends(r)
    PROVE  /\ req' \in [Reqs -> Request] /\ req'[r].scope = {} /\ req'[r].at = "idle"
           /\ \A q \in Reqs \ {r} : req'[q] = req[q]
           /\ Kinds => \A q \in Reqs : KindOK(req'[q])
<1>1. /\ req' \in [Reqs -> Request] /\ req'[r].scope = {} /\ req'[r].at = "idle"
      /\ \A q \in Reqs \ {r} : req'[q] = req[q]
  BY IdleTyped DEF TypeOK, Ends
<1>2. KindOK(req'[r])
  BY <1>1 DEF KindOK, AboutRemote
<1> QED BY <1>1, <1>2 DEF Kinds

LEMMA GoesTyped ==
    ASSUME TypeOK, NEW r \in Reqs, NEW new \in Materials,
           NEW at \in {"signing", "discovering", "issued", "replacing", "answered"},
           Goes(r, at, new), NEW g \in Grants, Holds(r, g), req[r].at # "pruning",
           at = "signing" => g \in Minted, at # "signing" => g \in Remote
    PROVE  /\ req' \in [Reqs -> Request]
           /\ req'[r].at = at /\ req'[r].new = new
           /\ req'[r].scope = req[r].scope /\ req'[r].seen = req[r].seen
           /\ \A q \in Reqs \ {r} : req'[q] = req[q]
           /\ Kinds => \A q \in Reqs : KindOK(req'[q])
<1>1. req[r] \in Request
  BY DEF TypeOK
<1>2. /\ [req[r] EXCEPT !.at = at, !.new = new] \in Request
      /\ [req[r] EXCEPT !.at = at, !.new = new].at = at
      /\ [req[r] EXCEPT !.at = at, !.new = new].new = new
      /\ [req[r] EXCEPT !.at = at, !.new = new].scope = req[r].scope
      /\ [req[r] EXCEPT !.at = at, !.new = new].seen = req[r].seen
  BY <1>1 DEF Request
<1>3. /\ req' \in [Reqs -> Request]
      /\ req'[r].at = at /\ req'[r].new = new
      /\ req'[r].scope = req[r].scope /\ req'[r].seen = req[r].seen
      /\ \A q \in Reqs \ {r} : req'[q] = req[q]
  BY <1>2 DEF TypeOK, Goes
<1>4. ASSUME Kinds PROVE \A q \in Reqs : KindOK(req'[q])
  <2>1. req[r].scope \subseteq {g}
    BY <1>4 DEF Kinds, KindOK, Holds
  <2>2. KindOK(req'[r])
    BY <1>3, <2>1 DEF KindOK, AboutRemote
  <2> QED BY <1>3, <1>4, <2>2 DEF Kinds
<1> QED BY <1>3, <1>4

LEMMA BeginsTyped ==
    ASSUME TypeOK, NEW r \in Reqs, NEW g \in Grants,
           NEW at \in {"body", "exchanging", "refreshing", "revoking"}, Begins(r, at, g),
           at # "body" => g \in Remote
    PROVE  /\ req' \in [Reqs -> Request]
           /\ req'[r].at = at /\ req'[r].scope = {g}
           /\ req'[r].seen[g] = grant[g].material
           /\ \A q \in Reqs \ {r} : req'[q] = req[q]
           /\ Kinds => \A q \in Reqs : KindOK(req'[q])
<1> DEFINE seen == [Blank EXCEPT ![g] = grant[g].material]
           new == [Idle EXCEPT !.at = at, !.scope = {g}, !.seen = seen]
<1>1. grant[g].material \in Materials
  BY DEF TypeOK, GrantRecord
<1>2. seen \in [Grants -> Materials] /\ seen[g] = grant[g].material
  BY <1>1 DEF Blank, Materials
<1>3. Idle \in [at: {"idle"}, scope: {{}}, seen: {Blank}, cur: {NoGrant}, new: {Nothing}]
  BY DEF Idle
<1> HIDE DEF seen
<1>4. new \in Request /\ new.at = at /\ new.scope = {g} /\ new.seen = seen
  BY <1>2, <1>3, IdleTyped DEF Request
<1>5. req' = [req EXCEPT ![r] = new]
  BY DEF Begins, seen
<1> HIDE DEF new
<1>6. req'[r] = new /\ \A q \in Reqs \ {r} : req'[q] = req[q]
  BY <1>4, <1>5 DEF TypeOK
<1>7. KindOK(req'[r])
  BY <1>4, <1>6 DEF KindOK, AboutRemote
<1>8. req' \in [Reqs -> Request]
  BY <1>4, <1>5 DEF TypeOK
<1> QED BY <1>2, <1>4, <1>6, <1>7, <1>8 DEF Kinds

LEMMA PutsTyped ==
    ASSUME TypeOK, NEW R, NEW g \in Grants, NEW material \in Materials,
           NEW status \in {"pending", "approved", "revoked", "needs_consent"},
           Puts(R, g, status, material)
    PROVE  /\ grant' \in [Grants -> GrantRecord]
           /\ credit' \in [Grants -> -1 .. clicks]
           /\ overlapped' \subseteq Grants /\ broken' \subseteq Grants
           /\ overlapped \subseteq overlapped'
           /\ material # Nothing /\ g \notin overlapped'
                => \A q \in Reqs \ R : ~Holds(q, g)
           /\ grant'[g].status = status /\ grant'[g].material = material
           /\ \A h \in Grants \ {g} : grant'[h] = grant[h]
           /\ Kinds => \A h \in Grants :
                           grant'[h].status = "none" => grant'[h].material = Nothing
<1>1. [status |-> status, material |-> material] \in GrantRecord
  BY DEF GrantRecord
<1>2. credit' \in [Grants -> -1 .. clicks]
  <2>1. clicks \in Nat /\ credit \in [Grants -> -1 .. clicks]
    BY DEF TypeOK
  <2>2. \A k \in -1 .. clicks : (IF k < 0 THEN k ELSE k - 1) \in -1 .. clicks
    BY <2>1
  <2> QED BY <2>1, <2>2 DEF Puts
<1>3. /\ overlapped' \subseteq Grants /\ broken' \subseteq Grants
      /\ overlapped \subseteq overlapped'
  BY DEF Puts, TypeOK
<1>4. material # Nothing /\ g \notin overlapped' => \A q \in Reqs \ R : ~Holds(q, g)
  BY DEF Puts
<1>5. /\ grant' \in [Grants -> GrantRecord]
      /\ grant'[g].status = status /\ grant'[g].material = material
      /\ \A h \in Grants \ {g} : grant'[h] = grant[h]
  BY <1>1 DEF Puts, TypeOK
<1>6. ASSUME Kinds, NEW h \in Grants, grant'[h].status = "none"
      PROVE  grant'[h].material = Nothing
  BY <1>5, <1>6 DEF Kinds
<1> QED BY <1>2, <1>3, <1>4, <1>5, <1>6

LEMMA BornTyped ==
    ASSUME TypeOK, NEW c \in Creds, NEW g \in Grants, NEW k \in [Creds -> Credential]
    PROVE  LET b == [k EXCEPT ![c] = [state |-> "live", grant |-> g]]
           IN  /\ b \in [Creds -> Credential]
               /\ b[c].state = "live" /\ b[c].grant = g
               /\ \A d \in Creds \ {c} : b[d] = k[d]
BY DEF Credential

\* A reconcile ends, or asks for the teardown of one more record; those of the
\* batch are removed and their credentials dead.
Pruned(r, seen, rest, gone, batch) ==
    /\ \A c \in Creds : cred'[c].state = "live" =>
            /\ cred[c].state = "live" /\ cred[c].grant = cred'[c].grant
            /\ \A g \in batch : c # seen[g]
    /\ \A c \in Creds : /\ cred'[c].grant = cred[c].grant
                        /\ cred'[c].state = "unborn" <=> cred[c].state = "unborn"
    /\ \A c \in Creds : cred[c].state = "live" /\ cred'[c].state # "live"
                             => \E g \in batch : c = seen[g]
    /\ \A g \in Grants \ (gone \cup batch) : grant'[g] = grant[g]
    /\ \A g \in Grants : g \in gone \cup batch => grant'[g] = NoRecord
    /\ broken' = broken \ (gone \cup batch)
    /\ \A q \in Reqs \ {r} : req'[q] = req[q]
    /\ \/ req'[r].scope = {} /\ req'[r].at = "idle" /\ wire' = wire
       \/ /\ req'[r].at = "pruning" /\ req'[r].scope = rest \ batch
          /\ req'[r].seen = seen /\ req'[r].cur \in rest \ batch
          /\ Asks({seen[req'[r].cur]})

LEMMA PrunesTyped ==
    ASSUME TypeOK, NEW r \in Reqs, NEW seen \in [Grants -> Materials],
           NEW rest \in SUBSET Grants, NEW gone, Prunes(r, seen, rest, gone)
    PROVE  /\ grant' \in [Grants -> GrantRecord] /\ cred' \in [Creds -> Credential]
           /\ wire' \subseteq Creds
           /\ req' \in [Reqs -> Request] /\ broken' \subseteq Grants
           /\ \A g \in Grants : grant'[g] \in {NoRecord, grant[g]}
           /\ Kinds => \A q \in Reqs : KindOK(req'[q])
           /\ \E batch \in SUBSET rest : Pruned(r, seen, rest, gone, batch)
<1>1. PICK batch \in SUBSET {g \in rest : ~Awaited(g, seen[g])} :
            Prunes(r, seen, rest, gone)!(batch)
  BY DEF Prunes
<1> DEFINE left == rest \ batch
           next(g) == [at |-> "pruning", scope |-> left, seen |-> seen, cur |-> g,
                       new |-> Nothing]
<1>2. /\ cred' \in [Creds -> Credential]
      /\ \A c \in Creds : cred'[c].state = "live" =>
            /\ cred[c].state = "live" /\ cred[c].grant = cred'[c].grant
            /\ \A g \in batch : c # seen[g]
      /\ \A c \in Creds : /\ cred'[c].grant = cred[c].grant
                          /\ cred'[c].state = "unborn" <=> cred[c].state = "unborn"
      /\ \A c \in Creds : cred[c].state = "live" /\ cred'[c].state # "live"
                               => \E g \in batch : c = seen[g]
  BY <1>1, KilledTyped
<1>3. /\ grant' \in [Grants -> GrantRecord]
      /\ \A g \in Grants : grant'[g] \in {NoRecord, grant[g]}
      /\ \A g \in Grants \ (gone \cup batch) : grant'[g] = grant[g]
      /\ \A g \in Grants : g \in gone \cup batch => grant'[g] = NoRecord
  BY <1>1, RecordTyped DEF TypeOK
<1>4. broken' \subseteq Grants /\ broken' = broken \ (gone \cup batch)
  BY <1>1 DEF TypeOK
<1>5. /\ req' \in [Reqs -> Request]
      /\ \A q \in Reqs \ {r} : req'[q] = req[q]
      /\ \/ req'[r].scope = {} /\ req'[r].at = "idle" /\ wire' = wire
         \/ /\ req'[r].at = "pruning" /\ req'[r].scope = left /\ req'[r].seen = seen
            /\ req'[r].cur \in left /\ Asks({seen[req'[r].cur]})
      /\ Kinds => \A q \in Reqs : KindOK(req'[q])
  <2>1. CASE Ends(r) /\ UNCHANGED wire
    BY <2>1, EndsTyped
  <2>2. ASSUME NEW g \in left, Awaited(g, seen[g]), Asks({seen[g]}),
               req' = [req EXCEPT ![r] = next(g)]
        PROVE  <1>5
    <3>1. /\ next(g) \in Request /\ next(g).at = "pruning" /\ next(g).scope = left
          /\ next(g).seen = seen /\ next(g).cur = g
      BY DEF Request, Materials
    <3>2. g \in Remote
      BY <2>2 DEF Awaited
    <3> HIDE DEF next
    <3>3. req'[r] = next(g) /\ req' \in [Reqs -> Request]
          /\ \A q \in Reqs \ {r} : req'[q] = req[q]
      BY <2>2, <3>1 DEF TypeOK
    <3>4. KindOK(req'[r])
      BY <3>1, <3>2, <3>3 DEF KindOK, AboutRemote
    <3> QED BY <2>2, <3>1, <3>3, <3>4 DEF Kinds
  <2> QED BY <1>1, <2>1, <2>2
<1>6. Pruned(r, seen, rest, gone, batch)
  BY <1>2, <1>3, <1>4, <1>5 DEF Pruned
<1>7. wire' \subseteq Creds
  BY <1>5 DEF Asks, TypeOK
<1> QED BY <1>2, <1>3, <1>4, <1>5, <1>6, <1>7

LEMMA HeldTyped ==
    ASSUME TypeOK, NEW r \in Reqs, NEW g \in Grants
    PROVE  /\ req[r].seen \in [Grants -> Materials] /\ req[r].seen[g] \in Materials
           /\ req[r].new \in Materials /\ req[r].scope \subseteq Grants
           /\ grant[g].material \in Materials
BY DEF TypeOK, Request, GrantRecord

\* The hub dies at an await, or between two writes of a handler.
Death ==
    \/ HubDies \/ \E g \in Grants : DiesTearing(g)
    \/ \E r \in Reqs : DiesPruning(r)
    \/ \E r \in Reqs, g \in Grants : DiesMinting(r, g)

\* What a death has left: credentials that were born stay so, none begins to work
\* that did not before, and those that stop working are of the records cut off or
\* removed; a token of the hub goes before the record that a reconcile removes.
Spent(removed, creds, cut) ==
    /\ Dies(removed, creds, cut)
    /\ \A c \in Creds :
         /\ cred[c].state # "unborn"
              => creds[c].state # "unborn" /\ creds[c].grant = cred[c].grant
         /\ creds[c].state = "live"
              => cred[c].state = "live" /\ creds[c].grant = cred[c].grant
         /\ cred[c].state = "live" /\ creds[c].state # "live"
              => \E g \in removed \cup cut :
                    grant[g].material = c \/ \E r \in Reqs : Holds(r, g) /\ req[r].seen[g] = c
    /\ \A g \in removed \cap Minted :
         \E r \in Reqs : /\ req[r].at = "pruning" /\ Holds(r, g)
                         /\ \A c \in Creds : creds[c].state = "live" => c # req[r].seen[g]

LEMMA DeathSpends ==
    ASSUME TypeOK, Kinds, Death
    PROVE  \E removed \in SUBSET Grants, cut \in SUBSET Grants, creds \in [Creds -> Credential] :
              Spent(removed, creds, cut)
<1>1. cred \in [Creds -> Credential]
  BY DEF TypeOK
<1>2. CASE HubDies
  <2>1. Spent({}, cred, {})
    BY <1>2 DEF HubDies, Spent
  <2> QED BY <1>1, <2>1
<1>3. ASSUME NEW g \in Grants, DiesTearing(g)
      PROVE  \E cut \in SUBSET Grants, creds \in [Creds -> Credential] : Spent({}, creds, cut)
  <2> DEFINE creds == Killed({grant[g].material})
  <2>1. Dies({}, creds, {g})
    BY <1>3 DEF DiesTearing
  <2>2. /\ creds \in [Creds -> Credential]
        /\ \A c \in Creds : /\ creds[c].grant = cred[c].grant
                            /\ creds[c].state = "live" <=>
                                 cred[c].state = "live" /\ c \notin {grant[g].material}
                            /\ creds[c].state = "unborn" <=> cred[c].state = "unborn"
    BY KilledTyped
  <2> HIDE DEF creds
  <2>3. Spent({}, creds, {g})
    BY <2>1, <2>2 DEF Spent
  <2> QED BY <2>2, <2>3
<1>4. ASSUME NEW r \in Reqs, DiesPruning(r)
      PROVE  \E removed \in SUBSET Grants, cut \in SUBSET Grants, creds \in [Creds -> Credential] :
                Spent(removed, creds, cut)
  <2> DEFINE seen == req[r].seen
             rest == {g \in req[r].scope \ {req[r].cur} : ~Awaited(g, seen[g])}
  <2>1. PICK batch \in SUBSET rest : \E cut \in {{}} \cup {{g} : g \in rest \ batch} :
            Dies({req[r].cur} \cup batch, Killed({seen[g] : g \in batch \cup cut}), cut)
    BY <1>4 DEF DiesPruning
  <2>cut. PICK cut \in {{}} \cup {{g} : g \in rest \ batch} :
            Dies({req[r].cur} \cup batch, Killed({seen[g] : g \in batch \cup cut}), cut)
    BY <2>1
  <2>2. /\ req[r].at = "pruning" /\ req[r].cur \in Remote \cap Grants
        /\ req[r].scope \subseteq Grants
    BY <1>4, HeldTyped DEF DiesPruning, Kinds, KindOK, Grants, TypeOK, Request
  <2>3. /\ batch \subseteq req[r].scope /\ cut \subseteq req[r].scope
        /\ \A g \in req[r].scope : Holds(r, g)
    BY <2>cut DEF Holds
  <2> DEFINE dead == {seen[g] : g \in batch \cup cut}
             creds == Killed(dead)
  <2>4. /\ creds \in [Creds -> Credential]
        /\ \A c \in Creds : /\ creds[c].grant = cred[c].grant
                            /\ creds[c].state = "live" <=>
                                 cred[c].state = "live" /\ c \notin dead
                            /\ creds[c].state = "unborn" <=> cred[c].state = "unborn"
    BY KilledTyped
  <2> DEFINE removed == {req[r].cur} \cup batch
  <2>5. Dies(removed, creds, cut)
    BY <2>cut
  <2> HIDE DEF creds, rest
  <2>6. ASSUME NEW c \in Creds, cred[c].state = "live", creds[c].state # "live"
        PROVE  \E g \in removed \cup cut : Holds(r, g) /\ req[r].seen[g] = c
    BY <2>3, <2>4, <2>6
  <2>7. ASSUME NEW g \in removed \cap Minted
        PROVE  /\ req[r].at = "pruning" /\ Holds(r, g)
               /\ \A c \in Creds : creds[c].state = "live" => c # req[r].seen[g]
    BY <2>2, <2>3, <2>4, <2>7
  <2> HIDE DEF removed
  <2>8. Spent(removed, creds, cut)
    BY <2>4, <2>5, <2>6, <2>7 DEF Spent
  <2>9. removed \subseteq Grants /\ cut \subseteq Grants
    BY <2>2, <2>3 DEF removed
  <2> QED BY <2>4, <2>8, <2>9
<1>5. ASSUME NEW r \in Reqs, NEW g \in Grants, DiesMinting(r, g)
      PROVE  \E creds \in [Creds -> Credential] : Spent({}, creds, {})
  <2>1. PICK c \in Creds :
            /\ cred[c].state = "unborn"
            /\ Dies({}, [cred EXCEPT ![c] = [state |-> "lost", grant |-> g]], {})
    BY <1>5 DEF DiesMinting
  <2> DEFINE creds == [cred EXCEPT ![c] = [state |-> "lost", grant |-> g]]
  <2>2. /\ creds \in [Creds -> Credential] /\ creds[c].state = "lost"
        /\ \A d \in Creds \ {c} : creds[d] = cred[d]
    BY <1>1 DEF Credential
  <2>3. Dies({}, creds, {})
    BY <2>1
  <2> HIDE DEF creds
  <2>4. Spent({}, creds, {})
    BY <2>1, <2>2, <2>3 DEF Spent
  <2> QED BY <2>2, <2>4
<1> QED BY <1>2, <1>3, <1>4, <1>5 DEF Death

\* No handler survives.
LEMMA DiesTyped ==
    ASSUME TypeOK, NEW removed \in SUBSET Grants, NEW cut \in SUBSET Grants,
           NEW creds \in [Creds -> Credential], Dies(removed, creds, cut)
    PROVE  /\ grant' \in [Grants -> GrantRecord] /\ cred' = creds
           /\ wire' \subseteq Creds /\ broken' \subseteq Grants
           /\ req' \in [Reqs -> Request]
           /\ \A g \in Grants : grant'[g] = IF g \in removed THEN NoRecord ELSE grant[g]
           /\ \A r \in Reqs : /\ KindOK(req'[r]) /\ req'[r].scope = {}
                              /\ req'[r].at = "idle"
           /\ UNCHANGED <<flow, credit, revived, overlapped, clicks>>
<1>1. KindOK(Idle)
  BY IdleTyped DEF KindOK, AboutRemote
<1>2. /\ grant' \in [Grants -> GrantRecord]
      /\ \A g \in Grants : grant'[g] = IF g \in removed THEN NoRecord ELSE grant[g]
  BY RecordTyped DEF Dies, TypeOK
<1>3. wire' \subseteq Creds /\ broken' \subseteq Grants
  BY DEF Dies, Asks, TypeOK
<1>4. /\ req' \in [Reqs -> Request]
      /\ \A r \in Reqs : KindOK(req'[r]) /\ req'[r].scope = {} /\ req'[r].at = "idle"
  BY <1>1, IdleTyped DEF Dies
<1> QED BY <1>2, <1>3, <1>4 DEF Dies

LEMMA InitTyped == Init => TypeOK /\ Kinds
<1> SUFFICES ASSUME Init PROVE TypeOK /\ Kinds
  OBVIOUS
<1>1. [state |-> "unborn", grant |-> NoGrant] \in Credential
  BY DEF Credential
<1>2. credit \in [Grants -> -1 .. clicks] /\ clicks \in Nat
  BY DEF Init
<1>3. TypeOK
  BY <1>1, <1>2, IdleTyped, RecordTyped DEF Init, TypeOK
<1>4. KindOK(Idle)
  BY IdleTyped DEF KindOK, AboutRemote
<1> QED BY <1>3, <1>4 DEF Init, Kinds, NoRecord

\* A step that writes no record, no consent and no credential keeps the types.
LEMMA HandlerTyped ==
    ASSUME TypeOK, Kinds, UNCHANGED <<grant, flow, cred, credit, clicks>>,
           req' \in [Reqs -> Request], \A q \in Reqs : KindOK(req'[q]),
           UNCHANGED revived, UNCHANGED overlapped, broken' \subseteq Grants,
           wire' \subseteq Creds
    PROVE  TypeOK' /\ Kinds'
BY DEF TypeOK, Kinds

\* A handler that writes the record of a grant and ends keeps the types.
LEMMA WriteTyped ==
    ASSUME TypeOK, Kinds, NEW r \in Reqs, NEW g \in Grants, NEW R,
           NEW material \in Materials,
           NEW status \in {"pending", "approved", "revoked", "needs_consent"},
           Puts(R, g, status, material), Ends(r) \/ UNCHANGED req,
           cred' \in [Creds -> Credential], UNCHANGED <<flow, clicks>>,
           revived' \subseteq Grants, wire' \subseteq Creds
    PROVE  TypeOK' /\ Kinds'
<1>1. /\ grant' \in [Grants -> GrantRecord] /\ credit' \in [Grants -> -1 .. clicks]
      /\ overlapped' \subseteq Grants /\ broken' \subseteq Grants
      /\ Kinds => \A h \in Grants :
                      grant'[h].status = "none" => grant'[h].material = Nothing
  BY ONLY PutsTyped, TypeOK, Puts(R, g, status, material), g \in Grants,
          material \in Materials,
          status \in {"pending", "approved", "revoked", "needs_consent"}
<1>2. req' \in [Reqs -> Request] /\ \A q \in Reqs : KindOK(req'[q])
  BY EndsTyped DEF TypeOK, Kinds
<1> QED BY <1>1, <1>2 DEF TypeOK, Kinds

LEMMA StepTyped == TypeOK /\ Kinds /\ [Next]_vars => TypeOK' /\ Kinds'
<1> SUFFICES ASSUME TypeOK, Kinds, [Next]_vars PROVE TypeOK' /\ Kinds'
  OBVIOUS
<1> USE DEF history
<1>0. /\ revived \subseteq Grants /\ overlapped \subseteq Grants /\ broken \subseteq Grants
      /\ cred \in [Creds -> Credential] /\ Nothing \in Materials /\ Pasted \in Materials
      /\ Creds \subseteq Materials /\ wire \subseteq Creds
  BY DEF TypeOK, Materials
<1>1. ASSUME NEW g \in Grants, Upsert(g) PROVE TypeOK' /\ Kinds'
  <2>1. /\ grant' \in [Grants -> GrantRecord] /\ credit' \in [Grants -> -1 .. clicks]
        /\ overlapped' \subseteq Grants /\ broken' \subseteq Grants
        /\ \A h \in Grants : grant'[h].status = "none" => grant'[h].material = Nothing
    BY <1>0, <1>1, PutsTyped DEF Upsert
  <2> QED BY <1>1, <2>1 DEF Upsert, TypeOK, Kinds
<1>2. ASSUME NEW g \in Grants, Revoke(g) PROVE TypeOK' /\ Kinds'
  <2>1. /\ grant' \in [Grants -> GrantRecord] /\ credit' \in [Grants -> -1 .. clicks]
        /\ overlapped' \subseteq Grants /\ broken' \subseteq Grants
        /\ \A h \in Grants : grant'[h].status = "none" => grant'[h].material = Nothing
    BY <1>0, <1>2, PutsTyped DEF Revoke
  <2>2. cred' \in [Creds -> Credential]
    BY <1>2, KilledTyped DEF Revoke
  <2> QED BY <1>2, <2>1, <2>2 DEF Revoke, TypeOK, Kinds
<1>3. ASSUME NEW f \in Flows, FlowEnds(f) PROVE TypeOK' /\ Kinds'
  BY <1>3 DEF FlowEnds, TypeOK, Kinds
<1>4. ASSUME NEW f \in Flows, NEW r \in Reqs, Callback(r, f) PROVE TypeOK' /\ Kinds'
  <2>1. flow[f] \in Remote /\ flow[f] \in Grants
    BY <1>4 DEF Callback, Kinds, Grants
  <2>2. req' \in [Reqs -> Request] /\ \A q \in Reqs : KindOK(req'[q])
    BY <1>4, <2>1, BeginsTyped DEF Callback
  <2> QED BY <1>4, <2>2 DEF Callback, TypeOK, Kinds
<1>5. ASSUME NEW r \in Reqs, GivesUp(r) PROVE TypeOK' /\ Kinds'
  BY <1>0, <1>5, EndsTyped, HandlerTyped DEF GivesUp
<1>6. ASSUME NEW r \in Reqs, ReconcileReturns(r) PROVE TypeOK' /\ Kinds'
  <2>1. Prunes(r, req[r].seen, req[r].scope \ {req[r].cur}, {req[r].cur})
    BY <1>6 DEF ReconcileReturns
  <2>2. req[r].seen \in [Grants -> Materials] /\ req[r].scope \in SUBSET Grants
    BY DEF TypeOK, Request
  <2>3. /\ grant' \in [Grants -> GrantRecord] /\ cred' \in [Creds -> Credential]
        /\ req' \in [Reqs -> Request] /\ broken' \subseteq Grants /\ wire' \subseteq Creds
        /\ \A g \in Grants : grant'[g] \in {NoRecord, grant[g]}
        /\ \A q \in Reqs : KindOK(req'[q])
    BY <2>1, <2>2, PrunesTyped
  <2> QED BY <1>6, <2>3 DEF ReconcileReturns, TypeOK, Kinds, NoRecord
<1>7. ASSUME NEW r \in Reqs, NEW S \in SUBSET Grants, Reconcile(r, S)
      PROVE TypeOK' /\ Kinds'
  <2> DEFINE read == [g \in Grants |-> IF g \in S THEN grant[g].material ELSE Nothing]
  <2>1. read \in [Grants -> Materials]
    BY HeldTyped, <1>0 DEF TypeOK, GrantRecord
  <2>2. Prunes(r, read, S, {})
    BY <1>7 DEF Reconcile
  <2> HIDE DEF read
  <2>3. /\ grant' \in [Grants -> GrantRecord] /\ cred' \in [Creds -> Credential]
        /\ req' \in [Reqs -> Request] /\ broken' \subseteq Grants /\ wire' \subseteq Creds
        /\ \A g \in Grants : grant'[g] \in {NoRecord, grant[g]}
        /\ \A q \in Reqs : KindOK(req'[q])
    BY <2>1, <2>2, PrunesTyped
  <2> QED BY <1>7, <2>3 DEF Reconcile, TypeOK, Kinds, NoRecord
<1>8. ASSUME Death PROVE TypeOK' /\ Kinds'
  <2>1. PICK removed \in SUBSET Grants, cut \in SUBSET Grants, creds \in [Creds -> Credential] :
            Spent(removed, creds, cut)
    BY <1>8, DeathSpends
  <2>2. Dies(removed, creds, cut)
    BY <2>1 DEF Spent
  <2>3. /\ grant' \in [Grants -> GrantRecord] /\ req' \in [Reqs -> Request]
        /\ wire' \subseteq Creds /\ broken' \subseteq Grants
        /\ \A g \in Grants : grant'[g] = IF g \in removed THEN NoRecord ELSE grant[g]
        /\ \A r \in Reqs : KindOK(req'[r])
    BY <2>2, DiesTyped
  <2>cred. cred' \in [Creds -> Credential]
    BY <2>2 DEF Dies
  <2>same. UNCHANGED <<flow, credit, revived, overlapped, clicks>>
    BY <2>2 DEF Dies
  <2>4. \A g \in Grants : grant'[g].status = "none" => grant'[g].material = Nothing
    BY <2>3 DEF Kinds, NoRecord
  <2>5. Kinds'
    BY <2>3, <2>same, <2>4 DEF Kinds
  <2>6. TypeOK'
    BY <2>3, <2>cred, <2>same DEF TypeOK
  <2> QED BY <2>5, <2>6
<1>9. ASSUME NEW r \in Reqs, NEW g \in Grants, Approve(r, g) PROVE TypeOK' /\ Kinds'
  <2>1. req' \in [Reqs -> Request] /\ \A q \in Reqs : KindOK(req'[q])
    BY <1>9, BeginsTyped DEF Approve
  <2>2. credit' \in [Grants -> -1 .. clicks'] /\ clicks' \in Nat
    BY <1>9 DEF Approve, TypeOK
  <2> QED BY <1>9, <2>1, <2>2 DEF Approve, TypeOK, Kinds
<1>10. ASSUME NEW r \in Reqs, NEW g \in Grants, ApproveMints(r, g)
       PROVE TypeOK' /\ Kinds'
  <2>1. req' \in [Reqs -> Request] /\ \A q \in Reqs : KindOK(req'[q])
    BY <1>0, <1>10, GoesTyped, EndsTyped DEF ApproveMints
  <2>2. cred' \in [Creds -> Credential]
    BY <1>10, KilledTyped DEF ApproveMints
  <2> QED BY <1>10, <2>1, <2>2 DEF ApproveMints, TypeOK, Kinds
<1>11. ASSUME NEW r \in Reqs, NEW g \in Grants, ApproveSigned(r, g)
       PROVE TypeOK' /\ Kinds'
  <2>1. PICK c \in Creds :
            /\ cred' = [cred EXCEPT ![c] = [state |-> "live", grant |-> g]]
            /\ Puts({r}, g, "approved", c)
    BY <1>11 DEF ApproveSigned
  <2>2. cred' \in [Creds -> Credential]
    BY <1>0, <2>1, BornTyped
  <2> QED BY <1>0, <1>11, <2>1, <2>2, WriteTyped DEF ApproveSigned
<1>12. ASSUME NEW r \in Reqs, NEW g \in Grants, ApproveFails(r, g)
       PROVE TypeOK' /\ Kinds'
  BY <1>0, <1>12, EndsTyped, HandlerTyped DEF ApproveFails
<1>13. ASSUME NEW r \in Reqs, NEW g \in Grants, ApprovePasted(r, g)
       PROVE TypeOK' /\ Kinds'
  BY <1>0, <1>13, WriteTyped DEF ApprovePasted
<1>14. ASSUME NEW r \in Reqs, NEW g \in Grants, ApproveDiscovers(r, g)
       PROVE TypeOK' /\ Kinds'
  BY <1>0, <1>14, GoesTyped, HandlerTyped DEF ApproveDiscovers
<1>15. ASSUME NEW r \in Reqs, NEW g \in Grants, FlowStarts(r, g)
       PROVE TypeOK' /\ Kinds'
  <2>1. req' \in [Reqs -> Request] /\ \A q \in Reqs : KindOK(req'[q])
    BY <1>15, EndsTyped DEF FlowStarts
  <2>2. g \in Remote
    BY <1>15 DEF FlowStarts, Holds, Kinds, KindOK, AboutRemote
  <2>3. flow' \in [Flows -> Grants \cup {NoGrant}]
        /\ \A f \in Flows : flow'[f] \in Remote \cup {NoGrant}
    BY <1>15, <2>2 DEF FlowStarts, TypeOK, Kinds
  <2> QED BY <1>15, <2>1, <2>3 DEF FlowStarts, TypeOK, Kinds
<1>16. ASSUME NEW r \in Reqs, NEW g \in Grants, Exchanges(r, g)
       PROVE TypeOK' /\ Kinds'
  <2>0. g \in Remote
    BY <1>16 DEF Exchanges, Holds, Kinds, KindOK, AboutRemote
  <2>1. req' \in [Reqs -> Request] /\ \A q \in Reqs : KindOK(req'[q])
    BY <1>0, <1>16, <2>0, GoesTyped DEF Exchanges
  <2>2. cred' \in [Creds -> Credential]
    BY <1>0, <1>16, BornTyped DEF Exchanges
  <2> QED BY <1>16, <2>1, <2>2 DEF Exchanges, TypeOK, Kinds
<1>17. ASSUME NEW r \in Reqs, NEW g \in Grants, CallbackReplaces(r, g)
       PROVE TypeOK' /\ Kinds'
  <2>1. g \in Remote /\ req[r].new \in Materials
    BY <1>17, HeldTyped DEF CallbackReplaces, Holds, Kinds, KindOK, AboutRemote
  <2>2. wire' \subseteq Creds
    BY <1>0, <1>17 DEF CallbackReplaces, Asks
  <2> QED BY <1>0, <1>17, <2>1, <2>2, GoesTyped, HandlerTyped DEF CallbackReplaces
<1>18. ASSUME NEW r \in Reqs, NEW g \in Grants, CallbackReturns(r, g)
       PROVE TypeOK' /\ Kinds'
  BY <1>0, <1>18, WriteTyped, HeldTyped DEF CallbackReturns
<1>19. ASSUME NEW r \in Reqs, NEW g \in Grants, Material(r, g)
       PROVE TypeOK' /\ Kinds'
  BY <1>0, <1>19, BeginsTyped, HandlerTyped DEF Material
<1>20. ASSUME NEW r \in Reqs, NEW g \in Grants, Refreshes(r, g)
       PROVE TypeOK' /\ Kinds'
  <2>0. g \in Remote /\ req[r].seen[g] \in Materials
    BY <1>20, HeldTyped DEF Refreshes, Holds, Kinds, KindOK, AboutRemote
  <2>1. req' \in [Reqs -> Request] /\ \A q \in Reqs : KindOK(req'[q])
    BY <1>0, <1>20, <2>0, GoesTyped DEF Refreshes
  <2>2. cred' \in [Creds -> Credential]
    BY <1>0, <1>20, BornTyped, KilledTyped DEF Refreshes
  <2> QED BY <1>20, <2>1, <2>2 DEF Refreshes, TypeOK, Kinds
<1>21. ASSUME NEW r \in Reqs, NEW g \in Grants, Refreshed(r, g)
       PROVE TypeOK' /\ Kinds'
  BY <1>0, <1>21, WriteTyped, HeldTyped DEF Refreshed
<1>22. ASSUME NEW r \in Reqs, NEW g \in Grants, RefreshFails(r, g)
       PROVE TypeOK' /\ Kinds'
  <2>1. wire' \subseteq Creds
    BY <1>0, <1>22 DEF RefreshFails, Asks
  <2> QED BY <1>0, <1>22, <2>1, WriteTyped DEF RefreshFails
<1>23. ASSUME NEW r \in Reqs, NEW g \in Grants, RevokeAsks(r, g)
       PROVE TypeOK' /\ Kinds'
  <2>1. wire' \subseteq Creds
    BY <1>0, <1>23 DEF RevokeAsks, Asks
  <2> QED BY <1>0, <1>23, <2>1, BeginsTyped, HandlerTyped DEF RevokeAsks, Awaited
<1>24. ASSUME NEW r \in Reqs, NEW g \in Grants, RevokeReturns(r, g)
       PROVE TypeOK' /\ Kinds'
  BY <1>0, <1>24, WriteTyped DEF RevokeReturns
<1>25. ASSUME NEW c \in Creds, IssuerRevokes(c) PROVE TypeOK' /\ Kinds'
  <2>1. cred' \in [Creds -> Credential] /\ wire' \subseteq Creds
    BY <1>0, <1>25, KilledTyped DEF IssuerRevokes
  <2> QED BY <1>25, <2>1 DEF IssuerRevokes, TypeOK, Kinds
<1>26. CASE UNCHANGED vars
  BY <1>26 DEF vars, TypeOK, Kinds
<1> QED
  BY <1>1, <1>2, <1>3, <1>4, <1>5, <1>6, <1>7, <1>8, <1>9, <1>10, <1>11, <1>12, <1>13,
     <1>14, <1>15, <1>16, <1>17, <1>18, <1>19, <1>20, <1>21, <1>22, <1>23, <1>24, <1>25,
     <1>26 DEF Next, Death

\* Every variable keeps its type.
THEOREM TypeCorrect == Spec => []TypeOK
BY InitTyped, StepTyped, PTL DEF Spec

-----------------------------------------------------------------------------
\* One live token of a minted grant, and every handler that holds it knows it.
Recorded == MintedIsRecorded /\ KnownPrior

LEMMA InitRecorded == Init => Recorded
<1> SUFFICES ASSUME Init PROVE Recorded
  OBVIOUS
<1>1. \A c \in Creds : cred[c].state = "unborn"
  BY DEF Init
<1> QED BY <1>1 DEF Recorded, MintedIsRecorded, KnownPrior

NoToken(g) == \A c \in Creds : cred[c].grant = g => cred[c].state # "live"

\* A step keeps it that gives no minted grant a token, replaces the material only
\* of one that has no token left, and lets handlers keep what they have read or
\* read what is recorded.
LEMMA KeepsRecorded ==
    ASSUME Recorded, overlapped \subseteq overlapped',
           \A c \in Creds : cred'[c].state = "live" /\ cred'[c].grant \in Minted
                => cred[c].state = "live" /\ cred[c].grant = cred'[c].grant,
           \A g \in Minted \ overlapped' :
                grant'[g].material = grant[g].material \/ NoToken(g)',
           \A r \in Reqs, g \in Minted \ overlapped' : g \in req'[r].scope =>
                \/ /\ g \in req[r].scope /\ req'[r].at = req[r].at
                   /\ req'[r].seen[g] = req[r].seen[g]
                \/ /\ req'[r].at \in {"body", "pruning"}
                   /\ req'[r].seen[g] = grant[g].material
                \/ NoToken(g)'
    PROVE  Recorded'
<1>1. MintedIsRecorded'
  BY DEF Recorded, MintedIsRecorded, NoToken
<1>2. ASSUME NEW r \in Reqs, NEW g \in Minted \ overlapped', NEW c \in Creds,
             g \in req'[r].scope, cred'[c].state = "live", cred'[c].grant = g
      PROVE  req'[r].at \in {"body", "pruning"} /\ req'[r].seen[g] = c
  <2>1. ~NoToken(g)'
    BY <1>2 DEF NoToken
  <2>2. cred[c].state = "live" /\ cred[c].grant = g /\ g \notin overlapped
    BY <1>2
  <2>3. CASE g \in req[r].scope /\ req'[r].at = req[r].at
                /\ req'[r].seen[g] = req[r].seen[g]
    BY <2>2, <2>3 DEF Recorded, KnownPrior, Holds
  <2>4. CASE req'[r].at \in {"body", "pruning"} /\ req'[r].seen[g] = grant[g].material
    BY <2>2, <2>4 DEF Recorded, MintedIsRecorded
  <2> QED BY <1>2, <2>1, <2>3, <2>4
<1> QED BY <1>1, <1>2 DEF Recorded, KnownPrior, Holds

\* So does a handler that ends, having written no record but a remote one.
LEMMA RemoteRecorded ==
    ASSUME TypeOK, Recorded, NEW r \in Reqs, NEW g \in Remote, NEW R,
           NEW material \in Materials,
           NEW status \in {"pending", "approved", "revoked", "needs_consent"},
           Puts(R, g, status, material), Ends(r),
           cred' = cred \/ \E C : cred' = Killed(C)
    PROVE  Recorded'
<1>1. g \in Grants /\ g \notin Minted /\ Minted \subseteq Grants
  BY DEF Grants
<1>2. /\ overlapped \subseteq overlapped'
      /\ \A h \in Grants \ {g} : grant'[h] = grant[h]
  BY <1>1 DEF Puts, TypeOK
<1>3. req'[r].scope = {} /\ \A q \in Reqs \ {r} : req'[q] = req[q]
  BY EndsTyped
<1>4. \A c \in Creds : cred'[c].state = "live" =>
                          cred[c].state = "live" /\ cred[c].grant = cred'[c].grant
  BY KilledTyped
<1> QED BY <1>1, <1>2, <1>3, <1>4, KeepsRecorded

\* And one that leaves the records alone.
LEMMA ReadRecorded ==
    ASSUME TypeOK, Recorded, NEW r \in Reqs, UNCHANGED grant,
           overlapped' = overlapped,
           \/ req'[r].scope = {}
           \/ req'[r].scope \cap Minted = {}
           \/ /\ req'[r].at = "body"
              /\ \A g \in req'[r].scope : req'[r].seen[g] = grant[g].material,
           \A q \in Reqs \ {r} : req'[q] = req[q],
           \A c \in Creds : cred'[c].state = "live" /\ cred'[c].grant \in Minted
                => cred[c].state = "live" /\ cred[c].grant = cred'[c].grant
    PROVE  Recorded'
BY KeepsRecorded

LEMMA StepRecorded == IInv /\ [Next]_vars => Recorded'
<1> SUFFICES ASSUME TypeOK, Kinds, Recorded, [Next]_vars PROVE Recorded'
  BY DEF IInv, Recorded
<1> USE DEF history
<1>0. /\ Nothing \in Materials /\ Pasted \in Materials /\ Creds \subseteq Materials
      /\ Minted \subseteq Grants /\ Remote \subseteq Grants
      /\ Minted \cap Remote = {} /\ Grants \subseteq Minted \cup Remote
  BY DEF Materials, Grants
<1>1. ASSUME NEW g \in Grants, Upsert(g) PROVE Recorded'
  <2>1. /\ overlapped \subseteq overlapped' /\ grant'[g].material = Nothing
        /\ \A h \in Grants \ {g} : grant'[h] = grant[h]
    BY <1>0, <1>1, PutsTyped DEF Upsert
  <2>2. grant[g].material = Nothing
    BY <1>1 DEF Upsert, Kinds
  <2> QED BY <1>0, <1>1, <2>1, <2>2, KeepsRecorded DEF Upsert
<1>2. ASSUME NEW g \in Grants, Revoke(g) PROVE Recorded'
  <2>1. /\ overlapped \subseteq overlapped'
        /\ \A h \in Grants \ {g} : grant'[h] = grant[h]
    BY <1>0, <1>2, PutsTyped DEF Revoke
  <2>2. \A c \in Creds : cred'[c].state = "live" =>
            /\ cred[c].state = "live" /\ cred[c].grant = cred'[c].grant
            /\ c # grant[g].material
    BY <1>2, KilledTyped DEF Revoke
  <2>3. g \in Minted \ overlapped' => NoToken(g)'
    BY <2>1, <2>2 DEF NoToken, Recorded, MintedIsRecorded
  <2> QED BY <1>0, <1>2, <2>1, <2>2, <2>3, KeepsRecorded DEF Revoke
<1>3. ASSUME NEW f \in Flows, FlowEnds(f) PROVE Recorded'
  BY <1>3, KeepsRecorded DEF FlowEnds
<1>4. ASSUME NEW f \in Flows, NEW r \in Reqs, Callback(r, f) PROVE Recorded'
  <2>1. flow[f] \in Remote
    BY <1>4 DEF Callback, Kinds
  <2>2. req'[r].scope = {flow[f]} /\ \A q \in Reqs \ {r} : req'[q] = req[q]
    BY <1>0, <1>4, <2>1, BeginsTyped DEF Callback
  <2> QED BY <1>0, <1>4, <2>1, <2>2, ReadRecorded DEF Callback
<1>5. ASSUME NEW r \in Reqs, GivesUp(r) PROVE Recorded'
  BY <1>5, EndsTyped, ReadRecorded DEF GivesUp
<1>6. ASSUME NEW r \in Reqs, ReconcileReturns(r) PROVE Recorded'
  <2> DEFINE gone == {req[r].cur}
             rest == req[r].scope \ gone
  <2>1. Prunes(r, req[r].seen, rest, gone)
    BY <1>6 DEF ReconcileReturns
  <2>2. req[r].seen \in [Grants -> Materials] /\ rest \in SUBSET Grants
    BY DEF TypeOK, Request
  <2>3. req[r].at = "pruning" /\ gone \subseteq Remote
    BY <1>6 DEF ReconcileReturns, Kinds, KindOK
  <2> HIDE DEF gone
  <2>4. PICK batch \in SUBSET rest : Pruned(r, req[r].seen, rest, gone, batch)
    BY <2>1, <2>2, PrunesTyped
  <2>5. \A c \in Creds : cred'[c].state = "live" =>
            /\ cred[c].state = "live" /\ cred[c].grant = cred'[c].grant
            /\ \A g \in batch : c # req[r].seen[g]
    BY <2>4 DEF Pruned
  <2>6. \A g \in batch \cap (Minted \ overlapped) : NoToken(g)'
    BY <2>5 DEF NoToken, Recorded, KnownPrior, Holds
  <2> QED BY <1>0, <1>6, <2>3, <2>4, <2>5, <2>6, KeepsRecorded
         DEF ReconcileReturns, Pruned
<1>7. ASSUME NEW r \in Reqs, NEW S \in SUBSET Grants, Reconcile(r, S) PROVE Recorded'
  <2> DEFINE read == [g \in Grants |-> IF g \in S THEN grant[g].material ELSE Nothing]
  <2>1. /\ read \in [Grants -> Materials]
        /\ \A g \in S : read[g] = grant[g].material
    BY HeldTyped, <1>0 DEF TypeOK, GrantRecord
  <2>2. Prunes(r, read, S, {})
    BY <1>7 DEF Reconcile
  <2> HIDE DEF read
  <2>3. PICK batch \in SUBSET S : Pruned(r, read, S, {}, batch)
    BY <2>1, <2>2, PrunesTyped
  <2>4. \A c \in Creds : cred'[c].state = "live" =>
            /\ cred[c].state = "live" /\ cred[c].grant = cred'[c].grant
            /\ \A g \in batch : c # read[g]
    BY <2>3 DEF Pruned
  <2>5. \A g \in batch \cap (Minted \ overlapped) : NoToken(g)'
    BY <2>1, <2>4 DEF NoToken, Recorded, MintedIsRecorded
  <2> QED BY <1>0, <1>7, <2>1, <2>3, <2>4, <2>5, KeepsRecorded
         DEF Reconcile, Pruned
<1>8. ASSUME Death PROVE Recorded'
  <2>1. PICK removed \in SUBSET Grants, cut \in SUBSET Grants, creds \in [Creds -> Credential] :
            Spent(removed, creds, cut)
    BY <1>8, DeathSpends
  <2>2. Dies(removed, creds, cut)
    BY <2>1 DEF Spent
  <2>3. /\ cred' = creds /\ overlapped' = overlapped
        /\ \A r \in Reqs : req'[r].scope = {}
        /\ \A g \in Grants : grant'[g] = IF g \in removed THEN NoRecord ELSE grant[g]
    BY <2>2, DiesTyped
  <2>4. \A c \in Creds : cred'[c].state = "live" =>
                            cred[c].state = "live" /\ cred[c].grant = cred'[c].grant
    BY <2>1, <2>3 DEF Spent
  <2>5. \A g \in removed \cap (Minted \ overlapped) : NoToken(g)'
    BY <2>1, <2>3, <2>4 DEF Spent, NoToken, Recorded, KnownPrior
  <2> QED BY <1>0, <2>3, <2>4, <2>5, KeepsRecorded
<1>9. ASSUME NEW r \in Reqs, NEW g \in Grants, Approve(r, g) PROVE Recorded'
  BY <1>9, BeginsTyped, ReadRecorded DEF Approve
<1>10. ASSUME NEW r \in Reqs, NEW g \in Grants, ApproveMints(r, g) PROVE Recorded'
  <2>1. g \in Minted /\ req[r].at = "body" /\ g \in req[r].scope
        /\ req[r].scope \subseteq {g}
    BY <1>10 DEF ApproveMints, Holds, Kinds, KindOK
  <2>2. \A c \in Creds : cred'[c].state = "live" =>
            /\ cred[c].state = "live" /\ cred[c].grant = cred'[c].grant
            /\ c # req[r].seen[g]
    BY <1>10, KilledTyped DEF ApproveMints
  <2>3. g \notin overlapped => NoToken(g)'
    BY <2>1, <2>2 DEF NoToken, Recorded, KnownPrior, Holds
  <2>4. /\ req'[r].scope \subseteq {g}
        /\ \A q \in Reqs \ {r} : req'[q] = req[q]
    BY <1>0, <1>10, <2>1, GoesTyped, EndsTyped DEF ApproveMints
  <2>5. UNCHANGED <<grant, overlapped>>
    BY <1>10 DEF ApproveMints
  <2> QED BY <1>0, <2>2, <2>3, <2>4, <2>5, KeepsRecorded
<1>11. ASSUME NEW r \in Reqs, NEW g \in Grants, ApproveSigned(r, g) PROVE Recorded'
  <2>1. PICK b \in Creds :
            /\ cred' = [cred EXCEPT ![b] = [state |-> "live", grant |-> g]]
            /\ Puts({r}, g, "approved", b)
    BY <1>11 DEF ApproveSigned
  <2>2. /\ cred'[b].grant = g /\ \A c \in Creds \ {b} : cred'[c] = cred[c]
    BY <2>1, BornTyped DEF TypeOK
  <2>3. /\ grant'[g].material = b /\ overlapped \subseteq overlapped'
        /\ \A h \in Grants \ {g} : grant'[h] = grant[h]
        /\ b # Nothing /\ g \notin overlapped' => \A q \in Reqs \ {r} : ~Holds(q, g)
    BY <1>0, <2>1, PutsTyped
  <2>4. req'[r].scope = {} /\ \A q \in Reqs \ {r} : req'[q] = req[q]
    BY <1>11, EndsTyped DEF ApproveSigned
  <2>5. req[r].at = "signing" /\ Holds(r, g) /\ g \in Minted /\ b # Nothing
    BY <1>11 DEF ApproveSigned, Holds, Kinds, KindOK
  <2>6. g \notin overlapped => NoToken(g)
    BY <2>5 DEF Recorded, KnownPrior, NoToken
  <2>7. MintedIsRecorded'
    <3> SUFFICES ASSUME NEW c \in Creds, cred'[c].state = "live",
                        cred'[c].grant \in Minted \ overlapped'
                 PROVE  grant'[cred'[c].grant].material = c
      BY DEF MintedIsRecorded
    <3>1. CASE c = b
      BY <3>1, <2>2, <2>3
    <3>2. CASE c # b
      BY <1>0, <3>2, <2>2, <2>3, <2>6 DEF NoToken, Recorded, MintedIsRecorded
    <3> QED BY <3>1, <3>2
  <2>8. ASSUME NEW q \in Reqs, NEW h \in Minted \ overlapped', NEW c \in Creds,
               h \in req'[q].scope, cred'[c].state = "live", cred'[c].grant = h
        PROVE  req'[q].at \in {"body", "pruning"} /\ req'[q].seen[h] = c
    <3>1. q # r /\ req'[q] = req[q] /\ Holds(q, h)
      BY <2>4, <2>8 DEF Holds
    <3>2. c # b
      BY <3>1, <2>2, <2>3, <2>5, <2>8
    <3> QED BY <3>1, <3>2, <2>2, <2>3, <2>8 DEF Recorded, KnownPrior
  <2> QED BY <2>7, <2>8 DEF Recorded, KnownPrior, Holds
<1>12. ASSUME NEW r \in Reqs, NEW g \in Grants, ApproveFails(r, g) PROVE Recorded'
  BY <1>12, EndsTyped, ReadRecorded DEF ApproveFails
<1>13. ASSUME NEW r \in Reqs, NEW g \in Grants, ApprovePasted(r, g) PROVE Recorded'
  BY <1>0, <1>13, RemoteRecorded DEF ApprovePasted
<1>14. ASSUME NEW r \in Reqs, NEW g \in Grants, ApproveDiscovers(r, g) PROVE Recorded'
  <2>1. req'[r].scope = req[r].scope /\ \A q \in Reqs \ {r} : req'[q] = req[q]
    BY <1>0, <1>14, GoesTyped DEF ApproveDiscovers
  <2>2. req[r].scope \subseteq {g} /\ g \in Remote
    BY <1>14 DEF ApproveDiscovers, Holds, Kinds, KindOK
  <2> QED BY <1>0, <1>14, <2>1, <2>2, ReadRecorded DEF ApproveDiscovers
<1>15. ASSUME NEW r \in Reqs, NEW g \in Grants, FlowStarts(r, g) PROVE Recorded'
  BY <1>15, EndsTyped, ReadRecorded DEF FlowStarts
<1>16. ASSUME NEW r \in Reqs, NEW g \in Grants, Exchanges(r, g) PROVE Recorded'
  <2>1. req[r].scope \subseteq Remote /\ g \in Remote /\ req[r].at = "exchanging"
    BY <1>16 DEF Exchanges, Holds, Kinds, KindOK, AboutRemote
  <2>2. req'[r].scope = req[r].scope /\ \A q \in Reqs \ {r} : req'[q] = req[q]
    BY <1>0, <1>16, <2>1, GoesTyped DEF Exchanges
  <2>3. \A c \in Creds : cred'[c].state = "live" /\ cred'[c].grant \in Minted
                => cred[c].state = "live" /\ cred[c].grant = cred'[c].grant
    BY <1>0, <1>16, <2>1, BornTyped DEF Exchanges, TypeOK
  <2> QED BY <1>0, <1>16, <2>1, <2>2, <2>3, ReadRecorded DEF Exchanges
<1>17. ASSUME NEW r \in Reqs, NEW g \in Grants, CallbackReplaces(r, g) PROVE Recorded'
  <2>1. req[r].scope \subseteq Remote /\ g \in Remote /\ req[r].at = "issued"
        /\ req[r].new \in Materials
    BY <1>17, HeldTyped DEF CallbackReplaces, Holds, Kinds, KindOK, AboutRemote
  <2>2. req'[r].scope = req[r].scope /\ \A q \in Reqs \ {r} : req'[q] = req[q]
    BY <1>0, <1>17, <2>1, GoesTyped DEF CallbackReplaces
  <2> QED BY <1>0, <1>17, <2>1, <2>2, ReadRecorded DEF CallbackReplaces
<1>18. ASSUME NEW r \in Reqs, NEW g \in Grants, CallbackReturns(r, g) PROVE Recorded'
  <2>1. g \in Remote /\ req[r].new \in Materials
    BY <1>18, HeldTyped DEF CallbackReturns, Holds, Kinds, KindOK, AboutRemote
  <2>2. cred' = cred \/ \E C : cred' = Killed(C)
    BY <1>18 DEF CallbackReturns
  <2> QED BY <1>18, <2>1, <2>2, RemoteRecorded DEF CallbackReturns
<1>19. ASSUME NEW r \in Reqs, NEW g \in Grants, Material(r, g) PROVE Recorded'
  <2>1. req'[r].scope = {g} /\ \A q \in Reqs \ {r} : req'[q] = req[q]
    BY <1>19, BeginsTyped DEF Material
  <2> QED BY <1>0, <1>19, <2>1, ReadRecorded DEF Material
<1>20. ASSUME NEW r \in Reqs, NEW g \in Grants, Refreshes(r, g) PROVE Recorded'
  <2>1. req[r].scope \subseteq Remote /\ g \in Remote /\ req[r].at = "refreshing"
        /\ req[r].seen[g] \in Materials
    BY <1>20, HeldTyped DEF Refreshes, Holds, Kinds, KindOK, AboutRemote
  <2>2. req'[r].scope = req[r].scope /\ \A q \in Reqs \ {r} : req'[q] = req[q]
    BY <1>0, <1>20, <2>1, GoesTyped DEF Refreshes
  <2>3. \A c \in Creds : cred'[c].state = "live" /\ cred'[c].grant \in Minted
                => cred[c].state = "live" /\ cred[c].grant = cred'[c].grant
    BY <1>0, <1>20, <2>1, BornTyped, KilledTyped DEF Refreshes
  <2> QED BY <1>0, <1>20, <2>1, <2>2, <2>3, ReadRecorded DEF Refreshes
<1>21. ASSUME NEW r \in Reqs, NEW g \in Grants, Refreshed(r, g) PROVE Recorded'
  <2>1. g \in Remote /\ req[r].new \in Materials
    BY <1>21, HeldTyped DEF Refreshed, Holds, Kinds, KindOK, AboutRemote
  <2> QED BY <1>21, <2>1, RemoteRecorded DEF Refreshed
<1>22. ASSUME NEW r \in Reqs, NEW g \in Grants, RefreshFails(r, g) PROVE Recorded'
  <2>1. g \in Remote
    BY <1>22 DEF RefreshFails, Holds, Kinds, KindOK, AboutRemote
  <2> QED BY <1>0, <1>22, <2>1, RemoteRecorded DEF RefreshFails
<1>23. ASSUME NEW r \in Reqs, NEW g \in Grants, RevokeAsks(r, g) PROVE Recorded'
  <2>1. g \in Remote
    BY <1>23 DEF RevokeAsks, Awaited
  <2>2. req'[r].scope = {g} /\ \A q \in Reqs \ {r} : req'[q] = req[q]
    BY <1>23, <2>1, BeginsTyped DEF RevokeAsks
  <2> QED BY <1>0, <1>23, <2>1, <2>2, ReadRecorded DEF RevokeAsks
<1>24. ASSUME NEW r \in Reqs, NEW g \in Grants, RevokeReturns(r, g) PROVE Recorded'
  <2>1. g \in Remote
    BY <1>24 DEF RevokeReturns, Holds, Kinds, KindOK, AboutRemote
  <2>2. cred' = cred \/ \E C : cred' = Killed(C)
    BY <1>24 DEF RevokeReturns
  <2> QED BY <1>0, <1>24, <2>1, <2>2, RemoteRecorded DEF RevokeReturns
<1>25. ASSUME NEW c \in Creds, IssuerRevokes(c) PROVE Recorded'
  <2>1. \A d \in Creds : cred'[d].state = "live" =>
                            cred[d].state = "live" /\ cred[d].grant = cred'[d].grant
    BY <1>25, KilledTyped DEF IssuerRevokes
  <2> QED BY <1>25, <2>1, KeepsRecorded DEF IssuerRevokes
<1>26. CASE UNCHANGED vars
  BY <1>26 DEF vars, Recorded, MintedIsRecorded, KnownPrior, Holds
<1> QED
  BY <1>1, <1>2, <1>3, <1>4, <1>5, <1>6, <1>7, <1>8, <1>9, <1>10, <1>11, <1>12, <1>13,
     <1>14, <1>15, <1>16, <1>17, <1>18, <1>19, <1>20, <1>21, <1>22, <1>23, <1>24, <1>25,
     <1>26 DEF Next, Death

LEMMA Inductive == Spec => []IInv
<1>1. Init => IInv
  BY InitTyped, InitRecorded DEF IInv, Recorded
<1>2. IInv /\ [Next]_vars => IInv'
  BY StepTyped, StepRecorded DEF IInv, Recorded
<1> QED BY <1>1, <1>2, PTL DEF Spec

\* A token minted for a grant and not revoked is the one its record holds.
THEOREM OneTokenPerGrant == Spec => []MintedIsRecorded
BY Inductive, PTL DEF IInv

-----------------------------------------------------------------------------
\* Who knows of which credential.  A record and what a handler has read of it name
\* credentials of that grant; what the issuer has answered is of the grant too.
Born(c, g) == c \in Creds /\ cred[c].state # "unborn" /\ cred[c].grant = g

Carries(r) == req[r].at \in {"issued", "replacing", "answered"}

OwnOf(r, g) ==
    /\ req[r].seen[g] \in Creds => Born(req[r].seen[g], g)
    /\ req[r].at \in {"refreshing", "answered"} => req[r].seen[g] \in Creds
    /\ Carries(r) => req[r].new = Pasted \/ Born(req[r].new, g)
    /\ req[r].at = "answered" => req[r].new # Pasted

Owned ==
    /\ \A c \in wire : c \in Creds /\ cred[c].state # "unborn"
    /\ \A g \in Grants : grant[g].material \in Creds => Born(grant[g].material, g)
    /\ \A r \in Reqs, g \in Grants : Holds(r, g) => OwnOf(r, g)

Known(c) ==
    \/ \E g \in Grants : grant[g].material = c
    \/ \E r \in Reqs, g \in Grants : Holds(r, g) /\ req[r].seen[g] = c

\* What the issuer has just answered nobody else knows of, so nobody ends it.
Fresh(r, g) ==
    /\ Holds(r, g) /\ Carries(r) /\ req[r].new \in Creds
    /\ req[r].at = "answered" => req[r].new # req[r].seen[g]

Private(r) ==
    /\ cred[req[r].new].state = "live" /\ ~Known(req[r].new) /\ req[r].new \notin wire
    /\ \A q \in Reqs \ {r}, h \in Grants :
          Holds(q, h) /\ Carries(q) => req[q].new # req[r].new

Unseen == \A r \in Reqs, g \in Grants : Fresh(r, g) => Private(r)

LEMMA KnownBorn ==
    ASSUME Owned, NEW c \in Creds, Known(c)
    PROVE  cred[c].state # "unborn"
BY DEF Owned, Known, OwnOf, Born

\* How a step of handler r may change what is known: credentials are born and stay
\* so, and only known ones die or are asked to be ended; a record takes what its handler carries and lets
\* go of, or a credential born in the step; a handler reads what is recorded.
Issued(c, g) ==
    c \in Creds /\ cred[c].state = "unborn" /\ cred'[c].state = "live" /\ cred'[c].grant = g

CredsKept ==
    \A c \in Creds :
        /\ cred[c].state # "unborn" => cred'[c].state # "unborn" /\ cred'[c].grant = cred[c].grant
        /\ cred[c].state = "live" => cred'[c].state = "live" \/ Known(c) \/ c \in wire

WireKept ==
    \A c \in wire' : c \in wire \/ (c \in Creds /\ Known(c) /\ cred[c].state = "live")

MaterialFrom(r) ==
    \A g \in Grants : grant'[g].material \in Creds =>
        \/ grant'[g].material = grant[g].material
        \/ /\ req'[r].scope = {} /\ Holds(r, g) /\ Carries(r)
           /\ grant'[g].material = req[r].new
        \/ req'[r].scope = {} /\ Issued(grant'[g].material, g)

SeenFrom(r) ==
    \A g \in Grants : g \in req'[r].scope =>
        /\ req'[r].seen[g] \in Creds =>
              \/ req'[r].seen[g] = grant[g].material
              \/ Holds(r, g) /\ req'[r].seen[g] = req[r].seen[g]
        /\ req'[r].at \in {"refreshing", "answered"} => req'[r].seen[g] \in Creds

NewFrom(r) ==
    \A g \in Grants : g \in req'[r].scope /\ req'[r].at \in {"issued", "replacing", "answered"} =>
        \/ req'[r] = req[r]
        \/ req'[r].new = Pasted /\ req'[r].at # "answered"
        \/ /\ Holds(r, g) /\ Carries(r) /\ req'[r].new = req[r].new
           /\ req[r].at # "answered" /\ req'[r].at # "answered"
        \/ Issued(req'[r].new, g) /\ grant' = grant
        \/ /\ Holds(r, g) /\ req'[r].seen = req[r].seen /\ req'[r].at = "answered"
           /\ req'[r].new = req[r].seen[g]

LEMMA KnowsKept ==
    ASSUME TypeOK, Owned, Unseen, NEW r \in Reqs, \A q \in Reqs \ {r} : req'[q] = req[q],
           CredsKept, WireKept, MaterialFrom(r), SeenFrom(r), NewFrom(r)
    PROVE  Owned' /\ Unseen'
<1>1. \A c, g : Born(c, g) => Born(c, g)'
  BY DEF CredsKept, Born
<1>2. \A c, g : Issued(c, g) => Born(c, g)'
  BY DEF Issued, Born
<1>3. ASSUME NEW g \in Grants, grant'[g].material \in Creds
      PROVE  Born(grant[g].material, g)'
  <2>1. CASE grant'[g].material = grant[g].material
    BY <1>1, <1>3, <2>1 DEF Owned
  <2>2. CASE Holds(r, g) /\ Carries(r) /\ grant'[g].material = req[r].new
    BY <1>1, <1>3, <2>2 DEF Owned, OwnOf
  <2> QED BY <1>2, <1>3, <2>1, <2>2 DEF MaterialFrom
<1>4. ASSUME NEW g \in Grants, g \in req'[r].scope PROVE OwnOf(r, g)'
  <2>1. req'[r].seen[g] \in Creds => Born(req[r].seen[g], g)'
    BY <1>1, <1>4 DEF SeenFrom, Owned, OwnOf
  <2>2. req'[r].at \in {"refreshing", "answered"} => req'[r].seen[g] \in Creds
    BY <1>4 DEF SeenFrom
  <2>3. ASSUME req'[r].at \in {"issued", "replacing", "answered"}
        PROVE  /\ req'[r].new = Pasted \/ Born(req[r].new, g)'
               /\ req'[r].at = "answered" => req'[r].new # Pasted
    <3>1. CASE req'[r] = req[r]
      BY <1>1, <1>4, <2>3, <3>1 DEF Owned, OwnOf, Carries, Holds
    <3>2. CASE Holds(r, g) /\ Carries(r) /\ req'[r].new = req[r].new
               /\ req'[r].at # "answered"
      BY <1>1, <3>2 DEF Owned, OwnOf
    <3>3. CASE Issued(req'[r].new, g)
      BY <1>2, <3>3 DEF Issued
    <3>4. CASE /\ Holds(r, g) /\ req'[r].seen = req[r].seen /\ req'[r].at = "answered"
               /\ req'[r].new = req[r].seen[g]
      BY <2>1, <2>2, <3>4
    <3> QED BY <1>4, <2>3, <3>1, <3>2, <3>3, <3>4 DEF NewFrom
  <2> QED BY <2>1, <2>2, <2>3 DEF OwnOf, Carries
<1>5. Owned'
  <2>1. ASSUME NEW q \in Reqs \ {r}, NEW g \in Grants, Holds(q, g)' PROVE OwnOf(q, g)'
    BY <1>1, <2>1 DEF Owned, OwnOf, Holds, Carries
  <2>2. \A c \in wire' : c \in Creds /\ cred'[c].state # "unborn"
    BY DEF WireKept, CredsKept, Owned
  <2> QED BY <1>3, <1>4, <2>1, <2>2 DEF Owned, Holds
\* A credential that was private and is not the handler's own stays private.
<1> DEFINE Before(c) == \/ Known(c) \/ cred[c].state = "unborn"
                        \/ /\ req'[r].scope = {} /\ Carries(r) /\ req[r].new = c
                           /\ \E g \in Grants : Holds(r, g)
<1>6. ASSUME NEW c \in Creds, Known(c)' PROVE Before(c)
  <2>1. ASSUME NEW g \in Grants, grant'[g].material = c PROVE Before(c)
    BY <2>1 DEF MaterialFrom, Issued, Known
  <2>2. ASSUME NEW q \in Reqs, NEW g \in Grants, g \in req'[q].scope, req'[q].seen[g] = c
        PROVE  Known(c)
    BY <2>2 DEF SeenFrom, Known, Holds
  <2> QED BY <1>6, <2>1, <2>2 DEF Known, Holds
<1>7. ASSUME NEW q \in Reqs, NEW g \in Grants, Fresh(q, g)' PROVE Private(q)'
  <2>0. PICK c \in Creds : c = req'[q].new
    BY <1>7 DEF Fresh
  <2>place. g \in req'[q].scope /\ req'[q].at \in {"issued", "replacing", "answered"}
    BY <1>7 DEF Fresh, Carries, Holds
  <2>1. CASE q # r
    <3>1. req'[q] = req[q] /\ Fresh(q, g) /\ c = req[q].new
      BY <1>7, <2>0, <2>1 DEF Fresh, Carries, Holds
    <3>2. /\ cred[c].state = "live" /\ ~Known(c) /\ c \notin wire
          /\ \A p \in Reqs \ {q}, h \in Grants : Holds(p, h) /\ Carries(p) => req[p].new # c
      BY <3>1 DEF Unseen, Private
    <3>3. cred'[c].state = "live"
      BY <2>0, <2>place, <3>2 DEF CredsKept
    <3>4. ~Known(c)'
      BY <2>0, <2>place, <2>1, <1>6, <3>2
    <3>wire. c \notin wire'
      BY <3>2 DEF WireKept
    <3>5. ASSUME NEW p \in Reqs \ {q}, NEW h \in Grants, h \in req'[p].scope,
                 req'[p].at \in {"issued", "replacing", "answered"}
          PROVE  req'[p].new # c
      <4>1. CASE p # r
        BY <3>2, <3>5, <4>1 DEF Holds, Carries
      <4>2. CASE p = r
        BY <2>0, <2>place, <3>2, <3>5, <4>2 DEF NewFrom, Holds, Carries, Issued, Known
      <4> QED BY <4>1, <4>2
    <3> QED BY <2>0, <3>3, <3>4, <3>wire, <3>5 DEF Private, Holds, Carries
  <2>2. CASE q = r
    <3>0. req'[r].scope # {}
      BY <2>0, <2>place, <2>2
    <3>1. CASE Fresh(r, g) /\ c = req[r].new
      <4>1. /\ cred[c].state = "live" /\ ~Known(c) /\ c \notin wire
            /\ \A p \in Reqs \ {r}, h \in Grants : Holds(p, h) /\ Carries(p) => req[p].new # c
        BY <3>1 DEF Unseen, Private
      <4>2. cred'[c].state = "live"
        BY <2>0, <2>place, <4>1 DEF CredsKept
      <4>3. ~Known(c)' /\ c \notin wire'
        BY <2>0, <2>place, <3>0, <1>6, <4>1 DEF WireKept
      <4>4. ASSUME NEW p \in Reqs \ {r}, NEW h \in Grants, h \in req'[p].scope,
                   req'[p].at \in {"issued", "replacing", "answered"}
            PROVE  req'[p].new # c
        BY <4>1, <4>4 DEF Holds, Carries
      <4> QED BY <2>0, <2>2, <4>2, <4>3, <4>4 DEF Private, Holds, Carries
    <3>2. CASE Issued(c, g) /\ grant' = grant
      <4>1. cred'[c].state = "live" /\ cred[c].state = "unborn" /\ ~Known(c)
        BY <2>0, <2>place, <3>2, KnownBorn DEF Issued
      <4>2. ~Known(c)'
        BY <3>2, <4>1 DEF SeenFrom, Known, Holds
      <4>wire. c \notin wire'
        BY <4>1 DEF WireKept, Owned
      <4>3. ASSUME NEW p \in Reqs \ {r}, NEW h \in Grants, h \in req'[p].scope,
                   req'[p].at \in {"issued", "replacing", "answered"}
            PROVE  req'[p].new # c
        <5>1. req'[p] = req[p] /\ Holds(p, h) /\ Carries(p)
          BY <4>3 DEF Holds, Carries
        <5>2. req[p].new = Pasted \/ Born(req[p].new, h)
          BY <5>1 DEF Owned, OwnOf
        <5> QED BY <2>0, <2>place, <4>1, <5>1, <5>2 DEF Born
      <4> QED BY <2>0, <2>2, <4>1, <4>2, <4>wire, <4>3 DEF Private, Holds, Carries
    <3>3. c # Pasted
      BY <2>0, <2>place
    <3>4. CASE req'[r] = req[r]
      <4>1. Fresh(r, g) /\ c = req[r].new
        BY <1>7, <2>0, <2>2, <3>4 DEF Fresh, Carries, Holds
      <4> QED BY <3>1, <4>1
    <3>5. CASE /\ Holds(r, g) /\ Carries(r) /\ req'[r].new = req[r].new
               /\ req[r].at # "answered" /\ req'[r].at # "answered"
      <4>1. Fresh(r, g) /\ c = req[r].new
        BY <2>0, <2>place, <2>2, <3>5 DEF Fresh
      <4> QED BY <3>1, <4>1
    <3>6. ~(/\ Holds(r, g) /\ req'[r].seen = req[r].seen /\ req'[r].at = "answered"
            /\ req'[r].new = req[r].seen[g])
      BY <1>7, <2>2 DEF Fresh
    <3> QED BY <2>0, <2>place, <2>2, <3>2, <3>3, <3>4, <3>5, <3>6 DEF NewFrom
  <2> QED BY <2>1, <2>2
<1> QED BY <1>5, <1>7 DEF Unseen

\* The kinds of step, and what each action is made of.
LEMMA CredsSame == UNCHANGED cred => CredsKept
BY DEF CredsKept

LEMMA WireSame == UNCHANGED wire => WireKept
BY DEF WireKept

LEMMA WireAsked ==
    ASSUME NEW c, Asks({c}), Known(c)
    PROVE  WireKept
BY DEF Asks, WireKept

LEMMA CredsKilled ==
    ASSUME TypeOK, NEW C, cred' = Killed(C), \A c \in Creds \cap C : Known(c)
    PROVE  CredsKept
BY KilledTyped DEF CredsKept

LEMMA CredsIssued ==
    ASSUME TypeOK, NEW c \in Creds, NEW g \in Grants, cred[c].state = "unborn",
           cred' = [cred EXCEPT ![c] = [state |-> "live", grant |-> g]]
    PROVE  CredsKept /\ Issued(c, g)
BY BornTyped DEF CredsKept, Issued, TypeOK

LEMMA KnowsStill ==
    ASSUME TypeOK, Owned, Unseen, UNCHANGED req, CredsKept, WireKept,
           \A g \in Grants : grant'[g].material \in Creds
                                => grant'[g].material = grant[g].material
    PROVE  Owned' /\ Unseen'
<1>1. CASE Reqs = {}
  BY <1>1 DEF Owned, Unseen, CredsKept, WireKept, Born
<1>2. ASSUME NEW r \in Reqs PROVE Owned' /\ Unseen'
  <2>1. MaterialFrom(r)
    BY DEF MaterialFrom
  <2>2. SeenFrom(r)
    BY DEF SeenFrom, Owned, OwnOf, Holds
  <2>3. NewFrom(r)
    BY DEF NewFrom
  <2> QED BY <2>1, <2>2, <2>3, KnowsKept
<1> QED BY <1>1, <1>2

LEMMA KnowsEnds ==
    ASSUME TypeOK, Owned, Unseen, NEW r \in Reqs, Ends(r), CredsKept, WireKept,
           MaterialFrom(r)
    PROVE  Owned' /\ Unseen'
<1>1. req'[r].scope = {} /\ \A q \in Reqs \ {r} : req'[q] = req[q]
  BY EndsTyped
<1>2. SeenFrom(r) /\ NewFrom(r)
  BY <1>1 DEF SeenFrom, NewFrom
<1> QED BY <1>1, <1>2, KnowsKept

LEMMA KnowsBegins ==
    ASSUME TypeOK, Owned, Unseen, NEW r \in Reqs, NEW g \in Grants,
           NEW at \in {"body", "exchanging", "refreshing", "revoking"}, Begins(r, at, g),
           at # "body" => g \in Remote, at = "refreshing" => grant[g].material \in Creds,
           UNCHANGED <<grant, cred>>, WireKept
    PROVE  Owned' /\ Unseen'
<1>1. /\ req'[r].at = at /\ req'[r].scope = {g} /\ req'[r].seen[g] = grant[g].material
      /\ \A q \in Reqs \ {r} : req'[q] = req[q]
  BY BeginsTyped
<1>2. SeenFrom(r)
  BY <1>1 DEF SeenFrom
<1>3. NewFrom(r)
  BY <1>1 DEF NewFrom
<1>4. CredsKept /\ MaterialFrom(r)
  BY DEF CredsKept, MaterialFrom
<1> QED BY <1>1, <1>2, <1>3, <1>4, KnowsKept

\* A handler that writes a record puts there no credential but the one it carries.
LEMMA PutsMaterial ==
    ASSUME TypeOK, NEW r \in Reqs, NEW R, NEW g \in Grants, NEW material \in Materials,
           NEW status \in {"pending", "approved", "revoked", "needs_consent"},
           Puts(R, g, status, material), Ends(r),
           \/ material \notin Creds \/ Issued(material, g)
           \/ Holds(r, g) /\ Carries(r) /\ material = req[r].new
    PROVE  MaterialFrom(r)
<1>1. grant'[g].material = material /\ \A h \in Grants \ {g} : grant'[h] = grant[h]
  BY DEF Puts, TypeOK
<1>2. req'[r].scope = {}
  BY EndsTyped
<1> QED BY <1>1, <1>2 DEF MaterialFrom

\* A reconcile has read what it tears down.
LEMMA KnowsPrunes ==
    ASSUME TypeOK, Owned, Unseen, NEW r \in Reqs, NEW seen \in [Grants -> Materials],
           NEW rest \in SUBSET Grants, NEW gone, NEW batch \in SUBSET rest,
           Pruned(r, seen, rest, gone, batch),
           \A g \in rest : seen[g] = grant[g].material \/ (Holds(r, g) /\ seen[g] = req[r].seen[g])
    PROVE  Owned' /\ Unseen'
<1>1. CredsKept
  <2>1. \A g \in batch : Known(seen[g])
    BY DEF Known
  <2> QED BY <2>1 DEF Pruned, CredsKept
<1>2. MaterialFrom(r)
  <2>1. \A g \in Grants : grant'[g] \in {NoRecord, grant[g]}
    BY DEF Pruned
  <2>2. NoRecord.material \notin Creds
    BY DEF NoRecord
  <2> QED BY <2>1, <2>2 DEF MaterialFrom
<1>3. SeenFrom(r) /\ NewFrom(r)
  BY DEF Pruned, SeenFrom, NewFrom
<1>5. WireKept
  <2>1. \A g \in rest : Known(seen[g])
    BY DEF Known
  <2> QED BY <2>1, WireSame, WireAsked DEF Pruned
<1>4. \A q \in Reqs \ {r} : req'[q] = req[q]
  BY DEF Pruned
<1> QED BY <1>1, <1>2, <1>3, <1>4, <1>5, KnowsKept

LEMMA StepKnows == IInv /\ Owned /\ Unseen /\ [Next]_vars => Owned' /\ Unseen'
<1> SUFFICES ASSUME TypeOK, Kinds, Owned, Unseen, [Next]_vars PROVE Owned' /\ Unseen'
  BY DEF IInv
<1> USE DEF history
<1>0. /\ Nothing \in Materials /\ Pasted \in Materials /\ Creds \subseteq Materials
      /\ Nothing \notin Creds /\ Pasted \notin Creds /\ Nothing # Pasted
      /\ Minted \subseteq Grants /\ Remote \subseteq Grants /\ Minted \cap Remote = {}
  BY DEF Materials, Grants
<1>k. /\ \A r \in Reqs, g \in Grants : Holds(r, g) => Known(req[r].seen[g])
      /\ \A g \in Grants : Known(grant[g].material)
  BY DEF Known
<1>1. ASSUME NEW g \in Grants, Upsert(g) PROVE Owned' /\ Unseen'
  <2>1. grant'[g].material = Nothing /\ \A h \in Grants \ {g} : grant'[h] = grant[h]
    BY <1>0, <1>1, PutsTyped DEF Upsert
  <2> QED BY <1>0, <1>1, <2>1, CredsSame, WireSame, KnowsStill DEF Upsert
<1>2. ASSUME NEW g \in Grants, Revoke(g) PROVE Owned' /\ Unseen'
  <2>1. grant'[g].material = Nothing /\ \A h \in Grants \ {g} : grant'[h] = grant[h]
    BY <1>0, <1>2, PutsTyped DEF Revoke
  <2>2. CredsKept
    BY <1>k, <1>2, CredsKilled DEF Revoke
  <2> QED BY <1>0, <1>2, <2>1, <2>2, WireSame, KnowsStill DEF Revoke
<1>3. ASSUME NEW f \in Flows, FlowEnds(f) PROVE Owned' /\ Unseen'
  BY <1>3, CredsSame, WireSame, KnowsStill DEF FlowEnds
<1>4. ASSUME NEW f \in Flows, NEW r \in Reqs, Callback(r, f) PROVE Owned' /\ Unseen'
  <2>1. flow[f] \in Remote
    BY <1>4 DEF Callback, Kinds
  <2> QED BY <1>0, <1>4, <2>1, WireSame, KnowsBegins DEF Callback
<1>5. ASSUME NEW r \in Reqs, GivesUp(r) PROVE Owned' /\ Unseen'
  <2>1. MaterialFrom(r)
    BY <1>5 DEF GivesUp, MaterialFrom
  <2> QED BY <1>5, <2>1, CredsSame, WireSame, KnowsEnds DEF GivesUp
<1>6. ASSUME NEW r \in Reqs, ReconcileReturns(r) PROVE Owned' /\ Unseen'
  <2> DEFINE gone == {req[r].cur}
             rest == req[r].scope \ gone
  <2>1. Prunes(r, req[r].seen, rest, gone)
    BY <1>6 DEF ReconcileReturns
  <2>2. req[r].seen \in [Grants -> Materials] /\ rest \in SUBSET Grants
    BY DEF TypeOK, Request
  <2>3. req[r].cur \in Grants /\ Holds(r, req[r].cur)
    BY <1>0, <1>6 DEF ReconcileReturns, Kinds, KindOK, Holds
  <2>5. \A g \in rest : Holds(r, g)
    BY DEF Holds
  <2> HIDE DEF gone, rest
  <2>6. PICK batch \in SUBSET rest : Pruned(r, req[r].seen, rest, gone, batch)
    BY <2>1, <2>2, PrunesTyped
  <2> QED BY <2>2, <2>5, <2>6, KnowsPrunes
<1>7. ASSUME NEW r \in Reqs, NEW S \in SUBSET Grants, Reconcile(r, S)
      PROVE Owned' /\ Unseen'
  <2> DEFINE read == [g \in Grants |-> IF g \in S THEN grant[g].material ELSE Nothing]
  <2>1. /\ read \in [Grants -> Materials]
        /\ \A g \in S : read[g] = grant[g].material
    BY HeldTyped, <1>0 DEF TypeOK, GrantRecord
  <2>2. Prunes(r, read, S, {})
    BY <1>7 DEF Reconcile
  <2> HIDE DEF read
  <2>3. PICK batch \in SUBSET S : Pruned(r, read, S, {}, batch)
    BY <2>1, <2>2, PrunesTyped
  <2> QED BY <2>1, <2>3, KnowsPrunes
<1>8. ASSUME Death PROVE Owned' /\ Unseen'
  <2>1. PICK removed \in SUBSET Grants, cut \in SUBSET Grants, creds \in [Creds -> Credential] :
            Spent(removed, creds, cut)
    BY <1>8, DeathSpends
  <2>2. Dies(removed, creds, cut)
    BY <2>1 DEF Spent
  <2>3. /\ cred' = creds /\ \A r \in Reqs : req'[r].scope = {}
        /\ \A g \in Grants : grant'[g] = IF g \in removed THEN NoRecord ELSE grant[g]
    BY <2>2, DiesTyped
  <2>4. \A c, g : Born(c, g) => Born(c, g)'
    BY <2>1, <2>3 DEF Spent, Born
  <2>5. \A g \in Grants : grant'[g].material \in Creds => Born(grant[g].material, g)'
    BY <1>0, <2>3, <2>4 DEF Owned, NoRecord
  <2>6. \A c \in wire' : c \in Creds /\ cred'[c].state # "unborn"
    BY <2>1, <2>2, <2>3 DEF Spent, Dies, Asks, Owned
  <2> QED BY <2>3, <2>5, <2>6 DEF Owned, Unseen, Fresh, Holds
<1>9. ASSUME NEW r \in Reqs, NEW g \in Grants, Approve(r, g) PROVE Owned' /\ Unseen'
  BY <1>9, WireSame, KnowsBegins DEF Approve
<1>10. ASSUME NEW r \in Reqs, NEW g \in Grants, ApproveMints(r, g)
       PROVE Owned' /\ Unseen'
  <2>1. CredsKept
    BY <1>k, <1>10, CredsKilled DEF ApproveMints
  <2>2. MaterialFrom(r) /\ grant' = grant /\ WireKept
    BY <1>10, WireSame DEF ApproveMints, MaterialFrom
  <2>3. CASE Ends(r)
    BY <2>1, <2>2, <2>3, KnowsEnds
  <2>4. CASE Goes(r, "signing", Nothing)
    <3>1. /\ req'[r].at = "signing" /\ req'[r].scope = req[r].scope
          /\ req'[r].seen = req[r].seen /\ \A q \in Reqs \ {r} : req'[q] = req[q]
      BY <1>0, <1>10, <2>4, GoesTyped DEF ApproveMints
    <3>2. SeenFrom(r) /\ NewFrom(r)
      BY <3>1 DEF SeenFrom, NewFrom, Holds
    <3> QED BY <2>1, <2>2, <3>1, <3>2, KnowsKept
  <2> QED BY <1>10, <2>3, <2>4 DEF ApproveMints
<1>11. ASSUME NEW r \in Reqs, NEW g \in Grants, ApproveSigned(r, g)
       PROVE Owned' /\ Unseen'
  <2>1. PICK c \in Creds :
            /\ cred[c].state = "unborn"
            /\ cred' = [cred EXCEPT ![c] = [state |-> "live", grant |-> g]]
            /\ Puts({r}, g, "approved", c)
    BY <1>11 DEF ApproveSigned
  <2>2. CredsKept /\ Issued(c, g)
    BY <2>1, CredsIssued
  <2>3. Ends(r) /\ WireKept
    BY <1>11, WireSame DEF ApproveSigned
  <2>4. MaterialFrom(r)
    BY <1>0, <2>1, <2>2, <2>3, PutsMaterial
  <2> QED BY <2>2, <2>3, <2>4, KnowsEnds
<1>12. ASSUME NEW r \in Reqs, NEW g \in Grants, ApproveFails(r, g)
       PROVE Owned' /\ Unseen'
  <2>1. MaterialFrom(r)
    BY <1>12 DEF ApproveFails, MaterialFrom
  <2> QED BY <1>12, <2>1, CredsSame, WireSame, KnowsEnds DEF ApproveFails
<1>13. ASSUME NEW r \in Reqs, NEW g \in Grants, ApprovePasted(r, g)
       PROVE Owned' /\ Unseen'
  <2>1. MaterialFrom(r)
    BY <1>0, <1>13, PutsMaterial DEF ApprovePasted
  <2> QED BY <1>13, <2>1, CredsSame, WireSame, KnowsEnds DEF ApprovePasted
<1>14. ASSUME NEW r \in Reqs, NEW g \in Grants, ApproveDiscovers(r, g)
       PROVE Owned' /\ Unseen'
  <2>1. /\ req'[r].at = "discovering" /\ req'[r].scope = req[r].scope
        /\ req'[r].seen = req[r].seen /\ \A q \in Reqs \ {r} : req'[q] = req[q]
    BY <1>0, <1>14, GoesTyped DEF ApproveDiscovers
  <2>2. SeenFrom(r) /\ NewFrom(r)
    BY <2>1 DEF SeenFrom, NewFrom, Holds
  <2>3. MaterialFrom(r) /\ CredsKept /\ WireKept
    BY <1>14, WireSame DEF ApproveDiscovers, MaterialFrom, CredsKept
  <2> QED BY <2>1, <2>2, <2>3, KnowsKept
<1>15. ASSUME NEW r \in Reqs, NEW g \in Grants, FlowStarts(r, g)
       PROVE Owned' /\ Unseen'
  <2>1. MaterialFrom(r)
    BY <1>15 DEF FlowStarts, MaterialFrom
  <2> QED BY <1>15, <2>1, CredsSame, WireSame, KnowsEnds DEF FlowStarts
<1>16. ASSUME NEW r \in Reqs, NEW g \in Grants, Exchanges(r, g)
       PROVE Owned' /\ Unseen'
  <2>0. /\ g \in Remote /\ req[r].at = "exchanging" /\ Holds(r, g) /\ grant' = grant
        /\ WireKept
    BY <1>16, WireSame DEF Exchanges, Holds, Kinds, KindOK, AboutRemote
  <2>1. req[r].scope \subseteq {g} /\ MaterialFrom(r)
    BY <2>0 DEF Kinds, KindOK, Holds, MaterialFrom
  <2>2. PICK new \in Materials :
            /\ Goes(r, "issued", new)
            /\ \/ /\ new \in Creds /\ cred[new].state = "unborn"
                  /\ cred' = [cred EXCEPT ![new] = [state |-> "live", grant |-> g]]
               \/ new = Pasted /\ UNCHANGED cred
    BY <1>0, <1>16 DEF Exchanges
  <2>3. CredsKept /\ (new = Pasted \/ Issued(new, g))
    BY <2>2, CredsSame, WireSame, CredsIssued
  <2>4. /\ req'[r].at = "issued" /\ req'[r].scope = req[r].scope /\ req'[r].new = new
        /\ req'[r].seen = req[r].seen /\ \A q \in Reqs \ {r} : req'[q] = req[q]
    BY <2>0, <2>2, GoesTyped
  <2>5. SeenFrom(r)
    BY <2>4 DEF SeenFrom, Holds
  <2>6. NewFrom(r)
    BY <2>0, <2>1, <2>3, <2>4 DEF NewFrom
  <2> QED BY <2>0, <2>1, <2>3, <2>4, <2>5, <2>6, KnowsKept
<1>17. ASSUME NEW r \in Reqs, NEW g \in Grants, CallbackReplaces(r, g)
       PROVE Owned' /\ Unseen'
  <2>1. g \in Remote /\ req[r].at = "issued" /\ req[r].new \in Materials
        /\ Goes(r, "replacing", req[r].new) /\ Holds(r, g)
    BY <1>17, HeldTyped DEF CallbackReplaces, Holds, Kinds, KindOK, AboutRemote
  <2>2. /\ req'[r].at = "replacing" /\ req'[r].scope = req[r].scope
        /\ req'[r].new = req[r].new
        /\ req'[r].seen = req[r].seen /\ \A q \in Reqs \ {r} : req'[q] = req[q]
    BY <2>1, GoesTyped
  <2>3. SeenFrom(r) /\ NewFrom(r)
    BY <2>1, <2>2 DEF SeenFrom, NewFrom, Holds, Carries
  <2>4. MaterialFrom(r) /\ CredsKept /\ WireKept
    BY <1>k, <1>17, WireAsked DEF CallbackReplaces, MaterialFrom, CredsKept
  <2> QED BY <2>2, <2>3, <2>4, KnowsKept
<1>18. ASSUME NEW r \in Reqs, NEW g \in Grants, CallbackReturns(r, g)
       PROVE Owned' /\ Unseen'
  <2>1. /\ req[r].new \in Materials /\ Holds(r, g) /\ Carries(r) /\ Ends(r)
        /\ Puts({r}, g, "approved", req[r].new)
    BY <1>18, HeldTyped DEF CallbackReturns, Carries
  <2>2. MaterialFrom(r)
    BY <2>1, PutsMaterial
  <2>3. CredsKept /\ WireKept
    BY <1>18, CredsSame, WireSame DEF CallbackReturns
  <2> QED BY <2>1, <2>2, <2>3, KnowsEnds
<1>19. ASSUME NEW r \in Reqs, NEW g \in Grants, Material(r, g)
       PROVE Owned' /\ Unseen'
  BY <1>19, WireSame, KnowsBegins DEF Material
<1>20. ASSUME NEW r \in Reqs, NEW g \in Grants, Refreshes(r, g)
       PROVE Owned' /\ Unseen'
  <2> DEFINE old == req[r].seen[g]
  <2>0. g \in Remote /\ req[r].at = "refreshing" /\ Holds(r, g) /\ grant' = grant
        /\ old \in Materials /\ WireKept
    BY <1>20, HeldTyped, WireSame DEF Refreshes, Holds, Kinds, KindOK, AboutRemote
  <2>1. req[r].scope \subseteq {g} /\ MaterialFrom(r) /\ old \in Creds
    BY <2>0 DEF Kinds, KindOK, Holds, MaterialFrom, Owned, OwnOf
  <2>2. PICK new \in Materials :
            /\ Goes(r, "answered", new)
            /\ \/ new = old /\ UNCHANGED cred
               \/ /\ new \in Creds /\ cred[new].state = "unborn"
                  /\ cred' = [Killed({old}) EXCEPT ![new] = [state |-> "live", grant |-> g]]
    BY <1>0, <1>20, <2>0 DEF Refreshes
  <2>3. CredsKept /\ (new = old \/ Issued(new, g))
    <3>1. CASE new = old /\ UNCHANGED cred
      BY <2>2, <3>1, CredsSame, WireSame
    <3>2. CASE /\ new \in Creds /\ cred[new].state = "unborn"
               /\ cred' = [Killed({old}) EXCEPT ![new] = [state |-> "live", grant |-> g]]
      <4>1. /\ Killed({old}) \in [Creds -> Credential]
            /\ \A c \in Creds :
                 /\ Killed({old})[c].grant = cred[c].grant
                 /\ Killed({old})[c].state = "live" <=> cred[c].state = "live" /\ c \notin {old}
                 /\ Killed({old})[c].state = "unborn" <=> cred[c].state = "unborn"
        BY KilledTyped
      <4>2. /\ cred'[new].state = "live" /\ cred'[new].grant = g
            /\ \A d \in Creds \ {new} : cred'[d] = Killed({old})[d]
        BY <2>0, <3>2, <4>1, BornTyped
      <4>3. Known(old)
        BY <1>k, <2>0
      <4> QED BY <3>2, <4>1, <4>2, <4>3 DEF CredsKept, Issued
    <3> QED BY <2>2, <3>1, <3>2
  <2>4. /\ req'[r].at = "answered" /\ req'[r].scope = req[r].scope /\ req'[r].new = new
        /\ req'[r].seen = req[r].seen /\ \A q \in Reqs \ {r} : req'[q] = req[q]
    BY <2>0, <2>2, GoesTyped
  <2>5. SeenFrom(r)
    BY <2>1, <2>4 DEF SeenFrom, Holds
  <2>6. NewFrom(r)
    BY <2>0, <2>1, <2>3, <2>4 DEF NewFrom
  <2> QED BY <2>0, <2>1, <2>3, <2>4, <2>5, <2>6, KnowsKept
<1>21. ASSUME NEW r \in Reqs, NEW g \in Grants, Refreshed(r, g)
       PROVE Owned' /\ Unseen'
  <2>1. /\ req[r].new \in Materials /\ Holds(r, g) /\ Carries(r) /\ Ends(r)
        /\ Puts({r}, g, "approved", req[r].new)
    BY <1>21, HeldTyped DEF Refreshed, Carries
  <2>2. MaterialFrom(r)
    BY <2>1, PutsMaterial
  <2>3. CredsKept /\ WireKept
    BY <1>21, CredsSame, WireSame DEF Refreshed
  <2> QED BY <2>1, <2>2, <2>3, KnowsEnds
<1>22. ASSUME NEW r \in Reqs, NEW g \in Grants, RefreshFails(r, g)
       PROVE Owned' /\ Unseen'
  <2>1. MaterialFrom(r)
    BY <1>0, <1>22, PutsMaterial DEF RefreshFails
  <2>2. WireKept
    BY <1>k, <1>22, WireSame, WireAsked DEF RefreshFails
  <2> QED BY <1>22, <2>1, <2>2, CredsSame, KnowsEnds DEF RefreshFails
<1>23. ASSUME NEW r \in Reqs, NEW g \in Grants, RevokeAsks(r, g)
       PROVE Owned' /\ Unseen'
  <2>1. WireKept
    BY <1>k, <1>23, WireAsked DEF RevokeAsks
  <2> QED BY <1>23, <2>1, KnowsBegins DEF RevokeAsks, Awaited
<1>24. ASSUME NEW r \in Reqs, NEW g \in Grants, RevokeReturns(r, g)
       PROVE Owned' /\ Unseen'
  <2>1. MaterialFrom(r)
    BY <1>0, <1>24, PutsMaterial DEF RevokeReturns
  <2>2. CredsKept /\ WireKept
    BY <1>24, CredsSame, WireSame DEF RevokeReturns
  <2> QED BY <1>24, <2>1, <2>2, KnowsEnds DEF RevokeReturns
<1>25. ASSUME NEW c \in Creds, IssuerRevokes(c) PROVE Owned' /\ Unseen'
  <2>1. CredsKept
    BY <1>25, KilledTyped DEF IssuerRevokes, CredsKept
  <2>2. WireKept
    BY <1>25 DEF IssuerRevokes, WireKept
  <2> QED BY <1>25, <2>1, <2>2, KnowsStill DEF IssuerRevokes
<1>26. CASE UNCHANGED vars
  BY <1>26, CredsSame, WireSame, KnowsStill DEF vars
<1> QED
  BY <1>1, <1>2, <1>3, <1>4, <1>5, <1>6, <1>7, <1>8, <1>9, <1>10, <1>11, <1>12, <1>13,
     <1>14, <1>15, <1>16, <1>17, <1>18, <1>19, <1>20, <1>21, <1>22, <1>23, <1>24, <1>25,
     <1>26 DEF Next, Death

-----------------------------------------------------------------------------
\* What a record and those who refresh it agree on: its credential works, and the
\* issuer has not been asked to end it, while no handler is ending it; and a refresh
\* is of the credential that the record holds, or of one that was cleared.
Sound(g) ==
    grant[g].status = "approved" /\ grant[g].material \in Creds
            /\ (\A r \in Reqs : ~Ending(r, g))
        => cred[grant[g].material].state = "live" /\ grant[g].material \notin wire

Steady(g) ==
    \A r \in Reqs :
        Holds(r, g) /\ req[r].at \in {"refreshing", "answered"}
            /\ grant[g].status = "approved"
            => grant[g].material = req[r].seen[g]

Works(g) ==
    /\ g \in overlapped \cup revived \cup broken \/ Sound(g)
    /\ g \in overlapped \cup revived \/ Steady(g)

AllWork == \A g \in Grants : Works(g)

\* How a step may change what handler q has read of a grant it refreshes.
SteadyFrom(q, g) ==
    g \in req'[q].scope /\ req'[q].at \in {"refreshing", "answered"} =>
        \/ req'[q].seen[g] = grant[g].material
        \/ /\ Holds(q, g) /\ req[q].at \in {"refreshing", "answered"}
           /\ req'[q].seen[g] = req[q].seen[g]

\* The credentials of grants outside G neither die nor are asked to be ended.
Spares(G) ==
    \A c \in Creds, h \in Grants \ G :
        Born(c, h) /\ cred[c].state = "live" /\ c \notin wire
            => cred'[c].state = "live" /\ c \notin wire'

LEMMA SparesSame == \A G : UNCHANGED <<cred, wire>> => Spares(G)
BY DEF Spares

LEMMA SteadySame ==
    ASSUME NEW q \in Reqs, req'[q] = req[q], NEW g
    PROVE  SteadyFrom(q, g) /\ (Ending(q, g) => Ending(q, g)')
BY DEF SteadyFrom, Ending, Holds

LEMMA SteadyKept ==
    ASSUME NEW g, Steady(g), grant'[g] = grant[g], \A q \in Reqs : SteadyFrom(q, g)
    PROVE  Steady(g)'
BY DEF Steady, SteadyFrom, Holds

\* A grant whose record and credential are left alone.
LEMMA LeftAlone ==
    ASSUME Owned, NEW g \in Grants, Works(g), grant'[g] = grant[g],
           overlapped \subseteq overlapped', revived \subseteq revived',
           g \in broken => g \in broken',
           \A c \in Creds : Born(c, g) /\ cred[c].state = "live" /\ c \notin wire
                => cred'[c].state = "live" /\ c \notin wire',
           \A q \in Reqs : SteadyFrom(q, g) /\ (Ending(q, g) => Ending(q, g)')
    PROVE  Works(g)'
<1>1. Sound(g) => Sound(g)'
  BY DEF Sound, Owned
<1>2. Steady(g) => Steady(g)'
  BY SteadyKept
<1> QED BY <1>1, <1>2 DEF Works

\* One that a handler is ending, or has broken off on.
LEMMA SetAside ==
    ASSUME NEW g, Works(g), grant'[g] = grant[g],
           overlapped \subseteq overlapped', revived \subseteq revived',
           \A q \in Reqs : SteadyFrom(q, g),
           g \in broken' \/ \E r \in Reqs : Ending(r, g)'
    PROVE  Works(g)'
<1>1. Steady(g) => Steady(g)'
  BY SteadyKept
<1>2. g \in broken' \/ Sound(g)'
  BY DEF Sound
<1> QED BY <1>1, <1>2 DEF Works

\* A step of handler r that leaves all grants alone but those of G.
LEMMA OthersWork ==
    ASSUME Owned, AllWork, NEW r \in Reqs, NEW G, \A q \in Reqs \ {r} : req'[q] = req[q],
           \A h \in Grants \ G : SteadyFrom(r, h) /\ (Ending(r, h) => Ending(r, h)'),
           \A h \in Grants \ G : grant'[h] = grant[h] /\ (h \in broken => h \in broken'),
           overlapped \subseteq overlapped', revived \subseteq revived',
           Spares(G), \A g \in Grants \cap G : Works(g)'
    PROVE  AllWork'
<1>1. ASSUME NEW g \in Grants \ G PROVE Works(g)'
  <2>1. Works(g)
    BY DEF AllWork
  <2>2. \A q \in Reqs : SteadyFrom(q, g) /\ (Ending(q, g) => Ending(q, g)')
    BY SteadySame
  <2>3. \A c \in Creds : Born(c, g) /\ cred[c].state = "live" /\ c \notin wire
                => cred'[c].state = "live" /\ c \notin wire'
    BY DEF Spares
  <2> QED BY <1>1, <2>1, <2>2, <2>3, LeftAlone
<1> QED BY <1>1 DEF AllWork

LEMMA UnapprovedWorks ==
    ASSUME NEW g, grant'[g].status # "approved"
    PROVE  Works(g)'
BY DEF Works, Sound, Steady

\* Whoever stores a credential that works, or overlaps with another handler, and
\* ends, leaves the grant in order.
LEMMA StoredWorks ==
    ASSUME TypeOK, NEW r \in Reqs, NEW g \in Grants, NEW material \in Materials,
           material # Nothing, Puts({r}, g, "approved", material), Ends(r),
           g \notin overlapped' \cup revived' \cup broken' /\ material \in Creds
                => cred'[material].state = "live" /\ material \notin wire'
    PROVE  Works(g)'
<1>1. grant'[g].material = material
  BY DEF Puts, TypeOK
<1>2. req'[r].scope = {} /\ \A q \in Reqs \ {r} : req'[q] = req[q]
  BY EndsTyped
<1>3. g \notin overlapped' => \A q \in Reqs : g \notin req'[q].scope
  <2>1. g \notin overlapped' => \A q \in Reqs \ {r} : ~Holds(q, g)
    BY DEF Puts
  <2> QED BY <1>2, <2>1 DEF Holds
<1> QED BY <1>1, <1>3 DEF Works, Sound, Steady, Holds

\* Ending a credential of one grant spares those of the others.
LEMMA KilledSpares ==
    ASSUME TypeOK, NEW g \in Grants, NEW c, c \in Creds => Born(c, g),
           cred' = Killed({c}), wire' = wire
    PROVE  Spares({g})
<1>1. \A d \in Creds : cred'[d].state = "live" <=> cred[d].state = "live" /\ d \notin {c}
  BY KilledTyped
<1> QED BY <1>1 DEF Born, Spares

LEMMA AsksSpares ==
    ASSUME NEW g \in Grants, NEW c, c \in Creds => Born(c, g), Asks({c}), cred' = cred
    PROVE  Spares({g})
BY DEF Asks, Born, Spares

\* A step that begins, moves or ends a handler that is ending nothing.
LEMMA MovesWork ==
    ASSUME Owned, AllWork, NEW r \in Reqs, \A q \in Reqs \ {r} : req'[q] = req[q],
           req[r].at \notin {"signing", "replacing", "answered", "revoking", "pruning"},
           \A h \in Grants : SteadyFrom(r, h),
           UNCHANGED <<grant, overlapped, revived, broken, wire>>,
           \A c \in Creds : cred[c].state = "live" => cred'[c].state = "live"
    PROVE  AllWork'
<1>1. \A h \in Grants : ~Ending(r, h)
  BY DEF Ending
<1>2. Spares({})
  BY DEF Spares
<1> QED BY <1>1, <1>2, OthersWork

\* A handler that sets out to end the credential of its grant.
LEMMA AsidesWork ==
    ASSUME Owned, AllWork, NEW r \in Reqs, \A q \in Reqs \ {r} : req'[q] = req[q],
           NEW g \in Grants, req'[r].scope \subseteq {g}, req[r].scope \subseteq {g},
           UNCHANGED <<grant, overlapped, revived>>, broken \subseteq broken',
           SteadyFrom(r, g), g \in broken' \/ Ending(r, g)', Spares({g})
    PROVE  AllWork'
<1>1. Works(g)'
  <2>1. \A q \in Reqs : SteadyFrom(q, g)
    BY SteadySame
  <2> QED BY <2>1, SetAside DEF AllWork
<1>2. \A h \in Grants \ {g} : SteadyFrom(r, h) /\ ~Ending(r, h)
  BY DEF SteadyFrom, Ending, Holds
<1> QED BY <1>1, <1>2, OthersWork

\* A handler that writes one record and ends: only that grant is to be looked at.
LEMMA WriteWorks ==
    ASSUME TypeOK, Kinds, Owned, AllWork, NEW r \in Reqs, NEW g \in Grants, NEW R,
           NEW status, NEW material, Puts(R, g, status, material), Ends(r), Holds(r, g),
           req[r].at # "pruning", revived \subseteq revived', Spares({g}), Works(g)'
    PROVE  AllWork'
<1>1. /\ \A h \in Grants \ {g} : grant'[h] = grant[h] /\ (h \in broken => h \in broken')
      /\ overlapped \subseteq overlapped'
  BY DEF Puts, TypeOK
<1>2. /\ req'[r].scope = {} /\ \A q \in Reqs \ {r} : req'[q] = req[q]
  BY EndsTyped
<1>3. req[r].scope \subseteq {g}
  BY DEF Kinds, KindOK, Holds
<1>4. \A h \in Grants \ {g} : SteadyFrom(r, h) /\ ~Ending(r, h)
  BY <1>2, <1>3 DEF SteadyFrom, Ending, Holds
<1> QED BY <1>1, <1>2, <1>4, OthersWork

\* A reconcile looks at the grants it removes, and at the one it awaits next.
LEMMA PrunesWork ==
    ASSUME TypeOK, Kinds, Owned, AllWork, NEW r \in Reqs,
           NEW seen \in [Grants -> Materials], NEW rest \in SUBSET Grants, NEW gone,
           NEW batch \in SUBSET rest, Pruned(r, seen, rest, gone, batch),
           gone \cap rest = {},
           req[r].at = "idle" \/ (req[r].at = "pruning" /\ req[r].cur \in gone),
           UNCHANGED <<overlapped, revived>>,
           \A c \in Creds, g \in rest, h \in Grants : c = seen[g] /\ Born(c, h) => h = g
    PROVE  AllWork'
<1> DEFINE next == {req'[r].cur} \cap (rest \ batch)
           G == gone \cup batch \cup {g \in next : req'[r].at = "pruning" /\ g \in req'[r].scope}
<1>1. \A h \in Grants \ G : grant'[h] = grant[h] /\ (h \in broken => h \in broken')
  BY DEF Pruned
<1>2. \A q \in Reqs \ {r} : req'[q] = req[q]
  BY DEF Pruned
<1>3. \A h : SteadyFrom(r, h)
  BY DEF Pruned, SteadyFrom
<1>4. Spares(G)
  <2> SUFFICES ASSUME NEW c \in Creds, NEW h \in Grants \ G, Born(c, h),
                      cred[c].state = "live", c \notin wire
               PROVE  cred'[c].state = "live" /\ c \notin wire'
    BY DEF Spares
  <2>1. cred'[c].state = "live"
    BY DEF Pruned
  <2>2. c \notin wire'
    BY DEF Pruned, Asks
  <2> QED BY <2>1, <2>2
<1>5. \A h \in Grants \ G : ~Ending(r, h)
  BY DEF Ending
<1>6. ASSUME NEW g \in Grants \cap G PROVE Works(g)'
  <2>1. CASE g \in gone \cup batch
    <3>1. grant'[g].status # "approved"
      BY <2>1 DEF Pruned, NoRecord
    <3> QED BY <3>1, UnapprovedWorks
  <2>2. CASE g \notin gone \cup batch
    <3>1. Ending(r, g)'
      BY <1>6, <2>2 DEF Ending, Holds
    <3>2. grant'[g] = grant[g] /\ Works(g)
      BY <1>6, <2>2 DEF Pruned, AllWork
    <3>3. \A q \in Reqs : SteadyFrom(q, g)
      BY <1>2, <1>3, SteadySame
    <3> QED BY <3>1, <3>2, <3>3, SetAside
  <2> QED BY <2>1, <2>2
<1> HIDE DEF G
<1> QED BY <1>1, <1>2, <1>3, <1>4, <1>5, <1>6, OthersWork

\* When the hub dies, the grants that a handler was ending or refreshing are broken.
LEMMA DiesWork ==
    ASSUME TypeOK, Owned, AllWork, NEW removed \in SUBSET Grants, NEW cut \in SUBSET Grants,
           NEW creds \in [Creds -> Credential], Spent(removed, creds, cut)
    PROVE  AllWork'
<1>1. Dies(removed, creds, cut)
  BY DEF Spent
<1>2. /\ cred' = creds /\ \A r \in Reqs : req'[r].scope = {}
      /\ \A g \in Grants : grant'[g] = IF g \in removed THEN NoRecord ELSE grant[g]
      /\ UNCHANGED <<overlapped, revived>>
  BY <1>1, DiesTyped
<1> SUFFICES ASSUME NEW g \in Grants PROVE Works(g)'
  BY DEF AllWork
<1>3. CASE g \in removed
  <2>1. grant'[g].status # "approved"
    BY <1>2, <1>3 DEF NoRecord
  <2> QED BY <2>1, UnapprovedWorks
<1>4. CASE g \notin removed
  <2>1. Steady(g)'
    BY <1>2 DEF Steady, Holds
  <2>2. ASSUME g \notin broken', Sound(g) PROVE Sound(g)'
    <3>1. /\ g \notin cut
          /\ \A r \in Reqs : ~Ending(r, g) /\ ~Refreshing(r, g)
      BY <1>1, <1>4, <2>2 DEF Dies
    <3>2. SUFFICES ASSUME grant[g].status = "approved", grant[g].material \in Creds
                   PROVE  /\ cred'[grant[g].material].state = "live"
                          /\ grant[g].material \notin wire'
      BY <1>2, <1>4 DEF Sound
    <3> DEFINE c == grant[g].material
    <3>3. cred[c].state = "live" /\ c \notin wire /\ Born(c, g)
      BY <2>2, <3>1, <3>2 DEF Sound, Owned
    <3>4. \A h \in Grants : grant[h].material = c => h = g
      BY <3>2, <3>3 DEF Owned, Born
    <3>5. \A r \in Reqs, h \in Grants : Holds(r, h) /\ req[r].seen[h] = c => h = g
      BY <3>2, <3>3 DEF Owned, OwnOf, Born
    <3>6. creds[c].state = "live"
      BY <1>4, <3>1, <3>2, <3>3, <3>4, <3>5 DEF Spent
    <3>7. c \notin wire'
      BY <1>1, <3>1, <3>3, <3>5 DEF Dies, Asks, Refreshing
    <3> QED BY <1>2, <3>6, <3>7
  <2>3. Works(g)
    BY DEF AllWork
  <2>4. g \in broken => g \in broken'
    BY <1>1, <1>4 DEF Dies
  <2> QED BY <1>2, <2>1, <2>2, <2>3, <2>4 DEF Works
<1> QED BY <1>3, <1>4

LEMMA StepWorks == IInv /\ Owned /\ Unseen /\ AllWork /\ [Next]_vars => AllWork'
<1> SUFFICES ASSUME TypeOK, Kinds, Owned, Unseen, AllWork, [Next]_vars PROVE AllWork'
  BY DEF IInv
<1> USE DEF history
<1>0. /\ Nothing \in Materials /\ Pasted \in Materials /\ Creds \subseteq Materials
      /\ Nothing \notin Creds /\ Pasted \notin Creds /\ Nothing # Pasted
      /\ Minted \subseteq Grants /\ Remote \subseteq Grants /\ Minted \cap Remote = {}
  BY DEF Materials, Grants
<1>w. \A g \in Grants : Works(g)
  BY DEF AllWork
<1>o. /\ \A g \in Grants : grant[g].material \in Creds => Born(grant[g].material, g)
      /\ \A r \in Reqs, g \in Grants :
            Holds(r, g) /\ req[r].seen[g] \in Creds => Born(req[r].seen[g], g)
  BY DEF Owned, OwnOf
<1>1. ASSUME NEW g \in Grants, Upsert(g) PROVE AllWork'
  <2>1. /\ \A h \in Grants \ {g} : grant'[h] = grant[h] /\ (h \in broken => h \in broken')
        /\ overlapped \subseteq overlapped' /\ grant'[g].status # "approved"
    BY <1>1 DEF Upsert, Puts, TypeOK
  <2>2. Works(g)'
    BY <2>1, UnapprovedWorks
  <2>3. ASSUME NEW h \in Grants \ {g} PROVE Works(h)'
    BY <1>1, <1>w, <2>1, SteadySame, LeftAlone DEF Upsert
  <2> QED BY <2>2, <2>3 DEF AllWork
<1>2. ASSUME NEW g \in Grants, Revoke(g) PROVE AllWork'
  <2>1. /\ \A h \in Grants \ {g} : grant'[h] = grant[h] /\ (h \in broken => h \in broken')
        /\ overlapped \subseteq overlapped' /\ grant'[g].status # "approved"
    BY <1>2 DEF Revoke, Puts, TypeOK
  <2>2. Works(g)'
    BY <2>1, UnapprovedWorks
  <2>3. Spares({g})
    BY <1>2, <1>o, KilledSpares DEF Revoke
  <2>4. ASSUME NEW h \in Grants \ {g} PROVE Works(h)'
    BY <1>2, <1>w, <2>1, <2>3, SteadySame, LeftAlone DEF Revoke, Spares
  <2> QED BY <2>2, <2>4 DEF AllWork
<1>3. ASSUME NEW f \in Flows, FlowEnds(f) PROVE AllWork'
  <2>1. ASSUME NEW h \in Grants PROVE Works(h)'
    BY <1>3, <1>w, SteadySame, LeftAlone DEF FlowEnds
  <2> QED BY <2>1 DEF AllWork
<1>4. ASSUME NEW f \in Flows, NEW r \in Reqs, Callback(r, f) PROVE AllWork'
  <2>1. flow[f] \in Remote
    BY <1>4 DEF Callback, Kinds
  <2>2. /\ req[r].at = "idle" /\ req'[r].at = "exchanging"
        /\ \A q \in Reqs \ {r} : req'[q] = req[q]
    BY <1>0, <1>4, <2>1, BeginsTyped DEF Callback, Begins
  <2> QED BY <1>4, <2>2, MovesWork DEF SteadyFrom, Callback
<1>5. ASSUME NEW r \in Reqs, GivesUp(r) PROVE AllWork'
  <2>1. req'[r].at = "idle" /\ \A q \in Reqs \ {r} : req'[q] = req[q]
    BY <1>5, EndsTyped DEF GivesUp
  <2> QED BY <1>5, <2>1, MovesWork DEF SteadyFrom, GivesUp
<1>6. ASSUME NEW r \in Reqs, ReconcileReturns(r) PROVE AllWork'
  <2> DEFINE gone == {req[r].cur}
             rest == req[r].scope \ gone
  <2>1. Prunes(r, req[r].seen, rest, gone)
    BY <1>6 DEF ReconcileReturns
  <2>2. req[r].seen \in [Grants -> Materials] /\ rest \in SUBSET Grants
    BY DEF TypeOK, Request
  <2>3. req[r].at = "pruning" /\ req[r].cur \in gone /\ gone \cap rest = {}
    BY <1>6 DEF ReconcileReturns
  <2>4. \A c \in Creds, g \in rest, h \in Grants :
            c = req[r].seen[g] /\ Born(c, h) => h = g
    BY <1>o, <2>2 DEF Holds, Born
  <2>5. UNCHANGED <<overlapped, revived>>
    BY <1>6 DEF ReconcileReturns
  <2> HIDE DEF gone, rest
  <2>6. PICK batch \in SUBSET rest : Pruned(r, req[r].seen, rest, gone, batch)
    BY <2>1, <2>2, PrunesTyped
  <2> QED BY <2>2, <2>3, <2>4, <2>5, <2>6, PrunesWork
<1>7. ASSUME NEW r \in Reqs, NEW S \in SUBSET Grants, Reconcile(r, S) PROVE AllWork'
  <2> DEFINE read == [g \in Grants |-> IF g \in S THEN grant[g].material ELSE Nothing]
  <2>1. /\ read \in [Grants -> Materials]
        /\ \A g \in S : read[g] = grant[g].material
    BY HeldTyped, <1>0 DEF TypeOK, GrantRecord
  <2>2. Prunes(r, read, S, {}) /\ req[r].at = "idle" /\ UNCHANGED <<overlapped, revived>>
    BY <1>7 DEF Reconcile
  <2>3. \A c \in Creds, g \in S, h \in Grants : c = read[g] /\ Born(c, h) => h = g
    BY <1>o, <2>1 DEF Born
  <2> HIDE DEF read
  <2>4. PICK batch \in SUBSET S : Pruned(r, read, S, {}, batch)
    BY <2>1, <2>2, PrunesTyped
  <2> QED BY <2>1, <2>2, <2>3, <2>4, PrunesWork
<1>8. ASSUME Death PROVE AllWork'
  BY <1>8, DeathSpends, DiesWork
<1>9. ASSUME NEW r \in Reqs, NEW g \in Grants, Approve(r, g) PROVE AllWork'
  <2>1. /\ req[r].at = "idle" /\ req'[r].at = "body"
        /\ \A q \in Reqs \ {r} : req'[q] = req[q]
    BY <1>9, BeginsTyped DEF Approve, Begins
  <2> QED BY <1>9, <2>1, MovesWork DEF SteadyFrom, Approve
<1>10. ASSUME NEW r \in Reqs, NEW g \in Grants, ApproveMints(r, g) PROVE AllWork'
  <2>1. g \in Minted /\ req[r].at = "body" /\ Holds(r, g) /\ req[r].scope \subseteq {g}
        /\ UNCHANGED <<grant, overlapped, revived>>
    BY <1>10 DEF ApproveMints, Holds, Kinds, KindOK
  <2>2. Spares({g})
    BY <1>10, <1>o, <2>1, KilledSpares DEF ApproveMints
  <2>3. /\ \A q \in Reqs \ {r} : req'[q] = req[q]
        /\ \/ req'[r].at = "signing" /\ req'[r].scope = req[r].scope /\ broken' = broken
           \/ req'[r].scope = {} /\ g \in broken' /\ broken \subseteq broken'
    BY <1>0, <1>10, <2>1, GoesTyped, EndsTyped DEF ApproveMints
  <2>4. SteadyFrom(r, g) /\ (g \in broken' \/ Ending(r, g)')
    BY <2>1, <2>3 DEF SteadyFrom, Ending, Holds
  <2> QED BY <2>1, <2>2, <2>3, <2>4, AsidesWork
<1>11. ASSUME NEW r \in Reqs, NEW g \in Grants, ApproveSigned(r, g) PROVE AllWork'
  <2>1. PICK c \in Creds :
            /\ cred[c].state = "unborn"
            /\ cred' = [cred EXCEPT ![c] = [state |-> "live", grant |-> g]]
            /\ Puts({r}, g, "approved", c)
    BY <1>11 DEF ApproveSigned
  <2>2. cred'[c].state = "live" /\ \A d \in Creds \ {c} : cred'[d] = cred[d]
    BY <2>1, BornTyped DEF TypeOK
  <2>3. Ends(r) /\ Holds(r, g) /\ req[r].at = "signing" /\ UNCHANGED <<revived, wire>>
    BY <1>11 DEF ApproveSigned
  <2>4. c \notin wire'
    BY <2>1, <2>3 DEF Owned
  <2>5. Works(g)'
    BY <1>0, <2>1, <2>2, <2>3, <2>4, StoredWorks
  <2>6. Spares({g})
    BY <2>1, <2>2, <2>3 DEF Spares
  <2> QED BY <2>1, <2>3, <2>5, <2>6, WriteWorks
<1>12. ASSUME NEW r \in Reqs, NEW g \in Grants, ApproveFails(r, g) PROVE AllWork'
  <2>1. req[r].scope \subseteq {g} /\ UNCHANGED <<grant, overlapped, revived, cred, wire>>
        /\ broken' = broken \cup {g}
    BY <1>12 DEF ApproveFails, Holds, Kinds, KindOK
  <2>2. req'[r].scope = {} /\ \A q \in Reqs \ {r} : req'[q] = req[q]
    BY <1>12, EndsTyped DEF ApproveFails
  <2>3. SteadyFrom(r, g) /\ g \in broken' /\ Spares({g})
    BY <2>1, <2>2, SparesSame DEF SteadyFrom
  <2> QED BY <2>1, <2>2, <2>3, AsidesWork
<1>13. ASSUME NEW r \in Reqs, NEW g \in Grants, ApprovePasted(r, g) PROVE AllWork'
  <2>1. Ends(r) /\ Holds(r, g) /\ req[r].at = "body" /\ UNCHANGED <<revived, cred, wire>>
        /\ Puts({r}, g, "approved", Pasted)
    BY <1>13 DEF ApprovePasted
  <2>2. Works(g)'
    BY <1>0, <2>1, StoredWorks
  <2> QED BY <2>1, <2>2, SparesSame, WriteWorks
<1>14. ASSUME NEW r \in Reqs, NEW g \in Grants, ApproveDiscovers(r, g) PROVE AllWork'
  <2>1. /\ req[r].at = "body" /\ req'[r].at = "discovering"
        /\ \A q \in Reqs \ {r} : req'[q] = req[q]
    BY <1>0, <1>14, GoesTyped DEF ApproveDiscovers
  <2> QED BY <1>14, <2>1, MovesWork DEF SteadyFrom, ApproveDiscovers
<1>15. ASSUME NEW r \in Reqs, NEW g \in Grants, FlowStarts(r, g) PROVE AllWork'
  <2>1. req'[r].at = "idle" /\ \A q \in Reqs \ {r} : req'[q] = req[q]
    BY <1>15, EndsTyped DEF FlowStarts
  <2> QED BY <1>15, <2>1, MovesWork DEF SteadyFrom, FlowStarts
<1>16. ASSUME NEW r \in Reqs, NEW g \in Grants, Exchanges(r, g) PROVE AllWork'
  <2>0. g \in Remote /\ req[r].at = "exchanging" /\ Holds(r, g)
    BY <1>16 DEF Exchanges, Holds, Kinds, KindOK, AboutRemote
  <2>1. /\ req'[r].at = "issued" /\ \A q \in Reqs \ {r} : req'[q] = req[q]
    BY <1>0, <1>16, <2>0, GoesTyped DEF Exchanges
  <2>2. \A c \in Creds : cred[c].state = "live" => cred'[c].state = "live"
    BY <1>16, <2>0, BornTyped DEF Exchanges, TypeOK
  <2> QED BY <1>16, <2>0, <2>1, <2>2, MovesWork DEF SteadyFrom, Exchanges
<1>17. ASSUME NEW r \in Reqs, NEW g \in Grants, CallbackReplaces(r, g) PROVE AllWork'
  <2>1. /\ g \in Remote /\ req[r].at = "issued" /\ req[r].new \in Materials
        /\ Goes(r, "replacing", req[r].new) /\ Holds(r, g) /\ req[r].scope \subseteq {g}
        /\ Asks({req[r].seen[g]}) /\ UNCHANGED <<grant, cred, overlapped, revived, broken>>
    BY <1>17, HeldTyped DEF CallbackReplaces, Holds, Kinds, KindOK, AboutRemote
  <2>2. /\ req'[r].at = "replacing" /\ req'[r].scope = req[r].scope
        /\ \A q \in Reqs \ {r} : req'[q] = req[q]
    BY <2>1, GoesTyped
  <2>3. SteadyFrom(r, g) /\ Ending(r, g)'
    BY <2>1, <2>2 DEF SteadyFrom, Ending, Holds
  <2>4. Spares({g})
    BY <1>o, <2>1, AsksSpares
  <2> QED BY <2>1, <2>2, <2>3, <2>4, AsidesWork
<1>18. ASSUME NEW r \in Reqs, NEW g \in Grants, CallbackReturns(r, g) PROVE AllWork'
  <2>1. /\ req[r].new \in Materials /\ Holds(r, g) /\ req[r].at \in {"issued", "replacing"}
        /\ Puts({r}, g, "approved", req[r].new) /\ Ends(r)
        /\ UNCHANGED <<revived, cred, wire>>
    BY <1>18, HeldTyped DEF CallbackReturns
  <2>2. req[r].new # Nothing
    BY <1>0, <2>1 DEF Owned, OwnOf, Carries, Born
  <2>3. ASSUME req[r].new \in Creds
        PROVE  cred'[req[r].new].state = "live" /\ req[r].new \notin wire'
    BY <2>1, <2>3 DEF Unseen, Fresh, Private, Carries
  <2>4. Works(g)'
    BY <2>1, <2>2, <2>3, StoredWorks
  <2> QED BY <2>1, <2>4, SparesSame, WriteWorks
<1>19. ASSUME NEW r \in Reqs, NEW g \in Grants, Material(r, g) PROVE AllWork'
  <2>1. /\ req[r].at = "idle" /\ req'[r].scope = {g} /\ req'[r].seen[g] = grant[g].material
        /\ \A q \in Reqs \ {r} : req'[q] = req[q]
    BY <1>19, BeginsTyped DEF Material, Begins
  <2>2. \A h \in Grants : SteadyFrom(r, h)
    BY <2>1 DEF SteadyFrom
  <2> QED BY <1>19, <2>1, <2>2, MovesWork DEF Material
<1>20. ASSUME NEW r \in Reqs, NEW g \in Grants, Refreshes(r, g) PROVE AllWork'
  <2> DEFINE old == req[r].seen[g]
  <2>0. g \in Remote /\ req[r].at = "refreshing" /\ Holds(r, g) /\ old \in Materials
        /\ UNCHANGED <<grant, wire, overlapped, revived, broken>>
    BY <1>20, HeldTyped DEF Refreshes, Holds, Kinds, KindOK, AboutRemote
  <2>1. req[r].scope \subseteq {g} /\ old \in Creds
    BY <2>0 DEF Kinds, KindOK, Holds, Owned, OwnOf
  <2>2. PICK new \in Materials :
            /\ Goes(r, "answered", new)
            /\ \/ new = old /\ UNCHANGED cred
               \/ /\ new \in Creds /\ cred[new].state = "unborn" /\ cred[old].state = "live"
                  /\ cred' = [Killed({old}) EXCEPT ![new] = [state |-> "live", grant |-> g]]
    BY <1>0, <1>20, <2>0 DEF Refreshes
  <2>3. /\ req'[r].at = "answered" /\ req'[r].scope = req[r].scope /\ req'[r].new = new
        /\ req'[r].seen = req[r].seen /\ \A q \in Reqs \ {r} : req'[q] = req[q]
    BY <2>0, <2>2, GoesTyped
  <2>4. \A h \in Grants : SteadyFrom(r, h) /\ ~Ending(r, h)
    BY <2>0, <2>3 DEF SteadyFrom, Ending, Holds
  <2>5. CASE new = old /\ UNCHANGED cred
    <3>1. Spares({})
      BY <2>0, <2>5, SparesSame
    <3> QED BY <2>0, <2>3, <2>4, <3>1, OthersWork
  <2>6. CASE /\ new \in Creds /\ cred[new].state = "unborn" /\ cred[old].state = "live"
             /\ cred' = [Killed({old}) EXCEPT ![new] = [state |-> "live", grant |-> g]]
    <3>1. /\ Killed({old}) \in [Creds -> Credential]
          /\ \A c \in Creds :
                 Killed({old})[c].state = "live" <=> cred[c].state = "live" /\ c \notin {old}
      BY KilledTyped
    <3>2. \A d \in Creds \ {new} : cred'[d] = Killed({old})[d]
      BY <2>0, <2>6, <3>1, BornTyped
    <3>3. Born(old, g)
      BY <1>o, <2>0, <2>1
    <3>4. Spares({g})
      BY <2>0, <2>6, <3>1, <3>2, <3>3 DEF Spares, Born
    <3>5. Ending(r, g)'
      BY <2>0, <2>3, <2>6 DEF Ending, Holds
    <3> QED BY <2>0, <2>1, <2>3, <2>4, <3>4, <3>5, AsidesWork
  <2> QED BY <2>2, <2>5, <2>6
<1>21. ASSUME NEW r \in Reqs, NEW g \in Grants, Refreshed(r, g) PROVE AllWork'
  <2>1. /\ req[r].new \in Materials /\ Holds(r, g) /\ req[r].at = "answered"
        /\ Puts({r}, g, "approved", req[r].new) /\ Ends(r) /\ UNCHANGED <<cred, wire>>
        /\ revived' = IF grant[g].status = "approved" THEN revived ELSE revived \cup {g}
    BY <1>21, HeldTyped DEF Refreshed
  <2>2. req[r].new \in Creds
    BY <2>1 DEF Owned, OwnOf, Carries, Born
  <2>3. ASSUME g \notin overlapped' \cup revived' \cup broken'
        PROVE  cred'[req[r].new].state = "live" /\ req[r].new \notin wire'
    <3>1. CASE Fresh(r, g)
      BY <2>1, <3>1 DEF Unseen, Private
    <3>2. CASE ~Fresh(r, g)
      <4>1. req[r].new = req[r].seen[g]
        BY <2>1, <2>2, <3>2 DEF Fresh, Carries
      <4>2. grant[g].status = "approved" /\ g \notin overlapped \cup revived
        BY <2>1, <2>3 DEF Puts
      <4>3. grant[g].material = req[r].new
        BY <1>w, <2>1, <4>1, <4>2 DEF Works, Steady
      <4>4. g \notin broken
        BY <2>1, <2>2, <2>3, <4>3 DEF Puts
      <4>5. \A q \in Reqs \ {r} : ~Holds(q, g)
        BY <1>0, <2>1, <2>2, <2>3 DEF Puts
      <4>6. \A q \in Reqs : ~Ending(q, g)
        BY <2>1, <4>1, <4>5 DEF Ending
      <4> QED BY <1>w, <2>1, <2>2, <4>2, <4>3, <4>4, <4>6 DEF Works, Sound
    <3> QED BY <3>1, <3>2
  <2>4. Works(g)'
    BY <1>0, <2>1, <2>2, <2>3, StoredWorks
  <2>5. revived \subseteq revived'
    BY <2>1
  <2> QED BY <2>1, <2>4, <2>5, SparesSame, WriteWorks
<1>22. ASSUME NEW r \in Reqs, NEW g \in Grants, RefreshFails(r, g) PROVE AllWork'
  <2>1. Ends(r) /\ Holds(r, g) /\ req[r].at # "pruning" /\ UNCHANGED <<revived, cred>>
        /\ Puts({r}, g, "needs_consent", Nothing)
        /\ (UNCHANGED wire \/ Asks({req[r].seen[g]}))
    BY <1>22 DEF RefreshFails
  <2>2. grant'[g].status # "approved"
    BY <2>1 DEF Puts, TypeOK
  <2>3. Spares({g})
    BY <1>o, <2>1, SparesSame, AsksSpares
  <2> QED BY <2>1, <2>2, <2>3, UnapprovedWorks, WriteWorks
<1>23. ASSUME NEW r \in Reqs, NEW g \in Grants, RevokeAsks(r, g) PROVE AllWork'
  <2>1. /\ req[r].at = "idle" /\ req'[r].at = "revoking" /\ req'[r].scope = {g}
        /\ \A q \in Reqs \ {r} : req'[q] = req[q]
        /\ Asks({grant[g].material}) /\ UNCHANGED <<grant, cred, overlapped, revived, broken>>
    BY <1>23, BeginsTyped DEF RevokeAsks, Begins, Awaited
  <2>2. \A h \in Grants \ {g} : SteadyFrom(r, h) /\ ~Ending(r, h)
    BY <2>1 DEF SteadyFrom, Ending
  <2>3. \A q \in Reqs : SteadyFrom(q, g)
    BY <2>1, SteadySame DEF SteadyFrom
  <2>4. Ending(r, g)'
    BY <2>1 DEF Ending, Holds
  <2>5. Spares({g})
    BY <1>o, <2>1, AsksSpares
  <2>6. Works(g)'
    BY <1>w, <2>1, <2>3, <2>4, SetAside
  <2> QED BY <2>1, <2>2, <2>5, <2>6, OthersWork
<1>24. ASSUME NEW r \in Reqs, NEW g \in Grants, RevokeReturns(r, g) PROVE AllWork'
  <2>1. Ends(r) /\ Holds(r, g) /\ req[r].at = "revoking" /\ UNCHANGED <<revived, cred, wire>>
        /\ Puts({r}, g, "revoked", Nothing)
    BY <1>24 DEF RevokeReturns
  <2>2. grant'[g].status # "approved"
    BY <2>1 DEF Puts, TypeOK
  <2> QED BY <2>1, <2>2, SparesSame, UnapprovedWorks, WriteWorks
<1>25. ASSUME NEW c \in Creds, IssuerRevokes(c) PROVE AllWork'
  <2>1. /\ \A d \in Creds : cred'[d].state = "live" <=> cred[d].state = "live" /\ d \notin {c}
        /\ c \in wire /\ wire' = wire \ {c} /\ UNCHANGED <<grant, req, history>>
    BY <1>25, KilledTyped DEF IssuerRevokes
  <2>2. ASSUME NEW h \in Grants PROVE Works(h)'
    BY <1>w, <2>1, SteadySame, LeftAlone
  <2> QED BY <2>2 DEF AllWork
<1>26. CASE UNCHANGED vars
  <2>1. ASSUME NEW h \in Grants PROVE Works(h)'
    BY <1>26, <1>w, SteadySame, LeftAlone DEF vars
  <2> QED BY <2>1 DEF AllWork
<1> QED
  BY <1>1, <1>2, <1>3, <1>4, <1>5, <1>6, <1>7, <1>8, <1>9, <1>10, <1>11, <1>12, <1>13,
     <1>14, <1>15, <1>16, <1>17, <1>18, <1>19, <1>20, <1>21, <1>22, <1>23, <1>24, <1>25,
     <1>26 DEF Next, Death

-----------------------------------------------------------------------------
\* Approvals are accounted for: each one the operator asked for is used up by at
\* most one of the handlers and pending consents that came of it.
Asking == {"body", "signing", "discovering", "exchanging", "issued", "replacing"}

Asked(g) == {r \in Reqs : Holds(r, g) /\ req[r].at \in Asking}

Coming(g) == {f \in Flows : flow[f] = g}

Counts(g) ==
    /\ IsFiniteSet(Asked(g)) /\ IsFiniteSet(Coming(g))
    /\ g \in revived \/ Cardinality(Asked(g)) + Cardinality(Coming(g)) <= credit[g]

Counted == \A g \in Grants : Counts(g)

LEMMA Shrinks ==
    ASSUME NEW A, IsFiniteSet(A), NEW B \in SUBSET A
    PROVE  /\ IsFiniteSet(B) /\ Cardinality(B) \in Nat /\ Cardinality(A) \in Nat
           /\ Cardinality(B) <= Cardinality(A)
BY FS_Subset, FS_CardinalityType

LEMMA Loses ==
    ASSUME NEW A, IsFiniteSet(A), NEW x \in A, NEW B \in SUBSET (A \ {x})
    PROVE  /\ IsFiniteSet(B) /\ Cardinality(B) \in Nat /\ Cardinality(A) \in Nat
           /\ Cardinality(B) <= Cardinality(A) - 1
<1>1. IsFiniteSet(A \ {x}) /\ Cardinality(A \ {x}) = Cardinality(A) - 1
  BY FS_RemoveElement
<1>2. IsFiniteSet(B) /\ Cardinality(B) \in Nat /\ Cardinality(B) <= Cardinality(A \ {x})
  BY <1>1, Shrinks
<1> QED BY <1>1, <1>2, FS_CardinalityType

LEMMA Gains ==
    ASSUME NEW A, IsFiniteSet(A), NEW x, NEW B \in SUBSET (A \cup {x})
    PROVE  /\ IsFiniteSet(B) /\ Cardinality(B) \in Nat /\ Cardinality(A) \in Nat
           /\ Cardinality(B) <= Cardinality(A) + 1
<1>1. /\ IsFiniteSet(A \cup {x}) /\ Cardinality(A) \in Nat
      /\ Cardinality(A \cup {x}) = IF x \in A THEN Cardinality(A) ELSE Cardinality(A) + 1
  BY FS_AddElement, FS_CardinalityType
<1>2. /\ IsFiniteSet(B) /\ Cardinality(B) \in Nat
      /\ Cardinality(B) <= Cardinality(A \cup {x})
  BY <1>1, Shrinks
<1> QED BY <1>1, <1>2

\* Nobody new is to approve a grant, and none of its approvals is used up.
LEMMA CountsKept ==
    ASSUME TypeOK, NEW g \in Grants, Counts(g), Asked(g)' \subseteq Asked(g),
           Coming(g)' \subseteq Coming(g), credit'[g] \in Int, revived \subseteq revived',
           g \in revived' \/ credit'[g] >= credit[g]
    PROVE  Counts(g)'
<1>1. /\ IsFiniteSet(Asked(g)') /\ Cardinality(Asked(g)') \in Nat
      /\ Cardinality(Asked(g)) \in Nat /\ Cardinality(Asked(g)') <= Cardinality(Asked(g))
  BY Shrinks DEF Counts
<1>2. /\ IsFiniteSet(Coming(g)') /\ Cardinality(Coming(g)') \in Nat
      /\ Cardinality(Coming(g)) \in Nat /\ Cardinality(Coming(g)') <= Cardinality(Coming(g))
  BY Shrinks DEF Counts
<1>3. credit[g] \in Int
  BY DEF TypeOK
<1>4. ASSUME g \notin revived'
      PROVE  Cardinality(Asked(g)') + Cardinality(Coming(g)') <= credit'[g]
  <2>1. Cardinality(Asked(g)) + Cardinality(Coming(g)) <= credit[g]
    BY <1>4 DEF Counts
  <2> QED BY <1>1, <1>2, <1>3, <1>4, <2>1
<1> QED BY <1>1, <1>2, <1>4 DEF Counts

\* The credit of a grant changes when its record is approved, and only its own.
LEMMA PutsCredit ==
    ASSUME TypeOK, NEW R, NEW g \in Grants, NEW status, NEW material,
           Puts(R, g, status, material)
    PROVE  /\ \A h \in Grants : credit'[h] \in Int
           /\ \A h \in Grants \ {g} : credit'[h] = credit[h]
           /\ credit'[g] >= credit[g] - 1
           /\ status # "approved" \/ grant[g].status = "approved" => credit'[g] = credit[g]
<1>1. clicks \in Nat /\ credit \in [Grants -> -1 .. clicks]
  BY DEF TypeOK
<1>2. \A h \in Grants : credit[h] \in Int
  BY <1>1
<1>3. CASE status = "approved" /\ grant[g].status # "approved"
  <2>1. credit' = [credit EXCEPT ![g] = IF @ < 0 THEN @ ELSE @ - 1]
    BY <1>3 DEF Puts
  <2>2. credit'[g] = (IF credit[g] < 0 THEN credit[g] ELSE credit[g] - 1)
        /\ \A h \in Grants \ {g} : credit'[h] = credit[h]
    BY <1>1, <2>1
  <2>3. credit'[g] \in Int /\ credit'[g] >= credit[g] - 1
    BY <1>2, <2>2
  <2> QED BY <1>2, <1>3, <2>2, <2>3
<1>4. CASE ~(status = "approved" /\ grant[g].status # "approved")
  <2>1. credit' = credit
    BY <1>4 DEF Puts
  <2> QED BY <1>2, <2>1
<1> QED BY <1>3, <1>4

\* Steps after which no more handlers ask for a grant than before.
LEMMA FewerCount ==
    ASSUME TypeOK, Counted, NEW r \in Reqs, \A q \in Reqs \ {r} : req'[q] = req[q],
           \/ req'[r].at \notin Asking \/ req'[r].scope = {}
           \/ req[r].at \in Asking /\ req'[r].scope = req[r].scope,
           \A f \in Flows : flow'[f] \in {flow[f], NoGrant}, revived \subseteq revived',
           \A g \in Grants : credit'[g] \in Int /\ (g \in revived' \/ credit'[g] >= credit[g])
    PROVE  Counted'
<1> SUFFICES ASSUME NEW g \in Grants PROVE Counts(g)'
  BY DEF Counted
<1>1. Asked(g)' \subseteq Asked(g)
  BY DEF Asked, Holds
<1>2. Coming(g)' \subseteq Coming(g)
  BY DEF Coming
<1>3. Counts(g)
  BY DEF Counted
<1> QED BY <1>1, <1>2, <1>3, CountsKept

\* A handler that was asked to approve a grant does so, and uses up its approval.
LEMMA ApprovalCounts ==
    ASSUME TypeOK, Counted, NEW r \in Reqs, NEW g \in Grants, NEW material,
           Puts({r}, g, "approved", material), Ends(r), Holds(r, g), req[r].at \in Asking,
           UNCHANGED <<flow, revived>>
    PROVE  Counted'
<1>1. req'[r].scope = {} /\ \A q \in Reqs \ {r} : req'[q] = req[q]
  BY EndsTyped
<1>2. \A h \in Grants : Asked(h)' \subseteq Asked(h) \ {r} /\ Coming(h)' = Coming(h)
  BY <1>1 DEF Asked, Coming, Holds
<1>3. /\ \A h \in Grants : credit'[h] \in Int
      /\ \A h \in Grants \ {g} : credit'[h] = credit[h]
      /\ credit'[g] >= credit[g] - 1
  BY PutsCredit
<1>4. \A h \in Grants : Counts(h) /\ credit[h] \in Int
  BY DEF Counted, TypeOK
<1>5. ASSUME NEW h \in Grants \ {g} PROVE Counts(h)'
  BY <1>2, <1>3, <1>4, <1>5, CountsKept
<1>6. Counts(g)'
  <2>1. r \in Asked(g)
    BY DEF Asked
  <2>2. /\ IsFiniteSet(Asked(g)') /\ Cardinality(Asked(g)') \in Nat
        /\ Cardinality(Asked(g)) \in Nat /\ Cardinality(Asked(g)') <= Cardinality(Asked(g)) - 1
    BY <1>2, <1>4, <2>1, Loses DEF Counts
  <2>3. IsFiniteSet(Coming(g)) /\ Cardinality(Coming(g)) \in Nat /\ Coming(g)' = Coming(g)
    BY <1>2, <1>4, FS_CardinalityType DEF Counts
  <2>4. ASSUME g \notin revived
        PROVE  Cardinality(Asked(g)') + Cardinality(Coming(g)) <= credit'[g]
    <3>1. Cardinality(Asked(g)) + Cardinality(Coming(g)) <= credit[g]
      BY <1>4, <2>4 DEF Counts
    <3> QED BY <1>3, <1>4, <2>2, <2>3, <3>1
  <2> QED BY <2>2, <2>3, <2>4 DEF Counts
<1> QED BY <1>5, <1>6 DEF Counted

LEMMA StepCounted == IInv /\ Counted /\ [Next]_vars => Counted'
<1> SUFFICES ASSUME TypeOK, Kinds, Counted, [Next]_vars PROVE Counted'
  BY DEF IInv
<1> USE DEF history
<1>0. /\ \A g \in Grants : credit[g] \in Int /\ credit[g] >= credit[g] /\ Counts(g)
      /\ revived \subseteq revived /\ Minted \subseteq Grants /\ Remote \subseteq Grants
      /\ Minted \cap Remote = {} /\ NoGrant \notin Grants
  BY DEF TypeOK, Counted, Grants
<1>s. ASSUME UNCHANGED req, \A f \in Flows : flow'[f] \in {flow[f], NoGrant},
             UNCHANGED <<credit, revived>>
      PROVE  Counted'
  <2> SUFFICES ASSUME NEW g \in Grants PROVE Counts(g)'
    BY DEF Counted
  <2>1. Asked(g)' \subseteq Asked(g) /\ Coming(g)' \subseteq Coming(g)
    BY <1>0, <1>s DEF Asked, Coming, Holds
  <2>2. credit'[g] = credit[g] /\ revived' = revived
    BY <1>s
  <2> QED BY <1>0, <2>1, <2>2, CountsKept
<1>1. ASSUME NEW g \in Grants, Upsert(g) PROVE Counted'
  <2>1. credit' = credit
    BY <1>1 DEF Upsert, Puts
  <2> QED BY <1>1, <1>s, <2>1 DEF Upsert
<1>2. ASSUME NEW g \in Grants, Revoke(g) PROVE Counted'
  <2>1. credit' = credit
    BY <1>2 DEF Revoke, Puts
  <2> QED BY <1>2, <1>s, <2>1 DEF Revoke
<1>3. ASSUME NEW f \in Flows, FlowEnds(f) PROVE Counted'
  <2>1. \A e \in Flows : flow'[e] \in {flow[e], NoGrant}
    BY <1>3 DEF FlowEnds, TypeOK
  <2> QED BY <1>3, <1>s, <2>1 DEF FlowEnds
<1>4. ASSUME NEW f \in Flows, NEW r \in Reqs, Callback(r, f) PROVE Counted'
  <2>1. PICK g \in Remote : g = flow[f]
    BY <1>0, <1>4 DEF Callback, Kinds
  <2>grant. g \in Grants
    BY <1>0
  <2>2. /\ req'[r].scope = {g} /\ \A q \in Reqs \ {r} : req'[q] = req[q]
    BY <1>4, <2>1, <2>grant, BeginsTyped DEF Callback
  <2>3. /\ \A h \in Grants \ {g} : Asked(h)' \subseteq Asked(h)
        /\ Asked(g)' \subseteq Asked(g) \cup {r}
    BY <2>2 DEF Asked, Holds
  <2>4. /\ flow'[f] = NoGrant /\ \A e \in Flows \ {f} : flow'[e] = flow[e]
        /\ UNCHANGED <<credit, revived>>
    BY <1>4 DEF Callback, TypeOK
  <2>5. /\ \A h \in Grants \ {g} : Coming(h)' \subseteq Coming(h)
        /\ Coming(g)' \subseteq Coming(g) \ {f} /\ f \in Coming(g)
    BY <1>0, <2>1, <2>4 DEF Coming
  <2>6. ASSUME NEW h \in Grants \ {g} PROVE Counts(h)'
    BY <1>0, <2>3, <2>4, <2>5, CountsKept
  <2>7. Counts(g)'
    <3>1. /\ IsFiniteSet(Asked(g)') /\ Cardinality(Asked(g)') \in Nat
          /\ Cardinality(Asked(g)) \in Nat
          /\ Cardinality(Asked(g)') <= Cardinality(Asked(g)) + 1
      BY <1>0, <2>grant, <2>3, Gains DEF Counts
    <3>2. /\ IsFiniteSet(Coming(g)') /\ Cardinality(Coming(g)') \in Nat
          /\ Cardinality(Coming(g)) \in Nat
          /\ Cardinality(Coming(g)') <= Cardinality(Coming(g)) - 1
      BY <1>0, <2>grant, <2>5, Loses DEF Counts
    <3>3. ASSUME g \notin revived
          PROVE  Cardinality(Asked(g)') + Cardinality(Coming(g)') <= credit[g]
      <4>1. Cardinality(Asked(g)) + Cardinality(Coming(g)) <= credit[g] /\ credit[g] \in Int
        BY <1>0, <2>grant, <3>3 DEF Counts
      <4> QED BY <3>1, <3>2, <4>1
    <3> QED BY <2>4, <3>1, <3>2, <3>3 DEF Counts
  <2> QED BY <2>grant, <2>6, <2>7 DEF Counted
<1>5. ASSUME NEW r \in Reqs, GivesUp(r) PROVE Counted'
  <2>1. req'[r].scope = {} /\ \A q \in Reqs \ {r} : req'[q] = req[q]
    BY <1>5, EndsTyped DEF GivesUp
  <2> QED BY <1>0, <1>5, <2>1, FewerCount DEF GivesUp
<1>6. ASSUME NEW r \in Reqs, ReconcileReturns(r) PROVE Counted'
  <2> DEFINE gone == {req[r].cur}
             rest == req[r].scope \ gone
  <2>1. Prunes(r, req[r].seen, rest, gone)
    BY <1>6 DEF ReconcileReturns
  <2>2. req[r].seen \in [Grants -> Materials] /\ rest \in SUBSET Grants
    BY DEF TypeOK, Request
  <2> HIDE DEF gone, rest
  <2>3. PICK batch \in SUBSET rest : Pruned(r, req[r].seen, rest, gone, batch)
    BY <2>1, <2>2, PrunesTyped
  <2>4. /\ req'[r].at \notin Asking \/ req'[r].scope = {}
        /\ \A q \in Reqs \ {r} : req'[q] = req[q]
    BY <2>3 DEF Pruned, Asking
  <2> QED BY <1>0, <1>6, <2>4, FewerCount DEF ReconcileReturns
<1>7. ASSUME NEW r \in Reqs, NEW S \in SUBSET Grants, Reconcile(r, S) PROVE Counted'
  <2> DEFINE read == [g \in Grants |-> IF g \in S THEN grant[g].material ELSE Nothing]
  <2>1. read \in [Grants -> Materials]
    BY HeldTyped, <1>0 DEF TypeOK, GrantRecord, Materials
  <2>2. Prunes(r, read, S, {})
    BY <1>7 DEF Reconcile
  <2> HIDE DEF read
  <2>3. PICK batch \in SUBSET S : Pruned(r, read, S, {}, batch)
    BY <2>1, <2>2, PrunesTyped
  <2>4. /\ req'[r].at \notin Asking \/ req'[r].scope = {}
        /\ \A q \in Reqs \ {r} : req'[q] = req[q]
    BY <2>3 DEF Pruned, Asking
  <2> QED BY <1>0, <1>7, <2>4, FewerCount DEF Reconcile
<1>8. ASSUME Death PROVE Counted'
  <2>1. PICK removed \in SUBSET Grants, cut \in SUBSET Grants, creds \in [Creds -> Credential] :
            Spent(removed, creds, cut)
    BY <1>8, DeathSpends
  <2>2. (\A r \in Reqs : req'[r].scope = {}) /\ UNCHANGED <<flow, credit, revived>>
    BY <2>1, DiesTyped DEF Spent
  <2> SUFFICES ASSUME NEW g \in Grants PROVE Counts(g)'
    BY DEF Counted
  <2>3. Asked(g)' \subseteq Asked(g) /\ Coming(g)' \subseteq Coming(g)
    BY <2>2 DEF Asked, Coming, Holds
  <2> QED BY <1>0, <2>2, <2>3, CountsKept
<1>9. ASSUME NEW r \in Reqs, NEW g \in Grants, Approve(r, g) PROVE Counted'
  <2>1. /\ req'[r].scope = {g} /\ \A q \in Reqs \ {r} : req'[q] = req[q]
    BY <1>9, BeginsTyped DEF Approve
  <2>2. /\ \A h \in Grants \ {g} : Asked(h)' \subseteq Asked(h)
        /\ Asked(g)' \subseteq Asked(g) \cup {r}
    BY <2>1 DEF Asked, Holds
  <2>3. /\ credit'[g] = credit[g] + 1 /\ \A h \in Grants \ {g} : credit'[h] = credit[h]
        /\ UNCHANGED <<flow, revived>>
    BY <1>9 DEF Approve, TypeOK
  <2>4. \A h \in Grants : Coming(h)' = Coming(h)
    BY <2>3 DEF Coming
  <2>5. ASSUME NEW h \in Grants \ {g} PROVE Counts(h)'
    BY <1>0, <2>2, <2>3, <2>4, CountsKept
  <2>6. Counts(g)'
    <3>1. /\ IsFiniteSet(Asked(g)') /\ Cardinality(Asked(g)') \in Nat
          /\ Cardinality(Asked(g)) \in Nat
          /\ Cardinality(Asked(g)') <= Cardinality(Asked(g)) + 1
      BY <1>0, <2>2, Gains DEF Counts
    <3>2. IsFiniteSet(Coming(g)) /\ Cardinality(Coming(g)) \in Nat
      BY <1>0, FS_CardinalityType DEF Counts
    <3>3. ASSUME g \notin revived
          PROVE  Cardinality(Asked(g)') + Cardinality(Coming(g)) <= credit'[g]
      <4>1. Cardinality(Asked(g)) + Cardinality(Coming(g)) <= credit[g] /\ credit[g] \in Int
        BY <1>0, <3>3 DEF Counts
      <4> QED BY <2>3, <3>1, <3>2, <4>1
    <3> QED BY <2>3, <2>4, <3>1, <3>2, <3>3 DEF Counts
  <2> QED BY <2>5, <2>6 DEF Counted
<1>10. ASSUME NEW r \in Reqs, NEW g \in Grants, ApproveMints(r, g) PROVE Counted'
  <2>1. /\ \A q \in Reqs \ {r} : req'[q] = req[q]
        /\ req'[r].scope = {} \/ (req[r].at \in Asking /\ req'[r].scope = req[r].scope)
    BY <1>0, <1>10, GoesTyped, EndsTyped DEF ApproveMints, Asking, Materials
  <2> QED BY <1>0, <1>10, <2>1, FewerCount DEF ApproveMints
<1>11. ASSUME NEW r \in Reqs, NEW g \in Grants, ApproveSigned(r, g) PROVE Counted'
  <2>1. PICK c \in Creds : Puts({r}, g, "approved", c)
    BY <1>11 DEF ApproveSigned
  <2> QED BY <1>11, <2>1, ApprovalCounts DEF ApproveSigned, Asking
<1>12. ASSUME NEW r \in Reqs, NEW g \in Grants, ApproveFails(r, g) PROVE Counted'
  <2>1. req'[r].scope = {} /\ \A q \in Reqs \ {r} : req'[q] = req[q]
    BY <1>12, EndsTyped DEF ApproveFails
  <2> QED BY <1>0, <1>12, <2>1, FewerCount DEF ApproveFails
<1>13. ASSUME NEW r \in Reqs, NEW g \in Grants, ApprovePasted(r, g) PROVE Counted'
  BY <1>13, ApprovalCounts DEF ApprovePasted, Asking
<1>14. ASSUME NEW r \in Reqs, NEW g \in Grants, ApproveDiscovers(r, g) PROVE Counted'
  <2>1. /\ \A q \in Reqs \ {r} : req'[q] = req[q]
        /\ req[r].at \in Asking /\ req'[r].scope = req[r].scope
    BY <1>0, <1>14, GoesTyped DEF ApproveDiscovers, Asking, Materials
  <2> QED BY <1>0, <1>14, <2>1, FewerCount DEF ApproveDiscovers
<1>15. ASSUME NEW r \in Reqs, NEW g \in Grants, FlowStarts(r, g) PROVE Counted'
  <2>1. req'[r].scope = {} /\ \A q \in Reqs \ {r} : req'[q] = req[q]
    BY <1>15, EndsTyped DEF FlowStarts
  <2>2. \A h \in Grants : Asked(h)' \subseteq Asked(h) \ {r}
    BY <2>1 DEF Asked, Holds
  <2>3. PICK f \in Flows : flow[f] = NoGrant /\ flow' = [flow EXCEPT ![f] = g]
    BY <1>15 DEF FlowStarts
  <2>4. /\ \A h \in Grants \ {g} : Coming(h)' \subseteq Coming(h)
        /\ Coming(g)' \subseteq Coming(g) \cup {f}
    BY <2>3 DEF Coming, TypeOK
  <2>5. UNCHANGED <<credit, revived>>
    BY <1>15 DEF FlowStarts
  <2>6. ASSUME NEW h \in Grants \ {g} PROVE Counts(h)'
    BY <1>0, <2>2, <2>4, <2>5, CountsKept
  <2>7. Counts(g)'
    <3>0. r \in Asked(g)
      BY <1>15 DEF FlowStarts, Asked, Asking
    <3>1. /\ IsFiniteSet(Asked(g)') /\ Cardinality(Asked(g)') \in Nat
          /\ Cardinality(Asked(g)) \in Nat
          /\ Cardinality(Asked(g)') <= Cardinality(Asked(g)) - 1
      BY <1>0, <2>2, <3>0, Loses DEF Counts
    <3>2. /\ IsFiniteSet(Coming(g)') /\ Cardinality(Coming(g)') \in Nat
          /\ Cardinality(Coming(g)) \in Nat
          /\ Cardinality(Coming(g)') <= Cardinality(Coming(g)) + 1
      BY <1>0, <2>4, Gains DEF Counts
    <3>3. ASSUME g \notin revived
          PROVE  Cardinality(Asked(g)') + Cardinality(Coming(g)') <= credit[g]
      <4>1. Cardinality(Asked(g)) + Cardinality(Coming(g)) <= credit[g] /\ credit[g] \in Int
        BY <1>0, <3>3 DEF Counts
      <4> QED BY <3>1, <3>2, <4>1
    <3> QED BY <2>5, <3>1, <3>2, <3>3 DEF Counts
  <2> QED BY <2>6, <2>7 DEF Counted
<1>16. ASSUME NEW r \in Reqs, NEW g \in Grants, Exchanges(r, g) PROVE Counted'
  <2>0. g \in Remote /\ req[r].at = "exchanging" /\ Holds(r, g)
    BY <1>16 DEF Exchanges, Holds, Kinds, KindOK, AboutRemote
  <2>1. /\ \A q \in Reqs \ {r} : req'[q] = req[q]
        /\ req[r].at \in Asking /\ req'[r].scope = req[r].scope
    BY <1>0, <1>16, <2>0, GoesTyped DEF Exchanges, Asking, Materials
  <2> QED BY <1>0, <1>16, <2>1, FewerCount DEF Exchanges
<1>17. ASSUME NEW r \in Reqs, NEW g \in Grants, CallbackReplaces(r, g) PROVE Counted'
  <2>0. g \in Remote /\ req[r].at = "issued" /\ req[r].new \in Materials
        /\ Goes(r, "replacing", req[r].new) /\ Holds(r, g)
    BY <1>17, HeldTyped DEF CallbackReplaces, Holds, Kinds, KindOK, AboutRemote
  <2>1. /\ \A q \in Reqs \ {r} : req'[q] = req[q]
        /\ req[r].at \in Asking /\ req'[r].scope = req[r].scope
    BY <2>0, GoesTyped DEF Asking
  <2> QED BY <1>0, <1>17, <2>1, FewerCount DEF CallbackReplaces
<1>18. ASSUME NEW r \in Reqs, NEW g \in Grants, CallbackReturns(r, g) PROVE Counted'
  BY <1>18, ApprovalCounts DEF CallbackReturns, Asking
<1>19. ASSUME NEW r \in Reqs, NEW g \in Grants, Material(r, g) PROVE Counted'
  <2>1. /\ req'[r].at = "refreshing" /\ \A q \in Reqs \ {r} : req'[q] = req[q]
    BY <1>19, BeginsTyped DEF Material
  <2> QED BY <1>0, <1>19, <2>1, FewerCount DEF Material, Asking
<1>20. ASSUME NEW r \in Reqs, NEW g \in Grants, Refreshes(r, g) PROVE Counted'
  <2>0. g \in Remote /\ req[r].at = "refreshing" /\ Holds(r, g) /\ req[r].seen[g] \in Materials
    BY <1>20, HeldTyped DEF Refreshes, Holds, Kinds, KindOK, AboutRemote
  <2>1. req'[r].at = "answered" /\ \A q \in Reqs \ {r} : req'[q] = req[q]
    BY <1>0, <1>20, <2>0, GoesTyped DEF Refreshes, Materials
  <2> QED BY <1>0, <1>20, <2>1, FewerCount DEF Refreshes, Asking
<1>21. ASSUME NEW r \in Reqs, NEW g \in Grants, Refreshed(r, g) PROVE Counted'
  <2>1. Puts({r}, g, "approved", req[r].new) /\ Ends(r) /\ flow' = flow
        /\ revived' = IF grant[g].status = "approved" THEN revived ELSE revived \cup {g}
    BY <1>21 DEF Refreshed
  <2>2. req'[r].scope = {} /\ \A q \in Reqs \ {r} : req'[q] = req[q]
    BY <2>1, EndsTyped
  <2>3. /\ \A h \in Grants : credit'[h] \in Int
        /\ \A h \in Grants \ {g} : credit'[h] = credit[h]
        /\ grant[g].status = "approved" => credit'[g] = credit[g]
    BY <2>1, PutsCredit
  <2>4. \A h \in Grants : h \in revived' \/ credit'[h] >= credit[h]
    BY <1>0, <2>1, <2>3
  <2>5. revived \subseteq revived'
    BY <2>1
  <2> QED BY <2>1, <2>2, <2>3, <2>4, <2>5, FewerCount
<1>22. ASSUME NEW r \in Reqs, NEW g \in Grants, RefreshFails(r, g) PROVE Counted'
  <2>1. req'[r].scope = {} /\ \A q \in Reqs \ {r} : req'[q] = req[q]
    BY <1>22, EndsTyped DEF RefreshFails
  <2>2. UNCHANGED <<flow, credit, revived>>
    BY <1>22 DEF RefreshFails, Puts
  <2> QED BY <1>0, <2>1, <2>2, FewerCount
<1>23. ASSUME NEW r \in Reqs, NEW g \in Grants, RevokeAsks(r, g) PROVE Counted'
  <2>1. /\ req'[r].at = "revoking" /\ \A q \in Reqs \ {r} : req'[q] = req[q]
    BY <1>23, BeginsTyped DEF RevokeAsks, Awaited
  <2> QED BY <1>0, <1>23, <2>1, FewerCount DEF RevokeAsks, Asking
<1>24. ASSUME NEW r \in Reqs, NEW g \in Grants, RevokeReturns(r, g) PROVE Counted'
  <2>1. req'[r].scope = {} /\ \A q \in Reqs \ {r} : req'[q] = req[q]
    BY <1>24, EndsTyped DEF RevokeReturns
  <2>2. UNCHANGED <<flow, credit, revived>>
    BY <1>24 DEF RevokeReturns, Puts
  <2> QED BY <1>0, <2>1, <2>2, FewerCount
<1>25. ASSUME NEW c \in Creds, IssuerRevokes(c) PROVE Counted'
  BY <1>25, <1>s DEF IssuerRevokes
<1>26. CASE UNCHANGED vars
  BY <1>26, <1>s DEF vars
<1> QED
  BY <1>1, <1>2, <1>3, <1>4, <1>5, <1>6, <1>7, <1>8, <1>9, <1>10, <1>11, <1>12, <1>13,
     <1>14, <1>15, <1>16, <1>17, <1>18, <1>19, <1>20, <1>21, <1>22, <1>23, <1>24, <1>25,
     <1>26 DEF Next, Death

-----------------------------------------------------------------------------
LEMMA InitWorks == Init => Owned /\ Unseen /\ AllWork /\ Counted
<1> SUFFICES ASSUME Init PROVE Owned /\ Unseen /\ AllWork /\ Counted
  OBVIOUS
<1>1. \A r \in Reqs : req[r].scope = {}
  BY IdleTyped DEF Init
<1>2. \A g \in Grants : grant[g].material = Nothing /\ grant[g].status = "none"
  BY DEF Init, NoRecord
<1>3. Owned /\ Unseen
  BY <1>1, <1>2 DEF Init, Owned, Unseen, Fresh, Holds
<1>4. AllWork
  BY <1>1, <1>2 DEF AllWork, Works, Sound, Steady
<1>5. ASSUME NEW g \in Grants PROVE Counts(g)
  <2>1. Asked(g) = {}
    BY <1>1 DEF Asked, Holds
  <2>2. Coming(g) = {}
    BY DEF Coming, Init
  <2>3. credit[g] = 0
    BY DEF Init
  <2> QED BY <2>1, <2>2, <2>3, FS_EmptySet DEF Counts
<1> QED BY <1>3, <1>4, <1>5 DEF Counted

LEMMA InductiveWorks == Spec => [](Owned /\ Unseen /\ AllWork /\ Counted)
<1> DEFINE WInv == Owned /\ Unseen /\ AllWork /\ Counted
<1>1. Init => WInv
  BY InitWorks
<1>2. IInv /\ WInv /\ [Next]_vars => WInv'
  BY StepKnows, StepWorks, StepCounted
<1> HIDE DEF WInv
<1>3. Spec => []WInv
  BY <1>1, <1>2, Inductive, PTL DEF Spec
<1> QED BY <1>3 DEF WInv

\* approveGrant and handleOAuthGrantCallback (admin-agent-grants.ts) approve a grant
\* once for each approval asked for: no consent is used twice, and no declaration
\* of the agent approves anything; only a refresh that outlives a revocation does.
THEOREM ApprovalsAreAskedFor == Spec => []ApprovedOnRequest
<1>1. TypeOK /\ Counted => ApprovedOnRequest
  <2> SUFFICES ASSUME TypeOK, Counted, NEW g \in Grants, g \notin revived
               PROVE  credit[g] >= 0
    BY DEF ApprovedOnRequest
  <2>1. /\ IsFiniteSet(Asked(g)) /\ IsFiniteSet(Coming(g))
        /\ Cardinality(Asked(g)) + Cardinality(Coming(g)) <= credit[g]
    BY DEF Counted, Counts
  <2>2. Cardinality(Asked(g)) \in Nat /\ Cardinality(Coming(g)) \in Nat /\ credit[g] \in Int
    BY <2>1, FS_CardinalityType DEF TypeOK
  <2> QED BY <2>1, <2>2
<1> QED BY <1>1, TypeCorrect, InductiveWorks, PTL

\* tearDownGrantMaterial, resolveMcpMaterial and the approvals (admin-agent-grants.ts):
\* the credential of an approved grant works, except while a handler is replacing or
\* revoking it, after one (or the hub) broke off half-way, or after an overlap or a
\* revival; whenever the issuer acts on what it is asked.
THEOREM ApprovedGrantsWork == Spec => []ApprovedWorks
<1>1. AllWork => ApprovedWorks
  BY DEF AllWork, Works, Sound, ApprovedWorks
<1> QED BY <1>1, InductiveWorks, PTL
=============================================================================
