---------------------------- MODULE AgentGrants ----------------------------
(***************************************************************************)
(* The approval-gated grants of agents (src/src/admin-agent-grants.ts over *)
(* grants-store.ts and oauth-flows-store.ts).  A handler reads a record,   *)
(* is suspended while it reads a body, signs, or asks a remote issuer, and *)
(* then writes the whole record back from what it had read.                *)
(*                                                                         *)
(* One agent, several grants.  A grant is minted by the hub (kinds vault   *)
(* and surface) or a remote connection (kind mcp); kind service is the     *)
(* pasted path of the latter.  A credential is a row of the hub's tokens   *)
(* table, or a refresh token of the issuer.  An await of a promise that is *)
(* already settled suspends nothing here: only the microtasks of the same  *)
(* event run in it.                                                        *)
(***************************************************************************)
EXTENDS Integers, FiniteSets

CONSTANTS
    Minted,     \* grants of kind vault or surface
    Remote,     \* grants of kind mcp
    Reqs,       \* handlers that may be suspended at a time
    Flows,      \* states of OAuth consents that may be pending at a time
    Creds,      \* credentials the hub or the issuer ever creates
    MaxClicks,  \* bound: approvals the operator asks for
    Nothing, Pasted, NoGrant

Grants == Minted \cup Remote

ASSUME GrantsAssumption ==
    /\ Minted \cap Remote = {} /\ NoGrant \notin Grants
    /\ {Nothing, Pasted} \cap Creds = {} /\ Nothing # Pasted
    /\ MaxClicks \in Nat

VARIABLES
    grant,       \* agent-grants.json; status "none": no record
    flow,        \* agent-oauth-flows.json: the grant a pending consent is for
    cred,        \* every credential: what became of it, and for which grant
    wire,        \* credentials the issuer has been asked to end, heard or not
    req,
    credit,      \* history: approvals asked for and not used up; -1: overdrawn
    revived,     \* history: grants a refresh wrote back although no longer approved
    overlapped,  \* history: grants given a credential while another handler held them
    broken,      \* history: grants a handler or the hub broke off on half-way
    clicks       \* approvals asked for so far

history == <<credit, revived, overlapped, broken, clicks>>
vars == <<grant, flow, cred, wire, req, history>>

Materials == Creds \cup {Nothing, Pasted}

GrantRecord ==
    [status: {"none", "pending", "approved", "revoked", "needs_consent"},
     material: Materials]

\* "lost": registered, but the hub died before anybody was given it.
Credential == [state: {"unborn", "live", "dead", "lost"}, grant: Grants \cup {NoGrant}]

\* scope: the grants the handler has read and may still write; seen: their
\* material then; cur: the grant a reconcile awaits the teardown of; new: what
\* the issuer has answered.
Request ==
    [at: {"idle", "body", "signing", "discovering", "exchanging", "issued",
          "replacing", "refreshing", "answered", "revoking", "pruning"},
     scope: SUBSET Grants, seen: [Grants -> Materials],
     cur: Grants \cup {NoGrant}, new: Materials]

NoRecord == [status |-> "none", material |-> Nothing]

Blank == [g \in Grants |-> Nothing]

Idle == [at |-> "idle", scope |-> {}, seen |-> Blank, cur |-> NoGrant, new |-> Nothing]

Holds(r, g) == g \in req[r].scope

Init ==
    /\ grant = [g \in Grants |-> NoRecord]
    /\ flow = [f \in Flows |-> NoGrant]
    /\ cred = [c \in Creds |-> [state |-> "unborn", grant |-> NoGrant]]
    /\ wire = {} /\ req = [r \in Reqs |-> Idle]
    /\ credit = [g \in Grants |-> 0] /\ clicks = 0
    /\ revived = {} /\ overlapped = {} /\ broken = {}

-----------------------------------------------------------------------------
Killed(C) == [c \in Creds |-> IF c \in C /\ cred[c].state = "live"
                              THEN [cred[c] EXCEPT !.state = "dead"] ELSE cred[c]]

\* Requests to end C are on their way; one to end what is dead changes nothing.
Asks(C) == wire' = wire \cup {c \in Creds : c \in C /\ cred[c].state = "live"}

\* getGrant, then the first await of the handler.
Begins(r, at, g) ==
    /\ req[r].at = "idle" /\ grant[g].status # "none"
    /\ req' = [req EXCEPT ![r] = [Idle EXCEPT !.at = at, !.scope = {g},
                                     !.seen = [Blank EXCEPT ![g] = grant[g].material]]]

Goes(r, at, new) == req' = [req EXCEPT ![r] = [@ EXCEPT !.at = at, !.new = new]]

Ends(r) == req' = [req EXCEPT ![r] = Idle]

\* putGrant: the record is replaced, or appended when it is gone.  One that is
\* broken stays so until it holds another credential.
Puts(R, g, status, material) ==
    /\ grant' = [grant EXCEPT ![g] = [status |-> status, material |-> material]]
    /\ credit' = IF status = "approved" /\ grant[g].status # "approved"
                 THEN [credit EXCEPT ![g] = IF @ < 0 THEN @ ELSE @ - 1] ELSE credit
    /\ overlapped' = IF material # Nothing /\ \E q \in Reqs \ R : Holds(q, g)
                     THEN overlapped \cup {g} ELSE overlapped
    /\ broken' = IF material \in Creds /\ material = grant[g].material
                 THEN broken ELSE broken \ {g}

\* PUT /admin/grants: an existing record keeps its status and material.
Upsert(g) ==
    /\ grant[g].status = "none"
    /\ Puts({}, g, "pending", Nothing)
    /\ UNCHANGED <<flow, cred, wire, req, revived, clicks>>

-----------------------------------------------------------------------------
\* POST approve, up to the await of the body.
Approve(r, g) ==
    /\ clicks < MaxClicks
    /\ Begins(r, "body", g)
    /\ credit' = [credit EXCEPT ![g] = @ + 1] /\ clicks' = clicks + 1
    /\ UNCHANGED <<grant, flow, cred, wire, revived, overlapped, broken>>

\* Mutant: the new token is minted beside the prior one.
ApproveMintsBeside(r, g) ==
    /\ req[r].at = "body" /\ Holds(r, g) /\ g \in Minted
    /\ \/ Goes(r, "signing", Nothing) /\ UNCHANGED broken
       \/ Ends(r) /\ broken' = broken \cup {g}
    /\ UNCHANGED <<grant, flow, cred, wire, credit, revived, overlapped, clicks>>

\* The prior token is revoked first; the vault may turn out not to exist.
ApproveMints(r, g) ==
    /\ req[r].at = "body" /\ Holds(r, g) /\ g \in Minted
    /\ cred' = Killed({req[r].seen[g]})
    /\ \/ Goes(r, "signing", Nothing) /\ UNCHANGED broken
       \/ Ends(r) /\ broken' = broken \cup {g}
    /\ UNCHANGED <<grant, flow, wire, credit, revived, overlapped, clicks>>

ApproveSigned(r, g) ==
    /\ req[r].at = "signing" /\ Holds(r, g)
    /\ \E c \in Creds :
        /\ cred[c].state = "unborn"
        /\ cred' = [cred EXCEPT ![c] = [state |-> "live", grant |-> g]]
        /\ Puts({r}, g, "approved", c)
    /\ Ends(r)
    /\ UNCHANGED <<flow, wire, revived, clicks>>

ApproveFails(r, g) ==
    /\ req[r].at = "signing" /\ Holds(r, g)
    /\ Ends(r) /\ broken' = broken \cup {g}
    /\ UNCHANGED <<grant, flow, cred, wire, credit, revived, overlapped, clicks>>

ApprovePasted(r, g) ==
    /\ req[r].at = "body" /\ Holds(r, g) /\ g \in Remote
    /\ Puts({r}, g, "approved", Pasted) /\ Ends(r)
    /\ UNCHANGED <<flow, cred, wire, revived, clicks>>

\* No token in the body: discovery, registration, then a flow to come back to.
ApproveDiscovers(r, g) ==
    /\ req[r].at = "body" /\ Holds(r, g) /\ g \in Remote
    /\ Goes(r, "discovering", Nothing)
    /\ UNCHANGED <<grant, flow, cred, wire, history>>

FlowStarts(r, g) ==
    /\ req[r].at = "discovering" /\ Holds(r, g)
    /\ \E f \in Flows : flow[f] = NoGrant /\ flow' = [flow EXCEPT ![f] = g]
    /\ Ends(r)
    /\ UNCHANGED <<grant, cred, wire, history>>

\* A bad body, or a discovery, registration or exchange that fails.
GivesUp(r) ==
    /\ req[r].at \in {"body", "discovering", "exchanging", "issued"}
    /\ Ends(r)
    /\ UNCHANGED <<grant, flow, cred, wire, history>>

-----------------------------------------------------------------------------
\* Mutant: the state is left in the store.
CallbackReusable(r, f) ==
    /\ flow[f] # NoGrant
    /\ Begins(r, "exchanging", flow[f])
    /\ UNCHANGED <<grant, flow, cred, wire, history>>

\* The browser comes back with a code: the state is used up before the exchange.
Callback(r, f) ==
    /\ flow[f] # NoGrant
    /\ Begins(r, "exchanging", flow[f])
    /\ flow' = [flow EXCEPT ![f] = NoGrant]
    /\ UNCHANGED <<grant, cred, wire, history>>

\* It comes back with an error, for a record that is gone, or not in time.
FlowEnds(f) ==
    /\ flow[f] # NoGrant
    /\ flow' = [flow EXCEPT ![f] = NoGrant]
    /\ UNCHANGED <<grant, cred, wire, req, history>>

\* The issuer redeems the code, with a refresh token or without.
Exchanges(r, g) ==
    /\ req[r].at = "exchanging" /\ Holds(r, g)
    /\ \/ \E c \in Creds :
            /\ cred[c].state = "unborn"
            /\ cred' = [cred EXCEPT ![c] = [state |-> "live", grant |-> g]]
            /\ Goes(r, "issued", c)
       \/ Goes(r, "issued", Pasted) /\ UNCHANGED cred
    /\ UNCHANGED <<grant, flow, wire, history>>

\* The issuer is asked to revoke the prior refresh token first.
CallbackReplaces(r, g) ==
    /\ req[r].at = "issued" /\ Holds(r, g) /\ req[r].seen[g] \in Creds
    /\ Asks({req[r].seen[g]})
    /\ Goes(r, "replacing", req[r].new)
    /\ UNCHANGED <<grant, flow, cred, history>>

\* revokeRemote resolves whatever came of it, after oauth-client's timeout at the
\* latest: the new credential is stored, though the old one may be revoked later.
CallbackReturns(r, g) ==
    /\ Holds(r, g)
    /\ \/ req[r].at = "issued" /\ req[r].seen[g] \notin Creds
       \/ req[r].at = "replacing"
    /\ Puts({r}, g, "approved", req[r].new) /\ Ends(r)
    /\ UNCHANGED <<flow, cred, wire, revived, clicks>>

-----------------------------------------------------------------------------
\* GET material of an approved grant whose access token is about to expire.
Material(r, g) ==
    /\ g \in Remote /\ grant[g].status = "approved" /\ grant[g].material \in Creds
    /\ Begins(r, "refreshing", g)
    /\ UNCHANGED <<grant, flow, cred, wire, history>>

\* The issuer accepts a live refresh token, and may rotate it.
Refreshes(r, g) ==
    /\ req[r].at = "refreshing" /\ Holds(r, g)
    /\ LET old == req[r].seen[g] IN
        /\ cred[old].state = "live"
        /\ \/ Goes(r, "answered", old) /\ UNCHANGED cred
           \/ \E c \in Creds :
                /\ cred[c].state = "unborn"
                /\ cred' = [Killed({old}) EXCEPT ![c] = [state |-> "live", grant |-> g]]
                /\ Goes(r, "answered", c)
    /\ UNCHANGED <<grant, flow, wire, history>>

\* Mutant: the refresh token presented is kept, the rotated one dropped.
RefreshedUnrotated(r, g) ==
    /\ req[r].at = "answered" /\ Holds(r, g)
    /\ Puts({r}, g, "approved", req[r].seen[g]) /\ Ends(r)
    /\ revived' = IF grant[g].status = "approved" THEN revived ELSE revived \cup {g}
    /\ UNCHANGED <<flow, cred, wire, clicks>>

Refreshed(r, g) ==
    /\ req[r].at = "answered" /\ Holds(r, g)
    /\ Puts({r}, g, "approved", req[r].new) /\ Ends(r)
    /\ revived' = IF grant[g].status = "approved" THEN revived ELSE revived \cup {g}
    /\ UNCHANGED <<flow, cred, wire, clicks>>

\* Refused, timed out or the answer lost: every failure counts as a dead refresh
\* token, which a request that is late may still use up.
RefreshFails(r, g) ==
    /\ req[r].at \in {"refreshing", "answered"} /\ Holds(r, g)
    /\ IF req[r].at = "refreshing" THEN Asks({req[r].seen[g]}) ELSE UNCHANGED wire
    /\ Puts({r}, g, "needs_consent", Nothing) /\ Ends(r)
    /\ UNCHANGED <<flow, cred, revived, clicks>>

-----------------------------------------------------------------------------
\* tearDownGrantMaterial asks the issuer; anything else it does at once.
Awaited(g, material) == g \in Remote /\ material \in Creds

\* Mutant: the record is cleared, its token stays registered.
RevokeLocally(g) ==
    /\ grant[g].status # "none" /\ ~Awaited(g, grant[g].material)
    /\ Puts({}, g, "revoked", Nothing)
    /\ UNCHANGED <<flow, cred, wire, req, revived, clicks>>

Revoke(g) ==
    /\ grant[g].status # "none" /\ ~Awaited(g, grant[g].material)
    /\ cred' = Killed({grant[g].material})
    /\ Puts({}, g, "revoked", Nothing)
    /\ UNCHANGED <<flow, wire, req, revived, clicks>>

\* The issuer is asked; the record reads approved and serves its material.
RevokeAsks(r, g) ==
    /\ Awaited(g, grant[g].material)
    /\ Asks({grant[g].material})
    /\ Begins(r, "revoking", g)
    /\ UNCHANGED <<grant, flow, cred, history>>

RevokeReturns(r, g) ==
    /\ req[r].at = "revoking" /\ Holds(r, g)
    /\ Puts({r}, g, "revoked", Nothing) /\ Ends(r)
    /\ UNCHANGED <<flow, cred, wire, revived, clicks>>

\* The issuer acts on a request when it gets it: while the handler waits, after
\* the handler stopped waiting, after the hub died, or never.
IssuerRevokes(c) ==
    /\ c \in wire
    /\ cred' = Killed({c}) /\ wire' = wire \ {c}
    /\ UNCHANGED <<grant, flow, req, history>>

\* The loop of reconcileGrants up to its next await, or to its end: the records
\* in gone and those of batch are torn down, as they were read, and removed.
Prunes(r, seen, rest, gone) ==
    \E batch \in SUBSET {g \in rest : ~Awaited(g, seen[g])} :
        LET left == rest \ batch
            removed == gone \cup batch IN
        /\ cred' = Killed({seen[g] : g \in batch})
        /\ grant' = [g \in Grants |-> IF g \in removed THEN NoRecord ELSE grant[g]]
        /\ broken' = broken \ removed
        /\ \/ left = {} /\ Ends(r) /\ UNCHANGED wire
           \/ \E g \in left :
                /\ Awaited(g, seen[g])
                /\ Asks({seen[g]})
                /\ req' = [req EXCEPT ![r] = [at |-> "pruning", scope |-> left,
                                              seen |-> seen, cur |-> g, new |-> Nothing]]

\* S: what the agent no longer declares.
Reconcile(r, S) ==
    /\ req[r].at = "idle" /\ S # {} /\ \A g \in S : grant[g].status # "none"
    /\ Prunes(r, [g \in Grants |-> IF g \in S THEN grant[g].material ELSE Nothing], S, {})
    /\ UNCHANGED <<flow, credit, revived, overlapped, clicks>>

ReconcileReturns(r) ==
    LET g == req[r].cur IN
    /\ req[r].at = "pruning"
    /\ Prunes(r, req[r].seen, req[r].scope \ {g}, {g})
    /\ UNCHANGED <<flow, credit, revived, overlapped, clicks>>

-----------------------------------------------------------------------------
\* A handler of g has ended its credential, or has asked the issuer to, and has
\* not written the record since.
Ending(r, g) ==
    /\ Holds(r, g)
    /\ \/ req[r].at \in {"signing", "replacing", "revoking"}
       \/ req[r].at = "pruning" /\ req[r].cur = g
       \/ req[r].at = "answered" /\ req[r].new # req[r].seen[g]

\* The answer to a refresh may rotate the credential before anyone hears of it.
Refreshing(r, g) == Holds(r, g) /\ req[r].at = "refreshing"

\* The hub dies: handlers are gone; files, rows and requests under way stay.
\* removed, creds, cut: the records that the handler which was running has just
\* removed, what it made of the credentials, and the record it had still to write.
Dies(removed, creds, cut) ==
    /\ grant' = [g \in Grants |-> IF g \in removed THEN NoRecord ELSE grant[g]]
    /\ cred' = creds
    /\ Asks({c \in Creds : \E r \in Reqs, g \in Grants :
                                Refreshing(r, g) /\ req[r].seen[g] = c})
    /\ broken' = cut \cup ((broken \cup
            {g \in Grants : \E r \in Reqs : Ending(r, g) \/ Refreshing(r, g)}) \ removed)
    /\ req' = [r \in Reqs |-> Idle]
    /\ UNCHANGED <<flow, credit, revived, overlapped, clicks>>

\* While every handler is suspended at an await.
HubDies == (\E r \in Reqs : req[r].at # "idle") /\ Dies({}, cred, {})

\* Between revokeTokenByJti and the putGrant or removeGrant that follows it.
DiesTearing(g) ==
    /\ grant[g].material \in Creds /\ ~Awaited(g, grant[g].material)
    /\ Dies({}, Killed({grant[g].material}), {g})

\* The same in a reconcile that has come back from an await.
DiesPruning(r) ==
    /\ req[r].at = "pruning"
    /\ LET seen == req[r].seen
           rest == {g \in req[r].scope \ {req[r].cur} : ~Awaited(g, seen[g])} IN
        \E batch \in SUBSET rest : \E cut \in {{}} \cup {{g} : g \in rest \ batch} :
            Dies({req[r].cur} \cup batch, Killed({seen[g] : g \in batch \cup cut}), cut)

\* Between recordTokenMint and putGrant: nobody has the token that is registered.
DiesMinting(r, g) ==
    /\ req[r].at = "signing" /\ Holds(r, g)
    /\ \E c \in Creds :
        /\ cred[c].state = "unborn"
        /\ Dies({}, [cred EXCEPT ![c] = [state |-> "lost", grant |-> g]], {})

Next ==
    \/ \E g \in Grants : Upsert(g) \/ Revoke(g)
    \/ \E f \in Flows : FlowEnds(f) \/ \E r \in Reqs : Callback(r, f)
    \/ \E r \in Reqs : GivesUp(r) \/ ReconcileReturns(r)
                       \/ \E S \in SUBSET Grants : Reconcile(r, S)
    \/ \E r \in Reqs, g \in Grants :
        \/ Approve(r, g) \/ ApproveMints(r, g) \/ ApproveSigned(r, g)
        \/ ApproveFails(r, g) \/ ApprovePasted(r, g) \/ ApproveDiscovers(r, g)
        \/ FlowStarts(r, g) \/ Exchanges(r, g) \/ CallbackReplaces(r, g)
        \/ CallbackReturns(r, g) \/ Material(r, g) \/ Refreshes(r, g)
        \/ Refreshed(r, g) \/ RefreshFails(r, g)
        \/ RevokeAsks(r, g) \/ RevokeReturns(r, g)
        \/ DiesMinting(r, g)
    \/ HubDies \/ \E g \in Grants : DiesTearing(g)
    \/ \E r \in Reqs : DiesPruning(r)
    \/ \E c \in Creds : IssuerRevokes(c)

Spec == Init /\ [][Next]_vars

-----------------------------------------------------------------------------
TypeOK ==
    /\ grant \in [Grants -> GrantRecord]
    /\ flow \in [Flows -> Grants \cup {NoGrant}]
    /\ cred \in [Creds -> Credential] /\ wire \subseteq Creds
    /\ req \in [Reqs -> Request]
    /\ credit \in [Grants -> -1 .. clicks]
    /\ {revived, overlapped, broken} \subseteq SUBSET Grants
    /\ clicks \in Nat

\* A token the hub has minted for a grant and not revoked is the one in the
\* grant's record, where revoking will find it, however approvals, revocations
\* and reconciliations follow or overlap each other; unless a token was stored
\* while another handler held what it had read of the same grant before.
MintedIsRecorded ==
    \A c \in Creds :
        cred[c].state = "live" /\ cred[c].grant \in Minted \ overlapped
            => grant[cred[c].grant].material = c

\* A grant becomes approved once for each time the operator asks for it: neither
\* the agent's declarations nor a consent that is used again bring it back, and
\* a refresh does only when it outlives a revocation, and that is known.
ApprovedOnRequest == \A g \in Grants : credit[g] >= 0 \/ g \in revived

\* The credential of an approved grant works, except while a handler is replacing
\* or revoking it - the record reads approved until the handler writes, and GET
\* material serves what the issuer may have ended - or after one was broken off
\* half-way, or after an overlap or a revival.
ApprovedWorks ==
    \A g \in Grants \ (overlapped \cup revived \cup broken) :
        grant[g].status = "approved" /\ grant[g].material \in Creds
                /\ (\A r \in Reqs : ~Ending(r, g))
            => cred[grant[g].material].state = "live"
=============================================================================
