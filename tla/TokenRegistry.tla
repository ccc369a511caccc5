---------------------------- MODULE TokenRegistry ----------------------------
(***************************************************************************)
(* OAuth authorization codes and refresh tokens: the `tokens` and          *)
(* `auth_codes` tables of hub.db, POST /oauth/token and /oauth/revoke      *)
(* (src/src/oauth-handlers.ts, jwt-sign.ts, auth-codes.ts), and the        *)
(* operations elsewhere that revoke or rewrite rows: password reset, user  *)
(* deletion (users.ts), vault deletion and rename (admin-vaults.ts).       *)
(*                                                                         *)
(* SQLite calls are synchronous, so everything between two awaits is       *)
(* atomic.  The one await that matters in /oauth/token is the signing of   *)
(* the access JWT: the handler reads the code or the row before it and     *)
(* writes after it, and anything may happen in between.                    *)
(*                                                                         *)
(* Refresh and access token share a jti, so a row stands for both.  Scopes *)
(* are abstracted to the vault they name; clients and PKCE are left out.   *)
(***************************************************************************)
EXTENDS Naturals, FiniteSets

CONSTANTS
    Users, Vaults,
    Codes,      \* bound: authorization codes ever issued
    Jtis,       \* bound: refresh rows ever inserted
    Requests,   \* bound: /oauth/token requests in flight together
    NoUser, NoJti, NoCode, NoVault

ASSUME RegistryAssumption ==
    /\ Codes \subseteq Nat /\ Jtis \subseteq Nat /\ IsFiniteSet(Jtis)
    /\ NoUser \notin Users /\ NoVault \notin Vaults
    /\ NoJti \notin Jtis /\ NoCode \notin Codes

VARIABLES
    users,      \* the users table
    vaults,     \* vault instances on disk and in services.json
    reserved,   \* hub_settings vault_rename_reserved:<name>, unexpired
    code,       \* auth_codes
    token,      \* tokens, the rows with a refresh_token_hash
    request,    \* /oauth/token handlers suspended in signAccessToken
    vaultOp,    \* a vault deletion or rename suspended at an await
    overlapped, \* history: families with two rotations in flight at once
    resetCodes  \* history: codes of a user whose password was reset since

vars == <<users, vaults, reserved, code, token, request, vaultOp,
          overlapped, resetCodes>>

\* "spent" is used, expired or deleted: redeemAuthCode refuses each.
AuthCode == [ status: {"none", "issued", "spent"},
              user: Users \cup {NoUser}, vault: Vaults \cup {NoVault} ]

\* live: neither revoked nor expired; lapsed: expired, not revoked;
\* recent: revoked at most REFRESH_GRACE_MS ago; old: revoked before that.
RefreshTokenRow ==
    [ status: {"none", "live", "lapsed", "recent", "old"},
      family: Jtis \cup {NoJti},      \* family_id, named by the root's jti
      user: Users \cup {NoUser},
      vault: Vaults \cup {NoVault},
      next: Jtis \cup {NoJti},        \* rotated_to
      code: Codes \cup {NoCode} ]     \* history: the code it descends from

\* What the handler carries across the await, by value.
TokenRequest ==
    [ op: {"idle", "grant", "rotate"},
      row: Jtis \cup {NoJti}, code: Codes \cup {NoCode},
      user: Users \cup {NoUser}, vault: Vaults \cup {NoVault} ]

VaultOp == [ op: {"idle", "delete", "rename"},
             vault: Vaults \cup {NoVault}, to: Vaults \cup {NoVault} ]

TypeOK ==
    /\ users \subseteq Users /\ vaults \subseteq Vaults /\ reserved \subseteq Vaults
    /\ code \in [Codes -> AuthCode]
    /\ token \in [Jtis -> RefreshTokenRow]
    /\ request \in [Requests -> TokenRequest]
    /\ vaultOp \in VaultOp
    /\ overlapped \subseteq Jtis /\ resetCodes \subseteq Codes
    /\ \A j \in Jtis : token[j].status # "none" => token[j].family \in Jtis
    /\ \A r \in Requests : request[r].op = "rotate" => request[r].row \in Jtis

-----------------------------------------------------------------------------
NoRow == [ status |-> "none", family |-> NoJti, user |-> NoUser, vault |-> NoVault,
           next |-> NoJti, code |-> NoCode ]

Idle == [ op |-> "idle", row |-> NoJti, code |-> NoCode, user |-> NoUser, vault |-> NoVault ]

NoOp == [op |-> "idle", vault |-> NoVault, to |-> NoVault]

Least(S) == {x \in S : \A y \in S : x <= y}

FreeCodes == Least({c \in Codes : code[c].status = "none"})

FreeJtis == Least({j \in Jtis : token[j].status = "none"})

Unrevoked(j) == token[j].status \in {"live", "lapsed"}

Family(f) == {j \in Jtis : token[j].status # "none" /\ token[j].family = f}

\* liveFamilyRefreshRows
Live(f) == {j \in Family(f) : token[j].status = "live"}

Rotating(f) == {r \in Requests : request[r].op = "rotate" /\ token[request[r].row].family = f}

\* Every request in flight may still insert one row.
Room == Cardinality({r \in Requests : request[r].op # "idle"})
          < Cardinality({j \in Jtis : token[j].status = "none"})

\* The rows after every unrevoked row of S got its revoked_at.
Revoked(S) ==
    [j \in Jtis |-> IF j \in S /\ Unrevoked(j)
                    THEN [token[j] EXCEPT !.status = "recent"] ELSE token[j]]

-----------------------------------------------------------------------------
Init ==
    /\ users = Users
    /\ vaults \in SUBSET Vaults
    /\ reserved = {}
    /\ code = [c \in Codes |-> [status |-> "none", user |-> NoUser, vault |-> NoVault]]
    /\ token = [j \in Jtis |-> NoRow]
    /\ request = [r \in Requests |-> Idle]
    /\ vaultOp = NoOp
    /\ overlapped = {} /\ resetCodes = {}

\* issueAuthCodeRedirect.  A name the hub admin consents to is not looked up
\* in services.json, nor checked against the reservations.
IssueCode(u, v) ==
    /\ u \in users
    /\ \E c \in FreeCodes :
        code' = [code EXCEPT ![c] = [status |-> "issued", user |-> u, vault |-> v]]
    /\ UNCHANGED <<users, vaults, reserved, token, request, vaultOp,
                   overlapped, resetCodes>>

\* Mutant: used_at is stamped with the tokens, not with the check.
RedeemUnstamped(r, c) ==
    /\ request[r].op = "idle" /\ Room
    /\ code[c].status = "issued"
    /\ request' = [request EXCEPT ![r] = [op |-> "grant", row |-> NoJti, code |-> c,
                                  user |-> code[c].user, vault |-> code[c].vault]]
    /\ UNCHANGED <<users, vaults, reserved, code, token, vaultOp,
                   overlapped, resetCodes>>

\* handleTokenAuthorizationCode up to the signing await: redeemAuthCode checks
\* and stamps used_at in one go; a bad scope or resource ends the request.
Redeem(r, c) ==
    /\ request[r].op = "idle" /\ Room
    /\ code[c].status = "issued"
    /\ code' = [code EXCEPT ![c].status = "spent"]
    /\ \/ request' = [request EXCEPT ![r] = [op |-> "grant", row |-> NoJti, code |-> c,
                                  user |-> code[c].user, vault |-> code[c].vault]]
       \/ request' = request
    /\ UNCHANGED <<users, vaults, reserved, token, vaultOp,
                   overlapped, resetCodes>>

\* rotateAndRespond up to the signing await, for the row k.
RotateFrom(r, k) ==
    /\ Room
    /\ request' = [request EXCEPT ![r] = [op |-> "rotate", row |-> k, code |-> NoCode,
                                  user |-> token[k].user, vault |-> token[k].vault]]
    /\ overlapped' = IF Rotating(token[k].family) = {} THEN overlapped
                     ELSE overlapped \cup {token[k].family}
    /\ UNCHANGED <<users, vaults, reserved, code, token, vaultOp, resetCodes>>

\* Mutant: a replay inside the window is let through whatever the live rows are.
InGraceAnyTip(j) == token[j].status = "recent" /\ token[j].next # NoJti

\* The one replay let through: a row revoked within the window whose recorded
\* successor is the single live row of the family.
InGrace(j) ==
    /\ token[j].status = "recent"
    /\ token[j].next # NoJti
    /\ Live(token[j].family) = {token[j].next}

\* Mutant: the grace path rotates the presented row, not the live tip.
RefreshPresented(r, j) ==
    /\ request[r].op = "idle"
    /\ token[j].status # "none" /\ token[j].user # NoUser
    /\ token[j].status = "live" \/ InGrace(j)
    /\ RotateFrom(r, j)

\* handleTokenRefresh presented with row j.  An expired row, and a row whose
\* user is gone, is an error that changes nothing.
Refresh(r, j) ==
    /\ request[r].op = "idle"
    /\ token[j].status # "none" /\ token[j].user # NoUser
    /\ \/ token[j].status = "live" /\ RotateFrom(r, j)
       \/ InGrace(j) /\ RotateFrom(r, token[j].next)
       \/ /\ token[j].status \in {"recent", "old"} /\ ~InGrace(j)
          /\ token' = Revoked(Family(token[j].family))
          /\ UNCHANGED <<users, vaults, reserved, code, request, vaultOp,
                         overlapped, resetCodes>>

\* Mutant: names are checked when the request arrives, not at the INSERT.
InsertableAnyName(r) == request[r].user \in users

\* Mutant: PRAGMA foreign_keys is off.
InsertableAnyUser(r) == request[r].vault \notin reserved

\* assertVaultNamesAvailable and the foreign key tokens.user_id -> users.id
Insertable(r) ==
    /\ request[r].vault \notin reserved
    /\ request[r].user \in users

\* Mutant: a missing familyId is stored as NULL.
GrantWithoutFamily(r) ==
    /\ request[r].op = "grant" /\ Insertable(r)
    /\ \E n \in FreeJtis :
        token' = [token EXCEPT ![n] =
            [status |-> "live", family |-> NoJti, user |-> request[r].user,
             vault |-> request[r].vault, next |-> NoJti, code |-> request[r].code]]
    /\ request' = [request EXCEPT ![r] = Idle]
    /\ UNCHANGED <<users, vaults, reserved, code, vaultOp, overlapped, resetCodes>>

\* signRefreshToken without a familyId: the new row starts a family.
GrantCommit(r) ==
    /\ request[r].op = "grant" /\ Insertable(r)
    /\ \E n \in FreeJtis :
        token' = [token EXCEPT ![n] =
            [status |-> "live", family |-> n, user |-> request[r].user,
             vault |-> request[r].vault, next |-> NoJti, code |-> request[r].code]]
    /\ request' = [request EXCEPT ![r] = Idle]
    /\ UNCHANGED <<users, vaults, reserved, code, vaultOp, overlapped, resetCodes>>

\* Mutant: the new row is inserted and the old one revoked, but not linked.
RotateUnlinked(r) ==
    /\ request[r].op = "rotate" /\ Insertable(r)
    /\ LET k == request[r].row IN
       \E n \in FreeJtis :
        token' = [Revoked({k}) EXCEPT ![n] =
            [status |-> "live", family |-> token[k].family, user |-> request[r].user,
             vault |-> request[r].vault, next |-> NoJti, code |-> token[k].code]]
    /\ request' = [request EXCEPT ![r] = Idle]
    /\ UNCHANGED <<users, vaults, reserved, code, vaultOp, overlapped, resetCodes>>

\* The transaction of rotateAndRespond.  The UPDATE of the old row has no
\* `revoked_at IS NULL`: the row read before the await is rotated whatever
\* became of it meanwhile.
RotateCommit(r) ==
    /\ request[r].op = "rotate" /\ Insertable(r)
    /\ LET k == request[r].row IN
       \E n \in FreeJtis :
        token' = [j \in Jtis |->
            CASE j = k -> [token[k] EXCEPT !.status = "recent", !.next = n]
              [] j = n -> [status |-> "live", family |-> token[k].family,
                           user |-> request[r].user, vault |-> request[r].vault,
                           next |-> NoJti, code |-> token[k].code]
              [] OTHER -> token[j]]
    /\ request' = [request EXCEPT ![r] = Idle]
    /\ UNCHANGED <<users, vaults, reserved, code, vaultOp, overlapped, resetCodes>>

\* Mutant: no transaction, the old row stays revoked when the INSERT throws.
CommitHalfDone(r) ==
    /\ request[r].op # "idle" /\ ~Insertable(r)
    /\ request' = [request EXCEPT ![r] = Idle]
    /\ token' = Revoked({request[r].row})
    /\ UNCHANGED <<users, vaults, reserved, code, vaultOp,
                   overlapped, resetCodes>>

\* A reserved name or a missing user: the INSERT throws, a rotation's
\* transaction rolls back, the client gets an error.
CommitRefused(r) ==
    /\ request[r].op # "idle" /\ ~Insertable(r)
    /\ request' = [request EXCEPT ![r] = Idle]
    /\ UNCHANGED <<users, vaults, reserved, code, token, vaultOp,
                   overlapped, resetCodes>>

\* handleRevoke, by refresh token or by the access token's jti
Revoke(j) ==
    /\ Unrevoked(j)
    /\ token' = Revoked({j})
    /\ UNCHANGED <<users, vaults, reserved, code, request, vaultOp,
                   overlapped, resetCodes>>

-----------------------------------------------------------------------------
UserRows(u) == {j \in Jtis : token[j].user = u}

VaultRows(v) == {j \in Jtis : token[j].vault = v}

\* resetUserPassword, and the change of one's own password
ResetPassword(u) ==
    /\ u \in users
    /\ token' = Revoked(UserRows(u))
    /\ resetCodes' = resetCodes \cup
                     {c \in Codes : code[c].status # "none" /\ code[c].user = u}
    /\ UNCHANGED <<users, vaults, reserved, code, request, vaultOp, overlapped>>

\* deleteUser: revoke, detach the rows for the audit trail, drop the codes.
DeleteUser(u) ==
    /\ u \in users
    /\ users' = users \ {u}
    /\ token' = [j \in Jtis |-> IF j \in UserRows(u)
                                THEN [Revoked({j})[j] EXCEPT !.user = NoUser] ELSE token[j]]
    /\ code' = [c \in Codes |-> IF code[c].status = "issued" /\ code[c].user = u
                                THEN [code[c] EXCEPT !.status = "spent"] ELSE code[c]]
    /\ UNCHANGED <<vaults, reserved, request, vaultOp, overlapped, resetCodes>>

\* handleDeleteVault up to its first await: the rows go first, codes are not swept.
DeleteSweep(v) ==
    /\ vaultOp = NoOp /\ v \in vaults
    /\ token' = Revoked(VaultRows(v))
    /\ vaultOp' = [op |-> "delete", vault |-> v, to |-> NoVault]
    /\ UNCHANGED <<users, vaults, reserved, code, request, overlapped, resetCodes>>

\* handleRenameVault up to its first await (the vault module is stopped).
RenameStarts(v, w) ==
    /\ vaultOp = NoOp
    /\ v \in vaults /\ w \notin vaults /\ w \notin reserved
    /\ vaultOp' = [op |-> "rename", vault |-> v, to |-> w]
    /\ UNCHANGED <<users, vaults, reserved, code, token, request,
                   overlapped, resetCodes>>

\* What the vault CLI leaves on disk when it succeeds.
AfterCli ==
    IF vaultOp.op = "rename" THEN (vaults \ {vaultOp.vault}) \cup {vaultOp.to}
                             ELSE vaults \ {vaultOp.vault}

VaultRemoved ==
    /\ vaultOp.op = "delete"
    /\ vaults' = AfterCli
    /\ vaultOp' = NoOp
    /\ UNCHANGED <<users, reserved, code, token, request, overlapped, resetCodes>>

\* The CLI succeeds and the identity transaction commits: unrevoked rows are
\* rescoped, unused codes deleted, the old name reserved.
RenameCommits ==
    LET v == vaultOp.vault  w == vaultOp.to IN
    /\ vaultOp.op = "rename" /\ v \in vaults /\ w \notin vaults
    /\ vaults' = AfterCli
    /\ token' = [j \in Jtis |-> IF Unrevoked(j) /\ token[j].vault = v
                                THEN [token[j] EXCEPT !.vault = w] ELSE token[j]]
    /\ code' = [c \in Codes |-> IF code[c].status = "issued" /\ code[c].vault = v
                                THEN [code[c] EXCEPT !.status = "spent"] ELSE code[c]]
    /\ reserved' = reserved \cup {v}
    /\ vaultOp' = NoOp
    /\ UNCHANGED <<users, request, overlapped, resetCodes>>

\* The CLI fails, or the rename's transaction and then its reverse CLI fail.
VaultOpFails ==
    /\ vaultOp.op # "idle"
    /\ vaults' \in IF vaultOp.op = "rename" THEN {vaults, AfterCli} ELSE {vaults}
    /\ vaultOp' = NoOp
    /\ UNCHANGED <<users, reserved, code, token, request, overlapped, resetCodes>>

\* provisionVault
CreateVault(v) ==
    /\ v \notin vaults /\ v \notin reserved
    /\ vaults' = vaults \cup {v}
    /\ UNCHANGED <<users, reserved, code, token, request, vaultOp,
                   overlapped, resetCodes>>

-----------------------------------------------------------------------------
\* Time passes: AUTH_CODE_TTL, the refresh TTL, the grace window, a reservation.
CodeExpires(c) ==
    /\ code[c].status = "issued"
    /\ code' = [code EXCEPT ![c].status = "spent"]
    /\ UNCHANGED <<users, vaults, reserved, token, request, vaultOp,
                   overlapped, resetCodes>>

RowAges(j) ==
    /\ \/ token[j].status = "live" /\ token' = [token EXCEPT ![j].status = "lapsed"]
       \/ token[j].status = "recent" /\ token' = [token EXCEPT ![j].status = "old"]
    /\ UNCHANGED <<users, vaults, reserved, code, request, vaultOp,
                   overlapped, resetCodes>>

ReservationEnds(v) ==
    /\ v \in reserved
    /\ reserved' = reserved \ {v}
    /\ UNCHANGED <<users, vaults, code, token, request, vaultOp,
                   overlapped, resetCodes>>

\* The hub process dies: what is in flight is lost, hub.db is not; the vault
\* CLI may have finished without its identity transaction.
HubCrash ==
    /\ request' = [r \in Requests |-> Idle]
    /\ vaults' \in IF vaultOp.op = "idle" THEN {vaults} ELSE {vaults, AfterCli}
    /\ vaultOp' = NoOp
    /\ UNCHANGED <<users, reserved, code, token, overlapped, resetCodes>>

Next ==
    \/ \E u \in Users, v \in Vaults : IssueCode(u, v)
    \/ \E r \in Requests, c \in Codes : Redeem(r, c)
    \/ \E r \in Requests, j \in Jtis : Refresh(r, j)
    \/ \E r \in Requests : GrantCommit(r) \/ RotateCommit(r) \/ CommitRefused(r)
    \/ \E j \in Jtis : Revoke(j) \/ RowAges(j)
    \/ \E u \in Users : ResetPassword(u) \/ DeleteUser(u)
    \/ \E v \in Vaults : DeleteSweep(v) \/ CreateVault(v) \/ ReservationEnds(v)
    \/ \E v \in Vaults, w \in Vaults : RenameStarts(v, w)
    \/ VaultRemoved \/ RenameCommits \/ VaultOpFails
    \/ \E c \in Codes : CodeExpires(c)
    \/ HubCrash

Spec == Init /\ [][Next]_vars

-----------------------------------------------------------------------------
\* A refresh rotates one row into one row, and the grace replay rotates the
\* tip rather than a second branch: only two rotations of a family in flight
\* at the same time can leave it with more than one live row.
ForkNeedsOverlap ==
    \A f \in Jtis \ overlapped : \A i, j \in Live(f) : i = j

\* A family with no live row and no rotation in flight is over: no replay,
\* late commit or rename ever gives it a live row again, so revokeFamily,
\* /oauth/revoke of the tip and a user's deletion are final.
Over(f) == Family(f) # {} /\ Live(f) = {} /\ Rotating(f) = {}

OverStaysOver == [][\A f \in Jtis : Over(f) => Over(f)']_vars

\* "A mid-rotation crash can't dead-old-without-replacement": however a
\* rotation ends - committed, refused, lost with the hub - a family that had
\* a live row still has one.
RotationNeverStrands ==
    [][\A r \in Requests, f \in Jtis :
        /\ request[r].op = "rotate" /\ request'[r].op = "idle"
        /\ Live(f) # {}
        => Live(f)' # {}]_vars

\* The grace window recognises the immediate predecessor by rotated_to: in a
\* family that never had overlapping rotations every live row but the root
\* is the recorded successor of a row of that family.
TipHasParent ==
    \A f \in Jtis \ overlapped : \A j \in Live(f) \ {f} :
        \E k \in Family(f) : token[k].next = j

\* An authorization code starts at most one family, however its redemptions
\* interleave.
OneFamilyPerCode ==
    \A i, j \in Jtis :
        token[i].code = token[j].code /\ token[i].code # NoCode
            => token[i].family = token[j].family

\* No refreshable row names a vault whose name is reserved after a rename: the
\* stale name of a code or row captured before the rename never gets in.
ReservedUnnamed ==
    \A j \in Jtis : Unrevoked(j) => token[j].vault \notin reserved

\* deleteUser leaves no usable row behind, not even one whose insertion was
\* pending when the user went.
RowsHaveUsers ==
    \A j \in Jtis : Unrevoked(j) => token[j].user \in users

\* What a usable row speaks for is still there: an administration that overlaps
\* a grant or a rotation never leaves one for a user or a name that is gone.
RowsStayBacked == ReservedUnnamed /\ RowsHaveUsers

-----------------------------------------------------------------------------
\* users.ts on resetUserPassword: the reset is "a true cut: the user (and any
\* attacker) must re-authenticate with the new password".
ResetIsATrueCut ==
    \A j \in Jtis : token[j].status = "live" => token[j].code \notin resetCodes
=============================================================================
