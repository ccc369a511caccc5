------------------------------ MODULE Accounts ------------------------------
(***************************************************************************)
(* Who may use a hub and which vault is whose: the claim of a fresh hub    *)
(* (src/src/setup-wizard.ts, users.ts), invites and their redemption       *)
(* (invites.ts, api-invites.ts, account-setup.ts), user administration     *)
(* (api-users.ts, grant-access.ts) and the deletion and renaming of vaults *)
(* underneath them (admin-vaults.ts).                                      *)
(*                                                                         *)
(* A handler that awaits - a form, the hash of a password, the vault's     *)
(* command line, a restart - is one step up to each await; one that does   *)
(* not is a single action.  A rejected request changes nothing and is left *)
(* out, so usernames, passwords and expiry dates need no state of their    *)
(* own.  A vault is told from a later one of the same name by a number its *)
(* creation draws.                                                         *)
(***************************************************************************)
EXTENDS Integers, FiniteSets

CONSTANTS
    Reqs,       \* requests in flight at once
    Vaults,     \* vault names
    Seats,      \* the max_uses of a link for many
    MaxUsers, MaxInvites, MaxMade, MaxEvents   \* bounds of the instance

NoVault == "no vault"

ASSUME BoundsAssumption ==
    /\ Seats \in Nat \ {0, 1} /\ {MaxUsers, MaxInvites, MaxMade} \subseteq Nat \ {0}
    /\ MaxEvents \in Nat /\ Vaults # {} /\ NoVault \notin Vaults

VARIABLES
    users,      \* the accounts, in the order of their creation
    invites,    \* the links, in the order they were minted
    disk,       \* the vault of each name, as the vault's command line keeps it
    listed,     \* the names in services.json
    reserved,   \* the former names of renamed vaults, for a while
    request,    \* what each request in flight has read and waits for
    hasty,      \* history: names given out, or held by a request, while a deletion or
                \* a rename of theirs ran
    events      \* vaults deleted or renamed, accounts edited, promoted or deleted, invites
                \* revoked, reservations ended and deaths of the hub so far

catalog == <<disk, listed, reserved>>
history == <<hasty, events>>
vars == <<users, invites, catalog, request, history>>

Uids == 1 .. MaxUsers
Ids == 1 .. MaxInvites

Names == Vaults \cup {NoVault}

Unassigned == -1

Nothing == [v \in Vaults |-> Unassigned]

\* vault: what each assigned name stood for when it was assigned (0: nothing);
\* invite: the one that made the account.
User == [ st: {"none", "there", "gone"}, admin: BOOLEAN,
          vault: [Vaults -> 0 .. MaxMade \cup {Unassigned}], invite: Ids \cup {0} ]

\* revoked: -1, or the seats taken when it was.
Invite == [ shape: {"none", "own", "pinned", "shared", "bare"}, vault: Names,
            max: {1, Seats}, used: 0 .. Seats, revoked: -1 .. Seats ]

\* made: the vault the redemption provisioned; first: no account existed when the
\* hash of the password began.
Request == [ op: {"none", "claim", "redeem", "create", "delete", "rename"},
             at: {"idle", "reading", "creating", "hashing", "mechanics", "restarting"},
             invite: Ids \cup {0}, shape: {"none", "own", "pinned", "shared", "bare"},
             vault: Names, to: Names, made: 0 .. MaxMade, first: BOOLEAN ]

Nobody == [st |-> "none", admin |-> FALSE, vault |-> Nothing, invite |-> 0]

NoInvite == [shape |-> "none", vault |-> NoVault, max |-> 1, used |-> 0, revoked |-> -1]

Idle == [op |-> "none", at |-> "idle", invite |-> 0, shape |-> "none", vault |-> NoVault,
         to |-> NoVault, made |-> 0, first |-> FALSE]

TypeOK ==
    /\ users \in [Uids -> User] /\ invites \in [Ids -> Invite]
    /\ disk \in [Vaults -> 0 .. MaxMade] /\ listed \subseteq Vaults /\ reserved \subseteq Vaults
    /\ request \in [Reqs -> Request]
    /\ hasty \subseteq Vaults /\ events \in 0 .. MaxEvents

\* A hub nobody has claimed yet, with the vault its installation made.
Init ==
    /\ users = [u \in Uids |-> Nobody] /\ invites = [i \in Ids |-> NoInvite]
    /\ \E first \in Vaults : disk = [v \in Vaults |-> IF v = first THEN 1 ELSE 0]
    /\ listed = {v \in Vaults : disk[v] # 0} /\ reserved = {}
    /\ request = [r \in Reqs |-> Idle] /\ hasty = {} /\ events = 0

-----------------------------------------------------------------------------
There == {u \in Uids : users[u].st = "there"}

NoUsers == There = {}

\* getFirstAdminId
First(u) == u \in There /\ \A w \in There : u <= w

Born == {u \in Uids : users[u].st # "none"}

Minted == {i \in Ids : invites[i].shape # "none"}

Held(v) == \E r \in Reqs : /\ request[r].op \in {"redeem", "create"}
                           /\ request[r].at \in {"creating", "hashing"}
                           /\ request[r].vault = v

Moving(v) == \E r \in Reqs : request[r].op \in {"delete", "rename"} /\ request[r].vault = v

Event == events < MaxEvents /\ events' = events + 1

Begins(r, q) == request[r].at = "idle" /\ request' = [request EXCEPT ![r] = q]

Ends(r) == request' = [request EXCEPT ![r] = Idle]

\* A vault no name on this hub has stood for yet.
Unmade == {n \in 1 .. MaxMade :
             /\ \A v \in Vaults : disk[v] # n
             /\ \A r \in Reqs : request[r].made # n
             /\ \A u \in Uids, v \in Vaults : users[u].vault[v] # n}

\* Names given out: hasty if on the move, or still listed with no vault behind.
Gives(vs) == hasty' = hasty \cup {v \in vs : Moving(v) \/ disk[v] = 0}

-----------------------------------------------------------------------------
\* The account step of the wizard, set-password and the seed of the environment:
\* they look for an account and then hash the password.  The bootstrap token the
\* wizard asks for is checked with the look and consumed after the commit.
Claim(r) ==
    /\ NoUsers
    /\ Begins(r, [Idle EXCEPT !.op = "claim", !.at = "hashing", !.first = TRUE])
    /\ UNCHANGED <<users, invites, catalog, history>>

\* POST /api/invites: an account exists, and a shared vault is listed.
MintInvite ==
    /\ ~NoUsers
    /\ \E i \in Ids \ Minted, shape \in {"own", "pinned", "shared", "bare"}, v \in Names,
          max \in {1, Seats} :
        /\ \A j \in Ids \ Minted : i <= j
        /\ (v = NoVault) = (shape \in {"own", "bare"})
        /\ shape = "shared" => v \in listed
        /\ shape = "pinned" => max = 1
        /\ invites' = [invites EXCEPT ![i] = [NoInvite EXCEPT !.shape = shape, !.vault = v,
                                                              !.max = max]]
    /\ UNCHANGED <<users, catalog, request, history>>

\* The guard of the UPDATEs that take a seat or revoke.
Open(i) == invites[i].used < invites[i].max /\ invites[i].revoked = -1

Revoked(i) == [invites[i] EXCEPT !.revoked = invites[i].used]

RevokeInvite(i) ==
    /\ i \in Minted /\ Open(i) /\ Event
    /\ invites' = [invites EXCEPT ![i] = Revoked(i)]
    /\ UNCHANGED <<users, catalog, request, hasty>>

\* assertInviteRedeemable, and then the form is awaited.
Redeem(r) ==
    /\ \E i \in Minted :
        /\ Open(i)
        /\ Begins(r, [Idle EXCEPT !.op = "redeem", !.at = "reading", !.invite = i,
                                  !.shape = invites[i].shape, !.vault = invites[i].vault])
    /\ UNCHANGED <<users, invites, catalog, history>>

Hashing(q) == [q EXCEPT !.at = "hashing", !.first = NoUsers]

\* Mutant: a vault that is there already is taken for the invitee's.
ResolvesAny(r) ==
    /\ request[r].at = "reading"
    /\ \E v \in Names :
        /\ request[r].shape # "own" => v = request[r].vault
        /\ request' = [request EXCEPT ![r] =
                IF v \in Vaults \ listed THEN [@ EXCEPT !.vault = v, !.at = "creating"]
                                         ELSE [Hashing(@) EXCEPT !.vault = v]]
    /\ UNCHANGED <<users, invites, catalog, history>>

\* The form is there: a vault to provision must be new, a shared one listed.
Resolves(r) ==
    /\ request[r].at = "reading"
    /\ \/ /\ request[r].shape \in {"own", "pinned"}
          /\ \E v \in Vaults \ (listed \cup reserved) :
                /\ request[r].shape = "pinned" => v = request[r].vault
                /\ request' = [request EXCEPT ![r].vault = v, ![r].at = "creating"]
       \/ /\ request[r].shape = "shared" => request[r].vault \in listed
          /\ request[r].shape \in {"shared", "bare"}
          /\ request' = [request EXCEPT ![r] = Hashing(@)]
       \/ Ends(r)
    /\ UNCHANGED <<users, invites, catalog, history>>

\* parachute-vault create: it refuses a name that exists, and may fail.
Creates(r) ==
    /\ request[r].at = "creating"
    /\ LET v == request[r].vault IN
        \/ /\ disk[v] = 0 /\ Unmade # {}
           /\ LET n == CHOOSE n \in Unmade : TRUE IN
                /\ disk' = [disk EXCEPT ![v] = n]
                /\ request' = [request EXCEPT ![r] = [Hashing(@) EXCEPT !.made = n]]
           /\ listed' = listed \cup {v}
        \/ Ends(r) /\ UNCHANGED <<disk, listed>>
    /\ UNCHANGED <<users, invites, reserved, history>>

\* POST /api/users, and a grant to a key that has no account yet: the vaults are
\* looked up, then the password is hashed.
Create(r) ==
    /\ ~NoUsers
    /\ \E v \in listed \cup {NoVault} :
        Begins(r, [Idle EXCEPT !.op = "create", !.at = "hashing", !.vault = v])
    /\ UNCHANGED <<users, invites, catalog, history>>

-----------------------------------------------------------------------------
\* Mutant: the count of seats taken goes down.
TakesSeatBack(q) == IF q.op = "redeem" /\ Open(q.invite)
                    THEN [invites EXCEPT ![q.invite].used = @ - 1] ELSE invites

\* Mutant: the seat is the one seen before the hash.
TakesSeatSeen(q) == IF q.op = "redeem" THEN [invites EXCEPT ![q.invite].used = @ + 1] ELSE invites

\* recordInviteRedemption
TakesSeat(q) == IF q.op = "redeem" /\ Open(q.invite)
                THEN [invites EXCEPT ![q.invite].used = @ + 1] ELSE invites

\* The transaction of createUser, with the hook that takes the seat: a hook that
\* fails rolls it back.
Commits(r) ==
    LET q == request[r]
        vs == {q.vault} \ {NoVault}
    IN /\ q.at = "hashing" /\ Born # Uids
       /\ invites' = TakesSeat(q)
       /\ q.op = "redeem" => invites' # invites
       /\ users' = [users EXCEPT ![1 + Cardinality(Born)] =
                [ st |-> "there", admin |-> (q.op = "claim" \/ q.first),
                  vault |-> [v \in Vaults |-> IF v \in vs THEN disk[v] ELSE Unassigned],
                  invite |-> q.invite ]]
       /\ Gives(vs) /\ Ends(r)
       /\ UNCHANGED <<catalog, events>>

\* The name is taken, no seat is left, the disk is full: nothing is committed.
CommitFails(r) ==
    /\ request[r].at = "hashing" /\ Ends(r)
    /\ UNCHANGED <<users, invites, catalog, history>>

-----------------------------------------------------------------------------
\* PATCH /api/users/:id/vaults replaces the list, a grant adds to it, a revoked
\* grant takes from it; none of them touches an admin.
EditVaults(u) ==
    /\ u \in There /\ ~users[u].admin /\ Event
    /\ \E vs \in SUBSET Vaults :
        LET new == {v \in vs : users[u].vault[v] = Unassigned}
        IN /\ new \subseteq listed
           /\ users' = [users EXCEPT ![u].vault =
                            [v \in Vaults |-> IF v \notin vs THEN Unassigned
                                              ELSE IF v \in new THEN disk[v] ELSE @[v]]]
           /\ Gives(new)
    /\ UNCHANGED <<invites, catalog, request>>

\* Mutant: the assignments stay.
PromoteAssigned(u) ==
    /\ u \in There /\ ~users[u].admin /\ Event
    /\ users' = [users EXCEPT ![u].admin = TRUE]
    /\ UNCHANGED <<invites, catalog, request, hasty>>

Promote(u) ==
    /\ u \in There /\ ~users[u].admin /\ users[u].vault = Nothing
    /\ Event
    /\ users' = [users EXCEPT ![u].admin = TRUE]
    /\ UNCHANGED <<invites, catalog, request, hasty>>

\* The first account cannot be deleted.
DeleteUser(u) ==
    /\ u \in There /\ ~First(u) /\ Event
    /\ users' = [users EXCEPT ![u] = [Nobody EXCEPT !.st = "gone", !.invite = users[u].invite]]
    /\ UNCHANGED <<invites, catalog, request, hasty>>

-----------------------------------------------------------------------------
\* Mutant: assignments are left to the vault's command line.
ForgetsNone(v) == users

\* removeVaultAssignments
Forgets(v) == [u \in Uids |-> [users[u] EXCEPT !.vault[v] = Unassigned]]

\* DELETE /vaults/:name: the cascade runs before the first await.
Delete(r) ==
    /\ ~NoUsers /\ Event
    /\ \E v \in listed :
        /\ Begins(r, [Idle EXCEPT !.op = "delete", !.at = "mechanics", !.vault = v])
        /\ users' = Forgets(v)
        /\ invites' = [i \in Ids |-> IF invites[i].vault = v /\ Open(i) THEN Revoked(i)
                                                                        ELSE invites[i]]
        /\ hasty' = hasty \cup {w \in {v} : Held(w)}
    /\ UNCHANGED catalog

\* parachute-vault remove
Removes(r) ==
    /\ request[r].op = "delete" /\ request[r].at = "mechanics"
    /\ LET v == request[r].vault IN
        \/ /\ disk[v] # 0 /\ disk' = [disk EXCEPT ![v] = 0]
           /\ request' = [request EXCEPT ![r].at = "restarting"]
           /\ hasty' = hasty \cup {x \in {v} : Held(x)}
        \/ Ends(r) /\ UNCHANGED <<disk, hasty>>
    /\ UNCHANGED <<users, invites, listed, reserved, events>>

\* POST /vaults/:name/rename: checked, then the vault module is stopped.
Rename(r) ==
    /\ ~NoUsers /\ Event
    /\ \E v \in listed, w \in Vaults \ (listed \cup reserved) :
        Begins(r, [Idle EXCEPT !.op = "rename", !.at = "mechanics", !.vault = v, !.to = w])
    /\ UNCHANGED <<users, invites, catalog, hasty>>

Moved(f, v, w, none) == [f EXCEPT ![w] = f[v], ![v] = none]

\* renameVaultAssignments
Renamed(v, w) == [u \in Uids |-> IF users[u].vault[v] = Unassigned THEN users[u]
                         ELSE [users[u] EXCEPT !.vault = Moved(@, v, w, Unassigned)]]

\* parachute-vault rename and the identity transaction, or the rename alone when
\* the transaction fails and the way back fails too.
Renames(r) ==
    /\ request[r].op = "rename" /\ request[r].at = "mechanics"
    /\ LET v == request[r].vault
           w == request[r].to
       IN \/ /\ disk[v] # 0 /\ disk[w] = 0
             /\ disk' = Moved(disk, v, w, 0)
             /\ \/ /\ \A u \in Uids : Unassigned \in {users[u].vault[v], users[u].vault[w]}
                   /\ users' = Renamed(v, w)
                   /\ invites' = [i \in Ids |-> IF invites[i].vault = v
                                        THEN [invites[i] EXCEPT !.vault = w] ELSE invites[i]]
                   /\ reserved' = reserved \cup {v}
                   /\ hasty' = hasty \cup {x \in {v} : Held(x)}
                                     \cup {x \in {w} : Moving(x) \/ v \in hasty}
                \/ /\ hasty' = hasty \cup {v} /\ UNCHANGED <<users, invites, reserved>>
          \/ UNCHANGED <<users, invites, disk, reserved, hasty>>
    /\ request' = [request EXCEPT ![r].at = "restarting"]
    /\ UNCHANGED <<listed, events>>

\* The vault module starts again and registers what it finds on the disk; one that
\* does not start leaves the list as it was, like one that has not started yet.
Restarts(r) ==
    /\ request[r].at = "restarting" /\ Ends(r)
    /\ listed' = {v \in Vaults : disk[v] # 0}
    /\ UNCHANGED <<users, invites, disk, reserved, history>>

ReservationEnds ==
    /\ Event
    /\ \E v \in reserved : reserved' = reserved \ {v}
    /\ UNCHANGED <<users, invites, disk, listed, request, hasty>>

\* Requests in flight are lost; a command line of the vault may still finish.
\* The hub comes back and so does the vault module.
HubDies ==
    /\ Event
    /\ \/ UNCHANGED <<disk, hasty>>
       \/ \E r \in Reqs :
            /\ request[r].at = "mechanics" /\ disk[request[r].vault] # 0
            /\ LET v == request[r].vault IN
                \/ /\ request[r].op = "delete"
                   /\ disk' = [disk EXCEPT ![v] = 0] /\ UNCHANGED hasty
                \/ /\ request[r].op = "rename" /\ disk[request[r].to] = 0
                   /\ disk' = Moved(disk, v, request[r].to, 0) /\ hasty' = hasty \cup {v}
    /\ request' = [r \in Reqs |-> Idle]
    /\ listed' = {v \in Vaults : disk'[v] # 0}
    /\ UNCHANGED <<users, invites, reserved>>

-----------------------------------------------------------------------------
Redemption(r) == Redeem(r) \/ Resolves(r) \/ Creates(r)

Account(r) == Claim(r) \/ Create(r) \/ Commits(r) \/ CommitFails(r)

VaultOp(r) == Delete(r) \/ Removes(r) \/ Rename(r) \/ Renames(r) \/ Restarts(r)

Next ==
    \/ \E r \in Reqs : Redemption(r) \/ Account(r) \/ VaultOp(r)
    \/ \E u \in Uids : EditVaults(u) \/ Promote(u) \/ DeleteUser(u)
    \/ \E i \in Ids : RevokeInvite(i)
    \/ MintInvite \/ ReservationEnds \/ HubDies

Spec == Init /\ [][Next]_vars

-----------------------------------------------------------------------------
\* An invite makes as many accounts as it has seats taken, never more than it
\* has, and none once it is revoked, however its redemptions overlap; one that
\* fails takes no seat.
SeatsHold ==
    \A i \in Ids :
        /\ Cardinality({u \in Uids : users[u].invite = i}) = invites[i].used
        /\ invites[i].used <= invites[i].max
        /\ invites[i].revoked # -1 => invites[i].used = invites[i].revoked

\* A claimed hub keeps its first account, as an admin, and admins have no vault
\* assigned, so that an empty list always means what isHubAdmin says it means.
AdminPosture ==
    /\ Born # {} => users[1].st = "there" /\ users[1].admin
    /\ \A u \in There : users[u].admin => users[u].vault = Nothing

\* An account made by an invite that provisions starts with the vault its own
\* redemption made and with no other, unless that name was deleted or renamed
\* while its password was hashed: nobody is let into a vault that was there.
OwnVaultOnly ==
    [][\A r \in Reqs, u \in Uids \ Born :
          (request[r].shape \in {"own", "pinned"} /\ request'[r] = Idle /\ users'[u].st # "none")
            => /\ request[r].made # 0
               /\ \A v \in Vaults \ hasty' :
                    users'[u].vault[v] \in {Unassigned, request[r].made}]_vars

\* An assignment names the vault it was made for: it goes with a deletion and
\* follows a rename, and a later vault of that name inherits nobody - except under
\* a name given out while its deletion or rename ran or services.json was behind,
\* and one whose rename was cut short of its transaction.
AssignmentsFollow ==
    \A u \in There, v \in Vaults \ hasty : users[u].vault[v] \in {Unassigned, disk[v]}

\* What bootstrap-token.ts:23-26 says of the token and createUser's guard of
\* single-user mode: a hub is claimed once, while it has no account.
OneClaim ==
    [][\A r \in Reqs : (request[r].op = "claim" /\ users' # users /\ request'[r] = Idle)
          => NoUsers]_vars
=============================================================================
