--------------------------- MODULE AccountsProofs ---------------------------
(***************************************************************************)
(* Theorems about Accounts for any number of requests, vault names, seats, *)
(* accounts and invites.                                                   *)
(***************************************************************************)
EXTENDS Accounts, FiniteSetTheorems, TLAPS

USE BoundsAssumption

-----------------------------------------------------------------------------
\* Accounts are born in the order of their numbers.
InOrder == \E n \in 0 .. MaxUsers : Born = 1 .. n

\* Before the first account there is no invite and only claims are in flight.
Unclaimed ==
    Born = {} => /\ \A i \in Ids : invites[i].shape = "none"
                 /\ \A r \in Reqs : request[r].op \in {"none", "claim"}

Untouched ==
    /\ \A u \in Uids : users[u].st = "none" => users[u] = Nobody
    /\ \A i \in Ids : invites[i].shape = "none" => invites[i] = NoInvite

\* What a request carries, by its kind and by where it waits.
PurposeOf(q) ==
    /\ q.at = "idle" => q = Idle
    /\ q.at \in {"reading", "creating"} => q.op = "redeem"
    /\ q.at = "hashing" => q.op \in {"claim", "redeem", "create"}
    /\ q.at \in {"mechanics", "restarting"} => q.op \in {"delete", "rename"} /\ q.vault \in Vaults
    /\ q.op = "redeem" => q.invite \in Minted
    /\ q.op # "redeem" => q.invite = 0 /\ q.shape = "none"
    /\ q.op = "claim" => q.vault = NoVault
    /\ q.first => q.op = "claim"
    /\ q.at = "creating" => q.vault \in Vaults
    /\ q.op = "rename" => q.to \in Vaults \ {q.vault}

Purpose == \A r \in Reqs : PurposeOf(request[r])

\* The vault a redemption provisioned is still under its name, or the name is hasty.
StandsFor(q) ==
    q.at = "hashing" /\ q.shape \in {"own", "pinned"} =>
        /\ q.made # 0 /\ q.vault \in Vaults
        /\ q.vault \notin hasty => disk[q.vault] = q.made

MadeThere == \A r \in Reqs : StandsFor(request[r])

\* While the vault's command line removes a vault nobody is assigned it.
Vacated(q) ==
    q.op = "delete" /\ q.at = "mechanics" =>
        \A u \in There : users[u].vault[q.vault] # Unassigned => q.vault \in hasty

Forgotten == \A r \in Reqs : Vacated(request[r])

\* The inductive form of AssignmentsFollow: no assignment names an empty place.
Assigned ==
    \A u \in There, v \in Vaults \ hasty :
        users[u].vault[v] # Unassigned => users[u].vault[v] = disk[v] /\ disk[v] # 0

IInv ==
    /\ TypeOK /\ InOrder /\ Unclaimed /\ Untouched /\ Purpose
    /\ SeatsHold /\ AdminPosture /\ MadeThere /\ Forgotten /\ Assigned

-----------------------------------------------------------------------------
LEMMA IdleTyped ==
    /\ Idle \in Request /\ Idle.op = "none" /\ Idle.at = "idle" /\ Idle.invite = 0
    /\ Idle.shape = "none" /\ Idle.vault = NoVault /\ Idle.made = 0 /\ Idle.first = FALSE
    /\ PurposeOf(Idle) /\ StandsFor(Idle) /\ Vacated(Idle)
BY DEF Idle, Request, Names, PurposeOf, StandsFor, Vacated

LEMMA NobodyTyped ==
    /\ Nobody \in User /\ Nobody.st = "none" /\ Nobody.invite = 0 /\ ~Nobody.admin
    /\ Nothing \in [Vaults -> 0 .. MaxMade \cup {Unassigned}]
BY DEF Nobody, User, Nothing, Unassigned

LEMMA NoInviteTyped ==
    /\ NoInvite \in Invite /\ NoInvite.shape = "none" /\ NoInvite.used = 0
    /\ NoInvite.max = 1 /\ NoInvite.revoked = -1 /\ NoInvite.vault = NoVault
BY DEF NoInvite, Invite, Names

\* One request is rewritten, and the others keep what they have.
LEMMA RequestTyped ==
    ASSUME TypeOK, NEW r \in Reqs, NEW q \in Request,
           request' = [request EXCEPT ![r] = q]
    PROVE  /\ request' \in [Reqs -> Request] /\ request'[r] = q
           /\ \A s \in Reqs \ {r} : request'[s] = request[s]
BY DEF TypeOK

LEMMA MadeTyped ==
    ASSUME NEW q \in Request, NEW n \in 0 .. MaxMade
    PROVE  LET x == [q EXCEPT !.made = n]
           IN  /\ x \in Request /\ x.made = n /\ x.op = q.op /\ x.at = q.at
               /\ x.vault = q.vault /\ x.first = q.first /\ x.invite = q.invite
BY DEF Request

LEMMA RevokedTyped ==
    ASSUME TypeOK, NEW i \in Ids
    PROVE  /\ Revoked(i) \in Invite /\ Revoked(i).shape = invites[i].shape
           /\ Revoked(i).used = invites[i].used /\ Revoked(i).max = invites[i].max
           /\ Revoked(i).revoked = invites[i].used /\ Revoked(i).vault = invites[i].vault
<1>1. invites[i] \in Invite
  BY DEF TypeOK
<1> QED BY <1>1 DEF Revoked, Invite

LEMMA TakesSeatTyped ==
    ASSUME TypeOK, NEW q \in Request
    PROVE  /\ TakesSeat(q) \in [Ids -> Invite]
           /\ \A i \in Ids : /\ TakesSeat(q)[i].shape = invites[i].shape
                             /\ TakesSeat(q)[i].max = invites[i].max
                             /\ TakesSeat(q)[i].revoked = invites[i].revoked
                             /\ TakesSeat(q)[i].vault = invites[i].vault
                             /\ i # q.invite => TakesSeat(q)[i] = invites[i]
           /\ q.op # "redeem" => TakesSeat(q) = invites
           /\ q.op = "redeem" /\ q.invite \in Ids /\ TakesSeat(q) # invites =>
                /\ Open(q.invite)
                /\ TakesSeat(q)[q.invite].used = invites[q.invite].used + 1
<1>1. invites \in [Ids -> Invite]
  BY DEF TypeOK
<1>2. CASE q.op = "redeem" /\ Open(q.invite)
  <2> DEFINE old == invites[q.invite]
             new == [old EXCEPT !.used = @ + 1]
  <2>1. TakesSeat(q) = [invites EXCEPT ![q.invite] = new]
    BY <1>2 DEF TakesSeat
  <2>2. CASE q.invite \in Ids
    <3>1. old \in Invite /\ old.used < old.max
      BY <1>1, <1>2, <2>2 DEF Open
    <3>2. /\ new \in Invite /\ new.used = old.used + 1 /\ new.shape = old.shape
          /\ new.max = old.max /\ new.revoked = old.revoked /\ new.vault = old.vault
      BY <3>1 DEF Invite
    <3> HIDE DEF new
    <3> QED BY <1>1, <1>2, <2>1, <2>2, <3>2
  <2>3. CASE q.invite \notin Ids
    BY <1>1, <2>1, <2>3
  <2> QED BY <2>2, <2>3
<1>3. CASE ~(q.op = "redeem" /\ Open(q.invite))
  BY <1>1, <1>3 DEF TakesSeat
<1> QED BY <1>2, <1>3

\* A step that rewrites one request only, may mark names as hasty and may change
\* what is listed and reserved.
LEMMA RequestStep ==
    ASSUME IInv, NEW r \in Reqs, NEW q \in Request, request' = [request EXCEPT ![r] = q],
           UNCHANGED <<users, invites, disk>>, listed' \subseteq Vaults, reserved' \subseteq Vaults,
           hasty \subseteq hasty', hasty' \subseteq Vaults, events' \in 0 .. MaxEvents,
           PurposeOf(q), StandsFor(q)', Vacated(q)', Born = {} => q.op \in {"none", "claim"}
    PROVE  IInv'
<1> USE DEF IInv
<1>1. /\ request' \in [Reqs -> Request] /\ request'[r] = q
      /\ \A s \in Reqs \ {r} : request'[s] = request[s]
  BY RequestTyped
<1>2. TypeOK'
  BY <1>1 DEF TypeOK
<1>3. InOrder' /\ Untouched' /\ SeatsHold' /\ AdminPosture'
  BY DEF InOrder, Untouched, SeatsHold, AdminPosture, Born, There
<1>4. Unclaimed'
  BY <1>1 DEF Unclaimed, Born
<1>5. Purpose'
  BY <1>1 DEF Purpose, PurposeOf, Minted
<1>6. MadeThere'
  BY <1>1 DEF MadeThere, StandsFor
<1>7. Forgotten'
  BY <1>1 DEF Forgotten, Vacated, There
<1>8. Assigned'
  BY DEF Assigned, There
<1> QED BY <1>2, <1>3, <1>4, <1>5, <1>6, <1>7, <1>8

LEMMA EndStep ==
    ASSUME IInv, NEW r \in Reqs, Ends(r), UNCHANGED <<users, invites, disk, hasty>>,
           listed' \subseteq Vaults, reserved' \subseteq Vaults, events' \in 0 .. MaxEvents
    PROVE  IInv'
<1>1. hasty' \subseteq Vaults
  BY DEF IInv, TypeOK
<1>2. StandsFor(Idle)' /\ Vacated(Idle)'
  BY IdleTyped DEF StandsFor, Vacated
<1> QED BY <1>1, <1>2, IdleTyped, RequestStep DEF Ends

LEMMA ClaimStep == ASSUME IInv, NEW r \in Reqs, Claim(r) PROVE IInv'
<1> DEFINE q == [Idle EXCEPT !.op = "claim", !.at = "hashing", !.first = TRUE]
<1>1. /\ q \in Request /\ q.op = "claim" /\ q.at = "hashing" /\ q.shape = "none"
      /\ q.vault = NoVault /\ q.invite = 0
  BY IdleTyped DEF Idle, Request, Names
<1>2. request' = [request EXCEPT ![r] = q]
  BY DEF Claim, Begins
<1> HIDE DEF q
<1>3. PurposeOf(q) /\ StandsFor(q)' /\ Vacated(q)'
  BY <1>1 DEF PurposeOf, StandsFor, Vacated
<1>4. /\ UNCHANGED <<users, invites, disk, listed, reserved, hasty, events>>
      /\ TypeOK
  BY DEF Claim, catalog, history, IInv
<1>5. listed' \subseteq Vaults /\ reserved' \subseteq Vaults /\ hasty' \subseteq Vaults
      /\ events' \in 0 .. MaxEvents
  BY <1>4 DEF TypeOK
<1> QED BY <1>1, <1>2, <1>3, <1>4, <1>5, RequestStep

LEMMA RedeemStep == ASSUME IInv, NEW r \in Reqs, Redeem(r) PROVE IInv'
<1>1. PICK i \in Minted : Redeem(r)!1!(i)
  BY DEF Redeem
<1>2. i \in Ids /\ invites[i] \in Invite /\ TypeOK
  BY <1>1 DEF Minted, IInv, TypeOK
<1> DEFINE n == [Idle EXCEPT !.op = "redeem", !.at = "reading", !.invite = i,
                             !.shape = invites[i].shape, !.vault = invites[i].vault]
<1>3. PICK q \in Request : q = n
  BY <1>2, IdleTyped DEF Idle, Request, Invite, Names
<1>4. /\ request' = [request EXCEPT ![r] = q]
      /\ q.op = "redeem" /\ q.at = "reading" /\ q.invite = i /\ ~q.first
  BY <1>1, <1>3, IdleTyped DEF Begins, Idle
<1>5. PurposeOf(q) /\ StandsFor(q)' /\ Vacated(q)'
  BY <1>1, <1>4 DEF PurposeOf, StandsFor, Vacated
<1>6. UNCHANGED <<users, invites, disk, listed, reserved, hasty, events>>
  BY DEF Redeem, catalog, history
<1>7. Born # {}
  BY <1>1, <1>2 DEF Minted, IInv, Unclaimed
<1>8. listed' \subseteq Vaults /\ reserved' \subseteq Vaults /\ hasty' \subseteq Vaults
      /\ events' \in 0 .. MaxEvents
  BY <1>2, <1>6 DEF TypeOK
<1> QED BY <1>3, <1>4, <1>5, <1>6, <1>7, <1>8, RequestStep

LEMMA ThereBorn ==
    ASSUME IInv
    PROVE  /\ There \subseteq Born /\ Born \subseteq Uids
           /\ Born # {} => 1 \in There /\ users[1].admin /\ First(1)
           /\ NoUsers <=> Born = {}
<1>1. There \subseteq Born /\ Born \subseteq Uids
  BY DEF There, Born
<1>2. Born # {} => users[1].st = "there" /\ users[1].admin
  BY DEF IInv, AdminPosture
<1>3. 1 \in Uids /\ \A u \in Uids : 1 <= u
  BY DEF Uids
<1> QED BY <1>1, <1>2, <1>3 DEF There, First, NoUsers

LEMMA CreateStep == ASSUME IInv, NEW r \in Reqs, Create(r) PROVE IInv'
<1>1. PICK v \in listed \cup {NoVault} : Create(r)!2!(v)
  BY DEF Create
<1> DEFINE q == [Idle EXCEPT !.op = "create", !.at = "hashing", !.vault = v]
<1>2. TypeOK /\ v \in Names
  BY <1>1 DEF IInv, TypeOK, Names
<1>3. /\ q \in Request /\ q.op = "create" /\ q.at = "hashing" /\ q.invite = 0 /\ ~q.first
      /\ q.shape = "none"
  BY <1>2, IdleTyped DEF Idle, Request, Names
<1>4. request' = [request EXCEPT ![r] = q]
  BY <1>1 DEF Begins
<1> HIDE DEF q
<1>5. PurposeOf(q) /\ StandsFor(q)' /\ Vacated(q)'
  BY <1>1, <1>3 DEF PurposeOf, StandsFor, Vacated
<1>6. UNCHANGED <<users, invites, disk, listed, reserved, hasty, events>>
  BY DEF Create, catalog, history
<1>7. Born # {}
  BY ThereBorn DEF Create
<1>8. listed' \subseteq Vaults /\ reserved' \subseteq Vaults /\ hasty' \subseteq Vaults
      /\ events' \in 0 .. MaxEvents
  BY <1>2, <1>6 DEF TypeOK
<1> QED BY <1>3, <1>4, <1>5, <1>6, <1>7, <1>8, RequestStep

LEMMA ResolvesStep == ASSUME IInv, NEW r \in Reqs, Resolves(r) PROVE IInv'
<1> DEFINE q == request[r]
<1>1. /\ q \in Request /\ TypeOK /\ PurposeOf(q) /\ q.at = "reading" /\ q.op = "redeem"
      /\ q.invite \in Minted /\ ~q.first
  BY DEF IInv, TypeOK, Purpose, PurposeOf, Resolves, Request
<1>2. UNCHANGED <<users, invites, disk, listed, reserved, hasty, events>>
  BY DEF Resolves, catalog, history
<1>3. Born # {} /\ ~NoUsers
  BY <1>1, ThereBorn DEF IInv, Unclaimed
<1>4. listed' \subseteq Vaults /\ reserved' \subseteq Vaults /\ hasty' \subseteq Vaults
      /\ events' \in 0 .. MaxEvents
  BY <1>1, <1>2 DEF TypeOK
<1>5. ASSUME NEW v \in Vaults, q.shape \in {"own", "pinned"},
             request' = [request EXCEPT ![r].vault = v, ![r].at = "creating"]
      PROVE  IInv'
  <2>1. PICK n \in Request : n = [q EXCEPT !.vault = v, !.at = "creating"]
    BY <1>1 DEF Request, Names
  <2>2. /\ n.op = "redeem" /\ n.at = "creating" /\ n.invite = q.invite
        /\ n.vault = v /\ ~n.first
    BY <1>1, <2>1 DEF Request
  <2>4. request' = [request EXCEPT ![r] = n]
    BY <1>1, <1>5, <2>1 DEF TypeOK, Request
  <2>3. PurposeOf(n) /\ StandsFor(n)' /\ Vacated(n)'
    BY <1>1, <2>2 DEF PurposeOf, StandsFor, Vacated
  <2> QED BY <1>2, <1>3, <1>4, <2>2, <2>3, <2>4, RequestStep
<1>6. ASSUME q.shape \in {"shared", "bare"}, request' = [request EXCEPT ![r] = Hashing(@)]
      PROVE  IInv'
  <2>0. Hashing(q) = [q EXCEPT !.at = "hashing", !.first = FALSE]
    BY <1>3 DEF Hashing, NoUsers
  <2>1. PICK n \in Request : n = Hashing(q)
    BY <1>1, <2>0 DEF Request
  <2>2. /\ n.op = "redeem" /\ n.at = "hashing" /\ n.invite = q.invite
        /\ n.shape = q.shape /\ ~n.first
    BY <1>1, <2>0, <2>1 DEF Request
  <2>4. request' = [request EXCEPT ![r] = n]
    BY <1>6, <2>1
  <2>3. PurposeOf(n) /\ StandsFor(n)' /\ Vacated(n)'
    BY <1>1, <1>6, <2>2 DEF PurposeOf, StandsFor, Vacated
  <2> QED BY <1>2, <1>3, <1>4, <2>2, <2>3, <2>4, RequestStep
<1>7. CASE Ends(r)
  BY <1>2, <1>4, <1>7, EndStep
<1> QED BY <1>1, <1>5, <1>6, <1>7 DEF Resolves, TypeOK

LEMMA RenameStep == ASSUME IInv, NEW r \in Reqs, Rename(r) PROVE IInv'
<1>1. PICK v \in listed, w \in Vaults \ (listed \cup reserved) : Rename(r)!2!(v, w)
  BY DEF Rename
<1> DEFINE q == [Idle EXCEPT !.op = "rename", !.at = "mechanics", !.vault = v, !.to = w]
<1>2. TypeOK /\ v \in Vaults /\ w \in Vaults \ {v}
  BY <1>1 DEF IInv, TypeOK, Names
<1>3. /\ q \in Request /\ q.op = "rename" /\ q.at = "mechanics" /\ q.invite = 0 /\ ~q.first
      /\ q.shape = "none" /\ q.vault = v /\ q.to = w
  BY <1>2, IdleTyped DEF Idle, Request, Names
<1>4. request' = [request EXCEPT ![r] = q]
  BY <1>1 DEF Begins
<1> HIDE DEF q
<1>5. PurposeOf(q) /\ StandsFor(q)' /\ Vacated(q)'
  BY <1>2, <1>3 DEF PurposeOf, StandsFor, Vacated
<1>6. /\ UNCHANGED <<users, invites, disk, listed, reserved, hasty>>
      /\ events < MaxEvents /\ events' = events + 1
  BY DEF Rename, catalog, Event
<1>7. Born # {}
  BY ThereBorn DEF Rename
<1>8. listed' \subseteq Vaults /\ reserved' \subseteq Vaults /\ hasty' \subseteq Vaults
      /\ events' \in 0 .. MaxEvents
  BY <1>2, <1>6 DEF TypeOK
<1> QED BY <1>3, <1>4, <1>5, <1>6, <1>7, <1>8, RequestStep

LEMMA RestartsStep == ASSUME IInv, NEW r \in Reqs, Restarts(r) PROVE IInv'
<1>1. TypeOK
  BY DEF IInv
<1> QED BY <1>1, EndStep DEF Restarts, history, TypeOK

LEMMA CommitFailsStep == ASSUME IInv, NEW r \in Reqs, CommitFails(r) PROVE IInv'
<1>1. TypeOK
  BY DEF IInv
<1> QED BY <1>1, EndStep DEF CommitFails, catalog, history, TypeOK

-----------------------------------------------------------------------------
\* Accounts keep who they are and what admins and strangers have.
UsersKept ==
    /\ users' \in [Uids -> User]
    /\ \A u \in Uids :
        /\ users'[u].st = users[u].st /\ users'[u].admin = users[u].admin
        /\ users'[u].invite = users[u].invite
        /\ users[u].vault = Nothing => users'[u] = users[u]

\* Invites keep the seats taken, and may be minted, revoked or renamed.
InvitesKept ==
    /\ invites' \in [Ids -> Invite]
    /\ \A i \in Ids :
        /\ invites'[i].used = invites[i].used /\ invites'[i].used <= invites'[i].max
        /\ invites'[i].revoked # -1 => invites'[i].used = invites'[i].revoked
        /\ invites[i].shape # "none" => invites'[i].shape # "none"
        /\ invites'[i].shape = "none" => invites'[i] = invites[i]

LEMMA UsersSame == ASSUME IInv, UNCHANGED users PROVE UsersKept
BY DEF IInv, TypeOK, UsersKept

LEMMA InvitesSame == ASSUME IInv, UNCHANGED invites PROVE InvitesKept
BY DEF IInv, TypeOK, SeatsHold, InvitesKept

LEMMA KeptParts ==
    ASSUME IInv, UsersKept, InvitesKept
    PROVE  /\ Born' = Born /\ There' = There /\ Minted \subseteq Minted'
           /\ InOrder' /\ Untouched' /\ SeatsHold' /\ AdminPosture'
<1>1. Born' = Born /\ There' = There
  BY DEF Born, There, UsersKept
<1>2. Minted \subseteq Minted'
  BY DEF Minted, InvitesKept
<1>3. InOrder'
  BY <1>1 DEF InOrder, IInv
<1>4. Untouched'
  BY DEF Untouched, IInv, UsersKept, InvitesKept, Nobody
<1>5. SeatsHold'
  <2>1. \A i \in Ids : {u \in Uids : users'[u].invite = i} = {u \in Uids : users[u].invite = i}
    BY DEF UsersKept
  <2> QED BY <2>1 DEF SeatsHold, IInv, InvitesKept
<1>6. AdminPosture'
  <2>1. Born # {} => 1 \in Uids
    BY DEF Born, Uids
  <2> QED BY <1>1, <2>1 DEF AdminPosture, IInv, UsersKept, There, Born
<1> QED BY <1>1, <1>2, <1>3, <1>4, <1>5, <1>6

\* A step on invites alone.
LEMMA InviteStep ==
    ASSUME IInv, InvitesKept, Born # {}, events' \in 0 .. MaxEvents,
           UNCHANGED <<users, disk, listed, reserved, request, hasty>>
    PROVE  IInv'
<1>1. UsersKept
  BY UsersSame
<1>2. TypeOK'
  BY DEF TypeOK, IInv, InvitesKept
<1>3. Unclaimed' /\ Purpose' /\ InOrder' /\ Untouched' /\ SeatsHold' /\ AdminPosture'
  BY <1>1, KeptParts DEF Unclaimed, IInv, Purpose, PurposeOf
<1>4. MadeThere' /\ Forgotten' /\ Assigned'
  BY <1>1, KeptParts DEF IInv, MadeThere, StandsFor, Forgotten, Vacated, Assigned
<1> QED BY <1>2, <1>3, <1>4 DEF IInv

LEMMA MintInviteStep == ASSUME IInv, MintInvite PROVE IInv'
<1>1. PICK i \in Ids \ Minted, shape \in {"own", "pinned", "shared", "bare"}, v \in Names,
           max \in {1, Seats} : MintInvite!2!(i, shape, v, max)
  BY DEF MintInvite
<1> DEFINE x == [NoInvite EXCEPT !.shape = shape, !.vault = v, !.max = max]
<1>2. /\ x \in Invite /\ x.used = 0 /\ x.revoked = -1 /\ x.shape = shape /\ x.max = max
  BY NoInviteTyped DEF Invite
<1>3. invites' = [invites EXCEPT ![i] = x]
  BY <1>1
<1> HIDE DEF x
<1>4. invites[i] = NoInvite
  BY DEF Minted, IInv, Untouched
<1>5. InvitesKept
  <2>1. /\ invites \in [Ids -> Invite] /\ i \in Ids
        /\ \A j \in Ids : /\ invites[j].used <= invites[j].max
                          /\ invites[j].revoked # -1 => invites[j].used = invites[j].revoked
    BY DEF IInv, TypeOK, SeatsHold
  <2>2. /\ invites' \in [Ids -> Invite] /\ invites'[i] = x
        /\ \A j \in Ids : j # i => invites'[j] = invites[j]
    BY <1>2, <1>3, <2>1
  <2>3. x.used <= x.max /\ x.used = invites[i].used
    BY <1>2, <1>4, NoInviteTyped
  <2>4. ASSUME NEW j \in Ids
        PROVE  /\ invites'[j].used = invites[j].used /\ invites'[j].used <= invites'[j].max
               /\ invites'[j].revoked # -1 => invites'[j].used = invites'[j].revoked
               /\ invites[j].shape # "none" => invites'[j].shape # "none"
               /\ invites'[j].shape = "none" => invites'[j] = invites[j]
    <3>1. CASE j = i
      BY <1>1, <1>2, <2>2, <2>3, <3>1
    <3>2. CASE j # i
      <4>1. invites'[j] = invites[j]
        BY <2>2, <3>2
      <4> QED BY <2>1, <4>1 DEF Invite
    <3> QED BY <3>1, <3>2
  <2> QED BY <2>2, <2>4 DEF InvitesKept
<1>6. Born # {}
  BY ThereBorn DEF MintInvite
<1>7. UNCHANGED <<users, disk, listed, reserved, request, hasty, events>>
  BY DEF MintInvite, catalog, history
<1> QED BY <1>5, <1>6, <1>7, InviteStep DEF IInv, TypeOK

LEMMA RevokeInviteStep == ASSUME IInv, NEW i \in Ids, RevokeInvite(i) PROVE IInv'
<1>1. /\ i \in Minted /\ Open(i) /\ events' = events + 1 /\ events < MaxEvents
      /\ invites' = [invites EXCEPT ![i] = Revoked(i)]
      /\ UNCHANGED <<users, disk, listed, reserved, request, hasty>>
  BY DEF RevokeInvite, catalog, Event
<1>2. InvitesKept
  BY <1>1, RevokedTyped DEF InvitesKept, IInv, TypeOK, SeatsHold, Minted
<1>3. Born # {}
  BY <1>1 DEF Minted, IInv, Unclaimed
<1> QED BY <1>1, <1>2, <1>3, InviteStep DEF IInv, TypeOK

-----------------------------------------------------------------------------
\* A step on one account alone: what it is newly assigned is there and not on the
\* move, or becomes hasty.
LEMMA UserStep ==
    ASSUME IInv, NEW u \in There, NEW x \in User, users' = [users EXCEPT ![u] = x],
           UNCHANGED <<invites, disk, listed, reserved, request>>,
           hasty \subseteq hasty', hasty' \subseteq Vaults, events' \in 0 .. MaxEvents,
           x.invite = users[u].invite, x.st \in {"there", "gone"},
           x.st = "gone" => ~First(u),
           x.st = "there" => /\ users[u].admin => x.admin
                             /\ x.admin => x.vault = Nothing
                             /\ \A v \in Vaults \ hasty' :
                                    x.vault[v] = Unassigned \/ x.vault[v] = users[u].vault[v]
                                    \/ (x.vault[v] = disk[v] /\ disk[v] # 0 /\ ~Moving(v))
    PROVE  IInv'
<1>1. /\ u \in Uids /\ users[u].st = "there" /\ users' \in [Uids -> User] /\ users'[u] = x
      /\ \A w \in Uids \ {u} : users'[w] = users[w]
  BY DEF There, IInv, TypeOK
<1>2. TypeOK'
  BY <1>1 DEF IInv, TypeOK
<1>3. Born' = Born /\ There' \subseteq There /\ \A w \in There \ {u} : w \in There'
  BY <1>1 DEF Born, There
<1>4. InOrder' /\ Unclaimed' /\ Purpose' /\ Untouched'
  BY <1>1, <1>3 DEF IInv, InOrder, Unclaimed, Purpose, PurposeOf, Minted, Untouched
<1>5. SeatsHold'
  <2>1. \A i \in Ids : {w \in Uids : users'[w].invite = i} = {w \in Uids : users[w].invite = i}
    BY <1>1
  <2> QED BY <2>1 DEF SeatsHold, IInv
<1>6. AdminPosture'
  <2>1. 1 \in There /\ First(1) /\ users[1].admin /\ 1 \in Uids
    BY <1>1, ThereBorn DEF There, Born
  <2>2. users'[1].st = "there" /\ users'[1].admin
    BY <1>1, <2>1 DEF There
  <2>3. ASSUME NEW w \in There', users'[w].admin PROVE users'[w].vault = Nothing
    BY <1>1, <1>3, <2>3 DEF AdminPosture, IInv, There
  <2> QED BY <2>2, <2>3 DEF AdminPosture
<1>7. MadeThere'
  BY DEF IInv, MadeThere, StandsFor
<1>8. ASSUME NEW r \in Reqs PROVE Vacated(request[r])'
  <2> SUFFICES ASSUME request[r].op = "delete", request[r].at = "mechanics",
                      NEW w \in There', users'[w].vault[request[r].vault] # Unassigned,
                      request[r].vault \notin hasty'
               PROVE  FALSE
    BY DEF Vacated
  <2>1. request[r].vault \in Vaults /\ Moving(request[r].vault)
    BY DEF IInv, Purpose, PurposeOf, Moving
  <2>2. users[w].vault[request[r].vault] = Unassigned
    BY <1>3 DEF IInv, Forgotten, Vacated
  <2>3. w = u
    BY <1>1, <1>3, <2>2 DEF There
  <2>4. x.st = "there"
    BY <1>1, <2>3 DEF There
  <2> QED BY <1>1, <2>1, <2>2, <2>3, <2>4
<1>9. Assigned'
  <2> SUFFICES ASSUME NEW w \in There', NEW v \in Vaults \ hasty',
                      users'[w].vault[v] # Unassigned
               PROVE  users'[w].vault[v] = disk[v] /\ disk[v] # 0
    BY DEF Assigned
  <2>1. CASE w # u
    BY <1>1, <1>3, <2>1 DEF IInv, Assigned, There
  <2>2. CASE w = u
    BY <1>1, <2>2 DEF IInv, Assigned, There
  <2> QED BY <2>1, <2>2
<1> QED BY <1>2, <1>4, <1>5, <1>6, <1>7, <1>8, <1>9 DEF IInv, Forgotten

LEMMA EditVaultsStep == ASSUME IInv, NEW u \in Uids, EditVaults(u) PROVE IInv'
<1>1. PICK vs \in SUBSET Vaults : EditVaults(u)!2!(vs)
  BY DEF EditVaults
<1> DEFINE old == users[u]
           new == {v \in vs : old.vault[v] = Unassigned}
           f == [v \in Vaults |-> IF v \notin vs THEN Unassigned
                                   ELSE IF v \in new THEN disk[v] ELSE old.vault[v]]
<1>2. /\ u \in There /\ ~old.admin /\ events < MaxEvents /\ events' = events + 1
      /\ UNCHANGED <<invites, disk, listed, reserved, request>> /\ TypeOK
      /\ new \subseteq listed /\ users' = [users EXCEPT ![u].vault = f] /\ Gives(new)
  BY <1>1 DEF EditVaults, catalog, Event, IInv
<1>3. old \in User /\ old.st = "there"
  BY <1>2 DEF TypeOK, There
<1>4. f \in [Vaults -> 0 .. MaxMade \cup {Unassigned}]
  BY <1>2, <1>3 DEF TypeOK, User
<1>5. PICK x \in User : x = [old EXCEPT !.vault = f]
  BY <1>3, <1>4 DEF User
<1>6. x.vault = f /\ x.st = "there" /\ x.admin = FALSE /\ x.invite = old.invite
  BY <1>2, <1>3, <1>5 DEF User
<1>7. users' = [users EXCEPT ![u] = x]
  BY <1>2, <1>5 DEF TypeOK
<1>8. /\ hasty \subseteq hasty' /\ hasty' \subseteq Vaults
      /\ \A v \in new \ hasty' : ~Moving(v) /\ disk[v] # 0
  BY <1>2 DEF Gives, TypeOK
<1>9. \A v \in Vaults \ hasty' :
        f[v] = Unassigned \/ f[v] = old.vault[v] \/ (f[v] = disk[v] /\ disk[v] # 0 /\ ~Moving(v))
  <2> SUFFICES ASSUME NEW v \in Vaults \ hasty'
               PROVE  f[v] = Unassigned \/ f[v] = old.vault[v]
                      \/ (f[v] = disk[v] /\ disk[v] # 0 /\ ~Moving(v))
    OBVIOUS
  <2>1. CASE v \notin vs
    BY <2>1
  <2>2. CASE v \in vs /\ v \notin new
    BY <2>2
  <2>3. CASE v \in new
    <3>1. f[v] = disk[v]
      BY <2>3
    <3> HIDE DEF f, new
    <3> QED BY <1>8, <2>3, <3>1
  <2> QED BY <2>1, <2>2, <2>3
<1> HIDE DEF f, new
<1>10. events' \in 0 .. MaxEvents
  BY <1>2 DEF TypeOK
<1>11. \A v \in Vaults \ hasty' :
         x.vault[v] = Unassigned \/ x.vault[v] = users[u].vault[v]
         \/ (x.vault[v] = disk[v] /\ disk[v] # 0 /\ ~Moving(v))
  BY <1>6, <1>9
<1>12. /\ x.invite = users[u].invite /\ x.st \in {"there", "gone"} /\ x.st # "gone"
       /\ users[u].admin = FALSE /\ x.admin = FALSE
  BY <1>2, <1>3, <1>6 DEF User
<1> QED BY <1>2, <1>7, <1>8, <1>10, <1>11, <1>12, UserStep

LEMMA PromoteStep == ASSUME IInv, NEW u \in Uids, Promote(u) PROVE IInv'
<1>1. /\ u \in There /\ users[u].vault = Nothing /\ events < MaxEvents /\ events' = events + 1
      /\ users' = [users EXCEPT ![u].admin = TRUE] /\ TypeOK /\ users[u] \in User
      /\ UNCHANGED <<invites, disk, listed, reserved, request, hasty>>
      /\ users[u].st = "there"
  BY DEF Promote, catalog, Event, IInv, TypeOK, There
<1>2. PICK x \in User : x = [users[u] EXCEPT !.admin = TRUE]
  BY <1>1 DEF User
<1>3. x.vault = Nothing /\ x.st = "there" /\ x.admin /\ x.invite = users[u].invite
  BY <1>1, <1>2 DEF User
<1>4. users' = [users EXCEPT ![u] = x] /\ events' \in 0 .. MaxEvents /\ hasty' \subseteq Vaults
  BY <1>1, <1>2 DEF TypeOK
<1>5. \A v \in Vaults \ hasty' : x.vault[v] = Unassigned
  BY <1>3 DEF Nothing
<1>6. x.st \in {"there", "gone"} /\ x.st # "gone" /\ u \in There
  BY <1>1, <1>3
<1> QED BY <1>1, <1>3, <1>4, <1>5, <1>6, UserStep

LEMMA DeleteUserStep == ASSUME IInv, NEW u \in Uids, DeleteUser(u) PROVE IInv'
<1>1. /\ u \in There /\ ~First(u) /\ events < MaxEvents /\ events' = events + 1
      /\ users' = [users EXCEPT ![u] = [Nobody EXCEPT !.st = "gone", !.invite = users[u].invite]]
      /\ UNCHANGED <<invites, disk, listed, reserved, request, hasty>> /\ TypeOK
      /\ users[u] \in User
  BY DEF DeleteUser, catalog, Event, IInv, TypeOK
<1>2. PICK x \in User : x = [Nobody EXCEPT !.st = "gone", !.invite = users[u].invite]
  BY <1>1, NobodyTyped DEF User
<1>3. x.st = "gone" /\ x.invite = users[u].invite
  BY <1>2, NobodyTyped DEF User
<1>4. users' = [users EXCEPT ![u] = x] /\ events' \in 0 .. MaxEvents /\ hasty' \subseteq Vaults
  BY <1>1, <1>2 DEF TypeOK
<1> QED BY <1>1, <1>3, <1>4, UserStep

-----------------------------------------------------------------------------
LEMMA CreatesStep == ASSUME IInv, NEW r \in Reqs, Creates(r) PROVE IInv'
<1> DEFINE q == request[r]
           v == q.vault
           n == CHOOSE n \in Unmade : TRUE
<1>1. /\ q \in Request /\ TypeOK /\ q.at = "creating" /\ PurposeOf(q)
      /\ UNCHANGED <<users, invites, reserved, hasty, events>>
  BY DEF IInv, TypeOK, Purpose, Creates, history
<1>2. /\ q.op = "redeem" /\ q.invite \in Minted /\ ~q.first /\ v \in Vaults
      /\ Born # {} /\ ~NoUsers
  BY <1>1, ThereBorn DEF PurposeOf, Minted, IInv, Unclaimed
<1>3. CASE Ends(r) /\ UNCHANGED <<disk, listed>>
  BY <1>1, <1>3, EndStep DEF TypeOK
<1>4. ASSUME disk[v] = 0, Unmade # {}, disk' = [disk EXCEPT ![v] = n],
             request' = [request EXCEPT ![r] = [Hashing(@) EXCEPT !.made = n]],
             listed' = listed \cup {v}
      PROVE  IInv'
  <2>1. n \in 0 .. MaxMade /\ n # 0
    BY <1>4 DEF Unmade
  <2> HIDE DEF n
  <2>2. Hashing(q) = [q EXCEPT !.at = "hashing", !.first = FALSE]
    BY <1>2 DEF Hashing, NoUsers
  <2>hashed. PICK y \in Request : y = Hashing(q)
    BY <1>1, <2>2 DEF Request
  <2>3. PICK x \in Request : x = [y EXCEPT !.made = n]
    BY <2>1, MadeTyped
  <2>fields. y.op = "redeem" /\ y.at = "hashing" /\ y.vault = v /\ ~y.first /\ y.invite = q.invite
    BY <1>1, <1>2, <2>hashed, <2>2 DEF Request
  <2>rewritten. request' = [request EXCEPT ![r] = x]
    BY <1>4, <2>hashed, <2>3
  <2>4. /\ x.op = "redeem" /\ x.at = "hashing" /\ x.vault = v /\ x.made = n /\ ~x.first
        /\ x.invite = q.invite /\ request' = [request EXCEPT ![r] = x]
    BY <2>fields, <2>rewritten, <2>1, <2>3, MadeTyped
  <2>5. /\ request' \in [Reqs -> Request] /\ request'[r] = x
        /\ \A s \in Reqs \ {r} : request'[s] = request[s]
    BY <1>1, <2>4, RequestTyped
  <2>6. disk' \in [Vaults -> 0 .. MaxMade] /\ disk'[v] = n
        /\ \A w \in Vaults \ {v} : disk'[w] = disk[w]
    BY <1>1, <1>2, <1>4, <2>1 DEF TypeOK
  <2>7. TypeOK'
    BY <1>1, <1>2, <1>4, <2>5, <2>6 DEF TypeOK
  <2>8. UsersKept /\ InvitesKept
    BY <1>1, UsersSame, InvitesSame
  <2>9. /\ Born' = Born /\ There' = There /\ Minted \subseteq Minted'
        /\ InOrder' /\ Untouched' /\ SeatsHold' /\ AdminPosture'
    BY <2>8, KeptParts
  <2>10. Unclaimed'
    BY <1>2, <2>9 DEF Unclaimed
  <2>11. Purpose'
    BY <1>1, <1>2, <2>4, <2>5, <2>9 DEF IInv, Purpose, PurposeOf
  <2>12. ASSUME NEW s \in Reqs PROVE StandsFor(request[s])'
    <3>1. CASE s = r
      BY <1>2, <2>1, <2>4, <2>5, <2>6, <3>1 DEF StandsFor
    <3>2. CASE s # r
      BY <1>1, <1>4, <2>5, <2>6, <3>2 DEF IInv, MadeThere, StandsFor
    <3> QED BY <3>1, <3>2
  <2>13. Forgotten'
    BY <1>1, <2>4, <2>5, <2>9 DEF IInv, Forgotten, Vacated
  <2>14. Assigned'
    BY <1>1, <1>4, <2>6, <2>9 DEF IInv, Assigned
  <2> QED BY <2>7, <2>9, <2>10, <2>11, <2>12, <2>13, <2>14 DEF IInv, MadeThere
<1> QED BY <1>3, <1>4 DEF Creates

-----------------------------------------------------------------------------
LEMMA CommitsStep == ASSUME IInv, NEW r \in Reqs, Commits(r) PROVE IInv'
<1> DEFINE q == request[r]
           vs == {q.vault} \ {NoVault}
           m == 1 + Cardinality(Born)
           f == [v \in Vaults |-> IF v \in vs THEN disk[v] ELSE Unassigned]
<1>1. /\ q \in Request /\ TypeOK /\ q.at = "hashing" /\ PurposeOf(q) /\ Born # Uids
      /\ invites' = TakesSeat(q) /\ (q.op = "redeem" => invites' # invites)
      /\ request' = [request EXCEPT ![r] = Idle]
      /\ UNCHANGED <<disk, listed, reserved, events>>
      /\ hasty' = hasty \cup {v \in vs : Moving(v) \/ disk[v] = 0}
  BY DEF IInv, TypeOK, Purpose, Commits, Ends, Gives, catalog
<1>2. /\ q.op \in {"claim", "redeem", "create"} /\ (q.op = "redeem" => q.invite \in Minted)
      /\ (q.op # "redeem" => q.invite = 0) /\ (q.op = "claim" => q.vault = NoVault)
      /\ (q.first => q.op = "claim") /\ q.invite \in Ids \cup {0} /\ vs \subseteq Vaults
  BY <1>1 DEF PurposeOf, Request, Names
<1>3. PICK n \in 0 .. MaxUsers : Born = 1 .. n
  BY DEF IInv, InOrder
<1>4. m = n + 1 /\ m \in Uids /\ m \notin Born /\ users[m] = Nobody
  <2>1. Cardinality(1 .. n) = n
    BY FS_Interval
  <2>2. m = n + 1
    BY <1>3, <2>1
  <2>3. n # MaxUsers
    BY <1>1, <1>3 DEF Uids
  <2>4. m \in Uids /\ m \notin Born
    BY <1>3, <2>2, <2>3 DEF Uids
  <2> QED BY <2>2, <2>4 DEF Born, IInv, Untouched
<1> HIDE DEF m, vs
<1>5. f \in [Vaults -> 0 .. MaxMade \cup {Unassigned}]
  BY <1>1 DEF TypeOK
<1>admin. PICK b \in BOOLEAN : b = (q.op = "claim" \/ q.first)
  OBVIOUS
<1>6. PICK x \in User : x = [st |-> "there", admin |-> b, vault |-> f, invite |-> q.invite]
  BY <1>2, <1>5 DEF User
<1>7. /\ x.st = "there" /\ x.vault = f /\ x.invite = q.invite
      /\ (x.admin <=> q.op = "claim" \/ q.first)
  BY <1>6, <1>admin
<1>8. users' = [users EXCEPT ![m] = x]
  BY <1>6, <1>admin DEF Commits, m, vs
<1>9. /\ users' \in [Uids -> User] /\ users'[m] = x
      /\ \A u \in Uids : u # m => users'[u] = users[u]
  BY <1>1, <1>4, <1>8 DEF TypeOK
<1>10. /\ \A v \in Vaults : v \in vs => f[v] = disk[v]
       /\ \A v \in Vaults : v \notin vs => f[v] = Unassigned
  OBVIOUS
<1> HIDE DEF f
<1>11. Born' = Born \cup {m} /\ There' = There \cup {m} /\ m \notin There
  BY <1>4, <1>7, <1>9, NobodyTyped DEF Born, There
<1>12. /\ request' \in [Reqs -> Request] /\ request'[r] = Idle
       /\ \A s \in Reqs \ {r} : request'[s] = request[s]
  BY <1>1, IdleTyped, RequestTyped
<1>13. /\ invites' \in [Ids -> Invite]
       /\ \A i \in Ids : /\ invites'[i].shape = invites[i].shape
                         /\ invites'[i].max = invites[i].max
                         /\ invites'[i].revoked = invites[i].revoked
                         /\ i # q.invite => invites'[i] = invites[i]
       /\ q.op # "redeem" => invites' = invites
       /\ q.op = "redeem" => /\ Open(q.invite) /\ q.invite \in Ids
                             /\ invites'[q.invite].used = invites[q.invite].used + 1
  BY <1>1, <1>2, TakesSeatTyped DEF Minted
<1>14. TypeOK'
  BY <1>1, <1>2, <1>9, <1>12, <1>13 DEF TypeOK
<1>15. InOrder'
  <2>1. Born' = 1 .. (n + 1) /\ n + 1 \in 0 .. MaxUsers
    BY <1>3, <1>4, <1>11 DEF Uids
  <2> QED BY <2>1 DEF InOrder
<1>16. Unclaimed'
  BY <1>11 DEF Unclaimed
<1>17. Untouched'
  <2>1. \A u \in Uids : users'[u].st = "none" => users'[u] = Nobody
    BY <1>7, <1>9 DEF IInv, Untouched
  <2>2. \A i \in Ids : invites'[i].shape = "none" => invites'[i] = NoInvite
    BY <1>2, <1>13 DEF IInv, Untouched, Minted
  <2> QED BY <2>1, <2>2 DEF Untouched
<1>18. Purpose'
  <2>1. Minted' = Minted
    BY <1>13 DEF Minted
  <2> QED BY <1>12, <2>1, IdleTyped DEF IInv, Purpose, PurposeOf
<1>19. SeatsHold'
  <2> SUFFICES ASSUME NEW i \in Ids
               PROVE  /\ Cardinality({u \in Uids : users'[u].invite = i}) = invites'[i].used
                      /\ invites'[i].used <= invites'[i].max
                      /\ invites'[i].revoked # -1 => invites'[i].used = invites'[i].revoked
    BY DEF SeatsHold
  <2> DEFINE S == {u \in Uids : users[u].invite = i}
             T == {u \in Uids : users'[u].invite = i}
  <2>1. /\ Cardinality(S) = invites[i].used /\ invites[i].used <= invites[i].max
        /\ invites[i].revoked # -1 => invites[i].used = invites[i].revoked
    BY DEF IInv, SeatsHold
  <2>2. m \notin S
    BY <1>4, NobodyTyped DEF Ids
  <2>3. CASE i = q.invite
    <3>1. T = S \cup {m}
      BY <1>4, <1>7, <1>9, <2>3
    <3>2. q.op = "redeem"
      BY <1>2, <2>3 DEF Ids
    <3>3. IsFiniteSet(S)
      <4>1. IsFiniteSet(Uids)
        BY FS_Interval DEF Uids
      <4> QED BY <4>1, FS_Subset
    <3>4. Cardinality(T) = Cardinality(S) + 1
      BY <2>2, <3>1, <3>3, FS_AddElement
    <3>5. /\ invites'[i].used = invites[i].used + 1 /\ invites[i].used < invites[i].max
          /\ invites'[i].max = invites[i].max /\ invites'[i].revoked = -1
      BY <1>13, <2>3, <3>2 DEF Open
    <3>6. invites[i].used \in Nat /\ invites[i].max \in Nat
      BY <1>1 DEF TypeOK, Invite
    <3> QED BY <2>1, <3>4, <3>5, <3>6
  <2>4. CASE i # q.invite
    <3>1. T = S
      BY <1>4, <1>7, <1>9, <2>2, <2>4
    <3> QED BY <1>13, <2>1, <2>4, <3>1
  <2> QED BY <2>3, <2>4
<1>20. AdminPosture'
  <2>1. users'[1].st = "there" /\ users'[1].admin
    <3>1. CASE Born = {}
      <4>1. m = 1
        BY <1>3, <1>4, <3>1
      <4>2. q.op = "claim"
        BY <1>2, <3>1 DEF IInv, Unclaimed
      <4> QED BY <1>7, <1>9, <4>1, <4>2
    <3>2. CASE Born # {}
      <4>1. 1 \in There /\ users[1].admin
        BY <3>2, ThereBorn
      <4> QED BY <1>9, <1>11, <4>1 DEF There
    <3> QED BY <3>1, <3>2
  <2>2. ASSUME NEW u \in There', users'[u].admin PROVE users'[u].vault = Nothing
    <3>1. CASE u = m
      <4>1. q.vault = NoVault
        BY <1>2, <1>7, <1>9, <2>2, <3>1
      <4>2. vs = {}
        BY <4>1 DEF vs
      <4>3. f = Nothing
        BY <4>2 DEF f, Nothing
      <4> QED BY <1>7, <1>9, <3>1, <4>3
    <3>2. CASE u # m
      BY <1>9, <1>11, <2>2, <3>2 DEF IInv, AdminPosture, There
    <3> QED BY <3>1, <3>2
  <2> QED BY <2>1, <2>2 DEF AdminPosture
<1>21. MadeThere'
  <2>1. hasty \subseteq hasty' /\ disk' = disk
    BY <1>1
  <2>2. ASSUME NEW s \in Reqs PROVE StandsFor(request[s])'
    BY <1>12, <2>1, IdleTyped DEF IInv, MadeThere, StandsFor
  <2> QED BY <2>2 DEF MadeThere
<1>22. Forgotten'
  <2> SUFFICES ASSUME NEW s \in Reqs, request'[s].op = "delete", request'[s].at = "mechanics",
                      NEW u \in There', users'[u].vault[request'[s].vault] # Unassigned
               PROVE  request'[s].vault \in hasty'
    BY DEF Forgotten, Vacated
  <2>1. s # r /\ request'[s] = request[s]
    BY <1>12, IdleTyped
  <2>2. request[s].vault \in Vaults /\ Moving(request[s].vault)
    BY <2>1 DEF IInv, Purpose, PurposeOf, Moving
  <2>3. CASE u = m
    BY <1>1, <1>7, <1>9, <1>10, <2>1, <2>2, <2>3
  <2>4. CASE u # m
    BY <1>1, <1>9, <1>11, <2>1, <2>4 DEF IInv, Forgotten, Vacated, There
  <2> QED BY <2>3, <2>4
<1>23. Assigned'
  <2> SUFFICES ASSUME NEW u \in There', NEW v \in Vaults \ hasty',
                      users'[u].vault[v] # Unassigned
               PROVE  users'[u].vault[v] = disk[v] /\ disk[v] # 0
    BY <1>1 DEF Assigned
  <2>1. CASE u = m
    BY <1>1, <1>7, <1>9, <1>10, <2>1
  <2>2. CASE u # m
    BY <1>1, <1>9, <1>11, <2>2 DEF IInv, Assigned, There
  <2> QED BY <2>1, <2>2
<1> QED BY <1>14, <1>15, <1>16, <1>17, <1>18, <1>19, <1>20, <1>21, <1>22, <1>23 DEF IInv

-----------------------------------------------------------------------------
\* What a step on the catalog, with the accounts and links it may rewrite, has to
\* show of the names it touches; the rest of the invariant follows.
LEMMA CatalogStep ==
    ASSUME IInv, UsersKept, InvitesKept, Born # {},
           disk' \in [Vaults -> 0 .. MaxMade], listed' \subseteq Vaults,
           reserved' \subseteq Vaults, hasty' \subseteq Vaults, events' \in 0 .. MaxEvents,
           request' \in [Reqs -> Request],
           \A s \in Reqs : \/ request'[s] = request[s]
                           \/ PurposeOf(request'[s]) /\ request'[s].at # "hashing",
           \A s \in Reqs : StandsFor(request[s]) /\ request'[s] = request[s]
                               => StandsFor(request[s])',
           \A s \in Reqs : Vacated(request[s])', Assigned'
    PROVE  IInv'
<1>1. /\ Born' = Born /\ There' = There /\ Minted \subseteq Minted'
      /\ InOrder' /\ Untouched' /\ SeatsHold' /\ AdminPosture'
  BY KeptParts
<1>2. TypeOK'
  BY DEF IInv, TypeOK, UsersKept, InvitesKept
<1>3. Unclaimed'
  BY <1>1 DEF Unclaimed
<1>4. Purpose'
  BY <1>1 DEF IInv, Purpose, PurposeOf
<1>5. ASSUME NEW s \in Reqs PROVE StandsFor(request[s])'
  <2>1. CASE request'[s] = request[s]
    BY <2>1 DEF IInv, MadeThere
  <2>2. CASE request'[s].at # "hashing"
    BY <2>2 DEF StandsFor
  <2> QED BY <2>1, <2>2
<1> QED BY <1>1, <1>2, <1>3, <1>4, <1>5 DEF IInv, MadeThere, Forgotten

LEMMA DeleteStep == ASSUME IInv, NEW r \in Reqs, Delete(r) PROVE IInv'
<1>1. PICK v \in listed : Delete(r)!2!(v)
  BY DEF Delete
<1>2. TypeOK /\ v \in Vaults /\ Born # {}
  BY <1>1, ThereBorn DEF Delete, IInv, TypeOK
<1>3. PICK q \in Request : q = [Idle EXCEPT !.op = "delete", !.at = "mechanics", !.vault = v]
  BY <1>2, IdleTyped DEF Idle, Request, Names
<1>4. /\ q.op = "delete" /\ q.at = "mechanics" /\ q.invite = 0 /\ ~q.first
      /\ q.shape = "none" /\ q.vault = v
  BY <1>3, IdleTyped DEF Idle, Request
<1>5. /\ request' = [request EXCEPT ![r] = q] /\ users' = Forgets(v)
      /\ invites' = [i \in Ids |-> IF invites[i].vault = v /\ Open(i) THEN Revoked(i)
                                                                     ELSE invites[i]]
      /\ UNCHANGED <<disk, listed, reserved>> /\ events < MaxEvents /\ events' = events + 1
      /\ hasty \subseteq hasty' /\ hasty' \subseteq Vaults
  BY <1>1, <1>2, <1>3 DEF Delete, Begins, catalog, Event, TypeOK
<1>6. /\ request' \in [Reqs -> Request] /\ request'[r] = q
      /\ \A s \in Reqs \ {r} : request'[s] = request[s]
  BY <1>2, <1>5, RequestTyped
<1>7. ASSUME NEW u \in Uids
      PROVE  /\ users'[u] \in User /\ users'[u].st = users[u].st
             /\ users'[u].admin = users[u].admin /\ users'[u].invite = users[u].invite
             /\ users[u].vault = Nothing => users'[u] = users[u]
             /\ users'[u].vault[v] = Unassigned
             /\ \A y \in Vaults : y # v => users'[u].vault[y] = users[u].vault[y]
  <2>1. users[u] \in User /\ users'[u] = [users[u] EXCEPT !.vault[v] = Unassigned]
    BY <1>2, <1>5 DEF TypeOK, Forgets
  <2> DEFINE g == [users[u].vault EXCEPT ![v] = Unassigned]
  <2>2. /\ g \in [Vaults -> 0 .. MaxMade \cup {Unassigned}] /\ g[v] = Unassigned
        /\ \A y \in Vaults : y # v => g[y] = users[u].vault[y]
        /\ users[u].vault = Nothing => g = Nothing
    BY <1>2, <2>1 DEF User, Nothing
  <2>3. users'[u] = [users[u] EXCEPT !.vault = g]
    BY <2>1
  <2> HIDE DEF g
  <2>4. /\ users'[u] \in User /\ users'[u].vault = g /\ users'[u].st = users[u].st
        /\ users'[u].admin = users[u].admin /\ users'[u].invite = users[u].invite
    BY <2>1, <2>2, <2>3 DEF User
  <2>5. g = users[u].vault => users'[u] = users[u]
    BY <2>1, <2>3 DEF User
  <2> QED BY <2>2, <2>4, <2>5
<1>8. UsersKept
  <2>1. users' \in [Uids -> User]
    BY <1>5, <1>7 DEF Forgets
  <2> QED BY <1>7, <2>1 DEF UsersKept
<1>9. InvitesKept
  <2>1. invites' \in [Ids -> Invite]
    BY <1>2, <1>5, RevokedTyped DEF TypeOK
  <2>2. ASSUME NEW i \in Ids
        PROVE  /\ invites'[i].used = invites[i].used /\ invites'[i].used <= invites'[i].max
               /\ invites'[i].revoked # -1 => invites'[i].used = invites'[i].revoked
               /\ invites[i].shape # "none" => invites'[i].shape # "none"
               /\ invites'[i].shape = "none" => invites'[i] = invites[i]
    <3>1. /\ invites[i].used <= invites[i].max /\ invites[i] \in Invite
          /\ invites[i].revoked # -1 => invites[i].used = invites[i].revoked
      BY <1>2 DEF IInv, SeatsHold, TypeOK
    <3>2. CASE invites[i].vault = v
      <4>1. invites[i].shape # "none"
        BY <1>2, <3>2, NoInviteTyped DEF IInv, Untouched
      <4> QED BY <1>2, <1>5, <3>1, <4>1, RevokedTyped DEF Invite
    <3>3. CASE invites[i].vault # v
      BY <1>5, <3>1, <3>3 DEF Invite
    <3> QED BY <3>2, <3>3
  <2> QED BY <2>1, <2>2 DEF InvitesKept
<1>10. There' = There
  BY <1>7 DEF There
<1>11. ASSUME NEW s \in Reqs PROVE Vacated(request[s])'
  BY <1>4, <1>5, <1>6, <1>7, <1>10 DEF IInv, Forgotten, Purpose, PurposeOf, Vacated, There
<1>12. Assigned'
  BY <1>5, <1>7, <1>10 DEF IInv, Assigned, There
<1>13. PurposeOf(q)
  BY <1>2, <1>4 DEF PurposeOf
<1>14. ASSUME NEW s \in Reqs, StandsFor(request[s]), request'[s] = request[s]
       PROVE  StandsFor(request[s])'
  BY <1>5, <1>14 DEF StandsFor
<1>15. /\ disk' \in [Vaults -> 0 .. MaxMade] /\ listed' \subseteq Vaults
       /\ reserved' \subseteq Vaults /\ hasty' \subseteq Vaults /\ events' \in 0 .. MaxEvents
  BY <1>2, <1>5 DEF TypeOK
<1> QED BY <1>2, <1>4, <1>6, <1>8, <1>9, <1>11, <1>12, <1>13, <1>14, <1>15, CatalogStep

LEMMA RemovesStep == ASSUME IInv, NEW r \in Reqs, Removes(r) PROVE IInv'
<1> DEFINE q == request[r]
           v == q.vault
<1>1. /\ q \in Request /\ TypeOK /\ q.op = "delete" /\ q.at = "mechanics" /\ PurposeOf(q)
      /\ Vacated(q) /\ UNCHANGED <<users, invites, listed, reserved, events>>
  BY DEF IInv, TypeOK, Purpose, Removes, Forgotten
<1>2. /\ v \in Vaults /\ Born # {}
  BY <1>1 DEF PurposeOf, IInv, Unclaimed
<1>3. CASE Ends(r) /\ UNCHANGED <<disk, hasty>>
  BY <1>1, <1>3, EndStep DEF TypeOK
<1>4. ASSUME disk' = [disk EXCEPT ![v] = 0], request' = [request EXCEPT ![r].at = "restarting"],
             hasty' = hasty \cup {y \in {v} : Held(y)}
      PROVE  IInv'
  <2>1. PICK x \in Request : x = [q EXCEPT !.at = "restarting"]
    BY <1>1 DEF Request
  <2>2. /\ x.at = "restarting" /\ x.op = "delete" /\ x.vault = v /\ x.invite = q.invite
        /\ x.shape = q.shape /\ x.first = q.first
    BY <1>1, <2>1 DEF Request
  <2>3. request' = [request EXCEPT ![r] = x]
    BY <1>1, <1>4, <2>1 DEF TypeOK
  <2>4. /\ request' \in [Reqs -> Request] /\ request'[r] = x
        /\ \A s \in Reqs \ {r} : request'[s] = request[s]
    BY <1>1, <2>3, RequestTyped
  <2>5. PurposeOf(x)
    BY <1>1, <1>2, <2>2 DEF PurposeOf
  <2>6. /\ disk' \in [Vaults -> 0 .. MaxMade] /\ disk'[v] = 0
        /\ \A y \in Vaults : y # v => disk'[y] = disk[y]
    BY <1>1, <1>2, <1>4 DEF TypeOK
  <2>7. UsersKept /\ InvitesKept /\ There' = There
    BY <1>1, UsersSame, InvitesSame DEF There
  <2>8. ASSUME NEW s \in Reqs, StandsFor(request[s]), request'[s] = request[s]
        PROVE  StandsFor(request[s])'
    <3> SUFFICES ASSUME request[s].at = "hashing", request[s].shape \in {"own", "pinned"},
                        request[s].vault \notin hasty'
                 PROVE  disk'[request[s].vault] = request[s].made
      BY <1>4, <2>8 DEF StandsFor
    <3>1. request[s].op = "redeem"
      BY DEF IInv, Purpose, PurposeOf
    <3>2. request[s].vault # v
      BY <1>4, <3>1 DEF Held
    <3> QED BY <1>4, <2>6, <2>8, <3>2 DEF StandsFor
  <2>9. ASSUME NEW s \in Reqs PROVE Vacated(request[s])'
    BY <1>1, <1>4, <2>2, <2>4, <2>7 DEF IInv, Forgotten, Vacated
  <2>10. Assigned'
    BY <1>1, <1>4, <2>6, <2>7 DEF IInv, Assigned, Vacated
  <2>11. listed' \subseteq Vaults /\ reserved' \subseteq Vaults /\ hasty' \subseteq Vaults
         /\ events' \in 0 .. MaxEvents
    BY <1>1, <1>2, <1>4 DEF TypeOK
  <2> QED BY <1>2, <2>2, <2>4, <2>5, <2>6, <2>7, <2>8, <2>9, <2>10, <2>11, CatalogStep
<1> QED BY <1>3, <1>4 DEF Removes

\* The names change places: who holds the old name holds the new one.
LEMMA RenamedKept ==
    ASSUME IInv, NEW v \in Vaults, NEW w \in Vaults \ {v}, users' = Renamed(v, w)
    PROVE  /\ UsersKept
           /\ \A u \in Uids :
                /\ users'[u].vault[v] = Unassigned
                /\ users'[u].vault[w] = IF users[u].vault[v] = Unassigned
                                        THEN users[u].vault[w] ELSE users[u].vault[v]
                /\ \A y \in Vaults \ {v, w} : users'[u].vault[y] = users[u].vault[y]
<1>1. ASSUME NEW u \in Uids
      PROVE  /\ users'[u] \in User /\ users'[u].st = users[u].st
             /\ users'[u].admin = users[u].admin /\ users'[u].invite = users[u].invite
             /\ users[u].vault = Nothing => users'[u] = users[u]
             /\ users'[u].vault[v] = Unassigned
             /\ users'[u].vault[w] = IF users[u].vault[v] = Unassigned
                                     THEN users[u].vault[w] ELSE users[u].vault[v]
             /\ \A y \in Vaults \ {v, w} : users'[u].vault[y] = users[u].vault[y]
  <2> DEFINE old == users[u].vault
             g == Moved(old, v, w, Unassigned)
  <2>1. users[u] \in User /\ old \in [Vaults -> 0 .. MaxMade \cup {Unassigned}]
    BY DEF IInv, TypeOK, User
  <2>2. CASE old[v] = Unassigned
    BY <2>1, <2>2 DEF Renamed
  <2>3. CASE old[v] # Unassigned
    <3>1. /\ g \in [Vaults -> 0 .. MaxMade \cup {Unassigned}] /\ g[v] = Unassigned
          /\ g[w] = old[v] /\ \A y \in Vaults \ {v, w} : g[y] = old[y]
      BY <2>1 DEF Moved
    <3>2. users'[u] = [users[u] EXCEPT !.vault = g]
      BY <2>3 DEF Renamed
    <3> HIDE DEF g
    <3>3. /\ users'[u] \in User /\ users'[u].vault = g /\ users'[u].st = users[u].st
          /\ users'[u].admin = users[u].admin /\ users'[u].invite = users[u].invite
      BY <2>1, <3>1, <3>2 DEF User
    <3>4. old # Nothing
      BY <2>3 DEF Nothing
    <3> QED BY <2>3, <3>1, <3>3, <3>4
  <2> QED BY <2>2, <2>3
<1>2. users' \in [Uids -> User]
  BY <1>1 DEF Renamed
<1> QED BY <1>1, <1>2 DEF UsersKept

LEMMA RenamesStep == ASSUME IInv, NEW r \in Reqs, Renames(r) PROVE IInv'
<1> DEFINE q == request[r]
           v == q.vault
           w == q.to
<1>1. /\ q \in Request /\ TypeOK /\ q.op = "rename" /\ q.at = "mechanics" /\ PurposeOf(q)
      /\ UNCHANGED <<listed, events>>
  BY DEF IInv, TypeOK, Purpose, Renames
<1>2. /\ v \in Vaults /\ w \in Vaults \ {v} /\ Born # {}
  BY <1>1 DEF PurposeOf, IInv, Unclaimed
<1>3. PICK x \in Request : x = [q EXCEPT !.at = "restarting"]
  BY <1>1 DEF Request
<1>4. /\ x.at = "restarting" /\ x.op = "rename" /\ x.vault = v /\ x.to = w
      /\ x.invite = q.invite /\ x.shape = q.shape /\ x.first = q.first
  BY <1>1, <1>3 DEF Request
<1>5. request' = [request EXCEPT ![r] = x]
  BY <1>1, <1>3 DEF TypeOK, Renames
<1>6. /\ request' \in [Reqs -> Request] /\ request'[r] = x
      /\ \A s \in Reqs \ {r} : request'[s] = request[s]
  BY <1>1, <1>5, RequestTyped
<1>7. PurposeOf(x)
  BY <1>1, <1>2, <1>4 DEF PurposeOf
<1>8. CASE UNCHANGED <<users, invites, disk, reserved, hasty>>
  <2>1. StandsFor(x)' /\ Vacated(x)'
    BY <1>4 DEF StandsFor, Vacated
  <2>2. listed' \subseteq Vaults /\ reserved' \subseteq Vaults /\ hasty' \subseteq Vaults
        /\ events' \in 0 .. MaxEvents
    BY <1>1, <1>8 DEF TypeOK
  <2> QED BY <1>1, <1>2, <1>5, <1>7, <1>8, <2>1, <2>2, RequestStep
<1>9. ASSUME disk[v] # 0, disk[w] = 0, disk' = Moved(disk, v, w, 0), hasty \subseteq hasty',
             hasty' \subseteq Vaults, v \in hasty' \/ ~Held(v), reserved' \subseteq Vaults,
             UsersKept, InvitesKept, \A s \in Reqs : Vacated(request[s])', Assigned'
      PROVE  IInv'
  <2>1. /\ disk' \in [Vaults -> 0 .. MaxMade]
        /\ \A y \in Vaults \ {v, w} : disk'[y] = disk[y]
    BY <1>1, <1>2, <1>9 DEF TypeOK, Moved
  <2>2. ASSUME NEW s \in Reqs, StandsFor(request[s]), request'[s] = request[s]
        PROVE  StandsFor(request[s])'
    <3> SUFFICES ASSUME request[s].at = "hashing", request[s].shape \in {"own", "pinned"},
                        request[s].vault \notin hasty'
                 PROVE  disk'[request[s].vault] = request[s].made
      BY <1>9, <2>2 DEF StandsFor
    <3>1. request[s].op = "redeem"
      BY DEF IInv, Purpose, PurposeOf
    <3>2. request[s].vault # v
      BY <1>9, <3>1 DEF Held
    <3>3. /\ request[s].made # 0 /\ request[s].vault \in Vaults
          /\ disk[request[s].vault] = request[s].made
      BY <1>9, <2>2 DEF StandsFor
    <3>4. request[s].vault # w
      BY <1>9, <3>3
    <3> QED BY <2>1, <3>2, <3>3, <3>4
  <2>3. listed' \subseteq Vaults /\ events' \in 0 .. MaxEvents
    BY <1>1 DEF TypeOK
  <2> QED BY <1>2, <1>4, <1>6, <1>7, <1>9, <2>1, <2>2, <2>3, CatalogStep
<1>10. ASSUME disk[v] # 0, disk[w] = 0, disk' = Moved(disk, v, w, 0), users' = Renamed(v, w),
              invites' = [i \in Ids |-> IF invites[i].vault = v
                                        THEN [invites[i] EXCEPT !.vault = w] ELSE invites[i]],
              reserved' = reserved \cup {v},
              hasty' = hasty \cup {y \in {v} : Held(y)}
                             \cup {y \in {w} : Moving(y) \/ v \in hasty}
       PROVE  IInv'
  <2>1. disk'[w] = disk[v] /\ \A y \in Vaults \ {v, w} : disk'[y] = disk[y]
    BY <1>1, <1>2, <1>10 DEF TypeOK, Moved
  <2>2. UsersKept /\ There' = There
    BY <1>2, <1>10, RenamedKept DEF UsersKept, There
  <2>3. InvitesKept
    <3>1. ASSUME NEW i \in Ids
          PROVE  /\ invites'[i] \in Invite /\ invites'[i].used = invites[i].used
                 /\ invites'[i].max = invites[i].max
                 /\ invites'[i].revoked = invites[i].revoked
                 /\ invites'[i].shape = invites[i].shape
                 /\ invites[i].shape = "none" => invites'[i] = invites[i]
      <4>1. invites[i] \in Invite
        BY <1>1 DEF TypeOK
      <4>2. CASE invites[i].vault = v
        <5>1. invites[i].shape # "none"
          BY <1>2, <4>2, NoInviteTyped DEF IInv, Untouched
        <5>2. invites'[i] = [invites[i] EXCEPT !.vault = w]
          BY <1>10, <4>2
        <5> QED BY <1>2, <4>1, <5>1, <5>2 DEF Invite, Names
      <4>3. CASE invites[i].vault # v
        BY <1>10, <4>1, <4>3
      <4> QED BY <4>2, <4>3
    <3>2. invites' \in [Ids -> Invite]
      BY <1>10, <3>1
    <3> QED BY <3>1, <3>2 DEF InvitesKept, IInv, SeatsHold
  <2>4. \A s \in Reqs : Vacated(request[s])'
    <3> SUFFICES ASSUME NEW s \in Reqs, request'[s].op = "delete",
                        request'[s].at = "mechanics", NEW u \in There,
                        users'[u].vault[request'[s].vault] # Unassigned
                 PROVE  request'[s].vault \in hasty'
      BY <2>2 DEF Vacated
    <3>1. request'[s] = request[s]
      BY <1>4, <1>6
    <3>2. /\ request[s].vault \in Vaults /\ Moving(request[s].vault)
          /\ users[u].vault[request[s].vault] # Unassigned => request[s].vault \in hasty
      BY <3>1 DEF IInv, Purpose, PurposeOf, Moving, Forgotten, Vacated
    <3>3. u \in Uids
      BY DEF There
    <3> QED BY <1>2, <1>10, <3>1, <3>2, <3>3, RenamedKept
  <2>5. Assigned'
    <3> SUFFICES ASSUME NEW u \in There, NEW y \in Vaults \ hasty',
                        users'[u].vault[y] # Unassigned
                 PROVE  users'[u].vault[y] = disk'[y] /\ disk'[y] # 0
      BY <2>2 DEF Assigned
    <3>1. u \in Uids
      BY DEF There
    <3>2. y # v
      BY <1>2, <1>10, <3>1, RenamedKept
    <3>3. CASE y = w
      <4>1. v \notin hasty /\ w \notin hasty
        BY <1>10, <3>3
      <4>2. CASE users[u].vault[v] = Unassigned
        <5>1. users[u].vault[w] # Unassigned
          BY <1>2, <1>10, <3>1, <3>3, <4>2, RenamedKept
        <5> QED BY <1>2, <1>10, <4>1, <5>1 DEF IInv, Assigned
      <4>3. CASE users[u].vault[v] # Unassigned
        <5>1. users'[u].vault[w] = users[u].vault[v]
          BY <1>2, <1>10, <3>1, <4>3, RenamedKept
        <5>2. users[u].vault[v] = disk[v] /\ disk[v] # 0
          BY <1>2, <4>1, <4>3 DEF IInv, Assigned
        <5> QED BY <2>1, <3>3, <5>1, <5>2
      <4> QED BY <4>2, <4>3
    <3>4. CASE y # w
      <4>1. users'[u].vault[y] = users[u].vault[y] /\ disk'[y] = disk[y] /\ y \notin hasty
        BY <1>2, <1>10, <2>1, <3>1, <3>2, <3>4, RenamedKept
      <4> QED BY <4>1 DEF IInv, Assigned
    <3> QED BY <3>3, <3>4
  <2>6. /\ hasty \subseteq hasty' /\ hasty' \subseteq Vaults /\ (v \in hasty' \/ ~Held(v))
        /\ reserved' \subseteq Vaults
    BY <1>1, <1>2, <1>10 DEF TypeOK
  <2> QED BY <1>9, <1>10, <2>2, <2>3, <2>4, <2>5, <2>6
<1>11. ASSUME disk[v] # 0, disk[w] = 0, disk' = Moved(disk, v, w, 0),
              hasty' = hasty \cup {v}, UNCHANGED <<users, invites, reserved>>
       PROVE  IInv'
  <2>1. \A y \in Vaults \ {v, w} : disk'[y] = disk[y]
    BY <1>1, <1>2, <1>11 DEF TypeOK, Moved
  <2>2. UsersKept /\ InvitesKept /\ There' = There
    BY <1>11, UsersSame, InvitesSame DEF There
  <2>3. \A s \in Reqs : Vacated(request[s])'
    BY <1>4, <1>6, <1>11, <2>2 DEF IInv, Forgotten, Vacated
  <2>4. Assigned'
    BY <1>11, <2>1, <2>2 DEF IInv, Assigned
  <2>5. /\ hasty \subseteq hasty' /\ hasty' \subseteq Vaults /\ v \in hasty'
        /\ reserved' \subseteq Vaults
    BY <1>1, <1>2, <1>11 DEF TypeOK
  <2> QED BY <1>9, <1>11, <2>2, <2>3, <2>4, <2>5
<1> QED BY <1>8, <1>10, <1>11 DEF Renames

LEMMA ReservationEndsStep == ASSUME IInv, ReservationEnds PROVE IInv'
<1>1. /\ UNCHANGED <<users, invites, disk, listed, request, hasty>> /\ TypeOK
      /\ reserved' \subseteq reserved /\ events < MaxEvents /\ events' = events + 1
  BY DEF ReservationEnds, Event, IInv
<1>2. TypeOK'
  BY <1>1 DEF TypeOK
<1>3. /\ InOrder' /\ Unclaimed' /\ Untouched' /\ Purpose' /\ SeatsHold' /\ AdminPosture'
      /\ MadeThere' /\ Forgotten' /\ Assigned'
  BY <1>1 DEF IInv, InOrder, Unclaimed, Untouched, Purpose, PurposeOf, SeatsHold, AdminPosture,
              MadeThere, StandsFor, Forgotten, Vacated, Assigned, Born, There, Minted
<1> QED BY <1>2, <1>3 DEF IInv

LEMMA HubDiesStep == ASSUME IInv, HubDies PROVE IInv'
<1>1. /\ TypeOK /\ UNCHANGED <<users, invites, reserved>>
      /\ request' = [r \in Reqs |-> Idle] /\ listed' \subseteq Vaults
      /\ events < MaxEvents /\ events' = events + 1
  BY DEF HubDies, Event, IInv
<1>2. request' \in [Reqs -> Request] /\ \A s \in Reqs : request'[s] = Idle
  BY <1>1, IdleTyped
<1>3. UsersKept /\ InvitesKept /\ Born' = Born /\ There' = There
  BY <1>1, UsersSame, InvitesSame DEF Born, There
<1>4. disk' \in [Vaults -> 0 .. MaxMade] /\ hasty' \subseteq Vaults /\ Assigned'
  <2>1. CASE UNCHANGED <<disk, hasty>>
    BY <1>1, <1>3, <2>1 DEF TypeOK, IInv, Assigned
  <2>2. ASSUME NEW r \in Reqs, request[r].at = "mechanics", request[r].op = "delete",
               disk' = [disk EXCEPT ![request[r].vault] = 0], UNCHANGED hasty
        PROVE  disk' \in [Vaults -> 0 .. MaxMade] /\ hasty' \subseteq Vaults /\ Assigned'
    <3>1. /\ request[r].vault \in Vaults
          /\ \A u \in There : users[u].vault[request[r].vault] # Unassigned
                                => request[r].vault \in hasty
      BY <2>2 DEF IInv, Purpose, PurposeOf, Forgotten, Vacated
    <3>2. /\ disk' \in [Vaults -> 0 .. MaxMade]
          /\ \A y \in Vaults : y # request[r].vault => disk'[y] = disk[y]
      BY <1>1, <2>2, <3>1 DEF TypeOK
    <3>3. Assigned'
      BY <1>1, <1>3, <2>2, <3>1, <3>2 DEF IInv, Assigned
    <3> QED BY <1>1, <2>2, <3>2, <3>3 DEF TypeOK
  <2>3. ASSUME NEW r \in Reqs, request[r].at = "mechanics", request[r].op = "rename",
               disk[request[r].to] = 0, hasty' = hasty \cup {request[r].vault},
               disk' = Moved(disk, request[r].vault, request[r].to, 0)
        PROVE  disk' \in [Vaults -> 0 .. MaxMade] /\ hasty' \subseteq Vaults /\ Assigned'
    <3>1. request[r].vault \in Vaults /\ request[r].to \in Vaults \ {request[r].vault}
      BY <2>3 DEF IInv, Purpose, PurposeOf
    <3>2. /\ disk' \in [Vaults -> 0 .. MaxMade]
          /\ \A y \in Vaults \ {request[r].vault, request[r].to} : disk'[y] = disk[y]
      BY <1>1, <2>3, <3>1 DEF TypeOK, Moved
    <3>3. Assigned'
      BY <1>1, <1>3, <2>3, <3>1, <3>2 DEF IInv, Assigned
    <3> QED BY <1>1, <2>3, <3>1, <3>2, <3>3 DEF TypeOK
  <2> QED BY <2>1, <2>2, <2>3 DEF HubDies
<1>5. TypeOK'
  BY <1>1, <1>2, <1>4 DEF TypeOK
<1>6. /\ Minted \subseteq Minted' /\ InOrder' /\ Untouched' /\ SeatsHold' /\ AdminPosture'
  BY <1>3, KeptParts
<1>7. Unclaimed'
  BY <1>1, <1>2, <1>3, IdleTyped DEF IInv, Unclaimed
<1>8. Purpose'
  BY <1>2, IdleTyped DEF Purpose, PurposeOf
<1>9. MadeThere' /\ Forgotten'
  BY <1>2, IdleTyped DEF MadeThere, StandsFor, Forgotten, Vacated
<1> QED BY <1>4, <1>5, <1>6, <1>7, <1>8, <1>9 DEF IInv

-----------------------------------------------------------------------------
LEMMA InitStep == Init => IInv
<1> SUFFICES ASSUME Init PROVE IInv
  OBVIOUS
<1>1. PICK first \in Vaults : disk = [v \in Vaults |-> IF v = first THEN 1 ELSE 0]
  BY DEF Init
<1>2. /\ \A u \in Uids : users[u] = Nobody
      /\ \A i \in Ids : invites[i] = NoInvite
      /\ \A r \in Reqs : request[r] = Idle
  BY DEF Init
<1>3. disk \in [Vaults -> 0 .. MaxMade]
  <2>1. 1 \in 0 .. MaxMade /\ 0 \in 0 .. MaxMade
    OBVIOUS
  <2> QED BY <1>1, <2>1
<1>4. TypeOK
  BY <1>2, <1>3, IdleTyped, NobodyTyped, NoInviteTyped DEF Init, TypeOK
<1>5. Born = {} /\ There = {} /\ Minted = {}
  BY <1>2, NobodyTyped, NoInviteTyped DEF Born, There, Minted
<1>6. InOrder
  <2>1. Born = 1 .. 0 /\ 0 \in 0 .. MaxUsers
    BY <1>5
  <2> QED BY <2>1 DEF InOrder
<1>7. Unclaimed /\ Untouched /\ Purpose
  BY <1>2, <1>5, IdleTyped, NoInviteTyped DEF Unclaimed, Untouched, Purpose
<1>8. SeatsHold
  <2>1. \A i \in Ids : {u \in Uids : users[u].invite = i} = {}
    BY <1>2, NobodyTyped DEF Ids
  <2>2. Cardinality({}) = 0
    BY FS_EmptySet
  <2>3. \A i \in Ids : Cardinality({u \in Uids : users[u].invite = i}) = 0
    BY <2>1, <2>2
  <2> QED BY <1>2, <2>3, NoInviteTyped DEF SeatsHold
<1>9. AdminPosture
  BY <1>5 DEF AdminPosture
<1>10. MadeThere /\ Forgotten /\ Assigned
  BY <1>2, <1>5, IdleTyped DEF MadeThere, Forgotten, Assigned
<1> QED BY <1>4, <1>6, <1>7, <1>8, <1>9, <1>10 DEF IInv

LEMMA NextStep == IInv /\ [Next]_vars => IInv'
<1> SUFFICES ASSUME IInv, [Next]_vars PROVE IInv'
  OBVIOUS
<1>1. ASSUME NEW r \in Reqs, Redemption(r) PROVE IInv'
  BY <1>1, RedeemStep, ResolvesStep, CreatesStep DEF Redemption
<1>2. ASSUME NEW r \in Reqs, Account(r) PROVE IInv'
  BY <1>2, ClaimStep, CreateStep, CommitsStep, CommitFailsStep DEF Account
<1>3. ASSUME NEW r \in Reqs, VaultOp(r) PROVE IInv'
  BY <1>3, DeleteStep, RemovesStep, RenameStep, RenamesStep, RestartsStep DEF VaultOp
<1>4. ASSUME NEW u \in Uids, EditVaults(u) \/ Promote(u) \/ DeleteUser(u) PROVE IInv'
  BY <1>4, EditVaultsStep, PromoteStep, DeleteUserStep
<1>5. ASSUME NEW i \in Ids, RevokeInvite(i) PROVE IInv'
  BY <1>5, RevokeInviteStep
<1>6. CASE MintInvite \/ ReservationEnds \/ HubDies
  BY <1>6, MintInviteStep, ReservationEndsStep, HubDiesStep
<1>7. CASE UNCHANGED vars
  <2>1. UNCHANGED <<users, invites, disk, listed, reserved, request, hasty, events>>
    BY <1>7 DEF vars, catalog, history
  <2> QED BY <2>1 DEF IInv, TypeOK, InOrder, Unclaimed, Untouched, Purpose, PurposeOf, SeatsHold,
                      AdminPosture, MadeThere, StandsFor, Forgotten, Vacated, Assigned, Born,
                      There, Minted
<1> QED BY <1>1, <1>2, <1>3, <1>4, <1>5, <1>6, <1>7 DEF Next

LEMMA Invariance == Spec => []IInv
<1> QED BY InitStep, NextStep, PTL DEF Spec

-----------------------------------------------------------------------------
\* Every variable keeps its type, in hubs of any size.
THEOREM TypeCorrect == Spec => []TypeOK
<1>1. IInv => TypeOK
  BY DEF IInv
<1> QED BY <1>1, Invariance, PTL

\* recordInviteRedemption inside createUser's transaction (invites.ts, users.ts): an
\* invite makes exactly as many accounts as it has seats taken, never more than it
\* offers and none after its revocation, however many redemptions overlap.
THEOREM SeatsAreNotOversold == Spec => []SeatsHold
<1>1. IInv => SeatsHold
  BY DEF IInv
<1> QED BY <1>1, Invariance, PTL

\* The first account of a claimed hub stays and stays an admin, and no admin has a
\* vault assigned (users.ts, api-users.ts), whatever claims raced for it.
THEOREM FirstAdminStays == Spec => []AdminPosture
<1>1. IInv => AdminPosture
  BY DEF IInv
<1> QED BY <1>1, Invariance, PTL

\* removeVaultAssignments and renameVaultAssignments (users.ts) against the vault's
\* own command line: outside the windows hasty records, a name assigned to an account
\* stands for the vault that was assigned.
THEOREM AssignmentsStandForTheirVault == Spec => []AssignmentsFollow
<1>1. IInv => AssignmentsFollow
  BY DEF IInv, Assigned, AssignmentsFollow
<1> QED BY <1>1, Invariance, PTL

\* Only the commit of a creation makes an account of a number nobody has.
LEMMA BirthsByCommit ==
    ASSUME IInv, Next, NEW u \in Uids \ Born, users'[u].st # "none"
    PROVE  \E r \in Reqs : Commits(r)
<1>1. users \in [Uids -> User] /\ users[u].st = "none" /\ users' # users /\ u \notin There
  BY DEF IInv, TypeOK, Born, There
<1>2. ASSUME NEW r \in Reqs, Redemption(r) PROVE FALSE
  BY <1>1, <1>2 DEF Redemption, Redeem, Resolves, Creates
<1>3. ASSUME NEW r \in Reqs, Account(r) PROVE Commits(r)
  BY <1>1, <1>3 DEF Account, Claim, Create, CommitFails
<1>4. ASSUME NEW v \in Vaults, users' = Forgets(v) PROVE FALSE
  <2>1. users'[u] = [users[u] EXCEPT !.vault[v] = Unassigned]
    BY <1>4 DEF Forgets
  <2> QED BY <1>1, <2>1 DEF User
<1>5. ASSUME NEW v \in Vaults, NEW w \in Vaults \ {v}, users' = Renamed(v, w) PROVE FALSE
  BY <1>1, <1>5, RenamedKept DEF UsersKept
<1>6. ASSUME NEW r \in Reqs, VaultOp(r) PROVE FALSE
  <2>1. CASE Delete(r)
    <3>1. PICK v \in listed : Delete(r)!2!(v)
      BY <2>1 DEF Delete
    <3> QED BY <1>4, <3>1 DEF IInv, TypeOK
  <2>2. CASE Renames(r)
    <3>1. request[r].vault \in Vaults /\ request[r].to \in Vaults \ {request[r].vault}
      BY <2>2 DEF IInv, Purpose, PurposeOf, Renames
    <3> QED BY <1>1, <1>5, <2>2, <3>1 DEF Renames
  <2>3. CASE Removes(r) \/ Rename(r) \/ Restarts(r)
    BY <1>1, <2>3 DEF Removes, Rename, Restarts
  <2> QED BY <1>6, <2>1, <2>2, <2>3 DEF VaultOp
<1>7. ASSUME NEW w \in Uids, EditVaults(w) \/ Promote(w) \/ DeleteUser(w) PROVE FALSE
  <2>1. /\ w \in There
        /\ \E x : users' = [users EXCEPT ![w] = x]
    BY <1>1, <1>7 DEF EditVaults, Promote, DeleteUser
  <2> QED BY <1>1, <2>1
<1>8. ASSUME NEW i \in Ids, RevokeInvite(i) PROVE FALSE
  BY <1>1, <1>8 DEF RevokeInvite
<1>9. CASE MintInvite \/ ReservationEnds \/ HubDies
  BY <1>1, <1>9 DEF MintInvite, ReservationEnds, HubDies
<1> QED BY <1>2, <1>3, <1>6, <1>7, <1>8, <1>9 DEF Next

LEMMA OwnVaultStep ==
    ASSUME IInv, [Next]_vars, NEW r \in Reqs, NEW u \in Uids \ Born,
           request[r].shape \in {"own", "pinned"}, request'[r] = Idle, users'[u].st # "none"
    PROVE  /\ request[r].made # 0
           /\ \A v \in Vaults \ hasty' : users'[u].vault[v] \in {Unassigned, request[r].made}
<1>1. PICK s \in Reqs : Commits(s)
  <2>1. users' # users
    BY DEF Born
  <2>2. Next
    BY <2>1 DEF vars
  <2> QED BY <2>2, BirthsByCommit
<1> DEFINE q == request[r]
           m == 1 + Cardinality(Born)
           vs == {request[s].vault} \ {NoVault}
           f == [v \in Vaults |-> IF v \in vs THEN disk[v] ELSE Unassigned]
<1>2. /\ request' = [request EXCEPT ![s] = Idle] /\ request[s].at = "hashing"
      /\ hasty' = hasty \cup {v \in vs : Moving(v) \/ disk[v] = 0} /\ TypeOK
      /\ users' = [users EXCEPT ![m] =
                 [ st |-> "there", admin |-> (request[s].op = "claim" \/ request[s].first),
                   vault |-> f, invite |-> request[s].invite ]]
  BY <1>1 DEF Commits, Ends, Gives, IInv
<1>3. r = s
  BY <1>2, IdleTyped DEF TypeOK
<1>4. StandsFor(q) /\ q.at = "hashing"
  BY <1>2, <1>3 DEF IInv, MadeThere
<1>5. q.made # 0 /\ q.vault \in Vaults /\ (q.vault \notin hasty => disk[q.vault] = q.made)
  BY <1>4 DEF StandsFor
<1> HIDE DEF m, f
<1>6. u = m
  BY <1>2 DEF TypeOK, Born
<1>7. users'[u].vault = f
  BY <1>2, <1>6 DEF TypeOK
<1>8. ASSUME NEW v \in Vaults \ hasty' PROVE f[v] \in {Unassigned, q.made}
  BY <1>2, <1>3, <1>5 DEF f
<1> QED BY <1>5, <1>7, <1>8

\* provisionInviteVault and the commit of the redemption (account-setup.ts): the
\* account of an invitee starts with the vault its own redemption made.
THEOREM InviteesGetTheirOwnVault == Spec => OwnVaultOnly
<1>1. IInv /\ [Next]_vars =>
        [\A r \in Reqs, u \in Uids \ Born :
           (request[r].shape \in {"own", "pinned"} /\ request'[r] = Idle /\ users'[u].st # "none")
             => /\ request[r].made # 0
                /\ \A v \in Vaults \ hasty' :
                     users'[u].vault[v] \in {Unassigned, request[r].made}]_vars
  BY OwnVaultStep
<1> QED BY <1>1, Invariance, PTL DEF Spec, OwnVaultOnly
=============================================================================
