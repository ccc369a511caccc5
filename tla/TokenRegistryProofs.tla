------------------------- MODULE TokenRegistryProofs -------------------------
(***************************************************************************)
(* Theorems about TokenRegistry for any number of users, vaults, codes,    *)
(* rows and concurrent requests.                                           *)
(*                                                                         *)
(* The inductive invariant relates the three places a rotation lives in:   *)
(* the row a suspended handler captured, the family's live rows, and the   *)
(* successor links.  Every action but four only lets rows fade and         *)
(* requests end (a Quiet step); the four are Redeem, RotateFrom and the    *)
(* two commits.                                                            *)
(***************************************************************************)
EXTENDS TokenRegistry, TLAPS

USE RegistryAssumption

Allocated(j) == token[j].status # "none"

\* A free row is blank; the others belong to a family whose root is a row, and
\* descend from a code that was redeemed.
RowsOK == \A j \in Jtis :
    /\ ~Allocated(j) => token[j] = NoRow
    /\ Allocated(j) => /\ token[j].family \in Jtis
                       /\ Allocated(token[j].family)
    /\ token[j].code # NoCode => code[token[j].code].status = "spent"

\* A handler rotates a row that exists; a handler granting a code is the only
\* one that holds it, and no row descends from it yet.
RequestsOK == \A r \in Requests :
    /\ request[r].op = "rotate" => request[r].row \in Jtis /\ Allocated(request[r].row)
    /\ request[r].op = "grant" =>
        /\ request[r].code \in Codes /\ code[request[r].code].status = "spent"
        /\ \A j \in Jtis : token[j].code # request[r].code
        /\ \A s \in Requests \ {r} : request[s].op = "grant" => request[s].code # request[r].code

\* Without overlap a handler in flight holds the family's only live row.
RotatesTip == \A r \in Requests :
    request[r].op = "rotate" /\ token[request[r].row].family \notin overlapped =>
        /\ \A s \in Rotating(token[request[r].row].family) : s = r
        /\ \A j \in Live(token[request[r].row].family) : j = request[r].row

\* The new name of a rename in progress is not a reserved one.
RenameOK == vaultOp.op = "rename" =>
    /\ vaultOp.vault \in Vaults /\ vaultOp.to \in Vaults
    /\ vaultOp.to \notin reserved /\ vaultOp.to # vaultOp.vault

Lineage == /\ RowsOK /\ RequestsOK /\ OneFamilyPerCode
           /\ ForkNeedsOverlap /\ RotatesTip /\ TipHasParent

IInv == /\ TypeOK /\ Lineage
        /\ RenameOK /\ ReservedUnnamed /\ RowsHaveUsers

-----------------------------------------------------------------------------
LEMMA FreeCode == ASSUME NEW c \in FreeCodes
                  PROVE  c \in Codes /\ code[c].status = "none"
BY DEF FreeCodes, Least

LEMMA FreeJti == ASSUME NEW n \in FreeJtis
                 PROVE  n \in Jtis /\ token[n].status = "none"
BY DEF FreeJtis, Least

LEMMA RowFields ==
    ASSUME NEW x \in RefreshTokenRow
    PROVE  /\ x.status \in {"none", "live", "lapsed", "recent", "old"}
           /\ x.family \in Jtis \cup {NoJti} /\ x.next \in Jtis \cup {NoJti}
           /\ x.user \in Users \cup {NoUser} /\ x.vault \in Vaults \cup {NoVault}
           /\ x.code \in Codes \cup {NoCode}
BY DEF RefreshTokenRow

LEMMA RequestFields ==
    ASSUME NEW x \in TokenRequest
    PROVE  /\ x.op \in {"idle", "grant", "rotate"}
           /\ x.row \in Jtis \cup {NoJti} /\ x.code \in Codes \cup {NoCode}
           /\ x.user \in Users \cup {NoUser} /\ x.vault \in Vaults \cup {NoVault}
BY DEF TokenRequest

\* The row updates of the actions keep a row a row.
LEMMA RowTyped ==
    \A x \in RefreshTokenRow, s \in {"none", "live", "lapsed", "recent", "old"} :
        /\ [x EXCEPT !.status = s] \in RefreshTokenRow
        /\ \A v \in Vaults : [x EXCEPT !.vault = v] \in RefreshTokenRow
        /\ [x EXCEPT !.user = NoUser] \in RefreshTokenRow
BY DEF RefreshTokenRow

LEMMA StatusSet ==
    \A x \in RefreshTokenRow, s \in {"none", "live", "lapsed", "recent", "old"} :
        /\ [x EXCEPT !.status = s].status = s
        /\ [x EXCEPT !.status = s].family = x.family
        /\ [x EXCEPT !.status = s].user = x.user
        /\ [x EXCEPT !.status = s].vault = x.vault
        /\ [x EXCEPT !.status = s].next = x.next
        /\ [x EXCEPT !.status = s].code = x.code
BY DEF RefreshTokenRow

LEMMA LinkSet ==
    \A x \in RefreshTokenRow, n \in Jtis :
        /\ [x EXCEPT !.status = "recent", !.next = n] \in RefreshTokenRow
        /\ [x EXCEPT !.status = "recent", !.next = n].status = "recent"
        /\ [x EXCEPT !.status = "recent", !.next = n].next = n
        /\ [x EXCEPT !.status = "recent", !.next = n].family = x.family
        /\ [x EXCEPT !.status = "recent", !.next = n].code = x.code
        /\ [x EXCEPT !.status = "recent", !.next = n].user = x.user
        /\ [x EXCEPT !.status = "recent", !.next = n].vault = x.vault
BY DEF RefreshTokenRow

LEMMA BlankTyped == NoRow \in RefreshTokenRow /\ Idle \in TokenRequest /\ NoOp \in VaultOp
BY DEF NoRow, Idle, NoOp, RefreshTokenRow, TokenRequest, VaultOp

\* Revoking touches the status of unrevoked rows only.
LEMMA RevokedRows ==
    ASSUME TypeOK, NEW S, NEW j \in Jtis
    PROVE  /\ Revoked(S)[j] \in RefreshTokenRow
           /\ Revoked(S)[j].family = token[j].family /\ Revoked(S)[j].user = token[j].user
           /\ Revoked(S)[j].vault = token[j].vault /\ Revoked(S)[j].next = token[j].next
           /\ Revoked(S)[j].code = token[j].code
           /\ Revoked(S)[j].status =
                IF j \in S /\ Unrevoked(j) THEN "recent" ELSE token[j].status
<1>1. token[j] \in RefreshTokenRow
  BY DEF TypeOK
<1>2. CASE j \in S /\ Unrevoked(j)
  <2> DEFINE x == [token[j] EXCEPT !.status = "recent"]
  <2>1. Revoked(S)[j] = x
    BY <1>2 DEF Revoked
  <2>2. x \in RefreshTokenRow
    BY <1>1, RowTyped
  <2>3. /\ x.status = "recent" /\ x.family = token[j].family /\ x.user = token[j].user
        /\ x.vault = token[j].vault /\ x.next = token[j].next /\ x.code = token[j].code
    BY <1>1, StatusSet
  <2> HIDE DEF x
  <2> QED BY <1>2, <2>1, <2>2, <2>3
<1>3. CASE ~(j \in S /\ Unrevoked(j))
  <2>1. Revoked(S)[j] = token[j]
    BY <1>3 DEF Revoked
  <2> QED BY <1>1, <1>3, <2>1
<1> QED BY <1>2, <1>3

\* A function that gives every row a typed row with its family types the table.
LEMMA RevokedTyped == ASSUME TypeOK, NEW S
                      PROVE  /\ Revoked(S) \in [Jtis -> RefreshTokenRow]
                             /\ \A j \in Jtis : Revoked(S)[j].status # "none"
                                    => Revoked(S)[j].family \in Jtis
<1>1. Revoked(S) \in [Jtis -> RefreshTokenRow]
  <2>1. \A j \in Jtis : Revoked(S)[j] \in RefreshTokenRow
    BY RevokedRows
  <2> QED BY <2>1 DEF Revoked
<1>2. ASSUME NEW j \in Jtis, Revoked(S)[j].status # "none"
      PROVE  Revoked(S)[j].family \in Jtis
  <2>1. token[j].status # "none"
    BY <1>2, RevokedRows DEF Unrevoked
  <2> QED BY <2>1, RevokedRows DEF TypeOK
<1> QED BY <1>1, <1>2

\* A refresh captures a row of the table, or revokes a family.
LEMMA RefreshTyped == ASSUME TypeOK, NEW r \in Requests, NEW j \in Jtis, Refresh(r, j)
                      PROVE  TypeOK'
<1>1. ASSUME NEW k \in Jtis, RotateFrom(r, k), token[k].status = "live" PROVE TypeOK'
  <2> DEFINE q == [op |-> "rotate", row |-> k, code |-> NoCode,
                   user |-> token[k].user, vault |-> token[k].vault]
  <2>1. token[k] \in RefreshTokenRow
    BY DEF TypeOK
  <2>2. q \in TokenRequest /\ q.row \in Jtis
    BY <2>1, RowFields DEF TokenRequest
  <2>3. token[k].family \in Jtis
    BY <1>1 DEF TypeOK
  <2>4. request' = [request EXCEPT ![r] = q]
    BY <1>1 DEF RotateFrom
  <2> HIDE DEF q
  <2>5. request' \in [Requests -> TokenRequest]
        /\ \A s \in Requests : request'[s].op = "rotate" => request'[s].row \in Jtis
    BY <2>2, <2>4 DEF TypeOK
  <2> QED BY <1>1, <2>3, <2>5 DEF RotateFrom, TypeOK
<1>2. CASE token[j].status = "live" /\ RotateFrom(r, j)
  BY <1>1, <1>2
<1>3. CASE InGrace(j) /\ RotateFrom(r, token[j].next)
  <2>1. token[j].next \in Live(token[j].family)
    BY <1>3 DEF InGrace
  <2>2. token[j].next \in Jtis /\ token[token[j].next].status = "live"
    BY <2>1 DEF Live, Family
  <2> QED BY <1>1, <1>3, <2>2
<1>4. CASE token' = Revoked(Family(token[j].family))
           /\ UNCHANGED <<users, vaults, reserved, code, request, vaultOp,
                          overlapped, resetCodes>>
  BY <1>4, RevokedTyped DEF TypeOK
<1> QED BY <1>2, <1>3, <1>4 DEF Refresh

\* The two commits insert a row made of what the handler captured.
LEMMA CommitTyped == ASSUME TypeOK, RequestsOK, NEW r \in Requests,
                            GrantCommit(r) \/ RotateCommit(r)
                     PROVE  TypeOK'
<1>1. request[r] \in TokenRequest
  BY DEF TypeOK
<1>2. /\ request' \in [Requests -> TokenRequest]
      /\ \A s \in Requests : request'[s].op = "rotate" => request'[s].row \in Jtis
  <2>1. request' = [request EXCEPT ![r] = Idle]
    BY DEF GrantCommit, RotateCommit
  <2>2. Idle.op = "idle" /\ Idle \in TokenRequest
    BY BlankTyped DEF Idle
  <2> QED BY <2>1, <2>2 DEF TypeOK
<1>3. CASE GrantCommit(r)
  <2> DEFINE x(n) == [status |-> "live", family |-> n, user |-> request[r].user,
                      vault |-> request[r].vault, next |-> NoJti, code |-> request[r].code]
  <2>1. PICK n \in FreeJtis : token' = [token EXCEPT ![n] = x(n)]
    BY <1>3 DEF GrantCommit
  <2>2. n \in Jtis
    BY FreeJti
  <2>3. x(n) \in RefreshTokenRow /\ x(n).family \in Jtis
    BY <1>1, <2>2, RequestFields DEF RefreshTokenRow
  <2> HIDE DEF x
  <2>4. /\ token' \in [Jtis -> RefreshTokenRow]
        /\ \A j \in Jtis : token'[j].status # "none" => token'[j].family \in Jtis
    BY <2>1, <2>2, <2>3 DEF TypeOK
  <2> QED BY <1>2, <1>3, <2>4 DEF GrantCommit, TypeOK
<1>4. CASE RotateCommit(r)
  <2> DEFINE k == request[r].row
             x == [status |-> "live", family |-> token[k].family, user |-> request[r].user,
                   vault |-> request[r].vault, next |-> NoJti, code |-> token[k].code]
             y(n) == [token[k] EXCEPT !.status = "recent", !.next = n]
  <2>1. PICK n \in FreeJtis :
            token' = [j \in Jtis |-> CASE j = k -> y(n) [] j = n -> x [] OTHER -> token[j]]
    BY <1>4 DEF RotateCommit
  <2>2. n \in Jtis
    BY FreeJti
  <2>3. k \in Jtis /\ Allocated(k)
    BY <1>4 DEF RotateCommit, RequestsOK
  <2>4. token[k] \in RefreshTokenRow /\ token[k].family \in Jtis
    BY <2>3 DEF TypeOK, Allocated
  <2>5. x \in RefreshTokenRow /\ x.family \in Jtis
    BY <1>1, <2>4, RequestFields, RowFields DEF RefreshTokenRow
  <2>6. y(n) \in RefreshTokenRow /\ y(n).family = token[k].family
    BY <2>2, <2>4, LinkSet
  <2> HIDE DEF x, y
  <2>7. ASSUME NEW j \in Jtis
        PROVE  token'[j] \in RefreshTokenRow
               /\ (token'[j].status # "none" => token'[j].family \in Jtis)
    <3>1. token'[j] = y(n) \/ token'[j] = x \/ token'[j] = token[j]
      BY <2>1
    <3> QED BY <3>1, <2>4, <2>5, <2>6 DEF TypeOK
  <2>8. token' \in [Jtis -> RefreshTokenRow]
    BY <2>1, <2>7
  <2> QED BY <1>2, <1>4, <2>7, <2>8 DEF RotateCommit, TypeOK
<1> QED BY <1>3, <1>4

LEMMA TypeStep == TypeOK /\ RequestsOK /\ RenameOK /\ [Next]_vars => TypeOK'
<1> SUFFICES ASSUME TypeOK, RequestsOK, RenameOK, [Next]_vars PROVE TypeOK'
    OBVIOUS
<1>1. ASSUME NEW u \in Users, NEW v \in Vaults, IssueCode(u, v) PROVE TypeOK'
  <2>1. PICK c \in FreeCodes :
            code' = [code EXCEPT ![c] = [status |-> "issued", user |-> u, vault |-> v]]
    BY <1>1 DEF IssueCode
  <2>2. code' \in [Codes -> AuthCode]
    BY <2>1 DEF TypeOK, AuthCode
  <2> QED BY <1>1, <2>2 DEF IssueCode, TypeOK
<1>2. ASSUME NEW r \in Requests, NEW c \in Codes, Redeem(r, c) PROVE TypeOK'
  <2>1. code[c] \in AuthCode
    BY DEF TypeOK
  <2> DEFINE q == [op |-> "grant", row |-> NoJti, code |-> c,
                   user |-> code[c].user, vault |-> code[c].vault]
  <2>2. q \in TokenRequest /\ q.op = "grant"
    BY <2>1 DEF AuthCode, TokenRequest
  <2>3. request' = [request EXCEPT ![r] = q] \/ request' = request
    BY <1>2 DEF Redeem
  <2> HIDE DEF q
  <2>4. /\ request' \in [Requests -> TokenRequest]
        /\ \A s \in Requests : request'[s].op = "rotate" => request'[s].row \in Jtis
    BY <2>2, <2>3 DEF TypeOK
  <2>5. [code[c] EXCEPT !.status = "spent"] \in AuthCode
    BY <2>1 DEF AuthCode
  <2>6. code' \in [Codes -> AuthCode]
    BY <1>2, <2>5 DEF Redeem, TypeOK
  <2> QED BY <1>2, <2>4, <2>6 DEF Redeem, TypeOK
<1>3. ASSUME NEW r \in Requests, NEW j \in Jtis, Refresh(r, j) PROVE TypeOK'
  BY <1>3, RefreshTyped
<1>4. ASSUME NEW r \in Requests, GrantCommit(r) \/ RotateCommit(r) PROVE TypeOK'
  BY <1>4, CommitTyped
<1>5. Idle.op = "idle" /\ Idle \in TokenRequest /\ NoOp \in VaultOp
  BY BlankTyped DEF Idle
<1>6. ASSUME NEW r \in Requests, CommitRefused(r) PROVE TypeOK'
  <2>1. /\ request' \in [Requests -> TokenRequest]
        /\ \A s \in Requests : request'[s].op = "rotate" => request'[s].row \in Jtis
    BY <1>5, <1>6 DEF CommitRefused, TypeOK
  <2> QED BY <1>6, <2>1 DEF CommitRefused, TypeOK
<1>7. ASSUME NEW j \in Jtis, Revoke(j) PROVE TypeOK'
  BY <1>7, RevokedTyped DEF Revoke, TypeOK
<1>8. ASSUME NEW j \in Jtis, RowAges(j) PROVE TypeOK'
  <2>1. PICK s \in {"lapsed", "old"} :
            token[j].status \in {"live", "recent"} /\ token' = [token EXCEPT ![j].status = s]
    BY <1>8 DEF RowAges
  <2>2. token[j] \in RefreshTokenRow /\ token[j].family \in Jtis
    BY <2>1 DEF TypeOK
  <2> DEFINE x == [token[j] EXCEPT !.status = s]
  <2>3. x \in RefreshTokenRow /\ x.family = token[j].family
    BY <2>2 DEF RefreshTokenRow
  <2>4. token' = [token EXCEPT ![j] = x]
    BY <2>1
  <2> HIDE DEF x
  <2>5. /\ token' \in [Jtis -> RefreshTokenRow]
        /\ \A i \in Jtis : token'[i].status # "none" => token'[i].family \in Jtis
    BY <2>2, <2>3, <2>4 DEF TypeOK
  <2> QED BY <1>8, <2>5 DEF RowAges, TypeOK
<1>9. ASSUME NEW u \in Users, ResetPassword(u) PROVE TypeOK'
  BY <1>9, RevokedTyped DEF ResetPassword, TypeOK
<1>10. ASSUME NEW u \in Users, DeleteUser(u) PROVE TypeOK'
  <2>1. ASSUME NEW j \in Jtis
        PROVE  /\ token'[j] \in RefreshTokenRow
               /\ token'[j].status # "none" => token'[j].family \in Jtis
    <3> DEFINE x == Revoked({j})[j]
    <3>1. x \in RefreshTokenRow /\ (x.status # "none" => x.family \in Jtis)
      BY RevokedTyped
    <3>2. token'[j] = [x EXCEPT !.user = NoUser] \/ token'[j] = token[j]
      BY <1>10 DEF DeleteUser
    <3> HIDE DEF x
    <3>3. [x EXCEPT !.user = NoUser] \in RefreshTokenRow
          /\ [x EXCEPT !.user = NoUser].status = x.status
          /\ [x EXCEPT !.user = NoUser].family = x.family
      BY <3>1 DEF RefreshTokenRow
    <3> QED BY <3>1, <3>2, <3>3 DEF TypeOK
  <2>2. token' \in [Jtis -> RefreshTokenRow]
    BY <2>1, <1>10 DEF DeleteUser
  <2>3. ASSUME NEW c \in Codes PROVE [code[c] EXCEPT !.status = "spent"] \in AuthCode
    BY DEF TypeOK, AuthCode
  <2>4. code' \in [Codes -> AuthCode]
    BY <2>3, <1>10 DEF DeleteUser, TypeOK
  <2> QED BY <1>10, <2>1, <2>2, <2>4 DEF DeleteUser, TypeOK
<1>11. ASSUME NEW v \in Vaults, DeleteSweep(v) \/ CreateVault(v) \/ ReservationEnds(v)
       PROVE  TypeOK'
  <2>1. CASE DeleteSweep(v)
    <3>1. [op |-> "delete", vault |-> v, to |-> NoVault] \in VaultOp
      BY DEF VaultOp
    <3> QED BY <2>1, <3>1, RevokedTyped DEF DeleteSweep, TypeOK
  <2>2. CASE CreateVault(v) BY <2>2 DEF CreateVault, TypeOK
  <2>3. CASE ReservationEnds(v) BY <2>3 DEF ReservationEnds, TypeOK
  <2> QED BY <1>11, <2>1, <2>2, <2>3
<1>12. ASSUME NEW v \in Vaults, NEW w \in Vaults, RenameStarts(v, w) PROVE TypeOK'
  <2>1. [op |-> "rename", vault |-> v, to |-> w] \in VaultOp
    BY DEF VaultOp
  <2> QED BY <1>12, <2>1 DEF RenameStarts, TypeOK
<1>13. AfterCli \subseteq Vaults
  BY DEF AfterCli, TypeOK, RenameOK
<1>14. CASE VaultRemoved
  BY <1>5, <1>13, <1>14 DEF VaultRemoved, TypeOK
<1>15. CASE RenameCommits
  <2> DEFINE v == vaultOp.vault  w == vaultOp.to
  <2>1. v \in Vaults /\ w \in Vaults
    BY <1>15 DEF RenameCommits, RenameOK
  <2>2. ASSUME NEW j \in Jtis
        PROVE  /\ token'[j] \in RefreshTokenRow
               /\ token'[j].status # "none" => token'[j].family \in Jtis
    <3>1. token'[j] = [token[j] EXCEPT !.vault = w] \/ token'[j] = token[j]
      BY <1>15 DEF RenameCommits
    <3>2. token[j] \in RefreshTokenRow
      BY DEF TypeOK
    <3>3. [token[j] EXCEPT !.vault = w] \in RefreshTokenRow
          /\ [token[j] EXCEPT !.vault = w].status = token[j].status
          /\ [token[j] EXCEPT !.vault = w].family = token[j].family
      BY <2>1, <3>2 DEF RefreshTokenRow
    <3> QED BY <3>1, <3>3 DEF TypeOK
  <2>3. token' \in [Jtis -> RefreshTokenRow]
    BY <2>2, <1>15 DEF RenameCommits
  <2>4. ASSUME NEW c \in Codes PROVE [code[c] EXCEPT !.status = "spent"] \in AuthCode
    BY DEF TypeOK, AuthCode
  <2>5. code' \in [Codes -> AuthCode]
    BY <2>4, <1>15 DEF RenameCommits, TypeOK
  <2> QED BY <1>5, <1>13, <1>15, <2>1, <2>2, <2>3, <2>5 DEF RenameCommits, TypeOK
<1>16. CASE VaultOpFails
  BY <1>5, <1>13, <1>16 DEF VaultOpFails, TypeOK
<1>17. ASSUME NEW c \in Codes, CodeExpires(c) PROVE TypeOK'
  <2>1. [code[c] EXCEPT !.status = "spent"] \in AuthCode
    BY DEF TypeOK, AuthCode
  <2>2. code' \in [Codes -> AuthCode]
    BY <2>1, <1>17 DEF CodeExpires, TypeOK
  <2> QED BY <1>17, <2>2 DEF CodeExpires, TypeOK
<1>18. CASE HubCrash
  <2>1. request' \in [Requests -> TokenRequest]
    BY <1>5, <1>18 DEF HubCrash
  <2>2. \A s \in Requests : request'[s].op = "idle"
    BY <1>5, <1>18 DEF HubCrash
  <2> QED BY <1>5, <1>13, <1>18, <2>1, <2>2 DEF HubCrash, TypeOK
<1>19. CASE UNCHANGED vars
  BY <1>19 DEF vars, TypeOK
<1> QED BY <1>1, <1>2, <1>3, <1>4, <1>6, <1>7, <1>8, <1>9, <1>10, <1>11, <1>12, <1>14, <1>15,
           <1>16, <1>17, <1>18, <1>19 DEF Next

-----------------------------------------------------------------------------
\* What all but four actions do to the lineage: rows keep their place in it
\* and never come alive, requests end, spent codes stay spent.
Fades == \A j \in Jtis :
    /\ token'[j].family = token[j].family /\ token'[j].next = token[j].next
    /\ token'[j].code = token[j].code
    /\ Allocated(j) => token'[j].status # "none"
    /\ ~Allocated(j) => token'[j] = token[j]
    /\ token'[j].status = "live" => token[j].status = "live"

Ends == \A r \in Requests : request'[r] = request[r] \/ request'[r] = Idle

SpentStays == \A c \in Codes : code[c].status = "spent" => code'[c].status = "spent"

Quiet == Fades /\ Ends /\ SpentStays /\ overlapped' = overlapped

LEMMA QuietLive == ASSUME Fades, NEW f, NEW j \in Live(f)'
                   PROVE  j \in Live(f)
<1>1. j \in Jtis /\ token'[j].status = "live" /\ token'[j].family = f
  BY DEF Live, Family
<1>2. token[j].status = "live" /\ token[j].family = f
  BY <1>1 DEF Fades
<1> QED BY <1>1, <1>2 DEF Live, Family

LEMMA QuietRotating ==
    ASSUME Fades, Ends, RequestsOK, NEW r \in Requests, request'[r].op = "rotate"
    PROVE  /\ request'[r] = request[r] /\ request[r].op = "rotate"
           /\ request[r].row \in Jtis
           /\ token'[request'[r].row].family = token[request[r].row].family
<1>1. request'[r] = request[r]
  BY DEF Ends, Idle
<1>2. request[r].op = "rotate" /\ request[r].row \in Jtis
  BY <1>1 DEF RequestsOK
<1> QED BY <1>1, <1>2 DEF Fades

LEMMA QuietKeeps == TypeOK /\ Lineage /\ Quiet => Lineage'
<1> SUFFICES ASSUME TypeOK, Lineage, Quiet PROVE Lineage'
    OBVIOUS
<1>1. RowsOK'
  <2> SUFFICES ASSUME NEW j \in Jtis
               PROVE  /\ ~Allocated(j)' => token'[j] = NoRow
                      /\ Allocated(j)' => /\ token'[j].family \in Jtis
                                          /\ token'[token'[j].family].status # "none"
                      /\ token'[j].code # NoCode => code'[token'[j].code].status = "spent"
    BY DEF RowsOK, Allocated
  <2>1. ~Allocated(j)' => token'[j] = NoRow
    BY DEF Quiet, Fades, Allocated, Lineage, RowsOK
  <2>2. Allocated(j)' => /\ token'[j].family \in Jtis
                         /\ token'[token'[j].family].status # "none"
    <3>1. Allocated(j)' => Allocated(j) /\ token'[j].family = token[j].family
      BY DEF Quiet, Fades, Allocated
    <3>2. Allocated(j) => token[j].family \in Jtis /\ Allocated(token[j].family)
      BY DEF Lineage, RowsOK, Allocated
    <3>3. Allocated(j) => token'[token[j].family].status # "none"
      BY <3>2 DEF Quiet, Fades
    <3> QED BY <3>1, <3>2, <3>3
  <2>3. token[j].code \in Codes \cup {NoCode}
    BY RowFields DEF TypeOK
  <2>4. token'[j].code # NoCode => code'[token'[j].code].status = "spent"
    <3>1. token'[j].code = token[j].code
      BY DEF Quiet, Fades
    <3>2. token[j].code # NoCode => code[token[j].code].status = "spent"
      BY DEF Lineage, RowsOK
    <3> QED BY <2>3, <3>1, <3>2 DEF Quiet, SpentStays
  <2> QED BY <2>1, <2>2, <2>4
<1>2. RequestsOK'
  <2>1. Idle.op = "idle"
    BY DEF Idle
  <2>2. ASSUME NEW r \in Requests, request'[r].op = "rotate"
        PROVE  request'[r].row \in Jtis /\ token'[request'[r].row].status # "none"
    <3>1. request'[r] = request[r] /\ request[r].row \in Jtis /\ Allocated(request[r].row)
      BY <2>2, QuietRotating DEF Quiet, Lineage, RequestsOK
    <3> QED BY <3>1 DEF Quiet, Fades
  <2>3. ASSUME NEW r \in Requests, request'[r].op = "grant"
        PROVE  /\ request'[r].code \in Codes /\ code'[request'[r].code].status = "spent"
               /\ \A j \in Jtis : token'[j].code # request'[r].code
               /\ \A s \in Requests \ {r} : request'[s].op = "grant" =>
                        request'[s].code # request'[r].code
    <3>1. request'[r] = request[r] /\ request[r].op = "grant"
      BY <2>1, <2>3 DEF Quiet, Ends
    <3>2. request'[r].code \in Codes /\ code'[request'[r].code].status = "spent"
      BY <3>1 DEF Quiet, SpentStays, Lineage, RequestsOK
    <3>3. \A j \in Jtis : token'[j].code # request'[r].code
      BY <3>1 DEF Quiet, Fades, Lineage, RequestsOK
    <3>4. \A s \in Requests \ {r} : request'[s].op = "grant" =>
                        request'[s].code # request'[r].code
      BY <2>1, <3>1 DEF Quiet, Ends, Lineage, RequestsOK
    <3> QED BY <3>2, <3>3, <3>4
  <2> QED BY <2>2, <2>3 DEF RequestsOK, Allocated
<1>3. OneFamilyPerCode'
  BY DEF Quiet, Fades, Lineage, OneFamilyPerCode
<1>4. ForkNeedsOverlap'
  BY QuietLive DEF Quiet, Lineage, ForkNeedsOverlap
<1>5. RotatesTip'
  <2> SUFFICES ASSUME NEW r \in Requests, request'[r].op = "rotate",
                      token'[request'[r].row].family \notin overlapped'
               PROVE  /\ \A s \in Rotating(token[request[r].row].family)' : s = r
                      /\ \A j \in Live(token[request[r].row].family)' : j = request'[r].row
    BY DEF RotatesTip
  <2> DEFINE f == token[request[r].row].family
  <2>1. /\ request'[r] = request[r] /\ request[r].op = "rotate"
        /\ f \notin overlapped /\ token'[request'[r].row].family = f
    BY QuietRotating DEF Quiet, Lineage
  <2>2. ASSUME NEW s \in Requests, request'[s].op = "rotate", token'[request'[s].row].family = f
        PROVE  s = r
    <3>1. request[s].op = "rotate" /\ token[request[s].row].family = f
      BY <2>2, QuietRotating DEF Quiet, Lineage
    <3> QED BY <2>1, <3>1 DEF Lineage, RotatesTip, Rotating
  <2>3. ASSUME NEW j \in Jtis, token'[j].status = "live", token'[j].family = f
        PROVE  j = request'[r].row
    <3>1. token[j].status = "live" /\ token[j].family = f
      BY <2>3 DEF Quiet, Fades
    <3> QED BY <2>1, <3>1 DEF Lineage, RotatesTip, Live, Family
  <2> QED BY <2>1, <2>2, <2>3 DEF Rotating, Live, Family
<1>6. TipHasParent'
  <2> SUFFICES ASSUME NEW f \in Jtis, f \notin overlapped', NEW j \in Live(f)', j # f
               PROVE  \E k \in Family(f)' : token'[k].next = j
    BY DEF TipHasParent
  <2>1. f \notin overlapped /\ j \in Live(f)
    BY QuietLive DEF Quiet
  <2>2. PICK k \in Family(f) : token[k].next = j
    BY <2>1 DEF Lineage, TipHasParent
  <2>3. k \in Family(f)' /\ token'[k].next = j
    BY <2>2 DEF Family, Quiet, Fades, Allocated
  <2> QED BY <2>3
<1> QED BY <1>1, <1>2, <1>3, <1>4, <1>5, <1>6 DEF Lineage

\* Revoking any set of rows is a fading of the table.
LEMMA RevokedFades == ASSUME TypeOK, NEW S, token' = Revoked(S)
                      PROVE  Fades
<1> SUFFICES ASSUME NEW j \in Jtis
             PROVE  /\ token'[j].family = token[j].family /\ token'[j].next = token[j].next
                    /\ token'[j].code = token[j].code
                    /\ Allocated(j) => token'[j].status # "none"
                    /\ ~Allocated(j) => token'[j] = token[j]
                    /\ token'[j].status = "live" => token[j].status = "live"
  BY DEF Fades
<1>1. ~Allocated(j) => token'[j] = token[j]
  BY DEF Revoked, Unrevoked, Allocated
<1> QED BY <1>1, RevokedRows DEF Unrevoked, Allocated

QuietAction ==
    \/ \E u \in Users, v \in Vaults : IssueCode(u, v)
    \/ \E r \in Requests : CommitRefused(r)
    \/ \E j \in Jtis : Revoke(j) \/ RowAges(j)
    \/ \E u \in Users : ResetPassword(u) \/ DeleteUser(u)
    \/ \E v \in Vaults : DeleteSweep(v) \/ CreateVault(v) \/ ReservationEnds(v)
    \/ \E v \in Vaults, w \in Vaults : RenameStarts(v, w)
    \/ VaultRemoved \/ RenameCommits \/ VaultOpFails
    \/ \E c \in Codes : CodeExpires(c)
    \/ HubCrash
    \/ UNCHANGED vars

LEMMA QuietSteps == TypeOK /\ RowsOK /\ QuietAction => Quiet
<1> SUFFICES ASSUME TypeOK, RowsOK, QuietAction PROVE Quiet
    OBVIOUS
<1>1. UNCHANGED token => Fades
  BY DEF Fades, Allocated
<1>2. UNCHANGED request => Ends
  BY DEF Ends
<1>3. UNCHANGED code => SpentStays
  BY DEF SpentStays
<1>4. ASSUME NEW u \in Users, NEW v \in Vaults, IssueCode(u, v) PROVE Quiet
  <2>1. PICK c \in FreeCodes :
            code' = [code EXCEPT ![c] = [status |-> "issued", user |-> u, vault |-> v]]
    BY <1>4 DEF IssueCode
  <2>2. code[c].status = "none"
    BY FreeCode
  <2>3. SpentStays
    BY <2>1, <2>2 DEF SpentStays, TypeOK
  <2> QED BY <1>1, <1>2, <1>4, <2>3 DEF IssueCode, Quiet
<1>5. ASSUME NEW r \in Requests, CommitRefused(r) PROVE Quiet
  <2>1. Ends
    BY <1>5 DEF CommitRefused, Ends, TypeOK
  <2> QED BY <1>1, <1>3, <1>5, <2>1 DEF CommitRefused, Quiet
<1>6. ASSUME NEW j \in Jtis, Revoke(j) PROVE Quiet
  BY <1>2, <1>3, <1>6, RevokedFades DEF Revoke, Quiet
<1>7. ASSUME NEW j \in Jtis, RowAges(j) PROVE Quiet
  <2>1. PICK s \in {"lapsed", "old"} :
            token[j].status \in {"live", "recent"} /\ token' = [token EXCEPT ![j].status = s]
    BY <1>7 DEF RowAges
  <2> DEFINE x == [token[j] EXCEPT !.status = s]
  <2>2. token[j] \in RefreshTokenRow
    BY DEF TypeOK
  <2>3. /\ x.family = token[j].family /\ x.next = token[j].next /\ x.code = token[j].code
        /\ x.status = s
    BY <2>2 DEF RefreshTokenRow
  <2>4. token' = [token EXCEPT ![j] = x]
    BY <2>1
  <2> HIDE DEF x
  <2>5. Fades
    BY <2>1, <2>3, <2>4 DEF Fades, Allocated, TypeOK
  <2> QED BY <1>2, <1>3, <1>7, <2>5 DEF RowAges, Quiet
<1>8. ASSUME NEW u \in Users, ResetPassword(u) PROVE Quiet
  BY <1>2, <1>3, <1>8, RevokedFades DEF ResetPassword, Quiet
<1>9. ASSUME NEW u \in Users, DeleteUser(u) PROVE Quiet
  <2>1. Fades
    <3> SUFFICES ASSUME NEW j \in Jtis
                 PROVE  /\ token'[j].family = token[j].family /\ token'[j].next = token[j].next
                        /\ token'[j].code = token[j].code
                        /\ Allocated(j) => token'[j].status # "none"
                        /\ ~Allocated(j) => token'[j] = token[j]
                        /\ token'[j].status = "live" => token[j].status = "live"
      BY DEF Fades
    <3>1. CASE j \in UserRows(u)
      <4> DEFINE x == Revoked({j})[j]
      <4>1. /\ x \in RefreshTokenRow /\ x.family = token[j].family /\ x.next = token[j].next
            /\ x.code = token[j].code
            /\ x.status = IF j \in {j} /\ Unrevoked(j) THEN "recent" ELSE token[j].status
        BY RevokedRows
      <4>2. token'[j] = [x EXCEPT !.user = NoUser]
        BY <1>9, <3>1 DEF DeleteUser
      <4> HIDE DEF x
      <4>3. /\ token'[j].family = token[j].family /\ token'[j].next = token[j].next
            /\ token'[j].code = token[j].code /\ token'[j].status = x.status
        BY <4>1, <4>2 DEF RefreshTokenRow
      <4>4. token[j].user # NoUser
        BY <3>1 DEF UserRows
      <4>5. Allocated(j)
        BY <4>4 DEF RowsOK, NoRow
      <4> QED BY <4>1, <4>3, <4>5 DEF Unrevoked, Allocated
    <3>2. CASE j \notin UserRows(u)
      <4>1. token'[j] = token[j]
        BY <1>9, <3>2 DEF DeleteUser
      <4> QED BY <4>1 DEF Allocated
    <3> QED BY <3>1, <3>2
  <2>2. SpentStays
    BY <1>9 DEF DeleteUser, SpentStays
  <2> QED BY <1>2, <1>9, <2>1, <2>2 DEF DeleteUser, Quiet
<1>10. ASSUME NEW v \in Vaults, DeleteSweep(v) \/ CreateVault(v) \/ ReservationEnds(v)
       PROVE  Quiet
  <2>1. CASE DeleteSweep(v)
    BY <1>2, <1>3, <2>1, RevokedFades DEF DeleteSweep, Quiet
  <2>2. CASE CreateVault(v) \/ ReservationEnds(v)
    BY <1>1, <1>2, <1>3, <2>2 DEF CreateVault, ReservationEnds, Quiet
  <2> QED BY <1>10, <2>1, <2>2
<1>11. ASSUME NEW v \in Vaults, NEW w \in Vaults, RenameStarts(v, w) PROVE Quiet
  BY <1>1, <1>2, <1>3, <1>11 DEF RenameStarts, Quiet
<1>12. CASE VaultRemoved \/ VaultOpFails
  BY <1>1, <1>2, <1>3, <1>12 DEF VaultRemoved, VaultOpFails, Quiet
<1>13. CASE RenameCommits
  <2>1. Fades
    <3> SUFFICES ASSUME NEW j \in Jtis
                 PROVE  /\ token'[j].family = token[j].family /\ token'[j].next = token[j].next
                        /\ token'[j].code = token[j].code
                        /\ Allocated(j) => token'[j].status # "none"
                        /\ ~Allocated(j) => token'[j] = token[j]
                        /\ token'[j].status = "live" => token[j].status = "live"
      BY DEF Fades
    <3>1. token'[j] = IF Unrevoked(j) /\ token[j].vault = vaultOp.vault
                      THEN [token[j] EXCEPT !.vault = vaultOp.to] ELSE token[j]
      BY <1>13 DEF RenameCommits
    <3>2. token[j] \in RefreshTokenRow
      BY DEF TypeOK
    <3>3. CASE Unrevoked(j) /\ token[j].vault = vaultOp.vault
      <4>1. token'[j] = [token[j] EXCEPT !.vault = vaultOp.to]
        BY <3>1, <3>3
      <4> QED BY <3>2, <3>3, <4>1 DEF RefreshTokenRow, Unrevoked, Allocated
    <3>4. CASE ~(Unrevoked(j) /\ token[j].vault = vaultOp.vault)
      BY <3>1, <3>4 DEF Allocated
    <3> QED BY <3>3, <3>4
  <2>2. SpentStays
    BY <1>13 DEF RenameCommits, SpentStays
  <2> QED BY <1>2, <1>13, <2>1, <2>2 DEF RenameCommits, Quiet
<1>14. ASSUME NEW c \in Codes, CodeExpires(c) PROVE Quiet
  <2>1. SpentStays
    BY <1>14 DEF CodeExpires, SpentStays, TypeOK, AuthCode
  <2> QED BY <1>1, <1>2, <1>14, <2>1 DEF CodeExpires, Quiet
<1>15. CASE HubCrash
  <2>1. Ends
    BY <1>15 DEF HubCrash, Ends
  <2> QED BY <1>1, <1>3, <1>15, <2>1 DEF HubCrash, Quiet
<1>16. CASE UNCHANGED vars
  BY <1>1, <1>2, <1>3, <1>16 DEF vars, Quiet
<1> QED BY <1>4, <1>5, <1>6, <1>7, <1>8, <1>9, <1>10, <1>11, <1>12, <1>13, <1>14, <1>15, <1>16
        DEF QuietAction

-----------------------------------------------------------------------------
\* Redeem takes a code nobody else holds out of circulation.
LEMMA RedeemKeeps == ASSUME TypeOK, Lineage, NEW r \in Requests, NEW c \in Codes, Redeem(r, c)
                     PROVE  Lineage'
<1> DEFINE q == [op |-> "grant", row |-> NoJti, code |-> c,
                 user |-> code[c].user, vault |-> code[c].vault]
<1>1. /\ request[r].op = "idle" /\ code[c].status = "issued" /\ token' = token
      /\ overlapped' = overlapped
      /\ request' = [request EXCEPT ![r] = q] \/ request' = request
  BY DEF Redeem
<1>2. q.op = "grant" /\ q.code = c
  OBVIOUS
<1> HIDE DEF q
<1>3. SpentStays /\ code'[c].status = "spent"
  BY DEF Redeem, SpentStays, TypeOK, AuthCode
<1>4. RowsOK'
  <2>1. \A j \in Jtis : token[j].code \in Codes \cup {NoCode}
    BY RowFields DEF TypeOK
  <2> QED BY <1>1, <1>3, <2>1 DEF Lineage, RowsOK, Allocated, SpentStays
<1>5. \A s \in Requests : s # r => request'[s] = request[s]
  BY <1>1 DEF TypeOK
<1>6. request'[r] = q \/ request'[r] = request[r]
  BY <1>1 DEF TypeOK
<1>7. \A j \in Jtis : token[j].code # c
  BY <1>1 DEF Lineage, RowsOK
<1>8. RequestsOK'
  <2> SUFFICES ASSUME NEW s \in Requests
               PROVE  /\ request'[s].op = "rotate" =>
                            request'[s].row \in Jtis /\ Allocated(request'[s].row)
                      /\ request'[s].op = "grant" =>
                            /\ request'[s].code \in Codes
                            /\ code'[request'[s].code].status = "spent"
                            /\ \A j \in Jtis : token[j].code # request'[s].code
                            /\ \A t \in Requests \ {s} : request'[t].op = "grant" =>
                                    request'[t].code # request'[s].code
    BY <1>1 DEF RequestsOK, Allocated
  <2>1. \A t \in Requests : request[t].op = "grant" =>
            request[t].code \in Codes /\ request[t].code # c
    BY <1>1 DEF Lineage, RequestsOK
  <2>2. CASE s = r
    <3>1. CASE request'[r] = q
      BY <1>2, <1>3, <1>5, <1>7, <2>1, <2>2, <3>1
    <3>2. CASE request'[r] = request[r]
      BY <1>1, <2>2, <3>2
    <3> QED BY <1>6, <3>1, <3>2
  <2>3. CASE s # r
    <3>1. request'[s] = request[s]
      BY <1>5, <2>3
    <3>2. request[s].op = "rotate" => request[s].row \in Jtis /\ Allocated(request[s].row)
      BY DEF Lineage, RequestsOK
    <3>3. ASSUME request[s].op = "grant"
          PROVE  /\ request[s].code \in Codes /\ code'[request[s].code].status = "spent"
                 /\ \A j \in Jtis : token[j].code # request[s].code
                 /\ \A t \in Requests \ {s} : request'[t].op = "grant" =>
                        request'[t].code # request[s].code
      <4>1. /\ request[s].code \in Codes /\ code'[request[s].code].status = "spent"
            /\ \A j \in Jtis : token[j].code # request[s].code
        BY <1>3, <3>3 DEF Lineage, RequestsOK, SpentStays
      <4>2. ASSUME NEW t \in Requests \ {s}, request'[t].op = "grant"
            PROVE  request'[t].code # request[s].code
        <5>1. CASE request'[t] = request[t]
          BY <3>3, <4>2, <5>1 DEF Lineage, RequestsOK
        <5>2. CASE t = r /\ request'[r] = q
          BY <1>2, <2>1, <3>3, <5>2
        <5> QED BY <1>5, <1>6, <5>1, <5>2
      <4> QED BY <4>1, <4>2
    <3> QED BY <3>1, <3>2, <3>3
  <2> QED BY <2>2, <2>3
<1>9. OneFamilyPerCode' /\ ForkNeedsOverlap' /\ TipHasParent'
  BY <1>1 DEF Lineage, OneFamilyPerCode, ForkNeedsOverlap, TipHasParent, Live, Family
<1>10. \A s \in Requests : request'[s].op = "rotate" => request'[s] = request[s]
  BY <1>2, <1>5, <1>6
<1>11. RotatesTip'
  BY <1>1, <1>10 DEF Lineage, RotatesTip, Rotating, Live, Family
<1> QED BY <1>4, <1>8, <1>9, <1>11 DEF Lineage

\* A rotation starts from a live row; if another of its family is in flight the
\* family is overlapped from here on.
LEMMA RotateFromKeeps ==
    ASSUME TypeOK, Lineage, NEW r \in Requests, NEW k \in Jtis,
           request[r].op = "idle", token[k].status = "live", RotateFrom(r, k)
    PROVE  Lineage'
<1> DEFINE q == [op |-> "rotate", row |-> k, code |-> NoCode,
                 user |-> token[k].user, vault |-> token[k].vault]
           f == token[k].family
<1>1. /\ token' = token /\ code' = code /\ request' = [request EXCEPT ![r] = q]
      /\ overlapped' = IF Rotating(f) = {} THEN overlapped ELSE overlapped \cup {f}
  BY DEF RotateFrom
<1>2. q.op = "rotate" /\ q.row = k
  OBVIOUS
<1> HIDE DEF q
<1>3. request'[r] = q /\ \A s \in Requests : s # r => request'[s] = request[s]
  BY <1>1 DEF TypeOK
<1>4. overlapped \subseteq overlapped'
  BY <1>1
<1>5. RowsOK'
  BY <1>1 DEF Lineage, RowsOK, Allocated
<1>6. RequestsOK'
  <2>1. Allocated(k)
    BY DEF Allocated
  <2>2. \A s \in Requests : request'[s].op = "grant" => s # r /\ request'[s] = request[s]
    BY <1>2, <1>3
  <2>3. ASSUME NEW s \in Requests, request'[s].op = "rotate"
        PROVE  request'[s].row \in Jtis /\ token[request'[s].row].status # "none"
    BY <1>2, <1>3, <2>1, <2>3 DEF Lineage, RequestsOK, Allocated
  <2>4. ASSUME NEW s \in Requests, request'[s].op = "grant"
        PROVE  /\ request'[s].code \in Codes /\ code[request'[s].code].status = "spent"
               /\ \A j \in Jtis : token[j].code # request'[s].code
               /\ \A t \in Requests \ {s} : request'[t].op = "grant" =>
                        request'[t].code # request'[s].code
    BY <2>2, <2>4 DEF Lineage, RequestsOK
  <2> QED BY <1>1, <2>3, <2>4 DEF RequestsOK, Allocated
<1>7. OneFamilyPerCode' /\ ForkNeedsOverlap' /\ TipHasParent'
  <2>1. OneFamilyPerCode'
    BY <1>1 DEF Lineage, OneFamilyPerCode
  <2>2. ForkNeedsOverlap'
    BY <1>1, <1>4 DEF Lineage, ForkNeedsOverlap, Live, Family
  <2>3. \A g \in Jtis : Family(g)' = Family(g) /\ Live(g)' = Live(g)
    BY <1>1 DEF Live, Family
  <2>4. TipHasParent'
    BY <1>1, <1>4, <2>3 DEF Lineage, TipHasParent
  <2> QED BY <2>1, <2>2, <2>4
<1>8. RotatesTip'
  <2> SUFFICES ASSUME NEW s \in Requests, request'[s].op = "rotate",
                      token[request'[s].row].family \notin overlapped'
               PROVE  /\ \A t \in Requests : request'[t].op = "rotate"
                            /\ token[request'[t].row].family = token[request'[s].row].family
                            => t = s
                      /\ \A j \in Jtis : token[j].status = "live"
                            /\ token[j].family = token[request'[s].row].family
                            => j = request'[s].row
    BY <1>1 DEF RotatesTip, Rotating, Live, Family
  <2>1. CASE token[request'[s].row].family = f
    <3>1. Rotating(f) = {} /\ f \notin overlapped
      BY <1>1, <2>1
    <3>2. s = r
      BY <1>3, <2>1, <3>1 DEF Rotating
    <3>3. \A t \in Requests : request'[t].op = "rotate" /\ token[request'[t].row].family = f
            => t = r
      BY <1>3, <3>1 DEF Rotating
    <3>4. f \in Jtis /\ k \in Live(f)
      BY DEF TypeOK, Live, Family
    <3>5. \A j \in Live(f) : j = k
      BY <3>1, <3>4 DEF Lineage, ForkNeedsOverlap
    <3> QED BY <1>2, <1>3, <2>1, <3>2, <3>3, <3>5 DEF Live, Family
  <2>2. CASE token[request'[s].row].family # f
    <3>1. s # r /\ request'[s] = request[s]
      BY <1>2, <1>3, <2>2
    <3>2. token[request[s].row].family \notin overlapped
      BY <1>4, <3>1
    <3>3. \A t \in Requests : request'[t].op = "rotate"
                /\ token[request'[t].row].family = token[request[s].row].family
            => request'[t] = request[t]
      BY <1>2, <1>3, <2>2, <3>1
    <3> QED BY <3>1, <3>2, <3>3 DEF Lineage, RotatesTip, Rotating, Live, Family
  <2> QED BY <2>1, <2>2
<1> QED BY <1>5, <1>6, <1>7, <1>8 DEF Lineage

\* A granted code starts a family of one row.
LEMMA GrantKeeps == ASSUME TypeOK, Lineage, NEW r \in Requests, GrantCommit(r)
                    PROVE  Lineage'
<1> DEFINE c == request[r].code
           x(n) == [status |-> "live", family |-> n, user |-> request[r].user,
                    vault |-> request[r].vault, next |-> NoJti, code |-> c]
<1>1. PICK n \in FreeJtis : token' = [token EXCEPT ![n] = x(n)]
  BY DEF GrantCommit
<1>2. n \in Jtis /\ ~Allocated(n)
  BY FreeJti DEF Allocated
<1>3. /\ x(n).status = "live" /\ x(n).family = n /\ x(n).code = c
  OBVIOUS
<1> HIDE DEF x
<1>4. token'[n] = x(n) /\ \A j \in Jtis : j # n => token'[j] = token[j]
  BY <1>1, <1>2 DEF TypeOK
<1>5. /\ c \in Codes /\ code[c].status = "spent" /\ \A j \in Jtis : token[j].code # c
      /\ \A s \in Requests \ {r} : request[s].op = "grant" => request[s].code # c
  BY DEF Lineage, RequestsOK, GrantCommit
<1>6. code' = code /\ overlapped' = overlapped
  BY DEF GrantCommit
<1>7. \A s \in Requests : request'[s].op # "idle" => s # r /\ request'[s] = request[s]
  BY DEF GrantCommit, TypeOK, Idle
<1>8. \A j \in Jtis : token[j].family # n
  <2>1. ASSUME NEW j \in Jtis, token[j].family = n PROVE FALSE
    <3>1. ~Allocated(j)
      BY <1>2, <2>1 DEF Lineage, RowsOK, Allocated
    <3>2. token[j] = NoRow
      BY <3>1 DEF Lineage, RowsOK, Allocated
    <3>3. NoRow.family = NoJti
      BY DEF NoRow
    <3> QED BY <1>2, <2>1, <3>2, <3>3
  <2> QED BY <2>1
<1>9. RowsOK'
  <2> SUFFICES ASSUME NEW j \in Jtis
               PROVE  /\ token'[j].status = "none" => token'[j] = NoRow
                      /\ token'[j].status # "none" => /\ token'[j].family \in Jtis
                                                      /\ token'[token'[j].family].status # "none"
                      /\ token'[j].code # NoCode => code[token'[j].code].status = "spent"
    BY <1>6 DEF RowsOK, Allocated
  <2>1. CASE j = n
    BY <1>2, <1>3, <1>4, <1>5, <2>1
  <2>2. CASE j # n
    <3>1. token'[j] = token[j]
      BY <1>4, <2>2
    <3>2. Allocated(j) => token[j].family \in Jtis /\ token'[token[j].family] = token[token[j].family]
      BY <1>4, <1>8 DEF Lineage, RowsOK
    <3> QED BY <3>1, <3>2 DEF Lineage, RowsOK, Allocated
  <2> QED BY <2>1, <2>2
<1>10. RequestsOK'
  <2>1. ASSUME NEW s \in Requests, request'[s].op = "rotate"
        PROVE  request'[s].row \in Jtis /\ token'[request'[s].row].status # "none"
    <3>1. request'[s] = request[s] /\ request[s].row \in Jtis /\ Allocated(request[s].row)
      BY <1>7, <2>1 DEF Lineage, RequestsOK
    <3> QED BY <1>2, <1>4, <3>1 DEF Allocated
  <2>2. ASSUME NEW s \in Requests, request'[s].op = "grant"
        PROVE  /\ request'[s].code \in Codes /\ code[request'[s].code].status = "spent"
               /\ \A j \in Jtis : token'[j].code # request'[s].code
               /\ \A t \in Requests \ {s} : request'[t].op = "grant" =>
                        request'[t].code # request'[s].code
    <3>1. s # r /\ request'[s] = request[s]
      BY <1>7, <2>2
    <3>2. \A j \in Jtis : token[j].code # request[s].code
      BY <2>2, <3>1 DEF Lineage, RequestsOK
    <3>3. \A j \in Jtis : token'[j].code # request[s].code
      BY <1>3, <1>4, <1>5, <2>2, <3>1, <3>2
    <3> QED BY <1>7, <2>2, <3>1, <3>3 DEF Lineage, RequestsOK
  <2> QED BY <1>6, <2>1, <2>2 DEF RequestsOK, Allocated
<1>11. OneFamilyPerCode'
  <2> SUFFICES ASSUME NEW i \in Jtis, NEW j \in Jtis,
                      token'[i].code = token'[j].code, token'[i].code # NoCode
               PROVE  token'[i].family = token'[j].family
    BY DEF OneFamilyPerCode
  <2>1. i = n <=> j = n
    BY <1>3, <1>4, <1>5
  <2> QED BY <1>4, <2>1 DEF Lineage, OneFamilyPerCode
<1>12. \A f \in Jtis : Family(f)' = IF f = n THEN {n} ELSE Family(f)
  BY <1>2, <1>3, <1>4, <1>8 DEF Family, Allocated
<1>13. \A f \in Jtis : Live(f)' = IF f = n THEN {n} ELSE Live(f)
  BY <1>2, <1>3, <1>4, <1>8 DEF Live, Family, Allocated
<1>14. ForkNeedsOverlap'
  BY <1>6, <1>13 DEF Lineage, ForkNeedsOverlap
<1>15. RotatesTip'
  <2> SUFFICES ASSUME NEW s \in Requests, request'[s].op = "rotate",
                      token'[request'[s].row].family \notin overlapped
               PROVE  /\ \A t \in Requests : request'[t].op = "rotate"
                            /\ token'[request'[t].row].family = token'[request'[s].row].family
                            => t = s
                      /\ \A j \in Jtis : token'[j].status = "live"
                            /\ token'[j].family = token'[request'[s].row].family
                            => j = request'[s].row
    BY <1>6 DEF RotatesTip, Rotating, Live, Family
  <2>1. \A t \in Requests : request'[t].op = "rotate" =>
            /\ request'[t] = request[t] /\ request[t].row \in Jtis
            /\ token'[request[t].row] = token[request[t].row]
    BY <1>2, <1>4, <1>7 DEF Lineage, RequestsOK
  <2> DEFINE f == token[request[s].row].family
  <2>2. f # n /\ f \notin overlapped /\ request[s].op = "rotate"
    BY <1>8, <2>1
  <2>3. /\ \A t \in Rotating(f) : t = s
        /\ \A j \in Live(f) : j = request[s].row
    BY <2>2 DEF Lineage, RotatesTip
  <2>4. \A t \in Requests : request'[t].op = "rotate"
            /\ token'[request'[t].row].family = f => t = s
    BY <2>1, <2>3 DEF Rotating
  <2>5. \A j \in Jtis : token'[j].status = "live" /\ token'[j].family = f => j = request[s].row
    BY <1>3, <1>4, <2>2, <2>3 DEF Live, Family
  <2> QED BY <2>1, <2>4, <2>5
<1>16. TipHasParent'
  <2> SUFFICES ASSUME NEW f \in Jtis, f \notin overlapped, NEW j \in Live(f)', j # f
               PROVE  \E k \in Family(f)' : token'[k].next = j
    BY <1>6 DEF TipHasParent
  <2>1. f # n /\ j \in Live(f)
    BY <1>13
  <2>2. PICK k \in Family(f) : token[k].next = j
    BY <2>1 DEF Lineage, TipHasParent
  <2>3. k # n /\ k \in Jtis
    BY <1>2, <2>2 DEF Family, Allocated
  <2> QED BY <1>4, <1>12, <2>1, <2>2, <2>3
<1> QED BY <1>9, <1>10, <1>11, <1>14, <1>15, <1>16 DEF Lineage

\* A rotation replaces the row it captured; without overlap that was the
\* family's only live row, and no other handler is about to do the same.
LEMMA RotateKeeps == ASSUME TypeOK, Lineage, NEW r \in Requests, RotateCommit(r)
                     PROVE  Lineage'
<1> DEFINE k == request[r].row
           f == token[k].family
           x == [status |-> "live", family |-> f, user |-> request[r].user,
                 vault |-> request[r].vault, next |-> NoJti, code |-> token[k].code]
           y(n) == [token[k] EXCEPT !.status = "recent", !.next = n]
<1>1. PICK n \in FreeJtis :
          token' = [j \in Jtis |-> CASE j = k -> y(n) [] j = n -> x [] OTHER -> token[j]]
  BY DEF RotateCommit
<1>2. n \in Jtis /\ ~Allocated(n)
  BY FreeJti DEF Allocated
<1>3. k \in Jtis /\ Allocated(k)
  BY DEF RotateCommit, Lineage, RequestsOK
<1>4. k # n
  BY <1>2, <1>3
<1>5. token[k] \in RefreshTokenRow
  BY <1>3 DEF TypeOK
<1>6. x.status = "live" /\ x.family = f /\ x.code = token[k].code
  OBVIOUS
<1>7. y(n).status = "recent" /\ y(n).family = f /\ y(n).code = token[k].code /\ y(n).next = n
  BY <1>2, <1>5, LinkSet
<1> HIDE DEF x, y
<1>8. /\ token'[k] = y(n) /\ token'[n] = x
      /\ \A j \in Jtis : j # k /\ j # n => token'[j] = token[j]
  BY <1>1, <1>2, <1>3, <1>4
<1> HIDE DEF f
<1>9. f \in Jtis /\ Allocated(f) /\ f # n /\ f = token[k].family
  BY <1>2, <1>3 DEF f, Lineage, RowsOK
<1>10. \A j \in Jtis : token[j].family # n
  <2>1. ASSUME NEW j \in Jtis, token[j].family = n PROVE FALSE
    <3>1. ~Allocated(j)
      BY <1>2, <2>1 DEF Lineage, RowsOK, Allocated
    <3>2. token[j] = NoRow
      BY <3>1 DEF Lineage, RowsOK, Allocated
    <3>3. NoRow.family = NoJti
      BY DEF NoRow
    <3> QED BY <1>2, <2>1, <3>2, <3>3
  <2> QED BY <2>1
<1>11. /\ \A j \in Jtis : j # n => token'[j].family = token[j].family
                                  /\ token'[j].code = token[j].code
       /\ \A j \in Jtis : Allocated(j) => token'[j].status # "none"
       /\ token'[n].status # "none"
  BY <1>6, <1>7, <1>8, <1>9 DEF Allocated
<1>12. code' = code /\ overlapped' = overlapped
  BY DEF RotateCommit
<1>13. \A s \in Requests : request'[s].op # "idle" => s # r /\ request'[s] = request[s]
  BY DEF RotateCommit, TypeOK, Idle
<1>14. request[r].op = "rotate" /\ request[r].row = k
  BY DEF RotateCommit
<1>15. token[k].code \in Codes \cup {NoCode}
  BY <1>5, RowFields
<1>16. RowsOK'
  <2> SUFFICES ASSUME NEW j \in Jtis
               PROVE  /\ token'[j].status = "none" => token'[j] = NoRow
                      /\ token'[j].status # "none" => /\ token'[j].family \in Jtis
                                                      /\ token'[token'[j].family].status # "none"
                      /\ token'[j].code # NoCode => code[token'[j].code].status = "spent"
    BY <1>12 DEF RowsOK, Allocated
  <2>1. token[k].code # NoCode => code[token[k].code].status = "spent"
    BY <1>3 DEF Lineage, RowsOK
  <2>2. CASE j = n \/ j = k
    BY <1>6, <1>7, <1>8, <1>9, <1>11, <2>1, <2>2
  <2>3. CASE j # n /\ j # k
    BY <1>8, <1>11, <2>3 DEF Lineage, RowsOK, Allocated
  <2> QED BY <2>2, <2>3
<1>17. RequestsOK'
  <2>1. ASSUME NEW s \in Requests, request'[s].op = "rotate"
        PROVE  request'[s].row \in Jtis /\ token'[request'[s].row].status # "none"
    <3>1. request'[s] = request[s] /\ request[s].row \in Jtis /\ Allocated(request[s].row)
      BY <1>13, <2>1 DEF Lineage, RequestsOK
    <3> QED BY <1>11, <3>1
  <2>2. ASSUME NEW s \in Requests, request'[s].op = "grant"
        PROVE  /\ request'[s].code \in Codes /\ code[request'[s].code].status = "spent"
               /\ \A j \in Jtis : token'[j].code # request'[s].code
               /\ \A t \in Requests \ {s} : request'[t].op = "grant" =>
                        request'[t].code # request'[s].code
    <3>1. s # r /\ request'[s] = request[s]
      BY <1>13, <2>2
    <3>2. \A j \in Jtis : token[j].code # request[s].code
      BY <2>2, <3>1 DEF Lineage, RequestsOK
    <3>3. \A j \in Jtis : token'[j].code # request[s].code
      BY <1>3, <1>6, <1>8, <1>11, <3>2
    <3> QED BY <1>13, <2>2, <3>1, <3>3 DEF Lineage, RequestsOK
  <2> QED BY <1>12, <2>1, <2>2 DEF RequestsOK, Allocated
<1>18. OneFamilyPerCode'
  <2> SUFFICES ASSUME NEW i \in Jtis, NEW j \in Jtis,
                      token'[i].code = token'[j].code, token'[i].code # NoCode
               PROVE  token'[i].family = token'[j].family
    BY DEF OneFamilyPerCode
  <2> DEFINE o(h) == IF h = n THEN k ELSE h
  <2>1. \A h \in Jtis : /\ o(h) \in Jtis
                        /\ token'[h].code = token[o(h)].code
                        /\ token'[h].family = token[o(h)].family
    BY <1>3, <1>6, <1>8, <1>9, <1>11
  <2> HIDE DEF o
  <2> QED BY <2>1 DEF Lineage, OneFamilyPerCode
<1>19. \A j \in Jtis : token'[j].status = "live" => j = n \/
            (token[j].status = "live" /\ token'[j].family = token[j].family /\ j # k)
  BY <1>7, <1>8, <1>11
<1>20. f \notin overlapped =>
          \A j \in Jtis : token'[j].status = "live" /\ token'[j].family = f => j = n
  <2> SUFFICES ASSUME f \notin overlapped, NEW j \in Jtis,
                      token'[j].status = "live", token'[j].family = f, j # n
               PROVE  FALSE
    OBVIOUS
  <2>1. token[j].status = "live" /\ token[j].family = f /\ j # k
    BY <1>19
  <2>2. \A i \in Live(f) : i = k
    BY <1>9, <1>14 DEF Lineage, RotatesTip
  <2> QED BY <2>1, <2>2 DEF Live, Family
<1>21. ForkNeedsOverlap'
  <2> SUFFICES ASSUME NEW g \in Jtis, g \notin overlapped, NEW i \in Jtis, NEW j \in Jtis,
                      token'[i].status = "live", token'[i].family = g,
                      token'[j].status = "live", token'[j].family = g
               PROVE  i = j
    BY <1>12 DEF ForkNeedsOverlap, Live, Family
  <2>1. CASE g = f
    BY <1>20, <2>1
  <2>2. CASE g # f
    <3>1. i # n /\ j # n
      BY <1>6, <1>8, <2>2
    <3>2. i \in Live(g) /\ j \in Live(g)
      BY <1>19, <3>1 DEF Live, Family
    <3> QED BY <3>2 DEF Lineage, ForkNeedsOverlap
  <2> QED BY <2>1, <2>2
<1>22. \A t \in Requests : request'[t].op = "rotate" =>
          /\ t # r /\ request'[t] = request[t] /\ request[t].row \in Jtis
          /\ token'[request[t].row].family = token[request[t].row].family
  <2> SUFFICES ASSUME NEW t \in Requests, request'[t].op = "rotate"
               PROVE  /\ t # r /\ request'[t] = request[t] /\ request[t].row \in Jtis
                      /\ token'[request[t].row].family = token[request[t].row].family
    OBVIOUS
  <2>1. t # r /\ request'[t] = request[t]
    BY <1>13
  <2>2. request[t].row \in Jtis /\ Allocated(request[t].row)
    BY <2>1 DEF Lineage, RequestsOK
  <2> QED BY <1>2, <1>11, <2>1, <2>2
<1>23. RotatesTip'
  <2> SUFFICES ASSUME NEW s \in Requests, request'[s].op = "rotate",
                      token'[request'[s].row].family \notin overlapped
               PROVE  /\ \A t \in Requests : request'[t].op = "rotate"
                            /\ token'[request'[t].row].family = token'[request'[s].row].family
                            => t = s
                      /\ \A j \in Live(token[request[s].row].family)' : j = request'[s].row
    BY <1>12 DEF RotatesTip, Rotating, Live, Family
  <2> DEFINE g == token[request[s].row].family
  <2>1. g \notin overlapped /\ request[s].op = "rotate" /\ request[s].row \in Jtis
    BY <1>22
  <2>2. /\ \A t \in Rotating(g) : t = s
        /\ \A j \in Live(g) : j = request[s].row
    BY <2>1 DEF Lineage, RotatesTip
  <2>3. g # f
    BY <1>9, <1>14, <1>22, <2>2 DEF Rotating
  <2>4. \A t \in Requests : request'[t].op = "rotate"
            /\ token'[request'[t].row].family = g => t = s
    BY <1>22, <2>2 DEF Rotating
  <2>5. ASSUME NEW j \in Jtis, token'[j].status = "live", token'[j].family = g
        PROVE  j = request[s].row
    <3>1. j # k /\ j # n
      BY <1>6, <1>7, <1>8, <2>3, <2>5
    <3> QED BY <1>8, <2>2, <2>5, <3>1 DEF Live, Family
  <2> QED BY <1>22, <2>4, <2>5 DEF Live, Family
<1>24. TipHasParent'
  <2> SUFFICES ASSUME NEW g \in Jtis, g \notin overlapped, NEW j \in Jtis, j # g,
                      token'[j].status = "live", token'[j].family = g
               PROVE  \E h \in Jtis : /\ token'[h].status # "none" /\ token'[h].family = g
                                      /\ token'[h].next = j
    BY <1>12 DEF TipHasParent, Live, Family
  <2>1. CASE g = f
    <3>1. j = n
      BY <1>20, <2>1
    <3> QED BY <1>3, <1>7, <1>8, <2>1, <3>1
  <2>2. CASE g # f
    <3>1. j \in Live(g)
      <4>1. j # n
        BY <1>6, <1>8, <2>2
      <4> QED BY <1>19, <4>1 DEF Live, Family
    <3>2. PICK h \in Family(g) : token[h].next = j
      BY <3>1 DEF Lineage, TipHasParent
    <3>3. h \in Jtis /\ h # n /\ h # k
      BY <1>2, <1>9, <2>2, <3>2 DEF Family, Allocated
    <3>4. token'[h] = token[h]
      BY <1>8, <3>3
    <3> QED BY <3>2, <3>3, <3>4 DEF Family
  <2> QED BY <2>1, <2>2
<1> QED BY <1>16, <1>17, <1>18, <1>21, <1>23, <1>24 DEF Lineage

LEMMA LineageStep == TypeOK /\ Lineage /\ [Next]_vars => Lineage'
<1> SUFFICES ASSUME TypeOK, Lineage, [Next]_vars PROVE Lineage'
    OBVIOUS
<1>1. CASE QuietAction
  BY <1>1, QuietSteps, QuietKeeps DEF Lineage
<1>2. ASSUME NEW r \in Requests, NEW c \in Codes, Redeem(r, c) PROVE Lineage'
  BY <1>2, RedeemKeeps
<1>3. ASSUME NEW r \in Requests, NEW j \in Jtis, Refresh(r, j) PROVE Lineage'
  <2>1. CASE token[j].status = "live" /\ RotateFrom(r, j)
    BY <1>3, <2>1, RotateFromKeeps DEF Refresh
  <2>2. CASE InGrace(j) /\ RotateFrom(r, token[j].next)
    <3>1. token[j].next \in Live(token[j].family)
      BY <2>2 DEF InGrace
    <3>2. token[j].next \in Jtis /\ token[token[j].next].status = "live"
      BY <3>1 DEF Live, Family
    <3> QED BY <1>3, <2>2, <3>2, RotateFromKeeps DEF Refresh
  <2>3. CASE /\ token' = Revoked(Family(token[j].family))
             /\ UNCHANGED <<users, vaults, reserved, code, request, vaultOp,
                            overlapped, resetCodes>>
    <3>1. Quiet
      BY <2>3, RevokedFades DEF Quiet, Ends, SpentStays
    <3> QED BY <3>1, QuietKeeps
  <2> QED BY <1>3, <2>1, <2>2, <2>3 DEF Refresh
<1>4. ASSUME NEW r \in Requests, GrantCommit(r) PROVE Lineage'
  BY <1>4, GrantKeeps
<1>5. ASSUME NEW r \in Requests, RotateCommit(r) PROVE Lineage'
  BY <1>5, RotateKeeps
<1> QED BY <1>1, <1>2, <1>3, <1>4, <1>5 DEF Next, QuietAction

-----------------------------------------------------------------------------
\* Rows that were usable after the step were usable before it, for the same
\* user and vault.
Milder == \A j \in Jtis :
    token'[j].status \in {"live", "lapsed"} =>
        /\ token[j].status \in {"live", "lapsed"}
        /\ token'[j].user = token[j].user /\ token'[j].vault = token[j].vault

Standing == RenameOK /\ ReservedUnnamed /\ RowsHaveUsers

LEMMA MilderKeeps ==
    ASSUME Standing, Milder, users' = users, reserved' \subseteq reserved, RenameOK'
    PROVE  Standing'
BY DEF Standing, Milder, ReservedUnnamed, RowsHaveUsers, Unrevoked

LEMMA RevokedMilder == ASSUME TypeOK, NEW S, token' = Revoked(S) PROVE Milder
BY RevokedRows DEF Milder, Unrevoked

LEMMA StandingStep == TypeOK /\ Lineage /\ Standing /\ [Next]_vars => Standing'
<1> SUFFICES ASSUME TypeOK, Lineage, Standing, [Next]_vars PROVE Standing'
    OBVIOUS
<1>1. UNCHANGED token => Milder
  BY DEF Milder
<1>2. UNCHANGED vaultOp /\ reserved' \subseteq reserved => RenameOK'
  BY DEF Standing, RenameOK
<1>3. vaultOp' = NoOp => RenameOK'
  BY DEF RenameOK, NoOp
<1>4. ASSUME NEW u \in Users, NEW v \in Vaults, IssueCode(u, v) PROVE Standing'
  BY <1>1, <1>2, <1>4, MilderKeeps DEF IssueCode
<1>5. ASSUME NEW r \in Requests, NEW c \in Codes, Redeem(r, c) PROVE Standing'
  BY <1>1, <1>2, <1>5, MilderKeeps DEF Redeem
<1>6. ASSUME NEW r \in Requests, NEW j \in Jtis, Refresh(r, j) PROVE Standing'
  <2>1. CASE \E k : RotateFrom(r, k)
    BY <1>1, <1>2, <2>1, MilderKeeps DEF RotateFrom
  <2>2. CASE /\ token' = Revoked(Family(token[j].family))
             /\ UNCHANGED <<users, vaults, reserved, code, request, vaultOp,
                            overlapped, resetCodes>>
    BY <1>2, <2>2, RevokedMilder, MilderKeeps
  <2> QED BY <1>6, <2>1, <2>2 DEF Refresh
<1>7. ASSUME NEW r \in Requests, GrantCommit(r) PROVE Standing'
  <2> DEFINE x(n) == [status |-> "live", family |-> n, user |-> request[r].user,
                      vault |-> request[r].vault, next |-> NoJti, code |-> request[r].code]
  <2>1. PICK n \in FreeJtis : token' = [token EXCEPT ![n] = x(n)]
    BY <1>7 DEF GrantCommit
  <2>2. /\ x(n).vault \notin reserved /\ x(n).user \in users
        /\ users' = users /\ reserved' = reserved /\ RenameOK'
    BY <1>2, <1>7 DEF GrantCommit, Insertable
  <2> HIDE DEF x
  <2>3. \A j \in Jtis : token'[j] = x(n) \/ token'[j] = token[j]
    BY <2>1 DEF TypeOK
  <2> QED BY <2>2, <2>3 DEF Standing, ReservedUnnamed, RowsHaveUsers, Unrevoked
<1>8. ASSUME NEW r \in Requests, RotateCommit(r) PROVE Standing'
  <2> DEFINE k == request[r].row
             x == [status |-> "live", family |-> token[k].family, user |-> request[r].user,
                   vault |-> request[r].vault, next |-> NoJti, code |-> token[k].code]
             y(n) == [token[k] EXCEPT !.status = "recent", !.next = n]
  <2>1. PICK n \in FreeJtis :
            token' = [j \in Jtis |-> CASE j = k -> y(n) [] j = n -> x [] OTHER -> token[j]]
    BY <1>8 DEF RotateCommit
  <2>2. /\ x.vault \notin reserved /\ x.user \in users
        /\ users' = users /\ reserved' = reserved /\ RenameOK'
    BY <1>2, <1>8 DEF RotateCommit, Insertable
  <2>3. token[k] \in RefreshTokenRow /\ n \in Jtis
    BY <1>8, FreeJti DEF RotateCommit, Lineage, RequestsOK, TypeOK
  <2>4. y(n).status = "recent"
    BY <2>3, LinkSet
  <2> HIDE DEF x, y
  <2>5. \A j \in Jtis : token'[j] = x \/ token'[j] = y(n) \/ token'[j] = token[j]
    BY <2>1
  <2> QED BY <2>2, <2>4, <2>5 DEF Standing, ReservedUnnamed, RowsHaveUsers, Unrevoked
<1>9. ASSUME NEW r \in Requests, CommitRefused(r) PROVE Standing'
  BY <1>1, <1>2, <1>9, MilderKeeps DEF CommitRefused
<1>10. ASSUME NEW j \in Jtis, Revoke(j) PROVE Standing'
  BY <1>2, <1>10, RevokedMilder, MilderKeeps DEF Revoke
<1>11. ASSUME NEW j \in Jtis, RowAges(j) PROVE Standing'
  <2>1. PICK s \in {"lapsed", "old"} :
            /\ token' = [token EXCEPT ![j].status = s]
            /\ s = "lapsed" => token[j].status = "live"
    BY <1>11 DEF RowAges
  <2> DEFINE x == [token[j] EXCEPT !.status = s]
  <2>2. x.status = s /\ x.user = token[j].user /\ x.vault = token[j].vault
    BY DEF TypeOK, RefreshTokenRow
  <2>3. token' = [token EXCEPT ![j] = x]
    BY <2>1
  <2> HIDE DEF x
  <2>4. Milder
    BY <2>1, <2>2, <2>3 DEF Milder, TypeOK
  <2> QED BY <1>2, <1>11, <2>4, MilderKeeps DEF RowAges
<1>12. ASSUME NEW u \in Users, ResetPassword(u) PROVE Standing'
  BY <1>2, <1>12, RevokedMilder, MilderKeeps DEF ResetPassword
<1>13. ASSUME NEW u \in Users, DeleteUser(u) PROVE Standing'
  <2>1. ASSUME NEW j \in Jtis, token'[j].status \in {"live", "lapsed"}
        PROVE  token'[j] = token[j] /\ token[j].user # u
    <3>1. CASE j \in UserRows(u)
      <4> DEFINE x == Revoked({j})[j]
      <4>1. x \in RefreshTokenRow
            /\ x.status = IF j \in {j} /\ Unrevoked(j) THEN "recent" ELSE token[j].status
        BY RevokedRows
      <4>2. token'[j] = [x EXCEPT !.user = NoUser]
        BY <1>13, <3>1 DEF DeleteUser
      <4> HIDE DEF x
      <4>3. token'[j].status = x.status
        BY <4>1, <4>2 DEF RefreshTokenRow
      <4> QED BY <2>1, <4>1, <4>3 DEF Unrevoked
    <3>2. CASE j \notin UserRows(u)
      BY <1>13, <3>2 DEF DeleteUser, UserRows
    <3> QED BY <3>1, <3>2
  <2>2. users' = users \ {u} /\ reserved' = reserved /\ RenameOK'
    BY <1>2, <1>13 DEF DeleteUser
  <2> QED BY <2>1, <2>2 DEF Standing, ReservedUnnamed, RowsHaveUsers, Unrevoked
<1>14. ASSUME NEW v \in Vaults, DeleteSweep(v) PROVE Standing'
  <2>1. RenameOK'
    BY <1>14 DEF DeleteSweep, RenameOK
  <2> QED BY <1>14, <2>1, RevokedMilder, MilderKeeps DEF DeleteSweep
<1>15. ASSUME NEW v \in Vaults, CreateVault(v) \/ ReservationEnds(v) PROVE Standing'
  <2>1. /\ UNCHANGED vaultOp /\ UNCHANGED token /\ users' = users /\ reserved' \subseteq reserved
    BY <1>15 DEF CreateVault, ReservationEnds
  <2> QED BY <1>1, <1>2, <2>1, MilderKeeps
<1>16. ASSUME NEW v \in Vaults, NEW w \in Vaults, RenameStarts(v, w) PROVE Standing'
  <2>1. RenameOK'
    BY <1>16 DEF RenameStarts, RenameOK
  <2> QED BY <1>1, <1>16, <2>1, MilderKeeps DEF RenameStarts
<1>17. CASE VaultRemoved \/ VaultOpFails
  BY <1>1, <1>3, <1>17, MilderKeeps DEF VaultRemoved, VaultOpFails
<1>18. CASE RenameCommits
  <2> DEFINE v == vaultOp.vault  w == vaultOp.to
  <2>1. w \notin reserved /\ w # v
    BY <1>18 DEF RenameCommits, Standing, RenameOK
  <2>2. ASSUME NEW j \in Jtis, token'[j].status \in {"live", "lapsed"}
        PROVE  /\ Unrevoked(j) /\ token'[j].user = token[j].user
               /\ token'[j].vault = IF token[j].vault = v THEN w ELSE token[j].vault
    <3>1. token'[j] = IF Unrevoked(j) /\ token[j].vault = v
                      THEN [token[j] EXCEPT !.vault = w] ELSE token[j]
      BY <1>18 DEF RenameCommits
    <3>2. token[j] \in RefreshTokenRow
      BY DEF TypeOK
    <3>3. CASE Unrevoked(j) /\ token[j].vault = v
      <4>1. token'[j] = [token[j] EXCEPT !.vault = w]
        BY <3>1, <3>3
      <4> QED BY <3>2, <3>3, <4>1 DEF RefreshTokenRow
    <3>4. CASE ~(Unrevoked(j) /\ token[j].vault = v)
      BY <2>2, <3>1, <3>4 DEF Unrevoked
    <3> QED BY <3>3, <3>4
  <2>3. users' = users /\ reserved' = reserved \cup {v} /\ RenameOK'
    BY <1>3, <1>18 DEF RenameCommits
  <2> QED BY <2>1, <2>2, <2>3 DEF Standing, ReservedUnnamed, RowsHaveUsers, Unrevoked
<1>19. ASSUME NEW c \in Codes, CodeExpires(c) PROVE Standing'
  BY <1>1, <1>2, <1>19, MilderKeeps DEF CodeExpires
<1>20. CASE HubCrash
  BY <1>1, <1>3, <1>20, MilderKeeps DEF HubCrash
<1>21. CASE UNCHANGED vars
  BY <1>1, <1>2, <1>21, MilderKeeps DEF vars
<1> QED BY <1>4, <1>5, <1>6, <1>7, <1>8, <1>9, <1>10, <1>11, <1>12, <1>13, <1>14, <1>15, <1>16,
           <1>17, <1>18, <1>19, <1>20, <1>21 DEF Next

-----------------------------------------------------------------------------
LEMMA InitLemma == Init => IInv
<1> SUFFICES ASSUME Init PROVE IInv
    OBVIOUS
<1>1. /\ \A j \in Jtis : token[j] = NoRow
      /\ \A r \in Requests : request[r] = Idle
      /\ vaultOp = NoOp /\ users = Users /\ overlapped = {}
  BY DEF Init
<1>2. /\ NoRow.status = "none" /\ NoRow.code = NoCode
      /\ Idle.op = "idle" /\ NoOp.op = "idle"
  BY DEF NoRow, Idle, NoOp
<1>3. TypeOK
  <2>1. code \in [Codes -> AuthCode]
    BY DEF Init, AuthCode
  <2>2. /\ token \in [Jtis -> RefreshTokenRow] /\ request \in [Requests -> TokenRequest]
        /\ vaultOp \in VaultOp
    BY BlankTyped DEF Init
  <2> QED BY <1>1, <1>2, <2>1, <2>2 DEF Init, TypeOK
<1>4. RowsOK /\ RequestsOK
  BY <1>1, <1>2 DEF RowsOK, RequestsOK, Allocated
<1>5. OneFamilyPerCode /\ ForkNeedsOverlap /\ TipHasParent /\ RotatesTip
  BY <1>1, <1>2 DEF OneFamilyPerCode, ForkNeedsOverlap, TipHasParent, RotatesTip, Live, Family
<1>6. RenameOK /\ ReservedUnnamed /\ RowsHaveUsers
  BY <1>1, <1>2 DEF RenameOK, ReservedUnnamed, RowsHaveUsers, Unrevoked
<1> QED BY <1>3, <1>4, <1>5, <1>6 DEF IInv, Lineage

\* The inductive invariant holds in every reachable state.
THEOREM Inductive == Spec => []IInv
<1>1. IInv /\ [Next]_vars => IInv'
  <2> SUFFICES ASSUME IInv, [Next]_vars PROVE IInv'
    OBVIOUS
  <2>1. TypeOK'
    BY TypeStep DEF IInv, Lineage
  <2>2. Lineage'
    BY LineageStep DEF IInv
  <2>3. Standing'
    BY StandingStep DEF IInv, Standing
  <2> QED BY <2>1, <2>2, <2>3 DEF IInv, Standing
<1> QED BY <1>1, InitLemma, PTL DEF Spec

\* Every table keeps its shape; every row belongs to a family.
THEOREM TypeCorrect == Spec => []TypeOK
BY Inductive, PTL DEF IInv

\* Only rotations that overlap in time can fork a family, whatever the number
\* of requests, replays, crashes and administrative rewrites.
THEOREM NoForkWithoutOverlap == Spec => []ForkNeedsOverlap
BY Inductive, PTL DEF IInv, Lineage

\* Without overlap the grace window recognises the predecessor of every tip.
THEOREM TipsHaveParents == Spec => []TipHasParent
BY Inductive, PTL DEF IInv, Lineage

\* One code, one family.
THEOREM CodesAreSingleUse == Spec => []OneFamilyPerCode
BY Inductive, PTL DEF IInv, Lineage

\* A usable row has a user, and names no vault whose name is reserved.
THEOREM RowsBacked == Spec => []RowsStayBacked
<1>1. IInv => RowsStayBacked
  BY DEF IInv, RowsStayBacked
<1> QED BY <1>1, Inductive, PTL

\* No step but the two commits makes a row live; a grant starts a new family,
\* and a rotation belongs to a family that has a handler in flight.
LEMMA NewLiveRow ==
    ASSUME IInv, Next, NEW j \in Jtis, token'[j].status = "live", token[j].status # "live"
    PROVE  \/ ~Allocated(j) /\ token'[j].family = j
           \/ /\ ~Allocated(j)
              /\ \E r \in Requests : /\ request[r].op = "rotate"
                                     /\ token[request[r].row].family = token'[j].family
<1>1. CASE QuietAction
  <2>1. Fades
    BY <1>1, QuietSteps DEF IInv, Lineage, Quiet
  <2> QED BY <2>1 DEF Fades
<1>2. ASSUME NEW r \in Requests, NEW c \in Codes, Redeem(r, c) PROVE FALSE
  BY <1>2 DEF Redeem
<1>3. ASSUME NEW r \in Requests, NEW i \in Jtis, Refresh(r, i) PROVE FALSE
  <2>1. CASE token' = token
    BY <2>1
  <2>2. CASE token' = Revoked(Family(token[i].family))
    BY <2>2, RevokedFades DEF Fades, IInv
  <2> QED BY <1>3, <2>1, <2>2 DEF Refresh, RotateFrom
<1>4. ASSUME NEW r \in Requests, GrantCommit(r)
      PROVE  ~Allocated(j) /\ token'[j].family = j
  <2> DEFINE x(n) == [status |-> "live", family |-> n, user |-> request[r].user,
                      vault |-> request[r].vault, next |-> NoJti, code |-> request[r].code]
  <2>1. PICK n \in FreeJtis : token' = [token EXCEPT ![n] = x(n)]
    BY <1>4 DEF GrantCommit
  <2>2. n \in Jtis /\ ~Allocated(n) /\ x(n).family = n
    BY FreeJti DEF Allocated
  <2> HIDE DEF x
  <2>3. j = n /\ token'[j] = x(n)
    BY <2>1, <2>2 DEF IInv, TypeOK
  <2> QED BY <2>2, <2>3
<1>5. ASSUME NEW r \in Requests, RotateCommit(r)
      PROVE  /\ ~Allocated(j) /\ request[r].op = "rotate"
             /\ token[request[r].row].family = token'[j].family
  <2> DEFINE k == request[r].row
             x == [status |-> "live", family |-> token[k].family, user |-> request[r].user,
                   vault |-> request[r].vault, next |-> NoJti, code |-> token[k].code]
             y(n) == [token[k] EXCEPT !.status = "recent", !.next = n]
  <2>1. PICK n \in FreeJtis :
            token' = [i \in Jtis |-> CASE i = k -> y(n) [] i = n -> x [] OTHER -> token[i]]
    BY <1>5 DEF RotateCommit
  <2>2. token[k] \in RefreshTokenRow /\ n \in Jtis /\ ~Allocated(n) /\ request[r].op = "rotate"
    BY <1>5, FreeJti DEF RotateCommit, IInv, Lineage, RequestsOK, TypeOK, Allocated
  <2>3. y(n).status = "recent" /\ x.family = token[k].family
    BY <2>2, LinkSet
  <2> HIDE DEF x, y
  <2>4. j # k
    <3>1. k # n
      BY <1>5, <2>2 DEF RotateCommit, IInv, Lineage, RequestsOK, Allocated
    <3> QED BY <2>1, <2>3, <3>1
  <2>5. j = n /\ token'[j] = x
    BY <2>1, <2>4
  <2> QED BY <2>2, <2>3, <2>5
<1> QED BY <1>1, <1>2, <1>3, <1>4, <1>5 DEF Next, QuietAction

\* Rows are never deleted nor moved to another family.
LEMMA RowsStay == ASSUME IInv, Next, NEW j \in Jtis, Allocated(j)
                  PROVE  token'[j].status # "none" /\ token'[j].family = token[j].family
<1>1. CASE QuietAction
  <2>1. Fades
    BY <1>1, QuietSteps DEF IInv, Lineage, Quiet
  <2> QED BY <2>1 DEF Fades
<1>2. ASSUME NEW r \in Requests, NEW c \in Codes, Redeem(r, c)
      PROVE  token'[j] = token[j]
  BY <1>2 DEF Redeem
<1>3. ASSUME NEW r \in Requests, NEW i \in Jtis, Refresh(r, i)
      PROVE  token'[j].status # "none" /\ token'[j].family = token[j].family
  <2>1. CASE token' = token
    BY <2>1 DEF Allocated
  <2>2. CASE token' = Revoked(Family(token[i].family))
    BY <2>2, RevokedFades DEF Fades, IInv
  <2> QED BY <1>3, <2>1, <2>2 DEF Refresh, RotateFrom
<1>4. ASSUME NEW r \in Requests, GrantCommit(r)
      PROVE  token'[j] = token[j]
  <2>1. PICK n \in FreeJtis : \E x : token' = [token EXCEPT ![n] = x]
    BY <1>4 DEF GrantCommit
  <2>2. j # n
    BY FreeJti DEF Allocated
  <2> QED BY <2>1, <2>2 DEF IInv, TypeOK
<1>5. ASSUME NEW r \in Requests, RotateCommit(r)
      PROVE  token'[j].status # "none" /\ token'[j].family = token[j].family
  <2> DEFINE k == request[r].row
             x == [status |-> "live", family |-> token[k].family, user |-> request[r].user,
                   vault |-> request[r].vault, next |-> NoJti, code |-> token[k].code]
             y(n) == [token[k] EXCEPT !.status = "recent", !.next = n]
  <2>1. PICK n \in FreeJtis :
            token' = [i \in Jtis |-> CASE i = k -> y(n) [] i = n -> x [] OTHER -> token[i]]
    BY <1>5 DEF RotateCommit
  <2>2. token[k] \in RefreshTokenRow /\ n \in Jtis /\ j # n
    BY <1>5, FreeJti DEF RotateCommit, IInv, Lineage, RequestsOK, TypeOK, Allocated
  <2>3. y(n).status = "recent" /\ y(n).family = token[k].family
    BY <2>2, LinkSet
  <2> HIDE DEF x, y
  <2>4. CASE j = k
    BY <2>1, <2>2, <2>3, <2>4
  <2>5. CASE j # k
    BY <2>1, <2>2, <2>5 DEF Allocated
  <2> QED BY <2>4, <2>5
<1> QED BY <1>1, <1>2, <1>3, <1>4, <1>5 DEF Next, QuietAction, Allocated

\* A handler starts a rotation from a live row only.
LEMMA NewRotation ==
    ASSUME IInv, Next, NEW r \in Requests, request'[r].op = "rotate", request'[r] # request[r]
    PROVE  request'[r].row \in Jtis /\ token[request'[r].row].status = "live"
           /\ token' = token
<1>1. CASE QuietAction
  <2>1. Ends
    BY <1>1, QuietSteps DEF IInv, Lineage, Quiet
  <2> QED BY <2>1 DEF Ends, Idle
<1>2. ASSUME NEW s \in Requests, NEW c \in Codes, Redeem(s, c) PROVE FALSE
  <2>1. \E q : q.op = "grant" /\ (request' = [request EXCEPT ![s] = q] \/ request' = request)
    BY <1>2 DEF Redeem
  <2> QED BY <2>1 DEF IInv, TypeOK
<1>3. ASSUME NEW s \in Requests, NEW i \in Jtis, Refresh(s, i)
      PROVE  request'[r].row \in Jtis /\ token[request'[r].row].status = "live"
             /\ token' = token
  <2>1. ASSUME NEW k \in Jtis, token[k].status = "live", RotateFrom(s, k)
        PROVE  request'[r].row \in Jtis /\ token[request'[r].row].status = "live"
               /\ token' = token
    <3>1. PICK q : q.row = k /\ request' = [request EXCEPT ![s] = q] /\ token' = token
      BY <2>1 DEF RotateFrom
    <3>2. request'[r] = q
      BY <3>1 DEF IInv, TypeOK
    <3> QED BY <2>1, <3>1, <3>2
  <2>2. CASE token[i].status = "live" /\ RotateFrom(s, i)
    BY <2>1, <2>2
  <2>3. CASE InGrace(i) /\ RotateFrom(s, token[i].next)
    <3>1. token[i].next \in Live(token[i].family)
      BY <2>3 DEF InGrace
    <3>2. token[i].next \in Jtis /\ token[token[i].next].status = "live"
      BY <3>1 DEF Live, Family
    <3> QED BY <2>1, <2>3, <3>2
  <2> QED BY <1>3, <2>2, <2>3 DEF Refresh
<1>4. ASSUME NEW s \in Requests, GrantCommit(s) \/ RotateCommit(s) PROVE FALSE
  <2>1. request' = [request EXCEPT ![s] = Idle] /\ Idle.op = "idle"
    BY <1>4 DEF GrantCommit, RotateCommit, Idle
  <2> QED BY <2>1 DEF IInv, TypeOK
<1> QED BY <1>1, <1>2, <1>3, <1>4 DEF Next, QuietAction

\* A family that is over stays over: nothing rotates it, nothing revives it.
THEOREM OverIsFinal == Spec => OverStaysOver
<1> DEFINE Stays == \A f \in Jtis : Over(f) => Over(f)'
<1>1. IInv /\ [Next]_vars => [Stays]_vars
  <2> SUFFICES ASSUME IInv, Next, NEW f \in Jtis, Over(f) PROVE Over(f)'
    OBVIOUS
  <2>1. PICK i \in Jtis : Allocated(i) /\ token[i].family = f
    BY DEF Over, Family, Allocated
  <2>2. Allocated(f)
    BY <2>1 DEF IInv, Lineage, RowsOK, Allocated
  <2>3. token'[i].status # "none" /\ token'[i].family = f
    BY <2>1, RowsStay
  <2>4. ASSUME NEW j \in Jtis, token'[j].status = "live", token'[j].family = f PROVE FALSE
    <3>1. CASE token[j].status = "live"
      <4>1. token[j].family = f
        BY <2>4, <3>1, RowsStay DEF Allocated
      <4> QED BY <3>1, <4>1 DEF Over, Live, Family
    <3>2. CASE token[j].status # "live"
      BY <2>2, <2>4, <3>2, NewLiveRow DEF Over, Rotating
    <3> QED BY <3>1, <3>2
  <2>5. ASSUME NEW r \in Requests, request'[r].op = "rotate",
               token'[request'[r].row].family = f
        PROVE  FALSE
    <3>1. CASE request'[r] = request[r]
      <4>1. request[r].row \in Jtis /\ Allocated(request[r].row) /\ request[r].op = "rotate"
        BY <2>5, <3>1 DEF IInv, Lineage, RequestsOK
      <4>2. token[request[r].row].family = f
        BY <2>5, <3>1, <4>1, RowsStay
      <4> QED BY <4>1, <4>2 DEF Over, Rotating
    <3>2. CASE request'[r] # request[r]
      BY <2>5, <3>2, NewRotation DEF Over, Live, Family
    <3> QED BY <3>1, <3>2
  <2> QED BY <2>3, <2>4, <2>5 DEF Over, Live, Family, Rotating
<1> QED BY <1>1, Inductive, PTL DEF Spec, OverStaysOver

\* However a rotation ends, no family loses its last live row to it.
THEOREM RotationIsAtomic == Spec => RotationNeverStrands
<1> DEFINE Keeps == \A r \in Requests, f \in Jtis :
                        /\ request[r].op = "rotate" /\ request'[r].op = "idle"
                        /\ Live(f) # {}
                        => Live(f)' # {}
<1>1. IInv /\ [Next]_vars => [Keeps]_vars
  <2> SUFFICES ASSUME IInv, Next, NEW r \in Requests, NEW f \in Jtis,
                      request[r].op = "rotate", request'[r].op = "idle",
                      NEW j \in Jtis, token[j].status = "live", token[j].family = f
               PROVE  \E i \in Jtis : token'[i].status = "live" /\ token'[i].family = f
    BY DEF Live, Family
  <2>1. request' # request
    OBVIOUS
  <2>2. CASE token' = token
    BY <2>2
  <2>3. CASE RotateCommit(r)
    <3> DEFINE k == request[r].row
               x == [status |-> "live", family |-> token[k].family, user |-> request[r].user,
                     vault |-> request[r].vault, next |-> NoJti, code |-> token[k].code]
               y(n) == [token[k] EXCEPT !.status = "recent", !.next = n]
    <3>1. PICK n \in FreeJtis :
              token' = [i \in Jtis |-> CASE i = k -> y(n) [] i = n -> x [] OTHER -> token[i]]
      BY <2>3 DEF RotateCommit
    <3>2. n \in Jtis /\ n # k /\ n # j
      BY <2>3, FreeJti DEF RotateCommit, IInv, Lineage, RequestsOK, Allocated
    <3>3. x.status = "live" /\ x.family = token[k].family
      OBVIOUS
    <3> HIDE DEF x, y
    <3>4. token'[n] = x
      BY <3>1, <3>2
    <3>5. CASE j = k
      BY <3>2, <3>3, <3>4, <3>5
    <3>6. CASE j # k
      BY <3>1, <3>2, <3>6
    <3> QED BY <3>5, <3>6
  <2>4. ASSUME NEW s \in Requests, s # r, RotateCommit(s) PROVE FALSE
    BY <2>4 DEF RotateCommit, IInv, TypeOK
  <2>5. ASSUME NEW s \in Requests, GrantCommit(s) PROVE FALSE
    BY <2>5 DEF GrantCommit, IInv, TypeOK
  <2>6. ASSUME NEW s \in Requests, NEW i \in Jtis, Refresh(s, i) PROVE token' = token
    BY <2>1, <2>6 DEF Refresh, RotateFrom
  <2>7. ASSUME NEW s \in Requests, NEW c \in Codes, Redeem(s, c) PROVE token' = token
    BY <2>7 DEF Redeem
  <2>8. CASE QuietAction
    BY <2>1, <2>2, <2>8 DEF QuietAction, IssueCode, CommitRefused, Revoke, RowAges,
        ResetPassword, DeleteUser, DeleteSweep, CreateVault, ReservationEnds, RenameStarts,
        VaultRemoved, RenameCommits, VaultOpFails, CodeExpires, HubCrash, vars
  <2> QED BY <2>2, <2>3, <2>4, <2>5, <2>6, <2>7, <2>8 DEF Next, QuietAction
<1> QED BY <1>1, Inductive, PTL DEF Spec, RotationNeverStrands

=============================================================================
