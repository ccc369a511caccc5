------------------------- MODULE OperatorTokenProofs -------------------------
(***************************************************************************)
(* Theorems about OperatorToken for any number of processes, tokens, keys  *)
(* and days.                                                               *)
(***************************************************************************)
EXTENDS OperatorToken, FiniteSetTheorems, TLAPS

LEMMA Times ==
    /\ TTL \in Nat /\ Threshold \in Nat /\ Threshold > 0 /\ Threshold < TTL
    /\ Retention \in Nat
    /\ MaxTokens \in Nat /\ MaxTokens > 0 /\ MaxKeys \in Nat /\ MaxKeys > 0
    /\ MaxStamp \in Nat /\ MaxTime \in Nat /\ MaxEvents \in Nat /\ IsFiniteSet(Procs)
BY TimesAssumption

USE Times

-----------------------------------------------------------------------------
\* Tokens are signed in the order of their numbers.
InTurn == \E n \in 0 .. MaxTokens : Signed = 1 .. n

\* Rows and files speak of tokens that were signed; a cut moves the owner's row.
Known ==
    /\ owner.cut <= owner.stamp
    /\ \A j \in Jtis : row[j] # "none" => j \in Signed
    /\ \A i \in Inodes : content[i] \in Jtis => content[i] \in Signed

\* One key signs; one that is retired was still there when its tokens' mints began.
KeysOutlast ==
    /\ \A k \in ActiveKeys, l \in ActiveKeys : k = l
    /\ \A j \in Signed : /\ token[j].kid \in Kids /\ token[j].exp <= now + TTL
                         /\ keys[token[j].kid].status = "retired"
                               => keys[token[j].kid].at + TTL >= token[j].exp

Mints(c) == c.at \in {"minting", "signing"}

Lands(c) == c.at \in {"opening", "writing", "renaming"}

\* What a command has in hand, by where it waits.
HandOf(c) ==
    /\ c.at = "idle" => c = Idle
    /\ c.at = "read" => c.cmd \in {"use", "heal"} /\ c.seen \in Signed
    /\ c.at # "idle" /\ c.at # "read" => c.cmd \in {"renew", "rotate"}
    /\ ~Lands(c) => c.jti = 0
    /\ (c.fd # 0) <=> c.at = "writing"
    /\ Mints(c) => /\ c.born = now /\ c.stamp <= owner.stamp
                   /\ c.stamp = owner.stamp => c.cut = owner.cut
    /\ c.at = "signing" => /\ c.kid \in Kids
                           /\ keys[c.kid].status = "retired" => keys[c.kid].at = now
    /\ Lands(c) => /\ c.jti \in Signed /\ token[c.jti].exp = now + TTL
                   /\ token[c.jti].set = c.set
                   /\ row[c.jti] = "revoked" => c.jti \in excused

\* What an undisturbed command has in hand besides.
AloneWith(c) ==
    /\ c.at = "read" => token[c.seen].set = chosen
    /\ c.cmd = "renew" => c.set = chosen
    /\ c.at = "writing" => c.fd = tmp /\ tmp # 0 /\ content[tmp] = 0
    /\ c.at = "renaming" => tmp # 0 /\ content[tmp] = c.jti

Hands == \A p \in Procs : HandOf(command[p])

Undisturbed ==
    ~overlapped => /\ \A p \in Procs, q \in Procs : Busy(p) /\ Busy(q) => p = q
                   /\ \A p \in Procs : AloneWith(command[p])

\* What is about to be renamed, or has been since a command read the file, is new.
NewerLands ==
    /\ tmp # 0 => tmp # file
    /\ (\E p \in Procs : command[p].at \in {"writing", "renaming"})
          => (tmp # 0 /\ content[tmp] \in Jtis => token[content[tmp]].exp >= now + TTL)
    /\ \A p \in Procs : command[p].at = "read" /\ Whole
          => OnDisk = command[p].seen \/ token[OnDisk].exp >= now + TTL

\* The token on disk outlasts the next use of an operator who comes weekly.
InTime ==
    /\ lastUse <= now /\ (weekly => now <= lastUse + Threshold)
    /\ Whole => token[OnDisk].exp > lastUse + Threshold
    /\ weekly => \A p \in Procs : command[p].at = "read" => now < token[command[p].seen].exp

IInv ==
    /\ TypeOK /\ InTurn /\ Known /\ KeysOutlast /\ Hands /\ Undisturbed /\ NewerLands /\ InTime
    /\ CutIsFinal /\ CredentialStands /\ ScopeSetSticks

-----------------------------------------------------------------------------
LEMMA IdleTyped ==
    /\ Idle \in Command /\ Idle.cmd = "none" /\ Idle.at = "idle" /\ Idle.jti = 0
    /\ Idle.fd = 0 /\ Idle.set = "none" /\ HandOf(Idle) /\ AloneWith(Idle)
BY DEF Idle, Command, ScopeSets, HandOf, AloneWith, Mints, Lands

\* An inode is always left to open: the names and the descriptors are fewer.
LEMMA InodeLeft == ASSUME TypeOK, tmp = 0 PROVE Unlinked # {}
<1> DEFINE fds == {command[q].fd : q \in Procs}
           g == [q \in Procs |-> command[q].fd]
           used == fds \cup {0} \cup {file}
           all == Inodes \cup {0}
           n == Cardinality(Procs)
<1>1. n \in Nat
  BY FS_CardinalityType
<1>2. IsFiniteSet(fds) /\ Cardinality(fds) <= n
  <2>1. g \in Surjection(Procs, fds)
    BY DEF Surjection
  <2> HIDE DEF g, fds
  <2> QED BY <2>1, FS_Surjection
<1> HIDE DEF fds, n
<1>3. Cardinality(fds) \in Nat
  BY <1>2, FS_CardinalityType
<1>4. IsFiniteSet(fds \cup {0}) /\ Cardinality(fds \cup {0}) <= n + 1
  <2>1. /\ IsFiniteSet(fds \cup {0})
        /\ Cardinality(fds \cup {0}) = IF 0 \in fds THEN Cardinality(fds) ELSE Cardinality(fds) + 1
    BY <1>2, FS_AddElement
  <2> QED BY <1>1, <1>2, <1>3, <2>1
<1>5. Cardinality(fds \cup {0}) \in Nat
  BY <1>4, FS_CardinalityType
<1>6. IsFiniteSet(used) /\ Cardinality(used) <= n + 2
  <2>1. /\ IsFiniteSet(used)
        /\ Cardinality(used) = IF file \in fds \cup {0} THEN Cardinality(fds \cup {0})
                                                        ELSE Cardinality(fds \cup {0}) + 1
    BY <1>4, FS_AddElement
  <2> QED BY <1>1, <1>4, <1>5, <2>1
<1>7. Cardinality(all) = n + 3
  <2>1. all = 0 .. n + 2
    BY <1>1 DEF Inodes, n
  <2>2. Cardinality(0 .. n + 2) = n + 3
    BY <1>1, FS_Interval
  <2> QED BY <2>1, <2>2
<1>8. CASE Unlinked = {}
  <2>1. all \subseteq used
    BY <1>8 DEF Unlinked, fds
  <2> HIDE DEF all, used
  <2>2. Cardinality(all) <= Cardinality(used) /\ Cardinality(used) \in Nat
    BY <1>6, <2>1, FS_Subset, FS_CardinalityType
  <2> QED BY <1>1, <1>6, <1>7, <2>2
<1> QED BY <1>8

LEMMA CommandTyped ==
    ASSUME TypeOK, NEW p \in Procs, NEW c \in Command, command' = [command EXCEPT ![p] = c]
    PROVE  /\ command' \in [Procs -> Command] /\ command'[p] = c
           /\ \A q \in Procs : q # p => command'[q] = command[q]
BY DEF TypeOK

\* A command goes on to c and touches no file, row or key.
LEMMA CommandStep ==
    ASSUME IInv, NEW p \in Procs, NEW c \in Command, command' = [command EXCEPT ![p] = c],
           UNCHANGED <<now, keys, token, row, owner, content, tmp, file, excused, weekly, events>>,
           chosen' \in ScopeSets, overlapped' \in BOOLEAN,
           lastUse' = lastUse \/ (lastUse' = now /\ (Whole => token[OnDisk].exp > now + Threshold)),
           HandOf(c), c.at \notin {"writing", "renaming"},
           c.at = "read" => /\ Whole => OnDisk = c.seen
                            /\ weekly => now < token[c.seen].exp,
           ~overlapped' => /\ \A q \in Procs : q # p => ~Busy(q)
                           /\ AloneWith(c)' /\ CredentialStands' /\ ScopeSetSticks'
    PROVE  IInv'
<1> USE DEF IInv
<1>1. /\ command' \in [Procs -> Command] /\ command'[p] = c
      /\ \A q \in Procs : q # p => command'[q] = command[q]
  BY CommandTyped
<1>2. TypeOK'
  BY <1>1 DEF TypeOK
<1>3. InTurn' /\ Known' /\ KeysOutlast' /\ CutIsFinal' /\ Signed' = Signed
  BY DEF InTurn, Known, KeysOutlast, CutIsFinal, Signed, ActiveKeys
<1>4. Hands'
  BY <1>1, <1>3 DEF Hands, HandOf, Mints, Lands
<1>5. Undisturbed'
  <2> SUFFICES ASSUME ~overlapped'
               PROVE  /\ \A q \in Procs, s \in Procs : Busy(q)' /\ Busy(s)' => q = s
                      /\ \A q \in Procs : AloneWith(command[q])'
    BY DEF Undisturbed
  <2>1. \A q \in Procs : q # p => command'[q] = command[q] /\ command[q].at = "idle"
    BY <1>1 DEF Busy
  <2>2. \A q \in Procs : q # p => command'[q] = Idle
    BY <2>1 DEF Hands, HandOf
  <2> QED BY <1>1, <2>1, <2>2, IdleTyped DEF Busy, AloneWith
<1>6. OnDisk' = OnDisk /\ Whole' = Whole
  BY DEF OnDisk, Whole
<1>7. NewerLands'
  BY <1>1, <1>6 DEF NewerLands
<1>8. InTime'
  BY <1>1, <1>6 DEF InTime, TypeOK
<1>9. CredentialStands' /\ ScopeSetSticks'
  BY DEF CredentialStands, ScopeSetSticks
<1> QED BY <1>2, <1>3, <1>4, <1>5, <1>7, <1>8, <1>9

LEMMA MintTyped ==
    ASSUME IInv, NEW p \in Procs, NEW cmd \in {"renew", "rotate"}, NEW set \in ScopeSets,
           MintBegins(p, cmd, set)
    PROVE  \E c \in Command : /\ command' = [command EXCEPT ![p] = c] /\ HandOf(c)
                              /\ c.cmd = cmd /\ c.set = set /\ Mints(c)
<1> DEFINE at == IF ActiveKeys = {} THEN "minting" ELSE "signing"
           kid == IF ActiveKeys = {} THEN 0 ELSE CHOOSE k \in ActiveKeys : TRUE
           d == [Idle EXCEPT !.cmd = cmd, !.set = set, !.stamp = owner.stamp, !.cut = owner.cut,
                             !.born = now, !.at = at, !.kid = kid]
<1>1. /\ at \in {"minting", "signing"} /\ kid \in 0 .. MaxKeys
      /\ at = "signing" => kid \in Kids /\ keys[kid].status = "active"
  <2>1. CASE ActiveKeys = {}
    BY <2>1
  <2>2. CASE ActiveKeys # {}
    <3>1. kid \in ActiveKeys
      BY <2>2
    <3> QED BY <2>2, <3>1 DEF ActiveKeys, Kids
  <2> QED BY <2>1, <2>2
<1>2. command' = [command EXCEPT ![p] = d]
  BY DEF MintBegins
<1> HIDE DEF at, kid
<1>3. owner.stamp \in 0 .. MaxStamp /\ owner.cut \in 0 .. MaxStamp /\ now \in 0 .. MaxTime
  BY DEF IInv, TypeOK
<1>4. PICK c \in Command : c = d
  BY <1>1, <1>3, IdleTyped DEF Idle, Command
<1>5. /\ c.cmd = cmd /\ c.set = set /\ c.stamp = owner.stamp /\ c.cut = owner.cut
      /\ c.born = now /\ c.at = at /\ c.kid = kid /\ c.jti = 0 /\ c.fd = 0
  BY <1>4 DEF Idle
<1>6. HandOf(c) /\ Mints(c)
  BY <1>1, <1>3, <1>5 DEF HandOf, Mints, Lands
<1> QED BY <1>2, <1>4, <1>5, <1>6

\* A command that begins undisturbed finds what the history says, or starts it anew.
LEMMA NotedStep ==
    ASSUME IInv, NEW p \in Procs, Noted(p),
           UNCHANGED <<token, row, content, file, excused>>
    PROVE  /\ chosen' \in ScopeSets /\ overlapped' \in BOOLEAN
           /\ ~overlapped' => /\ \A q \in Procs : q # p => ~Busy(q)
                              /\ CredentialStands' /\ ScopeSetSticks'
<1> DEFINE alone == \A q \in Procs \ {p} : ~Busy(q)
           inOrder == Whole /\ (row[OnDisk] = "revoked" => OnDisk \in excused)
<1>1. /\ overlapped' = (~alone \/ (overlapped /\ ~inOrder))
      /\ chosen' = IF alone /\ inOrder THEN token[OnDisk].set ELSE chosen
  BY DEF Noted
<1>2. OnDisk' = OnDisk /\ (Whole' <=> Whole)
  BY DEF OnDisk, Whole
<1>3. TypeOK /\ overlapped \in BOOLEAN
  BY DEF IInv, TypeOK
<1> HIDE DEF inOrder
<1>4. overlapped' \in BOOLEAN
  BY <1>1
<1>5. chosen' \in ScopeSets
  BY <1>1, <1>3 DEF TypeOK, Token, Whole, inOrder
<1>6. ~overlapped' => alone /\ (inOrder \/ ~overlapped)
  BY <1>1, <1>3
<1>7. ASSUME ~overlapped' PROVE CredentialStands' /\ ScopeSetSticks'
  <2>1. CASE inOrder
    BY <1>1, <1>2, <1>6, <1>7, <2>1 DEF inOrder, CredentialStands, ScopeSetSticks, Whole
  <2>2. CASE ~inOrder
    BY <1>1, <1>2, <1>6, <1>7, <2>2 DEF IInv, CredentialStands, ScopeSetSticks
  <2> QED BY <2>1, <2>2
<1> QED BY <1>4, <1>5, <1>6, <1>7

LEMMA ReadsStep == ASSUME IInv, NEW p \in Procs, Reads(p) PROVE IInv'
<1>1. /\ Noted(p) /\ ~Busy(p) /\ TypeOK
      /\ UNCHANGED <<now, keys, token, row, owner, content, tmp, file, excused, lastUse, weekly,
                     events>>
  BY DEF Reads, disk, IInv
<1>2. /\ chosen' \in ScopeSets /\ overlapped' \in BOOLEAN
      /\ ~overlapped' => /\ \A q \in Procs : q # p => ~Busy(q)
                         /\ CredentialStands' /\ ScopeSetSticks'
  BY <1>1, NotedStep
<1>3. CASE Ends(p)
  <2>1. AloneWith(Idle)'
    BY IdleTyped DEF AloneWith
  <2> HIDE DEF HandOf, AloneWith
  <2> QED BY <1>1, <1>2, <1>3, <2>1, IdleTyped, CommandStep DEF Ends
<1>4. ASSUME NEW cmd \in {"use", "heal"}, Whole,
             command' = [command EXCEPT ![p] = [Idle EXCEPT !.cmd = cmd, !.at = "read",
                                                            !.seen = OnDisk]]
      PROVE  IInv'
  <2>1. OnDisk \in Jtis /\ OnDisk \in Signed /\ OnDisk = content[file] /\ file \in Inodes
    BY <1>1, <1>4 DEF Whole, OnDisk, IInv, Known, TypeOK, Jtis
  <2>2. PICK c \in Command : c = [Idle EXCEPT !.cmd = cmd, !.at = "read", !.seen = OnDisk]
    BY <2>1, IdleTyped DEF Idle, Command
  <2>3. /\ c.cmd = cmd /\ c.at = "read" /\ c.seen = OnDisk /\ c.jti = 0 /\ c.fd = 0
    BY <2>2 DEF Idle
  <2>4. HandOf(c)
    BY <2>1, <2>3 DEF HandOf, Mints, Lands
  <2>5. weekly => now < token[c.seen].exp
    BY <1>1, <1>4, <2>1, <2>3 DEF IInv, InTime, TypeOK, Token
  <2>6. ~overlapped' => AloneWith(c)'
    BY <1>1, <1>2, <1>4, <2>3 DEF AloneWith, ScopeSetSticks, Whole, OnDisk
  <2>7. command' = [command EXCEPT ![p] = c]
    BY <1>4, <2>2
  <2> QED BY <1>1, <1>2, <2>3, <2>4, <2>5, <2>6, <2>7, CommandStep
<1> QED BY <1>3, <1>4 DEF Reads

LEMMA RotateBeginsStep == ASSUME IInv, NEW p \in Procs, RotateBegins(p) PROVE IInv'
<1>1. /\ Noted(p) /\ TypeOK
      /\ UNCHANGED <<now, keys, token, row, owner, content, tmp, file, excused, lastUse, weekly,
                     events>>
  BY DEF RotateBegins, disk, IInv
<1>2. /\ chosen' \in ScopeSets /\ overlapped' \in BOOLEAN
      /\ ~overlapped' => /\ \A q \in Procs : q # p => ~Busy(q)
                         /\ CredentialStands' /\ ScopeSetSticks'
  BY <1>1, NotedStep
<1>3. PICK set \in ScopeSets : MintBegins(p, "rotate", set)
  BY DEF RotateBegins, ScopeSets
<1>4. PICK c \in Command : /\ command' = [command EXCEPT ![p] = c] /\ HandOf(c)
                           /\ c.cmd = "rotate" /\ c.set = set /\ Mints(c)
  BY <1>3, MintTyped
<1>5. c.at \in {"minting", "signing"}
  BY <1>4 DEF Mints
<1>6. AloneWith(c)'
  BY <1>4, <1>5 DEF AloneWith
<1> QED BY <1>1, <1>2, <1>4, <1>5, <1>6, CommandStep

LEMMA ValidatedStep == ASSUME IInv, NEW p \in Procs, Validated(p) PROVE IInv'
<1> DEFINE j == command[p].seen
<1>1. /\ command[p].at = "read" /\ TypeOK /\ HandOf(command[p])
      /\ UNCHANGED <<now, keys, token, row, owner, content, tmp, file, chosen, overlapped,
                     excused, weekly, events>>
  BY DEF Validated, disk, IInv, Hands
<1>2. /\ j \in Signed /\ j \in Jtis /\ token[j] \in Token /\ now \in Nat
      /\ chosen' \in ScopeSets /\ overlapped' \in BOOLEAN
  BY <1>1 DEF HandOf, Signed, TypeOK
<1>3. ~overlapped => /\ \A q \in Procs : q # p => ~Busy(q)
                     /\ token[j].set = chosen
  BY <1>1 DEF IInv, Undisturbed, Busy, AloneWith
<1>4. ~overlapped' => CredentialStands' /\ ScopeSetSticks'
  BY <1>1 DEF IInv, CredentialStands, ScopeSetSticks, Whole, OnDisk
<1>5. \A q \in Procs : Busy(q) <=> command[q].at # "idle"
  BY DEF Busy
<1>6. ASSUME Ends(p), \/ UNCHANGED lastUse
                      \/ lastUse' = now /\ (Whole => token[OnDisk].exp > now + Threshold)
      PROVE  IInv'
  <2>1. AloneWith(Idle)'
    BY IdleTyped DEF AloneWith
  <2> QED BY <1>1, <1>2, <1>3, <1>4, <1>6, <2>1, IdleTyped, CommandStep DEF Ends
<1>7. ASSUME Reminted(p, j), UNCHANGED lastUse PROVE IInv'
  <2>1. CASE Ends(p)
    BY <1>6, <1>7, <2>1
  <2>2. CASE MintBegins(p, "renew", token[j].set)
    <3>1. token[j].set \in ScopeSets
      BY <1>2 DEF Token
    <3>2. PICK c \in Command : /\ command' = [command EXCEPT ![p] = c] /\ HandOf(c)
                               /\ c.cmd = "renew" /\ c.set = token[j].set /\ Mints(c)
      BY <2>2, <3>1, MintTyped
    <3>3. c.at \in {"minting", "signing"}
      BY <3>2 DEF Mints
    <3>4. ~overlapped' => AloneWith(c)'
      BY <1>1, <1>3, <3>2, <3>3 DEF AloneWith
    <3> QED BY <1>1, <1>2, <1>3, <1>4, <1>7, <3>2, <3>3, <3>4, CommandStep
  <2> QED BY <1>7, <2>1, <2>2 DEF Reminted
<1>8. ASSUME Fresh(j), lastUse' = now, Ends(p) PROVE IInv'
  <2>1. token[j].exp > now + Threshold
    BY <1>2, <1>8 DEF Fresh, Token
  <2>2. Whole => token[OnDisk].exp > now + Threshold
    <3>1. Whole => OnDisk = j \/ token[OnDisk].exp >= now + TTL
      BY <1>1 DEF IInv, NewerLands
    <3>2. Whole => token[OnDisk].exp \in Nat
      BY <1>1 DEF Whole, TypeOK, Token
    <3> QED BY <1>2, <2>1, <3>1, <3>2
  <2> QED BY <1>6, <1>8, <2>2
<1> QED BY <1>6, <1>7, <1>8 DEF Validated

-----------------------------------------------------------------------------
\* The new key is the one that signs, and the former is retired as of now.
LEMMA InstallsKeys ==
    ASSUME IInv, NEW k \in Unborn, Installs(k), UNCHANGED <<now, token>>
    PROVE  /\ keys' \in [Kids -> Key] /\ keys'[k].status = "active" /\ KeysOutlast'
           /\ \A l \in Kids : \/ keys'[l] = keys[l]
                              \/ keys'[l].status = "active"
                              \/ keys'[l].status = "retired" /\ keys'[l].at = now
<1>1. TypeOK /\ k \in Kids /\ keys \in [Kids -> Key] /\ now \in 0 .. MaxTime
  BY DEF IInv, TypeOK, Unborn
<1>2. ASSUME NEW l \in Kids
      PROVE  /\ keys'[l] \in Key
             /\ IF l = k THEN keys'[l].status = "active"
                ELSE IF keys[l].status = "active"
                THEN keys'[l].status = "retired" /\ keys'[l].at = now
                ELSE keys'[l] = keys[l]
  BY <1>1 DEF Installs, Key
<1>3. keys' \in [Kids -> Key]
  BY <1>2 DEF Installs
<1>4. \A l \in Kids : \/ keys'[l] = keys[l]
                      \/ keys'[l].status = "active"
                      \/ keys'[l].status = "retired" /\ keys'[l].at = now
  BY <1>2
<1>5. ActiveKeys' = {k}
  BY <1>1, <1>2 DEF ActiveKeys
<1>6. ASSUME NEW j \in Signed
      PROVE  /\ token[j].kid \in Kids /\ token[j].exp <= now + TTL
             /\ keys'[token[j].kid].status = "retired"
                   => keys'[token[j].kid].at + TTL >= token[j].exp
  <2>1. /\ token[j].kid \in Kids /\ token[j].exp <= now + TTL
        /\ keys[token[j].kid].status = "retired" => keys[token[j].kid].at + TTL >= token[j].exp
    BY DEF IInv, KeysOutlast
  <2> QED BY <1>4, <2>1
<1>7. Signed' = Signed
  BY DEF Signed
<1>8. KeysOutlast'
  BY <1>5, <1>6, <1>7 DEF KeysOutlast
<1> QED BY <1>1, <1>2, <1>3, <1>4, <1>8

\* A step on the keys alone, with the commands that wait for one.
LEMMA KeyStep ==
    ASSUME IInv, NEW k \in Unborn, Installs(k), command' \in [Procs -> Command],
           \A q \in Procs : \/ command'[q] = command[q]
                            \/ /\ command[q].at = "minting" /\ command'[q].at = "signing"
                               /\ command'[q] = [command[q] EXCEPT !.at = "signing", !.kid = k],
           UNCHANGED <<now, token, row, owner, content, tmp, file, chosen, overlapped, excused,
                       lastUse, weekly>>, events' \in 0 .. MaxEvents
    PROVE  IInv'
<1>1. /\ keys' \in [Kids -> Key] /\ keys'[k].status = "active" /\ KeysOutlast' /\ k \in Kids
      /\ \A l \in Kids : \/ keys'[l] = keys[l]
                         \/ keys'[l].status = "active"
                         \/ keys'[l].status = "retired" /\ keys'[l].at = now
  BY InstallsKeys DEF Unborn
<1>2. TypeOK' /\ TypeOK
  BY <1>1 DEF IInv, TypeOK
<1>3. InTurn' /\ Known' /\ CutIsFinal' /\ CredentialStands' /\ ScopeSetSticks'
  BY DEF IInv, InTurn, Known, CutIsFinal, CredentialStands, ScopeSetSticks, Signed, Whole, OnDisk
<1>4. ASSUME NEW q \in Procs
      PROVE  /\ HandOf(command[q])'
             /\ command'[q].cmd = command[q].cmd /\ command'[q].set = command[q].set
             /\ \/ command'[q] = command[q]
                \/ command[q].at = "minting" /\ command'[q].at = "signing"
  <2>1. HandOf(command[q]) /\ command[q] \in Command
    BY <1>2 DEF IInv, Hands, TypeOK
  <2>2. CASE command'[q] = command[q]
    <3>1. command[q].at = "signing" => /\ command[q].kid \in Kids
                                       /\ keys'[command[q].kid].status = "retired"
                                             => keys'[command[q].kid].at = now
      BY <1>1, <2>1 DEF HandOf
    <3> QED BY <2>1, <2>2, <3>1 DEF HandOf, Mints, Lands, Signed
  <2>3. CASE /\ command[q].at = "minting" /\ command'[q].at = "signing"
             /\ command'[q] = [command[q] EXCEPT !.at = "signing", !.kid = k]
    <3>1. /\ command'[q].kid = k /\ command'[q].cmd = command[q].cmd
          /\ command'[q].set = command[q].set
          /\ command'[q].jti = command[q].jti /\ command'[q].fd = command[q].fd
          /\ command'[q].born = command[q].born /\ command'[q].stamp = command[q].stamp
          /\ command'[q].cut = command[q].cut
      <4>1. PICK c \in Command : c = command[q]
        BY <2>1
      <4> QED BY <1>1, <2>3, <4>1 DEF Command
    <3> QED BY <1>1, <2>1, <2>3, <3>1 DEF HandOf, Mints, Lands
  <2> QED BY <2>2, <2>3
<1>5. \A q \in Procs : command'[q].at \in {"read", "writing", "renaming"}
                          => command'[q] = command[q]
  BY <1>4
<1>6. Undisturbed'
  <2>1. \A q \in Procs : Busy(q)' => Busy(q)
    BY <1>4 DEF Busy
  <2>2. ASSUME NEW q \in Procs, AloneWith(command[q]) PROVE AloneWith(command[q])'
    BY <1>4, <1>5, <2>2 DEF AloneWith
  <2> QED BY <2>1, <2>2 DEF IInv, Undisturbed
<1>7. OnDisk' = OnDisk /\ (Whole' <=> Whole)
  BY DEF OnDisk, Whole
<1>8. NewerLands' /\ InTime'
  BY <1>5, <1>7 DEF IInv, NewerLands, InTime
<1> QED BY <1>1, <1>2, <1>3, <1>4, <1>6, <1>8 DEF IInv, Hands

LEMMA FirstKeyStep == ASSUME IInv, NEW p \in Procs, FirstKey(p) PROVE IInv'
<1>1. PICK k \in Unborn :
        /\ Installs(k)
        /\ command' = [command EXCEPT ![p].at = "signing", ![p].kid = k]
  BY DEF FirstKey
<1>2. /\ command[p].at = "minting" /\ TypeOK /\ k \in Kids
      /\ UNCHANGED <<now, token, row, owner, content, tmp, file, chosen, overlapped, excused,
                     lastUse, weekly, events>>
  BY DEF FirstKey, disk, history, IInv, Unborn
<1>3. PICK c \in Command : c.at = "signing" /\ c = [command[p] EXCEPT !.at = "signing", !.kid = k]
  <2>1. PICK b \in Command : b = command[p]
    BY <1>2 DEF TypeOK
  <2>2. k \in 0 .. MaxKeys
    BY <1>2 DEF Kids
  <2> QED BY <2>1, <2>2 DEF Command
<1>5. command' = [command EXCEPT ![p] = c]
  BY <1>1, <1>2, <1>3 DEF TypeOK
<1>6. /\ command' \in [Procs -> Command] /\ command'[p] = c
      /\ \A q \in Procs : q # p => command'[q] = command[q]
  BY <1>2, <1>5, CommandTyped
<1> QED BY <1>1, <1>2, <1>3, <1>6, KeyStep DEF TypeOK

LEMMA RotateKeyStep == ASSUME IInv, RotateKey PROVE IInv'
<1>1. PICK k \in Unborn : Installs(k)
  BY DEF RotateKey
<1>2. /\ events < MaxEvents /\ events' = events + 1 /\ TypeOK
      /\ UNCHANGED <<now, token, row, owner, command, content, tmp, file, chosen, overlapped,
                     excused, lastUse, weekly>>
  BY DEF RotateKey, Event, disk, IInv
<1> QED BY <1>1, <1>2, KeyStep DEF TypeOK

LEMMA RecordsStep == ASSUME IInv, NEW p \in Procs, Records(p) PROVE IInv'
<1> DEFINE c == command[p]
           j == 1 + Cardinality(Signed)
<1>1. /\ TypeOK /\ c \in Command /\ c.at = "signing" /\ HandOf(c) /\ Signed # Jtis
      /\ UNCHANGED <<now, keys, owner, content, tmp, file, chosen, overlapped, excused, lastUse,
                     weekly, events>>
  BY DEF IInv, TypeOK, Hands, Records, disk, history
<1>2. PICK n \in 0 .. MaxTokens : Signed = 1 .. n
  BY DEF IInv, InTurn
<1>3. j = n + 1 /\ j \in Jtis /\ j \notin Signed
  <2>1. Cardinality(1 .. n) = n
    BY FS_Interval
  <2>2. n # MaxTokens
    BY <1>1, <1>2 DEF Jtis
  <2> QED BY <1>2, <2>1, <2>2 DEF Jtis
<1> HIDE DEF j
<1>4. /\ c.born = now /\ c.kid \in Kids /\ (c.stamp = owner.stamp => c.cut = owner.cut)
      /\ c.cmd \in {"renew", "rotate"} /\ now \in 0 .. MaxTime
      /\ (keys[c.kid].status = "retired" => keys[c.kid].at = now)
  BY <1>1 DEF HandOf, Mints, TypeOK
<1>5. PICK t \in Token : t = [set |-> c.set, kid |-> c.kid, exp |-> now + TTL, cut |-> c.cut]
  <2>1. c.set \in ScopeSets /\ c.cut \in 0 .. MaxStamp
    BY <1>1 DEF Command
  <2>2. c.kid \in 0 .. MaxKeys /\ now + TTL \in 0 .. MaxTime + TTL
    BY <1>4 DEF Kids
  <2> QED BY <2>1, <2>2 DEF Token
<1>6. t.set = c.set /\ t.kid = c.kid /\ t.exp = now + TTL /\ t.cut = c.cut
  BY <1>5
<1>7. token' = [token EXCEPT ![j] = t]
  BY <1>4, <1>5 DEF Records, Expiry, j
<1>8. /\ token' \in [Jtis -> Token] /\ token'[j] = t
      /\ \A i \in Jtis : i # j => token'[i] = token[i]
  BY <1>1, <1>3, <1>7 DEF TypeOK
<1>9. Signed' = Signed \cup {j} /\ now + TTL > 0
  <2>1. now + TTL > 0
    BY <1>4
  <2> QED BY <1>3, <1>6, <1>8, <2>1 DEF Signed
<1>10. PICK d \in Command :
         /\ command' = [command EXCEPT ![p] = d]
         /\ \/ d = Idle /\ UNCHANGED row
            \/ /\ d.cmd = c.cmd /\ d.set = c.set /\ d.at = "opening" /\ d.jti = j /\ d.fd = 0
               /\ row' = [row EXCEPT ![j] = "live"] /\ c.stamp = owner.stamp
  <2>1. CASE Unmoved(p)
    <3>1. PICK d \in Command :
            d = [Idle EXCEPT !.cmd = c.cmd, !.set = c.set, !.at = "opening", !.jti = j]
      BY <1>1, <1>3, IdleTyped DEF Idle, Command
    <3>2. d.cmd = c.cmd /\ d.set = c.set /\ d.at = "opening" /\ d.jti = j /\ d.fd = 0
      BY <3>1 DEF Idle
    <3>3. command' = [command EXCEPT ![p] = d] /\ row' = [row EXCEPT ![j] = "live"]
      BY <2>1, <3>1 DEF Records, j
    <3> QED BY <2>1, <3>2, <3>3 DEF Unmoved
  <2>2. CASE ~Unmoved(p)
    BY <2>2, IdleTyped DEF Records, Ends
  <2> QED BY <2>1, <2>2
<1>11. /\ command' \in [Procs -> Command] /\ command'[p] = d
       /\ \A q \in Procs : q # p => command'[q] = command[q]
  BY <1>1, <1>10, CommandTyped
<1>12. /\ row' \in [Jtis -> {"none", "live", "revoked"}]
       /\ \A i \in Jtis : i # j => row'[i] = row[i]
       /\ d # Idle => row'[j] = "live"
       /\ row[j] = "none"
  BY <1>1, <1>3, <1>10 DEF TypeOK, IInv, Known
<1>13. TypeOK'
  BY <1>1, <1>8, <1>11, <1>12 DEF TypeOK
<1>14. InTurn'
  <2>1. Signed' = 1 .. (n + 1) /\ n + 1 \in 0 .. MaxTokens
    BY <1>2, <1>3, <1>9 DEF Jtis
  <2> QED BY <2>1 DEF InTurn
<1>15. Known'
  BY <1>1, <1>9, <1>12 DEF IInv, Known
<1>16. KeysOutlast'
  <2>1. ASSUME NEW i \in Signed'
        PROVE  /\ token'[i].kid \in Kids /\ token'[i].exp <= now + TTL
               /\ keys[token'[i].kid].status = "retired"
                     => keys[token'[i].kid].at + TTL >= token'[i].exp
    <3>1. CASE i = j
      BY <1>4, <1>6, <1>8, <3>1
    <3>2. CASE i # j
      <4>1. token'[i] = token[i] /\ i \in Signed
        BY <1>8, <1>9, <3>2 DEF Signed
      <4> QED BY <4>1 DEF IInv, KeysOutlast
    <3> QED BY <3>1, <3>2
  <2> QED BY <1>1, <2>1 DEF IInv, KeysOutlast, ActiveKeys
<1>17. CutIsFinal'
  <2> SUFFICES ASSUME NEW i \in Jtis, row'[i] = "live" PROVE token'[i].cut = owner.cut
    BY <1>1 DEF CutIsFinal
  <2>1. CASE i = j
    BY <1>4, <1>6, <1>8, <1>10, <1>12, <2>1
  <2>2. CASE i # j
    BY <1>8, <1>12, <2>2 DEF IInv, CutIsFinal
  <2> QED BY <2>1, <2>2
<1>18. \A i \in Signed : token'[i] = token[i] /\ row'[i] = row[i] /\ i \in Signed' /\ i \in Jtis
  BY <1>3, <1>8, <1>9, <1>12 DEF Signed
<1>19. Hands'
  <2> SUFFICES ASSUME NEW q \in Procs PROVE HandOf(command[q])'
    BY DEF Hands
  <2>1. CASE q # p
    BY <1>1, <1>11, <1>18, <2>1 DEF IInv, Hands, HandOf, Mints, Lands
  <2>2. CASE q = p /\ d # Idle
    BY <1>1, <1>4, <1>6, <1>8, <1>9, <1>10, <1>11, <1>12, <2>2 DEF HandOf, Mints, Lands
  <2>3. CASE q = p /\ d = Idle
    BY <1>11, <2>3, IdleTyped DEF HandOf, Mints, Lands
  <2> QED BY <2>1, <2>2, <2>3
<1>20. /\ OnDisk' = OnDisk /\ (Whole' <=> Whole)
       /\ \A i \in Inodes : content[i] \in Jtis => content[i] \in Signed
       /\ Whole => OnDisk \in Signed
  BY <1>1 DEF OnDisk, Whole, IInv, Known, TypeOK, Jtis
<1>21. Undisturbed'
  <2>1. ASSUME ~overlapped', NEW q \in Procs PROVE AloneWith(command[q])'
    <3>0. AloneWith(command[q]) /\ HandOf(command[q])
      BY <1>1, <2>1 DEF IInv, Undisturbed, Hands
    <3>1. CASE q # p
      BY <1>1, <1>11, <1>18, <3>0, <3>1 DEF AloneWith, HandOf
    <3>2. CASE q = p /\ d # Idle
      BY <1>1, <1>10, <1>11, <3>0, <3>2 DEF AloneWith
    <3>3. CASE q = p /\ d = Idle
      BY <1>11, <3>3, IdleTyped DEF AloneWith
    <3> QED BY <3>1, <3>2, <3>3
  <2>2. \A q \in Procs : Busy(q)' => Busy(q)
    BY <1>1, <1>11 DEF Busy
  <2> QED BY <1>1, <2>1, <2>2 DEF IInv, Undisturbed
<1>22. \A q \in Procs : command'[q].at \in {"read", "writing", "renaming"}
                           => q # p /\ command'[q] = command[q]
  BY <1>10, <1>11, IdleTyped
<1>23. NewerLands'
  <2>1. ASSUME NEW q \in Procs, command'[q].at \in {"writing", "renaming"}, tmp # 0,
               content[tmp] \in Jtis
        PROVE  token'[content[tmp]].exp >= now + TTL
    <3>1. token[content[tmp]].exp >= now + TTL /\ tmp \in Inodes
      BY <1>1, <1>22, <2>1 DEF IInv, NewerLands, TypeOK
    <3> QED BY <1>18, <1>20, <2>1, <3>1
  <2>2. ASSUME NEW q \in Procs, command'[q].at = "read", Whole
        PROVE  OnDisk = command'[q].seen \/ token'[OnDisk].exp >= now + TTL
    BY <1>18, <1>20, <1>22, <2>2 DEF IInv, NewerLands
  <2> QED BY <1>1, <1>20, <2>1, <2>2 DEF IInv, NewerLands
<1>24. InTime'
  <2>1. ASSUME NEW q \in Procs, command'[q].at = "read", weekly
        PROVE  now < token'[command'[q].seen].exp
    <3>1. command'[q] = command[q] /\ command[q].seen \in Signed
      BY <1>22, <2>1 DEF IInv, Hands, HandOf
    <3> QED BY <1>18, <2>1, <3>1 DEF IInv, InTime
  <2> QED BY <1>1, <1>18, <1>20, <2>1 DEF IInv, InTime
<1>25. CredentialStands' /\ ScopeSetSticks'
  BY <1>1, <1>18, <1>20 DEF IInv, CredentialStands, ScopeSetSticks, Whole
<1> QED BY <1>13, <1>14, <1>15, <1>16, <1>17, <1>19, <1>21, <1>23, <1>24, <1>25 DEF IInv

-----------------------------------------------------------------------------
\* A busy command goes on to c and does something to the files: what lands on disk
\* is new, and an undisturbed command leaves the history in order.
LEMMA FileStep ==
    ASSUME IInv, NEW p \in Procs, Busy(p), NEW c \in Command,
           command' = [command EXCEPT ![p] = c],
           UNCHANGED <<now, keys, token, row, owner, excused, overlapped, weekly>>,
           content' \in [Inodes -> Jtis \cup {0, Torn}], tmp' \in Inodes \cup {0},
           file' \in Inodes \cup {0}, chosen' \in ScopeSets, events' \in 0 .. MaxEvents,
           HandOf(c), c.at # "read",
           \A i \in Inodes : content'[i] \in Jtis => content'[i] \in Signed,
           tmp' # 0 => tmp' # file',
           \A q \in Procs : command'[q].at \in {"writing", "renaming"} /\ tmp' # 0
                                /\ content'[tmp'] \in Jtis
                           => token[content'[tmp']].exp >= now + TTL,
           Whole' => OnDisk' = OnDisk \/ token[OnDisk'].exp >= now + TTL,
           lastUse' = lastUse \/ (lastUse' = now /\ (Whole' => token[OnDisk'].exp >= now + TTL)),
           ~overlapped => AloneWith(c)' /\ CredentialStands' /\ ScopeSetSticks'
    PROVE  IInv'
<1> USE DEF IInv
<1>1. /\ command' \in [Procs -> Command] /\ command'[p] = c
      /\ \A q \in Procs : q # p => command'[q] = command[q]
  BY CommandTyped
<1>2. TypeOK' /\ TypeOK
  BY <1>1 DEF TypeOK
<1>3. InTurn' /\ KeysOutlast' /\ CutIsFinal' /\ Signed' = Signed
  BY DEF InTurn, KeysOutlast, CutIsFinal, Signed, ActiveKeys
<1>4. Known'
  BY <1>3 DEF Known
<1>5. Hands'
  BY <1>1, <1>3 DEF Hands, HandOf, Mints, Lands
<1>6. Undisturbed'
  <2> SUFFICES ASSUME ~overlapped
               PROVE  /\ \A q \in Procs, s \in Procs : Busy(q)' /\ Busy(s)' => q = s
                      /\ \A q \in Procs : AloneWith(command[q])'
    BY DEF Undisturbed
  <2>1. \A q \in Procs : q # p => ~Busy(q)
    BY DEF Undisturbed
  <2>2. \A q \in Procs : q # p => command'[q] = command[q] /\ command[q].at = "idle"
    BY <1>1, <2>1 DEF Busy
  <2>3. \A q \in Procs : q # p => command'[q] = Idle
    BY <2>2 DEF Hands, HandOf
  <2> QED BY <1>1, <2>2, <2>3, IdleTyped DEF Busy, AloneWith
<1>7. \A q \in Procs : command'[q].at = "read" => command'[q] = command[q]
  BY <1>1
<1>8. NewerLands'
  <2>1. ASSUME NEW q \in Procs, command'[q].at = "read", Whole'
        PROVE  OnDisk' = command'[q].seen \/ token[OnDisk'].exp >= now + TTL
    <3>1. CASE OnDisk' = OnDisk
      BY <1>7, <2>1, <3>1 DEF NewerLands, Whole
    <3> QED BY <2>1, <3>1
  <2> QED BY <2>1 DEF NewerLands
<1>9. InTime'
  <2>1. now \in Nat /\ lastUse \in Nat /\ lastUse <= now
    BY <1>2 DEF TypeOK, InTime
  <2>2. Whole' => token[OnDisk'].exp > lastUse' + Threshold
    <3>1. Whole' => token[OnDisk'].exp \in Nat
      BY <1>2 DEF Whole, TypeOK, Token
    <3>2. CASE OnDisk' = OnDisk
      BY <2>1, <3>1, <3>2 DEF InTime, Whole
    <3> QED BY <2>1, <3>1, <3>2
  <2>3. weekly => now <= lastUse' + Threshold
    BY <2>1 DEF InTime
  <2>4. weekly => \A q \in Procs : command'[q].at = "read" => now < token[command'[q].seen].exp
    BY <1>7 DEF InTime
  <2> QED BY <2>1, <2>2, <2>3, <2>4 DEF InTime
<1>10. CredentialStands' /\ ScopeSetSticks'
  BY DEF CredentialStands, ScopeSetSticks
<1> QED BY <1>2, <1>3, <1>4, <1>5, <1>6, <1>8, <1>9, <1>10

LEMMA OpensStep == ASSUME IInv, NEW p \in Procs, Opens(p) PROVE IInv'
<1> DEFINE b == command[p]
<1>1. /\ b.at = "opening" /\ b \in Command /\ TypeOK /\ HandOf(b) /\ Busy(p)
      /\ UNCHANGED <<now, keys, token, row, owner, file, chosen, overlapped, excused, lastUse,
                     weekly, events>>
      /\ content' = [content EXCEPT ![tmp'] = 0]
      /\ command' = [command EXCEPT ![p].at = "writing", ![p].fd = tmp']
  BY DEF Opens, history, IInv, TypeOK, Hands, Busy
<1>2. tmp' \in Inodes /\ tmp' # file /\ tmp' # 0
  <2>1. CASE tmp # 0
    BY <1>1, <2>1 DEF Opens, IInv, TypeOK, NewerLands
  <2>2. CASE tmp = 0
    <3>1. tmp' = CHOOSE i \in Unlinked : TRUE
      BY <2>2 DEF Opens
    <3>2. tmp' \in Unlinked
      BY <1>1, <2>2, <3>1, InodeLeft
    <3> QED BY <3>2 DEF Unlinked, Inodes
  <2> QED BY <2>1, <2>2
<1>3. PICK i \in Inodes : i = tmp'
  BY <1>2
<1>4. PICK c \in Command : c = [b EXCEPT !.at = "writing", !.fd = i]
  BY <1>1 DEF Command
<1>5. /\ c.at = "writing" /\ c.fd = tmp' /\ c.cmd = b.cmd /\ c.set = b.set /\ c.jti = b.jti
  BY <1>1, <1>3, <1>4 DEF Command
<1>6. command' = [command EXCEPT ![p] = c]
  BY <1>1, <1>3, <1>4 DEF TypeOK
<1>7. /\ content' \in [Inodes -> Jtis \cup {0, Torn}] /\ content'[tmp'] = 0
      /\ \A h \in Inodes : h # tmp' => content'[h] = content[h]
  BY <1>1, <1>2 DEF TypeOK
<1>8. HandOf(c)
  BY <1>1, <1>2, <1>5 DEF HandOf, Mints, Lands
<1>9. OnDisk' = OnDisk /\ (Whole' <=> Whole)
  BY <1>1, <1>2, <1>7 DEF OnDisk, Whole, TypeOK
<1>10. /\ 0 \notin Jtis
       /\ \A h \in Inodes : content'[h] \in Jtis => content'[h] \in Signed
  BY <1>7 DEF IInv, Known, Jtis
<1>11. ~overlapped => AloneWith(c)' /\ CredentialStands' /\ ScopeSetSticks'
  <2> SUFFICES ASSUME ~overlapped PROVE AloneWith(c)' /\ CredentialStands' /\ ScopeSetSticks'
    OBVIOUS
  <2>1. b.cmd = "renew" => b.set = chosen
    BY DEF IInv, Undisturbed, AloneWith
  <2>2. AloneWith(c)'
    BY <1>1, <1>2, <1>5, <1>7, <2>1 DEF AloneWith
  <2>3. CredentialStands' /\ ScopeSetSticks'
    BY <1>1, <1>9 DEF IInv, CredentialStands, ScopeSetSticks
  <2> QED BY <2>2, <2>3
<1>12. /\ chosen' \in ScopeSets /\ events' \in 0 .. MaxEvents /\ file' \in Inodes \cup {0}
       /\ c.at # "read" /\ content'[tmp'] \notin Jtis /\ tmp' \in Inodes \cup {0}
  BY <1>1, <1>2, <1>5, <1>7, <1>10 DEF TypeOK
<1> QED BY <1>1, <1>2, <1>6, <1>7, <1>8, <1>9, <1>10, <1>11, <1>12, FileStep

LEMMA WritesStep == ASSUME IInv, NEW p \in Procs, Writes(p) PROVE IInv'
<1> DEFINE b == command[p]
           i == b.fd
<1>1. /\ b.at = "writing" /\ b \in Command /\ TypeOK /\ HandOf(b) /\ Busy(p)
      /\ UNCHANGED <<now, keys, token, row, owner, tmp, file, chosen, overlapped, excused,
                     lastUse, weekly, events>>
      /\ command' = [command EXCEPT ![p].at = "renaming", ![p].fd = 0]
  BY DEF Writes, history, IInv, TypeOK, Hands, Busy
<1>2. PICK w \in {b.jti} \cup (IF content[i] = 0 THEN {} ELSE {Torn}) :
        content' = IF i \in {tmp, file} THEN [content EXCEPT ![i] = w] ELSE content
  BY DEF Writes
<1>3. /\ i \in Inodes /\ b.jti \in Signed /\ b.jti \in Jtis /\ token[b.jti].exp = now + TTL
      /\ token[b.jti].set = b.set /\ b.cmd \in {"renew", "rotate"} /\ Torn \notin Jtis
      /\ (row[b.jti] = "revoked" => b.jti \in excused)
  BY <1>1 DEF HandOf, Lands, Signed, Command, Inodes, Torn, Jtis
<1>4. PICK c \in Command : c = [b EXCEPT !.at = "renaming", !.fd = 0]
  BY <1>1 DEF Command
<1>5. /\ c.at = "renaming" /\ c.fd = 0 /\ c.cmd = b.cmd /\ c.set = b.set /\ c.jti = b.jti
  BY <1>1, <1>4 DEF Command
<1>6. command' = [command EXCEPT ![p] = c]
  BY <1>1, <1>4 DEF TypeOK
<1>7. w \in {b.jti, Torn} /\ (content[i] = 0 => w = b.jti)
  BY <1>2
<1>8. /\ content' \in [Inodes -> Jtis \cup {0, Torn}]
      /\ \A h \in Inodes : content'[h] = content[h] \/ (h = i /\ content'[h] = w)
      /\ i \in {tmp, file} => content'[i] = w
  BY <1>1, <1>2, <1>3, <1>7 DEF TypeOK
<1>9. HandOf(c)
  BY <1>1, <1>5 DEF HandOf, Mints, Lands
<1>10. \A h \in Inodes : content'[h] \in Jtis => content'[h] \in Signed
  BY <1>3, <1>7, <1>8 DEF IInv, Known
<1>11. ASSUME NEW q \in Procs, command'[q].at \in {"writing", "renaming"}, tmp # 0,
              content'[tmp] \in Jtis
       PROVE  token[content'[tmp]].exp >= now + TTL
  <2>1. tmp \in Inodes /\ now + TTL \in Nat
    BY <1>1, <1>11 DEF TypeOK
  <2>2. CASE content'[tmp] = content[tmp]
    BY <1>1, <1>11, <2>2 DEF IInv, NewerLands
  <2>3. CASE content'[tmp] = w
    BY <1>3, <1>7, <1>11, <2>1, <2>3
  <2> QED BY <1>8, <2>1, <2>2, <2>3
<1>12. Whole' => OnDisk' = OnDisk \/ token[OnDisk'].exp >= now + TTL
  <2> SUFFICES ASSUME Whole', OnDisk' # OnDisk PROVE token[OnDisk'].exp >= now + TTL
    OBVIOUS
  <2>1. file \in Inodes /\ OnDisk' = content'[file] /\ OnDisk = content[file]
    BY <1>1 DEF Whole, OnDisk, TypeOK
  <2>2. OnDisk' = w /\ OnDisk' \in Jtis
    BY <1>8, <2>1 DEF Whole
  <2>3. OnDisk' = b.jti /\ now + TTL \in Nat
    BY <1>1, <1>3, <1>7, <2>2 DEF TypeOK
  <2> QED BY <1>3, <2>3
<1>13. ~overlapped => AloneWith(c)' /\ CredentialStands' /\ ScopeSetSticks'
  <2> SUFFICES ASSUME ~overlapped PROVE AloneWith(c)' /\ CredentialStands' /\ ScopeSetSticks'
    OBVIOUS
  <2>1. /\ (b.cmd = "renew" => b.set = chosen) /\ i = tmp /\ tmp # 0 /\ content[tmp] = 0
    BY <1>1 DEF IInv, Undisturbed, AloneWith
  <2>2. content'[tmp] = b.jti
    BY <1>7, <1>8, <2>1
  <2>3. AloneWith(c)'
    BY <1>1, <1>5, <2>1, <2>2 DEF AloneWith
  <2>4. tmp # file
    BY <2>1 DEF IInv, NewerLands
  <2>5. OnDisk' = OnDisk /\ (Whole' <=> Whole)
    BY <1>1, <1>8, <2>1, <2>4 DEF OnDisk, Whole, TypeOK
  <2>6. CredentialStands' /\ ScopeSetSticks'
    BY <1>1, <2>5 DEF IInv, CredentialStands, ScopeSetSticks
  <2> QED BY <2>3, <2>6
<1>14. /\ chosen' \in ScopeSets /\ events' \in 0 .. MaxEvents /\ file' \in Inodes \cup {0}
       /\ c.at # "read" /\ tmp' \in Inodes \cup {0} /\ (tmp' # 0 => tmp' # file')
  BY <1>1, <1>5 DEF TypeOK, IInv, NewerLands
<1> QED BY <1>1, <1>6, <1>8, <1>9, <1>10, <1>11, <1>12, <1>13, <1>14, FileStep

LEMMA RenamesStep == ASSUME IInv, NEW p \in Procs, Renames(p) PROVE IInv'
<1> DEFINE b == command[p]
<1>1. /\ b.at = "renaming" /\ b \in Command /\ TypeOK /\ HandOf(b) /\ Busy(p)
      /\ UNCHANGED <<now, keys, token, row, owner, overlapped, excused, weekly, events>>
      /\ command' = [command EXCEPT ![p] = Idle]
  BY DEF Renames, Ends, IInv, TypeOK, Hands, Busy
<1>2. /\ b.cmd \in {"renew", "rotate"} /\ b.jti \in Signed /\ b.jti \in Jtis
      /\ b.set \in ScopeSets /\ token[b.jti].set = b.set
      /\ (row[b.jti] = "revoked" => b.jti \in excused)
  BY <1>1 DEF HandOf, Lands, Signed, Command
<1>3. CASE tmp = 0 /\ UNCHANGED <<content, tmp, file, chosen, lastUse>>
  <2>1. OnDisk' = OnDisk /\ (Whole' <=> Whole)
    BY <1>3 DEF OnDisk, Whole
  <2>2. ~overlapped => AloneWith(Idle)' /\ CredentialStands' /\ ScopeSetSticks'
    BY <1>1, <1>3, <2>1, IdleTyped DEF IInv, CredentialStands, ScopeSetSticks, AloneWith
  <2>3. \A i \in Inodes : content'[i] \in Jtis => content'[i] \in Signed
    BY <1>3 DEF IInv, Known
  <2>4. /\ chosen' \in ScopeSets /\ events' \in 0 .. MaxEvents /\ file' \in Inodes \cup {0}
        /\ tmp' = 0 /\ content' \in [Inodes -> Jtis \cup {0, Torn}]
    BY <1>1, <1>3 DEF TypeOK
  <2> QED BY <1>1, <1>3, <2>1, <2>2, <2>3, <2>4, IdleTyped, FileStep
<1>4. ASSUME tmp # 0, tmp' = 0, file' = tmp, lastUse' = now,
             chosen' = IF b.cmd = "rotate" THEN b.set ELSE chosen,
             content' = [i \in Inodes |-> IF i = file THEN 0 ELSE content[i]]
      PROVE  IInv'
  <2>1. tmp \in Inodes /\ tmp # file
    BY <1>1, <1>4 DEF TypeOK, IInv, NewerLands
  <2>2. OnDisk' = content[tmp]
    BY <1>4, <2>1 DEF OnDisk
  <2>3. Whole' => token[OnDisk'].exp >= now + TTL
    BY <1>1, <1>4, <2>2 DEF Whole, IInv, NewerLands
  <2>4. ~overlapped => AloneWith(Idle)' /\ CredentialStands' /\ ScopeSetSticks'
    <3> SUFFICES ASSUME ~overlapped
                 PROVE  AloneWith(Idle)' /\ CredentialStands' /\ ScopeSetSticks'
      OBVIOUS
    <3>1. /\ (b.cmd = "renew" => b.set = chosen) /\ content[tmp] = b.jti
      BY <1>1 DEF IInv, Undisturbed, AloneWith
    <3>2. OnDisk' = b.jti /\ chosen' = b.set
      BY <1>2, <1>4, <2>2, <3>1
    <3>3. AloneWith(Idle)'
      BY IdleTyped DEF AloneWith
    <3>4. CredentialStands' /\ ScopeSetSticks'
      BY <1>1, <1>2, <3>2 DEF CredentialStands, ScopeSetSticks
    <3> QED BY <3>3, <3>4
  <2>5. /\ content' \in [Inodes -> Jtis \cup {0, Torn}] /\ 0 \notin Jtis
        /\ \A i \in Inodes : content'[i] = content[i] \/ content'[i] = 0
    BY <1>1, <1>4 DEF TypeOK, Jtis
  <2>6. \A i \in Inodes : content'[i] \in Jtis => content'[i] \in Signed
    BY <2>5 DEF IInv, Known
  <2>7. chosen' \in ScopeSets /\ events' \in 0 .. MaxEvents /\ file' \in Inodes \cup {0}
    BY <1>1, <1>2, <1>4, <2>1 DEF TypeOK
  <2> QED BY <1>1, <1>4, <2>3, <2>4, <2>5, <2>6, <2>7, IdleTyped, FileStep
<1> QED BY <1>3, <1>4 DEF Renames, disk

LEMMA DiesStep == ASSUME IInv, NEW p \in Procs, Dies(p) PROVE IInv'
<1> DEFINE b == command[p]
<1>1. /\ b \in Command /\ TypeOK /\ Busy(p) /\ events < MaxEvents /\ events' = events + 1
      /\ UNCHANGED <<now, keys, token, row, owner, tmp, file, chosen, overlapped, excused,
                     lastUse, weekly>>
      /\ command' = [command EXCEPT ![p] = Idle]
      /\ \/ content' = content
         \/ /\ b.at = "writing" /\ b.fd \in {tmp, file}
            /\ content' = [content EXCEPT ![b.fd] = Torn]
  BY DEF Dies, Ends, Event, IInv, TypeOK
<1>2. /\ content' \in [Inodes -> Jtis \cup {0, Torn}] /\ Torn \notin Jtis
      /\ \A i \in Inodes : \/ content'[i] = content[i]
                           \/ content'[i] = Torn /\ b.at = "writing" /\ i = b.fd
  BY <1>1 DEF TypeOK, Torn, Jtis
<1>3. \A i \in Inodes : content'[i] \in Jtis => content'[i] = content[i] /\ content'[i] \in Signed
  BY <1>2 DEF IInv, Known
<1>4. Whole' => OnDisk' = OnDisk
  BY <1>1, <1>3 DEF Whole, OnDisk, TypeOK
<1>5. ASSUME NEW q \in Procs, command'[q].at \in {"writing", "renaming"}, tmp # 0,
             content'[tmp] \in Jtis
      PROVE  token[content'[tmp]].exp >= now + TTL
  <2>1. command'[q] = command[q]
    BY <1>1, <1>5, IdleTyped DEF TypeOK
  <2> QED BY <1>1, <1>3, <1>5, <2>1 DEF IInv, NewerLands, TypeOK
<1>6. ~overlapped => AloneWith(Idle)' /\ CredentialStands' /\ ScopeSetSticks'
  <2> SUFFICES ASSUME ~overlapped
               PROVE  AloneWith(Idle)' /\ CredentialStands' /\ ScopeSetSticks'
    OBVIOUS
  <2>1. b.at = "writing" => b.fd = tmp /\ tmp # 0 /\ tmp # file
    BY DEF IInv, Undisturbed, AloneWith, NewerLands
  <2>2. OnDisk' = OnDisk /\ (Whole' <=> Whole)
    BY <1>1, <1>2, <2>1 DEF OnDisk, Whole, TypeOK
  <2>3. AloneWith(Idle)'
    BY IdleTyped DEF AloneWith
  <2>4. CredentialStands' /\ ScopeSetSticks'
    BY <1>1, <2>2 DEF IInv, CredentialStands, ScopeSetSticks
  <2> QED BY <2>3, <2>4
<1>7. /\ chosen' \in ScopeSets /\ events' \in 0 .. MaxEvents /\ file' \in Inodes \cup {0}
      /\ tmp' \in Inodes \cup {0} /\ (tmp' # 0 => tmp' # file')
  BY <1>1 DEF TypeOK, IInv, NewerLands
<1> QED BY <1>1, <1>2, <1>3, <1>4, <1>5, <1>6, <1>7, IdleTyped, FileStep

-----------------------------------------------------------------------------
\* A step on the registry and the owner's row: what is revoked and could still be
\* on disk, or get there, is excused.
LEMMA RegistryStep ==
    ASSUME IInv, UNCHANGED <<now, keys, token, command, content, tmp, file, chosen, overlapped,
                             lastUse, weekly>>,
           row' \in [Jtis -> {"none", "live", "revoked"}], excused \subseteq excused',
           excused' \subseteq Jtis, owner' \in [stamp: 0 .. MaxStamp, cut: 0 .. MaxStamp],
           events' \in 0 .. MaxEvents,
           \A j \in Jtis : \/ row'[j] = row[j]
                           \/ /\ row[j] = "live" /\ row'[j] = "revoked"
                              /\ OnDisk = j \/ (\E p \in Procs : command[p].jti = j)
                                    => j \in excused',
           owner'.cut <= owner'.stamp, owner'.stamp >= owner.stamp, owner'.stamp = owner.stamp => owner' = owner,
           CutIsFinal'
    PROVE  IInv'
<1> USE DEF IInv
<1>1. TypeOK'
  BY DEF TypeOK
<1>2. InTurn' /\ KeysOutlast' /\ Signed' = Signed
  BY DEF InTurn, KeysOutlast, Signed, ActiveKeys
<1>3. Known'
  BY <1>2 DEF Known
<1>4. ASSUME NEW q \in Procs PROVE HandOf(command[q])'
  <2>1. HandOf(command[q]) /\ owner.stamp \in Nat /\ owner'.stamp \in Nat
    BY <1>1 DEF Hands, TypeOK
  <2>2. Lands(command[q]) => (row'[command[q].jti] = "revoked" => command[q].jti \in excused')
    <3> SUFFICES ASSUME Lands(command[q]), row'[command[q].jti] = "revoked"
                 PROVE  command[q].jti \in excused'
      OBVIOUS
    <3>1. command[q].jti \in Jtis /\ (row[command[q].jti] = "revoked" => command[q].jti \in excused)
      BY <2>1 DEF HandOf, Signed
    <3> QED BY <3>1
  <2>3. Mints(command[q]) => /\ command[q].stamp <= owner'.stamp
                             /\ command[q].stamp = owner'.stamp => command[q].cut = owner'.cut
    <3> SUFFICES ASSUME Mints(command[q])
                 PROVE  /\ command[q].stamp <= owner'.stamp
                        /\ command[q].stamp = owner'.stamp => command[q].cut = owner'.cut
      OBVIOUS
    <3>1. /\ command[q].stamp <= owner.stamp /\ command[q].stamp \in Nat
          /\ command[q].stamp = owner.stamp => command[q].cut = owner.cut
      BY <2>1 DEF HandOf, TypeOK, Command
    <3> QED BY <2>1, <3>1
  <2> QED BY <1>2, <2>1, <2>2, <2>3 DEF HandOf, Mints, Lands
<1>5. Undisturbed' /\ NewerLands' /\ InTime' /\ OnDisk' = OnDisk /\ (Whole' <=> Whole)
  BY DEF Undisturbed, Busy, AloneWith, NewerLands, InTime, OnDisk, Whole
<1>6. CredentialStands' /\ ScopeSetSticks'
  <2>1. ASSUME ~overlapped, Whole, row'[OnDisk] = "revoked" PROVE OnDisk \in excused'
    BY <2>1 DEF CredentialStands, Whole
  <2> QED BY <1>5, <2>1 DEF CredentialStands, ScopeSetSticks, Whole
<1> QED BY <1>1, <1>2, <1>3, <1>4, <1>5, <1>6 DEF Hands

LEMMA RevokeStep == ASSUME IInv, NEW j \in Jtis, Revoke(j) \/ BreakGlass(j) PROVE IInv'
<1>1. /\ TypeOK /\ row[j] = "live" /\ events < MaxEvents /\ events' = events + 1
      /\ row' = [row EXCEPT ![j] = "revoked"] /\ excused' \in {excused, excused \cup {j}}
      /\ UNCHANGED <<now, keys, token, owner, command, content, tmp, file, chosen, overlapped,
                     lastUse, weekly>>
      /\ OnDisk = j \/ (\E p \in Procs : command[p].jti = j) => j \in excused'
  BY DEF IInv, Revoke, BreakGlass, Event, disk, Guarded, Unlanded
<1>2. row' \in [Jtis -> {"none", "live", "revoked"}] /\ \A i \in Jtis : i # j => row'[i] = row[i]
  BY <1>1 DEF TypeOK
<1>3. CutIsFinal'
  BY <1>1, <1>2 DEF IInv, CutIsFinal, TypeOK
<1>4. owner.stamp \in Nat /\ owner.cut <= owner.stamp /\ owner.stamp >= owner.stamp
  BY <1>1 DEF TypeOK, IInv, Known
<1>5. /\ excused \subseteq excused' /\ excused' \subseteq Jtis /\ events' \in 0 .. MaxEvents
      /\ owner' \in [stamp: 0 .. MaxStamp, cut: 0 .. MaxStamp] /\ owner' = owner
  BY <1>1 DEF TypeOK
<1>6. \A i \in Jtis : \/ row'[i] = row[i]
                      \/ /\ row[i] = "live" /\ row'[i] = "revoked"
                         /\ OnDisk = i \/ (\E p \in Procs : command[p].jti = i) => i \in excused'
  BY <1>1, <1>2 DEF TypeOK
<1> QED BY <1>1, <1>2, <1>3, <1>4, <1>5, <1>6, RegistryStep

LEMMA SetPasswordStep == ASSUME IInv, SetPassword PROVE IInv'
<1>1. /\ TypeOK /\ events < MaxEvents /\ events' = events + 1 /\ owner.stamp < MaxStamp
      /\ owner' = [owner EXCEPT !.stamp = @ + 1]
      /\ UNCHANGED <<now, keys, token, row, command, content, tmp, file, chosen, overlapped,
                     excused, lastUse, weekly>>
  BY DEF IInv, SetPassword, Event, disk
<1>2. /\ owner' \in [stamp: 0 .. MaxStamp, cut: 0 .. MaxStamp] /\ owner'.stamp = owner.stamp + 1
      /\ owner'.cut = owner.cut /\ owner.stamp \in Nat /\ owner.cut \in Nat
  BY <1>1 DEF TypeOK
<1>3. CutIsFinal'
  BY <1>1, <1>2 DEF IInv, CutIsFinal
<1>4. owner'.cut <= owner'.stamp /\ owner'.stamp > owner.stamp
  BY <1>2 DEF IInv, Known
<1>5. /\ excused' \subseteq Jtis /\ events' \in 0 .. MaxEvents
      /\ row' \in [Jtis -> {"none", "live", "revoked"}]
  BY <1>1 DEF TypeOK
<1> QED BY <1>1, <1>2, <1>3, <1>4, <1>5, RegistryStep

LEMMA ChangePasswordStep == ASSUME IInv, ChangePassword PROVE IInv'
<1>1. /\ TypeOK /\ events < MaxEvents /\ events' = events + 1 /\ owner.stamp < MaxStamp
      /\ owner' = [stamp |-> owner.stamp + 1, cut |-> owner.cut + 1]
      /\ row' = [j \in Jtis |-> IF row[j] = "live" THEN "revoked" ELSE row[j]]
      /\ excused' = excused \cup {j \in Jtis : row[j] = "live"}
      /\ UNCHANGED <<now, keys, token, command, content, tmp, file, chosen, overlapped, lastUse,
                     weekly>>
  BY DEF IInv, ChangePassword, Event, disk
<1>2. owner.stamp \in Nat /\ owner.cut \in Nat /\ owner.cut <= owner.stamp
  BY <1>1 DEF TypeOK, IInv, Known
<1>3. /\ owner' \in [stamp: 0 .. MaxStamp, cut: 0 .. MaxStamp]
      /\ owner'.cut <= owner'.stamp /\ owner'.stamp = owner.stamp + 1
  BY <1>1, <1>2
<1>4. /\ row' \in [Jtis -> {"none", "live", "revoked"}] /\ CutIsFinal'
      /\ \A j \in Jtis : \/ row'[j] = row[j]
                         \/ row[j] = "live" /\ row'[j] = "revoked" /\ j \in excused'
  BY <1>1 DEF TypeOK, CutIsFinal
<1> QED BY <1>1, <1>2, <1>3, <1>4, RegistryStep DEF TypeOK

LEMMA TickStep == ASSUME IInv, Tick PROVE IInv'
<1>1. /\ TypeOK /\ now < MaxTime /\ now' = now + 1 /\ now \in Nat /\ lastUse \in Nat
      /\ weekly' = (weekly /\ now' - lastUse <= Threshold)
      /\ UNCHANGED <<keys, token, row, owner, command, content, tmp, file, chosen, overlapped,
                     excused, lastUse, events>>
      /\ \A q \in Procs : command[q].at = "idle"
  BY DEF IInv, Tick, disk, Busy, TypeOK
<1>2. /\ TypeOK' /\ InTurn' /\ Known' /\ CutIsFinal' /\ CredentialStands' /\ ScopeSetSticks'
      /\ Signed' = Signed /\ OnDisk' = OnDisk /\ (Whole' <=> Whole)
  BY <1>1 DEF IInv, TypeOK, InTurn, Known, CutIsFinal, CredentialStands, ScopeSetSticks, Signed,
              OnDisk, Whole
<1>3. KeysOutlast'
  <2>1. ASSUME NEW j \in Signed PROVE token[j].exp <= now' + TTL
    <3>1. token[j].exp <= now + TTL /\ token[j].exp \in Nat
      BY <1>1 DEF IInv, KeysOutlast, Signed, TypeOK, Token
    <3> QED BY <1>1, <3>1
  <2> QED BY <1>1, <1>2, <2>1 DEF IInv, KeysOutlast, ActiveKeys
<1>4. Hands' /\ Undisturbed' /\ NewerLands'
  BY <1>1, <1>2 DEF IInv, Hands, HandOf, Mints, Lands, Undisturbed, Busy, AloneWith, NewerLands
<1>5. InTime'
  <2>1. lastUse <= now' /\ (weekly' => weekly)
    <3>1. lastUse <= now
      BY DEF IInv, InTime
    <3>2. lastUse <= now'
      BY <1>1, <3>1
    <3>3. weekly' => weekly
      <4>1. weekly' = (weekly /\ now' - lastUse <= Threshold)
        BY <1>1
      <4> QED BY <4>1, Zenon
    <3> QED BY <3>2, <3>3
  <2>2. ASSUME weekly' PROVE now' <= lastUse + Threshold
    <3>1. now' - lastUse <= Threshold
      BY <1>1, <2>2
    <3> QED BY <1>1, <3>1
  <2> QED BY <1>1, <1>2, <2>1, <2>2 DEF IInv, InTime
<1> QED BY <1>2, <1>3, <1>4, <1>5 DEF IInv

-----------------------------------------------------------------------------
LEMMA InitStep == Init => IInv
<1> SUFFICES ASSUME Init PROVE IInv
  OBVIOUS
<1>1. /\ now = 0 /\ owner.stamp = 0 /\ owner.cut = 0 /\ tmp = 0 /\ overlapped = FALSE
      /\ excused = {} /\ lastUse = 0 /\ weekly = TRUE /\ events = 0
      /\ owner \in [stamp: 0 .. MaxStamp, cut: 0 .. MaxStamp]
      /\ command \in [Procs -> Command] /\ \A q \in Procs : command[q] = Idle
      /\ overlapped \in BOOLEAN /\ weekly \in BOOLEAN
  <2>1. /\ now = 0 /\ owner = [stamp |-> 0, cut |-> 0] /\ tmp = 0 /\ excused = {} /\ lastUse = 0
        /\ events = 0 /\ command = [q \in Procs |-> Idle]
    BY DEF Init
  <2>2. overlapped = FALSE /\ weekly = TRUE /\ overlapped \in BOOLEAN /\ weekly \in BOOLEAN
    BY Zenon DEF Init
  <2>3. 0 \in 0 .. MaxStamp
    OBVIOUS
  <2>4. owner.stamp = 0 /\ owner.cut = 0 /\ owner \in [stamp: 0 .. MaxStamp, cut: 0 .. MaxStamp]
    BY <2>1, <2>3
  <2>5. command \in [Procs -> Command] /\ \A q \in Procs : command[q] = Idle
    BY <2>1, IdleTyped
  <2> QED BY <2>1, <2>2, <2>4, <2>5
<1>2. 1 \in Jtis /\ 1 \in Kids /\ 0 \notin Jtis
  BY DEF Jtis, Kids
<1>3. 1 \in Inodes
  <2>1. Cardinality(Procs) \in Nat
    BY FS_CardinalityType
  <2> QED BY <2>1 DEF Inodes
<1>4. /\ Unsigned \in Token /\ Unsigned.exp = 0 /\ 0 \in 0 .. MaxTime
      /\ \A set \in ScopeSets :
            LET t == [Unsigned EXCEPT !.set = set, !.kid = 1, !.exp = TTL]
            IN  t \in Token /\ t.set = set /\ t.kid = 1 /\ t.exp = TTL /\ t.cut = 0
  <2>1. /\ {0, 1} \subseteq 0 .. MaxKeys /\ {0, TTL} \subseteq 0 .. MaxTime + TTL
        /\ 0 \in 0 .. MaxStamp /\ 0 \in 0 .. MaxTime /\ "none" \in ScopeSets
    BY DEF ScopeSets
  <2>2. Unsigned \in Token /\ Unsigned.exp = 0
    BY <2>1 DEF Unsigned, Token
  <2>3. ASSUME NEW set \in ScopeSets
        PROVE  LET t == [Unsigned EXCEPT !.set = set, !.kid = 1, !.exp = TTL]
               IN  t \in Token /\ t.set = set /\ t.kid = 1 /\ t.exp = TTL /\ t.cut = 0
    BY <2>1 DEF Unsigned, Token
  <2> QED BY <2>1, <2>2, <2>3
<1>7. /\ now \in 0 .. MaxTime /\ owner \in [stamp: 0 .. MaxStamp, cut: 0 .. MaxStamp]
      /\ command \in [Procs -> Command] /\ tmp \in Inodes \cup {0} /\ overlapped \in BOOLEAN
      /\ excused \subseteq Jtis /\ lastUse \in 0 .. MaxTime /\ weekly \in BOOLEAN
      /\ events \in 0 .. MaxEvents
  <2>1. 0 \in 0 .. MaxTime /\ 0 \in 0 .. MaxEvents
    OBVIOUS
  <2> QED BY <1>1, <2>1
<1>5. CASE /\ keys = [k \in Kids |-> [status |-> "unborn", at |-> 0]]
           /\ token = [j \in Jtis |-> Unsigned] /\ row = [j \in Jtis |-> "none"]
           /\ content = [i \in Inodes |-> 0] /\ file = 0 /\ chosen = "none"
  <2>1. TypeOK
    <3>1. token \in [Jtis -> Token] /\ row \in [Jtis -> {"none", "live", "revoked"}]
      BY <1>4, <1>5
    <3>2. keys \in [Kids -> Key]
      BY <1>4, <1>5 DEF Key
    <3>3. content \in [Inodes -> Jtis \cup {0, Torn}] /\ file \in Inodes \cup {0}
      BY <1>5
    <3>4. chosen \in ScopeSets
      BY <1>5 DEF ScopeSets
    <3> QED BY <1>7, <3>1, <3>2, <3>3, <3>4 DEF TypeOK
  <2>2. Signed = {} /\ ActiveKeys = {} /\ ~Whole
    <3>1. \A j \in Jtis : token[j].exp = 0
      BY <1>4, <1>5
    <3>2. \A k \in Kids : keys[k].status = "unborn"
      BY <1>5
    <3>3. ~Whole
      BY <1>2, <1>5 DEF Whole, OnDisk
    <3> QED BY <3>1, <3>2, <3>3 DEF Signed, ActiveKeys
  <2>3. InTurn
    <3>1. Signed = 1 .. 0 /\ 0 \in 0 .. MaxTokens
      BY <2>2
    <3> QED BY <3>1 DEF InTurn
  <2>4. Known /\ KeysOutlast /\ CutIsFinal /\ CredentialStands /\ ScopeSetSticks
    BY <1>1, <1>2, <1>5, <2>2
       DEF Known, KeysOutlast, CutIsFinal, CredentialStands, ScopeSetSticks
  <2>5. Hands /\ Undisturbed
    BY <1>1, IdleTyped DEF Hands, Undisturbed, Busy
  <2>6. NewerLands /\ InTime
    BY <1>1, <2>2, IdleTyped DEF NewerLands, InTime
  <2> QED BY <2>1, <2>3, <2>4, <2>5, <2>6 DEF IInv
<1>6. ASSUME NEW set \in {"auth", "none"}, chosen = set,
             keys = [k \in Kids |-> [status |-> IF k = 1 THEN "active" ELSE "unborn", at |-> 0]],
             token = [j \in Jtis |-> IF j = 1 THEN [Unsigned EXCEPT !.set = chosen, !.kid = 1,
                                                                   !.exp = TTL]
                                              ELSE Unsigned],
             row = [j \in Jtis |-> IF j = 1 THEN "live" ELSE "none"],
             content = [i \in Inodes |-> IF i = 1 THEN 1 ELSE 0], file = 1
      PROVE  IInv
  <2>1. set \in ScopeSets
    BY DEF ScopeSets
  <2>2. /\ token \in [Jtis -> Token] /\ token[1].set = chosen /\ token[1].kid = 1
        /\ token[1].exp = TTL /\ token[1].cut = 0
        /\ \A j \in Jtis : j # 1 => token[j].exp = 0
    BY <1>2, <1>4, <1>6, <2>1
  <2>3. keys \in [Kids -> Key] /\ keys[1].status = "active"
        /\ \A k \in Kids : k # 1 => keys[k].status = "unborn"
    BY <1>2, <1>4, <1>6 DEF Key
  <2>4. TypeOK
    <3>1. row \in [Jtis -> {"none", "live", "revoked"}]
      BY <1>6
    <3>2. content \in [Inodes -> Jtis \cup {0, Torn}] /\ file \in Inodes \cup {0}
      BY <1>2, <1>3, <1>6
    <3> QED BY <1>6, <1>7, <2>1, <2>2, <2>3, <3>1, <3>2 DEF TypeOK
  <2>5. Signed = {1} /\ ActiveKeys = {1} /\ Whole /\ OnDisk = 1
    BY <1>2, <1>3, <1>6, <2>2, <2>3 DEF Signed, ActiveKeys, Whole, OnDisk
  <2>6. InTurn
    <3>1. Signed = 1 .. 1 /\ 1 \in 0 .. MaxTokens
      BY <2>5
    <3> QED BY <3>1 DEF InTurn
  <2>7. Known
    BY <1>1, <1>2, <1>6, <2>5 DEF Known
  <2>8. KeysOutlast
    BY <1>1, <1>2, <2>2, <2>3, <2>5 DEF KeysOutlast
  <2>9. CutIsFinal /\ CredentialStands /\ ScopeSetSticks
    BY <1>1, <1>2, <1>6, <2>2, <2>5 DEF CutIsFinal, CredentialStands, ScopeSetSticks
  <2>10. Hands /\ Undisturbed
    BY <1>1, IdleTyped DEF Hands, Undisturbed, Busy
  <2>11. NewerLands /\ InTime
    BY <1>1, <2>2, <2>5, IdleTyped DEF NewerLands, InTime
  <2> QED BY <2>4, <2>6, <2>7, <2>8, <2>9, <2>10, <2>11 DEF IInv
<1> QED BY <1>5, <1>6 DEF Init

LEMMA NextStep == IInv /\ [Next]_vars => IInv'
<1> SUFFICES ASSUME IInv, [Next]_vars PROVE IInv'
  OBVIOUS
<1>1. ASSUME NEW p \in Procs, Reads(p) \/ Validated(p) \/ RotateBegins(p) PROVE IInv'
  BY <1>1, ReadsStep, ValidatedStep, RotateBeginsStep
<1>2. ASSUME NEW p \in Procs, Mint(p) PROVE IInv'
  BY <1>2, FirstKeyStep, RecordsStep DEF Mint
<1>3. ASSUME NEW p \in Procs, Write(p) PROVE IInv'
  BY <1>3, OpensStep, WritesStep, RenamesStep DEF Write
<1>4. ASSUME NEW p \in Procs, Dies(p) PROVE IInv'
  BY <1>4, DiesStep
<1>5. ASSUME NEW j \in Jtis, Revoke(j) \/ BreakGlass(j) PROVE IInv'
  BY <1>5, RevokeStep
<1>6. CASE RotateKey \/ SetPassword \/ ChangePassword \/ Tick
  BY <1>6, RotateKeyStep, SetPasswordStep, ChangePasswordStep, TickStep
<1>7. CASE UNCHANGED vars
  <2>1. UNCHANGED <<now, keys, token, row, owner, command, content, tmp, file, chosen, overlapped,
                    excused, lastUse, weekly, events>>
    BY <1>7 DEF vars, disk, history
  <2>2. /\ TypeOK' /\ InTurn' /\ Known' /\ KeysOutlast' /\ CutIsFinal' /\ CredentialStands'
        /\ ScopeSetSticks'
    BY <2>1 DEF IInv, TypeOK, InTurn, Known, KeysOutlast, CutIsFinal, CredentialStands,
                ScopeSetSticks, Signed, ActiveKeys, Whole, OnDisk
  <2>3. Hands' /\ Undisturbed' /\ NewerLands' /\ InTime'
    BY <2>1 DEF IInv, Hands, HandOf, Mints, Lands, Undisturbed, Busy, AloneWith, NewerLands,
                InTime, Signed, Whole, OnDisk
  <2> QED BY <2>2, <2>3 DEF IInv
<1> QED BY <1>1, <1>2, <1>3, <1>4, <1>5, <1>6, <1>7 DEF Next

LEMMA Invariance == Spec => []IInv
<1> QED BY InitStep, NextStep, PTL DEF Spec

-----------------------------------------------------------------------------
\* Every variable keeps its type: among others the number of inodes suffices for
\* the names and the descriptors that writeFile and rename (operator-token.ts)
\* leave open at once.
THEOREM TypeCorrect == Spec => []TypeOK
<1>1. IInv => TypeOK
  BY DEF IInv
<1> QED BY <1>1, Invariance, PTL

\* The compare-and-set of recordTokenMint (jwt-sign.ts) makes a change of password
\* final: a mint whose signature was awaited across it inserts no live row.
THEOREM CutsAreFinal == Spec => []CutIsFinal
<1>1. IInv => CutIsFinal
  BY DEF IInv
<1> QED BY <1>1, Invariance, PTL

\* writeOperatorToken (operator-token.ts) leaves a whole token on disk whoever dies
\* when, and none that was revoked without anybody meaning it, unless writers
\* overlapped.
THEOREM CredentialOutlivesCrashes == Spec => []CredentialStands
<1>1. IInv => CredentialStands
  BY DEF IInv
<1> QED BY <1>1, Invariance, PTL

\* useOperatorTokenWithAutoRotate and selfHealOperatorTokenIssuer (operator-token.ts)
\* re-mint with the scope set the operator last asked for (hub#224).
THEOREM RenewalKeepsScope == Spec => []ScopeSetSticks
<1>1. IInv => ScopeSetSticks
  BY DEF IInv
<1> QED BY <1>1, Invariance, PTL

\* An operator who comes once per threshold never meets an expired token, however
\* the renewals of several commands interleave (operator-token.ts).
THEOREM WeeklyUseSuffices == Spec => []WeeklyNeverExpires
<1>1. IInv => WeeklyNeverExpires
  BY DEF IInv, InTime, WeeklyNeverExpires
<1> QED BY <1>1, Invariance, PTL

\* getAllPublicKeys (signing-keys.ts) publishes the key of every token through the
\* retention that follows the beginning of the token's mint, and rotateSigningKey
\* leaves one active key.  A token that lives longer than the retention, as the
\* operator token does, is not promised more.
THEOREM KeysOutlastTheirTokens == Spec => []SignedTokensVerify
<1>1. ASSUME IInv PROVE SignedTokensVerify
  <2>1. ASSUME NEW j \in Signed, now <= (token[j].exp - TTL) + Retention
        PROVE  Advertised(token[j].kid)
    <3> DEFINE k == token[j].kid
    <3>1. /\ k \in Kids /\ now \in Nat /\ token[j].exp \in Nat
          /\ keys[k].status = "retired" => keys[k].at + TTL >= token[j].exp
      BY <1>1 DEF IInv, KeysOutlast, TypeOK, Signed, Token
    <3>2. keys[k].at \in Nat
      BY <1>1, <3>1 DEF IInv, TypeOK, Key
    <3> HIDE DEF k
    <3>3. keys[k].status = "retired" => keys[k].at >= now - Retention
      BY <2>1, <3>1, <3>2
    <3>4. Advertised(k)
      BY <3>1, <3>3 DEF Advertised
    <3> QED BY <3>4 DEF k
  <2>2. Cardinality(ActiveKeys) <= 1
    <3>1. CASE ActiveKeys = {}
      BY <3>1, FS_EmptySet
    <3>2. CASE ActiveKeys # {}
      <4>1. PICK k \in ActiveKeys : TRUE
        BY <3>2
      <4>2. ActiveKeys = {k}
        BY <1>1, <4>1 DEF IInv, KeysOutlast
      <4> QED BY <4>2, FS_Singleton
    <3> QED BY <3>1, <3>2
  <2> QED BY <2>1, <2>2 DEF SignedTokensVerify
<1> QED BY <1>1, Invariance, PTL
=============================================================================
