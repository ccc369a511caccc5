--------------------------- MODULE OperatorToken ---------------------------
(***************************************************************************)
(* The operator token of a box (src/src/operator-token.ts) and the keys    *)
(* that sign it (signing-keys.ts): one file that every command line        *)
(* program and the hub read, re-mint and rename into place, and a registry *)
(* row per minted token (jwt-sign.ts).  The writers share one temporary    *)
(* name, so files are modelled as inodes: opening truncates, a rename      *)
(* moves whatever the temporary name holds, and a writer keeps its         *)
(* descriptor through both.                                                *)
(*                                                                         *)
(* The clock counts days on a small scale; a command takes no time on it.  *)
(* What validation does between two awaits on data of its own is one step. *)
(***************************************************************************)
EXTENDS Integers, FiniteSets

CONSTANTS
    Procs,        \* processes that run a command each: command lines and the hub
    TTL,          \* OPERATOR_TOKEN_TTL_SECONDS
    Threshold,    \* OPERATOR_TOKEN_AUTO_ROTATE_THRESHOLD_SECONDS
    Retention,    \* JWKS_RETENTION_MS
    MaxTokens, MaxKeys, MaxTime, MaxStamp, MaxEvents   \* bounds of the instance

ASSUME TimesAssumption ==
    /\ {TTL, Threshold, Retention, MaxTokens, MaxKeys, MaxStamp} \subseteq Nat \ {0}
    /\ {MaxTime, MaxEvents} \subseteq Nat /\ Threshold < TTL
    /\ IsFiniteSet(Procs)

VARIABLES
    now,
    keys,        \* signing_keys
    token,       \* the tokens signed so far, by jti
    row,         \* their rows in the registry
    owner,       \* updated_at of the owner's row, and how often tokens were cut off
    command,
    content,     \* of each inode: a jti, 0 when empty, Torn
    tmp, file,   \* the inodes that operator.token.tmp and operator.token name; 0: none
    chosen,      \* history: the scope set the operator last asked for
    overlapped,  \* history: commands ran together since the file was last in order
    excused,     \* history: tokens revoked on purpose, or before they reached the file
    lastUse, weekly,  \* history: the last use, and whether none was a threshold late
    events   \* deaths, revocations, rotations of the key, changes of password so far

disk == <<content, tmp, file>>
history == <<chosen, overlapped, excused, lastUse, weekly, events>>
vars == <<now, keys, token, row, owner, command, disk, history>>

Jtis == 1 .. MaxTokens
Kids == 1 .. MaxKeys
Inodes == 1 .. Cardinality(Procs) + 2
Torn == -1

\* "none": another audience, or no recognised pa_scope_set claim.
ScopeSets == {"admin", "auth", "none"}

Key == [status: {"unborn", "active", "retired"}, at: 0 .. MaxTime]

Token == [set: ScopeSets, kid: 0 .. MaxKeys, exp: 0 .. MaxTime + TTL, cut: 0 .. MaxStamp]

\* seen: the token read from the file; fd: the inode being written; stamp and
\* cut: the owner's as the mint began; born: the time it began.
Command == [ cmd: {"none", "use", "heal", "renew", "rotate"},
             at: {"idle", "read", "minting", "signing", "opening", "writing", "renaming"},
             seen: Jtis \cup {0, Torn}, jti: Jtis \cup {0}, fd: Inodes \cup {0},
             set: ScopeSets, kid: 0 .. MaxKeys, stamp: 0 .. MaxStamp, cut: 0 .. MaxStamp,
             born: 0 .. MaxTime ]

Idle == [cmd |-> "none", at |-> "idle", seen |-> 0, jti |-> 0, fd |-> 0, set |-> "none",
         kid |-> 0, stamp |-> 0, cut |-> 0, born |-> 0]

TypeOK ==
    /\ now \in 0 .. MaxTime /\ keys \in [Kids -> Key]
    /\ token \in [Jtis -> Token] /\ row \in [Jtis -> {"none", "live", "revoked"}]
    /\ owner \in [stamp: 0 .. MaxStamp, cut: 0 .. MaxStamp]
    /\ command \in [Procs -> Command]
    /\ content \in [Inodes -> Jtis \cup {0, Torn}]
    /\ tmp \in Inodes \cup {0} /\ file \in Inodes \cup {0}
    /\ chosen \in ScopeSets /\ overlapped \in BOOLEAN /\ excused \subseteq Jtis
    /\ lastUse \in 0 .. MaxTime /\ weekly \in BOOLEAN /\ events \in 0 .. MaxEvents

-----------------------------------------------------------------------------
OnDisk == IF file = 0 THEN 0 ELSE content[file]

\* readOperatorTokenJti: the file holds a token that decodes.
Whole == OnDisk \in Jtis

Signed == {j \in Jtis : token[j].exp > 0}

\* Mutant: `retired_at > ?`.
AdvertisedLess(k) ==
    /\ k \in Kids
    /\ keys[k].status = "retired" => keys[k].at > now - Retention

\* getAllPublicKeys
Advertised(k) ==
    /\ k \in Kids
    /\ keys[k].status = "retired" => keys[k].at >= now - Retention

ActiveKeys == {k \in Kids : keys[k].status = "active"}

Unborn == {k \in Kids : keys[k].status = "unborn"}

Unsigned == [set |-> "none", kid |-> 0, exp |-> 0, cut |-> 0]

\* A box before its first token, or with one: the operator's, or a narrow token
\* of another audience that somebody put there.
Init ==
    /\ now = 0 /\ owner = [stamp |-> 0, cut |-> 0]
    /\ command = [p \in Procs |-> Idle]
    /\ tmp = 0 /\ overlapped = FALSE /\ excused = {} /\ lastUse = 0 /\ weekly = TRUE
    /\ events = 0
    /\ \/ /\ keys = [k \in Kids |-> [status |-> "unborn", at |-> 0]]
          /\ token = [j \in Jtis |-> Unsigned] /\ row = [j \in Jtis |-> "none"]
          /\ content = [i \in Inodes |-> 0] /\ file = 0 /\ chosen = "none"
       \/ /\ keys = [k \in Kids |-> [status |-> IF k = 1 THEN "active" ELSE "unborn", at |-> 0]]
          /\ chosen \in {"auth", "none"}
          /\ token = [j \in Jtis |-> IF j = 1 THEN [Unsigned EXCEPT !.set = chosen, !.kid = 1,
                                                                     !.exp = TTL]
                                              ELSE Unsigned]
          /\ row = [j \in Jtis |-> IF j = 1 THEN "live" ELSE "none"]
          /\ content = [i \in Inodes |-> IF i = 1 THEN 1 ELSE 0] /\ file = 1

-----------------------------------------------------------------------------
Busy(p) == command[p].at # "idle"

Ends(p) == command' = [command EXCEPT ![p] = Idle]

\* What happens from outside is counted, to bound it.
Event == events < MaxEvents /\ events' = events + 1

\* A command begins: alone, with the file in order, it starts a fresh history.
Noted(p) ==
    LET alone == \A q \in Procs \ {p} : ~Busy(q)
        inOrder == Whole /\ (row[OnDisk] = "revoked" => OnDisk \in excused)
    IN /\ overlapped' = (~alone \/ (overlapped /\ ~inOrder))
       /\ chosen' = IF alone /\ inOrder THEN token[OnDisk].set ELSE chosen

\* The owner's row is read and the active key looked up, then the await.
MintBegins(p, cmd, set) ==
    command' = [command EXCEPT ![p] = [Idle EXCEPT
        !.cmd = cmd, !.set = set, !.stamp = owner.stamp, !.cut = owner.cut,
        !.born = now, !.at = IF ActiveKeys = {} THEN "minting" ELSE "signing",
        !.kid = IF ActiveKeys = {} THEN 0 ELSE CHOOSE k \in ActiveKeys : TRUE]]

\* useOperatorTokenWithAutoRotate or selfHealOperatorTokenIssuer reads the file;
\* the key lookup of validateAccessToken follows.
Reads(p) ==
    /\ ~Busy(p) /\ Noted(p)
    /\ \E c \in {"use", "heal"} :
        IF Whole /\ Advertised(token[OnDisk].kid)
        THEN command' = [command EXCEPT ![p] = [Idle EXCEPT !.cmd = c, !.at = "read",
                                                            !.seen = OnDisk]]
        ELSE Ends(p)
    /\ UNCHANGED <<now, keys, token, row, owner, disk, excused, lastUse, weekly, events>>

Valid(j) == now < token[j].exp /\ row[j] # "revoked"

\* Mutant: the threshold itself counts as fresh.
FreshAtThreshold(j) == token[j].exp - now >= Threshold

Fresh(j) == token[j].exp - now > Threshold

\* Mutant: an unrecognised scope set is re-minted as the default, admin (hub#224).
RemintedDefault(p, j) == MintBegins(p, "renew", "admin")

\* What is re-minted keeps its scope set; without one it is left alone.
Reminted(p, j) ==
    IF token[j].set = "none" THEN Ends(p)
                             ELSE MintBegins(p, "renew", token[j].set)

\* The signature, the expiry and the revocation are checked; a use re-mints
\* inside the threshold, a heal when the issuer is stale.
Validated(p) ==
    /\ command[p].at = "read"
    /\ LET j == command[p].seen IN
        \/ ~Valid(j) /\ Ends(p) /\ UNCHANGED lastUse
        \/ /\ Valid(j) /\ command[p].cmd = "use" /\ Fresh(j)
           /\ Ends(p) /\ lastUse' = now
        \/ /\ Valid(j) /\ command[p].cmd = "use" /\ ~Fresh(j)
           /\ Reminted(p, j) /\ UNCHANGED lastUse
        \/ /\ Valid(j) /\ command[p].cmd = "heal"
           /\ Ends(p) \/ Reminted(p, j)
           /\ UNCHANGED lastUse
    /\ UNCHANGED <<now, keys, token, row, owner, disk, chosen, overlapped, excused, weekly, events>>

\* rotate-operator, and set-password once the password is set.
RotateBegins(p) ==
    /\ ~Busy(p) /\ Noted(p)
    /\ \E set \in {"admin", "auth"} : MintBegins(p, "rotate", set)
    /\ UNCHANGED <<now, keys, token, row, owner, disk, excused, lastUse, weekly, events>>

-----------------------------------------------------------------------------
\* Mutant: the old key stays active.
InstallsBeside(k) == keys' = [keys EXCEPT ![k] = [status |-> "active", at |-> 0]]

\* The transaction of rotateSigningKey.
Installs(k) ==
    keys' = [i \in Kids |-> IF i = k THEN [status |-> "active", at |-> 0]
                            ELSE IF keys[i].status = "active"
                            THEN [status |-> "retired", at |-> now] ELSE keys[i]]

\* getActiveSigningKey found no key; another process may have made one since.
FirstKey(p) ==
    /\ command[p].at = "minting"
    /\ \E k \in Unborn :
        /\ \A i \in Unborn : k <= i
        /\ Installs(k)
        /\ command' = [command EXCEPT ![p].at = "signing", ![p].kid = k]
    /\ UNCHANGED <<now, token, row, owner, disk, history>>

\* auth rotate-key
RotateKey ==
    /\ Event
    /\ \E k \in Unborn : (\A i \in Unborn : k <= i) /\ Installs(k)
    /\ UNCHANGED <<now, token, row, owner, command, disk, chosen, overlapped, excused, lastUse,
                   weekly>>

\* Mutant: the owner's row must merely exist.
UnmovedAtAll(p) == owner.stamp \in Nat

\* recordTokenMint's compare-and-set on the owner's row.
Unmoved(p) == command[p].stamp = owner.stamp

\* Mutant: what the old token had left is added.
ExpiryExtended(p) == command[p].born + TTL + Threshold

Expiry(p) == command[p].born + TTL

\* The signature is there: the row is inserted if the owner's row has not moved.
Records(p) ==
    /\ command[p].at = "signing"
    /\ Signed # Jtis
    /\ LET j == 1 + Cardinality(Signed) IN
        /\ token' = [token EXCEPT ![j] = [set |-> command[p].set, kid |-> command[p].kid,
                        exp |-> Expiry(p), cut |-> command[p].cut]]
        /\ IF Unmoved(p)
           THEN /\ row' = [row EXCEPT ![j] = "live"]
                /\ command' = [command EXCEPT ![p] = [Idle EXCEPT !.cmd = command[p].cmd,
                        !.set = command[p].set, !.at = "opening", !.jti = j]]
           ELSE Ends(p) /\ UNCHANGED row
    /\ UNCHANGED <<now, keys, owner, disk, history>>

-----------------------------------------------------------------------------
Unlinked == Inodes \ ({tmp, file} \cup {command[q].fd : q \in Procs})

\* Mutant: the token is written in place.
OpensInPlace(p) ==
    /\ command[p].at = "opening" /\ file # 0
    /\ tmp' = tmp
    /\ content' = [content EXCEPT ![file] = 0]
    /\ command' = [command EXCEPT ![p].at = "writing", ![p].fd = file]
    /\ UNCHANGED <<now, keys, token, row, owner, file, history>>

\* fs.writeFile opens the temporary name, which truncates what is there ...
Opens(p) ==
    /\ command[p].at = "opening"
    /\ tmp' = IF tmp # 0 THEN tmp ELSE CHOOSE i \in Unlinked : TRUE
    /\ content' = [content EXCEPT ![tmp'] = 0]
    /\ command' = [command EXCEPT ![p].at = "writing", ![p].fd = tmp']
    /\ UNCHANGED <<now, keys, token, row, owner, file, history>>

\* ... and writes: over what another writer has put there meanwhile, if any.
\* What goes to an inode that no longer has a name is lost.
Writes(p) ==
    /\ command[p].at = "writing"
    /\ LET i == command[p].fd IN
        \E c \in {command[p].jti} \cup (IF content[i] = 0 THEN {} ELSE {Torn}) :
            content' = IF i \in {tmp, file} THEN [content EXCEPT ![i] = c] ELSE content
    /\ command' = [command EXCEPT ![p].at = "renaming", ![p].fd = 0]
    /\ UNCHANGED <<now, keys, token, row, owner, tmp, file, history>>

\* chmod and rename fail when another writer has renamed the file away.
Renames(p) ==
    /\ command[p].at = "renaming"
    /\ \/ tmp = 0 /\ UNCHANGED <<disk, chosen, lastUse>>
       \/ /\ tmp # 0 /\ tmp' = 0 /\ file' = tmp
          /\ chosen' = IF command[p].cmd = "rotate" THEN command[p].set ELSE chosen
          /\ lastUse' = now
          /\ content' = [i \in Inodes |-> IF i = file THEN 0 ELSE content[i]]
    /\ Ends(p)
    /\ UNCHANGED <<now, keys, token, row, owner, overlapped, excused, weekly, events>>

\* The process is killed; a write may have been under way.
Dies(p) ==
    /\ Busy(p) /\ Event
    /\ content' \in {content} \cup (IF command[p].at = "writing"
                                       /\ command[p].fd \in {tmp, file}
                                    THEN {[content EXCEPT ![command[p].fd] = Torn]} ELSE {})
    /\ Ends(p)
    /\ UNCHANGED <<now, keys, token, row, owner, tmp, file, chosen, overlapped, excused, lastUse,
                   weekly>>

-----------------------------------------------------------------------------
\* A registered token that a process still has to write, or has just written.
Unlanded(j) == (\E p \in Procs : command[p].jti = j) \/ (tmp # 0 /\ content[tmp] = j)

\* Mutant: any row may be revoked.
GuardedNever(j) == FALSE

\* The revoke endpoint and revoke-token: not the token on disk.
Guarded(j) == OnDisk = j

Revoke(j) ==
    /\ row[j] = "live" /\ ~Guarded(j) /\ Event
    /\ row' = [row EXCEPT ![j] = "revoked"]
    /\ excused' = IF Unlanded(j) THEN excused \cup {j} ELSE excused
    /\ UNCHANGED <<now, keys, token, owner, command, disk, chosen, overlapped, lastUse, weekly>>

BreakGlass(j) ==
    /\ row[j] = "live" /\ Event
    /\ row' = [row EXCEPT ![j] = "revoked"]
    /\ excused' = excused \cup {j}
    /\ UNCHANGED <<now, keys, token, owner, command, disk, chosen, overlapped, lastUse, weekly>>

\* setPassword moves updated_at and revokes nothing.
SetPassword ==
    /\ owner.stamp < MaxStamp /\ Event
    /\ owner' = [owner EXCEPT !.stamp = @ + 1]
    /\ UNCHANGED <<now, keys, token, row, command, disk, chosen, overlapped, excused, lastUse,
                   weekly>>

\* /account/change-password revokes every row of the user, the operator's
\* token included.
ChangePassword ==
    /\ owner.stamp < MaxStamp /\ Event
    /\ owner' = [stamp |-> owner.stamp + 1, cut |-> owner.cut + 1]
    /\ row' = [j \in Jtis |-> IF row[j] = "live" THEN "revoked" ELSE row[j]]
    /\ excused' = excused \cup {j \in Jtis : row[j] = "live"}
    /\ UNCHANGED <<now, keys, token, command, disk, chosen, overlapped, lastUse, weekly>>

Tick ==
    /\ now < MaxTime /\ \A p \in Procs : ~Busy(p)
    /\ now' = now + 1
    /\ weekly' = (weekly /\ now' - lastUse <= Threshold)
    /\ UNCHANGED <<keys, token, row, owner, command, disk, chosen, overlapped, excused, lastUse, events>>

-----------------------------------------------------------------------------
Mint(p) == FirstKey(p) \/ Records(p)

Write(p) == Opens(p) \/ Writes(p) \/ Renames(p)

Next ==
    \/ \E p \in Procs : \/ Reads(p) \/ Validated(p) \/ RotateBegins(p)
                        \/ Mint(p) \/ Write(p) \/ Dies(p)
    \/ \E j \in Jtis : Revoke(j) \/ BreakGlass(j)
    \/ RotateKey \/ SetPassword \/ ChangePassword \/ Tick

Spec == Init /\ [][Next]_vars

-----------------------------------------------------------------------------
\* The credential on disk is whole, whoever dies when, unless writers overlapped
\* and one renamed what the other was writing; and it is not dead by mistake: a
\* revocation that was not meant for it came before it was written.
CredentialStands ==
    ~overlapped => /\ file # 0 => OnDisk \in Jtis
                   /\ Whole /\ row[OnDisk] = "revoked" => OnDisk \in excused

\* Only rotate-operator changes what the token may do: a renewal or a heal that
\* runs by itself neither widens nor narrows it, and a token of another kind is
\* never turned into the operator's.
ScopeSetSticks == Whole /\ ~overlapped => token[OnDisk].set = chosen

\* After a change of password no token minted from the owner's former row is
\* live, whenever its signature was awaited.
CutIsFinal == \A j \in Jtis : row[j] = "live" => token[j].cut = owner.cut

\* An operator who uses the token at least once per threshold never meets an
\* expired one.
WeeklyNeverExpires ==
    weekly => \A p \in Procs : command[p].at = "read" /\ command[p].cmd = "use"
                                   => now < token[command[p].seen].exp

\* The key of a token stays published for the whole retention from the beginning
\* of the token's mint on, to the last moment, however late its signature and
\* whatever became of the key meanwhile; and never two keys to sign with.
\* Nothing is promised after that: a 90-day operator token outlives a retired
\* key's retention, while an access token (15 minutes) never does.
SignedTokensVerify ==
    /\ \A j \in Signed :
        now <= (token[j].exp - TTL) + Retention => Advertised(token[j].kid)
    /\ Cardinality(ActiveKeys) <= 1
=============================================================================
