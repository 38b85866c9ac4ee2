--------------------------- MODULE TokenLifetimes ---------------------------
(***************************************************************************)
(* The lifetimes behind a session of one user: the two JWTs, which expire  *)
(* by the seconds of their own claims, and the documents that stand for    *)
(* them in MongoDB, which its TTL monitor removes some time after their    *)
(* expiresAt (apps/api/src/services/jwt.service.ts, token.service.ts).     *)
(*                                                                         *)
(* One setting gives both lifetimes and is read twice, by jsonwebtoken and *)
(* by getTokenExpirationTimeMS.  Time passes between any two database      *)
(* calls.  Sessions has the same calls without the time.                   *)
(***************************************************************************)
EXTENDS Integers, FiniteSets

CONSTANTS
    Session,
    Op,             \* requests at the same time
    Setting,        \* the values of JWT_SECRET_..._EXP: an amount and a unit
    SECONDS,        \* the length of the units s, m, h, d, w
    DEFAULT,        \* 15 * 60 in the source
    RESOLUTION,     \* instants per second; 1000 in the source
    MaxTime         \* the bound on the clock

\* The words that this model knows, and what the library ms takes them for.
UnitOf == [s |-> "s", m |-> "m", h |-> "h", d |-> "d", w |-> "w",
           min |-> "m", hours |-> "h", days |-> "d"]

\* expiresIn.slice(-1)
LastLetter == [s |-> "s", m |-> "m", h |-> "h", d |-> "d", w |-> "w",
               min |-> "n", hours |-> "s", days |-> "s"]

ASSUME TokenLifetimesAssumption ==
    /\ Setting \subseteq [amount : Nat, word : DOMAIN UnitOf]
    /\ SECONDS \in [{"s", "m", "h", "d", "w"} -> Nat]
    /\ DEFAULT \in Nat /\ RESOLUTION \in Nat \ {0} /\ MaxTime \in Nat

VARIABLES
    access, refresh,    \* the settings
    now,
    signedAt,           \* per session, when its tokens were signed
    doc,                \* its refresh-token document
    blacklist,          \* the expiresAt of its blacklist entry
    op,                 \* the requests under way
    barred              \* history: the sessions that were ever blacklisted

settings == <<access, refresh>>
vars == <<settings, now, signedAt, doc, blacklist, op, barred>>

Never == -1
Time == 0..MaxTime
Idle == [pc |-> "idle", target |-> {}, found |-> {}, expiresAt |-> Never, all |-> FALSE]

------------------------------------------------------------------------------
\* The two readings of a setting

\* jsonwebtoken, for exp.
Signed(x) == x.amount * SECONDS[UnitOf[x.word]]

\* getTokenExpirationTimeMS, for expiresAt.
Read(x) ==
    LET letter == LastLetter[x.word]
    IN  IF letter \in {"s", "m", "h", "d"} THEN x.amount * SECONDS[letter] ELSE DEFAULT

\* A document of this lifetime is to outlast its token.
Covers(x) == Read(x) >= Signed(x)

------------------------------------------------------------------------------
\* Tokens and documents

Second(t) == (t \div RESOLUTION) * RESOLUTION
Exp(t, x) == Second(t) + Signed(x) * RESOLUTION

\* Mutant: milliseconds multiplied by 1000.
ExpiresAtThousandfold(t, x) == t + Read(x) * RESOLUTION * 1000

ExpiresAt(t, x) == t + Read(x) * RESOLUTION

IsSigned(s) == signedAt[s] # Never
Verifies(s, x) == IsSigned(s) /\ Second(now) < Exp(signedAt[s], x)

\* requireAuth, as far as the tokens go.
Accepts(s) == Verifies(s, access) /\ blacklist[s] = Never

\* Mutant: the lifetime of the other token.
DocAsAccess(s) == ExpiresAt(signedAt[s], access)

DocExpiresAt(s) == ExpiresAt(signedAt[s], refresh)

\* Mutant: until when the entry is written, and no longer.
BlacklistNow == now

BlacklistExpiresAt == ExpiresAt(now, access)

Expires == {Never} \cup Time \cup {t + Read(x) * RESOLUTION : t \in Time, x \in Setting}

\* Times, documents and requests have their shapes; a document has its token, and
\* what was never signed is nowhere.
TypeOK ==
    /\ access \in Setting /\ refresh \in Setting
    /\ now \in Time
    /\ signedAt \in [Session -> Time \cup {Never}]
    /\ doc \in [Session -> {"none", "active", "revoked", "gone"}]
    /\ \A s \in Session : doc[s] # "none" => IsSigned(s)
    /\ blacklist \in [Session -> Expires]
    /\ op \in [Op -> [pc        : {"idle", "refresh", "logout", "find", "insert", "revoke"},
                      target    : SUBSET Session,
                      found     : SUBSET Session,
                      expiresAt : Expires,
                      all       : BOOLEAN]]
    /\ barred \subseteq Session

Init ==
    /\ access \in Setting /\ refresh \in Setting
    /\ now = 0
    /\ signedAt = [s \in Session |-> Never]
    /\ doc = [s \in Session |-> "none"]
    /\ blacklist = [s \in Session |-> Never]
    /\ op = [o \in Op |-> Idle]
    /\ barred = {}

------------------------------------------------------------------------------
\* Sign-in, refresh, logout and sweep, a database call a step

\* generateAuthTokens: the tokens are signed and the document is made,
Sign(s) ==
    /\ ~IsSigned(s)
    /\ signedAt' = [signedAt EXCEPT ![s] = now]

Login(s) ==
    /\ Sign(s)
    /\ UNCHANGED <<settings, now, doc, blacklist, op, barred>>

\* then inserted.
Store(s) ==
    /\ IsSigned(s) /\ doc[s] = "none"
    /\ doc' = [doc EXCEPT ![s] = "active"]
    /\ UNCHANGED <<settings, now, signedAt, blacklist, op, barred>>

\* verifyAndGetRefreshToken: a token whose document is gone is refused, and one
\* that is spent starts a sweep.
Begin(o, s, pc) ==
    /\ op[o].pc = "idle"
    /\ Verifies(s, refresh)
    /\ \/ doc[s] = "active"
          /\ op' = [op EXCEPT ![o] = [Idle EXCEPT !.pc = pc, !.target = {s}]]
       \/ doc[s] = "revoked"
          /\ op' = [op EXCEPT ![o] = [Idle EXCEPT !.pc = "find", !.all = TRUE]]
    /\ UNCHANGED <<settings, now, signedAt, doc, blacklist, barred>>

\* revokeSession: the refresh that wins signs the next pair, the other one sweeps.
Rotate(o, s, t) ==
    /\ op[o].pc = "refresh" /\ op[o].target = {s}
    /\ doc[s] = "active"
    /\ doc' = [doc EXCEPT ![s] = "revoked"]
    /\ Sign(t)
    /\ op' = [op EXCEPT ![o] = Idle]
    /\ UNCHANGED <<settings, now, blacklist, barred>>

LoseRotation(o, s) ==
    /\ op[o].pc = "refresh" /\ op[o].target = {s}
    /\ doc[s] # "active"
    /\ op' = [op EXCEPT ![o] = [Idle EXCEPT !.pc = "find", !.all = TRUE]]
    /\ UNCHANGED <<settings, now, signedAt, doc, blacklist, barred>>

\* logout: revoked whatever its state, then blacklisted.
Logout(o, s) ==
    /\ op[o].pc = "logout" /\ op[o].target = {s}
    /\ doc' = [doc EXCEPT ![s] = IF @ = "active" THEN "revoked" ELSE @]
    /\ op' = [op EXCEPT ![o] = [Idle EXCEPT !.pc = "insert", !.found = {s},
                                            !.expiresAt = BlacklistExpiresAt]]
    /\ UNCHANGED <<settings, now, signedAt, blacklist, barred>>

\* blacklistAndRevokeAllUserSessions: the active documents are found,
Find(o) ==
    /\ op[o].pc = "find"
    /\ op' = [op EXCEPT ![o].pc = "insert", ![o].expiresAt = BlacklistExpiresAt,
                        ![o].found = {s \in Session : doc[s] = "active"}]
    /\ UNCHANGED <<settings, now, signedAt, doc, blacklist, barred>>

\* their sessions blacklisted (of two entries the later one counts),
Insert(o) ==
    /\ op[o].pc = "insert"
    /\ blacklist' = [s \in Session |->
           IF s \in op[o].found /\ blacklist[s] < op[o].expiresAt THEN op[o].expiresAt
                                                                  ELSE blacklist[s]]
    /\ barred' = barred \cup op[o].found
    /\ op' = [op EXCEPT ![o] = IF @.all THEN [Idle EXCEPT !.pc = "revoke"] ELSE Idle]
    /\ UNCHANGED <<settings, now, signedAt, doc>>

\* and every document revoked that is active by now.
RevokeAll(o) ==
    /\ op[o].pc = "revoke"
    /\ doc' = [s \in Session |-> IF doc[s] = "active" THEN "revoked" ELSE doc[s]]
    /\ op' = [op EXCEPT ![o] = Idle]
    /\ UNCHANGED <<settings, now, signedAt, blacklist, barred>>

------------------------------------------------------------------------------
\* The TTL monitor and the clock

PurgeDoc(s) ==
    /\ doc[s] \in {"active", "revoked"}
    /\ DocExpiresAt(s) <= now
    /\ doc' = [doc EXCEPT ![s] = "gone"]
    /\ UNCHANGED <<settings, now, signedAt, blacklist, op, barred>>

PurgeEntry(s) ==
    /\ blacklist[s] # Never /\ blacklist[s] <= now
    /\ blacklist' = [blacklist EXCEPT ![s] = Never]
    /\ UNCHANGED <<settings, now, signedAt, doc, op, barred>>

Tick ==
    /\ now < MaxTime
    /\ now' = now + 1
    /\ UNCHANGED <<settings, signedAt, doc, blacklist, op, barred>>

Next ==
    \/ \E s \in Session : Login(s) \/ Store(s) \/ PurgeDoc(s) \/ PurgeEntry(s)
    \/ \E o \in Op, s \in Session :
          \/ Begin(o, s, "refresh") \/ Begin(o, s, "logout")
          \/ LoseRotation(o, s) \/ Logout(o, s)
          \/ \E t \in Session : Rotate(o, s, t)
    \/ \E o \in Op : Find(o) \/ Insert(o) \/ RevokeAll(o)
    \/ Tick

Spec == Init /\ [][Next]_vars

------------------------------------------------------------------------------
\* token.service.ts: a blacklist entry needs to outlive the access token.  It
\* does: no access token of a session that was ever blacklisted is accepted again,
\* however long the sweep took and however promptly its entry was purged, as long
\* as the setting is not read as a shorter one than it is signed with.
BarredIsBarred == Covers(access) => \A s \in barred : ~Accepts(s)

\* Spent or not, the document of a refresh token is there for as long as the token
\* verifies: otherwise a good session would end early, and the reuse of a spent
\* token would pass as the use of an unknown one and end nothing.
SpentIsRemembered ==
    Covers(refresh) =>
        \A s \in Session : Verifies(s, refresh) => doc[s] # "gone"
=============================================================================
