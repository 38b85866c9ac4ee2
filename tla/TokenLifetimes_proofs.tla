----------------------- MODULE TokenLifetimes_proofs -----------------------
(***************************************************************************)
(* Theorems about TokenLifetimes, for every setting, every length of the   *)
(* units and every number of sessions and requests.                        *)
(***************************************************************************)
EXTENDS TokenLifetimes, TLAPS

\* The instant by which the access token of a session has expired for sure.
Deadline(s) == ExpiresAt(signedAt[s], access)

\* Only what was signed is ever acted on, and an entry about to be written is
\* late enough for the sessions it is written for.
RequestsKnowSessions ==
    \A o \in Op :
        /\ \A s \in op[o].target : IsSigned(s)
        /\ \A s \in op[o].found : IsSigned(s) /\ op[o].expiresAt >= Deadline(s)

\* A session that was blacklisted still is, or its access token has expired.
EntriesOutlive ==
    \A s \in barred : IsSigned(s) /\ (blacklist[s] >= Deadline(s) \/ now >= Deadline(s))

\* A document goes when its time has come.
PurgedInTime == \A s \in Session : doc[s] = "gone" => now >= DocExpiresAt(s)

LifetimeInv ==
    /\ TypeOK
    /\ \A s \in Session : signedAt[s] <= now
    /\ RequestsKnowSessions
    /\ EntriesOutlive
    /\ PurgedInTime

------------------------------------------------------------------------------
\* The two readings of a setting

LEMMA ReadingIsNatural ==
  ASSUME NEW x \in Setting
  PROVE  Read(x) \in Nat /\ Signed(x) \in Nat /\ Read(x) * RESOLUTION \in Nat
<1>1. /\ x.amount \in Nat
      /\ x.word \in {"s", "m", "h", "d", "w", "min", "hours", "days"}
  BY TokenLifetimesAssumption DEF UnitOf
<1>2. SECONDS \in [{"s", "m", "h", "d", "w"} -> Nat] /\ DEFAULT \in Nat
  BY TokenLifetimesAssumption
<1>3. UnitOf[x.word] \in {"s", "m", "h", "d", "w"}
  BY <1>1 DEF UnitOf
<1>4. Signed(x) \in Nat
  <2>1. SECONDS[UnitOf[x.word]] \in Nat
    BY <1>2, <1>3
  <2>2. QED
    BY <1>1, <2>1 DEF Signed
<1>5. Read(x) \in Nat
  <2> DEFINE letter == LastLetter[x.word]
  <2>1. CASE letter \in {"s", "m", "h", "d"}
    <3>1. SECONDS[letter] \in Nat
      BY <1>2, <2>1
    <3>2. Read(x) = x.amount * SECONDS[letter]
      BY <2>1 DEF Read
    <3>3. QED
      BY <1>1, <3>1, <3>2
  <2>2. CASE letter \notin {"s", "m", "h", "d"}
    BY <1>2, <2>2 DEF Read
  <2>3. QED
    BY <2>1, <2>2
<1>6. QED
  BY <1>4, <1>5, TokenLifetimesAssumption

\* Whole seconds keep a distance of whole seconds.
LEMMA SecondsKeepDistance ==
  ASSUME NEW R \in Nat \ {0}, NEW a \in Nat, NEW b \in Nat, NEW k \in Nat,
         a >= b + k * R
  PROVE  (a \div R) * R >= (b \div R) * R + k * R
<1> DEFINE q == a \div R
           p == b \div R
<1>1. q \in Nat /\ p \in Nat
  OBVIOUS
<1>2. p * R <= b /\ a < q * R + R
  OBVIOUS
<1>3. p * R \in Nat /\ q * R \in Nat /\ k * R \in Nat
  BY <1>1
<1>4. p * R + k * R < q * R + R
  BY <1>2, <1>3
<1>5. (p + k) * R < (q + 1) * R
  <2>1. (p + k) * R = p * R + k * R
    BY <1>1
  <2>2. (q + 1) * R = q * R + R
    BY <1>1
  <2>3. QED
    BY <1>4, <2>1, <2>2
<1>6. p + k <= q
  <2>1. SUFFICES ASSUME p + k >= q + 1 PROVE FALSE
    BY <1>1
  <2>2. (p + k) * R >= (q + 1) * R
    BY <1>1, <2>1
  <2>3. (p + k) * R \in Nat /\ (q + 1) * R \in Nat
    BY <1>1
  <2>4. QED
    BY <1>5, <2>2, <2>3
<1>7. (p + k) * R <= q * R
  BY <1>1, <1>6
<1>8. (p + k) * R = p * R + k * R
  BY <1>1
<1>9. QED
  BY <1>7, <1>8

\* A token has expired by the time that its setting, read, has passed.
LEMMA ExpiredByThen ==
  ASSUME NEW x \in Setting, Covers(x),
         NEW s \in Session, TypeOK, IsSigned(s),
         now >= ExpiresAt(signedAt[s], x)
  PROVE  ~Verifies(s, x)
<1>1. signedAt[s] \in Nat /\ now \in Nat /\ RESOLUTION \in Nat \ {0}
  BY TokenLifetimesAssumption DEF TypeOK, Time, Never, IsSigned
<1>2. Read(x) \in Nat /\ Signed(x) \in Nat
  BY ReadingIsNatural
<1>3. Read(x) * RESOLUTION >= Signed(x) * RESOLUTION
  <2>1. Read(x) >= Signed(x)
    BY DEF Covers
  <2>2. QED
    BY <1>1, <1>2, <2>1
<1>4. now >= signedAt[s] + Signed(x) * RESOLUTION
  <2>1. Read(x) * RESOLUTION \in Nat /\ Signed(x) * RESOLUTION \in Nat
    BY <1>1, <1>2
  <2>2. QED
    BY <1>1, <1>3, <2>1 DEF ExpiresAt
<1>5. Second(now) >= Second(signedAt[s]) + Signed(x) * RESOLUTION
  BY <1>1, <1>2, <1>4, SecondsKeepDistance DEF Second
<1>6. Second(now) \in Int /\ Exp(signedAt[s], x) \in Int
  BY <1>1, <1>2 DEF Second, Exp
<1>7. QED
  BY <1>5, <1>6 DEF Verifies, Exp

------------------------------------------------------------------------------
\* Types

LEMMA BlacklistTyping ==
  ASSUME TypeOK
  PROVE  BlacklistExpiresAt \in Expires
  BY DEF TypeOK, BlacklistExpiresAt, ExpiresAt, Expires

LEMMA TypeInit == Init => TypeOK
  BY TokenLifetimesAssumption DEF Init, TypeOK, Time, Never, Idle, Expires, IsSigned

LEMMA TypeStep == TypeOK /\ [Next]_vars => TypeOK'
<1> SUFFICES ASSUME TypeOK, [Next]_vars PROVE TypeOK'
    OBVIOUS
<1> DEFINE Request == [pc        : {"idle", "refresh", "logout", "find", "insert", "revoke"},
                       target    : SUBSET Session,
                       found     : SUBSET Session,
                       expiresAt : Expires,
                       all       : BOOLEAN]
<1>0. /\ access \in Setting /\ refresh \in Setting
      /\ now \in Time /\ MaxTime \in Nat
      /\ signedAt \in [Session -> Time \cup {Never}]
      /\ doc \in [Session -> {"none", "active", "revoked", "gone"}]
      /\ \A s \in Session : doc[s] # "none" => signedAt[s] # Never
      /\ blacklist \in [Session -> Expires]
      /\ op \in [Op -> Request]
      /\ barred \subseteq Session
  BY TokenLifetimesAssumption DEF TypeOK, IsSigned
<1>1. /\ Idle \in Request /\ Never \in Expires
      /\ [Idle EXCEPT !.pc = "find", !.all = TRUE] \in Request
      /\ [Idle EXCEPT !.pc = "revoke"] \in Request
      /\ \A s \in Session :
            /\ [Idle EXCEPT !.pc = "refresh", !.target = {s}] \in Request
            /\ [Idle EXCEPT !.pc = "logout", !.target = {s}] \in Request
  <2>1. Never \in Expires
    BY DEF Expires
  <2>2. Idle \in Request
    BY <2>1 DEF Idle
  <2>3. [Idle EXCEPT !.pc = "find", !.all = TRUE] \in Request
    BY <2>1 DEF Idle
  <2>4. [Idle EXCEPT !.pc = "revoke"] \in Request
    BY <2>2
  <2>5. ASSUME NEW s \in Session
        PROVE  /\ [Idle EXCEPT !.pc = "refresh", !.target = {s}] \in Request
               /\ [Idle EXCEPT !.pc = "logout", !.target = {s}] \in Request
    BY <2>1 DEF Idle
  <2>6. QED
    BY <2>1, <2>2, <2>3, <2>4, <2>5
<1>2. ASSUME NEW s \in Session, Sign(s)
      PROVE  /\ signedAt' \in [Session -> Time \cup {Never}]
             /\ \A t \in Session : signedAt[t] # Never => signedAt'[t] # Never
  BY <1>0, <1>2 DEF Sign, Time, Never, IsSigned
<1>3. ASSUME NEW s \in Session, Login(s) PROVE TypeOK'
  <2>1. /\ signedAt' \in [Session -> Time \cup {Never}]
        /\ \A t \in Session : signedAt[t] # Never => signedAt'[t] # Never
    BY <1>2, <1>3 DEF Login
  <2>2. QED
    BY <1>0, <1>3, <2>1 DEF Login, TypeOK, settings, IsSigned
<1>4. ASSUME NEW s \in Session, Store(s) \/ PurgeDoc(s) PROVE TypeOK'
  BY <1>0, <1>4 DEF Store, PurgeDoc, TypeOK, settings, IsSigned
<1>5. ASSUME NEW s \in Session, PurgeEntry(s) PROVE TypeOK'
  BY <1>0, <1>1, <1>5 DEF PurgeEntry, TypeOK, settings, IsSigned
<1>6. ASSUME NEW o \in Op, NEW s \in Session, NEW pc \in {"refresh", "logout"}, Begin(o, s, pc)
      PROVE  TypeOK'
  <2>1. op' \in [Op -> Request]
    <3>1. CASE op' = [op EXCEPT ![o] = [Idle EXCEPT !.pc = pc, !.target = {s}]]
      BY <1>0, <1>1, <3>1
    <3>2. CASE op' = [op EXCEPT ![o] = [Idle EXCEPT !.pc = "find", !.all = TRUE]]
      BY <1>0, <1>1, <3>2
    <3>3. QED
      BY <1>6, <3>1, <3>2 DEF Begin
  <2>2. QED
    BY <1>0, <1>6, <2>1 DEF Begin, TypeOK, settings, IsSigned
<1>7. ASSUME NEW o \in Op, NEW s \in Session, NEW t \in Session, Rotate(o, s, t)
      PROVE  TypeOK'
  <2>1. /\ signedAt' \in [Session -> Time \cup {Never}]
        /\ \A u \in Session : signedAt[u] # Never => signedAt'[u] # Never
    BY <1>2, <1>7 DEF Rotate
  <2>2. /\ op' \in [Op -> Request]
        /\ doc' \in [Session -> {"none", "active", "revoked", "gone"}]
        /\ \A u \in Session : doc'[u] # "none" => doc[u] # "none"
    BY <1>0, <1>1, <1>7 DEF Rotate
  <2>3. QED
    BY <1>0, <1>7, <2>1, <2>2 DEF Rotate, TypeOK, settings, IsSigned
<1>8. ASSUME NEW o \in Op, NEW s \in Session, LoseRotation(o, s) PROVE TypeOK'
  <2>1. op' \in [Op -> Request]
    BY <1>0, <1>1, <1>8 DEF LoseRotation
  <2>2. QED
    BY <1>0, <1>8, <2>1 DEF LoseRotation, TypeOK, settings, IsSigned
<1>9. ASSUME NEW o \in Op, NEW s \in Session, Logout(o, s) PROVE TypeOK'
  <2>1. [Idle EXCEPT !.pc = "insert", !.found = {s}, !.expiresAt = BlacklistExpiresAt] \in Request
    BY BlacklistTyping DEF Idle
  <2>2. op' \in [Op -> Request]
    BY <1>0, <1>9, <2>1 DEF Logout
  <2>3. /\ doc' \in [Session -> {"none", "active", "revoked", "gone"}]
        /\ \A u \in Session : doc'[u] # "none" => doc[u] # "none"
    BY <1>0, <1>9 DEF Logout
  <2>4. QED
    BY <1>0, <1>9, <2>2, <2>3 DEF Logout, TypeOK, settings, IsSigned
<1>10. ASSUME NEW o \in Op, Find(o) PROVE TypeOK'
  <2>1. {s \in Session : doc[s] = "active"} \in SUBSET Session
    OBVIOUS
  <2>2. op' \in [Op -> Request]
    <3>1. /\ op[o] \in Request /\ DOMAIN op = Op
          /\ BlacklistExpiresAt \in Expires
      BY <1>0, BlacklistTyping
    <3>2. [op[o] EXCEPT !.pc = "insert", !.expiresAt = BlacklistExpiresAt,
                        !.found = {s \in Session : doc[s] = "active"}] \in Request
      BY <2>1, <3>1
    <3>3. op' = [op EXCEPT ![o] =
              [op[o] EXCEPT !.pc = "insert", !.expiresAt = BlacklistExpiresAt,
                            !.found = {s \in Session : doc[s] = "active"}]]
      BY <1>0, <1>10 DEF Find
    <3>4. QED
      BY <1>0, <3>2, <3>3
  <2>3. QED
    BY <1>0, <1>10, <2>2 DEF Find, TypeOK, settings, IsSigned
<1>11. ASSUME NEW o \in Op, Insert(o) PROVE TypeOK'
  <2>1. op[o] \in Request
    BY <1>0
  <2>2. blacklist' \in [Session -> Expires]
    BY <1>0, <1>11, <2>1 DEF Insert
  <2>4. op' \in [Op -> Request]
    BY <1>0, <1>1, <1>11 DEF Insert
  <2>5. QED
    BY <1>0, <1>11, <2>1, <2>2, <2>4 DEF Insert, TypeOK, settings, IsSigned
<1>12. ASSUME NEW o \in Op, RevokeAll(o) PROVE TypeOK'
  <2>1. op' \in [Op -> Request]
    BY <1>0, <1>1, <1>12 DEF RevokeAll
  <2>2. /\ doc' \in [Session -> {"none", "active", "revoked", "gone"}]
        /\ \A u \in Session : doc'[u] # "none" => doc[u] # "none"
    BY <1>0, <1>12 DEF RevokeAll
  <2>3. QED
    BY <1>0, <1>12, <2>1, <2>2 DEF RevokeAll, TypeOK, settings, IsSigned
<1>13. ASSUME Tick PROVE TypeOK'
  BY <1>0, <1>13 DEF Tick, TypeOK, settings, IsSigned, Time
<1>14. ASSUME UNCHANGED vars PROVE TypeOK'
  BY <1>0, <1>14 DEF vars, settings, TypeOK, IsSigned
<1>15. QED
  BY <1>3, <1>4, <1>5, <1>6, <1>7, <1>8, <1>9, <1>10, <1>11, <1>12, <1>13, <1>14 DEF Next
------------------------------------------------------------------------------
\* Lifetimes

\* What the steps below need of the types, with the lifetimes as plain numbers.
LEMMA Instants ==
  ASSUME TypeOK
  PROVE  /\ now \in Nat
         /\ \A s \in Session : signedAt[s] \in Nat \cup {Never}
         /\ \A s \in Session : blacklist[s] \in Int
         /\ \A o \in Op : /\ op[o].target \subseteq Session /\ op[o].found \subseteq Session
                         /\ op[o].expiresAt \in Int
         /\ DOMAIN op = Op /\ DOMAIN doc = Session /\ DOMAIN blacklist = Session
<1>1. Expires \subseteq Int
  BY ReadingIsNatural, TokenLifetimesAssumption DEF Expires, Time, Never
<1>2. /\ now \in Nat
      /\ \A s \in Session : signedAt[s] \in Nat \cup {Never}
  BY TokenLifetimesAssumption DEF TypeOK, Time
<1>3. \A s \in Session : blacklist[s] \in Int
  BY <1>1 DEF TypeOK
<1>4. ASSUME NEW o \in Op
      PROVE  /\ op[o].target \subseteq Session /\ op[o].found \subseteq Session
             /\ op[o].expiresAt \in Int
  BY <1>1 DEF TypeOK
<1>5. DOMAIN op = Op /\ DOMAIN doc = Session /\ DOMAIN blacklist = Session
  BY DEF TypeOK
<1>6. QED
  BY <1>2, <1>3, <1>4, <1>5

\* Time goes on, and a session is signed once.
LEMMA SignedOnce ==
  ASSUME TypeOK, [Next]_vars, \A s \in Session : signedAt[s] <= now
  PROVE  /\ access' = access /\ refresh' = refresh
         /\ now' \in Nat /\ now' >= now
         /\ \A s \in Session : /\ IsSigned(s) => signedAt'[s] = signedAt[s]
                              /\ signedAt'[s] <= now'
<1>1. /\ now \in Nat /\ DOMAIN signedAt = Session
      /\ \A s \in Session : signedAt[s] \in Int
  BY Instants DEF TypeOK, Never
<1>2. ASSUME NEW s \in Session, Sign(s), now' = now
      PROVE  \A t \in Session : /\ IsSigned(t) => signedAt'[t] = signedAt[t]
                                /\ signedAt'[t] <= now'
  BY <1>1, <1>2 DEF Sign, IsSigned
<1>3. CASE Tick
  BY <1>1, <1>3 DEF Tick, settings
<1>4. CASE \E s \in Session : Login(s)
  BY <1>1, <1>2, <1>4 DEF Login, settings
<1>5. CASE \E o \in Op, s \in Session, t \in Session : Rotate(o, s, t)
  BY <1>1, <1>2, <1>5 DEF Rotate, settings
<1>6. CASE UNCHANGED <<settings, now, signedAt>>
  BY <1>1, <1>6 DEF settings
<1>7. QED
  BY <1>3, <1>4, <1>5, <1>6
  DEF Next, vars, Store, PurgeDoc, PurgeEntry, Begin, LoseRotation, Logout, Find, Insert, RevokeAll

LEMMA RequestsStep ==
  ASSUME LifetimeInv, [Next]_vars
  PROVE  RequestsKnowSessions'
<1> DEFINE W == Read(access) * RESOLUTION
<1>1. W \in Nat
  BY ReadingIsNatural DEF LifetimeInv, TypeOK
<1>2. /\ access' = access
      /\ \A s \in Session : IsSigned(s) => signedAt'[s] = signedAt[s]
  BY SignedOnce DEF LifetimeInv
<1>3. /\ \A s \in Session : Deadline(s) = signedAt[s] + W /\ Deadline(s)' = signedAt'[s] + W
      /\ BlacklistExpiresAt = now + W
  BY <1>2 DEF Deadline, ExpiresAt, BlacklistExpiresAt, Read
<1> HIDE DEF W
<1>4. /\ now \in Nat
      /\ \A s \in Session : signedAt[s] \in Int /\ signedAt[s] <= now
      /\ \A s \in Session : doc[s] # "none" => IsSigned(s)
      /\ \A o \in Op : op[o].target \subseteq Session /\ op[o].found \subseteq Session
      /\ DOMAIN op = Op
      /\ RequestsKnowSessions
  BY Instants DEF LifetimeInv, TypeOK, Never
<1>5. \A s \in Session : IsSigned(s) => IsSigned(s)' /\ Deadline(s)' = Deadline(s)
  BY <1>2, <1>3 DEF IsSigned
<1>6. \A s \in Session : BlacklistExpiresAt >= Deadline(s)
  BY <1>1, <1>3, <1>4
<1> DEFINE Known(r) == /\ r.target \subseteq Session /\ r.found \subseteq Session
                       /\ \A s \in r.target : IsSigned(s)
                       /\ \A s \in r.found : IsSigned(s) /\ r.expiresAt >= Deadline(s)
<1>7. \A o \in Op : Known(op[o])
  BY <1>4 DEF RequestsKnowSessions
<1>8. SUFFICES \A o \in Op : Known(op'[o])
  BY <1>5 DEF RequestsKnowSessions
<1>9. Known(Idle)
  BY DEF Idle
<1>10. /\ Known([Idle EXCEPT !.pc = "revoke"])
       /\ Known([Idle EXCEPT !.pc = "find", !.all = TRUE])
  BY DEF Idle
<1>11. ASSUME NEW s \in Session, IsSigned(s)
       PROVE  /\ Known([Idle EXCEPT !.pc = "refresh", !.target = {s}])
              /\ Known([Idle EXCEPT !.pc = "logout", !.target = {s}])
              /\ Known([Idle EXCEPT !.pc = "insert", !.found = {s},
                                     !.expiresAt = BlacklistExpiresAt])
  BY <1>6, <1>11 DEF Idle
<1>12. CASE \E o \in Op, s \in Session : Begin(o, s, "refresh") \/ Begin(o, s, "logout")
  <2>1. PICK o \in Op, s \in Session : Begin(o, s, "refresh") \/ Begin(o, s, "logout")
    BY <1>12
  <2>2. IsSigned(s)
    BY <2>1 DEF Begin, Verifies
  <2>3. \E r : Known(r) /\ op' = [op EXCEPT ![o] = r]
    BY <1>10, <1>11, <2>1, <2>2 DEF Begin
  <2>4. QED
    BY <1>4, <1>7, <2>3
<1>13. CASE \E o \in Op, s \in Session, t \in Session : Rotate(o, s, t)
  BY <1>4, <1>7, <1>9, <1>13 DEF Rotate
<1>14. CASE \E o \in Op, s \in Session : LoseRotation(o, s)
  BY <1>4, <1>7, <1>10, <1>14 DEF LoseRotation
<1>15. CASE \E o \in Op, s \in Session : Logout(o, s)
  <2>1. PICK o \in Op, s \in Session : Logout(o, s)
    BY <1>15
  <2>2. IsSigned(s)
    BY <1>7, <2>1 DEF Logout
  <2>3. \E r : Known(r) /\ op' = [op EXCEPT ![o] = r]
    BY <1>11, <2>1, <2>2 DEF Logout
  <2>4. QED
    BY <1>4, <1>7, <2>3
<1>16. CASE \E o \in Op : Find(o)
  <2>1. PICK o \in Op : Find(o)
    BY <1>16
  <2> DEFINE active == {s \in Session : doc[s] = "active"}
             r == [op[o] EXCEPT !.pc = "insert", !.expiresAt = BlacklistExpiresAt,
                                !.found = active]
  <2>2. op[o] \in [pc        : {"idle", "refresh", "logout", "find", "insert", "revoke"},
                    target    : SUBSET Session,
                    found     : SUBSET Session,
                    expiresAt : Expires,
                    all       : BOOLEAN]
    BY DEF LifetimeInv, TypeOK
  <2>3. r.target = op[o].target /\ r.found = active /\ r.expiresAt = BlacklistExpiresAt
    BY <2>2
  <2>4. \A s \in active : IsSigned(s) /\ BlacklistExpiresAt >= Deadline(s)
    BY <1>4, <1>6
  <2>5. op' = [op EXCEPT ![o] = r]
    BY <1>4, <2>1 DEF Find
  <2> HIDE DEF r, active
  <2>6. active \subseteq Session
    BY DEF active
  <2>7. Known(r)
    BY <1>7, <2>3, <2>4, <2>6
  <2>8. QED
    BY <1>4, <1>7, <2>5, <2>7
<1>17. CASE \E o \in Op : Insert(o)
  BY <1>4, <1>7, <1>9, <1>10, <1>17 DEF Insert
<1>18. CASE \E o \in Op : RevokeAll(o)
  BY <1>4, <1>7, <1>9, <1>18 DEF RevokeAll
<1>19. CASE UNCHANGED op
  BY <1>7, <1>19
<1>20. QED
  BY <1>12, <1>13, <1>14, <1>15, <1>16, <1>17, <1>18, <1>19
  DEF Next, vars, Login, Store, PurgeDoc, PurgeEntry, Tick
LEMMA EntriesStep ==
  ASSUME LifetimeInv, [Next]_vars
  PROVE  EntriesOutlive'
<1> DEFINE W == Read(access) * RESOLUTION
<1>1. W \in Nat
  BY ReadingIsNatural DEF LifetimeInv, TypeOK
<1>2. /\ access' = access /\ now' \in Nat /\ now' >= now
      /\ \A s \in Session : IsSigned(s) => signedAt'[s] = signedAt[s]
  BY SignedOnce DEF LifetimeInv
<1>3. \A s \in Session : Deadline(s) = signedAt[s] + W /\ Deadline(s)' = signedAt'[s] + W
  BY <1>2 DEF Deadline, ExpiresAt, Read
<1> HIDE DEF W
<1>4. /\ now \in Nat /\ barred \subseteq Session
      /\ \A s \in Session : signedAt[s] \in Nat \cup {Never}
      /\ \A s \in Session : blacklist[s] \in Int
      /\ \A o \in Op : op[o].found \subseteq Session /\ op[o].expiresAt \in Int
      /\ DOMAIN blacklist = Session
      /\ RequestsKnowSessions /\ EntriesOutlive
  BY Instants DEF LifetimeInv, TypeOK
<1>5. \A s \in Session : IsSigned(s) =>
          IsSigned(s)' /\ Deadline(s)' = Deadline(s) /\ Deadline(s) \in Nat
  BY <1>1, <1>2, <1>3, <1>4 DEF IsSigned, Never
<1>6. SUFFICES ASSUME NEW s \in barred', s \in Session
               PROVE  IsSigned(s) /\ (blacklist'[s] >= Deadline(s) \/ now' >= Deadline(s))
  <2>1. barred' \subseteq Session
    BY TypeStep DEF LifetimeInv, TypeOK
  <2>2. QED
    BY <1>5, <2>1 DEF EntriesOutlive
<1>7. CASE \E o \in Op : Insert(o)
  <2>1. PICK o \in Op : Insert(o)
    BY <1>7
  <2>2. blacklist'[s] = IF s \in op[o].found /\ blacklist[s] < op[o].expiresAt
                           THEN op[o].expiresAt ELSE blacklist[s]
    BY <1>6, <2>1 DEF Insert
  <2>3. CASE s \in op[o].found
    <3>1. IsSigned(s) /\ op[o].expiresAt >= Deadline(s)
      BY <1>4, <2>3 DEF RequestsKnowSessions
    <3>2. Deadline(s) \in Nat /\ blacklist[s] \in Int /\ op[o].expiresAt \in Int
      BY <1>4, <1>5, <1>6, <3>1
    <3>3. QED
      BY <2>2, <2>3, <3>1, <3>2
  <2>4. CASE s \notin op[o].found
    <3>1. s \in barred /\ blacklist'[s] = blacklist[s] /\ now' = now
      BY <1>6, <2>1, <2>2, <2>4 DEF Insert
    <3>2. QED
      BY <1>4, <3>1 DEF EntriesOutlive
  <2>5. QED
    BY <2>3, <2>4
<1>8. CASE \E t \in Session : PurgeEntry(t)
  <2>1. PICK t \in Session : PurgeEntry(t)
    BY <1>8
  <2>2. s \in barred /\ now' = now
    BY <1>6, <2>1 DEF PurgeEntry
  <2>3. IsSigned(s) /\ (blacklist[s] >= Deadline(s) \/ now >= Deadline(s))
    BY <1>4, <2>2 DEF EntriesOutlive
  <2>4. CASE s = t
    <3>1. blacklist[s] <= now
      BY <2>1, <2>4 DEF PurgeEntry
    <3>2. Deadline(s) \in Nat /\ blacklist[s] \in Int
      BY <1>4, <1>5, <1>6, <2>3
    <3>3. QED
      BY <1>4, <2>2, <2>3, <3>1, <3>2
  <2>5. CASE s # t
    BY <1>4, <1>6, <2>1, <2>2, <2>3, <2>5 DEF PurgeEntry
  <2>6. QED
    BY <2>4, <2>5
<1>9. CASE UNCHANGED <<blacklist, barred>>
  <2>1. IsSigned(s) /\ (blacklist[s] >= Deadline(s) \/ now >= Deadline(s))
    BY <1>4, <1>6, <1>9 DEF EntriesOutlive
  <2>2. Deadline(s) \in Nat
    BY <1>5, <1>6, <2>1
  <2>3. QED
    BY <1>2, <1>4, <1>9, <2>1, <2>2
<1>10. QED
  BY <1>7, <1>8, <1>9
  DEF Next, vars, Login, Store, PurgeDoc, Begin, Rotate, LoseRotation, Logout, Find, RevokeAll, Tick

LEMMA PurgesStep ==
  ASSUME LifetimeInv, [Next]_vars
  PROVE  PurgedInTime'
<1> DEFINE V == Read(refresh) * RESOLUTION
<1>1. V \in Nat
  BY ReadingIsNatural DEF LifetimeInv, TypeOK
<1>2. /\ refresh' = refresh /\ now' \in Nat /\ now' >= now
      /\ \A s \in Session : IsSigned(s) => signedAt'[s] = signedAt[s]
  BY SignedOnce DEF LifetimeInv
<1>3. \A s \in Session : DocExpiresAt(s) = signedAt[s] + V /\ DocExpiresAt(s)' = signedAt'[s] + V
  BY <1>2 DEF DocExpiresAt, ExpiresAt, Read
<1> HIDE DEF V
<1>4. /\ now \in Nat
      /\ \A s \in Session : signedAt[s] \in Nat \cup {Never}
      /\ \A s \in Session : doc[s] # "none" => IsSigned(s)
      /\ DOMAIN doc = Session
      /\ PurgedInTime
  BY Instants DEF LifetimeInv, TypeOK
<1>5. SUFFICES ASSUME NEW s \in Session, doc'[s] = "gone"
               PROVE  now' >= DocExpiresAt(s)'
  BY DEF PurgedInTime
<1>6. doc[s] = "gone" \/ PurgeDoc(s)
  BY <1>4, <1>5
  DEF Next, vars, Login, Store, PurgeDoc, PurgeEntry, Begin, Rotate, LoseRotation, Logout,
      Find, Insert, RevokeAll, Tick
<1>7. IsSigned(s) /\ now >= DocExpiresAt(s)
  BY <1>4, <1>6 DEF PurgedInTime, PurgeDoc
<1>8. DocExpiresAt(s)' = DocExpiresAt(s) /\ DocExpiresAt(s) \in Nat
  BY <1>1, <1>2, <1>3, <1>4, <1>7 DEF IsSigned, Never
<1>9. QED
  BY <1>2, <1>4, <1>7, <1>8

LEMMA LifetimeInit == Init => LifetimeInv
<1> SUFFICES ASSUME Init PROVE LifetimeInv
    OBVIOUS
<1>1. TypeOK
  BY TypeInit
<1>2. \A s \in Session : signedAt[s] <= now
  BY DEF Init, Never
<1>3. RequestsKnowSessions /\ EntriesOutlive /\ PurgedInTime
  BY DEF Init, Idle, RequestsKnowSessions, EntriesOutlive, PurgedInTime
<1>4. QED
  BY <1>1, <1>2, <1>3 DEF LifetimeInv

LEMMA LifetimeStep == LifetimeInv /\ [Next]_vars => LifetimeInv'
<1> SUFFICES ASSUME LifetimeInv, [Next]_vars PROVE LifetimeInv'
    OBVIOUS
<1>1. TypeOK'
  BY TypeStep DEF LifetimeInv
<1>2. (\A s \in Session : signedAt[s] <= now)'
  BY SignedOnce DEF LifetimeInv
<1>3. RequestsKnowSessions' /\ EntriesOutlive' /\ PurgedInTime'
  BY RequestsStep, EntriesStep, PurgesStep
<1>4. QED
  BY <1>1, <1>2, <1>3 DEF LifetimeInv

LEMMA LifetimeInvariance == Spec => []LifetimeInv
<1>1. Init => LifetimeInv
  BY LifetimeInit
<1>2. LifetimeInv /\ [Next]_vars => LifetimeInv'
  BY LifetimeStep
<1>3. QED
  BY <1>1, <1>2, PTL DEF Spec

------------------------------------------------------------------------------
\* Theorems

\* Times, documents and requests keep their shapes, and what was never signed is
\* nowhere.
THEOREM LifetimesTyped == Spec => []TypeOK
<1>1. LifetimeInv => TypeOK
  BY DEF LifetimeInv
<1>2. QED
  BY <1>1, LifetimeInvariance, PTL

\* token.service.ts, blacklistExpiresAt: no access token of a session that was
\* ever blacklisted is accepted again, by whatever setting that is read as no
\* shorter than it is signed with, and whenever the entry is written and purged.
THEOREM BarredForLife == Spec => []BarredIsBarred
<1>1. LifetimeInv => BarredIsBarred
  <2> SUFFICES ASSUME LifetimeInv, Covers(access), NEW s \in barred
               PROVE  ~Accepts(s)
    BY DEF BarredIsBarred
  <2>1. /\ s \in Session /\ access \in Setting /\ TypeOK
        /\ signedAt[s] \in Nat /\ IsSigned(s)
    BY Instants DEF LifetimeInv, TypeOK, EntriesOutlive, IsSigned
  <2>2. blacklist[s] >= Deadline(s) \/ now >= Deadline(s)
    BY DEF LifetimeInv, EntriesOutlive
  <2>3. CASE blacklist[s] >= Deadline(s)
    <3>1. Deadline(s) \in Nat
      BY <2>1, ReadingIsNatural DEF Deadline, ExpiresAt
    <3>2. blacklist[s] # Never
      BY <2>3, <3>1 DEF Never
    <3>3. QED
      BY <3>2 DEF Accepts
  <2>4. CASE now >= Deadline(s)
    BY <2>1, <2>4, ExpiredByThen DEF Deadline, Accepts
  <2>5. QED
    BY <2>2, <2>3, <2>4
<1>2. QED
  BY <1>1, LifetimeInvariance, PTL

\* token.model.ts, the TTL index: while a refresh token verifies its document is
\* there, spent or not, so a reuse is known as one.
THEOREM SpentStaysRemembered == Spec => []SpentIsRemembered
<1>1. LifetimeInv => SpentIsRemembered
  <2> SUFFICES ASSUME LifetimeInv, Covers(refresh), NEW s \in Session,
                      Verifies(s, refresh), doc[s] = "gone"
               PROVE  FALSE
    BY DEF SpentIsRemembered
  <2>1. TypeOK /\ IsSigned(s) /\ refresh \in Setting
    BY DEF LifetimeInv, TypeOK, Verifies
  <2>2. now >= ExpiresAt(signedAt[s], refresh)
    BY DEF LifetimeInv, PurgedInTime, DocExpiresAt
  <2>3. QED
    BY <2>1, <2>2, ExpiredByThen
<1>2. QED
  BY <1>1, LifetimeInvariance, PTL
=============================================================================
