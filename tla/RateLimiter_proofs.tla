------------------------- MODULE RateLimiter_proofs -------------------------
(***************************************************************************)
(* Theorems about RateLimiter, for every limit and every window.           *)
(***************************************************************************)
EXTENDS RateLimiter, FiniteSetTheorems, FunctionTheorems, TLAPS

\* The counter has counted every admission of its window.
CountedInv ==
    /\ TypeOK
    /\ opened <= Limit
    /\ key.ttl # 0 => opened <= key.n

LEMMA IncrTyping ==
  ASSUME NEW k \in Key(Cap, Window)
  PROVE  LET j == IncrWithExpiry(k, WindowSeconds, Cap)
         IN  /\ j \in Key(Cap, Window)
             /\ j.n = IF k.n < Cap THEN k.n + 1 ELSE Cap
             /\ j.ttl = IF k.ttl = 0 THEN Window ELSE k.ttl
  BY RateLimiterAssumption DEF Key, IncrWithExpiry, WindowSeconds, Cap

LEMMA ElapseTyping ==
  ASSUME NEW k \in Key(Cap, Window)
  PROVE  /\ Elapse(k) \in Key(Cap, Window)
         /\ Elapse(k).ttl # 0 => Elapse(k).n = k.n /\ k.ttl # 0
  BY RateLimiterAssumption DEF Key, Elapse, NoKey, Cap

LEMMA CountedInit == Init => CountedInv
  BY RateLimiterAssumption DEF Init, CountedInv, TypeOK, Key, NoKey, Cap

LEMMA CountedStep == CountedInv /\ [Next]_vars => CountedInv'
<1> SUFFICES ASSUME CountedInv, [Next]_vars PROVE CountedInv'
    OBVIOUS
<1>0. /\ key \in Key(Cap, Window)
      /\ key.n \in 0..Cap /\ key.ttl \in 0..Window
      /\ opened \in Nat
      /\ recent \in [0..(Window - 1) -> Nat]
      /\ answer \in {"none", "next", "tooManyRequests"}
      /\ failures \in 0..MaxFailures /\ MaxFailures \in Nat
      /\ opened <= Limit
      /\ key.ttl # 0 => opened <= key.n
      /\ Limit \in Nat /\ Limit >= 1 /\ Window \in Nat /\ Window >= 1
  BY RateLimiterAssumption DEF CountedInv, TypeOK, Key
<1>1. /\ OpenedBefore \in Nat
      /\ OpenedBefore <= Limit
      /\ OpenedBefore <= key.n
  BY <1>0 DEF OpenedBefore
<1>2. ASSUME key' = IncrWithExpiry(key, WindowSeconds, Cap)
      PROVE  /\ key' \in Key(Cap, Window)
             /\ key'.n = IF key.n < Cap THEN key.n + 1 ELSE Cap
             /\ key'.ttl # 0
  BY <1>0, <1>2, IncrTyping
<1>3. CASE Hit
  <2>1. CASE Allowed(key'.n) /\ Admit
    <3>1. /\ opened' = OpenedBefore + 1
          /\ opened' <= key'.n
          /\ key'.n \in Nat
          /\ key'.n <= Limit
      BY <1>0, <1>1, <1>2, <1>3, <2>1 DEF Hit, Admit, Allowed, Cap
    <3>2. recent' \in [0..(Window - 1) -> Nat]
      BY <1>0, <2>1 DEF Admit
    <3>3. key' \in Key(Cap, Window)
      BY <1>2, <1>3 DEF Hit
    <3>4. opened' \in Nat /\ opened' <= Limit
      BY <1>0, <1>1, <3>1
    <3>5. answer' = "next" /\ failures' \in 0..MaxFailures
      BY <1>0, <1>3, <2>1 DEF Hit, Admit
    <3> QED
      BY <3>1, <3>2, <3>3, <3>4, <3>5 DEF CountedInv, TypeOK
  <2>2. CASE Deny
    <3>1. opened' <= key'.n
      BY <1>0, <1>1, <1>2, <1>3, <2>2 DEF Hit, Deny, Cap
    <3> QED
      BY <1>0, <1>1, <1>2, <1>3, <2>2, <3>1 DEF Hit, Deny, CountedInv, TypeOK
  <2> QED
    BY <1>3, <2>1, <2>2 DEF Hit
<1>4. CASE HitUnavailable
  <2>1. CASE UNCHANGED <<key, opened>>
    BY <1>0, <1>4, <2>1 DEF HitUnavailable, CountedInv, TypeOK
  <2>2. CASE key' = IncrWithExpiry(key, WindowSeconds, Cap) /\ opened' = OpenedBefore
    <3>1. opened' <= key'.n
      BY <1>0, <1>1, <1>2, <2>2 DEF Cap
    <3> QED
      BY <1>0, <1>1, <1>2, <1>4, <2>2, <3>1 DEF HitUnavailable, CountedInv, TypeOK
  <2> QED
    BY <1>4, <2>1, <2>2 DEF HitUnavailable
<1>5. CASE Tick
  <2>1. key' \in Key(Cap, Window) /\ (key'.ttl # 0 => key'.n = key.n /\ key.ttl # 0)
    BY <1>0, <1>5, ElapseTyping DEF Tick
  <2>2. recent' \in [0..(Window - 1) -> Nat]
    BY <1>0, <1>5 DEF Tick
  <2> QED
    BY <1>0, <1>5, <2>1, <2>2 DEF Tick, CountedInv, TypeOK
<1>6. CASE UNCHANGED vars
  BY <1>6 DEF vars, CountedInv, TypeOK
<1> QED
  BY <1>3, <1>4, <1>5, <1>6 DEF Next

LEMMA CountedAlways == Spec => []CountedInv
  BY CountedInit, CountedStep, PTL DEF Spec

\* The counter, its time to live and the histories stay in their ranges for
\* every limit and every window.
THEOREM LimiterTypes == Spec => []TypeOK
<1>1. CountedInv => TypeOK
  BY DEF CountedInv
<1> QED
  BY <1>1, CountedAlways, PTL

\* Every window of the limiter admits at most its limit, for every limit and
\* every window, with Redis failing at any point.
THEOREM NoWindowOverLimit == Spec => []WindowCap
<1>1. CountedInv => WindowCap
  BY DEF CountedInv, WindowCap
<1> QED
  BY <1>1, CountedAlways, PTL
------------------------------------------------------------------------------
\* The admissions of the last window's length of time are those of the window
\* that is open and those of one window before it, of which nothing is left when
\* the open one is as old as it gets.
Age == Window - key.ttl
OfThisWindow == {m \in InLastWindow : m[1] <= Age}
OfEarlierOnes == {m \in InLastWindow : m[1] > Age}

BurstInv ==
    /\ IsFiniteSet(InLastWindow)
    /\ key.ttl = 0 => recent[0] = 0 /\ Cardinality(InLastWindow) <= Limit
    /\ key.ttl # 0 => Cardinality(OfThisWindow) <= opened /\ Cardinality(OfEarlierOnes) <= Limit

\* The pairs of a history of admissions.
Admissions(r) == UNION {{age} \X (1..r[age]) : age \in 0..(Window - 1)}

LEMMA AdmissionsAre ==
  ASSUME NEW r \in [0..(Window - 1) -> Nat], NEW m
  PROVE  m \in Admissions(r) <=> /\ m = <<m[1], m[2]>>
                                 /\ m[1] \in 0..(Window - 1)
                                 /\ m[2] \in Int /\ 1 <= m[2] /\ m[2] <= r[m[1]]
  BY RateLimiterAssumption DEF Admissions

\* Pairs that were there a tick ago are no more than they were.
LEMMA ElapsedAreNoMore ==
  ASSUME NEW S, IsFiniteSet(S),
         NEW T, \A m \in T : m = <<m[1], m[2]>> /\ m[1] \in Int /\ <<m[1] - 1, m[2]>> \in S
  PROVE  IsFiniteSet(T) /\ Cardinality(T) <= Cardinality(S)
<1> DEFINE f == [m \in T |-> <<m[1] - 1, m[2]>>]
<1>1. f \in [T -> S]
  OBVIOUS
<1>2. ASSUME NEW m \in T, NEW n \in T, f[m] = f[n] PROVE m = n
  <2>1. <<m[1] - 1, m[2]>> = <<n[1] - 1, n[2]>>
    BY <1>2
  <2>2. m[1] - 1 = n[1] - 1 /\ m[2] = n[2]
    BY <2>1
  <2>3. m[1] = n[1]
    <3>1. m[1] \in Int /\ n[1] \in Int
      OBVIOUS
    <3>2. QED
      BY <2>2, <3>1
  <2>4. QED
    BY <2>2, <2>3
<1> HIDE DEF f
<1>3. f \in Injection(T, S)
  BY <1>1, <1>2 DEF Injection, IsInjective
<1>4. QED
  BY <1>3, FS_Injection

LEMMA BurstInit == Init => BurstInv
<1> SUFFICES ASSUME Init PROVE BurstInv
    OBVIOUS
<1>1. key.ttl = 0 /\ recent[0] = 0 /\ recent \in [0..(Window - 1) -> Nat]
  BY RateLimiterAssumption DEF Init, NoKey
<1>2. InLastWindow = {}
  BY RateLimiterAssumption DEF Init, InLastWindow
<1>3. QED
  BY <1>1, <1>2, FS_EmptySet, RateLimiterAssumption DEF BurstInv

\* One more admission, now.
LEMMA BurstAdmit == CountedInv /\ BurstInv /\ Hit /\ Admit => BurstInv'
<1> SUFFICES ASSUME CountedInv, BurstInv, Hit, Admit PROVE BurstInv'
    OBVIOUS
<1> DEFINE new == <<0, recent[0] + 1>>
<1>1. /\ recent \in [0..(Window - 1) -> Nat] /\ recent[0] \in Nat
      /\ recent' = [recent EXCEPT ![0] = @ + 1]
      /\ Window \in Nat /\ Window >= 1 /\ Limit \in Nat /\ Limit >= 1
      /\ key.ttl \in 0..Window
      /\ key'.ttl = IF key.ttl = 0 THEN Window ELSE key.ttl
      /\ opened \in Nat
      /\ opened' = IF key.ttl = 0 THEN 1 ELSE opened + 1
  <2>1. key \in Key(Cap, Window) /\ key.ttl \in 0..Window
    BY DEF CountedInv, TypeOK, Key
  <2>2. key'.ttl = IF key.ttl = 0 THEN Window ELSE key.ttl
    BY <2>1, IncrTyping DEF Hit
  <2>3. recent \in [0..(Window - 1) -> Nat] /\ opened \in Nat
    BY DEF CountedInv, TypeOK
  <2>4. QED
    BY <2>1, <2>2, <2>3, RateLimiterAssumption DEF Admit, OpenedBefore
<1>2. recent' \in [0..(Window - 1) -> Nat] /\ recent'[0] = recent[0] + 1
      /\ \A i \in 0..(Window - 1) : i # 0 => recent'[i] = recent[i]
  BY <1>1
<1>3. InLastWindow' = InLastWindow \cup {new} /\ new \notin InLastWindow
  <2>1. \A m : m \in InLastWindow' <=> m \in InLastWindow \/ m = new
    <3> SUFFICES ASSUME NEW m PROVE m \in InLastWindow' <=> m \in InLastWindow \/ m = new
        OBVIOUS
    <3>1. m \in Admissions(recent) <=> /\ m = <<m[1], m[2]>>
                                       /\ m[1] \in 0..(Window - 1)
                                       /\ m[2] \in Int /\ 1 <= m[2] /\ m[2] <= recent[m[1]]
      BY <1>1, AdmissionsAre
    <3>2. m \in Admissions(recent') <=> /\ m = <<m[1], m[2]>>
                                        /\ m[1] \in 0..(Window - 1)
                                        /\ m[2] \in Int /\ 1 <= m[2] /\ m[2] <= recent'[m[1]]
      BY <1>2, AdmissionsAre
    <3>3. InLastWindow = Admissions(recent) /\ InLastWindow' = Admissions(recent')
      BY DEF InLastWindow, Admissions
    <3> HIDE DEF new
    <3>4. m = new <=> m = <<m[1], m[2]>> /\ m[1] = 0 /\ m[2] = recent[0] + 1
      BY DEF new
    <3>5. CASE m[1] = 0
      BY <1>1, <1>2, <3>1, <3>2, <3>3, <3>4, <3>5
    <3>6. CASE m[1] # 0
      BY <1>1, <1>2, <3>1, <3>2, <3>3, <3>4, <3>6
    <3>7. QED
      BY <3>5, <3>6
  <2>2. new \notin InLastWindow
    <3>1. new \in Admissions(recent) => new[2] <= recent[new[1]]
      BY <1>1, AdmissionsAre
    <3>2. new[1] = 0 /\ new[2] = recent[0] + 1
      OBVIOUS
    <3>3. QED
      BY <1>1, <3>1, <3>2 DEF InLastWindow, Admissions
  <2>3. QED
    BY <2>1, <2>2
<1>4. IsFiniteSet(InLastWindow) /\ IsFiniteSet(InLastWindow')
  BY <1>3, FS_AddElement DEF BurstInv
<1>5. \A m \in InLastWindow : m[1] \in 0..(Window - 1) /\ m[2] \in Int /\ 1 <= m[2]
                                /\ m[2] <= recent[m[1]]
  BY <1>1, AdmissionsAre DEF InLastWindow, Admissions
<1>6. new[1] = 0
  OBVIOUS
<1>7. key'.ttl # 0
  BY <1>1
<1>8. CASE key.ttl = 0
  <2>1. recent[0] = 0 /\ Cardinality(InLastWindow) <= Limit
    BY <1>8 DEF BurstInv
  <2>2. Age' = 0
    BY <1>1, <1>8 DEF Age
  <2>3. \A m \in InLastWindow : m[1] > 0 /\ ~(m[1] <= 0)
    BY <1>1, <1>5, <2>1
  <2> HIDE DEF new
  <2>4. OfThisWindow' = {new}
    BY <1>3, <1>6, <2>2, <2>3 DEF OfThisWindow
  <2>5. OfEarlierOnes' = InLastWindow
    BY <1>3, <1>6, <2>2, <2>3 DEF OfEarlierOnes
  <2>6. Cardinality({new}) = 1
    BY FS_Singleton
  <2>7. QED
    BY <1>1, <1>4, <1>7, <1>8, <2>1, <2>4, <2>5, <2>6 DEF BurstInv
<1>9. CASE key.ttl # 0
  <2>1. Cardinality(OfThisWindow) <= opened /\ Cardinality(OfEarlierOnes) <= Limit
    BY <1>9 DEF BurstInv
  <2>2. Age' = Age /\ Age >= 0
    BY <1>1, <1>9 DEF Age
  <2> HIDE DEF new
  <2>3. OfThisWindow' = OfThisWindow \cup {new}
    BY <1>3, <1>6, <2>2 DEF OfThisWindow
  <2>4. OfEarlierOnes' = OfEarlierOnes
    <3>1. Age \in Int
      BY <1>1 DEF Age
    <3>2. QED
      BY <1>3, <1>6, <2>2, <3>1 DEF OfEarlierOnes
  <2>5. new \notin OfThisWindow /\ IsFiniteSet(OfThisWindow)
    BY <1>3, <1>4, FS_Subset DEF OfThisWindow
  <2>6. Cardinality(OfThisWindow) \in Nat /\ Cardinality(OfThisWindow') = Cardinality(OfThisWindow) + 1
    BY <2>3, <2>5, FS_AddElement, FS_CardinalityType
  <2>7. QED
    BY <1>1, <1>4, <1>7, <1>9, <2>1, <2>4, <2>6 DEF BurstInv
<1>10. QED
  BY <1>8, <1>9

\* A call that admits nobody, and may have opened a window.
LEMMA BurstDeny ==
  ASSUME CountedInv, BurstInv, recent' = recent,
         \/ key' = key /\ opened' = opened
         \/ key' = IncrWithExpiry(key, WindowSeconds, Cap) /\ opened' = OpenedBefore
  PROVE  BurstInv'
<1>1. /\ recent \in [0..(Window - 1) -> Nat]
      /\ Window \in Nat /\ Window >= 1 /\ Limit \in Nat
      /\ key.ttl \in 0..Window
      /\ key' = key \/ key'.ttl = IF key.ttl = 0 THEN Window ELSE key.ttl
      /\ opened \in Nat
  <2>1. key \in Key(Cap, Window) /\ key.ttl \in 0..Window
    BY DEF CountedInv, TypeOK, Key
  <2>2. key' = key \/ key'.ttl = IF key.ttl = 0 THEN Window ELSE key.ttl
    BY <2>1, IncrTyping
  <2>3. QED
    BY <2>1, <2>2, RateLimiterAssumption DEF CountedInv, TypeOK
<1>2. InLastWindow' = InLastWindow
  BY DEF InLastWindow
<1>3. CASE key'.ttl = key.ttl
  <2>1. Age' = Age
    BY <1>3 DEF Age
  <2>2. OfThisWindow' = OfThisWindow /\ OfEarlierOnes' = OfEarlierOnes
    BY <1>2, <2>1 DEF OfThisWindow, OfEarlierOnes
  <2>3. key.ttl # 0 => opened' = opened
    BY DEF OpenedBefore
  <2>4. QED
    BY <1>2, <1>3, <2>2, <2>3 DEF BurstInv
<1>4. CASE key.ttl = 0 /\ key'.ttl = Window
  <2>1. recent[0] = 0 /\ Cardinality(InLastWindow) <= Limit /\ Age' = 0
    BY <1>1, <1>4 DEF BurstInv, Age
  <2>2. \A m \in InLastWindow : m[1] > 0 /\ ~(m[1] <= 0)
    <3> SUFFICES ASSUME NEW m \in InLastWindow PROVE m[1] > 0 /\ ~(m[1] <= 0)
        OBVIOUS
    <3>1. m[1] \in 0..(Window - 1) /\ m[2] \in Int /\ 1 <= m[2] /\ m[2] <= recent[m[1]]
      BY <1>1, AdmissionsAre DEF InLastWindow, Admissions
    <3>2. QED
      BY <1>1, <2>1, <3>1
  <2>3. OfThisWindow' = {} /\ OfEarlierOnes' = InLastWindow
    BY <1>2, <2>1, <2>2 DEF OfThisWindow, OfEarlierOnes
  <2>4. opened' \in Nat
    BY <1>1 DEF OpenedBefore
  <2>5. QED
    BY <1>1, <1>2, <1>4, <2>1, <2>3, <2>4, FS_EmptySet DEF BurstInv
<1>5. QED
  BY <1>1, <1>3, <1>4

\* The clock: what is a window old is forgotten, the rest is a tick older.
LEMMA BurstTick == CountedInv /\ BurstInv /\ Tick => BurstInv'
<1> SUFFICES ASSUME CountedInv, BurstInv, Tick PROVE BurstInv'
    OBVIOUS
<1>1. /\ recent \in [0..(Window - 1) -> Nat]
      /\ recent' = [i \in 0..(Window - 1) |-> IF i = 0 THEN 0 ELSE recent[i - 1]]
      /\ Window \in Nat /\ Window >= 1 /\ Limit \in Nat
      /\ key.ttl \in 0..Window
      /\ key'.ttl = IF key.ttl <= 1 THEN 0 ELSE key.ttl - 1
      /\ opened \in Nat /\ opened <= Limit /\ opened' = opened
  BY RateLimiterAssumption DEF CountedInv, TypeOK, Key, Tick, Elapse, NoKey
<1>2. recent' \in [0..(Window - 1) -> Nat] /\ recent'[0] = 0
  BY <1>1
<1>3. IsFiniteSet(InLastWindow)
  BY DEF BurstInv
<1>4. ASSUME NEW m \in InLastWindow'
      PROVE  /\ m = <<m[1], m[2]>> /\ m[1] \in Int
             /\ <<m[1] - 1, m[2]>> \in InLastWindow
  <2>1. /\ m = <<m[1], m[2]>> /\ m[1] \in 0..(Window - 1)
        /\ m[2] \in Int /\ 1 <= m[2] /\ m[2] <= recent'[m[1]]
    BY <1>2, <1>4, AdmissionsAre DEF InLastWindow, Admissions
  <2>2. m[1] # 0
    BY <1>2, <2>1
  <2>3. recent'[m[1]] = recent[m[1] - 1] /\ m[1] - 1 \in 0..(Window - 1)
    BY <1>1, <2>1, <2>2
  <2> DEFINE n == <<m[1] - 1, m[2]>>
  <2>4. n = <<n[1], n[2]>> /\ n[1] \in 0..(Window - 1)
        /\ n[2] \in Int /\ 1 <= n[2] /\ n[2] <= recent[n[1]]
    BY <2>1, <2>3
  <2> HIDE DEF n
  <2>5. n \in InLastWindow
    BY <1>1, <2>4, AdmissionsAre DEF InLastWindow, Admissions
  <2>6. m[1] \in Int
    BY <2>1
  <2>7. QED
    BY <2>1, <2>5, <2>6 DEF n
<1>5. IsFiniteSet(InLastWindow') /\ Cardinality(InLastWindow') <= Cardinality(InLastWindow)
  BY <1>3, <1>4, ElapsedAreNoMore
<1>6. Cardinality(InLastWindow) \in Nat /\ Cardinality(InLastWindow') \in Nat
  BY <1>3, <1>5, FS_CardinalityType
\* The window ends, or none is open
<1>7. CASE key.ttl <= 1
  <2>1. Cardinality(InLastWindow) <= Limit
    <3>1. CASE key.ttl = 0
      BY <3>1 DEF BurstInv
    <3>2. CASE key.ttl = 1
      <4>1. Age = Window - 1
        BY <1>1, <3>2 DEF Age
      <4>2. \A m \in InLastWindow : m[1] <= Age
        BY <1>1, <4>1, AdmissionsAre DEF InLastWindow, Admissions
      <4>3. OfThisWindow = InLastWindow
        BY <4>2 DEF OfThisWindow
      <4>4. QED
        BY <1>1, <1>6, <3>2, <4>3 DEF BurstInv
    <3>3. key.ttl \in {0, 1}
      BY <1>1, <1>7
    <3>4. QED
      BY <3>1, <3>2, <3>3
  <2>2. key'.ttl = 0
    BY <1>1, <1>7
  <2>3. QED
    BY <1>1, <1>2, <1>5, <1>6, <2>1, <2>2 DEF BurstInv
\* or it is a tick older
<1>8. CASE key.ttl > 1
  <2>1. Age' = Age + 1 /\ Age \in Int /\ key'.ttl # 0
    BY <1>1, <1>8 DEF Age
  <2>2. IsFiniteSet(OfThisWindow) /\ IsFiniteSet(OfEarlierOnes)
    BY <1>3, FS_Subset DEF OfThisWindow, OfEarlierOnes
  <2>3. IsFiniteSet(OfThisWindow') /\ Cardinality(OfThisWindow') <= Cardinality(OfThisWindow)
    <3>1. ASSUME NEW m \in OfThisWindow'
          PROVE  m = <<m[1], m[2]>> /\ m[1] \in Int /\ <<m[1] - 1, m[2]>> \in OfThisWindow
      <4>1. m \in InLastWindow' /\ m[1] <= Age'
        BY <3>1 DEF OfThisWindow
      <4>2. m[1] \in Int
        BY <1>4, <4>1
      <4>3. m[1] - 1 <= Age
        BY <2>1, <4>1, <4>2
      <4>4. QED
        BY <1>4, <4>1, <4>3 DEF OfThisWindow
    <3>2. QED
      BY <2>2, <3>1, ElapsedAreNoMore
  <2>4. IsFiniteSet(OfEarlierOnes') /\ Cardinality(OfEarlierOnes') <= Cardinality(OfEarlierOnes)
    <3>1. ASSUME NEW m \in OfEarlierOnes'
          PROVE  m = <<m[1], m[2]>> /\ m[1] \in Int /\ <<m[1] - 1, m[2]>> \in OfEarlierOnes
      <4>1. m \in InLastWindow' /\ m[1] > Age'
        BY <3>1 DEF OfEarlierOnes
      <4>2. m[1] \in Int
        BY <1>4, <4>1
      <4>3. m[1] - 1 > Age
        BY <2>1, <4>1, <4>2
      <4>4. QED
        BY <1>4, <4>1, <4>3 DEF OfEarlierOnes
    <3>2. QED
      BY <2>2, <3>1, ElapsedAreNoMore
  <2>5. /\ Cardinality(OfThisWindow) \in Nat /\ Cardinality(OfThisWindow') \in Nat
        /\ Cardinality(OfEarlierOnes) \in Nat /\ Cardinality(OfEarlierOnes') \in Nat
    BY <2>2, <2>3, <2>4, FS_CardinalityType
  <2>6. Cardinality(OfThisWindow) <= opened /\ Cardinality(OfEarlierOnes) <= Limit
    BY <1>8 DEF BurstInv
  <2>7. Cardinality(OfThisWindow') <= opened' /\ Cardinality(OfEarlierOnes') <= Limit
    BY <1>1, <2>3, <2>4, <2>5, <2>6
  <2>8. QED
    BY <1>5, <2>1, <2>7 DEF BurstInv
<1>9. QED
  BY <1>1, <1>7, <1>8

LEMMA BurstStep == CountedInv /\ BurstInv /\ [Next]_vars => BurstInv'
<1> SUFFICES ASSUME CountedInv, BurstInv, [Next]_vars PROVE BurstInv'
    OBVIOUS
<1>1. CASE Hit
  <2>1. CASE Admit
    BY <1>1, <2>1, BurstAdmit
  <2>2. CASE Deny
    BY <1>1, <2>2, BurstDeny DEF Hit, Deny
  <2>3. QED
    BY <1>1, <2>1, <2>2 DEF Hit
<1>2. CASE HitUnavailable
  BY <1>2, BurstDeny DEF HitUnavailable
<1>3. CASE Tick
  BY <1>3, BurstTick
<1>4. CASE UNCHANGED vars
  BY <1>4, BurstDeny DEF vars
<1>5. QED
  BY <1>1, <1>2, <1>3, <1>4 DEF Next

\* No stretch of time as long as a window sees more than twice the limit, however
\* the windows fall on it and whenever Redis fails.
THEOREM BurstIsTwoWindows == Spec => []BoundaryBurst
<1>1. CountedInv /\ BurstInv => BoundaryBurst
  <2> SUFFICES ASSUME CountedInv, BurstInv PROVE BoundaryBurst
      OBVIOUS
  <2>1. opened \in Nat /\ opened <= Limit /\ Limit \in Nat /\ key.ttl \in Nat /\ Window \in Nat
    BY RateLimiterAssumption DEF CountedInv, TypeOK, Key
  <2>2. CASE key.ttl = 0
    <3>1. Cardinality(InLastWindow) <= Limit /\ Cardinality(InLastWindow) \in Nat
      BY <2>2, FS_CardinalityType DEF BurstInv
    <3>2. QED
      BY <2>1, <3>1 DEF BoundaryBurst
  <2>3. CASE key.ttl # 0
    <3>1. IsFiniteSet(OfThisWindow) /\ IsFiniteSet(OfEarlierOnes)
      BY FS_Subset DEF BurstInv, OfThisWindow, OfEarlierOnes
    <3>2. InLastWindow = OfThisWindow \cup OfEarlierOnes
      <4>1. recent \in [0..(Window - 1) -> Nat] /\ Age \in Int
        BY <2>1 DEF CountedInv, TypeOK, Age
      <4>2. \A m \in InLastWindow : m[1] \in Int
        BY <2>1, <4>1, AdmissionsAre DEF InLastWindow, Admissions
      <4>3. QED
        BY <4>1, <4>2 DEF OfThisWindow, OfEarlierOnes
    <3>3. /\ Cardinality(OfThisWindow) \in Nat /\ Cardinality(OfEarlierOnes) \in Nat
          /\ Cardinality(OfThisWindow \cap OfEarlierOnes) \in Nat
      BY <3>1, FS_CardinalityType, FS_Intersection
    <3>4. Cardinality(InLastWindow) = Cardinality(OfThisWindow) + Cardinality(OfEarlierOnes)
                                        - Cardinality(OfThisWindow \cap OfEarlierOnes)
      BY <3>1, <3>2, FS_Union
    <3>5. QED
      BY <2>1, <2>3, <3>3, <3>4 DEF BurstInv, BoundaryBurst
  <2>4. QED
    BY <2>2, <2>3
<1>2. QED
  BY <1>1, BurstInit, BurstStep, CountedAlways, PTL DEF Spec
==============================================================================
